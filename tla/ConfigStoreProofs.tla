-------------------------- MODULE ConfigStoreProofs --------------------------
(***************************************************************************)
(* That flash holds the settings in force between changes, as far as it    *)
(* can, for any number of tasks that change the configuration, any edits,  *)
(* values and rounding; that a reset keeps the keys; and that no boot ends *)
(* with a factory name.                                                    *)
(***************************************************************************)
EXTENDS ConfigStore, TLAPS

Saving(t) == pc[t] \in {"save", "write"}

\* While the unit boots no user runs; afterwards all do.
BootInv ==
  /\ pc[Boot] \in {"load", "name", "save", "write", "done"}
  /\ \A u \in Users :
       pc[u] \in IF Running
                 THEN {"idle", "get", "set", "save", "write", "give", "reset", "keep", "erase",
                       "restore", "restart"}
                 ELSE {"off"}

\* The lock is held through the save of a change and no longer; users inside a
\* reset never hold it, and stay inside until the restart.
LockInv ==
  \A u \in Users :
    /\ lock = u <=> pc[u] \in {"save", "write", "give"} /\ u \notin resetting
    /\ u \in resetting => pc[u] \in {"keep", "erase", "restore", "save", "write", "restart"}
    /\ pc[u] \in {"keep", "erase", "restore", "restart"} => u \in resetting

\* A save starts with the first field.
SaveInv == \A t \in Tasks : ~Saving(t) => k[t] = 1

\* What flash should hold of a field.
Due(f) == Stored(f, cfg[f])

\* Until a reset starts, flash holds what it should of every field but those that
\* a save still has to write, and what it is about to write is current.
MatchInv ==
  resetting = {} /\ pc[Boot] # "load" =>
    /\ \A j \in 1 .. 5 :
         \/ \E t \in Tasks : Saving(t) /\ k[t] <= j
         \/ Loaded(SaveOrder[j]) = Due(SaveOrder[j])
    /\ \A t \in Tasks : pc[t] = "write" => reg[t] = Due(SaveOrder[k[t]])

\* What flash holds of a setting, or is about to, it can hold.
HeldInv ==
  /\ \A f \in Persisted : nvs[f] # Absent => Stored(f, nvs[f]) = nvs[f]
  /\ \A t \in Tasks : pc[t] = "write" => Stored(SaveOrder[k[t]], reg[t]) = reg[t]

IInv == TypeOK /\ BootInv /\ LockInv /\ SaveInv /\ MatchInv /\ HeldInv

\* Where the key of a unit that has one is: in RAM once loaded, in the copies
\* the users edit, in what a save is about to write, and in flash but between
\* the erase and the rewrite of the only reset, which remembers it.
Lone == \A u, v \in resetting : u = v
KeyInv ==
  keyed /\ ~cut /\ ~tainted =>
    /\ pc[Boot] # "load" => cfg["keys"] # ""
    /\ \A u \in Users : local[u]["keys"] # ""
    /\ \A t \in Tasks : pc[t] = "write" /\ k[t] = 5 => reg[t] # ""
    /\ Lone => /\ \/ \E u \in Users : pc[u] = "restore"
                  \/ nvs["keys"] \notin {"", Absent}
               /\ \A u \in Users : pc[u] \in {"erase", "restore"} => keep[u] # ""
-----------------------------------------------------------------------------

\* What Loaded reads from the keys n.
Held(n, f) ==
  IF n[f] # Absent THEN n[f]
  ELSE IF f \in {"lock", "loc"} THEN Stored(f, Default[f]) ELSE ""

LEMMA BootFacts == Boot \notin Users /\ Free \notin Users
BY StoreAssumption

LEMMA SaveOrderFacts ==
  /\ Len(SaveOrder) = 5
  /\ \A j \in 1 .. 5 : SaveOrder[j] \in Persisted
  /\ \A i, j \in 1 .. 5 : SaveOrder[i] = SaveOrder[j] => i = j
  /\ \A f \in Persisted : \E j \in 1 .. 5 : f = SaveOrder[j]
BY DEF SaveOrder, Persisted

LEMMA ConfigFacts ==
  /\ Default \in Config /\ Garbage \in Config
  /\ Absent \notin Values
  /\ EmptyFlash \in [Persisted -> Values \union {Absent}]
  /\ \A n \in Names : Provisioned(n) \in [Persisted -> Values \union {Absent}]
BY StoreAssumption DEF Default, Garbage, Config, Values, Fields, Persisted, Absent,
     EmptyFlash, Provisioned, Stored

\* What flash holds of a setting is a setting, and is held as it is.
LEMMA StoredFacts ==
  ASSUME NEW f, NEW v \in Values
  PROVE  Stored(f, v) \in Values /\ Stored(f, Stored(f, v)) = Stored(f, v)
BY StoreAssumption DEF Stored

LEMMA LoadedType ==
  ASSUME TypeOK
  PROVE  /\ \A f \in Persisted : Loaded(f) \in Values
         /\ AfterBoot \in Config
<1>1. ASSUME NEW f \in Persisted PROVE Loaded(f) \in Values
  <2>1. nvs[f] \in Values \union {Absent}
    BY DEF TypeOK
  <2>2. \A g \in {"lock", "loc"} : Stored(g, Default[g]) \in Values
    BY ConfigFacts, StoredFacts DEF Config, Fields
  <2>3. "" \in Values
    BY DEF Values
  <2> QED BY <2>1, <2>2, <2>3 DEF Loaded
<1>2. AfterBoot \in Config
  <2>1. \A f \in Fields : Default[f] \in Values
    BY ConfigFacts DEF Config
  <2> QED BY <1>1, <2>1 DEF AfterBoot, Config
<1> QED BY <1>1, <1>2

LEMMA EditedType ==
  ASSUME NEW c \in Config, NEW e \in Edits \union {NoEdit}
  PROVE  Edited(c, e) \in Config
<1>1. CASE e \in Edits
  <2>1. \A f \in DOMAIN e : e[f] \in Names
    BY <1>1, StoreAssumption
  <2> QED BY <2>1 DEF Edited, Config, Values
<1>2. CASE e = NoEdit
  <2>1. DOMAIN e = {}
    BY <1>2 DEF NoEdit
  <2> QED BY <2>1 DEF Edited, Config
<1> QED BY <1>1, <1>2

LEMMA InitIInv == Init => IInv
<1> SUFFICES ASSUME Init PROVE IInv OBVIOUS
<1>1. TypeOK
  <2>1. cfg \in Config /\ nvs \in [Persisted -> Values \union {Absent}]
    BY ConfigFacts DEF Init
  <2>2. lock \in Users \union {Free} /\ resetting \in SUBSET Users
    BY DEF Init
  <2>3. pc \in [Tasks -> {"off", "load", "name", "done", "idle", "get", "set", "save", "write",
                          "give", "reset", "keep", "erase", "restore", "restart"}]
    BY DEF Init, Booting
  <2>4. edit \in [Users -> Edits \union {NoEdit}] /\ local \in [Users -> Config]
    BY ConfigFacts DEF Init
  <2>5. "" \in Values
    BY DEF Values
  <2>6. k \in [Tasks -> 1 .. Len(SaveOrder)] /\ reg \in [Tasks -> Values] /\ keep \in [Users -> Values]
    <3>1. 1 \in 1 .. Len(SaveOrder)
      BY SaveOrderFacts
    <3> QED BY <2>5, <3>1 DEF Init
  <2>7. keyed \in BOOLEAN /\ cut \in BOOLEAN /\ tainted \in BOOLEAN
    BY DEF Init
  <2> QED BY <2>1, <2>2, <2>3, <2>4, <2>6, <2>7 DEF TypeOK
<1>3. HeldInv
  <2>1. \A n \in Names, f \in Persisted :
          Provisioned(n)[f] # Absent => Stored(f, Provisioned(n)[f]) = Provisioned(n)[f]
    BY StoredFacts, StoreAssumption DEF Provisioned, Stored, Values
  <2>2. \A f \in Persisted : nvs[f] # Absent => Stored(f, nvs[f]) = nvs[f]
    BY <2>1 DEF Init, EmptyFlash
  <2> QED BY <2>2 DEF HeldInv, Init, Booting
<1>2. BootInv /\ LockInv /\ SaveInv /\ MatchInv
  BY StoreAssumption DEF Init, BootInv, LockInv, SaveInv, MatchInv, Booting, Tasks, Saving, Running
<1> QED BY <1>1, <1>2, <1>3 DEF IInv

\* A step that neither saves nor changes g_config or flash keeps what a save
\* still has to write.
LEMMA MatchKept ==
  ASSUME IInv, BootInv', UNCHANGED <<cfg, nvs, k, reg>>, resetting' # {} \/ resetting' = resetting,
         \A t \in Tasks : Saving(t) => Saving(t)',
         \A t \in Tasks : pc'[t] = "write" => pc[t] = "write",
         pc'[Boot] = pc[Boot]
  PROVE  MatchInv'
<1>1. CASE resetting' # {}
  BY <1>1 DEF MatchInv
<1>2. CASE resetting' = resetting
  <2>1. SUFFICES ASSUME resetting = {}, pc[Boot] # "load" PROVE MatchInv'
    BY <1>2 DEF MatchInv
  <2>2. ASSUME NEW j \in 1 .. 5
        PROVE  \/ \E t \in Tasks : Saving(t)' /\ k[t] <= j
               \/ Loaded(SaveOrder[j]) = Due(SaveOrder[j])
    BY <2>1 DEF IInv, MatchInv
  <2>3. \A t \in Tasks : pc'[t] = "write" => reg[t] = Due(SaveOrder[k[t]])
    BY <2>1, <1>2 DEF IInv, MatchInv, Saving
  <2> QED BY <2>2, <2>3 DEF MatchInv, Loaded, Saving, Due
<1> QED BY <1>1, <1>2

\* Only values that flash can hold come into it.
LEMMA StepHeld ==
  ASSUME IInv, [Next]_vars
  PROVE  HeldInv'
<1>1. /\ pc \in [Tasks -> {"off", "load", "name", "done", "idle", "get", "set", "save", "write",
                           "give", "reset", "keep", "erase", "restore", "restart"}]
      /\ \A t \in Tasks : k[t] \in 1 .. 5 /\ SaveOrder[k[t]] \in Persisted
      /\ nvs \in [Persisted -> Values \union {Absent}] /\ reg \in [Tasks -> Values]
  BY SaveOrderFacts DEF IInv, TypeOK
<1>2. ASSUME UNCHANGED <<nvs, k, reg>>, \A t \in Tasks : pc'[t] = "write" => pc[t] = "write"
      PROVE  HeldInv'
  BY <1>2 DEF IInv, HeldInv
<1>3. CASE Load \/ Name
  BY <1>1, <1>2, <1>3 DEF Load, Name, Goto, Booted, ramVars
<1>4. CASE Reboot
  <2>1. UNCHANGED nvs /\ \A t \in Tasks : pc'[t] # "write"
    BY <1>4 DEF Reboot, Booting
  <2> QED BY <2>1 DEF IInv, HeldInv
<1>5. ASSUME NEW t \in Tasks, ReadField(t) PROVE HeldInv'
  <2>1. /\ UNCHANGED <<nvs, k>> /\ pc' = [pc EXCEPT ![t] = "write"]
        /\ reg' = [reg EXCEPT ![t] = Stored(SaveOrder[k[t]], cfg[SaveOrder[k[t]]])]
    BY <1>5 DEF ReadField, Goto
  <2>2. cfg[SaveOrder[k[t]]] \in Values
    BY <1>1 DEF IInv, TypeOK, Config, Fields, Persisted
  <2>3. Stored(SaveOrder[k[t]], reg'[t]) = reg'[t]
    BY <1>1, <2>1, <2>2, StoredFacts
  <2>4. \A r \in Tasks : r # t => pc'[r] = pc[r] /\ reg'[r] = reg[r]
    BY <1>1, <2>1
  <2> QED BY <2>1, <2>3, <2>4 DEF IInv, HeldInv
<1>6. ASSUME NEW t \in Tasks, WriteField(t) PROVE HeldInv'
  <2>1. /\ pc[t] = "write" /\ nvs' = [nvs EXCEPT ![SaveOrder[k[t]]] = reg[t]]
    BY <1>6 DEF WriteField
  <2>2. ASSUME NEW r \in Tasks, pc'[r] = "write"
        PROVE  pc[r] = "write" /\ k'[r] = k[r] /\ reg'[r] = reg[r]
    <3>1. r # t
      <4>1. CASE k[t] < Len(SaveOrder)
        BY <1>1, <1>6, <2>2, <4>1 DEF WriteField, Goto
      <4>2. CASE ~(k[t] < Len(SaveOrder))
        <5>1. AfterSave(t)
          BY <1>6, <4>2, Zenon DEF WriteField
        <5> QED BY <1>1, <2>2, <5>1 DEF AfterSave, Booted, Goto
      <4> QED BY <4>1, <4>2
    <3>2. k'[r] = k[r] /\ reg'[r] = reg[r]
      <4>1. /\ k' = [k EXCEPT ![t] = k[t] + 1] \/ k' = [k EXCEPT ![t] = 1]
            /\ reg' = [reg EXCEPT ![t] = ""]
        BY <1>6, Zenon DEF WriteField
      <4>2. k \in [Tasks -> 1 .. Len(SaveOrder)]
        BY DEF IInv, TypeOK
      <4> QED BY <1>1, <3>1, <4>1, <4>2
    <3>3. pc[r] = "write"
      <4>1. CASE k[t] < Len(SaveOrder)
        BY <1>1, <1>6, <2>2, <3>1, <4>1 DEF WriteField, Goto
      <4>2. CASE ~(k[t] < Len(SaveOrder))
        <5>1. AfterSave(t)
          BY <1>6, <4>2, Zenon DEF WriteField
        <5> QED BY <1>1, <2>2, <3>1, <5>1 DEF AfterSave, Booted, Goto
      <4> QED BY <4>1, <4>2
    <3> QED BY <3>2, <3>3
  <2>3. \A f \in Persisted : nvs'[f] = IF f = SaveOrder[k[t]] THEN reg[t] ELSE nvs[f]
    BY <1>1, <2>1
  <2> QED BY <2>1, <2>2, <2>3 DEF IInv, HeldInv
<1>7. ASSUME NEW u \in Users, Change(u) PROVE HeldInv'
  <2>1. UNCHANGED <<nvs, k, reg>> /\ \E step : step # "write" /\ Goto(u, step)
    BY <1>7 DEF Change, Request, Get, Set, DropSet, Give, ramVars
  <2> QED BY <1>1, <1>2, <2>1 DEF Goto
<1>8. ASSUME NEW u \in Users, Reset(u) PROVE HeldInv'
  <2>1. UNCHANGED <<k, reg>> /\ \E step : step # "write" /\ Goto(u, step)
    BY <1>8 DEF Reset, RequestReset, ResetRam, KeepKeys, Erase, Restore, ramVars
  <2>2. \A r \in Tasks : pc'[r] = "write" => pc[r] = "write"
    BY <1>1, <2>1 DEF Goto
  <2>3. \A f \in Persisted : nvs'[f] \in {nvs[f], Absent} \/ f = "keys"
    BY <1>1, <1>8 DEF Reset, RequestReset, ResetRam, KeepKeys, Erase, Restore, EmptyFlash
  <2>4. \A v : Stored("keys", v) = v
    BY DEF Stored
  <2> QED BY <2>1, <2>2, <2>3, <2>4 DEF IInv, HeldInv
<1>9. CASE UNCHANGED vars
  BY <1>2, <1>9 DEF vars, ramVars
<1> QED
  BY <1>3, <1>4, <1>5, <1>6, <1>7, <1>8, <1>9
  DEF Next, PowerLoss, Restart, Save, Tasks

LEMMA ChangeIInv ==
  ASSUME IInv, NEW u \in Users, Change(u)
  PROVE  IInv'
<1> USE BootFacts
<1>0. u \in Tasks /\ u # Boot
  BY DEF Tasks
<1>h. HeldInv'
  BY StepHeld DEF Next
<1>1. ASSUME NEW e \in Edits, Request(u, e) PROVE IInv'
  <2>1. TypeOK'
    BY <1>0, <1>1 DEF IInv, Request, TypeOK, Goto, historyVars
  <2>2. BootInv' /\ LockInv' /\ SaveInv'
    BY <1>0, <1>1 DEF IInv, TypeOK, Request, BootInv, LockInv, SaveInv, Goto, Tasks, Saving, Running
  <2>3. MatchInv'
    BY <1>0, <1>1, <2>2, MatchKept DEF IInv, TypeOK, Request, Goto, Tasks, Saving
  <2> QED BY <1>h, <2>1, <2>2, <2>3 DEF IInv
<1>2. CASE Get(u)
  <2>1. TypeOK'
    <3>1. edit[u] \in Edits \union {NoEdit} /\ cfg \in Config
      BY DEF IInv, TypeOK
    <3>2. Edited(IF lock = Free THEN cfg ELSE Garbage, edit[u]) \in Config
      BY <3>1, ConfigFacts, EditedType
    <3>3. local' \in [Users -> Config]
      BY <1>2, <3>2 DEF IInv, TypeOK, Get
    <3> QED BY <1>0, <1>2, <3>3 DEF IInv, Get, TypeOK, Goto, historyVars
  <2>2. BootInv' /\ LockInv' /\ SaveInv'
    BY <1>0, <1>2 DEF IInv, TypeOK, Get, BootInv, LockInv, SaveInv, Goto, Tasks, Saving, Running
  <2>3. MatchInv'
    BY <1>0, <1>2, <2>2, MatchKept DEF IInv, TypeOK, Get, Goto, Tasks, Saving
  <2> QED BY <1>h, <2>1, <2>2, <2>3 DEF IInv
<1>3. CASE Set(u)
  <2>1. /\ pc[u] = "set" /\ lock = Free /\ lock' = u /\ pc' = [pc EXCEPT ![u] = "save"]
        /\ UNCHANGED <<nvs, resetting, k, reg, keep>>
    BY <1>3 DEF Set, Hold, Goto
  <2>2. TypeOK'
    <3>1. cfg' \in Config
      BY <1>3 DEF IInv, TypeOK, Set
    <3>2. edit' \in [Users -> Edits \union {NoEdit}] /\ local' \in [Users -> Config]
      BY <1>3, ConfigFacts DEF IInv, TypeOK, Set
    <3>3. keyed' \in BOOLEAN /\ cut' \in BOOLEAN
      BY <1>3 DEF IInv, TypeOK, Set
    <3>4. tainted' \in BOOLEAN
      BY <1>3, Zenon DEF IInv, TypeOK, Set
    <3> QED BY <1>0, <2>1, <3>1, <3>2, <3>3, <3>4 DEF IInv, TypeOK
  <2>3. BootInv' /\ LockInv' /\ SaveInv'
    BY <1>0, <2>1 DEF IInv, TypeOK, BootInv, LockInv, SaveInv, Tasks, Saving, Running
  <2>4. MatchInv'
    <3>1. CASE resetting # {}
      BY <2>1, <3>1 DEF MatchInv
    <3>2. CASE resetting = {}
      <4>1. k'[u] = 1 /\ Saving(u)'
        BY <1>0, <2>1 DEF IInv, TypeOK, SaveInv, Saving
      <4>2. \A j \in 1 .. 5 : \E t \in Tasks : Saving(t)' /\ k'[t] <= j
        BY <1>0, <4>1 DEF Saving
      <4>3. \A t \in Tasks : pc'[t] # "write"
        BY <1>0, <2>1, <3>2 DEF IInv, TypeOK, BootInv, LockInv, Tasks, Running
      <4> QED BY <4>2, <4>3 DEF MatchInv, Saving
    <3> QED BY <3>1, <3>2
  <2> QED BY <1>h, <2>2, <2>3, <2>4 DEF IInv
<1>4. CASE DropSet(u)
  <2>1. TypeOK'
    BY <1>0, <1>4, ConfigFacts DEF IInv, DropSet, TypeOK, Goto, historyVars
  <2>2. BootInv' /\ LockInv' /\ SaveInv'
    BY <1>0, <1>4 DEF IInv, TypeOK, DropSet, BootInv, LockInv, SaveInv, Goto, Tasks, Saving, Running
  <2>3. MatchInv'
    BY <1>0, <1>4, <2>2, MatchKept DEF IInv, TypeOK, DropSet, Goto, Tasks, Saving
  <2> QED BY <1>h, <2>1, <2>2, <2>3 DEF IInv
<1>5. CASE Give(u)
  <2>1. TypeOK'
    BY <1>0, <1>5 DEF IInv, Give, TypeOK, Goto, ramVars, historyVars
  <2>2. BootInv' /\ LockInv' /\ SaveInv'
    BY <1>0, <1>5 DEF IInv, TypeOK, Give, BootInv, LockInv, SaveInv, Goto, Tasks, Saving, Running,
         ramVars
  <2>3. MatchInv'
    BY <1>0, <1>5, <2>2, MatchKept DEF IInv, TypeOK, Give, Goto, Tasks, Saving, ramVars
  <2> QED BY <1>h, <2>1, <2>2, <2>3 DEF IInv
<1> QED BY <1>1, <1>2, <1>3, <1>4, <1>5 DEF Change

LEMMA ResetIInv ==
  ASSUME IInv, NEW u \in Users, Reset(u)
  PROVE  IInv'
<1> USE BootFacts
<1>0. u \in Tasks /\ u # Boot
  BY DEF Tasks
<1>h. HeldInv'
  BY StepHeld DEF Next
<1>1. CASE RequestReset(u)
  <2>1. TypeOK'
    BY <1>0, <1>1 DEF IInv, RequestReset, TypeOK, Goto, ramVars, historyVars
  <2>2. BootInv' /\ LockInv' /\ SaveInv'
    BY <1>0, <1>1 DEF IInv, TypeOK, RequestReset, BootInv, LockInv, SaveInv, Goto, Tasks, Saving,
         Running, ramVars
  <2>3. MatchInv'
    BY <1>0, <1>1, <2>2, MatchKept DEF IInv, TypeOK, RequestReset, Goto, Tasks, Saving, ramVars
  <2> QED BY <1>h, <2>1, <2>2, <2>3 DEF IInv
<1>2. CASE ResetRam(u)
  <2>1. cfg' \in Config
    BY <1>2, ConfigFacts DEF IInv, TypeOK, ResetRam, Defaulted, Config, Fields
  <2>2. TypeOK'
    BY <1>0, <1>2, <2>1 DEF IInv, ResetRam, TypeOK, Goto, ramVars, historyVars
  <2>3. BootInv' /\ LockInv' /\ SaveInv'
    BY <1>0, <1>2 DEF IInv, TypeOK, ResetRam, BootInv, LockInv, SaveInv, Goto, Tasks, Saving,
         Running, ramVars
  <2>4. MatchInv'
    BY <1>2 DEF ResetRam, MatchInv
  <2> QED BY <1>h, <2>2, <2>3, <2>4 DEF IInv
<1>3. CASE KeepKeys(u)
  <2>1. Loaded("keys") \in Values
    BY LoadedType DEF IInv, Persisted
  <2>2. TypeOK'
    BY <1>0, <1>3, <2>1 DEF IInv, KeepKeys, TypeOK, Goto, historyVars
  <2>3. BootInv' /\ LockInv' /\ SaveInv'
    BY <1>0, <1>3 DEF IInv, TypeOK, KeepKeys, BootInv, LockInv, SaveInv, Goto, Tasks, Saving, Running
  <2>4. MatchInv'
    BY <1>0, <1>3, <2>3, MatchKept DEF IInv, TypeOK, KeepKeys, Goto, Tasks, Saving
  <2> QED BY <1>h, <2>2, <2>3, <2>4 DEF IInv
<1>4. CASE Erase(u)
  <2>1. TypeOK'
    BY <1>0, <1>4, ConfigFacts DEF IInv, Erase, TypeOK, Goto, ramVars, historyVars
  <2>2. BootInv' /\ LockInv' /\ SaveInv'
    BY <1>0, <1>4 DEF IInv, TypeOK, Erase, BootInv, LockInv, SaveInv, Goto, Tasks, Saving, Running,
         ramVars
  <2>3. MatchInv'
    BY <1>4 DEF IInv, Erase, LockInv, MatchInv
  <2> QED BY <1>h, <2>1, <2>2, <2>3 DEF IInv
<1>5. CASE Restore(u)
  <2>1. nvs' \in [Persisted -> Values \union {Absent}]
    BY <1>5 DEF IInv, TypeOK, Restore, Persisted
  <2>2. "" \in Values
    BY DEF Values
  <2>3. TypeOK'
    BY <1>0, <1>5, <2>1, <2>2 DEF IInv, Restore, TypeOK, Goto, historyVars
  <2>4. BootInv' /\ LockInv' /\ SaveInv'
    BY <1>0, <1>5 DEF IInv, TypeOK, Restore, BootInv, LockInv, SaveInv, Goto, Tasks, Saving, Running
  <2>5. MatchInv'
    BY <1>5 DEF IInv, Restore, LockInv, MatchInv
  <2> QED BY <1>h, <2>3, <2>4, <2>5 DEF IInv
<1> QED BY <1>1, <1>2, <1>3, <1>4, <1>5 DEF Reset

LEMMA NextIInv == IInv /\ [Next]_vars => IInv'
<1> SUFFICES ASSUME IInv, [Next]_vars PROVE IInv'
  OBVIOUS
<1> USE BootFacts
<1>h. HeldInv'
  BY StepHeld
<1>1. CASE Load
  <2>1. TypeOK'
    BY <1>1, LoadedType DEF IInv, Load, TypeOK, Goto, Tasks, ramVars, historyVars
  <2>2. BootInv' /\ LockInv' /\ SaveInv'
    BY <1>1 DEF IInv, TypeOK, Load, BootInv, LockInv, SaveInv, Goto, Tasks, Saving, Running, ramVars
  <2>3. MatchInv'
    <3>1. cfg' = AfterBoot /\ UNCHANGED nvs /\ \A t \in Tasks : pc'[t] # "write"
      BY <1>1 DEF IInv, TypeOK, Load, BootInv, Goto, Tasks, Running
    <3>2. ASSUME NEW f \in Persisted PROVE Loaded(f) = Stored(f, AfterBoot[f])
      <4>1. AfterBoot[f] = Loaded(f) /\ Loaded(f) \in Values
        BY LoadedType DEF AfterBoot, Fields, Persisted, IInv
      <4>2. nvs[f] # Absent => Loaded(f) = Stored(f, Loaded(f))
        BY DEF IInv, HeldInv, Loaded
      <4>3. nvs[f] = Absent => Loaded(f) = Stored(f, Loaded(f))
        BY ConfigFacts, StoredFacts DEF Loaded, Stored, Config, Fields
      <4> QED BY <4>1, <4>2, <4>3
    <3> QED BY <3>1, <3>2, SaveOrderFacts DEF MatchInv, Due, Loaded
  <2> QED BY <1>h, <2>1, <2>2, <2>3 DEF IInv
<1>2. CASE Name
  <2>1. CASE FactoryNamed
    <3>1. "mac" \in Values
      BY DEF Values
    <3>2. cfg' \in Config
      <4>1. cfg \in [Fields -> Values]
        BY DEF IInv, TypeOK, Config
      <4>2. cfg' = [cfg EXCEPT !["uas"] = "mac", !["op"] = "mac"]
        BY <1>2, <2>1 DEF Name
      <4> HIDE DEF Fields, Values
      <4>3. cfg' \in [Fields -> Values]
        BY <3>1, <4>1, <4>2
      <4> QED BY <4>3 DEF Config
    <3>3. pc' = [pc EXCEPT ![Boot] = "save"]
      BY <1>2, <2>1 DEF Name, Goto
    <3>4. TypeOK'
      BY <1>2, <3>2, <3>3 DEF IInv, Name, TypeOK, ramVars, historyVars
    <3>5. BootInv' /\ LockInv' /\ SaveInv'
      BY <1>2, <3>3 DEF IInv, TypeOK, Name, BootInv, LockInv, SaveInv, Tasks, Saving, Running, ramVars
    <3>6. k[Boot] = 1 /\ \A u \in Users : pc[u] = "off"
      BY <1>2 DEF IInv, Name, BootInv, SaveInv, Saving, Running, Tasks
    <3>7. MatchInv'
      <4>1. Boot \in Tasks /\ pc'[Boot] = "save" /\ k'[Boot] = 1
        BY <1>2, <3>3, <3>6 DEF IInv, TypeOK, Name, Tasks, ramVars
      <4>2. \A j \in 1 .. 5 : \E t \in Tasks : Saving(t)' /\ k'[t] <= j
        BY <4>1 DEF Saving
      <4>3. \A t \in Tasks : pc'[t] # "write"
        BY <3>3, <3>6, <4>1 DEF IInv, TypeOK, Tasks
      <4> QED BY <4>2, <4>3 DEF MatchInv, Saving
    <3> QED BY <1>h, <3>4, <3>5, <3>7 DEF IInv
  <2>2. CASE ~FactoryNamed
    <3>1. pc' = Booted /\ UNCHANGED <<cfg, nvs, lock, resetting, ramVars, historyVars>>
      BY <1>2, <2>2 DEF Name
    <3>2. TypeOK'
      BY <3>1 DEF IInv, TypeOK, Booted, ramVars, historyVars
    <3>3. \A u \in Users : pc[u] = "off"
      BY <1>2 DEF IInv, Name, BootInv, Running
    <3>4. BootInv' /\ LockInv' /\ SaveInv'
      BY <1>2, <3>1, <3>3 DEF IInv, TypeOK, Name, BootInv, LockInv, SaveInv, Booted, Tasks, Saving,
           Running, ramVars
    <3>5. MatchInv'
      <4>1. \A t \in Tasks : ~Saving(t) /\ pc'[t] # "write"
        BY <1>2, <3>1, <3>3 DEF Name, Booted, Tasks, Saving
      <4>2. resetting = {} => \A j \in 1 .. 5 : Loaded(SaveOrder[j]) = Due(SaveOrder[j])
        BY <1>2, <4>1 DEF IInv, MatchInv, Name
      <4> QED BY <3>1, <4>1, <4>2 DEF MatchInv, Loaded, Due
    <3> QED BY <1>h, <3>2, <3>4, <3>5 DEF IInv
  <2> QED BY <2>1, <2>2
<1>3. CASE Reboot
  <2>1. TypeOK'
    <3>1. "" \in Values
      BY DEF Values
    <3>2. pc' \in [Tasks -> {"off", "load", "name", "done", "idle", "get", "set", "save", "write",
                             "give", "reset", "keep", "erase", "restore", "restart"}]
      BY <1>3 DEF Reboot, Booting
    <3>3. cfg' \in Config /\ lock' \in Users \union {Free} /\ resetting' \in SUBSET Users
          /\ nvs' \in [Persisted -> Values \union {Absent}]
      BY <1>3, ConfigFacts DEF IInv, TypeOK, Reboot
    <3>4. edit' \in [Users -> Edits \union {NoEdit}] /\ local' \in [Users -> Config]
      BY <1>3, ConfigFacts DEF Reboot
    <3>5. k' \in [Tasks -> 1 .. Len(SaveOrder)] /\ reg' \in [Tasks -> Values]
          /\ keep' \in [Users -> Values]
      <4>1. 1 \in 1 .. Len(SaveOrder)
        BY SaveOrderFacts
      <4> QED BY <1>3, <3>1, <4>1 DEF Reboot
    <3>6. keyed' \in BOOLEAN /\ cut' \in BOOLEAN /\ tainted' \in BOOLEAN
      BY <1>3 DEF IInv, TypeOK, Reboot
    <3> QED BY <3>2, <3>3, <3>4, <3>5, <3>6 DEF TypeOK
  <2>2. BootInv' /\ LockInv' /\ SaveInv' /\ MatchInv'
    BY <1>3 DEF Reboot, BootInv, LockInv, SaveInv, MatchInv, Booting, Tasks, Saving, Running
  <2> QED BY <1>h, <2>1, <2>2 DEF IInv
<1>4. ASSUME NEW t \in Tasks, ReadField(t) PROVE IInv'
  <2>1. TypeOK'
    <3>1. cfg[SaveOrder[k[t]]] \in Values
      BY SaveOrderFacts DEF IInv, TypeOK, Config, Fields, Persisted
    <3>2. Stored(SaveOrder[k[t]], cfg[SaveOrder[k[t]]]) \in Values
      BY <3>1, StoredFacts
    <3> QED BY <1>4, <3>2 DEF IInv, ReadField, TypeOK, Goto, Tasks, historyVars
  <2>2. BootInv' /\ LockInv' /\ SaveInv'
    BY <1>4 DEF IInv, TypeOK, ReadField, BootInv, LockInv, SaveInv, Goto, Tasks, Saving, Running
  <2>3. MatchInv'
    BY <1>4 DEF IInv, TypeOK, ReadField, Due, BootInv, LockInv, MatchInv, Goto, Tasks, Saving, Running, Loaded
  <2> QED BY <1>h, <2>1, <2>2, <2>3 DEF IInv
<1>5. ASSUME NEW t \in Tasks, WriteField(t) PROVE IInv'
  <2>1. k[t] \in 1 .. 5 /\ SaveOrder[k[t]] \in Persisted /\ reg[t] \in Values
    BY SaveOrderFacts DEF IInv, TypeOK
  <2>2. /\ nvs' = [nvs EXCEPT ![SaveOrder[k[t]]] = reg[t]]
        /\ nvs' \in [Persisted -> Values \union {Absent}]
    BY <1>5, <2>1 DEF IInv, TypeOK, WriteField
  <2>3. "" \in Values
    BY DEF Values
  <2>4. /\ pc[t] = "write" /\ reg' = [reg EXCEPT ![t] = ""]
        /\ UNCHANGED <<cfg, lock, resetting, edit, local, keep, historyVars>>
    BY <1>5 DEF WriteField
  <2>5. reg' \in [Tasks -> Values]
    BY <2>3, <2>4 DEF IInv, TypeOK
  <2>6. ASSUME NEW j \in 1 .. 5, j # k[t]
        PROVE  Held(nvs', SaveOrder[j]) = Held(nvs, SaveOrder[j])
    <3>1. nvs'[SaveOrder[j]] = nvs[SaveOrder[j]]
      BY <2>1, <2>2, <2>6, SaveOrderFacts DEF IInv, TypeOK
    <3> QED BY <3>1 DEF Held
  <2>7. ASSUME resetting = {}, pc[Boot] # "load"
        PROVE  Held(nvs', SaveOrder[k[t]]) = Due(SaveOrder[k[t]])
    <3>1. reg[t] = Due(SaveOrder[k[t]]) /\ reg[t] # Absent
      BY ConfigFacts, <2>1, <2>4, <2>7 DEF IInv, MatchInv
    <3>2. nvs'[SaveOrder[k[t]]] = reg[t]
      BY <2>1, <2>2 DEF IInv, TypeOK
    <3> QED BY <3>1, <3>2 DEF Held
  <2>8. ASSUME NEW r \in Tasks, r # t, resetting = {}
        PROVE  ~Saving(r)
    BY <2>4, <2>8 DEF IInv, BootInv, LockInv, Saving, Running, Tasks
  <2>9. CASE k[t] < 5
    <3>1. k' = [k EXCEPT ![t] = k[t] + 1] /\ pc' = [pc EXCEPT ![t] = "save"]
      BY <1>5, <2>9, SaveOrderFacts DEF WriteField, Goto
    <3>2. k' \in [Tasks -> 1 .. 5]
      BY <3>1, <2>9, <2>1, SaveOrderFacts DEF IInv, TypeOK
    <3>3. TypeOK'
      BY <2>2, <2>4, <2>5, <3>1, <3>2, SaveOrderFacts DEF IInv, TypeOK, historyVars
    <3>4. BootInv' /\ LockInv' /\ SaveInv'
      BY <2>4, <3>1 DEF IInv, TypeOK, BootInv, LockInv, SaveInv, Tasks, Saving, Running
    <3>5. SUFFICES ASSUME resetting = {}, pc'[Boot] # "load"
                   PROVE  MatchInv'
      BY <1>h, <2>4, <3>3, <3>4 DEF IInv, MatchInv
    <3>6. pc[Boot] # "load"
      BY <2>4, <3>1, <3>5 DEF IInv, TypeOK, Tasks
    <3>7. Saving(t)' /\ k'[t] = k[t] + 1
      BY <3>1 DEF IInv, TypeOK, Saving
    <3>8. ASSUME NEW j \in 1 .. 5
          PROVE  \/ \E r \in Tasks : Saving(r)' /\ k'[r] <= j
                 \/ Loaded(SaveOrder[j])' = Due(SaveOrder[j])'
      <4>1. CASE k[t] + 1 <= j
        BY <3>7, <4>1 DEF Saving
      <4>2. CASE j = k[t]
        BY <2>4, <2>7, <3>5, <3>6, <4>2 DEF Loaded, Held, Due
      <4>3. CASE j < k[t]
        <5>1. \A r \in Tasks : ~(Saving(r) /\ k[r] <= j)
          BY <2>1, <2>8, <3>5, <4>3
        <5>2. Loaded(SaveOrder[j]) = Due(SaveOrder[j])
          BY <3>5, <3>6, <5>1 DEF IInv, MatchInv
        <5>3. j # k[t]
          BY <2>1, <4>3
        <5>4. Held(nvs', SaveOrder[j]) = Held(nvs, SaveOrder[j])
          BY <2>6, <5>3
        <5> QED BY <2>4, <5>2, <5>4 DEF Loaded, Held, Due
      <4> QED BY <2>1, <4>1, <4>2, <4>3
    <3>9. \A r \in Tasks : pc'[r] # "write"
      BY <2>8, <3>1, <3>5 DEF IInv, TypeOK, Saving
    <3> QED BY <3>8, <3>9 DEF MatchInv, Saving, Loaded, Due
  <2>10. CASE k[t] = 5
    <3>1. k' = [k EXCEPT ![t] = 1] /\ AfterSave(t)
      <4>1. ~(k[t] < Len(SaveOrder))
        BY <2>10, SaveOrderFacts
      <4> QED BY <1>5, <4>1, Zenon DEF WriteField
    <3>2. k' \in [Tasks -> 1 .. 5]
      BY <3>1, SaveOrderFacts DEF IInv, TypeOK
    <3>3. pc' \in [Tasks -> {"off", "load", "name", "done", "idle", "get", "set", "save", "write",
                             "give", "reset", "keep", "erase", "restore", "restart"}]
      BY <3>1 DEF IInv, TypeOK, AfterSave, Booted, Goto
    <3>4. TypeOK'
      BY <2>2, <2>4, <2>5, <3>2, <3>3, SaveOrderFacts DEF IInv, TypeOK, historyVars
    <3>5. \A r \in Tasks : ~Saving(r)' => k'[r] = 1
      BY <2>4, <3>1 DEF IInv, TypeOK, BootInv, SaveInv, Saving, AfterSave, Booted, Goto, Tasks, Running
    <3>6. BootInv' /\ LockInv'
      <4>1. CASE t = Boot
        BY <2>4, <3>1, <4>1 DEF IInv, TypeOK, BootInv, LockInv, Tasks, Running, AfterSave, Booted
      <4>2. CASE t # Boot
        BY <2>4, <3>1, <4>2 DEF IInv, TypeOK, BootInv, LockInv, Tasks, Running, AfterSave, Goto
      <4> QED BY <4>1, <4>2
    <3>7. SUFFICES ASSUME resetting = {}
                   PROVE  MatchInv'
      BY <1>h, <2>4, <3>4, <3>5, <3>6 DEF IInv, SaveInv, MatchInv
    <3>8. pc[Boot] # "load"
      BY <2>4 DEF IInv, BootInv, Running, Tasks
    <3>9. ASSUME NEW j \in 1 .. 5 PROVE Loaded(SaveOrder[j])' = Due(SaveOrder[j])'
      <4>1. CASE j = 5
        BY <2>4, <2>7, <2>10, <3>7, <3>8, <4>1 DEF Loaded, Held, Due
      <4>2. CASE j < 5
        <5>1. \A r \in Tasks : ~(Saving(r) /\ k[r] <= j)
          BY <2>8, <2>10, <3>7, <4>2
        <5>2. Loaded(SaveOrder[j]) = Due(SaveOrder[j])
          BY <3>7, <3>8, <5>1 DEF IInv, MatchInv
        <5>3. j # k[t]
          BY <2>10, <4>2
        <5>4. Held(nvs', SaveOrder[j]) = Held(nvs, SaveOrder[j])
          BY <2>6, <5>3
        <5> QED BY <2>4, <5>2, <5>4 DEF Loaded, Held, Due
      <4> QED BY <4>1, <4>2
    <3>10. \A r \in Tasks : pc'[r] # "write"
      BY <2>8, <3>1, <3>7 DEF IInv, TypeOK, Saving, AfterSave, Booted, Goto
    <3> QED BY <3>9, <3>10 DEF MatchInv, Loaded, Due
  <2> QED BY <2>1, <2>9, <2>10
<1>6. ASSUME NEW u \in Users, Change(u) PROVE IInv'
  BY <1>6, ChangeIInv
<1>7. ASSUME NEW u \in Users, Reset(u) PROVE IInv'
  BY <1>7, ResetIInv
<1>8. CASE UNCHANGED vars
  BY <1>8 DEF IInv, TypeOK, BootInv, LockInv, SaveInv, MatchInv, vars, ramVars, historyVars,
       Saving, Running, Loaded, Due, HeldInv
<1> QED
  BY <1>1, <1>2, <1>3, <1>4, <1>5, <1>6, <1>7, <1>8
  DEF Next, PowerLoss, Restart, Save, Tasks

-----------------------------------------------------------------------------
LEMMA Invariance == Spec => []IInv
BY InitIInv, NextIInv, PTL DEF Spec

\* Every variable keeps its type.
THEOREM TypeCorrect == Spec => []TypeOK
<1>1. IInv => TypeOK
  BY DEF IInv
<1> QED BY Invariance, <1>1, PTL

\* Between changes, flash holds the configuration in force, the operator's location
\* rounded to a float (esp_remote_id.c:226-242, 260-275, nvs_storage.c:118-119).
THEOREM FlashCorrect == Spec => []FlashMatches
<1>1. ASSUME IInv, Quiet PROVE \A f \in Persisted : Loaded(f) = Stored(f, cfg[f])
  <2>1. resetting = {}
    BY <1>1 DEF IInv, TypeOK, LockInv, Quiet
  <2>2. \A t \in Tasks : ~Saving(t)
    BY <1>1 DEF Quiet, Running, Tasks, Saving
  <2>3. pc[Boot] # "load"
    BY <1>1 DEF Quiet, Running
  <2>4. \A j \in 1 .. 5 : Loaded(SaveOrder[j]) = Due(SaveOrder[j])
    BY <1>1, <2>1, <2>2, <2>3 DEF IInv, MatchInv
  <2> QED BY <2>4, SaveOrderFacts DEF Due
<1>2. IInv => FlashMatches
  BY <1>1 DEF FlashMatches
<1> QED BY Invariance, <1>2, PTL

\* What the steps below use of the types.
LEMMA KeyTypes ==
  ASSUME IInv
  PROVE  /\ "keys" \in Fields /\ "keys" \in Persisted /\ SaveOrder[5] = "keys"
         /\ \A f \in Persisted, j \in 1 .. 5 : SaveOrder[j] = "keys" => j = 5
         /\ \A t \in Tasks : reg[t] # Absent
         /\ \A u \in Users : keep[u] # Absent
         /\ nvs["keys"] \notin {"", Absent} => Loaded("keys") # ""
         /\ DOMAIN pc = Tasks /\ DOMAIN k = Tasks /\ DOMAIN reg = Tasks
         /\ DOMAIN keep = Users /\ DOMAIN local = Users
<1>1. "keys" \in Fields /\ "keys" \in Persisted
  BY DEF Fields, Persisted
<1>2. SaveOrder[5] = "keys" /\ \A j \in 1 .. 5 : SaveOrder[j] = "keys" => j = 5
  BY DEF SaveOrder
<1>3. (\A t \in Tasks : reg[t] # Absent) /\ (\A u \in Users : keep[u] # Absent)
  BY ConfigFacts DEF IInv, TypeOK
<1>4. nvs["keys"] \notin {"", Absent} => Loaded("keys") # ""
  BY DEF Loaded
<1> QED
  BY <1>1, <1>2, <1>3, <1>4 DEF IInv, TypeOK

LEMMA StepKeys ==
  ASSUME IInv, KeyInv, [Next]_vars
  PROVE  KeyInv'
<1> SUFFICES ASSUME keyed', ~cut', ~tainted'
             PROVE  KeyInv'
  BY DEF KeyInv
<1> USE BootFacts, KeyTypes DEF Goto, Tasks
<1>1. CASE Load
  <2>1. Lone /\ \A u \in Users : pc[u] = "off"
    BY <1>1 DEF IInv, BootInv, LockInv, TypeOK, Lone, Running, Load
  <2>2. nvs["keys"] \notin {"", Absent}
    BY <1>1, <2>1 DEF Load, historyVars, KeyInv
  <2>3. cfg'["keys"] # ""
    BY <1>1, <2>2 DEF Load, AfterBoot
  <2> QED
    BY <1>1, <2>2, <2>3 DEF Load, KeyInv, Lone, ramVars, historyVars
<1>2. CASE Name
  <2>1. cfg'["keys"] = cfg["keys"]
    BY <1>2 DEF Name, IInv, TypeOK, Config, Fields
  <2>2. \A t \in Tasks : pc'[t] = pc[t] \/ pc'[t] \in {"save", "idle", "done"}
    BY <1>2 DEF Name, Booted
  <2>3. \A u \in Users : pc[u] = "off"
    BY <1>2 DEF IInv, BootInv, Running, Name
  <2> QED
    BY <1>2, <2>1, <2>2, <2>3 DEF Name, KeyInv, Lone, ramVars, historyVars
<1>3. CASE Reboot
  <2>1. Lone /\ ~cut /\ ~tainted /\ keyed /\ \A u \in Users : pc[u] # "restore"
    BY <1>3 DEF Reboot, Lone
  <2>2. nvs'["keys"] \notin {"", Absent}
    BY <1>3, <2>1 DEF Reboot, KeyInv
  <2>3. \A t \in Tasks : pc'[t] \in {"load", "off"}
    BY <1>3 DEF Reboot, Booting
  <2>4. pc'[Boot] = "load" /\ \A u \in Users : local'[u]["keys"] = "junk"
    BY <1>3 DEF Reboot, Booting, Garbage
  <2> QED
    BY <2>2, <2>3, <2>4 DEF KeyInv
<1>4. ASSUME NEW t \in Tasks, ReadField(t) PROVE KeyInv'
  <2>1. pc[t] = "save" => pc[Boot] # "load"
    BY DEF IInv, BootInv, Running
  <2>2. k[t] = 5 => reg'[t] = cfg["keys"]
    BY <1>4 DEF ReadField, Stored
  <2> QED
    BY <1>4, <2>1, <2>2 DEF ReadField, KeyInv, Lone, historyVars
<1>5. ASSUME NEW t \in Tasks, WriteField(t) PROVE KeyInv'
  <2>1. nvs' = [nvs EXCEPT ![SaveOrder[k[t]]] = reg[t]] /\ pc[t] = "write"
        /\ UNCHANGED <<cfg, resetting, local, keep, historyVars>>
        /\ reg' = [reg EXCEPT ![t] = ""]
    BY <1>5 DEF WriteField
  <2>2. k[t] \in 1 .. 5
    BY SaveOrderFacts DEF IInv, TypeOK
  <2>3. nvs["keys"] \notin {"", Absent} => nvs'["keys"] \notin {"", Absent}
    BY <2>1, <2>2 DEF KeyInv, IInv, TypeOK, historyVars
  <2>4. \A r \in Tasks : pc'[r] = pc[r] \/ pc'[r] \in {"save", "idle", "done", "restart", "give"}
    BY <1>5 DEF WriteField, AfterSave, Booted
  <2>5. \A r \in Tasks : pc'[r] = "write" => pc[r] = "write" /\ k'[r] = k[r] /\ reg'[r] = reg[r]
    BY <1>5, <2>1 DEF WriteField, AfterSave, Booted
  <2>6. \A u \in Users : pc[u] = "restore" => pc'[u] = "restore"
    BY <1>5, <2>1 DEF WriteField, AfterSave, Booted, IInv, BootInv, Running
  <2>7. pc'[Boot] # "load" => pc[Boot] # "load"
    BY <2>4, <1>5 DEF WriteField, IInv, BootInv, Running
  <2>8. keyed /\ ~cut /\ ~tainted
    BY <2>1 DEF historyVars
  <2>9. \A r \in Tasks : pc'[r] = "write" /\ k'[r] = 5 => reg'[r] # ""
    BY <2>5, <2>8 DEF KeyInv
  <2>10. Lone' => \/ \E u \in Users : pc'[u] = "restore"
                 \/ nvs'["keys"] \notin {"", Absent}
    BY <2>1, <2>3, <2>6, <2>8 DEF KeyInv, Lone
  <2>11. Lone' => \A u \in Users : pc'[u] \in {"erase", "restore"} => keep'[u] # ""
    BY <2>1, <2>4, <2>8 DEF KeyInv, Lone
  <2>12. (pc'[Boot] # "load" => cfg'["keys"] # "") /\ \A u \in Users : local'[u]["keys"] # ""
    BY <2>1, <2>7, <2>8 DEF KeyInv
  <2> QED
    BY <2>9, <2>10, <2>11, <2>12 DEF KeyInv
<1>6. ASSUME NEW u \in Users, Change(u) PROVE KeyInv'
  <2>1. ASSUME NEW e \in Edits, Request(u, e) PROVE KeyInv'
    BY <2>1 DEF Request, KeyInv, Lone, historyVars
  <2>2. CASE Get(u)
    <3>1. pc[Boot] # "load"
      BY <2>2 DEF Get, IInv, BootInv, Running
    <3>2. local'[u]["keys"] # ""
      <4>1. edit[u] \in Edits \union {NoEdit}
        BY DEF IInv, TypeOK
      <4>2. "keys" \in DOMAIN edit[u] => edit[u]["keys"] # ""
        BY <4>1, StoreAssumption DEF NoEdit
      <4>3. Garbage["keys"] # ""
        BY DEF Garbage
      <4> DEFINE c == IF lock = Free THEN cfg ELSE Garbage
      <4>4. c["keys"] # ""
        BY <2>2, <3>1, <4>3 DEF Get, KeyInv, historyVars
      <4>5. local'[u] = Edited(c, edit[u])
        BY <2>2 DEF Get
      <4> HIDE DEF c
      <4> QED
        BY <4>2, <4>4, <4>5 DEF Edited
    <3>3. \A v \in Users : v # u => local'[v] = local[v]
      BY <2>2 DEF Get
    <3> QED
      BY <2>2, <3>2, <3>3 DEF Get, KeyInv, Lone, historyVars
  <2>3. CASE Set(u)
    <3>1. cfg'["keys"] # ""
      BY <2>3 DEF Set, KeyInv
    <3>2. \A v \in Users : local'[v]["keys"] # ""
      BY <2>3 DEF Set, KeyInv, Garbage
    <3> QED
      BY <2>3, <3>1, <3>2 DEF Set, KeyInv, Lone
  <2>4. CASE DropSet(u)
    <3>1. \A v \in Users : local'[v]["keys"] # ""
      BY <2>4 DEF DropSet, KeyInv, Garbage, historyVars
    <3> QED
      BY <2>4, <3>1 DEF DropSet, KeyInv, Lone, historyVars
  <2>5. CASE Give(u)
    BY <2>5 DEF Give, KeyInv, Lone, ramVars, historyVars
  <2> QED
    BY <1>6, <2>1, <2>2, <2>3, <2>4, <2>5 DEF Change
<1>7. ASSUME NEW u \in Users, Reset(u) PROVE KeyInv'
  <2>1. CASE RequestReset(u)
    BY <2>1 DEF RequestReset, KeyInv, Lone, ramVars, historyVars
  <2>2. CASE ResetRam(u)
    <3>1. cfg'["keys"] = cfg["keys"]
      BY <2>2 DEF ResetRam, Defaulted, Default
    <3>2. Lone' => Lone
      BY <2>2 DEF ResetRam, Lone
    <3> QED
      BY <2>2, <3>1, <3>2 DEF ResetRam, KeyInv, ramVars, historyVars
  <2>3. CASE KeepKeys(u)
    <3>1. u \in resetting /\ \A v \in Users : pc[v] = "restore" => v \in resetting
      BY <2>3 DEF KeepKeys, IInv, LockInv
    <3>2. Lone => nvs["keys"] \notin {"", Absent}
      BY <2>3, <3>1 DEF KeepKeys, KeyInv, Lone, historyVars
    <3>3. Lone => keep'[u] # ""
      BY <2>3, <3>2 DEF KeepKeys
    <3> QED
      BY <2>3, <3>2, <3>3 DEF KeepKeys, KeyInv, Lone, historyVars
  <2>4. CASE Erase(u)
    BY <2>4 DEF Erase, KeyInv, Lone, ramVars, historyVars
  <2>5. CASE Restore(u)
    <3>1. Lone => nvs'["keys"] \notin {"", Absent}
      BY <2>5 DEF Restore, KeyInv, historyVars, IInv, TypeOK
    <3> QED
      BY <2>5, <3>1 DEF Restore, KeyInv, Lone, historyVars
  <2> QED
    BY <1>7, <2>1, <2>2, <2>3, <2>4, <2>5 DEF Reset
<1>8. CASE UNCHANGED vars
  BY <1>8 DEF KeyInv, Lone, vars, ramVars, historyVars
<1> QED
  BY <1>1, <1>2, <1>3, <1>4, <1>5, <1>6, <1>7, <1>8
  DEF Next, PowerLoss, Restart, Save

LEMMA InitKeys == ASSUME Init PROVE KeyInv
<1>1. \A t \in Tasks : pc[t] \in {"load", "off"}
  BY DEF Init, Booting
<1>2. pc[Boot] = "load" /\ \A u \in Users : local[u]["keys"] = "junk"
  BY DEF Init, Booting, Garbage, Fields, Tasks
<1>3. keyed => nvs["keys"] \notin {"", Absent}
  BY StoreAssumption DEF Init, EmptyFlash, Provisioned, Persisted, Absent, Stored
<1> QED
  BY <1>1, <1>2, <1>3 DEF KeyInv, Tasks

\* A provisioned key survives every reset, restart and power loss but the one
\* between the erase and the rewrite (nvs_storage.c:192-218), for any number of
\* users and whatever they edit.
THEOREM KeysCorrect == Spec => []KeysSurvive
<1>1. Init => IInv /\ KeyInv
  BY InitIInv, InitKeys
<1>2. IInv /\ KeyInv /\ [Next]_vars => (IInv /\ KeyInv)'
  BY NextIInv, StepKeys
<1>3. IInv /\ KeyInv => KeysSurvive
  BY DEF KeyInv, KeysSurvive, Running
<1> QED BY <1>1, <1>2, <1>3, PTL DEF Spec

-----------------------------------------------------------------------------
(* The names after a boot. *)

NamesSet == cfg["uas"] # "factory" /\ cfg["op"] # "factory"
\* While the boot saves, it saves the names it has just given.
NameInv == Saving(Boot) => NamesSet

\* Until the boot is done nobody but the boot, or a power loss, takes a step.
LEMMA BootSteps ==
  ASSUME IInv, ~Running, [Next]_vars
  PROVE  Load \/ Name \/ Save(Boot) \/ Reboot \/ UNCHANGED vars
<1>1. \A u \in Users : pc[u] = "off"
  BY DEF IInv, BootInv
<1>2. \A u \in Users : ~Save(u) /\ ~Change(u) /\ ~Reset(u) /\ ~Restart(u)
  BY <1>1 DEF Save, ReadField, WriteField, Change, Request, Get, Set, DropSet, Give, Reset,
     RequestReset, ResetRam, KeepKeys, Erase, Restore, Restart
<1> QED
  BY <1>2 DEF Next, Tasks, PowerLoss

\* Once it is done, only a restart brings the unit back to where it saves.
LEMMA BootStays ==
  ASSUME IInv, Running, [Next]_vars
  PROVE  ~Saving(Boot)'
<1>1. pc[Boot] = "done" /\ Boot \notin Users /\ Boot \in Tasks
      /\ pc \in [Tasks -> {"off", "load", "name", "done", "idle", "get", "set", "save", "write",
                           "give", "reset", "keep", "erase", "restore", "restart"}]
  BY BootFacts DEF Running, Tasks, IInv, TypeOK
<1>2. CASE Reboot
  BY <1>1, <1>2 DEF Reboot, Booting, Saving
<1>3. ASSUME NEW u \in Users, NEW step, Goto(u, step) PROVE ~Saving(Boot)'
  BY <1>1, <1>3 DEF Goto, Saving
<1>4. CASE Load \/ Name \/ Save(Boot)
  BY <1>1, <1>4 DEF Load, Name, Save, ReadField, WriteField
<1>5. ASSUME NEW u \in Users, Save(u) PROVE ~Saving(Boot)'
  <2>1. \E step : Goto(u, step)
    BY <1>1, <1>5 DEF Save, ReadField, WriteField, AfterSave
  <2> QED
    BY <1>3, <2>1
<1>6. ASSUME NEW u \in Users, Change(u) \/ Reset(u) PROVE ~Saving(Boot)'
  <2>1. \E step : Goto(u, step)
    BY <1>6 DEF Change, Request, Get, Set, DropSet, Give, Reset,
       RequestReset, ResetRam, KeepKeys, Erase, Restore
  <2> QED
    BY <1>3, <2>1
<1>7. CASE UNCHANGED vars
  BY <1>1, <1>7 DEF vars, Saving
<1> QED
  BY <1>2, <1>4, <1>5, <1>6, <1>7 DEF Next, Tasks, PowerLoss, Restart

LEMMA StepNames ==
  ASSUME IInv, NameInv, [Next]_vars
  PROVE  NameInv' /\ (~Running /\ Running' => NamesSet')
<1>1. CASE Running
  BY <1>1, BootStays DEF NameInv
<1>2. CASE ~Running
  <2>1. pc[Boot] \in {"load", "name", "save", "write"} /\ Boot \in Tasks /\ cfg \in Config
        /\ pc \in [Tasks -> {"off", "load", "name", "done", "idle", "get", "set", "save", "write",
                             "give", "reset", "keep", "erase", "restore", "restart"}]
    BY <1>2 DEF IInv, BootInv, TypeOK, Running, Tasks
  <2>2. CASE Load
    BY <2>1, <2>2 DEF Load, Goto, NameInv, Saving, Running
  <2>3. CASE Name
    <3>1. CASE FactoryNamed
      <4>1. cfg' = [cfg EXCEPT !["uas"] = "mac", !["op"] = "mac"] /\ pc'[Boot] = "save"
        BY <2>1, <2>3, <3>1 DEF Name, Goto
      <4>2. cfg'["uas"] = "mac" /\ cfg'["op"] = "mac"
        BY <2>1, <4>1 DEF Config, Fields
      <4> QED
        BY <4>2 DEF NameInv, NamesSet
    <3>2. CASE ~FactoryNamed
      BY <2>3, <3>2 DEF Name, NameInv, NamesSet, FactoryNamed
    <3> QED
      BY <3>1, <3>2
  <2>4. CASE Save(Boot)
    BY <2>4 DEF Save, ReadField, WriteField, NameInv, NamesSet, Saving
  <2>5. CASE Reboot
    BY <2>1, <2>5 DEF Reboot, Booting, NameInv, Saving, Running
  <2>6. CASE UNCHANGED vars
    BY <2>6 DEF vars, NameInv, NamesSet, Saving, Running
  <2> QED
    BY <1>2, <2>2, <2>3, <2>4, <2>5, <2>6, BootSteps
<1> QED
  BY <1>1, <1>2

\* However a save of the names was cut short, a boot never ends with a factory
\* name (esp_remote_id.c:207-214).
THEOREM NamesCorrect == Spec => BootNames
<1>1. Init => IInv /\ NameInv
  <2>1. Init => NameInv
    BY DEF Init, Booting, NameInv, Saving, Tasks
  <2> QED
    BY <2>1, InitIInv
<1>2. IInv /\ NameInv /\ [Next]_vars => (IInv /\ NameInv)'
  BY NextIInv, StepNames
<1>3. IInv /\ NameInv /\ [Next]_vars
        => [~Running /\ Running' => cfg'["uas"] # "factory" /\ cfg'["op"] # "factory"]_vars
  BY StepNames DEF NamesSet
<1> QED
  BY <1>1, <1>2, <1>3, PTL DEF Spec, BootNames
-----------------------------------------------------------------------------
(* What the disagreement takes. *)

Alone == \A u, v \in Users : u = v
\* The only user there is finds the lock free and edits the configuration in
\* force, and nobody changes it before the edited one is installed.
AloneInv == \A u \in Users : pc[u] = "set" => local[u] = Edited(cfg, edit[u])

LEMMA StepAlone ==
  ASSUME IInv, Alone, AloneInv, [Next]_vars
  PROVE  AloneInv'
<1> SUFFICES ASSUME NEW u \in Users, pc'[u] = "set"
             PROVE  local'[u] = Edited(cfg', edit'[u])
  BY DEF AloneInv
<1>1. /\ u # Boot /\ u \in Tasks /\ Boot \in Tasks /\ \A t \in Tasks : t = u \/ t = Boot
      /\ pc \in [Tasks -> {"off", "load", "name", "done", "idle", "get", "set", "save", "write",
                           "give", "reset", "keep", "erase", "restore", "restart"}]
      /\ edit \in [Users -> Edits \union {NoEdit}] /\ local \in [Users -> Config]
  BY BootFacts DEF Alone, Tasks, IInv, TypeOK
<1>2. ASSUME pc[u] = "set", UNCHANGED <<cfg, local, edit>>
      PROVE  local'[u] = Edited(cfg', edit'[u])
  BY <1>2 DEF AloneInv, Edited
<1>3. pc[u] = "set" => Running
  BY DEF IInv, BootInv
<1>4. CASE Load \/ Name
  BY <1>1, <1>3, <1>4 DEF Load, Name, Goto, Booted, Running
<1>5. CASE Reboot
  BY <1>1, <1>5 DEF Reboot, Booting
<1>6. ASSUME NEW t \in Tasks, Save(t) PROVE local'[u] = Edited(cfg', edit'[u])
  <2>1. UNCHANGED <<cfg, local, edit>>
    BY <1>6 DEF Save, ReadField, WriteField
  <2>2. pc[u] = "set"
    <3>1. CASE t = u
      BY <1>1, <1>6, <3>1 DEF Save, ReadField, WriteField, AfterSave, Goto
    <3>2. CASE t = Boot
      BY <1>1, <1>6, <3>2 DEF Save, ReadField, WriteField, AfterSave, Goto, Booted
    <3> QED
      BY <1>1, <3>1, <3>2
  <2> QED
    BY <1>2, <2>1, <2>2
<1>7. ASSUME NEW e \in Edits, Request(u, e) PROVE FALSE
  BY <1>1, <1>7 DEF Request, Goto
<1>8. CASE Get(u)
  <2>1. lock = Free
    <3>1. lock # u /\ lock \in Users \union {Free}
      BY <1>8 DEF Get, IInv, LockInv, TypeOK
    <3> QED
      BY <3>1 DEF Alone
  <2>2. local' = [local EXCEPT ![u] = Edited(cfg, edit[u])] /\ UNCHANGED <<cfg, edit>>
    BY <1>8, <2>1 DEF Get
  <2>3. local'[u] = Edited(cfg, edit[u])
    BY <1>1, <2>2
  <2> QED
    BY <2>2, <2>3 DEF Edited
<1>9. CASE Set(u) \/ DropSet(u) \/ Give(u) \/ Reset(u)
  BY <1>1, <1>9 DEF Set, DropSet, Give, Reset, RequestReset, ResetRam, KeepKeys, Erase, Restore, Goto
<1>10. CASE UNCHANGED vars
  BY <1>2, <1>10 DEF vars, ramVars
<1> QED
  BY <1>4, <1>5, <1>6, <1>7, <1>8, <1>9, <1>10 DEF Alone, Next, PowerLoss, Restart, Change

\* It takes two tasks to lose a change: where only one can change the
\* configuration, a request updates the parameters it names and no other
\* (esp_remote_id.c:226-258).
THEOREM AloneCorrect == ASSUME Alone PROVE Spec => UpdatesWhatItNames
<1>1. Init => AloneInv
  BY DEF Init, Booting, AloneInv, Tasks
<1>2. IInv /\ AloneInv /\ [Next]_vars => AloneInv'
  BY StepAlone
<1>3. AloneInv => [\A u \in Users :
         Set(u) /\ ~tainted' => \A f \in Fields \ DOMAIN edit[u] : cfg'[f] = cfg[f]]_vars
  <2> SUFFICES ASSUME AloneInv, NEW u \in Users, Set(u), NEW f \in Fields \ DOMAIN edit[u]
               PROVE  cfg'[f] = cfg[f]
    OBVIOUS
  <2>1. cfg' = Edited(cfg, edit[u])
    BY DEF Set, AloneInv
  <2> QED
    BY <2>1 DEF Edited
<1> QED
  BY <1>1, <1>2, <1>3, Invariance, PTL DEF Spec, UpdatesWhatItNames
=============================================================================
