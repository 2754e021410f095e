----------------------------- MODULE ConfigStore -----------------------------
(***************************************************************************)
(* The configuration: g_config in RAM, its copy in NVS flash, and the      *)
(* tasks that change it, the web server and the console.  A change is a    *)
(* read (esp_rid_get_config), an edit and a write (esp_rid_set_config),    *)
(* each under g_lock, but not all three; a factory reset goes to flash     *)
(* without the lock.  Flash is written one key at a time, and the unit may *)
(* be restarted or lose power between any two steps.                       *)
(*                                                                         *)
(* Whether a web request passes the signature check does not matter here:  *)
(* a request that fails it changes nothing.                                *)
(***************************************************************************)
EXTENDS Integers, Sequences

CONSTANTS
  Users,    \* the tasks that change the configuration: web server and console
  Names,    \* the names, keys and other settings users enter
  Edits,    \* the edits they request: functions from fields to names
  Float,    \* the float nearest to a location, which RAM holds as a double
  Boot,     \* the boot sequence of esp_rid_init
  Free      \* g_lock has no holder

Fields == {"uas", "op", "lock", "loc", "keys", "proto"}
\* What nvs_storage_save writes, in its order.  The protocol, the pins, the
\* lighting, the private key and others are not among it.
SaveOrder == <<"uas", "op", "lock", "loc", "keys">>
Persisted == {"uas", "op", "lock", "loc", "keys"}

Values == Names \union {"", "factory", "mac", "0", "auto", "junk"}
Config == [Fields -> Values]
Default == [f \in Fields |-> CASE f \in {"uas", "op"} -> "factory" [] f \in {"lock", "loc"} -> "0"
                               [] f = "keys" -> "" [] f = "proto" -> "auto"]
\* A rid_config_t on the stack that was never written.
Garbage == [f \in Fields |-> "junk"]
Absent == "absent"
NoEdit == [f \in {} |-> ""]

ASSUME StoreAssumption ==
  /\ Boot \notin Users /\ Free \notin Users
  /\ Names \intersect {"", "factory", "absent", "junk"} = {}
  /\ \A e \in Edits : DOMAIN e \subseteq Fields /\ \A f \in DOMAIN e : e[f] \in Names
  /\ Float \in [Values -> Values]
  /\ \A v \in Values : Float[Float[v]] = Float[v]
  /\ Float["0"] = "0"

VARIABLES
  cfg,       \* g_config
  nvs,       \* the keys in flash
  lock,      \* who holds g_lock
  pc,        \* the step each task is at
  resetting, \* the users inside a factory reset
  edit,      \* the edit each user was asked for
  local,     \* the rid_config_t on each user's stack
  k,         \* how far nvs_storage_save has come
  reg,       \* the value it is about to write
  keep,      \* keys[] of nvs_storage_reset_preserve_keys
  \* History: not in the program, read by properties only.
  keyed,     \* there was a public key in flash at the start
  cut,       \* a restart came between the erase and the rewrite of a reset, or
             \* while two resets overlapped
  tainted    \* a configuration that was never read was installed

ramVars == <<edit, local, k, reg, keep>>
historyVars == <<keyed, cut, tainted>>
vars == <<cfg, nvs, lock, pc, resetting, ramVars, historyVars>>

Tasks == Users \union {Boot}

TypeOK ==
  /\ cfg \in Config
  /\ nvs \in [Persisted -> Values \union {Absent}]
  /\ lock \in Users \union {Free}
  /\ pc \in [Tasks -> {"off", "load", "name", "done", "idle", "get", "set", "save", "write",
                       "give", "reset", "keep", "erase", "restore", "restart"}]
  /\ resetting \in SUBSET Users
  /\ edit \in [Users -> Edits \union {NoEdit}]
  /\ local \in [Users -> Config]
  /\ k \in [Tasks -> 1 .. Len(SaveOrder)]
  /\ reg \in [Tasks -> Values]
  /\ keep \in [Users -> Values]
  /\ keyed \in BOOLEAN /\ cut \in BOOLEAN /\ tainted \in BOOLEAN

Goto(t, step) == pc' = [pc EXCEPT ![t] = step]
Booting == [t \in Tasks |-> IF t = Boot THEN "load" ELSE "off"]
Booted == [t \in Tasks |-> IF t = Boot THEN "done" ELSE "idle"]

\* What flash can hold of the value v of a field: the operator's location is
\* cast to a float.
Stored(f, v) == IF f = "loc" THEN Float[v] ELSE v

EmptyFlash == [f \in Persisted |-> Absent]
Provisioned(n) == [f \in Persisted |-> IF f = "lock" THEN "0" ELSE Stored(f, n)]

\* A unit with nothing in flash, or one provisioned with names and a key.
Init ==
  /\ cfg = Default
  /\ nvs \in {EmptyFlash} \union {Provisioned(n) : n \in Names}
  /\ lock = Free
  /\ pc = Booting
  /\ resetting = {}
  /\ edit = [u \in Users |-> NoEdit]
  /\ local = [u \in Users |-> Garbage]
  /\ k = [t \in Tasks |-> 1] /\ reg = [t \in Tasks |-> ""]
  /\ keep = [u \in Users |-> ""]
  /\ keyed = (nvs["keys"] # Absent) /\ cut = FALSE /\ tainted = FALSE

-----------------------------------------------------------------------------
(* Boot, restart and power loss. *)

\* Mutant: a missing key is not told from a value.
LoadedRaw(f) == nvs[f]
\* A key missing in flash leaves a number at its default, but empties a string.
Loaded(f) ==
  IF nvs[f] # Absent THEN nvs[f]
  ELSE IF f \in {"lock", "loc"} THEN Stored(f, Default[f]) ELSE ""
AfterBoot == [f \in Fields |-> IF f \in Persisted THEN Loaded(f) ELSE Default[f]]

Load ==
  /\ pc[Boot] = "load"
  /\ Goto(Boot, "name")
  /\ cfg' = AfterBoot
  /\ UNCHANGED <<nvs, lock, resetting, ramVars, historyVars>>

\* Mutant: a unit is renamed only if both names are the factory's.
FactoryNamedBoth == cfg["uas"] = "factory" /\ cfg["op"] = "factory"
FactoryNamed == cfg["uas"] = "factory" \/ cfg["op"] = "factory"

\* A unit with a factory name is renamed after its MAC address, and that is saved.
Name ==
  /\ pc[Boot] = "name"
  /\ IF FactoryNamed
     THEN cfg' = [cfg EXCEPT !["uas"] = "mac", !["op"] = "mac"] /\ Goto(Boot, "save")
     ELSE UNCHANGED cfg /\ pc' = Booted
  /\ UNCHANGED <<nvs, lock, resetting, ramVars, historyVars>>

\* RAM is lost, and with it the steps the tasks were at.
Reboot ==
  /\ pc' = Booting
  /\ cfg' = Default
  /\ lock' = Free
  /\ resetting' = {}
  /\ k' = [t \in Tasks |-> 1] /\ reg' = [t \in Tasks |-> ""]
  /\ edit' = [u \in Users |-> NoEdit] /\ local' = [u \in Users |-> Garbage]
  /\ keep' = [u \in Users |-> ""]
  /\ cut' = (cut \/ (\E u \in Users : pc[u] = "restore")
                 \/ (\E u, v \in resetting : u # v))
  /\ UNCHANGED <<nvs, keyed, tainted>>

\* esp_restart, commanded or at the end of a reset.
Restart(u) == pc[u] \in {"idle", "restart"} /\ Reboot
PowerLoss == Reboot

-----------------------------------------------------------------------------
(* nvs_storage_save: each field is read from g_config, converted and       *)
(* written to flash.  Variables of a function that returns go back to      *)
(* their initial values.                                                   *)

ReadField(t) ==
  /\ pc[t] = "save"
  /\ Goto(t, "write")
  /\ reg' = [reg EXCEPT ![t] = Stored(SaveOrder[k[t]], cfg[SaveOrder[k[t]]])]
  /\ UNCHANGED <<cfg, nvs, lock, resetting, edit, local, k, keep, historyVars>>

\* Where the caller goes on after the last field.
AfterSave(t) ==
  IF t = Boot THEN pc' = Booted
  ELSE Goto(t, IF t \in resetting THEN "restart" ELSE "give")

WriteField(t) ==
  /\ pc[t] = "write"
  /\ nvs' = [nvs EXCEPT ![SaveOrder[k[t]]] = reg[t]]
  /\ IF k[t] < Len(SaveOrder)
     THEN k' = [k EXCEPT ![t] = @ + 1] /\ Goto(t, "save")
     ELSE k' = [k EXCEPT ![t] = 1] /\ AfterSave(t)
  /\ reg' = [reg EXCEPT ![t] = ""]
  /\ UNCHANGED <<cfg, lock, resetting, edit, local, keep, historyVars>>

-----------------------------------------------------------------------------
(* A change: get, edit, set. *)

Request(u, e) ==
  /\ pc[u] = "idle"
  /\ Goto(u, "get")
  /\ edit' = [edit EXCEPT ![u] = e]
  /\ UNCHANGED <<cfg, nvs, lock, resetting, local, k, reg, keep, historyVars>>

Edited(c, e) == [f \in Fields |-> IF f \in DOMAIN e THEN e[f] ELSE c[f]]

\* esp_rid_get_config gives up when the lock is held for 100 ms, and leaves the
\* caller's variable as it was.
Get(u) ==
  /\ pc[u] = "get"
  /\ Goto(u, "set")
  /\ local' = [local EXCEPT ![u] = Edited(IF lock = Free THEN cfg ELSE Garbage, edit[u])]
  /\ UNCHANGED <<cfg, nvs, lock, resetting, edit, k, reg, keep, historyVars>>

\* Mutant: the lock is released as soon as g_config is copied.
HoldNot(u) == UNCHANGED lock
Hold(u) == lock' = u

Set(u) ==
  /\ pc[u] = "set" /\ lock = Free
  /\ Hold(u)
  /\ Goto(u, "save")
  /\ cfg' = local[u]
  /\ tainted' = (tainted \/ \E f \in Fields : local[u][f] = "junk")
  /\ edit' = [edit EXCEPT ![u] = NoEdit] /\ local' = [local EXCEPT ![u] = Garbage]
  /\ UNCHANGED <<nvs, resetting, k, reg, keep, keyed, cut>>

\* A lock held for 100 ms: the change is dropped, and the user told it was made.
DropSet(u) ==
  /\ pc[u] = "set" /\ lock # Free
  /\ Goto(u, "idle")
  /\ edit' = [edit EXCEPT ![u] = NoEdit] /\ local' = [local EXCEPT ![u] = Garbage]
  /\ UNCHANGED <<cfg, nvs, lock, resetting, k, reg, keep, historyVars>>

Give(u) ==
  /\ pc[u] = "give"
  /\ Goto(u, "idle")
  /\ lock' = Free
  /\ UNCHANGED <<cfg, nvs, resetting, ramVars, historyVars>>

-----------------------------------------------------------------------------
(* Factory reset.  Only its first step takes the lock. *)

RequestReset(u) ==
  /\ pc[u] = "idle"
  /\ Goto(u, "reset")
  /\ UNCHANGED <<cfg, nvs, lock, resetting, ramVars, historyVars>>

\* Mutant: the public keys are not copied back.
DefaultedAll == Default
Defaulted == [Default EXCEPT !["keys"] = cfg["keys"]]

\* On a timeout g_config is left alone, and the reset goes on.
ResetRam(u) ==
  /\ pc[u] = "reset"
  /\ Goto(u, "keep")
  /\ resetting' = resetting \union {u}
  /\ cfg' = IF lock = Free THEN Defaulted ELSE cfg
  /\ UNCHANGED <<nvs, lock, ramVars, historyVars>>

KeepKeys(u) ==
  /\ pc[u] = "keep"
  /\ Goto(u, "erase")
  /\ keep' = [keep EXCEPT ![u] = Loaded("keys")]
  /\ UNCHANGED <<cfg, nvs, lock, resetting, edit, local, k, reg, historyVars>>

Erase(u) ==
  /\ pc[u] = "erase"
  /\ Goto(u, "restore")
  /\ nvs' = EmptyFlash
  /\ UNCHANGED <<cfg, lock, resetting, ramVars, historyVars>>

Restore(u) ==
  /\ pc[u] = "restore"
  /\ Goto(u, "save")
  /\ nvs' = IF keep[u] # "" THEN [nvs EXCEPT !["keys"] = keep[u]] ELSE nvs
  /\ keep' = [keep EXCEPT ![u] = ""]
  /\ UNCHANGED <<cfg, lock, resetting, edit, local, k, reg, historyVars>>

-----------------------------------------------------------------------------

Save(t) == ReadField(t) \/ WriteField(t)
Change(u) == (\E e \in Edits : Request(u, e)) \/ Get(u) \/ Set(u) \/ DropSet(u) \/ Give(u)
Reset(u) == RequestReset(u) \/ ResetRam(u) \/ KeepKeys(u) \/ Erase(u) \/ Restore(u)

Next ==
  \/ Load \/ Name \/ PowerLoss
  \/ \E t \in Tasks : Save(t)
  \/ \E u \in Users : Change(u) \/ Reset(u) \/ Restart(u)

Spec == Init /\ [][Next]_vars

-----------------------------------------------------------------------------
Running == pc[Boot] = "done"
Quiet == Running /\ \A u \in Users : pc[u] \in {"idle", "get", "set", "give", "reset"}

\* Between changes flash holds what it can of the settings in force, whatever
\* changes, resets, restarts and power losses came before: a restart from there
\* brings back each of them as it was, but the operator's location rounded to a
\* float (esp_remote_id.c:226-242, 260-275, nvs_storage.c:118-119, 169-170).
FlashMatches == Quiet => \A f \in Persisted : Loaded(f) = Stored(f, cfg[f])

\* A provisioned key survives every reset, restart and power loss but the one
\* that hits between the erase and the rewrite (nvs_storage.c:192-218).
KeysSurvive == Running /\ keyed /\ ~cut /\ ~tainted => cfg["keys"] # ""

\* However a save of the names was cut short, a boot never ends with a factory
\* name (esp_remote_id.c:207-214).
BootNames ==
  [][~Running /\ Running' => cfg'["uas"] # "factory" /\ cfg'["op"] # "factory"]_vars

-----------------------------------------------------------------------------
(* What the repository's documents say, and the code does not do. *)

\* docs/guide.html:484: a request updates the parameters it names, here where
\* the configuration it started from was read.
UpdatesWhatItNames ==
  [][\A u \in Users :
       Set(u) /\ ~tainted' => \A f \in Fields \ DOMAIN edit[u] : cfg'[f] = cfg[f]]_vars
=============================================================================
