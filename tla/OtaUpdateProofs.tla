---------------------------- MODULE OtaUpdateProofs ----------------------------
(***************************************************************************)
(* For every partition table, set of files and bound on timeouts: what the *)
(* unit boots is never put at risk.  The induction carries that an upload  *)
(* is written elsewhere than the selected partition, which runs until an   *)
(* image has been installed.                                               *)
(***************************************************************************)
EXTENDS OtaUpdate, TLAPS

SelectedRuns == pc # "restart" => boot = running
Apart == pc \in {"receive", "finish"} => target # running
Bears == pc = "receive" => stalls < MaxStalls
IInv == TypeOK /\ BootValid /\ SelectedRuns /\ Apart /\ Bears

LEMMA ContentsTyped ==
  /\ Blank \in Contents
  /\ \A f \in Files, n \in Nat : Part(f, n) \in Contents
  /\ Whole(Delivered) \in Contents /\ Bootable(Whole(Delivered))
  /\ NoUpload \in Uploads
BY OtaAssumption DEF Blank, Part, Contents, Whole, Bootable, NoUpload, Uploads

LEMMA RequestsTyped == ASSUME NEW u \in Requests PROVE u \in Uploads
<1>1. PICK f \in Files : u \in [file : {f}, declared : 0 .. Len[f] + 1,
                                hash : Files \union {Nothing}, signed : BOOLEAN]
  BY DEF Requests
<1> QED
  BY <1>1, OtaAssumption DEF Uploads

LEMMA InitIInv == Init => IInv
<1> SUFFICES ASSUME Init PROVE IInv
  OBVIOUS
<1>1. Factory \in Partitions /\ 0 \in 0 .. MaxStalls
  BY OtaAssumption DEF Partitions, Factory
<1>2. flash \in [Partitions -> Contents]
  BY ContentsTyped DEF Init
<1>3. TypeOK
  BY <1>1, <1>2, ContentsTyped DEF Init, TypeOK
<1>4. BootValid /\ SelectedRuns /\ Apart /\ Bears
  BY <1>1, ContentsTyped DEF Init, BootValid, SelectedRuns, Apart, Bears
<1> QED
  BY <1>3, <1>4 DEF IInv

\* What every handler that ends without an installation leaves.
LEMMA IdleTyped == ASSUME Idle
                   PROVE  /\ pc' = "idle" /\ upload' \in Uploads /\ target' \in Partitions
                          /\ got' \in Nat /\ stalls' \in 0 .. MaxStalls
BY OtaAssumption, ContentsTyped DEF Idle, Partitions, Factory

LEMMA RebootIInv == ASSUME IInv, Reboot, level' \in 0 .. 2 PROVE IInv'
<1> USE DEF IInv, Reboot, flashVars
<1>1. running' = boot
  BY DEF BootValid
<1>2. TypeOK'
  BY <1>1, IdleTyped DEF TypeOK
<1>3. (BootValid /\ SelectedRuns /\ Apart /\ Bears)'
  BY <1>1, IdleTyped DEF BootValid, SelectedRuns, Apart, Bears, Idle
<1> QED
  BY <1>2, <1>3

LEMMA NextIInv == ASSUME IInv, [Next]_vars PROVE IInv'
<1> USE DEF IInv, flashVars, uploadVars
<1>1. CASE UNCHANGED vars
  BY <1>1 DEF vars, TypeOK, BootValid, SelectedRuns, Apart, Bears
<1>2. CASE Begin
  <2>1. /\ flash' = [flash EXCEPT ![NextSlot] = Blank]
        /\ boot' = boot /\ running' = running /\ mode' = mode /\ level' = level
        /\ pc = "idle" /\ NextSlot # running
    BY <1>2 DEF Begin, Opens
  <2>2. NextSlot \in Partitions
    BY <1>2, OtaAssumption DEF Begin, Opens, NextSlot, TypeOK, Partitions, Factory
  <2>3. /\ pc' \in {"idle", "receive"} /\ upload' \in Uploads /\ target' \in Partitions
        /\ (pc' = "receive" => target' = NextSlot /\ stalls' = 0)
        /\ got' \in Nat /\ stalls' \in 0 .. MaxStalls /\ handle' \in BOOLEAN
    <3>1. PICK u \in Requests :
            \/ pc' = "receive" /\ upload' = u /\ target' = NextSlot /\ handle' = TRUE
               /\ got' = 0 /\ stalls' = 0
            \/ Idle /\ UNCHANGED handle
      BY <1>2 DEF Begin
    <3>2. CASE Idle /\ UNCHANGED handle
      BY <3>2, IdleTyped DEF TypeOK
    <3>3. CASE pc' = "receive" /\ upload' = u /\ target' = NextSlot /\ handle' = TRUE
               /\ got' = 0 /\ stalls' = 0
      BY <2>2, <3>3, RequestsTyped, OtaAssumption
    <3> QED
      BY <3>1, <3>2, <3>3
  <2>4. TypeOK'
    <3>1. flash' \in [Partitions -> Contents]
      BY <2>1, ContentsTyped DEF TypeOK
    <3> QED
      BY <2>1, <2>3, <3>1 DEF TypeOK
  <2>5. flash'[boot'] = flash[boot]
    BY <2>1 DEF SelectedRuns, TypeOK
  <2>6. BootValid' /\ SelectedRuns' /\ Apart' /\ Bears'
    BY <2>1, <2>3, <2>5, OtaAssumption DEF BootValid, SelectedRuns, Apart, Bears, Idle
  <2> QED
    BY <2>4, <2>6
<1>3. CASE Receive
  <2>1. /\ boot' = boot /\ running' = running /\ mode' = mode /\ level' = level
        /\ pc = "receive" /\ target # running /\ boot = running
    BY <1>3 DEF Receive, Apart, SelectedRuns
  <2>2. CASE /\ got' = got + 1 /\ stalls' = 0
             /\ flash' = [flash EXCEPT ![target] = Part(upload.file, got + 1)]
             /\ UNCHANGED <<pc, upload, target, handle>>
    <3>1. upload.file \in Files /\ got + 1 \in Nat
      BY DEF TypeOK, Uploads
    <3>2. flash' \in [Partitions -> Contents]
      BY <2>2, <3>1, ContentsTyped DEF TypeOK
    <3>3. 0 \in 0 .. MaxStalls
      BY OtaAssumption
    <3>4. TypeOK'
      BY <2>1, <2>2, <3>1, <3>2, <3>3 DEF TypeOK
    <3>5. flash'[boot'] = flash[boot]
      BY <2>1, <2>2 DEF TypeOK
    <3> QED
      BY <2>1, <2>2, <3>4, <3>5, OtaAssumption DEF BootValid, SelectedRuns, Apart, Bears
  <2>3. CASE Abort /\ UNCHANGED flash
    BY <2>1, <2>3, IdleTyped DEF Abort, TypeOK, BootValid, SelectedRuns, Apart, Bears
  <2> QED
    BY <1>3, <2>2, <2>3 DEF Receive
<1>4. CASE Stall
  <2>1. /\ pc = "receive" /\ stalls' = stalls + 1 /\ pc' \in {"receive", "finish"}
        /\ (pc' = "receive" => stalls' < MaxStalls)
    BY <1>4, OtaAssumption DEF Stall, CountStall, TypeOK
  <2>2. stalls' \in 0 .. MaxStalls
    BY <2>1, OtaAssumption DEF Bears, TypeOK
  <2> QED
    BY <1>4, <2>1, <2>2 DEF Stall, TypeOK, BootValid, SelectedRuns, Apart, Bears
<1>5. CASE Disconnect \/ AllReceived
  BY <1>5 DEF Disconnect, AllReceived, ToFinish, TypeOK, BootValid, SelectedRuns, Apart, Bears
<1>6. CASE Reject
  BY <1>6, IdleTyped DEF Reject, Abort, TypeOK, BootValid, SelectedRuns, Apart, Bears
<1>7. CASE LeaveShort
  BY <1>7, IdleTyped DEF LeaveShort, TypeOK, BootValid, SelectedRuns, Apart, Bears
<1>8. CASE Install
  BY <1>8, IdleTyped DEF Install, TypeOK, BootValid, SelectedRuns, Apart, Bears
<1>9. CASE Restart \/ PowerLoss
  BY <1>9, RebootIInv DEF Restart, PowerLoss, TypeOK
<1>10. CASE FactoryReset
  BY <1>10 DEF FactoryReset, TypeOK, BootValid, SelectedRuns, Apart, Bears
<1>11. CASE Rollback
  BY <1>11 DEF Rollback, TypeOK, BootValid, SelectedRuns, Apart, Bears
<1>12. CASE SetLevel
  BY <1>12 DEF SetLevel, TypeOK, BootValid, SelectedRuns, Apart, Bears
<1> QED
  BY <1>1, <1>2, <1>3, <1>4, <1>5, <1>6, <1>7, <1>8, <1>9, <1>10, <1>11, <1>12 DEF Next

LEMMA Invariance == Spec => []IInv
BY InitIInv, NextIInv, PTL DEF Spec

\* The variables keep their types.
THEOREM TypeCorrect == Spec => []TypeOK
<1>1. IInv => TypeOK
  BY DEF IInv
<1> QED
  BY <1>1, Invariance, PTL

\* Whatever becomes of an upload, and wherever the power fails, the partition
\* that is selected for booting holds a whole application.
THEOREM AlwaysBoots == Spec => []BootValid
<1>1. IInv => BootValid
  BY DEF IInv
<1> QED
  BY <1>1, Invariance, PTL

-----------------------------------------------------------------------------
(* What is installed. *)

\* While an upload is served, its partition holds what arrived of it.
Written == pc \in {"receive", "finish"} /\ got > 0 => flash[target] = Part(upload.file, got)
JInv == IInv /\ Written

LEMMA NextWritten == ASSUME IInv, Written, [Next]_vars PROVE Written'
<1> USE DEF IInv, flashVars, uploadVars
<1>1. CASE Receive
  BY <1>1 DEF Receive, Abort, Idle, Written, TypeOK
<1>2. CASE Stall
  BY <1>2 DEF Stall, CountStall, Written
<1>3. CASE Disconnect \/ AllReceived
  BY <1>3 DEF Disconnect, AllReceived, ToFinish, Written
<1>4. CASE UNCHANGED vars
  BY <1>4 DEF vars, Written
<1>5. CASE pc' \in {"idle", "restart"} \/ (pc' = "receive" /\ got' = 0)
  BY <1>5 DEF Written
<1>6. CASE SetLevel
  BY <1>6 DEF SetLevel, Written
<1> QED
  BY <1>1, <1>2, <1>3, <1>4, <1>5, <1>6 DEF Next, Begin, Reject, LeaveShort, Install, Abort, Idle,
     Restart, PowerLoss, Reboot, FactoryReset, Rollback

\* What is selected for booting is the whole file whose hash was announced.
THEOREM AnnouncedIsInstalled == Spec => InstalledAsAnnounced
<1>1. Init => Written
  BY DEF Init, Written
<1>2. ASSUME IInv, Written, [Next]_vars
      PROVE  [boot' # boot => upload.hash # Nothing /\ flash[boot'] = Whole(upload.hash)]_vars
  <2> SUFFICES ASSUME boot' # boot PROVE upload.hash # Nothing /\ flash[boot'] = Whole(upload.hash)
    OBVIOUS
  <2> USE DEF IInv, flashVars, uploadVars
  <2>1. CASE Install
    <3>1. upload.hash = upload.file /\ got = Len[upload.file] /\ boot' = target /\ pc = "finish"
      BY <1>2, <2>1 DEF Install, HashMatches
    <3>2. upload.file \in Files /\ Len[upload.file] \in Nat \ {0}
      BY <1>2, OtaAssumption DEF TypeOK, Uploads
    <3> QED
      BY <1>2, <3>1, <3>2, OtaAssumption DEF Written, Whole
  <2>2. CASE Rollback
    BY <1>2, <2>2 DEF Rollback, SelectedRuns
  <2> QED
    BY <1>2, <2>1, <2>2 DEF Next, vars, Begin, Receive, Stall, Disconnect, AllReceived, ToFinish,
       Reject, LeaveShort, Restart, PowerLoss, Reboot, FactoryReset, SetLevel
<1> QED
  BY <1>1, <1>2, InitIInv, NextIInv, NextWritten, PTL DEF Spec, InstalledAsAnnounced

\* Nothing but the installation of an upload changes what is selected: where the
\* recovery server offers to roll back to the previous version, it selects the one
\* that is selected (rid_ota.c:49-51 and 254-268).
THEOREM OnlyInstallSelects == Spec => [][boot' # boot => Install]_vars
<1>1. ASSUME IInv, [Next]_vars PROVE boot' # boot => Install
  <2> USE DEF IInv, flashVars
  <2>1. Rollback => boot' = boot
    BY <1>1 DEF Rollback, SelectedRuns
  <2> QED
    BY <1>1, <2>1 DEF Next, vars, Begin, Receive, Stall, Disconnect, AllReceived, ToFinish,
       Reject, LeaveShort, Restart, PowerLoss, Reboot, FactoryReset, SetLevel
<1>2. IInv /\ [Next]_vars => [boot' # boot => Install]_vars
  BY <1>1
<1> QED
  BY <1>2, Invariance, PTL DEF Spec

-----------------------------------------------------------------------------
(* How long an upload takes. *)

\* What the server still waits for, and how often yet it bears with a timeout.
GoesOn ==
  pc = "receive" =>
    /\ stalls < MaxStalls
    /\ \/ pc' # "receive"
       \/ Remaining > 0 /\ Remaining' = Remaining - 1
       \/ Remaining' = Remaining /\ stalls' = stalls + 1 /\ mode = "recovery"

\* An upload cannot go on for ever: every step of it ends it, brings it nearer to
\* the length declared, or is one of a limited number of timeouts in a row, which
\* the recovery server alone bears with (rid_ota.c:131-147, web_config.c:548-560).
THEOREM UploadGoesOn == Spec => [][GoesOn]_vars
<1>1. ASSUME IInv, Next, pc = "receive" PROVE GoesOn
  <2>1. stalls < MaxStalls /\ upload \in Uploads /\ got \in Nat /\ mode \in Modes
    BY <1>1 DEF IInv, Bears, TypeOK
  <2>2. CASE Receive
    <3>1. CASE got' = got + 1 /\ UNCHANGED upload
      BY <2>1, <2>2, <3>1 DEF Receive, Remaining, GoesOn, Uploads
    <3>2. CASE Abort
      BY <2>1, <3>2 DEF Abort, Idle, GoesOn
    <3> QED
      BY <2>2, <3>1, <3>2 DEF Receive
  <2>3. CASE Stall
    BY <2>1, <2>3 DEF Stall, CountStall, Remaining, GoesOn, Modes, uploadVars
  <2>4. CASE pc' # "receive"
    BY <2>1, <2>4 DEF GoesOn
  <2> QED
    BY <1>1, <2>2, <2>3, <2>4 DEF Next, Begin, Disconnect, AllReceived, ToFinish, Reject, LeaveShort,
       Install, Idle, Restart, PowerLoss, Reboot, FactoryReset, Rollback, SetLevel
<1>2. IInv /\ [Next]_vars => [GoesOn]_vars
  BY <1>1 DEF GoesOn
<1> QED
  BY <1>2, Invariance, PTL DEF Spec
===============================================================================
