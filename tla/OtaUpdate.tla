------------------------------- MODULE OtaUpdate -------------------------------
(***************************************************************************)
(* Firmware updates: the upload handler of the web server (web_config.c,   *)
(* handle_ota) and that of the recovery server (rid_ota.c), which runs     *)
(* instead of the program when a pin is held low at power-up.  An upload   *)
(* is written to flash while it arrives, then its hash is compared with    *)
(* the one the client announced, and the boot partition is switched.  The  *)
(* client may stop at any byte and the power may fail at any step.         *)
(*                                                                         *)
(* esp_ota_* and the boot loader are external.                             *)
(***************************************************************************)
EXTENDS Integers

CONSTANTS
  Files,     \* what clients upload, and the image the unit was delivered with
  Good,      \* those of them the boot loader takes for an application
  Len,       \* their lengths in receive buffers
  Delivered, \* the image in the factory partition
  Slots,     \* the number of OTA partitions in partitions.csv
  MaxStalls  \* OTA_MAX_IDLE_STALLS

Nothing == "nothing"  \* no file, no announced hash

ASSUME OtaAssumption ==
  /\ Len \in [Files -> Nat \ {0}]
  /\ Good \subseteq Files /\ Delivered \in Good /\ Nothing \notin Files
  /\ Slots \in Nat /\ MaxStalls \in Nat \ {0}

VARIABLES
  flash,    \* per application partition: the file written to it, and how much
  boot,     \* the partition otadata selects
  running,  \* the partition the unit was booted from
  mode,     \* which server runs: "web" or "recovery"
  level,    \* cfg.lock_level
  pc,
  upload,   \* the request being served
  target,   \* update_part
  got,      \* buffers received: content_len - remaining
  stalls,   \* idle_stalls
  handle    \* whether an esp_ota_handle_t is open

flashVars == <<flash, boot>>
uploadVars == <<upload, target, got, stalls, handle>>
vars == <<flashVars, running, mode, level, pc, uploadVars>>

Factory == 0
Partitions == Factory .. Slots
Modes == {"web", "recovery"}

\* A request: the file, the length declared in its header, the hash announced
\* in X-Expected-SHA256, and whether a signature came with it.
Uploads == [file : Files, declared : Nat, hash : Files \union {Nothing}, signed : BOOLEAN]
\* The client may declare fewer or more bytes than it has.
Requests == UNION {[file : {f}, declared : 0 .. Len[f] + 1, hash : Files \union {Nothing},
                    signed : BOOLEAN] : f \in Files}

Part(f, n) == [file |-> f, len |-> n]
Whole(f) == Part(f, Len[f])
Blank == Part(Nothing, 0)
Contents == [file : Files \union {Nothing}, len : Nat]
Bootable(c) == \E f \in Good : c = Whole(f)

TypeOK ==
  /\ flash \in [Partitions -> Contents]
  /\ boot \in Partitions /\ running \in Partitions
  /\ mode \in Modes /\ level \in 0 .. 2
  /\ pc \in {"idle", "receive", "finish", "restart"}
  /\ upload \in Uploads /\ target \in Partitions
  /\ got \in Nat /\ stalls \in 0 .. MaxStalls
  /\ handle \in BOOLEAN

NoUpload == [file |-> Delivered, declared |-> 0, hash |-> Nothing, signed |-> FALSE]
Idle == pc' = "idle" /\ upload' = NoUpload /\ target' = Factory /\ got' = 0 /\ stalls' = 0

Init ==
  /\ flash = [p \in Partitions |-> IF p = Factory THEN Whole(Delivered) ELSE Blank]
  /\ boot = Factory /\ running = Factory
  /\ mode \in Modes /\ level \in 0 .. 2
  /\ pc = "idle" /\ upload = NoUpload /\ target = Factory /\ got = 0 /\ stalls = 0
  /\ handle = FALSE

-----------------------------------------------------------------------------
(* External: esp_ota_* and the boot loader. *)

\* esp_ota_get_next_update_partition: the OTA slot after the running one.
NextSlot == IF running < Slots THEN running + 1 ELSE 1

\* Mutant: the partition in use can be opened for writing.
AnyOpens == Slots > 0
\* esp_ota_begin refuses the partition the unit runs from.
Opens == Slots > 0 /\ NextSlot # running

-----------------------------------------------------------------------------
(* The upload, buffer by buffer. *)

\* handle_ota reads the fuse too, and anything if the configuration cannot be
\* read; the recovery server reads the configuration it was started with.
Admitted(u) ==
  \/ mode = "web"
  \/ mode = "recovery" /\ (level = 0 \/ (level = 1 /\ u.signed))

\* A request that is not admitted, or finds no partition to write, is answered
\* and changes nothing.  The partition is erased when it is opened; that or the
\* set-up of the hash may fail.
Begin ==
  /\ pc = "idle"
  /\ \E u \in Requests :
       /\ Admitted(u)
       /\ Opens
       /\ flash' = [flash EXCEPT ![NextSlot] = Blank]
       /\ \/ pc' = "receive" /\ upload' = u /\ target' = NextSlot /\ handle' = TRUE
             /\ got' = 0 /\ stalls' = 0
          \/ Idle /\ UNCHANGED handle
  /\ UNCHANGED <<boot, running, mode, level>>

Remaining == upload.declared - got

Abort == Idle /\ handle' = FALSE

\* A buffer arrives, is hashed and written; the hash or the write may fail.
Receive ==
  /\ pc = "receive" /\ Remaining > 0 /\ got < Len[upload.file]
  /\ \/ /\ got' = got + 1 /\ stalls' = 0
        /\ flash' = [flash EXCEPT ![target] = Part(upload.file, got + 1)]
        /\ UNCHANGED <<pc, upload, target, handle>>
     \/ Abort /\ UNCHANGED flash
  /\ UNCHANGED <<boot, running, mode, level>>

\* Mutant: the loop goes on at the limit, and counts from the start.
PatientStall == stalls' = (IF stalls < MaxStalls THEN stalls + 1 ELSE 0) /\ pc' = pc
\* Mutant: one stall more than the limit is borne with.
CountStallLate ==
  /\ stalls' = stalls + 1
  /\ pc' = IF mode = "web" \/ stalls' > MaxStalls THEN "finish" ELSE pc
\* The recovery server bears with a few timeouts in a row, the other with none.
CountStall ==
  /\ stalls' = stalls + 1
  /\ pc' = IF mode = "web" \/ stalls' >= MaxStalls THEN "finish" ELSE pc

Stall ==
  /\ pc = "receive" /\ Remaining > 0
  /\ CountStall
  /\ UNCHANGED <<flashVars, running, mode, level, upload, target, got, handle>>

\* The connection is closed, or all that was declared has arrived.
ToFinish == pc' = "finish" /\ UNCHANGED <<flashVars, running, mode, level, uploadVars>>
Disconnect == pc = "receive" /\ Remaining > 0 /\ ToFinish
AllReceived == pc = "receive" /\ Remaining = 0 /\ ToFinish

-----------------------------------------------------------------------------
(* The verdict. *)

\* Mutant: the comparison is left out when the client announced no hash.
HashOptional == upload.hash = Nothing \/ (upload.hash = upload.file /\ got = Len[upload.file])
\* The hash of what arrived is the announced one.
HashMatches == upload.hash = upload.file /\ got = Len[upload.file]

\* The hash cannot be computed, is missing or differs.  The recovery server also
\* checks the signature, where the level asks for one and the upload found room
\* in memory: it may refuse, or not.
Reject ==
  /\ pc = "finish"
  /\ Abort
  /\ UNCHANGED <<flashVars, running, mode, level>>

Short == mode = "recovery" /\ Remaining > 0

\* The recovery server answers 500 to a short upload, and leaves the handle.
LeaveShort ==
  /\ pc = "finish" /\ HashMatches /\ Short
  /\ Idle
  /\ UNCHANGED <<flashVars, running, mode, level, handle>>

\* esp_ota_end frees the handle and refuses what is no application; that or the
\* switch of the boot partition may fail.
Install ==
  /\ pc = "finish" /\ HashMatches /\ ~Short
  /\ handle' = FALSE
  /\ \/ /\ Bootable(flash[target])
        /\ boot' = target /\ pc' = "restart"
        /\ UNCHANGED <<upload, target, got, stalls>>
     \/ Idle /\ UNCHANGED boot
  /\ UNCHANGED <<flash, running, mode, level>>

-----------------------------------------------------------------------------
(* The other requests of the recovery server, restarts and power loss. *)

\* The boot loader runs the selected partition if there is an application in
\* it, the factory one otherwise; the pin decides on the mode.
Reboot ==
  /\ running' = IF Bootable(flash[boot]) THEN boot ELSE Factory
  /\ mode' \in Modes
  /\ Idle /\ handle' = FALSE
  /\ UNCHANGED flashVars

Restart == pc = "restart" /\ Reboot /\ UNCHANGED level
PowerLoss == Reboot /\ UNCHANGED level

\* nvs_storage_reset_preserve_keys erases the level with the rest.
FactoryReset ==
  /\ pc = "idle" /\ mode = "recovery"
  /\ pc' = "restart" /\ level' = 0
  /\ UNCHANGED <<flashVars, running, mode, uploadVars>>

\* "Rollback to Previous Version": selects the partition that runs.
Rollback ==
  /\ pc = "idle" /\ mode = "recovery"
  /\ boot' = running /\ pc' = "restart"
  /\ UNCHANGED <<flash, running, mode, level, uploadVars>>

\* The web server changes the level (WebAccess).
SetLevel ==
  /\ pc = "idle" /\ mode = "web"
  /\ level' \in 0 .. 2
  /\ UNCHANGED <<flashVars, running, mode, pc, uploadVars>>

Next ==
  \/ Begin \/ Receive \/ Stall \/ Disconnect \/ AllReceived
  \/ Reject \/ LeaveShort \/ Install
  \/ Restart \/ PowerLoss \/ FactoryReset \/ Rollback \/ SetLevel

Spec == Init /\ [][Next]_vars

\* A receive returns within its timeout and the handlers go on.
Serve ==
  \/ Receive \/ Stall \/ Disconnect \/ AllReceived
  \/ Reject \/ LeaveShort \/ Install \/ Restart
FairSpec == Spec /\ WF_vars(Serve)

-----------------------------------------------------------------------------
(* Properties. *)

\* The selected partition always holds a whole application: no upload, however
\* it ends and wherever the power fails, costs the unit what it boots
\* (rid_ota.c:100-112 and 225, web_config.c:530-586).
BootValid == Bootable(flash[boot])

\* What is selected for booting is, byte for byte, the file whose hash the client
\* announced (docs/guide.html:822, rid_ota.c:180-204, web_config.c:562-582).
InstalledAsAnnounced ==
  [][boot' # boot => upload.hash # Nothing /\ flash[boot'] = Whole(upload.hash)]_vars

\* Every upload comes to an end, however long the client stalls in it: the
\* server has one task, and serves nobody else meanwhile (rid_ota.c:135-147).
UploadEnds == pc = "receive" ~> pc # "receive"
===============================================================================
