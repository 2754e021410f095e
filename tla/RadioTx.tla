-------------------------------- MODULE RadioTx --------------------------------
(***************************************************************************)
(* What the radios say of an aircraft: the messages an identity and a      *)
(* position give rise to, packed as a whole into a Wi-Fi or Bluetooth 5    *)
(* frame, and sent one at a time by Bluetooth 4, whose advertisements have *)
(* room for one.                                                           *)
(*                                                                         *)
(* A message whose data its encoder refuses is left out of a pack; when it *)
(* is its turn on Bluetooth 4 the controller goes on advertising what it   *)
(* was given before.  When rid_task transmits is RidTask's subject.        *)
(***************************************************************************)
EXTENDS Integers, Sequences, FiniteSets

CONSTANTS
  PackMax,     \* ODID_PACK_MAX_MESSAGES: 9
  CounterMod,  \* a uint8_t counts the advertisements: 256
  SigPages,    \* the pages a complete signature may have: 0 if there is none
  Failing      \* messages whose data may be refused

ASSUME RadioAssumption ==
  /\ PackMax \in Nat /\ PackMax >= 6
  /\ CounterMod \in Nat /\ CounterMod >= PackMax
  /\ SigPages \subseteq Nat

VARIABLES
  ident,     \* the identity given to the transmitters
  bad,       \* the messages whose data do not encode
  rotation,  \* ble_tx.c: rotation
  adv,       \* what Bluetooth 4 advertises, and of which identity
  pack       \* what became of the pack built last

vars == <<ident, bad, rotation, adv, pack>>

Kinds == {"basic", "basic2", "location", "auth", "self", "system", "operator"}
Identity == [id2 : BOOLEAN, self : BOOLEAN, sig : SigPages]
Messages == [kind : Kinds, page : Nat]
Message(k) == [kind |-> k, page |-> 0]
Silence == Message("operator") \* adv before the first one; any message will do

-----------------------------------------------------------------------------
(* prepare_uas_data and populate_uas_data: the valid messages, in the order *)
(* in which packs and the rotation take them.                               *)

\* Mutant: the self ID is forgotten among the messages a signature shares
\* the pack with.
FixedNoSelf(id) == 4 + (IF id.id2 THEN 1 ELSE 0)
Fixed(id) == 4 + (IF id.id2 THEN 1 ELSE 0) + (IF id.self THEN 1 ELSE 0)

\* All of a signature's pages, or none.
AuthPages(id) == IF id.sig <= PackMax - Fixed(id) THEN id.sig ELSE 0

If(present, k) == IF present THEN <<Message(k)>> ELSE <<>>
Auth(n) == [i \in 1 .. n |-> [kind |-> "auth", page |-> i - 1]]
Slots(id) ==
  <<Message("basic")>> \o If(id.id2, "basic2") \o <<Message("location")>>
  \o Auth(AuthPages(id)) \o If(id.self, "self")
  \o <<Message("system"), Message("operator")>>

-----------------------------------------------------------------------------
(* odid_message_build_pack, for a beacon, a NAN frame or Bluetooth 5. *)

Encoded == {i \in 1 .. Len(Slots(ident)) : Slots(ident)[i] \notin bad}
\* A valid message finds the pack full.
Overflows == \E i \in 1 .. Len(Slots(ident)) : Cardinality({j \in Encoded : j < i}) >= PackMax

TypeOK ==
  /\ ident \in Identity /\ bad \subseteq Failing
  /\ rotation \in 0 .. CounterMod - 1
  /\ adv \in [msg : Messages, of : Identity]
  /\ pack \in {"none", "sent", "empty", "overflow"}

Init ==
  /\ ident \in Identity /\ bad \in SUBSET Failing
  /\ rotation = 0 /\ adv = [msg |-> Silence, of |-> ident] /\ pack = "none"

\* rid_task assembles another identity, or the data change.
NewIdentity == ident' \in Identity /\ UNCHANGED <<bad, rotation, adv, pack>>
NewData == bad' \in SUBSET Failing /\ UNCHANGED <<ident, rotation, adv, pack>>

TransmitPack ==
  /\ pack' = CASE Overflows -> "overflow"
               [] ~Overflows /\ Encoded = {} -> "empty"
               [] OTHER -> "sent"
  /\ UNCHANGED <<ident, bad, rotation, adv>>

-----------------------------------------------------------------------------
(* build_legacy_adv. *)

Slot(r) == Slots(ident)[1 + (r % Len(Slots(ident)))]

\* Mutant: the turn passes on only when there was something to advertise.
AdvertiseStuck(m) ==
  IF m \in bad THEN UNCHANGED <<rotation, adv>>
  ELSE rotation' = (rotation + 1) % CounterMod /\ adv' = [msg |-> m, of |-> ident]
Advertise(m) ==
  /\ rotation' = (rotation + 1) % CounterMod
  /\ adv' = IF m \in bad THEN adv ELSE [msg |-> m, of |-> ident]

TransmitLegacy == Advertise(Slot(rotation)) /\ UNCHANGED <<ident, bad, pack>>

Next == NewIdentity \/ NewData \/ TransmitPack \/ TransmitLegacy
Spec == Init /\ [][Next]_vars
\* rid_task transmits on each enabled radio again and again (RadiosServed of RidTask).
FairSpec == Spec /\ WF_vars(TransmitLegacy) /\ WF_vars(TransmitPack)

-----------------------------------------------------------------------------
(* Properties. *)

\* No signature, however many pages it has, makes a pack overflow: there is a
\* frame as long as a message encodes (ble_tx.c:106-115, wifi.c:214-255).
PackGoesOut == pack # "overflow"

\* A message that encodes is advertised again and again, whatever becomes of
\* the others and wherever the counter wraps, if only the identity remains
\* (ble_tx.c:130-179).
InRotation(m) == \E i \in 1 .. Len(Slots(ident)) : Slots(ident)[i] = m
AllAdvertised ==
  \A m \in {Message("location"), Message("system"), [kind |-> "auth", page |-> 2]} :
    <>[][UNCHANGED ident /\ InRotation(m) /\ m \notin bad']_vars
      => []<>(adv = [msg |-> m, of |-> ident])
===============================================================================
