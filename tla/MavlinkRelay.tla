------------------------------ MODULE MavlinkRelay ------------------------------
(***************************************************************************)
(* What the autopilot says about the aircraft and its operator, on its way *)
(* from the MAVLink parser to the air and back to the autopilot's network: *)
(* the identity with its pages of a signature, collected one message at a  *)
(* time and relayed by the transmitters when complete, and the operator's  *)
(* position, written by rid_task and republished by the MAVLink transmit   *)
(* task, with no lock between the two.                                     *)
(*                                                                         *)
(* A millisecond clock stamps both; ages return to 0 after Period ticks.   *)
(* Messages may be lost: hearing one is always optional.                   *)
(***************************************************************************)
EXTENDS Integers

CONSTANTS
  Sigs,       \* signatures the autopilot has sent
  Last,       \* the index of each one's last page
  MaxPage,    \* the highest of these
  IdTimeout,  \* 10 s, in ticks
  OpTimeout,  \* 30 s, in ticks
  Period      \* the period of the clock, in ticks

\* Three pages fit in a message pack whatever else is in it (see RadioTx).
ASSUME RelayAssumption ==
  /\ MaxPage \in 0 .. 2 /\ Last \in [Sigs -> 0 .. MaxPage]
  /\ IdTimeout \in Nat \ {0} /\ OpTimeout \in Nat \ {0}
  /\ Period \in Nat /\ Period > IdTimeout /\ Period > OpTimeout
  /\ {"none", "local"} \intersect Sigs = {}

VARIABLES
  heard,    \* g_last_identity
  idAge,    \* its stamp, as an age
  state,    \* g_state.identity
  key,      \* there is a private key to sign with (rid_auth_enabled)
  air,      \* the identity and the pages transmitted last
  rid,      \* rid_task: between messages, or inside the SYSTEM message
  tx,       \* rid_mavlink_tx_task
  opAge,    \* g_operator_location_update, as an age
  coord,    \* the true ages of g_operator_lat and g_operator_lon
  copy,     \* of those the transmit task has read
  fresh,    \* what its check of the stamp said
  \* History: read by properties only.
  outlived  \* a stamp has become as old as the clock's period

idVars == <<heard, idAge, state, key, air>>
opVars == <<opAge, coord>>
txVars == <<tx, copy, fresh>>
vars == <<idVars, rid, opVars, txVars, outlived>>

Pages == 0 .. MaxPage
Never == Period        \* a stamp of 0: nothing has been heard
Old == OpTimeout       \* a coordinate that old, or never written
Stamps == 0 .. Never
Coords == {"lat", "lon"}

\* has_ext_auth is set with the first page and stays: pages # {}.
Identity == [uas : {"", "mav", "cfg"}, page : [Pages -> Sigs \union {"none"}],
             last : Pages, pages : SUBSET Pages]
\* The pages of a transmission; a signature of one's own is shown by its first.
Auths == [Pages -> Sigs \union {"none", "local"}]
Unsigned == [p \in Pages |-> "none"]
NoIdentity == [uas |-> "", page |-> Unsigned, last |-> 0, pages |-> {}]

TypeOK ==
  /\ heard \in Identity /\ idAge \in Stamps /\ state \in Identity
  /\ key \in BOOLEAN /\ air \in [uas : {"", "mav", "cfg"}, auth : Auths]
  /\ rid \in {"loop", "lon", "stamp"} /\ tx \in {"due", "wait", "lat", "lon", "send"}
  /\ opAge \in Stamps /\ coord \in [Coords -> 0 .. Old] /\ copy \in [Coords -> 0 .. Old]
  /\ fresh \in BOOLEAN /\ outlived \in BOOLEAN

Init ==
  /\ heard = NoIdentity /\ idAge = Never /\ state = NoIdentity
  /\ key \in BOOLEAN /\ air = [uas |-> "", auth |-> Unsigned]
  /\ rid = "loop" /\ tx = "due"
  /\ opAge = Never /\ coord = [c \in Coords |-> Old] /\ copy = [c \in Coords |-> Old]
  /\ fresh = FALSE /\ outlived = FALSE

-----------------------------------------------------------------------------
(* mavlink_parser_get: the identity. *)

HearIdentity(id) ==
  /\ rid = "loop"
  /\ heard' = id /\ idAge' = 0
  /\ UNCHANGED <<state, key, air, rid, opVars, txVars, outlived>>

HearBasic == HearIdentity([heard EXCEPT !.uas = "mav"])
\* The self ID or the operator ID: another message than the ID, the same stamp.
HearOther == HearIdentity(heard)

\* Mutant: the bit of the next page is set.
StoreNext(s, p) == [heard EXCEPT !.page[p] = s, !.pages = @ \union {p + 1}]
\* Mutant: a page that was received before is kept.
StoreOnce(s, p) == IF p \in heard.pages THEN heard ELSE [heard EXCEPT !.page[p] = s, !.pages = @ \union {p}]
Store(s, p) == [heard EXCEPT !.page[p] = s, !.pages = @ \union {p}]

\* OPEN_DRONE_ID_AUTHENTICATION: every page sets the last index.  The standard
\* has the field in page 0 only; in the others it is 0 unless the sender fills
\* it in.
HearPage(s, p, last) == HearIdentity([Store(s, p) EXCEPT !.last = last])
HearAuth ==
  \E s \in Sigs : \E p \in 0 .. Last[s] :
    \E last \in {Last[s]} \union (IF p = 0 THEN {} ELSE {0}) : HearPage(s, p, last)

\* OPEN_DRONE_ID_MESSAGE_PACK sets nothing and is no action: the type of the
\* pack handed to decodeMessagePack is left 0, so that it always refuses
\* (mavlink_parser.c:245-256, opendroneid.c:891).

-----------------------------------------------------------------------------
(* rid_task with a fix: it copies the identity and transmits. *)

\* The parser's identity as a whole if it is recent and has an ID; else the
\* configured ID, on top of whatever else was there.
Current ==
  IF idAge < IdTimeout /\ heard.uas # "" THEN heard ELSE [state EXCEPT !.uas = "cfg"]

\* wifi_tx.c and ble_tx.c: pages from the autopilot come before a signature
\* of one's own, complete or not.
AuthOf(id) ==
  LET complete == 0 .. id.last \subseteq id.pages
  IN  IF id.pages # {}
      THEN [p \in Pages |-> IF complete /\ p <= id.last THEN id.page[p] ELSE "none"]
      ELSE [p \in Pages |-> IF key /\ p = 0 THEN "local" ELSE "none"]

Transmit ==
  /\ rid = "loop"
  /\ state' = Current
  /\ air' = [uas |-> Current.uas, auth |-> AuthOf(Current)]
  /\ UNCHANGED <<heard, idAge, key, rid, opVars, txVars, outlived>>

-----------------------------------------------------------------------------
(* The operator's position: two writes in rid_task, then the stamp. *)

Write(step, next) ==
  /\ rid = step /\ rid' = next
  /\ UNCHANGED <<idVars, txVars, outlived>>

\* Mutant: the stamp is renewed before the position is written.
StampFirst ==
  \/ Write("loop", "lon") /\ opAge' = 0 /\ UNCHANGED coord
  \/ Write("lon", "stamp") /\ coord' = [coord EXCEPT !["lat"] = 0] /\ UNCHANGED opAge
  \/ Write("stamp", "loop") /\ coord' = [coord EXCEPT !["lon"] = 0] /\ UNCHANGED opAge
HearSystem ==
  \/ Write("loop", "lon") /\ coord' = [coord EXCEPT !["lat"] = 0] /\ UNCHANGED opAge
  \/ Write("lon", "stamp") /\ coord' = [coord EXCEPT !["lon"] = 0] /\ UNCHANGED opAge
  \/ Write("stamp", "loop") /\ opAge' = 0 /\ UNCHANGED coord

-----------------------------------------------------------------------------
(* rid_mavlink_tx_task: the SYSTEM message it republishes. *)

Step(step, next) ==
  /\ tx = step /\ tx' = next
  /\ UNCHANGED <<idVars, rid, opVars, outlived>>

\* Mutant: a position once heard is good for ever.
FreshForEver == opAge # Never
\* mavlink_parser_get_operator_location.
StampFresh == opAge < OpTimeout

Check ==
  /\ \E start \in {"due", "wait"} : Step(start, IF StampFresh THEN "lat" ELSE "send")
  /\ fresh' = StampFresh
  /\ UNCHANGED copy
ReadCoord(c, next) ==
  /\ Step(c, next)
  /\ copy' = [copy EXCEPT ![c] = coord[c]]
  /\ UNCHANGED fresh
Send == Step("send", "wait") /\ UNCHANGED <<copy, fresh>>

Republish == Check \/ ReadCoord("lat", "lon") \/ ReadCoord("lon", "send") \/ Send

-----------------------------------------------------------------------------
(* Time. *)

Wrapped(age) == CASE age = Never -> Never
                  [] age # Never /\ age + 1 = Period -> 0
                  [] OTHER -> age + 1

\* A tick is many seconds: the two tasks do not take that long over a message,
\* and the transmit task has sent one, as it does every 6 s.
Tick ==
  /\ rid = "loop" /\ tx = "wait" /\ tx' = "due"
  /\ idAge' = Wrapped(idAge) /\ opAge' = Wrapped(opAge)
  /\ coord' = [c \in Coords |-> IF coord[c] < Old THEN coord[c] + 1 ELSE Old]
  /\ outlived' = (outlived \/ (idAge # Never /\ idAge' = 0) \/ (opAge # Never /\ opAge' = 0))
  /\ UNCHANGED <<heard, state, key, air, rid, copy, fresh>>

Next ==
  \/ HearBasic \/ HearOther \/ HearAuth \/ Transmit
  \/ HearSystem \/ Republish \/ Tick

Spec == Init /\ [][Next]_vars

-----------------------------------------------------------------------------
(* Properties. *)

\* Every coordinate that is republished as the operator's was received within
\* the last 30 s, though it is read without a lock while the next one may be
\* written, unless a stamp outlived the clock's period
\* (mavlink_parser.c:71-81 and 226-235, rid_mavlink_tx.c:56-70).
OpFresh == tx = "send" /\ fresh /\ ~outlived => \A c \in Coords : copy[c] < OpTimeout

\* When positions cease to arrive the republished message says so: again and
\* again it carries none (mavlink_parser.c:73-81).
OpLost == <>[][~HearSystem]_vars => []<>(tx = "send" /\ ~fresh)

\* Whatever pages of other signatures were collected before, an autopilot that
\* keeps sending one signature, with the last index in every page, is again and
\* again transmitted with all of it, if only it is transmitted with its recent
\* identity at all (mavlink_parser.c:211-225, ble_tx.c:84-104).
OnlySends(s) == <>[][HearAuth => \E p \in 0 .. Last[s] : HearPage(s, p, Last[s])]_vars
Repeats(s) ==
  /\ []<><<Transmit /\ Current = heard>>_vars
  /\ \A p \in Pages : p <= Last[s] => []<><<HearPage(s, p, Last[s])>>_vars
Whole(s) == [p \in Pages |-> IF p <= Last[s] THEN s ELSE "none"]
RelayConverges ==
  \A s \in Sigs :
    OnlySends(s) /\ Repeats(s) => []<>(air.auth = Whole(s))

\* Both tasks go on, and time does.
FairSpec ==
  /\ Spec
  /\ WF_vars(HearSystem /\ rid # "loop")
  /\ WF_vars(Republish) /\ SF_vars(Tick)
===============================================================================
