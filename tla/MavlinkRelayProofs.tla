--------------------------- MODULE MavlinkRelayProofs ---------------------------
(***************************************************************************)
(* The operator's position passes from one task to the other without a     *)
(* lock; that no stale coordinate is republished rests on the order of the *)
(* writes: the stamp is renewed when all coordinates are new, so it is     *)
(* never younger than any of them.                                         *)
(***************************************************************************)
EXTENDS MavlinkRelay, TLAPS

\* The coordinates are at least as recent as the stamp says, and those written
\* in this message are new.
StampedLast ==
  /\ ~outlived /\ opAge < OpTimeout => \A c \in Coords : coord[c] <= opAge
  /\ rid \in {"lon", "stamp"} => coord["lat"] = 0
  /\ rid = "stamp" => coord["lon"] = 0
\* What the transmit task has yet to read, and what it has read.
ReadFresh ==
  fresh /\ ~outlived =>
    /\ tx \in {"lat", "lon"} => \A c \in Coords : coord[c] < OpTimeout
    /\ tx = "lon" => copy["lat"] < OpTimeout
    /\ tx = "send" => \A c \in Coords : copy[c] < OpTimeout

IInv == TypeOK /\ StampedLast /\ ReadFresh

LEMMA UnsignedTyped == Unsigned \in Auths /\ NoIdentity \in Identity
BY RelayAssumption DEF Unsigned, Auths, NoIdentity, Identity, Pages

LEMMA InitIInv == Init => IInv
<1> SUFFICES ASSUME Init PROVE IInv
  OBVIOUS
<1>1. Never \in Stamps /\ Old \in 0 .. Old /\ ~(Never < OpTimeout)
  BY RelayAssumption DEF Never, Stamps, Old
<1>2. TypeOK
  BY <1>1, UnsignedTyped DEF Init, TypeOK
<1>3. StampedLast /\ ReadFresh
  BY <1>1 DEF Init, StampedLast, ReadFresh
<1> QED
  BY <1>2, <1>3 DEF IInv

\* The steps that touch the identity alone.
LEMMA IdentityIInv ==
  ASSUME IInv, UNCHANGED <<rid, opVars, txVars, outlived>>,
         heard' \in Identity, idAge' \in Stamps, state' \in Identity, key' = key,
         air' \in [uas : {"", "mav", "cfg"}, auth : Auths]
  PROVE  IInv'
<1> USE DEF IInv, opVars, txVars
<1>1. TypeOK'
  BY DEF TypeOK
<1>2. StampedLast' /\ ReadFresh'
  BY DEF StampedLast, ReadFresh
<1> QED
  BY <1>1, <1>2

LEMMA StoreTyped ==
  ASSUME heard \in Identity, NEW s \in Sigs, NEW p \in 0 .. Last[s], NEW l \in Pages
  PROVE  Store(s, p) \in Identity /\ [Store(s, p) EXCEPT !.last = l] \in Identity
         /\ p \in Pages /\ Last[s] \in Pages /\ 0 \in Pages
<1>1. p \in Pages /\ Last[s] \in Pages /\ 0 \in Pages
  BY RelayAssumption DEF Pages
<1> QED
  BY <1>1 DEF Store, Identity

LEMMA HearIInv == ASSUME IInv, NEW id \in Identity, HearIdentity(id) PROVE IInv'
<1>1. 0 \in Stamps
  BY RelayAssumption DEF Stamps, Never
<1> QED
  BY <1>1, IdentityIInv DEF HearIdentity, IInv, TypeOK

LEMMA TransmitIInv == ASSUME IInv, Transmit PROVE IInv'
<1>1. Current \in Identity
  BY DEF IInv, TypeOK, Current, Identity
<1>2. AuthOf(Current) \in Auths
  <2> DEFINE id == Current
  <2>1. id.page \in [Pages -> Sigs \union {"none"}]
    BY <1>1 DEF Identity
  <2> HIDE DEF id
  <2> QED
    BY <2>1 DEF AuthOf, Auths, id
<1>3. Current.uas \in {"", "mav", "cfg"}
  BY <1>1 DEF Identity
<1> QED
  BY <1>1, <1>2, <1>3, IdentityIInv DEF Transmit, IInv, TypeOK

LEMMA SystemIInv == ASSUME IInv, HearSystem PROVE IInv'
<1> USE RelayAssumption DEF IInv
<1>1. UNCHANGED <<idVars, txVars, outlived>>
  BY DEF HearSystem, Write
<1>2. coord \in [Coords -> 0 .. Old] /\ opAge \in Stamps
  BY DEF TypeOK
<1>3. /\ rid' \in {"loop", "lon", "stamp"} /\ opAge' \in Stamps
      /\ coord' \in [Coords -> 0 .. Old]
      /\ \A c \in Coords : coord'[c] <= coord[c]
  BY <1>2 DEF HearSystem, Write, Stamps, Never, Old, Coords
<1>4. TypeOK'
  BY <1>1, <1>3 DEF TypeOK, idVars, txVars
<1>5. StampedLast'
  <2>1. CASE rid = "loop"
    BY <1>1, <1>2, <2>1 DEF HearSystem, Write, StampedLast, Coords, Stamps, Never
  <2>2. CASE rid = "lon"
    BY <1>1, <1>2, <2>2 DEF HearSystem, Write, StampedLast, Coords, Stamps, Never
  <2>3. CASE rid = "stamp"
    BY <1>1, <1>2, <2>3 DEF HearSystem, Write, StampedLast, Coords
  <2> QED
    BY <2>1, <2>2, <2>3 DEF TypeOK
<1>6. ReadFresh'
  BY <1>1, <1>2, <1>3 DEF ReadFresh, txVars, Coords, Old
<1> QED
  BY <1>4, <1>5, <1>6

LEMMA RepublishIInv == ASSUME IInv, Republish PROVE IInv'
<1> USE RelayAssumption DEF IInv
<1>1. UNCHANGED <<idVars, rid, opVars, outlived>>
  BY DEF Republish, Check, ReadCoord, Send, Step
<1>2. coord \in [Coords -> 0 .. Old] /\ copy \in [Coords -> 0 .. Old] /\ opAge \in Stamps
  BY DEF TypeOK
<1>3. /\ tx' \in {"due", "wait", "lat", "lon", "send"} /\ fresh' \in BOOLEAN
      /\ copy' \in [Coords -> 0 .. Old]
  <2>1. CASE Check
    <3>1. StampFresh \in BOOLEAN
      BY DEF StampFresh
    <3> QED
      BY <1>2, <2>1, <3>1 DEF Check, Step
  <2>2. CASE ReadCoord("lat", "lon")
    BY <1>2, <2>2 DEF ReadCoord, Step, TypeOK, Coords
  <2>3. CASE ReadCoord("lon", "send")
    BY <1>2, <2>3 DEF ReadCoord, Step, TypeOK, Coords
  <2>4. CASE Send
    BY <1>2, <2>4 DEF Send, Step, TypeOK
  <2> QED
    BY <2>1, <2>2, <2>3, <2>4 DEF Republish
<1>4. TypeOK'
  BY <1>1, <1>3 DEF TypeOK, idVars, opVars
<1>5. StampedLast'
  BY <1>1 DEF StampedLast, opVars
<1>6. ReadFresh'
  <2>1. CASE Check
    <3>1. fresh' => tx' = "lat" /\ opAge < OpTimeout
      BY <2>1, Zenon DEF Check, Step, StampFresh
    <3>2. tx' # "lon" /\ (tx' = "send" => ~fresh')
      BY <2>1, Zenon DEF Check, Step
    <3>3. opAge < OpTimeout /\ ~outlived => \A c \in Coords : coord[c] < OpTimeout
      BY <1>2 DEF StampedLast, Stamps, Never, Old
    <3>4. coord' = coord /\ outlived' = outlived
      BY <1>1 DEF opVars
    <3> QED
      BY <3>1, <3>2, <3>3, <3>4 DEF ReadFresh
  <2>2. CASE ReadCoord("lat", "lon")
    BY <1>1, <1>2, <2>2 DEF ReadCoord, Step, ReadFresh, opVars, Coords
  <2>3. CASE ReadCoord("lon", "send")
    BY <1>1, <1>2, <2>3 DEF ReadCoord, Step, ReadFresh, opVars, Coords
  <2>4. CASE Send
    BY <1>1, <2>4 DEF Send, Step, ReadFresh
  <2> QED
    BY <2>1, <2>2, <2>3, <2>4 DEF Republish
<1> QED
  BY <1>4, <1>5, <1>6

LEMMA TickIInv == ASSUME IInv, Tick PROVE IInv'
<1> USE RelayAssumption DEF IInv, Tick
<1>1. coord \in [Coords -> 0 .. Old] /\ opAge \in Stamps /\ idAge \in Stamps
  BY DEF TypeOK
<1>2. Wrapped(opAge) \in Stamps /\ Wrapped(idAge) \in Stamps
  BY <1>1 DEF Wrapped, Stamps, Never
<1>3. coord' \in [Coords -> 0 .. Old]
  BY <1>1 DEF Old
<1>4. outlived' \in BOOLEAN
  BY DEF TypeOK
<1>5. TypeOK'
  BY <1>2, <1>3, <1>4 DEF TypeOK
<1>6. StampedLast'
  <2>1. SUFFICES ASSUME ~outlived', opAge' < OpTimeout, NEW c \in Coords
                 PROVE  coord'[c] <= opAge'
    BY DEF StampedLast
  <2>2. ~outlived /\ ~(opAge # Never /\ opAge' = 0)
    BY <2>1
  <2>3. opAge # Never /\ opAge' = opAge + 1
    BY <1>1, <2>1, <2>2 DEF Wrapped, Stamps, Never
  <2>4. coord[c] <= opAge
    BY <1>1, <2>1, <2>2, <2>3 DEF StampedLast, Stamps
  <2> QED
    BY <1>1, <2>1, <2>3, <2>4 DEF Old, Stamps
<1>7. ReadFresh'
  BY DEF ReadFresh
<1> QED
  BY <1>5, <1>6, <1>7

LEMMA NextIInv == ASSUME IInv, [Next]_vars PROVE IInv'
<1>1. CASE UNCHANGED vars
  BY <1>1, IdentityIInv DEF vars, idVars, IInv, TypeOK
<1>2. CASE HearBasic
  <2>1. [heard EXCEPT !.uas = "mav"] \in Identity
    BY DEF IInv, TypeOK, Identity
  <2> QED
    BY <1>2, <2>1, HearIInv DEF HearBasic
<1>3. CASE HearOther
  BY <1>3, HearIInv DEF HearOther, IInv, TypeOK
<1>4. CASE HearAuth
  <2>0. PICK s \in Sigs : \E p \in 0 .. Last[s] :
          \E last \in {Last[s]} \union (IF p = 0 THEN {} ELSE {0}) : HearPage(s, p, last)
    BY <1>4 DEF HearAuth
  <2>1. PICK p \in 0 .. Last[s], last \in {0, Last[s]} : HearPage(s, p, last)
    BY <2>0
  <2>2. heard \in Identity
    BY DEF IInv, TypeOK
  <2>3. last \in Pages
    BY RelayAssumption DEF Pages
  <2> QED
    BY <2>1, <2>2, <2>3, StoreTyped, HearIInv DEF HearPage
<1>5. CASE Transmit
  BY <1>5, TransmitIInv
<1>6. CASE HearSystem
  BY <1>6, SystemIInv
<1>7. CASE Republish
  BY <1>7, RepublishIInv
<1>8. CASE Tick
  BY <1>8, TickIInv
<1> QED
  BY <1>1, <1>2, <1>3, <1>4, <1>5, <1>6, <1>7, <1>8 DEF Next

LEMMA Invariance == Spec => []IInv
BY InitIInv, NextIInv, PTL DEF Spec

\* The variables keep their types.
THEOREM TypeCorrect == Spec => []TypeOK
<1>1. IInv => TypeOK
  BY DEF IInv
<1> QED
  BY <1>1, Invariance, PTL

\* A republished coordinate was received within the last 30 s, however the two
\* tasks interleave, unless a stamp outlived the clock's period.
THEOREM OperatorFresh == Spec => []OpFresh
<1>1. IInv => OpFresh
  BY DEF IInv, ReadFresh, OpFresh
<1> QED
  BY <1>1, Invariance, PTL
-----------------------------------------------------------------------------
(* The pages of a signature. *)

\* The bits say which pages were received, wherever an identity is.
Marked(id) == \A p \in Pages : p \in id.pages <=> id.page[p] # "none"
\* What is transmitted begins with the first page and has no gap.
Gapless == \E k \in -1 .. MaxPage : \A p \in Pages : air.auth[p] # "none" <=> p <= k
PageInv == Marked(heard) /\ Marked(state) /\ Gapless

LEMMA StoreMarks ==
  ASSUME heard \in Identity, Marked(heard), NEW s \in Sigs, NEW p \in 0 .. Last[s], NEW l \in Pages
  PROVE  Marked([Store(s, p) EXCEPT !.last = l])
<1> DEFINE id == [Store(s, p) EXCEPT !.last = l]
<1>1. s # "none" /\ p \in Pages
  BY StoreTyped, RelayAssumption
<1>2. id.page = [heard.page EXCEPT ![p] = s] /\ id.pages = heard.pages \union {p}
  BY <1>1 DEF Store, Identity
<1>3. heard.page \in [Pages -> Sigs \union {"none"}]
  BY DEF Identity
<1> HIDE DEF id
<1>4. Marked(id)
  BY <1>1, <1>2, <1>3 DEF Marked
<1> QED
  BY <1>4 DEF id

\* A signature goes out with all its pages or with none.
LEMMA AuthOfGapless ==
  ASSUME NEW id \in Identity, Marked(id)
  PROVE  \E k \in -1 .. MaxPage : \A p \in Pages : AuthOf(id)[p] # "none" <=> p <= k
<1> DEFINE complete == 0 .. id.last \subseteq id.pages
<1>1. id.last \in Pages /\ Pages = 0 .. MaxPage /\ MaxPage \in Nat
  <2>1. MaxPage \in Nat
    BY RelayAssumption
  <2> QED
    BY <2>1 DEF Identity, Pages
<1> DEFINE Signed(p) == AuthOf(id)[p] # "none"
<1> SUFFICES \E k \in -1 .. MaxPage : \A p \in Pages : Signed(p) <=> p <= k
  OBVIOUS
<1>2. CASE id.pages # {} /\ complete
  <2>1. \A p \in Pages : AuthOf(id)[p] = IF p <= id.last THEN id.page[p] ELSE "none"
    BY <1>2 DEF AuthOf
  <2>2. \A p \in Pages : p <= id.last => p \in id.pages
    BY <1>1, <1>2
  <2>3. \A p \in Pages : Signed(p) <=> p <= id.last
    BY <2>1, <2>2 DEF Marked
  <2>4. id.last \in -1 .. MaxPage
    BY <1>1
  <2> HIDE DEF Signed
  <2> QED
    BY <2>3, <2>4, Zenon
<1>3. CASE id.pages # {} /\ ~complete
  <2>1. \A p \in Pages : ~Signed(p)
    BY <1>3 DEF AuthOf
  <2> HIDE DEF Signed
  <2> QED
    BY <1>1, <2>1
<1>4. CASE id.pages = {}
  <2>1. \A p \in Pages : Signed(p) <=> key /\ p = 0
    BY <1>4 DEF AuthOf
  <2> HIDE DEF Signed
  <2>2. CASE key
    <3>1. \A p \in Pages : Signed(p) <=> p <= 0
      BY <1>1, <2>1, <2>2
    <3>2. 0 \in -1 .. MaxPage
      BY <1>1
    <3> QED
      BY <3>1, <3>2, Zenon
  <2>3. CASE ~key
    BY <1>1, <2>1, <2>3
  <2> QED
    BY <2>2, <2>3
<1> QED
  BY <1>2, <1>3, <1>4

LEMMA StepPages ==
  ASSUME IInv, PageInv, [Next]_vars PROVE PageInv'
<1> USE DEF PageInv
<1>1. heard \in Identity /\ state \in Identity
  BY DEF IInv, TypeOK
<1>2. ASSUME NEW id, Marked(id), HearIdentity(id) PROVE PageInv'
  BY <1>2 DEF HearIdentity, Gapless, Marked, Pages
<1>3. CASE HearBasic
  <2>1. Marked([heard EXCEPT !.uas = "mav"])
    BY <1>1 DEF Marked, Identity
  <2> QED
    BY <1>2, <1>3, <2>1 DEF HearBasic
<1>4. CASE HearOther
  BY <1>2, <1>4 DEF HearOther
<1>5. CASE HearAuth
  <2>1. PICK s \in Sigs : \E p \in 0 .. Last[s] : \E l \in {Last[s], 0} : HearPage(s, p, l)
    BY <1>5 DEF HearAuth
  <2>2. PICK p \in 0 .. Last[s] : \E l \in {Last[s], 0} : HearPage(s, p, l)
    BY <2>1
  <2>3. PICK l \in {Last[s], 0} : HearPage(s, p, l)
    BY <2>2
  <2>4. l \in Pages
    BY RelayAssumption DEF Pages
  <2>5. Marked([Store(s, p) EXCEPT !.last = l])
    BY <1>1, <2>4, StoreMarks DEF PageInv
  <2> QED
    BY <1>2, <2>3, <2>5 DEF HearPage
<1>6. CASE Transmit
  <2>1. Current \in Identity /\ Marked(Current)
    BY <1>1 DEF Current, Identity, Marked
  <2>2. state' = Current /\ heard' = heard /\ air'.auth = AuthOf(Current)
    BY <1>6 DEF Transmit
  <2>3. Gapless'
    BY <2>1, <2>2, AuthOfGapless DEF Gapless, Pages
  <2> QED
    BY <2>1, <2>2, <2>3 DEF Marked, Pages
<1>7. CASE UNCHANGED <<heard, state, air>>
  BY <1>7 DEF Gapless, Marked, Pages
<1> QED
  BY <1>3, <1>4, <1>5, <1>6, <1>7 DEF Next, HearSystem, Write, Republish, Check, ReadCoord, Send,
     Step, Tick, vars, idVars

LEMMA PageInvariance == Spec => [](IInv /\ PageInv)
<1>1. Init => PageInv
  <2> SUFFICES ASSUME Init PROVE PageInv
    OBVIOUS
  <2>1. Marked(NoIdentity)
    BY DEF Marked, NoIdentity, Unsigned
  <2>2. \A p \in Pages : air.auth[p] = "none"
    BY DEF Init, Unsigned
  <2>3. MaxPage \in Nat /\ \A p \in Pages : ~(p <= -1)
    BY RelayAssumption DEF Pages
  <2>4. Gapless
    BY <2>2, <2>3 DEF Gapless
  <2> QED
    BY <2>1, <2>4 DEF Init, PageInv
<1> QED
  BY <1>1, InitIInv, NextIInv, StepPages, PTL DEF Spec

\* Whatever pages of whatever signatures arrive in whatever order, an incomplete
\* one is never transmitted (ble_tx.c:84-104, wifi_tx.c:167-246).
THEOREM SignaturesGapless == Spec => []Gapless
<1>1. PageInv => Gapless
  BY DEF PageInv
<1> QED
  BY <1>1, PageInvariance, PTL

-----------------------------------------------------------------------------
(* Why a repeated signature comes through. *)

Have(s) == {p \in 0 .. Last[s] : heard.page[p] = s}
Complete(s) == Have(s) = 0 .. Last[s] /\ heard.last = Last[s]
\* The autopilot sends no other signature, and the last index in every page.
Sends(s) == HearAuth => \E p \in 0 .. Last[s] : HearPage(s, p, Last[s])

Gathers(s) ==
  /\ Sends(s) => Have(s) \subseteq Have(s)' /\ (Complete(s) => Complete(s)')
  /\ \A p \in 0 .. Last[s] :
       HearPage(s, p, Last[s]) => Have(s)' = Have(s) \union {p} /\ heard'.last = Last[s]
  /\ Transmit /\ Current = heard /\ Complete(s) => air'.auth = Whole(s)

LEMMA PageGathered ==
  ASSUME heard \in Identity, NEW s \in Sigs, NEW p \in 0 .. Last[s], HearPage(s, p, Last[s])
  PROVE  Have(s)' = Have(s) \union {p} /\ heard'.last = Last[s]
<1>1. heard.page \in [Pages -> Sigs \union {"none"}] /\ p \in Pages
  BY StoreTyped, RelayAssumption DEF Identity, Pages
<1>2. heard' = [Store(s, p) EXCEPT !.last = Last[s]]
  BY DEF HearPage, HearIdentity
<1>3. heard'.page = [heard.page EXCEPT ![p] = s] /\ heard'.last = Last[s]
  BY <1>2 DEF Store, Identity
<1>4. \A q \in 0 .. Last[s] : q \in Pages
  BY RelayAssumption DEF Pages
<1> QED
  BY <1>1, <1>3, <1>4 DEF Have

LEMMA StepGathers ==
  ASSUME IInv, PageInv, [Next]_vars, NEW s \in Sigs PROVE Gathers(s)
<1>1. heard \in Identity
  BY DEF IInv, TypeOK
<1>2. ASSUME Sends(s) PROVE Have(s) \subseteq Have(s)' /\ (Complete(s) => Complete(s)')
  <2>1. CASE HearAuth
    <3>1. PICK p \in 0 .. Last[s] : HearPage(s, p, Last[s])
      BY <1>2, <2>1 DEF Sends
    <3>2. Have(s)' = Have(s) \union {p} /\ heard'.last = Last[s]
      BY <1>1, <3>1, PageGathered
    <3> QED
      BY <3>2 DEF Complete
  <2>2. CASE ~HearAuth
    <3>1. heard'.page = heard.page /\ heard'.last = heard.last
      <4>1. heard' = heard \/ heard' = [heard EXCEPT !.uas = "mav"]
        BY <2>2 DEF Next, HearBasic, HearOther, HearIdentity, Transmit, HearSystem, Write, Republish,
           Check, ReadCoord, Send, Step, Tick, vars, idVars
      <4> QED
        BY <1>1, <4>1 DEF Identity
    <3> QED
      BY <3>1 DEF Have, Complete
  <2> QED
    BY <2>1, <2>2
<1>3. ASSUME Transmit, Current = heard, Complete(s) PROVE air'.auth = Whole(s)
  <2>1. air'.auth = AuthOf(heard)
    BY <1>3 DEF Transmit
  <2>2. heard.last = Last[s] /\ \A p \in 0 .. Last[s] : heard.page[p] = s
    BY <1>3 DEF Complete, Have
  <2>3. /\ Pages = 0 .. MaxPage /\ Last[s] \in 0 .. MaxPage /\ MaxPage \in Nat /\ s # "none"
    BY RelayAssumption DEF Pages
  <2>4. 0 .. Last[s] \subseteq heard.pages
    BY <2>2, <2>3 DEF PageInv, Marked
  <2>5. heard.pages # {}
    BY <2>3, <2>4
  <2>6. AuthOf(heard) = [p \in Pages |-> IF p <= Last[s] THEN heard.page[p] ELSE "none"]
    BY <2>2, <2>4, <2>5 DEF AuthOf
  <2> QED
    BY <2>1, <2>2, <2>3, <2>6 DEF Whole
<1> QED
  BY <1>1, <1>2, <1>3, PageGathered DEF Gathers

\* The steps that make a repeated signature come through: whatever was collected
\* before, each page of it stays while no other signature is sent, and once all
\* are there the identity is transmitted with the whole of it
\* (mavlink_parser.c:211-225, ble_tx.c:84-104).
THEOREM PagesGather == Spec => [][\A s \in Sigs : Gathers(s)]_vars
<1>1. IInv /\ PageInv /\ [Next]_vars => [\A s \in Sigs : Gathers(s)]_vars
  BY StepGathers
<1> QED
  BY <1>1, PageInvariance, PTL DEF Spec
===============================================================================
