--------------------------- MODULE RidTaskProofs ---------------------------
(***************************************************************************)
(* The safety of rid_task for every set of configurations, radios, fix     *)
(* reports and timeouts that the assumptions of RidTask admit.             *)
(***************************************************************************)
EXTENDS RidTask, TLAPS

\* The uint32_t difference the code computes is the true age, until it wraps.
ClockInv == trueAge < AgeWrap => age = trueAge

\* had_gps tells that this iteration accepted data.
AcceptInv ==
  /\ pc = "branch" => ~hadGps
  /\ hadGps /\ pc \in {"gate", "filter", "expire", "tx", "sleep"} => trueAge <= elapsed
  /\ pc = "sleep" /\ aired # {} => hadGps

\* Where readiness, and with it a broadcast, can come from.
GateInv ==
  /\ Ungated(cfg) => ungated
  /\ pc # "snapshot" /\ Ungated(snap) => ungated
  /\ ready => ungated \/ sane
  /\ pc = "sleep" /\ aired # {} => ungated \/ sane

\* How old the last MAVLink message can be, given the age of the accepted data.
LinkInv ==
  /\ linkAge < AgeWrap => mavAge = linkAge
  /\ pc = "branch" /\ proto = "MAVLINK" /\ data.lat /\ linkAge < AgeWrap
       => linkAge < MavTimeout + elapsed
  /\ src = "MAVLINK" /\ trueAge < AgeWrap /\ linkAge < AgeWrap
       => linkAge < MavTimeout + MaxIter + trueAge

\* What was accepted in this iteration had not yet outlived its cache.
HeardInv ==
  hadGps /\ pc \in {"gate", "filter", "expire", "tx", "sleep"} =>
    /\ src = "MAVLINK" /\ linkAge < AgeWrap => linkAge < MavTimeout + elapsed
    /\ ident \in {"mavpart", "mavfull"} => idAge < IdentTimeout + elapsed

\* The NMEA parser knows no 2D fix.
NmeaInv ==
  /\ cache["NMEA"].type \in {0, 1, 3}
  /\ pc = "branch" /\ proto = "NMEA" /\ data.lat => data.type = 3
  /\ NmeaHeightDerived

\* Why a poor fix is ever accepted, and what identity goes with real data.
AirInv ==
  /\ pc = "poll" => ~data.lat
  /\ pc = "branch" /\ data.lat /\ proto # "MAVLINK" => data.type >= 2
  /\ hadGps /\ pc \in {"gate", "filter", "expire", "tx", "sleep"} /\ data.lat /\ data.type < 2
       => proto = "MAVLINK" /\ data.armed /\ "force" \in snap.opts
  /\ hadGps /\ pc \in {"filter", "expire", "tx", "sleep"} /\ "nosave" \in snap.opts
       => src = "demo" \/ ident = "blank"

IInv ==
  /\ TypeOK /\ ClockInv /\ FreshWhenValid /\ AcceptInv /\ GateInv /\ LinkInv /\ HeardInv
  /\ NmeaInv /\ AirInv

-----------------------------------------------------------------------------

\* A parser makes a well-formed fix of a well-formed report.
LEMMA ReadFixType ==
  ASSUME NEW p, NEW old \in Fix, NEW r \in Report
  PROVE  ReadFix(p, old, r) \in Fix
PROOF
<1>1. ReadType(p, old, r) \in 0 .. 3
  <2>1. r.type \in 0 .. 3 /\ old.type \in 0 .. 3
    BY DEF Fix, Report
  <2>2. CASE p # "NMEA"
    BY <2>1, <2>2 DEF ReadType
  <2>3. CASE p = "NMEA"
    <3>1. CASE r.type = 0
      BY <2>1, <2>3, <3>1 DEF ReadType
    <3>2. CASE r.type = 1
      BY <2>1, <2>3, <3>2 DEF ReadType
    <3>3. CASE r.type >= 2
      BY <2>1, <2>3, <3>3 DEF ReadType
    <3> QED BY <2>1, <3>1, <3>2, <3>3
  <2> QED BY <2>2, <2>3
<1>2. r.lat \in BOOLEAN /\ r.lon \in BOOLEAN
  BY DEF Report
<1> DEFINE t == ReadType(p, old, r)
<1>3. ReadFix(p, old, r) = [old EXCEPT !.type = t, !.lat = r.lat, !.lon = r.lon]
  BY DEF ReadFix
<1> DEFINE lat == r.lat
           lon == r.lon
<1>4. t \in 0 .. 3 /\ lat \in BOOLEAN /\ lon \in BOOLEAN
  BY <1>1, <1>2
<1>5. ReadFix(p, old, r) = [old EXCEPT !.type = t, !.lat = lat, !.lon = lon]
  BY <1>3
<1> HIDE DEF t, lat, lon
<1>6. [old EXCEPT !.type = t, !.lat = lat, !.lon = lon] \in Fix
  BY <1>4 DEF Fix
<1> QED
  BY <1>5, <1>6

\* What Receive does to the parser state keeps its type.
LEMMA ReceiveType ==
  ASSUME TypeOK, NEW p \in Parsers, NEW r \in FixReports \union {Silent},
         NEW a \in ArmReports \union {"none"}, NEW m \in MavIds \union {{}},
         Receive(p, r, a, m)
  PROVE  /\ cache' \in [Parsers -> Fix]
         /\ mavAge' \in Ages /\ mavId' \in SUBSET {"uas", "op"}
         /\ idAge' \in 0 .. AgeWrap - 1 /\ linkAge' \in Ages
PROOF
<1> DEFINE fix0 == IF r = Silent THEN cache[p] ELSE ReadFix(p, cache[p], r)
           fix == IF a = "none" \/ p = "NMEA" THEN fix0 ELSE [fix0 EXCEPT !.armed = (a = "armed")]
<1>1. cache[p] \in Fix
  BY DEF TypeOK
<1>2. r # Silent => r \in Report
  BY ConfigsAssumption
<1>3. fix0 \in Fix
  BY <1>1, <1>2, ReadFixType
<1>4. fix \in Fix
  <2> HIDE DEF fix0
  <2> QED BY <1>3 DEF Fix
<1>5. cache' = [cache EXCEPT ![p] = fix]
  BY DEF Receive
<1>6. cache' \in [Parsers -> Fix]
  <2> HIDE DEF fix
  <2> QED BY <1>4, <1>5 DEF TypeOK
<1>7. mavAge' \in Ages /\ linkAge' \in Ages
  BY TimesAssumption DEF Receive, TypeOK, Ages
<1>8. mavId' \in SUBSET {"uas", "op"} /\ idAge' \in 0 .. AgeWrap - 1
  BY ConfigsAssumption, TimesAssumption DEF Receive, TypeOK
<1> QED
  BY <1>6, <1>7, <1>8

\* Initially every variable has its type.
LEMMA InitType ==
  ASSUME Init PROVE TypeOK
PROOF
<1>1. cache \in [Parsers -> Fix] /\ data \in Fix
  BY DEF Init, Fix, NoFix
<1>2. kal \in [valid : BOOLEAN, age : 0 .. KalmanTimeout + 1]
  BY TimesAssumption DEF Init
<1>3. since \in [Radios -> 0 .. MaxInterval] /\ aired \in SUBSET Radios
  BY TimesAssumption DEF Init
<1>4. snap \in [proto : Parsers \union {"AUTO", "NONE"}, opts : SUBSET Options]
  BY DEF Init
<1>5. /\ elapsed \in 0 .. MaxIter /\ age \in 0 .. AgeWrap - 1
      /\ trueAge \in Ages /\ linkAge \in Ages
      /\ mavAge \in Ages /\ idAge \in 0 .. AgeWrap - 1
  BY TimesAssumption DEF Init, Ages
<1> QED
  BY <1>1, <1>2, <1>3, <1>4, <1>5 DEF Init, TypeOK, PCs, Protocols, Ids, Ungated

\* Every step keeps every variable in its type.
LEMMA StepType ==
  ASSUME TypeOK, [Next]_vars PROVE TypeOK'
PROOF
<1> USE DEF taskVars, parserVars, stateVars, txVars, clockVars, historyVars
<1>1. CASE Snapshot
  <2>1. cfg \in Config
    BY ConfigsAssumption DEF TypeOK
  <2> QED
    BY <1>1, <2>1 DEF Snapshot, TypeOK, PCs, Fix, NoFix, Config
<1>2. CASE Poll
  <2>1. PICK p \in IF snap.proto = "AUTO" THEN Parsers \union {"UNKNOWN"} ELSE {snap.proto} :
           /\ proto' = p /\ active' = p
           /\ \/ /\ p \notin Parsers
                 /\ UNCHANGED <<data, parserVars, linkAge>>
              \/ /\ p \in Parsers
                 /\ \E r \in FixReports \union {Silent}, a \in ArmReports \union {"none"},
                       m \in MavIds \union {{}} : Receive(p, r, a, m)
                 /\ data' = IF HaveData(p, cache'[p], mavAge') THEN cache'[p] ELSE NoFix
    BY <1>2 DEF Poll
  <2>2. p \in Protocols
    BY <2>1 DEF TypeOK, Protocols
  <2>3. /\ cache' \in [Parsers -> Fix] /\ data' \in Fix
        /\ mavAge' \in Ages /\ mavId' \in SUBSET {"uas", "op"}
        /\ idAge' \in 0 .. AgeWrap - 1 /\ linkAge' \in Ages
    <3>1. CASE p \notin Parsers
      BY <2>1, <3>1 DEF TypeOK
    <3>2. CASE p \in Parsers
      <4>1. PICK r \in FixReports \union {Silent}, a \in ArmReports \union {"none"},
                 m \in MavIds \union {{}} : Receive(p, r, a, m)
        BY <2>1, <3>2
      <4>2. /\ cache' \in [Parsers -> Fix]
            /\ mavAge' \in Ages /\ mavId' \in SUBSET {"uas", "op"}
            /\ idAge' \in 0 .. AgeWrap - 1 /\ linkAge' \in Ages
        BY <3>2, <4>1, ReceiveType
      <4>3. NoFix \in Fix
        BY DEF Fix, NoFix
      <4>4. data' \in Fix
        BY <2>1, <3>2, <4>2, <4>3
      <4> QED BY <4>2, <4>4
    <3> QED BY <3>1, <3>2
  <2> QED
    BY <1>2, <2>1, <2>2, <2>3 DEF Poll, TypeOK, PCs
<1>3. CASE Commit
  <2>1. Assembled \in Ids
    BY ConfigsAssumption DEF TypeOK, Assembled, Config, Ids
  <2>2. 0 \in Ages /\ 0 \in 0 .. AgeWrap - 1
    BY TimesAssumption DEF Ages
  <2> QED
    BY <1>3, <2>1, <2>2 DEF Commit, TypeOK, PCs
<1>4. CASE Gate
  <2>1. ident' \in Ids
    BY <1>4 DEF Gate, Published, TypeOK, Ids
  <2> QED
    BY <1>4, <2>1 DEF Gate, TypeOK, PCs
<1>5. CASE Demo
  <2>1. cfg.id \in Ids
    BY ConfigsAssumption DEF TypeOK, Config, Ids
  <2>2. 0 \in Ages /\ 0 \in 0 .. AgeWrap - 1
    BY TimesAssumption DEF Ages
  <2> QED
    BY <1>5, <2>1, <2>2 DEF Demo, TypeOK, PCs, Protocols
<1>6. CASE Skip
  BY <1>6 DEF Skip, TypeOK, PCs
<1>7. CASE Filter
  <2>1. kal' \in [valid : BOOLEAN, age : 0 .. KalmanTimeout + 1]
    <3> DEFINE K == [valid : BOOLEAN, age : 0 .. KalmanTimeout + 1]
    <3>1. kal \in K /\ KalmanUpdate(kal) \in K
      BY TimesAssumption DEF TypeOK, KalmanUpdate
    <3>2. ASSUME NEW k \in K PROVE KalmanPredict(k) \in K
      BY TimesAssumption DEF KalmanPredict
    <3> QED
      BY <1>7, <3>1, <3>2 DEF Filter
  <2> QED
    BY <1>7, <2>1 DEF Filter, KalmanValidAge, TypeOK, PCs
<1>8. CASE Expire
  BY <1>8 DEF Expire, TypeOK, PCs
<1>9. CASE Transmit
  <2>1. since' \in [Radios -> 0 .. MaxInterval]
    BY <1>9, TimesAssumption DEF Transmit, RateStamp, TypeOK
  <2>2. aired' \in SUBSET Radios
    BY <1>9 DEF Transmit
  <2> QED
    BY <1>9, <2>1, <2>2 DEF Transmit, TypeOK, PCs
<1>10. CASE Wake
  BY <1>10, TimesAssumption DEF Wake, TypeOK, PCs
<1>11. CASE Tick
  <2>1. /\ trueAge' \in Ages /\ linkAge' \in Ages
        /\ elapsed' \in 0 .. MaxIter
    BY <1>11, TimesAssumption DEF Tick, Older, TypeOK, Ages
  <2>4. /\ mavAge' \in Ages /\ idAge' \in 0 .. AgeWrap - 1
        /\ age' \in 0 .. AgeWrap - 1
    BY <1>11, TimesAssumption DEF Tick, Wrapped, TypeOK, Ages
  <2>2. kal' \in [valid : BOOLEAN, age : 0 .. KalmanTimeout + 1]
    BY <1>11, TimesAssumption DEF Tick, Older, TypeOK
  <2>3. since' \in [Radios -> 0 .. MaxInterval]
    BY <1>11, TimesAssumption DEF Tick, Older, TypeOK
  <2> QED
    BY <1>11, <2>1, <2>2, <2>3, <2>4 DEF Tick, TypeOK
<1>12. ASSUME NEW c \in Configs, SetConfig(c)
       PROVE  TypeOK'
  BY <1>12 DEF SetConfig, Ungated, TypeOK
<1>13. CASE UNCHANGED vars
  BY <1>13 DEF vars, TypeOK
<1> QED
  BY <1>1, <1>2, <1>3, <1>4, <1>5, <1>6, <1>7, <1>8, <1>9, <1>10, <1>11, <1>12, <1>13
  DEF Next, TaskStep

\* Every variable of RidTask keeps its type in every behaviour.
THEOREM TypeCorrect == Spec => []TypeOK
PROOF
<1>1. Init => TypeOK
  BY InitType
<1>2. TypeOK /\ [Next]_vars => TypeOK'
  BY StepType
<1> QED
  BY <1>1, <1>2, PTL DEF Spec

-----------------------------------------------------------------------------

\* The invariant holds initially.
LEMMA InitIInv ==
  ASSUME Init PROVE IInv
PROOF
<1>1. TypeOK
  BY InitType
<1>2. ClockInv /\ FreshWhenValid /\ AcceptInv
  BY TimesAssumption DEF Init, ClockInv, FreshWhenValid, Checked, AcceptInv
<1>3. GateInv
  BY DEF Init, GateInv
<1>4. LinkInv /\ NmeaInv /\ AirInv
  BY DEF Init, LinkInv, NmeaInv, NmeaHeightDerived, AirInv, NoFix, Parsers
<1>5. HeardInv
  BY DEF Init, HeardInv
<1> QED
  BY <1>1, <1>2, <1>3, <1>4, <1>5 DEF IInv

\* The wrapped age follows the true one.
LEMMA StepClock ==
  ASSUME IInv, TypeOK', [Next]_vars PROVE ClockInv'
PROOF
<1> USE DEF taskVars, parserVars, stateVars, txVars, clockVars, historyVars
<1>1. CASE Snapshot
  BY <1>1 DEF Snapshot, IInv, ClockInv
<1>2. CASE Poll
  BY <1>2 DEF Poll, IInv, ClockInv
<1>3. CASE Commit
  BY <1>3 DEF Commit, IInv, ClockInv
<1>4. CASE Gate
  BY <1>4 DEF Gate, IInv, ClockInv
<1>5. CASE Demo
  BY <1>5 DEF Demo, IInv, ClockInv
<1>6. CASE Skip
  BY <1>6 DEF Skip, IInv, ClockInv
<1>7. CASE Filter
  BY <1>7 DEF Filter, IInv, ClockInv
<1>8. CASE Expire
  BY <1>8 DEF Expire, IInv, ClockInv
<1>9. CASE Transmit
  BY <1>9 DEF Transmit, IInv, ClockInv
<1>10. CASE Wake
  BY <1>10 DEF Wake, IInv, ClockInv
<1>11. CASE Tick
  BY <1>11, TimesAssumption DEF Tick, IInv, ClockInv, TypeOK, Ages, Older, Wrapped
<1>12. ASSUME NEW c \in Configs, SetConfig(c)
       PROVE  ClockInv'
  BY <1>12, TimesAssumption DEF SetConfig, IInv, ClockInv, TypeOK, Ages, Older, Wrapped
<1>13. CASE UNCHANGED vars
  BY <1>13, TimesAssumption DEF vars, IInv, ClockInv, TypeOK, Ages, Older, Wrapped
<1> QED
  BY <1>1, <1>2, <1>3, <1>4, <1>5, <1>6, <1>7, <1>8, <1>9, <1>10, <1>11, <1>12, <1>13 DEF Next, TaskStep

\* The absolute timeout bounds the age of what stays valid.
LEMMA StepFresh ==
  ASSUME IInv, TypeOK', [Next]_vars PROVE FreshWhenValid'
PROOF
<1> USE DEF taskVars, parserVars, stateVars, txVars, clockVars, historyVars
<1>1. CASE Snapshot
  BY <1>1 DEF Snapshot, IInv, FreshWhenValid, Checked
<1>2. CASE Poll
  BY <1>2 DEF Poll, IInv, FreshWhenValid, Checked
<1>3. CASE Commit
  BY <1>3 DEF Commit, IInv, FreshWhenValid, Checked
<1>4. CASE Gate
  BY <1>4 DEF Gate, IInv, FreshWhenValid, Checked
<1>5. CASE Demo
  BY <1>5 DEF Demo, IInv, FreshWhenValid, Checked
<1>6. CASE Skip
  BY <1>6 DEF Skip, IInv, FreshWhenValid, Checked
<1>7. CASE Filter
  BY <1>7 DEF Filter, IInv, FreshWhenValid, Checked
<1>8. CASE Expire
  <2>1. UNCHANGED <<trueAge, elapsed>> /\ trueAge \in Int /\ elapsed \in Nat
    BY <1>8, TimesAssumption DEF Expire, TypeOK, IInv, Ages
  <2>2. gpsValid' => age <= StaleLimit
    BY <1>8 DEF Expire, Fresh
  <2>3. trueAge < AgeWrap => age = trueAge
    BY DEF IInv, ClockInv
  <2>4. ASSUME gpsValid', trueAge' < AgeWrap
        PROVE  trueAge' <= StaleLimit + elapsed'
    BY <2>1, <2>2, <2>3, <2>4, TimesAssumption
  <2> QED
    BY <2>4 DEF FreshWhenValid
<1>9. CASE Transmit
  BY <1>9 DEF Transmit, IInv, FreshWhenValid, Checked
<1>10. CASE Wake
  BY <1>10 DEF Wake, IInv, FreshWhenValid, Checked
<1>11. CASE Tick
  BY <1>11, TimesAssumption DEF Tick, IInv, ClockInv, FreshWhenValid, Checked, Fresh, TypeOK, Ages, Older
<1>12. ASSUME NEW c \in Configs, SetConfig(c)
       PROVE  FreshWhenValid'
  BY <1>12, TimesAssumption DEF SetConfig, IInv, ClockInv, FreshWhenValid, Checked, Fresh, TypeOK, Ages, Older
<1>13. CASE UNCHANGED vars
  BY <1>13, TimesAssumption DEF vars, IInv, ClockInv, FreshWhenValid, Checked, Fresh, TypeOK, Ages, Older
<1> QED
  BY <1>1, <1>2, <1>3, <1>4, <1>5, <1>6, <1>7, <1>8, <1>9, <1>10, <1>11, <1>12, <1>13 DEF Next, TaskStep

\* had_gps is set in the iteration that accepts, and only there.
LEMMA StepAccept ==
  ASSUME IInv, TypeOK', [Next]_vars PROVE AcceptInv'
PROOF
<1> USE DEF taskVars, parserVars, stateVars, txVars, clockVars, historyVars
<1>1. CASE Snapshot
  BY <1>1 DEF Snapshot, IInv, AcceptInv
<1>2. CASE Poll
  BY <1>2 DEF Poll, IInv, AcceptInv
<1>3. CASE Commit
  BY <1>3, TimesAssumption DEF Commit, IInv, AcceptInv, MayAir, TypeOK, Ages, Older
<1>4. CASE Gate
  BY <1>4 DEF Gate, IInv, AcceptInv
<1>5. CASE Demo
  BY <1>5, TimesAssumption DEF Demo, IInv, AcceptInv, MayAir, TypeOK, Ages, Older
<1>6. CASE Skip
  BY <1>6 DEF Skip, IInv, AcceptInv
<1>7. CASE Filter
  BY <1>7 DEF Filter, IInv, AcceptInv
<1>8. CASE Expire
  BY <1>8 DEF Expire, IInv, AcceptInv
<1>9. CASE Transmit
  BY <1>9 DEF Transmit, IInv, AcceptInv, MayAir
<1>10. CASE Wake
  BY <1>10, TimesAssumption DEF Wake, IInv, AcceptInv, MayAir, TypeOK, Ages, Older
<1>11. CASE Tick
  BY <1>11, TimesAssumption DEF Tick, IInv, AcceptInv, MayAir, TypeOK, Ages, Older
<1>12. ASSUME NEW c \in Configs, SetConfig(c)
       PROVE  AcceptInv'
  BY <1>12, TimesAssumption DEF SetConfig, IInv, AcceptInv, MayAir, TypeOK, Ages, Older
<1>13. CASE UNCHANGED vars
  BY <1>13, TimesAssumption DEF vars, IInv, AcceptInv, MayAir, TypeOK, Ages, Older
<1> QED
  BY <1>1, <1>2, <1>3, <1>4, <1>5, <1>6, <1>7, <1>8, <1>9, <1>10, <1>11, <1>12, <1>13 DEF Next, TaskStep

\* Readiness comes from a sane identity or an ungated configuration.
LEMMA StepGate ==
  ASSUME IInv, TypeOK', [Next]_vars PROVE GateInv'
PROOF
<1> USE DEF taskVars, parserVars, stateVars, txVars, clockVars, historyVars
<1>1. CASE Snapshot
  BY <1>1 DEF Snapshot, IInv, GateInv, Ungated, TypeOK, MayAir, TxGates, AcceptInv
<1>2. CASE Poll
  BY <1>2 DEF Poll, IInv, GateInv, Ungated, TypeOK, MayAir, TxGates, AcceptInv
<1>3. CASE Commit
  BY <1>3 DEF Commit, IInv, GateInv, Ungated, TypeOK, MayAir, TxGates, AcceptInv
<1>4. CASE Gate
  BY <1>4 DEF Gate, IInv, GateInv, Ungated, TypeOK, MayAir, TxGates, AcceptInv
<1>5. CASE Demo
  BY <1>5 DEF Demo, IInv, GateInv, Ungated, TypeOK, MayAir, TxGates, AcceptInv
<1>6. CASE Skip
  BY <1>6 DEF Skip, IInv, GateInv, Ungated, TypeOK, MayAir, TxGates, AcceptInv
<1>7. CASE Filter
  BY <1>7 DEF Filter, IInv, GateInv, Ungated, TypeOK, MayAir, TxGates, AcceptInv
<1>8. CASE Expire
  BY <1>8 DEF Expire, IInv, GateInv, Ungated, TypeOK, MayAir, TxGates, AcceptInv
<1>9. CASE Transmit
  BY <1>9 DEF Transmit, IInv, GateInv, Ungated, TypeOK, MayAir, TxGates, AcceptInv
<1>10. CASE Wake
  BY <1>10 DEF Wake, IInv, GateInv, Ungated, TypeOK, MayAir, TxGates, AcceptInv
<1>11. CASE Tick
  BY <1>11 DEF Tick, IInv, GateInv, Ungated, TypeOK, MayAir, TxGates, AcceptInv
<1>12. ASSUME NEW c \in Configs, SetConfig(c)
       PROVE  GateInv'
  BY <1>12 DEF SetConfig, IInv, GateInv, Ungated, TypeOK, MayAir, TxGates, AcceptInv
<1>13. CASE UNCHANGED vars
  BY <1>13 DEF vars, IInv, GateInv, Ungated, TypeOK, MayAir, TxGates, AcceptInv
<1> QED
  BY <1>1, <1>2, <1>3, <1>4, <1>5, <1>6, <1>7, <1>8, <1>9, <1>10, <1>11, <1>12, <1>13 DEF Next, TaskStep

\* The MAVLink cache is never much older than the data accepted from it.
LEMMA StepLink ==
  ASSUME IInv, TypeOK', [Next]_vars PROVE LinkInv'
PROOF
<1> USE DEF taskVars, parserVars, stateVars, txVars, clockVars, historyVars
<1>1. CASE Snapshot
  BY <1>1, TimesAssumption DEF Snapshot, IInv, LinkInv, TypeOK, Ages, Older, Wrapped
<1>2. CASE Poll
  <2>1. /\ UNCHANGED <<src, trueAge, elapsed>> /\ pc' = "branch"
        /\ UNCHANGED <<mavAge, linkAge>> \/ (mavAge' = 0 /\ linkAge' = 0)
    BY <1>2 DEF Poll, Receive
  <2>2. /\ linkAge' < AgeWrap => mavAge' = linkAge'
        /\ src = "MAVLINK" /\ trueAge < AgeWrap /\ linkAge' < AgeWrap
             => linkAge' < MavTimeout + MaxIter + trueAge
    BY <2>1, TimesAssumption DEF IInv, LinkInv, TypeOK, Ages
  <2>3. ASSUME proto' = "MAVLINK", data'.lat
        PROVE  mavAge' < MavTimeout
    BY <1>2, <2>3 DEF Poll, HaveData, NoFix, Parsers
  <2> QED
    BY <2>1, <2>2, <2>3, TimesAssumption DEF LinkInv, TypeOK, Ages
<1>3. CASE Commit
  <2>1. proto = "MAVLINK" /\ linkAge < AgeWrap => linkAge < MavTimeout + elapsed
    BY <1>3 DEF Commit, Accepts, IInv, LinkInv
  <2>2. linkAge \in Nat /\ elapsed \in 0 .. MaxIter
    BY TimesAssumption DEF IInv, TypeOK, Ages
  <2>3. pc' = "gate" /\ src' = proto /\ trueAge' = 0 /\ UNCHANGED <<mavAge, linkAge>>
    BY <1>3 DEF Commit
  <2>4. linkAge < AgeWrap => mavAge = linkAge
    BY DEF IInv, LinkInv
  <2> QED
    BY <2>1, <2>2, <2>3, <2>4, TimesAssumption DEF LinkInv
<1>4. CASE Gate
  BY <1>4, TimesAssumption DEF Gate, IInv, LinkInv, TypeOK, Ages, Older, Wrapped
<1>5. CASE Demo
  BY <1>5, TimesAssumption DEF Demo, IInv, LinkInv, TypeOK, Ages, Older, Wrapped
<1>6. CASE Skip
  BY <1>6, TimesAssumption DEF Skip, IInv, LinkInv, TypeOK, Ages, Older, Wrapped
<1>7. CASE Filter
  BY <1>7, TimesAssumption DEF Filter, IInv, LinkInv, TypeOK, Ages, Older, Wrapped
<1>8. CASE Expire
  BY <1>8, TimesAssumption DEF Expire, IInv, LinkInv, TypeOK, Ages, Older, Wrapped
<1>9. CASE Transmit
  BY <1>9, TimesAssumption DEF Transmit, IInv, LinkInv, TypeOK, Ages, Older, Wrapped
<1>10. CASE Wake
  BY <1>10, TimesAssumption DEF Wake, IInv, LinkInv, TypeOK, Ages, Older, Wrapped
<1>11. CASE Tick
  BY <1>11, TimesAssumption DEF Tick, IInv, LinkInv, TypeOK, Ages, Older, Wrapped
<1>12. ASSUME NEW c \in Configs, SetConfig(c)
       PROVE  LinkInv'
  BY <1>12, TimesAssumption DEF SetConfig, IInv, LinkInv, TypeOK, Ages, Older, Wrapped
<1>13. CASE UNCHANGED vars
  BY <1>13, TimesAssumption DEF vars, IInv, LinkInv, TypeOK, Ages, Older, Wrapped
<1> QED
  BY <1>1, <1>2, <1>3, <1>4, <1>5, <1>6, <1>7, <1>8, <1>9, <1>10, <1>11, <1>12, <1>13 DEF Next, TaskStep

\* A broadcast is soon after the data it was made from.
LEMMA StepHeard ==
  ASSUME IInv, TypeOK', [Next]_vars PROVE HeardInv'
PROOF
<1> USE DEF taskVars, parserVars, stateVars, txVars, clockVars, historyVars
<1>t. /\ linkAge \in Nat /\ idAge \in Nat /\ elapsed \in Nat
      /\ AgeWrap \in Nat /\ MavTimeout \in Nat \ {0} /\ IdentTimeout \in Nat \ {0}
  BY TimesAssumption DEF IInv, TypeOK, Ages
<1>1. CASE Snapshot \/ Poll \/ Wake
  BY <1>1 DEF Snapshot, Poll, Wake, HeardInv
<1>2. CASE Commit
  <2>1. proto = "MAVLINK" /\ linkAge < AgeWrap => linkAge < MavTimeout + elapsed
    BY <1>2 DEF Commit, Accepts, IInv, LinkInv
  <2>2. cfg.id \notin {"mavpart", "mavfull"}
    BY ConfigsAssumption DEF IInv, TypeOK, Config
  <2>3. Assembled \in {"mavpart", "mavfull"} => idAge < IdentTimeout + elapsed
    BY <1>t, <2>2 DEF Assembled
  <2> QED
    BY <1>2, <2>1, <2>3 DEF Commit, HeardInv
<1>3. CASE Demo
  <2>1. cfg.id \notin {"mavpart", "mavfull"}
    BY ConfigsAssumption DEF IInv, TypeOK, Config
  <2> QED
    BY <1>3, <2>1 DEF Demo, HeardInv
<1>4. CASE Gate
  BY <1>4 DEF Gate, Published, IInv, HeardInv
<1>5. CASE Skip
  BY <1>5 DEF Skip, IInv, AcceptInv, HeardInv
<1>6. CASE Filter \/ Expire \/ Transmit
  BY <1>6 DEF Filter, Expire, Transmit, IInv, HeardInv
<1>7. CASE Tick
  <2>1. /\ UNCHANGED <<pc, hadGps, src, ident>> /\ elapsed' = elapsed + 1
        /\ linkAge' = IF linkAge < AgeWrap THEN linkAge + 1 ELSE AgeWrap
        /\ idAge' \in {0, idAge + 1}
    BY <1>7 DEF Tick, Older, Wrapped
  <2> QED
    BY <1>t, <2>1 DEF IInv, HeardInv
<1>8. ASSUME NEW c \in Configs, SetConfig(c)
      PROVE  HeardInv'
  BY <1>8 DEF SetConfig, IInv, HeardInv
<1>9. CASE UNCHANGED vars
  BY <1>9 DEF vars, IInv, HeardInv
<1> QED
  BY <1>1, <1>2, <1>3, <1>4, <1>5, <1>6, <1>7, <1>8, <1>9 DEF Next, TaskStep

\* The NMEA cache holds 3D fixes or nothing useful.
LEMMA StepNmea ==
  ASSUME IInv, TypeOK', [Next]_vars PROVE NmeaInv'
PROOF
<1> USE DEF taskVars, parserVars, stateVars, txVars, clockVars, historyVars
<1>1. CASE Snapshot
  BY <1>1 DEF Snapshot, IInv, NmeaInv, NmeaHeightDerived, TypeOK
<1>2. CASE Poll
  <2>1. PICK p \in IF snap.proto = "AUTO" THEN Parsers \union {"UNKNOWN"} ELSE {snap.proto} :
           /\ proto' = p
           /\ \/ /\ p \notin Parsers
                 /\ UNCHANGED cache
              \/ /\ p \in Parsers
                 /\ \E r \in FixReports \union {Silent}, a \in ArmReports \union {"none"},
                       m \in MavIds \union {{}} : Receive(p, r, a, m)
                 /\ data' = IF HaveData(p, cache'[p], mavAge') THEN cache'[p] ELSE NoFix
    BY <1>2 DEF Poll
  <2>2. pc' = "branch"
    BY <1>2 DEF Poll
  <2>3. cache'["NMEA"].type \in {0, 1, 3}
    <3>1. CASE p \notin Parsers
      BY <2>1, <3>1 DEF IInv, NmeaInv
    <3>2. CASE p \in Parsers
      <4>1. PICK r \in FixReports \union {Silent}, a \in ArmReports \union {"none"},
                 m \in MavIds \union {{}} : Receive(p, r, a, m)
        BY <2>1, <3>2
      <4>2. CASE p # "NMEA"
        BY <4>1, <4>2 DEF Receive, IInv, NmeaInv, TypeOK, Parsers
      <4>3. CASE p = "NMEA"
        <5> DEFINE f == IF r = Silent THEN cache["NMEA"] ELSE ReadFix("NMEA", cache["NMEA"], r)
        <5>1. cache' = [cache EXCEPT !["NMEA"] = f]
          BY <4>1, <4>3 DEF Receive
        <5>2. cache["NMEA"] \in Fix /\ cache["NMEA"].type \in {0, 1, 3}
          BY DEF IInv, NmeaInv, TypeOK, Parsers
        <5>3. f.type \in {0, 1, 3}
          <6>1. CASE r = Silent
            BY <5>2, <6>1
          <6>2. CASE r # Silent
            <7>1. r.type \in 0 .. 3
              BY <6>2, ConfigsAssumption DEF Report
            <7>2. ReadType("NMEA", cache["NMEA"], r) \in {0, 1, 3}
              <8>1. CASE r.type = 0
                BY <5>2, <8>1 DEF ReadType
              <8>2. CASE r.type = 1
                BY <8>2 DEF ReadType
              <8>3. CASE r.type >= 2
                BY <7>1, <8>3 DEF ReadType
              <8> QED BY <7>1, <8>1, <8>2, <8>3
            <7>3. f = ReadFix("NMEA", cache["NMEA"], r)
              BY <6>2
            <7> QED BY <5>2, <7>2, <7>3 DEF ReadFix, Fix
          <6> QED BY <6>1, <6>2
        <5> HIDE DEF f
        <5> QED
          BY <5>1, <5>3 DEF IInv, TypeOK, Parsers
      <4> QED
        BY <4>2, <4>3
    <3> QED
      BY <3>1, <3>2
  <2>4. ASSUME p = "NMEA", data'.lat
        PROVE  data'.type = 3
    <3>1. /\ cache'["NMEA"].type >= 2
          /\ data' = cache'["NMEA"]
      BY <2>1, <2>4 DEF HaveData, NoFix, Parsers
    <3> QED
      BY <2>3, <3>1
  <2> QED
    BY <2>1, <2>2, <2>3, <2>4 DEF NmeaInv, NmeaHeightDerived
<1>3. CASE Commit
  <2>1. proto = "NMEA" => data.type = 3
    BY <1>3 DEF Commit, Accepts, IInv, NmeaInv
  <2>2. proto = "NMEA" /\ data.lon => takeoff'
    <3>1. proto = "NMEA" => data.type >= 3 /\ data.lat
      BY <1>3, <2>1 DEF Commit, Accepts
    <3>2. takeoff' = (takeoff \/ (data.type >= 3 /\ data.lat /\ data.lon))
      BY <1>3 DEF Commit
    <3> QED BY <3>1, <3>2, Zenon
  <2>3. height' = (proto \in {"MSP", "NMEA"} /\ takeoff')
    BY <1>3 DEF Commit
  <2>4. proto = "NMEA" /\ data.lon => height'
    BY <2>2, <2>3, Zenon
  <2> QED
    BY <1>3, <2>4 DEF Commit, IInv, NmeaInv, NmeaHeightDerived
<1>4. CASE Gate
  BY <1>4 DEF Gate, IInv, NmeaInv, NmeaHeightDerived, TypeOK
<1>5. CASE Demo
  BY <1>5 DEF Demo, IInv, NmeaInv, NmeaHeightDerived, TypeOK
<1>6. CASE Skip
  BY <1>6 DEF Skip, IInv, NmeaInv, NmeaHeightDerived, TypeOK
<1>7. CASE Filter
  BY <1>7 DEF Filter, IInv, NmeaInv, NmeaHeightDerived, TypeOK
<1>8. CASE Expire
  BY <1>8 DEF Expire, IInv, NmeaInv, NmeaHeightDerived, TypeOK
<1>9. CASE Transmit
  BY <1>9 DEF Transmit, IInv, NmeaInv, NmeaHeightDerived, TypeOK
<1>10. CASE Wake
  BY <1>10 DEF Wake, IInv, NmeaInv, NmeaHeightDerived, TypeOK
<1>11. CASE Tick
  BY <1>11 DEF Tick, IInv, NmeaInv, NmeaHeightDerived, TypeOK
<1>12. ASSUME NEW c \in Configs, SetConfig(c)
       PROVE  NmeaInv'
  BY <1>12 DEF SetConfig, IInv, NmeaInv, NmeaHeightDerived, TypeOK
<1>13. CASE UNCHANGED vars
  BY <1>13 DEF vars, IInv, NmeaInv, NmeaHeightDerived, TypeOK
<1> QED
  BY <1>1, <1>2, <1>3, <1>4, <1>5, <1>6, <1>7, <1>8, <1>9, <1>10, <1>11, <1>12, <1>13 DEF Next, TaskStep

\* What reaches the air was accepted for a reason, under the right name.
LEMMA StepAir ==
  ASSUME IInv, TypeOK', [Next]_vars PROVE AirInv'
PROOF
<1> USE DEF taskVars, parserVars, stateVars, txVars, clockVars, historyVars
<1>1. CASE Snapshot
  BY <1>1 DEF Snapshot, IInv, AirInv, NoFix, TypeOK, Fix
<1>2. CASE Poll
  <2>1. PICK p \in IF snap.proto = "AUTO" THEN Parsers \union {"UNKNOWN"} ELSE {snap.proto} :
          /\ proto' = p
          /\ \/ p \notin Parsers /\ UNCHANGED data
             \/ /\ p \in Parsers
                /\ data' = IF HaveData(p, cache'[p], mavAge') THEN cache'[p] ELSE NoFix
    BY <1>2 DEF Poll
  <2>2. CASE UNCHANGED data
    BY <1>2, <2>2 DEF Poll, IInv, AirInv
  <2>3. CASE data' = IF HaveData(p, cache'[p], mavAge') THEN cache'[p] ELSE NoFix
    <3>1. data'.lat /\ p # "MAVLINK" => data'.type >= 2
      BY <2>3 DEF HaveData, NoFix
    <3> QED
      BY <1>2, <2>1, <3>1 DEF Poll, AirInv
  <2> QED
    BY <2>1, <2>2, <2>3
<1>3. CASE Commit
  BY <1>3 DEF Commit, IInv, AirInv, Accepts, TypeOK, Fix
<1>4. CASE Gate
  BY <1>4 DEF Gate, IInv, AirInv, Published, TypeOK, Fix
<1>5. CASE Demo
  BY <1>5 DEF Demo, IInv, AirInv, TypeOK, Fix
<1>6. CASE Skip
  BY <1>6 DEF Skip, IInv, AirInv, AcceptInv, TypeOK, Fix
<1>7. CASE Filter
  BY <1>7 DEF Filter, IInv, AirInv, TypeOK, Fix
<1>8. CASE Expire
  BY <1>8 DEF Expire, IInv, AirInv, TypeOK, Fix
<1>9. CASE Transmit
  BY <1>9 DEF Transmit, IInv, AirInv, TypeOK, Fix
<1>10. CASE Wake
  BY <1>10 DEF Wake, IInv, AirInv
<1>11. CASE Tick
  BY <1>11 DEF Tick, IInv, AirInv
<1>12. ASSUME NEW c \in Configs, SetConfig(c)
       PROVE  AirInv'
  BY <1>12 DEF SetConfig, IInv, AirInv
<1>13. CASE UNCHANGED vars
  BY <1>13 DEF vars, IInv, AirInv
<1> QED
  BY <1>1, <1>2, <1>3, <1>4, <1>5, <1>6, <1>7, <1>8, <1>9, <1>10, <1>11, <1>12, <1>13 DEF Next, TaskStep

\* The invariant is inductive.
LEMMA StepIInv ==
  ASSUME IInv, [Next]_vars PROVE IInv'
PROOF
<1>1. TypeOK'
  BY StepType DEF IInv
<1> QED
  BY <1>1, StepClock, StepFresh, StepAccept, StepGate, StepLink, StepHeard, StepNmea, StepAir DEF IInv

-----------------------------------------------------------------------------

\* The invariant holds in every behaviour.
THEOREM Invariance == Spec => []IInv
PROOF
<1>1. Init => IInv
  BY InitIInv
<1>2. IInv /\ [Next]_vars => IInv'
  BY StepIInv
<1> QED
  BY <1>1, <1>2, PTL DEF Spec

\* After the absolute timeout was evaluated, gps_valid tells of data accepted at
\* most StaleLimit before: for every timeout, however the Kalman filter is
\* configured, until the clock wraps around (esp_remote_id.c:601-607).
THEOREM FreshnessCorrect == Spec => []FreshWhenValid
PROOF
<1>1. IInv => FreshWhenValid
  BY DEF IInv
<1> QED
  BY <1>1, Invariance, PTL

\* What a silent MAVLink link last told, a position or an identity, is off the air
\* after the timeout of its own cache and one iteration, for any timeouts, whatever
\* the Kalman filter and bcast_powerup do (mavlink_parser.c:354, 365,
\* esp_remote_id.c:457, 609).
THEOREM SilentLinkCorrect == Spec => []SilentLinkOffAir
PROOF
<1>1. IInv => SilentLinkOffAir
  BY DEF IInv, AcceptInv, HeardInv, SilentLinkOffAir
<1> QED
  BY <1>1, Invariance, PTL

\* Behind the readiness gate nothing is broadcast before an accepted identity
\* was sane, for every set of gated configurations, switched between at any
\* moment (esp_remote_id.c:301-304, 541-547).
THEOREM GateCorrect == Spec => []GateHoldsBack
PROOF
<1>1. IInv => GateHoldsBack
  BY DEF IInv, GateInv, GateHoldsBack
<1> QED
  BY <1>1, Invariance, PTL

\* The position of a MAVLink link that has fallen silent is gone after the
\* parser's timeout and the absolute one (mavlink_parser.c:354,
\* esp_remote_id.c:603).
THEOREM LinkLossCorrect == Spec => []LinkLossBound
PROOF
<1>1. ASSUME IInv PROVE LinkLossBound
  <2>1. /\ trueAge \in Int /\ linkAge \in Int
        /\ elapsed \in 0 .. MaxIter
    BY <1>1, TimesAssumption DEF IInv, TypeOK, Ages
  <2>2. ASSUME Checked, gpsValid, src = "MAVLINK", trueAge < AgeWrap, linkAge < AgeWrap
        PROVE  linkAge < MavTimeout + StaleLimit + 2 * MaxIter
    <3>1. trueAge <= StaleLimit + elapsed
      BY <1>1, <2>2 DEF IInv, FreshWhenValid
    <3>2. linkAge < MavTimeout + MaxIter + trueAge
      BY <1>1, <2>2 DEF IInv, LinkInv
    <3> QED
      BY <2>1, <3>1, <3>2, TimesAssumption
  <2> QED
    BY <2>2 DEF LinkLossBound
<1> QED
  BY <1>1, Invariance, PTL

\* Every fix with a longitude that is accepted from an NMEA receiver has its
\* height over the takeoff point, whatever was accepted before and from whom
\* (nmea_parser.c:54, esp_remote_id.c:500-512).
THEOREM NmeaHeightCorrect == Spec => []NmeaHeightDerived
PROOF
<1>1. IInv => NmeaHeightDerived
  BY DEF IInv, NmeaInv
<1> QED
  BY <1>1, Invariance, PTL

\* A fix below 2D reaches the air only from MAVLink, of an armed vehicle, under
\* FORCE_ARM_OK, whatever the flight controllers report and however detection
\* flaps (esp_remote_id.c:462-464, msp_parser.c:123, nmea_parser.c:133).
THEOREM PoorFixCorrect == Spec => []PoorFixNeedsArming
PROOF
<1>1. IInv => PoorFixNeedsArming
  BY DEF IInv, AirInv, AcceptInv, PoorFixNeedsArming
<1> QED
  BY <1>1, Invariance, PTL

\* With DONT_SAVE_BASIC_ID no UAS id reaches the air from real data, though a
\* configuration may arrive between any two steps (esp_remote_id.c:481-538).
THEOREM NoSaveCorrect == Spec => []NoSaveHidesId
PROOF
<1>1. IInv => NoSaveHidesId
  BY DEF IInv, AirInv, AcceptInv, NoSaveHidesId
<1> QED
  BY <1>1, Invariance, PTL
-----------------------------------------------------------------------------
(* What a status request may see. *)

\* Until the timeout is evaluated again, a valid position is as old as the
\* timeout and the two iterations allow.
WaitsForExpiry ==
  ~Checked /\ pc # "expire" /\ gpsValid /\ trueAge < AgeWrap
    => trueAge <= StaleLimit + MaxIter + elapsed

LEMMA StepWaits ==
  ASSUME IInv, WaitsForExpiry, [Next]_vars PROVE WaitsForExpiry'
PROOF
<1> USE DEF taskVars, parserVars, stateVars, txVars, clockVars, historyVars
<1>1. /\ trueAge \in Nat /\ elapsed \in 0 .. MaxIter /\ trueAge <= AgeWrap
      /\ AgeWrap \in Nat /\ StaleLimit \in Nat /\ MaxIter \in Nat
  BY TimesAssumption DEF IInv, TypeOK, Ages
<1>2. CASE Snapshot \/ Poll \/ Skip \/ Gate
  BY <1>2 DEF Snapshot, Poll, Skip, Gate, WaitsForExpiry, Checked
<1>3. CASE Commit \/ Demo
  BY <1>1, <1>3 DEF Commit, Demo, WaitsForExpiry
<1>4. CASE Filter \/ Expire \/ Transmit
  BY <1>4 DEF Filter, Expire, Transmit, WaitsForExpiry, Checked
<1>5. CASE Wake
  <2>1. gpsValid /\ trueAge < AgeWrap => trueAge <= StaleLimit + elapsed
    BY <1>5 DEF Wake, IInv, FreshWhenValid, Checked
  <2>2. elapsed' = 0 /\ trueAge' = trueAge /\ gpsValid' = gpsValid
    BY <1>5 DEF Wake
  <2> QED
    BY <1>1, <2>1, <2>2 DEF WaitsForExpiry
<1>6. CASE Tick
  <2>1. /\ UNCHANGED <<pc, gpsValid>> /\ elapsed' = elapsed + 1
        /\ trueAge' = IF trueAge < AgeWrap THEN trueAge + 1 ELSE AgeWrap
    BY <1>6 DEF Tick, Older
  <2> QED
    BY <1>1, <2>1 DEF WaitsForExpiry, Checked
<1>7. ASSUME NEW c \in Configs, SetConfig(c)
      PROVE  WaitsForExpiry'
  BY <1>7 DEF SetConfig, WaitsForExpiry, Checked
<1>8. CASE UNCHANGED vars
  BY <1>8 DEF vars, WaitsForExpiry, Checked
<1> QED
  BY <1>2, <1>3, <1>4, <1>5, <1>6, <1>7, <1>8 DEF Next, TaskStep

\* Between the Kalman step and the timeout gps_valid may be set for any position
\* the filter ever had; at every other moment a status request sees one accepted
\* within the timeout and two iterations of the loop, until the clock wraps around
\* (esp_remote_id.c:594-607).
StatusFresh ==
  pc # "expire" /\ gpsValid /\ trueAge < AgeWrap => trueAge <= StaleLimit + 2 * MaxIter
THEOREM StatusFreshCorrect == Spec => []StatusFresh
PROOF
<1>1. Init => WaitsForExpiry
  BY DEF Init, WaitsForExpiry
<1>2. IInv /\ WaitsForExpiry /\ [Next]_vars => WaitsForExpiry'
  BY StepWaits
<1>3. IInv /\ WaitsForExpiry => StatusFresh
  <2> SUFFICES ASSUME IInv, WaitsForExpiry PROVE StatusFresh
    OBVIOUS
  <2>1. /\ trueAge \in Nat /\ elapsed \in 0 .. MaxIter
        /\ AgeWrap \in Nat /\ StaleLimit \in Nat /\ MaxIter \in Nat
    BY TimesAssumption DEF IInv, TypeOK, Ages
  <2>2. Checked /\ gpsValid /\ trueAge < AgeWrap => trueAge <= StaleLimit + elapsed
    BY DEF IInv, FreshWhenValid
  <2> QED
    BY <2>1, <2>2 DEF WaitsForExpiry, StatusFresh
<1> QED
  BY <1>1, <1>2, <1>3, Invariance, PTL DEF Spec
=============================================================================
