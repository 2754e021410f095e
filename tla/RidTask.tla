------------------------------ MODULE RidTask ------------------------------
(***************************************************************************)
(* The main loop of the firmware, rid_task() of esp_remote_id.c, with the  *)
(* flight-controller parsers it polls, the Kalman filter it drives and the *)
(* console or web thread that replaces the configuration under its feet.   *)
(*                                                                         *)
(* Every section rid_task executes under g_lock is one action, because all *)
(* other users of the data it touches take g_lock too.  What rid_task does *)
(* without the lock are actions of their own: a status reader sees         *)
(* gpsValid, ident and ready between them, and SetConfig may come between  *)
(* them.  Time is a set of ages, all advanced by Tick, which may come      *)
(* between any two steps of an iteration, at most MaxIter times in one.    *)
(***************************************************************************)
EXTENDS Integers

CONSTANTS
  Configs,        \* the values of g_config that init and the users may install
  Radios,         \* the broadcast radios (WiFi beacon, WiFi NAN, BLE 4, BLE 5)
  FixReports,     \* what a flight controller may report about its fix
  ArmReports,     \* the arm states it may report
  MavIds,         \* parts of an identity a MAVLink batch may carry
  MavTimeout,     \* 5 s: age at which mavlink_parser_get drops its cached fix
  IdentTimeout,   \* 10 s: age at which the cached MAVLink identity is dropped
  KalmanTimeout,  \* 3 s: RID_KALMAN_TIMEOUT_US
  StaleLimit,     \* 10 s: absolute GPS timeout
  AgeWrap,        \* 2^32 ms: the modulus of the millisecond clock
  MaxInterval,    \* bound on the broadcast intervals
  MaxIter         \* bound on the duration of one iteration (task watchdog)

Options == {"force", "nosave", "demo", "gate", "kalman", "powerup"}
Parsers == {"MAVLINK", "MSP", "NMEA"}
Protocols == Parsers \union {"UNKNOWN", "NONE"}
Ids == {"blank", "default", "mine", "mavpart", "mavfull"}
Ages == 0 .. AgeWrap
Config == [proto : Parsers \union {"AUTO", "NONE"}, opts : SUBSET Options,
           id : {"blank", "default", "mine"}, tx : [Radios -> 0 .. MaxInterval]]
\* Of a latitude and a longitude only whether they are nonzero matters here.
Fix == [type : 0 .. 3, lat : BOOLEAN, lon : BOOLEAN, armed : BOOLEAN]
NoFix == [type |-> 0, lat |-> FALSE, lon |-> FALSE, armed |-> FALSE]
Report == [type : 0 .. 3, lat : BOOLEAN, lon : BOOLEAN]
Silent == [type |-> -1, lat |-> FALSE, lon |-> FALSE]

ASSUME ConfigsAssumption ==
  /\ Configs \subseteq Config
  /\ FixReports \subseteq Report
  /\ ArmReports \subseteq {"armed", "disarmed"}
  /\ MavIds \subseteq SUBSET {"uas", "op"}

\* The timeouts lie below the wrap-around of the clock, with room for the
\* iteration that detects an expiry and for the one before it.
ASSUME TimesAssumption ==
  /\ MavTimeout \in Nat \ {0}
  /\ IdentTimeout \in Nat \ {0}
  /\ KalmanTimeout \in Nat \ {0}
  /\ StaleLimit \in Nat \ {0}
  /\ MaxIter \in Nat \ {0}
  /\ AgeWrap \in Nat
  /\ MaxInterval \in Nat
  /\ StaleLimit + MavTimeout + 3 * MaxIter < AgeWrap

VARIABLES
  pc,       \* the step of its loop rid_task is at
  cfg,      \* g_config
  snap,     \* cfg_proto and cfg_opts, copied at the top of the iteration
  proto,    \* proto of this iteration
  active,   \* g_state.active_protocol
  data,     \* gps_data of this iteration
  hadGps,   \* had_gps
  cache,    \* g_last_gps of each parser
  mavAge,   \* now - g_last_update of the MAVLink parser, in uint32_t; AgeWrap if never set
  mavId,    \* which parts of g_last_identity were received
  idAge,    \* now - g_last_identity_update, in uint32_t
  gpsValid, \* g_state.gps_valid
  age,      \* now_ms - g_state.last_update_ms, computed in uint32_t
  ident,    \* g_state.identity
  ready,    \* g_state.identity_ready
  takeoff,  \* g_state.takeoff_captured
  height,   \* g_state.gps.altitude_relative was derived in this iteration
  kal,      \* g_kalman
  since,    \* age of last_tx_* of each radio
  aired,    \* the radios that transmitted in this iteration
  elapsed,  \* how long this iteration has lasted
  \* History: not in the program, read by properties only.
  trueAge,  \* how long ago rid_task last accepted data; AgeWrap = that or more
  linkAge,  \* how long ago g_last_update was last set; AgeWrap = that or more
  src,      \* where the last accepted data came from
  ungated,  \* some configuration lacked the gate, or had demo mode
  sane      \* some accepted identity passed identity_is_sane

taskVars == <<pc, snap, proto, active, data, hadGps>>
parserVars == <<cache, mavAge, mavId, idAge>>
stateVars == <<gpsValid, ident, ready, takeoff, height, kal>>
txVars == <<since, aired>>
clockVars == <<age, elapsed, trueAge, linkAge>>
historyVars == <<src, ungated, sane>>
vars == <<taskVars, cfg, parserVars, stateVars, txVars, clockVars, historyVars>>

PCs == {"snapshot", "poll", "branch", "gate", "filter", "expire", "tx", "sleep"}

TypeOK ==
  /\ pc \in PCs
  /\ cfg \in Configs
  /\ snap \in [proto : Parsers \union {"AUTO", "NONE"}, opts : SUBSET Options]
  /\ proto \in Protocols /\ active \in Protocols
  /\ data \in Fix /\ hadGps \in BOOLEAN
  /\ cache \in [Parsers -> Fix]
  /\ mavAge \in Ages /\ mavId \in SUBSET {"uas", "op"} /\ idAge \in 0 .. AgeWrap - 1
  /\ gpsValid \in BOOLEAN /\ ready \in BOOLEAN
  /\ takeoff \in BOOLEAN /\ height \in BOOLEAN
  /\ ident \in Ids
  /\ kal \in [valid : BOOLEAN, age : 0 .. KalmanTimeout + 1]
  /\ since \in [Radios -> 0 .. MaxInterval] /\ aired \in SUBSET Radios
  /\ elapsed \in 0 .. MaxIter
  /\ age \in 0 .. AgeWrap - 1
  /\ trueAge \in Ages /\ linkAge \in Ages
  /\ src \in Protocols \union {"demo", "none"}
  /\ ungated \in BOOLEAN /\ sane \in BOOLEAN

Ungated(c) == "gate" \notin c.opts \/ "demo" \in c.opts

Init ==
  /\ pc = "snapshot"
  /\ cfg \in Configs
  /\ snap = [proto |-> "NONE", opts |-> {}]
  /\ proto = "UNKNOWN" /\ active = "UNKNOWN"
  /\ data = NoFix /\ hadGps = FALSE
  /\ cache = [p \in Parsers |-> NoFix]
  /\ mavAge = AgeWrap /\ mavId = {} /\ idAge = 0
  /\ gpsValid = FALSE /\ ident = "blank" /\ ready = FALSE
  /\ takeoff = FALSE /\ height = FALSE
  /\ kal = [valid |-> FALSE, age |-> 0]
  /\ since \in [Radios -> 0 .. MaxInterval] /\ aired = {}
  /\ elapsed = 0 /\ age = 0 /\ trueAge = AgeWrap /\ linkAge = AgeWrap
  /\ src = "none" /\ ungated = Ungated(cfg) /\ sane = FALSE

-----------------------------------------------------------------------------
(* Reading the flight controller. *)

\* The copy of the options and the protocol, taken under the lock.
Snapshot ==
  /\ pc = "snapshot"
  /\ pc' = "poll"
  /\ snap' = [proto |-> cfg.proto, opts |-> cfg.opts]
  /\ data' = NoFix
  /\ UNCHANGED <<cfg, proto, active, hadGps, parserVars, stateVars, txVars,
                 clockVars, historyVars>>

\* Mutant: the quality of a GGA sentence is taken for a fix type.
ReadFixRaw(p, old, r) == [old EXCEPT !.type = r.type, !.lat = r.lat, !.lon = r.lon]
\* Mutant: the fix enumeration of another protocol, one higher.
ReadFixShifted(p, old, r) ==
  [old EXCEPT !.type = r.type + 1, !.lat = r.lat, !.lon = r.lon]

\* The fix type p makes of a report.  A quality of 2 or more counts as a 3D fix;
\* for NMEA, type 0 is an RMC sentence, which has none, as a GGA sentence of
\* quality 0 is ignored.
ReadType(p, old, r) ==
  IF p # "NMEA" THEN r.type
  ELSE CASE r.type = 0 -> old.type [] r.type = 1 -> 1 [] r.type >= 2 -> 3

\* What the parser of p makes of a fix report.
ReadFix(p, old, r) ==
  [old EXCEPT !.type = ReadType(p, old, r), !.lat = r.lat, !.lon = r.lon]

\* The bytes p finds in its UART: perhaps a fix report r, perhaps the arm
\* status a, perhaps identity parts m, in this order.  Any MAVLink message at all
\* refreshes g_last_update while latitude or longitude of the cached fix is nonzero.
Receive(p, r, a, m) ==
  LET fix0 == IF r = Silent THEN cache[p] ELSE ReadFix(p, cache[p], r)
      fix == IF a = "none" \/ p = "NMEA" THEN fix0 ELSE [fix0 EXCEPT !.armed = (a = "armed")]
      any == ~(r = Silent /\ a = "none" /\ m = {})
  IN /\ cache' = [cache EXCEPT ![p] = fix]
     /\ IF p = "MAVLINK" /\ any /\ (fix.lat \/ fix.lon)
        THEN mavAge' = 0 /\ linkAge' = 0
        ELSE UNCHANGED <<mavAge, linkAge>>
     /\ IF p = "MAVLINK" /\ m # {}
        THEN mavId' = mavId \union m /\ idAge' = 0
        ELSE UNCHANGED <<mavId, idAge>>

\* Mutant: the MAVLink cache does not expire either.
HaveDataForever(p, fix, mAge) ==
  IF p = "MAVLINK" THEN fix.lat ELSE fix.type >= 2 /\ fix.lat
\* Mutant: the serial parsers leave the fix gate to rid_task.
HaveDataAnyFix(p, fix, mAge) ==
  IF p = "MAVLINK" THEN mAge < MavTimeout ELSE fix.lat

\* Whether the parser's get returns its cached fix.
HaveData(p, fix, mAge) ==
  IF p = "MAVLINK" THEN mAge < MavTimeout ELSE fix.type >= 2 /\ fix.lat

Poll ==
  /\ pc = "poll"
  /\ pc' = "branch"
  /\ \E p \in IF snap.proto = "AUTO" THEN Parsers \union {"UNKNOWN"} ELSE {snap.proto} :
       /\ proto' = p /\ active' = p
       /\ \/ /\ p \notin Parsers
             /\ UNCHANGED <<data, parserVars, linkAge>>
          \/ /\ p \in Parsers
             /\ \E r \in FixReports \union {Silent}, a \in ArmReports \union {"none"},
                   m \in MavIds \union {{}} : Receive(p, r, a, m)
             /\ data' = IF HaveData(p, cache'[p], mavAge') THEN cache'[p] ELSE NoFix
  /\ hadGps' = FALSE
  /\ UNCHANGED <<snap, cfg, stateVars, txVars, age, elapsed, trueAge, historyVars>>

-----------------------------------------------------------------------------
(* Accepting it. *)

Accepts ==
  data.lat /\ (("force" \in snap.opts /\ data.armed) \/ data.type >= 2)

\* The identity assembled for broadcast: MAVLink's while fresh and non-empty,
\* else the configured one.
Assembled ==
  IF proto = "MAVLINK" /\ idAge < IdentTimeout /\ "uas" \in mavId
  THEN IF "op" \in mavId THEN "mavfull" ELSE "mavpart"
  ELSE cfg.id

\* The section under the lock that publishes an accepted fix.  The takeoff point
\* needs a longitude, acceptance does not; heights are counted from it.
Commit ==
  /\ pc = "branch" /\ Accepts
  /\ pc' = "gate"
  /\ hadGps' = TRUE
  /\ gpsValid' = TRUE /\ age' = 0 /\ trueAge' = 0
  /\ src' = proto
  /\ ident' = Assembled
  /\ takeoff' = (takeoff \/ (data.type >= 3 /\ data.lat /\ data.lon))
  /\ height' = (proto \in {"MSP", "NMEA"} /\ takeoff')
  /\ UNCHANGED <<cfg, snap, proto, active, data, parserVars, ready, kal, txVars,
                 elapsed, linkAge, ungated, sane>>

SaneId(id) == id \in {"mine", "mavfull"}

\* Mutant: DONT_SAVE_BASIC_ID forgotten.
PublishedAsIs(id) == id

Published(id) == IF "nosave" \in snap.opts THEN "blank" ELSE id

\* After the unlock: DONT_SAVE_BASIC_ID blanks the identity, and the readiness
\* gate is raised.  It is never lowered again.
Gate ==
  /\ pc = "gate"
  /\ pc' = "filter"
  /\ ident' = Published(ident)
  /\ ready' = (ready \/ "gate" \notin snap.opts \/ SaneId(ident'))
  /\ sane' = (sane \/ SaneId(ident'))
  /\ UNCHANGED <<cfg, snap, proto, active, data, hadGps, parserVars, gpsValid, takeoff,
                 height, kal, txVars, clockVars, src, ungated>>

\* No latitude, demo mode: the synthetic patrol.
Demo ==
  /\ pc = "branch" /\ ~data.lat /\ "demo" \in snap.opts
  /\ pc' = "filter"
  /\ hadGps' = TRUE
  /\ gpsValid' = TRUE /\ age' = 0 /\ trueAge' = 0
  /\ src' = "demo"
  /\ active' = "NONE"
  /\ ident' = cfg.id
  /\ ready' = TRUE
  /\ height' = FALSE
  /\ UNCHANGED <<cfg, snap, proto, data, parserVars, takeoff, kal, txVars,
                 elapsed, linkAge, ungated, sane>>

\* A fix too poor to accept, or no latitude and no demo mode.
Skip ==
  /\ pc = "branch" /\ ~Accepts
  /\ data.lat \/ "demo" \notin snap.opts
  /\ pc' = "filter"
  /\ UNCHANGED <<cfg, snap, proto, active, data, hadGps, parserVars, stateVars,
                 txVars, clockVars, historyVars>>

-----------------------------------------------------------------------------
(* The Kalman filter, the absolute timeout and the broadcast. *)

KalmanUpdate(k) == [valid |-> TRUE, age |-> 0]
KalmanPredict(k) == IF k.valid THEN [k EXCEPT !.age = 0] ELSE k
KalmanValidAge(k) == k.valid /\ k.age <= KalmanTimeout
KalmanEnabled == "kalman" \in snap.opts /\ "demo" \notin snap.opts

\* update, predict, and valid_age, in the order of the code.
Filter ==
  /\ pc = "filter"
  /\ pc' = "expire"
  /\ IF KalmanEnabled
     THEN /\ kal' = KalmanPredict(IF hadGps /\ data.lat /\ data.type >= 2
                                  THEN KalmanUpdate(kal) ELSE kal)
          /\ gpsValid' = (KalmanValidAge(kal') \/ (hadGps /\ gpsValid))
     ELSE UNCHANGED <<kal, gpsValid>>
  /\ UNCHANGED <<cfg, snap, proto, active, data, hadGps, parserVars, ident, ready,
                 takeoff, height, txVars, clockVars, historyVars>>

\* Mutant: predictions keep the position valid.
FreshOrPredicted == age <= StaleLimit \/ kal.valid

Fresh == age <= StaleLimit

\* The absolute GPS timeout.
Expire ==
  /\ pc = "expire"
  /\ pc' = "tx"
  /\ gpsValid' = (gpsValid /\ Fresh)
  /\ UNCHANGED <<cfg, snap, proto, active, data, hadGps, parserVars, ident, ready,
                 takeoff, height, kal, txVars, clockVars, historyVars>>

\* Mutant: the readiness gate is not looked at.
TxGatesUngated ==
  /\ gpsValid \/ "powerup" \in cfg.opts
  /\ active # "UNKNOWN"

\* The gates of update_transmissions, on the configuration as it is now.
TxGates ==
  /\ gpsValid \/ "powerup" \in cfg.opts
  /\ active # "UNKNOWN"
  /\ "gate" \in cfg.opts => ready

RateAllowed(r) == cfg.tx[r] > 0 /\ since[r] >= cfg.tx[r]

\* Mutant: broadcasting whatever is valid, in every iteration.
MayAirAlways == TxGates
MayAir == hadGps /\ TxGates

\* Mutant: rate_allowed restarts the interval when it refuses, too.
RateStampAlways == [r \in Radios |-> IF MayAir THEN 0 ELSE since[r]]
RateStamp == [r \in Radios |-> IF r \in aired' THEN 0 ELSE since[r]]

Transmit ==
  /\ pc = "tx"
  /\ pc' = "sleep"
  /\ aired' = IF MayAir THEN {r \in Radios : RateAllowed(r)} ELSE {}
  /\ since' = RateStamp
  /\ UNCHANGED <<cfg, snap, proto, active, data, hadGps, parserVars, stateVars,
                 clockVars, historyVars>>

\* The end of vTaskDelay(100 ms).
Wake ==
  /\ pc = "sleep" /\ elapsed > 0
  /\ pc' = "snapshot"
  /\ elapsed' = 0
  /\ aired' = {}
  /\ UNCHANGED <<cfg, snap, proto, active, data, hadGps, parserVars, stateVars,
                 since, age, trueAge, linkAge, historyVars>>

-----------------------------------------------------------------------------
(* The other actors: time, and whoever calls esp_rid_set_config. *)

\* An age is counted up to the value from which on it makes no difference.
Older(t, cap) == IF t < cap THEN t + 1 ELSE cap

\* A difference of two uint32_t times wraps around.
Wrapped(t) == IF t + 1 = AgeWrap THEN 0 ELSE t + 1

Tick ==
  /\ elapsed < MaxIter
  /\ elapsed' = elapsed + 1
  /\ age' = Wrapped(age)
  /\ mavAge' = IF mavAge = AgeWrap THEN AgeWrap ELSE Wrapped(mavAge)
  /\ idAge' = IF mavId = {} THEN 0 ELSE Wrapped(idAge)
  /\ trueAge' = Older(trueAge, AgeWrap) /\ linkAge' = Older(linkAge, AgeWrap)
  /\ kal' = IF kal.valid THEN [kal EXCEPT !.age = Older(@, KalmanTimeout + 1)] ELSE kal
  /\ since' = [r \in Radios |-> Older(since[r], MaxInterval)]
  /\ UNCHANGED <<taskVars, cfg, cache, mavId, gpsValid, ident, ready, takeoff,
                 height, aired, historyVars>>

SetConfig(c) ==
  /\ cfg' = c
  /\ ungated' = (ungated \/ Ungated(c))
  /\ UNCHANGED <<taskVars, parserVars, stateVars, txVars, clockVars, src, sane>>

TaskStep ==
  \/ Snapshot \/ Poll \/ Commit \/ Gate \/ Demo \/ Skip
  \/ Filter \/ Expire \/ Transmit \/ Wake

Next == TaskStep \/ Tick \/ \E c \in Configs : SetConfig(c)

Spec == Init /\ [][Next]_vars

\* The scheduler runs rid_task and time passes.
FairSpec == Spec /\ WF_vars(TaskStep) /\ WF_vars(Tick)
-----------------------------------------------------------------------------
(* Safety. *)

Checked == pc \in {"tx", "sleep"}

\* After the absolute timeout was evaluated, gps_valid is set only if data was
\* accepted at most StaleLimit before that evaluation, whatever the Kalman
\* filter predicts (esp_remote_id.c:601-607), until the clock wraps around.
FreshWhenValid ==
  Checked /\ gpsValid /\ trueAge < AgeWrap => trueAge <= StaleLimit + elapsed

\* What a MAVLink link that has fallen silent last told, a position or an identity,
\* is off the air once the timeout of its own cache has passed and the iteration it
\* passes in is over, though the position may stay valid as long as LinkLossBound
\* says, Kalman predictions may replace it and bcast_powerup may be on: a broadcast
\* takes an iteration that found data (mavlink_parser.c:354, 365, esp_remote_id.c:457,
\* 609).  Of the identity, until its 32-bit time wraps around.
SilentLinkOffAir ==
  pc = "sleep" /\ aired # {} =>
    /\ src = "MAVLINK" /\ linkAge < AgeWrap => linkAge < MavTimeout + elapsed
    /\ ident \in {"mavpart", "mavfull"} => idAge < IdentTimeout + elapsed

\* While every configuration in force since boot had the readiness gate and no
\* demo mode, nothing is broadcast before an accepted identity was sane
\* (esp_remote_id.c:301-304, 541-547).
GateHoldsBack ==
  pc = "sleep" /\ aired # {} /\ ~ungated => sane

\* The parser's timeout and the absolute one add up: the position of a MAVLink
\* link that has fallen silent is gone after both, and not later, until the
\* clock wraps around (mavlink_parser.c:354, esp_remote_id.c:603).
LinkLossBound ==
  Checked /\ gpsValid /\ src = "MAVLINK" /\ trueAge < AgeWrap /\ linkAge < AgeWrap
    => linkAge < MavTimeout + StaleLimit + 2 * MaxIter

\* Every fix with a longitude that is accepted from an NMEA receiver has its height
\* over the takeoff point, because parse_gga reports 3 for whatever it lets through
\* (nmea_parser.c:54, esp_remote_id.c:500-512).  One on the meridian of Greenwich, or
\* whose longitude was malformed and read as 0.0, is accepted without any if no
\* takeoff point was captured before (nmea_parser.c:25-31, esp_remote_id.c:461).
NmeaHeightDerived == pc = "gate" /\ proto = "NMEA" /\ data.lon => height

\* A fix below 2D reaches the air only from MAVLink, of an armed vehicle, under
\* FORCE_ARM_OK: the serial parsers hold theirs back
\* (esp_remote_id.c:462-464, msp_parser.c:123, nmea_parser.c:133).
PoorFixNeedsArming ==
  pc = "sleep" /\ aired # {} /\ data.lat /\ data.type < 2
    => proto = "MAVLINK" /\ data.armed /\ "force" \in snap.opts

\* With DONT_SAVE_BASIC_ID no UAS id reaches the air from real data, although
\* the status readers may see it for a while (esp_remote_id.c:481-538).  The code
\* blanks uas_id and uas_id_2 only; operator_id and self_id are broadcast.
NoSaveHidesId ==
  pc = "sleep" /\ aired # {} /\ "nosave" \in snap.opts /\ src # "demo"
    => ident = "blank"

(* Liveness. *)

\* A position that outlived the absolute timeout is invalidated or replaced.
StaleEventuallyCleared ==
  gpsValid /\ trueAge > StaleLimit ~> ~gpsValid \/ trueAge = 0

\* A radio that is enabled at the broadcast step again and again, with the
\* gates open, transmits again and again: rate_allowed starves no radio.
TxReady(r) == pc = "tx" /\ MayAir /\ cfg.tx[r] > 0
RadiosServed == \A r \in Radios : []<>TxReady(r) => []<>(r \in aired)
=============================================================================
