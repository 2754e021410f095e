----------------------------- MODULE MCRidTask -----------------------------
(* Small instances of RidTask: one time unit stands for about three seconds. *)
EXTENDS RidTask

\* The interval of the Wi-Fi beacon may differ from the others'.
CfgEach(p, o, i, t, w) ==
  [proto |-> p, opts |-> o, id |-> i, tx |-> [r \in Radios |-> IF r = "wifi" THEN w ELSE t]]
Cfg(p, o, i, t) == CfgEach(p, o, i, t, t)
Rep(t, y, x) == [type |-> t, lat |-> y, lon |-> x]

NoArm == {}
Armed == {"armed"}
NoIds == {}

\* A MAVLink unit behind the readiness gate, unprovisioned or provisioned, the
\* latter with the Kalman filter and bcast_powerup on; its position may be real or
\* without a latitude, which is not accepted but kept fresh by later messages.
MavlinkConfigs == {Cfg("MAVLINK", {"gate"}, "default", 1),
                   Cfg("MAVLINK", {"gate", "kalman", "powerup"}, "mine", 1)}
MavlinkReports == {Rep(3, TRUE, TRUE), Rep(1, FALSE, TRUE)}
MavlinkIds == {{"uas"}, {"op"}}

\* An NMEA unit, with the filter, the demo patrol and the
\* gate switched on and off at run time and two broadcast intervals for two radios.
SerialConfigs == {CfgEach("NMEA", {"kalman"}, "mine", 1, 2),
                  Cfg("NMEA", {"demo", "gate"}, "mine", 2)}
SerialReports == {Rep(2, TRUE, TRUE), Rep(2, TRUE, FALSE), Rep(1, TRUE, TRUE),
                  Rep(0, TRUE, TRUE), Rep(0, FALSE, TRUE)}

\* Automatic detection that may flap between the three parsers, and a protocol
\* set by hand without the options, switched between at run time.
AutoConfigs == {Cfg("AUTO", {"nosave", "force"}, "mine", 1), Cfg("MAVLINK", {}, "mine", 1)}
AutoReports == {Rep(2, TRUE, TRUE), Rep(1, TRUE, TRUE)}
=============================================================================
