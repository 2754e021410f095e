----------------------------- MODULE MCMavlinkRelay -----------------------------
(* A signature of two pages and one of a single page, which overwrite each     *)
(* other's pages.  The clock wraps soon after a position     *)
(* has expired.                                                                *)
EXTENDS MavlinkRelay
MCSigs == {"long", "short"}
MCLast == [s \in MCSigs |-> IF s = "long" THEN 1 ELSE 0]
MCMaxPage == 1
MCIdTimeout == 1
MCOpTimeout == 2
MCPeriod == 4
===============================================================================
