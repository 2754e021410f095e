------------------------------ MODULE MCWebAccess ------------------------------
(* A table of three failures: it fills, and compaction keeps any number  *)
(* of its entries.  The window is two ticks; the clock wraps after five, so   *)
(* that entries outlive the window and the period.                            *)
EXTENDS WebAccess
MCMax == 3
MCWindow == 2
MCPeriod == 5
===============================================================================
