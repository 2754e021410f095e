------------------------------- MODULE MCRadioTx -------------------------------
(* The pack has its true size; signatures that fit it, that fit it only beside *)
(* few other messages, and that never do.  The counter wraps in the middle of  *)
(* the rotation.  The position may be refused.                                 *)
EXTENDS RadioTx
MCPackMax == 9
MCCounterMod == 11
MCSigPages == {3, 4, 16}
MCFailing == {Message("location")}
===============================================================================
