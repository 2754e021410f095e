----------------------------- MODULE MCSerialLink -----------------------------
(* Two positions.  The driver holds half a sentence and the parser reads a     *)
(* part of that at once; the parser's buffer holds a sentence and what is      *)
(* joined to it when an end of line is lost.                                   *)
EXTENDS SerialLink
MCPositions == {"here", "there"}
MCRingMax == 2
MCReadMax == 1
MCLineMax == 4
MCMaxFlaws == 2
===============================================================================
