---------------------------------- MODULE MCHub ----------------------------------
(* The history overflows, the Bluetooth handlers are registered twice, a command *)
(* overtakes two messages that are on their way to the window.                   *)
EXTENDS Hub
MCHistoryMax == 1
MCMaxFrames == 3
MCMaxStarts == 2
MCMaxFlight == 2
===============================================================================
