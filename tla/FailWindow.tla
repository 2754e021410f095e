------------------------------ MODULE FailWindow ------------------------------
(***************************************************************************)
(* What the rate limit of the web server promises (SECURITY.md:60, "10     *)
(* failed signature attempts per 60s sliding window"): within any Window   *)
(* of time at most Max requests for a new configuration or a reset have    *)
(* their signature checked and refused.  (The commands of /api/command are *)
(* checked without a limit.)                                               *)
(* The promise is kept in RAM: a restart forgets the failures.             *)
(***************************************************************************)
EXTENDS Integers

CONSTANTS
  Max,     \* SIG_RATE_MAX_FAILS
  Window   \* SIG_RATE_WINDOW_MS, in ticks

VARIABLE last   \* the age of the j-th newest failure; Window: that old or none

Ages == [1 .. Max -> 0 .. Window]
Nothing == [j \in 1 .. Max |-> Window]

Init == last = Nothing

Older(age) == IF age < Window THEN age + 1 ELSE Window
Tick == last' = [j \in 1 .. Max |-> Older(last[j])]

\* A check fails: the Max-th newest failure must have left the window.
Fail ==
  /\ last[Max] = Window
  /\ last' = [j \in 1 .. Max |-> IF j = 1 THEN 0 ELSE last[j - 1]]

Forget == last' = Nothing

Next == Tick \/ Fail \/ Forget
Spec == Init /\ [][Next]_last
===============================================================================
