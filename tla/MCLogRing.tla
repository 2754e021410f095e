------------------------------ MODULE MCLogRing ------------------------------
(* Two tasks that log and a ring of three slots. *)
EXTENDS LogRing

CONSTANTS w1, w2, short, long

MCSize == [m \in {short, long} |-> IF m = short THEN 1 ELSE 2]

=============================================================================
