------------------------------ MODULE LogQueue ------------------------------
(***************************************************************************)
(* What the log ring of web_config.c promises: it keeps the last Depth     *)
(* entries in the order they were pushed, and /api/logs is answered with a *)
(* run of them that starts at the oldest, possibly cut off.                *)
(***************************************************************************)
EXTENDS Integers, Sequences

CONSTANTS
  Depth,  \* LOG_RING_MAX
  Msgs    \* log lines

VARIABLES
  log,    \* the entries kept, oldest first
  reply   \* the last answer to GET /api/logs: whole entries, and whether it is cut

Empty == [entries |-> <<>>, cut |-> FALSE]

Init == log = <<>> /\ reply = Empty

Push(m) ==
  /\ log' = IF Len(log) < Depth THEN Append(log, m) ELSE Append(Tail(log), m)
  /\ UNCHANGED reply

Serve ==
  /\ \E n \in 0 .. Len(log), c \in BOOLEAN :
       reply' = [entries |-> SubSeq(log, 1, n), cut |-> c]
  /\ UNCHANGED log

Next == Serve \/ \E m \in Msgs : Push(m)

Spec == Init /\ [][Next]_<<log, reply>>
=============================================================================
