------------------------------- MODULE LogRing -------------------------------
(***************************************************************************)
(* The log ring of web_config.c: every task that logs pushes its line in   *)
(* log_push(), and the web server copies the ring in handle_get_logs().    *)
(* Both hold s_log_lock while they touch the ring, and both give up when   *)
(* they do not get it in time.  One step is one access to the ring.        *)
(***************************************************************************)
EXTENDS Integers, Sequences

CONSTANTS
  RingSize, \* LOG_RING_MAX
  Msgs,     \* log lines
  Size,     \* the bytes of a line in the JSON answer
  Room,     \* 4096 - 128: the bytes of the answer filled before the loop stops
  Writers,  \* the tasks that log
  Web,      \* the web server's task
  Free      \* the lock has no holder

ASSUME RingAssumption ==
  /\ RingSize \in Nat \ {0}
  /\ Size \in [Msgs -> Nat \ {0}]
  /\ Room \in Nat \ {0}
  /\ Web \notin Writers /\ Free \notin Writers \union {Web}

VARIABLES
  ring,   \* s_log_ring
  head,   \* s_log_head
  count,  \* s_log_count
  lock,   \* who holds s_log_lock
  pc,     \* the step each task is at
  line,   \* the line each writer is pushing
  n,      \* the web server's n, start, i, off and buf
  start,
  i,
  off,
  buf,
  reply   \* what the last request was answered

ringVars == <<ring, head, count>>
webVars == <<n, start, i, off, buf>>
vars == <<ringVars, webVars, lock, pc, line, reply>>

Tasks == Writers \union {Web}

TypeOK ==
  /\ ring \in [0 .. RingSize - 1 -> Msgs]
  /\ head \in 0 .. RingSize - 1 /\ count \in 0 .. RingSize
  /\ lock \in Tasks \union {Free}
  /\ pc \in [Tasks -> {"idle", "wait", "slot", "index", "copy"}]
  /\ line \in [Writers -> Msgs]
  /\ n \in 0 .. RingSize /\ start \in 0 .. RingSize - 1 /\ i \in 0 .. RingSize /\ off \in Nat
  /\ buf \in Seq(Msgs)
  /\ reply \in [entries : Seq(Msgs), cut : BOOLEAN]

\* The slots hold zeroes before they are pushed to: any line stands for them.
Init ==
  /\ \E m \in Msgs : ring = [s \in 0 .. RingSize - 1 |-> m] /\ line = [w \in Writers |-> m]
  /\ head = 0 /\ count = 0
  /\ lock = Free
  /\ pc = [t \in Tasks |-> "idle"]
  /\ n = 0 /\ start = 0 /\ i = 0 /\ off = 0 /\ buf = <<>>
  /\ reply = [entries |-> <<>>, cut |-> FALSE]

Goto(t, step) == pc' = [pc EXCEPT ![t] = step]

-----------------------------------------------------------------------------
(* The lock, taken with a timeout (10 ms by log_push, 50 ms by the server). *)

\* Mutant: the ring is entered although the lock was not obtained.
Anyhow(t) == TRUE
Obtains(t) == lock = Free

First(t) == IF t = Web THEN "copy" ELSE "slot"

\* The number of entries and the first of them, read when the lock is held.
Start == IF count < RingSize THEN 0 ELSE head
Take(t) ==
  /\ pc[t] = "wait" /\ Obtains(t)
  /\ lock' = t
  /\ Goto(t, First(t))
  /\ IF t = Web
     THEN n' = count /\ start' = Start /\ i' = 0 /\ off' = 0 /\ buf' = <<>>
     ELSE UNCHANGED webVars
  /\ UNCHANGED <<ringVars, line, reply>>

\* A timeout: the line is dropped, or the answer is an empty array.
GiveUp(t) ==
  /\ pc[t] = "wait" /\ lock # Free
  /\ Goto(t, "idle")
  /\ reply' = IF t = Web THEN [entries |-> <<>>, cut |-> FALSE] ELSE reply
  /\ UNCHANGED <<ringVars, webVars, lock, line>>

-----------------------------------------------------------------------------
(* log_push *)

Log(w, m) ==
  /\ pc[w] = "idle"
  /\ Goto(w, "wait")
  /\ line' = [line EXCEPT ![w] = m]
  /\ UNCHANGED <<ringVars, webVars, lock, reply>>

WriteSlot(w) ==
  /\ pc[w] = "slot"
  /\ Goto(w, "index")
  /\ ring' = [ring EXCEPT ![(head + count) % RingSize] = line[w]]
  /\ UNCHANGED <<head, count, webVars, lock, line, reply>>

\* Mutant: the count is not limited.
AdvancePastEnd == count' = count + 1 /\ UNCHANGED head

Advance ==
  IF count < RingSize THEN count' = count + 1 /\ UNCHANGED head
                 ELSE head' = (head + 1) % RingSize /\ UNCHANGED count

\* Mutant: the lock is not given back.
KeepLock == UNCHANGED lock
GiveLock == lock' = Free

MoveIndex(w) ==
  /\ pc[w] = "index"
  /\ Goto(w, "idle")
  /\ Advance
  /\ GiveLock
  /\ UNCHANGED <<ring, webVars, line, reply>>

-----------------------------------------------------------------------------
(* handle_get_logs *)

Request ==
  /\ pc[Web] = "idle"
  /\ Goto(Web, "wait")
  /\ UNCHANGED <<ringVars, webVars, lock, line, reply>>

CopyEntry ==
  /\ pc[Web] = "copy" /\ i < n /\ off < Room
  /\ LET e == ring[(start + i) % RingSize]
     IN buf' = Append(buf, e) /\ off' = off + Size[e]
  /\ i' = i + 1
  /\ UNCHANGED <<ringVars, n, start, lock, pc, line, reply>>

\* An answer past its room is cut off there, in the middle of the last entry.
Respond ==
  /\ pc[Web] = "copy" /\ (i = n \/ off >= Room)
  /\ Goto(Web, "idle")
  /\ GiveLock
  /\ reply' = IF off > Room THEN [entries |-> SubSeq(buf, 1, Len(buf) - 1), cut |-> TRUE]
                            ELSE [entries |-> buf, cut |-> FALSE]
  /\ UNCHANGED <<ringVars, webVars, line>>

-----------------------------------------------------------------------------

Step(w) == Take(w) \/ GiveUp(w) \/ WriteSlot(w) \/ MoveIndex(w)
WebStep == Take(Web) \/ GiveUp(Web) \/ CopyEntry \/ Respond

Next ==
  \/ \E w \in Writers : Step(w) \/ \E m \in Msgs : Log(w, m)
  \/ WebStep \/ Request

Spec == Init /\ [][Next]_vars
\* The scheduler runs every task, and the waits for the lock time out.
FairSpec == Spec /\ WF_vars(WebStep) /\ \A w \in Writers : WF_vars(Step(w))

-----------------------------------------------------------------------------
(* The queue the ring implements.  A push takes effect when its slot is     *)
(* written: from then on the ring is read as if the indices had moved.      *)

MidPush == \E w \in Writers : pc[w] = "index"
VHead == IF MidPush /\ count = RingSize THEN (head + 1) % RingSize ELSE head
VCount == IF MidPush /\ count < RingSize THEN count + 1 ELSE count
Queue == [k \in 1 .. VCount |-> ring[(VHead + k - 1) % RingSize]]

Q == INSTANCE LogQueue WITH Depth <- RingSize, log <- Queue

\* The ring keeps the last LOG_RING_MAX lines in order, and every answer is a
\* run of them as they are at that moment, whichever tasks log meanwhile
\* (web_config.c:99-108, 612-638).
ImplementsQueue == Q!Spec

\* The server reads from slot 0 while the ring is not full: the head must not
\* have moved by then (web_config.c:106, 614).
HeadMovesWhenFull == count < RingSize => head = 0

\* The lock is always given back (web_config.c:107, 637).
LockGivenBack == lock # Free ~> lock = Free
=============================================================================
