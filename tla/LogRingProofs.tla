---------------------------- MODULE LogRingProofs ----------------------------
(***************************************************************************)
(* The log ring implements the queue of the last RingSize lines, for every *)
(* number of slots, writers and lines, and for every size of the answer.   *)
(***************************************************************************)
EXTENDS LogRing, SequenceTheorems, TLAPS

\* Whoever is inside the ring holds the lock.
LockInv ==
  /\ \A t \in Tasks : pc[t] \in {"slot", "index", "copy"} => lock = t
  /\ pc[Web] \notin {"slot", "index"}
  /\ \A w \in Writers : pc[w] # "copy"

\* The copy is a run of the ring from its oldest entry.
CopyInv ==
  /\ i = 0 => off = 0
  /\ pc[Web] = "copy" =>
       /\ n = count /\ start = head /\ i <= n /\ Len(buf) = i
       /\ \A k \in 1 .. i : buf[k] = ring[(head + k - 1) % RingSize]

IInv == TypeOK /\ HeadMovesWhenFull /\ LockInv /\ CopyInv

\* An index less than two rounds from slot 0 is taken modulo the ring's size by
\* at most one subtraction.
LEMMA ModCases ==
  ASSUME NEW N \in Nat \ {0}, NEW x \in 0 .. 2 * N - 1
  PROVE  /\ x % N = IF x < N THEN x ELSE x - N
         /\ x % N \in 0 .. N - 1
PROOF
<1>1. CASE x < N
  BY <1>1, SMTT(30)
<1>2. CASE x >= N
  BY <1>2, SMTT(30)
<1> QED
  BY <1>1, <1>2

-----------------------------------------------------------------------------

\* The invariant holds initially.
LEMMA InitIInv ==
  ASSUME Init PROVE IInv
PROOF
<1>1. TypeOK
  BY RingAssumption DEF Init, TypeOK, Tasks
<1>2. HeadMovesWhenFull /\ LockInv /\ CopyInv
  BY RingAssumption DEF Init, HeadMovesWhenFull, LockInv, CopyInv, Tasks
<1> QED
  BY <1>1, <1>2 DEF IInv

\* Every step keeps every variable in its type.
LEMMA StepType ==
  ASSUME IInv, [Next]_vars PROVE TypeOK'
PROOF
<1> USE RingAssumption DEF ringVars, webVars, Tasks, IInv
<1>1. ASSUME NEW t \in Tasks, Take(t)
      PROVE  TypeOK'
  <2>1. pc' \in [Tasks -> {"idle", "wait", "slot", "index", "copy"}]
    <3>1. First(t) \in {"slot", "copy"}
      BY DEF First
    <3> QED
      BY <1>1, <3>1 DEF Take, Goto, TypeOK
  <2>2. /\ n' \in 0 .. RingSize /\ start' \in 0 .. RingSize - 1
        /\ i' \in 0 .. RingSize /\ off' \in Nat
    <3>1. Start \in 0 .. RingSize - 1
      BY DEF Start, TypeOK
    <3> QED
      BY <1>1, <3>1 DEF Take, TypeOK
  <2>3. buf' \in Seq(Msgs)
    <3>1. buf' = <<>> \/ buf' = buf
      BY <1>1 DEF Take
    <3>2. <<>> \in Seq(Msgs)
      OBVIOUS
    <3>3. buf \in Seq(Msgs)
      BY DEF TypeOK
    <3> QED
      BY <3>1, <3>2, <3>3
  <2> QED
    BY <1>1, <2>1, <2>2, <2>3 DEF Take, TypeOK
<1>2. ASSUME NEW t \in Tasks, GiveUp(t)
      PROVE  TypeOK'
  BY <1>2 DEF GiveUp, Goto, TypeOK
<1>3. ASSUME NEW w \in Writers, NEW m \in Msgs, Log(w, m)
      PROVE  TypeOK'
  BY <1>3 DEF Log, Goto, TypeOK
<1>4. ASSUME NEW w \in Writers, WriteSlot(w)
      PROVE  TypeOK'
  BY <1>4 DEF WriteSlot, Goto, TypeOK
<1>5. ASSUME NEW w \in Writers, MoveIndex(w)
      PROVE  TypeOK'
  <2>1. head' \in 0 .. RingSize - 1 /\ count' \in 0 .. RingSize
    <3>1. head + 1 \in 0 .. 2 * RingSize - 1
      BY DEF TypeOK
    <3>2. (head + 1) % RingSize \in 0 .. RingSize - 1
      BY <3>1, ModCases
    <3> QED
      BY <1>5, <3>2 DEF MoveIndex, Advance, TypeOK
  <2> QED
    BY <1>5, <2>1 DEF MoveIndex, GiveLock, Goto, TypeOK
<1>6. CASE Request
  BY <1>6 DEF Request, Goto, TypeOK
<1>7. CASE CopyEntry
  <2> DEFINE e == ring[(start + i) % RingSize]
  <2>1. start + i \in 0 .. 2 * RingSize - 1 /\ i + 1 \in 0 .. RingSize
    BY <1>7 DEF CopyEntry, TypeOK
  <2>2. e \in Msgs
    BY <2>1, ModCases DEF TypeOK
  <2>3. buf' = Append(buf, e) /\ off' = off + Size[e]
    BY <1>7 DEF CopyEntry
  <2>4. buf' \in Seq(Msgs) /\ off' \in Nat
    <3> HIDE DEF e
    <3> QED BY <2>2, <2>3 DEF TypeOK
  <2> QED
    BY <1>7, <2>1, <2>4 DEF CopyEntry, TypeOK
<1>8. CASE Respond
  <2>1. SubSeq(buf, 1, Len(buf) - 1) \in Seq(Msgs)
    BY DEF TypeOK
  <2> QED
    BY <1>8, <2>1 DEF Respond, GiveLock, Goto, TypeOK
<1>9. CASE UNCHANGED vars
  BY <1>9 DEF vars, TypeOK
<1> QED
  BY <1>1, <1>2, <1>3, <1>4, <1>5, <1>6, <1>7, <1>8, <1>9 DEF Next, Step, WebStep

\* The head stays at slot 0 until the ring is full.
LEMMA StepHead ==
  ASSUME IInv, [Next]_vars PROVE HeadMovesWhenFull'
PROOF
<1> USE RingAssumption DEF ringVars, webVars, Tasks, IInv, HeadMovesWhenFull
<1>1. ASSUME NEW t \in Tasks, Take(t)
      PROVE  HeadMovesWhenFull'
  BY <1>1 DEF Take
<1>2. ASSUME NEW t \in Tasks, GiveUp(t)
      PROVE  HeadMovesWhenFull'
  BY <1>2 DEF GiveUp
<1>3. ASSUME NEW w \in Writers, NEW m \in Msgs, Log(w, m)
      PROVE  HeadMovesWhenFull'
  BY <1>3 DEF Log
<1>4. ASSUME NEW w \in Writers, WriteSlot(w)
      PROVE  HeadMovesWhenFull'
  BY <1>4 DEF WriteSlot
<1>5. ASSUME NEW w \in Writers, MoveIndex(w)
      PROVE  HeadMovesWhenFull'
  BY <1>5 DEF MoveIndex, Advance, TypeOK
<1>6. CASE Request
  BY <1>6 DEF Request
<1>7. CASE CopyEntry
  BY <1>7 DEF CopyEntry
<1>8. CASE Respond
  BY <1>8 DEF Respond
<1>9. CASE UNCHANGED vars
  BY <1>9 DEF vars
<1> QED
  BY <1>1, <1>2, <1>3, <1>4, <1>5, <1>6, <1>7, <1>8, <1>9 DEF Next, Step, WebStep

\* The lock is taken before the ring is entered and given back on leaving it.
LEMMA StepLock ==
  ASSUME IInv, [Next]_vars PROVE LockInv'
PROOF
<1> USE RingAssumption DEF ringVars, webVars, Tasks, IInv, LockInv
<1>1. ASSUME NEW t \in Tasks, Take(t)
      PROVE  LockInv'
  BY <1>1 DEF Take, Goto, First, Obtains, TypeOK
<1>2. ASSUME NEW t \in Tasks, GiveUp(t)
      PROVE  LockInv'
  BY <1>2 DEF GiveUp, Goto, TypeOK
<1>3. ASSUME NEW w \in Writers, NEW m \in Msgs, Log(w, m)
      PROVE  LockInv'
  BY <1>3 DEF Log, Goto, TypeOK
<1>4. ASSUME NEW w \in Writers, WriteSlot(w)
      PROVE  LockInv'
  BY <1>4 DEF WriteSlot, Goto, TypeOK
<1>5. ASSUME NEW w \in Writers, MoveIndex(w)
      PROVE  LockInv'
  BY <1>5 DEF MoveIndex, GiveLock, Goto, TypeOK
<1>6. CASE Request
  BY <1>6 DEF Request, Goto, TypeOK
<1>7. CASE CopyEntry
  BY <1>7 DEF CopyEntry
<1>8. CASE Respond
  BY <1>8 DEF Respond, GiveLock, Goto, TypeOK
<1>9. CASE UNCHANGED vars
  BY <1>9 DEF vars
<1> QED
  BY <1>1, <1>2, <1>3, <1>4, <1>5, <1>6, <1>7, <1>8, <1>9 DEF Next, Step, WebStep

\* While the server copies, the ring does not change under it.
LEMMA StepCopy ==
  ASSUME IInv, TypeOK', [Next]_vars PROVE CopyInv'
PROOF
<1> USE RingAssumption DEF ringVars, webVars, Tasks
<1>1. ASSUME NEW t \in Tasks, Take(t)
      PROVE  CopyInv'
  <2>1. CASE t = Web
    <3>1. n' = count /\ start' = Start /\ i' = 0 /\ off' = 0 /\ buf' = <<>>
      BY <1>1, <2>1 DEF Take
    <3>2. Start = head
      BY DEF Start, IInv, HeadMovesWhenFull
    <3> QED
      BY <1>1, <3>1, <3>2 DEF Take, CopyInv, IInv, TypeOK
  <2>2. CASE t # Web
    BY <1>1, <2>2 DEF Take, Goto, CopyInv, IInv, TypeOK
  <2> QED
    BY <2>1, <2>2
<1>2. ASSUME NEW t \in Tasks, GiveUp(t)
      PROVE  CopyInv'
  BY <1>2 DEF GiveUp, Goto, CopyInv, IInv, TypeOK
<1>3. ASSUME NEW w \in Writers, NEW m \in Msgs, Log(w, m)
      PROVE  CopyInv'
  BY <1>3 DEF Log, Goto, CopyInv, IInv, TypeOK
<1>4. ASSUME NEW w \in Writers, WriteSlot(w) \/ MoveIndex(w)
      PROVE  CopyInv'
  <2>1. lock = w /\ pc[Web] # "copy"
    BY <1>4 DEF WriteSlot, MoveIndex, IInv, LockInv
  <2>2. pc'[Web] = pc[Web] /\ UNCHANGED <<i, off>>
    BY <1>4 DEF WriteSlot, MoveIndex, Goto, IInv, TypeOK
  <2> QED
    BY <2>1, <2>2 DEF CopyInv, IInv
<1>5. CASE Request
  BY <1>5 DEF Request, Goto, CopyInv, IInv, TypeOK
<1>6. CASE CopyEntry
  <2> DEFINE e == ring[(start + i) % RingSize]
  <2>1. /\ UNCHANGED <<ring, head, count, n, start, pc>>
        /\ pc[Web] = "copy" /\ i < n /\ i' = i + 1
        /\ buf' = Append(buf, e)
    BY <1>6 DEF CopyEntry
  <2>2. /\ n = count /\ start = head /\ Len(buf) = i /\ i \in Nat /\ n \in Nat
        /\ \A k \in 1 .. i : buf[k] = ring[(head + k - 1) % RingSize]
    <3>1. i \in Nat /\ n \in Nat
      BY DEF IInv, TypeOK
    <3> QED
      BY <2>1, <3>1 DEF CopyInv, IInv
  <2>3. buf \in Seq(Msgs) /\ head \in Nat
    BY DEF IInv, TypeOK
  <2>4. Len(buf') = i + 1
    <3> HIDE DEF e
    <3> QED BY <2>1, <2>2, <2>3
  <2>5. ASSUME NEW k \in 1 .. i + 1
        PROVE  buf'[k] = ring[(head + k - 1) % RingSize]
    <3>1. CASE k \in 1 .. i
      <4>1. buf'[k] = buf[k]
        <5> HIDE DEF e
        <5> QED BY <2>1, <2>2, <2>3, <3>1
      <4> QED
        BY <2>2, <3>1, <4>1
    <3>2. CASE k = i + 1
      <4>1. buf'[k] = e
        <5> HIDE DEF e
        <5> QED BY <2>1, <2>2, <2>3, <3>2
      <4>2. start + i = head + k - 1
        BY <2>2, <2>3, <3>2
      <4> QED
        BY <4>1, <4>2
    <3> QED
      BY <2>2, <3>1, <3>2
  <2>6. i' # 0
    BY <2>1, <2>2
  <2> QED
    BY <2>1, <2>2, <2>4, <2>5, <2>6 DEF CopyInv
<1>7. CASE Respond
  BY <1>7 DEF Respond, Goto, CopyInv, IInv, TypeOK
<1>8. CASE UNCHANGED vars
  BY <1>8 DEF vars, CopyInv, IInv
<1> QED
  BY <1>1, <1>2, <1>3, <1>4, <1>5, <1>6, <1>7, <1>8 DEF Next, Step, WebStep

\* The invariant holds in every behaviour.
THEOREM Invariance == Spec => []IInv
PROOF
<1>1. Init => IInv
  BY InitIInv
<1>2. IInv /\ [Next]_vars => IInv'
  BY StepType, StepHead, StepLock, StepCopy DEF IInv
<1> QED
  BY <1>1, <1>2, PTL DEF Spec

-----------------------------------------------------------------------------
(* How long the lock is held. *)

\* Nobody leaves the ring without giving the lock back.
NoLeak == lock # Free => pc[lock] \in {"slot", "index", "copy"}

LEMMA StepNoLeak ==
  ASSUME IInv, NoLeak, [Next]_vars PROVE NoLeak'
PROOF
<1> USE RingAssumption DEF Tasks, NoLeak
<1>1. /\ lock \in Writers \union {Web, Free}
      /\ pc \in [Tasks -> {"idle", "wait", "slot", "index", "copy"}]
  BY DEF IInv, TypeOK
<1>2. ASSUME NEW t \in Tasks, Take(t)
      PROVE  NoLeak'
  BY <1>1, <1>2 DEF Take, Goto, First
<1>3. ASSUME NEW t \in Tasks, GiveUp(t)
      PROVE  NoLeak'
  BY <1>1, <1>3 DEF GiveUp, Goto
<1>4. ASSUME NEW w \in Writers, NEW m \in Msgs, Log(w, m)
      PROVE  NoLeak'
  BY <1>1, <1>4 DEF Log, Goto
<1>5. ASSUME NEW w \in Writers, WriteSlot(w) \/ MoveIndex(w)
      PROVE  NoLeak'
  BY <1>1, <1>5 DEF WriteSlot, MoveIndex, GiveLock, Goto
<1>6. CASE Request
  BY <1>1, <1>6 DEF Request, Goto
<1>7. CASE CopyEntry \/ Respond
  BY <1>1, <1>7 DEF CopyEntry, Respond, GiveLock
<1>8. CASE UNCHANGED vars
  BY <1>8 DEF vars
<1> QED
  BY <1>2, <1>3, <1>4, <1>5, <1>6, <1>7, <1>8 DEF Next, Step, WebStep

\* The steps the holder of the lock has still to take, and those steps.
Left == IF pc[lock] = "slot" THEN 2 ELSE IF pc[lock] = "index" THEN 1 ELSE 1 + n - i
HolderSteps ==
  \/ lock \in Writers /\ (WriteSlot(lock) \/ MoveIndex(lock))
  \/ lock = Web /\ (CopyEntry \/ Respond)

LockPasses ==
  lock # Free =>
    /\ Left \in 1 .. RingSize + 1
    /\ \/ lock' = Free
       \/ lock' = lock /\ Left' < Left
       \/ lock' = lock /\ Left' = Left /\ ~HolderSteps

LEMMA OthersWait ==
  ASSUME IInv, lock # Free, NEW t \in Tasks, t # lock,
         lock' = lock, UNCHANGED <<n, i>>, NEW step, pc[t] # step, Goto(t, step)
  PROVE  Left' = Left /\ ~HolderSteps
PROOF
<1>1. /\ lock \in Tasks
      /\ pc \in [Tasks -> {"idle", "wait", "slot", "index", "copy"}]
  BY DEF IInv, TypeOK, Tasks
<1>2. pc'[lock] = pc[lock] /\ pc'[t] # pc[t]
  BY <1>1 DEF Goto
<1>3. Left' = Left
  BY <1>2 DEF Left
<1>4. ASSUME NEW h \in Tasks, h # t, NEW s, Goto(h, s) PROVE FALSE
  BY <1>1, <1>2, <1>4 DEF Goto
<1>5. ~CopyEntry
  BY <1>2 DEF CopyEntry
<1> QED
  BY <1>1, <1>3, <1>4, <1>5 DEF HolderSteps, WriteSlot, MoveIndex, Respond, Tasks

LEMMA StepPasses ==
  ASSUME IInv, NoLeak, Next PROVE LockPasses
PROOF
<1> SUFFICES ASSUME lock # Free PROVE LockPasses
  BY DEF LockPasses
<1> USE RingAssumption DEF Tasks, IInv, ringVars, webVars
<1>1. /\ lock \in Tasks /\ lock \in Writers \union {Web} /\ RingSize \in Nat \ {0}
      /\ pc \in [Tasks -> {"idle", "wait", "slot", "index", "copy"}]
      /\ n \in 0 .. RingSize /\ i \in 0 .. RingSize
  BY DEF TypeOK
<1>2. pc[Web] = "copy" => i <= n
  BY DEF CopyInv
<1>3. pc[lock] \in {"slot", "index", "copy"} /\ (pc[lock] = "copy" <=> lock = Web)
  BY <1>1 DEF NoLeak, LockInv
<1>4. Left \in 1 .. RingSize + 1
  BY <1>1, <1>2, <1>3 DEF Left
<1>5. ASSUME NEW t \in Tasks, Take(t)
      PROVE  FALSE
  BY <1>5 DEF Take, Obtains
<1>6. ASSUME NEW t \in Tasks, GiveUp(t)
      PROVE  LockPasses
  BY <1>1, <1>3, <1>4, <1>6, OthersWait DEF GiveUp, LockPasses
<1>7. ASSUME NEW w \in Writers, NEW m \in Msgs, Log(w, m)
      PROVE  LockPasses
  BY <1>1, <1>3, <1>4, <1>7, OthersWait DEF Log, LockPasses
<1>8. ASSUME NEW w \in Writers, WriteSlot(w)
      PROVE  LockPasses
  <2>1. w = lock /\ lock' = lock /\ pc[lock] = "slot" /\ pc'[lock] = "index"
    BY <1>1, <1>8 DEF WriteSlot, LockInv, Goto
  <2>2. Left = 2 /\ Left' = 1
    BY <2>1 DEF Left
  <2> QED
    BY <1>4, <2>1, <2>2 DEF LockPasses
<1>9. CASE Request
  BY <1>1, <1>3, <1>4, <1>9, OthersWait DEF Request, LockPasses
<1>10. CASE CopyEntry
  <2>1. lock = Web /\ lock' = lock /\ n' = n /\ i' = i + 1 /\ UNCHANGED pc
    BY <1>1, <1>10 DEF CopyEntry, LockInv
  <2>2. Left = 1 + n - i /\ Left' = 1 + n - (i + 1)
    BY <1>3, <2>1 DEF Left
  <2> QED
    BY <1>1, <1>4, <2>1, <2>2 DEF LockPasses
<1>11. ASSUME Respond \/ \E w \in Writers : MoveIndex(w)
       PROVE  LockPasses
  BY <1>4, <1>11 DEF Respond, MoveIndex, GiveLock, LockPasses
<1> QED
  BY <1>5, <1>6, <1>7, <1>8, <1>9, <1>10, <1>11 DEF Next, Step, WebStep

\* The lock is never passed from one task to another, lost or kept: its holder
\* is inside the ring, gives it back after a bounded number of steps of its own,
\* and nobody else's step makes them more (web_config.c:99-107, 612-637).
THEOREM LockHeldBriefly == Spec => []NoLeak /\ [][LockPasses]_vars
PROOF
<1>1. Init => NoLeak
  BY DEF Init, NoLeak
<1>2. IInv /\ NoLeak /\ [Next]_vars => NoLeak'
  BY StepNoLeak
<1>3. IInv /\ NoLeak /\ [Next]_vars => [LockPasses]_vars
  BY StepPasses
<1> QED
  BY <1>1, <1>2, <1>3, Invariance, PTL DEF Spec

-----------------------------------------------------------------------------
\* Every variable of the ring keeps its type: the indices stay in the ring.
THEOREM TypeCorrect == Spec => []TypeOK
PROOF
<1>1. IInv => TypeOK
  BY DEF IInv
<1> QED
  BY <1>1, Invariance, PTL

\* The head stays at slot 0 until the ring is full, which is why the server may
\* read from slot 0 until then (web_config.c:106, 614).
THEOREM HeadCorrect == Spec => []HeadMovesWhenFull
PROOF
<1>1. IInv => HeadMovesWhenFull
  BY DEF IInv
<1> QED
  BY <1>1, Invariance, PTL

-----------------------------------------------------------------------------

QueueTyped ==
  /\ VHead \in 0 .. RingSize - 1 /\ VCount \in 0 .. RingSize
  /\ Queue \in Seq(Msgs) /\ Len(Queue) = VCount
  /\ \A k \in 1 .. VCount : Queue[k] = ring[(VHead + k - 1) % RingSize]

\* The mapped queue is a sequence of at most RingSize lines.
LEMMA QueueType == IInv => QueueTyped
PROOF
<1> USE RingAssumption
<1> HAVE IInv
<1>1. VHead \in 0 .. RingSize - 1
  <2>1. head \in 0 .. RingSize - 1 /\ head + 1 \in 0 .. 2 * RingSize - 1
    BY DEF IInv, TypeOK
  <2>2. (head + 1) % RingSize \in 0 .. RingSize - 1
    BY <2>1, ModCases
  <2> QED
    BY <2>1, <2>2 DEF VHead
<1>2. VCount \in 0 .. RingSize
  BY DEF VCount, IInv, TypeOK
<1>3. ASSUME NEW k \in 1 .. VCount
      PROVE  ring[(VHead + k - 1) % RingSize] \in Msgs
  <2>1. VHead + k - 1 \in 0 .. 2 * RingSize - 1
    BY <1>1, <1>2
  <2>2. (VHead + k - 1) % RingSize \in 0 .. RingSize - 1
    BY <2>1, ModCases
  <2> QED
    BY <2>2 DEF IInv, TypeOK
<1>4. Queue \in [1 .. VCount -> Msgs]
  BY <1>3 DEF Queue
<1>5. Queue \in Seq(Msgs) /\ Len(Queue) = VCount
  BY <1>2, <1>4
<1>6. \A k \in 1 .. VCount : Queue[k] = ring[(VHead + k - 1) % RingSize]
  BY DEF Queue
<1> QED
  BY <1>1, <1>2, <1>5, <1>6 DEF QueueTyped

\* Writing its slot is what appends a line to the queue.
LEMMA WriteSlotPushes ==
  ASSUME IInv, IInv', NEW w \in Writers, WriteSlot(w)
  PROVE  Q!Push(line[w])
PROOF
<1> USE RingAssumption
<1> DEFINE at == (head + count) % RingSize
<1>1. /\ pc[w] = "slot" /\ pc' = [pc EXCEPT ![w] = "index"]
      /\ ring' = [ring EXCEPT ![at] = line[w]]
      /\ UNCHANGED <<head, count, reply>>
  BY DEF WriteSlot, Goto
<1>2. ~MidPush /\ MidPush'
  BY <1>1 DEF MidPush, IInv, LockInv, TypeOK, Tasks
<1>3. /\ head \in 0 .. RingSize - 1 /\ count \in 0 .. RingSize
      /\ count < RingSize => head = 0
      /\ line[w] \in Msgs /\ ring \in [0 .. RingSize - 1 -> Msgs]
  BY DEF IInv, TypeOK, HeadMovesWhenFull
<1>4. VHead = head /\ VCount = count
  BY <1>2 DEF VHead, VCount
<1>5. /\ Queue \in Seq(Msgs) /\ Len(Queue) = count
      /\ \A k \in 1 .. count : Queue[k] = ring[(head + k - 1) % RingSize]
  BY <1>4, QueueType DEF QueueTyped
<1>6. /\ Queue' \in Seq(Msgs) /\ Len(Queue') = VCount'
      /\ \A k \in 1 .. VCount' : Queue'[k] = ring'[(VHead' + k - 1) % RingSize]
  <2>1. IInv' => QueueTyped'
    BY QueueType, PTL
  <2> QED
    BY <2>1 DEF QueueTyped
<1>7. CASE count < RingSize
  <2>1. VHead' = 0 /\ VCount' = count + 1 /\ at = count
    <3>1. VHead' = 0 /\ VCount' = count + 1
      BY <1>1, <1>2, <1>3, <1>7 DEF VHead, VCount
    <3>2. head + count = count /\ count \in 0 .. 2 * RingSize - 1
      BY <1>3, <1>7
    <3> QED
      BY <1>7, <3>1, <3>2, ModCases
  <2>2. Append(Queue, line[w]) \in Seq(Msgs) /\ Len(Append(Queue, line[w])) = count + 1
    BY <1>3, <1>5
  <2>3. ASSUME NEW k \in 1 .. count + 1
        PROVE  Queue'[k] = Append(Queue, line[w])[k]
    <3>1. (k - 1) % RingSize = k - 1
      <4>1. k - 1 \in 0 .. 2 * RingSize - 1 /\ k - 1 < RingSize
        BY <1>3, <1>7
      <4> QED
        BY <4>1, ModCases
    <3>2. Queue'[k] = ring'[k - 1]
      BY <1>6, <2>1, <3>1
    <3>3. CASE k = count + 1
      BY <1>1, <1>3, <1>5, <1>7, <2>1, <3>2, <3>3
    <3>4. CASE k # count + 1
      <4>1. k \in 1 .. count /\ head + k - 1 = k - 1
        BY <1>3, <1>7, <3>4
      <4>2. Append(Queue, line[w])[k] = Queue[k]
        BY <1>3, <1>5, <4>1
      <4>3. ring'[k - 1] = ring[k - 1]
        BY <1>1, <1>3, <2>1, <4>1
      <4> QED
        BY <1>5, <3>1, <3>2, <4>1, <4>2, <4>3
    <3> QED
      BY <3>3, <3>4
  <2>4. Queue' = Append(Queue, line[w])
    BY <1>6, <2>1, <2>2, <2>3, SeqEqual
  <2> QED
    BY <1>1, <1>5, <1>7, <2>4 DEF Q!Push
<1>8. CASE count = RingSize
  <2>1. at = head
    <3>1. PICK x \in 0 .. 2 * RingSize - 1 : x = head + count
      BY <1>3, <1>8
    <3>2. x % RingSize = IF x < RingSize THEN x ELSE x - RingSize
      BY ModCases
    <3> QED
      BY <1>3, <1>8, <3>1, <3>2
  <2>2. VHead' = (head + 1) % RingSize /\ VCount' = RingSize
    BY <1>1, <1>2, <1>8 DEF VHead, VCount
  <2>3. VHead' = IF head + 1 < RingSize THEN head + 1 ELSE 0
    <3>1. PICK x \in 0 .. 2 * RingSize - 1 : x = head + 1
      BY <1>3
    <3>2. x % RingSize = IF x < RingSize THEN x ELSE x - RingSize
      BY ModCases
    <3> QED
      BY <1>3, <2>2, <3>1, <3>2
  <2>4. Queue # <<>> /\ Tail(Queue) \in Seq(Msgs) /\ Len(Tail(Queue)) = RingSize - 1
        /\ \A k \in 1 .. RingSize - 1 : Tail(Queue)[k] = Queue[k + 1]
    BY <1>3, <1>5, <1>8
  <2> DEFINE next == Append(Tail(Queue), line[w])
  <2>5. /\ next \in Seq(Msgs) /\ Len(next) = RingSize
        /\ next[RingSize] = line[w]
        /\ \A k \in 1 .. RingSize - 1 : next[k] = Queue[k + 1]
    BY <1>3, <2>4
  <2>6. ASSUME NEW k \in 1 .. RingSize
        PROVE  Queue'[k] = next[k]
    <3> DEFINE s == IF head + k < RingSize THEN head + k ELSE head + k - RingSize
    <3>1. (VHead' + k - 1) % RingSize = s
      <4>1. PICK x \in 0 .. 2 * RingSize - 1 : x = VHead' + k - 1
        BY <1>3, <2>3
      <4>2. x % RingSize = IF x < RingSize THEN x ELSE x - RingSize
        BY ModCases
      <4> QED
        BY <1>3, <2>3, <4>1, <4>2
    <3>2. Queue'[k] = ring'[s]
      BY <1>6, <2>2, <3>1
    <3>3. CASE k = RingSize
      <4>1. s = at
        BY <1>3, <2>1, <3>3
      <4> HIDE DEF s
      <4> QED
        BY <1>1, <1>3, <2>1, <2>5, <3>2, <3>3, <4>1
    <3>4. CASE k # RingSize
      <4>1. s # at /\ s \in 0 .. RingSize - 1
        BY <1>3, <2>1, <3>4
      <4>2. Queue[k + 1] = ring[(head + k) % RingSize]
        BY <1>3, <1>5, <1>8, <3>4
      <4>3. (head + k) % RingSize = s
        <5>1. PICK x \in 0 .. 2 * RingSize - 1 : x = head + k
          BY <1>3
        <5>2. x % RingSize = IF x < RingSize THEN x ELSE x - RingSize
          BY ModCases
        <5> QED
          BY <1>3, <5>1, <5>2
      <4>4. ring'[s] = ring[s]
        <5> HIDE DEF s
        <5> QED BY <1>1, <1>3, <4>1
      <4> QED
        BY <2>5, <3>2, <3>4, <4>2, <4>3, <4>4
    <3> QED
      BY <3>3, <3>4
  <2>7. Queue' = next
    BY <1>6, <2>2, <2>5, <2>6, SeqEqual
  <2> QED
    BY <1>1, <1>5, <1>8, <2>7 DEF Q!Push
<1> QED
  BY <1>3, <1>7, <1>8

\* No other step of a writer changes the queue: the indices catch up with it.
LEMMA MoveIndexStutters ==
  ASSUME IInv, IInv', NEW w \in Writers, MoveIndex(w)
  PROVE  UNCHANGED <<Queue, reply>>
PROOF
<1>1. /\ pc[w] = "index" /\ pc' = [pc EXCEPT ![w] = "idle"]
      /\ UNCHANGED <<ring, reply>> /\ Advance
  BY DEF MoveIndex, Goto
<1>2. MidPush /\ ~MidPush'
  BY <1>1 DEF MidPush, IInv, LockInv, TypeOK, Tasks
<1>3. CASE count < RingSize
  <2>1. head' = head /\ count' = count + 1
    BY <1>1, <1>3 DEF Advance
  <2>2. VHead = head /\ VCount = count + 1 /\ VHead' = head' /\ VCount' = count'
    BY <1>2, <1>3 DEF VHead, VCount, IInv, TypeOK
  <2> QED
    BY <1>1, <2>1, <2>2 DEF Queue
<1>4. CASE count = RingSize
  <2>1. head' = (head + 1) % RingSize /\ count' = count
    BY <1>1, <1>4 DEF Advance, IInv, TypeOK
  <2>2. VHead = (head + 1) % RingSize /\ VCount = count /\ VHead' = head' /\ VCount' = count'
    BY <1>2, <1>4 DEF VHead, VCount, IInv, TypeOK
  <2> QED
    BY <1>1, <2>1, <2>2 DEF Queue
<1> QED
  BY <1>3, <1>4, RingAssumption DEF IInv, TypeOK

\* The answer is a run of the queue from its oldest line.
LEMMA RespondServes ==
  ASSUME IInv, Respond
  PROVE  Q!Serve
PROOF
<1>1. /\ pc[Web] = "copy" /\ pc' = [pc EXCEPT ![Web] = "idle"]
      /\ UNCHANGED <<ring, head, count>>
  BY DEF Respond, Goto, ringVars
<1>2. lock = Web
  BY <1>1 DEF IInv, LockInv, Tasks
<1>3. ~MidPush /\ ~MidPush'
  BY <1>1, <1>2, RingAssumption DEF MidPush, IInv, LockInv, TypeOK, Tasks
<1>4. VHead = head /\ VCount = count /\ UNCHANGED Queue
  BY <1>1, <1>3 DEF VHead, VCount, Queue
<1>5. /\ Queue \in Seq(Msgs) /\ Len(Queue) = count
      /\ \A k \in 1 .. count : Queue[k] = ring[(head + k - 1) % RingSize]
  BY <1>4, QueueType DEF QueueTyped
<1>6. /\ i \in 0 .. count /\ count \in Nat /\ buf \in Seq(Msgs) /\ Len(buf) = i
      /\ \A k \in 1 .. i : buf[k] = ring[(head + k - 1) % RingSize]
      /\ i = 0 => off = 0
  <2>1. i \in Nat /\ count \in Nat /\ buf \in Seq(Msgs)
    BY DEF IInv, TypeOK
  <2> QED
    BY <1>1, <2>1 DEF IInv, CopyInv
<1>7. ASSUME NEW m \in 0 .. i
      PROVE  SubSeq(buf, 1, m) = SubSeq(Queue, 1, m)
  <2>1. ASSUME NEW k \in 1 .. m
        PROVE  buf[k] \in Msgs /\ Queue[k] \in Msgs /\ buf[k] = Queue[k]
    <3>1. k \in 1 .. Len(buf) /\ k \in 1 .. Len(Queue)
      BY <1>5, <1>6
    <3>2. buf[k] \in Msgs /\ Queue[k] \in Msgs
      BY <1>5, <1>6, <3>1, ElementOfSeq
    <3> QED
      BY <1>5, <1>6, <3>1, <3>2
  <2>2. /\ SubSeq(buf, 1, m) \in Seq(Msgs) /\ Len(SubSeq(buf, 1, m)) = m
        /\ \A k \in 1 .. m : SubSeq(buf, 1, m)[k] = buf[k]
    BY <1>5, <1>6, <2>1
  <2>3. /\ SubSeq(Queue, 1, m) \in Seq(Msgs) /\ Len(SubSeq(Queue, 1, m)) = m
        /\ \A k \in 1 .. m : SubSeq(Queue, 1, m)[k] = Queue[k]
    BY <1>5, <1>6, <2>1
  <2> QED
    BY <2>1, <2>2, <2>3, SeqEqual
<1>8. CASE off > Room
  <2>1. i - 1 \in 0 .. i /\ i - 1 \in 0 .. Len(Queue)
    BY <1>5, <1>6, <1>8, RingAssumption
  <2>2. reply' = [entries |-> SubSeq(buf, 1, i - 1), cut |-> TRUE]
    BY <1>6, <1>8 DEF Respond
  <2>3. SubSeq(buf, 1, i - 1) = SubSeq(Queue, 1, i - 1)
    BY <1>7, <2>1
  <2> QED
    BY <1>4, <2>1, <2>2, <2>3 DEF Q!Serve
<1>9. CASE ~(off > Room)
  <2>1. reply' = [entries |-> buf, cut |-> FALSE]
    BY <1>9 DEF Respond
  <2>2. buf = SubSeq(buf, 1, i)
    BY <1>6, SubSeqFull
  <2>3. i \in 0 .. Len(Queue) /\ i \in 0 .. i
    BY <1>5, <1>6
  <2>4. SubSeq(buf, 1, i) = SubSeq(Queue, 1, i)
    BY <1>7, <2>3
  <2> QED
    BY <1>4, <2>1, <2>2, <2>3, <2>4 DEF Q!Serve
<1> QED
  BY <1>8, <1>9

\* A step that neither touches the ring nor enters or leaves a push leaves the
\* queue as it is.
LEMMA QueueUnchanged ==
  ASSUME UNCHANGED ringVars, MidPush' = MidPush
  PROVE  UNCHANGED Queue
PROOF
  BY DEF ringVars, Queue, VHead, VCount

\* Every step is a step of the queue or leaves it unchanged.
LEMMA StepImplements ==
  ASSUME IInv, IInv', [Next]_vars
  PROVE  [Q!Next]_<<Queue, reply>>
PROOF
<1> USE RingAssumption
<1>1. ASSUME NEW t \in Tasks, Take(t)
      PROVE  [Q!Next]_<<Queue, reply>>
  <2>1. MidPush' = MidPush
    BY <1>1 DEF Take, Goto, First, MidPush, IInv, TypeOK, Tasks
  <2> QED
    BY <1>1, <2>1, QueueUnchanged DEF Take
<1>2. ASSUME NEW t \in Tasks, GiveUp(t)
      PROVE  [Q!Next]_<<Queue, reply>>
  <2>1. MidPush' = MidPush
    BY <1>2 DEF GiveUp, Goto, MidPush, IInv, TypeOK, Tasks
  <2>2. UNCHANGED Queue
    BY <1>2, <2>1, QueueUnchanged DEF GiveUp
  <2>3. CASE t = Web
    <3>1. reply' = [entries |-> <<>>, cut |-> FALSE]
      BY <1>2, <2>3 DEF GiveUp
    <3>2. SubSeq(Queue, 1, 0) = <<>>
      BY SubSeqEmpty
    <3>3. 0 \in 0 .. Len(Queue)
      BY QueueType DEF QueueTyped
    <3> QED
      BY <2>2, <3>1, <3>2, <3>3 DEF Q!Next, Q!Serve
  <2>4. CASE t # Web
    BY <1>2, <2>2, <2>4 DEF GiveUp
  <2> QED
    BY <2>3, <2>4
<1>3. ASSUME NEW w \in Writers, NEW m \in Msgs, Log(w, m)
      PROVE  [Q!Next]_<<Queue, reply>>
  <2>1. MidPush' = MidPush
    BY <1>3 DEF Log, Goto, MidPush, IInv, TypeOK, Tasks
  <2> QED
    BY <1>3, <2>1, QueueUnchanged DEF Log
<1>4. ASSUME NEW w \in Writers, WriteSlot(w)
      PROVE  [Q!Next]_<<Queue, reply>>
  <2>1. Q!Push(line[w])
    BY <1>4, WriteSlotPushes
  <2>2. line[w] \in Msgs
    BY DEF IInv, TypeOK
  <2> QED
    BY <2>1, <2>2 DEF Q!Next
<1>5. ASSUME NEW w \in Writers, MoveIndex(w)
      PROVE  [Q!Next]_<<Queue, reply>>
  BY <1>5, MoveIndexStutters
<1>6. CASE Request
  <2>1. MidPush' = MidPush
    BY <1>6 DEF Request, Goto, MidPush, IInv, TypeOK, Tasks
  <2> QED
    BY <1>6, <2>1, QueueUnchanged DEF Request
<1>7. CASE CopyEntry
  BY <1>7, QueueUnchanged DEF CopyEntry, MidPush
<1>8. CASE Respond
  BY <1>8, RespondServes DEF Q!Next
<1>9. CASE UNCHANGED vars
  BY <1>9, QueueUnchanged DEF vars, MidPush
<1> QED
  BY <1>1, <1>2, <1>3, <1>4, <1>5, <1>6, <1>7, <1>8, <1>9 DEF Next, Step, WebStep, Tasks

\* The ring and its lock implement the queue of the last RingSize lines
\* (web_config.c:96-109, 606-644).
THEOREM RingImplementsQueue == Spec => ImplementsQueue
PROOF
<1>1. Init => Q!Init
  <2> HAVE Init
  <2>1. ~MidPush
    BY DEF Init, MidPush, Tasks
  <2>2. VCount = 0 /\ reply = Q!Empty
    BY <2>1 DEF Init, VCount, Q!Empty
  <2>3. Queue = <<>>
    BY <2>2 DEF Queue
  <2> QED
    BY <2>2, <2>3 DEF Q!Init
<1>2. IInv /\ IInv' /\ [Next]_vars => [Q!Next]_<<Queue, reply>>
  BY StepImplements
<1> QED
  BY <1>1, <1>2, Invariance, PTL DEF Spec, ImplementsQueue, Q!Spec
=============================================================================
