---------------------------- MODULE WebAccessProofs ----------------------------
(***************************************************************************)
(* WebAccess implements FailWindow for every table size, window and clock  *)
(* period.  The induction carries what the compaction in place does half   *)
(* way: the entries of the table still to come follow, newest first, upon  *)
(* those already moved down, and the j-th of them is the j-th newest       *)
(* failure as long as that one is in the window.  Those behind it may be   *)
(* anything: the clock's wrap-around makes old entries look new.           *)
(***************************************************************************)
EXTENDS WebAccess, TLAPS

\* The table in the middle of the loop, newest entry first.
Size == valid + (count - i)
Entry(j) == IF j <= count - i THEN table[count + 1 - j]
            ELSE table[valid + 1 - (j - (count - i))]

LoopBounds == valid <= i /\ i <= count /\ (pc # "check" => i = 0 /\ valid = 0)
Room == pc = "verify" /\ req.kind \in Limited => count < Max
Sorted == \A j \in 1 .. Max : \A l \in 1 .. Max : j <= l => last[j] <= last[l]
Recorded == \A j \in 1 .. Max : last[j] < Window => j <= Size /\ Entry(j) = last[j]

IInv == TypeOK /\ LoopBounds /\ Room /\ Sorted /\ Recorded

LEMMA NoRequestTyped == NoRequest \in Requests
BY DEF NoRequest, Requests, Limited, Commands

LEMMA EmptyTyped ==
  /\ [n \in 1 .. Max |-> 0] \in [1 .. Max -> 0 .. Period - 1]
  /\ FW!Nothing \in FW!Ages
BY AccessAssumption DEF FW!Nothing, FW!Ages

LEMMA InitIInv == Init => IInv
<1> SUFFICES ASSUME Init PROVE IInv
  OBVIOUS
<1> USE AccessAssumption DEF Init, FW!Nothing
<1>1. TypeOK
  <2>1. 0 \in 0 .. Max
    OBVIOUS
  <2> HIDE DEF FW!Nothing
  <2> QED
    BY <2>1, NoRequestTyped, EmptyTyped DEF TypeOK
<1>2. LoopBounds /\ Room /\ Sorted /\ Recorded
  BY DEF LoopBounds, Room, Sorted, Recorded
<1> QED
  BY <1>1, <1>2 DEF IInv

\* What a restart leaves behind.
LEMMA LostIInv == ASSUME Lost, level' \in Levels, burned' \in BOOLEAN PROVE IInv'
<1> USE AccessAssumption DEF Lost, FW!Nothing
<1>1. TypeOK'
  <2>1. 0 \in 0 .. Max
    OBVIOUS
  <2> HIDE DEF FW!Nothing
  <2> QED
    BY <2>1, NoRequestTyped, EmptyTyped DEF TypeOK
<1>2. (LoopBounds /\ Room /\ Sorted /\ Recorded)'
  BY DEF LoopBounds, Room, Sorted, Recorded
<1> QED
  BY <1>1, <1>2 DEF IInv

\* Steps that leave the table, its count, the loop and the failures alone.
LEMMA TableKept ==
  ASSUME IInv, UNCHANGED <<tableVars, historyVars>>,
         pc' \in {"idle", "check", "verify", "apply"}, req' \in Requests,
         level' \in Levels, burned' \in BOOLEAN,
         pc' # "check" => pc # "check",
         pc' = "verify" /\ req'.kind \in Limited => count < Max
  PROVE  IInv'
<1> USE DEF IInv, tableVars, historyVars
<1>1. TypeOK'
  BY DEF TypeOK
<1>2. LoopBounds' /\ Room'
  BY DEF LoopBounds, Room
<1>3. Sorted' /\ Recorded'
  BY DEF Sorted, Recorded, Size, Entry
<1> QED
  BY <1>1, <1>2, <1>3

\* A turn of the loop: an entry in the window is moved down, onto one that has
\* been looked at; one outside is skipped, and no failure behind it is in the
\* window either.
LEMMA CompactIInv == ASSUME IInv, Compact PROVE IInv'
<1> USE AccessAssumption DEF IInv, Compact
<1>0. /\ table \in [1 .. Max -> 0 .. Period - 1] /\ count \in 0 .. Max /\ i \in 0 .. Max
      /\ valid \in 0 .. Max /\ last \in [1 .. Max -> 0 .. Window]
      /\ valid <= i /\ i + 1 <= count /\ i' = i + 1 /\ count' = count /\ last' = last
      /\ pc = "check" /\ pc' = "check"
  BY DEF TypeOK, LoopBounds, historyVars, FW!Ages
<1>1. CASE Fresh(table[i + 1])
  <2>1. valid' = valid + 1 /\ table' = [table EXCEPT ![valid + 1] = table[i + 1]]
    BY <1>1 DEF Keep
  <2>2. TypeOK'
    BY <1>0, <2>1 DEF TypeOK, lockVars, historyVars
  <2>3. LoopBounds' /\ Room' /\ Sorted'
    BY <1>0, <2>1 DEF LoopBounds, Room, Sorted
  <2>4. ASSUME NEW j \in 1 .. Max, last[j] < Window PROVE j <= Size' /\ Entry(j)' = last[j]
    <3>1. j <= Size /\ Entry(j) = last[j]
      BY <2>4 DEF Recorded
    <3>2. Size' = Size
      BY <1>0, <2>1 DEF Size
    <3>3. CASE j < count - i
      BY <1>0, <2>1, <3>1, <3>2, <3>3 DEF Entry, Size
    <3>4. CASE j = count - i
      BY <1>0, <2>1, <3>1, <3>2, <3>4 DEF Entry, Size
    <3>5. CASE j > count - i
      BY <1>0, <2>1, <3>1, <3>2, <3>5 DEF Entry, Size
    <3> QED
      BY <1>0, <3>3, <3>4, <3>5
  <2>5. Recorded'
    BY <1>0, <2>4 DEF Recorded
  <2> QED
    BY <2>2, <2>3, <2>5
<1>2. CASE ~Fresh(table[i + 1])
  <2>1. UNCHANGED <<table, valid>> /\ table[i + 1] >= Window
    BY <1>0, <1>2 DEF Fresh
  <2>2. TypeOK'
    BY <1>0, <2>1 DEF TypeOK, lockVars, historyVars
  <2>3. LoopBounds' /\ Room' /\ Sorted'
    BY <1>0, <2>1 DEF LoopBounds, Room, Sorted
  <2>4. ASSUME NEW j \in 1 .. Max, last[j] < Window PROVE j <= Size' /\ Entry(j)' = last[j]
    <3>1. j <= Size /\ Entry(j) = last[j]
      BY <2>4 DEF Recorded
    <3>2. j < count - i
      <4>1. SUFFICES ASSUME j >= count - i PROVE FALSE
        BY <1>0
      <4> DEFINE m == count - i
      <4>2. m \in 1 .. Max /\ m <= j
        BY <1>0, <4>1
      <4>3. last[m] < Window
        BY <1>0, <2>4, <4>2 DEF Sorted
      <4>4. Entry(m) = last[m]
        BY <4>2, <4>3 DEF Recorded
      <4>5. Entry(m) = table[i + 1]
        BY <1>0 DEF Entry
      <4> QED
        BY <1>0, <2>1, <4>2, <4>3, <4>4, <4>5
    <3> QED
      BY <1>0, <2>1, <3>1, <3>2 DEF Entry, Size
  <2>5. Recorded'
    BY <1>0, <2>4 DEF Recorded
  <2> QED
    BY <2>2, <2>3, <2>5
<1> QED
  BY <1>1, <1>2

\* The count is set to what was kept: the same entries in the same order.
LEMMA VerdictIInv == ASSUME IInv, Verdict PROVE IInv'
<1> USE AccessAssumption DEF IInv, Verdict, NewCount
<1>0. /\ table \in [1 .. Max -> 0 .. Period - 1] /\ count \in 0 .. Max /\ i = count
      /\ valid \in 0 .. Max /\ last \in [1 .. Max -> 0 .. Window] /\ valid <= i
      /\ count' = valid /\ i' = 0 /\ valid' = 0 /\ last' = last /\ table' = table
      /\ pc' # "check" /\ (pc' = "verify" => count' < Max)
  BY DEF TypeOK, LoopBounds, historyVars, FW!Ages
<1>1. TypeOK'
  BY <1>0 DEF TypeOK, lockVars, historyVars
<1>2. LoopBounds' /\ Room' /\ Sorted'
  BY <1>0 DEF LoopBounds, Room, Sorted
<1>3. ASSUME NEW j \in 1 .. Max, last[j] < Window PROVE j <= Size' /\ Entry(j)' = last[j]
  <2>1. j <= Size /\ Entry(j) = last[j]
    BY <1>3 DEF Recorded
  <2> QED
    BY <1>0, <2>1 DEF Size, Entry
<1>4. Recorded'
  BY <1>0, <1>3 DEF Recorded
<1> QED
  BY <1>1, <1>2, <1>4

\* A failure is recorded behind the others, as the newest.
LEMMA RefuseIInv == ASSUME IInv, Refuse PROVE IInv'
<1> USE AccessAssumption DEF IInv, Refuse
<1>1. CASE req.kind \notin Limited
  BY <1>1, TableKept DEF tableVars, historyVars, lockVars, TypeOK
<1>2. CASE req.kind \in Limited
  <2>0. /\ table \in [1 .. Max -> 0 .. Period - 1] /\ count \in 0 .. Max /\ count < Max
        /\ last \in [1 .. Max -> 0 .. Window] /\ i = 0 /\ valid = 0 /\ i' = 0 /\ valid' = 0
        /\ pc' = "idle"
    BY <1>2 DEF TypeOK, LoopBounds, Room, FW!Ages
  <2>1. /\ count' = count + 1 /\ table' = [table EXCEPT ![count + 1] = 0]
        /\ last' = [j \in 1 .. Max |-> IF j = 1 THEN 0 ELSE last[j - 1]]
    BY <1>2, <2>0 DEF RecordFail
  <2>2. TypeOK'
    <3>1. last' \in FW!Ages
      BY <2>0, <2>1 DEF FW!Ages
    <3>2. table' \in [1 .. Max -> 0 .. Period - 1] /\ count' \in 0 .. Max
      BY <2>0, <2>1
    <3> QED
      BY <2>0, <3>1, <3>2 DEF TypeOK, lockVars
  <2>3. LoopBounds' /\ Room'
    BY <2>0, <2>1 DEF LoopBounds, Room
  <2>4. Sorted'
    BY <2>0, <2>1 DEF Sorted
  <2>5. ASSUME NEW j \in 1 .. Max, last'[j] < Window PROVE j <= Size' /\ Entry(j)' = last'[j]
    <3>1. CASE j = 1
      BY <2>0, <2>1, <3>1 DEF Size, Entry
    <3>2. CASE j # 1
      <4>1. j - 1 \in 1 .. Max /\ last'[j] = last[j - 1]
        BY <2>0, <2>1, <3>2
      <4>2. j - 1 <= Size /\ Entry(j - 1) = last[j - 1]
        BY <2>5, <4>1 DEF Recorded
      <4> QED
        BY <2>0, <2>1, <4>1, <4>2 DEF Size, Entry
    <3> QED
      BY <3>1, <3>2
  <2>6. Recorded'
    BY <2>0, <2>5 DEF Recorded
  <2> QED
    BY <2>2, <2>3, <2>4, <2>6
<1> QED
  BY <1>1, <1>2

\* All grow older; an entry in the window is far from the clock's period.
LEMMA TickIInv == ASSUME IInv, Tick PROVE IInv'
<1> USE AccessAssumption DEF IInv, Tick
<1>0. /\ table \in [1 .. Max -> 0 .. Period - 1] /\ count \in 0 .. Max
      /\ last \in [1 .. Max -> 0 .. Window] /\ i = 0 /\ valid = 0
  BY DEF TypeOK, LoopBounds, FW!Ages
<1>1. /\ table' = [n \in 1 .. Max |-> Wrapped(table[n])]
      /\ last' = [j \in 1 .. Max |-> FW!Older(last[j])]
      /\ count' = count /\ i' = i /\ valid' = valid /\ pc' = pc /\ req' = req
  BY DEF FW!Tick
<1>2. TypeOK'
  <2>1. table' \in [1 .. Max -> 0 .. Period - 1]
    BY <1>0, <1>1 DEF Wrapped
  <2>2. last' \in FW!Ages
    BY <1>0, <1>1 DEF FW!Older, FW!Ages
  <2>3. outlived' \in BOOLEAN
    BY DEF TypeOK
  <2> QED
    BY <1>1, <2>1, <2>2, <2>3 DEF TypeOK, lockVars
<1>3. LoopBounds' /\ Room'
  BY <1>1 DEF LoopBounds, Room
<1>4. Sorted'
  BY <1>0, <1>1 DEF Sorted, FW!Older
<1>5. ASSUME NEW j \in 1 .. Max, last'[j] < Window PROVE j <= Size' /\ Entry(j)' = last'[j]
  <2>1. last[j] < Window /\ last'[j] = last[j] + 1
    BY <1>0, <1>1, <1>5 DEF FW!Older
  <2>2. j <= Size /\ Entry(j) = last[j]
    BY <2>1 DEF Recorded
  <2>3. Entry(j) = table[count + 1 - j] /\ count + 1 - j \in 1 .. Max /\ j <= count
    BY <1>0, <2>2 DEF Size, Entry
  <2>4. Entry(j)' = Wrapped(table[count + 1 - j])
    BY <1>0, <1>1, <2>3 DEF Entry
  <2> QED
    BY <1>0, <1>1, <1>5, <2>1, <2>2, <2>3, <2>4 DEF Size, Wrapped
<1>6. Recorded'
  BY <1>5 DEF Recorded
<1> QED
  BY <1>2, <1>3, <1>4, <1>6

LEMMA NextIInv == ASSUME IInv, [Next]_vars PROVE IInv'
<1> USE DEF IInv
<1>1. CASE UNCHANGED vars
  BY <1>1, TableKept DEF vars, lockVars, TypeOK, Room
<1>2. CASE Ask
  <2>1. pc = "idle" /\ pc' \in {"check", "verify", "apply"} /\ req' \in Requests
        /\ (pc' = "verify" => req'.kind \in Commands)
    BY <1>2 DEF Ask, Requests
  <2> QED
    BY <1>2, <2>1, TableKept DEF Ask, lockVars, TypeOK, Limited, Commands
<1>3. CASE Compact
  BY <1>3, CompactIInv
<1>4. CASE Verdict
  BY <1>4, VerdictIInv
<1>5. CASE Accept
  BY <1>5, TableKept DEF Accept, lockVars, TypeOK
<1>6. CASE Refuse
  BY <1>6, RefuseIInv
<1>7. CASE ApplyConfig
  <2>1. level' \in Levels /\ burned' \in BOOLEAN
    BY <1>7 DEF ApplyConfig, SetLevel, TypeOK, Levels
  <2> QED
    BY <1>7, <2>1, TableKept DEF ApplyConfig, TypeOK
<1>8. CASE ApplyRestart \/ ConsoleReset \/ PowerLoss
  BY <1>8, LostIInv DEF ApplyRestart, ConsoleReset, PowerLoss, TypeOK, Levels, lockVars
<1>9. CASE Tick
  BY <1>9, TickIInv
<1>10. CASE ConsoleSet
  BY <1>10, TableKept DEF ConsoleSet, TypeOK, Room
<1> QED
  BY <1>1, <1>2, <1>3, <1>4, <1>5, <1>6, <1>7, <1>8, <1>9, <1>10 DEF Next, Apply

LEMMA Invariance == Spec => []IInv
BY InitIInv, NextIInv, PTL DEF Spec

\* The variables keep their types: the loop never leaves the table, whatever
\* the number of failures.
THEOREM TypeCorrect == Spec => []TypeOK
<1>1. IInv => TypeOK
  BY DEF IInv
<1> QED
  BY <1>1, Invariance, PTL

-----------------------------------------------------------------------------
(* The refinement. *)

LEMMA NextRefines == ASSUME IInv, [Next]_vars PROVE [FW!Next]_last
<1> USE DEF FW!Next
<1>1. CASE UNCHANGED last
  BY <1>1
<1>2. CASE Tick
  BY <1>2 DEF Tick
<1>3. CASE Refuse /\ req.kind \in Limited
  <2>1. count < Max /\ i = 0 /\ valid = 0
    BY <1>3 DEF IInv, Room, LoopBounds, Refuse
  <2>2. last[Max] = Window
    <3>1. Max \in 1 .. Max /\ last[Max] \in 0 .. Window /\ ~(Max <= Size)
      BY <2>1, AccessAssumption DEF IInv, TypeOK, FW!Ages, Size
    <3> QED
      BY <3>1, AccessAssumption DEF IInv, Recorded
  <2> QED
    BY <1>3, <2>2 DEF Refuse, RecordFail, FW!Fail
<1>4. CASE ApplyRestart \/ ConsoleReset \/ PowerLoss
  BY <1>4 DEF ApplyRestart, ConsoleReset, PowerLoss, Lost, FW!Forget
<1> QED
  BY <1>1, <1>2, <1>3, <1>4 DEF Next, vars, historyVars, Ask, Compact, Verdict, Accept, Refuse,
     Apply, ApplyConfig, ConsoleSet

\* WebAccess implements FailWindow: between two restarts no window of time sees
\* more than Max failed checks of the rate limited handlers.
THEOREM RateLimited == Spec => RateLimit
<1>1. Init => FW!Init
  BY DEF Init, FW!Init
<1> QED
  BY <1>1, Invariance, NextRefines, PTL DEF Spec, RateLimit, FW!Spec

-----------------------------------------------------------------------------
(* Refusals. *)

\* Until an entry outlives the clock's period, the table is exact: what is in
\* it are the newest failures, and what has been moved down is in the window.
Capped(age) == IF age < Window THEN age ELSE Window
Exact == ~outlived => \A j \in 1 .. Size : last[j] = Capped(Entry(j))
Kept == \A n \in 1 .. valid : table[n] < Window
JInv == IInv /\ Exact /\ Kept

LEMMA InitJInv == Init => JInv
<1> SUFFICES ASSUME Init PROVE JInv
  OBVIOUS
<1>1. count = 0 /\ i = 0 /\ valid = 0
  BY DEF Init
<1> QED
  BY <1>1, InitIInv DEF JInv, Exact, Kept, Size

LEMMA CompactExact == ASSUME JInv, Compact PROVE Exact' /\ Kept'
<1> USE AccessAssumption DEF JInv, IInv, Compact
<1>0. /\ table \in [1 .. Max -> 0 .. Period - 1] /\ count \in 0 .. Max /\ i \in 0 .. Max
      /\ valid \in 0 .. Max /\ last \in [1 .. Max -> 0 .. Window]
      /\ valid <= i /\ i + 1 <= count /\ i' = i + 1 /\ count' = count /\ last' = last
      /\ outlived' = outlived
  BY DEF TypeOK, LoopBounds, historyVars, FW!Ages
<1>1. CASE Fresh(table[i + 1])
  <2>1. valid' = valid + 1 /\ table' = [table EXCEPT ![valid + 1] = table[i + 1]]
    BY <1>1 DEF Keep
  <2>2. Kept'
    BY <1>0, <1>1, <2>1 DEF Kept, Fresh
  <2>3. Size' = Size
    BY <1>0, <2>1 DEF Size
  <2>4. ASSUME NEW j \in 1 .. Size PROVE Entry(j)' = Entry(j)
    <3>1. CASE j < count - i
      BY <1>0, <2>1, <3>1 DEF Entry, Size
    <3>2. CASE j = count - i
      BY <1>0, <2>1, <3>2 DEF Entry, Size
    <3>3. CASE j > count - i
      BY <1>0, <2>1, <3>3 DEF Entry, Size
    <3> QED
      BY <1>0, <3>1, <3>2, <3>3 DEF Size
  <2>5. Exact'
    BY <1>0, <2>3, <2>4 DEF Exact, Capped
  <2> QED
    BY <2>2, <2>5
<1>2. CASE ~Fresh(table[i + 1])
  <2>1. UNCHANGED <<table, valid>> /\ table[i + 1] >= Window
    BY <1>0, <1>2 DEF Fresh
  <2>2. Kept'
    BY <2>1 DEF Kept
  <2>3. Size' = Size - 1 /\ Size \in 1 .. Max
    BY <1>0, <2>1 DEF Size
  <2>4. ASSUME ~outlived, NEW j \in 1 .. Size - 1 PROVE last[j] = Capped(Entry(j)')
    <3>1. last[j] = Capped(Entry(j)) /\ last[j + 1] = Capped(Entry(j + 1))
      BY <1>0, <2>3, <2>4 DEF Exact
    <3>2. CASE j < count - i
      BY <1>0, <2>1, <3>1, <3>2 DEF Entry
    <3>3. CASE j >= count - i
      <4> DEFINE m == count - i
      <4>1. m \in 1 .. Size /\ m <= j /\ j + 1 \in 1 .. Max /\ j \in 1 .. Max /\ m \in 1 .. Max
        BY <1>0, <2>3, <3>3 DEF Size
      <4>2. last[m] = Window
        BY <1>0, <2>1, <2>4, <4>1 DEF Exact, Capped, Entry
      <4>3. last[j] = Window /\ last[j + 1] = Window
        <5>1. last[m] <= last[j] /\ last[m] <= last[j + 1]
          BY <4>1 DEF Sorted
        <5> QED
          BY <1>0, <4>1, <4>2, <5>1
      <4>4. Entry(j)' = Entry(j + 1)
        BY <1>0, <2>1, <3>3 DEF Entry
      <4> QED
        BY <3>1, <4>3, <4>4
    <3> QED
      BY <1>0, <3>2, <3>3
  <2>5. Exact'
    BY <1>0, <2>3, <2>4 DEF Exact, Capped
  <2> QED
    BY <2>2, <2>5
<1> QED
  BY <1>1, <1>2

LEMMA VerdictExact == ASSUME JInv, Verdict PROVE Exact' /\ Kept'
<1> USE AccessAssumption DEF JInv, IInv, Verdict, NewCount
<1>0. /\ count \in 0 .. Max /\ i = count /\ valid \in 0 .. Max /\ count' = valid
      /\ i' = 0 /\ valid' = 0 /\ last' = last /\ table' = table /\ outlived' = outlived
  BY DEF TypeOK, historyVars
<1>1. Size' = Size /\ \A j \in 1 .. Size : Entry(j)' = Entry(j)
  BY <1>0 DEF Size, Entry
<1> QED
  BY <1>0, <1>1 DEF Exact, Kept, Capped

LEMMA RefuseExact == ASSUME JInv, Refuse PROVE Exact' /\ Kept'
<1> USE AccessAssumption DEF JInv, IInv, Refuse
<1>0. /\ table \in [1 .. Max -> 0 .. Period - 1] /\ count \in 0 .. Max /\ i = 0 /\ valid = 0
      /\ i' = 0 /\ valid' = 0 /\ last \in [1 .. Max -> 0 .. Window] /\ outlived' = outlived
  BY DEF TypeOK, LoopBounds, FW!Ages
<1>1. Kept'
  BY <1>0 DEF Kept
<1>2. CASE req.kind \notin Limited
  BY <1>0, <1>1, <1>2 DEF Exact, Size, Entry, Capped
<1>3. CASE req.kind \in Limited
  <2>1. /\ count < Max /\ count' = count + 1 /\ table' = [table EXCEPT ![count + 1] = 0]
        /\ last' = [j \in 1 .. Max |-> IF j = 1 THEN 0 ELSE last[j - 1]]
    BY <1>3 DEF Room, RecordFail
  <2>2. ASSUME ~outlived, NEW j \in 1 .. count + 1 PROVE last'[j] = Capped(Entry(j)')
    <3>1. CASE j = 1
      BY <1>0, <2>1, <3>1 DEF Entry, Capped
    <3>2. CASE j # 1
      <4>1. last[j - 1] = Capped(Entry(j - 1))
        BY <1>0, <2>1, <2>2, <3>2 DEF Exact, Size
      <4>2. last'[j] = last[j - 1] /\ Entry(j)' = Entry(j - 1)
        BY <1>0, <2>1, <3>2 DEF Entry
      <4> QED
        BY <4>1, <4>2
    <3> QED
      BY <3>1, <3>2
  <2>3. Size' = count + 1
    BY <1>0, <2>1 DEF Size
  <2>4. Exact'
    BY <1>0, <2>2, <2>3 DEF Exact, Capped
  <2> QED
    BY <1>1, <2>4
<1> QED
  BY <1>2, <1>3

LEMMA TickExact == ASSUME JInv, Tick PROVE Exact' /\ Kept'
<1> USE AccessAssumption DEF JInv, IInv, Tick
<1>0. /\ table \in [1 .. Max -> 0 .. Period - 1] /\ count \in 0 .. Max
      /\ last \in [1 .. Max -> 0 .. Window] /\ i = 0 /\ valid = 0
  BY DEF TypeOK, LoopBounds, FW!Ages
<1>1. /\ table' = [n \in 1 .. Max |-> Wrapped(table[n])]
      /\ last' = [j \in 1 .. Max |-> FW!Older(last[j])]
      /\ count' = count /\ i' = i /\ valid' = valid
  BY DEF FW!Tick
<1>2. Kept'
  BY <1>0, <1>1 DEF Kept
<1>3. ASSUME ~outlived', NEW j \in 1 .. count PROVE last'[j] = Capped(Entry(j)')
  <2>0. ~outlived /\ \A n \in 1 .. count : Wrapped(table[n]) # 0
    BY <1>3
  <2>1. last[j] = Capped(Entry(j))
    BY <1>0, <2>0 DEF Exact, Size
  <2>2. Entry(j) = table[count + 1 - j] /\ Entry(j)' = Wrapped(table[count + 1 - j])
        /\ count + 1 - j \in 1 .. count
    BY <1>0, <1>1 DEF Entry
  <2>3. Wrapped(table[count + 1 - j]) # 0
    BY <2>0, <2>2
  <2>4. Wrapped(table[count + 1 - j]) = table[count + 1 - j] + 1
    BY <1>0, <2>2, <2>3 DEF Wrapped
  <2> QED
    BY <1>0, <1>1, <2>1, <2>2, <2>4 DEF Capped, FW!Older
<1>4. Size' = count
  BY <1>0, <1>1 DEF Size
<1>5. Exact'
  BY <1>3, <1>4 DEF Exact, Capped
<1> QED
  BY <1>2, <1>5

LEMMA NextJInv == ASSUME JInv, [Next]_vars PROVE JInv'
<1>1. IInv'
  BY NextIInv DEF JInv
<1>2. Exact' /\ Kept'
  <2>1. CASE UNCHANGED <<tableVars, historyVars>>
    BY <2>1 DEF JInv, tableVars, historyVars, Exact, Kept, Size, Entry, Capped
  <2>2. CASE Compact \/ Verdict \/ Refuse \/ Tick
    BY <2>2, CompactExact, VerdictExact, RefuseExact, TickExact
  <2>3. CASE Lost
    BY <2>3 DEF Lost, Exact, Kept, Size
  <2> QED
    BY <2>1, <2>2, <2>3 DEF Next, vars, Ask, Accept, Apply, ApplyConfig, ApplyRestart,
       ConsoleSet, ConsoleReset, PowerLoss
<1> QED
  BY <1>1, <1>2 DEF JInv

\* A request is refused for the rate only when Max checks failed within the
\* window, unless an entry outlived the clock's period.
THEOREM RefusalsJustified == Spec => []RefusalJustified
<1>1. JInv => RefusalJustified
  <2> SUFFICES ASSUME JInv, i = count, valid = Max, ~outlived PROVE last[Max] < Window
    BY DEF RefusalJustified
  <2>1. count = Max /\ Max \in 1 .. Size /\ Entry(Max) = table[1] /\ 1 \in 1 .. valid
    BY AccessAssumption DEF JInv, IInv, TypeOK, LoopBounds, Size, Entry
  <2> QED
    BY <2>1, AccessAssumption DEF JInv, Exact, Kept, Capped
<1> QED
  BY <1>1, InitJInv, NextJInv, PTL DEF Spec

-----------------------------------------------------------------------------
(* The fuse. *)

\* Once the fuse is burned every request that takes effect was signed, whatever
\* the level in the configuration.
THEOREM FuseHolds == Spec => []BurnedNeedsSignature
<1>1. Init => BurnedNeedsSignature
  BY DEF Init, BurnedNeedsSignature
<1>2. ASSUME BurnedNeedsSignature, [Next]_vars PROVE BurnedNeedsSignature'
  <2> USE DEF BurnedNeedsSignature
  <2>1. CASE UNCHANGED vars \/ Compact \/ ConsoleSet \/ Tick
    BY <1>2, <2>1 DEF vars, lockVars, Compact, ConsoleSet, Tick
  <2>2. CASE Ask
    <3>1. burned' = burned /\ (burned => pc' # "apply")
      BY <2>2 DEF Ask, LevelsRead, Limited, Commands, Requests, lockVars
    <3> QED
      BY <3>1
  <2>3. CASE Verdict \/ Accept \/ Refuse
    BY <2>3 DEF Verdict, Accept, Refuse
  <2>4. CASE ApplyConfig \/ ApplyRestart \/ ConsoleReset \/ PowerLoss
    BY <2>4 DEF ApplyConfig, ApplyRestart, ConsoleReset, PowerLoss, Lost
  <2> QED
    BY <1>2, <2>1, <2>2, <2>3, <2>4 DEF Next, Apply
<1> QED
  BY <1>1, <1>2, PTL DEF Spec
-----------------------------------------------------------------------------
(* Why a lockout ends. *)

\* The rest of the loop finds no failure that looks new, and has found none.
NoneNew == pc = "check" /\ valid = 0 /\ \A n \in i + 1 .. count : table[n] >= Window
PassesClear ==
  /\ AskInClear /\ pc' = "check" => NoneNew'
  /\ NoneNew => \/ NoneNew' /\ i' = i /\ ~Serve
                \/ NoneNew' /\ i' = i + 1 /\ i' <= count
                \/ pc' = "verify"
                \/ Restarts

LEMMA StepPassesClear == ASSUME IInv, Next PROVE PassesClear
<1>1. ASSUME AskInClear, pc' = "check" PROVE NoneNew'
  <2>1. i = 0 /\ valid = 0 /\ count \in 0 .. Max
    BY <1>1 DEF AskInClear, Ask, IInv, LoopBounds, TypeOK
  <2>2. UNCHANGED <<table, count, i, valid>> /\ \A n \in 1 .. count : table[n] >= Window
    BY <1>1 DEF AskInClear, Ask, tableVars
  <2>3. \A n \in i + 1 .. count : n \in 1 .. count
    BY <2>1
  <2> QED
    BY <1>1, <2>1, <2>2, <2>3 DEF NoneNew
<1>2. ASSUME NoneNew
      PROVE  \/ NoneNew' /\ i' = i /\ ~Serve
             \/ NoneNew' /\ i' = i + 1 /\ i' <= count
             \/ pc' = "verify"
             \/ Restarts
  <2>1. /\ i \in Nat /\ count \in Nat /\ Max \in Nat \ {0} /\ Window \in Nat
        /\ \A n \in 1 .. Max : table[n] \in Nat /\ count <= Max
    BY AccessAssumption DEF IInv, TypeOK
  <2>2. CASE Compact
    <3>1. i < count /\ i' = i + 1 /\ count' = count /\ pc' = pc
      BY <2>2 DEF Compact
    <3>2. i + 1 \in i + 1 .. count /\ i + 1 \in 1 .. Max
      BY <2>1, <3>1
    <3>3. ~Fresh(table[i + 1])
      BY <1>2, <2>1, <3>2 DEF NoneNew, Fresh
    <3>4. UNCHANGED <<table, valid>>
      BY <2>2, <3>3 DEF Compact
    <3>5. \A n \in i + 2 .. count : n \in i + 1 .. count
      BY <2>1
    <3>6. NoneNew'
      BY <1>2, <2>1, <3>1, <3>4, <3>5 DEF NoneNew
    <3> QED
      BY <2>1, <3>1, <3>6
  <2>3. CASE Verdict
    <3>1. count' = 0
      BY <1>2, <2>3 DEF Verdict, NewCount, NoneNew
    <3>2. count' < Max
      BY <2>1, <3>1
    <3> QED
      BY <2>3, <3>2 DEF Verdict
  <2>4. CASE ConsoleSet
    <3>1. UNCHANGED <<table, count, i, valid, pc>> /\ pc = "check"
      BY <1>2, <2>4 DEF ConsoleSet, NoneNew, tableVars
    <3>2. ~Compact
      BY <2>1, <3>1 DEF Compact
    <3>3. ~Verdict /\ ~Accept /\ ~Refuse /\ ~Apply
      BY <3>1 DEF Verdict, Accept, Refuse, Apply, ApplyConfig, ApplyRestart
    <3> QED
      BY <1>2, <3>1, <3>2, <3>3 DEF NoneNew, Serve
  <2>5. CASE ConsoleReset \/ PowerLoss \/ Apply
    BY <1>2, <2>5 DEF Restarts, Apply, ApplyConfig, ApplyRestart, NoneNew
  <2> QED
    BY <1>2, <2>2, <2>3, <2>4, <2>5 DEF Next, Ask, Accept, Refuse, Tick, NoneNew
<1> QED
  BY <1>1, <1>2 DEF PassesClear

\* A check that starts when no failure looks new ends at the signature: nobody
\* touches the table under it, every turn of its loop is one of at most as many as
\* there are entries, and none of them counts (web_config.c:48-64).
THEOREM ClearPasses == Spec => [][PassesClear]_vars
<1>1. IInv /\ [Next]_vars => [PassesClear]_vars
  BY StepPassesClear
<1> QED
  BY <1>1, Invariance, PTL DEF Spec
===============================================================================
