------------------------------- MODULE LinkProofs -------------------------------
(***************************************************************************)
(* The two ends of the path through the unit, each on its own: the serial  *)
(* line that brings positions in, and the transmitters that take messages  *)
(* out.                                                                    *)
(*                                                                         *)
(* SerialLink: the flaws that the parser can still trip over are counted   *)
(* without a history of the line.  There is some way of telling which      *)
(* field was meant where, and after how many flaws, that explains all that *)
(* waits in the buffers; each step turns an explanation into the next one. *)
(*                                                                         *)
(* RadioTx: whatever signature an identity carries, the messages it gives  *)
(* rise to are at most a pack's.  The fixed ones and the optional ones are *)
(* six at most, and a signature goes along only where it fits.             *)
(***************************************************************************)
EXTENDS SerialLink, RadioTx, SequenceTheorems, FiniteSetTheorems, TLAPS

\* Where the receiver may be in its sentences.
Places == {p \in [of : Reports, at : 1 .. 4] : p.at <= Len(Sentence(p.of))}
Succeeds(p, q) == IF p.at < Len(Sentence(p.of)) THEN q = [of |-> p.of, at |-> p.at + 1] ELSE q.at = 1
Intactly(field, r, i) == field = Sentence(r)[i] /\ field # Other

\* A line that is parsed to a position sent, or not at all, once the field meant
\* at p and those after it arrive as they are meant.
InStep(l, r, i) ==
  \/ l = <<>> \/ l[1] # Dollar
  \/ Len(l) = i - 1 /\ \A j \in 1 .. Len(l) : Intactly(l[j], r, j)

Meant(field, p) == Intactly(field, p.of, p.at)
Ready(l, p) == InStep(l, p.of, p.at)

\* What waits for the parser can be told apart from what was sent by as many
\* flaws as are counted: each field was meant at a place, and has the number of
\* flaws that had happened when it was sent.  A field with the number of the one
\* before it is the next one sent, as it was meant.  The first one's number is
\* compared with the positions spoilt: a line costs no more than the flaws that
\* came before its end.
Explains(w, l, s, n, p, lost, place, stamp) ==
  /\ stamp[0] = s /\ stamp[Len(w) + 1] = n /\ place[Len(w) + 1] = p
  /\ \A i, j \in 0 .. Len(w) + 1 : i <= j => stamp[i] <= stamp[j]
  /\ lost => stamp[Len(w)] < n
  /\ stamp[0] = stamp[1] => Ready(l, place[1])
  /\ \A i \in 1 .. Len(w) : stamp[i - 1] = stamp[i] => Meant(w[i], place[i])
  /\ \A i \in 1 .. Len(w) : stamp[i] = stamp[i + 1] => Succeeds(place[i], place[i + 1])
Explained(w, l, s, n, p, lost) ==
  \E place \in [1 .. Len(w) + 1 -> Places], stamp \in [0 .. Len(w) + 1 -> Nat] :
    Explains(w, l, s, n, p, lost, place, stamp)

Waiting == buf \o ring
Upcoming == [of |-> report, at |-> at]

LinkIInv ==
  /\ LinkTypeOK /\ Upcoming \in Places
  /\ pc # "parse" => buf = <<>>
  /\ Explained(Waiting, line, spoilt, flaws, Upcoming, losing)

-----------------------------------------------------------------------------
(* Sentences. *)

LEMMA SentenceTyped ==
  ASSUME NEW r \in Reports
  PROVE  /\ Sentence(r) \in Seq(Fields) /\ Len(Sentence(r)) = (IF r = "nofix" THEN 3 ELSE 4)
         /\ Sentence(r)[1] = Dollar /\ Sentence(r)[Len(Sentence(r))] = Lf
         /\ r = "nofix" => Sentence(r)[2] = Other
         /\ r # "nofix" => /\ r \in Positions
                            /\ Sentence(r)[2] = <<"lat", r>> /\ Sentence(r)[3] = <<"lon", r>>
<1>1. CASE r = "nofix"
  <2>1. Sentence(r) = <<Dollar, Other, Lf>>
    BY <1>1 DEF Sentence
  <2>2. Dollar \in Fields /\ Other \in Fields /\ Lf \in Fields
    BY DEF Fields
  <2> DEFINE s == <<Dollar, Other, Lf>>
  <2>3. s \in Seq(Fields)
    BY <2>2
  <2>4. Len(s) = 3 /\ s[1] = Dollar /\ s[2] = Other /\ s[3] = Lf
    OBVIOUS
  <2> HIDE DEF s
  <2> QED
    BY <1>1, <2>1, <2>3, <2>4 DEF s
<1>2. CASE r # "nofix"
  <2>1. Sentence(r) = <<Dollar, <<"lat", r>>, <<"lon", r>>, Lf>> /\ r \in Positions
    BY <1>2 DEF Sentence, Reports
  <2>2. Dollar \in Fields /\ Lf \in Fields /\ <<"lat", r>> \in Fields /\ <<"lon", r>> \in Fields
    BY <2>1 DEF Fields
  <2> DEFINE s == <<Dollar, <<"lat", r>>, <<"lon", r>>, Lf>>
  <2>3. s \in Seq(Fields)
    BY <2>2
  <2>4. Len(s) = 4 /\ s[1] = Dollar /\ s[2] = <<"lat", r>> /\ s[3] = <<"lon", r>> /\ s[4] = Lf
    OBVIOUS
  <2>5. Sentence(r) = s
    BY <2>1
  <2> HIDE DEF s
  <2> QED
    BY <1>2, <2>1, <2>3, <2>4, <2>5
<1> QED
  BY <1>1, <1>2

LEMMA FieldsApart ==
  /\ Dollar # Lf /\ Dollar # Other /\ Lf # Other
  /\ \A r : <<"lat", r>> \notin {Dollar, Lf, Other} /\ <<"lon", r>> \notin {Dollar, Lf, Other}
BY DEF Dollar, Lf, Other

LEMMA PlaceTyped ==
  ASSUME NEW p \in Places
  PROVE  /\ p.of \in Reports /\ p.at \in 1 .. 4 /\ p.at <= Len(Sentence(p.of))
         /\ p = [of |-> p.of, at |-> p.at] /\ Sentence(p.of)[p.at] \in Fields
<1>1. p.of \in Reports /\ p.at \in 1 .. 4 /\ p.at <= Len(Sentence(p.of)) /\ p = [of |-> p.of, at |-> p.at]
  BY DEF Places
<1>2. Sentence(p.of) \in Seq(Fields) /\ Len(Sentence(p.of)) \in Nat
  <2>1. Sentence(p.of) \in Seq(Fields)
    BY <1>1, SentenceTyped
  <2> QED
    BY <2>1, LenProperties
<1>3. p.at \in 1 .. Len(Sentence(p.of))
  BY <1>1, <1>2
<1>4. Sentence(p.of)[p.at] \in Fields
  BY <1>2, <1>3, ElementOfSeq
<1> QED
  BY <1>1, <1>4

LEMMA IsPlace ==
  ASSUME NEW r \in Reports, NEW i \in 1 .. 4, i <= Len(Sentence(r))
  PROVE  [of |-> r, at |-> i] \in Places
<1> DEFINE p == [of |-> r, at |-> i]
<1>1. p \in [of : Reports, at : 1 .. 4] /\ p.of = r /\ p.at = i
  OBVIOUS
<1> HIDE DEF p
<1> QED
  BY <1>1 DEF Places, p

-----------------------------------------------------------------------------
(* What explains the fields waiting explains them after each step. *)

LEMMA EnterExplained ==
  ASSUME NEW w \in Seq(Fields), NEW l, NEW s \in Nat, NEW n \in Nat, NEW m \in Nat,
         NEW p \in Places, NEW q \in Places, NEW lost \in BOOLEAN, NEW field \in Fields,
         Explained(w, l, s, n, p, lost), Succeeds(p, q),
         m = n + 1 \/ (m = n /\ Meant(field, p))
  PROVE  Explained(Append(w, field), l, s, m, q, FALSE)
<1>1. PICK place \in [1 .. Len(w) + 1 -> Places], stamp \in [0 .. Len(w) + 1 -> Nat] :
             Explains(w, l, s, n, p, lost, place, stamp)
  BY DEF Explained
<1> DEFINE k == Len(w)
           v == Append(w, field)
           place2 == [i \in 1 .. k + 2 |-> IF i = k + 2 THEN q ELSE place[i]]
           stamp2 == [i \in 0 .. k + 2 |-> IF i > k THEN m ELSE stamp[i]]
<1>2. k \in Nat /\ Len(v) = k + 1 /\ v[k + 1] = field /\ \A i \in 1 .. k : v[i] = w[i]
  BY LenProperties, AppendProperties
<1>3. place2 \in [1 .. Len(v) + 1 -> Places] /\ stamp2 \in [0 .. Len(v) + 1 -> Nat]
  BY <1>2
<1>4. Explains(v, l, s, m, q, FALSE, place2, stamp2)
  <2> HIDE DEF v, k
  <2>0. \A i \in 0 .. k + 1 : stamp[i] \in Nat
    BY <1>2 DEF k
  <2>1. /\ stamp[0] = s /\ stamp[k + 1] = n /\ place[k + 1] = p
        /\ \A i, j \in 0 .. k + 1 : i <= j => stamp[i] <= stamp[j]
        /\ stamp[0] = stamp[1] => Ready(l, place[1])
        /\ \A i \in 1 .. k : stamp[i - 1] = stamp[i] => Meant(w[i], place[i])
        /\ \A i \in 1 .. k : stamp[i] = stamp[i + 1] => Succeeds(place[i], place[i + 1])
    BY <1>1 DEF Explains, k
  <2>2. \A i \in 0 .. k : stamp2[i] = stamp[i] /\ stamp[i] <= n
    <3>1. \A i \in 0 .. k : i \in 0 .. k + 1 /\ i \in 0 .. k + 2 /\ i <= k + 1 /\ ~(i > k)
      BY <1>2
    <3>2. \A i \in 0 .. k : stamp[i] <= n
      BY <1>2, <2>1, <3>1
    <3> HIDE DEF k
    <3>3. \A i \in 0 .. k : stamp2[i] = stamp[i]
      BY <3>1
    <3> QED
      BY <3>2, <3>3
  <2>3. \A i \in k + 1 .. k + 2 : stamp2[i] = m
    BY <1>2
  <2>4. \A i \in 1 .. k + 1 : place2[i] = place[i]
    BY <1>2
  <2>5. place2[k + 2] = q
    BY <1>2
  <2> HIDE DEF place2, stamp2
  <2>6. stamp2[0] = s /\ stamp2[Len(v) + 1] = m /\ place2[Len(v) + 1] = q
    BY <1>2, <2>1, <2>2, <2>3, <2>5
  <2>7. \A i, j \in 0 .. Len(v) + 1 : i <= j => stamp2[i] <= stamp2[j]
    BY <1>2, <2>0, <2>1, <2>2, <2>3
  <2>8. stamp2[0] = stamp2[1] => Ready(l, place2[1])
    BY <1>2, <2>0, <2>1, <2>2, <2>3, <2>4
  <2>9. ASSUME NEW i \in 1 .. Len(v), stamp2[i - 1] = stamp2[i]
        PROVE  Meant(v[i], place2[i])
    BY <1>2, <2>0, <2>1, <2>2, <2>3, <2>4, <2>9
  <2>10. ASSUME NEW i \in 1 .. Len(v), stamp2[i] = stamp2[i + 1]
         PROVE  Succeeds(place2[i], place2[i + 1])
    <3>1. CASE i = k + 1
      <4>1. i \in 1 .. k + 1 /\ i + 1 = k + 2
        BY <1>2, <3>1
      <4>2. place2[i] = p
        BY <2>1, <2>4, <3>1, <4>1
      <4>3. place2[i + 1] = q
        BY <2>5, <4>1
      <4> QED
        BY <4>2, <4>3
    <3>2. CASE i \in 1 .. k
      <4>1. i + 1 \in 1 .. k + 1 /\ i \in 1 .. k + 1 /\ i \in 0 .. k
        BY <1>2, <3>2
      <4>2. place2[i] = place[i] /\ place2[i + 1] = place[i + 1] /\ stamp2[i] = stamp[i]
        BY <2>2, <2>4, <4>1
      <4>3. stamp[i] = stamp[i + 1]
        <5>1. CASE i < k
          <6>1. i + 1 \in 0 .. k
            BY <1>2, <3>2, <5>1
          <6> QED
            BY <2>2, <2>10, <4>2, <6>1
        <5>2. CASE i = k
          <6>1. i + 1 \in k + 1 .. k + 2
            BY <1>2, <5>2
          <6>2. stamp2[i + 1] = m /\ stamp[i] <= n /\ n <= m /\ stamp[i + 1] = n
            BY <2>1, <2>2, <2>3, <4>1, <5>2, <6>1
          <6>3. stamp[i] = m
            BY <2>10, <4>2, <6>2
          <6> QED
            BY <6>2, <6>3
        <5> QED
          BY <1>2, <3>2, <5>1, <5>2
      <4> QED
        BY <2>1, <3>2, <4>2, <4>3
    <3> QED
      BY <1>2, <3>1, <3>2
  <2> QED
    BY <2>6, <2>7, <2>8, <2>9, <2>10 DEF Explains
<1> QED
  BY <1>3, <1>4 DEF Explained

\* The first m fields stay, the others are lost: a flaw, unless one is going on.
LEMMA LossExplained ==
  ASSUME NEW w \in Seq(Fields), NEW l, NEW s \in Nat, NEW n \in Nat, NEW p \in Places,
         NEW q \in Places, NEW lost \in BOOLEAN, Explained(w, l, s, n, p, lost),
         NEW v \in Seq(Fields), Len(v) <= Len(w), \A i \in 1 .. Len(v) : v[i] = w[i]
  PROVE  Explained(v, l, s, IF lost THEN n ELSE n + 1, q, TRUE)
<1>1. PICK place \in [1 .. Len(w) + 1 -> Places], stamp \in [0 .. Len(w) + 1 -> Nat] :
             Explains(w, l, s, n, p, lost, place, stamp)
  BY DEF Explained
<1> DEFINE m == IF lost THEN n ELSE n + 1
           k == Len(v)
           place2 == [i \in 1 .. k + 1 |-> IF i = k + 1 THEN q ELSE place[i]]
           stamp2 == [i \in 0 .. k + 1 |-> IF i = k + 1 THEN m ELSE stamp[i]]
<1>2. k \in Nat /\ Len(w) \in Nat /\ k <= Len(w) /\ m \in Nat /\ m >= n
  BY LenProperties
<1>3. place2 \in [1 .. k + 1 -> Places] /\ stamp2 \in [0 .. k + 1 -> Nat]
  BY <1>2
<1>4. Explains(v, l, s, m, q, TRUE, place2, stamp2)
  <2>1. /\ stamp[0] = s /\ stamp[Len(w) + 1] = n
        /\ \A i, j \in 0 .. Len(w) + 1 : i <= j => stamp[i] <= stamp[j]
        /\ lost => stamp[Len(w)] < n
        /\ stamp[0] = stamp[1] => Ready(l, place[1])
        /\ \A i \in 1 .. Len(w) : stamp[i - 1] = stamp[i] => Meant(w[i], place[i])
        /\ \A i \in 1 .. Len(w) : stamp[i] = stamp[i + 1] => Succeeds(place[i], place[i + 1])
    BY <1>1 DEF Explains
  <2>2. \A i \in 0 .. k : stamp2[i] = stamp[i] /\ stamp[i] \in Nat /\ stamp[i] < m
    <3>1. SUFFICES ASSUME NEW i \in 0 .. k PROVE stamp[i] \in Nat /\ stamp[i] < m
      BY <1>2
    <3>2. stamp[i] \in Nat /\ stamp[Len(w)] \in Nat /\ stamp[i] <= stamp[Len(w)] /\ stamp[i] <= n
      BY <1>2, <2>1
    <3> QED
      BY <2>1, <3>2
  <2>3. stamp2[k + 1] = m /\ place2[k + 1] = q
    BY <1>2
  <2>4. \A i \in 1 .. k : place2[i] = place[i]
    BY <1>2
  <2> HIDE DEF place2, stamp2, m
  <2>5. ASSUME NEW i \in 0 .. k + 1, NEW j \in 0 .. k + 1, i <= j PROVE stamp2[i] <= stamp2[j]
    <3>1. CASE j \in 0 .. k
      <4>1. i \in 0 .. k /\ i \in 0 .. Len(w) + 1 /\ j \in 0 .. Len(w) + 1
        BY <1>2, <2>5, <3>1
      <4> QED
        BY <2>1, <2>2, <2>5, <3>1, <4>1
    <3>2. CASE j = k + 1
      BY <1>2, <2>2, <2>3, <3>2
    <3> QED
      BY <1>2, <3>1, <3>2
  <2>6. stamp2[0] = stamp2[1] => Ready(l, place2[1])
    BY <1>2, <2>1, <2>2, <2>3, <2>4
  <2>7. ASSUME NEW i \in 1 .. k, stamp2[i - 1] = stamp2[i]
        PROVE  Meant(v[i], place2[i])
    <3>1. i \in 0 .. k /\ i - 1 \in 0 .. k /\ i \in 1 .. Len(w)
      BY <1>2
    <3>2. stamp[i - 1] = stamp[i]
      BY <2>2, <2>7, <3>1
    <3>3. Meant(w[i], place[i])
      BY <2>1, <3>1, <3>2
    <3> QED
      BY <2>4, <3>3
  <2>8. ASSUME NEW i \in 1 .. k, stamp2[i] = stamp2[i + 1]
        PROVE  Succeeds(place2[i], place2[i + 1])
    <3>1. i \in 0 .. k /\ i \in 1 .. Len(w)
      BY <1>2
    <3>2. i # k
      BY <2>2, <2>3, <2>8, <3>1
    <3>3. i + 1 \in 0 .. k /\ i + 1 \in 1 .. k
      BY <1>2, <3>2
    <3>4. stamp[i] = stamp[i + 1]
      BY <2>2, <2>8, <3>1, <3>3
    <3>5. Succeeds(place[i], place[i + 1])
      BY <2>1, <3>1, <3>4
    <3> QED
      BY <2>4, <3>3, <3>5
  <2> QED
    BY <1>2, <2>1, <2>2, <2>3, <2>5, <2>6, <2>7, <2>8 DEF Explains
<1> QED
  BY <1>3, <1>4 DEF Explained

-----------------------------------------------------------------------------
(* The parser. *)

LEMMA IntactFields ==
  ASSUME NEW r \in Reports, NEW a \in 1 .. 4, a <= Len(Sentence(r)), NEW field, Intactly(field, r, a)
  PROVE  /\ r = "nofix" => a # 2
         /\ field = Dollar <=> a = 1
         /\ field = Lf <=> a = Len(Sentence(r))
<1>2. field = Sentence(r)[a] /\ field # Other
  BY DEF Intactly
<1>3. CASE r = "nofix"
  <2>1. Len(Sentence(r)) = 3 /\ Sentence(r)[1] = Dollar
        /\ Sentence(r)[2] = Other /\ Sentence(r)[3] = Lf
    BY <1>3, SentenceTyped
  <2>2. CASE a = 1
    BY <1>2, <1>3, <2>1, <2>2, FieldsApart
  <2>3. CASE a = 2
    BY <1>2, <2>1, <2>3
  <2>4. CASE a = 3
    BY <1>2, <1>3, <2>1, <2>4, FieldsApart
  <2>5. a = 1 \/ a = 2 \/ a = 3
    BY <2>1
  <2> QED
    BY <2>2, <2>3, <2>4, <2>5
<1>4. CASE r # "nofix"
  <2>1. Len(Sentence(r)) = 4 /\ Sentence(r)[1] = Dollar
        /\ Sentence(r)[2] = <<"lat", r>> /\ Sentence(r)[3] = <<"lon", r>>
        /\ Sentence(r)[4] = Lf
    BY <1>4, SentenceTyped
  <2>2. Sentence(r)[2] \notin {Dollar, Lf} /\ Sentence(r)[3] \notin {Dollar, Lf}
    BY <2>1, FieldsApart
  <2>3. CASE a = 1
    BY <1>2, <1>4, <2>1, <2>3, FieldsApart
  <2>4. CASE a \in {2, 3}
    BY <1>2, <1>4, <2>1, <2>2, <2>4
  <2>5. CASE a = 4
    BY <1>2, <1>4, <2>1, <2>5, FieldsApart
  <2>6. a = 1 \/ a \in {2, 3} \/ a = 4
    OBVIOUS
  <2> QED
    BY <2>3, <2>4, <2>5, <2>6
<1> QED
  BY <1>3, <1>4

\* In step with the receiver, the parser takes what was sent and stays in step.
LEMMA StaysInStep ==
  ASSUME line \in Seq(Fields), NEW r \in Reports, NEW a \in 1 .. 4, a <= Len(Sentence(r)), NEW field \in Fields,
         InStep(line, r, a), Intactly(field, r, a)
  PROVE  /\ LineEnds(field) /\ IsSentence => \E x \in Positions : Took(x)
         /\ \A q \in Places : Succeeds([of |-> r, at |-> a], q) => InStep(Collected(field), q.of, q.at)
<1>1. LineMax \in Nat /\ LineMax >= 3
  BY LinkAssumption
<1>2. Len(line) \in Nat /\ (line # <<>> => Len(line) >= 1)
  BY EmptySeq, LenProperties
<1>4. /\ Append(line, field) \in Seq(Fields) /\ Len(Append(line, field)) = Len(line) + 1
      /\ \A i \in 1 .. Len(line) : Append(line, field)[i] = line[i]
      /\ Append(line, field)[Len(line) + 1] = field
  BY AppendProperties
<1>5. Collected(field) = <<>> \/ (~LineEnds(field) /\ Collected(field) = Append(line, field))
  BY DEF Collected
<1>6. CASE line = <<>>
  <2>1. Len(line) = 0 /\ ~IsSentence
    BY <1>6 DEF IsSentence
  <2>2. ASSUME NEW q \in Places, Succeeds([of |-> r, at |-> a], q), Collected(field) = Append(line, field)
        PROVE  InStep(Append(line, field), q.of, q.at)
    <3>1. Len(Append(line, field)) = 1 /\ Append(line, field)[1] = field
      BY <1>4, <2>1
    <3>2. CASE field # Dollar
      BY <3>1, <3>2 DEF InStep
    <3>3. CASE field = Dollar
      <4>1. a = 1
        BY <3>3, IntactFields
      <4>2. Len(Sentence(r)) \in {3, 4}
        BY SentenceTyped
      <4>3. q.of = r /\ q.at = 2
        <5>1. a < Len(Sentence(r))
          BY <4>1, <4>2
        <5>2. q = [of |-> r, at |-> a + 1]
          BY <2>2, <5>1 DEF Succeeds
        <5> QED
          BY <4>1, <5>2
      <4>4. Intactly(field, r, 1)
        BY <4>1 DEF Intactly
      <4> HIDE DEF Intactly
      <4>5. \A i \in 1 .. 1 : Intactly(Append(line, field)[i], q.of, i)
        BY <3>1, <4>3, <4>4
      <4> QED
        BY <3>1, <4>3, <4>5 DEF InStep
    <3> QED
      BY <3>2, <3>3
  <2> QED
    BY <1>5, <2>1, <2>2 DEF InStep
<1>7. CASE line # <<>> /\ line[1] # Dollar
  <2>1. ~IsSentence
    BY <1>7 DEF IsSentence
  <2>2. Append(line, field)[1] = line[1]
    BY <1>2, <1>4, <1>7
  <2> QED
    BY <1>5, <1>7, <2>1, <2>2 DEF InStep
<1>8. CASE line # <<>> /\ line[1] = Dollar
  <2>1. Len(line) = a - 1 /\ \A i \in 1 .. Len(line) : Intactly(line[i], r, i)
    BY <1>8 DEF InStep
  <2>2. a \in 2 .. 4
    BY <1>2, <1>8, <2>1
  <2>3. r # "nofix"
    <3>1. SUFFICES ASSUME r = "nofix" PROVE FALSE
      OBVIOUS
    <3>2. Len(Sentence(r)) = 3 /\ Sentence(r)[2] = Other
      BY <3>1, SentenceTyped
    <3>3. a # 2
      BY <3>1, IntactFields
    <3>4. a = 3
      BY <2>2, <3>2, <3>3
    <3>5. Intactly(line[2], r, 2)
      BY <2>1, <3>4
    <3> QED
      BY <3>2, <3>5 DEF Intactly
  <2>4. /\ r \in Positions /\ Len(Sentence(r)) = 4
        /\ Sentence(r)[2] = <<"lat", r>> /\ Sentence(r)[3] = <<"lon", r>>
    BY <2>3, SentenceTyped
  <2>5. CASE a = 4
    <3>1. field = Lf
      BY <2>4, <2>5, IntactFields
    <3>2. Collected(field) = <<>>
      BY <3>1 DEF Collected, LineEnds
    <3>3. Intactly(line[2], r, 2) /\ Intactly(line[3], r, 3) /\ Len(line) = 3
      BY <2>1, <2>5
    <3>4. Took(r)
      BY <2>4, <3>3 DEF Took, Intactly
    <3> QED
      BY <2>4, <3>2, <3>4 DEF InStep
  <2>6. CASE a \in 2 .. 3
    <3>1. ~LineEnds(field)
      <4>0. a # Len(Sentence(r))
        BY <2>4, <2>6
      <4>1. field # Lf
        BY <4>0, IntactFields
      <4>2. Len(line) < 3
        BY <2>1, <2>6
      <4> QED
        BY <1>1, <1>2, <4>1, <4>2 DEF LineEnds, Full
    <3>2. Collected(field) = Append(line, field)
      BY <3>1 DEF Collected
    <3>3. ASSUME NEW q \in Places, Succeeds([of |-> r, at |-> a], q) PROVE InStep(Append(line, field), q.of, q.at)
      <4>1. q.of = r /\ q.at = a + 1
        <5>1. a < Len(Sentence(r))
          BY <2>4, <2>6
        <5>2. q = [of |-> r, at |-> a + 1]
          BY <3>3, <5>1 DEF Succeeds
        <5> QED
          BY <5>2
      <4>2. Intactly(field, r, a)
        BY DEF Intactly
      <4> HIDE DEF Intactly
      <4>3. ASSUME NEW i \in 1 .. Len(line) + 1
            PROVE  Intactly(Append(line, field)[i], q.of, i)
        <5>1. CASE i = Len(line) + 1
          BY <1>4, <2>1, <2>6, <4>1, <4>2, <5>1
        <5>2. CASE i \in 1 .. Len(line)
          BY <1>4, <2>1, <4>1, <5>2
        <5> QED
          BY <1>2, <5>1, <5>2
      <4> QED
        BY <1>4, <2>1, <2>6, <4>1, <4>3 DEF InStep
    <3> QED
      BY <3>1, <3>2, <3>3
  <2> QED
    BY <2>2, <2>5, <2>6
<1> QED
  BY <1>6, <1>7, <1>8

\* Consuming a field: a position is spoilt only where a flaw pays for it.
LEMMA ConsumeExplained ==
  ASSUME NEW w \in Seq(Fields), w # <<>>, line \in Seq(Fields), spoilt \in Nat,
         NEW n \in Nat, NEW p \in Places, NEW lost \in BOOLEAN,
         Explained(w, line, spoilt, n, p, lost), NEW s \in {spoilt, spoilt + 1},
         s # spoilt => LineEnds(w[1]) /\ IsSentence /\ ~ \E x \in Positions : Took(x)
  PROVE  Explained(Tail(w), Collected(w[1]), s, n, p, lost)
<1>1. PICK place \in [1 .. Len(w) + 1 -> Places], stamp \in [0 .. Len(w) + 1 -> Nat] :
             Explains(w, line, spoilt, n, p, lost, place, stamp)
  BY DEF Explained
<1> DEFINE k == Len(w) - 1
           v == Tail(w)
           place2 == [i \in 1 .. k + 1 |-> place[i + 1]]
           stamp2 == [i \in 0 .. k + 1 |-> IF i = 0 THEN s ELSE stamp[i + 1]]
<1>2. Len(w) \in Nat /\ Len(w) = k + 1 /\ k \in Nat /\ Len(v) = k
      /\ w[1] \in Fields /\ \A i \in 1 .. k : v[i] = w[i + 1]
  BY EmptySeq, LenProperties, HeadTailProperties, ElementOfSeq
<1> HIDE DEF v, k
<1>3. s \in Nat /\ spoilt <= s /\ s <= spoilt + 1
  OBVIOUS
<1>4. /\ \A i \in 0 .. k + 2 : stamp[i] \in Nat
      /\ \A i \in 1 .. k + 2 : place[i] \in Places
  BY <1>2
<1>5. place2 \in [1 .. Len(v) + 1 -> Places] /\ stamp2 \in [0 .. Len(v) + 1 -> Nat]
  BY <1>2, <1>3, <1>4
<1>6. /\ stamp[0] = spoilt /\ stamp[k + 2] = n /\ place[k + 2] = p
      /\ \A i, j \in 0 .. k + 2 : i <= j => stamp[i] <= stamp[j]
      /\ lost => stamp[k + 1] < n
      /\ stamp[0] = stamp[1] => Ready(line, place[1])
      /\ \A i \in 1 .. k + 1 : stamp[i - 1] = stamp[i] => Meant(w[i], place[i])
      /\ \A i \in 1 .. k + 1 : stamp[i] = stamp[i + 1] => Succeeds(place[i], place[i + 1])
  BY <1>1, <1>2 DEF Explains
<1>7. 0 \in 0 .. k + 2 /\ 1 \in 0 .. k + 2 /\ 2 \in 0 .. k + 2 /\ 1 \in 1 .. k + 1
      /\ stamp[1] \in Nat /\ spoilt <= stamp[1]
  BY <1>2, <1>4, <1>6
\* Where no flaw pays, the line is in step.
<1>8. spoilt = stamp[1] =>
        /\ s = spoilt
        /\ \A q \in Places : Succeeds(place[1], q) => Ready(Collected(w[1]), q)
  <2> SUFFICES ASSUME spoilt = stamp[1]
               PROVE  /\ s = spoilt
                      /\ \A q \in Places : Succeeds(place[1], q) => Ready(Collected(w[1]), q)
    OBVIOUS
  <2> DEFINE r == place[1].of
             a == place[1].at
  <2>1. Ready(line, place[1])
    BY <1>6
  <2>2. Meant(w[1], place[1])
    BY <1>6, <1>7
  <2>3. place[1] \in Places
    BY <1>2, <1>4
  <2>4. r \in Reports /\ a \in 1 .. 4 /\ a <= Len(Sentence(r)) /\ place[1] = [of |-> r, at |-> a]
    BY <2>3, PlaceTyped
  <2>5. InStep(line, r, a) /\ Intactly(w[1], r, a)
    BY <2>1, <2>2 DEF Ready, Meant
  <2> HIDE DEF r, a
  <2>6. /\ LineEnds(w[1]) /\ IsSentence => \E x \in Positions : Took(x)
        /\ \A q \in Places : Succeeds([of |-> r, at |-> a], q) => InStep(Collected(w[1]), q.of, q.at)
    BY <1>2, <2>4, <2>5, StaysInStep
  <2> QED
    BY <2>4, <2>6 DEF Ready
<1>9. s <= stamp[1]
  BY <1>3, <1>7, <1>8
<1>10. stamp2[0] = s /\ \A i \in 1 .. k + 1 : stamp2[i] = stamp[i + 1]
  BY <1>2
<1>11. \A i \in 1 .. k + 1 : place2[i] = place[i + 1]
  OBVIOUS
<1> HIDE DEF place2, stamp2
<1>12. stamp2[k + 1] = n /\ place2[k + 1] = p
  <2>1. k + 1 \in 1 .. k + 1 /\ k + 1 + 1 = k + 2
    BY <1>2
  <2> QED
    BY <1>6, <1>10, <1>11, <2>1
<1>13. ASSUME NEW i \in 0 .. k + 1, NEW j \in 0 .. k + 1, i <= j
       PROVE  stamp2[i] <= stamp2[j]
  <2>1. CASE i = 0 /\ j = 0
    BY <1>3, <1>10, <2>1
  <2>2. CASE i = 0 /\ j # 0
    <3>1. j \in 1 .. k + 1 /\ j + 1 \in 0 .. k + 2 /\ 1 <= j + 1
      BY <1>2, <2>2
    <3>2. stamp[1] <= stamp[j + 1] /\ stamp[j + 1] \in Nat
      BY <1>4, <1>6, <1>7, <3>1
    <3> QED
      BY <1>3, <1>7, <1>9, <1>10, <2>2, <3>1, <3>2
  <2>3. CASE i # 0
    <3>1. i \in 1 .. k + 1 /\ j \in 1 .. k + 1 /\ i + 1 \in 0 .. k + 2 /\ j + 1 \in 0 .. k + 2
          /\ i + 1 <= j + 1
      BY <1>2, <1>13, <2>3
    <3> QED
      BY <1>6, <1>10, <3>1
  <2> QED
    BY <2>1, <2>2, <2>3
<1>14. lost => stamp2[k] < n
  <2>1. CASE k = 0
    BY <1>3, <1>6, <1>7, <1>9, <1>10, <2>1
  <2>2. CASE k # 0
    <3>1. k \in 1 .. k + 1
      BY <1>2, <2>2
    <3> QED
      BY <1>6, <1>10, <3>1
  <2> QED
    BY <2>1, <2>2
<1>15. stamp2[0] = stamp2[1] => Ready(Collected(w[1]), place2[1])
  <2> SUFFICES ASSUME s = stamp[2] PROVE Ready(Collected(w[1]), place[2])
    BY <1>7, <1>10, <1>11
  <2>1. stamp[1] <= stamp[2] /\ stamp[2] \in Nat /\ place[2] \in Places
    BY <1>2, <1>4, <1>6, <1>7
  <2>2. stamp[1] = stamp[2]
    BY <1>3, <1>7, <1>9, <2>1
  <2>3. Succeeds(place[1], place[2])
    BY <1>6, <1>7, <2>2
  <2>4. CASE spoilt = stamp[1]
    BY <1>8, <2>1, <2>3, <2>4
  <2>5. CASE spoilt # stamp[1]
    <3>1. Collected(w[1]) = <<>>
      BY <2>2, <2>5 DEF Collected
    <3> QED
      BY <3>1 DEF Ready, InStep
  <2> QED
    BY <2>4, <2>5
<1>16. ASSUME NEW i \in 1 .. k, stamp2[i - 1] = stamp2[i]
       PROVE  Meant(v[i], place2[i])
  <2>1. i \in 1 .. k + 1 /\ i + 1 \in 1 .. k + 1 /\ (i + 1) - 1 = i
    BY <1>2
  <2>2. stamp2[i] = stamp[i + 1] /\ place2[i] = place[i + 1] /\ v[i] = w[i + 1]
    BY <1>2, <1>10, <1>11, <2>1
  <2>3. stamp[i] = stamp[i + 1]
    <3>1. CASE i = 1
      <4>1. stamp[2] = s /\ stamp[1] <= stamp[2]
        BY <1>6, <1>7, <1>10, <1>16, <2>2, <3>1
      <4> QED
        BY <1>3, <1>7, <1>9, <3>1, <4>1
    <3>2. CASE i # 1
      <4>1. i - 1 \in 1 .. k + 1 /\ (i - 1) + 1 = i
        BY <1>2, <3>2
      <4>2. stamp2[i - 1] = stamp[i]
        BY <1>10, <4>1
      <4> QED
        BY <1>16, <2>2, <4>2
    <3> QED
      BY <3>1, <3>2
  <2> QED
    BY <1>6, <2>1, <2>2, <2>3
<1>17. ASSUME NEW i \in 1 .. k, stamp2[i] = stamp2[i + 1]
       PROVE  Succeeds(place2[i], place2[i + 1])
  <2>1. i \in 1 .. k + 1 /\ i + 1 \in 1 .. k + 1
    BY <1>2
  <2>2. stamp[i + 1] = stamp[(i + 1) + 1]
    BY <1>10, <1>17, <2>1
  <2>3. Succeeds(place[i + 1], place[(i + 1) + 1])
    BY <1>6, <2>1, <2>2
  <2> QED
    BY <1>11, <2>1, <2>3
<1>18. Explains(v, Collected(w[1]), s, n, p, lost, place2, stamp2)
  BY <1>2, <1>10, <1>12, <1>13, <1>14, <1>15, <1>16, <1>17 DEF Explains
<1> QED
  BY <1>5, <1>18 DEF Explained, v

-----------------------------------------------------------------------------
(* The steps. *)

LEMMA EmptyExplained ==
  ASSUME NEW s \in Nat, NEW n \in Nat, s <= n, NEW p \in Places
  PROVE  Explained(<<>>, <<>>, s, n, p, FALSE)
<1> DEFINE place == [i \in 1 .. 1 |-> p]
           stamp == [i \in 0 .. 1 |-> IF i = 0 THEN s ELSE n]
<1>1. place \in [1 .. Len(<<>>) + 1 -> Places] /\ stamp \in [0 .. Len(<<>>) + 1 -> Nat]
  OBVIOUS
<1>2. stamp[0] = s /\ stamp[1] = n /\ place[1] = p
  OBVIOUS
<1>3. Ready(<<>>, p)
  BY DEF Ready, InStep
<1> HIDE DEF place, stamp
<1>4. Explains(<<>>, <<>>, s, n, p, FALSE, place, stamp)
  <2>1. \A i, j \in 0 .. 1 : i <= j => stamp[i] <= stamp[j]
    <3>1. \A i \in 0 .. 1 : i = 0 \/ i = 1
      OBVIOUS
    <3> QED
      BY <1>2, <3>1
  <2> QED
    BY <1>2, <1>3, <2>1 DEF Explains
<1> QED
  BY <1>1, <1>4 DEF Explained

LEMMA SpoiltBound ==
  ASSUME NEW w \in Seq(Fields), NEW l, NEW s \in Nat, NEW n \in Nat, NEW p \in Places,
         NEW lost \in BOOLEAN, Explained(w, l, s, n, p, lost)
  PROVE  s <= n
<1>1. Len(w) \in Nat
  BY LenProperties
<1>2. 0 \in 0 .. Len(w) + 1 /\ Len(w) + 1 \in 0 .. Len(w) + 1 /\ 0 <= Len(w) + 1
  BY <1>1
<1> QED
  BY <1>2 DEF Explained, Explains

LEMMA WaitingTyped ==
  ASSUME NEW b \in Seq(Fields), NEW r \in Seq(Fields)
  PROVE  b \o r \in Seq(Fields)
BY ConcatProperties

LEMMA InitLinkIInv == LinkInit => LinkIInv
<1> SUFFICES ASSUME LinkInit PROVE LinkIInv
  OBVIOUS
<1>1. report \in Reports /\ at \in 1 .. Len(Sentence(report)) /\ report # "nofix"
  BY LinkAssumption DEF LinkInit, Reports
<1>2. Len(Sentence(report)) = 4
  BY <1>1, SentenceTyped
<1>3. at \in 1 .. 4 /\ at <= Len(Sentence(report))
  BY <1>1, <1>2
<1>30. Upcoming \in Places
  BY <1>1, <1>3, IsPlace DEF Upcoming
<1>4. <<>> \in Seq(Fields) /\ Len(<<>>) = 0
  BY EmptySeq
<1>5. LinkTypeOK
  <2>1. ring = <<>> /\ buf = <<>> /\ line = <<>>
    BY DEF LinkInit
  <2>2. Len(ring) <= RingMax /\ Len(buf) <= ReadMax /\ Len(line) <= LineMax /\ 0 \in 0 .. MaxFlaws
    BY <1>4, <2>1, LinkAssumption
  <2> QED
    BY <1>1, <1>3, <1>4, <2>1, <2>2 DEF LinkInit, LinkTypeOK
<1>6. Waiting = <<>>
  <2>1. ring = <<>> /\ buf = <<>>
    BY DEF LinkInit
  <2> QED
    BY <1>4, <2>1, ConcatEmptySeq DEF Waiting
<1>7. Explained(<<>>, <<>>, 0, 0, Upcoming, FALSE)
  <2>1. 0 \in Nat /\ 0 <= 0
    OBVIOUS
  <2> QED
    BY <1>30, <2>1, EmptyExplained, Zenon
<1> QED
  BY <1>30, <1>5, <1>6, <1>7 DEF LinkIInv, LinkInit

\* The receiver goes on to the next field.
LEMMA AdvanceTyped ==
  ASSUME LinkIInv, Advance
  PROVE  /\ report' \in Reports /\ at' \in 1 .. 4
         /\ Upcoming' \in Places /\ Succeeds(Upcoming, Upcoming')
         /\ Sentence(report)[at] \in Fields
<1>1. report \in Reports /\ at \in 1 .. 4 /\ Upcoming \in Places
  BY DEF LinkIInv, LinkTypeOK
<1>2. at <= Len(Sentence(report)) /\ Sentence(report)[at] \in Fields
  BY <1>1, PlaceTyped DEF Upcoming
<1>3. Len(Sentence(report)) \in {3, 4}
  BY <1>1, SentenceTyped
<1>4. CASE at < Len(Sentence(report))
  <2>1. at' = at + 1 /\ report' = report
    BY <1>4 DEF Advance
  <2>2. at' \in 1 .. 4 /\ at' <= Len(Sentence(report))
    <3> DEFINE n == Len(Sentence(report))
    <3>1. at \in 1 .. 4 /\ n \in 3 .. 4 /\ at < n
      BY <1>1, <1>3, <1>4
    <3> HIDE DEF n
    <3>2. at + 1 \in 1 .. 4 /\ at + 1 <= n
      BY <3>1
    <3> QED
      BY <2>1, <3>2 DEF n
  <2>3. Upcoming' \in Places
    BY <1>1, <2>1, <2>2, IsPlace DEF Upcoming
  <2> QED
    BY <1>1, <1>2, <1>4, <2>1, <2>2, <2>3 DEF Upcoming, Succeeds
<1>5. CASE ~(at < Len(Sentence(report)))
  <2>1. at' = 1 /\ report' \in Reports
    BY <1>5 DEF Advance
  <2>2. Len(Sentence(report')) \in {3, 4}
    BY <2>1, SentenceTyped
  <2>3. at' \in 1 .. 4 /\ at' <= Len(Sentence(report'))
    BY <2>1, <2>2
  <2>4. Upcoming' \in Places
    BY <2>1, <2>3, IsPlace DEF Upcoming
  <2> QED
    BY <1>1, <1>2, <1>5, <2>1, <2>3, <2>4 DEF Upcoming, Succeeds
<1> QED
  BY <1>4, <1>5

\* A field that enters the driver's buffer.
LEMMA EnterIInv ==
  ASSUME LinkIInv, Advance, NEW field \in Fields, Enter(field),
         Flaw \/ (UNCHANGED flaws /\ Meant(field, Upcoming)), UNCHANGED <<auto, parserVars>>
  PROVE  LinkIInv'
<1> USE DEF LinkIInv
<1>1. /\ report' \in Reports /\ at' \in 1 .. 4
      /\ Upcoming' \in Places /\ Succeeds(Upcoming, Upcoming')
  BY AdvanceTyped
<1>2. ring \in Seq(Fields) /\ buf \in Seq(Fields) /\ flaws \in Nat /\ spoilt \in Nat
      /\ losing \in BOOLEAN /\ Waiting \in Seq(Fields)
  BY WaitingTyped DEF LinkTypeOK, Waiting
<1>3. ring' \in Seq(Fields) /\ Len(ring') <= RingMax
  <2>1. Len(ring) \in Nat /\ Len(ring) < RingMax /\ RingMax \in Nat
        /\ Len(ring') = Len(ring) + 1 /\ ring' \in Seq(Fields)
    BY <1>2, LenProperties, AppendProperties, LinkAssumption DEF Enter
  <2> QED
    BY <2>1
<1>4. flaws' \in 0 .. MaxFlaws
  <2>1. flaws \in 0 .. MaxFlaws /\ MaxFlaws \in Nat
    BY LinkAssumption DEF LinkTypeOK
  <2>2. CASE Flaw
    BY <2>1, <2>2 DEF Flaw
  <2>3. CASE flaws' = flaws
    BY <2>1, <2>3
  <2> QED
    BY <2>2, <2>3
<1>5. LinkTypeOK'
  BY <1>1, <1>3, <1>4 DEF LinkTypeOK, Enter, parserVars
<1>6. Waiting' = Append(Waiting, field)
  <2>1. ring' = Append(ring, field) /\ buf' = buf
    BY DEF Enter, parserVars
  <2>2. <<field>> \in Seq(Fields)
    OBVIOUS
  <2>3. buf \o (ring \o <<field>>) = (buf \o ring) \o <<field>>
    BY <1>2, <2>2, ConcatAssociative
  <2> QED
    BY <1>2, <2>1, <2>3, AppendIsConcat DEF Waiting
<1>7. flaws' \in Nat /\ (flaws' = flaws + 1 \/ (flaws' = flaws /\ Meant(field, Upcoming)))
  BY <1>2 DEF Flaw
<1>8. Explained(Append(Waiting, field), line, spoilt, flaws', Upcoming', FALSE)
  BY <1>1, <1>2, <1>7, EnterExplained
<1>9. line' = line /\ spoilt' = spoilt /\ pc' = pc /\ buf' = buf /\ losing' = FALSE
  BY DEF Enter, parserVars
<1> QED
  BY <1>1, <1>5, <1>6, <1>8, <1>9

\* Fields lost, of those in the driver's buffer or the one being sent.
LEMMA LoseIInv ==
  ASSUME LinkIInv, Lose, ring' \in {ring, <<>>}, Upcoming' \in Places,
         report' \in Reports, at' \in 1 .. 4, auto' \in BOOLEAN,
         pc' \in {"loop", "read", "parse"}, UNCHANGED <<buf, line, spoilt>>,
         pc' # "parse" => buf = <<>>
  PROVE  LinkIInv'
<1> USE DEF LinkIInv
<1>1. ring \in Seq(Fields) /\ buf \in Seq(Fields) /\ flaws \in Nat /\ spoilt \in Nat
      /\ losing \in BOOLEAN /\ Waiting \in Seq(Fields) /\ <<>> \in Seq(Fields) /\ Len(<<>>) = 0
      /\ Upcoming \in Places
  BY WaitingTyped, EmptySeq DEF LinkTypeOK, Waiting
<1>2. losing' = TRUE /\ flaws' = (IF losing THEN flaws ELSE flaws + 1) /\ flaws' \in 0 .. MaxFlaws
  <2>1. flaws \in 0 .. MaxFlaws /\ MaxFlaws \in Nat
    BY LinkAssumption DEF LinkTypeOK
  <2> QED
    BY <2>1 DEF Lose, Flaw
<1>3. LinkTypeOK'
  <2>1. ring' \in Seq(Fields) /\ Len(ring') <= RingMax
    <3>1. Len(ring) <= RingMax /\ RingMax \in Nat
      BY LinkAssumption DEF LinkTypeOK
    <3>2. CASE ring' = ring
      BY <1>1, <3>1, <3>2
    <3>3. CASE ring' = <<>>
      <4>1. <<>> \in Seq(Fields) /\ Len(<<>>) <= RingMax
        BY <1>1, <3>1
      <4> QED
        BY <3>3, <4>1
    <3> QED
      BY <3>2, <3>3
  <2> QED
    BY <1>2, <2>1 DEF LinkTypeOK
<1>4. /\ Waiting' \in Seq(Fields) /\ Len(Waiting') <= Len(Waiting)
      /\ \A i \in 1 .. Len(Waiting') : Waiting'[i] = Waiting[i]
  <2>1. CASE ring' = ring
    <3>1. Waiting' = Waiting
      BY <2>1 DEF Waiting
    <3> QED
      BY <1>1, <3>1, LenProperties
  <2>2. CASE ring' = <<>>
    <3>1. Waiting' = buf
      BY <1>1, <2>2, ConcatEmptySeq DEF Waiting
    <3>2. /\ Len(buf) \in Nat /\ Len(ring) \in Nat /\ Len(Waiting) = Len(buf) + Len(ring)
          /\ \A i \in 1 .. Len(buf) + Len(ring) :
               Waiting[i] = IF i <= Len(buf) THEN buf[i] ELSE ring[i - Len(buf)]
      BY <1>1, ConcatProperties, LenProperties DEF Waiting
    <3> QED
      BY <1>1, <3>1, <3>2
  <2> QED
    BY <2>1, <2>2
<1>5. Explained(Waiting', line, spoilt, flaws', Upcoming', TRUE)
  <2>1. \A v \in Seq(Fields), q \in Places :
          Len(v) <= Len(Waiting) /\ (\A i \in 1 .. Len(v) : v[i] = Waiting[i])
            => Explained(v, line, spoilt, IF losing THEN flaws ELSE flaws + 1, q, TRUE)
    BY <1>1, LossExplained
  <2> QED
    BY <1>2, <1>4, <2>1
<1> QED
  BY <1>2, <1>3, <1>5

LEMMA UnchangedIInv ==
  ASSUME LinkIInv, UNCHANGED <<receiverVars, ring, buf, line, spoilt, losing, flaws>>,
         auto' \in BOOLEAN, pc' \in {"loop", "read", "parse"}, pc' # "parse" => buf = <<>>
  PROVE  LinkIInv'
<1>1. LinkTypeOK'
  BY DEF LinkIInv, LinkTypeOK, receiverVars
<1>2. Upcoming' = Upcoming /\ Waiting' = Waiting
  BY DEF Upcoming, Waiting, receiverVars
<1> QED
  BY <1>1, <1>2 DEF LinkIInv

LEMMA FlushIInv ==
  ASSUME LinkIInv, Flush, auto' \in BOOLEAN, pc' \in {"loop", "read", "parse"},
         pc' # "parse" => buf = <<>>, UNCHANGED <<receiverVars, buf, line, spoilt>>
  PROVE  LinkIInv'
<1>1. CASE ring = <<>>
  BY <1>1, UnchangedIInv DEF Flush
<1>2. CASE ring # <<>>
  <2>1. Upcoming' = Upcoming /\ report' = report /\ at' = at
    BY DEF Upcoming, receiverVars
  <2> QED
    BY <1>2, <2>1, LoseIInv DEF Flush, LinkIInv, LinkTypeOK
<1> QED
  BY <1>1, <1>2

LEMMA SendIInv == ASSUME LinkIInv, Send PROVE LinkIInv'
<1> DEFINE field == Sentence(report)[at]
<1>1. Advance /\ UNCHANGED <<auto, parserVars>>
      /\ (Intact(field) \/ (field = Other /\ Flawed(field)) \/ Overflow)
  BY DEF Send
<1>2. field \in Fields
  BY <1>1, AdvanceTyped
<1>3. CASE Intact(field)
  <2>1. Meant(field, Upcoming)
    BY <1>3 DEF Intact, Meant, Intactly, Upcoming
  <2> QED
    BY <1>1, <1>2, <1>3, <2>1, EnterIInv DEF Intact
<1>4. CASE Flawed(field)
  BY <1>1, <1>2, <1>4, EnterIInv DEF Flawed
<1>5. CASE Overflow
  <2>1. /\ report' \in Reports /\ at' \in 1 .. 4 /\ Upcoming' \in Places
        /\ UNCHANGED <<auto, pc, buf, line, spoilt>>
    BY <1>1, AdvanceTyped DEF parserVars
  <2> QED
    BY <1>5, <2>1, LoseIInv DEF Overflow, LinkIInv, LinkTypeOK
<1> QED
  BY <1>1, <1>3, <1>4, <1>5

LEMMA DisturbIInv == ASSUME LinkIInv, Disturb PROVE LinkIInv'
<1>1. PICK field \in Fields : Flawed(field)
  BY DEF Disturb
<1> QED
  BY <1>1, EnterIInv DEF Disturb, Flawed

LEMMA ReadIInv == ASSUME LinkIInv, Read PROVE LinkIInv'
<1> USE DEF LinkIInv
<1> DEFINE k == Available
<1>1. ring \in Seq(Fields) /\ Len(ring) \in Nat /\ Len(ring) <= RingMax /\ buf = <<>>
      /\ ReadMax \in Nat /\ RingMax \in Nat
  BY LinkAssumption, LenProperties DEF LinkTypeOK, Read
<1>2. k \in Nat /\ k <= Len(ring) /\ k <= ReadMax
  BY <1>1 DEF Available
<1>3. buf' = SubSeq(ring, 1, k) /\ ring' = SubSeq(ring, k + 1, Len(ring))
  BY DEF Read
<1> HIDE DEF k
<1>4. \A i \in 1 .. Len(ring) : ring[i] \in Fields
  BY <1>1, ElementOfSeq
<1>5. buf' \in Seq(Fields) /\ Len(buf') = k
  <2>1. \A i \in 1 .. k : ring[i] \in Fields
    BY <1>1, <1>2, <1>4
  <2>2. buf' \in Seq(Fields) /\ Len(buf') = IF 1 <= k THEN k - 1 + 1 ELSE 0
    BY <1>2, <1>3, <2>1, SubSeqProperties
  <2> QED
    BY <1>2, <2>2
<1>6. ring' \in Seq(Fields) /\ Len(ring') <= RingMax
  <2>1. \A i \in k + 1 .. Len(ring) : ring[i] \in Fields
    BY <1>1, <1>2, <1>4
  <2>2. ring' \in Seq(Fields)
        /\ Len(ring') = IF k + 1 <= Len(ring) THEN Len(ring) - (k + 1) + 1 ELSE 0
    BY <1>1, <1>2, <1>3, <2>1, SubSeqProperties
  <2> QED
    BY <1>1, <1>2, <2>2
<1>7. LinkTypeOK'
  BY <1>2, <1>5, <1>6 DEF LinkTypeOK, Read, receiverVars
<1>8. Waiting' = Waiting
  <2>1. Waiting = ring
    BY <1>1, ConcatEmptySeq DEF Waiting
  <2>2. 1 \in 1 .. Len(ring) + 1 /\ k \in 1 - 1 .. Len(ring) /\ Len(ring) \in k .. Len(ring)
    BY <1>1, <1>2
  <2>3. SubSeq(ring, 1, k) \o SubSeq(ring, k + 1, Len(ring)) = SubSeq(ring, 1, Len(ring))
    BY <1>1, <2>2, ConcatAdjacentSubSeq
  <2>4. SubSeq(ring, 1, Len(ring)) = ring
    BY <1>1, SubSeqFull
  <2> QED
    BY <1>3, <2>1, <2>3, <2>4 DEF Waiting
<1>9. Upcoming' = Upcoming /\ UNCHANGED <<line, spoilt, flaws, losing>> /\ pc' = "parse"
  BY DEF Read, Upcoming, receiverVars
<1> QED
  BY <1>7, <1>8, <1>9

LEMMA CollectedTyped ==
  ASSUME line \in Seq(Fields), Len(line) <= LineMax, NEW field \in Fields
  PROVE  Collected(field) \in Seq(Fields) /\ Len(Collected(field)) <= LineMax
<1>1. LineMax \in Nat /\ Len(line) \in Nat /\ <<>> \in Seq(Fields) /\ Len(<<>>) = 0
  BY LinkAssumption, LenProperties, EmptySeq
<1>2. CASE LineEnds(field)
  BY <1>1, <1>2 DEF Collected
<1>3. CASE ~LineEnds(field)
  <2>1. Append(line, field) \in Seq(Fields) /\ Len(Append(line, field)) = Len(line) + 1
    BY AppendProperties
  <2> QED
    BY <1>1, <1>3, <2>1 DEF Collected, LineEnds, Full
<1> QED
  BY <1>2, <1>3

LEMMA ParseFieldIInv == ASSUME LinkIInv, ParseField PROVE LinkIInv'
<1> USE DEF LinkIInv
<1>1. /\ ring \in Seq(Fields) /\ buf \in Seq(Fields) /\ buf # <<>> /\ line \in Seq(Fields)
      /\ flaws \in Nat /\ spoilt \in Nat /\ losing \in BOOLEAN /\ Upcoming \in Places
      /\ Len(line) <= LineMax /\ Len(buf) <= ReadMax /\ Waiting \in Seq(Fields)
  BY WaitingTyped DEF LinkTypeOK, ParseField, Waiting
<1>2. buf' = Tail(buf) /\ line' = Collected(Head(buf)) /\ pc' = pc /\ pc = "parse"
      /\ UNCHANGED <<auto, receiverVars, ring, losing, flaws>>
  BY DEF ParseField, Consume, KeepLink
<1>3. Head(buf) \in Fields /\ Tail(buf) \in Seq(Fields) /\ Len(Tail(buf)) = Len(buf) - 1
      /\ Len(buf) \in Nat
  BY <1>1, HeadTailProperties, LenProperties
<1>4. spoilt' \in {spoilt, spoilt + 1}
      /\ (spoilt' # spoilt =>
            LineEnds(Head(buf)) /\ IsSentence /\ ~ \E x \in Positions : Took(x))
  BY DEF ParseField
<1>5. LinkTypeOK'
  <2>1. ReadMax \in Nat /\ spoilt' \in Nat
    BY <1>1, <1>4, LinkAssumption
  <2>2. line' \in Seq(Fields) /\ Len(line') <= LineMax
    BY <1>1, <1>2, <1>3, CollectedTyped
  <2>3. buf' \in Seq(Fields) /\ Len(buf') <= ReadMax
    BY <1>1, <1>2, <1>3, <2>1
  <2> QED
    BY <1>2, <2>1, <2>2, <2>3 DEF LinkTypeOK, receiverVars
<1>6. Waiting # <<>> /\ Waiting[1] = Head(buf) /\ Waiting' = Tail(Waiting)
  <2>1. Len(buf) \in Nat \ {0} /\ Len(ring) \in Nat /\ Head(buf) = buf[1]
    BY <1>1, EmptySeq, LenProperties
  <2>2. /\ Len(Waiting) = Len(buf) + Len(ring)
        /\ \A i \in 1 .. Len(buf) + Len(ring) :
             Waiting[i] = IF i <= Len(buf) THEN buf[i] ELSE ring[i - Len(buf)]
    BY <1>1, ConcatProperties DEF Waiting
  <2>3. Waiting # <<>> /\ Waiting[1] = Head(buf)
    BY <2>1, <2>2, EmptySeq
  <2>4. /\ Tail(Waiting) \in Seq(Fields) /\ Len(Tail(Waiting)) = Len(Waiting) - 1
        /\ \A i \in 1 .. Len(Tail(Waiting)) : Tail(Waiting)[i] = Waiting[i + 1]
    BY <1>1, <2>3, HeadTailProperties
  <2>5. \A i \in 1 .. Len(Tail(buf)) : Tail(buf)[i] = buf[i + 1]
    BY <1>1, HeadTailProperties
  <2> DEFINE t == Tail(buf) \o ring
  <2>6. /\ t \in Seq(Fields) /\ Len(t) = Len(buf) - 1 + Len(ring)
        /\ \A i \in 1 .. Len(buf) - 1 + Len(ring) :
             t[i] = IF i <= Len(buf) - 1 THEN Tail(buf)[i] ELSE ring[i - (Len(buf) - 1)]
    BY <1>1, <1>3, ConcatProperties
  <2>7. Waiting' = t
    BY <1>2 DEF Waiting
  <2> HIDE DEF t
  <2>8. Len(t) = Len(Tail(Waiting))
    BY <2>1, <2>2, <2>4, <2>6
  <2>9. ASSUME NEW i \in 1 .. Len(t) PROVE t[i] = Tail(Waiting)[i]
    <3>1. i \in 1 .. Len(buf) - 1 + Len(ring) /\ i + 1 \in 1 .. Len(buf) + Len(ring)
      BY <2>1, <2>6
    <3>2. Tail(Waiting)[i] = IF i + 1 <= Len(buf) THEN buf[i + 1] ELSE ring[i + 1 - Len(buf)]
      BY <2>2, <2>4, <2>8, <3>1
    <3>3. CASE i + 1 <= Len(buf)
      <4>1. i <= Len(buf) - 1 /\ i \in 1 .. Len(Tail(buf))
        BY <1>3, <2>1, <3>1, <3>3
      <4> QED
        BY <2>5, <2>6, <3>1, <3>2, <3>3, <4>1
    <3>4. CASE ~(i + 1 <= Len(buf))
      <4>1. ~(i <= Len(buf) - 1) /\ i - (Len(buf) - 1) = i + 1 - Len(buf)
        BY <2>1, <3>1, <3>4
      <4> QED
        BY <2>6, <3>1, <3>2, <3>4, <4>1
    <3> QED
      BY <3>3, <3>4
  <2>10. t = Tail(Waiting)
    BY <2>4, <2>6, <2>8, <2>9, SeqEqual
  <2> QED
    BY <2>3, <2>7, <2>10
<1>7. Explained(Tail(Waiting), line', spoilt', flaws, Upcoming, losing)
  <2>1. PICK s \in {spoilt, spoilt + 1} : s = spoilt'
    BY <1>4
  <2>2. s # spoilt => LineEnds(Waiting[1]) /\ IsSentence /\ ~ \E x \in Positions : Took(x)
    BY <1>4, <1>6, <2>1
  <2>3. Explained(Tail(Waiting), Collected(Waiting[1]), s, flaws, Upcoming, losing)
    BY <1>1, <1>6, <2>2, ConsumeExplained
  <2> QED
    BY <1>2, <1>6, <2>1, <2>3
<1>8. Upcoming' = Upcoming
  BY <1>2 DEF Upcoming, receiverVars
<1> QED
  BY <1>2, <1>5, <1>6, <1>7, <1>8

LEMMA CrashIInv == ASSUME LinkIInv, Crash PROVE LinkIInv'
<1> USE DEF LinkIInv
<1>1. /\ Waiting \in Seq(Fields) /\ spoilt \in Nat /\ flaws \in Nat /\ losing \in BOOLEAN
      /\ Upcoming \in Places /\ <<>> \in Seq(Fields) /\ Len(<<>>) = 0
  BY WaitingTyped, EmptySeq DEF LinkTypeOK, Waiting
<1>2. spoilt <= flaws
  BY <1>1, SpoiltBound
<1>3. Explained(<<>>, <<>>, spoilt, flaws, Upcoming, FALSE)
  BY <1>1, <1>2, EmptyExplained
<1>4. /\ ring' = <<>> /\ buf' = <<>> /\ line' = <<>> /\ losing' = FALSE /\ pc' = "loop"
      /\ UNCHANGED <<auto, receiverVars, flaws, spoilt>>
  BY DEF Crash
<1>5. Waiting' = <<>> /\ Upcoming' = Upcoming
  BY <1>1, <1>4, ConcatEmptySeq DEF Waiting, Upcoming, receiverVars
<1>6. LinkTypeOK'
  <2>1. RingMax \in Nat /\ ReadMax \in Nat /\ LineMax \in Nat
    BY LinkAssumption
  <2>2. /\ ring' \in Seq(Fields) /\ Len(ring') <= RingMax
        /\ buf' \in Seq(Fields) /\ Len(buf') <= ReadMax
        /\ line' \in Seq(Fields) /\ Len(line') <= LineMax
    BY <1>1, <1>4, <2>1
  <2> QED
    BY <1>4, <2>2 DEF LinkTypeOK, receiverVars
<1> QED
  BY <1>3, <1>4, <1>5, <1>6

LEMMA NextLinkIInv == ASSUME LinkIInv, [LinkNext]_linkVars PROVE LinkIInv'
<1> USE DEF LinkIInv, LinkTypeOK
<1>1. CASE UNCHANGED linkVars
  BY <1>1, UnchangedIInv DEF linkVars, parserVars
<1>2. CASE Send
  BY <1>2, SendIInv
<1>3. CASE Disturb
  BY <1>3, DisturbIInv
<1>4. CASE SetConfig
  <2>1. CASE Flush
    BY <1>4, <2>1, FlushIInv DEF SetConfig, parserVars
  <2>2. CASE UNCHANGED <<ring, losing, flaws>>
    BY <1>4, <2>2, UnchangedIInv DEF SetConfig, parserVars
  <2> QED
    BY <1>4, <2>1, <2>2 DEF SetConfig
<1>5. CASE Detect
  <2>1. pc' \in {"loop", "read"} /\ buf = <<>>
    BY <1>5 DEF Detect
  <2> QED
    BY <1>5, <2>1, FlushIInv DEF Detect
<1>6. CASE Ask
  BY <1>6, UnchangedIInv DEF Ask
<1>7. CASE Read
  BY <1>7, ReadIInv
<1>8. CASE ParseField
  BY <1>8, ParseFieldIInv
<1>9. CASE Crash
  BY <1>9, CrashIInv
<1>10. CASE Done
  BY <1>10, UnchangedIInv DEF Done, KeepLink
<1> QED
  BY <1>1, <1>2, <1>3, <1>4, <1>5, <1>6, <1>7, <1>8, <1>9, <1>10 DEF LinkNext

LEMMA LinkInvariance == LinkSpec => []LinkIInv
BY InitLinkIInv, NextLinkIInv, PTL DEF LinkSpec

\* The buffers keep their sizes and the variables their types.
THEOREM LinkTypeCorrect == LinkSpec => []LinkTypeOK
<1>1. LinkIInv => LinkTypeOK
  BY DEF LinkIInv
<1> QED
  BY <1>1, LinkInvariance, PTL

\* Whatever is lost or altered on the line, in the driver's buffer or by the
\* detection of the protocol, and whatever the sizes of the buffers, a flaw costs
\* at most one position.
THEOREM FlawCorrect == LinkSpec => []FlawSpoilsOne
<1>1. LinkIInv => FlawSpoilsOne
  <2> SUFFICES ASSUME LinkIInv PROVE spoilt <= flaws
    BY DEF FlawSpoilsOne
  <2>1. Waiting \in Seq(Fields) /\ spoilt \in Nat /\ flaws \in Nat /\ losing \in BOOLEAN
    BY WaitingTyped DEF LinkIInv, LinkTypeOK, Waiting
  <2> QED
    BY <2>1, SpoiltBound DEF LinkIInv
<1> QED
  BY <1>1, LinkInvariance, PTL

-----------------------------------------------------------------------------
(* RadioTx: the length of a pack. *)

LEMMA KindsTyped == \A k \in Kinds : Message(k) \in Messages
BY DEF Message, Messages

LEMMA FixedBound == ASSUME NEW id \in Identity
                    PROVE  Fixed(id) \in 4 .. 6 /\ AuthPages(id) \in Nat
                           /\ Fixed(id) + AuthPages(id) <= PackMax
<1>1. id.id2 \in BOOLEAN /\ id.self \in BOOLEAN /\ id.sig \in Nat /\ 0 \in Nat
  BY RadioAssumption DEF Identity
<1>2. Fixed(id) \in 4 .. 6
  BY <1>1 DEF Fixed
<1> QED
  BY <1>1, <1>2, RadioAssumption DEF AuthPages

LEMMA Concat == ASSUME NEW s \in Seq(Messages), NEW t \in Seq(Messages)
                PROVE  s \o t \in Seq(Messages) /\ Len(s \o t) = Len(s) + Len(t)
OBVIOUS

LEMMA IfTyped == ASSUME NEW b \in BOOLEAN, NEW k \in Kinds
                 PROVE  If(b, k) \in Seq(Messages) /\ Len(If(b, k)) = (IF b THEN 1 ELSE 0)
<1>1. <<Message(k)>> \in Seq(Messages) /\ <<>> \in Seq(Messages)
  BY KindsTyped
<1> QED
  BY <1>1 DEF If

LEMMA AuthTyped == ASSUME NEW n \in Nat
                   PROVE  Auth(n) \in Seq(Messages) /\ Len(Auth(n)) = n
<1>1. \A i \in 1 .. n : [kind |-> "auth", page |-> i - 1] \in Messages
  BY DEF Messages, Kinds
<1> QED
  BY <1>1 DEF Auth

\* The slots are messages, and as many as a pack holds at most.
LEMMA SlotsFit ==
  ASSUME NEW id \in Identity
  PROVE  Slots(id) \in Seq(Messages) /\ Len(Slots(id)) \in 4 .. PackMax
<1> DEFINE a == <<Message("basic")>>
           b == If(id.id2, "basic2")
           c == <<Message("location")>>
           d == Auth(AuthPages(id))
           e == If(id.self, "self")
           f == <<Message("system"), Message("operator")>>
<1>1. a \in Seq(Messages) /\ c \in Seq(Messages) /\ f \in Seq(Messages)
      /\ Len(a) = 1 /\ Len(c) = 1 /\ Len(f) = 2
  BY KindsTyped DEF Kinds
<1>2. b \in Seq(Messages) /\ Len(b) = (IF id.id2 THEN 1 ELSE 0)
  BY IfTyped DEF Identity, Kinds
<1>3. e \in Seq(Messages) /\ Len(e) = (IF id.self THEN 1 ELSE 0)
  BY IfTyped DEF Identity, Kinds
<1>4. d \in Seq(Messages) /\ Len(d) = AuthPages(id) /\ AuthPages(id) \in Nat
  BY AuthTyped, FixedBound
<1>5. Slots(id) = a \o b \o c \o d \o e \o f
  BY DEF Slots
<1> HIDE DEF a, b, c, d, e, f
<1>6. a \o b \in Seq(Messages) /\ Len(a \o b) = Len(a) + Len(b)
  BY <1>1, <1>2, Concat
<1>7. a \o b \o c \in Seq(Messages) /\ Len(a \o b \o c) = Len(a \o b) + Len(c)
  BY <1>1, <1>6, Concat
<1>8. a \o b \o c \o d \in Seq(Messages) /\ Len(a \o b \o c \o d) = Len(a \o b \o c) + Len(d)
  BY <1>4, <1>7, Concat
<1>9. a \o b \o c \o d \o e \in Seq(Messages)
      /\ Len(a \o b \o c \o d \o e) = Len(a \o b \o c \o d) + Len(e)
  BY <1>3, <1>8, Concat
<1>10. Slots(id) \in Seq(Messages) /\ Len(Slots(id)) = Len(a \o b \o c \o d \o e) + Len(f)
  BY <1>1, <1>5, <1>9, Concat
<1>11. Len(Slots(id)) = Fixed(id) + AuthPages(id)
  BY <1>1, <1>2, <1>3, <1>4, <1>6, <1>7, <1>8, <1>9, <1>10 DEF Fixed, Identity
<1> QED
  BY <1>10, <1>11, FixedBound

\* Before the i-th message fewer than i have been packed.
LEMMA NoOverflow == ident \in Identity => ~Overflows
<1> SUFFICES ASSUME ident \in Identity, NEW i \in 1 .. Len(Slots(ident)),
                    Cardinality({j \in Encoded : j < i}) >= PackMax
             PROVE  FALSE
  BY DEF Overflows
<1> DEFINE before == {j \in Encoded : j < i}
<1>1. Len(Slots(ident)) \in 4 .. PackMax
  BY SlotsFit
<1>2. i \in Nat /\ i <= PackMax /\ PackMax \in Nat
  BY <1>1, RadioAssumption
<1>3. before \subseteq 1 .. i - 1
  BY <1>1, <1>2 DEF Encoded
<1>4. IsFiniteSet(1 .. i - 1) /\ Cardinality(1 .. i - 1) = i - 1
  BY <1>2, FS_Interval
<1>5. Cardinality(before) <= i - 1 /\ Cardinality(before) \in Nat
  BY <1>3, <1>4, FS_Subset, FS_CardinalityType
<1> QED
  BY <1>2, <1>5

IInv == TypeOK /\ PackGoesOut

LEMMA InitIInv == Init => IInv
<1> SUFFICES ASSUME Init PROVE IInv
  OBVIOUS
<1>1. Silence \in Messages
  BY KindsTyped DEF Silence, Kinds
<1>2. 0 \in 0 .. CounterMod - 1
  BY RadioAssumption
<1> QED
  BY <1>1, <1>2 DEF Init, IInv, TypeOK, PackGoesOut

LEMMA LegacyIInv == ASSUME IInv, TransmitLegacy PROVE IInv'
<1> DEFINE n == Len(Slots(ident))
           m == Slot(rotation)
<1>1. ident \in Identity /\ rotation \in 0 .. CounterMod - 1
  BY DEF IInv, TypeOK
<1>2. n \in Nat /\ n > 0 /\ rotation \in Nat /\ CounterMod \in Nat /\ CounterMod > 0
  BY <1>1, SlotsFit, RadioAssumption
<1>3. 1 + (rotation % n) \in 1 .. n
  <2> HIDE DEF n
  <2> QED
    BY <1>2
<1>4. m \in Messages
  BY <1>1, <1>3, SlotsFit DEF Slot
<1>5. (rotation + 1) % CounterMod \in 0 .. CounterMod - 1
  BY <1>2
<1> HIDE DEF m
<1>6. rotation' = (rotation + 1) % CounterMod /\ UNCHANGED <<ident, bad, pack>>
      /\ adv' = IF m \in bad THEN adv ELSE [msg |-> m, of |-> ident]
  BY DEF TransmitLegacy, Advertise, m
<1> QED
  BY <1>1, <1>4, <1>5, <1>6 DEF IInv, TypeOK, PackGoesOut

LEMMA NextIInv == ASSUME IInv, [Next]_vars PROVE IInv'
<1>1. CASE UNCHANGED vars
  BY <1>1 DEF vars, IInv, TypeOK, PackGoesOut
<1>2. CASE NewIdentity
  BY <1>2 DEF NewIdentity, IInv, TypeOK, PackGoesOut
<1>3. CASE NewData
  BY <1>3 DEF NewData, IInv, TypeOK, PackGoesOut
<1>4. CASE TransmitPack
  <2>1. ~Overflows
    BY NoOverflow DEF IInv, TypeOK
  <2>2. pack' \in {"sent", "empty"} /\ UNCHANGED <<ident, bad, rotation, adv>>
    BY <1>4, <2>1 DEF TransmitPack
  <2> QED
    BY <2>2 DEF IInv, TypeOK, PackGoesOut
<1>5. CASE TransmitLegacy
  BY <1>5, LegacyIInv
<1> QED
  BY <1>1, <1>2, <1>3, <1>4, <1>5 DEF Next

LEMMA Invariance == Spec => []IInv
BY InitIInv, NextIInv, PTL DEF Spec

\* The variables keep their types: every turn of the rotation is a message's.
THEOREM TypeCorrect == Spec => []TypeOK
<1>1. IInv => TypeOK
  BY DEF IInv
<1> QED
  BY <1>1, Invariance, PTL

\* Whatever the signature and the optional messages, no pack overflows.
THEOREM PackFits == Spec => []PackGoesOut
<1>1. IInv => PackGoesOut
  BY DEF IInv
<1> QED
  BY <1>1, Invariance, PTL
-----------------------------------------------------------------------------
(* RadioTx: how long a message waits for its turn on Bluetooth 4.           *)

LEMMA Multiples ==
  ASSUME NEW n \in Nat \ {0}, NEW d \in Int
  PROVE  (d >= 1 => d * n >= n) /\ (d <= -1 => d * n <= -n)
BY SMTT(30)

LEMMA Divided ==
  ASSUME NEW n \in Nat \ {0}, NEW r \in Nat
  PROVE  \E q \in Int : r = q * n + (r % n)
<1>1. r \div n \in Int
  BY SMTT(30)
<1>2. r = (r \div n) * n + (r % n)
  BY SMTT(30)
<1> QED
  BY <1>1, <1>2

\* The remainder of the next number is the next remainder, or 0.
LEMMA NextRemainder ==
  ASSUME NEW n \in Nat \ {0}, NEW r \in Nat
  PROVE  (r % n) \in 0 .. n - 1 /\ (r + 1) % n = IF (r % n) + 1 = n THEN 0 ELSE (r % n) + 1
<1> DEFINE s == r + 1
           a == (r % n)
           b == s % n
<1>1. s \in Nat /\ a \in 0 .. n - 1 /\ b \in 0 .. n - 1
  BY SMTT(30)
<1> HIDE DEF s
<1>2. PICK p \in Int : r = p * n + a
  BY Divided
<1>3. PICK q \in Int : s = q * n + b
  BY <1>1, Divided
<1> DEFINE d == q - p
<1>4. d \in Int /\ d * n = q * n - p * n
  BY SMTT(30)
<1> HIDE DEF a, b, d
<1>5. d * n = a + 1 - b
  <2>1. p * n \in Int /\ q * n \in Int
    BY SMT
  <2> QED
    BY <1>1, <1>2, <1>3, <1>4, <2>1 DEF s
<1>6. (d = 0 => d * n = 0) /\ (d >= 1 => d * n >= n) /\ (d <= -1 => d * n <= -n)
  BY <1>4, Multiples
<1>7. b = IF a + 1 = n THEN 0 ELSE a + 1
  BY <1>1, <1>4, <1>5, <1>6
<1> QED
  BY <1>1, <1>7 DEF a, b, s

LEMMA SmallRemainder ==
  ASSUME NEW n \in Nat \ {0}, NEW r \in 0 .. n - 1
  PROVE  (r % n) = r
BY SMTT(30)

\* The advertisements before that of the i-th of n messages if the counter, at
\* r, does not wrap before; and those before it if it may wrap.
Ahead(n, r, i) == IF (r % n) < i THEN i - 1 - (r % n) ELSE n + i - 1 - (r % n)
Turns(n, r, i) == IF r + Ahead(n, r, i) < CounterMod THEN Ahead(n, r, i)
                  ELSE CounterMod - r + i - 1

\* Nobody waits for two rounds, and each advertisement brings a turn nearer.
LEMMA TurnsCount ==
  ASSUME NEW n \in 1 .. PackMax, NEW r \in 0 .. CounterMod - 1, NEW i \in 1 .. n
  PROVE  /\ Turns(n, r, i) \in 0 .. 2 * n - 2
         /\ Turns(n, r, i) = 0 <=> (r % n) = i - 1
         /\ Turns(n, r, i) # 0 => Turns(n, (r + 1) % CounterMod, i) = Turns(n, r, i) - 1
<1> DEFINE m == (r % n)
           a == IF m < i THEN i - 1 - m ELSE n + i - 1 - m
<1>1. /\ n \in Nat \ {0} /\ i \in Nat /\ r \in Nat /\ n >= i /\ i >= 1
      /\ CounterMod \in Nat \ {0} /\ r < CounterMod /\ n <= CounterMod
  BY RadioAssumption
<1>2. m \in 0 .. n - 1 /\ (r + 1) % n = IF m + 1 = n THEN 0 ELSE m + 1
  BY <1>1, NextRemainder
<1> HIDE DEF m
<1>3. Turns(n, r, i) = IF r + a < CounterMod THEN a ELSE CounterMod - r + i - 1
  BY Zenon DEF Turns, Ahead, m
<1>4. a \in 0 .. n - 1 /\ (a = 0 <=> m = i - 1)
  BY <1>1, <1>2
<1>5. Turns(n, r, i) \in 0 .. 2 * n - 2 /\ (Turns(n, r, i) = 0 <=> m = i - 1)
  BY <1>1, <1>3, <1>4
<1>6. CASE r + 1 < CounterMod
  <2>1. (r + 1) % CounterMod = r + 1
    <3>1. r + 1 \in 0 .. CounterMod - 1
      BY <1>1, <1>6
    <3> QED
      BY <1>1, <3>1, SmallRemainder
  <2>2. a # 0 => Ahead(n, r + 1, i) = a - 1
    BY <1>1, <1>2 DEF Ahead
  <2>3. Turns(n, r, i) # 0 => Turns(n, r + 1, i) = Turns(n, r, i) - 1
    BY <1>1, <1>3, <1>4, <2>2 DEF Turns
  <2> QED
    BY <1>5, <2>1, <2>3 DEF m
<1>7. CASE r + 1 = CounterMod
  <2>1. (r + 1) % CounterMod = 0 /\ 0 % n = 0
    BY <1>1, <1>7, SMTT(30)
  <2>2. Turns(n, 0, i) = i - 1
    BY <1>1, <2>1 DEF Turns, Ahead
  <2>3. Turns(n, r, i) # 0 => Turns(n, r, i) = i
    BY <1>1, <1>3, <1>4, <1>7
  <2> QED
    BY <1>1, <1>5, <2>1, <2>2, <2>3 DEF m
<1> QED
  BY <1>1, <1>6, <1>7

Wait(i) == Turns(Len(Slots(ident)), rotation, i)
TurnNearer ==
  \A i \in 1 .. Len(Slots(ident)) :
    /\ Wait(i) \in 0 .. 2 * Len(Slots(ident)) - 2
    /\ TransmitLegacy =>
         IF Wait(i) # 0 THEN Wait(i)' = Wait(i) - 1
         ELSE Slots(ident)[i] \notin bad => adv' = [msg |-> Slots(ident)[i], of |-> ident]

\* While the identity remains, every message's turn comes within two rounds of
\* the rotation, wherever the counter wraps and whatever the encoders refuse: each
\* advertisement brings it one nearer, and the last one is of that message if it
\* encodes (ble_tx.c:130-179).
THEOREM TurnsComeRound == Spec => [][TurnNearer]_vars
<1>1. ASSUME IInv, NEW i \in 1 .. Len(Slots(ident))
      PROVE  /\ Wait(i) \in 0 .. 2 * Len(Slots(ident)) - 2
             /\ TransmitLegacy =>
                  IF Wait(i) # 0 THEN Wait(i)' = Wait(i) - 1
                  ELSE Slots(ident)[i] \notin bad =>
                         adv' = [msg |-> Slots(ident)[i], of |-> ident]
  <2> DEFINE n == Len(Slots(ident))
  <2>1. n \in 1 .. PackMax /\ rotation \in 0 .. CounterMod - 1
    <3>1. ident \in Identity /\ rotation \in 0 .. CounterMod - 1
      BY <1>1 DEF IInv, TypeOK
    <3> QED
      BY <3>1, SlotsFit, RadioAssumption
  <2>2. i \in 1 .. n
    OBVIOUS
  <2> HIDE DEF n
  <2>3. /\ Turns(n, rotation, i) \in 0 .. 2 * n - 2
        /\ Turns(n, rotation, i) = 0 => (rotation % n) = i - 1
        /\ Turns(n, rotation, i) # 0
             => Turns(n, (rotation + 1) % CounterMod, i) = Turns(n, rotation, i) - 1
    BY <2>1, <2>2, TurnsCount
  <2>4. ASSUME TransmitLegacy
        PROVE  /\ n' = n /\ rotation' = (rotation + 1) % CounterMod
               /\ adv' = IF Slots(ident)[1 + (rotation % n)] \in bad THEN adv
                         ELSE [msg |-> Slots(ident)[1 + (rotation % n)], of |-> ident]
    <3>1. ident' = ident
      BY <2>4 DEF TransmitLegacy
    <3>2. n' = n
      BY <3>1 DEF n, Slots, Auth, AuthPages, Fixed, If, Message
    <3> QED
      BY <2>4, <3>2 DEF TransmitLegacy, Advertise, Slot, n
  <2>5. (rotation % n) = i - 1 => 1 + (rotation % n) = i
    BY <2>2
  <2> QED
    BY <2>3, <2>4, <2>5 DEF Wait, n
<1>2. IInv => [TurnNearer]_vars
  BY <1>1 DEF TurnNearer
<1> QED
  BY <1>2, Invariance, PTL DEF Spec
=================================================================================
