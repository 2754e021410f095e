------------------------------ MODULE SerialLink ------------------------------
(***************************************************************************)
(* The serial line of a GNSS receiver: its sentences, cut into fields, on  *)
(* their way through the buffer of the UART driver, past the detection of  *)
(* the protocol, which reads from the same buffer, to the NMEA parser,     *)
(* which takes a limited number of bytes in each iteration of rid_task and *)
(* puts its lines together again.  Bytes are lost when the buffer is full, *)
(* when detection has read them and when the driver is installed anew.     *)
(*                                                                         *)
(* The parser does not verify checksums.                                   *)
(***************************************************************************)
EXTENDS Integers, Sequences

CONSTANTS
  Positions,  \* what a receiver may report
  RingMax,    \* PROTO_BUF_SIZE, the driver's buffer
  ReadMax,    \* what the parser reads at once: 64 bytes
  LineMax,    \* NMEA_BUF_SIZE - 1
  MaxFlaws    \* bound: gaps, altered fields and sentences without a fix

\* A sentence fits in the parser's buffer.
ASSUME LinkAssumption ==
  /\ "nofix" \notin Positions
  /\ {RingMax, ReadMax} \subseteq Nat \ {0} /\ MaxFlaws \in Nat
  /\ LineMax \in Nat /\ LineMax >= 3

VARIABLES
  auto,     \* the configured protocol is RID_PROTOCOL_AUTO
  report,   \* the sentence the receiver is sending
  at,       \* its next field
  ring,     \* the driver's buffer
  pc, buf,  \* rid_task: its step, and what the parser has read
  line,     \* g_nmea_buf
  \* History: read by properties only.
  losing,   \* the field sent last was lost
  flaws,    \* gaps, altered fields and sentences without a fix so far
  spoilt    \* positions taken that the receiver did not send

receiverVars == <<report, at>>
parserVars == <<pc, buf, line, spoilt>>
linkVars == <<auto, receiverVars, ring, parserVars, losing, flaws>>

Reports == Positions \union {"nofix"}
Dollar == <<"$", "nofix">>
Lf == <<"lf", "nofix">>
Other == <<"other", "nofix">>
Fields == {Dollar, Lf, Other} \union ({"lat", "lon"} \X Positions)
\* Empty fields are none to strtok: without a fix there are too few.
Sentence(r) ==
  IF r = "nofix" THEN <<Dollar, Other, Lf>>
                  ELSE <<Dollar, <<"lat", r>>, <<"lon", r>>, Lf>>

LinkTypeOK ==
  /\ auto \in BOOLEAN /\ report \in Reports /\ at \in 1 .. 4
  /\ ring \in Seq(Fields) /\ Len(ring) <= RingMax
  /\ pc \in {"loop", "read", "parse"} /\ buf \in Seq(Fields) /\ Len(buf) <= ReadMax
  /\ line \in Seq(Fields) /\ Len(line) <= LineMax
  /\ losing \in BOOLEAN /\ flaws \in 0 .. MaxFlaws /\ spoilt \in Nat

\* The receiver is already sending when the unit starts.
LinkInit ==
  /\ auto \in BOOLEAN /\ report \in Positions /\ at \in 1 .. Len(Sentence(report))
  /\ ring = <<>> /\ pc = "loop" /\ buf = <<>> /\ line = <<>>
  /\ losing = FALSE /\ flaws = 0 /\ spoilt = 0

-----------------------------------------------------------------------------
(* The receiver and the driver. *)

Flaw == flaws < MaxFlaws /\ flaws' = flaws + 1
\* Fields lost one after the other are one gap.
Lose == losing' = TRUE /\ IF losing THEN UNCHANGED flaws ELSE Flaw

Advance ==
  IF at < Len(Sentence(report)) THEN at' = at + 1 /\ UNCHANGED report
                                ELSE at' = 1 /\ report' \in Reports

\* A field that finds room in the buffer, as it was sent or altered on the line,
\* and one that finds none.
Enter(field) == Len(ring) < RingMax /\ ring' = Append(ring, field) /\ losing' = FALSE
Intact(field) == field # Other /\ Enter(field) /\ UNCHANGED flaws
Flawed(field) == Enter(field) /\ Flaw
Overflow == Len(ring) = RingMax /\ UNCHANGED ring /\ Lose

Send ==
  LET field == Sentence(report)[at]
  IN  /\ Advance
      /\ Intact(field) \/ (field = Other /\ Flawed(field)) \/ Overflow
      /\ UNCHANGED <<auto, parserVars>>
Disturb ==
  /\ Advance
  /\ \E field \in Fields \ {Sentence(report)[at]} : Flawed(field)
  /\ UNCHANGED <<auto, parserVars>>

\* What the driver holds is lost to the parser.
Flush == ring' = <<>> /\ IF ring # <<>> THEN Lose ELSE UNCHANGED <<losing, flaws>>

\* esp_rid_set_config: another protocol, and the driver is installed anew when
\* the baud rate changes.
SetConfig ==
  /\ auto' \in BOOLEAN
  /\ Flush \/ UNCHANGED <<ring, losing, flaws>>
  /\ UNCHANGED <<receiverVars, parserVars>>

-----------------------------------------------------------------------------
(* rid_task: which parser is asked. *)

\* With nothing to read the answer is RID_PROTOCOL_UNKNOWN; what begins like a
\* sentence is NMEA; in anything else a MAVLink frame may be found.
Detect ==
  /\ pc = "loop" /\ auto
  /\ Flush
  /\ pc' \in CASE ring = <<>> -> {"loop"}
               [] ring # <<>> /\ ring[1] = Dollar -> {"read"}
               [] OTHER -> {"read", "loop"}
  /\ UNCHANGED <<auto, receiverVars, buf, line, spoilt>>

Ask ==
  /\ pc = "loop" /\ ~auto
  /\ pc' = "read"
  /\ UNCHANGED <<auto, receiverVars, ring, buf, line, spoilt, losing, flaws>>

-----------------------------------------------------------------------------
(* nmea_parser_get. *)

Available == IF Len(ring) < ReadMax THEN Len(ring) ELSE ReadMax
Read ==
  /\ pc = "read" /\ pc' = "parse"
  /\ buf' = SubSeq(ring, 1, Available)
  /\ ring' = SubSeq(ring, Available + 1, Len(ring))
  /\ UNCHANGED <<auto, receiverVars, line, spoilt, losing, flaws>>

Full == Len(line) >= LineMax
LineEnds(field) == field = Lf \/ Full
\* Mutant: a line is parsed however it begins.
AnyLine == Len(line) >= 2
\* parse_nmea_line: a sentence of the right type and at least one field.
IsSentence == Len(line) >= 2 /\ line[1] = Dollar

\* Mutant: one byte too many is let into the buffer.
CollectedPastEnd(field) == IF field = Lf \/ Len(line) > LineMax THEN <<>> ELSE Append(line, field)
\* Mutant: the buffer is cleared only after a line that was parsed.
CollectedUntilParsed(field) ==
  CASE LineEnds(field) /\ IsSentence -> <<>>
    [] LineEnds(field) /\ ~IsSentence -> line
    [] OTHER -> Append(line, field)
\* The byte that finds the buffer full is dropped.
Collected(field) == IF LineEnds(field) THEN <<>> ELSE Append(line, field)

\* parse_gga takes the position from where it should be.
Took(p) == Len(line) >= 3 /\ line[2] = <<"lat", p>> /\ line[3] = <<"lon", p>>
TooShort == Len(line) = 2

Consume(field) == buf' = Tail(buf) /\ line' = Collected(field)
KeepLink == UNCHANGED <<auto, receiverVars, ring, losing, flaws>>

\* What has other fields than it should is taken for what they say, or for no
\* fix.  With too few, pointers are read that were never set: anything may be
\* found there, or the unit restarts.
ParseField ==
  /\ pc = "parse" /\ buf # <<>>
  /\ Consume(Head(buf))
  /\ IF LineEnds(Head(buf)) /\ IsSentence /\ ~ \E p \in Positions : Took(p)
       THEN spoilt' \in {spoilt, spoilt + 1}
       ELSE UNCHANGED spoilt
  /\ UNCHANGED pc /\ KeepLink

Crash ==
  /\ pc = "parse" /\ buf # <<>>
  /\ LineEnds(Head(buf)) /\ IsSentence /\ TooShort
  /\ pc' = "loop" /\ buf' = <<>> /\ line' = <<>> /\ ring' = <<>> /\ losing' = FALSE
  /\ UNCHANGED <<auto, receiverVars, flaws, spoilt>>

Done ==
  /\ pc = "parse" /\ buf = <<>>
  /\ pc' = "loop"
  /\ UNCHANGED <<buf, line, spoilt>> /\ KeepLink

LinkNext ==
  \/ Send \/ Disturb \/ SetConfig
  \/ Detect \/ Ask \/ Read \/ ParseField \/ Crash \/ Done

LinkSpec == LinkInit /\ [][LinkNext]_linkVars

-----------------------------------------------------------------------------
(* Properties. *)

\* A gap in what the parser is given, an altered field or a sentence without a
\* fix costs at most one position that was not sent: the parser is in step with
\* the receiver again at the next line (nmea_parser.c:87-131).
FlawSpoilsOne == spoilt <= flaws

\* Once nothing is lost or altered any more, and rid_task does not detect the
\* protocol, a receiver that goes on sending has its positions taken again and
\* again, whatever garbage is in the buffer (nmea_parser.c:115-131).
TakesPosition ==
  ParseField /\ LineEnds(Head(buf)) /\ IsSentence /\ \E p \in Positions : Took(p)
LinkRecovers ==
  <>[][flaws' = flaws]_linkVars /\ <>[]~auto /\ []<><<Send>>_linkVars
    => []<><<TakesPosition>>_linkVars

\* rid_task goes on.
LinkFairSpec == LinkSpec /\ WF_linkVars(Detect \/ Ask \/ Read \/ ParseField \/ Done)
===============================================================================
