------------------------------- MODULE HubProofs -------------------------------
(***************************************************************************)
(* The window and the main process agree because their messages keep       *)
(* their order: what the window says of the recording is what the last     *)
(* command on its way will bring about, and what it will show is what the  *)
(* last message on its way tells it.                                       *)
(***************************************************************************)
EXTENDS Hub, TLAPS

RecCommands == {"record", "stop", "reset"}
\* The i-th command on its way is the last about the recording.
Decides(i) == toMain[i] \in RecCommands
              /\ \A j \in 1 .. Len(toMain) : j > i => toMain[j] \notin RecCommands
RecIntended ==
  ui.open /\ ~reopened =>
    /\ (\A i \in 1 .. Len(toMain) : toMain[i] \notin RecCommands) => ui.rec = recording
    /\ \A i \in 1 .. Len(toMain) : Decides(i) => (ui.rec <=> toMain[i] = "record")

\* One pcap session at a time.
OneWifi == wifi.open <= 1 /\ (wifi.open = 1 => wifi.running)
Whole ==
  ble.handlers <= 1 =>
    /\ \A i \in 1 .. Len(session) - 1 : session[i + 1] = session[i] + 1
    /\ recording /\ session # <<>> => session[Len(session)] = heard

Now == [total |-> Len(history), session |-> Len(session)]
NumbersComing ==
  ui.open /\ ~behind =>
    /\ toUi # <<>> => toUi[Len(toUi)] = Now
    /\ toUi = <<>> /\ (\A i \in 1 .. Len(toMain) : toMain[i] # "reset") =>
         ui.total = Len(history) /\ ui.session = Len(session)
ClosedQuiet == ~ui.open => toUi = <<>>

IInv == /\ TypeOK /\ RecIntended /\ OneWifi /\ Whole /\ HistoryAccounts
        /\ NumbersComing /\ ClosedQuiet

Uis == [open : BOOLEAN, rec : BOOLEAN, wifi : BOOLEAN, ble : BOOLEAN,
        total : 0 .. HistoryMax, session : Nat]

-----------------------------------------------------------------------------
LEMMA InitIInv == Init => IInv
<1> SUFFICES ASSUME Init PROVE IInv
  OBVIOUS
<1>1. 0 \in 0 .. HistoryMax
  BY HubAssumption
<1>2. <<>> \in Seq(Commands) /\ <<>> \in Seq(Totals) /\ <<>> \in Seq(Nat) /\ Len(<<>>) = 0
  OBVIOUS
<1>3. TypeOK
  BY <1>1, <1>2 DEF Init, TypeOK, NewWindow
<1>4. RecIntended /\ OneWifi /\ Whole /\ NumbersComing /\ ClosedQuiet
  <2>1. \A i \in 1 .. Len(toMain) : FALSE
    BY <1>2 DEF Init
  <2>2. ui.rec = FALSE /\ ui.total = 0 /\ ui.session = 0 /\ ui.open
    BY DEF Init, NewWindow
  <2>3. RecIntended
    BY <2>1, <2>2 DEF Init, RecIntended
  <2>4. OneWifi /\ Whole /\ ClosedQuiet
    BY <1>2, <2>2 DEF Init, OneWifi, Whole, ClosedQuiet
  <2>5. NumbersComing
    BY <1>2, <2>2 DEF Init, NumbersComing
  <2> QED
    BY <2>3, <2>4, <2>5
<1>5. HistoryAccounts
  <2>1. counts["air"] = 0 /\ counts["pcap"] = 0 /\ Len(history) = 0
    BY <1>2 DEF Init, Sources
  <2> QED
    BY <2>1, HubAssumption DEF HistoryAccounts
<1> QED
  BY <1>3, <1>4, <1>5 DEF IInv

\* A command is added at the end of those on their way.
LEMMA Appended ==
  ASSUME toMain \in Seq(Commands), NEW c \in Commands, toMain' = Append(toMain, c)
  PROVE  /\ toMain' \in Seq(Commands) /\ Len(toMain') = Len(toMain) + 1 /\ Len(toMain) \in Nat
         /\ toMain'[Len(toMain) + 1] = c
         /\ \A i \in 1 .. Len(toMain) : toMain'[i] = toMain[i]
OBVIOUS

\* A click changes the window's own state; the numbers are the tracker's or a
\* reset is on its way, and the recording is as its command says.
LEMMA ClickIInv ==
  ASSUME IInv, NEW shown \in Uis, NEW c \in Commands, Click(shown, c), shown.open,
         c \in RecCommands => (shown.rec <=> c = "record"),
         c \notin RecCommands => shown.rec = ui.rec,
         c # "reset" => shown.total = ui.total /\ shown.session = ui.session
  PROVE  IInv'
<1>1. /\ ui.open /\ ui' = shown /\ toMain' = Append(toMain, c)
      /\ UNCHANGED <<toUi, tracker, captures, behind, reopened>>
  BY DEF Click
<1>2. /\ toMain' \in Seq(Commands) /\ Len(toMain') = Len(toMain) + 1 /\ Len(toMain) \in Nat
      /\ toMain'[Len(toMain) + 1] = c
      /\ \A i \in 1 .. Len(toMain) : toMain'[i] = toMain[i]
  BY <1>1, Appended DEF IInv, TypeOK
<1>3. TypeOK'
  BY <1>1, <1>2 DEF IInv, TypeOK, Uis, tracker, captures
<1>4. OneWifi' /\ Whole' /\ HistoryAccounts' /\ ClosedQuiet'
  BY <1>1 DEF IInv, OneWifi, Whole, HistoryAccounts, ClosedQuiet, tracker, captures
<1>5. NumbersComing'
  <2>1. CASE c = "reset"
    <3>1. toMain'[Len(toMain')] = "reset" /\ Len(toMain') \in 1 .. Len(toMain')
      BY <1>2, <2>1
    <3> QED
      BY <1>1, <3>1 DEF IInv, NumbersComing, Now, tracker
  <2>2. CASE c # "reset"
    <3>1. (\A i \in 1 .. Len(toMain') : toMain'[i] # "reset")
          => \A i \in 1 .. Len(toMain) : toMain[i] # "reset"
      BY <1>2
    <3> QED
      BY <1>1, <2>2, <3>1 DEF IInv, NumbersComing, Now, tracker
  <2> QED
    BY <2>1, <2>2
<1>6. RecIntended'
  <2> SUFFICES ASSUME ~reopened
               PROVE /\ (\A i \in 1 .. Len(toMain') : toMain'[i] \notin RecCommands)
                           => ui'.rec = recording'
                     /\ \A i \in 1 .. Len(toMain') : Decides(i)'
                           => (ui'.rec <=> toMain'[i] = "record")
    BY <1>1 DEF RecIntended
  <2>1. CASE c \in RecCommands
    <3>1. Len(toMain) + 1 \in 1 .. Len(toMain') /\ toMain'[Len(toMain) + 1] \in RecCommands
      BY <1>2, <2>1
    <3>2. ASSUME NEW i \in 1 .. Len(toMain'), Decides(i)' PROVE i = Len(toMain) + 1
      BY <1>2, <3>1, <3>2 DEF Decides
    <3>3. ui'.rec <=> c = "record"
      BY <1>1, <2>1
    <3> QED
      BY <1>2, <3>1, <3>2, <3>3
  <2>2. CASE c \notin RecCommands
    <3>1. ui'.rec = ui.rec /\ recording' = recording
      BY <1>1, <2>2 DEF tracker
    <3>2. (\A i \in 1 .. Len(toMain') : toMain'[i] \notin RecCommands)
          => \A i \in 1 .. Len(toMain) : toMain[i] \notin RecCommands
      BY <1>2
    <3>3. ASSUME NEW i \in 1 .. Len(toMain'), Decides(i)'
          PROVE  i \in 1 .. Len(toMain) /\ Decides(i)
      BY <1>2, <2>2, <3>3 DEF Decides
    <3> QED
      BY <1>1, <1>2, <3>1, <3>2, <3>3 DEF IInv, RecIntended
  <2> QED
    BY <2>1, <2>2
<1> QED
  BY <1>3, <1>4, <1>5, <1>6 DEF IInv

\* A command is taken from the front.
LEMMA Received ==
  ASSUME toMain \in Seq(Commands), NEW c, Receive(c)
  PROVE  /\ toMain' \in Seq(Commands) /\ toMain[1] = c /\ Len(toMain) \in Nat \ {0}
         /\ Len(toMain') = Len(toMain) - 1
         /\ \A i \in 1 .. Len(toMain') : toMain'[i] = toMain[i + 1] /\ i + 1 \in 1 .. Len(toMain)
         /\ UNCHANGED <<ui, toUi, reopened>>
BY DEF Receive

\* What the window intends is preserved by carrying out its next command.
LEMMA ReceiveRec ==
  ASSUME IInv, NEW c, Receive(c), recording' \in BOOLEAN,
         c \in RecCommands => (recording' <=> c = "record"),
         c \notin RecCommands => recording' = recording
  PROVE  RecIntended'
<1>1. /\ toMain[1] = c /\ Len(toMain) \in Nat \ {0} /\ Len(toMain') = Len(toMain) - 1
      /\ \A i \in 1 .. Len(toMain') : toMain'[i] = toMain[i + 1] /\ i + 1 \in 1 .. Len(toMain)
      /\ UNCHANGED <<ui, toUi, reopened>>
  BY Received DEF IInv, TypeOK
<1>2. recording \in BOOLEAN /\ ui.rec \in BOOLEAN
  BY DEF IInv, TypeOK
<1> SUFFICES ASSUME ui.open, ~reopened
             PROVE /\ (\A i \in 1 .. Len(toMain') : toMain'[i] \notin RecCommands)
                         => ui.rec = recording'
                   /\ \A i \in 1 .. Len(toMain') : Decides(i)'
                         => (ui.rec <=> toMain'[i] = "record")
  BY <1>1 DEF RecIntended
<1>3. ASSUME NEW i \in 1 .. Len(toMain'), Decides(i)'
      PROVE  i + 1 \in 1 .. Len(toMain) /\ Decides(i + 1)
  <2>1. i + 1 \in 1 .. Len(toMain) /\ toMain[i + 1] \in RecCommands
    BY <1>1, <1>3 DEF Decides
  <2>2. ASSUME NEW j \in 1 .. Len(toMain), j > i + 1 PROVE toMain[j] \notin RecCommands
    <3>1. j - 1 \in 1 .. Len(toMain') /\ j - 1 > i /\ (j - 1) + 1 = j
      BY <1>1, <2>2
    <3>2. toMain'[j - 1] = toMain[j]
      BY <1>1, <3>1
    <3> QED
      BY <1>3, <3>1, <3>2 DEF Decides
  <2> QED
    BY <2>1, <2>2 DEF Decides
<1>4. \A i \in 1 .. Len(toMain') : Decides(i)' => (ui.rec <=> toMain'[i] = "record")
  BY <1>1, <1>3 DEF IInv, RecIntended
<1>5. ASSUME \A i \in 1 .. Len(toMain') : toMain'[i] \notin RecCommands
      PROVE  ui.rec = recording'
  <2>1. \A j \in 1 .. Len(toMain) : j > 1 => toMain[j] \notin RecCommands
    <3> SUFFICES ASSUME NEW j \in 1 .. Len(toMain), j > 1 PROVE toMain[j] \notin RecCommands
      OBVIOUS
    <3>1. j - 1 \in 1 .. Len(toMain') /\ (j - 1) + 1 = j
      BY <1>1
    <3> QED
      BY <1>1, <1>5, <3>1
  <2>2. 1 \in 1 .. Len(toMain)
    BY <1>1
  <2>3. CASE c \in RecCommands
    <3>1. Decides(1)
      BY <1>1, <2>1, <2>3 DEF Decides
    <3>2. ui.rec <=> c = "record"
      BY <1>1, <2>2, <3>1 DEF IInv, RecIntended
    <3>3. recording' <=> c = "record"
      BY <2>3
    <3> QED
      BY <1>2, <3>2, <3>3
  <2>4. CASE c \notin RecCommands
    <3>1. \A i \in 1 .. Len(toMain) : toMain[i] \notin RecCommands
      BY <1>1, <2>1, <2>4
    <3> QED
      BY <2>4, <3>1 DEF IInv, RecIntended
  <2> QED
    BY <2>3, <2>4
<1> QED
  BY <1>4, <1>5

-----------------------------------------------------------------------------
\* The tracker's commands leave the numbers to the next frame.
LEMMA TrackerStep ==
  ASSUME IInv, NEW c \in RecCommands, Receive(c), behind' = TRUE, UNCHANGED <<wifi, ble>>,
         recording' \in BOOLEAN, recording' <=> c = "record",
         session' = <<>> \/ (session' = session /\ recording' = FALSE),
         \/ UNCHANGED <<history, counts, heard>>
         \/ history' = <<>> /\ counts' = [s \in Sources |-> 0] /\ heard' = 0
  PROVE  IInv'
<1>1. toMain' \in Seq(Commands) /\ UNCHANGED <<ui, toUi, reopened>>
  BY Received DEF IInv, TypeOK
<1>2. <<>> \in Seq(Nat) /\ Len(<<>>) = 0 /\ [s \in Sources |-> 0] \in [Sources -> Nat]
  OBVIOUS
<1>3. session' \in Seq(Nat) /\ history' \in Seq(Nat)
      /\ counts' \in [Sources -> Nat] /\ heard' \in Nat
  <2>1. session \in Seq(Nat) /\ history \in Seq(Nat) /\ counts \in [Sources -> Nat]
        /\ heard \in Nat
    BY DEF IInv, TypeOK
  <2>2. session' \in Seq(Nat)
    BY <1>2, <2>1
  <2>3. CASE UNCHANGED <<history, counts, heard>>
    BY <2>1, <2>2, <2>3
  <2>4. CASE history' = <<>> /\ counts' = [s \in Sources |-> 0] /\ heard' = 0
    BY <1>2, <2>2, <2>4
  <2> QED
    BY <2>3, <2>4
<1>4. TypeOK'
  BY <1>1, <1>3 DEF IInv, TypeOK
<1>5. RecIntended'
  BY ReceiveRec
<1>6. Whole'
  <2>1. CASE session' = <<>>
    BY <1>2, <2>1 DEF Whole
  <2>2. CASE session' = session /\ recording' = FALSE
    BY <2>2 DEF IInv, Whole
  <2> QED
    BY <2>1, <2>2
<1>7. HistoryAccounts'
  <2>1. CASE UNCHANGED <<history, counts>>
    BY <2>1 DEF IInv, HistoryAccounts
  <2>2. CASE history' = <<>> /\ counts' = [s \in Sources |-> 0]
    <3>1. counts'["air"] = 0 /\ counts'["pcap"] = 0 /\ Len(history') = 0
      BY <1>2, <2>2 DEF Sources
    <3> QED
      BY <3>1, HubAssumption DEF HistoryAccounts
  <2> QED
    BY <2>1, <2>2
<1>8. OneWifi' /\ NumbersComing' /\ ClosedQuiet'
  BY <1>1 DEF IInv, OneWifi, NumbersComing, ClosedQuiet
<1> QED
  BY <1>4, <1>5, <1>6, <1>7, <1>8 DEF IInv

LEMMA TrackerIInv == ASSUME IInv, HandleTracker PROVE IInv'
<1>1. behind' = TRUE /\ UNCHANGED <<wifi, ble>>
  BY DEF HandleTracker, captures
<1>2. {"record", "stop", "reset"} = RecCommands
  BY DEF RecCommands
<1>3. CASE Receive("record") /\ StartRecording
  BY <1>1, <1>2, <1>3, TrackerStep DEF StartRecording
<1>4. CASE Receive("stop") /\ StopRecording
  BY <1>1, <1>2, <1>4, TrackerStep DEF StopRecording
<1>5. CASE Receive("reset") /\ Reset
  BY <1>1, <1>2, <1>5, TrackerStep DEF Reset
<1> QED
  BY <1>3, <1>4, <1>5 DEF HandleTracker

\* The steps that leave the tracker, the window and its messages alone.
LEMMA CaptureStateIInv ==
  ASSUME IInv, UNCHANGED <<ui, toUi, tracker, behind, reopened>>,
         toMain' \in Seq(Commands), RecIntended', OneWifi',
         wifi' \in [running : BOOLEAN, open : Nat],
         ble' \in [running : BOOLEAN, handlers : Nat, scanning : BOOLEAN],
         ble.handlers <= ble'.handlers,
         (\A i \in 1 .. Len(toMain') : toMain'[i] # "reset")
           => \A i \in 1 .. Len(toMain) : toMain[i] # "reset"
  PROVE  IInv'
<1>1. TypeOK'
  BY DEF IInv, TypeOK, tracker
<1>2. HistoryAccounts' /\ ClosedQuiet'
  BY DEF IInv, HistoryAccounts, ClosedQuiet, tracker
<1>3. Whole'
  BY DEF IInv, TypeOK, Whole, tracker
<1>4. NumbersComing'
  BY DEF IInv, NumbersComing, Now, tracker
<1> QED
  BY <1>1, <1>2, <1>3, <1>4 DEF IInv

LEMMA CaptureStep ==
  ASSUME IInv, NEW c, Receive(c), c \notin RecCommands, UNCHANGED <<tracker, behind>>,
         OneWifi', wifi' \in [running : BOOLEAN, open : Nat],
         ble' \in [running : BOOLEAN, handlers : Nat, scanning : BOOLEAN],
         ble.handlers <= ble'.handlers
  PROVE  IInv'
<1>1. /\ toMain' \in Seq(Commands) /\ toMain[1] = c /\ Len(toMain) \in Nat \ {0}
      /\ Len(toMain') = Len(toMain) - 1
      /\ \A i \in 1 .. Len(toMain') : toMain'[i] = toMain[i + 1] /\ i + 1 \in 1 .. Len(toMain)
      /\ UNCHANGED <<ui, toUi, reopened>>
  BY Received DEF IInv, TypeOK
<1>2. RecIntended'
  <2>1. recording' = recording /\ recording \in BOOLEAN
    BY DEF tracker, IInv, TypeOK
  <2> QED
    BY <2>1, ReceiveRec
<1>3. (\A i \in 1 .. Len(toMain') : toMain'[i] # "reset")
        => \A i \in 1 .. Len(toMain) : toMain[i] # "reset"
  <2> SUFFICES ASSUME \A i \in 1 .. Len(toMain') : toMain'[i] # "reset",
                      NEW j \in 1 .. Len(toMain)
               PROVE  toMain[j] # "reset"
    OBVIOUS
  <2>1. CASE j = 1
    BY <1>1, <2>1 DEF RecCommands
  <2>2. CASE j # 1
    <3>1. j \in Nat /\ j >= 2 /\ j <= Len(toMain)
      BY <1>1, <2>2
    <3>2. j - 1 \in 1 .. Len(toMain') /\ (j - 1) + 1 = j
      BY <1>1, <3>1
    <3> QED
      BY <1>1, <3>2
  <2> QED
    BY <2>1, <2>2
<1> QED
  BY <1>1, <1>2, <1>3, CaptureStateIInv

LEMMA WifiStep == ASSUME IInv, StartWifi \/ StopWifi
                  PROVE  wifi' \in [running : BOOLEAN, open : Nat] /\ OneWifi'
<1>1. wifi \in [running : BOOLEAN, open : Nat] /\ wifi.open \in Nat /\ OneWifi
  BY DEF IInv, TypeOK
<1>2. CASE StartWifi
  <2>1. CASE UNCHANGED wifi
    BY <1>1, <2>1 DEF OneWifi
  <2>2. CASE ~wifi.running /\ wifi' = [running |-> TRUE, open |-> wifi.open + 1]
    <3>1. wifi.open = 0
      BY <1>1, <2>2 DEF OneWifi
    <3> QED
      BY <2>2, <3>1 DEF OneWifi
  <2> QED
    BY <1>2, <2>1, <2>2 DEF StartWifi
<1>3. CASE StopWifi
  <2>1. (IF wifi.open > 0 THEN wifi.open - 1 ELSE 0) = 0
    BY <1>1 DEF OneWifi
  <2>2. wifi' = [running |-> FALSE, open |-> 0]
    BY <1>3, <2>1 DEF StopWifi
  <2> QED
    BY <2>2 DEF OneWifi
<1> QED
  BY <1>2, <1>3

LEMMA BleStep ==
  ASSUME IInv, StartBle \/ StopBle \/ UNCHANGED ble \/ ble' = [ble EXCEPT !.scanning = ~@]
  PROVE  ble' \in [running : BOOLEAN, handlers : Nat, scanning : BOOLEAN]
         /\ ble.handlers <= ble'.handlers
<1>1. ble \in [running : BOOLEAN, handlers : Nat, scanning : BOOLEAN] /\ ble.handlers \in Nat
  BY DEF IInv, TypeOK
<1>2. CASE UNCHANGED ble
  BY <1>1, <1>2
<1>3. ASSUME NEW r \in BOOLEAN, NEW h \in Nat, NEW t \in BOOLEAN, ble.handlers <= h,
             ble' = [running |-> r, handlers |-> h, scanning |-> t]
      PROVE  ble' \in [running : BOOLEAN, handlers : Nat, scanning : BOOLEAN]
             /\ ble.handlers <= ble'.handlers
  <2>1. ble'.handlers = h
    BY <1>3
  <2> QED
    BY <1>3, <2>1
<1>4. ble.running \in BOOLEAN /\ ble.scanning \in BOOLEAN /\ ble.handlers <= ble.handlers
      /\ ble.handlers <= ble.handlers + 1 /\ ble.handlers + 1 \in Nat
      /\ ble = [running |-> ble.running, handlers |-> ble.handlers, scanning |-> ble.scanning]
  BY <1>1
<1>5. CASE StartBle
  <2>1. CASE UNCHANGED ble
    BY <1>1, <2>1
  <2>2. CASE ble' = [ble EXCEPT !.running = TRUE, !.handlers = @ + 1]
    <3>1. ble' = [running |-> TRUE, handlers |-> ble.handlers + 1, scanning |-> ble.scanning]
      BY <1>4, <2>2
    <3> QED
      BY <1>3, <1>4, <3>1
  <2> QED
    BY <1>5, <2>1, <2>2 DEF StartBle
<1>6. CASE StopBle
  <2>1. (ble.scanning /\ ~ble.running) \in BOOLEAN
    OBVIOUS
  <2>2. ble' = [running |-> FALSE, handlers |-> ble.handlers,
                scanning |-> ble.scanning /\ ~ble.running]
    BY <1>4, <1>6 DEF StopBle
  <2>3. PICK t \in BOOLEAN : ble' = [running |-> FALSE, handlers |-> ble.handlers, scanning |-> t]
    BY <2>1, <2>2, Zenon
  <2> QED
    BY <1>1, <1>3, <1>4, <2>3
<1>7. CASE ble' = [ble EXCEPT !.scanning = ~@]
  <2>1. (~ble.scanning) \in BOOLEAN
    OBVIOUS
  <2>2. ble' = [running |-> ble.running, handlers |-> ble.handlers, scanning |-> ~ble.scanning]
    BY <1>4, <1>7
  <2>3. PICK t \in BOOLEAN :
          ble' = [running |-> ble.running, handlers |-> ble.handlers, scanning |-> t]
    BY <2>1, <2>2, Zenon
  <2> QED
    BY <1>1, <1>3, <1>4, <2>3
<1> QED
  BY <1>2, <1>5, <1>6, <1>7

LEMMA HandleCaptureIInv == ASSUME IInv, HandleCapture PROVE IInv'
<1>1. UNCHANGED <<tracker, behind>>
  BY DEF HandleCapture
<1>2. {"wifi on", "wifi off", "ble on", "ble off"} \intersect RecCommands = {}
  BY DEF RecCommands
<1>3. UNCHANGED wifi => wifi' \in [running : BOOLEAN, open : Nat] /\ OneWifi'
  BY DEF IInv, TypeOK, OneWifi
<1>4. CASE Receive("wifi on") /\ StartWifi /\ UNCHANGED ble
  BY <1>1, <1>2, <1>4, WifiStep, BleStep, CaptureStep
<1>5. CASE Receive("wifi off") /\ StopWifi /\ UNCHANGED ble
  BY <1>1, <1>2, <1>5, WifiStep, BleStep, CaptureStep
<1>6. CASE Receive("ble on") /\ StartBle /\ UNCHANGED wifi
  BY <1>1, <1>2, <1>3, <1>6, BleStep, CaptureStep
<1>7. CASE Receive("ble off") /\ StopBle /\ UNCHANGED wifi
  BY <1>1, <1>2, <1>3, <1>7, BleStep, CaptureStep
<1> QED
  BY <1>4, <1>5, <1>6, <1>7 DEF HandleCapture

LEMMA AdapterIInv == ASSUME IInv, Adapter PROVE IInv'
<1>1. UNCHANGED <<ui, toMain, toUi, tracker, wifi, behind, reopened>>
  BY DEF Adapter
<1>2. ble' = [ble EXCEPT !.scanning = ~@]
  BY DEF Adapter
<1>3. ble' \in [running : BOOLEAN, handlers : Nat, scanning : BOOLEAN]
      /\ ble.handlers <= ble'.handlers
  BY <1>2, BleStep
<1>4. RecIntended' /\ OneWifi'
  BY <1>1 DEF IInv, RecIntended, Decides, OneWifi, tracker
<1> QED
  BY <1>1, <1>3, <1>4, CaptureStateIInv DEF IInv, TypeOK

-----------------------------------------------------------------------------
(* Frames. *)

LEMMA LastLen ==
  ASSUME NEW s \in Seq(Nat)
  PROVE  Last(s) \in Seq(Nat)
         /\ Len(Last(s)) = (IF Len(s) > HistoryMax THEN HistoryMax ELSE Len(s))
<1>1. Len(s) \in Nat /\ HistoryMax \in Nat \ {0}
  BY HubAssumption
<1>2. CASE Len(s) > HistoryMax
  <2> DEFINE k == Len(s) - HistoryMax + 1
  <2>1. k \in 1 .. Len(s) /\ Len(s) \in 1 .. Len(s) /\ Len(s) - k + 1 = HistoryMax
    BY <1>1, <1>2
  <2>2. SubSeq(s, k, Len(s)) \in Seq(Nat) /\ Len(SubSeq(s, k, Len(s))) = Len(s) - k + 1
    <3> HIDE DEF k
    <3> QED
      BY <1>1, <2>1
  <2> QED
    BY <1>2, <2>1, <2>2 DEF Last
<1>3. CASE ~(Len(s) > HistoryMax)
  BY <1>3 DEF Last
<1> QED
  BY <1>2, <1>3

LEMMA CopiesTyped ==
  ASSUME heard \in Nat, NEW n \in Nat
  PROVE  Copies(n) \in Seq(Nat) /\ Len(Copies(n)) = n
         /\ \A i \in 1 .. n : Copies(n)[i] = heard + 1
BY DEF Copies

LEMMA Concat ==
  ASSUME NEW s \in Seq(Nat), NEW t \in Seq(Nat)
  PROVE  /\ s \o t \in Seq(Nat) /\ Len(s \o t) = Len(s) + Len(t)
         /\ Len(s) \in Nat /\ Len(t) \in Nat
         /\ \A i \in 1 .. Len(s) : (s \o t)[i] = s[i]
         /\ \A i \in 1 .. Len(t) : (s \o t)[Len(s) + i] = t[i]
OBVIOUS

\* A frame that n listeners hand to the tracker.
LEMMA Taken ==
  ASSUME IInv, NEW source \in Sources, NEW n \in Nat \ {0}, Take(source, n), UNCHANGED ble,
         ble.handlers <= 1 => n = 1
  PROVE  /\ session' \in Seq(Nat) /\ history' \in Seq(Nat) /\ counts' \in [Sources -> Nat]
         /\ heard' \in Nat /\ UNCHANGED recording
         /\ Whole' /\ HistoryAccounts'
<1>1. /\ heard \in Nat /\ session \in Seq(Nat) /\ history \in Seq(Nat)
      /\ counts \in [Sources -> Nat] /\ recording \in BOOLEAN
  BY DEF IInv, TypeOK
<1>2. /\ heard' = heard + 1 /\ history' = Last(history \o Copies(n))
      /\ counts' = [counts EXCEPT ![source] = @ + n] /\ recording' = recording
      /\ session' = IF recording THEN session \o Copies(n) ELSE session
  BY DEF Take
<1>3. Copies(n) \in Seq(Nat) /\ Len(Copies(n)) = n /\ \A i \in 1 .. n : Copies(n)[i] = heard + 1
  BY <1>1, CopiesTyped
<1>4. /\ session \o Copies(n) \in Seq(Nat) /\ Len(session \o Copies(n)) = Len(session) + n
      /\ Len(session) \in Nat
      /\ \A i \in 1 .. Len(session) : (session \o Copies(n))[i] = session[i]
      /\ \A i \in 1 .. n : (session \o Copies(n))[Len(session) + i] = heard + 1
  <2> DEFINE c == Copies(n)
  <2>1. c \in Seq(Nat) /\ Len(c) = n /\ \A i \in 1 .. n : c[i] = heard + 1
    BY <1>3
  <2> HIDE DEF c
  <2>2. /\ session \o c \in Seq(Nat) /\ Len(session \o c) = Len(session) + Len(c)
        /\ Len(session) \in Nat
        /\ \A i \in 1 .. Len(session) : (session \o c)[i] = session[i]
        /\ \A i \in 1 .. Len(c) : (session \o c)[Len(session) + i] = c[i]
    BY <1>1, <2>1, Concat
  <2>3. /\ session \o c \in Seq(Nat) /\ Len(session \o c) = Len(session) + n
        /\ Len(session) \in Nat
        /\ \A i \in 1 .. Len(session) : (session \o c)[i] = session[i]
        /\ \A i \in 1 .. n : (session \o c)[Len(session) + i] = heard + 1
    BY <2>1, <2>2
  <2> QED
    BY <2>3 DEF c
<1>5. history \o Copies(n) \in Seq(Nat) /\ Len(history \o Copies(n)) = Len(history) + n
      /\ Len(history) \in Nat
  <2> DEFINE c == Copies(n)
  <2>1. c \in Seq(Nat) /\ Len(c) = n
    BY <1>3
  <2> HIDE DEF c
  <2>2. history \o c \in Seq(Nat) /\ Len(history \o c) = Len(history) + Len(c)
        /\ Len(history) \in Nat
    BY <1>1, <2>1, Concat
  <2> QED
    BY <2>1, <2>2 DEF c
<1>6. history' \in Seq(Nat)
      /\ Len(history') = (IF Len(history) + n > HistoryMax THEN HistoryMax ELSE Len(history) + n)
  BY <1>2, <1>5, LastLen
<1>7. counts' \in [Sources -> Nat]
  BY <1>1, <1>2
<1>8. HistoryAccounts'
  <2>1. counts["air"] \in Nat /\ counts["pcap"] \in Nat /\ HistoryMax \in Nat
    BY <1>1, HubAssumption DEF Sources
  <2>2. counts'["air"] + counts'["pcap"] = counts["air"] + counts["pcap"] + n
    <3>1. CASE source = "air"
      BY <1>1, <1>2, <2>1, <3>1 DEF Sources
    <3>2. CASE source = "pcap"
      BY <1>1, <1>2, <2>1, <3>2 DEF Sources
    <3> QED
      BY <3>1, <3>2 DEF Sources
  <2>3. Len(history) = (IF counts["air"] + counts["pcap"] > HistoryMax THEN HistoryMax
                        ELSE counts["air"] + counts["pcap"])
    BY DEF IInv, HistoryAccounts
  <2> QED
    BY <1>6, <2>1, <2>2, <2>3 DEF HistoryAccounts
<1>9. Whole'
  <2> SUFFICES ASSUME ble.handlers <= 1
               PROVE  /\ \A i \in 1 .. Len(session') - 1 : session'[i + 1] = session'[i] + 1
                      /\ recording' /\ session' # <<>> => session'[Len(session')] = heard'
    BY DEF Whole
  <2>1. /\ \A i \in 1 .. Len(session) - 1 : session[i + 1] = session[i] + 1
        /\ recording /\ session # <<>> => session[Len(session)] = heard
    BY DEF IInv, Whole
  <2>2. CASE ~recording
    BY <1>2, <2>1, <2>2
  <2>3. CASE recording
    <3> DEFINE t == session \o Copies(n)
               l == Len(session)
    <3>1. session' = t /\ n = 1
      BY <1>2, <2>3
    <3>2. Len(t) = l + 1 /\ l \in Nat /\ t[l + 1] = heard + 1
          /\ \A i \in 1 .. l : t[i] = session[i]
      BY <1>4, <3>1
    <3>3. l > 0 => session[l] = heard
      BY <1>1, <2>1, <2>3
    <3> HIDE DEF t, l
    <3>4. ASSUME NEW i \in 1 .. Len(t) - 1 PROVE t[i + 1] = t[i] + 1
      <4>1. CASE i = l
        BY <3>2, <3>3, <4>1
      <4>2. CASE i # l
        <5>1. i \in 1 .. l - 1 /\ i + 1 \in 1 .. l /\ i \in 1 .. l
          BY <3>2, <4>2
        <5>2. session[i + 1] = session[i] + 1
          BY <2>1, <5>1 DEF l
        <5> QED
          BY <3>2, <5>1, <5>2
      <4> QED
        BY <4>1, <4>2
    <3> QED
      BY <1>2, <3>1, <3>2, <3>4
  <2> QED
    BY <1>1, <2>2, <2>3
<1> QED
  BY <1>1, <1>2, <1>4, <1>6, <1>7, <1>8, <1>9

LEMMA ToldTyped ==
  ASSUME IInv, NEW i \in Nat
  PROVE  Told(i) \in Totals /\ Len(session) + i \in Nat
         /\ Told(i) = [total |-> Len(Last(history \o Copies(i))),
                       session |-> IF recording THEN Len(session) + i ELSE Len(session)]
<1>1. heard \in Nat /\ session \in Seq(Nat) /\ history \in Seq(Nat) /\ Len(session) \in Nat
      /\ HistoryMax \in Nat
  BY HubAssumption DEF IInv, TypeOK
<1> DEFINE c == Copies(i)
<1>0. c \in Seq(Nat)
  BY <1>1, CopiesTyped
<1> HIDE DEF c
<1> DEFINE h == history \o c
<1>2. h \in Seq(Nat) /\ Len(h) \in Nat
  BY <1>0, <1>1, Concat
<1> HIDE DEF h
<1>3. Len(Last(h)) \in 0 .. HistoryMax
  <2>1. Len(Last(h)) = (IF Len(h) > HistoryMax THEN HistoryMax ELSE Len(h))
    BY <1>2, LastLen
  <2>2. \A l \in Nat : (IF l > HistoryMax THEN HistoryMax ELSE l) \in 0 .. HistoryMax
    BY <1>1
  <2> QED
    BY <1>2, <2>1, <2>2
<1>4. Len(session) + i \in Nat
  BY <1>1
<1> QED
  BY <1>1, <1>3, <1>4 DEF Told, Totals, h, c

LEMMA CaptureIInv == ASSUME IInv, Capture PROVE IInv'
<1>1. PICK n \in {wifi.open, IF ble.scanning THEN ble.handlers ELSE 0} \ {0} :
        /\ Take("air", n)
        /\ toUi' = IF ui.open THEN toUi \o Tell(n) ELSE toUi
        /\ behind' = (behind /\ ~ui.open)
        /\ UNCHANGED <<ui, toMain, captures, reopened>>
  BY DEF Capture
<1>2. wifi.open \in Nat /\ ble.handlers \in Nat /\ wifi.open <= 1
  BY DEF IInv, TypeOK, OneWifi
<1>3. n \in Nat \ {0} /\ (ble.handlers <= 1 => n = 1)
  BY <1>1, <1>2
<1>4. UNCHANGED <<ui, toMain, wifi, ble, reopened>>
  BY <1>1 DEF captures
<1>5. /\ session' \in Seq(Nat) /\ history' \in Seq(Nat) /\ counts' \in [Sources -> Nat]
      /\ heard' \in Nat /\ UNCHANGED recording
      /\ Whole' /\ HistoryAccounts'
  BY <1>1, <1>3, <1>4, Taken DEF Sources
<1>6. toUi \in Seq(Totals) /\ Len(toUi) \in Nat /\ behind \in BOOLEAN /\ ui.open \in BOOLEAN
  BY DEF IInv, TypeOK
<1>7. behind' \in BOOLEAN
  <2>1. (behind /\ ~ui.open) \in BOOLEAN
    OBVIOUS
  <2> QED
    BY <1>1, <2>1
<1> DEFINE t == Tell(n)
<1>8. t \in Seq(Totals) /\ Len(t) = n /\ t[n] = Told(n)
  <2>1. \A i \in 1 .. n : Told(i) \in Totals
    BY <1>3, ToldTyped
  <2> QED
    BY <1>3, <2>1 DEF Tell
<1>9. Told(n) = Now'
  <2>1. history' = Last(history \o Copies(n))
        /\ session' = IF recording THEN session \o Copies(n) ELSE session
    BY <1>1 DEF Take
  <2>2. recording => Len(session \o Copies(n)) = Len(session) + n
    <3>1. heard \in Nat /\ session \in Seq(Nat)
      BY DEF IInv, TypeOK
    <3>2. Copies(n) \in Seq(Nat) /\ Len(Copies(n)) = n
      BY <1>3, <3>1, CopiesTyped
    <3> DEFINE c == Copies(n)
    <3>3. c \in Seq(Nat) /\ Len(c) = n
      BY <3>2
    <3> HIDE DEF c
    <3>4. Len(session \o c) = Len(session) + n
      BY <3>1, <3>3, Concat
    <3> QED
      BY <3>4 DEF c
  <2>3. Len(session') = IF recording THEN Len(session) + n ELSE Len(session)
    BY <2>1, <2>2
  <2> QED
    BY <2>1, <2>3 DEF Told, Now
<1>10. ui.open => /\ toUi' \in Seq(Totals) /\ toUi' # <<>>
                  /\ toUi'[Len(toUi')] = Now'
  <2> SUFFICES ASSUME ui.open
               PROVE  toUi' \in Seq(Totals) /\ toUi' # <<>> /\ toUi'[Len(toUi')] = Now'
    OBVIOUS
  <2>1. toUi' = toUi \o t
    BY <1>1
  <2> HIDE DEF t
  <2>2. toUi \o t \in Seq(Totals) /\ Len(toUi \o t) = Len(toUi) + n
        /\ (toUi \o t)[Len(toUi) + n] = t[n]
    BY <1>3, <1>6, <1>8
  <2>3. Len(toUi \o t) # 0
    BY <1>3, <1>6, <2>2
  <2>4. toUi \o t # <<>>
    BY <2>3
  <2> QED
    BY <1>8, <1>9, <2>1, <2>2, <2>4
<1>11. ~ui.open => toUi' = toUi
  BY <1>1
<1>12. TypeOK'
  BY <1>4, <1>5, <1>6, <1>7, <1>10, <1>11 DEF IInv, TypeOK
<1>13. RecIntended' /\ OneWifi'
  BY <1>4, <1>5 DEF IInv, RecIntended, Decides, OneWifi
<1>14. NumbersComing' /\ ClosedQuiet'
  BY <1>4, <1>10, <1>11 DEF IInv, NumbersComing, ClosedQuiet
<1> QED
  BY <1>5, <1>12, <1>13, <1>14 DEF IInv

LEMMA ImportIInv == ASSUME IInv, ImportPcap PROVE IInv'
<1>1. Take("pcap", 1) /\ behind' = TRUE /\ UNCHANGED <<ui, toMain, toUi, wifi, ble, reopened>>
  BY DEF ImportPcap, captures
<1>2. /\ session' \in Seq(Nat) /\ history' \in Seq(Nat) /\ counts' \in [Sources -> Nat]
      /\ heard' \in Nat /\ UNCHANGED recording
      /\ Whole' /\ HistoryAccounts'
  BY <1>1, Taken DEF Sources
<1>3. TypeOK'
  BY <1>1, <1>2 DEF IInv, TypeOK
<1>4. RecIntended' /\ OneWifi' /\ NumbersComing' /\ ClosedQuiet'
  BY <1>1, <1>2 DEF IInv, RecIntended, Decides, OneWifi, NumbersComing, ClosedQuiet
<1> QED
  BY <1>2, <1>3, <1>4 DEF IInv

-----------------------------------------------------------------------------
(* The window. *)

LEMMA ShowIInv == ASSUME IInv, Show PROVE IInv'
<1>1. /\ ui.open /\ toUi # <<>> /\ toUi' = Tail(toUi)
      /\ ui' = [ui EXCEPT !.total = Head(toUi).total, !.session = Head(toUi).session]
      /\ UNCHANGED <<toMain, tracker, captures, behind, reopened>>
  BY DEF Show
<1>2. toUi \in Seq(Totals) /\ ui \in Uis
  BY DEF IInv, TypeOK, Uis
<1>3. /\ Head(toUi) \in Totals /\ Tail(toUi) \in Seq(Totals) /\ Head(toUi) = toUi[1]
      /\ Len(toUi) \in Nat \ {0} /\ Len(Tail(toUi)) = Len(toUi) - 1
      /\ \A i \in 1 .. Len(toUi) - 1 : Tail(toUi)[i] = toUi[i + 1]
  BY <1>1, <1>2
<1>4. ui' \in Uis /\ ui'.rec = ui.rec /\ ui'.open = ui.open
      /\ ui'.total = Head(toUi).total /\ ui'.session = Head(toUi).session
  BY <1>1, <1>2, <1>3 DEF Uis, Totals
<1>5. TypeOK'
  BY <1>1, <1>3, <1>4 DEF IInv, TypeOK, Uis, tracker, captures
<1>6. RecIntended' /\ OneWifi' /\ Whole' /\ HistoryAccounts' /\ ClosedQuiet'
  BY <1>1, <1>4 DEF IInv, RecIntended, Decides, OneWifi, Whole, HistoryAccounts, ClosedQuiet,
     tracker, captures
<1>7. NumbersComing'
  <2> SUFFICES ASSUME ~behind
               PROVE  /\ toUi' # <<>> => toUi'[Len(toUi')] = Now
                      /\ toUi' = <<>> => ui'.total = Len(history) /\ ui'.session = Len(session)
    BY <1>1, <1>4 DEF NumbersComing, Now, tracker
  <2>1. toUi[Len(toUi)] = Now
    BY <1>1 DEF IInv, NumbersComing
  <2>2. CASE Len(toUi) = 1
    <3>1. Head(toUi) = Now /\ toUi' = <<>>
      BY <1>1, <1>3, <2>1, <2>2
    <3> QED
      BY <1>4, <3>1 DEF Now
  <2>3. CASE Len(toUi) # 1
    <3>1. Len(toUi) - 1 \in 1 .. Len(toUi) - 1 /\ Len(toUi') = Len(toUi) - 1
      BY <1>1, <1>3, <2>3
    <3>2. toUi'[Len(toUi')] = toUi[(Len(toUi) - 1) + 1] /\ (Len(toUi) - 1) + 1 = Len(toUi)
      BY <1>1, <1>3, <3>1
    <3>3. toUi' # <<>>
      BY <3>1
    <3> QED
      BY <2>1, <3>2, <3>3
  <2> QED
    BY <2>2, <2>3
<1> QED
  BY <1>5, <1>6, <1>7 DEF IInv

LEMMA ClickedIInv ==
  ASSUME IInv,
         ToggleRecording \/ ToggleWifi \/ ToggleBle \/ ResetSession \/ FactoryReset
  PROVE  IInv'
<1>1. ui \in Uis /\ 0 \in 0 .. HistoryMax /\ 0 \in Nat
  BY HubAssumption DEF IInv, TypeOK, Uis
<1>2. ui.open
  BY DEF ToggleRecording, ToggleWifi, ToggleBle, ResetSession, FactoryReset, Click
<1>3. ui.rec \in BOOLEAN
  BY <1>1 DEF Uis
<1>4. CASE ToggleRecording
  <2> DEFINE u == [ui EXCEPT !.rec = ~@]
             c == IF ui.rec THEN "stop" ELSE "record"
  <2>1. u \in Uis /\ u.open /\ u.rec = ~ui.rec /\ u.total = ui.total /\ u.session = ui.session
    BY <1>1, <1>2 DEF Uis
  <2>2. c \in Commands /\ c \in RecCommands /\ c # "reset" /\ (u.rec <=> c = "record")
    BY <1>3, <2>1 DEF Commands, RecCommands
  <2>3. Click(u, c)
    BY <1>4 DEF ToggleRecording
  <2> HIDE DEF u, c
  <2> QED
    BY <2>1, <2>2, <2>3, ClickIInv
<1>5. CASE ToggleWifi
  <2> DEFINE u == [ui EXCEPT !.wifi = ~@]
             c == IF ui.wifi THEN "wifi off" ELSE "wifi on"
  <2>1. u \in Uis /\ u.open /\ u.rec = ui.rec /\ u.total = ui.total /\ u.session = ui.session
    BY <1>1, <1>2 DEF Uis
  <2>2. c \in Commands /\ c \notin RecCommands
    BY DEF Commands, RecCommands
  <2>3. Click(u, c)
    BY <1>5 DEF ToggleWifi
  <2> HIDE DEF u, c
  <2> QED
    BY <2>1, <2>2, <2>3, ClickIInv
<1>6. CASE ToggleBle
  <2> DEFINE u == [ui EXCEPT !.ble = ~@]
             c == IF ui.ble THEN "ble off" ELSE "ble on"
  <2>1. u \in Uis /\ u.open /\ u.rec = ui.rec /\ u.total = ui.total /\ u.session = ui.session
    BY <1>1, <1>2 DEF Uis
  <2>2. c \in Commands /\ c \notin RecCommands
    BY DEF Commands, RecCommands
  <2>3. Click(u, c)
    BY <1>6 DEF ToggleBle
  <2> HIDE DEF u, c
  <2> QED
    BY <2>1, <2>2, <2>3, ClickIInv
<1>7. "reset" \in Commands /\ "reset" \in RecCommands
  BY DEF Commands, RecCommands
<1>8. CASE ResetSession
  <2>1. Cleared \in Uis /\ Cleared.open /\ Cleared.rec = FALSE
    BY <1>1, <1>2 DEF Uis, Cleared
  <2> QED
    BY <1>7, <1>8, <2>1, ClickIInv DEF ResetSession
<1>9. CASE FactoryReset
  <2> DEFINE u == [Cleared EXCEPT !.wifi = FALSE, !.ble = FALSE]
  <2>1. u \in Uis /\ u.open /\ u.rec = FALSE
    BY <1>1, <1>2 DEF Uis, Cleared
  <2>2. Click(u, "reset")
    BY <1>9 DEF FactoryReset
  <2> HIDE DEF u
  <2> QED
    BY <1>7, <2>1, <2>2, ClickIInv
<1> QED
  BY <1>4, <1>5, <1>6, <1>8, <1>9

LEMMA CloseIInv == ASSUME IInv, Close PROVE IInv'
<1>1. /\ ui' = [NewWindow EXCEPT !.open = FALSE] /\ toUi' = <<>>
      /\ wifi' = [running |-> FALSE, open |-> IF wifi.open > 0 THEN wifi.open - 1 ELSE 0]
      /\ ble' = [ble EXCEPT !.running = FALSE, !.scanning = @ /\ ~ble.running]
      /\ UNCHANGED <<toMain, tracker, behind, reopened>>
  BY DEF Close
<1>2. ui' \in Uis /\ ~ui'.open
  <2>1. 0 \in 0 .. HistoryMax
    BY HubAssumption
  <2>2. ui' = [open |-> FALSE, rec |-> FALSE, wifi |-> FALSE, ble |-> FALSE,
               total |-> 0, session |-> 0]
    BY <1>1 DEF NewWindow
  <2> QED
    BY <2>1, <2>2 DEF Uis
<1>3. wifi' \in [running : BOOLEAN, open : Nat] /\ OneWifi'
  BY <1>1, WifiStep DEF StopWifi
<1>4. ble' \in [running : BOOLEAN, handlers : Nat, scanning : BOOLEAN]
      /\ ble.handlers <= ble'.handlers
  BY <1>1, BleStep DEF StopBle
<1>5. <<>> \in Seq(Totals)
  OBVIOUS
<1>6. TypeOK'
  BY <1>1, <1>2, <1>3, <1>4, <1>5 DEF IInv, TypeOK, Uis, tracker
<1>7. RecIntended' /\ NumbersComing' /\ ClosedQuiet'
  BY <1>1, <1>2 DEF RecIntended, NumbersComing, ClosedQuiet
<1>8. HistoryAccounts'
  BY <1>1 DEF IInv, HistoryAccounts, tracker
<1>9. Whole'
  <2>1. ble.handlers \in Nat /\ ble'.handlers \in Nat
    BY <1>4 DEF IInv, TypeOK
  <2> QED
    BY <1>1, <1>4, <2>1 DEF IInv, Whole, tracker
<1> QED
  BY <1>3, <1>6, <1>7, <1>8, <1>9 DEF IInv

LEMMA ActivateIInv == ASSUME IInv, Activate PROVE IInv'
<1>1. /\ ui' = NewWindow /\ reopened' = TRUE /\ behind' = TRUE
      /\ UNCHANGED <<toMain, toUi, tracker, captures>>
  BY DEF Activate
<1>2. ui' \in Uis /\ ui'.open
  BY <1>1, HubAssumption DEF NewWindow, Uis
<1>3. TypeOK'
  BY <1>1, <1>2 DEF IInv, TypeOK, Uis, tracker, captures
<1>4. RecIntended' /\ NumbersComing' /\ ClosedQuiet'
  BY <1>1, <1>2 DEF RecIntended, NumbersComing, ClosedQuiet
<1>5. OneWifi' /\ Whole' /\ HistoryAccounts'
  BY <1>1 DEF IInv, OneWifi, Whole, HistoryAccounts, tracker, captures
<1> QED
  BY <1>3, <1>4, <1>5 DEF IInv

LEMMA NextIInv == ASSUME IInv, [Next]_vars PROVE IInv'
<1>1. CASE UNCHANGED vars
  BY <1>1 DEF vars, tracker, captures, IInv, TypeOK, RecIntended, Decides, OneWifi, Whole,
     HistoryAccounts, NumbersComing, Now, ClosedQuiet
<1>2. CASE Window
  BY <1>2, ClickedIInv, ShowIInv DEF Window
<1>3. CASE HandleTracker
  BY <1>3, TrackerIInv
<1>4. CASE HandleCapture
  BY <1>4, HandleCaptureIInv
<1>5. CASE Adapter
  BY <1>5, AdapterIInv
<1>6. CASE Capture
  BY <1>6, CaptureIInv
<1>7. CASE ImportPcap
  BY <1>7, ImportIInv
<1>8. CASE Close
  BY <1>8, CloseIInv
<1>9. CASE Activate
  BY <1>9, ActivateIInv
<1> QED
  BY <1>1, <1>2, <1>3, <1>4, <1>5, <1>6, <1>7, <1>8, <1>9 DEF Next

LEMMA Invariance == Spec => []IInv
BY InitIInv, NextIInv, PTL DEF Spec

-----------------------------------------------------------------------------
\* The variables keep their types.
THEOREM TypeCorrect == Spec => []TypeOK
<1>1. IInv => TypeOK
  BY DEF IInv
<1> QED
  BY <1>1, Invariance, PTL

\* The window's recording indicator is right whenever no command is on its way,
\* however clicks, commands and frames interleave.
THEOREM IndicatorRight == Spec => []RecShown
<1>1. IInv => RecShown
  <2> SUFFICES ASSUME IInv, ui.open, toMain = <<>>, ~reopened PROVE ui.rec = recording
    BY DEF RecShown
  <2>1. \A i \in 1 .. Len(toMain) : FALSE
    OBVIOUS
  <2> QED
    BY <2>1 DEF IInv, RecIntended
<1> QED
  BY <1>1, Invariance, PTL

\* A session has each frame of its time once.
THEOREM SessionsWhole == Spec => []SessionWhole
<1>1. IInv => SessionWhole
  BY DEF IInv, Whole, SessionWhole
<1> QED
  BY <1>1, Invariance, PTL

\* The history and the devices account for the same frames.
THEOREM HistoryExact == Spec => []HistoryAccounts
<1>1. IInv => HistoryAccounts
  BY DEF IInv
<1> QED
  BY <1>1, Invariance, PTL

\* When all is quiet the window shows the tracker's numbers.
THEOREM NumbersRight == Spec => []NumbersShown
<1>1. IInv => NumbersShown
  <2> SUFFICES ASSUME IInv, ui.open, toMain = <<>>, toUi = <<>>, ~behind
               PROVE  ui.total = Len(history) /\ ui.session = Len(session)
    BY DEF NumbersShown
  <2>1. \A i \in 1 .. Len(toMain) : FALSE
    OBVIOUS
  <2> QED
    BY <2>1 DEF IInv, NumbersComing
<1> QED
  BY <1>1, Invariance, PTL
===============================================================================
