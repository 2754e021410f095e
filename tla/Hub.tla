---------------------------------- MODULE Hub ----------------------------------
(***************************************************************************)
(* The ground station: captures that hand every frame they hear to a       *)
(* tracker in Electron's main process, and a window, a process of its own, *)
(* that commands them and shows what it is told.  The two exchange         *)
(* messages in order and otherwise know nothing of each other: the window  *)
(* sets its indicators before its commands are carried out, and is told of *)
(* the tracker's numbers only with the next frame.                         *)
(*                                                                         *)
(* Frames are numbered from the last reset; what they say is left out.     *)
(***************************************************************************)
EXTENDS Integers, Sequences

CONSTANTS
  HistoryMax,  \* _historyMax: 2000
  MaxFrames,   \* bound: frames between two resets
  MaxStarts,   \* bound: registrations of the Bluetooth handlers
  MaxFlight    \* bound: messages in flight each way

ASSUME HubAssumption ==
  HistoryMax \in Nat \ {0} /\ {MaxFrames, MaxStarts, MaxFlight} \subseteq Nat

VARIABLES
  ui,         \* the window: its indicators and counters
  toMain,     \* its commands on their way to the main process
  toUi,       \* rid-packet messages on their way to the window
  recording, session,  \* _recording, _sessionPackets
  history,    \* _packetHistory
  counts,     \* packetCount of every device
  wifi,       \* WiFiCapture: running, and the sessions it has open
  ble,        \* BLECapture: running, handlers registered, scanning
  \* History: read by properties only.
  heard,      \* frames since the last reset
  behind,     \* the tracker has changed since it last told the window
  reopened    \* a window was opened that saw nothing of what went before

tracker == <<recording, session, history, counts, heard>>
captures == <<wifi, ble>>
vars == <<ui, toMain, toUi, tracker, captures, behind, reopened>>

Sources == {"air", "pcap"}
Commands == {"record", "stop", "reset", "wifi on", "wifi off", "ble on", "ble off"}
Totals == [total : 0 .. HistoryMax, session : Nat]
NewWindow == [open |-> TRUE, rec |-> FALSE, wifi |-> FALSE, ble |-> FALSE,
              total |-> 0, session |-> 0]

TypeOK ==
  /\ ui \in [open : BOOLEAN, rec : BOOLEAN, wifi : BOOLEAN, ble : BOOLEAN,
             total : 0 .. HistoryMax, session : Nat]
  /\ toMain \in Seq(Commands) /\ toUi \in Seq(Totals)
  /\ recording \in BOOLEAN /\ session \in Seq(Nat) /\ history \in Seq(Nat)
  /\ counts \in [Sources -> Nat]
  /\ wifi \in [running : BOOLEAN, open : Nat]
  /\ ble \in [running : BOOLEAN, handlers : Nat, scanning : BOOLEAN]
  /\ heard \in Nat /\ behind \in BOOLEAN /\ reopened \in BOOLEAN

Init ==
  /\ ui = NewWindow /\ toMain = <<>> /\ toUi = <<>>
  /\ recording = FALSE /\ session = <<>> /\ history = <<>>
  /\ counts = [s \in Sources |-> 0]
  /\ wifi = [running |-> FALSE, open |-> 0]
  /\ ble = [running |-> FALSE, handlers |-> 0, scanning |-> FALSE]
  /\ heard = 0 /\ behind = FALSE /\ reopened = FALSE

-----------------------------------------------------------------------------
(* renderer/app.js: what the user does at the window. *)

Click(shown, command) ==
  /\ ui.open /\ Len(toMain) < MaxFlight
  /\ ui' = shown /\ toMain' = Append(toMain, command)
  /\ UNCHANGED <<toUi, tracker, captures, behind, reopened>>

ToggleRecording == Click([ui EXCEPT !.rec = ~@], IF ui.rec THEN "stop" ELSE "record")
ToggleWifi == Click([ui EXCEPT !.wifi = ~@], IF ui.wifi THEN "wifi off" ELSE "wifi on")
ToggleBle == Click([ui EXCEPT !.ble = ~@], IF ui.ble THEN "ble off" ELSE "ble on")
Cleared == [ui EXCEPT !.rec = FALSE, !.total = 0, !.session = 0]
ResetSession == Click(Cleared, "reset")
\* The captures go on.
FactoryReset == Click([Cleared EXCEPT !.wifi = FALSE, !.ble = FALSE], "reset")

\* The packet listener.
Show ==
  /\ ui.open /\ toUi # <<>>
  /\ ui' = [ui EXCEPT !.total = Head(toUi).total, !.session = Head(toUi).session]
  /\ toUi' = Tail(toUi)
  /\ UNCHANGED <<toMain, tracker, captures, behind, reopened>>

Window == ToggleRecording \/ ToggleWifi \/ ToggleBle \/ ResetSession \/ FactoryReset \/ Show

-----------------------------------------------------------------------------
(* main.js, tracker.js: the commands, in the order given. *)

Receive(command) ==
  /\ toMain # <<>> /\ Head(toMain) = command
  /\ toMain' = Tail(toMain)
  /\ UNCHANGED <<ui, toUi, reopened>>

StartRecording ==
  /\ recording' = TRUE /\ session' = <<>>
  /\ UNCHANGED <<history, counts, heard>>
StopRecording == recording' = FALSE /\ UNCHANGED <<session, history, counts, heard>>
\* Mutant: a reset lets the recording go on.
ResetGoesOn ==
  /\ session' = <<>> /\ history' = <<>> /\ counts' = [s \in Sources |-> 0]
  /\ heard' = 0 /\ UNCHANGED recording
\* Mutant: a reset keeps the devices.
ResetKeepsDevices ==
  /\ session' = <<>> /\ history' = <<>> /\ UNCHANGED counts
  /\ heard' = 0 /\ recording' = FALSE
Reset ==
  /\ session' = <<>> /\ history' = <<>> /\ counts' = [s \in Sources |-> 0]
  /\ heard' = 0 /\ recording' = FALSE

HandleTracker ==
  /\ \/ Receive("record") /\ StartRecording
     \/ Receive("stop") /\ StopRecording
     \/ Receive("reset") /\ Reset
  /\ behind' = TRUE /\ UNCHANGED captures

-----------------------------------------------------------------------------
(* capture.js. *)

\* Mutant: a capture that runs is started once more.
StartWifiTwice == wifi' = [running |-> TRUE, open |-> wifi.open + 1]
\* The interface may be missing: no error is reported.
StartWifi ==
  \/ ~wifi.running /\ wifi' = [running |-> TRUE, open |-> wifi.open + 1]
  \/ UNCHANGED wifi
StopWifi == wifi' = [running |-> FALSE, open |-> IF wifi.open > 0 THEN wifi.open - 1 ELSE 0]
StartBle ==
  \/ ble.running /\ UNCHANGED ble
  \/ ~ble.running /\ ble' = [ble EXCEPT !.running = TRUE, !.handlers = @ + 1]
\* The handlers stay.
StopBle == ble' = [ble EXCEPT !.running = FALSE, !.scanning = @ /\ ~ble.running]

HandleCapture ==
  /\ \/ Receive("wifi on") /\ StartWifi /\ UNCHANGED ble
     \/ Receive("wifi off") /\ StopWifi /\ UNCHANGED ble
     \/ Receive("ble on") /\ ble.handlers < MaxStarts /\ StartBle /\ UNCHANGED wifi
     \/ Receive("ble off") /\ StopBle /\ UNCHANGED wifi
  /\ UNCHANGED <<tracker, behind>>

\* The adapter is switched on: every handler there is starts the scan, of a
\* capture that was stopped too.  Or it is switched off.
Adapter ==
  /\ ble.handlers > 0 /\ ble' = [ble EXCEPT !.scanning = ~@]
  /\ UNCHANGED <<ui, toMain, toUi, tracker, wifi, behind, reopened>>

-----------------------------------------------------------------------------
(* Tracker.onCapture, once for each listener of a frame. *)

\* Mutant: the history is cut one packet late.
LastLate(s) ==
  IF Len(s) > HistoryMax + 1 THEN SubSeq(s, Len(s) - HistoryMax, Len(s)) ELSE s
Last(s) == IF Len(s) > HistoryMax THEN SubSeq(s, Len(s) - HistoryMax + 1, Len(s)) ELSE s
Copies(n) == [i \in 1 .. n |-> heard + 1]

Take(source, n) ==
  /\ heard < MaxFrames /\ heard' = heard + 1
  /\ history' = Last(history \o Copies(n))
  /\ counts' = [counts EXCEPT ![source] = @ + n]
  /\ session' = IF recording THEN session \o Copies(n) ELSE session
  /\ UNCHANGED recording

\* What the window is told of the i-th of them.
Told(i) == [total |-> Len(Last(history \o Copies(i))),
            session |-> IF recording THEN Len(session) + i ELSE Len(session)]
\* Mutant: the window is told what there was before.
TellBefore(n) == [i \in 1 .. n |-> Told(i - 1)]
Tell(n) == [i \in 1 .. n |-> Told(i)]

Capture ==
  \E n \in {wifi.open, IF ble.scanning THEN ble.handlers ELSE 0} \ {0} :
    /\ Take("air", n)
    /\ Len(toUi) + n <= MaxFlight
    /\ toUi' = IF ui.open THEN toUi \o Tell(n) ELSE toUi
    /\ behind' = (behind /\ ~ui.open)
    /\ UNCHANGED <<ui, toMain, captures, reopened>>

\* import-pcap tells the window nothing.
ImportPcap ==
  /\ Take("pcap", 1) /\ behind' = TRUE
  /\ UNCHANGED <<ui, toMain, toUi, captures, reopened>>

-----------------------------------------------------------------------------
(* The last window is closed: the captures stop, and on macOS the main process *)
(* goes on.  A window opened later starts from nothing.                        *)

Close ==
  /\ ui.open /\ ui' = [NewWindow EXCEPT !.open = FALSE] /\ toUi' = <<>>
  /\ wifi' = [running |-> FALSE, open |-> IF wifi.open > 0 THEN wifi.open - 1 ELSE 0]
  /\ ble' = [ble EXCEPT !.running = FALSE, !.scanning = @ /\ ~ble.running]
  /\ UNCHANGED <<toMain, tracker, behind, reopened>>
Activate ==
  /\ ~ui.open /\ ui' = NewWindow
  /\ reopened' = TRUE /\ behind' = TRUE
  /\ UNCHANGED <<toMain, toUi, tracker, captures>>

Next ==
  \/ Window \/ HandleTracker \/ HandleCapture \/ Adapter \/ Capture \/ ImportPcap
  \/ Close \/ Activate
Spec == Init /\ [][Next]_vars

-----------------------------------------------------------------------------
(* Properties. *)

\* The tracker is recording if and only if the window says so, when no command
\* is on its way and the window has been there from the start
\* (app.js:341-345 and 388-404, tracker.js:150-166).
RecShown == ui.open /\ toMain = <<>> /\ ~reopened => ui.rec = recording

\* A session has every frame heard from its start to its end, once, as long as
\* the Bluetooth handlers were not registered again (tracker.js:122, capture.js:30-48
\* and 97-127).
SessionWhole ==
  ble.handlers <= 1 => \A i \in 1 .. Len(session) - 1 : session[i + 1] = session[i] + 1

\* The history has as many packets as the devices have sent, up to its limit
\* (tracker.js:87-121 and 150-156).
HistoryAccounts ==
  LET all == counts["air"] + counts["pcap"]
  IN  Len(history) = (IF all > HistoryMax THEN HistoryMax ELSE all)

\* When nothing is on its way and the tracker's last change was a frame it told
\* the window of, the window shows the tracker's numbers, however many messages
\* and resets came before (main.js:25-61, app.js:253-261 and 388-404).  A frame in
\* flight at a reset leaves old numbers until the next one: that time is left out.
NumbersShown ==
  ui.open /\ toMain = <<>> /\ toUi = <<>> /\ ~behind =>
    ui.total = Len(history) /\ ui.session = Len(session)
===============================================================================
