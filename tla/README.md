# Verification of ESP DRONE REMOTEID

TLA+ models of the firmware in `src/ESP32_DRONE_REMOTE_ID_Firmware`, checked with
TLC and, where it says so, proved with TLAPS. `PROJECT.json` lists the
components, the runs, the lines each definition stands for, the hazards and the
theorems. Paths below without a directory are those of
`components/esp_remote_id/src`.

## The system

An ESP32 on a drone reads the flight controller over a UART, decides whether it
knows who and where it is, and broadcasts that as Open Drone ID messages over
Wi-Fi and Bluetooth. A web server and a console configure it. A desktop program
(RID Hub) receives such broadcasts.

| Component | State | Operations | Talks to | Hard behaviour |
|---|---|---|---|---|
| Main loop, `rid_task` and `update_transmissions` (`esp_remote_id.c`) | `g_state` (fix, validity, identity, gate, takeoff point), `g_kalman`, rate-limit stamps | one iteration per 100 ms: snapshot, poll a parser, commit a fix, gate, filter, time out, broadcast | parsers (calls), radios (calls), configuration and readers of `g_state` (shared, `g_lock`) | several clocks for one validity; what happens outside the lock; configuration replaced in mid-iteration; 32-bit time |
| Parsers (`mavlink_parser.c`, `msp_parser.c`, `nmea_parser.c`, `rid_dronecan.c`, `protocol_detect.c`) | a cached fix each, MAVLink also an identity, authentication pages and the operator's position | consume the UART, answer "have a fix" | main loop, MAVLink transmitter (shared, no lock) | stale caches, spliced lines, overflowing driver buffer, detection eating bytes, torn reads |
| Kalman filter (`rid_kalman.c`) | estimate and time stamp per axis | update, predict, age | main loop | its own timeout |
| Patrol (`rid_patrol.c`) | none | synthetic position in demo mode | main loop | none |
| Configuration store (`esp_remote_id.c`, `nvs_storage.c`) | `g_config` in RAM, keys in flash | load, rename, get, set, save, factory reset, restart | web server, console, main loop | lost updates, torn saves, power loss, a reset outside the lock |
| Web server (`web_config.c`) | log ring, table of failed signatures | pages, status, configuration, commands, logs, upload | everything above | shared ring, rate limit, lock level |
| OTA recovery server (`rid_ota.c`) | upload in progress | receive, verify, activate, roll back, reset | flash partitions | stalls, partial uploads, verification order |
| Radios (`wifi_tx.c`, `ble_tx.c`, `rid_auth.c`) | message counters, rotation of legacy advertisements | build a pack, transmit | main loop | nine messages per pack, fallback over interfaces |
| MAVLink transmitter (`rid_mavlink_tx.c`, `rid_mavlink_usb.c`) | two time stamps | heartbeat each 1 s, operator position each 6 s | MAVLink parser | freshness of what it republishes |
| Signatures (`rid_security.c`) | none | hashes, verification | web, OTA | library calls |
| Console (`cli.c`), LEDs (`led_*.c`, `rid_lighting.c`), web pages | small | user interface | the above | console edits race with web edits |
| RID Hub (`src/RID_Hub`) | devices, trails, histories, caches | capture, decode, track, export, flash | receivers | caps, restarted captures, partial downloads |

What makes each correct:

- main loop: nothing stale, ungated or unwanted is broadcast; a lost link is
  noticed in bounded time; what may be broadcast is broadcast;
- configuration store: flash holds the settings in force whenever nothing is in
  progress, as far as it can; keys
  outlive resets and restarts; changes do not undo one another;
- log ring: every answer is a true excerpt of the log; the lock is given back;
- web access: the limit on failed signatures neither forgets a failure nor
  closes for good; a burned fuse cannot be talked away;
- updates: the unit always has something to boot, boots what was announced, and
  no client holds the server;
- relay of the autopilot's data: what is republished is recent, a signature is
  transmitted whole;
- radios: a pack never overflows, every message gets its turn;
- serial line: one flaw on the line costs one position at most;
- hub: a recording is whole, and what the window shows is what is.

## Modules

| Module | What it is |
|---|---|
| `RidTask` | main loop, parsers' caches, Kalman filter's clock, concurrent reconfiguration |
| `MCRidTask` | its small instances |
| `RidTaskProofs` | its invariants, proved |
| `LogQueue` | abstract specification: a queue of the last entries |
| `LogRing` | the ring of `web_config.c` in single accesses; `Q!Spec` is the queue it implements |
| `MCLogRing`, `LogRingProofs` | its instance; the refinement, proved |
| `ConfigStore` | configuration in RAM and flash, its users, restarts and power loss |
| `MCConfigStore`, `ConfigStoreProofs` | its instance; what flash holds of RAM and survival of the keys, proved |
| `FailWindow` | abstract specification: at most so many failed checks in a window of time |
| `WebAccess` | signature check, rate limit, lock level and fuse of the web server; `FW!Spec` is the limit it implements |
| `MCWebAccess`, `WebAccessProofs` | its instance; the refinement and the invariants, proved |
| `OtaUpdate` | firmware uploads to the web server and the recovery server |
| `MCOtaUpdate`, `OtaUpdateProofs` | its instance; its safety, proved |
| `MavlinkRelay` | the autopilot's identity, signature and operator position, from the parser to the air and to the MAVLink transmitter |
| `MCMavlinkRelay`, `MavlinkRelayProofs` | its instance; freshness of the republished position, proved |
| `RadioTx` | packs of Wi-Fi and Bluetooth 5, rotation of Bluetooth 4 |
| `MCRadioTx`, `MCSerialLink` | instances of the two ends of the path: `RadioTx` and `SerialLink` |
| `SerialLink` | driver buffer, detection and NMEA line assembly |
| `LinkProofs` | the room in a pack and what a flaw of the line costs, proved |
| `Hub` | window and main process of the ground station, tracker and captures |
| `MCHub`, `HubProofs` | its instance; its invariants, proved |

### RidTask

One action per step of the loop, in the order of the code:

| Action | Code |
|---|---|
| `Snapshot` | copy of protocol and options under the lock, `:419-428` |
| `Poll` | protocol detection and the parser's `update`/`get`, `:430-457` |
| `Commit` | the locked section that publishes an accepted fix, `:465-533` |
| `Demo`, `Skip` | the synthetic patrol; nothing accepted |
| `Gate` | blanking by DONT_SAVE_BASIC_ID and the readiness gate, after the unlock, `:535-547` |
| `Filter` | Kalman update, predict and age, `:572-598` |
| `Expire` | absolute timeout, `:600-607` |
| `Transmit` | `update_transmissions` and `rate_allowed`, `:277-341`, `:609` |
| `Wake` | end of the delay |
| `SetConfig` | another task installs any configuration, between any two steps |
| `Tick` | time passes, between any two steps |

Time is a set of ages. Those that the code computes as differences of 32-bit
millisecond counts (`age`, `mavAge`, `idAge`) are taken modulo `AgeWrap`; the
history variables `trueAge` and `linkAge` are not, and the properties
compare the two. An iteration lasts at most `MaxIter`, the task watchdog's bound.

Abstractions. A section under `g_lock` is one action: everyone else who touches
that data takes the lock. The reads of `g_config` in `update_transmissions` are
one step. A fix is its type (3 stands for 3 and above), whether its latitude and
its longitude are nonzero, of which acceptance needs the first, the takeoff point
both and the MAVLink refresh either, and the arm flag. `position_is_sane` looks at
ranges only, which every position of a report satisfies. The messages of a batch
come in one order: fix, arm status, identity.
An identity is one of five classes that `identity_is_sane` and the assembly of
the MAVLink identity tell apart. The cached fix of MSP and NMEA is what their
parsers accepted; NMEA framing is in `SerialLink`. DroneCAN is left out of `Poll`:
`rid_dronecan_is_active` is asked before the receive function that would make it
true is ever called (`rid_dronecan.c:114-148`, `esp_remote_id.c:454`), so it
never supplies data. LEDs, log lines and counters are left out. `esp_rid_stop`
has no caller. 64-bit microsecond times do not wrap.

### LogRing

A push is `Log`, `Take`, `WriteSlot`, `MoveIndex`; a request is `Request`,
`Take`, `CopyEntry` per entry, `Respond`. Either may find the lock taken and
give up (`GiveUp`): a line dropped, an empty array sent. The queue is read off
the ring as if a push took effect at the write of its slot.

### ConfigStore

`Load`, `Name` and a save are the boot sequence. `Request`, `Get`, `Set` (or
`DropSet` when the lock is taken), `ReadField`/`WriteField` per field and
`Give` are a change; `RequestReset`, `ResetRam`, `KeepKeys`, `Erase`, `Restore`,
a save and `Restart` are a factory reset, of which only `ResetRam` takes the
lock. `PowerLoss` may come between any two steps. Fields stand for classes:
two names, the lock level, the operator's location, the keys and, as `proto`, all
that is not saved. The location is a double in RAM and a float in flash:
`Stored` casts it, by the constant `Float`, of which no more is assumed than that
casting twice is casting once and that 0 is exact.

Abstractions. A wait for the lock may time out whenever the lock is taken: a
save writes more than thirty keys and may take longer than the 100 ms. Flash
writes are atomic per key, as NVS guarantees, and succeed. A request that fails
the signature check changes nothing and is no action. The eFuse of lock level 2
and what a configuration sets in the UART, the LEDs, Bluetooth and the access
point are left out. Local variables go back to their initial values when their
function returns.

### WebAccess and FailWindow

`Ask` is a request up to `get_lock_level`; `Compact` is one turn of the loop of
`sig_rate_check` and `Verdict` its end; `Accept` and `Refuse` are the signature
check with `sig_rate_record_fail`; `ApplyConfig` and `ApplyRestart` the effect.
One httpd task serves one request at a time, so these do not interleave with one
another, but with `Tick`, `ConsoleSet`, `ConsoleReset` and `PowerLoss`.

The table of times is a table of ages modulo `Period`, the 2^32 ms of the clock.
`FailWindow` keeps the ages of the last `Max` failures and lets a check fail only
when the oldest of them has left the window; the history variable `last` is that
list, updated where the code calls `sig_rate_record_fail`. `outlived` marks that
an entry became as old as the period and looks new again.

### OtaUpdate

An upload is `Begin`, a `Receive`, `Stall` or `Disconnect` per buffer,
`AllReceived`, then one of `Reject`, `LeaveShort`, `Install`, and `Restart`. The
two servers differ in the guards the code has: the recovery server checks a
length and bears with stalls, the other does not. `NextSlot`, `Opens` and
`Bootable` stand for `esp_ota_*` and the boot loader. A file is a name and a
length in buffers; a hash matches when it is of that file and all of it arrived.

### MavlinkRelay

`Hear*` is one MAVLink message handled by `mavlink_parser_get`; `HearSystem` is
three steps, because position and stamp are written without a lock while
`Check`, `ReadCoord` and `Send` of the transmit task run. `Transmit` is a
broadcast of `rid_task`: the identity it assembles and the pages it sends. A page
is the signature it belongs to. Message packs are no action: the parser rebuilds
the header of a pack and leaves its type 0, so `decodeMessagePack` refuses each.

### RadioTx

`Slots` is the list of valid messages in the order in which a pack is filled and
the rotation advances; `TransmitPack` a frame of Wi-Fi or Bluetooth 5,
`TransmitLegacy` an advertisement of Bluetooth 4. What a message says is left
out, but not whether its encoder refuses it.

### SerialLink

The receiver sends sentences field by field (`Send`), which the line may alter
(`Disturb`) and the driver's buffer may have no room for (`Overflow`). In each
iteration `rid_task` asks `Detect` first if the protocol is AUTO, and what that
reads no parser sees; `Read` and `ParseField` are `nmea_parser_get`. `strtok`
joins empty fields, so a sentence without a fix has too few of them and
`parse_gga` reads pointers that were never set: the model lets that yield any
position, none, or a restart (`Crash`). Fields are symbols, checksums are not
verified by the code.

### Hub

The window's process (`Toggle*`, `ResetSession`, `FactoryReset`, `Show`) and the
main process (`HandleTracker`, `HandleCapture`, `Capture`, `ImportPcap`) exchange
messages in order, as Electron's IPC does. `Adapter` is the operating system
switching Bluetooth on and off. Frames are numbered, and a frame is taken once
per listener registered for it.

## Runs

Checked without error:

| Run | States | What it shows |
|---|---|---|
| `ridtask_mavlink` | 6.5 M | `FreshWhenValid`, `SilentLinkOffAir`, `GateHoldsBack`, `LinkLossBound` for a gated MAVLink unit, provisioned or not, with and without filter and `bcast_powerup` |
| `ridtask_serial` | 53 k | `NmeaHeightDerived`; under fairness `StaleEventuallyCleared`, `RadiosServed`; NMEA, filter, demo, two radios, two intervals |
| `ridtask_auto` | 6.3 M | `PoorFixNeedsArming`, `NoSaveHidesId` while detection flaps between parsers and the options are switched |
| `log_ring` | 127 k | `ImplementsQueue`; under fairness `LockGivenBack` |
| `config_store` | 4.2 M | `FlashMatches`, `KeysSurvive`, `BootNames` |
| `web_access` | 151 k | `RateLimit` (the refinement), `RefusalJustified`, `BurnedNeedsSignature`; under fairness `LockoutEnds` |
| `ota_update` | 2.5 k | `BootValid`, `InstalledAsAnnounced`; under fairness `UploadEnds` |
| `mavlink_relay` | 468 k | `OpFresh`; under fairness `OpLost`, `RelayConverges` |
| `radio_tx` | 19 k | `PackGoesOut`; under fairness `AllAdvertised` |
| `serial_link` | 478 k | `FlawSpoilsOne`; under fairness `LinkRecovers` |
| `hub` | 15.2 M | `RecShown`, `SessionWhole`, `HistoryAccounts`, `NumbersShown` |

A disagreement between the documents and the code, a counterexample:

| Run | What the documents say | What the code does |
|---|---|---|
| `config_update` | a request updates the parameters it names | it installs all others as they were when it read them |

Others met while modelling, for which no run is kept:

- the Kalman timeout of 3 s (`README.md:101`) never fires: `predict` moves the
  stamp `valid_age` measures from (`rid_kalman.c:48`);
- the caches of MSP and NMEA have no age, so a silent link keeps its last position
  valid (`msp_parser.c:123`, `nmea_parser.c:133`), against
  `todolist/softwarestatus.md:37`;
- the readiness gate, once opened, stays open when the MAVLink identity ages and
  the factory identity is broadcast again (`esp_remote_id.c:544`), against
  `todolist/dataflow_verification.md:128`;
- `bcast_powerup` (`docs/guide.html:447`) has no effect: `update_transmissions` is
  not called without data (`esp_remote_id.c:609`);
- settings `nvs_storage_save` does not write (protocol, pins, lighting, private
  key, start delay and others) do not survive a restart, against
  `docs/guide.html:500`;
- the operator's location loses precision in flash: after a restart it is the
  nearest float, up to about a metre off (`nvs_storage.c:118-119`), against
  `docs/guide.html:500`;
- a factory reset sets the lock level to 0 (`esp_remote_id.c:268`), against
  `todolist/softwarestatus.md:38`; only the fuse stays;
- failed signatures of `/api/command` are not rate limited
  (`web_config.c:661-663`), those of `SECURITY.md:60` are;
- MAVLink message packs (`README.md:309`) are never decoded: the header rebuilt
  for `decodeMessagePack` has type 0 (`mavlink_parser.c:245-256`);
- a signature whose sender follows the standard and fills in the last page index
  in page 0 only is relayed with page 0 alone when another page came last
  (`mavlink_parser.c:217`), against `todolist/dataflow_verification.md:126`;
- the NMEA parser verifies no checksum, against `docs/guide.html:259`, and takes
  64 bytes of a 256-byte buffer each 100 ms: a receiver faster than 640 bytes a
  second overflows it, and a line spliced from two is taken for a position
  (`nmea_parser.c:94,118`);
- the MSP parser looks for the size in the fifth byte of a frame; MSP v1 has the
  type there (`msp_parser.c:84`), and answers of a flight controller begin with
  `$M>`, so no standard frame is ever accepted, against `docs/guide.html:239`;
- automatic detection reads the bytes the parser needs in every iteration
  (`protocol_detect.c:45`), so that a parser sees only what arrives in between;
- an update is written over the only OTA partition, and refused while the unit
  runs from it; `docs/guide.html:807` speaks of an inactive one. "Rollback"
  selects the partition that is running (`rid_ota.c:254-267`);
- the hub's trail of positions is never filled (`README.md:141`
  describes it), and its factory reset leaves the captures running
  (`renderer/app.js:395-404`); each start of a Bluetooth capture registers its
  handlers again (`src/capture.js:101`);
- between the Kalman step and the timeout step `gps_valid` may be set for a stale
  position, and a status request may see that (`esp_remote_id.c:594-604`);
- `g_last_update` of the MAVLink parser is refreshed by any message while the
  cached position is nonzero, so heartbeats keep an old position fresh
  (`mavlink_parser.c:347`);
- after 2^32 ms (49.7 days) without data the last fix looks fresh again for 10 s,
  and a filter that was ever updated keeps it valid (`esp_remote_id.c:603`);
- in demo mode DONT_SAVE_BASIC_ID does not blank the identity;
- heights of MSP fixes below 3D are derived only after some 3D fix;
- a fix with longitude 0.0, on the meridian of Greenwich or malformed, is accepted
  but captures no takeoff point and has no height before another fix did
  (`esp_remote_id.c:461`, `:500-501`, `nmea_parser.c:25-31`); one with latitude 0.0
  is never accepted;
- a cached MAVLink fix is accepted again by every iteration for 5 s, and under
  FORCE_ARM_OK with the Kalman filter a poor fix is broadcast as a prediction from
  earlier ones (`esp_remote_id.c:576-590`): what is bounded is the age of the link
  (`SilentLinkOffAir`), not that of the position;
- DONT_SAVE_BASIC_ID blanks the UAS ids only; operator id and self id are
  broadcast (`esp_remote_id.c:535-538`);
- FORCE_ARM_OK has no effect on MSP, whose parser holds back poor fixes itself;
- `/api/logs` is cut at 4096 bytes and loses the newest lines;
- a unit with empty flash gets empty names, not factory names, so it is not
  renamed after its MAC address at first boot (`nvs_storage.c:137`);
- public keys are lost if power fails between the erase and the rewrite of a
  reset, or if two resets overlap (`nvs_storage.c:206`), which is what `cut`
  excludes from `KeysSurvive`.

### Bounds

- RidTask: a unit of time is about 3 s, so the timeouts 5, 10, 3 and 10 s are 2,
  3, 1 and 3 units, one iteration lasts at most one unit, and the clock wraps at
  9 units, the least `TimesAssumption` allows: every order of expiries happens,
  and the wrap-around too. `ridtask_auto`, whose properties do not depend on
  which timeout is longer, uses 1 for each and wraps at 6. `ridtask_serial`, which
  asks whether radios starve one another, has two of them with intervals of 1 and
  2 units; elsewhere one stands for all.
- LogRing: three slots, two writers, lines of one and two bytes and an answer
  with room for four: the ring wraps, fills and is served cut and uncut.
- ConfigStore: two users, edits of the two names, the location and the keys, two
  values to provision with, of which one is no float and is rounded to the
  other, restarts and power losses without bound. The run of the disagreement
  edits the lock level and the field that is not saved.
- WebAccess: a table of three, a window of two ticks, a clock of five: the table
  fills, compaction keeps any part of it, entries outlive window and period.
- OtaUpdate: three files of one and two buffers, of which one is no application;
  one OTA partition, as `partitions.csv` has; three stalls for eleven.
- MavlinkRelay: a signature of two pages and one of one page, timeouts of 1 and 2
  units and a clock of 4.
- RadioTx: the pack has its true size; signatures of 3, 4 and 16 pages (one fits,
  one fits beside few others, one never); a counter of 11 for 256, so that it
  wraps in the middle of a rotation.
- SerialLink: two positions, a driver buffer of two fields, a line of four, two
  flaws (`MaxFlaws`). Three flaws with a line of five and a buffer of three were
  checked for `FlawSpoilsOne` once and hold too.
- Hub: a history of one, three frames (`MaxFrames`), two registrations of the
  Bluetooth handlers (`MaxStarts`), two messages in flight each way
  (`MaxFlight`).

### Fairness

`FairSpec` of RidTask assumes that the scheduler runs `rid_task`, which has the
priority and the watchdog for it, and that time passes. That of LogRing assumes
that tasks run and that waits for the lock end, as they have timeouts; nobody is
obliged to log or to ask. That of WebAccess assumes that a request being served
is served to its end; whether clients ask is in the antecedent of `LockoutEnds`.
That of OtaUpdate assumes that a receive returns, for which the server has a
timeout, and nothing about the client. That of MavlinkRelay assumes that both
tasks run and time passes; what the autopilot sends is in the antecedents. That
of RadioTx assumes what `RadiosServed` of RidTask shows: each enabled radio is
served again and again. `LinkFairSpec` of SerialLink assumes that `rid_task` goes on; what
the receiver sends is in the antecedent of `LinkRecovers`. `ConfigStore` and
`Hub` state no liveness.

`RadiosServed` and `StaleEventuallyCleared` assume nothing about the flight
controller or about users. TLC's deadlock check is off where the abstract state
may rightly stand still: `web_access`, `ota_update`, `mavlink_relay`.

## Proofs

For all values of the constants that satisfy the modules' named assumptions:

- `RidTaskProofs` (from `ConfigsAssumption` and `TimesAssumption`):
  `TypeCorrect`, `FreshnessCorrect`, `SilentLinkCorrect`, `GateCorrect`,
  `LinkLossCorrect`, `NmeaHeightCorrect`, `PoorFixCorrect`, `NoSaveCorrect`. The
  properties speak of the end of an iteration, so `IInv` adds what holds on the
  way there: `ClockInv` (until the clock wraps the computed age is the true one),
  `AcceptInv` (`had_gps` means that this iteration accepted data), `GateInv` (an open gate
  was opened by a sane identity or by a configuration without it, the snapshot's
  included), `LinkInv` (cached data is no older than the parser's timeout when it
  is taken, so the age of the link and of the data differ by at most that),
  `HeardInv` (the same of what this iteration accepted, identity included, up to
  the broadcast), `NmeaInv` (the NMEA cache never holds a 2D fix), and `AirInv` (what a fix and an identity are at each step between
  their acceptance and the broadcast).
- `LogRingProofs` (from `RingAssumption`): `TypeCorrect`, `HeadCorrect` (the head
  moves only once the ring is full) and `RingImplementsQueue`, that the ring
  implements `LogQueue`: initial states map to initial states, `WriteSlot` maps
  to a push, `Respond` to a serve, `GiveUp` of the server to a serve of nothing,
  all else to stutters. `IInv` says who holds the lock at which step, and that
  the copy made so far is the beginning of the queue. `ModCases` gives the
  arithmetic of the index; `NoLeak` is the converse of what `IInv` says of the lock.
- `ConfigStoreProofs` (from `StoreAssumption`): `TypeCorrect`, `FlashCorrect`,
  `KeysCorrect` and `NamesCorrect`. Flash lags behind RAM during a save, so `MatchInv`
  says by how much: until a reset starts it holds what it can of every field,
  the location rounded, but of those the save at hand has still to write, and
  the value about to be written is current. `HeldInv`: what is in flash is
  there as it would be stored again, so a restart rounds nothing twice. That needs
  `LockInv` (a save of a change holds the lock, so no two saves run, and nobody
  changes `g_config` under it) and `BootInv` (no user runs before the boot is
  done). `KeyInv` follows the keys through a reset: in RAM, in the copy that the
  reset keeps, or in flash, one of them has them at every step. `NameInv`: while the
  boot saves, `g_config` has the names it has just given, as nobody else runs yet
  (`BootSteps`); what an interrupted save left in flash is looked at again by the
  next boot.
- `WebAccessProofs` (from `AccessAssumption`): `TypeCorrect`, `RateLimited`,
  `RefusalsJustified`, `FuseHolds`. The refinement of `FailWindow` needs an
  invariant that relates the table to the list of failures while the loop is
  half way: the entries kept so far and those still to be looked at have room for
  every failure of the window, in order, and none is overwritten before it is
  read.
- `OtaUpdateProofs` (from `OtaAssumption`): `TypeCorrect`, `AlwaysBoots`,
  `AnnouncedIsInstalled`. The invariant says that the partition being written is
  never the one selected, and what of the upload it holds.
- `MavlinkRelayProofs` (from `RelayAssumption`): `TypeCorrect`, `OperatorFresh`.
  `StampedLast`: no coordinate is older than the stamp says, because the stamp is
  written after them; `ReadFresh`: what was read since a check that passed is
  fresh, because no unit of time passes in the middle of a message.
- `LinkProofs` (from `LinkAssumption` and `RadioAssumption`): of `RadioTx`,
  `TypeCorrect` and `PackFits`, from the length of the list of messages and a
  lemma on what may be encoded before each. Of `SerialLink`, `LinkTypeCorrect`
  and `FlawCorrect`: `spoilt <= flaws` is not inductive, as flaws still in the
  buffers have to be paid for. `LinkIInv` says that what waits there can be
  explained: each field was meant at some place of some sentence and has the
  number of flaws that had happened when it was sent; fields with equal numbers
  follow one another and are as meant; the numbers start at `spoilt` or above and
  end at `flaws`. Each step turns an explanation into another one, and a spoilt
  position uses up a number.
- `HubProofs` (from `HubAssumption`): `TypeCorrect`, `IndicatorRight`,
  `SessionsWhole`, `HistoryExact`, `NumbersRight`. The indicator is right when
  the commands in flight, applied to what the tracker does, give what the window
  shows; the numbers are when the last message in flight is the tracker's state.

Only model-checked: the liveness properties, which are out of the prover's reach,
and the disagreement, which is a violation. Of both the steps they rest on are
proved, for all values of the constants:

| Property | Theorem | What every step does |
|---|---|---|
| `LockGivenBack` | `LockHeldBriefly` | the holder of the log's lock is inside the ring; its steps count down to giving it back, nobody else's count up |
| `LockoutEnds` | `ClearPasses` | a check that starts with no failure that looks new stays so, turn by turn of its loop, up to the signature |
| `UploadEnds` | `UploadGoesOn` | ends the upload, brings it nearer to its length, or is one of at most `MaxStalls` timeouts in a row |
| `RelayConverges` | `PagesGather` | keeps the pages of the signature that is repeated and adds the one heard; complete, it is transmitted whole |
| `AllAdvertised` | `TurnsComeRound` | brings every message's turn one nearer; no turn is further than two rounds, with the counter's wrap |
| `StaleEventuallyCleared` | `StatusFreshCorrect` | keeps a valid position within the timeout and two iterations, but between Kalman step and timeout |
| `UpdatesWhatItNames` | `AloneCorrect` | with one task that changes the configuration no update is lost: that disagreement takes two |

What remains of the liveness properties is that such steps are taken, by the
fairness above. `RadiosServed`, `OpLost` and `LinkRecovers` have no such theorem:
the first two rest on single assignments, and what the third rests on is in the
invariant of `FlawCorrect`. Two more theorems state what no run checks:
`OnlyInstallSelects`, that the recovery server's rollback never changes the
selected partition, and `SignaturesGapless`, that an incomplete signature is never
transmitted, from `PageInv`, that the bits of the pages received say which those are.

## Plan

1. `SerialLink`: framing of MSP if its layout is put right.
2. `Firmware`: composition of `RidTask` with `ConfigStore` (the configurations
   `SetConfig` installs are those the store produces) and with `MavlinkRelay`.
3. The hub's firmware cache (`main.js:387-406`) and its serial capture.
4. Message packs in `MavlinkRelay`, once the parser decodes them.

## Not modelled, and why

- Vendored libraries (`opendroneid.c`, `wifi.c` but for the filling of a pack,
  `mav2odid.c`) and the generated MAVLink headers, which are nine tenths of the
  repository's lines, and the drivers.
- DroneCAN: its receive function is never called, and its decoder cannot be
  satisfied by a frame (`rid_dronecan.c:34-38`).
- The framing of MSP, which no standard frame satisfies; that of MAVLink, which
  is a library.
- The content of the Kalman filter (floating point), LEDs and lighting (functions
  of a time stamp), web pages (presentation), cryptography (library calls).
- The fallback of a beacon over interfaces (`wifi_tx.c:248-274`): four attempts
  at a driver call, with no state.
- Of the hub: decoder, exports, serial capture, updates and firmware cache.
