# Gateway application: models, checks and proofs

This directory holds TLA+ models of the BeeeOn gateway application (the C++
sources of this repository), the TLC configurations that check them on small
instances, and proofs for TLAPS. Line numbers refer to the sources beside this
directory.

The program (`main.cpp`) is one process with some fifteen threads. Sensor
modules produce messages; `Aggregator::sendData` sends each to the server, or
keeps it in a cache with a backup file until it can; a connection to the server
(TCP or WebSocket) brings commands back, which `Aggregator::parseCmd` hands to
the modules; the `Distributor` offers every message to local listeners.

## 1. Inventory

### 1.1 The parts, their state, and how they interact

| Part | State | Operations | Talks to |
|---|---|---|---|
| Aggregator (`Aggregator.cpp`) | `cache` (a multimap from priority and time to messages), `cache_lock`, the backup file | `sendData` (on any module's thread), `run` (retry loop, periodic backup, removal of the backup), `storeCache`, `loadCache`, `validateAllMessages`, `parseCmd` | server connection, Distributor, TimeWatchdog, all modules |
| TimeWatchdog (`Aggregator.cpp/.h`) | `active`, `blackout_start_point`, `duration` | `run` waits for the clock and calls `validateAllMessages`; `isActive`, `getOffset` | Aggregator |
| Distributor | `pending_msgs`, `history`, a lock for each | `addNewMessage` and `findIfExists` on the callers' threads, `run` | MosqClient, the "geek" named pipe |
| TCP connection (`TCP.cpp`) | `input_socket`, the residue `ret` of the stream, `send_queue`, `queue_mutex`, `send_semaphore` | `run` (connect, register, read, cut), `referMessageFromServer` (dispatch), `sendToServer` (a connection for each message) | Aggregator::parseCmd |
| WebSocket connection | `m_socket`, `m_init_mutex`, `m_pending_requests`, `m_responses`, `m_current_request_id`, `m_data_leftover` | `sendToServer` on the callers' threads; one receive thread that connects, registers, reads, files responses, acknowledges and runs commands | Aggregator::parseCmd |
| VPT (`VPT.cpp`) | `map_devices`, `devs_lock`, two timers; one HTTP client and a hash of each device's password, without a lock | `run` (poll), `detectDevices`, `pairDevices`, `checkPairedDevices` (timer callback), `parseCmdFromServer`; `createMsg`, `sendSetRequest` | HTTP, JSON, Parameters, sendData |
| Virtual sensors | list of sensors, `unpaired_sensors`, the count on disk; each value has a timer and a mutex | `pairNewVS`, `run`, `parseCmdFromServer`; `nextVal`, `setNewVal` | sendData |
| Jablotron dongle, SerialControl | `devList`, `pgx`, `pgy`, `event`, `sensorEvent`; the serial line | `run`, `parseMessageFromDevice`, `sendMessageToServer`, `setSwitch`, `retransmissionPacket`; `ssend`, `sread` | sendData, Parameters |
| Bluetooth | `m_MAC_list`, pending queries, wake-up time | `run` (who is present), `addDevice`, `removeDevice`, `parseCmdFromServer` | Parameters, sendData |
| LED module, pressure sensor | brightness and colour; wake-up time, the last pressure | `run`, `parseCmdFromServer` | sendData |
| Belkin WeMo | one switch; `sensor.values` and `msg`, without a lock | `threadFunction`, `parseCmdFromServer`, `getState` | HTTP, sendData |
| PAN coordinator (`PanInterface.cpp`) | the bytes of a message to and from the coordinator; `msg.priority` stays from one to the next | `msgFromPAN`, `sendCommand`, `sendToPAN` | device table, MosqClient, sendData |
| Parameters | a message shared with its module, and the Aggregator's by two threads; `euides` | `cmdFromServer`, `askServer`, `getAllPairedDevices` | sendData |
| MosqClient, MQTT data module | broker connection, queue of messages | callbacks of the library, `sendMessage`, `run` | Distributor, PanInterface |
| HTTP | the addresses of a search of the network | `detectNetworkDevices`, `sendRequest` | VPT, Belkin WeMo |
| JSON, XMLTool, IODaemonMsg, IOcontrol, device table, `utils.h` | none, or a file read once | conversions | everything |
| `main.cpp`, ModuleADT | `quit_global_flag`, the threads | start in order, join at the end | everything |

### 1.2 What is hard here, and what makes each part correct

* **A message's way through the Aggregator.** Between a failed attempt and the
  insertion a message is owned by a stack frame, and between `Take` and the next
  insertion by `run`. Meanwhile other threads rewrite or remove the backup file,
  the clock changes, or the process dies. Correct means: nothing handed over is
  lost but by a restart, nothing is sent twice without a reason, the backup file
  goes only when its content is with the server, and a sendable message gets out.
* **Time in a blackout.** Without a battery-backed clock the gateway counts from
  its boot. Messages are held until the clock is set and get a computed time.
  Correct means: the computed time is near the true one.
* **Two threads in the Distributor's check-then-act**, and a history that is read
  without its lock.
* **Requests and responses over one socket.** Ids are reused, answers may be late,
  the thread that reads responses also runs commands that send requests. Correct
  means: an answer reaches its own request, every call returns, the maps do not
  grow, "register" is the first thing the server hears.
* **Streams and frames.** Messages end with NUL and arrive in any pieces; a
  connection breaks in the middle of one. Correct means: whole, in order, once.
* **A queue and a counting semaphore changed in two steps**, with a limit at which
  the semaphore throws.
* **VPT's shared map**: an assertion about two fields other threads write,
  iterators kept across an unlock, a timer stopped while a lock is held that its
  callback takes.
* **The sensor modules**: each runs on its own thread, while commands of the server
  arrive on another and change the same members, mostly without a lock: a counter of
  unpaired sensors, a mutex left locked on an early return, the list of switches, the
  list of Bluetooth devices, a wake-up counter, the state of all LEDs in one message.
  Correct means: what the server has set or paired is what the gateway does.
* **Conversions that lose something**: the backup file counts values twice, in `pairs`
  and in lines, and may be cut anywhere; PAN's bytes have a width and a sign; the end of a
  Jablotron event has a time of its own; a word on a regulator's page stands for a number.
  Correct means: what comes out is what went in, but for the cases that are named.
* **Routing by lists that are still being filled**, and **one client or message for two
  threads** (Parameters, VPT's HTTP client, WeMo's vector). Correct means: an order moves
  the device that it is for, and an answer belongs to its question.
* **Start and end of the process**: a library client that runs before there is an
  Aggregator, threads that are joined though they never started, others that are
  never joined. Correct means: nobody calls an incomplete Aggregator, and main returns.

`PROJECT.json` lists each at its line under `hazards`.

## 2. Modules

| Module | Models | Role |
|---|---|---|
| `MessageRelay` | what the Aggregator promises its modules | abstract specification |
| `AggregatorCache` | `sendData`, `run`, the cache, the backup file, TimeWatchdog's control, restarts | core; refines `MessageRelay` |
| `AggregatorCache_proofs` | | its theorems |
| `BlackoutClock` | offsets, clocks, `validateAllMessages`, `loadCache`'s time | the arithmetic AggregatorCache abstracts |
| `BackupFile` | `convertToCSV`, the lines of the file and what `loadCache` makes of them | the content AggregatorCache abstracts |
| `Distributor` | `addNewMessage`, `findIfExists`, `run` | |
| `WebSocketConnection`, `WebSocketConnection_proofs` | requests, responses, registration, reconnecting, commands | |
| `WebSocketFrames` | `receiveMessagesFromServer` | the frames WebSocketConnection takes as messages |
| `CommandStream` | TCP: `init`, `run`, `parseTempMessage`, `referMessageFromServer` | |
| `CommandRouter` | `Aggregator::parseCmd` and the modules' tests whose a device is | |
| `ParameterExchange` | `Parameters`, for modules, MQTT and the server's commands | |
| `VptDevices`, `VptDevices_proofs` | `VPTSensor::run`, discovery, timers, commands | |
| `VptRequests` | a regulator's page: `createMsg`, `sendSetRequest`, the password | the requests VptDevices abstracts |
| `NetworkScan` | `detectNetworkDevices` and the ranges it tries | the search VptDevices abstracts |
| `VirtualPairing` | `VirtualSensorModule::run`, `pairNewVS`, the pairing file | |
| `VirtualValue` | `nextVal`, `setNewVal`, `processActuatorCommands` | |
| `JablotronSwitches` | `loadJablotronDevices`, `setSwitch`, `retransmissionPacket`, `ssend` | |
| `JablotronReadings` | `sendMessageToServer`, `parseMessageFromDevice`, events and their ends | |
| `BelkinSwitch` | the rounds of the module and the set commands | |
| `PanMessages` | `msgFromPAN`, `sendCommand`, the bytes both ways | |
| `DeviceTable` | `fillDeviceTable` | used by PanMessages |
| `BluetoothPresence` | `m_MAC_list`, `m_queries`, scans, the server's commands | |
| `PressureSensor` | the refresh time and the wait | |
| `LedModule` | recovery of the LEDs, set commands, IODaemon | |
| `ProcessLife` | `main`, `ModuleADT::start` and `stop`, who starts and joins which thread | |
| `RecursionFacts` | | induction over natural numbers, recursive definitions and `FlattenSeq`, for the proof modules |
| `MCModules` | the six models of sensor modules side by side | for TLC |
| `Modules_proofs` | | theorems about the six, and about what `MCModules` makes of them |
| `MCStreams` | `CommandStream`, `WebSocketFrames` and `ProcessLife` side by side | for TLC |
| `Streams_proofs` | | theorems about the three, and about what `MCStreams` makes of them |
| `MCServices` | PanMessages, JablotronReadings, BelkinSwitch, CommandRouter, ParameterExchange, NetworkScan, VptRequests and BlackoutClock side by side | for TLC |
| `Services_proofs` | | theorems about the eight, and about what `MCServices` makes of them |
| `MCRecords` | `Distributor` and `BackupFile` side by side | for TLC |
| `Records_proofs` | | theorems about the two |
| other `MC*` | constants of an instance | for TLC |

The models that `MCModules`, `MCStreams`, `MCServices` and `MCRecords` put side by side
share no variable. A
behaviour exercises one of them, picked in the initial state, and leaves the others
at rest: their product would only multiply the states.

In a module, an operator that begins "Faulty variant" in its comment is no part
of the specification: it is a plausible bug of the operator that follows, kept to
show that some property notices it.

### 2.1 How state and actions correspond to the code

**AggregatorCache.** `caller[m]` is the position in `sendData` of the module thread
that created message `m`: `CallerSend` is everything from the check of the time to
the server's answer, `CallerInsert` the insertion under `cache_lock`. `RunNext`
follows `Aggregator::run` block by block: `Load` (loadCache), `Check` and `Flush*`
(start of a blackout), `Pick` (take the first sendable message), `PickStore*` (the
periodic backup, then the same), `PickEmpty` (remove the file), `PickTimeout`
(`tryLock` gives up), `RunSend`/`RunInsert` (the Aggregator's own `sendData`).
`WdNext` is `TimeWatchdog::run` with `validateAllMessages`. What runs under
`cache_lock` is one step, except `storeCache`: `OpenFile` truncates, `WriteFile`
writes, and a restart can fall between them and leave any subset of the lines. Of
a time the model keeps only whether `isTimeValid` accepts it (`stamped`).
`SendToServer` has the outcomes of `IOTReceiver::sendToServer` that the Aggregator
can tell apart, and the one it cannot (an empty answer, `EmptyReplyIsOk`). `lost`,
`copies`, `unsure` are bookkeeping for the properties.

**BlackoutClock.** `now` is the true time; a clock that is set shows `Epoch + now`,
an unset one counts from `boot`. The rest follows the fields: `blackout_start_point`
(`start`), `msg.offset`, `msg.time`, `msg.valid`, the file (no offset in it).
`Round` bounds how long `run` may take from one look at the clock to the next,
`Delay` how long a module may take from stamping to `sendData`.

**BackupFile.** The cache is in the order of its keys (`NotAfter` is `Cache_Key`), and a
message goes behind those of its own key (`Inserted`), as in the multimap. `Lines` is what
`storeCache` writes for it. `LoadCache` reads them round by round (`Loading`) as `loadCache`
does, `pairs` lines after each header whether they are values or not, puts each message where
its key belongs, and stops with the lock held where a line cannot be read. The file does not
say a message's priority: all come back with that of a sensor's (`DefaultPriority`).
`CrashInStore` leaves the lines before some line, and perhaps a part of that one (`CutLines`).
Numbers are rounded to two digits.

**Distributor.** An entry is a message and its time. `FindBegin`/`FindEnd` split the
walk over the multimap, which takes no lock; `RecordBegin`/`RecordEnd` the
insertion, so that a walk can overlap it and miss what is there. `PushRefused` and
`RecordRefused` are the two `tryLock(2000)` that give up; `missed` remembers what the second
kept out of the history. `SendBegin`/`SendEnd` is `run` with `pending_lock`. `Exists` compares only the oldest entry of that second,
as the loop of `findIfExists` returns in its first round.

**WebSocketConnection.** `SendToServer(t)` is the loop of `sendToServer` cut at every
lock: id, `prepareForResponse`, send under `m_init_mutex`, `checkForResponse`,
`requestDone`, one second of sleep. `sock` is `m_socket` together with who holds
`m_init_mutex`. The receive thread's own request (`Recv`) can be made only inside a
command. `serial` numbers requests apart from their ids. `late` are the requests whose answer
was filed between their caller's last look and its `requestDone`.

**WebSocketFrames.** Messages are sequences of pieces; the server cuts them anywhere.
`ReceiveBytes` takes a frame into `buffer`; `CutMessage` hands over the text in front of its
next NUL, with `m_data_leftover` before the first; `KeepLeftover` replaces the leftover by
what follows the last one. With `TwoFrames` the server spreads a message over two frames at
most: the code drops the first part of one that takes three.

**CommandStream.** A command is two halves and a NUL; `ret` is the residue of the
stream; `Cut`/`Signal` are the push under `queue_mutex` and `set()`, between which
the dispatching thread may act; `SignalOverflows` is the exception at the limit,
which `run` catches and drops the connection for. `InitThrows` is an exception of `init` after
the socket was made: `run` does not reset it (lines 140, 149-159) and reads from it in the next
round, so that the answer to the registration comes out as a message.

**VptDevices.** `left` and `wake` are `time_left` and `wake_up_time` in units of
some seconds, `active` counts down as in the code. `run` holds `devs_lock` from
`scan` to `Unlock`; every other critical section is one step. `doomed[t]` are the
iterators a thread collected and will erase after the unlock; if another thread has
erased the device meanwhile, `t` is in `dangling` and its own erasure is undefined
behaviour, taken to kill the process (as a failed assertion does: no build of it
defines NDEBUG), after which systemd starts it again. A server's
answer to a data message may carry `update` for the device it is about; other
answers to a data message are not modelled.

**CommandRouter.** `Claims` is each module's test (`isVPTSensor`, `belongTo` and so on),
`Listed`, `Dropped` and `Reload` how the lists behind two of them change, `Claimant` the first
of `Chain`, the tests of `parseCmd` in their order, that is true. Each device has one `Owner`, and
only that module's test can be true for it: no two modules share an identifier. `Moved` are the devices that the module takes an order for: PAN goes
by the lower half of an identifier.

**ParameterExchange.** A thread has a stack of calls, since over TCP the answer of the server
is parsed as a command before its caller gets it. `SetParams` and `SetState` are the two
assignments to the shared message; a call that another thread meets in them is no longer
`alone`. `OverTCP` is FALSE for the WebSocket connection, of which this is a part of the
behaviour (answers are not parsed); so is an answer in an old version of the protocol
(Parameters.cpp:49). The gateway's own version, which `askServer` tests at line 105, is a constant
that passes.

**VptRequests.** `Prepare` sets up the HTTP client, `Exchange` is the request and its answer,
each of which may be lost; the two threads share `client`, so that what is sent is what
the client was set up for last. `JudgeSet` and `JudgePage` are what the code does with the
answer: JSON is consent, a page to log in makes a hash for another try, up to `SEND_RETRY`.
`Renew` is the regulator that makes up a new random number.

**NetworkScan.** `Try` is the body of the loop, `First` and `Broadcast` the ends of the range.

**JablotronReadings.** `SendMessage` is one packet, from its words to `sendData`; `EndEvent` the
end that follows 400 ms later with a time 2 seconds ahead. `newest` is what a server that goes
by time has; `began` is bookkeeping.

**BelkinSwitch.** `bkpc` cuts a round of each thread at the question, the two steps of
`push_back`, and the message. `Collide` is the race in the vector or in `msg`, taken to end the
process; `GetStateThrows` the exception that the module's thread does not catch.

**PanMessages.** `FromSensor` is `newMessageFromPAN` and `msgFromPAN`; `Parsed` is its loop over
the readings. `SetActuators`, `DeleteDevice`, `SetPairingMode` and `Reset` are the commands, as the
bytes given to `sendCmd`. A byte of a value has `Base` values; a message has up to `MaxReadings`
readings or orders. `DeviceTable` has the modules
and types of `device_table.h`, as they are after `fillDeviceTable`: device 36 has the module of
device 35, as in the code.

**VirtualPairing.** `pairNewVS` on the module's thread and on the thread of the
commands (`ppc`), cut at each use of `unpaired_sensors` and of the file: the check, the
value read by the post-decrement, the assignment with the start of the sensor, the
truncation and the write. `unpaired` counts modulo `Width`; `IndexOf` is the argument of
`at`, which throws outside of `Pool`. `Reread` is what becomes of a count that is written
in decimal and read as hexadecimal. The file may fail to open: for run(), which then has no
count (`LoadCount`, line 47; nor need its removal succeed, lines 52-57), and for `pairNewVS`,
which then writes none (`OpenFails`, line 103). `overlapped` and `interrupted` remember that the
two threads met, or that a restart fell into a pairing; `outdated` that what is on file is not the
last count, since that could not be written or the file not be removed; `forgotten` that run() has
read such a count, or could not read the file.

**VirtualValue.** One action for each stretch of `nextVal` and `setNewVal` between a
lock, the sleep of the switch time, and the unlock; `holder` is `value_change_mutex`.
`Accepted`, `Kind` and `Configured` are what `parseRegexp` makes of a text of the
configuration. `GenerateNoMore` is the early return of line 80 with the mutex locked.

**JablotronSwitches.** `setting` is the position of each thread in `setSwitch`: the
choice between `pgx` and `pgy`, the packet built from both, the repetitions. `dongle` is
what the last packet told it. `AskSlot`, `AskStates` and `ObtainState` are
`loadJablotronDevices`, one slow answer at a time.

**BluetoothPresence.** `bpc` is the position of `threadFunction`, `handling` the command
that the other thread works on. `todo` and `adding` cut `listFromServer` at each search
and insertion, since both threads run it. A command takes its way through `sent`, so that an
answer may overtake it.

**PressureSensor.** The wait is a second at a time, with the increment of
`wake_up_counter` in two steps; `setNewRefresh` is two steps as well. `since`, `missed` and
`late` are bookkeeping for the properties.

**LedModule.** `ledConf` is the configuration in `ioDaemonMsg`; `orders` the
position of each thread in `parseCmdFromServer`: a copy is changed and written back, then
sent. `datagrams` and `reports` are the two directions to IODaemon.

**ProcessLife.** `todo` is what `main` has still to do, as a sequence of steps that give
a part to the Aggregator, start a thread, wait for the flag, or join; the steps of parts that
the configuration does not enable are skipped. `thread` has a state for each thread,
also those that the Aggregator and the TCP connection start (`Helpers`). A join of a
Poco::Thread that was never started may return or wait for ever.

## 3. What the runs check

| Run | Instance | What it shows |
|---|---|---|
| `cache_safety` | 2 data messages (one of high priority) and one that is never cached; a blackout, a restart anywhere, also while the file is written | nothing is lost but by a restart (`Accounted`), each message has one owner, and time and validity agree (`OwnershipInv`), a second delivery has a cause (`DuplicateHasCause`), the file holds nothing untracked (`FileIsTracked`) and goes only when delivered (`RemovedMeansSent`), and all of it refines `MessageRelay` (`KeepsPromise`) |
| `cache_liveness` | 2 data messages, one blackout | a message with a valid time is delivered, and one cached while the watchdog waits |
| `empty_answer` (violation) | as above, and the server may close without an answer | `sendToServer` reports success for an empty answer, and the file is removed with an undelivered message on it (TCP.cpp:281-296, Aggregator.cpp:207) |
| `records` | two parts, one in each behaviour. Distributor: 3 messages, two of the same second, one whose time is corrected; 3 module threads and the Aggregator's. Backup file: 3 messages with right and wrong counts of values, 2 writes, a restart between or within lines | what is queued is recorded unless `history_lock` could not be had (`QueuedIsRecorded`), and reaches the listeners unless `pending_lock` could not (`ReachesListeners`); repeats have one of three causes, two calls that race, an older message that hides it, or that failed recording (`RepeatHasCause`); what `storeCache` finished to write comes back, nothing else does, and `run` is stuck only by a torn file (`BackupIsFaithful`) |
| `websocket_requests` | 2 modules and the receive thread, 2 requests, a command, a broken connection | answers reach their requests (`AnswerIsMine`), each pending request has a caller, and each response one that will look for it, but for those filed after its last look (`RequestsAreCleared`), registration first, every call returns, reconnecting |
| `websocket_first_ids` (violation) | a freshly constructed connection | the first two requests have the same id and a caller takes the other's answer (WebSocketServerConnection.cpp:275-283) |
| `streams` | three parts, one in each behaviour. TCP: 4 commands, a semaphore of 2 (10 in the code), pieces of 2, two breaks or failures of `init`. WebSocket: messages of four lengths, frames up to 6 pieces, two breaks. The process: every configuration of pressure sensor, LEDs, Jablotron, MQTT and distributor, SIGTERM at any moment | messages in order and at most once (`ArriveInOrder`), whole but for those with a cause (`TornHasCause`), the queue is never empty when a token was taken (`NeverEmpty`), queued means handled (`QueuedIsHandled`); nobody calls an Aggregator without its parts, and when main returns only four threads are left: the dispatcher's and the button's, which nobody joins, and those of the LEDs and of Jablotron, which main could stop and does not (`StopIsClean`); main returns (`Stops`) |
| `tcp_close` (violation) | 1 command, the server closes | `run` reads a closed connection for ever (TCP.cpp:169, 188-195) |
| `vpt` | 2 devices, one of which may be paired, one command, both timers | `SleepFits`, `StopNeedsNoLock`, `PairedIsKept`, `InactiveIsSought` |
| `modules` | six models, one in each behaviour: virtual pairing, virtual values, Jablotron switches, Bluetooth, pressure sensor, LEDs (bounds below) | paired means paired, also after a restart and though two threads pair and remove (`PairedIsRight`); values are in range or as requested (`ActualIsRight`); requests to virtual values are dealt with, and a Bluetooth scan is followed up (`RequestsAreFollowed`); a switch is set on its own output (`RightSwitch`); refresh time, LEDs and both outputs are as commands set them (`SettingsAreKept`) |
| `services` | eight models, one in each behaviour: PAN's messages, Jablotron's packets, the WeMo switch, routing, parameters, the search of the network, a regulator's page, time in a blackout (bounds below) | what the devices of PAN report the server is told, and what it orders they are told, number by number (`PanIsRight`); so with the events of Jablotron and the state of the WeMo switch, and an order goes to the device it is for (`DevicesAreRight`); answers belong to their questions (`AnswersAreOwn`); a search finds every host of its range (`FindsHosts`); what a regulator agreed to, it did, and what it shows is what is told (`RegulatorIsRight`); a time computed at the end of the blackout a message came in is wrong by at most `Round + Delay` (`RestoredIsClose`) |
| `vpt_assert` (violation) | one device | the assertion of VPT.cpp:271 fails after a re-detection while `run` sleeps |

### 3.1 Bounds and why they are enough

* Messages, requests, commands: the properties relate at most two of them (an
  order, a swap, a repeat), so two of each kind and one bystander show a violation;
  the Distributor has three since a repeat needs a message, its repetition and one
  that hides it, and the TCP run four, so that the semaphore overflows with
  commands behind the one that overflows it.
* Losses, blackouts, restarts: one, or two where an earlier one must leave something
  behind for a later one (`BlackoutClock`; a socket that a failed `init` has left). State does not accumulate over
  further ones: a restart wipes memory, a reconnection starts a new stream.
* Numbers that the code compares with a limit keep the comparison and lose the size:
  `Tries` 2 for 10 seconds, `MaxTokens` 2 for 10, `ActiveTime` 2 for five minutes.
* Virtual pairing: 2 sensors; `Width` 8 for 2^32, which the counter can cross by one;
  `WriteBase` 3 and `ReadBase` 5 for 10 and 16: all sensors can be paired with a count of
  one digit, and threads that overlap can bring it to two; 3 commands, one more than there
  are sensors, and 2 restarts, one to restore a count and one to tear its restoration.
* Virtual values: 2 values of nine configurations (each generator, ends in either
  order, a range of one number, refused texts), requests inside and outside of the range.
* Jablotron: 2 switches, one on each output; `MaxFailed` 2 for 10, `Retries` 2 for 3;
  2 commands, so that two threads can be in `setSwitch`; 2 failures of the line.
* Bluetooth: 2 devices; `Attempts` 2 for 8; one scan, two changes at the server and one
  restart, in any order.
* Pressure: `Longest` 4 for 86400, `Default` 3 for 5; refresh times below, in and above
  the range; 3 changes. LEDs: 2 of two values, 2 commands, one datagram on its way, one
  that is lost or one change by others.
* Process: MQTT and distributor for the pointer that one gives the other; Jablotron, LEDs
  and pressure sensor for the three ways in which main treats a module. The
  other modules are treated as the pressure sensor is.
* Backup file: 3 messages of four kinds, so that one whose values are counted wrongly can stand
  before, between and behind others, and one of high priority before those of an earlier time;
  two writes, the second of which may be torn over the first.
* PAN: one known device for each way a number is converted, an unknown one; up to two readings
  or orders in a message (`MaxReadings`); a byte of a value has 16 values for 256, with numbers
  at the ends of one, two and four such bytes; identifiers of modules within a byte and beyond
  it.
* Jablotron: each type of device, each word, every argument and 3 seconds, so that
  events of one device are closer than two seconds, or not.
* WeMo: 3 messages, 2 commands, 2 changes by hand: an old round can overlap a new one.
* Routing: a device of each module, with lower halves of identifiers that two devices
  of PAN have, too; routing has no other state than the lists.
* Parameters: identifiers below, in and at the end of the range, one that the server asks for;
  3 questions or commands, an answer that is a question inside of another one.
* Search: last bytes at the ends and inside of ranges, prefixes above, at and below 24.
* Regulator: a variable with words and one without, a value that has no word; `SEND_RETRY` 2 for
  3; 3 orders, readings and changes together, so that two threads meet while the regulator
  changes.
* Blackout: 6 ticks, 2 blackouts, a restart of the application or a reboot, a round of two ticks
  and a delay of one.
* `StartIds` is `{2}` in `websocket_requests`: the duplicate at zero is
  the subject of `websocket_first_ids` and is left out of the other questions.
* `EmptyReplyIsOk` is FALSE in `cache_safety` and in the theorems that say so: those
  statements hold for a server that does not close a connection without an answer.
* `CHECK_DEADLOCK FALSE` stands where the bounds let the system run out of events.

### 3.2 Fairness

Weak fairness on a thread's steps means that the operating system runs it. Strong
fairness is assumed where a thread waits for a mutex another holds again and again:
`tryLock` and `lock` get a mutex that is free for seconds in every round of the
holder's loop (`Aggregator::run` sleeps two seconds per round without
`cache_lock`; the WebSocket receive thread sleeps a second between attempts without
`m_init_mutex`; `VPTSensor::run` sleeps without `devs_lock` whenever no device is
due). Strong fairness on `ServerAnswers` and weak fairness on `ClockSet` are assumptions
about the world: a server that answers now and then, and a clock that is set in the
end; without them nothing can be delivered. In `VirtualValue` the worker and the timers run
(weak fairness), and a mutex that is free again and again is not kept from the worker
for ever (strong fairness of `BeginSet`); in `BluetoothPresence` the module's thread
loops; in `ProcessLife` main and the threads run, and each loop comes round to its look
at `quit_global_flag`. The liveness properties of
`WebSocketConnection`, `CommandStream` and `VptDevices` assume nothing of the
network or the server.

### 3.3 Where code and comments disagree

Four disagreements have a run. A property that holds for some of the others names them as its
exceptions, as said below. Others met while modelling, by line:

* Aggregator.cpp:159: the flush at the start of a blackout is meant to survive a
  restart, but a later `storeCache` writes only what is in the cache at that moment,
  without the message `run` is sending.
* utils.h:148: messages from the backup file are to have a low priority; `loadCache`
  gives them that of a sensor message (`Priority`, `DefaultPriority`).
* Aggregator.h:92: a message that reaches the cache after the watchdog has ended, or
  is loaded with an invalid time by a valid clock, stays unsent until another
  blackout ends, and then gets that one's start as its time.
* Aggregator.cpp:480-490: an offset computed after a reboot compares two unrelated
  clocks; after a restart it is negative, though the comment says it will not be
  (the computed time is right only because it is).
* Distributor.cpp:95: an entry is queued again when two calls overlap, when a
  message of the same second is older, or when it could not be recorded because `history_lock`
  was not to be had for two seconds (lines 109-116; `RepeatHasCause` names the three);
  Distributor.h:41: the history is read without its lock.
* WebSocketServerConnection.cpp:244-252: the comment is about preventing that `m_responses` grows.
  An answer that is filed between the caller's last look and its `requestDone` stays there, so it
  may still grow by one for each call that times out. `ResponseHasReason` allows for these and
  no others.
* TCP.cpp:149-159: when `init` throws after it has made the socket, the socket stays, and `run`
  reads from it without a registration or a receive time-out (`InitThrows`; no property is
  violated by it).
* WebSocketServerConnection.cpp:202: a message over three frames loses its beginning
  (`TwoFrames`).
* SerialControl.cpp:81: `ssend` returns true when it could not write; the repetitions of
  `retransmissionPacket` count a packet that went out as a failure (JablotronModule.cpp:461
  asks for three repetitions with gaps; there are ten without).
* VirtualSensorModule.cpp:49 and 104: the count of paired sensors is written in decimal and read
  as hexadecimal (`RemembersPaired` is about one digit). If the file cannot be opened (lines 47,
  103) a sensor is paired and not remembered (`forgotten` names it).
* VirtualSensorValue.cpp:80: the final value of a linear generator is not stored, and its
  mutex stays locked (`SetIsApplied` names it).
* LedModule.cpp:60: until the first report each round sets the stored state to all off;
  reports of changes by others do not change it, so the next command undoes them
  (`LedsFollow` names both).
* Bluetooth.cpp:108: an answer older than a removal brings the device back
  (`ListedIsPaired` names it).
* main.cpp:382: main joins `jablotron_thread`, which is not the module's thread and was never
  started (`ModuleADT::stop` would join the right one); LEDs' thread is not joined at all, though
  `stop` could. Aggregator.cpp:214 joins the distributor's thread
  even without a distributor (`Stops` and `OutlivesMain` name them).
* Aggregator.cpp:157-215: an end in good order does not store the cache; for the messages in it
  SIGTERM is as bad as a crash (`Accounted` counts them as wiped out by a restart).
* Aggregator.cpp:446: `loadCache` trusts `pairs`, `storeCache` writes all values; after a message in
  which they differ the file is read out of step (`BackupIsFaithful` names it). A torn line
  leaves `cache_lock` locked (Aggregator.cpp:150-154).
* PanInterface.cpp:229: short numbers are read without their sign, module 3 is a battery whatever
  the table says, identifiers over 255 lose their upper half (`ReportIsRight`, `OrderIsRight`).
* device_table.h: the modules of device 35 are still in the map when those of 36 are inserted.
* Parameters: `GW_END` is "stopper don't use in protocol", but passes the test of the range
  (Parameters.h:38, Parameters.cpp:100).
* JablotronModule.cpp:144: an event within two seconds of the last has an earlier time than the end
  of that one; a fire reported by the button never ends (`EventIsSeen`, `EndIsSeen`).
* HTTP.cpp:143: the first address of each range is tried twice, and the last one of a whole byte
  not at all (`FindsHosts` is not about that one).
* JSON.cpp:131: the exception for a regulator without a specification is constructed, not
  thrown; the end of the map is used instead (the models have regulators with a specification).
* VPT.cpp:540: a callback that gets no answer leaves the start interval set, and
  `run` never starts the timer again (`InactiveIsSought` names it).

## 4. What is proved

The theorems hold for every value of the constants that satisfies the named
`ASSUME`s of the module: any set of messages, devices or wake-up times, any
limit of the semaphore, any number of losses, commands and restarts. Nothing else
is assumed but what a theorem's own ASSUME says. The `ASSUME`s of a model that is one of
several stand in `MCModules`, `MCRecords`, `MCServices` and `MCStreams`, which instantiate it; they
say that bounds are natural numbers and readings are numbers, that no message is empty, and what
the code fixes (an octet has at most 8 bits, a prefix is 1 to 32, a switch has one of two
outputs). The theorems state all 31 invariants and action properties that the passing runs check;
what is left to TLC is liveness.

Several of them need an induction: over the pieces of a stream, the lines of a file, the bytes
of a message. The library states induction for an operator, which the installed provers cannot
instantiate. `RecursionFacts` states it for sets instead. If something failed, there would be a
least number for which it fails (`LeastNumber`); so a set that has 0, and with each number the
next, has all of them (`Counting`). A recursive function is defined in TLA+ as a choice among
those that satisfy its equation, so that one must be known to exist: `Recursion` makes one of a
beginning and the steps, as functions on sets. `FlattenFacts` applies these to `FlattenSeq`:
where each list ends and where each of its elements is.

### 4.1 AggregatorCache

| Theorem | Statement |
|---|---|
| `Ownership` | `OwnershipInv` always holds |
| `NothingLost` | a data message is in memory, on file, with the server, or was wiped out by a restart, and every line of the file is tracked, if an empty answer is not taken for success |
| `NothingTwice` | a message that the server has twice was sent again because its answer was lost, or came back with the file; whatever counts as success |
| `RemovalIsSafe` | the backup file goes only when the server has all of it (same condition) |
| `Implements` | every behaviour is one of `MessageRelay` (same condition) |

`OneOwner` and `SendableHasTime` are not inductive as they stand: `loadCache` puts the lines of
the file into the cache, so nothing on file may still be with its caller, and the watchdog must
not be at work before the cache is loaded; `sendData` caches a message with the validity its
caller left, which agrees with the stamp only because the branch for an invalid time has set
it. `Strengthening` says these things, and `OwnershipInv` is the conjunction. `Accounted` needs
`FileIsTracked`, as the file is what is left after a restart. `DuplicateHasCause` bounds the
copies at two but says nothing of one copy; `SentOnce` adds that what the server has once,
answered and not reloaded, is neither with its caller nor in memory, so that nobody is left who
could send it. The condition `~EmptyReplyIsOk` is necessary: the run `empty_answer` shows
`RemovedMeansSent` violated without it. `Implements` maps the message's owners (callers, the
cache, `run`, and the file until it is loaded) to the one set `held` of `MessageRelay`, and
shows for each action that it is a step of the abstract specification or leaves its variables
alone.

### 4.2 The streams and the process (`Streams_proofs`)

| Theorem | Statement |
|---|---|
| `Tokens` | the types of `CommandStream`; each queued command has its token; `NeverEmpty`: who has a token finds a command |
| `MessagesInOrder` | `ArriveInOrder` and `TornHasCause`, if no message takes three frames (`TwoFrames`) |
| `StopsClean` | `StopIsClean`, for every configuration: with the four threads it names as exceptions |

* Tokens: every command in the queue has its token of the semaphore, has one that is
  just being given or used, or is one for which `set()` threw; and a command that is being
  queued was cut off a residue with a NUL. So the thread that took a token never goes round
  with `queue_mutex` locked (TCP.cpp:45-54). The types rest on `PushedIsInRet` (what is cut off
  the residue ended with a NUL in it) and on `LeastNumber`, from which `FirstNul` is well
  defined.
* TCP (`OrderInv`): what is unread, `ret` and what is on the wire together, consists of whole
  commands but for its beginning (`Framed`: each piece is followed by the one that belongs
  there); they ascend and come after all that were cut before (`Ascending`), and the server has
  sent them (`Known`). What is in front of the first NUL is then one command, or the rest of
  the one that `init` has torn.
* WebSocket (`FrameInv`): leftover, buffer, frames and what the server has still to send continue
  one another (`Continued`); a message that goes on in another frame ends there
  (`EndsInSecond`, which is where `TwoFrames` is needed: `KeepLeftover` overwrites the leftover,
  line 202); messages ascend across all of these places (`FramesAscend`); and until a connection
  is lost each message sent has been handed over or is in one of them (`OnItsWay`).
  `Frames!TypeOK` is part of it. A message has any length, but that a cut takes one whole message
  needs no induction: if a piece in front of the first NUL were out of place, there would be a
  first such piece (`LeastNumber`), and it would not continue its predecessor.
* Process (`ProcessInv`): what `main` has to do is a suffix of one fixed list of steps. What is
  behind it is done for all enabled parts (`DoneInOrder`), and only what has been started runs,
  or what such a thread starts (`StartedByMain`). A thread that calls the Aggregator therefore
  has all that comes before it in the list, and when the list is empty all joins have returned.

### 4.3 VptDevices

One inductive invariant, `Inv`, gives three theorems. `NoWaitWithLock` rests on
`TimerInUse`: the start interval is set from the start of the timer to the end of its
callback, and `run` goes to `stop()` only when it is not. `SleepIsShortEnough` rests
on `VisitsLocked` (no other thread changes the map during a round, but for
`updateDeviceWakeUp`), on `NoSleepYet` (in the first round nothing was slept) and on
`NextWakeupFits` (the minimum is a lower bound). `ErasureWasDecided` rests on
`DoomedIsReprieved`: a device that is to be erased and is paired was marked after it
was collected.

### 4.4 Distributor, backup file (`Records_proofs`), WebSocketConnection

`Recorded`: what is queued is recorded, about to be, or was kept out of the history by a lock
that could not be had, and what is queued twice has one of three causes. `RepeatHasCause` is violated only in `Push`, long after the search
that failed to find the entry; `PushHasCause` carries the cause there, and `RacesAreNoted` says
that of two calls with the same entry past the search one was noted as a race.

`BackupHolds` is `BackupIsFaithful`, for any messages, values and counts of them, and wherever
a restart cuts the file. That is a statement about the moment after `loadCache`; `BackupInv`
says what is true until then: the cache is sorted by its keys and of the past (`Sorted`,
`Messages`), and the file has the first lines of what `storeCache` had to write, and of the
next line a part at most (`Wrote`). From there on it is about functions. `LinesFacts`: the
lines of the k-th message end at a number that grows with k, a header first and a line for each
value behind it. `LoadingFacts`: each round of the loop begins behind the lines that the last
one took, and the cache has one message for each round. `Restores`: as long as no message
counts more values than it has, the rounds come to the header of every message that was
written; so what is counted rightly comes back (`StoredIsRestored`). If all are, the rounds
come to nothing but headers (`NothingInvented`), and only the line that was cut can be broken
(`StuckIsTorn`).

`WebSocketConnection_proofs.Registration`: `FirstIsRegister` ties what was first on the
connection to the state of `m_socket` and its mutex. `OwnAnswer`: `IdsAgree` says that an id and
the number of its request determine one another in all the places where an answer can be
(on its way, in a frame, in `m_responses`); this needs its ASSUME, that the counter starts
above zero and does not come round: `websocket_first_ids` shows `AnswerIsMine` violated
otherwise. `PendingIsTakenOut` needs no such thing: an id is in `m_pending_requests` only while
a call that uses it is still before its `requestDone`, also where ids have come round. It
is not inductive that a caller is merely not idle: a call that sleeps for the last time has
already been taken out, so `Holds` says where in the loop it must be. `Cleared` is
`RequestsAreCleared`, under the ASSUME of `OwnAnswer`. For a response to have a reason, there
must be one copy of it at most (`OneCopy`: with the server, in one frame, or filed), or a second
one could be filed after its caller had gone; and one number for each request (`SerialsDiffer`).

### 4.5 The sensor modules (`Modules_proofs`)

`PartsRun` says that a behaviour of `ModulesSpec` is a behaviour of each of the six models;
each has an inductive invariant of its own, and the theorems about the whole follow.

| Theorem | Statement |
|---|---|
| `TypesHold` | `ModulesTypeOK` |
| `ValuesHold` | `ActualIsRight`: a virtual value is in its range, or as requested |
| `PairedHold` | `PairedIsRight`: paired sensors and Bluetooth devices are those that were paired, but for the meeting of two threads, an answer that a removal overtook, a restart within a pairing, counts of two digits, and a count file that fails |
| `SettingsHold` | `SettingsAreKept`: refresh time, LEDs and switches are as commands set them |
| `OwnOutput` | `RightSwitch`: `setSwitch` moves its own output only |

* Virtual pairing (`PaInv`): while the two threads have not met, one of them pairs at most
  (`OneAtATime`), the counter and the threads add up to the sensors (`PoolIsRight`), and the
  file has the number of threads whenever nobody writes it, unless it could not be opened
  (`outdated`); until run() has paired again what
  it read, the file, what runs and what is still to come add up (`FileIsRight`). The proof
  corrected the property: a command may pair before run() has restored what the file says,
  and then takes one of those, so what is remembered is at most all the sensors (`Paired`).
  With four sensors of which TLC never saw enough pairings this had held by accident; with
  two it is exercised.
* Virtual values (`VaInv`): who has `value_change_mutex` (`MutexIsHeld`), and that what a
  timer has computed but not yet stored is already in the range.
* Jablotron switches (`SwInv`): the list of devices only grows while a thread is in `setSwitch`
  (`ListGrows`), and who is alone there has built its packet from outputs that nobody changes
  (`AloneFollows`).
* Bluetooth (`BtInv`): a list that is under way, being worked on, or already taken over has
  what is paired and what a command behind it will remove (`ListsAreFollowed`,
  `AnswerIsFollowed`), for any number of commands in the queue.
* Pressure sensor (`PInv`): the seconds since a change are counted, or the counter has come to
  its limit (`WaitIsCounted`), wherever the increment is cut; a question is open only until it
  is answered (`AskedIsOpen`).
* LEDs (`LInv`): recovery comes before everything else, and an order that is alone knows what it
  does to the configuration (`OneGiver`); the configuration is what was asked for and is what
  the last datagram shows (`ConfFollows`).

### 4.6 Devices and server (`Services_proofs`)

Built the same way: `PartsRun`, an invariant for each of the eight models, and the whole.

| Theorem | Statement |
|---|---|
| `TypesHold` | `ServicesTypeOK` |
| `DevicesHold` | `DevicesAreRight`: Jablotron's events, the WeMo switch, the routing of orders |
| `AnswersHold` | `AnswersAreOwn`: answers belong to their questions |
| `SearchHolds` | `FindsHosts`: a search finds every host of its range but perhaps its last |
| `RegulatorHolds` | `RegulatorIsRight`: consent means done, shown means told |
| `Restored` | `RestoredIsClose`: a restored time is wrong by `Round + Delay` at most |
| `PanHolds` | `PanIsRight`: the coordinator's reports and the server's orders keep their meaning |

* PAN (`PanInv`): between two messages nothing is left of the last one, so each of the two
  halves of `PanIsRight` is about one step; what the step does is shown for every `Base` and
  any number of readings. `Quotient`: quotient and rest of a division are the only ones, below
  zero as well. `Powers`, `Digits`: k bytes have `Pow[k]` values, and the number that the bytes
  of n make is n up to a multiple of that, which is why a number of four bytes comes back with
  its sign and a shorter one without. `ParsedFacts`: the loop of `msgFromPAN` is in step with
  the readings as they were written, and the message without its last byte ends within the last
  one. `ReportFacts` and `OrderFacts` put them together with the factors of the device table
  (`Table`), for the readings and the strength of the signal, and for the orders rounded to
  half a unit.
* Parameters (`XInv`): a thread's calls are a stack of any depth up to `MaxDepth`. Only the
  innermost is not about to return (`StackIsRight`), nobody else fills in the object of a call
  that is alone (`AloneIsAlone`), and what such a call has put there, and the answer it
  waits for, are its own (`IsOwn`).
* Regulator (`VInv`): what came from the regulator shows the page it had (`IsContent`), what is
  asked is a value that it can have (`IsRequest`), and a thread that is alone has set up the
  client for its own request, so that consent is to that (`VLinks`).
* Routing: `OrderReachesDevice` is inductive with the types.
* Jablotron (`JInv`): of each event, what a server that goes by time has last (`NewestIsRight`), and
  what it will have once the end that is due is sent (`ResetIsRight`).
* Search (`NInv`): after `tries` rounds the next address is that many behind the first, and each
  host has been found as often as its distance from the first says (`ScanGoesOn`). The
  arithmetic, that a range is an interval and that those with the gateway's prefix are its
  members, is done for each of the widths up to 8 and each length of a range.
* WeMo (`WInv`): in a round that nobody disturbs the other thread is not in its own, and the last
  element of the vector, whatever the others are, is the answer of this round
  (`RoundIsOwn`); the vector is no longer than what was told and what is pushed but not yet
  told (`LengthIsRight`).
* Blackout (`ClockInv`): by itself `RestoredIsClose` says nothing of a message that waits, so the
  invariant adds what its time would become. `OffsetIsRight`: the offset counts from the
  beginning the watchdog has noted or, until it starts, is short of it by no more than the
  round that is under way. `StampIsRight`: a message that has not reached the cache is not
  late. `FileIsCopy`: the file has the times of the cache, so that a restart costs the offset
  but not the time it is computed from.

### 4.7 What is only model-checked

* All liveness: properties under fairness, and ENABLED, are beyond the prover.
* The condition `TwoFrames` of `MessagesInOrder` is an assumption about the server; without it the
  code tears messages (WebSocketServerConnection.cpp:202, section 3.3).
* The conditions of `OwnAnswer` and `Cleared` on the counter of requests, and of the theorems of 4.1
  on empty answers, are not proved but violated by the runs named there.

## 5. What is not modelled, and why

* **The MQTT data module** (`MQTTDataModule`, its parser): turns a line of text into a message and
  sends it, without any state of its own. Of MosqClient, the messages of PAN and the questions
  for parameters are modelled; the library's connection to the broker is not.
* **Parts of modelled components**: the bytes of `sread`; the time between two rounds of
  Bluetooth (the `update` command); the contents of a regulator's time stamp. They touch none of
  the state that the properties are about. An order in the server's answer to a VPT reading
  (VPT.cpp:184) is the same handler on the module's own thread; `VptRequests` has it on the
  thread of the commands only.
* **At the start and end of the process**: exceptions while main creates the parts; the
  threads of the single virtual sensors, which nobody joins.
* **XML, configuration and JSON files, IODaemonMsg and IOcontrol, logging**: conversions and
  input without state. That a message comes out of the XML as it went in is assumed.
  What the backup file loses is modelled: the offset (`BlackoutClock`), and digits and the
  status of values (`BackupFile`).
* **The command line tools' protocol, build, installation and the wifi setup page** are no part of
  what the running program decides.

## 6. Plan

The core was modelled first (Aggregator, connections, Distributor, VPT), then the sensor
modules and the process, then the exchange with devices and server. What is left, in
this order:

1. One composition of `ProcessLife` with `AggregatorCache`, in which the process ends in good
   order while modules still send.
2. `CommandRouter` composed with `WebSocketConnection`, whose receive thread runs the commands.
3. The bytes of `sread`, from which a packet of the dongle is made.
