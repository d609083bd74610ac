# Specifications of the SCAD Modus "spider"

The spider is the dispatcher's console of a metro line: it watches and commands
the escalators, the remote controls of older escalators (UDKU), the power
transfer cabinets (SHAVR) and the doors of the machine halls of many stations.
Each station has a gateway (`modbus_srv`) that polls the station's devices over
a serial line and answers the spider over TCP.

    Photon thread             one thread per device           station gateway
    windows, automata   <-->  buffers, pulses, socket   <-->  connection threads
    timer's pulse, lists                                      buffers, mutexes
    log and its files         routing thread   <- routes ->   routing thread
                                                              serial line's thread
                                                                     |
                                                                  devices

A second program of the repository, the objects storage, keeps the channels of
a telephone exchange in a database and is measured by a generator of requests.

This directory holds TLA+ modules of these programs, the TLC configurations that
check them on small instances, and proofs, checked by TLAPS, for all instances.
`PROJECT.json` maps every definition to the lines it stands for and lists the
hazards, each at its line, with the properties that would show it.

## 1. Inventory

| Component | State | Operations | Interacts with | Correct when | Modules |
|---|---|---|---|---|---|
| Escalator of the spider | inputs `A0_x0 .. A0_x8`, `A0_state`, failures, direction, widget | decode an answer, `A0`, command, properties dialog, redraw | its buffers, log, door | state agrees with inputs, losses are debounced, the picture is current, the documented diagram is followed | `EscalatorAutomaton`, `EscalatorDiagram` |
| UDKU of the spider | the same, from four independent signals | the same, in another order | the same | the same; the direction is the contactor's | `Udku` |
| Power cabinet of the spider | two supplies, eight lines, a command's mark, picture | decode, menu, send, cancel, draw | pool, slot, door | shown as known; no known double supply | `PowerCabinet` |
| Door of a machine hall, panels of devices | the door's automaton and buffer; window and widgets by type | report, decode, accept; open, close, update | all devices of the hall | known and shown as it is; alarm kept; no destroyed widget used | `Door`, `MachineHall`, `DevicePanel` |
| Device's network thread | request slot, current request, answer, clock flag, failures | connect, take, exchange, publish, give up | Photon thread by pulses, gateway by socket | a command's fate is known, an answer stands by its request, silence is noticed | `DeviceExchange` |
| Menu, question, pool, passwords | chosen commands, question, pool and its window, conduction | choose, answer, send one or all, drop, switch off | the escalator, its slot | a command goes once; off means off; a start against the direction is asked about | `Conduction` |
| Timer's pulse, morning start, settings | the list, its acceptance, last minute; `config.ini` | pulse, generate, accept, execute; save, load, check | devices' slots | only an accepted list of the day is executed, each command once, in its minute; the file stays loadable | `MorningStart`, `DeviceSettings` |
| Station gateway | request, answer, copy for polls, mutexes, condition, per device | receive, queue, wait, exchange, publish | connections, serial line | a connection gets its own answer, a command is sent once, polls follow the line | `StationGateway` |
| Messages | the gateway's fifo and id, the spider's last id; the last answers of UDKU and cabinet | make from differences, add, poll, forget | log | each message logged once; what is told adds up to the last answer | `MessageRing`, `GatewayMessages` |
| Log and its windows | records, month, filter, files; list, dialog, report | insert, filter, rotate, save, load; open, choose, report | disk, every device | no record leaves the disk, shown what was chosen | `MainLog`, `LogWindow` |
| Routing failover | current gateway, test hosts, at both ends | echo, pass on, change the route | each other | a route is given up for cause; a working gateway is found | `Failover` |
| Start of the spider | stages, dictionaries, lines, stations, devices, threads | read, check, link, create | all containers | nothing is used before it is there | `SpiderStart`, `DeviceTypes`, `DeviceSettings` |
| Objects storage, generator | channels, groups' counters, listeners; calls | register, occupy, free, check | messages | a channel has one holder, counters count, calls leave nothing behind | `ObjectsStorage`, `RequestsGenerator` |
| Sockets, serial port, watchdog, sound, alerts, shift and dispatchers, system settings, emulators, lines switcher, former versions | - | - | - | - | see section 8 |

What is hard here: the Photon thread, a thread per device and the gateway's
threads share single-slot buffers, each under its own mutex; answers are late,
lost, errors or too many; connections are made again; minutes pass without a
pulse; ids wrap; decodings throw half-way; files are written in place and the
program may end in between; two searches for a route see each other as outages.

## 2. Modules and the code

**EscalatorAutomaton.** `esc` is the record of the automaton's fields: `x0`
motion, `x1` direction, `x2` *not yet accepted*, `x3` remote control, `x4`
readiness, `x5` contact with the gateway, `x6` of the gateway with the device,
`x8` conduction.  `FromReady` and its like are the rows of the switch in `A0`.
The actions are the handlers: `DecodeEmpty`, `DecodeError`, `DecodeState`,
`DecodeThrown`, the echo of a write, `send_command`, the properties dialog, and
the choice of the line's behaviour.  `widget` is what was last drawn; `fresh`,
`synced` and `misses` are histories.  **EscalatorDiagram** is
`docs/escalator_state_machine.mmd` as an abstract specification, implemented by
the automaton (`FollowsDiagram`).  **Udku** EXTENDS EscalatorAutomaton, whose
code `udku.cpp` repeats, with its own decoding, order of storing and redrawing:
every answer that is no error, the echo of a write included, is contact with the
device and sets its failures to zero (udku.cpp:912-930), which the escalator's
echo does not.

**DeviceExchange.** One action of either thread is what it does between two
operations on a lock: `Take`, `Build`, `Store`, `SetCurrent`, `Exchange`,
`Publish`, `SendPulse`, `GiveUp`.  `pending` holds answers of earlier requests.

**Conduction** drives an instance of EscalatorAutomaton with the menu, the modal
question, the pool, the passwords.  A chosen command is its place in `cmds`.

**MorningStart** on **DeviceSettings.** `TimerPulse` is the whole handler of a
pulse in a new minute: cleaning at 23:59, building at 00:00, executing.  The
dialogs save the settings of all devices into the file entry by entry, and a
saving may fail after any of them; a start loads and checks the file.

**StationGateway.** A connection's steps are the places where it blocks: receive,
queue mutex, transfer mutex, condition, mutex again, send.  The serial thread
takes the request (the poll if there is none), exchanges, publishes.  `LinePoll` is a
request that equals the serial line's own poll without being the socket's, as a
UDKU's has: its exchange signals nobody.

**MessageRing** numbers the messages in the device's order, which neither program
knows; ids are what they see.  **GatewayMessages** makes the messages of a UDKU
and a cabinet from the differences of two answers; `heard` is what a listener who
adds up the messages believes.  **MCMessages** composes both.

**MachineHall** on **Door:** devices keep their last answer, tell the door what
differs, and may throw between the two.  **DevicePanel:** widgets belong to the
device *type*; `StoredBeforeThrow` is a decoding that stores its block and throws
before the panel's update, and `missed` says what that left behind.  **MCHall** composes them.

**PowerCabinet:** `shavr` is the automaton; `pool`, the slot and the menu hold
commands with the lines they connect; `c.old` marks those chosen before a change.

**MainLog:** the list, the month's file and the archives as sets of serials,
writing in place with crashes between the steps.  **LogWindow:** windows, filter
dialog, pointers to destroyed widgets.  **MCLog** composes them.

**Failover:** both ends' routing threads, with echoes that need both routes.
**DeviceTypes**, **SpiderStart:** files revealed section by section; the stages
of `main` in order.  **MCStart** composes the three.

**ObjectsStorage:** the storage with the extremeDB wrapper, its loop of messages
and callbacks.  **RequestsGenerator:** the generator and the storage with the
mock wrapper.  **MCObjectsStorage** composes the two builds.

A composing module has a selector (`followed`, `watched`, `built`): its parts are
independent in the code, or different programs, and a behaviour follows one of
them, so that one run checks both without multiplying their states.

## 3. Runs

| Run | Properties | What it shows |
|---|---|---|
| `escalator` | `StateSound`, `ScreenCurrent`, `LostOnlyAfterMisses`, `FollowsDiagram`, `SettlesWithLine` | any mixture of answers, thrown decodings, commands, settings |
| `udku` | `ShownRight`, `MovesByRule` | the four signals of a UDKU in any combination, answers, echoes and misses; with conduction off only ACCEPT reaches it |
| `cabinet` | `CabinetShown`, `NoKnownDouble`, `MarkStands` | the picture, the mark of a command, what may be connected after the lines changed |
| `hall` | `ShownAsKnown`, `AlarmKept`, `OpenShown` | the door behind answers that overwrite each other; panels opened and closed in any order, and decodings that throw before or after storing |
| `device_exchange` | `CommandsKept`, `AnswersPaired`, `LineDecoded` | both threads at the granularity of the locks |
| `conduction` | `PoolSound`, `OffIsQuiet`, `UnconfirmedOnlyIfChanged` | menus, questions, pool and passwords over a changing escalator |
| `morning_start` | `ListKept`, `SettingsKept`, `AcceptedThisList` | buttons and settings between any two pulses, failing savings, starts in the day |
| `station_gateway` | `AnswersMatch`, `SentOnce`, `CommandsAnswered`, `StatusFollowsLine` | two connections with a command each, the serial thread, unsignalled wakings, a UDKU's own poll |
| `messages` | `MessagesSound`, `LogComplete`, `OnlyDifferences` | the ring at its wrap with losses and restarts; the messages made from differences |
| `log` | `LogSound`, `FilesSound`, `Logged`, `ChosenIsShown` | filter, rotation and saving with crashes; the windows and the filter's dialog |
| `failover` | `SearchSound`, `SearchEnds`, `ReadAndStarted` | two searches against each other; the start over files with gaps and faults |
| `objects_storage` | `ProgramSound`, `GivenOnce`, `LeftBehind`, `CallsGoOn` | holders, counters and callbacks, no channel in two answers; what a call leaves behind |

## 4. Bounds

- `Escalator.cfg`: 1 forgiven failure (the code's 3): the automaton compares, it
  does not count further.  Without DOWN as a command, which is UP mirrored, and
  without CHANCEL, which makes the event of ACCEPT; `Udku.cfg` has CHANCEL, with
  no forgiven failure and no line that settles.
- `PowerCabinet.cfg`: the escalator in the third position, the one whose lines
  the drawing does not compare completely, and one waiting command.
- `MCHall.cfg`: a UDKU and an escalator, three door pulses, two UDKUs and a
  cabinet with panels, two contents of a block.
- `DeviceExchange.cfg`: two commands (the second overwrites the first), one
  setting of the clock, one pulse on its way, one late answer, two failures to a
  reconnection.
- `MCConduction.cfg`: two chosen commands; idle, moving and locally controlled
  answers.
- `MCMorningStart.cfg`: days of two hours of two minutes, which have a midnight, a
  last minute and a minute that is neither; two days; one further start.
- `StationGateway.cfg`: two connections and two commands are the least that
  contend for the queue; one of the requests may be a UDKU's own poll
  (`AsksLine`).  The theorems are for any number of connections and commands.
- `MCMessages.cfg`: 7 ids and a fifo of 4 contain every relation of the first,
  the last and the kept id; 13 messages go around and on.  `MaxBehind` is real:
  with more messages between two answers than ids outside the fifo the code
  cannot tell them apart.
- `MCLog.cfg`: two records, three months, two stations of one device.
- `MCStart.cfg`: two gateways, at most 4 changes of the network, at most 4
  sections of a file, two of each id.
- `MCObjectsStorage.cfg`: the six trunk groups of the code with two or three
  channels, one task per client; the mock's counter wraps at 12 instead of 2049,
  which is the same modulo 7.

## 5. Fairness

- Escalator: the kind of answer that the line keeps giving is decoded again and
  again; the device's thread never ends and every pulse is handled.
- Exchange: the device's thread runs (each socket call has a timeout) and the
  Photon thread handles pulses; nothing obliges the dispatcher.
- Gateway: the serial thread runs and a connection sends what it has (weak); a
  connection that waits for a mutex gets it in its turn (strong): QNX serves the
  longest waiter of a priority, and all threads have one.  Requests, failures and
  unsignalled wakings are not fair.
- Hall: the Photon thread takes its pulses; the devices are asked in turn and not
  every decoding throws (strong).
- Log: the timer's pulses come, and not every write fails (strong).
- Failover: each routing thread runs.  Generator: neither program stops while the
  other waits for it.

The line, the network and the devices are never fair: liveness is stated under
`<>[]` of their behaviour.

## 6. Proofs

The statements are for every value of the constants allowed by the named
assumptions beside them.  None of the invariants is inductive as the runs state
it; every proof module defines the strengthening, which TLC checked first on the
run's instance, and has one step per action under it.

**Escalator_proofs.**  Automaton: `IInv` adds to `StateSound` that the pending mark
goes with the state and that the failure counter never runs ahead of the answers
without a state; from it `StateSoundness`, `LossDebounced`.  `ScreenIsCurrent`
needs a lemma per kind of redrawing: whatever a handler changes without drawing
leaves the image the same.  `ImplementsDiagram` proves `Spec => FollowsDiagram`:
the initial states map to the diagram's, each answer makes one of its moves, a
command two, everything else none.  The UDKU reuses lemmas and invariant, with
`FollowsContactor` (the direction is that of the contactor while it moves), for
`UdkuShownRight` and `UdkuMovesByRule`, the refinement included.  Morning start:
`Ticks` relates the remembered minute to the clock, `Lists` the list's birth and
acceptance to the day, and the file differs from the configuration only in the
settings the dialogs write: `ListIsKept`, `SettingsAreKept`,
`AcceptedBeforeExecuted`, for days of any length.

**PowerCabinet_proofs.**  A waiting command that is not known to be outdated found
both inputs free (`PoolFree`, `SlotFree`), a mark is only in contact:
`CabinetIsShown`, `DoubleUnknown`, `MarkIsKept`.

**MachineHall_proofs.**  `Contact` and `Delivered` tie the door to its buffer,
`Asked` and `Buffered` the buffer to what the devices told.  `KnownAsItIs` and
`HallIsShown` have a hypothesis, `SeenUprightly`: some device reports the door and
none is a cabinet, which tells the door byte inverted.  `AlarmIsKept` and the
panels' `PanelIsSound` (for all devices, types and contents) have none.

**DeviceExchange_proofs.**  `CommandsAreKept`: only the newest command waits in the
slot, newer than what the thread holds, which is newer than what was sent.
`AnswersArePaired`: from the exchange on the current request is the one exchanged.

**Conduction_proofs.**  `Places` and `AskedOrSame` (what waits in the pool was asked
about, or is not against the direction, or the device has changed) give
`PoolIsSound`, `OffStaysQuiet`, `AskedBeforeStart`.  "Send all" sends in a loop;
that it keeps the invariant is an induction, carried out as a least
counterexample with the library's well-foundedness of the naturals.

**Gateway_proofs**, the gateway and the messages it keeps. `Locks` says who holds which
mutex, `Unsent` that a command still to be put, or put and not exchanged, was not sent,
`Delivery` whose answer is in which buffer: `TypeCorrect`, `AnswersMatched`,
`CommandSentOnce`, `WaitsAlone`. Ring: the fifo is a gapless end of the messages
(`Contiguous`, `Numbered`), and the spider's id is as far behind the newest id as its
last message behind the newest (`Follows`), modulo the ring: `IdsMeanTheSame`,
`LogIsComplete`. They rest on `BehindAssumption`, that a fifo and the messages between
two answers fit into the ids. Messages: `HeardInv` says that the UDKU is compared with
its last answer, and that a cabinet whose automaton can speak was: `EveryChangeIsHeard`,
`NewsAreDifferences`; `MessagesAreSound` is both, for the composition the run checks.

**Start_proofs.**  Search: hosts asked before the present one, all of them when the
route is about to change, were missed since the route was set (`AskedInVain`):
`RoutesChangeForCause`.  Files: both iterators stand at the last section of their
kind, and a section without an owner has one before it, which no later section
changes (`CurrentsSaid`, `OwnersRead`, `MapCurrentsSaid`, `MapOwnersRead`);
so what is loaded is what the text says (`DictionariesHoldWhatFilesSay`).
Start: every station is in a line, every device in a station's list under an id of
its own (`MapConnected`), so that the widgets of all lines are those of all devices
before the first thread runs (`WidgetsDone`, `ThreadsDone`), and the main loop has
its first record (`RecordsDone`): `StartInOrder`, and with the files
`ReadAndStartedInOrder`, the run's invariant.

**Stores_proofs**, the log and the objects storage.  List and files (`ListInv`): a
program that does not run has nothing in memory, ids grow with the time unless a
numbering started again (`Increasing`), what was read from the file or written to it
is in the list or in the archive of a closed month (`ReadIsKept`), and archives are of
months before the log's unless the program ended between closing a month and saving
(`MonthsClosed`).  Windows (`WindowInv`): the rows of the dialog are those of the
stations chosen in it, and there is no draft without it (`DraftOfDialog`).  They give
`LogIsSound`, `FilesAreSound` (over every crash in a rotation and in a save) and
`WhatIsChosenIsShown`.

The storage (`StorageInv`) needs that the counters of messages are in their range and
that nothing is to be sent while it registers (`StorageCounts`); each handler of a
request is shown to give free channels only, one of a trunk group, and to answer with
one of them; only a call that is neither local nor long distance takes one of each of
two groups, and the one it is not told of is counted in `vague`.  `ChannelsAreGivenOnce` has an invariant of its own beside it
(`GivenInv`): whatever an answer named is held, and what is newly named was free before
the step (`NamedNew`).  The
generator (`GeneratorInv`): in each state of the automaton which flags are set
(`FlagsOfState`), which request is asked and which answers may come (`RequestOfState`,
`AnswerOfState`); and, of a call none of whose messages was lost, how it ended and
what it holds, state by state and message by message (`EndedBy`, `HasA`, `HasB`,
`HasP`, `Pointed`).  With it the automaton moves as `Goes` says, whatever is received.
`ProgramIsSound` is for the program that is built, and `CallsLeaveBehind` what the
next call finds.  A first proof of `GeneratorInv` failed at `Serve`: a storage that
had lost the reply to its message was allowed to serve the request in it; it serves
now only what has arrived.

The log's `set_filtering` and the flattening of lists are recursive functions.  That
such a function exists on every length, and what it computes, is shown from a least
counterexample, as in `Conduction_proofs` (`Least`, `UpTo`, `ChoosesExists`,
`JoinsExists`).

Only model-checked is the liveness (`SettlesWithLine`, `LineDecoded`,
`CommandsAnswered`, `StatusFollowsLine`, `OpenShown`, `Logged`, `SearchEnds`,
`CallsGoOn`): the proof system has neither fairness rules nor ENABLED.  Every other
property of a run is stated by a theorem.  No module declares a RECURSIVE operator.

## 7. What the modelling showed

The properties say precisely what the code does, these places included:

- Escalator: the comment on `A0_x2`, "state accepted" (escalator.cpp:114), says
  the opposite of the code.  A preferred direction REVERSE is drawn as a throw
  (escalator.h:90, escalator.cpp:744).  CHANCEL moves the automaton but leaves a
  command that waits in the slot (escalator.cpp:1087).
- Morning start: a list generated after the cleaning of 23:59 survives into the
  next day; commands stay in the list after execution; the hour 0, which the
  dialog offers, is refused at the next start.
- Ring: at the wrap the newest message waits for a later answer (`>=` in
  escalator.cpp:1547), and an answer that begins with the last id repeats it
  (escalator.cpp:1498 makes it 0).  A message without text drops those before it.
- Cabinet: shavr.cpp:341 overwrites whether an escalator of the cabinet runs, so
  that this interlock never forbids a switching; the door byte is inverted; the gateway's counter index is shifted (metro_shavr.cpp:677-700).
- UDKU: the type's norm is read with another block's index
  (devices_types.cpp:150-170).
- Gateway: a woken connection may be given a poll's answer (`OwnAnswer` says when).
- Log window: a report that cannot be opened is closed and reported as built.
- Objects storage: the search by coordinates never reports success
  (extreamedb_database_wrapper.cpp:720-748), so that nothing is freed, contrary to
  ListQuery.txt 38-44 and 95-98; one loop of messages never ends
  (`StopsWithOneFree` says when).  The share of used channels is
  computed in integers, used / total * 100: it is 0 while a channel is free, and
  as the first channel is never given, overuse is never set, although the comment
  of handlers.c:88-89 has it set above the upper limit.  No property says so; the
  model has the division as it is.  The generator leaves
  channels and call pointers occupied (`LeftBehind` says when).
- Gateway: a connection that asks for a UDKU's serial default waits for ever with
  the queue (main.cpp:432-435), and every command behind it; `CommandsAnswered`
  excludes that case by name.  The spider does not send that request.
- Panels: after a decoding that throws behind the storing of its block the open
  panel shows the former block until the next answer is decoded to its end
  (`Behind`); never a light of a device that is lost.
- Log: a rotation whose archive cannot be written keeps the list, so that the next
  save still has the month; `FilesSound` would show the contrary.

## 8. Not modelled

The byte handling of sockets and serial port (only outcomes), CRC, layouts and
texts of windows; the gateway's watchdog (writes a port in a loop); sound and
alerts (detached players, an unused file); the shift's dialog and the
dispatchers' persons (one record with a chosen time; no button saves them); the
dialog of the dictionaries, which nothing opens; system settings (constants); the
emulators (test doubles); the lines switcher (a start dialog that writes
settings); the three Linter wrappers of the objects storage, which lack
operations and no longer build, and its unit tests; `spider27_old`,
`modbus_srv_old` and other former versions; documents, publications, converters.
