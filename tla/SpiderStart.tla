---------------------------- MODULE SpiderStart ----------------------------
(***************************************************************************)
(* The start of the spider: the window and its buttons, the map of lines,  *)
(* stations and devices read from the configuration, their widgets, the    *)
(* devices' threads, the persons, the log, the routing, and the first      *)
(* record.  Whatever fails on the way ends the program.  The threads run   *)
(* before the rest is read: what they tell waits in the channel until the  *)
(* main loop.                                                              *)
(***************************************************************************)
EXTENDS Integers, Sequences, FiniteSets

CONSTANTS Lines, Stations, Devices,  \* the ids the configuration may give
          Kinds,                     \* the kinds of devices in it
          MaxMap                     \* bound: sections of the configuration

ASSUME MapAssumption ==
  /\ (Lines \union Stations \union Devices) \subseteq Nat \ {0}
  /\ Kinds \subseteq {"escalator", "shavr", "udku", "door"} /\ MaxMap \in Nat

\* An entry that is left out, or the end of a container; an iterator that
\* nothing has set.
None == 0
Unset == -1

(* The stages of main, in their order.                                     *)
Stages == <<"globals", "window", "panels", "channel", "images", "fonts", "input",
            "dictionaries", "map", "widgets", "threads", "dispatchers", "log",
            "router", "timer", "routing thread", "first record", "main loop">>

After(s) == Stages[1 + CHOOSE i \in DOMAIN Stages : Stages[i] = s]

MapSection ==
  [kind : {"line"}, id : Lines]
  \union [kind : {"station"}, id : Stations, line : Lines \union {None}]
  \union [kind : Kinds \ {"shavr"}, id : Devices, station : Stations \union {None},
          enabled : BOOLEAN, related : {{}}]
  \union [kind : Kinds \intersect {"shavr"}, id : Devices,
          station : Stations \union {None}, enabled : BOOLEAN,
          related : SUBSET Devices]
  \union [kind : {"settings"}, id : {None}]

VARIABLES
  stage,            \* where main stands: a stage, "exited" or "crashed"
  buttons,          \* what the buttons of the main window call
  lines,            \* the ids of the lines
  stations_ids,     \* of each line: the ids of its stations
  stations,         \* of each station: is it read?
  devices_id,       \* of each station: the ids of its devices, in order
  devices,          \* the devices, with what their sections say
  current_line, current_station,
  device_widgets,   \* the devices that have a widget on the map
  lines_left,       \* the lines whose widgets are not yet created
  threads,          \* the devices whose threads run
  untold,           \* the devices whose thread could not be created
  persons, current_dispatcher,
  routing_thread,
  pulses,           \* what waits in the channel
  records,          \* the log: each record's id and what it tells
  indicator,        \* what the button of the sending of commands shows
  map_sections      \* history: the sections of the map read so far

maps == <<lines, stations_ids, stations, devices_id, devices,
          current_line, current_station, map_sections>>
shown == <<buttons, device_widgets, lines_left, indicator>>
running == <<threads, untold, routing_thread, pulses>>
people == <<persons, current_dispatcher>>
start == <<stage, maps, shown, running, people, records>>

Over == {"exited", "crashed"}
-----------------------------------------------------------------------------
(* The buttons of the main window and their callbacks.                     *)
CommandButtons == {"activate_commands_pool_button_in_main_window",
                   "activate_timer_commands_button_in_main_window"}
LogButtons == {"activate_main_log_button_in_main_window",
               "activate_archive_log_button_in_main_window"}
OtherButtons == {"activate_smena_window",
                 "activate_sending_commands_disabled_button_in_main_window",
                 "activate_exit_button_in_main_window"}

(* The program's flag at the start: no commands are sent.                  *)
sending_commands_disabled == TRUE

StartInit ==
  /\ stage = "globals" /\ buttons = {}
  /\ lines = {} /\ stations_ids = [l \in Lines |-> {}]
  /\ stations = {} /\ devices_id = [s \in Stations |-> <<>>]
  /\ devices = {}
  /\ current_line = None /\ current_station = Unset
  /\ device_widgets = {} /\ lines_left = {}
  /\ threads = {} /\ untold = {}
  /\ persons = {} /\ current_dispatcher = None
  /\ routing_thread = FALSE /\ pulses = {}
  /\ records = <<>> /\ indicator = "none" /\ map_sections = <<>>

(* PtExit ends the process and its threads.                                *)
Exits(how) ==
  /\ stage' = how
  /\ threads' = {} /\ routing_thread' = FALSE /\ pulses' = {}
  /\ UNCHANGED <<maps, shown, untold, people, records>>

(* Anything that can fail before the main loop: an object, a widget, an    *)
(* image, a file, a section with a wrong entry, the timer.                 *)
StartFails ==
  /\ stage \notin Over \union {"routing thread", "first record", "main loop"}
  /\ Exits("exited")

Goes == stage' = After(stage)
Passes(s) == stage = s /\ Goes /\ UNCHANGED <<maps, shown, running, people, records>>

(* The containers exist and the signal of a broken connection is ignored.  *)
GlobalsMade     == Passes("globals")
WindowMade      == Passes("window")
ChannelAttached == Passes("channel")
ImagesLoaded    == Passes("images")
FontsLoaded     == Passes("fonts")
InputAttached   == Passes("input")
DictionariesLoaded == Passes("dictionaries")
RouterLoaded    == Passes("router")
TimerCreated    == Passes("timer")

CreatePanels ==
  /\ stage = "panels" /\ Goes
  /\ buttons' = CommandButtons \union LogButtons \union OtherButtons
  /\ UNCHANGED <<maps, device_widgets, lines_left, indicator, running, people, records>>
-----------------------------------------------------------------------------
(* load_map.                                                               *)
IsDevice(s) == s.kind \in Kinds

LineOf(s) == IF s.line = None THEN current_line ELSE s.line
StationOf(s) == IF s.station = None THEN current_station ELSE s.station

LoadLine(s) ==
  /\ s.kind = "line" /\ s.id \notin lines
  /\ lines' = lines \union {s.id} /\ current_line' = s.id
  /\ UNCHANGED <<stations_ids, stations, devices_id, devices, current_station>>

LoadStation(s) ==
  /\ s.kind = "station" /\ s.id \notin stations /\ LineOf(s) \in lines
  /\ stations' = stations \union {s.id}
  /\ stations_ids' = [stations_ids EXCEPT ![LineOf(s)] = @ \union {s.id}]
  /\ current_station' = s.id
  /\ UNCHANGED <<lines, devices_id, devices, current_line>>

(* A cabinet's escalators are devices read before it.                      *)
LoadDevice(s) ==
  /\ IsDevice(s) /\ StationOf(s) \in stations
  /\ ~ \E d \in devices : d.id = s.id
  /\ s.related \subseteq {d.id : d \in devices}
  /\ devices' = devices \union {[id |-> s.id, kind |-> s.kind, station |-> StationOf(s),
                                 enabled |-> s.enabled, related |-> s.related]}
  /\ devices_id' = [devices_id EXCEPT ![StationOf(s)] = Append(@, s.id)]
  /\ UNCHANGED <<lines, stations_ids, stations, current_line, current_station>>

(* The report's directory and the sound: read, and nothing else here.      *)
LoadSettings(s) ==
  /\ s.kind = "settings"
  /\ UNCHANGED <<lines, stations_ids, stations, devices_id, devices,
                 current_line, current_station>>

(* The current station's iterator is set by nothing but a station: before  *)
(* the first one a device without a station finds any value there.         *)
UnsetStation(s) == IsDevice(s) /\ StationOf(s) = Unset

ReadMap(s) ==
  /\ stage = "map" /\ Len(map_sections) < MaxMap
  /\ ~UnsetStation(s)
  /\ LoadLine(s) \/ LoadStation(s) \/ LoadDevice(s) \/ LoadSettings(s)
  /\ map_sections' = Append(map_sections, s)
  /\ UNCHANGED <<stage, shown, running, people, records>>

ReadUnset(s) ==
  /\ stage = "map" /\ Len(map_sections) < MaxMap /\ UnsetStation(s)
  /\ \E how \in Over : Exits(how)

MapEnds ==
  /\ stage = "map" /\ Goes
  /\ current_line' = None /\ current_station' = None
  /\ lines_left' = lines
  /\ UNCHANGED <<lines, stations_ids, stations, devices_id, devices, map_sections,
                 buttons, device_widgets, indicator, running, people, records>>
-----------------------------------------------------------------------------
(* create_widget of a line, create_wnd of its stations in the order of     *)
(* their ids: the devices' widgets, then of each cabinet the places of its *)
(* escalators, that must have their widgets by now.                        *)
ListedIn(s) == {devices_id[s][i] : i \in DOMAIN devices_id[s]}
ByNow(l, s) ==
  device_widgets \union UNION {ListedIn(r) : r \in {q \in stations_ids[l] : q <= s}}
Placed(l) ==
  \A s \in stations_ids[l] : \A d \in devices :
    d.id \in ListedIn(s) => d.related \subseteq ByNow(l, s)

(* The lines come in the order of a hash table.                            *)
CreateLine(l) ==
  /\ stage = "widgets" /\ l \in lines_left /\ Placed(l)
  /\ device_widgets' = device_widgets \union UNION {ListedIn(s) : s \in stations_ids[l]}
  /\ lines_left' = lines_left \ {l}
  /\ UNCHANGED <<stage, maps, buttons, indicator, running, people, records>>

NotPlaced(l) ==
  /\ stage = "widgets" /\ l \in lines_left /\ ~Placed(l)
  /\ Exits("exited")

LinesEnd ==
  /\ stage = "widgets" /\ lines_left = {} /\ Goes
  /\ UNCHANGED <<maps, shown, running, people, records>>
-----------------------------------------------------------------------------
GetsThread(d) == d.enabled

(* pthread_create for each enabled device, that may fail with a message.   *)
CreateThreads ==
  /\ stage = "threads" /\ Goes
  /\ \E failed \in SUBSET {d \in devices : GetsThread(d)} :
       /\ threads' = {d.id : d \in {c \in devices : GetsThread(c)} \ failed}
       /\ untold' = {d.id : d \in failed}
  /\ UNCHANGED <<maps, shown, routing_thread, pulses, people, records>>

(* A thread tells of an answer, or that the device is lost.                *)
DevicePulse ==
  /\ \E d \in threads \ pulses : pulses' = pulses \union {d}
  /\ UNCHANGED <<stage, maps, shown, threads, untold, routing_thread, people, records>>

(* The persons, and who is on duty: a person read before, or nobody.       *)
LoadPerson ==
  /\ stage = "dispatchers" /\ persons = {} /\ persons' = {1}
  /\ UNCHANGED <<stage, maps, shown, running, current_dispatcher, records>>

LoadCurrent ==
  /\ stage = "dispatchers"
  /\ \E id \in {0, 1} :
       current_dispatcher' = IF id \in persons THEN id ELSE None
  /\ UNCHANGED <<stage, maps, shown, running, persons, records>>

PersonsEnd ==
  /\ stage = "dispatchers" /\ Goes
  /\ UNCHANGED <<maps, shown, running, people, records>>

(* The month's records, and the ids go on from the last of them.           *)
LoadLog ==
  /\ stage = "log" /\ Goes
  /\ \E last \in {0, 1} : records' = [i \in 1 .. last |-> [id |-> i, tells |-> "former"]]
  /\ UNCHANGED <<maps, shown, running, people>>

(* Routing may be disabled, or its thread not created.                     *)
CreateRouting ==
  /\ stage = "routing thread" /\ Goes
  /\ routing_thread' \in BOOLEAN
  /\ UNCHANGED <<maps, shown, threads, untold, pulses, people, records>>

Tell(what) == records' = Append(records, [id |-> Len(records) + 1, tells |-> what])

(* SYSTEM_STARTED, the window is shown, the start's sound is played.       *)
FirstRecord ==
  /\ stage = "first record" /\ Goes
  /\ Tell("started")
  /\ indicator' = IF sending_commands_disabled THEN "red" ELSE "green"
  /\ UNCHANGED <<maps, buttons, device_widgets, lines_left, running, people>>

(* PtMainLoop: only here the pulses are taken.                             *)
HandlesAt == {"main loop"}

HandlePulse ==
  /\ stage \in HandlesAt
  /\ \E d \in pulses :
       /\ pulses' = pulses \ {d}
       /\ IF Len(records) < 3 THEN Tell("device") ELSE UNCHANGED records
  /\ UNCHANGED <<stage, maps, shown, threads, untold, routing_thread, people>>

StartNext ==
  \/ StartFails \/ GlobalsMade \/ WindowMade \/ CreatePanels \/ ChannelAttached
  \/ ImagesLoaded \/ FontsLoaded \/ InputAttached \/ DictionariesLoaded
  \/ \E s \in MapSection : ReadMap(s) \/ ReadUnset(s)
  \/ MapEnds
  \/ \E l \in Lines : CreateLine(l) \/ NotPlaced(l)
  \/ LinesEnd \/ CreateThreads \/ DevicePulse
  \/ LoadPerson \/ LoadCurrent \/ PersonsEnd \/ LoadLog \/ RouterLoaded
  \/ TimerCreated \/ CreateRouting \/ FirstRecord \/ HandlePulse
-----------------------------------------------------------------------------
DeviceIds == {d.id : d \in devices}

StartTyped ==
  /\ stage \in {Stages[i] : i \in DOMAIN Stages} \union Over
  /\ buttons \subseteq CommandButtons \union LogButtons \union OtherButtons
  /\ lines \subseteq Lines /\ stations_ids \in [Lines -> SUBSET Stations]
  /\ stations \subseteq Stations
  /\ \A s \in Stations : devices_id[s] \in Seq(Devices)
  /\ devices \subseteq [id : Devices, kind : Kinds, station : Stations,
                        enabled : BOOLEAN, related : SUBSET Devices]
  /\ current_line \in Lines \union {None}
  /\ device_widgets \subseteq Devices /\ lines_left \subseteq Lines
  /\ threads \subseteq Devices /\ untold \subseteq Devices /\ pulses \subseteq Devices
  /\ persons \subseteq {1} /\ current_dispatcher \in persons \union {None}
  /\ routing_thread \in BOOLEAN
  /\ indicator \in {"none", "red", "green"}
  /\ map_sections \in Seq(MapSection)

(* What the configuration says: a station without a line belongs to the    *)
(* last line section before it, a device without a station to the last     *)
(* station section before it.                                              *)
IdBefore(kind, i) ==
  LET before == {j \in 1 .. i - 1 : map_sections[j].kind = kind}
  IN  map_sections[CHOOSE j \in before : \A k \in before : k <= j].id

StationSaid(i) ==
  IF map_sections[i].station = None THEN IdBefore("station", i)
  ELSE map_sections[i].station
LineSaid(i) ==
  IF map_sections[i].line = None THEN IdBefore("line", i) ELSE map_sections[i].line

SaidOf(kinds) == {i \in DOMAIN map_sections : map_sections[i].kind \in kinds}

(* The map is what the configuration says, and every device stands in the  *)
(* list of one station once: the widgets are made from the lists, and a    *)
(* device in none would have a thread and no widget to draw.               *)
MapAsSaid ==
  /\ \A l \in Lines : stations_ids[l] =
       {map_sections[i].id : i \in {j \in SaidOf({"station"}) : LineSaid(j) = l}}
  /\ \A i \in SaidOf(Kinds) :
       \E d \in devices : /\ d.id = map_sections[i].id
                          /\ d.station = StationSaid(i)
  /\ Cardinality(devices) = Cardinality(SaidOf(Kinds))
  /\ \A s \in Stations :
       /\ ListedIn(s) = {d.id : d \in {c \in devices : c.station = s}}
       /\ Cardinality(ListedIn(s)) = Len(devices_id[s])

(* A thread, and so a pulse, belongs to an enabled device that is read and *)
(* has its widget; in the main loop every enabled device has its thread,   *)
(* or a window told that it has not.                                       *)
ThreadsSound ==
  /\ threads \union untold \union pulses \subseteq
       {d.id : d \in {c \in devices : c.enabled}} \intersect device_widgets
  /\ stage = "main loop" =>
       /\ threads \union untold = {d.id : d \in {c \in devices : c.enabled}}
       /\ device_widgets = DeviceIds
       /\ indicator = "red"

(* The first record of this start comes after those of the former ones and *)
(* before any of the devices, however early their threads have told of     *)
(* them, and the ids follow each other.                                    *)
StartedFirst ==
  /\ \A i \in DOMAIN records : records[i].id = i
  /\ \A i \in DOMAIN records :
       records[i].tells = "device" =>
         \E j \in 1 .. i - 1 : records[j].tells = "started"

StartSound == StartTyped /\ MapAsSaid /\ ThreadsSound /\ StartedFirst
=============================================================================
