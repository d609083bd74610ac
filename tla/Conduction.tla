----------------------------- MODULE Conduction -----------------------------
(***************************************************************************)
(* The way of a dispatcher's command: the device's menu, the question      *)
(* asked before a change of direction, the pool of commands, the buttons   *)
(* that send, send all or drop them, the password that switches conduction *)
(* off, and the request slot from which the device's thread takes them.    *)
(*                                                                         *)
(* The device is an escalator: its automaton is that of EscalatorAutomaton *)
(* (the instance E), driven here by answers of a station that may change   *)
(* or fall silent between any two clicks.  A modal question blocks the     *)
(* dispatcher's other windows but not the answers.                         *)
(*                                                                         *)
(* A command that was chosen is named by its place in cmds; 0 is none.     *)
(***************************************************************************)
EXTENDS Integers, Sequences, SequencesExt

CONSTANTS Prefs,       \* preferred directions the dispatcher may set
          Answers,     \* states the station may answer with
          Moves,     \* movements the dispatcher may choose
          MaxCommands  \* bound: movement commands of a behaviour

ASSUME PrefsAssumption == Prefs \subseteq {"UP", "DOWN", "REVERSE"} /\ Prefs # {}
ASSUME AnswersAssumption ==
  Answers \subseteq [running : {"UP", "DOWN", "NO"}, remote : BOOLEAN, ready : BOOLEAN]
ASSUME MovesAssumption == Moves \subseteq {"UP", "DOWN", "STOP"}
ASSUME BoundsAssumption == MaxCommands \in Nat

VARIABLES
  esc, pref_direction,           \* the device: automaton and preference
  recent_stop,                   \* previous_stop_time is within the delay
  conduction_is_switched_off,    \* the device's own flag
  request_for_send_to_device,    \* its slot
  sending_commands_disabled, setting_start_time_disabled, \* globals
  menu,                          \* commands of the open menu
  prompt,                        \* the command asked about
  pool, wnd, rows,               \* the pool, its window and the list shown
  running,                       \* FALSE: an exception ended the program
  cmds,                          \* history: commands chosen, see Chosen
  taken                          \* history: commands the thread has taken

device == <<esc, pref_direction, recent_stop>>
switches == <<conduction_is_switched_off, sending_commands_disabled,
              setting_start_time_disabled>>
window == <<pool, wnd, rows>>
history == <<cmds, taken>>
vars == <<device, request_for_send_to_device, switches, menu, prompt, window,
          running, history>>

Starts == {"UP", "DOWN"}

E == INSTANCE EscalatorAutomaton WITH
       ReconnectsCount <- 0, Commands <- {}, Links <- {"mixed"},
       Motions <- Starts,
       last_failures_count <- 0, link <- "mixed", widget <- "none",
       synced <- TRUE, fresh <- TRUE, misses <- 0

\* confirmed: the question was answered with yes, or the timer gave the
\* command; changed: what the question depends on is not what it was when the
\* command was chosen.
Chosen == [code : E!Movements, confirmed : BOOLEAN, changed : BOOLEAN]
-----------------------------------------------------------------------------
(***************************************************************************)
(* The device                                                              *)
(***************************************************************************)

\* What the question before a start depends on.
Now == [previous |-> esc.previous_direction, recent |-> recent_stop,
        pref |-> pref_direction]

\* Kept with every step that may change it.
Noted(chosen) ==
  IF Now' = Now THEN chosen
  ELSE [r \in DOMAIN chosen |-> [chosen[r] EXCEPT !.changed = TRUE]]

\* A0_z11: leaving RUN notes the time.
NoteStop(a, b) == recent_stop \/ (a.state = "RUN" /\ b.state # "RUN")

Refreshed(inp) ==
  /\ esc' = E!DataRefreshed(inp)
  /\ recent_stop' = NoteStop(esc, esc')
  /\ UNCHANGED <<pref_direction, request_for_send_to_device, switches, menu,
                 prompt, window, running, taken>>
  /\ cmds' = Noted(cmds)

\* An answer with a state, and the last of the failures that count as loss.
Answered(p) == running /\ Refreshed(E!StoreRegisters(E!Contact(esc), p))
Lost == running /\ esc.x5 /\ Refreshed([esc EXCEPT !.x5 = FALSE])

\* conduction_notification_delay has passed since the last stop.
StopForgotten ==
  /\ recent_stop
  /\ recent_stop' = FALSE
  /\ UNCHANGED <<esc, pref_direction, request_for_send_to_device, switches,
                 menu, prompt, window, running, taken>>
  /\ cmds' = Noted(cmds)

\* get_request_for_send_to_device, the thread's own polls left out.
NetworkTakes ==
  /\ running /\ request_for_send_to_device # 0
  /\ taken' = taken \cup {request_for_send_to_device}
  /\ request_for_send_to_device' = 0
  /\ UNCHANGED <<device, switches, menu, prompt, window, running, cmds>>

\* metro_escalator::send_command of the command c, whose request is r, on the
\* device d: the request goes to the slot in whatever state the automaton is.
\* A new state that cannot be drawn is an exception, and nothing catches it.
Device == [esc |-> esc, recent |-> recent_stop,
           slot |-> request_for_send_to_device, ok |-> TRUE]

AfterCommand(a, c) ==
  E!A0(E!A0(a, E!EventOf(c), pref_direction), E!EventData, pref_direction)

\* Mutation: the flag of the device is not asked.
SendOffToo(d, c, r) ==
  IF ~d.ok THEN d
  ELSE LET a == AfterCommand(d.esc, c)
       IN [esc |-> a,
           recent |-> d.recent \/ (d.esc.state = "RUN" /\ a.state # "RUN"),
           slot |-> IF c \in E!Movements THEN r ELSE d.slot,
           ok |-> a.state = d.esc.state \/ E!Drawable(a)]

Send(d, c, r) ==
  IF ~d.ok \/ conduction_is_switched_off THEN d
  ELSE LET a == AfterCommand(d.esc, c)
       IN [esc |-> a,
           recent |-> d.recent \/ (d.esc.state = "RUN" /\ a.state # "RUN"),
           slot |-> IF c \in E!Movements THEN r ELSE d.slot,
           ok |-> a.state = d.esc.state \/ E!Drawable(a)]

DeviceBecomes(d) ==
  /\ esc' = d.esc
  /\ recent_stop' = d.recent
  /\ request_for_send_to_device' = d.slot
  /\ running' = d.ok
-----------------------------------------------------------------------------
(***************************************************************************)
(* The menu and the question                                               *)
(***************************************************************************)
Idle == running /\ prompt = 0

\* get_appropriated_commands
Offered(a) ==
  (IF a.x3 THEN E!Movements ELSE {})
  \cup (IF a.state = "READY_NOT_ACCEPTED" THEN {"ACCEPT"} ELSE {})
  \cup (IF a.state \in {"STARTING", "STOPPING"} THEN {"CHANCEL"} ELSE {})

\* activate_device_menu: the commands offered when it was opened.
OpenMenu ==
  /\ Idle
  /\ menu' = Offered(esc)
  /\ UNCHANGED <<device, request_for_send_to_device, switches, prompt, window,
                 running, history>>

Opposite(c) == IF c = "UP" THEN "DOWN" ELSE "UP"

\* Mutation: only the preferred direction is considered.
AgainstPreferred(c, view) == c \in Starts /\ view.pref = Opposite(c)

\* process_movement_command: soon after a stop a start against the direction
\* in which the escalator ran, later one against the preferred direction.
Against(c, view) ==
  /\ c \in Starts
  /\ IF view.recent THEN view.previous = Opposite(c) ELSE view.pref = Opposite(c)

\* prepare_to_display; without a window it throws, and nothing is shown.
Display == rows' = IF wnd THEN Len(pool') ELSE rows

\* add_command_to_command_pool
AddToPool(r) == pool' = Append(pool, r) /\ Display /\ UNCHANGED wnd

\* activate_device_menu_item for a movement.
ChooseMovement(c) ==
  /\ Idle /\ c \in menu \cap E!Movements /\ Len(cmds) < MaxCommands
  /\ menu' = {}
  /\ cmds' = Append(cmds, [code |-> c, confirmed |-> FALSE, changed |-> FALSE])
  /\ IF Against(c, Now)
     THEN prompt' = Len(cmds') /\ UNCHANGED window
     ELSE AddToPool(Len(cmds')) /\ UNCHANGED prompt
  /\ UNCHANGED <<device, request_for_send_to_device, switches, running, taken>>

\* The answer to the question.  The device is not looked at again.
Confirm ==
  /\ running /\ prompt # 0
  /\ AddToPool(prompt)
  /\ cmds' = [cmds EXCEPT ![prompt].confirmed = TRUE]
  /\ prompt' = 0
  /\ UNCHANGED <<device, request_for_send_to_device, switches, menu, running,
                 taken>>

Decline ==
  /\ running /\ prompt # 0
  /\ prompt' = 0
  /\ UNCHANGED <<device, request_for_send_to_device, switches, menu, window,
                 running, history>>

\* activate_device_menu_item for ACCEPT and CHANCEL: sent at once.  The
\* exception of the drawing is caught here.
ChooseAcceptance(c) ==
  /\ Idle /\ c \in menu \cap {"ACCEPT", "CHANCEL"}
  /\ menu' = {}
  /\ DeviceBecomes([Send(Device, c, 0) EXCEPT !.ok = TRUE])
  /\ UNCHANGED <<pref_direction, switches, prompt, window, taken>>
  /\ cmds' = Noted(cmds)
-----------------------------------------------------------------------------
(***************************************************************************)
(* The pool                                                                *)
(***************************************************************************)

OpenPool ==
  /\ Idle
  /\ wnd' = TRUE /\ rows' = Len(pool)
  /\ UNCHANGED <<device, request_for_send_to_device, switches, menu, prompt,
                 pool, running, history>>

\* set_widget(NULL) frees the list.
ClosePool ==
  /\ Idle /\ wnd
  /\ wnd' = FALSE /\ rows' = 0
  /\ UNCHANGED <<device, request_for_send_to_device, switches, menu, prompt,
                 pool, running, history>>

Without(s, i) == RemoveAt(s, i)

\* The button "send": the selected row's command, which then leaves the pool.
SendSelected(i) ==
  /\ Idle /\ wnd /\ i \in 1 .. rows /\ i <= Len(pool)
  /\ DeviceBecomes(Send(Device, cmds[pool[i]].code, pool[i]))
  /\ IF running' THEN pool' = Without(pool, i) /\ Display
     ELSE UNCHANGED <<pool, rows>>
  /\ UNCHANGED <<pref_direction, switches, menu, prompt, wnd, taken>>
  /\ cmds' = Noted(cmds)

\* The commands of the pool one after the other, each into the same slot.
AllSent ==
  LET sent[n \in 0 .. Len(pool)] ==
        IF n = 0 THEN Device ELSE Send(sent[n - 1], cmds[pool[n]].code, pool[n])
  IN sent[Len(pool)]

\* Mutation: the pool is not emptied.
SendAllKeeping ==
  /\ Idle /\ wnd /\ pool # <<>>
  /\ DeviceBecomes(AllSent)
  /\ UNCHANGED <<pref_direction, switches, menu, prompt, window, taken>>
  /\ cmds' = Noted(cmds)

\* The button "send all"; the pool is emptied after the last command.
SendAll ==
  /\ Idle /\ wnd /\ pool # <<>>
  /\ DeviceBecomes(AllSent)
  /\ IF running' THEN pool' = <<>> /\ Display ELSE UNCHANGED <<pool, rows>>
  /\ UNCHANGED <<pref_direction, switches, menu, prompt, wnd, taken>>
  /\ cmds' = Noted(cmds)

\* The button "drop the command".
DropSelected(i) ==
  /\ Idle /\ wnd /\ i \in 1 .. rows /\ i <= Len(pool)
  /\ pool' = Without(pool, i) /\ Display
  /\ UNCHANGED <<device, request_for_send_to_device, switches, menu, prompt,
                 wnd, running, history>>
-----------------------------------------------------------------------------
(***************************************************************************)
(* Conduction, the morning start, the properties dialog                    *)
(***************************************************************************)

\* apply_sending_commands_to_devices, called by validate_password.
Apply(off) ==
  /\ sending_commands_disabled' = off
  /\ conduction_is_switched_off' = off

\* The dispatcher's password.
EnterPassword ==
  /\ Idle
  /\ Apply(~sending_commands_disabled)
  /\ setting_start_time_disabled' = TRUE
  /\ UNCHANGED <<device, request_for_send_to_device, menu, prompt, window,
                 running, history>>

\* The password that allows the start times to be set as well.
EnterStartTimePassword ==
  /\ Idle
  /\ Apply(~sending_commands_disabled)
  /\ setting_start_time_disabled' = ~sending_commands_disabled
  /\ UNCHANGED <<device, request_for_send_to_device, menu, prompt, window,
                 running, history>>

\* The pulse of the minute that executes a timer command; its exceptions are
\* caught.  A question or an open menu does not hold it up.
TimerStart(c) ==
  /\ running /\ ~sending_commands_disabled /\ Len(cmds) < MaxCommands
  /\ DeviceBecomes([Send(Device, c, Len(cmds) + 1) EXCEPT !.ok = TRUE])
  /\ UNCHANGED <<pref_direction, switches, menu, prompt, window, taken>>
  /\ cmds' = Append(Noted(cmds), [code |-> c, confirmed |-> TRUE, changed |-> FALSE])

SetPrefDirection(d) ==
  /\ Idle /\ d # pref_direction
  /\ pref_direction' = d
  /\ esc' = [esc EXCEPT !.x1 = d]
  /\ UNCHANGED <<recent_stop, request_for_send_to_device, switches, menu,
                 prompt, window, running, taken>>
  /\ cmds' = Noted(cmds)
-----------------------------------------------------------------------------
\* The automaton of a starting program: the constructor leaves x0, x3 and x4
\* uninitialised.
Fresh(pref) == [state : {"OFFLINE"}, x0 : BOOLEAN, x1 : {pref}, x2 : {TRUE},
                x3 : BOOLEAN, x4 : BOOLEAN, x5 : {FALSE}, x6 : {FALSE},
                x8 : {FALSE}, previous_direction : {pref}]

\* The constructor also takes the moment for the time of the last stop, and
\* conduction begins switched off.
Init ==
  /\ pref_direction \in Prefs
  /\ esc \in Fresh(pref_direction)
  /\ recent_stop = TRUE
  /\ conduction_is_switched_off = TRUE
  /\ sending_commands_disabled = TRUE /\ setting_start_time_disabled = TRUE
  /\ request_for_send_to_device = 0
  /\ menu = {} /\ prompt = 0
  /\ pool = <<>> /\ wnd = FALSE /\ rows = 0
  /\ running = TRUE
  /\ cmds = <<>> /\ taken = {}

Next ==
  \/ \E p \in Answers : Answered(p)
  \/ Lost \/ StopForgotten \/ NetworkTakes
  \/ OpenMenu
  \/ \E c \in Moves : ChooseMovement(c)
  \/ Confirm \/ Decline
  \/ \E c \in {"ACCEPT", "CHANCEL"} : ChooseAcceptance(c)
  \/ OpenPool \/ ClosePool
  \/ \E i \in 1 .. MaxCommands : SendSelected(i) \/ DropSelected(i)
  \/ SendAll
  \/ EnterPassword \/ EnterStartTimePassword
  \/ \E c \in Prefs \cap Starts : TimerStart(c)
  \/ \E d \in Prefs : SetPrefDirection(d)

Spec == Init /\ [][Next]_vars
-----------------------------------------------------------------------------
(***************************************************************************)
(* Properties                                                              *)
(***************************************************************************)
Ids == 1 .. MaxCommands

\* Types of the variables.
TypeOK ==
  /\ esc \in E!Automaton /\ pref_direction \in E!Directions
  /\ recent_stop \in BOOLEAN
  /\ conduction_is_switched_off \in BOOLEAN
  /\ sending_commands_disabled \in BOOLEAN
  /\ setting_start_time_disabled \in BOOLEAN
  /\ request_for_send_to_device \in 0 .. Len(cmds)
  /\ menu \subseteq E!Movements \cup {"ACCEPT", "CHANCEL"}
  /\ prompt \in 0 .. Len(cmds)
  /\ pool \in Seq(1 .. Len(cmds)) /\ wnd \in BOOLEAN /\ rows \in 0 .. MaxCommands
  /\ running \in BOOLEAN
  /\ cmds \in Seq(Chosen) /\ Len(cmds) <= MaxCommands
  /\ taken \subseteq Ids

\* A chosen command reaches the device's thread at most once: it never waits
\* in two of the pool, the slot and the question, and one that was taken
\* waits nowhere, whatever the buttons.  Only an exception in the middle of
\* sending leaves a sent command in the pool, and it ends the program.
SentOnce ==
  running =>
    /\ \A i, j \in 1 .. Len(pool) : pool[i] = pool[j] => i = j
    /\ \A i \in 1 .. Len(pool) :
         pool[i] \notin taken \cup {request_for_send_to_device, prompt}
    /\ request_for_send_to_device \notin taken
    /\ prompt \notin taken
    /\ prompt # 0 => prompt # request_for_send_to_device

\* The list on the screen has a row for every command of the pool, so the
\* selected row is the command that is sent: the callbacks refresh it one by
\* one.
RowsMatch == running => rows = IF wnd THEN Len(pool) ELSE 0

\* The devices obey the state of conduction that the main window shows, and
\* start times are set only while commands may be sent.
ConductionAgrees ==
  /\ conduction_is_switched_off = sending_commands_disabled
  /\ ~setting_start_time_disabled => ~sending_commands_disabled

\* With conduction switched off no way leads a command into the slot: not a
\* menu opened before, not a question answered now, not the pool, not the
\* timer.  A request that already waits is still sent.
OffIsQuiet ==
  [][sending_commands_disabled
     => request_for_send_to_device' \in {0, request_for_send_to_device}]_vars

\* What the direction notice asks of a start given now.
MustAsk(c) ==
  \/ c = "UP" /\ (IF recent_stop THEN esc.previous_direction ELSE pref_direction) = "DOWN"
  \/ c = "DOWN" /\ (IF recent_stop THEN esc.previous_direction ELSE pref_direction) = "UP"

\* A start against the direction that would need a confirmation now goes to
\* the slot unconfirmed only if the device has run, has rested or was
\* reconfigured since the command was chosen: the question is asked at the
\* choice and not again at the sending.
UnconfirmedOnlyIfChanged ==
  [][LET r == request_for_send_to_device'
     IN /\ r # 0 /\ r # request_for_send_to_device
        /\ MustAsk(cmds'[r].code)
        => cmds'[r].confirmed \/ cmds[r].changed]_vars

\* The pool, its window and the passwords keep together: one row for a
\* command, one place for it, one state of conduction for all.
PoolSound == TypeOK /\ SentOnce /\ RowsMatch /\ ConductionAgrees
=============================================================================
