------------------------- MODULE EscalatorAutomaton -------------------------
(***************************************************************************)
(* One metro escalator as the dispatcher's program sees it: the automaton  *)
(* A0 of class metro_escalator, its inputs A0_x0 .. A0_x8, the handlers    *)
(* that feed it (an answer of the station, a dispatcher's command, the     *)
(* properties dialog), and the debouncing of lost answers.                 *)
(*                                                                         *)
(* Every handler runs to completion on the Photon thread, so it is one     *)
(* action.  The device's own thread appears only as NetworkTakes (it       *)
(* empties the request buffer) and as the order in which answers come; the *)
(* exchange between the two threads is modelled in DeviceExchange.         *)
(***************************************************************************)
EXTENDS Integers

CONSTANTS ReconnectsCount, \* RECONNECTS_TO_DEVICE_COUNT: failures forgiven
          Prefs,           \* preferred directions the dispatcher may set
          Commands,        \* commands the dispatcher may give
          Motions,         \* directions in which the escalator may run
          Links            \* how the line to the station may behave

Directions == {"UP", "DOWN", "REVERSE"}

ASSUME ReconnectsAssumption == ReconnectsCount \in Nat
ASSUME PrefsAssumption == Prefs \subseteq Directions /\ Prefs # {}
ASSUME LinksAssumption == Links \subseteq {"mixed", "up", "failing", "down"}
                          /\ "mixed" \in Links

States == {"NOT_READY", "READY_NOT_ACCEPTED", "READY", "STARTING", "RUN",
           "STOPPING", "OFFLINE", "EXCEPTION"}

Movements == {"UP", "DOWN", "STOP"}

ASSUME CommandsAssumption == Commands \subseteq Movements \cup {"ACCEPT", "CHANCEL"}
ASSUME MotionsAssumption == Motions \subseteq {"UP", "DOWN"}

\* The events of A0: the numbers the code passes, by the names of its comments.
EventUp == 3
EventDown == 4
EventStop == 5
EventAccept == 6
EventData == 7
Events == EventUp .. EventData

(***************************************************************************)
(* What A0 reads and writes.  x0: running; x1: displayed direction; x2:    *)
(* not accepted yet; x3: switched to remote control (TU); x4: block  *)
(* circuit closed; x5: device answers; x6: device's last answer was no     *)
(* Modbus error; x8: A0_x8(), lost contact no longer than the delay ago.   *)
(***************************************************************************)
Automaton == [state : States, x0 : BOOLEAN, x1 : Directions, x2 : BOOLEAN,
              x3 : BOOLEAN, x4 : BOOLEAN, x5 : BOOLEAN, x6 : BOOLEAN,
              x8 : BOOLEAN, previous_direction : Directions]

\* One answer to function 4: registers 30001, 30002 and 30004.
Packets == [running : Motions \cup {"NO"}, remote : BOOLEAN, ready : BOOLEAN]

VARIABLES
  esc,                          \* the automaton
  pref_direction,               \* preferred direction of the configuration
  last_failures_count,
  request_for_send_to_device,   \* "none" or the movement waiting to be sent
  widget,                       \* the image on the dispatcher's screen
  link,                         \* environment: behaviour of the line
  synced,                       \* history: the last answer was decoded to the end
  fresh,                        \* history: no decoding or drawing has thrown
                                \* since the image was last drawn
  misses                        \* history: lost answers and errors since the
                                \* counter was cleared, up to the threshold

vars == <<esc, pref_direction, last_failures_count, request_for_send_to_device,
          widget, link, synced, fresh, misses>>

MissBound == ReconnectsCount + 2
-----------------------------------------------------------------------------
(***************************************************************************)
(* The automaton A0                                                        *)
(***************************************************************************)

FromNotReady(a) ==
  IF a.x0 THEN "RUN"
  ELSE IF a.x4 THEN "READY_NOT_ACCEPTED"
  ELSE "NOT_READY"

\* Mutation: the test of A0_x0 is missing.
FromReadyBlind(a, event) ==
  IF ~a.x4 THEN "NOT_READY"
  ELSE IF event \in {EventUp, EventDown} /\ a.x3 THEN "STARTING"
  ELSE a.state

\* A start command is obeyed only in remote control.
FromReady(a, event) ==
  IF ~a.x4 THEN "NOT_READY"
  ELSE IF a.x0 THEN "RUN"
  ELSE IF event \in {EventUp, EventDown} /\ a.x3 THEN "STARTING"
  ELSE a.state

FromReadyNotAccepted(a, event) ==
  IF a.x4 /\ ~a.x0 /\ event = EventAccept THEN "READY" ELSE FromReady(a, event)

FromStarting(a, event) ==
  IF ~a.x4 THEN "NOT_READY"
  ELSE IF a.x0 THEN "RUN"
  ELSE IF event = EventAccept /\ a.x3 THEN "READY"
  ELSE "STARTING"

FromRun(a, event) ==
  IF ~a.x4 THEN "NOT_READY"
  ELSE IF ~a.x0 THEN "READY"
  ELSE IF event = EventStop /\ a.x3 THEN "STOPPING"
  ELSE "RUN"

FromStopping(a, event) ==
  IF ~a.x4 THEN "NOT_READY"
  ELSE IF ~a.x0 THEN "READY"
  ELSE IF event = EventAccept /\ a.x3 THEN "RUN"
  ELSE "STOPPING"

\* Mutation: the delay after a loss of contact is ignored.
FromOfflineAtOnce(a) ==
  IF ~a.x4 THEN "NOT_READY"
  ELSE IF a.x0 THEN "RUN"
  ELSE IF a.x3 /\ ~a.x2 THEN "READY_NOT_ACCEPTED"
  ELSE "READY"

FromOffline(a) ==
  IF ~a.x4 THEN "NOT_READY"
  ELSE IF a.x0 THEN "RUN"
  ELSE IF a.x3 /\ ~a.x2 /\ ~a.x8 THEN "READY_NOT_ACCEPTED"
  ELSE "READY"

\* Unlike FromOffline, the switch of control mode is not consulted.
FromException(a) ==
  IF ~a.x4 THEN "NOT_READY"
  ELSE IF a.x0 THEN "RUN"
  ELSE IF ~a.x2 /\ ~a.x8 THEN "READY_NOT_ACCEPTED"
  ELSE "READY"

\* Where A0(event) leads while the device is in contact.
InContact(a, event) ==
  IF a.state = "NOT_READY" THEN FromNotReady(a)
  ELSE IF a.state = "READY_NOT_ACCEPTED" THEN FromReadyNotAccepted(a, event)
  ELSE IF a.state = "READY" THEN FromReady(a, event)
  ELSE IF a.state = "STARTING" THEN FromStarting(a, event)
  ELSE IF a.state = "RUN" THEN FromRun(a, event)
  ELSE IF a.state = "STOPPING" THEN FromStopping(a, event)
  ELSE IF a.state = "OFFLINE" THEN FromOffline(a)
  ELSE FromException(a)

\* The state after A0(event): every state tests the contact first.
Target(a, event) ==
  IF ~a.x5 THEN "OFFLINE"
  ELSE IF ~a.x6 THEN "EXCEPTION"
  ELSE InContact(a, event)

\* A0_z3, A0_z4 on a start; A0_z2 on entering a ready state.
DirectionOnEntry(a, to, event, pref) ==
  IF to = "STARTING" THEN IF event = EventUp THEN "UP" ELSE "DOWN"
  ELSE IF to \in {"READY", "READY_NOT_ACCEPTED"} /\ pref # "REVERSE" THEN pref
  ELSE a.x1

\* A0_z6 and A0_z7.
FlagOnEntry(a, to) ==
  to = "READY_NOT_ACCEPTED" \/ (a.x2 /\ to # "READY")

\* The actions of the entered state: A0_z2, z6, z7, z8, z9, z10.
Enter(a, to, event, pref) ==
  [a EXCEPT !.state = to,
            !.x1 = DirectionOnEntry(a, to, event, pref),
            !.x2 = FlagOnEntry(a, to),
            !.x8 = @ \/ to \in {"OFFLINE", "EXCEPTION"},
            !.previous_direction = IF to = "RUN" THEN a.x1 ELSE @]

A0(a, event, pref) ==
  IF Target(a, event) = a.state THEN a
  ELSE Enter(a, Target(a, event), event, pref)
-----------------------------------------------------------------------------
(***************************************************************************)
(* The widget: update_device_widget                                        *)
(***************************************************************************)
Colours == {"RED", "YELLOW", "RED_COMMAND", "YELLOW_COMMAND", "GREEN",
            "GREEN_COMMAND"}
Images == [image : Colours, arrow : Directions]
          \cup [image : {"OFFLINE", "EXCEPTION", "TU", "BLOCK"}, arrow : {"NONE"}]

\* Red is not accepted yet, yellow is accepted, green moves.
Colour(a) ==
  IF a.state = "READY_NOT_ACCEPTED" THEN "RED"
  ELSE IF a.state = "READY" THEN "YELLOW"
  ELSE IF a.state = "STARTING" THEN IF a.x2 THEN "RED_COMMAND" ELSE "YELLOW_COMMAND"
  ELSE IF a.state = "RUN" THEN "GREEN"
  ELSE "GREEN_COMMAND"

\* Without contact the state is shown, in local control the label "TU".
Image(a) ==
  IF a.state \in {"OFFLINE", "EXCEPTION"} THEN [image |-> a.state, arrow |-> "NONE"]
  ELSE IF ~a.x3 THEN [image |-> "TU", arrow |-> "NONE"]
  ELSE IF a.state = "NOT_READY" THEN [image |-> "BLOCK", arrow |-> "NONE"]
  ELSE [image |-> Colour(a), arrow |-> a.x1]

\* Otherwise update_device_widget throws "unknown escalator direction".
Drawable(a) ==
  a.state \in {"STARTING", "RUN", "STOPPING"} /\ a.x3 => a.x1 # "REVERSE"

\* Draw a, the new automaton, if the handler finds a difference worth it.
Redraw(a, needed) ==
  /\ widget' = IF needed /\ Drawable(a) THEN Image(a) ELSE widget
  /\ fresh' = IF needed THEN Drawable(a) ELSE fresh
-----------------------------------------------------------------------------
(***************************************************************************)
(* Handling of an answer: decode_answer_from_device_to_data_block          *)
(***************************************************************************)

\* After A0(7): on the switch to remote control the displayed direction
\* becomes the preferred one, whatever the state.
ShowPreferred(a, wasRemote, pref) ==
  IF ~wasRemote /\ a.x3 /\ pref # "REVERSE" THEN [a EXCEPT !.x1 = pref] ELSE a

\* A0(7) and what follows it in the handler; inp is esc with new inputs.
DataRefreshed(inp) ==
  ShowPreferred(A0(inp, EventData, pref_direction), esc.x3, pref_direction)

\* Registers 30001, 30002 and 30004 stored into the inputs.
StoreRegisters(a, p) ==
  [a EXCEPT !.x0 = p.running # "NO",
            !.x1 = IF p.running = "NO" THEN @ ELSE p.running,
            !.x3 = p.remote,
            !.x4 = p.ready]

\* Mutation: one failure fewer is forgiven.
TooManyFailuresEarly == last_failures_count >= ReconnectsCount

TooManyFailures == last_failures_count > ReconnectsCount

\* Mutation: a new control mode alone does not redraw.
RedrawDecodedLess ==
  Redraw(esc', esc'.state # esc.state \/ esc'.x1 # esc.x1)

\* Every handler of an answer redraws on a new state, control or direction.
RedrawDecoded ==
  Redraw(esc', \/ esc'.state # esc.state
               \/ esc'.x3 # esc.x3
               \/ esc'.x1 # esc.x1)

CountMiss == misses' = IF misses < MissBound THEN misses + 1 ELSE misses

\* The device's thread gave up the connection: the answer is empty.
DecodeEmpty ==
  /\ link \in {"mixed", "down"}
  /\ esc' = DataRefreshed([esc EXCEPT !.x5 = @ /\ ~TooManyFailures])
  /\ last_failures_count' = IF TooManyFailures THEN last_failures_count
                            ELSE last_failures_count + 1
  /\ synced' = TRUE
  /\ RedrawDecoded
  /\ CountMiss
  /\ UNCHANGED <<pref_direction, request_for_send_to_device, link>>

\* A Modbus error.  Out of offline it counts at once.
ErrorCounts == TooManyFailures \/ ~esc.x5

\* Mutation: every error resets the counter.
DecodeErrorForgiving ==
  /\ link \in {"mixed", "failing"}
  /\ esc' = DataRefreshed([esc EXCEPT !.x5 = TRUE, !.x6 = @ /\ ~TooManyFailures])
  /\ last_failures_count' = 0
  /\ synced' = TRUE
  /\ RedrawDecoded
  /\ CountMiss
  /\ UNCHANGED <<pref_direction, request_for_send_to_device, link>>

DecodeError ==
  /\ link \in {"mixed", "failing"}
  /\ esc' = DataRefreshed([esc EXCEPT !.x5 = TRUE, !.x6 = @ /\ ~ErrorCounts])
  /\ last_failures_count' = IF ErrorCounts THEN 0 ELSE last_failures_count + 1
  /\ synced' = TRUE
  /\ RedrawDecoded
  /\ CountMiss
  /\ UNCHANGED <<pref_direction, request_for_send_to_device, link>>

\* The echo of a write (functions 6 and 16): contact, but no state.
DecodeWrite ==
  /\ link \in {"mixed", "up"}
  /\ esc' = DataRefreshed([esc EXCEPT !.x5 = TRUE])
  /\ synced' = TRUE
  /\ RedrawDecoded
  /\ UNCHANGED <<pref_direction, last_failures_count, misses, link,
                 request_for_send_to_device>>

Contact(a) == [a EXCEPT !.x5 = TRUE, !.x6 = TRUE]

DecodeState(p) ==
  /\ link \in {"mixed", "up"}
  /\ esc' = DataRefreshed(StoreRegisters(Contact(esc), p))
  /\ last_failures_count' = 0
  /\ misses' = 0
  /\ synced' = TRUE
  /\ RedrawDecoded
  /\ UNCHANGED <<pref_direction, request_for_send_to_device, link>>

\* decode_answer_from_device_4_function throws before the registers (the
\* answer is not for the current request) or after them (message registers
\* out of range, a message without a dictionary entry); x5 is assigned before.
Interrupted == {Contact(esc)} \cup {StoreRegisters(Contact(esc), p) : p \in Packets}

\* After the throw A0(7) is skipped.
DecodeThrown(a) ==
  /\ link = "mixed"
  /\ esc' = a
  /\ last_failures_count' = 0
  /\ misses' = 0
  /\ synced' = FALSE
  /\ fresh' = FALSE
  /\ widget' = widget
  /\ UNCHANGED <<pref_direction, request_for_send_to_device, link>>
-----------------------------------------------------------------------------
(***************************************************************************)
(* The dispatcher                                                          *)
(***************************************************************************)

EventOf(c) == IF c = "UP" THEN EventUp
              ELSE IF c = "DOWN" THEN EventDown
              ELSE IF c = "STOP" THEN EventStop
              ELSE EventAccept

\* send_command: the event of the command, the request, then A0(7).  While
\* conduction is switched off it returns at once (see Conduction), so this is a
\* command given while it is on.
SendCommand(c) ==
  /\ esc' = A0(A0(esc, EventOf(c), pref_direction), EventData, pref_direction)
  /\ request_for_send_to_device' =
       IF c \in Movements THEN c ELSE request_for_send_to_device
  /\ Redraw(esc', esc'.state # esc.state)
  /\ UNCHANGED <<pref_direction, last_failures_count, misses, synced, link>>

\* The OK button of the properties dialog: set_pref_direction in any state.
SetPrefDirection(d) ==
  /\ pref_direction' = d
  /\ esc' = [esc EXCEPT !.x1 = d]
  /\ Redraw(esc', TRUE)
  /\ UNCHANGED <<last_failures_count, misses, request_for_send_to_device,
                 synced, link>>

\* The device's thread takes the waiting request.
NetworkTakes ==
  /\ request_for_send_to_device # "none"
  /\ request_for_send_to_device' = "none"
  /\ UNCHANGED <<esc, pref_direction, last_failures_count, synced, misses,
                 widget, fresh, link>>

\* offline_or_exception_delay seconds have passed since contact was lost.
DelayPasses ==
  /\ esc.x8
  /\ esc' = [esc EXCEPT !.x8 = FALSE]
  /\ UNCHANGED <<pref_direction, last_failures_count, synced, misses, link,
                 request_for_send_to_device, widget, fresh>>

\* The line behaves in one way from now on.
LinkChanges ==
  /\ link = "mixed"
  /\ link' \in Links \ {link}
  /\ UNCHANGED <<esc, pref_direction, last_failures_count, synced, misses,
                 request_for_send_to_device, widget, fresh>>
-----------------------------------------------------------------------------
\* The constructor leaves x0, x3 and x4 uninitialised.
Init ==
  /\ pref_direction \in Prefs
  /\ esc \in [state : {"OFFLINE"}, x0 : BOOLEAN, x1 : {pref_direction},
              x2 : {TRUE}, x3 : BOOLEAN, x4 : BOOLEAN, x5 : {FALSE},
              x6 : {FALSE}, x8 : {FALSE},
              previous_direction : {pref_direction}]
  /\ last_failures_count = 0
  /\ request_for_send_to_device = "none"
  /\ link = "mixed"
  /\ widget = [image |-> "OFFLINE", arrow |-> "NONE"]
  /\ synced = TRUE
  /\ fresh = TRUE
  /\ misses = 0

Decode == \/ DecodeEmpty
          \/ DecodeError
          \/ DecodeWrite
          \/ \E p \in Packets : DecodeState(p)
          \/ \E a \in Interrupted : DecodeThrown(a)

Next == \/ Decode
        \/ \E c \in Commands : SendCommand(c)
        \/ \E d \in Prefs : SetPrefDirection(d)
        \/ NetworkTakes
        \/ DelayPasses
        \/ LinkChanges

Spec == Init /\ [][Next]_vars

(***************************************************************************)
(* The device's thread never stops asking and each answer is decoded, so   *)
(* the kind of answer the line keeps giving is decoded again and again.    *)
(***************************************************************************)
Fairness == WF_vars(/\ link # "mixed"
                    /\ \/ DecodeEmpty
                       \/ DecodeError
                       \/ \E p \in Packets : DecodeState(p))

FairSpec == Spec /\ Fairness
-----------------------------------------------------------------------------
(***************************************************************************)
(* Properties                                                              *)
(***************************************************************************)

\* Types of the variables, and the failure counter within its threshold.
TypeOK ==
  /\ esc \in Automaton
  /\ pref_direction \in Directions
  /\ last_failures_count \in 0 .. (ReconnectsCount + 1)
  /\ request_for_send_to_device \in Movements \cup {"none"}
  /\ link \in Links
  /\ widget \in Images
  /\ synced \in BOOLEAN
  /\ fresh \in BOOLEAN
  /\ misses \in 0 .. MissBound

\* What the state displayed to the dispatcher says about the inputs.
AgreesWithInputs(a) ==
  /\ a.state = "OFFLINE" <=> ~a.x5
  /\ a.state = "EXCEPTION" <=> (a.x5 /\ ~a.x6)
  /\ a.state \in {"READY", "READY_NOT_ACCEPTED", "STARTING"} => a.x4 /\ ~a.x0
  /\ a.state = "STOPPING" => a.x4 /\ a.x0
  /\ a.state = "RUN" => a.x0
  /\ a.state = "NOT_READY" => ~a.x4

\* Whatever answers and commands came in whatever order, the displayed state
\* is the one the inputs describe, unless the last answer's decoding threw
\* and A0(7) was skipped.
StateAgrees == synced => AgreesWithInputs(esc)

\* The variables have their types and the state is what the inputs say.
StateSound == TypeOK /\ StateAgrees

\* The screen shows the automaton as it is.  The handlers redraw only when
\* they find a difference (an answer: state, control or direction; a command:
\* state), so every other change must leave the image as it was.  Only a
\* throw, in a decoding or in the drawing itself, leaves an old image.
ScreenCurrent == fresh => widget = Image(esc)

\* A device in contact is declared lost (x5 or x6 falls) only after
\* RECONNECTS_TO_DEVICE_COUNT + 2 answers without a state, whatever writes,
\* commands and changes of preferred direction came between them.
LostOnlyAfterMisses ==
  [][\/ esc.x5 /\ ~esc'.x5
     \/ esc.x5 /\ esc.x6 /\ ~esc'.x6
     => misses' = MissBound]_vars

\* The automaton follows the edges of the documented state diagram.
Diagram == INSTANCE EscalatorDiagram WITH
             state <- esc.state,
             inputs <- [x0 |-> esc.x0, x2 |-> esc.x2, x3 |-> esc.x3,
                        x4 |-> esc.x4, x5 |-> esc.x5, x6 |-> esc.x6,
                        x8 |-> esc.x8]
FollowsDiagram == Diagram!Spec

\* What the line's behaviour shall look like: silence is shown as OFFLINE, a
\* station that answers only with errors as EXCEPTION, a good line as contact.
Settled ==
  \/ link = "down" /\ esc.state = "OFFLINE"
  \/ link = "failing" /\ esc.state = "EXCEPTION"
  \/ link = "up" /\ esc.state \notin {"OFFLINE", "EXCEPTION"}

\* However the line behaves from some moment on, the dispatcher sees it in the
\* end, and goes on seeing it whatever he commands.
SettlesWithLine == <>[](link # "mixed") => <>[]Settled
=============================================================================
