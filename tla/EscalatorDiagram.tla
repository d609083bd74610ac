-------------------------- MODULE EscalatorDiagram --------------------------
(***************************************************************************)
(* What an escalator's automaton promises: the state diagram               *)
(* docs/escalator_state_machine.mmd.  The inputs belong to the outside     *)
(* world and change as they like; the state only moves along an edge whose *)
(* guard the inputs satisfy.  The diagram gives its guards no priority, so *)
(* it allows more than one edge where the code chooses.  A dispatcher's    *)
(* command makes two moves, one for the command (event 3 to 6) and one for *)
(* the data (event 7); a decoded answer makes one; an answer whose         *)
(* decoding fails makes none.                                              *)
(***************************************************************************)
EXTENDS Integers

VARIABLES state,  \* the state of the diagram
          inputs  \* x0, x2, x3, x4, x5, x6, x8 as the code names them

Connected == {"NOT_READY", "READY_NOT_ACCEPTED", "READY", "STARTING", "RUN",
              "STOPPING"}

Stopped == {"READY_NOT_ACCEPTED", "READY", "STARTING"}
Moving == {"RUN", "STOPPING"}

LosesContact(s, t, i) ==
  /\ s \in Connected
  /\ (t = "OFFLINE" /\ ~i.x5) \/ (t = "EXCEPTION" /\ ~i.x6)

BecomesReady(s, t, i) ==
  s = "NOT_READY" /\ ((t = "READY_NOT_ACCEPTED" /\ i.x4 /\ ~i.x0) \/ (t = "RUN" /\ i.x0))

ReadyChanges(s, t, i) ==
  s \in Stopped /\ ((t = "NOT_READY" /\ ~i.x4) \/ (t = "RUN" /\ i.x0))

MotionChanges(s, t, i) ==
  s \in Moving /\ ((t = "NOT_READY" /\ ~i.x4) \/ (t = "READY" /\ ~i.x0))

\* Edges labelled CMD_UP, CMD_DOWN, CMD_STOP and CMD_ACCEPT.
Commanded(s, t, i, event) ==
  \/ s \in {"READY_NOT_ACCEPTED", "READY"} /\ t = "STARTING" /\ event \in {3, 4} /\ i.x3
  \/ s = "READY_NOT_ACCEPTED" /\ t = "READY" /\ event = 6
  \/ s = "STARTING" /\ t = "READY" /\ event = 6 /\ i.x3 /\ ~i.x0
  \/ s = "RUN" /\ t = "STOPPING" /\ event = 5 /\ i.x3
  \/ s = "STOPPING" /\ t = "RUN" /\ event = 6 /\ i.x3 /\ i.x0

LeavesOffline(s, t, i) ==
  /\ s = "OFFLINE" /\ i.x5
  /\ \/ t = "EXCEPTION" /\ ~i.x6
     \/ t = "NOT_READY" /\ ~i.x4
     \/ t = "READY_NOT_ACCEPTED" /\ i.x3 /\ ~i.x2 /\ i.x4 /\ ~i.x0 /\ ~i.x8
     \/ t = "READY" /\ (~i.x3 \/ i.x2 \/ i.x8) /\ i.x4 /\ ~i.x0
     \/ t = "RUN" /\ i.x0

LeavesException(s, t, i) ==
  /\ s = "EXCEPTION"
  /\ \/ t = "OFFLINE" /\ ~i.x5
     \/ t = "NOT_READY" /\ i.x6 /\ ~i.x4
     \/ t = "READY_NOT_ACCEPTED" /\ ~i.x2 /\ i.x6 /\ ~i.x0 /\ ~i.x8
     \/ t = "READY" /\ (i.x2 \/ i.x8) /\ i.x6 /\ ~i.x0
     \/ t = "RUN" /\ i.x6 /\ i.x0

Edge(s, t, i, event) ==
  \/ LosesContact(s, t, i)
  \/ BecomesReady(s, t, i)
  \/ ReadyChanges(s, t, i)
  \/ MotionChanges(s, t, i)
  \/ Commanded(s, t, i, event)
  \/ LeavesOffline(s, t, i)
  \/ LeavesException(s, t, i)

Move(s, t, i, event) == t = s \/ Edge(s, t, i, event)

\* x2 and x8 are changed by entering a state, so guards read them before.
Before(i, j) == [j EXCEPT !.x2 = i.x2, !.x8 = i.x8]

Init == state = "OFFLINE" /\ ~inputs.x5

Decoded == Move(state, state', Before(inputs, inputs'), 7)

CommandSent ==
  \E event \in 3 .. 6, mid \in Connected \cup {"OFFLINE", "EXCEPTION"} :
    /\ Move(state, mid, Before(inputs, inputs'), event)
    /\ Move(mid, state', Before(inputs, inputs'), 7)

Next == Decoded \/ CommandSent

Spec == Init /\ [][Next]_<<state, inputs>>
=============================================================================
