---------------------------- MODULE MachineHall ----------------------------
(***************************************************************************)
(* A machine hall: its door, and the devices that see the door and tell it *)
(* by the way of their own answers.  A device tells what differs from the  *)
(* answer it has kept, and keeps the new answer only after its messages    *)
(* have been decoded, which may throw.  Answers of different devices are   *)
(* decoded in any order, and the door moves meanwhile.                     *)
(***************************************************************************)
EXTENDS Door

CONSTANT Reporters   \* the devices that see the door

ASSUME ReportersAssumption == Reporters \subseteq {"udku", "escalator", "cabinet"}

VARIABLES
  position,      \* environment: the door as it is
  data_block,    \* the position in the answer each device has kept
  told,          \* history: what each device last told of the door
  current,       \* history: the devices asked since the door last moved
  waived         \* history: an opening that nobody had to accept is over

reports == <<data_block, told, current>>
vars == <<doorVars, reports, position, waived>>

Positions == {"closed", "opened"}

\* A new data block has green signals: closed, but neither to the cabinet.
Unknown == "unknown"
-----------------------------------------------------------------------------
(***************************************************************************)
(* The reports                                                             *)
(***************************************************************************)

\* The cabinet reports the opposite of what the others report.
Byte(r) == IF (position = "opened") = (r = "cabinet") THEN 0 ELSE 1

\* Mutation: only an opening is told.
ReportOpening(r, kept) ==
  /\ IF data_block[r] = position \/ position = "closed"
     THEN Tell(NoAnswer) /\ UNCHANGED told
     ELSE Tell(Byte(r)) /\ told' = [told EXCEPT ![r] = position]
  /\ data_block' = IF kept THEN [data_block EXCEPT ![r] = position] ELSE data_block
  /\ current' = current \cup {r}

Report(r, kept) ==
  /\ IF data_block[r] = position
     THEN Tell(NoAnswer) /\ UNCHANGED told
     ELSE Tell(Byte(r)) /\ told' = [told EXCEPT ![r] = position]
  /\ data_block' = IF kept THEN [data_block EXCEPT ![r] = position] ELSE data_block
  /\ current' = current \cup {r}

RestOfDoor == UNCHANGED <<door, drawn, position, waived, conduction_is_switched_off>>

\* The end of decode_answer_from_device_4_function was reached, or a message
\* threw.  Answers that throw earlier, and no answers, tell nothing.
Answer(r) == Report(r, TRUE) /\ RestOfDoor
AnswerThrown(r) == Report(r, FALSE) /\ RestOfDoor
-----------------------------------------------------------------------------
(***************************************************************************)
(* The door and the dispatcher                                             *)
(***************************************************************************)
DoorMoves ==
  /\ position' \in Positions \ {position}
  /\ current' = {}
  /\ UNCHANGED <<doorVars, data_block, told, waived>>

\* The history notes a door that becomes accepted when it is closed again.
DoorDecodes ==
  /\ DoorPulse
  /\ waived' = \/ waived /\ door'.state = "ACCEPTED"
               \/ /\ door.state = "NOT_ACCEPTED" /\ door'.state = "ACCEPTED"
                  /\ ~door'.x3
  /\ UNCHANGED <<reports, position>>

\* ACCEPT is offered while the door is NOT_ACCEPTED, but a menu may be old
\* when it is used.
DoorAccepted ==
  /\ door.x1
  /\ AcceptDoor
  /\ waived' = (waived /\ door'.state = "ACCEPTED")
  /\ UNCHANGED <<reports, position>>

SwitchConduction ==
  /\ conduction_is_switched_off' = ~conduction_is_switched_off
  /\ UNCHANGED <<reports, position, waived, door, answer_from_device, pulses, drawn>>

Init ==
  /\ DoorInit
  /\ data_block = [r \in Reporters |-> IF r = "cabinet" THEN Unknown ELSE "closed"]
  /\ told = data_block
  /\ position \in Positions
  /\ current = {} /\ waived = FALSE

Next ==
  \/ \E r \in Reporters : Answer(r) \/ AnswerThrown(r)
  \/ DoorMoves \/ DoorDecodes \/ DoorAccepted \/ SwitchConduction

Spec == Init /\ [][Next]_vars

\* The devices are asked in turn, most answers are decoded to their end, and
\* the Photon thread takes its pulses.
FairSpec == /\ Spec
            /\ WF_vars(DoorDecodes)
            /\ \A r \in Reporters : SF_vars(Answer(r))
-----------------------------------------------------------------------------
(***************************************************************************)
(* Properties                                                              *)
(***************************************************************************)

\* Types of the variables.
TypeOK ==
  /\ door \in DoorAutomaton
  /\ answer_from_device \in {NoAnswer, 0, 1} /\ pulses \in 0 .. MaxPulses
  /\ conduction_is_switched_off \in BOOLEAN
  /\ drawn \in {"grey", "NOT_ACCEPTED", "ACCEPTED"}
  /\ position \in Positions
  /\ data_block \in [Reporters -> Positions \cup {Unknown}]
  /\ told \in [Reporters -> Positions \cup {Unknown}]
  /\ current \subseteq Reporters /\ waived \in BOOLEAN

\* The picture is that of the automaton, and an opening that was accepted is
\* no longer shown once it is known to be over, unless it was waived.
DoorShown ==
  /\ drawn = Picture(door.state)
  /\ door.state = "ACCEPTED" /\ ~door.x3 => waived
  /\ door.state = "CLOSED" => ~door.x3

\* Once every device has been asked since the door moved and no pulse waits,
\* the door is known as it is, whatever was overwritten in its buffer on the
\* way.  The exception is exact: a device whose decoding threw after it had
\* told the door does not tell when the door moves back, because it compares
\* with the answer it has kept.
Forgot(r) == told[r] # data_block[r]
DoorAsReported ==
  current = Reporters /\ pulses = 0 /\ (\A r \in Reporters : ~Forgot(r))
    => IF door.x1 THEN door.x3 = (position = "opened") ELSE position = "closed"

\* A door that is found open for the first time, or again after it was found
\* closed, becomes NOT_ACCEPTED.  It passes for accepted at once only if the
\* opening before still waited and conduction is off by now, and after one
\* that closed while conduction was off: that door stays ACCEPTED, closed or
\* open, whatever conduction is then.
OpeningAlarmed ==
  [][/\ ~(door.x1 /\ door.x3) /\ door'.x1 /\ door'.x3
     => \/ door'.state = "NOT_ACCEPTED"
        \/ door.state = "NOT_ACCEPTED" /\ conduction_is_switched_off
        \/ waived]_vars

\* An opening that nobody has accepted is never taken back by reports alone
\* while conduction is on, however often the door opens and closes; and an
\* ACCEPT of a door that has been closed again leaves it closed.
AlarmStands ==
  [][door.state = "NOT_ACCEPTED" /\ door'.state # "NOT_ACCEPTED"
     => IF pulses' # pulses THEN conduction_is_switched_off
        ELSE door'.state = IF door.x3 THEN "ACCEPTED" ELSE "CLOSED"]_vars

\* An opening is alarmed, and the alarm stands until it is answered.
AlarmKept == OpeningAlarmed /\ AlarmStands

\* A door that stays open is shown so in the end, and one that stays closed
\* is known closed, as long as decodings end.
OpenShown ==
  <>[](position = "opened" /\ \A r \in Reporters : ~Forgot(r))
     => <>[](door.x3 /\ drawn # "grey")

\* The door is known as it is and shown as it is known.
DoorKnown == TypeOK /\ DoorShown /\ DoorAsReported
=============================================================================
