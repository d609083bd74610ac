-------------------------------- MODULE Door --------------------------------
(***************************************************************************)
(* The door of a machine hall.  It has no line of its own: the devices of  *)
(* its station that see the door write an answer into its buffer and send  *)
(* the Photon thread a pulse; the handler of the pulse decodes whatever is *)
(* in the buffer then.  The dispatcher accepts an opened door.             *)
(***************************************************************************)
EXTENDS Integers

CONSTANT MaxPulses   \* bound: door pulses waiting in the channel

ASSUME PulsesAssumption == MaxPulses \in Nat \ {0}

VARIABLES
  door,                        \* the automaton
  answer_from_device,          \* the door's buffer: 1 opened, 0 closed
  pulses,                      \* pulses of the door still to be handled
  conduction_is_switched_off,  \* of all devices: there is one button
  drawn                        \* the picture, by the state it was drawn in

doorVars == <<door, answer_from_device, pulses, conduction_is_switched_off,
              drawn>>

NoAnswer == -1

DoorStates == {"OFFLINE", "EXCEPTION", "CLOSED", "NOT_ACCEPTED", "ACCEPTED"}

\* x1: somebody has reported; x2: and without an error; x3: opened; recent:
\* A0_x5(), no longer than the delay since OFFLINE or EXCEPTION was entered -
\* which never happens, as nothing takes x1 or x2 back.
DoorAutomaton == [state : DoorStates, x1 : BOOLEAN, x2 : BOOLEAN,
                  x3 : BOOLEAN, recent : BOOLEAN]

EventAcceptDoor == 1
EventDoorData == 7

-----------------------------------------------------------------------------
\* An opened door out of OFFLINE or EXCEPTION: accepted if that was short.
Reappeared(d) == IF ~d.x3 THEN "CLOSED"
                 ELSE IF d.recent THEN "ACCEPTED" ELSE "NOT_ACCEPTED"

\* Mutation: an opening that ends is taken for accepted.
DoorTargetForgetful(d, event) ==
  IF ~d.x1 THEN "OFFLINE"
  ELSE IF ~d.x2 THEN "EXCEPTION"
  ELSE IF ~d.x3 THEN "CLOSED"
  ELSE IF d.state \in {"OFFLINE", "EXCEPTION"} THEN Reappeared(d)
  ELSE IF d.state = "CLOSED" THEN "NOT_ACCEPTED"
  ELSE IF event = EventAcceptDoor \/ conduction_is_switched_off THEN "ACCEPTED"
  ELSE d.state

\* The target of A0(event).  A closed door does not leave NOT_ACCEPTED.
DoorTarget(d, event) ==
  IF ~d.x1 THEN "OFFLINE"
  ELSE IF ~d.x2 THEN "EXCEPTION"
  ELSE IF d.state \in {"OFFLINE", "EXCEPTION"} THEN Reappeared(d)
  ELSE IF d.state = "CLOSED" THEN IF d.x3 THEN "NOT_ACCEPTED" ELSE "CLOSED"
  ELSE IF d.state = "NOT_ACCEPTED"
       THEN IF event = EventAcceptDoor \/ conduction_is_switched_off
            THEN "ACCEPTED" ELSE "NOT_ACCEPTED"
  ELSE IF d.x3 THEN "ACCEPTED" ELSE "CLOSED"

\* A0_z1 and A0_z2 note the time.
DoorA0(d, event) ==
  LET to == DoorTarget(d, event)
  IN IF to = d.state THEN d
     ELSE [d EXCEPT !.state = to,
                    !.recent = @ \/ to \in {"OFFLINE", "EXCEPTION"}]

\* update_device_widget: closed and unknown look the same.
Picture(state) == IF state \in {"NOT_ACCEPTED", "ACCEPTED"} THEN state
                  ELSE "grey"

Redrawn(d) == IF d.state # door.state THEN Picture(d.state) ELSE drawn

-----------------------------------------------------------------------------
\* Mutation: a report does not replace one that waits.
TellOnce(byte) ==
  IF byte = NoAnswer \/ pulses > 0 THEN UNCHANGED <<answer_from_device, pulses>>
  ELSE answer_from_device' = byte /\ pulses' = 1

\* send_datablock_to_door: the last report is the one the door will decode.
\* A device that has nothing to report passes NoAnswer.
Tell(byte) ==
  IF byte = NoAnswer THEN UNCHANGED <<answer_from_device, pulses>>
  ELSE /\ pulses < MaxPulses
       /\ answer_from_device' = byte
       /\ pulses' = pulses + 1

\* decode_answer_from_device_to_data_block, on the pulse.
DoorPulse ==
  /\ pulses > 0
  /\ pulses' = pulses - 1
  /\ door' = DoorA0([door EXCEPT !.x1 = TRUE, !.x2 = TRUE,
                                 !.x3 = (answer_from_device = 1)],
                    EventDoorData)
  /\ drawn' = Redrawn(door')
  /\ UNCHANGED <<answer_from_device, conduction_is_switched_off>>

\* send_command of ACCEPT, which switched off conduction lets through.
AcceptDoor ==
  /\ door' = DoorA0(DoorA0(door, EventAcceptDoor), EventDoorData)
  /\ drawn' = Redrawn(door')
  /\ UNCHANGED <<answer_from_device, pulses, conduction_is_switched_off>>

\* The constructor; x2 and x3 are not initialised.
DoorInit ==
  /\ door \in [state : {"OFFLINE"}, x1 : {FALSE}, x2 : BOOLEAN, x3 : BOOLEAN,
               recent : {FALSE}]
  /\ answer_from_device = NoAnswer
  /\ pulses = 0
  /\ conduction_is_switched_off \in BOOLEAN
  /\ drawn = "grey"
=============================================================================
