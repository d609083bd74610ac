------------------------- MODULE MachineHall_proofs -------------------------
(***************************************************************************)
(* Theorems about MachineHall for every set of devices that see the door   *)
(* and every number of pulses that may wait, and about DevicePanel for     *)
(* every number and kind of devices, as MCHall puts the two side by side.  *)
(***************************************************************************)
EXTENDS MCHall, TLAPS

-----------------------------------------------------------------------------
(***************************************************************************)
(* Lemmas about the door's automaton                                       *)
(***************************************************************************)

\* The fields of a door, for the provers.
LEMMA DoorFields ==
  ASSUME NEW d \in DoorAutomaton
  PROVE  /\ d.state \in DoorStates
         /\ d.x1 \in BOOLEAN /\ d.x2 \in BOOLEAN /\ d.x3 \in BOOLEAN
         /\ d.recent \in BOOLEAN
  BY DEF DoorAutomaton

\* New inputs, before A0.
LEMMA InputsStored ==
  ASSUME NEW d \in DoorAutomaton, NEW v \in BOOLEAN
  PROVE  LET e == [d EXCEPT !.x1 = TRUE, !.x2 = TRUE, !.x3 = v]
         IN  /\ e \in DoorAutomaton /\ e.state = d.state /\ e.recent = d.recent
             /\ e.x1 /\ e.x2 /\ e.x3 = v
  BY DEF DoorAutomaton

\* One A0 of a door that has been reported: no input changes, the state is
\* the target, and contact, once there, is never lost again.
LEMMA DoorA0Result ==
  ASSUME NEW d \in DoorAutomaton, NEW event, d.x1, d.x2
  PROVE  LET e == DoorA0(d, event)
         IN  /\ e \in DoorAutomaton /\ e.state = DoorTarget(d, event)
             /\ e.state \in {"CLOSED", "NOT_ACCEPTED", "ACCEPTED"}
             /\ e.x1 = d.x1 /\ e.x2 = d.x2 /\ e.x3 = d.x3
             /\ e.recent = d.recent
<1>1. DoorTarget(d, event) \in {"CLOSED", "NOT_ACCEPTED", "ACCEPTED"}
  BY DoorFields DEF DoorTarget, Reappeared, DoorStates
<1> DEFINE to == DoorTarget(d, event)
<1>2. to \in {"CLOSED", "NOT_ACCEPTED", "ACCEPTED"}
  BY <1>1
<1>3. (d.recent \/ to \in {"OFFLINE", "EXCEPTION"}) = d.recent
  BY <1>2, DoorFields
<1> HIDE DEF to
<1>4. CASE to = d.state
  <2>1. DoorA0(d, event) = d
    BY <1>4 DEF DoorA0, to
  <2>2. QED
    BY <1>2, <1>4, <2>1 DEF to
<1>5. CASE to # d.state
  <2>1. DoorA0(d, event) = [d EXCEPT !.state = to, !.recent = d.recent]
    BY <1>3, <1>5 DEF DoorA0, to, DoorAutomaton
  <2>2. QED
    BY <1>2, <2>1 DEF DoorAutomaton, DoorStates, to
<1>6. QED
  BY <1>4, <1>5
-----------------------------------------------------------------------------
(***************************************************************************)
(* The invariant                                                           *)
(***************************************************************************)

\* The door is OFFLINE until somebody has reported it, and never again; it
\* never sees an error, so that the delay after a loss never runs.
Contact ==
  /\ door.x1 => door.x2 /\ door.state \in {"CLOSED", "NOT_ACCEPTED", "ACCEPTED"}
  /\ ~door.x1 => door.state = "OFFLINE"
  /\ ~door.recent

\* An empty channel has been decoded: the door knows what its buffer holds.
Delivered ==
  /\ door.x1 => answer_from_device # NoAnswer
  /\ answer_from_device = NoAnswer => pulses = 0
  /\ pulses = 0 /\ answer_from_device # NoAnswer
       => door.x1 /\ door.x3 = (answer_from_device = 1)

\* A device that has been asked since the door moved has found the position in
\* the answer it keeps, or has told it.
Asked ==
  \A r \in current : data_block[r] = position \/ told[r] = position

\* The buffer holds what one of the devices told last; an untouched buffer
\* means that nobody had an opening to tell.
Buffered ==
  IF answer_from_device = NoAnswer
  THEN \A r \in Reporters : told[r] = "closed"
  ELSE \E r \in Reporters : (answer_from_device = 1) = (told[r] = "opened")

IInv == TypeOK /\ DoorShown /\ Contact /\ Delivered

\* The invariant holds at the start.
LEMMA InitIInv == Init => IInv
<1> SUFFICES ASSUME Init PROVE IInv
  OBVIOUS
<1>1. /\ door \in DoorAutomaton /\ door.state = "OFFLINE" /\ ~door.x1
      /\ ~door.recent
  BY DEF Init, DoorInit, DoorAutomaton, DoorStates
<1>2. TypeOK
  <2>1. data_block \in [Reporters -> Positions \cup {Unknown}]
    BY DEF Init, Positions
  <2>2. pulses \in 0 .. MaxPulses
    BY PulsesAssumption DEF Init, DoorInit
  <2>3. waived \in BOOLEAN /\ conduction_is_switched_off \in BOOLEAN
    BY DEF Init, DoorInit
  <2>4. QED
    BY <1>1, <2>1, <2>2, <2>3 DEF Init, DoorInit, TypeOK
<1>3. DoorShown
  BY <1>1 DEF Init, DoorInit, DoorShown, Picture
<1>4. QED
  BY <1>1, <1>2, <1>3 DEF Init, DoorInit, IInv, Contact, Delivered

\* What a report leaves alone, and what it does to the buffer.
LEMMA ReportStep ==
  ASSUME IInv, NEW r \in Reporters, Answer(r) \/ AnswerThrown(r)
  PROVE  /\ UNCHANGED <<door, drawn, position, waived, conduction_is_switched_off>>
         /\ \/ /\ data_block[r] = position
               /\ UNCHANGED <<answer_from_device, pulses, told>>
            \/ /\ data_block[r] # position
               /\ answer_from_device' = Byte(r)
               /\ pulses < MaxPulses /\ pulses' = pulses + 1
               /\ told' = [told EXCEPT ![r] = position]
         /\ data_block' \in {data_block, [data_block EXCEPT ![r] = position]}
         /\ current' = current \cup {r}
<1>1. PICK k \in BOOLEAN : Report(r, k) /\ RestOfDoor
  BY DEF Answer, AnswerThrown
<1>2. Byte(r) # NoAnswer
  BY DEF Byte, NoAnswer
<1>3. QED
  BY <1>1, <1>2 DEF Report, RestOfDoor, Tell

\* Every step keeps the invariant.
LEMMA NextIInv == IInv /\ [Next]_vars => IInv'
<1> SUFFICES ASSUME IInv, [Next]_vars PROVE IInv'
  OBVIOUS
<1> USE DEF IInv
<1>0. door \in DoorAutomaton /\ pulses \in 0 .. MaxPulses /\ MaxPulses \in Nat
  BY PulsesAssumption DEF TypeOK
<1>1. ASSUME NEW r \in Reporters, Answer(r) \/ AnswerThrown(r) PROVE IInv'
  <2>1. /\ UNCHANGED <<door, drawn, position, waived, conduction_is_switched_off>>
        /\ \/ UNCHANGED <<answer_from_device, pulses, told>>
           \/ /\ answer_from_device' = Byte(r)
              /\ pulses < MaxPulses /\ pulses' = pulses + 1
              /\ told' = [told EXCEPT ![r] = position]
        /\ data_block' \in {data_block, [data_block EXCEPT ![r] = position]}
        /\ current' = current \cup {r}
    BY <1>1, ReportStep
  <2>2. Byte(r) \in {0, 1}
    BY DEF Byte
  <2>3. /\ answer_from_device' \in {NoAnswer, 0, 1} /\ pulses' \in 0 .. MaxPulses
    BY <1>0, <2>1, <2>2 DEF TypeOK
  <2>4. /\ told' \in [Reporters -> Positions \cup {Unknown}]
        /\ data_block' \in [Reporters -> Positions \cup {Unknown}]
    BY <2>1 DEF TypeOK
  <2>5. TypeOK'
    BY <2>1, <2>3, <2>4 DEF TypeOK
  <2>6. Delivered'
    BY <1>0, <2>1, <2>2 DEF Delivered, NoAnswer
  <2>7. QED
    BY <2>1, <2>5, <2>6 DEF DoorShown, Contact
<1>2. CASE DoorMoves
  BY <1>2 DEF DoorMoves, doorVars, TypeOK, DoorShown, Contact, Delivered, Positions
<1>3. CASE DoorDecodes
  <2> DEFINE e == [door EXCEPT !.x1 = TRUE, !.x2 = TRUE,
                               !.x3 = (answer_from_device = 1)]
  <2>1. /\ e \in DoorAutomaton /\ e.state = door.state /\ e.recent = door.recent
        /\ e.x1 /\ e.x2 /\ e.x3 = (answer_from_device = 1)
    BY <1>0, InputsStored
  <2>2. door' = DoorA0(e, EventDoorData)
    BY <1>3 DEF DoorDecodes, DoorPulse
  <2> HIDE DEF e
  <2>3. /\ door' \in DoorAutomaton /\ door'.state = DoorTarget(e, EventDoorData)
        /\ door'.state \in {"CLOSED", "NOT_ACCEPTED", "ACCEPTED"}
        /\ door'.x1 /\ door'.x2 /\ door'.x3 = (answer_from_device = 1)
        /\ door'.recent = door.recent
    BY <2>1, <2>2, DoorA0Result
  <2>4. /\ drawn' = Picture(door'.state)
    BY <1>3 DEF DoorDecodes, DoorPulse, Redrawn, DoorShown
  <2>5. door'.state = "CLOSED" => ~door'.x3
    BY <2>1, <2>3 DEF DoorTarget, Reappeared, EventDoorData, EventAcceptDoor
  <2>6. door'.state = "ACCEPTED" /\ ~door'.x3 => waived'
    <3>1. SUFFICES ASSUME door'.state = "ACCEPTED", ~door'.x3
                   PROVE  waived'
      OBVIOUS
    <3>2. ~e.x3 /\ DoorTarget(e, EventDoorData) = "ACCEPTED"
      BY <2>1, <2>3, <3>1
    <3>3. e.state = "NOT_ACCEPTED"
      BY <2>1, <3>2 DEF DoorTarget, Reappeared
    <3>4. QED
      BY <1>3, <2>1, <3>1, <3>3 DEF DoorDecodes
  <2>7. DoorShown'
    BY <2>4, <2>5, <2>6 DEF DoorShown
  <2>8. drawn' \in {"grey", "NOT_ACCEPTED", "ACCEPTED"}
    BY <2>4 DEF Picture
  <2>9. pulses > 0 /\ pulses' = pulses - 1 /\ answer_from_device' = answer_from_device
    BY <1>3 DEF DoorDecodes, DoorPulse
  <2>10. /\ conduction_is_switched_off' \in BOOLEAN
         /\ UNCHANGED <<data_block, told, current, position>>
    BY <1>3 DEF DoorDecodes, DoorPulse, reports, TypeOK
  <2>11. waived' \in BOOLEAN
    BY <1>3 DEF DoorDecodes, TypeOK
  <2>12. TypeOK'
    BY <1>0, <2>3, <2>8, <2>9, <2>10, <2>11 DEF TypeOK
  <2>13. Contact' /\ Delivered'
    BY <1>0, <2>3, <2>9 DEF Contact, Delivered
  <2>14. QED
    BY <2>7, <2>12, <2>13
<1>4. CASE DoorAccepted
  <2> DEFINE e == DoorA0(door, EventAcceptDoor)
  <2>1. door.x1 /\ door.x2
    BY <1>4 DEF DoorAccepted, Contact
  <2>2. /\ e \in DoorAutomaton /\ e.state = DoorTarget(door, EventAcceptDoor)
        /\ e.x1 = door.x1 /\ e.x2 = door.x2 /\ e.x3 = door.x3
        /\ e.recent = door.recent
    BY <1>0, <2>1, DoorA0Result
  <2>3. door' = DoorA0(e, EventDoorData)
    BY <1>4 DEF DoorAccepted, AcceptDoor
  <2> HIDE DEF e
  <2>4. /\ door' \in DoorAutomaton /\ door'.state = DoorTarget(e, EventDoorData)
        /\ door'.state \in {"CLOSED", "NOT_ACCEPTED", "ACCEPTED"}
        /\ door'.x1 = door.x1 /\ door'.x2 = door.x2 /\ door'.x3 = door.x3
        /\ door'.recent = door.recent
    BY <2>1, <2>2, <2>3, DoorA0Result
  <2>5. /\ drawn' = Picture(door'.state)
    BY <1>4 DEF DoorAccepted, AcceptDoor, Redrawn, DoorShown
  <2>6. door'.state = "CLOSED" => ~door'.x3
    BY <2>1, <2>2, <2>4 DEF DoorTarget, Reappeared, EventDoorData, EventAcceptDoor
  <2>7. door'.state = "ACCEPTED" => door'.x3
    BY <2>1, <2>2, <2>4 DEF DoorTarget, Reappeared, EventDoorData, EventAcceptDoor
  <2>8. DoorShown'
    BY <2>5, <2>6, <2>7 DEF DoorShown
  <2>9. drawn' \in {"grey", "NOT_ACCEPTED", "ACCEPTED"}
    BY <2>5 DEF Picture
  <2>10. UNCHANGED <<answer_from_device, pulses, conduction_is_switched_off,
                     data_block, told, current, position>>
    BY <1>4 DEF DoorAccepted, AcceptDoor, reports
  <2>11. waived' \in BOOLEAN
    BY <1>4 DEF DoorAccepted, TypeOK
  <2>12. TypeOK'
    BY <2>4, <2>9, <2>10, <2>11 DEF TypeOK
  <2>13. Contact' /\ Delivered'
    <3>1. Contact'
      BY <2>1, <2>4 DEF Contact
    <3>2. Delivered'
      BY <2>1, <2>4, <2>10 DEF Delivered
    <3>3. QED
      BY <3>1, <3>2
  <2>14. QED
    BY <2>8, <2>12, <2>13
<1>5. CASE SwitchConduction
  <2>1. conduction_is_switched_off' \in BOOLEAN
    BY <1>5 DEF SwitchConduction, TypeOK
  <2>2. UNCHANGED <<door, answer_from_device, pulses, drawn, position, waived, reports>>
    BY <1>5 DEF SwitchConduction
  <2>3. TypeOK'
    BY <2>1, <2>2 DEF reports, TypeOK
  <2>4. DoorShown' /\ Contact' /\ Delivered'
    BY <2>2 DEF reports, DoorShown, Contact, Delivered
  <2>5. QED
    BY <2>3, <2>4
<1>6. CASE UNCHANGED vars
  BY <1>6 DEF vars, doorVars, reports, TypeOK, DoorShown, Contact, Delivered
<1>7. QED
  BY <1>1, <1>2, <1>3, <1>4, <1>5, <1>6 DEF Next

\* Every behaviour keeps the invariant.
THEOREM Invariant == Spec => []IInv
  BY InitIInv, NextIInv, PTL DEF Spec

\* The picture is that of the automaton, and no accepted opening outlives the
\* opening itself unless it was waived.
THEOREM PictureSound == Spec => [](TypeOK /\ DoorShown)
  BY Invariant, PTL DEF IInv
-----------------------------------------------------------------------------
(***************************************************************************)
(* The door as reported.  A power cabinet tells the door byte inverted, so *)
(* the theorem is about halls whose door some device sees and no cabinet.  *)
(***************************************************************************)
SeenUprightly == Reporters # {} /\ "cabinet" \notin Reporters

ReportsInv == Asked /\ Buffered

\* Every step keeps what is known of the reports.
LEMMA NextReports ==
  ASSUME "cabinet" \notin Reporters
  PROVE  IInv /\ ReportsInv /\ [Next]_vars => ReportsInv'
<1> SUFFICES ASSUME IInv, ReportsInv, [Next]_vars PROVE ReportsInv'
  OBVIOUS
<1> USE DEF ReportsInv
<1>0. /\ data_block \in [Reporters -> Positions \cup {Unknown}]
      /\ told \in [Reporters -> Positions \cup {Unknown}]
      /\ current \subseteq Reporters /\ position \in Positions
  BY DEF IInv, TypeOK
<1>1. ASSUME NEW r \in Reporters, Answer(r) \/ AnswerThrown(r) PROVE ReportsInv'
  <2>1. /\ position' = position
        /\ \/ /\ data_block[r] = position
              /\ UNCHANGED <<answer_from_device, told>>
           \/ /\ answer_from_device' = Byte(r)
              /\ told' = [told EXCEPT ![r] = position]
        /\ data_block' \in {data_block, [data_block EXCEPT ![r] = position]}
        /\ current' = current \cup {r}
    BY <1>1, ReportStep
  <2>2. Asked'
    <3>1. SUFFICES ASSUME NEW s \in current'
                   PROVE  data_block'[s] = position \/ told'[s] = position
      BY <2>1 DEF Asked
    <3>2. CASE s = r
      BY <1>0, <2>1, <3>2
    <3>3. CASE s # r
      <4>1. s \in current /\ s \in Reporters
        BY <1>0, <2>1, <3>1, <3>3
      <4>2. told'[s] = told[s] /\ data_block'[s] = data_block[s]
        BY <1>0, <2>1, <3>3, <4>1
      <4>3. QED
        BY <4>1, <4>2 DEF Asked
    <3>4. QED
      BY <3>2, <3>3
  <2>3. Buffered'
    <3>1. CASE UNCHANGED <<answer_from_device, told>>
      BY <3>1 DEF Buffered
    <3>2. CASE /\ answer_from_device' = Byte(r)
               /\ told' = [told EXCEPT ![r] = position]
      <4>1. r # "cabinet"
        OBVIOUS
      <4>2. told'[r] = position
        BY <1>0, <3>2
      <4>3. Byte(r) # NoAnswer /\ (Byte(r) = 1) = (position = "opened")
        BY <4>1 DEF Byte, NoAnswer
      <4>4. QED
        BY <3>2, <4>2, <4>3 DEF Buffered
    <3>3. QED
      BY <2>1, <3>1, <3>2
  <2>4. QED
    BY <2>2, <2>3
<1>2. CASE DoorMoves
  BY <1>2 DEF DoorMoves, doorVars, Asked, Buffered
<1>3. CASE DoorDecodes \/ DoorAccepted \/ SwitchConduction \/ UNCHANGED vars
  <2>1. UNCHANGED <<answer_from_device, position, reports>>
    BY <1>3 DEF DoorDecodes, DoorPulse, DoorAccepted, AcceptDoor, SwitchConduction,
       vars, doorVars
  <2>2. QED
    BY <2>1 DEF reports, Asked, Buffered
<1>4. QED
  BY <1>1, <1>2, <1>3 DEF Next

\* Devices that do not forget have all told the position, so the buffer holds
\* it, and a channel that is empty has delivered it.
LEMMA KnownAsReported ==
  ASSUME SeenUprightly, IInv, ReportsInv
  PROVE  DoorAsReported
<1> SUFFICES ASSUME current = Reporters, pulses = 0,
                    \A r \in Reporters : told[r] = data_block[r]
             PROVE  IF door.x1 THEN door.x3 = (position = "opened")
                    ELSE position = "closed"
  BY DEF DoorAsReported, Forgot
<1>1. \A r \in Reporters : told[r] = position
  BY DEF ReportsInv, Asked
<1>2. CASE door.x1
  <2>1. answer_from_device # NoAnswer /\ door.x3 = (answer_from_device = 1)
    BY <1>2 DEF IInv, Delivered
  <2>2. PICK r \in Reporters : (answer_from_device = 1) = (told[r] = "opened")
    BY <2>1 DEF ReportsInv, Buffered
  <2>3. QED
    BY <1>1, <1>2, <2>1, <2>2
<1>3. CASE ~door.x1
  <2>1. answer_from_device = NoAnswer
    BY <1>3 DEF IInv, Delivered
  <2>2. PICK r \in Reporters : told[r] = "closed"
    BY <2>1 DEF ReportsInv, Buffered, SeenUprightly
  <2>3. QED
    BY <1>1, <1>3, <2>2
<1>4. QED
  BY <1>2, <1>3

\* Whatever the buffer lost by being overwritten, a door whose reporters have
\* all been asked since it moved is known as it is.
THEOREM KnownAsItIs ==
  ASSUME SeenUprightly
  PROVE  Spec => []DoorKnown
<1>1. "cabinet" \notin Reporters
  BY DEF SeenUprightly
<1>2. Init => ReportsInv
  BY <1>1 DEF Init, DoorInit, ReportsInv, Asked, Buffered
<1>3. IInv /\ ReportsInv /\ [Next]_vars => ReportsInv'
  BY <1>1, NextReports
<1>4. IInv /\ ReportsInv => DoorKnown
  BY KnownAsReported DEF DoorKnown, IInv
<1>5. QED
  BY <1>2, <1>3, <1>4, Invariant, PTL DEF Spec
-----------------------------------------------------------------------------
(***************************************************************************)
(* The alarm                                                               *)
(***************************************************************************)

\* Only the pulse and the dispatcher's ACCEPT touch the automaton.
LEMMA DoorTouched ==
  ASSUME IInv, [Next]_vars
  PROVE  DoorDecodes \/ DoorAccepted \/ door' = door
  BY ReportStep DEF Next, DoorMoves, SwitchConduction, vars, doorVars

\* What the pulse makes of the door.
LEMMA PulseResult ==
  ASSUME IInv, DoorDecodes
  PROVE  \E e \in DoorAutomaton :
           /\ e.state = door.state /\ ~e.recent /\ e.x1 /\ e.x2
           /\ e.x3 = (answer_from_device = 1)
           /\ door'.state = DoorTarget(e, EventDoorData)
           /\ door'.x1 /\ door'.x3 = e.x3
<1> DEFINE e == [door EXCEPT !.x1 = TRUE, !.x2 = TRUE,
                             !.x3 = (answer_from_device = 1)]
<1>1. /\ e \in DoorAutomaton /\ e.state = door.state /\ e.recent = door.recent
      /\ e.x1 /\ e.x2 /\ e.x3 = (answer_from_device = 1)
  BY InputsStored DEF IInv, TypeOK
<1>2. door' = DoorA0(e, EventDoorData)
  BY DEF DoorDecodes, DoorPulse
<1>3. ~door.recent
  BY DEF IInv, Contact
<1> HIDE DEF e
<1>4. /\ door'.state = DoorTarget(e, EventDoorData)
      /\ door'.x1 = e.x1 /\ door'.x3 = e.x3
  BY <1>1, <1>2, DoorA0Result
<1>5. QED
  BY <1>1, <1>3, <1>4

\* What an ACCEPT makes of it.
LEMMA AcceptResult ==
  ASSUME IInv, DoorAccepted
  PROVE  /\ door'.x1 = door.x1 /\ door'.x3 = door.x3 /\ pulses' = pulses
         /\ door'.state = IF door.x3 THEN "ACCEPTED" ELSE "CLOSED"
<1> DEFINE e == DoorA0(door, EventAcceptDoor)
<1>1. door \in DoorAutomaton /\ door.x1 /\ door.x2
  BY DEF DoorAccepted, Contact, IInv, TypeOK
<1>2. /\ e \in DoorAutomaton /\ e.state = DoorTarget(door, EventAcceptDoor)
      /\ e.x1 = door.x1 /\ e.x2 = door.x2 /\ e.x3 = door.x3
  BY <1>1, DoorA0Result
<1>3. door' = DoorA0(e, EventDoorData) /\ pulses' = pulses
  BY DEF DoorAccepted, AcceptDoor
<1> HIDE DEF e
<1>4. /\ door'.state = DoorTarget(e, EventDoorData)
      /\ door'.x1 = door.x1 /\ door'.x3 = door.x3
  BY <1>1, <1>2, <1>3, DoorA0Result
<1>5. /\ door.state \in {"CLOSED", "NOT_ACCEPTED", "ACCEPTED"}
      /\ door.state = "CLOSED" => ~door.x3
  BY <1>1 DEF IInv, Contact, DoorShown
<1>6. QED
  BY <1>1, <1>2, <1>3, <1>4, <1>5 DEF DoorTarget, EventDoorData, EventAcceptDoor

\* An opening alarms, unless it was waived or conduction is switched off.
LEMMA OpeningStep ==
  ASSUME IInv, [Next]_vars, ~(door.x1 /\ door.x3), door'.x1, door'.x3
  PROVE  \/ door'.state = "NOT_ACCEPTED"
         \/ door.state = "NOT_ACCEPTED" /\ conduction_is_switched_off
         \/ waived
<1>1. DoorDecodes
  BY DoorTouched, AcceptResult
<1>2. PICK e \in DoorAutomaton :
        /\ e.state = door.state /\ ~e.recent /\ e.x1 /\ e.x2 /\ e.x3
        /\ door'.state = DoorTarget(e, EventDoorData)
  BY <1>1, PulseResult
<1>3. CASE ~door.x1
  BY <1>2, <1>3 DEF IInv, Contact, DoorTarget, Reappeared
<1>4. CASE door.x1 /\ ~door.x3
  <2>1. door.state = "ACCEPTED" => waived
    BY <1>4 DEF IInv, DoorShown
  <2>2. door.state \in {"CLOSED", "NOT_ACCEPTED", "ACCEPTED"}
    BY <1>4 DEF IInv, Contact
  <2>3. QED
    BY <1>2, <2>1, <2>2 DEF DoorTarget, EventDoorData, EventAcceptDoor
<1>5. QED
  BY <1>3, <1>4

\* The alarm ends on a pulse with conduction switched off, or in what the door is.
LEMMA AlarmStep ==
  ASSUME IInv, [Next]_vars, door.state = "NOT_ACCEPTED", door'.state # "NOT_ACCEPTED"
  PROVE  IF pulses' # pulses THEN conduction_is_switched_off
         ELSE door'.state = IF door.x3 THEN "ACCEPTED" ELSE "CLOSED"
<1>1. CASE DoorDecodes
  <2>1. PICK e \in DoorAutomaton :
          /\ e.state = door.state /\ ~e.recent /\ e.x1 /\ e.x2
          /\ door'.state = DoorTarget(e, EventDoorData)
    BY <1>1, PulseResult
  <2>2. conduction_is_switched_off
    BY <2>1 DEF DoorTarget, EventDoorData, EventAcceptDoor
  <2>3. pulses' # pulses
    BY <1>1, PulsesAssumption DEF DoorDecodes, DoorPulse, IInv, TypeOK
  <2>4. QED
    BY <2>2, <2>3
<1>2. CASE DoorAccepted
  BY <1>2, AcceptResult
<1>3. CASE door' = door
  BY <1>3
<1>4. QED
  BY <1>1, <1>2, <1>3, DoorTouched

\* An opening is alarmed, and the alarm is not taken back by reports.
THEOREM AlarmIsKept == Spec => AlarmKept
<1>1. IInv /\ [Next]_vars
        => [/\ ~(door.x1 /\ door.x3) /\ door'.x1 /\ door'.x3
            => \/ door'.state = "NOT_ACCEPTED"
               \/ door.state = "NOT_ACCEPTED" /\ conduction_is_switched_off
               \/ waived]_vars
  BY OpeningStep
<1>2. IInv /\ [Next]_vars
        => [door.state = "NOT_ACCEPTED" /\ door'.state # "NOT_ACCEPTED"
            => IF pulses' # pulses THEN conduction_is_switched_off
               ELSE door'.state = IF door.x3 THEN "ACCEPTED" ELSE "CLOSED"]_vars
  BY AlarmStep
<1>3. Spec => OpeningAlarmed
  BY <1>1, Invariant, PTL DEF Spec, OpeningAlarmed
<1>4. Spec => AlarmStands
  BY <1>2, Invariant, PTL DEF Spec, AlarmStands
<1>5. QED
  BY <1>3, <1>4 DEF AlarmKept
-----------------------------------------------------------------------------
(***************************************************************************)
(* The panels: a device's line                                             *)
(***************************************************************************)

\* An escalator's silence that is not yet too long is a silence since the start,
\* so that the echo of a command does not make it look answered.
Settled(k, l) == k = "escalator" /\ ~l.x5 /\ l.x6 => TooMany(l)

\* The fields of a device's line.
LEMMA LineFields ==
  ASSUME NEW l \in Lines
  PROVE  l.x5 \in BOOLEAN /\ l.x6 \in BOOLEAN /\ l.failures \in 0 .. Reconnects + 1
  BY DEF Lines

\* One more failure, while there are not too many.
LEMMA OneMoreResult ==
  ASSUME NEW l \in Lines, ~TooMany(l)
  PROVE  LET m == OneMore(l)
         IN  m \in Lines /\ m.x5 = l.x5 /\ m.x6 = l.x6 /\ m.failures = l.failures + 1
<1>1. l.failures + 1 \in 0 .. Reconnects + 1
  BY LineFields, ReconnectsAssumption DEF TooMany
<1>2. QED
  BY <1>1 DEF OneMore, Lines

\* What an answer makes of the line; one that does not update a panel leaves
\* the line as online as it was.
LineAfter(k, l, m, answer) ==
  /\ m \in Lines /\ Settled(k, m)
  /\ answer = "registers" => m.x5 /\ m.x6 /\ m.failures = 0
  /\ m.failures # 0 /\ ~TooMany(m) => Online(m) = Online(l)

\* What an answer makes of a device's block and failures.
LEMMA AnsweredResult ==
  ASSUME NEW k \in Kinds, NEW l \in Lines, Settled(k, l), NEW answer \in Answers
  PROVE  LineAfter(k, l, Answered(l, k, answer), answer)
<1> DEFINE m == Answered(l, k, answer)
<1>0. l.failures \in 0 .. Reconnects + 1 /\ Reconnects \in Nat /\ 0 \in 0 .. Reconnects + 1
  BY LineFields, ReconnectsAssumption
<1>1. CASE answer = "none" /\ TooMany(l)
  <2>1. m = [l EXCEPT !.x5 = FALSE]
    BY <1>1 DEF Answered
  <2>2. m \in Lines /\ m.failures = l.failures
    BY <2>1 DEF Lines
  <2>3. TooMany(m)
    BY <1>1, <2>2 DEF TooMany
  <2>4. QED
    BY <1>1, <2>2, <2>3 DEF LineAfter, Settled
<1>2. CASE answer = "none" /\ ~TooMany(l)
  <2>1. m = OneMore(l)
    BY <1>2 DEF Answered
  <2>2. m \in Lines /\ m.x5 = l.x5 /\ m.x6 = l.x6
    BY <1>2, <2>1, OneMoreResult
  <2>3. QED
    BY <1>2, <2>2 DEF LineAfter, Settled, Online
<1>3. CASE answer = "exception" /\ (TooMany(l) \/ ~l.x5)
  <2>1. m = [l EXCEPT !.x5 = TRUE, !.x6 = FALSE, !.failures = 0]
    BY <1>3 DEF Answered
  <2>2. m \in Lines /\ m.x5 /\ m.failures = 0
    BY <1>0, <2>1 DEF Lines
  <2>3. QED
    BY <1>3, <2>2 DEF LineAfter, Settled
<1>4. CASE answer = "exception" /\ ~(TooMany(l) \/ ~l.x5)
  <2>1. m = [OneMore(l) EXCEPT !.x5 = TRUE]
    BY <1>4 DEF Answered
  <2>2. OneMore(l) \in Lines /\ OneMore(l).x6 = l.x6
    BY <1>4, OneMoreResult
  <2>3. m \in Lines /\ m.x5 /\ m.x6 = l.x6
    BY <2>1, <2>2 DEF Lines
  <2>4. QED
    BY <1>4, <2>3 DEF LineAfter, Settled, Online
<1>5. CASE answer = "other function" /\ k = "escalator"
  <2>1. m = [l EXCEPT !.x5 = TRUE]
    BY <1>5 DEF Answered
  <2>2. m \in Lines /\ m.x5 /\ m.x6 = l.x6 /\ m.failures = l.failures
    BY <2>1 DEF Lines
  <2>3. ~TooMany(m) => Online(m) = Online(l)
    BY <1>5, <2>2, LineFields DEF Settled, TooMany, Online
  <2>4. QED
    BY <1>5, <2>2, <2>3 DEF LineAfter, Settled
<1>6. CASE answer = "registers" \/ (answer = "other function" /\ k # "escalator")
  <2>1. m = [x5 |-> TRUE, x6 |-> TRUE, failures |-> 0]
    BY <1>6 DEF Answered
  <2>2. m \in Lines /\ m.x5 /\ m.x6 /\ m.failures = 0
    BY <1>0, <2>1 DEF Lines
  <2>3. QED
    BY <2>2 DEF LineAfter, Settled
<1>7. QED
  BY <1>1, <1>2, <1>3, <1>4, <1>5, <1>6 DEF Answers
-----------------------------------------------------------------------------
(***************************************************************************)
(* The panels: the invariant                                               *)
(***************************************************************************)

\* While Photon makes every widget, a window that exists is realised and the
\* live widgets are those of its device's type.
PanelIntact ==
  /\ undefined => failed
  /\ window.realised => window.device \in PanelDevices
  /\ ~failed => /\ device_panel = IF window.realised THEN "live" ELSE "NULL"
                /\ \A k \in Kinds, u \in Units :
                     widget[k][u] = "live" => window.realised /\ Kind[window.device] = k

LinesSettled == \A d \in PanelDevices : Settled(Kind[d], line[d])

PanelInv == PanelTyped /\ PanelFollowsDevice /\ PanelIntact /\ LinesSettled

\* The invariant of the panels is what the run checks, and more.
LEMMA PanelInvSound == PanelInv => PanelSound
  BY DEF PanelInv, PanelSound, NoDeadWidgetUsed, PanelIntact

\* The panels' invariant holds at the start.
LEMMA PanelInitInv == PanelInit => PanelInv
<1> SUFFICES ASSUME PanelInit PROVE PanelInv
  OBVIOUS
<1>1. line \in [PanelDevices -> Lines]
  <2>1. 0 \in 0 .. Reconnects + 1
    BY ReconnectsAssumption
  <2>2. [x5 : BOOLEAN, x6 : BOOLEAN, failures : {0}] \subseteq Lines
    BY <2>1 DEF Lines
  <2>3. QED
    BY <2>2 DEF PanelInit
<1>2. LinesSettled
  BY <1>1 DEF PanelInit, LinesSettled, Settled
<1>3. PanelTyped
  <2>1. data_blocks \in [PanelDevices -> Blocks]
    BY BlocksAssumption DEF PanelInit
  <2>2. window \in [device : PanelDevices \union {Nobody}, realised : BOOLEAN]
    BY DEF PanelInit, NoWindow
  <2>3. widget \in [Kinds -> [Units -> {"NULL", "live", "destroyed"}]]
    BY DEF PanelInit
  <2>4. QED
    BY <1>1, <2>1, <2>2, <2>3 DEF PanelInit, PanelTyped
<1>4. ~window.realised
  BY DEF PanelInit, NoWindow
<1>5. PanelIntact
  BY <1>4 DEF PanelInit, PanelIntact
<1>6. QED
  BY <1>2, <1>3, <1>4, <1>5 DEF PanelInv, PanelFollowsDevice

\* Widgets and pointers after the old window is destroyed.
OldWindow(old) ==
  /\ old.widget \in [Kinds -> [Units -> {"NULL", "live", "destroyed"}]]
  /\ old.id \in PanelDevices \union {Nobody}
  /\ old.panel \in {"NULL", "live", "destroyed"}
  /\ ~failed => /\ old.panel = "NULL"
                /\ \A k \in Kinds, u \in Units : old.widget[k][u] # "live"

\* The widgets of a destroyed window keep their types.
LEMMA DeadTyped ==
  ASSUME PanelTyped, NEW j
  PROVE  /\ Dead(j) \in [Kinds -> [Units -> {"NULL", "live", "destroyed"}]]
         /\ \A k \in Kinds, u \in Units :
              Dead(j)[k][u] = "live" => k # j /\ widget[k][u] = "live"
<1> DEFINE killed == [u \in Units |-> IF widget[j][u] = "live" THEN "destroyed"
                                      ELSE widget[j][u]]
<1>1. Dead(j) = [widget EXCEPT ![j] = killed]
  BY DEF Dead
<1>2. j \in Kinds => killed \in [Units -> {"NULL", "live", "destroyed"}]
  BY DEF PanelTyped
<1>3. j \in Kinds => \A u \in Units : killed[u] # "live"
  OBVIOUS
<1>4. widget \in [Kinds -> [Units -> {"NULL", "live", "destroyed"}]]
  BY DEF PanelTyped
<1> HIDE DEF killed
<1>5. Dead(j) \in [Kinds -> [Units -> {"NULL", "live", "destroyed"}]]
  BY <1>1, <1>2, <1>4
<1>6. ASSUME NEW k \in Kinds, NEW u \in Units, Dead(j)[k][u] = "live"
      PROVE  k # j /\ widget[k][u] = "live"
  BY <1>1, <1>3, <1>4, <1>6
<1>7. QED
  BY <1>5, <1>6

\* Destroying the window leaves no live widget behind.
LEMMA DestroyedOld ==
  ASSUME PanelInv, ~failed => window.realised
  PROVE  OldWindow(WindowDestroyed)
<1> DEFINE w == WindowDestroyed
<1>1. /\ w.widget = Dead(Kind[window.device])
      /\ w.id = IF window.realised THEN Nobody ELSE paneled_device_id
      /\ w.panel = IF window.realised THEN "NULL" ELSE "destroyed"
  BY DEF WindowDestroyed
<1>2. PanelTyped
  BY DEF PanelInv
<1>3. w.widget \in [Kinds -> [Units -> {"NULL", "live", "destroyed"}]]
  BY <1>1, <1>2, DeadTyped
<1>4. ~failed => \A k \in Kinds, u \in Units : w.widget[k][u] # "live"
  BY <1>1, <1>2, DeadTyped DEF PanelInv, PanelIntact
<1>5. w.id \in PanelDevices \union {Nobody}
  BY <1>1, <1>2 DEF PanelTyped
<1> HIDE DEF w
<1>6. OldWindow(w)
  BY <1>1, <1>3, <1>4, <1>5 DEF OldWindow
<1>7. QED
  BY <1>6 DEF w

\* With no window open, a click begins with the widgets as they are.
LEMMA UntouchedOld ==
  ASSUME PanelInv, device_panel = "NULL"
  PROVE  OldWindow(Untouched)
<1>1. PanelTyped /\ (~failed => ~window.realised)
  BY DEF PanelInv, PanelIntact
<1>2. QED
  BY <1>1 DEF OldWindow, Untouched, PanelTyped, PanelInv, PanelIntact

\* A new window that is drawn shows the block of its device, or was short of
\* a widget.
LEMMA DrawnFollows ==
  ASSUME NEW d \in PanelDevices, NEW w, UpdatePanel(d, w), widget' = w,
         window' = [device |-> d, realised |-> TRUE],
         paneled_device_id' = d, device_panel' = "live"
  PROVE  /\ PanelFollowsDevice'
         /\ undefined' \in BOOLEAN
         /\ undefined' = ~Usable(Kind[d], w)
  BY DEF UpdatePanel, PanelFollowsDevice, Usable

\* Widgets of one type made, all of them or those of some panes.
LEMMA WidgetsMade ==
  ASSUME NEW w \in [Kinds -> [Units -> {"NULL", "live", "destroyed"}]], NEW j \in Kinds,
         NEW v \in [Units -> {"NULL", "live", "destroyed"}]
  PROVE  /\ [w EXCEPT ![j] = v] \in [Kinds -> [Units -> {"NULL", "live", "destroyed"}]]
         /\ [w EXCEPT ![j] = v][j] = v
         /\ \A k \in Kinds : k # j => [w EXCEPT ![j] = v][k] = w[k]
  OBVIOUS

\* Creating a window keeps the invariant.
LEMMA CreateKeeps ==
  ASSUME PanelInv, ~undefined, NEW d \in PanelDevices, NEW old, OldWindow(old),
         Create(d, old), UNCHANGED <<line, data_blocks>>, missed' = "nothing"
  PROVE  PanelInv'
<1> DEFINE Typed == [Kinds -> [Units -> {"NULL", "live", "destroyed"}]]
<1>0. /\ Kind[d] \in Kinds
      /\ old.widget \in Typed /\ PanelTyped /\ undefined \in BOOLEAN
  BY KindAssumption DEF OldWindow, PanelInv, PanelTyped
<1>1. LinesSettled' /\ line' \in [PanelDevices -> Lines]
      /\ data_blocks' \in [PanelDevices -> Blocks]
  BY DEF PanelInv, PanelTyped, LinesSettled
<1>2. CASE /\ paneled_device_id' = d /\ device_panel' = "live"
           /\ window' = [device |-> d, realised |-> TRUE]
           /\ widget' = [old.widget EXCEPT ![Kind[d]] = [u \in Units |-> "live"]]
           /\ UpdatePanel(d, widget')
           /\ UNCHANGED failed
  <2>1. /\ widget' \in Typed /\ \A u \in Units : widget'[Kind[d]][u] = "live"
        /\ \A k \in Kinds : k # Kind[d] => widget'[k] = old.widget[k]
    BY <1>0, <1>2, WidgetsMade
  <2>2. Usable(Kind[d], widget')
    BY <2>1 DEF Usable
  <2>3. PanelFollowsDevice' /\ undefined' = FALSE
    BY <1>2, <2>2, DrawnFollows
  <2>4. PanelIntact'
    BY <1>2, <2>1, <2>3 DEF PanelIntact, OldWindow
  <2>5. window' \in [device : PanelDevices \union {Nobody}, realised : BOOLEAN]
    BY <1>2
  <2>6. PanelTyped'
    BY <1>0, <1>1, <1>2, <2>1, <2>3, <2>5 DEF PanelTyped
  <2>7. QED
    BY <1>1, <2>3, <2>4, <2>6 DEF PanelInv
<1>3. CASE /\ paneled_device_id' = old.id /\ device_panel' = old.panel
           /\ window' = NoWindow
           /\ widget' = old.widget
           /\ failed' = TRUE /\ shown' = NothingShown
           /\ UNCHANGED undefined
  <2>1. window' \in [device : PanelDevices \union {Nobody}, realised : BOOLEAN]
        /\ ~window'.realised
    BY <1>3 DEF NoWindow
  <2>2. PanelTyped'
    BY <1>0, <1>1, <1>3, <2>1 DEF PanelTyped, OldWindow
  <2>3. QED
    BY <1>1, <1>3, <2>1, <2>2 DEF PanelInv, PanelFollowsDevice, PanelIntact
<1>4. ASSUME NEW made \in Panes \union {{}},
             paneled_device_id' = d, device_panel' = "live",
             widget' = [old.widget EXCEPT ![Kind[d]] =
                          [u \in Units |-> IF u \in made THEN "live" ELSE @[u]]],
             failed' = TRUE,
             \/ /\ window' = [device |-> d, realised |-> FALSE]
                /\ shown' = NothingShown /\ UNCHANGED undefined
             \/ /\ window' = [device |-> d, realised |-> TRUE]
                /\ UpdatePanel(d, widget')
      PROVE  PanelInv'
  <2> DEFINE v == [u \in Units |-> IF u \in made THEN "live" ELSE old.widget[Kind[d]][u]]
  <2>1. v \in [Units -> {"NULL", "live", "destroyed"}]
    BY <1>0
  <2>2. widget' = [old.widget EXCEPT ![Kind[d]] = v]
    BY <1>0, <1>4
  <2> HIDE DEF v
  <2>3. widget' \in Typed
    BY <1>0, <2>1, <2>2, WidgetsMade
  <2>4. PanelFollowsDevice' /\ undefined' \in BOOLEAN
    <3>1. CASE window' = [device |-> d, realised |-> FALSE] /\ UNCHANGED undefined
      BY <1>0, <3>1 DEF PanelFollowsDevice
    <3>2. CASE window' = [device |-> d, realised |-> TRUE] /\ UpdatePanel(d, widget')
      BY <1>4, <3>2, DrawnFollows
    <3>3. QED
      BY <1>4, <3>1, <3>2
  <2>5. window' \in [device : PanelDevices \union {Nobody}, realised : BOOLEAN]
        /\ window'.device = d
    <3>1. \A b \in BOOLEAN : LET w == [device |-> d, realised |-> b]
                             IN  /\ w \in [device : PanelDevices \union {Nobody}, realised : BOOLEAN]
                                 /\ w.device = d
      OBVIOUS
    <3>2. QED
      BY <1>4, <3>1
  <2>6. PanelTyped'
    BY <1>0, <1>1, <1>4, <2>3, <2>4, <2>5 DEF PanelTyped
  <2>7. QED
    BY <1>1, <1>4, <2>4, <2>5, <2>6 DEF PanelInv, PanelIntact
<1>5. QED
  BY <1>2, <1>3, <1>4 DEF Create

\* A click on a device's button keeps it.
LEMMA ActivateKeeps ==
  ASSUME PanelInv, NEW d \in PanelDevices, ActivateDevice(d)
  PROVE  PanelInv'
<1>1. /\ ~undefined /\ ~SamePanelOpen(d) /\ UNCHANGED <<line, data_blocks>>
      /\ missed' = "nothing"
  BY DEF ActivateDevice
<1>2. CASE AnotherPanelOpen(d) /\ device_panel = "destroyed"
  <2>1. undefined' = TRUE /\ UNCHANGED pointers
    BY <1>2 DEF ActivateDevice
  <2>2. failed
    BY <1>2 DEF PanelInv, PanelIntact
  <2>3. PanelTyped' /\ LinesSettled'
    BY <1>1, <2>1 DEF PanelInv, PanelTyped, LinesSettled, pointers
  <2>4. QED
    BY <2>1, <2>2, <2>3 DEF PanelInv, PanelFollowsDevice, PanelIntact, pointers
<1>3. CASE AnotherPanelOpen(d) /\ device_panel # "destroyed"
  <2>1. ~failed => window.realised
    BY <1>3 DEF AnotherPanelOpen, PanelInv, PanelIntact
  <2>2. Create(d, WindowDestroyed)
    BY <1>3 DEF ActivateDevice
  <2>3. QED
    BY <1>1, <2>1, <2>2, DestroyedOld, CreateKeeps
<1>4. CASE ~AnotherPanelOpen(d)
  <2>1. device_panel = "NULL"
    BY <1>1, <1>4 DEF AnotherPanelOpen, SamePanelOpen
  <2>2. Create(d, Untouched)
    BY <1>4 DEF ActivateDevice
  <2>3. QED
    BY <1>1, <2>1, <2>2, UntouchedOld, CreateKeeps
<1>5. QED
  BY <1>2, <1>3, <1>4

\* So does closing the window,
LEMMA CloseKeeps ==
  ASSUME PanelInv, ClosePanel
  PROVE  PanelInv'
<1>1. /\ window.realised /\ window' = NoWindow /\ shown' = NothingShown
      /\ missed' = "nothing" /\ UNCHANGED <<line, data_blocks, failed, undefined>>
  BY DEF ClosePanel
<1>2. OldWindow(WindowDestroyed)
  BY <1>1, DestroyedOld
<1>3. /\ widget' = WindowDestroyed.widget /\ paneled_device_id' = WindowDestroyed.id
      /\ device_panel' = WindowDestroyed.panel
  BY DEF ClosePanel
<1>4. window' \in [device : PanelDevices \union {Nobody}, realised : BOOLEAN]
      /\ ~window'.realised
  BY <1>1 DEF NoWindow
<1>5. PanelTyped'
  BY <1>1, <1>2, <1>3, <1>4 DEF PanelInv, PanelTyped, OldWindow
<1>6. PanelIntact'
  BY <1>1, <1>2, <1>3, <1>4 DEF PanelInv, PanelIntact, OldWindow
<1>7. QED
  BY <1>1, <1>4, <1>5, <1>6 DEF PanelInv, PanelFollowsDevice, LinesSettled
-----------------------------------------------------------------------------
(***************************************************************************)
(* The panels: decoding                                                    *)
(***************************************************************************)

\* an answer that is decoded,
LEMMA DecodeKeeps ==
  ASSUME PanelInv, NEW d \in PanelDevices, NEW answer \in Answers, Decode(d, answer)
  PROVE  PanelInv'
<1> DEFINE l == line[d]
           m == Answered(line[d], Kind[d], answer)
<1>1. /\ ~undefined /\ line' = [line EXCEPT ![d] = m]
      /\ UNCHANGED <<paneled_device_id, device_panel, window, widget, failed>>
  BY DEF Decode
<1>2. /\ l \in Lines /\ Kind[d] \in Kinds /\ Settled(Kind[d], l)
      /\ line \in [PanelDevices -> Lines] /\ data_blocks \in [PanelDevices -> Blocks]
  BY KindAssumption DEF PanelInv, PanelTyped, LinesSettled
<1>3. LineAfter(Kind[d], l, m, answer)
  BY <1>2, AnsweredResult
<1> HIDE DEF l, m
<1>4. /\ line' \in [PanelDevices -> Lines] /\ line'[d] = m
      /\ \A e \in PanelDevices : e # d => line'[e] = line[e]
  BY <1>1, <1>2, <1>3 DEF LineAfter
<1>5. LinesSettled'
  BY <1>3, <1>4 DEF PanelInv, LinesSettled, LineAfter
<1>6. /\ data_blocks' \in [PanelDevices -> Blocks]
      /\ \A e \in PanelDevices : e # d => data_blocks'[e] = data_blocks[e]
      /\ answer # "registers" => data_blocks' = data_blocks
  <2>1. CASE answer = "registers"
    <3>1. PICK b \in Blocks : data_blocks' = [data_blocks EXCEPT ![d] = b]
      BY <2>1 DEF Decode
    <3>2. QED
      BY <1>2, <2>1, <3>1
  <2>2. CASE answer # "registers"
    BY <1>2, <2>2 DEF Decode
  <2>3. QED
    BY <2>1, <2>2
<1>7. CASE MustUpdatePanel(d)
  <2>1. UpdatePanel(d, widget) /\ missed' = "nothing"
    BY <1>7 DEF Decode
  <2>2. paneled_device_id = d /\ device_panel # "NULL"
    BY <1>7 DEF MustUpdatePanel
  <2>3. window.realised => window.device = d
    BY <1>1, <2>2 DEF PanelInv, PanelFollowsDevice
  <2>4. window.realised => Usable(Kind[d], widget)
    BY <1>1, <2>3 DEF PanelInv, PanelFollowsDevice
  <2>5. ~failed => window.realised
    BY <2>2 DEF PanelInv, PanelIntact
  <2>6. undefined' \in BOOLEAN /\ undefined' = ~Usable(Kind[d], widget)
    BY <2>1 DEF UpdatePanel, Usable
  <2>7. PanelIntact'
    BY <1>1, <2>4, <2>5, <2>6 DEF PanelInv, PanelIntact
  <2>8. PanelFollowsDevice'
    <3> SUFFICES ASSUME window'.realised, ~undefined' PROVE PanelFollowsDevice'
      BY DEF PanelFollowsDevice
    <3>1. shown' = BlockShows(Kind[d], data_blocks'[d], Online(line'[d]))
      BY <2>1, <2>6 DEF UpdatePanel
    <3>2. window'.device = d /\ paneled_device_id' = d
          /\ Usable(Kind[d], widget') /\ device_panel' = "live"
      BY <1>1, <2>2, <2>3, <2>4 DEF PanelInv, PanelFollowsDevice
    <3>3. QED
      BY <3>1, <3>2 DEF PanelFollowsDevice
  <2>9. PanelTyped'
    BY <1>1, <1>4, <1>6, <2>1, <2>6 DEF PanelInv, PanelTyped
  <2>10. QED
    BY <1>5, <2>7, <2>8, <2>9 DEF PanelInv
<1>8. CASE ~MustUpdatePanel(d)
  <2>1. UNCHANGED <<shown, undefined, missed>>
    BY <1>8 DEF Decode
  <2>2. PanelFollowsDevice'
    <3> SUFFICES ASSUME window.realised PROVE PanelFollowsDevice'
      BY <1>1 DEF PanelFollowsDevice
    <3> DEFINE e == window.device
    <3>1. /\ paneled_device_id = e /\ device_panel = "live" /\ Usable(Kind[e], widget)
          /\ \/ shown = BlockShows(Kind[e], data_blocks[e], Online(line[e]))
             \/ Behind(e)
      BY <1>1 DEF PanelInv, PanelFollowsDevice
    <3>2. Online(line'[e]) = Online(line[e]) /\ data_blocks'[e] = data_blocks[e]
      <4>0. e = d \/ (e # d /\ line'[e] = line[e] /\ data_blocks'[e] = data_blocks[e])
        <5>1. e \in PanelDevices
          BY DEF PanelInv, PanelIntact
        <5>2. QED
          BY <1>4, <1>6, <5>1
      <4>1. CASE e = d
        <5>1. m.failures # 0 /\ ~TooMany(m)
          BY <1>4, <1>8, <3>1, <4>1 DEF MustUpdatePanel
        <5>2. Online(m) = Online(l) /\ answer # "registers"
          BY <1>3, <5>1 DEF LineAfter
        <5>3. QED
          BY <1>4, <1>6, <4>1, <5>2 DEF l
      <4>2. QED
        BY <4>0, <4>1
    <3>3. Behind(e) => Behind(e)'
      BY <1>1, <2>1, <3>2 DEF Behind
    <3>4. QED
      BY <1>1, <2>1, <3>1, <3>2, <3>3 DEF PanelFollowsDevice
  <2>3. PanelIntact'
    BY <1>1, <2>1 DEF PanelInv, PanelIntact
  <2>4. PanelTyped'
    BY <1>1, <1>4, <1>6, <2>1 DEF PanelInv, PanelTyped
  <2>5. QED
    BY <1>5, <2>2, <2>3, <2>4 DEF PanelInv
<1>9. QED
  BY <1>7, <1>8

\* and one whose decoding throws.
LEMMA ThrownKeeps ==
  ASSUME PanelInv, NEW d \in PanelDevices, NEW answer \in Answers, DecodeThrown(d, answer)
  PROVE  PanelInv'
<1> DEFINE l == line[d]
           m == Answered(line[d], Kind[d], answer)
<1>1. /\ ~undefined /\ line' = [line EXCEPT ![d] = m]
      /\ missed' = IF MustUpdatePanel(d) THEN Misses ELSE missed
      /\ UNCHANGED <<undefined, pointers>>
  BY DEF DecodeThrown
<1>2. /\ l \in Lines /\ Kind[d] \in Kinds /\ Settled(Kind[d], l)
      /\ line \in [PanelDevices -> Lines] /\ data_blocks \in [PanelDevices -> Blocks]
      /\ missed \in {"nothing", "line", "block"}
  BY KindAssumption DEF PanelInv, PanelTyped, LinesSettled
<1>3. LineAfter(Kind[d], l, m, answer)
  BY <1>2, AnsweredResult
<1> HIDE DEF l, m
<1>4. /\ line' \in [PanelDevices -> Lines] /\ line'[d] = m
      /\ \A e \in PanelDevices : e # d => line'[e] = line[e]
  BY <1>1, <1>2, <1>3 DEF LineAfter
<1>5. /\ data_blocks' \in [PanelDevices -> Blocks]
      /\ \A e \in PanelDevices : e # d => data_blocks'[e] = data_blocks[e]
      /\ answer # "registers" => data_blocks' = data_blocks
      /\ Online(line'[d])
  <2>1. CASE answer = "registers"
    <3>1. PICK b \in Blocks : data_blocks' = [data_blocks EXCEPT ![d] = b]
      BY <2>1 DEF DecodeThrown, StoredBeforeThrow
    <3>2. QED
      BY <1>2, <1>3, <1>4, <2>1, <3>1 DEF LineAfter, Online
  <2>2. CASE answer # "registers"
    BY <1>2, <2>2 DEF DecodeThrown, StoredBeforeThrow
  <2>3. QED
    BY <2>1, <2>2
<1>6. LinesSettled'
  BY <1>3, <1>4 DEF PanelInv, LinesSettled, LineAfter
<1>7. missed' \in {"nothing", "line", "block"}
  BY <1>1, <1>2 DEF Misses
<1>8. PanelTyped'
  BY <1>1, <1>4, <1>5, <1>7 DEF PanelInv, PanelTyped, pointers
<1>9. PanelIntact'
  BY <1>1 DEF PanelInv, PanelIntact, pointers
<1>10. PanelFollowsDevice'
  <2> SUFFICES ASSUME window.realised PROVE PanelFollowsDevice'
    BY <1>1 DEF PanelFollowsDevice, pointers
  <2> DEFINE e == window.device
  <2>1. e \in PanelDevices /\ Online(line[e]) \in BOOLEAN
    BY DEF PanelInv, PanelIntact, Online
  <2>2. /\ paneled_device_id = e /\ device_panel = "live" /\ Usable(Kind[e], widget)
        /\ \/ shown = BlockShows(Kind[e], data_blocks[e], Online(line[e]))
           \/ Behind(e)
    BY <1>1 DEF PanelInv, PanelFollowsDevice
  <2>3. shown' = shown
    BY <1>1 DEF pointers
  <2>4. CASE e # d
    <3>1. line'[e] = line[e] /\ data_blocks'[e] = data_blocks[e]
      BY <1>4, <1>5, <2>1, <2>4
    <3>2. missed' = missed
      BY <1>1, <2>2, <2>4 DEF MustUpdatePanel
    <3>3. Behind(e) => Behind(e)'
      BY <1>1, <2>3, <3>1, <3>2 DEF Behind, pointers
    <3>4. QED
      BY <1>1, <2>2, <2>3, <3>1, <3>3 DEF PanelFollowsDevice, pointers
  <2>5. CASE e = d /\ ~MustUpdatePanel(d)
    <3>1. m.failures # 0 /\ ~TooMany(m)
      BY <1>4, <2>2, <2>5 DEF MustUpdatePanel
    <3>2. Online(m) = Online(l) /\ answer # "registers"
      BY <1>3, <3>1 DEF LineAfter
    <3>3. Online(line'[e]) = Online(line[e]) /\ data_blocks' = data_blocks
      BY <1>4, <1>5, <2>5, <3>2 DEF l
    <3>4. Behind(e) => Behind(e)'
      BY <1>1, <2>3, <2>5, <3>3 DEF Behind, pointers
    <3>5. QED
      BY <1>1, <2>2, <2>3, <3>3, <3>4 DEF PanelFollowsDevice, pointers
  <2>6. CASE e = d /\ MustUpdatePanel(d)
    <3>1. missed' = Misses /\ missed' # "nothing"
      BY <1>1, <2>6 DEF Misses
    <3>2. \E b \in Blocks, online \in BOOLEAN : shown = BlockShows(Kind[e], b, online)
      <4>1. data_blocks[e] \in Blocks
        BY <1>2, <2>1
      <4>2. QED
        BY <2>1, <2>2, <4>1 DEF Behind
    <3>3. CASE missed' = "block"
      <4>1. Behind(e)'
        BY <1>1, <1>5, <2>3, <2>6, <3>2, <3>3 DEF Behind, pointers
      <4>2. QED
        BY <1>1, <2>2, <4>1 DEF PanelFollowsDevice, pointers
    <3>4. CASE missed' # "block"
      <4>1. data_blocks' = data_blocks /\ missed # "block" /\ missed' = "line"
        BY <3>1, <3>4 DEF Misses
      <4>2. \/ shown = BlockShows(Kind[e], data_blocks[e], TRUE)
            \/ shown = BlockShows(Kind[e], data_blocks[e], FALSE)
        BY <1>2, <2>1, <2>2, <4>1 DEF Behind
      <4>3. CASE shown = BlockShows(Kind[e], data_blocks[e], TRUE)
        <5>1. Online(line'[e]) = TRUE
          BY <1>5, <2>6 DEF Online
        <5>2. QED
          BY <1>1, <2>2, <2>3, <4>1, <4>3, <5>1 DEF PanelFollowsDevice, pointers
      <4>4. CASE shown = BlockShows(Kind[e], data_blocks[e], FALSE)
        <5>1. Behind(e)'
          BY <1>1, <1>5, <2>3, <2>6, <3>2, <4>1, <4>4 DEF Behind, pointers
        <5>2. QED
          BY <1>1, <2>2, <5>1 DEF PanelFollowsDevice, pointers
      <4>5. QED
        BY <4>2, <4>3, <4>4
    <3>5. QED
      BY <3>3, <3>4
  <2>7. QED
    BY <2>4, <2>5, <2>6
<1>11. QED
  BY <1>6, <1>8, <1>9, <1>10 DEF PanelInv

\* Every step keeps the panels' invariant.
LEMMA PanelNextInv ==
  ASSUME PanelInv, [PanelNext]_panelVars
  PROVE  PanelInv'
<1>1. CASE UNCHANGED panelVars
  BY <1>1 DEF panelVars, PanelInv, PanelTyped, PanelFollowsDevice, Behind,
              PanelIntact, LinesSettled
<1>2. CASE PanelNext
  BY <1>2, CloseKeeps, ActivateKeeps, DecodeKeeps, ThrownKeeps DEF PanelNext, DeviceStep
<1>3. QED
  BY <1>1, <1>2

\* However clicks, closings and answers of any number of devices of all types
\* follow each other, the window on the screen shows its device's last block,
\* and no widget of a window that is gone is used while Photon makes them all.
THEOREM PanelIsSound == PanelSpec => []PanelSound
<1>1. PanelSpec => []PanelInv
  BY PanelInitInv, PanelNextInv, PTL DEF PanelSpec
<1>2. QED
  BY <1>1, PanelInvSound, PTL

\* The door is known as it is and shown as it is known, and so are the paneled
\* devices, in the composition the run checks.
THEOREM HallIsShown ==
  ASSUME SeenUprightly, {1, 2, 3} \subseteq PanelDevices
  PROVE  MCSpec => []ShownAsKnown
<1>1. MCSpec => Spec /\ [][PanelNext]_panelVars /\ PanelInit
  <2>1. MCInit => Init /\ PanelInit
    BY DEF MCInit
  <2>2. Clicked \subseteq PanelDevices
    <3>1. followed \in {"one type", "two types"} => Clicked \subseteq PanelDevices
      BY DEF Clicked
    <3>2. followed \notin {"one type", "two types"} => Clicked = {}
      BY DEF Clicked
    <3>3. QED
      BY <3>1, <3>2
  <2>3. [MCNext]_<<vars, panelVars, followed>> => [Next]_vars /\ [PanelNext]_panelVars
    BY <2>2 DEF MCNext, PanelNext
  <2>4. QED
    BY <2>1, <2>3, PTL DEF MCSpec, Spec
<1>2. Spec => []DoorKnown
  BY KnownAsItIs
<1>3. PanelInit /\ [][PanelNext]_panelVars => []PanelSound
  BY PanelIsSound DEF PanelSpec
<1>4. QED
  BY <1>1, <1>2, <1>3, PTL DEF ShownAsKnown
=============================================================================
