------------------------- MODULE PowerCabinet_proofs -------------------------
(***************************************************************************)
(* Theorems about PowerCabinet for every set of positions, every number of *)
(* forgiven failures and every bound of the pool.                          *)
(***************************************************************************)
EXTENDS PowerCabinet, TLAPS

-----------------------------------------------------------------------------
(***************************************************************************)
(* The inductive invariant                                                 *)
(***************************************************************************)

\* A drawn cabinet is in contact exactly if its inputs say so: a decoding that
\* throws may leave it otherwise, and the next drawing repairs it.
DrawnInContact ==
  fresh => (shavr.state \in ContactStates <=> shavr.x1 /\ shavr.x2)

\* A command is marked only in contact.
MarkInContact == shavr.x5 => shavr.state \in ContactStates

\* A command to connect that is not known to be outdated found both inputs of
\* its escalator free.
FreeAmong(c, lines) ==
  c.on /\ ~c.old => \A i \in Inputs : <<c.line[1], i>> \notin lines

PoolFree == \A c \in pool : FreeAmong(c, shavr.connected)
SlotFree == request_for_send_to_device # None
              => FreeAmong(request_for_send_to_device, shavr.connected)

IInv == TypeOK /\ ScreenCurrent /\ DrawnInContact /\ MarkInContact /\ PoolFree /\ SlotFree

-----------------------------------------------------------------------------
(***************************************************************************)
(* The automaton                                                           *)
(***************************************************************************)
LEMMA Fields ==
  ASSUME NEW s \in Automaton
  PROVE  /\ s.state \in States /\ s.x1 \in BOOLEAN /\ s.x2 \in BOOLEAN
         /\ s.x5 \in BOOLEAN /\ s.power \in SUBSET Inputs
         /\ s.connected \in SUBSET Lines /\ s.telemetry \in SUBSET Lines
  BY DEF Automaton

\* The state to enter is one of contact exactly if the inputs are.
LEMMA TargetResult ==
  ASSUME NEW s \in Automaton, NEW event
  PROVE  /\ Target(s, event) \in States
         /\ Target(s, event) \in ContactStates <=> s.x1 /\ s.x2
<1>1. Powered(s) \in ContactStates
  BY DEF Powered, ContactStates
<1>2. "OFFLINE" \notin ContactStates /\ "EXCEPTION" \notin ContactStates
  BY DEF ContactStates
<1>3. CASE ~s.x1
  BY <1>2, <1>3 DEF Target, States
<1>4. CASE s.x1 /\ ~s.x2
  BY <1>2, <1>4 DEF Target, States
<1>5. CASE s.x1 /\ s.x2
  BY <1>1, <1>5 DEF Target, States
<1>6. QED
  BY <1>3, <1>4, <1>5, Fields

\* A0 keeps the inputs and enters its target.
LEMMA A0Result ==
  ASSUME NEW s \in Automaton, NEW event
  PROVE  /\ A0(s, event) \in Automaton
         /\ A0(s, event).state = Target(s, event)
         /\ A0(s, event).x1 = s.x1 /\ A0(s, event).x2 = s.x2
         /\ A0(s, event).power = s.power /\ A0(s, event).connected = s.connected
         /\ A0(s, event).telemetry = s.telemetry
         /\ A0(s, event).x5 =
              IF Target(s, event) \in ContactStates
              THEN s.x5 \/ (event = EventCommand /\ s.state \in ContactStates)
              ELSE s.x5 /\ Target(s, event) = s.state
<1> DEFINE to == Target(s, event)
           mark == IF to \in ContactStates
                   THEN s.x5 \/ (event = EventCommand /\ s.state \in ContactStates)
                   ELSE s.x5 /\ to = s.state
<1>1. to \in States
  BY TargetResult
<1>2. mark \in BOOLEAN
  BY Fields
<1>3. A0(s, event) = [s EXCEPT !.state = to, !.x5 = mark]
  BY DEF A0
<1> HIDE DEF to, mark
<1>4. /\ A0(s, event) \in Automaton
      /\ A0(s, event).state = to /\ A0(s, event).x5 = mark
      /\ A0(s, event).x1 = s.x1 /\ A0(s, event).x2 = s.x2
      /\ A0(s, event).power = s.power /\ A0(s, event).connected = s.connected
      /\ A0(s, event).telemetry = s.telemetry
  BY <1>1, <1>2, <1>3 DEF Automaton
<1>5. QED
  BY <1>4 DEF to, mark

\* The state that data lead to is a matter of the inputs only.
LEMMA DataTarget ==
  ASSUME NEW s \in Automaton, NEW t \in Automaton,
         t.x1 = s.x1, t.x2 = s.x2, t.power = s.power
  PROVE  Target(t, EventData) = Target(s, EventData)
  BY DEF Target, Powered, EventData, EventCommand

\* The picture the automaton gives.
LEMMA ImageTyped ==
  ASSUME NEW s \in Automaton
  PROVE  /\ Image(s) \in [state : States, mark : BOOLEAN, lines : SUBSET Lines]
         /\ Image(s).state = s.state /\ Image(s).mark = s.x5
         /\ Image(s).lines = IF s.x1 /\ s.x2 THEN s.connected ELSE {}
  BY Fields DEF Image
-----------------------------------------------------------------------------
(***************************************************************************)
(* The invariant, in the shapes the handlers have                          *)
(***************************************************************************)

\* What the state of conduction, the slot, the pool and the contacts are.
QueuesTyped == /\ request_for_send_to_device \in Commands \cup {None}
               /\ conduction_is_switched_off \in BOOLEAN
               /\ pool \subseteq Commands /\ contacts \subseteq Lines
CabinetTyped == /\ shavr \in Automaton
                /\ last_failures_count \in 0 .. (ReconnectsCount + 1)
                /\ picture \in [state : States, mark : BOOLEAN, lines : SUBSET Lines]
                /\ synced \in BOOLEAN /\ fresh \in BOOLEAN

\* The type invariant by groups of variables.
LEMMA TypeParts == TypeOK <=> CabinetTyped /\ QueuesTyped
  BY DEF TypeOK, CabinetTyped, QueuesTyped

\* The same after a step.
LEMMA TypePartsNext == TypeOK' <=> CabinetTyped' /\ QueuesTyped'
  BY DEF TypeOK, CabinetTyped, QueuesTyped

\* Both halves of the invariant: the cabinet with its picture, the commands.
ShownOK == CabinetTyped /\ ScreenCurrent /\ DrawnInContact /\ MarkInContact
QueuesOK == QueuesTyped /\ PoolFree /\ SlotFree

\* The invariant in two halves: what is shown, and what waits.
LEMMA Halves == IInv <=> ShownOK /\ QueuesOK
  BY TypeParts DEF IInv, ShownOK, QueuesOK

\* The same after a step.
LEMMA HalvesNext == ShownOK' /\ QueuesOK' => IInv'
  BY TypePartsNext DEF IInv, ShownOK, QueuesOK

\* A drawn automaton that A0 has just left.
LEMMA DrawnStep ==
  ASSUME shavr' \in Automaton, last_failures_count' \in 0 .. (ReconnectsCount + 1),
         Draw(shavr'), synced' \in BOOLEAN,
         shavr'.state \in ContactStates <=> shavr'.x1 /\ shavr'.x2,
         shavr'.x5 => shavr'.state \in ContactStates,
         synced' => shavr'.state = Target(shavr', EventData)
  PROVE  ShownOK'
<1>1. picture' = Image(shavr') /\ fresh' = TRUE
  BY DEF Draw
<1>2. CabinetTyped'
  BY <1>1, ImageTyped DEF CabinetTyped
<1>3. DrawnInContact' /\ MarkInContact'
  BY DEF DrawnInContact, MarkInContact
<1>4. ScreenCurrent'
  <2>1. /\ picture'.state = shavr'.state /\ picture'.mark = shavr'.x5
        /\ picture'.lines = Image(shavr').lines
    BY <1>1, ImageTyped
  <2>2. Image(shavr)' = Image(shavr')
    BY DEF Image
  <2>3. Target(shavr, EventData)' = Target(shavr', EventData)
    BY DEF Target, Powered, EventData, EventCommand
  <2>4. QED
    BY <2>1, <2>2, <2>3 DEF ScreenCurrent
<1>5. QED
  BY <1>2, <1>3, <1>4 DEF ShownOK

\* The end of a decoding that did not throw.
LEMMA DecodedShown ==
  ASSUME ShownOK, NEW s \in Automaton, s.state = shavr.state, s.x5 = shavr.x5,
         EndOfDecoding(s), last_failures_count' \in 0 .. (ReconnectsCount + 1)
  PROVE  ShownOK'
<1> DEFINE t == A0(s, EventData)
<1>1. /\ t \in Automaton /\ t.state = Target(s, EventData)
      /\ t.x1 = s.x1 /\ t.x2 = s.x2 /\ t.power = s.power
      /\ t.state \in ContactStates <=> t.x1 /\ t.x2
      /\ t.x5 = IF t.state \in ContactStates THEN s.x5
                ELSE s.x5 /\ t.state = s.state
  <2>1. EventData # EventCommand
    BY DEF EventData, EventCommand
  <2>2. s.x5 \in BOOLEAN
    BY Fields
  <2>3. QED
    BY <2>1, <2>2, A0Result, TargetResult
<1>2. /\ synced'
      /\ IF Changed(shavr, t) THEN shavr' = [t EXCEPT !.x5 = FALSE] /\ Draw(shavr')
         ELSE shavr' = t /\ UNCHANGED <<picture, fresh>>
  BY DEF EndOfDecoding
<1> HIDE DEF t
<1>3. t.state = Target(t, EventData)
  BY <1>1, DataTarget
<1>4. CASE Changed(shavr, t)
  <2>1. /\ shavr' \in Automaton /\ shavr'.state = t.state /\ shavr'.x1 = t.x1
        /\ shavr'.x2 = t.x2 /\ shavr'.power = t.power /\ shavr'.x5 = FALSE
    BY <1>1, <1>2, <1>4 DEF Automaton
  <2>2. shavr'.state = Target(shavr', EventData)
    BY <1>1, <1>3, <2>1, DataTarget
  <2>3. Draw(shavr') /\ synced' = TRUE
    BY <1>2, <1>4 DEF EndOfDecoding
  <2>4. QED
    BY <1>1, <2>1, <2>2, <2>3, DrawnStep
<1>5. CASE ~Changed(shavr, t)
  <2>1. /\ shavr' = t /\ picture' = picture /\ fresh' = fresh /\ synced' = TRUE
    BY <1>2, <1>5 DEF EndOfDecoding
  <2>2. /\ t.state = shavr.state
        /\ t.connected \ {<<3, 2>>} = shavr.connected \ {<<3, 2>>}
    BY <1>5 DEF Changed
  <2>3. t.x5 = shavr.x5
    <3>1. shavr.x5 \in BOOLEAN
      BY Fields DEF ShownOK, CabinetTyped
    <3>2. QED
      BY <1>1, <2>2, <3>1
  <2>4. CabinetTyped'
    BY <1>1, <2>1 DEF ShownOK, CabinetTyped
  <2>5. DrawnInContact' /\ MarkInContact'
    BY <1>1, <2>1, <2>2, <2>3 DEF ShownOK, DrawnInContact, MarkInContact
  <2>6. ScreenCurrent'
    <3>1. Target(shavr, EventData)' = Target(t, EventData)
      BY <2>1 DEF Target, Powered, EventData, EventCommand
    <3>2. Image(shavr)' = Image(t)
      BY <2>1 DEF Image
    <3>3. ASSUME fresh
          PROVE  Image(t).lines \ {<<3, 2>>} = Image(shavr).lines \ {<<3, 2>>}
      <4>1. (t.x1 /\ t.x2) <=> (shavr.x1 /\ shavr.x2)
        BY <1>1, <2>2, <3>3 DEF ShownOK, DrawnInContact
      <4>2. shavr \in Automaton
        BY DEF ShownOK, CabinetTyped
      <4>3. QED
        BY <1>1, <2>2, <4>1, <4>2, ImageTyped
    <3>4. QED
      BY <1>3, <2>1, <2>2, <2>3, <3>1, <3>2, <3>3 DEF ShownOK, ScreenCurrent
  <2>7. QED
    BY <2>4, <2>5, <2>6 DEF ShownOK
<1>6. QED
  BY <1>4, <1>5

\* A marked or cancelled command: A0(1) on the same inputs, and a drawing.
LEMMA CommandShown ==
  ASSUME ShownOK, NEW s \in Automaton, s.state = shavr.state, s.x1 = shavr.x1,
         s.x2 = shavr.x2, s.power = shavr.power, s.x5 => shavr.x5,
         shavr' = A0(s, EventCommand), Draw(shavr'),
         UNCHANGED <<last_failures_count, synced>>
  PROVE  ShownOK'
<1>0. shavr \in Automaton
  BY DEF ShownOK, CabinetTyped
<1>1. /\ shavr' \in Automaton /\ shavr'.state = Target(s, EventCommand)
      /\ shavr'.x1 = s.x1 /\ shavr'.x2 = s.x2 /\ shavr'.power = s.power
      /\ shavr'.state \in ContactStates <=> shavr'.x1 /\ shavr'.x2
      /\ shavr'.x5 = IF shavr'.state \in ContactStates
                     THEN s.x5 \/ (EventCommand = EventCommand /\ s.state \in ContactStates)
                     ELSE s.x5 /\ shavr'.state = s.state
  BY A0Result, TargetResult
<1>2. shavr'.x5 => shavr'.state \in ContactStates
  BY <1>1 DEF ShownOK, MarkInContact
<1>3. synced' => shavr'.state = Target(shavr', EventData)
  <2>1. SUFFICES ASSUME synced PROVE shavr'.state = Target(shavr', EventData)
    OBVIOUS
  <2>2. Target(shavr', EventData) = Target(shavr, EventData)
    BY <1>0, <1>1, DataTarget
  <2>3. shavr.state = Target(shavr, EventData)
    BY <2>1 DEF ShownOK, ScreenCurrent
  <2>4. Target(s, EventCommand) = Target(shavr, EventData)
    BY <2>3 DEF Target, Powered, EventData, EventCommand
  <2>5. QED
    BY <1>1, <2>2, <2>4
<1>4. /\ last_failures_count' \in 0 .. (ReconnectsCount + 1) /\ synced' \in BOOLEAN
  BY DEF ShownOK, CabinetTyped
<1>5. QED
  BY <1>1, <1>2, <1>3, <1>4, DrawnStep

\* The commands grow old with the lines they were chosen by.
LEMMA AgedFree ==
  ASSUME NEW c \in Commands, FreeAmong(c, shavr.connected)
  PROVE  /\ Aged(c) \in Commands /\ Aged(c).line = c.line /\ Aged(c).on = c.on
         /\ FreeAmong(Aged(c), shavr'.connected)
<1> DEFINE moved == \E i \in Inputs : (<<c.line[1], i>> \in shavr'.connected)
                                        # (<<c.line[1], i>> \in shavr.connected)
           a == [c EXCEPT !.old = c.old \/ moved]
<1>1. Aged(c) = a
  BY DEF Aged
<1>2. (c.old \/ moved) \in BOOLEAN
  BY DEF Commands
<1> DEFINE o == c.old \/ moved
<1> HIDE DEF moved, o
<1>3. a \in Commands /\ a.line = c.line /\ a.on = c.on /\ a.old = (c.old \/ moved)
  <2>1. /\ [c EXCEPT !.old = o] \in Commands /\ [c EXCEPT !.old = o].line = c.line
        /\ [c EXCEPT !.old = o].on = c.on /\ [c EXCEPT !.old = o].old = o
    BY <1>2 DEF Commands, o
  <2>2. QED
    BY <2>1 DEF o
<1> HIDE DEF a
<1>4. ASSUME a.on, ~a.old, NEW i \in Inputs
      PROVE  <<a.line[1], i>> \notin shavr'.connected
  <2>1. c.on /\ ~c.old /\ ~moved
    BY <1>3, <1>4
  <2>2. <<c.line[1], i>> \notin shavr.connected
    BY <2>1 DEF FreeAmong
  <2>3. <<c.line[1], i>> \notin shavr'.connected
    BY <2>1, <2>2 DEF moved
  <2>4. QED
    BY <1>3, <2>3
<1>5. FreeAmong(a, shavr'.connected)
  BY <1>4 DEF FreeAmong
<1>6. QED
  BY <1>1, <1>3, <1>5

\* The ageing of the waiting commands keeps their conditions.
LEMMA QueuesAge ==
  ASSUME QueuesOK, AgeCommands, Rest
  PROVE  QueuesOK'
<1>1. QueuesTyped /\ PoolFree /\ SlotFree
  BY DEF QueuesOK
<1>2. /\ pool' = {Aged(c) : c \in pool}
      /\ request_for_send_to_device' =
           IF request_for_send_to_device = None THEN None
           ELSE Aged(request_for_send_to_device)
  BY DEF AgeCommands
<1>3. \A c \in pool' : c \in Commands /\ FreeAmong(c, shavr'.connected)
  <2>1. SUFFICES ASSUME NEW c \in pool
                 PROVE  Aged(c) \in Commands /\ FreeAmong(Aged(c), shavr'.connected)
    BY <1>2
  <2>2. c \in Commands /\ FreeAmong(c, shavr.connected)
    BY <1>1 DEF QueuesTyped, PoolFree
  <2>3. QED
    BY <2>2, AgedFree
<1>4. /\ request_for_send_to_device' \in Commands \cup {None}
      /\ request_for_send_to_device' # None
           => FreeAmong(request_for_send_to_device', shavr'.connected)
  <2>1. CASE request_for_send_to_device = None
    BY <1>2, <2>1
  <2>2. CASE request_for_send_to_device # None
    <3>1. /\ request_for_send_to_device \in Commands
          /\ FreeAmong(request_for_send_to_device, shavr.connected)
      BY <1>1, <2>2 DEF QueuesTyped, SlotFree
    <3>2. /\ Aged(request_for_send_to_device) \in Commands
          /\ FreeAmong(Aged(request_for_send_to_device), shavr'.connected)
      BY <3>1, AgedFree
    <3>3. QED
      BY <1>2, <2>2, <3>2
  <2>3. QED
    BY <2>1, <2>2
<1>5. QueuesTyped'
  BY <1>1, <1>3, <1>4 DEF QueuesTyped, Rest
<1>6. PoolFree' /\ SlotFree'
  BY <1>3, <1>4 DEF PoolFree, SlotFree, FreeAmong
<1>7. QED
  BY <1>5, <1>6 DEF QueuesOK

\* The dispatcher's handlers leave the lines as they are known.
LEMMA QueuesKeep ==
  ASSUME QueuesOK, shavr'.connected = shavr.connected,
         pool' \subseteq Commands, conduction_is_switched_off' \in BOOLEAN,
         contacts' \subseteq Lines,
         \A c \in pool' : c \in pool \/ FreeAmong(c, shavr.connected),
         request_for_send_to_device' \in pool \cup {None, request_for_send_to_device}
  PROVE  QueuesOK'
<1>1. QueuesTyped /\ PoolFree /\ SlotFree
  BY DEF QueuesOK
<1>2. QueuesTyped'
  BY <1>1 DEF QueuesTyped
<1>3. PoolFree'
  BY <1>1 DEF PoolFree, FreeAmong
<1>4. SlotFree'
  BY <1>1 DEF PoolFree, SlotFree, FreeAmong
<1>5. QED
  BY <1>2, <1>3, <1>4 DEF QueuesOK

\* The picture and the automaton stay.
LEMMA ShownKeep ==
  ASSUME ShownOK, UNCHANGED <<shavr, last_failures_count, picture, synced, fresh>>
  PROVE  ShownOK'
  BY DEF ShownOK, CabinetTyped, ScreenCurrent, DrawnInContact, MarkInContact, Target,
     Powered, Image, EventData, EventCommand
-----------------------------------------------------------------------------
(***************************************************************************)
(* The steps                                                               *)
(***************************************************************************)

\* The invariant holds at the start.
LEMMA InitIInv == Init => IInv
<1> SUFFICES ASSUME Init PROVE IInv
  OBVIOUS
<1>1. /\ shavr \in Automaton /\ shavr.state = "OFFLINE" /\ shavr.x1 = FALSE
      /\ shavr.x5 = FALSE
  BY DEF Init, Automaton, States
<1>2. picture = Image(shavr)
  BY DEF Init
<1>3. CabinetTyped
  BY <1>1, <1>2, ImageTyped, CountsAssumption DEF Init, CabinetTyped
<1>4. ScreenCurrent
  BY <1>1, <1>2, ImageTyped DEF ScreenCurrent, Target
<1>5. DrawnInContact /\ MarkInContact
  BY <1>1 DEF DrawnInContact, MarkInContact, ContactStates
<1>6. QueuesOK
  BY DEF Init, QueuesOK, QueuesTyped, PoolFree, SlotFree
<1>7. QED
  BY <1>3, <1>4, <1>5, <1>6, Halves DEF ShownOK

\* What an answer with contact does to the inputs.
LEMMA ContactResult ==
  ASSUME NEW s \in Automaton
  PROVE  /\ Contact(s) \in Automaton /\ Contact(s).state = s.state
         /\ Contact(s).x5 = s.x5 /\ Contact(s).connected = s.connected
         /\ Contact(s).x1 = TRUE /\ Contact(s).x2 = TRUE
  BY DEF Contact, Automaton

\* What storing an answer's inputs makes of the automaton.
LEMMA StoredResult ==
  ASSUME NEW s \in Automaton, NEW power \in SUBSET Inputs,
         NEW telemetry \in SUBSET Lines, contacts \subseteq Lines
  PROVE  /\ Stored(s, power, telemetry) \in Automaton
         /\ Stored(s, power, telemetry).state = s.state
         /\ Stored(s, power, telemetry).x5 = s.x5
         /\ Stored(s, power, telemetry).x1 = TRUE /\ Stored(s, power, telemetry).x2 = TRUE
<1> DEFINE b == Contact(s)
<1>1. /\ b \in Automaton /\ b.state = s.state /\ b.x5 = s.x5
      /\ b.x1 = TRUE /\ b.x2 = TRUE
  BY ContactResult
<1> HIDE DEF b
<1>2. Stored(s, power, telemetry) = [b EXCEPT !.power = power, !.connected = contacts,
                                              !.telemetry = telemetry]
  BY DEF Stored, b
<1>3. QED
  BY <1>1, <1>2 DEF Automaton

\* Zero is a number of failures.
LEMMA NoFailures == 0 \in 0 .. (ReconnectsCount + 1)
  BY CountsAssumption

\* The answers that are decoded to the end.
LEMMA DecodingStep ==
  ASSUME IInv,
         \/ DecodeEmpty \/ DecodeError \/ DecodeEcho
         \/ \E power \in SUBSET Inputs, telemetry \in SUBSET Lines :
              Decode(power, telemetry)
  PROVE  IInv'
<1>0. /\ ShownOK /\ QueuesOK /\ shavr \in Automaton /\ contacts \subseteq Lines
      /\ last_failures_count \in 0 .. (ReconnectsCount + 1) /\ ReconnectsCount \in Nat
  BY Halves, CountsAssumption DEF ShownOK, QueuesOK, CabinetTyped, QueuesTyped
<1>1. QueuesOK'
  BY <1>0, QueuesAge DEF DecodeEmpty, DecodeError, DecodeEcho, Decode
<1>2. PICK s \in Automaton :
        /\ s.state = shavr.state /\ s.x5 = shavr.x5 /\ EndOfDecoding(s)
        /\ last_failures_count' \in 0 .. (ReconnectsCount + 1)
  <2>1. CASE DecodeEmpty
    <3>1. CASE last_failures_count > ReconnectsCount
      <4> DEFINE s == [shavr EXCEPT !.x1 = FALSE]
      <4>1. s \in Automaton /\ s.state = shavr.state /\ s.x5 = shavr.x5
        BY <1>0 DEF Automaton
      <4>2. EndOfDecoding(s) /\ last_failures_count' = last_failures_count
        BY <2>1, <3>1 DEF DecodeEmpty
      <4> HIDE DEF s
      <4>3. QED
        BY <1>0, <4>1, <4>2
    <3>2. CASE ~(last_failures_count > ReconnectsCount)
      <4>1. EndOfDecoding(shavr) /\ last_failures_count' = last_failures_count + 1
        BY <2>1, <3>2 DEF DecodeEmpty
      <4>2. QED
        BY <1>0, <3>2, <4>1
    <3>3. QED
      BY <3>1, <3>2
  <2>2. CASE DecodeError
    <3>1. CASE last_failures_count > ReconnectsCount \/ ~shavr.x1
      <4> DEFINE s == [shavr EXCEPT !.x1 = TRUE, !.x2 = FALSE]
      <4>1. s \in Automaton /\ s.state = shavr.state /\ s.x5 = shavr.x5
        BY <1>0 DEF Automaton
      <4>2. EndOfDecoding(s) /\ last_failures_count' = 0
        BY <2>2, <3>1 DEF DecodeError
      <4> HIDE DEF s
      <4>3. QED
        BY <1>0, <4>1, <4>2
    <3>2. CASE ~(last_failures_count > ReconnectsCount \/ ~shavr.x1)
      <4>1. EndOfDecoding(shavr) /\ last_failures_count' = last_failures_count + 1
        BY <2>2, <3>2 DEF DecodeError
      <4>2. QED
        BY <1>0, <3>2, <4>1
    <3>3. QED
      BY <3>1, <3>2
  <2>3. CASE DecodeEcho
    <3>1. EndOfDecoding(Contact(shavr)) /\ last_failures_count' = 0
      BY <2>3 DEF DecodeEcho
    <3>2. /\ Contact(shavr) \in Automaton /\ Contact(shavr).state = shavr.state
          /\ Contact(shavr).x5 = shavr.x5
      BY <1>0, ContactResult
    <3>3. QED
      BY <3>1, <3>2, NoFailures
  <2>4. ASSUME NEW power \in SUBSET Inputs, NEW telemetry \in SUBSET Lines,
               Decode(power, telemetry)
        PROVE  \E s \in Automaton :
                 /\ s.state = shavr.state /\ s.x5 = shavr.x5 /\ EndOfDecoding(s)
                 /\ last_failures_count' \in 0 .. (ReconnectsCount + 1)
    <3> DEFINE s == Stored(shavr, power, telemetry)
    <3>1. EndOfDecoding(s) /\ last_failures_count' = 0
      BY <2>4 DEF Decode
    <3>2. /\ s \in Automaton /\ s.state = shavr.state
          /\ s.x5 = shavr.x5
      BY <1>0, StoredResult
    <3> HIDE DEF s
    <3>3. QED
      BY <3>1, <3>2, NoFailures
  <2>5. QED
    BY <2>1, <2>2, <2>3, <2>4
<1>3. ShownOK'
  BY <1>0, <1>2, DecodedShown
<1>4. QED
  BY <1>1, <1>3, HalvesNext

\* A decoding that threw forgets that the picture was current.
LEMMA ThrownStep ==
  ASSUME IInv, NEW power \in SUBSET Inputs, NEW telemetry \in SUBSET Lines,
         NEW stored \in BOOLEAN, DecodeThrown(power, telemetry, stored)
  PROVE  IInv'
<1>0. /\ ShownOK /\ QueuesOK /\ shavr \in Automaton /\ contacts \subseteq Lines
      /\ ReconnectsCount \in Nat
  BY Halves, CountsAssumption DEF ShownOK, QueuesOK, CabinetTyped, QueuesTyped
<1>1. QueuesOK'
  BY <1>0, QueuesAge DEF DecodeThrown
<1>2. shavr' \in Automaton /\ shavr'.state = shavr.state /\ shavr'.x5 = shavr.x5
  BY <1>0, ContactResult, StoredResult DEF DecodeThrown
<1>3. ShownOK'
  <2>1. /\ last_failures_count' = 0 /\ synced' = FALSE /\ fresh' = FALSE
        /\ picture' = picture
    BY DEF DecodeThrown
  <2>2. CabinetTyped'
    BY <1>0, <1>2, <2>1, NoFailures DEF ShownOK, CabinetTyped
  <2>3. MarkInContact'
    BY <1>0, <1>2 DEF ShownOK, MarkInContact
  <2>4. QED
    BY <2>1, <2>2, <2>3 DEF ShownOK, ScreenCurrent, DrawnInContact
<1>4. QED
  BY <1>1, <1>3, HalvesNext

\* Choosing a command keeps the invariant;
LEMMA ChooseStep ==
  ASSUME IInv, NEW on \in BOOLEAN, NEW l \in Lines, Choose(on, l)
  PROVE  IInv'
<1> DEFINE c == [on |-> on, line |-> l, old |-> FALSE]
<1>0. ShownOK /\ QueuesOK
  BY Halves
<1>1. c \in Commands /\ c.on = on /\ c.line = l
  BY DEF Commands
<1>2. /\ pool' = pool \cup {c} /\ Offered(on, l)
      /\ UNCHANGED <<shavr, request_for_send_to_device, conduction_is_switched_off,
                     picture, fresh, last_failures_count, contacts, synced>>
  BY DEF Choose, Untouched
<1> HIDE DEF c
<1>3. FreeAmong(c, shavr.connected)
  BY <1>1, <1>2 DEF FreeAmong, Offered, Connectable
<1>4. QueuesOK'
  BY <1>0, <1>1, <1>2, <1>3, QueuesKeep DEF QueuesOK, QueuesTyped
<1>5. ShownOK'
  BY <1>0, <1>2, ShownKeep
<1>6. QED
  BY <1>4, <1>5, HalvesNext

\* so does sending it
LEMMA SendCommandStep ==
  ASSUME IInv, NEW c \in pool, SendCommand(c)
  PROVE  IInv'
<1>0. ShownOK /\ QueuesOK /\ shavr \in Automaton
  BY Halves DEF ShownOK, CabinetTyped
<1>1. /\ pool' \in {pool, pool \ {c}}
      /\ UNCHANGED <<conduction_is_switched_off, last_failures_count, contacts, synced>>
  BY DEF SendCommand, Untouched
<1>2. CASE conduction_is_switched_off
  <2>1. UNCHANGED <<shavr, request_for_send_to_device, picture, fresh>>
    BY <1>2 DEF SendCommand
  <2>2. QueuesOK'
    BY <1>0, <1>1, <2>1, QueuesKeep DEF QueuesOK, QueuesTyped
  <2>3. ShownOK'
    BY <1>0, <1>1, <2>1, ShownKeep
  <2>4. QED
    BY <2>2, <2>3, HalvesNext
<1>3. CASE ~conduction_is_switched_off
  <2>1. /\ request_for_send_to_device' = c
        /\ shavr' = A0(shavr, EventCommand) /\ Draw(shavr')
    BY <1>3 DEF SendCommand, Marked
  <2>2. shavr'.connected = shavr.connected
    BY <1>0, <2>1, A0Result
  <2>3. QueuesOK'
    BY <1>0, <1>1, <2>1, <2>2, QueuesKeep DEF QueuesOK, QueuesTyped
  <2>4. ShownOK'
    BY <1>0, <1>1, <2>1, CommandShown
  <2>5. QED
    BY <2>3, <2>4, HalvesNext
<1>4. QED
  BY <1>2, <1>3

\* and taking it back.
LEMMA ChancelStep ==
  ASSUME IInv, Chancel
  PROVE  IInv'
<1> DEFINE s == [shavr EXCEPT !.x5 = FALSE]
<1>0. ShownOK /\ QueuesOK /\ shavr \in Automaton
  BY Halves DEF ShownOK, CabinetTyped
<1>1. /\ s \in Automaton /\ s.state = shavr.state /\ s.x1 = shavr.x1
      /\ s.x2 = shavr.x2 /\ s.power = shavr.power /\ s.x5 = FALSE
      /\ s.connected = shavr.connected
  BY <1>0 DEF Automaton
<1>2. /\ shavr' = A0(s, EventCommand) /\ Draw(shavr')
      /\ UNCHANGED <<pool, request_for_send_to_device, conduction_is_switched_off,
                     last_failures_count, contacts, synced>>
  BY DEF Chancel, Cancelled, Untouched
<1> HIDE DEF s
<1>3. shavr'.connected = shavr.connected
  BY <1>1, <1>2, A0Result
<1>4. QueuesOK'
  BY <1>0, <1>2, <1>3, QueuesKeep DEF QueuesOK, QueuesTyped
<1>5. ShownOK'
  BY <1>0, <1>1, <1>2, CommandShown
<1>6. QED
  BY <1>4, <1>5, HalvesNext

\* The commands and the contacts move, the cabinet as it is known stays.
LEMMA ElsewhereStep ==
  ASSUME IInv,
         \/ SwitchConduction
         \/ \E executed \in BOOLEAN : NetworkTakes(executed)
         \/ \E l \in Lines : SwitchedLocally(l)
         \/ UNCHANGED vars
  PROVE  IInv'
<1>0. ShownOK /\ QueuesOK /\ QueuesTyped
  BY Halves DEF QueuesOK
<1>1. /\ UNCHANGED <<shavr, last_failures_count, picture, synced, fresh, pool>>
      /\ request_for_send_to_device' \in {None, request_for_send_to_device}
  BY DEF SwitchConduction, NetworkTakes, SwitchedLocally, Untouched, vars
<1>2. conduction_is_switched_off' \in BOOLEAN
  BY <1>0 DEF SwitchConduction, NetworkTakes, SwitchedLocally, vars, QueuesTyped
<1>3. contacts' \subseteq Lines
  <2>1. CASE SwitchConduction \/ UNCHANGED vars
    BY <1>0, <2>1 DEF SwitchConduction, Untouched, vars, QueuesTyped
  <2>2. ASSUME NEW executed \in BOOLEAN, NetworkTakes(executed)
        PROVE  contacts' \subseteq Lines
    <3>1. request_for_send_to_device \in Commands
      BY <1>0, <2>2 DEF NetworkTakes, QueuesTyped
    <3>2. request_for_send_to_device.line \in Lines
      BY <3>1 DEF Commands
    <3>3. QED
      BY <1>0, <2>2, <3>2 DEF NetworkTakes, QueuesTyped
  <2>3. ASSUME NEW l \in Lines, SwitchedLocally(l)
        PROVE  contacts' \subseteq Lines
    BY <1>0, <2>3 DEF SwitchedLocally, QueuesTyped
  <2>4. QED
    BY <2>1, <2>2, <2>3
<1>4. QueuesOK'
  BY <1>0, <1>1, <1>2, <1>3, QueuesKeep DEF QueuesTyped
<1>5. ShownOK'
  BY <1>0, <1>1, ShownKeep
<1>6. QED
  BY <1>4, <1>5, HalvesNext

\* Every step keeps the invariant.
LEMMA NextIInv == IInv /\ [Next]_vars => IInv'
<1> SUFFICES ASSUME IInv, [Next]_vars PROVE IInv'
  OBVIOUS
<1>1. Telemetries \subseteq SUBSET Lines
  BY DEF Telemetries
<1>2. CASE DecodeEmpty \/ DecodeError \/ DecodeEcho
  BY <1>2, DecodingStep
<1>3. ASSUME NEW p \in SUBSET Inputs, NEW t \in Telemetries,
             Decode(p, t) \/ \E stored \in BOOLEAN : DecodeThrown(p, t, stored)
      PROVE  IInv'
  BY <1>1, <1>3, DecodingStep, ThrownStep
<1>4. CASE \E on \in BOOLEAN, l \in Lines : Choose(on, l)
  BY <1>4, ChooseStep
<1>5. CASE \E c \in pool : SendCommand(c)
  BY <1>5, SendCommandStep
<1>6. CASE Chancel
  BY <1>6, ChancelStep
<1>7. CASE \/ SwitchConduction
           \/ \E executed \in BOOLEAN : NetworkTakes(executed)
           \/ \E l \in Lines : SwitchedLocally(l)
           \/ UNCHANGED vars
  BY <1>7, ElsewhereStep
<1>8. QED
  BY <1>2, <1>3, <1>4, <1>5, <1>6, <1>7 DEF Next
-----------------------------------------------------------------------------
(***************************************************************************)
(* The theorems                                                            *)
(***************************************************************************)
\* Every behaviour keeps the types, the state of the inputs, the halves' picture
\* and the conditions of the command in the slot (metro_shavr).
THEOREM Invariant == Spec => []IInv
  BY InitIInv, NextIInv, PTL DEF Spec

\* Whatever is answered, sent, cancelled or thrown, the state is that of the
\* inputs and the picture that of the state, the mark and all lines but the one
\* that is not compared.
THEOREM CabinetIsShown == Spec => []CabinetShown
<1>1. IInv => CabinetShown
  BY DEF IInv, CabinetShown
<1>2. QED
  BY <1>1, Invariant, PTL

\* A command in the slot that would connect an escalator to its second supply
\* was chosen before the first was known.
THEOREM DoubleUnknown == Spec => []NoKnownDouble
<1>1. IInv => NoKnownDouble
  <2> SUFFICES ASSUME IInv PROVE NoKnownDouble
    OBVIOUS
  <2> DEFINE c == request_for_send_to_device
  <2>1. SUFFICES ASSUME c # None, c.on, ~c.old PROVE ~KnownDouble(c)
    <3>1. c \in Commands => c.on \in BOOLEAN
      BY DEF Commands
    <3>2. QED
      BY DEF NoKnownDouble, DoubleSupply
  <2>2. \A i \in Inputs : <<c.line[1], i>> \notin shavr.connected
    BY <2>1 DEF IInv, SlotFree, FreeAmong
  <2>3. QED
    BY <2>2 DEF KnownDouble
<1>2. QED
  BY <1>1, Invariant, PTL

\* In contact the mark of a command goes only with a change of the supply or
\* of the lines: not with the dispatcher's CHANCEL, a lost answer or the echo.
THEOREM MarkIsKept == Spec => MarkStands
<1> DEFINE Kept == shavr.x5 /\ ~shavr'.x5
                   => shavr'.state # shavr.state \/ shavr'.connected # shavr.connected
<1>1. ASSUME IInv, [Next]_vars PROVE [Kept]_vars
  <2>0. SUFFICES ASSUME shavr.x5, ~shavr'.x5, shavr'.state = shavr.state,
                        shavr'.connected = shavr.connected
                 PROVE  FALSE
    OBVIOUS
  <2>1. shavr \in Automaton /\ contacts \subseteq Lines /\ shavr.state \in ContactStates
    BY <1>1, <2>0 DEF IInv, TypeOK, MarkInContact
  <2>2. ASSUME NEW s \in Automaton, s.state = shavr.state, s.x5 = shavr.x5,
               EndOfDecoding(s)
        PROVE  FALSE
    <3> DEFINE t == A0(s, EventData)
    <3>1. /\ t \in Automaton
          /\ t.x5 = IF t.state \in ContactStates
                    THEN s.x5 \/ (EventData = EventCommand /\ s.state \in ContactStates)
                    ELSE s.x5 /\ t.state = s.state
      BY A0Result
    <3>2. IF Changed(shavr, t) THEN shavr' = [t EXCEPT !.x5 = FALSE] ELSE shavr' = t
      BY <2>2 DEF EndOfDecoding
    <3> HIDE DEF t
    <3>3. CASE Changed(shavr, t)
      <4>1. shavr'.state = t.state /\ shavr'.connected = t.connected
        BY <3>1, <3>2, <3>3 DEF Automaton
      <4>2. QED
        BY <2>0, <3>3, <4>1 DEF Changed
    <3>4. CASE ~Changed(shavr, t)
      BY <2>0, <2>1, <2>2, <3>1, <3>2, <3>4
    <3>5. QED
      BY <3>3, <3>4
  <2>3. CASE DecodeEmpty \/ DecodeError \/ DecodeEcho
    <3>1. [shavr EXCEPT !.x1 = FALSE] \in Automaton
          /\ [shavr EXCEPT !.x1 = FALSE].state = shavr.state
          /\ [shavr EXCEPT !.x1 = FALSE].x5 = shavr.x5
      BY <2>1 DEF Automaton
    <3>2. [shavr EXCEPT !.x1 = TRUE, !.x2 = FALSE] \in Automaton
          /\ [shavr EXCEPT !.x1 = TRUE, !.x2 = FALSE].state = shavr.state
          /\ [shavr EXCEPT !.x1 = TRUE, !.x2 = FALSE].x5 = shavr.x5
      BY <2>1 DEF Automaton
    <3>3. \/ EndOfDecoding([shavr EXCEPT !.x1 = FALSE])
          \/ EndOfDecoding([shavr EXCEPT !.x1 = TRUE, !.x2 = FALSE])
          \/ EndOfDecoding(Contact(shavr)) \/ EndOfDecoding(shavr)
      BY <2>3 DEF DecodeEmpty, DecodeError, DecodeEcho
    <3>4. QED
      BY <2>1, <2>2, <3>1, <3>2, <3>3, ContactResult
  <2>4. ASSUME NEW p \in SUBSET Inputs, NEW t \in Telemetries, Decode(p, t)
        PROVE  FALSE
    <3>1. t \in SUBSET Lines
      BY DEF Telemetries
    <3>2. QED
      BY <2>1, <2>2, <2>4, <3>1, StoredResult DEF Decode
  <2>5. ASSUME NEW p \in SUBSET Inputs, NEW t \in Telemetries,
               NEW stored \in BOOLEAN, DecodeThrown(p, t, stored)
        PROVE  FALSE
    <3>1. t \in SUBSET Lines
      BY DEF Telemetries
    <3>2. QED
      BY <2>0, <2>1, <2>5, <3>1, StoredResult, ContactResult DEF DecodeThrown
  <2>6. ASSUME NEW s \in Automaton, s.state = shavr.state, shavr' = A0(s, EventCommand)
        PROVE  FALSE
    <3>1. /\ shavr'.state = Target(s, EventCommand)
          /\ shavr'.x5 = IF Target(s, EventCommand) \in ContactStates
                         THEN s.x5 \/ (EventCommand = EventCommand /\ s.state \in ContactStates)
                         ELSE s.x5 /\ Target(s, EventCommand) = s.state
      BY <2>6, A0Result
    <3>2. Target(s, EventCommand) \in ContactStates /\ s.state \in ContactStates
      BY <2>0, <2>1, <2>6, <3>1
    <3>3. QED
      BY <2>0, <3>1, <3>2
  <2>7. ASSUME NEW c \in pool, SendCommand(c) PROVE FALSE
    BY <2>0, <2>1, <2>6, <2>7 DEF SendCommand, Marked
  <2>8. CASE Chancel
    <3>1. [shavr EXCEPT !.x5 = FALSE] \in Automaton
          /\ [shavr EXCEPT !.x5 = FALSE].state = shavr.state
      BY <2>1 DEF Automaton
    <3>2. QED
      BY <2>6, <2>8, <3>1 DEF Chancel, Cancelled
  <2>9. CASE \/ \E on \in BOOLEAN, l \in Lines : Choose(on, l)
             \/ SwitchConduction
             \/ \E executed \in BOOLEAN : NetworkTakes(executed)
             \/ \E l \in Lines : SwitchedLocally(l)
             \/ UNCHANGED vars
    BY <2>0, <2>9 DEF Choose, SwitchConduction, NetworkTakes, SwitchedLocally, vars
  <2>10. QED
    BY <1>1, <2>3, <2>4, <2>5, <2>7, <2>8, <2>9 DEF Next
<1>2. QED
  BY <1>1, Invariant, PTL DEF Spec, MarkStands
=============================================================================
