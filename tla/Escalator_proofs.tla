-------------------------- MODULE Escalator_proofs ---------------------------
(***************************************************************************)
(* Theorems about the escalators of the spider and about the program that  *)
(* starts them in the morning.                                             *)
(*                                                                         *)
(* The automaton: for every number of forgiven failures, every set of      *)
(* preferred directions and every line; and the UDKU, whose automaton is   *)
(* the same and whose answers are stored differently.                      *)
(*                                                                         *)
(* The morning start: for every file the program loads, every choice of    *)
(* the dispatcher, every length of the day and of the hour, and any number *)
(* of days and starts.                                                     *)
(***************************************************************************)
EXTENDS Udku, MorningStart, TLAPS

-----------------------------------------------------------------------------
(***************************************************************************)
(* Lemmas about the automaton                                              *)
(***************************************************************************)

\* The fields of an automaton, for the provers.
LEMMA FieldTypes ==
  ASSUME NEW a \in Automaton
  PROVE  /\ a.state \in States /\ a.x1 \in Directions
         /\ a.previous_direction \in Directions
         /\ a.x0 \in BOOLEAN /\ a.x2 \in BOOLEAN /\ a.x3 \in BOOLEAN
         /\ a.x4 \in BOOLEAN /\ a.x5 \in BOOLEAN /\ a.x6 \in BOOLEAN
         /\ a.x8 \in BOOLEAN
  BY DEF Automaton

\* A state the inputs of a device in contact allow.
Allowed(a, s) ==
  /\ s \in States \ {"OFFLINE", "EXCEPTION"}
  /\ s \in {"READY", "READY_NOT_ACCEPTED", "STARTING"} => a.x4 /\ ~a.x0
  /\ s = "STOPPING" => a.x4 /\ a.x0
  /\ s = "RUN" => a.x0
  /\ s = "NOT_READY" => ~a.x4

\* Every row of the automaton leads to a state the inputs allow.
LEMMA InContactAllowed ==
  ASSUME NEW a \in Automaton, NEW event
  PROVE  Allowed(a, InContact(a, event))
<1> USE FieldTypes DEF Allowed, States
<1>1. Allowed(a, FromNotReady(a))
  BY DEF FromNotReady
<1>2. a.state \in {"READY", "READY_NOT_ACCEPTED"} => Allowed(a, FromReady(a, event))
  BY DEF FromReady
<1>3. a.state = "READY_NOT_ACCEPTED" => Allowed(a, FromReadyNotAccepted(a, event))
  BY <1>2 DEF FromReadyNotAccepted
<1>4. Allowed(a, FromStarting(a, event))
  BY DEF FromStarting
<1>5. Allowed(a, FromRun(a, event))
  BY DEF FromRun
<1>6. Allowed(a, FromStopping(a, event))
  BY DEF FromStopping
<1>7. Allowed(a, FromOffline(a))
  BY DEF FromOffline
<1>8. Allowed(a, FromException(a))
  BY DEF FromException
<1>9. QED
  BY <1>1, <1>2, <1>3, <1>4, <1>5, <1>6, <1>7, <1>8 DEF InContact

\* Entering a state yields an automaton in that state with the same inputs.
LEMMA EnterType ==
  ASSUME NEW a \in Automaton, NEW to \in States, NEW event \in Events,
         NEW pref \in Directions
  PROVE  /\ Enter(a, to, event, pref) \in Automaton
         /\ Enter(a, to, event, pref).state = to
         /\ Enter(a, to, event, pref).x0 = a.x0
         /\ Enter(a, to, event, pref).x2 = FlagOnEntry(a, to)
         /\ Enter(a, to, event, pref).x3 = a.x3
         /\ Enter(a, to, event, pref).x4 = a.x4
         /\ Enter(a, to, event, pref).x5 = a.x5
         /\ Enter(a, to, event, pref).x6 = a.x6
<1>1. DirectionOnEntry(a, to, event, pref) \in Directions
  BY FieldTypes DEF DirectionOnEntry, Directions
<1>2. FlagOnEntry(a, to) \in BOOLEAN
  BY FieldTypes DEF FlagOnEntry
<1>3. QED
  BY <1>1, <1>2 DEF Enter, Automaton

\* A0 moves to one of its states.
LEMMA TargetType ==
  ASSUME NEW a \in Automaton, NEW event
  PROVE  Target(a, event) \in States
  BY FieldTypes, InContactAllowed DEF Target, Allowed, States

\* A0 changes no input of the outside world.
LEMMA A0Type ==
  ASSUME NEW a \in Automaton, NEW event \in Events, NEW pref \in Directions
  PROVE  /\ A0(a, event, pref) \in Automaton
         /\ A0(a, event, pref).state = Target(a, event)
         /\ A0(a, event, pref).x0 = a.x0
         /\ A0(a, event, pref).x3 = a.x3
         /\ A0(a, event, pref).x4 = a.x4
         /\ A0(a, event, pref).x5 = a.x5
         /\ A0(a, event, pref).x6 = a.x6
  BY TargetType, EnterType DEF A0

\* From any state and whatever the inputs were before, one A0 brings the
\* state into agreement with the inputs.
LEMMA A0Agrees ==
  ASSUME NEW a \in Automaton, NEW event \in Events, NEW pref \in Directions
  PROVE  AgreesWithInputs(A0(a, event, pref))
<1>1. CASE ~a.x5
  BY <1>1, A0Type DEF Target, AgreesWithInputs
<1>2. CASE a.x5 /\ ~a.x6
  BY <1>2, A0Type DEF Target, AgreesWithInputs
<1>3. CASE a.x5 /\ a.x6
  <2>1. Target(a, event) = InContact(a, event)
    BY <1>3 DEF Target
  <2>2. QED
    BY <1>3, <2>1, A0Type, InContactAllowed DEF Allowed, AgreesWithInputs
<1>4. QED
  BY <1>1, <1>2, <1>3, FieldTypes

\* A0 keeps READY_NOT_ACCEPTED marked by x2 and READY unmarked.
Marked(a) == /\ a.state = "READY_NOT_ACCEPTED" => a.x2
             /\ a.state = "READY" => ~a.x2

\* A step of the automaton keeps the mark of a pending command right.
LEMMA A0Marked ==
  ASSUME NEW a \in Automaton, NEW event \in Events, NEW pref \in Directions,
         Marked(a)
  PROVE  Marked(A0(a, event, pref))
<1>1. CASE Target(a, event) = a.state
  BY <1>1 DEF A0
<1>2. CASE Target(a, event) # a.state
  <2> DEFINE r == A0(a, event, pref)
  <2>1. r.state = Target(a, event) /\ r.x2 = FlagOnEntry(a, Target(a, event))
    BY <1>2, TargetType, EnterType DEF A0
  <2>2. QED
    BY <2>1 DEF FlagOnEntry, Marked
<1>3. QED
  BY <1>1, <1>2
-----------------------------------------------------------------------------
(***************************************************************************)
(* The handlers, as functions of the automaton                             *)
(***************************************************************************)

\* What a handler that runs A0(7) to its end leaves behind.
LEMMA DataRefreshedResult ==
  ASSUME NEW inp \in Automaton, pref_direction \in Directions
  PROVE  /\ DataRefreshed(inp) \in Automaton
         /\ AgreesWithInputs(DataRefreshed(inp))
         /\ Marked(inp) => Marked(DataRefreshed(inp))
         /\ DataRefreshed(inp).x5 = inp.x5
         /\ DataRefreshed(inp).x6 = inp.x6
<1> DEFINE b == A0(inp, EventData, pref_direction)
<1>1. EventData \in Events
  BY DEF Events, EventUp, EventData
<1>2. /\ b \in Automaton /\ AgreesWithInputs(b)
      /\ Marked(inp) => Marked(b)
      /\ b.x5 = inp.x5 /\ b.x6 = inp.x6
  BY <1>1, A0Type, A0Agrees, A0Marked
<1>3. CASE DataRefreshed(inp) = b
  BY <1>2, <1>3
<1>4. CASE DataRefreshed(inp) = [b EXCEPT !.x1 = pref_direction]
  <2> HIDE DEF b
  <2>1. [b EXCEPT !.x1 = pref_direction] \in Automaton
    BY <1>2 DEF Automaton
  <2>2. \A f \in {"state", "x0", "x2", "x4", "x5", "x6"} :
          [b EXCEPT !.x1 = pref_direction][f] = b[f]
    BY <1>2 DEF Automaton
  <2>3. QED
    BY <1>2, <1>4, <2>1, <2>2 DEF AgreesWithInputs, Marked
<1>5. QED
  BY <1>3, <1>4 DEF DataRefreshed, ShowPreferred

\* What the two automaton steps of a command leave behind.
LEMMA CommandResult ==
  ASSUME NEW a \in Automaton, NEW e \in Events, NEW pref \in Directions
  PROVE  LET r == A0(A0(a, e, pref), EventData, pref)
         IN  /\ r \in Automaton
             /\ AgreesWithInputs(r)
             /\ Marked(a) => Marked(r)
             /\ r.x5 = a.x5 /\ r.x6 = a.x6
<1>1. EventData \in Events
  BY DEF Events, EventUp, EventData
<1>2. /\ A0(a, e, pref) \in Automaton
      /\ Marked(a) => Marked(A0(a, e, pref))
      /\ A0(a, e, pref).x5 = a.x5 /\ A0(a, e, pref).x6 = a.x6
  BY A0Type, A0Marked
<1>3. QED
  BY <1>1, <1>2, A0Type, A0Agrees, A0Marked
-----------------------------------------------------------------------------
(***************************************************************************)
(* The invariant.  TypeOK and FailuresAreMisses are inductive together;    *)
(* StateAgrees and PendingMarked need TypeOK for the automaton's lemmas.   *)
(***************************************************************************)
\* A0_x2 marks the states a dispatcher has still to accept (z6, z7).
PendingMarked ==
  /\ esc.state = "READY_NOT_ACCEPTED" => esc.x2
  /\ esc.state = "READY" => ~esc.x2

\* The failure counter never runs ahead of the answers without a state.
FailuresAreMisses == last_failures_count <= misses

IInv == TypeOK /\ StateAgrees /\ PendingMarked /\ FailuresAreMisses

\* Drawing leaves an image on the screen.
LEMMA RedrawResult ==
  ASSUME NEW a \in Automaton, NEW needed \in BOOLEAN, TypeOK, Redraw(a, needed)
  PROVE  widget' \in Images /\ fresh' \in BOOLEAN
<1>1. Colour(a) \in Colours
  BY DEF Colour, Colours
<1>2. a.state \in {"OFFLINE", "EXCEPTION"}
        => [image |-> a.state, arrow |-> "NONE"] \in Images
  BY DEF Images
<1>3. /\ [image |-> "TU", arrow |-> "NONE"] \in Images
      /\ [image |-> "BLOCK", arrow |-> "NONE"] \in Images
  BY DEF Images
<1>4. [image |-> Colour(a), arrow |-> a.x1] \in Images
  BY <1>1, FieldTypes DEF Images
<1>5. Image(a) \in Images
  BY <1>2, <1>3, <1>4 DEF Image
<1>6. widget' \in Images
  BY <1>5 DEF Redraw, TypeOK
<1>7. Drawable(a) \in BOOLEAN
  BY DEF Drawable
<1>8. fresh' \in BOOLEAN
  BY <1>7 DEF Redraw, TypeOK
<1>9. QED
  BY <1>6, <1>8

\* The invariant holds at the start.
LEMMA InitIInv == Init => IInv
<1> SUFFICES ASSUME Init PROVE IInv
  OBVIOUS
<1>1. pref_direction \in Directions
  BY PrefsAssumption DEF Init
<1>2. esc \in Automaton
  BY <1>1 DEF Init, Automaton, States
<1>3. last_failures_count = 0 /\ misses = 0 /\ last_failures_count <= misses
  BY DEF Init
<1>4. 0 \in 0 .. (ReconnectsCount + 1) /\ 0 \in 0 .. MissBound
  BY ReconnectsAssumption DEF MissBound
<1>5. TypeOK
  <2>1. widget \in Images /\ fresh \in BOOLEAN /\ synced \in BOOLEAN
    BY DEF Init, Images
  <2>2. QED
    BY <1>1, <1>2, <1>3, <1>4, <2>1, LinksAssumption, PrefsAssumption DEF Init, TypeOK
<1>6. StateAgrees /\ PendingMarked /\ FailuresAreMisses
  BY <1>3 DEF Init, StateAgrees, AgreesWithInputs, PendingMarked, FailuresAreMisses
<1>7. QED
  BY <1>5, <1>6 DEF IInv

\* New inputs never change the state or the mark.
LEMMA ContactType ==
  ASSUME NEW a \in Automaton, NEW v \in BOOLEAN, NEW w \in BOOLEAN
  PROVE  LET b == [a EXCEPT !.x5 = v, !.x6 = w]
         IN  b \in Automaton /\ b.state = a.state /\ b.x2 = a.x2
             /\ b.x5 = v /\ b.x6 = w
  BY DEF Automaton

\* Storing the registers keeps the types.
LEMMA StoreRegistersType ==
  ASSUME NEW a \in Automaton, NEW p \in Packets
  PROVE  LET b == StoreRegisters(a, p)
         IN  b \in Automaton /\ b.state = a.state /\ b.x2 = a.x2
             /\ b.x5 = a.x5 /\ b.x6 = a.x6
<1>1. /\ p.running \in Directions \cup {"NO"} /\ p.running # "REVERSE"
      /\ p.remote \in BOOLEAN /\ p.ready \in BOOLEAN
  BY MotionsAssumption DEF Packets, Directions
<1>2. (p.running # "NO") \in BOOLEAN
  OBVIOUS
<1>3. (IF p.running = "NO" THEN a.x1 ELSE p.running) \in Directions
  BY <1>1, FieldTypes
<1>4. QED
  BY <1>1, <1>2, <1>3 DEF StoreRegisters, Automaton

\* Every handler of an answer, in one shape: new inputs, then A0(7).
LEMMA DecodeStep ==
  ASSUME IInv, NEW inp \in Automaton, inp.state = esc.state, inp.x2 = esc.x2,
         esc' = DataRefreshed(inp), RedrawDecoded
  PROVE  /\ esc' \in Automaton
         /\ widget' \in Images /\ fresh' \in BOOLEAN
         /\ AgreesWithInputs(esc')
         /\ PendingMarked'
         /\ esc'.x5 = inp.x5 /\ esc'.x6 = inp.x6
<1>1. Marked(inp)
  BY DEF IInv, PendingMarked, Marked
<1>2. pref_direction \in Directions
  BY DEF IInv, TypeOK
<1>3. /\ esc' \in Automaton /\ AgreesWithInputs(esc') /\ PendingMarked'
      /\ esc'.x5 = inp.x5 /\ esc'.x6 = inp.x6
  BY <1>1, <1>2, DataRefreshedResult DEF PendingMarked, Marked
<1>4. widget' \in Images /\ fresh' \in BOOLEAN
  <2> DEFINE needed == \/ esc'.state # esc.state
                       \/ esc'.x3 # esc.x3
                       \/ esc'.x1 # esc.x1
  <2>1. Redraw(esc', needed)
    BY DEF RedrawDecoded
  <2>2. needed \in BOOLEAN
    OBVIOUS
  <2>3. TypeOK
    BY DEF IInv
  <2> HIDE DEF needed
  <2>4. QED
    BY <1>3, <2>1, <2>2, <2>3, RedrawResult
<1>5. QED
  BY <1>3, <1>4

\* Counting an answer without a state.
LEMMA CountMissResult ==
  ASSUME IInv, CountMiss
  PROVE  /\ misses' \in 0 .. MissBound
         /\ misses' >= misses
         /\ last_failures_count <= ReconnectsCount => last_failures_count + 1 <= misses'
         /\ last_failures_count > ReconnectsCount => misses' = MissBound
  BY ReconnectsAssumption DEF IInv, TypeOK, FailuresAreMisses, CountMiss, MissBound

\* Every step keeps the invariant.
LEMMA NextIInv == IInv /\ [Next]_vars => IInv'
<1> SUFFICES ASSUME IInv, [Next]_vars PROVE IInv'
  OBVIOUS
<1> USE DEF IInv
<1>0. /\ esc \in Automaton /\ pref_direction \in Directions
      /\ ReconnectsCount \in Nat /\ last_failures_count \in 0 .. (ReconnectsCount + 1)
  BY ReconnectsAssumption DEF TypeOK
<1>1. ASSUME DecodeEmpty PROVE IInv'
  <2> DEFINE inp == [esc EXCEPT !.x5 = @ /\ ~TooManyFailures]
  <2>1. inp \in Automaton /\ inp.state = esc.state /\ inp.x2 = esc.x2
    BY <1>0, FieldTypes DEF Automaton
  <2>2. esc' = DataRefreshed(inp) /\ RedrawDecoded
    BY <1>1 DEF DecodeEmpty
  <2>3. /\ esc' \in Automaton /\ AgreesWithInputs(esc') /\ PendingMarked'
        /\ widget' \in Images /\ fresh' \in BOOLEAN
    BY <2>1, <2>2, DecodeStep
  <2>4. CountMiss
    BY <1>1 DEF DecodeEmpty
  <2>5. /\ last_failures_count' \in 0 .. (ReconnectsCount + 1)
        /\ last_failures_count' <= misses'
    BY <1>0, <1>1, <2>4, CountMissResult
       DEF DecodeEmpty, TooManyFailures, FailuresAreMisses, MissBound
  <2>6. TypeOK'
    BY <1>1, <2>3, <2>4, <2>5, CountMissResult DEF DecodeEmpty, TypeOK
  <2>7. QED
    BY <2>3, <2>5, <2>6 DEF StateAgrees, FailuresAreMisses
<1>2. ASSUME DecodeError PROVE IInv'
  <2> DEFINE inp == [esc EXCEPT !.x5 = TRUE, !.x6 = @ /\ ~ErrorCounts]
  <2>1. inp \in Automaton /\ inp.state = esc.state /\ inp.x2 = esc.x2
    BY <1>0, FieldTypes DEF Automaton
  <2>2. esc' = DataRefreshed(inp) /\ RedrawDecoded
    BY <1>2 DEF DecodeError
  <2>3. /\ esc' \in Automaton /\ AgreesWithInputs(esc') /\ PendingMarked'
        /\ widget' \in Images /\ fresh' \in BOOLEAN
    BY <2>1, <2>2, DecodeStep
  <2>4. CountMiss
    BY <1>2 DEF DecodeError
  <2>5. /\ last_failures_count' \in 0 .. (ReconnectsCount + 1)
        /\ last_failures_count' <= misses'
    BY <1>0, <1>2, <2>4, CountMissResult
       DEF DecodeError, ErrorCounts, TooManyFailures, FailuresAreMisses, MissBound
  <2>6. TypeOK'
    BY <1>2, <2>3, <2>4, <2>5, CountMissResult DEF DecodeError, TypeOK
  <2>7. QED
    BY <2>3, <2>5, <2>6 DEF StateAgrees, FailuresAreMisses
<1>3. ASSUME DecodeWrite PROVE IInv'
  <2> DEFINE inp == [esc EXCEPT !.x5 = TRUE]
  <2>1. inp \in Automaton /\ inp.state = esc.state /\ inp.x2 = esc.x2
    BY <1>0 DEF Automaton
  <2>2. esc' = DataRefreshed(inp) /\ RedrawDecoded
    BY <1>3 DEF DecodeWrite
  <2>3. /\ esc' \in Automaton /\ AgreesWithInputs(esc') /\ PendingMarked'
        /\ widget' \in Images /\ fresh' \in BOOLEAN
    BY <2>1, <2>2, DecodeStep
  <2>4. QED
    BY <1>3, <2>3 DEF DecodeWrite, TypeOK, StateAgrees, FailuresAreMisses
<1>4. ASSUME NEW p \in Packets, DecodeState(p) PROVE IInv'
  <2>1. /\ Contact(esc) \in Automaton /\ Contact(esc).state = esc.state
        /\ Contact(esc).x2 = esc.x2
    BY <1>0, ContactType DEF Contact
  <2>2. /\ StoreRegisters(Contact(esc), p) \in Automaton
        /\ StoreRegisters(Contact(esc), p).state = esc.state
        /\ StoreRegisters(Contact(esc), p).x2 = esc.x2
    BY <2>1, StoreRegistersType
  <2>3. esc' = DataRefreshed(StoreRegisters(Contact(esc), p)) /\ RedrawDecoded
    BY <1>4 DEF DecodeState
  <2>4. /\ esc' \in Automaton /\ AgreesWithInputs(esc') /\ PendingMarked'
        /\ widget' \in Images /\ fresh' \in BOOLEAN
    BY <2>2, <2>3, DecodeStep
  <2>5. last_failures_count' = 0 /\ misses' = 0
    BY <1>4 DEF DecodeState
  <2>6. TypeOK'
    BY <1>0, <1>4, <2>4, <2>5 DEF DecodeState, TypeOK, MissBound
  <2>7. QED
    BY <2>4, <2>5, <2>6 DEF StateAgrees, FailuresAreMisses
<1>5. ASSUME NEW a \in Interrupted, DecodeThrown(a)
      PROVE  IInv'
  <2>1. /\ Contact(esc) \in Automaton /\ Contact(esc).state = esc.state
        /\ Contact(esc).x2 = esc.x2
    BY <1>0, ContactType DEF Contact
  <2>2. esc' \in Automaton /\ esc'.state = esc.state /\ esc'.x2 = esc.x2
    BY <1>5, <2>1, StoreRegistersType DEF DecodeThrown, Interrupted
  <2>3. PendingMarked'
    BY <2>2 DEF PendingMarked
  <2>4. last_failures_count' = 0 /\ misses' = 0 /\ synced' = FALSE
    BY <1>5 DEF DecodeThrown
  <2>5. UNCHANGED <<pref_direction, request_for_send_to_device, link>>
    BY <1>5 DEF DecodeThrown
  <2>6. TypeOK'
    <3>1. synced' \in BOOLEAN /\ fresh' \in BOOLEAN /\ widget' \in Images
      BY <1>5, <2>4 DEF DecodeThrown, TypeOK
    <3>2. 0 \in 0 .. (ReconnectsCount + 1) /\ 0 \in 0 .. MissBound
      BY <1>0 DEF MissBound
    <3>3. QED
      BY <2>2, <2>4, <2>5, <3>1, <3>2 DEF TypeOK
  <2>7. QED
    BY <2>3, <2>4, <2>6 DEF StateAgrees, FailuresAreMisses
<1>6. ASSUME NEW c \in Commands, SendCommand(c) PROVE IInv'
  <2>1. EventOf(c) \in Events
    BY DEF EventOf, Events, EventUp, EventDown, EventStop, EventAccept, EventData
  <2>2. Marked(esc)
    BY DEF PendingMarked, Marked
  <2>3. esc' = A0(A0(esc, EventOf(c), pref_direction), EventData, pref_direction)
    BY <1>6 DEF SendCommand
  <2>4. esc' \in Automaton /\ AgreesWithInputs(esc') /\ Marked(esc')
    BY <1>0, <2>1, <2>2, <2>3, CommandResult
  <2>5. Redraw(esc', esc'.state # esc.state)
    BY <1>6 DEF SendCommand
  <2>6. widget' \in Images /\ fresh' \in BOOLEAN
    BY <2>4, <2>5, RedrawResult
  <2>7. QED
    BY <1>6, <2>4, <2>6 DEF SendCommand, TypeOK, StateAgrees, PendingMarked,
       Marked, FailuresAreMisses
<1>7. ASSUME NEW d \in Prefs, SetPrefDirection(d) PROVE IInv'
  <2>1. d \in Directions
    BY PrefsAssumption
  <2>2. esc' = [esc EXCEPT !.x1 = d]
    BY <1>7 DEF SetPrefDirection
  <2>3. /\ esc' \in Automaton /\ esc'.state = esc.state /\ esc'.x0 = esc.x0
        /\ esc'.x2 = esc.x2 /\ esc'.x4 = esc.x4
        /\ esc'.x5 = esc.x5 /\ esc'.x6 = esc.x6
    BY <1>0, <2>1, <2>2 DEF Automaton
  <2>4. TypeOK'
    <3>1. Redraw(esc', TRUE)
      BY <1>7 DEF SetPrefDirection
    <3>2. widget' \in Images /\ fresh' \in BOOLEAN
      BY <2>3, <3>1, RedrawResult
    <3>3. QED
      BY <1>7, <2>1, <2>3, <3>2 DEF SetPrefDirection, TypeOK
  <2>5. QED
    BY <1>7, <2>3, <2>4 DEF SetPrefDirection, StateAgrees, AgreesWithInputs,
       PendingMarked, FailuresAreMisses
<1>8. ASSUME DelayPasses PROVE IInv'
  <2>1. esc' = [esc EXCEPT !.x8 = FALSE]
    BY <1>8 DEF DelayPasses
  <2>2. /\ esc' \in Automaton /\ esc'.state = esc.state /\ esc'.x0 = esc.x0
        /\ esc'.x2 = esc.x2 /\ esc'.x4 = esc.x4
        /\ esc'.x5 = esc.x5 /\ esc'.x6 = esc.x6
    BY <1>0, <2>1 DEF Automaton
  <2>3. QED
    BY <1>8, <2>2 DEF DelayPasses, TypeOK, StateAgrees, AgreesWithInputs,
       PendingMarked, FailuresAreMisses
<1>9. ASSUME NetworkTakes \/ LinkChanges \/ UNCHANGED vars
      PROVE  IInv'
  <2>1. /\ esc' = esc /\ synced' = synced /\ misses' = misses
        /\ last_failures_count' = last_failures_count
        /\ pref_direction' = pref_direction
    BY <1>9 DEF NetworkTakes, LinkChanges, vars
  <2>2. /\ link' \in Links
        /\ request_for_send_to_device' \in Movements \cup {"none"}
        /\ widget' \in Images /\ fresh' \in BOOLEAN
    BY <1>9 DEF NetworkTakes, LinkChanges, vars, TypeOK
  <2>3. QED
    BY <2>1, <2>2 DEF TypeOK, StateAgrees, PendingMarked, FailuresAreMisses
<1>10. QED
  BY <1>1, <1>2, <1>3, <1>4, <1>5, <1>6, <1>7, <1>8, <1>9 DEF Next, Decode

\* Every behaviour keeps the invariant.
THEOREM Invariant == Spec => []IInv
  BY InitIInv, NextIInv, PTL DEF Spec

\* Type correctness, for every number of forgiven failures.
THEOREM TypeCorrect == Spec => []TypeOK
  BY Invariant, PTL DEF IInv

\* The state shown to the dispatcher is the one the inputs describe.
THEOREM StateAgreement == Spec => []StateAgrees
  BY Invariant, PTL DEF IInv

\* Both, as the run checks them.
THEOREM StateSoundness == Spec => []StateSound
  BY TypeCorrect, StateAgreement, PTL DEF StateSound
-----------------------------------------------------------------------------
(***************************************************************************)
(* Contact is lost only after the misses                                   *)
(***************************************************************************)

\* One step: a handler that takes x5 or x6 away had all the misses.
LEMMA LossStep ==
  ASSUME IInv, [Next]_vars,
         \/ esc.x5 /\ ~esc'.x5
         \/ esc.x5 /\ esc.x6 /\ ~esc'.x6
  PROVE  misses' = MissBound
<1> USE DEF IInv
<1>0. esc \in Automaton /\ pref_direction \in Directions
  BY DEF TypeOK
<1>1. CASE DecodeEmpty
  <2> DEFINE inp == [esc EXCEPT !.x5 = @ /\ ~TooManyFailures]
  <2>1. /\ inp \in Automaton /\ inp.state = esc.state /\ inp.x2 = esc.x2
        /\ inp.x5 = (esc.x5 /\ ~TooManyFailures) /\ inp.x6 = esc.x6
    BY <1>0, FieldTypes DEF Automaton
  <2>2. esc' = DataRefreshed(inp) /\ RedrawDecoded
    BY <1>1 DEF DecodeEmpty
  <2>3. esc'.x5 = (esc.x5 /\ ~TooManyFailures) /\ esc'.x6 = esc.x6
    BY <2>1, <2>2, DecodeStep
  <2>4. TooManyFailures
    BY <2>3
  <2>5. QED
    BY <1>1, <2>4, CountMissResult DEF DecodeEmpty, TooManyFailures
<1>2. CASE DecodeError
  <2> DEFINE inp == [esc EXCEPT !.x5 = TRUE, !.x6 = @ /\ ~ErrorCounts]
  <2>1. /\ inp \in Automaton /\ inp.state = esc.state /\ inp.x2 = esc.x2
        /\ inp.x5 = TRUE /\ inp.x6 = (esc.x6 /\ ~ErrorCounts)
    BY <1>0, FieldTypes DEF Automaton
  <2>2. esc' = DataRefreshed(inp) /\ RedrawDecoded
    BY <1>2 DEF DecodeError
  <2>3. esc'.x5 = TRUE /\ esc'.x6 = (esc.x6 /\ ~ErrorCounts)
    BY <2>1, <2>2, DecodeStep
  <2>4. esc.x5 /\ ErrorCounts
    BY <2>3
  <2>5. TooManyFailures
    BY <2>4 DEF ErrorCounts
  <2>6. QED
    BY <1>2, <2>5, CountMissResult DEF DecodeError, TooManyFailures
<1>3. CASE DecodeWrite
  <2> DEFINE inp == [esc EXCEPT !.x5 = TRUE]
  <2>1. /\ inp \in Automaton /\ inp.state = esc.state /\ inp.x2 = esc.x2
        /\ inp.x5 = TRUE /\ inp.x6 = esc.x6
    BY <1>0 DEF Automaton
  <2>2. esc' = DataRefreshed(inp) /\ RedrawDecoded
    BY <1>3 DEF DecodeWrite
  <2>3. esc'.x5 = TRUE /\ esc'.x6 = esc.x6
    BY <2>1, <2>2, DecodeStep
  <2>4. QED
    BY <2>3
<1>4. ASSUME NEW p \in Packets, DecodeState(p) PROVE misses' = MissBound
  <2>1. /\ Contact(esc) \in Automaton /\ Contact(esc).state = esc.state
        /\ Contact(esc).x2 = esc.x2
        /\ Contact(esc).x5 = TRUE /\ Contact(esc).x6 = TRUE
    BY <1>0, ContactType DEF Contact
  <2> DEFINE inp == StoreRegisters(Contact(esc), p)
  <2>2. /\ inp \in Automaton /\ inp.state = esc.state /\ inp.x2 = esc.x2
        /\ inp.x5 = TRUE /\ inp.x6 = TRUE
    BY <2>1, StoreRegistersType
  <2>3. esc' = DataRefreshed(inp) /\ RedrawDecoded
    BY <1>4 DEF DecodeState
  <2> HIDE DEF inp
  <2>4. esc'.x5 = TRUE /\ esc'.x6 = TRUE
    BY <2>2, <2>3, DecodeStep
  <2>5. QED
    BY <2>4
<1>5. ASSUME NEW a \in Interrupted, DecodeThrown(a)
      PROVE  misses' = MissBound
  <2>1. /\ Contact(esc) \in Automaton
        /\ Contact(esc).x5 = TRUE /\ Contact(esc).x6 = TRUE
    BY <1>0, ContactType DEF Contact
  <2>2. esc'.x5 = TRUE /\ esc'.x6 = TRUE
    BY <1>5, <2>1, StoreRegistersType DEF DecodeThrown, Interrupted
  <2>3. QED
    BY <2>2
<1>6. ASSUME NEW c \in Commands, SendCommand(c) PROVE misses' = MissBound
  <2>1. EventOf(c) \in Events
    BY DEF EventOf, Events, EventUp, EventDown, EventStop, EventAccept, EventData
  <2>2. esc'.x5 = esc.x5 /\ esc'.x6 = esc.x6
    BY <1>0, <1>6, <2>1, CommandResult DEF SendCommand
  <2>3. QED
    BY <2>2
<1>7. ASSUME NEW d \in Prefs, SetPrefDirection(d) PROVE misses' = MissBound
  <2>1. esc'.x5 = esc.x5 /\ esc'.x6 = esc.x6
    BY <1>0, <1>7 DEF SetPrefDirection, Automaton
  <2>2. QED
    BY <2>1
<1>8. CASE DelayPasses
  <2>1. esc'.x5 = esc.x5 /\ esc'.x6 = esc.x6
    BY <1>0, <1>8 DEF DelayPasses, Automaton
  <2>2. QED
    BY <2>1
<1>9. CASE NetworkTakes \/ LinkChanges \/ UNCHANGED vars
  <2>1. esc' = esc
    BY <1>9 DEF NetworkTakes, LinkChanges, vars
  <2>2. QED
    BY <2>1
<1>10. QED
  BY <1>1, <1>2, <1>3, <1>4, <1>5, <1>6, <1>7, <1>8, <1>9 DEF Next, Decode

\* A device in contact is declared lost only after RECONNECTS_TO_DEVICE_COUNT
\* plus two answers without a state.
THEOREM LossDebounced == Spec => LostOnlyAfterMisses
<1>1. IInv /\ [Next]_vars
        => [\/ esc.x5 /\ ~esc'.x5
            \/ esc.x5 /\ esc.x6 /\ ~esc'.x6
            => misses' = MissBound]_vars
  BY LossStep
<1>2. QED
  BY <1>1, Invariant, PTL DEF Spec, LostOnlyAfterMisses
-----------------------------------------------------------------------------
(***************************************************************************)
(* The screen                                                              *)
(***************************************************************************)

\* An A0(7) that stays in its state changes nothing.
LEMMA DataKeeps ==
  ASSUME NEW a \in Automaton, NEW pref \in Directions, NEW event \in Events,
         A0(a, event, pref).state = a.state
  PROVE  A0(a, event, pref) = a
  BY TargetType, EnterType DEF A0

\* Nor does one whose handler sees no new state, control or direction change
\* the image: what is left, x2, moves only with the state.
LEMMA DecodedImage ==
  ASSUME NEW inp \in Automaton, pref_direction \in Directions,
         inp.state = esc.state, inp.x2 = esc.x2,
         esc' = DataRefreshed(inp),
         esc'.state = esc.state, esc'.x3 = esc.x3, esc'.x1 = esc.x1
  PROVE  Image(esc') = Image(esc)
<1> DEFINE b == A0(inp, EventData, pref_direction)
<1>1. EventData \in Events
  BY DEF Events, EventUp, EventData
<1>2. b \in Automaton
  BY <1>1, A0Type
<1>3. esc'.state = b.state /\ esc'.x2 = b.x2
  <2> HIDE DEF b
  <2>1. esc' = b \/ esc' = [b EXCEPT !.x1 = pref_direction]
    BY DEF DataRefreshed, ShowPreferred, b
  <2>2. QED
    BY <1>2, <2>1 DEF Automaton
<1>4. b = inp
  BY <1>1, <1>3, DataKeeps
<1>5. QED
  BY <1>3, <1>4 DEF Image, Colour

\* The two steps of a command may leave a state and come back to it (RUN and
\* NOT_READY, when the block circuit opens under a running escalator), but
\* never with another image.
LEMMA CommandImage ==
  ASSUME NEW a \in Automaton, NEW e \in Events, NEW pref \in Directions,
         NEW r, r = A0(A0(a, e, pref), EventData, pref), r.state = a.state
  PROVE  Image(r) = Image(a)
<1> DEFINE b == A0(a, e, pref)
<1>1. EventData \in Events /\ EventData \notin {EventUp, EventDown, EventStop, EventAccept}
  BY DEF Events, EventUp, EventDown, EventStop, EventAccept, EventData
<1>2. /\ b \in Automaton /\ b.state = Target(a, e)
      /\ b.x0 = a.x0 /\ b.x3 = a.x3 /\ b.x4 = a.x4 /\ b.x5 = a.x5 /\ b.x6 = a.x6
  BY A0Type
<1>3. /\ r \in Automaton /\ r.state = Target(b, EventData) /\ r.x3 = a.x3
  BY <1>1, <1>2, A0Type
<1>4. CASE b.state = a.state
  <2>1. b = a
    BY <1>4, DataKeeps
  <2>2. r = a
    BY <1>1, <2>1, DataKeeps
  <2>3. QED
    BY <2>2
<1>5. CASE a.state \in {"OFFLINE", "EXCEPTION", "NOT_READY"}
  BY <1>3, <1>5 DEF Image
<1>6. CASE b.state # a.state /\ a.state \in {"READY", "READY_NOT_ACCEPTED", "STARTING", "STOPPING", "RUN"}
  <2>1. a.x5 /\ a.x6
    BY <1>2, <1>3, <1>6 DEF Target
  <2>2. b.state = InContact(a, e) /\ a.state = InContact(b, EventData)
    BY <1>2, <1>3, <2>1 DEF Target
  <2>3. a.state = "RUN" /\ b.state = "NOT_READY"
    BY <1>1, <1>2, <1>6, <2>2, FieldTypes DEF InContact, FromNotReady, FromReadyNotAccepted, FromReady,
       FromStarting, FromRun, FromStopping, FromOffline, FromException, States
  <2>4. b.x1 = a.x1
    <3>1. b = Enter(a, "NOT_READY", e, pref)
      BY <1>2, <1>6, <2>3 DEF A0
    <3>2. QED
      BY <3>1, FieldTypes DEF Enter, DirectionOnEntry, Automaton
  <2>5. r.x1 = b.x1
    <3>1. r = Enter(b, "RUN", EventData, pref)
      BY <1>3, <1>6, <2>3 DEF A0
    <3>2. QED
      BY <1>2, <3>1, FieldTypes DEF Enter, DirectionOnEntry, Automaton
  <2>6. QED
    BY <1>3, <2>3, <2>4, <2>5 DEF Image, Colour
<1>7. QED
  BY <1>4, <1>5, <1>6, FieldTypes DEF States

\* Redrawing when something the image shows has changed keeps it current.
LEMMA RedrawCurrent ==
  ASSUME ScreenCurrent, NEW needed \in BOOLEAN, Redraw(esc', needed),
         ~needed => Image(esc') = Image(esc)
  PROVE  ScreenCurrent'
  BY DEF Redraw, ScreenCurrent

\* Every handler of an answer, in one shape.
LEMMA DecodeCurrent ==
  ASSUME ScreenCurrent, pref_direction \in Directions,
         NEW inp \in Automaton, inp.state = esc.state, inp.x2 = esc.x2,
         esc' = DataRefreshed(inp), RedrawDecoded
  PROVE  ScreenCurrent'
<1> DEFINE needed == \/ esc'.state # esc.state
                     \/ esc'.x3 # esc.x3
                     \/ esc'.x1 # esc.x1
<1>1. Redraw(esc', needed) /\ needed \in BOOLEAN
  BY DEF RedrawDecoded
<1>2. ~needed => Image(esc') = Image(esc)
  BY DecodedImage
<1> HIDE DEF needed
<1>3. QED
  BY <1>1, <1>2, RedrawCurrent

\* Every step keeps the screen current.
LEMMA NextCurrent == IInv /\ ScreenCurrent /\ [Next]_vars => ScreenCurrent'
<1> SUFFICES ASSUME IInv, ScreenCurrent, [Next]_vars PROVE ScreenCurrent'
  OBVIOUS
<1>0. esc \in Automaton /\ pref_direction \in Directions
  BY DEF IInv, TypeOK
<1>1. CASE DecodeEmpty
  <2> DEFINE inp == [esc EXCEPT !.x5 = @ /\ ~TooManyFailures]
  <2>1. inp \in Automaton /\ inp.state = esc.state /\ inp.x2 = esc.x2
    BY <1>0, FieldTypes DEF Automaton
  <2>2. QED
    BY <1>0, <1>1, <2>1, DecodeCurrent DEF DecodeEmpty
<1>2. CASE DecodeError
  <2> DEFINE inp == [esc EXCEPT !.x5 = TRUE, !.x6 = @ /\ ~ErrorCounts]
  <2>1. inp \in Automaton /\ inp.state = esc.state /\ inp.x2 = esc.x2
    BY <1>0, FieldTypes DEF Automaton
  <2>2. QED
    BY <1>0, <1>2, <2>1, DecodeCurrent DEF DecodeError
<1>3. CASE DecodeWrite
  <2> DEFINE inp == [esc EXCEPT !.x5 = TRUE]
  <2>1. inp \in Automaton /\ inp.state = esc.state /\ inp.x2 = esc.x2
    BY <1>0 DEF Automaton
  <2>2. QED
    BY <1>0, <1>3, <2>1, DecodeCurrent DEF DecodeWrite
<1>4. ASSUME NEW p \in Packets, DecodeState(p) PROVE ScreenCurrent'
  <2>1. /\ Contact(esc) \in Automaton /\ Contact(esc).state = esc.state
        /\ Contact(esc).x2 = esc.x2
    BY <1>0, ContactType DEF Contact
  <2> DEFINE inp == StoreRegisters(Contact(esc), p)
  <2>2. inp \in Automaton /\ inp.state = esc.state /\ inp.x2 = esc.x2
    BY <2>1, StoreRegistersType
  <2>3. QED
    BY <1>0, <1>4, <2>2, DecodeCurrent DEF DecodeState
<1>5. ASSUME NEW a \in Interrupted, DecodeThrown(a) PROVE ScreenCurrent'
  BY <1>5 DEF DecodeThrown, ScreenCurrent
<1>6. ASSUME NEW c \in Commands, SendCommand(c) PROVE ScreenCurrent'
  <2>1. EventOf(c) \in Events
    BY DEF EventOf, Events, EventUp, EventDown, EventStop, EventAccept, EventData
  <2>2. esc'.state = esc.state => Image(esc') = Image(esc)
    BY <1>0, <1>6, <2>1, CommandImage DEF SendCommand
  <2>3. QED
    BY <1>6, <2>2, RedrawCurrent DEF SendCommand
<1>7. ASSUME NEW d \in Prefs, SetPrefDirection(d) PROVE ScreenCurrent'
  BY <1>7, RedrawCurrent DEF SetPrefDirection
<1>8. CASE DelayPasses
  <2>1. esc' = [esc EXCEPT !.x8 = FALSE] /\ UNCHANGED <<widget, fresh>>
    BY <1>8 DEF DelayPasses
  <2>2. Image(esc') = Image(esc)
    <3>1. /\ esc'.state = esc.state /\ esc'.x1 = esc.x1 /\ esc'.x2 = esc.x2
          /\ esc'.x3 = esc.x3
      BY <1>0, <2>1 DEF Automaton
    <3>2. QED
      BY <3>1 DEF Image, Colour
  <2>3. QED
    BY <2>1, <2>2 DEF ScreenCurrent
<1>9. CASE NetworkTakes \/ LinkChanges \/ UNCHANGED vars
  BY <1>9 DEF NetworkTakes, LinkChanges, vars, ScreenCurrent
<1>10. QED
  BY <1>1, <1>2, <1>3, <1>4, <1>5, <1>6, <1>7, <1>8, <1>9 DEF Next, Decode

\* Unless a decoding or the drawing itself has thrown, the screen shows the
\* automaton as it is, after any sequence of answers and commands.
THEOREM ScreenIsCurrent == Spec => []ScreenCurrent
<1>1. Init => ScreenCurrent
  BY DEF Init, ScreenCurrent, Image
<1>2. QED
  BY <1>1, Invariant, NextCurrent, PTL DEF Spec
-----------------------------------------------------------------------------
(***************************************************************************)
(* The state diagram                                                       *)
(***************************************************************************)

\* The inputs of the diagram, as FollowsDiagram takes them from an automaton.
DiagramInputs(a) == [x0 |-> a.x0, x2 |-> a.x2, x3 |-> a.x3, x4 |-> a.x4,
                     x5 |-> a.x5, x6 |-> a.x6, x8 |-> a.x8]

\* Guards that read the mark x2 and the delay x8 of a device in contact read
\* them only on leaving OFFLINE and EXCEPTION.
SameGuards(i, a) ==
  /\ i.x0 = a.x0 /\ i.x3 = a.x3 /\ i.x4 = a.x4 /\ i.x5 = a.x5 /\ i.x6 = a.x6
  /\ a.state \in {"OFFLINE", "EXCEPTION"} /\ a.x5 /\ a.x6 => i.x2 = a.x2 /\ i.x8 = a.x8

\* Every row of the automaton is an edge of the diagram, or stays.
LEMMA TargetMoves ==
  ASSUME NEW a \in Automaton, NEW event \in Events, NEW i, SameGuards(i, a)
  PROVE  Diagram!Move(a.state, Target(a, event), i, event)
<1> USE FieldTypes DEF Diagram!Move, Diagram!Edge, SameGuards, Target
<1>1. CASE ~a.x5
  BY <1>1 DEF Diagram!LosesContact, Diagram!LeavesException, Diagram!Connected, States
<1>2. CASE a.x5 /\ ~a.x6
  BY <1>2 DEF Diagram!LosesContact, Diagram!LeavesOffline, Diagram!Connected, States
<1>3. CASE a.x5 /\ a.x6
  <2>0. Target(a, event) = InContact(a, event)
    BY <1>3
  <2>1. CASE a.state = "NOT_READY"
    BY <2>0, <2>1 DEF InContact, FromNotReady, Diagram!BecomesReady
  <2>2. CASE a.state \in {"READY", "READY_NOT_ACCEPTED"}
    BY <2>0, <2>2 DEF InContact, FromReady, FromReadyNotAccepted, Diagram!ReadyChanges,
       Diagram!Stopped, Diagram!Commanded, EventUp, EventDown, EventAccept
  <2>3. CASE a.state = "STARTING"
    BY <2>0, <2>3 DEF InContact, FromStarting, Diagram!ReadyChanges, Diagram!Stopped,
       Diagram!Commanded, EventAccept
  <2>4. CASE a.state = "RUN"
    BY <2>0, <2>4 DEF InContact, FromRun, Diagram!MotionChanges, Diagram!Moving,
       Diagram!Commanded, EventStop
  <2>5. CASE a.state = "STOPPING"
    BY <2>0, <2>5 DEF InContact, FromStopping, Diagram!MotionChanges, Diagram!Moving,
       Diagram!Commanded, EventAccept
  <2>6. CASE a.state = "OFFLINE"
    BY <1>3, <2>0, <2>6 DEF InContact, FromOffline, Diagram!LeavesOffline
  <2>7. CASE a.state = "EXCEPTION"
    BY <1>3, <2>0, <2>7 DEF InContact, FromException, Diagram!LeavesException
  <2>8. QED
    BY <2>1, <2>2, <2>3, <2>4, <2>5, <2>6, <2>7 DEF States
<1>4. QED
  BY <1>1, <1>2, <1>3

\* One A0 from new inputs is one move of the diagram.
LEMMA A0Moves ==
  ASSUME NEW a \in Automaton, NEW event \in Events, NEW pref \in Directions,
         NEW i, SameGuards(i, a)
  PROVE  Diagram!Move(a.state, A0(a, event, pref).state, i, event)
  BY A0Type, TargetMoves

\* Two moves of a command: OFFLINE and EXCEPTION, once entered, are not left.
LEMMA CommandMoves ==
  ASSUME NEW a \in Automaton, NEW e \in Events, NEW pref \in Directions,
         NEW i, SameGuards(i, a), i.x2 = a.x2, i.x8 = a.x8,
         NEW b, b = A0(a, e, pref)
  PROVE  Diagram!Move(b.state, A0(b, EventData, pref).state, i, EventData)
<1>1. EventData \in Events
  BY DEF Events, EventUp, EventData
<1>2. b \in Automaton /\ b.state = Target(a, e)
      /\ b.x0 = a.x0 /\ b.x3 = a.x3 /\ b.x4 = a.x4 /\ b.x5 = a.x5 /\ b.x6 = a.x6
  BY A0Type
<1>3. SameGuards(i, b)
  <2>1. CASE b.state = a.state
    <3>1. b = a
      BY <2>1, TargetType, EnterType DEF A0
    <3>2. QED
      BY <3>1
  <2>2. CASE b.state # a.state /\ b.x5 /\ b.x6
    BY <1>2, <2>2, InContactAllowed DEF Target, Allowed, SameGuards
  <2>3. CASE ~(b.x5 /\ b.x6)
    BY <1>2, <2>3 DEF SameGuards
  <2>4. QED
    BY <2>1, <2>2, <2>3
<1>4. QED
  BY <1>1, <1>2, <1>3, A0Moves

\* What the diagram's guards read during a step.
LEMMA GuardsBefore ==
  ASSUME NEW a \in Automaton, NEW b \in Automaton
  PROVE  LET i == Diagram!Before(DiagramInputs(a), DiagramInputs(b))
         IN  /\ i.x0 = b.x0 /\ i.x3 = b.x3 /\ i.x4 = b.x4 /\ i.x5 = b.x5
             /\ i.x6 = b.x6 /\ i.x2 = a.x2 /\ i.x8 = a.x8
  BY DEF Diagram!Before, DiagramInputs

\* A handler that keeps the state makes the diagram stay, whatever the inputs do.
LEMMA StayDecoded ==
  ASSUME esc'.state = esc.state
  PROVE  Diagram!Next
  BY DEF Diagram!Next, Diagram!Decoded, Diagram!Move

\* Every handler of an answer, in one shape: new inputs, then A0(7).
LEMMA DecodeMoves ==
  ASSUME IInv, NEW inp \in Automaton, inp.state = esc.state,
         inp.x2 = esc.x2, inp.x8 = esc.x8, esc' = DataRefreshed(inp)
  PROVE  Diagram!Next
<1> DEFINE b == A0(inp, EventData, pref_direction)
           i == Diagram!Before(DiagramInputs(esc), DiagramInputs(esc'))
<1>1. EventData = 7 /\ EventData \in Events
  BY DEF Events, EventUp, EventData
<1>2. esc \in Automaton /\ pref_direction \in Directions
  BY DEF IInv, TypeOK
<1>3. /\ b \in Automaton
      /\ b.x0 = inp.x0 /\ b.x3 = inp.x3 /\ b.x4 = inp.x4 /\ b.x5 = inp.x5 /\ b.x6 = inp.x6
  BY <1>1, <1>2, A0Type
<1>4. /\ esc' \in Automaton /\ esc'.state = b.state
      /\ esc'.x0 = b.x0 /\ esc'.x3 = b.x3 /\ esc'.x4 = b.x4 /\ esc'.x5 = b.x5 /\ esc'.x6 = b.x6
  <2> HIDE DEF b
  <2>1. esc' = b \/ esc' = [b EXCEPT !.x1 = pref_direction]
    BY DEF DataRefreshed, ShowPreferred, b
  <2>2. QED
    BY <1>2, <1>3, <2>1 DEF Automaton
<1>5. SameGuards(i, inp)
  BY <1>2, <1>3, <1>4, GuardsBefore DEF SameGuards
<1>6. Diagram!Move(inp.state, b.state, i, EventData)
  BY <1>1, <1>2, <1>5, A0Moves
<1>7. Diagram!Move(esc.state, esc'.state, i, 7)
  BY <1>1, <1>4, <1>6
<1>8. QED
  BY <1>7 DEF Diagram!Next, Diagram!Decoded, DiagramInputs

\* A command makes two moves.
LEMMA CommandSends ==
  ASSUME IInv, NEW c \in Commands, SendCommand(c)
  PROVE  Diagram!Next
<1> DEFINE e == EventOf(c)
           b == A0(esc, e, pref_direction)
           i == Diagram!Before(DiagramInputs(esc), DiagramInputs(esc'))
<1>1. e \in 3 .. 6 /\ e \in Events /\ EventData = 7 /\ EventData \in Events
  BY DEF EventOf, Events, EventUp, EventDown, EventStop, EventAccept, EventData
<1>2. esc \in Automaton /\ pref_direction \in Directions
  BY DEF IInv, TypeOK
<1> HIDE DEF e
<1>3. /\ b \in Automaton
      /\ b.x0 = esc.x0 /\ b.x3 = esc.x3 /\ b.x4 = esc.x4 /\ b.x5 = esc.x5 /\ b.x6 = esc.x6
  BY <1>1, <1>2, A0Type
<1>4. esc' = A0(b, EventData, pref_direction)
  BY DEF SendCommand, e
<1>5. /\ esc' \in Automaton
      /\ esc'.x0 = b.x0 /\ esc'.x3 = b.x3 /\ esc'.x4 = b.x4 /\ esc'.x5 = b.x5 /\ esc'.x6 = b.x6
  BY <1>1, <1>2, <1>3, <1>4, A0Type
<1>6. i.x2 = esc.x2 /\ i.x8 = esc.x8 /\ SameGuards(i, esc)
  BY <1>2, <1>3, <1>5, GuardsBefore DEF SameGuards
<1>7. Diagram!Move(esc.state, b.state, i, e)
  BY <1>1, <1>2, <1>6, A0Moves
<1>8. Diagram!Move(b.state, esc'.state, i, 7)
  BY <1>1, <1>2, <1>4, <1>6, CommandMoves
<1>9. b.state \in Diagram!Connected \cup {"OFFLINE", "EXCEPTION"}
  BY <1>3, FieldTypes DEF Diagram!Connected, States
<1> HIDE DEF b
<1>10. Diagram!CommandSent
  BY <1>1, <1>7, <1>8, <1>9 DEF Diagram!CommandSent, DiagramInputs
<1>11. QED
  BY <1>10 DEF Diagram!Next

\* Every step is a move of the diagram, or none.
LEMMA StepMoves ==
  ASSUME IInv, [Next]_vars
  PROVE  Diagram!Next \/ esc' = esc
<1>0. esc \in Automaton /\ pref_direction \in Directions
  BY DEF IInv, TypeOK
<1>1. CASE DecodeEmpty
  <2> DEFINE inp == [esc EXCEPT !.x5 = @ /\ ~TooManyFailures]
  <2>1. inp \in Automaton /\ inp.state = esc.state /\ inp.x2 = esc.x2 /\ inp.x8 = esc.x8
    BY <1>0, FieldTypes DEF Automaton
  <2>2. QED
    BY <1>1, <2>1, DecodeMoves DEF DecodeEmpty
<1>2. CASE DecodeError
  <2> DEFINE inp == [esc EXCEPT !.x5 = TRUE, !.x6 = @ /\ ~ErrorCounts]
  <2>1. inp \in Automaton /\ inp.state = esc.state /\ inp.x2 = esc.x2 /\ inp.x8 = esc.x8
    BY <1>0, FieldTypes DEF Automaton
  <2>2. QED
    BY <1>2, <2>1, DecodeMoves DEF DecodeError
<1>3. CASE DecodeWrite
  <2> DEFINE inp == [esc EXCEPT !.x5 = TRUE]
  <2>1. inp \in Automaton /\ inp.state = esc.state /\ inp.x2 = esc.x2 /\ inp.x8 = esc.x8
    BY <1>0 DEF Automaton
  <2>2. QED
    BY <1>3, <2>1, DecodeMoves DEF DecodeWrite
<1>4. ASSUME NEW p \in Packets, DecodeState(p) PROVE Diagram!Next
  <2>1. /\ Contact(esc) \in Automaton /\ Contact(esc).state = esc.state
        /\ Contact(esc).x2 = esc.x2
    BY <1>0, ContactType DEF Contact
  <2> DEFINE inp == StoreRegisters(Contact(esc), p)
  <2>2. inp \in Automaton /\ inp.state = esc.state /\ inp.x2 = esc.x2
    BY <2>1, StoreRegistersType
  <2>3. inp.x8 = esc.x8
    <3>1. Contact(esc).x8 = esc.x8
      BY <1>0 DEF Contact, Automaton
    <3>2. StoreRegisters(Contact(esc), p).x8 = Contact(esc).x8
      <4> HIDE DEF inp
      <4> DEFINE b == Contact(esc)
      <4>1. b \in Automaton
        BY <2>1
      <4> HIDE DEF b
      <4>2. StoreRegisters(b, p).x8 = b.x8
        BY <4>1 DEF StoreRegisters, Automaton
      <4>3. QED
        BY <4>2 DEF b
    <3>3. QED
      BY <3>1, <3>2
  <2>4. QED
    BY <1>4, <2>2, <2>3, DecodeMoves DEF DecodeState
<1>5. ASSUME NEW a \in Interrupted, DecodeThrown(a) PROVE Diagram!Next
  <2>1. /\ Contact(esc) \in Automaton /\ Contact(esc).state = esc.state
    BY <1>0, ContactType DEF Contact
  <2>2. esc'.state = esc.state
    BY <1>5, <2>1, StoreRegistersType DEF DecodeThrown, Interrupted
  <2>3. QED
    BY <2>2, StayDecoded
<1>6. ASSUME NEW c \in Commands, SendCommand(c) PROVE Diagram!Next
  BY <1>6, CommandSends
<1>7. ASSUME NEW d \in Prefs, SetPrefDirection(d) PROVE Diagram!Next
  <2>1. esc'.state = esc.state
    BY <1>0, <1>7 DEF SetPrefDirection, Automaton
  <2>2. QED
    BY <2>1, StayDecoded
<1>8. CASE DelayPasses
  <2>1. esc'.state = esc.state
    BY <1>0, <1>8 DEF DelayPasses, Automaton
  <2>2. QED
    BY <2>1, StayDecoded
<1>9. CASE NetworkTakes \/ LinkChanges \/ UNCHANGED vars
  BY <1>9 DEF NetworkTakes, LinkChanges, vars
<1>10. QED
  BY <1>1, <1>2, <1>3, <1>4, <1>5, <1>6, <1>7, <1>8, <1>9 DEF Next, Decode

\* The automaton implements the documented state diagram: an answer makes one
\* of its moves, a command two, everything else none.
THEOREM ImplementsDiagram == Spec => FollowsDiagram
<1>1. Init => Diagram!Init
  BY DEF Init, Diagram!Init
<1>2. IInv /\ [Next]_vars
        => [Diagram!Next]_<<esc.state,
             [x0 |-> esc.x0, x2 |-> esc.x2, x3 |-> esc.x3, x4 |-> esc.x4,
              x5 |-> esc.x5, x6 |-> esc.x6, x8 |-> esc.x8]>>
  BY StepMoves
<1>3. QED
  BY <1>1, <1>2, Invariant, PTL DEF Spec, FollowsDiagram, Diagram!Spec
-----------------------------------------------------------------------------
(***************************************************************************)
(* The UDKU: its automaton and its inputs                                  *)
(***************************************************************************)

\* metro_udku::A0 has its table arranged differently; it is the same one.
LEMMA SameAutomaton ==
  ASSUME NEW a \in Automaton, NEW event
  PROVE  UdkuA0(a, event) = A0(a, event, pref_direction)
<1>1. UdkuTarget(a, event) = Target(a, event)
  BY FieldTypes DEF UdkuTarget, Target, Reconnected, InContact
<1>2. QED
  BY <1>1 DEF UdkuA0, A0

\* The signals stored are inputs of an automaton in the same state.
LEMMA StoreSignalsType ==
  ASSUME NEW a \in Automaton, NEW p \in Signals
  PROVE  LET b == StoreSignals(a, p)
         IN  /\ b \in Automaton /\ b.state = a.state
             /\ b.x0 = p.rkp /\ b.x2 = a.x2 /\ b.x3 = p.tu
             /\ b.x5 = a.x5 /\ b.x6 = a.x6 /\ b.x8 = a.x8
             /\ p.contactor # "NO" => b.x1 = p.contactor
<1>1. /\ p.rkp \in BOOLEAN /\ p.tu \in BOOLEAN /\ p.circuit \in BOOLEAN
      /\ p.contactor \in Directions \cup {"NO"}
  BY MotionsAssumption DEF Signals, Directions
<1>2. (IF p.contactor = "NO" THEN a.x1 ELSE p.contactor) \in Directions
  BY <1>1, FieldTypes
<1>3. QED
  BY <1>1, <1>2 DEF StoreSignals, Automaton

\* What a whole or an interrupted answer starts from.
LEMMA SignalsInput ==
  ASSUME IInv, NEW p \in Signals
  PROVE  /\ Contact(esc) \in Automaton /\ Contact(esc).state = esc.state
         /\ Contact(esc).x0 = esc.x0 /\ Contact(esc).x1 = esc.x1
         /\ Contact(esc).x2 = esc.x2
         /\ LET inp == StoreSignals(Contact(esc), p)
            IN  /\ inp \in Automaton /\ inp.state = esc.state
                /\ inp.x0 = p.rkp /\ inp.x2 = esc.x2 /\ inp.x3 = p.tu
                /\ inp.x8 = esc.x8
                /\ p.contactor # "NO" => inp.x1 = p.contactor
<1> DEFINE a == Contact(esc)
<1>1. esc \in Automaton
  BY DEF IInv, TypeOK
<1>2. /\ a \in Automaton /\ a.state = esc.state /\ a.x0 = esc.x0 /\ a.x1 = esc.x1
      /\ a.x2 = esc.x2 /\ a.x8 = esc.x8
  BY <1>1 DEF Contact, Automaton
<1> HIDE DEF a
<1>3. LET inp == StoreSignals(a, p)
      IN  /\ inp \in Automaton /\ inp.state = esc.state
          /\ inp.x0 = p.rkp /\ inp.x2 = esc.x2 /\ inp.x3 = p.tu
          /\ inp.x8 = esc.x8
          /\ p.contactor # "NO" => inp.x1 = p.contactor
  BY <1>2, StoreSignalsType
<1>4. QED
  BY <1>2, <1>3 DEF a

\* An answer's handler is that of the escalator, from the UDKU's inputs.
LEMMA SignalsRefreshed ==
  ASSUME IInv, NEW p \in Signals, DecodeSignals(p)
  PROVE  esc' = DataRefreshed(StoreSignals(Contact(esc), p))
  BY SignalsInput, SameAutomaton DEF DecodeSignals, Refreshed, DataRefreshed

\* A command's handler is that of the escalator.
LEMMA SameCommand ==
  ASSUME IInv, NEW c \in Commands, UdkuSendCommand(c)
  PROVE  SendCommand(c) /\ UNCHANGED kept /\ ~Refuses(c)
<1>1. EventOf(c) \in Events
  BY DEF EventOf, Events, EventUp, EventDown, EventStop, EventAccept, EventData
<1>2. esc \in Automaton /\ pref_direction \in Directions
  BY DEF IInv, TypeOK
<1>3. A0(esc, EventOf(c), pref_direction) \in Automaton
  BY <1>1, <1>2, A0Type
<1>4. UdkuA0(UdkuA0(esc, EventOf(c)), EventData)
        = A0(A0(esc, EventOf(c), pref_direction), EventData, pref_direction)
  BY <1>2, <1>3, SameAutomaton
<1>5. QED
  BY <1>4 DEF UdkuSendCommand, SendCommand

\* The steps a UDKU shares with an escalator.
UdkuShared ==
  \/ UdkuDecodeEmpty \/ UdkuDecodeError
  \/ \E c \in Commands : UdkuSendCommand(c)
  \/ UdkuNetworkTakes \/ UdkuDelayPasses
  \/ \E d \in Prefs : UdkuSetPrefDirection(d)

\* What a UDKU shares with an escalator are an escalator's steps.
LEMMA SharedSteps ==
  ASSUME IInv, UdkuShared \/ SwitchConduction \/ UNCHANGED udkuVars
  PROVE  [Next]_vars
  BY SameCommand DEF UdkuShared, UdkuDecodeEmpty, UdkuDecodeError,
     UdkuNetworkTakes, UdkuDelayPasses, UdkuSetPrefDirection, SwitchConduction,
     udkuVars, Next, Decode

\* An echo refreshes a UDKU as a state of the old inputs would an escalator.
LEMMA EchoRefreshed ==
  ASSUME IInv, UdkuDecodeEcho
  PROVE  /\ Contact(esc) \in Automaton /\ Contact(esc).state = esc.state
         /\ Contact(esc).x2 = esc.x2 /\ Contact(esc).x8 = esc.x8
         /\ Contact(esc).x5 = TRUE /\ Contact(esc).x6 = TRUE
         /\ esc' = DataRefreshed(Contact(esc)) /\ RedrawDecoded
<1>1. esc \in Automaton /\ pref_direction \in Directions
  BY DEF IInv, TypeOK
<1>2. /\ Contact(esc) \in Automaton /\ Contact(esc).state = esc.state
      /\ Contact(esc).x2 = esc.x2 /\ Contact(esc).x8 = esc.x8
      /\ Contact(esc).x5 = TRUE /\ Contact(esc).x6 = TRUE
  BY <1>1, ContactType DEF Contact, Automaton
<1>3. EventData \in Events
  BY DEF Events, EventUp, EventData
<1>4. UdkuA0(Contact(esc), EventData) = A0(Contact(esc), EventData, pref_direction)
  BY <1>1, <1>2, <1>3, SameAutomaton
<1>5. QED
  BY <1>2, <1>4 DEF UdkuDecodeEcho, UdkuRedraw, DataRefreshed

\* Any other step of a UDKU decodes an echo or its signals.
LEMMA UdkuSteps ==
  ASSUME [UdkuNext]_udkuVars
  PROVE  \/ UdkuShared \/ SwitchConduction \/ UNCHANGED udkuVars
         \/ UdkuDecodeEcho
         \/ \E p \in Signals : DecodeSignals(p)
         \/ \E p \in Signals, stored \in BOOLEAN : UdkuDecodeThrown(p, stored)
  BY DEF UdkuNext, UdkuShared
-----------------------------------------------------------------------------
(***************************************************************************)
(* The UDKU: the invariant of the escalator, the screen and the diagram    *)
(***************************************************************************)

\* What an interrupted decoding leaves.
LEMMA ThrownResult ==
  ASSUME IInv, NEW p \in Signals, NEW stored \in BOOLEAN, UdkuDecodeThrown(p, stored)
  PROVE  /\ esc' \in Automaton /\ esc'.state = esc.state /\ esc'.x2 = esc.x2
         /\ ~stored => esc'.x0 = esc.x0 /\ esc'.x1 = esc.x1
         /\ stored /\ p.contactor # "NO" => esc'.x1 = p.contactor
  BY SignalsInput DEF UdkuDecodeThrown

\* The invariant of a UDKU holds at the start.
LEMMA UdkuInitIInv == UdkuInit => IInv /\ ScreenCurrent
<1> SUFFICES ASSUME UdkuInit PROVE IInv /\ ScreenCurrent
  OBVIOUS
<1>1. pref_direction \in Directions
  BY PrefsAssumption DEF UdkuInit
<1>2. esc \in Automaton
  BY <1>1 DEF UdkuInit, Automaton, States
<1>3. last_failures_count = 0 /\ misses = 0 /\ last_failures_count <= misses
  BY DEF UdkuInit
<1>4. 0 \in 0 .. (ReconnectsCount + 1) /\ 0 \in 0 .. MissBound
  BY ReconnectsAssumption DEF MissBound
<1>5. widget \in Images /\ fresh \in BOOLEAN /\ synced \in BOOLEAN
  BY DEF UdkuInit, Images
<1>6. TypeOK
  BY <1>1, <1>2, <1>3, <1>4, <1>5, LinksAssumption DEF UdkuInit, TypeOK
<1>7. StateAgrees /\ PendingMarked /\ FailuresAreMisses
  BY <1>3 DEF UdkuInit, StateAgrees, AgreesWithInputs, PendingMarked, FailuresAreMisses
<1>8. ScreenCurrent
  BY DEF UdkuInit, ScreenCurrent, Image
<1>9. QED
  BY <1>6, <1>7, <1>8 DEF IInv

\* Every step of a UDKU keeps it.
LEMMA UdkuNextIInv == IInv /\ [UdkuNext]_udkuVars => IInv'
<1> SUFFICES ASSUME IInv, [UdkuNext]_udkuVars PROVE IInv'
  OBVIOUS
<1>1. CASE UdkuShared \/ SwitchConduction \/ UNCHANGED udkuVars
  BY <1>1, SharedSteps, NextIInv
<1>2. ASSUME NEW p \in Signals, DecodeSignals(p) PROVE IInv'
  <2> DEFINE inp == StoreSignals(Contact(esc), p)
  <2>1. inp \in Automaton /\ inp.state = esc.state /\ inp.x2 = esc.x2
    BY SignalsInput
  <2>2. esc' = DataRefreshed(inp) /\ RedrawDecoded
    BY <1>2, SignalsRefreshed DEF DecodeSignals, UdkuRedraw
  <2> HIDE DEF inp
  <2>3. /\ esc' \in Automaton /\ AgreesWithInputs(esc') /\ PendingMarked'
        /\ widget' \in Images /\ fresh' \in BOOLEAN
    BY <2>1, <2>2, DecodeStep
  <2>4. last_failures_count' = 0 /\ misses' = 0 /\ synced' = TRUE
    BY <1>2 DEF DecodeSignals
  <2>5. UNCHANGED <<pref_direction, request_for_send_to_device, link>>
    BY <1>2 DEF DecodeSignals
  <2>6. TypeOK'
    BY <2>3, <2>4, <2>5, ReconnectsAssumption DEF IInv, TypeOK, MissBound
  <2>7. QED
    BY <2>3, <2>4, <2>6 DEF IInv, StateAgrees, FailuresAreMisses
<1>3. ASSUME NEW p \in Signals, NEW stored \in BOOLEAN, UdkuDecodeThrown(p, stored)
      PROVE  IInv'
  <2>1. esc' \in Automaton /\ esc'.state = esc.state /\ esc'.x2 = esc.x2
    BY <1>3, ThrownResult
  <2>2. PendingMarked'
    BY <2>1 DEF IInv, PendingMarked
  <2>3. last_failures_count' = 0 /\ misses' = 0 /\ synced' = FALSE /\ fresh' = FALSE
    BY <1>3 DEF UdkuDecodeThrown
  <2>4. UNCHANGED <<pref_direction, request_for_send_to_device, widget, link>>
    BY <1>3 DEF UdkuDecodeThrown
  <2>5. TypeOK'
    <3>1. synced' \in BOOLEAN /\ fresh' \in BOOLEAN
      BY <2>3
    <3>2. 0 \in 0 .. (ReconnectsCount + 1) /\ 0 \in 0 .. MissBound
      BY ReconnectsAssumption DEF MissBound
    <3>3. QED
      BY <2>1, <2>3, <2>4, <3>1, <3>2 DEF IInv, TypeOK
  <2>6. QED
    BY <2>2, <2>3, <2>5 DEF IInv, StateAgrees, FailuresAreMisses
<1>4. CASE UdkuDecodeEcho
  <2>1. /\ esc' \in Automaton /\ AgreesWithInputs(esc') /\ PendingMarked'
        /\ widget' \in Images /\ fresh' \in BOOLEAN
    BY <1>4, EchoRefreshed, DecodeStep
  <2>2. last_failures_count' = 0 /\ misses' = 0 /\ synced' = TRUE
    BY <1>4 DEF UdkuDecodeEcho
  <2>3. UNCHANGED <<pref_direction, request_for_send_to_device, link>>
    BY <1>4 DEF UdkuDecodeEcho
  <2>4. TypeOK'
    BY <2>1, <2>2, <2>3, ReconnectsAssumption DEF IInv, TypeOK, MissBound
  <2>5. QED
    BY <2>1, <2>2, <2>4 DEF IInv, StateAgrees, FailuresAreMisses
<1>5. QED
  BY <1>1, <1>2, <1>3, <1>4, UdkuSteps

\* Every step of a UDKU keeps the screen current.
LEMMA UdkuNextCurrent == IInv /\ ScreenCurrent /\ [UdkuNext]_udkuVars => ScreenCurrent'
<1> SUFFICES ASSUME IInv, ScreenCurrent, [UdkuNext]_udkuVars PROVE ScreenCurrent'
  OBVIOUS
<1>1. CASE UdkuShared \/ SwitchConduction \/ UNCHANGED udkuVars
  BY <1>1, SharedSteps, NextCurrent
<1>2. ASSUME NEW p \in Signals, DecodeSignals(p) PROVE ScreenCurrent'
  <2> DEFINE inp == StoreSignals(Contact(esc), p)
  <2>1. inp \in Automaton /\ inp.state = esc.state /\ inp.x2 = esc.x2
    BY SignalsInput
  <2>2. esc' = DataRefreshed(inp) /\ RedrawDecoded
    BY <1>2, SignalsRefreshed DEF DecodeSignals, UdkuRedraw
  <2>3. pref_direction \in Directions
    BY DEF IInv, TypeOK
  <2> HIDE DEF inp
  <2>4. QED
    BY <2>1, <2>2, <2>3, DecodeCurrent
<1>3. ASSUME NEW p \in Signals, NEW stored \in BOOLEAN, UdkuDecodeThrown(p, stored)
      PROVE  ScreenCurrent'
  BY <1>3 DEF UdkuDecodeThrown, ScreenCurrent
<1>4. CASE UdkuDecodeEcho
  <2>1. pref_direction \in Directions
    BY DEF IInv, TypeOK
  <2>2. QED
    BY <1>4, <2>1, EchoRefreshed, DecodeCurrent
<1>5. QED
  BY <1>1, <1>2, <1>3, <1>4, UdkuSteps

\* Every step of a UDKU is a move of the diagram, or none.
LEMMA UdkuStepMoves ==
  ASSUME IInv, [UdkuNext]_udkuVars
  PROVE  Diagram!Next \/ esc' = esc
<1>1. CASE UdkuShared \/ SwitchConduction \/ UNCHANGED udkuVars
  BY <1>1, SharedSteps, StepMoves
<1>2. ASSUME NEW p \in Signals, DecodeSignals(p) PROVE Diagram!Next
  <2> DEFINE inp == StoreSignals(Contact(esc), p)
  <2>1. /\ inp \in Automaton /\ inp.state = esc.state /\ inp.x2 = esc.x2
        /\ inp.x8 = esc.x8
    BY SignalsInput
  <2>2. esc' = DataRefreshed(inp)
    BY <1>2, SignalsRefreshed
  <2> HIDE DEF inp
  <2>3. QED
    BY <2>1, <2>2, DecodeMoves
<1>3. ASSUME NEW p \in Signals, NEW stored \in BOOLEAN, UdkuDecodeThrown(p, stored)
      PROVE  Diagram!Next
  BY <1>3, ThrownResult, StayDecoded
<1>4. CASE UdkuDecodeEcho
  BY <1>4, EchoRefreshed, DecodeMoves
<1>5. QED
  BY <1>1, <1>2, <1>3, <1>4, UdkuSteps
-----------------------------------------------------------------------------
(***************************************************************************)
(* The UDKU: the direction shown is that of the contactors                 *)
(***************************************************************************)

\* ShownAsDriven is not inductive: a RUN may come of an x0 set long ago.  A UDKU
\* whose relay is closed shows the direction of its contactor, in whatever state.
FollowsContactor ==
  /\ conduction_is_switched_off \in BOOLEAN /\ driven \in Motions \cup {"NO"}
  /\ driven # "NO" /\ esc.x0 => esc.x1 = driven

\* The automaton turns the direction over only while the escalator stands.
LEMMA RunningKeepsDirection ==
  ASSUME NEW a \in Automaton, NEW event \in Events, NEW pref \in Directions, a.x0
  PROVE  A0(a, event, pref).x1 = a.x1
<1>1. CASE Target(a, event) = a.state
  BY <1>1 DEF A0
<1>2. CASE Target(a, event) # a.state
  <2> DEFINE to == Target(a, event)
  <2>1. to \in {"OFFLINE", "EXCEPTION"} \/ Allowed(a, to)
    BY InContactAllowed DEF Target
  <2>2. to \notin {"READY", "READY_NOT_ACCEPTED", "STARTING"}
    BY <2>1 DEF Allowed
  <2>3. DirectionOnEntry(a, to, event, pref) = a.x1
    BY <2>2 DEF DirectionOnEntry
  <2>4. A0(a, event, pref) = Enter(a, to, event, pref)
    BY <1>2 DEF A0
  <2> HIDE DEF to
  <2>5. QED
    BY <2>3, <2>4 DEF Enter, Automaton
<1>3. QED
  BY <1>1, <1>2

\* An answer without a state turns nothing over.
LEMMA MissKeepsDirection ==
  ASSUME IInv, NEW v \in BOOLEAN, NEW w \in BOOLEAN,
         esc' = DataRefreshed([esc EXCEPT !.x5 = v, !.x6 = w])
  PROVE  esc'.x0 = esc.x0 /\ (esc.x0 => esc'.x1 = esc.x1)
<1> DEFINE inp == [esc EXCEPT !.x5 = v, !.x6 = w]
           b == A0(inp, EventData, pref_direction)
<1>1. EventData \in Events
  BY DEF Events, EventUp, EventData
<1>2. esc \in Automaton /\ pref_direction \in Directions
  BY DEF IInv, TypeOK
<1>3. /\ inp \in Automaton /\ inp.x0 = esc.x0 /\ inp.x1 = esc.x1 /\ inp.x3 = esc.x3
  BY <1>2 DEF Automaton
<1> HIDE DEF inp
<1>4. /\ b \in Automaton /\ b.x0 = esc.x0 /\ b.x3 = esc.x3
      /\ esc.x0 => b.x1 = esc.x1
  BY <1>1, <1>2, <1>3, A0Type, RunningKeepsDirection
<1> HIDE DEF b
<1>5. esc' = b
  BY <1>2, <1>4, FieldTypes DEF DataRefreshed, ShowPreferred, b, inp
<1>6. QED
  BY <1>4, <1>5

\* A command's two steps do not either.
LEMMA CommandKeepsDirection ==
  ASSUME IInv, NEW c \in Commands, SendCommand(c)
  PROVE  esc'.x0 = esc.x0 /\ (esc.x0 => esc'.x1 = esc.x1)
<1> DEFINE b == A0(esc, EventOf(c), pref_direction)
<1>1. EventOf(c) \in Events /\ EventData \in Events
  BY DEF EventOf, Events, EventUp, EventDown, EventStop, EventAccept, EventData
<1>2. esc \in Automaton /\ pref_direction \in Directions
  BY DEF IInv, TypeOK
<1>3. b \in Automaton /\ b.x0 = esc.x0 /\ (esc.x0 => b.x1 = esc.x1)
  BY <1>1, <1>2, A0Type, RunningKeepsDirection
<1>4. esc' = A0(b, EventData, pref_direction)
  BY DEF SendCommand
<1> HIDE DEF b
<1>5. QED
  BY <1>1, <1>2, <1>3, <1>4, A0Type, RunningKeepsDirection

\* The shared handlers keep the direction that of the contactor.
LEMMA SharedFollows ==
  ASSUME IInv, FollowsContactor, UdkuShared \/ SwitchConduction \/ UNCHANGED udkuVars
  PROVE  FollowsContactor'
<1>0. esc \in Automaton
  BY DEF IInv, TypeOK
<1>1. CASE UdkuDecodeEmpty
  <2>1. esc' = DataRefreshed([esc EXCEPT !.x5 = @ /\ ~TooManyFailures])
    BY <1>1 DEF UdkuDecodeEmpty, DecodeEmpty
  <2>2. [esc EXCEPT !.x5 = @ /\ ~TooManyFailures]
          = [esc EXCEPT !.x5 = esc.x5 /\ ~TooManyFailures, !.x6 = esc.x6]
    BY <1>0 DEF Automaton
  <2>3. esc'.x0 = esc.x0 /\ (esc.x0 => esc'.x1 = esc.x1)
    BY <1>0, <2>1, <2>2, FieldTypes, MissKeepsDirection
  <2>4. QED
    BY <1>1, <2>3 DEF UdkuDecodeEmpty, kept, FollowsContactor
<1>2. CASE UdkuDecodeError
  <2>1. esc' = DataRefreshed([esc EXCEPT !.x5 = TRUE, !.x6 = @ /\ ~ErrorCounts])
    BY <1>2 DEF UdkuDecodeError, DecodeError
  <2>2. esc'.x0 = esc.x0 /\ (esc.x0 => esc'.x1 = esc.x1)
    BY <1>0, <2>1, FieldTypes, MissKeepsDirection
  <2>3. QED
    BY <1>2, <2>2 DEF UdkuDecodeError, kept, FollowsContactor
<1>3. ASSUME NEW c \in Commands, UdkuSendCommand(c) PROVE FollowsContactor'
  <2>1. esc'.x0 = esc.x0 /\ (esc.x0 => esc'.x1 = esc.x1)
    BY <1>3, SameCommand, CommandKeepsDirection
  <2>2. QED
    BY <1>3, <2>1 DEF UdkuSendCommand, kept, FollowsContactor
<1>4. CASE UdkuDelayPasses
  <2>1. esc'.x0 = esc.x0 /\ esc'.x1 = esc.x1
    BY <1>0, <1>4 DEF UdkuDelayPasses, DelayPasses, Automaton
  <2>2. QED
    BY <1>4, <2>1 DEF UdkuDelayPasses, kept, FollowsContactor
<1>5. ASSUME NEW d \in Prefs, UdkuSetPrefDirection(d) PROVE FollowsContactor'
  BY <1>5 DEF UdkuSetPrefDirection, FollowsContactor
<1>6. CASE UdkuNetworkTakes
  BY <1>6 DEF UdkuNetworkTakes, NetworkTakes, kept, FollowsContactor
<1>7. CASE SwitchConduction
  BY <1>7 DEF SwitchConduction, vars, FollowsContactor
<1>8. CASE UNCHANGED udkuVars
  BY <1>8 DEF udkuVars, vars, kept, FollowsContactor
<1>9. QED
  BY <1>1, <1>2, <1>3, <1>4, <1>5, <1>6, <1>7, <1>8 DEF UdkuShared

\* Every step of a UDKU does.
LEMMA UdkuNextFollows ==
  ASSUME IInv, FollowsContactor, [UdkuNext]_udkuVars
  PROVE  FollowsContactor'
<1>1. CASE UdkuShared \/ SwitchConduction \/ UNCHANGED udkuVars
  BY <1>1, SharedFollows
<1>2. ASSUME NEW p \in Signals, DecodeSignals(p) PROVE FollowsContactor'
  <2> DEFINE inp == StoreSignals(Contact(esc), p)
             b == A0(inp, EventData, pref_direction)
  <2>1. /\ inp \in Automaton /\ inp.x0 = p.rkp /\ inp.x3 = p.tu
        /\ p.contactor # "NO" => inp.x1 = p.contactor
    BY SignalsInput
  <2>2. EventData \in Events /\ pref_direction \in Directions
    BY DEF IInv, TypeOK, Events, EventUp, EventData
  <2>3. esc' = ShowPreferred(b, esc.x3, pref_direction)
    BY <1>2, SignalsRefreshed DEF DataRefreshed
  <2>4. /\ driven' = IF ~esc.x3 /\ p.tu /\ pref_direction # "REVERSE" THEN "NO"
                     ELSE p.contactor
        /\ conduction_is_switched_off' = conduction_is_switched_off
    BY <1>2 DEF DecodeSignals
  <2>5. p.contactor \in Motions \cup {"NO"}
    BY DEF Signals
  <2> HIDE DEF inp
  <2>6. /\ b.x3 = p.tu /\ b.x0 = inp.x0
        /\ inp.x0 => b.x1 = inp.x1
    BY <2>1, <2>2, A0Type, RunningKeepsDirection
  <2> HIDE DEF b
  <2>7. CASE ~esc.x3 /\ p.tu /\ pref_direction # "REVERSE"
    BY <2>4, <2>7 DEF FollowsContactor
  <2>8. CASE ~(~esc.x3 /\ p.tu /\ pref_direction # "REVERSE")
    <3>1. esc' = b
      BY <2>3, <2>6, <2>8 DEF ShowPreferred
    <3>2. driven' = p.contactor
      BY <2>4, <2>8
    <3>3. driven' # "NO" /\ esc'.x0 => esc'.x1 = driven'
      BY <2>1, <2>6, <3>1, <3>2
    <3>4. QED
      BY <2>4, <2>5, <3>2, <3>3 DEF FollowsContactor
  <2>9. QED
    BY <2>7, <2>8
<1>3. ASSUME NEW p \in Signals, NEW stored \in BOOLEAN, UdkuDecodeThrown(p, stored)
      PROVE  FollowsContactor'
  <2>1. /\ ~stored => esc'.x0 = esc.x0 /\ esc'.x1 = esc.x1
        /\ stored /\ p.contactor # "NO" => esc'.x1 = p.contactor
    BY <1>3, ThrownResult
  <2>2. p.contactor \in Motions \cup {"NO"}
    BY DEF Signals
  <2>3. driven' = IF stored THEN p.contactor ELSE driven
    BY <1>3 DEF UdkuDecodeThrown
  <2>4. conduction_is_switched_off' = conduction_is_switched_off
    BY <1>3 DEF UdkuDecodeThrown
  <2>5. QED
    BY <2>1, <2>2, <2>3, <2>4 DEF FollowsContactor
<1>4. CASE UdkuDecodeEcho
  <2>1. esc \in Automaton /\ esc' = DataRefreshed(Contact(esc))
    BY <1>4, EchoRefreshed DEF IInv, TypeOK
  <2>2. esc'.x0 = esc.x0 /\ (esc.x0 => esc'.x1 = esc.x1)
    BY <2>1, MissKeepsDirection DEF Contact
  <2>3. QED
    BY <1>4, <2>2 DEF UdkuDecodeEcho, kept, FollowsContactor
<1>5. QED
  BY <1>1, <1>2, <1>3, <1>4, UdkuSteps

UdkuInv == IInv /\ ScreenCurrent /\ FollowsContactor

\* Every behaviour of a UDKU keeps the invariant.
THEOREM UdkuInvariant == UdkuSpec => []UdkuInv
<1>1. UdkuInit => UdkuInv
  <2>1. UdkuInit => FollowsContactor
    BY DEF UdkuInit, FollowsContactor
  <2>2. QED
    BY <2>1, UdkuInitIInv DEF UdkuInv
<1>2. UdkuInv /\ [UdkuNext]_udkuVars => UdkuInv'
  BY UdkuNextIInv, UdkuNextCurrent, UdkuNextFollows DEF UdkuInv
<1>3. QED
  BY <1>1, <1>2, PTL DEF UdkuSpec

\* The state shown is the one the inputs describe, the image is that of the
\* automaton, and a moving UDKU is shown in the direction of its contactor,
\* whatever relay, contactors and block circuit say and whatever is commanded.
THEOREM UdkuShownRight == UdkuSpec => []ShownRight
<1>1. UdkuInv => ShownRight
  <2> SUFFICES ASSUME UdkuInv PROVE ShownRight
    OBVIOUS
  <2>1. UdkuTypeOK
    BY DEF UdkuInv, IInv, FollowsContactor, UdkuTypeOK
  <2>2. esc.state = "RUN" /\ synced => esc.x0
    BY DEF UdkuInv, IInv, StateAgrees, AgreesWithInputs
  <2>3. ShownAsDriven
    BY <2>2 DEF UdkuInv, FollowsContactor, ShownAsDriven
  <2>4. QED
    BY <2>1, <2>3 DEF UdkuInv, IInv, ShownRight
<1>2. QED
  BY <1>1, UdkuInvariant, PTL
-----------------------------------------------------------------------------
(***************************************************************************)
(* The UDKU: what moves it                                                 *)
(***************************************************************************)

\* The automaton starts and stops an escalator on those commands alone.
LEMMA MovementNeedsCommand ==
  ASSUME NEW a \in Automaton, NEW event \in {EventAccept, EventData}, NEW pref \in Directions,
         A0(a, event, pref).state \in {"STARTING", "STOPPING"}
  PROVE  A0(a, event, pref).state = a.state
<1>1. event \notin {EventUp, EventDown, EventStop} /\ event \in Events
  BY DEF Events, EventUp, EventDown, EventStop, EventAccept, EventData
<1>2. A0(a, event, pref).state = Target(a, event)
  BY <1>1, A0Type
<1>3. Target(a, event) = InContact(a, event)
  BY <1>2 DEF Target
<1>4. QED
  BY <1>1, <1>2, <1>3, FieldTypes DEF InContact, FromNotReady, FromReadyNotAccepted,
     FromReady, FromStarting, FromRun, FromStopping, FromOffline, FromException, States

\* A handler of an answer shows no new start or stop.
LEMMA AnswerStartsNothing ==
  ASSUME IInv, NEW inp \in Automaton, inp.state = esc.state, esc' = DataRefreshed(inp),
         esc'.state \in {"STARTING", "STOPPING"}
  PROVE  esc'.state = esc.state
<1> DEFINE b == A0(inp, EventData, pref_direction)
<1>1. EventData \in Events /\ pref_direction \in Directions
  BY DEF IInv, TypeOK, Events, EventUp, EventData
<1>2. b \in Automaton
  BY <1>1, A0Type
<1>3. esc'.state = b.state
  <2> HIDE DEF b
  <2>1. esc' = b \/ esc' = [b EXCEPT !.x1 = pref_direction]
    BY DEF DataRefreshed, ShowPreferred, b
  <2>2. QED
    BY <1>2, <2>1 DEF Automaton
<1>4. QED
  BY <1>1, <1>3, MovementNeedsCommand

\* Nothing new moves while conduction is switched off.
Quiet ==
  conduction_is_switched_off
     => /\ request_for_send_to_device' \in {request_for_send_to_device, "none"}
        /\ esc'.state \in {"STARTING", "STOPPING"} => esc'.state = esc.state

\* With conduction off no step but ACCEPT fills the slot.
LEMMA UdkuStepQuiet ==
  ASSUME IInv, [UdkuNext]_udkuVars
  PROVE  Quiet
<1>0. esc \in Automaton /\ pref_direction \in Directions
  BY DEF IInv, TypeOK
<1>1. CASE UdkuDecodeEmpty
  <2> DEFINE inp == [esc EXCEPT !.x5 = @ /\ ~TooManyFailures]
  <2>1. inp \in Automaton /\ inp.state = esc.state
    BY <1>0, FieldTypes DEF Automaton
  <2>2. QED
    BY <1>1, <2>1, AnswerStartsNothing DEF UdkuDecodeEmpty, DecodeEmpty, Quiet
<1>2. CASE UdkuDecodeError
  <2> DEFINE inp == [esc EXCEPT !.x5 = TRUE, !.x6 = @ /\ ~ErrorCounts]
  <2>1. inp \in Automaton /\ inp.state = esc.state
    BY <1>0, FieldTypes DEF Automaton
  <2>2. QED
    BY <1>2, <2>1, AnswerStartsNothing DEF UdkuDecodeError, DecodeError, Quiet
<1>3. CASE UdkuDecodeEcho
  <2>1. request_for_send_to_device' = request_for_send_to_device
    BY <1>3 DEF UdkuDecodeEcho
  <2>2. QED
    BY <1>3, <2>1, EchoRefreshed, AnswerStartsNothing DEF Quiet
<1>4. ASSUME NEW p \in Signals, DecodeSignals(p) PROVE Quiet
  <2> DEFINE inp == StoreSignals(Contact(esc), p)
  <2>1. inp \in Automaton /\ inp.state = esc.state /\ esc' = DataRefreshed(inp)
    BY <1>4, SignalsInput, SignalsRefreshed
  <2> HIDE DEF inp
  <2>2. QED
    BY <1>4, <2>1, AnswerStartsNothing DEF DecodeSignals, Quiet
<1>5. ASSUME NEW p \in Signals, NEW stored \in BOOLEAN, UdkuDecodeThrown(p, stored)
      PROVE  Quiet
  BY <1>5, ThrownResult DEF UdkuDecodeThrown, Quiet
<1>6. ASSUME NEW c \in Commands, UdkuSendCommand(c) PROVE Quiet
  <2> SUFFICES ASSUME conduction_is_switched_off PROVE Quiet
    BY DEF Quiet
  <2> DEFINE b == A0(esc, EventAccept, pref_direction)
  <2>1. c = "ACCEPT" /\ SendCommand(c)
    BY <1>6, SameCommand DEF Refuses
  <2>2. request_for_send_to_device' = request_for_send_to_device
    BY <2>1 DEF SendCommand, Movements
  <2>3. esc' = A0(b, EventData, pref_direction)
    BY <2>1 DEF SendCommand, EventOf
  <2>4. b \in Automaton
    BY <1>0, A0Type DEF Events, EventUp, EventAccept, EventData
  <2>5. esc'.state \in {"STARTING", "STOPPING"} => esc'.state = b.state
    BY <1>0, <2>3, <2>4, MovementNeedsCommand
  <2>6. b.state \in {"STARTING", "STOPPING"} => b.state = esc.state
    BY <1>0, MovementNeedsCommand
  <2>7. QED
    BY <2>2, <2>5, <2>6 DEF Quiet
<1>7. CASE UdkuDelayPasses
  BY <1>0, <1>7 DEF UdkuDelayPasses, DelayPasses, Quiet, Automaton
<1>8. ASSUME NEW d \in Prefs, UdkuSetPrefDirection(d) PROVE Quiet
  BY <1>0, <1>8 DEF UdkuSetPrefDirection, SetPrefDirection, Quiet, Automaton
<1>9. CASE UdkuNetworkTakes \/ SwitchConduction \/ UNCHANGED udkuVars
  BY <1>9 DEF UdkuNetworkTakes, NetworkTakes, SwitchConduction, udkuVars, vars, Quiet
<1>10. QED
  BY <1>1, <1>2, <1>3, <1>4, <1>5, <1>6, <1>7, <1>8, <1>9 DEF UdkuNext

\* A whole or an interrupted answer with a state leaves the UDKU in contact, and
\* so does an echo; what else takes contact away is an escalator's handler.
LEMMA UdkuLossStep ==
  ASSUME IInv, [UdkuNext]_udkuVars,
         \/ esc.x5 /\ ~esc'.x5
         \/ esc.x5 /\ esc.x6 /\ ~esc'.x6
  PROVE  misses' = MissBound
<1>1. CASE UdkuShared \/ SwitchConduction \/ UNCHANGED udkuVars
  BY <1>1, SharedSteps, LossStep
<1>2. ASSUME NEW p \in Signals, DecodeSignals(p) PROVE FALSE
  <2> DEFINE inp == StoreSignals(Contact(esc), p)
  <2>1. esc \in Automaton /\ Contact(esc) \in Automaton
    BY SignalsInput DEF IInv, TypeOK
  <2>2. Contact(esc).x5 = TRUE /\ Contact(esc).x6 = TRUE
    BY <2>1, ContactType DEF Contact
  <2>3. /\ inp \in Automaton /\ inp.state = esc.state /\ inp.x2 = esc.x2
        /\ inp.x5 = TRUE /\ inp.x6 = TRUE
    BY <2>1, <2>2, SignalsInput, StoreSignalsType
  <2>4. esc' = DataRefreshed(inp) /\ RedrawDecoded
    BY <1>2, SignalsRefreshed DEF DecodeSignals, UdkuRedraw
  <2> HIDE DEF inp
  <2>5. QED
    BY <2>3, <2>4, DecodeStep
<1>3. ASSUME NEW p \in Signals, NEW stored \in BOOLEAN, UdkuDecodeThrown(p, stored)
      PROVE  FALSE
  <2>1. esc \in Automaton /\ Contact(esc) \in Automaton
    BY SignalsInput DEF IInv, TypeOK
  <2>2. Contact(esc).x5 = TRUE /\ Contact(esc).x6 = TRUE
    BY <2>1, ContactType DEF Contact
  <2>3. esc'.x5 = TRUE /\ esc'.x6 = TRUE
    BY <1>3, <2>1, <2>2, StoreSignalsType DEF UdkuDecodeThrown
  <2>4. QED
    BY <2>3
<1>4. CASE UdkuDecodeEcho
  BY <1>4, EchoRefreshed, DecodeStep
<1>5. QED
  BY <1>1, <1>2, <1>3, <1>4, UdkuSteps

\* While conduction is switched off nothing but ACCEPT reaches the UDKU, contact
\* is lost only after the misses in a row, and whatever happens moves the UDKU
\* along the documented diagram.
THEOREM UdkuMovesByRule == UdkuSpec => MovesByRule
<1>1. IInv /\ [UdkuNext]_udkuVars
        => [conduction_is_switched_off
              => /\ request_for_send_to_device' \in {request_for_send_to_device, "none"}
                 /\ esc'.state \in {"STARTING", "STOPPING"}
                      => esc'.state = esc.state]_udkuVars
  BY UdkuStepQuiet DEF Quiet
<1>2. IInv /\ [UdkuNext]_udkuVars
        => [Diagram!Next]_<<esc.state,
             [x0 |-> esc.x0, x2 |-> esc.x2, x3 |-> esc.x3, x4 |-> esc.x4,
              x5 |-> esc.x5, x6 |-> esc.x6, x8 |-> esc.x8]>>
  BY UdkuStepMoves
<1>3. UdkuInit => Diagram!Init
  BY DEF UdkuInit, Diagram!Init
<1>4. UdkuSpec => []IInv
  BY UdkuInvariant, PTL DEF UdkuInv
<1>5. IInv /\ [UdkuNext]_udkuVars
        => [\/ esc.x5 /\ ~esc'.x5
            \/ esc.x5 /\ esc.x6 /\ ~esc'.x6
            => misses' = MissBound]_vars
  BY UdkuLossStep
<1>6. QED
  BY <1>1, <1>2, <1>3, <1>4, <1>5, PTL
     DEF UdkuSpec, MovesByRule, OffNeverMoves, LostOnlyAfterMisses, FollowsDiagram,
         Diagram!Spec

-----------------------------------------------------------------------------
(***************************************************************************)
(* The morning start                                                       *)
(***************************************************************************)

\* A file that differs from Config only in the start settings of escalators and
\* UDKUs, each of them in its range.
IsSaved(f) ==
  /\ f \in Seq(Sections) /\ Len(f) = Len(Config)
  /\ \A i \in DOMAIN Config :
       /\ f[i].kind = Config[i].kind /\ f[i].id = Config[i].id
       /\ f[i].owner = Config[i].owner /\ f[i].sound = Config[i].sound
       /\ f[i].related = Config[i].related
       /\ f[i].kind \notin StartKinds => f[i] = Config[i]
       /\ f[i].kind \in StartKinds =>
            /\ f[i].hour \in 0 .. Hours - 1
            /\ f[i].minute \in 0 .. MinutesPerHour - 1
            /\ f[i].mode \in StartModes

SavedSettings == ~unsaved => \A d \in Devices : Loaded(file, d) = settings[d]

\* The program that runs has been there for a minute at least.
RanBefore ==
  \/ day > 0 /\ started = NotStarted
  \/ accepted # Never /\ Precedes(accepted, Now)

\* The tick is the one of this minute once a pulse came, and until then it is
\* another one, or still the first one of the program.
SeenTick == running /\ seen => minute_tick = now % MinutesPerHour

StaleTick ==
  running /\ ~missed /\ ~seen =>
    minute_tick # now % MinutesPerHour \/ (minute_tick = 0 /\ ~RanBefore)

DoneTick == done # {} => minute_tick = now % MinutesPerHour

\* Nothing was built in the future, and only a list that is there is accepted.
NotAhead == ~Precedes(Now, built)
AcceptedAfter ==
  timer_commands_accepted => accepted # Never /\ ~Precedes(accepted, built)

\* A list there is after the last minute's pulse was generated in that minute.
CleanedLast ==
  ~missed /\ running /\ now = LastMinute /\ seen /\ was_created_in_this_day
    => built = [day |-> day, at |-> LastMinute]

OfDay == ~missed /\ running /\ was_created_in_this_day => OfThisDay(built)

Lists == /\ NotAhead /\ AcceptedAfter /\ CleanedLast /\ OfDay
         /\ ListBuilt /\ DueExecuted
Ticks == SeenTick /\ StaleTick /\ DoneTick /\ ExecutedOnce
MorningInv == MorningTypes /\ IsSaved(file) /\ SavedSettings /\ Ticks /\ Lists
-----------------------------------------------------------------------------
(***************************************************************************)
(* Minutes and hours                                                       *)
(***************************************************************************)
LEMMA Remainder ==
  ASSUME NEW n \in Nat, NEW m \in Nat, m > 1
  PROVE  /\ n % m \in 0 .. m - 1
         /\ n \div m \in Int
         /\ n = m * (n \div m) + (n % m)
<1>1. n % m \in 0 .. m - 1
  BY SMT
<1>2. n \div m \in Int
  BY SMT
<1>3. n = m * (n \div m) + (n % m)
  BY SMT
<1> QED
  BY <1>1, <1>2, <1>3

\* Remainders: 1 is no multiple of a greater number.
LEMMA NoMultipleIsOne ==
  ASSUME NEW m \in Nat, m > 1, NEW q \in Int PROVE m * q # 1
<1>1. CASE q <= 0
  <2>1. m * q <= 0
    BY <1>1, SMT
  <2> QED
    BY <2>1, SMT
<1>2. CASE q >= 1
  <2>1. m * q >= m
    BY <1>2, SMT
  <2> QED
    BY <2>1, SMT
<1> QED
  BY <1>1, <1>2

\* The remainder of the next number.
LEMMA NextRemainder ==
  ASSUME NEW n \in Nat, NEW m \in Nat, m > 1 PROVE (n + 1) % m # n % m
<1> DEFINE r == n % m
           s == (n + 1) % m
           p == n \div m
           q == (n + 1) \div m
<1>1. p \in Int /\ q \in Int /\ r \in Int /\ s \in Int
  BY Remainder
<1>2. n = m * p + r /\ n + 1 = m * q + s
  BY Remainder
<1> HIDE DEF r, s, p, q
<1> SUFFICES ASSUME s = r PROVE FALSE
  BY DEF r, s
<1>3. m * q - m * p = 1
  <2>1. m * p \in Int /\ m * q \in Int
    BY <1>1
  <2> QED
    BY <1>1, <1>2, <2>1
<1>4. m * (q - p) = 1
  BY <1>1, <1>3, SMT
<1> QED
  BY <1>1, <1>4, NoMultipleIsOne

\* Every minute has its tick, another one than the minute before it, and the
\* last one of the day another than the first.
LEMMA TickOfMinute ==
  /\ LastMinute \in Nat \ {0} /\ Midnight \in Minutes /\ LastMinute \in Minutes
  /\ \A n \in Minutes : n \in Nat /\ n % MinutesPerHour \in 0 .. MinutesPerHour - 1
  /\ \A n \in Minutes : (n + 1) % MinutesPerHour # n % MinutesPerHour
  /\ Midnight % MinutesPerHour = 0
  /\ LastMinute % MinutesPerHour # 0
  /\ 0 \in 0 .. MinutesPerHour - 1
<1> USE HoursAssumption, MinutesAssumption
<1>1. LastMinute \in Nat \ {0} /\ LastMinute + 1 = Hours * MinutesPerHour
  BY SMT DEF LastMinute
<1>2. Midnight \in Minutes /\ LastMinute \in Minutes
  BY <1>1 DEF Minutes, Midnight
<1>3. \A n \in Minutes : n \in Nat
  BY <1>1 DEF Minutes, Midnight
<1>4. \A n \in Minutes : n % MinutesPerHour \in 0 .. MinutesPerHour - 1
  BY <1>3, Remainder
<1>5. \A n \in Minutes : (n + 1) % MinutesPerHour # n % MinutesPerHour
  BY <1>3, NextRemainder
<1>6. Midnight % MinutesPerHour = 0
  BY SMT DEF Midnight
<1>7. LastMinute % MinutesPerHour # 0
  <2> DEFINE q == LastMinute \div MinutesPerHour
  <2> SUFFICES ASSUME LastMinute % MinutesPerHour = 0 PROVE FALSE
    OBVIOUS
  <2>1. q \in Int /\ LastMinute = MinutesPerHour * q
    <3>1. q \in Int /\ LastMinute = MinutesPerHour * q + (LastMinute % MinutesPerHour)
      BY <1>1, Remainder
    <3> QED
      BY <3>1
  <2> HIDE DEF q
  <2>2. MinutesPerHour * (Hours - q) = 1
    BY <1>1, <2>1, SMT
  <2>3. Hours - q \in Int /\ MinutesPerHour > 1
    BY <2>1
  <2> QED
    BY <2>2, <2>3, NoMultipleIsOne
<1> QED
  BY <1>1, <1>2, <1>3, <1>4, <1>5, <1>6, <1>7

\* The start time of a device is a minute of the day.
LEMMA TimeOfDay ==
  ASSUME NEW set \in StartSettings PROVE StartTime(set) \in Minutes
<1>1. set.hour \in 0 .. Hours - 1 /\ set.minute \in 0 .. MinutesPerHour - 1
  BY DEF StartSettings
<1> QED
  BY <1>1, HoursAssumption, MinutesAssumption, SMT
     DEF StartTime, Minutes, Midnight, LastMinute
-----------------------------------------------------------------------------
(***************************************************************************)
(* The file of the devices                                                 *)
(***************************************************************************)
LEMMA ConfigFile ==
  /\ Config \in Seq(Sections)
  /\ DOMAIN Config = 1 .. Len(Config) /\ Len(Config) \in Nat
  /\ \A i \in DOMAIN Config : Config[i] \in Sections /\ SectionLoads(Config, i)
  BY ConfigAssumption DEF Loads

\* A saved file has the sections of Config.
LEMMA FileOf ==
  ASSUME NEW f, IsSaved(f)
  PROVE  /\ DOMAIN f = DOMAIN Config /\ DOMAIN f = 1 .. Len(f)
         /\ \A i \in DOMAIN f : f[i] \in Sections
  BY ConfigFile DEF IsSaved

\* All sections of some kinds stand before the end of a file.
LEMMA AllBefore ==
  ASSUME NEW f, IsSaved(f), NEW kinds
  PROVE  Before(f, Len(f) + 1, kinds)
           = {f[i] : i \in {k \in DOMAIN Config : f[k].kind \in kinds}}
<1>1. Len(f) + 1 - 1 = Len(f) /\ DOMAIN Config = 1 .. Len(f)
  BY ConfigFile DEF IsSaved
<1> QED
  BY <1>1 DEF Before

\* A section of an escalator or a UDKU is one whose device is of those kinds.
StartSections == {i \in DOMAIN Config : Config[i].kind \in StartKinds}

\* The section of the start settings loads when its hour is not 0.
LEMMA StartSectionLoads ==
  ASSUME NEW i \in StartSections
  PROVE  /\ EscalatorEntries(Config[i]) /\ Config[i].hour > 0
         /\ Attached(Config, i, DeviceKinds, {"station"})
<1>1. SectionLoads(Config, i)
  BY ConfigFile DEF StartSections
<1>2. Config[i].kind = "escalator" \/ Config[i].kind = "udku"
  BY DEF StartSections, StartKinds
<1>3. EscalatorLoads(Config, i) \/ UdkuLoads(Config, i)
  BY <1>1, <1>2 DEF SectionLoads
<1> QED
  BY <1>3 DEF EscalatorLoads, UdkuLoads, UdkuEntries

\* The program's first file is one it could have saved.
LEMMA ConfigIsSaved == IsSaved(Config)
<1>1. ASSUME NEW i \in DOMAIN Config, Config[i].kind \in StartKinds
      PROVE  /\ Config[i].hour \in 0 .. Hours - 1
             /\ Config[i].minute \in 0 .. MinutesPerHour - 1
             /\ Config[i].mode \in StartModes
  BY <1>1, StartSectionLoads DEF StartSections, EscalatorEntries
<1> QED
  BY <1>1, ConfigFile DEF IsSaved

\* The ids of the escalators and UDKUs are all different.
LEMMA StartIdsDiffer ==
  ASSUME NEW i \in StartSections, NEW j \in StartSections,
         Config[i].id = Config[j].id
  PROVE  i = j
<1>1. \A k, l \in StartSections : k < l => Config[k].id # Config[l].id
  <2> SUFFICES ASSUME NEW k \in StartSections, NEW l \in StartSections, k < l
               PROVE  Config[k].id # Config[l].id
    OBVIOUS
  <2>1. Config[l].id \notin Ids(Before(Config, l, DeviceKinds))
    BY StartSectionLoads DEF Attached
  <2>2. k \in 1 .. l - 1 /\ Config[k].kind \in DeviceKinds
    BY ConfigFile DEF StartSections, DeviceKinds
  <2>3. Config[k] \in Before(Config, l, DeviceKinds)
    BY <2>2 DEF Before
  <2> QED
    BY <2>1, <2>3 DEF Ids
<1>2. i \in Int /\ j \in Int
  BY ConfigFile DEF StartSections
<1> QED
  BY <1>1, <1>2

\* Every device has a section of its own.
LEMMA DevicesHaveSections ==
  /\ \A i \in StartSections : Config[i].id \in Devices
  /\ \A d \in Devices : \E i \in StartSections : d = Config[i].id
<1>1. Before(Config, Len(Config) + 1, StartKinds) = {Config[i] : i \in StartSections}
  BY AllBefore, ConfigIsSaved DEF StartSections
<1> QED
  BY <1>1 DEF Devices, StartDevices, Ids

\* The section of a device is found by its id.
LEMMA SectionFound ==
  ASSUME NEW f, IsSaved(f), NEW i \in StartSections
  PROVE  SectionOf(f, Config[i].id) = f[i]
<1> DEFINE all == Before(f, Len(f) + 1, StartKinds)
<1>1. all = {f[k] : k \in StartSections}
  <2>1. {k \in DOMAIN Config : f[k].kind \in StartKinds} = StartSections
    BY DEF StartSections, IsSaved
  <2> QED
    BY <2>1, AllBefore
<1>2. \A k \in StartSections : f[k].id = Config[k].id
  BY DEF StartSections, IsSaved
<1> HIDE DEF all
<1>3. f[i] \in all /\ f[i].id = Config[i].id
  BY <1>1, <1>2
<1>4. \A s \in all : s.id = Config[i].id => s = f[i]
  BY <1>1, <1>2, StartIdsDiffer
<1>5. SectionOf(f, Config[i].id) = CHOOSE s \in all : s.id = Config[i].id
  BY DEF SectionOf, all
<1> QED
  BY <1>3, <1>4, <1>5

\* What a start reads of a section.
LEMMA LoadedSettings ==
  ASSUME NEW f, IsSaved(f), NEW d \in Devices
  PROVE  Loaded(f, d) \in StartSettings
<1>1. PICK i \in StartSections : d = Config[i].id
  BY DevicesHaveSections
<1>2. SectionOf(f, d) = f[i]
  BY <1>1, SectionFound
<1>3. /\ f[i].hour \in 0 .. Hours - 1
      /\ f[i].minute \in 0 .. MinutesPerHour - 1
      /\ f[i].mode \in StartModes
  BY DEF IsSaved, StartSections
<1> QED
  BY <1>2, <1>3 DEF Loaded, StartSettings
-----------------------------------------------------------------------------
(***************************************************************************)
(* Saving, whole or in part, keeps the sections and their ids; the file    *)
(* then loads, if it did before, unless a start hour is 0.                 *)
(***************************************************************************)
\* What is written of a section is taken from the settings of its device.
LEMMA EntriesSaved ==
  ASSUME NEW s \in Sections, s.kind \in StartKinds, NEW set \in StartSettings,
         NEW n \in Int,
         s.hour \in 0 .. Hours - 1, s.minute \in 0 .. MinutesPerHour - 1,
         s.mode \in StartModes
  PROVE  LET t == EscalatorSaved(s, set, n)
         IN /\ t \in Sections
            /\ t.kind = s.kind /\ t.id = s.id /\ t.owner = s.owner
            /\ t.sound = s.sound /\ t.enabled = s.enabled /\ t.related = s.related
            /\ t.hour \in 0 .. Hours - 1
            /\ t.minute \in 0 .. MinutesPerHour - 1
            /\ t.mode \in StartModes
            /\ n > 2 => /\ t.hour = set.hour /\ t.minute = set.minute
                        /\ t.mode = set.mode
<1>1. /\ set.hour \in 0 .. Hours - 1 /\ set.minute \in 0 .. MinutesPerHour - 1
      /\ set.mode \in StartModes
  BY DEF StartSettings
<1>3. 0 .. Hours - 1 \subseteq Int /\ 0 .. MinutesPerHour - 1 \subseteq Int
  OBVIOUS
<1> DEFINE h == IF n > 0 THEN set.hour ELSE s.hour
           m == IF n > 1 THEN set.minute ELSE s.minute
           o == IF n > 2 THEN set.mode ELSE s.mode
<1>4. /\ h \in 0 .. Hours - 1 /\ m \in 0 .. MinutesPerHour - 1 /\ o \in StartModes
  BY <1>1
<1>5. EscalatorSaved(s, set, n) = [s EXCEPT !.hour = h, !.minute = m, !.mode = o]
  BY DEF EscalatorSaved
<1>6. n > 2 => h = set.hour /\ m = set.minute /\ o = set.mode
  OBVIOUS
<1> HIDE DEF h, m, o
<1>7. h \in Int /\ m \in Int /\ o \in StartModes
  BY <1>3, <1>4
<1>8. s = [kind |-> s.kind, id |-> s.id, owner |-> s.owner, sound |-> s.sound,
           enabled |-> s.enabled, hour |-> s.hour, minute |-> s.minute,
           mode |-> s.mode, related |-> s.related]
  BY DEF Sections
<1>9. EscalatorSaved(s, set, n)
        = [kind |-> s.kind, id |-> s.id, owner |-> s.owner, sound |-> s.sound,
           enabled |-> s.enabled, hour |-> h, minute |-> m,
           mode |-> o, related |-> s.related]
  BY <1>5, <1>8
<1>10. EscalatorSaved(s, set, n) \in Sections
  BY <1>7, <1>9 DEF Sections
<1> QED
  BY <1>4, <1>6, <1>9, <1>10

\* What saving writes of a section.
LEMMA SectionSavedIs ==
  ASSUME NEW s, NEW set, NEW n
  PROVE  /\ s.kind \in StartKinds =>
              SectionSaved(s, set, n) = EscalatorSaved(s, set[s.id], n)
         /\ s.kind \notin StartKinds => SectionSaved(s, set, n) = s
  BY DEF SectionSaved, UdkuSaved, StartKinds

\* The section of a saved file.
LEMMA SavedSection ==
  ASSUME NEW f, IsSaved(f), NEW set \in [Devices -> StartSettings],
         NEW i \in DOMAIN Config, NEW n \in Int
  PROVE  LET t == SectionSaved(f[i], set, n)
         IN /\ t \in Sections
            /\ t.kind = Config[i].kind /\ t.id = Config[i].id
            /\ t.owner = Config[i].owner /\ t.sound = Config[i].sound
            /\ t.related = Config[i].related
            /\ t.kind \notin StartKinds => t = Config[i]
            /\ t.kind \in StartKinds =>
                 /\ t.hour \in 0 .. Hours - 1
                 /\ t.minute \in 0 .. MinutesPerHour - 1
                 /\ t.mode \in StartModes
<1>1. /\ f[i] \in Sections
      /\ f[i].kind = Config[i].kind /\ f[i].id = Config[i].id
      /\ f[i].owner = Config[i].owner /\ f[i].sound = Config[i].sound
      /\ f[i].related = Config[i].related
  BY FileOf DEF IsSaved
<1>2. CASE i \in StartSections
  <2>1. set[f[i].id] \in StartSettings
    BY <1>1, <1>2, DevicesHaveSections
  <2>2. /\ f[i].kind \in StartKinds
        /\ f[i].hour \in 0 .. Hours - 1
        /\ f[i].minute \in 0 .. MinutesPerHour - 1
        /\ f[i].mode \in StartModes
    BY <1>1, <1>2 DEF StartSections, IsSaved
  <2>3. SectionSaved(f[i], set, n) = EscalatorSaved(f[i], set[f[i].id], n)
    BY <2>2, SectionSavedIs
  <2> QED
    BY <1>1, <2>1, <2>2, <2>3, EntriesSaved
<1>3. CASE i \notin StartSections
  <2>1. f[i].kind \notin StartKinds /\ f[i] = Config[i]
    BY <1>1, <1>3 DEF StartSections, IsSaved
  <2>2. SectionSaved(f[i], set, n) = Config[i]
    BY <2>1, SectionSavedIs
  <2> QED
    BY <1>1, <2>1, <2>2
<1> QED
  BY <1>2, <1>3

\* Saving leaves a saved file, however far it comes.
LEMMA SavedIsSaved ==
  ASSUME NEW f, IsSaved(f), NEW set \in [Devices -> StartSettings],
         NEW i \in Int, NEW n \in Int
  PROVE  IsSaved(Saved(f, set, i, n))
<1> DEFINE g == Saved(f, set, i, n)
<1>1. DOMAIN f = DOMAIN Config /\ DOMAIN f = 1 .. Len(f) /\ Len(f) \in Nat
  BY FileOf, ConfigFile DEF IsSaved
<1>2. DOMAIN g = DOMAIN f
  BY DEF Saved
<1>3. ASSUME NEW j \in DOMAIN Config
      PROVE  \/ g[j] = f[j]
             \/ g[j] = SectionSaved(f[j], set, StartEntries)
             \/ g[j] = SectionSaved(f[j], set, n)
  BY <1>1 DEF Saved
<1>4. StartEntries \in Int
  BY DEF StartEntries
<1> HIDE DEF g
<1>5. ASSUME NEW j \in DOMAIN Config
      PROVE  /\ g[j] \in Sections
             /\ g[j].kind = Config[j].kind /\ g[j].id = Config[j].id
             /\ g[j].owner = Config[j].owner /\ g[j].sound = Config[j].sound
             /\ g[j].related = Config[j].related
             /\ g[j].kind \notin StartKinds => g[j] = Config[j]
             /\ g[j].kind \in StartKinds =>
                  /\ g[j].hour \in 0 .. Hours - 1
                  /\ g[j].minute \in 0 .. MinutesPerHour - 1
                  /\ g[j].mode \in StartModes
  <2>1. CASE g[j] = f[j]
    BY <1>1, <2>1, FileOf DEF IsSaved
  <2>2. CASE g[j] = SectionSaved(f[j], set, StartEntries)
    BY <1>4, <2>2, SavedSection
  <2>3. CASE g[j] = SectionSaved(f[j], set, n)
    BY <2>3, SavedSection
  <2> QED
    BY <1>3, <2>1, <2>2, <2>3
<1>6. g = [j \in 1 .. Len(f) |-> g[j]]
  BY <1>1, <1>2 DEF g, Saved
<1>7. g \in Seq(Sections) /\ Len(g) = Len(f)
  BY <1>1, <1>2, <1>5, <1>6
<1> QED
  BY <1>5, <1>7 DEF g, IsSaved

\* After a saving that did not fail a start reads the settings that were saved.
LEMMA SavedComesBack ==
  ASSUME NEW f, IsSaved(f), NEW set \in [Devices -> StartSettings],
         NEW d \in Devices
  PROVE  Loaded(Saved(f, set, Len(f) + 1, 0), d) = set[d]
<1> DEFINE g == Saved(f, set, Len(f) + 1, 0)
<1>1. PICK i \in StartSections : d = Config[i].id
  BY DevicesHaveSections
<1>2. IsSaved(g)
  BY SavedIsSaved, ConfigFile DEF IsSaved
<1>3. SectionOf(g, d) = g[i]
  BY <1>1, <1>2, SectionFound
<1>4. i \in 1 .. Len(f) /\ i \in DOMAIN f /\ Len(f) \in Nat
  BY FileOf, ConfigFile DEF StartSections, IsSaved
<1>5. g[i] = SectionSaved(f[i], set, StartEntries)
  BY <1>4 DEF Saved
<1>6. /\ f[i] \in Sections /\ f[i].kind \in StartKinds /\ f[i].id = d
      /\ f[i].hour \in 0 .. Hours - 1 /\ f[i].minute \in 0 .. MinutesPerHour - 1
      /\ f[i].mode \in StartModes
  BY <1>1, <1>4, FileOf DEF IsSaved, StartSections
<1>7. g[i] = EscalatorSaved(f[i], set[d], 3)
  BY <1>5, <1>6, SectionSavedIs DEF StartEntries
<1>8. set[d] \in StartSettings
  OBVIOUS
<1> HIDE DEF g
<1>9. g[i].hour = set[d].hour /\ g[i].minute = set[d].minute /\ g[i].mode = set[d].mode
  BY <1>6, <1>7, <1>8, EntriesSaved
<1>10. Loaded(g, d) = [hour |-> set[d].hour, minute |-> set[d].minute,
                       mode |-> set[d].mode]
  BY <1>3, <1>9 DEF Loaded
<1> QED
  BY <1>8, <1>10 DEF StartSettings, g

\* What is before a section has the same ids in both files.
LEMMA SameBefore ==
  ASSUME NEW f, IsSaved(f), NEW i \in DOMAIN Config, NEW kinds
  PROVE  /\ Ids(Before(f, i, kinds)) = Ids(Before(Config, i, kinds))
         /\ Before(f, i, kinds) = {} <=> Before(Config, i, kinds) = {}
<1>1. \A k \in 1 .. i - 1 : k \in DOMAIN Config
  BY ConfigFile
<1>2. \A k \in 1 .. i - 1 : f[k].kind = Config[k].kind /\ f[k].id = Config[k].id
  BY <1>1 DEF IsSaved
<1> DEFINE before == {k \in 1 .. i - 1 : Config[k].kind \in kinds}
<1>3. /\ Before(f, i, kinds) = {f[k] : k \in before}
      /\ Before(Config, i, kinds) = {Config[k] : k \in before}
  BY <1>2 DEF Before
<1>4. \A k \in before : f[k].id = Config[k].id
  BY <1>2
<1> HIDE DEF before
<1>5. /\ Ids(Before(f, i, kinds)) = {f[k].id : k \in before}
      /\ Ids(Before(Config, i, kinds)) = {Config[k].id : k \in before}
  BY <1>3 DEF Ids
<1>6. {f[k].id : k \in before} = {Config[k].id : k \in before}
  BY <1>4
<1>7. Before(f, i, kinds) = {} <=> before = {}
  BY <1>3, Zenon
<1>8. Before(Config, i, kinds) = {} <=> before = {}
  BY <1>3, Zenon
<1> QED
  BY <1>5, <1>6, <1>7, <1>8

\* Settings of the same devices are attached alike.
LEMMA SameAttached ==
  ASSUME NEW f, IsSaved(f), NEW i \in DOMAIN Config, NEW own, NEW owners
  PROVE  Attached(f, i, own, owners) <=> Attached(Config, i, own, owners)
<1>1. f[i].id = Config[i].id /\ f[i].owner = Config[i].owner
  BY DEF IsSaved
<1> QED
  BY <1>1, SameBefore DEF Attached

\* A saved file loads, unless the hour 0 stands in it.
LEMMA SavedLoads ==
  ASSUME NEW f, IsSaved(f), \A d \in Devices : Loaded(f, d).hour > 0
  PROVE  Loads(f)
<1> SUFFICES ASSUME NEW i \in DOMAIN Config PROVE SectionLoads(f, i)
  BY FileOf DEF Loads
<1>1. SectionLoads(Config, i)
  BY ConfigFile
<1>2. f[i].kind = Config[i].kind /\ f[i].sound = Config[i].sound
  BY DEF IsSaved
<1>3. CASE i \in StartSections
  <2>1. /\ EscalatorEntries(Config[i])
        /\ Attached(Config, i, DeviceKinds, {"station"})
    BY <1>3, StartSectionLoads
  <2>2. EscalatorEntries(f[i])
    BY <1>2, <1>3, <2>1 DEF EscalatorEntries, IsSaved, StartSections
  <2>3. f[i].hour > 0
    BY <1>3, DevicesHaveSections, SectionFound DEF Loaded
  <2>4. Attached(f, i, DeviceKinds, {"station"})
    BY <2>1, SameAttached
  <2>5. f[i].kind = "escalator" \/ f[i].kind = "udku"
    BY <1>2, <1>3 DEF StartSections, StartKinds
  <2> QED
    BY <2>2, <2>3, <2>4, <2>5
       DEF SectionLoads, EscalatorLoads, UdkuLoads, UdkuEntries
<1>4. CASE i \notin StartSections
  <2>1. f[i] = Config[i]
    BY <1>2, <1>4 DEF IsSaved, StartSections
  <2>2. f[i].kind # "escalator" /\ f[i].kind # "udku"
    BY <1>2, <1>4 DEF StartSections, StartKinds
  <2>3. LineLoads(Config, i) => LineLoads(f, i)
    BY <2>1, SameBefore DEF LineLoads
  <2>4. StationLoads(Config, i) => StationLoads(f, i)
    BY <2>1, SameAttached DEF StationLoads
  <2>5. DoorLoads(Config, i) => DoorLoads(f, i)
    BY <2>1, SameAttached DEF DoorLoads
  <2>6. ShavrLoads(Config, i) => ShavrLoads(f, i)
    BY <2>1, SameAttached, SameBefore DEF ShavrLoads, ShavrEntries
  <2> QED
    BY <1>1, <2>1, <2>2, <2>3, <2>4, <2>5, <2>6 DEF SectionLoads
<1> QED
  BY <1>3, <1>4
-----------------------------------------------------------------------------
(***************************************************************************)
(* Types                                                                   *)
(***************************************************************************)
ListType ==
  /\ container_timer_command \subseteq TimerCommands
  /\ was_created_in_this_day \in BOOLEAN
  /\ timer_commands_accepted \in BOOLEAN
  /\ built \in Moments \cup {Never}
  /\ accepted \in Moments \cup {Never}
  /\ was_created_in_this_day => built # Never

\* The clock shows a minute of a day.
LEMMA NowIsMoment ==
  ASSUME MorningTypes PROVE Now \in Moments /\ Now # Never /\ Never \notin Moments
<1>1. day \in 0 .. MaxDays /\ now \in Minutes
  BY DEF MorningTypes
<1>2. Now \in Moments
  BY <1>1 DEF Now, Moments
<1>3. \A t \in Moments : t.day \in 0 .. MaxDays
  BY DEF Moments
<1>4. Never.day = -1 /\ -1 \notin 0 .. MaxDays
  BY DEF Never
<1>5. Never \notin Moments
  BY <1>3, <1>4
<1> QED
  BY <1>2, <1>5

\* The list that is prepared is a list.
LEMMA PreparedType ==
  ASSUME MorningTypes PROVE PreparedCommands \subseteq TimerCommands
<1>1. \A d \in Devices : settings[d] \in StartSettings
  BY DEF MorningTypes
<1>2. \A d \in Devices : StartTime(settings[d]) \in Minutes
  BY <1>1, TimeOfDay
<1> QED
  BY <1>2 DEF PreparedCommands, TimerCommands

\* Building the list keeps the types;
LEMMA BuildType == ASSUME MorningTypes, Build PROVE ListType'
<1>1. container_timer_command' \subseteq TimerCommands
  BY PreparedType DEF Build
<1>2. built' = Now /\ Now \in Moments /\ Now # Never
  BY NowIsMoment DEF Build
<1> QED
  BY <1>1, <1>2 DEF Build, ListType

\* so do its refreshing,
LEMMA RefreshType == ASSUME MorningTypes, RefreshList PROVE ListType'
<1>1. CASE CleanDay
  BY <1>1 DEF CleanDay, MorningTypes, ListType
<1>2. CASE Build
  BY <1>2, BuildType
<1>3. CASE UNCHANGED list
  BY <1>3 DEF list, MorningTypes, ListType
<1> QED
  BY <1>1, <1>2, <1>3 DEF RefreshList

\* executing a command,
LEMMA ExecuteType ==
  ASSUME MorningTypes, ListType', Execute
  PROVE  /\ executed' \subseteq TimerCommands /\ done' \subseteq Devices
         /\ repeated' \in BOOLEAN
<1>1. Due \subseteq TimerCommands
  BY DEF Due, ListType
<1>2. executed' \subseteq TimerCommands
  BY <1>1 DEF Execute, MorningTypes
<1>3. done' \subseteq Devices
  <2>1. \A c \in Due : c.device \in Devices
    BY <1>1 DEF TimerCommands
  <2>2. done' = done \cup {c.device : c \in Due}
    BY DEF Execute
  <2> QED
    BY <2>1, <2>2 DEF MorningTypes
<1>4. repeated' \in BOOLEAN
  <2> DEFINE again == \E c \in Due : c.device \in done
  <2>1. repeated' = (repeated \/ again)
    BY DEF Execute
  <2> HIDE DEF again
  <2> QED
    BY <2>1 DEF MorningTypes
<1> QED
  BY <1>2, <1>3, <1>4

\* the minute's pulse,
LEMMA PulseType == ASSUME MorningTypes, TimerPulse PROVE MorningTypes'
<1>1. UNCHANGED <<now, parity, day, missed, settings, file, unsaved, running, starts, started>>
      /\ seen' = TRUE
  BY DEF TimerPulse, clock, disk, program
<1>2. /\ ListType'
      /\ minute_tick' \in 0 .. MinutesPerHour - 1
      /\ executed' \subseteq TimerCommands /\ done' \subseteq Devices
      /\ repeated' \in BOOLEAN
  <2>1. CASE minute_tick # now % MinutesPerHour
    <3>1. minute_tick' = now % MinutesPerHour /\ RefreshList /\ Execute
      BY <2>1 DEF TimerPulse
    <3>2. minute_tick' \in 0 .. MinutesPerHour - 1
      BY <3>1, TickOfMinute DEF MorningTypes
    <3> QED
      BY <3>1, <3>2, RefreshType, ExecuteType
  <2>2. CASE minute_tick = now % MinutesPerHour
    BY <2>2 DEF TimerPulse, MorningTypes, ListType, list, history
  <2> QED
    BY <2>1, <2>2
<1> QED
  BY <1>1, <1>2 DEF MorningTypes, ListType

\* accepting the list,
LEMMA AcceptType == ASSUME MorningTypes, Accept PROVE MorningTypes'
<1>1. accepted' \in Moments \cup {Never}
  BY NowIsMoment DEF Accept, MorningTypes
<1>2. UNCHANGED <<now, parity, day, missed, seen, minute_tick, settings, file,
                  container_timer_command, was_created_in_this_day, built, executed,
                  done, repeated, unsaved, running, starts, started>>
      /\ timer_commands_accepted' = TRUE
  BY DEF Accept, clock, disk, history, program
<1> QED
  BY <1>1, <1>2 DEF MorningTypes

\* generating it,
LEMMA GenerateType == ASSUME MorningTypes, Generate PROVE MorningTypes'
<1>1. ListType'
  BY BuildType DEF Generate
<1>2. UNCHANGED <<now, parity, day, missed, seen, minute_tick, settings, file, done,
                  repeated, unsaved, running, starts, started>>
      /\ executed' = {}
  BY DEF Generate, clock, disk, program
<1> QED
  BY <1>1, <1>2 DEF MorningTypes, ListType

\* Saving, whole or in part, leaves a file of the same sections.
LEMMA ChangeSaves ==
  ASSUME MorningTypes, IsSaved(file), NEW d \in Devices, NEW set \in Choices[d],
         ChangeSettings(d, set)
  PROVE  /\ settings' \in [Devices -> StartSettings]
         /\ unsaved' \in BOOLEAN
         /\ IsSaved(file') /\ SavedSettings'
<1>1. settings' \in [Devices -> StartSettings]
  BY ChoicesAssumption DEF ChangeSettings, MorningTypes
<1>2. CASE SaveSucceeds(settings')
  <2>1. file' = Saved(file, settings', Len(file) + 1, 0) /\ unsaved' = FALSE
    BY <1>2 DEF SaveSucceeds
  <2>2. Len(file) + 1 \in Int
    BY ConfigFile DEF MorningTypes
  <2>3. IsSaved(file')
    BY <1>1, <2>1, <2>2, SavedIsSaved
  <2>4. \A e \in Devices : Loaded(file', e) = settings'[e]
    BY <1>1, <2>1, SavedComesBack
  <2> QED
    BY <1>1, <2>1, <2>3, <2>4 DEF SavedSettings
<1>3. CASE SaveFails(settings')
  <2>1. unsaved' = TRUE
    BY <1>3 DEF SaveFails
  <2>2. IsSaved(file')
    <3>1. CASE UNCHANGED file
      BY <3>1
    <3>2. CASE \E i \in DOMAIN file : \E n \in 0 .. StartEntries - 1 :
                 file' = Saved(file, settings', i, n)
      <4>1. PICK i \in DOMAIN file, n \in 0 .. StartEntries - 1 :
              file' = Saved(file, settings', i, n)
        BY <3>2
      <4>2. i \in Int /\ n \in Int
        BY FileOf, ConfigFile DEF StartEntries
      <4> QED
        BY <1>1, <4>1, <4>2, SavedIsSaved
    <3> QED
      BY <1>3, <3>1, <3>2 DEF SaveFails
  <2> QED
    BY <1>1, <2>1, <2>2 DEF SavedSettings
<1> QED
  BY <1>2, <1>3 DEF ChangeSettings

\* changing the settings,
LEMMA ChangeType ==
  ASSUME MorningTypes, IsSaved(file), NEW d \in Devices, NEW set \in Choices[d],
         ChangeSettings(d, set)
  PROVE  MorningTypes'
<1>1. /\ settings' \in [Devices -> StartSettings]
      /\ unsaved' \in BOOLEAN /\ Len(file') = Len(Config)
  BY ChangeSaves DEF IsSaved
<1>2. UNCHANGED <<now, parity, day, missed, seen, minute_tick,
                  container_timer_command, was_created_in_this_day,
                  timer_commands_accepted, built, accepted, executed, done, repeated,
                  running, starts, started>>
  BY DEF ChangeSettings, clock, list, history, program
<1> QED
  BY <1>1, <1>2 DEF MorningTypes

\* the clock,
LEMMA NextMinuteType == ASSUME MorningTypes, NextMinute PROVE MorningTypes'
<1>1. now' \in Minutes
  BY TickOfMinute DEF NextMinute, MorningTypes, Minutes, Midnight
<1>2. missed' \in BOOLEAN /\ seen' = FALSE /\ done' = {}
  BY DEF NextMinute, MorningTypes
<1>3. UNCHANGED <<parity, day, minute_tick, settings, file, unsaved,
                  container_timer_command, was_created_in_this_day,
                  timer_commands_accepted, built, accepted, executed, repeated,
                  running, starts, started>>
  BY DEF NextMinute, list, disk, program
<1> QED
  BY <1>1, <1>2, <1>3 DEF MorningTypes

\* the next day,
LEMMA NextDayType == ASSUME MorningTypes, NextDay PROVE MorningTypes'
<1>1. now' \in Minutes /\ day' \in 0 .. MaxDays
  BY TickOfMinute, BoundsAssumption DEF NextDay, MorningTypes
<1>2. missed' \in BOOLEAN /\ seen' = FALSE /\ done' = {} /\ executed' = {}
  BY DEF NextDay, MorningTypes
<1>3. parity' \in Parities
  BY DEF NextDay, Parities
<1>4. UNCHANGED <<minute_tick, settings, file, unsaved,
                  container_timer_command, was_created_in_this_day,
                  timer_commands_accepted, built, accepted, repeated,
                  running, starts>>
      /\ started' = NotStarted
  BY DEF NextDay, list, disk
<1> QED
  BY <1>1, <1>2, <1>3, <1>4 DEF MorningTypes

\* a start
LEMMA StartType == ASSUME MorningTypes, IsSaved(file), Start PROVE MorningTypes'
<1>1. settings' \in [Devices -> StartSettings]
  BY LoadedSettings DEF Start
<1>2. starts' \in 0 .. MaxStarts
  BY BoundsAssumption DEF Start, MorningTypes
<1>3. /\ UNCHANGED <<now, parity, day, missed, repeated, file>>
      /\ running' = TRUE /\ unsaved' = FALSE /\ started' = now /\ seen' = FALSE
      /\ minute_tick' = 0 /\ container_timer_command' = {}
      /\ was_created_in_this_day' = FALSE /\ timer_commands_accepted' = FALSE
      /\ built' = Never /\ accepted' = Never /\ executed' = {} /\ done' = {}
  BY DEF Start, clock
<1> QED
  BY <1>1, <1>2, <1>3, TickOfMinute DEF MorningTypes

\* and a stop.
LEMMA StopType == ASSUME MorningTypes, Stop PROVE MorningTypes'
  BY DEF Stop, MorningTypes, clock, list, history, disk

\* Every step keeps the types.
LEMMA TypeNext == ASSUME MorningTypes, IsSaved(file), [MorningNext]_morning PROVE MorningTypes'
<1>1. CASE UNCHANGED morning
  BY <1>1 DEF morning, MorningTypes
<1> QED
  BY <1>1, PulseType, AcceptType, GenerateType, ChangeType, NextMinuteType,
     NextDayType, StartType, StopType DEF MorningNext

\* The file stays one of the same sections, and has the settings the dispatcher
\* left unless a saving failed.
LEMMA FileNext ==
  ASSUME MorningTypes, IsSaved(file), SavedSettings, [MorningNext]_morning
  PROVE  IsSaved(file') /\ SavedSettings'
<1>1. CASE \E d \in Devices : \E set \in Choices[d] : ChangeSettings(d, set)
  BY <1>1, ChangeSaves
<1>2. CASE Start
  <2>1. file' = file /\ settings' = [d \in Devices |-> Loaded(file, d)]
    BY <1>2 DEF Start
  <2> QED
    BY <2>1 DEF SavedSettings
<1>3. CASE UNCHANGED <<file, unsaved, settings>>
  BY <1>3 DEF SavedSettings
<1>4. CASE UNCHANGED morning
  BY <1>3, <1>4 DEF morning
<1>5. CASE TimerPulse
  BY <1>3, <1>5 DEF TimerPulse, disk
<1>6. CASE Accept
  BY <1>3, <1>6 DEF Accept, disk
<1>7. CASE Generate
  BY <1>3, <1>7 DEF Generate, disk
<1>8. CASE NextMinute
  BY <1>3, <1>8 DEF NextMinute, disk
<1>9. CASE NextDay
  BY <1>3, <1>9 DEF NextDay, disk
<1>10. CASE Stop
  BY <1>3, <1>10 DEF Stop, disk
<1> QED
  BY <1>1, <1>2, <1>4, <1>5, <1>6, <1>7, <1>8, <1>9, <1>10 DEF MorningNext
-----------------------------------------------------------------------------
(***************************************************************************)
(* Moments                                                                 *)
(***************************************************************************)
LEMMA MomentFields ==
  ASSUME MorningTypes
  PROVE  /\ now \in Nat /\ day \in Nat
         /\ Now.day = day /\ Now.at = now
         /\ built.day \in Int /\ built.at \in Int
         /\ accepted.day \in Int /\ accepted.at \in Int
<1>1. now \in Nat /\ day \in Nat
  BY TickOfMinute, BoundsAssumption DEF MorningTypes
<1>2. \A t \in Moments : t.day \in Int /\ t.at \in Int
  <2>1. \A t \in Moments : t.day \in 0 .. MaxDays /\ t.at \in Minutes
    BY DEF Moments
  <2>2. \A n \in Minutes : n \in Int
    BY TickOfMinute
  <2> QED
    BY <2>1, <2>2
<1>3. Never.day \in Int /\ Never.at \in Int
  BY DEF Never
<1> QED
  BY <1>1, <1>2, <1>3 DEF MorningTypes, Now

\* A minute or a day later nothing that was not ahead is.
LEMMA Later ==
  ASSUME MorningTypes, MorningTypes', NextMinute \/ NextDay, NEW t, t.day \in Int, t.at \in Int,
         ~Precedes(Now, t)
  PROVE  ~Precedes(Now', t)
<1>1. /\ now \in Nat /\ day \in Nat /\ now' \in Nat /\ day' \in Nat
      /\ (day' = day /\ now' = now + 1) \/ day' = day + 1
  <2>1. now' \in Nat /\ day' \in Nat
    BY TickOfMinute, BoundsAssumption DEF MorningTypes
  <2> QED
    BY <2>1, MomentFields DEF NextMinute, NextDay
<1>2. Now.day = day /\ Now.at = now /\ Now'.day = day' /\ Now'.at = now'
  BY DEF Now
<1> QED
  BY <1>1, <1>2 DEF Precedes

\* Now precedes neither itself nor what never comes.
LEMMA NowNotAhead == ASSUME MorningTypes PROVE ~Precedes(Now, Now) /\ ~Precedes(Now, Never)
<1>1. now \in Nat /\ day \in Nat /\ Now.day = day /\ Now.at = now
  BY MomentFields
<1>2. Never.day = -1
  BY DEF Never
<1> QED
  BY <1>1, <1>2 DEF Precedes
-----------------------------------------------------------------------------
(***************************************************************************)
(* The ticks                                                               *)
(***************************************************************************)
LEMMA PulseTicks == ASSUME MorningTypes, Ticks, TimerPulse PROVE Ticks'
<1>1. running /\ seen' = TRUE /\ now' = now
  BY DEF TimerPulse, clock
<1>2. minute_tick' = now % MinutesPerHour
  BY DEF TimerPulse
<1>3. SeenTick' /\ StaleTick' /\ DoneTick'
  BY <1>1, <1>2 DEF SeenTick, StaleTick, DoneTick
<1>4. repeated' = repeated
  <2>1. CASE minute_tick # now % MinutesPerHour
    <3>1. done = {}
      BY <2>1 DEF Ticks, DoneTick
    <3>2. Execute
      BY <2>1 DEF TimerPulse
    <3>3. ~ \E c \in Due : c.device \in done
      BY <3>1
    <3>4. repeated' = (repeated \/ \E c \in Due : c.device \in done)
      BY <3>2 DEF Execute
    <3> HIDE DEF Due
    <3> QED
      BY <3>3, <3>4 DEF MorningTypes
  <2>2. CASE minute_tick = now % MinutesPerHour
    BY <2>2 DEF TimerPulse, history
  <2> QED
    BY <2>1, <2>2
<1> QED
  BY <1>3, <1>4 DEF Ticks, ExecutedOnce

\* Accepting or generating a list in this minute does not make the program older.
LEMMA AcceptTicks == ASSUME MorningTypes, Ticks, Accept PROVE Ticks'
<1>1. /\ UNCHANGED <<now, day, missed, seen, minute_tick, done, repeated, running, started>>
      /\ accepted' = IF timer_commands_accepted THEN accepted ELSE Now
  BY DEF Accept, clock, history, program
<1>2. RanBefore' => RanBefore
  <2>1. Now' = Now
    BY <1>1 DEF Now
  <2>2. ~Precedes(Now, Now)
    BY NowNotAhead
  <2> QED
    BY <1>1, <2>1, <2>2 DEF RanBefore
<1> QED
  BY <1>1, <1>2 DEF Ticks, SeenTick, StaleTick, DoneTick, ExecutedOnce

\* Generating the list keeps what the tick tells;
LEMMA GenerateTicks == ASSUME MorningTypes, Ticks, Generate PROVE Ticks'
<1>1. /\ UNCHANGED <<now, day, missed, seen, minute_tick, done, repeated, running, started>>
      /\ accepted' = Never
  BY DEF Generate, Build, clock, program
<1>2. RanBefore' => RanBefore
  BY <1>1 DEF RanBefore
<1> QED
  BY <1>1, <1>2 DEF Ticks, SeenTick, StaleTick, DoneTick, ExecutedOnce

\* so does the clock,
LEMMA TimeTicks == ASSUME MorningTypes, Ticks, NextMinute \/ NextDay PROVE Ticks'
<1>1. /\ running' = running /\ minute_tick' = minute_tick /\ repeated' = repeated
      /\ seen' = FALSE /\ missed' = (missed \/ ~seen) /\ done' = {}
  BY DEF NextMinute, NextDay, program
<1>2. now' % MinutesPerHour # now % MinutesPerHour
  <2>1. CASE NextMinute
    BY <2>1, TickOfMinute DEF NextMinute, MorningTypes
  <2>2. CASE NextDay
    BY <2>2, TickOfMinute DEF NextDay
  <2> QED
    BY <2>1, <2>2
<1>3. StaleTick'
  BY <1>1, <1>2 DEF StaleTick, Ticks, SeenTick, MorningTypes
<1> QED
  BY <1>1, <1>3 DEF Ticks, SeenTick, DoneTick, ExecutedOnce

\* and a start.
LEMMA StartTicks == ASSUME MorningTypes, Ticks, Start PROVE Ticks'
<1>1. /\ minute_tick' = 0 /\ seen' = FALSE /\ started' = now /\ accepted' = Never
      /\ done' = {} /\ repeated' = repeated
  BY DEF Start
<1>2. now # NotStarted
  BY TickOfMinute DEF MorningTypes, NotStarted
<1>3. ~RanBefore'
  BY <1>1, <1>2 DEF RanBefore
<1> QED
  BY <1>1, <1>3 DEF Ticks, SeenTick, StaleTick, DoneTick, ExecutedOnce

\* The rest leaves the ticks alone.
LEMMA TicksKept ==
  ASSUME Ticks,
         UNCHANGED <<now, day, missed, seen, minute_tick, done, repeated, started,
                     accepted>>,
         running' => running
  PROVE  Ticks'
<1>1. RanBefore' => RanBefore
  BY DEF RanBefore, Now
<1> QED
  BY <1>1 DEF Ticks, SeenTick, StaleTick, DoneTick, ExecutedOnce

\* Every step keeps the order of the ticks.
LEMMA TicksNext == ASSUME MorningTypes, Ticks, [MorningNext]_morning PROVE Ticks'
<1>1. CASE \E d \in Devices : \E set \in Choices[d] : ChangeSettings(d, set)
  BY <1>1, TicksKept DEF ChangeSettings, clock, list, history, program
<1>2. CASE Stop
  BY <1>2, TicksKept DEF Stop, clock, list, history
<1>3. CASE UNCHANGED morning
  BY <1>3, TicksKept DEF morning
<1> QED
  BY <1>1, <1>2, <1>3, PulseTicks, AcceptTicks, GenerateTicks, TimeTicks, StartTicks
     DEF MorningNext
-----------------------------------------------------------------------------
(***************************************************************************)
(* The list                                                                *)
(***************************************************************************)
LEMMA CommandTimes ==
  ASSUME MorningTypes PROVE \A c \in container_timer_command : c.at \in Nat
<1>1. \A c \in TimerCommands : c.at \in Minutes
  BY DEF TimerCommands
<1>2. \A n \in Minutes : n \in Nat
  BY TickOfMinute
<1> QED
  BY <1>1, <1>2 DEF MorningTypes

\* What a list depends on besides the clock; a list that is gone is sound.
LEMMA ListGone ==
  ASSUME ~was_created_in_this_day', ~timer_commands_accepted', ~Precedes(Now', built'),
         ListBuilt'
  PROVE  Lists'
  BY DEF Lists, NotAhead, AcceptedAfter, CleanedLast, OfDay, DueExecuted

\* A new list is not accepted yet, and of this minute.
LEMMA BuildLists ==
  ASSUME MorningTypes, Build, now' = now, day' = day
  PROVE  Lists'
<1>1. /\ was_created_in_this_day' /\ ~timer_commands_accepted' /\ built' = Now
      /\ Now' = Now
  BY DEF Build, Now
<1>2. ~Precedes(Now, Now) /\ Now.day = day /\ Now = [day |-> day, at |-> now]
  BY NowNotAhead, MomentFields DEF Now
<1> QED
  BY <1>1, <1>2 DEF Lists, NotAhead, AcceptedAfter, CleanedLast, OfDay, OfThisDay,
     ListBuilt, DueExecuted

\* The pulse of a new minute cleans the list in the last one, builds it in the
\* first one, and executes what is due of it.
LEMMA NewMinuteLists ==
  ASSUME MorningTypes, Ticks, Lists, TimerPulse, minute_tick # now % MinutesPerHour
  PROVE  Lists'
<1>1. /\ UNCHANGED <<now, day, missed, running, started>>
      /\ running /\ seen' = TRUE
      /\ RefreshList /\ Execute
  BY DEF TimerPulse, clock, program
<1>2. CASE now = LastMinute /\ was_created_in_this_day
  <2>1. CleanDay
    BY <1>1, <1>2 DEF RefreshList
  <2>2. ~was_created_in_this_day' /\ ~timer_commands_accepted' /\ built' = built
    BY <2>1 DEF CleanDay
  <2>3. ~Precedes(Now', built')
    BY <1>1, <2>2 DEF Lists, NotAhead, Now
  <2>4. ListBuilt'
    BY <1>1, <1>2, TickOfMinute DEF ListBuilt
  <2> QED
    BY <2>2, <2>3, <2>4, ListGone
<1>3. CASE ~(now = LastMinute /\ was_created_in_this_day)
           /\ now = Midnight /\ ~was_created_in_this_day
  <2>1. Build
    BY <1>1, <1>3 DEF RefreshList
  <2> QED
    BY <1>1, <2>1, BuildLists
<1>4. CASE /\ ~(now = LastMinute /\ was_created_in_this_day)
           /\ ~(now = Midnight /\ ~was_created_in_this_day)
  <2>1. UNCHANGED list
    BY <1>1, <1>4 DEF RefreshList
  <2>2. /\ UNCHANGED <<container_timer_command, was_created_in_this_day,
                       timer_commands_accepted, built, accepted>>
        /\ Now' = Now
    BY <1>1, <2>1 DEF list, Now
  <2>3. NotAhead' /\ AcceptedAfter' /\ OfDay'
    BY <1>1, <2>2 DEF Lists, NotAhead, AcceptedAfter, OfDay, OfThisDay
  <2>4. CleanedLast'
    BY <1>1, <1>4, <2>2 DEF CleanedLast
  <2>5. ListBuilt'
    BY <1>1, <1>4, <2>2, TickOfMinute DEF ListBuilt, Lists, MorningTypes, Minutes, Midnight
  <2>6. DueExecuted'
    <3> SUFFICES ASSUME ~missed', was_created_in_this_day', timer_commands_accepted',
                        NEW c \in container_timer_command,
                        Precedes(accepted, [day |-> day, at |-> c.at]),
                        c.at < now \/ c.at = now
                 PROVE  c \in executed'
      BY <1>1, <2>2 DEF DueExecuted
    <3>1. Due \subseteq executed' /\ executed \subseteq executed'
      BY <1>1, <2>2 DEF Execute
    <3>2. CASE c.at = now
      BY <1>1, <2>2, <3>1, <3>2 DEF Due
    <3>3. CASE c.at < now
      BY <1>1, <2>2, <3>1, <3>3 DEF DueExecuted, Lists
    <3> QED
      BY <3>2, <3>3
  <2> QED
    BY <2>3, <2>4, <2>5, <2>6 DEF Lists
<1> QED
  BY <1>2, <1>3, <1>4

\* A later pulse of the same minute, and the first one of a program that was
\* started in the minute 0 of an hour, change nothing.
LEMMA SameMinuteLists ==
  ASSUME MorningTypes, Ticks, Lists, TimerPulse, minute_tick = now % MinutesPerHour
  PROVE  Lists'
<1>1. /\ UNCHANGED <<now, day, missed, running, started, container_timer_command,
                     was_created_in_this_day, timer_commands_accepted, built,
                     accepted, executed>>
      /\ Now' = Now /\ running /\ seen' = TRUE
  BY DEF TimerPulse, clock, program, list, history, Now
<1>2. ~missed /\ ~seen => minute_tick = 0 /\ ~RanBefore
  BY <1>1 DEF Ticks, StaleTick
<1>3. now = LastMinute /\ ~missed => seen
  BY <1>2, TickOfMinute
<1>4. NotAhead' /\ AcceptedAfter' /\ OfDay'
  BY <1>1 DEF Lists, NotAhead, AcceptedAfter, OfDay, OfThisDay
<1>5. CleanedLast'
  BY <1>1, <1>3 DEF Lists, CleanedLast, MorningTypes
<1>6. ListBuilt'
  <2>1. CASE seen
    BY <1>1, <2>1 DEF Lists, ListBuilt
  <2>2. CASE ~seen
    BY <1>1, <1>2, <2>2 DEF ListBuilt, RanBefore
  <2> QED
    BY <2>1, <2>2
<1>7. DueExecuted'
  <2> SUFFICES ASSUME ~missed, was_created_in_this_day, timer_commands_accepted,
                      NEW c \in container_timer_command,
                      Precedes(accepted, [day |-> day, at |-> c.at]),
                      c.at < now \/ c.at = now
               PROVE  c \in executed
    BY <1>1 DEF DueExecuted
  <2>1. CASE c.at < now \/ seen
    BY <2>1 DEF DueExecuted, Lists
  <2>2. CASE c.at = now /\ ~seen
    <3>1. Precedes(accepted, Now)
      BY <2>2 DEF Now
    <3>2. accepted # Never
      BY DEF Lists, AcceptedAfter
    <3> QED
      BY <1>2, <2>2, <3>1, <3>2 DEF RanBefore
  <2> QED
    BY <2>1, <2>2
<1> QED
  BY <1>4, <1>5, <1>6, <1>7 DEF Lists

\* Accepting: what was due before is no command the acceptance comes before.
LEMMA AcceptLists == ASSUME MorningTypes, Lists, Accept PROVE Lists'
<1>1. /\ UNCHANGED <<now, day, missed, seen, running, started, container_timer_command,
                     was_created_in_this_day, built, executed>>
      /\ Now' = Now /\ timer_commands_accepted'
      /\ accepted' = IF timer_commands_accepted THEN accepted ELSE Now
  BY DEF Accept, clock, program, history, Now
<1>2. NotAhead' /\ CleanedLast' /\ OfDay' /\ ListBuilt'
  BY <1>1 DEF Lists, NotAhead, CleanedLast, OfDay, OfThisDay, ListBuilt
<1>3. AcceptedAfter'
  <2>1. Now # Never /\ ~Precedes(Now, built)
    BY NowIsMoment DEF Lists, NotAhead
  <2> QED
    BY <1>1, <2>1 DEF Lists, AcceptedAfter
<1>4. DueExecuted'
  <2>1. CASE timer_commands_accepted
    BY <1>1, <2>1 DEF Lists, DueExecuted
  <2>2. CASE ~timer_commands_accepted
    <3> SUFFICES ASSUME NEW c \in container_timer_command,
                        Precedes(Now, [day |-> day, at |-> c.at]),
                        c.at < now \/ c.at = now
                 PROVE  FALSE
      BY <1>1, <2>2 DEF DueExecuted
    <3>1. now < c.at
      BY MomentFields DEF Precedes
    <3>2. c.at \in Int /\ now \in Int
      BY MomentFields, CommandTimes
    <3> QED
      BY <3>1, <3>2
  <2> QED
    BY <2>1, <2>2
<1> QED
  BY <1>2, <1>3, <1>4 DEF Lists

\* A minute keeps the order of the list;
LEMMA MinuteLists == ASSUME MorningTypes, MorningTypes', Ticks, Lists, NextMinute PROVE Lists'
<1>1. /\ UNCHANGED <<day, running, started, container_timer_command,
                     was_created_in_this_day, timer_commands_accepted, built,
                     accepted, executed>>
      /\ now < LastMinute /\ now' = now + 1 /\ seen' = FALSE
      /\ ~missed' => ~missed /\ seen
  BY DEF NextMinute, program, list
<1>2. NotAhead'
  <2>1. ~Precedes(Now', built)
    BY MomentFields, Later DEF Lists, NotAhead
  <2> QED
    BY <1>1, <2>1 DEF NotAhead
<1>3. AcceptedAfter' /\ CleanedLast'
  BY <1>1 DEF Lists, AcceptedAfter, CleanedLast
<1>4. OfDay'
  BY <1>1 DEF Lists, OfDay, OfThisDay
<1>5. ListBuilt'
  BY <1>1 DEF Lists, ListBuilt
<1>6. DueExecuted'
  <2> SUFFICES ASSUME ~missed', was_created_in_this_day, timer_commands_accepted,
                      NEW c \in container_timer_command,
                      Precedes(accepted, [day |-> day, at |-> c.at]),
                      c.at < now + 1
               PROVE  c \in executed
    BY <1>1 DEF DueExecuted
  <2>1. c.at \in Int /\ now \in Int
    BY MomentFields, CommandTimes
  <2>2. c.at < now \/ c.at = now
    BY <2>1
  <2> QED
    BY <1>1, <2>2 DEF Lists, DueExecuted
<1> QED
  BY <1>2, <1>3, <1>4, <1>5, <1>6 DEF Lists

\* so does a day,
LEMMA DayLists == ASSUME MorningTypes, MorningTypes', Ticks, Lists, NextDay PROVE Lists'
<1>1. /\ UNCHANGED <<running, container_timer_command,
                     was_created_in_this_day, timer_commands_accepted, built,
                     accepted>>
      /\ now = LastMinute /\ now' = Midnight /\ day' = day + 1 /\ seen' = FALSE
      /\ ~missed' => ~missed /\ seen
  BY DEF NextDay, list
<1>2. NotAhead'
  <2>1. ~Precedes(Now', built)
    BY MomentFields, Later DEF Lists, NotAhead
  <2> QED
    BY <1>1, <2>1 DEF NotAhead
<1>3. AcceptedAfter' /\ CleanedLast'
  BY <1>1 DEF Lists, AcceptedAfter, CleanedLast
<1>4. OfDay'
  <2> SUFFICES ASSUME ~missed', running, was_created_in_this_day
               PROVE  built.day = day' - 1 /\ built.at = LastMinute
    BY <1>1 DEF OfDay, OfThisDay
  <2>1. built = [day |-> day, at |-> LastMinute]
    BY <1>1 DEF Lists, CleanedLast
  <2> QED
    BY <1>1, <2>1, MomentFields
<1>5. ListBuilt'
  BY <1>1 DEF ListBuilt, Midnight
<1>6. DueExecuted'
  <2> SUFFICES ASSUME NEW c \in container_timer_command, c.at < Midnight
               PROVE  FALSE
    BY <1>1 DEF DueExecuted
  <2>1. c.at \in Nat
    BY CommandTimes
  <2> QED
    BY <2>1 DEF Midnight
<1> QED
  BY <1>2, <1>3, <1>4, <1>5, <1>6 DEF Lists

\* and a start.
LEMMA StartLists == ASSUME MorningTypes, MorningTypes', Start PROVE Lists'
<1>1. /\ built' = Never /\ ~was_created_in_this_day' /\ ~timer_commands_accepted'
      /\ started' = now /\ Now' = Now
  BY DEF Start, clock, Now
<1>2. ~Precedes(Now', built')
  BY <1>1, NowNotAhead
<1>3. started' # NotStarted
  BY <1>1, TickOfMinute DEF MorningTypes, NotStarted
<1> QED
  BY <1>1, <1>2, <1>3, ListGone DEF ListBuilt

\* The rest leaves the list and the clock alone.
LEMMA ListsKept ==
  ASSUME Lists,
         UNCHANGED <<now, day, missed, seen, started, container_timer_command,
                     was_created_in_this_day, timer_commands_accepted, built,
                     accepted, executed>>,
         running' => running
  PROVE  Lists'
<1>1. Now' = Now
  BY DEF Now
<1> QED
  BY <1>1 DEF Lists, NotAhead, AcceptedAfter, CleanedLast, OfDay, OfThisDay, ListBuilt,
     DueExecuted

\* Every step keeps the order of the list.
LEMMA ListsNext == ASSUME MorningTypes, MorningTypes', Ticks, Lists, [MorningNext]_morning PROVE Lists'
<1>1. CASE \E d \in Devices : \E set \in Choices[d] : ChangeSettings(d, set)
  BY <1>1, ListsKept DEF ChangeSettings, clock, list, history, program
<1>2. CASE Stop
  BY <1>2, ListsKept DEF Stop, clock, list, history
<1>3. CASE UNCHANGED morning
  BY <1>3, ListsKept DEF morning
<1>4. CASE TimerPulse
  BY <1>4, NewMinuteLists, SameMinuteLists
<1>5. CASE Generate
  BY <1>5, BuildLists DEF Generate, clock
<1> QED
  BY <1>1, <1>2, <1>3, <1>4, <1>5, AcceptLists, MinuteLists, DayLists, StartLists
     DEF MorningNext
-----------------------------------------------------------------------------
(***************************************************************************)
(* The theorems                                                            *)
(***************************************************************************)
LEMMA InvInit == MorningInit => MorningInv
<1> SUFFICES ASSUME MorningInit PROVE MorningInv
  OBVIOUS
<1>1. IsSaved(file) /\ settings = [d \in Devices |-> Loaded(file, d)]
  BY ConfigIsSaved DEF MorningInit
<1>2. settings \in [Devices -> StartSettings]
  BY <1>1, LoadedSettings
<1>3. MorningTypes
  <2>1. day \in 0 .. MaxDays /\ starts \in 0 .. MaxStarts
    BY BoundsAssumption DEF MorningInit
  <2>2. minute_tick \in 0 .. MinutesPerHour - 1
    BY TickOfMinute DEF MorningInit
  <2>3. Len(file) = Len(Config)
    BY <1>1 DEF IsSaved
  <2> QED
    BY <1>2, <2>1, <2>2, <2>3 DEF MorningInit, MorningTypes
<1>4. SavedSettings
  BY <1>1 DEF SavedSettings
<1>5. Ticks
  <2>1. ~RanBefore
    BY DEF MorningInit, RanBefore
  <2> QED
    BY <2>1 DEF MorningInit, Ticks, SeenTick, StaleTick, DoneTick, ExecutedOnce
<1>6. Lists
  <2>1. NotAhead
    BY <1>3, NowNotAhead DEF MorningInit, NotAhead
  <2> QED
    BY <2>1 DEF MorningInit, Lists, AcceptedAfter, CleanedLast, OfDay, ListBuilt, DueExecuted
<1> QED
  BY <1>1, <1>3, <1>4, <1>5, <1>6 DEF MorningInv

\* Every step keeps the invariant.
LEMMA InvNext == MorningInv /\ [MorningNext]_morning => MorningInv'
<1> SUFFICES ASSUME MorningInv, [MorningNext]_morning PROVE MorningInv'
  OBVIOUS
<1>1. MorningTypes /\ IsSaved(file) /\ SavedSettings /\ Ticks /\ Lists
  BY DEF MorningInv
<1>2. MorningTypes'
  BY <1>1, TypeNext
<1>3. IsSaved(file)' /\ SavedSettings'
  BY <1>1, FileNext
<1>4. Ticks'
  BY <1>1, TicksNext
<1>5. Lists'
  BY <1>1, <1>2, ListsNext
<1> QED
  BY <1>2, <1>3, <1>4, <1>5 DEF MorningInv

\* The inductive invariant: the types; the file is Config but for the start
\* settings; the tick tells whether a pulse of this minute was handled; the list
\* and its acceptance are in their order.
THEOREM MorningInvHolds == MorningSpec => []MorningInv
  BY InvInit, InvNext, PTL DEF MorningSpec

\* Each day has its list, every accepted command of it is executed in its minute,
\* and none twice, whatever the dispatcher, the clock and the restarts do.
THEOREM ListIsKept == MorningSpec => []ListKept
<1>1. MorningInv => ListKept
  BY DEF MorningInv, Ticks, Lists, ListKept
<1> QED
  BY <1>1, MorningInvHolds, PTL

\* A start brings back what was saved, however far a failed saving came, and the
\* file stays one the program loads unless the dispatcher chose the hour 0.
THEOREM SettingsAreKept == MorningSpec => []SettingsKept
<1>1. MorningInv => SettingsKept
  BY SavedLoads DEF MorningInv, SavedSettings, SettingsKept
<1> QED
  BY <1>1, MorningInvHolds, PTL

\* Nothing is executed of a list that was not accepted after it was built, nor of
\* a list of an earlier day.
THEOREM AcceptedBeforeExecuted == MorningSpec => AcceptedThisList
<1>1. ASSUME MorningInv, [MorningNext]_morning, done' \ done # {}
      PROVE  /\ built' # Never /\ ~Precedes(accepted', built')
             /\ ~missed => OfThisDay(built')
  <2>1. TimerPulse /\ minute_tick # now % MinutesPerHour
    <3>1. ~(done' \subseteq done)
      BY <1>1
    <3>2. CASE TimerPulse
      BY <3>1, <3>2 DEF TimerPulse, history
    <3>3. CASE \E d \in Devices : \E set \in Choices[d] : ChangeSettings(d, set)
      BY <3>1, <3>3 DEF ChangeSettings, history
    <3> QED
      BY <1>1, <3>1, <3>2, <3>3
         DEF MorningNext, morning, Accept, Generate, NextMinute, NextDay, Stop, Start, history
  <2>2. RefreshList /\ Execute /\ running
    BY <2>1 DEF TimerPulse
  <2>3. Due # {}
    BY <1>1, <2>2 DEF Execute
  <2>4. was_created_in_this_day' /\ timer_commands_accepted'
    BY <2>3 DEF Due
  <2>5. UNCHANGED list
    BY <2>2, <2>4 DEF RefreshList, CleanDay, Build
  <2>6. /\ was_created_in_this_day /\ timer_commands_accepted
        /\ built' = built /\ accepted' = accepted
    BY <2>4, <2>5 DEF list
  <2>7. /\ built # Never /\ ~Precedes(accepted, built)
        /\ ~missed => OfThisDay(built)
    BY <1>1, <2>2, <2>6 DEF MorningInv, MorningTypes, Lists, AcceptedAfter, OfDay
  <2> QED
    BY <2>6, <2>7 DEF OfThisDay
<1>2. MorningInv /\ [MorningNext]_morning
        => [done' \ done # {}
              => /\ built' # Never /\ ~Precedes(accepted', built')
                 /\ ~missed => OfThisDay(built')]_morning
  BY <1>1
<1> QED
  BY <1>2, MorningInvHolds, PTL DEF MorningSpec, AcceptedThisList
=============================================================================
