-------------------------------- MODULE Udku --------------------------------
(***************************************************************************)
(* The remote control of the older escalators, class metro_udku.  Its      *)
(* automaton and its widget are those of an escalator, so that esc is a    *)
(* UDKU here.  What differs is how an answer is stored - motion,           *)
(* contactors and block circuit are separate signals -, that every answer  *)
(* but an error clears the counter of lost answers and ends an exception,  *)
(* and what a switched-off conduction lets through.  Its line is mixed.    *)
(* What it tells the door of its machine hall is in MachineHall.           *)
(***************************************************************************)
EXTENDS EscalatorAutomaton

VARIABLES
  conduction_is_switched_off,
  driven                           \* history: the contactor in the last answer

\* What the automaton of an escalator does not have.
kept == <<driven, conduction_is_switched_off>>
udkuVars == <<vars, kept>>
-----------------------------------------------------------------------------
(***************************************************************************)
(* The automaton: metro_udku::A0                                           *)
(***************************************************************************)
Reconnected(a) == IF a.state = "OFFLINE" THEN FromOffline(a) ELSE FromException(a)

UdkuTarget(a, event) ==
  IF ~a.x5 THEN "OFFLINE"
  ELSE IF ~a.x6 THEN "EXCEPTION"
  ELSE IF a.state \in {"OFFLINE", "EXCEPTION"} THEN Reconnected(a)
  ELSE InContact(a, event)

UdkuA0(a, event) ==
  IF UdkuTarget(a, event) = a.state THEN a
  ELSE Enter(a, UdkuTarget(a, event), event, pref_direction)
-----------------------------------------------------------------------------
(***************************************************************************)
(* Answers                                                                 *)
(***************************************************************************)

\* Registers 30007 and 30008: relay RKP, the contactors, the control switch
\* and the block circuit.
Signals == [rkp : BOOLEAN, contactor : Motions \cup {"NO"}, tu : BOOLEAN,
            circuit : BOOLEAN]

\* Mutation: the contactors are read in motion only.
StoreInMotion(a, p) ==
  [a EXCEPT !.x0 = p.rkp,
            !.x1 = IF p.contactor = "NO" \/ ~a.x0 THEN @ ELSE p.contactor,
            !.x3 = p.tu,
            !.x4 = p.circuit]

\* The direction follows the contactors whether the escalator moves or not.
StoreSignals(a, p) ==
  [a EXCEPT !.x0 = p.rkp,
            !.x1 = IF p.contactor = "NO" THEN @ ELSE p.contactor,
            !.x3 = p.tu,
            !.x4 = p.circuit]

\* No answer, or a Modbus error: as an escalator's.
UdkuDecodeEmpty == DecodeEmpty /\ UNCHANGED kept
UdkuDecodeError == DecodeError /\ UNCHANGED kept

\* A0(7) with the new inputs; on the switch to remote control the preferred
\* direction replaces that of the contactors.
Refreshed(p) ==
  ShowPreferred(UdkuA0(StoreSignals(Contact(esc), p), EventData),
                esc.x3, pref_direction)

\* metro_udku::update_device_widget draws as an escalator's does.
UdkuRedraw == RedrawDecoded

\* The echo of a write is no error, so it ends an exception and clears the
\* counter, though it has no state: the inputs of the last state stay.
UdkuDecodeEcho ==
  /\ esc' = ShowPreferred(UdkuA0(Contact(esc), EventData), esc.x3, pref_direction)
  /\ last_failures_count' = 0 /\ misses' = 0
  /\ synced' = TRUE
  /\ UdkuRedraw
  /\ UNCHANGED <<pref_direction, request_for_send_to_device, link, kept>>

\* The history forgets the contactor when the preferred direction is shown.
DecodeSignals(p) ==
  /\ esc' = Refreshed(p)
  /\ last_failures_count' = 0 /\ misses' = 0
  /\ synced' = TRUE
  /\ UdkuRedraw
  /\ driven' = IF ~esc.x3 /\ p.tu /\ pref_direction # "REVERSE" THEN "NO"
               ELSE p.contactor
  /\ UNCHANGED <<pref_direction, request_for_send_to_device, link,
                 conduction_is_switched_off>>

\* The decoding threw before the inputs were stored (another request's
\* answer, message registers out of range) or after (an unknown message).
UdkuDecodeThrown(p, stored) ==
  /\ esc' = IF stored THEN StoreSignals(Contact(esc), p) ELSE Contact(esc)
  /\ last_failures_count' = 0 /\ misses' = 0
  /\ synced' = FALSE
  /\ fresh' = FALSE
  /\ driven' = IF stored THEN p.contactor ELSE driven
  /\ UNCHANGED <<pref_direction, request_for_send_to_device, widget, link,
                 conduction_is_switched_off>>
-----------------------------------------------------------------------------
(***************************************************************************)
(* The dispatcher                                                          *)
(***************************************************************************)

\* Mutation: a stop is let through as well.
RefusesStarts(c) == conduction_is_switched_off /\ c \notin {"ACCEPT", "STOP"}

\* With conduction off ACCEPT alone is let through.
Refuses(c) == conduction_is_switched_off /\ c # "ACCEPT"

UdkuSendCommand(c) ==
  /\ ~Refuses(c)
  /\ esc' = UdkuA0(UdkuA0(esc, EventOf(c)), EventData)
  /\ request_for_send_to_device' =
       IF c \in Movements THEN c ELSE request_for_send_to_device
  /\ Redraw(esc', esc'.state # esc.state)
  /\ UNCHANGED <<pref_direction, last_failures_count, misses, synced, link,
                 kept>>

UdkuNetworkTakes == NetworkTakes /\ UNCHANGED kept
UdkuDelayPasses == DelayPasses /\ UNCHANGED kept
UdkuSetPrefDirection(d) ==
  /\ SetPrefDirection(d)
  /\ driven' = "NO"
  /\ UNCHANGED conduction_is_switched_off

\* apply_sending_commands: the dispatcher takes or gives up conduction.
SwitchConduction ==
  /\ conduction_is_switched_off' = ~conduction_is_switched_off
  /\ UNCHANGED <<vars, driven>>
-----------------------------------------------------------------------------
\* The constructor leaves x0, x3, x4 and x6 uninitialised.
UdkuInit ==
  /\ pref_direction \in Prefs
  /\ esc \in [state : {"OFFLINE"}, x0 : BOOLEAN, x1 : {pref_direction},
              x2 : {TRUE}, x3 : BOOLEAN, x4 : BOOLEAN, x5 : {FALSE},
              x6 : BOOLEAN, x8 : {FALSE}, previous_direction : {pref_direction}]
  /\ last_failures_count = 0 /\ misses = 0
  /\ conduction_is_switched_off \in BOOLEAN
  /\ request_for_send_to_device = "none"
  /\ link = "mixed"
  /\ widget = [image |-> "OFFLINE", arrow |-> "NONE"]
  /\ synced = TRUE /\ fresh = TRUE /\ driven = "NO"

UdkuNext ==
  \/ UdkuDecodeEmpty \/ UdkuDecodeError \/ UdkuDecodeEcho
  \/ \E p \in Signals : DecodeSignals(p)
  \/ \E p \in Signals, stored \in BOOLEAN : UdkuDecodeThrown(p, stored)
  \/ \E c \in Commands : UdkuSendCommand(c)
  \/ UdkuNetworkTakes \/ SwitchConduction \/ UdkuDelayPasses
  \/ \E d \in Prefs : UdkuSetPrefDirection(d)

UdkuSpec == UdkuInit /\ [][UdkuNext]_udkuVars
-----------------------------------------------------------------------------
(***************************************************************************)
(* Properties                                                              *)
(***************************************************************************)

\* Types of the variables.
UdkuTypeOK ==
  /\ TypeOK
  /\ conduction_is_switched_off \in BOOLEAN /\ driven \in Motions \cup {"NO"}

\* A moving escalator is shown in the direction of the contactor its last
\* answer had.  Only the switch to remote control and the properties dialog
\* put the preferred direction in its place, until the next answer.
ShownAsDriven ==
  esc.state = "RUN" /\ synced /\ driven # "NO" => esc.x1 = driven

\* Nothing but ACCEPT reaches a UDKU whose conduction is switched off: no
\* movement enters its slot and it is never shown starting or stopping anew.
OffNeverMoves ==
  [][conduction_is_switched_off
     => /\ request_for_send_to_device' \in {request_for_send_to_device, "none"}
        /\ esc'.state \in {"STARTING", "STOPPING"} => esc'.state = esc.state]_udkuVars

\* What moves a UDKU: the documented diagram of the escalator, a loss only after
\* RECONNECTS_TO_DEVICE_COUNT + 2 misses in a row - the echo of a write ends the
\* row, as any other answer does -, and nothing new while it is switched off.
MovesByRule == OffNeverMoves /\ LostOnlyAfterMisses /\ FollowsDiagram

\* What the dispatcher sees is what the last whole answer said: the state is the
\* one the inputs describe, although relay, contactors and block circuit come and
\* go independently of each other, and the image is that of the automaton.
ShownRight == UdkuTypeOK /\ StateAgrees /\ ScreenCurrent /\ ShownAsDriven
=============================================================================
