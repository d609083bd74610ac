--------------------------- MODULE GatewayMessages ---------------------------
(***************************************************************************)
(* The messages the station's gateway makes itself: for the remote control *)
(* of an older escalator (metro_udku) and for the power cabinet            *)
(* (metro_shavr), which send signals only.  Each decoded answer of the     *)
(* serial line is compared with the one before it, and the differences go  *)
(* to the fifo that MessageRing carries to the spider.                     *)
(*                                                                         *)
(* Both devices hang on one serial line and live in one process; a step of *)
(* the line's thread and putting a command are under the device's transfer *)
(* mutex (see StationGateway) and so single actions.  A message is what it *)
(* is about and what it says of it.                                        *)
(***************************************************************************)
EXTENDS Integers, FiniteSetsExt

CONSTANTS Conditions,   \* values of the low byte of register 30001
          Circuits,     \* block circuits, by the index of their names
          VT,           \* the one that is looked at last
          Supplies,     \* the cabinet's inputs under voltage: A0_x3, A0_x4
          Lines,        \* its lines to the escalators: A0_x10 .. A0_x17
          Alarms,       \* its door and fire alarms: A1_x3, A2_x3, A3_x3
          Commands      \* commands to either device

Quiet == {"GPUP", "GPDOWN", "UNKNOWN"}     \* conditions that are not told
Inputs == {"input 1", "input 2"}

ASSUME ConditionsAssumption == "NONE" \notin Conditions
ASSUME CircuitsAssumption == Circuits \subseteq 1 .. 20 /\ VT \in Circuits
ASSUME SignalsAssumption ==
  /\ Supplies \subseteq Inputs
  /\ Inputs \cap (Lines \cup Alarms) = {} /\ Lines \cap Alarms = {}
  /\ "none" \notin Lines \cup Alarms

Devices == {"udku", "shavr"}
PollRequest == "poll"

\* The initial -1 of the previos_ values, and no signals of the cabinet.
NotPolled == [condition |-> "NONE", rkp |-> FALSE, tu |-> FALSE, rg2 |-> FALSE]
NoSignals == {"none"}

\* One answer of an UDKU: what the messages are made of.
Signals == [condition : Conditions, rkp : BOOLEAN, contactor : {"UP", "DOWN", "NONE"},
            tu : BOOLEAN, rg2 : BOOLEAN, open : SUBSET Circuits]

VARIABLES
  request,                           \* of each device: the poll or a command
  previos,                           \* udku: what it keeps of the last answer
  last_broken_block_circuit_index,   \* udku
  A0_state, A0_x1, A0_x2,            \* shavr: its automaton, and
  on,                                \* its signals that are on
  polled,          \* history: the last answer decoded since the start
  heard,           \* history: what the first answer and the messages since
                   \* then tell of each device
  news,            \* history: the messages of the last step
  cause,           \* history: circuit of the last message NOT_READY
  interrupted      \* history: no answer of the cabinet since the start, or
                   \* since one that was not its signals

udku == <<previos, last_broken_block_circuit_index>>
shavr == <<A0_state, A0_x1, A0_x2, on>>
decoded == <<polled, heard, cause, interrupted>>
messagesVars == <<request, udku, shavr, decoded, news>>
-----------------------------------------------------------------------------
(***************************************************************************)
(* metro_udku                                                              *)
(***************************************************************************)
Tell(condition, about, says) ==
  IF condition THEN {[about |-> about, says |-> says]} ELSE {}

\* The circuit that is open, VT only when no other is; 0 is the name ERROR.
find_block_circuit_index(open) ==
  IF open = {} THEN 0
  ELSE IF open = {VT} THEN VT ELSE Min(open \ {VT})

RememberBroken(s) ==
  IF previos # NotPolled /\ previos.rg2 /\ ~s.rg2
  THEN find_block_circuit_index(s.open) ELSE last_broken_block_circuit_index

\* The messages of an answer, each about something else: none of the first.
UdkuNews(s) ==
  IF previos = NotPolled THEN {}
  ELSE UNION {
    Tell(s.condition \notin Quiet /\ s.condition # previos.condition,
         "condition", s.condition),
    Tell(s.tu /\ s.rkp /\ ~previos.rkp /\ s.contactor # "NONE",
         "start", s.contactor),
    Tell(s.tu # previos.tu, "tu", s.tu),
    Tell(previos.rg2 /\ ~s.rg2, "broken", find_block_circuit_index(s.open)),
    Tell(~previos.rg2 /\ s.rg2, "ready", last_broken_block_circuit_index)}

Kept(s) == [condition |-> s.condition, rkp |-> s.rkp, tu |-> s.tu, rg2 |-> s.rg2]

\* What is heard of the UDKU after an answer's messages.
Says(messages, about, before) ==
  IF \E m \in messages : m.about = about
  THEN (CHOOSE m \in messages : m.about = about).says ELSE before

HearUdku(known, messages) ==
  [condition |-> Says(messages, "condition", known.condition),
   tu |-> Says(messages, "tu", known.tu),
   rg2 |-> IF \E m \in messages : m.about = "broken" THEN FALSE
           ELSE known.rg2 \/ \E m \in messages : m.about = "ready",
   circuit |-> Says(messages, "ready", Says(messages, "broken", known.circuit))]

FirstHeard(s) == [condition |-> s.condition, tu |-> s.tu, rg2 |-> s.rg2, circuit |-> 0]

\* create_answer_to_socket_func_4
DecodeUdku(s) ==
  /\ previos' = Kept(s)
  /\ last_broken_block_circuit_index' = RememberBroken(s)
  /\ polled' = [polled EXCEPT !.udku = Kept(s)]
  /\ heard' = [heard EXCEPT !.udku =
       IF polled.udku = NotPolled THEN FirstHeard(s)
       ELSE HearUdku(@, UdkuNews(s))]
  /\ news' = UdkuNews(s)
  /\ cause' = IF polled.udku # NotPolled /\ polled.udku.rg2 /\ ~s.rg2
              THEN find_block_circuit_index(s.open) ELSE cause
  /\ UNCHANGED <<shavr, interrupted>>
-----------------------------------------------------------------------------
(***************************************************************************)
(* metro_shavr                                                             *)
(***************************************************************************)
StateOf(supplies) ==
  IF supplies = Inputs THEN "ENABLED_1_ENABLED_2"
  ELSE IF supplies = {"input 1"} THEN "ENABLED_1_DISABLED_2"
  ELSE IF supplies = {"input 2"} THEN "DISABLED_1_ENABLED_2"
  ELSE "DISABLED_1_DISABLED_2"

States == {StateOf(supplies) : supplies \in SUBSET Inputs} \cup {"OFFLINE", "EXCEPTION"}

\* A0 with event 7; nobody gives it the event 1.
A0(x1, x2, supplies) ==
  IF ~x1 THEN "OFFLINE" ELSE IF ~x2 THEN "EXCEPTION" ELSE StateOf(supplies)

\* The messages of an answer: a line's both ways, an alarm's beginning only.
\* None of the first answer after the start or after an exception.
Changes(now) ==
  {[about |-> l, says |-> l \in now] :
     l \in {k \in Supplies \cup Lines : (k \in now) # (k \in on)}}
  \cup {[about |-> l, says |-> TRUE] : l \in (Alarms \cap now) \ on}

\* Mutation: the state after the answer decides.
ShavrNewsOfNew(now) ==
  IF A0(TRUE, TRUE, now \cap Supplies) \in {"OFFLINE", "EXCEPTION"}
  THEN {} ELSE Changes(now)

ShavrNews(now) ==
  IF A0_state \in {"OFFLINE", "EXCEPTION"} THEN {} ELSE Changes(now)

\* What is heard of the cabinet after messages about different signals.
HearShavr(known, messages) ==
  (known \ {m.about : m \in {n \in messages : ~n.says}})
    \cup {m.about : m \in {n \in messages : n.says}}

\* create_answer_to_socket_func_4
DecodeShavr(now) ==
  /\ A0_x1' = TRUE /\ A0_x2' = TRUE
  /\ A0_state' = A0(TRUE, TRUE, now \cap Supplies)
  /\ on' = now
  /\ polled' = [polled EXCEPT !.shavr = now]
  /\ heard' = [heard EXCEPT !.shavr =
       IF interrupted THEN now
       ELSE HearShavr(@ \ (Alarms \ now), ShavrNews(now))]
  /\ news' = ShavrNews(now)
  /\ interrupted' = FALSE
  /\ UNCHANGED <<udku, cause>>

\* An answer of another size, as a counter's is: A0_x1 may still be undefined.
DecodeOtherSize ==
  /\ A0_x2' = FALSE
  /\ A0_state' = IF A0_state = "OFFLINE" /\ ~A0_x1 THEN "OFFLINE"
                 ELSE "EXCEPTION"
  /\ interrupted' = TRUE
  /\ news' = {}
  /\ UNCHANGED <<udku, A0_x1, on, polled, heard, cause>>
-----------------------------------------------------------------------------
(***************************************************************************)
(* The process                                                             *)
(***************************************************************************)

\* The objects as they are constructed; x1 of the cabinet and its signals
\* have no initial value.
Constructed ==
  /\ request' = [d \in Devices |-> PollRequest]
  /\ previos' = NotPolled /\ last_broken_block_circuit_index' = 0
  /\ A0_state' = "OFFLINE" /\ A0_x1' \in BOOLEAN /\ A0_x2' \in BOOLEAN
  /\ on' \in {s \cup l : s \in SUBSET Supplies, l \in SUBSET Lines}
  /\ polled' = [udku |-> NotPolled, shavr |-> NoSignals]
  /\ heard' = [udku |-> FirstHeard(NotPolled), shavr |-> NoSignals]
  /\ news' = {} /\ cause' = 0 /\ interrupted' = TRUE

\* put_command_request_from_socket: the command's receipt is told at once.
PutCommand(d, c) ==
  /\ request' = [request EXCEPT ![d] = c]
  /\ news' = Tell(TRUE, "command", c)
  /\ UNCHANGED <<udku, shavr, decoded>>

\* The line's thread sends a command: its echo, an error or silence changes
\* nothing here, and the poll comes next.
ExchangeCommand(d) ==
  /\ request[d] # PollRequest
  /\ request' = [request EXCEPT ![d] = PollRequest]
  /\ news' = {}
  /\ UNCHANGED <<udku, shavr, decoded>>

\* A poll of the UDKU that is answered; silence, an error and an answer of
\* another size only make an error for the spider.
PollUdku ==
  /\ request["udku"] = PollRequest
  /\ \E s \in Signals : DecodeUdku(s)
  /\ UNCHANGED request

\* A poll of the cabinet is three requests, the last two to its counters.
\* Only those that are answered are passed on, and the first of them is taken
\* for the signals.  When none is, or it is an error, nothing is decoded.
PollShavr(first) ==
  /\ request["shavr"] = PollRequest
  /\ IF first = 1
     THEN \E now \in SUBSET (Supplies \cup Lines \cup Alarms) : DecodeShavr(now)
     ELSE DecodeOtherSize
  /\ UNCHANGED request

\* The answer of a cabinet one of whose counters is silent is read beyond the
\* end of the container: it may end the process.
EndWithCounter ==
  /\ request["shavr"] = PollRequest
  /\ Constructed

MessagesInit ==
  /\ request = [d \in Devices |-> PollRequest]
  /\ previos = NotPolled /\ last_broken_block_circuit_index = 0
  /\ A0_state = "OFFLINE" /\ A0_x1 \in BOOLEAN /\ A0_x2 \in BOOLEAN
  /\ on \in {s \cup l : s \in SUBSET Supplies, l \in SUBSET Lines}
  /\ polled = [udku |-> NotPolled, shavr |-> NoSignals]
  /\ heard = [udku |-> FirstHeard(NotPolled), shavr |-> NoSignals]
  /\ news = {} /\ cause = 0 /\ interrupted = TRUE

MessagesNext ==
  \/ \E d \in Devices, c \in Commands : PutCommand(d, c)
  \/ \E d \in Devices : ExchangeCommand(d)
  \/ PollUdku
  \/ \E first \in 1 .. 2 : PollShavr(first)
  \/ EndWithCounter

MessagesSpec == MessagesInit /\ [][MessagesNext]_messagesVars
-----------------------------------------------------------------------------
(***************************************************************************)
(* Properties                                                              *)
(***************************************************************************)

\* Types of the variables.
KeptSignals == [condition : Conditions, rkp : BOOLEAN, tu : BOOLEAN, rg2 : BOOLEAN]
CircuitNames == Circuits \cup {0}

MessagesTypeOK ==
  /\ request \in [Devices -> Commands \cup {PollRequest}]
  /\ previos = NotPolled \/ previos \in KeptSignals
  /\ {last_broken_block_circuit_index, cause} \subseteq CircuitNames
  /\ A0_state \in States /\ A0_x1 \in BOOLEAN /\ A0_x2 \in BOOLEAN
  /\ on \subseteq Supplies \cup Lines \cup Alarms
  /\ interrupted \in BOOLEAN

\* The first answer after a start, changed by every message given since then,
\* is the last answer: the switch, the readiness and a condition that has a
\* message.  Silence, errors and commands in between lose no change.
UdkuHeard ==
  polled.udku # NotPolled =>
    /\ heard.udku.tu = polled.udku.tu
    /\ heard.udku.rg2 = polled.udku.rg2
    /\ polled.udku.condition \notin Quiet =>
         heard.udku.condition = polled.udku.condition

\* READY names the circuit that the message NOT_READY before it named, or the
\* name ERROR when the gateway started with the circuit open.
CircuitNamed ==
  polled.udku # NotPolled /\ heard.udku.rg2 => heard.udku.circuit = cause

\* So is the cabinet heard of, from the first answer after a start or after an
\* exception on; what changed during an exception is never told.
ShavrHeard == polled.shavr # NoSignals => heard.shavr = polled.shavr

\* The cabinet's automaton shows the supplies of the last answer, unless that
\* was not its signals.
StateShown ==
  A0_state # "OFFLINE" /\ ~interrupted => A0_state = StateOf(polled.shavr \cap Supplies)

ChangesHeard == MessagesTypeOK /\ UdkuHeard /\ CircuitNamed /\ ShavrHeard /\ StateShown

\* A message is about a difference between two answers that the same process
\* decoded: none is made of values the device did not give.
Differs(m) ==
  \/ m.about = "command"
  \/ /\ polled'.udku # polled.udku /\ polled.udku # NotPolled
     /\ CASE m.about = "condition" -> polled.udku.condition # polled'.udku.condition
          [] m.about = "start" -> polled.udku.rkp # polled'.udku.rkp
          [] m.about = "tu" -> polled.udku.tu # polled'.udku.tu
          [] m.about \in {"broken", "ready"} -> polled.udku.rg2 # polled'.udku.rg2
          [] OTHER -> FALSE
  \/ /\ polled'.shavr # polled.shavr /\ polled.shavr # NoSignals
     /\ (m.about \in polled.shavr) # (m.about \in polled'.shavr)

OnlyDifferences == [][\A m \in news' : news' # news => Differs(m)]_messagesVars
=============================================================================
