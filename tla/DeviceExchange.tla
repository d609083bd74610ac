--------------------------- MODULE DeviceExchange ---------------------------
(***************************************************************************)
(* The exchange of one device with its station: the device's own network   *)
(* thread (metro_device_thread) and the Photon thread, which share three   *)
(* buffers and a flag, each under a mutex of its own.  An action of either *)
(* thread is what it does between two lock operations, so the             *)
(* interleavings are those of the locks.                                   *)
(*                                                                         *)
(* A request is the poll of the registers, the setting of the device's     *)
(* clock, or one of the dispatcher's commands; an answer is named by the   *)
(* request it answers, and "none" is the empty buffer.                     *)
(***************************************************************************)
EXTENDS Integers, Sequences

CONSTANTS ReconnectsCount,  \* failures in a row that end a connection
          MaxCommands,      \* bound: commands of a behaviour
          MaxTimeSets,      \* bound: settings of the clock asked for
          MaxPulses,        \* bound: pulses not yet handled
          MaxLate           \* bound: requests not yet answered

ASSUME ReconnectsAssumption == ReconnectsCount \in Nat \ {0}
ASSUME BoundsAssumption == /\ MaxCommands \in Nat /\ MaxTimeSets \in Nat
                           /\ MaxPulses \in Nat \ {0} /\ MaxLate \in Nat

Poll == [kind |-> "poll", number |-> 0]
Time == [kind |-> "time", number |-> 0]
NoBuffer == [kind |-> "none", number |-> 0]
Command(n) == [kind |-> "command", number |-> n]
CommandRequests == {Command(n) : n \in 1 .. MaxCommands}
Requests == {Poll, Time} \cup CommandRequests

VARIABLES
  request_for_send_to_device, \* shared: the slot of the next request
  current_request_to_device,  \* shared: the request last given to the thread
  answer_from_device,         \* shared: the last answer
  must_set_time,              \* shared: the flag
  pulses,                     \* pulses sent to the Photon thread
  pc, request_to_device, received, connect_faliures_count,  \* the device's thread
  ui, handled, decoded,       \* the Photon thread: its step, the answer it
                              \* handles, and what it last made of one
  pending,                    \* the connection: requests not yet answered
  link,                       \* environment: behaviour of the line
  given, times,               \* history: commands given, settings asked for
  sent,                       \* history: commands given to the socket
  overwritten                 \* history: commands replaced by the thread

vars == <<request_for_send_to_device, current_request_to_device,
          answer_from_device, must_set_time, pulses, pc, request_to_device,
          received, connect_faliures_count, ui, handled, decoded, pending,
          link, given, times, sent, overwritten>>

shared == <<request_for_send_to_device, current_request_to_device,
            answer_from_device, must_set_time>>
thread == <<request_to_device, received, connect_faliures_count>>
photon == <<ui, handled, decoded>>
history == <<given, times, sent, overwritten>>
-----------------------------------------------------------------------------
(***************************************************************************)
(* metro_device_thread                                                     *)
(***************************************************************************)

\* A connection that cannot be made counts as given up at once: the answer is
\* emptied, and emptied again with the pulse.
Connect ==
  /\ pc = "connect"
  /\ \/ /\ link # "silent"
        /\ connect_faliures_count' = 0
        /\ pc' = "take"
        /\ UNCHANGED answer_from_device
     \/ /\ link # "good"
        /\ connect_faliures_count' = ReconnectsCount
        /\ answer_from_device' = NoBuffer
        /\ pc' = "give_up"
  /\ UNCHANGED <<request_for_send_to_device, current_request_to_device,
                 must_set_time, pulses, request_to_device, received, photon,
                 pending, link, history>>

\* Mutation: the clock is set before a waiting command.
TakeTimeFirst ==
  /\ pc = "take"
  /\ request_to_device' = IF must_set_time THEN NoBuffer
                          ELSE request_for_send_to_device
  /\ request_for_send_to_device' = NoBuffer
  /\ pc' = IF request_for_send_to_device = NoBuffer \/ must_set_time
           THEN "build" ELSE "current"
  /\ UNCHANGED <<current_request_to_device, answer_from_device, must_set_time,
                 pulses, received, connect_faliures_count, photon, pending,
                 link, history>>

\* get_request_for_send_to_device_buffer: the slot is emptied.
Take ==
  /\ pc = "take"
  /\ request_to_device' = request_for_send_to_device
  /\ request_for_send_to_device' = NoBuffer
  /\ pc' = IF request_for_send_to_device = NoBuffer THEN "build" ELSE "current"
  /\ UNCHANGED <<current_request_to_device, answer_from_device, must_set_time,
                 pulses, received, connect_faliures_count, photon, pending,
                 link, history>>

\* Nothing waits: a request of the thread's own.
Build ==
  /\ pc = "build"
  /\ request_to_device' = IF must_set_time THEN Time ELSE Poll
  /\ pc' = IF must_set_time THEN "clear" ELSE "store"
  /\ UNCHANGED <<shared, pulses, received, connect_faliures_count, photon,
                 pending, link, history>>

\* Mutation: the flag is never lowered.
ClearTimeNever ==
  /\ pc = "clear"
  /\ pc' = "store"
  /\ UNCHANGED <<shared, pulses, thread, photon, pending, link, history>>

\* time_already_setted
ClearTime ==
  /\ pc = "clear"
  /\ must_set_time' = FALSE
  /\ pc' = "store"
  /\ UNCHANGED <<request_for_send_to_device, current_request_to_device,
                 answer_from_device, pulses, thread, photon, pending, link, history>>

\* The thread puts its own request into the slot too, so that it is sent
\* twice; a command given since Take is overwritten.
Store ==
  /\ pc = "store"
  /\ request_for_send_to_device' = request_to_device
  /\ overwritten' = IF request_for_send_to_device \in CommandRequests
                    THEN overwritten \cup {request_for_send_to_device.number}
                    ELSE overwritten
  /\ pc' = "current"
  /\ UNCHANGED <<current_request_to_device, answer_from_device, must_set_time,
                 pulses, thread, photon, pending, link, given, times, sent>>

\* Mutation: only the thread's own requests become current.
SetCurrentOwn ==
  /\ pc = "current"
  /\ current_request_to_device' = IF request_to_device \in CommandRequests
                                  THEN current_request_to_device
                                  ELSE request_to_device
  /\ pc' = "exchange"
  /\ UNCHANGED <<request_for_send_to_device, answer_from_device, must_set_time,
                 pulses, thread, photon, pending, link, history>>

SetCurrent ==
  /\ pc = "current"
  /\ current_request_to_device' = request_to_device
  /\ pc' = "exchange"
  /\ UNCHANGED <<request_for_send_to_device, answer_from_device, must_set_time,
                 pulses, thread, photon, pending, link, history>>

\* One failure more; the loop goes on until there are too many.
Failed ==
  /\ connect_faliures_count' = connect_faliures_count + 1
  /\ pc' = IF connect_faliures_count' < ReconnectsCount THEN "take" ELSE "give_up"

MarkSent == sent' = IF request_to_device \in CommandRequests
                    THEN Append(sent, request_to_device.number) ELSE sent

\* send, recv and the check of the CRC.  recv gives all the bytes that have
\* come, so the answers to earlier requests are among them: the first alone is
\* taken for the answer to this one, several together fail the CRC.
Exchange ==
  /\ pc = "exchange"
  /\ MarkSent
  /\ \/ \* the socket refuses the request
        /\ link # "good"
        /\ Failed
        /\ UNCHANGED <<received, pending>>
     \/ \* no answer in time; it may come later
        /\ link # "good" /\ Len(pending) < MaxLate
        /\ pending' = Append(pending, request_to_device)
        /\ Failed
        /\ UNCHANGED received
     \/ \* one answer
        /\ link # "silent"
        /\ received' = Head(Append(pending, request_to_device))
        /\ pending' = Tail(Append(pending, request_to_device))
        /\ pc' = "publish"
        /\ UNCHANGED connect_faliures_count
     \/ \* several answers
        /\ link # "silent"
        /\ \E k \in 2 .. Len(pending) + 1 :
             pending' = SubSeq(Append(pending, request_to_device), k + 1, Len(pending) + 1)
        /\ Failed
        /\ UNCHANGED received
  /\ UNCHANGED <<shared, pulses, request_to_device, photon, link, given, times, overwritten>>

Publish ==
  /\ pc = "publish"
  /\ answer_from_device' = received
  /\ connect_faliures_count' = 0
  /\ pc' = "pulse"
  /\ UNCHANGED <<request_for_send_to_device, current_request_to_device,
                 must_set_time, pulses, request_to_device, received, photon,
                 pending, link, history>>

SendPulse ==
  /\ pc = "pulse" /\ pulses < MaxPulses
  /\ pulses' = pulses + 1
  /\ pc' = "take"
  /\ UNCHANGED <<shared, thread, photon, pending, link, history>>

GiveUp ==
  /\ pc = "give_up"
  /\ answer_from_device' = NoBuffer
  /\ pc' = "give_up_pulse"
  /\ UNCHANGED <<request_for_send_to_device, current_request_to_device,
                 must_set_time, pulses, thread, photon, pending, link, history>>

\* The pulse, the end of the socket, and the pause before a new one.
GiveUpPulse ==
  /\ pc = "give_up_pulse" /\ pulses < MaxPulses
  /\ pulses' = pulses + 1
  /\ pending' = <<>>
  /\ pc' = "connect"
  /\ UNCHANGED <<shared, thread, photon, link, history>>

DeviceThread ==
  \/ Connect \/ Take \/ Build \/ ClearTime \/ Store \/ SetCurrent \/ Exchange
  \/ Publish \/ SendPulse \/ GiveUp \/ GiveUpPulse
-----------------------------------------------------------------------------
(***************************************************************************)
(* The Photon thread                                                       *)
(***************************************************************************)

\* send_command: set_request_to_device_buffer, whatever the slot holds.
GiveCommand ==
  /\ ui = "idle" /\ given < MaxCommands
  /\ given' = given + 1
  /\ request_for_send_to_device' = Command(given')
  /\ UNCHANGED <<current_request_to_device, answer_from_device, must_set_time,
                 pulses, pc, thread, photon, pending, link, times, sent, overwritten>>

\* The hour's change: set_time.
AskForTime ==
  /\ ui = "idle" /\ times < MaxTimeSets
  /\ times' = times + 1
  /\ must_set_time' = TRUE
  /\ UNCHANGED <<request_for_send_to_device, current_request_to_device,
                 answer_from_device, pulses, pc, thread, photon, pending, link,
                 given, sent, overwritten>>

\* A pulse: decode_answer_from_device_to_data_block copies the answer first ...
ReadAnswer ==
  /\ ui = "idle" /\ pulses > 0
  /\ pulses' = pulses - 1
  /\ handled' = answer_from_device
  /\ ui' = "decoding"
  /\ UNCHANGED <<shared, pc, thread, decoded, pending, link, history>>

\* ... and reads the request it takes for the answered one only while it
\* decodes the registers.
Outcome ==
  IF handled = NoBuffer THEN "miss"
  ELSE IF handled # Poll THEN "echo"
  ELSE IF current_request_to_device = Poll THEN "state"
  ELSE "mismatch"

Decode ==
  /\ ui = "decoding"
  /\ decoded' = Outcome
  /\ ui' = "idle"
  /\ UNCHANGED <<shared, pulses, pc, thread, handled, pending, link, history>>

PhotonThread == GiveCommand \/ AskForTime \/ ReadAnswer \/ Decode
-----------------------------------------------------------------------------
LinkChanges ==
  /\ link' \in {"mixed", "good", "silent"} \ {link}
  /\ UNCHANGED <<shared, pulses, pc, thread, photon, pending, history>>

\* No constructor initialises must_set_time.
Init ==
  /\ request_for_send_to_device = NoBuffer
  /\ current_request_to_device = NoBuffer
  /\ answer_from_device = NoBuffer
  /\ must_set_time \in BOOLEAN
  /\ pulses = 0
  /\ pc = "connect" /\ request_to_device = NoBuffer /\ received = NoBuffer
  /\ connect_faliures_count = 0
  /\ ui = "idle" /\ handled = NoBuffer /\ decoded = "nothing"
  /\ pending = <<>>
  /\ link \in {"mixed", "good", "silent"}
  /\ given = 0 /\ times = 0 /\ sent = <<>> /\ overwritten = {}

Next == DeviceThread \/ PhotonThread \/ LinkChanges

Spec == Init /\ [][Next]_vars

(***************************************************************************)
(* Both threads run: every socket call has a timeout, and the Photon       *)
(* thread handles its pulses.  Nothing obliges the dispatcher.             *)
(***************************************************************************)
FairSpec == Spec /\ WF_vars(DeviceThread) /\ WF_vars(ReadAnswer) /\ WF_vars(Decode)
-----------------------------------------------------------------------------
(***************************************************************************)
(* Properties                                                              *)
(***************************************************************************)
Buffers == Requests \cup {NoBuffer}

\* Types of the variables; a connection that is used is not given up yet.
TypeOK ==
  /\ request_for_send_to_device \in Buffers
  /\ current_request_to_device \in Buffers
  /\ answer_from_device \in Buffers
  /\ must_set_time \in BOOLEAN
  /\ pulses \in 0 .. MaxPulses
  /\ pc \in {"connect", "take", "build", "clear", "store", "current",
             "exchange", "publish", "pulse", "give_up", "give_up_pulse"}
  /\ request_to_device \in Buffers /\ received \in Buffers
  /\ connect_faliures_count \in 0 .. ReconnectsCount
  /\ ui \in {"idle", "decoding"} /\ handled \in Buffers
  /\ decoded \in {"nothing", "miss", "echo", "state", "mismatch"}
  /\ pending \in Seq(Requests) /\ Len(pending) <= MaxLate
  /\ link \in {"mixed", "good", "silent"}
  /\ given \in 0 .. MaxCommands /\ times \in 0 .. MaxTimeSets
  /\ sent \in Seq(1 .. MaxCommands)
  /\ overwritten \subseteq 1 .. MaxCommands
  /\ pc \in {"current", "exchange"} => request_to_device # NoBuffer
  /\ pc \in {"take", "build", "clear", "store", "current", "exchange"}
     => connect_faliures_count < ReconnectsCount

\* Commands are sent in the order in which they were given, and never twice,
\* though the thread's own requests stay in the slot for a second sending.
CommandsInOrder ==
  \A i, j \in 1 .. Len(sent) : i < j => sent[i] < sent[j]

\* The newest command is sent, or waits, or was overwritten by a poll or a
\* setting of the clock between Take and Store: nothing else loses it.
Waiting(n) ==
  \/ request_for_send_to_device = Command(n)
  \/ request_to_device = Command(n) /\ pc \in {"current", "exchange"}

NewestAccounted ==
  given > 0 => \/ Waiting(given)
               \/ \E i \in 1 .. Len(sent) : sent[i] = given
               \/ given \in overwritten

\* The commands reach the line: in order, once, the newest not lost.
CommandsKept == CommandsInOrder /\ NewestAccounted

\* Until the thread makes the next request current, the answer in the buffer
\* is the answer to the current request, unless late answers are on their way
\* or an exchange has failed since.  A handler that comes in that time never
\* sees a mismatch.
AnswerMatchesRequest ==
  /\ pc \in {"pulse", "take", "build", "clear", "store", "current"}
  /\ pending = <<>> /\ connect_faliures_count = 0
  /\ answer_from_device # NoBuffer
  => answer_from_device = current_request_to_device

\* When the pulses are handled, the last answer is the one that was handled:
\* an answer is replaced before its pulse comes, but the last one is not lost.
LastAnswerHandled ==
  pulses = 0 /\ pc \notin {"pulse", "give_up", "give_up_pulse"}
  => answer_from_device = handled

\* On a line that stays silent the handler sees the empty answer again and
\* again, and in the end nothing else: the automaton's failure counter runs.
SilenceDecoded ==
  <>[](link = "silent") => <>[](decoded = "miss") /\ []<>(ui = "decoding")

\* On a line that stays good, the settings and commands past, every answer
\* handled is a state, even if each is late by one request for ever.
StateDecoded ==
  <>[](link = "good") => <>[](decoded = "state") /\ []<>(ui = "decoding")

\* The answers and the buffers that hold them fit together.
AnswersPaired == TypeOK /\ AnswerMatchesRequest /\ LastAnswerHandled

\* A line that behaves in one way for good is decoded so for good.
LineDecoded == SilenceDecoded /\ StateDecoded
=============================================================================
