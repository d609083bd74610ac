--------------------------- MODULE StationGateway ---------------------------
(***************************************************************************)
(* One device of the station's gateway (modbus_srv): the threads of the    *)
(* TCP connections and the thread of the serial line, which share the      *)
(* device's buffers under three mutexes and a condition variable.  The     *)
(* sections under default_answer_to_socket_mutex hold one copy each, so    *)
(* they are single actions; the other two mutexes have an owner.           *)
(*                                                                         *)
(* A request is Default, the poll of all registers, or a command's number; *)
(* an answer names the request it answers and tells whether the device has *)
(* obeyed a command since.  A UDKU's own poll is shorter than the poll of  *)
(* the connections: LinePoll is the connection's request that equals it.   *)
(* The other devices of the line only delay Pause.                         *)
(***************************************************************************)
EXTENDS Integers, Sequences

CONSTANTS Clients,            \* the connections' threads
          FailuresCount,      \* SOCKET_FAILURES_COUNT
          MaxCommands,        \* bound: commands of a behaviour
          AsksLine,           \* may a connection ask for a UDKU's own poll?
          Spurious            \* may pthread_cond_wait return unsignalled?

ASSUME ClientsAssumption == Clients # {}
ASSUME CountsAssumption == FailuresCount \in Nat \ {0} /\ MaxCommands \in Nat
ASSUME OptionsAssumption == Spurious \in BOOLEAN /\ AsksLine \in BOOLEAN

Comport == "comport"
Nobody == "nobody"
ASSUME ThreadsAssumption == {Comport, Nobody} \cap Clients = {}

Default == 0
LinePoll == -1
Requests == 0 .. MaxCommands
Answers == [to : Requests, ok : BOOLEAN, current : BOOLEAN]

\* The empty buffer: an error to whoever asks.
NoAnswer == [to |-> Default, ok |-> FALSE, current |-> FALSE]

VARIABLES
  request_to_com_port,    \* the device's buffers: the request (at most one),
  answer_to_socket,       \* the answer to the last request,
  default_answer,         \* the answer to the last poll
  queue, transfer,        \* owners of the two mutexes
  pc, telemetr_request, telemetr_answer, failures_count, \* a connection
  com, data_to_comport,   \* the serial line's thread
  silent,                 \* environment: the device does not answer
  issued,                 \* history: commands asked for,
  attempts,               \* times each was sent on the line,
  fate                    \* what befell the connection's wait

device == <<request_to_com_port, answer_to_socket, default_answer>>
sockets == <<pc, telemetr_request, telemetr_answer, failures_count>>
line == <<com, data_to_comport>>
history == <<issued, attempts, fate>>
vars == <<device, queue, transfer, sockets, line, silent, history>>
-----------------------------------------------------------------------------
(***************************************************************************)
(* socket_thread_function                                                  *)
(***************************************************************************)
Goto(c, step) == pc' = [pc EXCEPT ![c] = step]

(* failures_count grows; the loop ends at SOCKET_FAILURES_COUNT.           *)
Fail(c, k) == /\ failures_count' = [failures_count EXCEPT ![c] = @ + k]
              /\ Goto(c, IF failures_count[c] + k < FailuresCount
                         THEN "receive" ELSE "ended")

(* A frame is incomplete, has a bad CRC or an unsupported function; the    *)
(* answer to the last may fail to be sent, which counts again.             *)
ReceiveBad(c) == /\ pc[c] = "receive"
                 /\ \E k \in 1 .. 2 : Fail(c, k)
                 /\ UNCHANGED <<device, queue, transfer, telemetr_request,
                                telemetr_answer, line, silent, history>>

(* The poll is answered from the copy the serial line's thread left.  Of an *)
(* answer a connection is given the request it answers.                    *)
ReceivePoll(c) ==
  /\ pc[c] = "receive"
  /\ telemetr_request' = [telemetr_request EXCEPT ![c] = Default]
  /\ telemetr_answer' = [telemetr_answer EXCEPT ![c] = default_answer.to]
  /\ failures_count' = [failures_count EXCEPT ![c] = 0]
  /\ Goto(c, "send")
  /\ UNCHANGED <<device, queue, transfer, line, silent, history>>

ReceiveCommand(c) ==
  /\ pc[c] = "receive"
  /\ issued < MaxCommands
  /\ issued' = issued + 1
  /\ telemetr_request' = [telemetr_request EXCEPT ![c] = issued + 1]
  /\ failures_count' = [failures_count EXCEPT ![c] = 0]
  /\ Goto(c, "queue")
  /\ UNCHANGED <<device, queue, transfer, telemetr_answer, line, silent,
                 attempts, fate>>

(* A request for what is a UDKU's own poll is no poll of a connection.     *)
ReceiveLinePoll(c) ==
  /\ AsksLine
  /\ pc[c] = "receive"
  /\ telemetr_request' = [telemetr_request EXCEPT ![c] = LinePoll]
  /\ failures_count' = [failures_count EXCEPT ![c] = 0]
  /\ Goto(c, "queue")
  /\ UNCHANGED <<device, queue, transfer, telemetr_answer, line, silent,
                 history>>

LockQueue(c) == /\ pc[c] = "queue" /\ queue = Nobody
                /\ queue' = c
                /\ Goto(c, "transfer")
                /\ UNCHANGED <<device, transfer, telemetr_request,
                               telemetr_answer, failures_count, line, silent,
                               history>>

(* The line cannot tell a connection's LinePoll from its own poll.         *)
OnLine(r) == IF r = LinePoll THEN Default ELSE r

(* put_command_request_from_socket replaces whatever request is in the     *)
(* buffer.                                                                 *)
PutRequest(c) == request_to_com_port' = <<OnLine(telemetr_request[c])>>

(* Under data_transfer_process_mutex, which pthread_cond_wait releases.    *)
PutAndWait(c) ==
  /\ pc[c] = "transfer" /\ transfer = Nobody
  /\ PutRequest(c)
  /\ fate' = [fate EXCEPT ![c] = "own"]
  /\ Goto(c, "wait")
  /\ UNCHANGED <<answer_to_socket, default_answer, queue, transfer,
                 telemetr_request, telemetr_answer, failures_count, line,
                 silent, issued, attempts>>

WakeUnsignalled(c) ==
  /\ Spurious
  /\ pc[c] = "wait"
  /\ Goto(c, "resume")
  /\ fate' = [fate EXCEPT ![c] = "unsignalled"]
  /\ UNCHANGED <<device, queue, transfer, telemetr_request, telemetr_answer,
                 failures_count, line, silent, issued, attempts>>

(* pthread_cond_wait returns with the mutex, whoever had it in between;    *)
(* nothing is tested before the answer is read and both are released.      *)
Resume(c) ==
  /\ pc[c] = "resume" /\ transfer = Nobody
  /\ telemetr_answer' = [telemetr_answer EXCEPT ![c] = answer_to_socket.to]
  /\ queue' = Nobody
  /\ Goto(c, "send")
  /\ UNCHANGED <<device, transfer, telemetr_request, failures_count, line,
                 silent, history>>

(* The answer goes out, or the connection fails; the loop starts again with *)
(* an empty request, and the answer is not read any more.                  *)
Send(c) ==
  /\ pc[c] = "send"
  /\ telemetr_request' = [telemetr_request EXCEPT ![c] = Default]
  /\ telemetr_answer' = [telemetr_answer EXCEPT ![c] = Default]
  /\ fate' = [fate EXCEPT ![c] = "own"]
  /\ \/ Fail(c, 1)
     \/ /\ failures_count' = [failures_count EXCEPT ![c] = 0]
        /\ Goto(c, "receive")
  /\ UNCHANGED <<device, queue, transfer, line, silent, issued, attempts>>

SocketThread(c) ==
  \/ ReceiveBad(c) \/ ReceivePoll(c) \/ ReceiveCommand(c)
  \/ ReceiveLinePoll(c) \/ LockQueue(c)
  \/ PutAndWait(c) \/ WakeUnsignalled(c) \/ Resume(c) \/ Send(c)
-----------------------------------------------------------------------------
(***************************************************************************)
(* comport_thread_function                                                 *)
(***************************************************************************)

(* get_command_request_to_comport: without a request from a connection the *)
(* poll is put in the buffer, where it stays.                              *)
TakeRequest ==
  LET request == IF request_to_com_port = <<>> THEN <<Default>>
                 ELSE request_to_com_port
  IN /\ data_to_comport' = request[1]
     /\ request_to_com_port' = request

ComportLock ==
  /\ com = "lock" /\ transfer = Nobody
  /\ transfer' = Comport
  /\ TakeRequest
  /\ com' = "exchange"
  /\ UNCHANGED <<answer_to_socket, default_answer, queue, sockets, silent,
                 history>>

(* Mutant: a failed exchange leaves the last answer in the buffer. *)
ExchangeKeepsAnswer ==
  /\ com = "exchange"
  /\ \E obeys \in BOOLEAN :
       /\ obeys => data_to_comport # Default
       /\ default_answer' = [default_answer EXCEPT !.current = @ /\ ~obeys]
  /\ answer_to_socket' = IF silent THEN answer_to_socket
                         ELSE [to |-> data_to_comport, ok |-> TRUE,
                               current |-> TRUE]
  /\ attempts' = [n \in DOMAIN attempts |->
                    IF n = data_to_comport THEN attempts[n] + 1
                    ELSE attempts[n]]
  /\ fate' = [c \in Clients |-> IF pc[c] = "resume" /\ fate[c] = "own"
                                THEN "overtaken" ELSE fate[c]]
  /\ com' = "publish"
  /\ UNCHANGED <<request_to_com_port, queue, transfer, sockets,
                 data_to_comport, silent, issued>>

(* send, recv and put_command_answer_from_comport, all under the mutex.    *)
(* The device may obey a command whose answer is lost; a failed exchange   *)
(* leaves an error as the answer to the request.                           *)
Exchange ==
  /\ com = "exchange"
  /\ \E obeys \in BOOLEAN :
       /\ obeys => data_to_comport # Default
       /\ default_answer' = [default_answer EXCEPT !.current = @ /\ ~obeys]
  /\ answer_to_socket' = [to |-> data_to_comport, ok |-> ~silent,
                          current |-> ~silent]
  /\ attempts' = [n \in DOMAIN attempts |->
                    IF n = data_to_comport THEN attempts[n] + 1
                    ELSE attempts[n]]
  /\ fate' = [c \in Clients |-> IF pc[c] = "resume" /\ fate[c] = "own"
                                THEN "overtaken" ELSE fate[c]]
  /\ com' = "publish"
  /\ UNCHANGED <<request_to_com_port, queue, transfer, sockets,
                 data_to_comport, silent, issued>>

(* Mutant: the request stays in the buffer. *)
ClearRequestNot == UNCHANGED request_to_com_port

(* A request that is not the poll is cleared ...                           *)
ClearRequest == request_to_com_port' = <<>>

(* Mutant: nobody is woken. *)
SignalNot == UNCHANGED pc

(* ... and the one connection waiting for it, if any, is woken.            *)
Signal == pc' = [c \in Clients |-> IF pc[c] = "wait" THEN "resume" ELSE pc[c]]

PublishCommand ==
  /\ com = "publish"
  /\ request_to_com_port # <<Default>>
  /\ ClearRequest
  /\ Signal
  /\ transfer' = Nobody
  /\ com' = "pause"
  /\ UNCHANGED <<answer_to_socket, default_answer, queue, telemetr_request,
                 telemetr_answer, failures_count, data_to_comport, silent,
                 history>>

(* Mutant: a good answer is kept. *)
SetDefaultOnce ==
  default_answer' = IF default_answer.ok THEN default_answer
                    ELSE answer_to_socket

(* set_default_answer_to_socket *)
SetDefault == default_answer' = answer_to_socket

PublishPoll ==
  /\ com = "publish"
  /\ request_to_com_port = <<Default>>
  /\ SetDefault
  /\ transfer' = Nobody
  /\ com' = "pause"
  /\ UNCHANGED <<request_to_com_port, answer_to_socket, queue, sockets,
                 data_to_comport, silent, history>>

(* usleep, then the other devices of the line.                             *)
Pause == /\ com = "pause"
         /\ com' = "lock"
         /\ UNCHANGED <<device, queue, transfer, sockets, data_to_comport,
                        silent, history>>

ComportThread == ComportLock \/ Exchange \/ PublishCommand \/ PublishPoll
                 \/ Pause

(* The environment: the device stops answering, or answers again.          *)
LineChanges == /\ silent' = ~silent
               /\ UNCHANGED <<device, queue, transfer, sockets, line, history>>
-----------------------------------------------------------------------------
Init ==
  /\ request_to_com_port = <<>>
  /\ answer_to_socket = NoAnswer /\ default_answer = NoAnswer
  /\ queue = Nobody /\ transfer = Nobody
  /\ pc = [c \in Clients |-> "receive"]
  /\ telemetr_request = [c \in Clients |-> Default]
  /\ telemetr_answer = [c \in Clients |-> Default]
  /\ failures_count = [c \in Clients |-> 0]
  /\ com = "lock" /\ data_to_comport = Default
  /\ silent \in BOOLEAN
  /\ issued = 0
  /\ attempts = [n \in 1 .. MaxCommands |-> 0]
  /\ fate = [c \in Clients |-> "own"]

Next == (\E c \in Clients : SocketThread(c)) \/ ComportThread \/ LineChanges

Spec == Init /\ [][Next]_vars

(* The system schedules the serial line's thread, which alone holds the    *)
(* transfer mutex across steps, and a connection's thread once it has      *)
(* received a request.  Connections wait in turn for a mutex (the longest  *)
(* waiter of a priority is served first), hence SF where they take one.    *)
(* Requests, failures, unsignalled wakings and the line are not fair.      *)
TakeMutex(c) == LockQueue(c) \/ PutAndWait(c) \/ Resume(c)

FairSpec == /\ Spec
            /\ WF_vars(ComportThread)
            /\ \A c \in Clients : SF_vars(TakeMutex(c)) /\ WF_vars(Send(c))
-----------------------------------------------------------------------------
(***************************************************************************)
(* Properties                                                              *)
(***************************************************************************)
Steps == {"receive", "queue", "transfer", "wait", "resume", "send", "ended"}

(* The types of the variables; the request's buffer holds one request.     *)
TypeOK ==
  /\ request_to_com_port \in {<<>>} \cup {<<r>> : r \in Requests}
  /\ answer_to_socket \in Answers /\ default_answer \in Answers
  /\ queue \in Clients \cup {Nobody} /\ transfer \in {Comport, Nobody}
  /\ pc \in [Clients -> Steps]
  /\ telemetr_request \in [Clients -> Requests \cup {LinePoll}]
  /\ telemetr_answer \in [Clients -> Requests]
  /\ failures_count \in [Clients -> 0 .. FailuresCount + 1]
  /\ com \in {"lock", "exchange", "publish", "pause"}
  /\ data_to_comport \in Requests
  /\ silent \in BOOLEAN
  /\ issued \in 0 .. MaxCommands
  /\ attempts \in [1 .. MaxCommands -> Nat]
  /\ fate \in [Clients -> {"own", "overtaken", "unsignalled"}]

(* A connection that asked for a command gets the answer to that very      *)
(* command, and after the command was sent; if the serial line's thread    *)
(* served the device again before the woken connection had the mutex, it   *)
(* gets the answer to a poll, and never to another connection's command.   *)
(* Only a wakening without a signal gives it anything else.                *)
OwnAnswer ==
  \A c \in Clients :
    pc[c] = "send" /\ telemetr_request[c] # Default =>
      /\ fate[c] = "own" => /\ telemetr_answer[c] = telemetr_request[c]
                            /\ attempts[telemetr_request[c]] = 1
      /\ fate[c] = "overtaken" => telemetr_answer[c] = Default

(* A command is sent on the line at most once, whatever the wakings: the   *)
(* gateway never repeats a start or a stop.                                *)
SentOnce == \A n \in 1 .. MaxCommands : attempts[n] <= 1

(* A poll is never answered with the answer to a command: its registers    *)
(* would be read as the device's state.                                    *)
StatusIsStatus ==
  \A c \in Clients : pc[c] = "send" /\ telemetr_request[c] = Default =>
                       telemetr_answer[c] = Default

(* Commands and polls never get each other's answers.                      *)
AnswersMatch == OwnAnswer /\ StatusIsStatus

(* The connection that waits holds the queue, so that the one signal of an *)
(* exchange wakes the connection whose request it was, and no request of   *)
(* another connection can replace it.                                      *)
WaiterAlone ==
  \A c \in Clients :
    /\ pc[c] \in {"transfer", "wait", "resume"} <=> queue = c
    /\ pc[c] = "wait" => request_to_com_port = <<OnLine(telemetr_request[c])>>

(* A connection that asked for a UDKU's own poll waits: that exchange wakes *)
(* nobody.                                                                 *)
WaitsForLine == \E c \in Clients : pc[c] = "wait" /\ telemetr_request[c] = LinePoll

(* Every command received is answered, and its connection goes on, however *)
(* many contend for the queue.  Only a connection that asked for a UDKU's  *)
(* own poll can keep the others waiting for ever, by waiting itself.       *)
CommandsAnswered ==
  []<>~WaitsForLine => \A c \in Clients : pc[c] = "queue" ~> pc[c] = "send"

(* A device that stays silent is in the end reported so to every poll.     *)
SilenceReported == <>[]silent => <>[](~default_answer.ok)

(* A device that answers again is in the end reported in the state it is   *)
(* in, all the commands it obeyed included.                                *)
StatusCatchesUp ==
  <>[]~silent => <>[](default_answer.ok /\ default_answer.current)

(* The copy for polls follows the line.                                    *)
StatusFollowsLine == SilenceReported /\ StatusCatchesUp
=============================================================================
