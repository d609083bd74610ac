--------------------------- MODULE Gateway_proofs ---------------------------
(***************************************************************************)
(* Theorems about a station's gateway: what it promises its connections,   *)
(* for every set of connections and every number of commands and failures; *)
(* the ring of its messages, for every number of ids and of messages kept; *)
(* and the messages it makes, for all conditions, circuits, lines and      *)
(* alarms.                                                                 *)
(***************************************************************************)
EXTENDS StationGateway, MCMessages, SequenceTheorems, WellFoundedInduction, TLAPS

-----------------------------------------------------------------------------
(***************************************************************************)
(* The connections and the serial line                                     *)
(***************************************************************************)
Holders == {"transfer", "wait", "resume"}

(* The mutexes have the owners the steps of the threads imply, and what    *)
(* the serial line's thread transfers is the request in the buffer.        *)
Locks ==
  /\ transfer = Comport <=> com \in {"exchange", "publish"}
  /\ com \in {"exchange", "publish"} => request_to_com_port = <<data_to_comport>>
  /\ \A c \in Clients : pc[c] \in Holders <=> queue = c
  /\ \A c \in Clients :
       pc[c] = "wait" => request_to_com_port = <<OnLine(telemetr_request[c])>>

(* Every command is asked for once, by one connection.                     *)
Numbers ==
  /\ \A c \in Clients :
       /\ telemetr_request[c] <= issued
       /\ pc[c] \in Holders \cup {"queue"} => telemetr_request[c] # Default
  /\ \A c, d \in Clients :
       /\ telemetr_request[c] \notin {Default, LinePoll}
       /\ telemetr_request[c] = telemetr_request[d]
       => c = d

(* A command that is still to be put, or in the buffer and not yet         *)
(* exchanged, has not been sent.                                           *)
Unsent ==
  /\ \A n \in 1 .. MaxCommands : attempts[n] <= 1
  /\ \A n \in 1 .. MaxCommands : n > issued => attempts[n] = 0
  /\ \A n \in 1 .. MaxCommands :
       request_to_com_port = <<n>> =>
         n <= issued /\ attempts[n] = IF com = "publish" THEN 1 ELSE 0
  /\ \A c \in Clients :
       pc[c] \in {"queue", "transfer"} /\ telemetr_request[c] # LinePoll =>
         /\ attempts[telemetr_request[c]] = 0
         /\ request_to_com_port # <<telemetr_request[c]>>

(* Whose answer is where.                                                  *)
Delivery ==
  /\ com = "publish" => answer_to_socket.to = data_to_comport
  /\ default_answer.to = Default
  /\ \A c \in Clients :
       /\ pc[c] = "wait" => fate[c] = "own"
       /\ pc[c] = "resume" /\ fate[c] # "unsignalled" =>
            request_to_com_port \in {<<>>, <<Default>>}
       /\ pc[c] = "resume" /\ fate[c] = "own" =>
            /\ answer_to_socket.to = telemetr_request[c]
            /\ attempts[telemetr_request[c]] = 1
            /\ com # "publish"
       /\ pc[c] = "resume" /\ fate[c] = "overtaken" =>
            answer_to_socket.to = Default

(* The loop of a connection goes on as long as its failures are few.       *)
Counting ==
  \A c \in Clients : pc[c] # "ended" => failures_count[c] < FailuresCount

(* Every poll and every connection gets the answer meant for it.           *)
Own == OwnAnswer /\ StatusIsStatus

(* The inductive invariant: the properties with what keeps them true.      *)
IInv == TypeOK /\ Counting /\ Locks /\ Numbers /\ Unsent /\ Delivery /\ Own
-----------------------------------------------------------------------------
(* A step of a connection moves that connection alone.                     *)
LEMMA Advance ==
  ASSUME TypeOK, NEW c \in Clients, NEW s \in Steps, Goto(c, s)
  PROVE  /\ pc' \in [Clients -> Steps]
         /\ pc'[c] = s
         /\ \A d \in Clients : d # c => pc'[d] = pc[d]
BY DEF TypeOK, Goto

(* A failure counts for that connection alone, and may end it.             *)
LEMMA Failing ==
  ASSUME TypeOK, Counting, NEW c \in Clients, NEW k \in 1 .. 2,
         pc[c] # "ended", Fail(c, k)
  PROVE  /\ pc' \in [Clients -> Steps]
         /\ pc'[c] \in {"receive", "ended"}
         /\ \A d \in Clients : d # c => pc'[d] = pc[d]
         /\ failures_count' \in [Clients -> 0 .. FailuresCount + 1]
         /\ Counting'
<1>1. failures_count[c] < FailuresCount /\ failures_count[c] \in Nat
  BY CountsAssumption DEF TypeOK, Counting
<1>2. failures_count' \in [Clients -> 0 .. FailuresCount + 1]
  BY <1>1, CountsAssumption DEF TypeOK, Fail
<1>3. CASE failures_count[c] + k < FailuresCount
  <2>1. Goto(c, "receive")
    BY <1>3 DEF Fail
  <2> QED BY <2>1, <1>2, <1>3, Advance DEF TypeOK, Counting, Fail, Steps
<1>4. CASE ~(failures_count[c] + k < FailuresCount)
  <2>1. Goto(c, "ended")
    BY <1>4 DEF Fail
  <2> QED BY <2>1, <1>2, Advance DEF TypeOK, Counting, Fail, Steps
<1> QED BY <1>3, <1>4

-----------------------------------------------------------------------------
(* One step keeps the invariant: a connection's steps move that connection *)
(* and its own entries, the serial line's steps the buffers and, when they *)
(* signal, the one connection that waits.                                  *)
LEMMA Inductive == IInv /\ [Next]_vars => IInv'
<1> SUFFICES ASSUME IInv, [Next]_vars PROVE IInv'
  OBVIOUS
<1> USE ClientsAssumption, CountsAssumption, ThreadsAssumption
    DEF IInv, Default, LinePoll, Comport, Nobody, device, sockets, line, history
<1>1. ASSUME NEW c \in Clients, ReceiveBad(c) PROVE IInv'
  <2>0. /\ pc' \in [Clients -> Steps]
        /\ pc'[c] \in {"receive", "ended"}
        /\ \A d \in Clients : d # c => pc'[d] = pc[d]
        /\ failures_count' \in [Clients -> 0 .. FailuresCount + 1]
        /\ Counting'
    BY <1>1, Failing DEF ReceiveBad
  <2>1. TypeOK'
    BY <1>1, <2>0 DEF ReceiveBad, TypeOK
  <2>2. Counting'
    BY <1>1, <2>0 DEF ReceiveBad, Counting
  <2>3. Locks'
    BY <1>1, <2>0 DEF ReceiveBad, Locks, Holders
  <2>4. Numbers'
    BY <1>1, <2>0 DEF ReceiveBad, Numbers, Holders
  <2>5. Unsent'
    BY <1>1, <2>0 DEF ReceiveBad, Unsent
  <2>6. Delivery'
    BY <1>1, <2>0 DEF ReceiveBad, Delivery
  <2>7. Own'
    BY <1>1, <2>0 DEF ReceiveBad, OwnAnswer, StatusIsStatus, Own
  <2> QED BY <2>1, <2>2, <2>3, <2>4, <2>5, <2>6, <2>7
<1>2. ASSUME NEW c \in Clients, ReceivePoll(c) PROVE IInv'
  <2>0. /\ pc' \in [Clients -> Steps]
        /\ pc'[c] = "send"
        /\ \A d \in Clients : d # c => pc'[d] = pc[d]
    BY <1>2, Advance DEF ReceivePoll, Steps
  <2>1. TypeOK'
    <3>1. telemetr_request' \in [Clients -> Requests \cup {LinePoll}] /\ issued' \in 0 .. MaxCommands
      BY <1>2, <2>0 DEF ReceivePoll, TypeOK, Requests
    <3>2. telemetr_answer' \in [Clients -> Requests]
      BY <1>2, <2>0 DEF ReceivePoll, TypeOK, Answers
    <3>3. failures_count' \in [Clients -> 0 .. FailuresCount + 1]
      BY <1>2, <2>0 DEF ReceivePoll, TypeOK
    <3> QED BY <1>2, <2>0, <3>1, <3>2, <3>3 DEF ReceivePoll, TypeOK
  <2>2. Counting'
    BY <1>2, <2>0 DEF ReceivePoll, Counting
  <2>3. Locks'
    BY <1>2, <2>0 DEF ReceivePoll, Locks, Holders
  <2>4. Numbers'
    BY <1>2, <2>0 DEF ReceivePoll, TypeOK, Numbers, Holders
  <2>5. Unsent'
    BY <1>2, <2>0 DEF ReceivePoll, Unsent
  <2>6. Delivery'
    BY <1>2, <2>0 DEF ReceivePoll, Delivery
  <2>7. Own'
    <3>1. telemetr_request'[c] = Default /\ telemetr_answer'[c] = Default
      BY <1>2 DEF ReceivePoll, TypeOK, Delivery
    <3>2. \A d \in Clients \ {c} : /\ telemetr_request'[d] = telemetr_request[d]
                                    /\ telemetr_answer'[d] = telemetr_answer[d]
      BY <1>2 DEF ReceivePoll, TypeOK
    <3>3. OwnAnswer'
      BY <1>2, <2>0, <3>1, <3>2 DEF ReceivePoll, OwnAnswer, Own
    <3>4. StatusIsStatus'
      BY <1>2, <2>0, <3>1, <3>2 DEF StatusIsStatus, Own
    <3> QED BY <3>3, <3>4 DEF Own
  <2> QED BY <2>1, <2>2, <2>3, <2>4, <2>5, <2>6, <2>7
<1>3. ASSUME NEW c \in Clients, ReceiveCommand(c) PROVE IInv'
  <2>0. /\ pc' \in [Clients -> Steps]
        /\ pc'[c] = "queue"
        /\ \A d \in Clients : d # c => pc'[d] = pc[d]
    BY <1>3, Advance DEF ReceiveCommand, Steps
  <2>1. TypeOK'
    <3>1. telemetr_request' \in [Clients -> Requests \cup {LinePoll}] /\ issued' \in 0 .. MaxCommands
      BY <1>3, <2>0 DEF ReceiveCommand, TypeOK, Requests
    <3>2. telemetr_answer' \in [Clients -> Requests]
      BY <1>3, <2>0 DEF ReceiveCommand, TypeOK
    <3>3. failures_count' \in [Clients -> 0 .. FailuresCount + 1]
      BY <1>3, <2>0 DEF ReceiveCommand, TypeOK
    <3> QED BY <1>3, <2>0, <3>1, <3>2, <3>3 DEF ReceiveCommand, TypeOK
  <2>2. Counting'
    BY <1>3, <2>0 DEF ReceiveCommand, Counting
  <2>3. Locks'
    BY <1>3, <2>0 DEF ReceiveCommand, Locks, Holders
  <2>4. Numbers'
    <3>1. /\ telemetr_request'[c] = issued + 1
          /\ \A d \in Clients : d # c => telemetr_request'[d] = telemetr_request[d]
      BY <1>3 DEF ReceiveCommand, TypeOK
    <3>2. issued' = issued + 1 /\ issued \in Nat
      BY <1>3 DEF ReceiveCommand, TypeOK
    <3>3. \A d \in Clients : telemetr_request[d] \in Int /\ telemetr_request[d] <= issued
      BY DEF TypeOK, Requests, Numbers
    <3>4. ASSUME NEW d \in Clients
          PROVE  /\ telemetr_request'[d] <= issued'
                 /\ pc'[d] \in Holders \cup {"queue"} => telemetr_request'[d] # Default
      <4>1. CASE d = c
        BY <3>1, <3>2, <4>1
      <4>2. CASE d # c
        BY <2>0, <3>1, <3>2, <3>3, <4>2 DEF Numbers
      <4> QED BY <4>1, <4>2
    <3>5. ASSUME NEW d \in Clients, NEW e \in Clients,
                 telemetr_request'[d] \notin {Default, LinePoll},
                 telemetr_request'[d] = telemetr_request'[e]
          PROVE  d = e
      BY <3>1, <3>2, <3>3, <3>5 DEF Numbers
    <3> QED BY <3>4, <3>5 DEF Numbers
  <2>5. Unsent'
    <3>1. /\ telemetr_request'[c] = issued + 1 /\ issued + 1 \in 1 .. MaxCommands
          /\ \A d \in Clients : d # c => telemetr_request'[d] = telemetr_request[d]
      BY <1>3 DEF ReceiveCommand, TypeOK
    <3>2. issued' = issued + 1 /\ issued \in Nat
      BY <1>3 DEF ReceiveCommand, TypeOK
    <3>3. /\ request_to_com_port' = request_to_com_port
          /\ attempts' = attempts /\ com' = com
      BY <1>3 DEF ReceiveCommand
    <3>4. attempts[issued + 1] = 0 /\ request_to_com_port # <<issued + 1>>
      BY <3>1, <3>2 DEF Unsent
    <3>5. \A n \in 1 .. MaxCommands : attempts[n] <= 1
      BY DEF Unsent
    <3>6. \A n \in 1 .. MaxCommands : n > issued' => attempts'[n] = 0
      BY <3>2, <3>3 DEF Unsent
    <3>7. \A n \in 1 .. MaxCommands :
            request_to_com_port' = <<n>> =>
              n <= issued' /\ attempts'[n] = IF com' = "publish" THEN 1 ELSE 0
      BY <3>2, <3>3 DEF Unsent
    <3>8. \A d \in Clients :
            pc'[d] \in {"queue", "transfer"} /\ telemetr_request'[d] # LinePoll =>
              /\ attempts'[telemetr_request'[d]] = 0
              /\ request_to_com_port' # <<telemetr_request'[d]>>
      BY <2>0, <3>1, <3>3, <3>4 DEF Unsent
    <3> QED BY <3>3, <3>5, <3>6, <3>7, <3>8 DEF Unsent
  <2>6. Delivery'
    BY <1>3, <2>0 DEF ReceiveCommand, Delivery
  <2>7. Own'
    BY <1>3, <2>0 DEF ReceiveCommand, OwnAnswer, StatusIsStatus, Own
  <2> QED BY <2>1, <2>2, <2>3, <2>4, <2>5, <2>6, <2>7
<1>16. ASSUME NEW c \in Clients, ReceiveLinePoll(c) PROVE IInv'
  <2>0. /\ pc' \in [Clients -> Steps]
        /\ pc'[c] = "queue"
        /\ \A d \in Clients : d # c => pc'[d] = pc[d]
    BY <1>16, Advance DEF ReceiveLinePoll, Steps
  <2>. /\ telemetr_request' \in [Clients -> Requests \cup {LinePoll}]
       /\ telemetr_request'[c] = LinePoll
       /\ \A d \in Clients : d # c => telemetr_request'[d] = telemetr_request[d]
    BY <1>16 DEF ReceiveLinePoll, TypeOK
  <2>1. TypeOK'
    <3>1. failures_count' \in [Clients -> 0 .. FailuresCount + 1]
      BY <1>16 DEF ReceiveLinePoll, TypeOK
    <3> QED BY <1>16, <2>0, <3>1 DEF ReceiveLinePoll, TypeOK
  <2>2. Counting'
    BY <1>16, <2>0 DEF ReceiveLinePoll, TypeOK, Counting
  <2>3. Locks'
    BY <1>16, <2>0 DEF ReceiveLinePoll, Locks, Holders
  <2>4. Numbers'
    BY <1>16, <2>0 DEF ReceiveLinePoll, TypeOK, Numbers, Holders
  <2>5. Unsent'
    BY <1>16, <2>0 DEF ReceiveLinePoll, Unsent
  <2>6. Delivery'
    BY <1>16, <2>0 DEF ReceiveLinePoll, Delivery
  <2>7. Own'
    BY <1>16, <2>0 DEF ReceiveLinePoll, OwnAnswer, StatusIsStatus, Own
  <2> QED BY <2>1, <2>2, <2>3, <2>4, <2>5, <2>6, <2>7
<1>4. ASSUME NEW c \in Clients, LockQueue(c) PROVE IInv'
  <2>0. /\ pc' \in [Clients -> Steps]
        /\ pc'[c] = "transfer"
        /\ \A d \in Clients : d # c => pc'[d] = pc[d]
    BY <1>4, Advance DEF LockQueue, Steps
  <2>1. TypeOK'
    BY <1>4, <2>0 DEF LockQueue, TypeOK
  <2>2. Counting'
    BY <1>4, <2>0 DEF LockQueue, Counting
  <2>3. Locks'
    BY <1>4, <2>0 DEF LockQueue, Locks, Holders
  <2>4. Numbers'
    BY <1>4, <2>0 DEF LockQueue, Numbers
  <2>5. Unsent'
    BY <1>4, <2>0 DEF LockQueue, Unsent
  <2>6. Delivery'
    BY <1>4, <2>0 DEF LockQueue, Delivery
  <2>7. Own'
    BY <1>4, <2>0 DEF LockQueue, OwnAnswer, StatusIsStatus, Own
  <2> QED BY <2>1, <2>2, <2>3, <2>4, <2>5, <2>6, <2>7
<1>5. ASSUME NEW c \in Clients, PutAndWait(c) PROVE IInv'
  <2>0. /\ pc' \in [Clients -> Steps]
        /\ pc'[c] = "wait"
        /\ \A d \in Clients : d # c => pc'[d] = pc[d]
    BY <1>5, Advance DEF PutAndWait, Steps
  <2>1. TypeOK'
    <3>1. OnLine(telemetr_request[c]) \in Requests
      BY DEF TypeOK, Requests, OnLine
    <3> QED BY <1>5, <2>0, <3>1 DEF PutAndWait, PutRequest, TypeOK
  <2>2. Counting'
    BY <1>5, <2>0 DEF PutAndWait, PutRequest, Counting
  <2>3. Locks'
    BY <1>5, <2>0 DEF PutAndWait, PutRequest, OnLine, Locks, Holders
  <2>4. Numbers'
    BY <1>5, <2>0 DEF PutAndWait, PutRequest, Numbers, Holders
  <2>5. Unsent'
    <3>1. /\ request_to_com_port' = <<OnLine(telemetr_request[c])>>
          /\ UNCHANGED <<attempts, issued, com, telemetr_request>>
      BY <1>5 DEF PutAndWait, PutRequest
    <3>2. com # "publish"
      BY <1>5 DEF PutAndWait, Locks
    <3>3. telemetr_request[c] # LinePoll =>
            /\ telemetr_request[c] \in 1 .. MaxCommands
            /\ telemetr_request[c] <= issued
            /\ attempts[telemetr_request[c]] = 0
            /\ OnLine(telemetr_request[c]) = telemetr_request[c]
      BY <1>5 DEF PutAndWait, TypeOK, Requests, Numbers, Holders, Unsent, OnLine
    <3>4. \A n \in 1 .. MaxCommands :
            request_to_com_port' = <<n>> =>
              n <= issued' /\ attempts'[n] = IF com' = "publish" THEN 1 ELSE 0
      BY <3>1, <3>2, <3>3 DEF OnLine
    <3>5. ASSUME NEW d \in Clients, pc'[d] \in {"queue", "transfer"},
                 telemetr_request'[d] # LinePoll
          PROVE  /\ attempts'[telemetr_request'[d]] = 0
                 /\ request_to_com_port' # <<telemetr_request'[d]>>
      <4>1. d # c /\ pc[d] \in {"queue", "transfer"}
        BY <2>0, <3>5
      <4>2. telemetr_request[d] # Default /\ telemetr_request[d] # telemetr_request[c]
        BY <3>1, <3>5, <4>1 DEF Numbers, Holders
      <4> QED BY <3>1, <3>5, <4>1, <4>2 DEF Unsent, OnLine
    <3> QED BY <3>1, <3>4, <3>5 DEF Unsent
  <2>6. Delivery'
    BY <1>5, <2>0
       DEF PutAndWait, PutRequest, TypeOK, Steps, Locks, Holders, Delivery
  <2>7. Own'
    BY <1>5, <2>0 DEF PutAndWait, PutRequest, OwnAnswer, StatusIsStatus, Own
  <2> QED BY <2>1, <2>2, <2>3, <2>4, <2>5, <2>6, <2>7
<1>6. ASSUME NEW c \in Clients, WakeUnsignalled(c) PROVE IInv'
  <2>0. /\ pc' \in [Clients -> Steps]
        /\ pc'[c] = "resume"
        /\ \A d \in Clients : d # c => pc'[d] = pc[d]
    BY <1>6, Advance DEF WakeUnsignalled, Steps
  <2>1. TypeOK'
    BY <1>6, <2>0 DEF WakeUnsignalled, TypeOK
  <2>2. Counting'
    BY <1>6, <2>0 DEF WakeUnsignalled, Counting
  <2>3. Locks'
    BY <1>6, <2>0 DEF WakeUnsignalled, Locks, Holders
  <2>4. Numbers'
    BY <1>6, <2>0 DEF WakeUnsignalled, Numbers, Holders
  <2>5. Unsent'
    BY <1>6, <2>0 DEF WakeUnsignalled, Unsent
  <2>6. Delivery'
    BY <1>6, <2>0 DEF WakeUnsignalled, TypeOK, Delivery
  <2>7. Own'
    BY <1>6, <2>0 DEF WakeUnsignalled, OwnAnswer, StatusIsStatus, Own
  <2> QED BY <2>1, <2>2, <2>3, <2>4, <2>5, <2>6, <2>7
<1>7. ASSUME NEW c \in Clients, Resume(c) PROVE IInv'
  <2>0. /\ pc' \in [Clients -> Steps]
        /\ pc'[c] = "send"
        /\ \A d \in Clients : d # c => pc'[d] = pc[d]
    BY <1>7, Advance DEF Resume, Steps
  <2>1. TypeOK'
    <3>1. telemetr_answer' \in [Clients -> Requests]
      BY <1>7 DEF Resume, TypeOK, Answers
    <3> QED BY <1>7, <2>0, <3>1 DEF Resume, TypeOK
  <2>2. Counting'
    BY <1>7, <2>0 DEF Resume, Counting
  <2>3. Locks'
    BY <1>7, <2>0 DEF Resume, Locks, Holders
  <2>4. Numbers'
    BY <1>7, <2>0 DEF Resume, Numbers, Holders
  <2>5. Unsent'
    BY <1>7, <2>0 DEF Resume, Unsent
  <2>6. Delivery'
    BY <1>7, <2>0 DEF Resume, Delivery
  <2>7. Own'
    BY <1>7, <2>0
       DEF Resume, TypeOK, Locks, Holders, Numbers, Unsent, Delivery, OwnAnswer,
           StatusIsStatus, Own
  <2> QED BY <2>1, <2>2, <2>3, <2>4, <2>5, <2>6, <2>7
<1>8. ASSUME NEW c \in Clients, Send(c) PROVE IInv'
  <2>0. /\ pc' \in [Clients -> Steps]
        /\ pc'[c] \in {"receive", "ended"}
        /\ \A d \in Clients : d # c => pc'[d] = pc[d]
        /\ failures_count' \in [Clients -> 0 .. FailuresCount + 1]
        /\ Counting'
    <3>1. CASE Fail(c, 1)
      BY <1>8, <3>1, Failing DEF Send
    <3>2. CASE /\ failures_count' = [failures_count EXCEPT ![c] = 0]
               /\ Goto(c, "receive")
      BY <1>8, <3>2, Advance DEF TypeOK, Counting, Steps
    <3> QED BY <1>8, <3>1, <3>2 DEF Send
  <2>. /\ telemetr_request' \in [Clients -> Requests \cup {LinePoll}]
       /\ telemetr_answer' \in [Clients -> Requests]
       /\ fate' \in [Clients -> {"own", "overtaken", "unsignalled"}]
    BY <1>8 DEF Send, TypeOK, Requests
  <2>. /\ telemetr_request'[c] = Default
       /\ \A d \in Clients : d # c =>
            /\ telemetr_request'[d] = telemetr_request[d]
            /\ telemetr_answer'[d] = telemetr_answer[d]
            /\ fate'[d] = fate[d]
    BY <1>8 DEF Send, TypeOK
  <2>1. TypeOK'
    BY <1>8, <2>0 DEF Send, TypeOK
  <2>2. Counting'
    BY <1>8, <2>0 DEF Send, Counting
  <2>3. Locks'
    BY <1>8, <2>0 DEF Send, Locks, Holders
  <2>4. Numbers'
    BY <1>8, <2>0 DEF Send, TypeOK, Numbers, Holders
  <2>5. Unsent'
    BY <1>8, <2>0 DEF Send, Unsent
  <2>6. Delivery'
    BY <1>8, <2>0 DEF Send, Delivery
  <2>7. Own'
    BY <1>8, <2>0 DEF Send, OwnAnswer, StatusIsStatus, Own
  <2> QED BY <2>1, <2>2, <2>3, <2>4, <2>5, <2>6, <2>7
<1>9. CASE ComportLock
  <2>1. TypeOK'
    <3>1. data_to_comport' \in Requests /\ request_to_com_port' = <<data_to_comport'>>
      BY <1>9 DEF ComportLock, TakeRequest, TypeOK, Requests
    <3> QED BY <1>9, <3>1 DEF ComportLock, TakeRequest, TypeOK
  <2>2. Counting'
    BY <1>9 DEF ComportLock, TakeRequest, Counting
  <2>3. Locks'
    BY <1>9 DEF ComportLock, TakeRequest, TypeOK, Locks
  <2>4. Numbers'
    BY <1>9 DEF ComportLock, TakeRequest, Numbers
  <2>5. Unsent'
    BY <1>9
       DEF ComportLock, TakeRequest, TypeOK, Requests, Locks, Numbers, Unsent,
           Holders
  <2>6. Delivery'
    BY <1>9 DEF ComportLock, TakeRequest, Delivery
  <2>7. Own'
    BY <1>9 DEF ComportLock, TakeRequest, OwnAnswer, StatusIsStatus, Own
  <2> QED BY <2>1, <2>2, <2>3, <2>4, <2>5, <2>6, <2>7
<1>10. CASE Exchange
  <2>1. TypeOK'
    <3>1. default_answer' \in Answers
      BY <1>10 DEF Exchange, TypeOK, Answers
    <3>2. answer_to_socket' \in Answers
      BY <1>10 DEF Exchange, TypeOK, Answers
    <3>3. attempts' \in [1 .. MaxCommands -> Nat]
      BY <1>10 DEF Exchange, TypeOK
    <3>4. fate' \in [Clients -> {"own", "overtaken", "unsignalled"}]
      BY <1>10 DEF Exchange, TypeOK
    <3> QED BY <1>10, <3>1, <3>2, <3>3, <3>4 DEF Exchange, TypeOK
  <2>2. Counting'
    BY <1>10 DEF Exchange, Counting
  <2>3. Locks'
    BY <1>10 DEF Exchange, Locks
  <2>4. Numbers'
    BY <1>10 DEF Exchange, Numbers
  <2>5. Unsent'
    <3>1. \A n \in 1 .. MaxCommands :
            attempts'[n] = IF n = data_to_comport THEN 1 ELSE attempts[n]
      BY <1>10 DEF Exchange, TypeOK, Locks, Unsent
    <3>2. pc' = pc /\ request_to_com_port' = <<data_to_comport>>
      BY <1>10 DEF Exchange, Locks
    <3>3. data_to_comport # Default => data_to_comport <= issued
      BY <1>10 DEF Exchange, TypeOK, Requests, Locks, Unsent
    <3>4. \A c \in Clients : pc[c] \in {"queue", "transfer"}
                             /\ telemetr_request[c] # LinePoll =>
            /\ telemetr_request[c] \in 1 .. MaxCommands
            /\ telemetr_request[c] # data_to_comport
      BY <1>10 DEF Exchange, TypeOK, Requests, Locks, Numbers, Holders, Unsent
    <3>5. \A n \in 1 .. MaxCommands : request_to_com_port' = <<n>> <=> n = data_to_comport
      BY <3>2
    <3>6. com' = "publish" /\ issued' = issued /\ telemetr_request' = telemetr_request
      BY <1>10 DEF Exchange
    <3> QED BY <3>1, <3>2, <3>3, <3>4, <3>5, <3>6 DEF TypeOK, Requests, Unsent
  <2>6. Delivery'
    <3>1. \A c \in Clients :
            fate'[c] = IF pc[c] = "resume" /\ fate[c] = "own" THEN "overtaken" ELSE fate[c]
      BY <1>10 DEF Exchange
    <3>2. answer_to_socket'.to = data_to_comport
      BY <1>10 DEF Exchange
    <3>3. request_to_com_port = <<data_to_comport>>
      BY <1>10 DEF Exchange, Locks
    <3>4. request_to_com_port # <<>>
      BY <3>3
    <3> QED BY <1>10, <3>1, <3>2, <3>3, <3>4 DEF Exchange, TypeOK, Delivery
  <2>7. Own'
    <3>0. \A c \in Clients : telemetr_answer[c] # LinePoll
      BY DEF TypeOK, Requests
    <3>1. ASSUME NEW c \in Clients, pc[c] = "send",
                 telemetr_request[c] \notin {Default, LinePoll}
          PROVE  fate'[c] = fate[c] /\ (attempts[telemetr_request[c]] = 1 =>
                                          attempts'[telemetr_request[c]] = 1)
      <4>1. telemetr_request[c] \in 1 .. MaxCommands
        BY <3>1 DEF TypeOK, Requests
      <4>2. attempts[telemetr_request[c]] = 1 => telemetr_request[c] # data_to_comport
        BY <1>10, <4>1 DEF Exchange, Locks, Unsent
      <4> QED BY <1>10, <3>1, <4>1, <4>2 DEF Exchange, TypeOK
    <3>4. \A c \in Clients : pc[c] = "send" => fate'[c] = fate[c]
      BY <1>10 DEF Exchange, TypeOK
    <3>2. OwnAnswer'
      BY <1>10, <3>0, <3>1, <3>4 DEF Exchange, OwnAnswer, Own
    <3>3. StatusIsStatus'
      BY <1>10 DEF Exchange, StatusIsStatus, Own
    <3> QED BY <3>2, <3>3 DEF Own
  <2> QED BY <2>1, <2>2, <2>3, <2>4, <2>5, <2>6, <2>7
<1>11. CASE PublishCommand
  <2>1. TypeOK'
    BY <1>11 DEF PublishCommand, ClearRequest, Signal, TypeOK, Steps
  <2>2. Counting'
    BY <1>11 DEF PublishCommand, ClearRequest, Signal, Counting
  <2>3. Locks'
    BY <1>11 DEF PublishCommand, ClearRequest, Signal, Locks, Holders
  <2>4. Numbers'
    BY <1>11 DEF PublishCommand, ClearRequest, Signal, Numbers, Holders
  <2>5. Unsent'
    BY <1>11 DEF PublishCommand, ClearRequest, Signal, Unsent
  <2>6. Delivery'
    <3>1. ASSUME NEW c \in Clients, pc[c] = "wait"
          PROVE  /\ answer_to_socket.to = telemetr_request[c]
                 /\ attempts[telemetr_request[c]] = 1
      <4>1. /\ telemetr_request[c] = data_to_comport
            /\ telemetr_request[c] \in 1 .. MaxCommands
        BY <1>11, <3>1 DEF PublishCommand, TypeOK, Requests, Locks, Numbers, Holders, OnLine
      <4> QED BY <1>11, <3>1, <4>1 DEF PublishCommand, Locks, Unsent, Delivery
    <3>2. \A c \in Clients : pc'[c] = IF pc[c] = "wait" THEN "resume" ELSE pc[c]
      BY <1>11 DEF PublishCommand, Signal
    <3> QED BY <1>11, <3>1, <3>2 DEF PublishCommand, ClearRequest, TypeOK, Delivery
  <2>7. Own'
    BY <1>11 DEF PublishCommand, ClearRequest, Signal, OwnAnswer, StatusIsStatus, Own
  <2> QED BY <2>1, <2>2, <2>3, <2>4, <2>5, <2>6, <2>7
<1>12. CASE PublishPoll
  <2>1. TypeOK'
    BY <1>12 DEF PublishPoll, SetDefault, TypeOK
  <2>2. Counting'
    BY <1>12 DEF PublishPoll, SetDefault, Counting
  <2>3. Locks'
    BY <1>12 DEF PublishPoll, SetDefault, Locks
  <2>4. Numbers'
    BY <1>12 DEF PublishPoll, SetDefault, Numbers
  <2>5. Unsent'
    BY <1>12 DEF PublishPoll, SetDefault, Unsent
  <2>6. Delivery'
    BY <1>12 DEF PublishPoll, SetDefault, Locks, Delivery
  <2>7. Own'
    BY <1>12 DEF PublishPoll, SetDefault, OwnAnswer, StatusIsStatus, Own
  <2> QED BY <2>1, <2>2, <2>3, <2>4, <2>5, <2>6, <2>7
<1>13. CASE Pause
  <2>1. TypeOK'
    BY <1>13 DEF Pause, TypeOK
  <2>2. Counting'
    BY <1>13 DEF Pause, Counting
  <2>3. Locks'
    BY <1>13 DEF Pause, Locks
  <2>4. Numbers'
    BY <1>13 DEF Pause, Numbers
  <2>5. Unsent'
    BY <1>13 DEF Pause, Unsent
  <2>6. Delivery'
    BY <1>13 DEF Pause, Delivery
  <2>7. Own'
    BY <1>13 DEF Pause, OwnAnswer, StatusIsStatus, Own
  <2> QED BY <2>1, <2>2, <2>3, <2>4, <2>5, <2>6, <2>7
<1>14. CASE LineChanges
  <2>1. TypeOK'
    BY <1>14 DEF LineChanges, TypeOK
  <2>2. Counting'
    BY <1>14 DEF LineChanges, Counting
  <2>3. Locks'
    BY <1>14 DEF LineChanges, Locks
  <2>4. Numbers'
    BY <1>14 DEF LineChanges, Numbers
  <2>5. Unsent'
    BY <1>14 DEF LineChanges, Unsent
  <2>6. Delivery'
    BY <1>14 DEF LineChanges, Delivery
  <2>7. Own'
    BY <1>14 DEF LineChanges, OwnAnswer, StatusIsStatus, Own
  <2> QED BY <2>1, <2>2, <2>3, <2>4, <2>5, <2>6, <2>7
<1>15. CASE UNCHANGED vars
  BY <1>15
     DEF vars, Counting, TypeOK, Requests, Answers, Steps, Locks, Holders,
         Numbers, Unsent, Delivery, OwnAnswer, StatusIsStatus, Own
<1> QED BY <1>1, <1>2, <1>3, <1>4, <1>5, <1>6, <1>7, <1>8, <1>9, <1>10,
          <1>11, <1>12, <1>13, <1>14, <1>15, <1>16
       DEF Next, SocketThread, ComportThread
-----------------------------------------------------------------------------
(* All starts with no request, no answer and nobody in a mutex.            *)
LEMMA Initially == Init => IInv
BY ClientsAssumption, CountsAssumption, ThreadsAssumption
   DEF Init, NoAnswer, Default, LinePoll, Comport, Nobody, IInv, TypeOK, Requests, Answers,
       Steps, Counting, Locks, Holders, Numbers, Unsent, Delivery, Own, OwnAnswer,
       StatusIsStatus

(* The invariant the other theorems follow from.                           *)
THEOREM Invariant == Spec => []IInv
BY Initially, Inductive, PTL DEF Spec

(* The variables keep their types: the buffer never holds two requests,    *)
(* and no connection counts failures beyond the end of its loop.           *)
THEOREM TypeCorrect == Spec => []TypeOK
<1>1. IInv => TypeOK
  BY DEF IInv
<1> QED BY <1>1, Invariant, PTL

(* However many connections there are, each is given the answer to its own *)
(* command, or a poll's if it was overtaken, unless it woke unsignalled.   *)
THEOREM AnswerIsOwn == Spec => []OwnAnswer
<1>1. IInv => OwnAnswer
  BY DEF IInv, Own
<1> QED BY <1>1, Invariant, PTL

(* No command reaches the serial line twice.                               *)
THEOREM CommandSentOnce == Spec => []SentOnce
<1>1. IInv => SentOnce
  BY DEF IInv, Unsent, SentOnce
<1> QED BY <1>1, Invariant, PTL

(* A poll is answered with the answer to a poll.                           *)
THEOREM PollGetsStatus == Spec => []StatusIsStatus
<1>1. IInv => StatusIsStatus
  BY DEF IInv, Own
<1> QED BY <1>1, Invariant, PTL

(* Commands and polls never get each other's answers.                      *)
THEOREM AnswersMatched == Spec => []AnswersMatch
BY AnswerIsOwn, PollGetsStatus, PTL DEF AnswersMatch

(* The one connection that waits owns the queue and the request.           *)
THEOREM WaitsAlone == Spec => []WaiterAlone
<1>1. IInv => WaiterAlone
  BY DEF IInv, Locks, Holders, WaiterAlone
<1> QED BY <1>1, Invariant, PTL


-----------------------------------------------------------------------------
(***************************************************************************)
(* Numbers.  The library's theorem on minimal elements needs no operator   *)
(* as a parameter.                                                         *)
(***************************************************************************)
LEMMA Least ==
  ASSUME NEW S, S \subseteq Nat, S # {}
  PROVE  \E x \in S : \A y \in S : x <= y
<1> DEFINE R == OpToRel(<, Nat)
<1>1. IsWellFoundedOn(R, Nat)
  BY NatLessThanWellFounded
<1>2. \A x, y \in Nat : x < y => <<x, y>> \in R
  BY DEF OpToRel
<1> HIDE DEF R
<1>3. PICK x \in S : \A y \in S : ~(<<y, x>> \in R)
  BY <1>1, WFMin
<1>4. \A y \in S : x <= y
  <2>1. ASSUME NEW y \in S PROVE x <= y
    <3>1. x \in Nat /\ y \in Nat
      OBVIOUS
    <3>2. ~(y < x)
      BY <1>2, <1>3, <3>1
    <3>3. QED
      BY <3>1, <3>2
  <2>2. QED
    BY <2>1
<1>5. QED
  BY <1>4

\* The same for the greatest of a bounded set.
LEMMA Greatest ==
  ASSUME NEW n \in Nat, NEW S, S \subseteq 0 .. n, S # {}
  PROVE  \E x \in S : \A y \in S : x >= y
<1> DEFINE T == {x \in 0 .. n : n - x \in S}
<1>1. T \subseteq Nat
  OBVIOUS
<1>2. T # {}
  <2>1. PICK y \in S : TRUE
    OBVIOUS
  <2>2. n - y \in 0 .. n /\ n - (n - y) = y
    OBVIOUS
  <2>3. n - y \in T
    BY <2>2
  <2>4. QED
    BY <2>3
<1>3. PICK x \in T : \A y \in T : x <= y
  BY <1>1, <1>2, Least
<1>4. \A y \in S : n - y \in T
  <2>1. ASSUME NEW y \in S PROVE n - y \in T
    <3>1. n - y \in 0 .. n /\ n - (n - y) = y
      OBVIOUS
    <3>2. QED
      BY <3>1
  <2>2. QED
    BY <2>1
<1>5. n - x \in S /\ x \in 0 .. n
  OBVIOUS
<1>6. \A y \in S : n - x >= y
  <2>1. ASSUME NEW y \in S PROVE n - x >= y
    <3>1. x <= n - y
      BY <1>3, <1>4
    <3>2. QED
      BY <1>5, <3>1
  <2>2. QED
    BY <2>1
<1>7. QED
  BY <1>5, <1>6

\* The operators that choose them.
LEMMA LowerUpper ==
  ASSUME NEW n \in Nat, NEW S, S \subseteq 0 .. n, S # {}
  PROVE  /\ LowerOf(S) \in S /\ \A y \in S : LowerOf(S) <= y
         /\ UpperOf(S) \in S /\ \A y \in S : UpperOf(S) >= y
<1>1. S \subseteq Nat
  OBVIOUS
<1>2. \E x \in S : \A y \in S : x <= y
  BY <1>1, Least
<1>3. \E x \in S : \A y \in S : x >= y
  BY Greatest
<1>4. QED
  BY <1>2, <1>3 DEF LowerOf, UpperOf
-----------------------------------------------------------------------------
(***************************************************************************)
(* The invariant of the ring                                               *)
(***************************************************************************)

\* The gateway keeps the newest messages, without a gap.
Contiguous ==
  /\ Len(messages) <= given
  /\ \A i \in 1 .. Len(messages) : messages[i].number = given - Len(messages) + i

\* It forgets none before it has MaxCount of them.
Numbered ==
  /\ upper_message_id = 0 => Len(messages) = 0
  /\ Len(messages) < MaxCount => upper_message_id = Len(messages)

\* The spider's last id is as far behind the newest id as the last message it
\* took is behind the newest message.  It is 0 when there was no message, or when
\* it was computed for the id MaxId; neither is confused with a later message.
Behind == given - passed
Follows ==
  last_message_remote_id # NoId /\ ~foreign =>
    /\ Behind <= MaxBehind \/ Behind < MaxCount
    /\ \/ last_message_remote_id = upper_message_id - Behind
       \/ last_message_remote_id = upper_message_id - Behind + MaxId
    /\ last_message_remote_id = 0 =>
         \/ Behind >= Len(messages)
         \/ Behind = Len(messages) - 1 /\ upper_message_id = Behind

RingInv == RingTyped /\ Contiguous /\ Numbered /\ Follows

\* The types once more, as arithmetic.
LEMMA RingNumbers ==
  ASSUME RingTyped
  PROVE  /\ Len(messages) \in Nat /\ Len(messages) <= MaxCount
         /\ MaxCount \in Nat /\ MaxCount > 0 /\ MaxId \in Nat /\ MaxCount + 1 < MaxId
         /\ MaxBehind \in Nat /\ MaxBehind + MaxCount <= MaxId
         /\ upper_message_id \in Nat /\ upper_message_id <= MaxId
         /\ last_message_remote_id \in Int /\ last_message_remote_id >= -1
         /\ last_message_remote_id <= MaxId
         /\ given \in Nat /\ given <= MaxMessages /\ MaxMessages \in Nat
         /\ passed \in Nat /\ passed <= given
         /\ \A i \in 1 .. Len(messages) : messages[i] \in Message
<1>1. messages \in Seq(Message) /\ Len(messages) <= MaxCount
  BY DEF RingTyped
<1>2. \A i \in 1 .. Len(messages) : messages[i] \in Message
  BY <1>1, ElementOfSeq
<1>3. Len(messages) \in Nat
  BY <1>1, LenProperties
<1>4. QED
  BY <1>1, <1>2, <1>3, RingAssumption, BehindAssumption, BatchAssumption DEF RingTyped, NoId

\* What the gateway keeps of a sequence of messages.
LEMMA NewestKeeps ==
  ASSUME NEW s \in Seq(Message)
  PROVE  LET t == Newest(s)
         IN  /\ t \in Seq(Message)
             /\ Len(t) = IF Len(s) > MaxCount THEN MaxCount ELSE Len(s)
             /\ \A i \in 1 .. Len(t) : t[i] = s[Len(s) - Len(t) + i]
<1> DEFINE n == Len(s)
<1>0. n \in Nat /\ MaxCount \in Nat /\ MaxCount > 0
  BY RingAssumption, LenProperties
<1>1. CASE n > MaxCount
  <2> DEFINE m == n - MaxCount + 1
  <2>1. m \in Int /\ n \in Int /\ m <= n /\ n - m + 1 = MaxCount /\ m >= 1
    BY <1>0, <1>1
  <2>2. \A i \in m .. n : s[i] \in Message
    BY <1>0, <2>1, ElementOfSeq
  <2>3. Newest(s) = SubSeq(s, m, n)
    BY <1>1 DEF Newest
  <2> HIDE DEF m
  <2>4. /\ SubSeq(s, m, n) \in Seq(Message)
        /\ Len(SubSeq(s, m, n)) = MaxCount
        /\ \A i \in 1 .. MaxCount : SubSeq(s, m, n)[i] = s[m + i - 1]
    BY <2>1, <2>2, SubSeqProperties
  <2>5. \A i \in 1 .. MaxCount : m + i - 1 = n - MaxCount + i
    BY <1>0 DEF m
  <2>6. QED
    BY <1>1, <2>3, <2>4, <2>5
<1>2. CASE ~(n > MaxCount)
  <2>1. Newest(s) = s
    BY <1>2 DEF Newest
  <2>2. QED
    BY <1>0, <1>2, <2>1
<1>3. QED
  BY <1>1, <1>2

\* The messages after k new ones.
LEMMA MessagesAdded ==
  ASSUME RingInv, NEW k \in 1 .. MaxBatch, AddMessages(k)
  PROVE  /\ messages' \in Seq(Message)
         /\ Len(messages') = IF Len(messages) + k > MaxCount THEN MaxCount
                             ELSE Len(messages) + k
         /\ \A i \in 1 .. Len(messages') :
              messages'[i].number = given' - Len(messages') + i
<1>0. /\ messages \in Seq(Message) /\ Len(messages) \in Nat /\ given \in Nat
      /\ k \in Nat /\ MaxMessages \in Nat /\ MaxCount \in Nat
  BY RingNumbers, BatchAssumption DEF RingInv, RingTyped
<1>1. PICK known \in [1 .. k -> IF Unknown THEN BOOLEAN ELSE {TRUE}] :
        messages' = Newest(messages \o
                      [i \in 1 .. k |-> [number |-> given + i, known |-> known[i]]])
  BY DEF AddMessages
<1> DEFINE new == [i \in 1 .. k |-> [number |-> given + i, known |-> known[i]]]
           all == messages \o new
<1>2. \A i \in 1 .. k : known[i] \in BOOLEAN
  OBVIOUS
<1>3. given + k <= MaxMessages
  BY DEF AddMessages
<1>4. \A i \in 1 .. k : new[i] \in Message /\ new[i].number = given + i
  BY <1>0, <1>2, <1>3 DEF Message
<1>5. new \in Seq(Message) /\ Len(new) = k
  <2>1. new \in [1 .. k -> Message]
    BY <1>4
  <2>2. new \in Seq(Message)
    BY <1>0, <2>1, SeqDef
  <2>3. QED
    BY <1>0, <2>1, <2>2, LenProperties
<1> HIDE DEF new
<1>6. /\ all \in Seq(Message) /\ Len(all) = Len(messages) + k
      /\ \A i \in 1 .. Len(messages) + k :
           all[i] = IF i <= Len(messages) THEN messages[i] ELSE new[i - Len(messages)]
  BY <1>0, <1>5, ConcatProperties
<1>7. \A i \in 1 .. Len(messages) + k : all[i].number = given - Len(messages) + i
  <2>1. ASSUME NEW i \in 1 .. Len(messages) + k
        PROVE  all[i].number = given - Len(messages) + i
    <3>1. CASE i <= Len(messages)
      BY <1>0, <1>6, <3>1 DEF RingInv, Contiguous
    <3>2. CASE ~(i <= Len(messages))
      <4>1. i - Len(messages) \in 1 .. k
        BY <1>0, <3>2
      <4>2. all[i].number = given + (i - Len(messages))
        BY <1>4, <1>6, <3>2, <4>1
      <4>3. QED
        BY <1>0, <4>2
    <3>3. QED
      BY <3>1, <3>2
  <2>2. QED
    BY <2>1
<1>8. messages' = Newest(all)
  BY <1>1 DEF new
<1> HIDE DEF all
<1>9. /\ messages' \in Seq(Message)
      /\ Len(messages') = IF Len(all) > MaxCount THEN MaxCount ELSE Len(all)
      /\ \A i \in 1 .. Len(messages') : messages'[i] = all[Len(all) - Len(messages') + i]
  BY <1>6, <1>8, NewestKeeps
<1>10. ASSUME NEW i \in 1 .. Len(messages')
       PROVE  messages'[i].number = given' - Len(messages') + i
  <2> DEFINE j == Len(all) - Len(messages') + i
  <2>1. Len(messages') \in Nat /\ j \in 1 .. Len(messages) + k
    BY <1>0, <1>6, <1>9
  <2>2. messages'[i].number = given - Len(messages) + j
    BY <1>7, <1>9, <2>1
  <2>3. given' = given + k
    BY DEF AddMessages
  <2>4. QED
    BY <1>0, <1>6, <2>1, <2>2, <2>3
<1>11. QED
  BY <1>6, <1>9, <1>10

\* Adding messages keeps the ring's invariant.
LEMMA AddKeeps ==
  ASSUME RingInv, NEW k \in 1 .. MaxBatch, AddMessages(k)
  PROVE  RingInv'
<1> DEFINE n == Len(messages)
           U == upper_message_id
<1>0. /\ n \in Nat /\ n <= MaxCount /\ MaxCount > 0 /\ MaxCount \in Nat
      /\ MaxId \in Nat /\ MaxCount + 1 < MaxId /\ MaxBehind \in Nat
      /\ MaxBehind + MaxCount <= MaxId /\ MaxMessages \in Nat
      /\ U \in Nat /\ U <= MaxId /\ given \in Nat /\ passed \in Nat /\ passed <= given
      /\ last_message_remote_id \in Int /\ k \in Nat /\ k >= 1 /\ k <= MaxId
  BY RingNumbers, BatchAssumption DEF RingInv
<1>1. /\ messages' \in Seq(Message)
      /\ Len(messages') = IF n + k > MaxCount THEN MaxCount ELSE n + k
      /\ \A i \in 1 .. Len(messages') :
           messages'[i].number = given' - Len(messages') + i
  BY MessagesAdded
<1>2. /\ given' = given + k /\ given + k <= MaxMessages
      /\ upper_message_id' = IF U + k > MaxId THEN U + k - MaxId ELSE U + k
      /\ last_message_remote_id # NoId => given + k - passed <= MaxBehind
      /\ UNCHANGED <<last_message_remote_id, log, passed, foreign>>
  <2>1. NextUpper(k) = IF U + k > MaxId THEN U + k - MaxId ELSE U + k
    BY <1>0, SMT DEF NextUpper
  <2>2. QED
    BY <2>1 DEF AddMessages
<1>3. Contiguous'
  <2>1. Len(messages') <= given'
    BY <1>0, <1>1, <1>2 DEF RingInv, Contiguous
  <2>2. QED
    BY <1>1, <2>1 DEF Contiguous
<1>4. upper_message_id' \in 1 .. MaxId
  BY <1>0, <1>2
<1>5. n < MaxCount => U = n
  BY DEF RingInv, Numbered
<1>6. Numbered'
  <2>1. Len(messages') < MaxCount => upper_message_id' = Len(messages')
    BY <1>0, <1>1, <1>2, <1>5
  <2>2. QED
    BY <1>4, <2>1 DEF Numbered
<1>7. RingTyped'
  <2>1. Len(messages') <= MaxCount
    BY <1>0, <1>1
  <2>2. given' \in 0 .. MaxMessages /\ passed' \in 0 .. given'
    BY <1>0, <1>2
  <2>3. UNCHANGED <<last_message_remote_id, log, foreign>>
    BY <1>2
  <2>4. QED
    BY <1>1, <1>4, <2>1, <2>2, <2>3 DEF RingInv, RingTyped
<1>8. Follows'
  <2> SUFFICES ASSUME last_message_remote_id' # NoId, ~foreign' PROVE Follows'
    BY DEF Follows
  <2> DEFINE L == last_message_remote_id
             q == given - passed
  <2>1. L # NoId /\ ~foreign /\ L' = L
    BY <1>2
  <2>2. /\ L = U - q \/ L = U - q + MaxId
        /\ L = 0 => q >= n \/ (q = n - 1 /\ U = q)
    BY <2>1 DEF RingInv, Follows, Behind
  <2>3. given' - passed' = q + k /\ q + k <= MaxBehind /\ q \in Nat
    BY <1>0, <1>2, <2>1
  <2>4. L <= MaxId
    BY RingNumbers DEF RingInv
  <2>5. /\ L = upper_message_id' - (q + k) \/ L = upper_message_id' - (q + k) + MaxId
    BY <1>0, <1>2, <1>4, <2>2, <2>3, <2>4
  <2>6. L = 0 => q + k >= Len(messages')
    <3>1. Len(messages') <= n + k /\ Len(messages') <= MaxCount
      BY <1>0, <1>1
    <3>2. CASE q >= n
      BY <1>0, <2>3, <3>1, <3>2
    <3>3. CASE q = n - 1 /\ U = q
      <4>1. ~(n < MaxCount)
        BY <1>0, <1>5, <3>3
      <4>2. q + k >= MaxCount
        BY <1>0, <3>3, <4>1
      <4>3. QED
        BY <1>0, <1>1, <2>3, <3>1, <4>2
    <3>4. QED
      BY <2>2, <3>2, <3>3
  <2>7. QED
    BY <2>1, <2>3, <2>5, <2>6 DEF Follows, Behind
<1>9. QED
  BY <1>3, <1>6, <1>7, <1>8 DEF RingInv
-----------------------------------------------------------------------------
(***************************************************************************)
(* The ids the spider computes                                             *)
(***************************************************************************)

\* The id of the message that is b behind the newest; 0 instead of MaxId for the
\* oldest message of an answer.
LEMMA IdOfOffset ==
  ASSUME RingInv, NEW o \in 0 .. Len(messages) - 1
  PROVE  LET b == Len(messages) - 1 - o
         IN  /\ IdAt(o) \in 0 .. MaxId
             /\ IdAt(o) = upper_message_id - b \/ IdAt(o) = upper_message_id - b + MaxId
             /\ IdAt(o) = 0 => o = 0 /\ FirstId = 0 /\ upper_message_id = b
             /\ messages[o + 1] \in Message /\ Number(o) = given - b
             /\ Number(o) \in 1 .. given
<1> DEFINE n == Len(messages)
           U == upper_message_id
<1>0. /\ n \in Nat /\ n <= MaxCount /\ MaxCount \in Nat /\ MaxId \in Nat
      /\ MaxCount + 1 < MaxId /\ U \in Nat /\ U <= MaxId /\ given \in Nat
      /\ \A i \in 1 .. n : messages[i] \in Message
  BY RingNumbers DEF RingInv
<1>1. FirstId = IF U - n + 1 < 0 THEN U - n + 1 + MaxId ELSE U - n + 1
  BY DEF FirstId
<1>2. IdAt(o) = IF FirstId + o > MaxId THEN FirstId + o - MaxId ELSE FirstId + o
  BY <1>0, <1>1, SMT DEF IdAt
<1>3. o + 1 \in 1 .. n
  BY <1>0
<1>4. n <= given /\ Number(o) = given - n + (o + 1)
  BY <1>3 DEF RingInv, Contiguous, Number
<1>5. U = 0 => n = 0
  BY DEF RingInv, Numbered
<1> HIDE DEF n, U
<1>6. Number(o) = given - (n - 1 - o) /\ Number(o) \in 1 .. given
  BY <1>0, <1>3, <1>4
<1>7. /\ IdAt(o) \in 0 .. MaxId
      /\ IdAt(o) = U - (n - 1 - o) \/ IdAt(o) = U - (n - 1 - o) + MaxId
      /\ IdAt(o) = 0 => o = 0 /\ FirstId = 0 /\ U = n - 1 - o
  BY <1>0, <1>1, <1>2, <1>3, <1>5
<1>8. QED
  BY <1>0, <1>3, <1>6, <1>7 DEF n, U

\* The spider's first answer: everything counts as taken.
LEMMA FirstTakesAll ==
  ASSUME RingInv, last_message_remote_id = NoId
  PROVE  Fresh = {}
<1> SUFFICES ASSUME NEW o \in 0 .. Len(messages) - 1 PROVE Taken(IdAt(o), UpperLast)
  BY DEF Fresh
<1> DEFINE n == Len(messages)
           U == upper_message_id
<1>0. /\ n \in Nat /\ n <= MaxCount /\ MaxCount \in Nat /\ MaxId \in Nat
      /\ MaxCount + 1 < MaxId /\ U \in Nat /\ U <= MaxId /\ o \in 0 .. n - 1
  BY RingNumbers DEF RingInv
<1>1. FirstId = IF U - n + 1 < 0 THEN U - n + 1 + MaxId ELSE U - n + 1
  BY DEF FirstId
<1>2. IdAt(o) = IF FirstId + o > MaxId THEN FirstId + o - MaxId ELSE FirstId + o
  BY <1>0, <1>1, SMT DEF IdAt
<1>3. UpperLast = U
  BY DEF UpperLast
<1> HIDE DEF n, U
<1>4. CASE FirstId <= U
  <2>1. IdAt(o) <= U
    BY <1>0, <1>1, <1>2, <1>4
  <2>2. TakenStraight(IdAt(o), U)
    BY <1>0, <1>1, <1>4, <2>1 DEF TakenStraight, U
  <2>3. QED
    BY <1>3, <2>2 DEF Taken
<1>5. CASE ~(FirstId <= U)
  <2>1. FirstId > U
    BY <1>0, <1>1, <1>5
  <2>2. (IdAt(o) > U /\ IdAt(o) >= FirstId) \/ IdAt(o) <= U
    BY <1>0, <1>1, <1>2, <2>1
  <2>3. TakenAfterWrap(IdAt(o), U)
    BY <1>0, <1>1, <2>1, <2>2 DEF TakenAfterWrap, U
  <2>4. QED
    BY <1>3, <2>3 DEF Taken
<1>6. QED
  BY <1>4, <1>5
-----------------------------------------------------------------------------
(***************************************************************************)
(* A poll                                                                  *)
(***************************************************************************)

\* The messages a poll accepts: all new ones, or those before the first of
\* them that has no text.
Accepted == IF TextMissing = {} THEN Fresh
            ELSE {o \in Fresh : o < LowerOf(TextMissing)}

\* The spider ends with the newest accepted message, or where it was.
LEMMA PollResult ==
  ASSUME RingInv, Poll
  PROVE  /\ \/ /\ Accepted = {}
               /\ last_message_remote_id' = UpperLast
               /\ passed' = IF last_message_remote_id = NoId THEN given ELSE passed
               /\ foreign' = foreign
            \/ \E o \in Accepted : /\ last_message_remote_id' = IdAt(o)
                                   /\ passed' = Number(o)
                                   /\ foreign' = FALSE
         /\ log' \subseteq {Number(o) : o \in Fresh}
         /\ UNCHANGED <<messages, upper_message_id, given>>
<1>1. /\ log' = IF TextMissing = {} THEN {Number(o) : o \in Fresh} ELSE {}
      /\ last_message_remote_id' = IF Accepted = {} THEN UpperLast
                                   ELSE IdAt(UpperOf(Accepted))
      /\ passed' = IF Accepted # {} THEN Number(UpperOf(Accepted))
                   ELSE IF last_message_remote_id = NoId THEN given ELSE passed
      /\ foreign' = (foreign /\ Accepted = {})
      /\ UNCHANGED <<messages, upper_message_id, given>>
  BY DEF Poll, Accepted
<1>2. CASE Accepted = {}
  <2>1. (foreign /\ Accepted = {}) = foreign
    BY <1>2 DEF RingInv, RingTyped
  <2>2. QED
    BY <1>1, <1>2, <2>1
<1>3. CASE Accepted # {}
  <2>1. Len(messages) \in Nat
    BY RingNumbers DEF RingInv
  <2>2. Accepted \subseteq 0 .. Len(messages)
    BY <2>1 DEF Accepted, Fresh
  <2>3. UpperOf(Accepted) \in Accepted
    BY <1>3, <2>1, <2>2, LowerUpper
  <2>4. foreign' = FALSE
    BY <1>1, <1>3
  <2>5. QED
    BY <1>1, <1>3, <2>3, <2>4
<1>4. QED
  BY <1>2, <1>3

\* So does a poll of the spider.
LEMMA PollKeeps ==
  ASSUME RingInv, Poll
  PROVE  RingInv'
<1> DEFINE n == Len(messages)
           U == upper_message_id
<1>0. /\ n \in Nat /\ n <= MaxCount /\ MaxCount \in Nat /\ MaxId \in Nat
      /\ MaxCount + 1 < MaxId /\ MaxBehind \in Nat
      /\ U \in Nat /\ U <= MaxId /\ given \in Nat /\ given <= MaxMessages
      /\ MaxMessages \in Nat /\ passed \in Nat /\ passed <= given
  BY RingNumbers DEF RingInv
<1>1. /\ log' \subseteq {Number(o) : o \in Fresh}
      /\ UNCHANGED <<messages, upper_message_id, given>>
  BY PollResult
<1>2. Fresh \subseteq 0 .. n - 1
  BY DEF Fresh
<1>3. log' \subseteq 1 .. MaxMessages
  <2>1. ASSUME NEW o \in Fresh PROVE Number(o) \in 1 .. MaxMessages
    <3>1. Number(o) \in 1 .. given
      BY <1>2, IdOfOffset
    <3>2. QED
      BY <1>0, <3>1
  <2>2. QED
    BY <1>1, <2>1
<1>4. Contiguous' /\ Numbered'
  BY <1>1 DEF RingInv, Contiguous, Numbered
<1>5. CASE \E o \in Accepted : /\ last_message_remote_id' = IdAt(o)
                               /\ passed' = Number(o)
                               /\ foreign' = FALSE
  <2>1. PICK o \in Accepted : /\ last_message_remote_id' = IdAt(o)
                              /\ passed' = Number(o)
                              /\ foreign' = FALSE
    BY <1>5
  <2>2. o \in 0 .. n - 1
    BY <1>2 DEF Accepted
  <2> DEFINE b == n - 1 - o
  <2>3. /\ IdAt(o) \in 0 .. MaxId
        /\ IdAt(o) = U - b \/ IdAt(o) = U - b + MaxId
        /\ IdAt(o) = 0 => o = 0 /\ FirstId = 0 /\ U = b
        /\ Number(o) = given - b /\ Number(o) \in 1 .. given
    BY <2>2, IdOfOffset
  <2>4. last_message_remote_id' \in NoId .. MaxId /\ passed' \in 0 .. given'
    BY <1>0, <1>1, <2>1, <2>3 DEF NoId
  <2>5. given' - passed' = b /\ b < MaxCount
    BY <1>0, <1>1, <2>1, <2>2, <2>3
  <2>6. Follows'
    BY <1>0, <1>1, <2>1, <2>2, <2>3, <2>5 DEF Follows, Behind
  <2>7. RingTyped'
    BY <1>1, <1>3, <2>1, <2>4 DEF RingInv, RingTyped
  <2>8. QED
    BY <1>4, <2>6, <2>7 DEF RingInv
<1>6. CASE /\ last_message_remote_id' = UpperLast
           /\ passed' = IF last_message_remote_id = NoId THEN given ELSE passed
           /\ foreign' = foreign
  <2>1. CASE last_message_remote_id = NoId
    <3>1. last_message_remote_id' = U /\ passed' = given
      BY <1>6, <2>1 DEF UpperLast
    <3>2. U = 0 => n = 0
      BY DEF RingInv, Numbered
    <3>3. Follows'
      BY <1>0, <1>1, <3>1, <3>2 DEF Follows, Behind
    <3>4. last_message_remote_id' \in NoId .. MaxId /\ passed' \in 0 .. given'
      BY <1>0, <1>1, <3>1 DEF NoId
    <3>5. RingTyped'
      BY <1>1, <1>3, <1>6, <3>4 DEF RingInv, RingTyped
    <3>6. QED
      BY <1>4, <3>3, <3>5 DEF RingInv
  <2>2. CASE last_message_remote_id # NoId
    <3>1. UNCHANGED <<last_message_remote_id, passed, foreign>>
      BY <1>6, <2>2 DEF UpperLast
    <3>2. Follows'
      BY <1>1, <3>1 DEF RingInv, Follows, Behind
    <3>3. RingTyped'
      BY <1>1, <1>3, <3>1 DEF RingInv, RingTyped
    <3>4. QED
      BY <1>4, <3>2, <3>3 DEF RingInv
  <2>3. QED
    BY <2>1, <2>2
<1>7. QED
  BY <1>5, <1>6, PollResult

\* Every step keeps the ring's invariant.
LEMMA RingNextInv ==
  ASSUME RingInv, [RingNext]_ring
  PROVE  RingInv'
<1>1. CASE Restart
  <2>1. messages' = <<>> /\ messages' \in Seq(Message) /\ Len(messages') = 0
    BY <1>1 DEF Restart
  <2>2. /\ upper_message_id' = 0
        /\ foreign' = (last_message_remote_id # NoId)
        /\ UNCHANGED <<last_message_remote_id, log, given, passed>>
    BY <1>1 DEF Restart
  <2>3. given \in Nat /\ MaxCount > 0 /\ MaxCount \in Nat /\ MaxId \in Nat
    BY RingNumbers DEF RingInv
  <2>4. Contiguous' /\ Numbered' /\ Follows'
    <3>1. Contiguous'
      BY <2>1, <2>2, <2>3 DEF Contiguous
    <3>2. Numbered'
      BY <2>1, <2>2 DEF Numbered
    <3>3. Follows'
      BY <2>2 DEF Follows
    <3>4. QED
      BY <3>1, <3>2, <3>3
  <2>5. foreign' \in BOOLEAN
    BY <2>2
  <2>6. RingTyped'
    BY <2>1, <2>2, <2>3, <2>5 DEF RingInv, RingTyped
  <2>7. QED
    BY <2>4, <2>6 DEF RingInv
<1>2. CASE Forget
  <2>1. /\ last_message_remote_id' = NoId /\ foreign' = FALSE
        /\ UNCHANGED <<messages, upper_message_id, log, given, passed>>
    BY <1>2 DEF Forget
  <2>2. NoId \in NoId .. MaxId
    BY RingAssumption DEF NoId
  <2>3. QED
    BY <2>1, <2>2 DEF RingInv, RingTyped, Contiguous, Numbered, Follows
<1>3. CASE UNCHANGED ring
  BY <1>3 DEF ring, RingInv, RingTyped, Contiguous, Numbered, Follows, Behind
<1>4. QED
  BY <1>1, <1>2, <1>3, AddKeeps, PollKeeps DEF RingNext

\* The ring's invariant holds at the start.
LEMMA RingInitInv == RingInit => RingInv
<1> SUFFICES ASSUME RingInit PROVE RingInv
  OBVIOUS
<1>1. messages = <<>> /\ messages \in Seq(Message) /\ Len(messages) = 0
  BY DEF RingInit
<1>2. MaxCount \in Nat /\ MaxCount > 0 /\ MaxId \in Nat /\ MaxMessages \in Nat
  BY RingAssumption, BatchAssumption
<1>3. NoId \in NoId .. MaxId
  BY <1>2 DEF NoId
<1>4. RingTyped
  <2>1. /\ upper_message_id = 0 /\ last_message_remote_id = NoId /\ log = {}
        /\ given = 0 /\ passed = 0 /\ foreign = FALSE
    BY DEF RingInit
  <2>2. Len(messages) <= MaxCount /\ 0 \in 0 .. MaxId /\ 0 \in 0 .. MaxMessages
        /\ 0 \in 0 .. 0
    BY <1>1, <1>2
  <2>3. QED
    BY <1>1, <1>3, <2>1, <2>2 DEF RingTyped
<1>5. QED
  BY <1>1, <1>2, <1>4 DEF RingInit, RingInv, Contiguous, Numbered, Follows

\* The id kept by the spider is that of the newest message it took.
LEMMA RingAgrees == RingInv => IdsAgree
<1> SUFFICES ASSUME RingInv, last_message_remote_id # NoId, ~foreign,
                    Len(messages) > 0, NEW o \in 0 .. Len(messages) - 1,
                    Number(o) = passed
             PROVE  IdAt(o) = last_message_remote_id \/ BeginsAtWrap
  BY DEF RingInv, IdsAgree, IdOfPassed
<1> DEFINE n == Len(messages)
           U == upper_message_id
           L == last_message_remote_id
           b == n - 1 - o
<1>0. /\ n \in Nat /\ n <= MaxCount /\ MaxCount \in Nat /\ MaxId \in Nat
      /\ MaxCount + 1 < MaxId /\ U \in Nat /\ U <= MaxId /\ given \in Nat
      /\ passed \in Nat /\ L \in Int /\ L <= MaxId /\ L >= -1
  BY RingNumbers DEF RingInv
<1>1. /\ IdAt(o) \in 0 .. MaxId
      /\ IdAt(o) = U - b \/ IdAt(o) = U - b + MaxId
      /\ IdAt(o) = 0 => o = 0 /\ FirstId = 0 /\ U = b
      /\ Number(o) = given - b
  BY IdOfOffset
<1>2. /\ L = U - b \/ L = U - b + MaxId
      /\ L = 0 => b >= n \/ (b = n - 1 /\ U = b)
  <2>1. Behind = b
    BY <1>0, <1>1 DEF Behind
  <2>2. QED
    BY <2>1 DEF RingInv, Follows
<1>3. L # NoId
  OBVIOUS
<1>4. CASE IdAt(o) = 0
  <2>1. FirstId = 0 /\ U = n - 1
    BY <1>0, <1>1, <1>4
  <2>2. n < MaxCount => U = n
    BY DEF RingInv, Numbered
  <2>3. n = MaxCount
    BY <1>0, <2>1, <2>2
  <2>4. QED
    BY <2>1, <2>3 DEF BeginsAtWrap
<1>5. CASE IdAt(o) # 0 /\ L # 0
  <2>1. L >= 0
    BY <1>0, <1>3 DEF NoId
  <2>2. IdAt(o) = L
    BY <1>0, <1>1, <1>2, <1>5, <2>1
  <2>3. QED
    BY <2>2
<1>6. CASE IdAt(o) # 0 /\ L = 0
  <2>1. b = n - 1 /\ U = b /\ o = 0
    BY <1>0, <1>2, <1>6
  <2>2. FirstId = 0
    BY <1>0, <2>1, SMT DEF FirstId
  <2>3. n < MaxCount => U = n
    BY DEF RingInv, Numbered
  <2>4. n = MaxCount
    <3>1. U = n - 1
      BY <1>0, <2>1
    <3>2. QED
      BY <1>0, <2>3, <3>1
  <2>5. QED
    BY <2>2, <2>4 DEF BeginsAtWrap
<1>7. QED
  BY <1>4, <1>5, <1>6
-----------------------------------------------------------------------------
(***************************************************************************)
(* Which messages count as taken                                           *)
(***************************************************************************)

\* The numbers of an answer, in one place.
LEMMA AnswerNumbers ==
  ASSUME RingInv, NEW o \in 0 .. Len(messages) - 1
  PROVE  LET n == Len(messages)
             U == upper_message_id
             b == n - 1 - o
         IN  /\ n \in Nat /\ n <= MaxCount /\ MaxCount \in Nat /\ MaxId \in Nat
             /\ MaxCount + 1 < MaxId /\ U \in Nat /\ U <= MaxId
             /\ given \in Nat /\ passed \in Nat /\ passed <= given
             /\ b \in 0 .. n - 1 /\ Number(o) = given - b
             /\ U >= 1 /\ (n < MaxCount => U = n)
             /\ U >= n - 1 => FirstId = U - n + 1 /\ IdAt(o) = U - b
             /\ U < n - 1 => /\ FirstId = U - n + 1 + MaxId
                             /\ b < U => IdAt(o) = U - b
                             /\ b >= U => IdAt(o) = U - b + MaxId
<1> DEFINE n == Len(messages)
           U == upper_message_id
           b == n - 1 - o
<1>0. /\ n \in Nat /\ n <= MaxCount /\ MaxCount \in Nat /\ MaxId \in Nat
      /\ MaxCount + 1 < MaxId /\ U \in Nat /\ U <= MaxId
      /\ given \in Nat /\ passed \in Nat /\ passed <= given
  BY RingNumbers DEF RingInv
<1>1. b \in 0 .. n - 1 /\ n >= 1
  BY <1>0
<1>2. Number(o) = given - b
  BY IdOfOffset
<1>3. (U = 0 => n = 0) /\ (n < MaxCount => U = n)
  BY DEF RingInv, Numbered
<1>4. FirstId = IF U - n + 1 < 0 THEN U - n + 1 + MaxId ELSE U - n + 1
  BY DEF FirstId
<1>5. IdAt(o) = IF FirstId + o > MaxId THEN FirstId + o - MaxId ELSE FirstId + o
  BY <1>0, <1>4, SMT DEF IdAt
<1> HIDE DEF n, U
<1>6. U >= n - 1 => FirstId = U - n + 1 /\ IdAt(o) = U - b
  BY <1>0, <1>1, <1>4, <1>5
<1>7. U < n - 1 => /\ FirstId = U - n + 1 + MaxId
                   /\ b < U => IdAt(o) = U - b
                   /\ b >= U => IdAt(o) = U - b + MaxId
  BY <1>0, <1>1, <1>4, <1>5
<1>8. U >= 1
  BY <1>0, <1>1, <1>3
<1>9. QED
  BY <1>0, <1>1, <1>2, <1>3, <1>6, <1>7, <1>8 DEF n, U

\* What the spider's last id says, and how far behind it can be.
LEMMA LastNumbers ==
  ASSUME RingInv, last_message_remote_id # NoId, ~foreign
  PROVE  LET n == Len(messages)
             U == upper_message_id
             L == last_message_remote_id
             q == given - passed
         IN  /\ L \in 0 .. MaxId /\ q \in Nat /\ q < MaxId
             /\ L = U - q \/ L = U - q + MaxId
             /\ L = 0 => q >= n \/ (q = n - 1 /\ U = q)
             /\ UpperLast = L
<1>1. /\ MaxCount \in Nat /\ MaxCount > 0 /\ MaxBehind \in Nat /\ MaxId \in Nat
      /\ MaxBehind + MaxCount <= MaxId /\ MaxCount + 1 < MaxId
      /\ last_message_remote_id \in Int /\ last_message_remote_id >= -1
      /\ last_message_remote_id <= MaxId
      /\ given \in Nat /\ passed \in Nat /\ passed <= given
  BY RingNumbers DEF RingInv
<1>2. /\ given - passed <= MaxBehind \/ given - passed < MaxCount
      /\ \/ last_message_remote_id = upper_message_id - (given - passed)
         \/ last_message_remote_id = upper_message_id - (given - passed) + MaxId
      /\ last_message_remote_id = 0 =>
           \/ given - passed >= Len(messages)
           \/ given - passed = Len(messages) - 1 /\ upper_message_id = given - passed
  BY DEF RingInv, Follows, Behind
<1>3. last_message_remote_id >= 0
  BY <1>1 DEF NoId
<1>4. UpperLast = last_message_remote_id
  BY DEF UpperLast
<1>5. QED
  BY <1>1, <1>2, <1>3, <1>4

\* A message already taken counts as taken, but for the one of id MaxId.
LEMMA OldTaken ==
  ASSUME RingInv, last_message_remote_id # NoId, ~foreign,
         NEW o \in 0 .. Len(messages) - 1, Number(o) <= passed,
         ~(BeginsAtWrap /\ Number(o) = passed)
  PROVE  o \notin Fresh
<1> DEFINE n == Len(messages)
           U == upper_message_id
           L == last_message_remote_id
           q == given - passed
           b == n - 1 - o
           id == IdAt(o)
<1>1. /\ n \in Nat /\ n <= MaxCount /\ MaxCount \in Nat /\ MaxId \in Nat
      /\ MaxCount + 1 < MaxId /\ U \in Nat /\ U <= MaxId
      /\ given \in Nat /\ passed \in Nat
      /\ b \in 0 .. n - 1 /\ Number(o) = given - b
      /\ U >= 1 /\ (n < MaxCount => U = n)
      /\ U >= n - 1 => FirstId = U - n + 1 /\ id = U - b
      /\ U < n - 1 => /\ FirstId = U - n + 1 + MaxId
                      /\ b < U => id = U - b
                      /\ b >= U => id = U - b + MaxId
  BY AnswerNumbers
<1>2. /\ L \in 0 .. MaxId /\ q \in Nat /\ q < MaxId
      /\ L = U - q \/ L = U - q + MaxId
      /\ L = 0 => q >= n \/ (q = n - 1 /\ U = q)
      /\ UpperLast = L
  BY LastNumbers
<1>3. q <= b
  BY <1>1, <1>2
<1>4. ~(n = MaxCount /\ FirstId = 0 /\ q = b)
  BY <1>1 DEF BeginsAtWrap
<1> HIDE DEF n, U, L, q, b, id
<1>5. CASE U >= n - 1
  <2>1. FirstId <= U /\ FirstId <= L /\ L <= U /\ id <= L
    BY <1>1, <1>2, <1>3, <1>4, <1>5
  <2>2. TakenStraight(id, L)
    BY <2>1 DEF TakenStraight, U
  <2>3. QED
    BY <1>2, <2>2 DEF Fresh, Taken, id
<1>6. CASE U < n - 1 /\ q < U
  <2>1. FirstId > U /\ FirstId >= L /\ L <= U /\ ((id > U /\ id >= FirstId) \/ id <= L)
    BY <1>1, <1>2, <1>3, <1>6
  <2>2. TakenAfterWrap(id, L)
    BY <2>1 DEF TakenAfterWrap, U
  <2>3. QED
    BY <1>2, <2>2 DEF Fresh, Taken, id
<1>7. CASE U < n - 1 /\ q >= U
  <2>1. FirstId > U /\ FirstId <= L /\ L > U /\ id >= U /\ id <= L
    BY <1>1, <1>2, <1>3, <1>7
  <2>2. TakenBeforeWrap(id, L)
    BY <2>1 DEF TakenBeforeWrap, U
  <2>3. QED
    BY <1>2, <2>2 DEF Fresh, Taken, id
<1>8. QED
  BY <1>1, <1>2, <1>5, <1>6, <1>7

\* A new message counts as new, but for the newest while the ids wrap and the last
\* one taken is from before the wrap.
LEMMA NewFresh ==
  ASSUME RingInv, last_message_remote_id # NoId, ~foreign,
         NEW o \in 0 .. Len(messages) - 1, Number(o) > passed,
         ~(Number(o) = given /\ Wrapped /\ UpperLast > upper_message_id)
  PROVE  o \in Fresh
<1> DEFINE n == Len(messages)
           U == upper_message_id
           L == last_message_remote_id
           q == given - passed
           b == n - 1 - o
           id == IdAt(o)
<1>1. /\ n \in Nat /\ n <= MaxCount /\ MaxCount \in Nat /\ MaxId \in Nat
      /\ MaxCount + 1 < MaxId /\ U \in Nat /\ U <= MaxId
      /\ given \in Nat /\ passed \in Nat
      /\ b \in 0 .. n - 1 /\ Number(o) = given - b
      /\ U >= 1 /\ (n < MaxCount => U = n)
      /\ U >= n - 1 => FirstId = U - n + 1 /\ id = U - b
      /\ U < n - 1 => /\ FirstId = U - n + 1 + MaxId
                      /\ b < U => id = U - b
                      /\ b >= U => id = U - b + MaxId
  BY AnswerNumbers
<1>2. /\ L \in 0 .. MaxId /\ q \in Nat /\ q < MaxId
      /\ L = U - q \/ L = U - q + MaxId
      /\ L = 0 => q >= n \/ (q = n - 1 /\ U = q)
      /\ UpperLast = L
  BY LastNumbers
<1>3. b < q
  BY <1>1, <1>2
<1>4. ~(b = 0 /\ FirstId > U /\ L > U)
  BY <1>1, <1>2 DEF Wrapped
<1> HIDE DEF n, U, L, q, b, id
<1>5. ~(FirstId <= U /\ FirstId <= L /\ L <= U /\ id <= L)
  BY <1>1, <1>2, <1>3
<1>6. ~(FirstId > U /\ FirstId >= L /\ L <= U /\ ((id > U /\ id >= FirstId) \/ id <= L))
  BY <1>1, <1>2, <1>3
<1>7. ~(FirstId > U /\ FirstId <= L /\ L > U /\ id >= U /\ id <= L)
  BY <1>1, <1>2, <1>3, <1>4
<1>8. ~Taken(id, L)
  BY <1>5, <1>6, <1>7 DEF Taken, TakenStraight, TakenAfterWrap, TakenBeforeWrap, U
<1>9. QED
  BY <1>2, <1>8 DEF Fresh, id
-----------------------------------------------------------------------------
(***************************************************************************)
(* What a poll logs                                                        *)
(***************************************************************************)

\* A poll logs no message that was logged before.
LEMMA PollLogsOnce ==
  ASSUME RingInv, Poll, ~foreign, NEW number \in log'
  PROVE  number > passed \/ (BeginsAtWrap /\ number = passed)
<1>1. PICK o \in Fresh : number = Number(o)
  BY PollResult
<1>2. o \in 0 .. Len(messages) - 1
  BY DEF Fresh
<1>3. last_message_remote_id # NoId
  BY FirstTakesAll
<1>4. Number(o) > passed \/ Number(o) <= passed
  <2>1. Number(o) \in Nat /\ passed \in Nat
    BY <1>2, IdOfOffset, RingNumbers DEF RingInv
  <2>2. QED
    BY <2>1
<1>5. QED
  BY <1>1, <1>2, <1>3, <1>4, OldTaken

\* A poll logs every message of the answer that is new.
LEMMA PollLogsAll ==
  ASSUME RingInv, Poll, ~foreign, last_message_remote_id # NoId, TextMissing = {},
         NEW number \in Answered, number > passed
  PROVE  \/ number \in log'
         \/ number = given /\ Wrapped /\ UpperLast > upper_message_id
<1>1. log' = {Number(o) : o \in Fresh}
  BY DEF Poll
<1>2. PICK i \in 1 .. Len(messages) : number = messages[i].number
  BY DEF Answered
<1>3. Len(messages) \in Nat
  BY RingNumbers DEF RingInv
<1>4. i - 1 \in 0 .. Len(messages) - 1 /\ (i - 1) + 1 = i
  BY <1>3
<1>5. number = Number(i - 1)
  BY <1>2, <1>4 DEF Number
<1>6. QED
  BY <1>1, <1>4, <1>5, NewFresh

\* As the run's composition checks them, for every step of the ring.
RingSpec == RingInit /\ [][RingNext]_ring

\* Every behaviour keeps the ring's invariant (counted_messages_fifo::insert, and
\* the spider's reading of the answer).
THEOREM RingInvariant == RingSpec => []RingInv
  BY RingInitInv, RingNextInv, PTL DEF RingSpec

\* The gateway and the spider mean the same message by an id, for every size of
\* the ring that is greater than an answer and the messages between two of them.
THEOREM IdsMeanTheSame == RingSpec => []IdsAgree
  BY RingInvariant, RingAgrees, PTL

\* A message the gateway kept is logged, and once, but for the two exceptions at
\* the ring's wrap.
THEOREM LogIsComplete == RingSpec => LogComplete
<1>1. RingInv /\ [RingNext]_ring
        => [Poll /\ ~foreign =>
              \A n \in log' : n > passed \/ (BeginsAtWrap /\ n = passed)]_ring
  BY PollLogsOnce
<1>2. RingInv /\ [RingNext]_ring
        => [Poll /\ ~foreign /\ last_message_remote_id # NoId /\ TextMissing = {} =>
              \A n \in Answered : n > passed =>
                 \/ n \in log'
                 \/ n = given /\ Wrapped /\ UpperLast > upper_message_id]_ring
  BY PollLogsAll
<1>3. QED
  BY <1>1, <1>2, RingInvariant, PTL DEF RingSpec, LogComplete, LoggedOnce, NothingMissed
-----------------------------------------------------------------------------
(***************************************************************************)
(* The making of the messages: the UDKU                                    *)
(***************************************************************************)

\* The circuit a message names is one of the UDKU's.
LEMMA CircuitFound ==
  ASSUME NEW open \in SUBSET Circuits
  PROVE  find_block_circuit_index(open) \in CircuitNames
<1>1. CASE open = {} \/ open = {VT}
  BY <1>1, CircuitsAssumption DEF find_block_circuit_index, CircuitNames
<1>2. CASE ~(open = {} \/ open = {VT})
  <2> DEFINE S == open \ {VT}
  <2>1. S # {}
    BY <1>2
  <2>2. S \subseteq Nat
    BY CircuitsAssumption
  <2>3. \E x \in S : \A y \in S : x <= y
    BY <2>1, <2>2, Least
  <2>4. Min(S) \in S
    BY <2>3 DEF Min
  <2>5. find_block_circuit_index(open) = Min(S)
    BY <1>2 DEF find_block_circuit_index
  <2> HIDE DEF S
  <2>6. QED
    BY <2>4, <2>5 DEF S, CircuitNames
<1>3. QED
  BY <1>1, <1>2

\* An answer, and what is kept of it.
LEMMA SignalFields ==
  ASSUME NEW s \in Signals
  PROVE  /\ s.condition \in Conditions /\ s.condition # "NONE"
         /\ s.rkp \in BOOLEAN /\ s.tu \in BOOLEAN
         /\ s.rg2 \in BOOLEAN /\ s.open \in SUBSET Circuits
         /\ Kept(s) \in KeptSignals /\ Kept(s) # NotPolled
         /\ Kept(s).condition = s.condition /\ Kept(s).rkp = s.rkp
         /\ Kept(s).tu = s.tu /\ Kept(s).rg2 = s.rg2
<1>1. /\ s.condition \in Conditions /\ s.condition # "NONE"
      /\ s.rkp \in BOOLEAN /\ s.tu \in BOOLEAN
      /\ s.rg2 \in BOOLEAN /\ s.open \in SUBSET Circuits
  BY ConditionsAssumption DEF Signals
<1>2. /\ Kept(s).condition = s.condition /\ Kept(s).rkp = s.rkp
      /\ Kept(s).tu = s.tu /\ Kept(s).rg2 = s.rg2
  BY DEF Kept
<1>3. NotPolled.condition = "NONE"
  BY DEF NotPolled
<1>4. Kept(s) \in KeptSignals
  BY <1>1 DEF Kept, KeptSignals
<1>5. QED
  BY <1>1, <1>2, <1>3, <1>4

\* One message about each thing, and when there is one.
TellsOnce(messages_, about, says, condition) ==
  /\ (\E m \in messages_ : m.about = about) <=> condition
  /\ \A m \in messages_ : m.about = about => m.says = says

\* The messages of an answer of the UDKU.
LEMMA UdkuTells ==
  ASSUME NEW s \in Signals, previos # NotPolled
  PROVE  LET news_ == UdkuNews(s)
         IN  /\ TellsOnce(news_, "condition", s.condition,
                          s.condition \notin Quiet /\ s.condition # previos.condition)
             /\ TellsOnce(news_, "tu", s.tu, s.tu # previos.tu)
             /\ TellsOnce(news_, "broken", find_block_circuit_index(s.open),
                          previos.rg2 /\ ~s.rg2)
             /\ TellsOnce(news_, "ready", last_broken_block_circuit_index,
                          ~previos.rg2 /\ s.rg2)
             /\ \A m \in news_ :
                  \/ m.about = "condition" /\ s.condition # previos.condition
                  \/ m.about = "start" /\ s.rkp /\ ~previos.rkp
                  \/ m.about = "tu" /\ s.tu # previos.tu
                  \/ m.about = "broken" /\ previos.rg2 /\ ~s.rg2
                  \/ m.about = "ready" /\ ~previos.rg2 /\ s.rg2
<1> DEFINE a == Tell(s.condition \notin Quiet /\ s.condition # previos.condition,
                     "condition", s.condition)
           b == Tell(s.tu /\ s.rkp /\ ~previos.rkp /\ s.contactor # "NONE",
                     "start", s.contactor)
           c == Tell(s.tu # previos.tu, "tu", s.tu)
           d == Tell(previos.rg2 /\ ~s.rg2, "broken", find_block_circuit_index(s.open))
           e == Tell(~previos.rg2 /\ s.rg2, "ready", last_broken_block_circuit_index)
<1>1. UdkuNews(s) = UNION {a, b, c, d, e}
  BY DEF UdkuNews
<1>2. /\ \A m \in a : m.about = "condition" /\ m.says = s.condition
      /\ (a # {}) <=> (s.condition \notin Quiet /\ s.condition # previos.condition)
  <2>1. CASE s.condition \notin Quiet /\ s.condition # previos.condition
    <3>1. a = {[about |-> "condition", says |-> s.condition]}
      BY <2>1 DEF Tell
    <3> HIDE DEF a
    <3>2. QED
      BY <2>1, <3>1
  <2>2. CASE ~(s.condition \notin Quiet /\ s.condition # previos.condition)
    <3>1. a = {}
      BY <2>2 DEF Tell
    <3> HIDE DEF a
    <3>2. QED
      BY <2>2, <3>1
  <2>3. QED
    BY <2>1, <2>2
<1>3. /\ \A m \in b : m.about = "start"
      /\ b # {} => s.rkp /\ ~previos.rkp
  BY DEF Tell
<1>4. /\ \A m \in c : m.about = "tu" /\ m.says = s.tu
      /\ (c # {}) <=> (s.tu # previos.tu)
  <2>1. CASE s.tu # previos.tu
    <3>1. c = {[about |-> "tu", says |-> s.tu]}
      BY <2>1 DEF Tell
    <3> HIDE DEF c
    <3>2. QED
      BY <2>1, <3>1
  <2>2. CASE ~(s.tu # previos.tu)
    <3>1. c = {}
      BY <2>2 DEF Tell
    <3> HIDE DEF c
    <3>2. QED
      BY <2>2, <3>1
  <2>3. QED
    BY <2>1, <2>2
<1>5. /\ \A m \in d : m.about = "broken" /\ m.says = find_block_circuit_index(s.open)
      /\ (d # {}) <=> (previos.rg2 /\ ~s.rg2)
  <2>1. CASE previos.rg2 /\ ~s.rg2
    <3>1. d = {[about |-> "broken", says |-> find_block_circuit_index(s.open)]}
      BY <2>1 DEF Tell
    <3> HIDE DEF d
    <3>2. QED
      BY <2>1, <3>1
  <2>2. CASE ~(previos.rg2 /\ ~s.rg2)
    <3>1. d = {}
      BY <2>2 DEF Tell
    <3> HIDE DEF d
    <3>2. QED
      BY <2>2, <3>1
  <2>3. QED
    BY <2>1, <2>2
<1>6. /\ \A m \in e : m.about = "ready" /\ m.says = last_broken_block_circuit_index
      /\ (e # {}) <=> (~previos.rg2 /\ s.rg2)
  <2>1. CASE ~previos.rg2 /\ s.rg2
    <3>1. e = {[about |-> "ready", says |-> last_broken_block_circuit_index]}
      BY <2>1 DEF Tell
    <3> HIDE DEF e
    <3>2. QED
      BY <2>1, <3>1
  <2>2. CASE ~(~previos.rg2 /\ s.rg2)
    <3>1. e = {}
      BY <2>2 DEF Tell
    <3> HIDE DEF e
    <3>2. QED
      BY <2>2, <3>1
  <2>3. QED
    BY <2>1, <2>2
<1> HIDE DEF a, b, c, d, e
<1>7. \A m : m \in UdkuNews(s) <=> m \in a \/ m \in b \/ m \in c \/ m \in d \/ m \in e
  BY <1>1
<1>8. TellsOnce(UdkuNews(s), "condition", s.condition,
                s.condition \notin Quiet /\ s.condition # previos.condition)
  BY <1>2, <1>3, <1>4, <1>5, <1>6, <1>7 DEF TellsOnce
<1>9. TellsOnce(UdkuNews(s), "tu", s.tu, s.tu # previos.tu)
  BY <1>2, <1>3, <1>4, <1>5, <1>6, <1>7 DEF TellsOnce
<1>10. TellsOnce(UdkuNews(s), "broken", find_block_circuit_index(s.open),
                 previos.rg2 /\ ~s.rg2)
  BY <1>2, <1>3, <1>4, <1>5, <1>6, <1>7 DEF TellsOnce
<1>11. TellsOnce(UdkuNews(s), "ready", last_broken_block_circuit_index,
                 ~previos.rg2 /\ s.rg2)
  BY <1>2, <1>3, <1>4, <1>5, <1>6, <1>7 DEF TellsOnce
<1>12. ASSUME NEW m \in UdkuNews(s)
       PROVE  \/ m.about = "condition" /\ s.condition # previos.condition
              \/ m.about = "start" /\ s.rkp /\ ~previos.rkp
              \/ m.about = "tu" /\ s.tu # previos.tu
              \/ m.about = "broken" /\ previos.rg2 /\ ~s.rg2
              \/ m.about = "ready" /\ ~previos.rg2 /\ s.rg2
  BY <1>2, <1>3, <1>4, <1>5, <1>6, <1>7
<1>13. QED
  BY <1>8, <1>9, <1>10, <1>11, <1>12

\* What is said about a thing that has at most one message.
LEMMA SaysOnce ==
  ASSUME NEW messages_, NEW about, NEW before
  PROVE  /\ (\E m \in messages_ : m.about = about) =>
              \E m \in messages_ : m.about = about /\ Says(messages_, about, before) = m.says
         /\ ~(\E m \in messages_ : m.about = about) => Says(messages_, about, before) = before
<1>1. CASE \E m \in messages_ : m.about = about
  <2>1. (CHOOSE m \in messages_ : m.about = about) \in messages_
        /\ (CHOOSE m \in messages_ : m.about = about).about = about
    BY <1>1
  <2>2. QED
    BY <1>1, <2>1 DEF Says
<1>2. CASE ~(\E m \in messages_ : m.about = about)
  BY <1>2 DEF Says
<1>3. QED
  BY <1>1, <1>2

\* What an answer's messages make of what was heard of the UDKU before.
HeardAs(after, s, known) ==
  /\ after.condition =
       IF s.condition \notin Quiet /\ s.condition # previos.condition
       THEN s.condition ELSE known.condition
  /\ after.tu = IF s.tu # previos.tu THEN s.tu ELSE known.tu
  /\ after.rg2 = IF previos.rg2 /\ ~s.rg2 THEN FALSE
                 ELSE known.rg2 \/ (~previos.rg2 /\ s.rg2)
  /\ after.circuit =
       IF ~previos.rg2 /\ s.rg2 THEN last_broken_block_circuit_index
       ELSE IF previos.rg2 /\ ~s.rg2 THEN find_block_circuit_index(s.open)
       ELSE known.circuit
  /\ after = [condition |-> after.condition, tu |-> after.tu,
              rg2 |-> after.rg2, circuit |-> after.circuit]

\* They make of what was heard before what HeardAs says.
LEMMA UdkuIsHeard ==
  ASSUME NEW s \in Signals, previos # NotPolled, previos.rg2 \in BOOLEAN,
         NEW known, known.rg2 \in BOOLEAN
  PROVE  HeardAs(HearUdku(known, UdkuNews(s)), s, known)
<1> DEFINE made == UdkuNews(s)
           after == HearUdku(known, made)
<1>1. /\ TellsOnce(made, "condition", s.condition,
                   s.condition \notin Quiet /\ s.condition # previos.condition)
      /\ TellsOnce(made, "tu", s.tu, s.tu # previos.tu)
      /\ TellsOnce(made, "broken", find_block_circuit_index(s.open),
                   previos.rg2 /\ ~s.rg2)
      /\ TellsOnce(made, "ready", last_broken_block_circuit_index,
                   ~previos.rg2 /\ s.rg2)
  BY UdkuTells
<1> HIDE DEF made
<1>2. /\ after.condition = Says(made, "condition", known.condition)
      /\ after.tu = Says(made, "tu", known.tu)
      /\ after.rg2 = IF \E m \in made : m.about = "broken" THEN FALSE
                     ELSE known.rg2 \/ \E m \in made : m.about = "ready"
      /\ after.circuit = Says(made, "ready", Says(made, "broken", known.circuit))
  BY DEF HearUdku
<1>11. /\ \A m \in made : m.about = "condition" => m.says = s.condition
       /\ \A m \in made : m.about = "tu" => m.says = s.tu
       /\ \A m \in made : m.about = "broken" => m.says = find_block_circuit_index(s.open)
       /\ \A m \in made : m.about = "ready" => m.says = last_broken_block_circuit_index
  BY <1>1 DEF TellsOnce
<1>3. after.condition = IF s.condition \notin Quiet /\ s.condition # previos.condition
                        THEN s.condition ELSE known.condition
  <2>1. /\ (\E m \in made : m.about = "condition") =>
             Says(made, "condition", known.condition) = s.condition
        /\ ~(\E m \in made : m.about = "condition") =>
             Says(made, "condition", known.condition) = known.condition
    BY <1>11, SaysOnce
  <2>2. QED
    BY <1>1, <1>2, <2>1 DEF TellsOnce
<1>4. after.tu = IF s.tu # previos.tu THEN s.tu ELSE known.tu
  <2>1. /\ (\E m \in made : m.about = "tu") => Says(made, "tu", known.tu) = s.tu
        /\ ~(\E m \in made : m.about = "tu") => Says(made, "tu", known.tu) = known.tu
    BY <1>11, SaysOnce
  <2>2. QED
    BY <1>1, <1>2, <2>1 DEF TellsOnce
<1>5. after.circuit =
        IF ~previos.rg2 /\ s.rg2 THEN last_broken_block_circuit_index
        ELSE IF previos.rg2 /\ ~s.rg2 THEN find_block_circuit_index(s.open)
        ELSE known.circuit
  <2>1. /\ (\E m \in made : m.about = "broken") =>
             Says(made, "broken", known.circuit) = find_block_circuit_index(s.open)
        /\ ~(\E m \in made : m.about = "broken") =>
             Says(made, "broken", known.circuit) = known.circuit
    BY <1>11, SaysOnce
  <2> DEFINE before == Says(made, "broken", known.circuit)
  <2>2. /\ (\E m \in made : m.about = "ready") =>
             Says(made, "ready", before) = last_broken_block_circuit_index
        /\ ~(\E m \in made : m.about = "ready") => Says(made, "ready", before) = before
    <3> HIDE DEF before
    <3>1. QED
      BY <1>11, SaysOnce
  <2>3. QED
    BY <1>1, <1>2, <2>1, <2>2 DEF TellsOnce
<1>6. (\E m \in made : m.about = "broken") <=> (previos.rg2 /\ ~s.rg2)
  BY <1>1 DEF TellsOnce
<1>7. (\E m \in made : m.about = "ready") <=> (~previos.rg2 /\ s.rg2)
  BY <1>1 DEF TellsOnce
<1>8. after.rg2 = IF previos.rg2 /\ ~s.rg2 THEN FALSE
                  ELSE known.rg2 \/ (~previos.rg2 /\ s.rg2)
  BY <1>2, <1>6, <1>7
<1>9. after = [condition |-> after.condition, tu |-> after.tu,
               rg2 |-> after.rg2, circuit |-> after.circuit]
  BY DEF HearUdku
<1>10. QED
  BY <1>3, <1>4, <1>5, <1>8, <1>9 DEF made, HeardAs

-----------------------------------------------------------------------------
(***************************************************************************)
(* What the gateway keeps, and what is heard of it.                        *)
(***************************************************************************)
CabinetSignals == Supplies \cup Lines \cup Alarms

\* The histories have values of their types.
HistoryTyped ==
  /\ polled \in [udku : KeptSignals \cup {NotPolled},
                 shavr : {NoSignals} \cup SUBSET CabinetSignals]
  /\ heard \in [udku : [condition : Conditions \cup {"NONE"}, tu : BOOLEAN,
                        rg2 : BOOLEAN, circuit : CircuitNames],
                shavr : {NoSignals} \cup SUBSET CabinetSignals]

\* The UDKU is compared with its last answer.
UdkuKept ==
  /\ polled.udku = previos
  /\ last_broken_block_circuit_index = cause
  /\ polled.udku = NotPolled => cause = 0

\* So is the cabinet, unless its last answer was not its signals: then its
\* automaton is in a state in which no message is made.
CabinetKept ==
  /\ heard.shavr = polled.shavr
  /\ interrupted => A0_state \in {"OFFLINE", "EXCEPTION"}
  /\ ~interrupted =>
       /\ polled.shavr = on
       /\ A0_state = StateOf(on \cap Supplies)

HeardInv == MessagesTypeOK /\ HistoryTyped /\ UdkuHeard /\ CircuitNamed /\ UdkuKept /\ CabinetKept

HeardShape == [condition : Conditions \cup {"NONE"}, tu : BOOLEAN,
               rg2 : BOOLEAN, circuit : CircuitNames]

\* An answer of the UDKU keeps the invariant.
LEMMA UdkuStep ==
  ASSUME HeardInv, NEW s \in Signals, DecodeUdku(s), UNCHANGED request
  PROVE  HeardInv'
<1> DEFINE names == find_block_circuit_index(s.open)
           known == heard.udku
<1>1. /\ s.condition \in Conditions /\ s.condition # "NONE"
      /\ s.rkp \in BOOLEAN /\ s.tu \in BOOLEAN
      /\ s.rg2 \in BOOLEAN /\ s.open \in SUBSET Circuits
      /\ Kept(s) \in KeptSignals /\ Kept(s) # NotPolled
      /\ Kept(s).condition = s.condition /\ Kept(s).rkp = s.rkp
      /\ Kept(s).tu = s.tu /\ Kept(s).rg2 = s.rg2
  BY SignalFields
<1>2. names \in CircuitNames
  BY <1>1, CircuitFound
<1>3. /\ polled = [udku |-> polled.udku, shavr |-> polled.shavr]
      /\ heard = [udku |-> heard.udku, shavr |-> heard.shavr]
      /\ polled.udku \in KeptSignals \cup {NotPolled}
      /\ polled.shavr \in {NoSignals} \cup SUBSET CabinetSignals
      /\ heard.udku \in HeardShape
      /\ heard.shavr \in {NoSignals} \cup SUBSET CabinetSignals
  BY DEF HeardInv, HistoryTyped, HeardShape
<1>4. polled' = [udku |-> Kept(s), shavr |-> polled.shavr]
  BY <1>3 DEF DecodeUdku
<1>5. PICK after : /\ heard' = [udku |-> after, shavr |-> heard.shavr]
                   /\ after = IF polled.udku = NotPolled THEN FirstHeard(s)
                              ELSE HearUdku(known, UdkuNews(s))
  BY <1>3 DEF DecodeUdku
<1>6. /\ previos' = Kept(s)
      /\ last_broken_block_circuit_index' = RememberBroken(s)
      /\ cause' = IF polled.udku # NotPolled /\ polled.udku.rg2 /\ ~s.rg2
                  THEN names ELSE cause
      /\ shavr' = shavr /\ interrupted' = interrupted /\ request' = request
  BY DEF DecodeUdku
<1>7. last_broken_block_circuit_index' = cause' /\ cause' \in CircuitNames
  BY <1>2, <1>6 DEF RememberBroken, HeardInv, UdkuKept, MessagesTypeOK
<1>8. MessagesTypeOK'
  BY <1>1, <1>6, <1>7 DEF MessagesTypeOK, HeardInv, shavr
<1>9. UdkuKept'
  BY <1>1, <1>4, <1>6, <1>7 DEF UdkuKept
<1>10. CabinetKept'
  BY <1>4, <1>5, <1>6 DEF CabinetKept, HeardInv, shavr
<1>11. /\ polled'.udku = Kept(s) /\ heard'.udku = after
  BY <1>4, <1>5
<1>12. CASE polled.udku = NotPolled
  <2>1. after = [condition |-> s.condition, tu |-> s.tu, rg2 |-> s.rg2, circuit |-> 0]
    BY <1>5, <1>12 DEF FirstHeard
  <2>2. after \in HeardShape
    BY <1>1, <2>1 DEF HeardShape, CircuitNames
  <2>3. HistoryTyped'
    BY <1>1, <1>3, <1>4, <1>5, <2>2 DEF HistoryTyped, HeardShape
  <2>4. UdkuHeard'
    BY <1>1, <1>11, <2>1 DEF UdkuHeard
  <2>5. CircuitNamed'
    BY <1>1, <1>6, <1>11, <1>12, <2>1 DEF CircuitNamed, HeardInv, UdkuKept
  <2>6. QED
    BY <1>8, <1>9, <1>10, <2>3, <2>4, <2>5 DEF HeardInv
<1>13. CASE polled.udku # NotPolled
  <2> USE <1>13
  <2>1. previos = polled.udku /\ previos # NotPolled /\ previos \in KeptSignals
    BY <1>3 DEF HeardInv, UdkuKept
  <2>2. /\ previos.condition \in Conditions /\ previos.tu \in BOOLEAN
        /\ previos.rg2 \in BOOLEAN
    BY <2>1 DEF KeptSignals
  <2>3. /\ known.condition \in Conditions \cup {"NONE"} /\ known.tu \in BOOLEAN
        /\ known.rg2 \in BOOLEAN /\ known.circuit \in CircuitNames
    BY <1>3 DEF HeardShape
  <2>4. after = HearUdku(known, UdkuNews(s))
    BY <1>5
  <2> HIDE DEF known
  <2>5. HeardAs(after, s, known)
    BY <2>1, <2>2, <2>3, <2>4, UdkuIsHeard
  <2> HIDE DEF names
  <2>6. /\ known.tu = previos.tu /\ known.rg2 = previos.rg2
        /\ previos.condition \notin Quiet => known.condition = previos.condition
    BY <2>1 DEF HeardInv, UdkuHeard, known
  <2>7. known.rg2 => known.circuit = cause
    BY <2>1 DEF HeardInv, CircuitNamed, known
  <2>8. after.condition \in Conditions \cup {"NONE"}
    BY <1>1, <2>3, <2>5 DEF HeardAs
  <2>9. after.tu = s.tu
    BY <1>1, <2>2, <2>5, <2>6 DEF HeardAs
  <2>10. after.rg2 = s.rg2
    BY <1>1, <2>2, <2>5, <2>6 DEF HeardAs
  <2>11. last_broken_block_circuit_index \in CircuitNames
         /\ last_broken_block_circuit_index = cause
    BY DEF HeardInv, MessagesTypeOK, UdkuKept
  <2>12. after.circuit \in CircuitNames
    BY <1>2, <2>3, <2>5, <2>11 DEF HeardAs, names
  <2>13. s.condition \notin Quiet => after.condition = s.condition
    BY <2>5, <2>6 DEF HeardAs
  <2>14. cause' = IF previos.rg2 /\ ~s.rg2 THEN names ELSE cause
    BY <1>6, <2>1
  <2>15. s.rg2 => after.circuit = cause'
    BY <1>1, <2>2, <2>5, <2>6, <2>7, <2>11, <2>14 DEF HeardAs, names
  <2>16. after \in HeardShape
    BY <1>1, <2>5, <2>8, <2>9, <2>10, <2>12 DEF HeardShape, HeardAs
  <2>17. HistoryTyped'
    BY <1>1, <1>3, <1>4, <1>5, <2>16 DEF HistoryTyped, HeardShape
  <2>18. UdkuHeard'
    BY <1>1, <1>11, <2>9, <2>10, <2>13 DEF UdkuHeard
  <2>19. CircuitNamed'
    BY <1>11, <2>10, <2>15 DEF CircuitNamed
  <2>20. QED
    BY <1>8, <1>9, <1>10, <2>17, <2>18, <2>19 DEF HeardInv
<1>14. QED
  BY <1>12, <1>13

\* A message about a signal, for each direction of the change.
LEMMA ChangesTold ==
  ASSUME NEW now
  PROVE  /\ \A m \in Changes(now) :
              /\ m.says \in BOOLEAN
              /\ (m.about \in on) # (m.about \in now)
         /\ \A k : (\E m \in Changes(now) : ~m.says /\ m.about = k)
                     <=> k \in Supplies \cup Lines /\ k \in on /\ k \notin now
         /\ \A k : (\E m \in Changes(now) : m.says /\ m.about = k)
                     <=> k \in now /\ k \notin on /\ k \in CabinetSignals
<1> DEFINE both == {[about |-> l, says |-> l \in now] :
                      l \in {k \in Supplies \cup Lines : (k \in now) # (k \in on)}}
           begun == {[about |-> l, says |-> TRUE] : l \in (Alarms \cap now) \ on}
<1>1. Changes(now) = both \cup begun
  BY DEF Changes
<1>2. \A m \in both : /\ m.about \in Supplies \cup Lines
                      /\ (m.about \in now) # (m.about \in on)
                      /\ m.says = TRUE <=> m.about \in now
                      /\ m.says \in BOOLEAN
  <2>1. ASSUME NEW m \in both
        PROVE  /\ m.about \in Supplies \cup Lines
               /\ (m.about \in now) # (m.about \in on)
               /\ m.says = TRUE <=> m.about \in now
               /\ m.says \in BOOLEAN
    <3>1. PICK l \in Supplies \cup Lines :
            /\ (l \in now) # (l \in on)
            /\ m = [about |-> l, says |-> l \in now]
      OBVIOUS
    <3>2. m.about = l
      BY <3>1
    <3>3. m.says = (l \in now)
      BY <3>1
    <3>4. m.says = TRUE <=> l \in now
      BY <3>3
    <3>5. m.says \in BOOLEAN
      BY <3>3
    <3>6. QED
      BY <3>1, <3>2, <3>4, <3>5
  <2>2. QED
    BY <2>1
<1>3. \A k \in Supplies \cup Lines :
        (k \in now) # (k \in on) => \E m \in both : m.about = k
  <2>1. ASSUME NEW k \in Supplies \cup Lines, (k \in now) # (k \in on)
        PROVE  \E m \in both : m.about = k
    <3>1. [about |-> k, says |-> k \in now] \in both
      BY <2>1
    <3>2. QED
      BY <3>1
  <2>2. QED
    BY <2>1
<1>4. \A m \in begun : m.about \in (Alarms \cap now) \ on /\ m.says = TRUE
  OBVIOUS
<1>5. \A k \in (Alarms \cap now) \ on : \E m \in begun : m.about = k
  <2>1. ASSUME NEW k \in (Alarms \cap now) \ on
        PROVE  \E m \in begun : m.about = k
    <3>1. [about |-> k, says |-> TRUE] \in begun
      OBVIOUS
    <3>2. QED
      BY <3>1
  <2>2. QED
    BY <2>1
<1> HIDE DEF both, begun
<1>6. ASSUME NEW m \in Changes(now)
      PROVE  m.says \in BOOLEAN /\ (m.about \in on) # (m.about \in now)
  BY <1>1, <1>2, <1>4
<1>7. ASSUME NEW k
      PROVE  (\E m \in Changes(now) : ~m.says /\ m.about = k)
                <=> k \in Supplies \cup Lines /\ k \in on /\ k \notin now
  <2>1. ASSUME NEW m \in Changes(now), ~m.says, m.about = k
        PROVE  k \in Supplies \cup Lines /\ k \in on /\ k \notin now
    BY <1>1, <1>2, <1>4, <2>1
  <2>2. ASSUME k \in Supplies \cup Lines, k \in on, k \notin now
        PROVE  \E m \in Changes(now) : ~m.says /\ m.about = k
    BY <1>1, <1>2, <1>3, <2>2
  <2>3. QED
    BY <2>1, <2>2
<1>8. ASSUME NEW k
      PROVE  (\E m \in Changes(now) : m.says /\ m.about = k)
                <=> k \in now /\ k \notin on /\ k \in CabinetSignals
  <2>1. ASSUME NEW m \in Changes(now), m.says, m.about = k
        PROVE  k \in now /\ k \notin on /\ k \in CabinetSignals
    BY <1>1, <1>2, <1>4, <2>1 DEF CabinetSignals
  <2>2. ASSUME k \in now, k \notin on, k \in Alarms
        PROVE  \E m \in Changes(now) : m.says /\ m.about = k
    BY <1>1, <1>4, <1>5, <2>2
  <2>3. ASSUME k \in now, k \notin on, k \in Supplies \cup Lines
        PROVE  \E m \in Changes(now) : m.says /\ m.about = k
    BY <1>1, <1>2, <1>3, <2>3
  <2>4. QED
    BY <2>1, <2>2, <2>3 DEF CabinetSignals
<1>9. QED
  BY <1>6, <1>7, <1>8

\* The messages of an answer, and the alarms' silent ends, make of the signals
\* before it the signals of the answer.
LEMMA ShavrIsHeard ==
  ASSUME on \subseteq CabinetSignals, NEW now \in SUBSET CabinetSignals
  PROVE  HearShavr(on \ (Alarms \ now), Changes(now)) = now
<1> DEFINE told == Changes(now)
           ended == {m.about : m \in {n \in told : ~n.says}}
           begun == {m.about : m \in {n \in told : n.says}}
<1>1. /\ \A k : (\E m \in told : ~m.says /\ m.about = k)
                  <=> k \in Supplies \cup Lines /\ k \in on /\ k \notin now
      /\ \A k : (\E m \in told : m.says /\ m.about = k)
                  <=> k \in now /\ k \notin on /\ k \in CabinetSignals
  BY ChangesTold
<1>2. HearShavr(on \ (Alarms \ now), told) = ((on \ (Alarms \ now)) \ ended) \cup begun
  BY DEF HearShavr
<1> HIDE DEF told
<1>3. \A k : k \in ended <=> (\E m \in told : ~m.says /\ m.about = k)
  OBVIOUS
<1>4. \A k : k \in begun <=> (\E m \in told : m.says /\ m.about = k)
  OBVIOUS
<1> HIDE DEF ended, begun
<1>5. \A k : k \in ended <=> k \in Supplies \cup Lines /\ k \in on /\ k \notin now
  BY <1>1, <1>3
<1>6. \A k : k \in begun <=> k \in now /\ k \notin on /\ k \in CabinetSignals
  BY <1>1, <1>4
<1>7. ((on \ (Alarms \ now)) \ ended) \cup begun = now
  <2>1. \A k : k \in ((on \ (Alarms \ now)) \ ended) \cup begun <=> k \in now
    BY <1>5, <1>6, SignalsAssumption DEF CabinetSignals
  <2>2. QED
    BY <2>1
<1>8. QED
  BY <1>2, <1>7 DEF told

\* A cabinet's state is none of the two in which no message is made.
LEMMA CabinetState ==
  ASSUME NEW supplies
  PROVE  /\ StateOf(supplies) \notin {"OFFLINE", "EXCEPTION"}
         /\ supplies \subseteq Inputs => StateOf(supplies) \in States
BY DEF StateOf, States

\* So do an answer of the cabinet
LEMMA ShavrStep ==
  ASSUME HeardInv, NEW now \in SUBSET CabinetSignals, DecodeShavr(now), UNCHANGED request
  PROVE  HeardInv'
<1>1. /\ polled = [udku |-> polled.udku, shavr |-> polled.shavr]
      /\ heard = [udku |-> heard.udku, shavr |-> heard.shavr]
      /\ polled.udku \in KeptSignals \cup {NotPolled}
      /\ heard.udku \in HeardShape
  BY DEF HeardInv, HistoryTyped, HeardShape
<1>2. polled' = [udku |-> polled.udku, shavr |-> now]
  BY <1>1 DEF DecodeShavr
<1>3. A0_state' = StateOf(now \cap Supplies) /\ A0_state' \in States
  <2>1. now \cap Supplies \subseteq Inputs
    BY SignalsAssumption
  <2>2. QED
    BY <2>1, CabinetState DEF DecodeShavr, A0
<1>4. /\ A0_x1' = TRUE /\ A0_x2' = TRUE /\ on' = now /\ interrupted' = FALSE
      /\ udku' = udku /\ cause' = cause /\ request' = request
  BY DEF DecodeShavr
<1>5. heard' = [udku |-> heard.udku, shavr |-> now]
  <2>1. CASE interrupted
    BY <1>1, <2>1 DEF DecodeShavr
  <2>2. CASE ~interrupted
    <3>1. polled.shavr = on /\ heard.shavr = on /\ A0_state = StateOf(on \cap Supplies)
      BY <2>2 DEF HeardInv, CabinetKept
    <3>2. ShavrNews(now) = Changes(now)
      BY <3>1, CabinetState DEF ShavrNews
    <3>3. on \subseteq CabinetSignals
      BY DEF HeardInv, MessagesTypeOK, CabinetSignals
    <3>4. HearShavr(on \ (Alarms \ now), Changes(now)) = now
      BY <3>3, ShavrIsHeard
    <3>5. heard' = [heard EXCEPT !.shavr = HearShavr(heard.shavr \ (Alarms \ now), ShavrNews(now))]
      BY <2>2 DEF DecodeShavr
    <3>6. QED
      BY <1>1, <3>1, <3>2, <3>4, <3>5
  <2>3. interrupted \in BOOLEAN
    BY DEF HeardInv, MessagesTypeOK
  <2>4. QED
    BY <2>1, <2>2, <2>3
<1>6. MessagesTypeOK'
  BY <1>3, <1>4 DEF MessagesTypeOK, HeardInv, udku, CabinetSignals
<1>7. HistoryTyped'
  BY <1>1, <1>2, <1>5 DEF HistoryTyped, HeardShape
<1>8. UdkuHeard' /\ CircuitNamed'
  BY <1>1, <1>2, <1>4, <1>5 DEF UdkuHeard, CircuitNamed, HeardInv
<1>9. UdkuKept'
  BY <1>2, <1>4 DEF UdkuKept, HeardInv, udku
<1>10. CabinetKept'
  BY <1>2, <1>3, <1>4, <1>5 DEF CabinetKept
<1>11. QED
  BY <1>6, <1>7, <1>8, <1>9, <1>10 DEF HeardInv

\* and one that is not its signals.
LEMMA OtherSizeStep ==
  ASSUME HeardInv, DecodeOtherSize, UNCHANGED request
  PROVE  HeardInv'
<1>1. A0_state' \in {"OFFLINE", "EXCEPTION"} /\ A0_x2' = FALSE /\ interrupted' = TRUE
  BY DEF DecodeOtherSize
<1>2. UNCHANGED <<udku, A0_x1, on, polled, heard, cause, request>>
  BY DEF DecodeOtherSize
<1>3. MessagesTypeOK'
  BY <1>1, <1>2 DEF MessagesTypeOK, HeardInv, udku, States
<1>4. HistoryTyped' /\ UdkuHeard' /\ CircuitNamed'
  BY <1>2 DEF HistoryTyped, UdkuHeard, CircuitNamed, HeardInv
<1>5. UdkuKept'
  BY <1>2 DEF UdkuKept, HeardInv, udku
<1>6. CabinetKept'
  BY <1>1, <1>2 DEF CabinetKept, HeardInv
<1>7. QED
  BY <1>3, <1>4, <1>5, <1>6 DEF HeardInv

\* A command, told or sent, touches nothing that is compared.
LEMMA CommandStep ==
  ASSUME HeardInv, request' \in [Devices -> Commands \cup {PollRequest}],
         UNCHANGED <<udku, shavr, decoded>>
  PROVE  HeardInv'
BY DEF HeardInv, MessagesTypeOK, HistoryTyped, UdkuHeard, CircuitNamed, UdkuKept, CabinetKept,
       udku, shavr, decoded

-----------------------------------------------------------------------------
\* The objects as they are constructed.
LEMMA StartIsSound ==
  ASSUME Constructed PROVE HeardInv'
<1>1. /\ polled' = [udku |-> NotPolled, shavr |-> NoSignals]
      /\ heard' = [udku |-> [condition |-> "NONE", tu |-> FALSE, rg2 |-> FALSE,
                             circuit |-> 0], shavr |-> NoSignals]
      /\ previos' = NotPolled /\ last_broken_block_circuit_index' = 0 /\ cause' = 0
      /\ A0_state' = "OFFLINE" /\ interrupted' = TRUE
      /\ A0_x1' \in BOOLEAN /\ A0_x2' \in BOOLEAN
  BY DEF Constructed, FirstHeard, NotPolled
<1>2. request' \in [Devices -> Commands \cup {PollRequest}]
  BY DEF Constructed
<1>3. on' \subseteq CabinetSignals
  BY DEF Constructed, CabinetSignals
<1>4. MessagesTypeOK'
  BY <1>1, <1>2, <1>3 DEF MessagesTypeOK, States, CircuitNames, CabinetSignals
<1>5. HistoryTyped'
  <2>1. [condition |-> "NONE", tu |-> FALSE, rg2 |-> FALSE, circuit |-> 0] \in HeardShape
    BY DEF HeardShape, CircuitNames
  <2>2. PICK unheard \in HeardShape : heard' = [udku |-> unheard, shavr |-> NoSignals]
    BY <1>1, <2>1
  <2>3. heard' \in [udku : HeardShape, shavr : {NoSignals} \cup SUBSET CabinetSignals]
    BY <2>2
  <2>4. polled' \in [udku : KeptSignals \cup {NotPolled},
                    shavr : {NoSignals} \cup SUBSET CabinetSignals]
    BY <1>1
  <2>5. QED
    BY <2>3, <2>4 DEF HistoryTyped, HeardShape
<1>6. UdkuHeard' /\ CircuitNamed' /\ UdkuKept' /\ CabinetKept'
  BY <1>1 DEF UdkuHeard, CircuitNamed, UdkuKept, CabinetKept
<1>7. QED
  BY <1>4, <1>5, <1>6 DEF HeardInv

\* The invariant holds at the start.
LEMMA InitIsSound == MessagesInit => HeardInv
<1> SUFFICES ASSUME MessagesInit PROVE HeardInv
  OBVIOUS
<1>1. /\ polled = [udku |-> NotPolled, shavr |-> NoSignals]
      /\ heard = [udku |-> [condition |-> "NONE", tu |-> FALSE, rg2 |-> FALSE,
                            circuit |-> 0], shavr |-> NoSignals]
      /\ previos = NotPolled /\ last_broken_block_circuit_index = 0 /\ cause = 0
      /\ A0_state = "OFFLINE" /\ interrupted = TRUE
      /\ A0_x1 \in BOOLEAN /\ A0_x2 \in BOOLEAN
  BY DEF MessagesInit, FirstHeard, NotPolled
<1>2. request \in [Devices -> Commands \cup {PollRequest}]
  BY DEF MessagesInit
<1>3. on \subseteq CabinetSignals
  BY DEF MessagesInit, CabinetSignals
<1>4. MessagesTypeOK
  BY <1>1, <1>2, <1>3 DEF MessagesTypeOK, States, CircuitNames, CabinetSignals
<1>5. HistoryTyped
  <2>1. [condition |-> "NONE", tu |-> FALSE, rg2 |-> FALSE, circuit |-> 0] \in HeardShape
    BY DEF HeardShape, CircuitNames
  <2>2. PICK unheard \in HeardShape : heard = [udku |-> unheard, shavr |-> NoSignals]
    BY <1>1, <2>1
  <2>3. heard \in [udku : HeardShape, shavr : {NoSignals} \cup SUBSET CabinetSignals]
    BY <2>2
  <2>4. polled \in [udku : KeptSignals \cup {NotPolled},
                    shavr : {NoSignals} \cup SUBSET CabinetSignals]
    BY <1>1
  <2>5. QED
    BY <2>3, <2>4 DEF HistoryTyped, HeardShape
<1>6. UdkuHeard /\ CircuitNamed /\ UdkuKept /\ CabinetKept
  BY <1>1 DEF UdkuHeard, CircuitNamed, UdkuKept, CabinetKept
<1>7. QED
  BY <1>4, <1>5, <1>6 DEF HeardInv

\* Every step keeps the invariant.
LEMMA NextIsSound ==
  ASSUME HeardInv, [MessagesNext]_messagesVars
  PROVE  HeardInv'
<1>1. request \in [Devices -> Commands \cup {PollRequest}]
  BY DEF HeardInv, MessagesTypeOK
<1>2. ASSUME NEW d \in Devices, NEW c \in Commands, PutCommand(d, c)
      PROVE  HeardInv'
  <2>1. request' \in [Devices -> Commands \cup {PollRequest}]
    BY <1>1, <1>2 DEF PutCommand
  <2>2. QED
    BY <1>2, <2>1, CommandStep DEF PutCommand
<1>3. ASSUME NEW d \in Devices, ExchangeCommand(d)
      PROVE  HeardInv'
  <2>1. request' \in [Devices -> Commands \cup {PollRequest}]
    BY <1>1, <1>3 DEF ExchangeCommand
  <2>2. QED
    BY <1>3, <2>1, CommandStep DEF ExchangeCommand
<1>4. CASE PollUdku
  BY <1>4, UdkuStep DEF PollUdku
<1>5. ASSUME NEW first \in 1 .. 2, PollShavr(first)
      PROVE  HeardInv'
  <2>1. CASE first = 1
    BY <1>5, <2>1, ShavrStep DEF PollShavr, CabinetSignals
  <2>2. CASE first # 1
    BY <1>5, <2>2, OtherSizeStep DEF PollShavr
  <2>3. QED
    BY <2>1, <2>2
<1>6. CASE EndWithCounter
  BY <1>6, StartIsSound DEF EndWithCounter
<1>7. CASE UNCHANGED messagesVars
  BY <1>1, <1>7, CommandStep DEF messagesVars
<1>8. QED
  BY <1>2, <1>3, <1>4, <1>5, <1>6, <1>7 DEF MessagesNext

\* Whatever the devices answer, and whenever a command, an error or a restart
\* comes between, the first answer after a start, changed by the messages since
\* then, is the last answer: the spider's log loses no change of the switch,
\* the readiness, the circuit, the supplies or a line (metro_udku::
\* create_answer_to_socket_func_4, metro_shavr::create_answer_to_socket_func_4).
THEOREM EveryChangeIsHeard == MessagesSpec => []ChangesHeard
<1>1. HeardInv => ChangesHeard
  BY DEF HeardInv, ChangesHeard, ShavrHeard, StateShown, CabinetKept
<1>2. QED
  BY <1>1, InitIsSound, NextIsSound, PTL DEF MessagesSpec

\* A message of the UDKU and the two answers it tells the difference of.
LEMMA UdkuDiffers ==
  ASSUME HeardInv, NEW s \in Signals, DecodeUdku(s), NEW m \in news'
  PROVE  Differs(m)
<1>1. previos # NotPolled /\ m \in UdkuNews(s)
  BY DEF DecodeUdku, UdkuNews
<1>2. \/ m.about = "condition" /\ s.condition # previos.condition
      \/ m.about = "start" /\ s.rkp /\ ~previos.rkp
      \/ m.about = "tu" /\ s.tu # previos.tu
      \/ m.about = "broken" /\ previos.rg2 /\ ~s.rg2
      \/ m.about = "ready" /\ ~previos.rg2 /\ s.rg2
  BY <1>1, UdkuTells
<1>3. /\ s.rkp \in BOOLEAN /\ s.rg2 \in BOOLEAN
      /\ Kept(s).condition = s.condition /\ Kept(s).rkp = s.rkp
      /\ Kept(s).tu = s.tu /\ Kept(s).rg2 = s.rg2
  BY SignalFields
<1>4. polled.udku = previos /\ polled.udku # NotPolled
  BY <1>1 DEF HeardInv, UdkuKept
<1>5. polled'.udku = Kept(s)
  BY DEF DecodeUdku, HeardInv, HistoryTyped
<1>6. polled.udku.rkp \in BOOLEAN /\ polled.udku.rg2 \in BOOLEAN
  BY <1>4 DEF HeardInv, HistoryTyped, KeptSignals
<1>7. polled'.udku # polled.udku
  BY <1>2, <1>3, <1>4, <1>5
<1>8. CASE m.about = "condition" /\ s.condition # previos.condition
  BY <1>3, <1>4, <1>5, <1>7, <1>8 DEF Differs
<1>9. CASE m.about = "start" /\ s.rkp /\ ~previos.rkp
  BY <1>3, <1>4, <1>5, <1>6, <1>7, <1>9 DEF Differs
<1>10. CASE m.about = "tu" /\ s.tu # previos.tu
  BY <1>3, <1>4, <1>5, <1>7, <1>10 DEF Differs
<1>11. CASE m.about = "broken" /\ previos.rg2 /\ ~s.rg2
  BY <1>3, <1>4, <1>5, <1>6, <1>7, <1>11 DEF Differs
<1>12. CASE m.about = "ready" /\ ~previos.rg2 /\ s.rg2
  BY <1>3, <1>4, <1>5, <1>6, <1>7, <1>12 DEF Differs
<1>13. QED
  BY <1>2, <1>8, <1>9, <1>10, <1>11, <1>12

\* A message of the cabinet and the two answers it tells the difference of.
LEMMA ShavrDiffers ==
  ASSUME HeardInv, NEW now \in SUBSET CabinetSignals, DecodeShavr(now), NEW m \in news'
  PROVE  Differs(m)
<1>1. A0_state \notin {"OFFLINE", "EXCEPTION"} /\ m \in Changes(now)
  BY DEF DecodeShavr, ShavrNews
<1>2. (m.about \in on) # (m.about \in now)
  BY <1>1, ChangesTold
<1>3. polled.shavr = on
  BY <1>1 DEF HeardInv, CabinetKept, MessagesTypeOK
<1>4. polled'.shavr = now
  BY DEF DecodeShavr, HeardInv, HistoryTyped
<1>5. on # NoSignals
  <2>1. "none" \notin CabinetSignals
    <3>1. "none" \notin Supplies
      BY SignalsAssumption DEF Inputs
    <3>2. QED
      BY <3>1, SignalsAssumption DEF CabinetSignals
  <2>2. on \subseteq CabinetSignals
    BY DEF HeardInv, MessagesTypeOK, CabinetSignals
  <2>3. QED
    BY <2>1, <2>2 DEF NoSignals
<1>6. QED
  BY <1>2, <1>3, <1>4, <1>5 DEF Differs

\* The messages of any step.
LEMMA NewsDiffers ==
  ASSUME HeardInv, [MessagesNext]_messagesVars
  PROVE  \A m \in news' : news' # news => Differs(m)
<1> SUFFICES ASSUME NEW m \in news', news' # news PROVE Differs(m)
  OBVIOUS
<1>1. ASSUME NEW d \in Devices, NEW c \in Commands, PutCommand(d, c)
      PROVE  Differs(m)
  BY <1>1 DEF PutCommand, Tell, Differs
<1>2. ASSUME NEW d \in Devices, ExchangeCommand(d)
      PROVE  Differs(m)
  BY <1>2 DEF ExchangeCommand
<1>3. CASE PollUdku
  BY <1>3, UdkuDiffers DEF PollUdku
<1>4. ASSUME NEW first \in 1 .. 2, PollShavr(first)
      PROVE  Differs(m)
  BY <1>4, ShavrDiffers DEF PollShavr, CabinetSignals, DecodeOtherSize
<1>5. CASE EndWithCounter
  BY <1>5 DEF EndWithCounter, Constructed
<1>6. CASE UNCHANGED messagesVars
  BY <1>6 DEF messagesVars
<1>7. QED
  BY <1>1, <1>2, <1>3, <1>4, <1>5, <1>6 DEF MessagesNext

\* No message is made of values the device did not give: each is about a
\* difference between two answers that the same process decoded, or tells that
\* a command was taken (the comparisons with the previos_ values in
\* metro_udku::create_answer_to_socket_func_4, and with the signals' old bits
\* in metro_shavr::create_answer_to_socket_func_4).
THEOREM NewsAreDifferences == MessagesSpec => OnlyDifferences
<1>1. HeardInv /\ [MessagesNext]_messagesVars => [\A m \in news' : news' # news => Differs(m)]_messagesVars
  BY NewsDiffers
<1>2. QED
  BY <1>1, InitIsSound, NextIsSound, PTL DEF MessagesSpec, OnlyDifferences

-----------------------------------------------------------------------------
(***************************************************************************)
(* Both halves together.                                                   *)
(***************************************************************************)

\* A behaviour of the instance follows the ring or the making of messages.
LEMMA HalvesFollow ==
  /\ MCInit => RingInit /\ MessagesInit
  /\ [MCNext]_<<ring, messagesVars, followed>> => [RingNext]_ring /\ [MessagesNext]_messagesVars
<1>1. MCInit => RingInit /\ MessagesInit
  BY DEF MCInit
<1>2. [MCNext]_<<ring, messagesVars, followed>> => [RingNext]_ring /\ [MessagesNext]_messagesVars
  <2> SUFFICES ASSUME [MCNext]_<<ring, messagesVars, followed>>
               PROVE  [RingNext]_ring /\ [MessagesNext]_messagesVars
    OBVIOUS
  <2>1. CASE followed = "ring" /\ RingNext /\ UNCHANGED <<messagesVars, followed>>
    BY <2>1
  <2>2. CASE followed = "made" /\ MessagesNext /\ UNCHANGED <<ring, followed>>
    BY <2>2
  <2>3. CASE UNCHANGED <<ring, messagesVars, followed>>
    BY <2>3
  <2>4. QED
    BY <2>1, <2>2, <2>3 DEF MCNext
<1>3. QED
  BY <1>1, <1>2

\* The gateway and the spider agree on which messages are new, and the changes
\* of a device are all told (counted_messages_fifo, metro_udku, metro_shavr).
THEOREM MessagesAreSound == MCSpec => []MessagesSound
<1>1. MCSpec => RingSpec /\ MessagesSpec
  BY HalvesFollow, PTL DEF MCSpec, RingSpec, MessagesSpec
<1>2. IdsAgree /\ ChangesHeard => MessagesSound
  BY DEF MessagesSound
<1>3. QED
  BY <1>1, <1>2, IdsMeanTheSame, EveryChangeIsHeard, PTL
=============================================================================
