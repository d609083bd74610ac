------------------------ MODULE DeviceExchange_proofs ------------------------
(***************************************************************************)
(* Theorems about DeviceExchange for every number of failures that ends a  *)
(* connection and every number of commands, pulses and late answers.       *)
(***************************************************************************)
EXTENDS DeviceExchange, SequenceTheorems, TLAPS

-----------------------------------------------------------------------------
(***************************************************************************)
(* The inductive invariant                                                 *)
(***************************************************************************)

\* The thread holds a command that it is about to send.
Holding == pc \in {"current", "exchange"} /\ request_to_device \in CommandRequests

\* What the thread puts into the slot is never a command.
OwnRequests == pc \in {"clear", "store"} => request_to_device \in {Poll, Time}

\* Only the newest command waits in the slot, and it is newer than whatever
\* the thread holds or has sent.
SlotNewest ==
  request_for_send_to_device \in CommandRequests
  => /\ request_for_send_to_device.number = given
     /\ \A i \in 1 .. Len(sent) : sent[i] < given
     /\ Holding => request_to_device.number < given

\* The command in the thread's hands is newer than those sent.
HeldNewer ==
  Holding => /\ request_to_device.number <= given
             /\ \A i \in 1 .. Len(sent) : sent[i] < request_to_device.number

SentGiven == \A i \in 1 .. Len(sent) : sent[i] <= given

\* From Exchange on the current request is the one that is exchanged; without
\* a late answer on the way, what was received answers it.
CurrentExchanged ==
  /\ pc = "exchange" => request_to_device = current_request_to_device
  /\ pc = "publish" /\ pending = <<>> => received = current_request_to_device

\* Without a connection there is no answer.
NoAnswerUnconnected ==
  pc \in {"connect", "give_up_pulse"} => answer_from_device = NoBuffer

\* An answer ends the row of failures.
RowEnded == pc = "pulse" => connect_faliures_count = 0

Commanded == OwnRequests /\ SlotNewest /\ HeldNewer /\ SentGiven /\ CommandsKept
Paired == /\ CurrentExchanged /\ NoAnswerUnconnected /\ RowEnded
          /\ AnswerMatchesRequest /\ LastAnswerHandled
IInv == TypeOK /\ Commanded /\ Paired

-----------------------------------------------------------------------------
(***************************************************************************)
(* Requests and the late answers                                           *)
(***************************************************************************)
LEMMA RequestKinds ==
  /\ Poll \in Requests /\ Time \in Requests /\ NoBuffer \notin Requests
  /\ Poll \notin CommandRequests /\ Time \notin CommandRequests
  /\ NoBuffer \notin CommandRequests /\ CommandRequests \subseteq Requests
  BY DEF Requests, CommandRequests, Command, Poll, Time, NoBuffer

\* A command's request and its number.
LEMMA CommandNumbers ==
  /\ \A n \in 1 .. MaxCommands : Command(n) \in CommandRequests
  /\ \A n : Command(n).number = n
  /\ \A r \in CommandRequests : r.number \in 1 .. MaxCommands /\ r = Command(r.number)
  BY DEF CommandRequests, Command

\* The first of the answers that have come, and what is left of them.
LEMMA FirstAnswer ==
  ASSUME NEW late \in Seq(Requests), NEW r \in Requests
  PROVE  LET s == Append(late, r)
         IN /\ s \in Seq(Requests) /\ Len(s) = Len(late) + 1
            /\ Head(s) \in Requests
            /\ Tail(s) \in Seq(Requests) /\ Len(Tail(s)) = Len(late)
            /\ Tail(s) = <<>> => Head(s) = r
<1> DEFINE s == Append(late, r)
<1>1. /\ s \in Seq(Requests) /\ Len(s) = Len(late) + 1 /\ Len(late) \in Nat
      /\ s[Len(late) + 1] = r
  BY AppendProperties, LenProperties
<1>2. s # <<>>
  BY <1>1, EmptySeq
<1>3. Head(s) \in Requests /\ Tail(s) \in Seq(Requests) /\ Len(Tail(s)) = Len(late)
  BY <1>1, <1>2, HeadTailProperties
<1>4. ASSUME Tail(s) = <<>> PROVE Head(s) = r
  <2>1. Len(late) = 0
    BY <1>3, <1>4, EmptySeq
  <2>2. s[1] = r
    BY <1>1, <2>1
  <2>3. QED
    BY <2>2
<1>5. QED
  BY <1>1, <1>3, <1>4

\* What is left of the late answers when the first are dropped.
LEMMA LaterAnswers ==
  ASSUME NEW late \in Seq(Requests), NEW r \in Requests, NEW k \in 2 .. Len(late) + 1
  PROVE  LET t == SubSeq(Append(late, r), k + 1, Len(late) + 1)
         IN t \in Seq(Requests) /\ Len(t) <= Len(late)
<1> DEFINE s == Append(late, r)
           n == Len(late) + 1
<1>1. s \in Seq(Requests) /\ Len(s) = n /\ n \in Nat /\ Len(late) \in Nat
  BY AppendProperties, LenProperties
<1>2. k \in Int /\ k >= 2
  BY <1>1
<1> HIDE DEF s, n
<1>3. \A i \in k + 1 .. n : s[i] \in Requests
  BY <1>1, <1>2, ElementOfSeq
<1>4. /\ SubSeq(s, k + 1, n) \in Seq(Requests)
      /\ Len(SubSeq(s, k + 1, n)) = IF k + 1 <= n THEN n - (k + 1) + 1 ELSE 0
  BY <1>1, <1>2, <1>3, SubSeqProperties
<1>5. Len(SubSeq(s, k + 1, n)) <= Len(late)
  BY <1>1, <1>2, <1>4 DEF n
<1>6. QED
  BY <1>4, <1>5 DEF s, n
-----------------------------------------------------------------------------
(***************************************************************************)
(* Types                                                                   *)
(***************************************************************************)
LEMMA BoundsKnown ==
  /\ ReconnectsCount \in Nat /\ ReconnectsCount > 0 /\ MaxCommands \in Nat
  /\ MaxTimeSets \in Nat /\ MaxPulses \in Nat /\ MaxPulses > 0 /\ MaxLate \in Nat
  BY ReconnectsAssumption, BoundsAssumption

\* Exchange: one of four things happens to the request.
LEMMA ExchangeTypes ==
  ASSUME TypeOK, Exchange
  PROVE  TypeOK'
<1>0. /\ pc = "exchange" /\ request_to_device \in Requests /\ pending \in Seq(Requests)
      /\ connect_faliures_count \in 0 .. ReconnectsCount
      /\ connect_faliures_count < ReconnectsCount /\ Len(pending) \in Nat
      /\ Len(pending) <= MaxLate /\ received \in Buffers /\ sent \in Seq(1 .. MaxCommands)
  BY LenProperties DEF TypeOK, Exchange, Buffers
<1>1. sent' \in Seq(1 .. MaxCommands)
  <2>1. CASE request_to_device \in CommandRequests
    BY <1>0, <2>1, CommandNumbers, AppendProperties DEF Exchange, MarkSent
  <2>2. CASE request_to_device \notin CommandRequests
    BY <1>0, <2>2 DEF Exchange, MarkSent
  <2>3. QED
    BY <2>1, <2>2
<1>2. /\ received' \in Buffers /\ pending' \in Seq(Requests) /\ Len(pending') <= MaxLate
  <2>1. CASE UNCHANGED <<received, pending>>
    BY <1>0, <2>1
  <2>2. CASE /\ Len(pending) < MaxLate
             /\ pending' = Append(pending, request_to_device) /\ UNCHANGED received
    BY <1>0, <2>2, AppendProperties, BoundsKnown
  <2>3. CASE /\ received' = Head(Append(pending, request_to_device))
             /\ pending' = Tail(Append(pending, request_to_device))
    BY <1>0, <2>3, FirstAnswer DEF Buffers
  <2>4. ASSUME NEW k \in 2 .. Len(pending) + 1,
               pending' = SubSeq(Append(pending, request_to_device), k + 1, Len(pending) + 1),
               UNCHANGED received
        PROVE  received' \in Buffers /\ pending' \in Seq(Requests) /\ Len(pending') <= MaxLate
    <3>1. pending' \in Seq(Requests) /\ Len(pending') <= Len(pending)
      BY <1>0, <2>4, LaterAnswers
    <3>2. Len(pending') \in Nat
      BY <3>1, LenProperties
    <3>3. Len(pending') <= MaxLate
      BY <1>0, <3>1, <3>2, BoundsKnown
    <3>4. received' = received
      BY <2>4
    <3>5. QED
      BY <1>0, <3>1, <3>3, <3>4
  <2>5. QED
    BY <2>1, <2>2, <2>3, <2>4 DEF Exchange
<1>3. \/ pc' = "publish" /\ connect_faliures_count' = connect_faliures_count
      \/ Failed
  BY DEF Exchange
<1>4. /\ connect_faliures_count' \in 0 .. ReconnectsCount
      /\ pc' \in {"publish", "take", "give_up"}
      /\ pc' = "take" => connect_faliures_count' < ReconnectsCount
  BY <1>0, <1>3, BoundsKnown DEF Failed
<1>5. UNCHANGED <<shared, pulses, request_to_device, photon, link, given, times, overwritten>>
  BY DEF Exchange
<1>6. QED
  BY <1>0, <1>1, <1>2, <1>4, <1>5 DEF TypeOK, shared, photon

\* Every step keeps the types.
LEMMA TypeStep ==
  ASSUME TypeOK, OwnRequests, RowEnded, [Next]_vars
  PROVE  TypeOK'
<1> USE BoundsKnown, RequestKinds DEF shared, thread, photon, history
<1>1. CASE Connect
  BY <1>1 DEF TypeOK, Connect, Buffers
<1>2. CASE Take
  BY <1>2 DEF TypeOK, Take, Buffers
<1>3. CASE Build
  BY <1>3 DEF TypeOK, Build, Buffers
<1>4. CASE ClearTime
  BY <1>4 DEF TypeOK, ClearTime
<1>5. CASE Store
  <2>1. request_to_device \in Requests
    BY <1>5 DEF OwnRequests, Store
  <2>2. overwritten' \subseteq 1 .. MaxCommands
    BY <1>5, CommandNumbers DEF TypeOK, Store
  <2>3. request_to_device # NoBuffer
    BY <2>1
  <2>4. QED
    BY <1>5, <2>1, <2>2, <2>3 DEF TypeOK, Store, Buffers
<1>6. CASE SetCurrent
  BY <1>6 DEF TypeOK, SetCurrent
<1>7. CASE Exchange
  BY <1>7, ExchangeTypes
<1>8. CASE Publish
  BY <1>8 DEF TypeOK, Publish
<1>9. CASE SendPulse
  <2>1. connect_faliures_count < ReconnectsCount
    BY <1>9 DEF RowEnded, SendPulse
  <2>2. QED
    BY <1>9, <2>1 DEF TypeOK, SendPulse
<1>10. CASE GiveUp
  BY <1>10 DEF TypeOK, GiveUp, Buffers
<1>11. CASE GiveUpPulse
  BY <1>11, EmptySeq DEF TypeOK, GiveUpPulse
<1>12. CASE GiveCommand
  <2>1. given' \in 1 .. MaxCommands
    BY <1>12 DEF TypeOK, GiveCommand
  <2>2. request_for_send_to_device' \in CommandRequests
    BY <1>12, <2>1, CommandNumbers DEF GiveCommand
  <2>3. QED
    BY <1>12, <2>1, <2>2 DEF TypeOK, GiveCommand, Buffers
<1>13. CASE AskForTime
  BY <1>13 DEF TypeOK, AskForTime
<1>14. CASE ReadAnswer
  BY <1>14 DEF TypeOK, ReadAnswer
<1>15. CASE Decode
  BY <1>15 DEF TypeOK, Decode, Outcome
<1>16. CASE LinkChanges
  BY <1>16 DEF TypeOK, LinkChanges
<1>17. CASE UNCHANGED vars
  BY <1>17 DEF TypeOK, vars
<1>18. QED
  BY <1>1, <1>2, <1>3, <1>4, <1>5, <1>6, <1>7, <1>8, <1>9, <1>10, <1>11, <1>12,
     <1>13, <1>14, <1>15, <1>16, <1>17 DEF Next, DeviceThread, PhotonThread

-----------------------------------------------------------------------------
(***************************************************************************)
(* Commands                                                                *)
(***************************************************************************)

\* The steps that neither give, take nor send a request.
LEMMA CommandsElsewhere ==
  ASSUME TypeOK, Commanded,
         UNCHANGED <<request_for_send_to_device, given, sent, overwritten>>,
         Holding' => Holding /\ request_to_device' = request_to_device,
         pc \in {"current", "exchange"} /\ request_to_device \in CommandRequests
           => Holding' /\ request_to_device' = request_to_device,
         OwnRequests'
  PROVE  Commanded'
<1>1. SlotNewest' /\ HeldNewer' /\ SentGiven'
  BY DEF Commanded, SlotNewest, HeldNewer, SentGiven
<1>2. CommandsInOrder'
  BY DEF Commanded, CommandsKept, CommandsInOrder
<1>3. NewestAccounted'
  <2>1. given \in 0 .. MaxCommands
    BY DEF TypeOK
  <2>2. given > 0 => Command(given) \in CommandRequests
    BY <2>1, CommandNumbers
  <2>3. QED
    BY <2>2 DEF Commanded, CommandsKept, NewestAccounted, Waiting, Holding
<1>4. QED
  BY <1>1, <1>2, <1>3 DEF Commanded, CommandsKept

\* Taking the command from the slot keeps the order of the commands;
LEMMA TakeCommand ==
  ASSUME TypeOK, Commanded, Take
  PROVE  Commanded'
<1>1. /\ pc = "take" /\ request_to_device' = request_for_send_to_device
      /\ request_for_send_to_device' = NoBuffer /\ pc' \in {"build", "current"}
      /\ pc' = "build" => request_for_send_to_device = NoBuffer
      /\ pc' = "current" => request_for_send_to_device # NoBuffer
      /\ UNCHANGED <<given, sent, overwritten>>
  BY DEF Take, history
<1>0. given \in 0 .. MaxCommands /\ MaxCommands \in Nat
  BY BoundsKnown DEF TypeOK
<1>2. OwnRequests' /\ SlotNewest' /\ SentGiven'
  BY <1>1, RequestKinds DEF Commanded, OwnRequests, SlotNewest, SentGiven
<1>3. HeldNewer'
  BY <1>0, <1>1 DEF Commanded, SlotNewest, HeldNewer, Holding
<1>4. CommandsInOrder'
  BY <1>1 DEF Commanded, CommandsKept, CommandsInOrder
<1>5. NewestAccounted'
  <2>1. given > 0 => Command(given) \in CommandRequests
    BY <1>0, CommandNumbers
  <2>2. ~(request_to_device = Command(given) /\ pc \in {"current", "exchange"})
    BY <1>1
  <2>3. request_for_send_to_device = Command(given) /\ given > 0
        => request_to_device' = Command(given) /\ pc' = "current"
    BY <1>1, <2>1, RequestKinds
  <2>4. QED
    BY <1>1, <2>2, <2>3 DEF Commanded, CommandsKept, NewestAccounted, Waiting
<1>6. QED
  BY <1>2, <1>3, <1>4, <1>5 DEF Commanded, CommandsKept

\* so does storing the request the thread made,
LEMMA StoreRequest ==
  ASSUME TypeOK, Commanded, Store
  PROVE  Commanded'
<1>1. /\ pc = "store" /\ request_for_send_to_device' = request_to_device
      /\ overwritten' = IF request_for_send_to_device \in CommandRequests
                        THEN overwritten \cup {request_for_send_to_device.number}
                        ELSE overwritten
      /\ pc' = "current" /\ UNCHANGED <<request_to_device, given, sent>>
  BY DEF Store, thread
<1>2. request_to_device \in {Poll, Time} /\ request_to_device \notin CommandRequests
  BY <1>1, RequestKinds DEF Commanded, OwnRequests
<1>3. OwnRequests' /\ SlotNewest' /\ HeldNewer' /\ SentGiven'
  BY <1>1, <1>2 DEF Commanded, OwnRequests, SlotNewest, HeldNewer, Holding, SentGiven
<1>4. CommandsInOrder'
  BY <1>1 DEF Commanded, CommandsKept, CommandsInOrder
<1>5. NewestAccounted'
  <2>0. given \in 0 .. MaxCommands
    BY DEF TypeOK
  <2>1. SUFFICES ASSUME given > 0
                 PROVE  \/ \E i \in 1 .. Len(sent) : sent[i] = given
                        \/ given \in overwritten'
    BY <1>1 DEF NewestAccounted
  <2>2. CASE request_for_send_to_device = Command(given)
    BY <1>1, <2>0, <2>1, <2>2, CommandNumbers
  <2>3. CASE request_for_send_to_device # Command(given)
    BY <1>1, <2>1, <2>3 DEF Commanded, CommandsKept, NewestAccounted, Waiting
  <2>4. QED
    BY <2>2, <2>3
<1>6. QED
  BY <1>3, <1>4, <1>5 DEF Commanded, CommandsKept

\* sending it
LEMMA SendRequest ==
  ASSUME TypeOK, Commanded, Exchange
  PROVE  Commanded'
<1>0. /\ pc = "exchange" /\ request_to_device \in Requests
      /\ sent \in Seq(1 .. MaxCommands) /\ Len(sent) \in Nat
      /\ given \in 0 .. MaxCommands /\ MaxCommands \in Nat
      /\ \A i \in 1 .. Len(sent) : sent[i] \in 1 .. MaxCommands
  BY LenProperties, ElementOfSeq, BoundsKnown DEF TypeOK, Exchange, Buffers
<1>1. /\ pc' \in {"take", "give_up", "publish"}
      /\ sent' = IF request_to_device \in CommandRequests
                 THEN Append(sent, request_to_device.number) ELSE sent
      /\ UNCHANGED <<request_for_send_to_device, request_to_device, given, overwritten>>
  BY DEF Exchange, Failed, MarkSent, shared
<1>2. OwnRequests' /\ HeldNewer'
  BY <1>1 DEF OwnRequests, HeldNewer, Holding
<1>3. CASE request_to_device \notin CommandRequests
  <2>1. sent' = sent
    BY <1>1, <1>3
  <2>2. SlotNewest' /\ SentGiven'
    BY <1>1, <2>1 DEF Commanded, SlotNewest, Holding, SentGiven
  <2>3. CommandsInOrder'
    BY <2>1 DEF Commanded, CommandsKept, CommandsInOrder
  <2>4. given > 0 => Command(given) \in CommandRequests
    BY <1>0, CommandNumbers
  <2>5. NewestAccounted'
    BY <1>1, <1>3, <2>1, <2>4 DEF Commanded, CommandsKept, NewestAccounted, Waiting
  <2>6. QED
    BY <1>2, <2>2, <2>3, <2>5 DEF Commanded, CommandsKept
<1>4. CASE request_to_device \in CommandRequests
  <2> DEFINE n == request_to_device.number
  <2>1. n \in 1 .. MaxCommands /\ request_to_device = Command(n)
    BY <1>4, CommandNumbers
  <2>2. /\ sent' = Append(sent, n) /\ Len(sent') = Len(sent) + 1
        /\ \A i \in 1 .. Len(sent) : sent'[i] = sent[i]
        /\ sent'[Len(sent) + 1] = n
    BY <1>0, <1>1, <1>4, <2>1, AppendProperties
  <2>3. n <= given /\ \A i \in 1 .. Len(sent) : sent[i] < n
    BY <1>0, <1>4 DEF Commanded, HeldNewer, Holding
  <2>4. request_for_send_to_device \in CommandRequests
        => /\ request_for_send_to_device.number = given
           /\ \A i \in 1 .. Len(sent) : sent[i] < given
           /\ n < given
    BY <1>0, <1>4 DEF Commanded, SlotNewest, Holding
  <2>5. \A i \in 1 .. Len(sent') : i \in 1 .. Len(sent) \/ i = Len(sent) + 1
    BY <1>0, <2>2
  <2>6. NewestAccounted'
    <3>1. SUFFICES ASSUME given > 0, ~(\E i \in 1 .. Len(sent') : sent'[i] = given)
                   PROVE  request_for_send_to_device = Command(given) \/ given \in overwritten
      BY <1>1 DEF NewestAccounted, Waiting
    <3>2. n # given
      BY <1>0, <2>2, <3>1
    <3>3. request_to_device # Command(given)
      BY <2>1, <3>2, CommandNumbers
    <3>4. ~(\E i \in 1 .. Len(sent) : sent[i] = given)
      BY <1>0, <2>2, <3>1
    <3>5. QED
      BY <3>1, <3>3, <3>4 DEF Commanded, CommandsKept, NewestAccounted, Waiting
  <2> HIDE DEF n
  <2>7. SlotNewest'
    <3>1. SUFFICES ASSUME request_for_send_to_device \in CommandRequests
                   PROVE  \A i \in 1 .. Len(sent') : sent'[i] < given
      BY <1>1, <2>4 DEF SlotNewest, Holding
    <3>2. QED
      BY <2>2, <2>4, <2>5, <3>1
  <2>8. SentGiven'
    <3>1. \A i \in 1 .. Len(sent) : sent[i] <= given
      BY DEF Commanded, SentGiven
    <3>2. QED
      BY <1>1, <2>2, <2>3, <2>5, <3>1 DEF SentGiven
  <2>9. CommandsInOrder'
    <3>1. SUFFICES ASSUME NEW i \in 1 .. Len(sent'), NEW j \in 1 .. Len(sent'), i < j
                   PROVE  sent'[i] < sent'[j]
      BY DEF CommandsInOrder
    <3>2. i \in 1 .. Len(sent)
      BY <1>0, <2>2, <3>1
    <3>3. CASE j \in 1 .. Len(sent)
      BY <2>2, <3>1, <3>2, <3>3 DEF Commanded, CommandsKept, CommandsInOrder
    <3>4. CASE j = Len(sent) + 1
      BY <2>2, <2>3, <3>2, <3>4
    <3>5. QED
      BY <2>5, <3>3, <3>4
  <2>10. QED
    BY <1>2, <2>6, <2>7, <2>8, <2>9 DEF Commanded, CommandsKept
<1>5. QED
  BY <1>3, <1>4

\* and a new command.
LEMMA CommandGiven ==
  ASSUME TypeOK, Commanded, GiveCommand
  PROVE  Commanded'
<1>0. /\ given \in 0 .. MaxCommands /\ given < MaxCommands /\ MaxCommands \in Nat
      /\ sent \in Seq(1 .. MaxCommands) /\ Len(sent) \in Nat
      /\ \A i \in 1 .. Len(sent) : sent[i] \in 1 .. MaxCommands
      /\ request_to_device \in CommandRequests => request_to_device.number \in 1 .. MaxCommands
  BY LenProperties, ElementOfSeq, BoundsKnown, CommandNumbers DEF TypeOK, GiveCommand
<1>1. /\ given' = given + 1 /\ request_for_send_to_device' = Command(given')
      /\ UNCHANGED <<pc, request_to_device, sent, overwritten>>
  BY DEF GiveCommand, thread
<1>2. /\ OwnRequests /\ HeldNewer /\ SentGiven /\ CommandsInOrder
  BY DEF Commanded, CommandsKept
<1>3. OwnRequests' /\ CommandsInOrder'
  BY <1>1, <1>2 DEF OwnRequests, CommandsInOrder
<1>4. SentGiven'
  BY <1>0, <1>1, <1>2 DEF SentGiven
<1>5. HeldNewer'
  BY <1>0, <1>1, <1>2 DEF HeldNewer, Holding
<1>6. SlotNewest'
  <2>1. request_for_send_to_device'.number = given'
    BY <1>1, CommandNumbers
  <2>2. \A i \in 1 .. Len(sent) : sent[i] < given'
    BY <1>0, <1>1, <1>2 DEF SentGiven
  <2>3. Holding => request_to_device.number < given'
    BY <1>0, <1>1, <1>2 DEF HeldNewer, Holding
  <2>4. QED
    BY <1>1, <2>1, <2>2, <2>3 DEF SlotNewest, Holding
<1>7. NewestAccounted'
  BY <1>1 DEF NewestAccounted, Waiting
<1>8. QED
  BY <1>3, <1>4, <1>5, <1>6, <1>7 DEF Commanded, CommandsKept

\* Every step keeps the order of the commands.
LEMMA CommandedStep ==
  ASSUME TypeOK, Commanded, [Next]_vars
  PROVE  Commanded'
<1>1. CASE Take
  BY <1>1, TakeCommand
<1>2. CASE Store
  BY <1>2, StoreRequest
<1>3. CASE Exchange
  BY <1>3, SendRequest
<1>4. CASE GiveCommand
  BY <1>4, CommandGiven
<1>5. CASE Build
  <2>1. /\ UNCHANGED <<request_for_send_to_device, given, sent, overwritten>>
        /\ pc = "build" /\ pc' \in {"clear", "store"}
        /\ request_to_device' \in {Poll, Time}
    BY <1>5 DEF Build, shared, history
  <2>2. OwnRequests' /\ ~Holding'
    BY <2>1 DEF OwnRequests, Holding
  <2>3. QED
    BY <2>1, <2>2, CommandsElsewhere
<1>6. CASE SetCurrent
  <2>1. /\ UNCHANGED <<request_for_send_to_device, given, sent, overwritten,
                       request_to_device>>
        /\ pc = "current" /\ pc' = "exchange"
    BY <1>6 DEF SetCurrent, thread, history
  <2>2. OwnRequests'
    BY <2>1 DEF OwnRequests
  <2>3. QED
    BY <2>1, <2>2, CommandsElsewhere DEF Holding
<1>7. CASE Connect \/ ClearTime \/ Publish \/ SendPulse \/ GiveUp \/ GiveUpPulse
  <2>1. /\ UNCHANGED <<request_for_send_to_device, given, sent, overwritten,
                       request_to_device>>
        /\ pc \notin {"current", "exchange"} /\ pc' \notin {"current", "exchange", "clear"}
        /\ pc' = "store" => pc = "clear"
    BY <1>7 DEF Connect, ClearTime, Publish, SendPulse, GiveUp, GiveUpPulse, shared,
       thread, history
  <2>2. OwnRequests' /\ ~Holding'
    BY <2>1 DEF Commanded, OwnRequests, Holding
  <2>3. QED
    BY <2>1, <2>2, CommandsElsewhere
<1>8. CASE AskForTime \/ ReadAnswer \/ Decode \/ LinkChanges \/ UNCHANGED vars
  <2>1. UNCHANGED <<request_for_send_to_device, given, sent, overwritten,
                    request_to_device, pc>>
    BY <1>8 DEF AskForTime, ReadAnswer, Decode, LinkChanges, vars, shared, thread, history
  <2>2. OwnRequests' /\ (Holding' <=> Holding)
    BY <2>1 DEF Commanded, OwnRequests, Holding
  <2>3. QED
    BY <2>1, <2>2, CommandsElsewhere DEF Holding
<1>9. QED
  BY <1>1, <1>2, <1>3, <1>4, <1>5, <1>6, <1>7, <1>8 DEF Next, DeviceThread, PhotonThread
-----------------------------------------------------------------------------
(***************************************************************************)
(* Answers                                                                 *)
(***************************************************************************)
LEMMA AnswerExchanged ==
  ASSUME TypeOK, Paired, Exchange
  PROVE  Paired'
<1>0. /\ pc = "exchange" /\ request_to_device \in Requests /\ pending \in Seq(Requests)
      /\ connect_faliures_count \in 0 .. ReconnectsCount
  BY DEF TypeOK, Exchange, Buffers
<1>1. UNCHANGED <<current_request_to_device, answer_from_device, pulses,
                  request_to_device, handled>>
  BY DEF Exchange, shared, photon
<1>2. \/ /\ pc' \in {"take", "give_up"}
         /\ connect_faliures_count' = connect_faliures_count + 1
      \/ /\ pc' = "publish"
         /\ received' = Head(Append(pending, request_to_device))
         /\ pending' = Tail(Append(pending, request_to_device))
  BY DEF Exchange, Failed
<1>3. CurrentExchanged'
  BY <1>0, <1>1, <1>2, FirstAnswer DEF Paired, CurrentExchanged
<1>4. NoAnswerUnconnected' /\ RowEnded'
  BY <1>2 DEF NoAnswerUnconnected, RowEnded
<1>5. AnswerMatchesRequest'
  BY <1>0, <1>2, BoundsKnown DEF AnswerMatchesRequest
<1>6. LastAnswerHandled'
  BY <1>0, <1>1 DEF Paired, LastAnswerHandled
<1>7. QED
  BY <1>3, <1>4, <1>5, <1>6 DEF Paired

\* Every step keeps the answer beside its request.
LEMMA PairedStep ==
  ASSUME TypeOK, Paired, [Next]_vars
  PROVE  Paired'
<1> USE DEF Paired, CurrentExchanged, NoAnswerUnconnected, RowEnded,
            AnswerMatchesRequest, LastAnswerHandled
<1>1. CASE Connect
  BY <1>1, BoundsKnown DEF Connect, photon
<1>2. CASE Take
  BY <1>2 DEF Take, photon
<1>3. CASE Build
  BY <1>3 DEF Build, shared, photon
<1>4. CASE ClearTime
  BY <1>4 DEF ClearTime, thread, photon
<1>5. CASE Store
  BY <1>5 DEF Store, thread, photon
<1>6. CASE SetCurrent
  BY <1>6 DEF SetCurrent, thread, photon
<1>7. CASE Exchange
  BY <1>7, AnswerExchanged
<1>8. CASE Publish
  BY <1>8 DEF Publish, photon
<1>9. CASE SendPulse
  <2>1. pulses' # 0
    BY <1>9 DEF TypeOK, SendPulse
  <2>2. QED
    BY <1>9, <2>1 DEF SendPulse, shared, thread, photon
<1>10. CASE GiveUp
  BY <1>10 DEF GiveUp, thread, photon
<1>11. CASE GiveUpPulse
  <2>1. pulses' # 0
    BY <1>11 DEF TypeOK, GiveUpPulse
  <2>2. QED
    BY <1>11, <2>1 DEF GiveUpPulse, shared, thread, photon
<1>12. CASE GiveCommand
  BY <1>12 DEF GiveCommand, thread, photon
<1>13. CASE AskForTime
  BY <1>13 DEF AskForTime, thread, photon
<1>14. CASE ReadAnswer
  BY <1>14 DEF ReadAnswer, shared, thread
<1>15. CASE Decode
  BY <1>15 DEF Decode, shared, thread
<1>16. CASE LinkChanges
  BY <1>16 DEF LinkChanges, shared, thread, photon
<1>17. CASE UNCHANGED vars
  BY <1>17 DEF vars
<1>18. QED
  BY <1>1, <1>2, <1>3, <1>4, <1>5, <1>6, <1>7, <1>8, <1>9, <1>10, <1>11, <1>12,
     <1>13, <1>14, <1>15, <1>16, <1>17 DEF Next, DeviceThread, PhotonThread
-----------------------------------------------------------------------------
(***************************************************************************)
(* The theorems                                                            *)
(***************************************************************************)
LEMMA InitIInv == Init => IInv
<1> SUFFICES ASSUME Init PROVE IInv
  OBVIOUS
<1>1. TypeOK
  BY BoundsKnown, EmptySeq DEF Init, TypeOK, Buffers
<1>2. sent = <<>> /\ Len(sent) = 0 /\ 1 .. Len(sent) = {}
  BY DEF Init
<1>3. Commanded
  BY <1>2, RequestKinds DEF Init, Commanded, OwnRequests, SlotNewest, HeldNewer, Holding,
     SentGiven, CommandsKept, CommandsInOrder, NewestAccounted
<1>4. Paired
  BY DEF Init, Paired, CurrentExchanged, NoAnswerUnconnected, RowEnded,
     AnswerMatchesRequest, LastAnswerHandled
<1>5. QED
  BY <1>1, <1>3, <1>4 DEF IInv

\* Every step keeps the invariant.
LEMMA NextIInv == IInv /\ [Next]_vars => IInv'
  BY TypeStep, CommandedStep, PairedStep DEF IInv, Commanded, Paired

\* Every behaviour keeps the types, the order of the commands and the pairing
\* of answers (modbus_device's exchange with the line's buffer).
THEOREM Invariant == Spec => []IInv
  BY InitIInv, NextIInv, PTL DEF Spec

\* Whatever the interleaving of the dispatcher with the device's thread and
\* whatever fails on the line, commands are sent in order and at most once, and
\* the newest is sent, waits, or was overwritten by the thread's own request.
THEOREM CommandsAreKept == Spec => []CommandsKept
<1>1. IInv => CommandsKept
  BY DEF IInv, Commanded
<1>2. QED
  BY <1>1, Invariant, PTL

\* An answer stands beside the request it answers until the next request is
\* made current, and the last answer is not left unhandled.
THEOREM AnswersArePaired == Spec => []AnswersPaired
<1>1. IInv => AnswersPaired
  BY DEF IInv, Paired, AnswersPaired
<1>2. QED
  BY <1>1, Invariant, PTL
=============================================================================
