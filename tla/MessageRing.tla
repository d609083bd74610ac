---------------------------- MODULE MessageRing ----------------------------
(***************************************************************************)
(* The messages of one device: the gateway keeps the last few of them and  *)
(* the id of the newest, which counts modulo MAX_UPPER_MESSAGE_ID_VALUE;   *)
(* every answer to a poll carries both, and the spider works out from the  *)
(* id of the last message it took which of them are new.                   *)
(*                                                                         *)
(* A message is its number in the order the device gave it, which neither  *)
(* program knows, and whether the spider's dictionaries have its text.     *)
(***************************************************************************)
EXTENDS Integers, Sequences

CONSTANTS MaxId,        \* MAX_UPPER_MESSAGE_ID_VALUE
          MaxCount,     \* MAX_MESSAGES_COUNT
          MaxBatch,     \* messages the gateway adds at once
          MaxMessages,  \* bound: messages of a behaviour
          MaxBehind,    \* bound: messages between two answers of a connection
          Unknown,      \* are there messages without a text?
          Restarts      \* may the gateway restart?

ASSUME RingAssumption == /\ MaxCount \in Nat \ {0} /\ MaxId \in Nat
                         /\ MaxCount + 1 < MaxId
ASSUME BehindAssumption == MaxBehind \in Nat /\ MaxBehind + MaxCount <= MaxId
ASSUME BatchAssumption == MaxBatch \in 1 .. MaxId /\ MaxMessages \in Nat
ASSUME FlagsAssumption == Unknown \in BOOLEAN /\ Restarts \in BOOLEAN

NoId == -1   \* last_message_remote_id before the first answer

VARIABLES
  messages, upper_message_id,   \* the gateway
  last_message_remote_id,       \* the spider
  log,                          \* what the last answer added to the main log
  given,                        \* history: messages the device gave
  passed,                       \* history: the newest one the spider took
  foreign                       \* history: last_message_remote_id is of a
                                \* gateway that has since restarted

ring == <<messages, upper_message_id, last_message_remote_id, log, given,
          passed, foreign>>

Message == [number : 1 .. MaxMessages, known : BOOLEAN]
LowerOf(S) == CHOOSE x \in S : \A y \in S : x <= y
UpperOf(S) == CHOOSE x \in S : \A y \in S : x >= y
-----------------------------------------------------------------------------
(***************************************************************************)
(* The gateway: metro_device::add_messages_fifo                            *)
(***************************************************************************)

(* The id counts 1 .. MaxId; it is 0 only before the first message.        *)
NextUpper(k) == LET upper == upper_message_id + k
                IN IF upper > MaxId THEN upper - MaxId ELSE upper

(* The oldest messages beyond MAX_MESSAGES_COUNT are erased.               *)
Newest(all) == IF Len(all) > MaxCount
               THEN SubSeq(all, Len(all) - MaxCount + 1, Len(all)) ELSE all

AddMessages(k) ==
  /\ given + k <= MaxMessages
  /\ last_message_remote_id # NoId => given + k - passed <= MaxBehind
  /\ \E known \in [1 .. k -> IF Unknown THEN BOOLEAN ELSE {TRUE}] :
       messages' = Newest(messages \o
                     [i \in 1 .. k |-> [number |-> given + i,
                                        known |-> known[i]]])
  /\ upper_message_id' = NextUpper(k)
  /\ given' = given + k
  /\ UNCHANGED <<last_message_remote_id, log, passed, foreign>>

(* The constructor: ids start again.                                       *)
Restart ==
  /\ Restarts
  /\ messages' = <<>> /\ upper_message_id' = 0
  /\ foreign' = (last_message_remote_id # NoId)
  /\ UNCHANGED <<last_message_remote_id, log, given, passed>>
-----------------------------------------------------------------------------
(***************************************************************************)
(* The spider: decode_answer_from_device_4_function, the messages          *)
(***************************************************************************)
FirstId == LET first == upper_message_id - Len(messages) + 1
           IN IF first < 0 THEN first + MaxId ELSE first

IdAt(offset) == LET id == FirstId + offset
                IN IF id > MaxId THEN id - MaxId ELSE id

(* The three tests of a message already taken, upper being the id of the   *)
(* last one: the answer's ids do not wrap, they wrap and upper is after    *)
(* the wrap, they wrap and upper is before it.                             *)
TakenStraight(id, upper) ==
  /\ FirstId <= upper_message_id
  /\ FirstId <= upper /\ upper <= upper_message_id
  /\ id <= upper

(* Mutant: the newest counts as taken. *)
TakenAfterWrapNewest(id, upper) ==
  /\ FirstId > upper_message_id
  /\ FirstId >= upper /\ upper <= upper_message_id
  /\ id > upper_message_id \/ id <= upper \/ id = upper_message_id

TakenAfterWrap(id, upper) ==
  /\ FirstId > upper_message_id
  /\ FirstId >= upper /\ upper <= upper_message_id
  /\ (id > upper_message_id /\ id >= FirstId) \/ id <= upper

TakenBeforeWrap(id, upper) ==
  /\ FirstId > upper_message_id
  /\ FirstId <= upper /\ upper > upper_message_id
  /\ id >= upper_message_id /\ id <= upper

Taken(id, upper) == \/ TakenStraight(id, upper)
                    \/ TakenAfterWrap(id, upper)
                    \/ TakenBeforeWrap(id, upper)

(* With the first answer the spider takes the newest id for its last.      *)
UpperLast == IF last_message_remote_id = NoId THEN upper_message_id
             ELSE last_message_remote_id

Fresh == {o \in 0 .. Len(messages) - 1 : ~Taken(IdAt(o), UpperLast)}
Number(o) == messages[o + 1].number
TextMissing == {o \in Fresh : ~messages[o + 1].known}

(* Mutant: the last id becomes the newest of the answer. *)
PollTakesUpper ==
  LET accepted == IF TextMissing = {} THEN Fresh
                  ELSE {o \in Fresh : o < LowerOf(TextMissing)}
  IN /\ log' = IF TextMissing = {} THEN {Number(o) : o \in Fresh} ELSE {}
     /\ last_message_remote_id' = upper_message_id
     /\ passed' = IF accepted # {} THEN Number(UpperOf(accepted))
                  ELSE IF last_message_remote_id = NoId THEN given ELSE passed
     /\ foreign' = (foreign /\ accepted = {})
     /\ UNCHANGED <<messages, upper_message_id, given>>

(* A message without a text throws: the messages before it have moved the  *)
(* last id, but none of the answer reaches the log.                        *)
Poll ==
  LET accepted == IF TextMissing = {} THEN Fresh
                  ELSE {o \in Fresh : o < LowerOf(TextMissing)}
  IN /\ log' = IF TextMissing = {} THEN {Number(o) : o \in Fresh} ELSE {}
     /\ last_message_remote_id' = IF accepted = {} THEN UpperLast
                                  ELSE IdAt(UpperOf(accepted))
     /\ passed' = IF accepted # {} THEN Number(UpperOf(accepted))
                  ELSE IF last_message_remote_id = NoId THEN given ELSE passed
     /\ foreign' = (foreign /\ accepted = {})
     /\ UNCHANGED <<messages, upper_message_id, given>>

(* The device has not answered for too long.                               *)
Forget == /\ last_message_remote_id' = NoId
          /\ foreign' = FALSE
          /\ UNCHANGED <<messages, upper_message_id, log, given, passed>>
-----------------------------------------------------------------------------
RingInit == /\ messages = <<>> /\ upper_message_id = 0
        /\ last_message_remote_id = NoId
        /\ log = {}
        /\ given = 0 /\ passed = 0
        /\ foreign = FALSE

RingNext == \/ \E k \in 1 .. MaxBatch : AddMessages(k)
        \/ Restart \/ Poll \/ Forget

-----------------------------------------------------------------------------
(***************************************************************************)
(* Properties                                                              *)
(***************************************************************************)

(* The types of the variables, the ring's ids and the fifo's length.       *)
RingTyped == /\ messages \in Seq(Message) /\ Len(messages) <= MaxCount
          /\ upper_message_id \in 0 .. MaxId
          /\ last_message_remote_id \in NoId .. MaxId
          /\ log \subseteq 1 .. MaxMessages
          /\ given \in 0 .. MaxMessages /\ passed \in 0 .. given
          /\ foreign \in BOOLEAN

(* The answer begins with the message of id MaxId, which the spider then   *)
(* computes to be 0.                                                       *)
BeginsAtWrap == Len(messages) = MaxCount /\ FirstId = 0

(* A message is logged at most once and never after a later one; only the  *)
(* message of id MaxId is logged again, when it is the oldest of an answer *)
(* and was the last one taken.                                             *)
LoggedOnce ==
  [][Poll /\ ~foreign =>
       \A n \in log' : n > passed \/ (BeginsAtWrap /\ n = passed)]_ring

Answered == {messages[i].number : i \in 1 .. Len(messages)}
Wrapped == FirstId > upper_message_id

(* Every new message of an answer is logged, unless one of them has no     *)
(* text; only the newest may be left for a later answer, while the ids of  *)
(* the answer wrap and the last one taken is from before the wrap.         *)
NothingMissed ==
  [][Poll /\ ~foreign /\ last_message_remote_id # NoId /\ TextMissing = {} =>
       \A n \in Answered : n > passed =>
          \/ n \in log'
          \/ n = given /\ Wrapped /\ UpperLast > upper_message_id]_ring

(* Every message the gateway kept is logged, and logged once.              *)
LogComplete == LoggedOnce /\ NothingMissed

(* The id kept by the spider stays the id of the newest message it took.   *)
IdOfPassed ==
  last_message_remote_id # NoId /\ ~foreign /\ Len(messages) > 0 =>
    \A o \in 0 .. Len(messages) - 1 :
      Number(o) = passed => IdAt(o) = last_message_remote_id \/ BeginsAtWrap

(* The ids of both ends keep within the ring and mean the same message.    *)
IdsAgree == RingTyped /\ IdOfPassed
=============================================================================
