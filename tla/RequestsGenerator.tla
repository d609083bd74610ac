------------------------- MODULE RequestsGenerator -------------------------
(***************************************************************************)
(* The generator of requests that the storage is measured with: calls that *)
(* occupy a channel for side A, one for side B and a call pointer, last a  *)
(* while and free them again.  The storage is built with the mock of the   *)
(* database, which grants everything but each seventh request.             *)
(*                                                                         *)
(* The storage sends, the generator receives and replies: a message takes  *)
(* the last answer and the reply brings the next request.  Either may be   *)
(* lost with its message's MsgSend failing.                                *)
(***************************************************************************)
EXTENDS Integers

CONSTANTS Coordinates,          \* of the channels a call pointer is asked for
          STORAGE_MAX_FAILURES, \* MAX_FAILURES_COUNT of the storage
          MOCK_MAX_COUNTER      \* 2048: the wrapper's counter starts again

ASSUME GeneratorAssumption ==
  Coordinates # {} /\ STORAGE_MAX_FAILURES \in Nat /\ MOCK_MAX_COUNTER \in Nat

VARIABLES
  storage,              \* "pid", "tid": registering; "serving"; "ended"
  failures,             \* failures_count of the storage
  mock_counter,
  generator,            \* "start", "runs", "done"
  turn,                 \* counter of the generator, which is tested for 2 and 3
  A0_state, x1, x2, x3,
  command_to_storage,   \* of A0; at: the channel of a call pointer
  current_call_pointer, \* its channel
  message,              \* what the storage sends: "none" while it works
  request,              \* what it works at
  held,                 \* history: what the storage has given the call and not
                        \* taken back: "A", "B" and "P"
  pointer_at,           \* history: where the pointer was given
  call                  \* history of the call: what ended it, whether channels
                        \* were checked, whether its pointer could not be freed
                        \* and whether a message was lost

automaton == <<A0_state, x1, x2, x3, command_to_storage>>
recorded == <<held, pointer_at, call>>
vars_of_call == <<turn, automaton, current_call_pointer, request>>
generated == <<storage, failures, mock_counter, generator, vars_of_call, message, recorded>>

States == {"OCCUPATE_CH_B_SIDE_A", "OCCUPATE_CH_B_SIDE_B", "OCCUPATE_CALL_POINTER",
           "CALL_CONTINUE", "FREE_CH_B_SIDE_A", "FREE_CH_B_SIDE_B", "FREE_CALL_POINTER"}
Nowhere == 0
NoRequest == [code |-> "none", at |-> Nowhere]
Check == [code |-> "QUERY_STATE_OF_CHANNEL_B", at |-> Nowhere]
NewCall == [ended_by |-> "none", checked |-> FALSE, stuck |-> FALSE, broken |-> FALSE]

InitialExcept(state) ==
  /\ storage = state /\ failures = 0 /\ mock_counter = 0
  /\ generator = "start" /\ turn = 1
  /\ A0_state = "OCCUPATE_CH_B_SIDE_A" /\ x1 = FALSE /\ x2 = FALSE /\ x3 = FALSE
  /\ command_to_storage = [code |-> "OCCUPATE_A", at |-> Nowhere]
  /\ current_call_pointer = Nowhere /\ message = "header" /\ request = NoRequest
  /\ held = {} /\ pointer_at = Nowhere /\ call = NewCall

GeneratorInit == InitialExcept("pid")
GeneratorAbsent == InitialExcept("ended")
-----------------------------------------------------------------------------
(***************************************************************************)
(* A0                                                                      *)
(***************************************************************************)
Target(event, y1, y2, y3) ==
  CASE A0_state = "OCCUPATE_CH_B_SIDE_A" -> IF y1 THEN "OCCUPATE_CH_B_SIDE_B" ELSE A0_state
    [] A0_state = "OCCUPATE_CH_B_SIDE_B" ->
         IF y2 THEN "OCCUPATE_CALL_POINTER" ELSE "FREE_CH_B_SIDE_A"
    [] A0_state = "OCCUPATE_CALL_POINTER" -> IF y3 THEN "CALL_CONTINUE" ELSE "FREE_CH_B_SIDE_A"
    [] A0_state = "CALL_CONTINUE" ->
         IF event = "END_A" THEN "FREE_CH_B_SIDE_A"
         ELSE IF event = "END_B" THEN "FREE_CH_B_SIDE_B" ELSE A0_state
    [] A0_state = "FREE_CH_B_SIDE_A" ->
         IF y1 THEN A0_state
         ELSE IF y2 THEN "FREE_CH_B_SIDE_B"
         ELSE IF y3 THEN "FREE_CALL_POINTER" ELSE "OCCUPATE_CH_B_SIDE_A"
    [] A0_state = "FREE_CH_B_SIDE_B" ->
         IF y2 THEN A0_state
         ELSE IF y1 THEN "FREE_CH_B_SIDE_A"
         ELSE IF y3 THEN "FREE_CALL_POINTER" ELSE "OCCUPATE_CH_B_SIDE_A"
    [] A0_state = "FREE_CALL_POINTER" -> "OCCUPATE_CH_B_SIDE_A"

\* The command of a state, made when it is entered; z3 picks a channel, z6
\* takes the one that current_call_pointer is at.
Code(state) ==
  CASE state = "OCCUPATE_CH_B_SIDE_A" -> "OCCUPATE_A" [] state = "OCCUPATE_CH_B_SIDE_B" -> "OCCUPATE_B"
    [] state = "OCCUPATE_CALL_POINTER" -> "OCCUPATE_P" [] state = "FREE_CH_B_SIDE_A" -> "FREE_A"
    [] state = "FREE_CH_B_SIDE_B" -> "FREE_B" [] state = "FREE_CALL_POINTER" -> "FREE_P"

A0(event, y1, y2, y3, at) ==
  LET state == Target(event, y1, y2, y3)
  IN /\ A0_state' = state
     /\ command_to_storage' =
          IF state = A0_state \/ state = "CALL_CONTINUE" THEN command_to_storage
          ELSE [code |-> Code(state), at |-> IF state = "OCCUPATE_CALL_POINTER" THEN at
                                             ELSE current_call_pointer]
     /\ x1' = y1 /\ x2' = y2 /\ x3' = y3

\* z3 picks the channel that current_call_pointer is at.
PicksPointer(at) == IF A0_state' = "OCCUPATE_CALL_POINTER" /\ A0_state # A0_state'
                    THEN at ELSE current_call_pointer
-----------------------------------------------------------------------------
(***************************************************************************)
(* The generator                                                           *)
(***************************************************************************)
NextTurn == turn' = (turn + 1) % 6

\* Mutation: the flag of the side that is being freed.
AnsweredBySide(answer) ==
  CASE answer = "A" -> <<TRUE, x2, x3>> [] answer = "B" -> <<x1, TRUE, x3>>
    [] answer = "P" -> <<x1, x2, TRUE>> [] answer = "FREED P" -> <<x1, x2, FALSE>>
    [] answer = "FREED" -> IF A0_state = "FREE_CH_B_SIDE_A" THEN <<FALSE, x2, x3>>
                           ELSE <<x1, FALSE, x3>>
    [] OTHER -> <<x1, x2, x3>>

\* The flags after an answer: that of freeing is taken for side B's first.
Answered(answer) ==
  CASE answer = "A" -> <<TRUE, x2, x3>> [] answer = "B" -> <<x1, TRUE, x3>>
    [] answer = "P" -> <<x1, x2, TRUE>> [] answer = "FREED P" -> <<x1, x2, FALSE>>
    [] answer = "FREED" -> IF x2 THEN <<x1, FALSE, x3>> ELSE <<FALSE, x2, x3>>
    [] OTHER -> <<x1, x2, x3>>

\* The next request is A0's.
AsksA0 == request' = command_to_storage'

\* A1 picks a channel to check - and puts it into current_call_pointer.
AsksA1(at) == request' = Check /\ current_call_pointer' = at

\* A header only: a query, or the end of a registration.
AnswersQuery(at) ==
  /\ A0("CHANGED", x1, x2, x3, at) /\ current_call_pointer' = PicksPointer(at)
  /\ AsksA0

\* An answer of the call control changes A0.  If that leaves it in a call,
\* channels are checked or the call is ended at once.
AnswersCallControl(at) ==
  LET y == Answered(message)
      calls == Target("CHANGED", y[1], y[2], y[3]) = "CALL_CONTINUE"
  IN \/ /\ calls /\ turn % 3 = 0
        /\ A0("CHANGED", y[1], y[2], y[3], at)
        /\ AsksA1(at)
     \/ /\ calls /\ turn % 3 # 0
        /\ LET side == IF turn % 2 = 0 THEN "FREE_CH_B_SIDE_B" ELSE "FREE_CH_B_SIDE_A"
           IN /\ A0_state' = side
              /\ command_to_storage' = [code |-> Code(side), at |-> current_call_pointer]
        /\ x1' = y[1] /\ x2' = y[2] /\ x3' = y[3]
        /\ AsksA0 /\ UNCHANGED current_call_pointer
     \/ /\ ~calls
        /\ A0("CHANGED", y[1], y[2], y[3], at)
        /\ AsksA0 /\ current_call_pointer' = PicksPointer(at)

\* An answer to a check: another check or the end of the call, which is always
\* by side A then.
AnswersProcControl(at) ==
  \/ /\ turn % 2 = 0
     /\ AsksA1(at) /\ UNCHANGED automaton
  \/ /\ turn % 2 # 0
     /\ A0("END_A", x1, x2, x3, at)
     /\ AsksA0 /\ UNCHANGED current_call_pointer

Checks == {"CHECKED", "CHECK ERROR"}

Frees == {"FREE_CH_B_SIDE_A", "FREE_CH_B_SIDE_B"}
Returns == A0_state # A0_state' /\ A0_state' = "OCCUPATE_CH_B_SIDE_A"

\* What the call has come to; a new one begins with occupying for side A.
CallRecorded(loses) ==
  IF Returns THEN call' = [NewCall EXCEPT !.broken = loses] /\ held' = {}
  ELSE /\ UNCHANGED held
       /\ call' = [call EXCEPT
            !.ended_by = IF A0_state \in {"CALL_CONTINUE", "OCCUPATE_CALL_POINTER"}
                            /\ A0_state' \in Frees THEN Code(A0_state') ELSE @,
            !.checked = @ \/ request' = Check,
            !.broken = @ \/ loses]

Handles(at) ==
  \/ message = "header" /\ AnswersQuery(at)
  \/ message \in Checks /\ AnswersProcControl(at)
  \/ message \notin Checks \cup {"none", "header"} /\ AnswersCallControl(at)

\* The first message, a registration, is answered with itself.
FirstReceive ==
  /\ generator = "start" /\ storage = "pid"
  /\ generator' = "runs" /\ storage' = "tid"
  /\ UNCHANGED <<failures, mock_counter, vars_of_call, message, recorded>>

Respond(at) ==
  /\ generator = "runs" /\ storage \in {"tid", "serving"} /\ message # "none"
  /\ Handles(at) /\ CallRecorded(FALSE)
  /\ NextTurn /\ message' = "none"
  /\ UNCHANGED <<storage, failures, mock_counter, generator, pointer_at>>

\* requests_count requests have been answered.
Finish ==
  /\ generator = "runs"
  /\ generator' = "done"
  /\ UNCHANGED <<storage, failures, mock_counter, vars_of_call, message, recorded>>
-----------------------------------------------------------------------------
(***************************************************************************)
(* The storage, with mock_database_wrapper                                 *)
(***************************************************************************)
Forgotten(code, at) ==
  CASE code = "FREE_A" -> {"A"} [] code = "FREE_B" -> {"B"}
    [] code = "FREE_P" -> IF at = pointer_at THEN {"P"} ELSE {}

Given == [OCCUPATE_A |-> "A", OCCUPATE_B |-> "B", OCCUPATE_P |-> "P"]

Grants ==
  \/ /\ request.code \in DOMAIN Given
     /\ message' = Given[request.code]
     /\ held' = held \cup {Given[request.code]}
  \/ /\ request.code \in {"FREE_A", "FREE_B", "FREE_P"}
     /\ message' = IF request.code = "FREE_P" THEN "FREED P" ELSE "FREED"
     /\ held' = held \ Forgotten(request.code, request.at)
  \/ request = Check /\ message' = "CHECKED" /\ UNCHANGED held

Denies == message' = (IF request = Check THEN "CHECK ERROR" ELSE "ERROR") /\ UNCHANGED held

\* Occupying a call pointer always succeeds and is not counted.
Counted == request.code # "OCCUPATE_P"
Count == IF mock_counter > MOCK_MAX_COUNTER THEN 0 ELSE mock_counter
Denied == Counted /\ Count % 7 = 0

\* Mutation: the counter stays when a request is denied.
CountsGrants == mock_counter' = IF Counted /\ ~Denied THEN Count + 1 ELSE mock_counter

Counts == mock_counter' = IF Counted THEN Count + 1 ELSE mock_counter

Serve ==
  /\ storage = "serving" /\ message = "none"
  /\ IF Denied THEN Denies ELSE Grants
  /\ Counts
  /\ request' = NoRequest
  /\ pointer_at' = IF request.code = "OCCUPATE_P" THEN request.at ELSE pointer_at
  /\ call' = [call EXCEPT !.stuck = @ \/ (Denied /\ request.code = "FREE_P")]
  /\ UNCHANGED <<storage, failures, generator, turn, automaton, current_call_pointer>>

\* The reply to the second registration is not looked at.
Registered ==
  /\ storage = "tid" /\ message = "none"
  /\ storage' = "serving" /\ message' = "header" /\ request' = NoRequest
  /\ UNCHANGED <<failures, mock_counter, generator, turn, automaton, current_call_pointer,
                 recorded>>

\* MsgSend fails: the next message is a query; after too many the storage ends.
Fails ==
  /\ failures' = failures + 1
  /\ storage' = IF failures' > STORAGE_MAX_FAILURES THEN "ended" ELSE storage
  /\ message' = "header"

\* The message was not received, also because the generator is done,
MessageLost ==
  /\ storage = "serving" /\ message # "none"
  /\ Fails
  /\ call' = [call EXCEPT !.broken = TRUE]
  /\ UNCHANGED <<mock_counter, generator, vars_of_call, held, pointer_at>>

\* or it was, and the reply fails too.
ReplyLost(at) ==
  /\ generator = "runs" /\ storage = "serving" /\ message # "none"
  /\ Handles(at) /\ CallRecorded(TRUE)
  /\ Fails
  /\ UNCHANGED <<mock_counter, generator, turn, pointer_at>>

\* ... both of which end a storage that registers.
RegistrationLost ==
  /\ storage \in {"pid", "tid"} /\ message # "none"
  /\ storage' = "ended"
  /\ UNCHANGED <<failures, mock_counter, generator, vars_of_call, message, recorded>>

GeneratorNext ==
  \/ FirstReceive \/ Finish \/ Serve \/ Registered \/ MessageLost \/ RegistrationLost
  \/ \E at \in Coordinates : Respond(at) \/ ReplyLost(at)

\* Neither program stops while the other waits for it.
GeneratorFairness ==
  /\ WF_generated(FirstReceive) /\ WF_generated(Serve) /\ WF_generated(Registered)
  /\ WF_generated(\E at \in Coordinates : Respond(at))
-----------------------------------------------------------------------------
(***************************************************************************)
(* Properties                                                              *)
(***************************************************************************)

\* Types of the variables, and the flags by the states: occupying and talking
\* go on only with what the storage has given.
GeneratorTyped ==
  /\ storage \in {"pid", "tid", "serving", "ended"} /\ generator \in {"start", "runs", "done"}
  /\ failures \in 0 .. (STORAGE_MAX_FAILURES + 1) /\ turn \in 0 .. 5
  /\ mock_counter \in 0 .. (MOCK_MAX_COUNTER + 1)
  /\ A0_state \in States /\ {x1, x2, x3} \subseteq BOOLEAN
  /\ held \subseteq {"A", "B", "P"}
  /\ A0_state = "OCCUPATE_CH_B_SIDE_A" => ~x1 /\ ~x2
  /\ A0_state = "CALL_CONTINUE" => x1 /\ x2 /\ x3

\* What a call whose messages all arrive leaves behind in the storage: never
\* the channel of side A; that of side B if, and only if, it was side A that
\* ended the call, for A0 frees side A then twice; and the call pointer only if
\* it could not be freed or channels were checked during the call, for the
\* check moves the pointer's coordinates.
LeftBehind ==
  [][Returns /\ ~call.broken =>
       /\ "A" \notin held
       /\ "B" \in held <=> call.ended_by = "FREE_A"
       /\ "P" \in held => call.checked \/ call.stuck]_generated

\* Calls go on being made and ended while neither program stops: what is denied
\* is asked for again and granted, and checking of channels ends.
CallEnded == call.ended_by # "none"
CallsGoOn ==
  \/ <>(generator = "done" \/ storage = "ended")
  \/ []<>CallEnded /\ []<>~CallEnded
=============================================================================
