--------------------------- MODULE ObjectsStorage ---------------------------
(***************************************************************************)
(* The storage of a telephone exchange's channels (objects_storage, built  *)
(* with the extremeDB wrapper).  It is a client: each message it sends     *)
(* carries the answer to the last request, and the reply to it brings the  *)
(* next one.  A call of the database is one transaction, so that a request *)
(* is one step, or no step ever again: the search for a channel may not    *)
(* end.                                                                    *)
(***************************************************************************)
EXTENDS Integers, FiniteSets, FiniteSetsExt

CONSTANTS ChannelsOf,         \* of each trunk group: its channels B
          Asked,              \* channels that clients name by their coordinates
          Tids,               \* tasks of the clients
          Priorities,         \* 0 is refused by an overused trunk group
          Flags,              \* descriptions of requests
          MAX_FAILURES_COUNT,
          MaxCounter          \* 2048, see CheckChannel

\* The trunk groups of load_database, in the order of its insertions: where
\* they lead, 2 for an outgoing one, and 1, 2 or 3 for local calls, long
\* distance calls or both.
TRUNK_GROUP ==
  << [direction |-> 1, inout |-> 1, slzsl |-> 3], [direction |-> 1, inout |-> 2, slzsl |-> 1],
     [direction |-> 1, inout |-> 2, slzsl |-> 2], [direction |-> 2, inout |-> 1, slzsl |-> 3],
     [direction |-> 2, inout |-> 2, slzsl |-> 1], [direction |-> 2, inout |-> 2, slzsl |-> 2] >>
TrunkGroups == DOMAIN TRUNK_GROUP

\* None of its trunk groups leads ISDN calls; each destination has a direction.
isdn(g) == 0
DIRECTION_DESTINATION == {[destination |-> d, direction |-> d] : d \in 1 .. 2}
cng_hi_limit == 91

Channels == UNION {ChannelsOf[g] : g \in TrunkGroups}

ASSUME ChannelsAssumption ==
  /\ ChannelsOf \in [TrunkGroups -> SUBSET (Nat \ {0})]
  /\ \A g \in TrunkGroups : IsFiniteSet(ChannelsOf[g]) /\ Cardinality(ChannelsOf[g]) > 1
  /\ \A g, h \in TrunkGroups : g # h => ChannelsOf[g] \cap ChannelsOf[h] = {}
ASSUME ClientsAssumption ==
  /\ Asked \subseteq Channels
  /\ 0 \notin Tids /\ Priorities \subseteq {0, 1}
  /\ Flags \subseteq SUBSET {"BLOCK_UID", "DEST_TID_STATIC", "WAIT_MSG", "SRC_TID_STATIC"}
ASSUME CountersAssumption == MAX_FAILURES_COUNT \in Nat /\ MaxCounter \in Nat

UIDs == {"CALL_CONTROL", "PROC_CONTROL", "OTHER"}
Clients == [uid : UIDs, tid : Tids]
Depository == [uid |-> "DEPOSITORY", tid |-> 1]
NoAddress == [uid |-> "UNKNOWN", tid |-> 0]
Free == [uid |-> "NONE", tid |-> 0]

\* A destination comes in four bytes, and the database keeps one of them.
Destinations == {1, 2, 3, 257}
Bodies ==
  [code : {"OCCUPATE_CHANNEL_B_SIDE_B"}, destination : Destinations, mg : 0 .. 2,
   priority : Priorities, isdn : {0, 3}]
  \cup [code : {"OCCUPATE_CHANNEL_B_SIDE_A", "FREE_CHANNEL_B", "OCCUPATE_CALL_POINTER",
                "FREE_CALL_POINTER"}, channel : Asked]
  \cup [code : {"QUERY_STATE_OF_CHANNEL_B", "ANY OTHER", "NO BODY"}]

VARIABLES
  stage,                    \* "pid", "tid": registering; "serving"; "searching"
                            \* a channel without end; "ended"
  header, message_to_send,  \* what the next MsgSend sends
  failures_count,
  holder,                   \* of each channel: its userid and tid
  b_used, last_occupied_channel_b, overuse,   \* of each trunk group
  counter,                  \* of the wrapper
  asked,                    \* history: who asked the request being answered,
                            \* and the request, if it is never answered
  told, lost,               \* history: channels whose answer was sent, or
                            \* could not be
  vague                     \* history: calls given a channel, though neither
                            \* local nor long distance

manager == <<header, message_to_send, failures_count, asked>>
outcome == <<told, lost, vague>>
database == <<holder, b_used, last_occupied_channel_b, overuse>>
storagevars == <<stage, manager, database, counter, outcome>>

DataQuery == [type |-> "DATA_QUERY", flags |-> {}, from |-> Depository, to |-> NoAddress]
Nothing == [code |-> "NOTHING", channel |-> 0]
Answer(code) == [code |-> code, channel |-> 0]
Nobody == [from |-> NoAddress, flags |-> {}, body |-> [code |-> "NO BODY"]]

StorageInit ==
  /\ stage = "pid"
  /\ header = DataQuery /\ message_to_send = Nothing
  /\ failures_count = 0 /\ asked = Nobody
  /\ holder = [c \in Channels |-> Free]
  /\ b_used = [g \in TrunkGroups |-> 0] /\ overuse = [g \in TrunkGroups |-> 0]
  /\ last_occupied_channel_b = [g \in TrunkGroups |-> 0]
  /\ counter = 0 /\ told = {} /\ lost = {} /\ vague = 0
-----------------------------------------------------------------------------
(***************************************************************************)
(* The database                                                            *)
(***************************************************************************)

\* new_channel_b_in_trunk, when the database is loaded.
first_channel_b_id(g) == Min(ChannelsOf[g])
b_total(g) == Cardinality(ChannelsOf[g])
GroupOf(c) == CHOOSE g \in TrunkGroups : c \in ChannelsOf[g]

\* find_channel_b_id_by_coordinates never says that it has found the channel.
FoundByCoordinates(c) == {}

\* The trunk groups that may lead the call.
Eligible(r) ==
  LET directions == {d.direction : d \in {e \in DIRECTION_DESTINATION :
                                            e.destination = r.destination % 256}}
  IN {g \in TrunkGroups :
        /\ TRUNK_GROUP[g].direction \in directions
        /\ TRUNK_GROUP[g].inout \in {2, 3}
        /\ r.priority = 0 => overuse[g] = 0
        /\ r.isdn = 3 => isdn(g) # 0
        /\ r.mg = 1 => TRUNK_GROUP[g].slzsl \in {2, 3}
        /\ r.mg = 0 => TRUNK_GROUP[g].slzsl \in {1, 3}}

\* The search starts behind the channel taken last, and again behind the first
\* one, which it never looks at.
Searched(g) == {c \in ChannelsOf[g] \ {first_channel_b_id(g)} : holder[c] = Free}

NextFree(g) ==
  LET behind == {c \in Searched(g) : c > last_occupied_channel_b[g]}
  IN Min(IF behind = {} THEN Searched(g) ELSE behind)

\* Every eligible trunk group gives a channel.
Takes(r) == {NextFree(g) : g \in Eligible(r)}

\* Mutation: also channels of other groups count.
UsedByAll(taken) == [g \in TrunkGroups |-> b_used[g] + Cardinality(taken)]

\* update_channel_b_handler, called when a channel's tid is put.
Used(taken) ==
  [g \in TrunkGroups |->
     IF taken \cap ChannelsOf[g] # {} /\ b_used[g] < b_total(g)
     THEN b_used[g] + 1 ELSE b_used[g]]

\* The share of the used channels is an integer division: it is 0 until all of
\* them are used.
Overused(g, used) == (used \div b_total(g)) * 100 > cng_hi_limit

Occupy(taken, client) ==
  /\ holder' = [c \in Channels |-> IF c \in taken THEN client ELSE holder[c]]
  /\ b_used' = Used(taken)
  /\ last_occupied_channel_b' = [g \in TrunkGroups |->
       IF taken \cap ChannelsOf[g] = {} THEN last_occupied_channel_b[g]
       ELSE Min(taken \cap ChannelsOf[g])]
  /\ overuse' = [g \in TrunkGroups |->
       IF overuse[g] = 0 /\ Overused(g, Used(taken)[g]) THEN 1 ELSE overuse[g]]

\* The answer names the channel of the last of these trunk groups.
Named(r) == NextFree(Max(Eligible(r)))
-----------------------------------------------------------------------------
(***************************************************************************)
(* The requests: each sets the answer's body                               *)
(***************************************************************************)
call_control_occupate_channel_side_b(r, client) ==
  IF Eligible(r) = {}
  THEN /\ message_to_send' = Answer("ERROR_IN_CHANNEL_B_OCCUPATION_SIDE_B")
       /\ UNCHANGED <<database, counter>>
  ELSE /\ Occupy(Takes(r), client)
       /\ message_to_send' = [code |-> "ANSWER_TO_OCCUPATE_CHANNEL_B_SIDE_B",
                              channel |-> Named(r)]
       /\ UNCHANGED counter

\* What needs a channel's coordinates - side A, call pointers and freeing - is
\* refused, whatever the description of the queries says of its answers.
ByCoordinates(c, error) ==
  /\ FoundByCoordinates(c) = {}
  /\ message_to_send' = Answer(error)
  /\ UNCHANGED <<database, counter>>

call_control_occupate_channel_side_a(r) ==
  ByCoordinates(r.channel, "ERROR_IN_CHANNEL_B_OCCUPATION_SIDE_A")
call_control_free_channel(r) == ByCoordinates(r.channel, "ERROR_IN_CHANNEL_B_FREE")
call_control_occupate_call_pointer(r) ==
  ByCoordinates(r.channel, "ERROR_IN_CALL_POINTER_OCCUPATE")
call_control_free_call_pointer(r) == ByCoordinates(r.channel, "ERROR_IN_CALL_POINTER_FREE")

\* proc_control_check_state_b: every seventh check is answered with an error.
CheckChannel ==
  LET before == IF counter > MaxCounter THEN 0 ELSE counter
  IN /\ counter' = before + 1
     /\ message_to_send' = Answer(IF before % 7 = 0 THEN "ERROR_IN_STATE_OF_CHANNEL_B"
                                  ELSE "ANSWER_STATE_OF_CHANNEL_B")
     /\ UNCHANGED database

Refuse(code) == message_to_send' = Answer(code) /\ UNCHANGED <<database, counter>>

CallControl(r, client) ==
  CASE r.code = "OCCUPATE_CHANNEL_B_SIDE_A" -> call_control_occupate_channel_side_a(r)
    [] r.code = "OCCUPATE_CHANNEL_B_SIDE_B" -> call_control_occupate_channel_side_b(r, client)
    [] r.code = "FREE_CHANNEL_B" -> call_control_free_channel(r)
    [] r.code = "OCCUPATE_CALL_POINTER" -> call_control_occupate_call_pointer(r)
    [] r.code = "FREE_CALL_POINTER" -> call_control_free_call_pointer(r)
    [] OTHER -> Refuse("UNKNOWN_COMMAND")

ProcControl(r) ==
  IF r.code = "QUERY_STATE_OF_CHANNEL_B" THEN CheckChannel ELSE Refuse("UNKNOWN_COMMAND")

\* A message of a header only and a client nobody serves are exceptions.
Refused(client, r) == r.code = "NO BODY" \/ client.uid = "OTHER"

Process(client, r) ==
  IF Refused(client, r) THEN Refuse("COMMON_UNKNOWN_COMMAND")
  ELSE IF client.uid = "CALL_CONTROL" THEN CallControl(r, client)
  ELSE ProcControl(r)

\* The search does not end: an eligible trunk group has nothing to give.
NeverEnds(client, r) ==
  /\ client.uid = "CALL_CONTROL" /\ r.code = "OCCUPATE_CHANNEL_B_SIDE_B"
  /\ \E g \in Eligible(r) : Searched(g) = {}
-----------------------------------------------------------------------------
(***************************************************************************)
(* manager_of_data_storage::run                                            *)
(***************************************************************************)

\* The header of an answer; an exception leaves the marks of the addresses.
Returned(client, flags, refused) ==
  [type |-> "ROUTING_QUERY", from |-> Depository, to |-> client,
   flags |-> IF refused THEN (flags \ {"BLOCK_UID"}) \cup {"WAIT_MSG"}
             ELSE {"WAIT_MSG"} \cup {f \in {"DEST_TID_STATIC"} : "SRC_TID_STATIC" \in flags}]

Register ==
  /\ stage \in {"pid", "tid"}
  /\ stage' = IF stage = "pid" THEN "tid" ELSE "serving"
  /\ UNCHANGED <<manager, database, counter, outcome>>

RegisterFails ==
  /\ stage \in {"pid", "tid"}
  /\ stage' = "ended"
  /\ UNCHANGED <<manager, database, counter, outcome>>

Sent(channels) == IF message_to_send.channel # 0 THEN channels \cup {message_to_send.channel}
                  ELSE channels

\* MsgSend takes the last answer to the clients and brings the next request.
Exchange(client, flags, r) ==
  /\ stage = "serving" /\ ~NeverEnds(client, r)
  /\ told' = Sent(told)
  /\ Process(client, r)
  /\ header' = Returned(client, flags, Refused(client, r))
  /\ asked' = [from |-> client, flags |-> flags, body |-> Nobody.body]
  /\ vague' = IF database' # database /\ r.mg = 2 THEN vague + 1 ELSE vague
  /\ UNCHANGED <<stage, failures_count, lost>>

Loop(client, flags, r) ==
  /\ stage = "serving" /\ NeverEnds(client, r)
  /\ stage' = "searching"
  /\ told' = Sent(told) /\ message_to_send' = Nothing
  /\ header' = [type |-> "DATA_QUERY", flags |-> flags, from |-> client, to |-> Depository]
  /\ asked' = [from |-> client, flags |-> flags, body |-> r]
  /\ UNCHANGED <<failures_count, database, counter, lost, vague>>

\* Mutation: the answer is kept and sent again, though it may have been received.
SendFailsResends ==
  /\ stage = "serving"
  /\ failures_count' = failures_count + 1
  /\ stage' = IF failures_count' > MAX_FAILURES_COUNT THEN "ended" ELSE stage
  /\ lost' = Sent(lost)
  /\ UNCHANGED <<header, message_to_send, asked, database, counter, told, vague>>

\* MsgSend fails: the answer is dropped, and the next message is a fresh query.
\* The failures of a whole life are counted.
SendFails ==
  /\ stage = "serving"
  /\ failures_count' = failures_count + 1
  /\ stage' = IF failures_count' > MAX_FAILURES_COUNT THEN "ended" ELSE stage
  /\ lost' = Sent(lost)
  /\ header' = DataQuery /\ message_to_send' = Nothing /\ asked' = Nobody
  /\ UNCHANGED <<database, counter, told, vague>>

StorageNext ==
  \/ Register \/ RegisterFails \/ SendFails
  \/ \E client \in Clients, flags \in Flags, r \in Bodies :
       Exchange(client, flags, r) \/ Loop(client, flags, r)

StorageSpec == StorageInit /\ [][StorageNext]_storagevars
-----------------------------------------------------------------------------
(***************************************************************************)
(* Properties                                                              *)
(***************************************************************************)

\* Types of the variables.
StorageTypes ==
  /\ stage \in {"pid", "tid", "serving", "searching", "ended"}
  /\ header.to \in Clients \cup {NoAddress, Depository}
  /\ failures_count \in 0 .. (MAX_FAILURES_COUNT + 1)
  /\ holder \in [Channels -> Clients \cup {Free}]
  /\ b_used \in [TrunkGroups -> Nat] /\ overuse \in [TrunkGroups -> 0 .. 1]
  /\ last_occupied_channel_b \in [TrunkGroups -> Channels \cup {0}]
  /\ counter \in 0 .. (MaxCounter + 1)
  /\ told \cup lost \subseteq Channels

Occupied(g) == {c \in ChannelsOf[g] : holder[c] # Free}

\* The counter of a trunk group, kept by a callback of the database, is the
\* number of its channels that are held, although the callback says nothing of
\* which was taken; the first channel is never given, and the last one taken
\* is held.
UsedCounted ==
  \A g \in TrunkGroups :
    /\ b_used[g] = Cardinality(Occupied(g))
    /\ first_channel_b_id(g) \notin Occupied(g)
    /\ last_occupied_channel_b[g] \in Occupied(g) \cup {0}

\* The storage stops answering only if somebody asks for a channel of a trunk
\* group that has a free channel left, but only its first one.
StopsWithOneFree ==
  stage = "searching" =>
    \E g \in Eligible(asked.body) :
      ChannelsOf[g] \ Occupied(g) = {first_channel_b_id(g)}

\* The answer goes to who asked; it is marked as to a static address if the
\* request was from one, unless it says that it is an unknown command.
Addressed ==
  stage = "serving" /\ message_to_send # Nothing =>
    /\ header.to = asked.from /\ header.from = Depository
    /\ message_to_send.code # "COMMON_UNKNOWN_COMMAND" =>
         ("DEST_TID_STATIC" \in header.flags <=> "SRC_TID_STATIC" \in asked.flags)

\* An answer names a channel that is held by whom it is addressed to, and that
\* no answer named before, neither one that was sent nor one that was dropped.
\* (Nothing can free it in between: freeing looks the channel up first.)
GivenOnce ==
  LET named == {message_to_send.channel} \ {0}
  IN /\ \A c \in named : holder[c] = header.to
     /\ named \cap (told \cup lost) = {}
     /\ told \cap lost = {}

\* Who holds a channel has been told so, will be with the next message, or
\* cannot be because sending failed; except that a call that is neither local
\* nor long distance takes a channel of two trunk groups and is told of one.
HoldersTold ==
  LET known == told \cup lost \cup {message_to_send.channel}
  IN Cardinality({c \in Channels : holder[c] # Free /\ c \notin known}) <= vague

\* The counters of the trunk groups, the search, the answers and the holders
\* agree.
StorageSound ==
  StorageTypes /\ UsedCounted /\ StopsWithOneFree /\ Addressed /\ HoldersTold
=============================================================================
