---------------------------- MODULE DeviceTypes ----------------------------
(***************************************************************************)
(* The dictionaries the spider reads before its devices: the types of      *)
(* messages, the global messages, and the types of devices with their      *)
(* blocks, data units, messages and input circuts.  A section of the last  *)
(* file may leave out its type or its block and then belongs to the one    *)
(* read last; the file may name further files, that are read after it.     *)
(* A file is revealed section by section.                                  *)
(***************************************************************************)
EXTENDS Integers, Sequences, FiniteSets

CONSTANTS Types, Blocks, Units,   \* the ids a file may give
          MaxSections             \* bound: sections of the files of types

ASSUME IdsAssumption == /\ Types \subseteq Nat \ {0} /\ Blocks \subseteq Nat \ {0}
                        /\ Units \subseteq Nat \ {0}
ASSUME SectionsAssumption == MaxSections \in Nat

\* An entry that is left out.
Absent == 0

(* Message types 1 and 2, of which the file holds some; message 1.         *)
MessageTypes == {1, 2}
Messages == {1}

Section ==
  [kind : {"type"}, id : Types, type : {Absent}, block : {Absent}]
  \union [kind : {"block"}, id : Blocks, type : Types \union {Absent}, block : {Absent}]
  \union [kind : {"signal", "parameter"}, id : Units,
          type : Types \union {Absent}, block : Blocks \union {Absent}]
  \union [kind : {"message"}, id : MessageTypes,
          type : Types \union {Absent}, block : {Absent}]
  \union [kind : {"input circut"}, id : {Absent},
          type : Types \union {Absent}, block : {Absent}]
  \union [kind : {"append file"}, id : {Absent}, type : {Absent}, block : {Absent}]

VARIABLES
  reading,        \* the file that is read, or how the reading ended
  msg_types,      \* the types of messages
  messages,       \* global messages: the message type of each
  types,          \* the types of devices
  blocks,         \* pairs of a type and a block of it
  data_units,     \* what each section of a unit made
  type_messages,  \* pairs of a type and the message type of its message
  circuts,        \* the number of circuts of each type
  appended_files_names,                           \* how many are not yet read
  current_devices_type, current_device_type_block,
  sections        \* history: the sections of the files of types so far

dictionaries == <<msg_types, messages>>
contents == <<types, blocks, data_units, type_messages, circuts>>
current  == <<current_devices_type, current_device_type_block>>
files    == <<reading, dictionaries, contents, current, appended_files_names, sections>>

Ended == {"loaded", "failed", "crashed"}

(* The iterators are not initialised by the constructor.                   *)
Uninitialised == 0

TypesInit ==
  /\ reading = "message types"
  /\ msg_types = {} /\ messages = {}
  /\ types = {} /\ blocks = {} /\ data_units = {} /\ type_messages = {}
  /\ circuts = [t \in Types |-> 0]
  /\ appended_files_names = 0
  /\ current_devices_type = Uninitialised /\ current_device_type_block = Uninitialised
  /\ sections = <<>>
-----------------------------------------------------------------------------
(* Any section may have a wrong or an unknown entry, miss a required one   *)
(* or be of an unknown kind, and the file may not open or close.           *)
FileFails ==
  /\ reading \notin Ended
  /\ reading' = "failed"
  /\ UNCHANGED <<dictionaries, contents, current, appended_files_names, sections>>

LoadMessageType ==
  /\ reading = "message types"
  /\ \E id \in MessageTypes \ msg_types : msg_types' = msg_types \union {id}
  /\ UNCHANGED <<reading, messages, contents, current, appended_files_names, sections>>

(* A global message names a message type that was read.                    *)
LoadMessage ==
  /\ reading = "messages" /\ messages = {}
  /\ \E type \in msg_types : messages' = {type}
  /\ UNCHANGED <<reading, msg_types, contents, current, appended_files_names, sections>>

(* The end of the two dictionaries.                                        *)
DictionaryEnds ==
  /\ \/ reading = "message types" /\ reading' = "messages"
     \/ reading = "messages" /\ reading' = "devices types"
  /\ UNCHANGED <<dictionaries, contents, current, appended_files_names, sections>>
-----------------------------------------------------------------------------
(* The type and the block a section belongs to.                            *)
TypeOf(s) == IF s.type = Absent THEN current_devices_type ELSE s.type
BlockOf(s) == IF s.block = Absent THEN current_device_type_block ELSE s.block

IsUnit(s) == s.kind \in {"signal", "parameter"}

(* An iterator is used that no section has set.                            *)
Undefined(s) ==
  /\ s.kind \notin {"type", "append file"}
  /\ \/ TypeOf(s) = Uninitialised
     \/ IsUnit(s) /\ TypeOf(s) \in types /\ BlockOf(s) = Uninitialised

(* What the loaders demand of a section beside its own entries.            *)
NewType(s)  == s.id \notin types
NewBlock(s) == TypeOf(s) \in types /\ <<TypeOf(s), s.id>> \notin blocks
NewUnit(s)  ==
  /\ TypeOf(s) \in types
  /\ <<TypeOf(s), BlockOf(s)>> \in blocks
  /\ ~ \E u \in data_units : u.type = TypeOf(s) /\ u.id = s.id
NewMessage(s) ==
  /\ TypeOf(s) \in types
  /\ ~ \E m \in type_messages : m[1] = TypeOf(s)
  /\ s.id \in msg_types
KnownType(s) == TypeOf(s) \in types

LoadType(s) ==
  /\ s.kind = "type" /\ NewType(s)
  /\ types' = types \union {s.id}
  /\ current_devices_type' = s.id
  /\ UNCHANGED <<blocks, data_units, type_messages, circuts,
                 current_device_type_block, appended_files_names>>

(* Mutant: only a block of the current type becomes the current block. *)
BlockOfCurrentOnly(s) ==
  /\ s.kind = "block" /\ NewBlock(s)
  /\ blocks' = blocks \union {<<TypeOf(s), s.id>>}
  /\ current_device_type_block' =
       IF s.type = Absent THEN s.id ELSE current_device_type_block
  /\ UNCHANGED <<types, data_units, type_messages, circuts,
                 current_devices_type, appended_files_names>>

(* A block becomes the current one, also when it names another type.       *)
LoadBlock(s) ==
  /\ s.kind = "block" /\ NewBlock(s)
  /\ blocks' = blocks \union {<<TypeOf(s), s.id>>}
  /\ current_device_type_block' = s.id
  /\ UNCHANGED <<types, data_units, type_messages, circuts,
                 current_devices_type, appended_files_names>>

LoadDataUnit(s) ==
  /\ IsUnit(s) /\ NewUnit(s)
  /\ data_units' = data_units \union
       {[type |-> TypeOf(s), block |-> BlockOf(s), id |-> s.id, kind |-> s.kind]}
  /\ UNCHANGED <<types, blocks, type_messages, circuts, current, appended_files_names>>

LoadTypeMessage(s) ==
  /\ s.kind = "message" /\ NewMessage(s)
  /\ type_messages' = type_messages \union {<<TypeOf(s), s.id>>}
  /\ UNCHANGED <<types, blocks, data_units, circuts, current, appended_files_names>>

LoadInputCircut(s) ==
  /\ s.kind = "input circut" /\ KnownType(s)
  /\ circuts' = [circuts EXCEPT ![TypeOf(s)] = @ + 1]
  /\ UNCHANGED <<types, blocks, data_units, type_messages, current, appended_files_names>>

AppendFile(s) ==
  /\ s.kind = "append file" /\ reading = "devices types"
  /\ appended_files_names' = appended_files_names + 1
  /\ UNCHANGED <<contents, current>>

Loads(s) == \/ LoadType(s) \/ LoadBlock(s) \/ LoadDataUnit(s)
            \/ LoadTypeMessage(s) \/ LoadInputCircut(s) \/ AppendFile(s)

ReadsTypes == reading \in {"devices types", "appended file"}

ReadSection(s) ==
  /\ ReadsTypes /\ Len(sections) < MaxSections
  /\ ~Undefined(s)
  /\ Loads(s)
  /\ sections' = Append(sections, s)
  /\ UNCHANGED <<reading, dictionaries>>

(* What is found behind such an iterator is not known: the section may be  *)
(* refused, or the program ends.                                           *)
ReadUndefined(s) ==
  /\ ReadsTypes /\ Len(sections) < MaxSections
  /\ Undefined(s)
  /\ reading' \in {"failed", "crashed"}
  /\ UNCHANGED <<dictionaries, contents, current, appended_files_names, sections>>

(* The main file ends, or one of the files it named: the next is read with *)
(* the type and the block at which the one before it ended.                *)
NextFile ==
  /\ ReadsTypes
  /\ IF appended_files_names > 0
     THEN reading' = "appended file" /\ appended_files_names' = appended_files_names - 1
     ELSE reading' = "loaded" /\ UNCHANGED appended_files_names
  /\ UNCHANGED <<dictionaries, contents, current, sections>>

TypesNext ==
  \/ FileFails \/ LoadMessageType \/ LoadMessage \/ DictionaryEnds \/ NextFile
  \/ \E s \in Section : ReadSection(s) \/ ReadUndefined(s)
-----------------------------------------------------------------------------
TypesTyped ==
  /\ reading \in {"message types", "messages", "devices types", "appended file"} \union Ended
  /\ msg_types \subseteq MessageTypes /\ messages \subseteq MessageTypes
  /\ types \subseteq Types /\ blocks \subseteq Types \X Blocks
  /\ data_units \subseteq [type : Types, block : Blocks, id : Units,
                           kind : {"signal", "parameter"}]
  /\ type_messages \subseteq Types \X MessageTypes
  /\ circuts \in [Types -> 0 .. MaxSections]
  /\ appended_files_names \in 0 .. MaxSections
  /\ current_devices_type \in Types \union {Uninitialised}
  /\ current_device_type_block \in Blocks \union {Uninitialised}
  /\ sections \in Seq(Section) /\ Len(sections) <= MaxSections

(* What the text of the files says: a section that names no type belongs   *)
(* to the last type section before it, one that names no block to the      *)
(* block of the last block section, whichever file they stand in.          *)
LastBefore(kind, i) ==
  LET before == {j \in 1 .. i - 1 : sections[j].kind = kind}
  IN  sections[CHOOSE j \in before : \A k \in before : k <= j].id

TypeSaid(i) ==
  IF sections[i].type = Absent THEN LastBefore("type", i) ELSE sections[i].type
BlockSaid(i) ==
  IF sections[i].block = Absent THEN LastBefore("block", i) ELSE sections[i].block

Said(kinds) == {i \in DOMAIN sections : sections[i].kind \in kinds}

(* The dictionaries hold what the files say, each thing once: a unit lies  *)
(* in one block of one type, both read before it, however the sections     *)
(* are ordered and spread over files, and every message has its type.      *)
TypesAsSaid ==
  reading # "crashed" =>
    /\ types = {sections[i].id : i \in Said({"type"})}
    /\ blocks = {<<TypeSaid(i), sections[i].id>> : i \in Said({"block"})}
    /\ data_units = {[type |-> TypeSaid(i), block |-> BlockSaid(i),
                      id |-> sections[i].id, kind |-> sections[i].kind] :
                       i \in Said({"signal", "parameter"})}
    /\ \A u, v \in data_units : u.type = v.type /\ u.id = v.id => u = v
    /\ Cardinality(data_units) = Cardinality(Said({"signal", "parameter"}))
    /\ \A u \in data_units : <<u.type, u.block>> \in blocks
    /\ \A t \in Types :
         circuts[t] = Cardinality({i \in Said({"input circut"}) : TypeSaid(i) = t})
    /\ messages \subseteq msg_types
    /\ \A m \in type_messages : m[1] \in types /\ m[2] \in msg_types

DictionariesSound == TypesTyped /\ TypesAsSaid
=============================================================================
