------------------------------ MODULE MCStart ------------------------------
(***************************************************************************)
(* The start of the spider, the dictionaries it reads and the routing it   *)
(* leaves behind, on a small instance: two lines, two stations and two     *)
(* devices.  What is read from one file does not depend on what is read    *)
(* from another beyond the ids it knows, and the search for a gateway      *)
(* begins when the start is over: a behaviour follows one of the three.    *)
(***************************************************************************)
EXTENDS Failover, DeviceTypes, SpiderStart

VARIABLE followed

MCInit ==
  /\ Init /\ TypesInit /\ StartInit
  /\ followed \in {"dictionaries", "start", "search"}
  /\ followed # "search" => (\A e \in Ends : pc[e] = "off" /\ route[e] = 1)

MCNext ==
  \/ followed = "dictionaries" /\ TypesNext /\ UNCHANGED <<vars, start, followed>>
  \/ followed = "start" /\ StartNext /\ UNCHANGED <<vars, files, followed>>
  \/ followed = "search" /\ Next /\ UNCHANGED <<files, start, followed>>

MCSpec == MCInit /\ [][MCNext]_<<vars, files, start, followed>>
            /\ (followed = "search" => \A e \in Ends : WF_vars(Step(e)))
-----------------------------------------------------------------------------
\* The start makes of the files what they say, in an order in which nothing
\* is used before it is there.
ReadAndStarted == DictionariesSound /\ StartSound
=============================================================================
