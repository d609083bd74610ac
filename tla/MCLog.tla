------------------------------- MODULE MCLog -------------------------------
(***************************************************************************)
(* The log and its window on a small instance.  Which records are kept and *)
(* which widgets show them are independent but for the filter, that both   *)
(* have: a behaviour follows the list and its files, or the windows.       *)
(***************************************************************************)
EXTENDS MainLog, LogWindow

VARIABLE watched

\* Two stations of one device each.
MCDevicesOf == << <<1>>, <<2>> >>

MCInit ==
  /\ Init /\ LogWindowInit
  /\ watched \in {"list", "windows"}
  /\ watched = "list" => log = "main"

MCNext ==
  \/ watched = "list" /\ Next /\ UNCHANGED <<logwindow, watched>>
  \/ watched = "windows" /\ LogWindowNext /\ UNCHANGED <<vars, watched>>

MCSpec == MCInit /\ [][MCNext]_<<vars, logwindow, watched>>
            /\ (watched = "list" => Fairness)
-----------------------------------------------------------------------------
\* The log and what its windows show of it agree: the list with its filter and
\* the order of time, the windows with the log's pointers and its filter.
LogSound == ListSound /\ WindowSound
=============================================================================
