-------------------------- MODULE MCObjectsStorage --------------------------
(***************************************************************************)
(* The storage of channels on a small exchange, and the generator with the *)
(* storage it measures.  They are builds of one program with two different *)
(* wrappers of the database: a behaviour follows one.                      *)
(***************************************************************************)
EXTENDS ObjectsStorage, RequestsGenerator

VARIABLE built

\* Trunk groups of two channels, and one of three.
MCChannelsOf == <<{1, 2}, {3, 4, 5}, {6, 7}, {8, 9}, {10, 11}, {12, 13}>>

ProgramInit ==
  /\ StorageInit
  /\ built \in {"extremedb", "mock"}
  /\ IF built = "mock" THEN GeneratorInit ELSE GeneratorAbsent

ProgramNext ==
  \/ built = "extremedb" /\ StorageNext /\ UNCHANGED <<generated, built>>
  \/ built = "mock" /\ GeneratorNext /\ UNCHANGED <<storagevars, built>>

ProgramSpec == ProgramInit /\ [][ProgramNext]_<<storagevars, generated, built>>
            /\ (built = "mock" => GeneratorFairness)
-----------------------------------------------------------------------------
\* Of the program that is built: what the storage owes to its callers and to
\* the exchange holds, and the generator's state has its type.
ProgramSound == StorageSound /\ (built = "mock" => GeneratorTyped)
=============================================================================
