---------------------------- MODULE MCConduction ----------------------------
(***************************************************************************)
(* The answers and the choices with which TLC checks Conduction: an idle   *)
(* and a moving escalator in remote control, and an idle one in local      *)
(* control.                                                                *)
(***************************************************************************)
EXTENDS Conduction

MCAnswers ==
  {[running |-> "NO", remote |-> TRUE, ready |-> TRUE],
   [running |-> "DOWN", remote |-> TRUE, ready |-> TRUE],
   [running |-> "NO", remote |-> FALSE, ready |-> TRUE]}
=============================================================================
