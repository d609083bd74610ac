------------------------------- MODULE MCHall -------------------------------
(***************************************************************************)
(* A machine hall with a UDKU, an escalator and the door they see, and the *)
(* panels of devices, on a small instance.  The door has no panel and the  *)
(* panels do not touch the door: a behaviour follows the hall, or the      *)
(* panels of two devices of one type, or of two types.                     *)
(***************************************************************************)
EXTENDS MachineHall, DevicePanel

VARIABLE followed

\* Two UDKUs and a cabinet.
ConfiguredKind == [d \in PanelDevices |-> IF d = 3 THEN "shavr" ELSE "udku"]
SomeBlocks == {CleanBlock, [signal |-> "grey", value |-> "1"]}

Clicked == CASE followed = "one type" -> {1, 2}
             [] followed = "two types" -> {1, 3}
             [] OTHER -> {}

MCInit ==
  /\ Init /\ PanelInit
  /\ followed \in {"hall", "one type", "two types"}
  /\ followed # "hall" => /\ position = "closed" /\ ~conduction_is_switched_off
                          /\ ~door.x2 /\ ~door.x3
  /\ \A d \in PanelDevices \ Clicked : ~line[d].x5 /\ ~line[d].x6

MCNext ==
  \/ followed = "hall" /\ Next /\ UNCHANGED <<panelVars, followed>>
  \/ /\ followed # "hall"
     /\ ClosePanel \/ \E d \in Clicked : DeviceStep(d)
     /\ UNCHANGED <<vars, followed>>

MCSpec == /\ MCInit /\ [][MCNext]_<<vars, panelVars, followed>>
          /\ (followed = "hall" => /\ WF_vars(DoorDecodes)
                                   /\ \A r \in Reporters : SF_vars(Answer(r)))
-----------------------------------------------------------------------------
\* The door is known and shown as it is, and so are the paneled devices.
ShownAsKnown == DoorKnown /\ PanelSound
=============================================================================
