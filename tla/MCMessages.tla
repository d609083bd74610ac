---------------------------- MODULE MCMessages ----------------------------
(***************************************************************************)
(* The messages from the station's gateway to the log, on a small          *)
(* instance.  What a message says and how it is numbered are independent,  *)
(* so that a behaviour follows one of the two: the making of the messages, *)
(* or their ring.                                                          *)
(***************************************************************************)
EXTENDS MessageRing, GatewayMessages

VARIABLE followed

MCInit ==
  /\ RingInit /\ MessagesInit
  /\ followed \in {"ring", "made"}
  /\ followed = "ring" => ~A0_x1 /\ ~A0_x2 /\ on = {}

MCNext ==
  \/ followed = "ring" /\ RingNext /\ UNCHANGED <<messagesVars, followed>>
  \/ followed = "made" /\ MessagesNext /\ UNCHANGED <<ring, followed>>

MCSpec == MCInit /\ [][MCNext]_<<ring, messagesVars, followed>>
-----------------------------------------------------------------------------
\* The gateway and the spider agree on which messages are new, and a change
\* the gateway still remembers to be told is one that it will tell.
MessagesSound == IdsAgree /\ ChangesHeard
=============================================================================
