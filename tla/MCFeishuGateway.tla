-------------------------- MODULE MCFeishuGateway --------------------------
(***************************************************************************)
(* Instances of FeishuGateway for TLC.                                     *)
(***************************************************************************)
EXTENDS FeishuGateway

CONSTANTS w1, w2, r1, e1, e2, chat

OneChat == [e \in Events |-> chat]
FirstTwice == [e \in Events |-> IF e = e1 THEN 2 ELSE 1]
LongSecond == <<4, 30, 4, 4>>
AllTasks == Workers \cup Clients
=============================================================================
