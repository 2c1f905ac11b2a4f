--------------------------- MODULE MCSwarmHarness ---------------------------
(* A swarm task for TLC: model values for the tool thread, a command and    *)
(* the deliverers, and the sets of tools that the configurations offer.     *)
EXTENDS SwarmHarness

CONSTANTS t1, t2, tool, op, main

AllTools     == {"health", "up", "down", "restart", "open", "assert", "sweep", "ask",
                 "deliver", "comment", "respond"}
ServiceTools == {"up", "restart", "down"}
OnlyDeliver  == {"deliver"}
One          == {1}
TwoSquads    == {"general", "research"}
JustLook     == {"health"}
LookAndStop  == {"health", "down"}
=============================================================================
