------------------------------ MODULE MCRestart ------------------------------
(* Small agent graphs for TLC, as in MCAgents, under restarts. *)
EXTENDS AgentRestart

TwoLine == <<"root", "child">>
TwoAgents == {"root", "child"}
TwoParent == [a \in {"child"} |-> "root"]
=============================================================================
