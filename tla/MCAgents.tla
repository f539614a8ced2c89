------------------------------ MODULE MCAgents ------------------------------
(* Small agent graphs for TLC: a root with one child, and with a child that
   has one of its own. *)
EXTENDS AgentLoop

TwoLine == <<"root", "child">>
TwoAgents == {"root", "child"}
TwoParent == [a \in {"child"} |-> "root"]

ThreeLine == <<"root", "child", "leaf">>
ThreeAgents == {"root", "child", "leaf"}
ThreeParent == [a \in {"child", "leaf"} |-> IF a = "leaf" THEN "child" ELSE "root"]
=============================================================================
