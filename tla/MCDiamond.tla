----------------------------- MODULE MCDiamond -----------------------------
(***************************************************************************)
(* DagEngine on the smallest graph with concurrent branches and a join:    *)
(*                                                                         *)
(*   start -> tool -> end                                                  *)
(*     \----> call ---/                                                    *)
(*                                                                         *)
(* tool is a capability.invoke node (external, retry-never); call is a     *)
(* workflow.call node (external, safe to retry) with two attempts.         *)
(***************************************************************************)
EXTENDS DagEngine

MCNodes == {"start", "tool", "call", "end"}

\* <<source, port, target>> of each edge, indexed by its identifier.
Table == << <<"start", "success", "tool">>, <<"start", "success", "call">>,
            <<"tool", "success", "end">>, <<"call", "success", "end">> >>

MCEdges == DOMAIN Table
MCSrc   == [e \in MCEdges |-> Table[e][1]]
MCPort  == [e \in MCEdges |-> Table[e][2]]
MCDst   == [e \in MCEdges |-> Table[e][3]]
MCRank  == [n \in MCNodes |-> CASE n = "start" -> 0 [] n = "call" -> 1
                                [] n = "tool" -> 2 [] OTHER -> 3]
MCChoices     == [n \in MCNodes |-> {{"success"}}]
MCMaxAttempts == [n \in MCNodes |-> IF n = "call" THEN 2 ELSE 1]
=============================================================================
