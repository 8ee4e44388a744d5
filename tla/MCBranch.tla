------------------------------ MODULE MCBranch ------------------------------
(***************************************************************************)
(* DagEngine on a graph with a condition and a join fed by both branches:  *)
(*                                                                         *)
(*   start -> gate -yes-> ask  -> end                                      *)
(*               \--no--> tool --/                                         *)
(*                                                                         *)
(* ask is a human.approval node (external, human-wait, safe to retry, two  *)
(* attempts); tool is a capability.invoke node (external, retry-never).    *)
(***************************************************************************)
EXTENDS DagEngine

MCNodes == {"start", "gate", "ask", "tool", "end"}

\* <<source, port, target>> of each edge, indexed by its identifier.
Table == << <<"start", "success", "gate">>, <<"gate", "yes", "ask">>,
            <<"gate", "no", "tool">>, <<"ask", "success", "end">>,
            <<"tool", "success", "end">> >>

MCEdges == DOMAIN Table
MCSrc   == [e \in MCEdges |-> Table[e][1]]
MCPort  == [e \in MCEdges |-> Table[e][2]]
MCDst   == [e \in MCEdges |-> Table[e][3]]
MCRank  == [n \in MCNodes |-> CASE n = "start" -> 0 [] n = "gate" -> 1 [] n = "ask" -> 2
                                [] n = "tool" -> 3 [] OTHER -> 4]
MCChoices     == [n \in MCNodes |-> IF n = "gate" THEN {{"yes"}, {"no"}} ELSE {{"success"}}]
MCMaxAttempts == [n \in MCNodes |-> IF n = "ask" THEN 2 ELSE 1]
=============================================================================
