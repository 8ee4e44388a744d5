-------------------------- MODULE MCEdgeSettlement --------------------------
(***************************************************************************)
(* A graph for EdgeSettlement with what makes settlement hard: two         *)
(* conditions one behind the other, a node only one branch reaches, joins  *)
(* fed by both branches, two parallel edges between the same nodes, and a  *)
(* node that may select several ports at once.                             *)
(*                                                                         *)
(*   start -> c1 -yes-> c2 -yes-> a -> j1 -> end                           *)
(*     |       \-no--> b ---------/    /                                   *)
(*     |              c2 -no-> d ---> j2 -> end     (c2 -no-> j2 as well)  *)
(*     \-> f -{left,right}-> g, j2                                         *)
(***************************************************************************)
EXTENDS EdgeSettlement

MCNodes == {"start", "c1", "c2", "a", "b", "d", "f", "g", "j1", "j2", "end"}

\* <<source, port, target>> of each edge, indexed by its identifier.
Table == <<
    <<"start", "success", "c1">>, <<"start", "success", "f">>,
    <<"c1", "yes", "c2">>, <<"c1", "no", "b">>,
    <<"c2", "yes", "a">>, <<"c2", "no", "d">>, <<"c2", "no", "j2">>,
    <<"a", "success", "j1">>, <<"b", "success", "j1">>, <<"b", "success", "j1">>,
    <<"d", "success", "j2">>, <<"f", "left", "g">>, <<"f", "right", "j2">>,
    <<"j1", "success", "end">>, <<"j2", "success", "end">>, <<"g", "success", "end">> >>

MCEdges == DOMAIN Table
MCSrc   == [e \in MCEdges |-> Table[e][1]]
MCPort  == [e \in MCEdges |-> Table[e][2]]
MCDst   == [e \in MCEdges |-> Table[e][3]]
MCRank  == [n \in MCNodes |-> CASE n = "start" -> 0 [] n = "c1" -> 1 [] n = "b" -> 2
              [] n = "c2" -> 3 [] n = "a" -> 4 [] n = "d" -> 5 [] n = "f" -> 6
              [] n = "g" -> 7 [] n = "j1" -> 8 [] n = "j2" -> 9 [] OTHER -> 10]
MCChoices == [n \in MCNodes |-> CASE n \in {"c1", "c2"} -> {{"yes"}, {"no"}}
              [] n = "f" -> {{"left"}, {"right"}, {"left", "right"}}
              [] OTHER -> {{"success"}}]
=============================================================================
