------------------------------- MODULE MCFan -------------------------------
(***************************************************************************)
(* DagEngine on a workflow with two ends, one of which (note) is reached   *)
(* without the Host while two workflow.call nodes wait for it:             *)
(*                                                                         *)
(*   start -> note                                                         *)
(*     |----> left  -> end                                                 *)
(*     \----> right ---/                                                   *)
(***************************************************************************)
EXTENDS DagEngine

MCNodes == {"start", "note", "left", "right", "end"}

\* <<source, port, target>> of each edge, indexed by its identifier.
Table == << <<"start", "success", "note">>, <<"start", "success", "left">>,
            <<"start", "success", "right">>, <<"left", "success", "end">>,
            <<"right", "success", "end">> >>

MCEdges == DOMAIN Table
MCSrc   == [e \in MCEdges |-> Table[e][1]]
MCPort  == [e \in MCEdges |-> Table[e][2]]
MCDst   == [e \in MCEdges |-> Table[e][3]]
MCRank  == [n \in MCNodes |-> CASE n = "start" -> 0 [] n = "left" -> 1
                                [] n = "right" -> 2 [] n = "note" -> 3 [] OTHER -> 4]
MCChoices     == [n \in MCNodes |-> {{"success"}}]
MCMaxAttempts == [n \in MCNodes |-> 1]
=============================================================================
