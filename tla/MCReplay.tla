------------------------------ MODULE MCReplay ------------------------------
(***************************************************************************)
(* Runs to be replayed: one that waits for a decision and compares a       *)
(* number, one that calls a tool and on one branch calls it again, one     *)
(* through a node of the Host that chooses a port.  Inputs are too small   *)
(* or large enough for the comparison, or no number; a tool's answer may   *)
(* be too long for an artifact, for a limit or for the checkpoint.         *)
(***************************************************************************)
EXTENDS Replay

Literal(v) == [from |-> "literal", value |-> v]
FromInput(p) == [from |-> "input", path |-> p]
FromNode(n, p) == [from |-> n, path |-> p]
Edge(f, p, t) == [from |-> f, port |-> p, to |-> t]
\* A decision, then a comparison that only an approval reaches, and one of the two ends.
Decided == [order |-> <<"start", "ask", "check", "end", "denied">>,
  uses |-> [start |-> "core.start@1", ask |-> "human.approval@1", check |-> "core.condition@1", end |-> "core.end@1", denied |-> "core.end@1"],
  config |-> [check |-> "gte"],
  binds |-> [start |-> NoFields, ask |-> [n |-> FromInput(<<"n">>)],
             check |-> [left |-> FromNode("start", <<"n">>), right |-> Literal(Number(1))],
             end |-> [who |-> FromNode("ask", <<"token">>)], denied |-> [who |-> FromNode("ask", <<"outcome">>)]],
  edges |-> <<Edge("start", "success", "ask"), Edge("ask", "approved", "check"), Edge("ask", "rejected", "denied"),
              Edge("check", "true", "end"), Edge("check", "false", "denied")>>,
  outputs |-> [who |-> FromNode("ask", <<"outcome">>), n |-> FromInput(<<"n">>)]]
\* A tool on one branch only, and one before it.
Called == [order |-> <<"start", "tool", "check", "more", "end">>,
  uses |-> [start |-> "core.start@1", tool |-> "tool.call@1", check |-> "core.condition@1", more |-> "tool.call@1", end |-> "core.end@1"],
  config |-> [check |-> "eq"],
  binds |-> [start |-> NoFields, tool |-> NoFields,
             check |-> [left |-> FromNode("tool", <<"text">>), right |-> Literal(Text(<<"short">>))],
             more |-> NoFields, end |-> [text |-> FromNode("tool", <<"text">>)]],
  edges |-> <<Edge("start", "success", "tool"), Edge("tool", "success", "check"), Edge("check", "true", "end"),
              Edge("check", "false", "more"), Edge("more", "success", "end")>>,
  outputs |-> [text |-> FromNode("tool", <<"text">>)]]
\* A node of the Host that chooses between two ports.
Routed == [order |-> <<"start", "route", "check", "end">>,
  uses |-> [start |-> "core.start@1", route |-> "host.route@1", check |-> "core.condition@1", end |-> "core.end@1"],
  config |-> [check |-> "truthy"],
  binds |-> [start |-> NoFields, route |-> NoFields, check |-> [left |-> FromInput(<<"n">>)], end |-> [n |-> FromInput(<<"n">>)]],
  edges |-> <<Edge("start", "success", "route"), Edge("route", "left", "check"), Edge("route", "right", "end"),
              Edge("check", "true", "end"), Edge("check", "false", "end")>>,
  outputs |-> [n |-> FromInput(<<"n">>)]]
MCReplayPlans == {Decided, Called, Routed}
MCReplayInputs == {Object([n |-> Number(k)]) : k \in 0 .. 1} \cup {Object([n |-> Text(<<"long">>)])}
Deployed(tool, route, capture, artifact, input, output, checkpoint) ==
    [version |-> [u \in {"core.start@1", "core.end@1", "core.condition@1", "human.approval@1", "tool.call@1", "host.route@1"} |->
                  CASE u = "tool.call@1" -> tool [] u = "host.route@1" -> route [] OTHER -> 1],
   capture |-> capture, maxArtifact |-> artifact, maxInput |-> input, maxOutput |-> output, maxCheckpoint |-> checkpoint]
MCReplayDeployments ==
  {Deployed(1, 1, "replayable", 2, 2, 2, 9), Deployed(1, 1, "replayable", 1, 1, 2, 9), Deployed(2, 0, "metadata", 2, 2, 2, 9),
   Deployed(1, 1, "standard", 2, 2, 1, 9), Deployed(1, 1, "standard", 2, 2, 2, 6)}
=============================================================================
