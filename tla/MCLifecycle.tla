----------------------------- MODULE MCLifecycle -----------------------------
(* Lifecycle on small templates: the compiler studies every choice of edges among
   four nodes; six deployments publish, search and bind, the others execute a call,
   a call of a call and a foreach of two items, each under the faults that concern it. *)
EXTENDS Lifecycle, TLC

Defined(role, ports, required) ==
  [role |-> role, ports |-> ports, required |-> required, input |-> Untyped, output |-> Untyped,
   retry |-> "safe", needs |-> {}, calls |-> FALSE, digest |-> TRUE, builtin |-> TRUE]
Both == {"true", "false"}
MCDefinitions ==
  [start |-> Defined("start", {"success"}, {}),
   end |-> Defined("end", {"success"}, {}),
   condition |-> Defined("regular", Both, Both),
   tool |-> [Defined("regular", {"success"}, {}) EXCEPT !.retry = "never"],
   plugin |-> [Defined("regular", Both, {}) EXCEPT !.builtin = FALSE],
   native |-> [Defined("regular", {"success"}, {}) EXCEPT !.builtin = FALSE, !.digest = FALSE]]
  @@ ("workflow.call" :> [Defined("regular", {"success"}, {}) EXCEPT !.calls = TRUE])
  @@ ("core.foreach" :> [Defined("regular", {"success"}, {}) EXCEPT !.calls = TRUE])
MCCeilings == [nodes |-> 5, edges |-> 8, depth |-> 3]

Output(n) == [kind |-> "output", from |-> n, path |-> <<>>, type |-> "null"]
From(n) == "x" :> Output(n)
MCNode(id, uses, inputs) == [id |-> id, uses |-> uses, with |-> <<>>, inputs |-> inputs,
                             expects |-> <<>>, attempts |-> 1, faults |-> {}]
Template(id, boxes, arrows) ==
  [id |-> id, nodes |-> boxes, edges |-> arrows, input |-> Untyped, output |-> Untyped,
   outputs |-> From(boxes[Len(boxes)].id), requires |-> <<>>, depth |-> <<>>, faults |-> {}]

(* Studied: eight possible edges among a start, a node with two ports, a tool and an end. *)
Edge(i, source, port, dst) == [id |-> i, source |-> source, port |-> port, target |-> dst]
Possible == <<Edge(1, 1, "success", 2), Edge(2, 1, "success", 3), Edge(3, 2, "true", 3), Edge(4, 2, "false", 3),
              Edge(5, 2, "true", 4), Edge(6, 2, "false", 4), Edge(7, 3, "success", 4), Edge(8, 3, "success", 2)>>
Chosen(S) == LET ids == SelectSeq([i \in 1 .. 8 |-> i], LAMBDA i : i \in S)
             IN [k \in DOMAIN ids |-> Possible[ids[k]]]
Studied(middle, from3, from4, S) ==
  Template(1, <<MCNode(1, "start", <<>>), MCNode(2, middle, <<>>), MCNode(3, "tool", from3), MCNode(4, "end", from4)>>,
           Chosen(S))
MCTemplates == {Studied(middle, from3, from4, S) :
                  middle \in {"condition", "plugin"}, from3 \in {<<>>, From(2)}, from4 \in {<<>>, From(2), From(3)},
                  S \in {Q \in SUBSET (1 .. 8) : Cardinality(Q) > 3}}

(* Published: a start, one main node, an end. *)
Small(id, node) ==
  Template(id, <<MCNode(1, "start", <<>>), node @@ [items |-> 1, concurrency |-> 1], MCNode(3, "end", <<>>)>>,
           <<Edge(1, 1, "success", 2), Edge(2, 2, "success", 3)>>) @@ [words |-> {}]
Leaf(id) == Small(id, MCNode(2, "tool", <<>>))
Call(id, ref) == [Small(id, [MCNode(2, "workflow.call", <<>>) EXCEPT !.with = ref, !.attempts = 2])
                  EXCEPT !.requires = <<ref>>]
Each(id, ref, concurrency) ==
  [Small(id, [MCNode(2, "core.foreach", <<>>) EXCEPT !.with = ref] @@ [items |-> 2, concurrency |-> concurrency])
   EXCEPT !.requires = <<ref>>]
Object == [Untyped EXCEPT !.types = {"object"}, !.closed = TRUE, !.required = {"x"}, !.props = "x" :> Untyped]

MCContent ==
  [leaf1 |-> [Leaf(1) EXCEPT !.words = {"w"}],
   plain1 |-> [Leaf(1) EXCEPT !.input = Object],
   faulty1 |-> [Leaf(1) EXCEPT !.faults = {"NODE_CONFIG_INVALID"}],
   native1 |-> Small(1, MCNode(2, "native", <<>>)),
   self1 |-> Call(1, <<1, 1>>),
   leaf2 |-> [Leaf(2) EXCEPT !.words = {"w"}],
   call2 |-> Call(2, <<1, 1>>),
   shallow2 |-> [Call(2, <<1, 1>>) EXCEPT !.depth = <<1>>],
   each2 |-> Each(2, <<1, 1>>, 2),
   slow2 |-> Each(2, <<1, 1>>, 1),
   leaf3 |-> [Leaf(3) EXCEPT !.words = {"w"}],
   call3 |-> Call(3, <<2, 1>>),
   narrow3 |-> [Call(3, <<2, 1>>) EXCEPT !.depth = <<1>>]]

MCCandidates == {[id |-> 1, trigger |-> "manual", target |-> <<1, 1>>, maps |-> {"x"}, faulty |-> FALSE],
                 [id |-> 1, trigger |-> "hook", target |-> <<1, 1>>, maps |-> {"x"}, faulty |-> FALSE],
                 [id |-> 1, trigger |-> "manual", target |-> <<1, 1>>, maps |-> {}, faulty |-> FALSE],
                 [id |-> 1, trigger |-> "gone", target |-> <<1, 1>>, maps |-> {"x"}, faulty |-> FALSE],
                 [id |-> 1, trigger |-> "manual", target |-> <<2, 1>>, maps |-> {"x"}, faulty |-> TRUE]}

Deployed(shelf, offers, cast) == [Study EXCEPT !.shelf = shelf, !.offers = offers, !.cast = cast]
Operated(shelf, cast, ref, faults, n) ==
  [Deployed(shelf, {}, cast) EXCEPT !.target = ref, !.faults = faults, !.shocks = n, !.decisions = 1]
CONSTANTS a1, a2, r1, s1, s2, w1, w2
Authored == {Deployed(<<"leaf1">>, {"self1", "plain1", "faulty1", "native1"}, {a1, a2}),
             Deployed(<<>>, {"leaf1", "call2"}, {a1}),
             Deployed(<<"leaf1", "shallow2">>, {"call3"}, {a1}),
             Deployed(<<"leaf1", "call2">>, {"call3", "narrow3"}, {a1}),
             Deployed(<<"leaf2">>, {"leaf1", "plain1"}, {a1, r1})}
Bound == {Deployed(<<"plain1">>, {}, {w1, w2})}
Called == {Operated(<<"leaf1", "call2">>, {s1, s2}, <<2, 1>>,
                    {"crash", "interrupt", "expire", "cancel", "fail", "recover"}, 2),
           Operated(<<"leaf1", "call2", "call3">>, {s1, s2}, <<3, 1>>, {"crash", "interrupt", "expire"}, 1)}
Iterated == {Operated(<<"leaf1", "each2">>, {s1, s2}, <<2, 1>>, {"crash", "fail"}, 1),
             Operated(<<"leaf1", "slow2">>, {s1, s2}, <<2, 1>>,
                      {"crash", "fail", "expire", "recover"}, 2)}
MCDeployments == Authored \cup Bound \cup Called \cup Iterated
(* A caller detaches from a run that waits for the workflow it called. *)
MCDetached == {Operated(<<"leaf1", "call2">>, {s1}, <<2, 1>>, {"interrupt"}, 1)}
MCRuns == {<<>>, <<1>>, <<2>>, <<1, 1>>}
=============================================================================
