--------------------------- MODULE EdgeSettlement ---------------------------
(***************************************************************************)
(* The engine's edge settlement as the code computes it, by a depth-first  *)
(* recursion over the nodes an edge change reaches, executed to completion *)
(* from the start node of a graph under every order of node completions.   *)
(* The recursion is written with the stack of its pending calls, and is    *)
(* compared with the declarative definition of WorkflowGraph that the      *)
(* other modules build on.                                                 *)
(***************************************************************************)
EXTENDS WorkflowGraph, Sequences

VARIABLES
    nodes,      \* nodeStates of the run
    edges,      \* edgeStates of the run
    ready,      \* nodes pushed on the ready queue
    last        \* the completion just processed: what it was computed from

vars == <<nodes, edges, ready, last>>

\* The targets of a node, each once, in whatever order its edges list them.
Targets(n) == {Dst[e] : e \in Out(n)}
InOrder(n) == CHOOSE s \in [1 .. Cardinality(Targets(n)) -> Targets(n)] :
                 \A t \in Targets(n) : \E i \in DOMAIN s : s[i] = t

\* A reconciliation that forgets to hand a skip on to the nodes downstream.
ReconcileNoCascade(s, m) ==
    IF s.nodes[m] # "pending" \/ \E e \in In(m) : s.edges[e] = "unknown" THEN s
    ELSE IF HasTaken(s.edges, m)
    THEN [s EXCEPT !.nodes[m] = "ready", !.ready = @ \cup {m}]
    ELSE [s EXCEPT !.nodes[m] = "skipped"]

\* reconcileNode: decide a pending node once no incoming edge is unknown; a skip is
\* followed by the calls on its targets, before those that are pending already.
Reconcile(s, m) ==
    IF s.nodes[m] # "pending" \/ \E e \in In(m) : s.edges[e] = "unknown" THEN s
    ELSE IF HasTaken(s.edges, m)
    THEN [s EXCEPT !.nodes[m] = "ready", !.ready = @ \cup {m}]
    ELSE [s EXCEPT !.nodes[m] = "skipped",
                   !.edges = [e \in Edges |-> IF Src[e] = m THEN "skipped" ELSE s.edges[e]],
                   !.calls = InOrder(m) \o s.calls]
NextCall(s) == IF s.calls = <<>> THEN s ELSE Reconcile([s EXCEPT !.calls = Tail(@)], Head(s.calls))

\* settleOutgoingEdges: mark n's edges by the selected ports, then reconcile targets. A
\* node is skipped once, so no more calls are made than there are arcs.
Arcs == {<<Src[e], Dst[e]>> : e \in Edges}
SettleOutgoing(s, n, sel) ==
    LET after[k \in 0 .. Cardinality(Arcs)] ==
          IF k = 0 THEN [s EXCEPT !.edges = EdgesAfter(s.edges, n, sel, {}), !.calls = InOrder(n)]
          ELSE NextCall(after[k - 1])
    IN  after[Cardinality(Arcs)]

Init ==
    /\ nodes = [n \in Nodes |-> IF n = Start THEN "ready" ELSE "pending"]
    /\ edges = [e \in Edges |-> "unknown"]
    /\ ready = {Start}
    /\ last = [at |-> Start, sel |-> {},
               before |-> [nodes |-> nodes, edges |-> edges, ready |-> ready, calls |-> <<>>]]

\* A ready node is launched and succeeds; any ready node may be the next to finish.
Complete(n) ==
    \E sel \in Choices[n] :
        LET before == [nodes |-> [nodes EXCEPT ![n] = "succeeded"],
                       edges |-> edges, ready |-> ready \ {n}, calls |-> <<>>]
            after == SettleOutgoing(before, n, sel)
        IN  /\ n \in ready
            /\ nodes' = after.nodes
            /\ edges' = after.edges
            /\ ready' = after.ready
            /\ last' = [at |-> n, sel |-> sel, before |-> before]

Next == \E n \in Nodes : Complete(n)

SettlementSpec == Init /\ [][Next]_vars

\* The recursion computes the declarative result: the nodes it skipped are the
\* only solution of IsSkipSet, and edges and ready nodes are those of that solution
\* (reconcileNode, engine.ts).
RecursionMeetsDefinition ==
    last.sel # {} =>
       LET b == last.before
           skips == {S \in SUBSET {m \in Nodes : b.nodes[m] = "pending"} :
                        IsSkipSet(b.nodes, b.edges, last.at, last.sel, S)}
       IN  \E S \in skips :
              /\ skips = {S}
              /\ S = {m \in Nodes : b.nodes[m] = "pending" /\ nodes[m] = "skipped"}
              /\ edges = EdgesAfter(b.edges, last.at, last.sel, S)
              /\ ready = b.ready \cup NewlyReady(b.nodes, b.edges, last.at, last.sel, S)
=============================================================================
