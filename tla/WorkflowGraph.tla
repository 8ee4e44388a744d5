--------------------------- MODULE WorkflowGraph ---------------------------
(***************************************************************************)
(* The compiled workflow a run executes, as the constants every run-time   *)
(* module shares, and the scheduling algorithm of the engine: what happens *)
(* to edges and to downstream nodes when one node has succeeded.           *)
(*                                                                         *)
(* A compiled workflow (compileWorkflow in src/core/compiler.ts) is a      *)
(* connected acyclic graph with one start node.  Rank is the position of a *)
(* node in the topological order the compiler computed: the engine sorts   *)
(* its ready queue by it, so the queue is modelled as a set and "the first *)
(* k of the queue" as the k nodes of least rank.                           *)
(***************************************************************************)
EXTENDS Naturals, FiniteSets

CONSTANTS
    Nodes,      \* identifiers of the nodes of the template
    Edges,      \* identifiers of its edges
    Src,        \* Src[e]: the node edge e leaves
    Dst,        \* Dst[e]: the node edge e enters
    Port,       \* Port[e]: the output port of Src[e] the edge hangs on
    Start,      \* the only node of role "start"
    Rank,       \* Rank[n]: index of n in the compiled topological order
    Choices     \* Choices[n]: the sets of ports an execution of n may select

Ports == {Port[e] : e \in Edges}

\* What a template that compiles without diagnostics guarantees about its graph
\* (proved of the compiler in AdmissionProofs).
IsWorkflowGraph ==
    /\ IsFiniteSet(Nodes)
    /\ Start \in Nodes
    /\ Src \in [Edges -> Nodes]
    /\ Dst \in [Edges -> Nodes]
    /\ Rank \in [Nodes -> Nat]
    /\ \A m, n \in Nodes : Rank[m] = Rank[n] => m = n
    /\ \A e \in Edges : Rank[Src[e]] < Rank[Dst[e]]
    /\ \A e \in Edges : Dst[e] # Start

ASSUME GraphAssumption == IsWorkflowGraph

NodeStatus == {"pending", "ready", "running", "waiting", "succeeded",
               "failed", "cancelled", "skipped", "needs_attention"}
EdgeStatus == {"unknown", "taken", "skipped"}

In(n)  == {e \in Edges : Dst[e] = n}
Out(n) == {e \in Edges : Src[e] = n}

\* The k nodes of S that come first in the topological order.
First(k, S) == {n \in S : Cardinality({m \in S : Rank[m] < Rank[n]}) < k}

(***************************************************************************)
(* Edge settlement.  When n succeeds with the ports sel selected, its      *)
(* edges become taken or skipped; a pending node all of whose incoming     *)
(* edges are now known becomes ready if one of them is taken and is        *)
(* skipped otherwise, and a skipped node skips its own edges in turn.  The *)
(* code does this by a depth-first recursion (settleOutgoingEdges calling  *)
(* reconcileNode).  Here S is the set of all nodes the recursion skips: on *)
(* an acyclic graph it is the one solution of IsSkipSet.  EdgeSettlement   *)
(* has the recursion, and PartsProofs that it computes exactly this.       *)
(***************************************************************************)
EdgesAfter(edges, n, sel, S) ==
    [e \in Edges |-> IF Src[e] = n
                     THEN IF Port[e] \in sel THEN "taken" ELSE "skipped"
                     ELSE IF Src[e] \in S THEN "skipped" ELSE edges[e]]

\* The pending nodes the recursion visits and finds with no unknown edge left.
Resolved(nodes, edges, n, sel, S) ==
    LET after == EdgesAfter(edges, n, sel, S)
    IN  {m \in Nodes :
            /\ nodes[m] = "pending"
            /\ \E e \in In(m) : Src[e] = n \/ Src[e] \in S
            /\ \A e \in In(m) : after[e] # "unknown"}

HasTaken(edges, m) == \E e \in In(m) : edges[e] = "taken"

IsSkipSet(nodes, edges, n, sel, S) ==
    S = {m \in Resolved(nodes, edges, n, sel, S) :
            ~ HasTaken(EdgesAfter(edges, n, sel, S), m)}

NewlyReady(nodes, edges, n, sel, S) ==
    {m \in Resolved(nodes, edges, n, sel, S) :
        HasTaken(EdgesAfter(edges, n, sel, S), m)}
=============================================================================
