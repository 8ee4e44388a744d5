----------------------------- MODULE Admission -----------------------------
(* What the engine counts on when it executes a template that compiled: the
   compiler's analyses of the graph (Compiler) against every way the graph can be
   executed, with the edge settlement of WorkflowGraph. One node executes per
   step: that several may be in flight, fail or be retried is DagEngine's.   *)
EXTENDS Compiler

CONSTANTS Templates,     \* the templates given to the compiler
          NoTemplate     \* in a deployment that compiles none

(* The nodes of a template are listed, and numbered by their identifiers. *)
ASSUME TemplatesAssumption ==
  \A t \in Templates : t.nodes \in Seq(Seqs!ToSet(t.nodes)) /\ NodeIds(t) \subseteq Nat

(* A built-in node has one port, or requires an edge on each of its ports (nodes.ts). *)
ASSUME RegistryAssumption ==
  \A d \in DOMAIN Definitions :
    /\ IsFiniteSet(Definitions[d].ports)
    /\ Definitions[d].builtin => \/ Cardinality(Definitions[d].ports) = 1
                                \/ Definitions[d].ports \subseteq Definitions[d].required

VARIABLES given,    \* the template
          verdict,  \* given, refused or accepted, none without a template
          nodes,    \* node states of the run
          edges     \* edge states of the run

admissionVars == <<given, verdict, nodes, edges>>

(* The index of each node in the topological order. *)
Position(t) == LET order == TopologicalOrder(Graph(t))
               IN [n \in NodeIds(t) |-> CHOOSE i \in DOMAIN order : order[i] = n]

G == INSTANCE WorkflowGraph WITH
       Nodes <- DOMAIN nodes, Edges <- DOMAIN edges,
       Src <- [e \in DOMAIN edges |-> e.source], Dst <- [e \in DOMAIN edges |-> e.target],
       Port <- [e \in DOMAIN edges |-> e.port], Start <- StartNode(given),
       Rank <- Position(given), Choices <- [n \in DOMAIN nodes |-> {}]

AdmissionInit == /\ \/ given \in Templates /\ verdict = "given"
                    \/ given = NoTemplate /\ verdict = "none"
                 /\ nodes = <<>> /\ edges = <<>>

Refuse == /\ verdict = "given"
          /\ ~Compiles(given)
          /\ verdict' = "refused"
          /\ UNCHANGED <<given, nodes, edges>>

Accept == /\ verdict = "given"
          /\ Compiles(given)
          /\ verdict' = "accepted"
          /\ nodes' = [n \in NodeIds(given) |-> IF n = StartNode(given) THEN "ready" ELSE "pending"]
          /\ edges' = [e \in Links(given) |-> "unknown"]
          /\ UNCHANGED given

(* A node may select any of its ports; the built-in ones select exactly one. *)
Selections(t, n) == {sel \in SUBSET Def(t, n).ports : sel # {} /\ (Def(t, n).builtin => Cardinality(sel) = 1)}

Execute(n, sel, S) ==
  /\ nodes[n] = "ready"
  /\ G!IsSkipSet(nodes, edges, n, sel, S)
  /\ edges' = G!EdgesAfter(edges, n, sel, S)
  /\ LET ready == G!NewlyReady(nodes, edges, n, sel, S)
     IN nodes' = [m \in DOMAIN nodes |-> CASE m = n -> "succeeded"
                                             [] m \in S -> "skipped"
                                             [] m \in ready -> "ready"
                                             [] OTHER -> nodes[m]]
  /\ UNCHANGED <<given, verdict>>

ExecuteSome == /\ verdict = "accepted"
               /\ \E n \in DOMAIN nodes : \E sel \in Selections(given, n), S \in SUBSET (DOMAIN nodes \ {n}) :
                    Execute(n, sel, S)

AdmissionNext == Refuse \/ Accept \/ ExecuteSome
-----------------------------------------------------------------------------
AdmissionTypeOK ==
  /\ verdict \in {"none", "given", "refused", "accepted"}
  /\ verdict = "accepted" => /\ nodes \in [NodeIds(given) -> {"pending", "ready", "succeeded", "skipped"}]
                             /\ edges \in [Links(given) -> {"unknown", "taken", "skipped"}]

(* The sources that the bindings of a node read (resolveNodeInputs, resolveBinding). *)
SourcesOf(bindings) == {bindings[x].from : x \in {y \in DOMAIN bindings : bindings[y].kind = "output"}}
AtRest == verdict = "accepted" /\ \A n \in DOMAIN nodes : nodes[n] # "ready"

(* A node that is executed finds the output of every node its inputs are bound to,
   whatever branches were taken: BINDING_SOURCE_UNAVAILABLE never happens to a
   template that compiled. *)
SourcesResolve ==
  verdict = "accepted" =>
    \A n \in DOMAIN nodes : nodes[n] \in {"ready", "succeeded"} =>
      \A source \in SourcesOf(Node(given, n).inputs) : nodes[source] = "succeeded"

(* When nothing is left to execute every node was executed or skipped, so that the
   scheduler stops without unresolved nodes, and the outputs of the workflow have
   their sources; if the nodes leave no port unconnected, an end was executed. *)
EveryPathEnds ==
  AtRest =>
    /\ \A n \in DOMAIN nodes : nodes[n] \in {"succeeded", "skipped"}
    /\ \A source \in SourcesOf(given.outputs) : nodes[source] = "succeeded"
    /\ (\A n \in DOMAIN nodes : Def(given, n).builtin) => \E n \in WithRole(given, "end") : nodes[n] = "succeeded"
=============================================================================
