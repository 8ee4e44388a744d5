------------------------------ MODULE Compiler ------------------------------
(* compileWorkflow (core/compiler.ts) as a function from a template to the set of
   its diagnostic codes: a template compiles when the set is empty. Where a
   diagnostic points at, and its wording, are left out. What Ajv and JSON say of the
   template, of the config and of the schemas of a node is data: the codes they
   give are in the faults of the template and of the node.

   A template is [id, nodes, edges, input, output, outputs, requires, depth, faults]:
     nodes    sequence of [id, uses, with, inputs, expects, attempts, faults]; ids are
              numbers, ordered as the code orders the strings; with is the
              <<template, revision>> a call names, or <<>>
     edges    sequence of [id, source, port, target]
     inputs, outputs   functions from names to bindings
     expects  <<schema>> or <<>>;  depth  <<subworkflowMaxDepth>> or <<>>
   A binding is [kind, from, path, type] with kind literal, input or output. A schema
   is [types, props, required, closed, rest, items]: types {} when it declares none,
   closed for additionalProperties false, rest and items <<schema>> or <<>>; the path
   segment "[]" stands for every index.                                       *)
EXTENDS Naturals, FiniteSets, Sequences
Seqs == INSTANCE SequencesExt

CONSTANTS Registered,    \* the registered node definitions, by the name a node uses
          Ceilings       \* deployment limits [nodes, edges, depth]

(* TLC computes a definition of this kind once, but a CONSTANT at every use. *)
Definitions == Registered

Untyped == [types |-> {}, props |-> <<>>, required |-> {}, closed |-> FALSE,
            rest |-> <<>>, items |-> <<>>]

Firsts(s) == {i \in DOMAIN s : \A j \in 1 .. i - 1 : s[j].id # s[i].id}
Repeats(s) == Firsts(s) # DOMAIN s
NodeIds(t) == {t.nodes[i].id : i \in DOMAIN t.nodes}
Node(t, n) == t.nodes[CHOOSE i \in Firsts(t.nodes) : t.nodes[i].id = n]
Known(t) == {n \in NodeIds(t) : Node(t, n).uses \in DOMAIN Definitions}
Def(t, n) == Definitions[Node(t, n).uses]
DistinctEdges(t) == {t.edges[i] : i \in Firsts(t.edges)}
Links(t) == {e \in DistinctEdges(t) : {e.source, e.target} \subseteq NodeIds(t)}
WithRole(t, role) == {n \in Known(t) : Def(t, n).role = role}

Codes(code, refused) == IF refused THEN {code} ELSE {}
-----------------------------------------------------------------------------
(* The graph analyses. *)
Graph(t) == [nodes |-> NodeIds(t), links |-> Links(t),
             ports |-> [n \in Known(t) |-> Def(t, n).ports]]
Into(g, n) == {e \in g.links : e.target = n}
OutOf(g, n) == {e \in g.links : e.source = n}
Size(g) == Cardinality(g.nodes)

(* The nodes whose sources are all in the order, and the order with the first of them. *)
Free(g, order) ==
  {n \in g.nodes \ Seqs!ToSet(order) : \A e \in Into(g, n) : e.source \in Seqs!ToSet(order)}
Longer(g, order) ==
  IF Free(g, order) = {} THEN order
  ELSE Append(order, CHOOSE n \in Free(g, order) : \A m \in Free(g, order) : n <= m)

TopologicalOrder(g) ==
  LET orders[i \in 0 .. Size(g)] == IF i = 0 THEN <<>> ELSE Longer(g, orders[i - 1])
  IN orders[Size(g)]

(* What can be reached from the nodes of S along arcs <<from, to>>. *)
Further(R, arcs) == R \cup {a[2] : a \in {b \in arcs : b[1] \in R}}
Reach(g, S, arcs) ==
  LET reached[i \in 0 .. Size(g)] == IF i = 0 THEN S ELSE Further(reached[i - 1], arcs)
  IN reached[Size(g)]
Reachable(g, n) == Reach(g, {n}, {<<e.source, e.target>> : e \in g.links})
ReachingEnd(g, ends) == Reach(g, ends, {<<e.target, e.source>> : e \in g.links})

(* Sets of nodes computed in topological order, each from those of its sources. *)
Along(g, order, set(_, _)) ==
  LET With(f, n) == [f EXCEPT ![n] = set(f, n)]
      sets[i \in 0 .. Len(order)] ==
        IF i = 0 THEN [n \in g.nodes |-> {}] ELSE With(sets[i - 1], order[i])
  IN sets[Len(order)]

AncestorsOf(g, f, n) == UNION {f[e.source] \cup {e.source} : e \in Into(g, n)}
Ancestors(g, order) == Along(g, order, LAMBDA f, n : AncestorsOf(g, f, n))

(* Mutant: the nodes before one of the sources, not before all of them. *)
DominatorsOfOne(g, order, start) ==
  Along(g, order, LAMBDA f, n :
    IF n = start THEN {n} ELSE {n} \cup UNION {f[e.source] : e \in Into(g, n)})

DominatorsOf(g, start, f, n) ==
  IF n = start THEN {n}
  ELSE {n} \cup {d \in g.nodes : Into(g, n) # {} /\ \A e \in Into(g, n) : d \in f[e.source]}
Dominators(g, order, start) == Along(g, order, LAMBDA f, n : DominatorsOf(g, start, f, n))

(* The nodes from which target must be reached, backwards along the order. *)
MustReach(order, target, leads(_, _)) ==
  LET With(M, n) == IF leads(n, M) THEN M \cup {n} ELSE M
      must[i \in 0 .. Len(order)] ==
        IF i = 0 THEN {target} ELSE With(must[i - 1], order[Len(order) + 1 - i])
  IN must[Len(order)]

(* Mutant: one port that leads there is enough. *)
GuaranteedBySome(g, order, start) ==
  {target \in g.nodes :
     start \in MustReach(order, target, LAMBDA n, M : \E e \in OutOf(g, n) : e.target \in M)}

EveryPort(g, n, M) == /\ n \in DOMAIN g.ports /\ g.ports[n] # {}
                      /\ \A p \in g.ports[n] : \E e \in OutOf(g, n) : e.port = p /\ e.target \in M
Leading(g, order, target) == MustReach(order, target, LAMBDA n, M : EveryPort(g, n, M))
Guaranteed(g, order, start) == {target \in g.nodes : start \in Leading(g, order, target)}
-----------------------------------------------------------------------------
(* Schemas, as far as bindings are checked against them. *)
Property(schema, name) ==
  IF name \in DOMAIN schema.props THEN [forbidden |-> FALSE, schema |-> schema.props[name]]
  ELSE [forbidden |-> schema.closed,
        schema |-> IF schema.rest = <<>> THEN Untyped ELSE schema.rest[1]]

AtPath(schema, path) ==
  LET step(at, segment) ==
        CASE at.refused \/ at.schema = Untyped -> at
          [] segment = "[]" ->
               [refused |-> at.schema.types # {} /\ "array" \notin at.schema.types,
                schema |-> IF at.schema.items = <<>> THEN Untyped ELSE at.schema.items[1]]
          [] OTHER -> LET p == Property(at.schema, segment)
                      IN [refused |-> p.forbidden, schema |-> IF p.forbidden THEN Untyped ELSE p.schema]
  IN Seqs!FoldLeft(step, [refused |-> FALSE, schema |-> schema], path)

Fits(type, schema) ==
  schema.types = {} \/ type \in schema.types \/ (type = "integer" /\ "number" \in schema.types)
MayOverlap(source, target) == source.types = {} \/ \E type \in source.types : Fits(type, target)

OutputSchema(t, n) == CASE n \notin Known(t) -> Untyped
                        [] Node(t, n).expects # <<>> -> Node(t, n).expects[1]
                        [] OTHER -> Def(t, n).output

BindingCodes(t, b, target, upstream, certain) ==
  LET source == IF b.kind = "input" THEN AtPath(t.input, b.path)
                ELSE AtPath(OutputSchema(t, b.from), b.path)
      typed(refusal) == Codes(refusal, source.refused)
                        \cup Codes("BINDING_TYPE_MISMATCH", ~MayOverlap(source.schema, target.schema))
  IN Codes("UNKNOWN_TARGET_BINDING", target.forbidden) \cup
     CASE b.kind = "literal" -> Codes("BINDING_LITERAL_INVALID", ~Fits(b.type, target.schema))
       [] b.kind = "input" -> typed("UNKNOWN_WORKFLOW_INPUT")
       [] b.from \notin NodeIds(t) -> {"UNKNOWN_BINDING_NODE"}
       [] OTHER -> Codes("BINDING_NOT_UPSTREAM", b.from \notin upstream)
                   \cup Codes("BINDING_SOURCE_NOT_GUARANTEED", b.from \in upstream \ certain)
                   \cup typed("BINDING_OUTPUT_PATH_INVALID")

BindingsCodes(t, bindings, schema, upstream, certain) ==
  Codes("REQUIRED_BINDING_MISSING", ~(schema.required \subseteq DOMAIN bindings))
  \cup UNION {BindingCodes(t, bindings[x], Property(schema, x), upstream, certain) : x \in DOMAIN bindings}

OutputCodes(t, guaranteed, b) ==
  CASE b.kind # "output" -> {"WORKFLOW_OUTPUT_BINDING_INVALID"}
    [] b.from \notin WithRole(t, "end") -> {"WORKFLOW_OUTPUT_SOURCE_NOT_END"}
    [] OTHER -> Codes("WORKFLOW_OUTPUT_SOURCE_NOT_GUARANTEED", b.from \notin guaranteed)
OutputsCodes(t, guaranteed) == UNION {OutputCodes(t, guaranteed, t.outputs[x]) : x \in DOMAIN t.outputs}
-----------------------------------------------------------------------------
Calls(t, n) == Node(t, n).with # <<>>
Needs(t, n) == Def(t, n).needs \cup (IF Def(t, n).calls /\ Calls(t, n) THEN {Node(t, n).with} ELSE {})

(* Limits that do not stop the compilation. *)
LimitCodes(t) ==
  Codes("WORKFLOW_NODE_LIMIT_EXCEEDED", Len(t.nodes) > Ceilings.nodes)
  \cup Codes("WORKFLOW_EDGE_LIMIT_EXCEEDED", Len(t.edges) > Ceilings.edges)
  \cup Codes("WORKFLOW_POLICY_LIMIT_EXCEEDED", t.depth # <<>> /\ t.depth[1] > Ceilings.depth)

TemplateCodes(t) ==
  t.faults \cup LimitCodes(t)
  \cup Codes("DUPLICATE_WORKFLOW_REQUIREMENT", ~Seqs!IsInjective(t.requires))
  \cup Codes("DUPLICATE_NODE_ID", Repeats(t.nodes))

NodeCodes(t, n) ==
  Node(t, n).faults
  \cup Codes("UNKNOWN_NODE_TYPE", n \notin Known(t))
  \cup Codes("NODE_RETRY_UNSAFE",
             n \in Known(t) /\ Node(t, n).attempts > 1 /\ Def(t, n).retry = "never")
  \cup Codes("WORKFLOW_REQUIREMENT_UNDECLARED",
             /\ n \in Known(t)
             /\ Node(t, n).faults \cap {"NODE_CONFIG_INVALID", "NODE_DEFINITION_SCHEMA_INVALID"} = {}
             /\ ~(Needs(t, n) \subseteq Seqs!ToSet(t.requires)))
NodesCodes(t) == UNION {NodeCodes(t, n) : n \in NodeIds(t)}

EdgeCodes(t) ==
  Codes("DUPLICATE_EDGE_ID", Repeats(t.edges))
  \cup Codes("DANGLING_EDGE_SOURCE", \E e \in DistinctEdges(t) : e.source \notin NodeIds(t))
  \cup Codes("DANGLING_EDGE_TARGET", \E e \in DistinctEdges(t) : e.target \notin NodeIds(t))
  \cup Codes("UNKNOWN_OUTPUT_PORT",
             \E e \in Links(t) : e.source \in Known(t) /\ e.port \notin Def(t, e.source).ports)

RoleCodes(t, g) ==
  Codes("START_COUNT", Cardinality(WithRole(t, "start")) # 1)
  \cup Codes("END_COUNT", WithRole(t, "end") = {})
  \cup Codes("START_HAS_INCOMING", \E s \in WithRole(t, "start") : Into(g, s) # {})
  \cup Codes("END_HAS_OUTGOING", \E x \in WithRole(t, "end") : OutOf(g, x) # {})
  \cup Codes("REQUIRED_OUTPUT_PORT_MISSING",
             \E n \in Known(t) : ~(Def(t, n).required \subseteq {e.port : e \in OutOf(g, n)}))

(* The first start node in the order of the template. *)
HasStart(t) == WithRole(t, "start") # {}
StartNode(t) == LET starts == {i \in DOMAIN t.nodes : t.nodes[i].id \in WithRole(t, "start")}
                IN t.nodes[CHOOSE i \in starts : \A j \in starts : i <= j].id

GraphCodes(t, g, order) ==
  Codes("GRAPH_CYCLE", Len(order) # Cardinality(g.nodes))
  \cup Codes("UNREACHABLE_NODE", HasStart(t) /\ Reachable(g, StartNode(t)) # g.nodes)
  \cup Codes("NODE_CANNOT_REACH_END", ReachingEnd(g, WithRole(t, "end")) # g.nodes)

InputsCodes(t, g, order, guaranteed) ==
  LET upstream == Ancestors(g, order)
      dominators == IF HasStart(t) THEN Dominators(g, order, StartNode(t)) ELSE [n \in g.nodes |-> {}]
      input(n) == IF n \in Known(t) THEN Def(t, n).input ELSE Untyped
  IN UNION {BindingsCodes(t, Node(t, n).inputs, input(n), upstream[n],
                          dominators[n] \cup guaranteed) : n \in g.nodes}

DataCodes(t, g, order) ==
  LET guaranteed == IF HasStart(t) THEN Guaranteed(g, order, StartNode(t)) ELSE {}
  IN IF Len(order) # Cardinality(g.nodes) THEN {}
     ELSE InputsCodes(t, g, order, guaranteed)
          \cup BindingsCodes(t, t.outputs, t.output, g.nodes, g.nodes)
          \cup OutputsCodes(t, guaranteed)

(* Codes after which the compiler goes no further. *)
Fatal == {"TEMPLATE_NOT_LOSSLESS_JSON", "WORKFLOW_TEMPLATE_TOO_LARGE", "TEMPLATE_SCHEMA",
          "WORKFLOW_SCHEMA_UNSAFE"}

Diagnostics(t) ==
  LET g == Graph(t)
      order == TopologicalOrder(g)
  IN IF t.faults \cap Fatal # {} THEN t.faults \cap Fatal
     ELSE TemplateCodes(t) \cup NodesCodes(t) \cup EdgeCodes(t)
          \cup RoleCodes(t, g) \cup GraphCodes(t, g, order) \cup DataCodes(t, g, order)

Compiles(t) == Diagnostics(t) = {}
Replayable(t) == \A n \in Known(t) : Def(t, n).digest
=============================================================================
