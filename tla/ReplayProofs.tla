---------------------------- MODULE ReplayProofs ----------------------------
(***************************************************************************)
(* A recorded replay is the run it replays, for any plans, inputs and       *)
(* limits. The inductive invariant ReplayInv says of every run what its     *)
(* record owes to the plan: edges follow their source, nodes their edges,   *)
(* nodes execute in the order of the plan, and what a deterministic node    *)
(* left is what it computes from the outputs before it; and of a replay     *)
(* that it has the outputs of its run. From that it takes its branches.     *)
(***************************************************************************)
EXTENDS Replay, SequenceTheorems, FiniteSetTheorems, NaturalsInduction, WellFoundedInduction, TLAPS

(* Runs are records; of what a step does to one, most is a frame. *)
Shape(r) ==
  r \in [plan : {r.plan}, lock : {r.lock}, replayable : {r.replayable}, input : {r.input}, mode : {r.mode},
         of : {r.of}, status : {r.status}, nodes : {r.nodes}, edges : {r.edges}, outputs : {r.outputs},
         captured : {r.captured}, result : {r.result}, limits : {r.limits}]
Static(r, t) == /\ t.plan = r.plan /\ t.lock = r.lock /\ t.replayable = r.replayable /\ t.input = r.input
                /\ t.mode = r.mode /\ t.of = r.of /\ t.limits = r.limits

States == {"pending", "ready", "running", "succeeded", "skipped", "failed"}
Done == {"succeeded", "skipped"}
First(plan) == plan.order[1]
Place(plan, n) == CHOOSE i \in DOMAIN plan.order : plan.order[i] = n

Typed(r) ==
  /\ Shape(r) /\ r.plan \in ReplayPlans /\ r.limits \in ReplayDeployments
  /\ r.status \in {"running", "completed", "failed"}
  /\ r.nodes \in [Ids(r.plan) -> States]
  /\ r.edges \in [DOMAIN r.plan.edges -> {"unknown", "taken", "skipped"}]
  /\ r.outputs = [n \in {m \in Ids(r.plan) : r.nodes[m] = "succeeded"} |-> r.outputs[n]]

(* Edges follow their source, nodes their incoming edges. *)
EdgesFollow(r) == \A e \in DOMAIN r.plan.edges :
  LET source == r.nodes[r.plan.edges[e].from]
  IN /\ source \notin Done => r.edges[e] = "unknown"
     /\ source = "skipped" => r.edges[e] = "skipped"
     /\ source = "succeeded" => r.edges[e] # "unknown"
Into(r, n) == {e \in DOMAIN r.plan.edges : r.plan.edges[e].to = n}
Decided(r, n) ==
  /\ r.nodes[n] # "pending" => \A e \in Into(r, n) : r.edges[e] # "unknown"
  /\ r.nodes[n] = "skipped" => \A e \in Into(r, n) : r.edges[e] = "skipped"
  /\ r.nodes[n] \notin {"pending", "skipped"} => \E e \in Into(r, n) : r.edges[e] = "taken"
Waits(r, n) == r.nodes[n] = "pending" => \E e \in Into(r, n) : r.edges[e] = "unknown"
NodesFollow(r) == /\ r.nodes[First(r.plan)] \notin {"pending", "skipped"}
                  /\ \A n \in Ids(r.plan) \ {First(r.plan)} : Decided(r, n) /\ Waits(r, n)

(* Nodes execute in the order of the plan. *)
Sequential(r) == \A m, n \in Ids(r.plan) :
  r.nodes[n] \in {"running", "succeeded", "failed"} /\ Before(r.plan, m, n) => r.nodes[m] \in Done

(* What a node could see: the outputs of the nodes before it. Whatever is succeeded since,
   what a node did is what it does with these. *)
Seen(r, n) == [plan |-> r.plan, input |-> r.input,
               outputs |-> [m \in {k \in DOMAIN r.outputs : Before(r.plan, k, n)} |-> r.outputs[m]]]
Ports(r, n) == IF External(r.plan.uses[n]) THEN RestoredPorts(r.plan.uses[n], r.outputs[n])
               ELSE Deterministic(Seen(r, n), n).ports
Computed(r) == \A n \in Ids(r.plan) :
  /\ r.nodes[n] \in {"running", "succeeded"} => NodeInputs(Seen(r, n), n) # Unbound
  /\ r.nodes[n] = "succeeded" =>
       /\ ValidOutputs(r.plan.uses[n], r.outputs[n]) /\ Size(r.outputs[n]) <= r.limits.maxOutput
       /\ ~External(r.plan.uses[n]) =>
            LET computed == Deterministic(Seen(r, n), n)
            IN /\ computed.outputs # Thrown /\ r.outputs[n] = computed.outputs
               /\ computed.ports \subseteq OutputPorts(r.plan.uses[n])
       /\ r.plan.uses[n] # "host.route@1" =>
            \A e \in DOMAIN r.plan.edges : r.plan.edges[e].from = n =>
              r.edges[e] = IF r.plan.edges[e].port \in Ports(r, n) THEN "taken" ELSE "skipped"

Ended(r) ==
  /\ r.status = "running" => \A n \in Ids(r.plan) : r.nodes[n] # "failed"
  /\ r.status = "completed" =>
       /\ \A n \in Ids(r.plan) : r.nodes[n] \in Done
       /\ r.result = ResolveBindings(r.plan.outputs, r.input, r.outputs)
       /\ r.result # Unbound /\ Size(r.result) <= r.limits.maxOutput
Weighed(r) == DOMAIN r.outputs # {} => CheckpointSize(r.outputs) <= r.limits.maxCheckpoint

RunOK(r) == /\ Typed(r) /\ EdgesFollow(r) /\ NodesFollow(r)
            /\ Sequential(r) /\ Computed(r) /\ Ended(r) /\ Weighed(r)

(* A replay has the outputs of the run it replays. *)
Agrees(r, s) == \A n \in Ids(r.plan) : r.nodes[n] = "succeeded" =>
                  s.nodes[n] = "succeeded" /\ r.outputs[n] = s.outputs[n]
ReplayOK(i) ==
  LET r == past[i]
      s == past[r.of]
  IN /\ r.of \in 1 .. i - 1 /\ s.status = "completed" /\ s.plan = r.plan /\ s.input = r.input
     /\ ~PortsLost(s) => /\ Agrees(r, s)
                         /\ r.status = "failed" => Tightened(r, s)
                         /\ \A call \in hostCalls : call.run # i

Outcome(i) == IF i \in DOMAIN past /\ past[i].status # "running" THEN {EngineResult(past[i])} ELSE {}
ReplayInv ==
  /\ past \in Seq({past[i] : i \in DOMAIN past}) /\ Len(past) <= MaxPast
  /\ deployment \in ReplayDeployments
  /\ Executing => Run.limits = deployment
  /\ \A i \in DOMAIN past : /\ RunOK(past[i])
                            /\ i < Len(past) => past[i].status # "running"
                            /\ past[i].mode = "recorded" => ReplayOK(i)
  /\ told = [i \in 1 .. MaxPast |-> told[i]] /\ \A i \in 1 .. MaxPast : told[i] \subseteq Outcome(i)
  /\ \A call \in hostCalls : call.run \in DOMAIN past /\ External(past[call.run].plan.uses[call.node])
-----------------------------------------------------------------------------
Smaller == {p \in Nat \X Nat : p[1] < p[2]}
LEMMA LeastPlace ==
  ASSUME NEW T \in SUBSET Nat, T # {}
  PROVE \E x \in T : \A y \in T : x <= y
<1>1. IsWellFoundedOn(Smaller, Nat)
  BY NatLessThanWellFounded, Zenon DEF OpToRel, Smaller
<1>2. PICK x \in T : \A y \in T : ~(<<y, x>> \in Smaller)
  BY <1>1, WFMin
<1>3. \A y \in T : ~(y < x)
  BY <1>2 DEF Smaller
<1> QED BY <1>3

(* The order of a plan numbers its nodes, and edges lead on in it. *)
LEMMA Places ==
  ASSUME NEW plan \in ReplayPlans
  PROVE /\ Len(plan.order) \in Nat \ {0} /\ DOMAIN plan.order = 1 .. Len(plan.order)
        /\ \A i \in 1 .. Len(plan.order) : plan.order[i] \in Ids(plan) /\ Place(plan, plan.order[i]) = i
        /\ \A n \in Ids(plan) : Place(plan, n) \in 1 .. Len(plan.order) /\ plan.order[Place(plan, n)] = n
        /\ \A m, n \in Ids(plan) : Before(plan, m, n) <=> Place(plan, m) < Place(plan, n)
        /\ First(plan) \in Ids(plan) /\ Place(plan, First(plan)) = 1
<1>1. /\ plan.order \in Seq(Ids(plan)) /\ plan.order # <<>>
      /\ \A i, j \in DOMAIN plan.order : plan.order[i] = plan.order[j] => i = j
  BY PlansAssumption DEF PlansAssumption
<1>2. Len(plan.order) \in Nat \ {0} /\ DOMAIN plan.order = 1 .. Len(plan.order)
  BY <1>1
<1>3. \A i \in 1 .. Len(plan.order) : plan.order[i] \in Ids(plan) /\ Place(plan, plan.order[i]) = i
  BY <1>1, <1>2 DEF Ids, Place
<1>4. \A n \in Ids(plan) : Place(plan, n) \in 1 .. Len(plan.order) /\ plan.order[Place(plan, n)] = n
  BY <1>2, <1>3 DEF Ids
<1>5. \A m, n \in Ids(plan) : Before(plan, m, n) <=> Place(plan, m) < Place(plan, n)
  BY <1>2, <1>3, <1>4 DEF Before
<1> QED BY <1>2, <1>3, <1>4, <1>5 DEF First

LEMMA EdgesLeadOn ==
  ASSUME NEW plan \in ReplayPlans
  PROVE /\ \A e \in DOMAIN plan.edges : /\ plan.edges[e].from \in Ids(plan) /\ plan.edges[e].to \in Ids(plan)
                                        /\ Before(plan, plan.edges[e].from, plan.edges[e].to)
                                        /\ plan.edges[e].to # First(plan)
        /\ \A n \in Ids(plan) \ {First(plan)} : \E e \in DOMAIN plan.edges : plan.edges[e].to = n
<1>1. \A e \in DOMAIN plan.edges : /\ Before(plan, plan.edges[e].from, plan.edges[e].to)
                                   /\ plan.edges[e].from \in Ids(plan) /\ plan.edges[e].to \in Ids(plan)
  <2>1. \A e \in DOMAIN plan.edges : Before(plan, plan.edges[e].from, plan.edges[e].to)
    BY PlansAssumption DEF PlansAssumption
  <2>2. \A m, n : Before(plan, m, n) => m \in Ids(plan) /\ n \in Ids(plan)
    BY DEF Before, Ids
  <2> QED BY <2>1, <2>2
<1>2. \A e \in DOMAIN plan.edges : plan.edges[e].to # First(plan)
  BY <1>1, Places
<1> QED BY <1>1, <1>2, PlansAssumption DEF PlansAssumption, First

(* Some node comes first among those of a set. *)
LEMMA FirstOfSome ==
  ASSUME NEW plan \in ReplayPlans, NEW S \in SUBSET Ids(plan), S # {}
  PROVE \E n \in S : \A m \in Ids(plan) : Before(plan, m, n) => m \notin S
<1> DEFINE T == {Place(plan, n) : n \in S}
<1>1. T \in SUBSET Nat /\ T # {}
  BY Places
<1>2. PICK x \in T : \A y \in T : x <= y
  BY <1>1, LeastPlace
<1>3. PICK n \in S : x = Place(plan, n)
  OBVIOUS
<1>4. \A m \in S : Place(plan, n) <= Place(plan, m)
  BY <1>2, <1>3
<1> QED BY <1>3, <1>4, Places

(* A node whose predecessors are done is not pending. *)
LEMMA NoneWaitsForDone ==
  ASSUME NEW r, Typed(r), EdgesFollow(r), NodesFollow(r), NEW n \in Ids(r.plan),
         \A m \in Ids(r.plan) : Before(r.plan, m, n) => r.nodes[m] \in Done
  PROVE r.nodes[n] # "pending"
<1>1. \A e \in Into(r, n) : r.edges[e] # "unknown"
  BY EdgesLeadOn DEF Typed, EdgesFollow, Into, Done
<1> QED BY <1>1 DEF NodesFollow, Waits

(* The node that is started next finds all nodes before it done. *)
LEMMA NextInOrder ==
  ASSUME NEW r, RunOK(r), r.status = "running", RunningNode(r) = {},
         NEW n \in ReadyNode(r), \A m \in ReadyNode(r) \ {n} : Before(r.plan, n, m)
  PROVE \A m \in Ids(r.plan) : Before(r.plan, m, n) => r.nodes[m] \in Done
<1>1. r.plan \in ReplayPlans /\ n \in Ids(r.plan) /\ r.nodes[n] = "ready" /\ r.nodes \in [Ids(r.plan) -> States]
  BY DEF RunOK, Typed, ReadyNode
<1> DEFINE S == {m \in Ids(r.plan) : r.nodes[m] \notin Done}
<1>2. n \in S /\ S \in SUBSET Ids(r.plan) /\ S # {}
  BY <1>1 DEF Done
<1>3. PICK k \in S : \A m \in Ids(r.plan) : Before(r.plan, m, k) => m \notin S
  <2> HIDE DEF S
  <2>1. r.plan \in ReplayPlans /\ S \in SUBSET Ids(r.plan) /\ S # {}
    BY <1>1, <1>2
  <2> QED BY <2>1, FirstOfSome, Zenon
<1>4. r.nodes[k] # "pending"
  BY <1>3, NoneWaitsForDone DEF RunOK
<1>5. r.nodes[k] = "ready"
  BY <1>1, <1>3, <1>4 DEF RunOK, Ended, RunningNode, States, Done
<1>6. k = n
  BY <1>2, <1>3, <1>5 DEF ReadyNode
<1> QED BY <1>3, <1>6

(* When nothing runs or is ready, everything is done. *)
LEMMA NothingLeft ==
  ASSUME NEW r, RunOK(r), r.status = "running", RunningNode(r) = {}, ReadyNode(r) = {}
  PROVE \A n \in Ids(r.plan) : r.nodes[n] \in Done
<1>1. r.plan \in ReplayPlans /\ r.nodes \in [Ids(r.plan) -> States]
  BY DEF RunOK, Typed
<1> DEFINE S == {m \in Ids(r.plan) : r.nodes[m] \notin Done}
<1>2. SUFFICES ASSUME S # {} PROVE FALSE
  OBVIOUS
<1>3. PICK k \in S : \A m \in Ids(r.plan) : Before(r.plan, m, k) => m \notin S
  <2>1. r.plan \in ReplayPlans /\ S \in SUBSET Ids(r.plan) /\ S # {}
    BY <1>1, <1>2
  <2> HIDE DEF S
  <2> QED BY <2>1, FirstOfSome, Zenon
<1>4. r.nodes[k] # "pending"
  BY <1>3, NoneWaitsForDone DEF RunOK
<1> QED BY <1>1, <1>3, <1>4 DEF RunOK, Ended, RunningNode, ReadyNode, States, Done
-----------------------------------------------------------------------------
(* Induction over the natural numbers, for a set. *)
LEMMA OneByOne ==
  ASSUME NEW T \in SUBSET Nat, 0 \in T, \A n \in T : n + 1 \in T
  PROVE T = Nat
<1> SUFFICES ASSUME Nat \ T # {} PROVE FALSE
  OBVIOUS
<1>1. PICK x \in Nat \ T : \A y \in Nat \ T : x <= y
  BY LeastPlace
<1>2. x # 0 /\ x - 1 \in Nat \ T
  BY <1>1
<1> QED BY <1>1, <1>2

(* Settling decides the edges of a node, then reconciles one node after the other. *)
Stages(f, d, start, length) ==
  /\ f[0] = start
  /\ \A i \in 1 .. length : f[i] = Reconciled(f[i - 1], d.plan.order[i])

LEMMA StagesExist ==
  ASSUME NEW d, NEW start, NEW length \in Nat
  PROVE \E f : f = [i \in 0 .. length |-> f[i]] /\ Stages(f, d, start, length)
<1> DEFINE T == {m \in Nat : \E f : f = [i \in 0 .. m |-> f[i]] /\ Stages(f, d, start, m)}
<1>1. 0 \in T
  <2> DEFINE f == [i \in 0 .. 0 |-> start]
  <2>1. f = [i \in 0 .. 0 |-> f[i]] /\ Stages(f, d, start, 0)
    BY DEF Stages
  <2> QED BY <2>1
<1>2. ASSUME NEW m \in T
      PROVE m + 1 \in T
  <2>1. PICK f : Stages(f, d, start, m)
    OBVIOUS
  <2> DEFINE last == Reconciled(f[m], d.plan.order[m + 1])
             h == [i \in 0 .. m + 1 |-> IF i = m + 1 THEN last ELSE f[i]]
  <2>2. m \in Nat /\ m + 1 \in Nat
    OBVIOUS
  <2> HIDE DEF last
  <2>3. h = [i \in 0 .. m + 1 |-> h[i]] /\ h[0] = start
    BY <2>1, <2>2 DEF Stages
  <2>4. ASSUME NEW i \in 1 .. m + 1
        PROVE h[i] = Reconciled(h[i - 1], d.plan.order[i])
    <3>1. CASE i = m + 1
      <4>1. i - 1 = m /\ h[m] = f[m] /\ h[i] = last
        BY <2>2, <3>1
      <4> HIDE DEF h
      <4> QED BY <3>1, <4>1 DEF last
    <3>2. CASE i # m + 1
      <4>1. i \in 1 .. m /\ i - 1 \in 0 .. m /\ h[i] = f[i] /\ h[i - 1] = f[i - 1]
        BY <2>2, <3>2
      <4> HIDE DEF h
      <4> QED BY <2>1, <4>1 DEF Stages
    <3> QED BY <3>1, <3>2
  <2> HIDE DEF h
  <2>5. h = [i \in 0 .. m + 1 |-> h[i]] /\ Stages(h, d, start, m + 1)
    BY <2>3, <2>4 DEF Stages
  <2> QED BY <2>2, <2>5
<1>3. T = Nat
  <2>1. T \in SUBSET Nat
    OBVIOUS
  <2> HIDE DEF T
  <2> QED BY <1>1, <1>2, <2>1, OneByOne
<1> QED BY <1>3

LEMMA SettledInStages ==
  ASSUME NEW d, NEW n, NEW ports, Len(d.plan.order) \in Nat
  PROVE \E f : /\ Stages(f, d, PortsChosen(d, n, ports), Len(d.plan.order))
               /\ Settled(d, n, ports) = f[Len(d.plan.order)]
<1> DEFINE length == Len(d.plan.order)
           start == PortsChosen(d, n, ports)
           reconciled[i \in 0 .. length] == IF i = 0 THEN start ELSE Reconciled(reconciled[i - 1], d.plan.order[i])
<1>1. Settled(d, n, ports) = reconciled[length]
  BY Zenon DEF Settled
<1>2. length \in Nat
  OBVIOUS
<1>3. PICK f : f = [i \in 0 .. length |-> f[i]] /\ Stages(f, d, start, length)
  <2> HIDE DEF length, start
  <2> QED BY <1>2, StagesExist
<1>4. f = [i \in 0 .. length |-> IF i = 0 THEN start ELSE Reconciled(f[i - 1], d.plan.order[i])]
  <2> HIDE DEF length, start
  <2>1. ASSUME NEW i \in 0 .. length
        PROVE f[i] = IF i = 0 THEN start ELSE Reconciled(f[i - 1], d.plan.order[i])
    <3>1. i = 0 \/ (i # 0 /\ i \in 1 .. length)
      BY <1>2
    <3>2. Stages(f, d, start, length)
      BY <1>3
    <3> QED BY <3>1, <3>2, Zenon DEF Stages
  <2> QED BY <1>3, <2>1, Zenon
<1>5. reconciled = [i \in 0 .. length |-> IF i = 0 THEN start ELSE Reconciled(reconciled[i - 1], d.plan.order[i])]
  <2> HIDE DEF length, start
  <2> QED BY <1>4, Zenon
<1> HIDE DEF reconciled
<1>6. Stages(reconciled, d, start, length)
  <2> HIDE DEF length, start
  <2>1. \A i \in 0 .. length : reconciled[i] = IF i = 0 THEN start ELSE Reconciled(reconciled[i - 1], d.plan.order[i])
    BY <1>5
  <2> QED BY <1>2, <2>1 DEF Stages
<1> QED BY <1>1, <1>6

(* What holds of t when d is being settled after n, and the first k nodes are reconciled. *)
Partly(d, n, ports, t, k) ==
  /\ Shape(t) /\ Static(d, t) /\ t.outputs = d.outputs /\ t.captured = d.captured
  /\ t.status = d.status /\ t.result = d.result
  /\ t.nodes \in [Ids(d.plan) -> States] /\ t.edges \in [DOMAIN d.plan.edges -> {"unknown", "taken", "skipped"}]
  /\ \A m \in Ids(d.plan) : \/ t.nodes[m] = d.nodes[m]
                            \/ d.nodes[m] = "pending" /\ t.nodes[m] \in {"ready", "skipped"}
  /\ \A e \in DOMAIN d.plan.edges :
       LET from == d.plan.edges[e].from
       IN /\ from = n => t.edges[e] = IF d.plan.edges[e].port \in ports THEN "taken" ELSE "skipped"
          /\ from # n /\ d.nodes[from] # "pending" => t.edges[e] = d.edges[e]
  /\ EdgesFollow(t)
  /\ \A m \in Ids(d.plan) \ {First(d.plan)} : Decided(t, m) /\ (Place(d.plan, m) <= k => Waits(t, m))

LEMMA SettlingStarts ==
  ASSUME NEW r, Typed(r), EdgesFollow(r), NodesFollow(r), NEW n \in Ids(r.plan), r.nodes[n] = "running",
         NEW d, Shape(d), Static(r, d), d.nodes = [r.nodes EXCEPT ![n] = "succeeded"], d.edges = r.edges, NEW ports,
         NEW t, t = PortsChosen(d, n, ports)
  PROVE Partly(d, n, ports, t, 0)
<1>1. /\ r.plan \in ReplayPlans /\ d.plan = r.plan /\ r.nodes \in [Ids(r.plan) -> States]
      /\ r.edges \in [DOMAIN r.plan.edges -> {"unknown", "taken", "skipped"}]
  BY DEF Typed, Static
<1>2. /\ Shape(t) /\ Static(d, t) /\ t.outputs = d.outputs /\ t.captured = d.captured
      /\ t.status = d.status /\ t.result = d.result /\ t.nodes = d.nodes
      /\ t.edges = [e \in DOMAIN d.edges |-> IF d.plan.edges[e].from # n THEN d.edges[e]
                                             ELSE IF d.plan.edges[e].port \in ports THEN "taken" ELSE "skipped"]
  BY DEF PortsChosen, Shape, Static
<1>3. /\ \A m \in Ids(r.plan) : d.nodes[m] = IF m = n THEN "succeeded" ELSE r.nodes[m]
      /\ d.nodes \in [Ids(r.plan) -> States]
      /\ \A e \in DOMAIN r.plan.edges : t.edges[e] = IF r.plan.edges[e].from # n THEN r.edges[e]
                                                     ELSE IF r.plan.edges[e].port \in ports THEN "taken" ELSE "skipped"
      /\ t.edges \in [DOMAIN r.plan.edges -> {"unknown", "taken", "skipped"}]
  BY <1>1, <1>2 DEF States
<1>4. EdgesFollow(t)
  BY <1>1, <1>2, <1>3, EdgesLeadOn DEF EdgesFollow, Done, Static
<1>5. \A e \in DOMAIN r.plan.edges : r.plan.edges[e].from = n => r.edges[e] = "unknown"
  BY DEF EdgesFollow, Done
<1>6. ASSUME NEW m \in Ids(r.plan) \ {First(r.plan)}
      PROVE Decided(t, m) /\ Place(d.plan, m) > 0
  <2>1. Decided(r, m) /\ Into(t, m) = Into(r, m)
    BY <1>1, <1>2 DEF NodesFollow, Into, Static
  <2>2. CASE r.nodes[m] = "pending"
    <3>1. m # n /\ t.nodes[m] = "pending"
      BY <1>2, <1>3, <2>2
    <3> QED BY <1>1, <3>1, Places DEF Decided
  <2>3. CASE r.nodes[m] # "pending"
    <3>1. \A e \in Into(r, m) : r.plan.edges[e].from # n /\ t.edges[e] = r.edges[e]
      BY <1>3, <1>5, <2>1, <2>3 DEF Decided, Into
    <3>2. t.nodes[m] \notin {"pending"} /\ (t.nodes[m] = "skipped" <=> r.nodes[m] = "skipped")
      BY <1>2, <1>3, <2>3
    <3>3. Place(d.plan, m) > 0
      BY <1>1, Places
    <3> QED BY <2>1, <2>3, <3>1, <3>2, <3>3 DEF Decided
  <2> QED BY <2>2, <2>3
<1>7. \A m \in Ids(d.plan) \ {First(d.plan)} : Decided(t, m) /\ (Place(d.plan, m) <= 0 => Waits(t, m))
  BY <1>1, <1>6, Places
<1> QED BY <1>1, <1>2, <1>3, <1>4, <1>7 DEF Partly

(* Edges that are set when a node is skipped were unknown, so that only nodes that wait
   are concerned. *)
LEMMA SettlingGoesOn ==
  ASSUME NEW d, d.plan \in ReplayPlans, NEW n \in Ids(d.plan), d.nodes[n] = "succeeded", NEW ports,
         NEW s, NEW k \in Nat, Partly(d, n, ports, s, k),
         NEW m \in Ids(d.plan), Place(d.plan, m) = k + 1, s.nodes[First(d.plan)] # "pending",
         NEW t, t = Reconciled(s, m)
  PROVE Partly(d, n, ports, t, k + 1)
<1> DEFINE plan == d.plan
<1>1. s.plan = plan /\ Shape(s) /\ EdgesFollow(s)
  BY DEF Partly, Static
<1>2. /\ s.nodes \in [Ids(plan) -> States] /\ s.edges \in [DOMAIN plan.edges -> {"unknown", "taken", "skipped"}]
      /\ \A o \in Ids(plan) : \/ s.nodes[o] = d.nodes[o]
                              \/ d.nodes[o] = "pending" /\ s.nodes[o] \in {"ready", "skipped"}
  BY DEF Partly
<1>3. ASSUME Waits(s, m) \/ m = First(plan), t = s
      PROVE Partly(d, n, ports, t, k + 1)
  <2>1. ASSUME NEW o \in Ids(plan) \ {First(plan)}, Place(plan, o) <= k + 1
        PROVE Waits(s, o)
    <3>1. CASE Place(plan, o) <= k
      BY <3>1 DEF Partly
    <3>2. CASE Place(plan, o) = k + 1
      BY <1>3, <3>2, Places
    <3> QED BY <2>1, <3>1, <3>2, Places
  <2> QED BY <1>3, <2>1 DEF Partly
<1>4. CASE s.nodes[m] # "pending"
  <2>1. t = s
    BY <1>4 DEF Reconciled
  <2> QED BY <1>3, <1>4, <2>1 DEF Waits
<1>5. CASE s.nodes[m] = "pending" /\ \E e \in Into(s, m) : s.edges[e] = "unknown"
  <2>1. t = s
    BY <1>5 DEF Reconciled, Into
  <2> QED BY <1>3, <1>5, <2>1 DEF Waits
<1>6. CASE s.nodes[m] = "pending" /\ ~\E e \in Into(s, m) : s.edges[e] = "unknown"
  <2>1. m # First(plan) /\ d.nodes[m] = "pending" /\ m # n
    BY <1>2, <1>6
  <2>2. CASE \E e \in Into(s, m) : s.edges[e] = "taken"
    <3>1. t = [s EXCEPT !.nodes[m] = "ready"]
      BY <1>6, <2>2 DEF Reconciled, Into
    <3>2. /\ Shape(t) /\ Static(s, t) /\ t.nodes = [s.nodes EXCEPT ![m] = "ready"] /\ t.edges = s.edges
          /\ t.outputs = s.outputs /\ t.captured = s.captured /\ t.status = s.status /\ t.result = s.result
      BY <1>1, <3>1 DEF Shape, Static
    <3>3. /\ t.nodes \in [Ids(plan) -> States]
          /\ \A o \in Ids(plan) : t.nodes[o] = IF o = m THEN "ready" ELSE s.nodes[o]
      BY <1>2, <3>2 DEF States
    <3>4. EdgesFollow(t)
      BY <1>1, <1>6, <3>2, <3>3, EdgesLeadOn DEF EdgesFollow, Static, Done
    <3>5. \A o \in Ids(plan) : Into(t, o) = Into(s, o)
      BY <1>1, <3>2 DEF Into, Static
    <3>6. ASSUME NEW o \in Ids(plan) \ {First(plan)}
          PROVE Decided(t, o) /\ (Place(plan, o) <= k + 1 => Waits(t, o))
      <4>1. Decided(s, o) /\ (Place(plan, o) <= k => Waits(s, o))
        BY DEF Partly
      <4>2. CASE o = m
        BY <1>6, <2>2, <3>2, <3>3, <3>5, <4>2 DEF Decided, Waits
      <4>3. CASE o # m
        <5>1. Place(plan, o) <= k + 1 => Place(plan, o) <= k
          BY <4>3, Places
        <5>2. t.nodes[o] = s.nodes[o] /\ Into(t, o) = Into(s, o) /\ t.edges = s.edges
          BY <3>2, <3>3, <3>5, <4>3
        <5> QED BY <4>1, <5>1, <5>2 DEF Decided, Waits
      <4> QED BY <4>2, <4>3
    <3>7. Static(d, t) /\ t.outputs = d.outputs /\ t.captured = d.captured /\ t.status = d.status /\ t.result = d.result
      BY <3>2 DEF Partly, Static
    <3>8. \A o \in Ids(plan) : \/ t.nodes[o] = d.nodes[o]
                               \/ d.nodes[o] = "pending" /\ t.nodes[o] \in {"ready", "skipped"}
      BY <1>2, <2>1, <3>3
    <3> QED BY <1>2, <3>2, <3>3, <3>4, <3>6, <3>7, <3>8 DEF Partly
  <2>3. CASE ~\E e \in Into(s, m) : s.edges[e] = "taken"
    <3> DEFINE edges == [e \in DOMAIN s.edges |-> IF s.plan.edges[e].from = m THEN "skipped" ELSE s.edges[e]]
    <3>1. t = [s EXCEPT !.nodes[m] = "skipped", !.edges = edges]
      BY <1>6, <2>3 DEF Reconciled, Into
    <3>2. /\ Shape(t) /\ Static(s, t) /\ t.nodes = [s.nodes EXCEPT ![m] = "skipped"] /\ t.edges = edges
          /\ t.outputs = s.outputs /\ t.captured = s.captured /\ t.status = s.status /\ t.result = s.result
      <4> HIDE DEF edges
      <4> QED BY <1>1, <3>1 DEF Shape, Static
    <3>3. /\ t.nodes \in [Ids(plan) -> States]
          /\ \A o \in Ids(plan) : t.nodes[o] = IF o = m THEN "skipped" ELSE s.nodes[o]
          /\ t.edges \in [DOMAIN plan.edges -> {"unknown", "taken", "skipped"}]
          /\ \A e \in DOMAIN plan.edges : t.edges[e] = IF plan.edges[e].from = m THEN "skipped" ELSE s.edges[e]
      BY <1>1, <1>2, <3>2 DEF States
    <3>4. EdgesFollow(t)
      BY <1>1, <1>6, <3>2, <3>3, EdgesLeadOn DEF EdgesFollow, Static, Done
    <3>5. \A o \in Ids(plan) : Into(t, o) = Into(s, o)
      BY <1>1, <3>2 DEF Into, Static
    <3>6. \A e \in DOMAIN plan.edges : plan.edges[e].from = m => s.edges[e] = "unknown"
      BY <1>1, <1>6 DEF EdgesFollow, Done
    <3>7. ASSUME NEW o \in Ids(plan) \ {First(plan)}
          PROVE Decided(t, o) /\ (Place(plan, o) <= k + 1 => Waits(t, o))
      <4>1. Decided(s, o) /\ (Place(plan, o) <= k => Waits(s, o))
        BY DEF Partly
      <4>2. CASE o = m
        <5>1. \A e \in Into(s, m) : plan.edges[e].from # m /\ s.edges[e] = "skipped" /\ e \in DOMAIN plan.edges
          BY <1>1, <1>2, <1>6, <2>3, EdgesLeadOn, Places DEF Into
        <5>2. \A e \in Into(t, m) : t.edges[e] = "skipped"
          BY <3>3, <3>5, <5>1
        <5> QED BY <3>3, <4>2, <5>2 DEF Decided, Waits
      <4>3. CASE o # m /\ s.nodes[o] = "pending"
        <5>1. t.nodes[o] = "pending"
          BY <3>3, <4>3
        <5>2. ASSUME Place(plan, o) <= k + 1
              PROVE \E e \in Into(t, o) : t.edges[e] = "unknown"
          <6>1. Place(plan, o) <= k
            BY <4>3, <5>2, Places
          <6>2. PICK e \in Into(s, o) : s.edges[e] = "unknown"
            BY <4>1, <4>3, <6>1 DEF Waits
          <6>3. e \in DOMAIN plan.edges /\ plan.edges[e].to = o /\ Before(plan, plan.edges[e].from, o)
                /\ plan.edges[e].from \in Ids(plan)
            BY <1>1, <6>2, EdgesLeadOn DEF Into
          <6>4. plan.edges[e].from # m
            BY <6>1, <6>3, Places
          <6> QED BY <3>3, <3>5, <6>2, <6>3, <6>4
        <5> QED BY <5>1, <5>2 DEF Decided, Waits
      <4>4. CASE o # m /\ s.nodes[o] # "pending"
        <5>1. t.nodes[o] = s.nodes[o]
          BY <3>3, <4>4
        <5>2. \A e \in Into(s, o) : e \in DOMAIN plan.edges /\ s.edges[e] # "unknown"
          BY <1>1, <4>1, <4>4 DEF Decided, Into
        <5>3. \A e \in Into(t, o) : t.edges[e] = s.edges[e]
          BY <3>3, <3>5, <3>6, <5>2
        <5> QED BY <3>5, <4>1, <4>4, <5>1, <5>3 DEF Decided, Waits
      <4> QED BY <4>2, <4>3, <4>4
    <3>8. Static(d, t) /\ t.outputs = d.outputs /\ t.captured = d.captured /\ t.status = d.status /\ t.result = d.result
      BY <3>2 DEF Partly, Static
    <3>9. \A o \in Ids(plan) : \/ t.nodes[o] = d.nodes[o]
                               \/ d.nodes[o] = "pending" /\ t.nodes[o] \in {"ready", "skipped"}
      BY <1>2, <2>1, <3>3
    <3>10. \A e \in DOMAIN plan.edges :
             LET from == plan.edges[e].from
             IN /\ from = n => t.edges[e] = IF plan.edges[e].port \in ports THEN "taken" ELSE "skipped"
                /\ from # n /\ d.nodes[from] # "pending" => t.edges[e] = d.edges[e]
      BY <2>1, <3>3 DEF Partly
    <3> QED BY <3>2, <3>3, <3>4, <3>7, <3>8, <3>9, <3>10 DEF Partly
  <2> QED BY <2>2, <2>3
<1> QED BY <1>4, <1>5, <1>6

LEMMA SettlingEnds ==
  ASSUME NEW r, Typed(r), EdgesFollow(r), NodesFollow(r), NEW n \in Ids(r.plan), r.nodes[n] = "running",
         NEW d, Shape(d), Static(r, d), d.nodes = [r.nodes EXCEPT ![n] = "succeeded"], d.edges = r.edges, NEW ports,
         NEW t, t = Settled(d, n, ports)
  PROVE Partly(d, n, ports, t, Len(d.plan.order))
<1> DEFINE length == Len(d.plan.order)
           start == PortsChosen(d, n, ports)
<1>1. /\ r.plan \in ReplayPlans /\ d.plan = r.plan /\ r.nodes \in [Ids(r.plan) -> States]
      /\ n \in Ids(d.plan) /\ d.plan \in ReplayPlans
  BY DEF Typed, Static
<1>2. length \in Nat /\ DOMAIN d.plan.order = 1 .. length /\ First(d.plan) \in Ids(d.plan)
      /\ \A i \in 1 .. length : d.plan.order[i] \in Ids(d.plan) /\ Place(d.plan, d.plan.order[i]) = i
  BY <1>1, Places
<1>3. d.nodes[n] = "succeeded" /\ d.nodes[First(d.plan)] # "pending"
  BY <1>1, <1>2 DEF NodesFollow
<1>4. PICK f : Stages(f, d, start, length) /\ t = f[length]
  BY <1>2, SettledInStages
<1>5. Partly(d, n, ports, start, 0)
  <2> HIDE DEF start
  <2>1. start = PortsChosen(d, n, ports)
    BY DEF start
  <2> QED BY <2>1, SettlingStarts
<1> DEFINE T == {k \in Nat : k <= length => Partly(d, n, ports, f[k], k)}
<1>6. 0 \in T
  BY <1>2, <1>4, <1>5 DEF Stages
<1>7. ASSUME NEW k \in T
      PROVE k + 1 \in T
  <2>1. k \in Nat
    OBVIOUS
  <2>2. SUFFICES ASSUME k + 1 <= length PROVE Partly(d, n, ports, f[k + 1], k + 1)
    BY <2>1
  <2>3. Partly(d, n, ports, f[k], k) /\ k + 1 \in 1 .. length /\ (k + 1) - 1 = k
    BY <1>2, <2>1, <2>2
  <2> DEFINE m == d.plan.order[k + 1]
             s == f[k]
  <2>4. f[k + 1] = Reconciled(f[k], m)
    <3>1. f[k + 1] = Reconciled(f[(k + 1) - 1], d.plan.order[k + 1])
      BY <1>4, <2>3, Zenon DEF Stages
    <3> QED BY <2>3, <3>1
  <2>5. m \in Ids(d.plan) /\ Place(d.plan, m) = k + 1
    BY <1>2, <2>3
  <2>6. s.nodes[First(d.plan)] # "pending"
    BY <1>2, <1>3, <2>3 DEF Partly
  <2> HIDE DEF m, s
  <2>7. Partly(d, n, ports, s, k)
    BY <2>3 DEF s
  <2>8. f[k + 1] = Reconciled(s, m)
    BY <2>4 DEF s
  <2> QED BY <1>1, <1>3, <2>1, <2>5, <2>6, <2>7, <2>8, SettlingGoesOn
<1>8. T = Nat
  <2>1. T \in SUBSET Nat
    OBVIOUS
  <2> HIDE DEF T
  <2> QED BY <1>6, <1>7, <2>1, OneByOne
<1> QED BY <1>2, <1>4, <1>8

-----------------------------------------------------------------------------
(* Beyond a node that is not done nothing was started, and so it sees all outputs. *)
LEMMA NoneBeyond ==
  ASSUME NEW r, Typed(r), Sequential(r), NEW n \in Ids(r.plan), r.nodes[n] \notin Done,
         NEW m \in Ids(r.plan), r.nodes[m] \in {"running", "succeeded", "failed"}
  PROVE m = n \/ Before(r.plan, m, n)
<1>1. r.plan \in ReplayPlans
  BY DEF Typed
<1>2. ~Before(r.plan, n, m)
  BY DEF Sequential
<1> QED BY <1>1, <1>2, Places

LEMMA SeesEverything ==
  ASSUME NEW r, Typed(r), Sequential(r), NEW n \in Ids(r.plan), r.nodes[n] \notin Done
  PROVE /\ NodeInputs(Seen(r, n), n) = NodeInputs(r, n)
        /\ Deterministic(Seen(r, n), n) = Deterministic(r, n)
<1> DEFINE s == Seen(r, n)
<1>1. s.plan = r.plan /\ s.input = r.input /\ s.outputs = r.outputs
  <2>1. s.plan = r.plan /\ s.input = r.input
        /\ s.outputs = [m \in {k \in DOMAIN r.outputs : Before(r.plan, k, n)} |-> r.outputs[m]]
    BY DEF Seen
  <2>2. \A k \in DOMAIN r.outputs : k \in Ids(r.plan) /\ r.nodes[k] = "succeeded"
    BY DEF Typed
  <2>3. {k \in DOMAIN r.outputs : Before(r.plan, k, n)} = DOMAIN r.outputs
    BY <2>2, NoneBeyond DEF Done
  <2>4. r.outputs = [m \in DOMAIN r.outputs |-> r.outputs[m]]
    <3>1. r.outputs = [m \in {k \in Ids(r.plan) : r.nodes[k] = "succeeded"} |-> r.outputs[m]]
      BY DEF Typed
    <3> QED BY <3>1, Zenon
  <2> QED BY <2>1, <2>3, <2>4, Zenon
<1>2. NodeInputs(s, n) = NodeInputs(r, n)
  BY <1>1 DEF NodeInputs
<1>3. Deterministic(s, n) = Deterministic(r, n)
  BY <1>1, <1>2 DEF Deterministic
<1> QED BY <1>2, <1>3

(* A node that is started, and one that fails. *)
LEMMA Marked ==
  ASSUME NEW r, RunOK(r), r.status = "running", NEW n \in Ids(r.plan), r.nodes[n] \in {"ready", "running"},
         \A m \in Ids(r.plan) : Before(r.plan, m, n) => r.nodes[m] \in Done,
         NEW t, Shape(t), Static(r, t), NEW x \in {"running", "failed"}, t.nodes = [r.nodes EXCEPT ![n] = x],
         t.edges = r.edges, t.outputs = r.outputs, t.status = IF x = "failed" THEN "failed" ELSE "running",
         x = "running" => NodeInputs(r, n) # Unbound
  PROVE RunOK(t)
<1> USE DEF Static
<1>1. /\ r.plan \in ReplayPlans /\ r.nodes \in [Ids(r.plan) -> States]
      /\ r.outputs = [m \in {k \in Ids(r.plan) : r.nodes[k] = "succeeded"} |-> r.outputs[m]]
  BY DEF RunOK, Typed
<1>2. \A m \in Ids(r.plan) : t.nodes[m] = IF m = n THEN x ELSE r.nodes[m]
  BY <1>1
<1>3. Typed(t)
  <2>1. t.nodes \in [Ids(t.plan) -> States] /\ t.status \in {"running", "completed", "failed"}
    BY <1>1 DEF States
  <2>2. {k \in Ids(r.plan) : r.nodes[k] = "succeeded"} = {k \in Ids(t.plan) : t.nodes[k] = "succeeded"}
    BY <1>2
  <2>3. t.outputs = [m \in {k \in Ids(t.plan) : t.nodes[k] = "succeeded"} |-> t.outputs[m]]
    BY <1>1, <2>2, Zenon
  <2> QED BY <2>1, <2>3 DEF RunOK, Typed
<1>4. EdgesFollow(t)
  <2>1. \A e \in DOMAIN r.plan.edges : r.plan.edges[e].from \in Ids(r.plan)
    BY <1>1, EdgesLeadOn
  <2> QED BY <1>2, <2>1 DEF RunOK, EdgesFollow, Done
<1>5. NodesFollow(t)
  <2>1. \A m \in Ids(r.plan) : Into(t, m) = Into(r, m)
    BY DEF Into
  <2>2. First(r.plan) \in Ids(r.plan)
    BY <1>1, Places
  <2>3. t.nodes[First(t.plan)] \notin {"pending", "skipped"}
    BY <1>2, <2>2 DEF RunOK, NodesFollow
  <2>4. ASSUME NEW m \in Ids(r.plan) \ {First(r.plan)}
        PROVE Decided(t, m) /\ Waits(t, m)
    <3>1. Decided(r, m) /\ Waits(r, m)
      BY DEF RunOK, NodesFollow
    <3> QED BY <1>2, <2>1, <3>1 DEF Decided, Waits
  <2> QED BY <2>3, <2>4 DEF NodesFollow
<1>6. Sequential(t)
  BY <1>2 DEF RunOK, Sequential, Done
<1>7. Computed(t)
  <2>1. \A m \in Ids(r.plan) : Seen(t, m) = Seen(r, m) /\ Ports(t, m) = Ports(r, m)
    BY DEF Seen, Ports
  <2>2. x = "running" => NodeInputs(Seen(r, n), n) # Unbound
    BY SeesEverything DEF RunOK, Done
  <2> QED BY <1>2, <2>1, <2>2 DEF RunOK, Computed
<1>8. Ended(t)
  BY <1>2 DEF RunOK, Ended
<1>9. Weighed(t)
  BY DEF RunOK, Weighed
<1> QED BY <1>3, <1>4, <1>5, <1>6, <1>7, <1>8, <1>9 DEF RunOK

LEMMA FailsWell ==
  ASSUME NEW r, RunOK(r), r.status = "running", NEW n \in Ids(r.plan), r.nodes[n] \in {"ready", "running"},
         \A m \in Ids(r.plan) : Before(r.plan, m, n) => r.nodes[m] \in Done,
         NEW t, t = Failed(r, n)
  PROVE /\ RunOK(t) /\ Static(r, t) /\ t.status = "failed" /\ t.outputs = r.outputs /\ t.edges = r.edges
        /\ t.nodes = [r.nodes EXCEPT ![n] = "failed"]
<1>1. Shape(r)
  BY DEF RunOK, Typed
<1>2. /\ Shape(t) /\ Static(r, t) /\ t.nodes = [r.nodes EXCEPT ![n] = "failed"] /\ t.edges = r.edges
      /\ t.outputs = r.outputs /\ t.status = "failed"
  BY <1>1 DEF Shape, Static, Failed
<1> QED BY <1>2, Marked

(* Outputs are finitely many, and what they weigh grows with them. *)
LEMMA CheckpointsGrow ==
  ASSUME NEW plan \in ReplayPlans, NEW f, NEW g, DOMAIN g \subseteq Ids(plan), DOMAIN f \subseteq DOMAIN g,
         \A n \in DOMAIN f : f[n] = g[n]
  PROVE CheckpointSize(f) \in Nat /\ CheckpointSize(g) \in Nat /\ CheckpointSize(f) <= CheckpointSize(g)
<1> DEFINE lf == {n \in DOMAIN f : IsLong(f[n])}
           lg == {n \in DOMAIN g : IsLong(g[n])}
<1>1. IsFiniteSet(Ids(plan))
  <2>1. DOMAIN plan.order = 1 .. Len(plan.order) /\ Len(plan.order) \in Nat
    BY Places
  <2>2. IsFiniteSet(DOMAIN plan.order)
    BY <2>1, FS_Interval
  <2>3. plan.order \in Surjection(DOMAIN plan.order, Ids(plan))
    <3>1. plan.order \in [DOMAIN plan.order -> Ids(plan)]
      BY <2>1, PlansAssumption DEF PlansAssumption
    <3>2. \A n \in Ids(plan) : \E i \in DOMAIN plan.order : plan.order[i] = n
      BY DEF Ids
    <3> QED BY <3>1, <3>2, Zenon DEF Surjection
  <2> QED BY <2>2, <2>3, FS_Surjection
<1>2. lf \subseteq lg /\ lg \subseteq DOMAIN g
  OBVIOUS
<1> HIDE DEF lf, lg
<1>3. IsFiniteSet(DOMAIN g) /\ IsFiniteSet(lg)
  BY <1>1, <1>2, FS_Subset
<1>4. /\ IsFiniteSet(DOMAIN f) /\ Cardinality(DOMAIN f) <= Cardinality(DOMAIN g)
      /\ IsFiniteSet(lf) /\ Cardinality(lf) <= Cardinality(lg)
  BY <1>2, <1>3, FS_Subset
<1>5. Cardinality(DOMAIN f) \in Nat /\ Cardinality(DOMAIN g) \in Nat /\ Cardinality(lf) \in Nat /\ Cardinality(lg) \in Nat
  BY <1>3, <1>4, FS_CardinalityType
<1>6. CheckpointSize(f) = Cardinality(DOMAIN f) + Cardinality(lf) /\ CheckpointSize(g) = Cardinality(DOMAIN g) + Cardinality(lg)
  BY DEF CheckpointSize, lf, lg
<1> QED BY <1>4, <1>5, <1>6

(* What a node has done when it succeeds. *)
Extended(r, n, json) == [m \in DOMAIN r.outputs \cup {n} |-> IF m = n THEN json ELSE r.outputs[m]]
Achieves(r, n, result) ==
  LET uses == r.plan.uses[n]
  IN IF External(uses) THEN uses # "host.route@1" => result.ports = RestoredPorts(uses, result.outputs)
     ELSE result = Deterministic(r, n) /\ result.outputs # Thrown /\ result.ports \subseteq OutputPorts(uses)
Accepted(r, n, json) ==
  /\ ValidOutputs(r.plan.uses[n], json) /\ ~(Size(json) > r.limits.maxOutput)
  /\ ~(CheckpointSize(Extended(r, n, json)) > r.limits.maxCheckpoint)

LEMMA Settles ==
  ASSUME NEW r, RunOK(r), r.status = "running", NEW n \in Ids(r.plan), r.nodes[n] = "running",
         NEW result, Achieves(r, n, result), Accepted(r, n, result.outputs),
         NEW d, Shape(d), Static(r, d), d.nodes = [r.nodes EXCEPT ![n] = "succeeded"], d.edges = r.edges,
         d.outputs = Extended(r, n, result.outputs), d.status = "running", d.result = r.result,
         NEW t, t = Settled(d, n, result.ports)
  PROVE /\ RunOK(t) /\ Static(r, t) /\ t.status = "running" /\ t.outputs = d.outputs
        /\ \A m \in Ids(r.plan) : \/ t.nodes[m] = IF m = n THEN "succeeded" ELSE r.nodes[m]
                                  \/ t.nodes[m] \in {"ready", "skipped"}
<1>1. /\ r.plan \in ReplayPlans /\ r.nodes \in [Ids(r.plan) -> States] /\ d.plan = r.plan
      /\ r.outputs = [m \in {k \in Ids(r.plan) : r.nodes[k] = "succeeded"} |-> r.outputs[m]]
  BY DEF RunOK, Typed, Static
<1>2. Partly(d, n, result.ports, t, Len(d.plan.order))
  BY SettlingEnds DEF RunOK
<1>3. /\ Shape(t) /\ Static(r, t) /\ t.plan = r.plan /\ t.outputs = d.outputs /\ t.status = "running" /\ EdgesFollow(t)
  BY <1>2 DEF Partly, Static
<1>4. /\ t.nodes \in [Ids(r.plan) -> States] /\ t.edges \in [DOMAIN r.plan.edges -> {"unknown", "taken", "skipped"}]
  BY <1>1, <1>2 DEF Partly
<1>5. \A m \in Ids(r.plan) : \/ t.nodes[m] = IF m = n THEN "succeeded" ELSE r.nodes[m]
                             \/ m # n /\ r.nodes[m] = "pending" /\ t.nodes[m] \in {"ready", "skipped"}
  BY <1>1, <1>2 DEF Partly
<1>6. NodesFollow(t)
  <2>1. First(r.plan) \in Ids(r.plan) /\ \A m \in Ids(r.plan) : Place(r.plan, m) <= Len(r.plan.order)
    BY <1>1, Places
  <2>2. t.nodes[First(r.plan)] \notin {"pending", "skipped"}
    BY <1>5, <2>1 DEF RunOK, NodesFollow
  <2>3. \A m \in Ids(r.plan) \ {First(r.plan)} : Decided(t, m) /\ Waits(t, m)
    BY <1>1, <1>2, <2>1 DEF Partly
  <2> QED BY <1>3, <2>2, <2>3 DEF NodesFollow
<1>7. Typed(t)
  <2>1. {k \in Ids(r.plan) : r.nodes[k] = "succeeded"} \cup {n} = {k \in Ids(t.plan) : t.nodes[k] = "succeeded"}
    BY <1>3, <1>5
  <2>2. DOMAIN r.outputs = {k \in Ids(r.plan) : r.nodes[k] = "succeeded"}
    BY <1>1
  <2>3. t.outputs = [m \in {k \in Ids(t.plan) : t.nodes[k] = "succeeded"} |->
                       IF m = n THEN result.outputs ELSE r.outputs[m]]
    BY <1>3, <2>1, <2>2, Zenon DEF Extended
  <2>4. t.outputs = [m \in {k \in Ids(t.plan) : t.nodes[k] = "succeeded"} |-> t.outputs[m]]
    BY <2>3
  <2> QED BY <1>3, <1>4, <2>4 DEF RunOK, Typed, Static
<1>8. \A m \in Ids(r.plan) : t.nodes[m] \in {"running", "succeeded"} =>
        \/ m = n /\ t.nodes[m] = "succeeded"
        \/ m # n /\ t.nodes[m] = r.nodes[m] /\ Before(r.plan, m, n)
  <2>1. \A m \in Ids(r.plan) : r.nodes[m] \in {"running", "succeeded"} => m = n \/ Before(r.plan, m, n)
    BY NoneBeyond DEF RunOK, Done
  <2> QED BY <1>5, <2>1
<1>9. Sequential(t)
  <2>1. ASSUME NEW k \in Ids(r.plan), NEW m \in Ids(r.plan),
               t.nodes[m] \in {"running", "succeeded", "failed"}, Before(r.plan, k, m)
        PROVE t.nodes[k] \in Done
    <3>1. r.nodes[k] \in Done
      <4>1. CASE m = n
        BY <2>1, <4>1 DEF RunOK, Sequential
      <4>2. CASE m # n
        BY <1>5, <2>1, <4>2 DEF RunOK, Sequential
      <4> QED BY <4>1, <4>2
    <3> QED BY <1>5, <3>1 DEF Done
  <2> QED BY <1>3, <2>1 DEF Sequential
<1>10. Computed(t)
  <2>1. \A m \in Ids(r.plan) : m = n \/ Before(r.plan, m, n) => Seen(t, m) = Seen(r, m)
    <3>1. ASSUME NEW m \in Ids(r.plan), m = n \/ Before(r.plan, m, n)
          PROVE Seen(t, m) = Seen(r, m)
      <4>1. ~Before(r.plan, n, m)
        BY <1>1, <3>1, Places
      <4>2. {k \in DOMAIN t.outputs : Before(r.plan, k, m)} = {k \in DOMAIN r.outputs : Before(r.plan, k, m)}
        BY <1>3, <4>1 DEF Extended
      <4>3. \A k \in {j \in DOMAIN r.outputs : Before(r.plan, j, m)} : t.outputs[k] = r.outputs[k]
        BY <1>3, <4>1 DEF Extended
      <4>4. [k \in {j \in DOMAIN t.outputs : Before(r.plan, j, m)} |-> t.outputs[k]]
            = [k \in {j \in DOMAIN r.outputs : Before(r.plan, j, m)} |-> r.outputs[k]]
        BY <4>2, <4>3, Zenon
      <4>5. t.plan = r.plan /\ t.input = r.input
        BY <1>3 DEF Static
      <4> QED BY <4>4, <4>5, Zenon DEF Seen
    <3> QED BY <3>1
  <2>2. \A m \in Ids(r.plan) : m # n /\ r.nodes[m] = "succeeded" => t.outputs[m] = r.outputs[m]
    BY <1>1, <1>3 DEF Extended
  <2>3. t.outputs[n] = result.outputs
    BY <1>3 DEF Extended
  <2>4. t.plan = r.plan /\ t.limits = r.limits
    BY <1>3 DEF Static
  <2>5. \A m \in Ids(r.plan) : \A e \in DOMAIN r.plan.edges : r.plan.edges[e].from = m =>
          /\ m = n => t.edges[e] = IF r.plan.edges[e].port \in result.ports THEN "taken" ELSE "skipped"
          /\ m # n /\ r.nodes[m] # "pending" => t.edges[e] = r.edges[e]
    BY <1>1, <1>2 DEF Partly
  <2>6. ASSUME NEW m \in Ids(r.plan), t.nodes[m] \in {"running", "succeeded"}
        PROVE NodeInputs(Seen(t, m), m) # Unbound
    <3>1. r.nodes[m] \in {"running", "succeeded"} /\ (m = n \/ Before(r.plan, m, n))
      BY <1>8, <2>6
    <3> QED BY <2>1, <3>1 DEF RunOK, Computed
  <2>7. ASSUME NEW m \in Ids(r.plan), t.nodes[m] = "succeeded", m # n
        PROVE /\ ValidOutputs(r.plan.uses[m], t.outputs[m]) /\ Size(t.outputs[m]) <= r.limits.maxOutput
              /\ ~External(r.plan.uses[m]) =>
                   LET computed == Deterministic(Seen(t, m), m)
                   IN /\ computed.outputs # Thrown /\ t.outputs[m] = computed.outputs
                      /\ computed.ports \subseteq OutputPorts(r.plan.uses[m])
              /\ r.plan.uses[m] # "host.route@1" =>
                   \A e \in DOMAIN r.plan.edges : r.plan.edges[e].from = m =>
                     t.edges[e] = IF r.plan.edges[e].port \in Ports(t, m) THEN "taken" ELSE "skipped"
    <3>1. r.nodes[m] = "succeeded" /\ Before(r.plan, m, n)
      BY <1>8, <2>7
    <3>2. Seen(t, m) = Seen(r, m) /\ t.outputs[m] = r.outputs[m]
      BY <2>1, <2>2, <2>7, <3>1
    <3>3. Ports(t, m) = Ports(r, m)
      BY <2>4, <3>2 DEF Ports
    <3>4. \A e \in DOMAIN r.plan.edges : r.plan.edges[e].from = m => t.edges[e] = r.edges[e]
      BY <2>5, <2>7, <3>1
    <3> QED BY <3>1, <3>2, <3>3, <3>4 DEF RunOK, Computed
  <2>8. /\ ValidOutputs(r.plan.uses[n], t.outputs[n]) /\ Size(t.outputs[n]) <= r.limits.maxOutput
        /\ ~External(r.plan.uses[n]) =>
             LET computed == Deterministic(Seen(t, n), n)
             IN /\ computed.outputs # Thrown /\ t.outputs[n] = computed.outputs
                /\ computed.ports \subseteq OutputPorts(r.plan.uses[n])
        /\ r.plan.uses[n] # "host.route@1" =>
             \A e \in DOMAIN r.plan.edges : r.plan.edges[e].from = n =>
               t.edges[e] = IF r.plan.edges[e].port \in Ports(t, n) THEN "taken" ELSE "skipped"
    <3>1. Seen(t, n) = Seen(r, n) /\ Deterministic(Seen(r, n), n) = Deterministic(r, n)
      BY <2>1, SeesEverything DEF RunOK, Done
    <3>2. ValidOutputs(r.plan.uses[n], t.outputs[n]) /\ Size(t.outputs[n]) <= r.limits.maxOutput
      <4>1. Size(result.outputs) \in Nat /\ r.limits.maxOutput \in Nat
        BY LimitsAssumption DEF LimitsAssumption, RunOK, Typed, Size
      <4> QED BY <2>3, <4>1 DEF Accepted
    <3>3. ~External(r.plan.uses[n]) =>
             /\ Deterministic(Seen(t, n), n) = result /\ result.outputs # Thrown
             /\ result.ports \subseteq OutputPorts(r.plan.uses[n])
      BY <3>1 DEF Achieves
    <3>4. r.plan.uses[n] # "host.route@1" => Ports(t, n) = result.ports
      BY <2>3, <2>4, <3>3 DEF Ports, Achieves
    <3> QED BY <2>3, <2>5, <3>2, <3>3, <3>4
  <2>9. \A m \in Ids(r.plan) : t.nodes[m] = "succeeded" =>
        /\ ValidOutputs(r.plan.uses[m], t.outputs[m]) /\ Size(t.outputs[m]) <= r.limits.maxOutput
        /\ ~External(r.plan.uses[m]) =>
             LET computed == Deterministic(Seen(t, m), m)
             IN /\ computed.outputs # Thrown /\ t.outputs[m] = computed.outputs
                /\ computed.ports \subseteq OutputPorts(r.plan.uses[m])
        /\ r.plan.uses[m] # "host.route@1" =>
             \A e \in DOMAIN r.plan.edges : r.plan.edges[e].from = m =>
               t.edges[e] = IF r.plan.edges[e].port \in Ports(t, m) THEN "taken" ELSE "skipped"
    BY <2>7, <2>8
  <2>10. \A m \in Ids(t.plan) : t.nodes[m] \in {"running", "succeeded"} => NodeInputs(Seen(t, m), m) # Unbound
    BY <2>4, <2>6
  <2> QED BY <2>4, <2>9, <2>10 DEF Computed
<1>11. Ended(t)
  <2>1. \A m \in Ids(r.plan) : t.nodes[m] # "failed"
    BY <1>5 DEF RunOK, Ended
  <2> QED BY <1>3, <2>1 DEF Ended
<1>12. Weighed(t)
  <2>1. r.limits.maxCheckpoint \in Nat /\ t.limits = r.limits
    BY <1>3, LimitsAssumption DEF LimitsAssumption, RunOK, Typed, Static
  <2>2. CheckpointSize(t.outputs) \in Nat
    <3>1. DOMAIN t.outputs \subseteq Ids(r.plan)
      BY <1>1, <1>3 DEF Extended
    <3> QED BY <1>1, <3>1, CheckpointsGrow
  <2>3. ~(CheckpointSize(t.outputs) > r.limits.maxCheckpoint)
    BY <1>3 DEF Accepted
  <2> QED BY <2>1, <2>2, <2>3 DEF Weighed
<1> QED BY <1>3, <1>5, <1>6, <1>7, <1>9, <1>10, <1>11, <1>12 DEF RunOK

(* What Completed makes of the outputs of a node: it fails, or they are settled. *)
LEMMA Completing ==
  ASSUME NEW r, RunOK(r), r.status = "running", r.limits = deployment,
         NEW n \in Ids(r.plan), r.nodes[n] = "running", NEW result, Achieves(r, n, result),
         NEW ref, NEW t, t = Completed(r, n, result, ref)
  PROVE /\ RunOK(t) /\ Static(r, t)
        /\ \/ /\ ~Accepted(r, n, result.outputs)
              /\ t.status = "failed" /\ t.outputs = r.outputs /\ t.nodes = [r.nodes EXCEPT ![n] = "failed"]
           \/ /\ Accepted(r, n, result.outputs)
              /\ t.status = "running" /\ t.outputs = Extended(r, n, result.outputs)
              /\ \A m \in Ids(r.plan) : \/ t.nodes[m] = IF m = n THEN "succeeded" ELSE r.nodes[m]
                                        \/ t.nodes[m] \in {"ready", "skipped"}
<1> DEFINE d == [r EXCEPT !.nodes[n] = "succeeded", !.captured[n] = ref,
                          !.outputs = [m \in DOMAIN r.outputs \cup {n} |-> IF m = n THEN result.outputs
                                                                         ELSE r.outputs[m]]]
<1>1. Shape(r) /\ r.plan \in ReplayPlans
  BY DEF RunOK, Typed
<1>2. /\ Shape(d) /\ Static(r, d) /\ d.nodes = [r.nodes EXCEPT ![n] = "succeeded"] /\ d.edges = r.edges
      /\ d.outputs = Extended(r, n, result.outputs) /\ d.status = "running" /\ d.result = r.result
  <2> DEFINE outputs == Extended(r, n, result.outputs)
  <2>1. d = [r EXCEPT !.nodes[n] = "succeeded", !.captured[n] = ref, !.outputs = outputs]
    BY DEF Extended
  <2> HIDE DEF outputs, d
  <2>2. /\ Shape(d) /\ Static(r, d) /\ d.nodes = [r.nodes EXCEPT ![n] = "succeeded"] /\ d.edges = r.edges
        /\ d.outputs = outputs /\ d.status = "running" /\ d.result = r.result
    BY <1>1, <2>1 DEF Shape, Static
  <2> QED BY <2>2 DEF outputs
<1>3. t = IF Accepted(r, n, result.outputs) THEN Settled(d, n, result.ports) ELSE Failed(r, n)
  <2> DEFINE refused == \/ ~ValidOutputs(r.plan.uses[n], result.outputs) \/ Size(result.outputs) > deployment.maxOutput
                        \/ CheckpointSize(d.outputs) > deployment.maxCheckpoint
  <2>1. t = IF refused THEN Failed(r, n) ELSE Settled(d, n, result.ports)
    BY DEF Completed
  <2>2. Accepted(r, n, result.outputs) <=> ~refused
    <3> HIDE DEF d
    <3> QED BY <1>2 DEF Accepted
  <2> HIDE DEF refused, d
  <2> QED BY <2>1, <2>2
<1>4. \A m \in Ids(r.plan) : Before(r.plan, m, n) => r.nodes[m] \in Done
  BY DEF RunOK, Sequential
<1> HIDE DEF d
<1>5. CASE Accepted(r, n, result.outputs)
  <2>1. t = Settled(d, n, result.ports)
    BY <1>3, <1>5
  <2>2. /\ RunOK(t) /\ Static(r, t) /\ t.status = "running" /\ t.outputs = d.outputs
        /\ \A m \in Ids(r.plan) : \/ t.nodes[m] = IF m = n THEN "succeeded" ELSE r.nodes[m]
                                  \/ t.nodes[m] \in {"ready", "skipped"}
    BY <1>2, <1>5, <2>1, Settles
  <2> QED BY <1>2, <1>5, <2>2
<1>6. CASE ~Accepted(r, n, result.outputs)
  <2>1. t = Failed(r, n)
    BY <1>3, <1>6
  <2> QED BY <1>4, <1>6, <2>1, FailsWell
<1> QED BY <1>5, <1>6

(* A run begins with its first node ready and ends when all of its nodes are done. *)
LEMMA Begun ==
  ASSUME NEW plan \in ReplayPlans, NEW limits \in ReplayDeployments, NEW lock, NEW replayable, NEW input,
         NEW mode, NEW of,
         NEW r, r = [plan |-> plan, lock |-> lock, replayable |-> replayable, input |-> input,
                     mode |-> mode, of |-> of, status |-> "running",
                     nodes |-> [n \in Ids(plan) |-> IF n = Head(plan.order) THEN "ready" ELSE "pending"],
                     edges |-> [e \in DOMAIN plan.edges |-> "unknown"],
                     outputs |-> NoFields, captured |-> [n \in Ids(plan) |-> <<>>],
                     result |-> Unbound, limits |-> limits]
  PROVE RunOK(r)
<1> DEFINE nodes == [n \in Ids(plan) |-> IF n = First(plan) THEN "ready" ELSE "pending"]
           edges == [e \in DOMAIN plan.edges |-> "unknown"]
           captured == [n \in Ids(plan) |-> <<>>]
<1>1. Head(plan.order) = First(plan) /\ First(plan) \in Ids(plan)
  <2>1. plan.order \in Seq(Ids(plan)) /\ plan.order # <<>>
    BY PlansAssumption DEF PlansAssumption
  <2> QED BY <2>1, Places DEF First
<1>2. r = [plan |-> plan, lock |-> lock, replayable |-> replayable, input |-> input, mode |-> mode, of |-> of,
           status |-> "running", nodes |-> nodes, edges |-> edges, outputs |-> NoFields, captured |-> captured,
           result |-> Unbound, limits |-> limits]
  BY <1>1, Zenon
<1>3. /\ r.plan = plan /\ r.limits = limits /\ r.status = "running" /\ r.nodes = nodes /\ r.edges = edges
      /\ r.outputs = NoFields /\ Shape(r)
  <2> HIDE DEF nodes, edges, captured
  <2> QED BY <1>2 DEF Shape
<1>4. \A n \in Ids(plan) : r.nodes[n] = IF n = First(plan) THEN "ready" ELSE "pending"
  BY <1>3
<1>5. \A e \in DOMAIN plan.edges : r.edges[e] = "unknown" /\ plan.edges[e].from \in Ids(plan)
  BY <1>3, EdgesLeadOn
<1>6. Typed(r)
  <2>1. r.nodes \in [Ids(plan) -> States] /\ r.edges \in [DOMAIN plan.edges -> {"unknown", "taken", "skipped"}]
    BY <1>3 DEF States
  <2>2. r.outputs = [n \in {m \in Ids(plan) : r.nodes[m] = "succeeded"} |-> r.outputs[n]]
    <3>1. {m \in Ids(plan) : r.nodes[m] = "succeeded"} = {}
      BY <1>4
    <3> QED BY <1>3, <3>1 DEF NoFields
  <2> QED BY <1>3, <2>1, <2>2 DEF Typed
<1>7. EdgesFollow(r)
  BY <1>3, <1>4, <1>5 DEF EdgesFollow, Done
<1>8. NodesFollow(r)
  <2>1. ASSUME NEW n \in Ids(plan) \ {First(plan)}
        PROVE Decided(r, n) /\ Waits(r, n)
    <3>1. r.nodes[n] = "pending"
      BY <1>4
    <3>2. \E e \in Into(r, n) : r.edges[e] = "unknown"
      BY <1>3, <1>5, EdgesLeadOn DEF Into
    <3> QED BY <3>1, <3>2 DEF Decided, Waits
  <2> QED BY <1>1, <1>3, <1>4, <2>1 DEF NodesFollow
<1>9. Sequential(r) /\ Computed(r) /\ Ended(r)
  BY <1>3, <1>4 DEF Sequential, Computed, Ended
<1>10. Weighed(r)
  BY <1>3 DEF Weighed, NoFields
<1> QED BY <1>6, <1>7, <1>8, <1>9, <1>10 DEF RunOK

LEMMA Finishing ==
  ASSUME NEW r, RunOK(r), r.status = "running", RunningNode(r) = {}, ReadyNode(r) = {},
         NEW t, Shape(t), Static(r, t), t.nodes = r.nodes, t.edges = r.edges, t.outputs = r.outputs,
         \/ t.status = "failed"
         \/ /\ t.status = "completed" /\ t.result = ResolveBindings(r.plan.outputs, r.input, r.outputs)
            /\ t.result # Unbound /\ ~(Size(t.result) > r.limits.maxOutput)
  PROVE RunOK(t)
<1> USE DEF Static
<1>1. Typed(t)
  <2>1. t.outputs = [m \in {k \in Ids(t.plan) : t.nodes[k] = "succeeded"} |-> t.outputs[m]]
    <3>1. r.outputs = [m \in {k \in Ids(r.plan) : r.nodes[k] = "succeeded"} |-> r.outputs[m]]
      BY DEF RunOK, Typed
    <3>2. {k \in Ids(r.plan) : r.nodes[k] = "succeeded"} = {k \in Ids(t.plan) : t.nodes[k] = "succeeded"}
      OBVIOUS
    <3>3. t.outputs = r.outputs
      OBVIOUS
    <3> QED BY <3>1, <3>2, <3>3, Zenon
  <2> QED BY <2>1 DEF RunOK, Typed
<1>2. EdgesFollow(t)
  BY DEF RunOK, EdgesFollow
<1>3. NodesFollow(t)
  <2>1. \A m \in Ids(r.plan) : Into(t, m) = Into(r, m)
    BY DEF Into
  <2>2. ASSUME NEW m \in Ids(r.plan) \ {First(r.plan)}
        PROVE Decided(t, m) /\ Waits(t, m)
    <3>1. Decided(r, m) /\ Waits(r, m)
      BY DEF RunOK, NodesFollow
    <3> QED BY <2>1, <3>1 DEF Decided, Waits
  <2> QED BY <2>2 DEF RunOK, NodesFollow
<1>4. Sequential(t)
  BY DEF RunOK, Sequential
<1>5. Computed(t)
  <2>1. \A m \in Ids(r.plan) : Seen(t, m) = Seen(r, m) /\ Ports(t, m) = Ports(r, m)
    BY DEF Seen, Ports
  <2> QED BY <2>1 DEF RunOK, Computed
<1>6. Ended(t)
  <2>1. \A n \in Ids(r.plan) : r.nodes[n] \in Done
    BY NothingLeft
  <2>2. r.limits.maxOutput \in Nat /\ Size(t.result) \in Nat
    BY LimitsAssumption DEF LimitsAssumption, RunOK, Typed, Size
  <2>3. t.status = "completed" => Size(t.result) <= r.limits.maxOutput
    BY <2>2
  <2> QED BY <2>1, <2>3 DEF Ended
<1>7. Weighed(t)
  BY DEF RunOK, Weighed
<1> QED BY <1>1, <1>2, <1>3, <1>4, <1>5, <1>6, <1>7 DEF RunOK

-----------------------------------------------------------------------------
(* A replay that has the outputs of a completed run takes the branches of that run. *)
Pair(r, s) == /\ RunOK(r) /\ RunOK(s) /\ s.status = "completed" /\ s.plan = r.plan /\ s.input = r.input
              /\ ~PortsLost(s) /\ Agrees(r, s)
NodeTracks(r, s, n) == /\ r.nodes[n] = "skipped" => s.nodes[n] = "skipped"
                       /\ r.nodes[n] \notin {"pending", "skipped"} => s.nodes[n] = "succeeded"
EdgeTracks(r, s, e) == r.edges[e] \in {"unknown", s.edges[e]}

LEMMA SameSight ==
  ASSUME NEW r, NEW s, Pair(r, s), NEW n \in Ids(r.plan),
         \A m \in Ids(r.plan) : Before(r.plan, m, n) => r.nodes[m] \in Done /\ NodeTracks(r, s, m)
  PROVE Seen(r, n) = Seen(s, n)
<1>1. /\ DOMAIN r.outputs = {k \in Ids(r.plan) : r.nodes[k] = "succeeded"} /\ s.plan = r.plan /\ s.input = r.input
      /\ DOMAIN s.outputs = {k \in Ids(r.plan) : s.nodes[k] = "succeeded"}
  BY DEF Pair, RunOK, Typed
<1>2. {k \in DOMAIN r.outputs : Before(r.plan, k, n)} = {k \in DOMAIN s.outputs : Before(r.plan, k, n)}
  BY <1>1 DEF Pair, Agrees, Done, NodeTracks
<1>3. \A k \in {j \in DOMAIN r.outputs : Before(r.plan, j, n)} : r.outputs[k] = s.outputs[k]
  BY <1>1 DEF Pair, Agrees
<1>4. [k \in {j \in DOMAIN r.outputs : Before(r.plan, j, n)} |-> r.outputs[k]]
      = [k \in {j \in DOMAIN s.outputs : Before(r.plan, j, n)} |-> s.outputs[k]]
  BY <1>2, <1>3, Zenon
<1> QED BY <1>1, <1>4 DEF Seen

LEMMA Tracks ==
  ASSUME NEW r, NEW s, Pair(r, s)
  PROVE /\ \A n \in Ids(r.plan) : NodeTracks(r, s, n)
        /\ \A e \in DOMAIN r.plan.edges : EdgeTracks(r, s, e)
<1>1. /\ r.plan \in ReplayPlans /\ s.plan = r.plan /\ s.input = r.input
      /\ r.nodes \in [Ids(r.plan) -> States] /\ s.nodes \in [Ids(r.plan) -> States]
      /\ r.edges \in [DOMAIN r.plan.edges -> {"unknown", "taken", "skipped"}]
      /\ s.edges \in [DOMAIN r.plan.edges -> {"unknown", "taken", "skipped"}]
      /\ \A n \in Ids(r.plan) : s.nodes[n] \in Done
  BY DEF Pair, RunOK, Typed, Ended
<1> DEFINE Whole(n) == /\ NodeTracks(r, s, n)
                       /\ \A e \in DOMAIN r.plan.edges : r.plan.edges[e].from = n => EdgeTracks(r, s, e)
           S == {n \in Ids(r.plan) : ~Whole(n)}
<1>2. SUFFICES S = {}
  <2>1. \A e \in DOMAIN r.plan.edges : r.plan.edges[e].from \in Ids(r.plan)
    BY <1>1, EdgesLeadOn
  <2> QED BY <2>1
<1>3. SUFFICES ASSUME S # {} PROVE FALSE
  OBVIOUS
<1>4. PICK n \in S : \A m \in Ids(r.plan) : Before(r.plan, m, n) => m \notin S
  <2>1. S \in SUBSET Ids(r.plan)
    OBVIOUS
  <2> HIDE DEF S
  <2>2. r.plan \in ReplayPlans /\ S \in SUBSET Ids(r.plan) /\ S # {}
    BY <1>1, <1>3, <2>1
  <2> QED BY <2>2, FirstOfSome, Zenon
<1>5. n \in Ids(r.plan) /\ \A m \in Ids(r.plan) : Before(r.plan, m, n) => Whole(m)
  BY <1>4
<1>6. \A e \in Into(r, n) : EdgeTracks(r, s, e) /\ e \in DOMAIN r.plan.edges
  BY <1>1, <1>5, EdgesLeadOn DEF Into
<1>7. Into(s, n) = Into(r, n)
  BY <1>1 DEF Into
<1>8. NodeTracks(r, s, n)
  <2>1. CASE n = First(r.plan)
    BY <1>1, <2>1 DEF Pair, RunOK, NodesFollow, NodeTracks, Done
  <2>2. CASE n # First(r.plan)
    <3>1. Decided(r, n) /\ Decided(s, n)
      BY <1>1, <1>5, <2>2 DEF Pair, RunOK, NodesFollow
    <3>2. r.nodes[n] # "pending" => \A e \in Into(r, n) : s.edges[e] = r.edges[e]
      BY <1>6, <3>1 DEF Decided, EdgeTracks
    <3>3. s.nodes[n] \in Done
      BY <1>1, <1>5
    <3> QED BY <1>7, <3>1, <3>2, <3>3 DEF Decided, NodeTracks, Done
  <2> QED BY <2>1, <2>2
<1>9. ASSUME NEW e \in DOMAIN r.plan.edges, r.plan.edges[e].from = n
      PROVE EdgeTracks(r, s, e)
  <2>1. r.nodes[n] \notin Done => r.edges[e] = "unknown"
    BY <1>9 DEF Pair, RunOK, EdgesFollow
  <2>2. CASE r.nodes[n] = "skipped"
    <3>1. r.edges[e] = "skipped"
      BY <1>9, <2>2 DEF Pair, RunOK, EdgesFollow
    <3>2. s.edges[e] = "skipped"
      BY <1>1, <1>8, <1>9, <2>2 DEF Pair, RunOK, EdgesFollow, NodeTracks
    <3> QED BY <3>1, <3>2 DEF EdgeTracks
  <2>3. CASE r.nodes[n] = "succeeded"
    <3>1. s.nodes[n] = "succeeded" /\ r.outputs[n] = s.outputs[n]
      BY <1>5, <2>3 DEF Pair, Agrees
    <3>2. r.plan.uses[n] # "host.route@1"
      BY <1>1, <1>5, <3>1 DEF Pair, PortsLost
    <3>3. Seen(r, n) = Seen(s, n)
      <4>1. \A m \in Ids(r.plan) : Before(r.plan, m, n) => r.nodes[m] \in Done /\ NodeTracks(r, s, m)
        BY <1>5, <2>3 DEF Pair, RunOK, Sequential
      <4> QED BY <1>5, <4>1, SameSight
    <3>4. Ports(r, n) = Ports(s, n)
      BY <1>1, <3>1, <3>3 DEF Ports
    <3>5. r.edges[e] = IF r.plan.edges[e].port \in Ports(r, n) THEN "taken" ELSE "skipped"
      BY <1>5, <1>9, <2>3, <3>2 DEF Pair, RunOK, Computed
    <3>6. s.edges[e] = IF s.plan.edges[e].port \in Ports(s, n) THEN "taken" ELSE "skipped"
      BY <1>1, <1>5, <1>9, <3>1, <3>2 DEF Pair, RunOK, Computed
    <3> QED BY <1>1, <3>4, <3>5, <3>6 DEF EdgeTracks
  <2> QED BY <2>1, <2>2, <2>3 DEF EdgeTracks, Done
<1> QED BY <1>4, <1>8, <1>9

(* So that a node which is about to execute, or has, finds what the node of that run found. *)
LEMMA AsThen ==
  ASSUME NEW r, NEW s, Pair(r, s), NEW n \in Ids(r.plan), r.nodes[n] \in {"ready", "running"},
         \A m \in Ids(r.plan) : Before(r.plan, m, n) => r.nodes[m] \in Done
  PROVE /\ s.nodes[n] = "succeeded" /\ n \in DOMAIN s.outputs
        /\ NodeInputs(r, n) # Unbound
        /\ ~External(r.plan.uses[n]) => /\ Deterministic(r, n).outputs = s.outputs[n] /\ s.outputs[n] # Thrown
                                        /\ Deterministic(r, n).ports \subseteq OutputPorts(r.plan.uses[n])
        /\ r.plan.uses[n] # "host.route@1"
<1>1. s.plan = r.plan /\ s.nodes[n] = "succeeded"
  BY Tracks DEF NodeTracks, Pair
<1>2. n \in DOMAIN s.outputs
  BY <1>1 DEF Pair, RunOK, Typed
<1>3. Seen(r, n) = Seen(s, n)
  BY Tracks, SameSight
<1>4. NodeInputs(Seen(r, n), n) = NodeInputs(r, n) /\ Deterministic(Seen(r, n), n) = Deterministic(r, n)
  BY SeesEverything DEF Pair, RunOK, Done
<1>5. NodeInputs(Seen(s, n), n) # Unbound
  BY <1>1 DEF Pair, RunOK, Computed
<1>6. ~External(r.plan.uses[n]) => LET computed == Deterministic(Seen(s, n), n)
                                   IN /\ computed.outputs # Thrown /\ s.outputs[n] = computed.outputs
                                      /\ computed.ports \subseteq OutputPorts(r.plan.uses[n])
  BY <1>1 DEF Pair, RunOK, Computed
<1>7. r.plan.uses[n] # "host.route@1"
  BY <1>1 DEF Pair, PortsLost
<1> QED BY <1>1, <1>2, <1>3, <1>4, <1>5, <1>6, <1>7

(* What that run could commit, a replay can, unless the limits were tightened. *)
LEMMA CommitsAsThen ==
  ASSUME NEW r, NEW s, Pair(r, s), NEW n \in Ids(r.plan), r.nodes[n] = "running", ~Accepted(r, n, s.outputs[n])
  PROVE Tightened(r, s)
<1> DEFINE x == Extended(r, n, s.outputs[n])
<1>1. /\ s.plan = r.plan /\ r.plan \in ReplayPlans /\ r.limits \in ReplayDeployments /\ s.limits \in ReplayDeployments
      /\ DOMAIN r.outputs = {k \in Ids(r.plan) : r.nodes[k] = "succeeded"}
      /\ DOMAIN s.outputs = {k \in Ids(r.plan) : s.nodes[k] = "succeeded"}
  BY DEF Pair, RunOK, Typed
<1>2. /\ r.limits.maxOutput \in Nat /\ r.limits.maxCheckpoint \in Nat
      /\ s.limits.maxOutput \in Nat /\ s.limits.maxCheckpoint \in Nat
  BY <1>1, LimitsAssumption DEF LimitsAssumption
<1>3. s.nodes[n] = "succeeded" /\ n \in DOMAIN s.outputs
  <2>1. \A m \in Ids(r.plan) : Before(r.plan, m, n) => r.nodes[m] \in Done
    BY DEF Pair, RunOK, Sequential
  <2> QED BY <2>1, AsThen
<1>4. ValidOutputs(r.plan.uses[n], s.outputs[n]) /\ Size(s.outputs[n]) <= s.limits.maxOutput
  BY <1>1, <1>3 DEF Pair, RunOK, Computed
<1>5. DOMAIN x \subseteq DOMAIN s.outputs /\ \A k \in DOMAIN x : x[k] = s.outputs[k]
  BY <1>1, <1>3 DEF Extended, Pair, Agrees
<1>6. CheckpointSize(x) \in Nat /\ CheckpointSize(s.outputs) \in Nat /\ CheckpointSize(x) <= CheckpointSize(s.outputs)
  <2> HIDE DEF x
  <2> QED BY <1>1, <1>5, CheckpointsGrow
<1>7. CheckpointSize(s.outputs) <= s.limits.maxCheckpoint
  BY <1>3 DEF Pair, RunOK, Weighed
<1>8. Size(s.outputs[n]) \in Nat
  BY DEF Size
<1>9. Size(s.outputs[n]) > r.limits.maxOutput \/ CheckpointSize(x) > r.limits.maxCheckpoint
  BY <1>4 DEF Accepted
<1> HIDE DEF x
<1> QED BY <1>2, <1>4, <1>6, <1>7, <1>8, <1>9 DEF Tightened

(* A replay all of whose nodes are done has all that the run has. *)
LEMMA WholeReplay ==
  ASSUME NEW r, NEW s, Pair(r, s), \A n \in Ids(r.plan) : r.nodes[n] \in Done
  PROVE /\ r.nodes = s.nodes /\ r.edges = s.edges /\ r.outputs = s.outputs
        /\ ResolveBindings(r.plan.outputs, r.input, r.outputs) = s.result
<1>1. /\ r.plan \in ReplayPlans /\ s.plan = r.plan /\ s.input = r.input
      /\ r.nodes \in [Ids(r.plan) -> States] /\ s.nodes \in [Ids(r.plan) -> States]
      /\ r.edges \in [DOMAIN r.plan.edges -> {"unknown", "taken", "skipped"}]
      /\ s.edges \in [DOMAIN r.plan.edges -> {"unknown", "taken", "skipped"}]
      /\ r.outputs = [n \in {m \in Ids(r.plan) : r.nodes[m] = "succeeded"} |-> r.outputs[n]]
      /\ s.outputs = [n \in {m \in Ids(r.plan) : s.nodes[m] = "succeeded"} |-> s.outputs[n]]
  <2>1. s.outputs = [n \in {m \in Ids(s.plan) : s.nodes[m] = "succeeded"} |-> s.outputs[n]]
    BY DEF Pair, RunOK, Typed
  <2> QED BY <2>1 DEF Pair, RunOK, Typed
<1>2. \A n \in Ids(r.plan) : r.nodes[n] = s.nodes[n]
  BY Tracks DEF NodeTracks, Done
<1>3. r.nodes = s.nodes
  BY <1>1, <1>2
<1>4. \A e \in DOMAIN r.plan.edges : r.edges[e] # "unknown"
  BY <1>1, EdgesLeadOn DEF Pair, RunOK, EdgesFollow, Done
<1>5. \A e \in DOMAIN r.plan.edges : r.edges[e] = s.edges[e]
  BY <1>4, Tracks DEF EdgeTracks
<1>6. r.edges = s.edges
  BY <1>1, <1>5
<1>7. \A n \in {m \in Ids(r.plan) : r.nodes[m] = "succeeded"} : r.outputs[n] = s.outputs[n]
  BY DEF Pair, Agrees
<1>8. [n \in {m \in Ids(r.plan) : r.nodes[m] = "succeeded"} |-> r.outputs[n]]
      = [n \in {m \in Ids(r.plan) : s.nodes[m] = "succeeded"} |-> s.outputs[n]]
  BY <1>3, <1>7, Zenon
<1>9. r.outputs = s.outputs
  BY <1>1, <1>8, Zenon
<1>10. s.result = ResolveBindings(s.plan.outputs, s.input, s.outputs)
  BY DEF Pair, RunOK, Ended
<1> QED BY <1>1, <1>3, <1>6, <1>9, <1>10

-----------------------------------------------------------------------------
(* The past is a sequence of runs: one is added, or the last goes on. *)
LEMMA PastRuns ==
  ASSUME ReplayInv
  PROVE /\ Len(past) \in Nat /\ DOMAIN past = 1 .. Len(past) /\ past = [i \in 1 .. Len(past) |-> past[i]]
        /\ MaxPast \in Nat /\ Len(past) <= MaxPast
        /\ past # <<>> => Len(past) \in DOMAIN past
        /\ past = <<>> => DOMAIN past = {}
<1>1. past \in Seq({past[i] : i \in DOMAIN past})
  BY DEF ReplayInv
<1> QED BY <1>1, LimitsAssumption DEF LimitsAssumption, ReplayInv

LEMMA Updated ==
  ASSUME ReplayInv, Executing, NEW t, RunOK(t), Static(Run, t), Update(t),
         UNCHANGED <<hostCalls, deployment>>,
         Run.mode = "recorded" => LET s == past[Run.of]
                                  IN ~PortsLost(s) => /\ Agrees(t, s)
                                                      /\ t.status = "failed" => Tightened(t, s)
  PROVE ReplayInv'
<1> DEFINE last == Len(past)
<1>1. /\ last \in Nat /\ DOMAIN past = 1 .. last /\ last \in DOMAIN past /\ MaxPast \in Nat /\ last <= MaxPast
  BY PastRuns DEF Executing
<1>2. /\ past' = [past EXCEPT ![last] = t]
      /\ told' = IF t.status = "running" THEN told ELSE [told EXCEPT ![last] = @ \cup {EngineResult(t)}]
  BY DEF Update, Return
<1>3. /\ DOMAIN past' = 1 .. last /\ past'[last] = t /\ \A i \in DOMAIN past : i # last => past'[i] = past[i]
  BY <1>1, <1>2
<1>4. past' \in Seq({past'[i] : i \in DOMAIN past'}) /\ Len(past') = last
  <2>1. past' = [i \in 1 .. last |-> past'[i]]
    BY <1>1, <1>2
  <2> DEFINE X == {past'[i] : i \in DOMAIN past'}
  <2>2. past' \in [1 .. last -> X] /\ last \in Nat
    BY <1>1, <1>3, <2>1
  <2> HIDE DEF last, X
  <2>3. past' \in Seq(X)
    BY <2>2, SeqDef
  <2>4. Len(past') = last
    BY <2>2, <2>3, LenProperties
  <2> QED BY <2>3, <2>4 DEF X
<1>5. past # <<>> /\ Run = past[last] /\ Run.status = "running" /\ past' # <<>> /\ Run' = t
  <2>1. Run' = past'[Len(past')]
    BY DEF Run
  <2>2. past # <<>> /\ Run = past[last] /\ Run.status = "running"
    BY DEF Executing, Run
  <2>3. past' # <<>>
    BY <1>1, <1>3
  <2> HIDE DEF last
  <2> QED BY <1>3, <1>4, <2>1, <2>2, <2>3
<1> HIDE DEF last
<1>6. Executing' => Run'.limits = deployment'
  BY <1>5 DEF ReplayInv, Static, Executing
<1>7. ASSUME NEW i \in DOMAIN past
      PROVE /\ RunOK(past'[i])
            /\ i < last => past'[i].status # "running"
            /\ past'[i].mode = "recorded" => ReplayOK(i)'
  <2>1. i \in 1 .. last
    BY <1>1
  <2>2. CASE i # last
    <3>1. past'[i] = past[i] /\ RunOK(past[i]) /\ past[i].status # "running"
      BY <1>1, <1>3, <2>1, <2>2 DEF ReplayInv, last
    <3>2. ASSUME past[i].mode = "recorded"
          PROVE ReplayOK(i)'
      <4>1. ReplayOK(i)
        BY <3>2 DEF ReplayInv
      <4>2. past[i].of \in 1 .. i - 1
        BY <4>1 DEF ReplayOK
      <4>3. past'[past[i].of] = past[past[i].of]
        BY <1>1, <1>3, <2>1, <4>2
      <4> QED BY <3>1, <4>1, <4>3 DEF ReplayOK
    <3> QED BY <3>1, <3>2
  <2>3. CASE i = last
    <3>1. past'[i] = t
      BY <1>3, <2>3
    <3>2. ASSUME t.mode = "recorded"
          PROVE ReplayOK(i)'
      <4>1. Run.mode = "recorded" /\ Run = past[i] /\ ReplayOK(i)
        BY <1>5, <2>3, <3>2 DEF ReplayInv, Static
      <4>2. past[i].of \in 1 .. i - 1
        BY <4>1 DEF ReplayOK
      <4>3. past'[t.of] = past[Run.of] /\ t.of = Run.of /\ t.plan = Run.plan /\ t.input = Run.input
        BY <1>1, <1>3, <2>3, <4>1, <4>2 DEF Static
      <4> DEFINE s == past[Run.of]
      <4>4. /\ s.status = "completed" /\ s.plan = t.plan /\ s.input = t.input /\ t.of \in 1 .. i - 1
            /\ ~PortsLost(s) => \A call \in hostCalls : call.run # i
        BY <4>1, <4>2, <4>3 DEF ReplayOK
      <4>5. ~PortsLost(s) => Agrees(t, s) /\ (t.status = "failed" => Tightened(t, s))
        BY <4>1
      <4>6. past'[i] = t /\ past'[t.of] = s /\ hostCalls' = hostCalls
        BY <3>1, <4>3
      <4> HIDE DEF s
      <4>7. /\ t.of \in 1 .. i - 1 /\ s.status = "completed" /\ s.plan = t.plan /\ s.input = t.input
            /\ ~PortsLost(s) => /\ Agrees(t, s)
                                /\ t.status = "failed" => Tightened(t, s)
                                /\ \A call \in hostCalls' : call.run # i
        BY <4>4, <4>5, <4>6
      <4>8. past'[past'[i].of] = s
        BY <4>6
      <4> QED BY <4>6, <4>7, <4>8, Zenon DEF ReplayOK
    <3> QED BY <1>1, <2>3, <3>1, <3>2
  <2> QED BY <2>2, <2>3
<1>8. told' = [i \in 1 .. MaxPast |-> told'[i]] /\ \A i \in 1 .. MaxPast : told'[i] \subseteq Outcome(i)'
  <2>1. told = [i \in 1 .. MaxPast |-> told[i]] /\ \A i \in 1 .. MaxPast : told[i] \subseteq Outcome(i)
    BY DEF ReplayInv
  <2>2. last \in 1 .. MaxPast /\ told[last] = {}
    BY <1>1, <1>5, <2>1 DEF Outcome
  <2>3. \A i \in 1 .. MaxPast : i # last => Outcome(i)' = Outcome(i)
    BY <1>1, <1>3 DEF Outcome
  <2>4. Outcome(last)' = IF t.status # "running" THEN {EngineResult(t)} ELSE {}
    <3>1. \A i : Outcome(i)' = IF i \in DOMAIN past' /\ past'[i].status # "running" THEN {EngineResult(past'[i])} ELSE {}
      BY DEF Outcome
    <3>2. last' = last
      BY <1>4 DEF last
    <3> QED BY <1>1, <1>3, <3>1, <3>2
  <2>5. last' = last
    BY <1>4 DEF last
  <2>6. told' = [i \in 1 .. MaxPast |-> told'[i]]
    BY <1>2, <2>1
  <2>7. \A i \in 1 .. MaxPast : told'[i] \subseteq Outcome(i)'
    <3>1. ASSUME NEW i \in 1 .. MaxPast, i # last PROVE told'[i] \subseteq Outcome(i)'
      BY <1>2, <2>1, <2>3, <3>1
    <3>2. told'[last] \subseteq IF t.status # "running" THEN {EngineResult(t)} ELSE {}
      BY <1>2, <2>1, <2>2
    <3>3. \A i \in 1 .. MaxPast : i = last => told'[i] \subseteq Outcome(i)'
      <4>1. \A i : Outcome(i)' = IF i \in DOMAIN past' /\ past'[i].status # "running" THEN {EngineResult(past'[i])} ELSE {}
        BY DEF Outcome
      <4> QED BY <1>1, <1>3, <3>2, <4>1
    <3> QED BY <3>1, <3>3
  <2> QED BY <2>6, <2>7
<1>9. \A call \in hostCalls' : call.run \in DOMAIN past' /\ External(past'[call.run].plan.uses[call.node])
  <2>1. \A i \in DOMAIN past : i \in DOMAIN past' /\ past'[i].plan = past[i].plan
    BY <1>1, <1>3, <1>5 DEF Static
  <2> QED BY <2>1 DEF ReplayInv
<1>10. \A i \in DOMAIN past' : /\ RunOK(past'[i])
                               /\ i < Len(past') => past'[i].status # "running"
                               /\ past'[i].mode = "recorded" => ReplayOK(i)'
  BY <1>1, <1>3, <1>4, <1>7
<1>11. Len(past') <= MaxPast /\ deployment' \in ReplayDeployments
  BY <1>1, <1>4 DEF ReplayInv
<1> QED BY <1>4, <1>6, <1>8, <1>9, <1>10, <1>11 DEF ReplayInv

LEMMA Added ==
  ASSUME ReplayInv, NEW plan \in ReplayPlans, NEW lock, NEW input, NEW mode, NEW of,
         Begin(plan, lock, input, mode, of),
         mode = "recorded" => /\ of \in DOMAIN past /\ past[of].status = "completed"
                              /\ past[of].plan = plan /\ past[of].input = input
  PROVE ReplayInv'
<1> DEFINE last == Len(past)
           r == [plan |-> plan, lock |-> lock, replayable |-> Replayable(plan), input |-> input,
                 mode |-> mode, of |-> of, status |-> "running",
                 nodes |-> [n \in Ids(plan) |-> IF n = Head(plan.order) THEN "ready" ELSE "pending"],
                 edges |-> [e \in DOMAIN plan.edges |-> "unknown"],
                 outputs |-> NoFields, captured |-> [n \in Ids(plan) |-> <<>>],
                 result |-> Unbound, limits |-> deployment]
<1>1. /\ last \in Nat /\ DOMAIN past = 1 .. last /\ MaxPast \in Nat
      /\ past = [i \in 1 .. last |-> past[i]]
  BY PastRuns
<1>2. last < MaxPast /\ ~Executing /\ past' = Append(past, r) /\ UNCHANGED <<hostCalls, told, deployment>>
  BY DEF Begin
<1>3. /\ r.plan = plan /\ r.input = input /\ r.mode = mode /\ r.of = of /\ r.status = "running" /\ r.limits = deployment
      /\ \A n \in Ids(plan) : r.nodes[n] # "succeeded"
  OBVIOUS
<1>4. RunOK(r)
  <2>1. deployment \in ReplayDeployments
    BY DEF ReplayInv
  <2> DEFINE replayable == Replayable(plan)
  <2>2. r = [plan |-> plan, lock |-> lock, replayable |-> replayable, input |-> input,
             mode |-> mode, of |-> of, status |-> "running",
             nodes |-> [n \in Ids(plan) |-> IF n = Head(plan.order) THEN "ready" ELSE "pending"],
             edges |-> [e \in DOMAIN plan.edges |-> "unknown"],
             outputs |-> NoFields, captured |-> [n \in Ids(plan) |-> <<>>],
             result |-> Unbound, limits |-> deployment]
    OBVIOUS
  <2> HIDE DEF r, replayable
  <2> QED BY <2>1, <2>2, Begun
<1> HIDE DEF r
<1>5. /\ DOMAIN past' = 1 .. last + 1 /\ Len(past') = last + 1 /\ past'[last + 1] = r
      /\ \A i \in 1 .. last : past'[i] = past[i]
      /\ past' = [i \in 1 .. last + 1 |-> past'[i]]
  <2>1. past \in Seq({past[i] : i \in DOMAIN past})
    BY DEF ReplayInv
  <2>2. past \in Seq({past[i] : i \in DOMAIN past} \cup {r}) /\ r \in {past[i] : i \in DOMAIN past} \cup {r}
    BY <2>1
  <2> DEFINE X == {past[i] : i \in DOMAIN past} \cup {r}
  <2> HIDE DEF X, last
  <2>3. past \in Seq(X) /\ r \in X
    BY <2>2 DEF X
  <2>4. /\ Append(past, r) \in Seq(X) /\ Len(Append(past, r)) = Len(past) + 1
        /\ \A i \in 1 .. Len(past) : Append(past, r)[i] = past[i]
        /\ Append(past, r)[Len(past) + 1] = r
    BY <2>3, AppendProperties
  <2>5. past' = Append(past, r)
    BY <1>2
  <2>6. Len(past') = Len(past) + 1 /\ past' \in Seq(X)
    BY <2>4, <2>5
  <2>7. DOMAIN past' = 1 .. Len(past) + 1 /\ past' = [i \in 1 .. Len(past) + 1 |-> past'[i]]
    BY <2>6
  <2>8. /\ \A i \in 1 .. Len(past) : past'[i] = past[i]
        /\ past'[Len(past) + 1] = r
    BY <2>4, <2>5
  <2> QED BY <2>6, <2>7, <2>8 DEF last
<1>6. past' \in Seq({past'[i] : i \in DOMAIN past'})
  <2>1. past' \in [1 .. last + 1 -> {past'[i] : i \in DOMAIN past'}] /\ last + 1 \in Nat
    BY <1>1, <1>5
  <2> HIDE DEF last
  <2> QED BY <2>1, SeqDef
<1>7. past # <<>> => past[last].status # "running"
  BY <1>2 DEF Executing, Run
<1>8. Executing' => Run'.limits = deployment'
  <2>1. Run' = past'[Len(past')]
    BY DEF Run
  <2>2. Run' = r
    BY <1>5, <2>1
  <2> QED BY <1>2, <1>3, <2>2
<1> HIDE DEF last
<1>9. ASSUME NEW i \in 1 .. last
      PROVE /\ RunOK(past'[i]) /\ past'[i].status # "running"
            /\ past'[i].mode = "recorded" => ReplayOK(i)'
  <2>1. past'[i] = past[i] /\ RunOK(past[i]) /\ i \in DOMAIN past
    BY <1>1, <1>5 DEF ReplayInv
  <2>2. past[i].status # "running"
    <3>1. i < last => past[i].status # "running"
      BY <2>1 DEF ReplayInv, last
    <3> QED BY <1>1, <1>7, <3>1
  <2>3. ASSUME past[i].mode = "recorded"
        PROVE ReplayOK(i)'
    <3>1. ReplayOK(i)
      BY <2>1, <2>3 DEF ReplayInv
    <3>2. past[i].of \in 1 .. i - 1
      BY <3>1 DEF ReplayOK
    <3>3. past'[past[i].of] = past[past[i].of]
      BY <1>1, <1>5, <3>2
    <3>4. hostCalls' = hostCalls
      BY <1>2
    <3> QED BY <2>1, <3>1, <3>3, <3>4 DEF ReplayOK
  <2> QED BY <2>1, <2>2, <2>3
<1>10. ASSUME mode = "recorded", NEW i, i = last + 1
       PROVE /\ past'[i].of \in 1 .. i - 1
             /\ LET s == past'[past'[i].of]
                IN /\ s.status = "completed" /\ s.plan = past'[i].plan /\ s.input = past'[i].input
                   /\ Agrees(past'[i], s)
             /\ past'[i].status # "failed"
             /\ \A call \in hostCalls' : call.run # i
  <2>1. past'[i] = r /\ of \in 1 .. last
    BY <1>1, <1>5, <1>10
  <2>2. past'[of] = past[of]
    BY <1>5, <2>1
  <2>3. \A call \in hostCalls' : call.run # i
    BY <1>1, <1>2, <1>10 DEF ReplayInv
  <2>4. Agrees(r, past[of])
    BY <1>3 DEF Agrees
  <2>5. i - 1 = last
    BY <1>1, <1>10
  <2> QED BY <1>3, <1>10, <2>1, <2>2, <2>3, <2>4, <2>5
<1>11. \A i \in DOMAIN past' : /\ RunOK(past'[i])
                               /\ i < Len(past') => past'[i].status # "running"
                               /\ past'[i].mode = "recorded" => ReplayOK(i)'
  <2>1. ASSUME NEW i \in DOMAIN past', i = last + 1
        PROVE /\ RunOK(past'[i])
              /\ ~(i < Len(past'))
              /\ past'[i].mode = "recorded" => ReplayOK(i)'
    <3>1. past'[i] = r /\ ~(i < Len(past'))
      BY <1>1, <1>5, <2>1
    <3>2. mode = "recorded" => ReplayOK(i)'
      BY <1>10, <2>1 DEF ReplayOK
    <3> QED BY <1>3, <1>4, <3>1, <3>2
  <2>2. \A i \in DOMAIN past' : i \in 1 .. last \/ i = last + 1
    BY <1>1, <1>5
  <2> QED BY <1>9, <2>1, <2>2
<1>12. told' = [i \in 1 .. MaxPast |-> told'[i]] /\ \A i \in 1 .. MaxPast : told'[i] \subseteq Outcome(i)'
  <2>1. told = [i \in 1 .. MaxPast |-> told[i]] /\ \A i \in 1 .. MaxPast : told[i] \subseteq Outcome(i)
    BY DEF ReplayInv
  <2>2. \A i \in 1 .. MaxPast : Outcome(i) \subseteq Outcome(i)'
    BY <1>1, <1>5 DEF Outcome
  <2> QED BY <1>2, <2>1, <2>2
<1>13. \A call \in hostCalls' : call.run \in DOMAIN past' /\ External(past'[call.run].plan.uses[call.node])
  <2>1. \A i \in DOMAIN past : i \in DOMAIN past' /\ past'[i] = past[i]
    BY <1>1, <1>5
  <2> QED BY <1>2, <2>1 DEF ReplayInv
<1>14. Len(past') <= MaxPast /\ deployment' \in ReplayDeployments
  BY <1>1, <1>2, <1>5 DEF ReplayInv
<1> QED BY <1>6, <1>8, <1>11, <1>12, <1>13, <1>14 DEF ReplayInv

LEMMA PastKept ==
  ASSUME ReplayInv, past' = past, deployment' \in ReplayDeployments, Executing => deployment' = deployment,
         told' = [i \in 1 .. MaxPast |-> told'[i]], \A i \in 1 .. MaxPast : told'[i] \subseteq Outcome(i),
         \A call \in hostCalls' : \/ call \in hostCalls
                                  \/ /\ call.run \in DOMAIN past /\ External(past[call.run].plan.uses[call.node])
                                     /\ past[call.run].mode = "recorded" => PortsLost(past[past[call.run].of])
  PROVE ReplayInv'
<1>1. ASSUME NEW i \in DOMAIN past, past[i].mode = "recorded"
      PROVE ReplayOK(i)'
  <2>1. ReplayOK(i)
    BY <1>1 DEF ReplayInv
  <2>2. ~PortsLost(past[past[i].of]) => \A call \in hostCalls' : call.run # i
    BY <1>1, <2>1 DEF ReplayOK
  <2> QED BY <2>1, <2>2 DEF ReplayOK
<1>2. Executing' <=> Executing
  BY DEF Executing, Run
<1>3. Run' = Run
  BY DEF Run
<1>4. Executing' => Run'.limits = deployment'
  BY <1>2, <1>3 DEF ReplayInv
<1>5. \A i \in 1 .. MaxPast : Outcome(i)' = Outcome(i)
  BY DEF Outcome
<1>6. past' \in Seq({past'[i] : i \in DOMAIN past'}) /\ Len(past') <= MaxPast
  BY DEF ReplayInv
<1>7. \A i \in DOMAIN past' : /\ RunOK(past'[i])
                              /\ i < Len(past') => past'[i].status # "running"
                              /\ past'[i].mode = "recorded" => ReplayOK(i)'
  BY <1>1 DEF ReplayInv
<1>8. \A call \in hostCalls' : call.run \in DOMAIN past' /\ External(past'[call.run].plan.uses[call.node])
  BY DEF ReplayInv
<1> QED BY <1>4, <1>5, <1>6, <1>7, <1>8 DEF ReplayInv

(* The run that executes, and the run it replays. *)
LEMMA RunNow ==
  ASSUME ReplayInv, Executing
  PROVE /\ RunOK(Run) /\ Run.status = "running" /\ Run.limits = deployment /\ Run = past[Len(past)]
        /\ Len(past) \in DOMAIN past
        /\ Run.mode = "recorded" /\ ~PortsLost(past[Run.of]) =>
             /\ Pair(Run, past[Run.of])
             /\ \A call \in hostCalls : call.run # Len(past)
<1>1. Len(past) \in DOMAIN past /\ Run = past[Len(past)] /\ DOMAIN past = 1 .. Len(past) /\ Len(past) \in Nat
  BY PastRuns DEF Executing, Run
<1>2. RunOK(Run) /\ Run.limits = deployment /\ Run.status = "running"
  BY <1>1 DEF ReplayInv, Executing
<1>3. ASSUME Run.mode = "recorded", ~PortsLost(past[Run.of])
      PROVE Pair(Run, past[Run.of]) /\ \A call \in hostCalls : call.run # Len(past)
  <2> DEFINE k == Len(past)
  <2>1. k \in DOMAIN past /\ Run = past[k]
    BY <1>1
  <2> HIDE DEF k
  <2>2. ReplayOK(k)
    BY <1>3, <2>1 DEF ReplayInv
  <2>3. Run.of \in 1 .. k - 1 /\ past[Run.of].status = "completed" /\ past[Run.of].plan = Run.plan
        /\ past[Run.of].input = Run.input /\ Agrees(Run, past[Run.of]) /\ \A call \in hostCalls : call.run # k
    BY <1>3, <2>1, <2>2 DEF ReplayOK
  <2>4. Run.of \in DOMAIN past
    BY <1>1, <2>3 DEF k
  <2>5. RunOK(past[Run.of])
    BY <2>4 DEF ReplayInv
  <2> QED BY <1>2, <1>3, <2>3, <2>5 DEF Pair, k
<1> QED BY <1>1, <1>2, <1>3

LEMMA StartKeeps == ASSUME ReplayInv, NEW n \in Ids(Run.plan), StartNode(n) PROVE ReplayInv'
<1> DEFINE r == Run
           s == past[Run.of]
           t == IF NodeInputs(Run, n) = Unbound THEN Failed(Run, n) ELSE [Run EXCEPT !.nodes[n] = "running"]
<1>1. /\ Executing /\ RunningNode(r) = {} /\ n \in ReadyNode(r)
      /\ \A m \in ReadyNode(r) \ {n} : Before(r.plan, n, m)
      /\ Update(t) /\ UNCHANGED <<hostCalls, deployment>>
  BY DEF StartNode
<1>2. RunOK(r) /\ r.status = "running" /\ (r.mode = "recorded" /\ ~PortsLost(s) => Pair(r, s))
  BY <1>1, RunNow
<1>3. r.nodes[n] = "ready"
  BY <1>1 DEF ReadyNode
<1> HIDE DEF r, s
<1>4. \A m \in Ids(r.plan) : Before(r.plan, m, n) => r.nodes[m] \in Done
  BY <1>1, <1>2, NextInOrder
<1>5. n \in Ids(r.plan)
  BY DEF r
<1>6. t = IF NodeInputs(r, n) = Unbound THEN Failed(r, n) ELSE [r EXCEPT !.nodes[n] = "running"]
  BY DEF r
<1> HIDE DEF t
<1>7. /\ RunOK(t) /\ Static(r, t) /\ t.outputs = r.outputs
      /\ \E x \in {"running", "failed"} : t.nodes = [r.nodes EXCEPT ![n] = x]
      /\ NodeInputs(r, n) # Unbound => t.status = "running"
  <2>1. CASE NodeInputs(r, n) = Unbound
    <3>1. t = Failed(r, n)
      BY <1>6, <2>1
    <3>2. /\ RunOK(t) /\ Static(r, t) /\ t.outputs = r.outputs /\ t.nodes = [r.nodes EXCEPT ![n] = "failed"]
      BY <1>2, <1>3, <1>4, <1>5, <3>1, FailsWell
    <3> QED BY <2>1, <3>2
  <2>2. CASE NodeInputs(r, n) # Unbound
    <3>1. t = [r EXCEPT !.nodes[n] = "running"] /\ Shape(r)
      BY <1>2, <1>6, <2>2 DEF RunOK, Typed
    <3>2. /\ Shape(t) /\ Static(r, t) /\ t.nodes = [r.nodes EXCEPT ![n] = "running"] /\ t.edges = r.edges
          /\ t.outputs = r.outputs /\ t.status = "running"
      BY <1>2, <3>1 DEF Shape, Static
    <3>3. RunOK(t)
      BY <1>2, <1>3, <1>4, <1>5, <2>2, <3>2, Marked
    <3> QED BY <3>2, <3>3
  <2> QED BY <2>1, <2>2
<1>8. r.mode = "recorded" /\ ~PortsLost(s) => Agrees(t, s) /\ (t.status = "failed" => Tightened(t, s))
  <2>1. SUFFICES ASSUME Pair(r, s) PROVE Agrees(t, s) /\ t.status # "failed"
    BY <1>2
  <2>2. NodeInputs(r, n) # Unbound
    BY <1>3, <1>4, <1>5, <2>1, AsThen
  <2>3. \A m \in Ids(r.plan) : t.nodes[m] = "succeeded" => r.nodes[m] = "succeeded"
    BY <1>2, <1>7 DEF RunOK, Typed
  <2>4. t.plan = r.plan
    BY <1>7 DEF Static
  <2> QED BY <1>7, <2>1, <2>2, <2>3, <2>4 DEF Pair, Agrees
<1>9. Run.mode = "recorded" => LET o == past[Run.of]
                               IN ~PortsLost(o) => Agrees(t, o) /\ (t.status = "failed" => Tightened(t, o))
  BY <1>8 DEF r, s
<1>10. Static(Run, t)
  BY <1>7 DEF r
<1> QED BY <1>1, <1>7, <1>9, <1>10, Updated

LEMMA CommitKeeps ==
  ASSUME ReplayInv, Executing, NEW n \in Ids(Run.plan), Run.nodes[n] = "running",
         NEW result, Achieves(Run, n, result), NEW ref, Update(Completed(Run, n, result, ref)),
         UNCHANGED <<hostCalls, deployment>>,
         Run.mode = "recorded" /\ ~PortsLost(past[Run.of]) => result.outputs = past[Run.of].outputs[n]
  PROVE ReplayInv'
<1> DEFINE r == Run
           s == past[Run.of]
           t == Completed(Run, n, result, ref)
<1>1. /\ RunOK(r) /\ r.status = "running" /\ r.limits = deployment
      /\ r.mode = "recorded" /\ ~PortsLost(s) => Pair(r, s) /\ result.outputs = s.outputs[n]
  BY RunNow
<1>2. n \in Ids(r.plan) /\ r.nodes[n] = "running" /\ Achieves(r, n, result) /\ t = Completed(r, n, result, ref)
  OBVIOUS
<1> HIDE DEF r, s, t
<1>3. /\ RunOK(t) /\ Static(r, t)
      /\ \/ /\ ~Accepted(r, n, result.outputs)
            /\ t.status = "failed" /\ t.outputs = r.outputs /\ t.nodes = [r.nodes EXCEPT ![n] = "failed"]
         \/ /\ Accepted(r, n, result.outputs)
            /\ t.status = "running" /\ t.outputs = Extended(r, n, result.outputs)
            /\ \A m \in Ids(r.plan) : \/ t.nodes[m] = IF m = n THEN "succeeded" ELSE r.nodes[m]
                                      \/ t.nodes[m] \in {"ready", "skipped"}
  BY <1>1, <1>2, Completing
<1>4. r.mode = "recorded" /\ ~PortsLost(s) => Agrees(t, s) /\ (t.status = "failed" => Tightened(t, s))
  <2>1. SUFFICES ASSUME Pair(r, s), result.outputs = s.outputs[n]
                 PROVE Agrees(t, s) /\ (t.status = "failed" => Tightened(t, s))
    BY <1>1
  <2>2. t.plan = r.plan /\ t.limits = r.limits /\ Agrees(r, s) /\ r.nodes \in [Ids(r.plan) -> States]
        /\ \A m \in Ids(r.plan) : r.nodes[m] = "succeeded" => m \in DOMAIN r.outputs
    BY <1>3, <2>1 DEF Static, Pair, RunOK, Typed
  <2>3. CASE ~Accepted(r, n, result.outputs)
    <3>1. Tightened(r, s)
      BY <1>2, <2>1, <2>3, CommitsAsThen
    <3>2. t.nodes = [r.nodes EXCEPT ![n] = "failed"] /\ t.outputs = r.outputs
      BY <1>3, <2>3
    <3> QED BY <2>2, <3>1, <3>2 DEF Agrees, Tightened
  <2>4. CASE Accepted(r, n, result.outputs)
    <3>1. s.nodes[n] = "succeeded"
      <4>1. \A m \in Ids(r.plan) : Before(r.plan, m, n) => r.nodes[m] \in Done
        BY <1>1, <1>2 DEF RunOK, Sequential
      <4> QED BY <1>2, <2>1, <4>1, AsThen
    <3>2. /\ t.status = "running" /\ t.outputs = Extended(r, n, result.outputs)
          /\ \A m \in Ids(r.plan) : \/ t.nodes[m] = IF m = n THEN "succeeded" ELSE r.nodes[m]
                                    \/ t.nodes[m] \in {"ready", "skipped"}
      BY <1>3, <2>4
    <3> QED BY <1>2, <2>1, <2>2, <3>1, <3>2 DEF Agrees, Extended
  <2> QED BY <2>3, <2>4
<1>5. Run.mode = "recorded" => LET o == past[Run.of]
                               IN ~PortsLost(o) => Agrees(t, o) /\ (t.status = "failed" => Tightened(t, o))
  BY <1>4 DEF r, s
<1>6. Static(Run, t) /\ Update(t)
  BY <1>3 DEF r, t
<1> QED BY <1>3, <1>5, <1>6, Updated

LEMMA FailureKeeps ==
  ASSUME ReplayInv, Executing, NEW n \in Ids(Run.plan), Run.nodes[n] = "running",
         Update(Failed(Run, n)), UNCHANGED <<hostCalls, deployment>>,
         Run.mode = "recorded" => PortsLost(past[Run.of])
  PROVE ReplayInv'
<1> DEFINE r == Run
           t == Failed(Run, n)
<1>1. RunOK(r) /\ r.status = "running"
  BY RunNow
<1>2. n \in Ids(r.plan) /\ r.nodes[n] = "running" /\ t = Failed(r, n)
  OBVIOUS
<1> HIDE DEF r, t
<1>3. \A m \in Ids(r.plan) : Before(r.plan, m, n) => r.nodes[m] \in Done
  BY <1>1, <1>2 DEF RunOK, Sequential
<1>4. RunOK(t) /\ Static(r, t)
  BY <1>1, <1>2, <1>3, FailsWell
<1>5. Static(Run, t) /\ Update(t)
  BY <1>4 DEF r, t
<1> QED BY <1>4, <1>5, Updated

LEMMA ComputeKeeps == ASSUME ReplayInv, NEW n \in Ids(Run.plan), ComputeNode(n) PROVE ReplayInv'
<1> DEFINE result == Deterministic(Run, n)
           t == IF result.outputs = Thrown THEN Failed(Run, n) ELSE Gated(Run, n, result, <<>>)
<1>1. /\ Executing /\ n \in RunningNode(Run) /\ ~External(Run.plan.uses[n])
      /\ Update(t) /\ UNCHANGED <<hostCalls, deployment>>
  BY Zenon DEF ComputeNode, Execute
<1>2. Run.nodes[n] = "running"
  BY <1>1 DEF RunningNode
<1>3. RunOK(Run) /\ (Run.mode = "recorded" /\ ~PortsLost(past[Run.of]) => Pair(Run, past[Run.of]))
  BY <1>1, RunNow
<1>4. \A m \in Ids(Run.plan) : Before(Run.plan, m, n) => Run.nodes[m] \in Done
  BY <1>2, <1>3 DEF RunOK, Sequential
<1>5. Run.mode = "recorded" /\ ~PortsLost(past[Run.of]) =>
        result.outputs # Thrown /\ result.outputs = past[Run.of].outputs[n]
        /\ result.ports \subseteq OutputPorts(Run.plan.uses[n])
  BY <1>1, <1>2, <1>3, <1>4, AsThen
<1>6. CASE result.outputs = Thrown \/ ~(result.ports \subseteq OutputPorts(Run.plan.uses[n]))
  <2>1. t = Failed(Run, n)
    BY <1>6 DEF Gated
  <2> HIDE DEF t
  <2>2. Update(Failed(Run, n)) /\ (Run.mode = "recorded" => PortsLost(past[Run.of]))
    BY <1>1, <1>5, <1>6, <2>1
  <2> QED BY <1>1, <1>2, <2>2, FailureKeeps
<1>7. CASE result.outputs # Thrown /\ result.ports \subseteq OutputPorts(Run.plan.uses[n])
  <2>1. t = Completed(Run, n, result, <<>>)
    BY <1>7 DEF Gated
  <2>2. Achieves(Run, n, result)
    BY <1>1, <1>7 DEF Achieves
  <2> HIDE DEF t, result
  <2>3. Update(Completed(Run, n, result, <<>>))
    BY <1>1, <2>1
  <2> QED BY <1>1, <1>2, <1>5, <2>2, <2>3, CommitKeeps
<1> QED BY <1>6, <1>7

LEMMA RestoreKeeps == ASSUME ReplayInv, NEW n \in Ids(Run.plan), RestoreNode(n) PROVE ReplayInv'
<1> DEFINE recorded == past[Run.of].outputs[n]
           result == Result(recorded, RestoredPorts(Run.plan.uses[n], recorded))
<1>1. /\ Executing /\ n \in RunningNode(Run) /\ External(Run.plan.uses[n])
      /\ Update(Completed(Run, n, result, <<>>)) /\ UNCHANGED <<hostCalls, deployment>>
  BY Zenon DEF RestoreNode, Execute
<1>2. Run.nodes[n] = "running"
  BY <1>1 DEF RunningNode
<1>3. result.outputs = recorded /\ result.ports = RestoredPorts(Run.plan.uses[n], recorded)
  BY DEF Result
<1> HIDE DEF result
<1>4. Achieves(Run, n, result)
  BY <1>1, <1>3 DEF Achieves
<1> QED BY <1>1, <1>2, <1>3, <1>4, CommitKeeps

LEMMA HostAnswersChoose ==
  ASSUME NEW uses, NEW token, NEW result \in HostAnswers(uses, token), uses # "host.route@1"
  PROVE result.ports = RestoredPorts(uses, result.outputs)
<1>1. CASE uses = "human.approval@1"
  <2>1. PICK o : result = ExecuteApproval(o, token)
    BY <1>1 DEF HostAnswers
  <2> DEFINE approved == o = "allowed-once"
  <2>2. /\ result.ports = {IF approved THEN "approved" ELSE "rejected"}
        /\ result.outputs[2]["approved"] = Boolean(approved)
    BY <2>1 DEF ExecuteApproval, Result, Object
  <2>3. Boolean(approved) = Boolean(TRUE) <=> approved
    BY DEF Boolean
  <2> QED BY <1>1, <2>2, <2>3 DEF RestoredPorts
<1>2. CASE uses # "human.approval@1"
  <2>1. PICK v : result = Result(Object([text |-> v]), {"success"})
    BY <1>2 DEF HostAnswers
  <2> QED BY <1>2, <2>1 DEF RestoredPorts, Result
<1> QED BY <1>1, <1>2

LEMMA CallKeeps == ASSUME ReplayInv, NEW n \in Ids(Run.plan), CallExternal(n) PROVE ReplayInv'
<1>1. /\ Executing /\ n \in RunningNode(Run) /\ External(Run.plan.uses[n]) /\ ~Restorable(n)
      /\ hostCalls' = hostCalls \cup {[run |-> Len(past), node |-> n]}
      /\ UNCHANGED <<past, told, deployment>>
  BY DEF CallExternal
<1>2. Run.nodes[n] = "running"
  BY <1>1 DEF RunningNode
<1>3. /\ RunOK(Run) /\ (Run.mode = "recorded" /\ ~PortsLost(past[Run.of]) => Pair(Run, past[Run.of]))
      /\ Len(past) \in DOMAIN past /\ Run = past[Len(past)]
  BY <1>1, RunNow
<1>4. \A m \in Ids(Run.plan) : Before(Run.plan, m, n) => Run.nodes[m] \in Done
  BY <1>2, <1>3 DEF RunOK, Sequential
<1>5. Run.mode = "recorded" /\ ~PortsLost(past[Run.of]) => n \in DOMAIN past[Run.of].outputs
  BY <1>2, <1>3, <1>4, AsThen
<1>6. Run.mode = "recorded" => PortsLost(past[Run.of])
  BY <1>1, <1>5 DEF Restorable
<1>7. \A call \in hostCalls' : \/ call \in hostCalls
                               \/ /\ call.run \in DOMAIN past /\ External(past[call.run].plan.uses[call.node])
                                  /\ past[call.run].mode = "recorded" => PortsLost(past[past[call.run].of])
  BY <1>1, <1>3, <1>6
<1> QED BY <1>1, <1>7, PastKept DEF ReplayInv

(* A Host that answers was called, which no replay of a record does. *)
LEMMA AnswerKeeps ==
  ASSUME ReplayInv, NEW n \in Ids(Run.plan), NEW result \in HostAnswers(Run.plan.uses[n], Text(<<Len(past), n>>)),
         ExternalAnswers(n, result)
  PROVE ReplayInv'
<1> DEFINE ref == IF Capturable(result.outputs) THEN <<result.outputs>> ELSE <<>>
           t == Gated(Run, n, result, ref)
<1>1. /\ [run |-> Len(past), node |-> n] \in hostCalls
      /\ Executing /\ n \in RunningNode(Run) /\ Update(t) /\ UNCHANGED <<hostCalls, deployment>>
  BY Zenon DEF ExternalAnswers, Execute
<1>2. Run.nodes[n] = "running"
  BY <1>1 DEF RunningNode
<1>3. Run.mode = "recorded" => PortsLost(past[Run.of])
  BY <1>1, RunNow
<1> HIDE DEF ref
<1>4. CASE ~(result.ports \subseteq OutputPorts(Run.plan.uses[n]))
  <2>1. t = Failed(Run, n)
    BY <1>4 DEF Gated
  <2> HIDE DEF t
  <2> QED BY <1>1, <1>2, <1>3, <2>1, FailureKeeps
<1>5. CASE result.ports \subseteq OutputPorts(Run.plan.uses[n])
  <2>1. t = Completed(Run, n, result, ref)
    BY <1>5 DEF Gated
  <2>2. Achieves(Run, n, result)
    <3>1. External(past[Len(past)].plan.uses[n])
      BY <1>1 DEF ReplayInv
    <3>2. Run = past[Len(past)]
      BY DEF Run
    <3> QED BY <3>1, <3>2, HostAnswersChoose DEF Achieves
  <2> HIDE DEF t
  <2>3. Update(Completed(Run, n, result, ref))
    BY <1>1, <2>1
  <2> QED BY <1>1, <1>2, <1>3, <2>2, <2>3, CommitKeeps
<1> QED BY <1>4, <1>5

LEMMA FinishKeeps == ASSUME ReplayInv, FinishRun PROVE ReplayInv'
<1> DEFINE r == Run
           s == past[Run.of]
           result == ResolveBindings(Run.plan.outputs, Run.input, Run.outputs)
           t == IF result = Unbound \/ Size(result) > deployment.maxOutput THEN [Run EXCEPT !.status = "failed"]
                ELSE [Run EXCEPT !.status = "completed", !.result = result]
<1>1. /\ Executing /\ RunningNode(r) = {} /\ ReadyNode(r) = {} /\ Update(t) /\ UNCHANGED <<hostCalls, deployment>>
  BY Zenon DEF FinishRun
<1>2. /\ RunOK(r) /\ r.status = "running" /\ r.limits = deployment
      /\ r.mode = "recorded" /\ ~PortsLost(s) => Pair(r, s)
  BY <1>1, RunNow
<1>3. result = ResolveBindings(r.plan.outputs, r.input, r.outputs)
  OBVIOUS
<1>4. ~(result = Unbound \/ Size(result) > r.limits.maxOutput) => t = [r EXCEPT !.status = "completed", !.result = result]
  BY <1>2
<1>5. (result = Unbound \/ Size(result) > r.limits.maxOutput) => t = [r EXCEPT !.status = "failed"]
  BY <1>2
<1> HIDE DEF r, s, t, result
<1>6. /\ Shape(t) /\ Static(r, t) /\ t.nodes = r.nodes /\ t.edges = r.edges /\ t.outputs = r.outputs
      /\ \/ t.status = "failed" /\ (result = Unbound \/ Size(result) > r.limits.maxOutput)
         \/ /\ t.status = "completed" /\ t.result = result
            /\ result # Unbound /\ ~(Size(result) > r.limits.maxOutput)
  <2>1. Shape(r)
    BY <1>2 DEF RunOK, Typed
  <2>2. CASE result = Unbound \/ Size(result) > r.limits.maxOutput
    <3>1. t = [r EXCEPT !.status = "failed"]
      BY <1>5, <2>2
    <3>2. /\ Shape(t) /\ Static(r, t) /\ t.nodes = r.nodes /\ t.edges = r.edges /\ t.outputs = r.outputs
          /\ t.status = "failed"
      BY <2>1, <3>1 DEF Shape, Static
    <3> QED BY <2>2, <3>2
  <2>3. CASE ~(result = Unbound \/ Size(result) > r.limits.maxOutput)
    <3>1. t = [r EXCEPT !.status = "completed", !.result = result]
      BY <1>4, <2>3
    <3>2. /\ Shape(t) /\ Static(r, t) /\ t.nodes = r.nodes /\ t.edges = r.edges /\ t.outputs = r.outputs
          /\ t.status = "completed" /\ t.result = result
      BY <2>1, <3>1 DEF Shape, Static
    <3> QED BY <2>3, <3>2
  <2> QED BY <2>2, <2>3
<1>7. RunOK(t)
  BY <1>1, <1>2, <1>3, <1>6, Finishing
<1>8. r.mode = "recorded" /\ ~PortsLost(s) => Agrees(t, s) /\ (t.status = "failed" => Tightened(t, s))
  <2>1. SUFFICES ASSUME Pair(r, s) PROVE Agrees(t, s) /\ (t.status = "failed" => Tightened(t, s))
    BY <1>2
  <2>2. \A n \in Ids(r.plan) : r.nodes[n] \in Done
    BY <1>1, <1>2, NothingLeft
  <2>3. result = s.result
    BY <1>3, <2>1, <2>2, WholeReplay
  <2>4. s.result # Unbound /\ Size(s.result) <= s.limits.maxOutput
    BY <2>1 DEF Pair, RunOK, Ended
  <2>5. /\ r.limits.maxOutput \in Nat /\ s.limits.maxOutput \in Nat /\ Size(s.result) \in Nat
    BY <2>1, LimitsAssumption DEF LimitsAssumption, Pair, RunOK, Typed, Size
  <2>6. t.plan = r.plan /\ t.limits = r.limits /\ Agrees(r, s)
    BY <1>6, <2>1 DEF Static, Pair
  <2>7. Agrees(t, s)
    BY <1>6, <2>6 DEF Agrees
  <2> QED BY <1>6, <2>3, <2>4, <2>5, <2>6, <2>7 DEF Tightened
<1>9. Run.mode = "recorded" => LET o == past[Run.of]
                               IN ~PortsLost(o) => Agrees(t, o) /\ (t.status = "failed" => Tightened(t, o))
  BY <1>8 DEF r, s
<1>10. Static(Run, t)
  BY <1>6 DEF r
<1> QED BY <1>1, <1>7, <1>9, <1>10, Updated

LEMMA InspectKeeps == ASSUME ReplayInv, NEW i \in DOMAIN past, Inspect(i) PROVE ReplayInv'
<1>1. /\ told' = [told EXCEPT ![i] = @ \cup {ResultOf(past[i])}] /\ past[i].status # "running"
      /\ UNCHANGED <<past, hostCalls, deployment>>
  BY DEF Inspect
<1>2. told = [j \in 1 .. MaxPast |-> told[j]] /\ \A j \in 1 .. MaxPast : told[j] \subseteq Outcome(j)
  BY DEF ReplayInv
<1>3. ResultOf(past[i]) = EngineResult(past[i])
  <2>1. past[i].status \in {"completed", "failed"}
    BY <1>1 DEF ReplayInv, RunOK, Typed
  <2> QED BY <2>1 DEF ResultOf, EngineResult
<1>4. Outcome(i) = {EngineResult(past[i])}
  BY <1>1 DEF Outcome
<1>5. \A j \in 1 .. MaxPast : told'[j] \subseteq Outcome(j)
  BY <1>1, <1>2, <1>3, <1>4
<1>6. told' = [j \in 1 .. MaxPast |-> told'[j]]
  BY <1>1, <1>2
<1> QED BY <1>1, <1>5, <1>6, PastKept DEF ReplayInv

LEMMA LaunchKeeps ==
  ASSUME ReplayInv,
         \/ \E plan \in ReplayPlans, input \in ReplayInputs : LaunchRun(plan, input)
         \/ \E i \in DOMAIN past : ReplayLive(i) \/ ReplayRecorded(i)
  PROVE ReplayInv'
<1>1. CASE \E plan \in ReplayPlans, input \in ReplayInputs : LaunchRun(plan, input)
  <2>1. PICK plan \in ReplayPlans, input \in ReplayInputs :
          Begin(plan, DefinitionSet(plan), input, "launch", 0)
    BY <1>1 DEF LaunchRun
  <2> QED BY <2>1, Added
<1>2. ASSUME NEW i \in DOMAIN past, ReplayLive(i)
      PROVE ReplayInv'
  <2>1. past[i].plan \in ReplayPlans
    BY DEF ReplayInv, RunOK, Typed
  <2>2. Begin(past[i].plan, DefinitionSet(past[i].plan), past[i].input, "live", i)
    BY <1>2 DEF ReplayLive
  <2> QED BY <2>1, <2>2, Added
<1>3. ASSUME NEW i \in DOMAIN past, ReplayRecorded(i)
      PROVE ReplayInv'
  <2>1. past[i].plan \in ReplayPlans
    BY DEF ReplayInv, RunOK, Typed
  <2>2. Begin(past[i].plan, past[i].lock, past[i].input, "recorded", i) /\ past[i].status = "completed"
    BY <1>3 DEF ReplayRecorded
  <2> QED BY <2>1, <2>2, Added
<1> QED BY <1>1, <1>2, <1>3

LEMMA ReplaySteps == ReplayInv /\ [ReplayNext]_replayVars => ReplayInv'
<1>1. SUFFICES ASSUME ReplayInv, [ReplayNext]_replayVars PROVE ReplayInv'
  OBVIOUS
<1>2. deployment \in ReplayDeployments /\ told = [i \in 1 .. MaxPast |-> told[i]]
      /\ \A i \in 1 .. MaxPast : told[i] \subseteq Outcome(i)
  BY <1>1 DEF ReplayInv
<1>3. CASE \/ \E plan \in ReplayPlans, input \in ReplayInputs : LaunchRun(plan, input)
           \/ \E i \in DOMAIN past : ReplayLive(i) \/ ReplayRecorded(i)
  BY <1>1, <1>3, LaunchKeeps
<1>4. CASE \E i \in DOMAIN past : Inspect(i)
  BY <1>1, <1>4, InspectKeeps
<1>5. ASSUME Executing, NEW n \in Ids(Run.plan),
             \/ StartNode(n) \/ ComputeNode(n) \/ RestoreNode(n) \/ CallExternal(n) \/ ExternalFails(n)
             \/ \E result \in HostAnswers(Run.plan.uses[n], Text(<<Len(past), n>>)) : ExternalAnswers(n, result)
      PROVE ReplayInv'
  <2>1. CASE StartNode(n)
    BY <1>1, <2>1, StartKeeps
  <2>2. CASE ComputeNode(n)
    BY <1>1, <2>2, ComputeKeeps
  <2>3. CASE RestoreNode(n)
    BY <1>1, <2>3, RestoreKeeps
  <2>4. CASE CallExternal(n)
    BY <1>1, <2>4, CallKeeps
  <2>5. CASE ExternalFails(n)
    <3>1. /\ [run |-> Len(past), node |-> n] \in hostCalls /\ n \in RunningNode(Run)
          /\ Update(Failed(Run, n)) /\ UNCHANGED <<hostCalls, deployment>>
      BY <2>5 DEF ExternalFails
    <3>2. Run.mode = "recorded" => PortsLost(past[Run.of])
      BY <1>1, <1>5, <3>1, RunNow
    <3>3. Run.nodes[n] = "running"
      BY <3>1 DEF RunningNode
    <3> QED BY <1>1, <1>5, <3>1, <3>2, <3>3, FailureKeeps
  <2>6. ASSUME NEW result \in HostAnswers(Run.plan.uses[n], Text(<<Len(past), n>>)), ExternalAnswers(n, result)
        PROVE ReplayInv'
    BY <1>1, <2>6, AnswerKeeps
  <2> QED BY <1>5, <2>1, <2>2, <2>3, <2>4, <2>5, <2>6
<1>6. CASE FinishRun
  BY <1>1, <1>6, FinishKeeps
<1>7. CASE \E a \in artifacts : LoseArtifact(a)
  <2>1. UNCHANGED <<past, hostCalls, told, deployment>>
    BY <1>7 DEF LoseArtifact
  <2> QED BY <1>1, <1>2, <2>1, PastKept
<1>8. CASE \E d \in ReplayDeployments \ {deployment} : Redeploy(d)
  <2>1. ~Executing /\ deployment' \in ReplayDeployments /\ UNCHANGED <<past, hostCalls, told>>
    BY <1>8 DEF Redeploy
  <2> QED BY <1>1, <1>2, <2>1, PastKept
<1>9. CASE UNCHANGED replayVars
  <2>1. UNCHANGED <<past, hostCalls, told, deployment>>
    BY <1>9 DEF replayVars
  <2> QED BY <1>1, <1>2, <2>1, PastKept
<1>10. CASE ReplayNext
  BY <1>3, <1>4, <1>5, <1>6, <1>7, <1>8, <1>10 DEF ReplayNext
<1> QED BY <1>1, <1>9, <1>10

(* What every run of the store, and what is told of it, satisfies. *)
THEOREM RunsAndReplays == ReplaySpec => []ReplayInv
<1>1. ReplayInit => ReplayInv
  <2>1. SUFFICES ASSUME ReplayInit PROVE ReplayInv
    OBVIOUS
  <2>2. past = <<>> /\ hostCalls = {} /\ told = [i \in 1 .. MaxPast |-> {}] /\ deployment \in ReplayDeployments
    BY <2>1 DEF ReplayInit
  <2>3. Len(past) = 0 /\ DOMAIN past = {} /\ \A S : past \in Seq(S)
    BY <2>2
  <2>4. ~Executing
    BY <2>2 DEF Executing
  <2> QED BY <2>2, <2>3, <2>4, LimitsAssumption DEF ReplayInv, LimitsAssumption
<1> QED BY <1>1, ReplaySteps, PTL DEF ReplaySpec

LEMMA ReplayInvIsFaithful == ReplayInv => RecordedReplayIsFaithful
<1>1. SUFFICES ASSUME ReplayInv, NEW i \in DOMAIN past, past[i].mode = "recorded", ~PortsLost(past[past[i].of])
               PROVE LET r == past[i]
                         s == past[r.of]
                     IN /\ ~\E call \in hostCalls : call.run = i
                        /\ \A n \in DOMAIN r.outputs : n \in DOMAIN s.outputs /\ r.outputs[n] = s.outputs[n]
                        /\ \A e \in DOMAIN r.edges : r.edges[e] \in {"unknown", s.edges[e]}
                        /\ r.status = "failed" => Tightened(r, s)
                        /\ r.status = "completed" => EngineResult(r) = EngineResult(s)
                        /\ \A j \in DOMAIN past : Cardinality(told[j]) <= 1
  BY Zenon DEF RecordedReplayIsFaithful
<1> DEFINE r == past[i]
           s == past[r.of]
<1>2. ReplayOK(i) /\ RunOK(r) /\ DOMAIN past = 1 .. Len(past) /\ Len(past) \in Nat
  BY <1>1, PastRuns DEF ReplayInv
<1>3. /\ r.of \in 1 .. i - 1 /\ s.status = "completed" /\ s.plan = r.plan /\ s.input = r.input /\ Agrees(r, s)
      /\ r.status = "failed" => Tightened(r, s)
      /\ \A call \in hostCalls : call.run # i
  BY <1>1, <1>2 DEF ReplayOK
<1>4. RunOK(s)
  BY <1>1, <1>2, <1>3 DEF ReplayInv
<1>5. ~PortsLost(s)
  BY <1>1
<1>6. \A j \in DOMAIN past : Cardinality(told[j]) <= 1
  <2>1. ASSUME NEW j \in DOMAIN past PROVE Cardinality(told[j]) <= 1
    <3>1. told[j] \subseteq Outcome(j)
      BY <1>1, <1>2, PastRuns DEF ReplayInv
    <3>2. told[j] = {} \/ told[j] = {EngineResult(past[j])}
      BY <3>1 DEF Outcome
    <3> DEFINE x == EngineResult(past[j])
    <3> HIDE DEF x
    <3>3. Cardinality({}) = 0 /\ Cardinality({x}) = 1
      BY FS_EmptySet, FS_Singleton
    <3>4. Cardinality(told[j]) \in {0, 1}
      BY <3>2, <3>3 DEF x
    <3> QED BY <3>4
  <2> QED BY <2>1
<1> HIDE DEF r, s
<1>7. Pair(r, s)
  BY <1>2, <1>3, <1>4, <1>5 DEF Pair
<1>8. /\ DOMAIN r.outputs = {n \in Ids(r.plan) : r.nodes[n] = "succeeded"} /\ DOMAIN r.edges = DOMAIN r.plan.edges
      /\ DOMAIN s.outputs = {n \in Ids(s.plan) : s.nodes[n] = "succeeded"}
  BY <1>2, <1>4 DEF RunOK, Typed
<1>9. \A n \in DOMAIN r.outputs : n \in DOMAIN s.outputs /\ r.outputs[n] = s.outputs[n]
  BY <1>3, <1>8 DEF Agrees
<1>10. \A e \in DOMAIN r.edges : r.edges[e] \in {"unknown", s.edges[e]}
  BY <1>7, <1>8, Tracks DEF EdgeTracks
<1>11. r.status = "completed" => EngineResult(r) = EngineResult(s)
  <2>1. SUFFICES ASSUME r.status = "completed" PROVE EngineResult(r) = EngineResult(s)
    OBVIOUS
  <2>2. /\ \A n \in Ids(r.plan) : r.nodes[n] \in Done
        /\ r.result = ResolveBindings(r.plan.outputs, r.input, r.outputs)
    BY <1>2, <2>1 DEF RunOK, Ended
  <2>3. r.nodes = s.nodes /\ r.edges = s.edges /\ r.result = s.result
    BY <1>7, <2>2, WholeReplay
  <2> QED BY <1>3, <2>1, <2>3 DEF EngineResult
<1>12. ~\E call \in hostCalls : call.run = i
  BY <1>3
<1> QED BY <1>3, <1>6, <1>9, <1>10, <1>11, <1>12 DEF r, s

(* A replay from a record calls no Host, takes the branches of the run it replays with the
   outputs it had, and completes with its result unless the limits were tightened; whatever
   the plans, the inputs and the order of replays, inspections, losses and deployments. *)
THEOREM ReplaysAreFaithful == ReplaySpec => []RecordedReplayIsFaithful
BY RunsAndReplays, ReplayInvIsFaithful, PTL
=============================================================================
