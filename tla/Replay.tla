------------------------------- MODULE Replay -------------------------------
(* A finished run and what is made of it later: inspected, launched once more ("live"),
   or replayed from its record ("recorded"), where external nodes answer what was
   committed and deterministic nodes are computed anew.  Runs execute one after the
   other, node after node, and are redeployed only in between: interleavings, retries
   and crashes are those of DagEngine.  A scalar is a tagged value; of sizes only
   "short" and "long" are told apart. *)
EXTENDS Naturals, Sequences, FiniteSets

CONSTANTS ReplayPlans,        \* [order, uses, config, binds, edges, outputs]
          ReplayInputs,       \* workflow inputs, JSON objects
          ReplayDeployments,  \* [version, capture, maxArtifact, maxInput, maxOutput, maxCheckpoint]
          MaxPast             \* bound: runs of a behaviour

VARIABLES past,        \* the run store: records, the last of which may execute
          hostCalls,       \* [run, node]: calls of the Host
          told,        \* told[i]: results of run i handed out, by its executor or an inspection
          artifacts,   \* the artifact store: [content, redacted, intact], one per digest
          deployment   \* what the process runs with now

replayVars == <<past, hostCalls, told, artifacts, deployment>>
-----------------------------------------------------------------------------
Number(k) == <<"number", k>>     Boolean(b) == <<"boolean", b>>
Text(s) == <<"string", s>>       Object(f) == <<"object", f>>
NoFields == [k \in {} |-> k]
Unbound == <<"unbound">>         Thrown == <<"thrown">>

OutputPorts(uses) == CASE uses = "core.condition@1" -> {"true", "false"}
                       [] uses = "human.approval@1" -> {"approved", "rejected"}
                       [] uses = "host.route@1" -> {"left", "right"}
                       [] OTHER -> {"success"}
Before(plan, m, n) == \E i, j \in DOMAIN plan.order : i < j /\ plan.order[i] = m /\ plan.order[j] = n
External(uses) == uses \notin {"core.start@1", "core.end@1", "core.condition@1"}
Ids(plan) == {plan.order[i] : i \in DOMAIN plan.order}
ExternalNodes(plan) == {n \in Ids(plan) : External(plan.uses[n])}

\* definitionSet: the versions of the definitions a plan uses; 0 is one without a digest.
DefinitionSet(plan) == [u \in {plan.uses[n] : n \in Ids(plan)} |-> deployment.version[u]]
Replayable(plan) == \A u \in DOMAIN DefinitionSet(plan) : deployment.version[u] # 0

(* What a plan has that compiled: an order without repetitions, along which edges lead, from
   the first node to every other; and limits are numbers. *)
ASSUME PlansAssumption ==
  \A plan \in ReplayPlans :
    /\ plan.order \in Seq(Ids(plan)) /\ plan.order # <<>>
    /\ \A i, j \in DOMAIN plan.order : plan.order[i] = plan.order[j] => i = j
    /\ \A e \in DOMAIN plan.edges : Before(plan, plan.edges[e].from, plan.edges[e].to)
    /\ \A n \in Ids(plan) \ {plan.order[1]} : \E e \in DOMAIN plan.edges : plan.edges[e].to = n
ASSUME LimitsAssumption ==
  /\ MaxPast \in Nat
  /\ \A d \in ReplayDeployments : d.maxOutput \in Nat /\ d.maxCheckpoint \in Nat

IsLong(json) == json[1] = "object" /\ \E k \in DOMAIN json[2] : json[2][k] = Text(<<"long">>)
Size(json) == IF IsLong(json) THEN 2 ELSE 1
\* checkpointOf: what a checkpoint weighs is what its node outputs weigh.
CheckpointSize(outputs) == Cardinality(DOMAIN outputs) + Cardinality({n \in DOMAIN outputs : IsLong(outputs[n])})
-----------------------------------------------------------------------------
(* Bindings are read along a path of the fields of nested objects. *)
ReadField(json, field) == IF json[1] = "object" /\ field \in DOMAIN json[2] THEN json[2][field] ELSE Unbound
ReadPath(root, path) ==
    LET read[i \in 0 .. Len(path)] == IF i = 0 THEN root ELSE ReadField(read[i - 1], path[i])
    IN read[Len(path)]

ResolveBinding(b, input, outputs) ==
    CASE b.from = "literal" -> b.value
      [] b.from = "input" -> ReadPath(input, b.path)
      [] b.from \in DOMAIN outputs -> ReadPath(outputs[b.from], b.path)
      [] OTHER -> Unbound

ResolveBindings(bindings, input, outputs) ==
    LET read == [name \in DOMAIN bindings |-> ResolveBinding(bindings[name], input, outputs)]
    IN IF \E name \in DOMAIN read : read[name] = Unbound THEN Unbound ELSE Object(read)

NodeInputs(r, n) == ResolveBindings(r.plan.binds[n], r.input, r.outputs)

EvaluateCondition(operator, left, right) ==
    CASE operator = "truthy" -> Boolean(left \notin {Unbound, Number(0), Boolean(FALSE), Text(<<>>)})
      [] operator = "eq" -> Boolean(left = right)
      [] left[1] # "number" \/ right[1] # "number" -> Thrown
      [] operator = "gte" -> Boolean(left[2] >= right[2])

Result(outputs, ports) == [outputs |-> outputs, ports |-> ports]
ExecuteCondition(operator, inputs) ==
    LET verdict == EvaluateCondition(operator, ReadPath(inputs, <<"left">>), ReadPath(inputs, <<"right">>))
    IN IF verdict = Thrown THEN Result(Thrown, {})
       ELSE Result(Object([result |-> verdict]), {IF verdict[2] THEN "true" ELSE "false"})

Deterministic(r, n) ==
    CASE r.plan.uses[n] = "core.start@1" -> Result(r.input, {"success"})
      [] r.plan.uses[n] = "core.end@1" -> Result(NodeInputs(r, n), {"success"})
      [] OTHER -> ExecuteCondition(r.plan.config[n], NodeInputs(r, n))

(* What the Host may answer: a tool a text, or something its schema refuses; a person a
   decision; a node of the Host the port it chose, or one it does not have. *)
ExecuteApproval(outcome, token) ==
    LET approved == outcome = "allowed-once"
    IN Result(Object([outcome |-> Text(<<outcome>>), approved |-> Boolean(approved), token |-> token]),
              {IF approved THEN "approved" ELSE "rejected"})
HostAnswers(uses, token) ==
    CASE uses = "human.approval@1" -> {ExecuteApproval(o, token) : o \in {"allowed-once", "rejected", "unavailable"}}
      [] uses = "host.route@1" -> {Result(Object(NoFields), {p}) : p \in {"left", "right", "elsewhere"}}
      [] OTHER -> {Result(Object([text |-> v]), {"success"}) : v \in {Text(<<"short">>), Text(<<"long">>), Number(0)}}
ValidOutputs(uses, json) == json[1] = "object" /\ (uses = "tool.call@1" => json[2]["text"][1] = "string")
-----------------------------------------------------------------------------
Run == past[Len(past)]
Executing == past # <<>> /\ Run.status = "running"
\* The result a record stands for; one that is not completed or cancelled reads as failed.
ResultOf(r) == [status |-> IF r.status = "completed" THEN "completed" ELSE "failed",
                outputs |-> r.result, nodes |-> r.nodes, edges |-> r.edges]
\* The result an executor hands out when its run has ended.
EngineResult(r) == [status |-> r.status, outputs |-> r.result, nodes |-> r.nodes, edges |-> r.edges]
Return(r) == told' = IF r.status = "running" THEN told ELSE [told EXCEPT ![Len(past)] = @ \cup {EngineResult(r)}]
Update(r) == past' = [past EXCEPT ![Len(past)] = r] /\ Return(r)
RunningNode(r) == {n \in Ids(r.plan) : r.nodes[n] = "running"}
ReadyNode(r) == {n \in Ids(r.plan) : r.nodes[n] = "ready"}

\* reconcileNode, once for every node, in the order of the plan.
Reconciled(r, n) ==
    LET into == {e \in DOMAIN r.plan.edges : r.plan.edges[e].to = n}
    IN IF r.nodes[n] # "pending" \/ \E e \in into : r.edges[e] = "unknown" THEN r
       ELSE IF \E e \in into : r.edges[e] = "taken" THEN [r EXCEPT !.nodes[n] = "ready"]
       ELSE [r EXCEPT !.nodes[n] = "skipped",
                      !.edges = [e \in DOMAIN r.edges |-> IF r.plan.edges[e].from = n THEN "skipped" ELSE r.edges[e]]]
PortsChosen(r, n, ports) ==
    [r EXCEPT !.edges = [e \in DOMAIN r.edges |-> IF r.plan.edges[e].from # n THEN r.edges[e]
                                                  ELSE IF r.plan.edges[e].port \in ports THEN "taken" ELSE "skipped"]]
Settled(r, n, ports) ==
    LET reconciled[i \in 0 .. Len(r.plan.order)] ==
          IF i = 0 THEN PortsChosen(r, n, ports) ELSE Reconciled(reconciled[i - 1], r.plan.order[i])
    IN reconciled[Len(r.plan.order)]

Failed(r, n) == [r EXCEPT !.nodes[n] = "failed", !.status = "failed"]
Capturable(json) == deployment.capture # "metadata" /\ Size(json) <= deployment.maxArtifact
Completed(r, n, result, ref) ==
    LET done == [r EXCEPT !.nodes[n] = "succeeded", !.captured[n] = ref,
                          !.outputs = [m \in DOMAIN r.outputs \cup {n} |-> IF m = n THEN result.outputs
                                                                         ELSE r.outputs[m]]]
    IN IF \/ ~ValidOutputs(r.plan.uses[n], result.outputs) \/ Size(result.outputs) > deployment.maxOutput
          \/ CheckpointSize(done.outputs) > deployment.maxCheckpoint
       THEN Failed(r, n)
       ELSE Settled(done, n, result.ports)
\* The gate on ports, which outputs restored from a record do not pass.
Gated(r, n, result, ref) ==
    IF result.ports \subseteq OutputPorts(r.plan.uses[n]) THEN Completed(r, n, result, ref) ELSE Failed(r, n)
-----------------------------------------------------------------------------
(* capture: inputs and outputs go to the artifact store.  put stores a content once,
   whatever was made of it since. *)
StoreArtifact(json) == IF \E a \in artifacts : a.content = json THEN artifacts
              ELSE artifacts \cup {[content |-> json, redacted |-> FALSE, intact |-> TRUE]}
Capture(json) == IF Capturable(json) THEN StoreArtifact(json) ELSE artifacts
\* A node has executed; what it committed is captured.
Execute(n, r, outputs) ==
    /\ Update(r)
    /\ artifacts' = IF r.nodes[n] = "succeeded" THEN Capture(outputs) ELSE artifacts
    /\ UNCHANGED deployment

(* A run begins with the definitions of its plan being those it is locked to. *)
Begin(plan, lock, input, mode, of) ==
    /\ Len(past) < MaxPast /\ ~Executing
    /\ DefinitionSet(plan) = lock
    /\ Size(input) <= deployment.maxInput
    /\ past' = Append(past, [plan |-> plan, lock |-> lock, replayable |-> Replayable(plan), input |-> input,
                             mode |-> mode, of |-> of, status |-> "running",
                             nodes |-> [n \in Ids(plan) |-> IF n = Head(plan.order) THEN "ready" ELSE "pending"],
                             edges |-> [e \in DOMAIN plan.edges |-> "unknown"],
                             outputs |-> NoFields, captured |-> [n \in Ids(plan) |-> <<>>],
                             result |-> Unbound, limits |-> deployment])
    /\ artifacts' = Capture(input)
    /\ UNCHANGED <<hostCalls, told, deployment>>

LaunchRun(plan, input) == Begin(plan, DefinitionSet(plan), input, "launch", 0)
ReplayLive(i) == Begin(past[i].plan, DefinitionSet(past[i].plan), past[i].input, "live", i)

(* An artifact is taken when it is there, as it was referred to, and equal to the output. *)
VerifyArtifact(r, n) ==
    /\ r.captured[n] # <<>>
    /\ \E a \in artifacts : a.content = r.captured[n][1] /\ ~a.redacted /\ a.intact
    /\ r.captured[n][1] = r.outputs[n]

ReplayRecorded(i) ==
    LET r == past[i]
    IN /\ r.replayable /\ r.status = "completed"
       /\ ExternalNodes(r.plan) \subseteq DOMAIN r.outputs
       /\ deployment.capture = "replayable" => \A n \in ExternalNodes(r.plan) : VerifyArtifact(r, n)
       /\ Begin(r.plan, r.lock, r.input, "recorded", i)

StartNode(n) ==
    /\ Executing /\ RunningNode(Run) = {} /\ n \in ReadyNode(Run)
    /\ \A m \in ReadyNode(Run) \ {n} : Before(Run.plan, n, m)
    /\ Update(IF NodeInputs(Run, n) = Unbound THEN Failed(Run, n) ELSE [Run EXCEPT !.nodes[n] = "running"])
    /\ UNCHANGED <<hostCalls, artifacts, deployment>>

ComputeNode(n) ==
    /\ Executing /\ n \in RunningNode(Run) /\ ~External(Run.plan.uses[n])
    /\ LET result == Deterministic(Run, n)
       IN Execute(n, IF result.outputs = Thrown THEN Failed(Run, n) ELSE Gated(Run, n, result, <<>>), result.outputs)
    /\ UNCHANGED hostCalls

\* The ports of a person's decision are read off it; for other nodes they are not known.
RestoredPortsAlways(uses, outputs) == {"success"}
RestoredPorts(uses, outputs) ==
    IF uses = "human.approval@1" THEN {IF outputs[2]["approved"] = Boolean(TRUE) THEN "approved" ELSE "rejected"}
    ELSE {"success"}
Restorable(n) == Run.mode = "recorded" /\ n \in DOMAIN past[Run.of].outputs
RestoreNode(n) ==
    /\ Executing /\ n \in RunningNode(Run) /\ External(Run.plan.uses[n]) /\ Restorable(n)
    /\ LET recorded == past[Run.of].outputs[n]
       IN Execute(n, Completed(Run, n, Result(recorded, RestoredPorts(Run.plan.uses[n], recorded)), <<>>), recorded)
    /\ UNCHANGED hostCalls

CallExternal(n) ==
    /\ Executing /\ n \in RunningNode(Run) /\ External(Run.plan.uses[n]) /\ ~Restorable(n)
    /\ [run |-> Len(past), node |-> n] \notin hostCalls
    /\ hostCalls' = hostCalls \cup {[run |-> Len(past), node |-> n]}
    /\ UNCHANGED <<past, told, artifacts, deployment>>

ExternalAnswers(n, result) ==
    /\ [run |-> Len(past), node |-> n] \in hostCalls
    /\ Executing /\ n \in RunningNode(Run)
    /\ LET ref == IF Capturable(result.outputs) THEN <<result.outputs>> ELSE <<>>
       IN Execute(n, Gated(Run, n, result, ref), result.outputs)
    /\ UNCHANGED hostCalls
ExternalFails(n) ==
    /\ [run |-> Len(past), node |-> n] \in hostCalls
    /\ Executing /\ n \in RunningNode(Run)
    /\ Update(Failed(Run, n))
    /\ UNCHANGED <<hostCalls, artifacts, deployment>>

\* inspect: a handle on the record; nothing is executed.  (Of a run that goes on, once ended.)
Inspect(i) ==
    /\ told' = [told EXCEPT ![i] = @ \cup {ResultOf(past[i])}]
    /\ past[i].status # "running"
    /\ UNCHANGED <<past, hostCalls, artifacts, deployment>>

FinishRun ==
    /\ Executing /\ RunningNode(Run) = {} /\ ReadyNode(Run) = {}
    /\ LET result == ResolveBindings(Run.plan.outputs, Run.input, Run.outputs)
       IN Update(IF result = Unbound \/ Size(result) > deployment.maxOutput THEN [Run EXCEPT !.status = "failed"]
                 ELSE [Run EXCEPT !.status = "completed", !.result = result])
    /\ UNCHANGED <<hostCalls, artifacts, deployment>>

(* Between runs the Host may purge, redact or damage an artifact (one that a run refers to:
   others are never read), and be deployed anew. *)
LoseArtifact(a) ==
    /\ ~Executing /\ \E i \in DOMAIN past : \E n \in DOMAIN past[i].captured : past[i].captured[n] = <<a.content>>
    /\ \E rest \in {{}, {[a EXCEPT !.redacted = TRUE]}, {[a EXCEPT !.intact = FALSE]}} :
         artifacts' = (artifacts \ {a}) \cup rest
    /\ UNCHANGED <<past, hostCalls, told, deployment>>
Redeploy(d) == ~Executing /\ deployment' = d /\ UNCHANGED <<past, hostCalls, told, artifacts>>

NoReplay == past = <<>> /\ hostCalls = {} /\ artifacts = {} /\ told = [i \in 1 .. MaxPast |-> {}] /\ deployment = "none"
ReplayInit == /\ past = <<>> /\ hostCalls = {} /\ artifacts = {} /\ told = [i \in 1 .. MaxPast |-> {}]
              /\ deployment \in ReplayDeployments
ReplayNext ==
    \/ \E plan \in ReplayPlans, input \in ReplayInputs : past = <<>> /\ LaunchRun(plan, input)
    \/ \E i \in DOMAIN past : ReplayLive(i) \/ ReplayRecorded(i) \/ Inspect(i)
    \/ \E n \in UNION {Ids(plan) : plan \in ReplayPlans} :
          /\ Executing /\ n \in Ids(Run.plan)
          /\ \/ StartNode(n) \/ ComputeNode(n) \/ RestoreNode(n) \/ CallExternal(n) \/ ExternalFails(n)
             \/ \E result \in HostAnswers(Run.plan.uses[n], Text(<<Len(past), n>>)) : ExternalAnswers(n, result)
    \/ FinishRun
    \/ \E a \in artifacts : LoseArtifact(a)
    \/ \E d \in ReplayDeployments \ {deployment} : Redeploy(d)
ReplaySpec == ReplayInit /\ [][ReplayNext]_replayVars
-----------------------------------------------------------------------------
PortsLost(r) == \E n \in Ids(r.plan) : r.plan.uses[n] = "host.route@1" /\ r.nodes[n] = "succeeded"
Tightened(r, s) == r.limits.maxOutput < s.limits.maxOutput \/ r.limits.maxCheckpoint < s.limits.maxCheckpoint

(* A recorded replay is the run it replays: it calls no Host, takes the branches that run
   took with the outputs it had, ends completed with the same result unless the limits
   were tightened in between, and whoever inspects a run is told what its executor
   answered (replay, verifyReplayArtifacts, executeNode, resultOf).  Left out: a run through
   a node of the Host with several ports, whose choice no replay restores. *)
RecordedReplayIsFaithful ==
    \A i \in DOMAIN past : past[i].mode = "recorded" /\ ~PortsLost(past[past[i].of]) =>
      LET r == past[i]
          s == past[r.of]
      IN /\ ~\E call \in hostCalls : call.run = i
         /\ \A n \in DOMAIN r.outputs : n \in DOMAIN s.outputs /\ r.outputs[n] = s.outputs[n]
         /\ \A e \in DOMAIN r.edges : r.edges[e] \in {"unknown", s.edges[e]}
         /\ r.status = "failed" => Tightened(r, s)
         /\ r.status = "completed" => EngineResult(r) = EngineResult(s)
         /\ \A j \in DOMAIN past : Cardinality(told[j]) <= 1
=============================================================================
