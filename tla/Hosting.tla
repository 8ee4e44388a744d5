------------------------------- MODULE Hosting -------------------------------
(* A deployment of the background side of the system, composed of the ingress, the
   run store, the queue, the delivery and, here, the workers
   (triggers/core/coordinator.ts) and an operator at a console
   (WorkflowRuntime.resume and cancel, delivery.retryAttention).

   An execution is what the engine does to the record of a run, its nodes left
   out: DagEngine has them. An executor (a worker or the console) is at
     resume   runtime.resume, up to the load of engine.resume
     pausing  its commit of run.paused, when a node needs attention
     boot     the first commit of #execute
     work     the scheduling loop
     ended    the load that reconciles the local result with the durable one
     release, check, requeue   the end of runOnce; it waits for the delivery *)
EXTENDS TriggerIngress, Delivery

CONSTANTS Console,      \* the executor of the operator
          Canceller,    \* the operator's runtime.cancel
          Retrier,      \* the operator's retryAttention
          Deployments   \* the deployments looked at: the actors there are and the
                        \* events that may arrive (cast), the bound on how often one
                        \* arrives (ingests) and that on crashes, late heartbeats,
                        \* stops, outages and orders of the operator (shocks)

Executors == Workers \cup {Console}

VARIABLES deployment,  \* one of them
          exec,        \* where each executor is
          cancel,      \* the runtime.cancel of the operator
          orphaned,    \* history: runs left running by a crash or an operator
          shocks       \* bound: how often the environment has acted

hostVars == <<deployment, exec, cancel, orphaned, shocks>>
vars == <<storeVars, queue, ingressVars, deliveryVars, hostVars>>

ASSUME ActorsAssumption ==
  /\ Actors = Callers \cup Executors \cup {Canceller}
  /\ Deliverers = Workers \cup {Retrier}
  /\ Payloads = Terminal \cup {"local"}
  /\ Callers \cap Executors = {}
  /\ Console \notin Workers
  /\ Canceller \notin Callers \cup Executors
  /\ Retrier \notin Workers
  /\ Nobody \notin Workers

ASSUME BoundsAssumption ==
  /\ Runs # {} /\ IsFiniteSet(Runs)
  /\ MaxAttempts \in Nat
  /\ \A d \in Deployments : d.shocks \in Nat

AtRest(x) == [pc |-> "idle", run |-> exec[x].run, stop |-> "no", result |-> "none"]
Working == {"resume", "pausing", "boot", "work"}

Cast == deployment.cast
Shock == shocks < deployment.shocks /\ shocks' = shocks + 1

HostTypeOK ==
  /\ exec \in [Executors -> [pc : Working \cup {"idle", "ended", "release", "check", "requeue"},
                             run : Runs, stop : {"no", "cancel", "interrupt"},
                             result : Payloads \cup {"none", "paused"}]]
  /\ deployment \in Deployments
  /\ cancel \in [pc : {"idle", "load", "commit", "answered", "gaveup"}, run : Runs,
                 tries : 0 .. 2, answer : Terminal \cup {"none"}]
  /\ orphaned \subseteq Runs
  /\ shocks \in 0 .. deployment.shocks

TypeOK == StoreTypeOK /\ QueueTypeOK /\ IngressTypeOK /\ DeliveryTypeOK /\ HostTypeOK

HostInit ==
  LET r == CHOOSE q \in Runs : TRUE
  IN /\ deployment \in Deployments
     /\ exec = [x \in Executors |-> [pc |-> "idle", run |-> r, stop |-> "no", result |-> "none"]]
     /\ cancel = [pc |-> "idle", run |-> r, tries |-> 0, answer |-> "none"]
     /\ orphaned = {}
     /\ shocks = 0
     /\ \A e \in Events \ Cast : flaw[e] = "none"

Init == StoreInit /\ QueueInit /\ IngressInit /\ DeliveryInit /\ HostInit

Is(x, pc) == exec[x].pc = pc
RunOf(x) == exec[x].run
ExecGoto(x, pc) == exec' = [exec EXCEPT ![x].pc = pc]
EndsWith(x, result) == exec' = [exec EXCEPT ![x].pc = "ended", ![x].result = result]
Throws(x) == exec' = IF x = Console THEN [exec EXCEPT ![x] = AtRest(x)]
                     ELSE [exec EXCEPT ![x].pc = "release"]

Calm == UNCHANGED <<ingressVars, deliveryVars, deployment, cancel, orphaned, shocks>>
-----------------------------------------------------------------------------
(* Mutant: a state nobody knows. *)
ClaimRunMistyped(w) ==
  /\ Is(w, "idle")
  /\ \E r \in Runs : /\ Claim(w, r)
                     /\ exec' = [exec EXCEPT ![w] = [AtRest(w) EXCEPT !.pc = "claimed", !.run = r]]
  /\ UNCHANGED storeVars /\ Calm

(* runOnce: claim, getRun. *)
ClaimRun(w) ==
  /\ Is(w, "idle")
  /\ \E r \in Runs : /\ Claim(w, r)
                     /\ exec' = [exec EXCEPT ![w] = [AtRest(w) EXCEPT !.pc = "resume", !.run = r]]
  /\ UNCHANGED storeVars /\ Calm

(* The operator resumes a paused run from the console, with a decision for each node:
   all retried, or one failed. *)
ResumePaused(r) ==
  /\ Console \in Cast
  /\ Is(Console, "idle")
  /\ record[r] = "paused"
  /\ Shock
  /\ LoadRun(Console, r)
  /\ \E pc \in {"boot", "pausing"} :
       exec' = [exec EXCEPT ![Console] = [AtRest(Console) EXCEPT !.pc = pc, !.run = r]]
  /\ UNCHANGED <<queue, ingressVars, deliveryVars, deployment, cancel, orphaned>>

(* engine.resume: a run at rest is answered from its record, a running one is loaded;
   a node that is retry-never and was running pauses it. *)
ResumeRun(w) ==
  LET r == RunOf(w)
  IN /\ Is(w, "resume")
     /\ IF record[r] = "running"
        THEN /\ LoadRun(w, r)
             /\ \E pc \in {"boot", "pausing"} : ExecGoto(w, pc)
        ELSE /\ EndsWith(w, record[r])
             /\ UNCHANGED storeVars
     /\ UNCHANGED queue /\ Calm

(* The commit of engine.resume itself: run.paused, or for the operator's decision to
   fail a node run.failed. A conflict throws out of resume. *)
CommitPause(x) ==
  LET r == RunOf(x)
      s == IF x = Console THEN "failed" ELSE "paused"
  IN /\ Is(x, "pausing")
     /\ \/ Commit(x, r, s) /\ EndsWith(x, s)
        \/ Conflict(x, r) /\ Throws(x) /\ UNCHANGED storeVars
     /\ UNCHANGED queue /\ Calm

Boot(x) ==
  /\ Is(x, "boot")
  /\ Commit(x, RunOf(x), "running")
  /\ ExecGoto(x, "work")
  /\ UNCHANGED queue /\ Calm

(* A commit of the loop; it matters to those who hold an older sequence number. *)
Progress(x) ==
  /\ Is(x, "work")
  /\ seen[RunOf(x)] # {x}
  /\ Commit(x, RunOf(x), "running")
  /\ UNCHANGED <<exec, queue>> /\ Calm

Finish(x) ==
  /\ Is(x, "work")
  /\ \E s \in {"completed", "failed", "paused"} :
       Commit(x, RunOf(x), s) /\ EndsWith(x, s)
  /\ UNCHANGED queue /\ Calm

FinishCancelled(x) ==
  /\ Is(x, "work")
  /\ exec[x].stop = "cancel"
  /\ Commit(x, RunOf(x), "cancelled")
  /\ EndsWith(x, "cancelled")
  /\ UNCHANGED queue /\ Calm

(* An interruption commits nothing: the local result is a failure the record does not
   know of. *)
FinishInterrupted(x) ==
  /\ Is(x, "work")
  /\ exec[x].stop = "interrupt"
  /\ EndsWith(x, "local")
  /\ UNCHANGED <<storeVars, queue>> /\ Calm

(* A lost commit ends the execution: the local result is what its state says. *)
LoseCommit(x) ==
  /\ exec[x].pc \in {"boot", "work"}
  /\ Conflict(x, RunOf(x))
  /\ \E result \in {"local", "paused"} \cup (IF exec[x].stop = "cancel" THEN {"cancelled"} ELSE {}) :
       EndsWith(x, result)
  /\ UNCHANGED <<storeVars, queue>> /\ Calm

(* handle.result prefers a durable outcome. A worker then delivers what is not
   paused, whatever it is. *)
Reconcile(x) ==
  LET r == RunOf(x)
      result == IF record[r] \in Terminal THEN record[r] ELSE exec[x].result
  IN /\ Is(x, "ended")
     /\ seen' = [seen EXCEPT ![r] = @ \ {x}]
     /\ IF x = Console
        THEN /\ exec' = [exec EXCEPT ![x] = AtRest(x)]
             /\ orphaned' = IF record[r] = "running" THEN orphaned \cup {r} ELSE orphaned
             /\ UNCHANGED sending
        ELSE /\ UNCHANGED orphaned
             /\ ExecGoto(x, "release")
             /\ IF result = "paused" THEN UNCHANGED sending ELSE StartDelivery(x, r, result)
     /\ UNCHANGED <<record, queue, ingressVars, outbox, posts, deployment, cancel, shocks>>

(* The finally block of runOnce. *)
ReleaseRun(w) ==
  /\ Is(w, "release")
  /\ sending[w].pc = "none"
  /\ Release(w, RunOf(w))
  /\ ExecGoto(w, "check")
  /\ UNCHANGED storeVars /\ Calm

(* Mutant: a run that is still running is not looked for. *)
CheckRunNever(w) ==
  /\ Is(w, "check")
  /\ exec' = [exec EXCEPT ![w] = AtRest(w)]
  /\ UNCHANGED <<storeVars, queue>> /\ Calm

CheckRun(w) ==
  /\ Is(w, "check")
  /\ exec' = [exec EXCEPT ![w] = IF record[RunOf(w)] = "running"
                                 THEN [@ EXCEPT !.pc = "requeue"] ELSE AtRest(w)]
  /\ UNCHANGED <<storeVars, queue>> /\ Calm

RequeueRun(w) ==
  /\ Is(w, "requeue")
  /\ Enqueue(RunOf(w))
  /\ exec' = [exec EXCEPT ![w] = AtRest(w)]
  /\ UNCHANGED storeVars /\ Calm

WorkerStep(w) == ClaimRun(w) \/ ResumeRun(w) \/ ReleaseRun(w) \/ CheckRun(w) \/ RequeueRun(w)
ExecutorStep(x) == \/ CommitPause(x) \/ Boot(x) \/ Finish(x) \/ FinishCancelled(x)
                   \/ FinishInterrupted(x) \/ LoseCommit(x) \/ Reconcile(x)
-----------------------------------------------------------------------------
(* The heartbeat of a worker finds its lease lost and interrupts its execution. *)
LeaseLost(w) ==
  /\ exec[w].pc \in Working
  /\ exec[w].stop = "no"
  /\ ~HeartbeatAnswers(w, RunOf(w))
  /\ exec' = [exec EXCEPT ![w].stop = "interrupt"]
  /\ UNCHANGED <<storeVars, queue>> /\ Calm

(* The Host stops a worker, or detaches the console, in the middle of a run. *)
StopExecutor(x) ==
  /\ exec[x].pc \in Working
  /\ exec[x].stop = "no"
  /\ Shock
  /\ exec' = [exec EXCEPT ![x].stop = "interrupt"]
  /\ UNCHANGED <<storeVars, queue, ingressVars, deliveryVars, deployment, cancel, orphaned>>

(* The authority or the definitions a run was planned with are not available. *)
ResumeFails(w) ==
  /\ Is(w, "resume")
  /\ Shock
  /\ Throws(w)
  /\ UNCHANGED <<storeVars, queue, ingressVars, deliveryVars, deployment, cancel, orphaned>>

(* runtime.cancel: aborts an execution in the process of the operator, then
   cancelPersisted with up to three attempts. *)
CancelRun(r) ==
  /\ Canceller \in Cast
  /\ cancel.pc = "idle"
  /\ record[r] # "absent"
  /\ Shock
  /\ cancel' = [cancel EXCEPT !.pc = "load", !.run = r]
  /\ exec' = [x \in Executors |->
                IF /\ Site[x] = Site[Canceller]
                   /\ exec[x].pc \in {"boot", "work"}
                   /\ RunOf(x) = r
                   /\ exec[x].stop = "no"
                THEN [exec[x] EXCEPT !.stop = "cancel"] ELSE exec[x]]
  /\ UNCHANGED <<storeVars, queue, ingressVars, deliveryVars, deployment, orphaned>>

CancelLoads ==
  LET r == cancel.run
  IN /\ cancel.pc = "load"
     /\ IF record[r] \in Terminal
        THEN /\ cancel' = [cancel EXCEPT !.pc = "answered", !.answer = record[r]]
             /\ UNCHANGED storeVars
        ELSE /\ LoadRun(Canceller, r)
             /\ cancel' = [cancel EXCEPT !.pc = "commit"]
     /\ UNCHANGED <<queue, ingressVars, deliveryVars, deployment, exec, orphaned, shocks>>

CancelCommits ==
  LET r == cancel.run
  IN /\ cancel.pc = "commit"
     /\ \/ /\ Commit(Canceller, r, "cancelled")
           /\ cancel' = [cancel EXCEPT !.pc = "answered", !.answer = "cancelled"]
        \/ /\ Conflict(Canceller, r)
           /\ cancel' = IF cancel.tries < 2
                        THEN [cancel EXCEPT !.pc = "load", !.tries = @ + 1]
                        ELSE [cancel EXCEPT !.pc = "gaveup"]
           /\ UNCHANGED storeVars
     /\ UNCHANGED <<queue, ingressVars, deliveryVars, deployment, exec, orphaned, shocks>>

(* retryAttention takes up a record that is not delivered; a delivery of the same
   record in its process is joined, which adds no step. *)
Retry(r) ==
  /\ Retrier \in Cast
  /\ sending[Retrier].pc = "none"
  /\ outbox[r].status \in {"pending", "unknown"}
  /\ ~\E w \in Workers : Site[w] = Site[Retrier] /\ Sends(w, r)
  /\ Shock
  /\ StartDelivery(Retrier, r, outbox[r].payload)
  /\ UNCHANGED <<storeVars, queue, ingressVars, outbox, posts, deployment, exec, cancel, orphaned>>

SendStep(d) ==
  /\ Send(d)
  /\ UNCHANGED <<storeVars, queue, ingressVars, hostVars>>

(* A process dies, with the calls and executions in it. A worker that has released its
   row and not enqueued the run again leaves it in no queue, as does a console. *)
Crash(p) ==
  LET dead == {x \in Executors : Site[x] = p}
      calling == {c \in Callers : Site[c] = p}
      dying == {x \in dead : IF x = Console THEN exec[x].pc \in {"boot", "work", "ended"}
                             ELSE exec[x].pc \in {"check", "requeue"}}
  IN /\ Shock
     /\ exec' = [x \in Executors |-> IF x \in dead THEN AtRest(x) ELSE exec[x]]
     /\ cancel' = IF Site[Canceller] = p THEN [cancel EXCEPT !.pc = "idle", !.tries = 0] ELSE cancel
     /\ SendersDie({d \in Deliverers : Site[d] = p})
     /\ CallsDie(calling)
     /\ seen' = Dropped(dead \cup calling \cup {a \in {Canceller} : Site[a] = p})
     /\ orphaned' = orphaned \cup {r \in Runs : record[r] = "running" /\ \E x \in dying : RunOf(x) = r}
     /\ UNCHANGED <<record, queue, flaw, ingress, inbox, arrivals, outbox, posts, deployment>>

(* The lease of a worker that died runs out, and that of a live one when its
   heartbeats are late. *)
DeadLeaseRunsOut(w) ==
  /\ \E r \in Runs : Expire(w, r) /\ ~(exec[w].pc # "idle" /\ RunOf(w) = r)
  /\ UNCHANGED <<storeVars, ingressVars, deliveryVars, hostVars>>

HeartbeatLate(w) ==
  /\ exec[w].pc # "idle"
  /\ Expire(w, RunOf(w))
  /\ Shock
  /\ UNCHANGED <<storeVars, ingressVars, deliveryVars, deployment, exec, cancel, orphaned>>

Arrival(c) == \E e \in Events \cap Cast : /\ arrivals[e] < deployment.ingests
                                           /\ Ingest(c, e)
                                           /\ UNCHANGED <<deliveryVars, hostVars>>

CallStep(c) == Serve(c) /\ UNCHANGED <<deliveryVars, hostVars>>

Recovery(c) == RecoverPending(c) /\ UNCHANGED <<deliveryVars, hostVars>>

Outage(c) == /\ Shock
             /\ LaunchFails(c)
             /\ UNCHANGED <<deliveryVars, deployment, exec, cancel, orphaned>>

Next ==
  \/ \E c \in Callers \cap Cast : Arrival(c) \/ CallStep(c) \/ Recovery(c) \/ Outage(c)
  \/ \E w \in Workers \cap Cast : \/ WorkerStep(w) \/ LeaseLost(w) \/ ResumeFails(w)
                        \/ DeadLeaseRunsOut(w) \/ HeartbeatLate(w)
  \/ \E x \in Executors \cap Cast : ExecutorStep(x) \/ Progress(x) \/ StopExecutor(x)
  \/ \E r \in Runs : ResumePaused(r) \/ CancelRun(r) \/ Retry(r)
  \/ CancelLoads \/ CancelCommits
  \/ \E d \in Deliverers \cap Cast : SendStep(d)
  \/ \E p \in Processes : Crash(p)

Spec == Init /\ [][Next]_vars

(* Processes that live get on with what they do; workers go on asking for work,
   leases of the dead run out, and the Host goes on calling recoverPending
   (docs/security.md:30). Nothing makes the environment or the operator act. *)
FairSpec ==
  /\ Spec
  /\ \A c \in Callers : WF_vars(c \in Cast /\ (CallStep(c) \/ Recovery(c)))
  /\ \A w \in Workers : /\ WF_vars(w \in Cast /\ (WorkerStep(w) \/ ExecutorStep(w) \/ SendStep(w)))
                        /\ WF_vars(w \in Cast /\ DeadLeaseRunsOut(w))
  /\ WF_vars(Console \in Cast /\ ExecutorStep(Console))
  /\ WF_vars(Retrier \in Cast /\ SendStep(Retrier))
-----------------------------------------------------------------------------
(* An event that is marked launched has a run in the store: no crash, lost launch or
   concurrent recovery closes the event first (ingress.ts:48, docs/security.md:30).  And a
   run that is running is in the queue, or somebody is about to put it there: the call
   that launches it, the recovery of its event, or the worker that has just released it.
   The exceptions are runs whose worker dies in between, and runs an operator takes up
   without a queue (coordinator.ts:89, runtime.ts:201). *)
NoRunForgotten ==
  /\ \A e \in Events : ingress[e] = "launched" => record[e] # "absent"
  /\ \A r \in Runs : record[r] = "running" =>
       \/ Queued(r)
       \/ ingress[r] = "received"
       \/ \E x \in Executors : exec[x].pc # "idle" /\ RunOf(x) = r
       \/ r \in orphaned

(* The outcome a cancellation reports is the durable one, now and later, whoever
   else was committing (runtime.ts:472). *)
CancelTellsTruth ==
  cancel.pc = "answered" => record[cancel.run] = cancel.answer

(* What the store says of a run follows the promise of a durable record, whoever
   executes, cancels, resumes or launches it again. *)
Durable(r) == INSTANCE DurableRun WITH Nodes <- {}, status <- record[r], attempts <- <<>>
RecordsAreDurable ==
  /\ \A r \in Runs : Durable(r)!DRInit
  /\ [][\A r \in Runs : Durable(r)!DRNext \/ UNCHANGED record[r]]_record

(* An event that was accepted is launched or rejected in the end, unless there is an
   event whose launch always throws among those recoverPending goes through
   (ingress.ts:31). *)
EventsAreLaunched ==
  \A e \in Events : ingress[e] = "received" ~>
    \/ ingress[e] \in {"launched", "rejected"}
    \/ \E p \in Events : flaw[p] = "poison" /\ ingress[p] = "received"

(* Where there is a worker, a run that is running and whose event is launched comes to
   rest: completed, failed, cancelled or paused, whatever dies on the way
   (coordinator.ts:89). *)
RunsComeToRest ==
  \A r \in Runs : (record[r] = "running" /\ ingress[r] = "launched" /\ Workers \cap Cast # {})
                  ~> (record[r] # "running" \/ r \in orphaned)

(* README.md:306: a worker delivers the terminal state of a run after the run has
   entered it. *)
DeliveredOutcomeIsDurable ==
  \A r \in Runs : outbox[r].status # "none" => record[r] = outbox[r].payload
=============================================================================
