-------------------------- MODULE DagEngineProofs --------------------------
(***************************************************************************)
(* Theorems about DagEngine, for every workflow graph, every number of     *)
(* executors and every bound: its types, and what happens to Host code.    *)
(***************************************************************************)
EXTENDS DagEngine, TLAPS, FiniteSetTheorems, SequenceTheorems

\* What the graph is assumed to be, conjunct by conjunct.
LEMMA GraphFacts ==
    /\ IsFiniteSet(Nodes)
    /\ Start \in Nodes
    /\ Src \in [Edges -> Nodes]
    /\ Dst \in [Edges -> Nodes]
    /\ Rank \in [Nodes -> Nat]
    /\ \A m, n \in Nodes : Rank[m] = Rank[n] => m = n
    /\ \A e \in Edges : Rank[Src[e]] < Rank[Dst[e]]
    /\ \A e \in Edges : Dst[e] # Start
  BY GraphAssumption DEF GraphAssumption, IsWorkflowGraph

(***************************************************************************)
(* The transitions of the in-memory state yield states of the right type.  *)
(***************************************************************************)

\* The initial state of a run is a checkpoint (createInitialState).
LEMMA InitialStateType == InitialState \in Checkpoint
  BY GraphFacts DEF InitialState, Checkpoint, NodeStatus, EdgeStatus, RunStatus

\* Marking nodes with a status keeps node states well typed.
LEMMA MarkType ==
  ASSUME NEW f \in [Nodes -> NodeStatus], NEW S, NEW v \in NodeStatus
  PROVE  Mark(f, S, v) \in [Nodes -> NodeStatus]
  BY DEF Mark

\* Launching nodes keeps the state well typed: a batch is finite (the loop at engine.ts:567).
LEMMA LaunchedType ==
  ASSUME NEW s \in Checkpoint, NEW B \in SUBSET Nodes
  PROVE  Launched(s, B) \in Checkpoint
  <1> DEFINE busy  == [n \in Nodes |-> IF n \notin B THEN s.nodes[n]
                                         ELSE IF n \in HumanWait THEN "waiting" ELSE "running"]
             count == [n \in Nodes |-> IF n \in B THEN s.attempts[n] + 1 ELSE s.attempts[n]]
             runs  == s.nodeRuns + Cardinality(B)
  <1>1. runs \in Nat
    <2>1. Cardinality(B) \in Nat
      BY GraphFacts, FS_Subset, FS_CardinalityType
    <2> QED
      BY <2>1 DEF Checkpoint
  <1>2. busy \in [Nodes -> NodeStatus]
    BY DEF Checkpoint, NodeStatus
  <1>3. count \in [Nodes -> Nat]
    BY DEF Checkpoint
  <1>4. Launched(s, B) =
          [s EXCEPT !.nodes = busy, !.attempts = count, !.ready = s.ready \ B, !.nodeRuns = runs]
    BY DEF Launched
  <1> HIDE DEF busy, count, runs
  <1> QED
    BY <1>1, <1>2, <1>3, <1>4 DEF Checkpoint

\* Settling edges keeps the state well typed (settleOutgoingEdges).
LEMMA EdgesSettledType ==
  ASSUME NEW s \in Checkpoint, NEW n \in Nodes, NEW sel, NEW S \in SUBSET Nodes
  PROVE  EdgesSettled(s, n, sel, S) \in Checkpoint
  <1> DEFINE woken == NewlyReady(s.nodes, s.edges, n, sel, S)
             marked == Mark(Mark(s.nodes, S, "skipped"), woken, "ready")
             decided == EdgesAfter(s.edges, n, sel, S)
  <1>1. woken \in SUBSET Nodes
    BY DEF NewlyReady, Resolved
  <1>2. marked \in [Nodes -> NodeStatus]
    BY MarkType DEF Checkpoint, NodeStatus
  <1>3. decided \in [Edges -> EdgeStatus]
    BY DEF EdgesAfter, Checkpoint, EdgeStatus
  <1>4. EdgesSettled(s, n, sel, S) =
          [s EXCEPT !.nodes = marked, !.edges = decided, !.ready = s.ready \cup woken]
    BY DEF EdgesSettled
  <1> QED
    BY <1>1, <1>2, <1>3, <1>4 DEF Checkpoint

\* Putting a node back keeps the state well typed.
LEMMA RequeuedType ==
  ASSUME NEW s \in Checkpoint, NEW n \in Nodes
  PROVE  Requeued(s, n) \in Checkpoint
  BY DEF Requeued, Checkpoint, NodeStatus

\* Each way to finish a run keeps the state well typed.
LEMMA FinishType ==
  ASSUME NEW s \in Checkpoint, NEW act \in SUBSET Nodes, NEW asFailure
  PROVE  /\ FinishFailed(s, act) \in Checkpoint
         /\ FinishCancelled(s, asFailure) \in Checkpoint
         /\ FinishPaused(s, act) \in Checkpoint
         /\ CancelledByCall(s) \in Checkpoint
  <1>0. {"cancelled", "needs_attention", "ready"} \subseteq NodeStatus
    BY DEF NodeStatus
  <1>1. \A S : Mark(s.nodes, S, "cancelled") \in [Nodes -> NodeStatus]
    BY <1>0, MarkType DEF Checkpoint
  <1>2. \A S, T : Mark(Mark(s.nodes, S, "needs_attention"), T, "ready") \in [Nodes -> NodeStatus]
    BY <1>0, MarkType DEF Checkpoint
  <1>3. FinishFailed(s, act) \in Checkpoint
    BY <1>1 DEF FinishFailed, Checkpoint, RunStatus
  <1>4. FinishCancelled(s, asFailure) \in Checkpoint
    BY <1>1 DEF FinishCancelled, Checkpoint, RunStatus
  <1>5. FinishPaused(s, act) \in Checkpoint
    BY <1>2 DEF FinishPaused, Checkpoint, RunStatus
  <1>6. CancelledByCall(s) \in Checkpoint
    BY <1>1 DEF CancelledByCall, Checkpoint, RunStatus
  <1> QED
    BY <1>3, <1>4, <1>5, <1>6

\* What a resume computes is well typed, whatever the operator decides.
LEMMA RecoveredType ==
  ASSUME NEW s \in Checkpoint, NEW R \in SUBSET Unsettled(s), NEW F \in SUBSET Unsettled(s)
  PROVE  /\ Recovered(s, R, F) \in Checkpoint
         /\ Retried(s, R, F) \in SUBSET Nodes
  <1> DEFINE again == Retried(s, R, F)
             stuck == Unsettled(s) \ (again \cup F)
             marked == Mark(Mark(Mark(s.nodes, again, "ready"), F, "failed"), stuck, "needs_attention")
             outcome == IF F # {} THEN "failed" ELSE IF stuck # {} THEN "paused" ELSE "running"
  <1>1. again \in SUBSET Nodes
    BY DEF Retried, Unsettled
  <1>2. marked \in [Nodes -> NodeStatus]
    BY MarkType DEF Checkpoint, NodeStatus
  <1>3. Recovered(s, R, F) =
          [s EXCEPT !.nodes = marked, !.ready = s.ready \cup again, !.status = outcome]
    BY DEF Recovered
  <1>4. outcome \in RunStatus
    BY DEF RunStatus
  <1> HIDE DEF marked, again, outcome
  <1>5. Recovered(s, R, F) \in Checkpoint
    BY <1>1, <1>2, <1>3, <1>4 DEF Checkpoint
  <1> QED
    BY <1>1, <1>5 DEF again

(***************************************************************************)
(* The parts actions share keep the variables they change well typed.      *)
(***************************************************************************)

\* Jobs of commitTail.
LEMMA JobType ==
  /\ MainJob \in Job /\ <<MainJob>> \in Seq(Job)
  /\ \A n \in Nodes, k \in {"request", "capfail", "progress"} :
        <<[kind |-> k, node |-> n]>> \in Seq(Job)
  BY GraphFacts DEF MainJob, Job

\* Queueing a commit.
LEMMA QueueType ==
  ASSUME TypeOK, NEW x \in Executors, NEW jobs \in Seq(Job), NEW s \in Checkpoint,
         Queue(x, jobs, s)
  PROVE  /\ fifo' \in [Executors -> Seq(Job)]
         /\ sent' \in [Executors -> SUBSET Checkpoint]
  <1>1. fifo[x] \o jobs \in Seq(Job)
    BY DEF TypeOK
  <1> QED
    BY <1>1 DEF TypeOK, Queue, Sending

\* The next commit of the queue takes its turn.
LEMMA DequeueType ==
  ASSUME TypeOK, NEW x \in Executors, NEW rest \in Seq(Job), NEW s \in Checkpoint,
         Dequeue(x, rest, s)
  PROVE  /\ fifo' \in [Executors -> Seq(Job)]
         /\ sent' \in [Executors -> SUBSET Checkpoint]
  BY DEF TypeOK, Dequeue, Sending

\* A new #execute call.
LEMMA EnterType ==
  ASSUME TypeOK, NEW x \in Executors, NEW s \in Checkpoint, NEW at \in PCs, NEW r \in Reasons,
         Enter(x, s, at, r)
  PROVE  /\ mem' \in [Executors -> Checkpoint]
         /\ pc' \in [Executors -> PCs]
         /\ why' \in [Executors -> Reasons]
         /\ focus' \in [Executors -> SUBSET Nodes]
         /\ task' \in [Executors -> [Nodes -> Tasks]]
         /\ fifo' \in [Executors -> Seq(Job)]
         /\ sent' \in [Executors -> SUBSET Checkpoint]
         /\ abort' \in [Executors -> Aborts]
         /\ late' \in [Executors -> SUBSET Nodes]
  <1>1. NoTasks \in [Nodes -> Tasks]
    BY DEF NoTasks, Tasks
  <1>2. fifo' \in [Executors -> Seq(Job)]
    BY JobType DEF TypeOK, Enter
  <1> QED
    BY <1>1, <1>2 DEF TypeOK, Enter, SetMem, SetPC, Aborts

\* Main goes on to settle or to finish.
LEMMA GoType ==
  ASSUME TypeOK, NEW x \in Executors, NEW s \in Checkpoint, NEW r \in Reasons
  PROVE  /\ GoSettle(x, s, r) => /\ mem' \in [Executors -> Checkpoint]
                                 /\ pc' \in [Executors -> PCs]
                                 /\ why' \in [Executors -> Reasons]
         /\ GoFinish(x, s, r) => /\ mem' \in [Executors -> Checkpoint]
                                 /\ pc' \in [Executors -> PCs]
                                 /\ why' \in [Executors -> Reasons]
                                 /\ fifo' \in [Executors -> Seq(Job)]
                                 /\ sent' \in [Executors -> SUBSET Checkpoint]
  <1>1. GoFinish(x, s, r) => /\ fifo' \in [Executors -> Seq(Job)]
                             /\ sent' \in [Executors -> SUBSET Checkpoint]
    BY JobType, QueueType DEF GoFinish
  <1>2. {"settle", "finish"} \subseteq PCs
    BY DEF PCs
  <1>3. SetMem(x, s) => mem' \in [Executors -> Checkpoint]
    BY DEF TypeOK, SetMem
  <1>4. SetPC(x, "settle") \/ SetPC(x, "finish") => pc' \in [Executors -> PCs]
    BY <1>2 DEF TypeOK, SetPC
  <1>5. why' = [why EXCEPT ![x] = r] => why' \in [Executors -> Reasons]
    BY DEF TypeOK
  <1>6. GoSettle(x, s, r) => SetMem(x, s) /\ SetPC(x, "settle") /\ why' = [why EXCEPT ![x] = r]
    BY DEF GoSettle
  <1>7. GoFinish(x, s, r) => SetMem(x, s) /\ SetPC(x, "finish") /\ why' = [why EXCEPT ![x] = r]
    BY DEF GoFinish
  <1> QED
    BY <1>1, <1>3, <1>4, <1>5, <1>6, <1>7

\* The next sequence number.
LEMMA NextSeqType ==
  ASSUME NEW c \in Checkpoint
  PROVE  [c EXCEPT !.seq = @ + 1] \in Checkpoint
  <1> DEFINE k == c.seq + 1
  <1>1. k \in Nat
    BY DEF Checkpoint
  <1> HIDE DEF k
  <1>2. [c EXCEPT !.seq = k] \in Checkpoint
    BY <1>1 DEF Checkpoint
  <1> QED
    BY <1>2 DEF k

\* A commit the store accepts.
LEMMA StoreType ==
  ASSUME TypeOK, NEW x \in Executors, NEW rest \in Seq(Job), Store(x, rest)
  PROVE  /\ db' \in Checkpoint
         /\ mem' \in [Executors -> Checkpoint]
         /\ fifo' \in [Executors -> Seq(Job)]
         /\ sent' \in [Executors -> SUBSET Checkpoint]
  <1> DEFINE s == [mem[x] EXCEPT !.seq = @ + 1]
  <1>1. \A c \in Checkpoint : [c EXCEPT !.seq = @ + 1] \in Checkpoint
    BY NextSeqType
  <1>2. mem[x] \in Checkpoint /\ s \in Checkpoint /\ sent[x] \in SUBSET Checkpoint
    BY <1>1 DEF TypeOK
  <1> HIDE DEF s
  <1>3. db' \in Checkpoint
    BY <1>1, <1>2 DEF Store
  <1>4. mem' \in [Executors -> Checkpoint]
    BY <1>2 DEF Store, SetMem, TypeOK, s
  <1>5. Dequeue(x, rest, s)
    BY DEF Store, s
  <1> QED
    BY <1>2, <1>3, <1>4, <1>5, DequeueType

\* Host calls are counted by attempts.
LEMMA HostCalledType ==
  ASSUME TypeOK, NEW S \in SUBSET Nodes, NEW s \in Checkpoint, HostCalled(S, s)
  PROVE  hosted' \in [Nodes -> SUBSET Nat] /\ doubled' \in SUBSET Nodes
  BY DEF TypeOK, HostCalled, Checkpoint

\* An abort rejects the pending Host calls.
LEMMA AbortedTasksType ==
  ASSUME TypeOK, NEW x \in Executors
  PROVE  AbortedTasks(x) \in [Nodes -> Tasks]
  BY DEF TypeOK, AbortedTasks, Tasks

(***************************************************************************)
(* Type correctness: one step per action.                                  *)
(***************************************************************************)

\* Using up one unit of a bound.
LEMMA UsedType ==
  ASSUME TypeOK
  PROVE  /\ [used EXCEPT !.resume = @ + 1] \in Bounds
         /\ [used EXCEPT !.crash = @ + 1] \in Bounds
         /\ [used EXCEPT !.abort = @ + 1] \in Bounds
         /\ [used EXCEPT !.report = @ + 1] \in Bounds
         /\ [used EXCEPT !.fault = @ + 1] \in Bounds
  <1>1. used \in Bounds
    BY DEF TypeOK
  <1>2. \A k \in Nat : /\ [used EXCEPT !.resume = k] \in Bounds
                       /\ [used EXCEPT !.crash = k] \in Bounds
                       /\ [used EXCEPT !.abort = k] \in Bounds
                       /\ [used EXCEPT !.report = k] \in Bounds
                       /\ [used EXCEPT !.fault = k] \in Bounds
    BY <1>1 DEF Bounds
  <1>3. {used.resume + 1, used.crash + 1, used.abort + 1, used.report + 1, used.fault + 1}
           \subseteq Nat
    BY <1>1 DEF Bounds
  <1> QED
    BY <1>2, <1>3

\* Entering a run keeps the variables well typed (start, resume, cancel).
LEMMA TypeEntering ==
  ASSUME TypeOK, NEW x \in Executors, Recover(x) \/ Resume(x) \/ Cancel(x)
  PROVE  TypeOK'
  <1>1. ASSUME NEW R \in SUBSET Unsettled(db), NEW F \in SUBSET Unsettled(db),
               EnterRecovered(x, R, F), used' \in Bounds
        PROVE  TypeOK'
    <2>1. Recovered(db, R, F) \in Checkpoint /\ Retried(db, R, F) \in SUBSET Nodes
      BY <1>1, RecoveredType DEF TypeOK
    <2>2. allowed' \in [Nodes -> Nat]
      BY <1>1 DEF EnterRecovered, TypeOK
    <2>3. \E at \in {"boot", "finish"}, r \in {"none", "fail", "pause"} :
             Enter(x, Recovered(db, R, F), at, r)
      BY <1>1 DEF EnterRecovered
    <2>4. {"boot", "finish"} \subseteq PCs /\ {"none", "fail", "pause"} \subseteq Reasons
      BY DEF PCs, Reasons
    <2>5. UNCHANGED <<db, hosted, doubled>>
      BY <1>1 DEF EnterRecovered
    <2>6. PICK at \in PCs, r \in Reasons : Enter(x, Recovered(db, R, F), at, r)
      BY <2>3, <2>4
    <2> QED
      BY <1>1, <2>1, <2>2, <2>5, <2>6, EnterType DEF TypeOK
  <1>2. CASE Recover(x)
    <2>1. EnterRecovered(x, {}, {}) /\ used' = used
      BY <1>2 DEF Recover
    <2> QED
      BY <1>1, <2>1 DEF TypeOK
  <1>3. CASE Resume(x)
    <2>1. used' \in Bounds
      BY <1>3, UsedType DEF Resume
    <2>2. PICK R, F \in SUBSET Unsettled(db) : EnterRecovered(x, R, F)
      BY <1>3 DEF Resume
    <2> QED
      BY <1>1, <2>1, <2>2
  <1>4. CASE Cancel(x)
    <2>1. used' \in Bounds
      BY <1>4, UsedType DEF Cancel
    <2>2. Enter(x, CancelledByCall(db), "finish", "cancel")
      BY <1>4 DEF Cancel
    <2>3. CancelledByCall(db) \in Checkpoint
      BY FinishType DEF TypeOK
    <2>4. "finish" \in PCs /\ "cancel" \in Reasons
      BY DEF PCs, Reasons
    <2>5. UNCHANGED <<db, historyVars>>
      BY <1>4 DEF Cancel
    <2> QED
      BY <2>1, <2>2, <2>3, <2>4, <2>5, EnterType DEF TypeOK, historyVars
  <1> QED
    BY <1>2, <1>3, <1>4

\* The scheduling loop keeps the variables well typed (engine.ts:561-628 and 703-721).
LEMMA TypeLoop ==
  ASSUME TypeOK, NEW x \in Executors,
         LaunchBatch(x) \/ ExceedNodeRuns(x) \/ AwaitNodes(x) \/ StopAborted(x) \/ EndOfRun(x)
  PROVE  TypeOK'
  <1>0. mem[x] \in Checkpoint
    BY DEF TypeOK
  <1>1. \A k : First(k, mem[x].ready) \in SUBSET Nodes
    BY <1>0 DEF First, Checkpoint
  <1>2. \A B \in SUBSET Nodes : Launched(mem[x], B) \in Checkpoint
    BY <1>0, LaunchedType
  <1>3. CASE LaunchBatch(x)
    <2> DEFINE batch == Launchable(x)
    <2>1. batch \in SUBSET Nodes /\ Launched(mem[x], batch) \in Checkpoint
      BY <1>1, <1>2 DEF Launchable
    <2>2. Queue(x, <<MainJob>>, Launched(mem[x], batch))
      BY <1>3 DEF LaunchBatch
    <2>3. mem' \in [Executors -> Checkpoint] /\ pc' \in [Executors -> PCs]
          /\ focus' \in [Executors -> SUBSET Nodes]
      BY <1>3, <2>1 DEF LaunchBatch, SetMem, SetPC, TypeOK, PCs
    <2>4. UNCHANGED <<db, why, task, abort, late, historyVars, used>>
      BY <1>3 DEF LaunchBatch
    <2> QED
      BY <2>1, <2>2, <2>3, <2>4, JobType, QueueType DEF TypeOK, historyVars
  <1>4. CASE ExceedNodeRuns(x)
    <2> DEFINE s == Launched(mem[x], First(Room(x), mem[x].ready))
    <2>1. s \in Checkpoint
      BY <1>1, <1>2
    <2>2. GoSettle(x, s, "fail") /\ UNCHANGED <<db, focus, fifo, sent, late, historyVars, used>>
      BY <1>4 DEF ExceedNodeRuns
    <2>3. abort' \in [Executors -> Aborts] /\ task' \in [Executors -> [Nodes -> Tasks]]
      BY <1>4, AbortedTasksType DEF ExceedNodeRuns, TypeOK, Aborts
    <2>4. "fail" \in Reasons
      BY DEF Reasons
    <2> QED
      BY <2>1, <2>2, <2>3, <2>4, GoType DEF TypeOK, historyVars
  <1>5. CASE AwaitNodes(x)
    BY <1>5 DEF AwaitNodes, SetPC, TypeOK, PCs, historyVars
  <1>6. ASSUME LeaveOrCancel(x), UNCHANGED <<db, focus, task, abort, late, historyVars, used>>
        PROVE  TypeOK'
    <2> DEFINE s == FinishCancelled(mem[x], abort[x] = "deadline")
    <2>1. s \in Checkpoint /\ "cancel" \in Reasons
      BY <1>0, FinishType DEF Reasons
    <2>2. CASE abort[x] = "interrupt"
      BY <1>6, <2>2 DEF LeaveOrCancel, SetPC, TypeOK, PCs, historyVars
    <2>3. CASE abort[x] # "interrupt"
      <3>1. GoFinish(x, s, "cancel")
        BY <1>6, <2>3 DEF LeaveOrCancel
      <3> QED
        BY <1>6, <2>1, <3>1, GoType DEF TypeOK, historyVars
    <2> QED
      BY <2>2, <2>3
  <1>7. CASE StopAborted(x)
    BY <1>6, <1>7 DEF StopAborted
  <1>8. CASE EndOfRun(x)
    <2>1. UNCHANGED <<db, focus, task, abort, late, historyVars, used>>
      BY <1>8 DEF EndOfRun
    <2>2. FinishFailed(mem[x], {}) \in Checkpoint
      BY <1>0, FinishType
    <2>3. [mem[x] EXCEPT !.status = "completed"] \in Checkpoint
      BY <1>0 DEF Checkpoint, RunStatus
    <2>4. {"fail", "completed"} \subseteq Reasons
      BY DEF Reasons
    <2>5. (\E s \in Checkpoint, r \in Reasons : GoFinish(x, s, r)) \/ LeaveOrCancel(x)
      BY <1>8, <2>2, <2>3, <2>4 DEF EndOfRun
    <2>6. ASSUME NEW s \in Checkpoint, NEW r \in Reasons, GoFinish(x, s, r)
          PROVE  TypeOK'
      BY <2>1, <2>6, GoType DEF TypeOK, historyVars
    <2> QED
      BY <1>6, <2>1, <2>5, <2>6
  <1> QED
    BY <1>3, <1>4, <1>5, <1>7, <1>8

\* Taking a settled promise keeps the variables well typed (engine.ts:628-702).
LEMMA TypeTake ==
  ASSUME TypeOK, NEW x \in Executors, NEW n \in Nodes,
         \/ TakeLost(x, n) \/ TakePause(x, n) \/ TakeAborted(x, n) \/ TakeRetry(x, n)
         \/ TakeFailure(x, n) \/ TakeInterrupted(x, n) \/ TakeSuccess(x, n)
  PROVE  TypeOK'
  <1>1. mem[x] \in Checkpoint
    BY DEF TypeOK
  <1>2. \A v \in NodeStatus : [mem[x] EXCEPT !.nodes[n] = v] \in Checkpoint
    BY <1>1 DEF Checkpoint
  <1>3. {"needs_attention", "cancelled", "failed", "succeeded"} \subseteq NodeStatus
    BY DEF NodeStatus
  <1>4. {"fail", "pause", "cancel", "interrupt"} \subseteq Reasons
    BY DEF Reasons
  <1>5. \A f \in [Nodes -> Tasks] : [f EXCEPT ![n] = "none"] \in [Nodes -> Tasks]
    BY DEF Tasks
  <1>6. \A t : Takes(x, n, t) => task' \in [Executors -> [Nodes -> Tasks]]
    BY <1>5 DEF Takes, TypeOK
  <1>7. task' = [task EXCEPT ![x] = [AbortedTasks(x) EXCEPT ![n] = "none"]]
           => task' \in [Executors -> [Nodes -> Tasks]]
    BY <1>5, AbortedTasksType DEF TypeOK
  <1>8. CASE TakeLost(x, n)
    BY <1>6, <1>8 DEF TakeLost, SetPC, TypeOK, PCs, historyVars
  <1>9. CASE TakePause(x, n)
    <2>1. GoSettle(x, [mem[x] EXCEPT !.nodes[n] = "needs_attention"], "pause")
      BY <1>9 DEF TakePause
    <2>2. abort' \in [Executors -> Aborts]
      BY <1>9 DEF TakePause, TypeOK, Aborts
    <2>3. UNCHANGED <<db, focus, fifo, sent, late, historyVars, used>>
      BY <1>9 DEF TakePause
    <2>4. task' \in [Executors -> [Nodes -> Tasks]]
      BY <1>7, <1>9 DEF TakePause
    <2> QED
      BY <1>2, <1>3, <1>4, <2>1, <2>2, <2>3, <2>4, GoType DEF TypeOK, historyVars
  <1>10. CASE TakeAborted(x, n)
    <2>1. \E s \in Checkpoint, r \in Reasons : GoSettle(x, s, r)
      BY <1>1, <1>2, <1>3, <1>4, <1>10 DEF TakeAborted
    <2>2. UNCHANGED <<db, focus, fifo, sent, abort, late, historyVars, used>>
      BY <1>10 DEF TakeAborted
    <2>3. task' \in [Executors -> [Nodes -> Tasks]]
      BY <1>6, <1>10 DEF TakeAborted
    <2> QED
      BY <2>1, <2>2, <2>3, GoType DEF TypeOK, historyVars
  <1>11. CASE TakeRetry(x, n)
    <2>1. Requeued(mem[x], n) \in Checkpoint
      BY <1>1, RequeuedType
    <2>2. Queue(x, <<MainJob>>, Requeued(mem[x], n))
      BY <1>11 DEF TakeRetry
    <2>3. mem' \in [Executors -> Checkpoint] /\ pc' \in [Executors -> PCs]
      BY <1>11, <2>1 DEF TakeRetry, SetMem, SetPC, TypeOK, PCs
    <2>4. UNCHANGED <<db, why, focus, abort, late, historyVars, used>>
      BY <1>11 DEF TakeRetry
    <2>5. task' \in [Executors -> [Nodes -> Tasks]]
      BY <1>6, <1>11 DEF TakeRetry
    <2> QED
      BY <2>1, <2>2, <2>3, <2>4, <2>5, JobType, QueueType DEF TypeOK, historyVars
  <1>12. CASE TakeFailure(x, n)
    <2>1. GoSettle(x, [mem[x] EXCEPT !.nodes[n] = "failed"], "fail")
      BY <1>12 DEF TakeFailure
    <2>2. abort' \in [Executors -> Aborts]
      BY <1>12 DEF TakeFailure, TypeOK, Aborts
    <2>3. UNCHANGED <<db, focus, fifo, sent, late, historyVars, used>>
      BY <1>12 DEF TakeFailure
    <2>4. task' \in [Executors -> [Nodes -> Tasks]]
      BY <1>7, <1>12 DEF TakeFailure
    <2> QED
      BY <1>2, <1>3, <1>4, <2>1, <2>2, <2>3, <2>4, GoType DEF TypeOK, historyVars
  <1>13. CASE TakeInterrupted(x, n)
    <2>1. GoSettle(x, mem[x], "interrupt")
      BY <1>13 DEF TakeInterrupted
    <2>2. UNCHANGED <<db, focus, fifo, sent, abort, late, historyVars, used>>
      BY <1>13 DEF TakeInterrupted
    <2>3. task' \in [Executors -> [Nodes -> Tasks]]
      BY <1>6, <1>13 DEF TakeInterrupted
    <2> QED
      BY <1>1, <1>4, <2>1, <2>2, <2>3, GoType DEF TypeOK, historyVars
  <1>14. CASE TakeSuccess(x, n)
    <2>1. mem' \in [Executors -> Checkpoint] /\ pc' \in [Executors -> PCs]
          /\ focus' \in [Executors -> SUBSET Nodes]
      BY <1>2, <1>3, <1>14 DEF TakeSuccess, SetMem, SetPC, TypeOK, PCs
    <2>2. UNCHANGED <<db, why, fifo, sent, abort, late, historyVars, used>>
      BY <1>14 DEF TakeSuccess
    <2>3. task' \in [Executors -> [Nodes -> Tasks]]
      BY <1>6, <1>14 DEF TakeSuccess
    <2> QED
      BY <2>1, <2>2, <2>3 DEF TypeOK, historyVars
  <1> QED
    BY <1>8, <1>9, <1>10, <1>11, <1>12, <1>13, <1>14

\* The capture of an output and settleActive keep the variables well typed.
LEMMA TypeSettling ==
  ASSUME TypeOK, NEW x \in Executors, NEW n \in Nodes,
         CaptureReturns(x, n) \/ CaptureThrows(x, n) \/ Settle(x)
  PROVE  TypeOK'
  <1>1. mem[x] \in Checkpoint
    BY DEF TypeOK
  <1>2. CASE CaptureReturns(x, n)
    <2>1. PICK sel \in Choices[n], S \in SUBSET {m \in Nodes : mem[x].nodes[m] = "pending"} :
             /\ SetMem(x, EdgesSettled(mem[x], n, sel, S))
             /\ Queue(x, <<MainJob>>, EdgesSettled(mem[x], n, sel, S))
      BY <1>2 DEF CaptureReturns
    <2>2. EdgesSettled(mem[x], n, sel, S) \in Checkpoint
      BY <1>1, EdgesSettledType
    <2>3. mem' \in [Executors -> Checkpoint] /\ pc' \in [Executors -> PCs]
      BY <1>2, <2>1, <2>2 DEF CaptureReturns, SetMem, SetPC, TypeOK, PCs
    <2>4. UNCHANGED <<db, why, focus, task, abort, late, historyVars, used>>
      BY <1>2 DEF CaptureReturns
    <2> QED
      BY <2>1, <2>2, <2>3, <2>4, JobType, QueueType DEF TypeOK, historyVars
  <1>3. CASE CaptureThrows(x, n)
    <2>1. [mem[x] EXCEPT !.nodes[n] = "failed"] \in Checkpoint
      BY <1>1 DEF Checkpoint, NodeStatus
    <2>2. GoSettle(x, [mem[x] EXCEPT !.nodes[n] = "failed"], "fail") /\ "fail" \in Reasons
      BY <1>3 DEF CaptureThrows, Reasons
    <2>3. abort' \in [Executors -> Aborts] /\ task' \in [Executors -> [Nodes -> Tasks]]
      BY <1>3, AbortedTasksType DEF CaptureThrows, TypeOK, Aborts
    <2>4. UNCHANGED <<db, focus, fifo, sent, late, historyVars, used>>
      BY <1>3 DEF CaptureThrows
    <2> QED
      BY <2>1, <2>2, <2>3, <2>4, GoType DEF TypeOK, historyVars
  <1>4. CASE Settle(x)
    <2>1. UNCHANGED <<db, focus, abort, late, hosted, doubled, used>>
      BY <1>4 DEF Settle
    <2>2. task' \in [Executors -> [Nodes -> Tasks]]
      BY <1>4 DEF Settle, TypeOK, NoTasks, Tasks
    <2>3. allowed' \in [Nodes -> Nat]
      BY <1>4 DEF Settle, TypeOK
    <2>4. /\ FinishFailed(mem[x], Active(x)) \in Checkpoint
          /\ FinishCancelled(mem[x], abort[x] = "deadline") \in Checkpoint
          /\ FinishPaused(mem[x], Active(x)) \in Checkpoint
      BY <1>1, FinishType DEF Active
    <2>5. {"fail", "cancel", "pause"} \subseteq Reasons
      BY DEF Reasons
    <2>6. \/ \E s \in Checkpoint, r \in Reasons : GoFinish(x, s, r)
          \/ SetPC(x, "done") /\ UNCHANGED <<mem, why, fifo, sent>>
      BY <1>4, <2>4, <2>5 DEF Settle
    <2>7. CASE \E s \in Checkpoint, r \in Reasons : GoFinish(x, s, r)
      BY <2>1, <2>2, <2>3, <2>7, GoType DEF TypeOK
    <2>8. CASE SetPC(x, "done") /\ UNCHANGED <<mem, why, fifo, sent>>
      BY <2>1, <2>2, <2>3, <2>8 DEF TypeOK, SetPC, PCs
    <2> QED
      BY <2>6, <2>7, <2>8
  <1> QED
    BY <1>2, <1>3, <1>4

\* A non-empty queue has a first job and the rest of it.
LEMMA HeadTailJob ==
  ASSUME TypeOK, NEW x \in Executors, fifo[x] # <<>>
  PROVE  Head(fifo[x]) \in Job /\ Tail(fifo[x]) \in Seq(Job)
  BY HeadTailProperties DEF TypeOK

\* A promise changes its status.
LEMMA TaskType ==
  ASSUME TypeOK, NEW x \in Executors, NEW n \in Nodes, NEW v \in Tasks
  PROVE  [task EXCEPT ![x][n] = v] \in [Executors -> [Nodes -> Tasks]]
  BY DEF TypeOK

\* The requests of a batch, in the order of its launch, are jobs.
LEMMA RequestsType ==
  ASSUME NEW S \in SUBSET Nodes, NEW order \in Sorted(S)
  PROVE  [i \in DOMAIN order |-> [kind |-> "request", node |-> order[i]]] \in Seq(Job)
  <1>1. Cardinality(S) \in Nat
    BY GraphFacts, FS_Subset, FS_CardinalityType
  <1>2. order \in [1 .. Cardinality(S) -> S]
    BY DEF Sorted
  <1>3. [i \in DOMAIN order |-> [kind |-> "request", node |-> order[i]]]
           \in [1 .. Cardinality(S) -> Job]
    BY <1>2 DEF Job
  <1> QED
    BY <1>1, <1>3, IsASeq

\* Every answer of the store keeps the variables well typed.
LEMMA TypeCommits ==
  ASSUME TypeOK, NEW x \in Executors, Commits(x) \/ StoreFails(x)
  PROVE  TypeOK'
  <1>1. mem[x] \in Checkpoint
    BY DEF TypeOK
  <1>2. CASE DropReport(x)
    <2>1. Tail(fifo[x]) \in Seq(Job) /\ Dequeue(x, Tail(fifo[x]), mem[x])
      BY <1>2, HeadTailJob DEF DropReport
    <2>2. UNCHANGED <<db, mem, pc, why, focus, task, abort, late, historyVars, used>>
      BY <1>2 DEF DropReport
    <2> QED
      BY <1>1, <2>1, <2>2, DequeueType DEF TypeOK, historyVars
  <1>3. CASE StartBatch(x)
    <2>1. PICK bad \in SUBSET (focus[x] \cap MayFail) :
            LET asking == (focus[x] \cap External) \ bad
                direct == focus[x] \ (asking \cup bad)
            IN  /\ task' = [task EXCEPT ![x] = [n \in Nodes |->
                      IF n \in asking THEN "request"
                      ELSE IF n \in bad \/ (n \in direct /\ Aborted(x)) THEN "err"
                      ELSE IF n \in direct THEN "exec" ELSE task[x][n]]]
                /\ HostCalled(direct, mem[x])
                /\ \E order \in Sorted(asking) :
                      Store(x, Tail(fifo[x]) \o
                         [i \in DOMAIN order |-> [kind |-> "request", node |-> order[i]]])
      BY <1>3 DEF StartBatch
    <2> DEFINE asking == (focus[x] \cap External) \ bad
               direct == focus[x] \ (asking \cup bad)
    <2>2. asking \in SUBSET Nodes /\ direct \in SUBSET Nodes
      BY DEF TypeOK
    <2>3. PICK order \in Sorted(asking) :
             Store(x, Tail(fifo[x]) \o
                [i \in DOMAIN order |-> [kind |-> "request", node |-> order[i]]])
      BY <2>1
    <2> DEFINE requests == [i \in DOMAIN order |-> [kind |-> "request", node |-> order[i]]]
    <2>4. requests \in Seq(Job)
      BY <2>2, RequestsType
    <2>5. Tail(fifo[x]) \in Seq(Job)
      BY <1>3, HeadTailJob DEF StartBatch, InFlight, AtStore
    <2>6. task' \in [Executors -> [Nodes -> Tasks]]
      <3>1. [n \in Nodes |-> IF n \in asking THEN "request"
                ELSE IF n \in bad \/ (n \in direct /\ Aborted(x)) THEN "err"
                ELSE IF n \in direct THEN "exec" ELSE task[x][n]] \in [Nodes -> Tasks]
        BY DEF TypeOK, Tasks
      <3> QED
        BY <2>1, <3>1 DEF TypeOK
    <2>7. Store(x, Tail(fifo[x]) \o requests)
      BY <2>3
    <2>8. HostCalled(direct, mem[x])
      BY <2>1
    <2>9. UNCHANGED <<why, focus, abort, late, allowed, used>> /\ SetPC(x, "race")
      BY <1>3 DEF StartBatch
    <2> HIDE DEF asking, direct, requests
    <2>10. Tail(fifo[x]) \o requests \in Seq(Job)
      BY <2>4, <2>5
    <2>11. pc' \in [Executors -> PCs]
      BY <2>9 DEF SetPC, TypeOK, PCs
    <2>12. /\ db' \in Checkpoint
           /\ mem' \in [Executors -> Checkpoint]
           /\ fifo' \in [Executors -> Seq(Job)]
           /\ sent' \in [Executors -> SUBSET Checkpoint]
      BY <2>7, <2>10, StoreType
    <2>13. hosted' \in [Nodes -> SUBSET Nat] /\ doubled' \in SUBSET Nodes
      BY <1>1, <2>2, <2>8, HostCalledType
    <2> QED
      BY <2>6, <2>9, <2>11, <2>12, <2>13 DEF TypeOK
  <1>4. ASSUME Store(x, Tail(fifo[x])), fifo[x] # <<>>
        PROVE  /\ db' \in Checkpoint
               /\ mem' \in [Executors -> Checkpoint]
               /\ fifo' \in [Executors -> Seq(Job)]
               /\ sent' \in [Executors -> SUBSET Checkpoint]
    BY <1>4, HeadTailJob, StoreType
  <1>5. CASE MainCommitted(x)
    <2>1. pc' \in [Executors -> PCs]
      BY <1>5 DEF MainCommitted, SetPC, TypeOK, PCs
    <2>2. UNCHANGED <<why, focus, task, abort, late, historyVars, used>>
      BY <1>5 DEF MainCommitted
    <2>3. Store(x, Tail(fifo[x])) /\ fifo[x] # <<>>
      BY <1>5 DEF MainCommitted, InFlight, AtStore
    <2> QED
      BY <1>4, <2>1, <2>2, <2>3 DEF TypeOK, historyVars
  <1>6. CASE RequestCommitted(x)
    <2> DEFINE n == Head(fifo[x]).node
    <2>1. Store(x, Tail(fifo[x])) /\ fifo[x] # <<>>
      BY <1>6 DEF RequestCommitted, InFlight, AtStore
    <2>2. n \in Nodes
      BY <2>1, HeadTailJob DEF Job
    <2>3. task' \in [Executors -> [Nodes -> Tasks]]
      BY <1>6 DEF RequestCommitted, TypeOK, Tasks
    <2>4. HostCalled({n}, mem[x]) /\ UNCHANGED <<pc, why, focus, abort, late, allowed, used>>
      BY <1>6 DEF RequestCommitted
    <2>5. hosted' \in [Nodes -> SUBSET Nat] /\ doubled' \in SUBSET Nodes
      BY <1>1, <2>2, <2>4, HostCalledType
    <2> QED
      BY <1>4, <2>1, <2>3, <2>4, <2>5 DEF TypeOK
  <1>7. CASE FailureCommitted(x)
    <2>1. Store(x, Tail(fifo[x])) /\ fifo[x] # <<>>
      BY <1>7 DEF FailureCommitted, InFlight, AtStore
    <2>2. task' \in [Executors -> [Nodes -> Tasks]]
      BY <1>7 DEF FailureCommitted, TypeOK, Tasks
    <2>3. UNCHANGED <<pc, why, focus, abort, late, historyVars, used>>
      BY <1>7 DEF FailureCommitted
    <2> QED
      BY <1>4, <2>1, <2>2, <2>3 DEF TypeOK, historyVars
  <1>8. CASE ReportCommitted(x)
    <2>1. Store(x, Tail(fifo[x])) /\ fifo[x] # <<>>
      BY <1>8 DEF ReportCommitted, InFlight, AtStore
    <2>2. UNCHANGED <<pc, why, focus, task, abort, late, historyVars, used>>
      BY <1>8 DEF ReportCommitted
    <2> QED
      BY <1>4, <2>1, <2>2 DEF TypeOK, historyVars
  <1>9. ASSUME CommitRejected(x), used' \in Bounds, AtStore(x)
        PROVE  TypeOK'
    <2> DEFINE job == Head(fifo[x])
               after == IF job = MainJob /\ pc[x] \in {"boot", "finish"} /\ why[x] # "completed"
                        THEN [mem[x] EXCEPT !.status = "failed"] ELSE mem[x]
    <2>1. job \in Job /\ Tail(fifo[x]) \in Seq(Job)
      BY <1>9, HeadTailJob DEF AtStore
    <2>2. after \in Checkpoint
      BY <1>1 DEF Checkpoint, RunStatus
    <2>3. /\ SetMem(x, after) /\ Dequeue(x, Tail(fifo[x]), after)
          /\ UNCHANGED <<db, why, focus, abort, late, historyVars>>
      BY <1>9 DEF CommitRejected
    <2>4. pc' \in [Executors -> PCs] /\ task' \in [Executors -> [Nodes -> Tasks]]
      <3>1. SetPC(x, "done") \/ UNCHANGED pc
        BY <1>9 DEF CommitRejected
      <3>2. UNCHANGED task \/ task' = [task EXCEPT ![x][job.node] =
                                  IF job.kind # "progress" \/ @ = "exec" THEN "lost" ELSE @]
        BY <1>9 DEF CommitRejected
      <3>3. pc' \in [Executors -> PCs]
        BY <3>1 DEF TypeOK, SetPC, PCs
      <3>4. task' \in [Executors -> [Nodes -> Tasks]]
        <4> DEFINE v == IF job.kind # "progress" \/ task[x][job.node] = "exec"
                        THEN "lost" ELSE task[x][job.node]
        <4>1. UNCHANGED task \/ task' = [task EXCEPT ![x][job.node] = v]
          BY <3>2
        <4>2. job.node \in Nodes
          BY <2>1 DEF Job
        <4>3. v \in Tasks
          BY <4>2 DEF TypeOK, Tasks
        <4> HIDE DEF v, job
        <4>4. [task EXCEPT ![x][job.node] = v] \in [Executors -> [Nodes -> Tasks]]
          BY <4>2, <4>3, TaskType
        <4>5. task \in [Executors -> [Nodes -> Tasks]]
          BY DEF TypeOK
        <4> QED
          BY <4>1, <4>4, <4>5
      <3> QED
        BY <3>3, <3>4
    <2> HIDE DEF after
    <2>5. mem' \in [Executors -> Checkpoint]
      BY <2>2, <2>3 DEF SetMem, TypeOK
    <2> QED
      BY <1>9, <2>1, <2>2, <2>3, <2>4, <2>5, DequeueType DEF TypeOK, historyVars
  <1>10. CASE CommitConflicts(x)
    BY <1>9, <1>10 DEF CommitConflicts, TypeOK
  <1>11. CASE StoreFails(x)
    BY <1>9, <1>11, UsedType DEF StoreFails
  <1> QED
    BY <1>2, <1>3, <1>5, <1>6, <1>7, <1>8, <1>10, <1>11 DEF Commits

\* Whatever the Host does keeps the variables well typed.
LEMMA TypeHost ==
  ASSUME TypeOK, NEW x \in Executors, NEW n \in Nodes, Host(x, n) \/ Report(x, n)
  PROVE  TypeOK'
  <1>1. mem[x] \in Checkpoint
    BY DEF TypeOK
  <1>2. ASSUME NEW v \in {"failing", "pausing"}, NodeErrs(x, n, v)
        PROVE  /\ task' \in [Executors -> [Nodes -> Tasks]]
               /\ fifo' \in [Executors -> Seq(Job)]
               /\ sent' \in [Executors -> SUBSET Checkpoint]
    <2>1. task' \in [Executors -> [Nodes -> Tasks]]
      <3>1. \E w \in {v, "err"} : task' = [task EXCEPT ![x][n] = w]
        BY <1>2 DEF NodeErrs
      <3>2. {v, "err"} \subseteq Tasks
        BY DEF Tasks
      <3> QED
        BY <3>1, <3>2, TaskType
    <2>2. \/ Queue(x, <<[kind |-> "capfail", node |-> n]>>, mem[x])
          \/ UNCHANGED <<fifo, sent>>
      BY <1>2 DEF NodeErrs
    <2> QED
      BY <1>1, <2>1, <2>2, JobType, QueueType DEF TypeOK
  <1>3. CASE HostReturns(x, n)
    BY <1>3 DEF HostReturns, TypeOK, Tasks, historyVars
  <1>4. CASE HostThrows(x, n)
    <2>1. UNCHANGED <<db, mem, pc, why, focus, abort, late, historyVars, used>>
      BY <1>4 DEF HostThrows
    <2> QED
      BY <1>2, <1>4, <2>1 DEF HostThrows, TypeOK, historyVars
  <1>5. CASE HostTimesOut(x, n)
    <2>1. UNCHANGED <<db, mem, pc, why, focus, abort, historyVars, used>>
      BY <1>5 DEF HostTimesOut
    <2>2. late' \in [Executors -> SUBSET Nodes]
      BY <1>5 DEF HostTimesOut, TypeOK
    <2> QED
      BY <1>2, <1>5, <2>1, <2>2 DEF HostTimesOut, TypeOK, historyVars
  <1>6. CASE ChildPaused(x, n)
    <2>1. UNCHANGED <<db, mem, pc, why, focus, abort, late, historyVars, used>>
      BY <1>6 DEF ChildPaused
    <2> QED
      BY <1>2, <1>6, <2>1 DEF ChildPaused, TypeOK, historyVars
  <1>7. CASE Report(x, n)
    <2>1. Queue(x, <<[kind |-> "progress", node |-> n]>>, mem[x])
      BY <1>7 DEF Report
    <2>2. UNCHANGED <<db, mem, pc, why, focus, task, abort, late, historyVars>>
      BY <1>7 DEF Report
    <2>3. used' \in Bounds
      BY <1>7, UsedType DEF Report
    <2> QED
      BY <1>1, <2>1, <2>2, <2>3, JobType, QueueType DEF TypeOK, historyVars
  <1> QED
    BY <1>3, <1>4, <1>5, <1>6, <1>7 DEF Host

\* An abort, from whichever side, and a crash keep the variables well typed.
LEMMA TypeAbort ==
  ASSUME TypeOK, NEW x \in Executors,
         Crash(x) \/ \E kind \in {"cancel", "interrupt", "deadline"} : AbortRun(x, kind)
  PROVE  TypeOK'
  <1>1. CASE Crash(x)
    <2>1. Enter(x, InitialState, "idle", "none") /\ UNCHANGED <<db, historyVars>>
      BY <1>1 DEF Crash
    <2>2. "idle" \in PCs /\ "none" \in Reasons
      BY DEF PCs, Reasons
    <2>3. used' \in Bounds
      BY <1>1, UsedType DEF Crash
    <2> QED
      BY <2>1, <2>2, <2>3, InitialStateType, EnterType DEF TypeOK, historyVars
  <1>2. CASE \E kind \in {"cancel", "interrupt", "deadline"} : AbortRun(x, kind)
    <2>1. PICK kind \in {"cancel", "interrupt", "deadline"} : AbortRun(x, kind)
      BY <1>2
    <2>2. UNCHANGED <<db, mem, pc, why, focus, fifo, sent, late, historyVars>>
      BY <2>1 DEF AbortRun
    <2>3. abort' \in [Executors -> Aborts] /\ task' \in [Executors -> [Nodes -> Tasks]]
      BY <2>1, AbortedTasksType DEF AbortRun, TypeOK, Aborts
    <2>4. used' \in Bounds
      BY <2>1, UsedType DEF AbortRun
    <2> QED
      BY <2>2, <2>3, <2>4 DEF TypeOK, historyVars
  <1> QED
    BY <1>1, <1>2

\* The initial state is well typed.
LEMMA TypeInit == Init => TypeOK
  <1> SUFFICES ASSUME Init PROVE TypeOK
    OBVIOUS
  <1>1. mem \in [Executors -> Checkpoint] /\ db \in Checkpoint
    BY InitialStateType DEF Init
  <1>2. used \in Bounds
    BY DEF Init, Bounds
  <1> QED
    BY <1>1, <1>2 DEF Init, TypeOK, PCs, Reasons, NoTasks, Tasks, Aborts

\* Every step of the next-state relation preserves the types.
LEMMA TypeNext == TypeOK /\ [Next]_vars => TypeOK'
  <1> SUFFICES ASSUME TypeOK, [Next]_vars PROVE TypeOK'
    OBVIOUS
  <1>1. CASE UNCHANGED vars
    BY <1>1 DEF TypeOK, vars, executorVars, historyVars
  <1>2. CASE Next
    <2>1. PICK x \in Executors :
             \/ Recover(x) \/ Main(x) \/ Commits(x) \/ Environment(x)
             \/ \E n \in Nodes : Host(x, n)
      BY <1>2 DEF Next
    <2>2. CASE Recover(x)
      BY <2>2, TypeEntering
    <2>3. CASE Main(x)
      <3>1. CASE Settle(x)
        BY <3>1, GraphFacts, TypeSettling
      <3>2. CASE ~ Settle(x)
        BY <2>3, <3>2, TypeLoop, TypeTake, TypeSettling DEF Main
      <3> QED
        BY <3>1, <3>2
    <2>4. CASE Commits(x)
      BY <2>4, TypeCommits
    <2>5. CASE Environment(x)
      BY <2>5, TypeEntering, TypeCommits, TypeHost, TypeAbort DEF Environment
    <2>6. CASE \E n \in Nodes : Host(x, n)
      BY <2>6, TypeHost
    <2> QED
      BY <2>1, <2>2, <2>3, <2>4, <2>5, <2>6
  <1> QED
    BY <1>1, <1>2

\* In every reachable state all variables have their types: in particular no recovery,
\* retry, crash or conflict leaves a node, an edge or the run in a status that does not exist.
THEOREM TypeCorrect == Spec => []TypeOK
  BY TypeInit, TypeNext, PTL DEF Spec
-----------------------------------------------------------------------------
(***************************************************************************)
(* No attempt of a node calls the Host twice, and no attempt that did is   *)
(* ever forgotten: the inductive invariant behind NoAttemptRunsTwice and   *)
(* EffectsAreRecorded.                                                     *)
(***************************************************************************)
\* A queued commit belongs to what waits for it: main (which is at `at`), or one node's
\* promise (one of tasks).
JobOK(at, tasks, j) ==
    /\ j.kind = "main"    => j = MainJob /\ at \in Committing
    /\ j.kind = "request" => tasks[j.node] = "request"
    /\ j.kind = "capfail" => tasks[j.node] \in {"failing", "pausing"}

\* ... and only progress reports can be queued twice.
GoodQueue(at, tasks, q) ==
    /\ \A i \in 1 .. Len(q) : JobOK(at, tasks, q[i])
    /\ \A i, k \in 1 .. Len(q) : q[i] = q[k] /\ q[i].kind # "progress" => i = k

QueueOK(x) ==
    /\ GoodQueue(pc[x], task[x], fifo[x])
    /\ pc[x] = "idle" => fifo[x] = <<>> /\ task[x] = NoTasks /\ late[x] = {}

\* While main schedules, active nodes are busy and queued nodes are ready, so that
\* no node is launched while an attempt of it is active.
Scheduling == {"boot", "loop", "launch", "race", "capture", "advance"}

SchedulingOK(x) ==
    pc[x] \in Scheduling =>
        /\ \A n \in Active(x) : mem[x].nodes[n] \in Busy
        /\ \A n \in mem[x].ready : mem[x].nodes[n] = "ready"
        /\ pc[x] = "launch" =>
              \A n \in focus[x] : mem[x].nodes[n] \in Busy /\ task[x][n] = "none"

\* x has heard of every commit of the record: it is the only one that can extend it.
Current(x) == pc[x] # "idle" /\ mem[x].seq = db.seq

\* Attempt number of n that x has not yet called the Host for.
Uncalled(x, n) == mem[x].attempts[n] >= 1 /\ mem[x].attempts[n] \notin hosted[n]

\* A current executor counts on from the record, and what it is about to call is new.
CallsOK(x) ==
    Current(x) =>
        /\ \A n \in Nodes : db.attempts[n] <= mem[x].attempts[n]
        /\ \A s \in sent[x] : \A n \in Nodes :
              db.attempts[n] <= s.attempts[n] /\ s.attempts[n] <= mem[x].attempts[n]
        /\ \A n \in Nodes : task[x][n] = "request" => Uncalled(x, n)
        /\ pc[x] = "launch" => \A n \in focus[x] : Uncalled(x, n)
        /\ \A s \in sent[x] : fifo[x] # <<>> =>
              /\ Head(fifo[x]).kind = "main" => s.attempts = mem[x].attempts
              /\ Head(fifo[x]).kind = "request" =>
                    s.attempts[Head(fifo[x]).node] = mem[x].attempts[Head(fifo[x]).node]

\* No executor is ahead of the record, and the commit in flight is that of its state.
Abreast(x) ==
    /\ mem[x].seq <= db.seq
    /\ \A s \in sent[x] : s.seq = mem[x].seq

CallInv ==
    /\ TypeOK
    /\ \A x \in Executors : QueueOK(x) /\ SchedulingOK(x) /\ Abreast(x) /\ CallsOK(x)
    /\ EffectsAreRecorded
    /\ NoAttemptRunsTwice

(***************************************************************************)
(* A step is a step of one executor, and leaves the others' state alone.   *)
(***************************************************************************)
Step(x) ==
    \/ Recover(x) \/ Main(x) \/ Commits(x) \/ Environment(x)
    \/ \E n \in Nodes : Host(x, n)

Untouched(y) ==
    /\ mem'[y] = mem[y] /\ pc'[y] = pc[y] /\ why'[y] = why[y]
    /\ focus'[y] = focus[y] /\ task'[y] = task[y] /\ fifo'[y] = fifo[y]
    /\ sent'[y] = sent[y] /\ abort'[y] = abort[y] /\ late'[y] = late[y]

\* Whatever one executor does leaves the state of another one alone: they share
\* nothing but the record.
LEMMA OthersUntouched ==
  ASSUME TypeOK, NEW x \in Executors, NEW y \in Executors, x # y, Step(x)
  PROVE  Untouched(y)
  <1>1. ASSUME NEW s, NEW at, NEW r, Enter(x, s, at, r)
        PROVE  Untouched(y)
    BY <1>1 DEF Enter, Untouched, SetMem, SetPC, TypeOK
  <1>2. CASE Recover(x) \/ Resume(x) \/ Cancel(x) \/ Crash(x)
    <2>1. \E s, at, r : Enter(x, s, at, r)
      BY <1>2 DEF Recover, Resume, Cancel, Crash, EnterRecovered
    <2> QED
      BY <1>1, <2>1
  <1>3. ASSUME NEW s, NEW r, GoFinish(x, s, r)
        PROVE  mem'[y] = mem[y] /\ pc'[y] = pc[y] /\ why'[y] = why[y]
               /\ fifo'[y] = fifo[y] /\ sent'[y] = sent[y]
    BY <1>3 DEF GoFinish, Queue, SetMem, SetPC, TypeOK
  <1>4. ASSUME NEW s, NEW r, GoSettle(x, s, r)
        PROVE  mem'[y] = mem[y] /\ pc'[y] = pc[y] /\ why'[y] = why[y]
    BY <1>4 DEF GoSettle, SetMem, SetPC, TypeOK
  <1>5. CASE LaunchBatch(x) \/ ExceedNodeRuns(x) \/ AwaitNodes(x) \/ StopAborted(x)
    BY <1>3, <1>4, <1>5 DEF LaunchBatch, ExceedNodeRuns, AwaitNodes, StopAborted, LeaveOrCancel, Queue,
         SetMem, SetPC, Untouched, TypeOK
  <1>6. CASE EndOfRun(x)
    BY <1>3, <1>6 DEF EndOfRun, LeaveOrCancel, SetPC, Untouched, TypeOK
  <1>7. CASE Settle(x)
    <2>1. \/ \E s, r : GoFinish(x, s, r)
          \/ SetPC(x, "done") /\ UNCHANGED <<mem, why, fifo, sent>>
      BY <1>7 DEF Settle
    <2>2. task'[y] = task[y] /\ UNCHANGED <<focus, abort, late>>
      BY <1>7 DEF Settle, TypeOK
    <2> QED
      BY <1>3, <2>1, <2>2 DEF Untouched, SetPC, TypeOK
  <1>8. ASSUME NEW n \in Nodes,
               \/ TakeLost(x, n) \/ TakePause(x, n) \/ TakeAborted(x, n) \/ TakeRetry(x, n)
               \/ TakeFailure(x, n) \/ TakeInterrupted(x, n) \/ TakeSuccess(x, n)
        PROVE  Untouched(y)
    BY <1>4, <1>8 DEF TakeLost, TakePause, TakeAborted, TakeRetry, TakeFailure,
         TakeInterrupted, TakeSuccess, Takes, Queue, SetMem, SetPC, Untouched, TypeOK
  <1>9. ASSUME NEW n \in Nodes, CaptureReturns(x, n) \/ CaptureThrows(x, n)
        PROVE  Untouched(y)
    BY <1>4, <1>9 DEF CaptureReturns, CaptureThrows, Queue, SetMem, SetPC, Untouched, TypeOK
  <1>10. ASSUME NEW rest, Store(x, rest)
         PROVE  mem'[y] = mem[y] /\ fifo'[y] = fifo[y] /\ sent'[y] = sent[y]
    BY <1>10 DEF Store, Dequeue, SetMem, TypeOK
  <1>11. CASE StartBatch(x)
    <2>1. \E rest : Store(x, rest)
      BY <1>11 DEF StartBatch
    <2>2. task'[y] = task[y] /\ pc'[y] = pc[y] /\ UNCHANGED <<why, focus, abort, late>>
      BY <1>11 DEF StartBatch, SetPC, TypeOK
    <2> QED
      BY <1>10, <2>1, <2>2 DEF Untouched
  <1>12. CASE \/ MainCommitted(x) \/ RequestCommitted(x) \/ FailureCommitted(x)
              \/ ReportCommitted(x)
    BY <1>10, <1>12 DEF MainCommitted, RequestCommitted, FailureCommitted, ReportCommitted,
         SetPC, Untouched, TypeOK
  <1>13. CASE DropReport(x) \/ CommitConflicts(x) \/ StoreFails(x)
    BY <1>13 DEF DropReport, CommitConflicts, StoreFails, CommitRejected, Dequeue, SetMem,
         SetPC, Untouched, TypeOK
  <1>14. ASSUME NEW n \in Nodes, Host(x, n) \/ Report(x, n)
         PROVE  Untouched(y)
    BY <1>14 DEF Host, HostReturns, HostThrows, HostTimesOut, ChildPaused, NodeErrs, Report,
         Queue, Untouched, TypeOK
  <1>15. CASE \E kind \in {"cancel", "interrupt", "deadline"} : AbortRun(x, kind)
    BY <1>15 DEF AbortRun, Untouched, TypeOK
  <1> QED
    BY <1>2, <1>5, <1>6, <1>7, <1>8, <1>9, <1>11, <1>12, <1>13, <1>14, <1>15
       DEF Step, Main, Commits, Environment

(***************************************************************************)
(* QueueOK is preserved.                                                   *)
(***************************************************************************)
\* No promise that waits for a commit of its own changes.
KeepsWaiting(tasks, then) ==
    \A n \in Nodes : tasks[n] \in {"request", "failing", "pausing"} => then[n] = tasks[n]

\* The jobs of a queue are jobs.
LEMMA QueuedJob ==
  ASSUME NEW q \in Seq(Job), NEW i \in 1 .. Len(q)
  PROVE  q[i] \in Job /\ q[i].node \in Nodes
  <1>1. q[i] \in Job
    BY ElementOfSeq
  <1> QED
    BY <1>1 DEF Job

\* A job stays good when its promise is kept.
LEMMA JobKept ==
  ASSUME NEW at, NEW at2, NEW tasks, NEW tasks2, NEW j, j.node \in Nodes,
         JobOK(at, tasks, j), KeepsWaiting(tasks, tasks2),
         at \in Committing => at2 = at
  PROVE  JobOK(at2, tasks2, j)
  BY DEF JobOK, KeepsWaiting

\* A step that leaves the queue alone.
LEMMA QueueKept ==
  ASSUME NEW at, NEW at2, NEW tasks, NEW tasks2, NEW q \in Seq(Job),
         GoodQueue(at, tasks, q), KeepsWaiting(tasks, tasks2),
         at \in Committing => at2 = at
  PROVE  GoodQueue(at2, tasks2, q)
  BY QueuedJob, JobKept DEF GoodQueue

\* A step that queues one commit.
LEMMA QueueAppended ==
  ASSUME NEW at, NEW at2, NEW tasks, NEW tasks2, NEW q \in Seq(Job), NEW j \in Job,
         GoodQueue(at, tasks, q), KeepsWaiting(tasks, tasks2),
         at \in Committing => at2 = at,
         JobOK(at2, tasks2, j),
         j.kind # "progress" => \A i \in 1 .. Len(q) : q[i] # j
  PROVE  GoodQueue(at2, tasks2, q \o <<j>>)
  <1> DEFINE r == q \o <<j>>
  <1>0. <<j>> \in Seq(Job) /\ Len(q) \in Nat /\ Len(<<j>>) = 1
    BY LenProperties
  <1>1. /\ Len(r) = Len(q) + 1
        /\ \A i \in 1 .. Len(q) : r[i] = q[i]
        /\ r[Len(q) + 1] = j
    BY <1>0, ConcatProperties
  <1>2. GoodQueue(at2, tasks2, q)
    BY QueueKept
  <1>3. \A i \in 1 .. Len(r) : i \in 1 .. Len(q) \/ i = Len(q) + 1
    BY <1>0, <1>1
  <1> HIDE DEF r
  <1>4. \A i \in 1 .. Len(r) : JobOK(at2, tasks2, r[i])
    BY <1>1, <1>2, <1>3 DEF GoodQueue
  <1>5. \A i, k \in 1 .. Len(r) : r[i] = r[k] /\ r[i].kind # "progress" => i = k
    BY <1>1, <1>2, <1>3 DEF GoodQueue
  <1> QED
    BY <1>4, <1>5 DEF GoodQueue, r

\* A step that takes the first commit off the queue.
LEMMA QueueDequeued ==
  ASSUME NEW at, NEW at2, NEW tasks, NEW tasks2, NEW q \in Seq(Job), q # <<>>,
         GoodQueue(at, tasks, q),
         Head(q).kind # "main" => (at \in Committing => at2 = at),
         \A n \in Nodes : tasks[n] \in {"request", "failing", "pausing"} =>
            \/ tasks2[n] = tasks[n]
            \/ n = Head(q).node /\ Head(q).kind \in {"request", "capfail"}
  PROVE  GoodQueue(at2, tasks2, Tail(q))
  <1> DEFINE h == Head(q)
             r == Tail(q)
  <1>1. /\ Len(q) \in Nat /\ Len(q) >= 1 /\ h = q[1] /\ h \in Job
        /\ Len(r) = Len(q) - 1
        /\ \A i \in 1 .. Len(q) - 1 : r[i] = q[i + 1]
    BY LenProperties, HeadTailProperties, EmptySeq
  <1>2. JobOK(at, tasks, h) /\ 1 \in 1 .. Len(q)
    BY <1>1 DEF GoodQueue
  <1>3. ASSUME NEW i \in 1 .. Len(q) - 1
        PROVE  JobOK(at2, tasks2, q[i + 1])
    <2> DEFINE j == q[i + 1]
    <2>1. i + 1 \in 1 .. Len(q) /\ i + 1 # 1
      BY <1>1
    <2>2. JobOK(at, tasks, j) /\ j \in Job /\ j.node \in Nodes
      BY <2>1, QueuedJob DEF GoodQueue
    <2>3. j.kind # "progress" => j # h
      BY <1>1, <1>2, <2>1 DEF GoodQueue
    <2>4. j.kind = "main" => h.kind # "main"
      BY <1>2, <2>3, <2>2 DEF JobOK
    <2>5. h.node = j.node /\ h.kind = j.kind => h = j
      BY <1>1, <2>2 DEF Job
    <2>6. j.kind \in {"request", "capfail"} => tasks2[j.node] = tasks[j.node]
      BY <1>2, <2>2, <2>3, <2>5 DEF JobOK
    <2> QED
      BY <2>2, <2>4, <2>6 DEF JobOK
  <1> HIDE DEF h, r
  <1>4. \A i \in 1 .. Len(r) : JobOK(at2, tasks2, r[i])
    BY <1>1, <1>3
  <1>5. \A i, k \in 1 .. Len(r) : r[i] = r[k] /\ r[i].kind # "progress" => i = k
    <2> SUFFICES ASSUME NEW i \in 1 .. Len(q) - 1, NEW k \in 1 .. Len(q) - 1,
                        q[i + 1] = q[k + 1], q[i + 1].kind # "progress"
                 PROVE  i = k
      BY <1>1
    <2>1. i + 1 \in 1 .. Len(q) /\ k + 1 \in 1 .. Len(q)
      BY <1>1
    <2>2. i + 1 = k + 1
      BY <2>1 DEF GoodQueue
    <2> QED
      BY <1>1, <2>2
  <1> QED
    BY <1>4, <1>5 DEF GoodQueue, r

\* The parts of a step that QueueOK depends on, in each of the ways a step has of
\* changing the queue.
LEMMA QueueCases ==
  ASSUME TypeOK, TypeOK', NEW x \in Executors, QueueOK(x), pc[x] # "idle", pc'[x] # "idle",
         \/ /\ fifo'[x] = fifo[x]
            /\ KeepsWaiting(task[x], task'[x])
            /\ pc[x] \in Committing => pc'[x] = pc[x]
         \/ \E j \in Job :
               /\ fifo'[x] = fifo[x] \o <<j>>
               /\ KeepsWaiting(task[x], task'[x])
               /\ pc[x] \in Committing => pc'[x] = pc[x]
               /\ JobOK(pc'[x], task'[x], j)
               /\ j.kind # "progress" => ~ JobOK(pc[x], task[x], j)
         \/ /\ fifo[x] # <<>>
            /\ fifo'[x] = Tail(fifo[x])
            /\ Head(fifo[x]).kind # "main" => (pc[x] \in Committing => pc'[x] = pc[x])
            /\ \A n \in Nodes : task[x][n] \in {"request", "failing", "pausing"} =>
                  \/ task'[x][n] = task[x][n]
                  \/ n = Head(fifo[x]).node /\ Head(fifo[x]).kind \in {"request", "capfail"}
  PROVE  QueueOK(x)'
  <1> DEFINE q == fifo[x]
  <1>1. q \in Seq(Job) /\ GoodQueue(pc[x], task[x], q)
    BY DEF TypeOK, QueueOK
  <1>2. CASE /\ fifo'[x] = q
             /\ KeepsWaiting(task[x], task'[x])
             /\ pc[x] \in Committing => pc'[x] = pc[x]
    <2>1. GoodQueue(pc'[x], task'[x], q)
      BY <1>1, <1>2, QueueKept
    <2> QED
      BY <1>2, <2>1 DEF QueueOK
  <1>3. ASSUME NEW j \in Job,
               fifo'[x] = q \o <<j>>,
               KeepsWaiting(task[x], task'[x]),
               pc[x] \in Committing => pc'[x] = pc[x],
               JobOK(pc'[x], task'[x], j),
               j.kind # "progress" => ~ JobOK(pc[x], task[x], j)
        PROVE  QueueOK(x)'
    <2>1. j.kind # "progress" => \A i \in 1 .. Len(q) : q[i] # j
      BY <1>1, <1>3 DEF GoodQueue
    <2>2. GoodQueue(pc'[x], task'[x], q \o <<j>>)
      BY <1>1, <1>3, <2>1, QueueAppended
    <2> QED
      BY <1>3, <2>2 DEF QueueOK
  <1>4. CASE /\ q # <<>>
             /\ fifo'[x] = Tail(q)
             /\ Head(q).kind # "main" => (pc[x] \in Committing => pc'[x] = pc[x])
             /\ \A n \in Nodes : task[x][n] \in {"request", "failing", "pausing"} =>
                   \/ task'[x][n] = task[x][n]
                   \/ n = Head(q).node /\ Head(q).kind \in {"request", "capfail"}
    <2>1. GoodQueue(pc'[x], task'[x], Tail(q))
      BY <1>1, <1>4, QueueDequeued
    <2> QED
      BY <1>4, <2>1 DEF QueueOK
  <1> QED
    BY <1>2, <1>3, <1>4

\* An executor that is not idle stays so unless it crashes, and an idle one only enters.
LEMMA IdleStep ==
  ASSUME TypeOK, NEW x \in Executors, QueueOK(x),
         \/ Main(x) \/ Commits(x) \/ StoreFails(x)
         \/ \E n \in Nodes : Host(x, n) \/ Report(x, n)
         \/ \E kind \in {"cancel", "interrupt", "deadline"} : AbortRun(x, kind)
  PROVE  pc[x] # "idle" /\ pc'[x] # "idle"
  <1>1. CASE Main(x)
    BY <1>1 DEF Main, LaunchBatch, ExceedNodeRuns, AwaitNodes, StopAborted, LeaveOrCancel, EndOfRun, Settle,
         TakeLost, TakePause, TakeAborted, TakeRetry, TakeFailure, TakeInterrupted, TakeSuccess,
         CaptureReturns, CaptureThrows, Takes, GoSettle, GoFinish, SetPC, TypeOK
  <1>2. CASE Commits(x) \/ StoreFails(x)
    <2>1. fifo[x] # <<>>
      BY <1>2 DEF Commits, StartBatch, MainCommitted, RequestCommitted, FailureCommitted,
           ReportCommitted, DropReport, CommitConflicts, StoreFails, InFlight, AtStore
    <2>2. pc'[x] = pc[x] \/ pc'[x] \in {"race", "done", "loop"}
      BY <1>2 DEF Commits, StartBatch, MainCommitted, RequestCommitted, FailureCommitted,
           ReportCommitted, DropReport, CommitConflicts, StoreFails, CommitRejected, SetPC, TypeOK
    <2> QED
      BY <2>1, <2>2 DEF QueueOK
  <1>3. ASSUME NEW n \in Nodes, Host(x, n) \/ Report(x, n)
        PROVE  pc[x] # "idle" /\ pc'[x] # "idle"
    <2>1. task[x][n] = "exec" \/ n \in late[x]
      BY <1>3 DEF Host, HostReturns, HostThrows, HostTimesOut, ChildPaused, NodeErrs, Report
    <2>2. UNCHANGED pc
      BY <1>3 DEF Host, HostReturns, HostThrows, HostTimesOut, ChildPaused, Report
    <2> QED
      BY <2>1, <2>2 DEF QueueOK, NoTasks
  <1>4. ASSUME NEW kind \in {"cancel", "interrupt", "deadline"}, AbortRun(x, kind)
        PROVE  pc[x] # "idle" /\ pc'[x] # "idle"
    BY <1>4 DEF AbortRun
  <1> QED
    BY <1>1, <1>2, <1>3, <1>4

\* Starting, recovering, resuming, cancelling or crashing: the queue is made anew.
LEMMA QueueEntering ==
  ASSUME TypeOK, NEW x \in Executors, Recover(x) \/ Resume(x) \/ Cancel(x) \/ Crash(x)
  PROVE  QueueOK(x)'
  <1>1. \E s, at, r : at \in {"boot", "finish", "idle"} /\ Enter(x, s, at, r)
    <2>1. ASSUME NEW R, NEW F, EnterRecovered(x, R, F)
          PROVE  \E s, at, r : at \in {"boot", "finish", "idle"} /\ Enter(x, s, at, r)
      BY <2>1 DEF EnterRecovered
    <2> QED
      BY <2>1 DEF Recover, Resume, Cancel, Crash
  <1>2. PICK at \in {"boot", "finish", "idle"} :
          /\ pc'[x] = at /\ task'[x] = NoTasks /\ late'[x] = {}
          /\ fifo'[x] = IF at = "idle" THEN <<>> ELSE <<MainJob>>
    BY <1>1 DEF Enter, SetPC, TypeOK
  <1>3. GoodQueue(at, NoTasks, <<>>)
    <2>1. Len(<<>>) = 0
      OBVIOUS
    <2> QED
      BY <2>1 DEF GoodQueue
  <1>4. at # "idle" => GoodQueue(at, NoTasks, <<MainJob>>)
    <2>1. Len(<<MainJob>>) = 1 /\ <<MainJob>>[1] = MainJob
      OBVIOUS
    <2> QED
      BY <2>1 DEF GoodQueue, JobOK, MainJob, Committing
  <1> QED
    BY <1>2, <1>3, <1>4 DEF QueueOK

\* Main's own steps: they queue nothing, or one commit while none of theirs is queued.
LEMMA QueueMain ==
  ASSUME TypeOK, TypeOK', NEW x \in Executors, QueueOK(x), Main(x)
  PROVE  QueueOK(x)'
  <1>1. pc[x] # "idle" /\ pc'[x] # "idle"
    BY IdleStep
  <1>2. MainJob \in Job /\ MainJob.kind = "main"
    BY JobType DEF MainJob
  <1>3. \A at, tasks : JobOK(at, tasks, MainJob) <=> at \in Committing
    BY DEF JobOK, MainJob
  <1>4. KeepsWaiting(task[x], AbortedTasks(x))
    BY DEF KeepsWaiting, AbortedTasks
  <1>5. ASSUME fifo'[x] = fifo[x] \o <<MainJob>>, pc[x] \notin Committing, pc'[x] \in Committing,
               KeepsWaiting(task[x], task'[x])
        PROVE  QueueOK(x)'
    BY <1>1, <1>2, <1>3, <1>5, QueueCases
  <1>6. ASSUME fifo'[x] = fifo[x], pc[x] \notin Committing, KeepsWaiting(task[x], task'[x])
        PROVE  QueueOK(x)'
    BY <1>1, <1>6, QueueCases
  <1>7. CASE LaunchBatch(x)
    BY <1>5, <1>7 DEF LaunchBatch, Queue, SetPC, Committing, KeepsWaiting, TypeOK
  <1>8. CASE ExceedNodeRuns(x)
    BY <1>4, <1>6, <1>8 DEF ExceedNodeRuns, Committing, TypeOK
  <1>9. CASE AwaitNodes(x)
    BY <1>6, <1>9 DEF AwaitNodes, Committing, KeepsWaiting
  <1>10. CASE StopAborted(x)
    BY <1>5, <1>6, <1>10 DEF StopAborted, LeaveOrCancel, GoFinish, Queue, SetPC, Committing,
         KeepsWaiting, TypeOK
  <1>11. CASE EndOfRun(x)
    BY <1>5, <1>6, <1>11 DEF EndOfRun, LeaveOrCancel, GoFinish, Queue, SetPC, Committing,
         KeepsWaiting, TypeOK
  <1>12. CASE Settle(x)
    <2>1. KeepsWaiting(task[x], task'[x])
      BY <1>12 DEF Settle, Active, Settled, KeepsWaiting, TypeOK
    <2>2. \/ fifo'[x] = fifo[x] \o <<MainJob>> /\ pc'[x] = "finish"
          \/ fifo'[x] = fifo[x] /\ pc'[x] = "done"
      BY <1>12 DEF Settle, GoFinish, Queue, SetPC, TypeOK
    <2>3. pc[x] = "settle"
      BY <1>12 DEF Settle
    <2> QED
      BY <1>5, <1>6, <2>1, <2>2, <2>3 DEF Committing
  <1>13. ASSUME NEW n \in Nodes, NEW v \in Settled, Takes(x, n, v)
         PROVE  KeepsWaiting(task[x], task'[x]) /\ pc[x] \notin Committing
    BY <1>13 DEF Takes, Settled, KeepsWaiting, Committing, TypeOK
  <1>14. ASSUME NEW n \in Nodes,
                \/ TakeLost(x, n) \/ TakeAborted(x, n) \/ TakeInterrupted(x, n)
                \/ TakeSuccess(x, n)
         PROVE  QueueOK(x)'
    BY <1>6, <1>13, <1>14 DEF TakeLost, TakeAborted, TakeInterrupted, TakeSuccess, Settled
  <1>15. ASSUME NEW n \in Nodes, TakePause(x, n) \/ TakeFailure(x, n)
         PROVE  QueueOK(x)'
    <2>1. task'[x] = [AbortedTasks(x) EXCEPT ![n] = "none"] /\ pc[x] \notin Committing
      BY <1>15 DEF TakePause, TakeFailure, Committing, TypeOK
    <2>2. task[x][n] \in {"pause", "err"} /\ UNCHANGED fifo
      BY <1>15 DEF TakePause, TakeFailure
    <2>3. KeepsWaiting(task[x], task'[x])
      BY <2>1, <2>2 DEF KeepsWaiting, AbortedTasks
    <2> QED
      BY <1>6, <2>1, <2>2, <2>3
  <1>16. ASSUME NEW n \in Nodes, TakeRetry(x, n)
         PROVE  QueueOK(x)'
    <2>1. KeepsWaiting(task[x], task'[x]) /\ pc[x] \notin Committing
      BY <1>13, <1>16 DEF TakeRetry, Settled
    <2> QED
      BY <1>5, <1>16, <2>1 DEF TakeRetry, Queue, SetPC, Committing, TypeOK
  <1>17. ASSUME NEW n \in Nodes, CaptureReturns(x, n)
         PROVE  QueueOK(x)'
    BY <1>5, <1>17 DEF CaptureReturns, Queue, SetPC, Committing, KeepsWaiting, TypeOK
  <1>18. ASSUME NEW n \in Nodes, CaptureThrows(x, n)
         PROVE  QueueOK(x)'
    BY <1>4, <1>6, <1>18 DEF CaptureThrows, Committing, TypeOK
  <1> QED
    BY <1>7, <1>8, <1>9, <1>10, <1>11, <1>12, <1>14, <1>15, <1>16, <1>17, <1>18 DEF Main

\* Host code, its reports and aborts: at most one commit is queued, with its promise.
LEMMA QueueHost ==
  ASSUME TypeOK, TypeOK', NEW x \in Executors, QueueOK(x),
         \/ \E n \in Nodes : Host(x, n) \/ Report(x, n)
         \/ \E kind \in {"cancel", "interrupt", "deadline"} : AbortRun(x, kind)
  PROVE  QueueOK(x)'
  <1>1. pc[x] # "idle" /\ pc'[x] # "idle"
    BY IdleStep
  <1>2. \A n \in Nodes, k \in {"capfail", "progress"} : [kind |-> k, node |-> n] \in Job
    BY DEF Job
  <1>3. ASSUME NEW n \in Nodes, NEW v \in {"failing", "pausing"}, NodeErrs(x, n, v),
               UNCHANGED pc, task[x][n] = "exec"
        PROVE  QueueOK(x)'
    <2> DEFINE j == [kind |-> "capfail", node |-> n]
    <2>1. KeepsWaiting(task[x], task'[x])
      BY <1>3 DEF NodeErrs, KeepsWaiting, TypeOK
    <2>2. CASE n \in External
      <3>1. fifo'[x] = fifo[x] \o <<j>> /\ task'[x][n] = v
        BY <1>3, <2>2 DEF NodeErrs, Queue, TypeOK
      <3>2. JobOK(pc'[x], task'[x], j) /\ ~ JobOK(pc[x], task[x], j)
        BY <1>3, <3>1 DEF JobOK
      <3> QED
        BY <1>1, <1>2, <1>3, <2>1, <3>1, <3>2, QueueCases
    <2>3. CASE n \notin External
      BY <1>1, <1>3, <2>1, <2>3, QueueCases DEF NodeErrs
    <2> QED
      BY <2>2, <2>3
  <1>4. ASSUME NEW n \in Nodes, HostReturns(x, n)
        PROVE  QueueOK(x)'
    <2>1. KeepsWaiting(task[x], task'[x]) /\ fifo'[x] = fifo[x] /\ pc'[x] = pc[x]
      BY <1>4 DEF HostReturns, KeepsWaiting, TypeOK
    <2> QED
      BY <1>1, <2>1, QueueCases
  <1>5. ASSUME NEW n \in Nodes, HostThrows(x, n) \/ HostTimesOut(x, n) \/ ChildPaused(x, n)
        PROVE  QueueOK(x)'
    <2>1. UNCHANGED pc /\ task[x][n] = "exec" /\ \E v \in {"failing", "pausing"} : NodeErrs(x, n, v)
      BY <1>5 DEF HostThrows, HostTimesOut, ChildPaused, NodeErrs
    <2> QED
      BY <1>3, <2>1
  <1>6. ASSUME NEW n \in Nodes, Report(x, n)
        PROVE  QueueOK(x)'
    <2> DEFINE j == [kind |-> "progress", node |-> n]
    <2>1. /\ KeepsWaiting(task[x], task'[x]) /\ pc'[x] = pc[x]
          /\ fifo'[x] = fifo[x] \o <<j>>
      BY <1>6 DEF Report, Queue, KeepsWaiting, TypeOK
    <2>2. JobOK(pc'[x], task'[x], j) /\ j.kind = "progress" /\ j \in Job
      BY <1>2 DEF JobOK
    <2> QED
      BY <1>1, <2>1, <2>2, QueueCases
  <1>7. ASSUME NEW kind, AbortRun(x, kind)
        PROVE  QueueOK(x)'
    <2>1. KeepsWaiting(task[x], task'[x]) /\ fifo'[x] = fifo[x] /\ pc'[x] = pc[x]
      BY <1>7 DEF AbortRun, AbortedTasks, KeepsWaiting, TypeOK
    <2> QED
      BY <1>1, <2>1, QueueCases
  <1> QED
    BY <1>4, <1>5, <1>6, <1>7 DEF Host

\* Several new commits at once, each with its own promise.
LEMMA QueueJoined ==
  ASSUME NEW at, NEW tasks, NEW q \in Seq(Job), NEW r \in Seq(Job),
         GoodQueue(at, tasks, q),
         \A i \in 1 .. Len(r) : JobOK(at, tasks, r[i]),
         \A i, k \in 1 .. Len(r) : r[i] = r[k] => i = k,
         \A i \in 1 .. Len(q), k \in 1 .. Len(r) : q[i] # r[k]
  PROVE  GoodQueue(at, tasks, q \o r)
  <1> DEFINE s == q \o r
  <1>1. Len(q) \in Nat /\ Len(r) \in Nat /\ Len(s) = Len(q) + Len(r)
    BY LenProperties, ConcatProperties
  <1>2. \A i \in 1 .. Len(q) : s[i] = q[i]
    BY <1>1, ConcatProperties
  <1>3. \A i \in 1 .. Len(s) : i \notin 1 .. Len(q) => s[i] = r[i - Len(q)] /\ i - Len(q) \in 1 .. Len(r)
    BY <1>1, ConcatProperties
  <1> HIDE DEF s
  <1>4. \A i \in 1 .. Len(s) : JobOK(at, tasks, s[i])
    BY <1>1, <1>2, <1>3 DEF GoodQueue
  <1>5. ASSUME NEW i \in 1 .. Len(s), NEW k \in 1 .. Len(s), s[i] = s[k], s[i].kind # "progress"
        PROVE  i = k
    <2>1. CASE i \in 1 .. Len(q) /\ k \in 1 .. Len(q)
      BY <1>2, <1>5, <2>1 DEF GoodQueue
    <2>2. CASE i \notin 1 .. Len(q) /\ k \notin 1 .. Len(q)
      <3>1. i - Len(q) = k - Len(q)
        BY <1>3, <1>5, <2>2
      <3> QED
        BY <1>1, <3>1
    <2>3. CASE (i \in 1 .. Len(q)) # (k \in 1 .. Len(q))
      BY <1>2, <1>3, <1>5, <2>3
    <2> QED
      BY <2>1, <2>2, <2>3
  <1> QED
    BY <1>4, <1>5 DEF GoodQueue, s

\* A commit the store accepts takes the first job off the queue.
LEMMA StoreQueue ==
  ASSUME TypeOK, NEW x \in Executors, NEW rest, Store(x, rest)
  PROVE  fifo'[x] = rest
  BY DEF Store, Dequeue, TypeOK

\* The nodes of a batch that the launch commit starts, and the commits they queue.
LEMMA StartedBatch ==
  ASSUME TypeOK, NEW x \in Executors, StartBatch(x)
  PROVE  \E asking \in SUBSET focus[x], direct \in SUBSET focus[x] :
           /\ asking \cap direct = {}
           /\ \A n \in Nodes : IF n \in asking THEN task'[x][n] = "request"
                               ELSE IF n \in focus[x] THEN task'[x][n] \in {"err", "exec"}
                               ELSE task'[x][n] = task[x][n]
           /\ HostCalled(direct, mem[x])
           /\ \E order \in Sorted(asking) :
                Store(x, Tail(fifo[x]) \o
                   [i \in DOMAIN order |-> [kind |-> "request", node |-> order[i]]])
  <1>1. PICK bad \in SUBSET (focus[x] \cap MayFail) :
          LET asking == (focus[x] \cap External) \ bad
              direct == focus[x] \ (asking \cup bad)
          IN  /\ task' = [task EXCEPT ![x] = [n \in Nodes |->
                    IF n \in asking THEN "request"
                    ELSE IF n \in bad \/ (n \in direct /\ Aborted(x)) THEN "err"
                    ELSE IF n \in direct THEN "exec" ELSE task[x][n]]]
              /\ HostCalled(direct, mem[x])
              /\ \E order \in Sorted(asking) :
                    Store(x, Tail(fifo[x]) \o
                       [i \in DOMAIN order |-> [kind |-> "request", node |-> order[i]]])
    BY DEF StartBatch
  <1> DEFINE asking == (focus[x] \cap External) \ bad
             direct == focus[x] \ (asking \cup bad)
  <1>2. asking \in SUBSET focus[x] /\ direct \in SUBSET focus[x] /\ asking \cap direct = {}
    OBVIOUS
  <1>3. \A n \in Nodes : IF n \in asking THEN task'[x][n] = "request"
                         ELSE IF n \in focus[x] THEN task'[x][n] \in {"err", "exec"}
                         ELSE task'[x][n] = task[x][n]
    BY <1>1 DEF TypeOK
  <1> QED
    BY <1>1, <1>2, <1>3

\* The commits that the external nodes of a batch queue.
Requests(order) == [i \in DOMAIN order |-> [kind |-> "request", node |-> order[i]]]

\* They are one commit for each of its nodes.
LEMMA RequestJobs ==
  ASSUME NEW S \in SUBSET Nodes, NEW order \in Sorted(S)
  PROVE  /\ Requests(order) \in Seq(Job)
         /\ \A i \in 1 .. Len(Requests(order)) :
               Requests(order)[i].kind = "request" /\ Requests(order)[i].node \in S
         /\ \A i, k \in 1 .. Len(Requests(order)) :
               Requests(order)[i] = Requests(order)[k] => i = k
  <1> DEFINE r == [i \in DOMAIN order |-> [kind |-> "request", node |-> order[i]]]
  <1>1. r \in Seq(Job)
    BY RequestsType
  <1>2. Cardinality(S) \in Nat
    BY GraphFacts, FS_Subset, FS_CardinalityType
  <1>3. order \in [1 .. Cardinality(S) -> S] /\ DOMAIN r = 1 .. Cardinality(S)
    BY DEF Sorted
  <1>4. 1 .. Len(r) = 1 .. Cardinality(S)
    BY <1>1, <1>3, LenProperties
  <1>5. \A i \in 1 .. Len(r) : r[i].kind = "request" /\ r[i].node = order[i] /\ order[i] \in S
    BY <1>3, <1>4
  <1>6. \A i, k \in 1 .. Len(r) : i < k => Rank[order[i]] < Rank[order[k]]
    BY <1>3, <1>4 DEF Sorted
  <1>7. \A n \in Nodes : Rank[n] \in Nat
    BY GraphFacts
  <1>8. \A i, k \in 1 .. Len(r) : order[i] = order[k] => i = k
    <2> SUFFICES ASSUME NEW i \in 1 .. Len(r), NEW k \in 1 .. Len(r), order[i] = order[k]
                 PROVE  i = k
      OBVIOUS
    <2>1. i \in Int /\ k \in Int /\ Rank[order[i]] \in Nat /\ Rank[order[i]] = Rank[order[k]]
      BY <1>5, <1>7
    <2>2. ~ (i < k) /\ ~ (k < i)
      BY <1>6, <2>1
    <2> QED
      BY <2>1, <2>2
  <1> HIDE DEF r
  <1>9. \A i, k \in 1 .. Len(r) : r[i] = r[k] => i = k
    BY <1>5, <1>8
  <1> QED
    BY <1>1, <1>5, <1>9 DEF r, Requests

\* The launch commit: main's job is done, and the batch queues its requests.
LEMMA QueueStarted ==
  ASSUME TypeOK, TypeOK', NEW x \in Executors, QueueOK(x), SchedulingOK(x), StartBatch(x)
  PROVE  QueueOK(x)'
  <1>1. PICK asking \in SUBSET focus[x] :
          /\ \A n \in Nodes : IF n \in asking THEN task'[x][n] = "request"
                              ELSE IF n \in focus[x] THEN task'[x][n] \in {"err", "exec"}
                              ELSE task'[x][n] = task[x][n]
          /\ \E order \in Sorted(asking) :
                Store(x, Tail(fifo[x]) \o
                   [i \in DOMAIN order |-> [kind |-> "request", node |-> order[i]]])
    BY StartedBatch
  <1>0. PICK order \in Sorted(asking) :
          Store(x, Tail(fifo[x]) \o
             [i \in DOMAIN order |-> [kind |-> "request", node |-> order[i]]])
    BY <1>1
  <1> DEFINE q == fifo[x]
             r == [i \in DOMAIN order |-> [kind |-> "request", node |-> order[i]]]
  <1>2. /\ pc[x] = "launch" /\ pc'[x] = "race"
        /\ q # <<>> /\ q \in Seq(Job) /\ Head(q).kind = "main"
    BY DEF StartBatch, InFlight, AtStore, SetPC, TypeOK
  <1>3. focus[x] \in SUBSET Nodes /\ \A n \in focus[x] : task[x][n] = "none"
    BY <1>2 DEF SchedulingOK, Scheduling, TypeOK
  <1>4. /\ r \in Seq(Job)
        /\ \A i \in 1 .. Len(r) : r[i].kind = "request" /\ r[i].node \in asking
        /\ \A i, k \in 1 .. Len(r) : r[i] = r[k] => i = k
    <2>1. asking \in SUBSET Nodes
      BY <1>3
    <2>2. r = Requests(order)
      BY DEF Requests
    <2> HIDE DEF r
    <2> QED
      BY <2>1, <2>2, RequestJobs
  <1>5. fifo'[x] = Tail(q) \o r
    BY <1>0, StoreQueue
  <1> HIDE DEF r
  <1>6. KeepsWaiting(task[x], task'[x])
    BY <1>1, <1>3 DEF KeepsWaiting
  <1>7. GoodQueue(pc[x], task[x], q)
    BY DEF QueueOK
  <1>8. GoodQueue(pc'[x], task'[x], Tail(q))
    BY <1>2, <1>6, <1>7, QueueDequeued DEF KeepsWaiting
  <1>9. Tail(q) \in Seq(Job) /\ \A i \in 1 .. Len(Tail(q)) : \E k \in 1 .. Len(q) : Tail(q)[i] = q[k]
    BY <1>2, HeadTailProperties, LenProperties
  <1>10. \A i \in 1 .. Len(Tail(q)), k \in 1 .. Len(r) : Tail(q)[i] # r[k]
    <2>1. \A k \in 1 .. Len(q) : q[k].kind = "request" => task[x][q[k].node] = "request"
      BY <1>7 DEF GoodQueue, JobOK
    <2> QED
      BY <1>3, <1>4, <1>9, <2>1
  <1>11. \A i \in 1 .. Len(r) : JobOK(pc'[x], task'[x], r[i])
    BY <1>1, <1>3, <1>4 DEF JobOK
  <1>12. GoodQueue(pc'[x], task'[x], Tail(q) \o r)
    BY <1>4, <1>8, <1>9, <1>10, <1>11, QueueJoined
  <1> QED
    BY <1>2, <1>5, <1>12 DEF QueueOK

\* The other commits, accepted, rejected or dropped: the first job is gone, and with it
\* the wait of its own promise.
LEMMA QueueCommits ==
  ASSUME TypeOK, TypeOK', NEW x \in Executors, QueueOK(x), SchedulingOK(x),
         Commits(x) \/ StoreFails(x)
  PROVE  QueueOK(x)'
  <1>1. pc[x] # "idle" /\ pc'[x] # "idle"
    BY IdleStep
  <1> DEFINE q == fifo[x]
             h == Head(q)
  <1>2. ASSUME q # <<>>, fifo'[x] = Tail(q),
               h.kind # "main" => pc'[x] = pc[x],
               \A n \in Nodes : task[x][n] \in {"request", "failing", "pausing"} =>
                  task'[x][n] = task[x][n] \/ (n = h.node /\ h.kind \in {"request", "capfail"})
        PROVE  QueueOK(x)'
    BY <1>1, <1>2, QueueCases
  <1>3. CASE StartBatch(x)
    BY <1>3, QueueStarted
  <1>4. CASE DropReport(x)
    BY <1>2, <1>4 DEF DropReport, Dequeue, TypeOK
  <1>5. CASE MainCommitted(x)
    BY <1>2, <1>5, StoreQueue DEF MainCommitted, InFlight, AtStore
  <1>6. CASE RequestCommitted(x)
    <2>1. q # <<>> /\ h.kind = "request" /\ fifo'[x] = Tail(q) /\ UNCHANGED pc
      BY <1>6, StoreQueue DEF RequestCommitted, InFlight, AtStore
    <2>2. \A n \in Nodes : n # h.node => task'[x][n] = task[x][n]
      BY <1>6 DEF RequestCommitted, TypeOK
    <2> QED
      BY <1>2, <2>1, <2>2
  <1>7. CASE FailureCommitted(x)
    <2>1. q # <<>> /\ h.kind = "capfail" /\ fifo'[x] = Tail(q) /\ UNCHANGED pc
      BY <1>7, StoreQueue DEF FailureCommitted, InFlight, AtStore
    <2>2. \A n \in Nodes : n # h.node => task'[x][n] = task[x][n]
      BY <1>7 DEF FailureCommitted, TypeOK
    <2> QED
      BY <1>2, <2>1, <2>2
  <1>8. CASE ReportCommitted(x)
    BY <1>2, <1>8, StoreQueue DEF ReportCommitted, InFlight, AtStore
  <1>9. CASE CommitConflicts(x) \/ StoreFails(x)
    <2>1. q # <<>> /\ CommitRejected(x)
      BY <1>9 DEF CommitConflicts, StoreFails, AtStore
    <2>2. fifo'[x] = Tail(q)
      BY <2>1 DEF CommitRejected, Dequeue, TypeOK
    <2>3. h \in Job /\ JobOK(pc[x], task[x], h)
      <3>1. 1 \in 1 .. Len(q) /\ h = q[1] /\ q \in Seq(Job)
        BY <2>1, LenProperties, HeadTailProperties, EmptySeq DEF TypeOK
      <3> QED
        BY <3>1, QueuedJob DEF QueueOK, GoodQueue
    <2>4. h.kind # "main" => pc'[x] = pc[x]
      BY <2>1, <2>3 DEF CommitRejected, MainJob
    <2>5. ASSUME NEW n \in Nodes, task[x][n] \in {"request", "failing", "pausing"}
          PROVE  task'[x][n] = task[x][n] \/ (n = h.node /\ h.kind \in {"request", "capfail"})
      <3>1. CASE h = MainJob
        BY <2>1, <3>1 DEF CommitRejected
      <3>2. CASE h # MainJob
        <4>1. h.kind \in {"request", "capfail", "progress"}
          BY <2>3, <3>2 DEF JobOK, Job
        <4>2. \/ task' = [task EXCEPT ![x][h.node] =
                    IF h.kind # "progress" \/ @ = "exec" THEN "lost" ELSE @]
              \/ UNCHANGED task
          BY <2>1, <3>2 DEF CommitRejected
        <4> QED
          BY <2>5, <4>1, <4>2 DEF TypeOK
      <3> QED
        BY <3>1, <3>2
    <2> QED
      BY <1>2, <2>1, <2>2, <2>4, <2>5
  <1> QED
    BY <1>3, <1>4, <1>5, <1>6, <1>7, <1>8, <1>9 DEF Commits

\* Every step of an executor keeps its queue good.
LEMMA QueueStep ==
  ASSUME TypeOK, TypeOK', NEW x \in Executors, QueueOK(x), SchedulingOK(x), Step(x)
  PROVE  QueueOK(x)'
  BY QueueEntering, QueueMain, QueueHost, QueueCommits DEF Step, Environment

(***************************************************************************)
(* SchedulingOK is preserved.                                              *)
(***************************************************************************)
\* SchedulingOK as a condition on where main is, the nodes, the ready queue, the
\* promises and the focus.
Consistent(at, nodes, ready, tasks, foc) ==
    at \in Scheduling =>
        /\ \A n \in Nodes : tasks[n] # "none" => nodes[n] \in Busy
        /\ \A n \in ready : nodes[n] = "ready"
        /\ at = "launch" => \A n \in foc : nodes[n] \in Busy /\ tasks[n] = "none"

\* It is, before and after a step.
LEMMA ConsistentNow ==
  ASSUME NEW x \in Executors
  PROVE  /\ SchedulingOK(x) <=> Consistent(pc[x], mem[x].nodes, mem[x].ready, task[x], focus[x])
         /\ SchedulingOK(x)' <=>
              Consistent(pc'[x], mem'[x].nodes, mem'[x].ready, task'[x], focus'[x])
  BY DEF SchedulingOK, Consistent, Active

\* A step that leaves the nodes alone and starts no promise.
LEMMA SchedulingKept ==
  ASSUME TypeOK, NEW x \in Executors, SchedulingOK(x),
         mem'[x].nodes = mem[x].nodes, mem'[x].ready = mem[x].ready,
         \A n \in Nodes : task'[x][n] # "none" => task[x][n] # "none",
         \/ pc'[x] = pc[x] /\ focus'[x] = focus[x]
         \/ pc[x] \in Scheduling /\ pc'[x] # "launch"
         \/ pc'[x] \notin Scheduling
  PROVE  SchedulingOK(x)'
  <1>1. focus[x] \in SUBSET Nodes
    BY DEF TypeOK
  <1> QED
    BY <1>1, ConsistentNow DEF Consistent

\* Once main no longer schedules there is nothing to keep.
LEMMA SchedulingOver ==
  ASSUME NEW x \in Executors, pc'[x] \notin Scheduling
  PROVE  SchedulingOK(x)'
  BY DEF SchedulingOK

\* A run is entered with no promise, and with the queue restoreState accepted.
LEMMA SchedulingEntering ==
  ASSUME TypeOK, NEW x \in Executors, Recover(x) \/ Resume(x) \/ Cancel(x) \/ Crash(x)
  PROVE  SchedulingOK(x)'
  <1>1. ASSUME NEW R \in SUBSET Unsettled(db), NEW F \in SUBSET Unsettled(db),
               EnterRecovered(x, R, F)
        PROVE  SchedulingOK(x)'
    <2> DEFINE s == Recovered(db, R, F)
               again == Retried(db, R, F)
               stuck == Unsettled(db) \ (again \cup F)
    <2>1. CASE s.status = "running"
      <3>1. /\ mem'[x] = s /\ pc'[x] = "boot" /\ task'[x] = NoTasks
        BY <1>1, <2>1 DEF EnterRecovered, Enter, SetMem, SetPC, TypeOK
      <3>2. /\ db.ready \in SUBSET Nodes /\ again \in SUBSET Nodes
            /\ \A n \in db.ready : db.nodes[n] = "ready"
        BY <1>1, RecoveredType DEF EnterRecovered, Restorable, TypeOK, Checkpoint
      <3>3. F = {} /\ stuck = {}
        BY <2>1 DEF Recovered, Checkpoint, TypeOK
      <3>4. s.ready = db.ready \cup again
        BY DEF Recovered, Checkpoint, TypeOK
      <3>5. s.nodes = Mark(Mark(Mark(db.nodes, again, "ready"), F, "failed"), stuck, "needs_attention")
        BY DEF Recovered, Checkpoint, TypeOK
      <3> HIDE DEF s, again, stuck
      <3>6. \A n \in s.ready : s.nodes[n] = "ready"
        BY <3>2, <3>3, <3>4, <3>5 DEF Mark
      <3> QED
        BY <3>1, <3>6, ConsistentNow DEF Consistent, NoTasks
    <2>2. CASE s.status # "running"
      <3>1. pc'[x] = "finish"
        BY <1>1, <2>2 DEF EnterRecovered, Enter, SetPC, TypeOK
      <3> QED
        BY <3>1, SchedulingOver DEF Scheduling
    <2> QED
      BY <2>1, <2>2
  <1>2. CASE Recover(x) \/ Resume(x)
    BY <1>1, <1>2 DEF Recover, Resume
  <1>3. CASE Cancel(x) \/ Crash(x)
    <2>1. pc'[x] \in {"finish", "idle"}
      BY <1>3 DEF Cancel, Crash, Enter, SetPC, TypeOK
    <2> QED
      BY <2>1, SchedulingOver DEF Scheduling
  <1> QED
    BY <1>2, <1>3

\* The batch that is launched was ready, so no promise of its nodes is active.
LEMMA SchedulingLaunch ==
  ASSUME TypeOK, NEW x \in Executors, SchedulingOK(x), LaunchBatch(x)
  PROVE  SchedulingOK(x)'
  <1> DEFINE batch == Launchable(x)
             s == Launched(mem[x], batch)
  <1>1. mem'[x] = s /\ pc'[x] = "launch" /\ focus'[x] = batch /\ task'[x] = task[x]
    BY DEF LaunchBatch, SetMem, SetPC, TypeOK
  <1>2. batch \subseteq mem[x].ready /\ mem[x].ready \in SUBSET Nodes
    BY DEF Launchable, First, TypeOK, Checkpoint
  <1>3. Consistent("loop", mem[x].nodes, mem[x].ready, task[x], focus[x])
    BY ConsistentNow DEF LaunchBatch
  <1>4. /\ s.ready = mem[x].ready \ batch
        /\ s.nodes = [n \in Nodes |-> IF n \notin batch THEN mem[x].nodes[n]
                                      ELSE IF n \in HumanWait THEN "waiting" ELSE "running"]
    BY DEF Launched, TypeOK, Checkpoint
  <1> HIDE DEF s, batch
  <1>5. Consistent("launch", s.nodes, s.ready, task[x], batch)
    BY <1>2, <1>3, <1>4 DEF Consistent, Scheduling, Busy
  <1> QED
    BY <1>1, <1>5, ConsistentNow

\* A settled promise leaves the active map before its node is busy no more.
LEMMA SchedulingTake ==
  ASSUME TypeOK, NEW x \in Executors, NEW n \in Nodes, SchedulingOK(x),
         TakeRetry(x, n) \/ TakeSuccess(x, n)
  PROVE  SchedulingOK(x)'
  <1>1. /\ pc[x] = "race" /\ task[x][n] # "none"
        /\ task'[x] = [task[x] EXCEPT ![n] = "none"]
        /\ pc'[x] \in {"advance", "capture"}
    BY DEF TakeRetry, TakeSuccess, Takes, SetPC, TypeOK
  <1>2. Consistent("race", mem[x].nodes, mem[x].ready, task[x], focus[x])
    BY <1>1, ConsistentNow
  <1>3. \/ mem'[x].nodes = [mem[x].nodes EXCEPT ![n] = "ready"]
           /\ mem'[x].ready = mem[x].ready \cup {n}
        \/ mem'[x].nodes = [mem[x].nodes EXCEPT ![n] = "succeeded"]
           /\ mem'[x].ready = mem[x].ready
    <2>1. CASE TakeRetry(x, n)
      <3>1. mem'[x] = Requeued(mem[x], n)
        BY <2>1 DEF TakeRetry, SetMem, TypeOK
      <3> QED
        BY <3>1 DEF Requeued, TypeOK, Checkpoint
    <2>2. CASE TakeSuccess(x, n)
      <3>1. mem'[x] = [mem[x] EXCEPT !.nodes[n] = "succeeded"]
        BY <2>2 DEF TakeSuccess, SetMem, TypeOK
      <3> QED
        BY <3>1 DEF TypeOK, Checkpoint
    <2> QED
      BY <2>1, <2>2
  <1>4. mem[x].nodes \in [Nodes -> NodeStatus] /\ mem[x].ready \in SUBSET Nodes
        /\ task[x] \in [Nodes -> Tasks]
    BY DEF TypeOK, Checkpoint
  <1>5. Consistent(pc'[x], mem'[x].nodes, mem'[x].ready, task'[x], focus'[x])
    BY <1>1, <1>2, <1>3, <1>4 DEF Consistent, Scheduling, Busy
  <1> QED
    BY <1>5, ConsistentNow

\* Settling edges touches pending nodes only.
LEMMA SchedulingCapture ==
  ASSUME TypeOK, NEW x \in Executors, NEW n \in Nodes, SchedulingOK(x), CaptureReturns(x, n)
  PROVE  SchedulingOK(x)'
  <1>1. PICK sel \in Choices[n], S \in SUBSET {m \in Nodes : mem[x].nodes[m] = "pending"} :
          mem'[x] = EdgesSettled(mem[x], n, sel, S)
    BY DEF CaptureReturns, SetMem, TypeOK
  <1>2. pc[x] = "capture" /\ pc'[x] = "advance" /\ task'[x] = task[x]
    BY DEF CaptureReturns, SetPC, TypeOK
  <1> DEFINE nodes == mem[x].nodes
             woken == NewlyReady(nodes, mem[x].edges, n, sel, S)
  <1>3. woken \subseteq {m \in Nodes : nodes[m] = "pending"}
    BY DEF NewlyReady, Resolved
  <1>4. /\ mem'[x].nodes = Mark(Mark(nodes, S, "skipped"), woken, "ready")
        /\ mem'[x].ready = mem[x].ready \cup woken
    BY <1>1 DEF EdgesSettled, TypeOK, Checkpoint
  <1>5. Consistent("capture", nodes, mem[x].ready, task[x], focus[x])
    BY <1>2, ConsistentNow
  <1>6. mem[x].ready \in SUBSET Nodes
    BY DEF TypeOK, Checkpoint
  <1> HIDE DEF woken
  <1>7. Consistent("advance", mem'[x].nodes, mem'[x].ready, task[x], focus'[x])
    BY <1>3, <1>4, <1>5, <1>6 DEF Consistent, Scheduling, Busy, Mark
  <1> QED
    BY <1>2, <1>7, ConsistentNow

\* What a commit does to the state of the executor: it counts it.
LEMMA StoredState ==
  ASSUME TypeOK, NEW x \in Executors, NEW rest, Store(x, rest)
  PROVE  /\ mem[x].seq = db.seq
         /\ mem'[x] = [mem[x] EXCEPT !.seq = mem[x].seq + 1]
         /\ \E s \in sent[x] : db' = [s EXCEPT !.seq = s.seq + 1]
         /\ sent'[x] = Sending(x, rest, mem'[x])
  BY DEF Store, Dequeue, SetMem, TypeOK

\* ... and leaves the rest of it alone.
LEMMA StoredFields ==
  ASSUME TypeOK, NEW x \in Executors, NEW rest, Store(x, rest)
  PROVE  /\ mem'[x].nodes = mem[x].nodes /\ mem'[x].ready = mem[x].ready
         /\ mem'[x].attempts = mem[x].attempts /\ mem'[x].seq = mem[x].seq + 1
  <1>1. mem[x] \in Checkpoint /\ mem'[x] = [mem[x] EXCEPT !.seq = mem[x].seq + 1]
    BY StoredState DEF TypeOK
  <1> QED
    BY <1>1 DEF Checkpoint

\* The nodes whose promises start at launch are the busy ones of the batch.
LEMMA SchedulingStarted ==
  ASSUME TypeOK, NEW x \in Executors, SchedulingOK(x), StartBatch(x)
  PROVE  SchedulingOK(x)'
  <1>1. \A n \in Nodes : n \notin focus[x] => task'[x][n] = task[x][n]
    BY StartedBatch
  <1>2. mem'[x].nodes = mem[x].nodes /\ mem'[x].ready = mem[x].ready
    BY StartedBatch, StoredFields
  <1>3. pc[x] = "launch" /\ pc'[x] = "race"
    BY DEF StartBatch, SetPC, TypeOK
  <1>4. Consistent("launch", mem[x].nodes, mem[x].ready, task[x], focus[x])
    BY <1>3, ConsistentNow
  <1>5. Consistent("race", mem[x].nodes, mem[x].ready, task'[x], focus'[x])
    BY <1>1, <1>4 DEF Consistent, Scheduling
  <1> QED
    BY <1>2, <1>3, <1>5, ConsistentNow

\* Main's own steps.
LEMMA SchedulingMain ==
  ASSUME TypeOK, NEW x \in Executors, SchedulingOK(x), Main(x)
  PROVE  SchedulingOK(x)'
  <1>1. \A s, r : GoSettle(x, s, r) \/ GoFinish(x, s, r) => pc'[x] \notin Scheduling
    BY DEF GoSettle, GoFinish, SetPC, Scheduling, TypeOK
  <1>2. SetPC(x, "done") => pc'[x] \notin Scheduling
    BY DEF SetPC, Scheduling, TypeOK
  <1>3. CASE \/ ExceedNodeRuns(x) \/ StopAborted(x) \/ EndOfRun(x) \/ Settle(x)
             \/ \E n \in Nodes :
                   \/ TakeLost(x, n) \/ TakePause(x, n) \/ TakeAborted(x, n)
                   \/ TakeFailure(x, n) \/ TakeInterrupted(x, n) \/ CaptureThrows(x, n)
    <2>1. SetPC(x, "done") \/ \E s, r : GoSettle(x, s, r) \/ GoFinish(x, s, r)
      BY <1>3 DEF ExceedNodeRuns, StopAborted, EndOfRun, LeaveOrCancel, Settle, TakeLost,
           TakePause, TakeAborted, TakeFailure, TakeInterrupted, CaptureThrows
    <2> QED
      BY <1>1, <1>2, <2>1, SchedulingOver
  <1>4. CASE AwaitNodes(x)
    <2>1. /\ mem'[x] = mem[x] /\ task'[x] = task[x] /\ pc[x] = "loop" /\ pc'[x] = "race"
      BY <1>4 DEF AwaitNodes, SetPC, TypeOK
    <2> QED
      BY <2>1, SchedulingKept DEF Scheduling
  <1> QED
    BY <1>3, <1>4, SchedulingLaunch, SchedulingTake, SchedulingCapture DEF Main

\* Host code, reports and aborts change the promises that are active, and nothing else.
LEMMA SchedulingHost ==
  ASSUME TypeOK, NEW x \in Executors, SchedulingOK(x),
         \/ \E n \in Nodes : Host(x, n) \/ Report(x, n)
         \/ \E kind \in {"cancel", "interrupt", "deadline"} : AbortRun(x, kind)
  PROVE  SchedulingOK(x)'
  <1>1. UNCHANGED <<mem, pc, focus>>
    BY DEF Host, HostReturns, HostThrows, HostTimesOut, ChildPaused, Report, AbortRun
  <1>2. ASSUME NEW n \in Nodes, Host(x, n) \/ Report(x, n)
        PROVE  \A m \in Nodes : task'[x][m] # "none" => task[x][m] # "none"
    BY <1>2 DEF Host, HostReturns, HostThrows, HostTimesOut, ChildPaused, NodeErrs, Report, TypeOK
  <1>3. ASSUME NEW kind, AbortRun(x, kind)
        PROVE  \A m \in Nodes : task'[x][m] # "none" => task[x][m] # "none"
    BY <1>3 DEF AbortRun, AbortedTasks, TypeOK
  <1> QED
    BY <1>1, <1>2, <1>3, SchedulingKept

\* The job whose commit is in flight is a good one.
LEMMA HeadOK ==
  ASSUME TypeOK, NEW x \in Executors, QueueOK(x), fifo[x] # <<>>
  PROVE  /\ Head(fifo[x]) \in Job /\ Head(fifo[x]).node \in Nodes
         /\ JobOK(pc[x], task[x], Head(fifo[x]))
         /\ Head(fifo[x]).kind = "main" => Head(fifo[x]) = MainJob
  <1>1. 1 \in 1 .. Len(fifo[x]) /\ Head(fifo[x]) = fifo[x][1] /\ fifo[x] \in Seq(Job)
    BY LenProperties, HeadTailProperties, EmptySeq DEF TypeOK
  <1>2. JobOK(pc[x], task[x], Head(fifo[x]))
    BY <1>1 DEF QueueOK, GoodQueue
  <1> QED
    BY <1>1, <1>2, QueuedJob DEF JobOK

\* What a rejected commit changes: never the attempts, the nodes or the ready queue.
LEMMA Rejected ==
  ASSUME TypeOK, NEW x \in Executors, QueueOK(x), CommitRejected(x), AtStore(x)
  PROVE  /\ \E v \in {mem[x].status, "failed"} : mem'[x] = [mem[x] EXCEPT !.status = v]
         /\ sent'[x] = Sending(x, Tail(fifo[x]), mem'[x])
         /\ fifo'[x] = Tail(fifo[x])
         /\ UNCHANGED <<db, focus, hosted, doubled>>
         /\ pc'[x] = pc[x] \/ (pc'[x] = "done" /\ task'[x] = task[x])
         /\ \A n \in Nodes : task'[x][n] = task[x][n] \/ (task'[x][n] = "lost" /\ task[x][n] # "none")
  <1> DEFINE h == Head(fifo[x])
             after == IF h = MainJob /\ pc[x] \in {"boot", "finish"} /\ why[x] # "completed"
                      THEN [mem[x] EXCEPT !.status = "failed"] ELSE mem[x]
  <1>0. mem[x] \in Checkpoint
    BY DEF TypeOK
  <1>1. \E v \in {mem[x].status, "failed"} : after = [mem[x] EXCEPT !.status = v]
    BY <1>0 DEF Checkpoint
  <1>2. SetMem(x, after) /\ Dequeue(x, Tail(fifo[x]), after)
    BY DEF CommitRejected
  <1>3. mem'[x] = after
    BY <1>2 DEF SetMem, TypeOK
  <1>4. sent'[x] = Sending(x, Tail(fifo[x]), after) /\ fifo'[x] = Tail(fifo[x])
    BY <1>2 DEF Dequeue, TypeOK
  <1> HIDE DEF after
  <1>5. UNCHANGED <<db, focus, hosted, doubled>>
    BY DEF CommitRejected, historyVars
  <1>6. h \in Job /\ h.node \in Nodes /\ JobOK(pc[x], task[x], h)
    BY HeadOK DEF AtStore
  <1>7. CASE h = MainJob
    <2>1. pc'[x] = "done" /\ task' = task
      BY <1>7 DEF CommitRejected, SetPC, TypeOK
    <2> QED
      BY <1>1, <1>3, <1>4, <1>5, <2>1
  <1>8. CASE h # MainJob
    <2>1. UNCHANGED pc
      BY <1>8 DEF CommitRejected
    <2>2. \/ task' = [task EXCEPT ![x][h.node] =
                IF h.kind # "progress" \/ @ = "exec" THEN "lost" ELSE @]
          \/ task' = task
      BY <1>8 DEF CommitRejected
    <2>3. h.kind # "progress" => task[x][h.node] # "none"
      BY <1>6, <1>8 DEF JobOK, Job
    <2>4. \A n \in Nodes : task'[x][n] = task[x][n] \/ (task'[x][n] = "lost" /\ task[x][n] # "none")
      BY <1>6, <2>2, <2>3 DEF TypeOK
    <2> QED
      BY <1>1, <1>3, <1>4, <1>5, <2>1, <2>4
  <1> QED
    BY <1>7, <1>8

\* Commits leave the nodes as they are, and settle or start promises of busy nodes.
LEMMA SchedulingCommits ==
  ASSUME TypeOK, NEW x \in Executors, QueueOK(x), SchedulingOK(x),
         Commits(x) \/ StoreFails(x)
  PROVE  SchedulingOK(x)'
  <1>1. CASE StartBatch(x)
    BY <1>1, SchedulingStarted
  <1>2. CASE MainCommitted(x)
    <2>1. mem'[x].nodes = mem[x].nodes /\ mem'[x].ready = mem[x].ready
      BY <1>2, StoredFields DEF MainCommitted
    <2>2. task'[x] = task[x] /\ focus'[x] = focus[x]
      BY <1>2 DEF MainCommitted
    <2>3. pc'[x] \notin Scheduling \/ (pc[x] \in Scheduling /\ pc'[x] # "launch")
      BY <1>2 DEF MainCommitted, SetPC, Scheduling, TypeOK
    <2> QED
      BY <2>1, <2>2, <2>3, SchedulingKept
  <1>3. CASE RequestCommitted(x) \/ FailureCommitted(x)
    <2> DEFINE h == Head(fifo[x])
    <2>1. mem'[x].nodes = mem[x].nodes /\ mem'[x].ready = mem[x].ready
      BY <1>3, StoredFields DEF RequestCommitted, FailureCommitted
    <2>2. UNCHANGED <<pc, focus>>
      BY <1>3 DEF RequestCommitted, FailureCommitted
    <2>3. h.node \in Nodes /\ JobOK(pc[x], task[x], h) /\ h.kind \in {"request", "capfail"}
      BY <1>3, HeadOK DEF RequestCommitted, FailureCommitted, InFlight, AtStore
    <2>4. task[x][h.node] # "none"
      BY <2>3 DEF JobOK
    <2>5. \A n \in Nodes : n # h.node => task'[x][n] = task[x][n]
      BY <1>3 DEF RequestCommitted, FailureCommitted, TypeOK
    <2> QED
      BY <2>1, <2>2, <2>4, <2>5, SchedulingKept
  <1>4. CASE ReportCommitted(x)
    <2>1. mem'[x].nodes = mem[x].nodes /\ mem'[x].ready = mem[x].ready
      BY <1>4, StoredFields DEF ReportCommitted
    <2> QED
      BY <1>4, <2>1, SchedulingKept DEF ReportCommitted
  <1>5. CASE DropReport(x)
    BY <1>5, SchedulingKept DEF DropReport
  <1>6. CASE CommitConflicts(x) \/ StoreFails(x)
    <2>1. AtStore(x) /\ CommitRejected(x)
      BY <1>6 DEF CommitConflicts, StoreFails
    <2>2. mem'[x].nodes = mem[x].nodes /\ mem'[x].ready = mem[x].ready
      <3>1. PICK v : mem'[x] = [mem[x] EXCEPT !.status = v]
        BY <2>1, Rejected
      <3> QED
        BY <3>1 DEF TypeOK, Checkpoint
    <2>3. focus'[x] = focus[x] /\ pc'[x] \in {pc[x], "done"}
      BY <2>1, Rejected
    <2>4. \A n \in Nodes : task'[x][n] # "none" => task[x][n] # "none"
      BY <2>1, Rejected
    <2> QED
      BY <2>2, <2>3, <2>4, SchedulingKept DEF Scheduling
  <1> QED
    BY <1>1, <1>2, <1>3, <1>4, <1>5, <1>6 DEF Commits

\* Every step of an executor keeps its scheduling consistent.
LEMMA SchedulingStep ==
  ASSUME TypeOK, NEW x \in Executors, QueueOK(x), SchedulingOK(x), Step(x)
  PROVE  SchedulingOK(x)'
  BY SchedulingEntering, SchedulingMain, SchedulingHost, SchedulingCommits DEF Step, Environment

(***************************************************************************)
(* Calls and attempts: what the steps of an executor do to them.           *)
(***************************************************************************)
SameCount(s, t) == t.seq = s.seq /\ t.attempts = s.attempts

\* The checkpoint in flight, if any, is that of the state the step leaves ...
SendsOwn(x) == \A s \in sent'[x] : SameCount(mem'[x], s)

\* ... or the one that was in flight before.
SendsOn(x) ==
    /\ sent'[x] = sent[x]
    /\ \/ fifo'[x] = fifo[x]
       \/ fifo[x] # <<>> /\ Head(fifo'[x]) = Head(fifo[x])

\* A step that writes nothing to the store, calls no Host code and counts no attempt.
CallKept(x) ==
    /\ UNCHANGED <<db, hosted, doubled>>
    /\ pc[x] # "idle"
    /\ SameCount(mem[x], mem'[x])
    /\ \A n \in Nodes : task'[x][n] = "request" => task[x][n] = "request"
    /\ pc'[x] = "launch" => pc[x] = "launch" /\ focus'[x] = focus[x]
    /\ SendsOwn(x) \/ SendsOn(x)

\* Everything main does to its state, launching apart, keeps the counts.
LEMMA CountsKept ==
  ASSUME NEW s \in Checkpoint, NEW n \in Nodes, NEW act, NEW b, NEW v
  PROVE  /\ SameCount(s, s)
         /\ SameCount(s, [s EXCEPT !.nodes[n] = v])
         /\ SameCount(s, [s EXCEPT !.status = v])
         /\ SameCount(s, Requeued(s, n))
         /\ SameCount(s, FinishFailed(s, act))
         /\ SameCount(s, FinishCancelled(s, b))
         /\ SameCount(s, FinishPaused(s, act))
         /\ SameCount(s, CancelledByCall(s))
  <1>1. SameCount(s, s)
    BY DEF SameCount
  <1>2. SameCount(s, [s EXCEPT !.nodes[n] = v])
    BY DEF SameCount, Checkpoint
  <1>3. SameCount(s, [s EXCEPT !.status = v])
    BY DEF SameCount, Checkpoint
  <1>4. SameCount(s, Requeued(s, n))
    BY DEF SameCount, Checkpoint, Requeued
  <1>5. SameCount(s, FinishFailed(s, act))
    BY DEF SameCount, Checkpoint, FinishFailed
  <1>6. SameCount(s, FinishCancelled(s, b))
    BY DEF SameCount, Checkpoint, FinishCancelled
  <1>7. SameCount(s, FinishPaused(s, act))
    BY DEF SameCount, Checkpoint, FinishPaused
  <1>8. SameCount(s, CancelledByCall(s))
    BY DEF SameCount, Checkpoint, CancelledByCall
  <1> QED
    BY <1>1, <1>2, <1>3, <1>4, <1>5, <1>6, <1>7, <1>8

\* Settling edges keeps the counts (settleOutgoingEdges).
LEMMA SettledCount ==
  ASSUME NEW s \in Checkpoint, NEW n, NEW sel, NEW S
  PROVE  SameCount(s, EdgesSettled(s, n, sel, S))
  BY DEF SameCount, Checkpoint, EdgesSettled

\* Resuming keeps the counts of the record (resume).
LEMMA RecoveredCount ==
  ASSUME NEW s \in Checkpoint, NEW R, NEW F
  PROVE  SameCount(s, Recovered(s, R, F))
  BY DEF SameCount, Checkpoint, Recovered

\* Queueing a commit of the state the step leaves.
LEMMA QueueSends ==
  ASSUME TypeOK, NEW x \in Executors, NEW j \in Job, Queue(x, <<j>>, mem'[x])
  PROVE  SendsOwn(x) \/ SendsOn(x)
  <1>1. fifo[x] \in Seq(Job) /\ <<j>> \in Seq(Job)
    BY DEF TypeOK
  <1>2. fifo'[x] = fifo[x] \o <<j>>
    BY DEF Queue, TypeOK
  <1>3. CASE fifo[x] = <<>>
    BY <1>3 DEF Queue, Sending, SendsOwn, SameCount, TypeOK
  <1>4. CASE fifo[x] # <<>>
    <2>1. sent'[x] = sent[x]
      BY <1>4 DEF Queue, TypeOK
    <2>2. Head(fifo'[x]) = Head(fifo[x])
      BY <1>1, <1>2, <1>4, ConcatProperties, LenProperties, HeadTailProperties, EmptySeq
    <2> QED
      BY <1>4, <2>1, <2>2 DEF SendsOn
  <1> QED
    BY <1>3, <1>4

\* Main's own steps count an attempt at launch only.
LEMMA KeptMain ==
  ASSUME TypeOK, TypeOK', NEW x \in Executors, QueueOK(x), Main(x)
  PROVE  CallKept(x) \/ LaunchBatch(x) \/ ExceedNodeRuns(x)
  <1>0. mem[x] \in Checkpoint /\ MainJob \in Job /\ pc[x] # "idle"
    BY IdleStep, JobType DEF TypeOK
  <1>1. ASSUME NEW s, NEW r, GoFinish(x, s, r), SameCount(mem[x], s)
        PROVE  SameCount(mem[x], mem'[x]) /\ pc'[x] # "launch" /\ (SendsOwn(x) \/ SendsOn(x))
    <2>1. mem'[x] = s /\ pc'[x] = "finish"
      BY <1>1 DEF GoFinish, SetMem, SetPC, TypeOK
    <2> QED
      BY <1>0, <1>1, <2>1, QueueSends DEF GoFinish
  <1>2. ASSUME NEW s, NEW r, GoSettle(x, s, r), SameCount(mem[x], s), UNCHANGED <<fifo, sent>>
        PROVE  SameCount(mem[x], mem'[x]) /\ pc'[x] # "launch" /\ (SendsOwn(x) \/ SendsOn(x))
    BY <1>2 DEF GoSettle, SetMem, SetPC, SendsOn, TypeOK
  <1>3. ASSUME LeaveOrCancel(x)
        PROVE  SameCount(mem[x], mem'[x]) /\ pc'[x] # "launch" /\ (SendsOwn(x) \/ SendsOn(x))
    BY <1>0, <1>1, <1>3, CountsKept, GraphFacts DEF LeaveOrCancel, SetPC, SendsOn, TypeOK
  <1>4. \A n \in Nodes : AbortedTasks(x)[n] = "request" => task[x][n] = "request"
    BY DEF AbortedTasks
  <1>5. CASE AwaitNodes(x)
    BY <1>0, <1>5, CountsKept, GraphFacts DEF AwaitNodes, CallKept, SetPC, SendsOn,
         historyVars, TypeOK
  <1>6. CASE StopAborted(x)
    BY <1>0, <1>3, <1>6 DEF StopAborted, CallKept, historyVars
  <1>7. CASE EndOfRun(x)
    <2>1. SameCount(mem[x], mem'[x]) /\ pc'[x] # "launch" /\ (SendsOwn(x) \/ SendsOn(x))
      <3>1. SameCount(mem[x], FinishFailed(mem[x], {}))
            /\ SameCount(mem[x], [mem[x] EXCEPT !.status = "completed"])
        BY <1>0, CountsKept, GraphFacts
      <3> QED
        BY <1>1, <1>3, <1>7, <3>1 DEF EndOfRun
    <2> QED
      BY <1>0, <1>7, <2>1 DEF EndOfRun, CallKept, historyVars
  <1>8. CASE Settle(x)
    <2> DEFINE act == Active(x)
    <2>1. /\ SameCount(mem[x], FinishFailed(mem[x], act))
          /\ SameCount(mem[x], FinishCancelled(mem[x], abort[x] = "deadline"))
          /\ SameCount(mem[x], FinishPaused(mem[x], act))
          /\ SameCount(mem[x], mem[x])
      BY <1>0, CountsKept, GraphFacts
    <2>2. \/ GoFinish(x, FinishFailed(mem[x], act), "fail")
          \/ GoFinish(x, FinishCancelled(mem[x], abort[x] = "deadline"), "cancel")
          \/ GoFinish(x, FinishPaused(mem[x], act), "pause")
          \/ SetPC(x, "done") /\ UNCHANGED <<mem, why, fifo, sent>>
      BY <1>8 DEF Settle
    <2>3. SameCount(mem[x], mem'[x]) /\ pc'[x] # "launch" /\ (SendsOwn(x) \/ SendsOn(x))
      BY <1>1, <2>1, <2>2 DEF SetPC, SendsOn, TypeOK
    <2>4. UNCHANGED <<db, hosted, doubled>> /\ task'[x] = NoTasks
      BY <1>8 DEF Settle, TypeOK
    <2> QED
      BY <1>0, <2>3, <2>4 DEF CallKept, NoTasks
  <1>9. ASSUME NEW n \in Nodes, NEW v, Takes(x, n, v)
        PROVE  \A m \in Nodes : task'[x][m] = "request" => task[x][m] = "request"
    BY <1>9 DEF Takes, TypeOK
  <1>10. ASSUME NEW n \in Nodes, TakeLost(x, n)
         PROVE  CallKept(x)
    BY <1>0, <1>9, <1>10, CountsKept DEF TakeLost, CallKept, SetPC, SendsOn, historyVars, TypeOK
  <1>11. ASSUME NEW n \in Nodes, TakePause(x, n) \/ TakeFailure(x, n)
         PROVE  CallKept(x)
    <2>1. \E s, r : GoSettle(x, s, r) /\ SameCount(mem[x], s)
      BY <1>0, <1>11, CountsKept DEF TakePause, TakeFailure
    <2>2. UNCHANGED <<db, fifo, sent, hosted, doubled>>
          /\ task'[x] = [AbortedTasks(x) EXCEPT ![n] = "none"]
      BY <1>11 DEF TakePause, TakeFailure, historyVars, TypeOK
    <2>3. \A m \in Nodes : task'[x][m] = "request" => task[x][m] = "request"
      BY <2>2 DEF AbortedTasks
    <2> QED
      BY <1>0, <1>2, <2>1, <2>2, <2>3 DEF CallKept
  <1>12. ASSUME NEW n \in Nodes, TakeAborted(x, n) \/ TakeInterrupted(x, n)
         PROVE  CallKept(x)
    <2>1. \E s, r : GoSettle(x, s, r) /\ SameCount(mem[x], s)
      BY <1>0, <1>12, CountsKept DEF TakeAborted, TakeInterrupted
    <2>2. UNCHANGED <<db, fifo, sent, hosted, doubled>> /\ \E v : Takes(x, n, v)
      BY <1>12 DEF TakeAborted, TakeInterrupted, historyVars
    <2> QED
      BY <1>0, <1>2, <1>9, <2>1, <2>2 DEF CallKept
  <1>13. ASSUME NEW n \in Nodes, TakeRetry(x, n)
         PROVE  CallKept(x)
    <2>1. mem'[x] = Requeued(mem[x], n) /\ pc'[x] = "advance"
      BY <1>13 DEF TakeRetry, SetMem, SetPC, TypeOK
    <2>2. SendsOwn(x) \/ SendsOn(x)
      BY <1>0, <1>13, <2>1, QueueSends DEF TakeRetry
    <2>3. SameCount(mem[x], mem'[x])
      BY <1>0, <2>1, CountsKept
    <2> QED
      BY <1>0, <1>9, <1>13, <2>1, <2>2, <2>3 DEF TakeRetry, CallKept, historyVars
  <1>14. ASSUME NEW n \in Nodes, TakeSuccess(x, n)
         PROVE  CallKept(x)
    <2>1. mem'[x] = [mem[x] EXCEPT !.nodes[n] = "succeeded"] /\ pc'[x] = "capture"
      BY <1>14 DEF TakeSuccess, SetMem, SetPC, TypeOK
    <2>2. SameCount(mem[x], mem'[x])
      BY <1>0, <2>1 DEF SameCount, Checkpoint
    <2> QED
      BY <1>0, <1>9, <1>14, <2>1, <2>2 DEF TakeSuccess, CallKept, SendsOn, historyVars
  <1>15. ASSUME NEW n \in Nodes, CaptureReturns(x, n)
         PROVE  CallKept(x)
    <2>1. PICK s : /\ mem'[x] = s /\ Queue(x, <<MainJob>>, s)
                   /\ \E sel, S : s = EdgesSettled(mem[x], n, sel, S)
      BY <1>15 DEF CaptureReturns, SetMem, TypeOK
    <2>2. SameCount(mem[x], mem'[x]) /\ (SendsOwn(x) \/ SendsOn(x))
      BY <1>0, <2>1, SettledCount, QueueSends
    <2>3. pc'[x] = "advance"
      BY <1>15 DEF CaptureReturns, SetPC, TypeOK
    <2> QED
      BY <1>0, <1>15, <2>2, <2>3 DEF CaptureReturns, CallKept, historyVars
  <1>16. ASSUME NEW n \in Nodes, CaptureThrows(x, n)
         PROVE  CallKept(x)
    <2>1. \E s, r : GoSettle(x, s, r) /\ SameCount(mem[x], s)
      BY <1>0, <1>16, CountsKept DEF CaptureThrows
    <2>2. UNCHANGED <<db, fifo, sent, hosted, doubled>> /\ task'[x] = AbortedTasks(x)
      BY <1>16 DEF CaptureThrows, historyVars, TypeOK
    <2> QED
      BY <1>0, <1>2, <1>4, <2>1, <2>2 DEF CallKept
  <1> QED
    BY <1>5, <1>6, <1>7, <1>8, <1>10, <1>11, <1>12, <1>13, <1>14, <1>15, <1>16 DEF Main

\* Neither do Host code, reports, aborts, and commits that are dropped or rejected.
LEMMA KeptOthers ==
  ASSUME TypeOK, TypeOK', NEW x \in Executors, QueueOK(x),
         \/ \E n \in Nodes : Host(x, n) \/ Report(x, n)
         \/ \E kind \in {"cancel", "interrupt", "deadline"} : AbortRun(x, kind)
         \/ DropReport(x) \/ CommitConflicts(x) \/ StoreFails(x)
  PROVE  CallKept(x)
  <1>0. mem[x] \in Checkpoint /\ SameCount(mem[x], mem[x])
    BY DEF TypeOK, SameCount
  <1>1. pc[x] # "idle"
    BY IdleStep DEF Commits
  <1>2. ASSUME NEW n \in Nodes, NEW v \in {"failing", "pausing"}, NodeErrs(x, n, v), UNCHANGED mem
        PROVE  /\ \A m \in Nodes : task'[x][m] = "request" => task[x][m] = "request"
               /\ SendsOwn(x) \/ SendsOn(x)
    <2>1. \A m \in Nodes : task'[x][m] = "request" => task[x][m] = "request"
      BY <1>2 DEF NodeErrs, TypeOK
    <2>2. [kind |-> "capfail", node |-> n] \in Job
      BY DEF Job
    <2>3. SendsOwn(x) \/ SendsOn(x)
      BY <1>2, <2>2, QueueSends DEF NodeErrs, SendsOn
    <2> QED
      BY <2>1, <2>3
  <1>3. ASSUME NEW n \in Nodes, HostThrows(x, n) \/ HostTimesOut(x, n) \/ ChildPaused(x, n)
        PROVE  CallKept(x)
    <2>1. UNCHANGED <<db, mem, pc, focus, hosted, doubled>>
          /\ \E v \in {"failing", "pausing"} : NodeErrs(x, n, v)
      BY <1>3 DEF HostThrows, HostTimesOut, ChildPaused, historyVars
    <2> QED
      BY <1>0, <1>1, <1>2, <2>1 DEF CallKept
  <1>4. ASSUME NEW n \in Nodes, HostReturns(x, n)
        PROVE  CallKept(x)
    BY <1>0, <1>1, <1>4 DEF HostReturns, CallKept, SendsOn, historyVars, TypeOK
  <1>5. ASSUME NEW n \in Nodes, Report(x, n)
        PROVE  CallKept(x)
    <2>1. [kind |-> "progress", node |-> n] \in Job
      BY DEF Job
    <2>2. SendsOwn(x) \/ SendsOn(x)
      BY <1>5, <2>1, QueueSends DEF Report
    <2> QED
      BY <1>0, <1>1, <1>5, <2>2 DEF Report, CallKept, historyVars
  <1>6. ASSUME NEW kind, AbortRun(x, kind)
        PROVE  CallKept(x)
    BY <1>0, <1>1, <1>6 DEF AbortRun, AbortedTasks, CallKept, SendsOn, historyVars, TypeOK
  <1>7. CASE DropReport(x)
    BY <1>0, <1>1, <1>7 DEF DropReport, Dequeue, Sending, CallKept, SendsOwn, historyVars, TypeOK
  <1>8. CASE CommitConflicts(x) \/ StoreFails(x)
    <2>1. AtStore(x) /\ CommitRejected(x)
      BY <1>8 DEF CommitConflicts, StoreFails
    <2>2. SameCount(mem[x], mem'[x])
      <3>1. PICK v : mem'[x] = [mem[x] EXCEPT !.status = v]
        BY <2>1, Rejected
      <3> QED
        BY <1>0, <3>1 DEF SameCount, Checkpoint
    <2>3. SendsOwn(x)
      <3>1. sent'[x] = Sending(x, Tail(fifo[x]), mem'[x])
        BY <2>1, Rejected
      <3> QED
        BY <3>1 DEF Sending, SendsOwn, SameCount
    <2>4. /\ \A m \in Nodes : task'[x][m] = "request" => task[x][m] = "request"
          /\ pc'[x] = pc[x] \/ pc'[x] = "done"
          /\ UNCHANGED <<db, focus, hosted, doubled>>
      BY <2>1, Rejected
    <2> QED
      BY <1>1, <2>2, <2>3, <2>4 DEF CallKept
  <1> QED
    BY <1>3, <1>4, <1>5, <1>6, <1>7, <1>8 DEF Host

(***************************************************************************)
(* CallsOK is preserved by the steps of the executor itself.               *)
(***************************************************************************)
\* A step that writes, calls and counts nothing.
LEMMA CallsKept ==
  ASSUME TypeOK, TypeOK', NEW x \in Executors, Abreast(x), CallsOK(x), CallKept(x)
  PROVE  Abreast(x)' /\ CallsOK(x)'
  <1>1. /\ mem'[x].seq = mem[x].seq /\ mem'[x].attempts = mem[x].attempts
        /\ db' = db /\ hosted' = hosted /\ pc[x] # "idle"
        /\ \A n \in Nodes : task'[x][n] = "request" => task[x][n] = "request"
        /\ pc'[x] = "launch" => pc[x] = "launch" /\ focus'[x] = focus[x]
    BY DEF CallKept, SameCount
  <1>2. focus[x] \in SUBSET Nodes /\ \A n \in Nodes : mem[x].attempts[n] \in Nat
    BY DEF TypeOK, Checkpoint
  <1>3. \A n \in Nodes : Uncalled(x, n)' <=> Uncalled(x, n)
    BY <1>1 DEF Uncalled
  <1>4. CASE SendsOwn(x)
    <2>1. \A s \in sent'[x] : s.seq = mem[x].seq /\ s.attempts = mem[x].attempts
      BY <1>1, <1>4 DEF SendsOwn, SameCount
    <2>2. Abreast(x)'
      BY <1>1, <2>1 DEF Abreast
    <2>3. ASSUME Current(x)'
          PROVE  CallsOK(x)'
      <3>1. Current(x)
        BY <1>1, <2>3 DEF Current
      <3>2. /\ \A n \in Nodes : db.attempts[n] <= mem[x].attempts[n]
            /\ \A n \in Nodes : task[x][n] = "request" => Uncalled(x, n)
            /\ pc[x] = "launch" => \A n \in focus[x] : Uncalled(x, n)
        BY <3>1 DEF CallsOK
      <3>3. \A s \in sent'[x] : \A n \in Nodes :
              db'.attempts[n] <= s.attempts[n] /\ s.attempts[n] <= mem'[x].attempts[n]
        BY <1>1, <1>2, <2>1, <3>2
      <3>4. \A n \in Nodes : db'.attempts[n] <= mem'[x].attempts[n]
        BY <1>1, <3>2
      <3>5. \A n \in Nodes : task'[x][n] = "request" => Uncalled(x, n)'
        BY <1>1, <1>3, <3>2
      <3>6. pc'[x] = "launch" => \A n \in focus'[x] : Uncalled(x, n)'
        BY <1>1, <1>2, <1>3, <3>2
      <3>7. \A s \in sent'[x] : s.attempts = mem'[x].attempts
        BY <1>1, <2>1
      <3> QED
        BY <3>3, <3>4, <3>5, <3>6, <3>7 DEF CallsOK
    <2> QED
      BY <2>2, <2>3 DEF CallsOK
  <1>5. CASE SendsOn(x)
    <2>1. /\ sent'[x] = sent[x]
          /\ fifo'[x] # <<>> => fifo[x] # <<>> /\ Head(fifo'[x]) = Head(fifo[x])
      BY <1>5 DEF SendsOn
    <2>2. Abreast(x)'
      BY <1>1, <2>1 DEF Abreast
    <2>3. ASSUME Current(x)'
          PROVE  CallsOK(x)'
      <3>1. Current(x)
        BY <1>1, <2>3 DEF Current
      <3>2. /\ \A n \in Nodes : db'.attempts[n] <= mem'[x].attempts[n]
            /\ \A s \in sent'[x] : \A n \in Nodes :
                 db'.attempts[n] <= s.attempts[n] /\ s.attempts[n] <= mem'[x].attempts[n]
        BY <1>1, <2>1, <3>1 DEF CallsOK
      <3>3. \A n \in Nodes : task'[x][n] = "request" => Uncalled(x, n)'
        BY <1>1, <1>3, <3>1 DEF CallsOK
      <3>4. pc'[x] = "launch" => \A n \in focus'[x] : Uncalled(x, n)'
        BY <1>1, <1>2, <1>3, <3>1 DEF CallsOK
      <3>5. \A s \in sent'[x] : fifo'[x] # <<>> =>
              /\ Head(fifo'[x]).kind = "main" => s.attempts = mem'[x].attempts
              /\ Head(fifo'[x]).kind = "request" =>
                    s.attempts[Head(fifo'[x]).node] = mem'[x].attempts[Head(fifo'[x]).node]
        BY <1>1, <2>1, <3>1 DEF CallsOK
      <3> QED
        BY <3>2, <3>3, <3>4, <3>5 DEF CallsOK
    <2> QED
      BY <2>2, <2>3 DEF CallsOK
  <1> QED
    BY <1>4, <1>5 DEF CallKept

\* Launching counts one more attempt of nodes that are not active: the record does not
\* have it, so no Host code was called for it.
LEMMA CallsLaunched ==
  ASSUME TypeOK, TypeOK', NEW x \in Executors, QueueOK(x), SchedulingOK(x), Abreast(x),
         CallsOK(x), EffectsAreRecorded, LaunchBatch(x) \/ ExceedNodeRuns(x)
  PROVE  Abreast(x)' /\ CallsOK(x)'
  <1>1. PICK B \in SUBSET mem[x].ready :
          /\ mem'[x] = Launched(mem[x], B)
          /\ pc'[x] = "launch" => focus'[x] = B
    <2>1. \A k : First(k, mem[x].ready) \in SUBSET mem[x].ready
      BY DEF First
    <2>2. CASE LaunchBatch(x)
      BY <2>1, <2>2 DEF LaunchBatch, Launchable, SetMem, TypeOK
    <2>3. CASE ExceedNodeRuns(x)
      <3>1. mem'[x] = Launched(mem[x], First(Room(x), mem[x].ready)) /\ pc'[x] = "settle"
        BY <2>3 DEF ExceedNodeRuns, GoSettle, SetMem, SetPC, TypeOK
      <3> QED
        BY <2>1, <3>1
    <2> QED
      BY <2>2, <2>3
  <1>2. /\ pc[x] = "loop" /\ pc'[x] # "idle"
        /\ UNCHANGED <<db, hosted, doubled>>
    BY DEF LaunchBatch, ExceedNodeRuns, GoSettle, SetPC, historyVars, TypeOK
  <1>3. \A n \in Nodes : task'[x][n] = "request" => task[x][n] = "request"
    BY DEF LaunchBatch, ExceedNodeRuns, AbortedTasks, TypeOK
  <1>4. B \in SUBSET Nodes /\ \A n \in B : task[x][n] = "none"
    <2>1. mem[x].ready \in SUBSET Nodes
      BY DEF TypeOK, Checkpoint
    <2>2. \A n \in mem[x].ready : mem[x].nodes[n] = "ready"
      BY <1>2 DEF SchedulingOK, Scheduling
    <2>3. \A n \in Nodes : task[x][n] # "none" => mem[x].nodes[n] \in Busy
      BY <1>2 DEF SchedulingOK, Scheduling, Active
    <2> QED
      BY <1>1, <2>1, <2>2, <2>3 DEF Busy
  <1>5. /\ mem'[x].seq = mem[x].seq
        /\ mem'[x].attempts = [n \in Nodes |-> IF n \in B THEN mem[x].attempts[n] + 1
                                               ELSE mem[x].attempts[n]]
    BY <1>1 DEF Launched, TypeOK, Checkpoint
  <1>6. \A n \in Nodes : mem[x].attempts[n] \in Nat /\ db.attempts[n] \in Nat
    BY DEF TypeOK, Checkpoint
  <1>7. \A s \in sent[x] : s \in Checkpoint /\ \A n \in Nodes : s.attempts[n] \in Nat
    BY DEF TypeOK, Checkpoint
  <1>8. SendsOwn(x) \/ SendsOn(x)
    <2>1. CASE LaunchBatch(x)
      <3>1. Queue(x, <<MainJob>>, mem'[x])
        BY <2>1 DEF LaunchBatch, SetMem, TypeOK
      <3> QED
        BY <3>1, JobType, QueueSends
    <2>2. CASE ExceedNodeRuns(x)
      BY <2>2 DEF ExceedNodeRuns, SendsOn
    <2> QED
      BY <2>1, <2>2
  <1>9. Abreast(x)'
    BY <1>2, <1>5, <1>8 DEF Abreast, SendsOwn, SendsOn, SameCount
  <1>10. ASSUME Current(x)'
         PROVE  CallsOK(x)'
    <2>1. Current(x)
      BY <1>2, <1>5, <1>10 DEF Current
    <2>2. /\ \A n \in Nodes : db.attempts[n] <= mem[x].attempts[n]
          /\ \A n \in Nodes : task[x][n] = "request" => Uncalled(x, n)
      BY <2>1 DEF CallsOK
    <2>3. \A n \in Nodes : db'.attempts[n] <= mem'[x].attempts[n]
      BY <1>2, <1>5, <1>6, <2>2
    <2>4. \A n \in Nodes : task'[x][n] = "request" => Uncalled(x, n)'
      BY <1>2, <1>3, <1>4, <1>5, <2>2 DEF Uncalled
    <2>5. \A n \in B : Uncalled(x, n)'
      <3>1. \A n \in B : hosted[n] \subseteq 1 .. db.attempts[n]
        BY <1>4 DEF EffectsAreRecorded
      <3>2. \A n \in B : mem[x].attempts[n] + 1 >= 1 /\ mem[x].attempts[n] + 1 \notin hosted[n]
        BY <1>4, <1>6, <2>2, <3>1
      <3> QED
        BY <1>2, <1>4, <1>5, <3>2 DEF Uncalled
    <2>6. pc'[x] = "launch" => \A n \in focus'[x] : Uncalled(x, n)'
      BY <1>1, <2>5
    <2>7. ASSUME SendsOwn(x)
          PROVE  CallsOK(x)'
      <3>1. \A s \in sent'[x] : s.attempts = mem'[x].attempts
        BY <2>7 DEF SendsOwn, SameCount
      <3>2. \A n \in Nodes : mem'[x].attempts[n] \in Nat
        BY DEF TypeOK, Checkpoint
      <3> QED
        BY <2>3, <2>4, <2>6, <3>1, <3>2 DEF CallsOK
    <2>8. ASSUME SendsOn(x)
          PROVE  CallsOK(x)'
      <3>1. \A s \in sent'[x] : \A n \in Nodes :
              db'.attempts[n] <= s.attempts[n] /\ s.attempts[n] <= mem'[x].attempts[n]
        <4>1. \A s \in sent[x] : \A n \in Nodes :
                db.attempts[n] <= s.attempts[n] /\ s.attempts[n] <= mem[x].attempts[n]
          BY <2>1 DEF CallsOK
        <4>2. \A n \in Nodes : mem[x].attempts[n] <= mem'[x].attempts[n] /\ mem'[x].attempts[n] \in Nat
          BY <1>5, <1>6
        <4> QED
          BY <1>2, <1>6, <1>7, <2>8, <4>1, <4>2 DEF SendsOn
      <3>2. ASSUME NEW s \in sent'[x], fifo[x] # <<>>
            PROVE  /\ Head(fifo[x]).kind # "main"
                   /\ Head(fifo[x]).kind = "request" =>
                        s.attempts[Head(fifo[x]).node] = mem'[x].attempts[Head(fifo[x]).node]
        <4> DEFINE h == Head(fifo[x])
        <4>1. h.node \in Nodes /\ JobOK(pc[x], task[x], h)
          BY <3>2, HeadOK
        <4>2. h.kind # "main"
          BY <1>2, <4>1 DEF JobOK, Committing
        <4>3. ASSUME h.kind = "request"
              PROVE  s.attempts[h.node] = mem'[x].attempts[h.node]
          <5>1. s \in sent[x] /\ s.attempts[h.node] = mem[x].attempts[h.node]
            BY <2>1, <2>8, <3>2, <4>3 DEF SendsOn, CallsOK
          <5>2. h.node \notin B
            BY <1>4, <4>1, <4>3 DEF JobOK
          <5> QED
            BY <1>5, <4>1, <5>1, <5>2
        <4> QED
          BY <4>2, <4>3
      <3>3. ASSUME fifo[x] = <<>>, fifo'[x] # <<>>
            PROVE  FALSE
        BY <2>8, <3>3 DEF SendsOn
      <3>4. fifo'[x] # <<>> => Head(fifo'[x]) = Head(fifo[x])
        BY <2>8 DEF SendsOn
      <3>5. \A s \in sent'[x] : fifo'[x] # <<>> =>
              /\ Head(fifo'[x]).kind = "main" => s.attempts = mem'[x].attempts
              /\ Head(fifo'[x]).kind = "request" =>
                    s.attempts[Head(fifo'[x]).node] = mem'[x].attempts[Head(fifo'[x]).node]
        BY <3>2, <3>3, <3>4
      <3> QED
        BY <2>3, <2>4, <2>6, <3>1, <3>5 DEF CallsOK
    <2> QED
      BY <1>8, <2>7, <2>8
  <1> QED
    BY <1>9, <1>10 DEF CallsOK

\* A run is entered with the counts of the record, and a crash forgets everything.
LEMMA CallsEntered ==
  ASSUME TypeOK, TypeOK', NEW x \in Executors, Recover(x) \/ Resume(x) \/ Cancel(x) \/ Crash(x)
  PROVE  Abreast(x)' /\ CallsOK(x)' /\ UNCHANGED <<db, hosted, doubled>>
  <1>1. UNCHANGED <<db, hosted, doubled>>
    BY DEF Recover, Resume, Cancel, Crash, EnterRecovered, historyVars
  <1>2. db \in Checkpoint /\ \A n \in Nodes : db.attempts[n] \in Nat
    BY DEF TypeOK, Checkpoint
  <1>3. ASSUME NEW s, NEW at, NEW r, Enter(x, s, at, r), SameCount(db, s), at # "idle", at # "launch"
        PROVE  Abreast(x)' /\ CallsOK(x)'
    <2>1. /\ mem'[x] = s /\ sent'[x] = {s} /\ task'[x] = NoTasks /\ pc'[x] = at
      BY <1>3 DEF Enter, SetMem, SetPC, TypeOK
    <2>2. /\ mem'[x].seq = db'.seq /\ mem'[x].attempts = db'.attempts
          /\ \A t \in sent'[x] : t.seq = db'.seq /\ t.attempts = db'.attempts
      BY <1>1, <1>3, <2>1 DEF SameCount
    <2>3. Abreast(x)'
      BY <1>1, <1>2, <2>2 DEF Abreast, Checkpoint
    <2>4. \A n \in Nodes : task'[x][n] = "none"
      BY <2>1 DEF NoTasks
    <2>5. CallsOK(x)'
      BY <1>1, <1>2, <1>3, <2>1, <2>2, <2>4 DEF CallsOK
    <2> QED
      BY <2>3, <2>5
  <1>4. CASE Recover(x) \/ Resume(x)
    <2>1. \E R, F : EnterRecovered(x, R, F)
      BY <1>4 DEF Recover, Resume
    <2>2. \E s, at, r : Enter(x, s, at, r) /\ SameCount(db, s) /\ at \in {"boot", "finish"}
      BY <1>2, <2>1, RecoveredCount DEF EnterRecovered
    <2> QED
      BY <1>1, <1>3, <2>2
  <1>5. CASE Cancel(x)
    <2>1. SameCount(db, CancelledByCall(db))
      BY <1>2, CountsKept, GraphFacts
    <2> QED
      BY <1>1, <1>3, <1>5, <2>1 DEF Cancel
  <1>6. CASE Crash(x)
    <2>1. mem'[x] = InitialState /\ sent'[x] = {} /\ pc'[x] = "idle"
      BY <1>6 DEF Crash, Enter, SetMem, SetPC, TypeOK
    <2>2. mem'[x].seq = 0 /\ db.seq \in Nat
      BY <1>2, <2>1 DEF InitialState, Checkpoint
    <2> QED
      BY <1>1, <2>1, <2>2 DEF Abreast, CallsOK, Current
  <1> QED
    BY <1>4, <1>5, <1>6, <1>1

\* A step that commits to the store and calls Host code for the nodes S: attempts that
\* were not called before and that the commit in flight records.
CallStored(x, S) ==
    /\ \E rest : Store(x, rest)
    /\ \A n \in Nodes : hosted'[n] = IF n \in S THEN hosted[n] \cup {mem[x].attempts[n]}
                                     ELSE hosted[n]
    /\ doubled' \subseteq doubled \cup {n \in S : mem[x].attempts[n] \in hosted[n]}
    /\ \A n \in S : Uncalled(x, n)
    /\ \A s \in sent[x] : \A n \in S : s.attempts[n] = mem[x].attempts[n]
    /\ \A n \in Nodes : task'[x][n] = "request" => n \notin S /\ Uncalled(x, n)
    /\ pc'[x] = "launch" => \A n \in focus'[x] : n \notin S /\ Uncalled(x, n)

\* Every commit that the store accepts is such a step.
LEMMA Stored ==
  ASSUME TypeOK, TypeOK', NEW x \in Executors, QueueOK(x), SchedulingOK(x), CallsOK(x),
         \/ StartBatch(x) \/ MainCommitted(x) \/ RequestCommitted(x)
         \/ FailureCommitted(x) \/ ReportCommitted(x)
  PROVE  Current(x) /\ \E S \in SUBSET Nodes : CallStored(x, S)
  <1>1. \E rest : Store(x, rest)
    BY DEF StartBatch, MainCommitted, RequestCommitted, FailureCommitted, ReportCommitted
  <1>2. Current(x)
    BY <1>1, IdleStep, StoredState DEF Current, Commits
  <1>3. /\ \A n \in Nodes : task[x][n] = "request" => Uncalled(x, n)
        /\ pc[x] = "launch" => \A n \in focus[x] : Uncalled(x, n)
    BY <1>2 DEF CallsOK
  <1>4. focus[x] \in SUBSET Nodes
    BY DEF TypeOK
  <1>5. fifo[x] # <<>>
    BY DEF StartBatch, MainCommitted, RequestCommitted, FailureCommitted, ReportCommitted,
        InFlight, AtStore
  <1>6. ASSUME UNCHANGED <<hosted, doubled>>, pc'[x] # "launch" \/ UNCHANGED <<pc, focus>>,
               \A n \in Nodes : task'[x][n] = "request" => task[x][n] = "request"
        PROVE  CallStored(x, {})
    BY <1>1, <1>3, <1>4, <1>6 DEF CallStored
  <1>7. CASE MainCommitted(x)
    <2>1. pc'[x] # "launch" /\ UNCHANGED <<task, hosted, doubled>>
      BY <1>7 DEF MainCommitted, SetPC, historyVars, TypeOK
    <2> QED
      BY <1>2, <1>6, <2>1
  <1>8. CASE FailureCommitted(x)
    <2>1. UNCHANGED <<pc, focus, hosted, doubled>>
      BY <1>8 DEF FailureCommitted, historyVars
    <2>2. \A n \in Nodes : task'[x][n] = "request" => task[x][n] = "request"
      BY <1>8 DEF FailureCommitted, TypeOK
    <2> QED
      BY <1>2, <1>6, <2>1, <2>2
  <1>9. CASE ReportCommitted(x)
    BY <1>2, <1>6, <1>9 DEF ReportCommitted, historyVars
  <1>10. CASE RequestCommitted(x)
    <2> DEFINE n == Head(fifo[x]).node
    <2>1. n \in Nodes /\ task[x][n] = "request" /\ Head(fifo[x]).kind = "request"
      BY <1>5, <1>10, HeadOK DEF RequestCommitted, InFlight, JobOK
    <2>2. HostCalled({n}, mem[x]) /\ UNCHANGED <<pc, focus>>
      BY <1>10 DEF RequestCommitted
    <2>3. \A m \in Nodes : task'[x][m] = "request" => m # n /\ task[x][m] = "request"
      BY <1>10 DEF RequestCommitted, TypeOK
    <2>4. \A s \in sent[x] : s.attempts[n] = mem[x].attempts[n]
      BY <1>2, <1>5, <2>1 DEF CallsOK
    <2>5. pc'[x] = "launch" => \A m \in focus'[x] : m # n /\ Uncalled(x, m)
      BY <1>3, <2>1, <2>2 DEF SchedulingOK, Scheduling
    <2> HIDE DEF n
    <2>6. CallStored(x, {n})
      BY <1>1, <1>3, <2>1, <2>2, <2>3, <2>4, <2>5 DEF CallStored, HostCalled
    <2> QED
      BY <1>2, <2>1, <2>6
  <1>11. CASE StartBatch(x)
    <2>1. PICK asking \in SUBSET focus[x], direct \in SUBSET focus[x] :
            /\ asking \cap direct = {}
            /\ \A n \in Nodes : IF n \in asking THEN task'[x][n] = "request"
                                ELSE IF n \in focus[x] THEN task'[x][n] \in {"err", "exec"}
                                ELSE task'[x][n] = task[x][n]
            /\ HostCalled(direct, mem[x])
      BY <1>11, StartedBatch
    <2>2. pc[x] = "launch" /\ pc'[x] = "race" /\ Head(fifo[x]).kind = "main"
      BY <1>11 DEF StartBatch, InFlight, SetPC, TypeOK
    <2>3. \A s \in sent[x] : s.attempts = mem[x].attempts
      BY <1>2, <1>5, <2>2 DEF CallsOK
    <2>4. \A n \in Nodes : task'[x][n] = "request" => n \notin direct /\ Uncalled(x, n)
      BY <1>3, <2>1, <2>2
    <2>5. direct \in SUBSET Nodes /\ \A n \in direct : Uncalled(x, n)
      BY <1>3, <1>4, <2>1, <2>2
    <2>6. CallStored(x, direct)
      BY <1>1, <2>1, <2>2, <2>3, <2>4, <2>5 DEF CallStored, HostCalled
    <2> QED
      BY <1>2, <2>5, <2>6
  <1> QED
    BY <1>7, <1>8, <1>9, <1>10, <1>11

\* After it, what was called is in the record, nothing was called twice, and the executor
\* is the only one that has heard of it.
LEMMA CallsStored ==
  ASSUME TypeOK, TypeOK', NEW x \in Executors, Abreast(x), CallsOK(x), Current(x),
         EffectsAreRecorded, NoAttemptRunsTwice, NEW S \in SUBSET Nodes, CallStored(x, S)
  PROVE  /\ db'.seq = db.seq + 1
         /\ Abreast(x)' /\ CallsOK(x)' /\ EffectsAreRecorded' /\ NoAttemptRunsTwice'
  <1>1. PICK rest : Store(x, rest)
    BY DEF CallStored
  <1>2. PICK s \in sent[x] : db' = [s EXCEPT !.seq = s.seq + 1]
    BY <1>1, StoredState
  <1>3. s \in Checkpoint /\ s.seq = mem[x].seq /\ mem[x].seq = db.seq
    BY <1>1, StoredState DEF Abreast, TypeOK
  <1>4. db'.seq = db.seq + 1 /\ db'.attempts = s.attempts
    BY <1>2, <1>3 DEF Checkpoint
  <1>5. mem'[x].attempts = mem[x].attempts /\ mem'[x].seq = db'.seq
    BY <1>1, <1>3, <1>4, StoredFields
  <1>6. \A t \in sent'[x] : t = mem'[x]
    BY <1>1, StoredState DEF Sending
  <1>7. \A n \in Nodes : /\ db.attempts[n] \in Nat /\ s.attempts[n] \in Nat
                         /\ mem[x].attempts[n] \in Nat
    BY <1>3 DEF TypeOK, Checkpoint
  <1>8. \A n \in Nodes : db.attempts[n] <= s.attempts[n] /\ s.attempts[n] <= mem[x].attempts[n]
    BY DEF CallsOK
  <1>9. /\ \A n \in Nodes : hosted'[n] = IF n \in S THEN hosted[n] \cup {mem[x].attempts[n]}
                                         ELSE hosted[n]
        /\ \A n \in S : Uncalled(x, n) /\ s.attempts[n] = mem[x].attempts[n]
    BY DEF CallStored
  <1>10. NoAttemptRunsTwice'
    BY DEF CallStored, NoAttemptRunsTwice, Uncalled
  <1>11. EffectsAreRecorded'
    <2> SUFFICES ASSUME NEW n \in Nodes, NEW k \in hosted'[n]
                 PROVE  k \in 1 .. db'.attempts[n]
      BY DEF EffectsAreRecorded
    <2>1. CASE k \in hosted[n]
      <3>1. k \in 1 .. db.attempts[n]
        BY <2>1 DEF EffectsAreRecorded
      <3> QED
        BY <1>4, <1>7, <1>8, <3>1
    <2>2. CASE k \notin hosted[n]
      <3>1. k = mem[x].attempts[n] /\ n \in S
        BY <1>9, <2>2
      <3> QED
        BY <1>4, <1>7, <1>9, <3>1 DEF Uncalled
    <2> QED
      BY <2>1, <2>2
  <1>12. Abreast(x)'
    BY <1>4, <1>5, <1>6 DEF Abreast, TypeOK, Checkpoint
  <1>13. \A n \in Nodes : n \notin S /\ Uncalled(x, n) => Uncalled(x, n)'
    BY <1>5, <1>9 DEF Uncalled
  <1>14. CallsOK(x)'
    <2>1. \A n \in Nodes : db'.attempts[n] <= mem'[x].attempts[n]
      BY <1>4, <1>5, <1>8
    <2>2. \A n \in Nodes : task'[x][n] = "request" => Uncalled(x, n)'
      BY <1>13 DEF CallStored
    <2>3. pc'[x] = "launch" => \A n \in focus'[x] : Uncalled(x, n)'
      BY <1>13 DEF CallStored, TypeOK
    <2>4. \A t \in sent'[x] : \A n \in Nodes :
            db'.attempts[n] <= t.attempts[n] /\ t.attempts[n] <= mem'[x].attempts[n]
      BY <1>5, <1>6, <1>7, <2>1
    <2>5. \A t \in sent'[x] : t.attempts = mem'[x].attempts
      BY <1>6
    <2> QED
      BY <2>1, <2>2, <2>3, <2>4, <2>5 DEF CallsOK
  <1> QED
    BY <1>4, <1>10, <1>11, <1>12, <1>14

(***************************************************************************)
(* The other executors: a commit leaves them behind the record.            *)
(***************************************************************************)
\* Their own state is as before, and either the record is too or they are not current.
LEMMA CallsOthers ==
  ASSUME TypeOK, NEW y \in Executors, Untouched(y), QueueOK(y), SchedulingOK(y),
         Abreast(y), CallsOK(y),
         UNCHANGED <<db, hosted, doubled>> \/ db'.seq = db.seq + 1
  PROVE  QueueOK(y)' /\ SchedulingOK(y)' /\ Abreast(y)' /\ CallsOK(y)'
  <1>1. QueueOK(y)'
    BY DEF Untouched, QueueOK
  <1>2. SchedulingOK(y)'
    BY ConsistentNow DEF Untouched
  <1>3. mem[y].seq \in Nat /\ db.seq \in Nat
    BY DEF TypeOK, Checkpoint
  <1>4. CASE UNCHANGED <<db, hosted, doubled>>
    BY <1>1, <1>2, <1>4 DEF Untouched, Abreast, CallsOK, Current, Uncalled
  <1>5. CASE db'.seq = db.seq + 1
    BY <1>1, <1>2, <1>3, <1>5 DEF Untouched, Abreast, CallsOK, Current
  <1> QED
    BY <1>4, <1>5

(***************************************************************************)
(* The invariant.                                                          *)
(***************************************************************************)
\* It holds before anyone has started.
LEMMA CallInit == Init => CallInv
  <1> SUFFICES ASSUME Init
               PROVE  CallInv
    OBVIOUS
  <1>1. TypeOK
    BY TypeInit
  <1>2. ASSUME NEW x \in Executors
        PROVE  QueueOK(x) /\ SchedulingOK(x) /\ Abreast(x) /\ CallsOK(x)
    <2>1. /\ pc[x] = "idle" /\ fifo[x] = <<>> /\ task[x] = NoTasks /\ late[x] = {}
          /\ sent[x] = {} /\ mem[x].seq = 0 /\ db.seq = 0
      BY DEF Init, InitialState
    <2>2. Len(fifo[x]) = 0
      BY <2>1
    <2> QED
      BY <2>1, <2>2 DEF QueueOK, GoodQueue, SchedulingOK, Scheduling, Abreast, CallsOK, Current
  <1>3. EffectsAreRecorded /\ NoAttemptRunsTwice
    BY DEF Init, EffectsAreRecorded, NoAttemptRunsTwice
  <1> QED
    BY <1>1, <1>2, <1>3 DEF CallInv

\* What one executor's step does to the record and to its own part of the invariant.
LEMMA CallStep ==
  ASSUME CallInv, TypeOK', NEW x \in Executors, Step(x)
  PROVE  /\ QueueOK(x)' /\ SchedulingOK(x)' /\ Abreast(x)' /\ CallsOK(x)'
         /\ EffectsAreRecorded' /\ NoAttemptRunsTwice'
         /\ UNCHANGED <<db, hosted, doubled>> \/ db'.seq = db.seq + 1
  <1>1. /\ TypeOK /\ QueueOK(x) /\ SchedulingOK(x) /\ Abreast(x) /\ CallsOK(x)
        /\ EffectsAreRecorded /\ NoAttemptRunsTwice
    BY DEF CallInv
  <1>2. QueueOK(x)' /\ SchedulingOK(x)'
    BY <1>1, QueueStep, SchedulingStep
  <1>3. ASSUME Abreast(x)', CallsOK(x)', UNCHANGED <<db, hosted, doubled>>
        PROVE  /\ Abreast(x)' /\ CallsOK(x)' /\ EffectsAreRecorded' /\ NoAttemptRunsTwice'
               /\ UNCHANGED <<db, hosted, doubled>> \/ db'.seq = db.seq + 1
    <2>1. EffectsAreRecorded'
      BY <1>1, <1>3 DEF EffectsAreRecorded
    <2>2. NoAttemptRunsTwice'
      BY <1>1, <1>3 DEF NoAttemptRunsTwice
    <2> QED
      BY <1>3, <2>1, <2>2
  <1>4. CASE CallKept(x)
    <2>1. UNCHANGED <<db, hosted, doubled>>
      BY <1>4 DEF CallKept
    <2>2. Abreast(x)' /\ CallsOK(x)'
      BY <1>1, <1>4, CallsKept
    <2> QED
      BY <1>2, <1>3, <2>1, <2>2
  <1>5. CASE LaunchBatch(x) \/ ExceedNodeRuns(x)
    <2>1. UNCHANGED <<db, hosted, doubled>>
      BY <1>5 DEF LaunchBatch, ExceedNodeRuns, historyVars
    <2> QED
      BY <1>1, <1>2, <1>3, <1>5, <2>1, CallsLaunched
  <1>6. CASE Recover(x) \/ Resume(x) \/ Cancel(x) \/ Crash(x)
    BY <1>1, <1>2, <1>3, <1>6, CallsEntered
  <1>7. CASE \/ StartBatch(x) \/ MainCommitted(x) \/ RequestCommitted(x)
             \/ FailureCommitted(x) \/ ReportCommitted(x)
    <2>1. Current(x) /\ \E S \in SUBSET Nodes : CallStored(x, S)
      BY <1>1, <1>7, Stored
    <2> QED
      BY <1>1, <1>2, <2>1, CallsStored
  <1>8. \/ CallKept(x) \/ LaunchBatch(x) \/ ExceedNodeRuns(x)
        \/ Recover(x) \/ Resume(x) \/ Cancel(x) \/ Crash(x)
        \/ StartBatch(x) \/ MainCommitted(x) \/ RequestCommitted(x)
        \/ FailureCommitted(x) \/ ReportCommitted(x)
    BY <1>1, KeptMain, KeptOthers DEF Step, Commits, Environment
  <1> QED
    BY <1>2, <1>4, <1>5, <1>6, <1>7, <1>8

\* It is inductive.
LEMMA CallNext == CallInv /\ [Next]_vars => CallInv'
  <1> SUFFICES ASSUME CallInv, [Next]_vars
               PROVE  CallInv'
    OBVIOUS
  <1>1. TypeOK'
    BY TypeNext DEF CallInv
  <1>2. CASE Next
    <2>1. PICK x \in Executors : Step(x)
      BY <1>2 DEF Next, Step
    <2>2. /\ QueueOK(x)' /\ SchedulingOK(x)' /\ Abreast(x)' /\ CallsOK(x)'
          /\ EffectsAreRecorded' /\ NoAttemptRunsTwice'
          /\ UNCHANGED <<db, hosted, doubled>> \/ db'.seq = db.seq + 1
      BY <1>1, <2>1, CallStep
    <2>3. ASSUME NEW y \in Executors, y # x
          PROVE  QueueOK(y)' /\ SchedulingOK(y)' /\ Abreast(y)' /\ CallsOK(y)'
      <3>1. Untouched(y)
        BY <2>1, <2>3, OthersUntouched DEF CallInv
      <3> QED
        BY <2>2, <3>1, CallsOthers DEF CallInv
    <2> QED
      BY <1>1, <2>2, <2>3 DEF CallInv
  <1>3. CASE UNCHANGED vars
    <2>1. UNCHANGED <<db, hosted, doubled>> /\ \A y \in Executors : Untouched(y)
      BY <1>3 DEF vars, executorVars, historyVars, Untouched
    <2>2. \A y \in Executors : QueueOK(y)' /\ SchedulingOK(y)' /\ Abreast(y)' /\ CallsOK(y)'
      BY <2>1, CallsOthers DEF CallInv
    <2>3. EffectsAreRecorded' /\ NoAttemptRunsTwice'
      BY <2>1 DEF CallInv, EffectsAreRecorded, NoAttemptRunsTwice
    <2> QED
      BY <1>1, <2>2, <2>3 DEF CallInv
  <1> QED
    BY <1>2, <1>3

\* The invariant of calls and attempts holds in every reachable state.
THEOREM CallsCorrect == Spec => []CallInv
  BY CallInit, CallNext, PTL DEF Spec

\* No attempt of a node ever calls the Host twice (node.started is committed under the
\* compare-and-set before #executeNode is called).
THEOREM UniqueAttempts == Spec => []NoAttemptRunsTwice
  <1>1. CallInv => NoAttemptRunsTwice
    BY DEF CallInv
  <1> QED
    BY <1>1, CallsCorrect, PTL

\* The record never forgets an attempt whose Host code was called (nodeAttempts).
THEOREM RecordedEffects == Spec => []EffectsAreRecorded
  <1>1. CallInv => EffectsAreRecorded
    BY DEF CallInv
  <1> QED
    BY <1>1, CallsCorrect, PTL
=============================================================================
