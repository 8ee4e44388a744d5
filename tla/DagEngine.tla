----------------------------- MODULE DagEngine -----------------------------
(***************************************************************************)
(* The core engine (DagWorkflowEngine, src/core/engine.ts): executors that *)
(* load the durable record of one run, schedule its nodes, and commit each *)
(* step to the run store under a compare-and-set on the sequence number.   *)
(*                                                                         *)
(* The record of the run store is db.  An executor is one call of          *)
(* #execute: mem[x] is its RuntimeState, pc[x] says what its main loop     *)
(* awaits, task[x] holds the #executeNode promises of its `active` map,    *)
(* and fifo[x] is commitTail, the queue of commits not yet written.  A     *)
(* commit writes the state mem[x] had when its turn came (sent[x]), which  *)
(* need not be the state it was queued in.  Everything between two awaits  *)
(* is one action.  Any number of executors may work on the run: the core   *)
(* has no lease, and the compare-and-set of the store alone keeps them     *)
(* apart.                                                                  *)
(***************************************************************************)
EXTENDS WorkflowGraph, Sequences

CONSTANTS
    Executors,          \* #execute calls that may be alive at once
    External,           \* nodes whose definition has effects: "external"
    NeverRetry,         \* nodes whose definition has retry: "never"
    HumanWait,          \* nodes whose definition has execution: "human-wait"
    Nested,             \* nodes that run a child workflow and may ask for a pause
    Reporting,          \* nodes whose Host code calls checkpointProgress
    Timed,              \* nodes with a policy.timeoutMs
    MaxAttempts,        \* MaxAttempts[n]: policy.retry.maxAttempts
    MaxConcurrent,      \* policies.maxConcurrentNodes
    MaxNodeRuns,        \* policies.maxNodeRuns
    CaptureMayFail,     \* a capture gateway is installed and may throw
    MayFail,            \* nodes whose execution may end in an error
    \* Bounds of the model: how often the environment may do what it is free to do.
    MaxResumes, MaxCrashes, MaxAborts, MaxReports, MaxFaults

ASSUME EngineAssumption ==
    /\ IsFiniteSet(Executors)
    /\ NeverRetry \subseteq Nodes
    /\ External \subseteq Nodes
    /\ MaxAttempts \in [Nodes -> Nat \ {0}]
    /\ \A n \in NeverRetry : MaxAttempts[n] = 1   \* the compiler rejects a retry policy
    /\ MaxConcurrent \in Nat \ {0}
    /\ MaxNodeRuns \in Nat
    /\ CaptureMayFail \in BOOLEAN
    /\ {MaxResumes, MaxCrashes, MaxAborts, MaxReports, MaxFaults} \subseteq Nat

VARIABLES
    db,         \* the run store's record: the latest checkpoint
    mem,        \* mem[x]: the RuntimeState of executor x
    pc,         \* pc[x]: what the main loop of x awaits
    why,        \* why[x]: the finish that x is settling or committing
    focus,      \* focus[x]: the nodes main is launching or completing
    task,       \* task[x][n]: the #executeNode promise of node n
    fifo,       \* fifo[x]: commits queued on commitTail, the first one in flight
    sent,       \* sent[x]: the checkpoint in flight to the store, if there is one
    abort,      \* abort[x]: why the controller of x is aborted, if it is
    late        \* late[x]: nodes with a timed-out attempt still running in the Host

\* History, read by the properties only.
VARIABLES
    hosted,     \* hosted[n]: attempts of n for which Host code has been called
    doubled,    \* nodes for which it was called twice for one attempt
    allowed,    \* allowed[n]: re-executions of n that an operator decided or, if n
                \* is not retry-never, that a recovery or a pause asked for
    used        \* how much of each bound has been used

executorVars == <<mem, pc, why, focus, task, fifo, sent, abort, late>>
historyVars  == <<hosted, doubled, allowed>>
vars == <<db, executorVars, historyVars, used>>

RunStatus == {"running", "completed", "failed", "cancelled", "paused"}
Terminal  == {"completed", "failed", "cancelled"}
Busy      == {"running", "waiting"}
Open      == {"pending", "ready", "running", "waiting"}

Checkpoint == [seq : Nat, status : RunStatus, nodes : [Nodes -> NodeStatus],
               edges : [Edges -> EdgeStatus], attempts : [Nodes -> Nat],
               ready : SUBSET Nodes, nodeRuns : Nat]

\* What main awaits.  It has a commit of its own queued in boot (the initial
\* events), launch (node.started), advance (a completion or a retry) and finish.
PCs        == {"idle", "boot", "loop", "launch", "race", "capture", "advance",
               "settle", "finish", "done"}
Committing == {"boot", "launch", "advance", "finish"}
Reasons    == {"none", "fail", "pause", "cancel", "interrupt", "completed"}
Aborts     == {"none", "cancel", "interrupt", "deadline", "internal"}

\* A node's promise: requesting (capability.requested is queued), executing in the
\* Host, failing or pausing (capability.failed is queued), or settled.
Tasks    == {"none", "request", "exec", "failing", "pausing"} \cup
            {"ok", "err", "pause", "lost"}
Settled  == {"ok", "err", "pause", "lost"}

Job    == [kind : {"main", "request", "capfail", "progress"}, node : Nodes]
MainJob == [kind |-> "main", node |-> Start]
Bounds == [resume : Nat, crash : Nat, abort : Nat, report : Nat, fault : Nat]

Active(x) == {n \in Nodes : task[x][n] # "none"}
Live(x)   == pc[x] \notin {"idle", "done"}
NoTasks   == [n \in Nodes |-> "none"]

(***************************************************************************)
(* Transitions of the in-memory state.                                     *)
(***************************************************************************)
\* createInitialState, with the start node ready.
InitialState ==
    [seq |-> 0, status |-> "running",
     nodes |-> [n \in Nodes |-> IF n = Start THEN "ready" ELSE "pending"],
     edges |-> [e \in Edges |-> "unknown"],
     attempts |-> [n \in Nodes |-> 0], ready |-> {Start}, nodeRuns |-> 0]

\* Give every node of S the status v.
Mark(nodes, S, v) == [n \in Nodes |-> IF n \in S THEN v ELSE nodes[n]]

\* A wrong version that does not count the attempt.
LaunchedUncounted(s, B) ==
    [s EXCEPT !.nodes = Mark(s.nodes, B, "running"),
              !.ready = s.ready \ B,
              !.nodeRuns = s.nodeRuns + Cardinality(B)]

\* The loop that shifts nodes off the ready queue and counts the attempt.
Launched(s, B) ==
    [s EXCEPT !.nodes = [n \in Nodes |-> IF n \notin B THEN s.nodes[n]
                                         ELSE IF n \in HumanWait THEN "waiting" ELSE "running"],
              !.attempts = [n \in Nodes |-> IF n \in B THEN s.attempts[n] + 1 ELSE s.attempts[n]],
              !.ready = s.ready \ B,
              !.nodeRuns = s.nodeRuns + Cardinality(B)]

\* A wrong version that wakes every decided node, whether or not an edge to it is taken.
EdgesSettledWakingAll(s, n, sel, S) ==
    LET woken == Resolved(s.nodes, s.edges, n, sel, S)
    IN  [s EXCEPT !.nodes = Mark(Mark(s.nodes, S, "skipped"), woken, "ready"),
                  !.edges = EdgesAfter(s.edges, n, sel, S),
                  !.ready = s.ready \cup woken]

\* settleOutgoingEdges, where S are the nodes it skips.
EdgesSettled(s, n, sel, S) ==
    LET woken == NewlyReady(s.nodes, s.edges, n, sel, S)
    IN  [s EXCEPT !.nodes = Mark(Mark(s.nodes, S, "skipped"), woken, "ready"),
                  !.edges = EdgesAfter(s.edges, n, sel, S),
                  !.ready = s.ready \cup woken]

\* Wrong versions: one forgets the queue, one starts to count attempts anew.
RequeuedUnqueued(s, n) == [s EXCEPT !.nodes[n] = "ready"]
RequeuedAfresh(s, n)   == [s EXCEPT !.nodes[n] = "ready", !.ready = s.ready \cup {n},
                                    !.attempts[n] = 0]

\* A failed attempt that is retried.
Requeued(s, n) == [s EXCEPT !.nodes[n] = "ready", !.ready = s.ready \cup {n}]

\* settleActive followed by finishFailure.
FinishFailed(s, act) ==
    [s EXCEPT !.nodes = Mark(s.nodes, {n \in act : s.nodes[n] \in Busy}, "cancelled"),
              !.status = "failed"]

\* A wrong version that leaves the status of the run as it was.
FinishCancelledQuietly(s, asFailure) ==
    [s EXCEPT !.nodes = Mark(s.nodes, {n \in Nodes : s.nodes[n] \in Open}, "cancelled"),
              !.status = IF asFailure THEN "failed" ELSE @]

\* finishCancellation; the ready queue keeps the nodes it held.
FinishCancelled(s, asFailure) ==
    [s EXCEPT !.nodes = Mark(s.nodes, {n \in Nodes : s.nodes[n] \in Open}, "cancelled"),
              !.status = IF asFailure THEN "failed" ELSE "cancelled"]

\* Wrong versions: one writes the node's status as the run's, one leaves busy siblings.
FinishPausedMistyped(s, act) == [s EXCEPT !.status = "needs_attention"]
FinishPausedAlone(s, act)    == [s EXCEPT !.status = "paused"]

\* finishPause, after the pausing node was marked.
FinishPaused(s, act) ==
    LET stopped == {n \in act : s.nodes[n] \in Busy}
        again   == stopped \ NeverRetry
    IN  [s EXCEPT !.nodes = Mark(Mark(s.nodes, stopped, "needs_attention"), again, "ready"),
                  !.ready = s.ready \cup again,
                  !.status = "paused"]

\* The administrative cancel of an executor-less call; this one clears the queue.
CancelledByCall(s) ==
    [s EXCEPT !.nodes = Mark(s.nodes, {n \in Nodes : s.nodes[n] \in Open \cup {"needs_attention"}},
                             "cancelled"),
              !.ready = {}, !.status = "cancelled"]

\* resume: what becomes of the nodes a previous executor left busy or in need of
\* attention, given the operator's decisions to retry R and to fail F.
Unsettled(s) == {n \in Nodes : s.nodes[n] \in Busy \cup {"needs_attention"}}

\* A wrong version that repeats whatever was running.
RetriedAlways(s, R, F) == R \cup {n \in Unsettled(s) \ F : s.nodes[n] \in Busy}

Retried(s, R, F) ==
    R \cup {n \in Unsettled(s) \ F : s.nodes[n] \in Busy /\ n \notin NeverRetry}

Recovered(s, R, F) ==
    LET again == Retried(s, R, F)
        stuck == Unsettled(s) \ (again \cup F)
    IN  [s EXCEPT !.nodes = Mark(Mark(Mark(s.nodes, again, "ready"), F, "failed"),
                                 stuck, "needs_attention"),
                  !.ready = s.ready \cup again,
                  !.status = IF F # {} THEN "failed"
                             ELSE IF stuck # {} THEN "paused" ELSE "running"]

\* restoreState refuses a checkpoint whose queue holds a node that is not ready.
Restorable(s) == \A n \in s.ready : s.nodes[n] = "ready"

(***************************************************************************)
(* Parts that several actions share.                                       *)
(***************************************************************************)
SetMem(x, s) == mem' = [mem EXCEPT ![x] = s]
SetPC(x, v)  == pc' = [pc EXCEPT ![x] = v]

\* controller.abort rejects every pending Host call at once (awaitExecutionOrAbort).
Aborted(x) == abort[x] # "none"
AbortedTasks(x) == [n \in Nodes |-> IF task[x][n] = "exec" THEN "err" ELSE task[x][n]]

\* The turn of the first of jobs has come: its checkpoint is that of s, unless it is a
\* progress report, which refuses to be applied once the controller is aborted.
Sending(x, jobs, s) ==
    IF jobs # <<>> /\ ~ (Head(jobs).kind = "progress" /\ Aborted(x)) THEN {s} ELSE {}

\* Commits are queued when x is in state s; on an empty queue their turn has come.
Queue(x, jobs, s) ==
    /\ fifo' = [fifo EXCEPT ![x] = @ \o jobs]
    /\ sent' = [sent EXCEPT ![x] = IF fifo[x] = <<>> THEN Sending(x, jobs, s) ELSE @]

\* The first commit has had its turn; rest are the ones queued behind it.
Dequeue(x, rest, s) ==
    /\ fifo' = [fifo EXCEPT ![x] = rest]
    /\ sent' = [sent EXCEPT ![x] = Sending(x, rest, s)]

\* Host code of the nodes S is called for the attempt that s records.
HostCalled(S, s) ==
    /\ hosted' = [n \in Nodes |-> IF n \in S THEN hosted[n] \cup {s.attempts[n]} ELSE hosted[n]]
    /\ doubled' = doubled \cup {n \in S : s.attempts[n] \in hosted[n]}

\* A new #execute call of x starts from state s, or a call ends without one.
Enter(x, s, at, reason) ==
    /\ SetMem(x, s)
    /\ SetPC(x, at)
    /\ why' = [why EXCEPT ![x] = reason]
    /\ focus' = [focus EXCEPT ![x] = {}]
    /\ task' = [task EXCEPT ![x] = NoTasks]
    /\ fifo' = [fifo EXCEPT ![x] = IF at = "idle" THEN <<>> ELSE <<MainJob>>]
    /\ sent' = [sent EXCEPT ![x] = IF at = "idle" THEN {} ELSE {s}]
    /\ abort' = [abort EXCEPT ![x] = "none"]
    /\ late' = [late EXCEPT ![x] = {}]

\* main stops awaiting nodes and settles the ones still active, for a reason.
GoSettle(x, s, reason) ==
    /\ SetMem(x, s)
    /\ SetPC(x, "settle")
    /\ why' = [why EXCEPT ![x] = reason]

\* main queues the commit that ends the run in state s.
GoFinish(x, s, reason) ==
    /\ SetMem(x, s)
    /\ SetPC(x, "finish")
    /\ why' = [why EXCEPT ![x] = reason]
    /\ Queue(x, <<MainJob>>, s)

Init ==
    /\ db = InitialState
    /\ mem = [x \in Executors |-> InitialState]
    /\ pc = [x \in Executors |-> "idle"]
    /\ why = [x \in Executors |-> "none"]
    /\ focus = [x \in Executors |-> {}]
    /\ task = [x \in Executors |-> NoTasks]
    /\ fifo = [x \in Executors |-> <<>>]
    /\ sent = [x \in Executors |-> {}]
    /\ abort = [x \in Executors |-> "none"]
    /\ late = [x \in Executors |-> {}]
    /\ hosted = [n \in Nodes |-> {}]
    /\ doubled = {}
    /\ allowed = [n \in Nodes |-> 0]
    /\ used = [resume |-> 0, crash |-> 0, abort |-> 0, report |-> 0, fault |-> 0]

(***************************************************************************)
(* Entering a run.                                                         *)
(***************************************************************************)
\* The state a resume computed is executed, or committed as its outcome.
EnterRecovered(x, R, F) ==
    LET s == Recovered(db, R, F)
    IN  /\ pc[x] \in {"idle", "done"}
        /\ db.status \notin Terminal
        /\ Restorable(db)
        /\ IF s.status = "running" THEN Enter(x, s, "boot", "none")
           ELSE /\ s.nodes # db.nodes \/ s.status # db.status
                /\ Enter(x, s, "finish", IF s.status = "failed" THEN "fail" ELSE "pause")
        /\ allowed' = [n \in Nodes |->
                          IF n \in R \/ (n \in Retried(db, R, F) /\ n \notin NeverRetry)
                          THEN allowed[n] + 1 ELSE allowed[n]]
        /\ UNCHANGED <<db, hosted, doubled>>

\* The owner of a run that no live executor works on starts or recovers it: the first
\* execution of a new run, a worker that claims it, a restarted process.
Recover(x) ==
    /\ \A y \in Executors : ~ Live(y)
    /\ db.status = "running"
    /\ EnterRecovered(x, {}, {})
    /\ UNCHANGED used

\* Anyone resumes the run at any time, with or without decisions on unsettled nodes.
Resume(x) ==
    /\ used.resume < MaxResumes
    /\ used' = [used EXCEPT !.resume = @ + 1]
    /\ \E R, F \in SUBSET Unsettled(db) : R \cap F = {} /\ EnterRecovered(x, R, F)

\* The administrative cancel: load, mark everything open cancelled, commit.
Cancel(x) ==
    /\ pc[x] \in {"idle", "done"}
    /\ used.abort < MaxAborts
    /\ used' = [used EXCEPT !.abort = @ + 1]
    /\ db.status \notin Terminal
    /\ Restorable(db)
    /\ Enter(x, CancelledByCall(db), "finish", "cancel")
    /\ UNCHANGED <<db, historyVars>>

(***************************************************************************)
(* The top of the scheduling loop.                                         *)
(***************************************************************************)
\* The ready nodes the concurrency limit lets main launch now.
Launchable(x) == First(MaxConcurrent - Cardinality(Active(x)), mem[x].ready)
Room(x)       == MaxNodeRuns - mem[x].nodeRuns

LaunchBatch(x) ==
    LET batch == Launchable(x)
    IN  /\ pc[x] = "loop" /\ ~ Aborted(x)
        /\ batch # {} /\ Cardinality(batch) <= Room(x)
        /\ SetMem(x, Launched(mem[x], batch))
        /\ SetPC(x, "launch")
        /\ focus' = [focus EXCEPT ![x] = batch]
        /\ Queue(x, <<MainJob>>, Launched(mem[x], batch))
        /\ UNCHANGED <<db, why, task, abort, late, historyVars, used>>

\* The node-run budget is used up in the middle of a batch.
ExceedNodeRuns(x) ==
    /\ pc[x] = "loop" /\ ~ Aborted(x)
    /\ Cardinality(Launchable(x)) > Room(x)
    /\ GoSettle(x, Launched(mem[x], First(Room(x), mem[x].ready)), "fail")
    /\ abort' = [abort EXCEPT ![x] = "internal"]
    /\ task' = [task EXCEPT ![x] = AbortedTasks(x)]
    /\ UNCHANGED <<db, focus, fifo, sent, late, historyVars, used>>

AwaitNodes(x) ==
    /\ pc[x] = "loop"
    /\ Active(x) # {}
    /\ Aborted(x) \/ Launchable(x) = {}
    /\ SetPC(x, "race")
    /\ UNCHANGED <<db, mem, why, focus, task, fifo, sent, abort, late, historyVars, used>>

\* Aborted with nothing active: leave the record alone, or cancel the run.
LeaveOrCancel(x) ==
    IF abort[x] = "interrupt"
    THEN SetPC(x, "done") /\ UNCHANGED <<mem, why, fifo, sent>>
    ELSE GoFinish(x, FinishCancelled(mem[x], abort[x] = "deadline"), "cancel")

StopAborted(x) ==
    /\ pc[x] = "loop" /\ Aborted(x)
    /\ mem[x].ready # {} /\ Active(x) = {}
    /\ LeaveOrCancel(x)
    /\ UNCHANGED <<db, focus, task, abort, late, historyVars, used>>

\* Nothing ready, nothing active: the run has failed if a node is unresolved or the
\* outputs are not valid, and has completed otherwise; outputs that cannot even be
\* assembled throw, and an aborted run takes that for the effect of the abort.
EndOfRun(x) ==
    /\ pc[x] = "loop"
    /\ mem[x].ready = {} /\ Active(x) = {}
    /\ \/ GoFinish(x, FinishFailed(mem[x], {}), "fail")
       \/ /\ \A n \in Nodes : mem[x].nodes[n] \notin Open
          /\ \/ GoFinish(x, [mem[x] EXCEPT !.status = "completed"], "completed")
             \/ Aborted(x) /\ LeaveOrCancel(x)
    /\ UNCHANGED <<db, focus, task, abort, late, historyVars, used>>

(***************************************************************************)
(* Promise.race over the active nodes: one settled promise is taken.       *)
(***************************************************************************)
\* n's promise has settled with outcome t and main takes it from the active map.
Takes(x, n, t) ==
    /\ pc[x] = "race"
    /\ task[x][n] = t
    /\ task' = [task EXCEPT ![x][n] = "none"]

\* The commit of a node's own event failed: main gives up without a word to the store.
TakeLost(x, n) ==
    /\ Takes(x, n, "lost")
    /\ SetPC(x, "done")
    /\ UNCHANGED <<db, mem, why, focus, fifo, sent, abort, late, historyVars, used>>

\* The node asks to pause the run: abort the others and settle them.
TakePause(x, n) ==
    /\ pc[x] = "race" /\ task[x][n] = "pause"
    /\ task' = [task EXCEPT ![x] = [AbortedTasks(x) EXCEPT ![n] = "none"]]
    /\ GoSettle(x, [mem[x] EXCEPT !.nodes[n] = "needs_attention"], "pause")
    /\ abort' = [abort EXCEPT ![x] = IF @ = "none" THEN "internal" ELSE @]
    /\ UNCHANGED <<db, focus, fifo, sent, late, historyVars, used>>

\* An error under an abort belongs to the abort.
TakeAborted(x, n) ==
    /\ Takes(x, n, "err")
    /\ Aborted(x)
    /\ IF abort[x] = "interrupt" THEN GoSettle(x, mem[x], "interrupt")
       ELSE GoSettle(x, [mem[x] EXCEPT !.nodes[n] = "cancelled"], "cancel")
    /\ UNCHANGED <<db, focus, fifo, sent, abort, late, historyVars, used>>

\* A failed attempt the node's policy and definition let the engine repeat.
Retryable(x, n) == mem[x].attempts[n] < MaxAttempts[n] /\ n \notin NeverRetry

TakeRetry(x, n) ==
    /\ Takes(x, n, "err")
    /\ ~ Aborted(x) /\ Retryable(x, n)
    /\ SetMem(x, Requeued(mem[x], n))
    /\ SetPC(x, "advance")
    /\ Queue(x, <<MainJob>>, Requeued(mem[x], n))
    /\ UNCHANGED <<db, why, focus, abort, late, historyVars, used>>

\* A failure that fails the run.
TakeFailure(x, n) ==
    /\ pc[x] = "race" /\ task[x][n] = "err"
    /\ ~ Aborted(x) /\ ~ Retryable(x, n)
    /\ task' = [task EXCEPT ![x] = [AbortedTasks(x) EXCEPT ![n] = "none"]]
    /\ GoSettle(x, [mem[x] EXCEPT !.nodes[n] = "failed"], "fail")
    /\ abort' = [abort EXCEPT ![x] = "internal"]
    /\ UNCHANGED <<db, focus, fifo, sent, late, historyVars, used>>

\* A result that arrives after an interruption is dropped; after a cancellation it is
\* still taken.
TakeInterrupted(x, n) ==
    /\ Takes(x, n, "ok")
    /\ abort[x] = "interrupt"
    /\ GoSettle(x, mem[x], "interrupt")
    /\ UNCHANGED <<db, focus, fifo, sent, abort, late, historyVars, used>>

\* The node has succeeded; its output is captured before its edges are settled.
TakeSuccess(x, n) ==
    /\ Takes(x, n, "ok")
    /\ abort[x] # "interrupt"
    /\ SetMem(x, [mem[x] EXCEPT !.nodes[n] = "succeeded"])
    /\ SetPC(x, "capture")
    /\ focus' = [focus EXCEPT ![x] = {n}]
    /\ UNCHANGED <<db, why, fifo, sent, abort, late, historyVars, used>>

\* The capture gateway answered: settle the edges and commit the completion.
CaptureReturns(x, n) ==
    /\ pc[x] = "capture" /\ n \in focus[x]
    /\ \E sel \in Choices[n], S \in SUBSET {m \in Nodes : mem[x].nodes[m] = "pending"} :
          /\ IsSkipSet(mem[x].nodes, mem[x].edges, n, sel, S)
          /\ SetMem(x, EdgesSettled(mem[x], n, sel, S))
          /\ Queue(x, <<MainJob>>, EdgesSettled(mem[x], n, sel, S))
    /\ SetPC(x, "advance")
    /\ UNCHANGED <<db, why, focus, task, abort, late, historyVars, used>>

CaptureThrows(x, n) ==
    /\ CaptureMayFail
    /\ pc[x] = "capture" /\ n \in focus[x]
    /\ GoSettle(x, [mem[x] EXCEPT !.nodes[n] = "failed"], "fail")
    /\ abort' = [abort EXCEPT ![x] = IF @ = "none" THEN "internal" ELSE @]
    /\ task' = [task EXCEPT ![x] = AbortedTasks(x)]
    /\ UNCHANGED <<db, focus, fifo, sent, late, historyVars, used>>

(***************************************************************************)
(* settleActive, and the finish it was awaited for.                        *)
(***************************************************************************)
Settle(x) ==
    LET act == Active(x)
    IN  /\ pc[x] = "settle"
        /\ \A n \in act : task[x][n] \in Settled
        /\ task' = [task EXCEPT ![x] = NoTasks]
        /\ CASE why[x] = "fail"   -> GoFinish(x, FinishFailed(mem[x], act), "fail")
             [] why[x] = "cancel" ->
                  GoFinish(x, FinishCancelled(mem[x], abort[x] = "deadline"), "cancel")
             [] why[x] = "pause"  -> GoFinish(x, FinishPaused(mem[x], act), "pause")
             [] OTHER             -> SetPC(x, "done") /\ UNCHANGED <<mem, why, fifo, sent>>
        /\ allowed' = [n \in Nodes |->
              IF why[x] = "pause" /\ n \in act \ NeverRetry /\ mem[x].nodes[n] \in Busy
              THEN allowed[n] + 1 ELSE allowed[n]]
        /\ UNCHANGED <<db, focus, abort, late, hosted, doubled, used>>

(***************************************************************************)
(* commitTail: the answer of the store to the commit in flight.  The store *)
(* accepts it if the record still has the sequence number of the in-memory *)
(* state.                                                                  *)
(***************************************************************************)
\* A progress report whose turn came after the abort is not sent.
DropReport(x) ==
    /\ fifo[x] # <<>> /\ sent[x] = {}
    /\ Dequeue(x, Tail(fifo[x]), mem[x])
    /\ UNCHANGED <<db, mem, pc, why, focus, task, abort, late, historyVars, used>>

AtStore(x) == fifo[x] # <<>> /\ sent[x] # {}
InFlight(x, kind) == AtStore(x) /\ Head(fifo[x]).kind = kind

\* A wrong version without the compare-and-set.
StoreUnchecked(x, rest) ==
    /\ \E s \in sent[x] : db' = [s EXCEPT !.seq = @ + 1]
    /\ SetMem(x, [mem[x] EXCEPT !.seq = @ + 1])
    /\ Dequeue(x, rest, [mem[x] EXCEPT !.seq = @ + 1])

\* The store's commit: the whole checkpoint, atomically with its events, and then the
\* next turn.
Store(x, rest) ==
    /\ mem[x].seq = db.seq
    /\ \E s \in sent[x] : db' = [s EXCEPT !.seq = @ + 1]
    /\ SetMem(x, [mem[x] EXCEPT !.seq = @ + 1])
    /\ Dequeue(x, rest, [mem[x] EXCEPT !.seq = @ + 1])

\* The orders in which the nodes of S can have queued their requests: that of launch.
Sorted(S) == {s \in [1 .. Cardinality(S) -> S] :
                 \A i, j \in DOMAIN s : i < j => Rank[s[i]] < Rank[s[j]]}

\* node.started is committed: call #executeNode for the batch.  Nodes whose inputs do
\* not validate (bad) fail at once, external nodes first queue capability.requested.
StartBatch(x) ==
    /\ InFlight(x, "main") /\ pc[x] = "launch"
    /\ SetPC(x, "race")
    /\ \E bad \in SUBSET (focus[x] \cap MayFail) :
          LET asking == (focus[x] \cap External) \ bad
              direct == focus[x] \ (asking \cup bad)
          IN  /\ task' = [task EXCEPT ![x] = [n \in Nodes |->
                    IF n \in asking THEN "request"
                    ELSE IF n \in bad \/ (n \in direct /\ Aborted(x)) THEN "err"
                    ELSE IF n \in direct THEN "exec" ELSE task[x][n]]]
              /\ HostCalled(direct, mem[x])
              /\ \E order \in Sorted(asking) :
                    Store(x, Tail(fifo[x]) \o
                       [i \in DOMAIN order |-> [kind |-> "request", node |-> order[i]]])
    /\ UNCHANGED <<why, focus, abort, late, allowed, used>>

\* Any other commit of main.
MainCommitted(x) ==
    /\ InFlight(x, "main") /\ pc[x] \in {"boot", "advance", "finish"}
    /\ Store(x, Tail(fifo[x]))
    /\ SetPC(x, IF pc[x] = "finish" THEN "done" ELSE "loop")
    /\ UNCHANGED <<why, focus, task, abort, late, historyVars, used>>

\* capability.requested is durable: the Host is called, even if the run was aborted
\* while the commit waited for its turn.
RequestCommitted(x) ==
    LET n == Head(fifo[x]).node
    IN  /\ InFlight(x, "request")
        /\ Store(x, Tail(fifo[x]))
        /\ task' = [task EXCEPT ![x][n] = IF Aborted(x) THEN "err" ELSE "exec"]
        /\ HostCalled({n}, mem[x])
        /\ UNCHANGED <<pc, why, focus, abort, late, allowed, used>>

\* capability.failed is durable: the promise settles with its error.
FailureCommitted(x) ==
    LET n == Head(fifo[x]).node
    IN  /\ InFlight(x, "capfail")
        /\ Store(x, Tail(fifo[x]))
        /\ task' = [task EXCEPT ![x][n] = IF @ = "pausing" THEN "pause" ELSE "err"]
        /\ UNCHANGED <<pc, why, focus, abort, late, historyVars, used>>

ReportCommitted(x) ==
    /\ InFlight(x, "progress")
    /\ Store(x, Tail(fifo[x]))
    /\ UNCHANGED <<pc, why, focus, task, abort, late, historyVars, used>>

\* A commit that did not go through ends main if main awaits it, and otherwise rejects
\* the promise of its node; a node that sees its progress report fail may go on.
CommitRejected(x) ==
    LET job   == Head(fifo[x])
        after == IF job = MainJob /\ pc[x] \in {"boot", "finish"} /\ why[x] # "completed"
                 THEN [mem[x] EXCEPT !.status = "failed"] ELSE mem[x]
    IN  /\ SetMem(x, after)
        /\ Dequeue(x, Tail(fifo[x]), after)
        /\ IF job = MainJob THEN SetPC(x, "done") /\ UNCHANGED task
           ELSE /\ \/ task' = [task EXCEPT ![x][job.node] =
                          IF job.kind # "progress" \/ @ = "exec" THEN "lost" ELSE @]
                   \/ job.kind = "progress" /\ UNCHANGED task
                /\ UNCHANGED pc
        /\ UNCHANGED <<db, why, focus, abort, late, historyVars>>

\* Another executor has committed since: RUN_COMMIT_CONFLICT.
CommitConflicts(x) ==
    /\ AtStore(x) /\ mem[x].seq # db.seq
    /\ CommitRejected(x)
    /\ UNCHANGED used

\* The store fails and has written nothing.
StoreFails(x) ==
    /\ AtStore(x) /\ mem[x].seq = db.seq
    /\ used.fault < MaxFaults
    /\ used' = [used EXCEPT !.fault = @ + 1]
    /\ CommitRejected(x)

(***************************************************************************)
(* The environment: Host code, aborts, crashes.                            *)
(***************************************************************************)
HostReturns(x, n) ==
    /\ task[x][n] = "exec"
    /\ task' = [task EXCEPT ![x][n] = "ok"]
    /\ UNCHANGED <<db, mem, pc, why, focus, fifo, sent, abort, late, historyVars, used>>

\* An external node's error is journaled before its promise settles.
NodeErrs(x, n, how) ==
    /\ task[x][n] = "exec"
    /\ IF n \in External
       THEN /\ task' = [task EXCEPT ![x][n] = how]
            /\ Queue(x, <<[kind |-> "capfail", node |-> n]>>, mem[x])
       ELSE /\ task' = [task EXCEPT ![x][n] = "err"]
            /\ UNCHANGED <<fifo, sent>>

HostThrows(x, n) ==
    /\ n \in MayFail
    /\ NodeErrs(x, n, "failing")
    /\ UNCHANGED <<db, mem, pc, why, focus, abort, late, historyVars, used>>

\* The node's timeout fires while its Host code keeps running.
HostTimesOut(x, n) ==
    /\ n \in Timed
    /\ NodeErrs(x, n, "failing")
    /\ late' = [late EXCEPT ![x] = @ \cup ({n} \cap Reporting)]
    /\ UNCHANGED <<db, mem, pc, why, focus, abort, historyVars, used>>

\* A child run is paused, so the node throws WorkflowPauseError.
ChildPaused(x, n) ==
    /\ n \in Nested
    /\ NodeErrs(x, n, "pausing")
    /\ UNCHANGED <<db, mem, pc, why, focus, abort, late, historyVars, used>>

\* Host code reports progress; nothing stops an attempt that has timed out from it.
Report(x, n) ==
    /\ n \in Reporting
    /\ task[x][n] = "exec" \/ n \in late[x]
    /\ ~ Aborted(x)
    /\ used.report < MaxReports
    /\ used' = [used EXCEPT !.report = @ + 1]
    /\ Queue(x, <<[kind |-> "progress", node |-> n]>>, mem[x])
    /\ UNCHANGED <<db, mem, pc, why, focus, task, abort, late, historyVars>>

\* handle.cancel, or the caller's signal; a lost lease, a detach or a shutdown; the
\* run's maxDurationMs, which also overrules a cancellation not yet finished.
AbortRun(x, kind) ==
    /\ pc[x] \notin {"idle", "done", "finish"}
    /\ used.abort < MaxAborts
    /\ used' = [used EXCEPT !.abort = @ + 1]
    /\ \/ kind \in {"cancel", "interrupt"} /\ ~ Aborted(x)
       \/ kind = "deadline" /\ abort[x] \in {"none", "cancel"} /\ pc[x] # "boot"
    /\ abort' = [abort EXCEPT ![x] = kind]
    /\ task' = [task EXCEPT ![x] = AbortedTasks(x)]
    /\ UNCHANGED <<db, mem, pc, why, focus, fifo, sent, late, historyVars>>

\* The process of x dies: everything it held in memory is gone.
Crash(x) ==
    /\ pc[x] # "idle"
    /\ used.crash < MaxCrashes
    /\ used' = [used EXCEPT !.crash = @ + 1]
    /\ Enter(x, InitialState, "idle", "none")
    /\ UNCHANGED <<db, historyVars>>

(***************************************************************************)
(* The specification.                                                      *)
(***************************************************************************)
Main(x) ==
    \/ LaunchBatch(x) \/ ExceedNodeRuns(x) \/ AwaitNodes(x) \/ StopAborted(x) \/ EndOfRun(x)
    \/ Settle(x)
    \/ \E n \in Nodes :
          \/ TakeLost(x, n) \/ TakePause(x, n) \/ TakeAborted(x, n) \/ TakeRetry(x, n)
          \/ TakeFailure(x, n) \/ TakeInterrupted(x, n) \/ TakeSuccess(x, n)
          \/ CaptureReturns(x, n) \/ CaptureThrows(x, n)

Commits(x) ==
    \/ StartBatch(x) \/ MainCommitted(x) \/ RequestCommitted(x) \/ FailureCommitted(x)
    \/ ReportCommitted(x) \/ DropReport(x) \/ CommitConflicts(x)

Host(x, n) ==
    HostReturns(x, n) \/ HostThrows(x, n) \/ HostTimesOut(x, n) \/ ChildPaused(x, n)

Environment(x) ==
    \/ Resume(x) \/ Cancel(x) \/ Crash(x) \/ StoreFails(x)
    \/ \E n \in Nodes : Report(x, n)
    \/ \E kind \in {"cancel", "interrupt", "deadline"} : AbortRun(x, kind)

Next == \E x \in Executors :
    \/ Recover(x) \/ Main(x) \/ Commits(x) \/ Environment(x)
    \/ \E n \in Nodes : Host(x, n)

Spec == Init /\ [][Next]_vars

\* The event loop runs what is runnable, Host calls end (or time out), and a run
\* without an executor is picked up again.
Fairness ==
    /\ \A x \in Executors : WF_vars(Main(x)) /\ WF_vars(Commits(x)) /\ WF_vars(Recover(x))
    /\ \A x \in Executors, n \in Nodes : WF_vars(Host(x, n))

FairSpec == Spec /\ Fairness

(***************************************************************************)
(* Properties.                                                             *)
(***************************************************************************)
TypeOK ==
    /\ db \in Checkpoint
    /\ mem \in [Executors -> Checkpoint]
    /\ pc \in [Executors -> PCs]
    /\ why \in [Executors -> Reasons]
    /\ focus \in [Executors -> SUBSET Nodes]
    /\ task \in [Executors -> [Nodes -> Tasks]]
    /\ fifo \in [Executors -> Seq(Job)]
    /\ sent \in [Executors -> SUBSET Checkpoint]
    /\ abort \in [Executors -> Aborts]
    /\ late \in [Executors -> SUBSET Nodes]
    /\ hosted \in [Nodes -> SUBSET Nat]
    /\ doubled \in SUBSET Nodes
    /\ allowed \in [Nodes -> Nat]
    /\ used \in Bounds

\* No attempt of a node calls the Host twice, whatever executors, crashes and stale
\* commits there are: node.started is committed first, under the compare-and-set.
NoAttemptRunsTwice == doubled = {}

\* An attempt whose Host code was called stays in the durable record: no later write,
\* by whichever executor, forgets it (nodeAttempts in the checkpoint).
EffectsAreRecorded == \A n \in Nodes : hosted[n] \subseteq 1 .. db.attempts[n]

\* A node is attempted no more often than its policy allows, plus once for each time
\* an operator, a recovery or a pause put it back; a retry-never node is put back by
\* operators only.  With NoAttemptRunsTwice and EffectsAreRecorded: the side effect of
\* a retry-never node happens at most once per explicit decision.
AttemptsJustified == \A n \in Nodes : db.attempts[n] <= MaxAttempts[n] + allowed[n]

\* The outcome of a run never changes once it is durable (run.completed, run.failed,
\* run.cancelled), although executors that have not heard of it are still at work.
TerminalStatusFinal == [][db.status \in Terminal => db'.status = db.status]_vars

\* The record implements the promise of DurableRun: what its readers see of a run is the
\* abstract record, whatever executors, commit queues, crashes and operators do.
Record == INSTANCE DurableRun WITH status <- db.status, attempts <- db.attempts
RecordIsDurable == Record!DRSpec

\* A recoverable checkpoint has exactly its ready nodes in the queue: none is lost for
\* ever, and restoreState does not refuse it.
ReadyQueueExact ==
    db.status \notin Terminal => db.ready = {n \in Nodes : db.nodes[n] = "ready"}

\* What ran had a reason to: all its incoming edges were decided, one of them taken,
\* and every taken edge comes from a node that succeeded.
ActivationJustified ==
    \A n \in Nodes \ {Start} : db.attempts[n] > 0 =>
        /\ HasTaken(db.edges, n)
        /\ \A e \in In(n) : \/ db.edges[e] = "taken" /\ db.nodes[Src[e]] = "succeeded"
                            \/ db.edges[e] = "skipped" /\ db.nodes[Src[e]] \in {"succeeded", "skipped"}

\* A completed run has run or skipped every node and decided every edge.
CompletedIsSettled ==
    db.status = "completed" =>
        /\ \A n \in Nodes : db.nodes[n] \in {"succeeded", "skipped"}
        /\ \A e \in Edges : db.edges[e] # "unknown"

\* A paused run waits for a decision it names, and nobody is at work on it any more.
PausedNeedsDecision ==
    db.status = "paused" =>
        /\ \E n \in Nodes : db.nodes[n] = "needs_attention"
        /\ \A n \in Nodes : db.nodes[n] \notin Busy

\* Every run comes to rest, completed, failed, cancelled or paused, in spite of
\* crashes, lost leases and competing executors.
RunComesToRest == <>[](db.status # "running")

\* docs/core-hardening.md section 3 step 9: node.completed, the outgoing edges and the
\* checkpoint containing the output are one atomic commit.
CompletionIsAtomic ==
    \A n \in Nodes : db.nodes[n] = "succeeded" => \A e \in Out(n) : db.edges[e] # "unknown"

\* docs/core-hardening.md section 5: late data cannot overwrite a terminal checkpoint.
TerminalCheckpointFrozen == [][db.status \in Terminal => db' = db]_vars

\* docs/core-hardening.md section 5: a cancellation clears the ready queue.
CancellationClearsQueue == db.status = "cancelled" => db.ready = {}
=============================================================================
