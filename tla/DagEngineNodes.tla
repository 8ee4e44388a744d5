--------------------------- MODULE DagEngineNodes ---------------------------
(***************************************************************************)
(* What every checkpoint of a run says of its nodes: the inductive         *)
(* invariant behind ReadyQueueExact, AttemptsJustified, ActivationJustified *)
(* and PausedNeedsDecision.                                                *)
(*                                                                         *)
(* The first part shows that each transition of the in-memory state takes  *)
(* good checkpoints to good ones; the second that every step of every      *)
(* executor is such a transition, so that whatever is in memory, in flight *)
(* to the store or in the record is good; the third that the record        *)
(* refines DurableRun.                                                     *)
(***************************************************************************)
EXTENDS DagEngineProofs

\* The queue holds exactly the ready nodes.
Exact(s) == s.ready = {n \in Nodes : s.nodes[n] = "ready"}

\* A node may be attempted again only while b, which counts the times it was put back,
\* leaves room for it.
Budgeted(s, b) ==
    \A n \in Nodes :
        /\ s.attempts[n] <= MaxAttempts[n] + b[n]
        /\ s.nodes[n] \in {"pending", "ready"} => s.attempts[n] < MaxAttempts[n] + b[n]

\* A decided edge comes from a node that is done.
EdgesMeant(s) ==
    \A e \in Edges :
        /\ s.edges[e] = "taken" => s.nodes[Src[e]] = "succeeded"
        /\ s.edges[e] = "skipped" => s.nodes[Src[e]] \in {"succeeded", "skipped"}

\* The edges into n are decided, for it to run.
Decided(s, n) == HasTaken(s.edges, n) /\ \A e \in In(n) : s.edges[e] # "unknown"

Woken == {"ready", "running", "waiting", "needs_attention"}

Activated(s) ==
    \A n \in Nodes \ {Start} : s.attempts[n] > 0 \/ s.nodes[n] \in Woken => Decided(s, n)

\* A pause names a node to decide about, and leaves none at work.
Waits(s) ==
    s.status = "paused" => /\ \E n \in Nodes : s.nodes[n] = "needs_attention"
                           /\ \A n \in Nodes : s.nodes[n] \notin Busy

CheckpointOK(s, b) ==
    /\ Budgeted(s, b) /\ EdgesMeant(s) /\ Activated(s) /\ Waits(s)
    /\ s.status \notin Terminal => Exact(s)

\* What an executor needs to know of its own nodes to keep them good: main works on a
\* run that runs, captures the output of a node whose edges are undecided, and knows
\* every busy node until it has settled them for a pause.
NodesOK(x) ==
    /\ pc[x] \in Scheduling \cup {"settle"} => mem[x].status = "running"
    /\ pc[x] = "capture" => \A n \in focus[x] :
          mem[x].nodes[n] = "succeeded" /\ \A e \in Out(n) : mem[x].edges[e] = "unknown"
    /\ pc[x] \in Scheduling \/ (pc[x] = "settle" /\ why[x] = "pause") =>
          \A n \in Nodes : mem[x].nodes[n] \in Busy =>
              task[x][n] # "none" \/ (pc[x] = "launch" /\ n \in focus[x])
    /\ pc[x] = "settle" /\ why[x] = "pause" =>
          \E n \in Nodes : mem[x].nodes[n] = "needs_attention"

\* Every checkpoint x holds is good.
HoldsGood(x) == \A s \in {mem[x]} \cup sent[x] : CheckpointOK(s, allowed)

NodeInv ==
    /\ CallInv
    /\ CheckpointOK(db, allowed)
    /\ \A x \in Executors : NodesOK(x) /\ HoldsGood(x)

(***************************************************************************)
(* Transitions of the in-memory state.                                     *)
(***************************************************************************)
\* Budgets are numbers.
LEMMA BudgetType ==
  ASSUME NEW s \in Checkpoint, NEW b \in [Nodes -> Nat], NEW n \in Nodes
  PROVE  s.attempts[n] \in Nat /\ MaxAttempts[n] \in Nat /\ MaxAttempts[n] >= 1 /\ b[n] \in Nat
  BY EngineAssumption DEF Checkpoint

\* A checkpoint stays good when nodes are put back once more.
LEMMA BudgetGrows ==
  ASSUME NEW s \in Checkpoint, NEW a \in [Nodes -> Nat], NEW b \in [Nodes -> Nat],
         CheckpointOK(s, a), \A n \in Nodes : a[n] <= b[n]
  PROVE  CheckpointOK(s, b)
  <1>1. Budgeted(s, b)
    BY BudgetType DEF Budgeted, CheckpointOK
  <1> QED
    BY <1>1 DEF CheckpointOK

\* The sequence number says nothing about the nodes.
LEMMA SeqApart ==
  ASSUME NEW s \in Checkpoint, NEW t \in Checkpoint, NEW b,
         t.status = s.status, t.nodes = s.nodes, t.edges = s.edges,
         t.attempts = s.attempts, t.ready = s.ready
  PROVE  CheckpointOK(s, b) <=> CheckpointOK(t, b)
  BY DEF CheckpointOK, Budgeted, EdgesMeant, Activated, Decided, Waits, Exact

\* The record of a new run is good (createInitialState).
LEMMA InitialGood ==
  ASSUME NEW b \in [Nodes -> Nat]
  PROVE  CheckpointOK(InitialState, b)
  <1>1. Budgeted(InitialState, b)
    BY BudgetType, InitialStateType DEF Budgeted, InitialState
  <1>2. EdgesMeant(InitialState) /\ Activated(InitialState)
    BY DEF EdgesMeant, Activated, InitialState, Woken
  <1>3. Waits(InitialState) /\ Exact(InitialState)
    BY GraphFacts DEF Waits, Exact, InitialState
  <1> QED
    BY <1>1, <1>2, <1>3 DEF CheckpointOK

\* Nodes may be marked anew as long as no decided edge comes from them, they wake only
\* if they were awake, and they are put back only within their budget.
LEMMA Remarked ==
  ASSUME NEW s \in Checkpoint, NEW t \in Checkpoint, NEW a \in [Nodes -> Nat],
         NEW b \in [Nodes -> Nat], CheckpointOK(s, a), \A n \in Nodes : a[n] <= b[n],
         t.attempts = s.attempts, t.edges = s.edges,
         \A n \in Nodes : t.nodes[n] # s.nodes[n] =>
            /\ \/ s.nodes[n] \notin {"succeeded", "skipped"}
               \/ \A e \in Out(n) : s.edges[e] = "unknown"
            /\ t.nodes[n] \in Woken => s.nodes[n] \in Woken
            /\ t.nodes[n] \in {"pending", "ready"} => s.attempts[n] < MaxAttempts[n] + b[n]
  PROVE  Budgeted(t, b) /\ EdgesMeant(t) /\ Activated(t)
  <1>1. Budgeted(t, b)
    BY BudgetType DEF Budgeted, CheckpointOK
  <1>2. EdgesMeant(t)
    BY GraphFacts DEF EdgesMeant, CheckpointOK, Out
  <1>3. Activated(t)
    BY DEF Activated, Decided, CheckpointOK
  <1> QED
    BY <1>1, <1>2, <1>3

\* Launching ready nodes (the loop that shifts them off the queue).
LEMMA LaunchedGood ==
  ASSUME NEW s \in Checkpoint, NEW b \in [Nodes -> Nat], CheckpointOK(s, b),
         s.status = "running", NEW B \in SUBSET s.ready
  PROVE  CheckpointOK(Launched(s, B), b)
  <1> DEFINE t == Launched(s, B)
  <1>1. Exact(s) /\ B \in SUBSET Nodes
    BY DEF CheckpointOK, Terminal, Checkpoint
  <1>2. \A n \in B : s.nodes[n] = "ready"
    BY <1>1 DEF Exact
  <1>3. /\ t.status = s.status /\ t.edges = s.edges /\ t.ready = s.ready \ B
        /\ \A n \in Nodes : /\ t.nodes[n] = IF n \notin B THEN s.nodes[n]
                                            ELSE IF n \in HumanWait THEN "waiting" ELSE "running"
                            /\ t.attempts[n] = IF n \in B THEN s.attempts[n] + 1 ELSE s.attempts[n]
    BY DEF Launched, Checkpoint
  <1> HIDE DEF t
  <1>4. Budgeted(t, b)
    BY <1>1, <1>2, <1>3, BudgetType DEF Budgeted, CheckpointOK
  <1>5. EdgesMeant(t)
    BY <1>1, <1>2, <1>3, GraphFacts DEF EdgesMeant, CheckpointOK
  <1>6. Activated(t)
    BY <1>1, <1>2, <1>3 DEF Activated, Decided, Woken, CheckpointOK
  <1>7. Waits(t) /\ Exact(t)
    BY <1>1, <1>2, <1>3 DEF Waits, Exact
  <1> QED
    BY <1>4, <1>5, <1>6, <1>7 DEF CheckpointOK, t

\* Settling the edges of a node that has just succeeded (settleOutgoingEdges).
LEMMA EdgesSettledGood ==
  ASSUME NEW s \in Checkpoint, NEW b \in [Nodes -> Nat], CheckpointOK(s, b),
         s.status = "running", NEW n \in Nodes, NEW sel,
         NEW S \in SUBSET {m \in Nodes : s.nodes[m] = "pending"},
         IsSkipSet(s.nodes, s.edges, n, sel, S),
         s.nodes[n] = "succeeded", \A e \in Out(n) : s.edges[e] = "unknown"
  PROVE  CheckpointOK(EdgesSettled(s, n, sel, S), b)
  <1> DEFINE t == EdgesSettled(s, n, sel, S)
             woken == NewlyReady(s.nodes, s.edges, n, sel, S)
             after == EdgesAfter(s.edges, n, sel, S)
  <1>0. S \cap woken = {}
    BY DEF IsSkipSet, NewlyReady
  <1>1. /\ woken \in SUBSET Nodes
        /\ \A m \in woken : /\ s.nodes[m] = "pending" /\ HasTaken(after, m)
                            /\ \A e \in In(m) : after[e] # "unknown"
    BY DEF NewlyReady, Resolved
  <1>2. /\ t.status = s.status /\ t.attempts = s.attempts /\ t.edges = after
        /\ t.ready = s.ready \cup woken
        /\ \A m \in Nodes : t.nodes[m] = IF m \in woken THEN "ready"
                                         ELSE IF m \in S THEN "skipped" ELSE s.nodes[m]
    BY DEF EdgesSettled, Mark, Checkpoint
  <1>3. \A e \in Edges : after[e] = IF Src[e] = n
                                    THEN IF Port[e] \in sel THEN "taken" ELSE "skipped"
                                    ELSE IF Src[e] \in S THEN "skipped" ELSE s.edges[e]
    BY DEF EdgesAfter
  <1>4. \A e \in Edges : s.edges[e] # "unknown" => after[e] = s.edges[e]
    BY <1>3, GraphFacts DEF EdgesMeant, CheckpointOK, Out, Checkpoint, EdgeStatus
  <1> HIDE DEF t, woken, after
  <1>5. Budgeted(t, b)
    BY <1>1, <1>2, BudgetType DEF Budgeted, CheckpointOK
  <1>6. EdgesMeant(t)
    <2> SUFFICES ASSUME NEW e \in Edges
                 PROVE  /\ after[e] = "taken" => t.nodes[Src[e]] = "succeeded"
                        /\ after[e] = "skipped" => t.nodes[Src[e]] \in {"succeeded", "skipped"}
      BY <1>2 DEF EdgesMeant
    <2>1. Src[e] \in Nodes
      BY GraphFacts
    <2>2. CASE s.edges[e] # "unknown"
      BY <1>1, <1>2, <1>4, <2>1, <2>2 DEF EdgesMeant, CheckpointOK
    <2>3. CASE s.edges[e] = "unknown" /\ Src[e] = n
      BY <1>1, <1>2, <2>1, <2>3
    <2>4. CASE s.edges[e] = "unknown" /\ Src[e] # n
      <3>1. after[e] # "unknown" => Src[e] \in S /\ after[e] = "skipped"
        BY <1>3, <2>4
      <3> QED
        BY <1>0, <1>2, <2>1, <3>1
    <2> QED
      BY <2>2, <2>3, <2>4
  <1>7. Activated(t)
    <2> SUFFICES ASSUME NEW m \in Nodes \ {Start}, t.attempts[m] > 0 \/ t.nodes[m] \in Woken
                 PROVE  Decided(t, m)
      BY DEF Activated
    <2>1. CASE m \in woken
      BY <1>1, <1>2, <2>1 DEF Decided
    <2>2. CASE m \notin woken
      <3>1. Decided(s, m)
        BY <1>2, <2>2 DEF Activated, CheckpointOK, Woken
      <3> QED
        BY <1>2, <1>4, <3>1 DEF Decided, HasTaken, In
    <2> QED
      BY <2>1, <2>2
  <1>8. Waits(t)
    BY <1>2 DEF Waits
  <1>9. Exact(t)
    BY <1>1, <1>2 DEF Exact, CheckpointOK, Terminal
  <1> QED
    BY <1>5, <1>6, <1>7, <1>8, <1>9 DEF CheckpointOK, t

\* Marking one node: a busy one that has ended somehow, or one whose output could not be
\* captured.
LEMMA MarkedGood ==
  ASSUME NEW s \in Checkpoint, NEW b \in [Nodes -> Nat], CheckpointOK(s, b),
         s.status = "running", NEW n \in Nodes,
         NEW v \in {"succeeded", "failed", "cancelled", "needs_attention"},
         \/ s.nodes[n] \in Busy
         \/ /\ v = "failed" /\ s.nodes[n] = "succeeded"
            /\ \A e \in Out(n) : s.edges[e] = "unknown"
  PROVE  CheckpointOK([s EXCEPT !.nodes[n] = v], b)
  <1> DEFINE t == [s EXCEPT !.nodes[n] = v]
  <1>1. /\ t \in Checkpoint /\ t.status = s.status /\ t.edges = s.edges
        /\ t.attempts = s.attempts /\ t.ready = s.ready
        /\ \A m \in Nodes : t.nodes[m] = IF m = n THEN v ELSE s.nodes[m]
    BY DEF Checkpoint, NodeStatus
  <1> HIDE DEF t
  <1>2. \A m \in Nodes : b[m] <= b[m]
    BY BudgetType
  <1>3. Budgeted(t, b) /\ EdgesMeant(t) /\ Activated(t)
    BY <1>1, <1>2, Remarked DEF Busy, Woken
  <1>4. Waits(t) /\ Exact(t)
    BY <1>1 DEF Waits, Exact, CheckpointOK, Terminal, Busy
  <1> QED
    BY <1>3, <1>4 DEF CheckpointOK, t

\* Putting a failed attempt back in the queue, within its policy.
LEMMA RequeuedGood ==
  ASSUME NEW s \in Checkpoint, NEW b \in [Nodes -> Nat], CheckpointOK(s, b),
         s.status = "running", NEW n \in Nodes, s.nodes[n] \in Busy,
         s.attempts[n] < MaxAttempts[n]
  PROVE  CheckpointOK(Requeued(s, n), b)
  <1> DEFINE t == Requeued(s, n)
  <1>1. /\ t \in Checkpoint /\ t.status = s.status /\ t.edges = s.edges
        /\ t.attempts = s.attempts /\ t.ready = s.ready \cup {n}
        /\ \A m \in Nodes : t.nodes[m] = IF m = n THEN "ready" ELSE s.nodes[m]
    BY DEF Requeued, Checkpoint, NodeStatus
  <1> HIDE DEF t
  <1>2. (\A m \in Nodes : b[m] <= b[m]) /\ s.attempts[n] < MaxAttempts[n] + b[n]
    BY BudgetType
  <1>3. Budgeted(t, b) /\ EdgesMeant(t) /\ Activated(t)
    BY <1>1, <1>2, Remarked DEF Busy, Woken
  <1>4. Waits(t) /\ Exact(t)
    BY <1>1 DEF Waits, Exact, CheckpointOK, Terminal, Busy
  <1> QED
    BY <1>3, <1>4 DEF CheckpointOK, t

\* A run that ends keeps what its nodes say.
LEMMA EndedGood ==
  ASSUME NEW s \in Checkpoint, NEW b \in [Nodes -> Nat], CheckpointOK(s, b),
         NEW v \in Terminal
  PROVE  CheckpointOK([s EXCEPT !.status = v], b)
  <1> DEFINE t == [s EXCEPT !.status = v]
  <1>1. /\ t.status = v /\ t.edges = s.edges /\ t.attempts = s.attempts /\ t.nodes = s.nodes
    BY DEF Checkpoint
  <1> HIDE DEF t
  <1> QED
    BY <1>1 DEF CheckpointOK, Budgeted, EdgesMeant, Activated, Decided, Waits, Terminal, t

\* Cancelling nodes while ending a run (finishFailure, finishCancellation, cancel).
LEMMA CancelledGood ==
  ASSUME NEW s \in Checkpoint, NEW b \in [Nodes -> Nat], CheckpointOK(s, b),
         NEW t \in Checkpoint, t.status \in Terminal,
         t.edges = s.edges, t.attempts = s.attempts,
         \A n \in Nodes : t.nodes[n] # s.nodes[n] =>
            /\ s.nodes[n] \in Open \cup {"needs_attention"}
            /\ t.nodes[n] = "cancelled"
  PROVE  CheckpointOK(t, b)
  <1>1. \A n \in Nodes : b[n] <= b[n]
    BY BudgetType
  <1>2. Budgeted(t, b) /\ EdgesMeant(t) /\ Activated(t)
    BY <1>1, Remarked DEF Open, Woken
  <1> QED
    BY <1>2 DEF CheckpointOK, Waits, Terminal

\* The three ways a run is ended with nodes open are of that form.
LEMMA FinishesGood ==
  ASSUME NEW s \in Checkpoint, NEW b \in [Nodes -> Nat], CheckpointOK(s, b)
  PROVE  /\ \A act \in SUBSET Nodes : CheckpointOK(FinishFailed(s, act), b)
         /\ \A f \in BOOLEAN : CheckpointOK(FinishCancelled(s, f), b)
         /\ CheckpointOK(CancelledByCall(s), b)
  <1>1. ASSUME NEW act \in SUBSET Nodes
        PROVE  CheckpointOK(FinishFailed(s, act), b)
    <2> DEFINE t == FinishFailed(s, act)
    <2>1. /\ t \in Checkpoint /\ t.status = "failed"
          /\ t.edges = s.edges /\ t.attempts = s.attempts
          /\ \A n \in Nodes : t.nodes[n] = IF n \in act /\ s.nodes[n] \in Busy THEN "cancelled"
                                           ELSE s.nodes[n]
      BY DEF FinishFailed, Mark, Checkpoint, NodeStatus, RunStatus
    <2> HIDE DEF t
    <2> QED
      BY <2>1, CancelledGood DEF Open, Busy, Terminal, t
  <1>2. ASSUME NEW f \in BOOLEAN
        PROVE  CheckpointOK(FinishCancelled(s, f), b)
    <2> DEFINE t == FinishCancelled(s, f)
    <2>1. /\ t \in Checkpoint /\ t.status \in {"failed", "cancelled"}
          /\ t.edges = s.edges /\ t.attempts = s.attempts
          /\ \A n \in Nodes : t.nodes[n] = IF s.nodes[n] \in Open THEN "cancelled"
                                           ELSE s.nodes[n]
      BY DEF FinishCancelled, Mark, Checkpoint, NodeStatus, RunStatus
    <2> HIDE DEF t
    <2> QED
      BY <2>1, CancelledGood DEF Terminal, t
  <1>3. CheckpointOK(CancelledByCall(s), b)
    <2> DEFINE t == CancelledByCall(s)
    <2>1. /\ t \in Checkpoint /\ t.status = "cancelled"
          /\ t.edges = s.edges /\ t.attempts = s.attempts
          /\ \A n \in Nodes : t.nodes[n] = IF s.nodes[n] \in Open \cup {"needs_attention"}
                                           THEN "cancelled" ELSE s.nodes[n]
      BY DEF CancelledByCall, Mark, Checkpoint, NodeStatus, RunStatus
    <2> HIDE DEF t
    <2> QED
      BY <2>1, CancelledGood DEF Terminal, t
  <1> QED
    BY <1>1, <1>2, <1>3

\* Pausing: siblings still at work are put back, once more than before (finishPause).
LEMMA FinishPausedGood ==
  ASSUME NEW s \in Checkpoint, NEW a \in [Nodes -> Nat], NEW b \in [Nodes -> Nat],
         CheckpointOK(s, a), s.status = "running", NEW act \in SUBSET Nodes,
         \A n \in Nodes : s.nodes[n] \in Busy => n \in act,
         \E n \in Nodes : s.nodes[n] = "needs_attention",
         \A n \in Nodes : b[n] = IF n \in act \ NeverRetry /\ s.nodes[n] \in Busy
                                 THEN a[n] + 1 ELSE a[n]
  PROVE  CheckpointOK(FinishPaused(s, act), b)
  <1> DEFINE t == FinishPaused(s, act)
             stopped == {n \in act : s.nodes[n] \in Busy}
             again == stopped \ NeverRetry
  <1>1. /\ t \in Checkpoint /\ t.status = "paused" /\ t.edges = s.edges
        /\ t.attempts = s.attempts /\ t.ready = s.ready \cup again
        /\ \A n \in Nodes : t.nodes[n] = IF n \in again THEN "ready"
                                         ELSE IF n \in stopped THEN "needs_attention" ELSE s.nodes[n]
    BY DEF FinishPaused, Mark, Checkpoint, NodeStatus, RunStatus
  <1>2. \A n \in Nodes : n \in again => s.attempts[n] < MaxAttempts[n] + b[n]
    BY BudgetType DEF CheckpointOK, Budgeted
  <1>3. \A n \in Nodes : a[n] <= b[n]
    BY BudgetType
  <1>4. \A n \in Nodes : n \in stopped <=> s.nodes[n] \in Busy
    OBVIOUS
  <1> HIDE DEF t, again
  <1>5. again \in SUBSET stopped /\ stopped \in SUBSET Nodes
    BY DEF again
  <1> HIDE DEF stopped
  <1>6. Budgeted(t, b) /\ EdgesMeant(t) /\ Activated(t)
    BY <1>1, <1>2, <1>3, <1>4, <1>5, Remarked DEF Busy, Woken
  <1>7. Waits(t)
    BY <1>1, <1>4, <1>5 DEF Waits, Busy
  <1>8. Exact(t)
    BY <1>1, <1>4, <1>5 DEF Exact, CheckpointOK, Terminal, Busy
  <1> QED
    BY <1>6, <1>7, <1>8 DEF CheckpointOK, t

\* Recovering: what may be repeated is put back once more, what may not waits for a
\* decision, what was decided to fail fails (resume).
LEMMA RecoveredGood ==
  ASSUME NEW s \in Checkpoint, NEW a \in [Nodes -> Nat], NEW b \in [Nodes -> Nat],
         CheckpointOK(s, a), s.status \notin Terminal,
         NEW R \in SUBSET Unsettled(s), NEW F \in SUBSET Unsettled(s), R \cap F = {},
         \A n \in Nodes : b[n] = IF n \in R \/ (n \in Retried(s, R, F) /\ n \notin NeverRetry)
                                 THEN a[n] + 1 ELSE a[n]
  PROVE  /\ CheckpointOK(Recovered(s, R, F), b)
         /\ \A n \in Nodes : Recovered(s, R, F).nodes[n] \notin Busy
  <1> DEFINE t == Recovered(s, R, F)
             again == Retried(s, R, F)
             stuck == Unsettled(s) \ (again \cup F)
  <1>0. again \in SUBSET Unsettled(s) /\ again \cap F = {}
        /\ \A n \in again : n \in R \/ n \notin NeverRetry
    BY DEF Retried
  <1>1. /\ t \in Checkpoint /\ t.edges = s.edges
        /\ t.status = IF F # {} THEN "failed" ELSE IF stuck # {} THEN "paused" ELSE "running"
        /\ t.attempts = s.attempts /\ t.ready = s.ready \cup again
        /\ \A n \in Nodes : t.nodes[n] = IF n \in stuck THEN "needs_attention"
                                         ELSE IF n \in F THEN "failed"
                                         ELSE IF n \in again THEN "ready" ELSE s.nodes[n]
    <2>1. t \in Checkpoint
      BY RecoveredType DEF Unsettled
    <2> QED
      BY <2>1 DEF Recovered, Mark, Checkpoint
  <1>2. \A n \in Nodes : n \in Unsettled(s) <=> s.nodes[n] \in Busy \cup {"needs_attention"}
    BY DEF Unsettled
  <1>3. \A n \in Nodes : n \in again => s.attempts[n] < MaxAttempts[n] + b[n]
    BY <1>0, BudgetType DEF CheckpointOK, Budgeted
  <1>4. \A n \in Nodes : a[n] <= b[n]
    BY BudgetType
  <1> HIDE DEF t, again
  <1>5. stuck \cap again = {} /\ stuck \cap F = {}
        /\ \A n \in Nodes : n \in Unsettled(s) => n \in stuck \/ n \in again \/ n \in F
    OBVIOUS
  <1>6. stuck \in SUBSET Unsettled(s) /\ Unsettled(s) \in SUBSET Nodes
    BY DEF Unsettled
  <1> HIDE DEF stuck
  <1>7. Budgeted(t, b) /\ EdgesMeant(t) /\ Activated(t)
    BY <1>0, <1>1, <1>2, <1>3, <1>4, <1>6, Remarked DEF Busy, Woken
  <1>8. \A n \in Nodes : t.nodes[n] \notin Busy
    BY <1>1, <1>2, <1>5 DEF Busy
  <1>9. Waits(t)
    BY <1>1, <1>6, <1>8 DEF Waits
  <1>10. Exact(t)
    BY <1>0, <1>1, <1>2, <1>5, <1>6 DEF Exact, CheckpointOK, Busy
  <1> QED
    BY <1>7, <1>8, <1>9, <1>10 DEF CheckpointOK, t

(***************************************************************************)
(* Where checkpoints come from: what a step leaves in flight is what was   *)
(* in flight or in memory, and what it leaves in the record was in flight. *)
(***************************************************************************)
\* Queueing a commit sends the state in memory, or leaves alone what is in flight.
LEMMA QueueSendsMem ==
  ASSUME TypeOK, NEW x \in Executors, NEW jobs, Queue(x, jobs, mem'[x])
  PROVE  sent'[x] \subseteq sent[x] \cup {mem'[x]}
  BY DEF Queue, Sending, TypeOK

\* So does every step.
LEMMA SentFrom ==
  ASSUME TypeOK, NEW x \in Executors, Step(x)
  PROVE  sent'[x] \subseteq sent[x] \cup {mem'[x]}
  <1>1. ASSUME NEW s, NEW r, GoFinish(x, s, r)
        PROVE  sent'[x] \subseteq sent[x] \cup {mem'[x]}
    <2>1. mem'[x] = s
      BY <1>1 DEF GoFinish, SetMem, TypeOK
    <2> QED
      BY <1>1, <2>1, QueueSendsMem DEF GoFinish
  <1>2. ASSUME NEW s, NEW at, NEW r, Enter(x, s, at, r)
        PROVE  sent'[x] \subseteq sent[x] \cup {mem'[x]}
    BY <1>2 DEF Enter, SetMem, TypeOK
  <1>3. CASE Recover(x) \/ Resume(x) \/ Cancel(x) \/ Crash(x)
    <2>1. \E s, at, r : Enter(x, s, at, r)
      BY <1>3 DEF Recover, Resume, Cancel, Crash, EnterRecovered
    <2> QED
      BY <1>2, <2>1
  <1>4. CASE LaunchBatch(x)
    <2>1. Queue(x, <<MainJob>>, mem'[x])
      BY <1>4 DEF LaunchBatch, SetMem, TypeOK
    <2> QED
      BY <2>1, QueueSendsMem
  <1>5. CASE ExceedNodeRuns(x) \/ AwaitNodes(x)
    BY <1>5 DEF ExceedNodeRuns, AwaitNodes
  <1>6. CASE StopAborted(x) \/ EndOfRun(x)
    BY <1>1, <1>6 DEF StopAborted, EndOfRun, LeaveOrCancel
  <1>7. CASE Settle(x)
    <2>1. (\E s, r : GoFinish(x, s, r)) \/ UNCHANGED sent
      BY <1>7 DEF Settle
    <2> QED
      BY <1>1, <2>1
  <1>8. ASSUME NEW n \in Nodes,
               \/ TakeLost(x, n) \/ TakePause(x, n) \/ TakeAborted(x, n)
               \/ TakeFailure(x, n) \/ TakeInterrupted(x, n) \/ TakeSuccess(x, n)
               \/ CaptureThrows(x, n)
        PROVE  UNCHANGED sent
    BY <1>8 DEF TakeLost, TakePause, TakeAborted, TakeFailure, TakeInterrupted, TakeSuccess,
         CaptureThrows
  <1>9. ASSUME NEW n \in Nodes, TakeRetry(x, n) \/ CaptureReturns(x, n)
        PROVE  sent'[x] \subseteq sent[x] \cup {mem'[x]}
    <2>1. Queue(x, <<MainJob>>, mem'[x])
      BY <1>9 DEF TakeRetry, CaptureReturns, SetMem, TypeOK
    <2> QED
      BY <2>1, QueueSendsMem
  <1>10. CASE Main(x)
    BY <1>4, <1>5, <1>6, <1>7, <1>8, <1>9, <1>10 DEF Main
  <1>11. ASSUME NEW rest, Store(x, rest)
         PROVE  sent'[x] \subseteq sent[x] \cup {mem'[x]}
    BY <1>11 DEF Store, SetMem, Dequeue, Sending, TypeOK
  <1>12. CASE Commits(x) \/ StoreFails(x)
    <2>1. (\E rest : Store(x, rest)) \/ DropReport(x) \/ CommitRejected(x)
      BY <1>12 DEF Commits, StartBatch, MainCommitted, RequestCommitted, FailureCommitted,
           ReportCommitted, CommitConflicts, StoreFails
    <2>2. DropReport(x) \/ CommitRejected(x) => sent'[x] \subseteq sent[x] \cup {mem'[x]}
      BY DEF DropReport, CommitRejected, SetMem, Dequeue, Sending, TypeOK
    <2> QED
      BY <1>11, <2>1, <2>2
  <1>13. ASSUME NEW n \in Nodes, NEW how, NodeErrs(x, n, how), UNCHANGED mem
         PROVE  sent'[x] \subseteq sent[x] \cup {mem'[x]}
    BY <1>13, QueueSendsMem DEF NodeErrs
  <1>14. ASSUME NEW n \in Nodes, Host(x, n) \/ Report(x, n)
         PROVE  sent'[x] \subseteq sent[x] \cup {mem'[x]}
    BY <1>13, <1>14, QueueSendsMem DEF Host, HostReturns, HostThrows, HostTimesOut, ChildPaused, Report
  <1>15. CASE \E kind \in {"cancel", "interrupt", "deadline"} : AbortRun(x, kind)
    BY <1>15 DEF AbortRun
  <1> QED
    BY <1>3, <1>10, <1>12, <1>14, <1>15 DEF Step, Environment

\* The record changes by the store's answer to the commit in flight only.
LEMMA RecordFrom ==
  ASSUME TypeOK, NEW x \in Executors, Step(x)
  PROVE  db' = db \/ \E s \in sent[x] : db' = [s EXCEPT !.seq = s.seq + 1]
  <1>1. CASE Main(x)
    <2>1. UNCHANGED db
      BY <1>1 DEF Main, LaunchBatch, ExceedNodeRuns, AwaitNodes, StopAborted, EndOfRun, Settle,
           TakeLost, TakePause, TakeAborted, TakeRetry, TakeFailure, TakeInterrupted, TakeSuccess,
           CaptureReturns, CaptureThrows
    <2> QED
      BY <2>1
  <1>2. CASE Commits(x) \/ StoreFails(x)
    <2>1. (\E rest : Store(x, rest)) \/ UNCHANGED db
      BY <1>2 DEF Commits, StartBatch, MainCommitted, RequestCommitted, FailureCommitted,
           ReportCommitted, CommitConflicts, StoreFails, DropReport, CommitRejected
    <2> QED
      BY <2>1, StoredState
  <1>3. CASE \/ Recover(x) \/ Resume(x) \/ Cancel(x) \/ Crash(x)
             \/ \E n \in Nodes : Host(x, n) \/ Report(x, n)
             \/ \E kind \in {"cancel", "interrupt", "deadline"} : AbortRun(x, kind)
    BY <1>3 DEF Recover, Resume, EnterRecovered, Cancel, Crash, Host, HostReturns, HostThrows,
         HostTimesOut, ChildPaused, Report, AbortRun
  <1> QED
    BY <1>1, <1>2, <1>3 DEF Step, Environment

\* Nodes are put back, and never taken back.
LEMMA AllowedGrows ==
  ASSUME TypeOK, NEW x \in Executors, Step(x)
  PROVE  \A n \in Nodes : allowed[n] <= allowed'[n]
  <1>1. \A n \in Nodes : allowed[n] \in Nat
    BY DEF TypeOK
  <1>2. CASE Settle(x)
    BY <1>1, <1>2 DEF Settle
  <1>3. CASE Recover(x) \/ Resume(x)
    BY <1>1, <1>3 DEF Recover, Resume, EnterRecovered
  <1>4. CASE Main(x) /\ ~ Settle(x)
    <2>1. UNCHANGED allowed
      BY <1>4 DEF Main, LaunchBatch, ExceedNodeRuns, AwaitNodes, StopAborted, EndOfRun,
           TakeLost, TakePause, TakeAborted, TakeRetry, TakeFailure, TakeInterrupted, TakeSuccess,
           CaptureReturns, CaptureThrows, historyVars
    <2> QED
      BY <1>1, <2>1
  <1>5. CASE Commits(x) \/ StoreFails(x)
    <2>1. UNCHANGED allowed
      BY <1>5 DEF Commits, StartBatch, MainCommitted, RequestCommitted, FailureCommitted,
           ReportCommitted, CommitConflicts, StoreFails, DropReport, CommitRejected, historyVars
    <2> QED
      BY <1>1, <2>1
  <1>6. CASE \/ Cancel(x) \/ Crash(x)
             \/ \E n \in Nodes : Host(x, n) \/ Report(x, n)
             \/ \E kind \in {"cancel", "interrupt", "deadline"} : AbortRun(x, kind)
    <2>1. UNCHANGED allowed
      BY <1>6 DEF Cancel, Crash, Host, HostReturns, HostThrows, HostTimesOut, ChildPaused, Report,
           AbortRun, historyVars
    <2> QED
      BY <1>1, <2>1
  <1> QED
    BY <1>2, <1>3, <1>4, <1>5, <1>6 DEF Step, Environment

(***************************************************************************)
(* What the steps of an executor do to its nodes.                          *)
(***************************************************************************)
\* What is known of x before a step, and must be shown of its state after it.
GoodNow(x)   == NodesOK(x) /\ CheckpointOK(mem[x], allowed) /\ SchedulingOK(x)
GoodAfter(x) == NodesOK(x)' /\ CheckpointOK(mem'[x], allowed')

\* The types a step leaves.
LEMMA StateTypes ==
  ASSUME TypeOK, TypeOK', NEW x \in Executors
  PROVE  /\ mem[x] \in Checkpoint /\ mem'[x] \in Checkpoint
         /\ allowed \in [Nodes -> Nat] /\ allowed' \in [Nodes -> Nat]
         /\ focus[x] \in SUBSET Nodes /\ task[x] \in [Nodes -> Tasks]
         /\ db \in Checkpoint /\ db' \in Checkpoint
  BY DEF TypeOK

\* A step that leaves the nodes alone and takes no promise from the active ones.
LEMMA NodesKept ==
  ASSUME TypeOK, TypeOK', NEW x \in Executors, Step(x), GoodNow(x),
         mem'[x].nodes = mem[x].nodes, mem'[x].edges = mem[x].edges,
         mem'[x].status = mem[x].status, mem'[x].attempts = mem[x].attempts,
         mem'[x].ready = mem[x].ready,
         focus'[x] = focus[x], why'[x] = why[x],
         \A n \in Nodes : task[x][n] # "none" => task'[x][n] # "none",
         \/ pc'[x] = pc[x]
         \/ pc[x] \in Scheduling \ {"launch"} /\ pc'[x] \in {"loop", "race"}
         \/ pc'[x] \in {"done", "idle"}
  PROVE  GoodAfter(x)
  <1>1. CheckpointOK(mem'[x], allowed)
    BY StateTypes, SeqApart DEF GoodNow
  <1>2. CheckpointOK(mem'[x], allowed')
    BY <1>1, StateTypes, AllowedGrows, BudgetGrows
  <1>3. NodesOK(x)'
    BY DEF NodesOK, GoodNow, Scheduling
  <1> QED
    BY <1>2, <1>3 DEF GoodAfter

\* A step that settles nothing for a pause, with a good state.
LEMMA NodesSettling ==
  ASSUME NEW x \in Executors, CheckpointOK(mem'[x], allowed'),
         \/ pc'[x] \in {"finish", "done", "idle"}
         \/ pc'[x] = "settle" /\ why'[x] # "pause" /\ mem'[x].status = "running"
  PROVE  GoodAfter(x)
  BY DEF GoodAfter, NodesOK, Scheduling

\* Entering: the state resume computed from the record, a cancelled one, or none.
LEMMA GoodEntered ==
  ASSUME TypeOK, TypeOK', NEW x \in Executors, CheckpointOK(db, allowed),
         Recover(x) \/ Resume(x) \/ Cancel(x) \/ Crash(x)
  PROVE  GoodAfter(x)
  <1>1. db \in Checkpoint /\ allowed \in [Nodes -> Nat] /\ allowed' \in [Nodes -> Nat]
    BY DEF TypeOK
  <1>2. ASSUME NEW s, NEW at, NEW r, Enter(x, s, at, r)
        PROVE  mem'[x] = s /\ pc'[x] = at
    BY <1>2 DEF Enter, SetMem, SetPC, TypeOK
  <1>3. ASSUME NEW R \in SUBSET Unsettled(db), NEW F \in SUBSET Unsettled(db), R \cap F = {},
               EnterRecovered(x, R, F)
        PROVE  GoodAfter(x)
    <2> DEFINE s == Recovered(db, R, F)
    <2>1. CheckpointOK(s, allowed') /\ \A n \in Nodes : s.nodes[n] \notin Busy
      BY <1>1, <1>3, RecoveredGood DEF EnterRecovered
    <2>2. CASE s.status = "running"
      <3>1. mem'[x] = s /\ pc'[x] = "boot"
        BY <1>2, <1>3, <2>2 DEF EnterRecovered
      <3> QED
        BY <2>1, <2>2, <3>1 DEF GoodAfter, NodesOK
    <2>3. CASE s.status # "running"
      <3>1. mem'[x] = s /\ pc'[x] = "finish"
        BY <1>2, <1>3, <2>3 DEF EnterRecovered
      <3> QED
        BY <2>1, <3>1, NodesSettling
    <2> QED
      BY <2>2, <2>3
  <1>4. CASE Recover(x) \/ Resume(x)
    BY <1>3, <1>4 DEF Recover, Resume
  <1>5. CASE Cancel(x)
    <2>1. mem'[x] = CancelledByCall(db) /\ pc'[x] = "finish" /\ allowed' = allowed
      BY <1>2, <1>5 DEF Cancel, historyVars
    <2> QED
      BY <1>1, <2>1, FinishesGood, NodesSettling
  <1>6. CASE Crash(x)
    <2>1. mem'[x] = InitialState /\ pc'[x] = "idle"
      BY <1>2, <1>6 DEF Crash
    <2> QED
      BY <1>1, <2>1, InitialGood, NodesSettling
  <1> QED
    BY <1>4, <1>5, <1>6

\* Launching a batch, or what the budget leaves of it.
LEMMA GoodLaunched ==
  ASSUME TypeOK, TypeOK', NEW x \in Executors, GoodNow(x), LaunchBatch(x) \/ ExceedNodeRuns(x)
  PROVE  GoodAfter(x)
  <1>1. PICK B \in SUBSET mem[x].ready :
          /\ mem'[x] = Launched(mem[x], B)
          /\ LaunchBatch(x) => focus'[x] = B
    <2>1. \A k : First(k, mem[x].ready) \in SUBSET mem[x].ready
      BY DEF First
    <2>2. CASE LaunchBatch(x)
      BY <2>1, <2>2 DEF LaunchBatch, Launchable, SetMem, TypeOK
    <2>3. CASE ExceedNodeRuns(x)
      <3>1. mem'[x] = Launched(mem[x], First(Room(x), mem[x].ready)) /\ pc[x] = "loop"
        BY <2>3 DEF ExceedNodeRuns, GoSettle, SetMem, TypeOK
      <3>2. ASSUME LaunchBatch(x)
            PROVE  FALSE
        <4>1. pc'[x] = "launch" /\ pc'[x] = "settle"
          BY <2>3, <3>2 DEF LaunchBatch, ExceedNodeRuns, GoSettle, SetPC, TypeOK
        <4> QED
          BY <4>1
      <3> QED
        BY <2>1, <3>1, <3>2
    <2> QED
      BY <2>2, <2>3
  <1>2. pc[x] = "loop" /\ UNCHANGED allowed
    BY DEF LaunchBatch, ExceedNodeRuns, historyVars
  <1>3. mem[x].status = "running"
    BY <1>2 DEF GoodNow, NodesOK, Scheduling
  <1>4. CheckpointOK(mem'[x], allowed')
    BY <1>1, <1>2, <1>3, StateTypes, LaunchedGood DEF GoodNow
  <1>5. /\ mem'[x].status = "running"
        /\ \A n \in Nodes : n \notin B => mem'[x].nodes[n] = mem[x].nodes[n]
    BY <1>1, <1>3, StateTypes DEF Launched, Checkpoint
  <1>6. CASE LaunchBatch(x)
    <2>1. pc'[x] = "launch" /\ focus'[x] = B /\ task'[x] = task[x]
      BY <1>1, <1>6 DEF LaunchBatch, SetPC, TypeOK
    <2>2. \A n \in Nodes : mem'[x].nodes[n] \in Busy => task'[x][n] # "none" \/ n \in focus'[x]
      BY <1>2, <1>5, <2>1 DEF GoodNow, NodesOK, Scheduling
    <2> QED
      BY <1>4, <1>5, <2>1, <2>2 DEF GoodAfter, NodesOK
  <1>7. CASE ExceedNodeRuns(x)
    <2>1. pc'[x] = "settle" /\ why'[x] = "fail"
      BY <1>7 DEF ExceedNodeRuns, GoSettle, SetPC, TypeOK
    <2> QED
      BY <1>4, <1>5, <2>1, NodesSettling
  <1> QED
    BY <1>6, <1>7

\* Ending the run: with nothing active, or with what was active settled.
LEMMA GoodFinished ==
  ASSUME TypeOK, TypeOK', NEW x \in Executors, GoodNow(x),
         StopAborted(x) \/ EndOfRun(x) \/ Settle(x)
  PROVE  GoodAfter(x)
  <1> DEFINE s == mem[x]
             act == Active(x)
  <1>1. s \in Checkpoint /\ CheckpointOK(s, allowed) /\ act \in SUBSET Nodes
        /\ (abort[x] = "deadline") \in BOOLEAN
    BY StateTypes DEF GoodNow, Active
  <1>2. ASSUME NEW t, NEW r, GoFinish(x, t, r), CheckpointOK(t, allowed')
        PROVE  GoodAfter(x)
    <2>1. mem'[x] = t /\ pc'[x] = "finish"
      BY <1>2 DEF GoFinish, SetMem, SetPC, TypeOK
    <2> QED
      BY <1>2, <2>1, NodesSettling
  <1>3. ASSUME SetPC(x, "done"), UNCHANGED mem, CheckpointOK(s, allowed')
        PROVE  GoodAfter(x)
    <2>1. mem'[x] = s /\ pc'[x] = "done"
      BY <1>3 DEF SetPC, TypeOK
    <2> QED
      BY <1>3, <2>1, NodesSettling
  <1>4. ASSUME LeaveOrCancel(x), UNCHANGED allowed
        PROVE  GoodAfter(x)
    <2>1. CheckpointOK(FinishCancelled(s, abort[x] = "deadline"), allowed')
      BY <1>1, <1>4, StateTypes, FinishesGood
    <2> QED
      BY <1>1, <1>2, <1>3, <1>4, <2>1 DEF LeaveOrCancel
  <1>5. CASE StopAborted(x)
    BY <1>4, <1>5 DEF StopAborted, historyVars
  <1>6. CASE EndOfRun(x)
    <2>1. UNCHANGED allowed
      BY <1>6 DEF EndOfRun, historyVars
    <2>2. CheckpointOK(FinishFailed(s, {}), allowed')
      BY <1>1, <2>1, StateTypes, FinishesGood
    <2>3. CheckpointOK([s EXCEPT !.status = "completed"], allowed')
      BY <1>1, <2>1, StateTypes, EndedGood DEF Terminal
    <2> QED
      BY <1>2, <1>4, <1>6, <2>1, <2>2, <2>3 DEF EndOfRun
  <1>7. CASE Settle(x)
    <2>1. \A n \in Nodes : allowed'[n] = IF why[x] = "pause" /\ n \in act \ NeverRetry /\ s.nodes[n] \in Busy
                                         THEN allowed[n] + 1 ELSE allowed[n]
      BY <1>7 DEF Settle
    <2>2. pc[x] = "settle" /\ s.status = "running"
      BY <1>7 DEF Settle, GoodNow, NodesOK
    <2>3. CASE why[x] = "pause"
      <3>1. CheckpointOK(FinishPaused(s, act), allowed')
        <4>1. \A n \in Nodes : s.nodes[n] \in Busy => n \in act
          BY <2>2, <2>3 DEF GoodNow, NodesOK, Active
        <4>2. \E n \in Nodes : s.nodes[n] = "needs_attention"
          BY <2>2, <2>3 DEF GoodNow, NodesOK
        <4>3. \A n \in Nodes : allowed'[n] = IF n \in act \ NeverRetry /\ s.nodes[n] \in Busy
                                             THEN allowed[n] + 1 ELSE allowed[n]
          BY <2>1, <2>3
        <4> HIDE DEF act, s
        <4> QED
          BY <1>1, <2>2, <4>1, <4>2, <4>3, StateTypes, FinishPausedGood DEF s
      <3>2. GoFinish(x, FinishPaused(s, act), "pause")
        BY <1>7, <2>3 DEF Settle
      <3> QED
        BY <1>2, <3>1, <3>2
    <2>4. CASE why[x] # "pause"
      <3>1. \A n \in Nodes : allowed[n] <= allowed'[n]
        BY <2>1, <2>4 DEF TypeOK
      <3>2. CheckpointOK(s, allowed')
        BY <1>1, <3>1, StateTypes, BudgetGrows
      <3>3. /\ CheckpointOK(FinishFailed(s, act), allowed')
            /\ CheckpointOK(FinishCancelled(s, abort[x] = "deadline"), allowed')
        BY <1>1, <3>2, StateTypes, FinishesGood
      <3>4. \/ GoFinish(x, FinishFailed(s, act), "fail")
            \/ GoFinish(x, FinishCancelled(s, abort[x] = "deadline"), "cancel")
            \/ SetPC(x, "done") /\ UNCHANGED mem
        BY <1>7, <2>4 DEF Settle
      <3> QED
        BY <1>2, <1>3, <3>2, <3>3, <3>4
    <2> QED
      BY <2>3, <2>4
  <1> QED
    BY <1>5, <1>6, <1>7

\* Taking a settled promise from the race: the node was busy, and no edge leaves a busy
\* node decided.
LEMMA GoodTaken ==
  ASSUME TypeOK, TypeOK', NEW x \in Executors, GoodNow(x), NEW n \in Nodes,
         \/ TakeLost(x, n) \/ TakePause(x, n) \/ TakeAborted(x, n) \/ TakeRetry(x, n)
         \/ TakeFailure(x, n) \/ TakeInterrupted(x, n) \/ TakeSuccess(x, n)
  PROVE  GoodAfter(x)
  <1> DEFINE s == mem[x]
  <1>1. /\ pc[x] = "race" /\ task[x][n] # "none"
        /\ \A m \in Nodes : m # n /\ task[x][m] # "none" => task'[x][m] # "none"
        /\ UNCHANGED allowed
    <2>1. CASE TakePause(x, n) \/ TakeFailure(x, n)
      <3>1. /\ pc[x] = "race" /\ task[x][n] # "none" /\ UNCHANGED allowed
            /\ task'[x] = [AbortedTasks(x) EXCEPT ![n] = "none"]
        BY <2>1 DEF TakePause, TakeFailure, historyVars, TypeOK
      <3> QED
        BY <3>1 DEF AbortedTasks
    <2>2. CASE \E t \in Settled : Takes(x, n, t) /\ UNCHANGED allowed
      BY <2>2 DEF Takes, Settled, TypeOK
    <2> QED
      BY <2>1, <2>2 DEF TakeLost, TakeAborted, TakeRetry, TakeInterrupted, TakeSuccess, Settled,
           historyVars
  <1>2. /\ s \in Checkpoint /\ CheckpointOK(s, allowed) /\ s.status = "running"
        /\ s.nodes[n] \in Busy
        /\ \A m \in Nodes : s.nodes[m] \in Busy => task[x][m] # "none"
    BY <1>1, StateTypes DEF GoodNow, NodesOK, SchedulingOK, Scheduling, Active
  <1>3. \A v \in {"succeeded", "failed", "cancelled", "needs_attention"} :
          CheckpointOK([s EXCEPT !.nodes[n] = v], allowed')
    BY <1>1, <1>2, StateTypes, MarkedGood
  <1>4. \A v : LET t == [s EXCEPT !.nodes[n] = v]
               IN  /\ t.status = "running" /\ t.nodes[n] = v /\ t.edges = s.edges
                   /\ \A m \in Nodes : m # n => t.nodes[m] = s.nodes[m]
    BY <1>2 DEF Checkpoint
  <1>5. ASSUME NEW t, NEW r, GoSettle(x, t, r)
        PROVE  mem'[x] = t /\ pc'[x] = "settle" /\ why'[x] = r
    BY <1>5 DEF GoSettle, SetMem, SetPC, TypeOK
  <1>6. CASE TakeLost(x, n)
    <2>1. mem'[x] = s /\ pc'[x] = "done"
      BY <1>6 DEF TakeLost, SetPC, TypeOK
    <2> QED
      BY <1>1, <1>2, <2>1, NodesSettling
  <1>7. CASE TakePause(x, n)
    <2>1. mem'[x] = [s EXCEPT !.nodes[n] = "needs_attention"] /\ pc'[x] = "settle"
      BY <1>5, <1>7 DEF TakePause
    <2>2. \A m \in Nodes : mem'[x].nodes[m] \in Busy => task'[x][m] # "none"
      BY <1>1, <1>2, <1>4, <2>1 DEF Busy
    <2> QED
      BY <1>3, <1>4, <2>1, <2>2 DEF GoodAfter, NodesOK, Scheduling
  <1>8. CASE TakeAborted(x, n) \/ TakeFailure(x, n) \/ TakeInterrupted(x, n)
    <2>1. \/ GoSettle(x, s, "interrupt")
          \/ GoSettle(x, [s EXCEPT !.nodes[n] = "cancelled"], "cancel")
          \/ GoSettle(x, [s EXCEPT !.nodes[n] = "failed"], "fail")
      BY <1>8 DEF TakeAborted, TakeFailure, TakeInterrupted
    <2>2. CheckpointOK(mem'[x], allowed') /\ mem'[x].status = "running"
          /\ pc'[x] = "settle" /\ why'[x] # "pause"
      <3>1. CASE GoSettle(x, s, "interrupt")
        BY <1>1, <1>2, <1>5, <3>1
      <3>2. ASSUME NEW v \in {"cancelled", "failed"}, NEW r \in {"cancel", "fail"},
                   GoSettle(x, [s EXCEPT !.nodes[n] = v], r)
            PROVE  CheckpointOK(mem'[x], allowed') /\ mem'[x].status = "running"
                   /\ pc'[x] = "settle" /\ why'[x] # "pause"
        <4>1. mem'[x] = [s EXCEPT !.nodes[n] = v] /\ pc'[x] = "settle" /\ why'[x] = r
          BY <1>5, <3>2
        <4> QED
          BY <1>3, <1>4, <4>1
      <3> QED
        BY <2>1, <3>1, <3>2
    <2> QED
      BY <2>2, NodesSettling
  <1>9. CASE TakeRetry(x, n)
    <2>1. /\ mem'[x] = Requeued(s, n) /\ pc'[x] = "advance"
          /\ s.attempts[n] < MaxAttempts[n]
      BY <1>9 DEF TakeRetry, Retryable, SetMem, SetPC, TypeOK
    <2>2. CheckpointOK(mem'[x], allowed')
      BY <1>1, <1>2, <2>1, StateTypes, RequeuedGood
    <2>3. /\ mem'[x].status = "running"
          /\ \A m \in Nodes : mem'[x].nodes[m] = IF m = n THEN "ready" ELSE s.nodes[m]
      BY <1>2, <2>1 DEF Requeued, Checkpoint
    <2>4. \A m \in Nodes : mem'[x].nodes[m] \in Busy => task'[x][m] # "none"
      BY <1>1, <1>2, <2>3 DEF Busy
    <2> QED
      BY <2>1, <2>2, <2>3, <2>4 DEF GoodAfter, NodesOK
  <1>10. CASE TakeSuccess(x, n)
    <2>1. /\ mem'[x] = [s EXCEPT !.nodes[n] = "succeeded"] /\ pc'[x] = "capture"
          /\ focus'[x] = {n}
      BY <1>10 DEF TakeSuccess, SetMem, SetPC, TypeOK
    <2>2. \A e \in Out(n) : s.edges[e] = "unknown"
      BY <1>2 DEF CheckpointOK, EdgesMeant, Out, Busy, Checkpoint, EdgeStatus
    <2>3. \A m \in Nodes : mem'[x].nodes[m] \in Busy => task'[x][m] # "none"
      BY <1>1, <1>2, <1>4, <2>1 DEF Busy
    <2> QED
      BY <1>3, <1>4, <2>1, <2>2, <2>3 DEF GoodAfter, NodesOK
  <1> QED
    BY <1>6, <1>7, <1>8, <1>9, <1>10

\* The capture gateway's answer.
LEMMA GoodCaptured ==
  ASSUME TypeOK, TypeOK', NEW x \in Executors, GoodNow(x), NEW n \in Nodes,
         CaptureReturns(x, n) \/ CaptureThrows(x, n)
  PROVE  GoodAfter(x)
  <1> DEFINE s == mem[x]
  <1>1. pc[x] = "capture" /\ n \in focus[x] /\ UNCHANGED allowed
    BY DEF CaptureReturns, CaptureThrows, historyVars
  <1>2. /\ s \in Checkpoint /\ CheckpointOK(s, allowed) /\ s.status = "running"
        /\ s.nodes[n] = "succeeded" /\ \A e \in Out(n) : s.edges[e] = "unknown"
        /\ \A m \in Nodes : s.nodes[m] \in Busy => task[x][m] # "none"
    BY <1>1, StateTypes DEF GoodNow, NodesOK, Scheduling
  <1>3. CASE CaptureReturns(x, n)
    <2>1. PICK sel \in Choices[n], S \in SUBSET {m \in Nodes : s.nodes[m] = "pending"} :
            /\ IsSkipSet(s.nodes, s.edges, n, sel, S)
            /\ SetMem(x, EdgesSettled(s, n, sel, S))
      BY <1>3 DEF CaptureReturns
    <2>2. mem'[x] = EdgesSettled(s, n, sel, S) /\ pc'[x] = "advance" /\ task'[x] = task[x]
      BY <1>3, <2>1 DEF CaptureReturns, SetMem, SetPC, TypeOK
    <2>3. CheckpointOK(mem'[x], allowed')
      BY <1>1, <1>2, <2>1, <2>2, StateTypes, EdgesSettledGood
    <2>4. /\ mem'[x].status = "running"
          /\ \A m \in Nodes : mem'[x].nodes[m] \in Busy => s.nodes[m] \in Busy
      BY <1>2, <2>2 DEF EdgesSettled, Mark, Checkpoint, Busy
    <2> QED
      BY <1>2, <2>2, <2>3, <2>4 DEF GoodAfter, NodesOK
  <1>4. CASE CaptureThrows(x, n)
    <2>1. mem'[x] = [s EXCEPT !.nodes[n] = "failed"] /\ pc'[x] = "settle" /\ why'[x] = "fail"
      BY <1>4 DEF CaptureThrows, GoSettle, SetMem, SetPC, TypeOK
    <2>2. CheckpointOK(mem'[x], allowed')
      <3>1. CheckpointOK([s EXCEPT !.nodes[n] = "failed"], allowed)
        BY <1>2, StateTypes, MarkedGood
      <3> QED
        BY <1>1, <2>1, <3>1
    <2>3. mem'[x].status = "running"
      BY <1>2, <2>1 DEF Checkpoint
    <2> QED
      BY <2>1, <2>2, <2>3, NodesSettling
  <1> QED
    BY <1>3, <1>4

\* The store's answers: a commit that fails may fail the run in memory, and no other
\* answer changes what the nodes say.
LEMMA GoodCommitted ==
  ASSUME TypeOK, TypeOK', NEW x \in Executors, QueueOK(x), GoodNow(x),
         Commits(x) \/ StoreFails(x), Step(x)
  PROVE  GoodAfter(x)
  <1>1. ASSUME NEW rest, Store(x, rest)
        PROVE  /\ mem'[x].nodes = mem[x].nodes /\ mem'[x].edges = mem[x].edges
               /\ mem'[x].status = mem[x].status /\ mem'[x].attempts = mem[x].attempts
               /\ mem'[x].ready = mem[x].ready
    <2>1. mem[x] \in Checkpoint /\ mem'[x] = [mem[x] EXCEPT !.seq = mem[x].seq + 1]
      BY <1>1, StoredState, StateTypes
    <2> QED
      BY <2>1 DEF Checkpoint
  <1>2. CASE StartBatch(x)
    <2>1. /\ pc[x] = "launch" /\ pc'[x] = "race" /\ UNCHANGED <<focus, allowed>>
          /\ \E rest : Store(x, rest)
      BY <1>2 DEF StartBatch, SetPC, TypeOK
    <2>2. \A n \in Nodes : task[x][n] # "none" \/ n \in focus[x] => task'[x][n] # "none"
      BY <1>2, StartedBatch
    <2>3. mem'[x].nodes = mem[x].nodes /\ mem'[x].status = "running"
      BY <1>1, <2>1 DEF GoodNow, NodesOK, Scheduling
    <2>4. CheckpointOK(mem'[x], allowed')
      BY <1>1, <2>1, StateTypes, SeqApart DEF GoodNow
    <2>5. \A n \in Nodes : mem'[x].nodes[n] \in Busy => task'[x][n] # "none"
      BY <2>1, <2>2, <2>3 DEF GoodNow, NodesOK, Scheduling
    <2> QED
      BY <2>1, <2>3, <2>4, <2>5 DEF GoodAfter, NodesOK
  <1>3. CASE MainCommitted(x)
    <2>1. /\ UNCHANGED <<focus, why, task>> /\ \E rest : Store(x, rest)
          /\ \/ pc[x] \in {"boot", "advance"} /\ pc'[x] = "loop"
             \/ pc'[x] = "done"
      BY <1>3 DEF MainCommitted, SetPC, TypeOK
    <2> QED
      BY <1>1, <2>1, NodesKept DEF Scheduling
  <1>4. CASE RequestCommitted(x) \/ FailureCommitted(x)
    <2>1. /\ UNCHANGED <<pc, focus, why>> /\ \E rest : Store(x, rest)
          /\ \A n \in Nodes : task[x][n] # "none" => task'[x][n] # "none"
      BY <1>4 DEF RequestCommitted, FailureCommitted, TypeOK
    <2> QED
      BY <1>1, <2>1, NodesKept
  <1>5. CASE ReportCommitted(x)
    <2>1. UNCHANGED <<pc, focus, why, task>> /\ \E rest : Store(x, rest)
      BY <1>5 DEF ReportCommitted
    <2> QED
      BY <1>1, <2>1, NodesKept
  <1>6. CASE DropReport(x)
    BY <1>6, NodesKept DEF DropReport
  <1>7. CASE CommitConflicts(x) \/ StoreFails(x)
    <2>1. CommitRejected(x) /\ AtStore(x)
      BY <1>7 DEF CommitConflicts, StoreFails
    <2>2. UNCHANGED <<focus, why>> /\ \A n \in Nodes : task[x][n] # "none" => task'[x][n] # "none"
      <3>1. \A n \in Nodes : task[x][n] # "none" => task'[x][n] # "none"
        BY <2>1, Rejected
      <3> QED
        BY <2>1, <3>1 DEF CommitRejected
    <2>3. CASE Head(fifo[x]) = MainJob
      <3>1. pc'[x] = "done"
        BY <2>1, <2>3 DEF CommitRejected, SetPC, TypeOK
      <3>2. PICK v \in {mem[x].status, "failed"} : mem'[x] = [mem[x] EXCEPT !.status = v]
        BY <2>1, Rejected
      <3>3. CASE v = mem[x].status
        <4>1. mem'[x] = mem[x]
          BY <3>2, <3>3, StateTypes DEF Checkpoint
        <4> QED
          BY <2>2, <3>1, <4>1, NodesKept
      <3>4. CASE v = "failed"
        <4>1. CheckpointOK(mem[x], allowed')
          BY StateTypes, AllowedGrows, BudgetGrows DEF GoodNow
        <4>2. CheckpointOK([mem[x] EXCEPT !.status = "failed"], allowed')
          BY <4>1, StateTypes, EndedGood DEF Terminal
        <4>3. CheckpointOK(mem'[x], allowed')
          BY <3>2, <3>4, <4>2
        <4> QED
          BY <3>1, <4>3, NodesSettling
      <3> QED
        BY <3>2, <3>3, <3>4
    <2>4. CASE Head(fifo[x]) # MainJob
      <3>1. mem'[x] = mem[x] /\ pc'[x] = pc[x]
        BY <2>1, <2>4 DEF CommitRejected, SetMem, TypeOK
      <3> QED
        BY <2>2, <3>1, NodesKept
    <2> QED
      BY <2>3, <2>4
  <1> QED
    BY <1>2, <1>3, <1>4, <1>5, <1>6, <1>7 DEF Commits

\* Host code, its reports and aborts say nothing about the nodes.
LEMMA GoodHost ==
  ASSUME TypeOK, TypeOK', NEW x \in Executors, GoodNow(x), Step(x),
         \/ \E n \in Nodes : Host(x, n) \/ Report(x, n)
         \/ \E kind \in {"cancel", "interrupt", "deadline"} : AbortRun(x, kind)
  PROVE  GoodAfter(x)
  <1>1. ASSUME NEW n \in Nodes, Host(x, n)
        PROVE  /\ UNCHANGED <<mem, pc, focus, why>>
               /\ \A m \in Nodes : task[x][m] # "none" => task'[x][m] # "none"
    <2>1. ASSUME NEW v \in {"failing", "pausing"}, NodeErrs(x, n, v)
          PROVE  \A m \in Nodes : task[x][m] # "none" => task'[x][m] # "none"
      BY <2>1 DEF NodeErrs, TypeOK
    <2> QED
      BY <1>1, <2>1 DEF Host, HostReturns, HostThrows, HostTimesOut, ChildPaused, TypeOK
  <1>2. ASSUME NEW n \in Nodes, Report(x, n)
        PROVE  UNCHANGED <<mem, pc, focus, why, task>>
    BY <1>2 DEF Report
  <1>3. ASSUME NEW kind, AbortRun(x, kind)
        PROVE  /\ UNCHANGED <<mem, pc, focus, why>>
               /\ \A m \in Nodes : task[x][m] # "none" => task'[x][m] # "none"
    BY <1>3 DEF AbortRun, AbortedTasks, TypeOK
  <1> QED
    BY <1>1, <1>2, <1>3, NodesKept

\* Waiting for the active nodes.
LEMMA GoodAwaiting ==
  ASSUME TypeOK, TypeOK', NEW x \in Executors, GoodNow(x), Step(x), AwaitNodes(x)
  PROVE  GoodAfter(x)
  <1>1. UNCHANGED <<mem, focus, why, task>> /\ pc[x] = "loop" /\ pc'[x] = "race"
    BY DEF AwaitNodes, SetPC, TypeOK
  <1> QED
    BY <1>1, NodesKept DEF Scheduling

\* Every step of an executor leaves its state good.
LEMMA GoodStep ==
  ASSUME TypeOK, TypeOK', NEW x \in Executors, QueueOK(x), GoodNow(x), CheckpointOK(db, allowed),
         Step(x)
  PROVE  GoodAfter(x)
  BY GoodEntered, GoodLaunched, GoodFinished, GoodTaken, GoodCaptured, GoodCommitted, GoodHost,
     GoodAwaiting DEF Step, Main, Environment

(***************************************************************************)
(* The invariant.                                                          *)
(***************************************************************************)
\* It holds before anyone has started.
LEMMA NodeInit == Init => NodeInv
  <1> SUFFICES ASSUME Init
               PROVE  NodeInv
    OBVIOUS
  <1>1. CallInv /\ TypeOK
    BY CallInit DEF CallInv
  <1>2. CheckpointOK(InitialState, allowed)
    BY <1>1, InitialGood DEF TypeOK
  <1>3. \A x \in Executors : mem[x] = InitialState /\ sent[x] = {} /\ pc[x] = "idle"
    BY DEF Init
  <1> QED
    BY <1>1, <1>2, <1>3 DEF NodeInv, NodesOK, HoldsGood, Scheduling, Init

\* It is inductive: a step of one executor is good for the record and for the others.
LEMMA NodeNext == NodeInv /\ [Next]_vars => NodeInv'
  <1> SUFFICES ASSUME NodeInv, [Next]_vars
               PROVE  NodeInv'
    OBVIOUS
  <1>1. CallInv' /\ TypeOK /\ TypeOK'
    BY CallNext DEF NodeInv, CallInv
  <1>2. CASE Next
    <2>1. PICK x \in Executors : Step(x)
      BY <1>2 DEF Next, Step
    <2>2. ASSUME NEW s \in Checkpoint, CheckpointOK(s, allowed)
          PROVE  CheckpointOK(s, allowed')
      BY <1>1, <2>1, <2>2, StateTypes, AllowedGrows, BudgetGrows
    <2>3. \A y \in Executors : /\ mem[y] \in Checkpoint /\ CheckpointOK(mem[y], allowed)
                               /\ \A s \in sent[y] : s \in Checkpoint /\ CheckpointOK(s, allowed)
      BY <1>1 DEF TypeOK, NodeInv, HoldsGood
    <2>4. GoodAfter(x)
      BY <1>1, <2>1, <2>3, GoodStep DEF NodeInv, CallInv, GoodNow
    <2>5. NodesOK(x)' /\ HoldsGood(x)'
      BY <1>1, <2>1, <2>2, <2>3, <2>4, SentFrom DEF GoodAfter, HoldsGood
    <2>6. ASSUME NEW y \in Executors, y # x
          PROVE  NodesOK(y)' /\ HoldsGood(y)'
      <3>1. Untouched(y)
        BY <1>1, <2>1, <2>6, OthersUntouched
      <3>2. NodesOK(y)'
        BY <3>1 DEF Untouched, NodesOK, NodeInv
      <3>3. HoldsGood(y)'
        BY <2>2, <2>3, <3>1 DEF Untouched, HoldsGood
      <3> QED
        BY <3>2, <3>3
    <2>7. CheckpointOK(db', allowed')
      <3>1. CASE db' = db
        BY <1>1, <2>2, <3>1, StateTypes DEF NodeInv
      <3>2. ASSUME NEW s \in sent[x], db' = [s EXCEPT !.seq = s.seq + 1]
            PROVE  CheckpointOK(db', allowed')
        <4>1. s \in Checkpoint /\ CheckpointOK(s, allowed')
          BY <2>2, <2>3
        <4>2. /\ db' \in Checkpoint /\ db'.status = s.status /\ db'.nodes = s.nodes
              /\ db'.edges = s.edges /\ db'.attempts = s.attempts /\ db'.ready = s.ready
          BY <1>1, <3>2, <4>1, StateTypes DEF Checkpoint
        <4> QED
          BY <4>1, <4>2, SeqApart
      <3> QED
        BY <1>1, <2>1, <3>1, <3>2, RecordFrom
    <2> QED
      BY <1>1, <2>5, <2>6, <2>7 DEF NodeInv
  <1>3. CASE UNCHANGED vars
    BY <1>1, <1>3 DEF vars, executorVars, historyVars, NodeInv, NodesOK, HoldsGood
  <1> QED
    BY <1>2, <1>3

\* Whatever any executor holds, has in flight or has written is good, in every reachable
\* state.
THEOREM NodesCorrect == Spec => []NodeInv
  BY NodeInit, NodeNext, PTL DEF Spec

\* A recoverable record queues exactly its ready nodes, so that restoreState accepts it
\* and no node is lost (recomputeReadyQueue is never needed).
THEOREM QueueIsExact == Spec => []ReadyQueueExact
  <1>1. NodeInv => ReadyQueueExact
    BY DEF NodeInv, CheckpointOK, Exact, ReadyQueueExact
  <1> QED
    BY <1>1, NodesCorrect, PTL

\* A node is attempted within its retry policy, plus once for each time it was put back.
THEOREM AttemptsAreJustified == Spec => []AttemptsJustified
  <1>1. NodeInv => AttemptsJustified
    BY DEF NodeInv, CheckpointOK, Budgeted, AttemptsJustified
  <1> QED
    BY <1>1, NodesCorrect, PTL

\* A paused record names a node to decide about and has none at work.
THEOREM PausesWait == Spec => []PausedNeedsDecision
  <1>1. NodeInv => PausedNeedsDecision
    BY DEF NodeInv, CheckpointOK, Waits, PausedNeedsDecision
  <1> QED
    BY <1>1, NodesCorrect, PTL

\* A node that was ever attempted had its edges decided, one of them taken, by nodes that
\* were done.
THEOREM ActivationsAreJustified == Spec => []ActivationJustified
  <1>1. ASSUME NodeInv
        PROVE  ActivationJustified
    <2>1. TypeOK /\ CheckpointOK(db, allowed)
      BY <1>1 DEF NodeInv, CallInv
    <2> SUFFICES ASSUME NEW n \in Nodes \ {Start}, db.attempts[n] > 0
                 PROVE  /\ HasTaken(db.edges, n)
                        /\ \A e \in In(n) :
                              \/ db.edges[e] = "taken" /\ db.nodes[Src[e]] = "succeeded"
                              \/ /\ db.edges[e] = "skipped"
                                 /\ db.nodes[Src[e]] \in {"succeeded", "skipped"}
      BY DEF ActivationJustified
    <2>2. Decided(db, n)
      BY <2>1 DEF CheckpointOK, Activated
    <2>3. \A e \in In(n) : e \in Edges /\ db.edges[e] \in EdgeStatus
      BY <2>1 DEF In, TypeOK, Checkpoint
    <2> QED
      BY <2>1, <2>2, <2>3 DEF Decided, CheckpointOK, EdgesMeant, EdgeStatus
  <1> QED
    BY <1>1, NodesCorrect, PTL
-----------------------------------------------------------------------------
(***************************************************************************)
(* The record of a run keeps the promise of DurableRun: an outcome is      *)
(* final, a paused run starts nothing, and every commit accounts for at    *)
(* most one new attempt of a node.  The invariant says what an executor    *)
(* that has heard of every commit may still have in flight, in particular  *)
(* the progress reports that outlive the end of its run.                   *)
(***************************************************************************)

\* No promise, no late attempt, and no commit but main's: only main can commit.
Alone(x) == task[x] = NoTasks /\ late[x] = {} /\ fifo[x] \in {<<>>, <<MainJob>>}

\* ... which is as good as having been aborted, since reports are then dropped.
Quiet(x) == task[x] = NoTasks /\ (Aborted(x) \/ Alone(x))

\* The run is to end, or has ended, without a result of its own.
Withdrawn(x) == mem[x].status \in {"cancelled", "paused"}

\* x has counted no attempt that the record does not have.
Keeps(x) == \A n \in Nodes : mem[x].attempts[n] = db.attempts[n]

\* What main has settled before it goes from one stage to the next.
StageOK(x) ==
    /\ pc[x] = "boot" => Alone(x)
    /\ pc[x] = "settle" /\ why[x] \in {"cancel", "pause"} => Aborted(x)
    /\ pc[x] = "finish" => /\ mem[x].status # "running"
                           /\ mem[x].status = "completed" <=> why[x] = "completed"
    /\ pc[x] \in {"finish", "done"} /\ Withdrawn(x) => Quiet(x)
    /\ pc[x] = "done" /\ Withdrawn(x) => sent[x] = {}

\* The commit in flight is from before the end or from the end itself; that of main is
\* from the end, and no report carries a withdrawal.
SentOK(x) ==
    \A s \in sent[x] :
        /\ s.status # "running" => s.status = mem[x].status /\ s.attempts = mem[x].attempts
        /\ fifo[x] # <<>> /\ Head(fifo[x]).kind = "main" => s.status = mem[x].status
        /\ pc[x] = "finish" /\ Withdrawn(x) /\ fifo[x] # <<>> /\ Head(fifo[x]).kind # "main"
              => s.status = "running"

\* What the record is while a current executor is at work, what that executor may have
\* counted beyond it, and what it can still commit to a record that is at rest.
TrackOK(x) ==
    Current(x) =>
        /\ pc[x] \in {"loop", "launch", "race", "capture", "advance", "settle"} =>
              db.status = "running"
        /\ pc[x] = "boot" \/ (pc[x] = "finish" /\ Withdrawn(x)) => db.status \notin Terminal
        /\ \A n \in Nodes : mem[x].attempts[n] <= db.attempts[n] + 1
        /\ pc[x] \in {"boot", "loop", "race", "capture", "advance"} => Keeps(x)
        /\ db.status = "paused" =>
              \/ pc[x] \in {"boot", "finish"} /\ Alone(x) /\ Keeps(x)
              \/ pc[x] = "done" /\ Quiet(x) /\ sent[x] = {}
        /\ db.status \in Terminal =>
              /\ mem[x].status = db.status /\ Keeps(x)
              /\ \A s \in sent[x] : s.status = db.status

RecordInv ==
    /\ NodeInv
    /\ \A x \in Executors : StageOK(x) /\ SentOK(x) /\ TrackOK(x)

(***************************************************************************)
(* The steps of an executor, by what they do to its part of the invariant. *)
(***************************************************************************)
\* What is known of x before a step, and what must be shown after it.
RecordNow(x) ==
    /\ TypeOK /\ QueueOK(x) /\ SchedulingOK(x) /\ CallsOK(x) /\ NodesOK(x)
    /\ StageOK(x) /\ SentOK(x) /\ TrackOK(x)
RecordAfter(x) == StageOK(x)' /\ SentOK(x)' /\ TrackOK(x)'

\* A step that does not write to the record.
LEMMA Unwritten ==
  ASSUME TypeOK, TypeOK', NEW x \in Executors, NEW n \in Nodes
  PROVE  /\ mem[x].attempts[n] \in Nat /\ mem'[x].attempts[n] \in Nat
         /\ db.attempts[n] \in Nat /\ db'.attempts[n] \in Nat
         /\ mem[x].seq \in Nat /\ db.seq \in Nat
         /\ mem[x].status \in RunStatus /\ db.status \in RunStatus
  BY DEF TypeOK, Checkpoint

\* Main at work: the run goes on in memory, and the record is as it was.
LEMMA RecordWorking ==
  ASSUME NEW x \in Executors, RecordNow(x), TypeOK',
         pc[x] \in {"loop", "race", "capture", "settle"},
         pc'[x] \in {"launch", "race", "capture", "advance", "settle", "done"},
         pc[x] = "settle" => pc'[x] = "done",
         mem'[x].status = "running", mem'[x].seq = mem[x].seq, db' = db,
         sent'[x] \subseteq sent[x] \cup {mem'[x]},
         \/ mem'[x].attempts = mem[x].attempts
         \/ /\ pc[x] = "loop" /\ pc'[x] \in {"launch", "settle"}
            /\ \A n \in Nodes : mem'[x].attempts[n] \in {mem[x].attempts[n], mem[x].attempts[n] + 1},
         pc'[x] = "settle" /\ why'[x] \in {"cancel", "pause"} => Aborted(x)'
  PROVE  RecordAfter(x)
  <1>1. mem[x].status = "running"
    BY DEF RecordNow, NodesOK, Scheduling
  <1>2. \A s \in sent'[x] : s.status = "running"
    BY <1>1 DEF RecordNow, SentOK
  <1>3. StageOK(x)'
    BY DEF StageOK, Withdrawn
  <1>4. SentOK(x)'
    BY <1>2 DEF SentOK, Withdrawn
  <1>5. ASSUME Current(x)'
        PROVE  TrackOK(x)'
    <2>1. Current(x) /\ pc'[x] # "boot" /\ pc'[x] # "finish" /\ pc'[x] # "loop"
      BY <1>5 DEF Current
    <2>2. db'.status = "running"
      BY <2>1 DEF RecordNow, TrackOK
    <2>3. \A n \in Nodes : /\ mem[x].attempts[n] <= db.attempts[n] + 1
                           /\ pc[x] # "settle" => mem[x].attempts[n] = db.attempts[n]
      BY <2>1 DEF RecordNow, TrackOK, Keeps
    <2>4. \A n \in Nodes : mem'[x].attempts[n] <= db'.attempts[n] + 1
      BY <2>3, Unwritten DEF RecordNow
    <2>5. pc'[x] \in {"race", "capture", "advance"} => Keeps(x)'
      BY <2>3 DEF Keeps
    <2> QED
      BY <2>1, <2>2, <2>4, <2>5 DEF TrackOK, Terminal
  <1> QED
    BY <1>3, <1>4, <1>5 DEF RecordAfter, TrackOK

\* Main queues the commit that ends the run.
LEMMA RecordFinishing ==
  ASSUME NEW x \in Executors, RecordNow(x), TypeOK',
         pc[x] \in {"loop", "settle"}, NEW s \in Checkpoint, NEW r, GoFinish(x, s, r),
         SameCount(mem[x], s), s.status # "running", db' = db, abort' = abort,
         s.status = "completed" <=> r = "completed",
         s.status \in {"cancelled", "paused"} => Aborted(x),
         task'[x] = NoTasks
  PROVE  RecordAfter(x)
  <1>1. mem'[x] = s /\ pc'[x] = "finish" /\ why'[x] = r /\ Queue(x, <<MainJob>>, s)
    BY DEF GoFinish, SetMem, SetPC, RecordNow, TypeOK
  <1>2. mem[x].status = "running"
    BY DEF RecordNow, NodesOK, Scheduling
  <1>3. \A t \in sent[x] : t.status = "running"
    BY <1>2 DEF RecordNow, SentOK
  <1>4. \A t \in sent'[x] : \/ t = s /\ Head(fifo'[x]).kind = "main"
                            \/ t.status = "running" /\ fifo'[x] # <<>> /\ Head(fifo'[x]).kind # "main"
    <2>1. CASE fifo[x] = <<>>
      <3>1. sent'[x] \subseteq {s}
        BY <1>1, <2>1 DEF Queue, Sending, RecordNow, TypeOK
      <3>2. fifo'[x] = <<>> \o <<MainJob>>
        BY <1>1, <2>1 DEF Queue, RecordNow, TypeOK
      <3>3. Head(fifo'[x]).kind = "main"
        BY <3>2 DEF MainJob
      <3> QED
        BY <3>1, <3>3
    <2>2. CASE fifo[x] # <<>>
      <3>1. sent'[x] = sent[x] /\ fifo'[x] = fifo[x] \o <<MainJob>>
        BY <1>1, <2>2 DEF Queue, RecordNow, TypeOK
      <3>2. fifo[x] \in Seq(Job) /\ <<MainJob>> \in Seq(Job)
        BY JobType DEF RecordNow, TypeOK
      <3>3. fifo'[x] # <<>> /\ Head(fifo'[x]) = Head(fifo[x])
        BY <2>2, <3>1, <3>2, ConcatProperties, LenProperties, HeadTailProperties, EmptySeq
      <3>4. Head(fifo[x]).kind # "main"
        BY <2>2, HeadOK DEF RecordNow, JobOK, Committing
      <3> QED
        BY <1>3, <3>1, <3>3, <3>4
    <2> QED
      BY <2>1, <2>2
  <1>5. StageOK(x)'
    BY <1>1 DEF StageOK, Withdrawn, Quiet, Aborted
  <1>6. SentOK(x)'
    BY <1>1, <1>4 DEF SentOK
  <1>7. ASSUME Current(x)'
        PROVE  TrackOK(x)'
    <2>1. Current(x) /\ mem'[x].attempts = mem[x].attempts
      BY <1>1, <1>7 DEF Current, SameCount
    <2>2. db'.status = "running" /\ \A n \in Nodes : mem'[x].attempts[n] <= db'.attempts[n] + 1
      BY <2>1 DEF RecordNow, TrackOK
    <2> QED
      BY <1>1, <2>2 DEF TrackOK, Terminal
  <1> QED
    BY <1>5, <1>6, <1>7 DEF RecordAfter, TrackOK

\* A queue whose promises are all settled holds main's commit, while main awaits one, and
\* reports; an aborted run sends none of those.
LEMMA QuietSends ==
  ASSUME TypeOK', NEW x \in Executors, QueueOK(x)', Quiet(x)', abort'[x] = abort[x],
         sent'[x] = Sending(x, fifo'[x], mem'[x])
  PROVE  \A s \in sent'[x] : fifo'[x] # <<>> /\ Head(fifo'[x]).kind = "main" /\ pc'[x] \in Committing
  <1> SUFFICES ASSUME NEW s \in sent'[x]
               PROVE  fifo'[x] # <<>> /\ Head(fifo'[x]).kind = "main" /\ pc'[x] \in Committing
    OBVIOUS
  <1> DEFINE q == fifo'[x]
             h == Head(q)
  <1>1. q # <<>> /\ ~ (h.kind = "progress" /\ Aborted(x))
    BY DEF Sending
  <1>2. JobOK(pc'[x], task'[x], h) /\ h \in Job /\ h.node \in Nodes
    <2>1. q \in Seq(Job) /\ GoodQueue(pc'[x], task'[x], q)
      BY DEF TypeOK, QueueOK
    <2>2. 1 \in 1 .. Len(q) /\ h = q[1]
      BY <1>1, <2>1, LenProperties, HeadTailProperties, EmptySeq
    <2> QED
      BY <2>1, <2>2, QueuedJob DEF GoodQueue
  <1>3. task'[x] = NoTasks /\ (Aborted(x) \/ q = <<MainJob>>)
    BY <1>1 DEF Quiet, Alone, Aborted
  <1>4. h.kind \notin {"request", "capfail"}
    BY <1>2, <1>3 DEF JobOK, NoTasks
  <1>5. h.kind = "main"
    <2>1. CASE q = <<MainJob>>
      BY <2>1 DEF MainJob
    <2>2. CASE Aborted(x)
      BY <1>1, <1>2, <1>4, <2>2 DEF Job
    <2> QED
      BY <1>3, <2>1, <2>2
  <1> QED
    BY <1>1, <1>2, <1>5 DEF JobOK

\* Host code, and what it reports: nobody is quiet, and nothing else changes.
LEMMA RecordHost ==
  ASSUME NEW x \in Executors, NEW n \in Nodes, RecordNow(x), TypeOK', QueueOK(x)',
         Host(x, n) \/ Report(x, n)
  PROVE  RecordAfter(x)
  <1>1. /\ UNCHANGED <<db, mem, pc, why, abort>>
        /\ \/ task[x][n] = "exec" /\ task'[x][n] # "none"
           \/ n \in late[x] /\ n \in late'[x] /\ ~ Aborted(x) /\ ~ Aborted(x)'
    BY DEF Host, HostReturns, HostThrows, HostTimesOut, ChildPaused, NodeErrs, Report, Aborted,
        RecordNow, TypeOK
  <1>2. ~ Quiet(x) /\ ~ Alone(x) /\ ~ Quiet(x)' /\ ~ Alone(x)'
    BY <1>1 DEF Quiet, Alone, NoTasks
  <1>3. \A s \in sent'[x] : \/ s = mem[x]
                            \/ s \in sent[x]
    BY SentFrom, <1>1 DEF RecordNow, Step, Environment
  <1>4. \A s \in sent'[x] : fifo'[x] # <<>> /\ Head(fifo'[x]).kind = "main" => s.status = mem[x].status
    <2>1. ASSUME NEW j \in Job, j.kind # "main", Queue(x, <<j>>, mem[x])
          PROVE  \A s \in sent'[x] : fifo'[x] # <<>> /\ Head(fifo'[x]).kind = "main" => s.status = mem[x].status
      <3>1. CASE fifo[x] = <<>>
        BY <2>1, <3>1 DEF Queue, Sending, RecordNow, TypeOK
      <3>2. CASE fifo[x] # <<>>
        <4>1. sent'[x] = sent[x] /\ fifo'[x] = fifo[x] \o <<j>>
          BY <2>1, <3>2 DEF Queue, RecordNow, TypeOK
        <4>2. fifo[x] \in Seq(Job) /\ <<j>> \in Seq(Job)
          BY <2>1 DEF RecordNow, TypeOK
        <4>3. Head(fifo'[x]) = Head(fifo[x])
          BY <3>2, <4>1, <4>2, ConcatProperties, LenProperties, HeadTailProperties, EmptySeq
        <4> QED
          BY <3>2, <4>1, <4>3 DEF RecordNow, SentOK
      <3> QED
        BY <3>1, <3>2
    <2>2. UNCHANGED <<fifo, sent>> \/ \E j \in Job : j.kind # "main" /\ Queue(x, <<j>>, mem[x])
      <3>1. \A k \in {"capfail", "progress"} : [kind |-> k, node |-> n] \in Job
        BY DEF Job
      <3>2. ASSUME NEW v, NodeErrs(x, n, v)
            PROVE  UNCHANGED <<fifo, sent>> \/ \E j \in Job : j.kind # "main" /\ Queue(x, <<j>>, mem[x])
        BY <3>1, <3>2 DEF NodeErrs
      <3>3. CASE Host(x, n)
        BY <3>2, <3>3 DEF Host, HostReturns, HostThrows, HostTimesOut, ChildPaused
      <3>4. CASE Report(x, n)
        BY <3>1, <3>4 DEF Report
      <3> QED
        BY <3>3, <3>4
    <2> QED
      BY <2>1, <2>2 DEF RecordNow, SentOK
  <1>5. StageOK(x)'
    BY <1>1, <1>2 DEF StageOK, Withdrawn, RecordNow, Aborted
  <1>6. SentOK(x)'
    BY <1>1, <1>2, <1>3, <1>4 DEF SentOK, StageOK, Withdrawn, RecordNow
  <1>7. TrackOK(x)'
    BY <1>1, <1>2, <1>3 DEF TrackOK, Current, Withdrawn, Keeps, RecordNow
  <1> QED
    BY <1>5, <1>6, <1>7 DEF RecordAfter

\* An abort makes a run quiet at most, and rejects the promises that still execute.
LEMMA RecordAborted ==
  ASSUME NEW x \in Executors, NEW kind \in {"cancel", "interrupt", "deadline"},
         RecordNow(x), TypeOK', AbortRun(x, kind)
  PROVE  RecordAfter(x)
  <1>1. /\ pc[x] \notin {"idle", "done", "finish"}
        /\ UNCHANGED <<db, mem, pc, why, fifo, sent, late>>
        /\ Aborted(x)' /\ task'[x] = AbortedTasks(x)
    BY DEF AbortRun, Aborted, RecordNow, TypeOK
  <1>2. Alone(x) => Alone(x)'
    <2>1. task[x] = NoTasks => task'[x] = NoTasks
      BY <1>1 DEF AbortedTasks, NoTasks
    <2> QED
      BY <1>1, <2>1 DEF Alone
  <1>3. StageOK(x)'
    BY <1>1, <1>2 DEF StageOK, RecordNow
  <1>4. SentOK(x)'
    BY <1>1 DEF SentOK, RecordNow, Withdrawn
  <1>5. TrackOK(x)'
    BY <1>1, <1>2 DEF TrackOK, Current, Withdrawn, Keeps, RecordNow
  <1> QED
    BY <1>3, <1>4, <1>5 DEF RecordAfter

\* Main alone has queued at most its own commit: once that has had its turn, nothing.
LEMMA AloneDequeues ==
  ASSUME NEW x \in Executors, Alone(x), fifo[x] # <<>>, fifo'[x] = Tail(fifo[x]),
         task'[x] = task[x], late'[x] = late[x]
  PROVE  Alone(x)' /\ fifo'[x] = <<>> /\ Head(fifo[x]) = MainJob
  <1>1. fifo[x] = <<MainJob>>
    BY DEF Alone
  <1>2. \A j : Tail(<<j>>) = <<>> /\ Head(<<j>>) = j
    OBVIOUS
  <1>3. fifo'[x] = <<>> /\ Head(fifo[x]) = MainJob
    BY <1>1, <1>2
  <1> QED
    BY <1>3 DEF Alone

\* A report that came after the abort is dropped, and the next commit has its turn.
LEMMA RecordDropped ==
  ASSUME NEW x \in Executors, RecordNow(x), TypeOK', QueueOK(x)', DropReport(x)
  PROVE  RecordAfter(x)
  <1>1. /\ UNCHANGED <<db, mem, pc, why, task, abort, late>>
        /\ fifo[x] # <<>> /\ fifo'[x] = Tail(fifo[x])
        /\ sent'[x] = Sending(x, fifo'[x], mem'[x])
    BY DEF DropReport, Dequeue, RecordNow, TypeOK
  <1>2. (Alone(x) => Alone(x)') /\ (Quiet(x) => Quiet(x)')
    BY <1>1, AloneDequeues DEF Quiet, Aborted
  <1>3. \A s \in sent'[x] : s = mem[x]
    BY <1>1 DEF Sending
  <1>4. Quiet(x) => \A s \in sent'[x] :
          fifo'[x] # <<>> /\ Head(fifo'[x]).kind = "main" /\ pc[x] \in Committing
    BY <1>1, <1>2, QuietSends DEF RecordNow
  <1>5. StageOK(x)'
    BY <1>1, <1>2, <1>4 DEF StageOK, Withdrawn, RecordNow, Aborted, Committing
  <1>6. SentOK(x)'
    BY <1>1, <1>3, <1>4 DEF SentOK, StageOK, Withdrawn, RecordNow
  <1>7. TrackOK(x)'
    BY <1>1, <1>2, <1>3, <1>4 DEF TrackOK, Current, Withdrawn, Keeps, RecordNow, Committing
  <1> QED
    BY <1>5, <1>6, <1>7 DEF RecordAfter

\* A quiet run has no commit in flight but main's, and reports.
LEMMA QuietHead ==
  ASSUME TypeOK, NEW x \in Executors, QueueOK(x), task[x] = NoTasks, fifo[x] # <<>>,
         Head(fifo[x]).kind # "main"
  PROVE  Head(fifo[x]).kind = "progress"
  <1>1. /\ Head(fifo[x]) \in Job /\ Head(fifo[x]).node \in Nodes
        /\ JobOK(pc[x], task[x], Head(fifo[x]))
    BY HeadOK
  <1>2. task[x][Head(fifo[x]).node] = "none"
    BY <1>1 DEF NoTasks
  <1> QED
    BY <1>1, <1>2 DEF JobOK, Job

\* A commit that main awaits is rejected: main ends, and the run has failed for its caller
\* unless it completed.
LEMMA RecordMainRejected ==
  ASSUME NEW x \in Executors, RecordNow(x), TypeOK', QueueOK(x)', AtStore(x),
         CommitRejected(x), Head(fifo[x]) = MainJob
  PROVE  RecordAfter(x)
  <1>0. mem[x] \in Checkpoint
    BY DEF RecordNow, TypeOK
  <1>1. /\ UNCHANGED <<db, why, task, abort, late>> /\ pc'[x] = "done" /\ pc[x] \in Committing
        /\ fifo[x] # <<>> /\ fifo'[x] = Tail(fifo[x])
        /\ sent'[x] = Sending(x, fifo'[x], mem'[x])
    <2>1. fifo[x] # <<>> /\ JobOK(pc[x], task[x], MainJob)
      BY HeadOK DEF RecordNow, AtStore
    <2>2. pc[x] \in Committing
      BY <2>1 DEF JobOK, MainJob
    <2>3. UNCHANGED <<db, why, task, abort, late>> /\ pc'[x] = "done"
      BY DEF CommitRejected, SetPC, RecordNow, TypeOK
    <2>4. fifo'[x] = Tail(fifo[x]) /\ sent'[x] = Sending(x, fifo'[x], mem'[x])
      BY Rejected DEF RecordNow
    <2> QED
      BY <2>1, <2>2, <2>3, <2>4
  <1>2. /\ mem'[x].seq = mem[x].seq /\ mem'[x].attempts = mem[x].attempts
        /\ mem'[x].status = IF pc[x] \in {"boot", "finish"} /\ why[x] # "completed"
                            THEN "failed" ELSE mem[x].status
    BY <1>0 DEF CommitRejected, SetMem, RecordNow, TypeOK, Checkpoint
  <1>3. \A s \in sent'[x] : s = mem'[x]
    BY <1>1 DEF Sending
  <1>4. pc[x] # "finish" => mem[x].status = "running"
    BY <1>1 DEF RecordNow, NodesOK, Scheduling, Committing
  <1>5. ~ Withdrawn(x)'
    BY <1>2, <1>4 DEF RecordNow, StageOK, Withdrawn
  <1>6. StageOK(x)'
    BY <1>1, <1>5 DEF StageOK
  <1>7. SentOK(x)'
    BY <1>1, <1>3 DEF SentOK
  <1>8. ASSUME Current(x)'
        PROVE  TrackOK(x)'
    <2>1. Current(x) /\ pc[x] \notin {"done", "idle"}
      BY <1>1, <1>2, <1>8 DEF Current, Committing
    <2>2. \A n \in Nodes : mem'[x].attempts[n] <= db'.attempts[n] + 1
      BY <1>1, <1>2, <2>1 DEF RecordNow, TrackOK
    <2>3. db.status = "paused" => Quiet(x)' /\ sent'[x] = {}
      <3>1. SUFFICES ASSUME db.status = "paused"
                     PROVE  Quiet(x)' /\ sent'[x] = {}
        OBVIOUS
      <3>2. Alone(x)
        BY <2>1, <3>1 DEF RecordNow, TrackOK
      <3>3. Alone(x)' /\ fifo'[x] = <<>>
        BY <1>1, <3>2, AloneDequeues
      <3> QED
        BY <1>1, <3>3 DEF Quiet, Alone, Sending
    <2>4. db.status \in Terminal => mem'[x].status = db.status /\ Keeps(x)'
      <3>1. SUFFICES ASSUME db.status \in Terminal
                     PROVE  mem'[x].status = db.status /\ Keeps(x)'
        OBVIOUS
      <3>2. /\ mem[x].status = db.status /\ Keeps(x)
            /\ pc[x] # "boot" /\ ~ (pc[x] = "finish" /\ Withdrawn(x))
        BY <2>1, <3>1 DEF RecordNow, TrackOK
      <3>3. pc[x] = "finish"
        BY <1>4, <3>1, <3>2 DEF Terminal
      <3>4. mem'[x].status = db.status
        BY <1>2, <3>1, <3>2, <3>3 DEF RecordNow, StageOK, Withdrawn, Terminal
      <3> QED
        BY <1>1, <1>2, <3>2, <3>4 DEF Keeps
    <2> QED
      BY <1>1, <1>3, <2>2, <2>3, <2>4 DEF TrackOK
  <1> QED
    BY <1>6, <1>7, <1>8 DEF RecordAfter, TrackOK

\* Any other commit is rejected: its promise is lost, and main learns of it later.
LEMMA RecordNodeRejected ==
  ASSUME NEW x \in Executors, RecordNow(x), TypeOK', QueueOK(x)', AtStore(x),
         CommitRejected(x), Head(fifo[x]) # MainJob
  PROVE  RecordAfter(x)
  <1>1. /\ UNCHANGED <<db, pc, why, abort, late>> /\ mem'[x] = mem[x]
        /\ fifo[x] # <<>> /\ fifo'[x] = Tail(fifo[x]) /\ sent[x] # {}
        /\ sent'[x] = Sending(x, fifo'[x], mem'[x])
    BY DEF CommitRejected, Dequeue, SetMem, RecordNow, TypeOK, AtStore
  <1>2. Head(fifo[x]).kind # "main" /\ ~ Alone(x)
    BY <1>1, HeadOK DEF RecordNow, Alone
  <1>3. \A s \in sent'[x] : s = mem[x]
    BY <1>1 DEF Sending
  <1>4. Quiet(x) => Quiet(x)'
    <2>1. SUFFICES ASSUME Quiet(x)
                   PROVE  Quiet(x)'
      OBVIOUS
    <2>2. Aborted(x) /\ task[x] = NoTasks
      BY <1>2, <2>1 DEF Quiet
    <2>3. Head(fifo[x]).kind = "progress" /\ Head(fifo[x]).node \in Nodes
      BY <1>1, <1>2, <2>2, QuietHead, HeadOK DEF RecordNow
    <2>4. task'[x] = task[x]
      BY <2>2, <2>3 DEF CommitRejected, RecordNow, TypeOK, NoTasks
    <2> QED
      BY <1>1, <2>2, <2>4 DEF Quiet, Aborted
  <1>5. Quiet(x) => \A s \in sent'[x] :
          fifo'[x] # <<>> /\ Head(fifo'[x]).kind = "main" /\ pc[x] \in Committing
    BY <1>1, <1>4, QuietSends DEF RecordNow
  <1>6. StageOK(x)'
    BY <1>1, <1>2, <1>4 DEF StageOK, Withdrawn, RecordNow, Aborted
  <1>7. SentOK(x)'
    BY <1>1, <1>3, <1>5 DEF SentOK, StageOK, Withdrawn, RecordNow
  <1>8. TrackOK(x)'
    BY <1>1, <1>2, <1>3 DEF TrackOK, Current, Withdrawn, Keeps, RecordNow
  <1> QED
    BY <1>6, <1>7, <1>8 DEF RecordAfter

\* Starting, recovering, resuming or cancelling a run that has not ended, and crashing.
LEMMA RecordEntered ==
  ASSUME NEW x \in Executors, TypeOK, TypeOK', Recover(x) \/ Resume(x) \/ Cancel(x) \/ Crash(x)
  PROVE  RecordAfter(x)
  <1>0. db \in Checkpoint /\ UNCHANGED db
    BY DEF TypeOK, Recover, Resume, Cancel, Crash, EnterRecovered
  <1>1. ASSUME NEW s, NEW at, NEW r, Enter(x, s, at, r), SameCount(db, s), db.status \notin Terminal,
               \/ at = "boot" /\ s.status = "running"
               \/ at = "finish" /\ s.status \notin {"running", "completed"} /\ r # "completed"
        PROVE  RecordAfter(x)
    <2>1. /\ mem'[x] = s /\ pc'[x] = at /\ why'[x] = r /\ task'[x] = NoTasks
          /\ fifo'[x] = <<MainJob>> /\ sent'[x] = {s} /\ late'[x] = {}
      BY <1>1 DEF Enter, SetMem, SetPC, TypeOK
    <2>2. Alone(x)' /\ Quiet(x)'
      BY <2>1 DEF Alone, Quiet
    <2>3. StageOK(x)'
      BY <1>1, <2>1, <2>2 DEF StageOK
    <2>4. SentOK(x)'
      BY <2>1 DEF SentOK, MainJob
    <2>5. Keeps(x)' /\ \A n \in Nodes : mem'[x].attempts[n] <= db'.attempts[n] + 1
      BY <1>0, <1>1, <2>1 DEF Keeps, SameCount, Checkpoint
    <2>6. TrackOK(x)'
      BY <1>0, <1>1, <2>1, <2>2, <2>5 DEF TrackOK
    <2> QED
      BY <2>3, <2>4, <2>6 DEF RecordAfter
  <1>2. ASSUME NEW R, NEW F, EnterRecovered(x, R, F)
        PROVE  RecordAfter(x)
    <2>1. SameCount(db, Recovered(db, R, F)) /\ Recovered(db, R, F).status \in {"failed", "paused", "running"}
      BY <1>0, RecoveredCount DEF Recovered, Checkpoint
    <2> QED
      BY <1>1, <1>2, <2>1 DEF EnterRecovered
  <1>3. CASE Cancel(x)
    <2>1. SameCount(db, CancelledByCall(db)) /\ CancelledByCall(db).status = "cancelled"
      BY <1>0 DEF CancelledByCall, Checkpoint, SameCount
    <2> QED
      BY <1>1, <1>3, <2>1 DEF Cancel
  <1>4. CASE Crash(x)
    <2>1. pc'[x] = "idle" /\ sent'[x] = {}
      BY <1>4 DEF Crash, Enter, SetPC, TypeOK
    <2> QED
      BY <2>1 DEF RecordAfter, StageOK, SentOK, TrackOK, Current
  <1> QED
    BY <1>2, <1>3, <1>4 DEF Recover, Resume

(***************************************************************************)
(* The commits the store accepts.                                          *)
(***************************************************************************)
\* What a commit of x makes of the record and leaves of x: the record is the checkpoint
\* that was in flight, which is at most the pending attempts behind the state of x.
LEMMA RecordStored ==
  ASSUME NEW x \in Executors, RecordNow(x), TypeOK', Abreast(x), pc[x] # "idle",
         NEW rest, Store(x, rest), AtStore(x)
  PROVE  \E s \in sent[x] :
           /\ Current(x) /\ s \in Checkpoint
           /\ db'.status = s.status /\ db'.attempts = s.attempts /\ db'.seq = db.seq + 1
           /\ mem'[x].status = mem[x].status /\ mem'[x].attempts = mem[x].attempts
           /\ \A t \in sent'[x] : t = mem'[x]
           /\ \A n \in Nodes :
                 /\ db.attempts[n] <= s.attempts[n] /\ s.attempts[n] <= mem[x].attempts[n]
                 /\ mem[x].attempts[n] <= s.attempts[n] + 1
                 /\ s.attempts[n] <= db.attempts[n] + 1
                 /\ mem[x].attempts[n] = db.attempts[n] => s.attempts[n] = mem[x].attempts[n]
           /\ s.status # "running" => s.status = mem[x].status /\ s.attempts = mem[x].attempts
           /\ Head(fifo[x]).kind = "main" =>
                 s.status = mem[x].status /\ s.attempts = mem[x].attempts
  <1>1. /\ mem[x].seq = db.seq /\ mem[x] \in Checkpoint /\ db \in Checkpoint
        /\ mem'[x] = [mem[x] EXCEPT !.seq = mem[x].seq + 1]
        /\ sent'[x] = Sending(x, rest, mem'[x])
        /\ fifo[x] # <<>>
    BY StoredState DEF RecordNow, TypeOK, AtStore
  <1>2. PICK s \in sent[x] : db' = [s EXCEPT !.seq = s.seq + 1]
    BY StoredState DEF RecordNow
  <1>3. s \in Checkpoint /\ s.seq = db.seq
    BY <1>1, <1>2 DEF RecordNow, TypeOK, Abreast
  <1>4. db'.status = s.status /\ db'.attempts = s.attempts /\ db'.seq = db.seq + 1
    BY <1>2, <1>3 DEF Checkpoint
  <1>5. mem'[x].status = mem[x].status /\ mem'[x].attempts = mem[x].attempts
    BY <1>1 DEF Checkpoint
  <1>6. \A t \in sent'[x] : t = mem'[x]
    BY <1>1 DEF Sending
  <1>7. Current(x)
    BY <1>1 DEF Current
  <1>8. /\ \A n \in Nodes : /\ db.attempts[n] <= s.attempts[n]
                            /\ s.attempts[n] <= mem[x].attempts[n]
        /\ Head(fifo[x]).kind = "main" => s.attempts = mem[x].attempts
    BY <1>1, <1>7 DEF RecordNow, CallsOK
  <1>9. \A n \in Nodes : mem[x].attempts[n] <= db.attempts[n] + 1
    BY <1>7 DEF RecordNow, TrackOK
  <1>10. \A n \in Nodes : /\ s.attempts[n] \in Nat /\ db.attempts[n] \in Nat
                          /\ mem[x].attempts[n] \in Nat
    BY <1>1, <1>3 DEF Checkpoint
  <1>11. \A n \in Nodes :
           /\ mem[x].attempts[n] <= s.attempts[n] + 1
           /\ s.attempts[n] <= db.attempts[n] + 1
           /\ mem[x].attempts[n] = db.attempts[n] => s.attempts[n] = mem[x].attempts[n]
    BY <1>8, <1>9, <1>10
  <1>12. /\ s.status # "running" => s.status = mem[x].status /\ s.attempts = mem[x].attempts
         /\ Head(fifo[x]).kind = "main" => s.status = mem[x].status
    BY <1>1, <1>2 DEF RecordNow, SentOK
  <1> QED
    BY <1>3, <1>4, <1>5, <1>6, <1>7, <1>8, <1>11, <1>12

\* Main's own commit is durable: the record is the state of x, and if the run is withdrawn
\* nothing is left that could be committed behind it.
LEMMA RecordMainStored ==
  ASSUME NEW x \in Executors, RecordNow(x), TypeOK', QueueOK(x)', Abreast(x),
         StartBatch(x) \/ MainCommitted(x)
  PROVE  RecordAfter(x)
  <1>1. PICK rest : Store(x, rest) /\ (MainCommitted(x) => rest = Tail(fifo[x]))
    BY DEF StartBatch, MainCommitted
  <1>2. /\ AtStore(x) /\ Head(fifo[x]).kind = "main" /\ fifo[x] # <<>>
        /\ UNCHANGED <<why, abort, late>>
        /\ \/ pc[x] = "launch" /\ pc'[x] = "race"
           \/ pc[x] \in {"boot", "advance"} /\ pc'[x] = "loop"
           \/ pc[x] = "finish" /\ pc'[x] = "done" /\ MainCommitted(x) /\ task'[x] = task[x]
    BY DEF StartBatch, MainCommitted, InFlight, AtStore, SetPC, RecordNow, TypeOK
  <1>3. PICK s \in sent[x] :
           /\ Current(x) /\ db'.status = s.status /\ db'.attempts = s.attempts
           /\ mem'[x].status = mem[x].status /\ mem'[x].attempts = mem[x].attempts
           /\ \A t \in sent'[x] : t = mem'[x]
           /\ s.status = mem[x].status /\ s.attempts = mem[x].attempts
    BY <1>1, <1>2, RecordStored
  <1>4. Keeps(x)' /\ \A n \in Nodes : mem'[x].attempts[n] <= db'.attempts[n] + 1
    <2>1. \A n \in Nodes : mem'[x].attempts[n] = db'.attempts[n]
      BY <1>3
    <2> QED
      BY <2>1, Unwritten DEF Keeps, RecordNow
  <1>5. pc[x] # "finish" => mem[x].status = "running"
    BY <1>2 DEF RecordNow, NodesOK, Scheduling
  <1>6. pc[x] = "finish" /\ Withdrawn(x) => Quiet(x)' /\ sent'[x] = {}
    <2>1. SUFFICES ASSUME pc[x] = "finish", Withdrawn(x)
                   PROVE  Quiet(x)' /\ sent'[x] = {}
      OBVIOUS
    <2>2. Quiet(x) /\ pc'[x] = "done" /\ task'[x] = task[x] /\ rest = Tail(fifo[x])
      BY <1>1, <1>2, <2>1 DEF RecordNow, StageOK
    <2>3. fifo'[x] = Tail(fifo[x]) /\ sent'[x] = Sending(x, fifo'[x], mem'[x])
      BY <1>1, <2>2, StoreQueue, StoredState DEF RecordNow
    <2>4. Quiet(x)'
      BY <1>2, <2>2, <2>3, AloneDequeues DEF Quiet, Aborted
    <2> QED
      BY <1>2, <2>2, <2>3, <2>4, QuietSends DEF Committing
  <1>7. StageOK(x)'
    BY <1>2, <1>3, <1>5, <1>6 DEF StageOK, Withdrawn
  <1>8. SentOK(x)'
    BY <1>2, <1>3 DEF SentOK
  <1>9. TrackOK(x)'
    BY <1>2, <1>3, <1>4, <1>5, <1>6 DEF TrackOK, Withdrawn, Terminal
  <1> QED
    BY <1>7, <1>8, <1>9 DEF RecordAfter

\* A node's own commit, or a report, is durable: it cannot have changed what the run is,
\* unless the run had ended in memory with a result.
LEMMA RecordNodeStored ==
  ASSUME NEW x \in Executors, RecordNow(x), TypeOK', QueueOK(x)', Abreast(x),
         RequestCommitted(x) \/ FailureCommitted(x) \/ ReportCommitted(x)
  PROVE  RecordAfter(x)
  <1>1. Store(x, Tail(fifo[x]))
    BY DEF RequestCommitted, FailureCommitted, ReportCommitted
  <1>2. /\ AtStore(x) /\ Head(fifo[x]).kind # "main" /\ fifo[x] # <<>> /\ sent[x] # {}
        /\ UNCHANGED <<pc, why, abort, late>>
        /\ fifo'[x] = Tail(fifo[x]) /\ sent'[x] = Sending(x, fifo'[x], mem'[x])
    BY <1>1, StoreQueue, StoredState
       DEF RequestCommitted, FailureCommitted, ReportCommitted, InFlight, AtStore, RecordNow
  <1>3. pc[x] # "idle" /\ ~ Alone(x)
    BY <1>2 DEF RecordNow, QueueOK, Alone, MainJob
  <1>4. PICK s \in sent[x] :
           /\ Current(x) /\ s \in Checkpoint /\ db'.status = s.status /\ db'.attempts = s.attempts
           /\ mem'[x].status = mem[x].status /\ mem'[x].attempts = mem[x].attempts
           /\ \A t \in sent'[x] : t = mem'[x]
           /\ \A n \in Nodes :
                 /\ mem[x].attempts[n] <= s.attempts[n] + 1
                 /\ mem[x].attempts[n] = db.attempts[n] => s.attempts[n] = mem[x].attempts[n]
           /\ s.status # "running" => s.status = mem[x].status /\ s.attempts = mem[x].attempts
    BY <1>1, <1>2, <1>3, RecordStored
  <1>5. pc[x] \in Scheduling \cup {"settle"} => mem[x].status = "running"
    BY DEF RecordNow, NodesOK
  <1>6. pc[x] # "boot" /\ ~ (pc[x] = "done" /\ Withdrawn(x))
        /\ (pc[x] = "finish" /\ Withdrawn(x) => Aborted(x) /\ task[x] = NoTasks /\ s.status = "running")
    BY <1>2, <1>3 DEF RecordNow, StageOK, SentOK, Quiet
  <1>7. pc[x] = "finish" /\ Withdrawn(x) => Quiet(x)'
    <2>1. SUFFICES ASSUME pc[x] = "finish", Withdrawn(x)
                   PROVE  Quiet(x)'
      OBVIOUS
    <2>2. Head(fifo[x]).kind = "progress"
      BY <1>2, <1>6, <2>1, QuietHead DEF RecordNow
    <2>3. UNCHANGED task
      BY <2>2 DEF RequestCommitted, FailureCommitted, ReportCommitted, InFlight
    <2> QED
      BY <1>2, <1>6, <2>1, <2>3 DEF Quiet, Aborted
  <1>8. pc[x] = "finish" /\ Withdrawn(x) => \A t \in sent'[x] :
          fifo'[x] # <<>> /\ Head(fifo'[x]).kind = "main"
    BY <1>2, <1>7, QuietSends
  <1>9. StageOK(x)'
    BY <1>2, <1>4, <1>6, <1>7 DEF StageOK, Withdrawn, RecordNow, Aborted
  <1>10. SentOK(x)'
    BY <1>2, <1>4, <1>8 DEF SentOK, Withdrawn
  <1>11. TrackOK(x)'
    <2>1. pc[x] \in {"loop", "race", "capture", "advance"} => Keeps(x)'
      BY <1>4 DEF Keeps, RecordNow, TrackOK
    <2>2. db'.status # "running" => /\ pc[x] \in {"finish", "done"} /\ ~ Withdrawn(x)
                                    /\ db'.status = mem'[x].status /\ Keeps(x)'
      <3>1. SUFFICES ASSUME db'.status # "running"
                     PROVE  /\ pc[x] \in {"finish", "done"} /\ ~ Withdrawn(x)
                            /\ db'.status = mem'[x].status /\ Keeps(x)'
        OBVIOUS
      <3>2. s.status = mem[x].status /\ s.attempts = mem[x].attempts /\ mem[x].status # "running"
        BY <1>4, <3>1
      <3>3. pc[x] \in {"finish", "done"}
        BY <1>3, <1>5, <3>2 DEF RecordNow, TypeOK, PCs, Scheduling
      <3>4. ~ Withdrawn(x)
        BY <1>6, <3>2, <3>3
      <3> QED
        BY <1>4, <3>2, <3>3, <3>4 DEF Keeps
    <2>3. \A n \in Nodes : mem'[x].attempts[n] <= db'.attempts[n] + 1
      BY <1>4
    <2> QED
      BY <1>2, <1>4, <1>6, <2>1, <2>2, <2>3 DEF TrackOK, Withdrawn, Terminal, Scheduling
  <1> QED
    BY <1>9, <1>10, <1>11 DEF RecordAfter

(***************************************************************************)
(* Main's own steps.                                                       *)
(***************************************************************************)
\* Launching counts one attempt of each node of the batch, and no other.
LEMMA LaunchedAttempts ==
  ASSUME NEW s \in Checkpoint, NEW B
  PROVE  \A n \in Nodes : Launched(s, B).attempts[n] \in {s.attempts[n], s.attempts[n] + 1}
  BY DEF Launched, Checkpoint

\* Launching nodes, and exceeding the budget of node runs.
LEMMA RecordLaunched ==
  ASSUME NEW x \in Executors, RecordNow(x), TypeOK', LaunchBatch(x) \/ ExceedNodeRuns(x)
  PROVE  RecordAfter(x)
  <1>0. mem[x] \in Checkpoint /\ Step(x)
    BY DEF RecordNow, TypeOK, Step, Main
  <1>1. /\ \E B : mem'[x] = Launched(mem[x], B)
        /\ pc[x] = "loop" /\ pc'[x] \in {"launch", "settle"} /\ db' = db
        /\ pc'[x] = "settle" => why'[x] = "fail"
    BY DEF LaunchBatch, ExceedNodeRuns, GoSettle, SetMem, SetPC, RecordNow, TypeOK
  <1>2. /\ mem'[x].status = mem[x].status /\ mem'[x].seq = mem[x].seq
        /\ \A n \in Nodes : mem'[x].attempts[n] \in {mem[x].attempts[n], mem[x].attempts[n] + 1}
    <2>1. PICK B : mem'[x] = Launched(mem[x], B)
      BY <1>1
    <2>2. Launched(mem[x], B).status = mem[x].status /\ Launched(mem[x], B).seq = mem[x].seq
      BY <1>0 DEF Launched, Checkpoint
    <2> QED
      BY <1>0, <2>1, <2>2, LaunchedAttempts
  <1>3. mem[x].status = "running"
    BY <1>1 DEF RecordNow, NodesOK, Scheduling
  <1>4. sent'[x] \subseteq sent[x] \cup {mem'[x]}
    BY <1>0, SentFrom DEF RecordNow
  <1> QED
    BY <1>1, <1>2, <1>3, <1>4, RecordWorking

\* Waiting for the active nodes, and taking one of their promises.
LEMMA RecordTaken ==
  ASSUME NEW x \in Executors, RecordNow(x), TypeOK', NEW n \in Nodes,
         \/ AwaitNodes(x)
         \/ TakeLost(x, n) \/ TakePause(x, n) \/ TakeAborted(x, n) \/ TakeRetry(x, n)
         \/ TakeFailure(x, n) \/ TakeInterrupted(x, n) \/ TakeSuccess(x, n)
         \/ CaptureReturns(x, n) \/ CaptureThrows(x, n)
  PROVE  RecordAfter(x)
  <1>0. mem[x] \in Checkpoint /\ Step(x)
    BY DEF RecordNow, TypeOK, Step, Main
  <1>1. CASE AwaitNodes(x) \/ TakeLost(x, n)
    <2>1. mem'[x] = mem[x] /\ db' = db
          /\ pc[x] \in {"loop", "race"} /\ pc'[x] \in {"race", "done"}
      BY <1>1 DEF AwaitNodes, TakeLost, Takes, SetPC, RecordNow, TypeOK
    <2>2. mem[x].status = "running" /\ sent'[x] \subseteq sent[x] \cup {mem'[x]}
      BY <1>0, <2>1, SentFrom DEF RecordNow, NodesOK, Scheduling
    <2> QED
      BY <2>1, <2>2, RecordWorking
  <1>2. ASSUME NEW s, mem'[x] = s, SameCount(mem[x], s), s.status = mem[x].status, db' = db,
               pc[x] \in {"race", "capture"}, pc'[x] \in {"capture", "advance", "settle"},
               pc'[x] = "settle" /\ why'[x] \in {"cancel", "pause"} => Aborted(x)'
        PROVE  RecordAfter(x)
    <2>1. mem[x].status = "running" /\ sent'[x] \subseteq sent[x] \cup {mem'[x]}
      BY <1>0, <1>2, SentFrom DEF RecordNow, NodesOK, Scheduling
    <2> QED
      BY <1>2, <2>1, RecordWorking DEF SameCount
  <1>3. CASE \/ TakePause(x, n) \/ TakeAborted(x, n) \/ TakeFailure(x, n) \/ TakeInterrupted(x, n)
             \/ CaptureThrows(x, n)
    <2>1. PICK s, r : /\ GoSettle(x, s, r)
                      /\ s = mem[x] \/ \E v : s = [mem[x] EXCEPT !.nodes[n] = v]
                      /\ r \in {"cancel", "pause"} => Aborted(x)'
      <3>1. CASE TakePause(x, n)
        BY <3>1 DEF TakePause, Aborted, RecordNow, TypeOK
      <3>2. CASE TakeAborted(x, n)
        BY <3>2 DEF TakeAborted, Aborted
      <3>3. CASE TakeFailure(x, n) \/ TakeInterrupted(x, n) \/ CaptureThrows(x, n)
        BY <3>3 DEF TakeFailure, TakeInterrupted, CaptureThrows
      <3> QED
        BY <1>3, <3>1, <3>2, <3>3
    <2>2. mem'[x] = s /\ pc'[x] = "settle" /\ why'[x] = r
      BY <2>1 DEF GoSettle, SetMem, SetPC, RecordNow, TypeOK
    <2>3. SameCount(mem[x], s) /\ s.status = mem[x].status
      BY <1>0, <2>1 DEF SameCount, Checkpoint
    <2>4. db' = db /\ pc[x] \in {"race", "capture"}
      BY <1>3 DEF TakePause, TakeAborted, TakeFailure, TakeInterrupted, CaptureThrows, Takes
    <2> QED
      BY <1>2, <2>1, <2>2, <2>3, <2>4
  <1>4. CASE TakeRetry(x, n)
    <2>1. mem'[x] = Requeued(mem[x], n) /\ pc[x] = "race" /\ pc'[x] = "advance" /\ db' = db
      BY <1>4 DEF TakeRetry, Takes, SetMem, SetPC, RecordNow, TypeOK
    <2>2. SameCount(mem[x], Requeued(mem[x], n)) /\ Requeued(mem[x], n).status = mem[x].status
      BY <1>0 DEF Requeued, SameCount, Checkpoint
    <2> QED
      BY <1>2, <2>1, <2>2
  <1>5. CASE TakeSuccess(x, n)
    <2> DEFINE s == [mem[x] EXCEPT !.nodes[n] = "succeeded"]
    <2>1. mem'[x] = s /\ pc[x] = "race" /\ pc'[x] = "capture" /\ db' = db
      BY <1>5 DEF TakeSuccess, Takes, SetMem, SetPC, RecordNow, TypeOK
    <2>2. SameCount(mem[x], s) /\ s.status = mem[x].status
      BY <1>0 DEF SameCount, Checkpoint
    <2> HIDE DEF s
    <2> QED
      BY <1>2, <2>1, <2>2
  <1>6. CASE CaptureReturns(x, n)
    <2>1. /\ \E sel, S : mem'[x] = EdgesSettled(mem[x], n, sel, S)
          /\ pc[x] = "capture" /\ pc'[x] = "advance" /\ db' = db
      BY <1>6 DEF CaptureReturns, SetMem, SetPC, RecordNow, TypeOK
    <2>2. \A sel, S : /\ SameCount(mem[x], EdgesSettled(mem[x], n, sel, S))
                      /\ EdgesSettled(mem[x], n, sel, S).status = mem[x].status
      BY <1>0 DEF EdgesSettled, SameCount, Checkpoint
    <2> QED
      BY <1>2, <2>1, <2>2
  <1> QED
    BY <1>1, <1>3, <1>4, <1>5, <1>6

\* Ending the run, or leaving it to another executor.
LEMMA RecordFinished ==
  ASSUME NEW x \in Executors, RecordNow(x), TypeOK',
         StopAborted(x) \/ EndOfRun(x) \/ Settle(x)
  PROVE  RecordAfter(x)
  <1>0. mem[x] \in Checkpoint /\ Step(x)
    BY DEF RecordNow, TypeOK, Step, Main
  <1>1. /\ db' = db /\ abort' = abort /\ pc[x] \in {"loop", "settle"}
        /\ mem[x].status = "running" /\ task'[x] = NoTasks
    <2>1. Active(x) = {} => task[x] = NoTasks
      BY DEF Active, NoTasks, RecordNow, TypeOK
    <2>2. CASE StopAborted(x) \/ EndOfRun(x)
      BY <2>1, <2>2 DEF StopAborted, EndOfRun, RecordNow, NodesOK, Scheduling
    <2>3. CASE Settle(x)
      BY <2>3 DEF Settle, RecordNow, NodesOK, TypeOK
    <2> QED
      BY <2>2, <2>3
  <1>2. ASSUME NEW s \in Checkpoint, NEW r, GoFinish(x, s, r), SameCount(mem[x], s),
               \/ s.status = "failed" /\ r # "completed"
               \/ s.status = "completed" /\ r = "completed"
               \/ s.status \in {"cancelled", "paused"} /\ r # "completed" /\ Aborted(x)
        PROVE  RecordAfter(x)
    BY <1>1, <1>2, RecordFinishing
  <1>3. ASSUME SetPC(x, "done"), UNCHANGED <<mem, why, fifo, sent>>
        PROVE  RecordAfter(x)
    <2>1. mem'[x] = mem[x] /\ sent'[x] = sent[x] /\ pc'[x] = "done"
      BY <1>3 DEF SetPC, RecordNow, TypeOK
    <2> QED
      BY <1>1, <2>1, RecordWorking
  <1>4. /\ \A act \in SUBSET Nodes :
              /\ FinishFailed(mem[x], act) \in Checkpoint
              /\ FinishFailed(mem[x], act).status = "failed"
              /\ SameCount(mem[x], FinishFailed(mem[x], act))
        /\ \A f : /\ FinishCancelled(mem[x], f) \in Checkpoint
                  /\ FinishCancelled(mem[x], f).status \in {"failed", "cancelled"}
                  /\ SameCount(mem[x], FinishCancelled(mem[x], f))
        /\ \A act \in SUBSET Nodes :
              /\ FinishPaused(mem[x], act) \in Checkpoint
              /\ FinishPaused(mem[x], act).status = "paused"
              /\ SameCount(mem[x], FinishPaused(mem[x], act))
    <2>1. ASSUME NEW act \in SUBSET Nodes, NEW f
          PROVE  /\ FinishFailed(mem[x], act) \in Checkpoint
                 /\ FinishCancelled(mem[x], f) \in Checkpoint
                 /\ FinishPaused(mem[x], act) \in Checkpoint
      BY <1>0, FinishType
    <2>2. \A act : /\ FinishFailed(mem[x], act).status = "failed"
                   /\ SameCount(mem[x], FinishFailed(mem[x], act))
      BY <1>0 DEF FinishFailed, SameCount, Checkpoint
    <2>3. \A f : /\ FinishCancelled(mem[x], f).status \in {"failed", "cancelled"}
                 /\ SameCount(mem[x], FinishCancelled(mem[x], f))
      BY <1>0 DEF FinishCancelled, SameCount, Checkpoint
    <2>4. \A act : /\ FinishPaused(mem[x], act).status = "paused"
                   /\ SameCount(mem[x], FinishPaused(mem[x], act))
      BY <1>0 DEF FinishPaused, SameCount, Checkpoint
    <2> QED
      BY <2>1, <2>2, <2>3, <2>4
  <1>5. ASSUME Aborted(x), LeaveOrCancel(x)
        PROVE  RecordAfter(x)
    BY <1>2, <1>3, <1>4, <1>5 DEF LeaveOrCancel
  <1>6. CASE StopAborted(x)
    BY <1>5, <1>6 DEF StopAborted
  <1>7. CASE EndOfRun(x)
    <2> DEFINE s == [mem[x] EXCEPT !.status = "completed"]
    <2>1. s \in Checkpoint /\ s.status = "completed" /\ SameCount(mem[x], s)
      BY <1>0 DEF Checkpoint, RunStatus, SameCount
    <2>2. CASE GoFinish(x, FinishFailed(mem[x], {}), "fail")
      BY <1>2, <1>4, <2>2
    <2>3. CASE GoFinish(x, s, "completed")
      <3> HIDE DEF s
      <3> QED
        BY <1>2, <2>1, <2>3
    <2> QED
      BY <1>5, <1>7, <2>2, <2>3 DEF EndOfRun
  <1>8. CASE Settle(x)
    <2>1. why[x] \in {"cancel", "pause"} => Aborted(x)
      BY <1>8 DEF Settle, RecordNow, StageOK
    <2>2. Active(x) \in SUBSET Nodes
      BY DEF Active
    <2>3. \/ why[x] = "fail" /\ GoFinish(x, FinishFailed(mem[x], Active(x)), "fail")
          \/ /\ why[x] = "cancel"
             /\ GoFinish(x, FinishCancelled(mem[x], abort[x] = "deadline"), "cancel")
          \/ why[x] = "pause" /\ GoFinish(x, FinishPaused(mem[x], Active(x)), "pause")
          \/ SetPC(x, "done") /\ UNCHANGED <<mem, why, fifo, sent>>
      BY <1>8 DEF Settle
    <2> QED
      BY <1>2, <1>3, <1>4, <2>1, <2>2, <2>3
  <1> QED
    BY <1>6, <1>7, <1>8

(***************************************************************************)
(* The invariant.                                                          *)
(***************************************************************************)
\* Every step of an executor keeps its part of the invariant.
LEMMA RecordStep ==
  ASSUME NEW x \in Executors, RecordNow(x), TypeOK', QueueOK(x)', Abreast(x), Step(x)
  PROVE  RecordAfter(x)
  <1>1. CASE Main(x)
    <2>1. Nodes # {}
      BY GraphFacts
    <2> QED
      BY <1>1, <2>1, RecordLaunched, RecordFinished, RecordTaken DEF Main
  <1>2. CASE Commits(x) \/ StoreFails(x)
    BY <1>2, RecordMainStored, RecordNodeStored, RecordDropped, RecordMainRejected,
       RecordNodeRejected DEF Commits, CommitConflicts, StoreFails
  <1>3. CASE Recover(x) \/ Resume(x) \/ Cancel(x) \/ Crash(x)
    BY <1>3, RecordEntered DEF RecordNow
  <1>4. CASE \/ \E n \in Nodes : Host(x, n) \/ Report(x, n)
             \/ \E kind \in {"cancel", "interrupt", "deadline"} : AbortRun(x, kind)
    BY <1>4, RecordHost, RecordAborted
  <1> QED
    BY <1>1, <1>2, <1>3, <1>4 DEF Step, Environment

\* The others are as they were, and no longer current if the record has changed.
LEMMA RecordOthers ==
  ASSUME TypeOK, NEW y \in Executors, Untouched(y), Abreast(y), StageOK(y), SentOK(y), TrackOK(y),
         UNCHANGED db \/ db'.seq = db.seq + 1
  PROVE  RecordAfter(y)
  <1>1. mem[y].seq \in Nat /\ db.seq \in Nat
    BY DEF TypeOK, Checkpoint
  <1>2. /\ (Alone(y) <=> Alone(y)') /\ (Quiet(y) <=> Quiet(y)')
        /\ (Withdrawn(y) <=> Withdrawn(y)') /\ (Aborted(y) <=> Aborted(y)')
    BY DEF Untouched, Alone, Quiet, Withdrawn, Aborted
  <1>3. StageOK(y)'
    BY <1>2 DEF Untouched, StageOK
  <1>4. SentOK(y)'
    BY <1>2 DEF Untouched, SentOK
  <1>5. TrackOK(y)'
    <2>1. CASE UNCHANGED db
      BY <1>2, <2>1 DEF Untouched, TrackOK, Current, Keeps
    <2>2. CASE db'.seq = db.seq + 1
      BY <1>1, <2>2 DEF Untouched, TrackOK, Current, Abreast
    <2> QED
      BY <2>1, <2>2
  <1> QED
    BY <1>3, <1>4, <1>5 DEF RecordAfter

\* It holds before anyone has started.
LEMMA RecordInit == Init => RecordInv
  <1> SUFFICES ASSUME Init
               PROVE  RecordInv
    OBVIOUS
  <1>1. NodeInv
    BY NodeInit
  <1>2. \A x \in Executors : pc[x] = "idle" /\ sent[x] = {}
    BY DEF Init
  <1> QED
    BY <1>1, <1>2 DEF RecordInv, StageOK, SentOK, TrackOK, Current

\* It is inductive.
LEMMA RecordNext == RecordInv /\ [Next]_vars => RecordInv'
  <1> SUFFICES ASSUME RecordInv, [Next]_vars
               PROVE  RecordInv'
    OBVIOUS
  <1>1. NodeInv' /\ CallInv /\ CallInv' /\ TypeOK /\ TypeOK'
    BY NodeNext DEF RecordInv, NodeInv, CallInv
  <1>2. \A x \in Executors : RecordNow(x) /\ Abreast(x) /\ QueueOK(x)'
    BY <1>1 DEF RecordInv, NodeInv, CallInv, RecordNow
  <1>3. CASE Next
    <2>1. PICK x \in Executors : Step(x)
      BY <1>3 DEF Next, Step
    <2>2. UNCHANGED db \/ db'.seq = db.seq + 1
      BY <1>1, <2>1, CallStep
    <2>3. RecordAfter(x)
      BY <1>1, <1>2, <2>1, RecordStep
    <2>4. ASSUME NEW y \in Executors, y # x
          PROVE  RecordAfter(y)
      BY <1>1, <1>2, <2>1, <2>2, <2>4, OthersUntouched, RecordOthers DEF RecordNow
    <2> QED
      BY <1>1, <2>3, <2>4 DEF RecordInv, RecordAfter
  <1>4. CASE UNCHANGED vars
    <2>1. UNCHANGED db /\ \A y \in Executors : Untouched(y)
      BY <1>4 DEF vars, executorVars, historyVars, Untouched
    <2>2. \A y \in Executors : RecordAfter(y)
      BY <1>1, <1>2, <2>1, RecordOthers DEF RecordNow
    <2> QED
      BY <1>1, <2>2 DEF RecordInv, RecordAfter
  <1> QED
    BY <1>3, <1>4

\* What executors may still do to the record holds in every reachable state.
THEOREM RecordCorrect == Spec => []RecordInv
  BY RecordInit, RecordNext, PTL DEF Spec

(***************************************************************************)
(* What every step does to the record.                                     *)
(***************************************************************************)
\* A step leaves the record alone or is a commit of its executor.
LEMMA Writes ==
  ASSUME NEW x \in Executors, Step(x)
  PROVE  \/ UNCHANGED db
         \/ \/ StartBatch(x) \/ MainCommitted(x) \/ RequestCommitted(x)
            \/ FailureCommitted(x) \/ ReportCommitted(x)
  <1>1. CASE Main(x)
    BY <1>1 DEF Main, LaunchBatch, ExceedNodeRuns, AwaitNodes, StopAborted, EndOfRun, Settle,
         TakeLost, TakePause, TakeAborted, TakeRetry, TakeFailure, TakeInterrupted, TakeSuccess,
         CaptureReturns, CaptureThrows
  <1>2. CASE Commits(x) \/ StoreFails(x)
    BY <1>2 DEF Commits, DropReport, CommitConflicts, StoreFails, CommitRejected
  <1>3. CASE Recover(x) \/ Resume(x) \/ Cancel(x) \/ Crash(x)
    BY <1>3 DEF Recover, Resume, Cancel, Crash, EnterRecovered
  <1>4. CASE \/ \E n \in Nodes : Host(x, n) \/ Report(x, n)
             \/ \E kind \in {"cancel", "interrupt", "deadline"} : AbortRun(x, kind)
    BY <1>4 DEF Host, HostReturns, HostThrows, HostTimesOut, ChildPaused, Report, AbortRun
  <1> QED
    BY <1>1, <1>2, <1>3, <1>4 DEF Step, Environment

\* What a commit may do to the record: work on a running one, reopen or end a paused one
\* without counting an attempt, and nothing to what readers see of one that has ended.
RecordMove ==
    /\ db.status = "running" =>
          \A n \in Nodes : db'.attempts[n] \in {db.attempts[n], db.attempts[n] + 1}
    /\ db.status # "running" => db'.attempts = db.attempts
    /\ db.status \in Terminal => db'.status = db.status

LEMMA RecordMoves ==
  ASSUME RecordInv, TypeOK', NEW x \in Executors, Step(x)
  PROVE  RecordMove
  <1>1. TypeOK /\ RecordNow(x) /\ Abreast(x)
    BY DEF RecordInv, NodeInv, CallInv, RecordNow
  <1>2. /\ \A n \in Nodes : db.attempts[n] \in Nat /\ db'.attempts[n] \in Nat
        /\ db.attempts \in [Nodes -> Nat] /\ db'.attempts \in [Nodes -> Nat]
        /\ \A n \in Nodes : mem[x].attempts[n] \in Nat
    BY <1>1 DEF TypeOK, Checkpoint
  <1>3. CASE UNCHANGED db
    BY <1>2, <1>3 DEF RecordMove
  <1>4. CASE \/ StartBatch(x) \/ MainCommitted(x) \/ RequestCommitted(x)
             \/ FailureCommitted(x) \/ ReportCommitted(x)
    <2>1. AtStore(x) /\ fifo[x] # <<>> /\ sent[x] # {} /\ \E rest : Store(x, rest)
      BY <1>4 DEF StartBatch, MainCommitted, RequestCommitted, FailureCommitted, ReportCommitted,
           InFlight, AtStore
    <2>2. pc[x] # "idle"
      BY <1>1, <2>1 DEF RecordNow, QueueOK
    <2>3. PICK s \in sent[x] :
            /\ Current(x) /\ db'.status = s.status /\ db'.attempts = s.attempts
            /\ \A n \in Nodes :
                  /\ db.attempts[n] <= s.attempts[n] /\ s.attempts[n] <= db.attempts[n] + 1
                  /\ mem[x].attempts[n] = db.attempts[n] => s.attempts[n] = mem[x].attempts[n]
      BY <1>1, <2>1, <2>2, RecordStored
    <2>4. \A n \in Nodes : db'.attempts[n] \in {db.attempts[n], db.attempts[n] + 1}
      BY <1>2, <2>3
    <2>5. Keeps(x) => db'.attempts = db.attempts
      <3>1. Keeps(x) => \A n \in Nodes : db'.attempts[n] = db.attempts[n]
        BY <2>3 DEF Keeps
      <3> QED
        BY <1>2, <3>1
    <2>6. db.status = "paused" \/ db.status \in Terminal => Keeps(x)
      BY <1>1, <2>1, <2>3 DEF RecordNow, TrackOK
    <2>7. db.status \in Terminal => db'.status = db.status
      BY <1>1, <2>3 DEF RecordNow, TrackOK
    <2>8. db.status \in {"running", "paused"} \cup Terminal
      BY <1>1 DEF TypeOK, Checkpoint, RunStatus, Terminal
    <2> QED
      BY <2>4, <2>5, <2>6, <2>7, <2>8 DEF RecordMove
  <1> QED
    BY <1>3, <1>4, Writes

\* The same of any step of the system.
LEMMA NextMoves ==
  ASSUME RecordInv, [Next]_vars
  PROVE  TypeOK' /\ (RecordMove \/ UNCHANGED db)
  <1>1. TypeOK'
    BY TypeNext DEF RecordInv, NodeInv, CallInv
  <1>2. CASE Next
    <2>1. PICK x \in Executors : Step(x)
      BY <1>2 DEF Next, Step
    <2> QED
      BY <1>1, <2>1, RecordMoves
  <1>3. CASE UNCHANGED vars
    BY <1>1, <1>3 DEF vars
  <1> QED
    BY <1>2, <1>3

\* The outcome of a run never changes once it is durable, although executors that have
\* not heard of it are still at work (run.completed, run.failed, run.cancelled).
THEOREM OutcomesFinal == Spec => TerminalStatusFinal
  <1>1. RecordInv /\ [Next]_vars => [db.status \in Terminal => db'.status = db.status]_vars
    BY NextMoves DEF RecordMove
  <1> QED
    BY <1>1, RecordCorrect, PTL DEF Spec, TerminalStatusFinal

\* The record of a run implements DurableRun: whatever executors, crashes, conflicts and
\* operators do, its readers see a run that starts, works, pauses, is reopened and ends
\* once, each commit with at most one new attempt of a node and none while it is paused.
THEOREM RecordRefines == Spec => RecordIsDurable
  <1>1. Init => Record!DRInit
    BY DEF Init, InitialState, Record!DRInit
  <1>2. ASSUME RecordInv, [Next]_vars
        PROVE  [Record!DRNext]_(Record!drVars)
    <2>1. TypeOK /\ TypeOK'
      BY <1>2, NextMoves DEF RecordInv, NodeInv, CallInv
    <2>2. db.status \in RunStatus /\ db'.status \in RunStatus
      BY <2>1 DEF TypeOK, Checkpoint
    <2>3. CASE RecordMove
      <3>1. CASE db.status = "running"
        BY <2>2, <2>3, <3>1 DEF RecordMove, RunStatus, Record!DRNext, Record!Work, Record!Pause,
             Record!End, Record!Accounted, Record!Outcomes
      <3>2. CASE db.status = "paused"
        <4>1. db'.attempts = db.attempts /\ db.attempts \in [Nodes -> Nat]
          BY <2>1, <2>3, <3>2 DEF RecordMove, TypeOK, Checkpoint
        <4>2. CASE db'.status = "paused"
          BY <3>2, <4>1, <4>2 DEF Record!drVars
        <4>3. CASE db'.status = "running"
          BY <3>2, <4>1, <4>3 DEF Record!DRNext, Record!Reopen
        <4>4. CASE db'.status \in Terminal
          BY <3>2, <4>1, <4>4 DEF Terminal, Record!DRNext, Record!End, Record!Accounted,
               Record!Outcomes
        <4> QED
          BY <2>2, <4>2, <4>3, <4>4 DEF RunStatus, Terminal
      <3>3. CASE db.status \in Terminal
        BY <2>3, <3>3 DEF RecordMove, Terminal, Record!drVars
      <3> QED
        BY <2>2, <3>1, <3>2, <3>3 DEF RunStatus, Terminal
    <2>4. CASE UNCHANGED db
      BY <2>4 DEF Record!drVars
    <2> QED
      BY <1>2, <2>3, <2>4, NextMoves
  <1> QED
    BY <1>1, <1>2, RecordCorrect, PTL DEF Spec, RecordIsDurable, Record!DRSpec
=============================================================================
