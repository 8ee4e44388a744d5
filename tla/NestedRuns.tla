----------------------------- MODULE NestedRuns -----------------------------
(* The runs of a published workflow that calls others (workflow.call) and iterates
   over them (core.foreach): the run of a node's callee is a run of its own, found
   again by its invocation id. A run is named by its path from the root, the items by
   which it was called; each has a start node, one main node and an end node, of which
   only the main one can be interrupted. Sessions execute: a worker or a recovery in
   some process, with the tree of executions it started. What the record of a run
   tells of it (its main node, attempts and foreach frames) is compared and set with
   its status (RunStore); node.started is one commit with capability.requested, and with
   the first checkpoint of the frames. *)
EXTENDS Bindings, RunStore

CONSTANTS Sessions     \* among the actors of the run store

Root == <<>>
ASSUME RunsAssumption == Root \in Runs /\ Runs \subseteq Seq(Nat) /\ Sessions \subseteq Actors

VARIABLES target,    \* reference that the root run executes
          plan,      \* its execution plan
          main,      \* durable state of the main node of each run
          attempts,  \* its durable attempts
          frames,    \* durable foreach frames, <<>> until there are some
          exec,      \* executions, by session and run
          calls,     \* Host calls of each run's main node
          retries,   \* decisions of an operator to retry it
          ordered    \* runs that were cancelled explicitly

durableVars == <<storeVars, main, attempts, frames>>
historyVars == <<calls, retries, ordered>>
nestedVars == <<target, plan, durableVars, exec, historyVars>>

Idle == [at |-> "idle", stop |-> "none", answer |-> "none", hands |-> <<>>, error |-> "none"]
MainOf(c) == Node(Content[c], CHOOSE n \in Known(Content[c]) : Def(Content[c], n).role = "regular")
Mains == [c \in Names |-> IF \E n \in Known(Content[c]) : Def(Content[c], n).role = "regular"
                          THEN MainOf(c) ELSE NoDraft]

Child(r, i) == Append(r, i)
Parent(r) == SubSeq(r, 1, Len(r) - 1)
Item(r) == r[Len(r)]
Under(r) == {d \in Runs : Len(d) > Len(r) /\ SubSeq(d, 1, Len(r)) = r}

Effective(c) == Minimum(Policy(c), Ceilings.depth)

(* buildPlan locks the templates that the target calls, directly or not; as each has
   one main node, the plan has one template for each depth. *)
PlanOf(ref) ==
  LET chain[callee \in Refs] ==
        LET node == Mains[At(callee)]
        IN <<[main |-> node, limit |-> Effective(At(callee))]>>
           \o IF node.with = <<>> THEN <<>> ELSE chain[node.with]
  IN chain[ref]

Main(r) == plan[Len(r) + 1].main
IsLeaf(r) == Main(r).with = <<>>
IsForEach(r) == Main(r).uses = "core.foreach"
ItemsOf(node) == IF node.uses = "core.foreach" THEN 1 .. node.items ELSE {1}
Items(r) == ItemsOf(Main(r))

(* Bound: Runs has room for the tree that a plan describes. *)
IsIn(p, r) == \A k \in 1 .. Len(r) : p[k].main.with # <<>> /\ r[k] \in ItemsOf(p[k].main)
HasRoom(p) == \A r \in Runs : IsIn(p, r) /\ p[Len(r) + 1].main.with # <<>> =>
             \A i \in ItemsOf(p[Len(r) + 1].main) : Child(r, i) \in Runs

(* A run inherits the limit of the one above it, lowered to the policy of its template. *)
TooDeep(r) == \E k \in 1 .. Len(r) + 1 : Len(r) + 1 > plan[k].limit
-----------------------------------------------------------------------------
NestedInit == /\ StoreInit
              /\ plan = <<>>
              /\ main = [r \in Runs |-> "absent"]
              /\ attempts = [r \in Runs |-> 0]
              /\ frames = [r \in Runs |-> <<>>]
              /\ exec = [s \in Sessions |-> [r \in Runs |-> Idle]]
              /\ calls = [r \in Runs |-> 0]
              /\ retries = [r \in Runs |-> 0]
              /\ ordered = {}

Is(s, r, pc) == exec[s][r].at = pc
Goto(s, r, pc) == exec' = [exec EXCEPT ![s][r].at = pc]
InFlight(e) == e.at \notin {"idle", "ended"}
Waiting(s, r) == /\ r # Root
                 /\ Is(s, Parent(r), "work")
                 /\ exec[s][Parent(r)].hands[Item(r)] = "child"

(* Mutant: the parent does not hear of a cancelled child. *)
EndedUnheard(s, r, answer) == [exec[s] EXCEPT ![r] =
  IF Waiting(s, r) /\ answer # "cancelled" THEN [Idle EXCEPT !.at = "ended", !.answer = answer] ELSE Idle]

(* Mutant: the result is left to a parent that does not wait any more. *)
EndedAlways(s, r, answer) == [exec[s] EXCEPT ![r] = [Idle EXCEPT !.at = "ended", !.answer = answer]]

(* The local result of an execution, for the gateway of its parent if it still waits. *)
Ended(s, r, answer) == [exec[s] EXCEPT ![r] =
  IF Waiting(s, r) THEN [Idle EXCEPT !.at = "ended", !.answer = answer] ELSE Idle]

Ends(s, r, answer) == /\ exec' = [exec EXCEPT ![s] = Ended(s, r, answer)]
                      /\ seen' = [seen EXCEPT ![r] = @ \ {s}]
                      /\ UNCHANGED record

(* The last commit of an execution. *)
EndsWith(s, r, status) == /\ Commit(s, r, status)
                          /\ exec' = [exec EXCEPT ![s] = Ended(s, r, status)]

Sets(r, state) == main' = [main EXCEPT ![r] = state]
Keeps == UNCHANGED <<target, plan, historyVars>>
KeepsData == UNCHANGED <<main, attempts, frames>>
KeepsRun == KeepsData /\ Keeps

(* The executions after those below r were told to stop: to them the caller cancels,
   whatever the reason. *)
StopsBelow(executions, r) ==
  [d \in Runs |-> IF d \in Under(r) /\ InFlight(executions[d]) /\ executions[d].stop = "none"
                  THEN [executions[d] EXCEPT !.stop = "cancel"] ELSE executions[d]]
-----------------------------------------------------------------------------
(* Mutant: whatever was running is ready again. *)
LoadRetrying(s, r) ==
  /\ Is(s, r, "load")
  /\ KeepsRun
  /\ CASE record[r] = "absent" -> Goto(s, r, "create") /\ UNCHANGED storeVars
       [] record[r] \in Terminal -> Ends(s, r, record[r])
       [] OTHER -> LoadRun(s, r) /\ Goto(s, r, "boot")

(* invoke, resume and startNew *)
Load(s, r) ==
  /\ Is(s, r, "load")
  /\ KeepsRun
  /\ CASE record[r] = "absent" -> Goto(s, r, "create") /\ UNCHANGED storeVars
       [] record[r] \in Terminal -> Ends(s, r, record[r])
       [] record[r] = "paused" /\ main[r] = "needs_attention" -> Ends(s, r, "paused")
       [] record[r] = "running" /\ main[r] \in {"running", "needs_attention"} /\ IsLeaf(r) ->
            LoadRun(s, r) /\ Goto(s, r, "pause")
       [] OTHER -> LoadRun(s, r) /\ Goto(s, r, "boot")

(* RUN_ALREADY_EXISTS is an error of the invocation. *)
Create(s, r) ==
  /\ Is(s, r, "create")
  /\ IF record[r] = "absent"
     THEN CreateRun(s, r) /\ Sets(r, "ready") /\ Goto(s, r, "boot") /\ UNCHANGED <<attempts, frames>>
     ELSE Ends(s, r, "failed") /\ KeepsData
  /\ Keeps

CommitPause(s, r) == /\ Is(s, r, "pause")
                     /\ EndsWith(s, r, "paused")
                     /\ Sets(r, "needs_attention")
                     /\ UNCHANGED <<attempts, frames>> /\ Keeps

Boot(s, r) == /\ Is(s, r, "boot")
              /\ Commit(s, r, "running")
              /\ Sets(r, IF main[r] \in {"running", "needs_attention"} THEN "ready" ELSE main[r])
              /\ Goto(s, r, IF main[r] = "succeeded" THEN "finish" ELSE "launch")
              /\ UNCHANGED <<attempts, frames>> /\ Keeps
-----------------------------------------------------------------------------
(* The main node. *)
Restored(r) == IF IsForEach(r)
               THEN IF frames[r] = <<>> THEN [i \in Items(r) |-> "pending"] ELSE frames[r]
               ELSE <<>>
(* Mutant: an item that was running is taken for done. *)
HandsEager(r) == [i \in Items(r) |->
  IF IsForEach(r) THEN IF Restored(r)[i] = "pending" THEN "todo" ELSE "done" ELSE "child"]
Hands(r) == [i \in Items(r) |->
  IF IsForEach(r) THEN IF Restored(r)[i] = "completed" THEN "done" ELSE "todo" ELSE "child"]

(* Nobody is left to take the answers of the executions below r. *)
Unheard(executions, r) == [d \in Runs |-> IF d \in Under(r) /\ executions[d].at = "ended" THEN Idle ELSE executions[d]]

(* An execution of r that is still in flight, left by an earlier attempt of the parent, gives way. *)
Starting(executions, r, stop) == [Unheard(executions, r) EXCEPT ![r] = [Idle EXCEPT !.at = "load", !.stop = stop]]

Launch(s, r) ==
  LET working == [exec[s] EXCEPT ![r].at = IF ~IsLeaf(r) /\ TooDeep(r) THEN "failing" ELSE "work",
                                 ![r].hands = Hands(r), ![r].error = "none"]
  IN /\ Is(s, r, "launch")
     /\ exec[s][r].stop = "none"
     /\ Commit(s, r, "running")
     /\ Sets(r, "running")
     /\ attempts' = [attempts EXCEPT ![r] = @ + 1]
     /\ frames' = [frames EXCEPT ![r] = IF TooDeep(r) THEN @ ELSE Restored(r)]
     /\ exec' = [exec EXCEPT ![s] = IF IsLeaf(r) \/ IsForEach(r) \/ TooDeep(r) THEN working
                                    ELSE Starting(working, Child(r, 1), "none")]
     /\ Keeps

(* The Host is called once the request is durable, aborted or not. *)
CallHost(s, r) == /\ Is(s, r, "work") /\ IsLeaf(r)
                  /\ calls' = [calls EXCEPT ![r] = @ + 1]
                  /\ Goto(s, r, "reply")
                  /\ UNCHANGED <<target, plan, durableVars, retries, ordered>>

Reply(s, r, ok) == /\ Is(s, r, "reply")
                   /\ exec[s][r].stop = "none"
                   /\ Goto(s, r, IF ok THEN "settle" ELSE "failing")
                   /\ UNCHANGED storeVars /\ KeepsRun

(* The workers of a foreach. *)
Hand(s, r, i) == exec[s][r].hands[i]
Holding(s, r, stages) == {i \in Items(r) : Hand(s, r, i) \in stages}
Busy(s, r) == Holding(s, r, {"mark", "child", "close"})
Passes(s, r, i, stage) == exec' = [exec EXCEPT ![s][r].hands[i] = stage]
Iterating(s, r) == Is(s, r, "work") /\ ~IsLeaf(r) /\ exec[s][r].stop = "none"

(* Mutant: the child is started without waiting for the checkpoint. *)
TakeAtOnce(s, r, i) ==
  /\ Iterating(s, r) /\ IsForEach(r)
  /\ exec[s][r].error = "none"
  /\ Hand(s, r, i) = "todo"
  /\ exec' = [exec EXCEPT ![s] = Starting([@ EXCEPT ![r].hands[i] = "child"], Child(r, i), "none")]
  /\ UNCHANGED storeVars /\ KeepsRun

(* A worker takes the next item. *)
Take(s, r, i) ==
  /\ Iterating(s, r) /\ IsForEach(r)
  /\ exec[s][r].error = "none"
  /\ Hand(s, r, i) = "todo"
  /\ \A j \in Holding(s, r, {"todo"}) : i <= j
  /\ Cardinality(Busy(s, r) \cup Holding(s, r, {"broken"})) < Main(r).concurrency
  /\ Passes(s, r, i, "mark")
  /\ UNCHANGED storeVars /\ KeepsRun

(* Its first checkpoint, outside the try: a conflict ends the worker, not the others.
   The signal of a child that is started after another one failed is aborted. *)
Mark(s, r, i) ==
  /\ Iterating(s, r)
  /\ Hand(s, r, i) = "mark"
  /\ IF Conflict(s, r)
     THEN Passes(s, r, i, "broken") /\ UNCHANGED storeVars /\ KeepsData
     ELSE /\ Commit(s, r, "running")
          /\ frames' = [frames EXCEPT ![r][i] = "running"]
          /\ exec' = [exec EXCEPT ![s] = Starting([@ EXCEPT ![r].hands[i] = "child"], Child(r, i),
                                                  IF exec[s][r].error = "none" THEN "none" ELSE "cancel")]
          /\ UNCHANGED <<main, attempts>>
  /\ Keeps

(* A worker that throws: the first error counts, the other children are aborted. *)
Breaks(executions, s, r, i, error) ==
  LET own == executions[r]
      broken == [own EXCEPT !.hands[i] = "broken", !.error = IF own.error = "none" THEN error ELSE own.error]
  IN exec' = [exec EXCEPT ![s] = StopsBelow([executions EXCEPT ![r] = broken], r)]
Answered(s, r, i) == [exec[s] EXCEPT ![Child(r, i)] = Idle]

(* Mutant: only a failed child is an error. *)
GatherLax(s, r, i) ==
  LET answer == exec[s][Child(r, i)].answer
  IN /\ Iterating(s, r)
     /\ Hand(s, r, i) = "child"
     /\ Is(s, Child(r, i), "ended")
     /\ IF answer # "failed"
        THEN exec' = [exec EXCEPT ![s][r].hands[i] = IF IsForEach(r) THEN "close" ELSE "done",
                                  ![s][Child(r, i)] = Idle]
        ELSE Breaks(Answered(s, r, i), s, r, i, "error")
     /\ UNCHANGED storeVars /\ KeepsRun

(* The gateway hands over the local result of the child. *)
Gather(s, r, i) ==
  LET answer == exec[s][Child(r, i)].answer
  IN /\ Iterating(s, r)
     /\ Hand(s, r, i) = "child"
     /\ Is(s, Child(r, i), "ended")
     /\ IF answer = "completed"
        THEN exec' = [exec EXCEPT ![s][r].hands[i] = IF IsForEach(r) THEN "close" ELSE "done",
                                  ![s][Child(r, i)] = Idle]
        ELSE Breaks(Answered(s, r, i), s, r, i, IF answer = "paused" THEN "pause" ELSE "error")
     /\ UNCHANGED storeVars /\ KeepsRun

(* Its last checkpoint, inside the try. *)
Close(s, r, i) ==
  /\ Iterating(s, r)
  /\ Hand(s, r, i) = "close"
  /\ IF Conflict(s, r)
     THEN Breaks(exec[s], s, r, i, "error") /\ UNCHANGED storeVars /\ KeepsData
     ELSE /\ Commit(s, r, "running")
          /\ frames' = [frames EXCEPT ![r][i] = "completed"]
          /\ Passes(s, r, i, "done")
          /\ UNCHANGED <<main, attempts>>
  /\ Keeps

(* All workers are gone; an item may be left behind by one that was lost. *)
Converge(s, r) ==
  LET error == exec[s][r].error
  IN /\ Iterating(s, r)
     /\ Busy(s, r) = {}
     /\ \/ error # "none"
        \/ Holding(s, r, {"todo"}) = {}
        \/ Cardinality(Holding(s, r, {"broken"})) >= Main(r).concurrency
     /\ Goto(s, r, CASE error = "pause" -> "yield"
                     [] error = "none" /\ Holding(s, r, {"done"}) = Items(r) -> "settle"
                     [] OTHER -> "failing")
     /\ UNCHANGED storeVars /\ KeepsRun

(* An aborted node is rejected at once, and so is the launch of one. What it started
   goes on by itself. *)
Abort(s, r) ==
  LET e == exec[s][r]
      left == Unheard(exec[s], r)
  IN /\ e.stop # "none"
     /\ e.at \in {"launch", "reply", "finish"} \/ (e.at = "work" /\ ~IsLeaf(r))
     /\ IF e.stop = "cancel"
        THEN /\ exec' = [exec EXCEPT ![s] = [left EXCEPT ![r] = [Idle EXCEPT !.at = "cancel", !.stop = "cancel"]]]
             /\ UNCHANGED storeVars
        ELSE /\ exec' = [exec EXCEPT ![s] = [left EXCEPT ![r] = Ended(s, r, "failed")[r]]]
             /\ seen' = [seen EXCEPT ![r] = @ \ {s}]
             /\ UNCHANGED record
     /\ KeepsRun
-----------------------------------------------------------------------------
(* What follows the main node. *)
Settle(s, r) ==
  /\ Is(s, r, "settle")
  /\ IF exec[s][r].stop = "interrupt"
     THEN Ends(s, r, "failed") /\ KeepsData
     ELSE /\ Commit(s, r, "running")
          /\ Sets(r, "succeeded")
          /\ Goto(s, r, "finish")
          /\ UNCHANGED <<attempts, frames>>
  /\ Keeps

Fail(s, r) ==
  /\ Is(s, r, "failing")
  /\ IF attempts[r] < Main(r).attempts /\ ~IsLeaf(r)
     THEN Commit(s, r, "running") /\ Sets(r, "ready") /\ Goto(s, r, "launch")
     ELSE EndsWith(s, r, "failed") /\ Sets(r, "failed")
  /\ UNCHANGED <<attempts, frames>> /\ Keeps

Yield(s, r) == /\ Is(s, r, "yield")
               /\ EndsWith(s, r, "paused")
               /\ Sets(r, "needs_attention")
               /\ UNCHANGED <<attempts, frames>> /\ Keeps

FinishCancelled(s, r) == /\ Is(s, r, "cancel")
                         /\ EndsWith(s, r, "cancelled")
                         /\ Sets(r, IF main[r] = "succeeded" THEN main[r] ELSE "cancelled")
                         /\ UNCHANGED <<attempts, frames>> /\ Keeps

Complete(s, r) == /\ Is(s, r, "finish")
                  /\ EndsWith(s, r, "completed")
                  /\ KeepsRun

(* RUN_SEQUENCE_CONFLICT ends the execution. *)
LoseCommit(s, r) == /\ \/ exec[s][r].at \in {"pause", "boot", "failing", "yield", "cancel", "finish"}
                       \/ Is(s, r, "launch") /\ exec[s][r].stop = "none"
                       \/ Is(s, r, "settle") /\ exec[s][r].stop # "interrupt"
                    /\ Conflict(s, r)
                    /\ Ends(s, r, "failed")
                    /\ KeepsRun

ForEachStep(s, r) == \E i \in Items(r) : Take(s, r, i) \/ Mark(s, r, i) \/ Gather(s, r, i) \/ Close(s, r, i)

RunStep(s, r) == \/ Load(s, r) \/ Create(s, r) \/ CommitPause(s, r) \/ Boot(s, r)
                 \/ Launch(s, r) \/ CallHost(s, r) \/ Reply(s, r, TRUE) \/ Converge(s, r)
                 \/ Abort(s, r) \/ Settle(s, r) \/ Fail(s, r) \/ Yield(s, r)
                 \/ FinishCancelled(s, r) \/ Complete(s, r) \/ LoseCommit(s, r)

SessionStep(s) == \E r \in Runs : /\ InFlight(exec[s][r])
                                  /\ RunStep(s, r) \/ (~IsLeaf(r) /\ ForEachStep(s, r))
-----------------------------------------------------------------------------
(* What starts, stops and repairs executions. *)
Asleep(s) == \A r \in Runs : Is(s, r, "idle")
Begins(s, r, pc) == exec' = [exec EXCEPT ![s][r] = [Idle EXCEPT !.at = pc]]

(* start *)
StartRoot(s) == /\ record[Root] = "absent" /\ IsPublished(target)
                /\ plan' = PlanOf(target) /\ HasRoom(plan')
                /\ CreateRun(s, Root) /\ Sets(Root, "ready")
                /\ Begins(s, Root, "boot")
                /\ UNCHANGED <<target, attempts, frames, historyVars>>

Resume(s, r) == /\ Asleep(s)
                /\ record[r] = "running"
                /\ Begins(s, r, "load")
                /\ UNCHANGED <<target, plan, durableVars, historyVars>>

(* An operator decides on a node that needs attention, in the run that has it. *)
DecideRetry(s, r) == /\ Asleep(s)
                     /\ record[r] = "paused" /\ main[r] = "needs_attention"
                     /\ LoadRun(s, r)
                     /\ Begins(s, r, "boot")
                     /\ retries' = [retries EXCEPT ![r] = @ + 1]
                     /\ UNCHANGED <<target, plan, main, attempts, frames, calls, ordered>>

DecideFail(r) == /\ record[r] = "paused" /\ main[r] = "needs_attention"
                 /\ record' = [record EXCEPT ![r] = "failed"]
                 /\ seen' = [seen EXCEPT ![r] = {}]
                 /\ Sets(r, "failed")
                 /\ UNCHANGED <<attempts, frames, exec>> /\ Keeps

CancelRun(r) == /\ record[r] \in {"running", "paused"}
                /\ record' = [record EXCEPT ![r] = "cancelled"]
                /\ seen' = [seen EXCEPT ![r] = {}]
                /\ Sets(r, IF main[r] = "succeeded" THEN main[r] ELSE "cancelled")
                /\ ordered' = ordered \cup {r}
                /\ UNCHANGED <<target, plan, attempts, frames, exec, calls, retries>>

(* A worker is stopped, a caller detaches: only the execution it owns is interrupted,
   the signal reaches those below it. *)
Interrupt(s, r) == /\ InFlight(exec[s][r]) /\ exec[s][r].stop = "none" /\ ~Waiting(s, r)
                   /\ exec' = [exec EXCEPT ![s] = StopsBelow([@ EXCEPT ![r].stop = "interrupt"], r)]
                   /\ UNCHANGED <<target, plan, durableVars, historyVars>>

Crash(s) == /\ ~Asleep(s)
            /\ exec' = [exec EXCEPT ![s] = [r \in Runs |-> Idle]]
            /\ seen' = Dropped({s})
            /\ UNCHANGED <<target, plan, record, main, attempts, frames, historyVars>>
-----------------------------------------------------------------------------
NestedTypeOK ==
  /\ StoreTypeOK
  /\ main \in [Runs -> {"absent", "ready", "running", "needs_attention", "succeeded", "failed", "cancelled"}]
  /\ attempts \in [Runs -> Nat]
  /\ \A r \in Runs : \A i \in DOMAIN frames[r] : frames[r][i] \in {"pending", "running", "completed"}
  /\ \A s \in Sessions, r \in Runs :
       /\ exec[s][r].at \in {"idle", "load", "create", "pause", "boot", "launch", "work", "reply", "settle",
                             "failing", "yield", "cancel", "finish", "ended"}
       /\ exec[s][r].stop \in {"none", "cancel", "interrupt"}
       /\ Is(s, r, "ended") => Waiting(s, r)

Exists(r) == record[r] # "absent"

(* What a parent records of its children is so: an item that is completed in a durable
   frame, and every item of a run whose call is done, has a child that is durably
   completed. A crash, a lost commit or a pause in between never makes an outcome up. *)
ParentsTellTruth ==
  \A r \in Runs : Exists(r) /\ ~IsLeaf(r) =>
    \A i \in Items(r) :
      main[r] = "succeeded" \/ (frames[r] # <<>> /\ frames[r][i] = "completed")
        => record[Child(r, i)] = "completed"

(* No child runs that its parent has no trace of: a recovery of the parent finds it. *)
ChildIsTraced ==
  \A r \in Runs \ {Root} : Exists(r) =>
    /\ attempts[Parent(r)] > 0
    /\ IsForEach(Parent(r)) => frames[Parent(r)][Item(r)] # "pending"

(* Host code that must not be retried is called once per item, and once more for each
   decision of an operator, whatever crashes, conflicts, retries of the calling node
   and recoveries of parent and child at the same time there are. *)
ItemsRunOnce == \A r \in Runs : calls[r] <= 1 + retries[r]

(* A run is cancelled only if it, or one above it, was cancelled explicitly. *)
CancelIsExplicit == \A r \in Runs : record[r] = "cancelled" =>
                      \E k \in 0 .. Len(r) : SubSeq(r, 1, k) \in ordered

(* A root run that was started ends or waits for an operator. *)
TreeComesToRest == <>[](record[Root] # "running")
=============================================================================
