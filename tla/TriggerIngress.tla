--------------------------- MODULE TriggerIngress ---------------------------
(* The ingress of trigger events and the background launch it asks the runtime
   for: triggers/core/ingress.ts, its store, WorkflowRuntime.launch and
   DagWorkflowEngine.queue. The run of an event is named after it, as the run
   id is a hash of the authority and the dedupe key of the event.

   A call is a chain of awaits; between two of them any other actor may move.
     bind       resolveBinding, in recoverPending
     authorize  authority, published template and plan: no effect on a store
     joined     waits for the launch of the same key by a call of its process
     load, create, accept, enqueue, mark, reject   the next store operation *)
EXTENDS RunQueue

CONSTANTS Callers,      \* calls of ingest and recoverPending
          Processes,
          Site,         \* the process of each actor
          Flaws         \* what may be wrong with each event, see flaw
Events == Runs

VARIABLES flaw,     \* "none", "unmappable": the binding cannot map the payload, or
                    \* "poison": its launch throws as the system is deployed
          ingress,  \* status of the ingress record of each event
          inbox,    \* the records that are received, in the order of updated_at
          calls,    \* where each call is, and the events it has still to launch
          arrivals  \* how often each event has arrived

ingressVars == <<flaw, ingress, inbox, calls, arrivals>>

Idle == [pc |-> "idle", todo |-> <<>>]

LaunchPC == {"authorize", "load", "create", "accept", "enqueue"}
CallPC == {"idle", "bind", "joined", "mark", "reject"} \cup LaunchPC

IngressTypeOK ==
  /\ flaw \in [Events -> {"none", "poison", "unmappable"}]
  /\ ingress \in [Events -> {"none", "received", "rejected", "launched"}]
  /\ inbox \in BoundedSeq(Events, Cardinality(Events))
  /\ calls \in [Callers -> [pc : CallPC, todo : BoundedSeq(Events, Cardinality(Events))]]
  /\ arrivals \in [Events -> Nat]

IngressInit ==
  /\ flaw \in [Events -> {"none", "poison", "unmappable"}]
  /\ \A e \in Events : flaw[e] \in Flaws[e]
  /\ ingress = [e \in Events |-> "none"]
  /\ inbox = <<>>
  /\ calls = [c \in Callers |-> Idle]
  /\ arrivals = [e \in Events |-> 0]

Current(c) == Head(calls[c].todo)
At(c, pc) == calls[c].pc = pc

(* The call goes on at pc; a call that has launched its event takes the next one. *)
Goto(c, pc) == calls' = [calls EXCEPT ![c].pc = pc]
NextEvent(c) ==
  calls' = [calls EXCEPT ![c] = IF Len(@.todo) = 1 THEN Idle
                                ELSE [pc |-> "bind", todo |-> Tail(@.todo)]]

(* The entry of #idempotent in the process of the call, if there is one. *)
Leaders(c, e) == {d \in Callers \ {c} : /\ Site[d] = Site[c]
                                        /\ calls[d].pc \in LaunchPC
                                        /\ Current(d) = e}
Joiners(c) == {d \in Callers : /\ Site[d] = Site[c]
                               /\ At(d, "joined")
                               /\ Current(d) = Current(c)}

(* The promise of the launch is settled: its own call and those that joined it go
   on, and the entry is deleted. *)
LaunchSettled(c, to) ==
  calls' = [d \in Callers |->
              IF d = c \/ d \in Joiners(c)
              THEN IF to = "thrown" THEN Idle ELSE [calls[d] EXCEPT !.pc = to]
              ELSE calls[d]]

(* #launch of the ingress, up to its first await: mapInputs, then the look into
   #idempotent. *)
LaunchPoint(c, e) == CASE flaw[e] = "unmappable" -> "reject"
                       [] flaw[e] # "unmappable" /\ Leaders(c, e) # {} -> "joined"
                       [] OTHER -> "authorize"
-----------------------------------------------------------------------------
(* acceptOrGet: a duplicate is counted, which moves a record that is pending to the
   end of the listing, and launches nothing. *)
Ingest(c, e) ==
  /\ At(c, "idle")
  /\ arrivals' = [arrivals EXCEPT ![e] = @ + 1]
  /\ inbox' = IF ingress[e] \in {"none", "received"} THEN Append(RemoveFirst(inbox, e), e) ELSE inbox
  /\ IF ingress[e] = "none"
     THEN /\ ingress' = [ingress EXCEPT ![e] = "received"]
          /\ calls' = [calls EXCEPT ![c] = [pc |-> LaunchPoint(c, e), todo |-> <<e>>]]
     ELSE UNCHANGED <<ingress, calls>>
  /\ UNCHANGED <<flaw, storeVars, queue>>

(* recoverPending lists what is received and takes it one after the other. *)
RecoverPending(c) ==
  /\ At(c, "idle")
  /\ inbox # <<>>
  /\ calls' = [calls EXCEPT ![c] = [pc |-> "bind", todo |-> inbox]]
  /\ UNCHANGED <<flaw, ingress, inbox, arrivals, storeVars, queue>>

Bind(c) ==
  /\ At(c, "bind")
  /\ Goto(c, LaunchPoint(c, Current(c)))
  /\ UNCHANGED <<flaw, ingress, inbox, arrivals, storeVars, queue>>

(* A throw ends the call, with everything it had still to recover. *)
Refuse(c) ==
  /\ At(c, "authorize")
  /\ flaw[Current(c)] = "poison"
  /\ LaunchSettled(c, "thrown")
  /\ UNCHANGED <<flaw, ingress, inbox, arrivals, storeVars, queue>>

Authorize(c) ==
  /\ At(c, "authorize")
  /\ flaw[Current(c)] # "poison"
  /\ Goto(c, "load")
  /\ UNCHANGED <<flaw, ingress, inbox, arrivals, storeVars, queue>>

(* Mutant: a run that exists needs nothing. *)
ExistingUnqueued(c) == LaunchSettled(c, "mark")

(* A run that exists is queued again if it is running, and needs nothing else. *)
Existing(c) == IF record[Current(c)] = "running" THEN Goto(c, "enqueue")
               ELSE LaunchSettled(c, "mark")

(* Mutant: a run that has come to rest cannot be launched again. *)
LoadExistingOpen(c) ==
  /\ At(c, "load")
  /\ CASE record[Current(c)] = "absent" -> Goto(c, "create")
       [] record[Current(c)] = "running" -> Goto(c, "enqueue")
       [] OTHER -> LaunchSettled(c, "thrown")
  /\ UNCHANGED <<flaw, ingress, inbox, arrivals, storeVars, queue>>

LoadExisting(c) ==
  /\ At(c, "load")
  /\ IF record[Current(c)] = "absent" THEN Goto(c, "create") ELSE Existing(c)
  /\ UNCHANGED <<flaw, ingress, inbox, arrivals, storeVars, queue>>

CreateOrJoin(c) ==
  /\ At(c, "create")
  /\ \/ CreateRun(c, Current(c)) /\ Goto(c, "accept")
     \/ record[Current(c)] # "absent" /\ Existing(c) /\ UNCHANGED storeVars
  /\ UNCHANGED <<flaw, ingress, inbox, arrivals, queue>>

(* The first commit of the queued run; a worker may have been faster, and then the
   launch throws although the run goes on. *)
AcceptRun(c) ==
  /\ At(c, "accept")
  /\ \/ /\ Commit(c, Current(c), "running")
        /\ Goto(c, "enqueue")
     \/ /\ Conflict(c, Current(c))
        /\ LaunchSettled(c, "thrown")
        /\ UNCHANGED storeVars
  /\ UNCHANGED <<flaw, ingress, inbox, arrivals, queue>>

EnqueueRun(c) ==
  /\ At(c, "enqueue")
  /\ Enqueue(Current(c))
  /\ LaunchSettled(c, "mark")
  /\ seen' = [seen EXCEPT ![Current(c)] = @ \ {c}]
  /\ UNCHANGED <<flaw, ingress, inbox, arrivals, record>>

(* #transition: idempotent for the same status, refused from the other. *)
Transition(e, to) ==
  /\ ingress[e] \in {"received", to}
  /\ ingress' = [ingress EXCEPT ![e] = to]
  /\ inbox' = RemoveFirst(inbox, e)

MarkLaunched(c) ==
  /\ At(c, "mark")
  /\ Transition(Current(c), "launched")
  /\ NextEvent(c)
  /\ UNCHANGED <<flaw, arrivals, storeVars, queue>>

MarkRejected(c) ==
  /\ At(c, "reject")
  /\ Transition(Current(c), "rejected")
  /\ NextEvent(c)
  /\ UNCHANGED <<flaw, arrivals, storeVars, queue>>

(* A store, the authority resolver or the catalog fails under the launch: nothing is
   written, the record stays received. *)
LaunchFails(c) ==
  /\ calls[c].pc \in LaunchPC
  /\ LaunchSettled(c, "thrown")
  /\ seen' = Dropped({c})
  /\ UNCHANGED <<flaw, ingress, inbox, arrivals, record, queue>>

(* The processes of the calls in D die, with their #idempotent maps. *)
CallsDie(D) == calls' = [c \in Callers |-> IF c \in D THEN Idle ELSE calls[c]]

Serve(c) ==
  \/ Bind(c) \/ Refuse(c) \/ Authorize(c) \/ LoadExisting(c) \/ CreateOrJoin(c)
  \/ AcceptRun(c) \/ EnqueueRun(c) \/ MarkLaunched(c) \/ MarkRejected(c)
=============================================================================
