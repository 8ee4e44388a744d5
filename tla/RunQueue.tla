------------------------------ MODULE RunQueue ------------------------------
(* The queue of background runs and its leases (sqlite/run-coordinator.ts). A
   lease token is the worker that claimed: a worker has one claim at a time and
   a process that restarts has none. Time is only whether a lease is live, that
   is, whether lease_expires_at is still ahead.                             *)
EXTENDS RunStore, Sequences, SequencesExt, FiniteSets, FiniteSetsExt

CONSTANTS Workers, Nobody

VARIABLE queue   \* the rows, in the order of enqueued_at

Row == [run : Runs, holder : Workers \cup {Nobody}, live : BOOLEAN]

QueueTypeOK == queue \in BoundedSeq(Row, Cardinality(Runs))

QueueInit == queue = <<>>

Queued(r) == \E i \in DOMAIN queue : queue[i].run = r

Holds(w, r) == \E i \in DOMAIN queue : queue[i].run = r /\ queue[i].holder = w

(* INSERT ... ON CONFLICT DO NOTHING *)
Enqueue(r) ==
  queue' = IF Queued(r) THEN queue
           ELSE Append(queue, [run |-> r, holder |-> Nobody, live |-> FALSE])

Claimable == {i \in DOMAIN queue : ~queue[i].live}

(* The oldest row that is unclaimed or whose lease has expired. *)
Claim(w, r) ==
  /\ Claimable # {}
  /\ LET i == Min(Claimable)
     IN /\ queue[i].run = r
        /\ queue' = [queue EXCEPT ![i].holder = w, ![i].live = TRUE]

(* What the worker learns from its heartbeat: is the lease still its own? *)
HeartbeatAnswers(w, r) ==
  \E i \in DOMAIN queue : /\ queue[i].run = r
                          /\ queue[i].holder = w
                          /\ queue[i].live

\* A run has one row (PRIMARY KEY).
Release(w, r) ==
  queue' = RemoveFirstMatch(queue, LAMBDA row : row.run = r /\ row.holder = w)

(* Time passes: no heartbeat has come for as long as the lease. *)
Expire(w, r) ==
  \E i \in DOMAIN queue :
    /\ queue[i].run = r
    /\ queue[i].holder = w
    /\ queue[i].live
    /\ queue' = [queue EXCEPT ![i].live = FALSE]
=============================================================================
