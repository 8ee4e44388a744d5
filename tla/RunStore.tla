------------------------------ MODULE RunStore ------------------------------
(* The run store (core/run-store.ts, storage/sqlite/run-store.ts) as its users
   see it: one status per run and a compare-and-set on the sequence number. An
   actor is in seen[r] when the sequence number it holds of run r is the one
   in the store: loading puts it there, a commit of another takes it out.   *)
EXTENDS Naturals

CONSTANTS Runs, Actors

VARIABLES record,  \* status of the checkpoint of each run, "absent" without one
          seen     \* actors whose sequence number of the run is the stored one

storeVars == <<record, seen>>

Terminal == {"completed", "failed", "cancelled"}
RunStatus == {"absent", "running", "paused"} \cup Terminal

StoreTypeOK == /\ record \in [Runs -> RunStatus]
               /\ seen \in [Runs -> SUBSET Actors]

StoreInit == /\ record = [r \in Runs |-> "absent"]
             /\ seen = [r \in Runs |-> {}]

(* Mutants: an INSERT OR REPLACE, and a commit that does not compare. *)
CreateRunAgain(a, r) == /\ record' = [record EXCEPT ![r] = "running"]
                        /\ seen' = [seen EXCEPT ![r] = {a}]
CommitBlindly(a, r, s) == /\ record[r] # "absent"
                          /\ record' = [record EXCEPT ![r] = s]
                          /\ seen' = [seen EXCEPT ![r] = {a}]

(* createRun refuses a run that exists (RUN_ALREADY_EXISTS). *)
CreateRun(a, r) == /\ record[r] = "absent"
                   /\ record' = [record EXCEPT ![r] = "running"]
                   /\ seen' = [seen EXCEPT ![r] = {a}]

LoadRun(a, r) == /\ record[r] # "absent"
                 /\ seen' = [seen EXCEPT ![r] = @ \cup {a}]
                 /\ UNCHANGED record

Commit(a, r, s) == /\ record[r] # "absent"
                   /\ a \in seen[r]
                   /\ record' = [record EXCEPT ![r] = s]
                   /\ seen' = [seen EXCEPT ![r] = {a}]

(* RUN_SEQUENCE_CONFLICT *)
Conflict(a, r) == a \notin seen[r]

(* The sequence number is dropped with the execution that held it. *)
Dropped(gone) == [r \in Runs |-> seen[r] \ gone]
=============================================================================
