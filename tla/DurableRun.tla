----------------------------- MODULE DurableRun -----------------------------
(* What the durable record of one run promises to its readers (getRun, replay,
   a worker, a delivery), whoever executes the run: an outcome is final, a
   paused run starts nothing, and each commit accounts for at most one new
   attempt of a node.                                                       *)
EXTENDS Naturals

CONSTANTS Nodes      \* what is attempted

VARIABLES status,    \* status of the checkpoint, "absent" before createRun
          attempts   \* attempts of each node in the checkpoint

drVars == <<status, attempts>>

Outcomes == {"completed", "failed", "cancelled"}

(* Attempts never shrink, and a commit adds at most one per node. *)
Accounted == \A n \in Nodes : attempts'[n] \in {attempts[n], attempts[n] + 1}

DRInit == /\ status \in {"absent", "running"}
          /\ attempts = [n \in Nodes |-> 0]

Create == /\ status = "absent"
          /\ status' = "running"
          /\ UNCHANGED attempts

Work == /\ status = "running"
        /\ status' = "running"
        /\ Accounted

Pause == /\ status = "running"
         /\ status' = "paused"
         /\ Accounted

Reopen == /\ status = "paused"
          /\ status' = "running"
          /\ UNCHANGED attempts

End == /\ status \in {"running", "paused"}
       /\ status' \in Outcomes
       /\ Accounted
       /\ status = "paused" => UNCHANGED attempts

DRNext == Create \/ Work \/ Pause \/ Reopen \/ End

DRSpec == DRInit /\ [][DRNext]_drVars
=============================================================================
