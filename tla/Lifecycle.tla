----------------------------- MODULE Lifecycle -----------------------------
(* From a template to the runs of it: compiled (Admission), drafted and published
   (Catalog), bound to triggers (Bindings), executed with the workflows it calls
   (NestedRuns). A deployment says what is published first and who acts after that,
   so that one run checks the parts together without the product of all actors. *)
EXTENDS NestedRuns, Admission

CONSTANTS Deployments   \* [shelf, offers, cast, target, faults, shocks, decisions]

ASSUME DeploymentsAssumption ==
  \A d \in Deployments : d.shelf \in Seq(Names) /\ d.offers \subseteq Names

VARIABLES deployment,
          shocks,      \* faults that may still happen
          decisions    \* decisions operators may still take

vars == <<admissionVars, catalogVars, bindingVars, nestedVars, deployment, shocks, decisions>>

Study == [shelf |-> <<>>, offers |-> {}, cast |-> {}, target |-> <<1, 1>>, faults |-> {}, shocks |-> 0, decisions |-> 0]

Init == /\ CatalogInit /\ AdmissionInit /\ BindingsInit /\ NestedInit
        /\ deployment \in Deployments \cup {Study}
        /\ (deployment = Study) <=> (verdict = "given")
        /\ target = deployment.target
        /\ shocks = deployment.shocks /\ decisions = deployment.decisions
-----------------------------------------------------------------------------
Studying == AdmissionNext /\ UNCHANGED <<catalogVars, bindingVars, nestedVars, deployment, shocks, decisions>>

(* One author publishes the shelf, template after template. *)
Stocked == Seqs!FoldLeft(LAMBDA n, id : n + Len(published[id]), 0, [i \in 1 .. Cardinality(Ids) |-> i])
Curator == CHOOSE a \in Authors : TRUE
Curating == Stocked < Len(deployment.shelf)
Stock == \E i \in DOMAIN deployment.shelf :
           /\ i = Stocked + 1
           /\ \/ CreateDraft(Curator, deployment.shelf[i])
              \/ ReadDraft(Curator, Content[deployment.shelf[i]].id)
              \/ PublishStep(Curator)

Taking(part) == ~Curating /\ part \in deployment.cast
Authoring == /\ \/ Stock
                \/ \E a \in Authors : Taking(a) /\ AuthorStep(a, deployment.offers)
                \/ \E r \in Readers : Taking(r) /\ ReaderStep(r)
             /\ UNCHANGED <<admissionVars, bindingVars, nestedVars, deployment, shocks, decisions>>

Binding == /\ \E w \in Binders : Taking(w) /\ BinderStep(w)
           /\ UNCHANGED <<admissionVars, catalogVars, nestedVars, deployment, shocks, decisions>>
-----------------------------------------------------------------------------
Apart == UNCHANGED <<admissionVars, catalogVars, bindingVars, deployment>>
Calmly == Apart /\ UNCHANGED <<shocks, decisions>>
Shock(fault) == /\ fault \in deployment.faults /\ shocks > 0
                /\ shocks' = shocks - 1
                /\ Apart /\ UNCHANGED decisions
Decided == /\ decisions > 0
           /\ decisions' = decisions - 1
           /\ Apart /\ UNCHANGED shocks

Elsewhere(s) == \E o \in Sessions \ {s} : ~Is(o, Root, "idle")

Start(s) == Taking(s) /\ StartRoot(s) /\ Calmly
Step(s) == SessionStep(s) /\ Calmly
(* A worker resumes the root run while nobody else holds its lease. *)
ResumeRoot(s) == Taking(s) /\ ~Elsewhere(s) /\ Resume(s, Root) /\ Calmly

(* A node that fails, a lease that runs out under its holder, a recovery that resumes
   every running run, parents and children alike. *)
HostFails(s) == Shock("fail") /\ \E r \in Runs : Reply(s, r, FALSE)
LeaseExpires(s) == Shock("expire") /\ Taking(s) /\ Elsewhere(s) /\ Resume(s, Root)
RecoverChild(s) == Shock("recover") /\ Taking(s) /\ \E r \in Runs \ {Root} : Resume(s, r)
Interrupted(s) == Shock("interrupt") /\ \E r \in Runs : Interrupt(s, r)
Crashed(s) == Shock("crash") /\ Crash(s)
Cancelled == Shock("cancel") /\ \E r \in Runs : CancelRun(r)
Decide(s) == Decided /\ Taking(s) /\ \E r \in Runs : DecideRetry(s, r)
Reject == Decided /\ \E r \in Runs : DecideFail(r)

Executing == \/ \E s \in Sessions : \/ Start(s) \/ Step(s) \/ ResumeRoot(s) \/ HostFails(s) \/ LeaseExpires(s)
                                    \/ RecoverChild(s) \/ Interrupted(s) \/ Crashed(s) \/ Decide(s)
             \/ Cancelled \/ Reject

Next == Studying \/ Authoring \/ Binding \/ Executing

Spec == Init /\ [][Next]_vars
Fairness == \A s \in Sessions : WF_vars(Step(s)) /\ WF_vars(ResumeRoot(s))
FairSpec == Spec /\ Fairness
-----------------------------------------------------------------------------
TypeOK == AdmissionTypeOK /\ CatalogTypeOK /\ BindingsTypeOK /\ NestedTypeOK

(* The depth the catalog checks when it publishes is the depth the engine enforces when
   the revision is the root of a run: no call of a published workflow is refused by
   SUBWORKFLOW_DEPTH_EXCEEDED, as long as the ceiling of the deployment is not below
   the default of the catalog. *)
Enters(v) == {[ref |-> callee, depth |-> v.depth + 1, limit |-> Minimum(v.limit, Effective(At(callee)))] :
                callee \in DependenciesOf(At(v.ref))}
Entered(ref) ==
  LET entered[k \in 0 .. Cardinality(Ids)] ==
        IF k = 0 THEN {[ref |-> ref, depth |-> 0, limit |-> Effective(At(ref))]}
        ELSE LET V == entered[k - 1] IN V \cup UNION {Enters(v) : v \in V}
  IN entered[Cardinality(Ids)]
DepthsAgree == \A ref \in Refs : IsPublished(ref) =>
                 \A v \in Entered(ref) : DependenciesOf(At(v.ref)) # {} => v.depth + 1 <= v.limit

=============================================================================
