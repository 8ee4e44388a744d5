------------------------------ MODULE Bindings ------------------------------
(* The catalog of trigger bindings (triggers/core/bindings.ts) over its repository
   (also storage/sqlite/binding-repository.ts): a binding joins a registered trigger
   to an exact published revision. Like authors, those who publish bindings
   interleave between the calls of the repositories. A candidate is
   [id, trigger, target, maps, faulty]: maps are the workflow inputs it gives, faulty
   that its envelope, its config or a literal is not valid.                   *)
EXTENDS Catalog

CONSTANTS Binders, Candidates, Triggers, BindingIds

ASSUME BindingsAssumption == \A candidate \in Candidates : candidate.id \in BindingIds

VARIABLES bindings,   \* sequence of candidates by binding id
          binders     \* where the publish of each binder is

bindingVars == <<bindings, binders>>

Unbound == [at |-> "away", expected |-> 0]
BindingsInit == /\ bindings = [b \in BindingIds |-> <<>>]
                /\ binders = [w \in Binders |-> Unbound]

BinderBecomes(w, next) == binders' = [binders EXCEPT ![w] = next]

(* validateCandidateEnvelope *)
OfferBinding(w, candidate, expected) ==
  /\ binders[w].at = "away"
  /\ BinderBecomes(w, IF candidate.faulty THEN Unbound
                      ELSE [at |-> "target", candidate |-> candidate, expected |-> expected])
  /\ UNCHANGED bindings

(* Mutant: what the target requires is not looked at. *)
MappingHoldsLax(candidate, schema) == "object" \in schema.types

(* triggers.validate and validateInputMapping against the schema of the target. *)
MappingHolds(candidate, schema) ==
  /\ "object" \in schema.types
  /\ schema.required \subseteq candidate.maps
  /\ schema.closed => candidate.maps \subseteq DOMAIN schema.props

ReadTarget(w) ==
  LET candidate == binders[w].candidate
  IN /\ binders[w].at = "target"
     /\ BinderBecomes(w, IF /\ IsPublished(candidate.target)
                            /\ candidate.trigger \in Triggers
                            /\ MappingHolds(candidate, Content[At(candidate.target)].input)
                         THEN [binders[w] EXCEPT !.at = "publish"] ELSE Unbound)
     /\ UNCHANGED bindings

Appended(w, revision) ==
  LET candidate == binders[w].candidate
  IN bindings' = [bindings EXCEPT ![candidate.id] =
       [i \in 1 .. revision |-> IF i = revision THEN candidate ELSE @[i]]]

(* Mutant: the revision is the expected one, whatever is there. *)
PublishBindingBlindly(w) == /\ binders[w].at = "publish"
                            /\ binders[w].expected <= Len(bindings[binders[w].candidate.id])
                            /\ Appended(w, binders[w].expected + 1)
                            /\ BinderBecomes(w, [binders[w] EXCEPT !.at = "answered"])

(* BINDING_REVISION_CONFLICT unless the expected revision is the latest. *)
PublishBinding(w) ==
  /\ binders[w].at = "publish"
  /\ IF Len(bindings[binders[w].candidate.id]) = binders[w].expected
     THEN /\ Appended(w, binders[w].expected + 1)
          /\ BinderBecomes(w, [binders[w] EXCEPT !.at = "answered"])
     ELSE BinderBecomes(w, Unbound) /\ UNCHANGED bindings

BinderStep(w) == \/ \E candidate \in Candidates, expected \in 0 .. MaxRevisions - 1 :
                      OfferBinding(w, candidate, expected)
                 \/ ReadTarget(w) \/ PublishBinding(w)
-----------------------------------------------------------------------------
BindingsTypeOK == /\ \A b \in BindingIds : bindings[b] \in Seq(Candidates) /\ Len(bindings[b]) <= MaxRevisions
                  /\ \A w \in Binders : binders[w].at \in {"away", "target", "publish", "answered"}

(* Every binding that was ever published can be served: its trigger is known, its
   target is a published revision, and it gives all the inputs the target requires and
   none it refuses. What a binder was told it published is what is there. *)
BindingsResolve ==
  /\ \A b \in BindingIds : \A k \in DOMAIN bindings[b] :
       /\ bindings[b][k].trigger \in Triggers
       /\ IsPublished(bindings[b][k].target)
       /\ LET schema == Content[At(bindings[b][k].target)].input
          IN /\ schema.required \subseteq bindings[b][k].maps
             /\ schema.closed => bindings[b][k].maps \subseteq DOMAIN schema.props
  /\ \A w \in Binders : binders[w].at = "answered" =>
       bindings[binders[w].candidate.id][binders[w].expected + 1] = binders[w].candidate
=============================================================================
