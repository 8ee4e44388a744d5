----------------------------- MODULE PartsProofs -----------------------------
(* The parts that share no state with the others: what the Canvas shows is true (the
   document of the studio and its label, the trace of a run and the stream of its events),
   the recursion that settles the edges of a run computes the definition of it, and the
   command line does what its words say. *)
EXTENDS Studio, Observation, EdgeSettlement, Commands, SequenceTheorems, FiniteSetTheorems,
        WellFoundedInduction, TLAPS

(* The studio. A draft holds a content as one of its revisions. *)
Holds(id, revision, content) == id \in Documents /\ revision \in 1 .. Latest(id) /\ kept[id][revision] = content

Drafts == {NoDraft} \cup [id : Documents, revision : Nat]
Contained == [id : Documents, content : Contents]
Requests == [op : {"save", "publish", "validate", "load", "sync"},
             at : {"asked", "refused", "stored", "listing", "publishing", "relisting", "read"},
             id : Documents \cup {NoDraft.id}, revision : Nat, content : Contents]
AboutDrafts == {"save", "publish", "load"}
Clean == {"pristine", "saved", "validated", "published"}

StudioTypes ==
  /\ kept \in [Documents -> Seq(Contents)]
  /\ draft \in Drafts /\ template \in Contained
  /\ documentState \in Clean \cup {"unsaved", "dirty", "validated-dirty"}
  /\ recovery = NoRecovery \/ recovery \in [draft : Drafts, template : Contained]
  /\ pending \in SUBSET Requests
  /\ due \in BOOLEAN /\ slipped \in BOOLEAN /\ astray \in BOOLEAN

(* What a request that is under way can be sure of. *)
Sure(p) ==
  /\ p.at = "asked" /\ p.op \in AboutDrafts => p.id \in Documents
  /\ p.at \in {"stored", "read"} => Holds(p.id, p.revision, p.content)
  /\ p.at \in {"publishing", "relisting"} => p.op = "publish"

(* What the studio shows is the revision it is based on. *)
Based == IF draft.revision = 0 THEN template.content = Blank
         ELSE draft.id = template.id /\ Holds(draft.id, draft.revision, template.content)

Labelled ==
  /\ documentState \in Clean /\ ~slipped => Based
  /\ documentState \notin Clean /\ Publishing => slipped

(* Only an unsaved document is about to be written to the snapshot. *)
Armed == due => documentState \notin Clean

StudioInv == StudioTypes /\ (\A p \in pending : Sure(p)) /\ Labelled /\ Armed /\ RecoveryIsCurrent

LEMMA UnsavedIsNotClean ==
  ASSUME NEW state \in Clean \cup {"unsaved", "dirty", "validated-dirty"}
  PROVE HasUnsavedChanges(state) <=> state \notin Clean
BY DEF HasUnsavedChanges, Clean

(* Drafts only grow: what one holds it holds for ever. *)
LEMMA DraftsGrow ==
  ASSUME StudioTypes, NEW id \in Documents, NEW content \in Contents,
         kept' = [kept EXCEPT ![id] = Append(@, content)]
  PROVE /\ kept' \in [Documents -> Seq(Contents)]
        /\ \A r : r = Latest(id) + 1 => Holds(id, r, content)'
        /\ \A d \in Documents : \A r, c : Holds(d, r, c) => Holds(d, r, c)'
        /\ \A d \in Documents : Latest(d) \in Nat /\ Latest(d)' \in Nat /\ Latest(d) <= Latest(d)'
<1>1. /\ kept \in [Documents -> Seq(Contents)]
      /\ \A d \in Documents : kept'[d] = IF d = id THEN Append(kept[d], content) ELSE kept[d]
  BY DEF StudioTypes
<1>2. kept[id] \in Seq(Contents) /\ Len(kept[id]) \in Nat
  BY <1>1
<1>3. kept' \in [Documents -> Seq(Contents)]
  BY <1>2 DEF StudioTypes
<1>4. /\ kept'[id] \in Seq(Contents) /\ Len(kept'[id]) = Len(kept[id]) + 1
      /\ kept'[id][Len(kept[id]) + 1] = content
      /\ \A i \in 1 .. Len(kept[id]) : kept'[id][i] = kept[id][i]
  BY <1>1, <1>2, AppendProperties
<1>5. \A d \in Documents : Len(kept[d]) \in Nat
  BY <1>1
<1> QED BY <1>1, <1>2, <1>3, <1>4, <1>5 DEF Holds, Latest

(* The blank template and the absent draft. *)
LEMMA BlankExists == Blank \in Contents /\ Starter \in Contents /\ NoDraft \in Drafts /\ NoDraft.revision = 0
BY StudioAssumption DEF StudioAssumption, NoDraft, Drafts

LEMMA DraftsTyped ==
  ASSUME NEW d \in Drafts
  PROVE d.revision \in Nat /\ (d.revision # 0 => d.id \in Documents)
BY DEF Drafts, NoDraft

LEMMA PlainTyped ==
  ASSUME NEW op \in {"save", "publish", "validate", "load", "sync"}, NEW at \in {"refused", "listing", "relisting"}
  PROVE Plain(op, at) \in Requests /\ Plain(op, at).at = at /\ Plain(op, at).op = op
BY BlankExists DEF Plain, Requests

(* A request is sent, moves on, or ends; nothing else changes. *)
LEMMA RequestsMove ==
  ASSUME StudioInv, UNCHANGED <<kept, recovery, astray, document>>,
         NEW q \in Requests, Sure(q), Late(q) => Publishing,
         pending' \in SUBSET (pending \cup {q})
  PROVE StudioInv'
<1>1. StudioTypes'
  BY DEF StudioInv, StudioTypes, document
<1>2. \A p \in pending' : Sure(p)'
  BY DEF StudioInv, Sure, Holds, Latest
<1>3. Labelled'
  <2>1. Publishing' => Publishing
    BY DEF Publishing, Late
  <2> QED BY <2>1 DEF StudioInv, Labelled, Based, Holds, Latest, document
<1>4. Armed' /\ RecoveryIsCurrent'
  BY DEF StudioInv, Armed, RecoveryIsCurrent, document
<1> QED BY <1>1, <1>2, <1>3, <1>4 DEF StudioInv

LEMMA RequestsTyped ==
  ASSUME StudioTypes, NEW op \in {"save", "publish", "validate", "load", "sync"},
         NEW id \in Documents \cup {NoDraft.id}, op \in AboutDrafts => id \in Documents
  PROVE Request(op, id) \in Requests /\ Sure(Request(op, id)) /\ ~Late(Request(op, id))
<1>1. draft.revision \in Nat /\ template.content \in Contents /\ Blank \in Contents
  BY BlankExists, DraftsTyped DEF StudioTypes, Contained
<1>2. CASE op \in Stores /\ Renamed
  <2>1. PICK q \in Requests : q = Plain(op, "refused") /\ q.at = "refused"
    BY PlainTyped
  <2>2. Sure(q) /\ ~Late(q)
    BY <2>1 DEF Sure, Late
  <2>3. Request(op, id) = q
    BY <1>2, <2>1 DEF Request
  <2> QED BY <2>2, <2>3
<1>3. CASE ~(op \in Stores /\ Renamed)
  <2>1. /\ Request(op, id) \in Requests /\ Request(op, id).at = "asked"
        /\ Request(op, id).id = id /\ Request(op, id).op = op
    BY <1>1, <1>3 DEF Request, Requests
  <2>2. PICK q \in Requests : q = Request(op, id)
    BY <2>1
  <2>3. Sure(q) /\ ~Late(q)
    BY <2>1, <2>2 DEF Sure, Late
  <2> QED BY <2>2, <2>3
<1> QED BY <1>2, <1>3

LEMMA ClicksCorrect ==
  ASSUME StudioInv, Save \/ Publish \/ Validate \/ SyncCatalog \/ \E id \in Documents : LoadDraft(id)
  PROVE StudioInv'
<1>1. ASSUME NEW op \in {"save", "publish", "validate", "load", "sync"}, NEW id \in Documents \cup {NoDraft.id},
             op \in AboutDrafts => id \in Documents, Click(op, id)
      PROVE StudioInv'
  <2>1. Request(op, id) \in Requests /\ Sure(Request(op, id)) /\ ~Late(Request(op, id))
    BY <1>1, RequestsTyped DEF StudioInv
  <2>2. PICK q \in Requests : q = Request(op, id)
    BY <2>1
  <2>3. Sure(q) /\ ~Late(q)
    BY <2>1, <2>2
  <2>4. pending' = pending \cup {q} /\ UNCHANGED <<kept, recovery, astray, document>>
    BY <1>1, <2>2 DEF Click
  <2> QED BY <2>3, <2>4, RequestsMove
<1>2. Target \in Documents
  BY DraftsTyped DEF StudioInv, StudioTypes, Contained, Target
<1>3. "validate" \notin AboutDrafts /\ "sync" \notin AboutDrafts
  BY DEF AboutDrafts
<1> QED BY <1>1, <1>2, <1>3 DEF Save, Publish, Validate, SyncCatalog, LoadDraft

(* The host stores the draft of a save or of a publication. *)
LEMMA StoreDraftCorrect ==
  ASSUME StudioInv, NEW p \in pending, StoreDraft(p)
  PROVE StudioInv'
<1> DEFINE q == [p EXCEPT !.at = "stored", !.revision = @ + 1]
<1>1. p \in Requests /\ Sure(p) /\ UNCHANGED <<recovery, astray, document>>
  BY DEF StudioInv, StudioTypes, StoreDraft
<1>2. kept' = [kept EXCEPT ![p.id] = Append(@, p.content)] /\ pending' = (pending \ {p}) \cup {q}
  BY DEF StoreDraft, Advance
<1>3. /\ q \in Requests /\ q.at = "stored" /\ q.op = p.op /\ q.id = p.id
      /\ q.content = p.content /\ q.revision = Latest(p.id) + 1
  <2>1. p.revision \in Nat /\ p.revision + 1 \in Nat /\ p.revision = Latest(p.id)
    BY <1>1 DEF Requests, StoreDraft
  <2>2. q.at = "stored" /\ q.op = p.op /\ q.id = p.id /\ q.content = p.content /\ q.revision = p.revision + 1
    BY <1>1 DEF Requests
  <2>3. q \in Requests
    BY <1>1, <2>1 DEF Requests
  <2> HIDE DEF q
  <2> QED BY <2>1, <2>2, <2>3
<1>4. p.id \in Documents /\ p.content \in Contents
  BY <1>1 DEF Requests, Sure, StoreDraft, Stores, AboutDrafts
<1> HIDE DEF q
<1>5. /\ kept' \in [Documents -> Seq(Contents)]
      /\ \A r : r = Latest(p.id) + 1 => Holds(p.id, r, p.content)'
      /\ \A d \in Documents : \A r, c : Holds(d, r, c) => Holds(d, r, c)'
      /\ \A d \in Documents : Latest(d) \in Nat /\ Latest(d)' \in Nat /\ Latest(d) <= Latest(d)'
  BY <1>2, <1>4, DraftsGrow DEF StudioInv
<1>6. StudioTypes'
  BY <1>1, <1>2, <1>3, <1>5 DEF StudioInv, StudioTypes, document
<1>7. Sure(q)'
  BY <1>1, <1>3, <1>5 DEF Sure, Holds, Latest
<1>8. ASSUME NEW o \in pending
      PROVE Sure(o)'
  <2>1. o \in Requests /\ Sure(o)
    BY DEF StudioInv, StudioTypes
  <2>2. \A d, n, c : Holds(d, n, c) => Holds(d, n, c)'
    BY <1>5 DEF Holds
  <2> QED BY <2>1, <2>2 DEF Sure
<1>9. Labelled'
  <2>1. Based => Based'
    BY <1>1, <1>5 DEF Based, Holds, document
  <2>2. Publishing' => Publishing
    BY <1>2, <1>3 DEF Publishing, Late
  <2> QED BY <1>1, <2>1, <2>2 DEF StudioInv, Labelled, document
<1>10. Armed' /\ RecoveryIsCurrent'
  BY <1>1 DEF StudioInv, Armed, RecoveryIsCurrent, document
<1> QED BY <1>2, <1>6, <1>7, <1>8, <1>9, <1>10 DEF StudioInv

(* An answer replaces what the studio shows by a revision the host has. *)
LEMMA RepliesShown ==
  ASSUME StudioInv, NEW p \in pending, Saved(p) \/ Loaded(p)
  PROVE StudioInv'
<1>1. p \in Requests /\ Sure(p) /\ kept' = kept /\ recovery' = NoRecovery
      /\ Show(p, p.content) /\ p.at \in {"stored", "read"}
  BY DEF StudioInv, StudioTypes, Saved, Loaded
<1>2. Holds(p.id, p.revision, p.content)
  BY <1>1 DEF Sure
<1>3. p.id \in Documents /\ p.content \in Contents /\ p.revision \in Nat /\ p.revision # 0
  <2>1. p.id \in Documents /\ p.content \in Contents /\ p.revision \in Nat
    BY <1>1, <1>2 DEF Requests, Holds
  <2>2. p.revision \in 1 .. Len(kept[p.id])
    BY <1>2 DEF Holds, Latest
  <2>3. kept[p.id] \in Seq(Contents)
    BY <2>1 DEF StudioInv, StudioTypes
  <2> QED BY <2>1, <2>2, <2>3
<1>4. PICK q \in Requests : q = Listing(p) /\ q.at = "listing"
  <2>1. [p EXCEPT !.at = "listing"] \in Requests /\ [p EXCEPT !.at = "listing"].at = "listing"
    BY <1>1 DEF Requests
  <2>2. Plain("save", "listing") \in Requests /\ Plain("save", "listing").at = "listing"
    BY PlainTyped
  <2> QED BY <2>1, <2>2 DEF Listing
<1>5. pending' \in SUBSET (pending \cup {q})
  BY <1>4 DEF Saved, Loaded, Advance, Finish
<1>6. \A o \in pending' : Sure(o)'
  BY <1>1, <1>4, <1>5 DEF StudioInv, Sure, Holds, Latest
<1>7. /\ draft' = [id |-> p.id, revision |-> p.revision]
      /\ template' = [id |-> p.id, content |-> p.content]
      /\ documentState' = "saved" /\ due' = FALSE /\ slipped' = FALSE /\ astray' = FALSE
  <2>1. /\ draft' = [id |-> p.id, revision |-> p.revision]
        /\ template' = [id |-> p.id, content |-> p.content]
        /\ documentState' = "saved" /\ due' = HasUnsavedChanges(documentState')
        /\ slipped' = FALSE /\ astray' = FALSE
    BY <1>1 DEF Show, Rearm
  <2>2. HasUnsavedChanges("saved") = FALSE
    BY DEF HasUnsavedChanges
  <2> QED BY <2>1, <2>2
<1>8. StudioTypes'
  BY <1>1, <1>3, <1>4, <1>5, <1>7 DEF StudioInv, StudioTypes, Drafts, Contained, Clean
<1>9. Based'
  BY <1>1, <1>2, <1>3, <1>7 DEF Based, Holds, Latest
<1>10. Labelled' /\ Armed' /\ RecoveryIsCurrent'
  BY <1>1, <1>7, <1>9 DEF Labelled, Armed, RecoveryIsCurrent, HasUnsavedChanges, Clean
<1> QED BY <1>6, <1>8, <1>10 DEF StudioInv

(* A request moves on or ends, and only its own state changes. *)
LEMMA RequestsGoOn ==
  ASSUME StudioInv, NEW p \in pending, Listed(p) \/ PublishDraft(p) \/ ReadStored(p) \/ Ended(p)
  PROVE StudioInv'
<1>1. p \in Requests /\ Sure(p)
  BY DEF StudioInv, StudioTypes
<1>2. UNCHANGED <<kept, recovery, astray, document>>
  BY DEF Listed, PublishDraft, ReadStored, Ended
<1>3. ASSUME NEW q \in Requests, pending' = (pending \ {p}) \cup {q}, q.op = "publish",
             q.at \in {"publishing", "relisting"}, p.op = "publish" /\ p.at \in {"listing", "publishing"}
      PROVE StudioInv'
  <2>1. Sure(q)
    BY <1>3 DEF Sure
  <2>2. Late(q) => Publishing
    BY <1>3 DEF Late, Publishing
  <2> QED BY <1>2, <1>3, <2>1, <2>2, RequestsMove
<1>4. CASE pending' = pending \ {p}
  <2>1. Late(p) => Publishing
    BY DEF Publishing
  <2> QED BY <1>1, <1>2, <1>4, <2>1, RequestsMove
<1>5. CASE Listed(p)
  <2>1. CASE p.op = "publish"
    <3> DEFINE q == [p EXCEPT !.at = "publishing"]
    <3>1. q \in Requests /\ q.at = "publishing" /\ q.op = "publish"
      BY <1>1, <2>1 DEF Requests
    <3>2. pending' = (pending \ {p}) \cup {q} /\ p.at = "listing"
      BY <1>5, <2>1 DEF Listed, Advance
    <3> HIDE DEF q
    <3> QED BY <1>3, <2>1, <3>1, <3>2
  <2>2. CASE p.op # "publish"
    BY <1>4, <1>5, <2>2 DEF Listed, Finish
  <2> QED BY <2>1, <2>2
<1>6. CASE PublishDraft(p)
  <2>1. p.op = "publish"
    BY <1>1, <1>6 DEF PublishDraft, Sure
  <2>2. PICK q \in Requests : q = Plain("publish", "relisting") /\ q.at = "relisting" /\ q.op = "publish"
    BY PlainTyped
  <2> QED BY <1>3, <1>6, <2>1, <2>2 DEF PublishDraft, Advance
<1>7. CASE ReadStored(p)
  <2> DEFINE q == [p EXCEPT !.at = "read", !.revision = Latest(p.id), !.content = kept[p.id][Latest(p.id)]]
  <2>1. p.op = "load" /\ p.id \in Documents
    BY <1>1, <1>7 DEF ReadStored, Sure, AboutDrafts
  <2>2. kept[p.id] \in Seq(Contents)
    BY <2>1 DEF StudioInv, StudioTypes
  <2>3. Latest(p.id) \in Nat /\ Latest(p.id) \in 1 .. Len(kept[p.id]) /\ kept[p.id][Latest(p.id)] \in Contents
    <3>1. DOMAIN kept[p.id] = 1 .. Len(kept[p.id]) /\ Len(kept[p.id]) \in Nat
      BY <2>2
    <3>2. DOMAIN kept[p.id] # {}
      BY <1>7 DEF ReadStored, Revisions
    <3>3. Len(kept[p.id]) \in 1 .. Len(kept[p.id])
      BY <3>1, <3>2
    <3> QED BY <2>2, <3>1, <3>3 DEF Latest
  <2>4. /\ q.op = p.op /\ q.at = "read" /\ q.id = p.id
        /\ q.revision = Latest(p.id) /\ q.content = kept[p.id][Latest(p.id)]
    BY <1>1 DEF Requests
  <2>5. q \in Requests
    BY <1>1, <2>3 DEF Requests
  <2>6. pending' \in SUBSET (pending \cup {q})
    BY <1>7 DEF ReadStored, Advance
  <2> HIDE DEF q
  <2>7. Sure(q) /\ ~Late(q)
    BY <2>1, <2>3, <2>4 DEF Sure, Late, Holds, Latest
  <2> QED BY <1>2, <2>5, <2>6, <2>7, RequestsMove
<1>8. CASE Ended(p)
  BY <1>4, <1>8 DEF Ended, Finish
<1> QED BY <1>5, <1>6, <1>7, <1>8

(* A request ends and gives the document its label. *)
LEMMA LabelsGiven ==
  ASSUME StudioInv, NEW p \in pending, Published(p) \/ Validated(p)
  PROVE StudioInv'
<1>1. /\ pending' = pending \ {p} /\ p \in Requests /\ Sure(p)
      /\ UNCHANGED <<kept, draft, template, recovery, slipped, astray>>
  BY DEF StudioInv, StudioTypes, Published, Validated, Finish
<1>2. documentState \in Clean \cup {"unsaved", "dirty", "validated-dirty"} /\ due \in BOOLEAN
  BY DEF StudioInv, StudioTypes
<1>3. /\ documentState' \in Clean \cup {"unsaved", "dirty", "validated-dirty"}
      /\ documentState' \in Clean => documentState \in Clean \/ slipped
      /\ documentState' \notin Clean => documentState \notin Clean
      /\ (due' = due /\ documentState' = documentState) \/ due' = HasUnsavedChanges(documentState')
  <2>1. CASE Published(p)
    <3>1. Late(p)
      BY <1>1, <2>1 DEF Published, Sure, Late
    <3>2. documentState \notin Clean => slipped
      BY <3>1 DEF StudioInv, Labelled, Publishing
    <3>3. documentState' = "published"
      BY <2>1 DEF Published, Label
    <3>4. (due' = due /\ documentState' = documentState) \/ due' = HasUnsavedChanges(documentState')
      BY <2>1 DEF Published, Label, Rearm
    <3> QED BY <3>2, <3>3, <3>4 DEF Clean
  <2>2. CASE Validated(p)
    <3>1. documentState' \in {documentState, IF HasUnsavedChanges(documentState) THEN "validated-dirty" ELSE "validated"}
      BY <2>2 DEF Validated, Label
    <3>2. (due' = due /\ documentState' = documentState) \/ due' = HasUnsavedChanges(documentState')
      BY <2>2 DEF Validated, Label, Rearm
    <3>3. HasUnsavedChanges(documentState) <=> documentState \notin Clean
      BY <1>2, UnsavedIsNotClean
    <3>4. "validated" \in Clean /\ "validated-dirty" \notin Clean
      BY DEF Clean
    <3> QED BY <1>2, <3>1, <3>2, <3>3, <3>4
  <2> QED BY <2>1, <2>2
<1>4. StudioTypes'
  <2>1. due' \in BOOLEAN
    <3>1. HasUnsavedChanges(documentState') \in BOOLEAN
      BY DEF HasUnsavedChanges
    <3> QED BY <1>2, <1>3, <3>1
  <2> QED BY <1>1, <1>3, <2>1 DEF StudioInv, StudioTypes
<1>5. \A q \in pending' : Sure(q)'
  BY <1>1 DEF StudioInv, Sure, Holds, Latest
<1>6. Labelled'
  <2>1. Publishing' => Publishing
    BY <1>1 DEF Publishing, Late
  <2> QED BY <1>1, <1>3, <2>1 DEF StudioInv, Labelled, Based, Holds, Latest
<1>7. Armed'
  BY <1>3, UnsavedIsNotClean DEF StudioInv, Armed
<1>8. RecoveryIsCurrent'
  <2>1. HasUnsavedChanges(documentState') <=> documentState' \notin Clean
    BY <1>3, UnsavedIsNotClean
  <2>2. HasUnsavedChanges(documentState) <=> documentState \notin Clean
    BY <1>2, UnsavedIsNotClean
  <2> QED BY <1>1, <1>2, <1>3, <2>1, <2>2 DEF StudioInv, RecoveryIsCurrent
<1> QED BY <1>4, <1>5, <1>6, <1>7, <1>8 DEF StudioInv

(* What the user edits, and the timer's write. *)
LEMMA EditsCorrect ==
  ASSUME StudioInv, Edit \/ Rename \/ WriteRecovery
  PROVE StudioInv'
<1>1. UNCHANGED <<kept, draft, pending>>
  BY DEF Edit, Rename, Mutate, WriteRecovery
<1>2. \A p \in pending' : Sure(p)'
  BY <1>1 DEF StudioInv, Sure, Holds, Latest
<1>3. CASE WriteRecovery
  <2>1. /\ UNCHANGED <<template, documentState, slipped>> /\ recovery' = [draft |-> draft, template |-> template]
        /\ due /\ due' = FALSE /\ astray' = FALSE
    BY <1>3 DEF WriteRecovery
  <2>2. StudioTypes'
    BY <1>1, <2>1 DEF StudioInv, StudioTypes
  <2>3. Labelled' /\ Armed'
    BY <1>1, <2>1 DEF StudioInv, Labelled, Armed, Based, Holds, Latest, Publishing, Late
  <2>4. HasUnsavedChanges(documentState)
    BY <2>1, UnsavedIsNotClean DEF StudioInv, Armed, StudioTypes
  <2>5. RecoveryIsCurrent'
    BY <1>1, <2>1, <2>4 DEF RecoveryIsCurrent
  <2> QED BY <1>2, <2>2, <2>3, <2>5 DEF StudioInv
<1>4. ASSUME NEW next \in Contained, Mutate(next)
      PROVE StudioInv'
  <2>1. /\ template' = next /\ recovery' = recovery /\ astray' = astray
        /\ documentState' \in {"unsaved", "dirty"} /\ due' = HasUnsavedChanges(documentState')
        /\ slipped' = (slipped \/ Publishing)
    BY <1>4 DEF Mutate, Rearm
  <2>2. due'
    BY <2>1 DEF HasUnsavedChanges
  <2>3. StudioTypes'
    BY <1>1, <2>1, <2>2 DEF StudioInv, StudioTypes, Publishing, HasUnsavedChanges
  <2>4. Labelled' /\ Armed'
    BY <1>1, <2>1 DEF Labelled, Armed, Publishing, Late, Clean
  <2>5. RecoveryIsCurrent'
    BY <2>1, <2>2 DEF RecoveryIsCurrent, HasUnsavedChanges
  <2> QED BY <1>2, <2>3, <2>4, <2>5 DEF StudioInv
<1>5. template \in Contained
  BY DEF StudioInv, StudioTypes
<1>6. CASE Edit
  <2>1. \A c \in Contents : [template EXCEPT !.content = c] \in Contained
    BY <1>5 DEF Contained
  <2> QED BY <1>4, <1>6, <2>1 DEF Edit
<1>7. CASE Rename
  <2>1. \A id \in Documents : [template EXCEPT !.id = id] \in Contained
    BY <1>5 DEF Contained
  <2> QED BY <1>4, <1>7, <2>1 DEF Rename
<1> QED BY <1>3, <1>6, <1>7

(* A new template, the starter, and a studio that is mounted. *)
LEMMA BeginningsCorrect ==
  ASSUME StudioInv, StartNew \/ UseStarter \/ Restore \/ \E id \in Documents : OpenAt(id)
  PROVE StudioInv'
<1>1. ASSUME NEW content \in Contents, NEW state \in {"pristine", "unsaved"}, BeginTemplate(content, state)
      PROVE /\ draft' = NoDraft /\ draft' \in Drafts /\ template' \in Contained /\ template'.content = content
            /\ documentState' = state /\ due' = (state = "unsaved")
  BY <1>1, BlankExists DEF BeginTemplate, Fresh, Contained, Rearm, HasUnsavedChanges
<1>2. pending \in SUBSET Requests
  BY DEF StudioInv, StudioTypes
<1>3. ASSUME kept' = kept, NEW Q \in SUBSET Requests, pending' = Q, \A q \in Q : Sure(q)
      PROVE pending' \in SUBSET Requests /\ \A q \in pending' : Sure(q)'
  BY <1>3 DEF Sure, Holds, Latest
<1>4. ASSUME kept' = kept, slipped' = FALSE, astray' = FALSE, recovery' = NoRecovery, BeginTemplate(Blank, "pristine"),
             pending' \in SUBSET Requests, \A q \in pending' : Sure(q)'
      PROVE StudioInv'
  <2>1. /\ draft' = NoDraft /\ draft' \in Drafts /\ template' \in Contained /\ template'.content = Blank
        /\ documentState' = "pristine" /\ due' = FALSE
    BY <1>1, <1>4, BlankExists
  <2>2. StudioTypes'
    BY <1>4, <2>1 DEF StudioInv, StudioTypes, Clean
  <2>3. Labelled' /\ Armed' /\ RecoveryIsCurrent'
    BY <1>4, <2>1, BlankExists DEF Labelled, Armed, Based, RecoveryIsCurrent, Clean, HasUnsavedChanges
  <2> QED BY <1>4, <2>2, <2>3 DEF StudioInv
<1>5. CASE StartNew
  <2>1. pending' = pending /\ kept' = kept
    BY <1>5 DEF StartNew
  <2>2. \A q \in pending : Sure(q)
    BY DEF StudioInv
  <2>3. pending' \in SUBSET Requests /\ \A q \in pending' : Sure(q)'
    BY <1>2, <1>3, <2>1, <2>2
  <2> QED BY <1>4, <1>5, <2>1, <2>3 DEF StartNew
<1>6. CASE Restore
  <2>1. pending' = {} /\ kept' = kept /\ slipped' = FALSE /\ astray' = FALSE /\ recovery' = recovery
    BY <1>6 DEF Restore
  <2>2. pending' \in SUBSET Requests /\ (\A q \in pending' : Sure(q)') /\ ~Publishing'
    BY <2>1 DEF Publishing
  <2>3. CASE recovery = NoRecovery
    BY <1>4, <1>6, <2>1, <2>2, <2>3 DEF Restore
  <2>4. CASE recovery # NoRecovery
    <3>1. /\ template' = recovery.template /\ draft' = recovery.draft /\ documentState' = "dirty"
          /\ due' = HasUnsavedChanges(documentState')
      BY <1>6, <2>4 DEF Restore, Rearm
    <3>2. due'
      BY <3>1 DEF HasUnsavedChanges
    <3>3. StudioTypes'
      BY <2>1, <2>2, <2>4, <3>1, <3>2 DEF StudioInv, StudioTypes, HasUnsavedChanges
    <3>4. Labelled' /\ Armed' /\ RecoveryIsCurrent'
      BY <2>1, <2>2, <3>1, <3>2 DEF Labelled, Armed, RecoveryIsCurrent, Clean
    <3> QED BY <2>2, <3>3, <3>4 DEF StudioInv
  <2> QED BY <2>3, <2>4
<1>7. ASSUME NEW id \in Documents, OpenAt(id)
      PROVE StudioInv'
  <2>1. Request("load", id) \in Requests /\ Sure(Request("load", id))
    BY RequestsTyped DEF StudioInv
  <2>2. PICK q \in Requests : q = Request("load", id) /\ Sure(q)
    BY <2>1
  <2>3. pending' = {q} /\ kept' = kept /\ recovery' = recovery
        /\ slipped' = FALSE /\ astray' = (recovery # NoRecovery) /\ BeginTemplate(Blank, "pristine")
    BY <1>7, <2>2 DEF OpenAt
  <2>4. pending' \in SUBSET Requests /\ \A o \in pending' : Sure(o)'
    BY <1>3, <2>2, <2>3
  <2>5. /\ draft' = NoDraft /\ draft' \in Drafts /\ template' \in Contained /\ template'.content = Blank
        /\ documentState' = "pristine" /\ due' = FALSE
    BY <1>1, <2>3, BlankExists
  <2>6. StudioTypes'
    BY <2>3, <2>4, <2>5 DEF StudioInv, StudioTypes, Clean
  <2>7. Labelled' /\ Armed' /\ RecoveryIsCurrent'
    BY <2>3, <2>5, BlankExists DEF Labelled, Armed, Based, RecoveryIsCurrent, Clean, HasUnsavedChanges
  <2> QED BY <2>4, <2>6, <2>7 DEF StudioInv
<1>8. CASE UseStarter
  <2>1. pending' = pending /\ kept' = kept /\ recovery' = recovery /\ astray' = astray /\ slipped' = Publishing
        /\ BeginTemplate(Starter, "unsaved")
    BY <1>8 DEF UseStarter
  <2>2. \A q \in pending : Sure(q)
    BY DEF StudioInv
  <2>3. pending' \in SUBSET Requests /\ \A q \in pending' : Sure(q)'
    BY <1>2, <1>3, <2>1, <2>2
  <2>4. draft' \in Drafts /\ template' \in Contained /\ documentState' = "unsaved" /\ due' = TRUE
    BY <1>1, <2>1, BlankExists
  <2>5. StudioTypes'
    BY <2>1, <2>3, <2>4 DEF StudioInv, StudioTypes, Publishing
  <2>6. Labelled' /\ Armed' /\ RecoveryIsCurrent'
    BY <2>1, <2>4 DEF Labelled, Armed, RecoveryIsCurrent, Publishing, Late, Clean, HasUnsavedChanges
  <2> QED BY <2>3, <2>5, <2>6 DEF StudioInv
<1> QED BY <1>5, <1>6, <1>7, <1>8

(* An answer to a studio closed before clears the snapshot. *)
LEMMA AnswersElsewhere ==
  ASSUME StudioInv, AnswerElsewhere
  PROVE StudioInv'
<1>1. /\ recovery' = NoRecovery /\ astray' = (HasUnsavedChanges(documentState) /\ ~due)
      /\ UNCHANGED <<kept, pending, document>>
  BY DEF AnswerElsewhere
<1>2. StudioTypes'
  BY <1>1 DEF StudioInv, StudioTypes, document, HasUnsavedChanges
<1>3. \A p \in pending' : Sure(p)'
  BY <1>1 DEF StudioInv, Sure, Holds, Latest
<1>4. Labelled'
  BY <1>1 DEF StudioInv, Labelled, Based, Holds, Latest, Publishing, Late, document
<1>5. Armed' /\ RecoveryIsCurrent'
  BY <1>1 DEF StudioInv, Armed, RecoveryIsCurrent, document
<1> QED BY <1>2, <1>3, <1>4, <1>5 DEF StudioInv

LEMMA AgentsCorrect ==
  ASSUME StudioInv, NEW id \in Documents, NEW content \in Contents, AgentPuts(id, content)
  PROVE StudioInv'
<1>1. /\ kept' = [kept EXCEPT ![id] = Append(@, content)]
      /\ pending' = pending /\ UNCHANGED <<recovery, astray, document>>
  BY DEF AgentPuts
<1>2. /\ kept' \in [Documents -> Seq(Contents)]
      /\ \A d \in Documents : \A r, c : Holds(d, r, c) => Holds(d, r, c)'
      /\ \A d \in Documents : Latest(d) \in Nat /\ Latest(d)' \in Nat /\ Latest(d) <= Latest(d)'
  BY <1>1, DraftsGrow DEF StudioInv
<1>3. \A d, n, c : Holds(d, n, c) => Holds(d, n, c)'
  BY <1>2 DEF Holds
<1>4. StudioTypes'
  BY <1>1, <1>2 DEF StudioInv, StudioTypes, document
<1>5. ASSUME NEW p \in pending
      PROVE Sure(p)'
  <2>1. Sure(p)
    BY DEF StudioInv
  <2> QED BY <1>3, <2>1 DEF Sure
<1>6. Labelled'
  <2>1. Based => Based'
    BY <1>1, <1>3 DEF Based, document
  <2>2. Publishing' => Publishing
    BY <1>1 DEF Publishing, Late
  <2> QED BY <1>1, <2>1, <2>2 DEF StudioInv, Labelled, document
<1>7. Armed' /\ RecoveryIsCurrent'
  BY <1>1 DEF StudioInv, Armed, RecoveryIsCurrent, document
<1> QED BY <1>1, <1>4, <1>5, <1>6, <1>7 DEF StudioInv

(* Whatever overlaps in the studio: a label without "unsaved" is true unless the user
   edited beside a publication, and the browser's snapshot is what is shown once its timer
   has run, and gone when nothing is unsaved, but for the exceptions of RecoveryIsCurrent. *)
THEOREM StudioCorrect == StudioSpec => []StudioInv
<1>1. StudioInit => StudioInv
  <2> SUFFICES ASSUME StudioInit
               PROVE StudioInv
    OBVIOUS
  <2>1. StudioTypes
    <3>1. kept \in [Documents -> Seq(Contents)]
      BY DEF StudioInit
    <3>2. template \in Contained
      BY BlankExists DEF StudioInit, Contained
    <3> QED BY <3>1, <3>2, BlankExists DEF StudioInit, StudioTypes, Clean
  <2>2. Labelled /\ Armed /\ RecoveryIsCurrent
    BY BlankExists DEF StudioInit, Labelled, Armed, RecoveryIsCurrent, Based, Clean, HasUnsavedChanges
  <2> QED BY <2>1, <2>2 DEF StudioInit, StudioInv
<1>2. StudioInv /\ [StudioNext]_studioVars => StudioInv'
  <2> SUFFICES ASSUME StudioInv, [StudioNext]_studioVars
               PROVE StudioInv'
    OBVIOUS
  <2>1. CASE Save \/ Publish \/ Validate \/ SyncCatalog \/ \E id \in Documents : LoadDraft(id)
    BY <2>1, ClicksCorrect
  <2>2. CASE Answer
    BY <2>2, StoreDraftCorrect, RepliesShown, RequestsGoOn, LabelsGiven DEF Answer
  <2>3. CASE StartNew \/ UseStarter \/ Restore \/ \E id \in Documents : OpenAt(id)
    BY <2>3, BeginningsCorrect
  <2>4. CASE Edit \/ Rename \/ WriteRecovery
    BY <2>4, EditsCorrect
  <2>5. CASE \E id \in Documents, c \in Contents : AgentPuts(id, c)
    BY <2>5, AgentsCorrect
  <2>6. CASE AnswerElsewhere
    BY <2>6, AnswersElsewhere
  <2>7. CASE UNCHANGED studioVars
    BY <2>7 DEF studioVars, document, StudioInv, StudioTypes, Sure, Holds, Latest, Labelled, Armed, Based,
                Publishing, Late, RecoveryIsCurrent
  <2> QED BY <2>1, <2>2, <2>3, <2>4, <2>5, <2>6, <2>7 DEF StudioNext
<1> QED BY <1>1, <1>2, PTL DEF StudioSpec

(* The label of the studio tells whether what it shows is stored (CleanMeansStored). *)
THEOREM LabelsAreTrue == StudioSpec => []CleanMeansStored
<1>1. StudioInv => CleanMeansStored
  BY DEF StudioInv, Labelled, Based, Holds, Clean, CleanMeansStored
<1> QED BY <1>1, StudioCorrect, PTL

(* A reload restores what is shown once the timer has run, and nothing where nothing is
   unsaved, but for a publication overtaken by edits, a studio closed before and a
   snapshot passed over for a target (RecoveryIsCurrent). *)
THEOREM RecoveriesAreCurrent == StudioSpec => []RecoveryIsCurrent
<1>1. StudioInv => RecoveryIsCurrent
  BY DEF StudioInv
<1> QED BY <1>1, StudioCorrect, PTL
-----------------------------------------------------------------------------
(* The journal's events from after on, n of them: a sequence. *)
Stretch(after, n) == [i \in 1 .. n |-> after + i]
LEMMA StretchIsSeq ==
  ASSUME NEW after \in Nat, NEW n \in Nat
  PROVE /\ Stretch(after, n) \in Seq(Nat) /\ Len(Stretch(after, n)) = n
        /\ \A i \in 1 .. n : Stretch(after, n)[i] = after + i
<1>1. Stretch(after, n) \in [1 .. n -> Nat]
  BY DEF Stretch
<1>2. Stretch(after, n) \in Seq(Nat)
  BY <1>1, SeqDef
<1>3. Len(Stretch(after, n)) = n
  BY <1>1, <1>2, LenProperties
<1> QED BY <1>2, <1>3 DEF Stretch

LEMMA StretchesJoin ==
  ASSUME NEW m \in Nat, NEW n \in Nat
  PROVE Stretch(0, m) \o Stretch(m, n) = Stretch(0, m + n)
<1>0. 0 \in Nat /\ m + n \in Nat
  OBVIOUS
<1>1. /\ Stretch(0, m) \in Seq(Nat) /\ Stretch(m, n) \in Seq(Nat) /\ Stretch(0, m + n) \in Seq(Nat)
      /\ Len(Stretch(0, m)) = m /\ Len(Stretch(m, n)) = n /\ Len(Stretch(0, m + n)) = m + n
  BY <1>0, StretchIsSeq
<1>2. /\ \A i \in 1 .. m : Stretch(0, m)[i] = i
      /\ \A i \in 1 .. n : Stretch(m, n)[i] = m + i
      /\ \A i \in 1 .. m + n : Stretch(0, m + n)[i] = i
  BY <1>0 DEF Stretch
<1> DEFINE joined == Stretch(0, m) \o Stretch(m, n)
<1>3. /\ joined \in Seq(Nat) /\ Len(joined) = m + n
      /\ \A i \in 1 .. m + n : joined[i] = IF i <= m THEN Stretch(0, m)[i] ELSE Stretch(m, n)[i - m]
  <2> DEFINE a == Stretch(0, m)
             b == Stretch(m, n)
  <2>1. a \in Seq(Nat) /\ b \in Seq(Nat) /\ Len(a) = m /\ Len(b) = n
    BY <1>1
  <2> HIDE DEF a, b
  <2>2. /\ a \o b \in Seq(Nat) /\ Len(a \o b) = Len(a) + Len(b)
        /\ \A i \in 1 .. Len(a) + Len(b) : (a \o b)[i] = IF i <= Len(a) THEN a[i] ELSE b[i - Len(a)]
    BY <2>1, ConcatProperties, Zenon
  <2>3. /\ a \o b \in Seq(Nat) /\ Len(a \o b) = m + n
        /\ \A i \in 1 .. m + n : (a \o b)[i] = IF i <= m THEN a[i] ELSE b[i - m]
    BY <2>1, <2>2, Zenon
  <2> QED BY <2>3 DEF a, b
<1>4. \A i \in 1 .. m + n : joined[i] = Stretch(0, m + n)[i]
  <2> SUFFICES ASSUME NEW i \in 1 .. m + n
               PROVE joined[i] = Stretch(0, m + n)[i]
    OBVIOUS
  <2>1. CASE i <= m
    <3>1. i \in 1 .. m
      BY <2>1
    <3> QED BY <1>2, <1>3, <2>1, <3>1
  <2>2. CASE ~(i <= m)
    <3>1. i - m \in 1 .. n /\ m + (i - m) = i
      BY <2>2
    <3> QED BY <1>2, <1>3, <2>2, <3>1
  <2> QED BY <2>1, <2>2
<1> HIDE DEF joined
<1>5. joined = Stretch(0, m + n)
  BY <1>1, <1>3, <1>4, SeqEqual
<1> QED BY <1>5 DEF joined

(* What is shown is the beginning of the journal, as far as the checkpoint beside it
   unless there is a next page. *)
Begins(s) == s \in Seq(Nat) /\ s = Stretch(0, Len(s)) /\ Len(s) <= journal
TraceOK(t) == Begins(t.events) /\ t.checkpointSeq \in Nat /\ (~t.more => Len(t.events) >= t.checkpointSeq)

Pages == [before : Seq(Nat), head : Nat, page : Seq(Nat), more : BOOLEAN, at : {"asked", "head", "page"}]
(* page goes on from before, as far as head unless there is more. *)
Continues(before, page, head, more) ==
  /\ page = Stretch(Len(before), Len(page)) /\ Len(before) + Len(page) <= journal
  /\ ~more => Len(before) + Len(page) >= head
PageOK(q) ==
  /\ Begins(q.before)
  /\ q.at # "asked" => q.head <= journal
  /\ q.at = "page" => Continues(q.before, q.page, q.head, q.more)

Traces == [events : Seq(Nat), checkpointSeq : Nat, more : BOOLEAN]
TracesOK ==
  /\ journal \in Nat
  /\ shown \in [Viewers -> Traces] /\ \A v \in Viewers : TraceOK(shown[v])
  /\ asked \in [Viewers -> SUBSET Pages] /\ \A v \in Viewers : \A q \in asked[v] : PageOK(q)

(* While the journal grows, everything stays the beginning it was. *)
LEMMA TracesGrow ==
  ASSUME TracesOK, journal' \in Nat, journal <= journal', UNCHANGED <<shown, asked>>
  PROVE TracesOK'
<1>1. \A s : Begins(s) => Begins(s)'
  BY DEF TracesOK, Begins
<1>2. \A v \in Viewers : TraceOK(shown[v])'
  BY <1>1 DEF TracesOK, TraceOK
<1>3. ASSUME NEW v \in Viewers, NEW q \in asked[v]
      PROVE PageOK(q)'
  <2>1. q \in Pages /\ PageOK(q) /\ journal \in Nat
    BY <1>3 DEF TracesOK
  <2>2. \A head \in Nat : head <= journal => head <= journal'
    BY <2>1
  <2>3. ASSUME NEW before \in Seq(Nat), NEW page \in Seq(Nat), NEW head, NEW more, Continues(before, page, head, more)
        PROVE Continues(before, page, head, more)'
    BY <2>1, <2>3 DEF Continues, Stretch
  <2>4. q.head \in Nat /\ q.before \in Seq(Nat) /\ q.page \in Seq(Nat)
    BY <2>1 DEF Pages
  <2> QED BY <1>1, <2>1, <2>2, <2>3, <2>4, Zenon DEF PageOK
<1> QED BY <1>2, <1>3 DEF TracesOK

(* A request moves on or ends. *)
LEMMA PagesMove ==
  ASSUME TracesOK, journal' = journal, shown' = shown, NEW v \in Viewers, NEW q \in Pages, PageOK(q),
         NEW S \in SUBSET (asked[v] \cup {q}), asked' = [asked EXCEPT ![v] = S]
  PROVE TracesOK'
<1>1. asked' \in [Viewers -> SUBSET Pages]
  BY DEF TracesOK
<1>2. \A s : Begins(s) => Begins(s)'
  BY DEF Begins
<1>3. \A w \in Viewers : TraceOK(shown[w])'
  BY <1>2 DEF TracesOK, TraceOK
<1>4. ASSUME NEW w \in Viewers, NEW o \in asked'[w]
      PROVE PageOK(o)'
  <2>1. asked'[w] = IF w = v THEN S ELSE asked[w]
    BY DEF TracesOK
  <2>2. PageOK(o)
    BY <1>4, <2>1 DEF TracesOK
  <2> QED BY <2>2 DEF PageOK, Begins, Continues, Stretch
<1> QED BY <1>1, <1>3, <1>4 DEF TracesOK

(* The beginning of a stretch is a stretch. *)
LEMMA StretchCut ==
  ASSUME NEW after \in Nat, NEW m \in Nat, NEW k \in Nat, k <= m
  PROVE SubSeq(Stretch(after, m), 1, k) = Stretch(after, k)
<1> DEFINE s == Stretch(after, m)
           t == Stretch(after, k)
           c == SubSeq(s, 1, k)
<1>1. /\ s \in Seq(Nat) /\ t \in Seq(Nat) /\ Len(t) = k
      /\ (\A i \in 1 .. m : s[i] = after + i) /\ \A i \in 1 .. k : t[i] = after + i
  BY StretchIsSeq
<1> HIDE DEF s, t
<1>2. \A i \in 1 .. k : s[i] \in Nat /\ i \in 1 .. m
  BY <1>1
<1>3. /\ c \in Seq(Nat) /\ Len(c) = IF 1 <= k THEN k - 1 + 1 ELSE 0
      /\ \A i \in 1 .. k - 1 + 1 : c[i] = s[1 + i - 1]
  BY <1>2, SubSeqProperties
<1> HIDE DEF c
<1>4. Len(c) = k /\ \A i \in 1 .. k : c[i] = s[i]
  BY <1>3
<1>5. \A i \in 1 .. k : c[i] = t[i]
  BY <1>1, <1>2, <1>4
<1>6. c = t
  BY <1>1, <1>3, <1>4, <1>5, SeqEqual
<1> QED BY <1>6 DEF c, s, t

(* readEvents gives what follows, and knows whether there is more. *)
LEMMA PageFollows ==
  ASSUME NEW before \in Seq(Nat), Len(before) <= journal, journal \in Nat, NEW head \in Nat, head <= journal,
         NEW p, p = Page(Len(before), PageLimit + 1),
         NEW c, c = SubSeq(p, 1, IF Len(p) < PageLimit THEN Len(p) ELSE PageLimit)
  PROVE c \in Seq(Nat) /\ Continues(before, c, head, Len(p) > PageLimit) /\ (Len(p) > PageLimit) \in BOOLEAN
<1> DEFINE after == Len(before)
           until == IF after + (PageLimit + 1) < journal THEN after + (PageLimit + 1) ELSE journal
           m == until - after
           k == IF m < PageLimit THEN m ELSE PageLimit
<1>1. after \in Nat /\ PageLimit \in Nat
  BY WatchAssumption DEF WatchAssumption
<1>2. p = Stretch(after, m)
  BY DEF Page, Stretch
<1> HIDE DEF after
<1>3. /\ m \in Nat /\ k \in Nat /\ k <= m /\ after + k <= journal
      /\ ~(m > PageLimit) => after + k = journal
  <2>1. after \in Nat /\ PageLimit \in Nat /\ after <= journal /\ journal \in Nat
    BY <1>1 DEF after
  <2>2. until \in Nat /\ after <= until /\ until <= journal /\ (until = journal \/ until = after + (PageLimit + 1))
    BY <2>1
  <2> HIDE DEF until
  <2>3. m \in Nat /\ after + m <= journal /\ (~(m > PageLimit) => after + m = journal)
    BY <2>1, <2>2
  <2> HIDE DEF m
  <2> QED BY <2>1, <2>3
<1> HIDE DEF m
<1>4. Len(p) = m
  <2>1. after \in Nat /\ m \in Nat
    BY <1>1, <1>3
  <2>2. Len(Stretch(after, m)) = m
    BY <2>1, StretchIsSeq, Zenon
  <2> QED BY <1>2, <2>2, Zenon
<1>5. c = Stretch(after, k)
  <2>1. c = SubSeq(Stretch(after, m), 1, k)
    BY <1>2, <1>4
  <2>2. SubSeq(Stretch(after, m), 1, k) = Stretch(after, k)
    <3>1. after \in Nat /\ m \in Nat /\ k \in Nat /\ k <= m
      BY <1>1, <1>3
    <3> QED BY <3>1, StretchCut
  <2> QED BY <2>1, <2>2, Zenon
<1> HIDE DEF k
<1>6. c \in Seq(Nat) /\ Len(c) = k
  <2>1. after \in Nat /\ k \in Nat
    BY <1>1, <1>3
  <2>2. Stretch(after, k) \in Seq(Nat) /\ Len(Stretch(after, k)) = k
    BY <2>1, StretchIsSeq, Zenon
  <2> QED BY <1>5, <2>2
<1>7. Continues(before, c, head, Len(p) > PageLimit)
  <2>1. ~(Len(p) > PageLimit) => after + k >= head
    BY <1>3, <1>4
  <2>2. after + k <= journal
    BY <1>3
  <2> QED BY <1>5, <1>6, <2>1, <2>2 DEF Continues, after
<1> QED BY <1>6, <1>7

LEMMA TraceGoesOn ==
  ASSUME NEW before, Begins(before), NEW page \in Seq(Nat), NEW head, NEW more, Continues(before, page, head, more)
  PROVE /\ Begins(before \o page)
        /\ ~more => Len(before \o page) >= head
<1>1. before \in Seq(Nat) /\ Len(before) \in Nat /\ Len(page) \in Nat /\ before = Stretch(0, Len(before))
      /\ page = Stretch(Len(before), Len(page))
  BY DEF Begins, Continues
<1>2. before \o page \in Seq(Nat) /\ Len(before \o page) = Len(before) + Len(page)
  BY <1>1, ConcatProperties
<1>3. before \o page = Stretch(0, Len(before) + Len(page))
  BY <1>1, StretchesJoin
<1> QED BY <1>2, <1>3 DEF Begins, Continues

LEMMA TracesCorrect ==
  ASSUME TracesOK, NEW v \in Viewers,
         \/ Refresh(v) \/ LoadMore(v)
         \/ \E q \in asked[v] : ReadCheckpoint(v, q) \/ ReadPage(v, q) \/ ShowTrace(v, q)
  PROVE TracesOK'
<1>1. journal \in Nat /\ TraceOK(shown[v]) /\ asked[v] \in SUBSET Pages /\ shown[v] \in Traces
  BY DEF TracesOK
<1>2. ASSUME NEW before, Begins(before), Ask(v, before)
      PROVE TracesOK'
  <2> DEFINE q == [before |-> before, head |-> 0, page |-> <<>>, more |-> FALSE, at |-> "asked"]
  <2>1. q \in Pages /\ PageOK(q)
    <3>1. before \in Seq(Nat) /\ <<>> \in Seq(Nat)
      BY <1>2 DEF Begins
    <3> QED BY <1>2, <3>1 DEF Pages, PageOK
  <2>2. asked' = [asked EXCEPT ![v] = @ \cup {q}] /\ journal' = journal /\ shown' = shown
    BY <1>2 DEF Ask
  <2> HIDE DEF q
  <2> QED BY <2>1, <2>2, PagesMove
<1>3. CASE Refresh(v)
  <2>1. Begins(<<>>)
    <3>1. Stretch(0, 0) \in Seq(Nat) /\ Len(Stretch(0, 0)) = 0
      BY StretchIsSeq
    <3>2. Stretch(0, 0) = <<>>
      BY <3>1
    <3> QED BY <1>1, <3>1, <3>2 DEF Begins
  <2> QED BY <1>2, <1>3, <2>1 DEF Refresh
<1>4. CASE LoadMore(v)
  BY <1>1, <1>2, <1>4 DEF LoadMore, TraceOK
<1>5. ASSUME NEW q \in asked[v], ReadCheckpoint(v, q) \/ ReadPage(v, q) \/ ShowTrace(v, q)
      PROVE TracesOK'
  <2>1. q \in Pages /\ PageOK(q)
    BY <1>1 DEF TracesOK
  <2>2. q.before \in Seq(Nat) /\ q.page \in Seq(Nat) /\ q.head \in Nat /\ q.more \in BOOLEAN
        /\ Begins(q.before)
    BY <2>1 DEF Pages, PageOK
  <2>3. ASSUME NEW r \in Pages, PageOK(r), Proceed(v, q, r), journal' = journal, shown' = shown
        PROVE TracesOK'
    <3>1. asked' = [asked EXCEPT ![v] = (asked[v] \ {q}) \cup {r}]
      BY <2>3 DEF Proceed
    <3> QED BY <2>3, <3>1, PagesMove
  <2>4. CASE ReadCheckpoint(v, q)
    <3> DEFINE r == [q EXCEPT !.head = journal, !.at = "head"]
    <3>1. r \in Pages
      BY <1>1, <2>1 DEF Pages
    <3>2. r.before = q.before /\ r.head = journal /\ r.at = "head"
      BY <2>1 DEF Pages
    <3>3. Proceed(v, q, r) /\ journal' = journal /\ shown' = shown
      BY <2>4 DEF ReadCheckpoint
    <3> HIDE DEF r
    <3>4. PageOK(r)
      BY <1>1, <2>2, <3>2 DEF PageOK
    <3> QED BY <2>3, <3>1, <3>3, <3>4
  <2>5. CASE ReadPage(v, q)
    <3> DEFINE p == Page(Len(q.before), PageLimit + 1)
               c == SubSeq(p, 1, IF Len(p) < PageLimit THEN Len(p) ELSE PageLimit)
               more == Len(p) > PageLimit
               r == [q EXCEPT !.page = c, !.more = more, !.at = "page"]
    <3>1. q.head <= journal /\ Len(q.before) <= journal
      BY <2>1, <2>2, <2>5 DEF ReadPage, PageOK, Begins
    <3>2. c \in Seq(Nat) /\ Continues(q.before, c, q.head, more) /\ more \in BOOLEAN
      <4> HIDE DEF p, c
      <4>1. p = Page(Len(q.before), PageLimit + 1) /\ c = SubSeq(p, 1, IF Len(p) < PageLimit THEN Len(p) ELSE PageLimit)
        BY DEF p, c
      <4> QED BY <1>1, <2>2, <3>1, <4>1, PageFollows
    <3>3. Proceed(v, q, r) /\ journal' = journal /\ shown' = shown
      BY <2>5 DEF ReadPage
    <3> HIDE DEF p, c, more
    <3>4. r \in Pages
      BY <2>1, <3>2 DEF Pages
    <3>5. /\ r.before = q.before /\ r.head = q.head /\ r.at = "page"
          /\ r.page = c /\ r.more = more
      BY <2>1 DEF Pages
    <3> HIDE DEF r
    <3>6. PageOK(r)
      BY <2>2, <3>1, <3>2, <3>5 DEF PageOK
    <3> QED BY <2>3, <3>3, <3>4, <3>6
  <2>6. CASE ShowTrace(v, q)
    <3> DEFINE t == [events |-> q.before \o q.page, checkpointSeq |-> q.head, more |-> q.more]
    <3>1. Continues(q.before, q.page, q.head, q.more)
      BY <2>1, <2>6 DEF ShowTrace, PageOK
    <3>2. Begins(q.before \o q.page) /\ (~q.more => Len(q.before \o q.page) >= q.head)
      BY <2>2, <3>1, TraceGoesOn
    <3>3. t \in Traces /\ TraceOK(t)
      BY <2>2, <3>2 DEF Traces, TraceOK, Begins
    <3>4. shown' = [shown EXCEPT ![v] = t] /\ asked' = [asked EXCEPT ![v] = @ \ {q}] /\ journal' = journal
      BY <2>6 DEF ShowTrace
    <3> HIDE DEF t
    <3>5. asked' \in [Viewers -> SUBSET Pages] /\ \A w \in Viewers : asked'[w] \in SUBSET asked[w]
      BY <3>4 DEF TracesOK
    <3>6. shown' \in [Viewers -> Traces] /\ \A w \in Viewers : TraceOK(shown'[w])
      BY <3>3, <3>4 DEF TracesOK
    <3>7. \A w \in Viewers : TraceOK(shown[w])'
      BY <3>4, <3>6 DEF TraceOK, Begins, Stretch
    <3>8. \A w \in Viewers : \A o \in asked'[w] : PageOK(o)'
      BY <3>4, <3>5 DEF TracesOK, PageOK, Begins, Continues, Stretch
    <3> QED BY <1>1, <3>4, <3>5, <3>6, <3>7, <3>8 DEF TracesOK
  <2> QED BY <1>5, <2>4, <2>5, <2>6
<1> QED BY <1>3, <1>4, <1>5
-----------------------------------------------------------------------------
(* Streams: numbers that rise up to j. *)
Rising(s, j) == s \in Seq(Nat) /\ Increasing(s) /\ \A i \in 1 .. Len(s) : s[i] <= j

LEMMA RisingAppend ==
  ASSUME NEW j \in Nat, NEW s, Rising(s, j)
  PROVE Rising(Append(s, j + 1), j + 1)
<1> DEFINE t == Append(s, j + 1)
<1>1. s \in Seq(Nat) /\ Len(s) \in Nat /\ DOMAIN s = 1 .. Len(s) /\ j + 1 \in Nat
  BY DEF Rising
<1>2. /\ t \in Seq(Nat) /\ Len(t) = Len(s) + 1 /\ DOMAIN t = 1 .. Len(s) + 1
      /\ (\A i \in 1 .. Len(s) : t[i] = s[i]) /\ t[Len(s) + 1] = j + 1
  BY <1>1, AppendProperties, LenProperties
<1> HIDE DEF t
<1>3. \A i \in 1 .. Len(s) : s[i] \in Nat /\ s[i] <= j
  BY <1>1 DEF Rising
<1>4. \A i \in DOMAIN t : t[i] <= j + 1
  <2>1. \A i \in 1 .. Len(s) : t[i] \in Nat /\ t[i] <= j
    BY <1>2, <1>3
  <2>2. \A i \in DOMAIN t : i \in 1 .. Len(s) \/ i = Len(s) + 1
    BY <1>1, <1>2
  <2> QED BY <1>2, <2>1, <2>2
<1>5. ASSUME NEW i \in DOMAIN t, NEW k \in DOMAIN t, i < k
      PROVE t[i] < t[k]
  <2>1. i \in 1 .. Len(s)
    BY <1>1, <1>2, <1>5
  <2>2. CASE k \in 1 .. Len(s)
    BY <1>1, <1>2, <1>5, <2>1, <2>2 DEF Rising, Increasing
  <2>3. CASE k = Len(s) + 1
    BY <1>2, <1>3, <2>1, <2>3
  <2> QED BY <1>1, <1>2, <2>2, <2>3
<1>6. Rising(t, j + 1)
  BY <1>1, <1>2, <1>4, <1>5 DEF Rising, Increasing
<1> QED BY <1>6 DEF t

(* A stream that loses one of its events rises still. *)
LEMMA RisingTail ==
  ASSUME NEW j, NEW got \in Seq(Nat), NEW values \in Seq(Nat), values # <<>>, Rising(got \o values, j)
  PROVE Rising(got \o Tail(values), j)
<1> DEFINE s == got \o values
           t == got \o Tail(values)
           n == Len(got)
           m == Len(values)
<1>1. /\ n \in Nat /\ m \in Nat /\ Tail(values) \in Seq(Nat) /\ Len(Tail(values)) = m - 1 /\ m >= 1
      /\ \A i \in 1 .. m - 1 : Tail(values)[i] = values[i + 1]
  BY HeadTailProperties, EmptySeq
<1> HIDE DEF n, m
<1>2. /\ s \in Seq(Nat) /\ Len(s) = n + m
      /\ \A i \in 1 .. n + m : s[i] = IF i <= n THEN got[i] ELSE values[i - n]
  BY ConcatProperties DEF n, m
<1>3. /\ t \in Seq(Nat) /\ Len(t) = n + (m - 1)
      /\ \A i \in 1 .. n + (m - 1) : t[i] = IF i <= n THEN got[i] ELSE Tail(values)[i - n]
  <2>1. /\ t \in Seq(Nat) /\ Len(t) = Len(got) + Len(Tail(values))
        /\ \A i \in 1 .. Len(got) + Len(Tail(values)) : t[i] = IF i <= Len(got) THEN got[i] ELSE Tail(values)[i - Len(got)]
    BY <1>1, ConcatProperties
  <2> QED BY <1>1, <2>1 DEF n
<1> HIDE DEF s, t
<1>4. DOMAIN s = 1 .. n + m /\ DOMAIN t = 1 .. n + (m - 1)
  BY <1>2, <1>3, LenProperties
<1> DEFINE at(i) == IF i <= n THEN i ELSE i + 1
<1>5. \A i \in 1 .. n + (m - 1) : at(i) \in 1 .. n + m
  BY <1>1
<1>6. \A i \in 1 .. n + (m - 1) : t[i] = s[at(i)]
  <2> SUFFICES ASSUME NEW i \in 1 .. n + (m - 1)
               PROVE t[i] = s[at(i)]
    OBVIOUS
  <2>1. CASE i <= n
    <3>1. i \in 1 .. n + m /\ at(i) = i
      BY <1>1, <2>1
    <3>2. t[i] = got[i] /\ s[i] = got[i]
      BY <1>2, <1>3, <2>1, <3>1
    <3> QED BY <3>1, <3>2
  <2>2. CASE ~(i <= n)
    <3>1. i - n \in 1 .. m - 1 /\ i + 1 \in 1 .. n + m /\ (i + 1) - n = (i - n) + 1 /\ ~(i + 1 <= n)
      BY <1>1, <2>2
    <3>2. t[i] = Tail(values)[i - n] /\ s[i + 1] = values[(i - n) + 1]
      <4>1. t[i] = Tail(values)[i - n]
        BY <1>3, <2>2
      <4>2. s[i + 1] = values[(i + 1) - n]
        BY <1>2, <3>1
      <4> QED BY <3>1, <4>1, <4>2
    <3>3. \A k \in 1 .. m - 1 : Tail(values)[k] = values[k + 1]
      BY <1>1
    <3>4. Tail(values)[i - n] = values[(i - n) + 1] /\ at(i) = i + 1
      <4> DEFINE k == i - n
      <4>1. k \in 1 .. m - 1
        BY <3>1
      <4> HIDE DEF k
      <4>2. Tail(values)[k] = values[k + 1]
        BY <3>3, <4>1
      <4> QED BY <2>2, <4>2 DEF k
    <3> HIDE DEF at
    <3> QED BY <3>2, <3>4
  <2> QED BY <2>1, <2>2
<1>7. \A i, k \in 1 .. n + (m - 1) : i < k => at(i) < at(k)
  BY <1>1
<1>8. Increasing(s) /\ \A i \in 1 .. n + m : s[i] <= j
  BY <1>2 DEF Rising, s
<1> HIDE DEF at
<1>9. \A i \in 1 .. n + (m - 1) : t[i] <= j
  BY <1>5, <1>6, <1>8
<1>10. Increasing(t)
  BY <1>4, <1>5, <1>6, <1>7, <1>8 DEF Increasing
<1>11. Rising(t, j)
  BY <1>3, <1>9, <1>10 DEF Rising
<1> QED BY <1>11 DEF t

(* values ends published. *)
EndOf(values, published) ==
  /\ Len(values) <= Len(published)
  /\ \A i \in 1 .. Len(values) : values[i] = published[Len(published) - Len(values) + i]

LEMMA EndAppend ==
  ASSUME NEW v \in Seq(Nat), NEW p \in Seq(Nat), EndOf(v, p), NEW x \in Nat
  PROVE EndOf(Append(v, x), Append(p, x))
<1> DEFINE w == Append(v, x)
           r == Append(p, x)
<1>1. Len(v) \in Nat /\ Len(p) \in Nat /\ Len(v) <= Len(p)
  BY DEF EndOf
<1>2. /\ Len(w) = Len(v) + 1 /\ (\A i \in 1 .. Len(v) : w[i] = v[i]) /\ w[Len(v) + 1] = x
      /\ Len(r) = Len(p) + 1 /\ (\A i \in 1 .. Len(p) : r[i] = p[i]) /\ r[Len(p) + 1] = x
  BY AppendProperties
<1> HIDE DEF w, r
<1>3. ASSUME NEW i \in 1 .. Len(w)
      PROVE w[i] = r[Len(r) - Len(w) + i]
  <2>1. Len(r) - Len(w) + i = Len(p) - Len(v) + i
    BY <1>1, <1>2
  <2>2. CASE i = Len(v) + 1
    <3>1. Len(p) - Len(v) + i = Len(p) + 1
      BY <1>1, <2>2
    <3> QED BY <1>2, <2>1, <2>2, <3>1
  <2>3. CASE i # Len(v) + 1
    <3>1. i \in 1 .. Len(v) /\ Len(p) - Len(v) + i \in 1 .. Len(p)
      BY <1>1, <1>2, <2>3
    <3> QED BY <1>2, <2>1, <3>1 DEF EndOf
  <2> QED BY <2>2, <2>3
<1>4. EndOf(w, r)
  BY <1>1, <1>2, <1>3 DEF EndOf
<1> QED BY <1>4 DEF w, r

LEMMA EndTail ==
  ASSUME NEW v \in Seq(Nat), NEW p \in Seq(Nat), EndOf(v, p), v # <<>>
  PROVE EndOf(Tail(v), p)
<1> DEFINE w == Tail(v)
<1>1. Len(v) \in Nat /\ Len(p) \in Nat /\ Len(v) <= Len(p) /\ Len(v) >= 1
  BY EmptySeq DEF EndOf
<1>2. Len(w) = Len(v) - 1 /\ \A i \in 1 .. Len(v) - 1 : w[i] = v[i + 1]
  BY HeadTailProperties
<1> HIDE DEF w
<1>3. ASSUME NEW i \in 1 .. Len(w)
      PROVE w[i] = p[Len(p) - Len(w) + i]
  <2>1. i + 1 \in 1 .. Len(v) /\ Len(p) - Len(w) + i = Len(p) - Len(v) + (i + 1) /\ w[i] = v[i + 1]
    BY <1>1, <1>2
  <2> QED BY <2>1 DEF EndOf
<1>4. EndOf(w, p)
  BY <1>1, <1>2, <1>3 DEF EndOf
<1> QED BY <1>4 DEF w

(* A stream up to event j: what its consumer got and what waits for it is in order, the
   latter ends what was published, and nothing is missing while the consumer keeps up. *)
Streamed(got, values, published, j) ==
  /\ got \in Seq(Nat) /\ values \in Seq(Nat) /\ published \in Seq(Nat)
  /\ Rising(got \o values, j)
  /\ EndOf(values, published)
  /\ Len(published) <= MaxBuffered => got \o values = published

LEMMA Buffered ==
  ASSUME NEW j \in Nat, NEW got, NEW values, NEW published, Streamed(got, values, published, j)
  PROVE Streamed(got, Append(values, j + 1), Append(published, j + 1), j + 1)
<1>1. /\ got \in Seq(Nat) /\ values \in Seq(Nat) /\ published \in Seq(Nat) /\ j + 1 \in Nat
      /\ got \o values \in Seq(Nat) /\ Len(published) \in Nat /\ MaxBuffered \in Nat
  BY WatchAssumption, ConcatProperties DEF Streamed, WatchAssumption
<1>2. /\ Append(values, j + 1) \in Seq(Nat) /\ Append(published, j + 1) \in Seq(Nat)
      /\ Len(Append(published, j + 1)) = Len(published) + 1
  BY <1>1, AppendProperties
<1>3. got \o Append(values, j + 1) = Append(got \o values, j + 1)
  <2>1. <<j + 1>> \in Seq(Nat)
    BY <1>1
  <2>2. Append(values, j + 1) = values \o <<j + 1>> /\ Append(got \o values, j + 1) = (got \o values) \o <<j + 1>>
    BY <1>1, AppendIsConcat
  <2>3. PICK u \in Seq(Nat) : u = <<j + 1>>
    BY <2>1
  <2>4. (got \o values) \o u = got \o (values \o u)
    <3>1. PICK g \in Seq(Nat), v \in Seq(Nat) : g = got /\ v = values
      BY <1>1
    <3>2. (g \o v) \o u = g \o (v \o u)
      BY ConcatAssociative
    <3> QED BY <3>1, <3>2, Zenon
  <2>5. PICK a : a = Append(values, j + 1) /\ a = values \o u
    BY <2>2, <2>3
  <2>6. PICK b : b = Append(got \o values, j + 1) /\ b = (got \o values) \o u
    BY <2>2, <2>3
  <2>7. got \o a = b
    BY <2>4, <2>5, <2>6, Zenon
  <2> QED BY <2>5, <2>6, <2>7, Zenon
<1>4. Rising(got \o Append(values, j + 1), j + 1)
  BY <1>3, RisingAppend DEF Streamed
<1>5. EndOf(Append(values, j + 1), Append(published, j + 1))
  BY <1>1, EndAppend DEF Streamed
<1>6. Len(Append(published, j + 1)) <= MaxBuffered => got \o Append(values, j + 1) = Append(published, j + 1)
  <2>1. Len(Append(published, j + 1)) <= MaxBuffered => Len(published) <= MaxBuffered
    BY <1>1, <1>2
  <2> QED BY <1>3, <2>1 DEF Streamed
<1> QED BY <1>1, <1>2, <1>4, <1>5, <1>6 DEF Streamed

(* A full buffer loses its oldest event: more were published than it holds. *)
LEMMA Overflowed ==
  ASSUME NEW j \in Nat, NEW got, NEW values, NEW published, Streamed(got, values, published, j),
         Len(values) >= MaxBuffered
  PROVE Streamed(got, Append(Tail(values), j + 1), Append(published, j + 1), j + 1)
<1>1. /\ got \in Seq(Nat) /\ values \in Seq(Nat) /\ published \in Seq(Nat) /\ j + 1 \in Nat
      /\ Len(published) \in Nat /\ Len(values) \in Nat /\ MaxBuffered \in Nat \ {0}
  BY WatchAssumption DEF Streamed, WatchAssumption
<1>2. values # <<>>
  BY <1>1, EmptySeq
<1>3. Tail(values) \in Seq(Nat)
  BY <1>1, <1>2, HeadTailProperties
<1>4. /\ Append(Tail(values), j + 1) \in Seq(Nat) /\ Append(published, j + 1) \in Seq(Nat)
      /\ Len(Append(published, j + 1)) = Len(published) + 1
  BY <1>1, <1>3, AppendProperties
<1>5. Rising(got \o Tail(values), j) /\ EndOf(Tail(values), published)
  BY <1>1, <1>2, RisingTail, EndTail DEF Streamed
<1>6. got \o Append(Tail(values), j + 1) = Append(got \o Tail(values), j + 1)
  <2>1. <<j + 1>> \in Seq(Nat) /\ got \o Tail(values) \in Seq(Nat)
    BY <1>1, <1>3, ConcatProperties
  <2>2. /\ Append(Tail(values), j + 1) = Tail(values) \o <<j + 1>>
        /\ Append(got \o Tail(values), j + 1) = (got \o Tail(values)) \o <<j + 1>>
    BY <1>1, <1>3, <2>1, AppendIsConcat
  <2>3. (got \o Tail(values)) \o <<j + 1>> = got \o (Tail(values) \o <<j + 1>>)
    <3> DEFINE t == Tail(values)
               x == <<j + 1>>
    <3>1. got \in Seq(Nat) /\ t \in Seq(Nat) /\ x \in Seq(Nat)
      BY <1>1, <1>3, <2>1
    <3> HIDE DEF t, x
    <3>2. (got \o t) \o x = got \o (t \o x)
      BY <3>1, ConcatAssociative
    <3> QED BY <3>2 DEF t, x
  <2> QED BY <2>2, <2>3
<1>7. Rising(got \o Append(Tail(values), j + 1), j + 1) /\ EndOf(Append(Tail(values), j + 1), Append(published, j + 1))
  BY <1>1, <1>3, <1>5, <1>6, RisingAppend, EndAppend
<1>8. ~(Len(Append(published, j + 1)) <= MaxBuffered)
  <2>1. Len(values) <= Len(published)
    BY DEF Streamed, EndOf
  <2> QED BY <1>1, <1>4, <2>1
<1> QED BY <1>1, <1>4, <1>7, <1>8 DEF Streamed

(* A consumer that waits gets the event. *)
LEMMA HandedOver ==
  ASSUME NEW j \in Nat, NEW got, NEW published, Streamed(got, <<>>, published, j)
  PROVE Streamed(Append(got, j + 1), <<>>, Append(published, j + 1), j + 1)
<1>1. /\ got \in Seq(Nat) /\ published \in Seq(Nat) /\ j + 1 \in Nat /\ <<>> \in Seq(Nat) /\ Len(<<>>) = 0
      /\ got \o <<>> = got /\ Len(published) \in Nat /\ MaxBuffered \in Nat
  BY WatchAssumption, ConcatEmptySeq DEF Streamed, WatchAssumption
<1>2. /\ Append(got, j + 1) \in Seq(Nat) /\ Append(published, j + 1) \in Seq(Nat)
      /\ Len(Append(published, j + 1)) = Len(published) + 1
  BY <1>1, AppendProperties
<1>3. Append(got, j + 1) \o <<>> = Append(got, j + 1)
  BY <1>2, ConcatEmptySeq
<1>4. Rising(Append(got, j + 1), j + 1)
  BY <1>1, RisingAppend DEF Streamed
<1>5. EndOf(<<>>, Append(published, j + 1))
  BY <1>1, <1>2 DEF EndOf
<1>6. Len(Append(published, j + 1)) <= MaxBuffered => Append(got, j + 1) = Append(published, j + 1)
  <2>1. Len(Append(published, j + 1)) <= MaxBuffered => Len(published) <= MaxBuffered
    BY <1>1, <1>2
  <2> QED BY <1>1, <2>1 DEF Streamed
<1> QED BY <1>1, <1>2, <1>3, <1>4, <1>5, <1>6 DEF Streamed

(* A consumer takes the oldest event of the buffer. *)
LEMMA Taken ==
  ASSUME NEW j, NEW got, NEW values, NEW published, Streamed(got, values, published, j), values # <<>>
  PROVE Streamed(Append(got, Head(values)), Tail(values), published, j)
<1>1. got \in Seq(Nat) /\ values \in Seq(Nat) /\ published \in Seq(Nat)
  BY DEF Streamed
<1>2. /\ Head(values) \in Nat /\ Tail(values) \in Seq(Nat) /\ <<Head(values)>> \in Seq(Nat)
  BY <1>1, HeadTailProperties
<1>3. Append(got, Head(values)) = got \o <<Head(values)>> /\ Append(got, Head(values)) \in Seq(Nat)
  BY <1>1, <1>2, AppendIsConcat, AppendProperties
<1>4. <<Head(values)>> \o Tail(values) = values
  <2>1. /\ values = SubSeq(values, 1, Len(values)) /\ Tail(values) = SubSeq(values, 2, Len(values))
    BY <1>1, SubSeqFull, TailIsSubSeq
  <2>2. 1 \in 1 .. Len(values) /\ Len(values) \in 1 .. Len(values)
    BY <1>1, EmptySeq
  <2>3. SubSeq(values, 1, Len(values)) = <<values[1]>> \o SubSeq(values, 1 + 1, Len(values))
    BY <1>1, <2>2, SubSeqRecursiveFirst
  <2>4. Head(values) = values[1]
    BY <1>1
  <2> QED BY <2>1, <2>3, <2>4
<1>5. Append(got, Head(values)) \o Tail(values) = got \o values
  <2>1. (got \o <<Head(values)>>) \o Tail(values) = got \o (<<Head(values)>> \o Tail(values))
    <3> DEFINE t == Tail(values)
               x == <<Head(values)>>
    <3>1. got \in Seq(Nat) /\ t \in Seq(Nat) /\ x \in Seq(Nat)
      BY <1>1, <1>2
    <3> HIDE DEF t, x
    <3>2. (got \o x) \o t = got \o (x \o t)
      BY <3>1, ConcatAssociative
    <3> QED BY <3>2 DEF t, x
  <2> QED BY <1>3, <1>4, <2>1
<1>6. EndOf(Tail(values), published)
  BY <1>1, EndTail DEF Streamed
<1> QED BY <1>1, <1>2, <1>3, <1>5, <1>6 DEF Streamed

Queues == [values : Seq(Nat), waiting : BOOLEAN, closed : BOOLEAN, got : Seq(Nat), published : Seq(Nat)]
QueueOK(q, j) == /\ q \in Queues
                 /\ q.waiting => q.values = <<>>
                 /\ Streamed(q.got, q.values, q.published, j)

(* The journal goes on without the stream. *)
LEMMA StreamStays ==
  ASSUME NEW j \in Nat, NEW k \in Nat, j <= k, NEW q, QueueOK(q, j)
  PROVE QueueOK(q, k)
<1>1. ASSUME NEW s, Rising(s, j)
      PROVE Rising(s, k)
  <2>1. s \in Seq(Nat) /\ \A i \in 1 .. Len(s) : s[i] \in Nat /\ s[i] <= j
    BY <1>1 DEF Rising
  <2>2. \A i \in 1 .. Len(s) : s[i] <= k
    BY <2>1
  <2> QED BY <1>1, <2>2 DEF Rising
<1> QED BY <1>1 DEF QueueOK, Streamed

LEMMA QueueChanges ==
  ASSUME NEW q \in Queues, NEW published \in Seq(Nat), NEW got \in Seq(Nat), NEW values \in Seq(Nat)
  PROVE [q EXCEPT !.published = published, !.waiting = FALSE, !.got = got, !.values = values] \in Queues
BY DEF Queues

LEMMA PushKeeps ==
  ASSUME NEW j \in Nat, NEW q, QueueOK(q, j)
  PROVE QueueOK(Push(q, j + 1), j + 1)
<1> DEFINE values == IF Len(q.values) >= MaxBuffered THEN Tail(q.values) ELSE q.values
           r == Push(q, j + 1)
<1>1. q \in Queues /\ Streamed(q.got, q.values, q.published, j)
  BY DEF QueueOK
<1>2. CASE q.closed
  <2>1. r = q /\ j + 1 \in Nat /\ j <= j + 1
    BY <1>2 DEF Push
  <2>2. QueueOK(q, j + 1)
    BY <2>1, StreamStays
  <2> QED BY <2>1, <2>2
<1>3. CASE ~q.closed /\ q.waiting
  <2>1. /\ r.published = Append(q.published, j + 1) /\ r.waiting = FALSE /\ r.closed = FALSE
        /\ r.got = Append(q.got, j + 1) /\ r.values = q.values
    BY <1>1, <1>3 DEF Push, Queues
  <2>2. q.values = <<>>
    BY <1>3 DEF QueueOK
  <2>3. Streamed(r.got, r.values, r.published, j + 1)
    BY <1>1, <2>1, <2>2, HandedOver
  <2>4. r \in Queues
    <3>1. /\ Append(q.got, j + 1) \in Seq(Nat) /\ Append(q.published, j + 1) \in Seq(Nat)
      BY <2>1, <2>3 DEF Streamed
    <3>2. r = [q EXCEPT !.published = Append(q.published, j + 1), !.waiting = FALSE,
                        !.got = Append(q.got, j + 1), !.values = q.values]
      BY <1>3 DEF Push
    <3>3. q.values \in Seq(Nat)
      BY <1>1 DEF Queues
    <3> HIDE DEF r
    <3> QED BY <1>1, <3>1, <3>2, <3>3, QueueChanges
  <2> HIDE DEF r
  <2>5. QueueOK(r, j + 1)
    BY <2>1, <2>2, <2>3, <2>4 DEF QueueOK
  <2> QED BY <2>5 DEF r
<1>4. CASE ~q.closed /\ ~q.waiting
  <2>1. /\ r.published = Append(q.published, j + 1) /\ r.waiting = FALSE /\ r.closed = FALSE
        /\ r.got = q.got /\ r.values = Append(values, j + 1)
    BY <1>1, <1>4 DEF Push, Queues
  <2>2. Streamed(q.got, Append(values, j + 1), Append(q.published, j + 1), j + 1)
    BY <1>1, Buffered, Overflowed
  <2>3. Streamed(r.got, r.values, r.published, j + 1)
    BY <2>1, <2>2
  <2>4. r \in Queues
    <3>1. /\ Append(values, j + 1) \in Seq(Nat) /\ Append(q.published, j + 1) \in Seq(Nat)
      BY <2>2 DEF Streamed
    <3>2. r = [q EXCEPT !.published = Append(q.published, j + 1), !.waiting = FALSE,
                        !.got = q.got, !.values = Append(values, j + 1)]
      BY <1>4 DEF Push
    <3>3. q.got \in Seq(Nat)
      BY <1>1 DEF Queues
    <3> HIDE DEF r, values
    <3> QED BY <1>1, <3>1, <3>2, <3>3, QueueChanges
  <2> HIDE DEF r
  <2>5. QueueOK(r, j + 1)
    BY <2>1, <2>3, <2>4 DEF QueueOK
  <2> QED BY <2>5 DEF r
<1> QED BY <1>2, <1>3, <1>4

(* A batch of one or two events. *)
LEMMA PushAllKeeps ==
  ASSUME journal \in Nat, NEW q, QueueOK(q, journal), NEW n \in 1 .. 2, NEW progress
  PROVE QueueOK(PushAll(q, n, progress), journal + n)
<1> DEFINE one == ProjectLive(q, 1, progress)
           two == ProjectLive(one, 2, progress)
           f == [i \in 0 .. n |-> IF i = 0 THEN q ELSE IF i = 1 THEN one ELSE two]
           pushed[i \in 0 .. n] == IF i = 0 THEN q ELSE ProjectLive(pushed[i - 1], i, progress)
<1>1. QueueOK(one, journal + 1) /\ QueueOK(two, journal + 2)
  <2>1. QueueOK(one, journal + 1)
    <3>1. QueueOK(q, journal + 1) /\ QueueOK(Push(q, journal + 1), journal + 1)
      BY PushKeeps, StreamStays
    <3> QED BY <3>1 DEF ProjectLive
  <2> HIDE DEF one
  <2>2. journal + 1 \in Nat /\ journal + 2 = journal + 1 + 1 /\ journal + 2 \in Nat /\ journal + 1 <= journal + 2
    OBVIOUS
  <2>3. QueueOK(one, journal + 2)
    BY <2>1, <2>2, StreamStays
  <2>4. QueueOK(Push(one, journal + 1 + 1), journal + 1 + 1)
    BY <2>1, <2>2, PushKeeps
  <2> QED BY <2>1, <2>2, <2>3, <2>4 DEF ProjectLive
<1>2. f = [i \in 0 .. n |-> IF i = 0 THEN q ELSE ProjectLive(f[i - 1], i, progress)]
  <2>1. ASSUME NEW i \in 0 .. n
        PROVE f[i] = IF i = 0 THEN q ELSE ProjectLive(f[i - 1], i, progress)
    <3>1. i = 0 \/ i = 1 \/ (i = 2 /\ 1 \in 0 .. n)
      OBVIOUS
    <3>2. f[0] = q /\ f[i] = IF i = 0 THEN q ELSE IF i = 1 THEN one ELSE two
      OBVIOUS
    <3>3. CASE i = 1
      <4>1. i - 1 = 0 /\ i # 0
        BY <3>3
      <4> HIDE DEF f
      <4> QED BY <3>2, <3>3, <4>1
    <3>4. CASE i = 2 /\ 1 \in 0 .. n
      <4>1. i - 1 = 1 /\ i # 0 /\ i # 1
        BY <3>4
      <4>2. f[1] = one
        BY <3>4
      <4> HIDE DEF f, one
      <4> QED BY <3>2, <4>1, <4>2
    <3> HIDE DEF f
    <3> QED BY <3>1, <3>2, <3>3, <3>4
  <2>2. f = [i \in 0 .. n |-> f[i]]
    OBVIOUS
  <2> HIDE DEF f
  <2> QED BY <2>1, <2>2
<1>3. pushed = [i \in 0 .. n |-> IF i = 0 THEN q ELSE ProjectLive(pushed[i - 1], i, progress)]
  <2> HIDE DEF f, one, two
  <2> QED BY <1>2, Zenon
<1>4. PushAll(q, n, progress) = pushed[n]
  BY Zenon DEF PushAll
<1> HIDE DEF pushed
<1>5. pushed[0] = q
  BY <1>3
<1>6. pushed[1] = one
  <2>1. pushed[1] = ProjectLive(pushed[1 - 1], 1, progress) /\ 1 - 1 = 0
    BY <1>3
  <2> QED BY <1>5, <2>1
<1>7. CASE n = 1
  BY <1>1, <1>4, <1>6, <1>7
<1>8. CASE n = 2
  <2>1. pushed[2] = ProjectLive(pushed[2 - 1], 2, progress) /\ 2 - 1 = 1
    BY <1>3, <1>8
  <2>2. pushed[2] = two
    BY <1>6, <2>1
  <2> HIDE DEF two
  <2> QED BY <1>1, <1>4, <1>8, <2>1, <2>2
<1> QED BY <1>7, <1>8

StreamsOK == /\ queue \in [Subscribers -> Queues] /\ \A s \in Subscribers : QueueOK(queue[s], journal)
WatchInv == TracesOK /\ StreamsOK

LEMMA EventsCommitted ==
  ASSUME WatchInv, NEW n \in 1 .. 2, NEW progress, CommitEvents(n, progress)
  PROVE WatchInv'
<1>1. journal \in Nat /\ journal' = journal + n /\ journal' \in Nat /\ journal <= journal' /\ UNCHANGED <<shown, asked>>
  BY DEF WatchInv, TracesOK, CommitEvents
<1>2. TracesOK'
  BY <1>1, TracesGrow DEF WatchInv
<1>3. \A s \in Subscribers : QueueOK(queue[s], journal)
  BY DEF WatchInv, StreamsOK
<1>4. StreamsOK'
  <2>1. queue' = [s \in Subscribers |-> PushAll(queue[s], n, progress)]
    BY DEF CommitEvents
  <2>2. \A s \in Subscribers : QueueOK(PushAll(queue[s], n, progress), journal')
    BY <1>1, <1>3, PushAllKeeps
  <2> QED BY <2>1, <2>2 DEF StreamsOK, QueueOK
<1> QED BY <1>2, <1>4 DEF WatchInv

(* One queue changes; or several are shut. *)
LEMMA StreamChanged ==
  ASSUME WatchInv, UNCHANGED <<journal, shown, asked>>, queue' \in [Subscribers -> Queues],
         \A s \in Subscribers : QueueOK(queue'[s], journal)
  PROVE WatchInv'
<1>1. TracesOK'
  <2>1. journal' \in Nat /\ journal <= journal'
    BY DEF WatchInv, TracesOK
  <2> QED BY <2>1, TracesGrow DEF WatchInv
<1>2. StreamsOK'
  BY DEF StreamsOK
<1> QED BY <1>1, <1>2 DEF WatchInv

LEMMA ShutKeeps ==
  ASSUME NEW q, NEW j, QueueOK(q, j)
  PROVE QueueOK(Shut(q), j)
<1> DEFINE r == Shut(q)
<1>1. q \in Queues
  BY DEF QueueOK
<1>2. r \in Queues /\ ~r.waiting /\ r.values = q.values /\ r.got = q.got /\ r.published = q.published
  BY <1>1 DEF Shut, Queues
<1> HIDE DEF r
<1>3. QueueOK(r, j)
  BY <1>2 DEF QueueOK
<1> QED BY <1>3 DEF r

LEMMA NewStream ==
  ASSUME journal \in Nat, NEW q, q = NoQueue \/ q = [NoQueue EXCEPT !.closed = FALSE]
  PROVE QueueOK(q, journal)
<1>1. q \in Queues /\ q.values = <<>> /\ q.got = <<>> /\ q.published = <<>> /\ ~q.waiting
  <2>1. <<>> \in Seq(Nat)
    OBVIOUS
  <2>2. /\ NoQueue \in Queues /\ NoQueue.values = <<>> /\ NoQueue.got = <<>>
        /\ NoQueue.published = <<>> /\ ~NoQueue.waiting
    BY <2>1 DEF NoQueue, Queues
  <2> QED BY <2>2 DEF Queues
<1>2. /\ <<>> \in Seq(Nat) /\ Len(<<>>) = 0 /\ <<>> \o <<>> = <<>> /\ DOMAIN <<>> = {}
  BY EmptySeq, ConcatEmptySeq
<1>3. Streamed(<<>>, <<>>, <<>>, journal)
  BY <1>2 DEF Streamed, Rising, Increasing, EndOf
<1> QED BY <1>1, <1>3 DEF QueueOK

LEMMA StreamsCorrect ==
  ASSUME WatchInv, \/ \E s \in Subscribers : Subscribe(s) \/ TakeNext(s) \/ AbortStream(s)
                   \/ CloseStreams
  PROVE WatchInv'
<1>1. /\ journal \in Nat /\ UNCHANGED <<journal, shown, asked>>
      /\ queue \in [Subscribers -> Queues] /\ \A s \in Subscribers : QueueOK(queue[s], journal)
  BY DEF WatchInv, TracesOK, StreamsOK, Subscribe, TakeNext, AbortStream, CloseStreams
<1>2. ASSUME NEW s \in Subscribers, NEW q, QueueOK(q, journal), queue' = [queue EXCEPT ![s] = q]
      PROVE WatchInv'
  <2>1. q \in Queues
    BY <1>2 DEF QueueOK
  <2>2. queue' \in [Subscribers -> Queues] /\ \A x \in Subscribers : QueueOK(queue'[x], journal)
    BY <1>1, <1>2, <2>1
  <2> QED BY <1>1, <2>2, StreamChanged
<1>3. ASSUME NEW s \in Subscribers, Subscribe(s)
      PROVE WatchInv'
  <2> DEFINE q == [NoQueue EXCEPT !.closed = FALSE]
  <2>1. queue' = [queue EXCEPT ![s] = q]
    BY <1>3 DEF Subscribe
  <2>2. QueueOK(q, journal)
    BY <1>1, NewStream
  <2> HIDE DEF q
  <2> QED BY <1>2, <2>1, <2>2
<1>4. ASSUME NEW s \in Subscribers, AbortStream(s)
      PROVE WatchInv'
  <2> DEFINE q == Shut(queue[s])
  <2>1. queue' = [queue EXCEPT ![s] = q]
    BY <1>4 DEF AbortStream
  <2>2. QueueOK(q, journal)
    BY <1>1, ShutKeeps
  <2> HIDE DEF q
  <2> QED BY <1>2, <2>1, <2>2
<1>5. CASE CloseStreams
  <2>1. queue' = [s \in Subscribers |-> Shut(queue[s])]
    BY <1>5 DEF CloseStreams
  <2>2. \A s \in Subscribers : QueueOK(Shut(queue[s]), journal)
    BY <1>1, ShutKeeps
  <2>3. queue' \in [Subscribers -> Queues] /\ \A s \in Subscribers : QueueOK(queue'[s], journal)
    BY <2>1, <2>2 DEF QueueOK
  <2> QED BY <1>1, <2>3, StreamChanged
<1>6. ASSUME NEW s \in Subscribers, TakeNext(s)
      PROVE WatchInv'
  <2> DEFINE o == queue[s]
  <2>1. o \in Queues /\ QueueOK(o, journal)
    BY <1>1
  <2>2. CASE o.values = <<>>
    <3> DEFINE q == [o EXCEPT !.waiting = TRUE]
    <3>1. queue' = [queue EXCEPT ![s] = q]
      BY <1>6, <2>2 DEF TakeNext
    <3> HIDE DEF o
    <3>2. q \in Queues /\ q.values = o.values /\ q.got = o.got /\ q.published = o.published
      BY <2>1 DEF Queues
    <3> HIDE DEF q
    <3>3. QueueOK(q, journal)
      BY <2>1, <2>2, <3>2 DEF QueueOK
    <3> QED BY <1>2, <3>1, <3>3
  <2>3. CASE o.values # <<>>
    <3> DEFINE q == [o EXCEPT !.got = Append(@, Head(o.values)), !.values = Tail(@)]
    <3>1. queue' = [queue EXCEPT ![s] = q]
      <4>1. queue' = [queue EXCEPT ![s] = IF o.values = <<>> THEN [o EXCEPT !.waiting = TRUE] ELSE q]
        BY <1>6 DEF TakeNext
      <4> HIDE DEF q, o
      <4> QED BY <2>3, <4>1
    <3>2. ~o.waiting
      BY <1>6 DEF TakeNext
    <3> HIDE DEF o
    <3>3. Streamed(Append(o.got, Head(o.values)), Tail(o.values), o.published, journal)
      BY <2>1, <2>3, Taken DEF QueueOK
    <3>4. Append(o.got, Head(o.values)) \in Seq(Nat) /\ Tail(o.values) \in Seq(Nat)
      BY <3>3 DEF Streamed
    <3>5. /\ q.got = Append(o.got, Head(o.values)) /\ q.values = Tail(o.values)
          /\ q.published = o.published /\ q.waiting = o.waiting
      BY <2>1 DEF Queues
    <3>6. q \in Queues
      BY <2>1, <3>4 DEF Queues
    <3> HIDE DEF q
    <3>7. QueueOK(q, journal)
      BY <3>2, <3>3, <3>5, <3>6 DEF QueueOK
    <3> QED BY <1>2, <3>1, <3>7
  <2> QED BY <2>2, <2>3
<1> QED BY <1>3, <1>4, <1>5, <1>6

(* Whatever requests overlap: traces are beginnings of the journal, requests under way
   carry such beginnings, and queues end what was published. *)
THEOREM WatchCorrect == WatchSpec => []WatchInv
<1>1. WatchInit => WatchInv
  <2> SUFFICES ASSUME WatchInit
               PROVE WatchInv
    OBVIOUS
  <2>1. journal = 0 /\ journal \in Nat
    BY DEF WatchInit
  <2>2. QueueOK(NoQueue, journal)
    BY <2>1, NewStream
  <2>3. StreamsOK
    BY <2>2 DEF WatchInit, StreamsOK, QueueOK
  <2>4. NoTrace \in Traces /\ TraceOK(NoTrace)
    <3>1. Stretch(0, 0) \in Seq(Nat) /\ Len(Stretch(0, 0)) = 0 /\ <<>> \in Seq(Nat) /\ Len(<<>>) = 0
      BY StretchIsSeq
    <3>2. Stretch(0, 0) = <<>>
      BY <3>1
    <3>3. Begins(<<>>)
      BY <2>1, <3>1, <3>2 DEF Begins
    <3> QED BY <3>1, <3>3 DEF NoTrace, Traces, TraceOK
  <2>5. TracesOK
    BY <2>1, <2>4 DEF WatchInit, TracesOK
  <2> QED BY <2>3, <2>5 DEF WatchInv
<1>2. WatchInv /\ [WatchNext]_watchVars => WatchInv'
  <2> SUFFICES ASSUME WatchInv, [WatchNext]_watchVars
               PROVE WatchInv'
    OBVIOUS
  <2>1. CASE \E n \in 1 .. 2 : \E progress \in SUBSET (1 .. n) : CommitEvents(n, progress)
    BY <2>1, EventsCommitted
  <2>2. CASE (\E s \in Subscribers : Subscribe(s) \/ TakeNext(s) \/ AbortStream(s)) \/ CloseStreams
    BY <2>2, StreamsCorrect
  <2>3. ASSUME NEW v \in Viewers,
               \/ Refresh(v) \/ LoadMore(v)
               \/ \E q \in asked[v] : ReadCheckpoint(v, q) \/ ReadPage(v, q) \/ ShowTrace(v, q)
        PROVE WatchInv'
    <3>1. TracesOK'
      BY <2>3, TracesCorrect DEF WatchInv
    <3>2. journal' = journal /\ queue' = queue
      BY <2>3 DEF Refresh, LoadMore, Ask, ReadCheckpoint, ReadPage, ShowTrace
    <3>3. StreamsOK'
      BY <3>2 DEF WatchInv, StreamsOK
    <3> QED BY <3>1, <3>3 DEF WatchInv
  <2>4. CASE UNCHANGED watchVars
    <3>1. journal' \in Nat /\ journal <= journal' /\ UNCHANGED <<journal, shown, asked, queue>>
      BY <2>4 DEF watchVars, WatchInv, TracesOK
    <3>2. TracesOK'
      BY <3>1, TracesGrow DEF WatchInv
    <3>3. StreamsOK'
      BY <3>1 DEF WatchInv, StreamsOK
    <3> QED BY <3>2, <3>3 DEF WatchInv
  <2> QED BY <2>1, <2>2, <2>3, <2>4 DEF WatchNext
<1> QED BY <1>1, <1>2, PTL DEF WatchSpec

LEMMA EndIsSuffix ==
  ASSUME NEW v \in Seq(Nat), NEW p \in Seq(Nat), EndOf(v, p)
  PROVE Seqs!IsSuffix(v, p)
<1> DEFINE a == Seqs!Reverse(v)
           b == Seqs!Reverse(p)
           n == Len(v)
           m == Len(p)
<1>1. n \in Nat /\ m \in Nat /\ n <= m /\ DOMAIN v = 1 .. n /\ DOMAIN p = 1 .. m
  BY LenProperties DEF EndOf
<1>2. /\ \A i \in 1 .. n : v[i] = p[m - n + i] /\ v[i] \in Nat
      /\ \A i \in 1 .. m : p[i] \in Nat
  BY ElementOfSeq DEF EndOf
<1>3. a = [i \in 1 .. n |-> v[(n - i) + 1]] /\ b = [i \in 1 .. m |-> p[(m - i) + 1]]
  BY DEF Seqs!Reverse
<1> HIDE DEF a, b, n, m
<1>4. a \in [1 .. n -> Nat] /\ b \in [1 .. m -> Nat]
  <2>1. (\A i \in 1 .. n : (n - i) + 1 \in 1 .. n) /\ \A i \in 1 .. m : (m - i) + 1 \in 1 .. m
    BY <1>1
  <2> QED BY <1>2, <1>3, <2>1
<1>5. a \in Seq(Nat) /\ b \in Seq(Nat)
  BY <1>1, <1>4, SeqDef
<1>6. Len(a) = n /\ Len(b) = m
  BY <1>1, <1>4, <1>5, LenProperties
<1>7. \A i \in 1 .. n : a[i] = b[i] /\ a[i] \in Nat /\ b[i] \in Nat
  <2> SUFFICES ASSUME NEW i \in 1 .. n
               PROVE a[i] = b[i] /\ a[i] \in Nat /\ b[i] \in Nat
    OBVIOUS
  <2>1. i \in 1 .. m /\ (n - i) + 1 \in 1 .. n /\ m - n + ((n - i) + 1) = (m - i) + 1
    BY <1>1
  <2>2. a[i] = v[(n - i) + 1] /\ b[i] = p[(m - i) + 1]
    BY <1>3, <2>1
  <2>3. v[(n - i) + 1] = p[m - n + ((n - i) + 1)]
    BY <1>2, <2>1
  <2> QED BY <1>4, <2>1, <2>2, <2>3
<1>8. SubSeq(a, 1, n) = SubSeq(b, 1, n)
  <2> DEFINE c == SubSeq(a, 1, n)
             d == SubSeq(b, 1, n)
  <2>1. /\ c \in Seq(Nat) /\ Len(c) = (IF 1 <= n THEN n - 1 + 1 ELSE 0)
        /\ \A i \in 1 .. n - 1 + 1 : c[i] = a[1 + i - 1]
    BY <1>1, <1>7, SubSeqProperties
  <2>2. /\ d \in Seq(Nat) /\ Len(d) = (IF 1 <= n THEN n - 1 + 1 ELSE 0)
        /\ \A i \in 1 .. n - 1 + 1 : d[i] = b[1 + i - 1]
    BY <1>1, <1>7, SubSeqProperties
  <2> HIDE DEF c, d
  <2>3. Len(c) = n /\ Len(d) = n /\ \A i \in 1 .. n : c[i] = a[i] /\ d[i] = b[i]
    BY <1>1, <2>1, <2>2
  <2>4. c = d
    BY <1>7, <2>1, <2>2, <2>3, SeqEqual
  <2> QED BY <2>4 DEF c, d
<1>9. Seqs!IsPrefix(a, b)
  BY <1>1, <1>6, <1>8 DEF Seqs!IsPrefix
<1> QED BY <1>9 DEF Seqs!IsSuffix, a, b

(* Whoever watches a run sees its journal (ViewsFollowJournal; readEvents of the stores,
   loadMoreTrace of studio.tsx, LiveQueue of runtime/live.ts). *)
THEOREM ViewsFollow == WatchSpec => []ViewsFollowJournal
<1>1. WatchInv => ViewsFollowJournal
  <2> SUFFICES ASSUME WatchInv
               PROVE ViewsFollowJournal
    OBVIOUS
  <2>1. ASSUME NEW v \in Viewers
        PROVE LET t == shown[v]
              IN /\ t.events = [i \in 1 .. Len(t.events) |-> i]
                 /\ ~t.more => Len(t.events) >= t.checkpointSeq
    <3>1. TraceOK(shown[v])
      BY DEF WatchInv, TracesOK
    <3>2. \A s : Begins(s) => s = [i \in 1 .. Len(s) |-> i]
      <4> SUFFICES ASSUME NEW s, Begins(s)
                   PROVE s = [i \in 1 .. Len(s) |-> i]
        OBVIOUS
      <4>1. s = [i \in 1 .. Len(s) |-> 0 + i]
        BY DEF Begins, Stretch
      <4>2. \A i \in 1 .. Len(s) : 0 + i = i
        BY DEF Begins
      <4> QED BY <4>1, <4>2
    <3> QED BY <3>1, <3>2 DEF TraceOK
  <2>2. ASSUME NEW s \in Subscribers
        PROVE LET q == queue[s]
              IN /\ Increasing(q.got \o q.values)
                 /\ Seqs!IsSuffix(q.values, q.published)
                 /\ Len(q.published) <= MaxBuffered => q.got \o q.values = q.published
    BY EndIsSuffix DEF WatchInv, StreamsOK, QueueOK, Streamed, Rising
  <2> QED BY <2>1, <2>2 DEF ViewsFollowJournal
<1> QED BY <1>1, WatchCorrect, PTL
-----------------------------------------------------------------------------
(* Edge settlement. *)
Smaller == {pair \in Nat \X Nat : pair[1] < pair[2]}

(* Every set of natural numbers that is not empty has a least element; so a set that
   holds zero and the successor of each of its elements holds them all. *)
LEMMA LeastNatural ==
  ASSUME NEW T \in SUBSET Nat, T # {}
  PROVE \E x \in T : \A y \in T : x <= y
<1>1. IsWellFoundedOn(Smaller, Nat)
  BY NatLessThanWellFounded, Zenon DEF OpToRel, Smaller
<1>2. PICK x \in T : \A y \in T : ~(<<y, x>> \in Smaller)
  BY <1>1, WFMin
<1>3. \A y \in T : ~(y < x)
  BY <1>2 DEF Smaller
<1> QED BY <1>3

(* Induction over the natural numbers, for a set. *)
LEMMA BySuccessor ==
  ASSUME NEW T \in SUBSET Nat, 0 \in T, \A n \in T : n + 1 \in T
  PROVE T = Nat
<1> SUFFICES ASSUME Nat \ T # {} PROVE FALSE
  OBVIOUS
<1>1. PICK x \in Nat \ T : \A y \in Nat \ T : x <= y
  BY LeastNatural
<1>2. x # 0 /\ x - 1 \in Nat \ T
  BY <1>1
<1> QED BY <1>1, <1>2

(* Induction up to n, for a set. *)
LEMMA Upwards ==
  ASSUME NEW n \in Nat, NEW T, 0 \in T, \A i \in 1 .. n : i - 1 \in T => i \in T
  PROVE \A i \in 0 .. n : i \in T
<1> DEFINE S == {i \in Nat : i <= n => i \in T}
<1>1. 0 \in S
  OBVIOUS
<1>2. ASSUME NEW i \in S
      PROVE i + 1 \in S
  <2> SUFFICES ASSUME i + 1 <= n
               PROVE i + 1 \in T
    OBVIOUS
  <2>1. i \in T /\ i + 1 \in 1 .. n /\ (i + 1) - 1 = i
    OBVIOUS
  <2> QED BY <2>1
<1>3. S = Nat
  <2> S \in SUBSET Nat
    OBVIOUS
  <2> HIDE DEF S
  <2> QED BY <1>1, <1>2, BySuccessor
<1> QED BY <1>3

(* f is computed from b by F, from one number to the next; there is such an f. *)
Computes(f, n, X, b, F) ==
  f \in [0 .. n -> X] /\ \A i \in 0 .. n : f[i] = IF i = 0 THEN b ELSE F[i][f[i - 1]]
LEMMA Iterates ==
  ASSUME NEW n \in Nat, NEW X, NEW b \in X, NEW F \in [Nat -> [X -> X]]
  PROVE \E f : Computes(f, n, X, b, F)
<1> DEFINE T == {m \in Nat : \E f \in [0 .. m -> X] :
                               \A i \in 0 .. m : f[i] = IF i = 0 THEN b ELSE F[i][f[i - 1]]}
<1>1. 0 \in T
  <2> DEFINE f == [i \in 0 .. 0 |-> b]
  <2>1. f \in [0 .. 0 -> X] /\ \A i \in 0 .. 0 : f[i] = IF i = 0 THEN b ELSE F[i][f[i - 1]]
    OBVIOUS
  <2> QED BY <2>1
<1>2. ASSUME NEW m \in T
      PROVE m + 1 \in T
  <2>1. PICK f \in [0 .. m -> X] : \A i \in 0 .. m : f[i] = IF i = 0 THEN b ELSE F[i][f[i - 1]]
    OBVIOUS
  <2> DEFINE h == [i \in 0 .. m + 1 |-> IF i = m + 1 THEN F[m + 1][f[m]] ELSE f[i]]
  <2>2. m \in Nat /\ m + 1 \in Nat /\ f[m] \in X
    OBVIOUS
  <2>3. h \in [0 .. m + 1 -> X]
    BY <2>2
  <2>4. ASSUME NEW i \in 0 .. m + 1
        PROVE h[i] = IF i = 0 THEN b ELSE F[i][h[i - 1]]
    <3>1. CASE i = m + 1
      <4>1. i # 0 /\ i - 1 = m /\ i - 1 # m + 1 /\ i - 1 \in 0 .. m + 1
        BY <2>2, <3>1
      <4> QED BY <3>1, <4>1
    <3>2. CASE i # m + 1
      <4>1. i \in 0 .. m /\ h[i] = f[i]
        BY <2>2, <3>2
      <4>2. i # 0 => i - 1 \in 0 .. m + 1 /\ i - 1 # m + 1
        BY <2>2
      <4> QED BY <2>1, <4>1, <4>2
    <3> QED BY <3>1, <3>2
  <2> HIDE DEF h
  <2> QED BY <2>2, <2>3, <2>4
<1>3. T = Nat
  <2> T \in SUBSET Nat
    OBVIOUS
  <2> HIDE DEF T
  <2> QED BY <1>1, <1>2, BySuccessor
<1> QED BY <1>3 DEF Computes

Joins(u, s, t) ==
  /\ \A i \in DOMAIN u : (\E j \in DOMAIN s : u[i] = s[j]) \/ (\E j \in DOMAIN t : u[i] = t[j])
  /\ \A j \in DOMAIN s : \E i \in DOMAIN u : u[i] = s[j]
  /\ \A j \in DOMAIN t : \E i \in DOMAIN u : u[i] = t[j]

LEMMA Concatenated ==
  ASSUME NEW S, NEW s \in Seq(S), NEW t \in Seq(S), NEW u, u = s \o t
  PROVE Joins(u, s, t)
<1>1. PICK m \in Nat : m = Len(s) /\ DOMAIN s = 1 .. m
  OBVIOUS
<1>2. PICK n \in Nat : n = Len(t) /\ DOMAIN t = 1 .. n
  OBVIOUS
<1>3. /\ u \in Seq(S) /\ DOMAIN u = 1 .. m + n
      /\ \A i \in 1 .. m : i \in 1 .. m + n /\ u[i] = s[i]
  BY <1>1, <1>2
<1>4. \A j \in 1 .. n : m + j \in 1 .. m + n /\ u[m + j] = t[j]
  BY <1>1, <1>2
<1>5. \A i \in 1 .. m + n : i \in 1 .. m \/ (i - m \in 1 .. n /\ m + (i - m) = i)
  BY <1>1, <1>2
<1>6. ASSUME NEW i \in DOMAIN u
      PROVE (\E j \in DOMAIN s : u[i] = s[j]) \/ (\E j \in DOMAIN t : u[i] = t[j])
  <2>1. CASE i \in 1 .. m
    BY <1>1, <1>3, <2>1
  <2>2. CASE i \notin 1 .. m
    <3>1. i - m \in 1 .. n /\ m + (i - m) = i
      BY <1>3, <1>5, <2>2
    <3>2. u[i] = t[i - m]
      BY <1>4, <3>1
    <3> QED BY <1>2, <3>1, <3>2
  <2> QED BY <2>1, <2>2
<1>7. \A j \in DOMAIN s : \E i \in DOMAIN u : u[i] = s[j]
  BY <1>1, <1>3
<1>8. \A j \in DOMAIN t : \E i \in DOMAIN u : u[i] = t[j]
  BY <1>2, <1>3, <1>4
<1> QED BY <1>6, <1>7, <1>8 DEF Joins
-----------------------------------------------------------------------------
(* The state of a settlement: the engine's, and the pending calls of reconcileNode. *)
Settling == [nodes : [Nodes -> NodeStatus], edges : [Edges -> EdgeStatus], ready : SUBSET Nodes,
             calls : Seq(Nodes)]

(* What a settlement starts from: edges are known once their source has settled. *)
Settled(b, n) == /\ b \in Settling /\ n \in Nodes /\ b.nodes[n] = "succeeded"
                 /\ \A e \in Edges : b.nodes[Src[e]] = "pending" => b.edges[e] = "unknown"

(* What it has come to: some nodes are skipped, and their edges with them; the pending
   nodes that could be decided by now are still to be visited. *)
SkippedIn(b, s) == {m \in Nodes : b.nodes[m] = "pending" /\ s.nodes[m] = "skipped"}
ReadyIn(b, s) == {m \in Nodes : b.nodes[m] = "pending" /\ s.nodes[m] = "ready"}
Known(s, m) == \A e \in In(m) : s.edges[e] # "unknown"
Reached(b, n, s, m) == \E e \in In(m) : Src[e] = n \/ Src[e] \in SkippedIn(b, s)
Settles(b, n, sel, s) ==
  /\ s \in Settling
  /\ s.edges = EdgesAfter(b.edges, n, sel, SkippedIn(b, s))
  /\ s.ready = b.ready \cup ReadyIn(b, s)
  /\ \A m \in Nodes : \/ s.nodes[m] = b.nodes[m]
                      \/ /\ b.nodes[m] = "pending" /\ s.nodes[m] \in {"ready", "skipped"}
                         /\ Known(s, m) /\ Reached(b, n, s, m)
                         /\ s.nodes[m] = "ready" <=> HasTaken(s.edges, m)
  /\ \A i \in DOMAIN s.calls : Reached(b, n, s, s.calls[i])
  /\ \A m \in Nodes : s.nodes[m] = "pending" /\ Known(s, m) /\ Reached(b, n, s, m) =>
                        \E i \in DOMAIN s.calls : s.calls[i] = m

(* A node lists its targets, each once. *)
LEMMA ListsTargets ==
  ASSUME NEW n \in Nodes
  PROVE /\ InOrder(n) \in Seq(Nodes) /\ Len(InOrder(n)) = Cardinality(Targets(n))
        /\ Cardinality(Targets(n)) \in Nat /\ IsFiniteSet(Targets(n))
        /\ \A i \in DOMAIN InOrder(n) : InOrder(n)[i] \in Targets(n)
        /\ \A t \in Targets(n) : \E i \in DOMAIN InOrder(n) : InOrder(n)[i] = t
<1> DEFINE T == Targets(n)
           k == Cardinality(T)
<1>1. T \in SUBSET Nodes
  BY GraphAssumption DEF IsWorkflowGraph, Targets, Out
<1>2. IsFiniteSet(T)
  <2> HIDE DEF T
  <2> QED BY <1>1, GraphAssumption, FS_Subset DEF IsWorkflowGraph
<1>3. k \in Nat /\ ExistsBijection(1 .. k, T)
  <2> HIDE DEF T
  <2> QED BY <1>2, FS_CardinalityType
<1>4. \E s \in [1 .. k -> T] : \A t \in T : \E i \in DOMAIN s : s[i] = t
  <2> HIDE DEF k, T
  <2>1. PICK s : s \in Bijection(1 .. k, T)
    BY <1>3 DEF ExistsBijection
  <2>2. s \in [1 .. k -> T] /\ \A t \in T : \E i \in 1 .. k : s[i] = t
    BY <2>1 DEF Bijection, Injection, Surjection
  <2> QED BY <2>2
<1>5. InOrder(n) \in [1 .. k -> T] /\ \A t \in T : \E i \in DOMAIN InOrder(n) : InOrder(n)[i] = t
  <2>1. InOrder(n) = CHOOSE s \in [1 .. k -> T] : \A t \in T : \E i \in DOMAIN s : s[i] = t
    BY Zenon DEF InOrder
  <2> HIDE DEF k, T
  <2> QED BY <1>4, <2>1
<1> DEFINE s == InOrder(n)
<1> HIDE DEF s, k, T
<1>6. s \in [1 .. k -> T] /\ \A t \in T : \E i \in DOMAIN s : s[i] = t
  BY <1>5 DEF s
<1>7. s \in Seq(Nodes) /\ Len(s) = k /\ \A i \in DOMAIN s : s[i] \in T
  BY <1>1, <1>3, <1>6
<1> QED BY <1>2, <1>3, <1>6, <1>7 DEF s, k, T

(* A call of reconcileNode leaves a settlement in order. *)
LEMMA CallSettles ==
  ASSUME NEW b, NEW n, Settled(b, n), NEW sel, NEW s, Settles(b, n, sel, s)
  PROVE Settles(b, n, sel, NextCall(s))
<1>1. CASE s.calls = <<>>
  BY <1>1 DEF NextCall
<1> SUFFICES ASSUME s.calls # <<>> PROVE Settles(b, n, sel, NextCall(s))
  BY <1>1
<1>2. s \in Settling /\ s.calls \in Seq(Nodes) /\ s.nodes \in [Nodes -> NodeStatus] /\ s.edges \in [Edges -> EdgeStatus]
  BY DEF Settles, Settling
<1>3. PICK m \in Nodes : m = Head(s.calls)
  BY <1>2
<1> DEFINE t == [s EXCEPT !.calls = Tail(s.calls)]
<1>4. /\ t \in Settling /\ t.nodes = s.nodes /\ t.edges = s.edges /\ t.ready = s.ready
      /\ t.calls = Tail(s.calls) /\ t.calls \in Seq(Nodes)
  <2>1. Tail(s.calls) \in Seq(Nodes)
    BY <1>2
  <2> QED BY <1>2, <2>1 DEF Settling
<1>5. NextCall(s) = Reconcile(t, m)
  BY <1>3 DEF NextCall
<1> HIDE DEF t
<1>6. \A i \in DOMAIN t.calls : \E j \in DOMAIN s.calls : t.calls[i] = s.calls[j]
  <2>1. \A i \in DOMAIN Tail(s.calls) : i + 1 \in DOMAIN s.calls /\ Tail(s.calls)[i] = s.calls[i + 1]
    BY <1>2
  <2> QED BY <1>4, <2>1
<1>7. \A j \in DOMAIN s.calls : s.calls[j] = m \/ \E i \in DOMAIN t.calls : t.calls[i] = s.calls[j]
  <2>1. \A j \in DOMAIN s.calls : \/ j = 1 /\ s.calls[j] = m
                                  \/ j - 1 \in DOMAIN Tail(s.calls) /\ Tail(s.calls)[j - 1] = s.calls[j]
    BY <1>2, <1>3
  <2> QED BY <1>4, <2>1
<1>8. Reached(b, n, s, m)
  <2>1. 1 \in DOMAIN s.calls /\ s.calls[1] = m
    BY <1>2, <1>3
  <2> QED BY <2>1 DEF Settles
<1>9. /\ SkippedIn(b, t) = SkippedIn(b, s) /\ ReadyIn(b, t) = ReadyIn(b, s)
      /\ \A q : (Known(t, q) <=> Known(s, q)) /\ (Reached(b, n, t, q) <=> Reached(b, n, s, q))
  BY <1>4 DEF SkippedIn, ReadyIn, Known, Reached
<1>10. CASE s.nodes[m] # "pending" \/ ~Known(s, m)
  <2>1. NextCall(s) = t
    BY <1>4, <1>5, <1>10 DEF Reconcile, Known
  <2>2. Settles(b, n, sel, t)
    <3>1. ASSUME NEW q \in Nodes, s.nodes[q] = "pending", Known(s, q), Reached(b, n, s, q)
          PROVE \E i \in DOMAIN t.calls : t.calls[i] = q
      BY <1>7, <1>10, <3>1 DEF Settles
    <3>2. \A i \in DOMAIN t.calls : Reached(b, n, s, t.calls[i])
      BY <1>6 DEF Settles
    <3> QED BY <1>4, <1>9, <3>1, <3>2 DEF Settles
  <2> QED BY <2>1, <2>2
<1>11. CASE s.nodes[m] = "pending" /\ Known(s, m) /\ HasTaken(s.edges, m)
  <2> DEFINE u == [t EXCEPT !.nodes[m] = "ready", !.ready = t.ready \cup {m}]
  <2>1. NextCall(s) = u
    BY <1>4, <1>5, <1>11 DEF Reconcile, Known
  <2>2. /\ u \in Settling /\ u.nodes = [s.nodes EXCEPT ![m] = "ready"] /\ u.edges = s.edges
        /\ u.ready = s.ready \cup {m} /\ u.calls = t.calls
    BY <1>2, <1>4 DEF Settling, NodeStatus
  <2> HIDE DEF u
  <2>3. u.nodes[m] = "ready" /\ \A q \in Nodes \ {m} : u.nodes[q] = s.nodes[q]
    BY <1>2, <2>2
  <2>4. b.nodes[m] = "pending"
    BY <1>11 DEF Settles
  <2>5. SkippedIn(b, u) = SkippedIn(b, s) /\ ReadyIn(b, u) = ReadyIn(b, s) \cup {m}
    BY <1>11, <2>3, <2>4 DEF SkippedIn, ReadyIn
  <2>6. \A q : (Known(u, q) <=> Known(s, q)) /\ (Reached(b, n, u, q) <=> Reached(b, n, s, q))
    BY <2>2, <2>5 DEF Known, Reached
  <2>7. ASSUME NEW q \in Nodes, u.nodes[q] = "pending", Known(u, q), Reached(b, n, u, q)
        PROVE \E i \in DOMAIN u.calls : u.calls[i] = q
    <3>1. q # m /\ s.nodes[q] = "pending"
      BY <2>3, <2>7
    <3> QED BY <1>7, <2>2, <2>6, <2>7, <3>1 DEF Settles
  <2>8. \A i \in DOMAIN u.calls : Reached(b, n, u, u.calls[i])
    BY <1>6, <2>2, <2>6 DEF Settles
  <2>9. u.ready = b.ready \cup ReadyIn(b, u)
    BY <2>2, <2>5 DEF Settles
  <2>10. ASSUME NEW q \in Nodes
         PROVE \/ u.nodes[q] = b.nodes[q]
               \/ /\ b.nodes[q] = "pending" /\ u.nodes[q] \in {"ready", "skipped"}
                  /\ Known(u, q) /\ Reached(b, n, u, q)
                  /\ u.nodes[q] = "ready" <=> HasTaken(u.edges, q)
    <3>1. CASE q = m
      BY <1>8, <1>11, <2>2, <2>3, <2>4, <2>6, <3>1
    <3>2. CASE q # m
      BY <2>2, <2>3, <2>6, <3>2 DEF Settles
    <3> QED BY <3>1, <3>2
  <2>11. u.edges = EdgesAfter(b.edges, n, sel, SkippedIn(b, u))
    BY <2>2, <2>5 DEF Settles
  <2> QED BY <2>1, <2>2, <2>7, <2>8, <2>9, <2>10, <2>11 DEF Settles
<1>12. CASE s.nodes[m] = "pending" /\ Known(s, m) /\ ~HasTaken(s.edges, m)
  <2> DEFINE u == [t EXCEPT !.nodes[m] = "skipped",
                            !.edges = [e \in Edges |-> IF Src[e] = m THEN "skipped" ELSE t.edges[e]],
                            !.calls = InOrder(m) \o t.calls]
  <2>1. NextCall(s) = u
    BY <1>4, <1>5, <1>12 DEF Reconcile, Known
  <2>2. /\ u \in Settling /\ u.nodes = [s.nodes EXCEPT ![m] = "skipped"]
        /\ u.edges = [e \in Edges |-> IF Src[e] = m THEN "skipped" ELSE s.edges[e]]
        /\ u.ready = s.ready /\ u.calls = InOrder(m) \o t.calls
    <3>1. InOrder(m) \o t.calls \in Seq(Nodes)
      BY <1>4, ListsTargets
    <3>2. [e \in Edges |-> IF Src[e] = m THEN "skipped" ELSE t.edges[e]] \in [Edges -> EdgeStatus]
      BY <1>2, <1>4 DEF EdgeStatus
    <3> QED BY <1>2, <1>4, <3>1, <3>2 DEF Settling, NodeStatus
  <2> HIDE DEF u
  <2>3. u.nodes[m] = "skipped" /\ \A q \in Nodes \ {m} : u.nodes[q] = s.nodes[q]
    BY <1>2, <2>2
  <2>4. b.nodes[m] = "pending" /\ m # n
    BY <1>12 DEF Settles, Settled
  <2>5. SkippedIn(b, u) = SkippedIn(b, s) \cup {m} /\ ReadyIn(b, u) = ReadyIn(b, s)
    BY <1>12, <2>3, <2>4 DEF SkippedIn, ReadyIn
  <2>6. u.edges = EdgesAfter(b.edges, n, sel, SkippedIn(b, u))
    BY <2>2, <2>4, <2>5 DEF Settles, EdgesAfter
  (* The edges of a pending node were unknown, so no decision rests on them. *)
  <2>7. \A e \in Edges : Src[e] = m => s.edges[e] = "unknown"
    <3>1. m \notin SkippedIn(b, s)
      BY <1>12 DEF SkippedIn
    <3>2. \A e \in Edges : Src[e] = m => b.edges[e] = "unknown"
      BY <2>4 DEF Settled
    <3> QED BY <2>4, <3>1, <3>2 DEF Settles, EdgesAfter
  <2>8. ASSUME NEW q \in Nodes, Known(s, q)
        PROVE Known(u, q) /\ (HasTaken(u.edges, q) <=> HasTaken(s.edges, q))
    <3>1. \A e \in In(q) : e \in Edges /\ Src[e] # m
      BY <2>7, <2>8 DEF Known, In
    <3>2. \A e \in In(q) : u.edges[e] = s.edges[e]
      BY <2>2, <3>1
    <3> QED BY <2>8, <3>2 DEF Known, HasTaken
  <2>9. \A q : Reached(b, n, s, q) => Reached(b, n, u, q)
    BY <2>5 DEF Reached
  <2>10. ASSUME NEW q \in Nodes
         PROVE \/ u.nodes[q] = b.nodes[q]
               \/ /\ b.nodes[q] = "pending" /\ u.nodes[q] \in {"ready", "skipped"}
                  /\ Known(u, q) /\ Reached(b, n, u, q)
                  /\ u.nodes[q] = "ready" <=> HasTaken(u.edges, q)
    <3>1. CASE q = m
      BY <1>8, <1>12, <2>3, <2>4, <2>8, <2>9, <3>1
    <3>2. CASE q # m
      BY <2>3, <2>8, <2>9, <3>2 DEF Settles
    <3> QED BY <3>1, <3>2
  <2> DEFINE list == InOrder(m)
  <2>11. /\ list \in Seq(Nodes) /\ \A i \in DOMAIN list : list[i] \in Targets(m)
         /\ \A q \in Targets(m) : \E i \in DOMAIN list : list[i] = q
    BY ListsTargets
  <2>12. u.calls = list \o t.calls
    BY <2>2
  <2> HIDE DEF list
  <2>13. /\ \A i \in DOMAIN u.calls : \/ \E j \in DOMAIN list : u.calls[i] = list[j]
                                      \/ \E j \in DOMAIN t.calls : u.calls[i] = t.calls[j]
         /\ \A j \in DOMAIN list : \E i \in DOMAIN u.calls : u.calls[i] = list[j]
         /\ \A j \in DOMAIN t.calls : \E i \in DOMAIN u.calls : u.calls[i] = t.calls[j]
    <3>1. list \in Seq(Nodes) /\ t.calls \in Seq(Nodes)
      BY <1>4, <2>11
    <3>2. Joins(u.calls, list, t.calls)
      BY <2>12, <3>1, Concatenated
    <3> QED BY <3>2 DEF Joins
  <2>14. \A q \in Targets(m) : Reached(b, n, u, q)
    <3>1. m \in SkippedIn(b, u)
      BY <2>5
    <3> QED BY <3>1 DEF Targets, Reached, In, Out
  <2>15. \A i \in DOMAIN u.calls : Reached(b, n, u, u.calls[i])
    <3>1. \A j \in DOMAIN t.calls : Reached(b, n, u, t.calls[j])
      BY <1>6, <2>9 DEF Settles
    <3> QED BY <2>11, <2>13, <2>14, <3>1
  <2>16. ASSUME NEW q \in Nodes, u.nodes[q] = "pending", Known(u, q), Reached(b, n, u, q)
         PROVE \E i \in DOMAIN u.calls : u.calls[i] = q
    <3>1. q # m /\ s.nodes[q] = "pending"
      BY <2>3, <2>16
    <3>2. CASE q \in Targets(m)
      BY <2>11, <2>13, <3>2
    <3>3. CASE q \notin Targets(m)
      <4>1. \A e \in In(q) : e \in Edges /\ Src[e] # m
        BY <3>3 DEF Targets, In, Out
      <4>2. Known(s, q) /\ Reached(b, n, s, q)
        BY <2>2, <2>5, <2>16, <4>1 DEF Known, Reached
      <4>3. PICK j \in DOMAIN s.calls : s.calls[j] = q
        BY <3>1, <4>2 DEF Settles
      <4> QED BY <1>7, <2>13, <3>1, <4>3
    <3> QED BY <3>2, <3>3
  <2>17. u.ready = b.ready \cup ReadyIn(b, u)
    BY <2>2, <2>5 DEF Settles
  <2> QED BY <2>1, <2>2, <2>6, <2>10, <2>15, <2>16, <2>17 DEF Settles
<1> QED BY <1>10, <1>11, <1>12
-----------------------------------------------------------------------------
(* Calls come to an end: every arc is followed once. *)
ArcsOf(m) == {a \in Arcs : a[1] = m}
Open(s) == {a \in Arcs : s.nodes[a[1]] = "pending"}
Left(s) == Len(s.calls) + Cardinality(Open(s))

LEMMA ArcsAreFinite ==
  /\ IsFiniteSet(Arcs) /\ Cardinality(Arcs) \in Nat
  /\ \A S \in SUBSET Arcs : IsFiniteSet(S) /\ Cardinality(S) \in Nat
<1>1. Arcs \in SUBSET (Nodes \X Nodes)
  BY GraphAssumption DEF IsWorkflowGraph, Arcs
<1>2. IsFiniteSet(Nodes \X Nodes)
  BY GraphAssumption, FS_Product DEF IsWorkflowGraph
<1>3. IsFiniteSet(Arcs)
  BY <1>1, <1>2, FS_Subset
<1> QED BY <1>3, FS_Subset, FS_CardinalityType

(* A node calls on as many targets as it has arcs. *)
LEMMA ArcsToTargets ==
  ASSUME NEW m \in Nodes
  PROVE Cardinality(ArcsOf(m)) = Cardinality(Targets(m))
<1> DEFINE arc == [t \in Targets(m) |-> <<m, t>>]
<1>1. \A t \in Targets(m) : <<m, t>> \in ArcsOf(m)
  BY DEF Targets, ArcsOf, Arcs, Out
<1>2. \A a \in ArcsOf(m) : \E t \in Targets(m) : <<m, t>> = a
  BY DEF Targets, ArcsOf, Arcs, Out
<1>3. arc \in [Targets(m) -> ArcsOf(m)] /\ \A t \in Targets(m) : arc[t] = <<m, t>>
  BY <1>1
<1> HIDE DEF arc
<1>4. arc \in Bijection(Targets(m), ArcsOf(m))
  <2>1. IsInjective(arc)
    BY <1>3 DEF IsInjective
  <2>2. \A a \in ArcsOf(m) : \E t \in Targets(m) : arc[t] = a
    BY <1>2, <1>3
  <2> QED BY <1>3, <2>1, <2>2 DEF Bijection, Injection, Surjection
<1>5. ExistsBijection(Targets(m), ArcsOf(m))
  BY <1>4 DEF ExistsBijection
<1> QED BY <1>5, ListsTargets, FS_Bijection

LEMMA LeftIsNumber ==
  ASSUME NEW s \in Settling
  PROVE Left(s) \in Nat
<1>1. Open(s) \in SUBSET Arcs /\ s.calls \in Seq(Nodes)
  BY DEF Open, Settling
<1> QED BY <1>1, ArcsAreFinite DEF Left

LEMMA CallTakesAnArc ==
  ASSUME NEW s, s \in Settling, s.calls # <<>>
  PROVE Left(NextCall(s)) <= Left(s) - 1
<1>1. s.calls \in Seq(Nodes) /\ s.nodes \in [Nodes -> NodeStatus]
  BY DEF Settling
<1>2. PICK m \in Nodes : m = Head(s.calls)
  BY <1>1
<1> DEFINE t == [s EXCEPT !.calls = Tail(s.calls)]
<1>3. /\ t \in Settling /\ t.nodes = s.nodes /\ t.edges = s.edges /\ t.ready = s.ready
      /\ t.calls = Tail(s.calls) /\ t.calls \in Seq(Nodes) /\ Len(t.calls) = Len(s.calls) - 1
  <2>1. Tail(s.calls) \in Seq(Nodes) /\ Len(Tail(s.calls)) = Len(s.calls) - 1
    BY <1>1
  <2> QED BY <1>1, <2>1 DEF Settling
<1>4. NextCall(s) = Reconcile(t, m)
  BY <1>2 DEF NextCall
<1> HIDE DEF t
<1>5. Len(t.calls) \in Nat /\ Len(s.calls) \in Nat /\ Open(s) \in SUBSET Arcs
  BY <1>1, <1>3 DEF Open
<1>6. Cardinality(Open(s)) \in Nat /\ IsFiniteSet(Open(s))
  BY <1>5, ArcsAreFinite
<1>7. CASE t.nodes[m] # "pending" \/ \E e \in In(m) : t.edges[e] = "unknown"
  <2>1. NextCall(s) = t
    BY <1>4, <1>7 DEF Reconcile
  <2>2. Open(t) = Open(s)
    BY <1>3 DEF Open
  <2>3. Left(t) = Len(t.calls) + Cardinality(Open(s))
    BY <2>2 DEF Left
  <2>4. Left(s) = Len(s.calls) + Cardinality(Open(s)) /\ Len(t.calls) = Len(s.calls) - 1
    BY <1>3 DEF Left
  <2> QED BY <1>5, <1>6, <2>1, <2>3, <2>4
<1>8. CASE ~(t.nodes[m] # "pending" \/ \E e \in In(m) : t.edges[e] = "unknown") /\ HasTaken(t.edges, m)
  <2> DEFINE u == [t EXCEPT !.nodes[m] = "ready", !.ready = t.ready \cup {m}]
  <2>1. NextCall(s) = u
    BY <1>4, <1>8 DEF Reconcile
  <2>2. u.nodes = [s.nodes EXCEPT ![m] = "ready"] /\ u.calls = t.calls
    BY <1>3 DEF Settling
  <2> HIDE DEF u
  <2>3. Open(u) \subseteq Open(s)
    BY <1>1, <2>2 DEF Open
  <2>4. Cardinality(Open(u)) <= Cardinality(Open(s)) /\ Cardinality(Open(u)) \in Nat
    <3>1. IsFiniteSet(Open(u)) /\ Cardinality(Open(u)) <= Cardinality(Open(s))
      BY <1>6, <2>3, FS_Subset
    <3> QED BY <3>1, FS_CardinalityType
  <2> QED BY <1>3, <1>5, <1>6, <2>1, <2>2, <2>4 DEF Left
<1>9. CASE ~(t.nodes[m] # "pending" \/ \E e \in In(m) : t.edges[e] = "unknown") /\ ~HasTaken(t.edges, m)
  <2> DEFINE u == [t EXCEPT !.nodes[m] = "skipped",
                            !.edges = [e \in Edges |-> IF Src[e] = m THEN "skipped" ELSE t.edges[e]],
                            !.calls = InOrder(m) \o t.calls]
  <2>1. NextCall(s) = u
    BY <1>4, <1>9 DEF Reconcile
  <2>2. u.nodes = [s.nodes EXCEPT ![m] = "skipped"] /\ u.calls = InOrder(m) \o t.calls
    BY <1>3 DEF Settling
  <2> HIDE DEF u
  <2>3. Len(u.calls) = Cardinality(Targets(m)) + Len(t.calls) /\ Cardinality(Targets(m)) \in Nat
    <3>1. /\ InOrder(m) \in Seq(Nodes) /\ Len(InOrder(m)) = Cardinality(Targets(m))
          /\ Cardinality(Targets(m)) \in Nat
      BY ListsTargets
    <3>2. Len(InOrder(m) \o t.calls) = Len(InOrder(m)) + Len(t.calls)
      BY <1>3, <3>1
    <3> QED BY <2>2, <3>1, <3>2
  <2>4. Open(s) = Open(u) \cup ArcsOf(m) /\ Open(u) \cap ArcsOf(m) = {}
    <3>1. \A a \in Arcs : a[1] \in Nodes
      BY GraphAssumption DEF IsWorkflowGraph, Arcs
    <3>2. s.nodes[m] = "pending" /\ u.nodes[m] = "skipped" /\ \A q \in Nodes \ {m} : u.nodes[q] = s.nodes[q]
      BY <1>1, <1>3, <1>9, <2>2
    <3> QED BY <3>1, <3>2 DEF Open, ArcsOf
  <2>5. /\ IsFiniteSet(Open(u)) /\ IsFiniteSet(ArcsOf(m))
        /\ Cardinality(Open(u)) \in Nat /\ Cardinality(ArcsOf(m)) \in Nat
    <3>1. Open(u) \in SUBSET Arcs /\ ArcsOf(m) \in SUBSET Arcs
      BY DEF Open, ArcsOf
    <3> QED BY <3>1, ArcsAreFinite
  <2>6. Cardinality(Open(s)) = Cardinality(Open(u)) + Cardinality(ArcsOf(m))
    <3>1. Cardinality(Open(u) \cup ArcsOf(m)) = Cardinality(Open(u)) + Cardinality(ArcsOf(m)) - Cardinality({})
      BY <2>4, <2>5, FS_Union
    <3>2. Cardinality({}) = 0
      BY FS_EmptySet
    <3> QED BY <2>4, <2>5, <3>1, <3>2
  <2> QED BY <1>3, <1>5, <1>6, <2>1, <2>3, <2>5, <2>6, ArcsToTargets DEF Left
<1> QED BY <1>7, <1>8, <1>9

(* The settlement of a node is reached call after call. *)
Opening(s, n, sel) == [s EXCEPT !.edges = EdgesAfter(s.edges, n, sel, {}), !.calls = InOrder(n)]
(* A call gives a settlement again. *)
LEMMA CallTyped ==
  ASSUME NEW s \in Settling
  PROVE NextCall(s) \in Settling
<1>1. CASE s.calls = <<>>
  BY <1>1 DEF NextCall
<1>2. CASE s.calls # <<>>
  <2>1. s.calls \in Seq(Nodes) /\ s.nodes \in [Nodes -> NodeStatus] /\ s.edges \in [Edges -> EdgeStatus]
    BY DEF Settling
  <2>2. PICK m \in Nodes : m = Head(s.calls)
    BY <1>2, <2>1
  <2> DEFINE t == [s EXCEPT !.calls = Tail(s.calls)]
  <2>3. t \in Settling /\ t.nodes = s.nodes /\ t.edges = s.edges /\ t.calls \in Seq(Nodes)
    <3>1. Tail(s.calls) \in Seq(Nodes)
      BY <1>2, <2>1
    <3> QED BY <2>1, <3>1 DEF Settling
  <2>4. NextCall(s) = Reconcile(t, m)
    BY <1>2, <2>2 DEF NextCall
  <2> HIDE DEF t
  <2>5. [t EXCEPT !.nodes[m] = "ready", !.ready = t.ready \cup {m}] \in Settling
    BY <2>3 DEF Settling, NodeStatus
  <2>6. [t EXCEPT !.nodes[m] = "skipped",
                  !.edges = [e \in Edges |-> IF Src[e] = m THEN "skipped" ELSE t.edges[e]],
                  !.calls = InOrder(m) \o t.calls] \in Settling
    <3>1. InOrder(m) \o t.calls \in Seq(Nodes)
      BY <2>3, ListsTargets
    <3>2. [e \in Edges |-> IF Src[e] = m THEN "skipped" ELSE t.edges[e]] \in [Edges -> EdgeStatus]
      BY <2>1, <2>3 DEF EdgeStatus
    <3> QED BY <2>3, <3>1, <3>2 DEF Settling, NodeStatus
  <2> QED BY <2>3, <2>4, <2>5, <2>6 DEF Reconcile
<1> QED BY <1>1, <1>2

LEMMA OpeningTyped ==
  ASSUME NEW b, NEW n, Settled(b, n), NEW sel
  PROVE /\ Opening(b, n, sel) \in Settling
        /\ Opening(b, n, sel).nodes = b.nodes /\ Opening(b, n, sel).ready = b.ready
        /\ Opening(b, n, sel).edges = EdgesAfter(b.edges, n, sel, {})
        /\ Opening(b, n, sel).calls = InOrder(n)
<1>1. b \in Settling /\ n \in Nodes /\ b.edges \in [Edges -> EdgeStatus]
  BY DEF Settled, Settling
<1>2. EdgesAfter(b.edges, n, sel, {}) \in [Edges -> EdgeStatus]
  BY <1>1 DEF EdgesAfter, EdgeStatus
<1>3. InOrder(n) \in Seq(Nodes)
  BY <1>1, ListsTargets
<1> QED BY <1>1, <1>2, <1>3 DEF Opening, Settling


LEMMA SettlementUnfolds ==
  ASSUME NEW b, NEW n, Settled(b, n), NEW sel
  PROVE \E after : /\ after[0] = Opening(b, n, sel)
                   /\ \A k \in 1 .. Cardinality(Arcs) : after[k] = NextCall(after[k - 1])
                   /\ SettleOutgoing(b, n, sel) = after[Cardinality(Arcs)]
<1> DEFINE N == Cardinality(Arcs)
           X == Settling
           F == [k \in Nat |-> [s \in X |-> NextCall(s)]]
           o == Opening(b, n, sel)
           after[k \in 0 .. N] ==
             IF k = 0 THEN [b EXCEPT !.edges = EdgesAfter(b.edges, n, sel, {}), !.calls = InOrder(n)]
             ELSE NextCall(after[k - 1])
<1>1. o \in X
  BY OpeningTyped
<1>2. F \in [Nat -> [X -> X]]
  BY CallTyped
<1>3. N \in Nat
  BY ArcsAreFinite
<1>4. PICK f : Computes(f, N, X, o, F)
  <2> HIDE DEF X, N, F, after, o
  <2> QED BY <1>1, <1>2, <1>3, Iterates
<1>5. \A k \in 0 .. N : f[k] = IF k = 0 THEN o ELSE NextCall(f[k - 1])
  <2> HIDE DEF N, after, o
  <2>1. ASSUME NEW k \in 0 .. N, k # 0
        PROVE F[k][f[k - 1]] = NextCall(f[k - 1])
    <3>1. f[k - 1] \in X /\ k \in Nat
      <4> HIDE DEF X, F
      <4> QED BY <1>3, <1>4, <2>1 DEF Computes
    <3> HIDE DEF X
    <3> QED BY <3>1
  <2> HIDE DEF F, X
  <2> QED BY <1>4, <2>1 DEF Computes
<1>6. f = [k \in 0 .. N |-> f[k]]
  <2> HIDE DEF X, N, F, after, o
  <2> QED BY <1>4 DEF Computes
<1>7. f = [k \in 0 .. N |-> IF k = 0 THEN [b EXCEPT !.edges = EdgesAfter(b.edges, n, sel, {}), !.calls = InOrder(n)]
                            ELSE NextCall(f[k - 1])]
  <2>1. o = [b EXCEPT !.edges = EdgesAfter(b.edges, n, sel, {}), !.calls = InOrder(n)]
    BY Zenon DEF Opening
  <2> DEFINE z == [b EXCEPT !.edges = EdgesAfter(b.edges, n, sel, {}), !.calls = InOrder(n)]
  <2> HIDE DEF X, N, F, after, o, z
  <2>2. o = z
    BY <2>1, Zenon DEF z
  <2>3. f = [k \in 0 .. N |-> IF k = 0 THEN z ELSE NextCall(f[k - 1])]
    BY <1>5, <1>6, <2>2
  <2> QED BY <2>3, Zenon DEF z
<1>8. after = [k \in 0 .. N |-> IF k = 0 THEN [b EXCEPT !.edges = EdgesAfter(b.edges, n, sel, {}), !.calls = InOrder(n)]
                                ELSE NextCall(after[k - 1])]
  BY <1>7, Zenon
<1>9. SettleOutgoing(b, n, sel) = after[N]
  BY Zenon DEF SettleOutgoing
<1>10. \A k \in 0 .. N : after[k] = IF k = 0 THEN o ELSE NextCall(after[k - 1])
  <2> HIDE DEF N, F, X, after
  <2> QED BY <1>8, Zenon DEF Opening
<1> HIDE DEF after, o
<1>11. after[0] = o /\ \A k \in 1 .. N : after[k] = NextCall(after[k - 1])
  <2> HIDE DEF N
  <2> QED BY <1>3, <1>10
<1> QED BY <1>9, <1>11 DEF o

(* The first calls are on the targets of the node that succeeded. *)
LEMMA OpeningSettles ==
  ASSUME NEW b, NEW n, Settled(b, n), NEW sel
  PROVE Settles(b, n, sel, Opening(b, n, sel)) /\ Left(Opening(b, n, sel)) <= Cardinality(Arcs)
<1> DEFINE o == Opening(b, n, sel)
<1>1. /\ o \in Settling /\ o.nodes = b.nodes /\ o.ready = b.ready
      /\ o.edges = EdgesAfter(b.edges, n, sel, {}) /\ o.calls = InOrder(n)
  BY OpeningTyped
<1> HIDE DEF o
<1>2. SkippedIn(b, o) = {} /\ ReadyIn(b, o) = {}
  BY <1>1 DEF SkippedIn, ReadyIn
<1>3. n \in Nodes /\ b.nodes[n] = "succeeded"
  BY DEF Settled
<1>4. /\ \A i \in DOMAIN o.calls : o.calls[i] \in Targets(n)
      /\ \A t \in Targets(n) : \E i \in DOMAIN o.calls : o.calls[i] = t
      /\ Len(o.calls) = Cardinality(Targets(n)) /\ Cardinality(Targets(n)) \in Nat
  BY <1>1, <1>3, ListsTargets
<1>5. \A q : Reached(b, n, o, q) <=> q \in Targets(n)
  BY <1>2 DEF Reached, Targets, In, Out
<1>6. Settles(b, n, sel, o)
  BY <1>1, <1>2, <1>4, <1>5 DEF Settles
<1>7. Open(o) \in SUBSET Arcs /\ ArcsOf(n) \in SUBSET Arcs /\ Open(o) \cap ArcsOf(n) = {}
  BY <1>1, <1>3 DEF Open, ArcsOf
<1>8. /\ IsFiniteSet(Open(o)) /\ IsFiniteSet(ArcsOf(n)) /\ IsFiniteSet(Arcs)
      /\ Cardinality(Open(o)) \in Nat /\ Cardinality(ArcsOf(n)) \in Nat /\ Cardinality(Arcs) \in Nat
  BY <1>7, ArcsAreFinite
<1>9. Cardinality(Open(o) \cup ArcsOf(n)) = Cardinality(Open(o)) + Cardinality(ArcsOf(n))
  BY <1>7, <1>8, FS_Union, FS_EmptySet
<1>10. Cardinality(Open(o) \cup ArcsOf(n)) <= Cardinality(Arcs)
  <2>1. Open(o) \cup ArcsOf(n) \in SUBSET Arcs
    BY <1>7
  <2> QED BY <1>8, <2>1, FS_Subset
<1>11. Left(o) <= Cardinality(Arcs)
  BY <1>3, <1>4, <1>8, <1>9, <1>10, ArcsToTargets DEF Left
<1> QED BY <1>6, <1>11 DEF o

(* What settleOutgoingEdges leaves: every call is made, and every node reached that could
   be decided is decided. *)
LEMMA SettlementEnds ==
  ASSUME NEW b, NEW n, Settled(b, n), NEW sel
  PROVE Settles(b, n, sel, SettleOutgoing(b, n, sel)) /\ SettleOutgoing(b, n, sel).calls = <<>>
<1>1. PICK after : /\ after[0] = Opening(b, n, sel)
                   /\ \A k \in 1 .. Cardinality(Arcs) : after[k] = NextCall(after[k - 1])
                   /\ SettleOutgoing(b, n, sel) = after[Cardinality(Arcs)]
  BY SettlementUnfolds
<1>2. PICK N \in Nat : N = Cardinality(Arcs)
  BY ArcsAreFinite
<1> DEFINE T == {k \in 0 .. N : /\ Settles(b, n, sel, after[k])
                               /\ (after[k].calls = <<>> \/ Left(after[k]) + k <= N)}
<1>3. 0 \in T
  <2>1. Left(Opening(b, n, sel)) \in Nat
    <3>1. Opening(b, n, sel) \in Settling
      BY OpeningTyped
    <3> QED BY <3>1, LeftIsNumber
  <2> QED BY <1>1, <1>2, <2>1, OpeningSettles
<1>4. ASSUME NEW k \in 1 .. N, k - 1 \in T
      PROVE k \in T
  <2> DEFINE s == after[k - 1]
  <2>1. after[k] = NextCall(s)
    BY <1>1, <1>2
  <2>2. Settles(b, n, sel, s) /\ (s.calls = <<>> \/ Left(s) + (k - 1) <= N)
    BY <1>4
  <2> HIDE DEF s
  <2>3. Settles(b, n, sel, NextCall(s))
    BY <2>2, CallSettles
  <2>4. s \in Settling
    BY <2>2 DEF Settles
  <2>5. CASE s.calls = <<>>
    <3>1. NextCall(s).calls = <<>>
      BY <2>5 DEF NextCall
    <3> QED BY <2>1, <2>3, <3>1
  <2>6. CASE s.calls # <<>>
    <3>1. Left(NextCall(s)) <= Left(s) - 1
      BY <2>4, <2>6, CallTakesAnArc
    <3>2. Left(s) \in Nat /\ Left(NextCall(s)) \in Nat
      BY <2>4, CallTyped, LeftIsNumber
    <3>3. Left(NextCall(s)) + k <= N
      BY <1>2, <2>2, <2>6, <3>1, <3>2
    <3> QED BY <2>1, <2>3, <3>3
  <2> QED BY <2>5, <2>6
<1>5. N \in T
  <2> HIDE DEF T
  <2>1. \A k \in 0 .. N : k \in T
    BY <1>2, <1>3, <1>4, Upwards
  <2> QED BY <1>2, <2>1
<1>6. Settles(b, n, sel, after[N]) /\ (after[N].calls = <<>> \/ Left(after[N]) + N <= N)
  BY <1>5
<1>7. after[N].calls = <<>>
  <2> DEFINE s == after[N]
  <2> HIDE DEF s
  <2>1. s \in Settling /\ s.calls \in Seq(Nodes)
    BY <1>6 DEF Settles, Settling, s
  <2> SUFFICES ASSUME Left(s) + N <= N PROVE s.calls = <<>>
    BY <1>6 DEF s
  <2>2. Left(s) \in Nat
    BY <2>1, LeftIsNumber
  <2>3. Cardinality(Open(s)) \in Nat /\ Len(s.calls) \in Nat
    <3>1. Open(s) \in SUBSET Arcs
      BY DEF Open
    <3> QED BY <2>1, <3>1, ArcsAreFinite
  <2>4. Len(s.calls) = 0
    BY <1>2, <2>2, <2>3 DEF Left
  <2> QED BY <2>1, <2>4
<1> QED BY <1>1, <1>2, <1>6, <1>7
-----------------------------------------------------------------------------
(* Which nodes are skipped is determined by the graph: of two solutions, none differs
   first. *)
LEMMA SkipSetIsUnique ==
  ASSUME NEW b, NEW n, NEW sel, NEW S, NEW T,
         IsSkipSet(b.nodes, b.edges, n, sel, S), IsSkipSet(b.nodes, b.edges, n, sel, T)
  PROVE S = T
<1> SUFFICES ASSUME S # T PROVE FALSE
  OBVIOUS
<1>1. S \subseteq Nodes /\ T \subseteq Nodes
  BY DEF IsSkipSet, Resolved
<1> DEFINE D == {m \in Nodes : (m \in S) # (m \in T)}
           Ranks == {Rank[m] : m \in D}
<1>2. PICK m \in D : TRUE
  BY <1>1
<1>3. Ranks \in SUBSET Nat /\ Ranks # {}
  BY <1>2, GraphAssumption DEF IsWorkflowGraph
<1>4. PICK k \in Ranks : \A l \in Ranks : k <= l
  <2> HIDE DEF Ranks
  <2> QED BY <1>3, LeastNatural
<1>5. PICK q \in D : k = Rank[q]
  BY <1>4
<1>6. ASSUME NEW e \in In(q)
      PROVE Src[e] \in S <=> Src[e] \in T
  <2>1. Src[e] \in Nodes /\ Rank[Src[e]] < Rank[q] /\ Rank[q] \in Nat /\ Rank[Src[e]] \in Nat
    BY GraphAssumption DEF IsWorkflowGraph, In
  <2>2. Src[e] \notin D
    <3> SUFFICES ASSUME Src[e] \in D PROVE FALSE
      OBVIOUS
    <3>1. k <= Rank[Src[e]]
      BY <1>4
    <3> QED BY <1>5, <2>1, <3>1
  <2> QED BY <2>1, <2>2
<1>7. \A e \in In(q) : EdgesAfter(b.edges, n, sel, S)[e] = EdgesAfter(b.edges, n, sel, T)[e]
  BY <1>6 DEF EdgesAfter, In
<1>8. q \in Resolved(b.nodes, b.edges, n, sel, S) <=> q \in Resolved(b.nodes, b.edges, n, sel, T)
  BY <1>6, <1>7 DEF Resolved
<1>9. HasTaken(EdgesAfter(b.edges, n, sel, S), q) <=> HasTaken(EdgesAfter(b.edges, n, sel, T), q)
  BY <1>7 DEF HasTaken
<1>10. q \in S <=> q \in T
  BY <1>8, <1>9 DEF IsSkipSet
<1> QED BY <1>10

(* Once every call is made, the nodes skipped are the solution, and the nodes that became
   ready those of the solution. *)
LEMMA SettledAsDefined ==
  ASSUME NEW b, NEW n, Settled(b, n), NEW sel, NEW s, Settles(b, n, sel, s), s.calls = <<>>
  PROVE LET S == SkippedIn(b, s)
        IN /\ IsSkipSet(b.nodes, b.edges, n, sel, S)
           /\ s.edges = EdgesAfter(b.edges, n, sel, S)
           /\ s.ready = b.ready \cup NewlyReady(b.nodes, b.edges, n, sel, S)
<1> DEFINE S == SkippedIn(b, s)
           R == Resolved(b.nodes, b.edges, n, sel, S)
<1>1. s.edges = EdgesAfter(b.edges, n, sel, S) /\ s.ready = b.ready \cup ReadyIn(b, s)
  BY DEF Settles
<1>2. \A m \in Nodes : m \in R <=> b.nodes[m] = "pending" /\ Reached(b, n, s, m) /\ Known(s, m)
  BY <1>1 DEF Resolved, Reached, Known
<1>3. \A m \in Nodes : ~(s.nodes[m] = "pending" /\ Known(s, m) /\ Reached(b, n, s, m))
  BY DEF Settles
<1>4. ASSUME NEW m \in R
      PROVE s.nodes[m] \in {"ready", "skipped"} /\ (s.nodes[m] = "ready" <=> HasTaken(s.edges, m))
  <2>1. m \in Nodes
    BY DEF Resolved
  <2>2. b.nodes[m] = "pending" /\ s.nodes[m] # "pending"
    BY <1>2, <1>3, <2>1
  <2> QED BY <2>1, <2>2 DEF Settles
<1>5. ASSUME NEW m \in Nodes, b.nodes[m] = "pending", s.nodes[m] \in {"ready", "skipped"}
      PROVE m \in R
  <2>1. Known(s, m) /\ Reached(b, n, s, m)
    BY <1>5 DEF Settles
  <2> QED BY <1>2, <1>5, <2>1
<1>6. R \subseteq Nodes /\ \A m \in R : b.nodes[m] = "pending"
  BY DEF Resolved
<1> HIDE DEF R
<1>7. S = {m \in R : ~HasTaken(s.edges, m)}
  BY <1>4, <1>5, <1>6 DEF SkippedIn
<1>8. ReadyIn(b, s) = {m \in R : HasTaken(s.edges, m)}
  BY <1>4, <1>5, <1>6 DEF ReadyIn
<1>9. IsSkipSet(b.nodes, b.edges, n, sel, S)
  <2> HIDE DEF S
  <2> QED BY <1>1, <1>7 DEF IsSkipSet, R
<1>10. ReadyIn(b, s) = NewlyReady(b.nodes, b.edges, n, sel, S)
  <2> HIDE DEF S
  <2> QED BY <1>1, <1>8 DEF NewlyReady, R
<1> QED BY <1>1, <1>9, <1>10
-----------------------------------------------------------------------------
(* The execution: the edges of a node are unknown exactly until it has settled, and the
   last settlement started from such a state. *)
SettlementInv ==
  /\ nodes \in [Nodes -> NodeStatus] /\ edges \in [Edges -> EdgeStatus] /\ ready \in SUBSET Nodes
  /\ \A m \in ready : nodes[m] = "ready"
  /\ \A e \in Edges : nodes[Src[e]] \in {"pending", "ready"} => edges[e] = "unknown"
  /\ last.sel # {} => /\ Settled(last.before, last.at)
                      /\ \E s : /\ Settles(last.before, last.at, last.sel, s) /\ s.calls = <<>>
                                /\ nodes = s.nodes /\ edges = s.edges /\ ready = s.ready

LEMMA CompletionSettles ==
  ASSUME SettlementInv, NEW n \in Nodes, Complete(n)
  PROVE SettlementInv'
<1> DEFINE b == [nodes |-> [nodes EXCEPT ![n] = "succeeded"], edges |-> edges, ready |-> ready \ {n},
                 calls |-> <<>>]
<1>1. PICK sel \in Choices[n] :
        LET after == SettleOutgoing(b, n, sel)
        IN /\ n \in ready
           /\ nodes' = after.nodes /\ edges' = after.edges /\ ready' = after.ready
           /\ last' = [at |-> n, sel |-> sel, before |-> b]
  BY Zenon DEF Complete
<1>2. /\ b \in Settling /\ b.nodes = [nodes EXCEPT ![n] = "succeeded"] /\ b.edges = edges
      /\ b.ready = ready \ {n}
  BY DEF SettlementInv, Settling, NodeStatus
<1> HIDE DEF b
<1>3. b.nodes[n] = "succeeded" /\ \A m \in Nodes \ {n} : b.nodes[m] = nodes[m]
  BY <1>2 DEF SettlementInv
<1>4. Settled(b, n)
  <2>1. ASSUME NEW e \in Edges, b.nodes[Src[e]] = "pending"
        PROVE b.edges[e] = "unknown"
    <3>1. Src[e] \in Nodes
      BY GraphAssumption DEF IsWorkflowGraph
    <3>2. nodes[Src[e]] = "pending"
      BY <1>3, <2>1, <3>1
    <3> QED BY <1>2, <3>2 DEF SettlementInv
  <2> QED BY <1>2, <1>3, <2>1 DEF Settled
<1>5. PICK s : s = SettleOutgoing(b, n, sel)
  OBVIOUS
<1>6. Settles(b, n, sel, s) /\ s.calls = <<>>
  BY <1>4, <1>5, SettlementEnds
<1>7. nodes' = s.nodes /\ edges' = s.edges /\ ready' = s.ready /\ last' = [at |-> n, sel |-> sel, before |-> b]
  BY <1>1, <1>5
<1>8. nodes' \in [Nodes -> NodeStatus] /\ edges' \in [Edges -> EdgeStatus] /\ ready' \in SUBSET Nodes
  BY <1>6, <1>7 DEF Settles, Settling
<1>9. ASSUME NEW m \in ready'
      PROVE nodes'[m] = "ready"
  <2>1. m \in Nodes /\ (m \in b.ready \/ m \in ReadyIn(b, s))
    BY <1>6, <1>7, <1>8, <1>9 DEF Settles
  <2>2. CASE m \in b.ready
    <3>1. b.nodes[m] = "ready"
      BY <1>2, <1>3, <2>1, <2>2 DEF SettlementInv
    <3> QED BY <1>6, <1>7, <2>1, <3>1 DEF Settles
  <2>3. CASE m \in ReadyIn(b, s)
    BY <1>7, <2>3 DEF ReadyIn
  <2> QED BY <2>1, <2>2, <2>3
<1>10. ASSUME NEW e \in Edges, nodes'[Src[e]] \in {"pending", "ready"}
       PROVE edges'[e] = "unknown"
  <2>1. Src[e] \in Nodes
    BY GraphAssumption DEF IsWorkflowGraph
  <2>2. s.nodes[Src[e]] \in {"pending", "ready"}
    BY <1>7, <1>10
  <2>3. Src[e] # n /\ b.nodes[Src[e]] \in {"pending", "ready"}
    BY <1>3, <1>6, <2>1, <2>2 DEF Settles
  <2>4. edges[e] = "unknown"
    BY <1>3, <2>1, <2>3 DEF SettlementInv
  <2>5. Src[e] \notin SkippedIn(b, s)
    BY <2>2 DEF SkippedIn
  <2>6. s.edges = EdgesAfter(edges, n, sel, SkippedIn(b, s))
    BY <1>2, <1>6 DEF Settles
  <2> QED BY <1>7, <2>3, <2>4, <2>5, <2>6 DEF EdgesAfter
<1>11. last'.at = n /\ last'.sel = sel /\ last'.before = b
  BY <1>7
<1>12. Settled(last.before, last.at)' /\ Settles(last'.before, last'.at, last'.sel, s)
  BY <1>4, <1>6, <1>11 DEF Settled, Settling
<1> QED BY <1>6, <1>7, <1>8, <1>9, <1>10, <1>12 DEF SettlementInv

(* A workflow is executed by settlements that all end. *)
THEOREM SettlementsEnd == SettlementSpec => []SettlementInv
<1>1. Init => SettlementInv
  BY GraphAssumption DEF Init, SettlementInv, IsWorkflowGraph, NodeStatus, EdgeStatus
<1>2. SettlementInv /\ [Next]_vars => SettlementInv'
  <2> SUFFICES ASSUME SettlementInv, [Next]_vars PROVE SettlementInv'
    OBVIOUS
  <2>1. CASE Next
    BY <2>1, CompletionSettles DEF Next
  <2>2. CASE UNCHANGED vars
    <3>1. nodes' = nodes /\ edges' = edges /\ ready' = ready /\ last' = last
      BY <2>2 DEF vars
    <3>2. CASE last.sel = {}
      BY <3>1, <3>2 DEF SettlementInv
    <3>3. CASE last.sel # {}
      <4>1. Settled(last.before, last.at)
        BY <3>3 DEF SettlementInv
      <4>2. PICK s : /\ Settles(last.before, last.at, last.sel, s) /\ s.calls = <<>>
                     /\ nodes = s.nodes /\ edges = s.edges /\ ready = s.ready
        BY <3>3 DEF SettlementInv
      <4>3. PICK b, n, sel : b = last.before /\ n = last.at /\ sel = last.sel
        OBVIOUS
      <4>4. last'.before = b /\ last'.at = n /\ last'.sel = sel
        BY <3>1, <4>3
      <4>5. Settled(b, n) /\ Settles(b, n, sel, s)
        BY <4>1, <4>2, <4>3
      <4>6. Settled(last.before, last.at)' /\ Settles(last'.before, last'.at, last'.sel, s)
        BY <4>4, <4>5 DEF Settled, Settling
      <4> QED BY <3>1, <4>2, <4>6 DEF SettlementInv
    <3> QED BY <3>2, <3>3
  <2> QED BY <2>1, <2>2
<1> QED BY <1>1, <1>2, PTL DEF SettlementSpec

(* The recursion of reconcileNode computes the one solution of the declarative definition
   of settlement (RecursionMeetsDefinition). *)
THEOREM RecursionIsDefinition == SettlementSpec => []RecursionMeetsDefinition
<1>1. ASSUME SettlementInv, last.sel # {}
      PROVE LET b == last.before
                skips == {S \in SUBSET {m \in Nodes : b.nodes[m] = "pending"} :
                             IsSkipSet(b.nodes, b.edges, last.at, last.sel, S)}
            IN \E S \in skips :
                 /\ skips = {S}
                 /\ S = {m \in Nodes : b.nodes[m] = "pending" /\ nodes[m] = "skipped"}
                 /\ edges = EdgesAfter(b.edges, last.at, last.sel, S)
                 /\ ready = b.ready \cup NewlyReady(b.nodes, b.edges, last.at, last.sel, S)
  <2> DEFINE b == last.before
             n == last.at
             sel == last.sel
             skips == {S \in SUBSET {m \in Nodes : b.nodes[m] = "pending"} :
                          IsSkipSet(b.nodes, b.edges, n, sel, S)}
  <2>1. PICK s : /\ Settles(b, n, sel, s) /\ s.calls = <<>>
                 /\ nodes = s.nodes /\ edges = s.edges /\ ready = s.ready
    BY <1>1 DEF SettlementInv
  <2>2. Settled(b, n)
    BY <1>1 DEF SettlementInv
  <2> DEFINE S == SkippedIn(b, s)
  <2>3. /\ IsSkipSet(b.nodes, b.edges, n, sel, S)
        /\ edges = EdgesAfter(b.edges, n, sel, S)
        /\ ready = b.ready \cup NewlyReady(b.nodes, b.edges, n, sel, S)
    <3> HIDE DEF b, n, sel
    <3> QED BY <2>1, <2>2, SettledAsDefined
  <2>4. S = {m \in Nodes : b.nodes[m] = "pending" /\ nodes[m] = "skipped"}
    BY <2>1 DEF SkippedIn
  <2> HIDE DEF S, b, n, sel
  <2>5. S \in skips
    BY <2>3, <2>4
  <2>6. \A T \in skips : T = S
    BY <2>3, SkipSetIsUnique
  <2>7. skips = {S}
    <3> HIDE DEF skips
    <3> QED BY <2>5, <2>6
  <2> QED BY <2>3, <2>4, <2>5, <2>7 DEF b, n, sel
<1>2. SettlementInv => RecursionMeetsDefinition
  BY <1>1, Zenon DEF RecursionMeetsDefinition
<1> QED BY <1>2, SettlementsEnd, PTL

-----------------------------------------------------------------------------
(* A command line is a command and its words. *)
LineOK == line \in Seq(STRING) /\ line # <<>>

(* The contracts of the commands: no option of a command is a flag of any. *)
Agreed(c) == /\ c.options \cap FlagWords = {} /\ c.flags \subseteq FlagWords
             /\ c.options \cup c.flags \subseteq Dashed

(* The words of a line are numbered strings. *)
LEMMA WordsAreStrings ==
  ASSUME LineOK
  PROVE \E n \in Nat : /\ Words \in Seq(STRING) /\ Len(Words) = n /\ DOMAIN Words = 1 .. n
                       /\ \A i \in 1 .. n : Words[i] \in STRING
<1>1. Words \in Seq(STRING)
  BY DEF LineOK, Words
<1> HIDE DEF Words
<1>2. PICK w \in Seq(STRING) : w = Words
  BY <1>1
<1>3. /\ Len(w) \in Nat /\ DOMAIN w = 1 .. Len(w) /\ \A i \in 1 .. Len(w) : w[i] \in STRING
  OBVIOUS
<1> QED BY <1>2, <1>3

(* What the check of the words knows after the first k of them. *)
Checking == [ok : BOOLEAN, awaits : BOOLEAN, named : SUBSET STRING, positionals : Seq(STRING)]
Unchecked == [ok |-> TRUE, awaits |-> FALSE, named |-> {}, positionals |-> <<>>]
(* Checking one more word. *)
LEMMA CheckTyped ==
  ASSUME NEW c, NEW s \in Checking, NEW w \in STRING
  PROVE CheckWord(c, s, w) \in Checking
<1>1. s.positionals \in Seq(STRING) /\ s.named \in SUBSET STRING /\ s.ok \in BOOLEAN
  BY DEF Checking
<1>2. Append(s.positionals, w) \in Seq(STRING)
  BY <1>1
<1>3. CASE s.awaits
  BY <1>3 DEF CheckWord, Checking
<1>4. CASE ~s.awaits /\ w \notin Dashed
  BY <1>2, <1>4 DEF CheckWord, Checking
<1>5. CASE ~s.awaits /\ w \in Dashed
  BY <1>5 DEF CheckWord, Checking
<1> QED BY <1>3, <1>4, <1>5

CheckRuns(f, c, words, n) ==
  /\ f \in [0 .. n -> Checking] /\ f[0] = Unchecked
  /\ \A k \in 1 .. n : f[k] = CheckWord(c, f[k - 1], words[k])
  /\ Checked(c, words) = f[n]
(* The check of a line is a sequence of checks of one word. *)
LEMMA CheckUnfolds ==
  ASSUME NEW c, NEW words \in Seq(STRING), NEW n \in Nat, n = Len(words), \A i \in 1 .. n : words[i] \in STRING
  PROVE \E f : CheckRuns(f, c, words, n)
<1> DEFINE X == Checking
           F == [k \in Nat |-> [s \in X |-> IF k \in 1 .. n THEN CheckWord(c, s, words[k]) ELSE s]]
           after[k \in 0 .. Len(words)] ==
             IF k = 0 THEN [ok |-> TRUE, awaits |-> FALSE, named |-> {}, positionals |-> <<>>]
             ELSE CheckWord(c, after[k - 1], words[k])
<1>1. Unchecked \in X
  BY DEF Unchecked, Checking
<1>2. F \in [Nat -> [X -> X]]
  BY CheckTyped
<1>3. PICK f : Computes(f, n, X, Unchecked, F)
  <2> HIDE DEF X, F, after
  <2> QED BY <1>1, <1>2, Iterates
<1>4. f \in [0 .. n -> X] /\ f[0] = Unchecked /\ \A k \in 1 .. n : f[k] = CheckWord(c, f[k - 1], words[k])
  <2> HIDE DEF after
  <2>1. ASSUME NEW k \in 1 .. n
        PROVE F[k][f[k - 1]] = CheckWord(c, f[k - 1], words[k])
    <3>1. k - 1 \in 0 .. n /\ k \in Nat
      OBVIOUS
    <3>2. f[k - 1] \in X
      <4> HIDE DEF X, F
      <4> QED BY <1>3, <3>1 DEF Computes
    <3> HIDE DEF X
    <3> QED BY <3>1, <3>2
  <2> HIDE DEF F, X
  <2> QED BY <1>3, <2>1 DEF Computes
<1>5. f = [k \in 0 .. n |-> IF k = 0 THEN Unchecked ELSE CheckWord(c, f[k - 1], words[k])]
  <2> HIDE DEF X, F, after
  <2>1. f = [k \in 0 .. n |-> f[k]]
    BY <1>4
  <2>2. \A k \in 0 .. n : f[k] = IF k = 0 THEN Unchecked ELSE CheckWord(c, f[k - 1], words[k])
    BY <1>4
  <2> QED BY <2>1, <2>2, Zenon
<1>6. f = [k \in 0 .. Len(words) |->
             IF k = 0 THEN [ok |-> TRUE, awaits |-> FALSE, named |-> {}, positionals |-> <<>>]
             ELSE CheckWord(c, f[k - 1], words[k])]
  BY <1>5, Zenon DEF Unchecked
<1>7. after = [k \in 0 .. Len(words) |->
                 IF k = 0 THEN [ok |-> TRUE, awaits |-> FALSE, named |-> {}, positionals |-> <<>>]
                 ELSE CheckWord(c, after[k - 1], words[k])]
  BY <1>6, Zenon
<1>8. Checked(c, words) = after[n]
  BY Zenon DEF Checked
<1>9. \A k \in 0 .. n : after[k] = IF k = 0 THEN Unchecked ELSE CheckWord(c, after[k - 1], words[k])
  <2> HIDE DEF F, X, after
  <2> QED BY <1>7, Zenon DEF Unchecked
<1> HIDE DEF after, F, X
<1>10. after[0] = Unchecked /\ \A k \in 1 .. n : after[k] = CheckWord(c, after[k - 1], words[k])
  BY <1>9
<1>11. after \in [0 .. n -> X]
  <2> DEFINE T == {k \in 0 .. n : after[k] \in X}
  <2>1. 0 \in T
    BY <1>1, <1>10
  <2>2. ASSUME NEW k \in 1 .. n, k - 1 \in T
        PROVE k \in T
    <3>1. after[k - 1] \in Checking /\ words[k] \in STRING
      BY <2>2 DEF X
    <3>2. CheckWord(c, after[k - 1], words[k]) \in Checking
      BY <3>1, CheckTyped
    <3> QED BY <1>10, <3>2 DEF X
  <2>3. \A k \in 0 .. n : k \in T
    <3> HIDE DEF T
    <3> QED BY <2>1, <2>2, Upwards
  <2>4. \E d : after = [k \in 0 .. n |-> IF k = 0 THEN Unchecked ELSE d[k]]
    <3>1. after = [k \in 0 .. n |-> IF k = 0 THEN Unchecked ELSE CheckWord(c, after[k - 1], words[k])]
      BY <1>7, Zenon DEF Unchecked
    <3> DEFINE d == [k \in 0 .. n |-> CheckWord(c, after[k - 1], words[k])]
    <3>2. after = [k \in 0 .. n |-> IF k = 0 THEN Unchecked ELSE d[k]]
      BY <3>1
    <3> QED BY <3>2
  <2> QED BY <2>3, <2>4
<1> QED BY <1>8, <1>10, <1>11 DEF X, CheckRuns

(* The reading of the positionals, likewise. *)
Reading == [skip : BOOLEAN, found : Seq(STRING)]
Unread == [skip |-> FALSE, found |-> <<>>]
(* Reading one more word. *)
LEMMA ReadTyped ==
  ASSUME NEW s \in Reading, NEW w \in STRING
  PROVE ReadWord(s, w) \in Reading
<1>1. Append(s.found, w) \in Seq(STRING)
  BY DEF Reading
<1> QED BY <1>1 DEF ReadWord, Reading

(* The reading of a line is a sequence of readings of one word. *)
LEMMA ReadingUnfolds ==
  ASSUME NEW n \in Nat, Words \in Seq(STRING), n = Len(Words), \A i \in 1 .. n : Words[i] \in STRING
  PROVE \E f : /\ f[0] = Unread
               /\ \A k \in 1 .. n : f[k] = ReadWord(f[k - 1], Words[k])
               /\ Positionals = f[n].found
<1> DEFINE X == Reading
           F == [k \in Nat |-> [s \in X |-> IF k \in 1 .. n THEN ReadWord(s, Words[k]) ELSE s]]
           after[k \in 0 .. Len(Words)] == IF k = 0 THEN [skip |-> FALSE, found |-> <<>>]
                                           ELSE ReadWord(after[k - 1], Words[k])
<1>1. Unread \in X
  BY DEF Unread, Reading
<1>2. F \in [Nat -> [X -> X]]
  BY ReadTyped
<1>3. PICK f : Computes(f, n, X, Unread, F)
  <2> HIDE DEF X, F, after
  <2> QED BY <1>1, <1>2, Iterates
<1>4. f \in [0 .. n -> X] /\ f[0] = Unread /\ \A k \in 1 .. n : f[k] = ReadWord(f[k - 1], Words[k])
  <2> HIDE DEF after
  <2>1. ASSUME NEW k \in 1 .. n
        PROVE F[k][f[k - 1]] = ReadWord(f[k - 1], Words[k])
    <3>1. k - 1 \in 0 .. n /\ k \in Nat
      OBVIOUS
    <3>2. f[k - 1] \in X
      <4> HIDE DEF X, F
      <4> QED BY <1>3, <3>1 DEF Computes
    <3> HIDE DEF X
    <3> QED BY <3>1, <3>2
  <2> HIDE DEF F, X
  <2> QED BY <1>3, <2>1 DEF Computes
<1>5. f = [k \in 0 .. n |-> IF k = 0 THEN Unread ELSE ReadWord(f[k - 1], Words[k])]
  <2> HIDE DEF X, F, after
  <2>1. f = [k \in 0 .. n |-> f[k]]
    BY <1>4
  <2>2. \A k \in 0 .. n : f[k] = IF k = 0 THEN Unread ELSE ReadWord(f[k - 1], Words[k])
    BY <1>4
  <2> QED BY <2>1, <2>2, Zenon
<1>6. f = [k \in 0 .. Len(Words) |-> IF k = 0 THEN [skip |-> FALSE, found |-> <<>>]
                                    ELSE ReadWord(f[k - 1], Words[k])]
  BY <1>5, Zenon DEF Unread
<1>7. after = [k \in 0 .. Len(Words) |-> IF k = 0 THEN [skip |-> FALSE, found |-> <<>>]
                                        ELSE ReadWord(after[k - 1], Words[k])]
  BY <1>6, Zenon
<1>8. Positionals = after[n].found
  BY Zenon DEF Positionals
<1>9. \A k \in 0 .. n : after[k] = IF k = 0 THEN Unread ELSE ReadWord(after[k - 1], Words[k])
  <2> HIDE DEF F, X, after
  <2> QED BY <1>7, Zenon DEF Unread
<1> HIDE DEF after, F, X
<1>10. after[0] = Unread /\ \A k \in 1 .. n : after[k] = ReadWord(after[k - 1], Words[k])
  BY <1>9
<1> QED BY <1>8, <1>10
-----------------------------------------------------------------------------
(* The rank of a word among those that are neither names nor values. *)
Ordinal(k) == Cardinality({j \in Others : j <= k})

(* The place of a position among the listed ones is how many there are up to it. *)
LEMMA Ordinals ==
  ASSUME NEW n \in Nat, DOMAIN Words = 1 .. n
  PROVE /\ Others \subseteq 1 .. n /\ Ordinal(0) = 0 /\ Ordinal(n) = Cardinality(Others)
        /\ \A k \in 1 .. n : /\ Ordinal(k - 1) \in Nat
                             /\ Ordinal(k) = IF k \in Others THEN Ordinal(k - 1) + 1 ELSE Ordinal(k - 1)
<1>1. Others \subseteq 1 .. n
  BY DEF Others
<1>2. IsFiniteSet(Others)
  <2>1. IsFiniteSet(1 .. n)
    BY FS_Interval
  <2> QED BY <1>1, <2>1, FS_Subset
<1>3. Ordinal(0) = 0
  <2>1. {j \in Others : j <= 0} = {}
    <3>1. \A j \in Others : ~(j <= 0)
      BY <1>1
    <3> QED BY <3>1, Zenon
  <2> QED BY <2>1, FS_EmptySet DEF Ordinal
<1>4. Ordinal(n) = Cardinality(Others)
  <2>1. {j \in Others : j <= n} = Others
    <3>1. \A j \in Others : j <= n
      BY <1>1
    <3> QED BY <3>1, Zenon
  <2> QED BY <2>1 DEF Ordinal
<1>5. ASSUME NEW k \in 1 .. n
      PROVE /\ Ordinal(k - 1) \in Nat
            /\ Ordinal(k) = IF k \in Others THEN Ordinal(k - 1) + 1 ELSE Ordinal(k - 1)
  <2> DEFINE S == {j \in Others : j <= k - 1}
  <2>1. IsFiniteSet(S) /\ S \subseteq Others /\ k \notin S
    <3>1. S \subseteq Others
      OBVIOUS
    <3> QED BY <1>2, <3>1, FS_Subset
  <2>2. Cardinality(S) \in Nat
    BY <2>1, FS_CardinalityType
  <2>3. CASE k \in Others
    <3>1. {j \in Others : j <= k} = S \cup {k}
      <4>1. \A j \in Others : j <= k <=> j <= k - 1 \/ j = k
        BY <1>1
      <4> QED BY <2>3, <4>1, Zenon
    <3>2. Cardinality(S \cup {k}) = Cardinality(S) + 1
      BY <2>1, FS_AddElement
    <3> QED BY <2>2, <2>3, <3>1, <3>2 DEF Ordinal
  <2>4. CASE k \notin Others
    <3>1. {j \in Others : j <= k} = S
      <4>1. \A j \in Others : j <= k <=> j <= k - 1 \/ j = k
        BY <1>1
      <4> QED BY <2>4, <4>1, Zenon
    <3> QED BY <2>2, <2>4, <3>1 DEF Ordinal
  <2> QED BY <2>3, <2>4
<1> QED BY <1>1, <1>3, <1>4, <1>5

(* p lists the other words up to the k-th, in their order. *)
Lists(p, k) ==
  /\ p \in Seq(STRING) /\ Len(p) = Ordinal(k)
  /\ \A i \in Others : i <= k => Ordinal(i) \in 1 .. Ordinal(k) /\ p[Ordinal(i)] = Words[i]
  /\ \A m \in 1 .. Ordinal(k) : \E i \in Others : i <= k /\ Ordinal(i) = m
  /\ \A i, j \in Others : i <= k /\ j <= k /\ Ordinal(i) = Ordinal(j) => i = j

(* Listing one more position, or none. *)
LEMMA ListsGrow ==
  ASSUME NEW n \in Nat, DOMAIN Words = 1 .. n, \A i \in 1 .. n : Words[i] \in STRING,
         NEW k \in 1 .. n, NEW p, Lists(p, k - 1)
  PROVE /\ k \in Others => Lists(Append(p, Words[k]), k)
        /\ k \notin Others => Lists(p, k)
<1>1. /\ Others \subseteq 1 .. n /\ Ordinal(k - 1) \in Nat
      /\ Ordinal(k) = IF k \in Others THEN Ordinal(k - 1) + 1 ELSE Ordinal(k - 1)
  BY Ordinals
<1>2. \A i \in Others : i <= k <=> i <= k - 1 \/ i = k
  BY <1>1
<1>3. /\ p \in Seq(STRING) /\ Len(p) = Ordinal(k - 1)
      /\ \A i \in Others : i <= k - 1 => Ordinal(i) \in 1 .. Ordinal(k - 1) /\ p[Ordinal(i)] = Words[i]
      /\ \A m \in 1 .. Ordinal(k - 1) : \E i \in Others : i <= k - 1 /\ Ordinal(i) = m
      /\ \A i, j \in Others : i <= k - 1 /\ j <= k - 1 /\ Ordinal(i) = Ordinal(j) => i = j
  BY DEF Lists
<1>4. CASE k \in Others
  <2>1. PICK m \in Nat : m = Ordinal(k - 1) /\ Ordinal(k) = m + 1
    BY <1>1, <1>4
  <2>2. PICK q : q = Append(p, Words[k])
    OBVIOUS
  <2>3. q \in Seq(STRING) /\ Len(q) = m + 1 /\ q[m + 1] = Words[k] /\ \A i \in 1 .. m : q[i] = p[i]
    BY <1>3, <2>1, <2>2
  <2>4. ASSUME NEW i \in Others, i <= k
        PROVE Ordinal(i) \in 1 .. m + 1 /\ q[Ordinal(i)] = Words[i] /\ (i = k <=> Ordinal(i) = m + 1)
    <3>1. CASE i = k
      BY <2>1, <2>3, <3>1
    <3>2. CASE i # k
      <4>1. Ordinal(i) \in 1 .. m /\ p[Ordinal(i)] = Words[i]
        BY <1>2, <1>3, <2>1, <2>4, <3>2
      <4> QED BY <2>3, <3>2, <4>1
    <3> QED BY <3>1, <3>2
  <2>5. ASSUME NEW l \in 1 .. m + 1
        PROVE \E i \in Others : i <= k /\ Ordinal(i) = l
    <3>1. CASE l = m + 1
      BY <1>4, <2>1, <3>1
    <3>2. CASE l # m + 1
      <4>1. l \in 1 .. m
        BY <3>2
      <4> QED BY <1>2, <1>3, <2>1, <4>1
    <3> QED BY <3>1, <3>2
  <2>6. \A i, j \in Others : i <= k /\ j <= k /\ Ordinal(i) = Ordinal(j) => i = j
    BY <1>2, <1>3, <2>4
  <2>7. Lists(q, k)
    BY <2>1, <2>3, <2>4, <2>5, <2>6 DEF Lists
  <2> QED BY <1>4, <2>2, <2>7
<1>5. CASE k \notin Others
  <2>1. \A i \in Others : i <= k <=> i <= k - 1
    BY <1>2, <1>5
  <2>2. Ordinal(k) = Ordinal(k - 1)
    BY <1>1, <1>5
  <2> QED BY <1>3, <1>5, <2>1, <2>2 DEF Lists
<1> QED BY <1>4, <1>5

(* The words between names and values are listed by no other sequence. *)
LEMMA OneListing ==
  ASSUME NEW n \in Nat, DOMAIN Words = 1 .. n, NEW p, Lists(p, n)
  PROVE p = OtherWords /\ Len(p) = Cardinality(Others) /\ Cardinality(Others) \in Nat
<1>1. Others \subseteq 1 .. n /\ Ordinal(n) = Cardinality(Others)
  BY Ordinals
<1>2. /\ p \in Seq(STRING) /\ Len(p) = Cardinality(Others)
      /\ \A i \in Others : p[Ordinal(i)] = Words[i]
      /\ \A m \in 1 .. Cardinality(Others) : \E i \in Others : Ordinal(i) = m
      /\ \A i, j \in Others : Ordinal(i) = Ordinal(j) => i = j
  BY <1>1 DEF Lists
<1>3. PICK m \in Nat : m = Cardinality(Others) /\ Len(p) = m
  BY <1>2
<1>4. ASSUME NEW k \in 1 .. m
      PROVE p[k] = Words[CHOOSE i \in Others : Cardinality({j \in Others : j <= i}) = k]
  <2>1. \E i \in Others : Cardinality({j \in Others : j <= i}) = k
    BY <1>2, <1>3, <1>4 DEF Ordinal
  <2>2. PICK h : h = CHOOSE i \in Others : Cardinality({j \in Others : j <= i}) = k
    OBVIOUS
  <2>3. h \in Others /\ Cardinality({j \in Others : j <= h}) = k
    BY <2>1, <2>2, Zenon
  <2>4. p[k] = Words[h]
    BY <1>2, <2>3 DEF Ordinal
  <2> QED BY <2>2, <2>4, Zenon
<1>5. p = [k \in 1 .. m |-> p[k]]
  BY <1>2, <1>3
<1>6. p = [k \in 1 .. Cardinality(Others) |->
             Words[CHOOSE i \in Others : Cardinality({j \in Others : j <= i}) = k]]
  BY <1>3, <1>4, <1>5, Zenon
<1> QED BY <1>2, <1>3, <1>6, Zenon DEF OtherWords
-----------------------------------------------------------------------------
(* The words up to the k-th are well formed. *)
FormedTo(c, k) ==
  /\ \A i \in NamedAt : i <= k => /\ Words[i] \in c.options \cup c.flags
                                  /\ \A j \in NamedAt : j <= k /\ Words[i] = Words[j] => i = j
  /\ \A i \in ValueAt : i <= k => Words[i] # "" /\ Words[i] \notin Dashed

(* What the check knows after k words that it had nothing to say about. *)
CheckedTo(c, k, s) ==
  /\ s.awaits <=> k + 1 \in ValueAt
  /\ s.named = {Words[i] : i \in {j \in NamedAt : j <= k}}
  /\ FormedTo(c, k) /\ Lists(s.positionals, k)

LEMMA Positions ==
  ASSUME NEW n \in Nat, DOMAIN Words = 1 .. n
  PROVE /\ NamedAt \subseteq 1 .. n /\ ValueAt \subseteq 1 .. n + 1 /\ 1 \notin ValueAt
        /\ \A k \in 1 .. n : /\ k \in NamedAt <=> Words[k] \in Dashed
                             /\ k + 1 \in ValueAt <=> k \in NamedAt /\ Words[k] \notin FlagWords
                             /\ k \in Others <=> k \notin NamedAt /\ k \notin ValueAt
<1>1. NamedAt \subseteq 1 .. n /\ \A k \in 1 .. n : k \in NamedAt <=> Words[k] \in Dashed
  BY DEF NamedAt
<1>2. \A v : v \in ValueAt <=> \E j \in NamedAt : Words[j] \notin FlagWords /\ v = j + 1
  BY DEF ValueAt
<1>3. ValueAt \subseteq 1 .. n + 1 /\ 1 \notin ValueAt
  BY <1>1, <1>2
<1>4. ASSUME NEW k \in 1 .. n
      PROVE k + 1 \in ValueAt <=> k \in NamedAt /\ Words[k] \notin FlagWords
  <2>1. \A j \in NamedAt : k + 1 = j + 1 => j = k
    BY <1>1
  <2> QED BY <1>2, <2>1
<1>5. \A k \in 1 .. n : k \in Others <=> k \notin NamedAt /\ k \notin ValueAt
  BY DEF Others
<1> QED BY <1>1, <1>3, <1>4, <1>5

(* One more word is checked: what was found before it still is, and the word adds itself. *)
LEMMA WordChecked ==
  ASSUME NEW n \in Nat, DOMAIN Words = 1 .. n, \A i \in 1 .. n : Words[i] \in STRING,
         NEW c, Agreed(c), NEW k \in 1 .. n, NEW s \in Checking, CheckedTo(c, k - 1, s),
         NEW t, t = CheckWord(c, s, Words[k]), t.ok
  PROVE CheckedTo(c, k, t)
<1>1. /\ NamedAt \subseteq 1 .. n /\ ValueAt \subseteq 1 .. n + 1
      /\ k \in NamedAt <=> Words[k] \in Dashed
      /\ k + 1 \in ValueAt <=> k \in NamedAt /\ Words[k] \notin FlagWords
      /\ k \in Others <=> k \notin NamedAt /\ k \notin ValueAt
  BY Positions
<1>2. /\ \A i \in NamedAt : i <= k <=> i <= k - 1 \/ i = k
      /\ \A i \in ValueAt : i <= k <=> i <= k - 1 \/ i = k
  BY <1>1
<1>3. /\ s.awaits <=> k \in ValueAt
      /\ s.named = {Words[i] : i \in {j \in NamedAt : j <= k - 1}}
      /\ FormedTo(c, k - 1) /\ Lists(s.positionals, k - 1)
  BY DEF CheckedTo
<1>4. /\ k \in Others => Lists(Append(s.positionals, Words[k]), k)
      /\ k \notin Others => Lists(s.positionals, k)
  BY <1>3, ListsGrow
<1>5. CASE s.awaits
  <2>1. /\ Words[k] # "" /\ Words[k] \notin Dashed
        /\ t.awaits = FALSE /\ t.named = s.named /\ t.positionals = s.positionals
    BY <1>5 DEF CheckWord, Checking
  <2>2. k \notin NamedAt /\ k \notin Others /\ k + 1 \notin ValueAt
    BY <1>1, <1>3, <1>5, <2>1
  <2>3. {j \in NamedAt : j <= k} = {j \in NamedAt : j <= k - 1}
    BY <1>2, <2>2, Zenon
  <2>4. FormedTo(c, k)
    BY <1>2, <1>3, <2>1, <2>2 DEF FormedTo
  <2> QED BY <1>3, <1>4, <2>1, <2>2, <2>3, <2>4 DEF CheckedTo
<1>6. CASE ~s.awaits /\ Words[k] \notin Dashed
  <2>1. t.awaits = FALSE /\ t.named = s.named /\ t.positionals = Append(s.positionals, Words[k])
    BY <1>6 DEF CheckWord, Checking
  <2>2. k \notin NamedAt /\ k \in Others /\ k + 1 \notin ValueAt /\ k \notin ValueAt
    BY <1>1, <1>3, <1>6
  <2>3. {j \in NamedAt : j <= k} = {j \in NamedAt : j <= k - 1}
    BY <1>2, <2>2, Zenon
  <2>4. FormedTo(c, k)
    BY <1>2, <1>3, <2>2 DEF FormedTo
  <2> QED BY <1>3, <1>4, <2>1, <2>2, <2>3, <2>4 DEF CheckedTo
<1>7. CASE ~s.awaits /\ Words[k] \in Dashed
  <2>1. /\ Words[k] \in c.options \cup c.flags /\ Words[k] \notin s.named
        /\ t.awaits = (Words[k] \notin c.flags) /\ t.named = s.named \cup {Words[k]}
        /\ t.positionals = s.positionals
    BY <1>7 DEF CheckWord, Checking
  <2>2. k \in NamedAt /\ k \notin Others /\ k \notin ValueAt
    BY <1>1, <1>3, <1>7
  <2>3. t.awaits <=> k + 1 \in ValueAt
    BY <1>1, <2>1, <2>2 DEF Agreed
  <2>4. {j \in NamedAt : j <= k} = {j \in NamedAt : j <= k - 1} \cup {k}
    BY <1>2, <2>2, Zenon
  <2>5. t.named = {Words[i] : i \in {j \in NamedAt : j <= k}}
    BY <1>3, <2>1, <2>4
  <2>6. \A i \in NamedAt : i <= k - 1 => Words[i] # Words[k]
    BY <1>3, <2>1
  <2>7. FormedTo(c, k)
    BY <1>2, <1>3, <2>1, <2>2, <2>6 DEF FormedTo
  <2> QED BY <1>4, <2>1, <2>2, <2>3, <2>5, <2>7 DEF CheckedTo
<1> QED BY <1>5, <1>6, <1>7

(* The check approves of the lines that are well formed, and finds what is meant. *)
LEMMA ChecksForm ==
  ASSUME NEW n \in Nat, Words \in Seq(STRING), n = Len(Words), DOMAIN Words = 1 .. n,
         \A i \in 1 .. n : Words[i] \in STRING, NEW c, Agreed(c), Fits(c, Words)
  PROVE /\ FormedTo(c, n) /\ n + 1 \notin ValueAt
        /\ Checked(c, Words).positionals = OtherWords /\ Cardinality(Others) \in c.least .. c.most
<1>1. PICK f : /\ f \in [0 .. n -> Checking] /\ f[0] = Unchecked
               /\ \A k \in 1 .. n : f[k] = CheckWord(c, f[k - 1], Words[k])
               /\ Checked(c, Words) = f[n]
  <2>1. PICK words : words = Words
    OBVIOUS
  <2>2. words \in Seq(STRING) /\ n = Len(words) /\ \A i \in 1 .. n : words[i] \in STRING
    BY <2>1
  <2>3. \E f : CheckRuns(f, c, words, n)
    BY <2>2, CheckUnfolds
  <2> QED BY <2>1, <2>3, Zenon DEF CheckRuns
<1> DEFINE T == {k \in 0 .. n : f[k].ok => CheckedTo(c, k, f[k])}
<1>2. 0 \in T
  <2>1. 1 \notin ValueAt /\ NamedAt \subseteq 1 .. n /\ ValueAt \subseteq 1 .. n + 1 /\ Others \subseteq 1 .. n
    BY Positions, Ordinals
  <2>2. Unchecked.awaits = FALSE /\ Unchecked.named = {} /\ Unchecked.positionals = <<>>
    BY DEF Unchecked
  <2>3. /\ {Words[i] : i \in {j \in NamedAt : j <= 0}} = {}
        /\ \A i \in NamedAt : ~(i <= 0)
        /\ \A i \in ValueAt : ~(i <= 0)
        /\ \A i \in Others : ~(i <= 0)
    <3>1. \A i \in NamedAt : ~(i <= 0)
      BY <2>1
    <3>2. \A i \in ValueAt : ~(i <= 0)
      BY <2>1
    <3>3. \A i \in Others : ~(i <= 0)
      BY <2>1
    <3> QED BY <3>1, <3>2, <3>3, Zenon
  <2>4. FormedTo(c, 0)
    BY <2>3, Zenon DEF FormedTo
  <2>5. Lists(<<>>, 0)
    <3>1. Ordinal(0) = 0
      BY Ordinals
    <3>2. <<>> \in Seq(STRING) /\ Len(<<>>) = 0 /\ 1 .. 0 = {}
      OBVIOUS
    <3> QED BY <2>3, <3>1, <3>2 DEF Lists
  <2>6. CheckedTo(c, 0, Unchecked)
    BY <2>1, <2>2, <2>3, <2>4, <2>5 DEF CheckedTo
  <2> QED BY <1>1, <2>6
<1>3. ASSUME NEW k \in 1 .. n, k - 1 \in T
      PROVE k \in T
  <2>1. f[k - 1] \in Checking /\ f[k] = CheckWord(c, f[k - 1], Words[k])
    BY <1>1
  <2>2. f[k].ok => f[k - 1].ok
    BY <2>1 DEF CheckWord, Checking
  <2>3. f[k - 1].ok => CheckedTo(c, k - 1, f[k - 1])
    BY <1>3
  <2>4. f[k].ok => CheckedTo(c, k, f[k])
    BY <2>1, <2>2, <2>3, WordChecked
  <2> QED BY <2>4
<1>4. n \in T
  <2> HIDE DEF T
  <2>1. \A k \in 0 .. n : k \in T
    BY <1>2, <1>3, Upwards
  <2> QED BY <2>1
<1>5. f[n].ok /\ ~f[n].awaits /\ Len(f[n].positionals) \in c.least .. c.most
  BY <1>1 DEF Fits
<1>6. CheckedTo(c, n, f[n])
  BY <1>4, <1>5
<1>7. Lists(f[n].positionals, n)
  BY <1>6 DEF CheckedTo
<1>8. f[n].positionals = OtherWords /\ Len(f[n].positionals) = Cardinality(Others)
  BY <1>7, OneListing
<1> QED BY <1>1, <1>5, <1>6, <1>8 DEF CheckedTo

(* What is read as positionals is what is meant, once no value is a name. *)
LEMMA ReadsOthers ==
  ASSUME NEW n \in Nat, Words \in Seq(STRING), n = Len(Words), DOMAIN Words = 1 .. n,
         \A i \in 1 .. n : Words[i] \in STRING, NEW c, FormedTo(c, n)
  PROVE Positionals = OtherWords /\ Len(OtherWords) = Cardinality(Others) /\ OtherWords \in Seq(STRING)
<1>1. PICK f : /\ f[0] = Unread
               /\ \A k \in 1 .. n : f[k] = ReadWord(f[k - 1], Words[k])
               /\ Positionals = f[n].found
  BY ReadingUnfolds
<1> DEFINE T == {k \in 0 .. n : (f[k].skip <=> k + 1 \in ValueAt) /\ f[k] \in Reading /\ Lists(f[k].found, k)}
<1>2. 0 \in T
  <2>1. 1 \notin ValueAt /\ Others \subseteq 1 .. n /\ Ordinal(0) = 0
    BY Positions, Ordinals
  <2>2. Unread \in Reading /\ Unread.skip = FALSE /\ Unread.found = <<>>
    BY DEF Unread, Reading
  <2>3. \A i \in Others : ~(i <= 0)
    BY <2>1
  <2>4. <<>> \in Seq(STRING) /\ Len(<<>>) = 0 /\ 1 .. 0 = {}
    OBVIOUS
  <2>5. Lists(<<>>, 0)
    BY <2>1, <2>3, <2>4 DEF Lists
  <2> QED BY <1>1, <2>1, <2>2, <2>5
<1>3. ASSUME NEW k \in 1 .. n, k - 1 \in T
      PROVE k \in T
  <2>1. PICK s \in Reading : s = f[k - 1]
    BY <1>3
  <2>2. (s.skip <=> k \in ValueAt) /\ Lists(s.found, k - 1) /\ f[k] = ReadWord(s, Words[k])
    BY <1>1, <1>3, <2>1
  <2>3. f[k] \in Reading
    BY <2>2, ReadTyped
  <2>4. /\ k \in NamedAt <=> Words[k] \in Dashed
        /\ k + 1 \in ValueAt <=> k \in NamedAt /\ Words[k] \notin FlagWords
        /\ k \in Others <=> k \notin NamedAt /\ k \notin ValueAt
    BY Positions
  <2>5. /\ k \in Others => Lists(Append(s.found, Words[k]), k)
        /\ k \notin Others => Lists(s.found, k)
    BY <2>2, ListsGrow
  <2>6. k \in ValueAt => Words[k] \notin Dashed
    <3>1. k <= n
      OBVIOUS
    <3> QED BY <3>1, Zenon DEF FormedTo
  <2>7. CASE s.skip
    <3>1. f[k].skip = FALSE /\ f[k].found = s.found
      BY <2>2, <2>7 DEF ReadWord, Reading
    <3> QED BY <2>2, <2>3, <2>4, <2>5, <2>6, <2>7, <3>1
  <2>8. CASE ~s.skip /\ Words[k] \in Dashed
    <3>1. f[k].skip = (Words[k] \notin FlagWords) /\ f[k].found = s.found
      BY <2>2, <2>8 DEF ReadWord, Reading
    <3>2. k \in NamedAt /\ k \notin Others
      BY <2>4, <2>8
    <3>3. Lists(f[k].found, k)
      BY <2>5, <3>1, <3>2
    <3>4. f[k].skip <=> k + 1 \in ValueAt
      BY <2>4, <3>1, <3>2
    <3> QED BY <2>3, <3>3, <3>4
  <2>9. CASE ~s.skip /\ Words[k] \notin Dashed
    <3>1. f[k].skip = FALSE /\ f[k].found = Append(s.found, Words[k])
      BY <2>2, <2>9 DEF ReadWord, Reading
    <3>2. k \notin NamedAt /\ k \notin ValueAt /\ k \in Others
      BY <2>2, <2>4, <2>9
    <3>3. Lists(f[k].found, k)
      BY <2>5, <3>1, <3>2
    <3>4. ~f[k].skip /\ k + 1 \notin ValueAt
      BY <2>4, <3>1, <3>2
    <3> QED BY <2>3, <3>3, <3>4
  <2> QED BY <2>7, <2>8, <2>9
<1>4. n \in T
  <2> HIDE DEF T
  <2>1. \A k \in 0 .. n : k \in T
    BY <1>2, <1>3, Upwards
  <2> QED BY <2>1
<1>5. Lists(f[n].found, n)
  BY <1>4
<1>6. /\ f[n].found = OtherWords /\ Len(f[n].found) = Cardinality(Others) /\ f[n].found \in Seq(STRING)
  BY <1>5, OneListing DEF Lists
<1> QED BY <1>1, <1>6
-----------------------------------------------------------------------------
(* What the contract of a line is, and what its command looks for. *)
Governing == IF Command = "draft" THEN DraftContract(OtherWords[1]) ELSE Contract(Command)

(* In every contract an option takes a value and a flag takes none. *)
LEMMA ContractsAgree ==
  /\ \A command : Agreed(Contract(command))
  /\ \A kind : Agreed(DraftContract(kind))
<1>1. ASSUME NEW command
      PROVE Agreed(Contract(command))
  BY DEF Agreed, Contract, Takes, FlagWords, GlobalOptions, Dashed
<1>2. ASSUME NEW kind
      PROVE Agreed(DraftContract(kind))
  BY DEF Agreed, DraftContract, Takes, FlagWords, GlobalOptions, Dashed
<1> QED BY <1>1, <1>2

(* What a command looks for is what its contract allows. *)
LEMMA LooksForAll ==
  ASSUME Positionals = OtherWords, NEW m \in Nat, m \in Governing.least .. Governing.most
  PROVE /\ Governing.options = ReadOptions \cup GlobalOptions /\ Governing.flags = ReadFlags
        /\ ReadOptions \cap GlobalOptions = {}
        /\ ReadPositionals \in Nat /\ m <= ReadPositionals
<1>1. CASE Command = "draft"
  <2>1. Governing = DraftContract(OtherWords[1])
    BY <1>1 DEF Governing
  <2>2. OtherWords[1] \in {"get", "put"}
    BY <2>1 DEF DraftContract, Takes
  <2> QED BY <1>1, <2>1, <2>2 DEF DraftContract, Takes, ReadOptions, ReadFlags, ReadPositionals, GlobalOptions
<1>2. CASE Command # "draft"
  <2>1. Governing = Contract(Command)
    BY <1>2 DEF Governing
  <2>2. Command \in {"search", "describe", "run", "trace", "replay", "resume", "cancel", "nodes", "run-get",
                     "validate", "diff", "publish", "worker"}
    <3> SUFFICES ASSUME Command \notin {"search", "describe", "run", "trace", "replay", "resume", "cancel", "nodes",
                                        "run-get", "validate", "diff", "publish", "worker"}
                 PROVE FALSE
      OBVIOUS
    <3>1. Contract(Command) = Takes({}, {}, 1, 0)
      BY <1>2 DEF Contract
    <3> QED BY <2>1, <3>1 DEF Takes
  <2>3. Governing.options = ReadOptions \cup GlobalOptions
    BY <2>1, <2>2 DEF Contract, Takes, ReadOptions
  <2>4. Governing.flags = ReadFlags
    BY <2>1, <2>2 DEF Contract, Takes, ReadFlags
  <2>5. ReadOptions \cap GlobalOptions = {}
    BY <2>2 DEF ReadOptions, GlobalOptions
  <2>6. ReadPositionals \in Nat /\ Governing.most \in 0 .. ReadPositionals
    <3>1. CASE Command \in {"diff", "nodes"}
      <4>1. ReadPositionals = 2
        BY <3>1 DEF ReadPositionals
      <4>2. Contract(Command).most = 2
        BY <3>1 DEF Contract, Takes
      <4> QED BY <2>1, <4>1, <4>2
    <3>2. CASE Command = "worker"
      BY <2>1, <3>2 DEF Contract, Takes, ReadPositionals
    <3>3. CASE Command \notin {"diff", "nodes", "worker"}
      <4>1. ReadPositionals = 1
        BY <1>2, <3>3 DEF ReadPositionals
      <4>2. Contract(Command).most = 1
        BY <2>2, <3>3 DEF Contract, Takes
      <4> QED BY <2>1, <4>1, <4>2
    <3> QED BY <3>1, <3>2, <3>3
  <2>7. Governing.least \in Nat
    BY <2>1, <2>2 DEF Contract, Takes
  <2> QED BY <2>3, <2>4, <2>5, <2>6, <2>7
<1> QED BY <1>1, <1>2

(* What the check and the contract of a line have to say of it. *)
LEMMA LinesGoverned ==
  ASSUME NEW n \in Nat, Words \in Seq(STRING), n = Len(Words), DOMAIN Words = 1 .. n,
         \A i \in 1 .. n : Words[i] \in STRING, ValidArguments(Command, Words)
  PROVE /\ FormedTo(Governing, n) /\ n + 1 \notin ValueAt /\ Agreed(Governing)
        /\ Cardinality(Others) \in Governing.least .. Governing.most
        /\ Command = "nodes" => OtherWords[1] = "search"
<1>1. PICK c : c = Contract(Command)
  OBVIOUS
<1>2. /\ Fits(c, Words)
      /\ Command = "nodes" => Checked(c, Words).positionals[1] = "search"
      /\ Command = "draft" => Fits(DraftContract(Checked(c, Words).positionals[1]), Words)
  BY <1>1, Zenon DEF ValidArguments
<1>3. Agreed(c)
  BY <1>1, ContractsAgree
<1>4. /\ FormedTo(c, n) /\ n + 1 \notin ValueAt
      /\ Checked(c, Words).positionals = OtherWords /\ Cardinality(Others) \in c.least .. c.most
  BY <1>2, <1>3, ChecksForm
<1>5. CASE Command = "draft"
  <2>1. PICK d : d = DraftContract(OtherWords[1])
    OBVIOUS
  <2>2. Fits(d, Words) /\ Agreed(d) /\ d = Governing
    BY <1>2, <1>4, <1>5, <2>1, ContractsAgree DEF Governing
  <2>3. FormedTo(d, n) /\ Cardinality(Others) \in d.least .. d.most
    BY <2>2, ChecksForm
  <2> QED BY <1>4, <1>5, <2>2, <2>3
<1>6. CASE Command # "draft"
  BY <1>1, <1>2, <1>3, <1>4, <1>6 DEF Governing
<1> QED BY <1>5, <1>6

(* A line that is let through is well formed, and what is asked is what it means. *)
LEMMA LinesUnderstood ==
  ASSUME LineOK, ValidArguments(Command, Words)
  PROVE WellFormed /\ Asked = Meant
<1>1. PICK n \in Nat : /\ Words \in Seq(STRING) /\ Len(Words) = n /\ DOMAIN Words = 1 .. n
                       /\ \A i \in 1 .. n : Words[i] \in STRING
  BY WordsAreStrings
<1>2. PICK c : c = Governing
  OBVIOUS
<1>3. /\ FormedTo(c, n) /\ n + 1 \notin ValueAt /\ Agreed(c)
      /\ Cardinality(Others) \in c.least .. c.most
      /\ Command = "nodes" => OtherWords[1] = "search"
  BY <1>1, <1>2, LinesGoverned
<1>4. /\ Positionals = OtherWords /\ Len(OtherWords) = Cardinality(Others) /\ OtherWords \in Seq(STRING)
  BY <1>1, <1>3, ReadsOthers
<1>5. PICK m \in Nat : m = Cardinality(Others)
  <2>1. Len(OtherWords) \in Nat
    BY <1>4
  <2> QED BY <1>4, <2>1
<1>6. /\ c.options = ReadOptions \cup GlobalOptions /\ c.flags = ReadFlags
      /\ ReadOptions \cap GlobalOptions = {}
      /\ ReadPositionals \in Nat /\ m <= ReadPositionals
  BY <1>2, <1>3, <1>4, <1>5, LooksForAll
<1>7. /\ NamedAt \subseteq 1 .. n /\ ValueAt \subseteq 1 .. n + 1
      /\ \A k \in 1 .. n : /\ k \in NamedAt <=> Words[k] \in Dashed
                           /\ k + 1 \in ValueAt <=> k \in NamedAt /\ Words[k] \notin FlagWords
  BY <1>1, Positions
(* Every name is allowed and given once, and every value is one. *)
<1>8. /\ \A i \in NamedAt : Words[i] \in c.options \cup c.flags
      /\ \A i, j \in NamedAt : Words[i] = Words[j] => i = j
      /\ \A i \in ValueAt : i \in DOMAIN Words /\ Words[i] # "" /\ Words[i] \notin Dashed
  <2>1. \A i \in NamedAt : i <= n
    BY <1>7
  <2>2. \A i \in ValueAt : i \in 1 .. n /\ i <= n
    BY <1>3, <1>7
  <2> QED BY <1>1, <1>3, <2>1, <2>2 DEF FormedTo
<1>9. WellFormed
  <2>1. c = IF Command = "draft" THEN DraftContract(OtherWords[1]) ELSE Contract(Command)
    BY <1>2 DEF Governing
  <2> QED BY <1>3, <1>8, <2>1, Zenon DEF WellFormed
<1> DEFINE options == {i \in NamedAt : Words[i] \notin FlagWords \cup GlobalOptions}
           sought == {name \in ReadOptions : OptionOf(name) # Absent}
(* An option is what follows its name. *)
<1>10. ASSUME NEW h \in options, NEW w, w = Words[h]
       PROVE w \in sought /\ OptionOf(w) = Words[1 + CHOOSE i \in options : Words[i] = w]
  <2>1. h \in NamedAt /\ Words[h] \notin FlagWords /\ Words[h] \in ReadOptions
    BY <1>3, <1>6, <1>8 DEF Agreed
  <2>2. h \in 1 .. n /\ h + 1 \in ValueAt /\ h + 1 \in 1 .. n
    BY <1>1, <1>7, <1>8, <2>1
  <2>3. w = Words[h]
    BY <1>10
  <2>4. w \in Dashed /\ \A i \in 1 .. n : Words[i] = w => i = h
    BY <1>7, <1>8, <2>1, <2>2, <2>3
  <2> DEFINE at == {i \in 1 .. Len(Words) - 1 : Words[i] = w}
  <2>5. at = {h}
    <3>1. h \in 1 .. Len(Words) - 1 /\ \A i \in 1 .. Len(Words) - 1 : i \in 1 .. n
      BY <1>1, <2>2
    <3>2. \A i \in 1 .. Len(Words) - 1 : Words[i] = w <=> i = h
      BY <2>3, <2>4, <3>1
    <3> QED BY <3>1, <3>2, Zenon
  <2>6. h = CHOOSE i \in at : \A j \in at : i <= j
    <3>1. h \in at /\ (\A j \in at : h <= j) /\ \A i \in at : i = h
      BY <2>2, <2>5
    <3> HIDE DEF at
    <3> QED BY <3>1, Zenon
  <2>7. OptionOf(w) = Words[1 + h]
    <3>1. at # {}
      BY <2>5
    <3>2. OptionOf(w) = IF at = {} THEN Absent ELSE Words[1 + CHOOSE i \in at : \A j \in at : i <= j]
      BY Zenon DEF OptionOf
    <3> HIDE DEF at
    <3> QED BY <2>6, <3>1, <3>2, Zenon
  <2>8. Words[1 + h] # Absent
    <3>1. 1 + h = h + 1
      BY <2>2
    <3> QED BY <1>8, <2>2, <3>1, Zenon DEF Absent
  <2>9. h = CHOOSE i \in options : Words[i] = w
    <3>1. h \in options /\ Words[h] = w /\ \A i \in options : Words[i] = w => i = h
      BY <1>7, <2>1, <2>3, <2>4
    <3> HIDE DEF options
    <3> QED BY <3>1, Zenon
  <2> HIDE DEF at, options
  <2> QED BY <2>1, <2>3, <2>7, <2>8, <2>9
<1>11. sought = {Words[i] : i \in options}
  <2>1. ASSUME NEW name \in sought
        PROVE \E i \in options : name = Words[i]
    <3>1. name \in ReadOptions /\ OptionOf(name) # Absent
      OBVIOUS
    <3>2. PICK i \in 1 .. Len(Words) - 1 : Words[i] = name
      BY <3>1 DEF OptionOf
    <3>3. i \in 1 .. n
      BY <1>1
    <3>4. name \in c.options /\ name \notin GlobalOptions
      BY <1>6, <3>1
    <3>5. name \in Dashed /\ name \notin FlagWords
      BY <1>3, <3>4 DEF Agreed
    <3> QED BY <1>7, <3>2, <3>3, <3>4, <3>5
  <2> HIDE DEF sought, options
  <2> QED BY <1>10, <2>1
<1>12. [name \in sought |-> OptionOf(name)]
         = [name \in {Words[i] : i \in options} |-> Words[1 + CHOOSE i \in options : Words[i] = name]]
  <2>1. ASSUME NEW name \in sought
        PROVE OptionOf(name) = Words[1 + CHOOSE i \in options : Words[i] = name]
    <3>1. PICK h \in options : name = Words[h]
      <4> HIDE DEF sought, options
      <4> QED BY <1>11, <2>1
    <3> HIDE DEF sought, options
    <3> QED BY <1>10, <3>1
  <2> HIDE DEF sought, options
  <2> QED BY <1>11, <2>1, Zenon
(* Flags and positionals. *)
<1>13. ReadFlags \cap Supplied = {Words[i] : i \in NamedAt} \cap FlagWords
  <2>1. ASSUME NEW w \in ReadFlags, w \in Supplied
        PROVE w \in FlagWords /\ \E i \in NamedAt : w = Words[i]
    <3>1. PICK i \in 1 .. n : w = Words[i]
      BY <1>1, <2>1 DEF Supplied
    <3> QED BY <1>3, <1>6, <1>7, <3>1 DEF Agreed
  <2>2. ASSUME NEW i \in NamedAt, Words[i] \in FlagWords
        PROVE Words[i] \in ReadFlags /\ Words[i] \in Supplied
    BY <1>1, <1>3, <1>6, <1>7, <1>8, <2>2 DEF Agreed, Supplied
  <2> QED BY <2>1, <2>2
<1>14. SubSeq(Positionals, 1, IF Len(Positionals) < ReadPositionals THEN Len(Positionals) ELSE ReadPositionals)
         = OtherWords
  <2>1. PICK p \in Seq(STRING) : p = Positionals /\ p = OtherWords /\ Len(p) = m
    BY <1>4, <1>5
  <2>2. SubSeq(p, 1, m) = p
    BY <2>1
  <2>3. (IF Len(p) < ReadPositionals THEN Len(p) ELSE ReadPositionals) = m
    BY <1>6, <2>1
  <2> QED BY <2>1, <2>2, <2>3
<1>15. Asked = [on |-> OtherWords, with |-> [name \in sought |-> OptionOf(name)], flags |-> ReadFlags \cap Supplied]
  BY <1>14, Zenon DEF Asked
<1>16. Meant = [on |-> OtherWords,
                with |-> [name \in {Words[i] : i \in options} |-> Words[1 + CHOOSE i \in options : Words[i] = name]],
                flags |-> {Words[i] : i \in NamedAt} \cap FlagWords]
  BY Zenon DEF Meant
<1> HIDE DEF sought, options
<1> QED BY <1>9, <1>12, <1>13, <1>15, <1>16, Zenon
-----------------------------------------------------------------------------
(* What the words mean depends on nothing but the line. *)
LEMMA SameLine ==
  ASSUME line' = line
  PROVE /\ Command' = Command /\ Words' = Words /\ ValidArguments(Command, Words)' = ValidArguments(Command, Words)
        /\ WellFormed' = WellFormed /\ Meant' = Meant
        /\ Following' = Following /\ AfterOption' = AfterOption /\ FollowLimit' = FollowLimit
<1>1. Command' = Command /\ Words' = Words
  BY DEF Command, Words
<1>2. ValidArguments(Command, Words)' = ValidArguments(Command, Words)
  BY <1>1
<1>3. /\ NamedAt' = NamedAt /\ \A name : OptionOf(name)' = OptionOf(name)
  BY <1>1 DEF NamedAt, OptionOf
<1>4. ValueAt' = ValueAt
  BY <1>1, <1>3 DEF ValueAt
<1>5. Others' = Others
  BY <1>1, <1>3, <1>4 DEF Others
<1>6. OtherWords' = OtherWords
  BY <1>1, <1>5 DEF OtherWords
<1>7. WellFormed' = WellFormed
  BY <1>1, <1>3, <1>4, <1>5, <1>6 DEF WellFormed
<1>8. Meant' = Meant
  BY <1>1, <1>3, <1>6 DEF Meant
<1>9. Following' = Following /\ AfterOption' = AfterOption /\ FollowLimit' = FollowLimit
  BY <1>1, <1>3 DEF Following, Supplied, AfterOption, FollowLimit
<1> QED BY <1>1, <1>2, <1>7, <1>8, <1>9
-----------------------------------------------------------------------------
(* From its words to its exit code: a command has opened nothing before its words were
   checked, has asked what they mean, and has printed events and at most one envelope. *)
CommandStages == {"typed", "valid", "resolved", "loaded", "open", "asked", "polling", "printing", "closing", "ended"}
ErrorCodes == {"REVISION_REQUIRED", "AUTHORITY_DENIED", "NOT_FOUND", "REQUEST_INVALID", "OUTPUT_INVALID", "RUN_FAILED",
               "INTERNAL_ERROR", "HOST_LOAD_FAILED", "HOST_INVALID"}
Answers == {"accepted", "completed", "failed", "cancelled", "paused", "done"}
Printable == [says : {"answer", "error", "event"}, what : Nat \cup ErrorCodes \cup Answers]
RunStates == {"none", "running", "paused", "completed", "failed"}
CommandTypes ==
  /\ stage \in CommandStages /\ opened \subseteq {"host", "database", "application"}
  /\ printed \in Seq(Printable)
  /\ seen \in [after : Nat, status : RunStates, page : Nat] /\ followed \in [status : RunStates, seq : Nat]

EventsOnly(n) == \A k \in 1 .. n : printed[k].says = "event" /\ printed[k].what = AfterOption + k
Tracing == Following /\ EventsOnly(Len(printed)) /\ seen.after = AfterOption + Len(printed)
Refused == /\ \E n \in Nat : Len(printed) = n + 1 /\ EventsOnly(n) /\ printed[n + 1].says = "error"
           /\ exit \in 1 .. 6
Answered == /\ ~Following /\ Len(printed) = 1 /\ printed[1].says = "answer"
            /\ exit \in {CodeOf(printed[1].what), 1}
Traced == /\ Tracing /\ (seen.after < followed.seq => seen.page >= FollowLimit)
          /\ exit \in {CodeOf(seen.status), 1}

CommandInv ==
  /\ LineOK /\ CommandTypes
  /\ opened # {} \/ request # NoRequest \/ stage \notin {"typed", "closing", "ended"}
       => ValidArguments(Command, Words)
  /\ stage \in {"typed", "valid", "resolved", "loaded", "open"} => request = NoRequest /\ printed = <<>> /\ seen.after = 0
  /\ stage \in {"open", "asked", "polling", "printing"} => "application" \in opened
  /\ request # NoRequest => request = Meant /\ IF stage = "ended" THEN opened = {} ELSE "application" \in opened
  /\ stage = "asked" => ~Following /\ printed = <<>>
  /\ stage \in {"polling", "printing"} => Tracing
  /\ stage \in {"closing", "ended"} => Refused \/ Answered \/ Traced

Thrown == AccessErrors \cup {BadRequest, AnyError, Denied, <<"access", "HOST_LOAD_FAILED">>, <<"access", "HOST_INVALID">>}
(* Every error has a code that is printed and an exit code that is not 0. *)
LEMMA ErrorsAreNamed ==
  ASSUME NEW error \in Thrown
  PROVE Normalized(error) \in ErrorCodes /\ ExitCode(Normalized(error)) \in 2 .. 6
<1>1. \/ error[1] = "access" /\ error[2] \in ErrorCodes
      \/ error = <<"catalog", "NOT_FOUND">> \/ error = <<"catalog", "ID_MISMATCH">>
      \/ error[1] = "execution" \/ error[1] = "error"
  BY DEF Thrown, AccessErrors, BadRequest, AnyError, Denied, ErrorCodes
<1>2. Normalized(error) \in ErrorCodes
  BY <1>1 DEF Normalized, CatalogErrorCode, ExecutionErrorCode, ErrorCodes
<1>3. ExitCode(Normalized(error)) \in 2 .. 6
  BY DEF ExitCode
<1> QED BY <1>2, <1>3

(* Where a trace starts and the length of its pages are numbers. *)
LEMMA LimitsAreNumbers == AfterOption \in Nat /\ FollowLimit \in Nat
  BY CommandsAssumption DEF CommandsAssumption, AfterOption, FollowLimit

(* An error is the last that is printed. *)
LEMMA ErrorsEnd ==
  ASSUME CommandInv, line' = line, EventsOnly(Len(printed)), NEW error \in Thrown, ReportError(error),
         UNCHANGED <<request, followed>>, seen' \in [after : Nat, status : RunStates, page : Nat],
         opened' \subseteq {"host", "database", "application"},
         opened' # {} => ValidArguments(Command, Words),
         "application" \in opened => "application" \in opened',
         stage # "ended"
  PROVE CommandInv'
<1>1. /\ stage' = "closing" /\ exit' \in 1 .. 6
      /\ printed' = Append(printed, [says |-> "error", what |-> Normalized(error)])
  BY ErrorsAreNamed DEF ReportError
<1>2. PICK p \in Seq(Printable), m \in Nat : p = printed /\ m = Len(p) /\ Len(printed) = m
  BY DEF CommandInv, CommandTypes
<1>3. PICK x \in Printable : x = [says |-> "error", what |-> Normalized(error)] /\ x.says = "error"
  <2>1. PICK w \in ErrorCodes : w = Normalized(error)
    BY ErrorsAreNamed
  <2>2. [says |-> "error", what |-> w] \in Printable
    BY DEF Printable
  <2> QED BY <2>1, <2>2
<1>4. PICK q : q = Append(p, x)
  OBVIOUS
<1>5. /\ q \in Seq(Printable) /\ Len(q) = m + 1 /\ q[m + 1] = x
      /\ \A k \in 1 .. m : q[k] = p[k]
  BY <1>2, <1>4
<1>6. printed' = q
  BY <1>1, <1>2, <1>3, <1>4
<1>7. Refused'
  <2>1. EventsOnly(m)'
    BY <1>2, <1>5, <1>6, SameLine DEF EventsOnly
  <2>2. Len(printed') = m + 1 /\ printed'[m + 1].says = "error"
    BY <1>3, <1>5, <1>6
  <2> QED BY <1>1, <2>1, <2>2 DEF Refused
<1>8. CommandTypes'
  BY <1>1, <1>5, <1>6 DEF CommandInv, CommandTypes, CommandStages
<1>9. LineOK'
  BY DEF CommandInv, LineOK
<1>10. opened' # {} \/ request' # NoRequest => ValidArguments(Command, Words)'
  BY SameLine DEF CommandInv, NoRequest
<1>11. request' # NoRequest => request' = Meant' /\ "application" \in opened'
  BY SameLine DEF CommandInv, NoRequest
<1> QED BY <1>1, <1>7, <1>8, <1>9, <1>10, <1>11 DEF CommandInv, NoRequest

(* What is printed next, while the line is the same. *)
LEMMA PrintedGrows ==
  ASSUME CommandInv, line' = line, NEW x \in Printable, printed' = Append(printed, x)
  PROVE /\ printed' \in Seq(Printable) /\ Len(printed) \in Nat /\ Len(printed') = Len(printed) + 1
        /\ printed'[Len(printed) + 1] = x /\ \A k \in 1 .. Len(printed) : printed'[k] = printed[k]
<1>1. PICK p \in Seq(Printable) : p = printed
  BY DEF CommandInv, CommandTypes
<1>2. PICK q : q = Append(p, x)
  OBVIOUS
<1>3. /\ q \in Seq(Printable) /\ Len(p) \in Nat /\ Len(q) = Len(p) + 1
      /\ q[Len(p) + 1] = x /\ \A k \in 1 .. Len(p) : q[k] = p[k]
  BY <1>2
<1> QED BY <1>1, <1>2, <1>3

(* Nothing is printed before something is answered or followed. *)
LEMMA Unprinted ==
  ASSUME CommandInv, stage \in {"typed", "valid", "resolved", "loaded", "open", "asked"}
  PROVE EventsOnly(Len(printed)) /\ stage # "ended"
<1>1. printed = <<>>
  BY DEF CommandInv
<1>2. 1 .. Len(<<>>) = {}
  OBVIOUS
<1> QED BY <1>1, <1>2 DEF EventsOnly

(* Up to the request. *)
LEMMA BeginningCommand ==
  ASSUME CommandInv, ValidateLine \/ ResolveOptions \/ LoadHost \/ OpenApplication
  PROVE CommandInv'
<1>1. /\ line' = line /\ UNCHANGED <<request, followed, seen>>
      /\ stage \in {"typed", "valid", "resolved", "loaded"}
      /\ seen \in [after : Nat, status : RunStates, page : Nat]
      /\ opened \subseteq {"host", "database", "application"}
      /\ request = NoRequest /\ printed = <<>> /\ seen.after = 0
      /\ opened # {} \/ stage # "typed" => ValidArguments(Command, Words)
  BY DEF ValidateLine, ResolveOptions, LoadHost, OpenApplication, CommandInv, CommandTypes
<1>2. EventsOnly(Len(printed))
  BY <1>1, Unprinted
<1>3. \A error : error \in {BadRequest, AnyError, <<"access", "HOST_LOAD_FAILED">>, <<"access", "HOST_INVALID">>}
        => error \in Thrown
  BY DEF Thrown
<1>4. CASE \E error \in Thrown : /\ ReportError(error) /\ opened' \in {opened, opened \cup {"database"}}
                                 /\ stage = "typed" => opened' = opened
  <2>1. PICK error \in Thrown : /\ ReportError(error) /\ opened' \in {opened, opened \cup {"database"}}
                                /\ stage = "typed" => opened' = opened
    BY <1>4
  <2>2. /\ opened' \subseteq {"host", "database", "application"}
        /\ opened' # {} => ValidArguments(Command, Words)
        /\ "application" \in opened => "application" \in opened'
    BY <1>1, <2>1
  <2>3. UNCHANGED <<request, followed>> /\ seen' \in [after : Nat, status : RunStates, page : Nat] /\ stage # "ended" /\ line' = line
    BY <1>1
  <2> QED BY <1>2, <2>1, <2>2, <2>3, ErrorsEnd
<1>5. CASE /\ UNCHANGED <<printed, exit>> /\ ValidArguments(Command, Words)
           /\ stage' \in {"valid", "resolved", "loaded", "open"}
           /\ opened' \subseteq {"host", "database", "application"}
           /\ stage' = "open" => "application" \in opened'
  <2>1. ValidArguments(Command, Words)'
    BY <1>1, <1>5, SameLine
  <2>2. CommandTypes' /\ LineOK'
    BY <1>1, <1>5 DEF CommandInv, CommandTypes, CommandStages, LineOK
  <2>3. request' = NoRequest /\ printed' = <<>> /\ seen'.after = 0
    BY <1>1, <1>5
  <2> QED BY <1>5, <2>1, <2>2, <2>3 DEF CommandInv, NoRequest
<1>6. CASE ValidateLine
  BY <1>3, <1>4, <1>5, <1>1, <1>6 DEF ValidateLine
<1>7. CASE ResolveOptions
  BY <1>3, <1>4, <1>5, <1>1, <1>7 DEF ResolveOptions
<1>8. CASE LoadHost
  <2>1. {"host"} \subseteq {"host", "database", "application"} /\ stage = "resolved"
    BY <1>8 DEF LoadHost
  <2> QED BY <1>3, <1>4, <1>5, <1>1, <1>8, <2>1 DEF LoadHost
<1>9. CASE OpenApplication
  BY <1>3, <1>4, <1>5, <1>1, <1>9 DEF OpenApplication
<1> QED BY <1>6, <1>7, <1>8, <1>9

(* What executes a command asks what the line means, or refuses it. *)
LEMMA ExecutingCommand ==
  ASSUME CommandInv, ExecuteCommand
  PROVE CommandInv'
<1>1. /\ line' = line /\ UNCHANGED <<opened, followed>> /\ stage = "open"
      /\ seen \in [after : Nat, status : RunStates, page : Nat]
      /\ opened \subseteq {"host", "database", "application"} /\ "application" \in opened
      /\ request = NoRequest /\ printed = <<>> /\ seen.after = 0
      /\ ValidArguments(Command, Words)
  BY DEF ExecuteCommand, CommandInv, CommandTypes
<1>2. EventsOnly(Len(printed))
  BY <1>1, Unprinted
<1>3. CASE \E error \in {BadRequest, AnyError, Denied} : ReportError(error) /\ UNCHANGED <<request, seen>>
  <2>1. PICK error \in Thrown : ReportError(error) /\ UNCHANGED <<request, seen>>
    BY <1>3 DEF Thrown
  <2> QED BY <1>1, <1>2, <2>1, ErrorsEnd
<1>4. CASE /\ request' = Asked /\ stage' = IF Following THEN "polling" ELSE "asked"
           /\ seen' = [seen EXCEPT !.after = AfterOption] /\ UNCHANGED <<printed, exit>>
  <2>1. request' = Meant
    BY <1>1, <1>4, LinesUnderstood DEF CommandInv
  <2>2. /\ seen' \in [after : Nat, status : RunStates, page : Nat] /\ seen'.after = AfterOption
    BY <1>1, <1>4, LimitsAreNumbers
  <2>3. /\ request' = Meant' /\ ValidArguments(Command, Words)' /\ Following' = Following
        /\ AfterOption' = AfterOption /\ printed' = <<>> /\ AfterOption \in Nat
    BY <1>1, <1>4, <2>1, SameLine, LimitsAreNumbers
  <2>4. CommandTypes' /\ LineOK'
    BY <1>1, <1>4, <2>2 DEF CommandInv, CommandTypes, CommandStages, LineOK
  <2>5. Following => Tracing'
    <3>1. Len(<<>>) = 0 /\ 1 .. 0 = {}
      OBVIOUS
    <3>2. Len(printed') = 0 /\ EventsOnly(Len(printed))'
      BY <2>3, <3>1 DEF EventsOnly
    <3> QED BY <2>2, <2>3, <3>2 DEF Tracing
  <2> QED BY <1>1, <1>4, <2>3, <2>4, <2>5 DEF CommandInv
<1> QED BY <1>3, <1>4 DEF ExecuteCommand

(* An answer is the one thing printed. *)
LEMMA AnsweringCommand ==
  ASSUME CommandInv, AccessAnswers
  PROVE CommandInv'
<1>1. /\ line' = line /\ UNCHANGED <<opened, request, followed, seen>> /\ stage = "asked" /\ stage' = "closing"
      /\ ~Following /\ printed = <<>>
  BY DEF AccessAnswers, CommandInv
<1>2. PICK status \in Replies : /\ printed' = Append(printed, [says |-> "answer", what |-> status])
                                /\ exit' = CodeOf(status)
  BY DEF AccessAnswers
<1>3. PICK x \in Printable : x = [says |-> "answer", what |-> status] /\ x.says = "answer" /\ x.what = status
  <2>1. PICK r : r = Replies
    OBVIOUS
  <2>2. \/ r = {"accepted"}
        \/ r = {"completed", "failed", "cancelled", "paused"}
        \/ r = {"done"}
    BY <2>1 DEF Replies
  <2>3. status \in r
    BY <2>1
  <2>4. r \subseteq Answers
    <3>1. {"accepted"} \subseteq Answers
      BY DEF Answers
    <3>2. {"completed", "failed", "cancelled", "paused"} \subseteq Answers
      BY DEF Answers
    <3>3. {"done"} \subseteq Answers
      BY DEF Answers
    <3> HIDE DEF Answers
    <3>4. CASE r = {"accepted"}
      BY <3>1, <3>4, Zenon
    <3>5. CASE r = {"completed", "failed", "cancelled", "paused"}
      BY <3>2, <3>5, Zenon
    <3>6. CASE r = {"done"}
      BY <3>3, <3>6, Zenon
    <3> QED BY <2>2, <3>4, <3>5, <3>6
  <2>5. status \in Answers
    BY <2>3, <2>4
  <2>6. PICK w \in Answers : w = status
    BY <2>5
  <2>7. [says |-> "answer", what |-> w] \in Printable
    BY DEF Printable
  <2> QED BY <2>6, <2>7
<1>4. /\ printed' \in Seq(Printable) /\ Len(printed') = Len(printed) + 1 /\ printed'[Len(printed) + 1] = x
  BY <1>1, <1>2, <1>3, PrintedGrows
<1>5. Len(printed) = 0
  BY <1>1
<1>6. Answered'
  BY <1>1, <1>2, <1>3, <1>4, <1>5, SameLine DEF Answered, CodeOf, EndsBadly
<1>7. CommandTypes' /\ LineOK'
  BY <1>1, <1>4 DEF CommandInv, CommandTypes, CommandStages, LineOK
<1>8. ValidArguments(Command, Words)' /\ (request' # NoRequest => request' = Meant' /\ "application" \in opened')
  BY <1>1, SameLine DEF CommandInv
<1> QED BY <1>1, <1>6, <1>7, <1>8 DEF CommandInv

(* What is printed before the end are events. *)
LEMMA Eventful ==
  ASSUME CommandInv, stage \in {"asked", "polling", "printing"}
  PROVE EventsOnly(Len(printed))
<1>1. CASE stage = "asked"
  BY <1>1, Unprinted
<1>2. CASE stage # "asked"
  BY <1>2 DEF CommandInv, Tracing
<1> QED BY <1>1, <1>2

(* The access layer throws. *)
LEMMA ThrowingCommand ==
  ASSUME CommandInv, AccessThrows
  PROVE CommandInv'
<1>1. /\ line' = line /\ UNCHANGED <<opened, request, followed, seen>> /\ stage \in {"asked", "polling", "printing"}
      /\ seen \in [after : Nat, status : RunStates, page : Nat] /\ opened \subseteq {"host", "database", "application"}
      /\ ValidArguments(Command, Words)
  BY DEF AccessThrows, CommandInv, CommandTypes
<1>2. PICK error \in Thrown : ReportError(error)
  BY DEF AccessThrows, Thrown
<1>3. EventsOnly(Len(printed))
  BY <1>1, Eventful
<1> QED BY <1>1, <1>2, <1>3, ErrorsEnd

(* The steps of a trace that print nothing. *)
LEMMA TracingStays ==
  ASSUME CommandInv, line' = line, stage \in {"polling", "printing"}, stage' \in {"polling", "printing"},
         UNCHANGED <<opened, request, printed>>, seen' \in [after : Nat, status : RunStates, page : Nat], seen'.after = seen.after,
         followed' \in [status : RunStates, seq : Nat]
  PROVE CommandInv'
<1>1. Tracing
  BY DEF CommandInv
<1>2. Tracing'
  BY <1>1, SameLine DEF Tracing, EventsOnly
<1>3. CommandTypes' /\ LineOK'
  BY DEF CommandInv, CommandTypes, CommandStages, LineOK
<1>4. ValidArguments(Command, Words)' /\ (request' # NoRequest => request' = Meant')
  BY SameLine DEF CommandInv
<1> QED BY <1>2, <1>3, <1>4 DEF CommandInv

(* The run goes on, is polled, or is given up. *)
LEMMA FollowingCommand ==
  ASSUME CommandInv, PollRun \/ RunGoesOn \/ InterruptCommand
  PROVE CommandInv'
<1>1. /\ line' = line /\ UNCHANGED <<opened, request>> /\ stage \in {"polling", "printing"}
      /\ seen \in [after : Nat, status : RunStates, page : Nat] /\ followed \in [status : RunStates, seq : Nat]
      /\ opened \subseteq {"host", "database", "application"}
      /\ ValidArguments(Command, Words)
  BY DEF PollRun, RunGoesOn, InterruptCommand, CommandInv, CommandTypes
<1>2. CASE PollRun
  <2>1. CASE ReportError(AnyError) /\ UNCHANGED seen
    <3>1. EventsOnly(Len(printed)) /\ AnyError \in Thrown
      BY <1>1, Eventful DEF Thrown
    <3> QED BY <1>1, <1>2, <2>1, <3>1, ErrorsEnd DEF PollRun
  <2>2. CASE seen' = [seen EXCEPT !.status = followed.status] /\ stage' = "printing" /\ UNCHANGED <<printed, exit>>
    <3>1. seen' \in [after : Nat, status : RunStates, page : Nat] /\ seen'.after = seen.after
      BY <1>1, <2>2
    <3> QED BY <1>1, <1>2, <2>2, <3>1, TracingStays DEF PollRun
  <2> QED BY <1>2, <2>1, <2>2 DEF PollRun
<1>3. CASE RunGoesOn
  <2>1. PICK status \in {"running", "paused", "completed", "failed"} :
          followed' = [status |-> status, seq |-> followed.seq + 1]
    BY <1>3 DEF RunGoesOn
  <2>2. status \in RunStates /\ followed.seq + 1 \in Nat
    <3>1. followed.seq \in Nat
      BY <1>1
    <3>2. status \in RunStates
      BY <2>1 DEF RunStates
    <3> QED BY <3>1, <3>2
  <2>3. followed' \in [status : RunStates, seq : Nat]
    BY <2>1, <2>2
  <2>4. stage' = stage /\ UNCHANGED printed /\ seen' = seen
    BY <1>3 DEF RunGoesOn
  <2> QED BY <1>1, <2>3, <2>4, TracingStays
<1>4. CASE InterruptCommand
  BY <1>1, <1>4, TracingStays DEF InterruptCommand
<1> QED BY <1>2, <1>3, <1>4

(* A page of what is new. *)
LEMMA APageOfEvents ==
  ASSUME NEW after \in Nat, NEW limit \in Nat, NEW seq \in Nat,
         NEW c, c = Cardinality({k \in 1 .. seq : k > after /\ k <= after + limit})
  PROVE c \in Nat /\ (after + c < seq => c >= limit)
<1> DEFINE latest == IF after + limit <= seq THEN after + limit ELSE seq
<1>1. {k \in 1 .. seq : k > after /\ k <= after + limit} = after + 1 .. latest
  OBVIOUS
<1>2. c = IF after + 1 > latest THEN 0 ELSE latest - (after + 1) + 1
  <2>1. after + 1 \in Int /\ latest \in Int
    OBVIOUS
  <2> HIDE DEF latest
  <2> QED BY <1>1, <2>1, FS_Interval
<1> QED BY <1>2

(* The new events are printed after the old ones, and the last page ends the command. *)
LEMMA PrintingCommand ==
  ASSUME CommandInv, PrintEvents
  PROVE CommandInv'
<1>1. /\ line' = line /\ UNCHANGED <<opened, request, followed>> /\ stage = "printing"
      /\ seen \in [after : Nat, status : RunStates, page : Nat] /\ followed \in [status : RunStates, seq : Nat]
      /\ Following /\ EventsOnly(Len(printed)) /\ seen.after = AfterOption + Len(printed)
  BY DEF PrintEvents, CommandInv, CommandTypes, Tracing
<1>2. PICK p \in Seq(Printable), m \in Nat : p = printed /\ m = Len(p) /\ Len(printed) = m
  BY DEF CommandInv, CommandTypes
<1>3. PICK a \in Nat, seq \in Nat, limit \in Nat : a = seen.after /\ seq = followed.seq /\ limit = FollowLimit
  BY <1>1, LimitsAreNumbers
<1>4. PICK c : c = Cardinality({k \in 1 .. seq : k > a /\ k <= a + limit})
  OBVIOUS
<1>5. c \in Nat /\ (a + c < seq => c >= limit)
  BY <1>4, APageOfEvents
<1> DEFINE page == [k \in 1 .. c |-> [says |-> "event", what |-> a + k]]
<1>6. printed' = p \o page /\ seen' = [seen EXCEPT !.after = a + c, !.page = c]
  BY <1>2, <1>3, <1>4 DEF PrintEvents
<1>7. page \in Seq(Printable) /\ Len(page) = c /\ \A k \in 1 .. c : page[k].says = "event" /\ page[k].what = a + k
  <2>1. \A k \in 1 .. c : [says |-> "event", what |-> a + k] \in Printable
    BY DEF Printable
  <2>2. page \in [1 .. c -> Printable]
    BY <2>1
  <2>3. page \in Seq(Printable)
    <3> HIDE DEF page
    <3>1. PICK g \in [1 .. c -> Printable] : g = page
      BY <2>2
    <3>2. g \in Seq(Printable)
      BY <1>5
    <3> QED BY <3>1, <3>2
  <2>4. DOMAIN page = 1 .. c /\ \A k \in 1 .. c : page[k].says = "event" /\ page[k].what = a + k
    OBVIOUS
  <2>5. Len(page) = c
    <3> HIDE DEF page
    <3>1. PICK g \in Seq(Printable) : g = page
      BY <2>3
    <3>2. Len(g) \in Nat /\ DOMAIN g = 1 .. Len(g)
      OBVIOUS
    <3>3. 1 .. Len(g) = 1 .. c
      BY <2>4, <3>1, <3>2
    <3>4. Len(g) = c
      <4>1. PICK l : l = Len(g) /\ l \in Nat
        BY <3>2
      <4> QED BY <1>5, <3>3, <4>1
    <3> QED BY <3>1, <3>4
  <2> QED BY <2>3, <2>4, <2>5
<1>8. PICK q : q = p \o page
  OBVIOUS
<1> HIDE DEF page
<1>9. /\ q \in Seq(Printable) /\ Len(q) = m + c
      /\ \A k \in 1 .. m : q[k] = p[k]
      /\ \A k \in m + 1 .. m + c : q[k] = page[k - m]
  <2>1. PICK g \in Seq(Printable) : g = page /\ Len(g) = c
    BY <1>7
  <2>2. q = p \o g /\ m = Len(p)
    BY <1>2, <1>8, <2>1
  <2>3. q \in Seq(Printable) /\ Len(q) = m + c
    BY <2>1, <2>2
  <2>4. \A k \in 1 .. m + c : q[k] = IF k <= m THEN p[k] ELSE g[k - m]
    BY <2>1, <2>2
  <2> QED BY <1>5, <2>1, <2>3, <2>4
<1>10. AfterOption \in Nat /\ a = AfterOption + m
  BY <1>1, <1>2, <1>3, LimitsAreNumbers
<1>11. \A k \in 1 .. m + c : q[k].says = "event" /\ q[k].what = AfterOption + k
  <2>1. \A k \in 1 .. m : q[k].says = "event" /\ q[k].what = AfterOption + k
    BY <1>1, <1>2, <1>9 DEF EventsOnly
  <2>2. ASSUME NEW k \in m + 1 .. m + c
        PROVE q[k].says = "event" /\ q[k].what = AfterOption + k
    <3>1. k - m \in 1 .. c /\ a + (k - m) = AfterOption + k
      BY <1>5, <1>10
    <3> QED BY <1>7, <1>9, <3>1
  <2>3. \A k \in 1 .. m + c : k \in 1 .. m \/ k \in m + 1 .. m + c
    BY <1>5
  <2> QED BY <2>1, <2>2, <2>3
<1>12. printed' = q /\ Len(printed') = m + c
  BY <1>6, <1>8, <1>9
<1>13. /\ seen' \in [after : Nat, status : RunStates, page : Nat] /\ seen'.after = a + c /\ seen'.page = c
       /\ seen'.status = seen.status
  <2>1. a + c \in Nat
    BY <1>5
  <2>2. PICK t \in [after : Nat, status : RunStates, page : Nat] : t = seen
    BY <1>1
  <2> QED BY <1>5, <1>6, <2>1, <2>2
<1>14. Tracing'
  <2>1. EventsOnly(m + c)'
    BY <1>1, <1>11, <1>12, SameLine DEF EventsOnly
  <2>2. a + c = AfterOption + (m + c)
    BY <1>5, <1>10
  <2> QED BY <1>1, <1>12, <1>13, <2>1, <2>2, SameLine DEF Tracing
<1>15. LineOK' /\ opened' \subseteq {"host", "database", "application"} /\ printed' \in Seq(Printable)
  BY <1>1, <1>9, <1>12 DEF CommandInv, CommandTypes, LineOK
<1>16. /\ ValidArguments(Command, Words)' /\ "application" \in opened'
       /\ (request' # NoRequest => request' = Meant')
  BY <1>1, SameLine DEF CommandInv
<1>17. CASE stage' = "polling"
  <2>1. CommandTypes'
    BY <1>1, <1>13, <1>15, <1>17 DEF CommandTypes, CommandStages
  <2> QED BY <1>14, <1>15, <1>16, <1>17, <2>1 DEF CommandInv
<1>18. CASE stage' = "closing" /\ exit' = CodeOf(seen.status)
  <2>1. CommandTypes'
    BY <1>1, <1>13, <1>15, <1>18 DEF CommandTypes, CommandStages
  <2>2. seen'.after < followed'.seq => seen'.page >= FollowLimit'
    BY <1>1, <1>3, <1>5, <1>13, SameLine
  <2>3. exit' = CodeOf(seen'.status)
    BY <1>13, <1>18 DEF CodeOf, EndsBadly
  <2>4. Traced'
    BY <1>14, <2>2, <2>3 DEF Traced, CodeOf, EndsBadly
  <2> QED BY <1>15, <1>16, <1>18, <2>1, <2>4 DEF CommandInv
<1> QED BY <1>17, <1>18 DEF PrintEvents

(* Closing what is open changes nothing of what was printed. *)
LEMMA ClosingCommand ==
  ASSUME CommandInv, CloseApplication
  PROVE CommandInv'
<1>1. /\ line' = line /\ UNCHANGED <<request, followed, seen, signal, printed>> /\ stage = "closing" /\ stage' = "ended"
      /\ exit' \in {exit, 1} /\ opened' \subseteq opened
      /\ "application" \in opened => opened' = {}
  BY DEF CloseApplication
<1>2. Refused \/ Answered \/ Traced
  BY <1>1 DEF CommandInv
<1>3. Refused => Refused'
  BY <1>1, SameLine DEF Refused, EventsOnly
<1>4. Answered => Answered'
  BY <1>1, SameLine DEF Answered, CodeOf, EndsBadly
<1>5. Traced => Traced'
  BY <1>1, SameLine DEF Traced, Tracing, EventsOnly, CodeOf, EndsBadly
<1>6. CommandTypes' /\ LineOK'
  BY <1>1 DEF CommandInv, CommandTypes, CommandStages, LineOK
<1>7. /\ opened' # {} \/ request' # NoRequest => ValidArguments(Command, Words)'
      /\ request' # NoRequest => request' = Meant' /\ opened' = {}
  BY <1>1, SameLine DEF CommandInv
<1> QED BY <1>1, <1>2, <1>3, <1>4, <1>5, <1>6, <1>7 DEF CommandInv

(* A command opens and asks for nothing before its words are checked, and prints events and
   at most one envelope, whatever fails and whoever interrupts it. *)
THEOREM CommandsCorrect == CommandSpec => []CommandInv
<1>1. CommandInit => CommandInv
  <2> SUFFICES ASSUME CommandInit PROVE CommandInv
    OBVIOUS
  <2>1. PICK words \in CommandLines : Typed(words)
    BY DEF CommandInit
  <2>2. LineOK
    BY <2>1, CommandsAssumption DEF CommandsAssumption, LineOK, Typed
  <2>3. CommandTypes
    <3>1. stage \in CommandStages /\ opened \subseteq {"host", "database", "application"}
      BY <2>1 DEF CommandStages, Typed
    <3>2. <<>> \in Seq(Printable) /\ "none" \in RunStates /\ "running" \in RunStates /\ 0 \in Nat /\ 1 \in Nat
      BY DEF RunStates
    <3>3. seen \in [after : Nat, status : RunStates, page : Nat] /\ followed \in [status : RunStates, seq : Nat] /\ printed \in Seq(Printable)
      BY <2>1, <3>2 DEF Typed
    <3> QED BY <3>1, <3>3 DEF CommandTypes
  <2> QED BY <2>1, <2>2, <2>3 DEF CommandInv, Typed
<1>2. CommandInv /\ [CommandNext]_commandVars => CommandInv'
  <2> SUFFICES ASSUME CommandInv, [CommandNext]_commandVars PROVE CommandInv'
    OBVIOUS
  <2>1. CASE CommandNext
    BY <2>1, BeginningCommand, ExecutingCommand, AnsweringCommand, ThrowingCommand, FollowingCommand, PrintingCommand,
       ClosingCommand DEF CommandNext
  <2>2. CASE UNCHANGED commandVars
    <3>1. line' = line /\ UNCHANGED <<stage, opened, request, followed, seen, printed, exit>>
      BY <2>2 DEF commandVars
    <3>2. /\ Refused' = Refused /\ Answered' = Answered /\ Traced' = Traced /\ Tracing' = Tracing
      <4>1. Following' = Following /\ AfterOption' = AfterOption /\ FollowLimit' = FollowLimit
        BY <3>1, SameLine
      <4>2. Refused' = Refused
        BY <3>1, <4>1 DEF Refused, EventsOnly
      <4>3. Answered' = Answered
        BY <3>1, <4>1 DEF Answered, CodeOf, EndsBadly
      <4>4. Tracing' = Tracing
        BY <3>1, <4>1 DEF Tracing, EventsOnly
      <4>5. Traced' = Traced
        BY <3>1, <4>1, <4>4 DEF Traced, CodeOf, EndsBadly
      <4> QED BY <4>2, <4>3, <4>4, <4>5
    <3>3. CommandTypes' /\ LineOK'
      BY <3>1 DEF CommandInv, CommandTypes, LineOK
    <3> QED BY <3>1, <3>2, <3>3, SameLine DEF CommandInv
  <2> QED BY <2>1, <2>2
<1> QED BY <1>1, <1>2, PTL DEF CommandSpec

(* What is asked of the access layer is what the line means, what is printed is what was
   answered or happened, and the exit code hides no failure (CommandsAreTakenAtTheirWord). *)
THEOREM CommandsAreObeyed == CommandSpec => []CommandsAreTakenAtTheirWord
<1>1. ASSUME CommandInv
      PROVE CommandsAreTakenAtTheirWord
  <2> DEFINE answers == {k \in DOMAIN printed : printed[k].says # "event"}
             streamed == Following /\ answers = {}
             envelope == printed[Len(printed)]
  <2>1. opened # {} => WellFormed
    BY <1>1, LinesUnderstood DEF CommandInv
  <2>2. request # NoRequest => request = Meant /\ (stage = "ended" => opened = {})
    BY <1>1 DEF CommandInv
  <2>3. PICK p \in Seq(Printable), m \in Nat : p = printed /\ m = Len(p) /\ DOMAIN p = 1 .. m
    BY <1>1 DEF CommandInv, CommandTypes
  <2>4. CASE EventsOnly(m)
    <3>1. answers = {} /\ \A k \in DOMAIN printed : printed[k].what = AfterOption + k
      BY <2>3, <2>4 DEF EventsOnly
    <3>2. ASSUME stage = "ended"
          PROVE /\ Traced
                /\ exit = 0 => ~EndsBadly(seen.status)
      <4>1. ~Refused
        BY <2>3, <2>4 DEF Refused, EventsOnly
      <4>2. ~Answered
        BY <2>3, <2>4 DEF Answered, EventsOnly
      <4>3. Traced
        BY <1>1, <3>2, <4>1, <4>2 DEF CommandInv
      <4> QED BY <4>3 DEF Traced, CodeOf
    <3> HIDE DEF answers
    <3>3. stage = "ended" => streamed /\ (seen.after < followed.seq => seen.page >= FollowLimit)
      BY <3>1, <3>2 DEF Traced, Tracing
    <3> HIDE DEF streamed, envelope
    <3>4. \A k \in DOMAIN printed : IF k \in answers THEN k = Len(printed) ELSE printed[k].what = AfterOption + k
      BY <3>1
    <3> QED BY <2>1, <2>2, <3>2, <3>3, <3>4, Zenon DEF CommandsAreTakenAtTheirWord, answers, streamed, envelope
  <2>5. CASE ~EventsOnly(m)
    <3>1. stage \in {"closing", "ended"} /\ (Refused \/ Answered)
      <4>1. 1 .. 0 = {}
        OBVIOUS
      <4>2. printed # <<>> /\ ~Tracing
        BY <2>3, <2>5, <4>1 DEF Tracing, EventsOnly
      <4> QED BY <1>1, <4>2 DEF CommandInv, CommandTypes, CommandStages, Traced
    <3>2. /\ m # 0 /\ printed[m].says # "event" /\ \A k \in 1 .. m - 1 : printed[k].says = "event" /\ printed[k].what = AfterOption + k
          /\ exit = 0 => printed[m].says = "answer" /\ ~EndsBadly(printed[m].what)
      <4>1. CASE Refused
        <5>1. PICK n \in Nat : Len(printed) = n + 1 /\ EventsOnly(n) /\ printed[n + 1].says = "error"
          BY <4>1 DEF Refused
        <5>2. n = m - 1 /\ m = n + 1 /\ exit # 0
          BY <2>3, <4>1, <5>1 DEF Refused
        <5> QED BY <5>1, <5>2 DEF EventsOnly
      <4>2. CASE Answered
        BY <2>3, <4>2 DEF Answered, CodeOf
      <4> QED BY <3>1, <4>1, <4>2
    <3>3. m \in answers /\ \A k \in answers : k = m
      BY <2>3, <3>2
    <3>4. \A k \in DOMAIN printed : IF k \in answers THEN k = Len(printed) ELSE printed[k].what = AfterOption + k
      <4>1. \A k \in 1 .. m : k = m \/ k \in 1 .. m - 1
        OBVIOUS
      <4> QED BY <2>3, <3>2, <3>3, <4>1
    <3>5. Len(printed) = m /\ envelope = printed[m]
      BY <2>3
    <3> HIDE DEF answers, envelope
    <3>6. answers # {} /\ ~streamed /\ (exit = 0 => envelope.says = "answer" /\ ~EndsBadly(envelope.what))
      BY <3>2, <3>3, <3>5
    <3> HIDE DEF streamed
    <3> QED BY <2>1, <2>2, <3>4, <3>6, Zenon DEF CommandsAreTakenAtTheirWord, answers, streamed, envelope
  <2> QED BY <2>4, <2>5
<1> QED BY <1>1, CommandsCorrect, PTL
=============================================================================
