------------------------------- MODULE Studio -------------------------------
(* The editor of the Canvas: the template it shows, the draft it is based on, the label
   it gives the document, the snapshot it keeps in the browser, and its requests, which
   the user goes on editing beside.  A content stands for a template without its
   identifier; a request that is retried because it only reads is one request.  An
   effect is cleaned up together with the change it depends on, and the browser takes
   every snapshot. *)
EXTENDS Naturals, FiniteSets, Sequences

CONSTANTS Documents,       \* identifiers of templates
          Contents,        \* what a template may say
          Blank, Starter,  \* those of blankTemplate and of starterTemplate
          Invalid,         \* the contents that do not validate
          MaxStored,       \* bound: revisions of drafts, all together
          MaxPending       \* bound: requests under way

ASSUME StudioAssumption == Documents # {} /\ {Blank, Starter} \subseteq Contents /\ MaxStored \in Nat

VARIABLES kept,        \* kept[id]: the contents the host stored as revisions 1, 2, ... of a draft
          draft,       \* the draft the studio is based on: [id, revision], revision 0 for none
          template,    \* what it shows: [id, content]
          documentState,
          recovery,    \* the snapshot in localStorage: [draft, template], or none
          due,         \* the timer that writes the snapshot is running
          busy,
          pending,     \* requests under way, each with what its click captured
          slipped,     \* the user edited while a publication was under way
          astray       \* the snapshot was passed over, or cleared for another studio

document == <<draft, template, documentState, due, slipped>>
studioVars == <<kept, recovery, busy, pending, astray, document>>

NoDraft == [id |-> "none", revision |-> 0]
NoRecovery == [draft |-> NoDraft, template |-> [id |-> "none", content |-> "none"]]
Revisions(id) == DOMAIN kept[id]
Latest(id) == Len(kept[id])
Stored == Cardinality({d \in Documents \X (1 .. MaxStored) : d[2] <= Latest(d[1])})
HasUnsavedChanges(state) == state \in {"unsaved", "dirty", "validated-dirty"}

StudioInit ==
    /\ kept = [id \in Documents |-> <<>>]
    /\ draft = NoDraft /\ \E id \in Documents : template = [id |-> id, content |-> Blank]
    /\ documentState = "pristine" /\ recovery = NoRecovery
    /\ busy = FALSE /\ pending = {}
    /\ due = FALSE /\ slipped = FALSE /\ astray = FALSE

(* What the effect that keeps the snapshot depends on has changed: its timer is stopped,
   and started again if the document is unsaved. *)
Rearm == due' = HasUnsavedChanges(documentState')
-----------------------------------------------------------------------------
(* execute: a click captures what the studio shows; the answer is applied later, and
   whichever operation ends first enables the buttons again.  The host refuses to update
   a draft by a template of another identifier.  A request that can only end, or that
   names no draft, is plain. *)
Stores == {"save", "publish"}
Renamed == draft.revision # 0 /\ draft.id # template.id
Plain(op, at) == [op |-> op, at |-> at, id |-> NoDraft.id, revision |-> 0, content |-> Blank]
Request(op, id) ==
    IF op \in Stores /\ Renamed THEN Plain(op, "refused")
    ELSE [op |-> op, at |-> "asked", id |-> id,
          revision |-> IF op \in Stores THEN draft.revision ELSE 0,
          content |-> IF op \in Stores \cup {"validate"} THEN template.content ELSE Blank]
Click(op, id) ==
    /\ Cardinality(pending) < MaxPending
    /\ ~\E p \in pending : p.op = op
    /\ pending' = pending \cup {Request(op, id)}
    /\ busy' = TRUE
    /\ UNCHANGED <<kept, recovery, astray, document>>
Advance(p, q) == pending' = (pending \ {p}) \cup {q}
Finish(p) == pending' = pending \ {p} /\ busy' = FALSE

Target == IF draft.revision = 0 THEN template.id ELSE draft.id
Save == ~busy /\ HasUnsavedChanges(documentState) /\ Click("save", Target)
Publish == ~busy /\ Click("publish", Target)
Validate == ~busy /\ Click("validate", NoDraft.id)         \* of no draft: the request names none
LoadDraft(id) == Revisions(id) # {} /\ Click("load", id)    \* not disabled while busy
SyncCatalog == Click("sync", NoDraft.id)                     \* a timer, the network or the page asks

(* The host creates the draft, or replaces the revision the studio showed; if there is
   another by now, it never will. *)
StoreDraft(p) ==
    /\ p.at = "asked" /\ p.op \in Stores
    /\ Latest(p.id) = p.revision /\ Stored < MaxStored
    /\ kept' = [kept EXCEPT ![p.id] = Append(@, p.content)]
    /\ Advance(p, [p EXCEPT !.at = "stored", !.revision = @ + 1])
    /\ UNCHANGED <<recovery, busy, astray, document>>

(* The answer replaces what the studio shows, as saved. *)
Show(p, content) ==
    /\ draft' = [id |-> p.id, revision |-> p.revision]
    /\ template' = [id |-> p.id, content |-> content]
    /\ documentState' = "saved" /\ Rearm
    /\ slipped' = FALSE /\ astray' = FALSE
Listing(p) == IF p.op = "save" THEN Plain("save", "listing") ELSE [p EXCEPT !.at = "listing"]

\* A save that keeps what the user typed meanwhile, and calls it saved.
SavedMerging(p) ==
    /\ p.at = "stored"
    /\ Show(p, template.content) /\ recovery' = NoRecovery
    /\ Advance(p, Listing(p))
    /\ UNCHANGED <<kept, busy>>

\* A save that leaves the snapshot of the browser behind.
SavedNotClearing(p) ==
    /\ p.at = "stored"
    /\ Show(p, p.content)
    /\ Advance(p, Listing(p))
    /\ UNCHANGED <<kept, busy, recovery>>

Saved(p) ==
    /\ p.at = "stored"
    /\ Show(p, p.content) /\ recovery' = NoRecovery
    /\ Advance(p, Listing(p))      \* await refreshCatalog()
    /\ UNCHANGED <<kept, busy>>

Listed(p) ==
    /\ p.at = "listing"
    /\ IF p.op = "publish"
       THEN Advance(p, [p EXCEPT !.at = "publishing"]) /\ busy' = TRUE
       ELSE Finish(p)
    /\ UNCHANGED <<kept, recovery, astray, document>>

(* The host publishes the revision just saved if it compiles and still is the draft's
   revision; the catalog is listed again before the studio says so. *)
PublishDraft(p) ==
    /\ p.at = "publishing"
    /\ Latest(p.id) = p.revision /\ p.content \notin Invalid
    /\ Advance(p, Plain("publish", "relisting"))
    /\ UNCHANGED <<kept, recovery, busy, astray, document>>
Label(state) ==
    documentState' = state /\ IF state = documentState THEN UNCHANGED due ELSE Rearm
Published(p) ==
    /\ p.at = "relisting"
    /\ Label("published")
    /\ Finish(p)
    /\ UNCHANGED <<kept, draft, template, recovery, slipped, astray>>

Validated(p) ==
    /\ p.op = "validate"
    /\ Label(IF p.content \in Invalid THEN documentState
             ELSE IF HasUnsavedChanges(documentState) THEN "validated-dirty" ELSE "validated")
    /\ Finish(p)
    /\ UNCHANGED <<kept, draft, template, recovery, slipped, astray>>

(* The host reads the draft, the answer replaces what the studio shows. *)
ReadStored(p) ==
    /\ p.op = "load" /\ p.at = "asked" /\ Revisions(p.id) # {}
    /\ Advance(p, [p EXCEPT !.at = "read", !.revision = Latest(p.id), !.content = kept[p.id][Latest(p.id)]])
    /\ UNCHANGED <<kept, recovery, busy, astray, document>>
Loaded(p) ==
    /\ p.at = "read"
    /\ Show(p, p.content) /\ recovery' = NoRecovery
    /\ Finish(p)
    /\ UNCHANGED kept

(* The catalog is listed; or an operation ends with an error, because the host refused
   it or its answer was lost on the way: no mutation is sent again. *)
Ended(p) ==
    /\ Finish(p)
    /\ UNCHANGED <<kept, recovery, astray, document>>

Answer == \E p \in pending : \/ StoreDraft(p) \/ Saved(p) \/ Listed(p) \/ PublishDraft(p) \/ Published(p)
                             \/ Validated(p) \/ ReadStored(p) \/ Loaded(p) \/ Ended(p)
-----------------------------------------------------------------------------
(* A publication whose draft is stored, and which will label what is shown then. *)
Late(p) == p.op = "publish" /\ p.at \in {"listing", "publishing", "relisting"}
Publishing == \E p \in pending : Late(p)

(* mutate: nothing disables editing while requests are under way; the inspector edits
   the template's identifier like everything else. *)
Mutate(next) ==
    /\ next # template
    /\ template' = next
    /\ documentState' = IF draft.revision = 0 THEN "unsaved" ELSE "dirty"
    /\ Rearm
    /\ slipped' = (slipped \/ Publishing)
    /\ UNCHANGED <<kept, draft, recovery, busy, pending, astray>>
Edit == \E c \in Contents : Mutate([template EXCEPT !.content = c])
Rename == \E id \in Documents : Mutate([template EXCEPT !.id = id])

(* startNew and useStarter, with the user's confirmation where edits are discarded.  A
   new template has an identifier nothing else has; the starter is offered, busy or not,
   where no node is shown, and leaves the snapshot to the next write. *)
Fresh == {id \in Documents : /\ Revisions(id) = {} /\ id # template.id
                             /\ recovery # NoRecovery => id # recovery.template.id
                             /\ \A p \in pending : p.op \in Stores \cup {"load"} => p.id # id}
BeginTemplate(content, state) ==
    /\ draft' = NoDraft
    /\ \E id \in Fresh : template' = [id |-> id, content |-> content]
    /\ documentState' = state /\ Rearm
StartNew ==
    /\ ~busy
    /\ BeginTemplate(Blank, "pristine")
    /\ recovery' = NoRecovery /\ slipped' = FALSE /\ astray' = FALSE
    /\ UNCHANGED <<kept, busy, pending>>
UseStarter ==
    /\ template.content = Blank
    /\ BeginTemplate(Starter, "unsaved")
    /\ slipped' = Publishing
    /\ UNCHANGED <<kept, recovery, busy, pending, astray>>

(* 250 ms after the last change, if it is still unsaved. *)
WriteRecovery ==
    /\ due
    /\ recovery' = [draft |-> draft, template |-> template]
    /\ due' = FALSE /\ astray' = FALSE
    /\ UNCHANGED <<kept, draft, template, documentState, busy, pending, slipped>>

(* A studio that is mounted shows the snapshot if there is one: after a reload of the
   page, or when it is opened again after it was closed; the answers to its requests
   then change nothing it shows.  Opened at a target it passes over the snapshot and
   loads the target, which may not exist. *)
Restore ==
    /\ IF recovery = NoRecovery
       THEN BeginTemplate(Blank, "pristine")
       ELSE template' = recovery.template /\ draft' = recovery.draft /\ documentState' = "dirty" /\ Rearm
    /\ pending' = {} /\ busy' = FALSE
    /\ slipped' = FALSE /\ astray' = FALSE
    /\ UNCHANGED <<kept, recovery>>
OpenAt(id) ==
    /\ BeginTemplate(Blank, "pristine")
    /\ pending' = {Request("load", id)} /\ busy' = TRUE
    /\ slipped' = FALSE /\ astray' = (recovery # NoRecovery)
    /\ UNCHANGED <<kept, recovery>>

(* The requests of a studio that was closed are not followed.  What they may yet store,
   an agent may store as well; and an answer to a save or a load clears the snapshot
   also for the studio that is open by then. *)
AnswerElsewhere ==
    /\ recovery' = NoRecovery
    /\ astray' = (HasUnsavedChanges(documentState) /\ ~due)
    /\ UNCHANGED <<kept, busy, pending, document>>

(* An agent creates or updates a draft behind the studio. *)
AgentPuts(id, content) ==
    /\ Stored < MaxStored
    /\ kept' = [kept EXCEPT ![id] = Append(@, content)]
    /\ UNCHANGED <<recovery, busy, pending, astray, document>>

StudioNext ==
    \/ Save \/ Publish \/ Validate \/ SyncCatalog
    \/ \E id \in Documents : LoadDraft(id)
    \/ Answer
    \/ Edit \/ Rename \/ StartNew \/ UseStarter \/ WriteRecovery \/ Restore \/ AnswerElsewhere
    \/ \E id \in Documents : OpenAt(id)
    \/ \E id \in Documents, c \in Contents : AgentPuts(id, c)

StudioSpec == StudioInit /\ [][StudioNext]_studioVars
-----------------------------------------------------------------------------
(* A label without "unsaved" tells the truth: what the studio shows is the stored
   revision it is based on.  Edits made while a publication is under way are the
   exception: its end labels them published (publish in studio.tsx). *)
CleanMeansStored ==
    documentState \in {"saved", "validated", "published"} /\ ~slipped =>
       IF draft.revision = 0 THEN template.content = Blank
       ELSE draft.id = template.id /\ kept[draft.id][draft.revision] = template.content

(* Once the timer has run, what a reload restores is what is shown, edits and the draft
   they are based on; and when nothing is unsaved there is nothing to restore, so nothing
   saved, loaded over or replaced comes back (writeRecovery, clearRecovery).  While the
   timer runs an earlier snapshot may be there, even of a document discarded for the
   starter.  Exceptions: edits made while a publication was under way (slipped), and a
   snapshot cleared by an answer to a studio closed since or passed over for a target
   (astray). *)
RecoveryIsCurrent ==
    IF HasUnsavedChanges(documentState)
    THEN due \/ recovery = [draft |-> draft, template |-> template] \/ (astray /\ recovery = NoRecovery)
    ELSE slipped \/ astray \/ recovery = NoRecovery
=============================================================================
