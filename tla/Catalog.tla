------------------------------ MODULE Catalog ------------------------------
(* The template catalog (catalog/catalog.ts) over its repository (catalog/
   repository.ts, storage/sqlite/catalog-repository.ts): drafts that authors
   replace under an expected revision, and revisions that are published for ever
   after their dependencies were checked. Each call of the repository is one step:
   authors interleave between them. Templates are named; Content has what a name
   stands for, with the words a search finds in it.                           *)
EXTENDS Compiler

CONSTANTS Texts,          \* the templates, by name
          Authors, Readers,
          Words,          \* what a reader searches for
          PageSize,       \* limit of a search
          DefaultDepth,   \* subworkflowMaxDepth of a template that sets none
          MaxRevisions    \* bound on the revisions of a draft, and on the published ones

VARIABLES sound,       \* the templates that compile
          drafts,      \* [revision, content] by id, revision 0 for no draft
          published,   \* sequence of [source, content] by id
          authors,     \* what each author has read, and where its publish is
          readers      \* the search of each reader

catalogVars == <<sound, drafts, published, authors, readers>>

Content == Texts
Names == DOMAIN Content
Ids == {Content[c].id : c \in Names}
NoDraft == [revision |-> 0, content |-> CHOOSE c \in Names : TRUE]
Away == [at |-> "away", id |-> 0, revision |-> 0, content |-> NoDraft.content, answer |-> 0]
NoSearch == [at |-> "away", word |-> "", after |-> 0, found |-> <<>>, always |-> {}, ever |-> {}]

Minimum(m, n) == IF m < n THEN m ELSE n
Policy(c) == IF Content[c].depth = <<>> THEN DefaultDepth ELSE Content[c].depth[1]
Dependencies == [c \in Names |-> {Node(Content[c], n).with : n \in {m \in Known(Content[c]) :
                                  Def(Content[c], m).calls /\ Calls(Content[c], m)}}]
DependenciesOf(c) == Dependencies[c]
IsPublished(ref) == ref[1] \in Ids /\ ref[2] \in DOMAIN published[ref[1]]
At(ref) == published[ref[1]][ref[2]].content

ASSUME CatalogAssumption ==
  /\ Authors # {} /\ Names # {} /\ IsFiniteSet(Names) /\ MaxRevisions \in Nat \ {0}
  /\ DefaultDepth \in 1 .. Ceilings.depth /\ Ceilings.depth \in Nat
  /\ Ids = 1 .. Cardinality(Ids)                    \* numbered in the order of a search
  /\ PageSize \in Nat \ {0}                         \* catalog.ts: limit
  /\ \A c \in Names : /\ Policy(c) \in Nat \ {0}                            \* schema.ts
                       /\ \A ref \in DependenciesOf(c) : ref = <<ref[1], ref[2]>>
-----------------------------------------------------------------------------
(* validatePublishedDependencies, one depth of the traversal after the other: a
   visit is a template with its depth, the limit it inherits and the references
   above it.                                                                  *)
Limit(visit) == Minimum(visit.limit, Policy(visit.content))
Below(visit) == {ref \in DependenciesOf(visit.content) : IsPublished(ref) /\ ref \notin visit.stack}
Refusals(visit) ==
  LET deps == DependenciesOf(visit.content)
  IN IF visit.depth + 1 > Limit(visit) THEN Codes("SUBWORKFLOW_DEPTH_EXCEEDED", deps # {})
     ELSE Codes("SUBWORKFLOW_DEPENDENCY_CYCLE", deps \cap visit.stack # {})
          \cup Codes("SUBWORKFLOW_REVISION_NOT_FOUND", \E ref \in deps \ visit.stack : ~IsPublished(ref))
(* Mutant: the limit of the root is not narrowed by the templates it calls. *)
VisitUnbounded(visit, ref) == [content |-> At(ref), depth |-> visit.depth + 1, limit |-> DefaultDepth,
                               stack |-> visit.stack \cup {ref}]

Visit(visit, ref) == [content |-> At(ref), depth |-> visit.depth + 1, limit |-> Limit(visit),
                      stack |-> visit.stack \cup {ref}]
NextVisits(visits) == UNION {IF visit.depth + 1 > Limit(visit) THEN {}
                             ELSE {Visit(visit, ref) : ref \in Below(visit)} : visit \in visits}
DependencyCodes(c, latest) ==
  LET root == [content |-> c, depth |-> 0, limit |-> Policy(c),
               stack |-> {<<Content[c].id, latest + 1>>}]
      visits[i \in 0 .. Policy(c)] == IF i = 0 THEN {root} ELSE NextVisits(visits[i - 1])
  IN UNION {Refusals(visit) : visit \in UNION {visits[i] : i \in 0 .. Policy(c)}}

(* Mutant: dependencies are looked at, but that one is missing is a warning. *)
PublishCodesLax(c, latest) ==
  Codes("TEMPLATE_INVALID", c \notin sound) \cup (DependencyCodes(c, latest) \ {"SUBWORKFLOW_REVISION_NOT_FOUND"})

PublishCodes(c, latest) ==
  Codes("TEMPLATE_INVALID", c \notin sound)
  \cup Codes("NODE_IMPLEMENTATION_DIGEST_MISSING", ~Replayable(Content[c]))
  \cup DependencyCodes(c, latest)
-----------------------------------------------------------------------------
CatalogInit == /\ sound = {c \in Names : Compiles(Content[c])}
               /\ drafts = [id \in Ids |-> NoDraft]
               /\ published = [id \in Ids |-> <<>>]
               /\ authors = [a \in Authors |-> Away]
               /\ readers = [r \in Readers |-> NoSearch]

Becomes(a, next) == authors' = [authors EXCEPT ![a] = next]

(* Also putDraft without an expected revision. A draft that exists is not touched. *)
CreateDraft(a, c) == LET id == Content[c].id
                     IN /\ authors[a].at = "away"
                        /\ drafts[id].revision = 0
                        /\ drafts' = [drafts EXCEPT ![id] = [revision |-> 1, content |-> c]]
                        /\ UNCHANGED <<sound, published, authors, readers>>

ReadDraft(a, id) == /\ authors[a].at = "away"
                    /\ drafts[id].revision > 0
                    /\ Becomes(a, [Away EXCEPT !.at = "holds", !.id = id, !.revision = drafts[id].revision,
                                               !.content = drafts[id].content])
                    /\ UNCHANGED <<sound, drafts, published, readers>>

Unchanged(a) == drafts[authors[a].id].revision = authors[a].revision

(* Mutant: the UPDATE has no revision in its WHERE. *)
UpdateDraftBlindly(a, c) == LET id == authors[a].id
                            IN /\ authors[a].at = "holds" /\ Content[c].id = id
                               /\ drafts[id].revision < MaxRevisions
                               /\ drafts' = [drafts EXCEPT ![id] = [revision |-> @.revision + 1, content |-> c]]
                               /\ Becomes(a, Away)
                               /\ UNCHANGED <<sound, published, readers>>

(* CATALOG_REVISION_CONFLICT leaves the draft as it is. *)
UpdateDraft(a, c) == LET id == authors[a].id
                     IN /\ authors[a].at = "holds" /\ Content[c].id = id
                        /\ drafts[id].revision < MaxRevisions
                        /\ drafts' = IF Unchanged(a)
                                     THEN [drafts EXCEPT ![id] = [revision |-> @.revision + 1, content |-> c]]
                                     ELSE drafts
                        /\ Becomes(a, Away)
                        /\ UNCHANGED <<sound, published, readers>>

(* publish: the draft is read again and must be the expected one, then it is
   validated against the latest revision and the dependencies read after that. *)
BeginPublish(a) == /\ authors[a].at = "holds"
                   /\ Becomes(a, IF Unchanged(a) THEN [authors[a] EXCEPT !.at = "compile"] ELSE Away)
                   /\ UNCHANGED <<sound, drafts, published, readers>>

ReadLatest(a) == /\ authors[a].at = "compile"
                 /\ Becomes(a, [authors[a] EXCEPT !.at = "dependencies", !.answer = Len(published[authors[a].id])])
                 /\ UNCHANGED <<sound, drafts, published, readers>>

Validate(a) == /\ authors[a].at = "dependencies"
               /\ Becomes(a, IF PublishCodes(authors[a].content, authors[a].answer) = {}
                             THEN [authors[a] EXCEPT !.at = "publish"] ELSE Away)
               /\ UNCHANGED <<sound, drafts, published, readers>>

(* A search under way sees the words of an id change. *)
Searches(id, c) ==
  readers' = [r \in Readers |->
    IF readers[r].at = "away" THEN readers[r]
    ELSE IF readers[r].word \in Content[c].words THEN [readers[r] EXCEPT !.ever = @ \cup {id}]
         ELSE [readers[r] EXCEPT !.always = @ \ {id}]]

Publishes(a, c, revision) ==
  LET id == authors[a].id
  IN /\ Len(published[id]) < MaxRevisions
     /\ published' = [published EXCEPT ![id] =
          [i \in 1 .. revision |-> IF i = revision THEN [source |-> drafts[id].revision, content |-> c] ELSE @[i]]]
     /\ Becomes(a, [authors[a] EXCEPT !.at = "answered", !.answer = revision])
     /\ Searches(id, c)
     /\ UNCHANGED <<sound, drafts>>

(* Mutants: the draft of the moment is published; besides, its revision is the one
   computed when the dependencies were validated. *)
PublishDraftBlindly(a) == /\ authors[a].at = "publish"
                          /\ Publishes(a, drafts[authors[a].id].content, Len(published[authors[a].id]) + 1)

PublishDraft(a) == /\ authors[a].at = "publish"
                   /\ \/ /\ Unchanged(a)
                         /\ Publishes(a, drafts[authors[a].id].content, Len(published[authors[a].id]) + 1)
                      \/ /\ ~Unchanged(a)
                         /\ Becomes(a, Away)
                         /\ UNCHANGED <<sound, drafts, published, readers>>

Forget(a) == /\ authors[a].at = "answered"
             /\ Becomes(a, Away)
             /\ UNCHANGED <<sound, drafts, published, readers>>

PublishStep(a) == BeginPublish(a) \/ ReadLatest(a) \/ Validate(a) \/ PublishDraft(a) \/ Forget(a)
AuthorStep(a, offers) == \/ \E c \in offers : CreateDraft(a, c) \/ UpdateDraft(a, c)
                         \/ \E id \in Ids : ReadDraft(a, id)
                         \/ PublishStep(a)
-----------------------------------------------------------------------------
(* search, page after page: the ids after the cursor whose latest revision matches,
   one more than the limit to know whether there is another page. *)
Matching(word) == {id \in Ids : published[id] # <<>> /\ word \in Content[published[id][Len(published[id])].content].words}
Ordered(S) ==
  LET upTo[i \in 0 .. Cardinality(Ids)] ==
        IF i = 0 THEN <<>> ELSE IF i \in S THEN Append(upTo[i - 1], i) ELSE upTo[i - 1]
  IN upTo[Cardinality(Ids)]
FirstOf(k, s) == SubSeq(s, 1, Minimum(k, Len(s)))

BeginSearch(r, word) == /\ readers[r].at = "away"
                        /\ readers' = [readers EXCEPT ![r] =
                             [NoSearch EXCEPT !.at = "paging", !.word = word,
                                              !.always = Matching(word), !.ever = Matching(word)]]
                        /\ UNCHANGED <<sound, drafts, published, authors>>

(* Mutant: the cursor is the extra row that was read ahead. *)
PageSkips(matches) == [items |-> FirstOf(PageSize, matches),
                       after |-> IF Len(matches) > PageSize THEN <<matches[PageSize + 1]>> ELSE <<>>]
Page(matches) == [items |-> FirstOf(PageSize, matches),
                  after |-> IF Len(matches) > PageSize THEN <<matches[PageSize]>> ELSE <<>>]

ReadPage(r) == LET search == readers[r]
                   page == Page(FirstOf(PageSize + 1, Ordered({id \in Matching(search.word) : id > search.after})))
               IN /\ search.at = "paging"
                  /\ readers' = [readers EXCEPT ![r].found = @ \o page.items,
                                                ![r].after = IF page.after = <<>> THEN @ ELSE page.after[1],
                                                ![r].at = IF page.after = <<>> THEN "done" ELSE "paging"]
                  /\ UNCHANGED <<sound, drafts, published, authors>>

ReaderStep(r) == (\E word \in Words : BeginSearch(r, word)) \/ ReadPage(r)
-----------------------------------------------------------------------------
CatalogTypeOK ==
  /\ drafts \in [Ids -> [revision : 0 .. MaxRevisions, content : Names]]
  /\ \A id \in Ids : published[id] \in Seq([source : 1 .. MaxRevisions, content : Names])
  /\ \A a \in Authors : authors[a].at \in {"away", "holds", "compile", "dependencies", "publish", "answered"}
  /\ \A r \in Readers : readers[r].at \in {"away", "paging", "done"}

Refs == {<<id, k>> : id \in Ids, k \in 1 .. MaxRevisions}
Callees(R) == UNION {DependenciesOf(At(ref)) : ref \in {x \in R : IsPublished(x)}}
Far == Cardinality(Refs)
Closure(ref) == LET called[k \in 0 .. Far] == IF k = 0 THEN Callees({ref})
                                              ELSE LET R == called[k - 1] IN R \cup Callees(R)
                IN called[Far]

(* Whatever authors do between the steps of a publish, what is published compiles and
   has digests, and everything it calls, directly or not, is published and never
   leads back to it: a plan can be built from it for ever. *)
ClosuresHold ==
  \A ref \in Refs : IsPublished(ref) =>
    /\ At(ref) \in sound /\ Replayable(Content[At(ref)])
    /\ LET closure == Closure(ref)
       IN ref \notin closure /\ \A callee \in closure : IsPublished(callee)

(* An author who is told that its draft became revision r finds under r exactly the
   template it had read and validated, however many publish at the same time. *)
AnswersHold == \A a \in Authors : authors[a].at = "answered" =>
                 /\ authors[a].answer \in DOMAIN published[authors[a].id]
                 /\ published[authors[a].id][authors[a].answer] =
                      [source |-> authors[a].revision, content |-> authors[a].content]

(* A draft is only ever replaced by an author who had read the draft it replaces. *)
NoUpdateLost == [][\A id \in Ids : drafts'[id] # drafts[id] /\ drafts[id].revision > 0 =>
                     \E a \in Authors : /\ authors[a].at = "holds" /\ authors'[a].at = "away"
                                        /\ authors[a].id = id
                                        /\ authors[a].revision = drafts[id].revision
                                        /\ authors[a].content = drafts[id].content]_drafts

(* A reader that follows the cursors to the last page has every id that matched all the
   time, none that never did, and none twice, whatever was published meanwhile. *)
SearchIsComplete == \A r \in Readers : readers[r].at = "done" =>
                      LET found == {readers[r].found[i] : i \in DOMAIN readers[r].found}
                      IN /\ readers[r].always \subseteq found
                         /\ found \subseteq readers[r].ever
                         /\ Len(readers[r].found) = Cardinality(found)
=============================================================================
