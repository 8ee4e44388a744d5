-------------------------- MODULE LifecycleProofs --------------------------
(* Proofs about the lifecycle of templates: what authors are told and what they may
   overwrite, what a published revision can count on for ever, and what a binding
   that was accepted can be served with.                                       *)
EXTENDS Lifecycle, WellFoundedInduction, FiniteSetTheorems, TLAPS

(* The shapes of the catalog's state. *)
Draft == [revision : Nat, content : Names]
Revision == [source : Nat, content : Names]
AuthorIds == Ids \cup {Away.id}
Stages == {"away", "holds", "compile", "dependencies", "publish", "answered"}
Author == [at : Stages, id : AuthorIds, revision : Nat, content : Names, answer : Nat]
CatalogShape ==
  /\ sound = {c \in Names : Compiles(Content[c])}
  /\ drafts \in [Ids -> Draft]
  /\ published \in [Ids -> Seq(Revision)]
  /\ \A id \in Ids : Len(published[id]) <= MaxRevisions
  /\ authors \in [Authors -> Author]
  /\ deployment \in Deployments \cup {Study}

(* The walk of an execution below a template of policy limit: what it may enter is
   published, and no call there exceeds the limit it inherits. *)
Entry == [ref : Refs, depth : Nat, limit : Nat]
Explored(V) == \A v \in V : /\ IsPublished(v.ref)
                            /\ DependenciesOf(At(v.ref)) # {} => v.depth + 1 <= v.limit
                            /\ Enters(v) \subseteq V
Callable(c) ==
  /\ DependenciesOf(c) # {} => 1 <= Effective(c)
  /\ \E V \in SUBSET Entry :
       /\ Explored(V)
       /\ \A callee \in DependenciesOf(c) :
            [ref |-> callee, depth |-> 1, limit |-> Minimum(Effective(c), Effective(At(callee)))] \in V

(* What a publish has checked of a template, in a form that no later publish undoes. *)
Checked(c) == c \in sound /\ Replayable(Content[c]) /\ Callable(c)

(* Everything a published revision calls, directly or not, is in a set of published
   revisions it does not belong to: those published before it. *)
Grounded(ref) ==
  \E D \in SUBSET Refs : /\ ref \notin D
                         /\ DependenciesOf(At(ref)) \subseteq D
                         /\ \A d \in D : IsPublished(d) /\ DependenciesOf(At(d)) \subseteq D

(* What an author knows of a draft is of a revision the draft has had; as long as it is
   the latest, it is what the draft says. *)
Holds(x) ==
  /\ x.id \in Ids /\ 0 < x.revision /\ x.revision <= drafts[x.id].revision
  /\ x.revision = drafts[x.id].revision => x.content = drafts[x.id].content
  /\ x.at = "publish" => Checked(x.content)
  /\ x.at = "answered" => /\ x.answer \in DOMAIN published[x.id]
                          /\ published[x.id][x.answer] = [source |-> x.revision, content |-> x.content]

CatalogInv == /\ CatalogShape
              /\ \A a \in Authors : authors[a].at # "away" => Holds(authors[a])
              /\ \A ref \in Refs : IsPublished(ref) => Checked(At(ref)) /\ Grounded(ref)
-----------------------------------------------------------------------------
(* The identifier of a template, and what an author is between two calls. *)
LEMMA Named == \A c \in Names : Content[c].id \in Ids
BY DEF Ids

(* Nobody holds anything at first, or after a refusal. *)
LEMMA AwayShape == Away \in Author /\ Away.at = "away"
<1>1. NoDraft.content \in Names
  BY CatalogAssumption DEF CatalogAssumption, NoDraft
<1>2. Away.id \in AuthorIds
  BY DEF AuthorIds
<1> QED BY <1>1, <1>2 DEF Away, Author, Stages

(* What is published is a revision between one and the bound. *)
LEMMA PublishedIsRef ==
  ASSUME CatalogShape, NEW c \in Names, NEW ref \in DependenciesOf(c), IsPublished(ref)
  PROVE ref \in Refs
<1>1. ref = <<ref[1], ref[2]>>
  BY CatalogAssumption DEF CatalogAssumption
<1>2. ref[1] \in Ids /\ ref[2] \in 1 .. Len(published[ref[1]]) /\ Len(published[ref[1]]) \in Nat
  BY DEF IsPublished, CatalogShape
<1>3. ref[2] \in 1 .. MaxRevisions
  BY <1>2, CatalogAssumption DEF CatalogAssumption, CatalogShape
<1> QED BY <1>1, <1>2, <1>3 DEF Refs

(* The content of a published revision is a template. *)
LEMMA ContentAt ==
  ASSUME CatalogShape, NEW ref, IsPublished(ref)
  PROVE At(ref) \in Names
<1>1. published[ref[1]] \in Seq(Revision) /\ ref[2] \in DOMAIN published[ref[1]]
  BY DEF CatalogShape, IsPublished
<1>2. published[ref[1]][ref[2]] \in Revision
  BY <1>1
<1> QED BY <1>2 DEF At, Revision
-----------------------------------------------------------------------------
(* A step that only adds to what is published. *)
Grows ==
  /\ sound' = sound
  /\ \A ref : IsPublished(ref) => /\ IsPublished(ref)' /\ At(ref)' = At(ref)
                                 /\ published'[ref[1]][ref[2]] = published[ref[1]][ref[2]]

(* A step that publishes nothing does no harm to what is published. *)
LEMMA NothingPublished ==
  ASSUME UNCHANGED <<sound, published>>
  PROVE Grows
BY DEF Grows, IsPublished, At

(* A walk that met only published revisions meets the same ones after more of them
   are published: what is published is never changed. *)
LEMMA ExploredKept ==
  ASSUME Grows, NEW V, Explored(V)
  PROVE Explored(V)'
<1> SUFFICES ASSUME NEW v \in V
             PROVE /\ IsPublished(v.ref)'
                   /\ (DependenciesOf(At(v.ref)) # {})' => v.depth + 1 <= v.limit
                   /\ (Enters(v) \subseteq V)'
  BY DEF Explored
<1>1. IsPublished(v.ref) /\ IsPublished(v.ref)' /\ At(v.ref)' = At(v.ref)
  BY DEF Explored, Grows
<1>2. (DependenciesOf(At(v.ref)) # {})' => v.depth + 1 <= v.limit
  BY <1>1 DEF Explored, DependenciesOf
<1>3. ASSUME NEW callee \in DependenciesOf(At(v.ref))
      PROVE [ref |-> callee, depth |-> v.depth + 1, limit |-> Minimum(v.limit, Effective(At(callee)'))] \in V
  <2> DEFINE e == [ref |-> callee, depth |-> v.depth + 1, limit |-> Minimum(v.limit, Effective(At(callee)))]
  <2>1. e \in Enters(v)
    BY <1>3 DEF Enters
  <2>2. e \in V
    BY <2>1 DEF Explored
  <2>3. IsPublished(e.ref) /\ e.ref = callee
    BY <2>2 DEF Explored
  <2>4. At(callee)' = At(callee)
    BY <2>3 DEF Grows
  <2> QED BY <2>2, <2>4
<1>4. (Enters(v) \subseteq V)'
  BY <1>1, <1>3 DEF Enters, DependenciesOf
<1> QED BY <1>1, <1>2, <1>4

(* What was checked of a template still holds. *)
LEMMA CheckedKept ==
  ASSUME Grows, NEW c, Checked(c)
  PROVE Checked(c)'
<1>1. PICK V \in SUBSET Entry :
        /\ Explored(V)
        /\ \A callee \in DependenciesOf(c) :
             [ref |-> callee, depth |-> 1, limit |-> Minimum(Effective(c), Effective(At(callee)))] \in V
  BY DEF Checked, Callable
<1>2. Explored(V)'
  BY <1>1, ExploredKept
<1>3. ASSUME NEW callee \in DependenciesOf(c)
      PROVE [ref |-> callee, depth |-> 1, limit |-> Minimum(Effective(c), Effective(At(callee)'))] \in V
  <2> DEFINE e == [ref |-> callee, depth |-> 1, limit |-> Minimum(Effective(c), Effective(At(callee)))]
  <2>1. e \in V
    BY <1>1, <1>3
  <2>2. IsPublished(e.ref) /\ e.ref = callee
    BY <1>1, <2>1 DEF Explored
  <2>3. At(callee)' = At(callee)
    BY <2>2 DEF Grows
  <2> QED BY <2>1, <2>3
<1>4. Callable(c)'
  BY <1>1, <1>2, <1>3 DEF Callable, Checked
<1> QED BY <1>4 DEF Checked, Grows

(* What a revision calls stays where it is. *)
LEMMA GroundedKept ==
  ASSUME Grows, NEW ref, IsPublished(ref), Grounded(ref)
  PROVE Grounded(ref)'
<1>1. PICK D \in SUBSET Refs : /\ ref \notin D
                               /\ DependenciesOf(At(ref)) \subseteq D
                               /\ \A d \in D : IsPublished(d) /\ DependenciesOf(At(d)) \subseteq D
  BY DEF Grounded
<1>2. At(ref)' = At(ref) /\ \A d \in D : IsPublished(d)' /\ At(d)' = At(d)
  BY <1>1 DEF Grows
<1> QED BY <1>1, <1>2 DEF Grounded

(* A step of one author that leaves the catalog as it is. *)
LEMMA AuthorMoves ==
  ASSUME CatalogInv, NEW a \in Authors, NEW x \in Author, Becomes(a, x),
         UNCHANGED <<sound, drafts, published, deployment>>, x.at # "away" => Holds(x)
  PROVE CatalogInv'
<1>1. Grows
  BY NothingPublished
<1>2. authors' \in [Authors -> Author] /\ authors'[a] = x /\ \A b \in Authors \ {a} : authors'[b] = authors[b]
  BY DEF CatalogInv, CatalogShape, Becomes
<1>3. CatalogShape'
  BY <1>2 DEF CatalogInv, CatalogShape
<1>4. ASSUME NEW b \in Authors, (authors[b].at # "away")'
      PROVE Holds(authors[b])'
  <2>1. PICK y \in Author : y = authors'[b]
    BY <1>2
  <2>2. Holds(y)
    BY <1>2, <1>4, <2>1 DEF CatalogInv
  <2>3. y.at = "publish" => Checked(y.content)'
    BY <1>1, <2>2, CheckedKept DEF Holds
  <2>4. Holds(y)'
    BY <2>2, <2>3 DEF Holds
  <2> QED BY <2>1, <2>4 DEF Holds
<1>5. ASSUME NEW ref \in Refs, IsPublished(ref)'
      PROVE Checked(At(ref))' /\ Grounded(ref)'
  <2>1. IsPublished(ref) /\ At(ref)' = At(ref)
    BY <1>5 DEF IsPublished, At
  <2>2. PICK c \in Names : c = At(ref)
    BY <2>1, ContentAt DEF CatalogInv
  <2>3. Checked(c)'
    BY <1>1, <2>1, <2>2, CheckedKept DEF CatalogInv
  <2>4. Grounded(ref)'
    BY <1>1, <2>1, GroundedKept DEF CatalogInv
  <2> QED BY <2>1, <2>2, <2>3, <2>4
<1> QED BY <1>3, <1>4, <1>5 DEF CatalogInv
-----------------------------------------------------------------------------
(* A draft is written: nobody holds its new revision yet, and what others hold of the
   earlier ones is no longer the latest. *)
LEMMA DraftWritten ==
  ASSUME CatalogInv, NEW id \in Ids, NEW c \in Names,
         drafts' = [drafts EXCEPT ![id] = [revision |-> drafts[id].revision + 1, content |-> c]],
         authors' \in [Authors -> Author],
         \A b \in Authors : authors'[b] = authors[b] \/ authors'[b].at = "away",
         UNCHANGED <<sound, published, deployment>>
  PROVE CatalogInv'
<1>1. Grows
  BY NothingPublished
<1>2. drafts[id].revision \in Nat /\ drafts \in [Ids -> Draft]
  BY DEF CatalogInv, CatalogShape, Draft
<1>3. [revision |-> drafts[id].revision + 1, content |-> c] \in Draft
  BY <1>2 DEF Draft
<1>4. CatalogShape'
  BY <1>2, <1>3 DEF CatalogInv, CatalogShape
<1>5. ASSUME NEW b \in Authors, (authors[b].at # "away")'
      PROVE Holds(authors[b])'
  <2>1. PICK y \in Author : y = authors'[b]
    BY DEF CatalogInv
  <2>2. Holds(y)
    BY <1>5, <2>1 DEF CatalogInv
  <2>3. y.at = "publish" => Checked(y.content)'
    BY <1>1, <2>2, CheckedKept DEF Holds
  <2>4. y.id \in Ids /\ y.revision \in Nat
    BY <2>2 DEF Holds, Author
  <2>5. /\ drafts'[y.id].revision >= drafts[y.id].revision
        /\ drafts'[y.id].revision = drafts[y.id].revision => drafts'[y.id] = drafts[y.id]
    <3>1. CASE y.id = id
      BY <1>2, <3>1
    <3>2. CASE y.id # id
      <4>1. drafts'[y.id] = drafts[y.id] /\ drafts[y.id] \in Draft
        BY <1>2, <2>4, <3>2
      <4> QED BY <4>1 DEF Draft
    <3> QED BY <3>1, <3>2
  <2>6. drafts[y.id].revision \in Nat /\ drafts'[y.id].revision \in Nat
    BY <1>2, <1>4, <2>4 DEF CatalogShape, Draft
  <2>7. /\ y.revision <= drafts'[y.id].revision
        /\ y.revision = drafts'[y.id].revision => y.content = drafts'[y.id].content
    BY <2>2, <2>4, <2>5, <2>6 DEF Holds
  <2>8. Holds(y)'
    BY <2>2, <2>3, <2>7 DEF Holds
  <2> QED BY <2>1, <2>8 DEF Holds
<1>6. ASSUME NEW ref \in Refs, IsPublished(ref)'
      PROVE Checked(At(ref))' /\ Grounded(ref)'
  <2>1. IsPublished(ref) /\ At(ref)' = At(ref)
    BY <1>6 DEF IsPublished, At
  <2>2. PICK t \in Names : t = At(ref)
    BY <2>1, ContentAt DEF CatalogInv
  <2>3. Checked(t)'
    BY <1>1, <2>1, <2>2, CheckedKept DEF CatalogInv
  <2>4. Grounded(ref)'
    BY <1>1, <2>1, GroundedKept DEF CatalogInv
  <2> QED BY <2>1, <2>2, <2>3, <2>4
<1> QED BY <1>4, <1>5, <1>6 DEF CatalogInv

(* createDraft. *)
LEMMA DraftCreated ==
  ASSUME CatalogInv, NEW a \in Authors, NEW c \in Names, CreateDraft(a, c), UNCHANGED deployment
  PROVE CatalogInv'
<1>1. Content[c].id \in Ids
  BY Named
<1>2. PICK id \in Ids : id = Content[c].id
  BY <1>1
<1>3. drafts' = [drafts EXCEPT ![id] = [revision |-> drafts[id].revision + 1, content |-> c]]
  <2>1. drafts[id].revision = 0 /\ drafts' = [drafts EXCEPT ![id] = [revision |-> 1, content |-> c]]
    BY <1>2 DEF CreateDraft
  <2>2. drafts[id].revision + 1 = 1
    BY <2>1
  <2> QED BY <2>1, <2>2
<1>4. authors' = authors /\ authors \in [Authors -> Author] /\ UNCHANGED <<sound, published, deployment>>
  BY DEF CreateDraft, CatalogInv, CatalogShape
<1> QED BY <1>3, <1>4, DraftWritten

(* updateDraft, with a conflict or without one. *)
LEMMA DraftUpdated ==
  ASSUME CatalogInv, NEW a \in Authors, NEW c \in Names, UpdateDraft(a, c), UNCHANGED deployment
  PROVE CatalogInv'
<1>1. authors \in [Authors -> Author] /\ Becomes(a, Away) /\ UNCHANGED <<sound, published>>
  BY DEF UpdateDraft, CatalogInv, CatalogShape
<1>2. CASE Unchanged(a)
  <2>1. PICK id \in Ids : id = authors[a].id
    BY Named DEF UpdateDraft
  <2>2. drafts' = [drafts EXCEPT ![id] = [revision |-> drafts[id].revision + 1, content |-> c]]
    <3>1. drafts' = [drafts EXCEPT ![id] = [revision |-> @.revision + 1, content |-> c]]
      BY <1>2, <2>1 DEF UpdateDraft
    <3>2. drafts \in [Ids -> Draft]
      BY DEF CatalogInv, CatalogShape
    <3> QED BY <3>1, <3>2
  <2>3. authors' \in [Authors -> Author] /\ \A b \in Authors : authors'[b] = authors[b] \/ authors'[b].at = "away"
    BY <1>1, AwayShape DEF Becomes
  <2> QED BY <1>1, <2>2, <2>3, DraftWritten
<1>3. CASE ~Unchanged(a)
  <2>1. UNCHANGED drafts
    BY <1>3 DEF UpdateDraft
  <2> QED BY <1>1, <2>1, AwayShape, AuthorMoves
<1> QED BY <1>2, <1>3
-----------------------------------------------------------------------------
Smaller == {pair \in Nat \X Nat : pair[1] < pair[2]}

(* Every set of natural numbers that is not empty has a least element; so a set that
   holds zero and the successor of each of its elements holds them all. *)
LEMMA LeastNatural ==
  ASSUME NEW T \in SUBSET Nat, T # {}
  PROVE \E x \in T : \A y \in T : x <= y
<1>1. IsWellFoundedOn(Smaller, Nat)
  BY NatLessThanWellFounded, Zenon DEF OpToRel, Smaller
<1>2. PICK x \in T : \A y \in T : ~(<<y, x>> \in Smaller)
  BY <1>1, WFMin
<1>3. \A y \in T : ~(y < x)
  BY <1>2 DEF Smaller
<1> QED BY <1>3

(* Induction over the natural numbers, for a set. *)
LEMMA BySuccessor ==
  ASSUME NEW T \in SUBSET Nat, 0 \in T, \A n \in T : n + 1 \in T
  PROVE T = Nat
<1> SUFFICES ASSUME Nat \ T # {} PROVE FALSE
  OBVIOUS
<1>1. PICK x \in Nat \ T : \A y \in Nat \ T : x <= y
  BY LeastNatural
<1>2. x # 0 /\ x - 1 \in Nat \ T
  BY <1>1
<1> QED BY <1>1, <1>2

(* Induction up to n, for a set. *)
LEMMA Upwards ==
  ASSUME NEW n \in Nat, NEW T, 0 \in T, \A i \in 1 .. n : i - 1 \in T => i \in T
  PROVE \A i \in 0 .. n : i \in T
<1> DEFINE S == {i \in Nat : i <= n => i \in T}
<1>1. 0 \in S
  OBVIOUS
<1>2. ASSUME NEW i \in S
      PROVE i + 1 \in S
  <2> SUFFICES ASSUME i + 1 <= n
               PROVE i + 1 \in T
    OBVIOUS
  <2>1. i \in T /\ i + 1 \in 1 .. n /\ (i + 1) - 1 = i
    OBVIOUS
  <2> QED BY <2>1
<1>3. S = Nat
  <2> S \in SUBSET Nat
    OBVIOUS
  <2> HIDE DEF S
  <2> QED BY <1>1, <1>2, BySuccessor
<1> QED BY <1>3

(* f is computed from b by F, from one number to the next; there is such an f. *)
Computes(f, n, X, b, F) ==
  f \in [0 .. n -> X] /\ \A i \in 0 .. n : f[i] = IF i = 0 THEN b ELSE F[i][f[i - 1]]
LEMMA Iterates ==
  ASSUME NEW n \in Nat, NEW X, NEW b \in X, NEW F \in [Nat -> [X -> X]]
  PROVE \E f : Computes(f, n, X, b, F)
<1> DEFINE T == {m \in Nat : \E f \in [0 .. m -> X] :
                               \A i \in 0 .. m : f[i] = IF i = 0 THEN b ELSE F[i][f[i - 1]]}
<1>1. 0 \in T
  <2> DEFINE f == [i \in 0 .. 0 |-> b]
  <2>1. f \in [0 .. 0 -> X] /\ \A i \in 0 .. 0 : f[i] = IF i = 0 THEN b ELSE F[i][f[i - 1]]
    OBVIOUS
  <2> QED BY <2>1
<1>2. ASSUME NEW m \in T
      PROVE m + 1 \in T
  <2>1. PICK f \in [0 .. m -> X] : \A i \in 0 .. m : f[i] = IF i = 0 THEN b ELSE F[i][f[i - 1]]
    OBVIOUS
  <2> DEFINE h == [i \in 0 .. m + 1 |-> IF i = m + 1 THEN F[m + 1][f[m]] ELSE f[i]]
  <2>2. m \in Nat /\ m + 1 \in Nat /\ f[m] \in X
    OBVIOUS
  <2>3. h \in [0 .. m + 1 -> X]
    BY <2>2
  <2>4. ASSUME NEW i \in 0 .. m + 1
        PROVE h[i] = IF i = 0 THEN b ELSE F[i][h[i - 1]]
    <3>1. CASE i = m + 1
      <4>1. i # 0 /\ i - 1 = m /\ i - 1 # m + 1 /\ i - 1 \in 0 .. m + 1
        BY <2>2, <3>1
      <4> QED BY <3>1, <4>1
    <3>2. CASE i # m + 1
      <4>1. i \in 0 .. m /\ h[i] = f[i]
        BY <2>2, <3>2
      <4>2. i # 0 => i - 1 \in 0 .. m + 1 /\ i - 1 # m + 1
        BY <2>2
      <4> QED BY <2>1, <4>1, <4>2
    <3> QED BY <3>1, <3>2
  <2> HIDE DEF h
  <2> QED BY <2>2, <2>3, <2>4
<1>3. T = Nat
  <2> T \in SUBSET Nat
    OBVIOUS
  <2> HIDE DEF T
  <2> QED BY <1>1, <1>2, BySuccessor
<1> QED BY <1>3 DEF Computes
(* The traversal of validatePublishedDependencies goes from one depth to the next. *)
LEMMA TraversalUnfolds ==
  ASSUME NEW c \in Names, NEW latest
  PROVE \E visits :
          /\ visits[0] = {[content |-> c, depth |-> 0, limit |-> Policy(c),
                           stack |-> {<<Content[c].id, latest + 1>>}]}
          /\ \A i \in 1 .. Policy(c) : visits[i] = NextVisits(visits[i - 1])
          /\ \A i \in 0 .. Policy(c) : \A v \in visits[i] : Refusals(v) \subseteq DependencyCodes(c, latest)
<1> DEFINE root == [content |-> c, depth |-> 0, limit |-> Policy(c), stack |-> {<<Content[c].id, latest + 1>>}]
           Depths == {n \in Nat : \E g : g = [i \in 0 .. n |-> IF i = 0 THEN {root} ELSE NextVisits(g[i - 1])]}
           visits[i \in 0 .. Policy(c)] == IF i = 0 THEN {root} ELSE NextVisits(visits[i - 1])
<1>1. 0 \in Depths
  <2> DEFINE g == [i \in 0 .. 0 |-> {root}]
  <2>1. g = [i \in 0 .. 0 |-> IF i = 0 THEN {root} ELSE NextVisits(g[i - 1])]
    OBVIOUS
  <2> QED BY <2>1
<1>2. ASSUME NEW n \in Depths
      PROVE n + 1 \in Depths
  <2>1. PICK g : g = [i \in 0 .. n |-> IF i = 0 THEN {root} ELSE NextVisits(g[i - 1])]
    OBVIOUS
  <2> DEFINE h == [i \in 0 .. n + 1 |-> IF i = n + 1 THEN NextVisits(g[n]) ELSE g[i]]
  <2> HIDE DEF root
  <2>2. n \in Nat
    OBVIOUS
  <2>3. ASSUME NEW i \in 0 .. n + 1
        PROVE h[i] = IF i = 0 THEN {root} ELSE NextVisits(h[i - 1])
    <3>1. CASE i = n + 1
      <4>1. i # 0 /\ i - 1 = n /\ n \in 0 .. n + 1 /\ n # n + 1
        BY <2>2, <3>1
      <4> QED BY <3>1, <4>1
    <3>2. CASE i # n + 1
      <4>1. i \in 0 .. n /\ h[i] = g[i]
        BY <2>2, <3>2
      <4>2. i # 0 => i - 1 \in 0 .. n + 1 /\ i - 1 # n + 1
        BY <2>2
      <4>3. i # 0 => h[i - 1] = g[i - 1]
        BY <4>2
      <4> QED BY <2>1, <4>1, <4>3
    <3> QED BY <3>1, <3>2
  <2> HIDE DEF root
  <2>4. h = [i \in 0 .. n + 1 |-> IF i = 0 THEN {root} ELSE NextVisits(h[i - 1])]
    BY <2>3
  <2> HIDE DEF h
  <2>5. \E f : f = [i \in 0 .. n + 1 |-> IF i = 0 THEN {root} ELSE NextVisits(f[i - 1])]
    BY <2>4
  <2> QED BY <2>2, <2>5
<1>3. Policy(c) \in Depths
  <2> HIDE DEF Depths
  <2>1. Depths = Nat
    <3>1. Depths \in SUBSET Nat
      BY DEF Depths
    <3> QED BY <1>1, <1>2, <3>1, BySuccessor
  <2> QED BY <2>1, CatalogAssumption DEF CatalogAssumption
<1>4. visits = [i \in 0 .. Policy(c) |-> IF i = 0 THEN {root} ELSE NextVisits(visits[i - 1])]
  BY <1>3, Zenon
<1>5. DependencyCodes(c, latest) = UNION {Refusals(visit) : visit \in UNION {visits[i] : i \in 0 .. Policy(c)}}
  BY Zenon DEF DependencyCodes
<1>6. Policy(c) \in Nat
  BY CatalogAssumption DEF CatalogAssumption
<1> HIDE DEF visits, root, Depths
<1>7. visits[0] = {root} /\ \A i \in 1 .. Policy(c) : visits[i] = NextVisits(visits[i - 1])
  <2>1. \A i \in 0 .. Policy(c) : visits[i] = IF i = 0 THEN {root} ELSE NextVisits(visits[i - 1])
    BY <1>4, Zenon
  <2> QED BY <1>6, <2>1
<1>8. \A i \in 0 .. Policy(c) : \A v \in visits[i] : Refusals(v) \subseteq DependencyCodes(c, latest)
  BY <1>5
<1> QED BY <1>7, <1>8 DEF root

(* What a traversal without a diagnostic says of one of its visits. *)
LEMMA NothingRefused ==
  ASSUME NEW v, v.depth \in Nat, Limit(v) \in Nat, Refusals(v) = {},
         NEW ref \in DependenciesOf(v.content)
  PROVE v.depth + 1 <= Limit(v) /\ IsPublished(ref) /\ ref \in Below(v)
<1>1. v.depth + 1 <= Limit(v)
  BY DEF Refusals, Codes
<1>2. /\ Codes("SUBWORKFLOW_DEPENDENCY_CYCLE", DependenciesOf(v.content) \cap v.stack # {}) = {}
      /\ Codes("SUBWORKFLOW_REVISION_NOT_FOUND",
               \E r \in DependenciesOf(v.content) \ v.stack : ~IsPublished(r)) = {}
  <2>1. ~(v.depth + 1 > Limit(v))
    BY <1>1
  <2> QED BY <2>1, Zenon DEF Refusals
<1>3. ref \notin v.stack /\ IsPublished(ref)
  BY <1>2 DEF Codes
<1> QED BY <1>1, <1>3 DEF Below

(* The deployment accepts the depth of every template that compiles. *)
LEMMA DepthAccepted ==
  ASSUME NEW c \in Names, Compiles(Content[c])
  PROVE Policy(c) \in Nat /\ 1 <= Policy(c) /\ Policy(c) <= Ceilings.depth /\ Ceilings.depth \in Nat
<1>1. Policy(c) \in Nat /\ 1 <= Policy(c) /\ Ceilings.depth \in Nat
  BY CatalogAssumption DEF CatalogAssumption
<1>2. Diagnostics(Content[c]) = {}
  BY DEF Compiles
<1>3. LimitCodes(Content[c]) = {}
  BY <1>2 DEF Diagnostics, TemplateCodes
<1>4. ~(Content[c].depth # <<>> /\ Content[c].depth[1] > Ceilings.depth)
  BY <1>3 DEF LimitCodes, Codes
<1>5. CASE Content[c].depth = <<>>
  BY <1>1, <1>5, CatalogAssumption DEF CatalogAssumption, Policy
<1>6. CASE Content[c].depth # <<>>
  <2>1. Policy(c) = Content[c].depth[1]
    BY <1>6 DEF Policy
  <2> QED BY <1>1, <1>4, <1>6, <2>1
<1> QED BY <1>1, <1>5, <1>6

(* A visit at depth i is of a published template, under a limit the root has set. *)
Visited(c, v, i) == v.depth = i /\ v.content \in Names /\ v.limit \in Nat /\ v.limit <= Policy(c)

(* The traversal never widens the limit of its root. *)
LEMMA VisitedBelow ==
  ASSUME CatalogShape, NEW c \in Names, NEW visits, NEW stack,
         visits[0] = {[content |-> c, depth |-> 0, limit |-> Policy(c), stack |-> stack]},
         \A i \in 1 .. Policy(c) : visits[i] = NextVisits(visits[i - 1])
  PROVE \A i \in 0 .. Policy(c) : \A v \in visits[i] : Visited(c, v, i)
<1> DEFINE Depths == {i \in Nat : i <= Policy(c) => \A v \in visits[i] : Visited(c, v, i)}
<1>1. Policy(c) \in Nat /\ \A d \in Names : Policy(d) \in Nat
  BY CatalogAssumption DEF CatalogAssumption
<1>2. 0 \in Depths
  BY <1>1 DEF Visited
<1>3. ASSUME NEW i \in Depths
      PROVE i + 1 \in Depths
  <2> SUFFICES ASSUME i + 1 <= Policy(c), NEW w \in visits[i + 1]
               PROVE Visited(c, w, i + 1)
    OBVIOUS
  <2>1. i \in Nat /\ i <= Policy(c) /\ i + 1 \in 1 .. Policy(c) /\ (i + 1) - 1 = i
    BY <1>1
  <2>2. w \in NextVisits(visits[i])
    BY <2>1
  <2>3. PICK v \in visits[i] : w \in IF v.depth + 1 > Limit(v) THEN {} ELSE {Visit(v, ref) : ref \in Below(v)}
    BY <2>2 DEF NextVisits
  <2>4. PICK ref \in Below(v) : w = Visit(v, ref)
    BY <2>3
  <2>5. Visited(c, v, i)
    BY <2>1
  <2>6. At(ref) \in Names
    BY <2>4, ContentAt DEF Below
  <2>7. Limit(v) \in Nat /\ Limit(v) <= v.limit
    BY <1>1, <2>5 DEF Limit, Minimum, Visited
  <2>8. w.depth = v.depth + 1 /\ w.content = At(ref) /\ w.limit = Limit(v)
    BY <2>4 DEF Visit
  <2> QED BY <1>1, <2>1, <2>5, <2>6, <2>7, <2>8 DEF Visited
<1>4. Depths = Nat
  <2>1. Depths \in SUBSET Nat
    OBVIOUS
  <2> HIDE DEF Depths
  <2> QED BY <1>2, <1>3, <2>1, BySuccessor
<1>5. ASSUME NEW i \in 0 .. Policy(c)
      PROVE \A v \in visits[i] : Visited(c, v, i)
  <2>1. i \in Nat /\ i <= Policy(c)
    BY <1>1
  <2>2. i \in Depths
    BY <1>4, <2>1
  <2> QED BY <2>1, <2>2
<1> QED BY <1>5

(* A template without a diagnostic about its dependencies can be executed, as far as the
   depth of its calls is concerned: the traversal is the walk of the execution. *)
LEMMA TraversalIsCallable ==
  ASSUME CatalogShape, NEW c \in Names, Compiles(Content[c]), NEW latest, DependencyCodes(c, latest) = {}
  PROVE Callable(c)
<1> DEFINE top == [content |-> c, depth |-> 0, limit |-> Policy(c), stack |-> {<<Content[c].id, latest + 1>>}]
           Ceiling == Ceilings.depth
<1>1. PICK visits :
        /\ visits[0] = {top}
        /\ \A i \in 1 .. Policy(c) : visits[i] = NextVisits(visits[i - 1])
        /\ \A i \in 0 .. Policy(c) : \A v \in visits[i] : Refusals(v) \subseteq DependencyCodes(c, latest)
  BY TraversalUnfolds
<1>2. Policy(c) \in Nat /\ 1 <= Policy(c) /\ Policy(c) <= Ceiling /\ Ceiling \in Nat
  BY DepthAccepted
<1>3. \A d \in Names : Policy(d) \in Nat
  BY CatalogAssumption DEF CatalogAssumption
<1>4. \A i \in 0 .. Policy(c) : \A v \in visits[i] : Visited(c, v, i)
  BY <1>1, VisitedBelow
<1> DEFINE Follows(e, v) == v.content = At(e.ref) /\ e.limit = Minimum(Limit(v), Ceiling)
           V == {e \in Entry : /\ e.depth \in 1 .. Policy(c) /\ IsPublished(e.ref)
                               /\ \E v \in visits[e.depth] : Follows(e, v)}
<1>5. ASSUME NEW i \in 0 .. Policy(c), NEW v \in visits[i]
      PROVE /\ i \in Nat /\ v.depth = i /\ v.content \in Names
            /\ Limit(v) \in Nat /\ Limit(v) <= Policy(c) /\ Refusals(v) = {}
  BY <1>1, <1>2, <1>3, <1>4 DEF Visited, Limit, Minimum
<1>6. ASSUME NEW i \in 0 .. Policy(c), NEW v \in visits[i], NEW callee \in DependenciesOf(v.content)
      PROVE /\ i + 1 <= Limit(v)
            /\ [ref |-> callee, depth |-> i + 1,
                limit |-> Minimum(Minimum(Limit(v), Ceiling), Effective(At(callee)))] \in V
  <2> DEFINE w == Visit(v, callee)
             e == [ref |-> callee, depth |-> i + 1,
                   limit |-> Minimum(Minimum(Limit(v), Ceiling), Effective(At(callee)))]
  <2>1. v.depth + 1 <= Limit(v) /\ IsPublished(callee) /\ callee \in Below(v)
    BY <1>5, NothingRefused
  <2>2. i \in Nat /\ i + 1 <= Limit(v) /\ i + 1 \in 1 .. Policy(c) /\ (i + 1) - 1 = i
    BY <1>2, <1>5, <2>1
  <2>3. w \in NextVisits(visits[i])
    BY <1>5, <2>1 DEF NextVisits
  <2>4. w \in visits[i + 1]
    BY <1>1, <2>2, <2>3
  <2>5. At(callee) \in Names /\ callee \in Refs
    BY <1>5, <2>1, ContentAt, PublishedIsRef
  <2>6. w.content = At(callee) /\ Limit(w) = Minimum(Limit(v), Policy(At(callee)))
    BY DEF Visit, Limit
  <2>7. Policy(At(callee)) \in Nat /\ Limit(v) \in Nat
    BY <1>3, <1>5, <2>5
  <2>8. /\ Minimum(Minimum(Limit(v), Ceiling), Effective(At(callee))) = Minimum(Limit(w), Ceiling)
        /\ Minimum(Limit(w), Ceiling) \in Nat
    BY <1>2, <2>6, <2>7 DEF Minimum, Effective
  <2>9. e \in Entry
    BY <2>2, <2>5, <2>8 DEF Entry
  <2>10. Follows(e, w) /\ e.ref = callee /\ e.depth = i + 1
    BY <2>6, <2>8
  <2> HIDE DEF w, e, Follows
  <2>11. e \in V
    BY <2>1, <2>2, <2>4, <2>9, <2>10
  <2> QED BY <2>2, <2>11 DEF e
<1>7. ASSUME NEW e \in V
      PROVE /\ IsPublished(e.ref)
            /\ DependenciesOf(At(e.ref)) # {} => e.depth + 1 <= e.limit
            /\ Enters(e) \subseteq V
  <2>1. PICK v \in visits[e.depth] : Follows(e, v)
    OBVIOUS
  <2>2. e.depth \in 0 .. Policy(c) /\ IsPublished(e.ref) /\ e.depth \in Nat
    BY <1>2
  <2>3. Limit(v) \in Nat /\ Limit(v) <= Policy(c) /\ e.limit = Limit(v)
    BY <1>2, <1>5, <2>1, <2>2 DEF Minimum
  <2> HIDE DEF V
  <2>4. \A callee \in DependenciesOf(At(e.ref)) :
          /\ e.depth + 1 <= Limit(v)
          /\ [ref |-> callee, depth |-> e.depth + 1,
              limit |-> Minimum(Minimum(Limit(v), Ceiling), Effective(At(callee)))] \in V
    BY <1>6, <2>1, <2>2
  <2>5. Enters(e) \subseteq V
    BY <2>1, <2>4 DEF Enters
  <2> QED BY <2>2, <2>3, <2>4, <2>5
<1>8. top \in visits[0] /\ top.content = c /\ Limit(top) = Policy(c) /\ 0 \in 0 .. Policy(c)
  BY <1>1, <1>2 DEF Limit, Minimum
<1>9. ASSUME NEW callee \in DependenciesOf(c)
      PROVE [ref |-> callee, depth |-> 1, limit |-> Minimum(Effective(c), Effective(At(callee)))] \in V
  <2> HIDE DEF V, top
  <2>1. [ref |-> callee, depth |-> 0 + 1,
         limit |-> Minimum(Minimum(Policy(c), Ceiling), Effective(At(callee)))] \in V
    BY <1>6, <1>8
  <2> QED BY <2>1 DEF Effective
<1>10. 1 <= Effective(c)
  BY <1>2 DEF Effective, Minimum
<1>11. V \in SUBSET Entry
  OBVIOUS
<1> HIDE DEF V
<1> QED BY <1>7, <1>9, <1>10, <1>11 DEF Callable, Explored

(* What validate accepts is checked. *)
LEMMA CodesChecked ==
  ASSUME CatalogShape, NEW c \in Names, NEW latest, PublishCodes(c, latest) = {}
  PROVE Checked(c)
<1>1. /\ Codes("TEMPLATE_INVALID", c \notin sound) = {}
      /\ Codes("NODE_IMPLEMENTATION_DIGEST_MISSING", ~Replayable(Content[c])) = {}
      /\ DependencyCodes(c, latest) = {}
  BY Zenon DEF PublishCodes
<1>2. c \in sound /\ Replayable(Content[c])
  BY <1>1 DEF Codes
<1>3. Compiles(Content[c])
  BY <1>2 DEF CatalogShape
<1>4. Callable(c)
  BY <1>1, <1>3, TraversalIsCallable
<1> QED BY <1>2, <1>4 DEF Checked
-----------------------------------------------------------------------------
(* The calls of an author that do not write: reading a draft, and the steps of publish
   up to the last. *)
LEMMA DraftRead ==
  ASSUME CatalogInv, NEW a \in Authors, NEW id \in Ids, ReadDraft(a, id), UNCHANGED deployment
  PROVE CatalogInv'
<1>1. drafts[id].revision \in Nat /\ drafts[id].content \in Names /\ drafts[id].revision > 0
  BY DEF CatalogInv, CatalogShape, Draft, ReadDraft
<1> DEFINE x == [Away EXCEPT !.at = "holds", !.id = id, !.revision = drafts[id].revision,
                             !.content = drafts[id].content]
<1>2. id \in AuthorIds /\ "holds" \in Stages
  BY DEF AuthorIds, Stages
<1>3. x \in Author /\ x.at = "holds" /\ Holds(x)
  <2>1. /\ x \in Author /\ x.at = "holds" /\ x.id = id
        /\ x.revision = drafts[id].revision /\ x.content = drafts[id].content
    <3>1. PICK y \in Author : y = Away
      BY AwayShape
    <3>2. PICK n \in Nat : n = drafts[id].revision
      BY <1>1
    <3>3. PICK c \in Names : c = drafts[id].content
      BY <1>1
    <3>4. x = [y EXCEPT !.at = "holds", !.id = id, !.revision = n, !.content = c]
      BY <3>1, <3>2, <3>3
    <3>5. LET z == [y EXCEPT !.at = "holds", !.id = id, !.revision = n, !.content = c]
          IN z \in Author /\ z.at = "holds" /\ z.id = id /\ z.revision = n /\ z.content = c
      BY <1>2 DEF Author
    <3> HIDE DEF x
    <3> QED BY <3>2, <3>3, <3>4, <3>5
  <2> HIDE DEF x
  <2> QED BY <1>1, <2>1 DEF Holds
<1>4. Becomes(a, x) /\ UNCHANGED <<sound, drafts, published>>
  BY DEF ReadDraft
<1> HIDE DEF x
<1>5. PICK y \in Author : y = x
  BY <1>3
<1> QED BY <1>3, <1>4, <1>5, AuthorMoves

(* The author's record with another stage, and perhaps the latest revision it has read. *)
LEMMA Staged ==
  ASSUME NEW x \in Author, NEW stage \in Stages, NEW answer \in Nat
  PROVE /\ [x EXCEPT !.at = stage] \in Author
        /\ [x EXCEPT !.at = stage, !.answer = answer] \in Author
BY DEF Author

(* BeginPublish, ReadLatest, Validate and Forget: the author goes on with what it read,
   or gives up; past Validate the template is checked. *)
LEMMA AuthorGoesOn ==
  ASSUME CatalogInv, NEW a \in Authors, UNCHANGED deployment,
         BeginPublish(a) \/ ReadLatest(a) \/ Validate(a) \/ Forget(a)
  PROVE CatalogInv'
<1>1. PICK x \in Author : x = authors[a]
  BY DEF CatalogInv, CatalogShape
<1>2. /\ UNCHANGED <<sound, drafts, published>>
      /\ x.at # "away" /\ Holds(x)
  BY <1>1 DEF CatalogInv, BeginPublish, ReadLatest, Validate, Forget
<1>3. CASE Becomes(a, Away)
  BY <1>2, <1>3, AwayShape, AuthorMoves
<1>4. CASE BeginPublish(a) /\ Becomes(a, [x EXCEPT !.at = "compile"])
  <2>1. [x EXCEPT !.at = "compile"] \in Author
    BY Staged, 0 \in Nat, "compile" \in Stages DEF Stages
  <2>2. Holds([x EXCEPT !.at = "compile"])
    BY <1>2 DEF Holds, Author
  <2> QED BY <1>2, <1>4, <2>1, <2>2, AuthorMoves
<1>5. CASE ReadLatest(a)
  <2>1. Len(published[x.id]) \in Nat
    BY <1>2 DEF CatalogInv, CatalogShape, Holds
  <2>2. PICK n \in Nat : n = Len(published[x.id])
    BY <2>1
  <2>3. "dependencies" \in Stages
    BY DEF Stages
  <2>4. [x EXCEPT !.at = "dependencies", !.answer = n] \in Author
    BY <2>3, Staged
  <2>5. Holds([x EXCEPT !.at = "dependencies", !.answer = n])
    BY <1>2 DEF Holds, Author
  <2>6. Becomes(a, [x EXCEPT !.at = "dependencies", !.answer = n])
    BY <1>1, <1>5, <2>2 DEF ReadLatest
  <2> QED BY <1>2, <2>4, <2>5, <2>6, AuthorMoves
<1>6. CASE Validate(a) /\ PublishCodes(x.content, x.answer) = {} /\ Becomes(a, [x EXCEPT !.at = "publish"])
  <2>1. "publish" \in Stages /\ x.content \in Names
    BY DEF Stages, Author
  <2>2. [x EXCEPT !.at = "publish"] \in Author
    BY <2>1, Staged
  <2>3. Checked(x.content)
    BY <1>6, <2>1, CodesChecked DEF CatalogInv
  <2>4. Holds([x EXCEPT !.at = "publish"])
    BY <1>2, <2>3 DEF Holds, Author
  <2> QED BY <1>2, <1>6, <2>2, <2>4, AuthorMoves
<1> QED BY <1>1, <1>3, <1>4, <1>5, <1>6 DEF BeginPublish, Validate, Forget
-----------------------------------------------------------------------------
Inserts(id, n, entry) ==
  /\ n = Len(published[id]) /\ n < MaxRevisions /\ sound' = sound
  /\ published' = [published EXCEPT ![id] = [i \in 1 .. n + 1 |-> IF i = n + 1 THEN entry ELSE @[i]]]

(* publishDraft inserts the next revision under an identifier and changes none of the
   earlier ones. *)
LEMMA PublishingGrows ==
  ASSUME CatalogInv, NEW id \in Ids, NEW entry \in Revision, NEW n \in Nat, Inserts(id, n, entry)
  PROVE /\ published' \in [Ids -> Seq(Revision)]
        /\ \A x \in Ids : Len(published'[x]) <= MaxRevisions
        /\ DOMAIN published'[id] = 1 .. n + 1
        /\ published'[id][n + 1] = entry
        /\ Grows
        /\ \A ref : IsPublished(ref)' => IsPublished(ref) \/ (ref[1] = id /\ ref[2] = n + 1)
<1>1. published \in [Ids -> Seq(Revision)] /\ \A x \in Ids : Len(published[x]) <= MaxRevisions
  BY DEF CatalogInv, CatalogShape
<1>2. n \in Nat /\ n = Len(published[id]) /\ n < MaxRevisions /\ sound' = sound
  BY DEF Inserts
<1>3. PICK s \in Seq(Revision) : s = published[id] /\ Len(s) = n /\ DOMAIN s = 1 .. n
  BY <1>1, <1>2
<1> DEFINE t == [i \in 1 .. n + 1 |-> IF i = n + 1 THEN entry ELSE s[i]]
<1>4. published' = [published EXCEPT ![id] = t]
  BY <1>3 DEF Inserts
<1>5. \A i \in 1 .. n + 1 : t[i] \in Revision
  <2>1. \A i \in 1 .. n : s[i] \in Revision
    BY <1>3
  <2> QED BY <1>2, <2>1
<1>6. t \in Seq(Revision) /\ Len(t) = n + 1 /\ DOMAIN t = 1 .. n + 1
  <2>1. n + 1 \in Nat /\ t = [i \in 1 .. n + 1 |-> t[i]]
    BY <1>2
  <2> HIDE DEF t
  <2>2. t \in [1 .. n + 1 -> Revision]
    BY <1>5, <2>1
  <2> QED BY <2>1, <2>2
<1>7. t[n + 1] = entry /\ \A i \in 1 .. n : t[i] = s[i]
  BY <1>2
<1> HIDE DEF t
<1>8. published'[id] = t /\ \A x \in Ids \ {id} : published'[x] = published[x]
  BY <1>1, <1>4
<1>9. published' \in [Ids -> Seq(Revision)]
  BY <1>1, <1>4, <1>6
<1>10. \A x \in Ids : Len(published'[x]) <= MaxRevisions
  <2>1. MaxRevisions \in Nat
    BY CatalogAssumption, Zenon DEF CatalogAssumption
  <2>2. Len(published'[id]) <= MaxRevisions
    BY <1>2, <1>6, <1>8, <2>1
  <2>3. \A x \in Ids \ {id} : Len(published'[x]) <= MaxRevisions
    BY <1>1, <1>8
  <2> QED BY <2>2, <2>3
<1>11. ASSUME NEW ref, IsPublished(ref)
       PROVE IsPublished(ref)' /\ published'[ref[1]][ref[2]] = published[ref[1]][ref[2]]
  <2>1. CASE ref[1] = id
    <3>1. ref[2] \in 1 .. n
      BY <1>3, <1>11, <2>1 DEF IsPublished
    <3>2. ref[2] \in 1 .. n + 1 /\ t[ref[2]] = s[ref[2]]
      BY <1>2, <1>7, <3>1
    <3> QED BY <1>3, <1>6, <1>8, <2>1, <3>2 DEF IsPublished
  <2>2. CASE ref[1] # id
    BY <1>8, <1>11, <2>2 DEF IsPublished
  <2> QED BY <2>1, <2>2
<1>12. ASSUME NEW ref, IsPublished(ref)'
       PROVE IsPublished(ref) \/ (ref[1] = id /\ ref[2] = n + 1)
  <2>1. CASE ref[1] = id
    <3>1. ref[2] \in 1 .. n + 1
      BY <1>6, <1>8, <1>12, <2>1 DEF IsPublished
    <3>2. ref[2] = n + 1 \/ ref[2] \in 1 .. n
      BY <1>2, <3>1
    <3> QED BY <1>3, <2>1, <3>2 DEF IsPublished
  <2>2. CASE ref[1] # id
    BY <1>8, <1>12, <2>2 DEF IsPublished
  <2> QED BY <2>1, <2>2
<1> QED BY <1>2, <1>6, <1>7, <1>8, <1>9, <1>10, <1>11, <1>12 DEF Grows, At

(* The revision that is published is checked, and calls only revisions published before
   it: its number was not taken by then. *)
LEMMA NewIsGrounded ==
  ASSUME CatalogInv, Grows, NEW c \in Names, Checked(c), NEW ref \in Refs, ~IsPublished(ref), At(ref)' = c
  PROVE Grounded(ref)'
<1> DEFINE D == {d \in Refs : IsPublished(d)}
<1>1. ref \notin D /\ D \in SUBSET Refs
  OBVIOUS
<1>2. ASSUME NEW t \in Names, Checked(t)
      PROVE DependenciesOf(t) \subseteq D
  <2>1. PICK V \in SUBSET Entry :
          /\ Explored(V)
          /\ \A callee \in DependenciesOf(t) :
               [ref |-> callee, depth |-> 1, limit |-> Minimum(Effective(t), Effective(At(callee)))] \in V
    BY <1>2 DEF Checked, Callable
  <2>2. ASSUME NEW callee \in DependenciesOf(t)
        PROVE IsPublished(callee) /\ callee \in Refs
    <3> DEFINE e == [ref |-> callee, depth |-> 1, limit |-> Minimum(Effective(t), Effective(At(callee)))]
    <3>1. e \in V /\ e.ref = callee
      BY <2>1
    <3>2. IsPublished(callee)
      BY <2>1, <3>1 DEF Explored
    <3> QED BY <3>2, PublishedIsRef DEF CatalogInv
  <2> QED BY <2>2
<1>3. ASSUME NEW d \in D
      PROVE IsPublished(d)' /\ DependenciesOf(At(d)') \subseteq D
  <2>1. IsPublished(d)' /\ At(d)' = At(d) /\ d \in Refs /\ IsPublished(d)
    BY DEF Grows
  <2>2. At(d) \in Names /\ Checked(At(d))
    BY <2>1, ContentAt DEF CatalogInv
  <2>3. PICK t \in Names : t = At(d)
    BY <2>2
  <2>4. DependenciesOf(t) \subseteq D
    BY <1>2, <2>2, <2>3
  <2> QED BY <2>1, <2>3, <2>4
<1>4. DependenciesOf(c) \subseteq D
  BY <1>2
<1> HIDE DEF D
<1> QED BY <1>1, <1>3, <1>4 DEF Grounded

(* publishDraft: what the author is told is what is there, and nothing that was
   published or answered before changes. *)
LEMMA DraftPublished ==
  ASSUME CatalogInv, NEW a \in Authors, PublishDraft(a), UNCHANGED deployment
  PROVE CatalogInv'
<1>1. PICK x \in Author : x = authors[a]
  BY DEF CatalogInv, CatalogShape
<1>2. x.at = "publish" /\ Holds(x) /\ x.id \in Ids /\ Checked(x.content) /\ x.content \in Names
  BY <1>1 DEF CatalogInv, PublishDraft, Holds, Author
<1>3. CASE ~Unchanged(a)
  BY <1>3, AwayShape, AuthorMoves DEF PublishDraft
<1>4. CASE Unchanged(a)
  <2>1. PICK id \in Ids : id = x.id
    BY <1>2
  <2>2. PICK n \in Nat : n = Len(published[id])
    BY DEF CatalogInv, CatalogShape
  <2>3. x.revision = drafts[id].revision /\ x.content = drafts[id].content /\ x.revision \in Nat
    BY <1>1, <1>2, <1>4, <2>1 DEF Holds, Unchanged, Author
  <2>4. PICK entry \in Revision : entry = [source |-> x.revision, content |-> x.content]
    <3>1. [source |-> x.revision, content |-> x.content] \in Revision
      BY <1>2, <2>3 DEF Revision
    <3> QED BY <3>1
  <2>5. /\ Inserts(id, n, entry)
        /\ Becomes(a, [x EXCEPT !.at = "answered", !.answer = n + 1])
        /\ UNCHANGED <<sound, drafts>>
    BY <1>1, <1>4, <2>1, <2>2, <2>3, <2>4 DEF PublishDraft, Publishes, Inserts
  <2>6. /\ published' \in [Ids -> Seq(Revision)] /\ \A y \in Ids : Len(published'[y]) <= MaxRevisions
        /\ DOMAIN published'[id] = 1 .. n + 1 /\ published'[id][n + 1] = entry
        /\ Grows
        /\ \A ref : IsPublished(ref)' => IsPublished(ref) \/ (ref[1] = id /\ ref[2] = n + 1)
    BY <2>5, PublishingGrows
  <2> DEFINE z == [x EXCEPT !.at = "answered", !.answer = n + 1]
  <2>7. z \in Author
    <3>1. n + 1 \in Nat /\ "answered" \in Stages
      BY <2>2 DEF Stages
    <3> QED BY <3>1, Staged
  <2>8. z.at = "answered" /\ z.answer = n + 1 /\ z.id = id /\ z.revision = x.revision /\ z.content = x.content
    BY <2>1 DEF Author
  <2> HIDE DEF z
  <2>9. /\ authors' \in [Authors -> Author] /\ authors'[a] = z
        /\ \A b \in Authors \ {a} : authors'[b] = authors[b]
    BY <2>5, <2>7 DEF CatalogInv, CatalogShape, Becomes, z
  <2>10. CatalogShape'
    BY <2>5, <2>6, <2>9 DEF CatalogInv, CatalogShape
  <2>11. ASSUME NEW y \in Author, y.at # "away", Holds(y)
         PROVE Holds(y)'
    <3>1. y.at = "publish" => Checked(y.content)'
      BY <2>6, <2>11, CheckedKept DEF Holds
    <3>2. ASSUME y.at = "answered"
          PROVE /\ y.answer \in DOMAIN published'[y.id]
                /\ published'[y.id][y.answer] = [source |-> y.revision, content |-> y.content]
      <4> DEFINE ref == <<y.id, y.answer>>
      <4>1. y.id \in Ids /\ y.answer \in DOMAIN published[y.id]
        BY <2>11, <3>2 DEF Holds
      <4>2. IsPublished(ref) /\ ref[1] = y.id /\ ref[2] = y.answer
        BY <4>1 DEF IsPublished
      <4> HIDE DEF ref
      <4>3. IsPublished(ref)' /\ published'[y.id][y.answer] = published[y.id][y.answer]
        BY <2>6, <4>2 DEF Grows
      <4> QED BY <2>11, <3>2, <4>2, <4>3 DEF IsPublished, Holds
    <3> QED BY <2>5, <2>11, <3>1, <3>2 DEF Holds
  <2>12. Holds(z)'
    <3>1. published'[z.id][z.answer] = [source |-> z.revision, content |-> z.content]
      BY <2>4, <2>6, <2>8
    <3>2. z.answer \in DOMAIN published'[z.id]
      BY <2>2, <2>6, <2>8
    <3> QED BY <1>2, <2>1, <2>3, <2>5, <2>8, <3>1, <3>2 DEF Holds
  <2>13. ASSUME NEW b \in Authors, (authors[b].at # "away")'
         PROVE Holds(authors[b])'
    <3>1. PICK y \in Author : y = authors'[b]
      BY <2>9
    <3>2. CASE b = a
      BY <2>9, <2>12, <3>2 DEF Holds
    <3>3. CASE b # a
      <4>1. y = authors[b] /\ y.at # "away" /\ Holds(y)
        BY <2>9, <2>13, <3>1, <3>3 DEF CatalogInv
      <4> QED BY <2>11, <3>1, <4>1 DEF Holds
    <3> QED BY <3>2, <3>3
  <2>14. ASSUME NEW ref \in Refs, IsPublished(ref)'
         PROVE Checked(At(ref))' /\ Grounded(ref)'
    <3>1. CASE IsPublished(ref)
      <4>1. At(ref)' = At(ref)
        BY <2>6, <3>1 DEF Grows
      <4>2. PICK t \in Names : t = At(ref)
        BY <3>1, ContentAt DEF CatalogInv
      <4>3. Checked(t)'
        BY <2>6, <3>1, <4>2, CheckedKept DEF CatalogInv
      <4>4. Grounded(ref)'
        BY <2>6, <3>1, GroundedKept DEF CatalogInv
      <4> QED BY <4>1, <4>2, <4>3, <4>4
    <3>2. CASE ~IsPublished(ref)
      <4>1. ref[1] = id /\ ref[2] = n + 1
        BY <2>6, <2>14, <3>2
      <4>2. At(ref)' = x.content
        BY <2>4, <2>6, <4>1 DEF At
      <4>3. PICK c \in Names : c = x.content
        BY <1>2
      <4>4. Grounded(ref)'
        BY <1>2, <2>6, <3>2, <4>2, <4>3, NewIsGrounded
      <4>5. Checked(c)'
        BY <1>2, <2>6, <4>3, CheckedKept
      <4> QED BY <4>2, <4>3, <4>4, <4>5
    <3> QED BY <3>1, <3>2
  <2> QED BY <2>10, <2>13, <2>14 DEF CatalogInv
<1> QED BY <1>3, <1>4
-----------------------------------------------------------------------------
(* Whoever leaves the catalog alone preserves what holds of it. *)
LEMMA CatalogKept ==
  ASSUME CatalogInv, UNCHANGED <<sound, drafts, published, authors, deployment>>
  PROVE CatalogInv'
<1>1. PICK a \in Authors : TRUE
  BY CatalogAssumption DEF CatalogAssumption
<1>2. PICK x \in Author : x = authors[a]
  BY DEF CatalogInv, CatalogShape
<1>3. Becomes(a, x)
  BY <1>2 DEF Becomes, CatalogInv, CatalogShape
<1>4. x.at # "away" => Holds(x)
  BY <1>2 DEF CatalogInv
<1> QED BY <1>3, <1>4, AuthorMoves

(* Sessions, operators and the faults of the environment leave the catalog and the
   bindings alone. *)
LEMMA ExecutingApart ==
  ASSUME Executing
  PROVE UNCHANGED <<catalogVars, bindingVars, deployment>>
BY DEF Executing, Start, Step, ResumeRoot, HostFails, LeaseExpires, RecoverChild, Interrupted, Crashed,
       Cancelled, Decide, Reject, Calmly, Shock, Decided, Apart

(* An author of the deployment, or the first one while it publishes the shelf. *)
LEMMA AuthorsStep ==
  ASSUME CatalogInv, Authoring
  PROVE CatalogInv'
<1> USE DEF Authoring
<1>1. /\ \A c \in deployment.offers : c \in Names
      /\ \A i \in DOMAIN deployment.shelf : deployment.shelf[i] \in Names
  <2>1. deployment.shelf \in Seq(Names) /\ deployment.offers \subseteq Names
    <3>1. CASE deployment \in Deployments
      BY <3>1, DeploymentsAssumption DEF DeploymentsAssumption
    <3>2. CASE deployment = Study
      <4>1. deployment.shelf = <<>> /\ deployment.offers = {}
        BY <3>2 DEF Study
      <4> QED BY <4>1
    <3> QED BY <3>1, <3>2 DEF CatalogInv, CatalogShape
  <2> QED BY <2>1
<1>2. Curator \in Authors
  BY CatalogAssumption DEF CatalogAssumption, Curator
<1>3. ASSUME NEW a \in Authors, PublishStep(a)
      PROVE CatalogInv'
  BY <1>3, AuthorGoesOn, DraftPublished DEF PublishStep
<1>4. CASE Stock
  <2>1. PICK i \in DOMAIN deployment.shelf : \/ CreateDraft(Curator, deployment.shelf[i])
                                             \/ ReadDraft(Curator, Content[deployment.shelf[i]].id)
                                             \/ PublishStep(Curator)
    BY <1>4 DEF Stock
  <2>2. PICK c \in Names : c = deployment.shelf[i]
    BY <1>1
  <2>3. PICK a \in Authors : a = Curator
    BY <1>2
  <2>4. PICK id \in Ids : id = Content[c].id
    BY Named
  <2>5. CASE CreateDraft(a, c)
    BY <2>5, DraftCreated
  <2>6. CASE ReadDraft(a, id)
    BY <2>6, DraftRead
  <2> QED BY <1>3, <2>1, <2>2, <2>3, <2>4, <2>5, <2>6
<1>5. CASE \E a \in Authors : Taking(a) /\ AuthorStep(a, deployment.offers)
  <2>1. PICK a \in Authors : AuthorStep(a, deployment.offers)
    BY <1>5
  <2>2. CASE \E c \in deployment.offers : CreateDraft(a, c) \/ UpdateDraft(a, c)
    <3>1. PICK c \in Names : CreateDraft(a, c) \/ UpdateDraft(a, c)
      BY <1>1, <2>2
    <3> QED BY <3>1, DraftCreated, DraftUpdated
  <2>3. CASE \E id \in Ids : ReadDraft(a, id)
    BY <2>3, DraftRead
  <2> QED BY <1>3, <2>1, <2>2, <2>3 DEF AuthorStep
<1>6. CASE \E r \in Readers : Taking(r) /\ ReaderStep(r)
  <2>1. UNCHANGED <<sound, drafts, published, authors>>
    BY <1>6 DEF ReaderStep, BeginSearch, ReadPage
  <2> QED BY <2>1, CatalogKept
<1> QED BY <1>4, <1>5, <1>6

(* Nothing is published, drafted or answered initially. *)
LEMMA CatalogStarts ==
  ASSUME Init
  PROVE CatalogInv
<1> USE DEF Init, CatalogInit
<1>1. CatalogShape
  <2>1. NoDraft \in Draft
    BY CatalogAssumption DEF CatalogAssumption, NoDraft, Draft
  <2>2. <<>> \in Seq(Revision) /\ Len(<<>>) = 0
    OBVIOUS
  <2>3. drafts \in [Ids -> Draft]
    BY <2>1
  <2>4. published \in [Ids -> Seq(Revision)] /\ \A id \in Ids : Len(published[id]) <= MaxRevisions
    BY <2>2, CatalogAssumption DEF CatalogAssumption
  <2>5. authors \in [Authors -> Author]
    BY AwayShape
  <2> QED BY <2>3, <2>4, <2>5 DEF CatalogShape
<1>2. \A a \in Authors : authors[a].at = "away"
  BY AwayShape
<1>3. \A ref : ~IsPublished(ref)
  BY DEF IsPublished
<1> QED BY <1>1, <1>2, <1>3 DEF CatalogInv

(* The catalog keeps its promises whatever is published, bound and executed. *)
THEOREM CatalogCorrect == Spec => []CatalogInv
<1>1. Init => CatalogInv
  BY CatalogStarts
<1>2. CatalogInv /\ [Next]_vars => CatalogInv'
  <2> SUFFICES ASSUME CatalogInv, [Next]_vars PROVE CatalogInv'
    OBVIOUS
  <2>1. CASE Authoring
    BY <2>1, AuthorsStep
  <2>2. CASE Executing
    BY <2>2, ExecutingApart, CatalogKept DEF catalogVars
  <2>3. CASE Studying
    BY <2>3, CatalogKept DEF Studying, catalogVars
  <2>4. CASE Binding
    BY <2>4, CatalogKept DEF Binding, catalogVars
  <2>5. CASE UNCHANGED vars
    BY <2>5, CatalogKept DEF vars, catalogVars
  <2> QED BY <2>1, <2>2, <2>3, <2>4, <2>5 DEF Next
<1> QED BY <1>1, <1>2, PTL DEF Spec

(* An author who is told that its draft became a revision finds under it what it had
   read and validated (AnswersHold). *)
THEOREM AnswersAreTrue == Spec => []AnswersHold
<1>1. CatalogInv => AnswersHold
  BY DEF CatalogInv, Holds, AnswersHold
<1> QED BY <1>1, CatalogCorrect, PTL
-----------------------------------------------------------------------------
(* Whoever replaces a draft held the revision it replaces, and what that says. *)
Replaces == \A id \in Ids : drafts'[id] # drafts[id] /\ drafts[id].revision > 0 =>
              \E a \in Authors : /\ authors[a].at = "holds" /\ authors'[a].at = "away"
                                 /\ authors[a].id = id
                                 /\ authors[a].revision = drafts[id].revision
                                 /\ authors[a].content = drafts[id].content

(* An author that writes replaces the draft it had read, or creates one. *)
LEMMA WriterReplaces ==
  ASSUME CatalogInv, NEW a \in Authors, NEW c, CreateDraft(a, c) \/ UpdateDraft(a, c)
  PROVE Replaces
<1> SUFFICES ASSUME NEW id \in Ids, drafts'[id] # drafts[id], drafts[id].revision > 0
             PROVE \E b \in Authors : /\ authors[b].at = "holds" /\ authors'[b].at = "away"
                                      /\ authors[b].id = id
                                      /\ authors[b].revision = drafts[id].revision
                                      /\ authors[b].content = drafts[id].content
  BY DEF Replaces
<1>1. drafts \in [Ids -> Draft] /\ authors \in [Authors -> Author] /\ drafts[id].revision \in Nat
  BY DEF CatalogInv, CatalogShape, Draft
<1>2. CASE CreateDraft(a, c)
  <2>1. Content[c].id # id
    BY <1>1, <1>2 DEF CreateDraft
  <2> QED BY <1>1, <1>2, <2>1 DEF CreateDraft
<1>3. CASE UpdateDraft(a, c)
  <2>1. authors[a].at = "holds" /\ Becomes(a, Away)
    BY <1>3 DEF UpdateDraft
  <2>2. Unchanged(a) /\ authors[a].id = id
    BY <1>1, <1>3 DEF UpdateDraft
  <2>3. authors'[a].at = "away"
    BY <1>1, <2>1, AwayShape DEF Becomes
  <2>4. authors[a].revision = drafts[id].revision /\ authors[a].content = drafts[id].content
    BY <2>1, <2>2 DEF CatalogInv, Holds, Unchanged
  <2> QED BY <2>1, <2>2, <2>3, <2>4
<1> QED BY <1>2, <1>3

(* A draft is only ever replaced by an author who had read the draft it replaces
   (NoUpdateLost). *)
THEOREM UpdatesAreKept == Spec => NoUpdateLost
<1>1. CatalogInv /\ [Next]_vars => [Replaces]_drafts
  <2> SUFFICES ASSUME CatalogInv, Next, drafts' # drafts PROVE Replaces
    BY DEF vars, catalogVars
  <2>1. Authoring
    BY ExecutingApart DEF Next, Studying, Binding, catalogVars
  <2>2. PICK a \in Authors : \E c : CreateDraft(a, c) \/ UpdateDraft(a, c)
    <3>1. ASSUME NEW b \in Authors, PublishStep(b) PROVE UNCHANGED drafts
      BY <3>1 DEF PublishStep, BeginPublish, ReadLatest, Validate, PublishDraft, Publishes, Forget
    <3>2. ASSUME NEW b \in Authors, NEW id, ReadDraft(b, id) PROVE UNCHANGED drafts
      BY <3>2 DEF ReadDraft
    <3>3. ASSUME NEW r \in Readers, ReaderStep(r) PROVE UNCHANGED drafts
      BY <3>3 DEF ReaderStep, BeginSearch, ReadPage
    <3>4. Curator \in Authors
      BY CatalogAssumption DEF CatalogAssumption, Curator
    <3>5. CASE Stock
      <4>1. PICK i \in DOMAIN deployment.shelf : \/ CreateDraft(Curator, deployment.shelf[i])
                                                 \/ ReadDraft(Curator, Content[deployment.shelf[i]].id)
                                                 \/ PublishStep(Curator)
        BY <3>5 DEF Stock
      <4>2. PICK b \in Authors : b = Curator
        BY <3>4
      <4>3. PICK c : c = deployment.shelf[i]
        OBVIOUS
      <4> QED BY <3>1, <3>2, <4>1, <4>2, <4>3
    <3>6. CASE \E b \in Authors : Taking(b) /\ AuthorStep(b, deployment.offers)
      BY <3>1, <3>2, <3>6 DEF AuthorStep
    <3> QED BY <2>1, <3>3, <3>5, <3>6 DEF Authoring
  <2> QED BY <2>2, WriterReplaces
<1> QED BY <1>1, CatalogCorrect, PTL DEF Spec, NoUpdateLost, Replaces
-----------------------------------------------------------------------------
(* The templates are finitely many, so are their identifiers and their revisions. *)
LEMMA FinitelyMany == Far \in Nat /\ Cardinality(Ids) \in Nat
<1> DEFINE name == [c \in Names |-> Content[c].id]
<1>1. IsFiniteSet(Names) /\ MaxRevisions \in Nat
  BY CatalogAssumption DEF CatalogAssumption
<1>2. name \in Surjection(Names, Ids)
  BY DEF Ids, Surjection
<1>3. IsFiniteSet(Ids)
  <2> HIDE DEF name
  <2> QED BY <1>1, <1>2, FS_Surjection
<1>4. IsFiniteSet(Ids \X (1 .. MaxRevisions))
  BY <1>1, <1>3, FS_Product, FS_Interval
<1>5. Refs = Ids \X (1 .. MaxRevisions)
  BY DEF Refs
<1> QED BY <1>3, <1>4, <1>5, FS_CardinalityType DEF Far

(* A round of the closure, and the closure of a revision after so many of them. *)
Round(R) == R \cup Callees(R)

(* The closure of a revision is reached by rounds from itself. *)
LEMMA ClosureUnfolds ==
  ASSUME NEW ref
  PROVE \E called : /\ called[0] = Callees({ref})
                    /\ \A k \in 1 .. Far : called[k] = Round(called[k - 1])
                    /\ Closure(ref) = called[Far]
<1> DEFINE first == Callees({ref})
           Rounds == {n \in Nat : \E g : g = [i \in 0 .. n |-> IF i = 0 THEN first ELSE Round(g[i - 1])]}
           called[k \in 0 .. Far] == IF k = 0 THEN Callees({ref}) ELSE LET R == called[k - 1] IN R \cup Callees(R)
<1>1. 0 \in Rounds
  <2> DEFINE g == [i \in 0 .. 0 |-> first]
  <2>1. g = [i \in 0 .. 0 |-> IF i = 0 THEN first ELSE Round(g[i - 1])]
    OBVIOUS
  <2> QED BY <2>1
<1>2. ASSUME NEW n \in Rounds
      PROVE n + 1 \in Rounds
  <2>1. PICK g : g = [i \in 0 .. n |-> IF i = 0 THEN first ELSE Round(g[i - 1])]
    OBVIOUS
  <2> HIDE DEF first
  <2> DEFINE h == [i \in 0 .. n + 1 |-> IF i = n + 1 THEN Round(g[n]) ELSE g[i]]
  <2>2. n \in Nat
    OBVIOUS
  <2>3. ASSUME NEW i \in 0 .. n + 1
        PROVE h[i] = IF i = 0 THEN first ELSE Round(h[i - 1])
    <3>1. CASE i = n + 1
      <4>1. i # 0 /\ i - 1 = n /\ n \in 0 .. n + 1 /\ n # n + 1
        BY <2>2, <3>1
      <4> QED BY <3>1, <4>1
    <3>2. CASE i # n + 1
      <4>1. i \in 0 .. n /\ h[i] = g[i]
        BY <2>2, <3>2
      <4>2. i # 0 => i - 1 \in 0 .. n + 1 /\ i - 1 # n + 1
        BY <2>2
      <4>3. i # 0 => h[i - 1] = g[i - 1]
        BY <4>2
      <4> QED BY <2>1, <4>1, <4>3
    <3> QED BY <3>1, <3>2
  <2>4. h = [i \in 0 .. n + 1 |-> IF i = 0 THEN first ELSE Round(h[i - 1])]
    BY <2>3
  <2> HIDE DEF h
  <2>5. \E f : f = [i \in 0 .. n + 1 |-> IF i = 0 THEN first ELSE Round(f[i - 1])]
    BY <2>4
  <2> QED BY <2>2, <2>5
<1>3. Far \in Rounds
  <2> HIDE DEF Rounds
  <2>1. Rounds = Nat
    <3>1. Rounds \in SUBSET Nat
      BY DEF Rounds
    <3> QED BY <1>1, <1>2, <3>1, BySuccessor
  <2> QED BY <2>1, FinitelyMany
<1>4. called = [k \in 0 .. Far |-> IF k = 0 THEN first ELSE Round(called[k - 1])]
  BY <1>3, Zenon DEF Round
<1>5. Closure(ref) = called[Far]
  BY Zenon DEF Closure
<1> HIDE DEF called, Rounds
<1>6. \A k \in 0 .. Far : called[k] = IF k = 0 THEN first ELSE Round(called[k - 1])
  BY <1>4, Zenon
<1>7. called[0] = Callees({ref}) /\ \A k \in 1 .. Far : called[k] = Round(called[k - 1])
  BY <1>6, FinitelyMany
<1> QED BY <1>5, <1>7

(* What a revision calls, directly or not, stays within a set that its calls do not leave. *)
LEMMA ClosureWithin ==
  ASSUME NEW ref, NEW D, Callees({ref}) \subseteq D, Callees(D) \subseteq D
  PROVE Closure(ref) \subseteq D
<1>1. PICK called : /\ called[0] = Callees({ref})
                    /\ \A k \in 1 .. Far : called[k] = Round(called[k - 1])
                    /\ Closure(ref) = called[Far]
  BY ClosureUnfolds
<1> DEFINE Rounds == {k \in Nat : k <= Far => called[k] \subseteq D}
<1>2. 0 \in Rounds
  BY <1>1
<1>3. ASSUME NEW k \in Rounds
      PROVE k + 1 \in Rounds
  <2> SUFFICES ASSUME k + 1 <= Far PROVE called[k + 1] \subseteq D
    OBVIOUS
  <2>1. called[k] \subseteq D /\ k + 1 \in 1 .. Far /\ (k + 1) - 1 = k
    BY FinitelyMany
  <2>2. called[k + 1] = called[k] \cup Callees(called[k])
    BY <1>1, <2>1 DEF Round
  <2>3. Callees(called[k]) \subseteq Callees(D)
    BY <2>1 DEF Callees
  <2> QED BY <2>1, <2>2, <2>3
<1>4. Far \in Rounds
  <2>1. Rounds \in SUBSET Nat
    OBVIOUS
  <2> HIDE DEF Rounds
  <2>2. Rounds = Nat
    BY <1>2, <1>3, <2>1, BySuccessor
  <2> QED BY <2>2, FinitelyMany
<1> QED BY <1>1, <1>4, FinitelyMany

(* Whatever authors do between the steps of a publish, what is published compiles and
   has digests, and all it calls, directly or not, is published and never leads back to
   it (ClosuresHold). *)
THEOREM PublishedForEver == Spec => []ClosuresHold
<1>1. ASSUME CatalogInv, NEW ref \in Refs, IsPublished(ref)
      PROVE /\ At(ref) \in sound /\ Replayable(Content[At(ref)])
            /\ ref \notin Closure(ref) /\ \A callee \in Closure(ref) : IsPublished(callee)
  <2>1. Checked(At(ref)) /\ Grounded(ref)
    BY <1>1 DEF CatalogInv
  <2>2. PICK D \in SUBSET Refs : /\ ref \notin D
                                 /\ DependenciesOf(At(ref)) \subseteq D
                                 /\ \A d \in D : IsPublished(d) /\ DependenciesOf(At(d)) \subseteq D
    BY <2>1 DEF Grounded
  <2>3. Callees({ref}) \subseteq D /\ Callees(D) \subseteq D
    BY <1>1, <2>2 DEF Callees
  <2>4. Closure(ref) \subseteq D
    BY <2>3, ClosureWithin
  <2> QED BY <2>1, <2>2, <2>4 DEF Checked
<1>2. CatalogInv => ClosuresHold
  BY <1>1 DEF ClosuresHold
<1> QED BY <1>2, CatalogCorrect, PTL
-----------------------------------------------------------------------------
(* A further depth of an execution, and what it enters after so many of them. *)
Onward(V) == V \cup UNION {Enters(v) : v \in V}

(* What an execution enters is reached by such depths from its root. *)
LEMMA EnteredUnfolds ==
  ASSUME NEW ref
  PROVE \E entered :
          /\ entered[0] = {[ref |-> ref, depth |-> 0, limit |-> Effective(At(ref))]}
          /\ \A k \in 1 .. Cardinality(Ids) : entered[k] = Onward(entered[k - 1])
          /\ Entered(ref) = entered[Cardinality(Ids)]
<1> DEFINE first == {[ref |-> ref, depth |-> 0, limit |-> Effective(At(ref))]}
           Depths == {n \in Nat : \E g : g = [i \in 0 .. n |-> IF i = 0 THEN first ELSE Onward(g[i - 1])]}
           entered[k \in 0 .. Cardinality(Ids)] ==
             IF k = 0 THEN {[ref |-> ref, depth |-> 0, limit |-> Effective(At(ref))]}
             ELSE LET V == entered[k - 1] IN V \cup UNION {Enters(v) : v \in V}
<1>1. 0 \in Depths
  <2> DEFINE g == [i \in 0 .. 0 |-> first]
  <2>1. g = [i \in 0 .. 0 |-> IF i = 0 THEN first ELSE Onward(g[i - 1])]
    OBVIOUS
  <2> QED BY <2>1
<1>2. ASSUME NEW n \in Depths
      PROVE n + 1 \in Depths
  <2>1. PICK g : g = [i \in 0 .. n |-> IF i = 0 THEN first ELSE Onward(g[i - 1])]
    OBVIOUS
  <2> HIDE DEF first
  <2> DEFINE h == [i \in 0 .. n + 1 |-> IF i = n + 1 THEN Onward(g[n]) ELSE g[i]]
  <2>2. n \in Nat
    OBVIOUS
  <2>3. ASSUME NEW i \in 0 .. n + 1
        PROVE h[i] = IF i = 0 THEN first ELSE Onward(h[i - 1])
    <3>1. CASE i = n + 1
      <4>1. i # 0 /\ i - 1 = n /\ n \in 0 .. n + 1 /\ n # n + 1
        BY <2>2, <3>1
      <4> QED BY <3>1, <4>1
    <3>2. CASE i # n + 1
      <4>1. i \in 0 .. n /\ h[i] = g[i]
        BY <2>2, <3>2
      <4>2. i # 0 => i - 1 \in 0 .. n + 1 /\ i - 1 # n + 1
        BY <2>2
      <4>3. i # 0 => h[i - 1] = g[i - 1]
        BY <4>2
      <4> QED BY <2>1, <4>1, <4>3
    <3> QED BY <3>1, <3>2
  <2>4. h = [i \in 0 .. n + 1 |-> IF i = 0 THEN first ELSE Onward(h[i - 1])]
    BY <2>3
  <2> HIDE DEF h
  <2>5. \E f : f = [i \in 0 .. n + 1 |-> IF i = 0 THEN first ELSE Onward(f[i - 1])]
    BY <2>4
  <2> QED BY <2>2, <2>5
<1>3. Cardinality(Ids) \in Depths
  <2> HIDE DEF Depths
  <2>1. Depths = Nat
    <3>1. Depths \in SUBSET Nat
      BY DEF Depths
    <3> QED BY <1>1, <1>2, <3>1, BySuccessor
  <2> QED BY <2>1, FinitelyMany
<1>4. entered = [k \in 0 .. Cardinality(Ids) |-> IF k = 0 THEN first ELSE Onward(entered[k - 1])]
  BY <1>3, Zenon DEF Onward
<1>5. Entered(ref) = entered[Cardinality(Ids)]
  BY Zenon DEF Entered
<1> HIDE DEF entered, Depths, first
<1>6. \A k \in 0 .. Cardinality(Ids) : entered[k] = IF k = 0 THEN first ELSE Onward(entered[k - 1])
  BY <1>4, Zenon
<1>7. entered[0] = first /\ \A k \in 1 .. Cardinality(Ids) : entered[k] = Onward(entered[k - 1])
  BY <1>6, FinitelyMany
<1> QED BY <1>5, <1>7 DEF first

(* An execution enters nothing outside a set that its calls do not leave. *)
LEMMA EnteredWithin ==
  ASSUME NEW ref, NEW W, [ref |-> ref, depth |-> 0, limit |-> Effective(At(ref))] \in W,
         \A v \in W : Enters(v) \subseteq W
  PROVE Entered(ref) \subseteq W
<1>1. PICK entered :
          /\ entered[0] = {[ref |-> ref, depth |-> 0, limit |-> Effective(At(ref))]}
          /\ \A k \in 1 .. Cardinality(Ids) : entered[k] = Onward(entered[k - 1])
          /\ Entered(ref) = entered[Cardinality(Ids)]
  BY EnteredUnfolds
<1> DEFINE Depths == {k \in Nat : k <= Cardinality(Ids) => entered[k] \subseteq W}
<1>2. 0 \in Depths
  BY <1>1
<1>3. ASSUME NEW k \in Depths
      PROVE k + 1 \in Depths
  <2> SUFFICES ASSUME k + 1 <= Cardinality(Ids) PROVE entered[k + 1] \subseteq W
    OBVIOUS
  <2>1. entered[k] \subseteq W /\ k + 1 \in 1 .. Cardinality(Ids) /\ (k + 1) - 1 = k
    BY FinitelyMany
  <2>2. entered[k + 1] = Onward(entered[k])
    BY <1>1, <2>1
  <2> QED BY <2>1, <2>2 DEF Onward
<1>4. Cardinality(Ids) \in Depths
  <2>1. Depths \in SUBSET Nat
    OBVIOUS
  <2> HIDE DEF Depths
  <2>2. Depths = Nat
    BY <1>2, <1>3, <2>1, BySuccessor
  <2> QED BY <2>2, FinitelyMany
<1> QED BY <1>1, <1>4, FinitelyMany

(* No call of a published workflow exceeds the depth its run may go to (DepthsAgree): the
   walk that publish checked is the one every execution takes. *)
THEOREM CallsAreAllowed == Spec => []DepthsAgree
<1>1. ASSUME CatalogInv, NEW ref \in Refs, IsPublished(ref), NEW v \in Entered(ref),
             DependenciesOf(At(v.ref)) # {}
      PROVE v.depth + 1 <= v.limit
  <2> DEFINE root == [ref |-> ref, depth |-> 0, limit |-> Effective(At(ref))]
  <2>1. PICK c \in Names : c = At(ref)
    BY <1>1, ContentAt DEF CatalogInv
  <2>2. Callable(c)
    BY <1>1, <2>1 DEF CatalogInv, Checked
  <2>3. PICK V \in SUBSET Entry :
          /\ Explored(V)
          /\ \A callee \in DependenciesOf(c) :
               [ref |-> callee, depth |-> 1, limit |-> Minimum(Effective(c), Effective(At(callee)))] \in V
    BY <2>2 DEF Callable
  <2>4. Enters(root) \subseteq V
    <3>1. \A callee \in DependenciesOf(c) :
            [ref |-> callee, depth |-> 0 + 1, limit |-> Minimum(Effective(c), Effective(At(callee)))] \in V
      BY <2>3
    <3>2. root.ref = ref /\ root.depth = 0 /\ root.limit = Effective(c)
      BY <2>1
    <3> HIDE DEF root
    <3> QED BY <2>1, <3>1, <3>2 DEF Enters
  <2> DEFINE W == V \cup {root}
  <2>5. root \in W /\ \A u \in W : Enters(u) \subseteq W
    BY <2>3, <2>4 DEF Explored
  <2>6. v \in W
    <3> HIDE DEF W
    <3> QED BY <2>5, EnteredWithin
  <2>7. CASE v \in V
    BY <1>1, <2>3, <2>7 DEF Explored
  <2>8. CASE v = root
    <3>1. v.depth = 0 /\ v.limit = Effective(c) /\ v.ref = ref
      BY <2>1, <2>8
    <3>2. 1 <= Effective(c)
      BY <1>1, <2>1, <2>2, <3>1 DEF Callable
    <3> QED BY <3>1, <3>2
  <2> QED BY <2>6, <2>7, <2>8
<1>2. CatalogInv => DepthsAgree
  BY <1>1 DEF DepthsAgree
<1> QED BY <1>2, CatalogCorrect, PTL
-----------------------------------------------------------------------------
(* A candidate that was validated against its target, and what is known of a binder
   between the calls of its publish. *)
Served(candidate) == /\ candidate.trigger \in Triggers /\ IsPublished(candidate.target)
                     /\ MappingHolds(candidate, Content[At(candidate.target)].input)
Offered == [at : {"target", "publish", "answered"}, candidate : Candidates, expected : 0 .. MaxRevisions - 1]
Binder == Offered \cup {Unbound}
Bound(x) == x \in Offered =>
  /\ x.at = "publish" => Served(x.candidate)
  /\ x.at = "answered" => /\ x.expected + 1 \in DOMAIN bindings[x.candidate.id]
                          /\ bindings[x.candidate.id][x.expected + 1] = x.candidate
BindingShape == /\ bindings \in [BindingIds -> Seq(Candidates)]
                /\ \A b \in BindingIds : Len(bindings[b]) <= MaxRevisions
                /\ binders \in [Binders -> Binder]
BindingInv == /\ BindingShape
              /\ \A b \in BindingIds : \A k \in DOMAIN bindings[b] : Served(bindings[b][k])
              /\ \A w \in Binders : Bound(binders[w])

(* What a binding was validated against is there for ever. *)
LEMMA ServedKept ==
  ASSUME Grows, NEW candidate, Served(candidate)
  PROVE Served(candidate)'
BY DEF Served, Grows, MappingHolds

(* A binder that is away has offered nothing. *)
LEMMA AwayIsUnbound ==
  ASSUME NEW x \in Binder, x.at # "away"
  PROVE x \in Offered
BY DEF Binder, Unbound

(* A binder moves on and the bindings stay; what is published may have grown. *)
LEMMA BinderMoves ==
  ASSUME BindingInv, Grows, NEW w \in Binders, NEW x \in Binder, BinderBecomes(w, x), UNCHANGED bindings,
         Bound(x)
  PROVE BindingInv'
<1>1. /\ binders' \in [Binders -> Binder] /\ binders'[w] = x
      /\ \A v \in Binders \ {w} : binders'[v] = binders[v]
  BY DEF BindingInv, BindingShape, BinderBecomes
<1>2. BindingShape'
  BY <1>1 DEF BindingInv, BindingShape
<1>3. ASSUME NEW b \in BindingIds, NEW k \in (DOMAIN bindings[b])'
      PROVE Served(bindings[b][k])'
  <2>1. PICK y : y = bindings[b][k]
    OBVIOUS
  <2>2. Served(y)
    BY <1>3, <2>1 DEF BindingInv
  <2>3. Served(y)'
    BY <2>2, ServedKept
  <2> QED BY <2>1, <2>3
<1>4. ASSUME NEW v \in Binders
      PROVE Bound(binders[v])'
  <2>1. PICK y \in Binder : y = binders'[v]
    BY <1>1
  <2>2. Bound(y)
    BY <1>1, <2>1 DEF BindingInv
  <2>3. ASSUME y \in Offered, y.at = "publish"
        PROVE Served(y.candidate)'
    BY <2>2, <2>3, ServedKept DEF Bound
  <2>4. Bound(y)'
    BY <2>2, <2>3 DEF Bound
  <2> QED BY <2>1, <2>4 DEF Bound
<1> QED BY <1>2, <1>3, <1>4 DEF BindingInv

Appends(id, n, candidate) ==
  /\ n = Len(bindings[id]) /\ n < MaxRevisions
  /\ bindings' = [bindings EXCEPT ![id] = [i \in 1 .. n + 1 |-> IF i = n + 1 THEN candidate ELSE @[i]]]

(* publish inserts the next revision of a binding after the others. *)
LEMMA BindingAppended ==
  ASSUME BindingShape, NEW id \in BindingIds, NEW candidate \in Candidates, NEW n \in Nat,
         Appends(id, n, candidate)
  PROVE /\ bindings' \in [BindingIds -> Seq(Candidates)]
        /\ \A b \in BindingIds : Len(bindings'[b]) <= MaxRevisions
        /\ n + 1 \in DOMAIN bindings'[id] /\ bindings'[id][n + 1] = candidate
        /\ \A b \in BindingIds : \A k \in DOMAIN bindings[b] :
             k \in DOMAIN bindings'[b] /\ bindings'[b][k] = bindings[b][k]
        /\ \A b \in BindingIds : \A k \in DOMAIN bindings'[b] :
             k \in DOMAIN bindings[b] \/ bindings'[b][k] = candidate
<1>1. PICK s \in Seq(Candidates) : s = bindings[id] /\ Len(s) = n /\ DOMAIN s = 1 .. n
  BY DEF BindingShape, Appends
<1> DEFINE t == [i \in 1 .. n + 1 |-> IF i = n + 1 THEN candidate ELSE s[i]]
<1>2. bindings' = [bindings EXCEPT ![id] = t]
  BY <1>1 DEF Appends
<1>3. t[n + 1] = candidate /\ \A i \in 1 .. n : t[i] = s[i]
  OBVIOUS
<1>4. t \in Seq(Candidates) /\ Len(t) = n + 1 /\ DOMAIN t = 1 .. n + 1
  <2>1. \A i \in 1 .. n : s[i] \in Candidates
    BY <1>1
  <2>2. t \in [1 .. n + 1 -> Candidates]
    BY <2>1
  <2> HIDE DEF t
  <2> QED BY <2>2
<1> HIDE DEF t
<1>5. bindings'[id] = t /\ \A b \in BindingIds \ {id} : bindings'[b] = bindings[b]
  BY <1>2 DEF BindingShape
<1>6. bindings' \in [BindingIds -> Seq(Candidates)]
  BY <1>2, <1>4 DEF BindingShape
<1>7. \A b \in BindingIds : Len(bindings'[b]) <= MaxRevisions
  BY <1>4, <1>5, CatalogAssumption DEF CatalogAssumption, BindingShape, Appends
<1>8. n + 1 \in DOMAIN t /\ \A k \in 1 .. n : k \in DOMAIN t
  BY <1>4
<1>9. \A k \in DOMAIN t : k \in 1 .. n \/ t[k] = candidate
  BY <1>3, <1>4
<1> QED BY <1>1, <1>3, <1>5, <1>6, <1>7, <1>8, <1>9

(* The binder's record at another stage. *)
LEMMA Restaged ==
  ASSUME NEW x \in Offered, NEW stage \in {"target", "publish", "answered"}
  PROVE LET z == [x EXCEPT !.at = stage]
        IN z \in Offered /\ z.at = stage /\ z.candidate = x.candidate /\ z.expected = x.expected
BY DEF Offered

(* PublishBinding: the latest revision is the expected one, or nothing happens. *)
LEMMA BindingPublished ==
  ASSUME BindingInv, NEW w \in Binders, PublishBinding(w), UNCHANGED catalogVars
  PROVE BindingInv'
<1>1. Grows
  BY NothingPublished DEF catalogVars
<1>2. PICK x \in Offered : x = binders[w] /\ x.at = "publish"
  BY AwayIsUnbound DEF BindingInv, BindingShape, PublishBinding
<1>3. x.candidate \in Candidates /\ x.expected \in 0 .. MaxRevisions - 1 /\ Served(x.candidate)
  BY <1>2 DEF Offered, BindingInv, Bound
<1>4. PICK id \in BindingIds : id = x.candidate.id
  BY <1>3, BindingsAssumption DEF BindingsAssumption
<1>5. PICK n \in Nat : n = x.expected /\ n < MaxRevisions
  BY <1>3, CatalogAssumption DEF CatalogAssumption
<1>6. PICK candidate \in Candidates : candidate = x.candidate
  BY <1>3
<1>7. CASE Len(bindings[id]) # n
  <2>1. Unbound \in Binder /\ Bound(Unbound) /\ BinderBecomes(w, Unbound) /\ UNCHANGED bindings
    BY <1>2, <1>4, <1>5, <1>7 DEF Binder, Bound, Offered, Unbound, PublishBinding
  <2> QED BY <1>1, <2>1, BinderMoves
<1>8. CASE Len(bindings[id]) = n
  <2> DEFINE z == [x EXCEPT !.at = "answered"]
  <2>1. z \in Offered /\ z.at = "answered" /\ z.candidate = candidate /\ z.expected = n
    BY <1>5, <1>6, Restaged
  <2>2. Appends(id, n, candidate) /\ BinderBecomes(w, z)
    BY <1>2, <1>4, <1>5, <1>6, <1>8 DEF PublishBinding, Appended, Appends
  <2> HIDE DEF z
  <2>3. /\ bindings' \in [BindingIds -> Seq(Candidates)]
        /\ \A b \in BindingIds : Len(bindings'[b]) <= MaxRevisions
        /\ n + 1 \in DOMAIN bindings'[id] /\ bindings'[id][n + 1] = candidate
        /\ \A b \in BindingIds : \A k \in DOMAIN bindings[b] :
             k \in DOMAIN bindings'[b] /\ bindings'[b][k] = bindings[b][k]
        /\ \A b \in BindingIds : \A k \in DOMAIN bindings'[b] :
             k \in DOMAIN bindings[b] \/ bindings'[b][k] = candidate
    BY <2>2, BindingAppended DEF BindingInv
  <2>4. /\ binders' \in [Binders -> Binder] /\ binders'[w] = z
        /\ \A v \in Binders \ {w} : binders'[v] = binders[v]
    BY <2>1, <2>2 DEF BindingInv, BindingShape, BinderBecomes, Binder
  <2>5. BindingShape'
    BY <2>3, <2>4 DEF BindingShape
  <2>6. ASSUME NEW b \in BindingIds, NEW k \in (DOMAIN bindings[b])'
        PROVE Served(bindings[b][k])'
    <3>1. PICK y : y = bindings'[b][k]
      OBVIOUS
    <3>2. Served(y)
      BY <1>3, <1>6, <2>3, <2>6, <3>1 DEF BindingInv
    <3>3. Served(y)'
      BY <1>1, <3>2, ServedKept
    <3> QED BY <3>1, <3>3
  <2>7. ASSUME NEW v \in Binders
        PROVE Bound(binders[v])'
    <3>1. PICK y \in Binder : y = binders'[v]
      BY <2>4
    <3>2. CASE v = w
      BY <1>4, <1>6, <2>1, <2>3, <2>4, <3>2 DEF Bound
    <3>3. CASE v # w
      <4>1. Bound(y)
        BY <2>4, <3>1, <3>3 DEF BindingInv
      <4>2. ASSUME y \in Offered, y.at = "publish"
            PROVE Served(y.candidate)'
        BY <1>1, <4>1, <4>2, ServedKept DEF Bound
      <4>3. ASSUME y \in Offered, y.at = "answered"
            PROVE /\ y.expected + 1 \in DOMAIN bindings'[y.candidate.id]
                  /\ bindings'[y.candidate.id][y.expected + 1] = y.candidate
        <5>1. y.candidate.id \in BindingIds
          BY <4>3, BindingsAssumption DEF BindingsAssumption, Offered
        <5>2. /\ y.expected + 1 \in DOMAIN bindings[y.candidate.id]
              /\ bindings[y.candidate.id][y.expected + 1] = y.candidate
          BY <4>1, <4>3 DEF Bound
        <5> QED BY <2>3, <5>1, <5>2
      <4> QED BY <3>1, <4>2, <4>3 DEF Bound
    <3> QED BY <3>2, <3>3
  <2> QED BY <2>5, <2>6, <2>7 DEF BindingInv
<1> QED BY <1>2, <1>4, <1>5, <1>7, <1>8

(* A step of a binder: it offers a candidate, has it validated against the target, and
   publishes it. *)
LEMMA BindersStep ==
  ASSUME BindingInv, NEW w \in Binders, BinderStep(w), UNCHANGED catalogVars
  PROVE BindingInv'
<1>1. Grows
  BY NothingPublished DEF catalogVars
<1>2. Unbound \in Binder /\ Bound(Unbound)
  BY DEF Binder, Bound, Offered, Unbound
<1>3. ASSUME NEW candidate \in Candidates, NEW expected \in 0 .. MaxRevisions - 1,
             OfferBinding(w, candidate, expected)
      PROVE BindingInv'
  <2> DEFINE x == [at |-> "target", candidate |-> candidate, expected |-> expected]
  <2>1. x \in Offered /\ x.at = "target"
    BY DEF Offered
  <2>2. UNCHANGED bindings /\ (BinderBecomes(w, Unbound) \/ BinderBecomes(w, x))
    BY <1>3 DEF OfferBinding
  <2> HIDE DEF x
  <2>3. x \in Binder /\ Bound(x)
    BY <2>1 DEF Binder, Bound
  <2> QED BY <1>1, <1>2, <2>2, <2>3, BinderMoves
<1>4. CASE ReadTarget(w)
  <2>1. PICK x \in Offered : x = binders[w] /\ x.at = "target"
    BY <1>4, AwayIsUnbound DEF BindingInv, BindingShape, ReadTarget
  <2> DEFINE z == [x EXCEPT !.at = "publish"]
  <2>2. z \in Offered /\ z.at = "publish" /\ z.candidate = x.candidate
    BY Restaged
  <2>3. UNCHANGED bindings /\ (BinderBecomes(w, Unbound) \/ (BinderBecomes(w, z) /\ Served(x.candidate)))
    BY <1>4, <2>1 DEF ReadTarget, Served
  <2> HIDE DEF z
  <2>4. Served(x.candidate) => z \in Binder /\ Bound(z)
    BY <2>2 DEF Binder, Bound
  <2> QED BY <1>1, <1>2, <2>3, <2>4, BinderMoves
<1>5. CASE PublishBinding(w)
  BY <1>5, BindingPublished
<1> QED BY <1>3, <1>4, <1>5 DEF BinderStep

(* Whatever authors do, the revisions that are published stay. *)
LEMMA AuthorsGrow ==
  ASSUME CatalogInv, Authoring
  PROVE Grows
<1>1. ASSUME NEW a \in Authors, PublishDraft(a) PROVE Grows
  <2>1. PICK x \in Author : x = authors[a]
    BY DEF CatalogInv, CatalogShape
  <2>2. x.id \in Ids /\ drafts[x.id] \in Draft /\ x.at = "publish"
    BY <1>1, <2>1 DEF CatalogInv, CatalogShape, Holds, PublishDraft
  <2>3. CASE ~Unchanged(a)
    BY <1>1, <2>3, NothingPublished DEF PublishDraft
  <2>4. CASE Unchanged(a)
    <3>1. PICK id \in Ids : id = x.id
      BY <2>2
    <3>2. PICK n \in Nat : n = Len(published[id])
      BY DEF CatalogInv, CatalogShape
    <3>3. PICK entry \in Revision : entry = [source |-> drafts[id].revision, content |-> drafts[id].content]
      BY <2>2, <3>1 DEF Draft, Revision
    <3>4. Inserts(id, n, entry)
      BY <1>1, <2>1, <2>4, <3>1, <3>2, <3>3 DEF PublishDraft, Publishes, Inserts
    <3> QED BY <3>4, PublishingGrows
  <2> QED BY <2>3, <2>4
<1>2. ASSUME NEW a \in Authors, PublishStep(a) PROVE Grows
  BY <1>1, <1>2, NothingPublished DEF PublishStep, BeginPublish, ReadLatest, Validate, Forget
<1>3. ASSUME NEW a, NEW c, CreateDraft(a, c) \/ UpdateDraft(a, c) \/ ReadDraft(a, c) PROVE Grows
  BY <1>3, NothingPublished DEF CreateDraft, UpdateDraft, ReadDraft
<1>4. Curator \in Authors
  BY CatalogAssumption DEF CatalogAssumption, Curator
<1>5. CASE Stock
  <2>1. PICK i \in DOMAIN deployment.shelf : \/ CreateDraft(Curator, deployment.shelf[i])
                                             \/ ReadDraft(Curator, Content[deployment.shelf[i]].id)
                                             \/ PublishStep(Curator)
    BY <1>5 DEF Stock
  <2>2. PICK a \in Authors : a = Curator
    BY <1>4
  <2> QED BY <1>2, <1>3, <2>1, <2>2
<1>6. CASE \E a \in Authors : Taking(a) /\ AuthorStep(a, deployment.offers)
  BY <1>2, <1>3, <1>6 DEF AuthorStep
<1>7. CASE \E r \in Readers : Taking(r) /\ ReaderStep(r)
  BY <1>7, NothingPublished DEF ReaderStep, BeginSearch, ReadPage
<1> QED BY <1>5, <1>6, <1>7 DEF Authoring

(* Binders apart, what is known of bindings only needs that revisions stay. *)
LEMMA BindingKept ==
  ASSUME BindingInv, Grows, UNCHANGED bindingVars
  PROVE BindingInv'
<1>1. BindingShape'
  BY DEF BindingInv, BindingShape, bindingVars
<1>2. ASSUME NEW b \in BindingIds, NEW k \in (DOMAIN bindings[b])'
      PROVE Served(bindings[b][k])'
  <2>1. PICK y : y = bindings'[b][k]
    OBVIOUS
  <2>2. Served(y)
    BY <1>2, <2>1 DEF BindingInv, bindingVars
  <2>3. Served(y)'
    BY <2>2, ServedKept
  <2> QED BY <2>1, <2>3
<1>3. ASSUME NEW v \in Binders
      PROVE Bound(binders[v])'
  <2>1. PICK y : y = binders'[v]
    OBVIOUS
  <2>2. Bound(y)
    BY <2>1 DEF BindingInv, bindingVars
  <2>3. ASSUME y \in Offered, y.at = "publish"
        PROVE Served(y.candidate)'
    BY <2>2, <2>3, ServedKept DEF Bound
  <2>4. Bound(y)'
    BY <2>2, <2>3 DEF Bound, bindingVars
  <2> QED BY <2>1, <2>4 DEF Bound
<1> QED BY <1>1, <1>2, <1>3 DEF BindingInv

(* No binding exists at first. *)
LEMMA BindingsStart ==
  ASSUME Init
  PROVE BindingInv
<1>1. <<>> \in Seq(Candidates) /\ Len(<<>>) = 0 /\ DOMAIN <<>> = {}
  OBVIOUS
<1>2. Unbound \in Binder /\ Bound(Unbound)
  BY DEF Binder, Bound, Offered, Unbound
<1>3. BindingShape
  BY <1>1, <1>2, CatalogAssumption DEF CatalogAssumption, Init, BindingsInit, BindingShape
<1>4. \A b \in BindingIds : DOMAIN bindings[b] = {}
  BY <1>1 DEF Init, BindingsInit
<1> QED BY <1>2, <1>3, <1>4 DEF BindingInv, Init, BindingsInit

(* Every binding that was published can be served for ever, whatever is published,
   bound and executed meanwhile. *)
THEOREM BindingsCorrect == Spec => []BindingInv
<1>1. Init => BindingInv
  BY BindingsStart
<1>2. CatalogInv /\ BindingInv /\ [Next]_vars => BindingInv'
  <2> SUFFICES ASSUME CatalogInv, BindingInv, [Next]_vars PROVE BindingInv'
    OBVIOUS
  <2>1. CASE Authoring
    BY <2>1, AuthorsGrow, BindingKept DEF Authoring
  <2>2. CASE Executing
    BY <2>2, ExecutingApart, NothingPublished, BindingKept DEF catalogVars
  <2>3. CASE Studying
    BY <2>3, NothingPublished, BindingKept DEF Studying, catalogVars
  <2>4. CASE Binding
    BY <2>4, BindersStep DEF Binding
  <2>5. CASE UNCHANGED vars
    BY <2>5, NothingPublished, BindingKept DEF vars, catalogVars
  <2> QED BY <2>1, <2>2, <2>3, <2>4, <2>5 DEF Next
<1> QED BY <1>1, <1>2, CatalogCorrect, PTL DEF Spec

(* The trigger of a binding is known, its target is published, its mapping is what the
   target accepts, and a binder is told the truth (BindingsResolve). *)
THEOREM BindingsAreServed == Spec => []BindingsResolve
<1>1. ASSUME BindingInv
      PROVE BindingsResolve
  <2>1. \A b \in BindingIds : \A k \in DOMAIN bindings[b] : Served(bindings[b][k])
    BY <1>1 DEF BindingInv
  <2>2. ASSUME NEW w \in Binders, binders[w].at = "answered"
        PROVE bindings[binders[w].candidate.id][binders[w].expected + 1] = binders[w].candidate
    <3>1. PICK x \in Offered : x = binders[w] /\ Bound(x)
      BY <1>1, <2>2, AwayIsUnbound DEF BindingInv, BindingShape
    <3> QED BY <2>2, <3>1 DEF Bound
  <2> QED BY <2>1, <2>2 DEF BindingsResolve, Served, MappingHolds
<1> QED BY <1>1, BindingsCorrect, PTL
-----------------------------------------------------------------------------
(* What a page lists: the identifiers of S in ascending order. *)
Ascending(s) == \A i, j \in DOMAIN s : i < j => s[i] < s[j]
Lists(s, S) == /\ s \in Seq(Nat) /\ Ascending(s)
               /\ \A i \in DOMAIN s : s[i] \in S
               /\ \A x \in S : \E i \in DOMAIN s : s[i] = x

(* Numbers are appended one after the other. *)
LEMMA AppendedLists ==
  ASSUME NEW s, NEW S \in SUBSET Nat, Lists(s, S), NEW x \in Nat, \A y \in S : y < x
  PROVE Lists(Append(s, x), S \cup {x})
<1> DEFINE t == Append(s, x)
<1>1. PICK n \in Nat : s \in Seq(Nat) /\ n = Len(s) /\ DOMAIN s = 1 .. n
  BY DEF Lists
<1>2. /\ t \in Seq(Nat) /\ DOMAIN t = 1 .. n + 1 /\ t[n + 1] = x
      /\ \A i \in 1 .. n : t[i] = s[i]
  BY <1>1
<1> HIDE DEF t
<1>3. \A i \in 1 .. n : s[i] \in S /\ s[i] < x /\ s[i] \in Nat
  BY <1>1 DEF Lists
<1>4. ASSUME NEW i \in 1 .. n + 1, NEW j \in 1 .. n + 1, i < j
      PROVE t[i] < t[j]
  <2>1. i \in 1 .. n
    BY <1>1, <1>4
  <2>2. CASE j = n + 1
    BY <1>2, <1>3, <2>1, <2>2
  <2>3. CASE j # n + 1
    <3>1. j \in 1 .. n
      BY <1>1, <2>3
    <3> QED BY <1>1, <1>2, <1>4, <2>1, <3>1 DEF Lists, Ascending
  <2> QED BY <2>2, <2>3
<1>5. \A i \in 1 .. n + 1 : t[i] \in S \cup {x}
  <2>1. \A i \in 1 .. n + 1 : i \in 1 .. n \/ i = n + 1
    BY <1>1
  <2> QED BY <1>2, <1>3, <2>1
<1>6. ASSUME NEW y \in S \cup {x}
      PROVE \E i \in 1 .. n + 1 : t[i] = y
  <2>1. CASE y = x
    BY <1>1, <1>2, <2>1
  <2>2. CASE y \in S
    <3>1. PICK i \in 1 .. n : s[i] = y
      BY <1>1, <2>2 DEF Lists
    <3>2. i \in 1 .. n + 1
      BY <1>1
    <3> QED BY <1>2, <3>1, <3>2
  <2> QED BY <2>1, <2>2
<1>7. Lists(t, S \cup {x})
  BY <1>2, <1>4, <1>5, <1>6 DEF Lists, Ascending
<1> QED BY <1>7 DEF t

(* The repository lists what matches in the order of the identifiers. *)
LEMMA OrderedUnfolds ==
  ASSUME NEW S
  PROVE \E upTo : /\ upTo \in [0 .. Cardinality(Ids) -> Seq(Nat)]
                  /\ \A i \in 0 .. Cardinality(Ids) :
                       upTo[i] = IF i = 0 THEN <<>> ELSE IF i \in S THEN Append(upTo[i - 1], i) ELSE upTo[i - 1]
                  /\ Ordered(S) = upTo[Cardinality(Ids)]
<1> DEFINE X == Seq(Nat)
           N == Cardinality(Ids)
           F == [i \in Nat |-> [x \in X |-> IF i \in S THEN Append(x, i) ELSE x]]
           upTo[i \in 0 .. N] ==
             IF i = 0 THEN <<>> ELSE IF i \in S THEN Append(upTo[i - 1], i) ELSE upTo[i - 1]
<1>1. F \in [Nat -> [X -> X]]
  OBVIOUS
<1>2. <<>> \in X /\ N \in Nat
  BY FinitelyMany
<1>3. PICK f : Computes(f, N, X, <<>>, F)
  <2> HIDE DEF X, N, F, upTo
  <2> QED BY <1>1, <1>2, Iterates
<1>4. \A i \in 0 .. N : f[i] = IF i = 0 THEN <<>> ELSE IF i \in S THEN Append(f[i - 1], i) ELSE f[i - 1]
  <2> HIDE DEF N, upTo
  <2>1. ASSUME NEW i \in 0 .. N, i # 0
        PROVE F[i][f[i - 1]] = IF i \in S THEN Append(f[i - 1], i) ELSE f[i - 1]
    <3>1. f[i - 1] \in X /\ i \in Nat
      <4> HIDE DEF X, F
      <4> QED BY <1>2, <1>3, <2>1 DEF Computes
    <3> HIDE DEF X
    <3> QED BY <3>1
  <2> HIDE DEF F, X
  <2> QED BY <1>3, <2>1 DEF Computes
<1>5. f \in [0 .. N -> X]
  <2> HIDE DEF X, N, F, upTo
  <2> QED BY <1>3 DEF Computes
<1>6. f = [i \in 0 .. N |-> IF i = 0 THEN <<>> ELSE IF i \in S THEN Append(f[i - 1], i) ELSE f[i - 1]]
  <2> HIDE DEF X, N, F, upTo
  <2> QED BY <1>4, <1>5
<1>7. upTo = [i \in 0 .. N |-> IF i = 0 THEN <<>> ELSE IF i \in S THEN Append(upTo[i - 1], i) ELSE upTo[i - 1]]
  BY <1>6, Zenon
<1>8. Ordered(S) = upTo[N]
  BY Zenon DEF Ordered
<1>9. upTo \in [0 .. N -> X]
  <2> DEFINE T == {i \in 0 .. N : upTo[i] \in X}
  <2> HIDE DEF N, F, upTo, X
  <2>1. \A i \in 0 .. N : upTo[i] = IF i = 0 THEN <<>> ELSE IF i \in S THEN Append(upTo[i - 1], i) ELSE upTo[i - 1]
    BY <1>7, Zenon
  <2>2. 0 \in T
    BY <1>2, <2>1
  <2>3. ASSUME NEW i \in 1 .. N, i - 1 \in T
        PROVE i \in T
    <3>1. upTo[i - 1] \in X /\ i \in 0 .. N /\ i # 0 /\ i \in Nat
      BY <1>2, <2>3
    <3>2. Append(upTo[i - 1], i) \in X
      BY <3>1 DEF X
    <3>3. upTo[i] \in X
      BY <2>1, <3>1, <3>2
    <3> QED BY <3>1, <3>3
  <2>4. \A i \in 0 .. N : i \in T
    <3> HIDE DEF T
    <3> QED BY <1>2, <2>2, <2>3, Upwards
  <2>5. \A i \in 0 .. N : upTo[i] \in X
    BY <2>4
  <2>6. upTo = [i \in 0 .. N |-> upTo[i]]
    BY <1>7, Zenon
  <2> QED BY <2>5, <2>6, Zenon
<1>10. \A i \in 0 .. N :
         upTo[i] = IF i = 0 THEN <<>> ELSE IF i \in S THEN Append(upTo[i - 1], i) ELSE upTo[i - 1]
  <2> HIDE DEF N, F, upTo, X
  <2> QED BY <1>7, Zenon
<1> HIDE DEF upTo
<1> QED BY <1>8, <1>9, <1>10

LEMMA OrderedLists ==
  ASSUME NEW S \in SUBSET Ids
  PROVE Lists(Ordered(S), S)
<1>1. PICK upTo :
        /\ upTo \in [0 .. Cardinality(Ids) -> Seq(Nat)]
        /\ \A i \in 0 .. Cardinality(Ids) :
             upTo[i] = IF i = 0 THEN <<>> ELSE IF i \in S THEN Append(upTo[i - 1], i) ELSE upTo[i - 1]
        /\ Ordered(S) = upTo[Cardinality(Ids)]
  BY OrderedUnfolds
<1>2. PICK N \in Nat : N = Cardinality(Ids) /\ Ids = 1 .. N
  BY FinitelyMany, CatalogAssumption DEF CatalogAssumption
<1> DEFINE T == {i \in 0 .. N : Lists(upTo[i], S \cap (1 .. i))}
<1>3. 0 \in T
  <2>1. upTo[0] = <<>> /\ S \cap (1 .. 0) = {}
    BY <1>1, <1>2
  <2>2. Lists(<<>>, {})
    BY DEF Lists, Ascending
  <2> QED BY <1>2, <2>1, <2>2
<1>4. ASSUME NEW i \in 1 .. N, i - 1 \in T
      PROVE i \in T
  <2>1. Lists(upTo[i - 1], S \cap (1 .. i - 1))
    BY <1>4
  <2>2. CASE i \in S
    <3>1. upTo[i] = Append(upTo[i - 1], i)
      BY <1>1, <1>2, <2>2
    <3>2. (S \cap (1 .. i - 1)) \cup {i} = S \cap (1 .. i)
      BY <1>2, <2>2
    <3>3. Lists(Append(upTo[i - 1], i), (S \cap (1 .. i - 1)) \cup {i})
      <4>1. S \cap (1 .. i - 1) \in SUBSET Nat /\ i \in Nat /\ \A y \in S \cap (1 .. i - 1) : y < i
        BY <1>2
      <4> QED BY <2>1, <4>1, AppendedLists
    <3>4. Lists(upTo[i], S \cap (1 .. i))
      BY <3>1, <3>2, <3>3
    <3> QED BY <1>2, <3>4
  <2>3. CASE i \notin S
    <3>1. upTo[i] = upTo[i - 1]
      BY <1>1, <1>2, <2>3
    <3>2. S \cap (1 .. i - 1) = S \cap (1 .. i)
      BY <1>2, <2>3
    <3>3. Lists(upTo[i], S \cap (1 .. i))
      BY <2>1, <3>1, <3>2
    <3> QED BY <1>2, <3>3
  <2> QED BY <2>2, <2>3
<1>5. N \in T
  <2> HIDE DEF T
  <2>1. \A i \in 0 .. N : i \in T
    BY <1>2, <1>3, <1>4, Upwards
  <2> QED BY <1>2, <2>1
<1>6. S \cap (1 .. N) = S
  BY <1>2
<1> QED BY <1>1, <1>2, <1>5, <1>6
-----------------------------------------------------------------------------
(* A page of a search: what is listed up to its cursor, in order and completely. *)
LEMMA PageLists ==
  ASSUME NEW S \in SUBSET Ids
  PROVE \E page : /\ page = Page(FirstOf(PageSize + 1, Ordered(S)))
                  /\ \/ /\ page.after = <<>>
                        /\ Lists(page.items, S)
                     \/ \E last \in S : /\ page.after = <<last>>
                                        /\ Lists(page.items, {x \in S : x <= last})
<1> DEFINE s == Ordered(S)
           page == Page(FirstOf(PageSize + 1, s))
<1> SUFFICES \/ page.after = <<>> /\ Lists(page.items, S)
             \/ \E last \in S : page.after = <<last>> /\ Lists(page.items, {x \in S : x <= last})
  <2> HIDE DEF s
  <2>1. page = Page(FirstOf(PageSize + 1, Ordered(S)))
    BY DEF s
  <2> HIDE DEF page
  <2> QED BY <2>1, Zenon
<1>1. Lists(s, S)
  BY OrderedLists
<1> HIDE DEF s
<1>2. PICK n \in Nat : s \in Seq(Nat) /\ n = Len(s) /\ DOMAIN s = 1 .. n
  BY <1>1 DEF Lists
<1>3. PICK p \in Nat : p = PageSize /\ p # 0
  BY CatalogAssumption DEF CatalogAssumption
<1> DEFINE m == FirstOf(p + 1, s)
<1>4. /\ page.items = FirstOf(p, m)
      /\ page.after = IF Len(m) > p THEN <<m[p]>> ELSE <<>>
  BY <1>3 DEF Page
<1> HIDE DEF page
<1>5. ASSUME n <= p
      PROVE m = s /\ page.after = <<>> /\ page.items = s
  <2>1. m = SubSeq(s, 1, n)
    BY <1>2, <1>3, <1>5 DEF FirstOf, Minimum
  <2>2. m = s
    BY <1>2, <2>1
  <2> HIDE DEF m
  <2>3. page.after = <<>> /\ page.items = FirstOf(p, s)
    <3>1. ~(Len(m) > p)
      BY <1>2, <1>5, <2>2
    <3> QED BY <1>4, <2>2, <3>1
  <2>4. FirstOf(p, s) = SubSeq(s, 1, n)
    BY <1>2, <1>3, <1>5 DEF FirstOf, Minimum
  <2>5. SubSeq(s, 1, n) = s
    BY <1>2
  <2> QED BY <2>2, <2>3, <2>4, <2>5
<1>6. ASSUME ~(n <= p)
      PROVE /\ page.after = <<s[p]>>
            /\ page.items \in Seq(Nat) /\ DOMAIN page.items = 1 .. p
            /\ \A i \in 1 .. p : page.items[i] = s[i]
  <2>1. m = SubSeq(s, 1, p + 1)
    BY <1>2, <1>3, <1>6 DEF FirstOf, Minimum
  <2>2. m \in Seq(Nat) /\ Len(m) = p + 1 /\ \A i \in 1 .. p + 1 : m[i] = s[i]
    BY <1>2, <1>3, <1>6, <2>1
  <2> HIDE DEF m
  <2>3. page.after = <<m[p]>> /\ page.items = FirstOf(p, m)
    <3>1. Len(m) > p
      BY <2>2
    <3> QED BY <1>4, <3>1
  <2>4. FirstOf(p, m) = SubSeq(m, 1, p)
    BY <1>3, <2>2 DEF FirstOf, Minimum
  <2>5. /\ SubSeq(m, 1, p) \in Seq(Nat) /\ DOMAIN SubSeq(m, 1, p) = 1 .. p
        /\ \A i \in 1 .. p : SubSeq(m, 1, p)[i] = m[i]
    BY <1>3, <2>2
  <2>6. p \in 1 .. p + 1 /\ \A i \in 1 .. p : i \in 1 .. p + 1
    BY <1>3
  <2>7. m[p] = s[p] /\ \A i \in 1 .. p : m[i] = s[i]
    BY <2>2, <2>6
  <2>8. page.items = SubSeq(m, 1, p)
    BY <2>3, <2>4
  <2>9. page.after = <<s[p]>>
    BY <2>3, <2>7
  <2> QED BY <2>5, <2>7, <2>8, <2>9
<1>7. CASE n <= p
  <2>1. page.after = <<>> /\ page.items = s
    BY <1>5, <1>7
  <2> QED BY <1>1, <2>1
<1>8. CASE ~(n <= p)
  <2>1. PICK last \in S : last = s[p]
    <3>1. p \in DOMAIN s
      BY <1>2, <1>3, <1>8
    <3>2. s[p] \in S
      BY <1>1, <3>1 DEF Lists
    <3> QED BY <3>2
  <2>2. \A x \in Ids : x \in Nat
    BY CatalogAssumption, FinitelyMany DEF CatalogAssumption
  <2> DEFINE items == page.items
  <2>3. items \in Seq(Nat) /\ DOMAIN items = 1 .. p /\ \A i \in 1 .. p : items[i] = s[i] /\ i \in DOMAIN s
    <3>1. \A i \in 1 .. p : i \in DOMAIN s
      BY <1>2, <1>3, <1>8
    <3> QED BY <1>6, <1>8, <3>1
  <2> HIDE DEF items
  <2>4. Ascending(items)
    BY <1>1, <2>3 DEF Lists, Ascending
  <2>5. ASSUME NEW i \in DOMAIN items
        PROVE items[i] \in S /\ items[i] <= last
    <3>1. items[i] = s[i] /\ s[i] \in S /\ s[i] \in Nat
      BY <1>1, <1>2, <2>3 DEF Lists
    <3>2. CASE i = p
      BY <2>1, <3>1, <3>2, <2>2
    <3>3. CASE i # p
      <4>1. i < p /\ p \in DOMAIN s /\ i \in DOMAIN s
        BY <1>2, <1>3, <1>8, <2>3, <3>3
      <4>2. s[i] < s[p]
        BY <1>1, <4>1 DEF Lists, Ascending
      <4> QED BY <2>1, <2>2, <3>1, <4>2
    <3> QED BY <3>2, <3>3
  <2>6. ASSUME NEW x \in S, x <= last
        PROVE \E i \in DOMAIN items : items[i] = x
    <3>1. PICK i \in 1 .. n : s[i] = x
      BY <1>1, <1>2 DEF Lists
    <3>2. i <= p
      <4> SUFFICES ASSUME ~(i <= p) PROVE FALSE
        OBVIOUS
      <4>1. p \in 1 .. n /\ p < i
        BY <1>2, <1>3, <1>8
      <4>2. s[p] < s[i] /\ s[p] \in Nat /\ s[i] \in Nat
        <5>1. i \in DOMAIN s /\ p \in DOMAIN s
          BY <1>2, <4>1
        <5>2. s[p] < s[i]
          BY <1>1, <4>1, <5>1 DEF Lists, Ascending
        <5> QED BY <1>2, <5>1, <5>2
      <4> QED BY <2>1, <2>6, <3>1, <4>2
    <3>3. i \in 1 .. p
      BY <1>3, <3>2
    <3> QED BY <2>3, <3>1, <3>3
  <2>7. Lists(items, {x \in S : x <= last})
    BY <2>3, <2>4, <2>5, <2>6 DEF Lists
  <2> QED BY <1>6, <1>8, <2>1, <2>7 DEF items
<1> QED BY <1>7, <1>8
-----------------------------------------------------------------------------
(* Pages are joined: numbers up to k, then numbers beyond it. *)
LEMMA Joined ==
  ASSUME NEW s \in Seq(Nat), NEW t \in Seq(Nat), Ascending(s), Ascending(t), NEW k \in Nat,
         \A i \in DOMAIN s : s[i] <= k, \A i \in DOMAIN t : k < t[i]
  PROVE /\ s \o t \in Seq(Nat) /\ Ascending(s \o t)
        /\ \A i \in DOMAIN (s \o t) : \/ \E j \in DOMAIN s : (s \o t)[i] = s[j]
                                      \/ \E j \in DOMAIN t : (s \o t)[i] = t[j]
        /\ \A j \in DOMAIN s : \E i \in DOMAIN (s \o t) : (s \o t)[i] = s[j]
        /\ \A j \in DOMAIN t : \E i \in DOMAIN (s \o t) : (s \o t)[i] = t[j]
<1> DEFINE u == s \o t
<1>1. PICK m \in Nat : m = Len(s) /\ DOMAIN s = 1 .. m
  OBVIOUS
<1>2. PICK n \in Nat : n = Len(t) /\ DOMAIN t = 1 .. n
  OBVIOUS
<1>3. /\ u \in Seq(Nat) /\ DOMAIN u = 1 .. m + n
      /\ \A i \in 1 .. m : u[i] = s[i]
  BY <1>1, <1>2
<1>4. \A j \in 1 .. n : m + j \in 1 .. m + n /\ u[m + j] = t[j]
  BY <1>1, <1>2
<1>5. \A i \in 1 .. m + n : i \in 1 .. m \/ (i - m \in 1 .. n /\ m + (i - m) = i)
  BY <1>1, <1>2
<1> HIDE DEF u
<1>6. \A i \in 1 .. m + n : \/ i \in 1 .. m /\ u[i] = s[i]
                            \/ i - m \in 1 .. n /\ u[i] = t[i - m]
  BY <1>3, <1>4, <1>5
<1>7. \A i \in 1 .. m : i \in 1 .. m + n /\ s[i] \in Nat
  BY <1>1, <1>2
<1>8. \A i \in 1 .. n : t[i] \in Nat
  BY <1>2
<1>9. ASSUME NEW i \in 1 .. m + n, NEW j \in 1 .. m + n, i < j
      PROVE u[i] < u[j]
  <2>1. CASE j \in 1 .. m
    <3>1. i \in 1 .. m
      BY <1>1, <1>9, <2>1
    <3>2. s[i] < s[j]
      BY <1>1, <1>9, <2>1, <3>1 DEF Ascending
    <3> QED BY <1>3, <2>1, <3>1, <3>2
  <2>2. CASE i \in 1 .. m /\ j \notin 1 .. m
    <3>1. u[i] = s[i] /\ s[i] <= k /\ s[i] \in Nat
      BY <1>1, <1>3, <1>7, <2>2
    <3>2. j - m \in 1 .. n /\ u[j] = t[j - m]
      BY <1>6, <2>2
    <3>3. k < t[j - m] /\ t[j - m] \in Nat
      BY <1>2, <1>8, <3>2
    <3> QED BY <3>1, <3>2, <3>3
  <2>3. CASE i \notin 1 .. m /\ j \notin 1 .. m
    <3>1. i - m \in 1 .. n /\ u[i] = t[i - m] /\ j - m \in 1 .. n /\ u[j] = t[j - m]
      BY <1>6, <2>3
    <3>2. i - m < j - m
      BY <1>1, <1>9
    <3>3. t[i - m] < t[j - m]
      BY <1>2, <3>1, <3>2 DEF Ascending
    <3> QED BY <3>1, <3>3
  <2> QED BY <2>1, <2>2, <2>3
<1>10. Ascending(u)
  BY <1>3, <1>9 DEF Ascending
<1>11. \A i \in DOMAIN u : (\E j \in DOMAIN s : u[i] = s[j]) \/ (\E j \in DOMAIN t : u[i] = t[j])
  BY <1>1, <1>2, <1>3, <1>6
<1>12. \A j \in DOMAIN s : \E i \in DOMAIN u : u[i] = s[j]
  BY <1>1, <1>3, <1>7
<1>13. \A j \in DOMAIN t : \E i \in DOMAIN u : u[i] = t[j]
  BY <1>2, <1>3, <1>4
<1> QED BY <1>3, <1>10, <1>11, <1>12, <1>13 DEF u
-----------------------------------------------------------------------------
(* A search under way has found, in ascending order, everything up to its cursor that
   matched all the time; what matched all the time matches now, and what matches now
   has matched at some time. *)
Search == [at : {"away", "paging", "done"}, word : Words \cup {""}, after : Nat, found : Seq(Nat),
           always : SUBSET Ids, ever : SUBSET Ids]
Finds(x, y) == \E i \in DOMAIN x.found : x.found[i] = y
Searching(x) ==
  /\ Ascending(x.found)
  /\ \A i \in DOMAIN x.found : x.found[i] \in x.ever
  /\ x.at = "paging" => /\ x.always \subseteq Matching(x.word) /\ Matching(x.word) \subseteq x.ever
                        /\ \A i \in DOMAIN x.found : x.found[i] <= x.after
                        /\ \A y \in x.always : y <= x.after => Finds(x, y)
  /\ x.at = "done" => \A y \in x.always : Finds(x, y)
SearchInv == /\ readers \in [Readers -> Search]
             /\ \A r \in Readers : readers[r].at # "away" => Searching(readers[r])

(* What a search sees of a publication. *)
Sees(x, id, c) == IF x.at = "away" THEN x
                  ELSE IF x.word \in Content[c].words THEN [x EXCEPT !.ever = @ \cup {id}]
                       ELSE [x EXCEPT !.always = @ \ {id}]

(* Only the identifier that is published may match otherwise than before. *)
LEMMA MatchingGrows ==
  ASSUME CatalogInv, NEW id \in Ids, NEW entry \in Revision, NEW n \in Nat, Inserts(id, n, entry), NEW word
  PROVE Matching(word)' = IF word \in Content[entry.content].words THEN Matching(word) \cup {id}
                          ELSE Matching(word) \ {id}
<1>1. /\ published' \in [Ids -> Seq(Revision)]
      /\ DOMAIN published'[id] = 1 .. n + 1 /\ published'[id][n + 1] = entry
  BY PublishingGrows
<1>2. Len(published'[id]) = n + 1 /\ published'[id] # <<>>
  <2>1. PICK s \in Seq(Revision) : s = published'[id] /\ DOMAIN s = 1 .. n + 1
    BY <1>1
  <2>2. Len(s) = n + 1
    BY <2>1
  <2> QED BY <2>1, <2>2
<1>3. \A x \in Ids \ {id} : published'[x] = published[x]
  BY DEF Inserts, CatalogInv, CatalogShape
<1>4. \A x \in Ids : x \in Matching(word)' <=>
        published'[x] # <<>> /\ word \in Content[published'[x][Len(published'[x])].content].words
  BY DEF Matching
<1>5. \A x \in Ids : x \in Matching(word) <=>
        published[x] # <<>> /\ word \in Content[published[x][Len(published[x])].content].words
  BY DEF Matching
<1>6. id \in Matching(word)' <=> word \in Content[entry.content].words
  BY <1>1, <1>2, <1>4
<1>7. \A x \in Ids \ {id} : x \in Matching(word)' <=> x \in Matching(word)
  BY <1>3, <1>4, <1>5
<1>8. Matching(word) \subseteq Ids /\ Matching(word)' \subseteq Ids
  BY DEF Matching
<1> QED BY <1>6, <1>7, <1>8

(* A search survives what is published meanwhile. *)
LEMMA SearchGoesOn ==
  ASSUME CatalogInv, NEW id \in Ids, NEW entry \in Revision, NEW n \in Nat, Inserts(id, n, entry),
         NEW x \in Search, x.at # "away" => Searching(x)
  PROVE LET y == Sees(x, id, entry.content) IN y \in Search /\ (y.at # "away" => Searching(y)')
<1>1. CASE x.at = "away"
  BY <1>1 DEF Sees
<1> DEFINE M == Matching(x.word)
           W == x.word \in Content[entry.content].words
<1>2. Matching(x.word)' = IF W THEN M \cup {id} ELSE M \ {id}
  BY MatchingGrows
<1>3. CASE x.at # "away" /\ W
  <2> DEFINE y == [x EXCEPT !.ever = @ \cup {id}]
  <2>1. /\ y \in Search /\ y.at = x.at /\ y.word = x.word /\ y.after = x.after /\ y.found = x.found
        /\ y.always = x.always /\ y.ever = x.ever \cup {id}
    BY DEF Search
  <2>2. Sees(x, id, entry.content) = y
    BY <1>3 DEF Sees
  <2> HIDE DEF y
  <2>3. Matching(y.word)' = M \cup {id}
    BY <1>2, <1>3, <2>1
  <2> HIDE DEF W
  <2>4. Searching(y)'
    BY <1>3, <2>1, <2>3 DEF Searching, Finds
  <2> QED BY <2>1, <2>2, <2>4
<1>4. CASE x.at # "away" /\ ~W
  <2> DEFINE y == [x EXCEPT !.always = @ \ {id}]
  <2>1. /\ y \in Search /\ y.at = x.at /\ y.word = x.word /\ y.after = x.after /\ y.found = x.found
        /\ y.always = x.always \ {id} /\ y.ever = x.ever
    BY DEF Search
  <2>2. Sees(x, id, entry.content) = y
    BY <1>4 DEF Sees
  <2> HIDE DEF y
  <2>3. Matching(y.word)' = M \ {id}
    BY <1>2, <1>4, <2>1
  <2> HIDE DEF W
  <2>4. Searching(y)'
    BY <1>4, <2>1, <2>3 DEF Searching, Finds
  <2> QED BY <2>1, <2>2, <2>4
<1> QED BY <1>1, <1>3, <1>4

(* publishDraft, as the readers see it. *)
LEMMA SearchSeesPublish ==
  ASSUME CatalogInv, SearchInv, NEW a \in Authors, PublishDraft(a)
  PROVE SearchInv'
<1>1. CASE ~Unchanged(a)
  BY <1>1 DEF PublishDraft, SearchInv, Searching, Matching, Finds
<1>2. CASE Unchanged(a)
  <2>1. PICK x \in Author : x = authors[a]
    BY DEF CatalogInv, CatalogShape
  <2>2. x.at = "publish" /\ Holds(x) /\ x.id \in Ids /\ x.content \in Names
    BY <2>1 DEF CatalogInv, PublishDraft, Holds, Author
  <2>3. PICK id \in Ids : id = x.id
    BY <2>2
  <2>4. PICK n \in Nat : n = Len(published[id])
    BY DEF CatalogInv, CatalogShape
  <2>5. x.revision = drafts[id].revision /\ x.content = drafts[id].content /\ x.revision \in Nat
    BY <2>1, <2>2, <1>2, <2>3 DEF Holds, Unchanged, Author
  <2>6. PICK entry \in Revision : entry = [source |-> x.revision, content |-> x.content]
    <3>1. [source |-> x.revision, content |-> x.content] \in Revision
      BY <2>2, <2>5 DEF Revision
    <3> QED BY <3>1
  <2>7. Inserts(id, n, entry) /\ Searches(id, x.content)
    BY <2>1, <1>2, <2>3, <2>4, <2>5, <2>6 DEF PublishDraft, Publishes, Inserts
  <2>8. x.content = entry.content
    BY <2>6
  <2>9. readers' = [r \in Readers |-> Sees(readers[r], id, entry.content)]
    BY <2>7, <2>8 DEF Searches, Sees
  <2>10. ASSUME NEW r \in Readers
         PROVE readers'[r] \in Search /\ (readers'[r].at # "away" => Searching(readers[r])')
    <3>1. PICK z \in Search : z = readers[r]
      BY DEF SearchInv
    <3>2. z.at # "away" => Searching(z)
      BY <3>1 DEF SearchInv
    <3>3. PICK y : y = Sees(z, id, entry.content)
      OBVIOUS
    <3>4. y \in Search /\ (y.at # "away" => Searching(y)')
      BY <2>7, <3>2, <3>3, SearchGoesOn
    <3>5. readers'[r] = y
      BY <2>9, <3>1, <3>3
    <3> QED BY <3>4, <3>5 DEF Searching, Finds
  <2>11. readers' \in [Readers -> Search]
    BY <2>9, <2>10
  <2> QED BY <2>10, <2>11 DEF SearchInv
<1> QED BY <1>1, <1>2

(* Readers are known only by what is published: whoever leaves both alone. *)
LEMMA SearchKept ==
  ASSUME SearchInv, UNCHANGED <<readers, published>>
  PROVE SearchInv'
BY DEF SearchInv, Searching, Matching, Finds

(* A reader moves: what is published does not. *)
LEMMA ReaderMoves ==
  ASSUME SearchInv, UNCHANGED published, NEW r \in Readers, NEW x \in Search, x.at # "away" => Searching(x),
         readers' = [readers EXCEPT ![r] = x]
  PROVE SearchInv'
<1>1. readers' \in [Readers -> Search] /\ \A q \in Readers : readers'[q] = IF q = r THEN x ELSE readers[q]
  BY DEF SearchInv
<1>2. \A word : Matching(word)' = Matching(word)
  BY DEF Matching
<1>3. ASSUME NEW q \in Readers, readers'[q].at # "away"
      PROVE Searching(readers[q])'
  <2>1. PICK y : y = readers'[q] /\ Searching(y)
    BY <1>1, <1>3 DEF SearchInv
  <2> QED BY <1>2, <2>1 DEF Searching, Finds
<1> QED BY <1>1, <1>3 DEF SearchInv

(* Identifiers are numbered from one. *)
LEMMA Numbered == Ids \subseteq Nat /\ \A id \in Ids : id > 0
<1>1. PICK N \in Nat : Ids = 1 .. N
  BY FinitelyMany, CatalogAssumption DEF CatalogAssumption
<1> QED BY <1>1

(* A search starts with nothing found. *)
LEMMA SearchBegun ==
  ASSUME SearchInv, NEW r \in Readers, NEW word \in Words, BeginSearch(r, word)
  PROVE SearchInv'
<1> DEFINE M == Matching(word)
           x == [NoSearch EXCEPT !.at = "paging", !.word = word, !.always = M, !.ever = M]
<1>1. M \in SUBSET Ids
  BY DEF Matching
<1>2. readers' = [readers EXCEPT ![r] = x] /\ UNCHANGED published
  BY DEF BeginSearch
<1>3. \A y \in Ids : ~(y <= 0)
  BY Numbered
<1>4. /\ x \in Search /\ x.at = "paging" /\ x.found = <<>> /\ x.after = 0 /\ x.word = word
      /\ x.always = M /\ x.ever = M
  <2>1. NoSearch \in Search /\ NoSearch.found = <<>> /\ NoSearch.after = 0
    BY DEF Search, NoSearch
  <2> HIDE DEF M
  <2> QED BY <1>1, <2>1 DEF Search
<1> HIDE DEF x
<1>5. Searching(x)
  BY <1>1, <1>3, <1>4 DEF Searching, Ascending
<1> QED BY <1>2, <1>4, <1>5, ReaderMoves

(* A page of what matches now is added to what was found; the last page completes it. *)
LEMMA PageRead ==
  ASSUME SearchInv, NEW r \in Readers, ReadPage(r)
  PROVE SearchInv'
<1>1. PICK x \in Search : x = readers[r]
  BY DEF SearchInv
<1>2. x.at = "paging" /\ Searching(x)
  BY <1>1 DEF ReadPage, SearchInv
<1> DEFINE S == {id \in Matching(x.word) : id > x.after}
<1>3. S \in SUBSET Ids
  BY DEF Matching
<1>4. PICK page : /\ page = Page(FirstOf(PageSize + 1, Ordered(S)))
                  /\ \/ page.after = <<>> /\ Lists(page.items, S)
                     \/ \E last \in S : page.after = <<last>> /\ Lists(page.items, {y \in S : y <= last})
  <2> HIDE DEF S
  <2> QED BY <1>3, PageLists
<1> DEFINE y == [x EXCEPT !.found = x.found \o page.items,
                          !.after = IF page.after = <<>> THEN x.after ELSE page.after[1],
                          !.at = IF page.after = <<>> THEN "done" ELSE "paging"]
<1>5. readers' = [readers EXCEPT ![r] = y] /\ UNCHANGED published
  <2>1. readers' = [readers EXCEPT ![r].found = x.found \o page.items,
                                   ![r].after = IF page.after = <<>> THEN x.after ELSE page.after[1],
                                   ![r].at = IF page.after = <<>> THEN "done" ELSE "paging"]
    BY <1>1, <1>4 DEF ReadPage
  <2> QED BY <1>1, <2>1 DEF ReadPage, SearchInv, Search
<1> DEFINE Listed == IF page.after = <<>> THEN S ELSE {z \in S : z <= page.after[1]}
<1>6. Lists(page.items, Listed) /\ (page.after # <<>> => page.after[1] \in S)
  <2> HIDE DEF S
  <2>1. CASE page.after = <<>> /\ Lists(page.items, S)
    BY <2>1
  <2>2. ASSUME NEW last \in S, page.after = <<last>>, Lists(page.items, {z \in S : z <= last})
        PROVE Lists(page.items, Listed) /\ page.after[1] \in S
    <3>1. page.after # <<>> /\ page.after[1] = last
      BY <2>2
    <3> QED BY <2>2, <3>1
  <2> QED BY <1>4, <2>1, <2>2
<1>7. \A z \in Listed : z \in Matching(x.word) /\ x.after < z
  <2>1. Ids \subseteq Nat /\ x.after \in Nat
    BY Numbered DEF Search
  <2> QED BY <1>3, <2>1
<1>8. /\ page.items \in Seq(Nat) /\ Ascending(page.items)
      /\ \A i \in DOMAIN page.items : page.items[i] \in Listed
      /\ \A z \in Listed : \E i \in DOMAIN page.items : page.items[i] = z
  <2> HIDE DEF Listed
  <2> QED BY <1>6 DEF Lists
<1>9. /\ x.found \in Seq(Nat) /\ x.after \in Nat /\ Ascending(x.found)
      /\ \A i \in DOMAIN x.found : x.found[i] <= x.after /\ x.found[i] \in x.ever
      /\ x.always \subseteq Matching(x.word) /\ Matching(x.word) \subseteq x.ever
      /\ \A z \in x.always : z <= x.after => Finds(x, z)
  BY <1>2 DEF Searching, Search
<1> DEFINE f == x.found \o page.items
<1>10. /\ f \in Seq(Nat) /\ Ascending(f)
       /\ \A i \in DOMAIN f : \/ \E j \in DOMAIN x.found : f[i] = x.found[j]
                              \/ \E j \in DOMAIN page.items : f[i] = page.items[j]
       /\ \A j \in DOMAIN x.found : \E i \in DOMAIN f : f[i] = x.found[j]
       /\ \A j \in DOMAIN page.items : \E i \in DOMAIN f : f[i] = page.items[j]
  <2>1. \A i \in DOMAIN page.items : x.after < page.items[i]
    BY <1>7, <1>8
  <2>2. \A i \in DOMAIN x.found : x.found[i] <= x.after
    BY <1>9
  <2>3. PICK s \in Seq(Nat), t \in Seq(Nat), k \in Nat : s = x.found /\ t = page.items /\ k = x.after
    BY <1>8, <1>9
  <2> HIDE DEF Listed
  <2>4. Ascending(s) /\ Ascending(t) /\ (\A i \in DOMAIN s : s[i] <= k) /\ (\A i \in DOMAIN t : k < t[i])
    BY <1>8, <1>9, <2>1, <2>2, <2>3
  <2>5. /\ s \o t \in Seq(Nat) /\ Ascending(s \o t)
        /\ \A i \in DOMAIN (s \o t) : \/ \E j \in DOMAIN s : (s \o t)[i] = s[j]
                                      \/ \E j \in DOMAIN t : (s \o t)[i] = t[j]
        /\ \A j \in DOMAIN s : \E i \in DOMAIN (s \o t) : (s \o t)[i] = s[j]
        /\ \A j \in DOMAIN t : \E i \in DOMAIN (s \o t) : (s \o t)[i] = t[j]
    BY <2>4, Joined
  <2> QED BY <2>3, <2>5
<1>11. /\ y \in Search /\ y.found = f /\ y.word = x.word /\ y.always = x.always /\ y.ever = x.ever
       /\ y.at = IF page.after = <<>> THEN "done" ELSE "paging"
       /\ y.after = IF page.after = <<>> THEN x.after ELSE page.after[1]
  <2> HIDE DEF f, Listed
  <2>1. f \in Seq(Nat)
    BY <1>10
  <2>2. page.after # <<>> => page.after[1] \in Nat
    BY <1>3, <1>6, Numbered
  <2>3. (IF page.after = <<>> THEN x.after ELSE page.after[1]) \in Nat
    BY <1>9, <2>2
  <2> QED BY <2>1, <2>3 DEF Search, f
<1> HIDE DEF y, f
<1>12. \A i \in DOMAIN f : f[i] \in x.ever
  BY <1>7, <1>8, <1>9, <1>10
<1>13. ASSUME NEW z \in x.always, page.after # <<>> => z <= page.after[1]
       PROVE Finds(y, z)
  <2>1. z \in Ids /\ z \in Matching(x.word) /\ z \in Nat /\ x.after \in Nat
    BY <1>9, Numbered DEF Search
  <2>2. CASE z <= x.after
    BY <1>9, <1>10, <1>11, <2>2 DEF Finds
  <2>3. CASE z > x.after
    <3>1. z \in Listed
      BY <1>13, <2>1, <2>3
    <3>2. PICK j \in DOMAIN page.items : page.items[j] = z
      BY <1>8, <3>1
    <3> QED BY <1>10, <1>11, <3>2 DEF Finds
  <2> QED BY <2>1, <2>2, <2>3
<1>14. ASSUME page.after # <<>>
       PROVE \A i \in DOMAIN f : f[i] <= y.after
  <2>1. page.after[1] \in Nat /\ y.after = page.after[1]
    BY <1>3, <1>6, <1>11, <1>14, Numbered
  <2>2. \A i \in DOMAIN page.items : page.items[i] <= page.after[1]
    BY <1>8, <1>14
  <2>3. ASSUME NEW i \in DOMAIN x.found
        PROVE x.found[i] <= page.after[1]
    <3>1. x.found[i] \in Nat /\ x.found[i] <= x.after /\ x.after \in Nat
      BY <1>9
    <3>2. x.after < page.after[1]
      BY <1>6, <1>14, <2>1, <3>1
    <3> QED BY <2>1, <3>1, <3>2
  <2> QED BY <1>10, <2>1, <2>2, <2>3
<1>15. Searching(y)
  <2> HIDE DEF S, Listed
  <2> QED BY <1>9, <1>10, <1>11, <1>12, <1>13, <1>14 DEF Searching
<1> QED BY <1>5, <1>11, <1>15, ReaderMoves

(* Readers and authors interleave. *)
LEMMA SearchesStep ==
  ASSUME CatalogInv, SearchInv, Authoring
  PROVE SearchInv'
<1>1. ASSUME NEW a \in Authors, PublishStep(a)
      PROVE SearchInv'
  <2>1. CASE PublishDraft(a)
    BY <2>1, SearchSeesPublish
  <2>2. CASE ~PublishDraft(a)
    BY <1>1, <2>2, SearchKept DEF PublishStep, BeginPublish, ReadLatest, Validate, Forget
  <2> QED BY <2>1, <2>2
<1>2. Curator \in Authors
  BY CatalogAssumption DEF CatalogAssumption, Curator
<1>3. CASE Stock
  <2>1. PICK a \in Authors : a = Curator
    BY <1>2
  <2>2. CASE PublishStep(a)
    BY <1>1, <2>2
  <2>3. CASE ~PublishStep(a)
    BY <1>3, <2>1, <2>3, SearchKept DEF Stock, CreateDraft, ReadDraft
  <2> QED BY <2>2, <2>3
<1>4. CASE \E a \in Authors : Taking(a) /\ AuthorStep(a, deployment.offers)
  <2>1. PICK a \in Authors : AuthorStep(a, deployment.offers)
    BY <1>4
  <2>2. CASE PublishStep(a)
    BY <1>1, <2>2
  <2>3. CASE ~PublishStep(a)
    <3>1. UNCHANGED <<readers, published>>
      BY <2>1, <2>3 DEF AuthorStep, CreateDraft, UpdateDraft, ReadDraft
    <3> QED BY <3>1, SearchKept
  <2> QED BY <2>2, <2>3
<1>5. CASE \E r \in Readers : Taking(r) /\ ReaderStep(r)
  <2>1. PICK r \in Readers : (\E word \in Words : BeginSearch(r, word)) \/ ReadPage(r)
    BY <1>5 DEF ReaderStep
  <2> QED BY <2>1, SearchBegun, PageRead
<1> QED BY <1>3, <1>4, <1>5 DEF Authoring

(* A search that is done has found, once each, what the property asks for. *)
LEMMA SearchDone ==
  ASSUME SearchInv
  PROVE SearchIsComplete
<1> SUFFICES ASSUME NEW r \in Readers, readers[r].at = "done"
             PROVE LET found == {readers[r].found[i] : i \in DOMAIN readers[r].found}
                   IN /\ readers[r].always \subseteq found
                      /\ found \subseteq readers[r].ever
                      /\ Len(readers[r].found) = Cardinality(found)
  BY DEF SearchIsComplete
<1>1. PICK x \in Search : x = readers[r]
  BY DEF SearchInv
<1>2. x.at = "done" /\ Searching(x)
  BY <1>1 DEF SearchInv
<1> DEFINE found == {x.found[i] : i \in DOMAIN x.found}
<1>3. x.always \subseteq found /\ found \subseteq x.ever
  BY <1>2 DEF Searching, Finds
<1>4. PICK n \in Nat : x.found \in Seq(Nat) /\ n = Len(x.found) /\ DOMAIN x.found = 1 .. n
  <2>1. x.found \in Seq(Nat)
    BY DEF Search
  <2> QED BY <2>1
<1>5. ExistsBijection(1 .. n, found)
  <2>1. \A i, j \in 1 .. n : i # j => x.found[i] # x.found[j]
    <3>1. \A i, j \in 1 .. n : i < j => x.found[i] < x.found[j]
      BY <1>2, <1>4 DEF Searching, Ascending
    <3>2. \A i \in 1 .. n : x.found[i] \in Nat
      BY <1>4
    <3> QED BY <3>1, <3>2
  <2>2. x.found \in [1 .. n -> found]
    BY <1>4
  <2>3. \A z \in found : \E i \in 1 .. n : x.found[i] = z
    BY <1>4
  <2> HIDE DEF found
  <2>4. x.found \in Bijection(1 .. n, found)
    <3>1. IsInjective(x.found)
      BY <1>4, <2>1 DEF IsInjective
    <3> QED BY <2>2, <2>3, <3>1 DEF Bijection, Injection, Surjection
  <2> QED BY <2>4 DEF ExistsBijection
<1>6. Cardinality(found) = n
  <2> HIDE DEF found
  <2> QED BY <1>5, FS_CountingElements
<1> QED BY <1>1, <1>3, <1>4, <1>6

(* Searches keep their promise whatever is published between two of their pages. *)
THEOREM SearchesCorrect == Spec => []SearchInv
<1>1. Init => SearchInv
  <2> SUFFICES ASSUME Init PROVE SearchInv
    OBVIOUS
  <2>1. NoSearch \in Search /\ NoSearch.at = "away"
    BY DEF NoSearch, Search
  <2> QED BY <2>1 DEF Init, CatalogInit, SearchInv
<1>2. CatalogInv /\ SearchInv /\ [Next]_vars => SearchInv'
  <2> SUFFICES ASSUME CatalogInv, SearchInv, [Next]_vars PROVE SearchInv'
    OBVIOUS
  <2>1. CASE Authoring
    BY <2>1, SearchesStep
  <2>2. CASE Executing
    BY <2>2, ExecutingApart, SearchKept DEF catalogVars
  <2>3. CASE Studying
    BY <2>3, SearchKept DEF Studying, catalogVars
  <2>4. CASE Binding
    BY <2>4, SearchKept DEF Binding, catalogVars
  <2>5. CASE UNCHANGED vars
    BY <2>5, SearchKept DEF vars, catalogVars
  <2> QED BY <2>1, <2>2, <2>3, <2>4, <2>5 DEF Next
<1> QED BY <1>1, <1>2, CatalogCorrect, PTL DEF Spec

(* A reader that follows the cursors to the last page has found what matched all the
   time, nothing that never did, and nothing twice (SearchIsComplete). *)
THEOREM SearchesAreComplete == Spec => []SearchIsComplete
<1>1. SearchInv => SearchIsComplete
  BY SearchDone
<1> QED BY <1>1, SearchesCorrect, PTL
-----------------------------------------------------------------------------
(* A draft has at most MaxRevisions revisions, and a published revision is one of them. *)
Counted(f) == \A id \in Ids : f[id].revision <= MaxRevisions
Sourced(f) == \A id \in Ids : \A k \in DOMAIN f[id] : f[id][k].source \in 1 .. MaxRevisions
NumbersInv == Counted(drafts) /\ Sourced(published)

(* What an author writes in the catalog: a draft, a revision, or neither. *)
LEMMA NumbersKept ==
  ASSUME NumbersInv, UNCHANGED <<drafts, published>>
  PROVE NumbersInv'
BY DEF NumbersInv, Counted, Sourced

(* createDraft and updateDraft. *)
LEMMA DraftNumbered ==
  ASSUME CatalogInv, NumbersInv, NEW a \in Authors, NEW c \in Names, CreateDraft(a, c) \/ UpdateDraft(a, c)
  PROVE NumbersInv'
<1>1. MaxRevisions \in Nat /\ MaxRevisions >= 1
  <2>1. MaxRevisions \in Nat \ {0}
    BY CatalogAssumption, Zenon DEF CatalogAssumption
  <2> QED BY <2>1
<1>2. drafts \in [Ids -> Draft] /\ published' = published
  BY DEF CatalogInv, CatalogShape, CreateDraft, UpdateDraft
<1>3. ASSUME NEW id \in Ids
      PROVE drafts'[id].revision <= MaxRevisions
  <2>1. drafts[id].revision \in Nat /\ drafts[id].revision <= MaxRevisions
    BY <1>2 DEF NumbersInv, Counted, Draft
  <2>2. CASE CreateDraft(a, c)
    <3>1. drafts'[id] = drafts[id] \/ drafts'[id] = [revision |-> 1, content |-> c]
      BY <1>2, <2>2 DEF CreateDraft
    <3> QED BY <1>1, <2>1, <3>1
  <2>3. CASE UpdateDraft(a, c)
    <3>1. \/ drafts'[id] = drafts[id]
          \/ /\ drafts[id].revision < MaxRevisions
             /\ drafts'[id] = [revision |-> drafts[id].revision + 1, content |-> c]
      BY <1>2, <2>3 DEF UpdateDraft
    <3>2. drafts[id].revision < MaxRevisions => drafts[id].revision + 1 <= MaxRevisions
      BY <1>1, <2>1
    <3> QED BY <2>1, <3>1, <3>2
  <2> QED BY <2>2, <2>3
<1> QED BY <1>2, <1>3 DEF NumbersInv, Counted, Sourced

(* publishDraft: what is published is the revision the author holds. *)
LEMMA RevisionNumbered ==
  ASSUME CatalogInv, NumbersInv, NEW a \in Authors, PublishDraft(a)
  PROVE NumbersInv'
<1>1. PICK x \in Author : x = authors[a]
  BY DEF CatalogInv, CatalogShape
<1>2. x.at = "publish" /\ Holds(x)
  BY <1>1 DEF CatalogInv, PublishDraft
<1>3. CASE ~Unchanged(a)
  BY <1>3, NumbersKept DEF PublishDraft
<1>4. CASE Unchanged(a)
  <2>1. PICK id \in Ids : id = x.id
    BY <1>2 DEF Holds
  <2>2. drafts[id] \in Draft /\ x.revision = drafts[id].revision /\ 0 < x.revision
    BY <1>1, <1>2, <1>4, <2>1 DEF CatalogInv, CatalogShape, Holds, Unchanged
  <2>3. PICK n \in Nat : n = Len(published[id])
    BY DEF CatalogInv, CatalogShape
  <2>4. PICK entry \in Revision : entry = [source |-> drafts[id].revision, content |-> drafts[id].content]
    BY <2>2 DEF Draft, Revision
  <2>5. Inserts(id, n, entry) /\ drafts' = drafts
    BY <1>1, <1>4, <2>1, <2>3, <2>4 DEF PublishDraft, Publishes, Inserts
  <2>6. /\ DOMAIN published'[id] = 1 .. n + 1 /\ published'[id][n + 1] = entry
        /\ Grows
        /\ \A ref : IsPublished(ref)' => IsPublished(ref) \/ (ref[1] = id /\ ref[2] = n + 1)
    BY <2>5, PublishingGrows
  <2>7. entry.source \in 1 .. MaxRevisions
    <3>1. MaxRevisions \in Nat
      BY CatalogAssumption, Zenon DEF CatalogAssumption
    <3>2. drafts[id].revision \in Nat /\ drafts[id].revision <= MaxRevisions /\ 0 < drafts[id].revision
      BY <2>2 DEF NumbersInv, Counted, Draft
    <3> QED BY <2>4, <3>1, <3>2
  <2>8. ASSUME NEW y \in Ids, NEW k \in DOMAIN published'[y]
        PROVE published'[y][k].source \in 1 .. MaxRevisions
    <3> DEFINE ref == <<y, k>>
    <3>1. ref[1] = y /\ ref[2] = k /\ IsPublished(ref)'
      BY <2>8 DEF IsPublished
    <3> HIDE DEF ref
    <3>2. CASE IsPublished(ref)
      <4>1. published'[y][k] = published[y][k] /\ k \in DOMAIN published[y]
        BY <2>6, <3>1, <3>2 DEF Grows, IsPublished
      <4> QED BY <4>1 DEF NumbersInv, Sourced
    <3>3. CASE y = id /\ k = n + 1
      BY <2>6, <2>7, <3>3
    <3> QED BY <2>6, <3>1, <3>2, <3>3
  <2> QED BY <2>5, <2>8 DEF NumbersInv, Counted, Sourced
<1> QED BY <1>3, <1>4

(* An author of the deployment, or the first one while it publishes the shelf. *)
LEMMA AuthorsNumber ==
  ASSUME CatalogInv, NumbersInv, Authoring
  PROVE NumbersInv'
<1>1. /\ \A c \in deployment.offers : c \in Names
      /\ \A i \in DOMAIN deployment.shelf : deployment.shelf[i] \in Names
  <2>1. deployment.shelf \in Seq(Names) /\ deployment.offers \subseteq Names
    <3>1. CASE deployment \in Deployments
      BY <3>1, DeploymentsAssumption DEF DeploymentsAssumption
    <3>2. CASE deployment = Study
      <4>1. deployment.shelf = <<>> /\ deployment.offers = {}
        BY <3>2 DEF Study
      <4> QED BY <4>1
    <3> QED BY <3>1, <3>2 DEF CatalogInv, CatalogShape
  <2> QED BY <2>1
<1>2. Curator \in Authors
  BY CatalogAssumption DEF CatalogAssumption, Curator
<1>3. ASSUME NEW a \in Authors, PublishStep(a)
      PROVE NumbersInv'
  BY <1>3, RevisionNumbered, NumbersKept DEF PublishStep, BeginPublish, ReadLatest, Validate, Forget
<1>4. ASSUME NEW a \in Authors, NEW id, ReadDraft(a, id)
      PROVE NumbersInv'
  BY <1>4, NumbersKept DEF ReadDraft
<1>5. CASE Stock
  <2>1. PICK i \in DOMAIN deployment.shelf : \/ CreateDraft(Curator, deployment.shelf[i])
                                             \/ ReadDraft(Curator, Content[deployment.shelf[i]].id)
                                             \/ PublishStep(Curator)
    BY <1>5 DEF Stock
  <2>2. PICK c \in Names : c = deployment.shelf[i]
    BY <1>1
  <2>3. PICK a \in Authors : a = Curator
    BY <1>2
  <2> QED BY <1>3, <1>4, <2>1, <2>2, <2>3, DraftNumbered
<1>6. CASE \E a \in Authors : Taking(a) /\ AuthorStep(a, deployment.offers)
  <2>1. PICK a \in Authors : AuthorStep(a, deployment.offers)
    BY <1>6
  <2>2. CASE \E c \in deployment.offers : CreateDraft(a, c) \/ UpdateDraft(a, c)
    <3>1. PICK c \in Names : CreateDraft(a, c) \/ UpdateDraft(a, c)
      BY <1>1, <2>2
    <3> QED BY <3>1, DraftNumbered
  <2> QED BY <1>3, <1>4, <2>1, <2>2 DEF AuthorStep
<1>7. CASE \E r \in Readers : Taking(r) /\ ReaderStep(r)
  BY <1>7, NumbersKept DEF ReaderStep, BeginSearch, ReadPage
<1> QED BY <1>5, <1>6, <1>7 DEF Authoring

(* Published revisions come from revisions their draft has had, however authors
   interleave: none is published from a draft that does not exist. *)
THEOREM RevisionsAreNumbered == Spec => []NumbersInv
<1>1. Init => NumbersInv
  <2> SUFFICES ASSUME Init PROVE NumbersInv
    OBVIOUS
  <2>1. MaxRevisions \in Nat
    BY CatalogAssumption, Zenon DEF CatalogAssumption
  <2>2. \A id \in Ids : drafts[id].revision = 0 /\ published[id] = <<>>
    BY DEF Init, CatalogInit, NoDraft
  <2>3. DOMAIN <<>> = {}
    OBVIOUS
  <2> QED BY <2>1, <2>2, <2>3 DEF NumbersInv, Counted, Sourced
<1>2. CatalogInv /\ NumbersInv /\ [Next]_vars => NumbersInv'
  <2> SUFFICES ASSUME CatalogInv, NumbersInv, [Next]_vars PROVE NumbersInv'
    OBVIOUS
  <2>1. CASE Authoring
    BY <2>1, AuthorsNumber
  <2>2. CASE Executing
    BY <2>2, ExecutingApart, NumbersKept DEF catalogVars
  <2>3. CASE Studying
    BY <2>3, NumbersKept DEF Studying, catalogVars
  <2>4. CASE Binding
    BY <2>4, NumbersKept DEF Binding, catalogVars
  <2>5. CASE UNCHANGED vars
    BY <2>5, NumbersKept DEF vars, catalogVars
  <2> QED BY <2>1, <2>2, <2>3, <2>4, <2>5 DEF Next
<1> QED BY <1>1, <1>2, CatalogCorrect, PTL DEF Spec

(* The types of the catalog and of the bindings. *)
LEMMA CatalogTypes ==
  ASSUME CatalogInv, NumbersInv, SearchInv
  PROVE CatalogTypeOK
<1>1. MaxRevisions \in Nat
  BY CatalogAssumption, Zenon DEF CatalogAssumption
<1>2. drafts \in [Ids -> [revision : 0 .. MaxRevisions, content : Names]]
  <2>1. drafts \in [Ids -> Draft]
    BY DEF CatalogInv, CatalogShape
  <2>2. \A id \in Ids : drafts[id] \in [revision : 0 .. MaxRevisions, content : Names]
    BY <1>1, <2>1 DEF NumbersInv, Counted, Draft
  <2> QED BY <2>1, <2>2
<1>3. ASSUME NEW id \in Ids
      PROVE published[id] \in Seq([source : 1 .. MaxRevisions, content : Names])
  <2>1. PICK s \in Seq(Revision) : s = published[id]
    BY DEF CatalogInv, CatalogShape
  <2>2. \A k \in DOMAIN s : s[k] \in [source : 1 .. MaxRevisions, content : Names]
    <3>1. ASSUME NEW k \in DOMAIN s
          PROVE s[k] \in [source : 1 .. MaxRevisions, content : Names]
      <4>1. PICK entry \in Revision : entry = s[k]
        BY <2>1
      <4>2. entry.source \in 1 .. MaxRevisions
        BY <2>1, <4>1 DEF NumbersInv, Sourced
      <4>3. entry \in [source : 1 .. MaxRevisions, content : Names]
        BY <4>2 DEF Revision
      <4> QED BY <4>1, <4>3
    <3> QED BY <3>1
  <2>3. PICK S : S = [source : 1 .. MaxRevisions, content : Names]
    OBVIOUS
  <2>4. s \in Seq(S)
    <3>1. PICK n \in Nat : n = Len(s) /\ DOMAIN s = 1 .. n /\ s = [k \in 1 .. n |-> s[k]]
      BY <2>1
    <3>2. \A k \in 1 .. n : s[k] \in S
      BY <2>2, <2>3, <3>1
    <3>3. s \in [1 .. n -> S]
      BY <3>1, <3>2
    <3> QED BY <3>3
  <2> QED BY <2>1, <2>3, <2>4
<1>4. \A a \in Authors : authors[a].at \in Stages
  BY DEF CatalogInv, CatalogShape, Author
<1>5. \A r \in Readers : readers[r].at \in {"away", "paging", "done"}
  BY DEF SearchInv, Search
<1> QED BY <1>2, <1>3, <1>4, <1>5 DEF CatalogTypeOK, Stages

LEMMA BindingTypes ==
  ASSUME BindingInv
  PROVE BindingsTypeOK
<1>1. \A x \in Binder : x.at \in {"away", "target", "publish", "answered"}
  BY DEF Binder, Offered, Unbound
<1> QED BY <1>1 DEF BindingInv, BindingShape, BindingsTypeOK
=============================================================================
