---------------------------- MODULE NestedProofs ----------------------------
(* Proofs about the tree of runs: what a parent records of its children is so, no child
   runs that its parent has no trace of, and Host code that must not be retried is
   called once, for any tree and any number of sessions.                      *)
EXTENDS AdmissionProofs, SequenceTheorems

(* The sessions that are about to call the Host for the main node of a run, and the calls
   that are made or certain. *)
Calling(r) == {s \in Sessions : Is(s, r, "work")}
Certain(r) == Cardinality(Calling(r))
Spent(r) == calls[r] + Certain(r)

Placed(r) == IsIn(plan, r)
FrameStates == {"pending", "running", "completed"}
HandStages == {"todo", "mark", "child", "close", "done", "broken"}
MainStates == {"absent", "ready", "running", "needs_attention", "succeeded", "failed", "cancelled"}
Framed(r) == frames[r] \in [Items(r) -> FrameStates]
Done(r, i) == record[Child(r, i)] = "completed"

(* The parent of a run has launched the node that called it, and its frames know the item. *)
Traced(r) == r # Root => /\ Parent(r) \in Runs /\ attempts[Parent(r)] > 0
                         /\ IsForEach(Parent(r)) => /\ Framed(Parent(r)) /\ Item(r) \in Items(Parent(r))
                                                    /\ frames[Parent(r)][Item(r)] # "pending"

(* What an execution may rely on, whatever others commit. *)
WorksOn(r, hands, a, f) ==
  /\ a > 0
  /\ hands \in [Items(r) -> HandStages]
  /\ IsForEach(r) => f \in [Items(r) -> FrameStates]
  /\ \A i \in Items(r) : /\ hands[i] \in {"close", "done"} => Done(r, i)
                         /\ hands[i] \in {"mark", "close"} => IsForEach(r)
Working(r, hands) == WorksOn(r, hands, attempts[r], frames[r])
Claims(r, e) ==
  /\ e.at # "idle" => Placed(r) /\ Traced(r)
  /\ e.at = "work" /\ ~IsLeaf(r) => Working(r, e.hands)
  /\ e.at = "settle" /\ ~IsLeaf(r) => \A i \in Items(r) : Done(r, i)
  /\ e.at = "reply" => IsLeaf(r)
  /\ e.at = "ended" /\ e.answer = "completed" => record[r] = "completed"

(* What it may rely on as long as nobody else commits. *)
Committing == {"pause", "boot", "launch", "work", "reply", "settle", "failing", "yield", "cancel", "finish"}
Knows(r, e) ==
  /\ e.at \in Committing => record[r] \in {"running", "paused"}
  /\ e.at = "boot" /\ IsLeaf(r) /\ main[r] \in {"running", "needs_attention"} => Spent(r) <= retries[r]
  /\ e.at = "launch" => main[r] = "ready"

(* What the record of a run tells. *)
Recorded(r) ==
  /\ record[r] = "absent" => main[r] = "absent" /\ frames[r] = <<>>
  /\ record[r] \in {"running", "paused"} => main[r] \in {"ready", "running", "needs_attention", "succeeded"}
  /\ record[r] = "paused" => main[r] = "needs_attention"
  /\ record[r] # "absent" => Placed(r) /\ Traced(r)
  /\ frames[r] = <<>> \/ (IsForEach(r) /\ Framed(r))
  /\ ~IsLeaf(r) => \A i \in Items(r) :
       main[r] = "succeeded" \/ (frames[r] # <<>> /\ frames[r][i] = "completed") => Done(r, i)
  /\ IF IsLeaf(r) THEN Spent(r) <= retries[r] + (IF main[r] \in {"absent", "ready"} THEN 0 ELSE 1)
     ELSE calls[r] = 0

Executed(e) == e = [at |-> e.at, stop |-> e.stop, answer |-> e.answer, hands |-> e.hands, error |-> e.error]
RecordShape ==
  /\ record \in [Runs -> RunStatus] /\ seen = [r \in Runs |-> seen[r]]
  /\ main \in [Runs -> MainStates] /\ frames = [r \in Runs |-> frames[r]]
  /\ attempts \in [Runs -> Nat] /\ calls \in [Runs -> Nat] /\ retries \in [Runs -> Nat]
ExecShape ==
  /\ exec = [s \in Sessions |-> exec[s]]
  /\ \A s \in Sessions : /\ exec[s] = [r \in Runs |-> exec[s][r]]
                         /\ \A r \in Runs : Executed(exec[s][r])
  /\ \A r \in Runs : IsFiniteSet(Calling(r))

(* Before the root is started there is nothing; then there is room for its tree. *)
Rooted ==
  IF record[Root] = "absent"
  THEN \A r \in Runs : /\ record[r] = "absent" /\ calls[r] = 0
                       /\ \A s \in Sessions : exec[s][r] = Idle
  ELSE HasRoom(plan)

NestedInv ==
  /\ RecordShape /\ ExecShape /\ Rooted
  /\ \A r \in Runs : Recorded(r)
  /\ \A s \in Sessions, r \in Runs : /\ Claims(r, exec[s][r])
                                     /\ s \in seen[r] => Knows(r, exec[s][r])
-----------------------------------------------------------------------------
(* The child of a run is named by the run and the item. *)
LEMMA ChildNamed ==
  ASSUME NEW r \in Runs, NEW i, Child(r, i) \in Runs
  PROVE /\ Child(r, i) # Root /\ Child(r, i) # r
        /\ Parent(Child(r, i)) = r /\ Item(Child(r, i)) = i /\ Len(Child(r, i)) = Len(r) + 1
        /\ \A k \in 1 .. Len(r) : Child(r, i)[k] = r[k]
<1>1. r \in Seq(Nat) /\ Append(r, i) \in Seq(Nat)
  BY RunsAssumption DEF RunsAssumption, Child
<1>2. Len(Append(r, i)) = Len(r) + 1 /\ Len(r) \in Nat
  BY <1>1
<1>3. Append(r, i)[Len(r) + 1] = i /\ \A k \in 1 .. Len(r) : Append(r, i)[k] = r[k]
  BY <1>1
<1>4. SubSeq(Append(r, i), 1, Len(r)) = r
  <2> DEFINE t == SubSeq(Append(r, i), 1, Len(r))
  <2>1. t \in Seq(Nat) /\ Len(t) = Len(r) /\ \A k \in 1 .. Len(r) : t[k] = Append(r, i)[k]
    BY <1>1, <1>2
  <2> HIDE DEF t
  <2>2. t = r
    BY <1>1, <1>3, <2>1, SeqEqual
  <2> QED BY <2>2 DEF t
<1>5. Append(r, i) # <<>> /\ Append(r, i) # r
  BY <1>1, <1>2
<1> DEFINE c == Append(r, i)
<1>6. c = Child(r, i) /\ Len(c) = Len(r) + 1 /\ Len(c) - 1 = Len(r)
  BY <1>2 DEF Child
<1>7. SubSeq(c, 1, Len(r)) = r /\ c[Len(r) + 1] = i /\ (\A k \in 1 .. Len(r) : c[k] = r[k]) /\ c # <<>> /\ c # r
  BY <1>3, <1>4, <1>5
<1> HIDE DEF c
<1>8. Parent(c) = r /\ Item(c) = i
  BY <1>6, <1>7 DEF Parent, Item
<1> QED BY <1>6, <1>7, <1>8 DEF Root

(* Runs has room for the children of a run in the tree, and they are in the tree. *)
LEMMA ChildPlaced ==
  ASSUME HasRoom(plan), NEW r \in Runs, Placed(r), ~IsLeaf(r), NEW i \in Items(r)
  PROVE Child(r, i) \in Runs /\ Placed(Child(r, i))
<1>1. Child(r, i) \in Runs
  BY DEF HasRoom, Placed, IsLeaf, Items, Main
<1> DEFINE c == Child(r, i)
<1>2. Len(c) = Len(r) + 1 /\ Len(r) \in Nat /\ c[Len(r) + 1] = i /\ \A k \in 1 .. Len(r) : c[k] = r[k]
  <2>1. r \in Seq(Nat)
    BY RunsAssumption DEF RunsAssumption
  <2>2. c[Len(c)] = i
    BY <1>1, ChildNamed DEF Item
  <2> QED BY <1>1, <2>1, <2>2, ChildNamed
<1> HIDE DEF c
<1>3. ASSUME NEW k \in 1 .. Len(c)
      PROVE plan[k].main.with # <<>> /\ c[k] \in ItemsOf(plan[k].main)
  <2>1. CASE k \in 1 .. Len(r)
    BY <1>2, <2>1 DEF Placed, IsIn
  <2>2. CASE k = Len(r) + 1
    BY <1>2, <2>2 DEF IsLeaf, Items, Main
  <2> QED BY <1>2, <2>1, <2>2
<1> QED BY <1>1, <1>3 DEF Placed, IsIn, c
-----------------------------------------------------------------------------
(* A step that writes the record of at most one run, and takes nothing back of it. *)
Still(d) == /\ record'[d] = record[d] /\ main'[d] = main[d] /\ attempts'[d] = attempts[d]
            /\ frames'[d] = frames[d] /\ retries'[d] >= retries[d]
            /\ IsLeaf(d) \/ calls'[d] = calls[d]
Extends(r) ==
  /\ record[r] = "completed" => record'[r] = "completed"
  /\ record[r] # "absent" => record'[r] # "absent"
  /\ attempts'[r] >= attempts[r]
  /\ Framed(r) => /\ frames'[r] \in [Items(r) -> FrameStates]
                  /\ \A i \in Items(r) : frames[r][i] # "pending" => frames'[r][i] # "pending"
Writes(r) == plan' = plan /\ Extends(r) /\ \A d \in Runs \ {r} : Still(d)

(* The plan of a tree is never changed. *)
LEMMA PlanKept ==
  ASSUME plan' = plan, NEW r
  PROVE /\ Placed(r)' = Placed(r) /\ IsLeaf(r)' = IsLeaf(r) /\ IsForEach(r)' = IsForEach(r)
        /\ Items(r)' = Items(r) /\ HasRoom(plan)' = HasRoom(plan)
BY DEF Placed, IsLeaf, IsForEach, Items, Main, HasRoom

(* What the parent has launched and framed stays so. *)
LEMMA TracedKept ==
  ASSUME RecordShape, RecordShape', NEW r \in Runs, Writes(r), NEW d, Traced(d)
  PROVE Traced(d)'
<1> SUFFICES ASSUME d # Root
             PROVE /\ Parent(d) \in Runs /\ attempts'[Parent(d)] > 0
                   /\ IsForEach(Parent(d)) =>
                        /\ frames'[Parent(d)] \in [Items(Parent(d)) -> FrameStates]
                        /\ Item(d) \in Items(Parent(d)) /\ frames'[Parent(d)][Item(d)] # "pending"
  BY PlanKept DEF Traced, Framed, Writes
<1>1. PICK p \in Runs : p = Parent(d)
  BY DEF Traced
<1>2. attempts[p] \in Nat /\ attempts'[p] \in Nat /\ attempts'[p] >= attempts[p]
  BY DEF RecordShape, Writes, Still, Extends
<1>3. attempts'[p] > 0
  BY <1>1, <1>2 DEF Traced
<1>4. CASE p = r
  BY <1>1, <1>3, <1>4 DEF Traced, Writes, Extends, Framed
<1>5. CASE p # r
  BY <1>1, <1>3, <1>5 DEF Traced, Writes, Still, Framed
<1> QED BY <1>4, <1>5

(* A child that is completed stays so. *)
LEMMA DoneKept ==
  ASSUME HasRoom(plan), NEW r \in Runs, Writes(r), NEW d \in Runs, Placed(d), ~IsLeaf(d), NEW i \in Items(d),
         Done(d, i)
  PROVE Done(d, i)'
<1>1. Child(d, i) \in Runs
  BY ChildPlaced
<1> QED BY <1>1 DEF Done, Writes, Still, Extends

(* What an execution relies on whatever others commit. *)
LEMMA ClaimsKept ==
  ASSUME RecordShape, RecordShape', HasRoom(plan), NEW r \in Runs, Writes(r), NEW d \in Runs, NEW e, Claims(d, e)
  PROVE Claims(d, e)'
<1> USE DEF Claims
<1>1. plan' = plan
  BY DEF Writes
<1>2. (e.at # "idle" => Placed(d) /\ Traced(d))'
  BY <1>1, TracedKept, PlanKept
<1>3. ASSUME e.at = "work", ~IsLeaf(d)
      PROVE Working(d, e.hands)'
  <2>1. Working(d, e.hands) /\ Placed(d)
    BY <1>3
  <2>2. attempts'[d] > 0
    <3>1. attempts[d] \in Nat /\ attempts'[d] \in Nat /\ attempts'[d] >= attempts[d] /\ attempts[d] > 0
      BY <2>1 DEF RecordShape, Writes, Still, Extends, Working, WorksOn
    <3> QED BY <3>1
  <2>3. IsForEach(d) => frames'[d] \in [Items(d) -> FrameStates]
    BY <2>1 DEF Working, WorksOn, Writes, Still, Extends, Framed
  <2>4. ASSUME NEW i \in Items(d)
        PROVE /\ e.hands[i] \in {"close", "done"} => Done(d, i)'
              /\ e.hands[i] \in {"mark", "close"} => IsForEach(d)
    BY <1>3, <2>1, DoneKept DEF Working, WorksOn
  <2> QED BY <1>1, <2>1, <2>2, <2>3, <2>4, PlanKept DEF Working, WorksOn, Framed
<1>4. ASSUME e.at = "settle", ~IsLeaf(d)
      PROVE \A i \in Items(d) : Done(d, i)'
  BY <1>4, DoneKept
<1>5. e.at = "ended" /\ e.answer = "completed" => record'[d] = "completed"
  BY DEF Writes, Still, Extends
<1> QED BY <1>1, <1>2, <1>3, <1>4, <1>5, PlanKept

(* What an execution relies on as long as nobody else commits. *)
LEMMA KnowsKept ==
  ASSUME RecordShape, RecordShape', ExecShape, ExecShape', NEW r \in Runs, Writes(r), NEW d \in Runs, Still(d),
         Spent(d)' <= Spent(d), NEW e, Knows(d, e)
  PROVE Knows(d, e)'
<1>1. retries[d] \in Nat /\ retries'[d] \in Nat /\ retries'[d] >= retries[d]
  BY DEF RecordShape, Still
<1>2. Spent(d) \in Nat /\ Spent(d)' \in Nat
  <2>1. Cardinality(Calling(d)) \in Nat /\ Cardinality(Calling(d)') \in Nat
    BY FS_CardinalityType DEF ExecShape
  <2> QED BY <2>1 DEF Spent, Certain, RecordShape
<1>3. IsLeaf(d)' = IsLeaf(d)
  BY PlanKept DEF Writes
<1> HIDE DEF Spent
<1> QED BY <1>1, <1>2, <1>3 DEF Knows, Still

(* What the record of a run tells, while another one is written. *)
LEMMA RecordedKept ==
  ASSUME RecordShape, RecordShape', ExecShape, ExecShape', HasRoom(plan), NEW r \in Runs, Writes(r),
         NEW d \in Runs, Still(d), Spent(d)' <= Spent(d), Recorded(d)
  PROVE Recorded(d)'
<1>1. retries[d] \in Nat /\ retries'[d] \in Nat /\ retries'[d] >= retries[d]
  BY DEF RecordShape, Still
<1>2. Spent(d) \in Nat /\ Spent(d)' \in Nat
  <2>1. Cardinality(Calling(d)) \in Nat /\ Cardinality(Calling(d)') \in Nat
    BY FS_CardinalityType DEF ExecShape
  <2> QED BY <2>1 DEF Spent, Certain, RecordShape
<1>3. plan' = plan
  BY DEF Writes
<1>4. (record[d] # "absent" => Placed(d) /\ Traced(d))'
  BY <1>3, TracedKept, PlanKept DEF Recorded, Still
<1>5. ASSUME ~IsLeaf(d), NEW i \in Items(d),
             main'[d] = "succeeded" \/ (frames'[d] # <<>> /\ frames'[d][i] = "completed")
      PROVE Done(d, i)'
  <2>1. main[d] = "succeeded" \/ (frames[d] # <<>> /\ frames[d][i] = "completed")
    BY <1>5 DEF Still
  <2>2. Done(d, i)
    BY <1>5, <2>1 DEF Recorded
  <2>3. record[d] # "absent"
    BY <2>1 DEF Recorded
  <2>4. Placed(d)
    BY <2>3 DEF Recorded
  <2> QED BY <1>5, <2>2, <2>4, DoneKept
<1>6. IF IsLeaf(d) THEN Spent(d)' <= retries'[d] + (IF main'[d] \in {"absent", "ready"} THEN 0 ELSE 1)
      ELSE calls'[d] = 0
  BY <1>1, <1>2 DEF Recorded, Still
<1>7. frames'[d] = <<>> \/ (IsForEach(d) /\ frames'[d] \in [Items(d) -> FrameStates])
  BY DEF Recorded, Still, Framed
<1> HIDE DEF Spent
<1> QED BY <1>3, <1>4, <1>5, <1>6, <1>7, PlanKept DEF Recorded, Still, Framed

(* A step keeps the invariant if it writes one run's record well, and leaves to each
   execution what it may rely on. *)
LEMMA Moves ==
  ASSUME NestedInv, RecordShape', ExecShape', record[Root] # "absent",
         NEW r \in Runs, Writes(r), Recorded(r)', \A d \in Runs \ {r} : Spent(d)' <= Spent(d),
         \A s \in Sessions, d \in Runs :
           \/ /\ exec'[s][d] = exec[s][d]
              /\ s \in seen'[d] => s \in seen[d] /\ Still(d) /\ Spent(d)' <= Spent(d)
           \/ /\ Claims(d, exec[s][d])'
              /\ s \in seen'[d] => Knows(d, exec[s][d])'
  PROVE NestedInv'
<1>1. HasRoom(plan) /\ RecordShape /\ ExecShape
  BY DEF NestedInv, Rooted
<1>2. Rooted'
  <2>1. record'[Root] # "absent"
    BY RunsAssumption DEF RunsAssumption, Writes, Extends, Still
  <2>2. HasRoom(plan)'
    BY <1>1, PlanKept DEF Writes
  <2> QED BY <2>1, <2>2 DEF Rooted
<1>3. ASSUME NEW d \in Runs
      PROVE Recorded(d)'
  <2>1. CASE d = r
    BY <2>1
  <2>2. CASE d # r
    <3>1. Still(d) /\ Recorded(d) /\ Spent(d)' <= Spent(d)
      BY <2>2 DEF Writes, NestedInv
    <3> QED BY <1>1, <3>1, RecordedKept
  <2> QED BY <2>1, <2>2
<1>4. ASSUME NEW s \in Sessions, NEW d \in Runs
      PROVE Claims(d, exec[s][d])' /\ (s \in seen'[d] => Knows(d, exec[s][d])')
  <2>1. CASE exec'[s][d] = exec[s][d] /\ (s \in seen'[d] => s \in seen[d] /\ Still(d) /\ Spent(d)' <= Spent(d))
    <3>1. PICK e : e = exec[s][d]
      OBVIOUS
    <3>2. Claims(d, e)
      BY <3>1 DEF NestedInv
    <3>3. Claims(d, e)'
      BY <1>1, <3>2, ClaimsKept
    <3>4. ASSUME s \in seen'[d]
          PROVE Knows(d, e)'
      <4>1. Knows(d, e)
        BY <2>1, <3>1, <3>4 DEF NestedInv
      <4> QED BY <1>1, <2>1, <3>4, <4>1, KnowsKept
    <3>5. e = exec'[s][d]
      BY <2>1, <3>1
    <3> QED BY <3>3, <3>4, <3>5 DEF Claims, Knows
  <2> QED BY <2>1
<1> QED BY <1>2, <1>3, <1>4 DEF NestedInv
-----------------------------------------------------------------------------
(* The executions of one session become those of y. *)
Session(s, y) == /\ exec' = [exec EXCEPT ![s] = y] /\ y = [d \in Runs |-> y[d]]
                 /\ \A d \in Runs : Executed(y[d])

(* What that does to the calls of the Host that are certain. *)
LEMMA CallingMoves ==
  ASSUME ExecShape, NEW s \in Sessions, NEW y, Session(s, y)
  PROVE /\ ExecShape'
        /\ exec'[s] = y /\ \A t \in Sessions \ {s} : exec'[t] = exec[t]
        /\ \A d \in Runs :
             /\ Certain(d) \in Nat /\ Certain(d)' \in Nat
             /\ (y[d].at = "work" => exec[s][d].at = "work") => Certain(d)' <= Certain(d)
             /\ y[d].at # "work" /\ exec[s][d].at = "work" => Certain(d)' + 1 = Certain(d)
             /\ y[d].at = "work" => Certain(d)' <= Certain(d) + 1
<1>1. exec'[s] = y /\ \A t \in Sessions \ {s} : exec'[t] = exec[t]
  BY DEF ExecShape, Session
<1>2. ASSUME NEW d \in Runs
      PROVE /\ y[d].at = "work" => Calling(d)' = Calling(d) \cup {s}
            /\ y[d].at # "work" => Calling(d)' = Calling(d) \ {s}
            /\ s \in Calling(d) <=> exec[s][d].at = "work"
  BY <1>1 DEF Calling, Is
<1>3. ASSUME NEW d \in Runs
      PROVE /\ IsFiniteSet(Calling(d)')
            /\ Certain(d) \in Nat /\ Certain(d)' \in Nat
            /\ (y[d].at = "work" => exec[s][d].at = "work") => Certain(d)' <= Certain(d)
            /\ y[d].at # "work" /\ exec[s][d].at = "work" => Certain(d)' + 1 = Certain(d)
            /\ y[d].at = "work" => Certain(d)' <= Certain(d) + 1
  <2>1. PICK C : C = Calling(d) /\ IsFiniteSet(C)
    BY DEF ExecShape
  <2>2. /\ IsFiniteSet(C \cup {s}) /\ Cardinality(C \cup {s}) = IF s \in C THEN Cardinality(C) ELSE Cardinality(C) + 1
        /\ IsFiniteSet(C \ {s}) /\ Cardinality(C \ {s}) = IF s \in C THEN Cardinality(C) - 1 ELSE Cardinality(C)
        /\ Cardinality(C) \in Nat /\ Cardinality(C \ {s}) \in Nat
    BY <2>1, FS_AddElement, FS_RemoveElement, FS_CardinalityType
  <2>3. PICK D : D = Calling(d)'
    OBVIOUS
  <2>4. /\ y[d].at = "work" => D = C \cup {s}
        /\ y[d].at # "work" => D = C \ {s}
        /\ s \in C <=> exec[s][d].at = "work"
    BY <1>2, <2>1, <2>3
  <2>5. /\ IsFiniteSet(D) /\ Cardinality(C) \in Nat /\ Cardinality(D) \in Nat
        /\ y[d].at = "work" => Cardinality(D) = IF exec[s][d].at = "work" THEN Cardinality(C) ELSE Cardinality(C) + 1
        /\ y[d].at # "work" => Cardinality(D) = IF exec[s][d].at = "work" THEN Cardinality(C) - 1 ELSE Cardinality(C)
    <3>1. CASE y[d].at = "work"
      <4>1. D = C \cup {s}
        BY <2>4, <3>1
      <4>2. IsFiniteSet(D) /\ Cardinality(D) = IF s \in C THEN Cardinality(C) ELSE Cardinality(C) + 1
        BY <2>2, <4>1
      <4>3. Cardinality(D) \in Nat
        BY <4>2, FS_CardinalityType
      <4> QED BY <2>2, <2>4, <3>1, <4>2, <4>3
    <3>2. CASE y[d].at # "work"
      <4>1. D = C \ {s}
        BY <2>4, <3>2
      <4>2. IsFiniteSet(D) /\ Cardinality(D) = IF s \in C THEN Cardinality(C) - 1 ELSE Cardinality(C)
        BY <2>2, <4>1
      <4> QED BY <2>2, <2>4, <3>2, <4>1, <4>2
    <3> QED BY <3>1, <3>2
  <2>6. Certain(d) = Cardinality(C) /\ Certain(d)' = Cardinality(D)
    BY <2>1, <2>3 DEF Certain
  <2> QED BY <2>5, <2>6, <2>3
<1>4. ExecShape'
  <2>1. exec' = [t \in Sessions |-> exec'[t]]
    BY DEF ExecShape, Session
  <2>2. ASSUME NEW t \in Sessions
        PROVE exec'[t] = [d \in Runs |-> exec'[t][d]] /\ \A d \in Runs : Executed(exec'[t][d])
    <3>1. CASE t = s
      BY <1>1, <3>1 DEF Session
    <3>2. CASE t # s
      BY <1>1, <3>2 DEF ExecShape
    <3> QED BY <3>1, <3>2
  <2> QED BY <1>3, <2>1, <2>2 DEF ExecShape, Executed
<1> QED BY <1>1, <1>3, <1>4
-----------------------------------------------------------------------------
(* The other executions of a session: they go on, are told to stop, are over, or a
   child of the run begins.                                                        *)
Alike(e, f) == e.at = f.at /\ e.hands = f.hands /\ e.answer = f.answer
Begun(d, e) == e.at = "load" /\ Placed(d) /\ Traced(d)'
Others(s, r, y) == \A d \in Runs \ {r} : y[d] = Idle \/ Alike(y[d], exec[s][d]) \/ Begun(d, y[d])

(* None of them answers anew, and none has answered one that worked and is replaced. *)
Heeds(s, r, y) ==
  \A d \in Runs \ {r} : y[d].at = "ended" =>
    /\ exec[s][d].at = "ended"
    /\ d # Root /\ Parent(d) \in Runs \ {r} /\ exec[s][Parent(d)].at = "work"
         => Alike(y[Parent(d)], exec[s][Parent(d)])

(* A run is below its parent, and not its parent. *)
LEMMA ParentAbove ==
  ASSUME NEW d \in Runs, d # Root
  PROVE Parent(d) # d /\ (Parent(d) \in Runs => d \in Under(Parent(d)))
<1>1. d \in Seq(Nat) /\ d # <<>>
  BY RunsAssumption DEF RunsAssumption, Root
<1>2. PICK n \in Nat : n = Len(d) - 1 /\ Len(d) = n + 1
  BY <1>1
<1>3. PICK p \in Seq(Nat) : p = SubSeq(d, 1, n) /\ Len(p) = n
  <2>1. SubSeq(d, 1, n) \in Seq(Nat)
    BY <1>1, <1>2
  <2>2. Len(SubSeq(d, 1, n)) = n
    BY <1>1, <1>2
  <2> QED BY <2>1, <2>2
<1>4. p = Parent(d) /\ SubSeq(d, 1, Len(p)) = p /\ Len(d) > Len(p)
  BY <1>2, <1>3 DEF Parent
<1> QED BY <1>4 DEF Under

(* Neither stopping an execution nor its end takes anything from what it relies on. *)
LEMMA AlikeRelies ==
  ASSUME NEW d, NEW e, NEW f, Alike(e, f)
  PROVE (Claims(d, f) => Claims(d, e)) /\ (Knows(d, f) => Knows(d, e))
BY DEF Alike, Claims, Knows

(* An execution that is idle relies on nothing, one that loads only on its place. *)
LEMMA IdleRelies ==
  ASSUME NEW d, NEW e
  PROVE /\ e.at = "idle" => Claims(d, e) /\ Knows(d, e)
        /\ e.at = "load" => Knows(d, e) /\ (Placed(d) /\ Traced(d) => Claims(d, e))
BY DEF Claims, Knows, Committing

(* What the others of a session do keeps the invariant for them. *)
LEMMA OthersRely ==
  ASSUME NestedInv, RecordShape', ExecShape', NEW r \in Runs, Writes(r), NEW s \in Sessions,
         NEW y, Others(s, r, y), NEW d \in Runs \ {r}, Spent(d)' <= Spent(d),
         record[Root] # "absent"
  PROVE Claims(d, y[d])' /\ (s \in seen[d] => Knows(d, y[d])')
<1> DEFINE e == y[d]  f == exec[s][d]
<1>1. HasRoom(plan) /\ RecordShape /\ ExecShape /\ Still(d)
  BY DEF NestedInv, Rooted, Writes
<1>2. Claims(d, f) /\ (s \in seen[d] => Knows(d, f))
  BY DEF NestedInv
<1>3. CASE e = Idle
  <2>1. e.at = "idle"
    BY <1>3 DEF Idle
  <2> HIDE DEF e
  <2>2. Claims(d, e) /\ Knows(d, e)
    BY <2>1, IdleRelies
  <2>3. PICK g : g = e
    OBVIOUS
  <2>4. Claims(d, g)' /\ Knows(d, g)'
    BY <1>1, <2>2, <2>3, ClaimsKept, KnowsKept
  <2> QED BY <2>3, <2>4 DEF e
<1>4. CASE Alike(e, f)
  <2> HIDE DEF e, f
  <2>1. PICK g : g = e
    OBVIOUS
  <2>2. Claims(d, g) /\ (s \in seen[d] => Knows(d, g))
    BY <1>2, <1>4, <2>1, AlikeRelies
  <2>3. Claims(d, g)' /\ (s \in seen[d] => Knows(d, g)')
    BY <1>1, <2>2, ClaimsKept, KnowsKept
  <2> QED BY <2>1, <2>3 DEF e
<1>5. CASE Begun(d, e)
  <2>1. Placed(d)'
    BY <1>5, PlanKept DEF Begun, Writes
  <2>2. Traced(d)' /\ e.at = "load"
    BY <1>5 DEF Begun
  <2> QED BY <2>1, <2>2 DEF Claims, Knows, Committing
<1> QED BY <1>3, <1>4, <1>5 DEF Others

(* A step of a session that writes nothing keeps the invariant, if the execution of r
   relies on what is so.                                                              *)
LEMMA Rests ==
  ASSUME NestedInv, record[Root] # "absent", NEW s \in Sessions, NEW r \in Runs, NEW y, Session(s, y),
         UNCHANGED <<plan, record, main, attempts, frames, calls, retries>>, seen' = [d \in Runs |-> seen'[d]],
         \A d \in Runs, t \in Sessions : t \in seen'[d] => t \in seen[d] \/ (t = s /\ d = r),
         Others(s, r, y), Claims(r, y[r]), s \in seen'[r] => Knows(r, y[r]),
         y[r].at = "work" => exec[s][r].at = "work"
  PROVE NestedInv'
<1>1. RecordShape /\ ExecShape /\ RecordShape' /\ HasRoom(plan)
  BY DEF NestedInv, RecordShape, Rooted
<1>2. /\ ExecShape' /\ exec'[s] = y
      /\ \A t \in Sessions \ {s} : exec'[t] = exec[t]
  BY <1>1, CallingMoves
<1>3. ASSUME NEW d \in Runs
      PROVE Still(d) /\ Extends(d) /\ Spent(d)' <= Spent(d)
  <2>1. calls[d] \in Nat /\ retries[d] \in Nat /\ attempts[d] \in Nat
    BY <1>1 DEF RecordShape
  <2>2. y[d].at = "work" => exec[s][d].at = "work"
    BY DEF Others, Alike, Begun, Idle
  <2>3. Certain(d)' <= Certain(d) /\ Certain(d) \in Nat /\ Certain(d)' \in Nat
    BY <1>1, <2>2, CallingMoves
  <2>4. Spent(d)' <= Spent(d)
    BY <2>1, <2>3 DEF Spent
  <2> QED BY <2>1, <2>4 DEF Still, Extends, Framed
<1>4. Writes(r)
  BY <1>3 DEF Writes
<1>5. Recorded(r)'
  BY <1>1, <1>2, <1>3, <1>4, RecordedKept DEF NestedInv
<1>6. ASSUME NEW t \in Sessions, NEW d \in Runs
      PROVE \/ /\ exec'[t][d] = exec[t][d]
               /\ t \in seen'[d] => t \in seen[d] /\ Still(d) /\ Spent(d)' <= Spent(d)
            \/ /\ Claims(d, exec[t][d])'
               /\ t \in seen'[d] => Knows(d, exec[t][d])'
  <2>1. CASE t # s
    BY <1>2, <1>3, <2>1
  <2>2. CASE t = s /\ d = r
    <3>1. PICK e : e = y[r]
      OBVIOUS
    <3>2. Claims(r, e)' /\ (s \in seen'[r] => Knows(r, e)')
      BY <1>1, <1>2, <1>3, <1>4, <3>1, ClaimsKept, KnowsKept
    <3>3. exec'[t][d] = e
      BY <1>2, <2>2, <3>1
    <3> QED BY <2>2, <3>2, <3>3 DEF Claims, Knows
  <2>3. CASE t = s /\ d # r
    <3>1. PICK e : e = y[d]
      OBVIOUS
    <3>2. Claims(d, e)' /\ (s \in seen[d] => Knows(d, e)')
      BY <1>1, <1>2, <1>3, <1>4, <2>3, <3>1, OthersRely
    <3>3. exec'[t][d] = e /\ (s \in seen'[d] => s \in seen[d])
      BY <1>2, <2>3, <3>1
    <3> QED BY <2>3, <3>2, <3>3 DEF Claims, Knows
  <2> QED BY <2>1, <2>2, <2>3
<1> QED BY <1>1, <1>2, <1>3, <1>4, <1>5, <1>6, Moves
-----------------------------------------------------------------------------
(* A commit of a session to run r: the status of the record, the state of the main node,
   its attempts and its frames.                                                       *)
Saves(s, r, status, m, a, f) ==
  /\ record' = [record EXCEPT ![r] = status] /\ seen' = [seen EXCEPT ![r] = {s}]
  /\ main' = [main EXCEPT ![r] = m]
  /\ attempts' = [attempts EXCEPT ![r] = a] /\ frames' = [frames EXCEPT ![r] = f]
  /\ UNCHANGED <<plan, calls, retries>>

(* The execution that wrote it relies on what it wrote. *)
Suits(e, status, m) ==
  /\ e.at \notin {"settle", "reply"}
  /\ e.at = "ended" /\ e.answer = "completed" => status = "completed"
  /\ e.at \in Committing => status \in {"running", "paused"}
  /\ e.at = "boot" => m \notin {"running", "needs_attention"}
  /\ e.at = "launch" => m = "ready"

(* What may be written: outcomes that are so, and only as many calls as are allowed. *)
Truthful(r, status, m, f) ==
  /\ status \in RunStatus \ {"absent"} /\ m \in MainStates
  /\ status \in {"running", "paused"} => m \in {"ready", "running", "needs_attention", "succeeded"}
  /\ status = "paused" => m = "needs_attention"
  /\ f = <<>> \/ (IsForEach(r) /\ f \in [Items(r) -> FrameStates])
  /\ ~IsLeaf(r) => \A i \in Items(r) : m = "succeeded" \/ (f # <<>> /\ f[i] = "completed") => Done(r, i)
Allowed(r, e, m) == Spent(r) + (IF e.at = "work" THEN 1 ELSE 0)
                      <= retries[r] + (IF m \in {"absent", "ready"} THEN 0 ELSE 1)

(* What a commit leaves of the durable state. *)
LEMMA SavesShape ==
  ASSUME RecordShape, NEW s \in Sessions, NEW r \in Runs, NEW status, NEW m, NEW a \in Nat, NEW f,
         Saves(s, r, status, m, a, f), status \in RunStatus, m \in MainStates
  PROVE /\ RecordShape'
        /\ record'[r] = status /\ main'[r] = m /\ attempts'[r] = a /\ frames'[r] = f /\ seen'[r] = {s}
        /\ \A d \in Runs \ {r} : Still(d) /\ seen'[d] = seen[d]
<1>1. /\ record'[r] = status /\ main'[r] = m /\ attempts'[r] = a /\ frames'[r] = f /\ seen'[r] = {s}
      /\ \A d \in Runs \ {r} : /\ record'[d] = record[d] /\ main'[d] = main[d] /\ attempts'[d] = attempts[d]
                               /\ frames'[d] = frames[d] /\ seen'[d] = seen[d]
  BY DEF RecordShape, Saves
<1>2. calls' = calls /\ retries' = retries /\ \A d \in Runs : retries[d] \in Nat
  BY DEF RecordShape, Saves
<1>3. record' \in [Runs -> RunStatus] /\ main' \in [Runs -> MainStates] /\ attempts' \in [Runs -> Nat]
  BY DEF RecordShape, Saves
<1>4. seen' = [d \in Runs |-> seen'[d]] /\ frames' = [d \in Runs |-> frames'[d]]
  BY DEF RecordShape, Saves
<1> QED BY <1>1, <1>2, <1>3, <1>4 DEF RecordShape, Still

(* Such a commit keeps the invariant. *)
LEMMA Saved ==
  ASSUME NestedInv, record[Root] # "absent", NEW s \in Sessions, NEW r \in Runs, NEW y, Session(s, y),
         NEW status, NEW m, NEW a \in Nat, NEW f, Saves(s, r, status, m, a, f),
         record[r] # "completed", exec[s][r].at # "idle",
         a >= attempts[r],
         Framed(r) => f \in [Items(r) -> FrameStates] /\ \A i \in Items(r) : frames[r][i] # "pending" => f[i] # "pending",
         Truthful(r, status, m, f), Suits(y[r], status, m), IsLeaf(r) => Allowed(r, y[r], m),
         y[r].at = "work" /\ ~IsLeaf(r) => WorksOn(r, y[r].hands, a, f),
         Others(s, r, y)
  PROVE NestedInv'
<1>1. RecordShape /\ ExecShape /\ HasRoom(plan)
  BY DEF NestedInv, Rooted
<1>2. /\ RecordShape'
      /\ record'[r] = status /\ main'[r] = m /\ attempts'[r] = a /\ frames'[r] = f /\ seen'[r] = {s}
      /\ \A d \in Runs \ {r} : Still(d) /\ seen'[d] = seen[d]
  BY <1>1, SavesShape DEF Truthful
<1>3. Extends(r)
  BY <1>2 DEF Extends, Truthful
<1>4. Writes(r) /\ plan' = plan
  BY <1>2, <1>3 DEF Writes, Saves
<1>5. /\ ExecShape' /\ exec'[s] = y
      /\ \A t \in Sessions \ {s} : exec'[t] = exec[t]
  BY <1>1, CallingMoves
<1>6. ASSUME NEW d \in Runs
      PROVE calls[d] \in Nat /\ calls'[d] = calls[d] /\ retries[d] \in Nat /\ retries'[d] = retries[d]
  BY <1>1 DEF RecordShape, Saves
<1>7. ASSUME NEW d \in Runs \ {r}
      PROVE Spent(d)' <= Spent(d)
  <2>1. y[d].at = "work" => exec[s][d].at = "work"
    BY DEF Others, Alike, Begun, Idle
  <2>2. Certain(d)' <= Certain(d) /\ Certain(d) \in Nat /\ Certain(d)' \in Nat
    BY <1>1, <2>1, CallingMoves
  <2> QED BY <1>6, <2>2 DEF Spent
<1>8. Placed(r) /\ Traced(r)
  BY DEF NestedInv, Claims
<1>9. Placed(r)' /\ Traced(r)'
  BY <1>1, <1>2, <1>4, <1>8, PlanKept, TracedKept
<1>10. IsLeaf(r) => Spent(r)' <= retries'[r] + (IF main'[r] \in {"absent", "ready"} THEN 0 ELSE 1)
  <2>1. /\ Certain(r) \in Nat /\ Certain(r)' \in Nat
        /\ Certain(r)' <= Certain(r) + (IF y[r].at = "work" THEN 1 ELSE 0)
    BY <1>1, CallingMoves
  <2>2. PICK n \in Nat : n = Certain(r)
    BY <2>1
  <2>3. PICK n2 \in Nat : n2 = Certain(r)'
    BY <2>1
  <2>4. Spent(r) = calls[r] + n /\ Spent(r)' = calls[r] + n2
    BY <1>6, <2>2, <2>3 DEF Spent
  <2> QED BY <1>2, <1>6, <2>1, <2>2, <2>3, <2>4 DEF Allowed
<1>11. ~IsLeaf(r) => calls'[r] = 0
  BY <1>6 DEF NestedInv, Recorded
<1>12. ASSUME ~IsLeaf(r), NEW i \in Items(r), m = "succeeded" \/ (f # <<>> /\ f[i] = "completed")
       PROVE Done(r, i)'
  <2>1. Done(r, i)
    BY <1>12 DEF Truthful
  <2> QED BY <1>1, <1>4, <1>8, <1>12, <2>1, DoneKept
<1>13. Recorded(r)'
  <2> HIDE DEF Spent
  <2>1. status # "absent" /\ (f = <<>> \/ (IsForEach(r) /\ f \in [Items(r) -> FrameStates]))
    BY DEF Truthful
  <2>2. /\ Placed(r)' /\ Traced(r)' /\ IsLeaf(r)' = IsLeaf(r) /\ IsForEach(r)' = IsForEach(r) /\ Items(r)' = Items(r)
    BY <1>4, <1>9, PlanKept
  <2>3. /\ status \in {"running", "paused"} => m \in {"ready", "running", "needs_attention", "succeeded"}
        /\ status = "paused" => m = "needs_attention"
    BY DEF Truthful
  <2> QED BY <1>2, <1>10, <1>11, <1>12, <2>1, <2>2, <2>3 DEF Recorded, Framed
<1>14. Claims(r, y[r])' /\ Knows(r, y[r])'
  <2>1. IsLeaf(r)' = IsLeaf(r) /\ Items(r)' = Items(r) /\ IsForEach(r)' = IsForEach(r)
    BY <1>4, PlanKept
  <2>2. ASSUME y[r].at = "work", ~IsLeaf(r)
        PROVE Working(r, y[r].hands)'
    <3>1. PICK h : h = y[r].hands
      OBVIOUS
    <3>2. \A i \in Items(r) : h[i] \in {"close", "done"} => Done(r, i)'
      BY <1>1, <1>4, <1>8, <2>2, <3>1, DoneKept DEF WorksOn
    <3>3. Working(r, h)'
      BY <1>2, <2>1, <2>2, <3>1, <3>2 DEF Working, WorksOn
    <3> QED BY <3>1, <3>3 DEF Working, WorksOn
  <2> QED BY <1>2, <1>9, <2>1, <2>2 DEF Claims, Knows, Suits, Committing
<1>15. ASSUME NEW t \in Sessions, NEW d \in Runs
      PROVE \/ /\ exec'[t][d] = exec[t][d]
               /\ t \in seen'[d] => t \in seen[d] /\ Still(d) /\ Spent(d)' <= Spent(d)
            \/ /\ Claims(d, exec[t][d])'
               /\ t \in seen'[d] => Knows(d, exec[t][d])'
  <2>1. CASE t # s
    BY <1>2, <1>5, <1>7, <2>1
  <2>2. CASE t = s /\ d = r
    <3>1. PICK e : e = y[r]
      OBVIOUS
    <3>2. exec'[t][d] = e /\ Claims(r, e)' /\ Knows(r, e)'
      BY <1>5, <1>14, <2>2, <3>1
    <3> QED BY <2>2, <3>2 DEF Claims, Knows
  <2>3. CASE t = s /\ d # r
    <3>1. PICK e : e = y[d]
      OBVIOUS
    <3>2. Claims(d, e)' /\ (s \in seen[d] => Knows(d, e)')
      BY <1>2, <1>4, <1>5, <1>7, <2>3, <3>1, OthersRely
    <3>3. exec'[t][d] = e /\ seen'[d] = seen[d]
      BY <1>2, <1>5, <2>3, <3>1
    <3> QED BY <2>3, <3>2, <3>3 DEF Claims, Knows
  <2> QED BY <2>1, <2>2, <2>3
<1> QED BY <1>2, <1>4, <1>5, <1>7, <1>13, <1>15, Moves
-----------------------------------------------------------------------------
(* The execution of one run becomes e. *)
TurnsInto(s, r, e) == exec' = [exec EXCEPT ![s] = [exec[s] EXCEPT ![r] = e]]

(* The other executions of the session are as they were. *)
LEMMA Turns ==
  ASSUME ExecShape, NEW s \in Sessions, NEW r \in Runs, NEW e, Executed(e), TurnsInto(s, r, e)
  PROVE \E y : /\ Session(s, y) /\ y[r] = e /\ Others(s, r, y) /\ Heeds(s, r, y)
               /\ \A d \in Runs \ {r} : y[d] = exec[s][d]
<1>0. PICK y : y = [exec[s] EXCEPT ![r] = e]
  OBVIOUS
<1>1. exec[s] = [d \in Runs |-> exec[s][d]] /\ \A d \in Runs : Executed(exec[s][d])
  BY DEF ExecShape
<1>2. y = [d \in Runs |-> y[d]] /\ y[r] = e /\ \A d \in Runs \ {r} : y[d] = exec[s][d]
  BY <1>0, <1>1
<1>3. \A d \in Runs : Executed(y[d])
  BY <1>1, <1>2
<1>4. Others(s, r, y) /\ Heeds(s, r, y)
  BY <1>2 DEF Others, Heeds, Alike
<1>5. exec' = [exec EXCEPT ![s] = y]
  BY <1>0 DEF TurnsInto
<1> QED BY <1>2, <1>3, <1>4, <1>5 DEF Session

(* A step of one execution that writes nothing. *)
LEMMA Turned ==
  ASSUME NestedInv, record[Root] # "absent", NEW s \in Sessions, NEW r \in Runs, NEW e, Executed(e), TurnsInto(s, r, e),
         UNCHANGED <<plan, record, main, attempts, frames, calls, retries>>, seen' = [d \in Runs |-> seen'[d]],
         \A d \in Runs, t \in Sessions : t \in seen'[d] => t \in seen[d] \/ (t = s /\ d = r),
         Claims(r, e), s \in seen'[r] => Knows(r, e), e.at = "work" => exec[s][r].at = "work"
  PROVE NestedInv'
<1>1. ExecShape
  BY DEF NestedInv
<1>2. PICK y : Session(s, y) /\ y[r] = e /\ Others(s, r, y)
  BY <1>1, Turns
<1> QED BY <1>2, Rests

(* A commit that keeps attempts and frames. *)
LEMMA Committed ==
  ASSUME NestedInv, record[Root] # "absent", NEW s \in Sessions, NEW r \in Runs, NEW e, Executed(e), TurnsInto(s, r, e),
         NEW status \in RunStatus \ {"absent"}, NEW m \in MainStates,
         Saves(s, r, status, m, attempts[r], frames[r]),
         record[r] # "completed", exec[s][r].at # "idle",
         status \in {"running", "paused"} => m \in {"ready", "running", "needs_attention", "succeeded"},
         status = "paused" => m = "needs_attention",
         ~IsLeaf(r) /\ m = "succeeded" => \A i \in Items(r) : Done(r, i),
         e.at # "work", Suits(e, status, m),
         IsLeaf(r) => Spent(r) <= retries[r] + (IF m \in {"absent", "ready"} THEN 0 ELSE 1)
  PROVE NestedInv'
<1>1. ExecShape
  BY DEF NestedInv
<1>2. PICK y : Session(s, y) /\ y[r] = e /\ Others(s, r, y)
  BY <1>1, Turns
<1>3. PICK a \in Nat : a = attempts[r]
  BY DEF NestedInv, RecordShape
<1>4. PICK f : f = frames[r]
  OBVIOUS
<1>5. Truthful(r, status, m, f)
  <2>1. f = <<>> \/ (IsForEach(r) /\ f \in [Items(r) -> FrameStates])
    BY <1>4 DEF NestedInv, Recorded, Framed
  <2>2. ~IsLeaf(r) => \A i \in Items(r) : f # <<>> /\ f[i] = "completed" => Done(r, i)
    BY <1>4 DEF NestedInv, Recorded
  <2> QED BY <2>1, <2>2 DEF Truthful
<1>6. IsLeaf(r) => Allowed(r, e, m)
  <2>1. Spent(r) \in Nat
    <3>1. Certain(r) \in Nat /\ calls[r] \in Nat
      BY FS_CardinalityType DEF NestedInv, ExecShape, RecordShape, Certain
    <3> QED BY <3>1 DEF Spent
  <2> QED BY <2>1 DEF Allowed
<1>7. Framed(r) => f \in [Items(r) -> FrameStates] /\ \A i \in Items(r) : frames[r][i] # "pending" => f[i] # "pending"
  BY <1>4 DEF Framed
<1>8. a >= attempts[r] /\ Saves(s, r, status, m, a, f)
  BY <1>3, <1>4
<1> QED BY <1>2, <1>3, <1>5, <1>6, <1>7, <1>8, Saved

(* An execution goes on to pc. *)
LEMMA GoesOn ==
  ASSUME ExecShape, NEW s \in Sessions, NEW r \in Runs, NEW pc, Goto(s, r, pc)
  PROVE \E e : /\ Executed(e) /\ TurnsInto(s, r, e)
               /\ e.at = pc /\ e.hands = exec[s][r].hands /\ e.answer = exec[s][r].answer
               /\ e.stop = exec[s][r].stop
<1>1. Executed(exec[s][r])
  BY DEF ExecShape
<1>2. PICK x : x = exec[s][r]
  OBVIOUS
<1> DEFINE e == [at |-> pc, stop |-> x.stop, answer |-> x.answer, hands |-> x.hands, error |-> x.error]
<1>3. [x EXCEPT !.at = pc] = e
  <2>1. x = [at |-> x.at, stop |-> x.stop, answer |-> x.answer, hands |-> x.hands, error |-> x.error]
    BY <1>1, <1>2 DEF Executed
  <2> QED BY <2>1
<1>4. TurnsInto(s, r, e)
  BY <1>2, <1>3 DEF Goto, TurnsInto
<1> QED BY <1>2, <1>4 DEF Executed

EndsIn(s, r, answer) == exec' = [exec EXCEPT ![s] = Ended(s, r, answer)]
Answers(e, answer) == Executed(e) /\ (e.at = "idle" \/ (e.at = "ended" /\ e.answer = answer))

(* The end of an execution leaves its answer to a parent that waits, or nothing. *)
LEMMA Ending ==
  ASSUME NEW s, NEW r, NEW answer, EndsIn(s, r, answer)
  PROVE \E e : /\ TurnsInto(s, r, e) /\ Answers(e, answer)
               /\ e.stop = "none" /\ (e.at = "ended" => Waiting(s, r))
<1> DEFINE e == IF Waiting(s, r) THEN [Idle EXCEPT !.at = "ended", !.answer = answer] ELSE Idle
<1>1. TurnsInto(s, r, e)
  BY DEF Ended, EndsIn, TurnsInto
<1>2. Answers(e, answer) /\ e.stop = "none" /\ (e.at = "ended" => Waiting(s, r))
  BY DEF Answers, Executed, Idle
<1> HIDE DEF e
<1> QED BY <1>1, <1>2
-----------------------------------------------------------------------------
(* An execution ends on what it found: the result is durable, or is not a completion. *)
LEMMA EndsKept ==
  ASSUME NestedInv, record[Root] # "absent", NEW s \in Sessions, NEW r \in Runs, exec[s][r].at # "idle",
         NEW answer, Ends(s, r, answer), KeepsRun, answer = "completed" => record[r] = "completed"
  PROVE NestedInv'
<1>0. EndsIn(s, r, answer)
  BY DEF Ends, EndsIn
<1>1. PICK e : TurnsInto(s, r, e) /\ Answers(e, answer)
  BY <1>0, Ending
<1>2. UNCHANGED <<plan, record, main, attempts, frames, calls, retries>>
  BY DEF Ends, KeepsRun, KeepsData, Keeps, historyVars
<1>3. seen' = [seen EXCEPT ![r] = @ \ {s}] /\ seen = [d \in Runs |-> seen[d]]
  BY DEF Ends, NestedInv, RecordShape
<1>4. /\ seen' = [d \in Runs |-> seen'[d]]
      /\ \A d \in Runs, t \in Sessions : t \in seen'[d] => t \in seen[d] \/ (t = s /\ d = r)
  BY <1>3
<1>5. Placed(r) /\ Traced(r)
  BY DEF NestedInv, Claims
<1>6. Claims(r, e) /\ Knows(r, e)
  BY <1>1, <1>5 DEF Answers, Claims, Knows, Committing
<1>7. Executed(e) /\ e.at # "work"
  BY <1>1 DEF Answers
<1> QED BY <1>1, <1>2, <1>4, <1>6, <1>7, Turned

(* An execution goes on to a place where it relies on no more than it did. *)
LEMMA GoesKept ==
  ASSUME NestedInv, record[Root] # "absent", NEW s \in Sessions, NEW r \in Runs, exec[s][r].at # "idle",
         NEW pc, Goto(s, r, pc), UNCHANGED storeVars, KeepsRun,
         pc \notin {"boot", "launch", "work", "ended"},
         pc \in Committing => exec[s][r].at \in Committing,
         pc = "settle" /\ ~IsLeaf(r) => \A i \in Items(r) : Done(r, i),
         pc = "reply" => IsLeaf(r)
  PROVE NestedInv'
<1>0. ExecShape
  BY DEF NestedInv
<1>1. PICK e : Executed(e) /\ TurnsInto(s, r, e) /\ e.at = pc
  BY <1>0, GoesOn
<1>2. UNCHANGED <<plan, record, main, attempts, frames, calls, retries>> /\ seen' = seen
  BY DEF KeepsRun, KeepsData, Keeps, historyVars, storeVars
<1>3. seen' = [d \in Runs |-> seen'[d]]
  BY <1>2 DEF NestedInv, RecordShape
<1>4. \A d \in Runs, t \in Sessions : t \in seen'[d] => t \in seen[d] \/ (t = s /\ d = r)
  BY <1>2
<1>5. Placed(r) /\ Traced(r) /\ (s \in seen[r] => Knows(r, exec[s][r]))
  BY DEF NestedInv, Claims
<1>6. Claims(r, e)
  BY <1>1, <1>5 DEF Claims
<1>7. s \in seen'[r] => Knows(r, e)
  BY <1>1, <1>2, <1>5 DEF Knows
<1> QED BY <1>1, <1>2, <1>3, <1>4, <1>6, <1>7, Turned

(* invoke, resume and startNew *)
LEMMA LoadKept ==
  ASSUME NestedInv, record[Root] # "absent", NEW s \in Sessions, NEW r \in Runs, Load(s, r)
  PROVE NestedInv'
<1>1. exec[s][r].at = "load" /\ KeepsRun
  BY DEF Load, Is
<1>2. CASE Goto(s, r, "create") /\ UNCHANGED storeVars
  BY <1>1, <1>2, GoesKept DEF Committing
<1>3. ASSUME NEW answer, Ends(s, r, answer), answer = "completed" => record[r] = "completed"
      PROVE NestedInv'
  BY <1>1, <1>3, EndsKept
<1>4. ASSUME NEW pc \in {"pause", "boot"}, LoadRun(s, r), Goto(s, r, pc),
             record[r] \in {"running", "paused"},
             pc = "boot" => ~(main[r] \in {"running", "needs_attention"} /\ IsLeaf(r))
      PROVE NestedInv'
  <2>0. ExecShape
    BY DEF NestedInv
  <2>1. PICK e : Executed(e) /\ TurnsInto(s, r, e) /\ e.at = pc
    BY <1>4, <2>0, GoesOn
  <2>2. UNCHANGED <<plan, record, main, attempts, frames, calls, retries>>
    BY <1>1, <1>4 DEF LoadRun, KeepsRun, KeepsData, Keeps, historyVars
  <2>3. seen' = [seen EXCEPT ![r] = @ \cup {s}] /\ seen = [d \in Runs |-> seen[d]]
    BY <1>4 DEF LoadRun, NestedInv, RecordShape
  <2>4. /\ seen' = [d \in Runs |-> seen'[d]]
        /\ \A d \in Runs, t \in Sessions : t \in seen'[d] => t \in seen[d] \/ (t = s /\ d = r)
    BY <2>3
  <2>5. Placed(r) /\ Traced(r)
    BY <1>1 DEF NestedInv, Claims
  <2>6. Claims(r, e) /\ Knows(r, e)
    BY <1>4, <2>1, <2>5 DEF Claims, Knows, Committing
  <2> QED BY <1>4, <2>1, <2>2, <2>4, <2>6, Turned
<1>5. record[r] \in RunStatus /\ (record[r] = "paused" => main[r] = "needs_attention")
  BY DEF NestedInv, RecordShape, Recorded
<1>6. CASE record[r] = "absent"
  <2>1. Goto(s, r, "create") /\ UNCHANGED storeVars
    BY <1>6 DEF Load, Terminal
  <2> QED BY <1>2, <2>1
<1>7. CASE record[r] \in Terminal
  <2>1. Ends(s, r, record[r])
    BY <1>7 DEF Load, Terminal
  <2> QED BY <1>3, <2>1
<1>8. CASE record[r] = "paused"
  <2>1. Ends(s, r, "paused")
    BY <1>5, <1>8 DEF Load, Terminal
  <2> QED BY <1>3, <2>1
<1>9. CASE record[r] = "running"
  <2>1. CASE main[r] \in {"running", "needs_attention"} /\ IsLeaf(r)
    <3>1. LoadRun(s, r) /\ Goto(s, r, "pause")
      BY <1>9, <2>1 DEF Load, Terminal
    <3> QED BY <1>4, <1>9, <3>1
  <2>2. CASE ~(main[r] \in {"running", "needs_attention"} /\ IsLeaf(r))
    <3>1. LoadRun(s, r) /\ Goto(s, r, "boot")
      BY <1>9, <2>2 DEF Load, Terminal
    <3> QED BY <1>4, <1>9, <2>2, <3>1
  <2> QED BY <2>1, <2>2
<1> QED BY <1>5, <1>6, <1>7, <1>8, <1>9 DEF RunStatus

(* The call of the Host returns or fails; an execution that lost the sequence number ends. *)
LEMMA ReplyKept ==
  ASSUME NestedInv, record[Root] # "absent", NEW s \in Sessions, NEW r \in Runs,
         Reply(s, r, TRUE) \/ Reply(s, r, FALSE) \/ LoseCommit(s, r)
  PROVE NestedInv'
<1>1. CASE LoseCommit(s, r)
  <2>1. exec[s][r].at # "idle" /\ Ends(s, r, "failed") /\ KeepsRun
    BY <1>1 DEF LoseCommit, Is
  <2> QED BY <2>1, EndsKept
<1>2. ASSUME NEW pc \in {"settle", "failing"}, exec[s][r].at = "reply", Goto(s, r, pc), UNCHANGED storeVars, KeepsRun
      PROVE NestedInv'
  <2>1. IsLeaf(r)
    BY <1>2 DEF NestedInv, Claims
  <2> QED BY <1>2, <2>1, GoesKept DEF Committing
<1> QED BY <1>1, <1>2 DEF Reply, Is
-----------------------------------------------------------------------------
(* A commit of the status and of the main node only. *)
LEMMA Saving ==
  ASSUME RecordShape, NEW s \in Sessions, NEW r \in Runs, NEW status, NEW m,
         Commit(s, r, status) \/ (CreateRun(s, r) /\ status = "running"),
         main' = [main EXCEPT ![r] = m], UNCHANGED <<attempts, frames>>, Keeps
  PROVE Saves(s, r, status, m, attempts[r], frames[r])
<1>1. attempts = [d \in Runs |-> attempts[d]] /\ frames = [d \in Runs |-> frames[d]]
  BY DEF RecordShape
<1>2. attempts' = [attempts EXCEPT ![r] = attempts[r]] /\ frames' = [frames EXCEPT ![r] = frames[r]]
  BY <1>1
<1>3. record' = [record EXCEPT ![r] = status] /\ seen' = [seen EXCEPT ![r] = {s}]
  BY DEF Commit, CreateRun
<1>4. UNCHANGED <<plan, calls, retries>>
  BY DEF Keeps, historyVars
<1> QED BY <1>2, <1>3, <1>4 DEF Saves

(* Who commits holds the record of a run that is not over. *)
LEMMA CommitsLive ==
  ASSUME NestedInv, NEW s \in Sessions, NEW r \in Runs, exec[s][r].at \in Committing, NEW status, Commit(s, r, status)
  PROVE /\ record[r] \in {"running", "paused"} /\ record[r] # "completed" /\ exec[s][r].at # "idle"
        /\ Knows(r, exec[s][r])
BY DEF NestedInv, Knows, Commit, Committing

(* The last commit of an execution. *)
LEMMA EndsWithKept ==
  ASSUME NestedInv, record[Root] # "absent", NEW s \in Sessions, NEW r \in Runs, exec[s][r].at \in Committing,
         NEW status \in {"paused", "failed", "cancelled", "completed"}, NEW m \in MainStates,
         EndsWith(s, r, status), main' = [main EXCEPT ![r] = m], UNCHANGED <<attempts, frames>>, Keeps,
         status = "paused" => m = "needs_attention",
         m = main[r] \/ m \in {"needs_attention", "failed", "cancelled"}
  PROVE NestedInv'
<1>1. Commit(s, r, status) /\ EndsIn(s, r, status)
  BY DEF EndsWith, EndsIn
<1>2. record[r] # "completed" /\ exec[s][r].at # "idle"
  BY <1>1, CommitsLive
<1>3. PICK e : TurnsInto(s, r, e) /\ Answers(e, status)
  BY <1>1, Ending
<1>4. RecordShape
  BY DEF NestedInv
<1>5. Saves(s, r, status, m, attempts[r], frames[r])
  BY <1>1, <1>4, Saving
<1>6. /\ Executed(e) /\ e.at # "work" /\ Suits(e, status, m)
  BY <1>3 DEF Answers, Suits, Committing
<1>7. Recorded(r)
  BY DEF NestedInv
<1>8. ~IsLeaf(r) /\ m = "succeeded" => \A i \in Items(r) : Done(r, i)
  BY <1>7 DEF Recorded
<1>9. IsLeaf(r) => Spent(r) <= retries[r] + (IF m \in {"absent", "ready"} THEN 0 ELSE 1)
  <2>1. Certain(r) \in Nat /\ calls[r] \in Nat /\ retries[r] \in Nat
    BY FS_CardinalityType DEF NestedInv, ExecShape, RecordShape, Certain
  <2>2. PICK n \in Nat : n = Spent(r)
    BY <2>1 DEF Spent
  <2>3. IsLeaf(r) => n <= retries[r] + (IF main[r] \in {"absent", "ready"} THEN 0 ELSE 1)
    BY <1>7, <2>2 DEF Recorded
  <2> QED BY <2>1, <2>2, <2>3
<1>10. status \in RunStatus \ {"absent"} /\ status # "running"
  BY DEF RunStatus, Terminal
<1> QED BY <1>2, <1>3, <1>5, <1>6, <1>8, <1>9, <1>10, Committed

(* A commit after which the execution goes on. *)
LEMMA GoesWithKept ==
  ASSUME NestedInv, record[Root] # "absent", NEW s \in Sessions, NEW r \in Runs, exec[s][r].at \in Committing,
         NEW m \in {"ready", "succeeded"}, NEW pc \in {"launch", "finish"},
         Commit(s, r, "running"), main' = [main EXCEPT ![r] = m], Goto(s, r, pc), UNCHANGED <<attempts, frames>>, Keeps,
         pc = "launch" => m = "ready",
         ~IsLeaf(r) /\ m = "succeeded" => \A i \in Items(r) : Done(r, i),
         IsLeaf(r) => Spent(r) <= retries[r] + (IF m = "ready" THEN 0 ELSE 1)
  PROVE NestedInv'
<1>1. record[r] # "completed" /\ exec[s][r].at # "idle"
  BY CommitsLive
<1>2. RecordShape /\ ExecShape
  BY DEF NestedInv
<1>3. PICK e : Executed(e) /\ TurnsInto(s, r, e) /\ e.at = pc
  BY <1>2, GoesOn
<1>4. Saves(s, r, "running", m, attempts[r], frames[r])
  BY <1>2, Saving
<1>5. e.at # "work" /\ Suits(e, "running", m)
  BY <1>3 DEF Suits, Committing
<1>6. "running" \in RunStatus \ {"absent"} /\ m \in MainStates
  BY DEF RunStatus, Terminal, MainStates
<1>7. IsLeaf(r) => Spent(r) <= retries[r] + (IF m \in {"absent", "ready"} THEN 0 ELSE 1)
  OBVIOUS
<1> QED BY <1>1, <1>3, <1>4, <1>5, <1>6, <1>7, Committed

(* What is known of the calls of a leaf. *)
LEMMA CallsKnown ==
  ASSUME NestedInv, NEW r \in Runs
  PROVE /\ Spent(r) \in Nat /\ retries[r] \in Nat
        /\ IsLeaf(r) => /\ Spent(r) <= retries[r] + 1
                        /\ main[r] \in {"absent", "ready"} => Spent(r) <= retries[r]
<1>1. Certain(r) \in Nat /\ calls[r] \in Nat /\ retries[r] \in Nat
  BY FS_CardinalityType DEF NestedInv, ExecShape, RecordShape, Certain
<1>2. PICK n \in Nat : n = Spent(r)
  BY <1>1 DEF Spent
<1>3. IsLeaf(r) => n <= retries[r] + (IF main[r] \in {"absent", "ready"} THEN 0 ELSE 1)
  BY <1>2 DEF NestedInv, Recorded
<1> QED BY <1>1, <1>2, <1>3

(* A run that is created has its main node ready and nothing done. *)
LEMMA CreateKept ==
  ASSUME NestedInv, record[Root] # "absent", NEW s \in Sessions, NEW r \in Runs, Create(s, r)
  PROVE NestedInv'
<1>1. exec[s][r].at = "create" /\ Keeps
  BY DEF Create, Is
<1>2. CASE record[r] = "absent"
  <2>1. CreateRun(s, r) /\ main' = [main EXCEPT ![r] = "ready"] /\ Goto(s, r, "boot") /\ UNCHANGED <<attempts, frames>>
    BY <1>2 DEF Create, Sets
  <2>2. RecordShape /\ ExecShape
    BY DEF NestedInv
  <2>3. PICK e : Executed(e) /\ TurnsInto(s, r, e) /\ e.at = "boot"
    BY <2>1, <2>2, GoesOn
  <2>4. Saves(s, r, "running", "ready", attempts[r], frames[r])
    BY <1>1, <2>1, <2>2, Saving
  <2>5. e.at # "work" /\ Suits(e, "running", "ready")
    BY <2>3 DEF Suits, Committing
  <2>6. "running" \in RunStatus \ {"absent"} /\ "ready" \in MainStates
    BY DEF RunStatus, Terminal, MainStates
  <2>7. main[r] = "absent"
    BY <1>2 DEF NestedInv, Recorded
  <2>8. IsLeaf(r) => Spent(r) <= retries[r]
    BY <2>7, CallsKnown
  <2>9. Spent(r) \in Nat /\ retries[r] \in Nat
    BY CallsKnown
  <2>10. IsLeaf(r) => Spent(r) <= retries[r] + (IF "ready" \in {"absent", "ready"} THEN 0 ELSE 1)
    BY <2>8, <2>9
  <2> QED BY <1>1, <1>2, <2>3, <2>4, <2>5, <2>6, <2>10, Committed
<1>3. CASE record[r] # "absent"
  <2>1. Ends(s, r, "failed") /\ KeepsRun
    BY <1>1, <1>3 DEF Create, KeepsRun
  <2> QED BY <1>1, <2>1, EndsKept
<1> QED BY <1>2, <1>3

(* A recovery or an execution that starts puts an interrupted node back only if nothing
   was called yet, and the calls of a composite are found again.                      *)
LEMMA BootKept ==
  ASSUME NestedInv, record[Root] # "absent", NEW s \in Sessions, NEW r \in Runs, Boot(s, r)
  PROVE NestedInv'
<1> DEFINE m == IF main[r] \in {"running", "needs_attention"} THEN "ready" ELSE main[r]
           pc == IF main[r] = "succeeded" THEN "finish" ELSE "launch"
<1>1. /\ exec[s][r].at = "boot" /\ Commit(s, r, "running") /\ main' = [main EXCEPT ![r] = m] /\ Goto(s, r, pc)
      /\ UNCHANGED <<attempts, frames>> /\ Keeps
  BY DEF Boot, Is, Sets
<1>2. exec[s][r].at \in Committing
  BY <1>1 DEF Committing
<1>3. record[r] \in {"running", "paused"} /\ Knows(r, exec[s][r])
  BY <1>1, <1>2, CommitsLive
<1>4. Recorded(r)
  BY DEF NestedInv
<1>5. main[r] \in {"ready", "running", "needs_attention", "succeeded"}
  BY <1>3, <1>4 DEF Recorded
<1>6. m \in {"ready", "succeeded"} /\ pc \in {"launch", "finish"} /\ (pc = "launch" => m = "ready")
      /\ (m = "succeeded" <=> main[r] = "succeeded")
  BY <1>5
<1>7. ~IsLeaf(r) /\ m = "succeeded" => \A i \in Items(r) : Done(r, i)
  BY <1>4, <1>6 DEF Recorded
<1>8. IsLeaf(r) /\ main[r] \in {"running", "needs_attention"} => Spent(r) <= retries[r]
  BY <1>1, <1>3 DEF Knows
<1>9. IsLeaf(r) => Spent(r) <= retries[r] + (IF m = "ready" THEN 0 ELSE 1)
  BY <1>5, <1>6, <1>8, CallsKnown
<1> HIDE DEF m, pc
<1> QED BY <1>1, <1>2, <1>6, <1>7, <1>9, GoesWithKept

(* A main node that succeeds has done what it says. *)
LEMMA SettleKept ==
  ASSUME NestedInv, record[Root] # "absent", NEW s \in Sessions, NEW r \in Runs, Settle(s, r)
  PROVE NestedInv'
<1>1. exec[s][r].at = "settle" /\ Keeps
  BY DEF Settle, Is
<1>2. CASE exec[s][r].stop = "interrupt"
  <2>1. Ends(s, r, "failed") /\ KeepsRun
    BY <1>1, <1>2 DEF Settle, KeepsRun
  <2> QED BY <1>1, <2>1, EndsKept
<1>3. CASE exec[s][r].stop # "interrupt"
  <2>1. /\ Commit(s, r, "running") /\ main' = [main EXCEPT ![r] = "succeeded"] /\ Goto(s, r, "finish")
        /\ UNCHANGED <<attempts, frames>>
    BY <1>3 DEF Settle, Sets
  <2>2. ~IsLeaf(r) => \A i \in Items(r) : Done(r, i)
    BY <1>1 DEF NestedInv, Claims
  <2>3. IsLeaf(r) => Spent(r) <= retries[r] + (IF "succeeded" = "ready" THEN 0 ELSE 1)
    BY CallsKnown
  <2>4. exec[s][r].at \in Committing
    BY <1>1 DEF Committing
  <2> QED BY <1>1, <2>1, <2>2, <2>3, <2>4, GoesWithKept
<1> QED BY <1>2, <1>3

(* The ends of an execution, and the next attempt of a composite. *)
LEMMA FinishesKept ==
  ASSUME NestedInv, record[Root] # "absent", NEW s \in Sessions, NEW r \in Runs,
         \/ CommitPause(s, r) \/ Fail(s, r) \/ Yield(s, r) \/ FinishCancelled(s, r) \/ Complete(s, r)
  PROVE NestedInv'
<1>2. main[r] \in MainStates /\ main = [main EXCEPT ![r] = main[r]]
  BY DEF NestedInv, RecordShape
<1>3. CASE CommitPause(s, r) \/ Yield(s, r)
  <2>1. /\ exec[s][r].at \in Committing /\ EndsWith(s, r, "paused") /\ main' = [main EXCEPT ![r] = "needs_attention"]
        /\ UNCHANGED <<attempts, frames>> /\ Keeps
    BY <1>3 DEF CommitPause, Yield, Is, Sets, Committing
  <2>2. "needs_attention" \in MainStates
    BY DEF MainStates
  <2> QED BY <2>1, <2>2, EndsWithKept
<1>4. CASE Fail(s, r)
  <2>1. exec[s][r].at \in Committing /\ UNCHANGED <<attempts, frames>> /\ Keeps
    BY <1>4 DEF Fail, Is, Committing
  <2>2. CASE attempts[r] < Main(r).attempts /\ ~IsLeaf(r)
    <3>1. Commit(s, r, "running") /\ main' = [main EXCEPT ![r] = "ready"] /\ Goto(s, r, "launch")
      BY <1>4, <2>2 DEF Fail, Sets
    <3> QED BY <2>1, <2>2, <3>1, GoesWithKept
  <2>3. CASE ~(attempts[r] < Main(r).attempts /\ ~IsLeaf(r))
    <3>1. EndsWith(s, r, "failed") /\ main' = [main EXCEPT ![r] = "failed"]
      BY <1>4, <2>3 DEF Fail, Sets
    <3>2. "failed" \in MainStates
      BY DEF MainStates
    <3> QED BY <2>1, <3>1, <3>2, EndsWithKept
  <2> QED BY <2>2, <2>3
<1>5. CASE FinishCancelled(s, r)
  <2> DEFINE m == IF main[r] = "succeeded" THEN main[r] ELSE "cancelled"
  <2>1. /\ exec[s][r].at \in Committing /\ EndsWith(s, r, "cancelled") /\ main' = [main EXCEPT ![r] = m]
        /\ UNCHANGED <<attempts, frames>> /\ Keeps
    BY <1>5 DEF FinishCancelled, Is, Sets, Committing
  <2>2. m \in MainStates /\ (m = main[r] \/ m = "cancelled")
    BY <1>2 DEF MainStates
  <2> HIDE DEF m
  <2> QED BY <2>1, <2>2, EndsWithKept
<1>6. CASE Complete(s, r)
  <2>1. /\ exec[s][r].at \in Committing /\ EndsWith(s, r, "completed") /\ main' = main
        /\ UNCHANGED <<attempts, frames>> /\ Keeps
    BY <1>6 DEF Complete, Is, Committing, KeepsRun, KeepsData
  <2>2. PICK m \in MainStates : m = main[r]
    BY <1>2
  <2>3. main' = [main EXCEPT ![r] = m]
    BY <1>2, <2>1, <2>2
  <2> QED BY <2>1, <2>2, <2>3, EndsWithKept
<1> QED BY <1>3, <1>4, <1>5, <1>6
-----------------------------------------------------------------------------
(* A run with its child: the execution of r becomes e, and that of the child begins. *)
StartsChild(s, r, e, c, stop) == exec' = [exec EXCEPT ![s] = Starting([exec[s] EXCEPT ![r] = e], c, stop)]

(* Who leaves the executions below a run unheard: only an answer is dropped. *)
LEMMA Unhearing ==
  ASSUME NEW x, x = [d \in Runs |-> x[d]], \A d \in Runs : Executed(x[d]), NEW r
  PROVE /\ Unheard(x, r) = [d \in Runs |-> Unheard(x, r)[d]]
        /\ \A d \in Runs : /\ Executed(Unheard(x, r)[d])
                           /\ \/ Unheard(x, r)[d] = x[d]
                              \/ x[d].at = "ended" /\ Unheard(x, r)[d] = Idle
                           /\ d \in Under(r) => Unheard(x, r)[d].at # "ended"
<1>1. Executed(Idle) /\ Idle.at # "ended"
  BY DEF Executed, Idle
<1>2. ASSUME NEW d \in Runs
      PROVE Unheard(x, r)[d] = IF d \in Under(r) /\ x[d].at = "ended" THEN Idle ELSE x[d]
  BY DEF Unheard
<1>3. Unheard(x, r) = [d \in Runs |-> Unheard(x, r)[d]]
  BY DEF Unheard
<1> QED BY <1>1, <1>2, <1>3

(* The others of the session are as they were, but for the answers nobody waits for any more. *)
LEMMA StartsApart ==
  ASSUME ExecShape, NEW s \in Sessions, NEW r \in Runs, NEW e, Executed(e), NEW c \in Runs \ {r}, NEW stop,
         r \notin Under(c), StartsChild(s, r, e, c, stop)
  PROVE \E y : /\ Session(s, y) /\ y[r] = e /\ Heeds(s, r, y)
               /\ y[c].at = "load" /\ y[c].stop = stop
               /\ \A d \in Runs \ {r, c} : y[d] = exec[s][d] \/ y[d] = Idle
<1>1. exec[s] = [d \in Runs |-> exec[s][d]] /\ \A d \in Runs : Executed(exec[s][d])
  BY DEF ExecShape
<1>2. PICK g : g = [Idle EXCEPT !.at = "load", !.stop = stop]
  OBVIOUS
<1>3. Executed(g) /\ g.at = "load" /\ g.stop = stop
  BY <1>2 DEF Executed, Idle
<1>4. PICK x : x = [exec[s] EXCEPT ![r] = e]
  OBVIOUS
<1>5. x = [d \in Runs |-> x[d]] /\ x[r] = e /\ \A d \in Runs \ {r} : x[d] = exec[s][d]
  BY <1>1, <1>4
<1>6. \A d \in Runs : Executed(x[d])
  BY <1>1, <1>5
<1>7. PICK z : z = Unheard(x, c)
  OBVIOUS
<1>8. /\ z = [d \in Runs |-> z[d]]
      /\ \A d \in Runs : /\ Executed(z[d]) /\ (z[d] = x[d] \/ (x[d].at = "ended" /\ z[d] = Idle))
                         /\ d \in Under(c) => z[d].at # "ended"
  BY <1>5, <1>6, <1>7, Unhearing
<1>9. z[r] = e
  BY <1>5, <1>7, <1>8 DEF Unheard
<1>10. PICK y : y = [z EXCEPT ![c] = g]
  OBVIOUS
<1>11. y = [d \in Runs |-> y[d]] /\ y[r] = e /\ y[c] = g /\ \A d \in Runs \ {c} : y[d] = z[d]
  BY <1>8, <1>9, <1>10
<1>12. \A d \in Runs : Executed(y[d])
  BY <1>3, <1>8, <1>11
<1>13. \A d \in Runs \ {r, c} : y[d] = exec[s][d] \/ (exec[s][d].at = "ended" /\ y[d] = Idle)
  BY <1>5, <1>8, <1>11
<1>15. Heeds(s, r, y)
  <2>1. ASSUME NEW d \in Runs \ {r}, y[d].at = "ended"
        PROVE exec[s][d].at = "ended" /\ d # c /\ d \notin Under(c)
    <3>1. d # c
      BY <1>3, <1>11, <2>1
    <3>2. y[d] = z[d] /\ d \notin Under(c)
      BY <1>8, <1>11, <2>1, <3>1
    <3>3. Idle.at # "ended"
      BY DEF Idle
    <3> QED BY <1>13, <2>1, <3>1, <3>2, <3>3
  <2>2. ASSUME NEW d \in Runs \ {r}, y[d].at = "ended", d # Root, Parent(d) \in Runs \ {r},
               exec[s][Parent(d)].at = "work"
        PROVE Alike(y[Parent(d)], exec[s][Parent(d)])
    <3>1. Parent(d) # c
      BY <2>1, <2>2, ParentAbove
    <3>2. y[Parent(d)] = exec[s][Parent(d)]
      BY <1>13, <2>2, <3>1
    <3> QED BY <3>2 DEF Alike
  <2> QED BY <2>1, <2>2 DEF Heeds
<1>16. exec' = [exec EXCEPT ![s] = y]
  BY <1>2, <1>4, <1>7, <1>10 DEF StartsChild, Starting
<1>17. \A d \in Runs \ {r, c} : y[d] = exec[s][d] \/ y[d] = Idle
  BY <1>13
<1> QED BY <1>3, <1>11, <1>12, <1>15, <1>16, <1>17 DEF Session

(* The child is placed and traced. *)
LEMMA ChildStarts ==
  ASSUME ExecShape, NEW s \in Sessions, NEW r \in Runs, NEW e, Executed(e), NEW c \in Runs \ {r}, NEW stop,
         r \notin Under(c), StartsChild(s, r, e, c, stop), Placed(c), Traced(c)'
  PROVE \E y : Session(s, y) /\ y[r] = e /\ Others(s, r, y)
<1>1. PICK y : /\ Session(s, y) /\ y[r] = e /\ y[c].at = "load"
               /\ \A d \in Runs \ {r, c} : y[d] = exec[s][d] \/ y[d] = Idle
  BY StartsApart
<1>2. Others(s, r, y)
  BY <1>1 DEF Others, Alike, Begun
<1> QED BY <1>1, <1>2

(* A run is not below its children. *)
LEMMA ChildBelow ==
  ASSUME NEW r \in Runs, NEW i, Child(r, i) \in Runs
  PROVE r \notin Under(Child(r, i))
<1>1. PICK n \in Nat : n = Len(r)
  BY RunsAssumption DEF RunsAssumption
<1>2. Len(Child(r, i)) = n + 1
  BY <1>1, ChildNamed
<1> QED BY <1>1, <1>2 DEF Under

(* What a foreach restores are frames; only an item whose child is completed is taken for done. *)
LEMMA Restoring ==
  ASSUME NestedInv, NEW r \in Runs
  PROVE /\ IsForEach(r) => /\ Restored(r) \in [Items(r) -> FrameStates]
                           /\ Framed(r) => \A i \in Items(r) : Restored(r) = frames[r]
        /\ ~IsForEach(r) => Restored(r) = <<>> /\ frames[r] = <<>>
        /\ ~IsLeaf(r) => \A i \in Items(r) : Restored(r) # <<>> /\ Restored(r)[i] = "completed" => Done(r, i)
        /\ Hands(r) \in [Items(r) -> HandStages]
        /\ \A i \in Items(r) : /\ Hands(r)[i] \notin {"mark", "close"}
                               /\ ~IsLeaf(r) /\ Hands(r)[i] = "done" => Done(r, i)
<1>1. /\ frames[r] = <<>> \/ (IsForEach(r) /\ frames[r] \in [Items(r) -> FrameStates])
      /\ ~IsLeaf(r) => \A i \in Items(r) : frames[r] # <<>> /\ frames[r][i] = "completed" => Done(r, i)
  BY DEF NestedInv, Recorded, Framed
<1>2. IsForEach(r) => Restored(r) \in [Items(r) -> FrameStates]
  BY <1>1 DEF Restored, FrameStates
<1>3. ASSUME IsForEach(r), NEW i \in Items(r), Restored(r)[i] = "completed", ~IsLeaf(r)
      PROVE Done(r, i)
  BY <1>1, <1>3 DEF Restored
<1>4. ~IsForEach(r) => Restored(r) = <<>> /\ frames[r] = <<>>
  BY <1>1 DEF Restored
<1>5. ~IsLeaf(r) => \A i \in Items(r) : Restored(r) # <<>> /\ Restored(r)[i] = "completed" => Done(r, i)
  BY <1>3, <1>4
<1>6. Hands(r) \in [Items(r) -> HandStages]
  BY DEF Hands, HandStages
<1>7. \A i \in Items(r) : /\ Hands(r)[i] \notin {"mark", "close"}
                          /\ ~IsLeaf(r) /\ Hands(r)[i] = "done" => Done(r, i)
  BY <1>3 DEF Hands
<1>8. IsForEach(r) /\ Framed(r) => \A i \in Items(r) : Restored(r) = frames[r]
  <2>1. ASSUME NEW i \in Items(r), Framed(r)
        PROVE frames[r] # <<>>
    <3>1. DOMAIN frames[r] = Items(r) /\ i \in Items(r)
      BY <2>1 DEF Framed
    <3>2. i \in DOMAIN frames[r]
      BY <3>1
    <3>3. DOMAIN <<>> = {}
      OBVIOUS
    <3> QED BY <3>2, <3>3
  <2> QED BY <2>1 DEF Restored
<1> QED BY <1>2, <1>4, <1>5, <1>6, <1>7, <1>8

(* An execution with other places, hands and errors. *)
LEMMA ExecutionWith ==
  ASSUME NEW x, Executed(x), NEW v
  PROVE /\ [x EXCEPT !.at = v] = [at |-> v, stop |-> x.stop, answer |-> x.answer, hands |-> x.hands, error |-> x.error]
        /\ [x EXCEPT !.hands = v] = [at |-> x.at, stop |-> x.stop, answer |-> x.answer, hands |-> v, error |-> x.error]
        /\ [x EXCEPT !.error = v] = [at |-> x.at, stop |-> x.stop, answer |-> x.answer, hands |-> x.hands, error |-> v]
        /\ [x EXCEPT !.stop = v] = [at |-> x.at, stop |-> v, answer |-> x.answer, hands |-> x.hands, error |-> x.error]
<1>1. x = [at |-> x.at, stop |-> x.stop, answer |-> x.answer, hands |-> x.hands, error |-> x.error]
  BY DEF Executed
<1> QED BY <1>1

(* The node starts working with the items in hand, or fails at once; a called workflow begins. *)
LEMMA Launching ==
  ASSUME ExecShape, NEW s \in Sessions, NEW r \in Runs, Launch(s, r)
  PROVE \E e : /\ Executed(e) /\ e.at = (IF ~IsLeaf(r) /\ TooDeep(r) THEN "failing" ELSE "work")
               /\ e.stop = exec[s][r].stop /\ e.hands = Hands(r)
               /\ \/ TurnsInto(s, r, e)
                  \/ ~IsLeaf(r) /\ ~IsForEach(r) /\ ~TooDeep(r) /\ StartsChild(s, r, e, Child(r, 1), "none")
<1>6. PICK h : h = Hands(r)
  OBVIOUS
<1>7. PICK x : x = exec[s][r]
  OBVIOUS
<1>0. PICK pc : pc = IF ~IsLeaf(r) /\ TooDeep(r) THEN "failing" ELSE "work"
  OBVIOUS
<1> DEFINE e == [at |-> pc, stop |-> x.stop, answer |-> x.answer, hands |-> h, error |-> "none"]
<1>8. [[[x EXCEPT !.at = pc] EXCEPT !.hands = h] EXCEPT !.error = "none"] = e
  <2>1. Executed(x)
    BY <1>7 DEF ExecShape
  <2>2. PICK x1 : x1 = [x EXCEPT !.at = pc]
    OBVIOUS
  <2>3. PICK x2 : x2 = [x1 EXCEPT !.hands = h]
    OBVIOUS
  <2>4. x1 = [at |-> pc, stop |-> x.stop, answer |-> x.answer, hands |-> x.hands, error |-> x.error]
    BY <2>1, <2>2, ExecutionWith
  <2>5. Executed(x1) /\ x1.at = pc /\ x1.stop = x.stop /\ x1.answer = x.answer /\ x1.error = x.error
    BY <2>4 DEF Executed
  <2>6. x2 = [at |-> pc, stop |-> x.stop, answer |-> x.answer, hands |-> h, error |-> x.error]
    BY <2>3, <2>5, ExecutionWith
  <2>7. Executed(x2) /\ x2.at = pc /\ x2.stop = x.stop /\ x2.answer = x.answer /\ x2.hands = h
    BY <2>6 DEF Executed
  <2>8. [x2 EXCEPT !.error = "none"] = [at |-> x2.at, stop |-> x2.stop, answer |-> x2.answer, hands |-> x2.hands,
                                        error |-> "none"]
    BY <2>7, ExecutionWith
  <2>9. [x2 EXCEPT !.error = "none"] = e
    BY <2>7, <2>8
  <2> QED BY <2>2, <2>3, <2>9
<1>9. [exec[s] EXCEPT ![r].at = pc, ![r].hands = h, ![r].error = "none"] = [exec[s] EXCEPT ![r] = e]
  <2>1. exec[s] = [d \in Runs |-> exec[s][d]]
    BY DEF ExecShape
  <2> QED BY <1>7, <1>8, <2>1
<1>10. Executed(e) /\ e.at = pc /\ e.hands = h /\ e.stop = x.stop
  BY DEF Executed
<1>12. \/ TurnsInto(s, r, e)
       \/ ~IsLeaf(r) /\ ~IsForEach(r) /\ ~TooDeep(r) /\ StartsChild(s, r, e, Child(r, 1), "none")
  <2> HIDE DEF e
  <2>1. PICK w : w = [exec[s] EXCEPT ![r].at = pc, ![r].hands = h, ![r].error = "none"]
    OBVIOUS
  <2>2. exec' = [exec EXCEPT ![s] = IF IsLeaf(r) \/ IsForEach(r) \/ TooDeep(r) THEN w
                                    ELSE Starting(w, Child(r, 1), "none")]
    BY <1>0, <1>6, <2>1 DEF Launch
  <2>3. w = [exec[s] EXCEPT ![r] = e]
    BY <1>9, <2>1
  <2>4. CASE IsLeaf(r) \/ IsForEach(r) \/ TooDeep(r)
    BY <2>2, <2>3, <2>4 DEF TurnsInto
  <2>5. CASE ~(IsLeaf(r) \/ IsForEach(r) \/ TooDeep(r))
    BY <2>2, <2>3, <2>5 DEF StartsChild
  <2> QED BY <2>4, <2>5
<1> HIDE DEF e
<1> QED BY <1>0, <1>6, <1>7, <1>10, <1>12

(* The node is launched: an attempt is counted before the Host is called or a child begins. *)
LEMMA LaunchKept ==
  ASSUME NestedInv, record[Root] # "absent", NEW s \in Sessions, NEW r \in Runs, Launch(s, r)
  PROVE NestedInv'
<1>1. RecordShape /\ ExecShape /\ HasRoom(plan)
  BY DEF NestedInv, Rooted
<1>2. exec[s][r].at = "launch" /\ Commit(s, r, "running") /\ exec[s][r].at \in Committing
  BY DEF Launch, Is, Committing
<1>3. record[r] # "completed" /\ main[r] = "ready"
  <2>1. record[r] # "completed" /\ Knows(r, exec[s][r])
    BY <1>2, CommitsLive
  <2> QED BY <1>2, <2>1 DEF Knows
<1>4. PICK a \in Nat : a = attempts[r] + 1 /\ attempts[r] \in Nat
  BY <1>1 DEF RecordShape
<1>5. PICK f : f = IF TooDeep(r) THEN frames[r] ELSE Restored(r)
  OBVIOUS
<1>6. PICK h : h = Hands(r)
  OBVIOUS
<1>0. PICK pc : pc = IF ~IsLeaf(r) /\ TooDeep(r) THEN "failing" ELSE "work"
  OBVIOUS
<1>10. PICK e : /\ Executed(e) /\ e.at = pc /\ e.hands = h
                /\ \/ TurnsInto(s, r, e)
                   \/ ~IsLeaf(r) /\ ~IsForEach(r) /\ ~TooDeep(r) /\ StartsChild(s, r, e, Child(r, 1), "none")
  BY <1>0, <1>1, <1>6, Launching
<1>11. Saves(s, r, "running", "running", a, f)
  BY <1>2, <1>4, <1>5 DEF Launch, Commit, Sets, Saves, Keeps, historyVars
<1>13. \E y : Session(s, y) /\ y[r] = e /\ Others(s, r, y)
  <2>1. CASE TurnsInto(s, r, e)
    BY <1>1, <1>10, <2>1, Turns
  <2>2. CASE ~IsLeaf(r) /\ ~IsForEach(r) /\ ~TooDeep(r) /\ StartsChild(s, r, e, Child(r, 1), "none")
    <3>1. Items(r) = {1} /\ 1 \in Items(r)
      BY <2>2 DEF Items, ItemsOf, IsForEach
    <3>2. Placed(r)
      BY <1>2 DEF NestedInv, Claims
    <3>3. PICK c : c = Child(r, 1)
      OBVIOUS
    <3>4. c \in Runs /\ Placed(c) /\ c # r /\ Parent(c) = r /\ r \notin Under(c)
      BY <1>1, <2>2, <3>1, <3>2, <3>3, ChildPlaced, ChildNamed, ChildBelow
    <3>5. attempts'[r] = a /\ a > 0
      BY <1>1, <1>4, <1>11 DEF Saves, RecordShape
    <3>6. ~IsForEach(r)'
      BY <1>11, <2>2, PlanKept DEF Saves
    <3>7. Traced(c)'
      BY <3>4, <3>5, <3>6 DEF Traced
    <3> QED BY <1>1, <1>10, <2>2, <3>3, <3>4, <3>7, ChildStarts
  <2> QED BY <1>10, <2>1, <2>2
<1>14. PICK y : Session(s, y) /\ y[r] = e /\ Others(s, r, y)
  BY <1>13
<1>15. Framed(r) => f \in [Items(r) -> FrameStates] /\ \A i \in Items(r) : frames[r][i] # "pending" => f[i] # "pending"
  <2>1. ASSUME Framed(r), ~TooDeep(r), NEW i \in Items(r)
        PROVE f = frames[r]
    BY <1>5, <2>1, Restoring
  <2>2. Framed(r) => f \in [Items(r) -> FrameStates]
    BY <1>5, Restoring DEF Framed
  <2> QED BY <1>5, <2>1, <2>2
<1>16. Truthful(r, "running", "running", f)
  <2>1. /\ frames[r] = <<>> \/ (IsForEach(r) /\ frames[r] \in [Items(r) -> FrameStates])
        /\ ~IsLeaf(r) => \A i \in Items(r) : frames[r] # <<>> /\ frames[r][i] = "completed" => Done(r, i)
    BY DEF NestedInv, Recorded, Framed
  <2>2. f = <<>> \/ (IsForEach(r) /\ f \in [Items(r) -> FrameStates])
    BY <1>5, <2>1, Restoring
  <2>3. ~IsLeaf(r) => \A i \in Items(r) : f # <<>> /\ f[i] = "completed" => Done(r, i)
    BY <1>5, <2>1, Restoring
  <2> QED BY <2>2, <2>3 DEF Truthful, RunStatus, Terminal, MainStates
<1>17. Suits(e, "running", "running")
  BY <1>0, <1>10 DEF Suits, Committing
<1>18. IsLeaf(r) => Allowed(r, e, "running")
  <2>1. IsLeaf(r) => Spent(r) <= retries[r]
    BY <1>3, CallsKnown
  <2> QED BY <2>1, CallsKnown DEF Allowed
<1>19. ASSUME e.at = "work", ~IsLeaf(r)
       PROVE WorksOn(r, e.hands, a, f)
  <2>1. ~TooDeep(r) /\ f = Restored(r)
    BY <1>0, <1>5, <1>10, <1>19
  <2>2. e.hands \in [Items(r) -> HandStages]
    BY <1>6, <1>10, Restoring
  <2>3. \A i \in Items(r) : /\ e.hands[i] \in {"close", "done"} => Done(r, i)
                            /\ e.hands[i] \in {"mark", "close"} => IsForEach(r)
    BY <1>6, <1>10, <1>19, Restoring
  <2> QED BY <1>4, <2>1, <2>2, <2>3, Restoring DEF WorksOn
<1>20. a >= attempts[r] /\ exec[s][r].at # "idle"
  BY <1>2, <1>4
<1> QED BY <1>3, <1>11, <1>14, <1>15, <1>16, <1>17, <1>18, <1>19, <1>20, Saved

(* The Host is called: a call that was certain is made. *)
LEMMA CallHostKept ==
  ASSUME NestedInv, record[Root] # "absent", NEW s \in Sessions, NEW r \in Runs, CallHost(s, r)
  PROVE NestedInv'
<1>1. RecordShape /\ ExecShape /\ HasRoom(plan)
  BY DEF NestedInv, Rooted
<1>2. /\ exec[s][r].at = "work" /\ IsLeaf(r) /\ Goto(s, r, "reply") /\ calls' = [calls EXCEPT ![r] = @ + 1]
      /\ UNCHANGED <<plan, record, seen, main, attempts, frames, retries>>
  BY DEF CallHost, Is, durableVars, storeVars
<1>3. PICK e : Executed(e) /\ TurnsInto(s, r, e) /\ e.at = "reply"
  BY <1>1, <1>2, GoesOn
<1>4. PICK y : Session(s, y) /\ y[r] = e /\ Others(s, r, y)
  BY <1>1, <1>3, Turns
<1>5. \A d \in Runs \ {r} : y[d] = exec[s][d]
  <2>1. exec' = [exec EXCEPT ![s] = y] /\ exec' = [exec EXCEPT ![s] = [exec[s] EXCEPT ![r] = e]]
    BY <1>3, <1>4 DEF Session, TurnsInto
  <2>2. y = [exec[s] EXCEPT ![r] = e]
    BY <1>1, <2>1 DEF ExecShape
  <2>3. exec[s] = [d \in Runs |-> exec[s][d]]
    BY <1>1 DEF ExecShape
  <2> QED BY <2>2, <2>3
<1>6. /\ ExecShape' /\ exec'[s] = y
      /\ \A t \in Sessions \ {s} : exec'[t] = exec[t]
  BY <1>1, <1>4, CallingMoves
<1>7. RecordShape'
  <2>1. calls' \in [Runs -> Nat]
    BY <1>1, <1>2 DEF RecordShape
  <2> QED BY <1>1, <1>2, <2>1 DEF RecordShape
<1>8. ASSUME NEW d \in Runs
      PROVE calls[d] \in Nat /\ retries[d] \in Nat /\ attempts[d] \in Nat
            /\ calls'[d] = IF d = r THEN calls[d] + 1 ELSE calls[d]
  BY <1>1, <1>2 DEF RecordShape
<1>9. ASSUME NEW d \in Runs
      PROVE Still(d) /\ Extends(d) /\ Spent(d)' <= Spent(d)
  <2>1. Certain(d) \in Nat /\ Certain(d)' \in Nat
    BY <1>1, <1>4, CallingMoves
  <2>2. CASE d = r
    <3>1. Certain(d)' + 1 = Certain(d)
      BY <1>1, <1>2, <1>3, <1>4, <2>2, CallingMoves
    <3>2. Spent(d)' <= Spent(d)
      BY <1>8, <2>1, <2>2, <3>1 DEF Spent
    <3> QED BY <1>2, <1>8, <2>2, <3>2 DEF Still, Extends, Framed
  <2>3. CASE d # r
    <3>1. y[d].at = "work" => exec[s][d].at = "work"
      BY <1>5, <2>3
    <3>2. Certain(d)' <= Certain(d)
      BY <1>1, <1>4, <3>1, CallingMoves
    <3>3. Spent(d)' <= Spent(d)
      BY <1>8, <2>1, <2>3, <3>2 DEF Spent
    <3> QED BY <1>2, <1>8, <2>3, <3>3 DEF Still, Extends, Framed
  <2> QED BY <2>2, <2>3
<1>10. Writes(r)
  BY <1>2, <1>9 DEF Writes
<1>11. Recorded(r)'
  BY <1>1, <1>6, <1>7, <1>9, <1>10, RecordedKept DEF NestedInv
<1>12. Claims(r, e)' /\ (s \in seen'[r] => Knows(r, e)')
  <2>1. Claims(r, e)
    BY <1>2, <1>3 DEF NestedInv, Claims
  <2>2. s \in seen[r] => Knows(r, e)
    BY <1>2, <1>3 DEF NestedInv, Knows, Committing
  <2>3. Claims(r, e)'
    BY <1>1, <1>7, <1>10, <2>1, ClaimsKept
  <2>4. s \in seen[r] => Knows(r, e)'
    BY <1>1, <1>6, <1>7, <1>9, <1>10, <2>2, KnowsKept
  <2> QED BY <1>2, <2>3, <2>4
<1>13. ASSUME NEW t \in Sessions, NEW d \in Runs
       PROVE \/ /\ exec'[t][d] = exec[t][d]
                /\ t \in seen'[d] => t \in seen[d] /\ Still(d) /\ Spent(d)' <= Spent(d)
             \/ /\ Claims(d, exec[t][d])'
                /\ t \in seen'[d] => Knows(d, exec[t][d])'
  <2>1. CASE t # s \/ d # r
    BY <1>2, <1>5, <1>6, <1>9, <2>1
  <2>2. CASE t = s /\ d = r
    <3>1. exec'[t][d] = e
      BY <1>4, <1>6, <2>2
    <3> QED BY <1>12, <2>2, <3>1 DEF Claims, Knows
  <2> QED BY <2>1, <2>2
<1> QED BY <1>1, <1>6, <1>7, <1>9, <1>10, <1>11, <1>13, Moves
-----------------------------------------------------------------------------
(* An item passes from one stage of its worker to the next. *)
LEMMA Handed ==
  ASSUME NEW r, NEW h, NEW a, NEW f, NEW i \in Items(r), NEW stage \in HandStages,
         WorksOn(r, h, a, f),
         stage \in {"close", "done"} => Done(r, i), stage \in {"mark", "close"} => IsForEach(r)
  PROVE WorksOn(r, [h EXCEPT ![i] = stage], a, f)
<1>1. h \in [Items(r) -> HandStages]
  BY DEF WorksOn
<1>2. PICK g : g = [h EXCEPT ![i] = stage]
  OBVIOUS
<1>3. g \in [Items(r) -> HandStages] /\ \A j \in Items(r) : g[j] = IF j = i THEN stage ELSE h[j]
  BY <1>1, <1>2
<1>4. WorksOn(r, g, a, f)
  BY <1>3 DEF WorksOn
<1> QED BY <1>2, <1>4

HandsOver(e, x, i, stage) == /\ Executed(e) /\ e.at = x.at /\ e.answer = x.answer /\ e.stop = x.stop
                             /\ e.hands = [x.hands EXCEPT ![i] = stage]

(* What an execution with other hands is. *)
LEMMA Passing ==
  ASSUME ExecShape, NEW s \in Sessions, NEW r \in Runs, NEW i, NEW stage, Passes(s, r, i, stage)
  PROVE \E e : TurnsInto(s, r, e) /\ HandsOver(e, exec[s][r], i, stage)
<1>1. PICK x : x = exec[s][r]
  OBVIOUS
<1>2. PICK h : h = [x.hands EXCEPT ![i] = stage]
  OBVIOUS
<1>3. Executed(x)
  BY <1>1 DEF ExecShape
<1>4. PICK e : e = [x EXCEPT !.hands = h]
  OBVIOUS
<1>5. e = [at |-> x.at, stop |-> x.stop, answer |-> x.answer, hands |-> h, error |-> x.error]
  BY <1>3, <1>4, ExecutionWith
<1>6. Executed(e) /\ e.at = x.at /\ e.answer = x.answer /\ e.hands = h /\ e.stop = x.stop
  BY <1>5 DEF Executed
<1>7. TurnsInto(s, r, e)
  BY <1>1, <1>2, <1>4 DEF Passes, TurnsInto
<1> QED BY <1>1, <1>2, <1>6, <1>7 DEF HandsOver

(* A composite at work relies on the items in its hands. *)
LEMMA AtWork ==
  ASSUME NestedInv, NEW s \in Sessions, NEW r \in Runs, Iterating(s, r)
  PROVE /\ exec[s][r].at = "work" /\ ~IsLeaf(r) /\ Placed(r) /\ Traced(r)
        /\ Working(r, exec[s][r].hands) /\ (s \in seen[r] => Knows(r, exec[s][r]))
BY DEF NestedInv, Iterating, Is, Claims

(* A worker takes the next item. *)
LEMMA TakeKept ==
  ASSUME NestedInv, record[Root] # "absent", NEW s \in Sessions, NEW r \in Runs, NEW i \in Items(r),
         NEW stage \in {"mark", "broken"}, IsForEach(r), Iterating(s, r),
         Passes(s, r, i, stage), UNCHANGED storeVars, KeepsRun
  PROVE NestedInv'
<1>1. /\ exec[s][r].at = "work" /\ Placed(r) /\ Traced(r) /\ ~IsLeaf(r)
      /\ Working(r, exec[s][r].hands) /\ (s \in seen[r] => Knows(r, exec[s][r])) /\ ExecShape
  BY AtWork DEF NestedInv
<1>0. PICK e : TurnsInto(s, r, e) /\ HandsOver(e, exec[s][r], i, stage)
  BY <1>1, Passing
<1>2. /\ Executed(e) /\ TurnsInto(s, r, e) /\ e.at = exec[s][r].at
      /\ e.hands = [exec[s][r].hands EXCEPT ![i] = stage]
  BY <1>0 DEF HandsOver
<1>3. stage \in HandStages
  BY DEF HandStages
<1>4. Working(r, e.hands)
  BY <1>1, <1>2, <1>3, Handed DEF Working
<1>5. Claims(r, e) /\ (s \in seen[r] => Knows(r, e))
  BY <1>1, <1>2, <1>4 DEF Claims, Knows
<1>6. UNCHANGED <<plan, record, main, attempts, frames, calls, retries>> /\ seen' = seen
  BY DEF KeepsRun, KeepsData, Keeps, historyVars, storeVars
<1>7. seen' = [d \in Runs |-> seen'[d]]
  BY <1>6 DEF NestedInv, RecordShape
<1>8. \A d \in Runs, t \in Sessions : t \in seen'[d] => t \in seen[d] \/ (t = s /\ d = r)
  BY <1>6
<1> QED BY <1>1, <1>2, <1>5, <1>6, <1>7, <1>8, Turned

(* Telling those below a run to stop changes nothing they rely on, nor the run itself. *)
LEMMA StopsAlike ==
  ASSUME NEW x, \A d \in Runs : Executed(x[d]), NEW r \in Runs
  PROVE /\ StopsBelow(x, r) = [d \in Runs |-> StopsBelow(x, r)[d]]
        /\ \A d \in Runs : /\ Executed(StopsBelow(x, r)[d]) /\ Alike(StopsBelow(x, r)[d], x[d])
                           /\ StopsBelow(x, r)[d].stop = x[d].stop \/ StopsBelow(x, r)[d].stop = "cancel"
        /\ StopsBelow(x, r)[r] = x[r]
        /\ \A d \in Runs : x[d] = Idle => StopsBelow(x, r)[d] = Idle
<1>1. r \notin Under(r)
  <2>1. r \in Seq(Nat)
    BY RunsAssumption DEF RunsAssumption
  <2>2. Len(r) \in Nat
    BY <2>1
  <2> QED BY <2>2 DEF Under
<1>2. ASSUME NEW d \in Runs
      PROVE /\ Executed([x[d] EXCEPT !.stop = "cancel"]) /\ Alike([x[d] EXCEPT !.stop = "cancel"], x[d])
            /\ [x[d] EXCEPT !.stop = "cancel"].stop = "cancel"
  <2>1. PICK z : z = x[d]
    OBVIOUS
  <2>2. [z EXCEPT !.stop = "cancel"] = [at |-> z.at, stop |-> "cancel", answer |-> z.answer, hands |-> z.hands,
                                        error |-> z.error]
    BY <2>1, ExecutionWith
  <2> QED BY <2>1, <2>2 DEF Executed, Alike
<1>3. \A d \in Runs : /\ Executed(StopsBelow(x, r)[d]) /\ Alike(StopsBelow(x, r)[d], x[d])
                      /\ StopsBelow(x, r)[d].stop = x[d].stop \/ StopsBelow(x, r)[d].stop = "cancel"
  BY <1>2 DEF StopsBelow, Alike
<1>4. \A d \in Runs : x[d] = Idle => StopsBelow(x, r)[d] = Idle
  BY DEF StopsBelow, InFlight, Idle
<1> QED BY <1>1, <1>3, <1>4 DEF StopsBelow

(* A worker that throws keeps what it relies on, and so do the executions it stops. *)
LEMMA Breaking ==
  ASSUME ExecShape, NEW s \in Sessions, NEW r \in Runs, NEW i, NEW error, NEW z, Breaks(z, s, r, i, error),
         z = [d \in Runs |-> z[d]], z[r] = exec[s][r],
         \A d \in Runs \ {r} : z[d] = exec[s][d] \/ (z[d] = Idle /\ exec[s][d].at = "ended")
  PROVE \E y : /\ Session(s, y) /\ HandsOver(y[r], exec[s][r], i, "broken") /\ Others(s, r, y) /\ Heeds(s, r, y)
               /\ \A d \in Runs \ {r} : y[d].at = z[d].at /\ (y[d].stop = z[d].stop \/ y[d].stop = "cancel")
<1>1. exec[s] = [d \in Runs |-> exec[s][d]] /\ \A d \in Runs : Executed(exec[s][d])
  BY DEF ExecShape
<1>2. Executed(Idle) /\ Idle.at = "idle"
  BY DEF Executed, Idle
<1>3. PICK x : x = exec[s][r]
  OBVIOUS
<1>4. PICK h : h = [x.hands EXCEPT ![i] = "broken"]
  OBVIOUS
<1>5. PICK v : v = IF x.error = "none" THEN error ELSE x.error
  OBVIOUS
<1>6. PICK x1 : x1 = [x EXCEPT !.hands = h]
  OBVIOUS
<1>7. PICK e : e = [x1 EXCEPT !.error = v]
  OBVIOUS
<1>8. x1 = [at |-> x.at, stop |-> x.stop, answer |-> x.answer, hands |-> h, error |-> x.error]
  <2>1. Executed(x)
    BY <1>1, <1>3
  <2> QED BY <1>6, <2>1, ExecutionWith
<1>9. Executed(x1) /\ x1.at = x.at /\ x1.stop = x.stop /\ x1.answer = x.answer /\ x1.hands = h /\ x1.error = x.error
  BY <1>8 DEF Executed
<1>10. e = [at |-> x1.at, stop |-> x1.stop, answer |-> x1.answer, hands |-> x1.hands, error |-> v]
  BY <1>7, <1>9, ExecutionWith
<1>11. HandsOver(e, x, i, "broken")
  BY <1>4, <1>9, <1>10 DEF HandsOver, Executed
<1>12. e = [x EXCEPT !.hands[i] = "broken", !.error = v]
  BY <1>4, <1>6, <1>7
<1>13. PICK w : w = [z EXCEPT ![r] = e]
  OBVIOUS
<1>14. w = [d \in Runs |-> w[d]] /\ w[r] = e /\ \A d \in Runs \ {r} : w[d] = z[d]
  BY <1>13
<1>15. \A d \in Runs : Executed(w[d])
  <2>1. Executed(e)
    BY <1>11 DEF HandsOver
  <2> QED BY <1>1, <1>2, <1>14, <2>1
<1>16. PICK y : y = StopsBelow(w, r)
  OBVIOUS
<1>17. /\ y = [d \in Runs |-> y[d]] /\ y[r] = e
       /\ \A d \in Runs : /\ Executed(y[d]) /\ Alike(y[d], w[d]) /\ (w[d] = Idle => y[d] = Idle)
                          /\ y[d].stop = w[d].stop \/ y[d].stop = "cancel"
  BY <1>14, <1>15, <1>16, StopsAlike
<1>18. Others(s, r, y) /\ Heeds(s, r, y)
  <2>1. \A d \in Runs \ {r} : (y[d] = Idle /\ exec[s][d].at = "ended") \/ Alike(y[d], exec[s][d])
    BY <1>14, <1>17
  <2> QED BY <1>2, <2>1 DEF Others, Heeds, Alike
<1>19. exec' = [exec EXCEPT ![s] = y]
  <2>1. exec' = [exec EXCEPT ![s] = StopsBelow([z EXCEPT ![r] = [x EXCEPT !.hands[i] = "broken", !.error = v]], r)]
    BY <1>3, <1>5 DEF Breaks
  <2> QED BY <1>12, <1>13, <1>16, <2>1
<1>20. \A d \in Runs \ {r} : y[d].at = z[d].at /\ (y[d].stop = z[d].stop \/ y[d].stop = "cancel")
  BY <1>14, <1>17 DEF Alike
<1> QED BY <1>3, <1>11, <1>17, <1>18, <1>19, <1>20 DEF Session

(* So does a worker that gets the completion of its child. *)
Gathers(s, r, i, stage, y) ==
  /\ Session(s, y) /\ HandsOver(y[r], exec[s][r], i, stage) /\ Others(s, r, y) /\ Heeds(s, r, y)
  /\ y[Child(r, i)] = Idle /\ \A d \in Runs \ {r, Child(r, i)} : y[d] = exec[s][d]
LEMMA Gathering ==
  ASSUME ExecShape, NEW s \in Sessions, NEW r \in Runs, NEW i, Child(r, i) \in Runs, NEW stage,
         exec[s][Child(r, i)].at = "ended",
         exec' = [exec EXCEPT ![s][r].hands[i] = stage, ![s][Child(r, i)] = Idle]
  PROVE \E y : Gathers(s, r, i, stage, y)
<1>1. /\ exec = [t \in Sessions |-> exec[t]] /\ exec[s] = [d \in Runs |-> exec[s][d]]
      /\ \A d \in Runs : Executed(exec[s][d])
  BY DEF ExecShape
<1>2. PICK c \in Runs : c = Child(r, i) /\ c # r
  BY ChildNamed
<1>3. PICK x : x = exec[s][r]
  OBVIOUS
<1>4. PICK h : h = [x.hands EXCEPT ![i] = stage]
  OBVIOUS
<1>5. PICK e : e = [x EXCEPT !.hands = h]
  OBVIOUS
<1>6. e = [at |-> x.at, stop |-> x.stop, answer |-> x.answer, hands |-> h, error |-> x.error]
  BY <1>1, <1>3, <1>5, ExecutionWith
<1>7. HandsOver(e, x, i, stage)
  BY <1>4, <1>6 DEF HandsOver, Executed
<1>8. PICK y : y = [[exec[s] EXCEPT ![r] = e] EXCEPT ![c] = Idle]
  OBVIOUS
<1>9. y = [d \in Runs |-> y[d]] /\ y[r] = e /\ y[c] = Idle /\ \A d \in Runs \ {r, c} : y[d] = exec[s][d]
  BY <1>1, <1>2, <1>8
<1>10. \A d \in Runs : Executed(y[d])
  BY <1>1, <1>7, <1>9 DEF HandsOver, Executed, Idle
<1>11. Others(s, r, y) /\ Heeds(s, r, y)
  <2>1. Idle.at # "ended" /\ exec[s][c].at = "ended"
    BY <1>2 DEF Idle
  <2> QED BY <1>9, <2>1 DEF Others, Heeds, Alike
<1>12. exec' = [exec EXCEPT ![s] = y]
  <2>1. [exec EXCEPT ![s][r].hands[i] = stage] = [exec EXCEPT ![s] = [exec[s] EXCEPT ![r] = e]]
    BY <1>3, <1>4, <1>5
  <2>2. exec' = [[exec EXCEPT ![s] = [exec[s] EXCEPT ![r] = e]] EXCEPT ![s][c] = Idle]
    BY <1>2, <2>1
  <2> QED BY <1>1, <1>8, <2>2
<1> QED BY <1>2, <1>3, <1>7, <1>9, <1>10, <1>11, <1>12 DEF Session, Gathers

(* A composite keeps the invariant with whatever becomes of an item in its hands, as
   long as nothing is written.                                                      *)
LEMMA PassesKept ==
  ASSUME NestedInv, record[Root] # "absent", NEW s \in Sessions, NEW r \in Runs, NEW i \in Items(r),
         NEW stage \in HandStages, Iterating(s, r),
         stage \in {"close", "done"} => Done(r, i), stage \in {"mark", "close"} => IsForEach(r),
         UNCHANGED storeVars, KeepsRun,
         \E y : Session(s, y) /\ HandsOver(y[r], exec[s][r], i, stage) /\ Others(s, r, y)
  PROVE NestedInv'
<1>1. PICK y : Session(s, y) /\ HandsOver(y[r], exec[s][r], i, stage) /\ Others(s, r, y)
  OBVIOUS
<1>2. /\ exec[s][r].at = "work" /\ Placed(r) /\ Traced(r) /\ ~IsLeaf(r)
      /\ Working(r, exec[s][r].hands) /\ (s \in seen[r] => Knows(r, exec[s][r]))
  BY AtWork
<1>3. y[r].at = "work" /\ y[r].hands = [exec[s][r].hands EXCEPT ![i] = stage]
  BY <1>1, <1>2 DEF HandsOver
<1>4. Working(r, y[r].hands)
  BY <1>2, <1>3, Handed DEF Working
<1>5. Claims(r, y[r]) /\ (s \in seen[r] => Knows(r, y[r]))
  BY <1>2, <1>3, <1>4 DEF Claims, Knows
<1>6. UNCHANGED <<plan, record, main, attempts, frames, calls, retries>> /\ seen' = seen
  BY DEF KeepsRun, KeepsData, Keeps, historyVars, storeVars
<1>7. seen' = [d \in Runs |-> seen'[d]]
  BY <1>6 DEF NestedInv, RecordShape
<1>8. \A d \in Runs, t \in Sessions : t \in seen'[d] => t \in seen[d] \/ (t = s /\ d = r)
  BY <1>6
<1> QED BY <1>1, <1>2, <1>5, <1>6, <1>7, <1>8, Rests

(* The answer of a child is taken once. *)
LEMMA AnswerTaken ==
  ASSUME ExecShape, NEW s \in Sessions, NEW r \in Runs, NEW i, Child(r, i) \in Runs, exec[s][Child(r, i)].at = "ended"
  PROVE LET z == Answered(s, r, i)
        IN /\ z = [d \in Runs |-> z[d]] /\ z[r] = exec[s][r] /\ z[Child(r, i)] = Idle
           /\ \A d \in Runs \ {r} : z[d] = exec[s][d] \/ (z[d] = Idle /\ exec[s][d].at = "ended")
<1>1. exec[s] = [d \in Runs |-> exec[s][d]]
  BY DEF ExecShape
<1>2. PICK c \in Runs : c = Child(r, i) /\ c # r
  BY ChildNamed
<1>3. PICK z : z = [exec[s] EXCEPT ![c] = Idle]
  OBVIOUS
<1>4. z = [d \in Runs |-> z[d]] /\ z[c] = Idle /\ \A d \in Runs \ {c} : z[d] = exec[s][d]
  BY <1>1, <1>3
<1>5. z = Answered(s, r, i)
  BY <1>2, <1>3 DEF Answered
<1> QED BY <1>2, <1>4, <1>5

(* The parent takes an item for completed only if its child is durably so. *)
LEMMA GatherKept ==
  ASSUME NestedInv, record[Root] # "absent", NEW s \in Sessions, NEW r \in Runs, NEW i \in Items(r), Gather(s, r, i)
  PROVE NestedInv'
<1>1. Iterating(s, r) /\ UNCHANGED storeVars /\ KeepsRun /\ exec[s][Child(r, i)].at = "ended"
  BY DEF Gather, Is
<1>2. HasRoom(plan) /\ ExecShape /\ Placed(r) /\ ~IsLeaf(r)
  BY <1>1, AtWork DEF NestedInv, Rooted
<1>3. Child(r, i) \in Runs
  BY <1>2, ChildPlaced
<1>4. CASE exec[s][Child(r, i)].answer = "completed"
  <2>1. Done(r, i)
    BY <1>1, <1>3, <1>4 DEF NestedInv, Claims, Done
  <2>2. PICK stage : stage = IF IsForEach(r) THEN "close" ELSE "done"
    OBVIOUS
  <2>3. exec' = [exec EXCEPT ![s][r].hands[i] = stage, ![s][Child(r, i)] = Idle]
    BY <1>4, <2>2 DEF Gather
  <2>4. \E y : Session(s, y) /\ HandsOver(y[r], exec[s][r], i, stage) /\ Others(s, r, y)
    BY <1>1, <1>2, <1>3, <2>3, Gathering DEF Gathers
  <2>5. stage \in HandStages /\ (stage \in {"mark", "close"} => IsForEach(r))
    BY <2>2 DEF HandStages
  <2> QED BY <1>1, <2>1, <2>4, <2>5, PassesKept
<1>5. CASE exec[s][Child(r, i)].answer # "completed"
  <2>1. PICK error : Breaks(Answered(s, r, i), s, r, i, error)
    BY <1>5 DEF Gather
  <2>2. \E y : Session(s, y) /\ HandsOver(y[r], exec[s][r], i, "broken") /\ Others(s, r, y)
    BY <1>1, <1>2, <1>3, <2>1, AnswerTaken, Breaking
  <2>3. "broken" \in HandStages
    BY DEF HandStages
  <2> QED BY <1>1, <2>2, <2>3, PassesKept
<1> QED BY <1>4, <1>5

(* A checkpoint of the frames of a foreach, with item i in a new stage. *)
LEMMA FramesKept ==
  ASSUME NestedInv, record[Root] # "absent", NEW s \in Sessions, NEW r \in Runs, NEW i \in Items(r),
         Iterating(s, r), IsForEach(r), Commit(s, r, "running"), UNCHANGED <<main, attempts>>, Keeps,
         NEW mark \in {"running", "completed"}, mark = "completed" => Done(r, i),
         frames' = [frames EXCEPT ![r][i] = mark],
         NEW stage \in {"child", "done"}, stage = "done" => Done(r, i),
         NEW y, Session(s, y), HandsOver(y[r], exec[s][r], i, stage), Others(s, r, y)
  PROVE NestedInv'
<1>1. /\ exec[s][r].at = "work" /\ Placed(r) /\ Traced(r) /\ ~IsLeaf(r)
      /\ Working(r, exec[s][r].hands)
  BY AtWork
<1>2. exec[s][r].at \in Committing
  BY <1>1 DEF Committing
<1>3. record[r] \in {"running", "paused"} /\ record[r] # "completed" /\ exec[s][r].at # "idle"
  BY <1>2, CommitsLive
<1>4. PICK a \in Nat : a = attempts[r]
  BY DEF NestedInv, RecordShape
<1>5. PICK m \in MainStates : m = main[r]
  BY DEF NestedInv, RecordShape
<1>6. PICK f : f = [frames[r] EXCEPT ![i] = mark]
  OBVIOUS
<1>7. frames[r] \in [Items(r) -> FrameStates]
  BY <1>1 DEF Working, WorksOn
<1>8. f \in [Items(r) -> FrameStates] /\ \A j \in Items(r) : f[j] = IF j = i THEN mark ELSE frames[r][j]
  BY <1>6, <1>7 DEF FrameStates
<1>9. Saves(s, r, "running", m, a, f)
  <2>1. main = [d \in Runs |-> main[d]] /\ attempts = [d \in Runs |-> attempts[d]]
    BY DEF NestedInv, RecordShape
  <2>2. main' = [main EXCEPT ![r] = m] /\ attempts' = [attempts EXCEPT ![r] = a]
    BY <1>4, <1>5, <2>1
  <2> QED BY <1>6, <2>2 DEF Saves, Commit, Keeps, historyVars
<1>10. Recorded(r)
  BY DEF NestedInv
<1>11. frames[r] # <<>>
  <2>1. i \in DOMAIN frames[r]
    BY <1>7
  <2>2. DOMAIN <<>> = {}
    OBVIOUS
  <2> QED BY <2>1, <2>2
<1>12. Truthful(r, "running", m, f)
  <2>1. m \in {"ready", "running", "needs_attention", "succeeded"}
    BY <1>3, <1>5, <1>10 DEF Recorded
  <2>2. \A j \in Items(r) : m = "succeeded" \/ (f # <<>> /\ f[j] = "completed") => Done(r, j)
    BY <1>1, <1>5, <1>8, <1>10, <1>11 DEF Recorded
  <2> QED BY <1>8, <2>1, <2>2 DEF Truthful, RunStatus, Terminal
<1>13. y[r].at = "work" /\ y[r].hands = [exec[s][r].hands EXCEPT ![i] = stage]
  BY <1>1 DEF HandsOver
<1>14. Suits(y[r], "running", m)
  BY <1>13 DEF Suits, Committing
<1>15. WorksOn(r, y[r].hands, a, f)
  <2>1. WorksOn(r, exec[s][r].hands, a, frames[r])
    BY <1>1, <1>4 DEF Working
  <2>2. stage \in HandStages
    BY DEF HandStages
  <2>3. WorksOn(r, y[r].hands, a, frames[r])
    BY <1>13, <2>1, <2>2, Handed
  <2> QED BY <1>8, <2>3 DEF WorksOn
<1>16. Framed(r) => f \in [Items(r) -> FrameStates] /\ \A j \in Items(r) : frames[r][j] # "pending" => f[j] # "pending"
  BY <1>8
<1> QED BY <1>1, <1>3, <1>4, <1>9, <1>12, <1>14, <1>15, <1>16, Saved

(* A worker whose checkpoint is durable starts the child, with a signal that is aborted if
   another worker has failed. *)
LEMMA Marking ==
  ASSUME ExecShape, NEW s \in Sessions, NEW r \in Runs, NEW i, Mark(s, r, i), ~Conflict(s, r)
  PROVE \E e, stop : /\ HandsOver(e, exec[s][r], i, "child") /\ stop \in {"none", "cancel"}
                     /\ StartsChild(s, r, e, Child(r, i), stop)
<1>1. PICK x : x = exec[s][r]
  OBVIOUS
<1>2. PICK h : h = [x.hands EXCEPT ![i] = "child"]
  OBVIOUS
<1>3. PICK e : e = [x EXCEPT !.hands = h]
  OBVIOUS
<1>4. e = [at |-> x.at, stop |-> x.stop, answer |-> x.answer, hands |-> h, error |-> x.error]
  <2>1. Executed(x)
    BY <1>1 DEF ExecShape
  <2> QED BY <1>3, <2>1, ExecutionWith
<1>5. HandsOver(e, x, i, "child")
  BY <1>2, <1>4 DEF HandsOver, Executed
<1>6. PICK stop : stop = IF x.error = "none" THEN "none" ELSE "cancel"
  OBVIOUS
<1>7. exec' = [exec EXCEPT ![s] = Starting([exec[s] EXCEPT ![r].hands[i] = "child"], Child(r, i), stop)]
  BY <1>1, <1>6 DEF Mark
<1>8. [exec[s] EXCEPT ![r].hands[i] = "child"] = [exec[s] EXCEPT ![r] = e]
  BY <1>1, <1>2, <1>3
<1>9. StartsChild(s, r, e, Child(r, i), stop)
  BY <1>7, <1>8 DEF StartsChild
<1> QED BY <1>1, <1>5, <1>6, <1>9

(* A child of a foreach begins once its item is marked in the durable frames. *)
LEMMA MarkKept ==
  ASSUME NestedInv, record[Root] # "absent", NEW s \in Sessions, NEW r \in Runs, NEW i \in Items(r), Mark(s, r, i)
  PROVE NestedInv'
<1>1. Iterating(s, r) /\ exec[s][r].hands[i] = "mark" /\ Keeps
  BY DEF Mark, Hand
<1>2. /\ exec[s][r].at = "work" /\ Placed(r) /\ Traced(r) /\ ~IsLeaf(r) /\ Working(r, exec[s][r].hands)
  BY <1>1, AtWork
<1>3. IsForEach(r) /\ attempts[r] > 0 /\ frames[r] \in [Items(r) -> FrameStates]
  BY <1>1, <1>2 DEF Working, WorksOn
<1>4. CASE Conflict(s, r)
  <2>1. Passes(s, r, i, "broken") /\ UNCHANGED storeVars /\ KeepsRun
    BY <1>1, <1>4 DEF Mark, KeepsRun
  <2> QED BY <1>1, <1>3, <2>1, TakeKept
<1>5. CASE ~Conflict(s, r)
  <2>1. PICK c : c = Child(r, i)
    OBVIOUS
  <2>2. RecordShape /\ ExecShape /\ HasRoom(plan)
    BY DEF NestedInv, Rooted
  <2>3. c \in Runs /\ Placed(c) /\ c # r /\ c # Root /\ Parent(c) = r /\ Item(c) = i /\ r \notin Under(c)
    BY <1>2, <2>1, <2>2, ChildPlaced, ChildNamed, ChildBelow
  <2>4. Commit(s, r, "running") /\ frames' = [frames EXCEPT ![r][i] = "running"] /\ UNCHANGED <<main, attempts>>
    BY <1>5 DEF Mark
  <2>5. PICK e, stop : HandsOver(e, exec[s][r], i, "child") /\ StartsChild(s, r, e, c, stop)
    BY <1>5, <2>1, <2>2, Marking
  <2>13. Traced(c)'
    <3>1. PICK f : f = [frames[r] EXCEPT ![i] = "running"]
      OBVIOUS
    <3>2. frames'[r] = f /\ attempts'[r] = attempts[r]
      BY <2>2, <2>4, <3>1 DEF RecordShape
    <3>3. f \in [Items(r) -> FrameStates] /\ f[i] = "running"
      BY <1>3, <3>1 DEF FrameStates
    <3>4. Items(r)' = Items(r) /\ IsForEach(r)' = IsForEach(r)
      BY <1>1, PlanKept DEF Keeps
    <3> QED BY <1>3, <2>3, <3>2, <3>3, <3>4 DEF Traced, Framed
  <2>14. Executed(e)
    BY <2>5 DEF HandsOver
  <2>15. PICK y : Session(s, y) /\ y[r] = e /\ Others(s, r, y)
    BY <2>2, <2>3, <2>5, <2>13, <2>14, ChildStarts
  <2>16. HandsOver(y[r], exec[s][r], i, "child")
    BY <2>5, <2>15
  <2> QED BY <1>1, <1>3, <2>4, <2>15, <2>16, FramesKept
<1> QED BY <1>4, <1>5

(* An item is completed in the durable frames once its child is. *)
LEMMA CloseKept ==
  ASSUME NestedInv, record[Root] # "absent", NEW s \in Sessions, NEW r \in Runs, NEW i \in Items(r), Close(s, r, i)
  PROVE NestedInv'
<1>1. Iterating(s, r) /\ exec[s][r].hands[i] = "close" /\ Keeps
  BY DEF Close, Hand
<1>2. /\ exec[s][r].at = "work" /\ Placed(r) /\ Traced(r) /\ ~IsLeaf(r) /\ Working(r, exec[s][r].hands)
  BY <1>1, AtWork
<1>3. IsForEach(r) /\ Done(r, i)
  BY <1>1, <1>2 DEF Working, WorksOn
<1>4. ExecShape /\ HasRoom(plan)
  BY DEF NestedInv, Rooted
<1>5. CASE Conflict(s, r)
  <2>1. Breaks(exec[s], s, r, i, "error") /\ UNCHANGED storeVars /\ KeepsRun
    BY <1>1, <1>5 DEF Close, KeepsRun
  <2>2. exec[s] = [d \in Runs |-> exec[s][d]]
    BY <1>4 DEF ExecShape
  <2>3. \E y : Session(s, y) /\ HandsOver(y[r], exec[s][r], i, "broken") /\ Others(s, r, y)
    BY <1>4, <2>1, <2>2, Breaking
  <2>4. "broken" \in HandStages
    BY DEF HandStages
  <2> QED BY <1>1, <2>1, <2>3, <2>4, PassesKept
<1>6. CASE ~Conflict(s, r)
  <2>1. /\ Commit(s, r, "running") /\ frames' = [frames EXCEPT ![r][i] = "completed"] /\ UNCHANGED <<main, attempts>>
        /\ Passes(s, r, i, "done")
    BY <1>6 DEF Close
  <2>2. PICK e : TurnsInto(s, r, e) /\ HandsOver(e, exec[s][r], i, "done")
    BY <1>4, <2>1, Passing
  <2>3. Executed(e)
    BY <2>2 DEF HandsOver
  <2>4. PICK y : Session(s, y) /\ y[r] = e /\ Others(s, r, y)
    BY <1>4, <2>2, <2>3, Turns
  <2>5. HandsOver(y[r], exec[s][r], i, "done")
    BY <2>2, <2>4
  <2> QED BY <1>1, <1>3, <2>1, <2>4, <2>5, FramesKept
<1> QED BY <1>5, <1>6

(* A composite succeeds when all its items are done. *)
LEMMA ConvergeKept ==
  ASSUME NestedInv, record[Root] # "absent", NEW s \in Sessions, NEW r \in Runs, Converge(s, r)
  PROVE NestedInv'
<1>1. Iterating(s, r) /\ UNCHANGED storeVars /\ KeepsRun
  BY DEF Converge
<1>2. exec[s][r].at = "work" /\ Working(r, exec[s][r].hands)
  BY <1>1, AtWork
<1>3. PICK pc \in {"yield", "settle", "failing"} :
         Goto(s, r, pc) /\ (pc = "settle" => Holding(s, r, {"done"}) = Items(r))
  <2> DEFINE q == CASE exec[s][r].error = "pause" -> "yield"
                    [] exec[s][r].error = "none" /\ Holding(s, r, {"done"}) = Items(r) -> "settle"
                    [] OTHER -> "failing"
  <2>1. Goto(s, r, q)
    BY DEF Converge
  <2>2. q \in {"yield", "settle", "failing"} /\ (q = "settle" => Holding(s, r, {"done"}) = Items(r))
    OBVIOUS
  <2> HIDE DEF q
  <2> QED BY <2>1, <2>2
<1>4. pc = "settle" => \A i \in Items(r) : Done(r, i)
  <2>1. ASSUME pc = "settle", NEW i \in Items(r)
        PROVE exec[s][r].hands[i] = "done"
    BY <1>3, <2>1 DEF Holding, Hand
  <2>2. \A i \in Items(r) : exec[s][r].hands[i] \in {"close", "done"} => Done(r, i)
    BY <1>2 DEF Working, WorksOn
  <2> QED BY <2>1, <2>2
<1>5. exec[s][r].at # "idle" /\ exec[s][r].at \in Committing
  BY <1>2 DEF Committing
<1> QED BY <1>1, <1>3, <1>4, <1>5, GoesKept

(* An aborted execution is over, or is about to say so; nobody takes the answers of those below. *)
LEMMA Aborting ==
  ASSUME ExecShape, NEW s \in Sessions, NEW r \in Runs, Abort(s, r)
  PROVE \E y : /\ Session(s, y) /\ Others(s, r, y) /\ Heeds(s, r, y)
               /\ \A d \in Runs \ {r} : /\ y[d] = exec[s][d] \/ (y[d] = Idle /\ exec[s][d].at = "ended")
                                        /\ d # Root /\ Parent(d) = r => y[d].at # "ended"
               /\ \/ y[r].at = "cancel" /\ y[r].stop = "cancel" /\ seen' = seen
                  \/ /\ y[r].at \in {"idle", "ended"} /\ y[r].answer # "completed" /\ y[r].stop = "none"
                     /\ y[r].at = "ended" => Waiting(s, r)
                     /\ seen' = [seen EXCEPT ![r] = @ \ {s}]
<1>1. exec[s] = [d \in Runs |-> exec[s][d]] /\ \A d \in Runs : Executed(exec[s][d])
  BY DEF ExecShape
<1>2. PICK left : left = Unheard(exec[s], r)
  OBVIOUS
<1>3. PICK e : /\ exec' = [exec EXCEPT ![s] = [left EXCEPT ![r] = e]] /\ Executed(e)
               /\ \/ e.at = "cancel" /\ e.stop = "cancel" /\ seen' = seen
                  \/ /\ e.at \in {"idle", "ended"} /\ e.answer # "completed" /\ e.stop = "none"
                     /\ e.at = "ended" => Waiting(s, r)
                     /\ seen' = [seen EXCEPT ![r] = @ \ {s}]
  <2>1. CASE exec[s][r].stop = "cancel"
    <3>1. PICK e : e = [Idle EXCEPT !.at = "cancel", !.stop = "cancel"]
      OBVIOUS
    <3>2. exec' = [exec EXCEPT ![s] = [left EXCEPT ![r] = e]] /\ seen' = seen
      BY <1>2, <2>1, <3>1 DEF Abort, storeVars
    <3>3. Executed(e) /\ e.at = "cancel" /\ e.stop = "cancel"
      BY <3>1 DEF Executed, Idle
    <3> QED BY <3>2, <3>3
  <2>2. CASE exec[s][r].stop # "cancel"
    <3>1. PICK e : e = Ended(s, r, "failed")[r]
      OBVIOUS
    <3>2. exec' = [exec EXCEPT ![s] = [left EXCEPT ![r] = e]] /\ seen' = [seen EXCEPT ![r] = @ \ {s}]
      BY <1>2, <2>2, <3>1 DEF Abort
    <3>3. e = IF Waiting(s, r) THEN [Idle EXCEPT !.at = "ended", !.answer = "failed"] ELSE Idle
      BY <1>1, <3>1 DEF Ended
    <3>4. /\ Executed(e) /\ e.at \in {"idle", "ended"} /\ e.answer # "completed" /\ e.stop = "none"
          /\ e.at = "ended" => Waiting(s, r)
      BY <3>3 DEF Executed, Idle
    <3> QED BY <3>2, <3>4
  <2> QED BY <2>1, <2>2
<1>4. PICK y : y = [left EXCEPT ![r] = e]
  OBVIOUS
<1>5. /\ left = [d \in Runs |-> left[d]]
      /\ \A d \in Runs : /\ Executed(left[d])
                         /\ left[d] = exec[s][d] \/ (exec[s][d].at = "ended" /\ left[d] = Idle)
                         /\ d \in Under(r) => left[d].at # "ended"
  BY <1>1, <1>2, Unhearing
<1>6. y = [d \in Runs |-> y[d]] /\ y[r] = e /\ \A d \in Runs \ {r} : y[d] = left[d]
  BY <1>4, <1>5
<1>7. Session(s, y)
  <2>1. \A d \in Runs : Executed(y[d])
    BY <1>3, <1>5, <1>6
  <2> QED BY <1>3, <1>4, <1>6, <2>1 DEF Session
<1>8. Others(s, r, y)
  BY <1>5, <1>6 DEF Others, Alike
<1>9. Heeds(s, r, y)
  <2>1. Idle.at # "ended"
    BY DEF Idle
  <2> QED BY <1>5, <1>6, <2>1 DEF Heeds, Alike
<1>10. ASSUME NEW d \in Runs \ {r}
       PROVE /\ y[d] = exec[s][d] \/ (y[d] = Idle /\ exec[s][d].at = "ended")
             /\ d # Root /\ Parent(d) = r => y[d].at # "ended"
  BY <1>5, <1>6, ParentAbove
<1> QED BY <1>3, <1>6, <1>7, <1>8, <1>9, <1>10

(* What it started goes on by itself. *)
LEMMA AbortKept ==
  ASSUME NestedInv, record[Root] # "absent", NEW s \in Sessions, NEW r \in Runs, Abort(s, r)
  PROVE NestedInv'
<1>1. /\ exec[s][r].at \in {"launch", "reply", "finish", "work"}
      /\ KeepsRun /\ record' = record /\ ExecShape
  BY DEF Abort, storeVars, NestedInv
<1>2. exec[s][r].at \in Committing /\ exec[s][r].at # "idle"
  BY <1>1 DEF Committing
<1>3. PICK y : /\ Session(s, y) /\ Others(s, r, y)
               /\ \/ y[r].at = "cancel" /\ seen' = seen
                  \/ /\ y[r].at \in {"idle", "ended"} /\ y[r].answer # "completed"
                     /\ seen' = [seen EXCEPT ![r] = @ \ {s}]
  BY <1>1, Aborting
<1>7. UNCHANGED <<plan, record, main, attempts, frames, calls, retries>>
  BY <1>1 DEF KeepsRun, KeepsData, Keeps, historyVars
<1>8. /\ seen' = [d \in Runs |-> seen'[d]]
      /\ \A d \in Runs, t \in Sessions : t \in seen'[d] => t \in seen[d] \/ (t = s /\ d = r)
  <2>1. seen = [d \in Runs |-> seen[d]]
    BY DEF NestedInv, RecordShape
  <2> QED BY <1>3, <2>1
<1>9. Placed(r) /\ Traced(r) /\ (s \in seen[r] => record[r] \in {"running", "paused"})
  BY <1>2 DEF NestedInv, Claims, Knows
<1>10. Claims(r, y[r])
  BY <1>3, <1>9 DEF Claims
<1>11. s \in seen'[r] => Knows(r, y[r])
  <2>1. s \in seen'[r] => s \in seen[r]
    <3>1. seen = [d \in Runs |-> seen[d]]
      BY DEF NestedInv, RecordShape
    <3> QED BY <1>3, <3>1
  <2> QED BY <1>3, <1>9, <2>1 DEF Knows, Committing
<1>12. y[r].at # "work"
  BY <1>3
<1> QED BY <1>3, <1>7, <1>8, <1>10, <1>11, <1>12, Rests
-----------------------------------------------------------------------------
(* A recovery starts an execution of a run that there is. *)
LEMMA ResumeKept ==
  ASSUME NestedInv, record[Root] # "absent", NEW s \in Sessions, NEW r \in Runs, Resume(s, r)
  PROVE NestedInv'
<1>1. PICK e : e = [Idle EXCEPT !.at = "load"]
  OBVIOUS
<1>2. Executed(e) /\ e.at = "load"
  BY <1>1 DEF Executed, Idle
<1>3. TurnsInto(s, r, e)
  BY <1>1 DEF Resume, Begins, TurnsInto
<1>4. UNCHANGED <<plan, record, main, attempts, frames, calls, retries>> /\ seen' = seen
  BY DEF Resume, durableVars, storeVars, historyVars
<1>5. seen' = [d \in Runs |-> seen'[d]]
  BY <1>4 DEF NestedInv, RecordShape
<1>6. \A d \in Runs, t \in Sessions : t \in seen'[d] => t \in seen[d] \/ (t = s /\ d = r)
  BY <1>4
<1>7. Placed(r) /\ Traced(r)
  BY DEF Resume, NestedInv, Recorded
<1>8. Claims(r, e) /\ Knows(r, e)
  BY <1>2, <1>7, IdleRelies
<1> QED BY <1>2, <1>3, <1>4, <1>5, <1>6, <1>8, Turned

(* An interruption reaches the executions below. *)
LEMMA Interrupting ==
  ASSUME ExecShape, NEW s \in Sessions, NEW r \in Runs, Interrupt(s, r)
  PROVE \E y : /\ Session(s, y)
               /\ \A d \in Runs : Alike(y[d], exec[s][d]) /\ y[d].stop \in {exec[s][d].stop, "cancel", "interrupt"}
<1>1. exec[s] = [d \in Runs |-> exec[s][d]] /\ \A d \in Runs : Executed(exec[s][d])
  BY DEF ExecShape
<1>2. PICK x : x = exec[s][r]
  OBVIOUS
<1>3. PICK e : e = [x EXCEPT !.stop = "interrupt"]
  OBVIOUS
<1>4. e = [at |-> x.at, stop |-> "interrupt", answer |-> x.answer, hands |-> x.hands, error |-> x.error]
  BY <1>1, <1>2, <1>3, ExecutionWith
<1>5. Executed(e) /\ Alike(e, x) /\ e.stop = "interrupt"
  BY <1>4 DEF Executed, Alike
<1>6. PICK w : w = [exec[s] EXCEPT ![r] = e]
  OBVIOUS
<1>7. w[r] = e /\ \A d \in Runs \ {r} : w[d] = exec[s][d]
  BY <1>1, <1>6
<1>8. \A d \in Runs : Executed(w[d])
  BY <1>1, <1>5, <1>7
<1>9. PICK y : y = StopsBelow(w, r)
  OBVIOUS
<1>10. /\ y = [d \in Runs |-> y[d]]
       /\ \A d \in Runs : Executed(y[d]) /\ Alike(y[d], w[d]) /\ (y[d].stop = w[d].stop \/ y[d].stop = "cancel")
  BY <1>8, <1>9, StopsAlike
<1>11. \A d \in Runs : Alike(y[d], exec[s][d]) /\ y[d].stop \in {exec[s][d].stop, "cancel", "interrupt"}
  BY <1>2, <1>5, <1>7, <1>10 DEF Alike
<1>12. exec' = [exec EXCEPT ![s] = y]
  <2>1. exec' = [exec EXCEPT ![s] = StopsBelow([exec[s] EXCEPT ![r].stop = "interrupt"], r)]
    BY DEF Interrupt
  <2>2. [exec[s] EXCEPT ![r].stop = "interrupt"] = w
    BY <1>2, <1>3, <1>6
  <2> QED BY <1>9, <2>1, <2>2
<1> QED BY <1>10, <1>11, <1>12 DEF Session

(* An interruption, and a crash, which takes all executions of the session. *)
LEMMA StopsKept ==
  ASSUME NestedInv, record[Root] # "absent", NEW s \in Sessions, NEW r \in Runs, Interrupt(s, r) \/ Crash(s)
  PROVE NestedInv'
<1>0. ExecShape
  BY DEF NestedInv
<1>1. \E y : /\ Session(s, y) /\ Others(s, r, y)
             /\ y[r] = Idle \/ (Interrupt(s, r) /\ Alike(y[r], exec[s][r]))
  <2>1. CASE Interrupt(s, r)
    BY <1>0, <2>1, Interrupting DEF Others
  <2>2. CASE Crash(s)
    <3>1. PICK y : y = [d \in Runs |-> Idle]
      OBVIOUS
    <3>2. y = [d \in Runs |-> y[d]] /\ \A d \in Runs : y[d] = Idle
      BY <3>1
    <3>3. Executed(Idle)
      BY DEF Executed, Idle
    <3>4. exec' = [exec EXCEPT ![s] = y]
      BY <2>2, <3>1 DEF Crash
    <3>5. Session(s, y) /\ Others(s, r, y)
      BY <3>2, <3>3, <3>4 DEF Session, Others
    <3> QED BY <3>2, <3>5
  <2> QED BY <2>1, <2>2
<1>2. PICK y : /\ Session(s, y) /\ Others(s, r, y)
               /\ y[r] = Idle \/ (Interrupt(s, r) /\ Alike(y[r], exec[s][r]))
  BY <1>1
<1>3. UNCHANGED <<plan, record, main, attempts, frames, calls, retries>>
  BY DEF Interrupt, Crash, durableVars, storeVars, historyVars
<1>4. /\ seen' = [d \in Runs |-> seen'[d]]
      /\ \A d \in Runs, t \in Sessions : t \in seen'[d] => t \in seen[d]
  <2>1. CASE Interrupt(s, r)
    BY <2>1 DEF Interrupt, durableVars, storeVars, NestedInv, RecordShape
  <2>2. CASE Crash(s)
    BY <2>2 DEF Crash, Dropped
  <2> QED BY <2>1, <2>2
<1>5. Claims(r, y[r]) /\ (s \in seen'[r] => Knows(r, y[r]))
  <2>1. Claims(r, exec[s][r]) /\ (s \in seen[r] => Knows(r, exec[s][r]))
    BY DEF NestedInv
  <2>2. Idle.at = "idle"
    BY DEF Idle
  <2> QED BY <1>2, <1>4, <2>1, <2>2, IdleRelies, AlikeRelies
<1>6. y[r].at = "work" => exec[s][r].at = "work"
  BY <1>2 DEF Alike, Idle
<1> QED BY <1>2, <1>3, <1>4, <1>5, <1>6, Rests

(* A run is failed or cancelled from outside: whoever executes it finds a conflict. *)
LEMMA OutsideKept ==
  ASSUME NestedInv, record[Root] # "absent", NEW r \in Runs, DecideFail(r) \/ CancelRun(r)
  PROVE NestedInv'
<1>1. RecordShape /\ ExecShape /\ HasRoom(plan) /\ Recorded(r)
  BY DEF NestedInv, Rooted
<1>2. PICK status \in {"failed", "cancelled"}, m \in MainStates :
         /\ record[r] \in {"running", "paused"}
         /\ record' = [record EXCEPT ![r] = status] /\ seen' = [seen EXCEPT ![r] = {}]
         /\ main' = [main EXCEPT ![r] = m] /\ UNCHANGED <<attempts, frames, exec, plan, calls, retries>>
         /\ m \in {"failed", "cancelled", "succeeded"} /\ (m = "succeeded" => main[r] = "succeeded")
  <2>1. CASE DecideFail(r)
    BY <2>1 DEF DecideFail, Sets, Keeps, historyVars, MainStates
  <2>2. CASE CancelRun(r)
    <3>1. PICK m : m = IF main[r] = "succeeded" THEN main[r] ELSE "cancelled"
      OBVIOUS
    <3>2. m \in MainStates /\ m \in {"cancelled", "succeeded"} /\ (m = "succeeded" => main[r] = "succeeded")
      BY <3>1 DEF MainStates
    <3> QED BY <2>2, <3>1, <3>2 DEF CancelRun, Sets
  <2> QED BY <2>1, <2>2
<1>3. RecordShape'
  BY <1>1, <1>2 DEF RecordShape, RunStatus, Terminal
<1>4. /\ record'[r] = status /\ main'[r] = m /\ seen'[r] = {}
      /\ \A d \in Runs \ {r} : record'[d] = record[d] /\ main'[d] = main[d] /\ seen'[d] = seen[d]
  BY <1>1, <1>2 DEF RecordShape
<1>5. ExecShape' /\ \A d \in Runs : Certain(d)' = Certain(d)
  BY <1>1, <1>2 DEF ExecShape, Executed, Calling, Certain, Is
<1>6. ASSUME NEW d \in Runs
      PROVE Spent(d)' <= Spent(d) /\ Spent(d)' = Spent(d) /\ calls'[d] = calls[d] /\ retries'[d] = retries[d]
            /\ retries[d] \in Nat /\ attempts[d] \in Nat
  <2>1. calls[d] \in Nat /\ retries[d] \in Nat /\ attempts[d] \in Nat
    BY <1>1 DEF RecordShape
  <2>2. Certain(d) \in Nat
    BY <1>1, FS_CardinalityType DEF ExecShape, Certain
  <2> QED BY <1>2, <1>5, <2>1, <2>2 DEF Spent
<1>7. ASSUME NEW d \in Runs \ {r}
      PROVE Still(d)
  BY <1>2, <1>4, <1>6 DEF Still
<1>8. Extends(r)
  BY <1>2, <1>4, <1>6 DEF Extends, Framed
<1>9. Writes(r)
  BY <1>2, <1>7, <1>8 DEF Writes
<1>10. Placed(r) /\ Traced(r)
  BY <1>1, <1>2 DEF Recorded
<1>11. Placed(r)' /\ Traced(r)' /\ IsLeaf(r)' = IsLeaf(r) /\ IsForEach(r)' = IsForEach(r) /\ Items(r)' = Items(r)
  BY <1>1, <1>2, <1>3, <1>9, <1>10, PlanKept, TracedKept
<1>12. ASSUME ~IsLeaf(r), NEW i \in Items(r), m = "succeeded" \/ (frames[r] # <<>> /\ frames[r][i] = "completed")
       PROVE Done(r, i)'
  <2>1. Done(r, i)
    BY <1>1, <1>2, <1>12 DEF Recorded
  <2> QED BY <1>1, <1>9, <1>10, <1>12, <2>1, DoneKept
<1>13. IF IsLeaf(r) THEN Spent(r)' <= retries'[r] + (IF main'[r] \in {"absent", "ready"} THEN 0 ELSE 1)
       ELSE calls'[r] = 0
  <2>1. CASE IsLeaf(r)
    <3>1. Spent(r) <= retries[r] + 1
      BY <2>1, CallsKnown
    <3> QED BY <1>2, <1>4, <1>6, <2>1, <3>1
  <2>2. CASE ~IsLeaf(r)
    BY <1>1, <1>6, <2>2 DEF Recorded
  <2> QED BY <2>1, <2>2
<1>14. Recorded(r)'
  <2> HIDE DEF Spent
  <2>1. frames'[r] = <<>> \/ (IsForEach(r) /\ frames'[r] \in [Items(r) -> FrameStates])
    BY <1>1, <1>2 DEF Recorded, Framed
  <2> QED BY <1>2, <1>4, <1>11, <1>12, <1>13, <2>1 DEF Recorded, Framed
<1>15. ASSUME NEW t \in Sessions, NEW d \in Runs
       PROVE \/ /\ exec'[t][d] = exec[t][d]
                /\ t \in seen'[d] => t \in seen[d] /\ Still(d) /\ Spent(d)' <= Spent(d)
             \/ /\ Claims(d, exec[t][d])'
                /\ t \in seen'[d] => Knows(d, exec[t][d])'
  BY <1>2, <1>4, <1>6, <1>7
<1> QED BY <1>3, <1>5, <1>6, <1>9, <1>14, <1>15, Moves

(* An operator who decides to retry allows one more call. *)
LEMMA DecideRetryKept ==
  ASSUME NestedInv, record[Root] # "absent", NEW s \in Sessions, NEW r \in Runs, DecideRetry(s, r)
  PROVE NestedInv'
<1>1. RecordShape /\ ExecShape /\ HasRoom(plan) /\ Recorded(r)
  BY DEF NestedInv, Rooted
<1>2. PICK e : e = [Idle EXCEPT !.at = "boot"]
  OBVIOUS
<1>3. Executed(e) /\ e.at = "boot"
  BY <1>2 DEF Executed, Idle
<1>4. TurnsInto(s, r, e)
  BY <1>2 DEF DecideRetry, Begins, TurnsInto
<1>5. PICK y : Session(s, y) /\ y[r] = e /\ Others(s, r, y)
  BY <1>1, <1>3, <1>4, Turns
<1>6. /\ record[r] = "paused" /\ main[r] = "needs_attention"
      /\ UNCHANGED <<plan, record, main, attempts, frames, calls>>
      /\ seen' = [seen EXCEPT ![r] = @ \cup {s}] /\ retries' = [retries EXCEPT ![r] = @ + 1]
  BY DEF DecideRetry, LoadRun
<1>7. /\ ExecShape' /\ exec'[s] = y
      /\ \A t \in Sessions \ {s} : exec'[t] = exec[t]
  BY <1>1, <1>5, CallingMoves
<1>8. RecordShape'
  <2>1. retries' \in [Runs -> Nat]
    BY <1>1, <1>6 DEF RecordShape
  <2>2. seen' = [d \in Runs |-> seen'[d]]
    BY <1>1, <1>6 DEF RecordShape
  <2> QED BY <1>1, <1>6, <2>1, <2>2 DEF RecordShape
<1>9. ASSUME NEW d \in Runs
      PROVE /\ Still(d) /\ Extends(d) /\ Spent(d)' <= Spent(d)
            /\ retries'[d] = IF d = r THEN retries[d] + 1 ELSE retries[d]
            /\ retries[d] \in Nat /\ Spent(d)' \in Nat
  <2>1. calls[d] \in Nat /\ retries[d] \in Nat /\ attempts[d] \in Nat
        /\ retries'[d] = IF d = r THEN retries[d] + 1 ELSE retries[d]
    BY <1>1, <1>6 DEF RecordShape
  <2>2. y[d].at = "work" => exec[s][d].at = "work"
    BY <1>3, <1>5 DEF Others, Alike, Begun, Idle
  <2>3. Certain(d)' <= Certain(d) /\ Certain(d) \in Nat /\ Certain(d)' \in Nat
    BY <1>1, <1>5, <2>2, CallingMoves
  <2>4. Spent(d)' <= Spent(d) /\ Spent(d)' \in Nat
    BY <1>6, <2>1, <2>3 DEF Spent
  <2> QED BY <1>6, <2>1, <2>4 DEF Still, Extends, Framed
<1>10. Writes(r)
  BY <1>6, <1>9 DEF Writes
<1>11. Recorded(r)'
  BY <1>1, <1>7, <1>8, <1>9, <1>10, RecordedKept
<1>12. Claims(r, e)' /\ Knows(r, e)'
  <2>1. Placed(r) /\ Traced(r)
    BY <1>1, <1>6 DEF Recorded
  <2>2. Claims(r, e)
    BY <1>3, <2>1 DEF Claims
  <2>3. Claims(r, e)'
    BY <1>1, <1>8, <1>10, <2>2, ClaimsKept
  <2>4. IsLeaf(r)' = IsLeaf(r)
    BY <1>6, PlanKept
  <2>5. IsLeaf(r) => Spent(r)' <= retries'[r]
    <3>1. IsLeaf(r) => Spent(r) <= retries[r] + 1
      BY CallsKnown
    <3>2. Spent(r) \in Nat
      BY CallsKnown
    <3> QED BY <1>9, <3>1, <3>2
  <2>6. Knows(r, e)'
    BY <1>3, <1>6, <2>4, <2>5 DEF Knows, Committing
  <2> QED BY <2>3, <2>6
<1>13. ASSUME NEW t \in Sessions, NEW d \in Runs
       PROVE \/ /\ exec'[t][d] = exec[t][d]
                /\ t \in seen'[d] => t \in seen[d] /\ Still(d) /\ Spent(d)' <= Spent(d)
             \/ /\ Claims(d, exec[t][d])'
                /\ t \in seen'[d] => Knows(d, exec[t][d])'
  <2>0. \A u \in Sessions, v \in Runs : u \in seen'[v] => u \in seen[v] \/ (u = s /\ v = r)
    BY <1>1, <1>6 DEF RecordShape
  <2>1. CASE t # s
    BY <1>7, <1>9, <2>0, <2>1
  <2>2. CASE t = s /\ d = r
    <3>1. exec'[t][d] = e
      BY <1>5, <1>7, <2>2
    <3> QED BY <1>12, <2>2, <3>1 DEF Claims, Knows
  <2>3. CASE t = s /\ d # r
    <3>1. PICK g : g = y[d]
      OBVIOUS
    <3>2. Claims(d, g)' /\ (s \in seen[d] => Knows(d, g)')
      BY <1>5, <1>7, <1>8, <1>9, <1>10, <2>3, <3>1, OthersRely
    <3>3. exec'[t][d] = g /\ (s \in seen'[d] => s \in seen[d])
      BY <1>7, <2>0, <2>3, <3>1
    <3> QED BY <2>3, <3>2, <3>3 DEF Claims, Knows
  <2> QED BY <2>1, <2>2, <2>3
<1> QED BY <1>7, <1>8, <1>9, <1>10, <1>11, <1>13, Moves

(* Before the root is started nothing runs and nothing is recorded. *)
LEMMA NothingYet ==
  ASSUME NestedInv, record[Root] = "absent"
  PROVE \A r \in Runs : /\ record[r] = "absent" /\ main[r] = "absent" /\ frames[r] = <<>> /\ calls[r] = 0
                        /\ \A s \in Sessions : exec[s][r] = Idle
BY DEF NestedInv, Rooted, Recorded

(* A root run is started, and there is room for its tree. *)
LEMMA StartKept ==
  ASSUME NestedInv, NEW s \in Sessions, StartRoot(s)
  PROVE NestedInv'
<1>0. Root \in Runs
  BY RunsAssumption DEF RunsAssumption
<1>1. RecordShape /\ ExecShape /\ record[Root] = "absent"
  BY DEF NestedInv, StartRoot
<1>2. PICK e : e = [Idle EXCEPT !.at = "boot"]
  OBVIOUS
<1>3. Executed(e) /\ e.at = "boot"
  BY <1>2 DEF Executed, Idle
<1>4. exec' = [exec EXCEPT ![s] = [exec[s] EXCEPT ![Root] = e]]
  BY <1>2 DEF StartRoot, Begins
<1>5. /\ \A d \in Runs : exec'[s][d] = IF d = Root THEN e ELSE Idle
      /\ \A t \in Sessions \ {s}, d \in Runs : exec'[t][d] = Idle
  BY <1>0, <1>1, <1>4, NothingYet DEF ExecShape
<1>6. /\ record' = [record EXCEPT ![Root] = "running"] /\ seen' = [seen EXCEPT ![Root] = {s}]
      /\ main' = [main EXCEPT ![Root] = "ready"] /\ HasRoom(plan')
      /\ UNCHANGED <<attempts, frames, calls, retries>>
  BY DEF StartRoot, CreateRun, Sets, historyVars
<1>7. RecordShape'
  BY <1>1, <1>6 DEF RecordShape, RunStatus, Terminal, MainStates
<1>8. ASSUME NEW d \in Runs
      PROVE Calling(d)' = {} /\ IsFiniteSet(Calling(d)') /\ Spent(d)' = 0
  <2>1. \A t \in Sessions : exec'[t][d].at # "work"
    BY <1>3, <1>5 DEF Idle
  <2>2. Calling(d)' = {}
    BY <2>1 DEF Calling, Is
  <2>3. calls'[d] = 0
    BY <1>1, <1>6, NothingYet
  <2> QED BY <2>2, <2>3, FS_EmptySet DEF Spent, Certain
<1>9. ExecShape'
  <2>1. exec' = [t \in Sessions |-> exec'[t]]
    BY <1>1, <1>4 DEF ExecShape
  <2>2. ASSUME NEW t \in Sessions
        PROVE exec'[t] = [d \in Runs |-> exec'[t][d]] /\ \A d \in Runs : Executed(exec'[t][d])
    <3>1. exec'[t] = [d \in Runs |-> exec'[t][d]]
      BY <1>1, <1>4 DEF ExecShape
    <3>2. Executed(Idle)
      BY DEF Executed, Idle
    <3> QED BY <1>3, <1>5, <3>1, <3>2
  <2> QED BY <1>8, <2>1, <2>2 DEF ExecShape, Executed
<1>10. /\ record'[Root] = "running" /\ main'[Root] = "ready"
       /\ \A d \in Runs \ {Root} : record'[d] = "absent" /\ main'[d] = "absent"
       /\ \A d \in Runs : frames'[d] = <<>> /\ calls'[d] = 0 /\ retries'[d] \in Nat
  BY <1>0, <1>1, <1>6, NothingYet DEF RecordShape
<1>11. Rooted'
  BY <1>6, <1>10 DEF Rooted, HasRoom, IsIn
<1>12. Placed(Root)' /\ Traced(Root)'
  <2>1. Len(Root) = 0 /\ 1 .. Len(Root) = {}
    BY DEF Root
  <2> QED BY <2>1 DEF Placed, IsIn, Traced
<1>13. ASSUME NEW d \in Runs
       PROVE Recorded(d)'
  <2> HIDE DEF Spent
  <2>1. CASE d = Root
    BY <1>8, <1>10, <1>12, <2>1 DEF Recorded
  <2>2. CASE d # Root
    BY <1>8, <1>10, <2>2 DEF Recorded
  <2> QED BY <2>1, <2>2
<1>14. ASSUME NEW t \in Sessions, NEW d \in Runs
       PROVE Claims(d, exec[t][d])' /\ (t \in seen'[d] => Knows(d, exec[t][d])')
  <2>1. CASE t = s /\ d = Root
    <3>1. exec'[t][d] = e
      BY <1>0, <1>5, <2>1
    <3> QED BY <1>3, <1>10, <1>12, <2>1, <3>1 DEF Claims, Knows, Committing
  <2>2. CASE ~(t = s /\ d = Root)
    <3>1. exec'[t][d].at = "idle"
      BY <1>5, <2>2 DEF Idle
    <3> QED BY <3>1 DEF Claims, Knows, Committing
  <2> QED BY <2>1, <2>2
<1> QED BY <1>7, <1>9, <1>11, <1>13, <1>14 DEF NestedInv

(* Nothing is recorded and nothing runs initially. *)
LEMMA NestedStarts ==
  ASSUME NestedInit
  PROVE NestedInv
<1>1. /\ record = [r \in Runs |-> "absent"] /\ seen = [r \in Runs |-> {}] /\ main = [r \in Runs |-> "absent"]
      /\ attempts = [r \in Runs |-> 0] /\ frames = [r \in Runs |-> <<>>] /\ calls = [r \in Runs |-> 0]
      /\ retries = [r \in Runs |-> 0] /\ exec = [s \in Sessions |-> [r \in Runs |-> Idle]]
  BY DEF NestedInit, StoreInit
<1>2. RecordShape
  BY <1>1 DEF RecordShape, RunStatus, Terminal, MainStates
<1>3. \A s \in Sessions, r \in Runs : exec[s][r] = Idle /\ exec[s][r].at = "idle"
  BY <1>1 DEF Idle
<1>4. ASSUME NEW r \in Runs
      PROVE IsFiniteSet(Calling(r)) /\ Spent(r) = 0
  <2>1. Calling(r) = {}
    BY <1>3 DEF Calling, Is
  <2> QED BY <1>1, <2>1, FS_EmptySet DEF Spent, Certain
<1>5. ExecShape
  <2>1. Executed(Idle)
    BY DEF Executed, Idle
  <2> QED BY <1>1, <1>3, <1>4, <2>1 DEF ExecShape
<1>6. Rooted
  BY <1>1, <1>3, RunsAssumption DEF Rooted, RunsAssumption
<1>7. \A r \in Runs : Recorded(r)
  <2> HIDE DEF Spent
  <2> QED BY <1>1, <1>4 DEF Recorded
<1>8. \A s \in Sessions, r \in Runs : Claims(r, exec[s][r]) /\ (s \in seen[r] => Knows(r, exec[s][r]))
  BY <1>3, IdleRelies
<1> QED BY <1>2, <1>5, <1>6, <1>7, <1>8 DEF NestedInv

(* Steps that are not about runs leave them as they are. *)
LEMMA NestedKept ==
  ASSUME NestedInv, UNCHANGED nestedVars
  PROVE NestedInv'
<1>1. UNCHANGED <<plan, record, seen, main, attempts, frames, exec, calls, retries>>
  BY DEF nestedVars, durableVars, storeVars, historyVars
<1>2. RecordShape' /\ ExecShape' /\ Rooted'
  BY <1>1 DEF NestedInv, RecordShape, ExecShape, Executed, Calling, Is, Rooted, HasRoom, IsIn
<1>3. ASSUME NEW r \in Runs
      PROVE /\ Recorded(r)' = Recorded(r)
            /\ \A e : (Claims(r, e)' = Claims(r, e)) /\ (Knows(r, e)' = Knows(r, e))
  <2>1. /\ Placed(r)' = Placed(r) /\ IsLeaf(r)' = IsLeaf(r) /\ IsForEach(r)' = IsForEach(r) /\ Items(r)' = Items(r)
    BY <1>1, PlanKept
  <2>2. Spent(r)' = Spent(r)
    BY <1>1 DEF Spent, Certain, Calling, Is
  <2>3. Traced(r)' = Traced(r) /\ Framed(r)' = Framed(r) /\ \A i : Done(r, i)' = Done(r, i)
    BY <1>1 DEF Traced, Framed, Done, IsForEach, Items, Main
  <2>4. \A h : Working(r, h)' = Working(r, h)
    BY <1>1, <2>1, <2>3 DEF Working, WorksOn
  <2> HIDE DEF Spent
  <2> QED BY <1>1, <2>1, <2>2, <2>3, <2>4 DEF Recorded, Claims, Knows
<1> QED BY <1>1, <1>2, <1>3 DEF NestedInv
-----------------------------------------------------------------------------
(* Whatever an execution does keeps the invariant. *)
LEMMA SessionKept ==
  ASSUME NestedInv, NEW s \in Sessions, SessionStep(s)
  PROVE NestedInv'
<1>1. PICK r \in Runs : InFlight(exec[s][r]) /\ (RunStep(s, r) \/ (~IsLeaf(r) /\ ForEachStep(s, r)))
  BY DEF SessionStep
<1>2. record[Root] # "absent"
  BY <1>1, NothingYet DEF InFlight, Idle
<1>3. CASE RunStep(s, r)
  <2>1. CASE Load(s, r) \/ Create(s, r) \/ Boot(s, r) \/ Settle(s, r)
    BY <1>2, <2>1, LoadKept, CreateKept, BootKept, SettleKept
  <2>2. CASE Launch(s, r) \/ CallHost(s, r) \/ Reply(s, r, TRUE) \/ LoseCommit(s, r)
    BY <1>2, <2>2, LaunchKept, CallHostKept, ReplyKept
  <2>3. CASE Converge(s, r) \/ Abort(s, r)
    BY <1>2, <2>3, ConvergeKept, AbortKept
  <2>4. CASE CommitPause(s, r) \/ Fail(s, r) \/ Yield(s, r) \/ FinishCancelled(s, r) \/ Complete(s, r)
    BY <1>2, <2>4, FinishesKept
  <2> QED BY <1>3, <2>1, <2>2, <2>3, <2>4 DEF RunStep
<1>4. CASE ~IsLeaf(r) /\ ForEachStep(s, r)
  <2>1. PICK i \in Items(r) : Take(s, r, i) \/ Mark(s, r, i) \/ Gather(s, r, i) \/ Close(s, r, i)
    BY <1>4 DEF ForEachStep
  <2>2. CASE Take(s, r, i)
    <3>1. IsForEach(r) /\ Iterating(s, r) /\ Passes(s, r, i, "mark") /\ UNCHANGED storeVars /\ KeepsRun
      BY <2>2 DEF Take
    <3> QED BY <1>2, <3>1, TakeKept
  <2>3. CASE Mark(s, r, i) \/ Gather(s, r, i) \/ Close(s, r, i)
    BY <1>2, <2>3, MarkKept, GatherKept, CloseKept
  <2> QED BY <2>1, <2>2, <2>3
<1> QED BY <1>1, <1>3, <1>4

(* So does whatever starts, stops, repairs or decides them. *)
LEMMA ExecutingKept ==
  ASSUME NestedInv, Executing
  PROVE NestedInv'
<1>0. Root \in Runs
  BY RunsAssumption DEF RunsAssumption
<1>1. ASSUME NEW s \in Sessions, Start(s)
      PROVE NestedInv'
  BY <1>1, StartKept DEF Start
<1>2. ASSUME NEW s \in Sessions, Step(s)
      PROVE NestedInv'
  BY <1>2, SessionKept DEF Step
<1>3. ASSUME NEW s \in Sessions, NEW r \in Runs, Resume(s, r)
      PROVE NestedInv'
  <2>1. record[Root] # "absent"
    BY <1>3, NothingYet DEF Resume
  <2> QED BY <1>3, <2>1, ResumeKept
<1>4. ASSUME NEW s \in Sessions, NEW r \in Runs, Reply(s, r, FALSE)
      PROVE NestedInv'
  <2>1. record[Root] # "absent"
    BY <1>4, NothingYet DEF Reply, Is, Idle
  <2> QED BY <1>4, <2>1, ReplyKept
<1>5. ASSUME NEW s \in Sessions, NEW r \in Runs, Interrupt(s, r) \/ Crash(s)
      PROVE NestedInv'
  <2>1. record[Root] # "absent"
    BY <1>5, NothingYet DEF Interrupt, InFlight, Crash, Asleep, Is, Idle
  <2> QED BY <1>5, <2>1, StopsKept
<1>6. ASSUME NEW s \in Sessions, NEW r \in Runs, DecideRetry(s, r)
      PROVE NestedInv'
  <2>1. record[Root] # "absent"
    BY <1>6, NothingYet DEF DecideRetry
  <2> QED BY <1>6, <2>1, DecideRetryKept
<1>7. ASSUME NEW r \in Runs, DecideFail(r) \/ CancelRun(r)
      PROVE NestedInv'
  <2>1. record[Root] # "absent"
    BY <1>7, NothingYet DEF DecideFail, CancelRun
  <2> QED BY <1>7, <2>1, OutsideKept
<1>8. ASSUME NEW s \in Sessions, ResumeRoot(s) \/ LeaseExpires(s) \/ RecoverChild(s) \/ HostFails(s)
      PROVE NestedInv'
  BY <1>0, <1>3, <1>4, <1>8 DEF ResumeRoot, LeaseExpires, RecoverChild, HostFails
<1>9. ASSUME NEW s \in Sessions, Interrupted(s) \/ Crashed(s) \/ Decide(s)
      PROVE NestedInv'
  BY <1>0, <1>5, <1>6, <1>9 DEF Interrupted, Crashed, Decide
<1>10. CASE Cancelled \/ Reject
  BY <1>7, <1>10 DEF Cancelled, Reject
<1> QED BY <1>1, <1>2, <1>8, <1>9, <1>10 DEF Executing

(* The invariant of the tree of runs: what each execution relies on is so, for any number
   of sessions that crash, lose commits, recover parents and children at the same time. *)
THEOREM NestedCorrect == Spec => []NestedInv
<1>1. Init => NestedInv
  BY NestedStarts DEF Init
<1>2. NestedInv /\ [Next]_vars => NestedInv'
  <2> SUFFICES ASSUME NestedInv, [Next]_vars
               PROVE NestedInv'
    OBVIOUS
  <2>1. CASE Studying
    BY <2>1, NestedKept DEF Studying
  <2>2. CASE Authoring
    BY <2>2, NestedKept DEF Authoring
  <2>3. CASE Binding
    BY <2>3, NestedKept DEF Binding
  <2>4. CASE Executing
    BY <2>4, ExecutingKept
  <2>5. CASE UNCHANGED vars
    BY <2>5, NestedKept DEF vars
  <2> QED BY <2>1, <2>2, <2>3, <2>4, <2>5 DEF Next
<1> QED BY <1>1, <1>2, PTL DEF Spec

(* A durable frame or a run whose call is done never reports an item whose child is not
   durably completed (nodes.ts, engine.ts): no crash, lost commit or pause makes an outcome up. *)
THEOREM ParentsTellTheTruth == Spec => []ParentsTellTruth
<1>1. NestedInv => ParentsTellTruth
  BY DEF NestedInv, Recorded, Done, ParentsTellTruth
<1> QED BY <1>1, NestedCorrect, PTL

(* Whatever child run exists, its parent has durably launched the node that calls it and
   marked its item: a recovery of the parent finds it again.                           *)
THEOREM ChildrenAreTraced == Spec => []ChildIsTraced
<1>1. NestedInv => ChildIsTraced
  BY DEF NestedInv, Recorded, Traced, Exists, ChildIsTraced
<1> QED BY <1>1, NestedCorrect, PTL

(* A Host call that must not be retried is made once per item, and once more for each
   decision of an operator.                                                         *)
THEOREM HostRunsOncePerItem == Spec => []ItemsRunOnce
<1>1. NestedInv => ItemsRunOnce
  <2> SUFFICES ASSUME NestedInv, NEW r \in Runs
               PROVE calls[r] <= 1 + retries[r]
    BY DEF ItemsRunOnce
  <2>1. calls[r] \in Nat /\ Certain(r) \in Nat /\ retries[r] \in Nat
    BY FS_CardinalityType DEF NestedInv, RecordShape, ExecShape, Certain
  <2>2. CASE IsLeaf(r)
    <3>1. Spent(r) <= retries[r] + 1
      BY <2>2, CallsKnown
    <3> QED BY <2>1, <3>1 DEF Spent
  <2>3. CASE ~IsLeaf(r)
    <3>1. calls[r] = 0
      BY <2>3 DEF NestedInv, Recorded
    <3> QED BY <2>1, <3>1
  <2> QED BY <2>2, <2>3
<1> QED BY <1>1, NestedCorrect, PTL
-----------------------------------------------------------------------------
(* Where executions are, and why they stop. *)
Places == {"idle", "load", "create", "pause", "boot", "launch", "work", "reply", "settle",
           "failing", "yield", "cancel", "finish", "ended"}
Stops == {"none", "cancel", "interrupt"}
Placeable(e) == e.at \in Places /\ e.stop \in Stops

(* An execution that is over has a parent that waits for its answer. *)
WaitInv == /\ seen \in [Runs -> SUBSET Actors]
           /\ \A s \in Sessions, r \in Runs : Placeable(exec[s][r]) /\ (Is(s, r, "ended") => Waiting(s, r))

(* What a session does to the sequence numbers. *)
Renumbers(s, r) == \/ seen' = seen
              \/ seen' = [seen EXCEPT ![r] = {s}]
              \/ seen' = [seen EXCEPT ![r] = @ \cup {s}]
              \/ seen' = [seen EXCEPT ![r] = @ \ {s}]

LEMMA SeenKept ==
  ASSUME WaitInv, NEW s \in Sessions, NEW r \in Runs, Renumbers(s, r)
  PROVE seen' \in [Runs -> SUBSET Actors]
<1>1. s \in Actors /\ seen \in [Runs -> SUBSET Actors]
  BY RunsAssumption DEF RunsAssumption, WaitInv
<1>2. {s} \in SUBSET Actors /\ seen[r] \cup {s} \in SUBSET Actors /\ seen[r] \ {s} \in SUBSET Actors
  BY <1>1
<1>3. CASE seen' = seen
  BY <1>1, <1>3
<1>4. CASE seen' = [seen EXCEPT ![r] = {s}]
  BY <1>1, <1>2, <1>4
<1>5. CASE seen' = [seen EXCEPT ![r] = @ \cup {s}]
  BY <1>1, <1>2, <1>5
<1>6. CASE seen' = [seen EXCEPT ![r] = @ \ {s}]
  BY <1>1, <1>2, <1>6
<1> QED BY <1>3, <1>4, <1>5, <1>6 DEF Renumbers

(* An execution below the root is a child of its parent, for one of its items. *)
LEMMA Awaited ==
  ASSUME NestedInv, NEW s \in Sessions, NEW d \in Runs \ {Root}, exec[s][d].at # "idle"
  PROVE /\ Parent(d) \in Runs \ {d} /\ ~IsLeaf(Parent(d)) /\ Item(d) \in Items(Parent(d))
        /\ d = Child(Parent(d), Item(d))
<1>1. Placed(d) /\ Traced(d)
  BY DEF NestedInv, Claims
<1>2. Parent(d) \in Runs \ {d}
  BY <1>1, ParentAbove DEF Traced
<1>3. d \in Seq(Nat) /\ d # <<>>
  BY RunsAssumption DEF RunsAssumption, Root
<1>4. PICK n \in Nat : n = Len(d) - 1 /\ Len(d) = n + 1
  BY <1>3
<1>5. PICK p \in Seq(Nat) : p = Parent(d) /\ Len(p) = n /\ \A k \in 1 .. n : p[k] = d[k]
  <2>1. SubSeq(d, 1, n) \in Seq(Nat)
    BY <1>3, <1>4
  <2>2. Len(SubSeq(d, 1, n)) = n
    BY <1>3, <1>4
  <2>3. \A k \in 1 .. n : SubSeq(d, 1, n)[k] = d[k]
    BY <1>3, <1>4
  <2> QED BY <1>4, <2>1, <2>2, <2>3 DEF Parent
<1>6. Item(d) = d[n + 1] /\ n + 1 \in 1 .. Len(d) /\ d[n + 1] \in Nat
  BY <1>3, <1>4 DEF Item
<1>7. plan[n + 1].main.with # <<>> /\ d[n + 1] \in ItemsOf(plan[n + 1].main)
  BY <1>1, <1>6 DEF Placed, IsIn
<1>8. ~IsLeaf(p) /\ Item(d) \in Items(p)
  BY <1>5, <1>6, <1>7 DEF IsLeaf, Items, Main
<1>9. d = Append(p, d[n + 1])
  <2>1. PICK q : q = Append(p, d[n + 1])
    OBVIOUS
  <2>2. q \in Seq(Nat) /\ Len(q) = n + 1
    BY <1>5, <1>6, <2>1
  <2>3. \A k \in 1 .. n : q[k] = p[k]
    BY <1>5, <1>6, <2>1
  <2>4. q[n + 1] = d[n + 1]
    BY <1>5, <1>6, <2>1
  <2>5. \A k \in 1 .. Len(d) : q[k] = d[k]
    BY <1>4, <1>5, <2>3, <2>4
  <2> QED BY <1>3, <1>4, <2>1, <2>2, <2>5, SeqEqual
<1> QED BY <1>2, <1>5, <1>6, <1>8, <1>9 DEF Child

(* An answer is heard as long as its parent works on. *)
LEMMA Hears ==
  ASSUME NestedInv, WaitInv, NEW s \in Sessions, NEW r \in Runs, NEW y, Session(s, y), Heeds(s, r, y), Renumbers(s, r),
         \A d \in Runs : Placeable(y[d]),
         y[r].at = "ended" => Waiting(s, r) /\ Parent(r) \in Runs /\ Alike(y[Parent(r)], exec[s][Parent(r)]),
         \A d \in Runs \ {r} : d # Root /\ Parent(d) = r /\ y[d].at = "ended" /\ Waiting(s, d)
                                 => y[r].at = "work" /\ y[r].hands[Item(d)] = "child"
  PROVE WaitInv'
<1>1. exec'[s] = y /\ \A t \in Sessions \ {s} : exec'[t] = exec[t]
  BY CallingMoves DEF NestedInv
<1>2. ASSUME NEW d \in Runs, y[d].at = "ended"
      PROVE d # Root /\ Parent(d) \in Runs /\ y[Parent(d)].at = "work" /\ y[Parent(d)].hands[Item(d)] = "child"
  <2>1. CASE d = r
    BY <1>2, <2>1 DEF Waiting, Is, Alike
  <2>2. CASE d # r
    <3>1. exec[s][d].at = "ended"
      BY <1>2, <2>2 DEF Heeds
    <3>2. Waiting(s, d)
      BY <3>1 DEF WaitInv, Is
    <3>3. d # Root /\ exec[s][Parent(d)].at = "work" /\ exec[s][Parent(d)].hands[Item(d)] = "child"
      BY <3>2 DEF Waiting, Is
    <3>4. Parent(d) \in Runs
      BY <3>1, <3>3, Awaited
    <3>5. CASE Parent(d) = r
      BY <1>2, <2>2, <3>2, <3>3, <3>4, <3>5
    <3>6. CASE Parent(d) # r
      <4>1. Alike(y[Parent(d)], exec[s][Parent(d)])
        BY <1>2, <2>2, <3>3, <3>4, <3>6 DEF Heeds
      <4> QED BY <3>3, <3>4, <4>1 DEF Alike
    <3> QED BY <3>5, <3>6
  <2> QED BY <2>1, <2>2
<1>3. ASSUME NEW t \in Sessions, NEW d \in Runs
      PROVE Placeable(exec[t][d])' /\ (Is(t, d, "ended") => Waiting(t, d))'
  <2>1. CASE t = s
    <3>1. Placeable(exec[t][d])'
      BY <1>1, <2>1 DEF Placeable
    <3>2. (Is(t, d, "ended") => Waiting(t, d))'
      BY <1>1, <1>2, <2>1 DEF Is, Waiting
    <3> QED BY <3>1, <3>2
  <2>2. CASE t # s
    <3>1. Placeable(exec[t][d]) /\ (Is(t, d, "ended") => Waiting(t, d))
      BY DEF WaitInv
    <3> QED BY <1>1, <2>2, <3>1 DEF Placeable, Is, Waiting
  <2> QED BY <2>1, <2>2
<1>4. seen' \in [Runs -> SUBSET Actors]
  BY SeenKept
<1> QED BY <1>3, <1>4 DEF WaitInv

(* One execution changes and gives no answer up that it waits for. *)
LEMMA TurnHeard ==
  ASSUME NestedInv, WaitInv, NEW s \in Sessions, NEW r \in Runs, NEW e, Executed(e), TurnsInto(s, r, e), Renumbers(s, r),
         Placeable(e), e.at = "ended" => exec[s][r].at # "idle" /\ Waiting(s, r),
         \A d \in Runs \ {r} : d # Root /\ Parent(d) = r /\ exec[s][d].at = "ended" /\ Waiting(s, d)
                                 => e.at = "work" /\ e.hands[Item(d)] = "child"
  PROVE WaitInv'
<1>1. PICK y : Session(s, y) /\ y[r] = e /\ Heeds(s, r, y) /\ \A d \in Runs \ {r} : y[d] = exec[s][d]
  BY Turns DEF NestedInv
<1>2. \A d \in Runs : Placeable(y[d])
  BY <1>1 DEF WaitInv
<1>3. y[r].at = "ended" => Waiting(s, r) /\ Parent(r) \in Runs /\ Alike(y[Parent(r)], exec[s][Parent(r)])
  <2>1. ASSUME y[r].at = "ended"
        PROVE r # Root /\ Parent(r) \in Runs \ {r}
    BY <1>1, <2>1, Awaited DEF Waiting
  <2> QED BY <1>1, <2>1 DEF Alike
<1>4. \A d \in Runs \ {r} : d # Root /\ Parent(d) = r /\ y[d].at = "ended" /\ Waiting(s, d)
                              => y[r].at = "work" /\ y[r].hands[Item(d)] = "child"
  BY <1>1
<1> QED BY <1>1, <1>2, <1>3, <1>4, Hears

(* While an execution does not work nobody waits for it. *)
LEMMA RestHeard ==
  ASSUME NestedInv, WaitInv, NEW s \in Sessions, NEW r \in Runs, exec[s][r].at # "work",
         NEW e, Executed(e), TurnsInto(s, r, e), Renumbers(s, r),
         Placeable(e), e.at = "ended" => exec[s][r].at # "idle" /\ Waiting(s, r)
  PROVE WaitInv'
<1>1. \A d \in Runs \ {r} : ~(d # Root /\ Parent(d) = r /\ exec[s][d].at = "ended" /\ Waiting(s, d))
  BY DEF Waiting, Is
<1> QED BY <1>1, TurnHeard

LEMMA GoHeard ==
  ASSUME NestedInv, WaitInv, NEW s \in Sessions, NEW r \in Runs, exec[s][r].at # "work",
         NEW pc \in Places \ {"ended"}, Goto(s, r, pc), Renumbers(s, r)
  PROVE WaitInv'
<1>1. ExecShape
  BY DEF NestedInv
<1>2. PICK e : Executed(e) /\ TurnsInto(s, r, e) /\ e.at = pc /\ e.stop = exec[s][r].stop
  BY <1>1, GoesOn
<1>3. Placeable(e)
  BY <1>2 DEF WaitInv, Placeable
<1> QED BY <1>2, <1>3, RestHeard

LEMMA EndHeard ==
  ASSUME NestedInv, WaitInv, NEW s \in Sessions, NEW r \in Runs, exec[s][r].at \notin {"work", "idle"},
         NEW answer, EndsIn(s, r, answer), Renumbers(s, r)
  PROVE WaitInv'
<1>1. PICK e : TurnsInto(s, r, e) /\ Answers(e, answer) /\ e.stop = "none" /\ (e.at = "ended" => Waiting(s, r))
  BY Ending
<1>2. Executed(e) /\ Placeable(e)
  BY <1>1 DEF Answers, Placeable, Places, Stops
<1> QED BY <1>1, <1>2, RestHeard

LEMMA BeginHeard ==
  ASSUME NestedInv, WaitInv, NEW s \in Sessions, NEW r \in Runs, exec[s][r].at # "work",
         NEW pc \in {"load", "boot"}, Begins(s, r, pc), Renumbers(s, r)
  PROVE WaitInv'
<1>1. PICK e : e = [Idle EXCEPT !.at = pc]
  OBVIOUS
<1>2. Executed(e) /\ Placeable(e) /\ e.at # "ended"
  BY <1>1 DEF Executed, Idle, Placeable, Places, Stops
<1>3. TurnsInto(s, r, e)
  BY <1>1 DEF Begins, TurnsInto
<1> QED BY <1>2, <1>3, RestHeard

(* A composite passes an item that no child holds. *)
LEMMA PassHeard ==
  ASSUME NestedInv, WaitInv, NEW s \in Sessions, NEW r \in Runs, Iterating(s, r), NEW i \in Items(r),
         exec[s][r].hands[i] # "child", NEW stage, Passes(s, r, i, stage), Renumbers(s, r)
  PROVE WaitInv'
<1>1. exec[s][r].at = "work" /\ exec[s][r].hands \in [Items(r) -> HandStages] /\ ExecShape
  BY AtWork DEF Working, WorksOn, NestedInv
<1>2. PICK e : TurnsInto(s, r, e) /\ HandsOver(e, exec[s][r], i, stage)
  BY <1>1, Passing
<1>3. /\ Executed(e) /\ e.at = "work" /\ e.stop = exec[s][r].stop
      /\ e.hands = [exec[s][r].hands EXCEPT ![i] = stage]
  BY <1>1, <1>2 DEF HandsOver
<1>4. Placeable(e)
  BY <1>3 DEF WaitInv, Placeable, Places
<1>5. ASSUME NEW d \in Runs \ {r}, d # Root, Parent(d) = r, Waiting(s, d)
      PROVE e.hands[Item(d)] = "child"
  <2>1. exec[s][r].hands[Item(d)] = "child"
    BY <1>5 DEF Waiting
  <2>2. Item(d) # i
    BY <2>1
  <2> QED BY <1>1, <1>3, <2>1, <2>2
<1> QED BY <1>2, <1>3, <1>4, <1>5, TurnHeard

LEMMA LaunchHeard ==
  ASSUME NestedInv, WaitInv, NEW s \in Sessions, NEW r \in Runs, Launch(s, r)
  PROVE WaitInv'
<1>1. ExecShape /\ HasRoom(plan) /\ exec[s][r].at = "launch" /\ Renumbers(s, r)
  <2>1. record[Root] # "absent"
    BY NothingYet DEF Launch, Is, Idle
  <2> QED BY <2>1 DEF NestedInv, Rooted, Launch, Is, Renumbers, Commit
<1>2. PICK e : /\ Executed(e) /\ e.at = (IF ~IsLeaf(r) /\ TooDeep(r) THEN "failing" ELSE "work")
               /\ e.stop = exec[s][r].stop /\ e.hands = Hands(r)
               /\ \/ TurnsInto(s, r, e)
                  \/ ~IsLeaf(r) /\ ~IsForEach(r) /\ ~TooDeep(r) /\ StartsChild(s, r, e, Child(r, 1), "none")
  BY <1>1, Launching
<1>3. Placeable(e) /\ e.at # "ended"
  BY <1>2 DEF WaitInv, Placeable, Places
<1>4. CASE TurnsInto(s, r, e)
  BY <1>1, <1>2, <1>3, <1>4, RestHeard
<1>5. CASE ~IsLeaf(r) /\ ~IsForEach(r) /\ StartsChild(s, r, e, Child(r, 1), "none")
  <2>1. 1 \in Items(r) /\ Placed(r)
    BY <1>1, <1>5 DEF Items, ItemsOf, IsForEach, NestedInv, Claims
  <2>2. PICK c \in Runs : c = Child(r, 1) /\ c # r /\ r \notin Under(c)
    BY <1>1, <1>5, <2>1, ChildPlaced, ChildNamed, ChildBelow
  <2>3. PICK y : /\ Session(s, y) /\ y[r] = e /\ Heeds(s, r, y)
                 /\ y[c].at = "load" /\ y[c].stop = "none"
                 /\ \A d \in Runs \ {r, c} : y[d] = exec[s][d] \/ y[d] = Idle
    BY <1>1, <1>2, <1>5, <2>2, StartsApart
  <2>4. \A d \in Runs : Placeable(y[d])
    BY <1>3, <2>3 DEF WaitInv, Placeable, Places, Stops, Idle
  <2>5. \A d \in Runs \ {r} : ~(d # Root /\ Parent(d) = r /\ Waiting(s, d))
    BY <1>1 DEF Waiting, Is
  <2> QED BY <1>1, <1>3, <2>3, <2>4, <2>5, Hears
<1> QED BY <1>2, <1>4, <1>5

LEMMA MarkHeard ==
  ASSUME NestedInv, WaitInv, NEW s \in Sessions, NEW r \in Runs, NEW i \in Items(r), Mark(s, r, i)
  PROVE WaitInv'
<1>1. Iterating(s, r) /\ exec[s][r].hands[i] = "mark"
  BY DEF Mark, Hand
<1>2. /\ exec[s][r].at = "work" /\ Placed(r) /\ ~IsLeaf(r) /\ exec[s][r].hands \in [Items(r) -> HandStages]
  BY <1>1, AtWork DEF Working, WorksOn
<1>3. CASE Conflict(s, r)
  <2>1. Passes(s, r, i, "broken") /\ Renumbers(s, r)
    BY <1>3 DEF Mark, storeVars, Renumbers
  <2> QED BY <1>1, <2>1, PassHeard
<1>4. CASE ~Conflict(s, r)
  <2>1. ExecShape /\ HasRoom(plan) /\ Renumbers(s, r)
    <3>1. record[Root] # "absent"
      BY <1>2, NothingYet DEF Idle
    <3> QED BY <1>4, <3>1 DEF NestedInv, Rooted, Mark, Commit, Renumbers
  <2>2. PICK c \in Runs : c = Child(r, i) /\ c # r /\ r \notin Under(c)
    BY <1>2, <2>1, ChildPlaced, ChildNamed, ChildBelow
  <2>3. PICK e, stop : /\ HandsOver(e, exec[s][r], i, "child") /\ stop \in {"none", "cancel"}
                       /\ StartsChild(s, r, e, c, stop)
    BY <1>4, <2>1, <2>2, Marking
  <2>4. /\ Executed(e) /\ e.at = "work" /\ e.stop = exec[s][r].stop
        /\ e.hands = [exec[s][r].hands EXCEPT ![i] = "child"]
    BY <1>2, <2>3 DEF HandsOver
  <2>5. PICK y : /\ Session(s, y) /\ y[r] = e /\ Heeds(s, r, y)
                 /\ y[c].at = "load" /\ y[c].stop = stop
                 /\ \A d \in Runs \ {r, c} : y[d] = exec[s][d] \/ y[d] = Idle
    BY <2>1, <2>2, <2>3, <2>4, StartsApart
  <2>6. \A d \in Runs : Placeable(y[d])
    BY <2>3, <2>4, <2>5 DEF WaitInv, Placeable, Places, Stops, Idle
  <2>7. ASSUME NEW d \in Runs \ {r}, d # Root, Parent(d) = r, Waiting(s, d)
        PROVE e.hands[Item(d)] = "child"
    <3>1. exec[s][r].hands[Item(d)] = "child"
      BY <2>7 DEF Waiting
    <3>2. Item(d) # i
      BY <1>1, <3>1
    <3> QED BY <1>2, <2>4, <3>1, <3>2
  <2> QED BY <2>1, <2>4, <2>5, <2>6, <2>7, Hears
<1> QED BY <1>3, <1>4

(* A worker that has the answer of its child waits for it no more. *)
LEMMA GatherHeard ==
  ASSUME NestedInv, WaitInv, NEW s \in Sessions, NEW r \in Runs, NEW i \in Items(r), Gather(s, r, i)
  PROVE WaitInv'
<1>1. /\ Iterating(s, r) /\ exec[s][r].hands[i] = "child" /\ exec[s][Child(r, i)].at = "ended"
      /\ UNCHANGED storeVars
  BY DEF Gather, Hand, Is
<1>2. /\ exec[s][r].at = "work" /\ Placed(r) /\ ~IsLeaf(r) /\ exec[s][r].hands \in [Items(r) -> HandStages]
  BY <1>1, AtWork DEF Working, WorksOn
<1>3. ExecShape /\ HasRoom(plan) /\ Renumbers(s, r)
  <2>1. record[Root] # "absent"
    BY <1>2, NothingYet DEF Idle
  <2> QED BY <1>1, <2>1 DEF NestedInv, Rooted, storeVars, Renumbers
<1>4. PICK c \in Runs : c = Child(r, i) /\ c # r
  BY <1>2, <1>3, ChildPlaced, ChildNamed
<1>5. \E y, stage : /\ Session(s, y) /\ HandsOver(y[r], exec[s][r], i, stage) /\ Heeds(s, r, y)
                    /\ y[c].at # "ended" /\ \A d \in Runs \ {r} : Placeable(y[d])
  <2>1. CASE exec[s][c].answer = "completed"
    <3>1. PICK stage : stage = IF IsForEach(r) THEN "close" ELSE "done"
      OBVIOUS
    <3>2. exec' = [exec EXCEPT ![s][r].hands[i] = stage, ![s][Child(r, i)] = Idle]
      BY <1>4, <2>1, <3>1 DEF Gather
    <3>3. PICK y : /\ Session(s, y) /\ HandsOver(y[r], exec[s][r], i, stage) /\ Heeds(s, r, y)
                   /\ y[c] = Idle /\ \A d \in Runs \ {r, c} : y[d] = exec[s][d]
      <4>1. Child(r, i) \in Runs /\ exec[s][Child(r, i)].at = "ended"
        BY <1>1, <1>4
      <4>2. PICK y : Gathers(s, r, i, stage, y)
        BY <1>3, <3>2, <4>1, Gathering
      <4> QED BY <1>4, <4>2 DEF Gathers
    <3>4. y[c].at # "ended" /\ \A d \in Runs \ {r} : Placeable(y[d])
      BY <3>3 DEF WaitInv, Placeable, Places, Stops, Idle
    <3> QED BY <3>3, <3>4
  <2>2. CASE exec[s][c].answer # "completed"
    <3>1. PICK error : Breaks(Answered(s, r, i), s, r, i, error)
      BY <1>4, <2>2 DEF Gather
    <3>2. PICK z : z = Answered(s, r, i)
      OBVIOUS
    <3>3. /\ z = [d \in Runs |-> z[d]] /\ z[r] = exec[s][r] /\ z[c] = Idle
          /\ \A d \in Runs \ {r} : z[d] = exec[s][d] \/ (z[d] = Idle /\ exec[s][d].at = "ended")
      BY <1>1, <1>3, <1>4, <3>2, AnswerTaken
    <3>4. PICK y : /\ Session(s, y) /\ HandsOver(y[r], exec[s][r], i, "broken") /\ Heeds(s, r, y)
                   /\ \A d \in Runs \ {r} : y[d].at = z[d].at /\ (y[d].stop = z[d].stop \/ y[d].stop = "cancel")
      BY <1>3, <3>1, <3>2, <3>3, Breaking
    <3>5. \A d \in Runs \ {r} : Placeable(z[d])
      BY <3>3 DEF WaitInv, Placeable, Places, Stops, Idle
    <3>6. y[c].at # "ended" /\ \A d \in Runs \ {r} : Placeable(y[d])
      BY <1>4, <3>3, <3>4, <3>5 DEF Placeable, Stops, Idle
    <3> QED BY <3>4, <3>6
  <2> QED BY <2>1, <2>2
<1>6. PICK y, stage : /\ Session(s, y) /\ HandsOver(y[r], exec[s][r], i, stage) /\ Heeds(s, r, y)
                      /\ y[c].at # "ended" /\ \A d \in Runs \ {r} : Placeable(y[d])
  BY <1>5
<1>7. /\ y[r].at = "work" /\ y[r].stop = exec[s][r].stop /\ y[r].hands = [exec[s][r].hands EXCEPT ![i] = stage]
  BY <1>2, <1>6 DEF HandsOver
<1>8. \A d \in Runs : Placeable(y[d])
  BY <1>6, <1>7 DEF WaitInv, Placeable, Places
<1>9. ASSUME NEW d \in Runs \ {r}, d # Root, Parent(d) = r, y[d].at = "ended", Waiting(s, d)
      PROVE y[r].hands[Item(d)] = "child"
  <2>1. exec[s][r].hands[Item(d)] = "child"
    BY <1>9 DEF Waiting
  <2>2. exec[s][d].at # "idle"
    BY <1>6, <1>9 DEF Heeds
  <2>3. d = Child(r, Item(d))
    BY <1>9, <2>2, Awaited
  <2>4. Item(d) # i
    BY <1>4, <1>6, <1>9, <2>3
  <2> QED BY <1>2, <1>7, <2>1, <2>4
<1> QED BY <1>3, <1>6, <1>7, <1>8, <1>9, Hears

LEMMA CloseHeard ==
  ASSUME NestedInv, WaitInv, NEW s \in Sessions, NEW r \in Runs, NEW i \in Items(r), Close(s, r, i)
  PROVE WaitInv'
<1>1. Iterating(s, r) /\ exec[s][r].hands[i] = "close"
  BY DEF Close, Hand
<1>2. /\ exec[s][r].at = "work" /\ exec[s][r].hands \in [Items(r) -> HandStages] /\ ExecShape
  BY <1>1, AtWork DEF Working, WorksOn, NestedInv
<1>3. CASE Conflict(s, r)
  <2>1. Breaks(exec[s], s, r, i, "error") /\ Renumbers(s, r)
    BY <1>3 DEF Close, storeVars, Renumbers
  <2>2. exec[s] = [d \in Runs |-> exec[s][d]]
    BY <1>2 DEF ExecShape
  <2>3. PICK y : /\ Session(s, y) /\ HandsOver(y[r], exec[s][r], i, "broken") /\ Heeds(s, r, y)
                 /\ \A d \in Runs \ {r} : /\ y[d].at = exec[s][d].at
                                          /\ y[d].stop = exec[s][d].stop \/ y[d].stop = "cancel"
    BY <1>2, <2>1, <2>2, Breaking
  <2>4. /\ y[r].at = "work" /\ y[r].stop = exec[s][r].stop
        /\ y[r].hands = [exec[s][r].hands EXCEPT ![i] = "broken"]
    BY <1>2, <2>3 DEF HandsOver
  <2>5. \A d \in Runs : Placeable(y[d])
    BY <2>3, <2>4 DEF WaitInv, Placeable, Places, Stops
  <2>6. ASSUME NEW d \in Runs \ {r}, d # Root, Parent(d) = r, Waiting(s, d)
        PROVE y[r].hands[Item(d)] = "child"
    <3>1. exec[s][r].hands[Item(d)] = "child"
      BY <2>6 DEF Waiting
    <3>2. Item(d) # i
      BY <1>1, <3>1
    <3> QED BY <1>2, <2>4, <3>1, <3>2
  <2> QED BY <2>1, <2>3, <2>4, <2>5, <2>6, Hears
<1>4. CASE ~Conflict(s, r)
  <2>1. Passes(s, r, i, "done") /\ Renumbers(s, r)
    BY <1>4 DEF Close, Commit, Renumbers
  <2> QED BY <1>1, <2>1, PassHeard
<1> QED BY <1>3, <1>4

(* Workers converge when none of them waits. *)
LEMMA ConvergeHeard ==
  ASSUME NestedInv, WaitInv, NEW s \in Sessions, NEW r \in Runs, Converge(s, r)
  PROVE WaitInv'
<1>1. Iterating(s, r) /\ Busy(s, r) = {} /\ Renumbers(s, r) /\ ExecShape
  BY DEF Converge, storeVars, Renumbers, NestedInv
<1>2. PICK pc \in {"yield", "settle", "failing"} : Goto(s, r, pc)
  <2> DEFINE q == CASE exec[s][r].error = "pause" -> "yield"
                    [] exec[s][r].error = "none" /\ Holding(s, r, {"done"}) = Items(r) -> "settle"
                    [] OTHER -> "failing"
  <2>1. Goto(s, r, q)
    BY DEF Converge
  <2>2. q \in {"yield", "settle", "failing"}
    OBVIOUS
  <2> HIDE DEF q
  <2> QED BY <2>1, <2>2
<1>3. PICK e : Executed(e) /\ TurnsInto(s, r, e) /\ e.at = pc /\ e.stop = exec[s][r].stop
  BY <1>1, <1>2, GoesOn
<1>4. Placeable(e) /\ e.at # "ended"
  BY <1>3 DEF WaitInv, Placeable, Places
<1>5. ASSUME NEW d \in Runs \ {r}, d # Root, Parent(d) = r, exec[s][d].at = "ended", Waiting(s, d)
      PROVE FALSE
  <2>1. exec[s][r].hands[Item(d)] = "child"
    BY <1>5 DEF Waiting
  <2>2. Item(d) \in Items(r)
    BY <1>5, Awaited
  <2> QED BY <1>1, <2>1, <2>2 DEF Busy, Holding, Hand
<1> QED BY <1>1, <1>3, <1>4, <1>5, TurnHeard

LEMMA CallHostHeard ==
  ASSUME NestedInv, WaitInv, NEW s \in Sessions, NEW r \in Runs, CallHost(s, r)
  PROVE WaitInv'
<1>1. IsLeaf(r) /\ Goto(s, r, "reply") /\ Renumbers(s, r) /\ ExecShape
  BY DEF CallHost, durableVars, storeVars, Renumbers, NestedInv
<1>2. PICK e : Executed(e) /\ TurnsInto(s, r, e) /\ e.at = "reply" /\ e.stop = exec[s][r].stop
  BY <1>1, GoesOn
<1>3. Placeable(e)
  BY <1>2 DEF WaitInv, Placeable, Places
<1>4. \A d \in Runs \ {r} : ~(d # Root /\ Parent(d) = r /\ exec[s][d].at = "ended")
  BY <1>1, Awaited
<1> QED BY <1>1, <1>2, <1>3, <1>4, TurnHeard

(* Nobody is left behind by an execution that is aborted. *)
LEMMA AbortHeard ==
  ASSUME NestedInv, WaitInv, NEW s \in Sessions, NEW r \in Runs, Abort(s, r)
  PROVE WaitInv'
<1>1. PICK y : /\ Session(s, y) /\ Heeds(s, r, y)
               /\ \A d \in Runs \ {r} : /\ y[d] = exec[s][d] \/ (y[d] = Idle /\ exec[s][d].at = "ended")
                                        /\ d # Root /\ Parent(d) = r => y[d].at # "ended"
               /\ \/ y[r].at = "cancel" /\ y[r].stop = "cancel" /\ seen' = seen
                  \/ /\ y[r].at \in {"idle", "ended"} /\ y[r].stop = "none"
                     /\ y[r].at = "ended" => Waiting(s, r)
                     /\ seen' = [seen EXCEPT ![r] = @ \ {s}]
  BY Aborting DEF NestedInv
<1>2. Renumbers(s, r)
  BY <1>1 DEF Renumbers
<1>3. \A d \in Runs : Placeable(y[d])
  BY <1>1 DEF WaitInv, Placeable, Places, Stops, Idle
<1>4. y[r].at = "ended" => Waiting(s, r) /\ Parent(r) \in Runs /\ Alike(y[Parent(r)], exec[s][Parent(r)])
  <2>1. ASSUME y[r].at = "ended"
        PROVE Waiting(s, r) /\ Parent(r) \in Runs \ {r} /\ exec[s][Parent(r)].at = "work"
    <3>1. exec[s][r].at # "idle"
      BY DEF Abort
    <3>2. Waiting(s, r) /\ r # Root
      BY <1>1, <2>1 DEF Waiting
    <3> QED BY <3>1, <3>2, Awaited DEF Waiting, Is
  <2>2. ASSUME y[r].at = "ended"
        PROVE y[Parent(r)] = exec[s][Parent(r)]
    BY <1>1, <2>1, <2>2
  <2> QED BY <2>1, <2>2 DEF Alike
<1> QED BY <1>1, <1>2, <1>3, <1>4, Hears

LEMMA InterruptHeard ==
  ASSUME NestedInv, WaitInv, NEW s \in Sessions, NEW r \in Runs, Interrupt(s, r)
  PROVE WaitInv'
<1>1. PICK y : /\ Session(s, y)
               /\ \A d \in Runs : Alike(y[d], exec[s][d]) /\ y[d].stop \in {exec[s][d].stop, "cancel", "interrupt"}
  BY Interrupting DEF NestedInv
<1>2. Renumbers(s, r) /\ exec[s][r].at # "ended"
  BY DEF Interrupt, durableVars, storeVars, Renumbers, InFlight
<1>3. Heeds(s, r, y)
  BY <1>1 DEF Heeds, Alike
<1>4. \A d \in Runs : Placeable(y[d])
  BY <1>1 DEF WaitInv, Placeable, Stops, Alike
<1>5. y[r].at # "ended"
  BY <1>1, <1>2 DEF Alike
<1>6. \A d \in Runs \ {r} : d # Root /\ Parent(d) = r /\ Waiting(s, d)
                              => y[r].at = "work" /\ y[r].hands[Item(d)] = "child"
  BY <1>1 DEF Alike, Waiting, Is
<1> QED BY <1>1, <1>2, <1>3, <1>4, <1>5, <1>6, Hears

LEMMA CrashHeard ==
  ASSUME NestedInv, WaitInv, NEW s \in Sessions, Crash(s)
  PROVE WaitInv'
<1>1. /\ \A d \in Runs : exec'[s][d] = Idle
      /\ \A t \in Sessions \ {s} : exec'[t] = exec[t]
  BY DEF Crash, NestedInv, ExecShape
<1>2. seen' \in [Runs -> SUBSET Actors]
  BY DEF Crash, Dropped, WaitInv
<1>3. ASSUME NEW t \in Sessions, NEW d \in Runs
      PROVE Placeable(exec[t][d])' /\ (Is(t, d, "ended") => Waiting(t, d))'
  <2>1. CASE t = s
    BY <1>1, <2>1 DEF Placeable, Places, Stops, Is, Idle
  <2>2. CASE t # s
    <3>1. Placeable(exec[t][d]) /\ (Is(t, d, "ended") => Waiting(t, d))
      BY DEF WaitInv
    <3> QED BY <1>1, <2>2, <3>1 DEF Placeable, Is, Waiting
  <2> QED BY <2>1, <2>2
<1> QED BY <1>2, <1>3 DEF WaitInv

LEMMA OutsideHeard ==
  ASSUME NestedInv, WaitInv, NEW r \in Runs, DecideFail(r) \/ CancelRun(r)
  PROVE WaitInv'
<1>1. exec' = exec /\ seen' = [seen EXCEPT ![r] = {}]
  BY DEF DecideFail, CancelRun
<1>2. seen' \in [Runs -> SUBSET Actors]
  BY <1>1 DEF WaitInv
<1> QED BY <1>1, <1>2 DEF WaitInv, Placeable, Is, Waiting

(* invoke, resume and startNew *)
LEMMA LoadHeard ==
  ASSUME NestedInv, WaitInv, NEW s \in Sessions, NEW r \in Runs, Load(s, r)
  PROVE WaitInv'
<1>1. exec[s][r].at = "load"
  BY DEF Load, Is
<1>2. ASSUME NEW answer, Ends(s, r, answer)
      PROVE WaitInv'
  BY <1>1, <1>2, EndHeard DEF Ends, EndsIn, Renumbers
<1>3. ASSUME NEW pc \in {"create", "pause", "boot"}, Goto(s, r, pc), UNCHANGED storeVars \/ LoadRun(s, r)
      PROVE WaitInv'
  BY <1>1, <1>3, GoHeard DEF Places, storeVars, LoadRun, Renumbers
<1>4. \/ \E answer : Ends(s, r, answer)
      \/ \E pc \in {"create", "pause", "boot"} : Goto(s, r, pc) /\ (UNCHANGED storeVars \/ LoadRun(s, r))
  <2>1. CASE record[r] = "absent"
    BY <2>1 DEF Load, Terminal
  <2>2. CASE record[r] \in Terminal
    BY <2>2 DEF Load, Terminal
  <2>3. CASE record[r] \notin Terminal \cup {"absent"}
    BY <2>3 DEF Load
  <2> QED BY <2>1, <2>2, <2>3
<1> QED BY <1>2, <1>3, <1>4

(* The last step of an execution, and the commits after which it goes on. *)
LEMMA EndsWithHeard ==
  ASSUME NestedInv, WaitInv, NEW s \in Sessions, NEW r \in Runs, exec[s][r].at \notin {"work", "idle"},
         NEW status, EndsWith(s, r, status)
  PROVE WaitInv'
BY EndHeard DEF EndsWith, EndsIn, Commit, Renumbers

LEMMA GoesWithHeard ==
  ASSUME NestedInv, WaitInv, NEW s \in Sessions, NEW r \in Runs, exec[s][r].at \notin {"work", "idle"},
         NEW status, Commit(s, r, status) \/ CreateRun(s, r), NEW pc \in {"boot", "launch", "finish"}, Goto(s, r, pc)
  PROVE WaitInv'
BY GoHeard DEF Places, Commit, CreateRun, Renumbers

LEMMA EndsHeard ==
  ASSUME NestedInv, WaitInv, NEW s \in Sessions, NEW r \in Runs, exec[s][r].at \notin {"work", "idle"},
         NEW answer, Ends(s, r, answer)
  PROVE WaitInv'
BY EndHeard DEF Ends, EndsIn, Renumbers

LEMMA FinishesHeard ==
  ASSUME NestedInv, WaitInv, NEW s \in Sessions, NEW r \in Runs,
         \/ Create(s, r) \/ CommitPause(s, r) \/ Boot(s, r) \/ Settle(s, r) \/ Fail(s, r) \/ Yield(s, r)
         \/ FinishCancelled(s, r) \/ Complete(s, r) \/ LoseCommit(s, r)
  PROVE WaitInv'
<1>1. exec[s][r].at \notin {"work", "idle"}
  BY DEF Create, CommitPause, Boot, Settle, Fail, Yield, FinishCancelled, Complete, LoseCommit, Is
<1>2. CASE CommitPause(s, r) \/ Yield(s, r) \/ FinishCancelled(s, r) \/ Complete(s, r)
  <2>1. PICK status : EndsWith(s, r, status)
    BY <1>2 DEF CommitPause, Yield, FinishCancelled, Complete
  <2> QED BY <1>1, <2>1, EndsWithHeard
<1>3. CASE Create(s, r)
  BY <1>1, <1>3, EndsHeard, GoesWithHeard DEF Create
<1>4. CASE Boot(s, r)
  <2>1. PICK pc \in {"launch", "finish"} : Goto(s, r, pc)
    <3>1. PICK pc : pc = IF main[r] = "succeeded" THEN "finish" ELSE "launch"
      OBVIOUS
    <3>2. Goto(s, r, pc)
      BY <1>4, <3>1 DEF Boot
    <3> QED BY <3>1, <3>2
  <2>2. Commit(s, r, "running")
    BY <1>4 DEF Boot
  <2> QED BY <1>1, <2>1, <2>2, GoesWithHeard
<1>5. CASE Settle(s, r)
  BY <1>1, <1>5, EndsHeard, GoesWithHeard DEF Settle
<1>6. CASE Fail(s, r)
  BY <1>1, <1>6, EndsWithHeard, GoesWithHeard DEF Fail
<1>7. CASE LoseCommit(s, r)
  BY <1>1, <1>7, EndsHeard DEF LoseCommit
<1> QED BY <1>2, <1>3, <1>4, <1>5, <1>6, <1>7

LEMMA ReplyHeard ==
  ASSUME NestedInv, WaitInv, NEW s \in Sessions, NEW r \in Runs, NEW ok, Reply(s, r, ok)
  PROVE WaitInv'
<1>1. PICK pc \in {"settle", "failing"} : Goto(s, r, pc)
  <2>1. PICK pc : pc = IF ok THEN "settle" ELSE "failing"
    OBVIOUS
  <2> QED BY <2>1 DEF Reply
<1>2. exec[s][r].at # "work" /\ Renumbers(s, r)
  BY DEF Reply, Is, storeVars, Renumbers
<1> QED BY <1>1, <1>2, GoHeard DEF Places

(* Whatever an execution does, its answer is awaited. *)
LEMMA SessionHeard ==
  ASSUME NestedInv, WaitInv, NEW s \in Sessions, SessionStep(s)
  PROVE WaitInv'
<1>1. PICK r \in Runs : RunStep(s, r) \/ (~IsLeaf(r) /\ ForEachStep(s, r))
  BY DEF SessionStep
<1>2. CASE RunStep(s, r)
  <2>1. CASE Load(s, r) \/ Launch(s, r) \/ CallHost(s, r) \/ Reply(s, r, TRUE) \/ Converge(s, r) \/ Abort(s, r)
    BY <2>1, LoadHeard, LaunchHeard, CallHostHeard, ReplyHeard, ConvergeHeard, AbortHeard
  <2>2. CASE \/ Create(s, r) \/ CommitPause(s, r) \/ Boot(s, r) \/ Settle(s, r) \/ Fail(s, r) \/ Yield(s, r)
             \/ FinishCancelled(s, r) \/ Complete(s, r) \/ LoseCommit(s, r)
    BY <2>2, FinishesHeard
  <2> QED BY <1>2, <2>1, <2>2 DEF RunStep
<1>3. CASE ~IsLeaf(r) /\ ForEachStep(s, r)
  <2>1. PICK i \in Items(r) : Take(s, r, i) \/ Mark(s, r, i) \/ Gather(s, r, i) \/ Close(s, r, i)
    BY <1>3 DEF ForEachStep
  <2>2. CASE Take(s, r, i)
    <3>1. Iterating(s, r) /\ exec[s][r].hands[i] # "child" /\ Passes(s, r, i, "mark") /\ Renumbers(s, r)
      BY <2>2 DEF Take, Hand, storeVars, Renumbers
    <3> QED BY <3>1, PassHeard
  <2>3. CASE Mark(s, r, i) \/ Gather(s, r, i) \/ Close(s, r, i)
    BY <2>3, MarkHeard, GatherHeard, CloseHeard
  <2> QED BY <2>1, <2>2, <2>3
<1> QED BY <1>1, <1>2, <1>3

(* So it is when executions are started, stopped, repaired or decided. *)
LEMMA ExecutingHeard ==
  ASSUME NestedInv, WaitInv, Executing
  PROVE WaitInv'
<1>0. Root \in Runs
  BY RunsAssumption DEF RunsAssumption
<1>1. ASSUME NEW s \in Sessions, Start(s)
      PROVE WaitInv'
  <2>1. exec[s][Root].at # "work"
    BY <1>0, <1>1, NothingYet DEF Start, StartRoot, Idle
  <2> QED BY <1>0, <1>1, <2>1, BeginHeard DEF Start, StartRoot, CreateRun, Renumbers
<1>2. ASSUME NEW s \in Sessions, Step(s)
      PROVE WaitInv'
  BY <1>2, SessionHeard DEF Step
<1>3. ASSUME NEW s \in Sessions, NEW r \in Runs, Resume(s, r) \/ DecideRetry(s, r)
      PROVE WaitInv'
  <2>1. exec[s][r].at # "work"
    BY <1>3 DEF Resume, DecideRetry, Asleep, Is
  <2> QED BY <1>3, <2>1, BeginHeard DEF Resume, DecideRetry, durableVars, storeVars, LoadRun, Renumbers
<1>4. ASSUME NEW s \in Sessions, NEW r \in Runs, Reply(s, r, FALSE) \/ Interrupt(s, r) \/ Crash(s)
      PROVE WaitInv'
  BY <1>4, ReplyHeard, InterruptHeard, CrashHeard
<1>5. ASSUME NEW r \in Runs, DecideFail(r) \/ CancelRun(r)
      PROVE WaitInv'
  BY <1>5, OutsideHeard
<1>6. ASSUME NEW s \in Sessions, ResumeRoot(s) \/ LeaseExpires(s) \/ RecoverChild(s) \/ Decide(s)
      PROVE WaitInv'
  BY <1>0, <1>3, <1>6 DEF ResumeRoot, LeaseExpires, RecoverChild, Decide
<1>7. ASSUME NEW s \in Sessions, HostFails(s) \/ Interrupted(s) \/ Crashed(s)
      PROVE WaitInv'
  BY <1>0, <1>4, <1>7 DEF HostFails, Interrupted, Crashed
<1>8. CASE Cancelled \/ Reject
  BY <1>5, <1>8 DEF Cancelled, Reject
<1> QED BY <1>1, <1>2, <1>6, <1>7, <1>8 DEF Executing

LEMMA WaitKept ==
  ASSUME WaitInv, UNCHANGED nestedVars
  PROVE WaitInv'
<1>1. UNCHANGED <<seen, exec>>
  BY DEF nestedVars, durableVars, storeVars
<1> QED BY <1>1 DEF WaitInv, Placeable, Is, Waiting

LEMMA WaitStarts ==
  ASSUME NestedInit
  PROVE WaitInv
<1>1. \A s \in Sessions, r \in Runs : exec[s][r] = Idle
  BY DEF NestedInit
<1>2. seen \in [Runs -> SUBSET Actors]
  BY DEF NestedInit, StoreInit
<1> QED BY <1>1, <1>2 DEF WaitInv, Placeable, Places, Stops, Is, Idle

(* No answer of an execution lies about: whoever has ended is a child that the worker of
   its parent waits for (runtime.ts), whatever was aborted, restarted or crashed above it. *)
THEOREM AnswersAreAwaited == Spec => []WaitInv
<1>1. Init => WaitInv
  BY WaitStarts DEF Init
<1>2. NestedInv /\ WaitInv /\ [Next]_vars => WaitInv'
  <2> SUFFICES ASSUME NestedInv, WaitInv, [Next]_vars
               PROVE WaitInv'
    OBVIOUS
  <2>1. CASE Studying
    BY <2>1, WaitKept DEF Studying
  <2>2. CASE Authoring
    BY <2>2, WaitKept DEF Authoring
  <2>3. CASE Binding
    BY <2>3, WaitKept DEF Binding
  <2>4. CASE Executing
    BY <2>4, ExecutingHeard
  <2>5. CASE UNCHANGED vars
    BY <2>5, WaitKept DEF vars
  <2> QED BY <2>1, <2>2, <2>3, <2>4, <2>5 DEF Next
<1> QED BY <1>1, <1>2, NestedCorrect, PTL DEF Spec
-----------------------------------------------------------------------------
(* The types of the runs and of what executes them. *)
LEMMA NestedTypes ==
  ASSUME NestedInv, WaitInv
  PROVE NestedTypeOK
<1>1. StoreTypeOK /\ main \in [Runs -> MainStates] /\ attempts \in [Runs -> Nat]
  BY DEF NestedInv, RecordShape, WaitInv, StoreTypeOK
<1>2. ASSUME NEW r \in Runs, NEW i \in DOMAIN frames[r]
      PROVE frames[r][i] \in FrameStates
  <2>1. frames[r] = <<>> \/ Framed(r)
    BY DEF NestedInv, Recorded
  <2>2. DOMAIN <<>> = {}
    OBVIOUS
  <2> QED BY <1>2, <2>1, <2>2 DEF Framed
<1>3. \A s \in Sessions, r \in Runs : Placeable(exec[s][r]) /\ (Is(s, r, "ended") => Waiting(s, r))
  BY DEF WaitInv
<1>4. main \in [Runs -> {"absent", "ready", "running", "needs_attention", "succeeded", "failed", "cancelled"}]
  BY <1>1 DEF MainStates
<1> QED BY <1>1, <1>2, <1>3, <1>4 DEF NestedTypeOK, Placeable, Places, Stops, FrameStates

(* Every variable of the lifecycle has its type, and an execution that is over is one
   its parent waits for (TypeOK). *)
THEOREM LifecycleTyped == Spec => []TypeOK
<1>1. /\ CatalogInv /\ NumbersInv /\ SearchInv => CatalogTypeOK
      /\ BindingInv => BindingsTypeOK
      /\ NestedInv /\ WaitInv => NestedTypeOK
  BY CatalogTypes, BindingTypes, NestedTypes
<1>2. ExecutionInv => AdmissionTypeOK
  BY DEF ExecutionInv
<1>3. /\ CatalogInv /\ NumbersInv /\ SearchInv /\ BindingInv /\ NestedInv /\ WaitInv /\ ExecutionInv
      => TypeOK
  BY <1>1, <1>2 DEF TypeOK
<1> QED BY <1>3, CatalogCorrect, RevisionsAreNumbered, SearchesCorrect, BindingsCorrect, NestedCorrect,
           AnswersAreAwaited, ExecutionCorrect, PTL
=============================================================================
