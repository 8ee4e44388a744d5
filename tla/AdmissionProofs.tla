-------------------------- MODULE AdmissionProofs --------------------------
(* The analyses of the compiler are sound: however a template that compiled is
   executed, a node finds the outputs its bindings name, and the execution ends. *)
EXTENDS LifecycleProofs, SequenceTheorems

(* A set of numbers up to n has a greatest element. *)
LEMMA GreatestNatural ==
  ASSUME NEW n \in Nat, NEW T \in SUBSET (0 .. n), T # {}
  PROVE \E x \in T : \A y \in T : y <= x
<1> DEFINE S == {i \in Nat : n - i \in T}
<1>1. S \in SUBSET Nat
  OBVIOUS
<1>2. \A y \in T : n - y \in S
  OBVIOUS
<1>3. S # {}
  BY <1>2
<1>4. PICK i \in S : \A j \in S : i <= j
  BY <1>1, <1>3, LeastNatural
<1>5. n - i \in T /\ i \in Nat
  OBVIOUS
<1>6. \A y \in T : y <= n - i
  BY <1>2, <1>4, <1>5
<1> QED BY <1>5, <1>6

-----------------------------------------------------------------------------
(* What is reached along arcs. *)
LEMMA ReachUnfolds ==
  ASSUME NEW g, Size(g) \in Nat, NEW S, NEW arcs
  PROVE \E reached : /\ reached[0] = S
                     /\ \A i \in 1 .. Size(g) : reached[i] = Further(reached[i - 1], arcs)
                     /\ Reach(g, S, arcs) = reached[Size(g)]
<1> DEFINE X == SUBSET (S \cup {a[2] : a \in arcs})
           F == [i \in Nat |-> [x \in X |-> Further(x, arcs)]]
           reached[i \in 0 .. Size(g)] == IF i = 0 THEN S ELSE Further(reached[i - 1], arcs)
<1>1. F \in [Nat -> [X -> X]]
  BY DEF Further
<1>2. S \in X
  OBVIOUS
<1>3. PICK f : Computes(f, Size(g), X, S, F)
  <2> HIDE DEF X, F, reached
  <2> QED BY <1>1, <1>2, Iterates
<1>4. f = [i \in 0 .. Size(g) |-> IF i = 0 THEN S ELSE Further(f[i - 1], arcs)]
  <2>1. \A i \in 0 .. Size(g) : i # 0 => F[i][f[i - 1]] = Further(f[i - 1], arcs)
    <3> SUFFICES ASSUME NEW i \in 0 .. Size(g), i # 0
                 PROVE F[i][f[i - 1]] = Further(f[i - 1], arcs)
      OBVIOUS
    <3>1. f[i - 1] \in X
      BY <1>3 DEF Computes
    <3> HIDE DEF X
    <3> QED BY <3>1
  <2> HIDE DEF F
  <2> QED BY <1>3, <2>1 DEF Computes
<1>5. reached = [i \in 0 .. Size(g) |-> IF i = 0 THEN S ELSE Further(reached[i - 1], arcs)]
  BY <1>4, Zenon
<1>6. Reach(g, S, arcs) = reached[Size(g)]
  BY Zenon DEF Reach
<1> HIDE DEF reached
<1>7. \A i \in 0 .. Size(g) : reached[i] = IF i = 0 THEN S ELSE Further(reached[i - 1], arcs)
  BY <1>5, Zenon
<1> QED BY <1>6, <1>7

(* What is reached from S is in S or the end of an arc. *)
LEMMA ReachedBy ==
  ASSUME NEW g, Size(g) \in Nat, NEW S, NEW arcs, NEW n \in Reach(g, S, arcs)
  PROVE n \in S \/ \E a \in arcs : a[2] = n
<1>1. PICK reached : /\ reached[0] = S
                     /\ \A i \in 1 .. Size(g) : reached[i] = Further(reached[i - 1], arcs)
                     /\ Reach(g, S, arcs) = reached[Size(g)]
  BY ReachUnfolds
<1> DEFINE T == {i \in 0 .. Size(g) : \A m \in reached[i] : m \in S \/ \E a \in arcs : a[2] = m}
<1>2. 0 \in T
  BY <1>1
<1>3. ASSUME NEW i \in 1 .. Size(g), i - 1 \in T
      PROVE i \in T
  <2>1. reached[i] = Further(reached[i - 1], arcs) /\ i \in 0 .. Size(g)
    BY <1>1
  <2>2. \A m \in reached[i - 1] : m \in S \/ \E a \in arcs : a[2] = m
    BY <1>3
  <2> QED BY <2>1, <2>2 DEF Further
<1>4. \A i \in 0 .. Size(g) : i \in T
  <2> HIDE DEF T
  <2> QED BY <1>2, <1>3, Upwards
<1> QED BY <1>1, <1>4
-----------------------------------------------------------------------------
(* The order. *)
GraphOK(g) == /\ g.nodes \subseteq Nat /\ IsFiniteSet(g.nodes)
              /\ \A e \in g.links : e.source \in g.nodes /\ e.target \in g.nodes

(* One more node is a free node. *)
LEMMA LongerBy ==
  ASSUME NEW g, GraphOK(g), NEW order \in Seq(g.nodes)
  PROVE Longer(g, order) = order \/ \E n \in Free(g, order) : Longer(g, order) = Append(order, n)
<1>1. CASE Free(g, order) = {}
  BY <1>1 DEF Longer
<1>2. CASE Free(g, order) # {}
  <2>1. Free(g, order) \in SUBSET Nat
    BY DEF Free, GraphOK
  <2>2. \E n \in Free(g, order) : \A m \in Free(g, order) : n <= m
    BY <1>2, <2>1, LeastNatural
  <2> QED BY <1>2, <2>2 DEF Longer
<1> QED BY <1>1, <1>2

LEMMA LongerIn ==
  ASSUME NEW g, GraphOK(g), NEW order \in Seq(g.nodes)
  PROVE Longer(g, order) \in Seq(g.nodes)
<1>1. Free(g, order) \subseteq g.nodes
  BY DEF Free
<1> QED BY <1>1, LongerBy

LEMMA OrderUnfolds ==
  ASSUME NEW g, GraphOK(g)
  PROVE \E orders : /\ orders[0] = <<>>
                    /\ \A i \in 1 .. Size(g) : orders[i] = Longer(g, orders[i - 1])
                    /\ TopologicalOrder(g) = orders[Size(g)]
<1> DEFINE X == Seq(g.nodes)
           F == [i \in Nat |-> [x \in X |-> Longer(g, x)]]
           orders[i \in 0 .. Size(g)] == IF i = 0 THEN <<>> ELSE Longer(g, orders[i - 1])
<1>1. F \in [Nat -> [X -> X]]
  BY LongerIn
<1>2. <<>> \in X
  OBVIOUS
<1>3. PICK f : Computes(f, Size(g), X, <<>>, F)
  <2>1. Size(g) \in Nat
    BY FS_CardinalityType DEF GraphOK, Size
  <2> HIDE DEF X, F, orders
  <2> QED BY <1>1, <1>2, <2>1, Iterates
<1>4. f = [i \in 0 .. Size(g) |-> IF i = 0 THEN <<>> ELSE Longer(g, f[i - 1])]
  <2>1. Size(g) \in Nat
    BY FS_CardinalityType DEF GraphOK, Size
  <2>2. ASSUME NEW i \in 0 .. Size(g), i # 0
        PROVE F[i][f[i - 1]] = Longer(g, f[i - 1])
    <3>1. f[i - 1] \in X
      BY <1>3, <2>1, <2>2 DEF Computes
    <3> HIDE DEF X
    <3> QED BY <2>1, <3>1
  <2> HIDE DEF F
  <2> QED BY <1>3, <2>2 DEF Computes
<1>5. orders = [i \in 0 .. Size(g) |-> IF i = 0 THEN <<>> ELSE Longer(g, orders[i - 1])]
  BY <1>4, Zenon
<1>6. TopologicalOrder(g) = orders[Size(g)]
  BY Zenon DEF TopologicalOrder
<1> HIDE DEF orders
<1>7. \A i \in 0 .. Size(g) : orders[i] = IF i = 0 THEN <<>> ELSE Longer(g, orders[i - 1])
  BY <1>5, Zenon
<1>8. Size(g) \in Nat
  BY FS_CardinalityType DEF GraphOK, Size
<1> QED BY <1>6, <1>7, <1>8

(* An order lists nodes once, each after its sources. *)
Sorted(g, order) ==
  /\ order \in Seq(g.nodes)
  /\ \A i, j \in DOMAIN order : order[i] = order[j] => i = j
  /\ \A i \in DOMAIN order : \A e \in Into(g, order[i]) :
       \E j \in DOMAIN order : j < i /\ order[j] = e.source

LEMMA LongerIsSorted ==
  ASSUME NEW g, GraphOK(g), NEW order, Sorted(g, order)
  PROVE Sorted(g, Longer(g, order))
<1>1. CASE Longer(g, order) = order
  BY <1>1
<1>2. ASSUME NEW n \in Free(g, order), Longer(g, order) = Append(order, n)
      PROVE Sorted(g, Longer(g, order))
  <2> DEFINE longer == Append(order, n)
  <2>1. /\ order \in Seq(g.nodes) /\ n \in g.nodes
        /\ \A j \in DOMAIN order : order[j] # n
        /\ \A e \in Into(g, n) : \E j \in DOMAIN order : order[j] = e.source
    BY DEF Free, Sorted, Seqs!ToSet
  <2>2. /\ longer \in Seq(g.nodes) /\ Len(longer) = Len(order) + 1 /\ Len(order) \in Nat
        /\ longer[Len(order) + 1] = n
        /\ \A j \in DOMAIN order : longer[j] = order[j]
        /\ DOMAIN order = 1 .. Len(order) /\ DOMAIN longer = 1 .. Len(order) + 1
    BY <2>1
  <2> HIDE DEF longer
  <2>3. \A i, j \in DOMAIN longer : longer[i] = longer[j] => i = j
    <3> SUFFICES ASSUME NEW i \in DOMAIN longer, NEW j \in DOMAIN longer, longer[i] = longer[j]
                 PROVE i = j
      OBVIOUS
    <3>1. i = Len(order) + 1 \/ (i \in DOMAIN order /\ longer[i] = order[i])
      BY <2>2
    <3>2. j = Len(order) + 1 \/ (j \in DOMAIN order /\ longer[j] = order[j])
      BY <2>2
    <3> QED BY <2>1, <2>2, <3>1, <3>2 DEF Sorted
  <2>4. ASSUME NEW i \in DOMAIN longer, NEW e \in Into(g, longer[i])
        PROVE \E j \in DOMAIN longer : j < i /\ longer[j] = e.source
    <3>1. CASE i = Len(order) + 1
      <4>1. PICK j \in DOMAIN order : order[j] = e.source
        BY <2>1, <2>2, <3>1
      <4> QED BY <2>2, <3>1, <4>1
    <3>2. CASE i # Len(order) + 1
      <4>1. i \in DOMAIN order /\ longer[i] = order[i]
        BY <2>2, <3>2
      <4>2. PICK j \in DOMAIN order : j < i /\ order[j] = e.source
        BY <4>1 DEF Sorted
      <4> QED BY <2>2, <4>2
    <3> QED BY <3>1, <3>2
  <2> QED BY <1>2, <2>2, <2>3, <2>4 DEF Sorted, longer
<1>3. order \in Seq(g.nodes)
  BY DEF Sorted
<1> QED BY <1>1, <1>2, <1>3, LongerBy

LEMMA OrderIsSorted ==
  ASSUME NEW g, GraphOK(g)
  PROVE Sorted(g, TopologicalOrder(g))
<1>1. PICK orders : /\ orders[0] = <<>>
                    /\ \A i \in 1 .. Size(g) : orders[i] = Longer(g, orders[i - 1])
                    /\ TopologicalOrder(g) = orders[Size(g)]
  BY OrderUnfolds
<1>2. Size(g) \in Nat
  BY FS_CardinalityType DEF GraphOK, Size
<1> DEFINE T == {i \in 0 .. Size(g) : Sorted(g, orders[i])}
<1>3. 0 \in T
  <2>1. Sorted(g, <<>>)
    BY DEF Sorted
  <2> QED BY <1>1, <1>2, <2>1
<1>4. ASSUME NEW i \in 1 .. Size(g), i - 1 \in T
      PROVE i \in T
  <2>1. orders[i] = Longer(g, orders[i - 1]) /\ i \in 0 .. Size(g) /\ Sorted(g, orders[i - 1])
    BY <1>1, <1>2, <1>4
  <2> QED BY <2>1, LongerIsSorted
<1>5. \A i \in 0 .. Size(g) : i \in T
  <2> HIDE DEF T
  <2> QED BY <1>2, <1>3, <1>4, Upwards
<1> QED BY <1>1, <1>2, <1>5

(* An order as long as there are nodes holds them all. *)
LEMMA OrderIsComplete ==
  ASSUME NEW g, GraphOK(g), NEW order, Sorted(g, order), Len(order) = Size(g), NEW n \in g.nodes
  PROVE \E i \in DOMAIN order : order[i] = n
<1>1. order \in Seq(g.nodes) /\ Len(order) \in Nat /\ DOMAIN order = 1 .. Len(order)
  BY DEF Sorted
<1> DEFINE listed == {order[i] : i \in 1 .. Len(order)}
<1>2. order \in Bijection(1 .. Len(order), listed)
  <2>1. order \in [1 .. Len(order) -> listed]
    BY <1>1
  <2>2. \A i, j \in 1 .. Len(order) : order[i] = order[j] => i = j
    BY <1>1 DEF Sorted
  <2>3. \A x \in listed : \E i \in 1 .. Len(order) : order[i] = x
    OBVIOUS
  <2>4. IsInjective(order)
    BY <1>1, <2>2 DEF IsInjective
  <2> HIDE DEF listed
  <2> QED BY <2>1, <2>3, <2>4 DEF Bijection, Injection, Surjection
<1>3. IsFiniteSet(listed) /\ Cardinality(listed) = Len(order)
  <2>1. IsFiniteSet(1 .. Len(order)) /\ Cardinality(1 .. Len(order)) = Len(order)
    <3> DEFINE k == Len(order)
    <3>1. k \in Nat
      BY <1>1
    <3> HIDE DEF k
    <3>2. IsFiniteSet(1 .. k) /\ Cardinality(1 .. k) = IF 1 > k THEN 0 ELSE k - 1 + 1
      BY <3>1, FS_Interval
    <3>3. Cardinality(1 .. k) = k
      BY <3>1, <3>2
    <3> QED BY <3>2, <3>3 DEF k
  <2>2. ExistsBijection(1 .. Len(order), listed)
    BY <1>2 DEF ExistsBijection
  <2> HIDE DEF listed
  <2> QED BY <2>1, <2>2, FS_Bijection
<1>4. listed \subseteq g.nodes
  BY <1>1
<1>5. listed = g.nodes
  <2> HIDE DEF listed
  <2> QED BY <1>3, <1>4, FS_Subset DEF GraphOK, Size
<1> QED BY <1>1, <1>5
-----------------------------------------------------------------------------
(* The sets that are computed along the order are written once. *)
Writing(g, order, sets, v) ==
  /\ sets[0] = [n \in g.nodes |-> {}]
  /\ \A i \in 1 .. Len(order) : sets[i] = [sets[i - 1] EXCEPT ![order[i]] = v[i]]

LEMMA WrittenOnce ==
  ASSUME NEW g, GraphOK(g), NEW order, Sorted(g, order), NEW sets, NEW v, Writing(g, order, sets, v)
  PROVE \A k \in 0 .. Len(order) : \A i \in 1 .. Len(order) : i <= k => sets[k][order[i]] = v[i]
<1>1. /\ Len(order) \in Nat /\ DOMAIN order = 1 .. Len(order)
      /\ \A i \in 1 .. Len(order) : order[i] \in g.nodes
  BY DEF Sorted
<1> DEFINE Written(k) == /\ sets[k] = [n \in g.nodes |-> sets[k][n]]
                         /\ \A i \in 1 .. Len(order) : i <= k => sets[k][order[i]] = v[i]
           T == {k \in 0 .. Len(order) : Written(k)}
<1>2. 0 \in T
  <2>1. 0 \in 0 .. Len(order) /\ \A i \in 1 .. Len(order) : ~(i <= 0)
    BY <1>1
  <2>2. sets[0] = [n \in g.nodes |-> sets[0][n]]
    BY DEF Writing
  <2> QED BY <2>1, <2>2
<1>3. ASSUME NEW k \in 1 .. Len(order), k - 1 \in T
      PROVE k \in T
  <2>1. k \in 0 .. Len(order) /\ k \in Nat /\ order[k] \in g.nodes /\ Written(k - 1)
    BY <1>1, <1>3
  <2>2. sets[k] = [sets[k - 1] EXCEPT ![order[k]] = v[k]]
    BY DEF Writing
  <2>3. sets[k] = [n \in g.nodes |-> IF n = order[k] THEN v[k] ELSE sets[k - 1][n]]
    <3>1. DOMAIN sets[k - 1] = g.nodes
      BY <2>1
    <3> QED BY <2>2, <3>1
  <2>4. ASSUME NEW i \in 1 .. Len(order), i <= k
        PROVE sets[k][order[i]] = v[i]
    <3>1. CASE i = k
      BY <2>1, <2>3, <3>1
    <3>2. CASE i # k
      <4>1. i <= k - 1 /\ order[i] # order[k]
        BY <1>1, <2>1, <2>4, <3>2 DEF Sorted
      <4>2. sets[k - 1][order[i]] = v[i]
        BY <2>1, <4>1
      <4> QED BY <1>1, <2>3, <4>1, <4>2
    <3> QED BY <3>1, <3>2
  <2> QED BY <2>1, <2>3, <2>4
<1>4. \A k \in 0 .. Len(order) : k \in T
  <2> HIDE DEF T
  <2> QED BY <1>1, <1>2, <1>3, Upwards
<1> QED BY <1>4

AncestorsBy(g, order, sets) ==
  /\ sets[0] = [n \in g.nodes |-> {}]
  /\ \A i \in 1 .. Len(order) :
       sets[i] = [sets[i - 1] EXCEPT ![order[i]] = AncestorsOf(g, sets[i - 1], order[i])]
  /\ Ancestors(g, order) = sets[Len(order)]

LEMMA AncestorsUnfold ==
  ASSUME NEW g, GraphOK(g), NEW order, Sorted(g, order)
  PROVE \E sets : AncestorsBy(g, order, sets)
<1> DEFINE X == [g.nodes -> SUBSET g.nodes]
           blank == [n \in g.nodes |-> {}]
           F == [i \in Nat |-> [f \in X |->
                  IF i \in DOMAIN order THEN [f EXCEPT ![order[i]] = AncestorsOf(g, f, order[i])] ELSE f]]
           sets[i \in 0 .. Len(order)] ==
             IF i = 0 THEN blank
             ELSE [sets[i - 1] EXCEPT ![order[i]] = AncestorsOf(g, sets[i - 1], order[i])]
<1>1. /\ Len(order) \in Nat /\ DOMAIN order = 1 .. Len(order)
      /\ \A i \in 1 .. Len(order) : order[i] \in g.nodes
  BY DEF Sorted
<1>2. F \in [Nat -> [X -> X]]
  <2>1. ASSUME NEW f \in X, NEW n \in g.nodes
        PROVE AncestorsOf(g, f, n) \subseteq g.nodes
    BY DEF AncestorsOf, Into, GraphOK
  <2> QED BY <1>1, <2>1
<1>3. blank \in X
  OBVIOUS
<1>4. PICK f : Computes(f, Len(order), X, blank, F)
  <2> HIDE DEF X, F, sets, blank
  <2> QED BY <1>1, <1>2, <1>3, Iterates
<1>5. f = [i \in 0 .. Len(order) |->
             IF i = 0 THEN blank ELSE [f[i - 1] EXCEPT ![order[i]] = AncestorsOf(g, f[i - 1], order[i])]]
  <2>1. ASSUME NEW i \in 0 .. Len(order), i # 0
        PROVE F[i][f[i - 1]] = [f[i - 1] EXCEPT ![order[i]] = AncestorsOf(g, f[i - 1], order[i])]
    <3>1. f[i - 1] \in X /\ i \in DOMAIN order /\ i \in Nat
      BY <1>1, <1>4, <2>1 DEF Computes
    <3> HIDE DEF X
    <3> QED BY <3>1
  <2> HIDE DEF F, blank
  <2> QED BY <1>4, <2>1 DEF Computes
<1>6. sets = [i \in 0 .. Len(order) |->
                IF i = 0 THEN blank ELSE [sets[i - 1] EXCEPT ![order[i]] = AncestorsOf(g, sets[i - 1], order[i])]]
  <2> HIDE DEF blank
  <2> QED BY <1>5, Zenon
<1>7. Ancestors(g, order) = sets[Len(order)]
  BY Zenon DEF Ancestors, Along
<1> HIDE DEF sets
<1>8. \A i \in 0 .. Len(order) :
        sets[i] = IF i = 0 THEN blank
                  ELSE [sets[i - 1] EXCEPT ![order[i]] = AncestorsOf(g, sets[i - 1], order[i])]
  BY <1>6, Zenon
<1>9. /\ sets[0] = [n \in g.nodes |-> {}]
      /\ \A i \in 1 .. Len(order) :
           sets[i] = [sets[i - 1] EXCEPT ![order[i]] = AncestorsOf(g, sets[i - 1], order[i])]
  <2>1. sets[0] = blank
    <3>1. 0 \in 0 .. Len(order)
      BY <1>1
    <3> HIDE DEF blank
    <3> QED BY <1>8, <3>1, Zenon
  <2>2. ASSUME NEW i \in 1 .. Len(order)
        PROVE sets[i] = [sets[i - 1] EXCEPT ![order[i]] = AncestorsOf(g, sets[i - 1], order[i])]
    <3>1. i \in 0 .. Len(order) /\ i # 0
      BY <1>1
    <3> QED BY <1>8, <3>1, Zenon
  <2> QED BY <2>1, <2>2
<1> QED BY <1>7, <1>9, Zenon DEF AncestorsBy

DominatorsBy(g, order, start, sets) ==
  /\ sets[0] = [n \in g.nodes |-> {}]
  /\ \A i \in 1 .. Len(order) :
       sets[i] = [sets[i - 1] EXCEPT ![order[i]] = DominatorsOf(g, start, sets[i - 1], order[i])]
  /\ Dominators(g, order, start) = sets[Len(order)]

LEMMA DominatorsUnfold ==
  ASSUME NEW g, GraphOK(g), NEW order, Sorted(g, order), NEW start
  PROVE \E sets : DominatorsBy(g, order, start, sets)
<1> DEFINE X == [g.nodes -> SUBSET g.nodes]
           blank == [n \in g.nodes |-> {}]
           F == [i \in Nat |-> [f \in X |->
                  IF i \in DOMAIN order THEN [f EXCEPT ![order[i]] = DominatorsOf(g, start, f, order[i])] ELSE f]]
           sets[i \in 0 .. Len(order)] ==
             IF i = 0 THEN blank
             ELSE [sets[i - 1] EXCEPT ![order[i]] = DominatorsOf(g, start, sets[i - 1], order[i])]
<1>1. /\ Len(order) \in Nat /\ DOMAIN order = 1 .. Len(order)
      /\ \A i \in 1 .. Len(order) : order[i] \in g.nodes
  BY DEF Sorted
<1>2. F \in [Nat -> [X -> X]]
  <2>1. ASSUME NEW f \in X, NEW n \in g.nodes
        PROVE DominatorsOf(g, start, f, n) \subseteq g.nodes
    BY DEF DominatorsOf
  <2> QED BY <1>1, <2>1
<1>3. blank \in X
  OBVIOUS
<1>4. PICK f : Computes(f, Len(order), X, blank, F)
  <2> HIDE DEF X, F, sets, blank
  <2> QED BY <1>1, <1>2, <1>3, Iterates
<1>5. f = [i \in 0 .. Len(order) |->
             IF i = 0 THEN blank ELSE [f[i - 1] EXCEPT ![order[i]] = DominatorsOf(g, start, f[i - 1], order[i])]]
  <2>1. ASSUME NEW i \in 0 .. Len(order), i # 0
        PROVE F[i][f[i - 1]] = [f[i - 1] EXCEPT ![order[i]] = DominatorsOf(g, start, f[i - 1], order[i])]
    <3>1. f[i - 1] \in X /\ i \in DOMAIN order /\ i \in Nat
      BY <1>1, <1>4, <2>1 DEF Computes
    <3> HIDE DEF X
    <3> QED BY <3>1
  <2> HIDE DEF F, blank
  <2> QED BY <1>4, <2>1 DEF Computes
<1>6. sets = [i \in 0 .. Len(order) |->
                IF i = 0 THEN blank ELSE [sets[i - 1] EXCEPT ![order[i]] = DominatorsOf(g, start, sets[i - 1], order[i])]]
  <2> HIDE DEF blank
  <2> QED BY <1>5, Zenon
<1>7. Dominators(g, order, start) = sets[Len(order)]
  BY Zenon DEF Dominators, Along
<1> HIDE DEF sets
<1>8. \A i \in 0 .. Len(order) :
        sets[i] = IF i = 0 THEN blank
                  ELSE [sets[i - 1] EXCEPT ![order[i]] = DominatorsOf(g, start, sets[i - 1], order[i])]
  BY <1>6, Zenon
<1>9. /\ sets[0] = [n \in g.nodes |-> {}]
      /\ \A i \in 1 .. Len(order) :
           sets[i] = [sets[i - 1] EXCEPT ![order[i]] = DominatorsOf(g, start, sets[i - 1], order[i])]
  <2>1. sets[0] = blank
    <3>1. 0 \in 0 .. Len(order)
      BY <1>1
    <3> HIDE DEF blank
    <3> QED BY <1>8, <3>1, Zenon
  <2>2. ASSUME NEW i \in 1 .. Len(order)
        PROVE sets[i] = [sets[i - 1] EXCEPT ![order[i]] = DominatorsOf(g, start, sets[i - 1], order[i])]
    <3>1. i \in 0 .. Len(order) /\ i # 0
      BY <1>1
    <3> QED BY <1>8, <3>1, Zenon
  <2> QED BY <2>1, <2>2
<1> QED BY <1>7, <1>9, Zenon DEF DominatorsBy

(* Each of these sets is what the sets of the sources say. *)
LEMMA AncestorsSolve ==
  ASSUME NEW g, GraphOK(g), NEW order, Sorted(g, order), NEW i \in DOMAIN order
  PROVE Ancestors(g, order)[order[i]] = AncestorsOf(g, Ancestors(g, order), order[i])
<1> DEFINE n == Len(order)
<1>1. n \in Nat /\ DOMAIN order = 1 .. n
  BY DEF Sorted
<1>2. PICK sets : AncestorsBy(g, order, sets)
  BY AncestorsUnfold
<1> DEFINE v == [k \in 1 .. n |-> AncestorsOf(g, sets[k - 1], order[k])]
<1>3. \A k \in 0 .. n : \A j \in 1 .. n : j <= k => sets[k][order[j]] = v[j]
  <2>1. Writing(g, order, sets, v)
    BY <1>2 DEF Writing, AncestorsBy
  <2> HIDE DEF v
  <2> QED BY <2>1, WrittenOnce
<1>4. \A e \in Into(g, order[i]) : sets[i - 1][e.source] = sets[n][e.source]
  <2> SUFFICES ASSUME NEW e \in Into(g, order[i])
               PROVE sets[i - 1][e.source] = sets[n][e.source]
    OBVIOUS
  <2>1. PICK j \in 1 .. n : j < i /\ order[j] = e.source
    BY <1>1 DEF Sorted
  <2>2. i - 1 \in 0 .. n /\ n \in 0 .. n /\ j <= i - 1 /\ j <= n
    BY <1>1, <2>1
  <2> HIDE DEF v, n
  <2> QED BY <1>3, <2>1, <2>2
<1>5. sets[n][order[i]] = AncestorsOf(g, sets[i - 1], order[i])
  <2>1. n \in 0 .. n /\ i \in 1 .. n /\ i <= n
    BY <1>1
  <2>2. sets[n][order[i]] = v[i]
    <3> HIDE DEF v, n
    <3> QED BY <1>3, <2>1
  <2> QED BY <2>1, <2>2
<1> QED BY <1>2, <1>4, <1>5 DEF AncestorsOf, AncestorsBy

LEMMA DominatorsSolve ==
  ASSUME NEW g, GraphOK(g), NEW order, Sorted(g, order), NEW start, NEW i \in DOMAIN order
  PROVE Dominators(g, order, start)[order[i]] = DominatorsOf(g, start, Dominators(g, order, start), order[i])
<1> DEFINE n == Len(order)
<1>1. n \in Nat /\ DOMAIN order = 1 .. n
  BY DEF Sorted
<1>2. PICK sets : DominatorsBy(g, order, start, sets)
  BY DominatorsUnfold
<1> DEFINE v == [k \in 1 .. n |-> DominatorsOf(g, start, sets[k - 1], order[k])]
<1>3. \A k \in 0 .. n : \A j \in 1 .. n : j <= k => sets[k][order[j]] = v[j]
  <2>1. Writing(g, order, sets, v)
    BY <1>2 DEF Writing, DominatorsBy
  <2> HIDE DEF v
  <2> QED BY <2>1, WrittenOnce
<1>4. \A e \in Into(g, order[i]) : sets[i - 1][e.source] = sets[n][e.source]
  <2> SUFFICES ASSUME NEW e \in Into(g, order[i])
               PROVE sets[i - 1][e.source] = sets[n][e.source]
    OBVIOUS
  <2>1. PICK j \in 1 .. n : j < i /\ order[j] = e.source
    BY <1>1 DEF Sorted
  <2>2. i - 1 \in 0 .. n /\ n \in 0 .. n /\ j <= i - 1 /\ j <= n
    BY <1>1, <2>1
  <2> HIDE DEF v, n
  <2> QED BY <1>3, <2>1, <2>2
<1>5. sets[n][order[i]] = DominatorsOf(g, start, sets[i - 1], order[i])
  <2>1. n \in 0 .. n /\ i \in 1 .. n /\ i <= n
    BY <1>1
  <2>2. sets[n][order[i]] = v[i]
    <3> HIDE DEF v, n
    <3> QED BY <1>3, <2>1
  <2> QED BY <2>1, <2>2
<1>6. DominatorsOf(g, start, sets[i - 1], order[i]) = DominatorsOf(g, start, sets[n], order[i])
  <2>1. {d \in g.nodes : Into(g, order[i]) # {} /\ \A e \in Into(g, order[i]) : d \in sets[i - 1][e.source]}
        = {d \in g.nodes : Into(g, order[i]) # {} /\ \A e \in Into(g, order[i]) : d \in sets[n][e.source]}
    BY <1>4
  <2> QED BY <2>1, Zenon DEF DominatorsOf
<1>7. Dominators(g, order, start) = sets[n]
  BY <1>2, Zenon DEF DominatorsBy
<1> QED BY <1>5, <1>6, <1>7, Zenon

(* A node from which goal must be reached is goal, or each of its ports leads to one
   from which it must. *)
LEMMA MustReachSolves ==
  ASSUME NEW g, GraphOK(g), NEW order, Sorted(g, order), NEW goal \in g.nodes,
         NEW n \in Leading(g, order, goal)
  PROVE n \in g.nodes /\ (n = goal \/ EveryPort(g, n, Leading(g, order, goal)))
<1> DEFINE last == Len(order)
           X == SUBSET g.nodes
           With(M, m) == IF EveryPort(g, m, M) THEN M \cup {m} ELSE M
           F == [i \in Nat |-> [M \in X |-> IF i \in DOMAIN order THEN With(M, order[last + 1 - i]) ELSE M]]
           sets[i \in 0 .. last] == IF i = 0 THEN {goal} ELSE With(sets[i - 1], order[last + 1 - i])
<1>1. /\ last \in Nat /\ DOMAIN order = 1 .. last
      /\ \A i \in 1 .. last : order[last + 1 - i] \in g.nodes
  BY DEF Sorted
<1>2. F \in [Nat -> [X -> X]]
  BY <1>1
<1>3. {goal} \in X
  OBVIOUS
<1>4. PICK f : Computes(f, last, X, {goal}, F)
  <2> HIDE DEF X, F, sets, last
  <2> QED BY <1>1, <1>2, <1>3, Iterates
<1>5. f = [i \in 0 .. last |-> IF i = 0 THEN {goal} ELSE With(f[i - 1], order[last + 1 - i])]
  <2>1. ASSUME NEW i \in 0 .. last, i # 0
        PROVE F[i][f[i - 1]] = With(f[i - 1], order[last + 1 - i])
    <3>1. f[i - 1] \in X /\ i \in DOMAIN order /\ i \in Nat
      BY <1>1, <1>4, <2>1 DEF Computes
    <3> HIDE DEF X, last, With
    <3> QED BY <3>1
  <2> HIDE DEF F, last, With
  <2> QED BY <1>4, <2>1 DEF Computes
<1>6. sets = [i \in 0 .. last |-> IF i = 0 THEN {goal} ELSE With(sets[i - 1], order[last + 1 - i])]
  BY <1>5, Zenon
<1>7. Leading(g, order, goal) = sets[last]
  BY Zenon DEF Leading, MustReach
<1> HIDE DEF sets
<1>8. \A i \in 0 .. last : sets[i] = IF i = 0 THEN {goal} ELSE With(sets[i - 1], order[last + 1 - i])
  BY <1>6, Zenon
<1> DEFINE T == {i \in 0 .. last : \A m \in sets[i] : m \in g.nodes /\ (m = goal \/ EveryPort(g, m, sets[i]))}
<1>9. 0 \in T
  <2>1. 0 \in 0 .. last
    BY <1>1
  <2>2. sets[0] = {goal}
    BY <1>8, <2>1, Zenon
  <2> QED BY <2>1, <2>2
<1>10. ASSUME NEW i \in 1 .. last, i - 1 \in T
       PROVE i \in T
  <2>1. i \in 0 .. last /\ i # 0 /\ order[last + 1 - i] \in g.nodes
    BY <1>1
  <2>2. sets[i] = With(sets[i - 1], order[last + 1 - i])
    <3> HIDE DEF With
    <3> QED BY <1>8, <2>1, Zenon
  <2>3. sets[i - 1] \subseteq sets[i]
    BY <2>2
  <2>4. \A m : EveryPort(g, m, sets[i - 1]) => EveryPort(g, m, sets[i])
    BY <2>3 DEF EveryPort
  <2>5. ASSUME NEW m \in sets[i]
        PROVE m \in g.nodes /\ (m = goal \/ EveryPort(g, m, sets[i]))
    <3>1. m \in sets[i - 1] \/ (m = order[last + 1 - i] /\ EveryPort(g, m, sets[i - 1]))
      BY <2>2
    <3>2. CASE m \in sets[i - 1]
      <4>1. m \in g.nodes /\ (m = goal \/ EveryPort(g, m, sets[i - 1]))
        BY <1>10, <3>2
      <4> QED BY <2>4, <4>1
    <3>3. CASE m = order[last + 1 - i] /\ EveryPort(g, m, sets[i - 1])
      BY <2>1, <2>4, <3>3
    <3> QED BY <3>1, <3>2, <3>3
  <2> QED BY <2>1, <2>5
<1>11. \A i \in 0 .. last : i \in T
  <2> HIDE DEF T, last
  <2> QED BY <1>1, <1>9, <1>10, Upwards
<1> QED BY <1>1, <1>7, <1>11
-----------------------------------------------------------------------------
(* What a template that compiles can be counted on for. *)
Order(t) == TopologicalOrder(Graph(t))

(* No group of diagnostics has given a code. *)
NoCodes(t) == /\ \A n \in NodeIds(t) : NodeCodes(t, n) = {}
              /\ EdgeCodes(t) = {} /\ RoleCodes(t, Graph(t)) = {}
              /\ GraphCodes(t, Graph(t), Order(t)) = {} /\ DataCodes(t, Graph(t), Order(t)) = {}

LEMMA CompiledWithout ==
  ASSUME NEW t, Compiles(t)
  PROVE NoCodes(t)
<1>1. Diagnostics(t) = {}
  BY DEF Compiles
<1>2. Diagnostics(t) =
        IF t.faults \cap Fatal # {} THEN t.faults \cap Fatal
        ELSE TemplateCodes(t) \cup NodesCodes(t) \cup EdgeCodes(t) \cup RoleCodes(t, Graph(t))
             \cup GraphCodes(t, Graph(t), Order(t)) \cup DataCodes(t, Graph(t), Order(t))
  BY DEF Diagnostics, Order
<1>3. /\ NodesCodes(t) = {} /\ EdgeCodes(t) = {} /\ RoleCodes(t, Graph(t)) = {}
      /\ GraphCodes(t, Graph(t), Order(t)) = {} /\ DataCodes(t, Graph(t), Order(t)) = {}
  BY <1>1, <1>2
<1>4. \A n \in NodeIds(t) : NodeCodes(t, n) = {}
  BY <1>3 DEF NodesCodes
<1> QED BY <1>3, <1>4 DEF NoCodes

(* The graph of a template. *)
LEMMA GraphOfTemplate ==
  ASSUME NEW t \in Templates
  PROVE GraphOK(Graph(t)) /\ Graph(t).nodes = NodeIds(t) /\ Graph(t).links = Links(t)
<1>1. Graph(t).nodes = NodeIds(t) /\ Graph(t).links = Links(t)
  BY DEF Graph
<1>2. IsFiniteSet(NodeIds(t))
  <2>1. t.nodes \in Seq(Seqs!ToSet(t.nodes))
    BY TemplatesAssumption DEF TemplatesAssumption
  <2>2. DOMAIN t.nodes = 1 .. Len(t.nodes) /\ Len(t.nodes) \in Nat
    BY <2>1
  <2>3. IsFiniteSet(DOMAIN t.nodes)
    BY <2>2, FS_Interval
  <2> DEFINE id == [i \in DOMAIN t.nodes |-> t.nodes[i].id]
  <2>4. id \in Surjection(DOMAIN t.nodes, NodeIds(t))
    BY DEF NodeIds, Surjection
  <2> QED BY <2>3, <2>4, FS_Surjection DEF ExistsSurjection
<1>3. NodeIds(t) \subseteq Nat
  BY TemplatesAssumption DEF TemplatesAssumption
<1>4. \A e \in Links(t) : e.source \in NodeIds(t) /\ e.target \in NodeIds(t)
  BY DEF Links
<1> QED BY <1>1, <1>2, <1>3, <1>4 DEF GraphOK

(* Every node is of a registered type; the start is a node, and the first in every order. *)
LEMMA EveryNodeKnown ==
  ASSUME NEW t, NoCodes(t)
  PROVE Known(t) = NodeIds(t)
<1>1. \A n \in NodeIds(t) : Codes("UNKNOWN_NODE_TYPE", n \notin Known(t)) = {}
  BY Zenon DEF NoCodes, NodeCodes
<1> QED BY <1>1 DEF Codes, Known

LEMMA StartOfTemplate ==
  ASSUME NEW t \in Templates, NoCodes(t)
  PROVE HasStart(t) /\ StartNode(t) \in NodeIds(t) /\ Into(Graph(t), StartNode(t)) = {}
<1>1. /\ Codes("START_COUNT", Cardinality(WithRole(t, "start")) # 1) = {}
      /\ Codes("START_HAS_INCOMING", \E s \in WithRole(t, "start") : Into(Graph(t), s) # {}) = {}
  BY Zenon DEF NoCodes, RoleCodes
<1>2. Cardinality(WithRole(t, "start")) = 1 /\ \A s \in WithRole(t, "start") : Into(Graph(t), s) = {}
  BY <1>1 DEF Codes
<1>3. WithRole(t, "start") # {}
  BY <1>2, FS_EmptySet
<1> DEFINE starts == {i \in DOMAIN t.nodes : t.nodes[i].id \in WithRole(t, "start")}
<1>4. WithRole(t, "start") \subseteq NodeIds(t)
  BY DEF WithRole, Known
<1>5. starts # {} /\ starts \in SUBSET Nat
  <2>1. t.nodes \in Seq(Seqs!ToSet(t.nodes))
    BY TemplatesAssumption DEF TemplatesAssumption
  <2> QED BY <1>3, <1>4, <2>1 DEF NodeIds
<1>6. PICK i \in starts : \A j \in starts : i <= j
  BY <1>5, LeastNatural
<1>7. StartNode(t) \in WithRole(t, "start")
  BY <1>6 DEF StartNode
<1> QED BY <1>2, <1>3, <1>4, <1>7 DEF HasStart

LEMMA OrderOfTemplate ==
  ASSUME NEW t \in Templates, NoCodes(t)
  PROVE /\ Sorted(Graph(t), Order(t)) /\ Len(Order(t)) = Size(Graph(t))
        /\ \A n \in NodeIds(t) : \E i \in DOMAIN Order(t) : Order(t)[i] = n
<1>1. Codes("GRAPH_CYCLE", Len(Order(t)) # Cardinality(Graph(t).nodes)) = {}
  BY Zenon DEF NoCodes, GraphCodes
<1>2. Len(Order(t)) = Size(Graph(t))
  BY <1>1 DEF Codes, Size
<1>3. Sorted(Graph(t), Order(t))
  BY GraphOfTemplate, OrderIsSorted DEF Order
<1> QED BY <1>2, <1>3, GraphOfTemplate, OrderIsComplete

(* Every node but the start has a source, and every node but an end a target. *)
LEMMA NodesConnected ==
  ASSUME NEW t \in Templates, NoCodes(t), NEW n \in NodeIds(t)
  PROVE /\ n # StartNode(t) => Into(Graph(t), n) # {}
        /\ n \notin WithRole(t, "end") => OutOf(Graph(t), n) # {}
<1> DEFINE g == Graph(t)
<1>1. g.nodes = NodeIds(t) /\ Size(g) \in Nat
  BY GraphOfTemplate, FS_CardinalityType DEF GraphOK, Size
<1>2. /\ Codes("UNREACHABLE_NODE", HasStart(t) /\ Reachable(g, StartNode(t)) # g.nodes) = {}
      /\ Codes("NODE_CANNOT_REACH_END", ReachingEnd(g, WithRole(t, "end")) # g.nodes) = {}
  BY Zenon DEF NoCodes, GraphCodes
<1>3. n \in Reachable(g, StartNode(t)) /\ n \in ReachingEnd(g, WithRole(t, "end"))
  BY <1>1, <1>2, StartOfTemplate DEF Codes
<1> HIDE DEF g
<1>4. n # StartNode(t) => Into(g, n) # {}
  <2> DEFINE arcs == {<<e.source, e.target>> : e \in g.links}
  <2>1. n \in Reach(g, {StartNode(t)}, arcs)
    BY <1>3 DEF Reachable
  <2>2. n \in {StartNode(t)} \/ \E a \in arcs : a[2] = n
    <3> HIDE DEF arcs
    <3> QED BY <1>1, <2>1, ReachedBy
  <2> QED BY <2>2 DEF Into
<1>5. n \notin WithRole(t, "end") => OutOf(g, n) # {}
  <2> DEFINE arcs == {<<e.target, e.source>> : e \in g.links}
  <2>1. n \in Reach(g, WithRole(t, "end"), arcs)
    BY <1>3 DEF ReachingEnd
  <2>2. n \in WithRole(t, "end") \/ \E a \in arcs : a[2] = n
    <3> HIDE DEF arcs
    <3> QED BY <1>1, <2>1, ReachedBy
  <2> QED BY <2>2 DEF OutOf
<1> QED BY <1>4, <1>5 DEF g
-----------------------------------------------------------------------------
(* Induction along the order of a template, and against it. *)
LEMMA Downstream ==
  ASSUME NEW t \in Templates, NoCodes(t), NEW T,
         \A n \in NodeIds(t) : (\A e \in Into(Graph(t), n) : e.source \in T) => n \in T
  PROVE \A n \in NodeIds(t) : n \in T
<1> DEFINE order == Order(t)
           I == {i \in Nat : i \in DOMAIN order /\ order[i] \notin T}
<1>1. /\ order \in Seq(NodeIds(t)) /\ DOMAIN order = 1 .. Len(order) /\ Len(order) \in Nat
      /\ \A i \in DOMAIN order : \A e \in Into(Graph(t), order[i]) :
           \E j \in DOMAIN order : j < i /\ order[j] = e.source
      /\ \A n \in NodeIds(t) : \E i \in DOMAIN order : order[i] = n
  BY OrderOfTemplate, GraphOfTemplate DEF Sorted
<1> HIDE DEF order
<1>2. I = {}
  <2> SUFFICES ASSUME I # {}
               PROVE FALSE
    OBVIOUS
  <2>1. PICK i \in I : \A j \in I : i <= j
    <3>1. I \in SUBSET Nat
      OBVIOUS
    <3> HIDE DEF I
    <3> QED BY <3>1, LeastNatural
  <2>2. \A e \in Into(Graph(t), order[i]) : e.source \in T
    <3> SUFFICES ASSUME NEW e \in Into(Graph(t), order[i])
                 PROVE e.source \in T
      OBVIOUS
    <3>1. PICK j \in DOMAIN order : j < i /\ order[j] = e.source
      BY <1>1
    <3>2. j \in Nat /\ i \in Nat
      BY <1>1
    <3> QED BY <2>1, <3>1, <3>2
  <2>3. order[i] \in NodeIds(t)
    BY <1>1
  <2> QED BY <2>2, <2>3
<1>3. \A i \in DOMAIN order : order[i] \in T
  BY <1>1, <1>2
<1> QED BY <1>1, <1>3

LEMMA Upstream ==
  ASSUME NEW t \in Templates, NoCodes(t), NEW T,
         \A n \in NodeIds(t) : (\A e \in OutOf(Graph(t), n) : e.target \in T) => n \in T
  PROVE \A n \in NodeIds(t) : n \in T
<1> DEFINE order == Order(t)
           I == {i \in DOMAIN order : order[i] \notin T}
<1>1. /\ order \in Seq(NodeIds(t)) /\ DOMAIN order = 1 .. Len(order) /\ Len(order) \in Nat
      /\ \A i \in DOMAIN order : \A e \in Into(Graph(t), order[i]) :
           \E j \in DOMAIN order : j < i /\ order[j] = e.source
      /\ \A n \in NodeIds(t) : \E i \in DOMAIN order : order[i] = n
      /\ \A i, j \in DOMAIN order : order[i] = order[j] => i = j
  BY OrderOfTemplate, GraphOfTemplate DEF Sorted
<1>2. \A e \in Links(t) : e.target \in NodeIds(t)
  BY DEF Links
<1>3. Graph(t).links = Links(t)
  BY GraphOfTemplate
<1> HIDE DEF order
<1>4. I = {}
  <2> SUFFICES ASSUME I # {}
               PROVE FALSE
    OBVIOUS
  <2>1. I \in SUBSET (0 .. Len(order))
    BY <1>1
  <2>2. PICK i \in I : \A j \in I : j <= i
    <3> HIDE DEF I
    <3> QED BY <1>1, <2>1, GreatestNatural
  <2>3. \A e \in OutOf(Graph(t), order[i]) : e.target \in T
    <3> SUFFICES ASSUME NEW e \in OutOf(Graph(t), order[i])
                 PROVE e.target \in T
      OBVIOUS
    <3>1. e \in Links(t) /\ e.source = order[i]
      BY <1>3 DEF OutOf
    <3>2. PICK k \in DOMAIN order : order[k] = e.target
      BY <1>1, <1>2, <3>1
    <3>3. e \in Into(Graph(t), order[k])
      BY <1>3, <3>1, <3>2 DEF Into
    <3>4. PICK j \in DOMAIN order : j < k /\ order[j] = e.source
      BY <1>1, <3>3
    <3>5. j = i
      BY <1>1, <3>1, <3>4
    <3>6. i < k /\ i \in Nat /\ k \in Nat
      BY <1>1, <3>4, <3>5
    <3> QED BY <2>2, <3>2, <3>6
  <2>4. order[i] \in NodeIds(t)
    BY <1>1
  <2> QED BY <2>3, <2>4
<1> QED BY <1>1, <1>4
-----------------------------------------------------------------------------
(* The bindings of a node, and those of the outputs, are to nodes that qualify. *)
LEMMA InputsOfTemplate ==
  ASSUME NEW t \in Templates, NoCodes(t), NEW n \in NodeIds(t),
         NEW source \in SourcesOf(Node(t, n).inputs)
  PROVE /\ source \in NodeIds(t)
        /\ source \in Ancestors(Graph(t), Order(t))[n]
        /\ \/ source \in Dominators(Graph(t), Order(t), StartNode(t))[n]
           \/ source \in Guaranteed(Graph(t), Order(t), StartNode(t))
<1> DEFINE g == Graph(t)
           upstream == Ancestors(g, Order(t))[n]
           certain == Dominators(g, Order(t), StartNode(t))[n] \cup Guaranteed(g, Order(t), StartNode(t))
           inputs == Node(t, n).inputs
<1>1. DataCodes(t, g, Order(t)) = {}
  BY DEF NoCodes
<1>2. HasStart(t) /\ Len(Order(t)) = Cardinality(g.nodes) /\ n \in g.nodes /\ n \in Known(t)
  BY StartOfTemplate, OrderOfTemplate, GraphOfTemplate, EveryNodeKnown DEF Size
<1>3. BindingsCodes(t, inputs, Def(t, n).input, upstream, certain) = {}
  <2>1. InputsCodes(t, g, Order(t), Guaranteed(g, Order(t), StartNode(t))) = {}
    BY <1>1, <1>2 DEF DataCodes
  <2> QED BY <1>2, <2>1 DEF InputsCodes
<1>4. PICK x \in DOMAIN inputs : inputs[x].kind = "output" /\ inputs[x].from = source
  BY DEF SourcesOf
<1>5. BindingCodes(t, inputs[x], Property(Def(t, n).input, x), upstream, certain) = {}
  BY <1>3 DEF BindingsCodes
<1>6. source \in NodeIds(t) /\ source \in upstream /\ source \in certain
  <2> HIDE DEF upstream, certain, inputs
  <2> QED BY <1>4, <1>5 DEF BindingCodes, Codes
<1> QED BY <1>6

LEMMA OutputsOfTemplate ==
  ASSUME NEW t \in Templates, NoCodes(t), NEW source \in SourcesOf(t.outputs)
  PROVE source \in NodeIds(t) /\ source \in Guaranteed(Graph(t), Order(t), StartNode(t))
<1> DEFINE g == Graph(t)
           guaranteed == Guaranteed(g, Order(t), StartNode(t))
<1>1. DataCodes(t, g, Order(t)) = {}
  BY DEF NoCodes
<1>2. HasStart(t) /\ Len(Order(t)) = Cardinality(g.nodes)
  BY StartOfTemplate, OrderOfTemplate DEF Size
<1>3. PICK x \in DOMAIN t.outputs : t.outputs[x].kind = "output" /\ t.outputs[x].from = source
  BY DEF SourcesOf
<1>4. OutputCodes(t, guaranteed, t.outputs[x]) = {}
  <2>1. OutputsCodes(t, guaranteed) = {}
    BY <1>1, <1>2 DEF DataCodes
  <2> QED BY <1>3, <2>1 DEF OutputsCodes
<1>5. source \in guaranteed
  <2> HIDE DEF guaranteed
  <2> QED BY <1>3, <1>4 DEF OutputCodes, Codes
<1> QED BY <1>5, GraphOfTemplate DEF Guaranteed

(* An edge leaves by a port of its source, and a required port has an edge. *)
LEMMA PortsOfTemplate ==
  ASSUME NEW t, NoCodes(t), NEW n \in NodeIds(t)
  PROVE /\ \A e \in OutOf(Graph(t), n) : e.port \in Def(t, n).ports
        /\ \A p \in Def(t, n).required : \E e \in OutOf(Graph(t), n) : e.port = p
        /\ Graph(t).ports[n] = Def(t, n).ports
<1>1. /\ Codes("UNKNOWN_OUTPUT_PORT",
               \E e \in Links(t) : e.source \in Known(t) /\ e.port \notin Def(t, e.source).ports) = {}
      /\ Codes("REQUIRED_OUTPUT_PORT_MISSING",
               \E m \in Known(t) : ~(Def(t, m).required \subseteq {e.port : e \in OutOf(Graph(t), m)})) = {}
  BY Zenon DEF NoCodes, EdgeCodes, RoleCodes
<1>2. /\ \A e \in Links(t) : e.source \in Known(t) => e.port \in Def(t, e.source).ports
      /\ \A m \in Known(t) : Def(t, m).required \subseteq {e.port : e \in OutOf(Graph(t), m)}
  BY <1>1 DEF Codes
<1>3. n \in Known(t)
  BY EveryNodeKnown
<1>4. Graph(t).links = Links(t) /\ Graph(t).ports[n] = Def(t, n).ports
  BY <1>3 DEF Graph
<1> QED BY <1>2, <1>3, <1>4 DEF OutOf
-----------------------------------------------------------------------------
(* The execution of a template that compiled. A node that was not executed has decided
   none of its edges; one that was has taken every edge of one port; one that is skipped
   has no edge that is taken; a node is ready for having a taken edge and no unknown one,
   and pending for having an unknown one. *)
Coming(n) == Into(Graph(given), n)
Going(n) == OutOf(Graph(given), n)
Untried(n) == nodes[n] \in {"pending", "ready"} => \A e \in Going(n) : edges[e] = "unknown"
Chose(n) == nodes[n] = "succeeded" =>
              /\ \A e \in Going(n) : edges[e] # "unknown"
              /\ \E p \in Def(given, n).ports : \A e \in Going(n) : e.port = p => edges[e] = "taken"
Passed(n) == nodes[n] = "skipped" =>
               n # StartNode(given) /\ \A e \in Coming(n) \cup Going(n) : edges[e] = "skipped"
Entitled(n) == nodes[n] \in {"ready", "succeeded"} /\ n # StartNode(given) =>
                 (\A e \in Coming(n) : edges[e] # "unknown") /\ \E e \in Coming(n) : edges[e] = "taken"
Waits(n) == nodes[n] = "pending" => n # StartNode(given) /\ \E e \in Coming(n) : edges[e] = "unknown"
NodeInv(n) == Untried(n) /\ Chose(n) /\ Passed(n) /\ Entitled(n) /\ Waits(n)

ExecutionInv ==
  /\ AdmissionTypeOK
  /\ verdict # "none" => given \in Templates
  /\ verdict = "accepted" => Compiles(given) /\ \A n \in NodeIds(given) : NodeInv(n)

(* What the execution of n changes. *)
Executes(n, sel, S) ==
  /\ nodes[n] = "ready" /\ given' = given /\ verdict' = verdict
  /\ nodes' \in [NodeIds(given) -> {"pending", "ready", "succeeded", "skipped"}]
  /\ edges' \in [Links(given) -> {"unknown", "taken", "skipped"}]
  /\ \A e \in Links(given) :
       edges'[e] = IF e.source = n THEN IF e.port \in sel THEN "taken" ELSE "skipped"
                   ELSE IF e.source \in S THEN "skipped" ELSE edges[e]
  /\ nodes'[n] = "succeeded" /\ n \notin S
  /\ \A m \in S : /\ nodes[m] = "pending" /\ nodes'[m] = "skipped"
                  /\ \A e \in Coming(m) : edges'[e] # "unknown" /\ edges'[e] # "taken"
  /\ \A m \in NodeIds(given) \ (S \cup {n}) :
       \/ /\ nodes'[m] = nodes[m]
          /\ nodes[m] = "pending" => \/ \E e \in Coming(m) : edges'[e] = "unknown"
                                     \/ \A e \in Coming(m) : e.source # n /\ e.source \notin S
       \/ /\ nodes[m] = "pending" /\ nodes'[m] = "ready"
          /\ \A e \in Coming(m) : edges'[e] # "unknown"
          /\ \E e \in Coming(m) : edges'[e] = "taken"

LEMMA ExecuteChanges ==
  ASSUME AdmissionTypeOK, verdict = "accepted", NEW n \in DOMAIN nodes, NEW sel,
         NEW S \in SUBSET (DOMAIN nodes \ {n}), Execute(n, sel, S)
  PROVE Executes(n, sel, S)
<1> DEFINE after == G!EdgesAfter(edges, n, sel, S)
           settled == G!Resolved(nodes, edges, n, sel, S)
           woken == G!NewlyReady(nodes, edges, n, sel, S)
<1>1. /\ nodes \in [NodeIds(given) -> {"pending", "ready", "succeeded", "skipped"}]
      /\ edges \in [Links(given) -> {"unknown", "taken", "skipped"}]
      /\ nodes[n] = "ready" /\ given' = given /\ verdict' = verdict /\ edges' = after
      /\ nodes' = [m \in DOMAIN nodes |-> CASE m = n -> "succeeded"
                                            [] m \in S -> "skipped"
                                            [] m \in woken -> "ready"
                                            [] OTHER -> nodes[m]]
  BY DEF AdmissionTypeOK, Execute
<1>2. after = [e \in Links(given) |-> IF e.source = n THEN IF e.port \in sel THEN "taken" ELSE "skipped"
                                      ELSE IF e.source \in S THEN "skipped" ELSE edges[e]]
  BY <1>1 DEF G!EdgesAfter
<1> HIDE DEF after
<1>3. \A m : G!In(m) = Coming(m)
  BY <1>1 DEF G!In, Coming, Into, Graph
<1>4. settled = {m \in NodeIds(given) : /\ nodes[m] = "pending"
                                        /\ \E e \in Coming(m) : e.source = n \/ e.source \in S
                                        /\ \A e \in Coming(m) : after[e] # "unknown"}
  BY <1>1, <1>3 DEF G!Resolved, G!In, after
<1> HIDE DEF settled
<1>5. /\ S = {m \in settled : ~\E e \in Coming(m) : after[e] = "taken"}
      /\ woken = {m \in settled : \E e \in Coming(m) : after[e] = "taken"}
  BY <1>3 DEF Execute, G!IsSkipSet, G!NewlyReady, G!HasTaken, after, settled
<1> HIDE DEF woken
<1>6. edges' \in [Links(given) -> {"unknown", "taken", "skipped"}]
  BY <1>1, <1>2
<1>7. nodes' \in [NodeIds(given) -> {"pending", "ready", "succeeded", "skipped"}]
  <2>1. DOMAIN nodes = NodeIds(given)
    BY <1>1
  <2>2. \A m \in NodeIds(given) : nodes'[m] \in {"pending", "ready", "succeeded", "skipped"}
    BY <1>1, <2>1
  <2>3. nodes' = [m \in NodeIds(given) |-> nodes'[m]]
    BY <1>1, <2>1
  <2> QED BY <2>2, <2>3
<1>8. nodes'[n] = "succeeded" /\ n \notin S
  <2>1. n \notin S
    OBVIOUS
  <2>2. DOMAIN nodes = NodeIds(given) /\ n \in NodeIds(given) /\ n \notin woken
    BY <1>1, <1>4, <1>5
  <2>3. nodes'[n] = "succeeded"
    BY <1>1, <2>1, <2>2
  <2> QED BY <2>1, <2>3
<1>9. ASSUME NEW m \in S
      PROVE /\ nodes[m] = "pending" /\ nodes'[m] = "skipped"
            /\ \A e \in Coming(m) : edges'[e] # "unknown" /\ edges'[e] # "taken"
  BY <1>1, <1>4, <1>5
<1>10. ASSUME NEW m \in NodeIds(given) \ (S \cup {n})
       PROVE \/ /\ nodes'[m] = nodes[m]
                /\ nodes[m] = "pending" => \/ \E e \in Coming(m) : edges'[e] = "unknown"
                                           \/ \A e \in Coming(m) : e.source # n /\ e.source \notin S
             \/ /\ nodes[m] = "pending" /\ nodes'[m] = "ready"
                /\ \A e \in Coming(m) : edges'[e] # "unknown"
                /\ \E e \in Coming(m) : edges'[e] = "taken"
  <2>1. CASE m \in woken
    BY <1>1, <1>4, <1>5, <2>1
  <2>2. CASE m \notin woken
    <3>1. nodes'[m] = nodes[m] /\ m \notin settled
      BY <1>1, <1>5, <2>2
    <3>2. edges' \in [Links(given) -> {"unknown", "taken", "skipped"}] /\ edges' = after
      BY <1>1, <1>6
    <3> QED BY <1>4, <3>1, <3>2
  <2> QED BY <2>1, <2>2
<1> QED BY <1>1, <1>2, <1>6, <1>7, <1>8, <1>9, <1>10 DEF Executes

(* An edge that was decided keeps its state, and no edge becomes unknown. *)
LEMMA EdgesStay ==
  ASSUME NEW n \in NodeIds(given), NEW sel, NEW S \in SUBSET NodeIds(given), AdmissionTypeOK, verdict = "accepted",
         \A m \in NodeIds(given) : NodeInv(m), Executes(n, sel, S), NEW e \in Links(given), edges[e] # "unknown"
  PROVE edges'[e] = edges[e]
<1>1. e.source \in NodeIds(given) /\ e \in Going(e.source)
  BY DEF Links, Going, OutOf, Graph
<1>2. nodes[e.source] \notin {"pending", "ready"}
  BY <1>1 DEF NodeInv, Untried
<1>3. e.source # n /\ e.source \notin S
  BY <1>2 DEF Executes
<1> QED BY <1>3 DEF Executes

LEMMA NodesStay ==
  ASSUME NEW n \in NodeIds(given), NEW sel \in Selections(given, n), NEW S \in SUBSET NodeIds(given),
         AdmissionTypeOK, verdict = "accepted",
         \A m \in NodeIds(given) : NodeInv(m), Executes(n, sel, S), NEW m \in NodeIds(given)
  PROVE NodeInv(m)'
<1>1. /\ given' = given /\ Coming(m)' = Coming(m) /\ Going(m)' = Going(m)
      /\ Coming(m) \subseteq Links(given) /\ Going(m) \subseteq Links(given)
      /\ \A e \in Going(m) : e.source = m
  BY DEF Executes, Coming, Going, Into, OutOf, Graph
<1>2. \A e \in Links(given) : edges[e] # "unknown" => edges'[e] = edges[e]
  BY EdgesStay
<1>3. NodeInv(m)
  OBVIOUS
<1>4. \A e \in Links(given) : edges[e] \in {"unknown", "taken", "skipped"} /\ edges'[e] \in {"unknown", "taken", "skipped"}
  BY DEF AdmissionTypeOK, Executes
<1>5. CASE m = n
  <2>1. nodes[m] = "ready" /\ nodes'[m] = "succeeded"
    BY <1>5 DEF Executes
  <2>2. PICK p \in Def(given, m).ports : p \in sel
    BY <1>5 DEF Selections
  <2>3. \A e \in Going(m) : edges'[e] = IF e.port \in sel THEN "taken" ELSE "skipped"
    BY <1>1, <1>5 DEF Executes
  <2>4. Chose(m)'
    <3>1. Def(given, m).ports' = Def(given, m).ports
      BY <1>1 DEF Def, Node, NodeIds, Firsts
    <3>2. \A e \in Going(m) : edges'[e] # "unknown" /\ (e.port = p => edges'[e] = "taken")
      BY <2>2, <2>3
    <3> QED BY <1>1, <2>2, <3>1, <3>2 DEF Chose
  <2>5. Entitled(m)'
    <3>1. m # StartNode(given) => (\A e \in Coming(m) : edges[e] # "unknown") /\ \E e \in Coming(m) : edges[e] = "taken"
      BY <1>3, <2>1 DEF NodeInv, Entitled
    <3> QED BY <1>1, <1>2, <3>1 DEF Entitled
  <2>6. Untried(m)' /\ Passed(m)' /\ Waits(m)'
    BY <2>1 DEF Untried, Passed, Waits
  <2> QED BY <2>4, <2>5, <2>6 DEF NodeInv
<1>6. CASE m \in S
  <2>1. /\ nodes[m] = "pending" /\ nodes'[m] = "skipped" /\ m # n
        /\ \A e \in Coming(m) : edges'[e] # "unknown" /\ edges'[e] # "taken"
    BY <1>6 DEF Executes
  <2>2. \A e \in Going(m) : edges'[e] = "skipped"
    BY <1>1, <1>6, <2>1 DEF Executes
  <2>3. \A e \in Coming(m) : edges'[e] = "skipped"
    BY <1>1, <1>4, <2>1
  <2>4. m # StartNode(given)
    BY <1>3, <2>1 DEF NodeInv, Waits
  <2>5. Passed(m)'
    BY <1>1, <2>2, <2>3, <2>4 DEF Passed
  <2>6. Untried(m)' /\ Chose(m)' /\ Entitled(m)' /\ Waits(m)'
    BY <2>1 DEF Untried, Chose, Entitled, Waits
  <2> QED BY <2>5, <2>6 DEF NodeInv
<1>7. CASE m # n /\ m \notin S
  <2>1. \A e \in Going(m) : edges'[e] = edges[e]
    BY <1>1, <1>7 DEF Executes
  <2>2. \/ /\ nodes'[m] = nodes[m]
           /\ nodes[m] = "pending" => \/ \E e \in Coming(m) : edges'[e] = "unknown"
                                      \/ \A e \in Coming(m) : e.source # n /\ e.source \notin S
        \/ /\ nodes[m] = "pending" /\ nodes'[m] = "ready"
           /\ \A e \in Coming(m) : edges'[e] # "unknown"
           /\ \E e \in Coming(m) : edges'[e] = "taken"
    BY <1>7 DEF Executes
  <2>3. CASE nodes[m] = "pending" /\ nodes'[m] = "ready"
    <3>1. (\A e \in Coming(m) : edges'[e] # "unknown") /\ \E e \in Coming(m) : edges'[e] = "taken"
      BY <2>2, <2>3
    <3>2. Untried(m)' /\ Entitled(m)'
      <4>1. \A e \in Going(m) : edges[e] = "unknown"
        BY <1>3, <2>3 DEF NodeInv, Untried
      <4> QED BY <1>1, <2>1, <3>1, <4>1 DEF Untried, Entitled
    <3>3. Chose(m)' /\ Passed(m)' /\ Waits(m)'
      BY <2>3 DEF Chose, Passed, Waits
    <3> QED BY <3>2, <3>3 DEF NodeInv
  <2>4. CASE nodes'[m] = nodes[m]
    <3>1. Untried(m)'
      BY <1>1, <1>3, <2>1, <2>4 DEF NodeInv, Untried
    <3>2. Chose(m)'
      <4>1. Def(given, m).ports' = Def(given, m).ports
        BY <1>1 DEF Def, Node, NodeIds, Firsts
      <4>2. Chose(m)
        BY <1>3 DEF NodeInv
      <4> QED BY <1>1, <2>1, <2>4, <4>1, <4>2 DEF Chose
    <3>3. Passed(m)'
      <4>1. nodes[m] = "skipped" => m # StartNode(given) /\ \A e \in Coming(m) \cup Going(m) : edges[e] = "skipped"
        BY <1>3 DEF NodeInv, Passed
      <4> QED BY <1>1, <1>2, <2>4, <4>1 DEF Passed
    <3>4. Entitled(m)'
      <4>1. nodes[m] \in {"ready", "succeeded"} /\ m # StartNode(given) =>
              (\A e \in Coming(m) : edges[e] # "unknown") /\ \E e \in Coming(m) : edges[e] = "taken"
        BY <1>3 DEF NodeInv, Entitled
      <4> QED BY <1>1, <1>2, <2>4, <4>1 DEF Entitled
    <3>5. Waits(m)'
      <4> SUFFICES ASSUME nodes[m] = "pending"
                   PROVE m # StartNode(given) /\ \E e \in Coming(m) : edges'[e] = "unknown"
        BY <1>1, <2>4 DEF Waits
      <4>1. PICK e \in Coming(m) : m # StartNode(given) /\ edges[e] = "unknown"
        BY <1>3 DEF NodeInv, Waits
      <4>2. CASE \A d \in Coming(m) : d.source # n /\ d.source \notin S
        <5>1. edges'[e] = edges[e]
          BY <1>1, <4>2 DEF Executes
        <5> QED BY <4>1, <5>1
      <4> QED BY <2>2, <2>4, <4>1, <4>2
    <3> QED BY <3>1, <3>2, <3>3, <3>4, <3>5 DEF NodeInv
  <2> QED BY <2>2, <2>3, <2>4
<1> QED BY <1>5, <1>6, <1>7

(* The first states of an execution, and each kind of step. *)
LEMMA ExecutionAccepted ==
  ASSUME ExecutionInv, Accept
  PROVE ExecutionInv'
<1>1. /\ verdict' = "accepted" /\ given' = given /\ given \in Templates /\ Compiles(given)
      /\ nodes' = [n \in NodeIds(given) |-> IF n = StartNode(given) THEN "ready" ELSE "pending"]
      /\ edges' = [e \in Links(given) |-> "unknown"]
  BY DEF ExecutionInv, Accept
<1>2. NoCodes(given)
  BY <1>1, CompiledWithout
<1>3. AdmissionTypeOK'
  BY <1>1 DEF AdmissionTypeOK
<1>4. ASSUME NEW n \in NodeIds(given)
      PROVE NodeInv(n)'
  <2>1. /\ Coming(n)' = Coming(n) /\ Going(n)' = Going(n)
        /\ \A e \in Coming(n) \cup Going(n) : edges'[e] = "unknown"
    BY <1>1 DEF Coming, Going, Into, OutOf, Graph
  <2>2. n # StartNode(given) => Coming(n) # {}
    BY <1>1, <1>2, NodesConnected DEF Coming
  <2>3. Into(Graph(given), StartNode(given)) = {}
    BY <1>1, <1>2, StartOfTemplate
  <2>4. CASE n = StartNode(given)
    <3>1. nodes'[n] = "ready"
      BY <1>1, <2>4
    <3> QED BY <1>1, <2>1, <2>4, <3>1 DEF NodeInv, Untried, Chose, Passed, Entitled, Waits
  <2>5. CASE n # StartNode(given)
    <3>1. nodes'[n] = "pending"
      BY <1>1, <2>5
    <3> QED BY <1>1, <2>1, <2>2, <2>5, <3>1 DEF NodeInv, Untried, Chose, Passed, Entitled, Waits
  <2> QED BY <2>4, <2>5
<1>5. \A n \in NodeIds(given') : NodeInv(n)'
  BY <1>1, <1>4
<1> QED BY <1>1, <1>3, <1>5 DEF ExecutionInv

LEMMA ExecutionGoesOn ==
  ASSUME ExecutionInv, ExecuteSome
  PROVE ExecutionInv'
<1>1. verdict = "accepted"
  BY DEF ExecuteSome
<1>2. PICK n \in DOMAIN nodes : \E sel \in Selections(given, n), S \in SUBSET (DOMAIN nodes \ {n}) : Execute(n, sel, S)
  BY DEF ExecuteSome
<1>3. PICK sel \in Selections(given, n), S \in SUBSET (DOMAIN nodes \ {n}) : Execute(n, sel, S)
  BY <1>2
<1>4. AdmissionTypeOK /\ DOMAIN nodes = NodeIds(given) /\ \A m \in NodeIds(given) : NodeInv(m)
  BY <1>1 DEF ExecutionInv, AdmissionTypeOK
<1>5. Executes(n, sel, S)
  BY <1>1, <1>3, <1>4, ExecuteChanges
<1>6. \A m \in NodeIds(given) : NodeInv(m)'
  BY <1>1, <1>3, <1>4, <1>5, NodesStay
<1>7. given' = given /\ verdict' = verdict /\ AdmissionTypeOK'
  BY <1>1, <1>5 DEF Executes, AdmissionTypeOK
<1> QED BY <1>1, <1>6, <1>7 DEF ExecutionInv

LEMMA ExecutionKept ==
  ASSUME ExecutionInv, UNCHANGED admissionVars
  PROVE ExecutionInv'
<1>1. given' = given /\ verdict' = verdict /\ nodes' = nodes /\ edges' = edges
  BY DEF admissionVars
<1>2. AdmissionTypeOK'
  BY <1>1 DEF ExecutionInv, AdmissionTypeOK
<1>3. ASSUME NEW n, NodeInv(n)
      PROVE NodeInv(n)'
  BY <1>1, <1>3 DEF NodeInv, Untried, Chose, Passed, Entitled, Waits, Coming, Going
<1> QED BY <1>1, <1>2, <1>3 DEF ExecutionInv

LEMMA StudyApart ==
  ASSUME Authoring \/ Binding \/ Executing
  PROVE UNCHANGED admissionVars
<1>1. CASE Authoring \/ Binding
  BY <1>1 DEF Authoring, Binding
<1>2. CASE Executing
  BY <1>2 DEF Executing, Start, Step, ResumeRoot, HostFails, LeaseExpires, RecoverChild, Interrupted,
              Crashed, Cancelled, Decide, Reject, Calmly, Shock, Decided, Apart
<1> QED BY <1>1, <1>2

(* However a template that compiled is executed, nodes and edges agree: no node is
   skipped while one of its edges is taken, none waits with all its edges decided, and
   the state of an execution is that of its template. *)
THEOREM ExecutionCorrect == Spec => []ExecutionInv
<1>1. Init => ExecutionInv
  BY DEF Init, AdmissionInit, ExecutionInv, AdmissionTypeOK
<1>2. ExecutionInv /\ [Next]_vars => ExecutionInv'
  <2> SUFFICES ASSUME ExecutionInv, [Next]_vars PROVE ExecutionInv'
    OBVIOUS
  <2>1. CASE Refuse
    <3>1. given' = given /\ verdict' = "refused" /\ verdict = "given"
      BY <2>1 DEF Refuse
    <3> QED BY <3>1 DEF ExecutionInv, AdmissionTypeOK
  <2>2. CASE Accept
    BY <2>2, ExecutionAccepted
  <2>3. CASE ExecuteSome
    BY <2>3, ExecutionGoesOn
  <2>4. CASE Authoring \/ Binding \/ Executing
    BY <2>4, StudyApart, ExecutionKept
  <2>5. CASE UNCHANGED vars
    BY <2>5, ExecutionKept DEF vars
  <2> QED BY <2>1, <2>2, <2>3, <2>4, <2>5 DEF Next, Studying, AdmissionNext
<1> QED BY <1>1, <1>2, PTL DEF Spec
-----------------------------------------------------------------------------
(* What the analyses of the compiler say of an execution. *)
Accepted == /\ AdmissionTypeOK /\ verdict = "accepted" /\ given \in Templates /\ NoCodes(given)
            /\ DOMAIN nodes = NodeIds(given) /\ \A n \in NodeIds(given) : NodeInv(n)
Active(n) == nodes[n] \in {"ready", "succeeded"}
Settled(n) == nodes[n] \in {"succeeded", "skipped"}

LEMMA AcceptedState ==
  ASSUME ExecutionInv, verdict = "accepted"
  PROVE Accepted
BY CompiledWithout DEF ExecutionInv, Accepted, AdmissionTypeOK

(* The ends of an edge. *)
LEMMA EdgeEnds ==
  ASSUME Accepted, NEW n \in NodeIds(given)
  PROVE /\ \A e \in Coming(n) : e.source \in NodeIds(given) /\ e \in Going(e.source) /\ edges[e] \in {"unknown", "taken", "skipped"}
        /\ \A e \in Going(n) : e.target \in NodeIds(given) /\ e \in Coming(e.target) /\ edges[e] \in {"unknown", "taken", "skipped"}
        /\ nodes[n] \in {"pending", "ready", "succeeded", "skipped"}
BY DEF Accepted, AdmissionTypeOK, Coming, Going, Into, OutOf, Graph, Links

(* A node that does not wait has nothing undecided before it. *)
LEMMA AncestorsDecided ==
  ASSUME Accepted, NEW n \in NodeIds(given), nodes[n] # "pending",
         NEW a \in Ancestors(Graph(given), Order(given))[n]
  PROVE a \in NodeIds(given) /\ Settled(a)
<1> DEFINE up == Ancestors(Graph(given), Order(given))
           T == {m \in NodeIds(given) : nodes[m] # "pending" => \A b \in up[m] : b \in NodeIds(given) /\ Settled(b)}
<1>1. ASSUME NEW m \in NodeIds(given), \A e \in Coming(m) : e.source \in T
      PROVE m \in T
  <2> SUFFICES ASSUME nodes[m] # "pending", NEW b \in up[m]
               PROVE b \in NodeIds(given) /\ Settled(b)
    OBVIOUS
  <2>1. up[m] = AncestorsOf(Graph(given), up, m)
    <3>1. PICK i \in DOMAIN Order(given) : Order(given)[i] = m
      BY OrderOfTemplate DEF Accepted
    <3> QED BY <3>1, AncestorsSolve, GraphOfTemplate, OrderOfTemplate DEF Accepted
  <2>2. PICK e \in Coming(m) : b \in up[e.source] \/ b = e.source
    <3> HIDE DEF up
    <3> QED BY <2>1 DEF AncestorsOf, Coming
  <2>3. edges[e] # "unknown"
    <3>1. m # StartNode(given)
      BY <2>2, StartOfTemplate DEF Accepted, Coming
    <3>2. nodes[m] \in {"ready", "succeeded", "skipped"} /\ NodeInv(m)
      BY EdgeEnds DEF Accepted
    <3> QED BY <2>2, <3>1, <3>2 DEF NodeInv, Passed, Entitled
  <2>4. e.source \in NodeIds(given) /\ Settled(e.source)
    <3>1. e.source \in NodeIds(given) /\ e \in Going(e.source)
      BY <2>2, EdgeEnds
    <3>2. NodeInv(e.source) /\ nodes[e.source] \in {"pending", "ready", "succeeded", "skipped"}
      BY <3>1, EdgeEnds DEF Accepted
    <3> QED BY <2>3, <3>1, <3>2 DEF NodeInv, Untried, Settled
  <2>5. nodes[e.source] # "pending" /\ e.source \in T
    BY <1>1, <2>2, <2>4 DEF Settled
  <2> QED BY <2>2, <2>4, <2>5
<1>2. \A m \in NodeIds(given) : m \in T
  <2> HIDE DEF T
  <2> QED BY <1>1, Downstream DEF Accepted, Coming
<1> QED BY <1>2

(* A node that is to be executed has the nodes behind it that every path to it passes. *)
LEMMA DominatorsActive ==
  ASSUME Accepted, NEW n \in NodeIds(given), Active(n),
         NEW d \in Dominators(Graph(given), Order(given), StartNode(given))[n]
  PROVE Active(d)
<1> DEFINE over == Dominators(Graph(given), Order(given), StartNode(given))
           T == {m \in NodeIds(given) : Active(m) => \A b \in over[m] : Active(b)}
<1>1. ASSUME NEW m \in NodeIds(given), \A e \in Coming(m) : e.source \in T
      PROVE m \in T
  <2> SUFFICES ASSUME Active(m), NEW b \in over[m]
               PROVE Active(b)
    OBVIOUS
  <2>1. over[m] = DominatorsOf(Graph(given), StartNode(given), over, m)
    <3>1. PICK i \in DOMAIN Order(given) : Order(given)[i] = m
      BY OrderOfTemplate DEF Accepted
    <3> QED BY <3>1, DominatorsSolve, GraphOfTemplate, OrderOfTemplate DEF Accepted
  <2>2. CASE b = m
    BY <2>2
  <2>3. CASE b # m
    <3>1. m # StartNode(given) /\ \A e \in Coming(m) : b \in over[e.source]
      <4> HIDE DEF over
      <4> QED BY <2>1, <2>3 DEF DominatorsOf, Coming
    <3>2. PICK e \in Coming(m) : edges[e] = "taken"
      BY <3>1 DEF Accepted, NodeInv, Entitled, Active
    <3>3. e.source \in NodeIds(given) /\ e \in Going(e.source)
      BY EdgeEnds
    <3>4. NodeInv(e.source) /\ nodes[e.source] \in {"pending", "ready", "succeeded", "skipped"}
      BY <3>3, EdgeEnds DEF Accepted
    <3>5. Active(e.source)
      BY <3>2, <3>3, <3>4 DEF NodeInv, Untried, Passed, Active
    <3> QED BY <1>1, <3>1, <3>5
  <2> QED BY <2>2, <2>3
<1>2. \A m \in NodeIds(given) : m \in T
  <2> HIDE DEF T
  <2> QED BY <1>1, Downstream DEF Accepted, Coming
<1> QED BY <1>2

(* A node that the start is bound to reach is never skipped. *)
LEMMA GuaranteedReached ==
  ASSUME Accepted, NEW goal \in Guaranteed(Graph(given), Order(given), StartNode(given))
  PROVE nodes[goal] # "skipped"
<1> SUFFICES ASSUME nodes[goal] = "skipped"
             PROVE FALSE
  OBVIOUS
<1> DEFINE L == Leading(Graph(given), Order(given), goal)
<1>1. goal \in NodeIds(given) /\ StartNode(given) \in L /\ StartNode(given) \in NodeIds(given)
  BY GraphOfTemplate, StartOfTemplate DEF Accepted, Guaranteed
<1>2. ASSUME NEW m \in L
      PROVE m \in NodeIds(given) /\ (m = goal \/ EveryPort(Graph(given), m, L))
  BY <1>1, GraphOfTemplate, OrderOfTemplate, MustReachSolves DEF Accepted
<1> HIDE DEF L
<1>3. ASSUME NEW m \in L, m # goal
      PROVE /\ Def(given, m).ports # {}
            /\ \A p \in Def(given, m).ports : \E e \in Going(m) : e.port = p /\ e.target \in L
  BY <1>2, <1>3, PortsOfTemplate DEF Accepted, EveryPort, Going
<1> DEFINE T == {m \in NodeIds(given) : m \in L => Settled(m)}
<1>4. ASSUME NEW m \in NodeIds(given), \A e \in Going(m) : e.target \in T
      PROVE m \in T
  <2> SUFFICES ASSUME m \in L, m # goal
               PROVE Settled(m)
    BY DEF Settled
  <2>1. PICK e \in Going(m) : e.target \in L
    BY <1>3
  <2>2. e.target \in NodeIds(given) /\ e \in Coming(e.target) /\ Settled(e.target)
    BY <1>4, <2>1, EdgeEnds
  <2>3. edges[e] # "unknown"
    <3>1. NodeInv(e.target) /\ e.target # StartNode(given)
      BY <2>2, StartOfTemplate DEF Accepted, Coming
    <3> QED BY <2>2, <3>1 DEF NodeInv, Passed, Entitled, Settled
  <2> QED BY <2>3, EdgeEnds DEF Accepted, NodeInv, Untried, Settled
<1>5. \A m \in NodeIds(given) : m \in T
  <2> HIDE DEF T
  <2> QED BY <1>4, Upstream DEF Accepted, Going
<1> DEFINE U == {m \in NodeIds(given) : m \in L => nodes[m] = "skipped"}
<1>6. ASSUME NEW m \in NodeIds(given), \A e \in Going(m) : e.target \in U
      PROVE m \in U
  <2> SUFFICES ASSUME m \in L, m # goal, nodes[m] # "skipped"
               PROVE FALSE
    OBVIOUS
  <2>1. nodes[m] = "succeeded"
    BY <1>5 DEF Settled
  <2>2. PICK p \in Def(given, m).ports : \A e \in Going(m) : e.port = p => edges[e] = "taken"
    BY <2>1 DEF Accepted, NodeInv, Chose
  <2>3. PICK e \in Going(m) : e.port = p /\ e.target \in L
    BY <1>3
  <2>4. e.target \in NodeIds(given) /\ e \in Coming(e.target) /\ nodes[e.target] = "skipped"
    BY <1>6, <2>3, EdgeEnds
  <2> QED BY <2>2, <2>3, <2>4 DEF Accepted, NodeInv, Passed
<1>7. \A m \in NodeIds(given) : m \in U
  <2> HIDE DEF U
  <2> QED BY <1>6, Upstream DEF Accepted, Going
<1> QED BY <1>1, <1>7 DEF Accepted, NodeInv, Passed
-----------------------------------------------------------------------------
(* A node that is executed finds the outputs that its inputs are bound to, whatever
   branches were taken: BINDING_SOURCE_UNAVAILABLE never happens to a template that
   compiled (SourcesResolve; resolveNodeInputs of core/engine.ts). *)
THEOREM BindingsHaveSources == Spec => []SourcesResolve
<1>1. ExecutionInv => SourcesResolve
  <2> SUFFICES ASSUME ExecutionInv, verdict = "accepted", NEW n \in DOMAIN nodes,
                      nodes[n] \in {"ready", "succeeded"}, NEW source \in SourcesOf(Node(given, n).inputs)
               PROVE nodes[source] = "succeeded"
    BY DEF SourcesResolve
  <2>1. Accepted /\ n \in NodeIds(given) /\ Active(n)
    BY AcceptedState DEF Accepted, Active
  <2>2. /\ source \in NodeIds(given)
        /\ source \in Ancestors(Graph(given), Order(given))[n]
        /\ \/ source \in Dominators(Graph(given), Order(given), StartNode(given))[n]
           \/ source \in Guaranteed(Graph(given), Order(given), StartNode(given))
    BY <2>1, InputsOfTemplate DEF Accepted
  <2>3. Settled(source)
    BY <2>1, <2>2, AncestorsDecided
  <2>4. nodes[source] # "skipped"
    BY <2>1, <2>2, DominatorsActive, GuaranteedReached DEF Active
  <2> QED BY <2>3, <2>4 DEF Settled
<1> QED BY <1>1, ExecutionCorrect, PTL

(* At rest no node waits. *)
LEMMA NoneWaits ==
  ASSUME Accepted, AtRest, NEW n \in NodeIds(given)
  PROVE Settled(n)
<1> DEFINE T == {m \in NodeIds(given) : Settled(m)}
<1>1. ASSUME NEW m \in NodeIds(given), \A e \in Coming(m) : e.source \in T
      PROVE m \in T
  <2>1. nodes[m] \in {"pending", "succeeded", "skipped"} /\ NodeInv(m)
    BY EdgeEnds DEF Accepted, AtRest
  <2> SUFFICES ASSUME nodes[m] = "pending"
               PROVE FALSE
    BY <2>1 DEF Settled
  <2>2. PICK e \in Coming(m) : edges[e] = "unknown"
    BY <2>1 DEF NodeInv, Waits
  <2>3. e.source \in NodeIds(given) /\ e \in Going(e.source) /\ Settled(e.source)
    BY <1>1, <2>2, EdgeEnds
  <2> QED BY <2>2, <2>3 DEF Accepted, NodeInv, Chose, Passed, Settled
<1>2. \A m \in NodeIds(given) : m \in T
  <2> HIDE DEF T
  <2> QED BY <1>1, Downstream DEF Accepted, Coming
<1> QED BY <1>2

(* A node without unconnected ports that was executed hands on to another one. *)
LEMMA HandedOn ==
  ASSUME Accepted, AtRest, NEW n \in NodeIds(given), nodes[n] = "succeeded",
         Def(given, n).builtin, n \notin WithRole(given, "end")
  PROVE \E e \in Going(n) : nodes[e.target] = "succeeded"
<1>1. PICK p \in Def(given, n).ports : \A e \in Going(n) : e.port = p => edges[e] = "taken"
  BY DEF Accepted, NodeInv, Chose
<1>2. \E e \in Going(n) : e.port = p
  <2>1. Def(given, n) \in {Definitions[d] : d \in DOMAIN Definitions}
    BY EveryNodeKnown DEF Accepted, Known, Def
  <2>2. /\ IsFiniteSet(Def(given, n).ports)
        /\ \/ Cardinality(Def(given, n).ports) = 1
           \/ Def(given, n).ports \subseteq Def(given, n).required
    BY <2>1, RegistryAssumption DEF RegistryAssumption
  <2>3. CASE Cardinality(Def(given, n).ports) = 1
    <3>1. PICK e \in Going(n) : TRUE
      BY NodesConnected DEF Accepted, Going
    <3>2. e.port \in Def(given, n).ports
      BY PortsOfTemplate DEF Accepted, Going
    <3>3. e.port = p
      BY <2>2, <2>3, <3>2, FS_Singleton
    <3> QED BY <3>3
  <2>4. CASE Def(given, n).ports \subseteq Def(given, n).required
    BY <2>4, PortsOfTemplate DEF Accepted, Going
  <2> QED BY <2>2, <2>3, <2>4
<1>3. PICK e \in Going(n) : edges[e] = "taken"
  BY <1>1, <1>2
<1>4. e.target \in NodeIds(given) /\ e \in Coming(e.target)
  BY EdgeEnds
<1>5. nodes[e.target] # "skipped"
  BY <1>3, <1>4 DEF Accepted, NodeInv, Passed
<1> QED BY <1>4, <1>5, NoneWaits DEF Settled

(* When nothing is left to execute every node was executed or skipped, the outputs of
   the workflow have their sources, and an end was executed unless a node may leave by a
   port without an edge (EveryPathEnds; the end of execute in core/engine.ts). *)
THEOREM PathsEnd == Spec => []EveryPathEnds
<1>1. ExecutionInv => EveryPathEnds
  <2> SUFFICES ASSUME ExecutionInv, AtRest
               PROVE /\ \A n \in DOMAIN nodes : nodes[n] \in {"succeeded", "skipped"}
                     /\ \A source \in SourcesOf(given.outputs) : nodes[source] = "succeeded"
                     /\ (\A n \in DOMAIN nodes : Def(given, n).builtin)
                          => \E n \in WithRole(given, "end") : nodes[n] = "succeeded"
    BY DEF EveryPathEnds
  <2>1. Accepted
    BY AcceptedState DEF AtRest
  <2>2. \A n \in NodeIds(given) : Settled(n)
    BY <2>1, NoneWaits
  <2>3. ASSUME NEW source \in SourcesOf(given.outputs)
        PROVE nodes[source] = "succeeded"
    <3>1. source \in NodeIds(given) /\ source \in Guaranteed(Graph(given), Order(given), StartNode(given))
      BY <2>1, OutputsOfTemplate DEF Accepted
    <3> QED BY <2>1, <2>2, <3>1, GuaranteedReached DEF Settled
  <2>4. ASSUME \A n \in DOMAIN nodes : Def(given, n).builtin
        PROVE \E n \in WithRole(given, "end") : nodes[n] = "succeeded"
    <3> SUFFICES ASSUME \A n \in WithRole(given, "end") : nodes[n] # "succeeded"
                 PROVE FALSE
      OBVIOUS
    <3> DEFINE T == {m \in NodeIds(given) : nodes[m] # "succeeded"}
    <3>1. ASSUME NEW m \in NodeIds(given), \A e \in Going(m) : e.target \in T
          PROVE m \in T
      BY <2>1, <2>4, <3>1, HandedOn DEF Accepted
    <3>2. \A m \in NodeIds(given) : m \in T
      <4> HIDE DEF T
      <4> QED BY <2>1, <3>1, Upstream DEF Accepted, Going
    <3>3. StartNode(given) \in NodeIds(given) /\ nodes[StartNode(given)] # "skipped"
      BY <2>1, StartOfTemplate DEF Accepted, NodeInv, Passed
    <3> QED BY <2>2, <3>2, <3>3 DEF Settled
  <2> QED BY <2>1, <2>2, <2>3, <2>4 DEF Accepted, Settled
<1> QED BY <1>1, ExecutionCorrect, PTL
-----------------------------------------------------------------------------
(* The graph that is executed is a workflow graph in the sense of WorkflowGraph, ranked by
   the order of the compiler: what the proofs about DagEngine assume (GraphAssumption) is
   what a compilation without diagnostics establishes. *)
THEOREM CompiledGraphs == Spec => [](verdict = "accepted" => G!IsWorkflowGraph)
<1>1. ExecutionInv => (verdict = "accepted" => G!IsWorkflowGraph)
  <2> SUFFICES ASSUME ExecutionInv, verdict = "accepted"
               PROVE G!IsWorkflowGraph
    OBVIOUS
  <2> DEFINE order == Order(given)
             g == Graph(given)
             rank == Position(given)
  <2>1. Accepted /\ DOMAIN edges = Links(given) /\ DOMAIN nodes = NodeIds(given)
    BY AcceptedState DEF Accepted, AdmissionTypeOK
  <2>2. /\ GraphOK(g) /\ g.nodes = NodeIds(given) /\ g.links = Links(given)
        /\ Sorted(g, order) /\ \A n \in NodeIds(given) : \E i \in DOMAIN order : order[i] = n
    BY <2>1, GraphOfTemplate, OrderOfTemplate DEF Accepted
  <2>3. /\ order \in Seq(NodeIds(given)) /\ DOMAIN order = 1 .. Len(order) /\ Len(order) \in Nat
        /\ \A i, j \in DOMAIN order : order[i] = order[j] => i = j
        /\ \A i \in DOMAIN order : \A e \in Into(g, order[i]) :
             \E j \in DOMAIN order : j < i /\ order[j] = e.source
    BY <2>2 DEF Sorted
  <2>4. rank = [n \in NodeIds(given) |-> CHOOSE i \in DOMAIN order : order[i] = n]
    BY DEF Position, Order
  <2> HIDE DEF order, rank
  <2>5. \A n \in NodeIds(given) : rank[n] \in DOMAIN order /\ order[rank[n]] = n
    BY <2>2, <2>4
  <2>6. rank \in [NodeIds(given) -> Nat] /\ \A m, n \in NodeIds(given) : rank[m] = rank[n] => m = n
    BY <2>3, <2>4, <2>5
  <2>7. ASSUME NEW e \in Links(given)
        PROVE /\ e.source \in NodeIds(given) /\ e.target \in NodeIds(given)
              /\ rank[e.source] < rank[e.target] /\ e.target # StartNode(given)
    <3>1. e.source \in NodeIds(given) /\ e.target \in NodeIds(given) /\ e \in Into(g, e.target)
      BY <2>2 DEF GraphOK, Into
    <3>2. PICK j \in DOMAIN order : j < rank[e.target] /\ order[j] = e.source
      BY <2>3, <2>5, <3>1
    <3>3. rank[e.source] = j
      BY <2>3, <2>5, <3>1, <3>2
    <3>4. e.target # StartNode(given)
      BY <2>1, <3>1, StartOfTemplate DEF Accepted
    <3> QED BY <3>1, <3>2, <3>3, <3>4
  <2>8. StartNode(given) \in NodeIds(given) /\ IsFiniteSet(NodeIds(given))
    BY <2>1, <2>2, StartOfTemplate DEF Accepted, GraphOK
  <2> DEFINE src == [e \in DOMAIN edges |-> e.source]
             dst == [e \in DOMAIN edges |-> e.target]
  <2>9. /\ src \in [DOMAIN edges -> DOMAIN nodes] /\ dst \in [DOMAIN edges -> DOMAIN nodes]
        /\ \A e \in DOMAIN edges : rank[src[e]] < rank[dst[e]] /\ dst[e] # StartNode(given)
    BY <2>1, <2>7
  <2> HIDE DEF src, dst
  <2>10. /\ IsFiniteSet(DOMAIN nodes) /\ StartNode(given) \in DOMAIN nodes
         /\ src \in [DOMAIN edges -> DOMAIN nodes] /\ dst \in [DOMAIN edges -> DOMAIN nodes]
         /\ rank \in [DOMAIN nodes -> Nat]
         /\ \A m, n \in DOMAIN nodes : rank[m] = rank[n] => m = n
         /\ \A e \in DOMAIN edges : rank[src[e]] < rank[dst[e]]
         /\ \A e \in DOMAIN edges : dst[e] # StartNode(given)
    BY <2>1, <2>6, <2>8, <2>9
  <2>11. G!IsFiniteSet(DOMAIN nodes)
    BY <2>10 DEF G!IsFiniteSet, IsFiniteSet
  <2> QED BY <2>10, <2>11 DEF G!IsWorkflowGraph, rank, src, dst
<1> QED BY <1>1, ExecutionCorrect, PTL
=============================================================================
