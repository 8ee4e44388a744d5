---------------------------- MODULE HostingProofs ----------------------------
(***************************************************************************)
(* The background side of the system for any number of runs, calls and     *)
(* workers: what a delivery record promises, what the store promises, and  *)
(* that a cancellation tells the truth.                                    *)
(***************************************************************************)
EXTENDS Hosting, FiniteSetTheorems, SequenceTheorems, WellFoundedInduction, TLAPS

-----------------------------------------------------------------------------
(* Sequences: the rows of the queue and the records that are received, in their order. *)

(* The least index is one of the indices: what Min stands for in the queue's order of
   claims and in the library's removals. *)
LEMMA MinIsIn ==
  ASSUME NEW S \in SUBSET Nat, S # {}
  PROVE  Min(S) \in S
  <1>1. PICK m \in S : \A k \in S : ~(<<k, m>> \in OpToRel(<, Nat))
    BY NatLessThanWellFounded, WFMin
  <1>2. \A k \in S : <<k, m>> \in OpToRel(<, Nat) <=> k < m
    BY DEF OpToRel
  <1>3. \A k \in S : ~(k < m)
    BY <1>1, <1>2, Zenon
  <1>4. \A k \in S : m <= k
    BY <1>3
  <1> QED
    BY <1>4 DEF Min

(* A sequence without its element i. *)
LEMMA RemoveAtIs ==
  ASSUME NEW S, NEW s \in Seq(S), NEW i \in 1 .. Len(s)
  PROVE  /\ RemoveAt(s, i) \in Seq(S)
         /\ Len(RemoveAt(s, i)) = Len(s) - 1
         /\ \A j \in 1 .. Len(s) - 1 :
              RemoveAt(s, i)[j] = IF j < i THEN s[j] ELSE s[j + 1]
  <1> DEFINE a == SubSeq(s, 1, i - 1)
             b == SubSeq(s, i + 1, Len(s))
  <1>1. a \in Seq(S) /\ Len(a) = i - 1 /\ \A j \in 1 .. i - 1 : a[j] = s[j]
    BY DEF a
  <1>2. b \in Seq(S) /\ Len(b) = Len(s) - i /\ \A j \in 1 .. Len(s) - i : b[j] = s[i + j]
    BY DEF b
  <1>3. RemoveAt(s, i) = a \o b
    BY DEF RemoveAt
  <1> HIDE DEF a, b
  <1>4. /\ a \o b \in Seq(S) /\ Len(a \o b) = Len(a) + Len(b)
        /\ \A j \in 1 .. Len(a) + Len(b) : (a \o b)[j] = IF j <= Len(a) THEN a[j] ELSE b[j - Len(a)]
    BY <1>1, <1>2, ConcatProperties
  <1>5. ASSUME NEW j \in 1 .. Len(s) - 1
        PROVE  (a \o b)[j] = IF j < i THEN s[j] ELSE s[j + 1]
    <2>1. CASE j < i
      BY <2>1, <1>1, <1>2, <1>4
    <2>2. CASE ~(j < i)
      <3>1. (a \o b)[j] = b[j - (i - 1)] /\ j - (i - 1) \in 1 .. Len(s) - i
        BY <2>2, <1>1, <1>2, <1>4
      <3>2. b[j - (i - 1)] = s[i + (j - (i - 1))] /\ i + (j - (i - 1)) = j + 1
        BY <3>1, <1>2
      <3> QED
        BY <2>2, <3>1, <3>2
    <2> QED
      BY <2>1, <2>2
  <1> QED
    BY <1>1, <1>2, <1>3, <1>4, <1>5

(* The record of an event leaves the listing of what is received, if it is in it. *)
LEMMA RemoveFirstIs ==
  ASSUME NEW S, NEW s \in Seq(S), NEW e
  PROVE  \/ RemoveFirst(s, e) = s /\ \A i \in 1 .. Len(s) : s[i] # e
         \/ \E i \in 1 .. Len(s) : s[i] = e /\ RemoveFirst(s, e) = RemoveAt(s, i)
  <1>1. CASE ~ \E i \in 1 .. Len(s) : s[i] = e
    BY <1>1 DEF RemoveFirst
  <1>2. CASE \E i \in 1 .. Len(s) : s[i] = e
    <2> DEFINE I == {i \in 1 .. Len(s) : s[i] = e}
    <2>1. I \in SUBSET Nat /\ I # {}
      BY <1>2
    <2> HIDE DEF I
    <2>3. Min(I) \in I
      BY <2>1, MinIsIn
    <2>2. RemoveFirst(s, e) = RemoveAt(s, Min(I))
      BY <1>2 DEF RemoveFirst, SelectInSeq, I
    <2> QED
      BY <2>3, <2>2 DEF I
  <1> QED
    BY <1>1, <1>2

(* Where each run or event occurs once, there are at most as many entries as runs. *)
LEMMA DistinctIsShort ==
  ASSUME NEW S, IsFiniteSet(S), NEW s \in Seq(S),
         \A i, j \in DOMAIN s : s[i] = s[j] => i = j
  PROVE  Len(s) <= Cardinality(S)
  <1> DEFINE n == Len(s)
  <1>1. n \in Nat /\ DOMAIN s = 1 .. n /\ s \in [1 .. n -> S]
    OBVIOUS
  <1>2. s \in Injection(1 .. n, S)
    BY <1>1 DEF Injection, IsInjective
  <1>3. Cardinality(1 .. n) <= Cardinality(S)
    BY <1>2, FS_Injection
  <1>4. Cardinality(1 .. n) = n
    BY <1>1, FS_Interval
  <1>6. Cardinality(S) \in Nat
    BY FS_CardinalityType
  <1> QED
    BY <1>1, <1>3, <1>4, <1>6

(* The type of a bounded sequence, from its elements and its length. *)
LEMMA BoundedIs ==
  ASSUME NEW S, NEW n \in Nat, NEW s \in Seq(S), Len(s) <= n
  PROVE  s \in BoundedSeq(S, n)
  <1>1. s \in [1 .. Len(s) -> S] /\ Len(s) \in 0 .. n
    OBVIOUS
  <1> QED
    BY <1>1 DEF BoundedSeq, SeqOf

-----------------------------------------------------------------------------
(* Delivery.  An attempt is numbered by the compare-and-set that saves it, so the base a
   deliverer holds between its awaits is either the last attempt or an older one. *)

Outbox == [status : {"none", "pending", "delivered", "unknown"},
           attempts : 0 .. MaxAttempts, payload : Payloads \cup {"none"}]
Sending == [pc : {"none", "get", "save", "call", "mark"}, run : Runs,
            payload : Payloads \cup {"none"}, base : 0 .. MaxAttempts, answered : BOOLEAN]
Posts == [called : SUBSET (1 .. MaxAttempts), calls : Nat, answered : SUBSET (1 .. MaxAttempts)]

DeliveryShape == /\ outbox \in [Runs -> Outbox]
                 /\ sending \in [Deliverers -> Sending]
                 /\ posts \in [Runs -> Posts]

\* The gateway has been called for attempts that are saved, once for each.
OutboxOK(r) ==
  /\ outbox[r].status = "none" <=> outbox[r].attempts = 0
  /\ outbox[r].status = "delivered" => outbox[r].attempts \in posts[r].answered
  /\ \A n \in posts[r].called : n <= outbox[r].attempts
  /\ posts[r].calls = Cardinality(posts[r].called)

\* Where a deliverer is, its base is not ahead of the record, and its call is to come.
SendOK(d) ==
  LET s == sending[d]
      o == outbox[s.run]
  IN /\ s.pc = "save" => /\ s.base <= o.attempts
                         /\ o.attempts = s.base /\ o.status # "none" => o.payload = s.payload
     /\ s.pc \in {"call", "mark"} => s.base + 1 <= o.attempts
     /\ s.pc = "call" => s.base + 1 \notin posts[s.run].called
     /\ s.pc = "mark" /\ s.answered => s.base + 1 \in posts[s.run].answered

\* Two processes that are about to call for the same run do so for different attempts.
CallsDiffer ==
  \A d1, d2 \in Deliverers :
    /\ sending[d1].pc = "call" /\ sending[d2].pc = "call"
    /\ sending[d1].run = sending[d2].run
    /\ sending[d1].base = sending[d2].base
    => d1 = d2

DeliveryInv == /\ DeliveryShape
               /\ \A r \in Runs : OutboxOK(r)
               /\ \A d \in Deliverers : SendOK(d)
               /\ CallsDiffer

(* There is a run to be at while nothing is done. *)
LEMMA SomeRun == (CHOOSE r \in Runs : TRUE) \in Runs
  BY BoundsAssumption

(* A deliverer that is done is in a state of its type. *)
LEMMA NotSendingType == ASSUME NEW r \in Runs PROVE NotSending(r) \in Sending
  <1>1. 0 \in 0 .. MaxAttempts
    BY BoundsAssumption
  <1> QED
    BY <1>1 DEF NotSending, Sending

(* Nothing is promised and nobody delivers when the system starts. *)
LEMMA DeliveryInitOK == DeliveryInit => DeliveryInv
  <1> SUFFICES ASSUME DeliveryInit PROVE DeliveryInv
    OBVIOUS
  <1> USE DEF DeliveryInit, NoRecord, NotSending
  <1>1. DeliveryShape
    <2>1. outbox \in [Runs -> Outbox]
      BY BoundsAssumption DEF Outbox
    <2>2. sending \in [Deliverers -> Sending]
      <3> HIDE DEF NotSending
      <3> QED
        BY SomeRun, NotSendingType
    <2>3. posts \in [Runs -> Posts]
      BY DEF Posts
    <2> QED
      BY <2>1, <2>2, <2>3 DEF DeliveryShape
  <1>2. ASSUME NEW r \in Runs PROVE OutboxOK(r)
    BY FS_EmptySet, BoundsAssumption DEF OutboxOK
  <1>3. \A d \in Deliverers : SendOK(d)
    BY DEF SendOK
  <1>4. CallsDiffer
    BY DEF CallsDiffer
  <1> QED
    BY <1>1, <1>2, <1>3, <1>4 DEF DeliveryInv

(* A deliverer that goes to a state with nothing saved or called in it, because it
   starts, ends or dies, disturbs nobody. *)
LEMMA MovingAway ==
  ASSUME DeliveryInv, sending' \in [Deliverers -> Sending], UNCHANGED <<outbox, posts>>,
         \A d \in Deliverers : sending'[d] = sending[d] \/ sending'[d].pc \in {"none", "get"}
  PROVE  DeliveryInv'
  <1>1. DeliveryShape'
    BY DEF DeliveryInv, DeliveryShape
  <1>2. ASSUME NEW r \in Runs PROVE OutboxOK(r)'
    BY DEF DeliveryInv, OutboxOK
  <1>3. ASSUME NEW d \in Deliverers PROVE SendOK(d)'
    <2>1. CASE sending'[d] = sending[d]
      BY <2>1 DEF DeliveryInv, SendOK
    <2>2. CASE sending'[d].pc \in {"none", "get"}
      BY <2>2 DEF SendOK
    <2> QED
      BY <2>1, <2>2
  <1>4. CallsDiffer'
    BY DEF DeliveryInv, CallsDiffer
  <1> QED
    BY <1>1, <1>2, <1>3, <1>4 DEF DeliveryInv

(* deliver starts: from the worker that has a result, from the operator's retry. *)
LEMMA StartDeliveryOK ==
  ASSUME DeliveryInv, UNCHANGED <<outbox, posts>>,
         NEW d \in Deliverers, NEW r \in Runs, NEW p \in Payloads \cup {"none"},
         StartDelivery(d, r, p)
  PROVE  DeliveryInv'
  <1>1. sending' \in [Deliverers -> Sending]
    <2>1. ASSUME NEW y \in Sending PROVE [y EXCEPT !.pc = "get", !.payload = p] \in Sending
      BY DEF Sending
    <2> QED
      BY <2>1, NotSendingType DEF DeliveryInv, DeliveryShape, StartDelivery
  <1>2. \A c \in Deliverers : sending'[c] = sending[c] \/ sending'[c].pc \in {"none", "get"}
    BY DEF DeliveryInv, DeliveryShape, StartDelivery, NotSending
  <1> QED
    BY <1>1, <1>2, MovingAway

(* Senders die with their process. *)
LEMMA SendersDieOK ==
  ASSUME DeliveryInv, UNCHANGED <<outbox, posts>>, NEW D, SendersDie(D)
  PROVE  DeliveryInv'
  <1>1. sending' \in [Deliverers -> Sending]
    <2>1. \A d \in Deliverers : NotSending(sending[d].run) \in Sending
      BY NotSendingType DEF DeliveryInv, DeliveryShape, Sending
    <2> QED
      BY <2>1 DEF DeliveryInv, DeliveryShape, SendersDie
  <1>2. \A c \in Deliverers : sending'[c] = sending[c] \/ sending'[c].pc \in {"none", "get"}
    BY DEF SendersDie, NotSending
  <1> QED
    BY <1>1, <1>2, MovingAway

(* The record is looked at: an answer, a conflict, or the base of an attempt. *)
LEMMA GetRecordOK ==
  ASSUME DeliveryInv, NEW d \in Deliverers, GetRecord(d)
  PROVE  DeliveryInv'
  <1> DEFINE s == sending[d]
             o == outbox[s.run]
  <1>0. s \in Sending /\ s.run \in Runs /\ o \in Outbox
    BY DEF DeliveryInv, DeliveryShape, Sending
  <1>1. CASE (o.status # "none" /\ o.payload # s.payload) \/ o.status = "delivered"
    <2>1. sending' \in [Deliverers -> Sending]
      BY <1>0, <1>1, NotSendingType DEF DeliveryInv, DeliveryShape, GetRecord, Ended
    <2>2. \A c \in Deliverers : sending'[c] = sending[c] \/ sending'[c].pc \in {"none", "get"}
      BY <1>1 DEF DeliveryInv, DeliveryShape, GetRecord, Ended, NotSending
    <2> QED
      BY <2>1, <2>2, MovingAway DEF GetRecord
  <1>2. CASE ~((o.status # "none" /\ o.payload # s.payload) \/ o.status = "delivered")
    <2>1. sending' = [sending EXCEPT ![d] = [s EXCEPT !.pc = "save", !.base = o.attempts]]
      BY <1>2 DEF GetRecord, DeliveryInv, DeliveryShape
    <2>2. UNCHANGED <<outbox, posts>>
      BY DEF GetRecord
    <2>3. DeliveryShape'
      BY <2>1, <2>2, <1>0 DEF DeliveryInv, DeliveryShape, Sending, Outbox
    <2>4. ASSUME NEW r \in Runs PROVE OutboxOK(r)'
      BY <2>2 DEF DeliveryInv, OutboxOK
    <2>5. ASSUME NEW c \in Deliverers PROVE SendOK(c)'
      <3>1. CASE c = d
        <4>1. /\ sending'[c].pc = "save" /\ sending'[c].base = o.attempts
              /\ sending'[c].run = s.run /\ sending'[c].payload = s.payload
          BY <3>1, <2>1, <1>0 DEF DeliveryInv, DeliveryShape, Sending
        <4> QED
          BY <4>1, <2>2, <1>2, <1>0 DEF SendOK, Outbox
      <3>2. CASE c # d
        BY <3>2, <2>1, <2>2 DEF SendOK, DeliveryInv, DeliveryShape
      <3> QED
        BY <3>1, <3>2
    <2>6. CallsDiffer'
      BY <2>1, <1>0 DEF CallsDiffer, DeliveryInv, DeliveryShape, Sending
    <2> QED
      BY <2>3, <2>4, <2>5, <2>6 DEF DeliveryInv
  <1> QED
    BY <1>1, <1>2

(* An attempt is saved by a compare-and-set on the number of the last one: all calls
   that were made or are to be made are for earlier attempts. *)
LEMMA SavePendingOK ==
  ASSUME DeliveryInv, NEW d \in Deliverers, SavePending(d)
  PROVE  DeliveryInv'
  <1> DEFINE s == sending[d]
             o == outbox[s.run]
  <1>0. s \in Sending /\ s.run \in Runs /\ o \in Outbox /\ s.pc = "save" /\ UNCHANGED posts
    BY DEF DeliveryInv, DeliveryShape, Sending, SavePending
  <1>1. CASE ~(o.attempts = s.base /\ s.base < MaxAttempts)
    <2>1. sending' \in [Deliverers -> Sending]
      BY <1>0, <1>1, NotSendingType DEF DeliveryInv, DeliveryShape, SavePending, Ended
    <2>2. \A c \in Deliverers : sending'[c] = sending[c] \/ sending'[c].pc \in {"none", "get"}
      BY <1>1 DEF DeliveryInv, DeliveryShape, SavePending, Ended, NotSending
    <2> QED
      BY <1>1, <2>1, <2>2, MovingAway DEF SavePending
  <1>2. CASE o.attempts = s.base /\ s.base < MaxAttempts
    <2> DEFINE o1 == [status |-> "pending", attempts |-> s.base + 1, payload |-> s.payload]
    <2>1. /\ outbox' = [outbox EXCEPT ![s.run] = o1]
          /\ sending' = [sending EXCEPT ![d] = [s EXCEPT !.pc = "call"]]
      BY <1>2 DEF SavePending, DeliveryInv, DeliveryShape
    <2>2. o1 \in Outbox /\ [s EXCEPT !.pc = "call"] \in Sending
      BY <1>0, <1>2, BoundsAssumption DEF Outbox, Sending
    <2>3. /\ outbox'[s.run] = o1
          /\ \A r \in Runs \ {s.run} : outbox'[r] = outbox[r]
          /\ sending'[d] = [s EXCEPT !.pc = "call"]
          /\ \A c \in Deliverers \ {d} : sending'[c] = sending[c]
      BY <2>1, <1>0 DEF DeliveryInv, DeliveryShape
    <2>4. DeliveryShape'
      BY <2>1, <2>2, <1>0 DEF DeliveryInv, DeliveryShape
    <2>5. ASSUME NEW n \in posts[s.run].called PROVE n \in Nat /\ n <= s.base
      BY <1>0, <1>2, BoundsAssumption DEF DeliveryInv, DeliveryShape, OutboxOK, Posts
    <2>6. ASSUME NEW r \in Runs PROVE OutboxOK(r)'
      <3>1. CASE r = s.run
        BY <3>1, <2>3, <2>5, <1>0 DEF OutboxOK, DeliveryInv, Sending
      <3>2. CASE r # s.run
        BY <3>2, <2>3, <1>0 DEF OutboxOK, DeliveryInv
      <3> QED
        BY <3>1, <3>2
    <2>7. ASSUME NEW c \in Deliverers PROVE SendOK(c)'
      <3>1. CASE c = d
        <4>1. s.base + 1 \notin posts[s.run].called
          BY <2>5, <1>0 DEF Sending
        <4> QED
          BY <3>1, <4>1, <2>3, <1>0 DEF SendOK, Sending
      <3>2. CASE c # d
        <4>0. sending[c] \in Sending /\ outbox[sending[c].run] \in Outbox /\ sending'[c] = sending[c]
          BY <2>3, <3>2 DEF DeliveryInv, DeliveryShape, Sending
        <4>1. CASE sending[c].run = s.run
          <5>1. SendOK(c)
            BY DEF DeliveryInv
          <5> QED
            BY <4>0, <4>1, <5>1, <2>3, <1>0, <1>2 DEF SendOK, Sending, Outbox
        <4>2. CASE sending[c].run # s.run
          BY <4>0, <4>2, <2>3, <1>0 DEF SendOK, DeliveryInv, Sending
        <4> QED
          BY <4>1, <4>2
      <3> QED
        BY <3>1, <3>2
    <2>8. ASSUME NEW c \in Deliverers \ {d}, sending[c].pc = "call", sending[c].run = s.run
          PROVE  sending[c].base # s.base
      BY <1>0, <1>2, <2>8 DEF DeliveryInv, DeliveryShape, SendOK, Sending
    <2>9. CallsDiffer'
      BY <2>3, <2>8, <1>0 DEF CallsDiffer, DeliveryInv, Sending
    <2> QED
      BY <2>4, <2>6, <2>7, <2>9 DEF DeliveryInv
  <1> QED
    BY <1>1, <1>2

(* The gateway sees a call for the attempt it was saved for, for the first time. *)
LEMMA CallGatewayOK ==
  ASSUME DeliveryInv, NEW d \in Deliverers, CallGateway(d)
  PROVE  DeliveryInv'
  <1> DEFINE s == sending[d]
             o == outbox[s.run]
             p == posts[s.run]
             n == s.base + 1
  <1>0. /\ s \in Sending /\ s.run \in Runs /\ o \in Outbox /\ p \in Posts
        /\ s.pc = "call" /\ UNCHANGED outbox
    BY DEF DeliveryInv, DeliveryShape, Sending, CallGateway
  <1>1. n \in 1 .. MaxAttempts /\ n <= o.attempts /\ n \notin p.called
    BY <1>0, BoundsAssumption DEF DeliveryInv, SendOK, Sending, Outbox
  <1>2. PICK answered \in BOOLEAN :
          /\ sending' = [sending EXCEPT ![d] = [s EXCEPT !.pc = "mark", !.answered = answered]]
          /\ posts' = [posts EXCEPT ![s.run] =
               [called |-> p.called \cup {n}, calls |-> p.calls + 1,
                answered |-> IF answered THEN p.answered \cup {n} ELSE p.answered]]
    BY DEF CallGateway, DeliveryInv, DeliveryShape
  <1> DEFINE s1 == [s EXCEPT !.pc = "mark", !.answered = answered]
             p1 == [called |-> p.called \cup {n}, calls |-> p.calls + 1,
                    answered |-> IF answered THEN p.answered \cup {n} ELSE p.answered]
  <1>3. s1 \in Sending /\ p1 \in Posts
    <2>1. s1 \in Sending
      BY <1>0 DEF Sending
    <2>2. p.called \cup {n} \in SUBSET (1 .. MaxAttempts) /\ p.calls + 1 \in Nat
      BY <1>0, <1>1 DEF Posts
    <2>3. (IF answered THEN p.answered \cup {n} ELSE p.answered) \in SUBSET (1 .. MaxAttempts)
      BY <1>0, <1>1 DEF Posts
    <2> QED
      BY <2>1, <2>2, <2>3 DEF Posts
  <1>4. /\ posts'[s.run] = p1
        /\ \A r \in Runs \ {s.run} : posts'[r] = posts[r]
        /\ sending'[d] = s1
        /\ \A c \in Deliverers \ {d} : sending'[c] = sending[c]
    BY <1>2, <1>0 DEF DeliveryInv, DeliveryShape
  <1>5. DeliveryShape'
    BY <1>0, <1>2, <1>3 DEF DeliveryInv, DeliveryShape
  <1>6. Cardinality(p1.called) = Cardinality(p.called) + 1
    <2>1. IsFiniteSet(p.called)
      <3>1. IsFiniteSet(1 .. MaxAttempts)
        BY FS_Interval, BoundsAssumption
      <3>2. p.called \subseteq 1 .. MaxAttempts
        BY <1>0 DEF Posts
      <3> QED
        BY <3>1, <3>2, FS_Subset
    <2> QED
      BY <2>1, <1>1, FS_AddElement
  <1>7. ASSUME NEW r \in Runs PROVE OutboxOK(r)'
    <2>1. CASE r = s.run
      BY <2>1, <1>0, <1>1, <1>4, <1>6 DEF OutboxOK, DeliveryInv
    <2>2. CASE r # s.run
      BY <2>2, <1>0, <1>4 DEF OutboxOK, DeliveryInv
    <2> QED
      BY <2>1, <2>2
  <1>8. ASSUME NEW c \in Deliverers PROVE SendOK(c)'
    <2>1. CASE c = d
      BY <2>1, <1>0, <1>1, <1>4 DEF SendOK, Sending
    <2>2. CASE c # d
      <3>0. sending[c] \in Sending /\ sending'[c] = sending[c]
        BY <1>4, <2>2 DEF DeliveryInv, DeliveryShape
      <3>1. CASE sending[c].run = s.run
        <4>1. sending[c].pc = "call" => sending[c].base # s.base
          BY <1>0, <2>2, <3>1 DEF DeliveryInv, CallsDiffer
        <4>2. sending[c].pc = "call" => sending[c].base + 1 # n
          BY <4>1, <3>0, <1>0 DEF Sending
        <4>3. SendOK(c)
          BY DEF DeliveryInv
        <4> QED
          BY <3>0, <3>1, <4>2, <4>3, <1>0, <1>4 DEF SendOK
      <3>2. CASE sending[c].run # s.run
        BY <3>0, <3>2, <1>0, <1>4 DEF SendOK, DeliveryInv, Sending
      <3> QED
        BY <3>1, <3>2
    <2> QED
      BY <2>1, <2>2
  <1>9. CallsDiffer'
    <2>1. sending'[d].pc = "mark"
      BY <1>0, <1>4 DEF Sending
    <2>2. \A c \in Deliverers : sending'[c].pc = "call" => sending'[c] = sending[c]
      BY <2>1, <1>4
    <2> HIDE DEF s, p, o
    <2> QED
      BY <2>2, Zenon DEF CallsDiffer, DeliveryInv
  <1> QED
    BY <1>5, <1>7, <1>8, <1>9 DEF DeliveryInv

(* The answer is saved over the attempt it belongs to, or not at all. *)
LEMMA SaveAnswerOK ==
  ASSUME DeliveryInv, NEW d \in Deliverers, SaveAnswer(d)
  PROVE  DeliveryInv'
  <1> DEFINE s == sending[d]
             o == outbox[s.run]
             o1 == [o EXCEPT !.status = IF s.answered THEN "delivered" ELSE "unknown"]
  <1>0. s \in Sending /\ s.run \in Runs /\ o \in Outbox /\ s.pc = "mark" /\ UNCHANGED posts
    BY DEF DeliveryInv, DeliveryShape, Sending, SaveAnswer
  <1>1. /\ sending'[d] = NotSending(s.run)
        /\ \A c \in Deliverers \ {d} : sending'[c] = sending[c]
        /\ sending' \in [Deliverers -> Sending]
    BY <1>0, NotSendingType DEF DeliveryInv, DeliveryShape, SaveAnswer, Ended
  <1>2. o1 \in Outbox /\ o1.attempts = o.attempts /\ o1.payload = o.payload /\ o1.status # "none"
    BY <1>0 DEF Outbox
  <1>3. /\ \A r \in Runs \ {s.run} : outbox'[r] = outbox[r]
        /\ outbox'[s.run] = IF o.attempts = s.base + 1 THEN o1 ELSE o
        /\ outbox' \in [Runs -> Outbox]
    BY <1>0, <1>2 DEF DeliveryInv, DeliveryShape, SaveAnswer
  <1>4. DeliveryShape'
    BY <1>0, <1>1, <1>3 DEF DeliveryInv, DeliveryShape
  <1>5. o.attempts # 0 /\ o.status # "none"
    BY <1>0 DEF DeliveryInv, SendOK, OutboxOK, Sending, Outbox
  <1>6. ASSUME NEW r \in Runs PROVE OutboxOK(r)'
    <2>1. CASE r = s.run
      <3>1. s.answered => s.base + 1 \in posts[s.run].answered
        BY <1>0 DEF DeliveryInv, SendOK
      <3>2. OutboxOK(s.run)
        BY <1>0 DEF DeliveryInv
      <3> QED
        BY <2>1, <3>1, <3>2, <1>0, <1>2, <1>3, <1>5 DEF OutboxOK
    <2>2. CASE r # s.run
      BY <2>2, <1>0, <1>3 DEF OutboxOK, DeliveryInv
    <2> QED
      BY <2>1, <2>2
  <1>7. ASSUME NEW c \in Deliverers PROVE SendOK(c)'
    <2>1. CASE c = d
      BY <2>1, <1>1 DEF SendOK, NotSending
    <2>2. CASE c # d
      <3>0. sending[c].run \in Runs /\ sending'[c] = sending[c] /\ SendOK(c)
        BY <1>1, <2>2 DEF DeliveryInv, DeliveryShape, Sending
      <3>1. /\ outbox'[sending[c].run].attempts = outbox[sending[c].run].attempts
            /\ outbox'[sending[c].run].payload = outbox[sending[c].run].payload
            /\ outbox'[sending[c].run].status # "none" => outbox[sending[c].run].status # "none"
        BY <3>0, <1>2, <1>3, <1>5
      <3> QED
        BY <3>0, <3>1, <1>0 DEF SendOK
    <2> QED
      BY <2>1, <2>2
  <1>8. CallsDiffer'
    BY <1>1 DEF CallsDiffer, DeliveryInv, NotSending
  <1> QED
    BY <1>4, <1>6, <1>7, <1>8 DEF DeliveryInv

(* One step of a delivery. *)
LEMMA SendOKStep ==
  ASSUME DeliveryInv, NEW d \in Deliverers, Send(d)
  PROVE  DeliveryInv'
  BY GetRecordOK, SavePendingOK, CallGatewayOK, SaveAnswerOK DEF Send

-----------------------------------------------------------------------------
(* The whole.  Whoever holds the sequence number of a run, by having loaded or
   committed it, knows the status of its record: every commit of another takes the
   number away. *)

ExecRecord == [pc : Working \cup {"idle", "ended", "release", "check", "requeue"},
               run : Runs, stop : {"no", "cancel", "interrupt"},
               result : Payloads \cup {"none", "paused"}]
CallRecord == [pc : CallPC, todo : Seq(Events)]

\* What an actor that holds the sequence number of r may be doing.
HoldsAsExecutor(x, r) ==
  /\ x \in Executors
  /\ exec[x].run = r
  /\ \/ exec[x].pc \in {"pausing", "boot"} /\ record[r] = (IF x = Console THEN "paused" ELSE "running")
     \/ exec[x].pc = "work" /\ record[r] = "running"
     \/ exec[x].pc = "ended"
HoldsAsCanceller(a, r) ==
  /\ a = Canceller
  /\ cancel.run = r
  /\ \/ cancel.pc = "commit" /\ record[r] \in {"running", "paused"}
     \/ cancel.pc = "answered"
HoldsAsCaller(c, r) ==
  /\ c \in Callers
  /\ calls[c].pc \in {"accept", "enqueue"}
  /\ Current(c) = r
  /\ record[r] = "running"

Holder(a, r) == HoldsAsExecutor(a, r) \/ HoldsAsCanceller(a, r) \/ HoldsAsCaller(a, r)

StoreOK == StoreTypeOK /\ \A r \in Runs : \A a \in seen[r] : Holder(a, r)

\* A run is in the queue at most once, and only a run that exists.
QueueOK == /\ queue \in Seq(Row)
           /\ \A i, j \in DOMAIN queue : queue[i].run = queue[j].run => i = j
           /\ \A i \in DOMAIN queue : record[queue[i].run] # "absent"

\* An event is listed at most once.
InboxOK == /\ inbox \in Seq(Events)
           /\ \A i, j \in DOMAIN inbox : inbox[i] = inbox[j] => i = j
           /\ flaw \in [Events -> {"none", "poison", "unmappable"}]
           /\ ingress \in [Events -> {"none", "received", "rejected", "launched"}]
           /\ arrivals \in [Events -> Nat]

\* A call that is at work has an event, and one that has launched it a run.
CallOK(c) == /\ Len(calls[c].todo) <= Cardinality(Events)
             /\ calls[c].pc # "idle" => calls[c].todo # <<>>
             /\ calls[c].pc \in {"accept", "enqueue", "mark"} => record[Current(c)] # "absent"
CallsOK == calls \in [Callers -> CallRecord] /\ \A c \in Callers : CallOK(c)

\* An executor that is at work has a run, and one that has ended a result.
ExecOK(x) == /\ exec[x].pc # "idle" => record[exec[x].run] # "absent"
             /\ exec[x].pc = "ended" => exec[x].result # "none"
ExecsOK == exec \in [Executors -> ExecRecord] /\ \A x \in Executors : ExecOK(x)

CancelRecord == [pc : {"idle", "load", "commit", "answered", "gaveup"}, run : Runs,
                 tries : 0 .. 2, answer : Terminal \cup {"none"}]
CancelOK ==
  /\ cancel \in CancelRecord
  /\ cancel.pc = "answered" => cancel.answer \in Terminal /\ record[cancel.run] = cancel.answer

BoundsOK == /\ deployment \in Deployments
            /\ orphaned \subseteq Runs
            /\ shocks \in 0 .. deployment.shocks

HostInv == /\ StoreOK /\ QueueOK /\ InboxOK /\ CallsOK /\ ExecsOK /\ CancelOK
           /\ DeliveryInv /\ BoundsOK

-----------------------------------------------------------------------------
(* What a step may do to the record of a run, and what that leaves as it is. *)

MoveOK(r) == \/ record'[r] = record[r]
             \/ record[r] = "absent" /\ record'[r] = "running"
             \/ record[r] = "running" /\ record'[r] \in {"paused"} \cup Terminal
             \/ record[r] = "paused" /\ record'[r] \in {"running"} \cup Terminal
Moves == \A r \in Runs : MoveOK(r)

\* The step leaves alone what the actor holds besides its sequence number.
Untouched(a) == /\ a \in Executors => exec'[a] = exec[a]
                /\ a = Canceller => UNCHANGED cancel
                /\ a \in Callers => calls'[a] = calls[a]

HostStep == Moves /\ HostInv'

(* A run exists from the moment it is created, and an outcome is not taken back. *)
LEMMA MovesKeep ==
  ASSUME Moves, NEW r \in Runs
  PROVE  /\ record[r] # "absent" => record'[r] # "absent"
         /\ record[r] \in Terminal => record'[r] = record[r]
  BY DEF Moves, MoveOK, Terminal

(* Nothing moves in a record nobody writes. *)
LEMMA MovesNot == ASSUME UNCHANGED record PROVE Moves
  BY DEF Moves, MoveOK

(* The rows of the queue stay in order while nobody writes the queue. *)
LEMMA QueueFrame == ASSUME QueueOK, Moves, UNCHANGED queue PROVE QueueOK'
  <1>1. \A i \in DOMAIN queue : queue[i] \in Row
    BY ElementOfSeq DEF QueueOK
  <1>2. \A i \in DOMAIN queue : queue[i].run \in Runs
    BY <1>1 DEF Row
  <1> QED
    BY <1>2, MovesKeep DEF QueueOK

(* An event of a call that is at work is an event. *)
LEMMA CurrentType ==
  ASSUME CallsOK, NEW c \in Callers, calls[c].pc # "idle"
  PROVE  /\ Current(c) \in Runs /\ calls[c].todo \in Seq(Runs) /\ Len(calls[c].todo) >= 1
         /\ calls[c] \in CallRecord
  <1>1. calls[c].todo \in Seq(Runs) /\ calls[c].todo # <<>> /\ calls[c] \in CallRecord
    BY DEF CallsOK, CallOK, CallRecord, Events
  <1> QED
    BY <1>1 DEF Current

(* A call that nobody serves stays where it is. *)
LEMMA CallKept ==
  ASSUME CallsOK, Moves, NEW c \in Callers, calls'[c] = calls[c]
  PROVE  CallOK(c)'
  <1>1. CallOK(c)
    BY DEF CallsOK
  <1>2. CASE calls[c].pc = "idle"
    BY <1>1, <1>2 DEF CallOK
  <1>3. CASE calls[c].pc # "idle"
    BY <1>1, <1>3, CurrentType, MovesKeep DEF CallOK, Current
  <1> QED
    BY <1>2, <1>3

(* All calls stay where they are. *)
LEMMA CallsFrame == ASSUME CallsOK, Moves, UNCHANGED calls PROVE CallsOK'
  BY CallKept DEF CallsOK

(* An executor that does not move stays where it is. *)
LEMMA ExecKept ==
  ASSUME ExecsOK, Moves, NEW x \in Executors, exec'[x] = exec[x]
  PROVE  ExecOK(x)'
  <1>1. ExecOK(x) /\ exec[x].run \in Runs
    BY DEF ExecsOK, ExecRecord
  <1> QED
    BY <1>1, MovesKeep DEF ExecOK

(* All executors stay where they are. *)
LEMMA ExecsFrame == ASSUME ExecsOK, Moves, UNCHANGED exec PROVE ExecsOK'
  BY ExecKept DEF ExecsOK

(* The outcome a cancellation has reported stays the one of the record. *)
LEMMA CancelFrame == ASSUME CancelOK, Moves, UNCHANGED cancel PROVE CancelOK'
  <1>1. cancel.run \in Runs
    BY DEF CancelOK, CancelRecord
  <1> QED
    BY <1>1, MovesKeep DEF CancelOK

(* An actor that was not touched still holds what it held of a record that was not
   written. *)
LEMMA HolderKept ==
  ASSUME NEW r, NEW a, Holder(a, r), record'[r] = record[r], Untouched(a)
  PROVE  Holder(a, r)'
  <1>1. CASE HoldsAsExecutor(a, r)
    BY <1>1 DEF Holder, HoldsAsExecutor, Untouched, Executors
  <1>2. CASE HoldsAsCanceller(a, r)
    BY <1>2 DEF Holder, HoldsAsCanceller, Untouched
  <1>3. CASE HoldsAsCaller(a, r)
    BY <1>3 DEF Holder, HoldsAsCaller, Untouched, Current
  <1> QED
    BY <1>1, <1>2, <1>3 DEF Holder

(* The store after a step: whoever holds a number now held it before and was left alone,
   or is what a holder may be. *)
LEMMA StoreStep ==
  ASSUME StoreOK, StoreTypeOK',
         \A r \in Runs : \A a \in seen'[r] :
           \/ a \in seen[r] /\ record'[r] = record[r] /\ Untouched(a)
           \/ Holder(a, r)'
  PROVE  StoreOK'
  BY HolderKept DEF StoreOK

(* Numbers are forgotten and nothing else happens to the store: by an execution that is
   over, a call that ends, a process that dies. *)
LEMMA StoreShrinks ==
  ASSUME StoreOK, UNCHANGED record, seen' \in [Runs -> SUBSET Actors],
         \A r \in Runs : seen'[r] \subseteq seen[r],
         \A r \in Runs : \A a \in seen'[r] : Untouched(a)
  PROVE  StoreOK'
  <1>1. StoreTypeOK'
    BY DEF StoreOK, StoreTypeOK
  <1> QED
    BY <1>1, StoreStep

-----------------------------------------------------------------------------
(* The calls of the ingress. *)

(* One call moves and the others stay. *)
LEMMA CallMoves ==
  ASSUME CallsOK, Moves, NEW c \in Callers, NEW k \in CallRecord,
         calls' = [calls EXCEPT ![c] = k],
         Len(k.todo) <= Cardinality(Events),
         k.pc # "idle" => k.todo # <<>>,
         k.pc \in {"accept", "enqueue", "mark"} => record'[Head(k.todo)] # "absent"
  PROVE  /\ CallsOK' /\ calls'[c] = k
         /\ \A d \in Callers \ {c} : calls'[d] = calls[d]
  <1>1. /\ calls'[c] = k /\ \A d \in Callers \ {c} : calls'[d] = calls[d]
        /\ calls' \in [Callers -> CallRecord]
    BY DEF CallsOK
  <1>2. ASSUME NEW d \in Callers PROVE CallOK(d)'
    <2>1. CASE d = c
      BY <2>1, <1>1 DEF CallOK, Current
    <2>2. CASE d # c
      BY <2>2, <1>1, CallKept
    <2> QED
      BY <2>1, <2>2
  <1> QED
    BY <1>1, <1>2 DEF CallsOK

(* The call goes on with its event. *)
LEMMA GotoMoves ==
  ASSUME CallsOK, Moves, NEW c \in Callers, calls[c].pc # "idle",
         NEW pc \in CallPC \ {"idle"}, Goto(c, pc),
         pc \in {"accept", "enqueue", "mark"} => record'[Current(c)] # "absent"
  PROVE  /\ CallsOK' /\ calls'[c].pc = pc /\ calls'[c].todo = calls[c].todo
         /\ \A d \in Callers \ {c} : calls'[d] = calls[d]
  <1> DEFINE k == [calls[c] EXCEPT !.pc = pc]
  <1>1. calls[c] \in CallRecord /\ calls[c].todo # <<>> /\ Len(calls[c].todo) <= Cardinality(Events)
    BY DEF CallsOK, CallOK
  <1>2. k \in CallRecord /\ k.pc = pc /\ k.todo = calls[c].todo
    BY <1>1 DEF CallRecord
  <1>3. calls' = [calls EXCEPT ![c] = k]
    BY DEF Goto, CallsOK
  <1> HIDE DEF k
  <1> QED
    BY <1>1, <1>2, <1>3, CallMoves DEF Current

(* The call has launched or rejected its event and takes the next one. *)
LEMMA NextEventMoves ==
  ASSUME CallsOK, Moves, NEW c \in Callers, calls[c].pc # "idle", NextEvent(c)
  PROVE  CallsOK' /\ \A d \in Callers \ {c} : calls'[d] = calls[d]
  <1> DEFINE t == calls[c].todo
             k == IF Len(t) = 1 THEN Idle ELSE [pc |-> "bind", todo |-> Tail(t)]
  <1>1. t \in Seq(Events) /\ t # <<>> /\ Len(t) <= Cardinality(Events)
    BY CurrentType DEF CallsOK, CallOK, Events
  <1>2. CASE Len(t) = 1
    <2>1. Idle \in CallRecord /\ Idle.pc = "idle" /\ Len(Idle.todo) = 0
      BY EmptySeq DEF Idle, CallRecord, CallPC
    <2>2. 0 <= Cardinality(Events)
      BY FS_CardinalityType, BoundsAssumption DEF Events
    <2>3. calls' = [calls EXCEPT ![c] = Idle]
      BY <1>2 DEF NextEvent
    <2> QED
      BY <2>1, <2>2, <2>3, CallMoves
  <1>3. CASE Len(t) # 1
    <2>1. Tail(t) \in Seq(Events) /\ Len(Tail(t)) = Len(t) - 1 /\ Tail(t) # <<>>
      <3> HIDE DEF t
      <3>1. Tail(t) \in Seq(Events) /\ Len(Tail(t)) = Len(t) - 1
        BY <1>1, HeadTailProperties
      <3>2. Len(t) \in Nat /\ Len(t) # 0
        BY <1>1, EmptySeq
      <3>3. Len(Tail(t)) # 0
        BY <3>1, <3>2, <1>3
      <3> QED
        BY <3>1, <3>3, EmptySeq
    <2>2. Cardinality(Events) \in Nat
      BY FS_CardinalityType, BoundsAssumption DEF Events
    <2>3. /\ k \in CallRecord /\ k.pc = "bind" /\ k.todo = Tail(t)
          /\ calls' = [calls EXCEPT ![c] = k]
      BY <2>1, <1>3 DEF NextEvent, CallRecord, CallPC
    <2>4. Len(k.todo) <= Cardinality(Events)
      BY <2>1, <2>2, <2>3, <1>1
    <2> HIDE DEF k
    <2> QED
      BY <2>1, <2>3, <2>4, CallMoves
  <1> QED
    BY <1>2, <1>3

(* A launch is settled: its call and those that joined it go on or are thrown out. *)
LEMMA SettledMoves ==
  ASSUME CallsOK, Moves, NEW c \in Callers, calls[c].pc # "idle",
         NEW to \in {"thrown", "mark"}, LaunchSettled(c, to),
         to = "mark" => record'[Current(c)] # "absent"
  PROVE  /\ CallsOK'
         /\ \A d \in Callers \ {c} : calls[d].pc # "joined" => calls'[d] = calls[d]
         /\ \A d \in Callers : calls'[d] # calls[d] => /\ calls'[d].pc \in {"idle", "mark"}
                                                       /\ d # c => Current(d) = Current(c)
         /\ calls'[c].pc = IF to = "mark" THEN "mark" ELSE "idle"
         /\ to = "mark" => \A d \in Callers : calls'[d].todo = calls[d].todo
  <1> DEFINE going == {c} \cup Joiners(c)
  <1>1. /\ \A d \in Callers : calls'[d] = IF d \in going
             THEN IF to = "thrown" THEN Idle ELSE [calls[d] EXCEPT !.pc = to] ELSE calls[d]
        /\ DOMAIN calls' = Callers /\ calls' = [d \in Callers |-> calls'[d]]
    BY DEF LaunchSettled
  <1>2. ASSUME NEW d \in going
        PROVE  /\ d \in Callers /\ calls[d].pc # "idle" /\ Current(d) = Current(c)
               /\ calls[d] \in CallRecord
               /\ d # c => calls[d].pc = "joined"
    BY DEF Joiners, At, CallsOK
  <1> HIDE DEF going
  <1>3. Idle \in CallRecord /\ Idle.pc = "idle" /\ Idle.todo = <<>> /\ 0 <= Cardinality(Events)
    BY EmptySeq, FS_CardinalityType, BoundsAssumption DEF Idle, CallRecord, CallPC, Events
  <1>4. ASSUME NEW d \in Callers PROVE calls'[d] \in CallRecord /\ CallOK(d)'
    <2>1. CASE d \notin going
      BY <2>1, <1>1, CallKept DEF CallsOK
    <2>2. CASE d \in going /\ to = "thrown"
      BY <2>2, <1>1, <1>3 DEF CallOK
    <2>3. CASE d \in going /\ to = "mark"
      <3>1. calls'[d] = [calls[d] EXCEPT !.pc = "mark"]
        BY <2>3, <1>1
      <3>2. /\ calls'[d] \in CallRecord /\ calls'[d].pc = "mark" /\ calls'[d].todo = calls[d].todo
        BY <2>3, <3>1, <1>2 DEF CallRecord, CallPC
      <3>3. CallOK(d) /\ Current(d)' = Current(c)
        BY <3>2, <2>3, <1>2 DEF CallsOK, Current
      <3> QED
        BY <3>2, <3>3, <2>3, <1>2 DEF CallOK
    <2> QED
      BY <2>1, <2>2, <2>3
  <1>5. CallsOK'
    BY <1>4, <1>1 DEF CallsOK
  <1>6. c \in going
    BY DEF going
  <1>7. ASSUME to = "mark", NEW d \in going
        PROVE  calls'[d].pc = "mark" /\ calls'[d].todo = calls[d].todo
    BY <1>7, <1>1, <1>2 DEF CallRecord
  <1> QED
    BY <1>1, <1>2, <1>3, <1>5, <1>6, <1>7

(* A caller holds the number of the run it has created and not yet enqueued. *)
LEMMA CallerHolds ==
  ASSUME StoreOK, NEW r \in Runs, NEW c \in Callers, c \in seen[r]
  PROVE  HoldsAsCaller(c, r)
  BY ActorsAssumption DEF StoreOK, Holder, HoldsAsExecutor, HoldsAsCanceller

(* An executor holds the number of the run it executes. *)
LEMMA ExecutorHolds ==
  ASSUME StoreOK, NEW r \in Runs, NEW x \in Executors, x \in seen[r]
  PROVE  HoldsAsExecutor(x, r)
  BY ActorsAssumption DEF StoreOK, Holder, HoldsAsCaller, HoldsAsCanceller

(* The cancellation holds the number of the run it is asked for. *)
LEMMA CancellerHolds ==
  ASSUME StoreOK, NEW r \in Runs, Canceller \in seen[r]
  PROVE  HoldsAsCanceller(Canceller, r)
  BY ActorsAssumption DEF StoreOK, Holder, HoldsAsCaller, HoldsAsExecutor

(* What is delivered stays as it is while nobody delivers. *)
LEMMA DeliveryFrame == ASSUME DeliveryInv, UNCHANGED deliveryVars PROVE DeliveryInv'
  BY DEF DeliveryInv, DeliveryShape, OutboxOK, SendOK, CallsDiffer, deliveryVars

(* The number of acts of the environment is bounded. *)
LEMMA ShockBounds ==
  ASSUME BoundsOK, Shock, UNCHANGED <<deployment, orphaned>>
  PROVE  BoundsOK'
  BY BoundsAssumption DEF BoundsOK, Shock

(* A step of a call leaves the executors, the cancellation and the deliveries alone. *)
LEMMA CallFrame ==
  ASSUME HostInv, Moves, UNCHANGED <<deliveryVars, exec, cancel>>
  PROVE  ExecsOK' /\ CancelOK' /\ DeliveryInv'
  BY ExecsFrame, CancelFrame, DeliveryFrame DEF HostInv

(* No call that holds a number moves, and nobody else does. *)
LEMMA CallersMove ==
  ASSUME StoreOK, UNCHANGED <<record, exec, cancel>>, seen' \in [Runs -> SUBSET Actors],
         \A r \in Runs : seen'[r] \subseteq seen[r],
         \A r \in Runs : \A d \in Callers : d \in seen'[r] => calls'[d] = calls[d]
  PROVE  StoreOK'
  <1>1. \A r \in Runs : \A a \in seen'[r] : Untouched(a)
    BY DEF Untouched
  <1> QED
    BY <1>1, StoreShrinks

(* A step between two awaits of a call: only the call itself and those that joined its
   launch move, and they hold no number. *)
LEMMA CallOnly ==
  ASSUME HostInv, CallsOK', UNCHANGED <<storeVars, queue, inbox, flaw, ingress, arrivals>>,
         UNCHANGED <<deliveryVars, hostVars>>,
         \A d \in Callers : calls[d].pc \in {"accept", "enqueue"} => calls'[d] = calls[d]
  PROVE  HostStep
  <1>1. Moves /\ UNCHANGED <<record, seen, exec, cancel, deployment, orphaned, shocks>>
    BY MovesNot DEF storeVars, hostVars
  <1>2. StoreOK'
    <2>1. \A r \in Runs : \A d \in Callers : d \in seen[r] => calls[d].pc \in {"accept", "enqueue"}
      BY CallerHolds DEF HostInv, HoldsAsCaller
    <2>2. seen \in [Runs -> SUBSET Actors]
      BY DEF HostInv, StoreOK, StoreTypeOK
    <2> QED
      BY <1>1, <2>1, <2>2, CallersMove DEF HostInv
  <1>3. ExecsOK' /\ CancelOK' /\ DeliveryInv'
    BY <1>1, CallFrame
  <1>4. QueueOK'
    BY <1>1, QueueFrame DEF HostInv
  <1>5. InboxOK' /\ BoundsOK'
    BY <1>1 DEF HostInv, InboxOK, BoundsOK
  <1> QED
    BY <1>1, <1>2, <1>3, <1>4, <1>5 DEF HostStep, HostInv

(* The binding of an event is looked up and its launch is begun. *)
LEMMA BindStep ==
  ASSUME HostInv, NEW c \in Callers, Bind(c), UNCHANGED <<deliveryVars, hostVars>>
  PROVE  HostStep
  <1>1. CallsOK /\ Moves /\ calls[c].pc = "bind"
    BY MovesNot DEF HostInv, Bind, storeVars, At
  <1>2. LaunchPoint(c, Current(c)) \in {"reject", "joined", "authorize"}
    BY DEF LaunchPoint
  <1>3. CallsOK' /\ \A d \in Callers \ {c} : calls'[d] = calls[d]
    BY <1>1, <1>2, GotoMoves DEF Bind, CallPC, LaunchPC
  <1> QED
    BY <1>1, <1>3, CallOnly DEF Bind

(* The authorization throws, or succeeds. *)
LEMMA AuthorizeStep ==
  ASSUME HostInv, NEW c \in Callers, Refuse(c) \/ Authorize(c), UNCHANGED <<deliveryVars, hostVars>>
  PROVE  HostStep
  <1>1. CallsOK /\ Moves /\ calls[c].pc = "authorize"
    BY MovesNot DEF HostInv, Refuse, Authorize, storeVars, At
  <1>2. CASE Refuse(c)
    <2>1. /\ CallsOK' /\ \A d \in Callers \ {c} : calls[d].pc # "joined" => calls'[d] = calls[d]
      BY <1>1, <1>2, SettledMoves DEF Refuse
    <2> QED
      BY <1>1, <1>2, <2>1, CallOnly DEF Refuse
  <1>3. CASE Authorize(c)
    <2>1. CallsOK' /\ \A d \in Callers \ {c} : calls'[d] = calls[d]
      BY <1>1, <1>3, GotoMoves DEF Authorize, CallPC, LaunchPC
    <2> QED
      BY <1>1, <1>3, <2>1, CallOnly DEF Authorize
  <1> QED
    BY <1>2, <1>3

(* A run that exists is enqueued again or needs nothing. *)
LEMMA ExistingStep ==
  ASSUME HostInv, NEW c \in Callers, calls[c].pc \in {"load", "create"},
         record[Current(c)] # "absent", Existing(c),
         UNCHANGED <<storeVars, queue, inbox, flaw, ingress, arrivals, deliveryVars, hostVars>>
  PROVE  HostStep
  <1>1. CallsOK /\ Moves /\ calls[c].pc # "idle" /\ UNCHANGED record
    BY MovesNot DEF HostInv, storeVars
  <1>2. CASE record[Current(c)] = "running"
    <2>1. CallsOK' /\ \A d \in Callers \ {c} : calls'[d] = calls[d]
      BY <1>1, <1>2, GotoMoves DEF Existing, CallPC, LaunchPC
    <2> QED
      BY <1>1, <2>1, CallOnly
  <1>3. CASE record[Current(c)] # "running"
    <2>1. /\ CallsOK' /\ \A d \in Callers \ {c} : calls[d].pc # "joined" => calls'[d] = calls[d]
      BY <1>1, <1>3, SettledMoves DEF Existing
    <2> QED
      BY <1>1, <2>1, CallOnly
  <1> QED
    BY <1>2, <1>3

(* The launch looks whether the run exists. *)
LEMMA LoadExistingStep ==
  ASSUME HostInv, NEW c \in Callers, LoadExisting(c), UNCHANGED <<deliveryVars, hostVars>>
  PROVE  HostStep
  <1>1. CallsOK /\ Moves /\ calls[c].pc = "load"
    BY MovesNot DEF HostInv, LoadExisting, storeVars, At
  <1>2. CASE record[Current(c)] = "absent"
    <2>1. CallsOK' /\ \A d \in Callers \ {c} : calls'[d] = calls[d]
      BY <1>1, <1>2, GotoMoves DEF LoadExisting, CallPC, LaunchPC
    <2> QED
      BY <1>1, <2>1, CallOnly DEF LoadExisting
  <1>3. CASE record[Current(c)] # "absent"
    BY <1>1, <1>3, ExistingStep DEF LoadExisting
  <1> QED
    BY <1>2, <1>3

(* recoverPending takes the list of what is received. *)
LEMMA RecoverStep ==
  ASSUME HostInv, NEW c \in Callers, RecoverPending(c), UNCHANGED <<deliveryVars, hostVars>>
  PROVE  HostStep
  <1> DEFINE k == [pc |-> "bind", todo |-> inbox]
  <1>1. CallsOK /\ Moves /\ calls[c].pc = "idle" /\ inbox # <<>> /\ inbox \in Seq(Events)
    BY MovesNot DEF HostInv, RecoverPending, storeVars, At, InboxOK
  <1>2. k \in CallRecord /\ calls' = [calls EXCEPT ![c] = k]
    BY <1>1 DEF CallRecord, CallPC, RecoverPending
  <1>3. Len(inbox) <= Cardinality(Events)
    BY <1>1, DistinctIsShort, BoundsAssumption DEF HostInv, InboxOK, Events
  <1>4. CallsOK' /\ \A d \in Callers \ {c} : calls'[d] = calls[d]
    BY <1>1, <1>2, <1>3, CallMoves
  <1> QED
    BY <1>1, <1>4, CallOnly DEF RecoverPending

(* A commit, or the creation of a run: whoever else held the number has lost it. *)
LEMMA CommitStore ==
  ASSUME StoreOK, NEW a \in Actors, NEW r \in Runs, NEW s \in RunStatus,
         record' = [record EXCEPT ![r] = s], seen' = [seen EXCEPT ![r] = {a}],
         Holder(a, r)',
         \A q \in Runs \ {r} : \A b \in seen[q] : Untouched(b)
  PROVE  StoreOK'
  <1>1. /\ record'[r] = s /\ seen'[r] = {a} /\ StoreTypeOK'
        /\ \A q \in Runs \ {r} : record'[q] = record[q] /\ seen'[q] = seen[q]
    BY DEF StoreOK, StoreTypeOK
  <1>2. ASSUME NEW q \in Runs, NEW b \in seen'[q]
        PROVE  (b \in seen[q] /\ record'[q] = record[q] /\ Untouched(b)) \/ Holder(b, q)'
    BY <1>1
  <1> QED
    BY <1>1, <1>2, StoreStep

(* What a commit, or the creation of a run, does to the records. *)
LEMMA CommitMoves ==
  ASSUME StoreOK, NEW r \in Runs, NEW s, record' = [record EXCEPT ![r] = s],
         \/ record[r] = "absent" /\ s = "running"
         \/ record[r] = "running" /\ s \in {"running", "paused"} \cup Terminal
         \/ record[r] = "paused" /\ s \in {"running"} \cup Terminal
  PROVE  Moves
  BY DEF StoreOK, StoreTypeOK, Moves, MoveOK

(* The run of an event is created, or another call has been faster. *)
LEMMA CreateStep ==
  ASSUME HostInv, NEW c \in Callers, CreateOrJoin(c), UNCHANGED <<deliveryVars, hostVars>>
  PROVE  HostStep
  <1>a. calls[c].pc = "create" /\ CallsOK /\ StoreOK /\ Current(c) \in Runs /\ c \in Actors
    BY CurrentType, ActorsAssumption DEF CreateOrJoin, At, HostInv
  <1>b. PICK r \in Runs : r = Current(c)
    BY <1>a
  <1>0. calls[c].pc = "create" /\ CallsOK /\ StoreOK /\ r = Current(c) /\ c \in Actors
    BY <1>a, <1>b
  <1>1. CASE CreateRun(c, r) /\ Goto(c, "accept")
    <2>1. /\ record' = [record EXCEPT ![r] = "running"] /\ seen' = [seen EXCEPT ![r] = {c}]
          /\ record[r] = "absent"
      BY <1>1 DEF CreateRun
    <2>2. Moves /\ record'[r] = "running"
      BY <2>1, <1>0, CommitMoves DEF StoreOK, StoreTypeOK
    <2>3. /\ CallsOK' /\ calls'[c].pc = "accept" /\ calls'[c].todo = calls[c].todo
          /\ \A d \in Callers \ {c} : calls'[d] = calls[d]
      BY <1>0, <1>1, <2>2, GotoMoves DEF CallPC, LaunchPC
    <2>4. UNCHANGED <<exec, cancel, queue, inbox, flaw, ingress, arrivals, deployment, orphaned, shocks>>
      BY DEF CreateOrJoin, hostVars
    <2>5. StoreOK'
      <3>1. Holder(c, r)'
        BY <2>2, <2>3, <1>0 DEF Holder, HoldsAsCaller, Current
      <3>2. \A q \in Runs : c \notin seen[q]
        BY <1>0, CallerHolds DEF HoldsAsCaller
      <3>3. \A q \in Runs \ {r} : \A b \in seen[q] : Untouched(b)
        BY <3>2, <2>3, <2>4 DEF Untouched
      <3>4. "running" \in RunStatus
        BY DEF RunStatus
      <3> QED
        BY <1>0, <2>1, <3>1, <3>3, <3>4, CommitStore
    <2>6. ExecsOK' /\ CancelOK' /\ DeliveryInv' /\ QueueOK'
      BY <2>2, <2>4, CallFrame, QueueFrame DEF HostInv
    <2>7. InboxOK' /\ BoundsOK'
      BY <2>4 DEF HostInv, InboxOK, BoundsOK
    <2> QED
      BY <2>2, <2>3, <2>5, <2>6, <2>7 DEF HostStep, HostInv
  <1>2. CASE record[r] # "absent" /\ Existing(c) /\ UNCHANGED storeVars
    BY <1>0, <1>2, ExistingStep DEF CreateOrJoin
  <1> QED
    BY <1>0, <1>1, <1>2 DEF CreateOrJoin

(* The first commit of a queued run, by the call that has created it; it loses against a
   worker that has found the run in the queue. *)
LEMMA AcceptStep ==
  ASSUME HostInv, NEW c \in Callers, AcceptRun(c), UNCHANGED <<deliveryVars, hostVars>>
  PROVE  HostStep
  <1>a. calls[c].pc = "accept" /\ CallsOK /\ StoreOK /\ Current(c) \in Runs /\ c \in Actors
    BY CurrentType, ActorsAssumption DEF AcceptRun, At, HostInv
  <1>b. PICK r \in Runs : r = Current(c)
    BY <1>a
  <1>0. calls[c].pc = "accept" /\ CallsOK /\ StoreOK /\ r = Current(c) /\ c \in Actors
    BY <1>a, <1>b
  <1>4. UNCHANGED <<exec, cancel, queue, inbox, flaw, ingress, arrivals, deployment, orphaned, shocks>>
    BY DEF AcceptRun, hostVars
  <1>1. CASE Commit(c, r, "running") /\ Goto(c, "enqueue")
    <2>1. /\ record' = [record EXCEPT ![r] = "running"] /\ seen' = [seen EXCEPT ![r] = {c}]
          /\ c \in seen[r]
      BY <1>1 DEF Commit
    <2>2. record[r] = "running"
      BY <2>1, <1>0, CallerHolds DEF HoldsAsCaller
    <2>3. Moves /\ record'[r] = "running"
      BY <2>1, <2>2, <1>0, CommitMoves DEF StoreOK, StoreTypeOK
    <2>4. /\ CallsOK' /\ calls'[c].pc = "enqueue" /\ calls'[c].todo = calls[c].todo
          /\ \A d \in Callers \ {c} : calls'[d] = calls[d]
      BY <1>0, <1>1, <2>3, GotoMoves DEF CallPC, LaunchPC
    <2>5. StoreOK'
      <3>1. Holder(c, r)'
        BY <2>3, <2>4, <1>0 DEF Holder, HoldsAsCaller, Current
      <3>2. \A q \in Runs : c \in seen[q] => q = r
        BY <1>0, CallerHolds DEF HoldsAsCaller
      <3>3. \A q \in Runs \ {r} : \A b \in seen[q] : Untouched(b)
        BY <3>2, <2>4, <1>4 DEF Untouched
      <3>4. "running" \in RunStatus
        BY DEF RunStatus
      <3> QED
        BY <1>0, <2>1, <3>1, <3>3, <3>4, CommitStore
    <2>6. ExecsOK' /\ CancelOK' /\ DeliveryInv' /\ QueueOK'
      BY <2>3, <1>4, CallFrame, QueueFrame DEF HostInv
    <2>7. InboxOK' /\ BoundsOK'
      BY <1>4 DEF HostInv, InboxOK, BoundsOK
    <2> QED
      BY <2>3, <2>4, <2>5, <2>6, <2>7 DEF HostStep, HostInv
  <1>2. CASE Conflict(c, r) /\ LaunchSettled(c, "thrown") /\ UNCHANGED storeVars
    <2>1. Moves /\ UNCHANGED <<record, seen>>
      BY <1>2, MovesNot DEF storeVars
    <2>2. /\ CallsOK'
          /\ \A d \in Callers \ {c} : calls[d].pc # "joined" => calls'[d] = calls[d]
      BY <1>0, <1>2, <2>1, SettledMoves
    <2>3. \A q \in Runs : \A d \in Callers : d \in seen[q] =>
             d # c /\ calls[d].pc \in {"accept", "enqueue"}
      BY <1>0, <1>2, CallerHolds DEF HoldsAsCaller, Conflict
    <2>4. StoreOK'
      BY <2>1, <2>2, <2>3, <1>0, <1>4, CallersMove DEF StoreOK, StoreTypeOK
    <2>5. ExecsOK' /\ CancelOK' /\ DeliveryInv' /\ QueueOK'
      BY <2>1, <1>4, CallFrame, QueueFrame DEF HostInv
    <2>6. InboxOK' /\ BoundsOK'
      BY <1>4 DEF HostInv, InboxOK, BoundsOK
    <2> QED
      BY <2>1, <2>2, <2>4, <2>5, <2>6 DEF HostStep, HostInv
  <1> QED
    BY <1>0, <1>1, <1>2 DEF AcceptRun

-----------------------------------------------------------------------------
(* The queue. *)

(* A row is of its type. *)
LEMMA RowType ==
  ASSUME QueueOK, NEW i \in DOMAIN queue
  PROVE  queue[i] \in Row /\ queue[i].run \in Runs
  <1>1. queue[i] \in Row
    BY ElementOfSeq DEF QueueOK
  <1> QED
    BY <1>1 DEF Row

(* A run is put at the end of the queue unless it is in it. *)
LEMMA EnqueueOK ==
  ASSUME QueueOK, Moves, NEW r \in Runs, record'[r] # "absent", Enqueue(r)
  PROVE  QueueOK'
  <1>1. CASE Queued(r)
    BY <1>1, QueueFrame DEF Enqueue
  <1>2. CASE ~Queued(r)
    <2> DEFINE row == [run |-> r, holder |-> Nobody, live |-> FALSE]
    <2>1. row \in Row /\ row.run = r
      BY DEF Row
    <2>2. queue' = Append(queue, row) /\ queue \in Seq(Row) /\ Len(queue) \in Nat
      BY <1>2 DEF Enqueue, QueueOK
    <2> HIDE DEF row
    <2>3. /\ queue' \in Seq(Row) /\ Len(queue') = Len(queue) + 1
          /\ DOMAIN queue' = 1 .. Len(queue) + 1 /\ DOMAIN queue = 1 .. Len(queue)
          /\ \A i \in 1 .. Len(queue) : queue'[i] = queue[i]
          /\ queue'[Len(queue) + 1] = row
      BY <2>1, <2>2, AppendProperties, LenProperties
    <2>4. \A i \in DOMAIN queue : queue[i].run \in Runs /\ queue[i].run # r
      BY <1>2, RowType DEF Queued
    <2>5. \A i \in DOMAIN queue' : \/ i \in DOMAIN queue /\ queue'[i] = queue[i]
                                   \/ i = Len(queue) + 1 /\ queue'[i] = row
      BY <2>3, <2>2
    <2>6. \A i, j \in DOMAIN queue' : queue'[i].run = queue'[j].run => i = j
      BY <2>1, <2>4, <2>5 DEF QueueOK
    <2>7. \A i \in DOMAIN queue' : record'[queue'[i].run] # "absent"
      BY <2>1, <2>4, <2>5, MovesKeep DEF QueueOK
    <2> QED
      BY <2>3, <2>6, <2>7 DEF QueueOK
  <1> QED
    BY <1>1, <1>2

(* The DELETE of a release takes the one row of the run and the token, or none. *)
LEMMA ReleaseIs ==
  ASSUME QueueOK, NEW w, NEW r, Release(w, r)
  PROVE  \/ queue' = queue /\ ~Holds(w, r)
         \/ \E i \in 1 .. Len(queue) : /\ queue[i].run = r /\ queue[i].holder = w
                                       /\ queue' = RemoveAt(queue, i)
  <1> DEFINE I == {i \in 1 .. Len(queue) : queue[i].run = r /\ queue[i].holder = w}
  <1>0. queue \in Seq(Row)
    BY DEF QueueOK
  <1>1. CASE I = {}
    <2>1. ~ \E i \in 1 .. Len(queue) : queue[i].run = r /\ queue[i].holder = w
      BY <1>1
    <2> QED
      BY <1>0, <2>1 DEF Release, RemoveFirstMatch, Holds
  <1>2. CASE I # {}
    <2>1. I \in SUBSET Nat
      BY <1>0
    <2> HIDE DEF I
    <2>2. Min(I) \in I
      BY <1>2, <2>1, MinIsIn
    <2>3. queue' = RemoveAt(queue, Min(I))
      BY <1>2 DEF Release, RemoveFirstMatch, SelectInSeq, I
    <2> QED
      BY <2>2, <2>3 DEF I
  <1> QED
    BY <1>1, <1>2

(* A row leaves the queue and the order of the others stays. *)
LEMMA ReleaseOK ==
  ASSUME QueueOK, Moves, NEW w, NEW r, Release(w, r)
  PROVE  QueueOK'
  <1>1. CASE queue' = queue
    BY <1>1, QueueFrame
  <1>2. CASE \E i \in 1 .. Len(queue) : queue' = RemoveAt(queue, i)
    <2>1. PICK i \in 1 .. Len(queue) : queue' = RemoveAt(queue, i)
      BY <1>2
    <2>2. queue \in Seq(Row) /\ Len(queue) \in Nat /\ DOMAIN queue = 1 .. Len(queue)
      BY DEF QueueOK
    <2>3. /\ queue' \in Seq(Row) /\ Len(queue') = Len(queue) - 1
          /\ \A j \in 1 .. Len(queue) - 1 : queue'[j] = IF j < i THEN queue[j] ELSE queue[j + 1]
      BY <2>1, <2>2, RemoveAtIs
    <2>4. DOMAIN queue' = 1 .. Len(queue) - 1
      BY <2>3, <2>2
    <2> DEFINE old(j) == IF j < i THEN j ELSE j + 1
    <2>5. \A j \in DOMAIN queue' : old(j) \in DOMAIN queue /\ queue'[j] = queue[old(j)]
      BY <2>2, <2>3, <2>4
    <2>6. \A j, k \in DOMAIN queue' : old(j) = old(k) => j = k
      BY <2>2, <2>4
    <2> HIDE DEF old
    <2>7. \A j, k \in DOMAIN queue' : queue'[j].run = queue'[k].run => j = k
      BY <2>5, <2>6 DEF QueueOK
    <2>8. \A j \in DOMAIN queue' : record'[queue'[j].run] # "absent"
      BY <2>5, RowType, MovesKeep DEF QueueOK
    <2> QED
      BY <2>3, <2>7, <2>8 DEF QueueOK
  <1>3. queue' = queue \/ \E i \in 1 .. Len(queue) : queue' = RemoveAt(queue, i)
    BY ReleaseIs
  <1> QED
    BY <1>1, <1>2, <1>3

(* A row is claimed or its lease runs out: the run of each row stays. *)
LEMMA RowsKept ==
  ASSUME QueueOK, Moves, NEW i \in DOMAIN queue, NEW row \in Row, row.run = queue[i].run,
         queue' = [queue EXCEPT ![i] = row]
  PROVE  QueueOK'
  <1>1. /\ queue' \in Seq(Row) /\ DOMAIN queue' = DOMAIN queue
        /\ \A j \in DOMAIN queue : queue'[j].run = queue[j].run
    BY ExceptSeq DEF QueueOK
  <1> QED
    BY <1>1, RowType, MovesKeep DEF QueueOK

(* A worker claims the oldest row that has no live lease. *)
LEMMA ClaimOK ==
  ASSUME QueueOK, Moves, NEW w \in Workers, NEW r, Claim(w, r)
  PROVE  QueueOK' /\ r \in Runs /\ record[r] # "absent"
  <1> DEFINE i == Min(Claimable)
  <1>1. Claimable \in SUBSET Nat /\ Claimable # {} /\ Claimable \subseteq DOMAIN queue
    BY DEF Claimable, Claim, QueueOK
  <1>2. i \in DOMAIN queue
    BY <1>1, MinIsIn
  <1>3. queue[i].run = r /\ queue' = [queue EXCEPT ![i].holder = w, ![i].live = TRUE]
    BY DEF Claim
  <1> HIDE DEF i
  <1> DEFINE row == [queue[i] EXCEPT !.holder = w, !.live = TRUE]
  <1>4. queue[i] \in Row /\ r \in Runs /\ record[r] # "absent"
    BY <1>2, <1>3, RowType DEF QueueOK
  <1>5. row \in Row /\ row.run = queue[i].run
    BY <1>4 DEF Row
  <1>6. queue' = [queue EXCEPT ![i] = row]
    BY <1>2, <1>3 DEF QueueOK
  <1> HIDE DEF row
  <1> QED
    BY <1>2, <1>4, <1>5, <1>6, RowsKept

(* A lease runs out. *)
LEMMA ExpireOK ==
  ASSUME QueueOK, Moves, NEW w, NEW r, Expire(w, r)
  PROVE  QueueOK'
  <1>1. PICK i \in DOMAIN queue : queue' = [queue EXCEPT ![i].live = FALSE]
    BY DEF Expire
  <1> DEFINE row == [queue[i] EXCEPT !.live = FALSE]
  <1>2. row \in Row /\ row.run = queue[i].run
    BY RowType DEF Row
  <1>3. queue' = [queue EXCEPT ![i] = row]
    BY <1>1 DEF QueueOK
  <1> HIDE DEF row
  <1> QED
    BY <1>2, <1>3, RowsKept

(* The run of the launch is enqueued; its call and those that joined it go on to mark
   the event. *)
LEMMA EnqueueStep ==
  ASSUME HostInv, NEW c \in Callers, EnqueueRun(c), UNCHANGED <<deliveryVars, hostVars>>
  PROVE  HostStep
  <1>0. /\ calls[c].pc = "enqueue" /\ CallsOK /\ StoreOK /\ QueueOK
        /\ Current(c) \in Runs /\ record[Current(c)] # "absent"
    BY CurrentType DEF EnqueueRun, At, HostInv, CallsOK, CallOK
  <1>1. /\ Enqueue(Current(c)) /\ LaunchSettled(c, "mark")
        /\ seen' = [seen EXCEPT ![Current(c)] = @ \ {c}]
        /\ UNCHANGED <<record, exec, cancel, inbox, flaw, ingress, arrivals, deployment, orphaned, shocks>>
    BY DEF EnqueueRun, hostVars
  <1>2. Moves
    BY <1>1, MovesNot
  <1>3. /\ CallsOK'
        /\ \A d \in Callers \ {c} : calls[d].pc # "joined" => calls'[d] = calls[d]
    BY <1>0, <1>1, <1>2, SettledMoves
  <1>4. QueueOK'
    BY <1>0, <1>1, <1>2, EnqueueOK
  <1>5. StoreOK'
    <2>1. /\ seen' \in [Runs -> SUBSET Actors]
          /\ \A q \in Runs : seen'[q] = IF q = Current(c) THEN seen[q] \ {c} ELSE seen[q]
      BY <1>0, <1>1 DEF StoreOK, StoreTypeOK
    <2>2. \A q \in Runs : \A d \in Callers : d \in seen[q] =>
             calls[d].pc # "joined" /\ q = Current(d)
      BY <1>0, CallerHolds DEF HoldsAsCaller
    <2>3. \A q \in Runs : \A d \in Callers : d \in seen'[q] => calls'[d] = calls[d]
      BY <2>1, <2>2, <1>3
    <2> QED
      BY <2>1, <2>3, <1>0, <1>1, CallersMove
  <1>6. ExecsOK' /\ CancelOK' /\ DeliveryInv'
    BY <1>1, <1>2, CallFrame
  <1>7. InboxOK' /\ BoundsOK'
    BY <1>1 DEF HostInv, InboxOK, BoundsOK
  <1> QED
    BY <1>2, <1>3, <1>4, <1>5, <1>6, <1>7 DEF HostStep, HostInv

(* The store, the authority or the catalog fails under a launch. *)
LEMMA OutageStep ==
  ASSUME HostInv, NEW c \in Callers, Outage(c)
  PROVE  HostStep
  <1>0. calls[c].pc # "idle" /\ CallsOK /\ StoreOK /\ BoundsOK
    BY DEF Outage, LaunchFails, LaunchPC, HostInv
  <1>1. /\ LaunchSettled(c, "thrown") /\ seen' = Dropped({c}) /\ Shock
        /\ UNCHANGED <<record, exec, cancel, queue, inbox, flaw, ingress, arrivals>>
        /\ UNCHANGED <<deliveryVars, deployment, orphaned>>
    BY DEF Outage, LaunchFails
  <1>2. Moves
    BY <1>1, MovesNot
  <1>3. /\ CallsOK'
        /\ \A d \in Callers \ {c} : calls[d].pc # "joined" => calls'[d] = calls[d]
    BY <1>0, <1>1, <1>2, SettledMoves
  <1>4. StoreOK'
    <2>1. seen' \in [Runs -> SUBSET Actors] /\ \A q \in Runs : seen'[q] = seen[q] \ {c}
      BY <1>0, <1>1 DEF StoreOK, StoreTypeOK, Dropped
    <2>2. \A q \in Runs : \A d \in Callers : d \in seen[q] => calls[d].pc # "joined"
      BY <1>0, CallerHolds DEF HoldsAsCaller
    <2>3. \A q \in Runs : \A d \in Callers : d \in seen'[q] => calls'[d] = calls[d]
      BY <2>1, <2>2, <1>3
    <2> QED
      BY <2>1, <2>3, <1>0, <1>1, CallersMove
  <1>5. ExecsOK' /\ CancelOK' /\ DeliveryInv' /\ QueueOK'
    BY <1>1, <1>2, CallFrame, QueueFrame DEF HostInv
  <1>6. InboxOK' /\ BoundsOK'
    BY <1>0, <1>1, ShockBounds DEF HostInv, InboxOK
  <1> QED
    BY <1>2, <1>3, <1>4, <1>5, <1>6 DEF HostStep, HostInv

(* The record of an event leaves the listing, where it was at most once. *)
LEMMA InboxWithout ==
  ASSUME InboxOK, NEW e \in Events
  PROVE  LET s == RemoveFirst(inbox, e)
         IN /\ s \in Seq(Events)
            /\ \A i, j \in DOMAIN s : s[i] = s[j] => i = j
            /\ \A i \in DOMAIN s : s[i] # e
            /\ \A q \in Events \ {e} : (\E i \in DOMAIN s : s[i] = q)
                                        <=> \E i \in DOMAIN inbox : inbox[i] = q
  <1> DEFINE s == RemoveFirst(inbox, e)
  <1>0. /\ inbox \in Seq(Events) /\ Len(inbox) \in Nat /\ DOMAIN inbox = 1 .. Len(inbox)
        /\ \A i, j \in DOMAIN inbox : inbox[i] = inbox[j] => i = j
    BY DEF InboxOK
  <1>1. CASE s = inbox /\ \A i \in 1 .. Len(inbox) : inbox[i] # e
    BY <1>0, <1>1
  <1>2. CASE \E i \in 1 .. Len(inbox) : inbox[i] = e /\ s = RemoveAt(inbox, i)
    <2>1. PICK i \in 1 .. Len(inbox) : inbox[i] = e /\ s = RemoveAt(inbox, i)
      BY <1>2
    <2> HIDE DEF s
    <2>3. /\ s \in Seq(Events) /\ Len(s) = Len(inbox) - 1
          /\ \A j \in 1 .. Len(inbox) - 1 : s[j] = IF j < i THEN inbox[j] ELSE inbox[j + 1]
      <3>1. inbox \in Seq(Events)
        BY <1>0
      <3> QED
        BY <2>1, <3>1, RemoveAtIs
    <2>4. DOMAIN s = 1 .. Len(inbox) - 1
      BY <2>3, <1>0
    <2> DEFINE old(j) == IF j < i THEN j ELSE j + 1
    <2>5. \A j \in DOMAIN s : old(j) \in DOMAIN inbox /\ old(j) # i /\ s[j] = inbox[old(j)]
      BY <1>0, <2>3, <2>4
    <2>6. \A j, k \in DOMAIN s : old(j) = old(k) => j = k
      BY <1>0, <2>4
    <2>7. \A k \in DOMAIN inbox \ {i} : \E j \in DOMAIN s : k = old(j)
      <3>1. ASSUME NEW k \in DOMAIN inbox \ {i} PROVE \E j \in DOMAIN s : k = old(j)
        <4>1. CASE k < i
          BY <4>1, <1>0, <2>4
        <4>2. CASE k > i
          <5>1. k - 1 \in DOMAIN s /\ old(k - 1) = k
            BY <4>2, <1>0, <2>4
          <5> QED
            BY <5>1
        <4> QED
          BY <4>1, <4>2, <1>0
      <3> QED
        BY <3>1
    <2> HIDE DEF old
    <2>8. \A j, k \in DOMAIN s : s[j] = s[k] => j = k
      BY <2>5, <2>6, <1>0
    <2>9. \A j \in DOMAIN s : s[j] # e
      BY <2>1, <2>5, <1>0
    <2>10. ASSUME NEW q \in Events \ {e}
           PROVE  (\E j \in DOMAIN s : s[j] = q) <=> \E k \in DOMAIN inbox : inbox[k] = q
      <3>1. ASSUME NEW k \in DOMAIN inbox, inbox[k] = q PROVE \E j \in DOMAIN s : s[j] = q
        BY <3>1, <2>1, <2>5, <2>7
      <3> QED
        BY <3>1, <2>5
    <2> QED
      BY <2>3, <2>8, <2>9, <2>10 DEF s
  <1>3. \/ s = inbox /\ \A i \in 1 .. Len(inbox) : inbox[i] # e
        \/ \E i \in 1 .. Len(inbox) : inbox[i] = e /\ s = RemoveAt(inbox, i)
    BY <1>0, RemoveFirstIs
  <1> QED
    BY <1>1, <1>2, <1>3

(* The event is marked launched or rejected, and the call takes its next event. *)
LEMMA MarkStep ==
  ASSUME HostInv, NEW c \in Callers, MarkLaunched(c) \/ MarkRejected(c),
         UNCHANGED <<deliveryVars, hostVars>>
  PROVE  HostStep
  <1>1. /\ calls[c].pc \in {"mark", "reject"} /\ NextEvent(c)
        /\ Transition(Current(c), IF calls[c].pc = "mark" THEN "launched" ELSE "rejected")
        /\ UNCHANGED <<record, seen, exec, cancel, queue, flaw, arrivals, deployment, orphaned, shocks>>
    BY DEF MarkLaunched, MarkRejected, At, hostVars, storeVars
  <1>0. CallsOK /\ Moves /\ StoreOK /\ Current(c) \in Events
    BY <1>1, MovesNot, CurrentType DEF HostInv, Events
  <1>2. CallsOK' /\ \A d \in Callers \ {c} : calls'[d] = calls[d]
    BY <1>0, <1>1, NextEventMoves
  <1>3. StoreOK'
    <2>1. \A q \in Runs : \A d \in Callers : d \in seen[q] => d # c
      BY <1>0, <1>1, CallerHolds DEF HoldsAsCaller
    <2> QED
      BY <2>1, <1>0, <1>1, <1>2, CallersMove DEF StoreOK, StoreTypeOK
  <1>4. ExecsOK' /\ CancelOK' /\ DeliveryInv' /\ QueueOK'
    BY <1>0, <1>1, CallFrame, QueueFrame DEF HostInv
  <1>5. BoundsOK'
    BY <1>1 DEF HostInv, BoundsOK
  <1>6. InboxOK'
    <2>1. InboxOK /\ inbox' = RemoveFirst(inbox, Current(c))
      BY <1>1 DEF HostInv, Transition
    <2>2. inbox' \in Seq(Events) /\ \A i, j \in DOMAIN inbox' : inbox'[i] = inbox'[j] => i = j
      BY <2>1, <1>0, InboxWithout
    <2>3. ingress' \in [Events -> {"none", "received", "rejected", "launched"}]
      BY <2>1, <1>1 DEF InboxOK, Transition
    <2> QED
      BY <2>1, <2>2, <2>3, <1>1 DEF InboxOK
  <1> QED
    BY <1>0, <1>2, <1>3, <1>4, <1>5, <1>6 DEF HostStep, HostInv

(* An event arrives: it is accepted and its launch begun, or it is a duplicate. *)
LEMMA IngestStep ==
  ASSUME HostInv, NEW c \in Callers, NEW e \in Events, Ingest(c, e),
         UNCHANGED <<deliveryVars, hostVars>>
  PROVE  HostStep
  <1>0. /\ CallsOK /\ StoreOK /\ InboxOK /\ calls[c].pc = "idle"
        /\ UNCHANGED <<record, seen, exec, cancel, queue, flaw, deployment, orphaned, shocks>>
    BY DEF HostInv, Ingest, At, storeVars, hostVars
  <1>1. Moves
    BY <1>0, MovesNot
  <1>2. CallsOK' /\ \A d \in Callers \ {c} : calls'[d] = calls[d]
    <2>1. CASE ingress[e] # "none"
      BY <2>1, <1>0, <1>1, CallsFrame DEF Ingest
    <2>2. CASE ingress[e] = "none"
      <3> DEFINE k == [pc |-> LaunchPoint(c, e), todo |-> <<e>>]
      <3>1. LaunchPoint(c, e) \in {"reject", "joined", "authorize"}
        BY DEF LaunchPoint
      <3>2. /\ k \in CallRecord /\ k.pc \in {"reject", "joined", "authorize"}
            /\ Len(k.todo) = 1 /\ k.todo # <<>>
        BY <3>1 DEF CallRecord, CallPC, LaunchPC
      <3>3. calls' = [calls EXCEPT ![c] = k]
        BY <2>2 DEF Ingest
      <3>4. 1 <= Cardinality(Events)
        <4>1. IsFiniteSet(Events) /\ Events # {}
          BY BoundsAssumption DEF Events
        <4>2. Cardinality(Events) \in Nat /\ Cardinality(Events) # 0
          BY <4>1, FS_CardinalityType, FS_EmptySet
        <4> QED
          BY <4>2
      <3> HIDE DEF k
      <3> QED
        BY <3>2, <3>3, <3>4, <1>0, <1>1, CallMoves
    <2> QED
      BY <2>1, <2>2
  <1>3. StoreOK'
    <2>1. \A q \in Runs : \A d \in Callers : d \in seen[q] => d # c
      BY <1>0, CallerHolds DEF HoldsAsCaller
    <2> QED
      BY <2>1, <1>0, <1>2, CallersMove DEF StoreOK, StoreTypeOK
  <1>4. ExecsOK' /\ CancelOK' /\ DeliveryInv' /\ QueueOK'
    BY <1>0, <1>1, CallFrame, QueueFrame DEF HostInv
  <1>5. BoundsOK'
    BY <1>0 DEF HostInv, BoundsOK
  <1>6. InboxOK'
    <2> DEFINE s == RemoveFirst(inbox, e)
    <2>1. /\ s \in Seq(Events) /\ \A i, j \in DOMAIN s : s[i] = s[j] => i = j
          /\ \A i \in DOMAIN s : s[i] # e
      BY <1>0, InboxWithout
    <2> HIDE DEF s
    <2>2. /\ Append(s, e) \in Seq(Events) /\ Len(s) \in Nat
          /\ DOMAIN Append(s, e) = 1 .. Len(s) + 1 /\ DOMAIN s = 1 .. Len(s)
          /\ \A i \in 1 .. Len(s) : Append(s, e)[i] = s[i]
          /\ Append(s, e)[Len(s) + 1] = e
      BY <2>1, AppendProperties, LenProperties
    <2>3. \A i \in DOMAIN Append(s, e) : \/ i \in DOMAIN s /\ Append(s, e)[i] = s[i]
                                         \/ i = Len(s) + 1 /\ Append(s, e)[i] = e
      BY <2>2
    <2>4. \A i, j \in DOMAIN Append(s, e) : Append(s, e)[i] = Append(s, e)[j] => i = j
      BY <2>1, <2>3
    <2>5. inbox' \in Seq(Events) /\ \A i, j \in DOMAIN inbox' : inbox'[i] = inbox'[j] => i = j
      <3>1. CASE inbox' = inbox
        BY <3>1, <1>0 DEF InboxOK
      <3>2. CASE inbox' = Append(s, e)
        BY <3>2, <2>2, <2>4
      <3> QED
        BY <3>1, <3>2 DEF Ingest, s
    <2>6. /\ ingress' \in [Events -> {"none", "received", "rejected", "launched"}]
          /\ arrivals' \in [Events -> Nat]
      BY <1>0 DEF Ingest, InboxOK
    <2> QED
      BY <2>5, <2>6, <1>0 DEF InboxOK
  <1> QED
    BY <1>1, <1>2, <1>3, <1>4, <1>5, <1>6 DEF HostStep, HostInv

(* A step of the ingress. *)
LEMMA ServeStep ==
  ASSUME HostInv, NEW c \in Callers, Arrival(c) \/ CallStep(c) \/ Recovery(c) \/ Outage(c)
  PROVE  HostStep
  <1>1. CASE Arrival(c)
    BY <1>1, IngestStep DEF Arrival, Events
  <1>2. CASE CallStep(c)
    BY <1>2, BindStep, AuthorizeStep, LoadExistingStep, CreateStep, AcceptStep, EnqueueStep, MarkStep
    DEF CallStep, Serve
  <1>3. CASE Recovery(c)
    BY <1>3, RecoverStep DEF Recovery
  <1>4. CASE Outage(c)
    BY <1>4, OutageStep
  <1> QED
    BY <1>1, <1>2, <1>3, <1>4

-----------------------------------------------------------------------------
(* The executors. *)

(* One executor moves and the others stay. *)
LEMMA ExecMoves ==
  ASSUME ExecsOK, Moves, NEW x \in Executors, NEW e \in ExecRecord,
         exec' = [exec EXCEPT ![x] = e],
         e.pc # "idle" => record[e.run] # "absent",
         e.pc = "ended" => e.result # "none"
  PROVE  /\ ExecsOK' /\ exec'[x] = e
         /\ \A y \in Executors \ {x} : exec'[y] = exec[y]
  <1>1. /\ exec'[x] = e /\ \A y \in Executors \ {x} : exec'[y] = exec[y]
        /\ exec' \in [Executors -> ExecRecord] /\ e.run \in Runs
    BY DEF ExecsOK, ExecRecord
  <1>2. ASSUME NEW y \in Executors PROVE ExecOK(y)'
    <2>1. CASE y = x
      BY <2>1, <1>1, MovesKeep DEF ExecOK
    <2>2. CASE y # x
      BY <2>2, <1>1, ExecKept
    <2> QED
      BY <2>1, <2>2
  <1> QED
    BY <1>1, <1>2 DEF ExecsOK

ExecPC == Working \cup {"idle", "ended", "release", "check", "requeue"}

(* An executor goes on with its run. *)
LEMMA ExecGoes ==
  ASSUME ExecsOK, Moves, NEW x \in Executors, exec[x].pc # "idle",
         NEW pc \in ExecPC \ {"idle", "ended"}, ExecGoto(x, pc)
  PROVE  /\ ExecsOK' /\ exec'[x].pc = pc /\ exec'[x].run = exec[x].run
         /\ \A y \in Executors \ {x} : exec'[y] = exec[y]
  <1> DEFINE e == [exec[x] EXCEPT !.pc = pc]
  <1>1. exec[x] \in ExecRecord /\ record[exec[x].run] # "absent"
    BY DEF ExecsOK, ExecOK
  <1>2. e \in ExecRecord /\ e.pc = pc /\ e.run = exec[x].run
    BY <1>1 DEF ExecRecord, ExecPC
  <1>3. exec' = [exec EXCEPT ![x] = e]
    BY DEF ExecGoto, ExecsOK
  <1> HIDE DEF e
  <1> QED
    BY <1>1, <1>2, <1>3, ExecMoves

(* An execution ends with a local result. *)
LEMMA ExecEnds ==
  ASSUME ExecsOK, Moves, NEW x \in Executors, exec[x].pc # "idle",
         NEW result \in Payloads \cup {"paused"}, EndsWith(x, result)
  PROVE  /\ ExecsOK' /\ exec'[x].pc = "ended" /\ exec'[x].run = exec[x].run
         /\ \A y \in Executors \ {x} : exec'[y] = exec[y]
  <1> DEFINE e == [exec[x] EXCEPT !.pc = "ended", !.result = result]
  <1>1. exec[x] \in ExecRecord /\ record[exec[x].run] # "absent"
    BY DEF ExecsOK, ExecOK
  <1>2. e \in ExecRecord /\ e.pc = "ended" /\ e.run = exec[x].run /\ e.result # "none"
    BY <1>1, ActorsAssumption DEF ExecRecord, Terminal
  <1>3. exec' = [exec EXCEPT ![x] = e]
    BY DEF EndsWith, ExecsOK
  <1> HIDE DEF e
  <1> QED
    BY <1>1, <1>2, <1>3, ExecMoves

(* An executor is done with its run. *)
LEMMA ExecRests ==
  ASSUME ExecsOK, Moves, NEW x \in Executors, exec' = [exec EXCEPT ![x] = AtRest(x)]
  PROVE  /\ ExecsOK' /\ exec'[x].pc = "idle"
         /\ \A y \in Executors \ {x} : exec'[y] = exec[y]
  <1>1. AtRest(x) \in ExecRecord /\ AtRest(x).pc = "idle"
    BY DEF ExecsOK, ExecRecord, AtRest
  <1> QED
    BY <1>1, ExecMoves

(* resume throws: a worker is still to release its row. *)
LEMMA ExecThrows ==
  ASSUME ExecsOK, Moves, NEW x \in Executors, exec[x].pc # "idle", Throws(x)
  PROVE  /\ ExecsOK' /\ exec'[x].pc \in {"idle", "release"}
         /\ \A y \in Executors \ {x} : exec'[y] = exec[y]
  <1>1. CASE x = Console
    BY <1>1, ExecRests DEF Throws
  <1>2. CASE x # Console
    BY <1>2, ExecGoes DEF Throws, ExecGoto, ExecPC
  <1> QED
    BY <1>1, <1>2

(* An executor takes a run up. *)
LEMMA ExecTakes ==
  ASSUME ExecsOK, Moves, NEW x \in Executors, NEW r \in Runs, record[r] # "absent",
         NEW pc \in {"resume", "pausing", "boot"},
         exec' = [exec EXCEPT ![x] = [AtRest(x) EXCEPT !.pc = pc, !.run = r]]
  PROVE  /\ ExecsOK' /\ exec'[x].pc = pc /\ exec'[x].run = r
         /\ \A y \in Executors \ {x} : exec'[y] = exec[y]
  <1> DEFINE e == [AtRest(x) EXCEPT !.pc = pc, !.run = r]
  <1>1. AtRest(x) \in ExecRecord
    BY DEF ExecsOK, ExecRecord, AtRest
  <1>2. ASSUME NEW y \in ExecRecord
        PROVE  LET z == [y EXCEPT !.pc = pc, !.run = r]
               IN z \in ExecRecord /\ z.pc = pc /\ z.run = r
    BY DEF ExecRecord, Working
  <1>3. e \in ExecRecord /\ e.pc = pc /\ e.run = r /\ e.pc # "ended"
    BY <1>1, <1>2
  <1>4. exec' = [exec EXCEPT ![x] = e]
    OBVIOUS
  <1> HIDE DEF e
  <1> QED
    BY <1>3, <1>4, ExecMoves

(* An execution is told to stop. *)
LEMMA ExecStops ==
  ASSUME ExecsOK, Moves, NEW x \in Executors, NEW stop \in {"cancel", "interrupt"},
         exec' = [exec EXCEPT ![x].stop = stop]
  PROVE  /\ ExecsOK' /\ exec'[x].pc = exec[x].pc /\ exec'[x].run = exec[x].run
         /\ \A y \in Executors \ {x} : exec'[y] = exec[y]
  <1> DEFINE e == [exec[x] EXCEPT !.stop = stop]
  <1>1. exec[x] \in ExecRecord /\ ExecOK(x)
    BY DEF ExecsOK
  <1>2. e \in ExecRecord /\ e.pc = exec[x].pc /\ e.run = exec[x].run /\ e.result = exec[x].result
    BY <1>1 DEF ExecRecord
  <1>3. exec' = [exec EXCEPT ![x] = e]
    BY DEF ExecsOK
  <1>4. /\ e.pc # "idle" => record[e.run] # "absent"
        /\ e.pc = "ended" => e.result # "none"
    BY <1>1, <1>2 DEF ExecOK
  <1> HIDE DEF e
  <1> QED
    BY <1>2, <1>3, <1>4, ExecMoves

(* A step of an executor leaves the calls, the cancellation and the deliveries alone. *)
LEMMA CalmFrame ==
  ASSUME HostInv, Moves, UNCHANGED <<ingressVars, deliveryVars, cancel>>
  PROVE  CallsOK' /\ InboxOK' /\ CancelOK' /\ DeliveryInv'
  <1>1. UNCHANGED <<calls, inbox, flaw, ingress, arrivals>>
    BY DEF ingressVars
  <1>2. CallsOK' /\ CancelOK' /\ DeliveryInv'
    BY <1>1, CallsFrame, CancelFrame, DeliveryFrame DEF HostInv
  <1> QED
    BY <1>1, <1>2 DEF HostInv, InboxOK

(* An executor moves without the store: it holds no number, or may hold what it held. *)
LEMMA ExecOnly ==
  ASSUME HostInv, NEW x \in Executors, ExecsOK', QueueOK', BoundsOK',
         UNCHANGED <<record, seen, ingressVars, deliveryVars, cancel>>,
         \A y \in Executors \ {x} : exec'[y] = exec[y],
         \A r \in Runs : x \in seen[r] => Holder(x, r)'
  PROVE  HostStep
  <1>1. Moves /\ UNCHANGED calls
    BY MovesNot DEF ingressVars
  <1>2. StoreOK'
    <2>1. StoreOK /\ StoreTypeOK'
      BY DEF HostInv, StoreOK, StoreTypeOK
    <2>2. \A r \in Runs : \A a \in seen'[r] :
            (a \in seen[r] /\ record'[r] = record[r] /\ Untouched(a)) \/ Holder(a, r)'
      BY <1>1 DEF Untouched
    <2> QED
      BY <2>1, <2>2, StoreStep
  <1> QED
    BY <1>1, <1>2, CalmFrame DEF HostStep, HostInv

\* What the code of x commits, where it is.
MayCommit(x, s) ==
  \/ exec[x].pc = "work"
  \/ exec[x].pc = "boot" /\ s = "running"
  \/ exec[x].pc = "pausing" /\ s = (IF x = Console THEN "failed" ELSE "paused")

Commits(x, s) ==
  /\ Commit(x, exec[x].run, s) /\ MayCommit(x, s) /\ UNCHANGED queue /\ Calm
  /\ s \in {"running", "paused"} \cup Terminal
  /\ \A y \in Executors \ {x} : exec'[y] = exec[y]
  /\ exec'[x].run = exec[x].run
  /\ exec'[x].pc = "ended" \/ (exec'[x].pc = "work" /\ s = "running")

(* An executor commits: it alone holds the number afterwards. *)
LEMMA ExecCommits ==
  ASSUME HostInv, NEW x \in Executors, NEW s, Commits(x, s), ExecsOK'
  PROVE  HostStep
  <1>0. /\ Commit(x, exec[x].run, s) /\ MayCommit(x, s) /\ UNCHANGED queue /\ Calm
        /\ s \in {"running", "paused"} \cup Terminal
        /\ \A y \in Executors \ {x} : exec'[y] = exec[y]
        /\ exec'[x].run = exec[x].run
        /\ exec'[x].pc = "ended" \/ (exec'[x].pc = "work" /\ s = "running")
    BY DEF Commits
  <1>1. PICK r \in Runs : r = exec[x].run
    BY DEF HostInv, ExecsOK, ExecRecord
  <1>2. /\ StoreOK /\ x \in seen[r] /\ record[r] # "absent" /\ x \in Actors
        /\ record' = [record EXCEPT ![r] = s] /\ seen' = [seen EXCEPT ![r] = {x}]
    BY <1>0, <1>1, ActorsAssumption DEF HostInv, Commit
  <1>3. /\ exec[x].pc = "work" => record[r] = "running"
        /\ exec[x].pc \in {"pausing", "boot"} =>
             record[r] = (IF x = Console THEN "paused" ELSE "running")
    BY <1>2, ExecutorHolds DEF HoldsAsExecutor
  <1>4. Moves
    BY <1>0, <1>2, <1>3, CommitMoves DEF Terminal, MayCommit
  <1>5. UNCHANGED <<calls, cancel, deployment, orphaned, shocks>>
    BY <1>0 DEF Calm, ingressVars
  <1>6. StoreOK'
    <2>1. Holder(x, r)'
      BY <1>0, <1>1, <1>2 DEF Holder, HoldsAsExecutor, StoreOK, StoreTypeOK
    <2>2. \A q \in Runs : x \in seen[q] => q = r
      BY <1>1, <1>2, ExecutorHolds DEF HoldsAsExecutor
    <2>3. \A q \in Runs \ {r} : \A b \in seen[q] : Untouched(b)
      BY <2>2, <1>0, <1>5 DEF Untouched
    <2>4. s \in RunStatus
      BY <1>0 DEF RunStatus
    <2> QED
      BY <1>2, <2>1, <2>3, <2>4, CommitStore
  <1>7. CallsOK' /\ InboxOK' /\ CancelOK' /\ DeliveryInv' /\ QueueOK'
    BY <1>0, <1>4, CalmFrame, QueueFrame DEF Calm, HostInv
  <1>8. BoundsOK'
    BY <1>5 DEF HostInv, BoundsOK
  <1> QED
    BY <1>4, <1>6, <1>7, <1>8 DEF HostStep, HostInv

(* Somebody loads the record of a run: the others keep their numbers. *)
LEMMA LoadStore ==
  ASSUME StoreOK, NEW a \in Actors, NEW r \in Runs, LoadRun(a, r), Holder(a, r)',
         \A q \in Runs : a \notin seen[q],
         \A q \in Runs : \A b \in seen[q] : Untouched(b)
  PROVE  StoreOK'
  <1>1. /\ StoreTypeOK' /\ UNCHANGED record
        /\ \A q \in Runs : seen'[q] = IF q = r THEN seen[q] \cup {a} ELSE seen[q]
    BY DEF StoreOK, StoreTypeOK, LoadRun
  <1>2. ASSUME NEW q \in Runs, NEW b \in seen'[q]
        PROVE  (b \in seen[q] /\ record'[q] = record[q] /\ Untouched(b)) \/ Holder(b, q)'
    BY <1>1
  <1> QED
    BY <1>1, <1>2, StoreStep

(* A worker is an executor, and not the console. *)
LEMMA WorkerIs == \A w \in Workers : w \in Executors /\ w # Console
  BY ActorsAssumption DEF Executors

(* A worker takes the oldest run that nobody has a live lease of. *)
LEMMA ClaimStep ==
  ASSUME HostInv, NEW w \in Workers, ClaimRun(w)
  PROVE  HostStep
  <1>1. PICK r \in Runs : /\ Claim(w, r)
                          /\ exec' = [exec EXCEPT ![w] = [AtRest(w) EXCEPT !.pc = "resume", !.run = r]]
    BY DEF ClaimRun
  <1>2. /\ UNCHANGED <<record, seen, ingressVars, deliveryVars, cancel, deployment, orphaned, shocks>>
        /\ w \in Executors /\ exec[w].pc = "idle" /\ Moves
    BY WorkerIs, MovesNot DEF ClaimRun, Calm, storeVars, Is
  <1>3. QueueOK' /\ record[r] # "absent"
    BY <1>1, <1>2, ClaimOK DEF HostInv
  <1>4. ExecsOK' /\ \A y \in Executors \ {w} : exec'[y] = exec[y]
    BY <1>1, <1>2, <1>3, ExecTakes DEF HostInv
  <1>5. \A q \in Runs : w \notin seen[q]
    BY <1>2, ExecutorHolds DEF HoldsAsExecutor, HostInv
  <1>6. BoundsOK'
    BY <1>2 DEF HostInv, BoundsOK
  <1> QED
    BY <1>2, <1>3, <1>4, <1>5, <1>6, ExecOnly

(* The operator takes up a paused run. *)
LEMMA ResumePausedStep ==
  ASSUME HostInv, NEW r \in Runs, ResumePaused(r)
  PROVE  HostStep
  <1>1. PICK pc \in {"boot", "pausing"} :
          exec' = [exec EXCEPT ![Console] = [AtRest(Console) EXCEPT !.pc = pc, !.run = r]]
    BY DEF ResumePaused
  <1>2. /\ UNCHANGED <<queue, ingressVars, deliveryVars, deployment, cancel, orphaned>>
        /\ Console \in Executors /\ exec[Console].pc = "idle" /\ record[r] = "paused"
        /\ LoadRun(Console, r) /\ UNCHANGED record /\ Shock /\ Moves
    BY MovesNot DEF ResumePaused, LoadRun, Is, Executors
  <1>3. /\ ExecsOK' /\ exec'[Console].pc = pc /\ exec'[Console].run = r
        /\ \A y \in Executors \ {Console} : exec'[y] = exec[y]
    BY <1>1, <1>2, ExecTakes DEF HostInv
  <1>4. \A q \in Runs : Console \notin seen[q]
    BY <1>2, ExecutorHolds DEF HoldsAsExecutor, HostInv
  <1>5. StoreOK'
    <2>1. Holder(Console, r)'
      BY <1>2, <1>3 DEF Holder, HoldsAsExecutor
    <2>2. \A q \in Runs : \A b \in seen[q] : Untouched(b)
      BY <1>2, <1>3, <1>4 DEF Untouched, ingressVars
    <2> QED
      BY <1>2, <1>4, <2>1, <2>2, LoadStore, ActorsAssumption DEF HostInv
  <1>6. CallsOK' /\ InboxOK' /\ CancelOK' /\ DeliveryInv' /\ QueueOK' /\ BoundsOK'
    BY <1>2, CalmFrame, QueueFrame, ShockBounds DEF HostInv
  <1> QED
    BY <1>2, <1>3, <1>5, <1>6 DEF HostStep, HostInv

(* engine.resume for a worker: it loads a run that is running, and answers from the
   record of one that is at rest. *)
LEMMA ResumeStep ==
  ASSUME HostInv, NEW w \in Workers, ResumeRun(w)
  PROVE  HostStep
  <1>1. PICK r \in Runs : r = RunOf(w)
    BY WorkerIs DEF HostInv, ExecsOK, ExecRecord, RunOf
  <1>2. /\ UNCHANGED <<queue, ingressVars, deliveryVars, deployment, cancel, orphaned, shocks>>
        /\ w \in Executors /\ w # Console /\ exec[w].pc = "resume" /\ exec[w].run = r
        /\ UNCHANGED record /\ Moves
    BY <1>1, WorkerIs, MovesNot DEF ResumeRun, LoadRun, Is, Calm, storeVars, RunOf
  <1>3. \A q \in Runs : w \notin seen[q]
    BY <1>2, ExecutorHolds DEF HoldsAsExecutor, HostInv
  <1>4. QueueOK' /\ BoundsOK'
    BY <1>2, QueueFrame DEF HostInv, BoundsOK
  <1>5. CASE record[r] = "running"
    <2>1. PICK pc \in {"boot", "pausing"} : ExecGoto(w, pc)
      BY <1>1, <1>5 DEF ResumeRun
    <2>2. /\ ExecsOK' /\ exec'[w].pc = pc /\ exec'[w].run = r
          /\ \A y \in Executors \ {w} : exec'[y] = exec[y]
      BY <1>2, <2>1, ExecGoes DEF HostInv, ExecPC, Working
    <2>3. StoreOK'
      <3>1. Holder(w, r)'
        BY <1>2, <1>5, <2>2 DEF Holder, HoldsAsExecutor
      <3>2. \A q \in Runs : \A b \in seen[q] : Untouched(b)
        BY <1>2, <1>3, <2>2 DEF Untouched, ingressVars
      <3>3. LoadRun(w, r) /\ w \in Actors
        BY <1>1, <1>2, <1>5, ActorsAssumption DEF ResumeRun
      <3> QED
        BY <1>3, <3>1, <3>2, <3>3, LoadStore DEF HostInv
    <2>4. CallsOK' /\ InboxOK' /\ CancelOK' /\ DeliveryInv'
      BY <1>2, CalmFrame
    <2> QED
      BY <1>2, <1>4, <2>2, <2>3, <2>4 DEF HostStep, HostInv
  <1>6. CASE record[r] # "running"
    <2>1. record[r] \in Payloads \cup {"paused"}
      BY <1>2, <1>6, ActorsAssumption
      DEF HostInv, ExecsOK, ExecOK, StoreOK, StoreTypeOK, RunStatus
    <2>2. EndsWith(w, record[r]) /\ UNCHANGED seen
      BY <1>1, <1>6 DEF ResumeRun, storeVars
    <2>3. ExecsOK' /\ \A y \in Executors \ {w} : exec'[y] = exec[y]
      BY <1>2, <2>1, <2>2, ExecEnds DEF HostInv
    <2> QED
      BY <1>2, <1>3, <1>4, <2>2, <2>3, ExecOnly
  <1> QED
    BY <1>5, <1>6

(* engine.resume pauses the run or fails it, or is too late. *)
LEMMA CommitPauseStep ==
  ASSUME HostInv, NEW x \in Executors, CommitPause(x)
  PROVE  HostStep
  <1>0. PICK s \in {"failed", "paused"} : s = IF x = Console THEN "failed" ELSE "paused"
    OBVIOUS
  <1>1. exec[x].pc = "pausing" /\ UNCHANGED queue /\ Calm /\ ExecsOK
    BY DEF CommitPause, Is, HostInv
  <1>2. CASE Commit(x, RunOf(x), s) /\ EndsWith(x, s)
    <2>1. Moves /\ s \in Payloads \cup {"paused"}
      <3>1. PICK r \in Runs : r = exec[x].run
        BY DEF HostInv, ExecsOK, ExecRecord
      <3>2. record[r] = (IF x = Console THEN "paused" ELSE "running")
        BY <1>1, <1>2, <3>1, ExecutorHolds DEF HoldsAsExecutor, HostInv, Commit, RunOf
      <3> QED
        BY <1>0, <1>2, <3>1, <3>2, CommitMoves, ActorsAssumption DEF Commit, RunOf, HostInv, Terminal
    <2>2. /\ ExecsOK' /\ exec'[x].pc = "ended" /\ exec'[x].run = exec[x].run
          /\ \A y \in Executors \ {x} : exec'[y] = exec[y]
      BY <1>1, <1>2, <2>1, ExecEnds
    <2>3. Commits(x, s)
      BY <1>0, <1>1, <1>2, <2>2 DEF RunOf, Terminal, MayCommit, Commits
    <2> QED
      BY <2>2, <2>3, ExecCommits
  <1>3. CASE Conflict(x, RunOf(x)) /\ Throws(x) /\ UNCHANGED storeVars
    <2>1. Moves /\ UNCHANGED <<record, seen, ingressVars, deliveryVars, deployment, cancel, orphaned, shocks>>
      BY <1>1, <1>3, MovesNot DEF storeVars, Calm
    <2>2. ExecsOK' /\ \A y \in Executors \ {x} : exec'[y] = exec[y]
      BY <1>1, <1>3, <2>1, ExecThrows
    <2>3. \A q \in Runs : x \notin seen[q]
      BY <1>3, ExecutorHolds DEF HoldsAsExecutor, HostInv, Conflict, RunOf
    <2>4. QueueOK' /\ BoundsOK'
      BY <1>1, <2>1, QueueFrame DEF HostInv, BoundsOK
    <2> QED
      BY <2>1, <2>2, <2>3, <2>4, ExecOnly
  <1> QED
    BY <1>0, <1>2, <1>3 DEF CommitPause

(* The first commit of #execute. *)
LEMMA BootStep ==
  ASSUME HostInv, NEW x \in Executors, Boot(x)
  PROVE  HostStep
  <1>1. /\ exec[x].pc = "boot" /\ UNCHANGED queue /\ Calm /\ ExecsOK /\ ExecGoto(x, "work")
        /\ Commit(x, exec[x].run, "running")
    BY DEF Boot, Is, HostInv, RunOf
  <1>2. Moves
    <2>1. PICK r \in Runs : r = exec[x].run
      BY DEF HostInv, ExecsOK, ExecRecord
    <2>2. record[r] \in {"running", "paused"}
      BY <1>1, <2>1, ExecutorHolds DEF HoldsAsExecutor, HostInv, Commit
    <2> QED
      BY <1>1, <2>1, <2>2, CommitMoves DEF Commit, HostInv
  <1>3. /\ ExecsOK' /\ exec'[x].pc = "work" /\ exec'[x].run = exec[x].run
        /\ \A y \in Executors \ {x} : exec'[y] = exec[y]
    BY <1>1, <1>2, ExecGoes DEF ExecPC, Working
  <1>4. Commits(x, "running")
    BY <1>1, <1>3 DEF MayCommit, Commits
  <1> QED
    BY <1>3, <1>4, ExecCommits

(* A commit of the loop: progress, or the end of the run. *)
LEMMA LoopCommitStep ==
  ASSUME HostInv, NEW x \in Executors, Progress(x) \/ Finish(x) \/ FinishCancelled(x)
  PROVE  HostStep
  <1>1. /\ exec[x].pc = "work" /\ UNCHANGED queue /\ Calm /\ ExecsOK
    BY DEF Progress, Finish, FinishCancelled, Is, HostInv
  <1>2. PICK s \in {"running", "paused"} \cup Terminal :
          /\ Commit(x, exec[x].run, s)
          /\ \/ s = "running" /\ UNCHANGED exec
             \/ s # "running" /\ EndsWith(x, s)
    BY DEF Progress, Finish, FinishCancelled, RunOf, Terminal
  <1>3. Moves
    <2>1. PICK r \in Runs : r = exec[x].run
      BY DEF HostInv, ExecsOK, ExecRecord
    <2>2. record[r] = "running"
      BY <1>1, <1>2, <2>1, ExecutorHolds DEF HoldsAsExecutor, HostInv, Commit
    <2> QED
      BY <1>2, <2>1, <2>2, CommitMoves DEF Commit, HostInv
  <1>4. CASE s = "running" /\ UNCHANGED exec
    <2>1. ExecsOK'
      BY <1>1, <1>3, <1>4, ExecsFrame
    <2>2. /\ exec'[x].run = exec[x].run /\ exec'[x].pc = "work"
          /\ \A y \in Executors \ {x} : exec'[y] = exec[y]
      BY <1>1, <1>4
    <2>3. Commits(x, s)
      BY <1>1, <1>2, <1>4, <2>2 DEF MayCommit, Commits
    <2> QED
      BY <2>1, <2>3, ExecCommits
  <1>5. CASE s # "running" /\ EndsWith(x, s)
    <2>1. s \in Payloads \cup {"paused"}
      BY <1>5, ActorsAssumption
    <2>2. /\ ExecsOK' /\ exec'[x].pc = "ended" /\ exec'[x].run = exec[x].run
          /\ \A y \in Executors \ {x} : exec'[y] = exec[y]
      BY <1>1, <1>3, <1>5, <2>1, ExecEnds
    <2>3. Commits(x, s)
      BY <1>1, <1>2, <2>2 DEF MayCommit, Commits
    <2> QED
      BY <2>2, <2>3, ExecCommits
  <1> QED
    BY <1>2, <1>4, <1>5

(* An execution ends without a commit: it was interrupted, or its commit was lost. *)
LEMMA EndStep ==
  ASSUME HostInv, NEW x \in Executors, FinishInterrupted(x) \/ LoseCommit(x)
  PROVE  HostStep
  <1>1. /\ exec[x].pc \in {"boot", "work"} /\ ExecsOK
        /\ UNCHANGED <<record, seen, queue, ingressVars, deliveryVars, deployment, cancel, orphaned, shocks>>
    BY DEF FinishInterrupted, LoseCommit, Is, HostInv, Calm, storeVars
  <1>2. Moves
    BY <1>1, MovesNot
  <1>3. PICK result \in Payloads \cup {"paused"} : EndsWith(x, result)
    BY ActorsAssumption DEF FinishInterrupted, LoseCommit, Terminal
  <1>4. /\ ExecsOK' /\ exec'[x].pc = "ended" /\ exec'[x].run = exec[x].run
        /\ \A y \in Executors \ {x} : exec'[y] = exec[y]
    BY <1>1, <1>2, <1>3, ExecEnds
  <1>5. \A r \in Runs : x \in seen[r] => Holder(x, r)'
    BY <1>4, ExecutorHolds DEF HoldsAsExecutor, Holder, HostInv
  <1>6. QueueOK' /\ BoundsOK'
    BY <1>1, <1>2, QueueFrame DEF HostInv, BoundsOK
  <1> QED
    BY <1>1, <1>4, <1>5, <1>6, ExecOnly

(* The local result is reconciled with the record, and the worker delivers what is not
   paused. *)
LEMMA ReconcileStep ==
  ASSUME HostInv, NEW x \in Executors, Reconcile(x)
  PROVE  HostStep
  <1>1. PICK r \in Runs : r = exec[x].run
    BY DEF HostInv, ExecsOK, ExecRecord
  <1> DEFINE result == IF record[r] \in Terminal THEN record[r] ELSE exec[x].result
  <1>2. /\ exec[x].pc = "ended" /\ exec[x].result # "none" /\ ExecsOK /\ StoreOK
        /\ seen' = [seen EXCEPT ![r] = @ \ {x}]
        /\ UNCHANGED <<record, queue, ingressVars, outbox, posts, deployment, cancel, shocks>>
        /\ exec[x].result \in Payloads \cup {"none", "paused"}
    BY <1>1 DEF Reconcile, Is, HostInv, ExecsOK, ExecOK, ExecRecord, RunOf
  <1>3. Moves /\ UNCHANGED calls
    BY <1>2, MovesNot DEF ingressVars
  <1>4. ExecsOK' /\ \A y \in Executors \ {x} : exec'[y] = exec[y]
    <2>1. CASE x = Console
      BY <2>1, <1>2, <1>3, ExecRests DEF Reconcile
    <2>2. CASE x # Console
      BY <2>2, <1>2, <1>3, ExecGoes DEF Reconcile, ExecPC
    <2> QED
      BY <2>1, <2>2
  <1>5. StoreOK'
    <2>1. seen' \in [Runs -> SUBSET Actors]
      BY <1>2 DEF StoreOK, StoreTypeOK
    <2>2. \A q \in Runs : seen'[q] = IF q = r THEN seen[q] \ {x} ELSE seen[q]
      BY <1>2 DEF StoreOK, StoreTypeOK
    <2>3. \A q \in Runs : x \in seen[q] => q = r
      BY <1>1, <1>2, ExecutorHolds DEF HoldsAsExecutor
    <2>4. \A q \in Runs : \A a \in seen'[q] : Untouched(a)
      BY <2>2, <2>3, <1>2, <1>3, <1>4 DEF Untouched
    <2> QED
      BY <2>1, <2>2, <2>4, <1>2, StoreShrinks
  <1>6. DeliveryInv'
    <2>1. CASE UNCHANGED sending
      BY <2>1, <1>2, DeliveryFrame DEF HostInv, deliveryVars
    <2>2. CASE x # Console /\ result # "paused" /\ StartDelivery(x, r, result)
      <3>1. x \in Deliverers /\ result \in Payloads \cup {"none"}
        BY <2>2, <1>2, ActorsAssumption DEF Executors
      <3> QED
        BY <2>2, <3>1, <1>2, StartDeliveryOK DEF HostInv
    <2> QED
      BY <2>1, <2>2, <1>1 DEF Reconcile, RunOf
  <1>7. BoundsOK'
    BY <1>1, <1>2 DEF Reconcile, RunOf, HostInv, BoundsOK
  <1>8. CallsOK' /\ CancelOK' /\ QueueOK'
    BY <1>2, <1>3, CallsFrame, CancelFrame, QueueFrame DEF HostInv
  <1>9. InboxOK'
    BY <1>2 DEF ingressVars, HostInv, InboxOK
  <1> QED
    BY <1>3, <1>4, <1>5, <1>6, <1>7, <1>8, <1>9 DEF HostStep, HostInv

(* The end of runOnce: the row is released, the run looked at and enqueued again. *)
LEMMA FinallyStep ==
  ASSUME HostInv, NEW w \in Workers, ReleaseRun(w) \/ CheckRun(w) \/ RequeueRun(w)
  PROVE  HostStep
  <1>1. /\ w \in Executors /\ ExecsOK /\ QueueOK /\ exec[w].pc \in {"release", "check", "requeue"}
        /\ UNCHANGED <<record, seen, ingressVars, deliveryVars, deployment, cancel, orphaned, shocks>>
        /\ Moves
    BY WorkerIs, MovesNot DEF ReleaseRun, CheckRun, RequeueRun, Is, HostInv, Calm, storeVars
  <1>2. ExecsOK' /\ \A y \in Executors \ {w} : exec'[y] = exec[y]
    <2>1. CASE ExecGoto(w, "check")
      BY <2>1, <1>1, ExecGoes DEF ExecPC
    <2>2. CASE exec' = [exec EXCEPT ![w] = AtRest(w)]
      BY <2>2, <1>1, ExecRests
    <2>3. CASE ExecGoto(w, "requeue")
      BY <2>3, <1>1, ExecGoes DEF ExecPC
    <2>4. ReleaseRun(w) => ExecGoto(w, "check")
      BY DEF ReleaseRun
    <2>5. CheckRun(w) => exec' = [exec EXCEPT ![w] = AtRest(w)] \/ ExecGoto(w, "requeue")
      BY DEF CheckRun, ExecGoto
    <2>6. RequeueRun(w) => exec' = [exec EXCEPT ![w] = AtRest(w)]
      BY DEF RequeueRun
    <2> QED
      BY <2>1, <2>2, <2>3, <2>4, <2>5, <2>6
  <1>3. QueueOK'
    <2>1. CASE ReleaseRun(w)
      BY <2>1, <1>1, ReleaseOK DEF ReleaseRun
    <2>2. CASE CheckRun(w)
      BY <2>2, <1>1, QueueFrame DEF CheckRun
    <2>3. CASE RequeueRun(w)
      <3>1. exec[w].run \in Runs /\ record[exec[w].run] # "absent"
        BY <1>1 DEF ExecsOK, ExecOK, ExecRecord
      <3> QED
        BY <2>3, <3>1, <1>1, EnqueueOK DEF RequeueRun, RunOf
    <2> QED
      BY <2>1, <2>2, <2>3
  <1>4. \A q \in Runs : w \notin seen[q]
    BY <1>1, ExecutorHolds DEF HoldsAsExecutor, HostInv
  <1>5. BoundsOK'
    BY <1>1 DEF HostInv, BoundsOK
  <1> QED
    BY <1>1, <1>2, <1>3, <1>4, <1>5, ExecOnly

(* An execution is interrupted: its lease is lost, or the Host stops it. *)
LEMMA InterruptStep ==
  ASSUME HostInv, NEW x \in Executors,
         (x \in Workers /\ LeaseLost(x)) \/ StopExecutor(x)
  PROVE  HostStep
  <1>1. /\ exec' = [exec EXCEPT ![x].stop = "interrupt"]
        /\ UNCHANGED <<record, seen, queue, ingressVars, deliveryVars, deployment, cancel, orphaned>>
        /\ shocks' = shocks \/ Shock
    BY DEF LeaseLost, StopExecutor, storeVars, Calm
  <1>2. Moves
    BY <1>1, MovesNot
  <1>3. /\ ExecsOK' /\ exec'[x].pc = exec[x].pc /\ exec'[x].run = exec[x].run
        /\ \A y \in Executors \ {x} : exec'[y] = exec[y]
    BY <1>1, <1>2, ExecStops DEF HostInv
  <1>4. \A r \in Runs : x \in seen[r] => Holder(x, r)'
    BY <1>1, <1>3, ExecutorHolds DEF HoldsAsExecutor, Holder, HostInv
  <1>5. QueueOK'
    BY <1>1, <1>2, QueueFrame DEF HostInv
  <1>6. BoundsOK'
    BY <1>1, ShockBounds DEF HostInv, BoundsOK
  <1> QED
    BY <1>1, <1>3, <1>4, <1>5, <1>6, ExecOnly

(* A run cannot be resumed where the worker is. *)
LEMMA ResumeFailsStep ==
  ASSUME HostInv, NEW w \in Workers, ResumeFails(w)
  PROVE  HostStep
  <1>1. /\ Throws(w) /\ Shock /\ w \in Executors /\ exec[w].pc = "resume"
        /\ UNCHANGED <<record, seen, queue, ingressVars, deliveryVars, deployment, cancel, orphaned>>
    BY WorkerIs DEF ResumeFails, Is, storeVars
  <1>2. Moves
    BY <1>1, MovesNot
  <1>3. ExecsOK' /\ \A y \in Executors \ {w} : exec'[y] = exec[y]
    BY <1>1, <1>2, ExecThrows DEF HostInv
  <1>4. \A q \in Runs : w \notin seen[q]
    BY <1>1, ExecutorHolds DEF HoldsAsExecutor, HostInv
  <1>5. QueueOK' /\ BoundsOK'
    BY <1>1, <1>2, QueueFrame, ShockBounds DEF HostInv
  <1> QED
    BY <1>1, <1>3, <1>4, <1>5, ExecOnly

(* A lease runs out, of a worker that is gone or of one that is late. *)
LEMMA LeaseStep ==
  ASSUME HostInv, NEW w \in Workers, DeadLeaseRunsOut(w) \/ HeartbeatLate(w)
  PROVE  HostStep
  <1>1. PICK r : Expire(w, r)
    BY DEF DeadLeaseRunsOut, HeartbeatLate
  <1>2. /\ UNCHANGED <<record, seen, ingressVars, deliveryVars, deployment, exec, cancel, orphaned>>
        /\ shocks' = shocks \/ Shock
    BY DEF DeadLeaseRunsOut, HeartbeatLate, storeVars, hostVars
  <1>3. Moves
    BY <1>2, MovesNot
  <1>4. QueueOK'
    BY <1>1, <1>3, ExpireOK DEF HostInv
  <1>5. ExecsOK'
    BY <1>2, <1>3, ExecsFrame DEF HostInv
  <1>6. BoundsOK'
    BY <1>2, ShockBounds DEF HostInv, BoundsOK
  <1>7. w \in Executors
    BY WorkerIs
  <1>8. \A r1 \in Runs : w \in seen[r1] => Holder(w, r1)'
    BY <1>2, <1>7, ExecutorHolds DEF HoldsAsExecutor, Holder, HostInv
  <1> QED
    BY <1>2, <1>4, <1>5, <1>6, <1>7, <1>8, ExecOnly

-----------------------------------------------------------------------------
(* The operator, the deliveries and the crash of a process. *)

(* runtime.cancel is called, and aborts an execution in its process. *)
LEMMA CancelRunStep ==
  ASSUME HostInv, NEW r \in Runs, CancelRun(r)
  PROVE  HostStep
  <1>1. /\ cancel.pc = "idle" /\ cancel' = [cancel EXCEPT !.pc = "load", !.run = r]
        /\ UNCHANGED <<record, seen, queue, ingressVars, deliveryVars, deployment, orphaned>>
        /\ UNCHANGED calls /\ Shock
    BY DEF CancelRun, storeVars, ingressVars
  <1>2. Moves
    BY <1>1, MovesNot
  <1>3. \A y \in Executors : exec'[y] = exec[y] \/ exec'[y] = [exec[y] EXCEPT !.stop = "cancel"]
    BY DEF CancelRun
  <1>4. \A y \in Executors : /\ exec'[y] \in ExecRecord /\ exec'[y].pc = exec[y].pc
                             /\ exec'[y].run = exec[y].run /\ exec'[y].result = exec[y].result
    <2>1. ASSUME NEW e \in ExecRecord
          PROVE  LET z == [e EXCEPT !.stop = "cancel"]
                 IN z \in ExecRecord /\ z.pc = e.pc /\ z.run = e.run /\ z.result = e.result
      BY DEF ExecRecord
    <2>2. \A y \in Executors : exec[y] \in ExecRecord
      BY DEF HostInv, ExecsOK
    <2> QED
      BY <1>3, <2>1, <2>2
  <1>5. ExecsOK'
    <2>1. exec' \in [Executors -> ExecRecord]
      BY <1>4 DEF CancelRun
    <2>2. ASSUME NEW y \in Executors PROVE ExecOK(y)'
      BY <1>1, <1>4 DEF HostInv, ExecsOK, ExecOK
    <2> QED
      BY <2>1, <2>2 DEF ExecsOK
  <1>6. CancelOK'
    BY <1>1 DEF HostInv, CancelOK, CancelRecord
  <1>7. StoreOK'
    <2>1. \A q \in Runs : Canceller \notin seen[q]
      BY <1>1, CancellerHolds DEF HoldsAsCanceller, HostInv
    <2>2. ASSUME NEW q \in Runs, NEW a \in seen[q] PROVE Untouched(a) \/ Holder(a, q)'
      <3>1. CASE a \in Executors
        <4>1. HoldsAsExecutor(a, q)
          BY <3>1, ExecutorHolds DEF HostInv
        <4> QED
          BY <3>1, <4>1, <1>1, <1>4 DEF HoldsAsExecutor, Holder
      <3>2. CASE a \notin Executors
        BY <3>2, <2>1, <1>1 DEF Untouched
      <3> QED
        BY <3>1, <3>2
    <2>3. StoreOK /\ StoreTypeOK'
      BY <1>1 DEF HostInv, StoreOK, StoreTypeOK
    <2> QED
      BY <2>2, <2>3, <1>1, StoreStep
  <1>8. CallsOK' /\ DeliveryInv' /\ QueueOK'
    BY <1>1, <1>2, CallsFrame, DeliveryFrame, QueueFrame DEF HostInv
  <1>9. InboxOK' /\ BoundsOK'
    BY <1>1, ShockBounds DEF HostInv, InboxOK, ingressVars
  <1> QED
    BY <1>2, <1>5, <1>6, <1>7, <1>8, <1>9 DEF HostStep, HostInv

(* A step of the operator leaves the rest of the system alone. *)
LEMMA CancelFrames ==
  ASSUME HostInv, Moves,
         UNCHANGED <<queue, ingressVars, deliveryVars, deployment, exec, orphaned, shocks>>
  PROVE  QueueOK' /\ CallsOK' /\ InboxOK' /\ ExecsOK' /\ DeliveryInv' /\ BoundsOK'
  <1>1. UNCHANGED <<calls, inbox, flaw, ingress, arrivals>>
    BY DEF ingressVars
  <1>2. QueueOK' /\ CallsOK' /\ ExecsOK' /\ DeliveryInv'
    BY <1>1, CallsFrame, ExecsFrame, DeliveryFrame, QueueFrame DEF HostInv
  <1> QED
    BY <1>1, <1>2 DEF HostInv, InboxOK, BoundsOK

(* cancelPersisted loads the record: it answers with an outcome it finds. *)
LEMMA CancelLoadsStep ==
  ASSUME HostInv, CancelLoads
  PROVE  HostStep
  <1>1. PICK r \in Runs : r = cancel.run
    BY DEF HostInv, CancelOK, CancelRecord
  <1>2. /\ cancel.pc = "load"
        /\ UNCHANGED <<queue, ingressVars, deliveryVars, deployment, exec, orphaned, shocks>>
        /\ UNCHANGED record /\ UNCHANGED calls
    BY DEF CancelLoads, LoadRun, storeVars, ingressVars
  <1>3. Moves
    BY <1>2, MovesNot
  <1>4. \A q \in Runs : Canceller \notin seen[q]
    BY <1>2, CancellerHolds DEF HoldsAsCanceller, HostInv
  <1>5. \A q \in Runs : \A b \in seen[q] : Untouched(b)
    BY <1>2, <1>4 DEF Untouched
  <1>6. CASE record[r] \in Terminal
    <2>1. UNCHANGED seen /\ cancel' = [cancel EXCEPT !.pc = "answered", !.answer = record[r]]
      BY <1>1, <1>6 DEF CancelLoads, storeVars
    <2>2. CancelOK'
      BY <1>1, <1>2, <1>6, <2>1 DEF HostInv, CancelOK, CancelRecord
    <2>3. StoreOK'
      BY <1>2, <1>5, <2>1, StoreShrinks DEF HostInv, StoreOK, StoreTypeOK
    <2> QED
      BY <1>2, <1>3, <2>2, <2>3, CancelFrames DEF HostStep, HostInv
  <1>7. CASE record[r] \notin Terminal
    <2>1. LoadRun(Canceller, r) /\ cancel' = [cancel EXCEPT !.pc = "commit"]
      BY <1>1, <1>7 DEF CancelLoads
    <2>2. CancelOK' /\ cancel'.pc = "commit" /\ cancel'.run = r
      BY <1>1, <1>2, <2>1 DEF HostInv, CancelOK, CancelRecord
    <2>3. record'[r] \in {"running", "paused"}
      BY <1>2, <1>7, <2>1 DEF HostInv, StoreOK, StoreTypeOK, LoadRun, RunStatus
    <2>4. Holder(Canceller, r)'
      BY <2>2, <2>3 DEF Holder, HoldsAsCanceller
    <2>5. StoreOK'
      BY <1>4, <1>5, <2>1, <2>4, LoadStore, ActorsAssumption DEF HostInv
    <2> QED
      BY <1>2, <1>3, <2>2, <2>5, CancelFrames DEF HostStep, HostInv
  <1> QED
    BY <1>6, <1>7

(* cancelPersisted commits: the run is cancelled, or it loads again, or gives up. *)
LEMMA CancelCommitsStep ==
  ASSUME HostInv, CancelCommits
  PROVE  HostStep
  <1>1. PICK r \in Runs : r = cancel.run
    BY DEF HostInv, CancelOK, CancelRecord
  <1>2. /\ cancel.pc = "commit"
        /\ UNCHANGED <<queue, ingressVars, deliveryVars, deployment, exec, orphaned, shocks>>
        /\ UNCHANGED calls
    BY DEF CancelCommits, ingressVars
  <1>3. CASE /\ Commit(Canceller, r, "cancelled")
             /\ cancel' = [cancel EXCEPT !.pc = "answered", !.answer = "cancelled"]
    <2>1. /\ record' = [record EXCEPT ![r] = "cancelled"] /\ seen' = [seen EXCEPT ![r] = {Canceller}]
          /\ Canceller \in seen[r]
      BY <1>3 DEF Commit
    <2>2. record[r] \in {"running", "paused"}
      BY <1>2, <2>1, CancellerHolds DEF HoldsAsCanceller, HostInv
    <2>3. Moves
      BY <2>1, <2>2, CommitMoves DEF HostInv, Terminal
    <2>4. CancelOK' /\ cancel'.pc = "answered" /\ cancel'.run = r
      BY <1>1, <1>3, <2>1 DEF HostInv, CancelOK, CancelRecord, StoreOK, StoreTypeOK, Terminal
    <2>5. StoreOK'
      <3>1. Holder(Canceller, r)'
        BY <2>4 DEF Holder, HoldsAsCanceller
      <3>2. \A q \in Runs : Canceller \in seen[q] => q = r
        BY <1>1, CancellerHolds DEF HoldsAsCanceller, HostInv
      <3>3. \A q \in Runs \ {r} : \A b \in seen[q] : Untouched(b)
        BY <3>2, <1>2 DEF Untouched
      <3>4. "cancelled" \in RunStatus /\ Canceller \in Actors
        BY ActorsAssumption DEF RunStatus, Terminal
      <3> QED
        BY <2>1, <3>1, <3>3, <3>4, CommitStore DEF HostInv
    <2> QED
      BY <1>2, <2>3, <2>4, <2>5, CancelFrames DEF HostStep, HostInv
  <1>4. CASE /\ Conflict(Canceller, r) /\ UNCHANGED storeVars
             /\ cancel' = IF cancel.tries < 2
                          THEN [cancel EXCEPT !.pc = "load", !.tries = @ + 1]
                          ELSE [cancel EXCEPT !.pc = "gaveup"]
    <2>1. UNCHANGED <<record, seen>> /\ Moves
      BY <1>4, MovesNot DEF storeVars
    <2>2. CancelOK'
      <3>1. CASE cancel.tries < 2
        <4>1. cancel \in CancelRecord /\ cancel.tries + 1 \in 0 .. 2
          BY <3>1 DEF HostInv, CancelOK, CancelRecord
        <4>2. cancel' = [cancel EXCEPT !.pc = "load", !.tries = cancel.tries + 1]
          BY <3>1, <1>4
        <4>3. cancel' \in CancelRecord /\ cancel'.pc = "load"
          BY <4>1, <4>2 DEF CancelRecord
        <4> QED
          BY <4>3 DEF CancelOK
      <3>2. CASE ~(cancel.tries < 2)
        <4>1. cancel' = [cancel EXCEPT !.pc = "gaveup"] /\ cancel \in CancelRecord
          BY <3>2, <1>4 DEF HostInv, CancelOK
        <4>2. cancel' \in CancelRecord /\ cancel'.pc = "gaveup"
          BY <4>1 DEF CancelRecord
        <4> QED
          BY <4>2 DEF CancelOK
      <3> QED
        BY <3>1, <3>2
    <2>3. \A q \in Runs : Canceller \notin seen[q]
      BY <1>1, <1>4, CancellerHolds DEF HoldsAsCanceller, HostInv, Conflict
    <2>4. \A q \in Runs : \A b \in seen[q] : Untouched(b)
      BY <2>3, <1>2 DEF Untouched
    <2>5. StoreOK'
      BY <2>1, <2>4, StoreShrinks DEF HostInv, StoreOK, StoreTypeOK
    <2> QED
      BY <1>2, <2>1, <2>2, <2>5, CancelFrames DEF HostStep, HostInv
  <1> QED
    BY <1>1, <1>3, <1>4 DEF CancelCommits

(* A delivery is retried, or goes on. *)
LEMMA DeliveryStep ==
  ASSUME HostInv, (\E r \in Runs : Retry(r)) \/ (\E d \in Deliverers : SendStep(d))
  PROVE  HostStep
  <1>1. /\ UNCHANGED <<record, seen, queue, ingressVars, deployment, exec, cancel, orphaned>>
        /\ UNCHANGED <<calls, inbox, flaw, ingress, arrivals>>
        /\ shocks' = shocks \/ Shock
    BY DEF Retry, SendStep, storeVars, hostVars, ingressVars
  <1>2. Moves
    BY <1>1, MovesNot
  <1>3. DeliveryInv'
    <2>1. ASSUME NEW r \in Runs, Retry(r) PROVE DeliveryInv'
      <3>1. outbox[r].payload \in Payloads \cup {"none"} /\ Retrier \in Deliverers
        BY ActorsAssumption DEF HostInv, DeliveryInv, DeliveryShape, Outbox
      <3>2. StartDelivery(Retrier, r, outbox[r].payload) /\ UNCHANGED <<outbox, posts>>
        BY <2>1 DEF Retry
      <3> QED
        BY <3>1, <3>2, StartDeliveryOK DEF HostInv
    <2>2. ASSUME NEW d \in Deliverers, SendStep(d) PROVE DeliveryInv'
      BY <2>2, SendOKStep DEF SendStep, HostInv
    <2> QED
      BY <2>1, <2>2
  <1>4. QueueOK' /\ CallsOK' /\ ExecsOK' /\ CancelOK'
    BY <1>1, <1>2, CallsFrame, ExecsFrame, CancelFrame, QueueFrame DEF HostInv
  <1>5. StoreOK'
    BY <1>1, StoreShrinks DEF HostInv, StoreOK, StoreTypeOK, Untouched
  <1>6. InboxOK' /\ BoundsOK'
    BY <1>1, ShockBounds DEF HostInv, InboxOK, BoundsOK
  <1> QED
    BY <1>2, <1>3, <1>4, <1>5, <1>6 DEF HostStep, HostInv

(* A process dies: the numbers, the calls, the executions and the deliveries in it are
   gone, the store, the queue and the outbox stay. *)
LEMMA CrashStep ==
  ASSUME HostInv, NEW p \in Processes, Crash(p)
  PROVE  HostStep
  <1> DEFINE dead == {x \in Executors : Site[x] = p}
             calling == {c \in Callers : Site[c] = p}
             gone == dead \cup calling \cup {a \in {Canceller} : Site[a] = p}
  <1>1. /\ Shock
        /\ exec' = [x \in Executors |-> IF x \in dead THEN AtRest(x) ELSE exec[x]]
        /\ cancel' = IF Site[Canceller] = p THEN [cancel EXCEPT !.pc = "idle", !.tries = 0] ELSE cancel
        /\ calls' = [c \in Callers |-> IF c \in calling THEN Idle ELSE calls[c]]
        /\ seen' = [r \in Runs |-> seen[r] \ gone]
        /\ orphaned' \subseteq orphaned \cup Runs
        /\ UNCHANGED <<record, queue, flaw, ingress, inbox, arrivals, outbox, posts, deployment>>
    BY DEF Crash, CallsDie, Dropped
  <1>2. Moves
    BY <1>1, MovesNot
  <1>3. ExecsOK'
    <2>1. \A x \in Executors : AtRest(x) \in ExecRecord /\ AtRest(x).pc = "idle"
      BY DEF HostInv, ExecsOK, ExecRecord, AtRest
    <2> HIDE DEF dead
    <2>2. ASSUME NEW x \in Executors PROVE ExecOK(x)'
      <3>1. CASE x \in dead
        BY <3>1, <2>1, <1>1 DEF ExecOK
      <3>2. CASE x \notin dead
        BY <3>2, <1>1, <1>2, ExecKept DEF HostInv
      <3> QED
        BY <3>1, <3>2
    <2>3. exec' \in [Executors -> ExecRecord]
      BY <1>1, <2>1 DEF HostInv, ExecsOK
    <2> QED
      BY <2>2, <2>3 DEF ExecsOK
  <1>4. CallsOK'
    <2>1. /\ Idle \in CallRecord /\ Idle.pc = "idle" /\ Len(Idle.todo) = 0
          /\ 0 <= Cardinality(Events)
      BY EmptySeq, FS_CardinalityType, BoundsAssumption DEF Idle, CallRecord, CallPC, Events
    <2> HIDE DEF calling
    <2>2. ASSUME NEW c \in Callers PROVE CallOK(c)'
      <3>1. CASE c \in calling
        BY <3>1, <2>1, <1>1 DEF CallOK
      <3>2. CASE c \notin calling
        BY <3>2, <1>1, <1>2, CallKept DEF HostInv
      <3> QED
        BY <3>1, <3>2
    <2>3. calls' \in [Callers -> CallRecord]
      BY <1>1, <2>1 DEF HostInv, CallsOK
    <2> QED
      BY <2>2, <2>3 DEF CallsOK
  <1>5. CancelOK'
    <2>1. CASE cancel' = cancel
      BY <2>1, <1>2, CancelFrame DEF HostInv
    <2>2. CASE cancel' = [cancel EXCEPT !.pc = "idle", !.tries = 0]
      <3>1. cancel' \in CancelRecord /\ cancel'.pc = "idle"
        <4>1. cancel \in CancelRecord /\ 0 \in 0 .. 2
          BY DEF HostInv, CancelOK
        <4>2. ASSUME NEW k \in CancelRecord
              PROVE  LET z == [k EXCEPT !.pc = "idle", !.tries = 0]
                     IN z \in CancelRecord /\ z.pc = "idle"
          BY <4>1 DEF CancelRecord
        <4> QED
          BY <2>2, <4>1, <4>2
      <3> QED
        BY <3>1 DEF CancelOK
    <2> QED
      BY <2>1, <2>2, <1>1
  <1>6. StoreOK'
    <2>1. seen' \in [Runs -> SUBSET Actors] /\ \A r \in Runs : seen'[r] = seen[r] \ gone
      BY <1>1 DEF HostInv, StoreOK, StoreTypeOK
    <2>2. ASSUME NEW a, a \notin gone PROVE Untouched(a)
      BY <2>2, <1>1 DEF Untouched
    <2> HIDE DEF gone
    <2> QED
      BY <2>1, <2>2, <1>1, StoreShrinks DEF HostInv
  <1>7. DeliveryInv'
    BY <1>1, SendersDieOK DEF Crash, HostInv
  <1>8. QueueOK'
    BY <1>1, <1>2, QueueFrame DEF HostInv
  <1>9. InboxOK'
    BY <1>1 DEF HostInv, InboxOK
  <1>10. BoundsOK'
    BY <1>1, BoundsAssumption DEF HostInv, BoundsOK, Shock
  <1> QED
    BY <1>2, <1>3, <1>4, <1>5, <1>6, <1>7, <1>8, <1>9, <1>10 DEF HostStep, HostInv

-----------------------------------------------------------------------------
(* The theorems. *)

(* Nothing has happened when the system starts. *)
LEMMA HostInitOK == Init => HostInv
  <1> SUFFICES ASSUME Init PROVE HostInv
    OBVIOUS
  <1>1. StoreOK
    BY DEF Init, StoreInit, StoreOK, StoreTypeOK, RunStatus
  <1>2. QueueOK
    BY EmptySeq DEF Init, QueueInit, QueueOK
  <1>3. InboxOK
    BY EmptySeq DEF Init, IngressInit, InboxOK
  <1>4. CallsOK
    <2>1. /\ Idle \in CallRecord /\ Idle.pc = "idle" /\ Len(Idle.todo) = 0
          /\ 0 <= Cardinality(Events)
      BY EmptySeq, FS_CardinalityType, BoundsAssumption DEF Idle, CallRecord, CallPC, Events
    <2>2. calls = [c \in Callers |-> Idle]
      BY DEF Init, IngressInit
    <2> QED
      BY <2>1, <2>2 DEF CallsOK, CallOK
  <1>5. ExecsOK
    BY SomeRun DEF Init, HostInit, ExecsOK, ExecOK, ExecRecord
  <1>6. CancelOK
    BY SomeRun DEF Init, HostInit, CancelOK, CancelRecord
  <1>7. BoundsOK
    BY BoundsAssumption DEF Init, HostInit, BoundsOK
  <1>8. DeliveryInv
    BY DeliveryInitOK DEF Init
  <1> QED
    BY <1>1, <1>2, <1>3, <1>4, <1>5, <1>6, <1>7, <1>8 DEF HostInv

(* Each step of the system, from whoever it comes. *)
LEMMA NextStep == ASSUME HostInv, [Next]_vars PROVE HostStep
  <1>1. CASE \E c \in Callers : Arrival(c) \/ CallStep(c) \/ Recovery(c) \/ Outage(c)
    BY <1>1, ServeStep
  <1>2. ASSUME NEW w \in Workers,
               WorkerStep(w) \/ LeaseLost(w) \/ ResumeFails(w) \/ DeadLeaseRunsOut(w) \/ HeartbeatLate(w)
        PROVE  HostStep
    BY <1>2, WorkerIs, ClaimStep, ResumeStep, FinallyStep, InterruptStep, ResumeFailsStep, LeaseStep
    DEF WorkerStep
  <1>3. ASSUME NEW x \in Executors, ExecutorStep(x) \/ Progress(x) \/ StopExecutor(x)
        PROVE  HostStep
    BY <1>3, CommitPauseStep, BootStep, LoopCommitStep, EndStep, ReconcileStep, InterruptStep
    DEF ExecutorStep
  <1>4. ASSUME NEW r \in Runs, ResumePaused(r) \/ CancelRun(r) \/ Retry(r) PROVE HostStep
    BY <1>4, ResumePausedStep, CancelRunStep, DeliveryStep
  <1>5. CASE CancelLoads \/ CancelCommits
    BY <1>5, CancelLoadsStep, CancelCommitsStep
  <1>6. CASE \E d \in Deliverers : SendStep(d)
    BY <1>6, DeliveryStep
  <1>7. CASE \E p \in Processes : Crash(p)
    BY <1>7, CrashStep
  <1>8. CASE UNCHANGED vars
    <2>1. /\ UNCHANGED <<record, seen, queue, deployment, exec, cancel, orphaned, shocks>>
          /\ UNCHANGED <<calls, inbox, flaw, ingress, arrivals, deliveryVars>>
      BY <1>8 DEF vars, storeVars, hostVars, ingressVars, deliveryVars
    <2>2. Moves
      BY <2>1, MovesNot
    <2>3. QueueOK' /\ CallsOK' /\ ExecsOK' /\ CancelOK' /\ DeliveryInv'
      BY <2>1, <2>2, CallsFrame, ExecsFrame, CancelFrame, QueueFrame, DeliveryFrame DEF HostInv
    <2>4. StoreOK'
      BY <2>1, StoreShrinks DEF HostInv, StoreOK, StoreTypeOK, Untouched
    <2> QED
      BY <2>1, <2>2, <2>3, <2>4 DEF HostStep, HostInv, InboxOK, BoundsOK
  <1> QED
    BY <1>1, <1>2, <1>3, <1>4, <1>5, <1>6, <1>7, <1>8 DEF Next

(* The inductive invariant of the background side. *)
THEOREM HostingCorrect == Spec => []HostInv
  <1>1. HostInv /\ [Next]_vars => HostInv'
    BY NextStep DEF HostStep
  <1> QED
    BY <1>1, HostInitOK, PTL DEF Spec

(* The gateway is called at most once for each attempt that is on record
   (delivery.ts:88). *)
THEOREM CallsRecorded == Spec => []CallsAreRecorded
  <1>1. ASSUME DeliveryInv, NEW r \in Runs
        PROVE  /\ posts[r].calls <= outbox[r].attempts
               /\ posts[r].calls = Cardinality(posts[r].called)
    <2>1. /\ OutboxOK(r) /\ outbox[r].attempts \in Nat /\ posts[r].called \subseteq 1 .. MaxAttempts
      BY <1>1, BoundsAssumption DEF DeliveryInv, DeliveryShape, Outbox, Posts
    <2>2. posts[r].called \subseteq 1 .. outbox[r].attempts
      BY <2>1, BoundsAssumption DEF OutboxOK
    <2>3. IsFiniteSet(1 .. outbox[r].attempts) /\ Cardinality(1 .. outbox[r].attempts) = outbox[r].attempts
      <3>1. PICK n \in Nat : n = outbox[r].attempts
        BY <2>1
      <3>2. IsFiniteSet(1 .. n) /\ Cardinality(1 .. n) = n
        BY FS_Interval
      <3> QED
        BY <3>1, <3>2
    <2>4. Cardinality(posts[r].called) <= outbox[r].attempts
      BY <2>2, <2>3, FS_Subset
    <2> QED
      BY <2>1, <2>4 DEF OutboxOK
  <1>2. HostInv => CallsAreRecorded
    BY <1>1 DEF HostInv, CallsAreRecorded
  <1> QED
    BY <1>2, HostingCorrect, PTL

(* A record says delivered only for an attempt that was answered (delivery.ts:91). *)
THEOREM DeliveriesWereAnswered == Spec => []DeliveredWasAnswered
  <1>1. HostInv => DeliveredWasAnswered
    BY DEF HostInv, DeliveryInv, OutboxOK, DeliveredWasAnswered
  <1> QED
    BY <1>1, HostingCorrect, PTL

(* A cancellation tells the truth, now and later (runtime.ts:472). *)
THEOREM CancellationsTellTruth == Spec => []CancelTellsTruth
  <1>1. HostInv => CancelTellsTruth
    BY DEF HostInv, CancelOK, CancelTellsTruth
  <1> QED
    BY <1>1, HostingCorrect, PTL

(* The types of the background side: bounded queues, listings and attempts. *)
THEOREM HostingTypes == Spec => []TypeOK
  <1> SUFFICES ASSUME HostInv PROVE TypeOK
    BY HostingCorrect, PTL
  <1>1. StoreTypeOK
    BY DEF HostInv, StoreOK
  <1>2. QueueTypeOK
    <2>1. queue \in Seq(Row)
      BY DEF HostInv, QueueOK
    <2>2. Len(queue) <= Cardinality(Runs)
      <3> DEFINE runs == [i \in 1 .. Len(queue) |-> queue[i].run]
      <3>1. runs \in Seq(Runs) /\ Len(runs) = Len(queue) /\ DOMAIN runs = DOMAIN queue
        BY <2>1, RowType DEF HostInv
      <3>2. \A i, j \in DOMAIN runs : runs[i] = runs[j] => i = j
        BY <2>1 DEF HostInv, QueueOK
      <3> HIDE DEF runs
      <3> QED
        BY <3>1, <3>2, DistinctIsShort, BoundsAssumption
    <2>3. Cardinality(Runs) \in Nat
      BY FS_CardinalityType, BoundsAssumption
    <2> QED
      BY <2>1, <2>2, <2>3, BoundedIs DEF QueueTypeOK
  <1>3. IngressTypeOK
    <2>1. Cardinality(Events) \in Nat /\ IsFiniteSet(Events)
      BY FS_CardinalityType, BoundsAssumption DEF Events
    <2>2. inbox \in BoundedSeq(Events, Cardinality(Events))
      BY <2>1, DistinctIsShort, BoundedIs DEF HostInv, InboxOK
    <2>3. ASSUME NEW c \in Callers
          PROVE  calls[c] \in [pc : CallPC, todo : BoundedSeq(Events, Cardinality(Events))]
      <3>1. calls[c] \in CallRecord /\ Len(calls[c].todo) <= Cardinality(Events)
        BY DEF HostInv, CallsOK, CallOK
      <3>2. calls[c].todo \in BoundedSeq(Events, Cardinality(Events))
        BY <3>1, <2>1, BoundedIs DEF CallRecord
      <3> QED
        BY <3>1, <3>2 DEF CallRecord
    <2> QED
      BY <2>2, <2>3 DEF HostInv, InboxOK, CallsOK, IngressTypeOK
  <1>4. DeliveryTypeOK
    <2>1. ASSUME NEW r \in Runs
          PROVE  posts[r] \in [called : SUBSET (1 .. MaxAttempts), calls : 0 .. MaxAttempts,
                               answered : SUBSET (1 .. MaxAttempts)]
      <3>1. posts[r] \in Posts /\ posts[r].calls = Cardinality(posts[r].called)
        BY DEF HostInv, DeliveryInv, DeliveryShape, OutboxOK
      <3>2. IsFiniteSet(1 .. MaxAttempts) /\ Cardinality(1 .. MaxAttempts) = MaxAttempts
        BY FS_Interval, BoundsAssumption
      <3>3. posts[r].called \subseteq 1 .. MaxAttempts
        BY <3>1 DEF Posts
      <3>4. posts[r].calls <= MaxAttempts
        BY <3>1, <3>2, <3>3, FS_Subset
      <3> QED
        BY <3>1, <3>4, BoundsAssumption DEF Posts
    <2> QED
      BY <2>1 DEF HostInv, DeliveryInv, DeliveryShape, DeliveryTypeOK, Outbox, Sending
  <1>5. HostTypeOK
    BY DEF HostInv, ExecsOK, ExecRecord, CancelOK, CancelRecord, BoundsOK, HostTypeOK
  <1> QED
    BY <1>1, <1>2, <1>3, <1>4, <1>5 DEF TypeOK

(* What one step does to the outbox: attempts grow and a promise is not replaced. *)
LEMMA PromiseStep ==
  ASSUME HostInv, Next
  PROVE  \A r \in Runs : /\ outbox'[r].attempts >= outbox[r].attempts
                         /\ outbox[r].status # "none" => outbox'[r].payload = outbox[r].payload
  <1>0. \A r \in Runs : outbox[r] \in Outbox /\ outbox[r].attempts \in Nat
    <2>1. \A r \in Runs : outbox[r] \in Outbox
      BY DEF HostInv, DeliveryInv, DeliveryShape
    <2>2. \A o \in Outbox : o.attempts \in Nat
      BY BoundsAssumption DEF Outbox
    <2> QED
      BY <2>1, <2>2
  <1>1. CASE UNCHANGED outbox
    BY <1>0, <1>1
  <1>2. CASE \E d \in Deliverers : SavePending(d)
    <2>1. PICK d \in Deliverers : SavePending(d)
      BY <1>2
    <2> DEFINE s == sending[d]
               o1 == [status |-> "pending", attempts |-> s.base + 1, payload |-> s.payload]
    <2>2. s \in Sending /\ s.run \in Runs /\ SendOK(d) /\ s.pc = "save" /\ s.base \in Nat
      BY <2>1, BoundsAssumption DEF HostInv, DeliveryInv, DeliveryShape, Sending, SavePending
    <2>3. CASE outbox[s.run].attempts = s.base
      <3>1. outbox[s.run].status # "none" => outbox[s.run].payload = s.payload
        BY <2>2, <2>3 DEF SendOK
      <3>2. UNCHANGED outbox \/ outbox' = [outbox EXCEPT ![s.run] = o1]
        BY <2>1 DEF SavePending
      <3>3. CASE outbox' = [outbox EXCEPT ![s.run] = o1]
        <4>1. \A r \in Runs : outbox'[r] = IF r = s.run THEN o1 ELSE outbox[r]
          BY <3>3 DEF HostInv, DeliveryInv, DeliveryShape
        <4> QED
          BY <4>1, <3>1, <2>2, <2>3, <1>0
      <3> QED
        BY <3>2, <3>3, <1>1
    <2>4. CASE outbox[s.run].attempts # s.base
      BY <2>1, <2>4, <1>1 DEF SavePending
    <2> QED
      BY <2>3, <2>4
  <1>3. CASE \E d \in Deliverers : SaveAnswer(d)
    <2>1. PICK d \in Deliverers : SaveAnswer(d)
      BY <1>3
    <2>2. \A r \in Runs : \/ outbox'[r] = outbox[r]
                          \/ \E t : outbox'[r] = [outbox[r] EXCEPT !.status = t]
      BY <2>1 DEF SaveAnswer, HostInv, DeliveryInv, DeliveryShape
    <2>3. ASSUME NEW r \in Runs
          PROVE  outbox'[r].attempts = outbox[r].attempts /\ outbox'[r].payload = outbox[r].payload
      <3>1. ASSUME NEW o \in Outbox, NEW t
            PROVE  [o EXCEPT !.status = t].attempts = o.attempts /\ [o EXCEPT !.status = t].payload = o.payload
        BY DEF Outbox
      <3>2. CASE \E t : outbox'[r] = [outbox[r] EXCEPT !.status = t]
        <4>1. PICK t : outbox'[r] = [outbox[r] EXCEPT !.status = t]
          BY <3>2
        <4>2. PICK o \in Outbox : o = outbox[r]
          BY <1>0
        <4> QED
          BY <3>1, <4>1, <4>2
      <3> QED
        BY <3>2, <2>2
    <2> QED
      BY <2>3, <1>0
  <1>4. UNCHANGED outbox \/ \E d \in Deliverers : SavePending(d) \/ SaveAnswer(d)
    <2>1. ASSUME NEW c \in Callers, Arrival(c) \/ CallStep(c) \/ Recovery(c) \/ Outage(c)
          PROVE  UNCHANGED outbox
      BY <2>1 DEF Arrival, CallStep, Recovery, Outage, deliveryVars
    <2>2. ASSUME NEW w \in Workers,
                 WorkerStep(w) \/ LeaseLost(w) \/ ResumeFails(w) \/ DeadLeaseRunsOut(w) \/ HeartbeatLate(w)
          PROVE  UNCHANGED outbox
      BY <2>2 DEF WorkerStep, ClaimRun, ResumeRun, ReleaseRun, CheckRun, RequeueRun, LeaseLost,
                  ResumeFails, DeadLeaseRunsOut, HeartbeatLate, Calm, deliveryVars
    <2>3. ASSUME NEW x \in Executors, ExecutorStep(x) \/ Progress(x) \/ StopExecutor(x)
          PROVE  UNCHANGED outbox
      BY <2>3 DEF ExecutorStep, CommitPause, Boot, Finish, FinishCancelled, FinishInterrupted,
                  LoseCommit, Reconcile, Progress, StopExecutor, Calm, deliveryVars
    <2>4. ASSUME NEW r \in Runs, ResumePaused(r) \/ CancelRun(r) \/ Retry(r) PROVE UNCHANGED outbox
      BY <2>4 DEF ResumePaused, CancelRun, Retry, deliveryVars
    <2>5. CASE CancelLoads \/ CancelCommits
      BY <2>5 DEF CancelLoads, CancelCommits, deliveryVars
    <2>6. ASSUME NEW d \in Deliverers, SendStep(d)
          PROVE  UNCHANGED outbox \/ SavePending(d) \/ SaveAnswer(d)
      BY <2>6 DEF SendStep, Send, GetRecord, CallGateway
    <2>7. ASSUME NEW p \in Processes, Crash(p) PROVE UNCHANGED outbox
      BY <2>7 DEF Crash
    <2> QED
      BY <2>1, <2>2, <2>3, <2>4, <2>5, <2>6, <2>7 DEF Next
  <1> QED
    BY <1>1, <1>2, <1>3, <1>4

(* What has been promised to be delivered is not replaced (delivery.ts:74). *)
THEOREM PromisesKept == Spec => PromiseKept
  <1>1. HostInv /\ [Next]_vars =>
          [\A r \in Runs : /\ outbox'[r].attempts >= outbox[r].attempts
                           /\ outbox[r].status # "none" => outbox'[r].payload = outbox[r].payload]_outbox
    BY PromiseStep DEF vars, deliveryVars
  <1> QED
    BY <1>1, HostingCorrect, PTL DEF Spec, PromiseKept

(* The record of every run is one that DurableRun allows, whoever executes, cancels,
   resumes or launches it (core/run-store.ts:28). *)
THEOREM HostedRecordsRefine == Spec => RecordsAreDurable
  <1>1. Init => \A r \in Runs : Durable(r)!DRInit
    <2>1. << >> = [n \in {} |-> 0]
      OBVIOUS
    <2>2. Init => \A r \in Runs : record[r] = "absent"
      BY DEF Init, StoreInit
    <2> QED
      BY <2>1, <2>2 DEF Durable!DRInit
  <1>2. ASSUME Moves PROVE [\A r \in Runs : Durable(r)!DRNext \/ UNCHANGED record[r]]_record
    BY <1>2 DEF Moves, MoveOK, Terminal, Durable!DRNext, Durable!Create, Durable!Work, Durable!Pause,
                Durable!Reopen, Durable!End, Durable!Accounted, Durable!Outcomes
  <1>3. HostInv /\ [Next]_vars => [\A r \in Runs : Durable(r)!DRNext \/ UNCHANGED record[r]]_record
    BY <1>2, NextStep DEF HostStep
  <1> QED
    BY <1>1, <1>3, HostingCorrect, PTL DEF Spec, RecordsAreDurable

-----------------------------------------------------------------------------
(* No run is forgotten: a run that is running is in the queue, or its event is still to be
   launched, or there is somebody about to put it into the queue. *)

\* Who answers for a running run that is in no queue: the worker between its release and
\* its last look at the run, the console while it executes it.
Tends(x, r) ==
  /\ RunOf(x) = r
  /\ IF x = Console THEN exec[x].pc \in {"work", "ended"} ELSE exec[x].pc \in {"check", "requeue"}

Held(r) == record[r] = "running" => \/ Queued(r)
                                    \/ r \in orphaned
                                    \/ \E x \in Executors : Tends(x, r)

\* An event whose record is closed leaves nothing to be done by the ingress.
EventOK(e) ==
  /\ ingress[e] = "none" \/ flaw[e] = "unmappable" => record[e] = "absent"
  /\ ingress[e] = "launched" => record[e] # "absent"
  /\ ingress[e] = "rejected" => flaw[e] = "unmappable"
  /\ ingress[e] # "received" => Held(e)

\* A call launches what has been accepted, rejects what cannot be mapped, and closes the
\* record of an event when the run of it is held.
LaunchOK(c) ==
  /\ \A i \in DOMAIN calls[c].todo : ingress[calls[c].todo[i]] # "none"
  /\ calls[c].pc \in LaunchPC \cup {"joined", "mark"} => flaw[Current(c)] # "unmappable"
  /\ calls[c].pc = "reject" => flaw[Current(c)] = "unmappable"
  /\ calls[c].pc = "mark" => Held(Current(c))

InboxKnown == \A i \in DOMAIN inbox : ingress[inbox[i]] # "none"

HeldInv == /\ \A e \in Events : EventOK(e)
           /\ \A c \in Callers : LaunchOK(c)
           /\ InboxKnown

-----------------------------------------------------------------------------
(* The rows. *)

(* A claim takes no run out of the queue. *)
LEMMA ClaimKeepsRows ==
  ASSUME QueueOK, NEW w, NEW r, Claim(w, r), NEW q, Queued(q)
  PROVE  Queued(q)'
  <1>1. PICK i \in DOMAIN queue : queue[i].run = q
    BY DEF Queued
  <1>2. /\ queue' = [queue EXCEPT ![Min(Claimable)].holder = w, ![Min(Claimable)].live = TRUE]
        /\ Min(Claimable) \in DOMAIN queue
    <2>1. Claimable \in SUBSET Nat /\ Claimable # {} /\ Claimable \subseteq DOMAIN queue
      BY DEF Claimable, Claim, QueueOK
    <2> QED
      BY <2>1, MinIsIn DEF Claim
  <1>3. queue[i] \in Row
    BY RowType
  <1>4. i \in DOMAIN queue' /\ queue'[i].run = queue[i].run
    BY <1>2, <1>3 DEF Row
  <1> QED
    BY <1>1, <1>4 DEF Queued

(* A lease that runs out takes no run out of the queue. *)
LEMMA ExpireKeepsRows ==
  ASSUME QueueOK, NEW w, NEW r, Expire(w, r), NEW q, Queued(q)
  PROVE  Queued(q)'
  <1>1. PICK i \in DOMAIN queue : queue[i].run = q
    BY DEF Queued
  <1>2. PICK j \in DOMAIN queue : queue' = [queue EXCEPT ![j].live = FALSE]
    BY DEF Expire
  <1>3. queue[i] \in Row
    BY RowType
  <1>4. i \in DOMAIN queue' /\ queue'[i].run = queue[i].run
    BY <1>2, <1>3 DEF Row
  <1> QED
    BY <1>1, <1>4 DEF Queued

(* A run that is enqueued is in the queue, and so are those that were. *)
LEMMA EnqueueKeepsRows ==
  ASSUME QueueOK, NEW r \in Runs, Enqueue(r)
  PROVE  Queued(r)' /\ \A q : Queued(q) => Queued(q)'
  <1>1. CASE Queued(r)
    BY <1>1 DEF Enqueue, Queued
  <1>2. CASE ~Queued(r)
    <2> DEFINE row == [run |-> r, holder |-> Nobody, live |-> FALSE]
    <2>1. row \in Row /\ row.run = r
      BY DEF Row
    <2>2. queue' = Append(queue, row) /\ queue \in Seq(Row) /\ Len(queue) \in Nat
      BY <1>2 DEF Enqueue, QueueOK
    <2> HIDE DEF row
    <2>3. /\ DOMAIN queue' = 1 .. Len(queue) + 1 /\ DOMAIN queue = 1 .. Len(queue)
          /\ \A i \in 1 .. Len(queue) : queue'[i] = queue[i]
          /\ queue'[Len(queue) + 1] = row
      BY <2>1, <2>2, AppendProperties, LenProperties
    <2>4. Len(queue) + 1 \in DOMAIN queue' /\ \A i \in DOMAIN queue : i \in DOMAIN queue' /\ queue'[i] = queue[i]
      BY <2>2, <2>3
    <2> QED
      BY <2>1, <2>3, <2>4 DEF Queued
  <1> QED
    BY <1>1, <1>2

(* A release takes the row of one run and no other. *)
LEMMA ReleaseKeepsRows ==
  ASSUME QueueOK, NEW w, NEW r, Release(w, r), NEW q, q # r, Queued(q)
  PROVE  Queued(q)'
  <1>1. PICK k \in DOMAIN queue : queue[k].run = q
    BY DEF Queued
  <1>2. CASE queue' = queue
    BY <1>1, <1>2 DEF Queued
  <1>3. CASE \E i \in 1 .. Len(queue) : queue[i].run = r /\ queue' = RemoveAt(queue, i)
    <2>1. PICK i \in 1 .. Len(queue) : queue[i].run = r /\ queue' = RemoveAt(queue, i)
      BY <1>3
    <2>2. queue \in Seq(Row) /\ Len(queue) \in Nat /\ DOMAIN queue = 1 .. Len(queue)
      BY DEF QueueOK
    <2>3. /\ queue' \in Seq(Row) /\ Len(queue') = Len(queue) - 1
          /\ \A j \in 1 .. Len(queue) - 1 : queue'[j] = IF j < i THEN queue[j] ELSE queue[j + 1]
      BY <2>1, <2>2, RemoveAtIs
    <2>4. DOMAIN queue' = 1 .. Len(queue) - 1
      BY <2>3, <2>2
    <2>5. CASE k < i
      <3>1. k \in DOMAIN queue' /\ queue'[k] = queue[k]
        BY <2>5, <2>2, <2>3, <2>4
      <3> QED
        BY <3>1, <1>1 DEF Queued
    <2>6. CASE k > i
      <3>1. k - 1 \in DOMAIN queue' /\ queue'[k - 1] = queue[k]
        BY <2>6, <2>2, <2>3, <2>4
      <3> QED
        BY <3>1, <1>1 DEF Queued
    <2>7. k # i
      BY <1>1, <2>1
    <2> QED
      BY <2>2, <2>5, <2>6, <2>7
  <1> QED
    BY <1>2, <1>3, ReleaseIs

-----------------------------------------------------------------------------
(* What keeps a run held. *)

(* The run stays held where its row stays or somebody tends it. *)
LEMMA HeldKept ==
  ASSUME NEW r \in Runs, Held(r),
         orphaned \subseteq orphaned',
         Queued(r) => Queued(r)' \/ \E x \in Executors : Tends(x, r)',
         \A x \in Executors : Tends(x, r) => \/ Tends(x, r)'
                                             \/ record'[r] # "running"
                                             \/ Queued(r)' \/ r \in orphaned',
         record'[r] = "running" => record[r] = "running" \/ \E x \in Executors : Tends(x, r)'
  PROVE  Held(r)'
  BY DEF Held

\* What a step of the executor x does for the runs it is not to forget.
Attends(x) ==
  /\ orphaned \subseteq orphaned'
  /\ \A y \in Executors \ {x} : exec'[y] = exec[y]
  /\ \A r \in Runs :
       /\ record[r] = "absent" => record'[r] = "absent"
       /\ Queued(r) => Queued(r)' \/ Tends(x, r)'
       /\ Tends(x, r) => Tends(x, r)' \/ record'[r] # "running" \/ Queued(r)' \/ r \in orphaned'
       /\ record'[r] = "running" => record[r] = "running" \/ Tends(x, r)'

(* The calls and the events are as they were, and so is what they rely on. *)
LEMMA IngressKept ==
  ASSUME HostInv, HeldInv, Moves, UNCHANGED <<calls, inbox, flaw, ingress>>,
         \A r \in Runs : record[r] = "absent" => record'[r] = "absent",
         \A r \in Runs : Held(r) => Held(r)'
  PROVE  HeldInv'
  <1>1. ASSUME NEW e \in Events PROVE EventOK(e)'
    <2>1. e \in Runs /\ EventOK(e) /\ (record[e] # "absent" => record'[e] # "absent")
      BY MovesKeep DEF HeldInv, Events
    <2> QED
      BY <2>1 DEF EventOK
  <1>2. ASSUME NEW c \in Callers PROVE LaunchOK(c)'
    <2>1. LaunchOK(c) /\ (calls[c].pc = "mark" => Current(c) \in Runs)
      BY CurrentType DEF HeldInv, HostInv
    <2> QED
      BY <2>1 DEF LaunchOK, Current, LaunchPC
  <1>3. InboxKnown'
    BY DEF HeldInv, InboxKnown
  <1> QED
    BY <1>1, <1>2, <1>3 DEF HeldInv

(* A step of an executor that attends to its run forgets none. *)
LEMMA ExecHeld ==
  ASSUME HostInv, HeldInv, Moves, NEW x \in Executors, UNCHANGED ingressVars, Attends(x)
  PROVE  HeldInv'
  <1>1. ASSUME NEW r \in Runs, Held(r) PROVE Held(r)'
    <2>1. \A y \in Executors \ {x} : Tends(y, r)' <=> Tends(y, r)
      BY DEF Attends, Tends, RunOf
    <2> QED
      BY <1>1, <2>1, HeldKept DEF Attends
  <1> QED
    BY <1>1, IngressKept DEF Attends, ingressVars

(* Nothing happens to the records, the queue and the executors. *)
LEMMA HeldFrame ==
  ASSUME UNCHANGED <<record, queue>>, orphaned \subseteq orphaned',
         \A x \in Executors : exec'[x].pc = exec[x].pc /\ exec'[x].run = exec[x].run
  PROVE  \A r \in Runs : Held(r) => Held(r)'
  <1>1. \A x \in Executors : \A r \in Runs : Tends(x, r) => Tends(x, r)'
    BY DEF Tends, RunOf
  <1>2. \A r \in Runs : Queued(r) => Queued(r)'
    BY DEF Queued
  <1> QED
    BY <1>1, <1>2, HeldKept

-----------------------------------------------------------------------------
(* The executors. *)

(* A worker claims a run: its row stays in the queue. *)
LEMMA ClaimHolds ==
  ASSUME HostInv, HeldInv, NEW w \in Workers, ClaimRun(w)
  PROVE  HeldInv'
  <1>1. PICK r \in Runs : /\ Claim(w, r)
                          /\ exec' = [exec EXCEPT ![w] = [AtRest(w) EXCEPT !.pc = "resume", !.run = r]]
    BY DEF ClaimRun
  <1>2. UNCHANGED <<record, orphaned, ingressVars>> /\ w \in Executors /\ w # Console /\ exec[w].pc = "idle"
    BY WorkerIs DEF ClaimRun, Is, Calm, storeVars
  <1>3. \A y \in Executors \ {w} : exec'[y] = exec[y]
    BY <1>1 DEF HostInv, ExecsOK
  <1>4. \A q \in Runs : Queued(q) => Queued(q)'
    BY <1>1, ClaimKeepsRows DEF HostInv
  <1>5. \A q \in Runs : ~Tends(w, q)
    BY <1>2 DEF Tends
  <1>6. Attends(w)
    BY <1>2, <1>3, <1>4, <1>5 DEF Attends
  <1> QED
    BY <1>2, <1>6, MovesNot, ExecHeld

(* Where an executor takes up a run, resumes it, gives up or is told to stop, it commits
   nothing and tends no less than before. *)
LEMMA QuietHolds ==
  ASSUME HostInv, HeldInv, NEW x \in Executors,
         UNCHANGED <<record, queue, orphaned, ingressVars>>,
         \A y \in Executors \ {x} : exec'[y] = exec[y],
         \/ exec[x].pc \in Working \cup {"idle"} /\ (x = Console => exec[x].pc # "work")
         \/ exec'[x].run = exec[x].run /\ exec'[x].pc = exec[x].pc
         \/ exec'[x].run = exec[x].run /\ exec'[x].pc = "ended" /\ exec[x].pc \in {"boot", "work"}
  PROVE  HeldInv'
  <1>1. \A q \in Runs : Tends(x, q) => Tends(x, q)'
    BY DEF Tends, RunOf, Working
  <1>2. \A q \in Runs : Queued(q) => Queued(q)'
    BY DEF Queued
  <1>3. Attends(x)
    BY <1>1, <1>2 DEF Attends
  <1> QED
    BY <1>3, MovesNot, ExecHeld

(* A commit of an executor: the console tends the run it has made running, and a run
   that comes to rest is no longer to be held. *)
LEMMA CommitHolds ==
  ASSUME HostInv, HeldInv, Moves, NEW x \in Executors, NEW s, exec[x].pc \in Working,
         Commit(x, exec[x].run, s), UNCHANGED <<queue, orphaned, ingressVars>>,
         \A y \in Executors \ {x} : exec'[y] = exec[y],
         s = "running" => exec'[x].pc = "work" /\ exec'[x].run = exec[x].run,
         s = "running" /\ x # Console => record[exec[x].run] = "running"
  PROVE  HeldInv'
  <1>1. PICK r \in Runs : r = exec[x].run
    BY DEF HostInv, ExecsOK, ExecRecord
  <1>2. record[r] # "absent" /\ \A q \in Runs : record'[q] = IF q = r THEN s ELSE record[q]
    BY <1>1 DEF Commit, HostInv, StoreOK, StoreTypeOK
  <1>3. \A q \in Runs : Queued(q) => Queued(q)'
    BY DEF Queued
  <1>4. ASSUME NEW q \in Runs, Tends(x, q), record'[q] = "running" PROVE Tends(x, q)'
    <2>1. q = r /\ s = "running"
      BY <1>4, <1>1, <1>2 DEF Tends, RunOf
    <2>2. exec'[x].pc = "work" /\ exec'[x].run = r
      BY <2>1, <1>1
    <2>3. x = Console
      BY <1>4 DEF Tends, Working
    <2> QED
      BY <2>1, <2>2, <2>3 DEF Tends, RunOf
  <1>5. ASSUME NEW q \in Runs, record'[q] = "running", record[q] # "running" PROVE Tends(x, q)'
    BY <1>5, <1>1, <1>2 DEF Tends, RunOf
  <1>6. Attends(x)
    BY <1>2, <1>3, <1>4, <1>5 DEF Attends
  <1> QED
    BY <1>6, ExecHeld

(* The steps of an executor between its commits. *)
LEMMA RestHolds ==
  ASSUME HostInv, HeldInv, NEW x \in Executors,
         \/ x \in Workers /\ (ResumeRun(x) \/ ResumeFails(x) \/ LeaseLost(x))
         \/ FinishInterrupted(x) \/ LoseCommit(x) \/ StopExecutor(x)
         \/ CommitPause(x) /\ Throws(x) /\ UNCHANGED storeVars
  PROVE  HeldInv'
  <1>1. ExecsOK /\ UNCHANGED <<record, queue, orphaned, ingressVars>>
    BY DEF HostInv, ResumeRun, ResumeFails, LeaseLost, FinishInterrupted, LoseCommit, StopExecutor,
           CommitPause, Calm, storeVars, LoadRun
  <1>2. CASE (x \in Workers /\ LeaseLost(x)) \/ StopExecutor(x)
    <2>1. /\ exec' = [exec EXCEPT ![x].stop = "interrupt"] /\ exec[x] \in ExecRecord
          /\ exec \in [Executors -> ExecRecord]
      BY <1>1, <1>2 DEF LeaseLost, StopExecutor, ExecsOK
    <2>2. /\ \A y \in Executors \ {x} : exec'[y] = exec[y]
          /\ exec'[x].run = exec[x].run /\ exec'[x].pc = exec[x].pc
      BY <2>1 DEF ExecRecord
    <2> QED
      BY <1>1, <2>2, QuietHolds
  <1>3. CASE FinishInterrupted(x) \/ LoseCommit(x)
    <2>1. PICK result : EndsWith(x, result)
      BY <1>3 DEF FinishInterrupted, LoseCommit
    <2>2. /\ \A y \in Executors \ {x} : exec'[y] = exec[y]
          /\ exec'[x].run = exec[x].run /\ exec'[x].pc = "ended"
      <3>1. exec \in [Executors -> ExecRecord] /\ exec[x] \in ExecRecord
        BY <1>1 DEF ExecsOK
      <3>2. exec' = [exec EXCEPT ![x].pc = "ended", ![x].result = result]
        BY <2>1 DEF EndsWith
      <3> QED
        BY <3>1, <3>2 DEF ExecRecord
    <2>3. exec[x].pc \in {"boot", "work"}
      BY <1>3 DEF FinishInterrupted, LoseCommit, Is
    <2> QED
      BY <1>1, <2>2, <2>3, QuietHolds
  <1>4. CASE \/ x \in Workers /\ (ResumeRun(x) \/ ResumeFails(x))
             \/ CommitPause(x) /\ Throws(x) /\ UNCHANGED storeVars
    <2>1. exec[x].pc \in {"resume", "pausing"}
      BY <1>4 DEF ResumeRun, ResumeFails, CommitPause, Is
    <2>2. \A y \in Executors \ {x} : exec'[y] = exec[y]
      BY <1>1, <1>4 DEF ResumeRun, ResumeFails, Throws, ExecGoto, EndsWith, ExecsOK
    <2> QED
      BY <1>1, <2>1, <2>2, QuietHolds DEF Working
  <1> QED
    BY <1>2, <1>3, <1>4

(* The commits of an executor. *)
LEMMA CommitsHold ==
  ASSUME HostInv, HeldInv, Moves, NEW x \in Executors,
         \/ Boot(x) \/ Progress(x) \/ Finish(x) \/ FinishCancelled(x) \/ CommitPause(x)
  PROVE  HeldInv'
  <1>1. /\ ExecsOK /\ exec \in [Executors -> ExecRecord] /\ UNCHANGED <<queue, orphaned, ingressVars>>
        /\ exec[x].pc \in {"pausing", "boot", "work"} /\ exec[x].run \in Runs
    BY DEF HostInv, ExecsOK, ExecRecord, Boot, Progress, Finish, FinishCancelled, CommitPause, Calm, Is
  <1>2. CASE CommitPause(x) /\ Throws(x) /\ UNCHANGED storeVars
    BY <1>2, RestHolds
  <1>3. CASE \E s \in {"paused"} \cup Terminal : Commit(x, exec[x].run, s) /\ EndsWith(x, s)
    <2>1. PICK s \in {"paused"} \cup Terminal : Commit(x, exec[x].run, s) /\ EndsWith(x, s)
      BY <1>3
    <2>2. \A y \in Executors \ {x} : exec'[y] = exec[y]
      BY <1>1, <2>1 DEF EndsWith
    <2>3. s # "running" /\ exec[x].pc \in Working
      BY <1>1 DEF Terminal, Working
    <2> QED
      BY <1>1, <2>1, <2>2, <2>3, CommitHolds
  <1>4. CASE Boot(x) \/ Progress(x)
    <2>1. Commit(x, exec[x].run, "running")
      BY <1>4 DEF Boot, Progress, RunOf
    <2>2. /\ \A y \in Executors \ {x} : exec'[y] = exec[y]
          /\ exec'[x].pc = "work" /\ exec'[x].run = exec[x].run
      <3>1. CASE Boot(x)
        BY <1>1, <3>1 DEF Boot, ExecGoto, ExecRecord
      <3>2. CASE Progress(x)
        BY <3>2 DEF Progress, Is
      <3> QED
        BY <1>4, <3>1, <3>2
    <2>3. x # Console => record[exec[x].run] = "running"
      <3>1. x \in seen[exec[x].run]
        BY <2>1 DEF Commit
      <3>2. HoldsAsExecutor(x, exec[x].run)
        BY <1>1, <3>1, ExecutorHolds DEF HostInv
      <3> QED
        BY <1>1, <1>4, <3>2 DEF HoldsAsExecutor, Boot, Progress, Is
    <2>4. exec[x].pc \in Working
      BY <1>1 DEF Working
    <2> QED
      BY <1>1, <2>1, <2>2, <2>3, <2>4, CommitHolds
  <1> QED
    BY <1>2, <1>3, <1>4 DEF Finish, FinishCancelled, CommitPause, Terminal, RunOf

(* The console leaves a run that is still running to nobody, and says so; a worker has
   its row, and goes on to release it. *)
LEMMA ReconcileHolds ==
  ASSUME HostInv, HeldInv, NEW x \in Executors, Reconcile(x)
  PROVE  HeldInv'
  <1>1. /\ exec \in [Executors -> ExecRecord] /\ exec[x].pc = "ended"
        /\ UNCHANGED <<record, queue, ingressVars>>
    BY DEF HostInv, ExecsOK, Reconcile, Is
  <1>2. \A y \in Executors \ {x} : exec'[y] = exec[y]
    BY <1>1 DEF Reconcile, ExecGoto
  <1>3. orphaned \subseteq orphaned'
    BY DEF Reconcile
  <1>4. ASSUME NEW r \in Runs, Tends(x, r), record'[r] = "running" PROVE r \in orphaned'
    BY <1>4, <1>1 DEF Tends, Reconcile
  <1>5. \A r \in Runs : Queued(r) => Queued(r)'
    BY <1>1 DEF Queued
  <1>6. Attends(x)
    BY <1>1, <1>2, <1>3, <1>4, <1>5 DEF Attends
  <1> QED
    BY <1>1, <1>6, MovesNot, ExecHeld

(* The worker releases its row, looks at the run and enqueues it again: in between it is
   the one that tends the run. *)
LEMMA FinallyHolds ==
  ASSUME HostInv, HeldInv, NEW w \in Workers, ReleaseRun(w) \/ CheckRun(w) \/ RequeueRun(w)
  PROVE  HeldInv'
  <1>1. /\ w \in Executors /\ w # Console /\ exec[w] \in ExecRecord /\ exec[w].run \in Runs /\ QueueOK
        /\ exec \in [Executors -> ExecRecord]
        /\ UNCHANGED <<record, orphaned, ingressVars>>
    BY WorkerIs DEF ReleaseRun, CheckRun, RequeueRun, HostInv, ExecsOK, ExecRecord, Calm, storeVars
  <1>2. \A y \in Executors \ {w} : exec'[y] = exec[y]
    BY <1>1 DEF ReleaseRun, CheckRun, RequeueRun, ExecGoto
  <1>3. CASE ReleaseRun(w)
    <2>1. exec[w].pc = "release" /\ exec'[w].pc = "check" /\ exec'[w].run = exec[w].run
      BY <1>1, <1>3 DEF ReleaseRun, Is, ExecGoto, ExecRecord
    <2>2. \A q \in Runs : Queued(q) => Queued(q)' \/ q = exec[w].run
      BY <1>1, <1>3, ReleaseKeepsRows DEF ReleaseRun, RunOf
    <2>3. Attends(w)
      BY <1>1, <1>2, <2>1, <2>2 DEF Attends, Tends, RunOf
    <2> QED
      BY <1>1, <2>3, MovesNot, ExecHeld
  <1>4. CASE CheckRun(w)
    <2>1. \A q \in Runs : Queued(q) => Queued(q)'
      BY <1>4 DEF CheckRun, Queued
    <2>2. \A q \in Runs : Tends(w, q) => Tends(w, q)' \/ record'[q] # "running"
      <3>1. CASE record[exec[w].run] = "running"
        <4>1. exec' = [exec EXCEPT ![w] = [exec[w] EXCEPT !.pc = "requeue"]]
          BY <1>4, <3>1, <1>1 DEF CheckRun, RunOf
        <4>2. exec'[w].pc = "requeue" /\ exec'[w].run = exec[w].run
          BY <4>1, <1>1 DEF ExecRecord
        <4> QED
          BY <4>2, <1>1 DEF Tends, RunOf
      <3>2. CASE record[exec[w].run] # "running"
        BY <3>2, <1>1 DEF Tends, RunOf
      <3> QED
        BY <3>1, <3>2
    <2>3. Attends(w)
      BY <1>1, <1>2, <2>1, <2>2 DEF Attends
    <2> QED
      BY <1>1, <2>3, MovesNot, ExecHeld
  <1>5. CASE RequeueRun(w)
    <2>0. PICK r \in Runs : r = exec[w].run
      BY <1>1
    <2>1. Queued(r)' /\ \A q : Queued(q) => Queued(q)'
      BY <1>1, <1>5, <2>0, EnqueueKeepsRows DEF RequeueRun, RunOf
    <2>2. \A q \in Runs : Tends(w, q) => Queued(q)'
      BY <2>0, <2>1 DEF Tends, RunOf
    <2>3. Attends(w)
      BY <1>1, <1>2, <2>1, <2>2 DEF Attends
    <2> QED
      BY <1>1, <2>3, MovesNot, ExecHeld
  <1> QED
    BY <1>3, <1>4, <1>5

(* A lease runs out: the row is still there, to be claimed by another. *)
LEMMA LeaseHolds ==
  ASSUME HostInv, HeldInv, NEW w \in Workers, DeadLeaseRunsOut(w) \/ HeartbeatLate(w)
  PROVE  HeldInv'
  <1>1. PICK r : Expire(w, r)
    BY DEF DeadLeaseRunsOut, HeartbeatLate
  <1>2. UNCHANGED <<record, exec, orphaned, ingressVars>> /\ w \in Executors
    BY WorkerIs DEF DeadLeaseRunsOut, HeartbeatLate, storeVars, hostVars
  <1>3. \A q \in Runs : Queued(q) => Queued(q)'
    BY <1>1, ExpireKeepsRows DEF HostInv
  <1>4. Attends(w)
    BY <1>2, <1>3 DEF Attends, Tends, RunOf
  <1> QED
    BY <1>2, <1>4, MovesNot, ExecHeld

-----------------------------------------------------------------------------
(* The operator, the deliveries and the crash of a process. *)

(* A cancellation makes no run running, and takes nobody from its run. *)
LEMMA CancelHolds ==
  ASSUME HostInv, HeldInv, Moves, CancelLoads \/ CancelCommits \/ \E r \in Runs : CancelRun(r)
  PROVE  HeldInv'
  <1>1. UNCHANGED <<queue, ingressVars, orphaned>>
    BY DEF CancelLoads, CancelCommits, CancelRun
  <1>2. \A x \in Executors : exec'[x].pc = exec[x].pc /\ exec'[x].run = exec[x].run
    <2>1. CASE UNCHANGED exec
      BY <2>1
    <2>2. CASE \E r \in Runs : CancelRun(r)
      <3>1. \A x \in Executors : exec[x] \in ExecRecord
        BY DEF HostInv, ExecsOK
      <3>2. \A x \in Executors : exec'[x] = exec[x] \/ exec'[x] = [exec[x] EXCEPT !.stop = "cancel"]
        BY <2>2 DEF CancelRun
      <3>3. \A e \in ExecRecord : /\ [e EXCEPT !.stop = "cancel"].pc = e.pc
                                  /\ [e EXCEPT !.stop = "cancel"].run = e.run
        BY DEF ExecRecord
      <3> QED
        BY <3>1, <3>2, <3>3
    <2> QED
      BY <2>1, <2>2 DEF CancelLoads, CancelCommits
  <1>3. \A r \in Runs : /\ record[r] = "absent" => record'[r] = "absent"
                        /\ record'[r] = "running" => record[r] = "running"
    <2>1. CASE UNCHANGED record
      BY <2>1
    <2>2. CASE Commit(Canceller, cancel.run, "cancelled")
      BY <2>2 DEF Commit, HostInv, StoreOK, StoreTypeOK
    <2> QED
      BY <2>1, <2>2 DEF CancelLoads, CancelCommits, CancelRun, LoadRun, storeVars
  <1>4. \A r \in Runs : Held(r) => Held(r)'
    <2>1. \A r \in Runs : Queued(r) => Queued(r)'
      BY <1>1 DEF Queued
    <2>2. \A r \in Runs : \A x \in Executors : Tends(x, r) => Tends(x, r)'
      BY <1>2 DEF Tends, RunOf
    <2> QED
      BY <2>1, <2>2, <1>1, <1>3, HeldKept
  <1> QED
    BY <1>1, <1>3, <1>4, IngressKept DEF ingressVars

(* The console takes up a run that is paused: it has been tending none. *)
LEMMA ResumePausedHolds ==
  ASSUME HostInv, HeldInv, NEW r \in Runs, ResumePaused(r)
  PROVE  HeldInv'
  <1>1. UNCHANGED <<record, queue, orphaned, ingressVars>> /\ Console \in Executors /\ exec[Console].pc = "idle"
    BY DEF ResumePaused, LoadRun, Is, Executors
  <1>2. \A y \in Executors \ {Console} : exec'[y] = exec[y]
    BY DEF ResumePaused, HostInv, ExecsOK
  <1> QED
    BY <1>1, <1>2, QuietHolds

(* Deliveries have no part in it. *)
LEMMA DeliveryHolds ==
  ASSUME HostInv, HeldInv, (\E r \in Runs : Retry(r)) \/ (\E d \in Deliverers : SendStep(d))
  PROVE  HeldInv'
  <1>1. UNCHANGED <<record, queue, orphaned, exec, ingressVars>>
    BY DEF Retry, SendStep, storeVars, hostVars
  <1> QED
    BY <1>1, HeldFrame, MovesNot, IngressKept DEF ingressVars

(* A process dies: what its console executed and what its workers had released is left
   to nobody, and counted as such; the calls in it have launched or are to be launched
   again by a recovery. *)
LEMMA CrashHolds ==
  ASSUME HostInv, HeldInv, NEW p \in Processes, Crash(p)
  PROVE  HeldInv'
  <1> DEFINE dead == {x \in Executors : Site[x] = p}
             dying == {x \in dead : IF x = Console THEN exec[x].pc \in {"boot", "work", "ended"}
                                    ELSE exec[x].pc \in {"check", "requeue"}}
  <1>1. /\ exec' = [x \in Executors |-> IF x \in dead THEN AtRest(x) ELSE exec[x]]
        /\ orphaned' = orphaned \cup {r \in Runs : record[r] = "running" /\ \E x \in dying : RunOf(x) = r}
        /\ calls' = [c \in Callers |-> IF Site[c] = p THEN Idle ELSE calls[c]]
        /\ UNCHANGED <<record, queue, flaw, ingress, inbox>>
    BY DEF Crash, CallsDie
  <1>2. ASSUME NEW r \in Runs, NEW x \in Executors, Tends(x, r), record[r] = "running"
        PROVE  Tends(x, r)' \/ r \in orphaned'
    <2>1. CASE x \in dead
      <3>1. x \in dying /\ RunOf(x) = r
        BY <1>2, <2>1 DEF Tends
      <3> HIDE DEF dying
      <3> QED
        BY <3>1, <1>2, <1>1
    <2>2. CASE x \notin dead
      <3> HIDE DEF dead, dying
      <3>1. exec'[x] = exec[x]
        BY <2>2, <1>1
      <3> QED
        BY <3>1, <1>2 DEF Tends, RunOf
    <2> QED
      BY <2>1, <2>2
  <1>3. orphaned \subseteq orphaned'
    BY <1>1
  <1> HIDE DEF dead, dying
  <1>4. \A r \in Runs : Held(r) => Held(r)'
    <2>1. \A r \in Runs : Queued(r) => Queued(r)'
      BY <1>1 DEF Queued
    <2> QED
      BY <2>1, <1>1, <1>2, <1>3, HeldKept
  <1>5. ASSUME NEW e \in Events PROVE EventOK(e)'
    BY <1>1, <1>4 DEF HeldInv, EventOK, Events
  <1>6. ASSUME NEW c \in Callers PROVE LaunchOK(c)'
    <2>1. CASE calls'[c] = calls[c]
      <3>1. LaunchOK(c) /\ (calls[c].pc = "mark" => Current(c) \in Runs)
        BY CurrentType DEF HeldInv, HostInv
      <3> QED
        BY <2>1, <3>1, <1>1, <1>4 DEF LaunchOK, Current, LaunchPC
    <2>2. CASE calls'[c] = Idle
      <3>1. DOMAIN Idle.todo = {} /\ Idle.pc = "idle"
        BY DEF Idle
      <3> QED
        BY <2>2, <3>1 DEF LaunchOK, LaunchPC
    <2> QED
      BY <2>1, <2>2, <1>1
  <1>7. InboxKnown'
    BY <1>1 DEF HeldInv, InboxKnown
  <1> QED
    BY <1>5, <1>6, <1>7 DEF HeldInv

-----------------------------------------------------------------------------
(* The ingress. *)

\* What the events and the runs of the other calls keep in a step of a call.
Keeps == /\ UNCHANGED flaw
         /\ \A e \in Events : ingress[e] # "none" => ingress'[e] # "none"
         /\ \A r \in Runs : Held(r) => Held(r)'

(* A call that does not move. *)
LEMMA LaunchSame ==
  ASSUME CallsOK, NEW c \in Callers, LaunchOK(c), calls'[c] = calls[c], Keeps
  PROVE  LaunchOK(c)'
  <1>1. calls[c].todo \in Seq(Events) /\ (calls[c].pc = "mark" => Current(c) \in Runs)
    BY CurrentType DEF CallsOK, CallRecord
  <1>2. \A i \in DOMAIN calls[c].todo : calls[c].todo[i] \in Events
    BY <1>1, ElementOfSeq
  <1> QED
    BY <1>1, <1>2 DEF LaunchOK, Current, LaunchPC, Keeps

(* A call that goes on with its event. *)
LEMMA LaunchGoes ==
  ASSUME CallsOK, NEW c \in Callers, LaunchOK(c), Keeps, NEW r \in Runs, r = Current(c),
         calls'[c].todo = calls[c].todo,
         calls'[c].pc \in LaunchPC \cup {"joined", "mark"} => flaw[r] # "unmappable",
         calls'[c].pc = "reject" => flaw[r] = "unmappable",
         calls'[c].pc = "mark" => Held(r)'
  PROVE  LaunchOK(c)'
  <1>1. calls[c].todo \in Seq(Events)
    BY DEF CallsOK, CallRecord
  <1>2. \A i \in DOMAIN calls[c].todo : calls[c].todo[i] \in Events
    BY <1>1, ElementOfSeq
  <1>3. Current(c)' = r
    BY DEF Current
  <1> QED
    BY <1>2, <1>3 DEF LaunchOK, LaunchPC, Keeps

(* A call that ends has nothing to launch. *)
LEMMA LaunchEnds == ASSUME NEW c \in Callers, calls'[c] = Idle PROVE LaunchOK(c)'
  <1>1. DOMAIN Idle.todo = {} /\ Idle.pc = "idle"
    BY DEF Idle
  <1> QED
    BY <1>1 DEF LaunchOK, LaunchPC

(* One call goes on at pc. *)
LEMMA GotoHolds ==
  ASSUME CallsOK, \A d \in Callers : LaunchOK(d), NEW c \in Callers, calls[c].pc # "idle",
         NEW pc, Goto(c, pc), Keeps, NEW r \in Runs, r = Current(c),
         pc \in LaunchPC \cup {"joined", "mark"} => flaw[r] # "unmappable",
         pc = "reject" => flaw[r] = "unmappable",
         pc = "mark" => Held(r)'
  PROVE  \A d \in Callers : LaunchOK(d)'
  <1>1. calls \in [Callers -> CallRecord] /\ calls[c] \in CallRecord
    BY DEF CallsOK
  <1>2. calls' = [calls EXCEPT ![c] = [calls[c] EXCEPT !.pc = pc]]
    BY <1>1 DEF Goto
  <1>3. calls'[c].pc = pc /\ calls'[c].todo = calls[c].todo
    BY <1>1, <1>2 DEF CallRecord
  <1>4. LaunchOK(c)'
    BY <1>3, LaunchGoes
  <1>5. \A d \in Callers \ {c} : LaunchOK(d)'
    BY <1>1, <1>2, LaunchSame
  <1> QED
    BY <1>4, <1>5

(* A launch is settled, for its call and those that joined it. *)
LEMMA SettledHolds ==
  ASSUME CallsOK, \A d \in Callers : LaunchOK(d), NEW c \in Callers, calls[c].pc \in LaunchPC,
         NEW to \in {"thrown", "mark"}, LaunchSettled(c, to), Keeps,
         NEW r \in Runs, r = Current(c), to = "mark" => Held(r)'
  PROVE  \A d \in Callers : LaunchOK(d)'
  <1>1. \A d \in Callers : calls'[d] = IF d = c \/ d \in Joiners(c)
                                       THEN IF to = "thrown" THEN Idle ELSE [calls[d] EXCEPT !.pc = to]
                                       ELSE calls[d]
    BY DEF LaunchSettled
  <1>2. ASSUME NEW d \in Callers, d = c \/ d \in Joiners(c)
        PROVE  Current(d) = r /\ flaw[r] # "unmappable" /\ calls[d] \in CallRecord
    BY <1>2 DEF Joiners, At, LaunchOK, LaunchPC, CallsOK
  <1>3. ASSUME NEW d \in Callers PROVE LaunchOK(d)'
    <2>1. CASE ~(d = c \/ d \in Joiners(c))
      BY <2>1, <1>1, LaunchSame
    <2>2. CASE (d = c \/ d \in Joiners(c)) /\ to = "thrown"
      BY <2>2, <1>1, LaunchEnds
    <2>3. CASE (d = c \/ d \in Joiners(c)) /\ to = "mark"
      <3>1. calls'[d] = [calls[d] EXCEPT !.pc = "mark"]
        BY <2>3, <1>1
      <3>2. calls'[d].pc = "mark" /\ calls'[d].todo = calls[d].todo
        BY <3>1, <2>3, <1>2 DEF CallRecord
      <3> QED
        BY <3>2, <2>3, <1>2, LaunchGoes
    <2> QED
      BY <2>1, <2>2, <2>3
  <1> QED
    BY <1>3

(* The events while no record of the ingress is written. *)
LEMMA EventsKept ==
  ASSUME HostInv, HeldInv, Moves, UNCHANGED <<flaw, ingress, inbox>>, \A d \in Callers : LaunchOK(d)',
         \A r \in Runs : record[r] = "absent" => record'[r] = "absent",
         \A r \in Runs : Held(r) => Held(r)'
  PROVE  HeldInv'
  <1>1. ASSUME NEW e \in Events PROVE EventOK(e)'
    <2>1. e \in Runs /\ EventOK(e) /\ (record[e] # "absent" => record'[e] # "absent")
      BY MovesKeep DEF HeldInv, Events
    <2> QED
      BY <2>1 DEF EventOK
  <1>2. InboxKnown'
    BY DEF HeldInv, InboxKnown
  <1> QED
    BY <1>1, <1>2 DEF HeldInv

(* A step of a call without the store, the queue or the record of an event. *)
LEMMA StepsHold ==
  ASSUME HostInv, HeldInv, NEW c \in Callers, UNCHANGED hostVars,
         \/ Bind(c) \/ Refuse(c) \/ Authorize(c)
         \/ LoadExisting(c)
         \/ At(c, "create") /\ record[Current(c)] # "absent" /\ Existing(c)
            /\ UNCHANGED <<flaw, ingress, inbox, arrivals, storeVars, queue>>
  PROVE  HeldInv'
  <1>1. /\ CallsOK /\ (\A d \in Callers : LaunchOK(d)) /\ calls[c].pc # "idle"
        /\ calls[c].pc \in {"bind"} \cup LaunchPC
        /\ UNCHANGED <<record, queue, exec, orphaned, flaw, ingress, inbox>>
    BY DEF HostInv, HeldInv, Bind, Refuse, Authorize, LoadExisting, At, LaunchPC, storeVars, hostVars
  <1>2. PICK r \in Runs : r = Current(c)
    BY <1>1, CurrentType
  <1>3. Keeps
    BY <1>1, HeldFrame DEF Keeps
  <1>4. \A d \in Callers : LaunchOK(d)'
    <2>1. CASE Bind(c)
      <3>1. PICK pc : pc = LaunchPoint(c, r)
        OBVIOUS
      <3>2. /\ Goto(c, pc) /\ pc \in {"reject", "joined", "authorize"}
            /\ pc = "reject" <=> flaw[r] = "unmappable"
        BY <2>1, <3>1, <1>2 DEF Bind, LaunchPoint
      <3>3. /\ pc \in LaunchPC \cup {"joined", "mark"} => flaw[r] # "unmappable"
            /\ pc = "reject" => flaw[r] = "unmappable"
            /\ pc # "mark"
        BY <3>2 DEF LaunchPC
      <3> QED
        BY <3>2, <3>3, <1>1, <1>2, <1>3, GotoHolds
    <2>2. CASE Refuse(c)
      BY <2>2, <1>1, <1>2, <1>3, SettledHolds DEF Refuse, At, LaunchPC
    <2>3. CASE Authorize(c)
      <3>1. flaw[r] # "unmappable"
        BY <2>3, <1>1, <1>2 DEF Authorize, At, LaunchOK, LaunchPC
      <3> QED
        BY <2>3, <3>1, <1>1, <1>2, <1>3, GotoHolds DEF Authorize
    <2>4. CASE calls[c].pc \in LaunchPC /\ record[r] # "absent" /\ Existing(c)
      <3>1. flaw[r] # "unmappable"
        BY <2>4, <1>1, <1>2 DEF LaunchOK
      <3>2. CASE record[r] = "running"
        BY <2>4, <3>1, <3>2, <1>1, <1>2, <1>3, GotoHolds DEF Existing
      <3>3. CASE record[r] # "running"
        <4>1. Held(r)' /\ LaunchSettled(c, "mark")
          BY <2>4, <3>3, <1>1, <1>2 DEF Held, Existing
        <4> QED
          BY <2>4, <4>1, <1>1, <1>2, <1>3, SettledHolds
      <3> QED
        BY <3>2, <3>3
    <2>5. CASE LoadExisting(c) /\ record[r] = "absent"
      <3>1. flaw[r] # "unmappable" /\ Goto(c, "create")
        BY <2>5, <1>1, <1>2 DEF LoadExisting, At, LaunchOK, LaunchPC
      <3> QED
        BY <3>1, <1>1, <1>2, <1>3, GotoHolds
    <2> QED
      BY <2>1, <2>2, <2>3, <2>4, <2>5, <1>2 DEF LoadExisting, At, LaunchPC
  <1> QED
    BY <1>1, <1>3, <1>4, EventsKept, MovesNot DEF Keeps

(* The run of an event that is received is created: the event is still to be launched. *)
LEMMA CreateHolds ==
  ASSUME HostInv, HeldInv, Moves, NEW c \in Callers, UNCHANGED hostVars, CreateOrJoin(c)
  PROVE  HeldInv'
  <1>1. /\ CallsOK /\ (\A d \in Callers : LaunchOK(d)) /\ calls[c].pc = "create"
        /\ UNCHANGED <<queue, exec, orphaned, flaw, ingress, inbox>>
    BY DEF HostInv, HeldInv, CreateOrJoin, At, hostVars
  <1>2. PICK r \in Runs : r = Current(c)
    BY <1>1, CurrentType
  <1>3. CASE CreateRun(c, r) /\ Goto(c, "accept")
    <2>1. record[r] = "absent" /\ \A q \in Runs : record'[q] = IF q = r THEN "running" ELSE record[q]
      BY <1>3 DEF CreateRun, HostInv, StoreOK, StoreTypeOK
    <2>2. \A q \in Runs \ {r} : Held(q) => Held(q)'
      <3>1. \A q \in Runs : Queued(q) => Queued(q)'
        BY <1>1 DEF Queued
      <3>2. \A q \in Runs : \A x \in Executors : Tends(x, q) => Tends(x, q)'
        BY <1>1 DEF Tends, RunOf
      <3> QED
        BY <3>1, <3>2, <2>1, <1>1, HeldKept
    <2>3. ingress[r] = "received" /\ flaw[r] # "unmappable"
      <3>1. flaw[r] # "unmappable"
        BY <1>1, <1>2 DEF LaunchOK, LaunchPC
      <3>2. ingress[r] # "none"
        <4>1. calls[c].todo \in Seq(Runs) /\ Len(calls[c].todo) >= 1
          BY <1>1, CurrentType
        <4>2. 1 \in DOMAIN calls[c].todo /\ r = calls[c].todo[1]
          BY <4>1, <1>2 DEF Current
        <4> QED
          BY <4>2, <1>1 DEF LaunchOK
      <3>3. EventOK(r) /\ ingress[r] \in {"none", "received", "rejected", "launched"}
        BY DEF HeldInv, Events, HostInv, InboxOK
      <3> QED
        BY <3>1, <3>2, <3>3, <2>1 DEF EventOK
    <2>4. ASSUME NEW e \in Events PROVE EventOK(e)'
      <3>1. CASE e = r
        BY <3>1, <2>1, <2>3, <1>1 DEF EventOK
      <3>2. CASE e # r
        BY <3>2, <2>1, <2>2, <1>1 DEF EventOK, HeldInv, Events
      <3> QED
        BY <3>1, <3>2
    <2>5. ASSUME NEW d \in Callers PROVE LaunchOK(d)'
      <3>1. CASE d # c
        <4>1. calls'[d] = calls[d]
          BY <1>3, <3>1, <1>1 DEF Goto, CallsOK
        <4>2. calls[d].pc = "mark" => Current(d) \in Runs \ {r}
          BY <1>1, <2>1, CurrentType DEF CallsOK, CallOK
        <4> QED
          BY <4>1, <4>2, <2>2, <1>1 DEF LaunchOK, Current, LaunchPC
      <3>2. CASE d = c
        <4>1. calls[c] \in CallRecord /\ calls' = [calls EXCEPT ![c] = [calls[c] EXCEPT !.pc = "accept"]]
          BY <1>3, <1>1 DEF Goto, CallsOK
        <4>2. calls'[c].pc = "accept" /\ calls'[c].todo = calls[c].todo
          BY <4>1, <1>1 DEF CallRecord, CallsOK
        <4> QED
          BY <4>2, <3>2, <2>3, <1>1, <1>2 DEF LaunchOK, Current, LaunchPC
      <3> QED
        BY <3>1, <3>2
    <2>6. InboxKnown'
      BY <1>1 DEF HeldInv, InboxKnown
    <2> QED
      BY <2>4, <2>5, <2>6 DEF HeldInv
  <1>4. CASE record[r] # "absent" /\ Existing(c) /\ UNCHANGED storeVars
    BY <1>2, <1>4, StepsHold DEF CreateOrJoin, ingressVars
  <1> QED
    BY <1>2, <1>3, <1>4 DEF CreateOrJoin

(* The first commit of a queued run, or its loss; a launch that fails. *)
LEMMA AcceptHolds ==
  ASSUME HostInv, HeldInv, Moves, NEW c \in Callers, UNCHANGED <<exec, orphaned>>,
         AcceptRun(c) \/ LaunchFails(c)
  PROVE  HeldInv'
  <1>1. /\ CallsOK /\ (\A d \in Callers : LaunchOK(d)) /\ calls[c].pc \in LaunchPC /\ calls[c].pc # "idle"
        /\ UNCHANGED <<queue, flaw, ingress, inbox>>
    BY DEF HostInv, HeldInv, AcceptRun, LaunchFails, At, LaunchPC
  <1>2. PICK r \in Runs : r = Current(c)
    BY <1>1, CurrentType
  <1>3. CASE Commit(c, r, "running") /\ Goto(c, "enqueue") /\ calls[c].pc = "accept"
    <2>1. record[r] = "running"
      BY <1>2, <1>3, CallerHolds DEF Commit, HostInv, HoldsAsCaller
    <2>2. UNCHANGED record
      BY <1>3, <2>1 DEF Commit, HostInv, StoreOK, StoreTypeOK
    <2>3. Keeps
      BY <1>1, <2>2, HeldFrame DEF Keeps
    <2>4. flaw[r] # "unmappable"
      BY <1>1, <1>2 DEF LaunchOK
    <2>5. \A d \in Callers : LaunchOK(d)'
      BY <1>1, <1>2, <1>3, <2>3, <2>4, GotoHolds
    <2> QED
      BY <1>1, <2>2, <2>3, <2>5, EventsKept DEF Keeps
  <1>4. CASE LaunchSettled(c, "thrown") /\ UNCHANGED record
    <2>1. Keeps
      BY <1>1, <1>4, HeldFrame DEF Keeps
    <2>2. \A d \in Callers : LaunchOK(d)'
      BY <1>1, <1>2, <1>4, <2>1, SettledHolds
    <2> QED
      BY <1>1, <1>4, <2>1, <2>2, EventsKept DEF Keeps
  <1> QED
    BY <1>2, <1>3, <1>4 DEF AcceptRun, LaunchFails, At, storeVars

(* The run is enqueued, and so held when its event is closed. *)
LEMMA EnqueueHolds ==
  ASSUME HostInv, HeldInv, NEW c \in Callers, UNCHANGED hostVars, EnqueueRun(c)
  PROVE  HeldInv'
  <1>1. /\ CallsOK /\ (\A d \in Callers : LaunchOK(d)) /\ calls[c].pc \in LaunchPC /\ calls[c].pc # "idle"
        /\ UNCHANGED <<record, exec, orphaned, flaw, ingress, inbox>> /\ QueueOK
        /\ LaunchSettled(c, "mark") /\ Enqueue(Current(c))
    BY DEF HostInv, HeldInv, EnqueueRun, At, LaunchPC, hostVars
  <1>2. PICK r \in Runs : r = Current(c)
    BY <1>1, CurrentType
  <1>3. Queued(r)' /\ \A q : Queued(q) => Queued(q)'
    BY <1>1, <1>2, EnqueueKeepsRows
  <1>4. \A q \in Runs : Held(q) => Held(q)'
    BY <1>1, <1>3, HeldKept DEF Tends, RunOf
  <1>5. Held(r)'
    BY <1>3 DEF Held
  <1>6. \A d \in Callers : LaunchOK(d)'
    BY <1>1, <1>2, <1>4, <1>5, SettledHolds DEF Keeps
  <1> QED
    BY <1>1, <1>4, <1>6, EventsKept, MovesNot

(* A recovery takes the list of what is received. *)
LEMMA RecoverHolds ==
  ASSUME HostInv, HeldInv, NEW c \in Callers, UNCHANGED hostVars, RecoverPending(c)
  PROVE  HeldInv'
  <1>1. /\ CallsOK /\ (\A d \in Callers : LaunchOK(d)) /\ InboxKnown
        /\ UNCHANGED <<record, queue, exec, orphaned, flaw, ingress, inbox>>
        /\ calls' = [calls EXCEPT ![c] = [pc |-> "bind", todo |-> inbox]]
    BY DEF HostInv, HeldInv, RecoverPending, storeVars, hostVars
  <1>2. Keeps
    BY <1>1, HeldFrame DEF Keeps
  <1>3. LaunchOK(c)'
    <2>1. calls'[c] = [pc |-> "bind", todo |-> inbox]
      BY <1>1 DEF CallsOK
    <2> QED
      BY <2>1, <1>1 DEF LaunchOK, LaunchPC, InboxKnown
  <1>4. \A d \in Callers \ {c} : LaunchOK(d)'
    BY <1>1, <1>2, LaunchSame DEF CallsOK
  <1> QED
    BY <1>1, <1>2, <1>3, <1>4, EventsKept, MovesNot DEF Keeps

(* The record of an event is closed: that of a run that is held, or of an event that
   has none. *)
LEMMA MarkHolds ==
  ASSUME HostInv, HeldInv, NEW c \in Callers, UNCHANGED hostVars, MarkLaunched(c) \/ MarkRejected(c)
  PROVE  HeldInv'
  <1>1. /\ CallsOK /\ (\A d \in Callers : LaunchOK(d)) /\ InboxKnown /\ InboxOK
        /\ calls[c].pc \in {"mark", "reject"} /\ NextEvent(c)
        /\ UNCHANGED <<record, queue, exec, orphaned, flaw>>
    BY DEF HostInv, HeldInv, MarkLaunched, MarkRejected, At, storeVars, hostVars
  <1>2. PICK r \in Runs : r = Current(c)
    BY <1>1, CurrentType
  <1>3. PICK to \in {"launched", "rejected"} :
          /\ Transition(r, to)
          /\ to = IF calls[c].pc = "mark" THEN "launched" ELSE "rejected"
    BY <1>1, <1>2 DEF MarkLaunched, MarkRejected, At
  <1>4. /\ ingress'[r] = to /\ inbox' = RemoveFirst(inbox, r)
        /\ \A e \in Events \ {r} : ingress'[e] = ingress[e]
    BY <1>1, <1>3 DEF Transition, InboxOK, Events
  <1>5. Keeps
    BY <1>1, <1>4, HeldFrame DEF Keeps
  <1>6. ASSUME NEW e \in Events PROVE EventOK(e)'
    <2>1. CASE e # r
      BY <2>1, <1>1, <1>4, <1>5 DEF EventOK, HeldInv, Keeps, Events
    <2>2. CASE e = r /\ to = "launched"
      <3>1. calls[c].pc = "mark"
        BY <2>2, <1>3
      <3>2. flaw[r] # "unmappable" /\ Held(r) /\ record[r] # "absent"
        BY <3>1, <1>1, <1>2 DEF LaunchOK, CallsOK, CallOK
      <3> QED
        BY <2>2, <3>2, <1>1, <1>4, <1>5 DEF EventOK, Keeps
    <2>3. CASE e = r /\ to = "rejected"
      <3>1. calls[c].pc = "reject"
        BY <2>3, <1>1, <1>3
      <3>2. flaw[r] = "unmappable" /\ record[r] = "absent"
        BY <3>1, <1>1, <1>2 DEF LaunchOK, HeldInv, EventOK, Events
      <3> QED
        BY <2>3, <3>2, <1>1, <1>4 DEF EventOK, Held
    <2> QED
      BY <2>1, <2>2, <2>3
  <1>7. LaunchOK(c)'
    <2> DEFINE t == calls[c].todo
    <2>1. t \in Seq(Runs) /\ Len(t) >= 1
      BY <1>1, CurrentType
    <2>2. calls'[c] = IF Len(t) = 1 THEN Idle ELSE [pc |-> "bind", todo |-> Tail(t)]
      BY <1>1 DEF NextEvent, CallsOK
    <2>3. CASE Len(t) = 1
      BY <2>2, <2>3, LaunchEnds
    <2>4. CASE Len(t) # 1
      <3>1. calls'[c].pc = "bind" /\ calls'[c].todo = Tail(t)
        BY <2>2, <2>4
      <3>2. \A i \in DOMAIN Tail(t) : i + 1 \in DOMAIN t /\ Tail(t)[i] = t[i + 1]
        BY <2>1
      <3>3. \A i \in DOMAIN t : t[i] \in Events /\ ingress[t[i]] # "none"
        BY <2>1, <1>1, ElementOfSeq DEF LaunchOK, Events
      <3>4. \A i \in DOMAIN Tail(t) : ingress'[Tail(t)[i]] # "none"
        BY <3>2, <3>3, <1>5 DEF Keeps
      <3> HIDE DEF t
      <3> QED
        BY <3>1, <3>4 DEF LaunchOK, LaunchPC
    <2> QED
      BY <2>3, <2>4
  <1>8. \A d \in Callers \ {c} : LaunchOK(d)'
    BY <1>1, <1>5, LaunchSame DEF NextEvent, CallsOK
  <1>9. InboxKnown'
    <2> DEFINE s == RemoveFirst(inbox, r)
    <2>1. /\ s \in Seq(Events) /\ \A i \in DOMAIN s : s[i] # r
          /\ \A q \in Events \ {r} : (\E i \in DOMAIN s : s[i] = q) <=> \E i \in DOMAIN inbox : inbox[i] = q
      BY <1>1, InboxWithout DEF Events
    <2> HIDE DEF s
    <2>2. \A i \in DOMAIN s : s[i] \in Events \ {r}
      BY <2>1, ElementOfSeq
    <2>3. \A i \in DOMAIN s : \E j \in DOMAIN inbox : inbox[j] = s[i]
      BY <2>1, <2>2
    <2>4. \A i \in DOMAIN s : ingress'[s[i]] # "none"
      BY <2>2, <2>3, <1>1, <1>4 DEF InboxKnown
    <2> QED
      BY <2>4, <1>4 DEF InboxKnown, s
  <1> QED
    BY <1>6, <1>7, <1>8, <1>9 DEF HeldInv

(* An event arrives, and is received from then on. *)
LEMMA IngestHolds ==
  ASSUME HostInv, HeldInv, NEW c \in Callers, NEW r \in Runs, UNCHANGED hostVars, Ingest(c, r)
  PROVE  HeldInv'
  <1>1. /\ CallsOK /\ (\A d \in Callers : LaunchOK(d)) /\ InboxKnown /\ InboxOK
        /\ UNCHANGED <<record, queue, exec, orphaned, flaw>>
    BY DEF HostInv, HeldInv, Ingest, storeVars, hostVars
  <1>2. /\ \A e \in Events \ {r} : ingress'[e] = ingress[e]
        /\ ingress'[r] = IF ingress[r] = "none" THEN "received" ELSE ingress[r]
    BY <1>1 DEF Ingest, InboxOK, Events
  <1>3. Keeps
    BY <1>1, <1>2, HeldFrame DEF Keeps
  <1>4. ASSUME NEW e \in Events PROVE EventOK(e)'
    BY <1>1, <1>2, <1>3 DEF EventOK, HeldInv, Keeps, Events
  <1>5. ASSUME NEW d \in Callers PROVE LaunchOK(d)'
    <2>1. CASE calls'[d] = calls[d]
      BY <2>1, <1>1, <1>3, LaunchSame
    <2>2. CASE calls'[d] # calls[d]
      <3>1. ingress[r] = "none" /\ calls'[d] = [pc |-> LaunchPoint(c, r), todo |-> <<r>>]
        BY <2>2, <1>1 DEF Ingest, CallsOK
      <3>2. /\ LaunchPoint(c, r) \in {"reject", "joined", "authorize"}
            /\ LaunchPoint(c, r) = "reject" <=> flaw[r] = "unmappable"
        BY DEF LaunchPoint
      <3>3. Current(d)' = r /\ DOMAIN calls'[d].todo = {1} /\ calls'[d].todo[1] = r
        BY <3>1 DEF Current
      <3> QED
        BY <3>1, <3>2, <3>3, <1>1, <1>2 DEF LaunchOK, LaunchPC
    <2> QED
      BY <2>1, <2>2
  <1>6. InboxKnown'
    <2> DEFINE s == RemoveFirst(inbox, r)
    <2>1. /\ s \in Seq(Events) /\ \A i \in DOMAIN s : s[i] # r
          /\ \A q \in Events \ {r} : (\E i \in DOMAIN s : s[i] = q) <=> \E i \in DOMAIN inbox : inbox[i] = q
      BY <1>1, InboxWithout DEF Events
    <2>2. inbox' = inbox \/ inbox' = Append(s, r)
      BY DEF Ingest
    <2> HIDE DEF s
    <2>3. \A i \in DOMAIN s : s[i] \in Events \ {r}
      BY <2>1, ElementOfSeq
    <2>4. \A i \in DOMAIN s : ingress'[s[i]] # "none"
      BY <2>1, <2>3, <1>1, <1>2 DEF InboxKnown
    <2>5. \A i \in DOMAIN inbox : inbox[i] \in Events
      BY <1>1, ElementOfSeq DEF InboxOK
    <2>6. CASE inbox' = inbox
      BY <2>5, <2>6, <1>1, <1>3 DEF InboxKnown, Keeps
    <2>7. CASE inbox' = Append(s, r)
      <3>1. r \in Events /\ ingress'[r] # "none"
        BY <1>2 DEF Events
      <3>2. \A i \in DOMAIN Append(s, r) : (i \in DOMAIN s /\ Append(s, r)[i] = s[i]) \/ Append(s, r)[i] = r
        BY <2>1, <3>1
      <3> QED
        BY <2>4, <2>7, <3>1, <3>2 DEF InboxKnown
    <2> QED
      BY <2>2, <2>6, <2>7
  <1> QED
    BY <1>4, <1>5, <1>6 DEF HeldInv

-----------------------------------------------------------------------------
(* The theorem. *)

(* Nothing has arrived and nothing runs when the system starts. *)
LEMMA HeldInit == Init => HeldInv
  <1> SUFFICES ASSUME Init PROVE HeldInv
    OBVIOUS
  <1>1. \A e \in Events : EventOK(e)
    BY DEF Init, StoreInit, IngressInit, EventOK, Held, Events
  <1>2. ASSUME NEW c \in Callers PROVE LaunchOK(c)
    <2>1. calls[c] = Idle /\ DOMAIN Idle.todo = {} /\ Idle.pc = "idle"
      BY DEF Init, IngressInit, Idle
    <2> QED
      BY <2>1 DEF LaunchOK, LaunchPC
  <1>3. InboxKnown
    BY DEF Init, IngressInit, InboxKnown
  <1> QED
    BY <1>1, <1>2, <1>3 DEF HeldInv

(* No step of anybody forgets a run. *)
LEMMA HeldStep == ASSUME HostInv, HeldInv, [Next]_vars PROVE HeldInv'
  <1>0. Moves
    BY NextStep DEF HostStep
  <1>1. ASSUME NEW c \in Callers, Arrival(c) \/ CallStep(c) \/ Recovery(c) \/ Outage(c)
        PROVE  HeldInv'
    <2>1. CASE Arrival(c)
      BY <2>1, IngestHolds DEF Arrival, Events
    <2>2. CASE CallStep(c)
      <3>1. UNCHANGED hostVars /\ Serve(c)
        BY <2>2 DEF CallStep
      <3>2. CASE AcceptRun(c)
        BY <3>1, <3>2, <1>0, AcceptHolds DEF hostVars
      <3> QED
        BY <3>1, <3>2, <1>0, StepsHold, CreateHolds, EnqueueHolds, MarkHolds DEF Serve
    <2>3. CASE Recovery(c)
      BY <2>3, RecoverHolds DEF Recovery
    <2>4. CASE Outage(c)
      BY <2>4, <1>0, AcceptHolds DEF Outage
    <2> QED
      BY <1>1, <2>1, <2>2, <2>3, <2>4
  <1>2. ASSUME NEW w \in Workers,
               WorkerStep(w) \/ LeaseLost(w) \/ ResumeFails(w) \/ DeadLeaseRunsOut(w) \/ HeartbeatLate(w)
        PROVE  HeldInv'
    BY <1>2, WorkerIs, ClaimHolds, RestHolds, FinallyHolds, LeaseHolds DEF WorkerStep
  <1>3. ASSUME NEW x \in Executors, ExecutorStep(x) \/ Progress(x) \/ StopExecutor(x)
        PROVE  HeldInv'
    BY <1>3, <1>0, CommitsHold, RestHolds, ReconcileHolds DEF ExecutorStep
  <1>4. ASSUME NEW r \in Runs, ResumePaused(r) \/ CancelRun(r) \/ Retry(r) PROVE HeldInv'
    BY <1>4, <1>0, ResumePausedHolds, CancelHolds, DeliveryHolds
  <1>5. CASE CancelLoads \/ CancelCommits
    BY <1>5, <1>0, CancelHolds
  <1>6. CASE \E d \in Deliverers : SendStep(d)
    BY <1>6, DeliveryHolds
  <1>7. CASE \E p \in Processes : Crash(p)
    BY <1>7, CrashHolds
  <1>8. CASE UNCHANGED vars
    <2>1. UNCHANGED <<record, queue, exec, orphaned, calls, inbox, flaw, ingress>>
      BY <1>8 DEF vars, storeVars, hostVars, ingressVars
    <2> QED
      BY <2>1, <1>0, HeldFrame, IngressKept
  <1> QED
    BY <1>1, <1>2, <1>3, <1>4, <1>5, <1>6, <1>7, <1>8 DEF Next

(* The inductive invariant: who holds a run that is running. *)
THEOREM RunsAreHeld == Spec => [](HostInv /\ HeldInv)
  <1>1. HostInv /\ HeldInv /\ [Next]_vars => (HostInv /\ HeldInv)'
    BY NextStep, HeldStep DEF HostStep
  <1>2. Init => HostInv /\ HeldInv
    BY HostInitOK, HeldInit
  <1> QED
    BY <1>1, <1>2, PTL DEF Spec

(* An event that is marked launched has a run, and a run that is running is in the
   queue, still to be launched, looked after, or left by somebody who died or by an
   operator (ingress.ts:48, coordinator.ts:89). *)
THEOREM NothingIsForgotten == Spec => []NoRunForgotten
  <1>1. HostInv /\ HeldInv => NoRunForgotten
    <2> SUFFICES ASSUME HostInv, HeldInv PROVE NoRunForgotten
      OBVIOUS
    <2>1. \A e \in Events : ingress[e] = "launched" => record[e] # "absent"
      BY DEF HeldInv, EventOK
    <2>2. \A r \in Runs : ingress[r] # "received" => Held(r)
      BY DEF HeldInv, EventOK, Events
    <2>3. \A r \in Runs : \A x \in Executors : Tends(x, r) => exec[x].pc # "idle" /\ RunOf(x) = r
      BY DEF Tends
    <2> QED
      BY <2>1, <2>2, <2>3 DEF NoRunForgotten, Held
  <1> QED
    BY <1>1, RunsAreHeld, PTL
=============================================================================
