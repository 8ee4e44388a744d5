---------------------------- MODULE Observation ----------------------------
(* How a run is watched while it goes on: pages of its journal, read beside the
   checkpoint they are shown with, and live streams with a bounded buffer.  An event is
   its sequence number; executors here publish the progress they commit, those of other
   processes nothing. *)
EXTENDS Naturals, Sequences
Seqs == INSTANCE SequencesExt

CONSTANTS Viewers, Subscribers,
          PageLimit, MaxBuffered,
          MaxSeq          \* bound: events of the run

(* Limits that the code demands of its configuration (WorkflowLiveEventBus, readEvents). *)
ASSUME WatchAssumption == PageLimit \in Nat /\ MaxBuffered \in Nat \ {0}

VARIABLES journal,    \* sequence number of the last committed event
          shown,      \* shown[v]: [events, checkpointSeq, more]: the trace a viewer looks at
          asked,      \* asked[v]: the requests of v under way
          queue       \* queue[s]: the live queue of a subscriber

watchVars == <<journal, shown, asked, queue>>

NoTrace == [events |-> <<>>, checkpointSeq |-> 0, more |-> FALSE]
NoQueue == [values |-> <<>>, waiting |-> FALSE, closed |-> TRUE, got |-> <<>>, published |-> <<>>]

WatchInit ==
    /\ journal = 0
    /\ shown = [v \in Viewers |-> NoTrace]
    /\ asked = [v \in Viewers |-> {}]
    /\ queue = [s \in Subscribers |-> NoQueue]
-----------------------------------------------------------------------------
(* push: to a waiting consumer, or into the buffer, the oldest event giving way. *)
Push(q, seq) ==
    IF q.closed THEN q
    ELSE [q EXCEPT !.published = Append(@, seq),
                   !.waiting = FALSE,
                   !.got = IF q.waiting THEN Append(@, seq) ELSE @,
                   !.values = IF q.waiting THEN @
                              ELSE Append(IF Len(@) >= MaxBuffered THEN Tail(@) ELSE @, seq)]

(* projectLive: of a batch of n events only those of a node's progress are published. *)
ProjectLive(q, i, progress) == IF i \in progress THEN Push(q, journal + i) ELSE q
PushAll(q, n, progress) ==
    LET pushed[i \in 0 .. n] == IF i = 0 THEN q ELSE ProjectLive(pushed[i - 1], i, progress)
    IN pushed[n]

(* A commit appends a batch of events; then its progress is published to the open queues,
   or none of it where another process has committed. *)
CommitEvents(n, progress) ==
    /\ journal + n <= MaxSeq
    /\ journal' = journal + n
    /\ queue' = [s \in Subscribers |-> PushAll(queue[s], n, progress)]
    /\ UNCHANGED <<shown, asked>>

Subscribe(s) ==
    /\ queue[s].closed /\ queue[s].published = <<>>
    /\ queue' = [queue EXCEPT ![s] = [NoQueue EXCEPT !.closed = FALSE]]
    /\ UNCHANGED <<journal, shown, asked>>

(* next: the oldest buffered event, also of a closed queue; or wait for one. *)
TakeNext(s) ==
    /\ ~queue[s].waiting
    /\ queue[s].values # <<>> \/ ~queue[s].closed
    /\ LET q == queue[s]
       IN queue' = [queue EXCEPT ![s] = IF q.values = <<>> THEN [q EXCEPT !.waiting = TRUE]
                                        ELSE [q EXCEPT !.got = Append(@, Head(q.values)), !.values = Tail(@)]]
    /\ UNCHANGED <<journal, shown, asked>>

Shut(q) == [q EXCEPT !.closed = TRUE, !.waiting = FALSE]
(* close: one subscriber's signal, or the settled result of an executor, which closes
   every stream of the run, those that follow another executor of it too. *)
AbortStream(s) == /\ ~queue[s].closed
                  /\ queue' = [queue EXCEPT ![s] = Shut(@)]
                  /\ UNCHANGED <<journal, shown, asked>>
CloseStreams == /\ \E s \in Subscribers : ~queue[s].closed
                /\ queue' = [s \in Subscribers |-> Shut(queue[s])]
                /\ UNCHANGED <<journal, shown, asked>>
-----------------------------------------------------------------------------
(* trace: the checkpoint is read first, the page after it.  Requests may overlap; bound:
   no two that captured the same events. *)
Ask(v, before) ==
    /\ ~\E q \in asked[v] : q.before = before
    /\ asked' = [asked EXCEPT ![v] = @ \cup {[before |-> before, head |-> 0, page |-> <<>>, more |-> FALSE, at |-> "asked"]}]
    /\ UNCHANGED <<journal, shown, queue>>
Refresh(v) == journal > 0 /\ Ask(v, <<>>)
LoadMore(v) == shown[v].more /\ Ask(v, shown[v].events)

Proceed(v, q, r) == asked' = [asked EXCEPT ![v] = (@ \ {q}) \cup {r}]
\* readEvents: one event more than the page holds tells whether there is a next page.
Page(after, n) == LET last == IF after + n < journal THEN after + n ELSE journal
                  IN [i \in 1 .. last - after |-> after + i]

ReadCheckpoint(v, q) ==
    /\ q.at = "asked"
    /\ Proceed(v, q, [q EXCEPT !.head = journal, !.at = "head"])
    /\ UNCHANGED <<journal, shown, queue>>

ReadPage(v, q) ==
    /\ q.at = "head"
    /\ LET page == Page(Len(q.before), PageLimit + 1)
       IN Proceed(v, q, [q EXCEPT !.page = SubSeq(page, 1, IF Len(page) < PageLimit THEN Len(page) ELSE PageLimit),
                                  !.more = Len(page) > PageLimit, !.at = "page"])
    /\ UNCHANGED <<journal, shown, queue>>

\* An answer beside a checkpoint that is read after the page.
ShowCheckingLate(v, q) ==
    /\ q.at = "page"
    /\ shown' = [shown EXCEPT ![v] = [events |-> q.before \o q.page, checkpointSeq |-> journal, more |-> q.more]]
    /\ asked' = [asked EXCEPT ![v] = @ \ {q}]
    /\ UNCHANGED <<journal, queue>>

(* The answer replaces what is shown: the events its click saw, and the page. *)
ShowTrace(v, q) ==
    /\ q.at = "page"
    /\ shown' = [shown EXCEPT ![v] = [events |-> q.before \o q.page, checkpointSeq |-> q.head, more |-> q.more]]
    /\ asked' = [asked EXCEPT ![v] = @ \ {q}]
    /\ UNCHANGED <<journal, queue>>

WatchNext ==
    \/ \E n \in 1 .. 2 : \E progress \in SUBSET (1 .. n) : CommitEvents(n, progress)
    \/ \E s \in Subscribers : Subscribe(s) \/ TakeNext(s) \/ AbortStream(s)
    \/ CloseStreams
    \/ \E v \in Viewers : \/ Refresh(v) \/ LoadMore(v)
                          \/ \E q \in asked[v] : ReadCheckpoint(v, q) \/ ReadPage(v, q) \/ ShowTrace(v, q)

WatchSpec == WatchInit /\ [][WatchNext]_watchVars
-----------------------------------------------------------------------------
Increasing(seqs) == \A i, j \in DOMAIN seqs : i < j => seqs[i] < seqs[j]

(* Whoever watches a run sees its journal: the trace shown is its beginning without a
   gap or a repetition, whatever requests overlapped, and without a next page it holds
   every event the checkpoint beside it counts; a stream, of the progress published since
   it was opened, never goes back, loses only the oldest of what waits in it, and nothing
   as long as no more was published than it buffers (getRun, readEvents, LiveQueue).
   Nothing tells a consumer of a loss. *)
ViewsFollowJournal ==
    /\ \A v \in Viewers : LET t == shown[v]
                          IN /\ t.events = [i \in 1 .. Len(t.events) |-> i]
                             /\ ~t.more => Len(t.events) >= t.checkpointSeq
    /\ \A s \in Subscribers : LET q == queue[s]
                              IN /\ Increasing(q.got \o q.values)
                                 /\ Seqs!IsSuffix(q.values, q.published)
                                 /\ Len(q.published) <= MaxBuffered => q.got \o q.values = q.published
=============================================================================
