------------------------------ MODULE Delivery ------------------------------
(* Delivery of results (triggers/core/delivery.ts and its store): an outbox record
   per run, saved with a compare-and-set on its attempts, before and after each
   call of the gateway. A gateway may fail after it has delivered.          *)
EXTENDS RunStore, FiniteSets

CONSTANTS Deliverers, Payloads,
          MaxAttempts   \* bound on the attempts of one delivery

VARIABLES outbox,   \* the delivery record of each run (phase terminal)
          sending,  \* where each deliverer is
          posts     \* history: for each run, the attempts whose call the gateway has
                    \* seen, and those it has answered

deliveryVars == <<outbox, sending, posts>>

NoRecord == [status |-> "none", attempts |-> 0, payload |-> "none"]
NotSending(r) == [pc |-> "none", run |-> r, payload |-> "none", base |-> 0, answered |-> FALSE]

DeliveryTypeOK ==
  /\ outbox \in [Runs -> [status : {"none", "pending", "delivered", "unknown"},
                          attempts : 0 .. MaxAttempts,
                          payload : Payloads \cup {"none"}]]
  /\ sending \in [Deliverers -> [pc : {"none", "get", "save", "call", "mark"},
                                 run : Runs, payload : Payloads \cup {"none"},
                                 base : 0 .. MaxAttempts, answered : BOOLEAN]]
  /\ posts \in [Runs -> [called : SUBSET (1 .. MaxAttempts), calls : 0 .. MaxAttempts,
                         answered : SUBSET (1 .. MaxAttempts)]]

DeliveryInit ==
  /\ outbox = [r \in Runs |-> NoRecord]
  /\ sending = [d \in Deliverers |-> NotSending(CHOOSE r \in Runs : TRUE)]
  /\ posts = [r \in Runs |-> [called |-> {}, calls |-> 0, answered |-> {}]]

Sends(d, r) == sending[d].pc # "none" /\ sending[d].run = r

(* deliver, up to its first await. *)
StartDelivery(d, r, p) ==
  sending' = [sending EXCEPT ![d] = [NotSending(r) EXCEPT !.pc = "get", !.payload = p]]

Ended(d) == sending' = [sending EXCEPT ![d] = NotSending(@.run)]

(* Mutant: the payload of the record is not compared. *)
GetRecordTrusting(d) ==
  LET s == sending[d]
      o == outbox[s.run]
  IN /\ s.pc = "get"
     /\ IF o.status = "delivered"
        THEN Ended(d)
        ELSE sending' = [sending EXCEPT ![d].pc = "save", ![d].base = o.attempts]
     /\ UNCHANGED <<outbox, posts>>

(* A record of another payload is a conflict, a delivered one an answer. *)
GetRecord(d) ==
  LET s == sending[d]
      o == outbox[s.run]
  IN /\ s.pc = "get"
     /\ IF \/ o.status # "none" /\ o.payload # s.payload
           \/ o.status = "delivered"
        THEN Ended(d)
        ELSE sending' = [sending EXCEPT ![d].pc = "save", ![d].base = o.attempts]
     /\ UNCHANGED <<outbox, posts>>

(* Mutant: the attempt is saved without a compare. *)
SavePendingBlindly(d) ==
  LET s == sending[d]
  IN /\ s.pc = "save"
     /\ s.base < MaxAttempts
     /\ outbox' = [outbox EXCEPT ![s.run] =
                      [status |-> "pending", attempts |-> s.base + 1, payload |-> s.payload]]
     /\ sending' = [sending EXCEPT ![d].pc = "call"]
     /\ UNCHANGED posts

(* A conflict throws, and so does a store that fails, as it does at the bound. *)
SavePending(d) ==
  LET s == sending[d]
  IN /\ s.pc = "save"
     /\ IF outbox[s.run].attempts = s.base /\ s.base < MaxAttempts
        THEN /\ outbox' = [outbox EXCEPT ![s.run] =
                             [status |-> "pending", attempts |-> s.base + 1, payload |-> s.payload]]
             /\ sending' = [sending EXCEPT ![d].pc = "call"]
        ELSE /\ Ended(d)
             /\ UNCHANGED outbox
     /\ UNCHANGED posts

(* The gateway is called; answered says whether its answer arrives. *)
CallGateway(d) ==
  LET s == sending[d]
  IN /\ s.pc = "call"
     /\ \E answered \in BOOLEAN :
          /\ sending' = [sending EXCEPT ![d].pc = "mark", ![d].answered = answered]
          /\ posts' = [posts EXCEPT ![s.run] =
               [called |-> @.called \cup {s.base + 1}, calls |-> @.calls + 1,
                answered |-> IF answered THEN @.answered \cup {s.base + 1} ELSE @.answered]]
     /\ UNCHANGED outbox

(* Mutant: the answer to one attempt is saved over another. *)
SaveAnswerBlindly(d) ==
  LET s == sending[d]
  IN /\ s.pc = "mark"
     /\ outbox' = [outbox EXCEPT ![s.run].status = IF s.answered THEN "delivered" ELSE "unknown"]
     /\ Ended(d)
     /\ UNCHANGED posts

(* Saves delivered or unknown over the attempt it has made. A conflict of the first
   is caught and saved as unknown, which conflicts as well. *)
SaveAnswer(d) ==
  LET s == sending[d]
  IN /\ s.pc = "mark"
     /\ outbox' = IF outbox[s.run].attempts = s.base + 1
                  THEN [outbox EXCEPT ![s.run].status =
                          IF s.answered THEN "delivered" ELSE "unknown"]
                  ELSE outbox
     /\ Ended(d)
     /\ UNCHANGED posts

Send(d) == GetRecord(d) \/ SavePending(d) \/ CallGateway(d) \/ SaveAnswer(d)

SendersDie(D) == sending' = [d \in Deliverers |->
                               IF d \in D THEN NotSending(sending[d].run) ELSE sending[d]]
-----------------------------------------------------------------------------
(* Whichever processes deliver, each call of the gateway has an attempt of its own,
   durable before the call: an operator who reads attempts = n knows that there
   were at most n calls (delivery.ts:88). *)
CallsAreRecorded ==
  \A r \in Runs : /\ posts[r].calls <= outbox[r].attempts
                  /\ posts[r].calls = Cardinality(posts[r].called)

(* A record says delivered only for an attempt the gateway has answered. *)
DeliveredWasAnswered ==
  \A r \in Runs : outbox[r].status = "delivered" => outbox[r].attempts \in posts[r].answered

(* What has been promised to be delivered is never replaced and attempts are never
   forgotten, however many processes deliver, retry and die (delivery.ts:74). *)
PromiseKept ==
  [][\A r \in Runs : /\ outbox'[r].attempts >= outbox[r].attempts
                     /\ outbox[r].status # "none" => outbox'[r].payload = outbox[r].payload]_outbox
=============================================================================
