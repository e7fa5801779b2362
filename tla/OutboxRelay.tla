----------------------------- MODULE OutboxRelay -----------------------------
(* How an event gets from the outbox to a handler: several publishers that   *)
(* lease rows in batches, a broker that confirms what it stored, consumers   *)
(* that retry a message a bounded number of times and then dead-letter it.   *)
EXTENDS Integers, Sequences, FiniteSets, FiniteSetsExt

CONSTANTS Events,         \* numbered in the order of created_at
          Publishers, Consumers, Nobody,
          Batch,          \* rows claimed at once
          MaxAttempts,    \* publish attempts of a row
          MaxRetries,     \* redeliveries of a message after transient failures
          MaxCopies,      \* bound: copies of an event in the broker, beyond which
                          \* nothing is published, stored without a confirm or
                          \* redelivered after a lost channel
          MaxFaults       \* bound: faults that happen, one of each kind at most

RelayAssumption ==
    /\ Events \subseteq Nat /\ IsFiniteSet(Events)
    /\ Nobody \notin Publishers
    /\ Batch \in Nat \ {0} /\ MaxAttempts \in Nat \ {0}
    /\ MaxRetries \in Nat /\ MaxCopies \in Nat \ {0} /\ MaxFaults \in Nat

Messages == Events \X (0 .. MaxRetries)      \* with the header x-retry-count

VARIABLES row,         \* outbox_events
          claimant,    \* claim_owner; written, never read
          batch,       \* rows a publisher has claimed and not dealt with yet
          answer,      \* what publishing the first of them came to
          broker,      \* copies of each message in the queue or its retry queue
          delivery,    \* the message a consumer works on
          handled,     \* consumer_inbox rows with processed_at
          dead,        \* dead-lettered messages
          happened     \* faults so far, of {"slow", "crash", "database", "drop"}

vars == <<row, claimant, batch, answer, broker, delivery, handled, dead, happened>>
relayVars == <<row, claimant, batch, answer>>
consumerVars == <<delivery, handled, dead>>

Copies(e) == MapThenSumSet(LAMBDA n : broker[<<e, n>>], 0 .. MaxRetries)

Idle == [step |-> "idle"]

Init ==
    /\ row = [e \in Events |-> [status |-> "none", attempts |-> 0, stale |-> FALSE]]
    /\ claimant = [e \in Events |-> Nobody]
    /\ batch = [p \in Publishers |-> <<>>]
    /\ answer = [p \in Publishers |-> "none"]
    /\ broker = [m \in Messages |-> 0]
    /\ delivery = [c \in Consumers |-> Idle]
    /\ handled = {} /\ dead = {} /\ happened = {}

Strikes(fault) ==
    /\ fault \notin happened /\ Cardinality(happened) < MaxFaults
    /\ happened' = happened \cup {fault}

-----------------------------------------------------------------------------
(* Publishers.                                                               *)

\* Written in the transaction of the business change.
Insert(e) ==
    /\ row[e].status = "none"
    /\ row' = [row EXCEPT ![e].status = "pending"]
    /\ UNCHANGED <<claimant, batch, answer, broker, consumerVars, happened>>

\* As if a row under claim could be claimed again at once.
ClaimableAgain(e) == row[e].status \in {"pending", "publishing"}

Claimable(e) == \/ row[e].status = "pending"
                \/ row[e].status = "publishing" /\ row[e].stale

\* The oldest claimable rows, in order.
Oldest(S) == {e \in S : Cardinality({f \in S : f < e}) < Batch}

InOrder(S) == [i \in 1 .. Cardinality(S) |->
                 CHOOSE e \in S : Cardinality({f \in S : f < e}) = i - 1]

Claim(p) ==
    LET S == Oldest({e \in Events : Claimable(e)})
    IN /\ batch[p] = <<>>
       /\ S # {}
       /\ row' = [e \in Events |-> IF e \in S THEN [row[e] EXCEPT !.status = "publishing",
                                                                  !.stale = FALSE]
                                              ELSE row[e]]
       /\ claimant' = [e \in Events |-> IF e \in S THEN p ELSE claimant[e]]
       /\ batch' = [batch EXCEPT ![p] = InOrder(S)]
       /\ UNCHANGED <<answer, broker, consumerVars, happened>>

\* The broker stores the message and confirms, stores it and the confirm is
\* lost or late, or the message does not reach it.
Publish(p) ==
    /\ batch[p] # <<>> /\ answer[p] = "none"
    /\ LET e == Head(batch[p])
       IN \/ /\ Copies(e) < MaxCopies
             /\ broker' = [broker EXCEPT ![<<e, 0>>] = @ + 1]
             /\ \E a \in {"confirmed", "error"} : answer' = [answer EXCEPT ![p] = a]
          \/ /\ answer' = [answer EXCEPT ![p] = "error"]
             /\ UNCHANGED broker
    /\ UNCHANGED <<row, claimant, batch, consumerVars, happened>>

\* MarkPublished and MarkFailure look at the status of the row only.
MarkedPublished(r) == IF r.status = "publishing" THEN [r EXCEPT !.status = "published"] ELSE r

\* As if the attempts had no end.
MarkedFailureForever(r) ==
    IF r.status # "publishing" THEN r
    ELSE [status |-> "pending", attempts |-> r.attempts + 1, stale |-> FALSE]

MarkedFailure(r) ==
    IF r.status # "publishing" THEN r
    ELSE [status |-> IF r.attempts + 1 >= MaxAttempts THEN "failed" ELSE "pending",
          attempts |-> r.attempts + 1, stale |-> FALSE]

\* As if an unconfirmed message counted as published.
MarkedAlways(r, a) == MarkedPublished(r)

Marked(r, a) == IF a = "confirmed" THEN MarkedPublished(r) ELSE MarkedFailure(r)

Mark(p) ==
    /\ answer[p] # "none"
    /\ LET e == Head(batch[p])
       IN \/ /\ row' = [row EXCEPT ![e] = Marked(@, answer[p])]
             /\ claimant' = [claimant EXCEPT ![e] = IF row[e].status = "publishing"
                                                    THEN Nobody ELSE @]
             /\ UNCHANGED happened
          \/ Strikes("database") /\ UNCHANGED <<row, claimant>>
    /\ batch' = [batch EXCEPT ![p] = Tail(@)]
    /\ answer' = [answer EXCEPT ![p] = "none"]
    /\ UNCHANGED <<broker, consumerVars>>

PublisherCrash(p) ==
    /\ Strikes("crash")
    /\ batch[p] # <<>>
    /\ batch' = [batch EXCEPT ![p] = <<>>]
    /\ answer' = [answer EXCEPT ![p] = "none"]
    /\ UNCHANGED <<row, claimant, broker, consumerVars>>

InBatch(e) == \E p \in Publishers : \E i \in DOMAIN batch[p] : batch[p][i] = e

\* A claim is older than the lease: the publisher is gone, or (25 rows of up to
\* 30 seconds each against a lease of 5 minutes) slow.
ClaimGoesStale(e) ==
    /\ row[e].status = "publishing" /\ ~row[e].stale
    /\ IF InBatch(e) THEN Strikes("slow") ELSE UNCHANGED happened
    /\ row' = [row EXCEPT ![e].stale = TRUE]
    /\ UNCHANGED <<claimant, batch, answer, broker, consumerVars>>

-----------------------------------------------------------------------------
(* Consumers.                                                                *)

Receive(c, m) ==
    /\ delivery[c] = Idle
    /\ broker[m] > 0
    /\ broker' = [broker EXCEPT ![m] = @ - 1]
    /\ delivery' = [delivery EXCEPT ![c] = [step |-> "handle", event |-> m[1], retries |-> m[2]]]
    /\ UNCHANGED <<relayVars, handled, dead, happened>>

Then(c, step) == delivery' = [delivery EXCEPT ![c] =
                                IF step = "idle" THEN Idle ELSE [@ EXCEPT !.step = step]]

\* The handler succeeds (a processed inbox row is a success), or fails for good,
\* or fails and may be retried.
Handle(c) ==
    LET d == delivery[c]
    IN /\ d.step = "handle"
       /\ \/ /\ handled' = handled \cup {d.event}
             /\ Then(c, "ack")
             /\ UNCHANGED dead
          \/ /\ d.event \notin handled
             /\ dead' = dead \cup {d.event}
             /\ Then(c, "idle")
             /\ UNCHANGED handled
          \/ /\ d.event \notin handled
             /\ d.retries < MaxRetries
             /\ Then(c, "republish")
             /\ UNCHANGED <<handled, dead>>
       /\ UNCHANGED <<relayVars, broker, happened>>

\* As if the original were acknowledged although the retry was not confirmed.
AfterRepublishAcks(confirmed) == "ack"

\* What happens to the original after its copy was sent to the retry queue.
AfterRepublish(confirmed) == IF confirmed THEN "ack" ELSE "nack"

\* As if the copy kept the retry count of the original.
SameCount(retries) == retries

NextCount(retries) == retries + 1

\* A copy with the next retry count goes to the retry queue, whose messages
\* return to the queue after their time to live.
Republish(c) ==
    LET d == delivery[c]
        next == <<d.event, NextCount(d.retries)>>
    IN /\ d.step = "republish"
       /\ \/ /\ broker' = [broker EXCEPT ![next] = @ + 1]
             /\ \E confirmed \in {TRUE} \cup {Copies(d.event) >= MaxCopies} :
                   Then(c, AfterRepublish(confirmed))
          \/ Then(c, AfterRepublish(FALSE)) /\ UNCHANGED broker
       /\ UNCHANGED <<relayVars, handled, dead, happened>>

Acknowledge(c) ==
    /\ delivery[c].step = "ack"
    /\ Then(c, "idle")
    /\ UNCHANGED <<relayVars, broker, handled, dead, happened>>

Requeued(c) ==
    /\ broker' = [broker EXCEPT ![<<delivery[c].event, delivery[c].retries>>] = @ + 1]
    /\ Then(c, "idle")
    /\ UNCHANGED <<relayVars, handled, dead>>

Nack(c) == delivery[c].step = "nack" /\ Requeued(c) /\ UNCHANGED happened

\* The channel or the process is lost: the broker redelivers what was not
\* acknowledged.
Drop(c) ==
    /\ Strikes("drop")
    /\ delivery[c] # Idle /\ Copies(delivery[c].event) < MaxCopies
    /\ Requeued(c)

Next ==
    \/ \E e \in Events : Insert(e) \/ ClaimGoesStale(e)
    \/ \E p \in Publishers : Claim(p) \/ Publish(p) \/ Mark(p) \/ PublisherCrash(p)
    \/ \E c \in Consumers :
          (\E m \in Messages : Receive(c, m)) \/ Handle(c) \/ Republish(c) \/ Acknowledge(c) \/ Nack(c) \/ Drop(c)

\* The publisher's ticker and the consumer's loop keep running, the queue is
\* served in order, and the broker does not refuse every retry of a message.
Fairness ==
    /\ \A p \in Publishers : WF_vars(Claim(p) \/ Publish(p) \/ Mark(p))
    /\ \A e \in Events : WF_vars(ClaimGoesStale(e))
    /\ \A m \in Messages : SF_vars(\E c \in Consumers : Receive(c, m))
    /\ \A c \in Consumers :
          /\ WF_vars(Handle(c) \/ Acknowledge(c) \/ Nack(c))
          /\ SF_vars(Republish(c) /\ delivery'[c].step = "ack")
          /\ WF_vars(Republish(c))

Spec == Init /\ [][Next]_vars /\ Fairness

-----------------------------------------------------------------------------
(* Properties.                                                               *)

InBroker(e) == \/ \E n \in 0 .. MaxRetries : broker[<<e, n>>] > 0
               \/ \E c \in Consumers : delivery[c] # Idle /\ delivery[c].event = e

\* An event marked as published is with the broker or a consumer until some
\* handler has finished it or it is in the dead-letter queue, whatever crashes,
\* lost confirms, slow batches, dropped channels and retries come together.
NothingLost ==
    \A e \in Events :
        row[e].status = "published" => InBroker(e) \/ e \in handled \/ e \in dead

\* A row leaves the claim of a publisher only by that publisher's own mark, as
\* long as no batch has outlived its lease: crashes, failed marks and lost
\* confirms alone never let two publishers work on one row.
ClaimsAreRespected ==
    []["slow" \notin happened => \A p \in Publishers, e \in Events :
          /\ claimant[e] = p /\ row[e].status = "publishing" /\ ~row[e].stale
          /\ row'[e].status # "publishing"
          => /\ batch[p] # <<>> /\ Head(batch[p]) = e
             /\ batch'[p] # batch[p]]_vars

\* A message the broker has is handled or dead-lettered, however many of its
\* retries fail and whichever of its copies is worked on.
EventuallyConsumed ==
    \A e \in Events : row[e].status = "published" ~> e \in handled \/ e \in dead

=============================================================================
