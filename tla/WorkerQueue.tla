---------------------------- MODULE WorkerQueue ----------------------------
\* The Redis work queue and lease of redistore/store.go. Every operation is one
\* Lua script, so it is an operator from a queue to a queue. The items are
\* execution ids; a queue is the list of waiting ids, the index set kept beside
\* it, the claims (an item's token) and the items whose visibility timeout has
\* passed: the script compares a deadline with the clock, here the deadline of
\* a claim passes at an arbitrary later moment (Overdue).
EXTENDS Naturals, Sequences, FiniteSets, SequencesExt

NoItem == 0

EmptyQueue == [list |-> <<>>, index |-> {}, claim |-> <<>>, overdue |-> {}]

\* LREM key 0 item
Without(list, i) == SelectSeq(list, LAMBDA j: j # i)

\* Drop an item's claim (ZREM and HDEL).
Unclaimed(q, i) == [j \in DOMAIN q.claim \ {i} |-> q.claim[j]]

\* The visibility deadline of a claimed item passes.
Overdue(q, i) == [q EXCEPT !.overdue = @ \union {i}]

\* A claimed or already waiting item is not added again.
EnqueueWorkerQueue(q, i) ==
    IF i \in DOMAIN q.claim
    THEN [q EXCEPT !.index = @ \union {i}, !.list = Without(@, i)]
    ELSE IF i \in Range(q.list) THEN [q EXCEPT !.index = @ \union {i}]
    ELSE [q EXCEPT !.index = @ \union {i}, !.list = Append(@, i)]

\* ClaimWorkerQueueBatch with a batch of one: at most one overdue claim goes
\* back to the end of the list, then the head of the list is claimed under a
\* new token. The token (a hash of item, time and sequence number) is the
\* claiming process: a process holds one token at a time, so two tokens that are
\* held or stored at the same moment are equal only if they are the same claim.
Expired(q) ==
    IF q.overdue = {} THEN q
    ELSE LET i == CHOOSE j \in q.overdue: TRUE IN
         [q EXCEPT !.claim = Unclaimed(q, i), !.overdue = @ \ {i},
                   !.index = @ \union {i}, !.list = Append(Without(@, i), i)]

ClaimWorkerQueueBatch(q, token) ==
    LET e == Expired(q) IN
    IF e.list = <<>> THEN e
    ELSE LET i == Head(e.list) IN
         [e EXCEPT !.list = Without(Tail(@), i),
                   !.claim = [j \in DOMAIN @ \union {i} |->
                                IF j = i THEN token ELSE @[j]]]

\* The item a ClaimWorkerQueueBatch of q returns.
ClaimedItem(q) == LET e == Expired(q) IN IF e.list = <<>> THEN NoItem ELSE Head(e.list)

Holds(q, i, token) == i \in DOMAIN q.claim /\ q.claim[i] = token

AckWorkerQueue(q, i, token) ==
    IF ~ Holds(q, i, token) THEN q
    ELSE [q EXCEPT !.claim = Unclaimed(q, i), !.overdue = @ \ {i},
                   !.list = Without(@, i), !.index = @ \ {i}]

RequeueWorkerQueue(q, i, token) ==
    IF ~ Holds(q, i, token) THEN q
    ELSE [q EXCEPT !.claim = Unclaimed(q, i), !.overdue = @ \ {i},
                   !.index = @ \union {i}, !.list = Append(Without(@, i), i)]

\* DescribeWorkerQueue of one item.
DescribeWorkerQueue(q, i) ==
    IF i \in DOMAIN q.claim THEN "claimed"
    ELSE IF i \in Range(q.list) THEN "queued" ELSE "missing"
=============================================================================
