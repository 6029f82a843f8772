---------------------------- MODULE ConsumerGroup -----------------------------
(***************************************************************************)
(* The producer and the consumer group of examples/kafka: a topic whose    *)
(* partitions become writable one by one, a batch of keyed orders that is  *)
(* written again as a whole while any partition is unknown, a consumer     *)
(* that fetches, processes and commits, and the reader that resumes from   *)
(* the committed offsets.                                                  *)
(*                                                                         *)
(* main exits when the consumer fails.  Here a consumer that failed or     *)
(* died may also be started again in the same group, as a service is.      *)
(***************************************************************************)
EXTENDS Integers, Sequences, FiniteSets

CONSTANTS
  Partitions, Keys,
  None,          \* no partition
  KeyOf,         \* the key of each order
  Batch,         \* how many orders produce writes, and consumeGroup expects
  MaxAttempts,   \* bound: polls or writes before their 15 seconds are over
  MaxFaults      \* bound: restarts and rebalances

ASSUME BatchAssumption ==
  /\ Batch \in Nat \ {0} /\ MaxAttempts \in Nat /\ MaxFaults \in Nat
  /\ KeyOf \in [1 .. Batch + 1 -> Keys] /\ None \notin Partitions

VARIABLES
  hash,       \* kafka.Hash: the partition of each key
  ready,      \* the partitions whose leader accepts writes
  log,        \* what each partition stores, as numbers of orders
  committed,  \* the offsets of the group
  pc,
  attempts,   \* polls or writes of the present loop
  ctxDone,    \* the 90 seconds of run are over
  pos,        \* the next offset the reader fetches of each partition
  hand,       \* the message fetched last
  taken,      \* messages committed by this consumeGroup
  partitionOf,\* where this consumeGroup saw each key, or none
  faults,
  reached,    \* history: how far each partition was ever processed
  byKey       \* history: all orders processed, by key, repeats included

topic  == <<hash, ready, log>>
reader == <<pos, hand, taken, partitionOf>>
past   == <<reached, byKey>>
vars   == <<topic, committed, pc, attempts, ctxDone, reader, faults, past>>

Orders  == 1 .. Batch + 1
New     == Batch + 1    \* order-7, written after the consumer has stopped
NoHand  == [at |-> None, offset |-> 0]
Reading == {"fetch", "process", "commit"}
Over    == {"done", "failed", "stopped"}

\* What is in the log is as it was written, and is left out here.
TypeOK ==
  /\ hash \in [Keys -> Partitions] /\ ready \subseteq Partitions
  /\ committed \in [Partitions -> Nat] /\ pos \in [Partitions -> Nat]
  /\ pc \in {"create", "poll", "produce", "resend", "refetch", "recommit"} \cup Reading \cup Over
  /\ attempts \in 0 .. MaxAttempts /\ ctxDone \in BOOLEAN
  /\ hand \in [at : Partitions, offset : Nat] \cup {NoHand}
  /\ taken \in 0 .. Batch
  /\ partitionOf \in [Keys -> Partitions \cup {None}]
  /\ faults \in 0 .. MaxFaults
  /\ reached \in [Partitions -> Nat]

Init ==
  /\ hash \in [Keys -> Partitions] /\ ready = {}
  /\ log = [p \in Partitions |-> <<>>]
  /\ committed = [p \in Partitions |-> 0]
  /\ pc = "create" /\ attempts = 0 /\ ctxDone = FALSE
  /\ pos = committed /\ hand = NoHand /\ taken = 0
  /\ partitionOf = [k \in Keys |-> None]
  /\ faults = 0
  /\ reached = committed /\ byKey = [k \in Keys |-> <<>>]

\* The sequence of a set of orders.
InOrder(S) == CHOOSE s \in [1 .. Cardinality(S) -> S] :
                \A i, j \in DOMAIN s : i < j => s[i] < s[j]

GoTo(l) == pc' = l /\ attempts' = 0

-----------------------------------------------------------------------------
(* The cluster *)
LeaderReady(p) ==
  /\ p \notin ready /\ pc # "create"
  /\ ready' = ready \cup {p}
  /\ UNCHANGED <<hash, log, committed, pc, attempts, ctxDone, reader, faults, past>>

Expire ==
  /\ ~ctxDone /\ pc \notin Over
  /\ ctxDone' = TRUE
  /\ UNCHANGED <<topic, committed, pc, attempts, reader, faults, past>>

-----------------------------------------------------------------------------
(* createTopic: neither the connections nor the poll look at the context *)
Fail ==
  /\ pc' = "failed"
  /\ UNCHANGED <<topic, committed, attempts, ctxDone, reader, faults, past>>

CreateFails == pc = "create" /\ Fail

Create ==
  /\ pc = "create" /\ GoTo("poll")
  /\ UNCHANGED <<topic, committed, ctxDone, reader, faults, past>>

Visible ==
  /\ pc = "poll" /\ GoTo("produce")
  /\ UNCHANGED <<topic, committed, ctxDone, reader, faults, past>>

PollAgain ==
  /\ pc = "poll" /\ attempts < MaxAttempts
  /\ attempts' = attempts + 1
  /\ UNCHANGED <<topic, committed, pc, ctxDone, reader, faults, past>>

PollExpires == pc = "poll" /\ Fail

-----------------------------------------------------------------------------
(* writeMessages *)
BalanceByCount(i) ==   \* mutant: two orders to a partition, then the next one
  CHOOSE p \in Partitions : i <= 2 <=> p = hash[KeyOf[1]]

Balance(i) == hash[KeyOf[i]]

\* A partition gets its share of the batch in the order of the batch.
Written  == IF pc = "resend" THEN {New} ELSE 1 .. Batch
Share(p) == InOrder({i \in Written : Balance(i) = p})
Targets  == {Balance(i) : i \in Written}

\* One WriteMessages.  Each partition is written on its own: one without a
\* leader is unknown; another stores its share, loses the acknowledgement of
\* what it stored, or fails.
Outcomes == {o \in [Targets -> {"ok", "unknown", "lost", "failed"}] :
               \A p \in Targets : (o[p] = "unknown") <=> (p \notin ready)}
Stores(o) == [p \in Partitions |->
                IF p \in Targets /\ o[p] \in {"ok", "lost"} THEN log[p] \o Share(p) ELSE log[p]]

Acknowledged(o) == \A p \in Targets : o[p] = "ok"
IsUnknownTopic(o) == \E p \in Targets : o[p] = "unknown"

\* Closing the first writer opens the reader of consumeGroup, closing the
\* second one that of resumeAfterRestart: both start where the group stands.
OpenReader(l) ==
  /\ pos' = committed /\ hand' = NoHand /\ taken' = 0
  /\ partitionOf' = [k \in Keys |-> None]
  /\ GoTo(l)

Write(o) ==
  /\ pc \in {"produce", "resend"} /\ ~ctxDone /\ Acknowledged(o)
  /\ log' = Stores(o)
  /\ OpenReader(IF pc = "produce" THEN "fetch" ELSE "refetch")
  /\ UNCHANGED <<hash, ready, committed, ctxDone, faults, past>>

WriteAgain(o) ==
  /\ pc \in {"produce", "resend"} /\ ~ctxDone /\ IsUnknownTopic(o)
  /\ attempts < MaxAttempts
  /\ log' = Stores(o)
  /\ attempts' = attempts + 1
  /\ UNCHANGED <<hash, ready, committed, pc, ctxDone, reader, faults, past>>

\* Another error, or an unknown topic after the deadline of the loop.
WriteFails(o) ==
  /\ pc \in {"produce", "resend"} /\ ~ctxDone /\ ~Acknowledged(o)
  /\ log' = Stores(o)
  /\ pc' = "failed"
  /\ UNCHANGED <<hash, ready, committed, attempts, ctxDone, reader, faults, past>>

WriteExpires == pc \in {"produce", "resend"} /\ ctxDone /\ Fail

writeMessages == (\E o \in Outcomes : Write(o) \/ WriteAgain(o) \/ WriteFails(o)) \/ WriteExpires

-----------------------------------------------------------------------------
(* consumeGroup *)
Order(h) == log[h.at][h.offset + 1]
OrderKey(h) == KeyOf[Order(h)]

FetchCommitting(p) ==   \* mutant: ReadMessage, which commits what it returns
  /\ pc = "fetch" /\ ~ctxDone /\ pos[p] < Len(log[p])
  /\ hand' = [at |-> p, offset |-> pos[p]]
  /\ pos' = [pos EXCEPT ![p] = @ + 1]
  /\ committed' = [committed EXCEPT ![p] = pos[p] + 1]
  /\ pc' = "process"
  /\ UNCHANGED <<topic, attempts, ctxDone, taken, partitionOf, faults, past>>

Fetch(p) ==
  /\ pc = "fetch" /\ ~ctxDone /\ pos[p] < Len(log[p])
  /\ hand' = [at |-> p, offset |-> pos[p]]
  /\ pos' = [pos EXCEPT ![p] = @ + 1]
  /\ pc' = "process"
  /\ UNCHANGED <<topic, committed, attempts, ctxDone, taken, partitionOf, faults, past>>

Heard(h) ==
  /\ reached' = [reached EXCEPT ![h.at] = IF @ > h.offset THEN @ ELSE h.offset + 1]
  /\ byKey' = [byKey EXCEPT ![OrderKey(h)] = Append(@, Order(h))]

\* The order is recorded before its partition is looked at.
Process ==
  /\ pc = "process"
  /\ Heard(hand)
  /\ IF partitionOf[OrderKey(hand)] \in {None, hand.at}
       THEN /\ pc' = "commit"
            /\ partitionOf' = [partitionOf EXCEPT ![OrderKey(hand)] = hand.at]
       ELSE pc' = "stopped" /\ UNCHANGED partitionOf
  /\ UNCHANGED <<topic, committed, attempts, ctxDone, pos, hand, taken, faults>>

CommitInBatches ==   \* mutant: only the last message is committed
  /\ pc = "commit" /\ ~ctxDone
  /\ committed' = IF taken + 1 = Batch THEN [committed EXCEPT ![hand.at] = hand.offset + 1]
                                       ELSE committed
  /\ taken' = taken + 1
  /\ GoTo(IF taken + 1 = Batch THEN "resend" ELSE "fetch")
  /\ UNCHANGED <<topic, ctxDone, pos, hand, partitionOf, faults, past>>

Commit ==
  /\ pc = "commit" /\ ~ctxDone
  /\ committed' = [committed EXCEPT ![hand.at] = hand.offset + 1]
  /\ taken' = taken + 1
  /\ GoTo(IF taken + 1 = Batch THEN "resend" ELSE "fetch")
  /\ UNCHANGED <<topic, ctxDone, pos, hand, partitionOf, faults, past>>

\* CommitMessages fails, whether the broker has the offset or not.
CommitFails ==
  /\ pc \in {"commit", "recommit"}
  /\ committed' \in {committed, [committed EXCEPT ![hand.at] = hand.offset + 1]}
  /\ pc' = IF pc = "commit" THEN "stopped" ELSE "failed"
  /\ UNCHANGED <<topic, attempts, ctxDone, reader, faults, past>>

FetchFails ==
  /\ pc \in {"fetch", "refetch"}
  /\ pc' = IF pc = "fetch" THEN "stopped" ELSE "failed"
  /\ UNCHANGED <<topic, committed, attempts, ctxDone, reader, faults, past>>

FetchExpiresLater ==   \* mutant: consumeGroup fetches with a context that never ends
  ctxDone /\ pc = "refetch" /\ FetchFails

FetchExpires == ctxDone /\ FetchFails

Die ==
  /\ pc \in Reading
  /\ pc' = "stopped"
  /\ UNCHANGED <<topic, committed, attempts, ctxDone, reader, faults, past>>

\* A new process, with a context of its own, in the same group.
Restart ==
  /\ pc = "stopped" /\ faults < MaxFaults
  /\ faults' = faults + 1 /\ ctxDone' = FALSE
  /\ OpenReader("fetch")
  /\ UNCHANGED <<topic, committed, past>>

\* The group reassigns its partitions: the reader starts over where the group
\* stands, and does not know about the message in hand.
Rebalance ==
  /\ pc \in Reading /\ faults < MaxFaults /\ pos # committed
  /\ faults' = faults + 1
  /\ pos' = committed
  /\ UNCHANGED <<topic, committed, pc, attempts, ctxDone, hand, taken, partitionOf, past>>

-----------------------------------------------------------------------------
(* resumeAfterRestart, after its write *)
Refetch(p) ==
  /\ pc = "refetch" /\ ~ctxDone /\ pos[p] < Len(log[p])
  /\ hand' = [at |-> p, offset |-> pos[p]]
  /\ pos' = [pos EXCEPT ![p] = @ + 1]
  /\ Heard([at |-> p, offset |-> pos[p]])
  /\ pc' = "recommit"
  /\ UNCHANGED <<topic, committed, attempts, ctxDone, taken, partitionOf, faults>>

Recommit ==
  /\ pc = "recommit" /\ ~ctxDone
  /\ committed' = [committed EXCEPT ![hand.at] = hand.offset + 1]
  /\ pc' = "done"
  /\ UNCHANGED <<topic, attempts, ctxDone, reader, faults, past>>

-----------------------------------------------------------------------------
createTopic == Create \/ CreateFails \/ Visible \/ PollAgain \/ PollExpires
Fetching    == (\E p \in Partitions : Fetch(p) \/ Refetch(p)) \/ FetchExpires
Consuming   == Process \/ Commit \/ Recommit \/ CommitFails

Next ==
  \/ createTopic \/ writeMessages \/ Fetching \/ Consuming
  \/ FetchFails \/ Die \/ Restart \/ Rebalance \/ Expire
  \/ \E p \in Partitions : LeaderReady(p)

\* The loops go on, the library's calls return, and the 90 seconds end.
Fairness == WF_vars(createTopic \/ writeMessages \/ Fetching \/ Consuming) /\ WF_vars(Expire)

Spec == Init /\ [][Next]_vars /\ Fairness

-----------------------------------------------------------------------------
\* At least once, and what a restart repeats: whatever was committed has been
\* processed, and of each partition at most one processed message is not yet
\* committed, however often the consumer of consumeGroup dies or is rebalanced.
OneInDoubt == \A p \in Partitions : committed[p] <= reached[p] /\ reached[p] <= committed[p] + 1

\* What makes it inductive: the reader is where the group stands or, after a
\* rebalance, one message behind, apart from the message in hand.
InHand == {"process", "commit", "recommit"}
Near(p) == pos[p] <= committed[p] /\ committed[p] <= pos[p] + 1
ReaderFits ==
  /\ pc \in Reading => taken < Batch
  /\ pc \in {"fetch", "refetch"} => \A p \in Partitions : Near(p)
  /\ pc \in InHand =>
       /\ hand # NoHand
       /\ hand.offset <= committed[hand.at] /\ committed[hand.at] <= hand.offset + 1
       /\ pos[hand.at] \in {hand.offset, hand.offset + 1}
       /\ \A p \in Partitions \ {hand.at} : Near(p)
  /\ pc \in {"commit", "recommit"} => reached[hand.at] >= hand.offset + 1

IInv == TypeOK /\ OneInDoubt /\ ReaderFits

\* Per-key order (produce's comment): no order is processed before an earlier
\* order of its key has been, duplicates and redeliveries notwithstanding.
KeysInOrder ==
  \A k \in Keys : \A i \in DOMAIN byKey[k] : \A m \in 1 .. byKey[k][i] - 1 :
    KeyOf[m] = k => \E j \in 1 .. i - 1 : byKey[k][j] = m

StoredOnce == \A p \in Partitions : \A i, j \in DOMAIN log[p] : log[p][i] = log[p][j] => i = j

\* What main shows: without a retry that stored something twice and without a
\* restart, run returns after every order was processed exactly once, and the
\* second reader gets the new order.
CleanRun ==
  pc = "done" /\ StoredOnce /\ faults = 0 =>
    /\ Order(hand) = New
    /\ \A k \in Keys : byKey[k] = InOrder({i \in Orders : KeyOf[i] = k})

\* A comment of resumeAfterRestart: the new reader "sees only what was produced
\* after the previous consumer stopped".
OnlyNewAfterRestart == pc \in {"recommit", "done"} => Order(hand) = New

\* run returns: a consumer started again waits for messages its group has
\* already committed, and only the context ends that.
RunEnds == <>[](pc \in Over)
=============================================================================
