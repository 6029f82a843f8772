-------------------------- MODULE ConsumerGroupProofs --------------------------
(***************************************************************************)
(* Proofs about ConsumerGroup, for any partitions, keys and bounds: every  *)
(* message is committed after it was processed and before the next one is  *)
(* fetched, so of each partition only one can be in doubt.  A rebalance    *)
(* that takes the reader back while it has a message in hand makes it      *)
(* fetch that message once more, and nothing before it.  The order of a    *)
(* key survives all of it, and what nothing disturbs is processed once.    *)
(***************************************************************************)
EXTENDS ConsumerGroup, TLAPS, FiniteSetTheorems, FunctionTheorems

(* TypeOK but for ctxDone, whose only place is BOOLEAN. *)
Ranges ==
  /\ hash \in [Keys -> Partitions] /\ ready \subseteq Partitions
  /\ committed \in [Partitions -> Nat] /\ pos \in [Partitions -> Nat]
  /\ pc \in {"create", "poll", "produce", "resend", "refetch", "recommit"} \cup Reading \cup Over
  /\ attempts \in 0 .. MaxAttempts
  /\ hand \in [at : Partitions, offset : Nat] \cup {NoHand}
  /\ taken \in 0 .. Batch
  /\ partitionOf \in [Keys -> Partitions \cup {None}]
  /\ faults \in 0 .. MaxFaults
  /\ reached \in [Partitions -> Nat]

LEMMA TypeSplits == TypeOK <=> Ranges /\ ctxDone \in BOOLEAN
  BY Zenon DEF TypeOK, Ranges

(* What the steps that neither fetch, process nor commit have in common. *)
Quiet ==
  /\ UNCHANGED <<hash, committed, pos, hand, taken, partitionOf, faults, reached>>
  /\ ready' \subseteq Partitions
  /\ attempts' \in 0 .. MaxAttempts
  /\ pc' = pc \/ pc' \in {"poll", "produce"} \cup Over

LEMMA QuietSteps ==
  ASSUME IInv,
         \/ createTopic \/ WriteExpires \/ FetchFails \/ Die \/ Expire
         \/ \E o \in Outcomes : WriteAgain(o) \/ WriteFails(o)
         \/ \E p \in Partitions : LeaderReady(p)
  PROVE  Quiet
<1> USE DEF Quiet, reader, past, topic, Over
<1>0. attempts \in 0 .. MaxAttempts /\ MaxAttempts \in Nat /\ ready \subseteq Partitions
  BY BatchAssumption DEF IInv, TypeOK
<1>1. CASE createTopic
  BY <1>1, <1>0 DEF createTopic, Create, CreateFails, Visible, PollAgain, PollExpires, Fail, GoTo
<1>2. CASE WriteExpires
  BY <1>2, <1>0 DEF WriteExpires, Fail
<1>3. CASE FetchFails \/ Die
  BY <1>3, <1>0 DEF FetchFails, Die
<1>4. CASE Expire
  BY <1>4, <1>0 DEF Expire
<1>5. ASSUME NEW o \in Outcomes, WriteAgain(o) \/ WriteFails(o) PROVE Quiet
  BY <1>5, <1>0 DEF WriteAgain, WriteFails
<1>6. ASSUME NEW p \in Partitions, LeaderReady(p) PROVE Quiet
  BY <1>6, <1>0 DEF LeaderReady
<1>7. QED
  BY <1>1, <1>2, <1>3, <1>4, <1>5, <1>6

LEMMA QuietIInv ==
  ASSUME IInv, Quiet
  PROVE  Ranges' /\ OneInDoubt' /\ ReaderFits'
<1>1. Ranges'
  BY TypeSplits DEF IInv, Ranges, Quiet
<1>2. OneInDoubt'
  BY DEF IInv, OneInDoubt, Quiet
<1>3. ReaderFits'
  <2>1. CASE pc' = pc
    BY <2>1 DEF IInv, ReaderFits, Near, Quiet
  <2>2. CASE pc' \in {"poll", "produce"} \cup Over
    BY <2>2 DEF ReaderFits, Reading, InHand, Over
  <2>3. QED
    BY <2>1, <2>2 DEF Quiet
<1>4. QED
  BY <1>1, <1>2, <1>3

(* The reader opens where the group stands. *)
LEMMA OpenIInv ==
  ASSUME IInv, NEW l \in {"fetch", "refetch"}, OpenReader(l),
         UNCHANGED <<hash, ready, committed, reached>>, faults' \in 0 .. MaxFaults
  PROVE  Ranges' /\ OneInDoubt' /\ ReaderFits'
<1>1. Ranges /\ Batch \in Nat \ {0} /\ MaxAttempts \in Nat
  BY TypeSplits, BatchAssumption DEF IInv
<1>2. Ranges'
  BY <1>1 DEF Ranges, OpenReader, GoTo, Reading, Over
<1>3. OneInDoubt'
  BY DEF IInv, OneInDoubt
<1>4. ReaderFits'
  BY <1>1, <1>2 DEF Ranges, OpenReader, GoTo, ReaderFits, Near, Reading, InHand
<1>5. QED
  BY <1>2, <1>3, <1>4

(* A message is taken in hand; reached is left alone or told of it. *)
LEMMA FetchIInv ==
  ASSUME IInv, NEW p \in Partitions, Fetch(p) \/ Refetch(p)
  PROVE  Ranges' /\ OneInDoubt' /\ ReaderFits'
<1>0. Ranges /\ pc \in {"fetch", "refetch"} /\ \A q \in Partitions : Near(q)
  BY TypeSplits DEF IInv, ReaderFits, Fetch, Refetch
<1>1. /\ hand' = [at |-> p, offset |-> pos[p]]
      /\ pos' = [pos EXCEPT ![p] = @ + 1]
      /\ UNCHANGED <<hash, ready, committed, attempts, taken, partitionOf, faults>>
  BY DEF Fetch, Refetch, topic
<1>2. hand' \in [at : Partitions, offset : Nat] /\ hand'.at = p /\ hand'.offset = pos[p]
  BY <1>0, <1>1 DEF Ranges
<1>3. hand' # NoHand
  BY <1>2, BatchAssumption DEF NoHand
<1>4. /\ pos'[p] = pos[p] + 1 /\ pos' \in [Partitions -> Nat]
      /\ \A q \in Partitions \ {p} : pos'[q] = pos[q]
  BY <1>0, <1>1 DEF Ranges
<1>5. CASE Fetch(p)
  <2>1. pc' = "process" /\ reached' = reached /\ pc \in Reading /\ taken < Batch
    BY <1>5 DEF Fetch, past, Reading, IInv, ReaderFits
  <2>2. Ranges'
    BY <2>1, <1>0, <1>1, <1>2, <1>4 DEF Ranges, Reading
  <2>3. OneInDoubt'
    BY <2>1, <1>1 DEF IInv, OneInDoubt
  <2>4. ReaderFits'
    BY <2>1, <1>0, <1>1, <1>2, <1>3, <1>4 DEF ReaderFits, Near, InHand, Reading, Ranges
  <2>5. QED
    BY <2>2, <2>3, <2>4
<1>6. CASE Refetch(p)
  <2>1. /\ pc' = "recommit"
        /\ reached' = [reached EXCEPT ![p] = IF @ > pos[p] THEN @ ELSE pos[p] + 1]
    BY <1>6 DEF Refetch, Heard
  <2>2. /\ reached' \in [Partitions -> Nat] /\ reached'[p] >= pos[p] + 1
        /\ reached'[p] = reached[p] \/ reached'[p] = pos[p] + 1
        /\ reached'[p] >= reached[p]
        /\ \A q \in Partitions \ {p} : reached'[q] = reached[q]
    BY <2>1, <1>0 DEF Ranges
  <2>3. Ranges'
    BY <2>1, <2>2, <1>0, <1>1, <1>2, <1>4 DEF Ranges
  <2>4. OneInDoubt'
    BY <2>2, <1>0, <1>1 DEF IInv, OneInDoubt, Near, Ranges
  <2>5. ReaderFits'
    BY <2>1, <2>2, <1>0, <1>1, <1>2, <1>3, <1>4 DEF ReaderFits, Near, InHand, Reading, Ranges
  <2>6. QED
    BY <2>3, <2>4, <2>5
<1>7. QED
  BY <1>5, <1>6

(* What is in hand is a message, next to what its partition has committed. *)
LEMMA HandFits ==
  ASSUME IInv, pc \in InHand
  PROVE  /\ hand.at \in Partitions /\ hand.offset \in Nat
         /\ hand.offset <= committed[hand.at] /\ committed[hand.at] <= hand.offset + 1
  BY TypeSplits DEF IInv, Ranges, ReaderFits

(* Processing a message reaches its offset and no further. *)
LEMMA ProcessIInv ==
  ASSUME IInv, Process
  PROVE  Ranges' /\ OneInDoubt' /\ ReaderFits'
<1>0. /\ Ranges /\ pc = "process" /\ pc \in InHand
      /\ UNCHANGED <<hash, ready, committed, attempts, pos, hand, taken, faults>>
  BY TypeSplits DEF IInv, Process, InHand, topic
<1>1. hand.at \in Partitions /\ hand.offset \in Nat /\ hand.offset <= committed[hand.at]
  BY <1>0, HandFits
<1>2. reached' = [reached EXCEPT ![hand.at] = IF @ > hand.offset THEN @ ELSE hand.offset + 1]
  BY DEF Process, Heard
<1>3. /\ reached' \in [Partitions -> Nat] /\ reached'[hand.at] >= hand.offset + 1
      /\ reached'[hand.at] = reached[hand.at] \/ reached'[hand.at] = hand.offset + 1
      /\ reached'[hand.at] >= reached[hand.at]
      /\ \A q \in Partitions \ {hand.at} : reached'[q] = reached[q]
  BY <1>0, <1>1, <1>2 DEF Ranges
<1>4. /\ pc' \in {"commit", "stopped"}
      /\ partitionOf' \in [Keys -> Partitions \cup {None}]
  BY <1>0, <1>1 DEF Process, Ranges
<1>5. Ranges'
  BY <1>0, <1>3, <1>4 DEF Ranges, Reading, Over
<1>6. OneInDoubt'
  BY <1>0, <1>1, <1>3 DEF IInv, OneInDoubt, Ranges
<1>7. ReaderFits'
  <2>1. CASE pc' = "commit"
    BY <2>1, <1>0, <1>3 DEF IInv, ReaderFits, Near, InHand, Reading
  <2>2. CASE pc' = "stopped"
    BY <2>2 DEF ReaderFits, InHand, Reading
  <2>3. QED
    BY <1>4, <2>1, <2>2
<1>8. QED
  BY <1>5, <1>6, <1>7

(* A commit moves the group to the message in hand, never back. *)
LEMMA CommittedFits ==
  ASSUME IInv, pc \in {"commit", "recommit"},
         committed' = [committed EXCEPT ![hand.at] = hand.offset + 1], UNCHANGED reached
  PROVE  /\ committed' \in [Partitions -> Nat]
         /\ committed'[hand.at] = hand.offset + 1
         /\ \A q \in Partitions \ {hand.at} : committed'[q] = committed[q]
         /\ OneInDoubt'
<1>1. pc \in InHand /\ Ranges /\ reached[hand.at] >= hand.offset + 1
  BY TypeSplits DEF InHand, IInv, ReaderFits
<1>2. /\ hand.at \in Partitions /\ hand.offset \in Nat
      /\ hand.offset <= committed[hand.at] /\ committed[hand.at] <= hand.offset + 1
  BY <1>1, HandFits
<1>3. /\ committed' \in [Partitions -> Nat]
      /\ committed'[hand.at] = hand.offset + 1
      /\ \A q \in Partitions \ {hand.at} : committed'[q] = committed[q]
  BY <1>1, <1>2 DEF Ranges
<1>4. OneInDoubt'
  BY <1>1, <1>2, <1>3 DEF IInv, OneInDoubt, Ranges
<1>5. QED
  BY <1>3, <1>4

LEMMA CommitIInv ==
  ASSUME IInv, Commit \/ Recommit \/ CommitFails
  PROVE  Ranges' /\ OneInDoubt' /\ ReaderFits'
<1>0. Ranges /\ Batch \in Nat \ {0} /\ MaxAttempts \in Nat
  BY TypeSplits, BatchAssumption DEF IInv
<1>1. CASE Commit
  <2>1. /\ pc = "commit" /\ taken < Batch /\ taken' = taken + 1
        /\ UNCHANGED <<hash, ready, pos, hand, partitionOf, faults, reached>>
        /\ committed' = [committed EXCEPT ![hand.at] = hand.offset + 1]
        /\ attempts' = 0 /\ pc' = IF taken + 1 = Batch THEN "resend" ELSE "fetch"
    BY <1>1 DEF Commit, GoTo, topic, past, IInv, ReaderFits, Reading
  <2>2. /\ committed' \in [Partitions -> Nat] /\ OneInDoubt'
        /\ committed'[hand.at] = hand.offset + 1
        /\ \A q \in Partitions \ {hand.at} : committed'[q] = committed[q]
    BY <2>1, CommittedFits
  <2>3. Ranges'
    BY <2>1, <2>2, <1>0 DEF Ranges, Reading
  <2>4. ReaderFits'
    <3>1. /\ pos[hand.at] \in {hand.offset, hand.offset + 1} /\ hand.offset \in Nat
          /\ \A p \in Partitions \ {hand.at} : Near(p)
      BY <2>1, HandFits DEF IInv, ReaderFits, InHand
    <3>2. \A p \in Partitions : Near(p)'
      BY <3>1, <2>1, <2>2 DEF Near
    <3>3. pc' \in Reading => taken' < Batch
      BY <2>1, <1>0 DEF Reading, Ranges
    <3>4. pc' \notin InHand /\ pc' \notin {"commit", "recommit"}
      BY <2>1 DEF InHand
    <3>5. QED
      BY <3>2, <3>3, <3>4 DEF ReaderFits
  <2>5. QED
    BY <2>2, <2>3, <2>4
<1>2. CASE Recommit
  <2>1. /\ pc = "recommit" /\ pc' = "done"
        /\ committed' = [committed EXCEPT ![hand.at] = hand.offset + 1]
        /\ UNCHANGED <<hash, ready, pos, hand, attempts, taken, partitionOf, faults, reached>>
    BY <1>2 DEF Recommit, topic, reader, past
  <2>2. committed' \in [Partitions -> Nat] /\ OneInDoubt'
    BY <2>1, CommittedFits
  <2>3. Ranges'
    BY <2>1, <2>2, <1>0 DEF Ranges, Over
  <2>4. ReaderFits'
    BY <2>1 DEF ReaderFits, InHand, Reading
  <2>5. QED
    BY <2>2, <2>3, <2>4
<1>3. CASE CommitFails
  <2>1. /\ pc \in {"commit", "recommit"} /\ pc' \in {"stopped", "failed"}
        /\ UNCHANGED <<hash, ready, pos, hand, attempts, taken, partitionOf, faults, reached>>
        /\ \/ committed' = committed
           \/ committed' = [committed EXCEPT ![hand.at] = hand.offset + 1]
    BY <1>3 DEF CommitFails, topic, reader, past
  <2>2. committed' \in [Partitions -> Nat] /\ OneInDoubt'
    <3>1. CASE committed' = committed
      BY <3>1, <2>1, <1>0 DEF IInv, OneInDoubt, Ranges
    <3>2. CASE committed' = [committed EXCEPT ![hand.at] = hand.offset + 1]
      BY <3>2, <2>1, CommittedFits
    <3>3. QED
      BY <3>1, <3>2, <2>1
  <2>3. Ranges'
    BY <2>1, <2>2, <1>0 DEF Ranges, Over
  <2>4. ReaderFits'
    BY <2>1 DEF ReaderFits, InHand, Reading
  <2>5. QED
    BY <2>2, <2>3, <2>4
<1>4. QED
  BY <1>1, <1>2, <1>3

(* A rebalance puts the reader where the group stands, message in hand or not. *)
LEMMA RebalanceIInv ==
  ASSUME IInv, Rebalance
  PROVE  Ranges' /\ OneInDoubt' /\ ReaderFits'
<1>0. Ranges /\ MaxFaults \in Nat
  BY TypeSplits, BatchAssumption DEF IInv
<1>1. /\ pc \in Reading /\ pos' = committed /\ faults' = faults + 1 /\ faults < MaxFaults
      /\ UNCHANGED <<hash, ready, committed, pc, attempts, hand, taken, partitionOf, reached>>
  BY DEF Rebalance, topic, past
<1>2. Ranges'
  BY <1>0, <1>1 DEF Ranges
<1>3. OneInDoubt'
  BY <1>1 DEF IInv, OneInDoubt
<1>4. \A p \in Partitions : Near(p)'
  BY <1>0, <1>1 DEF Near, Ranges
<1>5. pc \in InHand => pos'[hand.at] \in {hand.offset, hand.offset + 1}
  BY <1>0, <1>1, HandFits DEF Ranges
<1>6. ReaderFits'
  BY <1>1, <1>4, <1>5 DEF IInv, ReaderFits
<1>7. QED
  BY <1>2, <1>3, <1>6

LEMMA ContextKept == ASSUME IInv, Next PROVE ctxDone' \in BOOLEAN
<1>1. ctxDone \in BOOLEAN
  BY Zenon DEF IInv, TypeOK
<1>2. CASE Expire \/ Restart
  BY <1>2, Zenon DEF Expire, Restart
<1>3. CASE UNCHANGED ctxDone
  BY <1>1, <1>3, Zenon
<1>4. QED
  BY <1>2, <1>3, Zenon
  DEF Next, createTopic, Create, CreateFails, Visible, PollAgain, PollExpires, Fail, writeMessages,
      Write, WriteAgain, WriteFails, WriteExpires, Fetching, Fetch, Refetch, FetchExpires, FetchFails,
      Consuming, Process, Commit, Recommit, CommitFails, Die, Rebalance, LeaderReady

(* Every step preserves the invariant. *)
LEMMA NextIInv == ASSUME IInv, Next PROVE IInv'
<1>1. Ranges' /\ OneInDoubt' /\ ReaderFits'
  <2>1. CASE Fetching
    BY <2>1, FetchIInv, QuietSteps, QuietIInv DEF Fetching, FetchExpires
  <2>2. CASE Consuming
    BY <2>2, ProcessIInv, CommitIInv DEF Consuming
  <2>3. CASE writeMessages
    <3>1. ASSUME NEW o \in Outcomes, Write(o)
          PROVE  Ranges' /\ OneInDoubt' /\ ReaderFits'
      <4>1. /\ UNCHANGED <<hash, ready, committed, reached>> /\ faults' \in 0 .. MaxFaults
            /\ OpenReader("fetch") \/ OpenReader("refetch")
        BY <3>1 DEF Write, past, IInv, TypeOK
      <4>2. QED
        BY <4>1, OpenIInv
    <3>2. QED
      BY <2>3, <3>1, QuietSteps, QuietIInv DEF writeMessages
  <2>4. CASE Restart
    <3>1. /\ UNCHANGED <<hash, ready, committed, reached>> /\ OpenReader("fetch")
          /\ faults' \in 0 .. MaxFaults
      BY <2>4, BatchAssumption DEF Restart, topic, past, IInv, TypeOK
    <3>2. QED
      BY <3>1, OpenIInv
  <2>5. CASE Rebalance
    BY <2>5, RebalanceIInv
  <2>6. QED
    BY <2>1, <2>2, <2>3, <2>4, <2>5, QuietSteps, QuietIInv DEF Next
<1>2. ctxDone' \in BOOLEAN
  BY ContextKept
<1>3. (TypeOK <=> Ranges /\ ctxDone \in BOOLEAN)'
  BY TypeSplits, PTL
<1>4. QED
  BY <1>1, <1>2, <1>3, Zenon DEF IInv

LEMMA InitIInv == Init => IInv
<1> SUFFICES ASSUME Init PROVE IInv
  OBVIOUS
<1>1. ctxDone \in BOOLEAN
  BY Zenon DEF Init
<1>2. /\ hash \in [Keys -> Partitions] /\ ready = {} /\ pc = "create"
      /\ committed = [p \in Partitions |-> 0] /\ pos = committed /\ reached = committed
      /\ attempts = 0 /\ hand = NoHand /\ taken = 0 /\ faults = 0
      /\ partitionOf = [k \in Keys |-> None]
  BY DEF Init
<1>3. Ranges
  BY <1>2, BatchAssumption DEF Ranges
<1>4. OneInDoubt
  <2>1. SUFFICES ASSUME NEW p \in Partitions
                 PROVE  committed[p] <= reached[p] /\ reached[p] <= committed[p] + 1
    BY DEF OneInDoubt
  <2>2. committed[p] = 0 /\ reached[p] = 0
    BY <1>2
  <2>3. 0 <= 0 /\ 0 <= 0 + 1
    OBVIOUS
  <2>4. QED
    BY <2>2, <2>3
<1>5. ReaderFits
  BY <1>2 DEF ReaderFits, Reading, InHand
<1>6. QED
  BY <1>1, <1>3, <1>4, <1>5, TypeSplits, Zenon DEF IInv

-----------------------------------------------------------------------------
(* The invariant of the offsets holds in every state. *)
THEOREM Inductive == Spec => []IInv
<1>1. IInv /\ UNCHANGED vars => IInv'
  <2> SUFFICES ASSUME IInv, UNCHANGED vars PROVE IInv'
    OBVIOUS
  <2>1. Quiet
    BY BatchAssumption DEF IInv, TypeOK, vars, topic, reader, past, Quiet
  <2>2. ctxDone' \in BOOLEAN
    BY Zenon DEF IInv, TypeOK, vars
  <2>3. (TypeOK <=> Ranges /\ ctxDone \in BOOLEAN)'
    BY TypeSplits, PTL
  <2>4. QED
    BY <2>1, <2>2, <2>3, QuietIInv, Zenon DEF IInv
<1>2. IInv /\ [Next]_vars => IInv'
  BY <1>1, NextIInv
<1>3. QED
  BY InitIInv, <1>2, PTL DEF Spec

(* Offsets, places and counters stay in their ranges. *)
THEOREM TypeCorrect == Spec => []TypeOK
<1>1. IInv => TypeOK
  BY DEF IInv
<1>2. QED
  BY <1>1, Inductive, PTL

(* Nothing is committed that was not processed, and of each partition at   *)
(* most one processed message is not committed.                            *)
THEOREM AtMostOneInDoubt == Spec => []OneInDoubt
<1>1. IInv => OneInDoubt
  BY DEF IInv
<1>2. QED
  BY <1>1, Inductive, PTL

-----------------------------------------------------------------------------
(* The order of orders.  What a set of numbers holds up to x, and          *)
(* sequences that only grow.                                               *)
Upto(S, x) == {y \in S : y <= x}
Increasing(s) == \A i, j \in DOMAIN s : i < j => s[i] < s[j]

LEMMA UptoCounts ==
  ASSUME NEW S \in SUBSET Nat, IsFiniteSet(S), NEW x \in S
  PROVE  /\ IsFiniteSet(Upto(S, x))
         /\ Cardinality(Upto(S, x)) \in 1 .. Cardinality(S)
         /\ \A y \in S : x < y => Cardinality(Upto(S, x)) < Cardinality(Upto(S, y))
<1>1. /\ Upto(S, x) \in SUBSET S /\ IsFiniteSet(Upto(S, x))
      /\ Cardinality(Upto(S, x)) \in Nat /\ Cardinality(S) \in Nat
      /\ Cardinality(Upto(S, x)) <= Cardinality(S)
  BY FS_Subset, FS_CardinalityType DEF Upto
<1>2. Cardinality(Upto(S, x)) # 0
  BY <1>1, FS_EmptySet DEF Upto
<1>3. ASSUME NEW y \in S, x < y
      PROVE  Cardinality(Upto(S, x)) < Cardinality(Upto(S, y))
  <2>1. Upto(S, y) \in SUBSET S /\ IsFiniteSet(Upto(S, y)) /\ Cardinality(Upto(S, y)) \in Nat
    BY FS_Subset, FS_CardinalityType DEF Upto
  <2>2. Upto(S, x) \in SUBSET Upto(S, y)
    <3>1. \A z \in S : z <= x => z <= y
      BY <1>3
    <3> QED
      BY <3>1 DEF Upto
  <2>3. y \in Upto(S, y) /\ y \notin Upto(S, x)
    BY <1>3 DEF Upto
  <2>4. /\ Cardinality(Upto(S, x)) <= Cardinality(Upto(S, y))
        /\ Cardinality(Upto(S, y)) = Cardinality(Upto(S, x)) => Upto(S, y) = Upto(S, x)
    BY <2>1, <2>2, FS_Subset
  <2> QED
    BY <1>1, <2>1, <2>3, <2>4
<1> QED
  BY <1>1, <1>2, <1>3

(* Every finite set of numbers has an increasing sequence: where an        *)
(* element stands in it is how many there are up to that one.              *)
LEMMA InOrderExists ==
  ASSUME NEW S \in SUBSET Nat, IsFiniteSet(S)
  PROVE  \E s \in [1 .. Cardinality(S) -> S] : Increasing(s)
<1> DEFINE n == Cardinality(S)
           f == [x \in S |-> Cardinality(Upto(S, x))]
           s == [i \in 1 .. n |-> CHOOSE x \in S : f[x] = i]
<1>1. n \in Nat /\ IsFiniteSet(1 .. n) /\ Cardinality(1 .. n) = n
  BY FS_CardinalityType, FS_Interval
<1>2. f \in [S -> 1 .. n] /\ \A x, y \in S : x < y => f[x] < f[y]
  BY UptoCounts
<1> HIDE DEF f
<1>3. f \in Injection(S, 1 .. n)
  <2>1. \A x, y \in S : f[x] = f[y] => x = y
    <3> SUFFICES ASSUME NEW x \in S, NEW y \in S, x # y
                 PROVE  f[x] # f[y]
      OBVIOUS
    <3>1. x < y \/ y < x
      OBVIOUS
    <3>2. f[x] \in 1 .. n /\ f[y] \in 1 .. n
      BY <1>2
    <3> QED
      BY <1>1, <1>2, <3>1, <3>2
  <2> QED
    BY <1>2, <2>1, Fun_IsInj
<1>4. f \in Surjection(S, 1 .. n)
  BY <1>1, <1>3, FS_Injection
<1>5. \A i \in 1 .. n : \E x \in S : f[x] = i
  BY <1>4 DEF Surjection
<1>6. \A i \in 1 .. n : s[i] \in S /\ f[s[i]] = i
  BY <1>5
<1>7. s \in [1 .. n -> S]
  BY <1>6
<1> HIDE DEF s
<1>8. ASSUME NEW i \in 1 .. n, NEW j \in 1 .. n, i < j
      PROVE  s[i] < s[j]
  <2>1. s[i] \in Nat /\ s[j] \in Nat /\ s[i] \in S /\ s[j] \in S
    BY <1>6
  <2>2. CASE s[j] < s[i]
    <3>1. f[s[j]] < f[s[i]]
      BY <1>2, <2>1, <2>2
    <3> QED
      BY <1>6, <1>8, <3>1
  <2>3. CASE s[j] = s[i]
    BY <1>6, <1>8, <2>3
  <2> QED
    BY <2>1, <2>2, <2>3
<1> QED
  BY <1>7, <1>8 DEF Increasing

(* The sequence of a set has its elements, each once.                      *)
LEMMA InOrderFits ==
  ASSUME NEW S \in SUBSET Nat, IsFiniteSet(S)
  PROVE  /\ InOrder(S) \in Seq(S) /\ Len(InOrder(S)) = Cardinality(S)
         /\ Increasing(InOrder(S))
         /\ \A x \in S : \E i \in 1 .. Len(InOrder(S)) : InOrder(S)[i] = x
<1> DEFINE n == Cardinality(S)
           s == InOrder(S)
<1>1. n \in Nat /\ IsFiniteSet(1 .. n) /\ Cardinality(1 .. n) = n
  BY FS_CardinalityType, FS_Interval
<1>2. s \in [1 .. n -> S] /\ Increasing(s)
  BY InOrderExists DEF InOrder, Increasing
<1> HIDE DEF s
<1>3. s \in Seq(S) /\ Len(s) = n
  BY <1>1, <1>2
<1>4. s \in Injection(1 .. n, S)
  <2>1. \A i, j \in 1 .. n : s[i] = s[j] => i = j
    <3> SUFFICES ASSUME NEW i \in 1 .. n, NEW j \in 1 .. n, i < j
                 PROVE  s[i] # s[j]
      OBVIOUS
    <3>1. s[i] < s[j] /\ s[i] \in Nat /\ s[j] \in Nat
      BY <1>2 DEF Increasing
    <3> QED
      BY <3>1
  <2> QED
    BY <1>2, <2>1, Fun_IsInj
<1>5. s \in Surjection(1 .. n, S)
  BY <1>1, <1>4, FS_Injection
<1>6. \A x \in S : \E i \in 1 .. n : s[i] = x
  BY <1>5 DEF Surjection
<1> QED
  BY <1>2, <1>3, <1>6 DEF s

-----------------------------------------------------------------------------
(* The order of a key.  What is in a log, at any place, is preceded by the *)
(* earlier orders of its key, because the balancer sends them to the same  *)
(* partition and a batch is only written again as a whole.                 *)
Has(s, m)    == \E j \in 1 .. Len(s) : s[j] = m
Before(s, i) == \A m \in 1 .. s[i] - 1 :
                  KeyOf[m] = KeyOf[s[i]] => \E j \in 1 .. i - 1 : s[j] = m

LogFits ==
  \A p \in Partitions :
    /\ log[p] \in Seq(Orders)
    /\ \A i \in 1 .. Len(log[p]) : hash[KeyOf[log[p][i]]] = p /\ Before(log[p], i)

(* A consumer has started, so the batch is stored.                         *)
Started == Reading \cup {"stopped", "resend", "refetch", "recommit", "done"}
BatchStored ==
  pc \in Started => \A i \in 1 .. Batch : Has(log[hash[KeyOf[i]]], i)

(* What was reached has been heard, and is in the log.                     *)
HeardFits ==
  /\ byKey \in [Keys -> Seq(Orders)]
  /\ \A k \in Keys : \A i \in 1 .. Len(byKey[k]) :
       KeyOf[byKey[k][i]] = k /\ Before(byKey[k], i)
  /\ \A p \in Partitions :
       /\ reached[p] <= Len(log[p])
       /\ \A i \in 1 .. reached[p] : Has(byKey[KeyOf[log[p][i]]], log[p][i])
  /\ pc \in InHand => hand.offset < Len(log[hand.at])

OrderInv == LogFits /\ BatchStored /\ HeardFits

(* Joining to s a sequence whose orders come after those of their key that *)
(* s has, or that the sequence has before them.                            *)
LEMMA JoinKeepsOrder ==
  ASSUME NEW s \in Seq(Orders), NEW t \in Seq(Orders),
         \A i \in 1 .. Len(s) : Before(s, i),
         \A i \in 1 .. Len(t) : \A m \in 1 .. t[i] - 1 : KeyOf[m] = KeyOf[t[i]] =>
           Has(s, m) \/ \E j \in 1 .. i - 1 : t[j] = m
  PROVE  \A i \in 1 .. Len(s \o t) : Before(s \o t, i)
<1> DEFINE u == s \o t
<1>1. /\ Len(s) \in Nat /\ Len(t) \in Nat /\ Len(u) = Len(s) + Len(t)
      /\ \A i \in 1 .. Len(s) : u[i] = s[i]
      /\ \A i \in 1 .. Len(t) : u[Len(s) + i] = t[i]
  OBVIOUS
<1> HIDE DEF u
<1> SUFFICES ASSUME NEW i \in 1 .. Len(u), NEW m \in 1 .. u[i] - 1, KeyOf[m] = KeyOf[u[i]]
             PROVE  \E j \in 1 .. i - 1 : u[j] = m
  BY DEF Before, u
<1>2. CASE i \in 1 .. Len(s)
  <2>1. PICK j \in 1 .. i - 1 : s[j] = m
    BY <1>1, <1>2 DEF Before
  <2>2. u[j] = m
    BY <1>1, <1>2, <2>1
  <2> QED
    BY <2>2
<1>3. ASSUME NEW k \in 1 .. Len(t), i = Len(s) + k
      PROVE  \E j \in 1 .. i - 1 : u[j] = m
  <2>1. u[i] = t[k]
    BY <1>1, <1>3
  <2>2. Has(s, m) \/ \E j \in 1 .. k - 1 : t[j] = m
    BY <2>1
  <2>3. ASSUME NEW j \in 1 .. Len(s), s[j] = m
        PROVE  \E l \in 1 .. i - 1 : u[l] = m
    <3>1. j \in 1 .. i - 1 /\ u[j] = m
      BY <1>1, <1>3, <2>3
    <3> QED
      BY <3>1
  <2>4. ASSUME NEW j \in 1 .. k - 1, t[j] = m
        PROVE  \E l \in 1 .. i - 1 : u[l] = m
    <3>1. j \in 1 .. Len(t) /\ Len(s) + j \in 1 .. i - 1
      BY <1>1, <1>3
    <3>2. u[Len(s) + j] = m
      BY <1>1, <2>4, <3>1
    <3> QED
      BY <3>1, <3>2
  <2> QED
    BY <2>2, <2>3, <2>4 DEF Has
<1>4. i \in 1 .. Len(s) \/ \E k \in 1 .. Len(t) : i = Len(s) + k
  <2>1. CASE i > Len(s)
    <3>1. i - Len(s) \in 1 .. Len(t) /\ i = Len(s) + (i - Len(s))
      BY <1>1, <2>1
    <3> QED
      BY <3>1
  <2>2. CASE ~(i > Len(s))
    BY <1>1, <2>2
  <2> QED
    BY <2>1, <2>2
<1> QED
  BY <1>2, <1>3, <1>4

(* A share is what the balancer sends to the partition, in order.          *)
LEMMA ShareFits ==
  ASSUME NEW p \in Partitions
  PROVE  LET t == Share(p) IN
         /\ t \in Seq(Orders)
         /\ \A i \in 1 .. Len(t) : t[i] \in Written /\ hash[KeyOf[t[i]]] = p
         /\ \A i, j \in 1 .. Len(t) : i < j => t[i] < t[j]
         /\ \A m \in Written : hash[KeyOf[m]] = p => Has(t, m)
<1> DEFINE S == {i \in Written : Balance(i) = p}
           t == Share(p)
<1>1. S \in SUBSET Nat /\ S \in SUBSET Orders /\ IsFiniteSet(S)
  <2>1. S \in SUBSET Orders /\ Orders \in SUBSET Nat
    BY BatchAssumption DEF Written, Orders, New
  <2>2. IsFiniteSet(Orders)
    BY BatchAssumption, FS_Interval DEF Orders
  <2> QED
    BY <2>1, <2>2, FS_Subset
<1>2. t = InOrder(S)
  BY DEF Share
<1> HIDE DEF t, S
<1>3. /\ t \in Seq(S) /\ Increasing(t)
      /\ \A x \in S : \E i \in 1 .. Len(t) : t[i] = x
  BY <1>1, <1>2, InOrderFits
<1>4. DOMAIN t = 1 .. Len(t) /\ \A i \in 1 .. Len(t) : t[i] \in S
  BY <1>3
<1>5. t \in Seq(Orders)
  <2>1. Len(t) \in Nat /\ t \in [1 .. Len(t) -> S]
    BY <1>3
  <2>2. \A i \in 1 .. Len(t) : t[i] \in Orders
    BY <1>1, <1>4
  <2>3. t \in [1 .. Len(t) -> Orders]
    BY <2>1, <2>2
  <2> QED
    BY <2>1, <2>3
<1>6. \A i \in 1 .. Len(t) : t[i] \in Written /\ hash[KeyOf[t[i]]] = p
  BY <1>4 DEF S, Balance
<1>7. \A m \in Written : hash[KeyOf[m]] = p => Has(t, m)
  BY <1>3 DEF S, Balance, Has
<1>8. \A i, j \in 1 .. Len(t) : i < j => t[i] < t[j]
  BY <1>3, <1>4 DEF Increasing
<1> QED
  BY <1>5, <1>6, <1>7, <1>8 DEF t

(* What a write leaves in the logs.                                        *)
LEMMA StoresFit ==
  ASSUME IInv, LogFits, BatchStored, pc \in {"produce", "resend"}, NEW o \in Outcomes
  PROVE  LET L == Stores(o) IN
         /\ \A p \in Partitions :
              /\ L[p] \in Seq(Orders)
              /\ \A i \in 1 .. Len(L[p]) : hash[KeyOf[L[p][i]]] = p /\ Before(L[p], i)
              /\ Len(log[p]) \in Nat /\ Len(log[p]) <= Len(L[p])
              /\ \A i \in 1 .. Len(log[p]) : L[p][i] = log[p][i]
              /\ \A i \in 1 .. Len(L[p]) : L[p][i] \in Written \/ Has(log[p], L[p][i])
         /\ Acknowledged(o) => \A m \in Written : Has(L[hash[KeyOf[m]]], m)
<1> DEFINE L == Stores(o)
<1>1. \A p \in Partitions : L[p] = log[p] \/ L[p] = log[p] \o Share(p)
  BY DEF Stores
<1>2. \A p \in Targets : Acknowledged(o) => L[p] = log[p] \o Share(p)
  <2>1. \A p \in Targets : p \in Partitions
    BY BatchAssumption DEF Targets, Balance, Written, IInv, TypeOK, Orders, New
  <2> QED
    BY <2>1 DEF Stores, Acknowledged
<1> HIDE DEF L
<1>3. ASSUME NEW p \in Partitions
      PROVE  /\ log[p] \o Share(p) \in Seq(Orders)
             /\ \A i \in 1 .. Len(log[p] \o Share(p)) :
                  hash[KeyOf[(log[p] \o Share(p))[i]]] = p /\ Before(log[p] \o Share(p), i)
             /\ Len(log[p]) \in Nat /\ Len(log[p]) <= Len(log[p] \o Share(p))
             /\ \A i \in 1 .. Len(log[p]) : (log[p] \o Share(p))[i] = log[p][i]
             /\ \A m : Has(Share(p), m) => Has(log[p] \o Share(p), m)
             /\ \A i \in 1 .. Len(log[p] \o Share(p)) :
                  \/ (log[p] \o Share(p))[i] \in Written
                  \/ Has(log[p], (log[p] \o Share(p))[i])
  <2> DEFINE s == log[p]
             t == Share(p)
  <2>1. /\ s \in Seq(Orders)
        /\ \A i \in 1 .. Len(s) : hash[KeyOf[s[i]]] = p /\ Before(s, i)
    BY DEF LogFits
  <2>2. /\ t \in Seq(Orders)
        /\ \A i \in 1 .. Len(t) : t[i] \in Written /\ hash[KeyOf[t[i]]] = p
        /\ \A i, j \in 1 .. Len(t) : i < j => t[i] < t[j]
        /\ \A m \in Written : hash[KeyOf[m]] = p => Has(t, m)
    BY ShareFits
  <2> HIDE DEF t, s
  <2>3. ASSUME NEW i \in 1 .. Len(t), NEW m \in 1 .. t[i] - 1, KeyOf[m] = KeyOf[t[i]]
        PROVE  Has(s, m) \/ \E j \in 1 .. i - 1 : t[j] = m
    <3>1. t[i] \in Orders /\ t[i] \in Written /\ hash[KeyOf[m]] = p
      BY <2>2, <2>3
    <3>2. m \in 1 .. Batch
      BY <3>1, BatchAssumption DEF Orders
    <3>3. CASE pc = "resend"
      <4>1. Has(log[hash[KeyOf[m]]], m)
        BY <3>2, <3>3 DEF BatchStored, Started
      <4> QED
        BY <3>1, <4>1 DEF s
    <3>4. CASE pc # "resend"
      <4>1. PICK j \in 1 .. Len(t) : t[j] = m
        BY <2>2, <3>1, <3>2, <3>4 DEF Written, Has
      <4>2. Len(t) \in Nat /\ t[i] \in Nat
        BY <2>2, <3>1, BatchAssumption DEF Orders
      <4>3. j < i
        <5>1. j # i /\ ~(i < j)
          BY <2>2, <4>1, <4>2
        <5> QED
          BY <4>2, <5>1
      <4> QED
        BY <4>1, <4>3
    <3> QED
      BY <3>3, <3>4
  <2>4. \A i \in 1 .. Len(s \o t) : Before(s \o t, i)
    BY <2>1, <2>2, <2>3, JoinKeepsOrder
  <2>5. /\ s \o t \in Seq(Orders) /\ Len(s) \in Nat /\ Len(t) \in Nat
        /\ Len(s \o t) = Len(s) + Len(t)
        /\ \A i \in 1 .. Len(s) : (s \o t)[i] = s[i]
        /\ \A i \in 1 .. Len(t) : (s \o t)[Len(s) + i] = t[i]
    BY <2>1, <2>2
  <2>6. \A i \in 1 .. Len(s \o t) : /\ hash[KeyOf[(s \o t)[i]]] = p
                                    /\ (s \o t)[i] \in Written \/ Has(s, (s \o t)[i])
    <3>1. \A i \in 1 .. Len(s \o t) : i \in 1 .. Len(s) \/
            (i - Len(s) \in 1 .. Len(t) /\ i = Len(s) + (i - Len(s)))
      BY <2>5
    <3>2. \A i \in 1 .. Len(s \o t) :
            \/ (s \o t)[i] = s[i] /\ i \in 1 .. Len(s)
            \/ \E k \in 1 .. Len(t) : (s \o t)[i] = t[k]
      BY <2>5, <3>1
    <3> QED
      BY <2>1, <2>2, <3>2 DEF Has
  <2>7. \A m : Has(t, m) => Has(s \o t, m)
    <3>1. \A i \in 1 .. Len(t) : Len(s) + i \in 1 .. Len(s \o t)
      BY <2>5
    <3> QED
      BY <2>5, <3>1 DEF Has
  <2> QED
    BY <2>4, <2>5, <2>6, <2>7 DEF s, t
<1>4. Acknowledged(o) => \A m \in Written : Has(L[hash[KeyOf[m]]], m)
  <2> SUFFICES ASSUME Acknowledged(o), NEW m \in Written
               PROVE  Has(L[hash[KeyOf[m]]], m)
    OBVIOUS
  <2>1. hash[KeyOf[m]] \in Targets /\ hash[KeyOf[m]] \in Partitions
    BY BatchAssumption DEF Targets, Balance, Written, IInv, TypeOK, Orders, New
  <2>2. Has(Share(hash[KeyOf[m]]), m)
    BY <2>1, ShareFits
  <2> QED
    BY <1>2, <1>3, <2>1, <2>2
<1>5. ASSUME NEW p \in Partitions
      PROVE  /\ L[p] \in Seq(Orders)
             /\ \A i \in 1 .. Len(L[p]) : hash[KeyOf[L[p][i]]] = p /\ Before(L[p], i)
             /\ Len(log[p]) \in Nat /\ Len(log[p]) <= Len(L[p])
             /\ \A i \in 1 .. Len(log[p]) : L[p][i] = log[p][i]
             /\ \A i \in 1 .. Len(L[p]) : L[p][i] \in Written \/ Has(log[p], L[p][i])
  <2>1. CASE L[p] = log[p]
    BY <2>1 DEF LogFits, Has
  <2>2. CASE L[p] = log[p] \o Share(p)
    BY <1>3, <2>2
  <2> QED
    BY <1>1, <2>1, <2>2
<1> QED
  BY <1>4, <1>5 DEF L

(* Writing keeps the order of the logs and moves nothing in them.          *)
LEMMA WriteOrder ==
  ASSUME IInv, OrderInv, NEW o \in Outcomes, Write(o) \/ WriteAgain(o) \/ WriteFails(o)
  PROVE  OrderInv'
<1>1. /\ pc \in {"produce", "resend"} /\ log' = Stores(o) /\ hash' = hash
      /\ UNCHANGED <<reached, byKey>>
      /\ pc' \in Started => Acknowledged(o) \/ pc = "resend"
      /\ pc' \notin InHand
  BY DEF Write, WriteAgain, WriteFails, OpenReader, GoTo, past, Started, InHand, Reading
<1>2. ASSUME NEW p \in Partitions
      PROVE  /\ log'[p] \in Seq(Orders)
             /\ \A i \in 1 .. Len(log'[p]) : hash[KeyOf[log'[p][i]]] = p /\ Before(log'[p], i)
             /\ Len(log[p]) \in Nat /\ Len(log[p]) <= Len(log'[p])
             /\ \A i \in 1 .. Len(log[p]) : log'[p][i] = log[p][i]
  BY <1>1, StoresFit DEF OrderInv
<1>3. LogFits'
  BY <1>1, <1>2 DEF LogFits
<1>4. BatchStored'
  <2> SUFFICES ASSUME pc' \in Started, NEW i \in 1 .. Batch
               PROVE  Has(log'[hash[KeyOf[i]]], i)
    BY <1>1 DEF BatchStored
  <2>1. hash[KeyOf[i]] \in Partitions
    BY BatchAssumption DEF IInv, TypeOK
  <2>2. CASE pc = "resend"
    <3>1. Has(log[hash[KeyOf[i]]], i)
      BY <2>2 DEF OrderInv, BatchStored, Started
    <3>2. \A j \in 1 .. Len(log[hash[KeyOf[i]]]) :
             j \in 1 .. Len(log'[hash[KeyOf[i]]]) /\ log'[hash[KeyOf[i]]][j] = log[hash[KeyOf[i]]][j]
      <4>1. Len(log'[hash[KeyOf[i]]]) \in Nat
        BY <1>2, <2>1
      <4> QED
        BY <1>2, <2>1, <4>1
    <3> QED
      BY <3>1, <3>2 DEF Has
  <2>3. CASE pc # "resend"
    BY <1>1, <2>3, StoresFit DEF Written, OrderInv
  <2> QED
    BY <2>2, <2>3
<1>5. HeardFits'
  <2>1. ASSUME NEW p \in Partitions
        PROVE  /\ reached[p] <= Len(log'[p])
               /\ \A i \in 1 .. reached[p] : Has(byKey[KeyOf[log'[p][i]]], log'[p][i])
    <3>1. /\ reached[p] \in Nat /\ reached[p] <= Len(log[p])
          /\ \A i \in 1 .. reached[p] : Has(byKey[KeyOf[log[p][i]]], log[p][i])
      BY DEF OrderInv, HeardFits, IInv, TypeOK
    <3>2. /\ Len(log[p]) \in Nat /\ Len(log'[p]) \in Nat /\ Len(log[p]) <= Len(log'[p])
          /\ \A i \in 1 .. Len(log[p]) : log'[p][i] = log[p][i]
      BY <1>2
    <3>3. \A i \in 1 .. reached[p] : i \in 1 .. Len(log[p])
      BY <3>1, <3>2
    <3>4. \A i \in 1 .. reached[p] : log'[p][i] = log[p][i]
      BY <3>2, <3>3
    <3> QED
      BY <3>1, <3>2, <3>4
  <2> QED
    BY <1>1, <2>1 DEF OrderInv, HeardFits
<1> QED
  BY <1>3, <1>4, <1>5 DEF OrderInv

(* A message is processed next after one that was, or again.               *)
LEMMA HeardOrder ==
  ASSUME IInv, OrderInv, NEW h, h.at \in Partitions, h.offset \in Nat,
         h.offset < Len(log[h.at]), h.offset <= reached[h.at], Heard(h),
         UNCHANGED <<hash, log>>, pc' \in InHand => hand' = h,
         pc' \in Started => pc \in Started
  PROVE  OrderInv'
<1> DEFINE p == h.at
           n == h.offset + 1
           x == log[p][n]
           k == KeyOf[x]
<1>1. /\ log[p] \in Seq(Orders) /\ Len(log[p]) \in Nat /\ n \in 1 .. Len(log[p])
      /\ x \in Orders /\ k \in Keys
      /\ hash[k] = p /\ Before(log[p], n)
  <2>1. log[p] \in Seq(Orders) /\ Len(log[p]) \in Nat /\ n \in 1 .. Len(log[p])
    BY DEF OrderInv, LogFits
  <2>2. x \in Orders
    BY <2>1
  <2>3. k \in Keys
    <3> HIDE DEF x
    <3> QED
      BY <2>2, BatchAssumption DEF Orders
  <2>4. hash[KeyOf[log[p][n]]] = p /\ Before(log[p], n)
    <3>1. ASSUME NEW i \in 1 .. Len(log[p])
          PROVE  hash[KeyOf[log[p][i]]] = p /\ Before(log[p], i)
      BY DEF OrderInv, LogFits
    <3> HIDE DEF n
    <3> QED
      BY <2>1, <3>1
  <2> QED
    BY <2>1, <2>2, <2>3, <2>4
<1>2. /\ byKey[k] \in Seq(Orders) /\ Len(byKey[k]) \in Nat
      /\ \A i \in 1 .. Len(byKey[k]) : KeyOf[byKey[k][i]] = k /\ Before(byKey[k], i)
  <2>1. ASSUME NEW l \in Keys
        PROVE  /\ byKey[l] \in Seq(Orders) /\ Len(byKey[l]) \in Nat
               /\ \A i \in 1 .. Len(byKey[l]) : KeyOf[byKey[l][i]] = l /\ Before(byKey[l], i)
    <3>1. byKey[l] \in Seq(Orders)
      BY DEF OrderInv, HeardFits
    <3>2. Len(byKey[l]) \in Nat
      BY <3>1
    <3> QED
      BY <3>1, <3>2 DEF OrderInv, HeardFits
  <2>2. k \in Keys
    BY <1>1
  <2> HIDE DEF k
  <2> QED
    BY <2>1, <2>2
<1>3. /\ byKey' = [byKey EXCEPT ![k] = Append(byKey[k], x)]
      /\ DOMAIN byKey = Keys
  BY DEF Heard, OrderKey, Order, OrderInv, HeardFits
<1>4. /\ reached' = [reached EXCEPT ![p] = IF reached[p] > h.offset THEN reached[p] ELSE n]
      /\ reached \in [Partitions -> Nat]
  BY DEF Heard, IInv, TypeOK
<1>5. \A q \in Partitions : /\ reached'[q] \in Nat
                            /\ q # p => reached'[q] = reached[q]
                            /\ reached'[q] = reached[q] \/ (q = p /\ reached'[q] = n)
                            /\ q = p /\ reached'[q] = n => reached[q] = n \/ reached[q] = h.offset
  BY <1>4
<1> HIDE DEF x, k, n, p
<1>6. Append(byKey[k], x) \in Seq(Orders) /\ Len(Append(byKey[k], x)) = Len(byKey[k]) + 1
  BY <1>1, <1>2
<1>7. \A i \in 1 .. Len(byKey[k]) : Append(byKey[k], x)[i] = byKey[k][i]
  BY <1>1, <1>2
<1>8. Append(byKey[k], x)[Len(byKey[k]) + 1] = x
  BY <1>1, <1>2
<1> DEFINE s == Append(byKey[k], x)
<1> HIDE DEF s
<1>9. ASSUME NEW i \in 1 .. Len(byKey[k]) + 1
      PROVE  KeyOf[s[i]] = k /\ Before(s, i)
  <2>1. CASE i \in 1 .. Len(byKey[k])
    <3>1. s[i] = byKey[k][i] /\ \A j \in 1 .. i - 1 : s[j] = byKey[k][j]
      BY <1>2, <1>7, <2>1 DEF s
    <3>2. KeyOf[byKey[k][i]] = k /\ Before(byKey[k], i)
      BY <1>2, <2>1
    <3> QED
      BY <3>1, <3>2 DEF Before
  <2>2. CASE i = Len(byKey[k]) + 1
    <3>1. s[i] = x
      BY <1>8, <2>2 DEF s
    <3>2. ASSUME NEW m \in 1 .. x - 1, KeyOf[m] = k
          PROVE  \E j \in 1 .. i - 1 : s[j] = m
      <4>1. PICK j \in 1 .. n - 1 : log[p][j] = m
        BY <1>1, <3>2 DEF Before, x, k
      <4>2. j \in 1 .. reached[p]
        BY <4>1 DEF n, p, IInv, TypeOK
      <4>3. Has(byKey[KeyOf[log[p][j]]], log[p][j])
        BY <4>2 DEF OrderInv, HeardFits, p
      <4>4. Has(byKey[k], m)
        BY <3>2, <4>1, <4>3
      <4> QED
        BY <1>2, <1>7, <2>2, <4>4 DEF Has, s
    <3> QED
      BY <3>1, <3>2 DEF Before, k
  <2> QED
    BY <1>2, <2>1, <2>2
<1>10. ASSUME NEW l \in Keys
       PROVE  /\ byKey'[l] \in Seq(Orders)
              /\ \A i \in 1 .. Len(byKey'[l]) : KeyOf[byKey'[l][i]] = l /\ Before(byKey'[l], i)
              /\ \A m : Has(byKey[l], m) => Has(byKey'[l], m)
  <2>1. CASE l # k
    <3>1. byKey'[l] = byKey[l]
      BY <1>3, <2>1
    <3> QED
      BY <3>1 DEF OrderInv, HeardFits
  <2>2. CASE l = k
    <3>1. byKey'[l] = s
      BY <1>3, <2>2 DEF s
    <3>2. s \in Seq(Orders) /\ Len(s) = Len(byKey[k]) + 1
      BY <1>6 DEF s
    <3>3. \A m : Has(byKey[k], m) => Has(s, m)
      BY <1>2, <1>7, <3>2 DEF Has, s
    <3> QED
      BY <1>9, <2>2, <3>1, <3>2, <3>3
  <2> QED
    BY <2>1, <2>2
<1>11. Has(byKey'[k], x)
  <2>1. byKey'[k] = s
    BY <1>1, <1>3 DEF s
  <2>2. s[Len(byKey[k]) + 1] = x /\ Len(byKey[k]) + 1 \in 1 .. Len(s)
    BY <1>2, <1>6, <1>8 DEF s
  <2> QED
    BY <2>1, <2>2 DEF Has
<1>12. ASSUME NEW q \in Partitions
       PROVE  /\ reached'[q] <= Len(log[q])
              /\ \A i \in 1 .. reached'[q] : Has(byKey'[KeyOf[log[q][i]]], log[q][i])
  <2>1. /\ reached[q] \in Nat /\ reached[q] <= Len(log[q]) /\ Len(log[q]) \in Nat
        /\ \A i \in 1 .. reached[q] : /\ Has(byKey[KeyOf[log[q][i]]], log[q][i])
                                     /\ log[q][i] \in Orders
    BY DEF OrderInv, HeardFits, LogFits, IInv, TypeOK
  <2>2. \A i \in 1 .. reached[q] : Has(byKey'[KeyOf[log[q][i]]], log[q][i])
    BY <1>10, <2>1, BatchAssumption DEF Orders
  <2>3. CASE reached'[q] = reached[q]
    BY <2>1, <2>2, <2>3
  <2>4. CASE q = p /\ reached'[q] = n
    <3>1. n \in 1 .. Len(log[q]) /\ \A i \in 1 .. n : i = n \/ i \in 1 .. reached[q]
      BY <1>1, <1>5, <2>1, <2>4 DEF n
    <3>2. Has(byKey'[KeyOf[log[q][n]]], log[q][n])
      BY <1>11, <2>4 DEF x, k
    <3> QED
      BY <2>2, <2>4, <3>1, <3>2
  <2> QED
    BY <1>5, <2>3, <2>4
<1>13. HeardFits'
  <2>1. byKey' \in [Keys -> Seq(Orders)]
    BY <1>3, <1>10
  <2> QED
    BY <2>1, <1>10, <1>12 DEF HeardFits
<1>14. LogFits' /\ BatchStored'
  BY DEF OrderInv, LogFits, BatchStored
<1> QED
  BY <1>13, <1>14 DEF OrderInv

(* Fetching takes what is in the log, and the rest leaves both alone.      *)
LEMMA OtherOrder ==
  ASSUME OrderInv, UNCHANGED <<hash, log, past>>, pc' \in Started => pc \in Started,
         pc' \in InHand => \/ hand' = hand /\ pc \in InHand
                          \/ hand'.offset < Len(log[hand'.at])
  PROVE  OrderInv'
BY DEF OrderInv, LogFits, BatchStored, HeardFits, past

LEMMA NextOrder == ASSUME IInv, OrderInv, [Next]_vars PROVE OrderInv'
<1> USE DEF topic, reader, past, Started, InHand, Reading, Over, Fail, GoTo
<1>1. CASE createTopic \/ WriteExpires \/ UNCHANGED vars
  <2>1. /\ UNCHANGED <<hash, log, past, hand>>
        /\ pc' = pc \/ pc' \in {"poll", "produce", "failed"}
    BY <1>1 DEF createTopic, Create, CreateFails, Visible, PollAgain, PollExpires, WriteExpires, vars
  <2> QED
    BY <2>1, OtherOrder
<1>2. ASSUME NEW o \in Outcomes, Write(o) \/ WriteAgain(o) \/ WriteFails(o)
      PROVE  OrderInv'
  BY <1>2, WriteOrder
<1>3. ASSUME NEW p \in Partitions, Fetch(p)
      PROVE  OrderInv'
  <2>1. hand'.at = p /\ hand'.offset = pos[p]
    BY <1>3 DEF Fetch
  <2> QED
    BY <1>3, <2>1, OtherOrder DEF Fetch
<1>4. ASSUME NEW p \in Partitions, Refetch(p)
      PROVE  OrderInv'
  <2> DEFINE h == [at |-> p, offset |-> pos[p]]
  <2>1. h.at = p /\ h.offset = pos[p] /\ hand' = h /\ Heard(h)
    BY <1>4 DEF Refetch
  <2>2. pos[p] \in Nat /\ pos[p] < Len(log[p]) /\ pos[p] <= reached[p]
    BY <1>4 DEF Refetch, IInv, TypeOK, ReaderFits, Near, OneInDoubt
  <2>3. UNCHANGED <<hash, log>> /\ pc \in Started
    BY <1>4 DEF Refetch
  <2> HIDE DEF h
  <2> QED
    BY <2>1, <2>2, <2>3, HeardOrder
<1>5. CASE Process
  <2>1. /\ pc \in InHand /\ pc \in Started /\ Heard(hand)
        /\ UNCHANGED <<hash, log, hand>>
    BY <1>5 DEF Process
  <2>2. /\ hand.at \in Partitions /\ hand.offset \in Nat /\ hand.offset <= committed[hand.at]
    BY <2>1, HandFits
  <2>3. hand.offset <= reached[hand.at]
    BY <2>2 DEF IInv, TypeOK, OneInDoubt
  <2>4. hand.offset < Len(log[hand.at])
    BY <2>1 DEF OrderInv, HeardFits
  <2> QED
    BY <2>1, <2>2, <2>3, <2>4, HeardOrder
<1>6. CASE Commit \/ Recommit \/ CommitFails \/ FetchFails \/ FetchExpires \/ Die
  <2>1. /\ UNCHANGED <<hash, log, past, hand>> /\ pc \in Started /\ pc' \notin InHand
    BY <1>6 DEF Commit, Recommit, CommitFails, FetchFails, FetchExpires, Die
  <2> QED
    BY <2>1, OtherOrder
<1>7. CASE Restart \/ Rebalance
  <2>1. /\ UNCHANGED <<hash, log, past>> /\ pc \in Started
        /\ pc' \in InHand => hand' = hand /\ pc \in InHand
    BY <1>7 DEF Restart, OpenReader, Rebalance
  <2> QED
    BY <2>1, OtherOrder
<1>8. CASE Expire \/ \E p \in Partitions : LeaderReady(p)
  <2>1. UNCHANGED <<hash, log, past, hand, pc>>
    BY <1>8 DEF Expire, LeaderReady
  <2> QED
    BY <2>1, OtherOrder
<1> QED
  BY <1>1, <1>2, <1>3, <1>4, <1>5, <1>6, <1>7, <1>8
  DEF Next, writeMessages, Fetching, Consuming

LEMMA InitOrder == ASSUME Init PROVE OrderInv
<1>1. <<>> \in Seq(Orders) /\ Len(<<>>) = 0
  OBVIOUS
<1>2. LogFits /\ BatchStored
  BY <1>1 DEF Init, LogFits, BatchStored, Started, Reading
<1>3. HeardFits
  BY <1>1 DEF Init, HeardFits, InHand
<1> QED
  BY <1>2, <1>3 DEF OrderInv

(* Order holds per key (produce's comment): no order is processed before   *)
(* an earlier order of its key has been, for any balance of the keys, any  *)
(* order in which the leaders appear, any retry of the batch and any       *)
(* restart.                                                                *)
THEOREM OrdersOfAKeyInOrder == Spec => []KeysInOrder
<1>1. OrderInv => KeysInOrder
  <2> SUFFICES ASSUME OrderInv, NEW k \in Keys, NEW i \in DOMAIN byKey[k],
                      NEW m \in 1 .. byKey[k][i] - 1, KeyOf[m] = k
               PROVE  \E j \in 1 .. i - 1 : byKey[k][j] = m
    BY DEF KeysInOrder
  <2>1. byKey[k] \in Seq(Orders)
    BY DEF OrderInv, HeardFits
  <2>2. i \in 1 .. Len(byKey[k])
    BY <2>1
  <2> QED
    BY <2>2 DEF OrderInv, HeardFits, Before
<1>2. Init => OrderInv
  BY InitOrder
<1>3. IInv /\ OrderInv /\ [Next]_vars => OrderInv'
  BY NextOrder
<1> QED
  BY <1>1, <1>2, <1>3, Inductive, PTL DEF Spec

-----------------------------------------------------------------------------
(* A run that nothing disturbs.  What was processed, and where the reader  *)
(* and the group are when no message was stored twice and no consumer was  *)
(* started again.                                                          *)
Processed == {m \in Orders : \E p \in Partitions : \E j \in 1 .. reached[p] : log[p][j] = m}

HeardOnce ==
  \A k \in Keys : \A i \in 1 .. Len(byKey[k]) :
    /\ byKey[k][i] \in Processed
    /\ \A j \in 1 .. Len(byKey[k]) : byKey[k][i] = byKey[k][j] => i = j

NothingInDoubt ==
  /\ pc \in {"create", "poll", "produce", "fetch", "process", "resend", "refetch"} =>
       \A p \in Partitions : committed[p] = reached[p]
  /\ pc \in {"fetch", "refetch"} => \A p \in Partitions : pos[p] = reached[p]
  /\ pc = "process" => hand.offset = reached[hand.at]
  /\ pc = "commit"  => hand.offset + 1 = reached[hand.at]
  /\ pc \in {"process", "commit"} =>
       /\ pos[hand.at] = hand.offset + 1
       /\ \A p \in Partitions \ {hand.at} : pos[p] = reached[p] /\ committed[p] = reached[p]

BatchCounted ==
  /\ pc \in {"create", "poll", "produce"} => Processed = {}
  /\ pc \in {"fetch", "process"} => Cardinality(Processed) = taken
  /\ pc = "commit" => Cardinality(Processed) = taken + 1
  /\ pc \in {"create", "poll", "produce"} \cup Reading =>
       \A p \in Partitions : ~Has(log[p], New)
  /\ pc \in {"resend", "refetch"} => 1 .. Batch \subseteq Processed
  /\ pc \in {"recommit", "done"} => Processed = Orders /\ Order(hand) = New

Clean    == StoredOnce /\ faults = 0
CleanInv == Clean => HeardOnce /\ NothingInDoubt /\ BatchCounted

(* The sequence of a set is the only one: an element stands where its      *)
(* count is.                                                               *)
LEMMA PlaceIsCount ==
  ASSUME NEW S \in SUBSET Nat, IsFiniteSet(S), NEW s \in Seq(S), Increasing(s),
         \A x \in S : Has(s, x)
  PROVE  /\ Len(s) = Cardinality(S)
         /\ \A i \in 1 .. Len(s) : Cardinality(Upto(S, s[i])) = i
<1> DEFINE n == Len(s)
<1>1. n \in Nat /\ DOMAIN s = 1 .. n /\ \A i \in 1 .. n : s[i] \in S /\ s[i] \in Nat
  <2>1. n \in Nat /\ DOMAIN s = 1 .. n
    OBVIOUS
  <2>2. \A i \in 1 .. n : s[i] \in S
    OBVIOUS
  <2> QED
    BY <2>1, <2>2
<1>2. \A i, j \in 1 .. n : i < j => s[i] < s[j]
  BY <1>1 DEF Increasing
<1>3. \A x \in S : \E i \in 1 .. n : s[i] = x
  BY DEF Has, n
<1> HIDE DEF n
<1>4. \A i, j \in 1 .. n : s[i] = s[j] => i = j
  <2> SUFFICES ASSUME NEW i \in 1 .. n, NEW j \in 1 .. n, i < j
               PROVE  s[i] # s[j]
    BY <1>1
  <2> QED
    BY <1>1, <1>2
<1>5. Cardinality(S) = n
  <2>1. s \in [1 .. n -> S]
    BY <1>1
  <2>2. s \in Bijection(1 .. n, S)
    BY <1>3, <1>4, <2>1 DEF Bijection, Injection, Surjection, IsInjective
  <2> QED
    BY <1>1, <2>2, FS_CountingElements DEF ExistsBijection
<1>6. ASSUME NEW i \in 1 .. n
      PROVE  Cardinality(Upto(S, s[i])) = i
  <2> DEFINE f == [j \in 1 .. i |-> s[j]]
  <2>1. i \in Nat /\ \A j \in 1 .. i : j \in 1 .. n
    BY <1>1
  <2>2. \A j \in 1 .. i : s[j] <= s[i]
    BY <1>1, <1>2, <2>1
  <2>3. f \in [1 .. i -> Upto(S, s[i])]
    BY <1>1, <2>1, <2>2 DEF Upto
  <2>4. \A j, l \in 1 .. i : f[j] = f[l] => j = l
    BY <1>4, <2>1
  <2>5. ASSUME NEW x \in Upto(S, s[i])
        PROVE  \E j \in 1 .. i : f[j] = x
    <3>1. PICK j \in 1 .. n : s[j] = x
      BY <1>3 DEF Upto
    <3>2. s[j] <= s[i]
      BY <3>1 DEF Upto
    <3>3. ~(i < j)
      BY <1>1, <1>2, <3>2
    <3>4. j \in 1 .. i
      BY <1>1, <3>3
    <3> QED
      BY <3>1, <3>4
  <2> HIDE DEF f
  <2>6. f \in Bijection(1 .. i, Upto(S, s[i]))
    BY <2>3, <2>4, <2>5 DEF Bijection, Injection, Surjection, IsInjective
  <2> QED
    BY <2>1, <2>6, FS_CountingElements DEF ExistsBijection
<1> QED
  BY <1>5, <1>6 DEF n

LEMMA InOrderIsUnique ==
  ASSUME NEW S \in SUBSET Nat, IsFiniteSet(S), NEW s \in Seq(S), Increasing(s),
         \A x \in S : Has(s, x)
  PROVE  s = InOrder(S)
<1> DEFINE t == InOrder(S)
           n == Cardinality(S)
<1>1. t \in Seq(S) /\ Increasing(t) /\ \A x \in S : Has(t, x)
  BY InOrderFits DEF Has
<1> HIDE DEF t
<1>2. Len(s) = n /\ \A i \in 1 .. n : Cardinality(Upto(S, s[i])) = i
  BY PlaceIsCount
<1>3. Len(t) = n /\ \A i \in 1 .. n : Cardinality(Upto(S, t[i])) = i
  BY <1>1, PlaceIsCount
<1>4. /\ s \in [1 .. n -> S] /\ t \in [1 .. n -> S]
  BY <1>1, <1>2, <1>3
<1>5. ASSUME NEW i \in 1 .. n PROVE s[i] = t[i]
  <2>1. s[i] \in S /\ t[i] \in S /\ s[i] \in Nat /\ t[i] \in Nat
    BY <1>4
  <2>2. CASE s[i] < t[i]
    <3>1. Cardinality(Upto(S, s[i])) < Cardinality(Upto(S, t[i]))
      BY <2>1, <2>2, UptoCounts
    <3> QED
      BY <1>2, <1>3, <3>1
  <2>3. CASE t[i] < s[i]
    <3>1. Cardinality(Upto(S, t[i])) < Cardinality(Upto(S, s[i]))
      BY <2>1, <2>3, UptoCounts
    <3> QED
      BY <1>2, <1>3, <3>1
  <2> QED
    BY <2>1, <2>2, <2>3
<1>6. \A i \in 1 .. n : s[i] = t[i]
  BY <1>5
<1> HIDE DEF n
<1>7. s = t
  <2>1. s = [i \in 1 .. n |-> s[i]] /\ t = [i \in 1 .. n |-> t[i]]
    BY <1>4
  <2>2. [i \in 1 .. n |-> s[i]] = [i \in 1 .. n |-> t[i]]
    BY <1>6
  <2> QED
    BY <2>1, <2>2, Zenon
<1> QED
  BY <1>7 DEF t

(* Steps that neither write, fetch, process nor commit: nothing that the   *)
(* invariant of a clean run speaks of is changed, or the run has failed.   *)
LEMMA IdleClean ==
  ASSUME CleanInv, UNCHANGED <<log, past, faults>>,
         \/ pc' \in {"failed", "stopped"}
         \/ /\ UNCHANGED <<committed, pos, hand, taken>>
            /\ pc' = pc \/ (pc \in {"create", "poll"} /\ pc' \in {"poll", "produce"})
  PROVE  CleanInv'
<1>1. Processed' = Processed
  BY DEF Processed, past
<1>2. (Clean' <=> Clean) /\ (HeardOnce' <=> HeardOnce)
  BY <1>1 DEF Clean, StoredOnce, HeardOnce, past
<1>3. CASE pc' \in {"failed", "stopped"}
  BY <1>2, <1>3 DEF CleanInv, NothingInDoubt, BatchCounted, Reading
<1>4. CASE UNCHANGED <<committed, pos, hand, taken>> /\ pc' = pc
  <2>1. NothingInDoubt' <=> NothingInDoubt
    BY <1>4 DEF NothingInDoubt, past
  <2>2. BatchCounted' <=> BatchCounted
    BY <1>1, <1>4 DEF BatchCounted, Order
  <2> QED
    BY <1>2, <2>1, <2>2 DEF CleanInv
<1>5. CASE /\ UNCHANGED <<committed, pos, hand, taken>>
           /\ pc \in {"create", "poll"} /\ pc' \in {"poll", "produce"}
  <2>1. NothingInDoubt => NothingInDoubt'
    BY <1>5 DEF NothingInDoubt, past
  <2>2. BatchCounted => BatchCounted'
    BY <1>1, <1>5 DEF BatchCounted, Reading
  <2> QED
    BY <1>2, <2>1, <2>2 DEF CleanInv
<1> QED
  BY <1>3, <1>4, <1>5

LEMMA ProcessedFinite ==
  /\ Processed \in SUBSET Orders /\ IsFiniteSet(Processed) /\ Cardinality(Processed) \in Nat
<1>1. IsFiniteSet(Orders)
  BY BatchAssumption, FS_Interval DEF Orders
<1>2. Processed \in SUBSET Orders
  BY DEF Processed
<1> QED
  BY <1>1, <1>2, FS_Subset, FS_CardinalityType

(* Processing the next message of a partition adds one order to those that *)
(* were processed.                                                         *)
LEMMA HeardClean ==
  ASSUME IInv, OrderInv, StoredOnce, HeardOnce, NEW h, h.at \in Partitions,
         h.offset = reached[h.at], h.offset < Len(log[h.at]), Heard(h),
         UNCHANGED <<hash, log>>
  PROVE  /\ Order(h) \in Orders \ Processed
         /\ Processed' = Processed \cup {Order(h)}
         /\ HeardOnce'
         /\ reached'[h.at] = h.offset + 1
         /\ \A q \in Partitions \ {h.at} : reached'[q] = reached[q]
<1> DEFINE p == h.at
           n == h.offset + 1
           x == Order(h)
           k == KeyOf[x]
<1>1. /\ log[p] \in Seq(Orders) /\ Len(log[p]) \in Nat /\ n \in 1 .. Len(log[p])
      /\ x = log[p][n] /\ p \in Partitions /\ n = reached[p] + 1
  BY DEF OrderInv, LogFits, IInv, TypeOK, Order
<1>2. x \in Orders /\ hash[k] = p
  <2>1. hash[KeyOf[log[p][n]]] = p
    BY <1>1 DEF OrderInv, LogFits
  <2>2. log[p][n] \in Orders
    BY <1>1
  <2> QED
    BY <1>1, <2>1, <2>2
<1>3. k \in Keys
  BY <1>2, BatchAssumption DEF Orders
<1>4. /\ reached' = [reached EXCEPT ![p] = IF reached[p] > h.offset THEN reached[p] ELSE n]
      /\ reached \in [Partitions -> Nat]
      /\ byKey' = [byKey EXCEPT ![k] = Append(byKey[k], x)]
      /\ DOMAIN byKey = Keys
  BY DEF Heard, OrderKey, IInv, TypeOK, OrderInv, HeardFits
<1>5. reached'[p] = n /\ \A q \in Partitions \ {p} : reached'[q] = reached[q]
  BY <1>1, <1>4
<1> HIDE DEF k, x, n, p
<1>6. x \notin Processed
  <2> SUFFICES ASSUME NEW q \in Partitions, NEW j \in 1 .. reached[q], log[q][j] = x
               PROVE  FALSE
    BY DEF Processed
  <2>1. /\ reached[q] \in Nat /\ reached[q] <= Len(log[q]) /\ Len(log[q]) \in Nat
        /\ log[q] \in Seq(Orders)
    BY DEF OrderInv, HeardFits, LogFits, IInv, TypeOK
  <2>2. j \in 1 .. Len(log[q])
    BY <2>1
  <2>3. hash[KeyOf[log[q][j]]] = q
    BY <2>2 DEF OrderInv, LogFits
  <2>4. q = p
    BY <1>2, <2>3 DEF k
  <2>5. j \in DOMAIN log[p] /\ n \in DOMAIN log[p]
    BY <1>1, <2>1, <2>2, <2>4
  <2>6. j = n
    BY <1>1, <2>4, <2>5 DEF StoredOnce
  <2> QED
    BY <1>1, <2>1, <2>4, <2>6
<1>7. Processed' = Processed \cup {x}
  <2>1. ASSUME NEW m \in Processed PROVE m \in Processed'
    <3>1. PICK q \in Partitions : \E i \in 1 .. reached[q] : log[q][i] = m
      BY DEF Processed
    <3>2. PICK j \in 1 .. reached[q] : log[q][j] = m
      BY <3>1
    <3>3. m \in Orders
      BY DEF Processed
    <3>4. reached[q] \in Nat /\ reached'[q] \in Nat /\ reached[q] <= reached'[q]
      BY <1>1, <1>4, <1>5
    <3>5. j \in 1 .. reached'[q] /\ log'[q][j] = m
      BY <3>2, <3>4
    <3> QED
      BY <3>3, <3>5 DEF Processed
  <2>2. x \in Processed'
    <3>1. n \in 1 .. reached'[p] /\ log'[p][n] = x
      BY <1>1, <1>5
    <3> QED
      BY <1>1, <1>2, <3>1 DEF Processed
  <2>3. ASSUME NEW m \in Processed', m # x PROVE m \in Processed
    <3>1. PICK q \in Partitions : \E i \in 1 .. reached'[q] : log[q][i] = m
      BY DEF Processed
    <3>2. PICK j \in 1 .. reached'[q] : log[q][j] = m
      BY <3>1
    <3>3. m \in Orders
      BY DEF Processed
    <3>4. reached[q] \in Nat /\ reached'[q] \in Nat
      BY <1>1, <1>4, <1>5
    <3>5. CASE q # p
      <4>1. j \in 1 .. reached[q]
        BY <1>5, <3>5
      <4> QED
        BY <3>2, <3>3, <4>1 DEF Processed
    <3>6. CASE q = p
      <4>1. j # n
        BY <1>1, <2>3, <3>2, <3>6
      <4>2. j \in 1 .. reached[p]
        BY <1>1, <1>5, <3>4, <3>6, <4>1
      <4> QED
        BY <3>2, <3>3, <3>6, <4>2 DEF Processed
    <3> QED
      BY <3>5, <3>6
  <2> QED
    BY <2>1, <2>2, <2>3
<1>8. HeardOnce'
  <2> SUFFICES ASSUME NEW l \in Keys, NEW i \in 1 .. Len(byKey'[l])
               PROVE  /\ byKey'[l][i] \in Processed'
                      /\ \A j \in 1 .. Len(byKey'[l]) : byKey'[l][i] = byKey'[l][j] => i = j
    BY DEF HeardOnce
  <2>1. /\ \A j \in 1 .. Len(byKey[l]) : byKey[l][j] \in Processed
        /\ \A a, b \in 1 .. Len(byKey[l]) : byKey[l][a] = byKey[l][b] => a = b
    BY DEF HeardOnce
  <2>2. CASE l # k
    <3>1. byKey'[l] = byKey[l]
      BY <1>4, <2>2
    <3> QED
      BY <1>7, <2>1, <3>1
  <2>3. CASE l = k
    <3>1. byKey'[l] = Append(byKey[l], x)
      BY <1>4, <2>3
    <3>2. byKey[l] \in Seq(Orders) /\ Len(byKey[l]) \in Nat
      <4>1. byKey[l] \in Seq(Orders)
        BY DEF OrderInv, HeardFits
      <4> QED
        BY <4>1
    <3>3. /\ Len(byKey'[l]) = Len(byKey[l]) + 1 /\ byKey'[l][Len(byKey[l]) + 1] = x
          /\ \A j \in 1 .. Len(byKey[l]) : byKey'[l][j] = byKey[l][j]
      BY <1>2, <3>1, <3>2
    <3>4. \A j \in 1 .. Len(byKey'[l]) :
             \/ j \in 1 .. Len(byKey[l]) /\ byKey'[l][j] = byKey[l][j] /\ byKey'[l][j] \in Processed
             \/ j = Len(byKey[l]) + 1 /\ byKey'[l][j] = x
      BY <2>1, <3>2, <3>3
    <3>5. byKey'[l][i] \in Processed'
      BY <1>7, <3>4
    <3>6. ASSUME NEW j \in 1 .. Len(byKey'[l]), byKey'[l][i] = byKey'[l][j]
          PROVE  i = j
      BY <1>6, <2>1, <3>4, <3>6
    <3> QED
      BY <3>5, <3>6
  <2> QED
    BY <2>2, <2>3
<1> QED
  BY <1>2, <1>5, <1>6, <1>7, <1>8 DEF x, n, p

(* A write leaves what was processed where it is.  The first batch has no  *)
(* new order, and its acknowledgement opens the reader on nothing yet.     *)
LEMMA WriteClean ==
  ASSUME IInv, OrderInv, CleanInv, NEW o \in Outcomes, Write(o) \/ WriteAgain(o) \/ WriteFails(o)
  PROVE  CleanInv'
<1>1. /\ pc \in {"produce", "resend"} /\ log' = Stores(o)
      /\ UNCHANGED <<reached, byKey, committed, faults>>
      /\ \/ pc' = "failed"
         \/ pc' = pc /\ UNCHANGED <<pos, hand, taken>>
         \/ /\ pc' = (IF pc = "produce" THEN "fetch" ELSE "refetch")
            /\ pos' = committed /\ taken' = 0
  BY DEF Write, WriteAgain, WriteFails, OpenReader, GoTo, past, reader
<1>2. ASSUME NEW p \in Partitions
      PROVE  /\ log[p] \in Seq(Orders) /\ log'[p] \in Seq(Orders)
             /\ Len(log[p]) \in Nat /\ Len(log'[p]) \in Nat /\ Len(log[p]) <= Len(log'[p])
             /\ reached[p] \in Nat /\ reached[p] <= Len(log[p])
             /\ \A i \in 1 .. Len(log[p]) : log'[p][i] = log[p][i]
             /\ \A i \in 1 .. Len(log'[p]) : log'[p][i] \in Written \/ Has(log[p], log'[p][i])
  <2>1. log[p] \in Seq(Orders) /\ reached[p] \in Nat /\ reached[p] <= Len(log[p])
    BY DEF OrderInv, LogFits, HeardFits, IInv, TypeOK
  <2>2. /\ log'[p] \in Seq(Orders)
        /\ Len(log[p]) \in Nat /\ Len(log[p]) <= Len(log'[p])
        /\ \A i \in 1 .. Len(log[p]) : log'[p][i] = log[p][i]
        /\ \A i \in 1 .. Len(log'[p]) : log'[p][i] \in Written \/ Has(log[p], log'[p][i])
    BY <1>1, StoresFit DEF OrderInv
  <2>3. Len(log'[p]) \in Nat
    BY <2>2
  <2> QED
    BY <2>1, <2>2, <2>3
<1>3. Processed' = Processed
  <2>1. ASSUME NEW p \in Partitions, NEW j \in 1 .. reached[p]
        PROVE  log'[p][j] = log[p][j]
    <3>1. j \in 1 .. Len(log[p])
      BY <1>2
    <3> QED
      BY <1>2, <3>1
  <2> QED
    BY <1>1, <2>1 DEF Processed
<1>4. Clean' => Clean
  <2> SUFFICES ASSUME Clean', NEW p \in Partitions, NEW i \in DOMAIN log[p],
                      NEW j \in DOMAIN log[p], log[p][i] = log[p][j]
               PROVE  i = j
    BY <1>1 DEF Clean, StoredOnce
  <2>1. i \in 1 .. Len(log[p]) /\ j \in 1 .. Len(log[p])
    BY <1>2
  <2>2. i \in 1 .. Len(log'[p]) /\ j \in 1 .. Len(log'[p])
    BY <1>2, <2>1
  <2>3. i \in DOMAIN log'[p] /\ j \in DOMAIN log'[p] /\ log'[p][i] = log'[p][j]
    BY <1>2, <2>1, <2>2
  <2> QED
    BY <2>3 DEF Clean, StoredOnce
<1> SUFFICES ASSUME Clean, HeardOnce, NothingInDoubt, BatchCounted
             PROVE  HeardOnce' /\ NothingInDoubt' /\ BatchCounted'
  BY <1>4 DEF CleanInv
<1>5. HeardOnce'
  BY <1>1, <1>3 DEF HeardOnce
<1>6. NothingInDoubt'
  <2>1. \A p \in Partitions : committed[p] = reached[p]
    BY <1>1 DEF NothingInDoubt
  <2> QED
    BY <1>1, <2>1 DEF NothingInDoubt
<1>7. BatchCounted'
  <2>1. CASE pc = "produce"
    <3>1. Processed = {} /\ Cardinality({}) = 0
      BY <2>1, FS_EmptySet DEF BatchCounted
    <3>2. ASSUME NEW p \in Partitions PROVE ~Has(log'[p], New)
      <4> SUFFICES ASSUME NEW i \in 1 .. Len(log'[p]), log'[p][i] = New PROVE FALSE
        BY DEF Has
      <4>1. New \notin Written
        BY <2>1, BatchAssumption DEF Written, New
      <4>2. ~Has(log[p], New)
        BY <2>1 DEF BatchCounted
      <4> QED
        BY <1>2, <4>1, <4>2
    <3> QED
      BY <1>1, <1>3, <2>1, <3>1, <3>2 DEF BatchCounted, Reading
  <2>2. CASE pc = "resend"
    <3>1. 1 .. Batch \subseteq Processed
      BY <2>2 DEF BatchCounted
    <3> QED
      BY <1>1, <1>3, <2>2, <3>1 DEF BatchCounted, Reading
  <2> QED
    BY <1>1, <2>1, <2>2
<1> QED
  BY <1>5, <1>6, <1>7

(* The reader stands where processing does.                                *)
LEMMA FetchClean ==
  ASSUME IInv, CleanInv, NEW p \in Partitions, Fetch(p)
  PROVE  CleanInv'
<1>1. /\ pc = "fetch" /\ pc' = "process" /\ hand'.at = p /\ hand'.offset = pos[p]
      /\ pos' = [pos EXCEPT ![p] = @ + 1]
      /\ UNCHANGED <<log, reached, byKey, committed, faults, taken>>
  BY DEF Fetch, topic, past
<1>2. Processed' = Processed
  BY <1>1 DEF Processed
<1>3. (Clean' <=> Clean) /\ (HeardOnce' <=> HeardOnce)
  BY <1>1, <1>2 DEF Clean, StoredOnce, HeardOnce
<1>4. /\ pos'[p] = pos[p] + 1 /\ \A q \in Partitions \ {p} : pos'[q] = pos[q]
  BY <1>1 DEF IInv, TypeOK
<1>5. NothingInDoubt => NothingInDoubt'
  <2> SUFFICES ASSUME NothingInDoubt PROVE NothingInDoubt'
    OBVIOUS
  <2>1. \A q \in Partitions : committed[q] = reached[q] /\ pos[q] = reached[q]
    BY <1>1 DEF NothingInDoubt
  <2> QED
    BY <1>1, <1>4, <2>1 DEF NothingInDoubt
<1>6. BatchCounted => BatchCounted'
  BY <1>1, <1>2 DEF BatchCounted, Reading
<1> QED
  BY <1>3, <1>5, <1>6 DEF CleanInv

LEMMA ProcessClean ==
  ASSUME IInv, OrderInv, CleanInv, Process
  PROVE  CleanInv'
<1>1. /\ pc = "process" /\ pc' \in {"commit", "stopped"} /\ Heard(hand)
      /\ UNCHANGED <<hash, log, committed, faults, taken, pos, hand>>
  BY DEF Process, topic
<1> SUFFICES ASSUME Clean'
             PROVE  HeardOnce' /\ NothingInDoubt' /\ BatchCounted'
  BY DEF CleanInv
<1>2. Clean /\ HeardOnce /\ NothingInDoubt /\ BatchCounted
  BY <1>1 DEF Clean, StoredOnce, CleanInv
<1>3. /\ hand.at \in Partitions /\ hand.offset = reached[hand.at]
      /\ hand.offset < Len(log[hand.at])
      /\ pos[hand.at] = hand.offset + 1
      /\ \A p \in Partitions \ {hand.at} : pos[p] = reached[p] /\ committed[p] = reached[p]
  BY <1>1, <1>2, HandFits DEF NothingInDoubt, InHand, OrderInv, HeardFits
<1>4. /\ Order(hand) \in Orders \ Processed
      /\ Processed' = Processed \cup {Order(hand)}
      /\ HeardOnce'
      /\ reached'[hand.at] = hand.offset + 1
      /\ \A q \in Partitions \ {hand.at} : reached'[q] = reached[q]
  BY <1>1, <1>2, <1>3, HeardClean DEF Clean
<1>5. NothingInDoubt'
  BY <1>1, <1>3, <1>4 DEF NothingInDoubt
<1>6. BatchCounted'
  <2>1. Cardinality(Processed) = taken /\ Cardinality(Processed') = taken + 1
    <3>1. Cardinality(Processed) = taken
      BY <1>1, <1>2 DEF BatchCounted
    <3>2. Cardinality(Processed \cup {Order(hand)}) = Cardinality(Processed) + 1
      BY <1>4, ProcessedFinite, FS_AddElement
    <3> QED
      BY <1>4, <3>1, <3>2
  <2>2. \A p \in Partitions : ~Has(log'[p], New)
    BY <1>1, <1>2 DEF BatchCounted, Reading
  <2> QED
    BY <1>1, <2>1, <2>2 DEF BatchCounted, Reading
<1> QED
  BY <1>4, <1>5, <1>6

(* After Batch commits, the orders processed are those of the batch.       *)
LEMMA CommitClean ==
  ASSUME IInv, OrderInv, CleanInv, Commit
  PROVE  CleanInv'
<1>1. /\ pc = "commit" /\ committed' = [committed EXCEPT ![hand.at] = hand.offset + 1]
      /\ taken' = taken + 1
      /\ pc' = IF taken + 1 = Batch THEN "resend" ELSE "fetch"
      /\ UNCHANGED <<log, reached, byKey, faults, pos, hand>>
  BY DEF Commit, GoTo, topic, past
<1>2. Processed' = Processed
  BY <1>1 DEF Processed
<1>3. (Clean' <=> Clean) /\ (HeardOnce' <=> HeardOnce)
  BY <1>1, <1>2 DEF Clean, StoredOnce, HeardOnce
<1> SUFFICES ASSUME Clean, NothingInDoubt, BatchCounted
             PROVE  NothingInDoubt' /\ BatchCounted'
  BY <1>3 DEF CleanInv
<1>4. /\ hand.at \in Partitions /\ hand.offset + 1 = reached[hand.at]
      /\ pos[hand.at] = hand.offset + 1
      /\ \A p \in Partitions \ {hand.at} : pos[p] = reached[p] /\ committed[p] = reached[p]
  BY <1>1, HandFits DEF NothingInDoubt, InHand
<1>5. /\ committed'[hand.at] = hand.offset + 1
      /\ \A q \in Partitions \ {hand.at} : committed'[q] = committed[q]
  BY <1>1, <1>4 DEF IInv, TypeOK
<1>6. \A p \in Partitions : committed'[p] = reached'[p] /\ pos'[p] = reached'[p]
  BY <1>1, <1>4, <1>5
<1>7. NothingInDoubt'
  BY <1>1, <1>6 DEF NothingInDoubt
<1>8. Cardinality(Processed) = taken + 1 /\ \A p \in Partitions : ~Has(log[p], New)
  BY <1>1 DEF BatchCounted, Reading
<1>9. Processed \in SUBSET (1 .. Batch)
  <2> SUFFICES ASSUME NEW m \in Processed PROVE m # New
    BY ProcessedFinite, BatchAssumption DEF Orders, New
  <2>1. PICK p \in Partitions : \E i \in 1 .. reached[p] : log[p][i] = m
    BY DEF Processed
  <2>2. PICK i \in 1 .. reached[p] : log[p][i] = m
    BY <2>1
  <2>3. /\ reached[p] \in Nat /\ reached[p] <= Len(log[p]) /\ log[p] \in Seq(Orders)
    BY DEF OrderInv, LogFits, HeardFits, IInv, TypeOK
  <2>4. i \in 1 .. Len(log[p])
    BY <2>3
  <2> QED
    BY <1>8, <2>2, <2>4 DEF Has
<1>10. taken + 1 = Batch => 1 .. Batch \subseteq Processed
  <2>1. IsFiniteSet(1 .. Batch) /\ Cardinality(1 .. Batch) = Batch
    BY BatchAssumption, FS_Interval
  <2> QED
    BY <1>8, <1>9, <2>1, FS_Subset
<1>11. BatchCounted'
  BY <1>1, <1>2, <1>8, <1>10 DEF BatchCounted, Reading
<1> QED
  BY <1>7, <1>11

(* What is left for the second reader is the new order.                    *)
LEMMA RefetchClean ==
  ASSUME IInv, OrderInv, CleanInv, NEW p \in Partitions, Refetch(p)
  PROVE  CleanInv'
<1> DEFINE h == [at |-> p, offset |-> pos[p]]
<1>1. /\ pc = "refetch" /\ pc' = "recommit" /\ hand' = h /\ h.at = p /\ h.offset = pos[p]
      /\ h.offset < Len(log[p]) /\ Heard(h)
      /\ UNCHANGED <<hash, log, committed, faults, taken>>
  BY DEF Refetch, topic
<1> HIDE DEF h
<1> SUFFICES ASSUME Clean'
             PROVE  HeardOnce' /\ NothingInDoubt' /\ BatchCounted'
  BY DEF CleanInv
<1>2. Clean /\ HeardOnce /\ NothingInDoubt /\ BatchCounted
  BY <1>1 DEF Clean, StoredOnce, CleanInv
<1>3. pos[p] = reached[p]
  BY <1>1, <1>2 DEF NothingInDoubt
<1>4. /\ Order(h) \in Orders \ Processed
      /\ Processed' = Processed \cup {Order(h)} /\ HeardOnce'
  BY <1>1, <1>2, <1>3, HeardClean DEF Clean
<1>5. 1 .. Batch \subseteq Processed /\ Processed \in SUBSET Orders
  BY <1>1, <1>2, ProcessedFinite DEF BatchCounted
<1>6. Orders = 1 .. Batch \cup {New}
  BY BatchAssumption DEF Orders, New
<1>7. Order(h) = New /\ Processed' = Orders
  BY <1>4, <1>5, <1>6
<1>8. Order(hand)' = New
  BY <1>1, <1>7 DEF Order
<1>9. NothingInDoubt'
  BY <1>1 DEF NothingInDoubt
<1>10. BatchCounted'
  <2>1. Orders' = Orders
    BY DEF Orders
  <2> QED
    BY <1>1, <1>7, <1>8, <2>1 DEF BatchCounted, Reading
<1> QED
  BY <1>4, <1>9, <1>10

LEMMA RecommitClean ==
  ASSUME CleanInv, Recommit
  PROVE  CleanInv'
<1>1. /\ pc = "recommit" /\ pc' = "done"
      /\ UNCHANGED <<log, reached, byKey, faults, hand>>
  BY DEF Recommit, topic, past, reader
<1>2. Processed' = Processed
  BY <1>1 DEF Processed
<1>3. (Clean' <=> Clean) /\ (HeardOnce' <=> HeardOnce)
  BY <1>1, <1>2 DEF Clean, StoredOnce, HeardOnce
<1>4. NothingInDoubt'
  BY <1>1 DEF NothingInDoubt
<1>5. BatchCounted => BatchCounted'
  BY <1>1, <1>2 DEF BatchCounted, Reading, Order
<1> QED
  BY <1>3, <1>4, <1>5 DEF CleanInv

LEMMA NextClean == ASSUME IInv, OrderInv, CleanInv, [Next]_vars PROVE CleanInv'
<1> USE DEF topic, reader, past, Fail, GoTo
<1>1. CASE createTopic \/ UNCHANGED vars
  BY <1>1, IdleClean
  DEF createTopic, Create, CreateFails, Visible, PollAgain, PollExpires, vars
<1>2. CASE WriteExpires \/ CommitFails \/ FetchFails \/ FetchExpires \/ Die
  <2>1. UNCHANGED <<log, past, faults>> /\ pc' \in {"failed", "stopped"}
    BY <1>2 DEF WriteExpires, CommitFails, FetchFails, FetchExpires, Die
  <2> QED
    BY <2>1, IdleClean
<1>3. CASE Expire \/ \E p \in Partitions : LeaderReady(p)
  <2>1. UNCHANGED <<log, past, faults, committed, pos, hand, taken, pc>>
    BY <1>3 DEF Expire, LeaderReady
  <2> QED
    BY <2>1, IdleClean
<1>4. ASSUME NEW o \in Outcomes, Write(o) \/ WriteAgain(o) \/ WriteFails(o)
      PROVE  CleanInv'
  BY <1>4, WriteClean
<1>5. ASSUME NEW p \in Partitions, Fetch(p) \/ Refetch(p)
      PROVE  CleanInv'
  BY <1>5, FetchClean, RefetchClean
<1>6. CASE Restart \/ Rebalance
  <2>1. faults' = faults + 1 /\ faults \in Nat
    BY <1>6, BatchAssumption DEF Restart, Rebalance, IInv, TypeOK
  <2>2. ~Clean'
    BY <2>1 DEF Clean
  <2> QED
    BY <2>2 DEF CleanInv
<1> QED
  BY <1>1, <1>2, <1>3, <1>4, <1>5, <1>6, ProcessClean, CommitClean, RecommitClean
  DEF Next, writeMessages, Fetching, Consuming

LEMMA InitClean == ASSUME Init PROVE CleanInv
<1>1. /\ \A p \in Partitions : log[p] = <<>> /\ reached[p] = 0 /\ committed[p] = 0
      /\ \A k \in Keys : byKey[k] = <<>>
      /\ pc = "create"
  BY DEF Init
<1>2. Processed = {}
  BY <1>1 DEF Processed
<1>3. Len(<<>>) = 0
  OBVIOUS
<1>4. HeardOnce
  BY <1>1, <1>3 DEF HeardOnce
<1>5. NothingInDoubt
  BY <1>1 DEF NothingInDoubt
<1>6. BatchCounted
  BY <1>1, <1>2, <1>3 DEF BatchCounted, Reading, Has
<1> QED
  BY <1>4, <1>5, <1>6 DEF CleanInv

(* What main shows: when no retry stored an order twice and no consumer    *)
(* was started again, run only returns after every order was processed     *)
(* exactly once, those of each key in order, and the second reader got     *)
(* order-7.                                                                *)
THEOREM UndisturbedRunIsExact == Spec => []CleanRun
<1>1. IInv /\ OrderInv /\ CleanInv => CleanRun
  <2> SUFFICES ASSUME IInv, OrderInv, CleanInv, pc = "done", Clean
               PROVE  /\ Order(hand) = New
                      /\ \A k \in Keys : byKey[k] = InOrder({i \in Orders : KeyOf[i] = k})
    BY DEF CleanRun, Clean
  <2>1. HeardOnce /\ Processed = Orders /\ Order(hand) = New
    BY DEF CleanInv, BatchCounted
  <2>2. ASSUME NEW k \in Keys
        PROVE  byKey[k] = InOrder({i \in Orders : KeyOf[i] = k})
    <3> DEFINE S == {i \in Orders : KeyOf[i] = k}
               s == byKey[k]
    <3>1. S \in SUBSET Nat /\ IsFiniteSet(S)
      <4>1. IsFiniteSet(Orders) /\ S \in SUBSET Orders /\ Orders \in SUBSET Nat
        BY BatchAssumption, FS_Interval DEF Orders
      <4> QED
        BY <4>1, FS_Subset
    <3>2. /\ s \in Seq(Orders) /\ Len(s) \in Nat /\ DOMAIN s = 1 .. Len(s)
          /\ \A i \in 1 .. Len(s) : s[i] \in Orders
      <4>1. s \in Seq(Orders)
        BY DEF OrderInv, HeardFits
      <4> QED
        BY <4>1
    <3>3. \A i \in 1 .. Len(s) : KeyOf[s[i]] = k /\ Before(s, i) /\ s[i] \in S
      BY <3>2 DEF OrderInv, HeardFits
    <3>4. \A i, j \in 1 .. Len(s) : s[i] = s[j] => i = j
      BY <2>1 DEF HeardOnce
    <3>5. ASSUME NEW x \in S PROVE Has(s, x)
      <4>1. PICK p \in Partitions : \E i \in 1 .. reached[p] : log[p][i] = x
        BY <2>1 DEF Processed
      <4>2. PICK i \in 1 .. reached[p] : log[p][i] = x
        BY <4>1
      <4>3. Has(byKey[KeyOf[log[p][i]]], log[p][i])
        BY DEF OrderInv, HeardFits
      <4> QED
        BY <4>2, <4>3
    <3> HIDE DEF s
    <3>6. s \in Seq(S)
      BY <3>2, <3>3
    <3>7. Increasing(s)
      <4> SUFFICES ASSUME NEW i \in 1 .. Len(s), NEW j \in 1 .. Len(s), i < j, ~(s[i] < s[j])
                   PROVE  FALSE
        BY <3>2 DEF Increasing
      <4>1. s[i] \in Nat /\ s[j] \in Nat \ {0} /\ s[i] # s[j]
        BY <3>2, <3>4, BatchAssumption DEF Orders
      <4>2. s[j] \in 1 .. s[i] - 1 /\ KeyOf[s[j]] = KeyOf[s[i]]
        BY <3>3, <4>1
      <4>3. PICK l \in 1 .. i - 1 : s[l] = s[j]
        BY <3>3, <4>2 DEF Before
      <4>4. l \in 1 .. Len(s) /\ l # j
        BY <3>2
      <4> QED
        BY <3>4, <4>3, <4>4
    <3> HIDE DEF S
    <3>8. s = InOrder(S)
      BY <3>1, <3>5, <3>6, <3>7, InOrderIsUnique
    <3> QED
      BY <3>8 DEF s, S
  <2> QED
    BY <2>1, <2>2
<1>2. Init => IInv /\ OrderInv /\ CleanInv
  BY InitIInv, InitOrder, InitClean
<1>3. IInv /\ OrderInv /\ CleanInv /\ [Next]_vars => OrderInv' /\ CleanInv'
  BY NextOrder, NextClean
<1> QED
  BY <1>1, <1>2, <1>3, Inductive, PTL DEF Spec
=============================================================================
