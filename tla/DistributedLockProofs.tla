----------------------- MODULE DistributedLockProofs ------------------------
(***************************************************************************)
(* Proofs about DistributedLock, for any workers, lease times and bounds.  *)
(*                                                                         *)
(* A grant is made only while the key is absent, so a live lease is always *)
(* the latest grant.  An INCR that runs within its lease therefore runs    *)
(* before every later grant, hence before every later INCR: this is what   *)
(* orders the fences, and without it they are only distinct.               *)
(***************************************************************************)
EXTENDS DistributedLock, TLAPS

(* A clean slate satisfies the invariant. *)
LEMMA InitIInv == Init => IInv
  BY DEF Init, IInv, TypeOK, GrantsFit, FencesFit, FencesAreUnique,
         TimelyFenceOrdered, Holding, None

(* A worker that loses its Lock disturbs nobody else. *)
LEMMA ForgetIInv ==
  ASSUME IInv, NEW w \in Workers, Forget(w),
         owner' \in {owner, None}, ttl' \in Nat,
         fenceCtr' \in Nat, fenceCtr' >= fenceCtr,
         UNCHANGED <<highestFence, grants, lastToken>>
  PROVE  IInv'
<1> USE DEF IInv, TypeOK, Forget, None
<1>1. TypeOK'
  OBVIOUS
<1>2. GrantsFit'
  BY DEF GrantsFit
<1>3. FencesFit'
  BY DEF FencesFit, Holding
<1>4. FencesAreUnique' /\ TimelyFenceOrdered'
  BY DEF FencesAreUnique, TimelyFenceOrdered, Holding
<1>5. QED
  BY <1>1, <1>2, <1>3, <1>4

(* SETNX: the new token exceeds every other. *)
LEMMA GrantIInv ==
  ASSUME IInv, NEW w \in Workers, SetNX(w) \/ SetNXLost(w)
  PROVE  IInv'
<1> USE DEF IInv, TypeOK, SetNX, SetNXLost, Grant, None, worker
<1>1. grants' = grants + 1 /\ owner' = grants + 1 /\ ttl' \in Nat
  BY TtlsAssumption
<1>2. TypeOK'
  BY <1>1
<1>3. GrantsFit'
  BY <1>1 DEF GrantsFit
<1>4. FencesFit'
  BY DEF FencesFit, Holding
<1>5. FencesAreUnique' /\ TimelyFenceOrdered'
  BY DEF FencesAreUnique, TimelyFenceOrdered, Holding, FencesFit
<1>6. QED
  BY <1>2, <1>3, <1>4, <1>5

(* INCR: the new fence exceeds every other; if the lease is still alive no *)
(* other token exceeds the worker's.                                       *)
LEMMA IncrIInv ==
  ASSUME IInv, NEW w \in Workers, Incr(w)
  PROVE  IInv'
<1> USE DEF IInv, TypeOK, Incr
<1>1. /\ fenceCtr' \in Nat /\ fenceCtr' > fenceCtr
      /\ fence' = [fence EXCEPT ![w] = fenceCtr']
  BY BoundAssumption
<1>2. TypeOK'
  BY <1>1
<1>3. GrantsFit'
  BY DEF GrantsFit, None
<1>4. \A v \in Workers : owner = token[w] => token[v] <= token[w]
  BY DEF GrantsFit, None
<1>5. lastToken' = lastToken /\ (owner = token[w] => ~(token[w] < lastToken))
  BY DEF GrantsFit, None
<1>6. FencesFit'
  BY <1>5 DEF FencesFit, Holding
<1>7. FencesAreUnique'
  BY <1>1 DEF FencesAreUnique, Holding
<1>8. TimelyFenceOrdered'
  BY <1>1, <1>4 DEF TimelyFenceOrdered, Holding, FencesFit
<1>9. QED
  BY <1>2, <1>3, <1>6, <1>7, <1>8

(* An accepted write raises the bar for every older timely holder. *)
LEMMA WriteIInv ==
  ASSUME IInv, NEW w \in Workers, Write(w)
  PROVE  IInv'
<1> USE DEF IInv, TypeOK, Write, redis, worker
<1>1. TypeOK'
  OBVIOUS
<1>2. GrantsFit' /\ FencesAreUnique' /\ TimelyFenceOrdered'
  BY DEF GrantsFit, FencesAreUnique, TimelyFenceOrdered, Holding
<1>3. FencesFit'
  <2>1. ASSUME NEW v \in timely, token[v] < lastToken'
        PROVE  fence[v] < fence[w]
    <3>1. CASE token[v] < token[w]
      BY <3>1 DEF TimelyFenceOrdered, FencesFit
    <3>2. CASE ~(token[v] < token[w])
      <4>1. token[v] < lastToken
        BY <2>1, <3>2
      <4>2. fence[v] < highestFence
        BY <4>1 DEF FencesFit
      <4>3. QED
        BY <4>2
    <3>3. QED
      BY <3>1, <3>2
  <2>2. QED
    BY <2>1 DEF FencesFit, Holding
<1>4. QED
  BY <1>1, <1>2, <1>3

(* Steps that touch only the lease. *)
LEMMA LeaseIInv ==
  ASSUME IInv, owner' \in {owner, None}, ttl' \in Nat,
         UNCHANGED <<fenceCtr, worker, highestFence, history>>
  PROVE  IInv'
  BY DEF IInv, TypeOK, GrantsFit, FencesFit, FencesAreUnique,
         TimelyFenceOrdered, Holding, None, worker, history

(* IInv holds in every state of every behaviour. *)
THEOREM Inductive == Spec => []IInv
<1>1. IInv /\ [Next]_vars => IInv'
  <2> SUFFICES ASSUME IInv, [Next]_vars PROVE IInv'
    OBVIOUS
  <2>1. CASE UNCHANGED vars
    BY <2>1, LeaseIInv DEF vars, redis, IInv, TypeOK
  <2>2. ASSUME NEW w \in Workers, Acquire(w) PROVE IInv'
    <3>1. CASE IncrFailed(w)
      BY <3>1, ForgetIInv, BoundAssumption DEF IncrFailed, IInv, TypeOK
    <3>2. CASE Denied(w)
      BY <3>2, <2>1 DEF Denied
    <3>3. QED
      BY <2>2, <3>1, <3>2, GrantIInv, IncrIInv DEF Acquire
  <2>3. ASSUME NEW w \in Workers, Hold(w) PROVE IInv'
    <3>1. CASE Release(w)
      BY <3>1, ForgetIInv DEF Release, IInv, TypeOK
    <3>2. CASE Extend(w)
      BY <3>2, LeaseIInv, TtlsAssumption DEF Extend, history
    <3>3. CASE NotHeld(w)
      BY <3>3, <2>1 DEF NotHeld
    <3>4. CASE WriteRefused(w)
      BY <3>4, <2>1 DEF WriteRefused
    <3>5. QED
      BY <2>3, <3>1, <3>2, <3>3, <3>4, WriteIInv DEF Hold
  <2>4. ASSUME NEW w \in Workers, Abandon(w) PROVE IInv'
    BY <2>4, ForgetIInv DEF Abandon, redis, IInv, TypeOK
  <2>5. CASE Tick
    BY <2>5, LeaseIInv DEF Tick, IInv, TypeOK
  <2>6. QED
    BY <2>1, <2>2, <2>3, <2>4, <2>5 DEF Next
<1>2. QED
  BY InitIInv, <1>1, PTL DEF Spec

(* The lease, the counters and every worker's token stay in their ranges.   *)
THEOREM TypeCorrect == Spec => []TypeOK
<1>1. IInv => TypeOK
  BY DEF IInv
<1>2. QED
  BY <1>1, Inductive, PTL

(* No two holders ever share a fence. *)
THEOREM UniqueFences == Spec => []FencesAreUnique
<1>1. IInv => FencesAreUnique
  BY DEF IInv
<1>2. QED
  BY <1>1, Inductive, PTL

(* A fence taken within the lease is smaller than every later holder's. *)
THEOREM TimelyFences == Spec => []TimelyFenceOrdered
<1>1. IInv => TimelyFenceOrdered
  BY DEF IInv
<1>2. QED
  BY <1>1, Inductive, PTL

(* Storage accepts the writes of timely holders in the order of the grants. *)
THEOREM StorageIsSafe == Spec => NoStaleOverwrite
<1> DEFINE InOrder ==
      \A w \in timely :
        highestFence' # highestFence /\ highestFence' = fence[w]
          => token[w] >= lastToken
<1>1. IInv /\ [Next]_vars => [InOrder]_vars
  <2> SUFFICES ASSUME IInv, [Next]_vars, NEW w \in timely,
                      highestFence' # highestFence, highestFence' = fence[w]
               PROVE  token[w] >= lastToken
    OBVIOUS
  <2>1. PICK v \in Workers : Write(v)
    BY DEF Next, Acquire, Hold, SetNX, SetNXLost, Denied, Incr, IncrFailed,
           Release, Extend, NotHeld, WriteRefused, Abandon, Tick, vars
  <2>2. fence[w] >= highestFence
    BY <2>1 DEF Write
  <2>3. QED
    BY <2>2 DEF IInv, TypeOK, FencesFit
<1>2. QED
  BY <1>1, Inductive, PTL DEF Spec, NoStaleOverwrite

(* Only expiry or the owner ends a lease, and only the owner prolongs it:   *)
(* of the steps that touch the key, the scripts compare the token first and *)
(* SET NX finds no key.                                                     *)
THEOREM LeaseIsSafe == Spec => LeaseIsItsOwners
<1> DEFINE Owners ==
      owner # None =>
        /\ owner' # owner =>
             /\ owner' = None
             /\ \/ ttl = 1 /\ UNCHANGED worker
                \/ \E w \in Workers : token[w] = owner /\ token'[w] # owner /\ Holding(w)
        /\ owner' = owner /\ ttl' > ttl =>
             \E w \in Workers : token[w] = owner /\ Holding(w)
<1>1. IInv /\ [Next]_vars => [Owners]_vars
  <2> SUFFICES ASSUME IInv, Next, owner # None PROVE Owners
    OBVIOUS
  <2>1. ttl \in Nat /\ token \in [Workers -> Nat]
    BY DEF IInv, TypeOK
  <2>2. ASSUME NEW w \in Workers, Release(w) PROVE Owners
    BY <2>1, <2>2 DEF Release, Forget, None
  <2>3. ASSUME NEW w \in Workers, Extend(w) PROVE Owners
    BY <2>3 DEF Extend
  <2>4. CASE Tick
    BY <2>1, <2>4 DEF Tick
  <2>5. CASE UNCHANGED <<owner, ttl>>
    BY <2>1, <2>5
  <2>6. QED
    BY <2>2, <2>3, <2>4, <2>5
       DEF Next, Acquire, Hold, SetNX, SetNXLost, Grant, Denied, Incr, IncrFailed,
           NotHeld, Write, WriteRefused, Abandon, redis, vars
<1>2. QED
  BY <1>1, Inductive, PTL DEF Spec, LeaseIsItsOwners
=============================================================================
