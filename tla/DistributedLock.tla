-------------------------- MODULE DistributedLock ---------------------------
(***************************************************************************)
(* The single-Redis lock of examples/distributed-lock: Acquire, Release    *)
(* and Extend of lock.go, run by workers that pause, crash and lose        *)
(* replies, and the fenced storage of main.go that they write to.          *)
(*                                                                         *)
(* Redis executes one command or script at a time.  Acquire issues two, so *)
(* time may pass and other workers may run between them.  A worker's owner *)
(* token (16 random bytes) is the number of its grant: all that matters of *)
(* it is that no two grants share one.                                     *)
(***************************************************************************)
EXTENDS Naturals

CONSTANTS
  Workers,
  Ttls,         \* the lease times, in ticks, that callers ask for
  MaxGrants,    \* bound: grants of the lock
  MaxAttempts   \* bound: tries the client spends on one INCR

ASSUME TtlsAssumption  == Ttls \subseteq Nat \ {0} /\ Ttls # {}
ASSUME BoundAssumption == MaxGrants \in Nat /\ MaxAttempts \in Nat \ {0}

VARIABLES
  \* Redis
  owner,          \* token under the lock key, None when the key is absent
  ttl,            \* ticks until the lock key expires
  fenceCtr,       \* the counter under key:fence
  \* workers
  pc,             \* "idle", "granted" between SETNX and INCR, "holding" a Lock
  token, fence,   \* Lock.token and Lock.Fence
  \* storage
  highestFence,
  \* history, read by properties only
  grants,         \* grants so far; the next token is grants + 1
  timely,         \* holders whose INCR ran while their lease was alive
  lastToken       \* the latest grant storage has accepted a write of

redis   == <<owner, ttl, fenceCtr>>
worker  == <<pc, token, fence>>
history == <<grants, timely, lastToken>>
vars    == <<redis, worker, highestFence, history>>

None == 0
Holding(w) == pc[w] = "holding"

TypeOK ==
  /\ owner \in 0 .. grants
  /\ ttl \in Nat
  /\ fenceCtr \in Nat
  /\ pc \in [Workers -> {"idle", "granted", "holding"}]
  /\ token \in [Workers -> 0 .. grants]
  /\ fence \in [Workers -> 0 .. fenceCtr]
  /\ highestFence \in 0 .. fenceCtr
  /\ grants \in Nat
  /\ timely \subseteq Workers
  /\ lastToken \in 0 .. grants

\* run() deletes the lock key and its fence counter first.
Init ==
  /\ owner = None /\ ttl = 0 /\ fenceCtr = 0
  /\ pc = [w \in Workers |-> "idle"]
  /\ token = [w \in Workers |-> None]
  /\ fence = [w \in Workers |-> 0]
  /\ highestFence = 0
  /\ grants = 0 /\ timely = {} /\ lastToken = None

-----------------------------------------------------------------------------
(* Worker w no longer has a Lock. *)
Forget(w) ==
  /\ pc' = [pc EXCEPT ![w] = "idle"]
  /\ token' = [token EXCEPT ![w] = None]
  /\ fence' = [fence EXCEPT ![w] = 0]
  /\ timely' = timely \ {w}

GrantForever ==   \* mutant: SETNX without an expiry
  /\ owner = None
  /\ grants < MaxGrants
  /\ owner' = grants + 1
  /\ grants' = grants + 1
  /\ ttl' = 0

(* SET NX PX succeeds: the key is created with a fresh token. *)
Grant ==
  /\ owner = None
  /\ grants < MaxGrants
  /\ owner' = grants + 1
  /\ grants' = grants + 1
  /\ ttl' \in Ttls

(* Acquire, first command. *)
SetNX(w) ==
  /\ pc[w] = "idle"
  /\ Grant
  /\ pc' = [pc EXCEPT ![w] = "granted"]
  /\ token' = [token EXCEPT ![w] = grants + 1]
  /\ UNCHANGED <<fenceCtr, fence, highestFence, timely, lastToken>>

\* The key is set, but the worker sees an error: its reply was lost, or the
\* client's own retry found the key taken.
SetNXLost(w) ==
  /\ pc[w] = "idle"
  /\ Grant
  /\ UNCHANGED <<fenceCtr, worker, highestFence, timely, lastToken>>

\* ErrNotAcquired.
Denied(w) ==
  /\ pc[w] = "idle" /\ owner # None
  /\ UNCHANGED vars

(* Acquire, second command: the INCR of the fence counter, however long    *)
(* after the SETNX.  The client may have retried it.                       *)
IncrLocally(w) ==   \* mutant: the counter is read, and the sum not stored
  /\ pc[w] = "granted"
  /\ fence' = [fence EXCEPT ![w] = fenceCtr + 1]
  /\ pc' = [pc EXCEPT ![w] = "holding"]
  /\ timely' = IF owner = token[w] THEN timely \cup {w} ELSE timely
  /\ UNCHANGED <<owner, ttl, fenceCtr, token, highestFence, grants, lastToken>>

Incr(w) ==
  /\ pc[w] = "granted"
  /\ \E attempts \in 1 .. MaxAttempts : fenceCtr' = fenceCtr + attempts
  /\ fence' = [fence EXCEPT ![w] = fenceCtr']
  /\ pc' = [pc EXCEPT ![w] = "holding"]
  /\ timely' = IF owner = token[w] THEN timely \cup {w} ELSE timely
  /\ UNCHANGED <<owner, ttl, token, highestFence, grants, lastToken>>

\* Acquire returns an error and the key stays until it expires.
IncrFailed(w) ==
  /\ pc[w] = "granted"
  /\ \E attempts \in 0 .. MaxAttempts : fenceCtr' = fenceCtr + attempts
  /\ Forget(w)
  /\ UNCHANGED <<owner, ttl, highestFence, grants, lastToken>>

-----------------------------------------------------------------------------
(* Release: compare and delete. *)
ReleaseAny(w) ==   \* mutant: plain DEL
  /\ Holding(w)
  /\ owner' = None /\ ttl' = 0
  /\ Forget(w)
  /\ UNCHANGED <<fenceCtr, highestFence, grants, lastToken>>

Release(w) ==
  /\ Holding(w) /\ owner = token[w]
  /\ owner' = None /\ ttl' = 0
  /\ Forget(w)
  /\ UNCHANGED <<fenceCtr, highestFence, grants, lastToken>>

(* Extend: compare and renew. *)
Extend(w) ==
  /\ Holding(w) /\ owner = token[w]
  /\ ttl' \in Ttls
  /\ UNCHANGED <<owner, fenceCtr, worker, timely, highestFence, grants, lastToken>>

\* Either script answers 0, and the worker still has its stale Lock: it may
\* give up (Abandon) or, as staleHolder does, go on to write.
NotHeld(w) ==
  /\ Holding(w) /\ owner # token[w]
  /\ UNCHANGED vars

(* storage.write: refuse a fence below the highest one seen. *)
WriteUnfenced(w) ==   \* mutant: the fence is not looked at
  /\ Holding(w)
  /\ highestFence' = fence[w]
  /\ lastToken' = IF token[w] > lastToken THEN token[w] ELSE lastToken
  /\ UNCHANGED <<redis, worker, grants, timely>>

Write(w) ==
  /\ Holding(w)
  /\ fence[w] >= highestFence
  /\ highestFence' = fence[w]
  /\ lastToken' = IF token[w] > lastToken THEN token[w] ELSE lastToken
  /\ UNCHANGED <<redis, worker, grants, timely>>

WriteRefused(w) ==
  /\ Holding(w)
  /\ fence[w] < highestFence
  /\ UNCHANGED vars

(* The worker dies, or drops its Lock on an error, without releasing. *)
Abandon(w) ==
  /\ pc[w] # "idle"
  /\ Forget(w)
  /\ UNCHANGED <<redis, highestFence, grants, lastToken>>

(* Time passes, whatever the workers are doing; the key expires. *)
Tick ==
  /\ owner # None /\ ttl > 0
  /\ ttl' = ttl - 1
  /\ owner' = IF ttl = 1 THEN None ELSE owner
  /\ UNCHANGED <<fenceCtr, worker, highestFence, history>>

Acquire(w) == SetNX(w) \/ SetNXLost(w) \/ Denied(w) \/ Incr(w) \/ IncrFailed(w)

Hold(w) ==
  Write(w) \/ WriteRefused(w) \/ Extend(w) \/ Release(w) \/ NotHeld(w)

Next ==
  \/ \E w \in Workers : Acquire(w) \/ Hold(w) \/ Abandon(w)
  \/ Tick

(* Only time is fair: a worker may stop anywhere. *)
Spec == Init /\ [][Next]_vars /\ WF_vars(Tick)

-----------------------------------------------------------------------------
(* No two holders carry the same fence, whatever expired under whom. *)
FencesAreUnique ==
  \A v, w \in Workers : Holding(v) /\ Holding(w) /\ fence[v] = fence[w] => v = w

(* lock.go:71-72: a later holder always carries a larger number. *)
LaterHolderLargerFence ==
  \A v, w \in Workers :
    Holding(v) /\ Holding(w) /\ token[v] < token[w] => fence[v] < fence[w]

(* What the fence does give: a holder whose INCR ran within its lease has  *)
(* a smaller fence than every later holder.                                *)
TimelyFenceOrdered ==
  \A v, w \in Workers :
    Holding(v) /\ Holding(w) /\ v \in timely /\ token[v] < token[w]
      => fence[v] < fence[w]

(* The strengthening that makes the two invariants inductive: the live     *)
(* lease is the latest grant, and storage has seen more than a timely      *)
(* holder of an older grant can show.                                      *)
GrantsFit ==
  /\ \A w \in Workers : (pc[w] = "idle") <=> (token[w] = None)
  /\ \A v, w \in Workers : token[v] = token[w] /\ token[v] # None => v = w
  /\ owner # None => owner = grants

FencesFit ==
  /\ \A w \in timely : Holding(w)
  /\ \A w \in timely : token[w] < lastToken => fence[w] < highestFence

IInv ==
  TypeOK /\ GrantsFit /\ FencesFit /\ FencesAreUnique /\ TimelyFenceOrdered

(* ... so a stale holder of that kind never overwrites a later one: the    *)
(* storage accepts timely writes in the order of the grants.               *)
NoStaleOverwrite ==
  [][\A w \in timely :
       highestFence' # highestFence /\ highestFence' = fence[w]
         => token[w] >= lastToken]_vars

(* A lease ends by running out, which no worker has a part in, or by its   *)
(* owner's release, never by the next grant, and is prolonged only while   *)
(* its owner has a Lock: a stale holder neither frees the next holder's    *)
(* key nor keeps an orphaned one alive (the two scripts).                  *)
LeaseIsItsOwners ==
  [][owner # None =>
       /\ owner' # owner =>
            /\ owner' = None
            /\ \/ ttl = 1 /\ UNCHANGED worker
               \/ \E w \in Workers : token[w] = owner /\ token'[w] # owner /\ Holding(w)
       /\ owner' = owner /\ ttl' > ttl =>
            \E w \in Workers : token[w] = owner /\ Holding(w)]_vars

(* A key whose owner is gone disappears: a crashed holder, or one whose    *)
(* Acquire failed half way, cannot wedge the lock.                         *)
Orphaned(t) == owner = t /\ \A w \in Workers : token[w] # t

NoWedge == \A t \in 1 .. MaxGrants : Orphaned(t) ~> owner # t
=============================================================================
