--------------------------- MODULE CircuitBreaker ---------------------------
(***************************************************************************)
(* The consecutive-failure circuit breaker of                              *)
(* examples/circuit-breaker/breaker.go, shared by concurrent callers of    *)
(* Breaker.Do, in front of the flaky downstream of main.go.                *)
(*                                                                         *)
(* Do takes the mutex twice: once in allow, once in record.  The           *)
(* downstream call fn() runs between the two with the mutex released, so   *)
(* an outcome may be recorded in a later state of the breaker than the one *)
(* that admitted the call.                                                 *)
(***************************************************************************)
EXTENDS Naturals, FiniteSets

CONSTANTS
  Callers,           \* goroutines that use the breaker
  Panicky,           \* those whose fn may panic (recovered outside of Do)
  FailureThreshold,  \* consecutive failures that trip the breaker
  SuccessThreshold,  \* successes that close it again
  Cooldown           \* clock ticks the breaker stays open

ASSUME CallersAssumption   == Panicky \subseteq Callers
ASSUME ThresholdAssumption == /\ FailureThreshold \in Nat \ {0}
                              /\ SuccessThreshold \in Nat \ {0}
ASSUME CooldownAssumption  == Cooldown \in Nat

VARIABLES
  \* Breaker, guarded by mu
  state, failures, successes,
  openAge,           \* now() - openedAt, counted up to Cooldown
  probing,
  \* the callers and the downstream
  pc,                \* where each caller is inside Do
  healthy,           \* flakyService.healthy
  \* history, read by properties only
  role,              \* on which grounds the call in flight was admitted
  lateResult,        \* a stale call was recorded in this half-open period
  goodProbes,        \* probes of this half-open period recorded as successful
  sinceTrip,         \* ticks since the last transition to open, up to Cooldown
  lostProbe          \* some probe ended in a panic

breaker == <<state, failures, successes, openAge, probing>>
history == <<role, lateResult, goodProbes, sinceTrip, lostProbe>>
vars    == <<breaker, pc, healthy, history>>

States == {"closed", "open", "halfOpen"}

\* A call is stale once the breaker has changed state after admitting it.
Roles  == {"none", "closed", "probe", "stale"}
Stages == {"idle", "calling", "ok", "failed"}

InFlight(r) == {c \in Callers : role[c] = r}

TypeOK ==
  /\ state \in States
  /\ failures \in 0 .. FailureThreshold - 1
  /\ successes \in 0 .. SuccessThreshold - 1
  /\ openAge \in 0 .. Cooldown
  /\ probing \in BOOLEAN
  /\ pc \in [Callers -> Stages]
  /\ healthy \in BOOLEAN
  /\ role \in [Callers -> Roles]
  /\ lateResult \in BOOLEAN
  /\ goodProbes \in 0 .. SuccessThreshold - 1
  /\ sinceTrip \in 0 .. Cooldown
  /\ lostProbe \in BOOLEAN

\* New: the zero Time of openedAt is long past.
Init ==
  /\ state = "closed" /\ failures = 0 /\ successes = 0
  /\ openAge = Cooldown /\ probing = FALSE
  /\ pc = [c \in Callers |-> "idle"]
  /\ healthy \in BOOLEAN
  /\ role = [c \in Callers |-> "none"]
  /\ lateResult = FALSE /\ goodProbes = 0
  /\ sinceTrip = Cooldown /\ lostProbe = FALSE

-----------------------------------------------------------------------------
(* transition: reset the counters, and drop the probe flag unless the      *)
(* breaker goes half-open (allow sets it then).  Every call still in       *)
(* flight, that of caller c excepted, becomes stale.                       *)
ResetOnKeepingSuccesses(to) ==   \* mutant: the success count survives
  /\ state' = to /\ failures' = 0
  /\ successes' = successes
  /\ IF to = "halfOpen" THEN TRUE ELSE probing' = FALSE

ResetOn(to) ==
  /\ state' = to
  /\ failures' = 0
  /\ successes' = 0
  /\ IF to = "halfOpen" THEN TRUE ELSE probing' = FALSE

Transition(to, c, r) ==
  /\ ResetOn(to)
  /\ role' = [d \in Callers |-> IF d = c THEN r
                                ELSE IF role[d] = "none" THEN "none" ELSE "stale"]
  /\ lateResult' = FALSE
  /\ goodProbes' = 0
  /\ sinceTrip' = IF to = "open" THEN 0 ELSE sinceTrip

\* Cooling down: b.now().Sub(b.openedAt) < b.cooldown.
Cooling == openAge < Cooldown

(* allow: the four ways out of its switch. *)
AdmitClosed(c) ==
  /\ pc[c] = "idle" /\ state = "closed"
  /\ pc' = [pc EXCEPT ![c] = "calling"]
  /\ role' = [role EXCEPT ![c] = "closed"]
  /\ UNCHANGED <<breaker, healthy, lateResult, goodProbes, sinceTrip, lostProbe>>

AdmitFirstProbe(c) ==
  /\ pc[c] = "idle" /\ state = "open" /\ ~Cooling
  /\ Transition("halfOpen", c, "probe")
  /\ probing' = TRUE
  /\ pc' = [pc EXCEPT ![c] = "calling"]
  /\ UNCHANGED <<openAge, healthy, lostProbe>>

AdmitProbeUnchecked(c) ==   \* mutant: the probe flag is not consulted
  /\ pc[c] = "idle" /\ state = "halfOpen"
  /\ probing' = TRUE
  /\ pc' = [pc EXCEPT ![c] = "calling"]
  /\ role' = [role EXCEPT ![c] = "probe"]
  /\ UNCHANGED <<state, failures, successes, openAge, healthy,
                 lateResult, goodProbes, sinceTrip, lostProbe>>

AdmitProbe(c) ==
  /\ pc[c] = "idle" /\ state = "halfOpen" /\ ~probing
  /\ probing' = TRUE
  /\ pc' = [pc EXCEPT ![c] = "calling"]
  /\ role' = [role EXCEPT ![c] = "probe"]
  /\ UNCHANGED <<state, failures, successes, openAge, healthy,
                 lateResult, goodProbes, sinceTrip, lostProbe>>

FailFast(c) ==
  /\ pc[c] = "idle"
  /\ \/ state = "open" /\ Cooling
     \/ state = "halfOpen" /\ probing
  /\ UNCHANGED vars

Allow(c) == AdmitClosed(c) \/ AdmitFirstProbe(c) \/ AdmitProbe(c) \/ FailFast(c)

(* fn() returns: flakyService.call fails while the service is unhealthy.   *)
Return(c) ==
  /\ pc[c] = "calling"
  /\ pc' = [pc EXCEPT ![c] = IF healthy THEN "ok" ELSE "failed"]
  /\ UNCHANGED <<breaker, healthy, history>>

(* fn() panics: Do unwinds without reaching record.                        *)
Panic(c) ==
  /\ c \in Panicky
  /\ pc[c] = "calling"
  /\ pc' = [pc EXCEPT ![c] = "idle"]
  /\ role' = [role EXCEPT ![c] = "none"]
  /\ lostProbe' = (lostProbe \/ role[c] = "probe")
  /\ UNCHANGED <<breaker, healthy, lateResult, goodProbes, sinceTrip>>

-----------------------------------------------------------------------------
(* record, by the state in which the outcome arrives.                      *)
Leave(c) == pc' = [pc EXCEPT ![c] = "idle"]

\* The breaker keeps its state: only the recorded call leaves.
Stay(c) ==
  /\ role' = [role EXCEPT ![c] = "none"]
  /\ UNCHANGED <<state, sinceTrip>>

Trip(c) ==
  /\ openAge' = 0
  /\ Transition("open", c, "none")

RecordClosedOk(c) ==
  /\ state = "closed" /\ pc[c] = "ok"
  /\ failures' = 0
  /\ Leave(c) /\ Stay(c)
  /\ UNCHANGED <<successes, openAge, probing, healthy,
                 lateResult, goodProbes, lostProbe>>

RecordClosedFailure(c) ==
  /\ state = "closed" /\ pc[c] = "failed"
  /\ Leave(c)
  /\ IF failures + 1 >= FailureThreshold
     THEN Trip(c)
     ELSE /\ failures' = failures + 1
          /\ Stay(c)
          /\ UNCHANGED <<successes, openAge, probing, lateResult, goodProbes>>
  /\ UNCHANGED <<healthy, lostProbe>>

RecordHalfOpenFailureOldCooldown(c) ==   \* mutant: openedAt is not renewed
  /\ state = "halfOpen" /\ pc[c] = "failed"
  /\ Leave(c) /\ Transition("open", c, "none")
  /\ UNCHANGED <<openAge, healthy, lostProbe>>

RecordHalfOpenFailure(c) ==
  /\ state = "halfOpen" /\ pc[c] = "failed"
  /\ Leave(c) /\ Trip(c)
  /\ UNCHANGED <<healthy, lostProbe>>

RecordHalfOpenOkKeepingFlag(c) ==   \* mutant: the probe flag stays up
  /\ state = "halfOpen" /\ pc[c] = "ok"
  /\ Leave(c)
  /\ IF successes + 1 >= SuccessThreshold
     THEN Transition("closed", c, "none")
     ELSE /\ successes' = successes + 1
          /\ Stay(c)
          /\ lateResult' = (lateResult \/ role[c] = "stale")
          /\ goodProbes' = IF role[c] = "probe" THEN goodProbes + 1 ELSE goodProbes
          /\ UNCHANGED <<failures, probing>>
  /\ UNCHANGED <<openAge, healthy, lostProbe>>

\* record cannot tell a probe from a call admitted before the trip.
RecordHalfOpenOk(c) ==
  /\ state = "halfOpen" /\ pc[c] = "ok"
  /\ Leave(c)
  /\ IF successes + 1 >= SuccessThreshold
     THEN Transition("closed", c, "none")
     ELSE /\ successes' = successes + 1
          /\ probing' = FALSE
          /\ Stay(c)
          /\ lateResult' = (lateResult \/ role[c] = "stale")
          /\ goodProbes' = IF role[c] = "probe" THEN goodProbes + 1 ELSE goodProbes
          /\ UNCHANGED failures
  /\ UNCHANGED <<openAge, healthy, lostProbe>>

RecordOpen(c) ==
  /\ state = "open" /\ pc[c] \in {"ok", "failed"}
  /\ Leave(c) /\ Stay(c)
  /\ UNCHANGED <<failures, successes, openAge, probing, healthy,
                 lateResult, goodProbes, lostProbe>>

Record(c) ==
  \/ RecordClosedOk(c)
  \/ RecordClosedFailure(c)
  \/ RecordHalfOpenFailure(c)
  \/ RecordHalfOpenOk(c)
  \/ RecordOpen(c)

Do(c) == Allow(c) \/ Return(c) \/ Record(c)

-----------------------------------------------------------------------------
(* The clock and the service move on their own.                            *)
Older(age) == IF age < Cooldown THEN age + 1 ELSE age

Tick ==
  /\ openAge' = Older(openAge)
  /\ sinceTrip' = Older(sinceTrip)
  /\ UNCHANGED <<state, failures, successes, probing, pc, healthy,
                 role, lateResult, goodProbes, lostProbe>>

Flip ==
  /\ healthy' = ~healthy
  /\ UNCHANGED <<breaker, pc, history>>

Next ==
  \/ \E c \in Callers : Do(c) \/ Panic(c)
  \/ Tick
  \/ Flip

(* Time passes, callers keep calling, fn returns and the mutex is granted. *)
Fairness ==
  /\ WF_vars(Tick)
  /\ \A c \in Callers : WF_vars(Do(c))

Spec == Init /\ [][Next]_vars /\ Fairness

-----------------------------------------------------------------------------
(* Every counter belongs to one state and stays below its threshold: what  *)
(* a period counted never leaks into the next (transition's resets).       *)
CountersFitState ==
  /\ failures > 0 => state = "closed"
  /\ successes > 0 => state = "halfOpen"
  /\ probing => state = "halfOpen"

(* The probe flag is never left behind: while it is set some probe of this *)
(* half-open period is in flight, or a probe panicked inside Do.  Else the *)
(* breaker would fail every call fast, for ever.                           *)
ProbeFlagHasOwner ==
  probing => InFlight("probe") # {} \/ lostProbe

(* Probes run one at a time, as long as no call admitted before the trip   *)
(* has reported during this half-open period (allow's probing check).      *)
LoneProbeUnlessLate ==
  ~lateResult => \A c, d \in InFlight("probe") : c = d

(* breaker.go:45-46 says it without the reservation.                       *)
ProbesOneAtATime == \A c, d \in InFlight("probe") : c = d

(* A full cooldown separates every trip, a failed probe's included, from   *)
(* the next call let through: an open breaker leaves the downstream alone. *)
CooldownRespected ==
  [][state = "open" /\ state' # "open" => sinceTrip = Cooldown]_vars

(* What holds between the flag, the counters and the calls in flight, and  *)
(* implies the invariants above.                                           *)
RolesFit ==
  /\ \A c \in Callers : (pc[c] = "idle") <=> (role[c] = "none")
  /\ \A c \in Callers : role[c] = "closed" => state = "closed"
  /\ \A c \in Callers : role[c] = "probe" => state = "halfOpen"

ProbesFit ==
  /\ probing => (\E c \in Callers : role[c] = "probe") \/ lostProbe
  /\ ~lateResult => \A c \in Callers : role[c] = "probe" => probing
  /\ ~lateResult => \A c, d \in Callers :
                      role[c] = "probe" /\ role[d] = "probe" => c = d

CountsFit ==
  /\ goodProbes <= successes
  /\ state = "halfOpen" /\ ~lateResult => successes = goodProbes
  /\ state = "open" => openAge = sinceTrip

IInv == TypeOK /\ CountersFitState /\ RolesFit /\ ProbesFit /\ CountsFit

\* The outcome of caller c is recorded by this step.
Recorded(c) == pc[c] \in {"ok", "failed"} /\ pc'[c] = "idle"

(* An open breaker is left only through half-open, and half-open only by a *)
(* recorded outcome; a late result never moves an open breaker.            *)
LegalTransitions ==
  [][/\ state = "closed" => state' # "halfOpen"
     /\ state = "open" => state' # "closed"
     /\ state = "halfOpen" /\ state' # state =>
          \E c \in Callers : Recorded(c)]_vars

(* Closing is earned: SuccessThreshold probes of the half-open period that *)
(* ends have succeeded, unless a late result stood in for one of them.     *)
CloseIsEarned ==
  [][state = "halfOpen" /\ state' = "closed" =>
       \/ lateResult
       \/ \E c \in InFlight("stale") : Recorded(c)
       \/ goodProbes + 1 = SuccessThreshold]_vars

(* Once the downstream stays healthy the breaker closes for good, unless a *)
(* panic took a probe away.                                                *)
Recovers ==
  <>[]healthy /\ []~lostProbe => <>[](state = "closed")
=============================================================================
