------------------------ MODULE CircuitBreakerProofs ------------------------
(***************************************************************************)
(* Proofs about CircuitBreaker, for any callers, thresholds and cooldown.  *)
(* Everything follows from one inductive invariant, IInv: it relates the   *)
(* probe flag to the calls in flight, which the flag alone forgets.        *)
(***************************************************************************)
EXTENDS CircuitBreaker, TLAPS

(* The initial breaker satisfies the invariant. *)
LEMMA InitIInv == Init => IInv
<1> SUFFICES ASSUME Init PROVE IInv
  OBVIOUS
<1>1. TypeOK
  <2>1. /\ probing \in BOOLEAN /\ healthy \in BOOLEAN
        /\ lateResult \in BOOLEAN /\ lostProbe \in BOOLEAN
    BY Zenon DEF Init
  <2>2. /\ 0 \in 0 .. FailureThreshold - 1
        /\ 0 \in 0 .. SuccessThreshold - 1
        /\ Cooldown \in 0 .. Cooldown
    BY ThresholdAssumption, CooldownAssumption
  <2>3. /\ pc \in [Callers -> Stages]
        /\ role \in [Callers -> Roles]
    BY DEF Init, Stages, Roles
  <2>4. QED
    BY <2>1, <2>2, <2>3, Zenon DEF Init, TypeOK, States
<1>2. CountersFitState
  BY DEF Init, CountersFitState
<1>3. RolesFit /\ ProbesFit
  BY DEF Init, RolesFit, ProbesFit
<1>4. CountsFit
  BY DEF Init, CountsFit
<1>5. QED
  BY <1>1, <1>2, <1>3, <1>4 DEF IInv

(* What a step through transition() leaves behind. *)
LEMMA TransitionIInv ==
  ASSUME IInv, NEW c \in Callers, NEW to \in States, NEW r \in Roles,
         Transition(to, c, r),
         to # "halfOpen" => r = "none",
         to = "halfOpen" => r = "probe" /\ probing' = TRUE,
         pc' \in [Callers -> Stages],
         \A d \in Callers \ {c} : pc'[d] = pc[d],
         (pc'[c] = "idle") <=> (r = "none"),
         healthy' = healthy, lostProbe' = lostProbe,
         openAge' \in 0 .. Cooldown,
         to = "open" => openAge' = 0
  PROVE  IInv'
<1>1. TypeOK'
  <2>1. role' \in [Callers -> Roles]
    BY DEF IInv, TypeOK, Transition, Roles
  <2>2. probing' \in BOOLEAN
    BY DEF IInv, TypeOK, Transition, ResetOn
  <2>3. sinceTrip' \in 0 .. Cooldown
    BY CooldownAssumption DEF IInv, TypeOK, Transition
  <2>4. /\ 0 \in 0 .. FailureThreshold - 1
        /\ 0 \in 0 .. SuccessThreshold - 1
    BY ThresholdAssumption
  <2>5. /\ healthy' \in BOOLEAN
        /\ lateResult' \in BOOLEAN
        /\ lostProbe' \in BOOLEAN
    BY Zenon DEF IInv, TypeOK, Transition
  <2>6. QED
    BY <2>1, <2>2, <2>3, <2>4, <2>5, Zenon
    DEF TypeOK, Transition, ResetOn
<1>2. CountersFitState'
  BY DEF CountersFitState, Transition, ResetOn, States
<1>3. RolesFit'
  BY DEF IInv, TypeOK, RolesFit, Transition, ResetOn, Roles, States
<1>4. ProbesFit'
  BY DEF IInv, TypeOK, ProbesFit, Transition, ResetOn, Roles, States
<1>5. CountsFit'
  BY CooldownAssumption DEF CountsFit, Transition, ResetOn
<1>6. QED
  BY <1>1, <1>2, <1>3, <1>4, <1>5 DEF IInv

-----------------------------------------------------------------------------
(* The steps of allow. *)
LEMMA AdmitClosedIInv ==
  ASSUME IInv, NEW c \in Callers, AdmitClosed(c)
  PROVE  IInv'
<1> USE DEF AdmitClosed, breaker
<1>1. TypeOK'
  BY Zenon DEF IInv, TypeOK, Stages, Roles
<1>2. CountersFitState' /\ CountsFit'
  BY DEF IInv, CountersFitState, CountsFit
<1>3. RolesFit'
  BY DEF IInv, TypeOK, RolesFit
<1>4. ProbesFit'
  BY DEF IInv, TypeOK, RolesFit, ProbesFit, CountersFitState
<1>5. QED
  BY <1>1, <1>2, <1>3, <1>4 DEF IInv

(* The first probe after the cooldown starts from cleared counters. *)
LEMMA AdmitFirstProbeIInv ==
  ASSUME IInv, NEW c \in Callers, AdmitFirstProbe(c)
  PROVE  IInv'
<1>1. /\ Transition("halfOpen", c, "probe") /\ probing' = TRUE
      /\ healthy' = healthy /\ lostProbe' = lostProbe
  BY DEF AdmitFirstProbe
<1>2. /\ pc' \in [Callers -> Stages]
      /\ \A d \in Callers \ {c} : pc'[d] = pc[d]
      /\ (pc'[c] = "idle") <=> ("probe" = "none")
  BY DEF AdmitFirstProbe, IInv, TypeOK, Stages
<1>3. openAge' \in 0 .. Cooldown
  BY DEF AdmitFirstProbe, IInv, TypeOK
<1>4. QED
  BY <1>1, <1>2, <1>3, TransitionIInv DEF States, Roles

(* A probe is admitted only when none is in flight, or after a late result. *)
LEMMA AdmitProbeIInv ==
  ASSUME IInv, NEW c \in Callers, AdmitProbe(c)
  PROVE  IInv'
<1> USE DEF AdmitProbe
<1>1. TypeOK'
  BY Zenon DEF IInv, TypeOK, Stages, Roles
<1>2. CountersFitState' /\ CountsFit'
  BY DEF IInv, CountersFitState, CountsFit
<1>3. RolesFit'
  BY DEF IInv, TypeOK, RolesFit
<1>4. ProbesFit'
  BY DEF IInv, TypeOK, ProbesFit
<1>5. QED
  BY <1>1, <1>2, <1>3, <1>4 DEF IInv

(* The downstream call returns, or panics. *)
LEMMA ReturnIInv ==
  ASSUME IInv, NEW c \in Callers, Return(c)
  PROVE  IInv'
<1> USE DEF Return, breaker, history
<1>1. TypeOK'
  BY Zenon DEF IInv, TypeOK, Stages
<1>2. CountersFitState' /\ CountsFit' /\ ProbesFit'
  BY DEF IInv, CountersFitState, CountsFit, ProbesFit
<1>3. RolesFit'
  BY DEF IInv, TypeOK, RolesFit
<1>4. QED
  BY <1>1, <1>2, <1>3 DEF IInv

(* A panic only takes a caller out of flight. *)
LEMMA PanicIInv ==
  ASSUME IInv, NEW c \in Callers, Panic(c)
  PROVE  IInv'
<1> USE DEF Panic, breaker
<1>1. TypeOK'
  BY Zenon DEF IInv, TypeOK, Stages, Roles
<1>2. CountersFitState' /\ CountsFit'
  BY DEF IInv, CountersFitState, CountsFit
<1>3. RolesFit'
  BY DEF IInv, TypeOK, RolesFit
<1>4. ProbesFit'
  BY DEF IInv, TypeOK, ProbesFit
<1>5. QED
  BY <1>1, <1>2, <1>3, <1>4 DEF IInv

-----------------------------------------------------------------------------
(* The steps of record. *)
LEMMA RecordClosedOkIInv ==
  ASSUME IInv, NEW c \in Callers, RecordClosedOk(c)
  PROVE  IInv'
<1> USE DEF RecordClosedOk, Leave, Stay
<1>1. TypeOK'
  <2>1. 0 \in 0 .. FailureThreshold - 1
    BY ThresholdAssumption
  <2>2. QED
    BY <2>1, Zenon DEF IInv, TypeOK, Stages, Roles
<1>2. CountersFitState' /\ CountsFit'
  BY DEF IInv, CountersFitState, CountsFit
<1>3. RolesFit'
  BY DEF IInv, TypeOK, RolesFit
<1>4. ProbesFit'
  BY DEF IInv, TypeOK, ProbesFit, RolesFit, CountersFitState
<1>5. QED
  BY <1>1, <1>2, <1>3, <1>4 DEF IInv

(* A failure in closed is counted, or trips and clears the counters. *)
LEMMA RecordClosedFailureIInv ==
  ASSUME IInv, NEW c \in Callers, RecordClosedFailure(c)
  PROVE  IInv'
<1> USE DEF RecordClosedFailure, Leave
<1>1. CASE failures + 1 >= FailureThreshold
  <2>1. /\ Transition("open", c, "none") /\ openAge' = 0
        /\ healthy' = healthy /\ lostProbe' = lostProbe
    BY <1>1 DEF Trip
  <2>2. /\ pc' \in [Callers -> Stages]
        /\ \A d \in Callers \ {c} : pc'[d] = pc[d]
        /\ pc'[c] = "idle"
    BY DEF IInv, TypeOK, Stages
  <2>3. openAge' \in 0 .. Cooldown
    BY <2>1, CooldownAssumption
  <2>4. QED
    BY <2>1, <2>2, <2>3, TransitionIInv DEF States, Roles
<1>2. CASE ~(failures + 1 >= FailureThreshold)
  <2> USE <1>2 DEF Stay
  <2>1. TypeOK'
    <3>1. failures' \in 0 .. FailureThreshold - 1
      BY ThresholdAssumption DEF IInv, TypeOK
    <3>2. QED
      BY <3>1, Zenon DEF IInv, TypeOK, Stages, Roles
  <2>2. CountersFitState' /\ CountsFit'
    BY DEF IInv, CountersFitState, CountsFit
  <2>3. RolesFit'
    BY DEF IInv, TypeOK, RolesFit
  <2>4. ProbesFit'
    BY DEF IInv, TypeOK, ProbesFit, RolesFit, CountersFitState
  <2>5. QED
    BY <2>1, <2>2, <2>3, <2>4 DEF IInv
<1>3. QED
  BY <1>1, <1>2

(* A failure in half-open trips again and clears the flag. *)
LEMMA RecordHalfOpenFailureIInv ==
  ASSUME IInv, NEW c \in Callers, RecordHalfOpenFailure(c)
  PROVE  IInv'
<1> USE DEF RecordHalfOpenFailure, Leave
<1>1. /\ Transition("open", c, "none") /\ openAge' = 0
      /\ healthy' = healthy /\ lostProbe' = lostProbe
  BY DEF Trip
<1>2. /\ pc' \in [Callers -> Stages]
      /\ \A d \in Callers \ {c} : pc'[d] = pc[d]
      /\ pc'[c] = "idle"
  BY DEF IInv, TypeOK, Stages
<1>3. openAge' \in 0 .. Cooldown
  BY <1>1, CooldownAssumption
<1>4. QED
  BY <1>1, <1>2, <1>3, TransitionIInv DEF States, Roles

(* A probe's success leaves no other probe behind; a stale call's success  *)
(* raises lateResult.                                                      *)
LEMMA RecordHalfOpenOkIInv ==
  ASSUME IInv, NEW c \in Callers, RecordHalfOpenOk(c)
  PROVE  IInv'
<1> USE DEF RecordHalfOpenOk, Leave
<1>1. CASE successes + 1 >= SuccessThreshold
  <2>1. /\ Transition("closed", c, "none") /\ openAge' = openAge
        /\ healthy' = healthy /\ lostProbe' = lostProbe
    BY <1>1
  <2>2. /\ pc' \in [Callers -> Stages]
        /\ \A d \in Callers \ {c} : pc'[d] = pc[d]
        /\ pc'[c] = "idle"
    BY DEF IInv, TypeOK, Stages
  <2>3. openAge' \in 0 .. Cooldown
    BY <2>1 DEF IInv, TypeOK
  <2>4. QED
    BY <2>1, <2>2, <2>3, TransitionIInv DEF States, Roles
<1>2. CASE ~(successes + 1 >= SuccessThreshold)
  <2> USE <1>2 DEF Stay
  <2>1. TypeOK'
    <3>1. /\ successes' \in 0 .. SuccessThreshold - 1
          /\ goodProbes' \in 0 .. SuccessThreshold - 1
      BY ThresholdAssumption DEF IInv, TypeOK, CountsFit
    <3>2. probing' \in BOOLEAN /\ lateResult' \in BOOLEAN
      BY Zenon
    <3>3. QED
      BY <3>1, <3>2, Zenon DEF IInv, TypeOK, Stages, Roles
  <2>2. CountersFitState'
    BY DEF IInv, CountersFitState
  <2>3. role[c] \in {"probe", "stale"}
    BY DEF IInv, TypeOK, RolesFit, Roles
  <2>4. CountsFit'
    <3>1. ~lateResult' => ~lateResult /\ role[c] = "probe"
      BY <2>3, Zenon
    <3>2. goodProbes' <= successes'
      BY DEF IInv, TypeOK, CountsFit
    <3>3. CASE lateResult'
      BY <3>2, <3>3 DEF CountsFit
    <3>4. CASE ~lateResult'
      <4>1. successes = goodProbes /\ role[c] = "probe"
        BY <3>1, <3>4 DEF IInv, CountsFit
      <4>2. successes' = goodProbes'
        BY <4>1 DEF IInv, TypeOK
      <4>3. QED
        BY <3>2, <4>2 DEF CountsFit
    <3>5. QED
      BY <3>3, <3>4
  <2>5. RolesFit'
    BY DEF IInv, TypeOK, RolesFit
  <2>6. ProbesFit'
    BY <2>3 DEF IInv, TypeOK, ProbesFit
  <2>7. QED
    BY <2>1, <2>2, <2>4, <2>5, <2>6 DEF IInv
<1>3. QED
  BY <1>1, <1>2

(* A result that arrives while open changes no state. *)
LEMMA RecordOpenIInv ==
  ASSUME IInv, NEW c \in Callers, RecordOpen(c)
  PROVE  IInv'
<1> USE DEF RecordOpen, Leave, Stay
<1>1. TypeOK'
  BY Zenon DEF IInv, TypeOK, Stages, Roles
<1>2. CountersFitState' /\ CountsFit'
  BY DEF IInv, CountersFitState, CountsFit
<1>3. RolesFit'
  BY DEF IInv, TypeOK, RolesFit
<1>4. ProbesFit'
  BY DEF IInv, TypeOK, ProbesFit, RolesFit, CountersFitState
<1>5. QED
  BY <1>1, <1>2, <1>3, <1>4 DEF IInv

-----------------------------------------------------------------------------
(* The clock: both ages advance together. *)
LEMMA TickIInv ==
  ASSUME IInv, Tick
  PROVE  IInv'
<1> USE DEF Tick
<1>1. openAge' \in 0 .. Cooldown /\ sinceTrip' \in 0 .. Cooldown
  BY CooldownAssumption DEF IInv, TypeOK, Older
<1>2. TypeOK'
  BY <1>1, Zenon DEF IInv, TypeOK
<1>3. CountersFitState' /\ RolesFit' /\ ProbesFit'
  BY DEF IInv, CountersFitState, RolesFit, ProbesFit
<1>4. CountsFit'
  BY DEF IInv, CountsFit
<1>5. QED
  BY <1>2, <1>3, <1>4 DEF IInv

(* The health of the downstream is no part of the invariant. *)
LEMMA FlipIInv ==
  ASSUME IInv, Flip
  PROVE  IInv'
<1> USE DEF Flip, breaker, history
<1>1. TypeOK'
  BY Zenon DEF IInv, TypeOK
<1>2. CountersFitState' /\ RolesFit' /\ ProbesFit' /\ CountsFit'
  BY DEF IInv, CountersFitState, RolesFit, ProbesFit, CountsFit
<1>3. QED
  BY <1>1, <1>2 DEF IInv

(* Nor is a step that changes nothing. *)
LEMMA StutterIInv ==
  ASSUME IInv, UNCHANGED vars
  PROVE  IInv'
<1> USE DEF vars, breaker, history
<1>1. TypeOK'
  BY Zenon DEF IInv, TypeOK
<1>2. CountersFitState' /\ RolesFit' /\ ProbesFit' /\ CountsFit'
  BY DEF IInv, CountersFitState, RolesFit, ProbesFit, CountsFit
<1>3. QED
  BY <1>1, <1>2 DEF IInv

-----------------------------------------------------------------------------
(* IInv holds in every state of every behaviour. *)
THEOREM Inductive == Spec => []IInv
<1>1. IInv /\ [Next]_vars => IInv'
  <2> SUFFICES ASSUME IInv, [Next]_vars PROVE IInv'
    OBVIOUS
  <2>1. ASSUME NEW c \in Callers, Allow(c) PROVE IInv'
    <3>1. CASE FailFast(c)
      BY <3>1, StutterIInv DEF FailFast
    <3>2. QED
      BY <2>1, <3>1, AdmitClosedIInv, AdmitFirstProbeIInv, AdmitProbeIInv
      DEF Allow
  <2>2. ASSUME NEW c \in Callers, Record(c) PROVE IInv'
    BY <2>2, RecordClosedOkIInv, RecordClosedFailureIInv,
       RecordHalfOpenFailureIInv, RecordHalfOpenOkIInv, RecordOpenIInv
    DEF Record
  <2>3. ASSUME NEW c \in Callers, Return(c) \/ Panic(c) PROVE IInv'
    BY <2>3, ReturnIInv, PanicIInv
  <2>4. CASE Tick \/ Flip
    BY <2>4, TickIInv, FlipIInv
  <2>5. CASE UNCHANGED vars
    BY <2>5, StutterIInv
  <2>6. QED
    BY <2>1, <2>2, <2>3, <2>4, <2>5 DEF Next, Do
<1>2. QED
  BY InitIInv, <1>1, PTL DEF Spec

(* Every variable keeps its type; the counters stay below their            *)
(* thresholds.                                                             *)
THEOREM TypeCorrect == Spec => []TypeOK
<1>1. IInv => TypeOK
  BY DEF IInv
<1>2. QED
  BY <1>1, Inductive, PTL

(* transition's resets keep each counter inside its own state. *)
THEOREM CountersNeverLeak == Spec => []CountersFitState
<1>1. IInv => CountersFitState
  BY DEF IInv
<1>2. QED
  BY <1>1, Inductive, PTL

(* A raised probe flag has a probe in flight behind it, or a panicked one. *)
THEOREM ProbeFlagIsOwned == Spec => []ProbeFlagHasOwner
<1>1. IInv => ProbeFlagHasOwner
  BY DEF IInv, ProbesFit, ProbeFlagHasOwner, InFlight
<1>2. QED
  BY <1>1, Inductive, PTL

(* Without a late result probes run one at a time. *)
THEOREM LoneProbe == Spec => []LoneProbeUnlessLate
<1>1. IInv => LoneProbeUnlessLate
  BY DEF IInv, ProbesFit, LoneProbeUnlessLate, InFlight
<1>2. QED
  BY <1>1, Inductive, PTL

-----------------------------------------------------------------------------
(* How a step can leave a state; both facts follow from the guards of the  *)
(* actions that call transition.                                           *)
LEMMA LeavesOpen ==
  ASSUME IInv, [Next]_vars, state = "open", state' # "open"
  PROVE  ~Cooling /\ state' = "halfOpen"
<1> USE DEF States
<1>1. CASE UNCHANGED vars
  BY <1>1 DEF vars, breaker
<1>2. ASSUME NEW c \in Callers, Do(c) PROVE ~Cooling /\ state' = "halfOpen"
  BY <1>2 DEF Do, Allow, Return, Record, AdmitClosed, AdmitFirstProbe,
              AdmitProbe, FailFast, RecordClosedOk, RecordClosedFailure,
              RecordHalfOpenFailure, RecordHalfOpenOk, RecordOpen, Stay,
              Transition, ResetOn, breaker, vars
<1>3. ASSUME NEW c \in Callers, Panic(c) PROVE FALSE
  BY <1>3 DEF Panic, breaker
<1>4. CASE Tick \/ Flip
  BY <1>4 DEF Tick, Flip, breaker
<1>5. QED
  BY <1>1, <1>2, <1>3, <1>4 DEF Next

(* Which steps leave half-open, and for where. *)
LEMMA LeavesHalfOpen ==
  ASSUME IInv, [Next]_vars, state = "halfOpen", state' # "halfOpen"
  PROVE  \E c \in Callers :
            \/ RecordHalfOpenFailure(c)
            \/ RecordHalfOpenOk(c) /\ successes + 1 >= SuccessThreshold
<1>1. CASE UNCHANGED vars
  BY <1>1 DEF vars, breaker
<1>2. ASSUME NEW c \in Callers, Do(c)
      PROVE  \/ RecordHalfOpenFailure(c)
             \/ RecordHalfOpenOk(c) /\ successes + 1 >= SuccessThreshold
  BY <1>2 DEF Do, Allow, Return, Record, AdmitClosed, AdmitFirstProbe,
              AdmitProbe, FailFast, RecordClosedOk, RecordClosedFailure,
              RecordHalfOpenOk, RecordOpen, Stay, breaker, vars
<1>3. ASSUME NEW c \in Callers, Panic(c) PROVE FALSE
  BY <1>3 DEF Panic, breaker
<1>4. CASE Tick \/ Flip
  BY <1>4 DEF Tick, Flip, breaker
<1>5. QED
  BY <1>1, <1>2, <1>3, <1>4 DEF Next

(* From closed no step leads straight to half-open. *)
LEMMA LeavesClosed ==
  ASSUME IInv, [Next]_vars, state = "closed"
  PROVE  state' # "halfOpen"
<1>1. CASE UNCHANGED vars
  BY <1>1 DEF vars, breaker
<1>2. ASSUME NEW c \in Callers, Do(c) PROVE state' # "halfOpen"
  BY <1>2 DEF Do, Allow, Return, Record, AdmitClosed, AdmitFirstProbe,
              AdmitProbe, FailFast, RecordClosedOk, RecordClosedFailure,
              RecordHalfOpenFailure, RecordHalfOpenOk, RecordOpen, Stay, Trip,
              Transition, ResetOn, breaker, vars
<1>3. ASSUME NEW c \in Callers, Panic(c) PROVE state' # "halfOpen"
  BY <1>3 DEF Panic, breaker
<1>4. CASE Tick \/ Flip
  BY <1>4 DEF Tick, Flip, breaker
<1>5. QED
  BY <1>1, <1>2, <1>3, <1>4 DEF Next

(* No call leaves an open breaker before a full cooldown since the trip,   *)
(* whichever call tripped it.                                              *)
THEOREM CooldownKept == Spec => CooldownRespected
<1>1. IInv /\ [Next]_vars
        => [state = "open" /\ state' # "open" => sinceTrip = Cooldown]_vars
  <2> SUFFICES ASSUME IInv, [Next]_vars, state = "open", state' # "open"
               PROVE  sinceTrip = Cooldown
    OBVIOUS
  <2>1. ~(openAge < Cooldown) /\ openAge = sinceTrip
    BY LeavesOpen DEF Cooling, IInv, CountsFit
  <2>2. QED
    BY <2>1, CooldownAssumption DEF IInv, TypeOK
<1>2. QED
  BY <1>1, Inductive, PTL DEF Spec, CooldownRespected

(* The transition diagram of the package comment is the only one. *)
THEOREM DiagramIsKept == Spec => LegalTransitions
<1> DEFINE Legal ==
      /\ state = "closed" => state' # "halfOpen"
      /\ state = "open" => state' # "closed"
      /\ state = "halfOpen" /\ state' # state =>
           \E c \in Callers : Recorded(c)
<1>1. IInv /\ [Next]_vars => [Legal]_vars
  <2> SUFFICES ASSUME IInv, [Next]_vars PROVE Legal
    OBVIOUS
  <2>1. state = "closed" => state' # "halfOpen"
    BY LeavesClosed
  <2>2. state = "open" => state' # "closed"
    BY LeavesOpen
  <2>3. ASSUME state = "halfOpen", state' # state
        PROVE  \E c \in Callers : Recorded(c)
    <3>1. PICK c \in Callers : RecordHalfOpenFailure(c) \/ RecordHalfOpenOk(c)
      BY <2>3, LeavesHalfOpen
    <3>2. Recorded(c)
      BY <3>1 DEF RecordHalfOpenFailure, RecordHalfOpenOk, Leave, Recorded,
                  IInv, TypeOK
    <3>3. QED
      BY <3>2
  <2>4. QED
    BY <2>1, <2>2, <2>3
<1>2. QED
  BY <1>1, Inductive, PTL DEF Spec, LegalTransitions

(* A half-open breaker closes on SuccessThreshold good probes, unless a    *)
(* late result was counted for one.                                        *)
THEOREM ClosingIsEarned == Spec => CloseIsEarned
<1> DEFINE Earned ==
      state = "halfOpen" /\ state' = "closed" =>
        \/ lateResult
        \/ \E c \in InFlight("stale") : Recorded(c)
        \/ goodProbes + 1 = SuccessThreshold
<1>1. IInv /\ [Next]_vars => [Earned]_vars
  <2> SUFFICES ASSUME IInv, [Next]_vars, state = "halfOpen",
                      state' = "closed", ~lateResult
               PROVE  \/ \E c \in InFlight("stale") : Recorded(c)
                      \/ goodProbes + 1 = SuccessThreshold
    OBVIOUS
  <2>1. PICK c \in Callers : /\ RecordHalfOpenOk(c)
                             /\ successes + 1 >= SuccessThreshold
    BY LeavesHalfOpen DEF RecordHalfOpenFailure, Trip, Transition, ResetOn
  <2>2. goodProbes + 1 = SuccessThreshold
    BY <2>1, ThresholdAssumption DEF IInv, TypeOK, CountsFit
  <2>3. QED
    BY <2>2
<1>2. QED
  BY <1>1, Inductive, PTL DEF Spec, CloseIsEarned
=============================================================================
