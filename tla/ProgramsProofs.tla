---------------------------- MODULE ProgramsProofs -----------------------------
(***************************************************************************)
(* Proofs about the programs of Programs, each on its own variables: what  *)
(* a run of one of them looks like halfway, and that its results fit.      *)
(***************************************************************************)
EXTENDS Programs, TLAPS, FiniteSetTheorems, SequenceTheorems

-----------------------------------------------------------------------------
(* A channel and what was taken from it are one sequence: a receive does   *)
(* not change it, a send appends to it.                                    *)
LEMMA Received ==
  ASSUME NEW T, NEW s \in Seq(T), NEW t \in Seq(T), t # <<>>
  PROVE  /\ Append(s, Head(t)) \o Tail(t) = s \o t
         /\ Append(s, Head(t)) \in Seq(T) /\ Tail(t) \in Seq(T)
<1>1. /\ Head(t) \in T /\ Tail(t) \in Seq(T) /\ Len(Tail(t)) = Len(t) - 1
      /\ \A i \in 1 .. Len(Tail(t)) : Tail(t)[i] = t[i + 1]
      /\ Head(t) = t[1] /\ Len(t) \in Nat \ {0} /\ Len(s) \in Nat
  BY HeadTailProperties, EmptySeq, LenProperties
<1>2. /\ Append(s, Head(t)) \in Seq(T) /\ Len(Append(s, Head(t))) = Len(s) + 1
      /\ \A i \in 1 .. Len(s) : Append(s, Head(t))[i] = s[i]
      /\ Append(s, Head(t))[Len(s) + 1] = Head(t)
  BY <1>1, AppendProperties
<1> DEFINE a == Append(s, Head(t))
           b == Tail(t)
<1>3. /\ a \o b \in Seq(T) /\ Len(a \o b) = Len(s) + Len(t)
      /\ \A i \in 1 .. Len(s) + Len(t) :
           (a \o b)[i] = IF i <= Len(s) + 1 THEN a[i] ELSE b[i - (Len(s) + 1)]
  BY <1>1, <1>2, ConcatProperties
<1>4. /\ s \o t \in Seq(T) /\ Len(s \o t) = Len(s) + Len(t)
      /\ \A i \in 1 .. Len(s) + Len(t) :
           (s \o t)[i] = IF i <= Len(s) THEN s[i] ELSE t[i - Len(s)]
  BY ConcatProperties
<1>5. ASSUME NEW i \in 1 .. Len(s) + Len(t) PROVE (a \o b)[i] = (s \o t)[i]
  <2>1. CASE i <= Len(s)
    BY <2>1, <1>1, <1>2, <1>3, <1>4
  <2>2. CASE i = Len(s) + 1
    BY <2>2, <1>1, <1>2, <1>3, <1>4
  <2>3. CASE i > Len(s) + 1
    <3>1. i - (Len(s) + 1) \in 1 .. Len(b) /\ (i - (Len(s) + 1)) + 1 = i - Len(s)
      BY <2>3, <1>1
    <3>2. b[i - (Len(s) + 1)] = t[i - Len(s)]
      BY <3>1, <1>1
    <3>3. QED
      BY <3>2, <2>3, <1>1, <1>3, <1>4
  <2>4. QED
    BY <2>1, <2>2, <2>3, <1>1
<1>6. a \o b = s \o t
  <2> HIDE DEF a, b
  <2> QED
    BY <1>3, <1>4, <1>5, SeqEqual
<1>7. QED
  BY <1>1, <1>2, <1>6

LEMMA Sent ==
  ASSUME NEW T, NEW s \in Seq(T), NEW t \in Seq(T), NEW e \in T
  PROVE  s \o Append(t, e) = Append(s \o t, e)
<1>1. <<e>> \in Seq(T) /\ s \o t \in Seq(T)
  BY ConcatProperties
<1>2. QED
  BY <1>1, AppendIsConcat, ConcatAssociative

(* As many different numbers as there are: each of them is there.          *)
LEMMA AllNumbers ==
  ASSUME NEW n \in Nat, NEW f \in [1 .. n -> 1 .. n],
         \A i, j \in 1 .. n : f[i] = f[j] => i = j,
         NEW k \in 1 .. n
  PROVE  \E i \in 1 .. n : f[i] = k
<1> SUFFICES ASSUME \A i \in 1 .. n : f[i] # k PROVE FALSE
  OBVIOUS
<1>1. f \in [1 .. n -> (1 .. n) \ {k}]
  OBVIOUS
<1>2. IsFiniteSet(1 .. n) /\ Cardinality(1 .. n) = n
  BY FS_Interval
<1>3. IsFiniteSet((1 .. n) \ {k}) /\ Cardinality((1 .. n) \ {k}) = n - 1
  BY <1>2, FS_RemoveElement
<1>4. Cardinality((1 .. n) \ {k}) < Cardinality(1 .. n)
  BY <1>2, <1>3
<1>5. \E i, j \in 1 .. n : i # j /\ f[i] = f[j]
  <2> DEFINE all  == 1 .. n
             rest == all \ {k}
  <2>1. /\ IsFiniteSet(all) /\ IsFiniteSet(rest) /\ f \in [all -> rest]
        /\ Cardinality(rest) < Cardinality(all)
    BY <1>1, <1>2, <1>3, <1>4
  <2> HIDE DEF all, rest
  <2>2. \E i, j \in all : i # j /\ f[i] = f[j]
    BY <2>1, FS_PigeonHole
  <2> QED
    BY <2>2 DEF all
<1>6. QED
  BY <1>5

(* No more different numbers than there are.                               *)
LEMMA NoMoreNumbers ==
  ASSUME NEW m \in Nat, NEW n \in Nat, NEW f \in [1 .. m -> 1 .. n],
         \A i, j \in 1 .. m : f[i] = f[j] => i = j
  PROVE  m <= n
<1>1. /\ IsFiniteSet(1 .. m) /\ Cardinality(1 .. m) = m
      /\ IsFiniteSet(1 .. n) /\ Cardinality(1 .. n) = n
  BY FS_Interval
<1>2. QED
  BY <1>1, FS_PigeonHole

-----------------------------------------------------------------------------
(* errgroup: which goroutines have been started, which slots they filled,  *)
(* and why the group has an error.                                         *)
GroupInv ==
  /\ ids \in 0 .. MaxIds /\ started \in 0 .. ids
  /\ fetch \in [1 .. MaxIds -> {"none", "running", "ok", "failed"}]
  /\ \A i \in 1 .. MaxIds : fetch[i] = "none" <=> i > started
  /\ slots = {i \in 1 .. MaxIds : fetch[i] = "ok"}
  /\ call = "idle" => started = 0
  /\ groupErr \in BOOLEAN
  /\ answer \in [results : SUBSET (1 .. MaxIds), err : BOOLEAN, returned : BOOLEAN]
  /\ groupErr <=> \E i \in 1 .. MaxIds : fetch[i] = "failed"
  /\ answer.returned =>
       /\ call # "idle" /\ started = ids
       /\ \A i \in 1 .. MaxIds : fetch[i] # "running"
       /\ answer.err = groupErr
       /\ answer.results = IF call = "fetchAll" /\ groupErr THEN {} ELSE slots

LEMMA GroupInit == ASSUME G!Init PROVE GroupInv
<1>1. /\ call = "idle" /\ ids = 0 /\ started = 0 /\ slots = {} /\ groupErr = FALSE
      /\ fetch = [i \in 1 .. MaxIds |-> "none"]
      /\ answer = [results |-> {}, err |-> FALSE, returned |-> FALSE]
  BY DEF G!Init, G!Ids, G!NoAnswer
<1>2. 0 \in 0 .. MaxIds /\ 0 \in 0 .. 0 /\ \A i \in 1 .. MaxIds : i > 0
  BY GroupAssumption
<1>3. ~ answer.returned /\ answer \in [results : SUBSET (1 .. MaxIds), err : BOOLEAN, returned : BOOLEAN]
  BY <1>1
<1>4. \A i \in 1 .. MaxIds : fetch[i] = "none"
  BY <1>1
<1>5. slots = {i \in 1 .. MaxIds : fetch[i] = "ok"}
  BY <1>1
<1>6. QED
  BY <1>1, <1>2, <1>3, <1>4, <1>5 DEF GroupInv

LEMMA GroupNext == ASSUME GroupInv, [G!Next]_(G!vars) PROVE GroupInv'
<1> USE GroupAssumption DEF GroupInv, G!Ids
<1>1. CASE G!fetchAll \/ G!fetchWithLimit
  BY <1>1 DEF G!fetchAll, G!fetchWithLimit, G!group
<1>2. CASE G!Go
  BY <1>2 DEF G!Go, G!arguments, G!group
<1>3. ASSUME NEW i \in 1 .. MaxIds, G!Fetched(i) PROVE GroupInv'
  BY <1>3 DEF G!Fetched, G!arguments, G!group
<1>4. ASSUME NEW i \in 1 .. MaxIds, G!FetchFails(i) PROVE GroupInv'
  BY <1>4 DEF G!FetchFails, G!arguments
<1>5. CASE G!Wait
  BY <1>5 DEF G!Wait, G!arguments, G!Running
<1>6. CASE G!CancelParent
  BY <1>6 DEF G!CancelParent, G!arguments, G!group
<1>7. CASE UNCHANGED G!vars
  BY <1>7 DEF G!vars, G!arguments, G!group
<1>8. QED
  BY <1>1, <1>2, <1>3, <1>4, <1>5, <1>6, <1>7 DEF G!Next, G!Step

(* The call has an error exactly if a fetch failed, and hence a slot is    *)
(* empty; next to it comes what the two functions say.                     *)
LEMMA GroupFits == ASSUME GroupInv PROVE GroupResultsFit
<1> SUFFICES ASSUME answer.returned
             PROVE  /\ answer.err <=> slots # 1 .. ids
                    /\ answer.results = IF call = "fetchAll" /\ answer.err THEN {}
                                        ELSE {i \in 1 .. MaxIds : fetch[i] = "ok"}
  BY Zenon DEF GroupResultsFit, G!ResultsFit, G!Ids
<1>1. \A i \in 1 .. MaxIds : fetch[i] \in {"ok", "failed"} <=> i <= ids
  BY GroupAssumption DEF GroupInv
<1>2. slots # 1 .. ids <=> \E i \in 1 .. MaxIds : fetch[i] = "failed"
  BY <1>1, GroupAssumption DEF GroupInv
<1>3. answer.err <=> slots # 1 .. ids
  BY <1>2 DEF GroupInv
<1>4. QED
  BY <1>3 DEF GroupInv

LEMMA GroupStep == [Next]_vars => [G!Next]_(G!vars)
  BY DEF Next, vars, groupVars, G!vars, G!arguments, G!group

(* errgroup: a call returns an error exactly if a slot is empty.           *)
THEOREM ErrorIffSlotEmpty == Spec => []GroupResultsFit
<1>1. Init => GroupInv
  BY GroupInit DEF Init
<1>2. GroupInv /\ [Next]_vars => GroupInv'
  BY GroupNext, GroupStep
<1>3. QED
  BY <1>1, <1>2, GroupFits, PTL DEF Spec

-----------------------------------------------------------------------------
(* share-memory-by-communicating: a URL that has not been fed yet is       *)
(* nowhere, and the others are with one goroutine each.                    *)
NowhereYet(r) == /\ r \notin sleeping \cup awake /\ mainHolds # r
                 /\ \A p \in Pollers : holds[p] # r

PollerInv ==
  /\ fed \in 0 .. Len(Urls)
  /\ holds \in [Pollers -> U!Resources \cup {NoUrl}]
  /\ mainHolds \in U!Resources \cup {NoUrl}
  /\ sleeping \subseteq U!Resources /\ awake \subseteq U!Resources
  /\ \A i \in DOMAIN Urls : i > fed => NowhereYet(Urls[i])
  /\ OneOwner

LEMMA PollerInit == ASSUME U!Init PROVE PollerInv
<1> USE PollerAssumption
<1>1. /\ fed = 0 /\ holds = [p \in Pollers |-> NoUrl] /\ mainHolds = NoUrl
      /\ sleeping = {} /\ awake = {}
  BY DEF U!Init
<1>2. OneOwner
  BY <1>1 DEF OneOwner, U!OneOwner
<1>3. \A i \in DOMAIN Urls : Urls[i] \in U!Resources
  BY DEF U!Resources
<1>4. \A i \in DOMAIN Urls : i > fed => NowhereYet(Urls[i])
  BY <1>1, <1>3 DEF NowhereYet
<1>5. 0 \in 0 .. Len(Urls)
  BY LenProperties
<1>6. QED
  BY <1>1, <1>2, <1>4, <1>5 DEF PollerInv

LEMMA PollerNext == ASSUME PollerInv, [U!Next]_(U!vars) PROVE PollerInv'
<1> USE PollerAssumption DEF PollerInv, OneOwner, U!OneOwner, NowhereYet
<1>1. CASE U!Start
  BY <1>1 DEF U!Start, U!goroutines, U!cycle
<1>2. ASSUME NEW p \in Pollers, U!Feed(p) PROVE PollerInv'
  BY <1>2 DEF U!Feed, U!Receives
<1>3. ASSUME NEW r \in U!Resources, NEW p \in Pollers, U!Wake(p, r) PROVE PollerInv'
  BY <1>3 DEF U!Wake, U!Receives
<1>4. ASSUME NEW p \in Pollers, U!Poll(p) \/ U!Status(p) PROVE PollerInv'
  BY <1>4 DEF U!Poll, U!Status, U!cycle
<1>5. ASSUME NEW p \in Pollers, U!Complete(p) PROVE PollerInv'
  BY <1>5 DEF U!Complete
<1>6. CASE U!StartSleep
  BY <1>6 DEF U!StartSleep, U!goroutines
<1>7. ASSUME NEW r \in U!Resources, U!EndSleep(r) PROVE PollerInv'
  BY <1>7 DEF U!EndSleep, U!goroutines
<1>8. CASE UNCHANGED U!vars
  BY <1>8 DEF U!vars, U!goroutines, U!cycle
<1>9. QED
  BY <1>1, <1>2, <1>3, <1>4, <1>5, <1>6, <1>7, <1>8 DEF U!Next, U!PollerStep

LEMMA PollerStep == [Next]_vars => [U!Next]_(U!vars)
  BY DEF Next, vars, pollerVars, U!vars, U!goroutines, U!cycle

(* share-memory-by-communicating: no resource is with two goroutines.      *)
THEOREM ResourceHasOneOwner == Spec => []OneOwner
<1>1. Init => PollerInv
  BY PollerInit DEF Init
<1>2. PollerInv /\ [Next]_vars => PollerInv'
  BY PollerNext, PollerStep
<1>3. PollerInv => OneOwner
  BY DEF PollerInv
<1>4. QED
  BY <1>1, <1>2, <1>3, PTL DEF Spec

-----------------------------------------------------------------------------
(* graceful-shutdown-signals: the channel closed by the goroutine of       *)
(* wg.Wait is the proof that every worker has stopped.                     *)
SignalInv ==
  /\ worker \in [JobWorkers -> {"none", "select", "job", "drain", "stopped"}]
  /\ workersDone \in BOOLEAN
  /\ workersDone => run # "idle" /\ \A w \in JobWorkers : worker[w] = "stopped"
  /\ run = "clean" => workersDone

LEMMA SignalInit == ASSUME S!Init PROVE SignalInv
<1>1. run = "idle" /\ workersDone = FALSE /\ worker = [w \in JobWorkers |-> "none"]
  BY DEF S!Init
<1>2. QED
  BY <1>1 DEF SignalInv

LEMMA SignalNext == ASSUME SignalInv, [S!Next]_(S!vars) PROVE SignalInv'
<1> USE DEF SignalInv
<1>1. CASE S!Start
  BY <1>1 DEF S!Start
<1>2. CASE S!Signal
  BY <1>2 DEF S!Signal
<1>3. ASSUME NEW w \in JobWorkers,
             S!PickUp(w) \/ S!Complete(w) \/ S!Cancelled(w) \/ S!Stop(w)
      PROVE  SignalInv'
  BY <1>3 DEF S!PickUp, S!Complete, S!Cancelled, S!Stop
<1>4. CASE S!Await
  BY <1>4 DEF S!Await
<1>5. CASE S!CloseDone
  <2>1. /\ run = "race" /\ workersDone' = TRUE /\ UNCHANGED <<run, worker>>
        /\ \A w \in JobWorkers : worker[w] = "stopped"
    BY <1>5 DEF S!CloseDone
  <2>2. QED
    BY <2>1
<1>6. CASE S!Drained \/ S!TimeOut
  BY <1>6 DEF S!Drained, S!TimeOut, S!Return
<1>7. CASE UNCHANGED S!vars
  BY <1>7 DEF S!vars
<1>8. QED
  BY <1>1, <1>2, <1>3, <1>4, <1>5, <1>6, <1>7 DEF S!Next, S!RunStep, S!WorkerStep

(* http-server: a request changes only while the process is there.         *)
ServerInv == H!AnsweredBeforeExit

LEMMA ServerInit == ASSUME H!Init PROVE ServerInv
  BY DEF H!Init, ServerInv, H!AnsweredBeforeExit

LEMMA ServerNext == ASSUME ServerInv, [H!Next]_(H!vars) PROVE ServerInv'
<1> USE DEF ServerInv, H!AnsweredBeforeExit, H!Up, H!Exited, H!Open
<1>1. CASE H!Start \/ H!Signal \/ H!ServeFails \/ H!Listen \/ H!Quit \/ H!Deadline
  BY <1>1 DEF H!Start, H!Signal, H!ServeFails, H!Listen, H!Quit, H!Deadline
<1>2. CASE H!Exit
  BY <1>2 DEF H!Exit
<1>3. ASSUME NEW r \in Requests, H!Accept(r) \/ H!Refuse(r) \/ H!Handler(r)
      PROVE  ServerInv'
  <2>1. H!Up /\ UNCHANGED server
    BY <1>3 DEF H!Accept, H!Refuse, H!Handler, H!Route, H!Handle, H!handlePanic, H!recoverer
  <2>2. QED
    BY <2>1
<1>4. CASE UNCHANGED H!vars
  BY <1>4 DEF H!vars
<1>5. QED
  BY <1>1, <1>2, <1>3, <1>4 DEF H!Next, H!Step

LEMMA SignalStep == [Next]_vars => [S!Next]_(S!vars)
  BY DEF Next, vars, signalVars, S!vars

LEMMA ServerStep == [Next]_vars => [H!Next]_(H!vars)
  BY DEF Next, vars, serverVars, H!vars

-----------------------------------------------------------------------------
(* A call that is over for the server: SlowEcho may never have been sent. *)
Drained(c) == rpc[c] = "returned" \/ (c = "slow" /\ rpc[c] = "none" /\ "client" \in cut)

(* grpc-advanced: which calls have been made by the time run is in a demo, *)
(* and the one message of the stream that is on its way.                   *)
CallsInv ==
  /\ client \in {"idle", "stop"} \cup E!Calls \cup E!Ended
  /\ rpc \in [E!Calls -> {"none", "arrived", "handler", "returned"}]
  /\ reply \in [E!Calls -> {"none", "ok", "unauthenticated", "deadline exceeded", "eof"}]
  /\ \A c \in E!Calls : reply[c] # "none" => rpc[c] = "returned"
  /\ client \in {"anonymous", "slow", "bidi", "stop"} => rpc["authed"] # "none"
  /\ client \in {"slow", "bidi", "stop"} => rpc["anonymous"] # "none"
  /\ client \in {"bidi", "stop"} => rpc["slow"] # "none" \/ "client" \in cut
  /\ client = "stop" => rpc["bidi"] # "none"
  /\ client = "stopped" => \A c \in E!Calls : Drained(c)
  /\ client \in {"stop", "stopped"} \/ reply["bidi"] # "none" => closedSend

StreamInv ==
  /\ up \in Seq(Nat) /\ down \in Seq(Nat) /\ echoes \in Seq(Nat)
  /\ turn \in {"send", "recv"} /\ Len(echoes) <= EchoMessages
  /\ \A i \in 1 .. Len(echoes) : echoes[i] = i
  /\ \A i \in 1 .. Len(up) : up[i] = Len(echoes) + 1
  /\ \A i \in 1 .. Len(down) : down[i] = Len(echoes) + 1
  /\ turn = "send" => Len(up) = 0 /\ Len(down) = 0
  /\ turn = "recv" => Len(up) + Len(down) = 1 /\ Len(echoes) < EchoMessages
  /\ closedSend => turn = "send" /\ Len(echoes) = EchoMessages

EchoInv == CallsInv /\ StreamInv

LEMMA EchoInit == ASSUME E!Init PROVE EchoInv
<1>1. <<>> \in Seq(Nat) /\ Len(<<>>) = 0
  OBVIOUS
<1> QED
  BY <1>1, EchoAssumption DEF E!Init, EchoInv, CallsInv, StreamInv, E!Calls, E!Ended

(* The calls: a handler that returns, and then every other step.           *)
LEMMA CallReturns ==
  ASSUME CallsInv, NEW c \in E!Calls,
         NEW status \in {"ok", "unauthenticated", "deadline exceeded", "eof"},
         client \notin E!Ended, E!Returns(c, status), rpc[c] # "none", c = "bidi" => closedSend
  PROVE  CallsInv'
<1>1. /\ rpc' = [rpc EXCEPT ![c] = "returned"] /\ reply' = [reply EXCEPT ![c] = status]
      /\ UNCHANGED <<client, cut, closedSend>>
  BY DEF E!Returns, E!stream
<1> QED
  BY <1>1 DEF CallsInv, E!Calls, E!Ended

LEMMA CallsNext == ASSUME CallsInv, [E!Next]_(E!vars) PROVE CallsInv'
<1>1. CASE E!Start \/ E!Fail \/ UNCHANGED E!vars
  <2>1. UNCHANGED <<rpc, reply, cut, closedSend>> /\ client' \in {client, "authed", "failed"}
    BY <1>1 DEF E!Start, E!Fail, E!vars, E!calls, E!stream
  <2>2. client' = client \/ (client' = "authed" /\ client = "idle") \/ client' = "failed"
    BY <1>1 DEF E!Start, E!Fail, E!vars
  <2> QED
    BY <2>1, <2>2 DEF CallsInv, Drained, E!Calls, E!Ended
<1>2. ASSUME NEW c \in E!Calls, E!checkAuth(c)
      PROVE  CallsInv'
  <2>1. CASE c = "anonymous"
    BY <1>2, <2>1, CallReturns DEF E!checkAuth, E!Serves
  <2>2. CASE c # "anonymous"
    <3>1. /\ rpc[c] = "arrived" /\ rpc' = [rpc EXCEPT ![c] = "handler"] /\ client \notin E!Ended
          /\ UNCHANGED <<client, reply, cut, closedSend>>
      BY <1>2, <2>2 DEF E!checkAuth, E!Serves, E!stream
    <3> QED
      BY <3>1 DEF CallsInv, E!Calls, E!Ended
  <2> QED
    BY <2>1, <2>2
<1>3. CASE E!UnaryEcho
  <2>1. PICK c \in {"authed", "anonymous"} : E!Serves(c, "handler") /\ E!Returns(c, "ok")
    BY <1>3 DEF E!UnaryEcho
  <2> QED
    BY <2>1, CallReturns DEF E!Serves, E!Calls
<1>4. CASE E!SlowEcho
  <2>1. PICK status \in {"ok", "deadline exceeded"} : E!Returns("slow", status)
    BY <1>4 DEF E!SlowEcho
  <2> QED
    BY <1>4, <2>1, CallReturns DEF E!SlowEcho, E!Serves, E!Calls
<1>5. CASE E!BidiEchoEnds
  BY <1>5, CallReturns DEF E!BidiEchoEnds, E!Serves, E!Calls
<1>6. ASSUME NEW c \in E!Calls, E!Call(c)
      PROVE  CallsInv'
  <2>1. /\ client \in E!Calls /\ rpc[c] = "none" /\ rpc' = [rpc EXCEPT ![c] = "arrived"]
        /\ UNCHANGED <<client, reply, cut, closedSend>>
    BY <1>6 DEF E!Call, E!stream, E!Calls
  <2> QED
    BY <2>1 DEF CallsInv, E!Calls, E!Ended
<1>7. ASSUME NEW side \in {"client", "server"}, E!Deadline(side)
      PROVE  CallsInv'
  <2>1. /\ client # "stopped" /\ cut \subseteq cut' /\ UNCHANGED <<client, rpc, reply, closedSend>>
    BY <1>7 DEF E!Deadline, E!stream, E!Ended
  <2> QED
    BY <2>1 DEF CallsInv
<1>8. CASE E!demoAuth \/ E!demoDeadline \/ E!RecvEnd
  <2>1. /\ client \in E!Calls /\ client' \in {E!After[client], "failed"}
        /\ rpc[client] # "none" \/ (client = "slow" /\ "client" \in cut)
        /\ client = "bidi" => reply["bidi"] # "none"
        /\ UNCHANGED <<rpc, reply, cut, closedSend>>
    BY <1>8 DEF E!demoAuth, E!demoDeadline, E!RecvEnd, E!Settle, E!calls, E!stream, CallsInv, E!Calls
  <2>2. CASE client' = "failed"
    BY <2>1, <2>2 DEF CallsInv, E!Calls, E!Ended
  <2>3. CASE client' = E!After[client]
    <3>1. /\ client = "authed" => client' = "anonymous"
          /\ client = "anonymous" => client' = "slow"
          /\ client = "slow" => client' = "bidi"
          /\ client = "bidi" => client' = "stop"
      BY <2>3 DEF E!After
    <3>2. client \in {"authed", "anonymous", "slow", "bidi"}
      BY <2>1 DEF E!Calls
    <3>3. client' \in E!Calls \cup {"stop"}
      BY <3>1, <3>2 DEF E!Calls
    <3> QED
      BY <2>1, <3>1, <3>2, <3>3 DEF CallsInv, E!Ended
  <2> QED
    BY <2>1, <2>2, <2>3
<1>9. CASE E!BidiEcho \/ E!Send \/ E!Recv
  BY <1>9 DEF E!BidiEcho, E!Send, E!Recv, E!calls, CallsInv, Drained
<1>10. CASE E!CloseSend
  BY <1>10 DEF E!CloseSend, E!calls, CallsInv, Drained
<1>11. CASE E!GracefulStop
  <2>1. /\ client = "stop" /\ client' = "stopped" /\ UNCHANGED <<rpc, reply, cut, closedSend>>
        /\ \A c \in E!Calls : rpc[c] # "handler" /\ rpc[c] # "arrived"
    BY <1>11 DEF E!GracefulStop, E!calls, E!stream
  <2>2. \A c \in E!Calls : Drained(c)
    BY <2>1 DEF CallsInv, Drained, E!Calls
  <2> QED
    BY <2>1, <2>2 DEF CallsInv, Drained, E!Calls, E!Ended
<1> QED
  BY <1>1, <1>2, <1>3, <1>4, <1>5, <1>6, <1>7, <1>8, <1>9, <1>10, <1>11 DEF E!Next, E!Step

(* The stream: one message at a time, there and back.                      *)
LEMMA OneOfTwo ==
  ASSUME NEW m \in Nat, NEW n \in Nat, m > 0, m + n = 1 \/ n + m = 1
  PROVE  m = 1 /\ n = 0 /\ 1 \in 1 .. m
OBVIOUS

LEMMA StreamNext == ASSUME StreamInv, [E!Next]_(E!vars) PROVE StreamInv'
<1> USE EchoAssumption
<1>1. up \in Seq(Nat) /\ down \in Seq(Nat) /\ echoes \in Seq(Nat)
  BY DEF StreamInv
<1>2. Len(up) \in Nat /\ Len(down) \in Nat /\ Len(echoes) \in Nat
  BY <1>1
<1>3. CASE UNCHANGED E!stream
  BY <1>3 DEF E!stream, StreamInv
<1>4. CASE E!BidiEcho
  <2>1. /\ up # <<>> /\ up' = Tail(up) /\ down' = Append(down, Head(up))
        /\ UNCHANGED <<closedSend, turn, echoes>>
    BY <1>4 DEF E!BidiEcho
  <2>2. Len(up) > 0
    BY <1>1, <1>2, <2>1
  <2>3. /\ turn = "recv" /\ Len(up) = 1 /\ Len(down) = 0 /\ up[1] = Len(echoes) + 1
        /\ Len(echoes) < EchoMessages
    <3>1. turn = "recv"
      BY <1>1, <1>2, <2>2 DEF StreamInv
    <3>2. Len(up) + Len(down) = 1
      BY <3>1 DEF StreamInv
    <3>3. Len(up) = 1 /\ Len(down) = 0 /\ 1 \in 1 .. Len(up)
      BY <1>2, <2>2, <3>2, OneOfTwo
    <3>4. up[1] = Len(echoes) + 1 /\ Len(echoes) < EchoMessages
      BY <3>1, <3>3 DEF StreamInv
    <3> QED
      BY <3>1, <3>3, <3>4
  <2>4. /\ up' \in Seq(Nat) /\ Len(up') = 0
        /\ down' \in Seq(Nat) /\ Len(down') = 1 /\ down'[1] = Len(echoes) + 1
    BY <1>1, <1>2, <2>1, <2>3
  <2> QED
    BY <2>1, <2>3, <2>4 DEF StreamInv
<1>5. CASE E!Send
  <2>1. /\ turn = "send" /\ up' = Append(up, Len(echoes) + 1) /\ turn' = "recv"
        /\ Len(echoes) < EchoMessages /\ ~closedSend
        /\ UNCHANGED <<down, closedSend, echoes>>
    BY <1>5 DEF E!Send, E!Sending
  <2>2. Len(up) = 0 /\ Len(down) = 0
    BY <2>1 DEF StreamInv
  <2>3. up' \in Seq(Nat) /\ Len(up') = 1 /\ up'[1] = Len(echoes) + 1
    BY <1>1, <1>2, <2>1, <2>2
  <2> QED
    BY <2>1, <2>2, <2>3 DEF StreamInv
<1>6. CASE E!Recv
  <2>1. /\ turn = "recv" /\ down # <<>> /\ ~closedSend
        /\ echoes' = Append(echoes, Head(down)) /\ down' = Tail(down) /\ turn' = "send"
        /\ UNCHANGED <<up, closedSend>>
    BY <1>6 DEF E!Recv, E!Sending
  <2>2. Len(down) > 0
    BY <1>1, <1>2, <2>1
  <2>3. /\ Len(down) = 1 /\ Len(up) = 0 /\ down[1] = Len(echoes) + 1
        /\ Len(echoes) < EchoMessages
    <3>1. Len(up) + Len(down) = 1 /\ Len(echoes) < EchoMessages
      BY <2>1 DEF StreamInv
    <3>2. Len(down) = 1 /\ Len(up) = 0 /\ 1 \in 1 .. Len(down)
      BY <1>2, <2>2, <3>1, OneOfTwo
    <3>3. down[1] = Len(echoes) + 1
      BY <3>2 DEF StreamInv
    <3> QED
      BY <3>1, <3>2, <3>3
  <2>4. down' \in Seq(Nat) /\ Len(down') = 0 /\ Head(down) = Len(echoes) + 1
    BY <1>1, <1>2, <2>1, <2>3
  <2>5. /\ echoes' \in Seq(Nat) /\ Len(echoes') = Len(echoes) + 1
        /\ \A i \in 1 .. Len(echoes) : echoes'[i] = echoes[i]
        /\ echoes'[Len(echoes) + 1] = Len(echoes) + 1
    BY <1>1, <1>2, <2>1, <2>4
  <2>6. \A i \in 1 .. Len(echoes') : echoes'[i] = i
    <3> SUFFICES ASSUME NEW i \in 1 .. Len(echoes) + 1 PROVE echoes'[i] = i
      BY <2>5
    <3>1. CASE i = Len(echoes) + 1
      BY <2>5, <3>1
    <3>2. CASE i \in 1 .. Len(echoes)
      BY <2>5, <3>2 DEF StreamInv
    <3> QED
      BY <1>2, <3>1, <3>2
  <2>7. up' \in Seq(Nat) /\ Len(up') = 0 /\ Len(echoes') <= EchoMessages
    BY <1>1, <1>2, <2>1, <2>3, <2>5
  <2> QED
    <3>1. \A i \in 1 .. Len(up') : up'[i] = Len(echoes') + 1
      BY <2>7
    <3>2. \A i \in 1 .. Len(down') : down'[i] = Len(echoes') + 1
      BY <2>4
    <3> QED
      BY <2>1, <2>4, <2>5, <2>6, <2>7, <3>1, <3>2 DEF StreamInv
<1>7. CASE E!CloseSend
  BY <1>7 DEF E!CloseSend, E!Sending, StreamInv
<1> QED
  BY <1>3, <1>4, <1>5, <1>6, <1>7 DEF E!Next, E!Step, E!Start, E!Fail, E!vars, E!stream, E!UnaryEcho,
     E!SlowEcho, E!BidiEchoEnds, E!Returns, E!Call, E!demoAuth, E!demoDeadline, E!RecvEnd, E!Settle,
     E!GracefulStop, E!checkAuth, E!Deadline

LEMMA EchoNext == ASSUME EchoInv, [E!Next]_(E!vars) PROVE EchoInv'
  BY CallsNext, StreamNext DEF EchoInv

LEMMA EchoFits == ASSUME EchoInv PROVE E!StoppedIsDrained
<1> SUFFICES ASSUME client = "stopped"
             PROVE  /\ \A c \in E!Calls : Drained(c)
                    /\ echoes = [i \in 1 .. EchoMessages |-> i]
  BY DEF E!StoppedIsDrained, Drained
<1>1. /\ echoes \in Seq(Nat) /\ Len(echoes) = EchoMessages
      /\ \A i \in 1 .. Len(echoes) : echoes[i] = i
      /\ \A c \in E!Calls : Drained(c)
  BY DEF EchoInv, CallsInv, StreamInv
<1>2. echoes = [i \in 1 .. EchoMessages |-> echoes[i]]
  BY <1>1
<1>3. [i \in 1 .. EchoMessages |-> echoes[i]] = [i \in 1 .. EchoMessages |-> i]
  BY <1>1
<1> QED
  BY <1>1, <1>2, <1>3

LEMMA EchoStep == [Next]_vars => [E!Next]_(E!vars)
  BY DEF Next, vars, echoVars, E!vars, E!calls, E!stream

(* graceful-shutdown-signals, http-server, grpc-advanced: an orderly end    *)
(* means that what was begun has been finished, whenever a deadline passes. *)
THEOREM OrderlyEndHasDrained == Spec => []CleanMeansDrained
<1>1. Init => SignalInv /\ ServerInv /\ EchoInv
  BY SignalInit, ServerInit, EchoInit DEF Init
<1>2. SignalInv /\ ServerInv /\ EchoInv /\ [Next]_vars => SignalInv' /\ ServerInv' /\ EchoInv'
  BY SignalNext, SignalStep, ServerNext, ServerStep, EchoNext, EchoStep
<1>3. SignalInv /\ ServerInv /\ EchoInv => CleanMeansDrained
  BY EchoFits DEF SignalInv, ServerInv, CleanMeansDrained, S!CleanMeansDrained
<1>4. QED
  BY <1>1, <1>2, <1>3, PTL DEF Spec

-----------------------------------------------------------------------------
(* Both are on call until alice commits; then only bob is, and under read  *)
(* committed his update is still to come.                                  *)
PostgresInv ==
  /\ level \in {"read committed", "serializable"}
  /\ sees \in [W!Doctors -> Nat]
  /\ script \in {"aliceReads", "bobReads", "aliceUpdates", "bobUpdates", "aliceCommits"}
       => onCall = W!Doctors
  /\ script = "bobUpdates" => "alice" \in off
  /\ script = "aliceCommits" /\ ~W!Serializable => "bob" \in off
  /\ script = "bobCommits" =>
       onCall = {"bob"} /\ (~W!Serializable => "bob" \in off)
  /\ script = "check" /\ ~W!Serializable => onCall = {}
  /\ script = "retry" => W!Serializable /\ onCall = {"bob"}
  /\ script \in {"idle", "setup"} => ~W!Serializable
  /\ W!VerdictFitsLevel

(* The module has its own instance of FiniteSets. *)
LEMMA SameCardinality == \A T : W!Cardinality(T) = Cardinality(T)
  BY DEF W!Cardinality, Cardinality

(* What retryBob reads: one doctor. *)
LEMMA BobAlone == Cardinality({"bob"}) = 1
  BY FS_Singleton

(* The number of doctors a read returns. *)
LEMMA CountsAreNat == onCall \subseteq W!Doctors => Cardinality(onCall) \in Nat
<1> SUFFICES ASSUME onCall \subseteq W!Doctors PROVE Cardinality(onCall) \in Nat
  OBVIOUS
<1>1. IsFiniteSet({"alice"}) /\ IsFiniteSet({"bob"})
  BY FS_Singleton
<1>2. IsFiniteSet({"alice"} \cup {"bob"})
  BY <1>1, FS_Union
<1>3. W!Doctors = {"alice"} \cup {"bob"}
  BY DEF W!Doctors
<1>4. QED
  BY <1>2, <1>3, FS_Subset, FS_CardinalityType

(* Every statement, and every failure of one, preserves the invariant. *)
LEMMA PostgresNext == ASSUME PostgresInv, [W!Next]_(W!vars) PROVE PostgresInv'
<1> USE DEF W!Serializable, W!VerdictFitsLevel
<1>1. CASE W!Start
  BY <1>1 DEF W!Start, PostgresInv, W!db, W!tx
<1>2. CASE W!setupSchema
  BY <1>2 DEF W!setupSchema, PostgresInv, W!tx
<1>3. CASE W!Fail
  BY <1>3 DEF W!Fail, PostgresInv, W!tx, W!Finished
<1>4. CASE W!AliceReads \/ W!BobReads
  <2>1. sees' \in [W!Doctors -> Nat]
    BY <1>4, CountsAreNat, SameCardinality DEF W!AliceReads, W!BobReads, W!countOnCall, PostgresInv
  <2>2. QED
    BY <2>1, <1>4 DEF W!AliceReads, W!BobReads, W!countOnCall, PostgresInv, W!db
<1>5. CASE W!AliceUpdates
  BY <1>5 DEF W!AliceUpdates, PostgresInv, W!tx
<1>6. CASE W!BobUpdates \/ W!BobUpdateRejected
  BY <1>6 DEF W!BobUpdates, W!BobUpdateRejected, PostgresInv, W!tx, W!db
<1>7. CASE W!AliceCommits
  BY <1>7 DEF W!AliceCommits, PostgresInv, W!tx, W!Doctors
<1>8. CASE W!BobCommits
  BY <1>8 DEF W!BobCommits, PostgresInv, W!tx
<1>9. CASE W!isSerializationFailure
  BY <1>9 DEF W!isSerializationFailure, PostgresInv
<1>10. CASE W!retryBob
  <2>1. sees'["bob"] = 1 /\ sees' \in [W!Doctors -> Nat]
    BY <1>10, BobAlone, SameCardinality DEF W!retryBob, PostgresInv, W!Doctors
  <2>2. onCall' = onCall
    BY <2>1, <1>10 DEF W!retryBob
  <2>3. QED
    BY <2>1, <2>2, <1>10 DEF W!retryBob, PostgresInv
<1>11. CASE W!Check
  BY <1>11 DEF W!Check, PostgresInv, W!db, W!tx
<1>12. CASE W!resetDoctors
  BY <1>12 DEF W!resetDoctors, PostgresInv, W!tx, W!Doctors
<1>13. CASE W!Listen \/ W!Notify \/ W!WaitForNotification
  BY <1>13 DEF W!Listen, W!Notify, W!WaitForNotification, PostgresInv, W!db, W!tx
<1>14. CASE UNCHANGED W!vars
  BY <1>14 DEF W!vars, W!db, W!tx, W!note, PostgresInv
<1>15. QED
  BY <1>1, <1>2, <1>3, <1>4, <1>5, <1>6, <1>7, <1>8, <1>9, <1>10, <1>11, <1>12, <1>13, <1>14
  DEF W!Next, W!Step

LEMMA PostgresInit == ASSUME W!Init PROVE PostgresInv
<1>1. script = "idle" /\ level = "read committed" /\ sees = [d \in W!Doctors |-> 0]
  BY DEF W!Init
<1>2. QED
  BY <1>1 DEF PostgresInv, W!Serializable, W!VerdictFitsLevel

LEMMA PostgresStep == [Next]_vars => [W!Next]_(W!vars)
  BY DEF Next, vars, postgresVars, W!vars, W!db, W!tx, W!note

-----------------------------------------------------------------------------
(* sqlite: who has the connection follows from where run is, and a         *)
(* transaction's row is in the table once it has been committed.           *)
BooksInv ==
  /\ sqlite \in {"idle", "schema", "insert", "query", "rows", "single", "noRows", "begin", "inserting",
                 "commit", "beginAgain", "drafting", "rollback", "count", "returned", "failed"}
  /\ conn = CASE sqlite = "rows" -> "rows"
              [] sqlite \in {"inserting", "commit", "drafting", "rollback"} -> "tx"
              [] OTHER -> "none"
  /\ position \in Nat /\ books \in Nat
  /\ sqlite \in {"idle", "schema", "query"} => position = 0
  /\ sqlite = "insert" => books = position /\ position < Books
  /\ pending = IF sqlite \in {"commit", "rollback"} THEN 1 ELSE 0
  /\ sqlite \in {"query", "rows", "single", "noRows", "begin", "inserting", "commit"} =>
       books = Books
  /\ sqlite \in {"beginAgain", "drafting", "rollback", "count"} => books = Books + 1
  /\ B!CountFits

LEMMA BooksInit == ASSUME B!Init PROVE BooksInv
  BY BooksAssumption DEF B!Init, BooksInv, B!CountFits

LEMMA BooksNext == ASSUME BooksInv, [B!Next]_(B!vars) PROVE BooksInv'
<1> USE BooksAssumption DEF BooksInv, B!CountFits, B!Goto, B!Statement, B!tables, B!Over
<1>1. CASE B!Start \/ B!Fail \/ UNCHANGED B!vars
  BY <1>1 DEF B!Start, B!Fail, B!vars
<1>2. CASE B!createSchema
  BY <1>2 DEF B!createSchema
<1>3. CASE B!insertBooks
  <2>1. /\ sqlite = "insert" /\ position \in 0 .. Books - 1
        /\ sqlite' = IF position + 1 < Books THEN "insert" ELSE "query"
        /\ books' = position + 1 /\ position' = (position + 1) % Books
        /\ UNCHANGED <<conn, pending, counted>>
    BY <1>3 DEF B!insertBooks
  <2>2. position' = IF position + 1 < Books THEN position + 1 ELSE 0
    BY <2>1
  <2> QED
    BY <2>1, <2>2
<1>4. CASE B!queryBooks \/ B!RowsNext \/ B!RowsClose
  BY <1>4 DEF B!queryBooks, B!RowsNext, B!RowsClose
<1>5. CASE B!querySingleBook
  BY <1>5 DEF B!querySingleBook
<1>6. CASE B!BeginTx
  BY <1>6 DEF B!BeginTx
<1>7. CASE B!InsertInTx
  BY <1>7 DEF B!InsertInTx
<1>8. CASE B!Commit \/ B!Rollback \/ B!Count
  BY <1>8 DEF B!Commit, B!Rollback, B!Count
<1> QED
  BY <1>1, <1>2, <1>3, <1>4, <1>5, <1>6, <1>7, <1>8 DEF B!Next, B!Step

LEMMA BooksStep == [Next]_vars => [B!Next]_(B!vars)
  BY DEF Next, vars, sqliteVars, B!vars, B!tables

(* postgres: after writeSkew under read committed nobody is on call; under *)
(* serializable somebody always is, wherever bob is rejected.  sqlite: what *)
(* is counted in the end are the books and the one that was committed.     *)
THEOREM TablesFitTheirTransactions == Spec => []TablesFit
<1>1. Init => PostgresInv /\ BooksInv
  BY PostgresInit, BooksInit DEF Init
<1>2. PostgresInv /\ BooksInv /\ [Next]_vars => PostgresInv' /\ BooksInv'
  BY PostgresNext, PostgresStep, BooksNext, BooksStep
<1>3. PostgresInv /\ BooksInv => TablesFit
  BY DEF PostgresInv, BooksInv, TablesFit
<1>4. QED
  BY <1>1, <1>2, <1>3, PTL DEF Spec

-----------------------------------------------------------------------------
GoingOn == getJSON \in {"idle", "loop", "backoff", "request"}

Ranges ==
  /\ maxRetries \in Int /\ attempt \in Nat /\ requests \in Nat
  /\ getJSON \in {"idle", "loop", "backoff", "request", "nil", "error"}
  /\ wrapped \in {"none", "fatal", "context", "retryable"}

(* The attempts of a call that goes on; no more than the limit allows. *)
AttemptsFit ==
  /\ GoingOn =>
       /\ requests = attempt
       /\ attempt = 0 => lastErr = "none" /\ result = "none"
       /\ attempt > 0 => lastErr = "retryable" /\ result = "retryable" /\ attempt <= maxRetries + 1
  /\ getJSON \in {"backoff", "request"} => attempt <= maxRetries

(* Only an ended context is returned as the cause. *)
CauseFits == getJSON = "error" /\ wrapped = "context" => getDone

HttpInv == Ranges /\ AttemptsFit /\ CauseFits /\ R!GetJSONResultFits

(* An ended context has ended for good, and only Backoff's select returns it. *)
LEMMA CauseKept == ASSUME HttpInv, R!Next PROVE CauseFits'
<1>1. CASE R!Start \/ R!Expire
  BY <1>1, Zenon DEF R!Start, R!Expire, CauseFits, HttpInv, R!state
<1>2. CASE R!Loop \/ R!Backoff
  <2>1. getJSON' # "error"
    BY <1>2 DEF R!Loop, R!Backoff
  <2>2. QED
    BY <2>1 DEF CauseFits
<1>3. CASE R!AllFailed
  <2>1. wrapped' # "context"
    BY <1>3 DEF R!AllFailed, R!Return, HttpInv, AttemptsFit, GoingOn, Ranges
  <2>2. QED
    BY <2>1 DEF CauseFits
<1>4. CASE R!BackoffCancelled
  BY <1>4, Zenon DEF R!BackoffCancelled, R!Return, CauseFits
<1>5. ASSUME NEW outcome \in {"ok", "fatal", "retryable"}, R!doGet(outcome)
      PROVE  CauseFits'
  <2>1. ~(getJSON' = "error" /\ wrapped' = "context")
    BY <1>5 DEF R!doGet, R!Return
  <2>2. QED
    BY <2>1 DEF CauseFits
<1>6. QED
  BY <1>1, <1>2, <1>3, <1>4, <1>5 DEF R!Next, R!Step

(* What GetJSONResultFits says of everything but the context. *)
CountsFit ==
  /\ requests <= IF maxRetries < 0 THEN 0 ELSE maxRetries + 1
  /\ getJSON = "nil" <=> result = "ok"
  /\ getJSON \in {"loop", "backoff"} => result \in {"none", "retryable"}
  /\ getJSON = "error" => /\ wrapped = "fatal" => result = "fatal"
                          /\ wrapped = "retryable" => requests = maxRetries + 1
                          /\ wrapped = "none" => maxRetries < 0

LEMMA ResultSplits == R!GetJSONResultFits <=> CountsFit /\ CauseFits
  BY Zenon DEF R!GetJSONResultFits, CountsFit, CauseFits

(* A request is one of at most maxRetries + 1. *)
LEMMA CountsKept == ASSUME HttpInv, R!Next PROVE (Ranges /\ AttemptsFit /\ CountsFit)'
<1>1. Ranges /\ AttemptsFit /\ CountsFit
  BY ResultSplits DEF HttpInv
<1> USE <1>1 DEF Ranges, AttemptsFit, GoingOn, CountsFit
<1>2. CASE R!Start \/ R!Expire
  BY <1>2 DEF R!Start, R!Expire, R!state
<1>3. CASE R!Loop \/ R!Backoff
  BY <1>3 DEF R!Loop, R!Backoff, R!state
<1>4. CASE R!AllFailed \/ R!BackoffCancelled
  BY <1>4 DEF R!AllFailed, R!BackoffCancelled, R!Return
<1>5. ASSUME NEW outcome \in {"ok", "fatal", "retryable"}, R!doGet(outcome)
      PROVE  (Ranges /\ AttemptsFit /\ CountsFit)'
  BY <1>5 DEF R!doGet, R!Return
<1>6. QED
  BY <1>2, <1>3, <1>4, <1>5 DEF R!Next, R!Step

LEMMA HttpNext == ASSUME HttpInv, [R!Next]_(R!vars) PROVE HttpInv'
<1>1. Ranges' /\ AttemptsFit' /\ CountsFit' /\ CauseFits'
  <2>1. CASE R!Next
    BY <2>1, CountsKept, CauseKept
  <2>2. CASE UNCHANGED R!vars
    <3>1. CauseFits'
      BY <2>2, Zenon DEF HttpInv, R!vars, R!state, CauseFits
    <3>2. (Ranges /\ AttemptsFit /\ CountsFit)'
      BY <2>2, ResultSplits DEF HttpInv, R!vars, R!state, Ranges, AttemptsFit, GoingOn, CountsFit
    <3>3. QED
      BY <3>1, <3>2
  <2>3. QED
    BY <2>1, <2>2
<1>2. (R!GetJSONResultFits <=> CountsFit /\ CauseFits)'
  BY ResultSplits, PTL
<1>3. QED
  BY <1>1, <1>2 DEF HttpInv

LEMMA HttpInit == ASSUME R!Init PROVE HttpInv
<1>1. /\ getJSON = "idle" /\ maxRetries \in Int /\ attempt = 0
      /\ lastErr = "none" /\ result = "none" /\ requests = 0 /\ wrapped = "none"
  BY RetryAssumption DEF R!Init
<1>2. QED
  BY <1>1 DEF HttpInv, Ranges, AttemptsFit, GoingOn, CauseFits, R!GetJSONResultFits

LEMMA HttpStep == [Next]_vars => [R!Next]_(R!vars)
  BY DEF Next, vars, httpVars, R!vars, R!state

(* http-client: GetJSON sends at most maxRetries + 1 requests, succeeds    *)
(* exactly if the last one did, and its error names the cause; only a      *)
(* negative limit wraps nothing.                                           *)
THEOREM CallerHearsTheCause == Spec => []GetJSONResultFits
<1>1. Init => HttpInv
  BY HttpInit DEF Init
<1>2. HttpInv /\ [Next]_vars => HttpInv'
  BY HttpNext, HttpStep
<1>3. HttpInv => GetJSONResultFits
  BY DEF HttpInv, GetJSONResultFits
<1>4. QED
  BY <1>1, <1>2, <1>3, PTL DEF Spec

-----------------------------------------------------------------------------
(* fan-out-timeout, scatter-gather, context: the answers, printed or still *)
(* in the channel, come from the workers that have sent, one from each.    *)
Answers == printed \o out
HasSent == {w \in FanWorkers : waiting[w] \in {"sent", "exited"}}

FanTypes ==
  /\ demo \in {"idle", "fanOutTimeout", "scatterGather", "context"}
  /\ waiting \in [FanWorkers -> {"none", "select", "sent", "exited"}]
  /\ out \in Seq([id : FanWorkers, timedOut : BOOLEAN])
  /\ printed \in Seq([id : FanWorkers, timedOut : BOOLEAN])

AnswersFit ==
  /\ \A i \in 1 .. Len(Answers) : Answers[i].id \in HasSent
  /\ \A i, j \in 1 .. Len(Answers) : Answers[i].id = Answers[j].id => i = j
  /\ \A w \in HasSent : \E i \in 1 .. Len(Answers) : Answers[i].id = w

ReaderFits ==
  /\ demo = "idle" => /\ reader = "none" /\ printed = <<>> /\ outClosed = FALSE
                      /\ \A w \in FanWorkers : waiting[w] = "none"
  /\ demo \in {"fanOutTimeout", "scatterGather"} =>
       /\ reader \in {"wait", "drain", "returned"}
       /\ reader \in {"drain", "returned"} => \A w \in FanWorkers : waiting[w] = "exited"
       /\ reader = "returned" => out = <<>>
  /\ demo = "context" =>
       /\ reader \in {"drain", "returned"} /\ outClosed = FALSE
       /\ \E w \in FanWorkers : \A v \in FanWorkers \ {w} : waiting[v] = "none"
       /\ reader = "drain" => printed = <<>>
       /\ reader = "returned" => printed # <<>>

FanInv == FanTypes /\ AnswersFit /\ ReaderFits

LEMMA FanInit == ASSUME F!Init PROVE FanInv
<1>1. /\ demo = "idle" /\ waiting = [w \in FanWorkers |-> "none"] /\ reader = "none"
      /\ out = <<>> /\ printed = <<>> /\ outClosed = FALSE
  BY DEF F!Init
<1>2. HasSent = {}
  BY <1>1 DEF HasSent
<1>3. Answers = <<>> /\ Len(Answers) = 0
  BY <1>1 DEF Answers
<1>4. QED
  BY <1>1, <1>2, <1>3 DEF FanInv, FanTypes, AnswersFit, ReaderFits

(* The workers start before any of them has sent.                          *)
LEMMA FanStart ==
  ASSUME FanInv, NEW d \in {"fanOutTimeout", "scatterGather", "context"},
         NEW used, NEW innerPc, F!Start(d, used, innerPc),
         d = "context" => \E w \in FanWorkers : used = {w}
  PROVE  FanInv'
<1>1. /\ demo = "idle" /\ demo' = d /\ UNCHANGED <<out, outClosed, printed>>
      /\ waiting' = [w \in FanWorkers |-> IF w \in used THEN "select" ELSE "none"]
      /\ reader' = IF d = "context" THEN "drain" ELSE "wait"
  BY DEF F!Start
<1>2. HasSent = {} /\ HasSent' = {}
  BY <1>1 DEF HasSent, FanInv, ReaderFits
<1>3. FanTypes'
  BY <1>1 DEF FanTypes, FanInv
<1>4. AnswersFit'
  BY <1>1, <1>2 DEF AnswersFit, FanInv, Answers
<1>5. ReaderFits'
  BY <1>1, <1>2 DEF ReaderFits, FanInv
<1>6. QED
  BY <1>3, <1>4, <1>5 DEF FanInv

(* A worker that selects becomes one that has sent, with its answer.       *)
LEMMA FanSend ==
  ASSUME FanInv, NEW w \in FanWorkers, NEW late \in BOOLEAN, waiting[w] = "select",
         F!Send(w, late), UNCHANGED <<demo, outClosed, reader, printed>>
  PROVE  FanInv'
<1> DEFINE T == [id : FanWorkers, timedOut : BOOLEAN]
           e == [id |-> w, timedOut |-> late]
<1>1. /\ out \in Seq(T) /\ printed \in Seq(T) /\ e \in T /\ e.id = w
      /\ waiting' = [waiting EXCEPT ![w] = "sent"] /\ out' = Append(out, e)
  BY DEF F!Send, FanInv, FanTypes
<1>2. HasSent' = HasSent \cup {w} /\ w \notin HasSent
  BY <1>1 DEF HasSent, FanInv, FanTypes
<1>3. Answers' = Append(Answers, e) /\ Answers \in Seq(T)
  <2> HIDE DEF T, e
  <2> QED
    BY <1>1, Sent, ConcatProperties DEF Answers
<1>4. /\ Len(Answers) \in Nat /\ Len(Answers') = Len(Answers) + 1
      /\ \A i \in 1 .. Len(Answers) : Answers'[i] = Answers[i]
      /\ Answers'[Len(Answers) + 1] = e
  <2> HIDE DEF T, e
  <2> QED
    BY <1>1, <1>3, AppendProperties, LenProperties
<1>5. AnswersFit'
  <2>1. \A i \in 1 .. Len(Answers') : Answers'[i].id \in HasSent'
    BY <1>1, <1>2, <1>4 DEF FanInv, AnswersFit
  <2>2. ASSUME NEW i \in 1 .. Len(Answers'), NEW j \in 1 .. Len(Answers'),
               Answers'[i].id = Answers'[j].id
        PROVE  i = j
    <3>1. \A k \in 1 .. Len(Answers') : k <= Len(Answers) => Answers'[k].id # w
      BY <1>2, <1>4 DEF FanInv, AnswersFit
    <3>2. Answers'[Len(Answers) + 1].id = w
      BY <1>1, <1>4
    <3>3. CASE i <= Len(Answers) /\ j <= Len(Answers)
      BY <3>3, <2>2, <1>4 DEF FanInv, AnswersFit
    <3>4. QED
      BY <3>1, <3>2, <3>3, <2>2, <1>4
  <2>3. \A v \in HasSent' : \E i \in 1 .. Len(Answers') : Answers'[i].id = v
    BY <1>1, <1>2, <1>4 DEF FanInv, AnswersFit
  <2>4. QED
    BY <2>1, <2>2, <2>3 DEF AnswersFit
<1>6. FanTypes'
  BY <1>1, AppendProperties DEF FanInv, FanTypes
<1>7. ReaderFits'
  <2>1. demo # "idle" /\ (demo \in {"fanOutTimeout", "scatterGather"} => reader = "wait")
    BY <1>1 DEF FanInv, FanTypes, ReaderFits
  <2>2. \A v \in FanWorkers \ {w} : waiting'[v] = waiting[v]
    BY <1>1
  <2>3. QED
    BY <1>1, <2>1, <2>2 DEF FanInv, FanTypes, ReaderFits
<1>8. QED
  BY <1>5, <1>6, <1>7 DEF FanInv

LEMMA FanExit ==
  ASSUME FanInv, NEW w \in FanWorkers, F!Exit(w)
  PROVE  FanInv'
<1>1. /\ waiting[w] = "sent" /\ waiting' = [waiting EXCEPT ![w] = "exited"]
      /\ UNCHANGED <<demo, out, outClosed, reader, printed>>
  BY DEF F!Exit, F!main
<1>2. HasSent' = HasSent
  BY <1>1 DEF HasSent, FanInv, FanTypes
<1>3. AnswersFit'
  BY <1>1, <1>2 DEF AnswersFit, Answers, FanInv
<1>4. FanTypes' /\ ReaderFits'
  BY <1>1, <1>2 DEF FanTypes, ReaderFits, FanInv
<1>5. QED
  BY <1>3, <1>4 DEF FanInv

LEMMA FanDrain ==
  ASSUME FanInv, F!Drain
  PROVE  FanInv'
<1> DEFINE T == [id : FanWorkers, timedOut : BOOLEAN]
<1>1. /\ reader = "drain" /\ out # <<>>
      /\ printed' = Append(printed, Head(out)) /\ out' = Tail(out)
      /\ reader' = IF demo = "context" THEN "returned" ELSE "drain"
      /\ UNCHANGED <<demo, waiting, outClosed>>
  BY DEF F!Drain
<1>2. out \in Seq(T) /\ printed \in Seq(T)
  BY DEF FanInv, FanTypes
<1>3. Answers' = Answers /\ printed' \in Seq(T) /\ out' \in Seq(T) /\ HasSent' = HasSent
  <2> HIDE DEF T
  <2> QED
    BY <1>1, <1>2, Received DEF Answers, HasSent
<1>4. printed' # <<>>
  <2> HIDE DEF T
  <2> QED
    BY <1>1, <1>2, HeadTailProperties, AppendProperties
<1>5. QED
  BY <1>1, <1>3, <1>4 DEF FanInv, FanTypes, AnswersFit, ReaderFits

LEMMA FanKept ==
  ASSUME FanInv, UNCHANGED <<demo, waiting, out, outClosed, reader, printed>>
  PROVE  FanInv'
  BY DEF FanInv, FanTypes, AnswersFit, ReaderFits, Answers, HasSent

LEMMA FanNext == ASSUME FanInv, [F!Next]_(F!vars) PROVE FanInv'
<1>1. CASE F!fanOutTimeout \/ F!scatterGather \/ F!contextDemo
  BY <1>1, FanStart DEF F!fanOutTimeout, F!scatterGather, F!contextDemo
<1>2. ASSUME NEW w \in FanWorkers, F!InnerSend(w) \/ F!End(w) PROVE FanInv'
  BY <1>2, FanKept DEF F!InnerSend, F!End, F!main, F!work
<1>3. ASSUME NEW w \in FanWorkers, F!Answer(w) \/ F!TimeOut(w) PROVE FanInv'
  BY <1>3, FanSend DEF F!Answer, F!TimeOut, F!main
<1>4. ASSUME NEW w \in FanWorkers, F!Exit(w) PROVE FanInv'
  BY <1>4, FanExit
<1>5. CASE F!Close
  BY <1>5 DEF F!Close, F!work, FanInv, FanTypes, AnswersFit, ReaderFits, Answers, HasSent
<1>6. CASE F!Drain
  BY <1>6, FanDrain
<1>7. CASE F!Return
  BY <1>7 DEF F!Return, F!work, FanInv, FanTypes, AnswersFit, ReaderFits, Answers, HasSent
<1>8. CASE UNCHANGED F!vars
  BY <1>8, FanKept DEF F!vars, F!work, F!main
<1>9. QED
  BY <1>1, <1>2, <1>3, <1>4, <1>5, <1>6, <1>7, <1>8 DEF F!Next, F!Step, F!Worker

(* Once main has returned, what it printed is all of the answers.          *)
LEMMA FanFits == ASSUME FanInv PROVE F!OneAnswerEach
<1> SUFFICES ASSUME reader = "returned"
             PROVE  /\ out = <<>>
                    /\ \A w \in FanWorkers \ F!NoOne : \E i \in DOMAIN printed : printed[i].id = w
                    /\ \A i, j \in DOMAIN printed : printed[i].id = printed[j].id => i = j
  BY DEF F!OneAnswerEach
<1> DEFINE T == [id : FanWorkers, timedOut : BOOLEAN]
<1>1. /\ out \in Seq(T) /\ printed \in Seq(T) /\ demo # "idle"
      /\ AnswersFit /\ ReaderFits /\ FanTypes
  BY DEF FanInv, FanTypes, ReaderFits
<1>2. /\ Len(printed) \in Nat /\ Len(out) \in Nat /\ DOMAIN printed = 1 .. Len(printed)
      /\ Len(Answers) = Len(printed) + Len(out)
      /\ out # <<>> => Len(out) > 0
      /\ printed # <<>> => Len(printed) > 0
  <2> HIDE DEF T
  <2> QED
    BY <1>1, LenProperties, ConcatProperties, EmptySeq DEF Answers
<1>3. out = <<>>
  <2>1. CASE demo = "context"
    <3>1. PICK w \in FanWorkers : HasSent \subseteq {w}
      BY <2>1, <1>1 DEF ReaderFits, HasSent
    <3>2. \A i, j \in 1 .. Len(Answers) : i = j
      BY <3>1, <1>1 DEF AnswersFit
    <3>3. Len(printed) > 0
      BY <2>1, <1>1, <1>2 DEF ReaderFits
    <3>4. Len(out) = 0
      BY <3>2, <3>3, <1>2
    <3>5. QED
      BY <3>4, <1>2
  <2>2. QED
    BY <2>1, <1>1 DEF ReaderFits, FanTypes
<1>4. Answers = printed
  <2> HIDE DEF T
  <2> QED
    BY <1>1, <1>3, ConcatEmptySeq DEF Answers
<1>5. ASSUME NEW w \in FanWorkers \ F!NoOne PROVE w \in HasSent
  <2>1. CASE demo = "context"
    <3>1. Len(Answers) > 0
      BY <2>1, <1>1, <1>2, <1>4 DEF ReaderFits
    <3>2. HasSent # {}
      BY <3>1, <1>1, <1>2 DEF AnswersFit
    <3>3. PICK v \in FanWorkers : \A u \in FanWorkers \ {v} : waiting[u] = "none"
      BY <2>1, <1>1 DEF ReaderFits
    <3>4. w = v
      BY <3>3, <1>5 DEF F!NoOne
    <3>5. QED
      BY <3>2, <3>3, <3>4, <1>1 DEF HasSent, FanTypes
  <2>2. QED
    BY <2>1, <1>1 DEF ReaderFits, FanTypes, HasSent
<1>6. QED
  BY <1>1, <1>2, <1>3, <1>4, <1>5 DEF AnswersFit

LEMMA FanStep == [Next]_vars => [F!Next]_(F!vars)
  BY DEF Next, vars, fanVars, F!vars, F!work, F!main

-----------------------------------------------------------------------------
(* worker-pool: jobs are taken in the order of their numbers, so that the  *)
(* number of those taken bounds the ones the workers have and the results, *)
(* printed or still in the channel, all of which are different.            *)
Flow  == got \o jobResults
Taken == nextJob - 1 - Len(jobs)

JobTypes ==
  /\ nextJob \in 1 .. NumJobs + 1 /\ jobs \in Seq(Int)
  /\ jobResults \in Seq(Int) /\ got \in Seq(Int)
  /\ has \in [J!Crew -> Int]
  /\ sender = "returned" => Len(got) = NumJobs

JobsFit ==
  /\ Taken >= 0
  /\ \A i \in 1 .. Len(jobs) : jobs[i] = Taken + i
  /\ \A w \in J!Crew : has[w] <= Taken
  /\ \A v, w \in J!Crew : has[v] > 0 /\ has[v] = has[w] => v = w

FlowFits ==
  /\ \A i \in 1 .. Len(Flow) : \E j \in 1 .. Taken : Flow[i] = j * 2
  /\ \A i, k \in 1 .. Len(Flow) : Flow[i] = Flow[k] => i = k
  /\ \A w \in J!Crew, i \in 1 .. Len(Flow) : has[w] > 0 => Flow[i] # has[w] * 2

JobsInv == JobTypes /\ JobsFit /\ FlowFits

LEMMA JobsInit == ASSUME J!Init PROVE JobsInv
<1>1. /\ sender = "idle" /\ jobs = <<>> /\ jobResults = <<>> /\ nextJob = 1
      /\ has = [w \in J!Crew |-> 0] /\ got = <<>>
  BY DEF J!Init
<1>2. Flow = <<>>
  BY <1>1 DEF Flow
<1>3. Len(jobs) = 0 /\ Taken = 0 /\ Len(Flow) = 0
  <2>1. Len(jobs) = 0 /\ Len(Flow) = 0
    BY <1>1, <1>2
  <2>2. nextJob = 1
    BY <1>1
  <2>3. QED
    BY <2>1, <2>2 DEF Taken
<1>4. QED
  BY <1>1, <1>2, <1>3, JobsAssumption DEF JobsInv, JobTypes, JobsFit, FlowFits

LEMMA JobsKept ==
  ASSUME JobsInv, UNCHANGED <<jobs, jobResults, nextJob, has, got>>,
         sender' = "returned" => sender = "returned"
  PROVE  JobsInv'
  BY DEF JobsInv, JobTypes, JobsFit, FlowFits, Flow, Taken

LEMMA JobSent == ASSUME JobsInv, J!SendJob PROVE JobsInv'
<1>1. /\ sender = "send" /\ nextJob <= NumJobs
      /\ jobs' = Append(jobs, nextJob) /\ nextJob' = nextJob + 1
      /\ UNCHANGED <<sender, jobResults, has, got>>
  BY DEF J!SendJob
<1>2. JobTypes /\ JobsFit /\ FlowFits /\ Len(jobs) \in Nat
  BY LenProperties DEF JobsInv, JobTypes
<1>3. /\ jobs' \in Seq(Int) /\ Len(jobs') = Len(jobs) + 1
      /\ \A i \in 1 .. Len(jobs) : jobs'[i] = jobs[i]
      /\ jobs'[Len(jobs) + 1] = nextJob
  BY <1>1, <1>2, AppendProperties DEF JobTypes
<1>4. Taken' = Taken /\ nextJob = Taken + (Len(jobs) + 1) /\ Flow' = Flow
  BY <1>1, <1>2, <1>3 DEF Taken, Flow, JobTypes
<1>5. JobTypes'
  BY <1>1, <1>2, <1>3, JobsAssumption DEF JobTypes
<1>6. JobsFit'
  BY <1>1, <1>2, <1>3, <1>4 DEF JobsFit
<1>7. FlowFits'
  BY <1>1, <1>2, <1>4 DEF FlowFits
<1>8. QED
  BY <1>5, <1>6, <1>7 DEF JobsInv

LEMMA JobTaken == ASSUME JobsInv, NEW w \in J!Crew, J!TakeJob(w) PROVE JobsInv'
<1>1. /\ has[w] = 0 /\ jobs # <<>> /\ has' = [has EXCEPT ![w] = Head(jobs)]
      /\ jobs' = Tail(jobs) /\ UNCHANGED <<sender, jobResults, nextJob, got>>
  BY DEF J!TakeJob
<1>2. JobTypes /\ JobsFit /\ FlowFits /\ Len(jobs) \in Nat \ {0}
  BY <1>1, EmptySeq DEF JobsInv, JobTypes
<1>3. /\ jobs' \in Seq(Int) /\ Len(jobs') = Len(jobs) - 1
      /\ \A i \in 1 .. Len(jobs') : jobs'[i] = jobs[i + 1]
      /\ Head(jobs) = jobs[1]
  BY <1>1, <1>2, HeadTailProperties DEF JobTypes
<1>4. Taken \in Int /\ Taken' = Taken + 1 /\ Flow' = Flow /\ Head(jobs) = Taken + 1
  BY <1>1, <1>2, <1>3 DEF Taken, Flow, JobTypes, JobsFit
<1>5. has' = [has EXCEPT ![w] = Taken + 1]
  BY <1>1, <1>4
<1>6. JobTypes'
  BY <1>1, <1>2, <1>3, <1>4, <1>5 DEF JobTypes
<1>7. JobsFit'
  <2>1. \A i \in 1 .. Len(jobs') : jobs'[i] = Taken' + i
    BY <1>2, <1>3, <1>4 DEF JobsFit
  <2>2. QED
    BY <2>1, <1>2, <1>4, <1>5 DEF JobsFit, JobTypes
<1>8. FlowFits'
  <2>1. \A i \in 1 .. Len(Flow) : Flow[i] # (Taken + 1) * 2
    BY <1>2, <1>4 DEF FlowFits
  <2>2. QED
    BY <2>1, <1>2, <1>4, <1>5 DEF FlowFits, JobTypes
<1>9. QED
  BY <1>6, <1>7, <1>8 DEF JobsInv

LEMMA ResultSent == ASSUME JobsInv, NEW w \in J!Crew, J!SendResult(w) PROVE JobsInv'
<1>1. /\ has[w] > 0 /\ jobResults' = Append(jobResults, has[w] * 2)
      /\ has' = [has EXCEPT ![w] = 0] /\ UNCHANGED <<sender, jobs, nextJob, got>>
  BY DEF J!SendResult
<1>2. JobTypes /\ JobsFit /\ FlowFits /\ has[w] \in 1 .. Taken /\ Taken \in Int
  BY <1>1, LenProperties DEF JobsInv, JobTypes, JobsFit, Taken
<1>3. Taken' = Taken
  BY <1>1 DEF Taken
<1>4. Flow' = Append(Flow, has[w] * 2) /\ Flow \in Seq(Int)
  BY <1>1, <1>2, Sent, ConcatProperties DEF Flow, JobTypes
<1>5. /\ Len(Flow) \in Nat /\ Len(Flow') = Len(Flow) + 1
      /\ \A i \in 1 .. Len(Flow) : Flow'[i] = Flow[i]
      /\ Flow'[Len(Flow) + 1] = has[w] * 2
  BY <1>2, <1>4, AppendProperties, LenProperties
<1>6. JobTypes'
  BY <1>1, <1>2, AppendProperties DEF JobTypes
<1>7. JobsFit'
  BY <1>1, <1>2, <1>3 DEF JobsFit, JobTypes
<1>8. FlowFits'
  <2>1. \A i \in 1 .. Len(Flow') : \E j \in 1 .. Taken' : Flow'[i] = j * 2
    BY <1>2, <1>3, <1>5 DEF FlowFits
  <2>2. ASSUME NEW i \in 1 .. Len(Flow'), NEW k \in 1 .. Len(Flow'), Flow'[i] = Flow'[k]
        PROVE  i = k
    <3>1. \A n \in 1 .. Len(Flow) : Flow'[n] # has[w] * 2
      BY <1>1, <1>2, <1>5 DEF FlowFits
    <3>2. CASE i <= Len(Flow) /\ k <= Len(Flow)
      BY <3>2, <2>2, <1>2, <1>5 DEF FlowFits
    <3>3. QED
      BY <3>1, <3>2, <2>2, <1>5
  <2>3. ASSUME NEW v \in J!Crew, NEW i \in 1 .. Len(Flow'), has'[v] > 0
        PROVE  Flow'[i] # has'[v] * 2
    <3>1. v # w /\ has'[v] = has[v]
      BY <2>3, <1>1, <1>2 DEF JobTypes
    <3>2. has[v] # has[w]
      BY <3>1, <1>1, <1>2 DEF JobsFit
    <3>3. CASE i <= Len(Flow)
      BY <3>1, <3>3, <2>3, <1>2, <1>5 DEF FlowFits
    <3>4. CASE i = Len(Flow) + 1
      <4>1. has[v] \in Int
        BY <1>2 DEF JobTypes
      <4>2. QED
        BY <3>1, <3>2, <3>4, <4>1, <1>2, <1>5
    <3>5. QED
      BY <3>3, <3>4, <1>5
  <2>4. QED
    BY <2>1, <2>2, <2>3 DEF FlowFits
<1>9. QED
  BY <1>6, <1>7, <1>8 DEF JobsInv

LEMMA ResultTaken == ASSUME JobsInv, J!TakeResult PROVE JobsInv'
<1>1. /\ jobResults # <<>> /\ got' = Append(got, Head(jobResults))
      /\ jobResults' = Tail(jobResults) /\ UNCHANGED <<jobs, nextJob, has>>
      /\ sender' = IF Len(got') = NumJobs THEN "returned" ELSE "receive"
  BY DEF J!TakeResult
<1>2. Flow' = Flow /\ got' \in Seq(Int) /\ jobResults' \in Seq(Int)
  <2>1. got \in Seq(Int) /\ jobResults \in Seq(Int)
    BY DEF JobsInv, JobTypes
  <2>2. /\ Append(got, Head(jobResults)) \o Tail(jobResults) = got \o jobResults
        /\ Append(got, Head(jobResults)) \in Seq(Int) /\ Tail(jobResults) \in Seq(Int)
    BY <2>1, <1>1, Received
  <2>3. QED
    BY <2>2, <1>1 DEF Flow
<1>3. JobTypes'
  BY <1>1, <1>2 DEF JobsInv, JobTypes
<1>4. Taken' = Taken
  BY <1>1 DEF Taken
<1>5. JobsFit'
  BY <1>1, <1>4 DEF JobsInv, JobsFit
<1>6. FlowFits'
  BY <1>1, <1>2, <1>4 DEF JobsInv, FlowFits
<1>7. QED
  BY <1>3, <1>5, <1>6 DEF JobsInv

LEMMA JobsNext == ASSUME JobsInv, [J!Next]_(J!vars) PROVE JobsInv'
<1>1. CASE J!Start \/ J!CloseJobs \/ UNCHANGED J!vars
  BY <1>1, JobsKept DEF J!Start, J!CloseJobs, J!vars, J!channels
<1>2. ASSUME NEW w \in J!Crew, J!EndWorker(w) PROVE JobsInv'
  <2>1. /\ has' = [has EXCEPT ![w] = -1]
        /\ UNCHANGED <<sender, jobs, jobResults, nextJob, got>>
    BY <1>2 DEF J!EndWorker, J!channels
  <2>2. Taken' = Taken /\ Flow' = Flow /\ Taken \in Int
    BY <2>1, LenProperties DEF Taken, Flow, JobsInv, JobTypes
  <2>3. QED
    BY <2>1, <2>2 DEF JobsInv, JobTypes, JobsFit, FlowFits
<1>3. QED
  BY <1>1, <1>2, JobSent, JobTaken, ResultSent, ResultTaken DEF J!Next, J!Step, J!worker

(* numJobs different results of numJobs jobs are the results of all.       *)
LEMMA JobsFitInTheEnd == ASSUME JobsInv PROVE J!OneResultEach
<1> SUFFICES ASSUME sender = "returned", NEW j \in 1 .. NumJobs
             PROVE  \E i \in DOMAIN got :
                      got[i] = j * 2 /\ \A k \in DOMAIN got \ {i} : got[k] # j * 2
  BY DEF J!OneResultEach
<1>1. /\ Len(got) = NumJobs /\ DOMAIN got = 1 .. NumJobs
      /\ Len(Flow) >= NumJobs /\ Len(Flow) \in Nat
      /\ \A i \in 1 .. NumJobs : Flow[i] = got[i]
      /\ Taken <= NumJobs /\ Taken \in Int
  BY LenProperties, ConcatProperties, JobsAssumption DEF JobsInv, JobTypes, Flow, Taken
<1> DEFINE f == [i \in 1 .. NumJobs |-> CHOOSE n \in 1 .. NumJobs : got[i] = n * 2]
<1>2. \A i \in 1 .. NumJobs : f[i] \in 1 .. NumJobs /\ got[i] = f[i] * 2
  <2> SUFFICES ASSUME NEW i \in 1 .. NumJobs
               PROVE  f[i] \in 1 .. NumJobs /\ got[i] = f[i] * 2
    OBVIOUS
  <2>1. i \in 1 .. Len(Flow)
    BY <1>1, JobsAssumption
  <2>2. PICK n \in 1 .. Taken : Flow[i] = n * 2
    BY <2>1 DEF JobsInv, FlowFits
  <2>3. n \in 1 .. NumJobs /\ got[i] = n * 2
    BY <2>2, <1>1, JobsAssumption
  <2>4. QED
    BY <2>3
<1>3. ASSUME NEW i \in 1 .. NumJobs, NEW k \in 1 .. NumJobs, f[i] = f[k] PROVE i = k
  <2> HIDE DEF f
  <2>1. Flow[i] = Flow[k]
    BY <1>1, <1>2, <1>3
  <2>2. i \in 1 .. Len(Flow) /\ k \in 1 .. Len(Flow)
    BY <1>1, JobsAssumption
  <2>3. QED
    BY <2>1, <2>2 DEF JobsInv, FlowFits
<1>4. \E i \in 1 .. NumJobs : f[i] = j
  <2>1. f \in [1 .. NumJobs -> 1 .. NumJobs]
    BY <1>2
  <2> HIDE DEF f
  <2>2. \A i, k \in 1 .. NumJobs : f[i] = f[k] => i = k
    BY <1>3
  <2>3. NumJobs \in Nat
    BY JobsAssumption
  <2> QED
    BY <2>1, <2>2, <2>3, AllNumbers
<1>5. PICK i \in 1 .. NumJobs : f[i] = j
  BY <1>4
<1>6. QED
  <2> HIDE DEF f
  <2>1. got[i] = j * 2
    BY <1>2, <1>5
  <2>2. ASSUME NEW k \in (1 .. NumJobs) \ {i} PROVE got[k] # j * 2
    <3>1. f[k] # j /\ f[k] \in 1 .. NumJobs /\ got[k] = f[k] * 2
      BY <1>2, <1>3, <1>5
    <3>2. QED
      BY <3>1
  <2>3. QED
    BY <2>1, <2>2, <1>1

LEMMA JobsStep == [Next]_vars => [J!Next]_(J!vars)
  BY DEF Next, vars, jobVars, J!vars, J!channels

(* fan-out-timeout, scatter-gather, context: main prints one answer of     *)
(* each goroutine, however answer and timeout race; worker-pool: the       *)
(* result of each job, once.                                               *)
THEOREM EachAnswersOnce == Spec => []OneAnswerEach
<1>1. Init => FanInv /\ JobsInv
  BY FanInit, JobsInit DEF Init
<1>2. FanInv /\ JobsInv /\ [Next]_vars => FanInv' /\ JobsInv'
  BY FanNext, FanStep, JobsNext, JobsStep
<1>3. FanInv /\ JobsInv => OneAnswerEach
  BY FanFits, JobsFitInTheEnd DEF OneAnswerEach
<1>4. QED
  BY <1>1, <1>2, <1>3, PTL DEF Spec

-----------------------------------------------------------------------------
(* pipeline, with one path: the numbers come out in order, and all that    *)
(* were sent have come out, but for the one the square stage holds.        *)
Sending(s)    == stage[s] = "send"
Forwarding(s) == forwarder[s] = "send"

PipelineTypes ==
  /\ pipeline \in {"idle", "linear", "early", "fanIn"}
  /\ nextNum \in 1 .. MaxNums + 1
  /\ stage \in [Squares -> {"none", "receive", "send", "exited"}]
  /\ forwarder \in [Squares -> {"none", "receive", "send", "exited"}]
  /\ item \in [Squares -> Int] /\ passed \in [Squares -> Int]
  /\ results \in Seq(Int)
  /\ cancelled \in BOOLEAN

\* What holds before and in every one of the three.
Common ==
  /\ pipeline = "idle" => /\ nextNum = 1 /\ results = <<>> /\ consumer = "none"
                          /\ cancelled = FALSE /\ gen = "none"
                          /\ \A s \in Squares : stage[s] = "none" /\ forwarder[s] = "none"
  /\ cancelled => pipeline = "early" /\ consumer \in {"wait", "returned"}
  /\ gen = "exited" /\ ~cancelled => nextNum = MaxNums + 1
  /\ consumer = "returned" => P!Exited
  /\ consumer = "cancel" => pipeline = "early"

OnePath ==
  pipeline \in {"linear", "early"} =>
    /\ closer = "none"
    /\ \A s \in Squares : forwarder[s] = "none"
    /\ \A s, t \in Squares : stage[s] # "none" /\ stage[t] # "none" => s = t
    /\ \A i \in 1 .. Len(results) : results[i] = i
    /\ ~cancelled => \A s \in Squares : stage[s] = "exited" => gen = "exited"
    /\ \A s \in Squares : Sending(s) /\ ~cancelled =>
         item[s] = nextNum - 1 /\ Len(results) = nextNum - 2
    /\ ~cancelled /\ (\A s \in Squares : ~Sending(s)) => Len(results) = nextNum - 1
    /\ pipeline = "linear" /\ consumer \in {"wait", "returned"} => Len(results) = MaxNums
    /\ pipeline = "early" /\ consumer = "range" => Len(results) < TakeFirst
    /\ pipeline = "early" /\ consumer \in {"cancel", "wait", "returned"} => Len(results) = TakeFirst

(* pipeline, with two: each number that was sent is in exactly one place.  *)
Placed(n) == \/ \E s \in Squares : Sending(s) /\ item[s] = n
             \/ \E s \in Squares : Forwarding(s) /\ passed[s] = n
             \/ \E i \in 1 .. Len(results) : results[i] = n

FanIn ==
  pipeline = "fanIn" =>
    /\ \A n \in 1 .. nextNum - 1 : Placed(n)
    /\ \A s \in Squares : Sending(s) => item[s] \in 1 .. nextNum - 1
    /\ \A s \in Squares : Forwarding(s) => passed[s] \in 1 .. nextNum - 1
    /\ \A i \in 1 .. Len(results) : results[i] \in 1 .. nextNum - 1
    /\ \A s, t \in Squares : Sending(s) /\ Sending(t) /\ item[s] = item[t] => s = t
    /\ \A s, t \in Squares : Forwarding(s) /\ Forwarding(t) /\ passed[s] = passed[t] => s = t
    /\ \A s, t \in Squares : Sending(s) /\ Forwarding(t) => item[s] # passed[t]
    /\ \A i, j \in 1 .. Len(results) : results[i] = results[j] => i = j
    /\ \A i \in 1 .. Len(results), s \in Squares :
         (Sending(s) => results[i] # item[s]) /\ (Forwarding(s) => results[i] # passed[s])

PipelineInv == PipelineTypes /\ Common /\ OnePath /\ FanIn

LEMMA PipelineInit == ASSUME P!Init PROVE PipelineInv
<1>1. /\ pipeline = "idle" /\ cancelled = FALSE /\ gen = "none" /\ nextNum = 1
      /\ stage = [s \in Squares |-> "none"] /\ item = [s \in Squares |-> 0]
      /\ forwarder = [s \in Squares |-> "none"] /\ passed = [s \in Squares |-> 0]
      /\ consumer = "none" /\ results = <<>>
  BY DEF P!Init
<1>2. PipelineTypes
  <2>1. 1 \in 1 .. MaxNums + 1
    BY PipelineAssumption
  <2>2. results \in Seq(Int)
    BY <1>1
  <2>3. cancelled \in BOOLEAN
    BY <1>1
  <2>4. QED
    BY <1>1, <2>1, <2>2, <2>3 DEF PipelineTypes
<1>3. Common
  BY <1>1 DEF Common
<1>4. OnePath /\ FanIn
  BY <1>1 DEF OnePath, FanIn
<1>5. QED
  BY <1>2, <1>3, <1>4 DEF PipelineInv

LEMMA PipelineStart ==
  ASSUME PipelineInv, P!linearPipeline \/ P!fanInPipeline \/ P!earlyCancellation
  PROVE  PipelineInv'
<1>1. PICK p \in {"linear", "early", "fanIn"}, used \in SUBSET Squares :
        /\ P!Start(p, used)
        /\ p # "fanIn" => \E s \in Squares : used = {s}
  BY DEF P!linearPipeline, P!fanInPipeline, P!earlyCancellation
<1>2. /\ pipeline = "idle" /\ pipeline' = p /\ gen' = "send" /\ consumer' = "range"
      /\ stage' = [s \in Squares |-> IF s \in used THEN "receive" ELSE "none"]
      /\ forwarder' = IF p = "fanIn" THEN stage' ELSE forwarder
      /\ closer' = IF p = "fanIn" THEN "wait" ELSE "none"
      /\ UNCHANGED <<cancelled, nextNum, item, passed, results>>
  BY <1>1 DEF P!Start
<1>3. /\ nextNum = 1 /\ results = <<>> /\ cancelled = FALSE /\ Len(results) = 0
      /\ \A s \in Squares : forwarder[s] = "none"
      /\ PipelineTypes
  BY <1>2 DEF PipelineInv, Common
<1>4. PipelineTypes'
  BY <1>2, <1>3 DEF PipelineTypes
<1>5. Common'
  BY <1>2, <1>3 DEF Common
<1>6. OnePath'
  BY <1>1, <1>2, <1>3, PipelineAssumption DEF OnePath, Sending
<1>7. FanIn'
  BY <1>2, <1>3 DEF FanIn, Sending, Forwarding
<1>8. QED
  BY <1>4, <1>5, <1>6, <1>7 DEF PipelineInv

LEMMA NumberSent ==
  ASSUME PipelineInv, NEW s \in Squares, P!GenSend(s)
  PROVE  PipelineInv'
<1>1. /\ gen = "send" /\ nextNum <= MaxNums /\ stage[s] = "receive"
      /\ nextNum' = nextNum + 1 /\ stage' = [stage EXCEPT ![s] = "send"]
      /\ item' = [item EXCEPT ![s] = nextNum]
      /\ UNCHANGED <<pipeline, cancelled, gen, forwarder, passed, closer, consumer, results>>
  BY DEF P!GenSend, P!merge, P!sink
<1>2. PipelineTypes /\ Common /\ OnePath /\ FanIn /\ Len(results) \in Nat
  BY LenProperties DEF PipelineInv, PipelineTypes
<1>3. PipelineTypes'
  BY <1>1, <1>2, PipelineAssumption DEF PipelineTypes
<1>4. Common'
  BY <1>1, <1>2 DEF Common, PipelineTypes, P!Exited
<1>5. OnePath'
  <2> SUFFICES ASSUME pipeline \in {"linear", "early"} PROVE OnePath'
    BY <1>1 DEF OnePath
  <2>1. \A t \in Squares \ {s} : stage[t] = "none" /\ stage'[t] = "none"
    BY <1>1, <1>2 DEF OnePath, PipelineTypes
  <2>2. stage'[s] = "send" /\ item'[s] = nextNum' - 1
    BY <1>1, <1>2 DEF PipelineTypes
  <2>3. ~cancelled => Len(results) = nextNum - 1
    BY <2>1, <1>1, <1>2 DEF OnePath, Sending
  <2>4. QED
    BY <1>1, <1>2, <2>1, <2>2, <2>3 DEF OnePath, PipelineTypes, Sending
<1>6. FanIn'
  <2> SUFFICES ASSUME pipeline = "fanIn" PROVE FanIn'
    BY <1>1 DEF FanIn
  <2>1. /\ \A t \in Squares : Sending(t)' <=> Sending(t) \/ t = s
        /\ \A t \in Squares : item'[t] = IF t = s THEN nextNum ELSE item[t]
        /\ \A t \in Squares : Forwarding(t)' <=> Forwarding(t)
        /\ ~Sending(s) /\ nextNum \in Nat \ {0} /\ nextNum' - 1 = nextNum
    BY <1>1, <1>2, PipelineAssumption DEF PipelineTypes, Sending, Forwarding
  <2>2. ASSUME NEW n \in 1 .. nextNum PROVE Placed(n)'
    <3>1. CASE n = nextNum
      BY <3>1, <2>1 DEF Placed
    <3>2. CASE n # nextNum
      <4>1. Placed(n)
        BY <3>2, <1>2, <2>1 DEF FanIn
      <4>2. QED
        BY <4>1, <1>1, <2>1 DEF Placed
    <3>3. QED
      BY <3>1, <3>2
  <2>3. /\ \A t \in Squares : Sending(t)' => item'[t] \in 1 .. nextNum
        /\ \A t \in Squares : Forwarding(t)' => passed'[t] \in 1 .. nextNum
        /\ \A i \in 1 .. Len(results') : results'[i] \in 1 .. nextNum
    <3>1. \A n \in 1 .. nextNum - 1 : n \in 1 .. nextNum
      BY <2>1
    <3>2. nextNum \in 1 .. nextNum
      BY <2>1
    <3>3. QED
      BY <1>1, <1>2, <2>1, <3>1, <3>2 DEF FanIn
  <2>4. ASSUME NEW t \in Squares, t # s
        PROVE  /\ Sending(t) => item[t] # nextNum
               /\ Forwarding(t) => passed[t] # nextNum
    BY <1>2, <2>1 DEF FanIn
  <2>5. /\ Forwarding(s) => passed[s] # nextNum
        /\ \A i \in 1 .. Len(results) : results[i] # nextNum
    BY <1>2, <2>1 DEF FanIn
  <2>6. /\ \A t, u \in Squares : Sending(t)' /\ Sending(u)' /\ item'[t] = item'[u] => t = u
        /\ \A t, u \in Squares : Sending(t)' /\ Forwarding(u)' => item'[t] # passed'[u]
    BY <1>1, <1>2, <2>1, <2>4, <2>5 DEF FanIn
  <2>7. \A i \in 1 .. Len(results'), t \in Squares :
          (Sending(t)' => results'[i] # item'[t]) /\ (Forwarding(t)' => results'[i] # passed'[t])
    BY <1>1, <1>2, <2>1, <2>5 DEF FanIn
  <2>8. /\ \A t, u \in Squares : Forwarding(t)' /\ Forwarding(u)' /\ passed'[t] = passed'[u] => t = u
        /\ \A i, j \in 1 .. Len(results') : results'[i] = results'[j] => i = j
    BY <1>1, <1>2, <2>1 DEF FanIn
  <2>9. QED
    BY <1>1, <2>1, <2>2, <2>3, <2>6, <2>7, <2>8 DEF FanIn
<1>7. QED
  BY <1>3, <1>4, <1>5, <1>6 DEF PipelineInv

LEMMA GenOrStageEnds ==
  ASSUME PipelineInv, P!GenExit \/ \E s \in Squares : P!SquareExit(s)
  PROVE  PipelineInv'
<1>1. CASE P!GenExit
  <2>1. /\ gen = "send" /\ gen' = "exited" /\ (nextNum > MaxNums \/ cancelled)
        /\ UNCHANGED <<pipeline, cancelled, nextNum, stage, item, forwarder, passed, closer, consumer, results>>
    BY <1>1 DEF P!GenExit, P!squares, P!merge, P!sink
  <2>2. PipelineTypes'
    BY <2>1 DEF PipelineInv, PipelineTypes
  <2>3. Common'
    BY <2>1, PipelineAssumption DEF PipelineInv, PipelineTypes, Common, P!Exited
  <2>4. OnePath'
    BY <2>1 DEF PipelineInv, OnePath, Sending
  <2>5. FanIn'
    BY <2>1 DEF PipelineInv, FanIn, Placed, Sending, Forwarding
  <2>6. QED
    BY <2>2, <2>3, <2>4, <2>5 DEF PipelineInv
<1>2. ASSUME NEW s \in Squares, P!SquareExit(s) PROVE PipelineInv'
  <2>1. /\ stage' = [stage EXCEPT ![s] = "exited"]
        /\ \/ stage[s] = "receive" /\ gen = "exited"
           \/ stage[s] = "send" /\ cancelled
        /\ UNCHANGED <<pipeline, cancelled, gen, nextNum, item, forwarder, passed, closer, consumer, results>>
    BY <1>2 DEF P!SquareExit, P!source, P!merge, P!sink
  <2>2. PipelineTypes'
    BY <2>1 DEF PipelineInv, PipelineTypes
  <2>3. Common'
    BY <2>1 DEF PipelineInv, PipelineTypes, Common, P!Exited
  <2>4. OnePath'
    BY <2>1 DEF PipelineInv, PipelineTypes, OnePath, Sending
  <2>5. FanIn'
    <3> SUFFICES ASSUME pipeline = "fanIn" PROVE FanIn'
      BY <2>1 DEF FanIn
    <3>1. stage[s] # "send"
      BY <2>1 DEF PipelineInv, Common
    <3>2. \A t \in Squares : Sending(t)' <=> Sending(t)
      BY <2>1, <3>1 DEF PipelineInv, PipelineTypes, Sending
    <3>3. \A n : Placed(n)' <=> Placed(n)
      BY <2>1, <3>2 DEF Placed, Forwarding
    <3>4. QED
      BY <2>1, <3>2, <3>3 DEF PipelineInv, FanIn, Forwarding
  <2>6. QED
    BY <2>2, <2>3, <2>4, <2>5 DEF PipelineInv
<1>3. QED
  BY <1>1, <1>2

LEMMA NumberForwarded ==
  ASSUME PipelineInv, NEW s \in Squares, P!Forward(s)
  PROVE  PipelineInv'
<1>1. /\ stage[s] = "send" /\ forwarder[s] = "receive"
      /\ stage' = [stage EXCEPT ![s] = "receive"]
      /\ forwarder' = [forwarder EXCEPT ![s] = "send"]
      /\ passed' = [passed EXCEPT ![s] = item[s]]
      /\ UNCHANGED <<pipeline, cancelled, gen, nextNum, item, closer, consumer, results>>
  BY DEF P!Forward, P!source, P!sink
<1>2. PipelineTypes /\ Common /\ OnePath /\ FanIn
  BY DEF PipelineInv
<1>3. PipelineTypes'
  BY <1>1, <1>2 DEF PipelineTypes
<1>4. Common'
  BY <1>1, <1>2 DEF Common, PipelineTypes, P!Exited
<1>5. OnePath'
  BY <1>1, <1>2 DEF OnePath
<1>6. FanIn'
  <2> SUFFICES ASSUME pipeline = "fanIn" PROVE FanIn'
    BY <1>1 DEF FanIn
  <2>1. /\ \A t \in Squares : Sending(t)' <=> Sending(t) /\ t # s
        /\ \A t \in Squares : Forwarding(t)' <=> Forwarding(t) \/ t = s
        /\ \A t \in Squares : passed'[t] = IF t = s THEN item[s] ELSE passed[t]
        /\ Sending(s) /\ ~Forwarding(s)
    BY <1>1, <1>2 DEF PipelineTypes, Sending, Forwarding
  <2>2. ASSUME NEW n \in 1 .. nextNum - 1 PROVE Placed(n)'
    <3>1. Placed(n)
      BY <1>2 DEF FanIn
    <3>2. QED
      BY <3>1, <1>1, <2>1 DEF Placed
  <2>3. QED
    BY <1>1, <1>2, <2>1, <2>2 DEF FanIn
<1>7. QED
  BY <1>3, <1>4, <1>5, <1>6 DEF PipelineInv

LEMMA SquareTaken ==
  ASSUME PipelineInv, NEW s \in Squares, P!TakeSquare(s)
  PROVE  PipelineInv'
<1>1. /\ consumer = "range" /\ pipeline \in {"linear", "early"} /\ stage[s] = "send"
      /\ results' = Append(results, item[s]) /\ stage' = [stage EXCEPT ![s] = "receive"]
      /\ consumer' = IF pipeline = "early" /\ Len(results') = TakeFirst THEN "cancel" ELSE "range"
      /\ UNCHANGED <<pipeline, cancelled, gen, nextNum, item, forwarder, passed, closer>>
  BY DEF P!TakeSquare, P!Take, P!source, P!merge
<1>2. PipelineTypes /\ Common /\ OnePath /\ Len(results) \in Nat /\ item[s] \in Int
  BY LenProperties DEF PipelineInv, PipelineTypes
<1>3. /\ results' \in Seq(Int) /\ Len(results') = Len(results) + 1
      /\ \A i \in 1 .. Len(results) : results'[i] = results[i]
      /\ results'[Len(results) + 1] = item[s]
  BY <1>1, <1>2, AppendProperties DEF PipelineTypes
<1>4. ~cancelled /\ item[s] = nextNum - 1 /\ Len(results) = nextNum - 2
  BY <1>1, <1>2 DEF Common, OnePath, Sending
<1>5. PipelineTypes'
  BY <1>1, <1>2, <1>3 DEF PipelineTypes
<1>6. Common'
  BY <1>1, <1>2 DEF Common
<1>7. OnePath'
  <2>1. \A i \in 1 .. Len(results') : results'[i] = i
    <3>1. \A i \in 1 .. Len(results) : results[i] = i
      BY <1>1, <1>2 DEF OnePath
    <3>2. results'[Len(results) + 1] = Len(results) + 1
      BY <1>2, <1>3, <1>4 DEF PipelineTypes
    <3>3. QED
      BY <3>1, <3>2, <1>2, <1>3
  <2>2. \A t \in Squares : stage'[t] # "send"
    BY <1>1, <1>2 DEF OnePath, PipelineTypes
  <2>3. Len(results') = nextNum' - 1
    BY <1>1, <1>2, <1>3, <1>4 DEF PipelineTypes
  <2>4. QED
    BY <1>1, <1>2, <1>3, <1>4, <2>1, <2>2, <2>3, PipelineAssumption DEF OnePath, PipelineTypes, Sending
<1>8. FanIn'
  BY <1>1 DEF FanIn
<1>9. QED
  BY <1>5, <1>6, <1>7, <1>8 DEF PipelineInv

LEMMA MergedTaken ==
  ASSUME PipelineInv, NEW s \in Squares, P!TakeMerged(s)
  PROVE  PipelineInv'
<1>1. /\ consumer = "range" /\ forwarder[s] = "send"
      /\ results' = Append(results, passed[s]) /\ forwarder' = [forwarder EXCEPT ![s] = "receive"]
      /\ UNCHANGED <<pipeline, cancelled, gen, nextNum, stage, item, passed, closer, consumer>>
  BY DEF P!TakeMerged, P!Take, P!source, P!squares
<1>2. PipelineTypes /\ Common /\ OnePath /\ FanIn /\ Len(results) \in Nat /\ passed[s] \in Int
  BY LenProperties DEF PipelineInv, PipelineTypes
<1>3. /\ results' \in Seq(Int) /\ Len(results') = Len(results) + 1
      /\ \A i \in 1 .. Len(results) : results'[i] = results[i]
      /\ results'[Len(results) + 1] = passed[s]
  BY <1>1, <1>2, AppendProperties DEF PipelineTypes
<1>4. PipelineTypes'
  BY <1>1, <1>2, <1>3 DEF PipelineTypes
<1>5. Common'
  BY <1>1, <1>2 DEF Common
<1>6. OnePath'
  BY <1>1, <1>2 DEF OnePath
<1>7. FanIn'
  <2> SUFFICES ASSUME pipeline = "fanIn" PROVE FanIn'
    BY <1>1 DEF FanIn
  <2>1. /\ \A t \in Squares : Sending(t)' <=> Sending(t)
        /\ \A t \in Squares : Forwarding(t)' <=> Forwarding(t) /\ t # s
        /\ Forwarding(s)
    BY <1>1, <1>2 DEF PipelineTypes, Sending, Forwarding
  <2>2. \A n \in 1 .. nextNum - 1 : Placed(n)'
    BY <1>1, <1>2, <1>3, <2>1 DEF FanIn, Placed
  <2>3. \A i \in 1 .. Len(results') : results'[i] \in 1 .. nextNum - 1
    BY <1>1, <1>2, <1>3, <2>1 DEF FanIn
  <2>4. ASSUME NEW i \in 1 .. Len(results'), NEW j \in 1 .. Len(results'), results'[i] = results'[j]
        PROVE  i = j
    <3>1. \A k \in 1 .. Len(results) : results'[k] # passed[s]
      BY <1>2, <1>3, <2>1 DEF FanIn
    <3>2. CASE i <= Len(results) /\ j <= Len(results)
      BY <3>2, <2>4, <1>2, <1>3 DEF FanIn
    <3>3. QED
      BY <3>1, <3>2, <2>4, <1>3, <1>2
  <2>5. ASSUME NEW i \in 1 .. Len(results'), NEW t \in Squares
        PROVE  /\ Sending(t)' => results'[i] # item[t]
               /\ Forwarding(t)' => results'[i] # passed[t]
    BY <1>2, <1>3, <2>1 DEF FanIn
  <2>6. QED
    BY <1>1, <1>2, <2>1, <2>2, <2>3, <2>4, <2>5 DEF FanIn
<1>8. QED
  BY <1>4, <1>5, <1>6, <1>7 DEF PipelineInv

LEMMA ConsumerEnds ==
  ASSUME PipelineInv, P!Cancel \/ P!RangeEnds \/ P!Return
  PROVE  PipelineInv'
<1>1. PipelineTypes /\ Common /\ OnePath /\ FanIn /\ Len(results) \in Nat
  BY LenProperties DEF PipelineInv, PipelineTypes
<1>2. UNCHANGED <<pipeline, gen, nextNum, stage, item, forwarder, passed, closer, results>>
  BY DEF P!Cancel, P!RangeEnds, P!Return, P!source, P!squares, P!merge
<1>3. PipelineTypes' /\ FanIn'
  BY <1>1, <1>2 DEF P!Cancel, P!RangeEnds, P!Return, PipelineTypes, FanIn, Placed, Sending, Forwarding
<1>4. CASE P!Cancel
  BY <1>1, <1>2, <1>3, <1>4 DEF P!Cancel, PipelineInv, Common, OnePath, Sending
<1>5. CASE P!RangeEnds
  <2>1. pipeline \in {"linear", "early"} => ~cancelled /\ Len(results) = MaxNums
    <3> SUFFICES ASSUME pipeline \in {"linear", "early"}
                 PROVE  ~cancelled /\ Len(results) = MaxNums
      OBVIOUS
    <3>1. consumer = "range" /\ \E s \in Squares : stage[s] = "exited"
      BY <1>5 DEF P!RangeEnds, P!OutputClosed
    <3>2. ~cancelled
      BY <3>1, <1>1 DEF Common
    <3>3. \A s \in Squares : ~Sending(s)
      BY <3>1, <1>1 DEF OnePath, Sending
    <3>4. gen = "exited"
      BY <3>1, <3>2, <1>1 DEF OnePath
    <3>5. nextNum = MaxNums + 1 /\ Len(results) = nextNum - 1
      BY <3>2, <3>3, <3>4, <1>1 DEF Common, OnePath
    <3>6. QED
      BY <3>2, <3>5, PipelineAssumption
  <2>2. pipeline # "early"
    BY <2>1, <1>1, <1>5, PipelineAssumption DEF P!RangeEnds, OnePath
  <2>3. QED
    BY <1>1, <1>2, <1>3, <1>5, <2>1, <2>2 DEF P!RangeEnds, PipelineInv, Common, OnePath, Sending
<1>6. CASE P!Return
  <2>1. consumer = "wait" /\ consumer' = "returned" /\ cancelled' = cancelled /\ P!Exited
    BY <1>6 DEF P!Return
  <2>2. P!Exited'
    BY <2>1, <1>2 DEF P!Exited
  <2>3. Common'
    BY <2>1, <2>2, <1>1, <1>2 DEF Common
  <2>4. OnePath'
    <3> SUFFICES ASSUME pipeline \in {"linear", "early"} PROVE OnePath'
      BY <1>2 DEF OnePath
    <3>1. /\ pipeline = "linear" => Len(results) = MaxNums
          /\ pipeline = "early" => Len(results) = TakeFirst
      BY <2>1, <1>1 DEF OnePath
    <3>2. QED
      BY <2>1, <3>1, <1>1, <1>2 DEF OnePath, Sending
  <2>5. QED
    BY <1>3, <2>3, <2>4 DEF PipelineInv
<1>7. QED
  BY <1>4, <1>5, <1>6

LEMMA PipelineNext == ASSUME PipelineInv, [P!Next]_(P!vars) PROVE PipelineInv'
<1>1. ASSUME NEW s \in Squares, P!ForwarderExit(s) PROVE PipelineInv'
  <2>1. /\ forwarder[s] = "receive" /\ forwarder' = [forwarder EXCEPT ![s] = "exited"]
        /\ UNCHANGED <<pipeline, cancelled, gen, nextNum, stage, item, passed, closer, consumer, results>>
    BY <1>1 DEF P!ForwarderExit, P!source, P!squares, P!sink
  <2>2. PipelineTypes'
    BY <2>1 DEF PipelineInv, PipelineTypes
  <2>3. consumer # "returned" /\ pipeline = "fanIn" /\ ~cancelled
    BY <2>1 DEF PipelineInv, PipelineTypes, Common, OnePath, P!Exited
  <2>4. Common'
    BY <2>1, <2>3 DEF PipelineInv, Common
  <2>5. OnePath'
    BY <2>1, <2>3 DEF OnePath
  <2>6. FanIn'
    <3>1. \A t \in Squares : (Forwarding(t)' <=> Forwarding(t)) /\ (Sending(t)' <=> Sending(t))
      BY <2>1 DEF PipelineInv, PipelineTypes, Forwarding, Sending
    <3>2. \A n : Placed(n)' <=> Placed(n)
      BY <2>1, <3>1 DEF Placed
    <3>3. QED
      BY <2>1, <3>1, <3>2 DEF PipelineInv, FanIn
  <2>7. QED
    BY <2>2, <2>4, <2>5, <2>6 DEF PipelineInv
<1>2. CASE P!CloseMerged
  BY <1>2 DEF P!CloseMerged, P!source, P!squares, P!sink, PipelineInv, PipelineTypes, Common, OnePath,
              FanIn, Placed, Sending, Forwarding, P!Exited
<1>3. CASE UNCHANGED P!vars
  BY <1>3 DEF P!vars, P!source, P!squares, P!merge, P!sink, PipelineInv, PipelineTypes, Common, OnePath,
              FanIn, Placed, Sending, Forwarding, P!Exited
<1>4. QED
  BY <1>1, <1>2, <1>3, PipelineStart, NumberSent, GenOrStageEnds, NumberForwarded, SquareTaken,
     MergedTaken, ConsumerEnds DEF P!Next, P!Step

(* Once everybody has exited, the numbers are nowhere but in the results.  *)
LEMMA PipelineFits == ASSUME PipelineInv PROVE PipelineResultsFit
<1> SUFFICES ASSUME consumer = "returned"
             PROVE  /\ pipeline = "linear" => results = [i \in 1 .. MaxNums |-> i]
                    /\ pipeline = "early"  => results = [i \in 1 .. TakeFirst |-> i]
                    /\ pipeline = "fanIn"  =>
                         /\ Len(results) = MaxNums
                         /\ \A n \in 1 .. MaxNums : \E i \in DOMAIN results : results[i] = n
  BY DEF PipelineResultsFit, P!ResultsFit
<1>1. /\ PipelineTypes /\ Common /\ OnePath /\ FanIn /\ Len(results) \in Nat
      /\ DOMAIN results = 1 .. Len(results) /\ results = [i \in 1 .. Len(results) |-> results[i]]
  BY LenProperties DEF PipelineInv, PipelineTypes
<1>2. pipeline = "linear" => Len(results) = MaxNums
  BY <1>1 DEF OnePath
<1>3. pipeline = "early" => Len(results) = TakeFirst
  BY <1>1 DEF OnePath
<1>4. ASSUME pipeline \in {"linear", "early"}
      PROVE  results = [i \in 1 .. Len(results) |-> i]
  BY <1>1, <1>4 DEF OnePath
<1>5. ASSUME pipeline = "fanIn"
      PROVE  /\ Len(results) = MaxNums
             /\ \A n \in 1 .. MaxNums : \E i \in DOMAIN results : results[i] = n
  <2>1. /\ nextNum = MaxNums + 1
        /\ \A s \in Squares : ~Sending(s) /\ ~Forwarding(s)
    BY <1>1, <1>5 DEF Common, P!Exited, Sending, Forwarding
  <2>2. \A n \in 1 .. MaxNums : \E i \in 1 .. Len(results) : results[i] = n
    BY <1>1, <1>5, <2>1, PipelineAssumption DEF FanIn, Placed
  <2>3. results \in [1 .. Len(results) -> 1 .. MaxNums]
    BY <1>1, <1>5, <2>1, PipelineAssumption DEF FanIn
  <2>4. Len(results) <= MaxNums
    BY <1>1, <1>5, <2>3, NoMoreNumbers, PipelineAssumption DEF FanIn
  <2> DEFINE at == [n \in 1 .. MaxNums |-> CHOOSE i \in 1 .. Len(results) : results[i] = n]
  <2>5. \A n \in 1 .. MaxNums : at[n] \in 1 .. Len(results) /\ results[at[n]] = n
    BY <2>2
  <2>6. MaxNums <= Len(results)
    <3>1. at \in [1 .. MaxNums -> 1 .. Len(results)]
      BY <2>5
    <3>2. \A m, n \in 1 .. MaxNums : at[m] = at[n] => m = n
      <4> HIDE DEF at
      <4> QED
        BY <2>5
    <3> HIDE DEF at
    <3>3. QED
      BY <3>1, <3>2, <1>1, NoMoreNumbers, PipelineAssumption
  <2>7. QED
    BY <2>2, <2>4, <2>6, <1>1, PipelineAssumption
<1>6. QED
  BY <1>2, <1>3, <1>4, <1>5

LEMMA PipelineStep == [Next]_vars => [P!Next]_(P!vars)
  BY DEF Next, vars, pipelineVars, P!vars, P!source, P!squares, P!merge, P!sink

(* pipeline: every number comes out once, in order where there is one      *)
(* path; a consumer that leaves early has the first few.                   *)
THEOREM NumbersPassOnce == Spec => []PipelineResultsFit
<1>1. Init => PipelineInv
  BY PipelineInit DEF Init
<1>2. PipelineInv /\ [Next]_vars => PipelineInv'
  BY PipelineNext, PipelineStep
<1>3. QED
  BY <1>1, <1>2, PipelineFits, PTL DEF Spec
=============================================================================
