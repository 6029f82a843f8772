----------------------------- MODULE PoolProofs ------------------------------
(***************************************************************************)
(* Proofs about Pool, for any number of tasks and workers: the WaitGroup   *)
(* counts the tasks still to send and the workers still busy, so it is     *)
(* zero after the last send only when no worker has a task in hand.        *)
(***************************************************************************)
EXTENDS Pool, TLAPS, FiniteSetTheorems

(* There are finitely many busy workers, before a step and after it. *)
LEMMA BusyIsFinite ==
  /\ IsFiniteSet(Busy) /\ Cardinality(Busy) \in Nat
  /\ IsFiniteSet(Busy') /\ Cardinality(Busy') \in Nat
<1>1. IsFiniteSet(Workers)
  BY FS_Interval, BoundAssumption DEF Workers
<1>2. Busy \subseteq Workers /\ Busy' \subseteq Workers
  BY DEF Busy
<1>3. QED
  BY <1>1, <1>2, FS_Subset, FS_CardinalityType

(* A pool that has not started satisfies the invariant. *)
LEMMA InitIInv == Init => IInv
<1> SUFFICES ASSUME Init PROVE IInv
  OBVIOUS
<1>1. TypeOK
  <2>1. closed \in BOOLEAN
    BY Zenon DEF Init
  <2>2. /\ n \in 0 .. MaxTasks /\ concurrency \in 0 .. MaxWorkers
        /\ main \in {"spawn", "send", "wait", "returned", "panicked"}
        /\ spawned \in 0 .. concurrency /\ sent \in 0 .. n /\ wg \in Nat
    BY BoundAssumption DEF Init
  <2>3. /\ wpc \in [Workers -> {"none", "receive", "run", "finish", "exited", "gone"}]
        /\ wtask \in [Workers -> 0 .. MaxTasks]
        /\ err \in [Tasks -> {"unset", "nil", "error"}]
        /\ runs \in [Tasks -> Nat]
    BY BoundAssumption DEF Init
  <2>4. QED
    BY <2>1, <2>2, <2>3, Zenon DEF TypeOK
<1>2. WaitGroupCounts /\ RunSeesEveryResult
  BY DEF Init, WaitGroupCounts, RunSeesEveryResult
<1>3. EachTaskOnce /\ TasksFit
  BY BoundAssumption DEF Init, EachTaskOnce, TasksFit, Busy, Tasks, Workers
<1>4. QED
  BY <1>1, <1>2, <1>3 DEF IInv

(* Steps of Run that give no task away. *)
LEMMA RunIInv ==
  ASSUME IInv, Add \/ Close \/ Return \/ RunAgain
  PROVE  IInv'
<1> USE DEF Add, Close, Return, RunAgain, Fixed, worker, task
<1>1. TypeOK'
  <2>1. closed' \in BOOLEAN
    BY Zenon DEF IInv, TypeOK
  <2>2. /\ main' \in {"spawn", "send", "wait", "returned", "panicked"}
        /\ wg' \in Nat
        /\ UNCHANGED <<n, concurrency, spawned, sent, wpc, wtask, err, runs>>
    BY DEF IInv, TypeOK
  <2>3. QED
    BY <2>1, <2>2, Zenon DEF IInv, TypeOK
<1>2. Busy' = Busy
  BY DEF Busy
<1>3. WaitGroupCounts'
  <2>1. CASE Add
    <3>1. Busy = {} /\ wg' = n /\ sent' = 0 /\ n' = n
      BY <2>1 DEF IInv, TasksFit, Busy, TypeOK, Workers
    <3>2. Cardinality(Busy') = 0
      BY <3>1, <1>2, FS_EmptySet
    <3>3. QED
      BY <3>1, <3>2 DEF WaitGroupCounts, IInv, TypeOK
  <2>2. CASE ~Add
    BY <2>2, <1>2, Zenon DEF IInv, WaitGroupCounts
  <2>3. QED
    BY <2>1, <2>2
<1>4. EachTaskOnce' /\ TasksFit'
  BY <1>2 DEF IInv, EachTaskOnce, TasksFit, TypeOK
<1>5. RunSeesEveryResult'
  <2>1. CASE Return
    <3>1. n \in Nat /\ sent = n /\ wg = 0 /\ wg = (n - sent) + Cardinality(Busy)
      BY <2>1 DEF IInv, TypeOK, TasksFit, WaitGroupCounts
    <3>2. Busy = {}
      BY <3>1, BusyIsFinite, FS_EmptySet
    <3>3. QED
      BY <2>1, <3>1, <3>2, <1>2 DEF IInv, TasksFit, RunSeesEveryResult
  <2>2. CASE ~Return
    BY <2>2 DEF RunSeesEveryResult
  <2>3. QED
    BY <2>1, <2>2
<1>6. QED
  BY <1>1, <1>3, <1>4, <1>5 DEF IInv

(* Run starts a worker: it has no task yet. *)
LEMMA SpawnIInv ==
  ASSUME IInv, Spawn
  PROVE  IInv'
<1> DEFINE w == spawned + 1
<1>1. /\ main = "spawn" /\ w \in Workers /\ wpc[w] = "none"
      /\ wpc' = [wpc EXCEPT ![w] = "receive"] /\ spawned' = w
      /\ UNCHANGED <<n, concurrency, main, sent, closed, wg, wtask, err, runs>>
  BY BoundAssumption
  DEF Spawn, Fixed, task, IInv, TypeOK, TasksFit, Workers
<1>2. TypeOK'
  <2>1. w \in 0 .. concurrency
    BY DEF Spawn, IInv, TypeOK
  <2>2. QED
    BY <1>1, <2>1 DEF IInv, TypeOK
<1>3. Busy' = Busy /\ \A v \in Workers : wpc'[v] = wpc[v] \/ wpc'[v] = "receive"
  BY <1>1 DEF Busy, IInv, TypeOK
<1>4. WaitGroupCounts' /\ RunSeesEveryResult' /\ EachTaskOnce'
  BY <1>1, <1>3 DEF IInv, WaitGroupCounts, RunSeesEveryResult, EachTaskOnce
<1>5. TasksFit'
  <2>1. \A v \in Workers : v > w => wpc'[v] = "none"
    BY <1>1 DEF IInv, TypeOK, TasksFit, Workers
  <2>2. QED
    BY <1>1, <1>3, <2>1 DEF IInv, TypeOK, TasksFit
<1>6. QED
  BY <1>2, <1>4, <1>5 DEF IInv

(* A task is handed over: it is the worker's and nobody else's. *)
LEMMA SendIInv ==
  ASSUME IInv, NEW w \in Workers, Send(w)
  PROVE  IInv'
<1> DEFINE t == sent + 1
<1>1. /\ main = "send" /\ wpc[w] = "receive"
      /\ wpc' = [wpc EXCEPT ![w] = "run"] /\ wtask' = [wtask EXCEPT ![w] = t]
      /\ sent' = t
      /\ UNCHANGED <<n, concurrency, main, spawned, closed, wg, err, runs>>
  BY DEF Send, Fixed, task
<1>2. /\ t \in 1 .. n /\ t \in Tasks /\ n \in Nat /\ sent \in Nat
      /\ Tasks = 1 .. MaxTasks /\ MaxTasks \in Nat
  BY BoundAssumption DEF Send, IInv, TypeOK, Tasks
<1>3. /\ wpc'[w] = "run" /\ wtask'[w] = t
      /\ \A v \in Workers : v # w => wpc'[v] = wpc[v] /\ wtask'[v] = wtask[v]
  BY <1>1 DEF IInv, TypeOK
<1>4. w \notin Busy /\ Busy' = Busy \cup {w}
  BY <1>1, <1>3 DEF Busy
<1>5. TypeOK'
  BY <1>1, <1>2 DEF IInv, TypeOK
<1>6. WaitGroupCounts'
  <2>1. Cardinality(Busy') = Cardinality(Busy) + 1 /\ Cardinality(Busy) \in Nat
    BY <1>4, BusyIsFinite, FS_AddElement
  <2>2. QED
    BY <1>1, <1>2, <2>1 DEF IInv, WaitGroupCounts
<1>7. RunSeesEveryResult' /\ EachTaskOnce'
  BY <1>1 DEF IInv, RunSeesEveryResult, EachTaskOnce
<1>8. TasksFit'
  <2>1. /\ \A v \in Busy : wtask[v] \in 1 .. sent
        /\ runs[t] = 0
    BY <1>2 DEF IInv, TasksFit, Busy
  <2>2. /\ \A v \in Workers : wpc'[v] \in {"run", "finish", "gone"} =>
             wtask'[v] \in 1 .. t
        /\ \A u, v \in Busy' : wtask'[u] = wtask'[v] => u = v
    BY <1>2, <1>3, <1>4, <2>1 DEF IInv, TasksFit, Busy
  <2>3. /\ \A v \in Workers : wpc'[v] = "run" => runs[wtask'[v]] = 0
        /\ \A v \in Workers : wpc'[v] = "finish" =>
             runs[wtask'[v]] = 1 /\ err[wtask'[v]] # "unset"
    BY <1>3, <2>1 DEF IInv, TasksFit
  <2>4. /\ \A k \in Tasks : k > t => runs[k] = 0
        /\ \A k \in 1 .. t : \/ runs[k] = 1 /\ err[k] # "unset"
                             \/ \E v \in Busy' : wtask'[v] = k
    <3>1. \A k \in Tasks : k > t => runs[k] = 0
      BY <1>2 DEF IInv, TasksFit
    <3>2. ASSUME NEW k \in 1 .. sent
          PROVE  \/ runs[k] = 1 /\ err[k] # "unset"
                 \/ \E v \in Busy' : wtask'[v] = k
      BY <1>3, <1>4 DEF IInv, TasksFit, Busy
    <3>3. \E v \in Busy' : wtask'[v] = t
      BY <1>3, <1>4
    <3>4. QED
      BY <1>2, <3>1, <3>2, <3>3
  <2>5. QED
    BY <1>1, <2>2, <2>3, <2>4 DEF TasksFit
<1>9. QED
  BY <1>5, <1>6, <1>7, <1>8 DEF IInv

(* The function of a task returns, or ends its goroutine or the process:   *)
(* the worker is still the only one that has the task.                     *)
LEMMA CallIInv ==
  ASSUME IInv, NEW w \in Workers, Execute(w) \/ Goexit(w) \/ Panic(w)
  PROVE  IInv'
<1> DEFINE t == wtask[w]
<1>1. /\ wpc[w] = "run" /\ t \in 1 .. sent /\ t \in Tasks /\ runs[t] = 0
      /\ w \in Busy /\ main # "returned"
  BY BoundAssumption
  DEF Execute, Goexit, Panic, IInv, TypeOK, TasksFit, RunSeesEveryResult, Tasks, Busy
<1>2. /\ wpc' \in [Workers -> {"none", "receive", "run", "finish", "exited", "gone"}]
      /\ wpc'[w] \in {"finish", "gone"}
      /\ \A v \in Workers : v # w => wpc'[v] = wpc[v]
      /\ runs' = [runs EXCEPT ![t] = 1]
      /\ main' \in {main, "panicked"}
      /\ UNCHANGED <<n, concurrency, spawned, sent, closed, wg, wtask>>
  BY <1>1 DEF Execute, Goexit, Panic, Fixed, run, IInv, TypeOK
<1>3. /\ err' \in [Tasks -> {"unset", "nil", "error"}]
      /\ \A k \in Tasks : k # t => err'[k] = err[k]
      /\ wpc'[w] = "finish" => err'[t] # "unset"
  BY <1>1 DEF Execute, Goexit, Panic, IInv, TypeOK
<1>4. /\ runs' \in [Tasks -> Nat] /\ runs'[t] = 1
      /\ \A k \in Tasks : k # t => runs'[k] = runs[k]
  BY <1>1, <1>2 DEF IInv, TypeOK
<1>5. Busy' = Busy
  BY <1>1, <1>2 DEF Busy
<1>6. TypeOK'
  BY <1>2, <1>3, <1>4 DEF IInv, TypeOK
<1>7. WaitGroupCounts' /\ RunSeesEveryResult'
  BY <1>1, <1>2, <1>5 DEF IInv, WaitGroupCounts, RunSeesEveryResult
<1>8. EachTaskOnce'
  BY <1>4 DEF IInv, EachTaskOnce
<1>9. TasksFit'
  <2>1. \A v \in Busy : v # w => wtask[v] # t
    BY <1>1 DEF IInv, TasksFit
  <2>2. \A v \in Workers : v # w /\ wpc[v] \in {"run", "finish"} =>
          /\ wtask[v] \in Tasks /\ wtask[v] # t
    BY <2>1, BoundAssumption DEF IInv, TypeOK, TasksFit, Busy, Tasks
  <2>3. /\ \A v \in Workers : wpc'[v] = "run" => runs'[wtask[v]] = 0
        /\ \A v \in Workers : wpc'[v] = "finish" =>
             runs'[wtask[v]] = 1 /\ err'[wtask[v]] # "unset"
    BY <1>2, <1>3, <1>4, <2>2 DEF IInv, TasksFit
  <2>4. \A k \in 1 .. sent : \/ runs'[k] = 1 /\ err'[k] # "unset"
                             \/ \E v \in Busy : wtask[v] = k
    <3>1. SUFFICES ASSUME NEW k \in 1 .. sent, k # t
                   PROVE  \/ runs'[k] = 1 /\ err'[k] # "unset"
                          \/ \E v \in Busy : wtask[v] = k
      BY <1>1
    <3>2. k \in Tasks
      BY <3>1, BoundAssumption DEF IInv, TypeOK, Tasks
    <3>3. QED
      BY <3>1, <3>2, <1>3, <1>4 DEF IInv, TasksFit
  <2>5. \A k \in Tasks : k > sent => runs'[k] = 0
    BY <1>1, <1>4 DEF IInv, TypeOK, TasksFit
  <2>6. /\ \A v \in Workers : wpc'[v] \in {"run", "finish", "gone"} =>
             wtask[v] \in 1 .. sent
        /\ \A u, v \in Busy : wtask[u] = wtask[v] => u = v
    BY <1>1, <1>2 DEF IInv, TasksFit
  <2>7. /\ main' \in {"wait", "returned"} => sent = n
        /\ main' # "spawn"
    BY <1>1, <1>2 DEF IInv, TypeOK, TasksFit
  <2>8. QED
    BY <1>2, <1>5, <2>3, <2>4, <2>5, <2>6, <2>7 DEF TasksFit
<1>10. QED
  BY <1>6, <1>7, <1>8, <1>9 DEF IInv

(* Done: the worker is free, and its task is finished. *)
LEMMA DoneIInv ==
  ASSUME IInv, NEW w \in Workers, Done(w)
  PROVE  IInv'
<1>1. /\ wpc[w] = "finish" /\ w \in Busy /\ wg' = wg - 1
      /\ wpc' = [wpc EXCEPT ![w] = "receive"]
      /\ UNCHANGED <<n, concurrency, main, spawned, sent, closed, wtask, err, runs>>
      /\ main # "panicked"
  BY DEF Done, Alive, Fixed, run, task, Busy
<1>2. main \in {"send", "wait"}
  BY <1>1 DEF IInv, TypeOK, TasksFit, RunSeesEveryResult
<1>3. /\ wpc'[w] = "receive"
      /\ \A v \in Workers : v # w => wpc'[v] = wpc[v]
  BY <1>1 DEF IInv, TypeOK
<1>4. Busy' = Busy \ {w}
  BY <1>1, <1>3 DEF Busy
<1>5. Cardinality(Busy') = Cardinality(Busy) - 1 /\ Cardinality(Busy') \in Nat
      /\ Cardinality(Busy) \in Nat
  BY <1>1, <1>4, BusyIsFinite, FS_RemoveElement
<1>6. wg = (n - sent) + Cardinality(Busy) /\ n \in Nat /\ sent \in 0 .. n
  BY <1>2 DEF IInv, TypeOK, WaitGroupCounts
<1>7. TypeOK'
  <2>1. wg' \in Nat
    BY <1>1, <1>5, <1>6
  <2>2. QED
    BY <1>1, <2>1 DEF IInv, TypeOK
<1>8. WaitGroupCounts'
  BY <1>1, <1>5, <1>6 DEF WaitGroupCounts
<1>9. RunSeesEveryResult' /\ EachTaskOnce'
  BY <1>1, <1>2 DEF IInv, RunSeesEveryResult, EachTaskOnce
<1>10. TasksFit'
  <2>1. runs[wtask[w]] = 1 /\ err[wtask[w]] # "unset"
    BY <1>1 DEF IInv, TasksFit
  <2>2. QED
    BY <1>1, <1>2, <1>3, <1>4, <2>1 DEF IInv, TasksFit
<1>11. QED
  BY <1>7, <1>8, <1>9, <1>10 DEF IInv

(* A worker exits without a task. *)
LEMMA ExitIInv ==
  ASSUME IInv, NEW w \in Workers, Exit(w)
  PROVE  IInv'
<1>1. /\ wpc[w] = "receive" /\ wpc' = [wpc EXCEPT ![w] = "exited"]
      /\ UNCHANGED <<n, concurrency, main, spawned, sent, closed, wg, wtask, err, runs>>
  BY DEF Exit, Fixed, run, task
<1>2. /\ wpc'[w] = "exited"
      /\ \A v \in Workers : v # w => wpc'[v] = wpc[v]
  BY <1>1 DEF IInv, TypeOK
<1>3. Busy' = Busy
  BY <1>1, <1>2 DEF Busy
<1>4. TypeOK'
  BY <1>1 DEF IInv, TypeOK
<1>5. WaitGroupCounts' /\ RunSeesEveryResult' /\ EachTaskOnce'
  BY <1>1, <1>3 DEF IInv, WaitGroupCounts, RunSeesEveryResult, EachTaskOnce
<1>6. TasksFit'
  BY <1>1, <1>2, <1>3 DEF IInv, TasksFit
<1>7. QED
  BY <1>4, <1>5, <1>6 DEF IInv

-----------------------------------------------------------------------------
(* The invariant holds in every state. *)
THEOREM Inductive == Spec => []IInv
<1>1. IInv /\ [Next]_vars => IInv'
  <2> SUFFICES ASSUME IInv, [Next]_vars PROVE IInv'
    OBVIOUS
  <2>1. CASE Run \/ RunAgain
    BY <2>1, RunIInv, SpawnIInv, SendIInv DEF Run
  <2>2. ASSUME NEW w \in Workers, work(w) \/ Goexit(w) \/ Panic(w) PROVE IInv'
    BY <2>2, CallIInv, DoneIInv, ExitIInv DEF work
  <2>3. CASE UNCHANGED vars
    BY <2>3 DEF vars, run, worker, task, IInv, TypeOK, WaitGroupCounts,
                RunSeesEveryResult, EachTaskOnce, TasksFit, Busy
  <2>4. QED
    BY <2>1, <2>2, <2>3 DEF Next
<1>2. QED
  BY <1>1, InitIInv, PTL DEF Spec

(* The counter of the WaitGroup never goes below zero (it would panic), and *)
(* workers hold tasks of this Run only.                                     *)
THEOREM TypeCorrect == Spec => []TypeOK
<1>1. IInv => TypeOK
  BY DEF IInv
<1>2. QED
  BY <1>1, Inductive, PTL

(* The WaitGroup counts the tasks that are not finished (Add in Run, Done  *)
(* in Task.Run), so Wait neither returns early nor sees it below zero.     *)
THEOREM CounterIsExact == Spec => []WaitGroupCounts
  BY Inductive, PTL DEF IInv

(* When Run has returned, every Err is set and stays as it is.             *)
THEOREM RunJoinsEveryTask == Spec => []RunSeesEveryResult
  BY Inductive, PTL DEF IInv

(* No task runs twice, a second Run included. *)
THEOREM TasksRunOnce == Spec => []EachTaskOnce
  BY Inductive, PTL DEF IInv
=============================================================================
