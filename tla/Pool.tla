-------------------------------- MODULE Pool ---------------------------------
(***************************************************************************)
(* The worker pool of examples/pool: Run starts its workers, hands them    *)
(* the tasks over an unbuffered channel, closes it and waits for the       *)
(* WaitGroup; the workers take tasks until the channel is closed.          *)
(*                                                                         *)
(* The function of a task returns nil or an error.  It may also panic,     *)
(* which ends the process, or end its goroutine (runtime.Goexit, as a      *)
(* test's FailNow does), and then nobody calls Done for the task.          *)
(***************************************************************************)
EXTENDS Integers, FiniteSets

CONSTANTS
  MaxTasks,     \* bound: len(Tasks)
  MaxWorkers    \* bound: concurrency

ASSUME BoundAssumption == MaxTasks \in Nat /\ MaxWorkers \in Nat

VARIABLES
  n, concurrency,   \* the arguments of NewPool
  main,             \* where Run is
  spawned, sent,    \* its loop variables
  closed,           \* tasksChan is closed
  wg,               \* the WaitGroup's counter
  wpc, wtask,       \* the workers: where each is, and the task it has
  err,              \* Task.Err, "unset" until it is assigned
  runs              \* how often each task's function was called

run    == <<main, spawned, sent, closed>>
worker == <<wpc, wtask>>
task   == <<err, runs>>
vars   == <<n, concurrency, run, wg, worker, task>>

Tasks   == 1 .. MaxTasks
Workers == 1 .. MaxWorkers

TypeOK ==
  /\ n \in 0 .. MaxTasks /\ concurrency \in 0 .. MaxWorkers
  /\ main \in {"spawn", "send", "wait", "returned", "panicked"}
  /\ spawned \in 0 .. concurrency /\ sent \in 0 .. n
  /\ closed \in BOOLEAN
  /\ wg \in Nat
  /\ wpc \in [Workers -> {"none", "receive", "run", "finish", "exited", "gone"}]
  /\ wtask \in [Workers -> 0 .. MaxTasks]
  /\ err \in [Tasks -> {"unset", "nil", "error"}]
  /\ runs \in [Tasks -> Nat]

Init ==
  /\ n \in 0 .. MaxTasks /\ concurrency \in 0 .. MaxWorkers
  /\ main = "spawn" /\ spawned = 0 /\ sent = 0 /\ closed = FALSE
  /\ wg = 0
  /\ wpc = [w \in Workers |-> "none"]
  /\ wtask = [w \in Workers |-> 0]
  /\ err = [t \in Tasks |-> "unset"]
  /\ runs = [t \in Tasks |-> 0]

Alive == main # "panicked"
Fixed == UNCHANGED <<n, concurrency>>

-----------------------------------------------------------------------------
(* Run *)
Spawn ==
  /\ main = "spawn" /\ spawned < concurrency
  /\ spawned' = spawned + 1
  /\ wpc' = [wpc EXCEPT ![spawned + 1] = "receive"]
  /\ Fixed /\ UNCHANGED <<main, sent, closed, wg, wtask, task>>

Add ==
  /\ main = "spawn" /\ spawned = concurrency
  /\ wg' = wg + n
  /\ main' = "send"
  /\ Fixed /\ UNCHANGED <<spawned, sent, closed, worker, task>>

\* The channel is unbuffered: the send and a worker's receive are one step.
Send(w) ==
  /\ main = "send" /\ sent < n /\ wpc[w] = "receive"
  /\ sent' = sent + 1
  /\ wpc' = [wpc EXCEPT ![w] = "run"]
  /\ wtask' = [wtask EXCEPT ![w] = sent + 1]
  /\ Fixed /\ UNCHANGED <<main, spawned, closed, wg, task>>

CloseForgotten ==   \* mutant: no close
  /\ main = "send" /\ sent = n
  /\ main' = "wait"
  /\ Fixed /\ UNCHANGED <<spawned, sent, closed, wg, worker, task>>

Close ==
  /\ main = "send" /\ sent = n
  /\ closed' = TRUE
  /\ main' = "wait"
  /\ Fixed /\ UNCHANGED <<spawned, sent, wg, worker, task>>

ReturnUnjoined ==   \* mutant: no Wait
  /\ main = "wait"
  /\ main' = "returned"
  /\ Fixed /\ UNCHANGED <<spawned, sent, closed, wg, worker, task>>

Return ==
  /\ main = "wait" /\ wg = 0
  /\ main' = "returned"
  /\ Fixed /\ UNCHANGED <<spawned, sent, closed, wg, worker, task>>

\* A second Run: its workers find the channel closed and exit, and it panics
\* on its first send, or on the close when there is nothing to send.
RunAgain ==
  /\ main = "returned"
  /\ wg' = wg + n
  /\ main' = "panicked"
  /\ Fixed /\ UNCHANGED <<spawned, sent, closed, worker, task>>

-----------------------------------------------------------------------------
(* work, and Task.Run in it *)
Execute(w) ==
  /\ Alive /\ wpc[w] = "run"
  /\ \E e \in {"nil", "error"} : err' = [err EXCEPT ![wtask[w]] = e]
  /\ runs' = [runs EXCEPT ![wtask[w]] = @ + 1]
  /\ wpc' = [wpc EXCEPT ![w] = "finish"]
  /\ Fixed /\ UNCHANGED <<run, wg, wtask>>

DoneOnSuccess(w) ==   \* mutant: an error returns before Done
  /\ Alive /\ wpc[w] = "finish"
  /\ wg' = IF err[wtask[w]] = "nil" THEN wg - 1 ELSE wg
  /\ wpc' = [wpc EXCEPT ![w] = "receive"]
  /\ Fixed /\ UNCHANGED <<run, wtask, task>>

Done(w) ==
  /\ Alive /\ wpc[w] = "finish"
  /\ wg' = wg - 1
  /\ wpc' = [wpc EXCEPT ![w] = "receive"]
  /\ Fixed /\ UNCHANGED <<run, wtask, task>>

Exit(w) ==
  /\ Alive /\ wpc[w] = "receive" /\ closed
  /\ wpc' = [wpc EXCEPT ![w] = "exited"]
  /\ Fixed /\ UNCHANGED <<run, wg, wtask, task>>

Goexit(w) ==
  /\ Alive /\ wpc[w] = "run"
  /\ runs' = [runs EXCEPT ![wtask[w]] = @ + 1]
  /\ wpc' = [wpc EXCEPT ![w] = "gone"]
  /\ Fixed /\ UNCHANGED <<run, wg, wtask, err>>

Panic(w) ==
  /\ Alive /\ wpc[w] = "run"
  /\ runs' = [runs EXCEPT ![wtask[w]] = @ + 1]
  /\ wpc' = [wpc EXCEPT ![w] = "gone"]
  /\ main' = "panicked"
  /\ Fixed /\ UNCHANGED <<spawned, sent, closed, wg, wtask, err>>

Run     == Spawn \/ Add \/ (\E w \in Workers : Send(w)) \/ Close \/ Return
work(w) == Execute(w) \/ Done(w) \/ Exit(w)

Next ==
  \/ Run \/ RunAgain
  \/ \E w \in Workers : work(w) \/ Goexit(w) \/ Panic(w)

(* Goroutines are scheduled, and a task's function returns unless it ends  *)
(* its goroutine or the process.                                           *)
Spec ==
  /\ Init /\ [][Next]_vars
  /\ WF_vars(Run)
  /\ \A w \in Workers : WF_vars(work(w))

-----------------------------------------------------------------------------
(* Workers with a task Done has not been called for. *)
Busy == {w \in Workers : wpc[w] \in {"run", "finish", "gone"}}

(* The counter of the WaitGroup is the number of tasks still to finish: it *)
(* cannot reach zero early, nor go below.                                  *)
WaitGroupCounts ==
  main \in {"send", "wait", "returned"} =>
    wg = (n - sent) + Cardinality(Busy)

(* When Run has returned, every task has run exactly once, its Err is set  *)
(* and nobody is left that could change it: HasErrors may be asked.        *)
RunSeesEveryResult ==
  main = "returned" =>
    /\ Busy = {}
    /\ \A t \in 1 .. n : runs[t] = 1 /\ err[t] # "unset"

(* No task runs twice, whatever the workers do and if Run is called again. *)
EachTaskOnce == \A t \in Tasks : runs[t] <= 1

(* What makes them inductive: a task is sent to one worker, which alone    *)
(* runs it.                                                                *)
TasksFit ==
  /\ \A w \in Workers : wpc[w] \in {"run", "finish", "gone"} =>
       wtask[w] \in 1 .. sent
  /\ \A v, w \in Busy : wtask[v] = wtask[w] => v = w
  /\ \A w \in Workers : wpc[w] = "run" => runs[wtask[w]] = 0
  /\ \A w \in Workers : wpc[w] = "finish" =>
       runs[wtask[w]] = 1 /\ err[wtask[w]] # "unset"
  /\ \A t \in Tasks : t > sent => runs[t] = 0
  /\ \A t \in 1 .. sent :
       \/ runs[t] = 1 /\ err[t] # "unset"
       \/ \E w \in Busy : wtask[w] = t
  /\ main \in {"wait", "returned"} => sent = n
  /\ main = "spawn" => wg = 0 /\ sent = 0 /\ \A w \in Workers : w > spawned => wpc[w] = "none"

IInv == TypeOK /\ WaitGroupCounts /\ RunSeesEveryResult /\ EachTaskOnce /\ TasksFit

(* Run returns if its tasks do and there is a worker or no task; a worker  *)
(* that a task takes with it keeps Run from returning, and the next tasks  *)
(* from nothing as long as another worker is left.                         *)
RunReturns ==
  LET Gone == {w \in Workers : wpc[w] = "gone"} IN
  /\ <>(main = "returned" \/ (concurrency = 0 /\ n > 0) \/ Gone # {})
  /\ <>(sent = n \/ main = "panicked" \/ Cardinality(Gone) = concurrency)

(* No worker outlives a Run that returned: a closed channel ends them all, *)
(* those that never got a task included.                                   *)
WorkersEnd ==
  main = "returned" ~>
    main = "panicked" \/ \A w \in Workers : wpc[w] \in {"none", "exited", "gone"}
=============================================================================
