------------------------------- MODULE Shutdown -------------------------------
(***************************************************************************)
(* examples/graceful-shutdown-signals: the first signal cancels a context, *)
(* the workers finish the job they have, and run waits for them until a    *)
(* deadline.  A job may be stuck for ever.                                 *)
(***************************************************************************)
EXTENDS Integers, FiniteSets

CONSTANTS
  JobWorkers,   \* the workers (3 in the code)
  MaxSignals    \* bound: signals sent to the process

VARIABLES
  run,        \* "idle", "serve", "race", "clean", "timedOut" or "killed"
  caught,     \* SIGINT and SIGTERM go to signal.NotifyContext
  ctxDone,    \* the context is cancelled
  worker,     \* "none", "select", "job", "drain" or "stopped"
  workersDone,\* the channel is closed
  signals     \* signals so far

vars == <<run, caught, ctxDone, worker, workersDone, signals>>

Over == {"clean", "timedOut", "killed"}

Init ==
  /\ run = "idle" /\ caught = FALSE /\ ctxDone = FALSE
  /\ worker = [w \in JobWorkers |-> "none"]
  /\ workersDone = FALSE /\ signals = 0

Start ==
  /\ run = "idle" /\ run' = "serve"
  /\ caught' = TRUE
  /\ worker' = [w \in JobWorkers |-> "select"]
  /\ UNCHANGED <<ctxDone, workersDone, signals>>

-----------------------------------------------------------------------------
(* The operator, or signalSelf *)
Signal ==
  /\ run \in {"serve", "race"} /\ signals < MaxSignals
  /\ signals' = signals + 1
  /\ IF caught THEN ctxDone' = TRUE /\ UNCHANGED run
               ELSE run' = "killed" /\ UNCHANGED ctxDone
  /\ UNCHANGED <<caught, worker, workersDone>>

-----------------------------------------------------------------------------
(* worker.  With the context done and a tick due, select may take either. *)
Alive == run \notin Over

PickUp(w) ==
  /\ Alive /\ worker[w] = "select"
  /\ worker' = [worker EXCEPT ![w] = "job"]
  /\ UNCHANGED <<run, caught, ctxDone, workersDone, signals>>

Complete(w) ==
  /\ Alive /\ worker[w] = "job"
  /\ worker' = [worker EXCEPT ![w] = "select"]
  /\ UNCHANGED <<run, caught, ctxDone, workersDone, signals>>

Cancelled(w) ==
  /\ Alive /\ worker[w] = "select" /\ ctxDone
  /\ worker' = [worker EXCEPT ![w] = "drain"]
  /\ UNCHANGED <<run, caught, ctxDone, workersDone, signals>>

Stop(w) ==
  /\ Alive /\ worker[w] = "drain"
  /\ worker' = [worker EXCEPT ![w] = "stopped"]
  /\ UNCHANGED <<run, caught, ctxDone, workersDone, signals>>

-----------------------------------------------------------------------------
(* run *)
Await ==
  /\ run = "serve" /\ ctxDone
  /\ run' = "race"
  /\ UNCHANGED <<caught, ctxDone, worker, workersDone, signals>>

CloseWhenAsked ==   \* mutant: Done is called before the last job
  /\ run = "race" /\ ~workersDone /\ \A w \in JobWorkers : worker[w] \in {"drain", "stopped"}
  /\ workersDone' = TRUE
  /\ UNCHANGED <<run, caught, ctxDone, worker, signals>>

\* The goroutine of wg.Wait.
CloseDone ==
  /\ run = "race" /\ ~workersDone /\ \A w \in JobWorkers : worker[w] = "stopped"
  /\ workersDone' = TRUE
  /\ UNCHANGED <<run, caught, ctxDone, worker, signals>>

\* Both returns run the deferred stop, which gives the signals back.
Return(outcome) ==
  /\ run' = outcome /\ caught' = FALSE
  /\ UNCHANGED <<ctxDone, worker, workersDone, signals>>

Drained == run = "race" /\ workersDone /\ Return("clean")

TimeOutNever == run = "race" /\ workersDone /\ Return("timedOut")   \* mutant: a bare wg.Wait

TimeOut == run = "race" /\ Return("timedOut")

-----------------------------------------------------------------------------
WorkerStep(w) == Cancelled(w) \/ Stop(w)
RunStep == Await \/ CloseDone \/ Drained \/ TimeOut

Next == Start \/ Signal \/ RunStep \/ \E w \in JobWorkers : PickUp(w) \/ Complete(w) \/ WorkerStep(w)

\* run goes on and its timer fires.  Nothing is asked of a job.
Fairness == WF_vars(RunStep)

Spec == Init /\ [][Next]_vars /\ Fairness

-----------------------------------------------------------------------------
\* run reports a clean stop only after every worker has finished the job it
\* had, also when the deadline passes at that very moment.
CleanMeansDrained == run = "clean" => \A w \in JobWorkers : worker[w] = "stopped"

\* A signal ends the process, whatever the workers do.
Ends == <>[](ctxDone => run \in Over)

\* A comment of run: after the first signal "a second Ctrl+C kills the process
\* immediately instead of being swallowed by a shutdown that might itself be
\* stuck".
SecondSignalKills == [][signals' > signals /\ ctxDone => run' = "killed"]_vars
=============================================================================
