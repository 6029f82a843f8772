----------------------------- MODULE QuoteQueue ------------------------------
(***************************************************************************)
(* The task queue of examples/redis.  A quote request asks every engine at *)
(* once: one goroutine per engine takes a job number, pushes it on the     *)
(* engine's task list and waits on a result key of that job, with a        *)
(* timeout.  The engine pops jobs, works, and pushes to the result key.    *)
(* All of it is one process; Redis outlives it.                            *)
(*                                                                         *)
(* A command of either client may fail after Redis has executed it, and    *)
(* the client library sends it again when only its reply was lost.  What a *)
(* result says is left out: that one is there is all anybody waits for.    *)
(***************************************************************************)
EXTENDS Integers, Sequences, FiniteSets

CONSTANTS
  Requests,
  Engines,
  MaxJobs,      \* bound: job numbers per engine
  MaxFaults     \* bound: retries, lost jobs and restarts

ASSUME BoundAssumption == MaxJobs \in Nat /\ MaxFaults \in Nat

VARIABLES
  \* Redis, per engine
  counter,      \* queue:task:<e>:counter
  tasks,        \* the list queue:task:<e>
  results,      \* the length of each list queue:processed:<e>:<job>
  \* handleQuote, per request, and its goroutines, per request and engine
  stage,        \* "new", "open", "replied", or "gone" with the process
  pc,           \* the command the goroutine is at
  id,           \* queueID
  outcome,      \* what enqueueAndWait returned
  sent,         \* engines whose line is in the results channel
  \* runEngine
  job,          \* the job in hand, None between jobs
  faults

redis   == <<counter, tasks, results>>
handler == <<stage, sent>>
routine == <<pc, id, outcome>>
vars    == <<redis, handler, routine, job, faults>>

None == 0
Jobs == 1 .. MaxJobs

TypeOK ==
  /\ counter \in [Engines -> 0 .. MaxJobs]
  /\ tasks \in [Engines -> Seq(Jobs)]
  /\ results \in [Engines -> [Jobs -> Nat]]
  /\ stage \in [Requests -> {"new", "open", "replied", "gone"}]
  /\ pc \in [Requests -> [Engines ->
               {"incr", "push", "wait", "send", "finish", "done"}]]
  /\ id \in [Requests -> [Engines -> 0 .. MaxJobs]]
  /\ outcome \in [Requests -> [Engines -> {"none", "result", "error"}]]
  /\ sent \in [Requests -> SUBSET Engines]
  /\ job \in [Engines -> 0 .. MaxJobs]
  /\ faults \in 0 .. MaxFaults

Init ==
  /\ counter = [e \in Engines |-> 0]
  /\ tasks = [e \in Engines |-> <<>>]
  /\ results = [e \in Engines |-> [k \in Jobs |-> 0]]
  /\ stage = [r \in Requests |-> "new"]
  /\ pc = [r \in Requests |-> [e \in Engines |-> "incr"]]
  /\ id = [r \in Requests |-> [e \in Engines |-> None]]
  /\ outcome = [r \in Requests |-> [e \in Engines |-> "none"]]
  /\ sent = [r \in Requests |-> {}]
  /\ job = [e \in Engines |-> None]
  /\ faults = 0

Fault == faults < MaxFaults /\ faults' = faults + 1

At(r, e, label) == stage[r] = "open" /\ pc[r][e] = label

-----------------------------------------------------------------------------
(* handleQuote: start the goroutines, wait for all of them, reply with     *)
(* what they sent.                                                         *)
Arrive(r) ==
  /\ stage[r] = "new"
  /\ stage' = [stage EXCEPT ![r] = "open"]
  /\ UNCHANGED <<redis, sent, routine, job, faults>>

ReplyUnjoined(r) ==   \* mutant: no wg.Wait before the channel is closed
  /\ stage[r] = "open" /\ sent[r] # {}
  /\ stage' = [stage EXCEPT ![r] = "replied"]
  /\ UNCHANGED <<redis, sent, routine, job, faults>>

Reply(r) ==
  /\ stage[r] = "open" /\ \A e \in Engines : pc[r][e] = "done"
  /\ stage' = [stage EXCEPT ![r] = "replied"]
  /\ UNCHANGED <<redis, sent, routine, job, faults>>

(* enqueueAndWait returns. *)
Answer(r, e, o) ==
  /\ outcome' = [outcome EXCEPT ![r][e] = o]
  /\ pc' = [pc EXCEPT ![r][e] = "send"]

(* INCR of the job counter.  Sent again, it skips a number. *)
IncrByRead(r, e) ==   \* mutant: GET, and the sum is not stored
  /\ At(r, e, "incr") /\ counter[e] < MaxJobs
  /\ id' = [id EXCEPT ![r][e] = counter[e] + 1]
  /\ pc' = [pc EXCEPT ![r][e] = "push"]
  /\ UNCHANGED <<redis, handler, outcome, job, faults>>

Incr(r, e) ==
  /\ At(r, e, "incr")
  /\ \E n \in 1 .. 2 :
       /\ counter[e] + n <= MaxJobs
       /\ counter' = [counter EXCEPT ![e] = @ + n]
       /\ IF n = 1 THEN UNCHANGED faults ELSE Fault
  /\ id' = [id EXCEPT ![r][e] = counter'[e]]
  /\ pc' = [pc EXCEPT ![r][e] = "push"]
  /\ UNCHANGED <<tasks, results, handler, outcome, job>>

IncrFails(r, e) ==
  /\ At(r, e, "incr")
  /\ \E n \in 0 .. 1 :
       /\ counter[e] + n <= MaxJobs
       /\ counter' = [counter EXCEPT ![e] = @ + n]
  /\ Answer(r, e, "error")
  /\ UNCHANGED <<tasks, results, handler, id, job, faults>>

(* RPUSH of the job.  Sent again, the job is queued twice. *)
Push(r, e) ==
  /\ At(r, e, "push")
  /\ \/ /\ tasks' = [tasks EXCEPT ![e] = Append(@, id[r][e])]
        /\ UNCHANGED faults
     \/ /\ tasks' = [tasks EXCEPT ![e] = @ \o <<id[r][e], id[r][e]>>]
        /\ Fault
  /\ pc' = [pc EXCEPT ![r][e] = "wait"]
  /\ UNCHANGED <<counter, results, handler, id, outcome, job>>

PushFails(r, e) ==
  /\ At(r, e, "push")
  /\ \/ tasks' = [tasks EXCEPT ![e] = Append(@, id[r][e])]
     \/ UNCHANGED tasks
  /\ Answer(r, e, "error")
  /\ UNCHANGED <<counter, results, handler, id, job, faults>>

(* BLPOP of the result key: a result, nothing within workerTimeout, or an  *)
(* error (the connection, or the request's context), popped or not.        *)
PopResult(r, e) ==
  /\ At(r, e, "wait") /\ results[e][id[r][e]] > 0
  /\ results' = [results EXCEPT ![e][id[r][e]] = @ - 1]
  /\ Answer(r, e, "result")
  /\ UNCHANGED <<counter, tasks, handler, id, job, faults>>

TimeOutNever(r, e) ==   \* mutant: BLPOP with timeout 0
  FALSE /\ At(r, e, "wait") /\ UNCHANGED vars

TimeOut(r, e) ==
  /\ At(r, e, "wait") /\ results[e][id[r][e]] = 0
  /\ Answer(r, e, "error")
  /\ UNCHANGED <<redis, handler, id, job, faults>>

WaitFails(r, e) ==
  /\ At(r, e, "wait")
  /\ \/ /\ results[e][id[r][e]] > 0
        /\ results' = [results EXCEPT ![e][id[r][e]] = @ - 1]
     \/ UNCHANGED results
  /\ Answer(r, e, "error")
  /\ UNCHANGED <<counter, tasks, handler, id, job, faults>>

(* The goroutine sends its line (the channel has room for all of them) and *)
(* its deferred wg.Done follows.                                           *)
Send(r, e) ==
  /\ pc[r][e] = "send" /\ stage[r] # "gone"
  /\ sent' = [sent EXCEPT ![r] = @ \cup {e}]
  /\ pc' = [pc EXCEPT ![r][e] = "finish"]
  /\ UNCHANGED <<redis, stage, id, outcome, job, faults>>

Finish(r, e) ==
  /\ pc[r][e] = "finish" /\ stage[r] # "gone"
  /\ pc' = [pc EXCEPT ![r][e] = "done"]
  /\ UNCHANGED <<redis, handler, id, outcome, job, faults>>

-----------------------------------------------------------------------------
(* runEngine.  An empty list makes BLPOP return nil and the loop go on. *)
PopTask(e) ==
  /\ job[e] = None /\ tasks[e] # <<>>
  /\ job' = [job EXCEPT ![e] = Head(tasks[e])]
  /\ tasks' = [tasks EXCEPT ![e] = Tail(@)]
  /\ UNCHANGED <<counter, results, handler, routine, faults>>

\* The job is popped and the reply lost: nobody has it.
PopTaskLost(e) ==
  /\ job[e] = None /\ tasks[e] # <<>>
  /\ Fault
  /\ tasks' = [tasks EXCEPT ![e] = Tail(@)]
  /\ UNCHANGED <<counter, results, handler, routine, job>>

(* RPUSH of the result, once the work is done. *)
PushResultKeepingJob(e) ==   \* mutant: the loop pushes the same job again
  /\ job[e] # None
  /\ results' = [results EXCEPT ![e][job[e]] = @ + 1]
  /\ job' = [job EXCEPT ![e] = IF results[e][job[e]] = 0 THEN @ ELSE None]
  /\ UNCHANGED <<counter, tasks, handler, routine, faults>>

PushResultToWaiter(e) ==   \* mutant: the engine waits for its requester
  /\ job[e] # None
  /\ \E r \in Requests : id[r][e] = job[e] /\ At(r, e, "wait")
  /\ results' = [results EXCEPT ![e][job[e]] = @ + 1]
  /\ job' = [job EXCEPT ![e] = None]
  /\ UNCHANGED <<counter, tasks, handler, routine, faults>>

PushResult(e) ==
  /\ job[e] # None
  /\ \/ /\ results' = [results EXCEPT ![e][job[e]] = @ + 1]
        /\ UNCHANGED faults
     \/ /\ results' = [results EXCEPT ![e][job[e]] = @ + 2]
        /\ Fault
  /\ job' = [job EXCEPT ![e] = None]
  /\ UNCHANGED <<counter, tasks, handler, routine>>

\* The error is logged, and the job is gone.
PushResultFails(e) ==
  /\ job[e] # None
  /\ Fault
  /\ job' = [job EXCEPT ![e] = None]
  /\ UNCHANGED <<redis, handler, routine>>

(* The process dies and is started again: requests and jobs in hand go     *)
(* with it, the lists and the counters stay.                               *)
Restart ==
  /\ Fault
  /\ stage' = [r \in Requests |-> IF stage[r] = "open" THEN "gone" ELSE stage[r]]
  /\ job' = [e \in Engines |-> None]
  /\ UNCHANGED <<redis, sent, routine>>

enqueueAndWait(r, e) ==
  \/ Incr(r, e) \/ IncrFails(r, e)
  \/ Push(r, e) \/ PushFails(r, e)
  \/ PopResult(r, e) \/ TimeOut(r, e)

goroutine(r, e) == enqueueAndWait(r, e) \/ Send(r, e) \/ Finish(r, e)

runEngine(e) ==
  PopTask(e) \/ PopTaskLost(e) \/ PushResult(e) \/ PushResultFails(e)

Next ==
  \/ \E r \in Requests : Arrive(r) \/ Reply(r)
  \/ \E r \in Requests, e \in Engines : goroutine(r, e) \/ WaitFails(r, e)
  \/ \E e \in Engines : runEngine(e)
  \/ Restart

(* INCR and RPUSH return, BLPOP returns a result or times out, and an      *)
(* engine never stops looping.  Nobody has to send requests, and no        *)
(* connection has to fail.                                                 *)
Spec ==
  /\ Init /\ [][Next]_vars
  /\ \A r \in Requests : WF_vars(Reply(r))
  /\ \A r \in Requests, e \in Engines : WF_vars(goroutine(r, e))
  /\ \A e \in Engines : WF_vars(runEngine(e))

-----------------------------------------------------------------------------
(* No two requests ever wait on the same result key. *)
NoSharedResultKey ==
  \A r, s \in Requests, e \in Engines :
    id[r][e] = id[s][e] /\ id[r][e] # None => r = s

(* A reply holds one line of every engine, and no goroutine is left that   *)
(* would send on the channel handleQuote has closed.                       *)
ReplyIsComplete ==
  \A r \in Requests : stage[r] = "replied" =>
    /\ sent[r] = Engines
    /\ \A e \in Engines : pc[r][e] = "done" /\ outcome[r][e] # "none"

(* What makes the two inductive. *)
RoutinesFit ==
  \A r \in Requests, e \in Engines :
    /\ id[r][e] <= counter[e]
    /\ pc[r][e] \in {"push", "wait"} => id[r][e] # None
    /\ pc[r][e] \in {"send", "finish", "done"} => outcome[r][e] # "none"
    /\ pc[r][e] \in {"finish", "done"} => e \in sent[r]
    /\ stage[r] = "replied" => pc[r][e] = "done"

IInv == TypeOK /\ NoSharedResultKey /\ RoutinesFit

(* How often job k of engine e is queued, in hand, answered and not read,  *)
(* or answered and read.                                                   *)
Copies(e, k) ==
    Cardinality({i \in DOMAIN tasks[e] : tasks[e][i] = k})
  + (IF job[e] = k THEN 1 ELSE 0)
  + results[e][k]
  + Cardinality({r \in Requests : id[r][e] = k /\ outcome[r][e] = "result"})

(* No job is lost or doubled but by a fault: while a request waits, and    *)
(* when it was answered, its job is in exactly one place; and when it gave *)
(* up, at most one result of it stays behind.                              *)
JobsAccounted ==
  \A e \in Engines :
    /\ \A k \in Jobs : Copies(e, k) <= 1 + faults
    /\ faults = 0 => \A r \in Requests : id[r][e] # None =>
         /\ pc[r][e] = "push" => Copies(e, id[r][e]) = 0
         /\ pc[r][e] = "wait" \/ outcome[r][e] = "result" => Copies(e, id[r][e]) = 1

(* Every request ends, even if its engine never answers.                   *)
RequestsEnd ==
  \A r \in Requests : stage[r] = "open" ~> stage[r] # "open"

(* An engine gets through its queue, jobs that nobody waits for included.  *)
QueuesDrain ==
  \A e \in Engines : <>[](tasks[e] = <<>> /\ job[e] = None)
=============================================================================

