------------------------------ MODULE WorkerPool ------------------------------
(***************************************************************************)
(* examples/concurrency/worker-pool: main sends all jobs before it takes   *)
(* the first result, so that the two channels must hold what the workers   *)
(* cannot.                                                                 *)
(***************************************************************************)
EXTENDS Integers, Sequences

CONSTANTS
  NumJobs,      \* 5 in the code
  NumWorkers    \* 3 in the code

VARIABLES
  sender,       \* main: "idle", "send", "receive" or "returned"
  jobs, jobsClosed, jobResults,   \* the channels
  nextJob,      \* the loop variable of the sends
  has,          \* the job of each worker, 0 without one, -1 when it has ended
  got           \* the results main has printed

channels == <<jobs, jobsClosed, jobResults>>
vars     == <<sender, channels, nextJob, has, got>>

Crew == 1 .. NumWorkers

Init ==
  /\ sender = "idle" /\ jobs = <<>> /\ jobsClosed = FALSE /\ jobResults = <<>>
  /\ nextJob = 1 /\ has = [w \in Crew |-> 0] /\ got = <<>>

Start ==
  /\ sender = "idle" /\ sender' = "send"
  /\ UNCHANGED <<channels, nextJob, has, got>>

RoomForOne(ch) == Len(ch) < 1   \* mutant: channels of one place

Room(ch) == Len(ch) < NumJobs

SendJob ==
  /\ sender = "send" /\ nextJob <= NumJobs /\ Room(jobs)
  /\ jobs' = Append(jobs, nextJob) /\ nextJob' = nextJob + 1
  /\ UNCHANGED <<sender, jobsClosed, jobResults, has, got>>

CloseJobs ==
  /\ sender = "send" /\ nextJob > NumJobs
  /\ jobsClosed' = TRUE /\ sender' = "receive"
  /\ UNCHANGED <<jobs, jobResults, nextJob, has, got>>

TakeJob(w) ==
  /\ sender # "idle" /\ has[w] = 0 /\ jobs # <<>>
  /\ has' = [has EXCEPT ![w] = Head(jobs)] /\ jobs' = Tail(jobs)
  /\ UNCHANGED <<sender, jobsClosed, jobResults, nextJob, got>>

SendResult(w) ==
  /\ has[w] > 0 /\ Room(jobResults)
  /\ jobResults' = Append(jobResults, has[w] * 2) /\ has' = [has EXCEPT ![w] = 0]
  /\ UNCHANGED <<sender, jobs, jobsClosed, nextJob, got>>

EndWorker(w) ==
  /\ has[w] = 0 /\ jobsClosed /\ jobs = <<>>
  /\ has' = [has EXCEPT ![w] = -1]
  /\ UNCHANGED <<sender, channels, nextJob, got>>

\* main prints numJobs results and returns, whether the workers have ended or not.
TakeResult ==
  /\ sender = "receive" /\ jobResults # <<>>
  /\ got' = Append(got, Head(jobResults)) /\ jobResults' = Tail(jobResults)
  /\ sender' = IF Len(got') = NumJobs THEN "returned" ELSE "receive"
  /\ UNCHANGED <<jobs, jobsClosed, nextJob, has>>

-----------------------------------------------------------------------------
worker(w) == TakeJob(w) \/ SendResult(w) \/ EndWorker(w)
Step == SendJob \/ CloseJobs \/ TakeResult \/ \E w \in Crew : sender # "returned" /\ worker(w)

Next == Start \/ Step

\* Goroutines are scheduled and sleeps end.
Fairness == WF_vars(Step)

Spec == Init /\ [][Next]_vars /\ Fairness

-----------------------------------------------------------------------------
\* main returns with the result of every job, once each.
OneResultEach ==
  sender = "returned" =>
    \A j \in 1 .. NumJobs : \E i \in DOMAIN got :
      got[i] = j * 2 /\ \A k \in DOMAIN got \ {i} : got[k] # j * 2

\* main returns: no send of jobs waits for results nobody takes.
Ends == <>[](sender \in {"idle", "returned"})
=============================================================================
