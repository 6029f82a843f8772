------------------------------- MODULE Programs -------------------------------
(***************************************************************************)
(* The programs that share nothing but the process they run in, one after  *)
(* an idle start each: the model checker chooses a program and lets it run *)
(* to its end, or for ever.  One run so checks them all.                   *)
(***************************************************************************)
EXTENDS Integers, Sequences, FiniteSets

CONSTANTS
  MaxNums, Squares, TakeFirst,          \* Pipeline
  MaxIds, Limits,                       \* ErrGroup
  FanWorkers,                           \* FanOut
  Urls, Pollers, MaxErrors, NoUrl,      \* Poller
  JobWorkers, MaxSignals,               \* Shutdown
  Requests,                             \* HttpServer
  RetryLimits,                          \* Retry
  EchoMessages,                         \* Echo
  Books, Matching,                      \* Sqlite
  NumJobs, NumWorkers                   \* WorkerPool

ASSUME PipelineAssumption == MaxNums \in Nat /\ TakeFirst \in 1 .. MaxNums
ASSUME GroupAssumption    == MaxIds \in Nat /\ Limits \subseteq Int
ASSUME RetryAssumption    == RetryLimits \subseteq Int
ASSUME EchoAssumption     == EchoMessages \in Nat
ASSUME BooksAssumption    == Books \in Nat \ {0} /\ Matching \in Nat
ASSUME JobsAssumption     == NumJobs \in Nat /\ NumWorkers \in Nat

VARIABLES
  pipeline, cancelled, gen, nextNum, stage, item, forwarder, passed, closer, consumer, results,
  call, ids, limit, parentDone, groupDone, started, fetch, slots, groupErr, answer,
  demo, inner, done, waiting, ended, out, outClosed, reader, printed,
  polling, fed, poller, holds, mainHolds, sleeping, awake, errCount, urlStatus,
  run, caught, ctxDone, worker, workersDone, signals,
  server, listener, quit, stopping, expired, request,
  script, level, onCall, sees, off, bobErr, listening, inbox,
  getJSON, maxRetries, attempt, getDone, lastErr, result, requests, wrapped,
  client, rpc, reply, cut, up, down, closedSend, turn, echoes,
  sqlite, conn, books, pending, position, counted,
  sender, jobs, jobsClosed, jobResults, nextJob, has, got

P == INSTANCE Pipeline
G == INSTANCE ErrGroup
F == INSTANCE FanOut
U == INSTANCE Poller
S == INSTANCE Shutdown
H == INSTANCE HttpServer
W == INSTANCE WriteSkew
R == INSTANCE Retry
E == INSTANCE Echo
B == INSTANCE Sqlite
J == INSTANCE WorkerPool

\* Every URL is listed once.
ASSUME PollerAssumption ==
  /\ Urls \in Seq(U!Resources) /\ NoUrl \notin U!Resources
  /\ \A i, j \in DOMAIN Urls : Urls[i] = Urls[j] => i = j

pipelineVars == <<pipeline, cancelled, gen, nextNum, stage, item, forwarder, passed, closer, consumer, results>>
groupVars    == <<call, ids, limit, parentDone, groupDone, started, fetch, slots, groupErr, answer>>
fanVars      == <<demo, inner, done, waiting, ended, out, outClosed, reader, printed>>
pollerVars   == <<polling, fed, poller, holds, mainHolds, sleeping, awake, errCount, urlStatus>>
signalVars   == <<run, caught, ctxDone, worker, workersDone, signals>>
serverVars   == <<server, listener, quit, stopping, expired, request>>
postgresVars == <<script, level, onCall, sees, off, bobErr, listening, inbox>>
httpVars     == <<getJSON, maxRetries, attempt, getDone, lastErr, result, requests, wrapped>>
echoVars     == <<client, rpc, reply, cut, up, down, closedSend, turn, echoes>>
sqliteVars   == <<sqlite, conn, books, pending, position, counted>>
jobVars      == <<sender, jobs, jobsClosed, jobResults, nextJob, has, got>>
vars == <<pipelineVars, groupVars, fanVars, pollerVars, signalVars,
          serverVars, postgresVars, httpVars, echoVars, sqliteVars, jobVars>>

-----------------------------------------------------------------------------
Init == /\ P!Init /\ G!Init /\ F!Init /\ U!Init /\ S!Init
        /\ H!Init /\ W!Init /\ R!Init /\ E!Init /\ B!Init /\ J!Init

\* The programs that are not "p" have not been started.
Only(p) == /\ p = "pipeline" \/ pipeline = "idle"
           /\ p = "errgroup" \/ call = "idle"
           /\ p = "fan-out"  \/ demo = "idle"
           /\ p = "poller"   \/ ~polling
           /\ p = "signals"  \/ run = "idle"
           /\ p = "server"   \/ server = "idle"
           /\ p = "postgres" \/ script = "idle"
           /\ p = "http"     \/ getJSON = "idle"
           /\ p = "grpc"     \/ client = "idle"
           /\ p = "sqlite"   \/ sqlite = "idle"
           /\ p = "jobs"     \/ sender = "idle"

Next ==
  \/ /\ Only("pipeline") /\ P!Next
     /\ UNCHANGED <<groupVars, fanVars, pollerVars, signalVars, serverVars,
                    postgresVars, httpVars, echoVars, sqliteVars, jobVars>>
  \/ /\ Only("errgroup") /\ G!Next
     /\ UNCHANGED <<pipelineVars, fanVars, pollerVars, signalVars, serverVars,
                    postgresVars, httpVars, echoVars, sqliteVars, jobVars>>
  \/ /\ Only("fan-out") /\ F!Next
     /\ UNCHANGED <<pipelineVars, groupVars, pollerVars, signalVars, serverVars,
                    postgresVars, httpVars, echoVars, sqliteVars, jobVars>>
  \/ /\ Only("poller") /\ U!Next
     /\ UNCHANGED <<pipelineVars, groupVars, fanVars, signalVars, serverVars,
                    postgresVars, httpVars, echoVars, sqliteVars, jobVars>>
  \/ /\ Only("signals") /\ S!Next
     /\ UNCHANGED <<pipelineVars, groupVars, fanVars, pollerVars, serverVars,
                    postgresVars, httpVars, echoVars, sqliteVars, jobVars>>
  \/ /\ Only("server") /\ H!Next
     /\ UNCHANGED <<pipelineVars, groupVars, fanVars, pollerVars, signalVars,
                    postgresVars, httpVars, echoVars, sqliteVars, jobVars>>
  \/ /\ Only("postgres") /\ W!Next
     /\ UNCHANGED <<pipelineVars, groupVars, fanVars, pollerVars, signalVars,
                    serverVars, httpVars, echoVars, sqliteVars, jobVars>>
  \/ /\ Only("http") /\ R!Next
     /\ UNCHANGED <<pipelineVars, groupVars, fanVars, pollerVars, signalVars,
                    serverVars, postgresVars, echoVars, sqliteVars, jobVars>>
  \/ /\ Only("grpc") /\ E!Next
     /\ UNCHANGED <<pipelineVars, groupVars, fanVars, pollerVars, signalVars,
                    serverVars, postgresVars, httpVars, sqliteVars, jobVars>>
  \/ /\ Only("sqlite") /\ B!Next
     /\ UNCHANGED <<pipelineVars, groupVars, fanVars, pollerVars, signalVars,
                    serverVars, postgresVars, httpVars, echoVars, jobVars>>
  \/ /\ Only("jobs") /\ J!Next
     /\ UNCHANGED <<pipelineVars, groupVars, fanVars, pollerVars, signalVars,
                    serverVars, postgresVars, httpVars, echoVars, sqliteVars>>

Fairness == /\ P!Fairness /\ G!Fairness /\ F!Fairness /\ U!Fairness /\ S!Fairness
            /\ H!Fairness /\ W!Fairness /\ R!Fairness /\ E!Fairness /\ B!Fairness
            /\ J!Fairness

Spec == Init /\ [][Next]_vars /\ Fairness

-----------------------------------------------------------------------------
\* concurrency/pipeline: every number passes exactly once, or the first few.
PipelineResultsFit == P!ResultsFit

\* errgroup: no error exactly if every slot is filled, and what comes with one.
GroupResultsFit == G!ResultsFit

\* fan-out-timeout, scatter-gather, context: one answer for each goroutine;
\* worker-pool: one result for each job.
OneAnswerEach == F!OneAnswerEach /\ J!OneResultEach

\* share-memory-by-communicating: no resource is with two goroutines.
OneOwner == U!OneOwner

\* share-memory-by-communicating: every resource is polled again and again.
PolledForEver == U!PolledForEver

\* graceful-shutdown-signals, http-server, grpc-advanced: an orderly end means
\* that what was begun has been finished.
CleanMeansDrained == S!CleanMeansDrained /\ H!AnsweredBeforeExit /\ E!StoppedIsDrained

\* postgres: read committed breaks the invariant, serializable with the retry
\* keeps it; sqlite: only what was committed is counted.
TablesFit == W!VerdictFitsLevel /\ B!CountFits

\* http-client: how many requests, and what the caller hears in the end.
GetJSONResultFits == R!GetJSONResultFits

\* The programs that should end do, whatever their goroutines are waiting for.
ProgramsEnd == /\ P!Ends /\ G!Ends /\ F!Ends /\ S!Ends /\ H!Ends
               /\ W!Ends /\ R!Ends /\ E!Ends /\ B!Ends /\ J!Ends
=============================================================================
