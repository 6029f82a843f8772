-------------------------------- MODULE Retry ---------------------------------
(***************************************************************************)
(* Client.GetJSON of examples/http-client: attempts with a growing backoff *)
(* between them, of which only network errors and 5xx answers are retried, *)
(* under a context that may end in a request or in a backoff.              *)
(***************************************************************************)
EXTENDS Integers

CONSTANT RetryLimits   \* the values of maxRetries that are tried

VARIABLES
  getJSON,      \* "idle", "loop", "backoff", "request", "nil" or "error"
  maxRetries,
  attempt,      \* the loop variable: how many attempts were begun before
  getDone,      \* the context has ended
  lastErr,      \* "none", "retryable" or "fatal"
  result,       \* of the last doGet
  requests,     \* history: requests sent
  wrapped       \* the cause of the error returned

state == <<maxRetries, attempt, lastErr, result, requests, wrapped>>
vars  == <<getJSON, getDone, state>>

Init ==
  /\ getJSON = "idle" /\ maxRetries \in RetryLimits
  /\ attempt = 0 /\ getDone = FALSE
  /\ lastErr = "none" /\ result = "none" /\ requests = 0 /\ wrapped = "none"

Start ==
  /\ getJSON = "idle" /\ getJSON' = "loop"
  /\ UNCHANGED <<getDone, state>>

Expire ==
  /\ getJSON \notin {"idle", "nil", "error"} /\ ~getDone
  /\ getDone' = TRUE
  /\ UNCHANGED <<getJSON, state>>

-----------------------------------------------------------------------------
Return(err) ==
  /\ getJSON' = "error" /\ wrapped' = err
  /\ UNCHANGED <<getDone, maxRetries, attempt>>

LoopOneMore ==   \* mutant: range over maxRetries + 2
  /\ getJSON = "loop" /\ attempt <= maxRetries + 1
  /\ getJSON' = IF attempt > 0 THEN "backoff" ELSE "request"
  /\ UNCHANGED <<getDone, state>>

\* range c.maxRetries + 1, and what the body does before the request.
Loop ==
  /\ getJSON = "loop" /\ attempt <= maxRetries
  /\ getJSON' = IF attempt > 0 THEN "backoff" ELSE "request"
  /\ UNCHANGED <<getDone, state>>

AllFailed ==
  /\ getJSON = "loop" /\ attempt > maxRetries
  /\ Return(lastErr)
  /\ UNCHANGED <<lastErr, result, requests>>

\* select takes either case when the context ends while the delay does.
Backoff ==
  /\ getJSON = "backoff" /\ getJSON' = "request"
  /\ UNCHANGED <<getDone, state>>

BackoffCancelled ==
  /\ getJSON = "backoff" /\ getDone
  /\ Return("context")
  /\ UNCHANGED <<lastErr, result, requests>>

\* A request that cannot be built, which is never sent, a 4xx or a body that is
\* no JSON is not retried.  A request whose context has ended fails like one the
\* network lost.
doGet(outcome) ==
  /\ getJSON = "request" /\ (getDone => outcome # "ok")
  /\ result' = outcome
  /\ requests' = requests + 1 \/ (outcome = "fatal" /\ attempt = 0 /\ requests' = requests)
  /\ \/ /\ outcome = "ok" /\ getJSON' = "nil"
        /\ UNCHANGED <<getDone, maxRetries, attempt, lastErr, wrapped>>
     \/ outcome = "fatal" /\ lastErr' = "fatal" /\ Return("fatal")
     \/ /\ outcome = "retryable" /\ getJSON' = "loop"
        /\ attempt' = attempt + 1 /\ lastErr' = "retryable"
        /\ UNCHANGED <<getDone, maxRetries, wrapped>>

-----------------------------------------------------------------------------
Step == \/ Loop \/ AllFailed \/ Backoff \/ BackoffCancelled
        \/ \E outcome \in {"ok", "fatal", "retryable"} : doGet(outcome)

Next == Start \/ Expire \/ Step

\* Requests have a timeout, and backoffs end.
Fairness == WF_vars(Step)

Spec == Init /\ [][Next]_vars /\ Fairness

-----------------------------------------------------------------------------
\* At most maxRetries + 1 requests, each after a failure worth retrying; the
\* call succeeds exactly if the last one did, and gives up for lack of
\* attempts only after all of them.  An error says why, except that a client
\* with a negative maxRetries sends nothing and wraps nothing.
GetJSONResultFits ==
  /\ requests <= IF maxRetries < 0 THEN 0 ELSE maxRetries + 1
  /\ getJSON = "nil" <=> result = "ok"
  /\ getJSON \in {"loop", "backoff"} => result \in {"none", "retryable"}
  /\ getJSON = "error" =>
       /\ wrapped = "fatal"     => result = "fatal"
       /\ wrapped = "context"   => getDone
       /\ wrapped = "retryable" => requests = maxRetries + 1
       /\ wrapped = "none"      => maxRetries < 0

\* GetJSON returns.
Ends == <>[](getJSON \in {"idle", "nil", "error"})
=============================================================================
