-------------------------------- MODULE FanOut --------------------------------
(***************************************************************************)
(* Goroutines that each owe one answer: the workers of fan-out-timeout,    *)
(* which race an inner goroutine against a timer; those of scatter-gather, *)
(* which have no timer; and slowOp of examples/context, which races its    *)
(* work against the cancellation or the deadline of its context.           *)
(***************************************************************************)
EXTENDS Integers, Sequences

CONSTANT FanWorkers   \* the workers (10 in the code)

VARIABLES
  demo,       \* "idle", "fanOutTimeout", "scatterGather" or "context"
  inner,      \* the goroutine that does the work: "none", "sleep" or "sent"
  done,       \* the answers in the buffered channel done of a worker
  waiting,    \* the worker: "none", "select", "sent", "exited"
  ended,      \* the worker's timer has fired, or its context has ended
  out,        \* the channel of all answers
  outClosed,
  reader,     \* main: "wait", "drain" or "returned"
  printed     \* what main took from out

work == <<inner, done>>
main == <<outClosed, reader, printed>>
vars == <<demo, work, waiting, ended, out, main>>

NoOne == {w \in FanWorkers : waiting[w] = "none"}

Init ==
  /\ demo = "idle"
  /\ inner = [w \in FanWorkers |-> "none"] /\ waiting = inner
  /\ done = [w \in FanWorkers |-> 0] /\ ended = [w \in FanWorkers |-> FALSE]
  /\ out = <<>> /\ outClosed = FALSE
  /\ reader = "none" /\ printed = <<>>

\* The workers and, in fan-out-timeout, the goroutine each of them starts.
Start(d, used, innerPc) ==
  /\ demo = "idle" /\ demo' = d
  /\ waiting' = [w \in FanWorkers |-> IF w \in used THEN "select" ELSE "none"]
  /\ inner' = [w \in FanWorkers |-> IF w \in used THEN innerPc ELSE "none"]
  /\ reader' = IF d = "context" THEN "drain" ELSE "wait"
  /\ UNCHANGED <<done, ended, out, outClosed, printed>>

fanOutTimeout == Start("fanOutTimeout", FanWorkers, "sleep")
scatterGather == Start("scatterGather", FanWorkers, "none")
contextDemo   == \E w \in FanWorkers : Start("context", {w}, "none")

-----------------------------------------------------------------------------
InnerSendUnbuffered(w) ==   \* mutant: done has no buffer
  /\ inner[w] = "sleep" /\ waiting[w] = "select"
  /\ inner' = [inner EXCEPT ![w] = "sent"]
  /\ done' = [done EXCEPT ![w] = @ + 1]
  /\ UNCHANGED <<demo, waiting, ended, out, main>>

\* done has room for the one answer, whether the worker still listens or not.
InnerSend(w) ==
  /\ inner[w] = "sleep" /\ done[w] < 1
  /\ inner' = [inner EXCEPT ![w] = "sent"]
  /\ done' = [done EXCEPT ![w] = @ + 1]
  /\ UNCHANGED <<demo, waiting, ended, out, main>>

\* The timer of a worker; cancel() or the deadline of a context.  A worker of
\* scatter-gather has neither.
End(w) ==
  /\ waiting[w] = "select" /\ ~ended[w] /\ demo # "scatterGather"
  /\ ended' = [ended EXCEPT ![w] = TRUE]
  /\ UNCHANGED <<demo, work, waiting, out, main>>

Send(w, timedOut) ==
  /\ waiting' = [waiting EXCEPT ![w] = "sent"]
  /\ out' = Append(out, [id |-> w, timedOut |-> timedOut])

\* Without an inner goroutine the worker's own sleep or timer ends.
Answer(w) ==
  /\ waiting[w] = "select"
  /\ IF inner[w] = "none" THEN UNCHANGED done
     ELSE done[w] = 1 /\ done' = [done EXCEPT ![w] = 0]
  /\ Send(w, FALSE)
  /\ UNCHANGED <<demo, inner, ended, main>>

\* select takes either case when both are ready.
TimeOut(w) ==
  /\ waiting[w] = "select" /\ ended[w]
  /\ Send(w, TRUE)
  /\ UNCHANGED <<demo, work, ended, main>>

\* The deferred wg.Done; slowOp's goroutine just ends.
Exit(w) ==
  /\ waiting[w] = "sent"
  /\ waiting' = [waiting EXCEPT ![w] = "exited"]
  /\ UNCHANGED <<demo, work, ended, out, main>>

-----------------------------------------------------------------------------
CloseUnjoined ==   \* mutant: wg.Add is left to the workers
  /\ reader = "wait" /\ \A w \in FanWorkers : waiting[w] # "sent"
  /\ outClosed' = TRUE /\ reader' = "drain"
  /\ UNCHANGED <<demo, work, waiting, ended, out, printed>>

\* wg.Wait and close.
Close ==
  /\ reader = "wait" /\ \A w \in FanWorkers : waiting[w] = "exited"
  /\ outClosed' = TRUE /\ reader' = "drain"
  /\ UNCHANGED <<demo, work, waiting, ended, out, printed>>

\* The context demos read one answer, the other ones all until the close.
Drain ==
  /\ reader = "drain" /\ out # <<>>
  /\ printed' = Append(printed, Head(out))
  /\ out' = Tail(out)
  /\ reader' = IF demo = "context" THEN "returned" ELSE "drain"
  /\ UNCHANGED <<demo, work, waiting, ended, outClosed>>

Return ==
  /\ reader = "drain" /\ outClosed /\ out = <<>>
  /\ reader' = "returned"
  /\ UNCHANGED <<demo, work, waiting, ended, out, outClosed, printed>>

-----------------------------------------------------------------------------
Worker(w) == InnerSend(w) \/ Answer(w) \/ TimeOut(w) \/ Exit(w)
Step == Close \/ Drain \/ Return \/ \E w \in FanWorkers : Worker(w)

Next == fanOutTimeout \/ scatterGather \/ contextDemo \/ Step \/ \E w \in FanWorkers : End(w)

\* Goroutines are scheduled and sleeps end; nothing is repeated.
Fairness == WF_vars(Step)

Spec == Init /\ [][Next]_vars /\ Fairness

-----------------------------------------------------------------------------
\* main prints one line for each worker, its answer or its timeout and never
\* both, however the two race; nobody sends after the close.
OneAnswerEach ==
  reader = "returned" =>
    /\ out = <<>>
    /\ \A w \in FanWorkers \ NoOne : \E i \in DOMAIN printed : printed[i].id = w
    /\ \A i, j \in DOMAIN printed : printed[i].id = printed[j].id => i = j

\* main returns, and no goroutine stays behind that waits to send an answer
\* nobody takes.
Ends == <>[](/\ reader \in {"none", "returned"}
             /\ \A w \in FanWorkers : inner[w] \in {"none", "sent"}
                                      /\ waiting[w] \in {"none", "exited"})
=============================================================================
