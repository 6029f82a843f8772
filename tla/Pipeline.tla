------------------------------- MODULE Pipeline -------------------------------
(***************************************************************************)
(* The channel pipelines of examples/concurrency/pipeline: gen -> square,  *)
(* gen -> two squares -> merge, and gen -> square with a consumer that     *)
(* takes a few values, cancels and waits for the stages.                   *)
(*                                                                         *)
(* Every channel is unbuffered: a send and the receive it meets are one    *)
(* step.  A number stands for its square.                                  *)
(***************************************************************************)
EXTENDS Integers, Sequences

CONSTANTS
  MaxNums,     \* how many numbers gen emits
  Squares,     \* the square stages of the fan-in
  TakeFirst    \* what the early consumer takes (3 in the code)

VARIABLES
  pipeline,          \* "idle", then which of the three runs
  cancelled,         \* the context is
  gen, nextNum,      \* gen: "send" or "exited", and the next number
  stage, item,       \* the square stages, and the number each holds
  forwarder, passed, \* merge's forwarders, and the number each holds
  closer,            \* merge's last goroutine
  consumer, results

source   == <<gen, nextNum>>
squares  == <<stage, item>>
merge    == <<forwarder, passed, closer>>
sink     == <<consumer, results>>
vars     == <<pipeline, cancelled, source, squares, merge, sink>>

Init ==
  /\ pipeline = "idle" /\ cancelled = FALSE
  /\ gen = "none" /\ nextNum = 1
  /\ stage = [s \in Squares |-> "none"] /\ item = [s \in Squares |-> 0]
  /\ forwarder = stage /\ passed = item /\ closer = "none"
  /\ consumer = "none" /\ results = <<>>

\* The goroutines of a demo are started by one function, front to back: a
\* stage whose neighbour has not started yet only waits for it.
Start(p, used) ==
  /\ pipeline = "idle" /\ pipeline' = p
  /\ gen' = "send" /\ consumer' = "range"
  /\ stage' = [s \in Squares |-> IF s \in used THEN "receive" ELSE "none"]
  /\ forwarder' = IF p = "fanIn" THEN stage' ELSE forwarder
  /\ closer' = IF p = "fanIn" THEN "wait" ELSE "none"
  /\ UNCHANGED <<cancelled, nextNum, item, passed, results>>

linearPipeline    == \E s \in Squares : Start("linear", {s})
fanInPipeline     == Start("fanIn", Squares)
earlyCancellation == \E s \in Squares : Start("early", {s})

-----------------------------------------------------------------------------
(* gen *)
GenSend(s) ==
  /\ gen = "send" /\ nextNum <= MaxNums /\ stage[s] = "receive"
  /\ nextNum' = nextNum + 1
  /\ stage' = [stage EXCEPT ![s] = "send"]
  /\ item' = [item EXCEPT ![s] = nextNum]
  /\ UNCHANGED <<pipeline, cancelled, gen, merge, sink>>

\* Out of numbers, or cancelled in a send: gen closes its channel.
GenExit ==
  /\ gen = "send" /\ (nextNum > MaxNums \/ cancelled)
  /\ gen' = "exited"
  /\ UNCHANGED <<pipeline, cancelled, nextNum, squares, merge, sink>>

-----------------------------------------------------------------------------
(* square *)
SquareExitOnDone(s) ==   \* mutant: the stage looks at gen's end in its send, too
  /\ stage[s] \in {"receive", "send"} /\ (gen = "exited" \/ cancelled)
  /\ stage' = [stage EXCEPT ![s] = "exited"]
  /\ UNCHANGED <<pipeline, cancelled, source, item, merge, sink>>

\* The receive ends with gen's close, the send also with the context.
SquareExit(s) ==
  /\ \/ stage[s] = "receive" /\ gen = "exited"
     \/ stage[s] = "send" /\ cancelled
  /\ stage' = [stage EXCEPT ![s] = "exited"]
  /\ UNCHANGED <<pipeline, cancelled, source, item, merge, sink>>

-----------------------------------------------------------------------------
(* merge: forwarders and closer *)
Forward(s) ==
  /\ stage[s] = "send" /\ forwarder[s] = "receive"
  /\ stage' = [stage EXCEPT ![s] = "receive"]
  /\ forwarder' = [forwarder EXCEPT ![s] = "send"]
  /\ passed' = [passed EXCEPT ![s] = item[s]]
  /\ UNCHANGED <<pipeline, cancelled, source, item, closer, sink>>

\* No fan-in is ever cancelled: the other case of the select is not taken.
ForwarderExit(s) ==
  /\ forwarder[s] = "receive" /\ stage[s] = "exited"
  /\ forwarder' = [forwarder EXCEPT ![s] = "exited"]
  /\ UNCHANGED <<pipeline, cancelled, source, squares, passed, closer, sink>>

CloseOnFirst ==   \* mutant: the first forwarder that ends closes the channel
  /\ closer = "wait" /\ \E s \in Squares : forwarder[s] = "exited"
  /\ closer' = "exited"
  /\ UNCHANGED <<pipeline, cancelled, source, squares, forwarder, passed, sink>>

CloseMerged ==
  /\ closer = "wait" /\ \A s \in Squares : forwarder[s] = "exited"
  /\ closer' = "exited"
  /\ UNCHANGED <<pipeline, cancelled, source, squares, forwarder, passed, sink>>

-----------------------------------------------------------------------------
(* The consumer *)
Take(n) == results' = Append(results, n)

TakeSquare(s) ==
  /\ consumer = "range" /\ pipeline \in {"linear", "early"} /\ stage[s] = "send"
  /\ Take(item[s])
  /\ stage' = [stage EXCEPT ![s] = "receive"]
  /\ consumer' = IF pipeline = "early" /\ Len(results') = TakeFirst THEN "cancel" ELSE "range"
  /\ UNCHANGED <<pipeline, cancelled, source, item, merge>>

TakeMerged(s) ==
  /\ consumer = "range" /\ closer = "wait" /\ forwarder[s] = "send"
  /\ Take(passed[s])
  /\ forwarder' = [forwarder EXCEPT ![s] = "receive"]
  /\ UNCHANGED <<pipeline, cancelled, source, squares, passed, closer, consumer>>

Cancel ==
  /\ consumer = "cancel"
  /\ cancelled' = TRUE /\ consumer' = "wait"
  /\ UNCHANGED <<pipeline, source, squares, merge, results>>

OutputClosed == IF pipeline = "fanIn" THEN closer = "exited"
                                      ELSE \E s \in Squares : stage[s] = "exited"

RangeEnds ==
  /\ consumer = "range" /\ OutputClosed
  /\ consumer' = "wait"
  /\ UNCHANGED <<pipeline, cancelled, source, squares, merge, results>>

\* wg.Wait
Exited == /\ gen = "exited" /\ closer \in {"none", "exited"}
          /\ \A s \in Squares : {stage[s], forwarder[s]} \subseteq {"none", "exited"}

Return ==
  /\ consumer = "wait" /\ Exited
  /\ consumer' = "returned"
  /\ UNCHANGED <<pipeline, cancelled, source, squares, merge, results>>

-----------------------------------------------------------------------------
Step ==
  \/ GenExit \/ CloseMerged \/ Cancel \/ RangeEnds \/ Return
  \/ \E s \in Squares : \/ GenSend(s) \/ SquareExit(s) \/ Forward(s) \/ ForwarderExit(s)
                        \/ TakeSquare(s) \/ TakeMerged(s)

Next == linearPipeline \/ fanInPipeline \/ earlyCancellation \/ Step

\* Every step takes the pipeline further, so that one fairness condition is
\* enough: some goroutine that can run does.
Fairness == WF_vars(Step)

Spec == Init /\ [][Next]_vars /\ Fairness

-----------------------------------------------------------------------------
\* Every number passes the pipeline exactly once, in order where there is one
\* path; a consumer that leaves early has the first few.
ResultsFit ==
  consumer = "returned" =>
    /\ pipeline = "linear" => results = [i \in 1 .. MaxNums |-> i]
    /\ pipeline = "early"  => results = [i \in 1 .. TakeFirst |-> i]
    /\ pipeline = "fanIn"  =>
         /\ Len(results) = MaxNums
         /\ \A n \in 1 .. MaxNums : \E i \in DOMAIN results : results[i] = n

\* No goroutine is left behind: the demo returns, and it waits for all of them.
Ends == <>[](consumer \in {"none", "returned"})
=============================================================================
