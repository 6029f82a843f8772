-------------------------- MODULE QuoteQueueProofs ---------------------------
(***************************************************************************)
(* Proofs about QuoteQueue, for any requests, engines and bounds: a job    *)
(* number is handed out once, however often INCR is retried and whoever    *)
(* dies in between, a reply waits for every goroutine of its request, and  *)
(* no job is lost or doubled but by a fault.                               *)
(***************************************************************************)
EXTENDS QuoteQueue, TLAPS, SequenceTheorems, FiniteSetTheorems, FunctionTheorems

(* Setting one entry of a function of functions. *)
LEMMA SetEntry ==
  ASSUME NEW R, NEW E, NEW V, NEW f \in [R -> [E -> V]],
         NEW r \in R, NEW e \in E, NEW v \in V,
         NEW g, g = [f EXCEPT ![r][e] = v]
  PROVE  /\ g \in [R -> [E -> V]] /\ g[r][e] = v
         /\ \A q \in R, d \in E : q # r \/ d # e => g[q][d] = f[q][d]
  OBVIOUS

(* Empty lists and no request satisfy the invariant. *)
LEMMA InitIInv == Init => IInv
<1> SUFFICES ASSUME Init PROVE IInv
  OBVIOUS
<1>1. TypeOK
  <2>1. <<>> \in Seq(Jobs) /\ 0 \in 0 .. MaxJobs /\ 0 \in 0 .. MaxFaults
        /\ 0 \in Nat /\ {} \in SUBSET Engines
    BY BoundAssumption
  <2>2. /\ counter \in [Engines -> 0 .. MaxJobs]
        /\ tasks \in [Engines -> Seq(Jobs)]
        /\ results \in [Engines -> [Jobs -> Nat]]
        /\ job \in [Engines -> 0 .. MaxJobs]
    BY <2>1, Zenon DEF Init, None
  <2>3. /\ stage \in [Requests -> {"new", "open", "replied", "gone"}]
        /\ sent \in [Requests -> SUBSET Engines]
        /\ faults \in 0 .. MaxFaults
    BY <2>1 DEF Init
  <2>4. /\ pc \in [Requests -> [Engines ->
               {"incr", "push", "wait", "send", "finish", "done"}]]
        /\ id \in [Requests -> [Engines -> 0 .. MaxJobs]]
        /\ outcome \in [Requests -> [Engines -> {"none", "result", "error"}]]
    BY <2>1 DEF Init, None
  <2>5. QED
    BY <2>2, <2>3, <2>4, Zenon DEF TypeOK
<1>2. NoSharedResultKey
  BY DEF Init, NoSharedResultKey, None
<1>3. RoutinesFit
  BY DEF Init, RoutinesFit, None
<1>4. QED
  BY <1>1, <1>2, <1>3 DEF IInv

(* A request arrives, or the process dies: no goroutine moves. *)
LEMMA StagesIInv ==
  ASSUME IInv, (\E r \in Requests : Arrive(r)) \/ Restart
  PROVE  IInv'
<1>1. /\ stage' \in [Requests -> {"new", "open", "replied", "gone"}]
      /\ \A r \in Requests : stage'[r] = "replied" => stage[r] = "replied"
      /\ job' \in [Engines -> 0 .. MaxJobs]
      /\ faults' \in 0 .. MaxFaults
      /\ UNCHANGED <<counter, tasks, results, sent, pc, id, outcome>>
  <2>1. CASE \E r \in Requests : Arrive(r)
    BY <2>1 DEF Arrive, IInv, TypeOK, redis, routine
  <2>2. CASE Restart
    <3>1. None \in 0 .. MaxJobs
      BY BoundAssumption DEF None
    <3>2. faults' \in 0 .. MaxFaults
      BY <2>2, BoundAssumption DEF Restart, Fault, IInv, TypeOK
    <3>3. QED
      BY <2>2, <3>1, <3>2 DEF Restart, IInv, TypeOK, redis, routine
  <2>3. QED
    BY <2>1, <2>2
<1>2. TypeOK'
  BY <1>1, Zenon DEF IInv, TypeOK
<1>3. NoSharedResultKey'
  BY <1>1 DEF IInv, NoSharedResultKey
<1>4. RoutinesFit'
  <2> SUFFICES ASSUME NEW q \in Requests, NEW d \in Engines
               PROVE  /\ id[q][d] <= counter[d]
                      /\ pc[q][d] \in {"push", "wait"} => id[q][d] # None
                      /\ pc[q][d] \in {"send", "finish", "done"} => outcome[q][d] # "none"
                      /\ pc[q][d] \in {"finish", "done"} => d \in sent[q]
                      /\ stage'[q] = "replied" => pc[q][d] = "done"
    BY <1>1 DEF RoutinesFit
  <2> QED
    BY <1>1 DEF IInv, RoutinesFit
<1>5. QED
  BY <1>2, <1>3, <1>4 DEF IInv

(* A reply goes out when every goroutine is done. *)
LEMMA ReplyIInv ==
  ASSUME IInv, NEW r \in Requests, Reply(r)
  PROVE  IInv'
<1>1. /\ stage' \in [Requests -> {"new", "open", "replied", "gone"}]
      /\ \A q \in Requests : stage'[q] = "replied" => q = r \/ stage[q] = "replied"
      /\ \A e \in Engines : pc[r][e] = "done"
      /\ UNCHANGED <<counter, tasks, results, sent, pc, id, outcome, job, faults>>
  BY DEF Reply, IInv, TypeOK, redis, routine
<1>2. TypeOK'
  BY <1>1, Zenon DEF IInv, TypeOK
<1>3. NoSharedResultKey'
  BY <1>1 DEF IInv, NoSharedResultKey
<1>4. RoutinesFit'
  <2> SUFFICES ASSUME NEW q \in Requests, NEW d \in Engines
               PROVE  /\ id[q][d] <= counter[d]
                      /\ pc[q][d] \in {"push", "wait"} => id[q][d] # None
                      /\ pc[q][d] \in {"send", "finish", "done"} => outcome[q][d] # "none"
                      /\ pc[q][d] \in {"finish", "done"} => d \in sent[q]
                      /\ stage'[q] = "replied" => pc[q][d] = "done"
    BY <1>1 DEF RoutinesFit
  <2> QED
    BY <1>1 DEF IInv, RoutinesFit
<1>5. QED
  BY <1>2, <1>3, <1>4 DEF IInv

(* The end of a goroutine: its line, then wg.Done. *)
LEMMA LastStepsIInv ==
  ASSUME IInv, NEW r \in Requests, NEW e \in Engines, Send(r, e) \/ Finish(r, e)
  PROVE  IInv'
<1> DEFINE Label == {"incr", "push", "wait", "send", "finish", "done"}
<1>1. pc \in [Requests -> [Engines -> Label]]
  BY DEF IInv, TypeOK
<1>2. /\ sent' \in [Requests -> SUBSET Engines]
      /\ \A q \in Requests : sent[q] \subseteq sent'[q]
      /\ pc'[r][e] \in {"finish", "done"}
      /\ pc[r][e] \in {"send", "finish"} /\ e \in sent'[r]
      /\ pc' \in [Requests -> [Engines -> Label]]
      /\ \A q \in Requests, d \in Engines :
           q # r \/ d # e => pc'[q][d] = pc[q][d]
      /\ UNCHANGED <<redis, stage, id, outcome, job, faults>>
  <2>1. CASE Send(r, e)
    <3>1. pc' = [pc EXCEPT ![r][e] = "finish"]
      BY <2>1 DEF Send
    <3>2. /\ sent' \in [Requests -> SUBSET Engines]
          /\ \A q \in Requests : sent[q] \subseteq sent'[q]
          /\ e \in sent'[r] /\ pc[r][e] = "send"
          /\ UNCHANGED <<redis, stage, id, outcome, job, faults>>
      BY <2>1 DEF Send, IInv, TypeOK
    <3>3. /\ pc'[r][e] = "finish" /\ pc' \in [Requests -> [Engines -> Label]]
          /\ \A q \in Requests, d \in Engines :
               q # r \/ d # e => pc'[q][d] = pc[q][d]
      BY <1>1, <3>1, SetEntry
    <3>4. QED
      BY <3>2, <3>3
  <2>2. CASE Finish(r, e)
    <3>1. pc' = [pc EXCEPT ![r][e] = "done"]
      BY <2>2 DEF Finish
    <3>2. /\ sent' = sent /\ pc[r][e] = "finish"
          /\ UNCHANGED <<redis, stage, id, outcome, job, faults>>
      BY <2>2 DEF Finish, handler
    <3>3. e \in sent[r] /\ sent \in [Requests -> SUBSET Engines]
      BY <3>2 DEF IInv, TypeOK, RoutinesFit
    <3>4. /\ pc'[r][e] = "done" /\ pc' \in [Requests -> [Engines -> Label]]
          /\ \A q \in Requests, d \in Engines :
               q # r \/ d # e => pc'[q][d] = pc[q][d]
      BY <1>1, <3>1, SetEntry
    <3>5. QED
      BY <3>2, <3>3, <3>4
  <2>3. QED
    BY <2>1, <2>2
<1>3. TypeOK'
  BY <1>2, Zenon DEF IInv, TypeOK, redis
<1>4. NoSharedResultKey'
  BY <1>2, Zenon DEF IInv, NoSharedResultKey
<1>5. RoutinesFit'
  <2> SUFFICES ASSUME NEW q \in Requests, NEW d \in Engines
               PROVE  /\ id'[q][d] <= counter'[d]
                      /\ pc'[q][d] \in {"push", "wait"} => id'[q][d] # None
                      /\ pc'[q][d] \in {"send", "finish", "done"} => outcome'[q][d] # "none"
                      /\ pc'[q][d] \in {"finish", "done"} => d \in sent'[q]
                      /\ stage'[q] = "replied" => pc'[q][d] = "done"
    BY Zenon DEF RoutinesFit
  <2>1. CASE q # r \/ d # e
    <3>1. /\ pc'[q][d] = pc[q][d] /\ sent[q] \subseteq sent'[q]
          /\ id' = id /\ counter' = counter /\ outcome' = outcome /\ stage' = stage
      BY <1>2, <2>1 DEF redis
    <3>2. QED
      BY <3>1 DEF IInv, RoutinesFit
  <2>2. CASE q = r /\ d = e
    <3>1. /\ stage[r] # "replied" /\ outcome[r][e] # "none"
          /\ id[r][e] <= counter[e]
      BY <1>2 DEF IInv, RoutinesFit
    <3>2. pc'[r][e] \notin {"push", "wait"}
      BY <1>2
    <3>3. /\ id' = id /\ counter' = counter /\ outcome' = outcome /\ stage' = stage
          /\ e \in sent'[r]
      BY <1>2 DEF redis
    <3>4. QED
      BY <2>2, <3>1, <3>2, <3>3, Zenon
  <2>3. QED
    BY <2>1, <2>2
<1>6. QED
  BY <1>3, <1>4, <1>5 DEF IInv

(* enqueueAndWait returns, whatever it did to Redis. *)
LEMMA AnswerIInv ==
  ASSUME IInv, NEW r \in Requests, NEW e \in Engines, NEW o \in {"result", "error"},
         stage[r] = "open", Answer(r, e, o),
         counter' \in [Engines -> 0 .. MaxJobs],
         \A d \in Engines : counter[d] <= counter'[d],
         tasks' \in [Engines -> Seq(Jobs)],
         results' \in [Engines -> [Jobs -> Nat]],
         UNCHANGED <<handler, id, job, faults>>
  PROVE  IInv'
<1> DEFINE Label   == {"incr", "push", "wait", "send", "finish", "done"}
           Outcome == {"none", "result", "error"}
<1>1. /\ pc' \in [Requests -> [Engines -> Label]] /\ pc'[r][e] = "send"
      /\ \A q \in Requests, d \in Engines :
           q # r \/ d # e => pc'[q][d] = pc[q][d]
  <2>1. pc \in [Requests -> [Engines -> Label]] /\ pc' = [pc EXCEPT ![r][e] = "send"]
    BY DEF IInv, TypeOK, Answer
  <2>2. QED
    BY <2>1, SetEntry
<1>2. /\ outcome' \in [Requests -> [Engines -> Outcome]] /\ outcome'[r][e] = o
      /\ \A q \in Requests, d \in Engines :
           q # r \/ d # e => outcome'[q][d] = outcome[q][d]
  <2>1. /\ outcome \in [Requests -> [Engines -> Outcome]] /\ o \in Outcome
        /\ outcome' = [outcome EXCEPT ![r][e] = o]
    BY DEF IInv, TypeOK, Answer
  <2>2. QED
    BY <2>1, SetEntry
<1>3. stage' = stage /\ sent' = sent /\ id' = id /\ job' = job /\ faults' = faults
  BY DEF handler
<1>4. TypeOK'
  BY <1>1, <1>2, <1>3, Zenon DEF IInv, TypeOK
<1>5. NoSharedResultKey'
  BY <1>3 DEF IInv, NoSharedResultKey
<1>6. \A q \in Requests, d \in Engines : id'[q][d] <= counter'[d]
  <2>1. SUFFICES ASSUME NEW q \in Requests, NEW d \in Engines
                 PROVE  id[q][d] <= counter'[d]
    BY <1>3
  <2>2. /\ id[q][d] \in 0 .. MaxJobs /\ counter[d] \in 0 .. MaxJobs
        /\ counter'[d] \in 0 .. MaxJobs
        /\ id[q][d] <= counter[d] /\ counter[d] <= counter'[d]
    BY DEF IInv, TypeOK, RoutinesFit
  <2>3. QED
    BY <2>2, BoundAssumption
<1>7. RoutinesFit'
  <2> SUFFICES ASSUME NEW q \in Requests, NEW d \in Engines
               PROVE  /\ pc'[q][d] \in {"push", "wait"} => id'[q][d] # None
                      /\ pc'[q][d] \in {"send", "finish", "done"} => outcome'[q][d] # "none"
                      /\ pc'[q][d] \in {"finish", "done"} => d \in sent'[q]
                      /\ stage'[q] = "replied" => pc'[q][d] = "done"
    BY <1>6, Zenon DEF RoutinesFit
  <2>1. CASE q # r \/ d # e
    <3>1. pc'[q][d] = pc[q][d] /\ outcome'[q][d] = outcome[q][d]
      BY <1>1, <1>2, <2>1
    <3>2. QED
      BY <1>3, <3>1 DEF IInv, RoutinesFit
  <2>2. CASE q = r /\ d = e
    BY <1>1, <1>2, <1>3, <2>2
  <2>3. QED
    BY <2>1, <2>2
<1>8. QED
  BY <1>4, <1>5, <1>7 DEF IInv

(* The returns of enqueueAndWait. *)
LEMMA ReturnsIInv ==
  ASSUME IInv, NEW r \in Requests, NEW e \in Engines,
         \/ IncrFails(r, e) \/ PushFails(r, e)
         \/ PopResult(r, e) \/ TimeOut(r, e) \/ WaitFails(r, e)
  PROVE  IInv'
<1>1. /\ counter \in [Engines -> 0 .. MaxJobs]
      /\ tasks \in [Engines -> Seq(Jobs)]
      /\ results \in [Engines -> [Jobs -> Nat]]
      /\ id[r][e] \in 0 .. MaxJobs
      /\ pc[r][e] \in {"push", "wait"} => id[r][e] \in Jobs
  BY BoundAssumption DEF IInv, TypeOK, RoutinesFit, Jobs, None
<1>2. CASE IncrFails(r, e)
  <2>1. PICK n \in 0 .. 1 : /\ counter[e] + n <= MaxJobs
                            /\ counter' = [counter EXCEPT ![e] = @ + n]
    BY <1>2 DEF IncrFails
  <2>2. /\ counter' \in [Engines -> 0 .. MaxJobs]
        /\ \A d \in Engines : counter[d] <= counter'[d]
    BY <1>1, <2>1, BoundAssumption
  <2>3. QED
    BY <1>1, <1>2, <2>2, AnswerIInv DEF IncrFails, At
<1>3. CASE PushFails(r, e)
  <2>1. tasks' \in [Engines -> Seq(Jobs)]
    <3>1. id[r][e] \in Jobs /\ tasks[e] \in Seq(Jobs)
      BY <1>1, <1>3 DEF PushFails, At
    <3>2. Append(tasks[e], id[r][e]) \in Seq(Jobs)
      BY <3>1
    <3>3. QED
      BY <1>1, <1>3, <3>2 DEF PushFails
  <2>2. counter' = counter /\ \A d \in Engines : counter[d] <= counter[d]
    BY <1>1, <1>3, BoundAssumption DEF PushFails
  <2>3. QED
    BY <1>1, <1>3, <2>1, <2>2, AnswerIInv DEF PushFails, At
<1>4. ASSUME pc[r][e] = "wait", results[e][id[r][e]] > 0,
             results' = [results EXCEPT ![e][id[r][e]] = @ - 1]
      PROVE  results' \in [Engines -> [Jobs -> Nat]]
  <2>1. /\ results[e][id[r][e]] - 1 \in Nat /\ id[r][e] \in Jobs
        /\ results' = [results EXCEPT ![e][id[r][e]] = results[e][id[r][e]] - 1]
    BY <1>1, <1>4
  <2>2. QED
    BY <1>1, <2>1, SetEntry
<1>5. CASE PopResult(r, e) \/ TimeOut(r, e) \/ WaitFails(r, e)
  <2>1. results' \in [Engines -> [Jobs -> Nat]]
    <3>1. CASE PopResult(r, e)
      BY <1>4, <3>1 DEF PopResult, At
    <3>2. CASE TimeOut(r, e)
      BY <1>1, <3>2 DEF TimeOut, redis
    <3>3. CASE WaitFails(r, e)
      <4>1. CASE results' = results
        BY <1>1, <4>1
      <4>2. CASE results' # results
        BY <1>4, <3>3, <4>2 DEF WaitFails, At
      <4>3. QED
        BY <4>1, <4>2
    <3>4. QED
      BY <1>5, <3>1, <3>2, <3>3
  <2>2. /\ counter' = counter /\ tasks' = tasks
        /\ \A d \in Engines : counter[d] <= counter[d]
    BY <1>1, <1>5, BoundAssumption DEF PopResult, TimeOut, WaitFails, redis
  <2>3. QED
    BY <1>1, <1>5, <2>1, <2>2, AnswerIInv DEF PopResult, TimeOut, WaitFails, At
<1>6. QED
  BY <1>2, <1>3, <1>5

(* The goroutine gets a number nobody has had. *)
LEMMA IncrIInv ==
  ASSUME IInv, NEW r \in Requests, NEW e \in Engines, Incr(r, e)
  PROVE  IInv'
<1> DEFINE Label == {"incr", "push", "wait", "send", "finish", "done"}
<1>1. /\ counter \in [Engines -> 0 .. MaxJobs] /\ faults \in 0 .. MaxFaults
      /\ id \in [Requests -> [Engines -> 0 .. MaxJobs]]
      /\ pc \in [Requests -> [Engines -> Label]]
  BY DEF IInv, TypeOK
<1>2. PICK n \in 1 .. 2 : /\ counter[e] + n <= MaxJobs
                          /\ counter' = [counter EXCEPT ![e] = counter[e] + n]
  BY DEF Incr
<1>3. /\ counter' \in [Engines -> 0 .. MaxJobs]
      /\ counter[e] < counter'[e] /\ counter'[e] \in 1 .. MaxJobs
      /\ \A d \in Engines : counter[d] <= counter'[d]
  BY <1>1, <1>2, BoundAssumption
<1>4. faults' \in 0 .. MaxFaults
  BY <1>1, BoundAssumption DEF Incr, Fault
<1>5. /\ id' \in [Requests -> [Engines -> 0 .. MaxJobs]] /\ id'[r][e] = counter'[e]
      /\ \A q \in Requests, d \in Engines : q # r \/ d # e => id'[q][d] = id[q][d]
  <2>1. id' = [id EXCEPT ![r][e] = counter'[e]] /\ counter'[e] \in 0 .. MaxJobs
    BY <1>3, BoundAssumption DEF Incr
  <2>2. QED
    BY <1>1, <2>1, SetEntry
<1>6. /\ pc' \in [Requests -> [Engines -> Label]] /\ pc'[r][e] = "push"
      /\ \A q \in Requests, d \in Engines : q # r \/ d # e => pc'[q][d] = pc[q][d]
  <2>1. pc' = [pc EXCEPT ![r][e] = "push"]
    BY DEF Incr
  <2>2. QED
    BY <1>1, <2>1, SetEntry
<1>7. /\ stage[r] = "open"
      /\ tasks' = tasks /\ results' = results /\ stage' = stage /\ sent' = sent
      /\ outcome' = outcome /\ job' = job
  BY DEF Incr, At, handler
<1>8. TypeOK'
  BY <1>3, <1>4, <1>5, <1>6, <1>7, Zenon DEF IInv, TypeOK
<1>9. \A q \in Requests, d \in Engines :
        /\ id'[q][d] <= counter'[d]
        /\ q # r => id'[q][e] # counter'[e]
  <2>1. SUFFICES ASSUME NEW q \in Requests, NEW d \in Engines
                 PROVE  /\ id'[q][d] <= counter'[d]
                        /\ q # r => id'[q][e] # counter'[e]
    OBVIOUS
  <2>2. /\ id[q][d] \in 0 .. MaxJobs /\ id[q][e] \in 0 .. MaxJobs
        /\ counter[d] \in 0 .. MaxJobs /\ counter[e] \in 0 .. MaxJobs
        /\ counter'[d] \in 0 .. MaxJobs
        /\ id[q][d] <= counter[d] /\ id[q][e] <= counter[e]
    BY <1>1, <1>3 DEF IInv, RoutinesFit
  <2>3. id[q][d] <= counter'[d] /\ id[q][e] # counter'[e]
    BY <1>3, <2>2, BoundAssumption
  <2>4. counter'[d] <= counter'[d]
    BY <2>2, BoundAssumption
  <2>5. QED
    BY <1>5, <2>3, <2>4
<1>10. NoSharedResultKey'
  <2> SUFFICES ASSUME NEW q \in Requests, NEW s \in Requests, NEW d \in Engines,
                      id'[q][d] = id'[s][d], id'[q][d] # None
               PROVE  q = s
    BY DEF NoSharedResultKey
  <2>1. CASE d = e /\ (q = r \/ s = r)
    BY <1>5, <1>9, <2>1
  <2>2. CASE d # e \/ (q # r /\ s # r)
    <3>1. id'[q][d] = id[q][d] /\ id'[s][d] = id[s][d]
      BY <1>5, <2>2
    <3>2. QED
      <4>1. id[q][d] = id[s][d] /\ id[q][d] # None
        BY <3>1, Zenon
      <4>2. QED
        BY <4>1, Zenon DEF IInv, NoSharedResultKey
  <2>3. QED
    BY <2>1, <2>2
<1>11. RoutinesFit'
  <2> SUFFICES ASSUME NEW q \in Requests, NEW d \in Engines
               PROVE  /\ pc'[q][d] \in {"push", "wait"} => id'[q][d] # None
                      /\ pc'[q][d] \in {"send", "finish", "done"} => outcome'[q][d] # "none"
                      /\ pc'[q][d] \in {"finish", "done"} => d \in sent'[q]
                      /\ stage'[q] = "replied" => pc'[q][d] = "done"
    BY <1>9, Zenon DEF RoutinesFit
  <2>1. CASE q # r \/ d # e
    <3>1. pc'[q][d] = pc[q][d] /\ id'[q][d] = id[q][d]
      BY <1>5, <1>6, <2>1
    <3>2. QED
      BY <1>7, <3>1 DEF IInv, RoutinesFit
  <2>2. CASE q = r /\ d = e
    BY <1>3, <1>5, <1>6, <1>7, <2>2 DEF None
  <2>3. QED
    BY <2>1, <2>2
<1>12. QED
  BY <1>8, <1>10, <1>11 DEF IInv

(* The job is queued, once or twice. *)
LEMMA PushIInv ==
  ASSUME IInv, NEW r \in Requests, NEW e \in Engines, Push(r, e)
  PROVE  IInv'
<1> DEFINE Label == {"incr", "push", "wait", "send", "finish", "done"}
<1>1. /\ tasks \in [Engines -> Seq(Jobs)] /\ faults \in 0 .. MaxFaults
      /\ pc \in [Requests -> [Engines -> Label]]
      /\ stage[r] = "open" /\ pc[r][e] = "push"
      /\ id[r][e] \in Jobs
  <2>1. id[r][e] \in 0 .. MaxJobs /\ id[r][e] # 0
    BY DEF Push, At, IInv, TypeOK, RoutinesFit, None
  <2>2. id[r][e] \in Jobs
    BY <2>1, BoundAssumption DEF Jobs
  <2>3. QED
    BY <2>2 DEF Push, At, IInv, TypeOK
<1>2. tasks' \in [Engines -> Seq(Jobs)]
  <2>1. /\ Append(tasks[e], id[r][e]) \in Seq(Jobs)
        /\ tasks[e] \o <<id[r][e], id[r][e]>> \in Seq(Jobs)
    BY <1>1
  <2>2. QED
    BY <1>1, <2>1 DEF Push
<1>3. faults' \in 0 .. MaxFaults
  BY <1>1, BoundAssumption DEF Push, Fault
<1>4. /\ pc' \in [Requests -> [Engines -> Label]] /\ pc'[r][e] = "wait"
      /\ \A q \in Requests, d \in Engines : q # r \/ d # e => pc'[q][d] = pc[q][d]
  <2>1. pc' = [pc EXCEPT ![r][e] = "wait"]
    BY DEF Push
  <2>2. QED
    BY <1>1, <2>1, SetEntry
<1>5. /\ counter' = counter /\ results' = results /\ stage' = stage /\ sent' = sent
      /\ id' = id /\ outcome' = outcome /\ job' = job
  BY DEF Push, handler
<1>6. TypeOK'
  BY <1>2, <1>3, <1>4, <1>5, Zenon DEF IInv, TypeOK
<1>7. NoSharedResultKey'
  BY <1>5 DEF IInv, NoSharedResultKey
<1>8. RoutinesFit'
  <2> SUFFICES ASSUME NEW q \in Requests, NEW d \in Engines
               PROVE  /\ id'[q][d] <= counter'[d]
                      /\ pc'[q][d] \in {"push", "wait"} => id'[q][d] # None
                      /\ pc'[q][d] \in {"send", "finish", "done"} => outcome'[q][d] # "none"
                      /\ pc'[q][d] \in {"finish", "done"} => d \in sent'[q]
                      /\ stage'[q] = "replied" => pc'[q][d] = "done"
    BY Zenon DEF RoutinesFit
  <2>1. CASE q # r \/ d # e
    <3>1. pc'[q][d] = pc[q][d]
      BY <1>4, <2>1
    <3>2. QED
      BY <1>5, <3>1 DEF IInv, RoutinesFit
  <2>2. CASE q = r /\ d = e
    BY <1>1, <1>4, <1>5, <2>2 DEF IInv, RoutinesFit
  <2>3. QED
    BY <2>1, <2>2
<1>9. QED
  BY <1>6, <1>7, <1>8 DEF IInv

(* The engine moves jobs and results, and no goroutine. *)
LEMMA EngineIInv ==
  ASSUME IInv, NEW e \in Engines, runEngine(e)
  PROVE  IInv'
<1>1. /\ tasks \in [Engines -> Seq(Jobs)] /\ results \in [Engines -> [Jobs -> Nat]]
      /\ job \in [Engines -> 0 .. MaxJobs] /\ faults \in 0 .. MaxFaults
      /\ job[e] # None => job[e] \in Jobs
      /\ None \in 0 .. MaxJobs /\ Jobs \subseteq 0 .. MaxJobs
  BY BoundAssumption DEF IInv, TypeOK, Jobs, None
<1>2. /\ tasks' \in [Engines -> Seq(Jobs)] /\ results' \in [Engines -> [Jobs -> Nat]]
      /\ job' \in [Engines -> 0 .. MaxJobs] /\ faults' \in 0 .. MaxFaults
  <2>1. ASSUME tasks[e] # <<>>
        PROVE  Head(tasks[e]) \in 0 .. MaxJobs /\ Tail(tasks[e]) \in Seq(Jobs)
    <3>1. tasks[e] \in Seq(Jobs) /\ Jobs \subseteq 0 .. MaxJobs
      BY <1>1
    <3>2. Head(tasks[e]) \in Jobs /\ Tail(tasks[e]) \in Seq(Jobs)
      BY <2>1, <3>1, HeadTailProperties
    <3>3. QED
      BY <3>1, <3>2
  <2>2. Fault => faults' \in 0 .. MaxFaults
    BY <1>1, BoundAssumption DEF Fault
  <2>3. CASE PopTask(e) \/ PopTaskLost(e)
    BY <1>1, <2>1, <2>2, <2>3 DEF PopTask, PopTaskLost
  <2>4. CASE PushResult(e)
    <3>1. /\ job[e] \in Jobs
          /\ results[e][job[e]] + 1 \in Nat /\ results[e][job[e]] + 2 \in Nat
      BY <1>1, <2>4 DEF PushResult
    <3>2. \/ results' = [results EXCEPT ![e][job[e]] = results[e][job[e]] + 1]
          \/ results' = [results EXCEPT ![e][job[e]] = results[e][job[e]] + 2]
      BY <2>4 DEF PushResult
    <3>3. results' \in [Engines -> [Jobs -> Nat]]
      <4>1. CASE results' = [results EXCEPT ![e][job[e]] = results[e][job[e]] + 1]
        BY <1>1, <3>1, <4>1, SetEntry
      <4>2. CASE results' = [results EXCEPT ![e][job[e]] = results[e][job[e]] + 2]
        BY <1>1, <3>1, <4>2, SetEntry
      <4>3. QED
        BY <3>2, <4>1, <4>2
    <3>4. QED
      BY <1>1, <2>2, <2>4, <3>3 DEF PushResult
  <2>5. CASE PushResultFails(e)
    BY <1>1, <2>2, <2>5 DEF PushResultFails, redis
  <2>6. QED
    BY <2>3, <2>4, <2>5 DEF runEngine
<1>3. UNCHANGED <<counter, stage, sent, pc, id, outcome>>
  BY DEF runEngine, PopTask, PopTaskLost, PushResult, PushResultFails,
         redis, handler, routine
<1>4. TypeOK'
  BY <1>2, <1>3, Zenon DEF IInv, TypeOK
<1>5. NoSharedResultKey' /\ RoutinesFit'
  BY <1>3, Zenon DEF IInv, NoSharedResultKey, RoutinesFit
<1>6. QED
  BY <1>4, <1>5 DEF IInv

-----------------------------------------------------------------------------
LEMMA NextIInv == ASSUME IInv, [Next]_vars PROVE IInv'
<1>1. ASSUME NEW r \in Requests, Arrive(r) \/ Reply(r) PROVE IInv'
  BY <1>1, StagesIInv, ReplyIInv
<1>2. ASSUME NEW r \in Requests, NEW e \in Engines, goroutine(r, e) \/ WaitFails(r, e)
    PROVE  IInv'
  BY <1>2, IncrIInv, PushIInv, ReturnsIInv, LastStepsIInv
  DEF goroutine, enqueueAndWait
<1>3. ASSUME NEW e \in Engines, runEngine(e) PROVE IInv'
  BY <1>3, EngineIInv
<1>4. CASE Restart
  BY <1>4, StagesIInv
<1>5. CASE UNCHANGED vars
  <2>1. TypeOK'
    BY <1>5 DEF vars, redis, handler, routine, IInv, TypeOK
  <2>2. NoSharedResultKey'
    BY <1>5 DEF vars, routine, IInv, NoSharedResultKey
  <2>3. RoutinesFit'
    BY <1>5 DEF vars, redis, handler, routine, IInv, RoutinesFit
  <2> QED
    BY <2>1, <2>2, <2>3 DEF IInv
<1>6. QED
  BY <1>1, <1>2, <1>3, <1>4, <1>5 DEF Next

(* The invariant holds in every state. *)
THEOREM Inductive == Spec => []IInv
BY InitIInv, NextIInv, PTL DEF Spec

(* Queues hold jobs that were numbered, and every request, engine and       *)
(* goroutine is at one of its places.                                       *)
THEOREM TypeCorrect == Spec => []TypeOK
<1>1. IInv => TypeOK
  BY DEF IInv
<1>2. QED
  BY <1>1, Inductive, PTL

(* No two requests, and no request before and after a restart, ever wait   *)
(* on the same result key (the INCR of enqueueAndWait).                    *)
THEOREM ResultKeysAreUnique == Spec => []NoSharedResultKey
  BY Inductive, PTL DEF IInv

(* handleQuote replies with a line of every engine, and closes its channel *)
(* only when no goroutine can send on it any more.                         *)
THEOREM RepliesAreComplete == Spec => []ReplyIsComplete
<1>1. IInv => ReplyIsComplete
  BY DEF IInv, TypeOK, RoutinesFit, ReplyIsComplete
<1>2. QED
  BY <1>1, Inductive, PTL

-----------------------------------------------------------------------------
(* Every job in its place.  A goroutine that has not called enqueueAndWait *)
(* to its end has no outcome, and one without a number none to read.       *)
PlacesFit ==
  \A r \in Requests, e \in Engines :
    /\ pc[r][e] = "incr" => id[r][e] = None
    /\ pc[r][e] \in {"incr", "push", "wait"} => outcome[r][e] = "none"
    /\ outcome[r][e] = "result" => id[r][e] # None

(* A job that nobody has pushed yet is nowhere; that it stays so until its *)
(* number is handed out is what makes the count of a new job 0.            *)
AccountOf(e, k) ==
  /\ Copies(e, k) <= 1 + faults
  /\ (\A r \in Requests : id[r][e] = k => pc[r][e] = "push") => Copies(e, k) = 0
  /\ faults = 0 => \A r \in Requests :
        id[r][e] = k /\ (pc[r][e] = "wait" \/ outcome[r][e] = "result") => Copies(e, k) = 1

AccountsFit == \A e \in Engines, k \in Jobs : AccountOf(e, k)

Places(s, k)   == {i \in DOMAIN s : s[i] = k}
Answered(e, k) == {r \in Requests : id[r][e] = k /\ outcome[r][e] = "result"}

(* How an RPUSH and a BLPOP change how often a list holds k. *)
LEMMA PlacesAreFinite ==
  ASSUME NEW s \in Seq(Jobs), NEW k
  PROVE  IsFiniteSet(Places(s, k)) /\ Cardinality(Places(s, k)) \in Nat
<1>1. Places(s, k) \subseteq 1 .. Len(s) /\ IsFiniteSet(1 .. Len(s))
  BY FS_Interval DEF Places
<1> QED
  BY <1>1, FS_Subset, FS_CardinalityType

LEMMA PlacesAfterAppend ==
  ASSUME NEW s \in Seq(Jobs), NEW k, NEW x \in Jobs
  PROVE  Cardinality(Places(Append(s, x), k)) =
           Cardinality(Places(s, k)) + (IF x = k THEN 1 ELSE 0)
<1>1. /\ Len(s) \in Nat /\ DOMAIN s = 1 .. Len(s)
      /\ DOMAIN Append(s, x) = 1 .. Len(s) + 1
      /\ \A i \in 1 .. Len(s) : Append(s, x)[i] = s[i]
      /\ Append(s, x)[Len(s) + 1] = x
  OBVIOUS
<1>2. Places(Append(s, x), k) =
        IF x = k THEN Places(s, k) \cup {Len(s) + 1} ELSE Places(s, k)
  <2> DEFINE g == Append(s, x)
  <2> HIDE DEF g
  <2>1. /\ DOMAIN g = DOMAIN s \cup {Len(s) + 1} /\ g[Len(s) + 1] = x
        /\ \A i \in DOMAIN s : g[i] = s[i]
    BY <1>1 DEF g
  <2> QED
    BY <2>1 DEF g, Places
<1>3. Len(s) + 1 \notin Places(s, k)
  BY <1>1 DEF Places
<1>4. /\ IsFiniteSet(Places(s, k)) /\ Cardinality(Places(s, k)) \in Nat
      /\ Cardinality(Places(s, k) \cup {Len(s) + 1}) = Cardinality(Places(s, k)) + 1
  BY <1>3, PlacesAreFinite, FS_AddElement
<1> QED
  BY <1>2, <1>4

LEMMA PlacesAfterTail ==
  ASSUME NEW s \in Seq(Jobs), s # <<>>, NEW k
  PROVE  Cardinality(Places(s, k)) =
           Cardinality(Places(Tail(s), k)) + (IF Head(s) = k THEN 1 ELSE 0)
<1> DEFINE t == Tail(s)
           f == [i \in Places(t, k) |-> i + 1]
<1>1. /\ t \in Seq(Jobs) /\ Len(s) \in Nat /\ Len(s) > 0
      /\ DOMAIN s = 1 .. Len(s) /\ DOMAIN t = 1 .. Len(s) - 1
      /\ \A i \in 1 .. Len(s) - 1 : t[i] = s[i + 1]
      /\ Head(s) = s[1]
  OBVIOUS
<1> HIDE DEF t
<1>2. f \in Bijection(Places(t, k), Places(s, k) \ {1})
  <2>1. \A i \in Places(t, k) : i \in Nat /\ i + 1 \in Places(s, k) \ {1}
    BY <1>1 DEF Places
  <2>2. \A j \in Places(s, k) \ {1} : j - 1 \in Places(t, k) /\ (j - 1) + 1 = j
    <3> TAKE j \in Places(s, k) \ {1}
    <3>1. j \in 2 .. Len(s) /\ s[j] = k
      BY <1>1 DEF Places
    <3>2. j - 1 \in 1 .. Len(s) - 1 /\ (j - 1) + 1 = j
      BY <1>1, <3>1
    <3> QED
      BY <1>1, <3>1, <3>2 DEF Places
  <2>3. f \in Injection(Places(t, k), Places(s, k) \ {1})
    BY <2>1, Fun_IsInj
  <2>4. f \in Surjection(Places(t, k), Places(s, k) \ {1})
    BY <2>1, <2>2, Fun_IsSurj
  <2> QED
    BY <2>3, <2>4 DEF Bijection
<1>3. Cardinality(Places(t, k)) = Cardinality(Places(s, k) \ {1})
  BY <1>1, <1>2, PlacesAreFinite, FS_Bijection DEF ExistsBijection
<1>4. 1 \in Places(s, k) <=> Head(s) = k
  BY <1>1 DEF Places
<1>5. /\ Cardinality(Places(s, k)) \in Nat
      /\ Cardinality(Places(s, k) \ {1}) =
           IF 1 \in Places(s, k) THEN Cardinality(Places(s, k)) - 1
                                 ELSE Cardinality(Places(s, k))
  BY PlacesAreFinite, FS_RemoveElement
<1> QED
  BY <1>3, <1>4, <1>5 DEF t

(* The sum that Copies is, and that a number is answered at most once. *)
PartsFit(e, k) ==
  /\ Cardinality(Places(tasks[e], k)) \in Nat
  /\ results[e][k] \in Nat
  /\ IsFiniteSet(Answered(e, k)) /\ Cardinality(Answered(e, k)) \in Nat
  /\ Copies(e, k) =   Cardinality(Places(tasks[e], k)) + (IF job[e] = k THEN 1 ELSE 0)
                    + results[e][k] + Cardinality(Answered(e, k))
  /\ Copies(e, k) \in Nat

LEMMA Parts == IInv => \A e \in Engines, k \in Jobs : PartsFit(e, k)
<1> SUFFICES ASSUME IInv, NEW e \in Engines, NEW k \in Jobs PROVE PartsFit(e, k)
  OBVIOUS
<1>1. Cardinality(Places(tasks[e], k)) \in Nat
  BY PlacesAreFinite DEF IInv, TypeOK
<1>2. results[e][k] \in Nat
  BY DEF IInv, TypeOK
<1>3. IsFiniteSet(Answered(e, k)) /\ Cardinality(Answered(e, k)) \in Nat
  <2>1. k # None
    BY DEF Jobs, None
  <2>2. CASE Answered(e, k) = {}
    BY <2>2, FS_EmptySet
  <2>3. ASSUME NEW r \in Answered(e, k)
        PROVE  IsFiniteSet(Answered(e, k)) /\ Cardinality(Answered(e, k)) \in Nat
    <3>1. Answered(e, k) = {r}
      BY <2>1, <2>3 DEF Answered, IInv, NoSharedResultKey
    <3>2. IsFiniteSet({r}) /\ Cardinality({r}) = 1
      BY FS_Singleton
    <3> QED
      BY <3>1, <3>2
  <2> QED
    BY <2>2, <2>3
<1>4. Copies(e, k) = Cardinality(Places(tasks[e], k)) + (IF job[e] = k THEN 1 ELSE 0)
                       + results[e][k] + Cardinality(Answered(e, k))
  BY DEF Copies, Places, Answered
<1> QED
  BY <1>1, <1>2, <1>3, <1>4 DEF PartsFit

LEMMA PartsAfter ==
  ASSUME IInv, [Next]_vars
  PROVE  \A e \in Engines, k \in Jobs : PartsFit(e, k)'
<1>1. IInv'
  BY NextIInv
<1>2. (IInv => \A e \in Engines, k \in Jobs : PartsFit(e, k))'
  BY Parts, PTL
<1> QED
  BY <1>1, <1>2

(* A step that moves a copy, or adds or drops one by a fault, keeps the    *)
(* account, if no goroutine starts to wait.                                *)
LEMMA Kept ==
  ASSUME IInv, [Next]_vars, NEW e \in Engines, NEW k \in Jobs, AccountOf(e, k),
         \A r \in Requests : id[r][e] = k =>
           id'[r][e] = k /\ (pc'[r][e] = "push" => pc[r][e] = "push"),
         \A r \in Requests :
           id'[r][e] = k /\ (pc'[r][e] = "wait" \/ outcome'[r][e] = "result") =>
             id[r][e] = k /\ (pc[r][e] = "wait" \/ outcome[r][e] = "result"),
         \/ Copies(e, k)' = Copies(e, k) /\ (faults' = faults \/ faults' = faults + 1)
         \/ /\ faults' = faults + 1 /\ Copies(e, k)' <= Copies(e, k) + 1
            /\ Copies(e, k) = 0 => Copies(e, k)' = 0
  PROVE  AccountOf(e, k)'
<1>1. Copies(e, k) \in Nat /\ Copies(e, k)' \in Nat /\ faults \in Nat
  BY Parts, PartsAfter, BoundAssumption DEF IInv, TypeOK, PartsFit
<1> QED
  BY <1>1 DEF AccountOf

LEMMA SameAnswers ==
  ASSUME NEW e, NEW k,
         \A r \in Requests : (id'[r][e] = k /\ outcome'[r][e] = "result")
                              <=> (id[r][e] = k /\ outcome[r][e] = "result")
  PROVE  Answered(e, k)' = Answered(e, k)
BY DEF Answered

(* Nothing in Redis or in an engine's hand changes, and nobody has read    *)
(* anything.                                                               *)
LEMMA SameCopies ==
  ASSUME IInv, [Next]_vars, NEW e \in Engines, NEW k \in Jobs,
         tasks'[e] = tasks[e], job'[e] = job[e], results'[e][k] = results[e][k],
         \A r \in Requests : (id'[r][e] = k /\ outcome'[r][e] = "result")
                              <=> (id[r][e] = k /\ outcome[r][e] = "result")
  PROVE  Copies(e, k)' = Copies(e, k)
<1>1. Answered(e, k)' = Answered(e, k)
  BY SameAnswers
<1> QED
  BY <1>1, Parts, PartsAfter DEF PartsFit

LEMMA EngineAccounts ==
  ASSUME IInv, AccountsFit, [Next]_vars, NEW e \in Engines, runEngine(e)
  PROVE  AccountsFit'
<1> USE DEF PartsFit
<1>1. UNCHANGED <<id, pc, outcome>> /\ \A d \in Engines, k \in Jobs : Answered(d, k)' = Answered(d, k)
  <2>1. UNCHANGED <<id, pc, outcome>>
    BY DEF runEngine, PopTask, PopTaskLost, PushResult, PushResultFails, routine
  <2> QED
    BY <2>1, SameAnswers
<1>2. job[e] # None => job[e] \in Jobs
  BY BoundAssumption DEF IInv, TypeOK, Jobs, None
<1>3. ASSUME NEW k \in Jobs
      PROVE  \/ Copies(e, k)' = Copies(e, k) /\ (faults' = faults \/ faults' = faults + 1)
             \/ /\ faults' = faults + 1 /\ Copies(e, k)' <= Copies(e, k) + 1
                /\ Copies(e, k) = 0 => Copies(e, k)' = 0
  <2> k # None
    BY DEF Jobs, None
  <2>1. PartsFit(e, k) /\ PartsFit(e, k)'
    BY Parts, PartsAfter
  <2>2. ASSUME tasks[e] # <<>>, tasks'[e] = Tail(tasks[e])
        PROVE  Cardinality(Places(tasks[e], k)) =
                 Cardinality(Places(tasks'[e], k)) + (IF Head(tasks[e]) = k THEN 1 ELSE 0)
    BY <2>2, PlacesAfterTail DEF IInv, TypeOK
  <2>3. CASE PopTask(e)
    <3>1. /\ tasks[e] # <<>> /\ tasks'[e] = Tail(tasks[e])
          /\ job[e] = None /\ job'[e] = Head(tasks[e])
          /\ results' = results /\ faults' = faults
      BY <2>3 DEF PopTask, IInv, TypeOK
    <3> QED
      BY <1>1, <2>1, <2>2, <3>1
  <2>4. CASE PopTaskLost(e)
    <3>1. /\ tasks[e] # <<>> /\ tasks'[e] = Tail(tasks[e])
          /\ job' = job /\ results' = results /\ faults' = faults + 1
      BY <2>4 DEF PopTaskLost, Fault, IInv, TypeOK
    <3> QED
      BY <1>1, <2>1, <2>2, <3>1
  <2>5. CASE PushResult(e)
    <3>1. /\ tasks' = tasks /\ job[e] # None /\ job'[e] = None
      BY <2>5 DEF PushResult, IInv, TypeOK
    <3>2. \/ faults' = faults /\ results'[e][k] = results[e][k] + (IF job[e] = k THEN 1 ELSE 0)
          \/ faults' = faults + 1 /\ results'[e][k] = results[e][k] + (IF job[e] = k THEN 2 ELSE 0)
      <4>1. PICK n \in 1 .. 2 : /\ results' = [results EXCEPT ![e][job[e]] = results[e][job[e]] + n]
                               /\ faults' = faults + (n - 1)
        BY <2>5 DEF PushResult, Fault, IInv, TypeOK
      <4>2. job[e] \in Jobs /\ results[e][job[e]] + n \in Nat
        BY <1>2, <3>1 DEF IInv, TypeOK
      <4>3. /\ results'[e][job[e]] = results[e][job[e]] + n
            /\ job[e] # k => results'[e][k] = results[e][k]
        BY <4>1, <4>2, SetEntry DEF IInv, TypeOK
      <4>4. results'[e][k] = results[e][k] + (IF job[e] = k THEN n ELSE 0)
        BY <2>1, <4>3
      <4>5. (n = 1 /\ faults' = faults) \/ (n = 2 /\ faults' = faults + 1)
        BY <4>1 DEF IInv, TypeOK
      <4> QED
        BY <4>4, <4>5
    <3> QED
      BY <1>1, <2>1, <3>1, <3>2
  <2>6. CASE PushResultFails(e)
    <3>1. /\ tasks' = tasks /\ results' = results /\ job'[e] = None
          /\ faults' = faults + 1
      BY <2>6 DEF PushResultFails, redis, Fault, IInv, TypeOK
    <3> QED
      BY <1>1, <2>1, <3>1
  <2> QED
    BY <2>3, <2>4, <2>5, <2>6 DEF runEngine
<1>4. ASSUME NEW d \in Engines, d # e, NEW k \in Jobs
      PROVE  Copies(d, k)' = Copies(d, k) /\ (faults' = faults \/ faults' = faults + 1)
  <2>1. tasks'[d] = tasks[d] /\ job'[d] = job[d] /\ (faults' = faults \/ faults' = faults + 1)
    BY <1>4 DEF runEngine, PopTask, PopTaskLost, PushResult, PushResultFails, Fault, redis,
                IInv, TypeOK
  <2>2. results'[d] = results[d]
    BY <1>4 DEF runEngine, PopTask, PopTaskLost, PushResult, PushResultFails, redis,
                IInv, TypeOK
  <2> QED
    BY <1>1, <2>1, <2>2, Parts, PartsAfter
<1> QED
  BY <1>1, <1>3, <1>4, Kept DEF AccountsFit

(* The job in hand goes with the process, and what was read has been read. *)
LEMMA StagesAccounts ==
  ASSUME IInv, AccountsFit, [Next]_vars,
         Restart \/ (\E r \in Requests : Arrive(r) \/ Reply(r)) \/ UNCHANGED vars
  PROVE  AccountsFit'
<1>1. /\ UNCHANGED <<id, pc, outcome, tasks, results>>
      /\ \/ faults' = faults /\ job' = job
         \/ faults' = faults + 1 /\ \A e \in Engines : job'[e] = None
  BY DEF Restart, Fault, Arrive, Reply, vars, redis, routine
<1>2. ASSUME NEW e \in Engines, NEW k \in Jobs
      PROVE  \/ Copies(e, k)' = Copies(e, k) /\ faults' = faults
             \/ faults' = faults + 1 /\ Copies(e, k)' <= Copies(e, k)
  <2>1. Answered(e, k)' = Answered(e, k) /\ k # None
    BY <1>1, SameAnswers DEF Jobs, None
  <2>2. PartsFit(e, k) /\ PartsFit(e, k)'
    BY Parts, PartsAfter
  <2> QED
    BY <1>1, <2>1, <2>2 DEF PartsFit
<1>3. \A e \in Engines, k \in Jobs : Copies(e, k) \in Nat /\ Copies(e, k)' \in Nat
  BY Parts, PartsAfter DEF PartsFit
<1>4. ASSUME NEW e \in Engines, NEW k \in Jobs
      PROVE  \/ Copies(e, k)' = Copies(e, k) /\ (faults' = faults \/ faults' = faults + 1)
             \/ /\ faults' = faults + 1 /\ Copies(e, k)' <= Copies(e, k) + 1
                /\ Copies(e, k) = 0 => Copies(e, k)' = 0
  BY <1>2, <1>3
<1> QED
  BY <1>1, <1>4, Kept DEF AccountsFit

(* A goroutine moves, and the places of its job do not. *)
LEMMA QuietAccounts ==
  ASSUME IInv, AccountsFit, [Next]_vars, UNCHANGED <<tasks, results, job>>,
         faults' = faults \/ faults' = faults + 1,
         \A q \in Requests, d \in Engines :
           /\ id'[q][d] = id[q][d] \/ (id[q][d] = None /\ pc'[q][d] = "push")
           /\ id'[q][d] = id[q][d] => (pc'[q][d] \in {"push", "wait"} => pc'[q][d] = pc[q][d])
           /\ id'[q][d] # id[q][d] => outcome[q][d] # "result"
           /\ outcome'[q][d] = "result" <=> outcome[q][d] = "result"
  PROVE  AccountsFit'
<1> SUFFICES ASSUME NEW d \in Engines, NEW k \in Jobs
             PROVE  AccountOf(d, k)'
  BY DEF AccountsFit
<1>1. k # None
  BY DEF Jobs, None
<1>2. Copies(d, k)' = Copies(d, k)
  BY <1>1, SameCopies
<1> QED
  BY <1>1, <1>2, Kept DEF AccountsFit

(* enqueueAndWait returns: where the goroutine is, and what it has. *)
LEMMA AnswerSets ==
  ASSUME IInv, NEW r \in Requests, NEW e \in Engines, NEW o \in {"result", "error"},
         Answer(r, e, o)
  PROVE  /\ pc'[r][e] = "send" /\ outcome'[r][e] = o
         /\ \A q \in Requests, d \in Engines : q # r \/ d # e =>
              pc'[q][d] = pc[q][d] /\ outcome'[q][d] = outcome[q][d]
<1>1. /\ pc' = [pc EXCEPT ![r][e] = "send"] /\ outcome' = [outcome EXCEPT ![r][e] = o]
      /\ pc \in [Requests -> [Engines -> {"incr", "push", "wait", "send", "finish", "done"}]]
      /\ outcome \in [Requests -> [Engines -> {"none", "result", "error"}]]
  BY DEF Answer, IInv, TypeOK
<1> QED
  BY <1>1, SetEntry

LEMMA LastStepsAccounts ==
  ASSUME IInv, PlacesFit, AccountsFit, [Next]_vars, NEW r \in Requests, NEW e \in Engines,
         Send(r, e) \/ Finish(r, e) \/ IncrFails(r, e) \/ TimeOut(r, e)
  PROVE  AccountsFit' /\ PlacesFit'
<1>1. UNCHANGED <<tasks, results, job, faults, id>>
  BY DEF Send, Finish, IncrFails, TimeOut, redis
<1>2. /\ pc'[r][e] \in {"send", "finish", "done"}
      /\ \A q \in Requests, d \in Engines : q # r \/ d # e =>
           pc'[q][d] = pc[q][d] /\ outcome'[q][d] = outcome[q][d]
      /\ outcome'[r][e] = "result" <=> outcome[r][e] = "result"
  <2>1. CASE Send(r, e) \/ Finish(r, e)
    BY <2>1 DEF Send, Finish, IInv, TypeOK
  <2>2. CASE IncrFails(r, e) \/ TimeOut(r, e)
    BY <2>2, AnswerSets DEF IncrFails, TimeOut, At, PlacesFit
  <2> QED
    BY <2>1, <2>2
<1>3. AccountsFit'
  BY <1>1, <1>2, QuietAccounts
<1>4. PlacesFit'
  BY <1>1, <1>2 DEF PlacesFit
<1> QED
  BY <1>3, <1>4

LEMMA IncrAccounts ==
  ASSUME IInv, PlacesFit, AccountsFit, [Next]_vars, NEW r \in Requests, NEW e \in Engines,
         Incr(r, e)
  PROVE  AccountsFit' /\ PlacesFit'
<1>1. /\ UNCHANGED <<tasks, results, job, outcome>> /\ pc[r][e] = "incr"
      /\ faults' = faults \/ faults' = faults + 1
      /\ pc' = [pc EXCEPT ![r][e] = "push"]
      /\ id' = [id EXCEPT ![r][e] = counter'[e]]
  BY DEF Incr, Fault, At
<1>2. /\ pc'[r][e] = "push"
      /\ \A q \in Requests, d \in Engines : q # r \/ d # e =>
           pc'[q][d] = pc[q][d] /\ id'[q][d] = id[q][d]
  BY <1>1 DEF IInv, TypeOK
<1>3. id[r][e] = None /\ outcome[r][e] = "none"
  BY <1>1 DEF PlacesFit
<1>4. AccountsFit'
  <2>1. ASSUME NEW q \in Requests, NEW d \in Engines
        PROVE  /\ id'[q][d] = id[q][d] \/ (id[q][d] = None /\ pc'[q][d] = "push")
               /\ id'[q][d] = id[q][d] => (pc'[q][d] \in {"push", "wait"} => pc'[q][d] = pc[q][d])
               /\ id'[q][d] # id[q][d] => outcome[q][d] # "result"
               /\ outcome'[q][d] = "result" <=> outcome[q][d] = "result"
    <3>1. id'[r][e] # None
      BY <1>2, NextIInv DEF IInv, RoutinesFit
    <3> QED
      BY <1>1, <1>2, <1>3, <3>1
  <2> QED
    BY <1>1, <2>1, QuietAccounts
<1>5. PlacesFit'
  BY <1>1, <1>2, <1>3 DEF PlacesFit
<1> QED
  BY <1>4, <1>5

(* What a goroutine does with its own job is nothing to the others. *)
LEMMA OthersAccounts ==
  ASSUME IInv, AccountsFit, [Next]_vars, NEW r \in Requests, NEW e \in Engines,
         UNCHANGED <<id, job>>, faults' = faults \/ faults' = faults + 1,
         \A q \in Requests, d \in Engines : q # r \/ d # e =>
           pc'[q][d] = pc[q][d] /\ outcome'[q][d] = outcome[q][d],
         NEW d \in Engines, NEW k \in Jobs, d # e \/ k # id[r][e],
         Cardinality(Places(tasks'[d], k)) = Cardinality(Places(tasks[d], k)),
         results'[d][k] = results[d][k]
  PROVE  AccountOf(d, k)'
<1>1. Answered(d, k)' = Answered(d, k)
  BY SameAnswers
<1>2. Copies(d, k)' = Copies(d, k)
  BY <1>1, Parts, PartsAfter DEF PartsFit
<1> QED
  BY <1>2, Kept DEF AccountsFit

(* The job goes on the list, once or twice, or does not. *)
LEMMA PushAccounts ==
  ASSUME IInv, PlacesFit, AccountsFit, [Next]_vars, NEW r \in Requests, NEW e \in Engines,
         Push(r, e) \/ PushFails(r, e)
  PROVE  AccountsFit' /\ PlacesFit'
<1> SUFFICES ASSUME NEW j, j = id[r][e]
             PROVE  AccountsFit' /\ PlacesFit'
  OBVIOUS
<1>1. /\ UNCHANGED <<results, job, id>> /\ pc[r][e] = "push"
      /\ tasks \in [Engines -> Seq(Jobs)]
      /\ outcome[r][e] = "none"
  BY DEF Push, PushFails, At, IInv, TypeOK, PlacesFit
<1>2. j \in Jobs /\ j # None
  BY <1>1, BoundAssumption DEF IInv, TypeOK, RoutinesFit, Jobs, None
<1>3. /\ outcome'[r][e] # "result"
      /\ pc'[r][e] = "send" \/ (pc'[r][e] = "wait" /\ outcome'[r][e] = "none")
      /\ \A q \in Requests, d \in Engines : q # r \/ d # e =>
           pc'[q][d] = pc[q][d] /\ outcome'[q][d] = outcome[q][d]
  <2>1. CASE Push(r, e)
    BY <1>1, <2>1 DEF Push, IInv, TypeOK
  <2>2. CASE PushFails(r, e)
    BY <2>2, AnswerSets DEF PushFails
  <2> QED
    BY <2>1, <2>2
<1>4. \A d \in Engines : d # e => tasks'[d] = tasks[d]
  BY <1>1 DEF Push, PushFails
<1>5. PICK n \in 0 .. 2 :
        /\ \A k \in Jobs : Cardinality(Places(tasks'[e], k)) =
                             Cardinality(Places(tasks[e], k)) + (IF k = j THEN n ELSE 0)
        /\ n = 2 => faults' = faults + 1
        /\ n # 2 => faults' = faults
        /\ pc'[r][e] = "wait" => n # 0
  <2>1. tasks[e] \in Seq(Jobs) /\ Append(tasks[e], j) \in Seq(Jobs)
    BY <1>1, <1>2
  <2>2. \A k \in Jobs : Cardinality(Places(tasks[e], k)) \in Nat
    BY <2>1, PlacesAreFinite
  <2>3. \A k \in Jobs : Cardinality(Places(Append(tasks[e], j), k)) =
                         Cardinality(Places(tasks[e], k)) + (IF k = j THEN 1 ELSE 0)
    BY <1>2, <2>1, PlacesAfterAppend
  <2>4. \A k \in Jobs : Cardinality(Places(Append(Append(tasks[e], j), j), k)) =
                         Cardinality(Places(tasks[e], k)) + (IF k = j THEN 2 ELSE 0)
    <3>1. \A k \in Jobs : Cardinality(Places(Append(Append(tasks[e], j), j), k)) =
             Cardinality(Places(Append(tasks[e], j), k)) + (IF k = j THEN 1 ELSE 0)
      BY <1>2, <2>1, PlacesAfterAppend
    <3> QED
      BY <2>2, <2>3, <3>1
  <2>5. tasks[e] \o <<j, j>> = Append(Append(tasks[e], j), j)
    BY <1>2, <2>1
  <2>6. \/ tasks'[e] = tasks[e] /\ faults' = faults /\ pc'[r][e] = "send"
        \/ tasks'[e] = Append(tasks[e], j) /\ faults' = faults
        \/ tasks'[e] = Append(Append(tasks[e], j), j) /\ faults' = faults + 1
    <3>1. CASE Push(r, e)
      BY <1>1, <2>5, <3>1 DEF Push, Fault
    <3>2. CASE PushFails(r, e)
      <4>1. pc'[r][e] = "send"
        BY <3>2, AnswerSets DEF PushFails
      <4> QED
        BY <1>1, <3>2, <4>1 DEF PushFails
    <3> QED
      BY <3>1, <3>2
  <2>7. CASE tasks'[e] = tasks[e] /\ faults' = faults /\ pc'[r][e] = "send"
    BY <2>2, <2>7
  <2>8. CASE tasks'[e] = Append(tasks[e], j) /\ faults' = faults
    BY <2>3, <2>8
  <2>9. CASE tasks'[e] = Append(Append(tasks[e], j), j) /\ faults' = faults + 1
    BY <2>4, <2>9
  <2> QED
    BY <2>6, <2>7, <2>8, <2>9
<1>6. AccountOf(e, j)'
  <2>1. \A q \in Requests : id[q][e] = j => q = r
    BY <1>2 DEF IInv, NoSharedResultKey
  <2>2. Copies(e, j) = 0
    BY <1>1, <1>2, <2>1 DEF AccountsFit, AccountOf
  <2>3. Answered(e, j)' = Answered(e, j)
    BY <1>1, <1>3, SameAnswers
  <2>4. Copies(e, j)' = n /\ faults \in Nat
    <3>1. PartsFit(e, j) /\ PartsFit(e, j)'
      BY <1>2, Parts, PartsAfter
    <3>2. Cardinality(Places(tasks'[e], j)) = Cardinality(Places(tasks[e], j)) + n
      BY <1>2, <1>5
    <3>3. Copies(e, j)' = Copies(e, j) + n
      <4>1. Copies(e, j)' =   Cardinality(Places(tasks'[e], j)) + (IF job[e] = j THEN 1 ELSE 0)
                            + results[e][j] + Cardinality(Answered(e, j))
        BY <1>1, <2>3, <3>1 DEF PartsFit
      <4>2. /\ Copies(e, j) =  Cardinality(Places(tasks[e], j)) + (IF job[e] = j THEN 1 ELSE 0)
                            + results[e][j] + Cardinality(Answered(e, j))
            /\ Cardinality(Places(tasks[e], j)) \in Nat /\ results[e][j] \in Nat
            /\ Cardinality(Answered(e, j)) \in Nat
        BY <3>1 DEF PartsFit
      <4> QED
        BY <3>2, <4>1, <4>2
    <3> QED
      BY <2>2, <3>3, BoundAssumption DEF IInv, TypeOK
  <2> QED
    BY <1>1, <1>3, <1>5, <2>1, <2>4 DEF AccountOf
<1>7. ASSUME NEW d \in Engines, NEW k \in Jobs, d # e \/ k # j
      PROVE  AccountOf(d, k)'
  <2>1. Cardinality(Places(tasks'[d], k)) = Cardinality(Places(tasks[d], k))
    BY <1>4, <1>5, <1>7, Parts DEF PartsFit
  <2> QED
    BY <1>1, <1>3, <1>5, <1>7, <2>1, OthersAccounts
<1>8. PlacesFit'
  BY <1>1, <1>2, <1>3 DEF PlacesFit
<1> QED
  BY <1>2, <1>6, <1>7, <1>8 DEF AccountsFit

(* The result is read, or lost with an error. *)
LEMMA PopAccounts ==
  ASSUME IInv, PlacesFit, AccountsFit, [Next]_vars, NEW r \in Requests, NEW e \in Engines,
         PopResult(r, e) \/ WaitFails(r, e)
  PROVE  AccountsFit' /\ PlacesFit'
<1> SUFFICES ASSUME NEW j, j = id[r][e]
             PROVE  AccountsFit' /\ PlacesFit'
  OBVIOUS
<1>1. /\ UNCHANGED <<tasks, job, id, faults>> /\ pc[r][e] = "wait"
      /\ results \in [Engines -> [Jobs -> Nat]]
      /\ outcome[r][e] = "none"
  BY DEF PopResult, WaitFails, At, IInv, TypeOK, PlacesFit
<1>2. j \in Jobs /\ j # None
  BY <1>1, BoundAssumption DEF IInv, TypeOK, RoutinesFit, Jobs, None
<1>3. /\ pc'[r][e] = "send" /\ outcome'[r][e] \in {"result", "error"}
      /\ outcome'[r][e] = "result" <=> PopResult(r, e)
      /\ \A q \in Requests, d \in Engines : q # r \/ d # e =>
           pc'[q][d] = pc[q][d] /\ outcome'[q][d] = outcome[q][d]
  <2>1. CASE Answer(r, e, "result") /\ PopResult(r, e)
    BY <2>1, AnswerSets
  <2>2. CASE Answer(r, e, "error") /\ WaitFails(r, e)
    <3>1. outcome' = [outcome EXCEPT ![r][e] = "error"] /\ outcome'[r][e] = "error"
      BY <2>2, AnswerSets DEF Answer
    <3>2. ~PopResult(r, e)
      BY <3>1, AnswerSets DEF PopResult
    <3> QED
      BY <2>2, <3>1, <3>2, AnswerSets
  <2> QED
    BY <2>1, <2>2 DEF PopResult, WaitFails
<1>4. \A d \in Engines, k \in Jobs : d # e \/ k # j => results'[d][k] = results[d][k]
  BY <1>1, <1>2 DEF PopResult, WaitFails
<1>5. /\ results'[e][j] = results[e][j] \/ results'[e][j] = results[e][j] - 1
      /\ PopResult(r, e) => results'[e][j] = results[e][j] - 1
  BY <1>1, <1>2 DEF PopResult, WaitFails
<1>6. \A q \in Requests : id[q][e] = j => q = r
  BY <1>2 DEF IInv, NoSharedResultKey
<1>7. /\ Answered(e, j) = {}
      /\ Answered(e, j)' = IF PopResult(r, e) THEN {r} ELSE {}
  BY <1>1, <1>3, <1>6 DEF Answered
<1>8. Cardinality({r}) = 1 /\ Cardinality({}) = 0
  BY FS_Singleton, FS_EmptySet
<1>9. AccountOf(e, j)'
  <2>1. Copies(e, j)' = Copies(e, j) \/ (Copies(e, j)' <= Copies(e, j) /\ ~PopResult(r, e))
    <3>1. PartsFit(e, j) /\ PartsFit(e, j)'
      BY <1>2, Parts, PartsAfter
    <3>2. /\ Cardinality(Answered(e, j)) = 0
          /\ Cardinality(Answered(e, j)') = IF PopResult(r, e) THEN 1 ELSE 0
      BY <1>7, <1>8
    <3> QED
      BY <1>1, <1>5, <3>1, <3>2 DEF PartsFit
  <2>2. Copies(e, j) \in Nat /\ Copies(e, j)' \in Nat /\ faults \in Nat
    BY <1>2, Parts, PartsAfter, BoundAssumption DEF PartsFit, IInv, TypeOK
  <2>3. AccountOf(e, j)
    BY <1>2 DEF AccountsFit
  <2> QED
    BY <1>1, <1>3, <1>6, <2>1, <2>2, <2>3 DEF AccountOf
<1>10. ASSUME NEW d \in Engines, NEW k \in Jobs, d # e \/ k # j
       PROVE  AccountOf(d, k)'
  BY <1>1, <1>3, <1>4, <1>10, OthersAccounts
<1>11. PlacesFit'
  BY <1>1, <1>2, <1>3 DEF PlacesFit
<1> QED
  BY <1>2, <1>9, <1>10, <1>11 DEF AccountsFit

LEMMA OthersPlaces ==
  ASSUME PlacesFit, UNCHANGED <<pc, id, outcome>>
  PROVE  PlacesFit'
BY DEF PlacesFit

LEMMA InitAccounts == ASSUME Init PROVE PlacesFit /\ AccountsFit
<1>1. PlacesFit
  BY DEF Init, PlacesFit
<1>2. ASSUME NEW e \in Engines, NEW k \in Jobs
      PROVE  Copies(e, k) = 0
  <2>1. Places(tasks[e], k) = {} /\ Answered(e, k) = {} /\ results[e][k] = 0 /\ job[e] # k
    BY DEF Init, Places, Answered, Jobs, None
  <2> QED
    <3>1. PartsFit(e, k) /\ Cardinality({}) = 0
      BY InitIInv, Parts, FS_EmptySet
    <3> QED
      BY <2>1, <3>1 DEF PartsFit
<1>3. AccountsFit
  BY <1>2 DEF AccountsFit, AccountOf, Init, None, Jobs
<1> QED
  BY <1>1, <1>3

(* Every job of a queue is accounted for: without a fault it is in exactly *)
(* one place from the RPUSH to the answer, and every retry of a command    *)
(* whose reply was lost adds at most one copy, whoever dies in between.    *)
THEOREM EveryJobAccounted == Spec => []JobsAccounted
<1> DEFINE Accounts == PlacesFit /\ AccountsFit
<1>1. Init => Accounts
  BY InitAccounts
<1>2. IInv /\ Accounts /\ [Next]_vars => Accounts'
  <2> SUFFICES ASSUME IInv, Accounts, [Next]_vars PROVE Accounts'
    OBVIOUS
  <2>1. ASSUME NEW r \in Requests, NEW e \in Engines, goroutine(r, e) \/ WaitFails(r, e)
        PROVE  Accounts'
    BY <2>1, IncrAccounts, PushAccounts, PopAccounts, LastStepsAccounts
    DEF goroutine, enqueueAndWait
  <2>2. ASSUME NEW e \in Engines, runEngine(e) PROVE Accounts'
    <3>1. UNCHANGED <<pc, id, outcome>>
      BY <2>2 DEF runEngine, PopTask, PopTaskLost, PushResult, PushResultFails, routine
    <3> QED
      BY <2>2, <3>1, EngineAccounts, OthersPlaces
  <2>3. CASE Restart \/ (\E r \in Requests : Arrive(r) \/ Reply(r)) \/ UNCHANGED vars
    <3>1. UNCHANGED <<pc, id, outcome>>
      BY <2>3 DEF Restart, Arrive, Reply, vars, routine
    <3> QED
      BY <2>3, <3>1, StagesAccounts, OthersPlaces
  <2> QED
    BY <2>1, <2>2, <2>3 DEF Next
<1>3. IInv /\ Accounts => JobsAccounted
  <2> SUFFICES ASSUME IInv, Accounts, NEW e \in Engines PROVE
         /\ \A k \in Jobs : Copies(e, k) <= 1 + faults
         /\ faults = 0 => \A r \in Requests : id[r][e] # None =>
              /\ pc[r][e] = "push" => Copies(e, id[r][e]) = 0
              /\ pc[r][e] = "wait" \/ outcome[r][e] = "result" => Copies(e, id[r][e]) = 1
    BY DEF JobsAccounted
  <2>1. \A r \in Requests : id[r][e] # None =>
          id[r][e] \in Jobs /\ \A q \in Requests : id[q][e] = id[r][e] => q = r
    BY BoundAssumption DEF IInv, TypeOK, NoSharedResultKey, Jobs, None
  <2> QED
    BY <2>1 DEF AccountsFit, AccountOf
<1> QED
  BY <1>1, <1>2, <1>3, Inductive, PTL DEF Spec
=============================================================================
