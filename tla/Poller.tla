-------------------------------- MODULE Poller --------------------------------
(***************************************************************************)
(* examples/share-memory-by-communicating: resources go from a feeder over *)
(* pending to the pollers, from them over complete to main, which starts a *)
(* sleeper for each, and from that back to pending.  The pollers report to *)
(* the state monitor.  Every channel is unbuffered: a send and the receive *)
(* it meets are one step.                                                  *)
(***************************************************************************)
EXTENDS Integers, Sequences

CONSTANTS
  Urls,        \* a sequence, each once (3 in the code)
  Pollers,     \* 2 in the code
  MaxErrors,   \* bound: errCount, beyond which it is not counted
  NoUrl

Resources == {Urls[i] : i \in DOMAIN Urls}

VARIABLES
  polling,    \* the program runs
  fed,        \* how many resources the feeder has sent
  poller,     \* each poller: "receive", "poll", "status" or "done"
  holds,      \* the resource it has
  mainHolds,  \* the resource main received and has not yet handed to a sleeper
  sleeping, awake,   \* the sleepers: asleep, or sending to pending
  errCount,
  urlStatus   \* what the monitor knows of each resource

goroutines == <<poller, holds>>
cycle == <<mainHolds, sleeping, awake>>
vars  == <<polling, fed, goroutines, cycle, errCount, urlStatus>>

Init ==
  /\ polling = FALSE /\ fed = 0
  /\ poller = [p \in Pollers |-> "receive"] /\ holds = [p \in Pollers |-> NoUrl]
  /\ mainHolds = NoUrl /\ sleeping = {} /\ awake = {}
  /\ errCount = [r \in Resources |-> 0]
  /\ urlStatus = [r \in Resources |-> "unknown"]

Start ==
  /\ ~polling /\ polling' = TRUE
  /\ UNCHANGED <<fed, goroutines, cycle, errCount, urlStatus>>

-----------------------------------------------------------------------------
(* What Poller receives from pending: the feeder's next or a sleeper's *)
Receives(p, r) ==
  /\ polling /\ poller[p] = "receive"
  /\ poller' = [poller EXCEPT ![p] = "poll"]
  /\ holds' = [holds EXCEPT ![p] = r]
  /\ UNCHANGED <<polling, mainHolds, sleeping, errCount, urlStatus>>

Feed(p) ==
  /\ fed < Len(Urls) /\ Receives(p, Urls[fed + 1])
  /\ fed' = fed + 1
  /\ UNCHANGED awake

Wake(p, r) ==
  /\ r \in awake /\ Receives(p, r)
  /\ awake' = awake \ {r}
  /\ UNCHANGED fed

\* Poll answers a status or an error, which makes the next sleep longer.
Poll(p) ==
  /\ poller[p] = "poll"
  /\ \E n \in {0, errCount[holds[p]] + 1} :
       errCount' = [errCount EXCEPT ![holds[p]] = IF n > MaxErrors THEN @ ELSE n]
  /\ poller' = [poller EXCEPT ![p] = "status"]
  /\ UNCHANGED <<polling, fed, holds, cycle, urlStatus>>

\* The monitor always receives: its other case only prints.
Status(p) ==
  /\ poller[p] = "status"
  /\ urlStatus' = [urlStatus EXCEPT ![holds[p]] = IF errCount[holds[p]] = 0 THEN "ok" ELSE "error"]
  /\ poller' = [poller EXCEPT ![p] = "done"]
  /\ UNCHANGED <<polling, fed, holds, cycle, errCount>>

CompleteBeforeStatus(p) ==   \* mutant: the resource goes out before its status does
  /\ poller[p] = "status" /\ mainHolds = NoUrl
  /\ mainHolds' = holds[p]
  /\ poller' = [poller EXCEPT ![p] = "done"]
  /\ UNCHANGED <<polling, fed, holds, sleeping, awake, errCount, urlStatus>>

Complete(p) ==
  /\ poller[p] = "done" /\ mainHolds = NoUrl
  /\ mainHolds' = holds[p]
  /\ poller' = [poller EXCEPT ![p] = "receive"]
  /\ holds' = [holds EXCEPT ![p] = NoUrl]
  /\ UNCHANGED <<polling, fed, sleeping, awake, errCount, urlStatus>>

-----------------------------------------------------------------------------
SleepHere ==   \* mutant: r.Sleep without go: main sleeps, and waits for a poller
  /\ mainHolds # NoUrl
  /\ IF \E p \in Pollers : holds[p] = mainHolds
       THEN mainHolds' = NoUrl /\ UNCHANGED sleeping
       ELSE /\ mainHolds \notin sleeping \cup awake
            /\ sleeping' = sleeping \cup {mainHolds} /\ UNCHANGED mainHolds
  /\ UNCHANGED <<polling, fed, goroutines, awake, errCount, urlStatus>>

\* go r.Sleep(pending)
StartSleep ==
  /\ mainHolds # NoUrl
  /\ sleeping' = sleeping \cup {mainHolds}
  /\ mainHolds' = NoUrl
  /\ UNCHANGED <<polling, fed, goroutines, awake, errCount, urlStatus>>

EndSleep(r) ==
  /\ r \in sleeping
  /\ sleeping' = sleeping \ {r}
  /\ awake' = awake \cup {r}
  /\ UNCHANGED <<polling, fed, goroutines, mainHolds, errCount, urlStatus>>

-----------------------------------------------------------------------------
PollerStep(p) == Poll(p) \/ Status(p)
Next ==
  \/ Start \/ StartSleep
  \/ \E p \in Pollers : Feed(p) \/ PollerStep(p) \/ Complete(p)
  \/ \E r \in Resources : EndSleep(r) \/ \E p \in Pollers : Wake(p, r)

\* Requests and sleeps end, goroutines are scheduled, and a channel serves
\* those who wait on it in their order, so that nobody waits for ever.
Fairness ==
  /\ WF_vars(StartSleep) /\ SF_vars(\E p \in Pollers : Feed(p))
  /\ \A p \in Pollers : WF_vars(PollerStep(p)) /\ SF_vars(Complete(p))
  /\ \A r \in Resources : WF_vars(EndSleep(r)) /\ SF_vars(\E p \in Pollers : Wake(p, r))

Spec == Init /\ [][Next]_vars /\ Fairness

-----------------------------------------------------------------------------
\* Sharing by communicating: a resource is at most with one of the goroutines,
\* so that nobody else reads or writes its errCount.
OneOwner ==
  \A r \in Resources :
    /\ \A p, q \in Pollers : holds[p] = r /\ holds[q] = r => p = q
    /\ r \in sleeping => r \notin awake
    /\ r \in sleeping \cup awake \cup {mainHolds} => \A p \in Pollers : holds[p] # r
    /\ r = mainHolds => r \notin sleeping \cup awake

\* Every resource is polled again and again: the cycle never stands still.
PolledForEver ==
  \A r \in Resources : []<>(polling => \E p \in Pollers : holds[p] = r /\ poller[p] = "poll")
=============================================================================
