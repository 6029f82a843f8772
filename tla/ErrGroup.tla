------------------------------- MODULE ErrGroup -------------------------------
(***************************************************************************)
(* fetchAll and fetchWithLimit of examples/errgroup: a goroutine per id    *)
(* under errgroup's limit, each writing its own slot of the results, and   *)
(* the first error cancelling the context the others share.                *)
(*                                                                         *)
(* A fetch fails only because its context has ended, which the caller's    *)
(* context may do at any time.                                             *)
(***************************************************************************)
EXTENDS Integers, FiniteSets

CONSTANTS MaxIds, Limits   \* bound: len(ids), and the limits tried

VARIABLES
  call,          \* "idle", "fetchAll" or "fetchWithLimit"
  ids, limit,    \* the arguments; fetchAll has no limit, which is -1
  parentDone,    \* the caller's context has ended
  groupDone,     \* errgroup has cancelled the derived one
  started,       \* how many goroutines g.Go has started
  fetch,         \* each goroutine: "none", "running", "ok" or "failed"
  slots,         \* the slots of results that were written
  groupErr,      \* errgroup has an error
  answer         \* what the call returned: its results and its error

arguments == <<call, ids, limit>>
group     == <<groupDone, groupErr>>
vars      == <<arguments, parentDone, group, started, fetch, slots, answer>>

Ids       == 1 .. MaxIds
NoAnswer  == [results |-> {}, err |-> FALSE, returned |-> FALSE]
Running   == {i \in Ids : fetch[i] = "running"}

Init ==
  /\ call = "idle" /\ ids = 0 /\ limit = -1
  /\ parentDone = FALSE /\ groupDone = FALSE /\ groupErr = FALSE
  /\ started = 0 /\ fetch = [i \in Ids |-> "none"] /\ slots = {}
  /\ answer = NoAnswer

fetchAll ==
  /\ call = "idle" /\ call' = "fetchAll"
  /\ ids' \in 0 .. MaxIds /\ limit' = -1
  /\ UNCHANGED <<parentDone, group, started, fetch, slots, answer>>

fetchWithLimit ==
  /\ call = "idle" /\ call' = "fetchWithLimit"
  /\ ids' \in 0 .. MaxIds /\ limit' \in Limits
  /\ UNCHANGED <<parentDone, group, started, fetch, slots, answer>>

\* g.Go: waits for a place below the limit; a negative limit is none.
Go ==
  /\ call # "idle" /\ started < ids
  /\ limit < 0 \/ Cardinality(Running) < limit
  /\ started' = started + 1
  /\ fetch' = [fetch EXCEPT ![started + 1] = "running"]
  /\ UNCHANGED <<arguments, parentDone, group, slots, answer>>

\* The timer of fetch.  It may be chosen when the context has ended as well.
Fetched(i) ==
  /\ fetch[i] = "running"
  /\ fetch' = [fetch EXCEPT ![i] = "ok"]
  /\ slots' = slots \cup {i}
  /\ UNCHANGED <<arguments, parentDone, group, started, answer>>

FetchSwallowed(i) ==   \* mutant: the goroutine logs the error and returns nil
  /\ fetch[i] = "running" /\ (parentDone \/ groupDone)
  /\ fetch' = [fetch EXCEPT ![i] = "failed"]
  /\ UNCHANGED <<arguments, parentDone, group, started, slots, answer>>

FetchFails(i) ==
  /\ fetch[i] = "running" /\ (parentDone \/ groupDone)
  /\ fetch' = [fetch EXCEPT ![i] = "failed"]
  /\ groupErr' = TRUE /\ groupDone' = TRUE
  /\ UNCHANGED <<arguments, parentDone, started, slots, answer>>

\* g.Wait, and what the two functions make of it: fetchAll returns no results
\* next to an error, fetchWithLimit returns them as they are.
Wait ==
  /\ call # "idle" /\ started = ids /\ Running = {} /\ ~answer.returned
  /\ answer' = [results  |-> IF call = "fetchAll" /\ groupErr THEN {} ELSE slots,
                err      |-> groupErr,
                returned |-> TRUE]
  /\ groupDone' = TRUE
  /\ UNCHANGED <<arguments, parentDone, groupErr, started, fetch, slots>>

CancelParent ==
  /\ call # "idle" /\ ~parentDone /\ parentDone' = TRUE
  /\ UNCHANGED <<arguments, group, started, fetch, slots, answer>>

-----------------------------------------------------------------------------
Step == Go \/ Wait \/ \E i \in Ids : Fetched(i) \/ FetchFails(i)

Next == fetchAll \/ fetchWithLimit \/ CancelParent \/ Step

\* Goroutines are scheduled and timers fire.
Fairness == WF_vars(Step)

Spec == Init /\ [][Next]_vars /\ Fairness

-----------------------------------------------------------------------------
\* A call returns without an error exactly if every slot was filled; next to an
\* error fetchAll returns nothing, and fetchWithLimit the slots of the fetches
\* that succeeded, the other ones empty.
ResultsFit ==
  answer.returned =>
    /\ answer.err <=> slots # 1 .. ids
    /\ answer.results = IF call = "fetchAll" /\ answer.err THEN {}
                        ELSE {i \in Ids : fetch[i] = "ok"}

\* The call returns, unless a limit of zero keeps g.Go from starting anything.
Ends == <>[](call = "idle" \/ answer.returned \/ (limit = 0 /\ ids > 0))
=============================================================================
