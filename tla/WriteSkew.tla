------------------------------ MODULE WriteSkew -------------------------------
(***************************************************************************)
(* examples/postgres: alice and bob each see two doctors on call and go    *)
(* off call in transactions that overlap, first under read committed and   *)
(* then under serializable, where bob's is rejected with 40001 and run     *)
(* again; then a notification from one session to another.                 *)
(*                                                                         *)
(* Postgres is external.  Taken from it: a read sees what is committed, or *)
(* what was when a serializable transaction first read; of two overlapping *)
(* serializable transactions that each read what the other wrote, one is   *)
(* rejected; a notification reaches the sessions that listen.              *)
(***************************************************************************)
EXTENDS Integers, FiniteSets

VARIABLES
  script,     \* where run is
  level,      \* the isolation level of this writeSkew
  onCall,     \* table doctors, what is committed
  sees,       \* what each transaction's read returned
  off,        \* the updates that are not committed yet
  bobErr,     \* bob was rejected with 40001 at his UPDATE
  listening,  \* the listener's session has subscribed
  inbox       \* notifications that reached it

db   == <<onCall, off>>
tx   == <<sees, bobErr>>
note == <<listening, inbox>>
vars == <<script, level, db, tx, note>>

Doctors == {"alice", "bob"}
Serializable == level = "serializable"
Finished == {"done", "failed"}

Init ==
  /\ script = "idle" /\ level = "read committed"
  /\ onCall = {} /\ off = {} /\ sees = [d \in Doctors |-> 0]
  /\ bobErr = FALSE /\ listening = FALSE /\ inbox = 0

Start ==
  /\ script = "idle" /\ script' = "setup"
  /\ UNCHANGED <<level, db, tx, note>>

setupSchema ==
  /\ script = "setup" /\ script' = "aliceReads"
  /\ onCall' = Doctors
  /\ UNCHANGED <<level, off, tx, note>>

\* Any statement may fail, the commits included, the context's 30 seconds end:
\* run returns, and the deferred rollbacks undo what is not committed.
Fail ==
  /\ script \notin Finished \cup {"idle"}
  /\ script' = "failed" /\ off' = {}
  /\ UNCHANGED <<level, onCall, tx, note>>

-----------------------------------------------------------------------------
(* writeSkew *)
countOnCall(d, next) ==
  /\ sees' = [sees EXCEPT ![d] = Cardinality(onCall)]
  /\ script' = next
  /\ UNCHANGED <<level, db, bobErr, note>>

AliceReads == script = "aliceReads" /\ countOnCall("alice", "bobReads")
BobReads   == script = "bobReads" /\ countOnCall("bob", "aliceUpdates")

AliceUpdates ==
  /\ script = "aliceUpdates" /\ script' = "bobUpdates"
  /\ off' = off \cup {"alice"}
  /\ UNCHANGED <<level, onCall, tx, note>>

BobUpdates ==
  /\ script = "bobUpdates" /\ script' = "aliceCommits"
  /\ off' = off \cup {"bob"}
  /\ UNCHANGED <<level, onCall, tx, note>>

\* The version of Postgres decides whether 40001 comes here or at the commit.
BobUpdateRejected ==
  /\ script = "bobUpdates" /\ Serializable
  /\ script' = "aliceCommits" /\ bobErr' = TRUE
  /\ UNCHANGED <<level, db, sees, note>>

AliceCommits ==
  /\ script = "aliceCommits" /\ script' = "bobCommits"
  /\ onCall' = onCall \ {"alice"} /\ off' = off \ {"alice"}
  /\ UNCHANGED <<level, tx, note>>

BobCommits ==
  /\ script = "bobCommits" /\ ~Serializable
  /\ script' = "check"
  /\ onCall' = onCall \ off /\ off' = {}
  /\ UNCHANGED <<level, tx, note>>

isSerializationFailure ==
  /\ script = "bobCommits" /\ Serializable
  /\ script' = "retry" /\ off' = {} /\ bobErr' = FALSE
  /\ UNCHANGED <<level, onCall, sees, note>>

\* The retry is a transaction of its own, after alice's: it reads what she left.
RetryStale ==   \* mutant: only the UPDATE is tried again
  /\ script = "retry" /\ script' = "check"
  /\ onCall' = IF sees["bob"] <= 1 THEN onCall ELSE onCall \ {"bob"}
  /\ UNCHANGED <<level, off, tx, note>>

retryBob ==
  /\ script = "retry" /\ script' = "check"
  /\ sees' = [sees EXCEPT !["bob"] = Cardinality(onCall)]
  /\ onCall' = IF sees'["bob"] <= 1 THEN onCall ELSE onCall \ {"bob"}
  /\ UNCHANGED <<level, off, bobErr, note>>

Check ==
  /\ script = "check"
  /\ script' = IF Serializable THEN "listen" ELSE "reset"
  /\ UNCHANGED <<level, db, tx, note>>

resetDoctors ==
  /\ script = "reset" /\ script' = "aliceReads"
  /\ onCall' = Doctors /\ level' = "serializable"
  /\ UNCHANGED <<off, tx, note>>

-----------------------------------------------------------------------------
(* listenNotify *)
Listen ==
  /\ script = "listen" /\ script' = "notify"
  /\ listening' = TRUE
  /\ UNCHANGED <<level, db, tx, inbox>>

Notify ==
  /\ script = "notify" /\ script' = "await"
  /\ inbox' = inbox + (IF listening THEN 1 ELSE 0)
  /\ UNCHANGED <<level, db, tx, listening>>

WaitForNotification ==
  /\ script = "await" /\ inbox > 0
  /\ inbox' = inbox - 1 /\ script' = "done"
  /\ UNCHANGED <<level, db, tx, listening>>

-----------------------------------------------------------------------------
Step == \/ setupSchema \/ AliceReads \/ BobReads \/ AliceUpdates \/ BobUpdates \/ BobUpdateRejected
        \/ AliceCommits \/ BobCommits \/ isSerializationFailure \/ retryBob \/ Check \/ resetDoctors
        \/ Listen \/ Notify \/ WaitForNotification

Next == Start \/ Step \/ Fail

Fairness == WF_vars(Step)

Spec == Init /\ [][Next]_vars /\ Fairness

-----------------------------------------------------------------------------
\* What the two tests of the example pin: read committed breaks the invariant
\* that somebody is on call, serializable keeps it, wherever bob is rejected
\* and wherever run gives up.
VerdictFitsLevel ==
  /\ script = "reset" => onCall = {}
  /\ Serializable => onCall # {}

\* run returns: the notification was sent to a session that listens.
Ends == <>[](script \in Finished \cup {"idle"})
=============================================================================
