------------------------------ MODULE HttpServer ------------------------------
(***************************************************************************)
(* examples/http-server: a listener goroutine, requests that pass the      *)
(* middleware to a handler, and a main that waits for a signal, shuts the  *)
(* server down and exits.  net/http is external: what Shutdown and         *)
(* ListenAndServe do is taken from how main uses them.                     *)
(***************************************************************************)
EXTENDS Integers

CONSTANT Requests   \* the requests that may come

VARIABLES
  server,     \* main: "idle", "wait", "shutdown", "exit" or "exit1"
  listener,   \* the goroutine: "none", "starting", "listening", "closed" or "failed"
  quit,       \* signals in the channel quit, which has room for one
  stopping,   \* Shutdown was called
  expired,    \* its ten seconds are over
  request     \* "none", "accepted", "handler", "panicking", "ok", "error500", "refused"

vars == <<server, listener, quit, stopping, expired, request>>

Exited == {"exit", "exit1"}
Up == server \notin Exited \cup {"idle"}
Open == {r \in Requests : request[r] \in {"accepted", "handler", "panicking"}}

Init ==
  /\ server = "idle" /\ listener = "none" /\ quit = 0
  /\ stopping = FALSE /\ expired = FALSE
  /\ request = [r \in Requests |-> "none"]

\* signal.Notify comes before the goroutine is started.
Start ==
  /\ server = "idle" /\ server' = "wait"
  /\ listener' = "starting"
  /\ UNCHANGED <<quit, stopping, expired, request>>

\* Notify does not block: a signal that finds the channel full is dropped.
Signal ==
  /\ Up /\ quit' = 1 /\ quit = 0
  /\ UNCHANGED <<server, listener, stopping, expired, request>>

-----------------------------------------------------------------------------
(* The listener goroutine *)
\* ListenAndServe of a server that was shut down before returns at once.
Listen ==
  /\ Up /\ listener = "starting"
  /\ listener' = IF stopping THEN "closed" ELSE "listening"
  /\ UNCHANGED <<server, quit, stopping, expired, request>>

\* The port is taken, or accept fails: the process exits with the requests it has.
ServeFails ==
  /\ Up /\ listener \in {"starting", "listening"}
  /\ listener' = "failed" /\ server' = "exit1"
  /\ UNCHANGED <<quit, stopping, expired, request>>

-----------------------------------------------------------------------------
(* Requests: chain is logging around recoverer around the router *)
Accept(r) ==
  /\ Up /\ request[r] = "none" /\ ~stopping /\ listener = "listening"
  /\ request' = [request EXCEPT ![r] = "accepted"]
  /\ UNCHANGED <<server, listener, quit, stopping, expired>>

Refuse(r) ==
  /\ Up /\ request[r] = "none" /\ stopping
  /\ request' = [request EXCEPT ![r] = "refused"]
  /\ UNCHANGED <<server, listener, quit, stopping, expired>>

Route(r) ==
  /\ Up /\ request[r] = "accepted"
  /\ request' = [request EXCEPT ![r] = "handler"]
  /\ UNCHANGED <<server, listener, quit, stopping, expired>>

\* handleHealth and handleEcho write an answer, an error of the client included.
Handle(r) ==
  /\ Up /\ request[r] = "handler"
  /\ request' = [request EXCEPT ![r] = "ok"]
  /\ UNCHANGED <<server, listener, quit, stopping, expired>>

handlePanic(r) ==
  /\ Up /\ request[r] = "handler"
  /\ request' = [request EXCEPT ![r] = "panicking"]
  /\ UNCHANGED <<server, listener, quit, stopping, expired>>

recoverer(r) ==
  /\ Up /\ request[r] = "panicking"
  /\ request' = [request EXCEPT ![r] = "error500"]
  /\ UNCHANGED <<server, listener, quit, stopping, expired>>

-----------------------------------------------------------------------------
(* main *)
Quit ==
  /\ server = "wait" /\ quit = 1
  /\ server' = "shutdown" /\ quit' = 0 /\ stopping' = TRUE
  /\ listener' = IF listener = "listening" THEN "closed" ELSE listener
  /\ UNCHANGED <<expired, request>>

Deadline ==
  /\ server = "shutdown" /\ ~expired /\ expired' = TRUE
  /\ UNCHANGED <<server, listener, quit, stopping, request>>

ExitAtOnce ==   \* mutant: Close instead of Shutdown
  /\ server = "shutdown"
  /\ server' = "exit"
  /\ UNCHANGED <<listener, quit, stopping, expired, request>>

\* Shutdown returns nil or the error of its context, which main only logs.
Exit ==
  /\ server = "shutdown" /\ (Open = {} \/ expired)
  /\ server' = "exit"
  /\ UNCHANGED <<listener, quit, stopping, expired, request>>

-----------------------------------------------------------------------------
Handler(r) == Route(r) \/ Handle(r) \/ handlePanic(r) \/ recoverer(r)
Step == Listen \/ Quit \/ Deadline \/ Exit

Next == Start \/ Signal \/ ServeFails \/ Step
        \/ \E r \in Requests : Accept(r) \/ Refuse(r) \/ Handler(r)

\* main and the listener run, and the deadline passes; a handler may hang.
Fairness == WF_vars(Step)

Spec == Init /\ [][Next]_vars /\ Fairness

-----------------------------------------------------------------------------
\* "in-flight requests can finish" (README.md:16): whoever was accepted has its
\* answer when the process ends, a panicking handler's caller as well, unless
\* the deadline or a failing listener ended it.
AnsweredBeforeExit == server = "exit" /\ ~expired => Open = {}

\* After a signal the process ends, one that came before the listener included.
Ends == <>[](quit = 1 \/ stopping => server \in Exited)
=============================================================================
