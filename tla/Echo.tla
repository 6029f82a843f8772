--------------------------------- MODULE Echo ---------------------------------
(***************************************************************************)
(* examples/grpc-advanced: a client that calls with a token, without one,  *)
(* with a deadline that is too short and over a bidirectional stream, and  *)
(* a server with an authorizing interceptor that is stopped gracefully.    *)
(*                                                                         *)
(* grpc is external.  Taken from it: the end of a call's context reaches   *)
(* client and handler separately, a stream delivers in order, and          *)
(* GracefulStop waits for the handlers.                                    *)
(***************************************************************************)
EXTENDS Integers, Sequences

CONSTANT EchoMessages   \* bound: the messages of the stream (3 in the code)

VARIABLES
  client,    \* run: "idle", then the demo it is in, "stop", "stopped" or "failed"
  rpc,    \* each call's side of the server: "none", "arrived", "handler", "returned"
  reply,     \* the status on its way to the caller
  cut,       \* who knows that the deadline of SlowEcho has passed
  up, down,  \* the two directions of the stream
  closedSend,
  turn,      \* demoBidi: "send" or "recv"
  echoes     \* the messages received

calls  == <<rpc, reply, cut>>
stream == <<up, down, closedSend, turn, echoes>>
vars   == <<client, calls, stream>>

Calls  == {"authed", "anonymous", "slow", "bidi"}
After  == [authed |-> "anonymous", anonymous |-> "slow", slow |-> "bidi", bidi |-> "stop"]
Ended  == {"stopped", "failed"}

Init ==
  /\ client = "idle"
  /\ rpc = [c \in Calls |-> "none"] /\ reply = [c \in Calls |-> "none"] /\ cut = {}
  /\ up = <<>> /\ down = <<>> /\ closedSend = FALSE /\ turn = "send" /\ echoes = <<>>

Start ==
  /\ client = "idle" /\ client' = "authed"
  /\ UNCHANGED <<calls, stream>>

-----------------------------------------------------------------------------
(* server *)
Serves(c, from) == client \notin Ended /\ rpc[c] = from

\* A handler returns, or the interceptor does in its place.
Returns(c, status) ==
  /\ rpc' = [rpc EXCEPT ![c] = "returned"]
  /\ reply' = [reply EXCEPT ![c] = status]
  /\ UNCHANGED <<client, cut, stream>>

\* The client's interceptors put the token on every call of their connection.
checkAuth(c) ==
  /\ Serves(c, "arrived")
  /\ IF c = "anonymous" THEN Returns(c, "unauthenticated")
     ELSE /\ rpc' = [rpc EXCEPT ![c] = "handler"]
          /\ UNCHANGED <<client, reply, cut, stream>>

UnaryEcho == \E c \in {"authed", "anonymous"} : Serves(c, "handler") /\ Returns(c, "ok")

\* Five seconds end after the hundred milliseconds; with both over, select
\* takes either.
SlowEcho ==
  /\ Serves("slow", "handler") /\ "server" \in cut
  /\ \E status \in {"ok", "deadline exceeded"} : Returns("slow", status)

BidiEcho ==
  /\ Serves("bidi", "handler") /\ up # <<>>
  /\ up' = Tail(up) /\ down' = Append(down, Head(up))
  /\ UNCHANGED <<client, calls, closedSend, turn, echoes>>

BidiEchoEnds ==
  /\ Serves("bidi", "handler") /\ up = <<>> /\ closedSend
  /\ Returns("bidi", "eof")

-----------------------------------------------------------------------------
(* client *)
\* A call reaches the server while its caller waits for it; SlowEcho, given up
\* while it was under way, also later, but before the next call of its connection.
Call(c) ==
  /\ rpc[c] = "none"
  /\ client = c \/ (c = "slow" /\ client = "bidi" /\ rpc["bidi"] = "none")
  /\ rpc' = [rpc EXCEPT ![c] = "arrived"]
  /\ UNCHANGED <<client, reply, cut, stream>>

\* The hundred milliseconds of the caller may end before the call is sent.
Deadline(side) ==
  /\ client \notin Ended /\ side \notin cut
  /\ rpc["slow"] # "none" \/ (side = "client" /\ client = "slow")
  /\ cut' = cut \cup {side}
  /\ UNCHANGED <<client, rpc, reply, stream>>

\* What each demo expects of its call; anything else ends run with an error.
Expected == [authed |-> "ok", anonymous |-> "unauthenticated", slow |-> "deadline exceeded", bidi |-> "eof"]

Settle(status) ==
  /\ client' = IF status = Expected[client] THEN After[client] ELSE "failed"
  /\ UNCHANGED <<calls, stream>>

demoAuth     == client \in {"authed", "anonymous"} /\ reply[client] # "none" /\ Settle(reply[client])

\* The caller's own timer ends the call, whatever the handler does.
demoDeadline == /\ client = "slow"
                /\ \/ reply["slow"] # "none" /\ Settle(reply["slow"])
                   \/ "client" \in cut /\ Settle("deadline exceeded")

Sending == client = "bidi" /\ rpc["bidi"] # "none" /\ ~closedSend

Send ==
  /\ Sending /\ turn = "send" /\ Len(echoes) < EchoMessages
  /\ up' = Append(up, Len(echoes) + 1) /\ turn' = "recv"
  /\ UNCHANGED <<client, calls, down, closedSend, echoes>>

Recv ==
  /\ Sending /\ turn = "recv" /\ down # <<>>
  /\ echoes' = Append(echoes, Head(down)) /\ down' = Tail(down) /\ turn' = "send"
  /\ UNCHANGED <<client, calls, up, closedSend>>

CloseSend ==
  /\ Sending /\ turn = "send" /\ Len(echoes) = EchoMessages
  /\ closedSend' = TRUE
  /\ UNCHANGED <<client, calls, up, down, turn, echoes>>

RecvEnd == client = "bidi" /\ reply["bidi"] # "none" /\ Settle(reply["bidi"])

\* A call may fail for other reasons, the thirty seconds of run among them.
Fail ==
  /\ client \in Calls /\ client' = "failed"
  /\ UNCHANGED <<calls, stream>>

StopAtOnce ==   \* mutant: Stop, which does not wait for the handlers
  /\ client = "stop" /\ client' = "stopped"
  /\ UNCHANGED <<calls, stream>>

GracefulStop ==
  /\ client = "stop" /\ \A c \in Calls : rpc[c] # "handler" /\ rpc[c] # "arrived"
  /\ client' = "stopped"
  /\ UNCHANGED <<calls, stream>>

-----------------------------------------------------------------------------
Step == \/ UnaryEcho \/ SlowEcho \/ BidiEcho \/ BidiEchoEnds \/ demoAuth \/ demoDeadline
        \/ Send \/ Recv \/ CloseSend \/ RecvEnd \/ GracefulStop
        \/ (\E c \in Calls : checkAuth(c) \/ Call(c)) \/ \E side \in {"client", "server"} : Deadline(side)

Next == Start \/ Step \/ Fail

Fairness == WF_vars(Step)

Spec == Init /\ [][Next]_vars /\ Fairness

-----------------------------------------------------------------------------
\* An orderly stop comes after every handler, the one whose caller has given up
\* included, if its call was ever sent, and after all echoes came back in the
\* order of their messages.
StoppedIsDrained ==
  client = "stopped" =>
    /\ \A c \in Calls : \/ rpc[c] = "returned"
                        \/ c = "slow" /\ rpc[c] = "none" /\ "client" \in cut
    /\ echoes = [i \in 1 .. EchoMessages |-> i]

\* run returns: neither the stream nor the abandoned handler of SlowEcho, which
\* GracefulStop waits for, keeps it.
Ends == <>[](client \in Ended \cup {"idle"})
=============================================================================
