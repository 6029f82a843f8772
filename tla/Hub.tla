--------------------------------- MODULE Hub ----------------------------------
(***************************************************************************)
(* The broadcast hub of examples/websocket with its clients: a handler     *)
(* per connection registers it, reads, and writes what it read to a        *)
(* snapshot of the registered connections, outside the lock and with a     *)
(* deadline per write; a client's pump reads its connection into a bounded *)
(* channel.                                                                *)
(*                                                                         *)
(* A client may send, receive, close or do nothing at any time: the        *)
(* scripts of run and of the tests are some of its behaviours.             *)
(***************************************************************************)
EXTENDS Integers, Sequences, SequencesExt

CONSTANTS
  Clients,
  MaxSends,    \* bound: how many messages each client sends
  WireRoom,    \* bound: messages a connection buffers in each direction
  ChanRoom     \* capacity of client.msgs (8 in the code)

ASSUME RoomAssumption == MaxSends \in [Clients -> Nat] /\ {WireRoom, ChanRoom} \subseteq Nat \ {0}

VARIABLES
  conn,                \* "closed" by its client, "broken" by a failed write
  up, down,            \* what is under way on a connection, in each direction
  clients,             \* Hub.clients
  loop, data, conns,   \* the handlers: where each is, what it read, whom it still writes to
  pump, read, msgs,    \* the clients' pumps: where each is, what it read; the channel
  sent,                \* messages sent so far by each client
  heard,               \* history: what was written to each open connection
  owed,                \* history: the messages whose snapshot had the connection
  missed               \* history: those whose write timed out on it and left it open

wire    == <<conn, up, down>>
handler == <<clients, loop, data, conns>>
client  == <<pump, read, msgs, sent>>
past    == <<heard, owed, missed>>
vars    == <<wire, handler, client, past>>

Messages  == [from : Clients, n : Nat]
NoMessage == [from |-> CHOOSE c \in Clients : TRUE, n |-> 0]

Init ==
  /\ conn = [c \in Clients |-> "none"]
  /\ up = [c \in Clients |-> <<>>] /\ down = up
  /\ clients = {}
  /\ loop = conn /\ data = [c \in Clients |-> NoMessage]
  /\ conns = [c \in Clients |-> {}]
  /\ pump = conn /\ read = data /\ msgs = up
  /\ sent = [c \in Clients |-> 0]
  /\ heard = up /\ owed = conns /\ missed = conns

\* The histories are about open connections.
Drop(c) ==
  /\ heard' = [heard EXCEPT ![c] = <<>>]
  /\ owed' = [owed EXCEPT ![c] = {}] /\ missed' = [missed EXCEPT ![c] = {}]

-----------------------------------------------------------------------------
(* The clients: connect, its pump, and what run and the tests do with it *)
Connect(c) ==
  /\ conn[c] = "none"
  /\ conn' = [conn EXCEPT ![c] = "open"]
  /\ loop' = [loop EXCEPT ![c] = "accepted"]
  /\ pump' = [pump EXCEPT ![c] = "read"]
  /\ UNCHANGED <<up, down, clients, data, conns, read, msgs, sent, past>>

Send(c) ==
  /\ conn[c] = "open" /\ sent[c] < MaxSends[c] /\ Len(up[c]) < WireRoom
  /\ sent' = [sent EXCEPT ![c] = @ + 1]
  /\ up' = [up EXCEPT ![c] = Append(@, [from |-> c, n |-> sent[c] + 1])]
  /\ UNCHANGED <<conn, down, handler, pump, read, msgs, past>>

PumpRead(c) ==
  /\ pump[c] = "read" /\ conn[c] \in {"open", "broken"} /\ down[c] # <<>>
  /\ read' = [read EXCEPT ![c] = Head(down[c])]
  /\ down' = [down EXCEPT ![c] = Tail(@)]
  /\ pump' = [pump EXCEPT ![c] = "send"]
  /\ UNCHANGED <<conn, up, handler, msgs, sent, past>>

\* The send looks at nothing but the channel.
PumpSend(c) ==
  /\ pump[c] = "send" /\ Len(msgs[c]) < ChanRoom
  /\ msgs' = [msgs EXCEPT ![c] = Append(@, read[c])]
  /\ pump' = [pump EXCEPT ![c] = "read"]
  /\ read' = [read EXCEPT ![c] = NoMessage]
  /\ UNCHANGED <<wire, handler, sent, past>>

PumpEnds(c) ==
  /\ pump[c] = "read"
  /\ conn[c] = "closed" \/ (conn[c] = "broken" /\ down[c] = <<>>)
  /\ pump' = [pump EXCEPT ![c] = "ended"]
  /\ UNCHANGED <<wire, handler, read, msgs, sent, past>>

recv(c) ==
  /\ msgs[c] # <<>>
  /\ msgs' = [msgs EXCEPT ![c] = Tail(@)]
  /\ UNCHANGED <<wire, handler, pump, read, sent, past>>

\* Close or CloseNow, or the context of a Read ends, which closes it too.
Close(c) ==
  /\ conn[c] = "open"
  /\ conn' = [conn EXCEPT ![c] = "closed"]
  /\ down' = [down EXCEPT ![c] = <<>>]
  /\ Drop(c)
  /\ UNCHANGED <<up, handler, client>>

-----------------------------------------------------------------------------
(* The handlers: ServeHTTP and broadcast *)
register(c) ==
  /\ loop[c] = "accepted"
  /\ clients' = clients \cup {c}
  /\ loop' = [loop EXCEPT ![c] = "read"]
  /\ UNCHANGED <<wire, data, conns, client, past>>

Read(c) ==
  /\ loop[c] = "read" /\ conn[c] # "broken" /\ up[c] # <<>>
  /\ data' = [data EXCEPT ![c] = Head(up[c])]
  /\ up' = [up EXCEPT ![c] = Tail(@)]
  /\ loop' = [loop EXCEPT ![c] = "snapshot"]
  /\ UNCHANGED <<conn, down, clients, conns, client, past>>

ReadFails(c) ==
  /\ loop[c] = "read" /\ conn[c] \in {"closed", "broken"}
  /\ loop' = [loop EXCEPT ![c] = "leave"]
  /\ UNCHANGED <<wire, clients, data, conns, client, past>>

Snapshot(c) ==
  /\ loop[c] = "snapshot"
  /\ conns' = [conns EXCEPT ![c] = clients]
  /\ loop' = [loop EXCEPT ![c] = "write"]
  /\ owed' = [d \in Clients |-> IF d \in clients /\ conn[d] = "open"
                                THEN owed[d] \cup {data[c]} ELSE owed[d]]
  /\ UNCHANGED <<wire, clients, data, client, heard, missed>>

\* The order in which the snapshot is written is that of a map: any.
Done(c, d) == conns' = [conns EXCEPT ![c] = @ \ {d}]

Write(c, d) ==
  /\ loop[c] = "write" /\ d \in conns[c]
  /\ conn[d] = "open" /\ Len(down[d]) < WireRoom
  /\ down' = [down EXCEPT ![d] = Append(@, data[c])]
  /\ heard' = [heard EXCEPT ![d] = Append(@, data[c])]
  /\ Done(c, d)
  /\ UNCHANGED <<conn, up, clients, loop, data, client, owed, missed>>

\* A write that fails and takes the connection with it.
Breaks(d) ==
  /\ conn' = [conn EXCEPT ![d] = IF @ = "open" THEN "broken" ELSE @]
  /\ up' = [up EXCEPT ![d] = IF conn[d] = "open" THEN <<>> ELSE @]
  /\ Drop(d)

WriteWaits(c, d) ==   \* mutant: no deadline
  /\ loop[c] = "write" /\ d \in conns[c] /\ conn[d] # "open"
  /\ Done(c, d)
  /\ UNCHANGED <<wire, clients, loop, data, client, past>>

WriteFailsReturns(c, d) ==   \* mutant: the first error ends the broadcast
  /\ loop[c] = "write" /\ d \in conns[c]
  /\ conn[d] # "open" \/ Len(down[d]) = WireRoom
  /\ conns' = [conns EXCEPT ![c] = {}] /\ Breaks(d)
  /\ UNCHANGED <<down, clients, loop, data, client>>

WriteFailsRetries(c, d) ==   \* mutant: after an error the whole room is written to again
  /\ loop[c] = "write" /\ d \in conns[c]
  /\ conn[d] # "open" \/ Len(down[d]) = WireRoom
  /\ conns' = [conns EXCEPT ![c] = clients \ {d}] /\ Breaks(d)
  /\ UNCHANGED <<down, clients, loop, data, client>>

\* The connection is gone, or its client has not read for two seconds.  In
\* the second case the message is dropped for that client (hub.go:60-61);
\* the connection may break, as with a write cut off half way, or stay open,
\* as with one whose deadline passed before it could begin.
WriteFails(c, d) ==
  /\ loop[c] = "write" /\ d \in conns[c]
  /\ conn[d] # "open" \/ Len(down[d]) = WireRoom
  /\ Done(c, d)
  /\ \/ Breaks(d)
     \/ /\ conn[d] = "open"
        /\ missed' = [missed EXCEPT ![d] = @ \cup {data[c]}]
        /\ UNCHANGED <<conn, up, heard, owed>>
  /\ UNCHANGED <<down, clients, loop, data, client>>

Written(c) ==
  /\ loop[c] = "write" /\ conns[c] = {}
  /\ loop' = [loop EXCEPT ![c] = "read"]
  /\ data' = [data EXCEPT ![c] = NoMessage]
  /\ UNCHANGED <<wire, clients, conns, client, past>>

unregisterNever(c) ==   \* mutant: the handler returns without unregister
  /\ loop[c] = "leave"
  /\ loop' = [loop EXCEPT ![c] = "ended"]
  /\ UNCHANGED <<wire, clients, data, conns, client, past>>

\* The deferred calls of ServeHTTP: unregister, then CloseNow.
unregister(c) ==
  /\ loop[c] = "leave"
  /\ clients' = clients \ {c}
  /\ loop' = [loop EXCEPT ![c] = "ended"]
  /\ UNCHANGED <<wire, data, conns, client, past>>

-----------------------------------------------------------------------------
broadcast(c) == Snapshot(c) \/ (\E d \in Clients : Write(c, d) \/ WriteFails(c, d)) \/ Written(c)
ServeHTTP(c) == register(c) \/ Read(c) \/ ReadFails(c) \/ broadcast(c) \/ unregister(c)
Pump(c)      == PumpRead(c) \/ PumpSend(c) \/ PumpEnds(c)
User(c)      == Connect(c) \/ Send(c) \/ recv(c) \/ Close(c)

Next == (\E c \in Clients : ServeHTTP(c) \/ Pump(c) \/ User(c))

\* Goroutines are scheduled, deadlines pass; no user has to do anything.
Fairness == \A c \in Clients : WF_vars(ServeHTTP(c)) /\ WF_vars(Pump(c))

Spec == Init /\ [][Next]_vars /\ Fairness

-----------------------------------------------------------------------------
\* "Every message reaches every client" (main.go:114), but for those that do
\* not read: one that was registered when the message was broadcast has it, is
\* about to get it, has lost its connection, or let the deadline of the write
\* pass ("dropping the message for that client is the deliberate policy",
\* hub.go:60-61).
ReachesRegistered ==
  \A c \in Clients : \A m \in owed[c] :
    \/ Contains(heard[c], m)
    \/ conn[c] # "open"
    \/ m \in missed[c]
    \/ data[m.from] = m /\ c \in conns[m.from]

\* The n-th message of s may follow its m-th: all those in between are gone.
Follows(gone, s, m, n) == m < n /\ \A k \in m + 1 .. n - 1 : [from |-> s, n |-> k] \in gone

\* However the broadcasts of several senders interleave, a client hears each
\* sender in order and no message twice; it misses one in between only where
\* the write of that very message timed out ("a wedged client loses messages",
\* README.md:64).
SendersInOrder ==
  \A c \in Clients : \A i, j \in DOMAIN heard[c] :
    (/\ i < j /\ heard[c][i].from = heard[c][j].from
     /\ \A k \in i + 1 .. j - 1 : heard[c][k].from # heard[c][i].from)
      => Follows(missed[c], heard[c][i].from, heard[c][i].n, heard[c][j].n)

\* "one stuck client can't wedge the whole room" (broadcast's comment): every
\* broadcast ends, whoever does not read.  A connection that was closed or
\* broken leaves the registry, and its pump ends unless nobody takes what
\* fills its channel.
RoomGoesOn ==
  \A c \in Clients :
    /\ []<>(loop[c] # "write")
    /\ <>[](conn[c] \in {"closed", "broken"} =>
               /\ c \notin clients /\ loop[c] = "ended"
               /\ pump[c] = "ended" \/ (pump[c] = "send" /\ Len(msgs[c]) = ChanRoom))
=============================================================================
