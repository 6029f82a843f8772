------------------------------ MODULE HubProofs -------------------------------
(***************************************************************************)
(* What a client of the hub is promised, for every number of clients, every *)
(* room of the connections and every way the broadcasts interleave.         *)
(***************************************************************************)
EXTENDS Hub, TLAPS, SequenceTheorems

\* What the two invariants look at; the pumps, their channels and what is on
\* its way down a connection take no part in either.
TypeInv ==
  /\ conn \in [Clients -> {"none", "open", "closed", "broken"}]
  /\ up \in [Clients -> Seq(Messages)]
  /\ clients \in SUBSET Clients
  /\ loop \in [Clients -> {"none", "accepted", "read", "snapshot", "write", "leave", "ended"}]
  /\ data \in [Clients -> Messages]
  /\ conns \in [Clients -> SUBSET Clients]
  /\ sent \in [Clients -> Nat]
  /\ heard \in [Clients -> Seq(Messages)]
  /\ owed \in [Clients -> SUBSET Messages]
  /\ missed \in [Clients -> SUBSET Messages]

\* A handler only holds a snapshot while it writes, what it read is from its
\* own client, and what is remembered of a connection is about an open one.
HandlerInv ==
  \A c \in Clients :
    /\ loop[c] # "write" => conns[c] = {}
    /\ \A i \in 1 .. Len(up[c]) : up[c][i].from = c
    /\ loop[c] \in {"snapshot", "write"} => data[c].from = c
    /\ conn[c] # "open" => heard[c] = <<>> /\ owed[c] = {}

\* A handler that returns has lost its connection first, so an open
\* connection which is in a snapshot, or has heard anything, is registered.
RegistryInv ==
  /\ \A c \in Clients : loop[c] = "none" <=> conn[c] = "none"
  /\ \A c \in Clients : loop[c] \in {"leave", "ended"} => conn[c] # "open"
  /\ \A c \in Clients : heard[c] # <<>> => c \in clients
  /\ \A c, d \in Clients : d \in conns[c] /\ conn[d] = "open" => d \in clients
  /\ \A c, d \in Clients : d \in clients \/ d \in conns[c] => conn[d] # "none"

\* The messages of a client that are still to be read are its latest, in
\* order, and the one in hand is the one before them, unless the connection
\* broke and they are lost.
NumberInv ==
  \A c \in Clients :
    /\ \A i \in 1 .. Len(up[c]) : up[c][i].n = sent[c] - Len(up[c]) + i
    /\ conn[c] # "broken" /\ loop[c] \in {"snapshot", "write"} =>
          data[c].n = sent[c] - Len(up[c])

\* i is the last place of a message of s in the sequence h.
LastFrom(h, s, i) ==
  /\ i \in 1 .. Len(h) /\ h[i].from = s
  /\ \A k \in 1 .. Len(h) : k > i => h[k].from # s

\* After the n-th message of s, all that c missed lies before the message in
\* hand, if c is still to get that, and else before the one that comes next.
Told(gone, c, s, n) ==
  /\ loop[s] = "snapshot" => Follows(gone, s, n, data[s].n)
  /\ loop[s] = "write" /\ c \in conns[s] => Follows(gone, s, n, data[s].n)
  /\ loop[s] = "write" /\ c \notin conns[s] => Follows(gone, s, n, data[s].n + 1)
  /\ loop[s] \notin {"snapshot", "write"} /\ conn[s] # "broken" =>
        Follows(gone, s, n, sent[s] - Len(up[s]) + 1)

HeardInv ==
  \A c, s \in Clients : \A i \in 1 .. Len(heard[c]) :
    LastFrom(heard[c], s, i) => Told(missed[c], c, s, heard[c][i].n)

IInv == TypeInv /\ HandlerInv /\ RegistryInv /\ NumberInv /\ HeardInv
            /\ ReachesRegistered /\ SendersInOrder

-----------------------------------------------------------------------------
\* What the pumps and the reader of a channel leave alone.
Silent == UNCHANGED <<conn, up, handler, sent, past>>

LEMMA NoMessageIsOne ==
  ASSUME NEW c \in Clients
  PROVE  NoMessage \in Messages
BY DEF NoMessage, Messages

\* What a message put on a connection, or taken from it, does to the others.
LEMMA SendShifts ==
  ASSUME TypeInv, NEW c \in Clients, Send(c)
  PROVE  /\ up'[c] \in Seq(Messages) /\ Len(up'[c]) = Len(up[c]) + 1
         /\ Len(up[c]) \in Nat
         /\ \A i \in 1 .. Len(up[c]) : up'[c][i] = up[c][i]
         /\ up'[c][Len(up[c]) + 1].from = c
         /\ up'[c][Len(up[c]) + 1].n = sent[c] + 1
         /\ \A d \in Clients : d # c => up'[d] = up[d]
<1>1. up[c] \in Seq(Messages) /\ [from |-> c, n |-> sent[c] + 1] \in Messages
  <2>1. sent[c] + 1 \in Nat
    BY DEF TypeInv
  <2> QED
    BY <2>1 DEF TypeInv, Messages
<1>2. /\ up'[c] = Append(up[c], [from |-> c, n |-> sent[c] + 1])
      /\ \A d \in Clients : d # c => up'[d] = up[d]
  BY DEF TypeInv, Send
<1>3. up'[c][Len(up[c]) + 1] = [from |-> c, n |-> sent[c] + 1]
  BY <1>1, <1>2
<1> QED
  BY <1>1, <1>2, <1>3

LEMMA ReadShifts ==
  ASSUME TypeInv, NEW c \in Clients, Read(c)
  PROVE  /\ data'[c] \in Messages /\ data'[c] = up[c][1] /\ Len(up[c]) > 0
         /\ up'[c] \in Seq(Messages) /\ Len(up'[c]) = Len(up[c]) - 1
         /\ Len(up[c]) \in Nat
         /\ \A i \in 1 .. Len(up'[c]) : up'[c][i] = up[c][i + 1]
         /\ \A d \in Clients : d # c => up'[d] = up[d] /\ data'[d] = data[d]
<1>1. up[c] \in Seq(Messages) /\ up[c] # <<>>
  BY DEF TypeInv, Read
<1>2. /\ up'[c] = Tail(up[c]) /\ data'[c] = Head(up[c])
      /\ \A d \in Clients : d # c => up'[d] = up[d] /\ data'[d] = data[d]
  BY DEF TypeInv, Read
<1> QED
  BY <1>1, <1>2

\* A message that went missing stays so, and one more may join it.
LEMMA FollowsStays ==
  ASSUME NEW gone, NEW more, gone \subseteq more, NEW s, NEW m, NEW n, Follows(gone, s, m, n)
  PROVE  Follows(more, s, m, n)
BY DEF Follows

LEMMA FollowsNext ==
  ASSUME NEW gone, NEW s, NEW m \in Nat, NEW n \in Nat, Follows(gone, s, m, n)
  PROVE  Follows(gone \cup {[from |-> s, n |-> n]}, s, m, n + 1)
<1>1. m < n + 1
  BY DEF Follows
<1>2. ASSUME NEW k \in m + 1 .. (n + 1) - 1
      PROVE  k \in m + 1 .. n - 1 \/ k = n
  OBVIOUS
<1> QED
  BY <1>1, <1>2 DEF Follows

LEMMA FollowsItself ==
  ASSUME NEW gone, NEW s, NEW n \in Nat
  PROVE  Follows(gone, s, n, n + 1)
<1>1. n + 1 .. (n + 1) - 1 = {}
  OBVIOUS
<1> QED
  BY <1>1 DEF Follows

\* SendersInOrder, of one client.
InOrder(h, gone) ==
  \A i, j \in DOMAIN h :
    (/\ i < j /\ h[i].from = h[j].from
     /\ \A k \in i + 1 .. j - 1 : h[k].from # h[i].from)
      => Follows(gone, h[i].from, h[i].n, h[j].n)

LEMMA AppendKeepsOrder ==
  ASSUME NEW h \in Seq(Messages), NEW m \in Messages, NEW gone, InOrder(h, gone),
         \A i \in 1 .. Len(h) : LastFrom(h, m.from, i) => Follows(gone, m.from, h[i].n, m.n)
  PROVE  InOrder(Append(h, m), gone)
<1> DEFINE g == Append(h, m)
<1>1. /\ Len(h) \in Nat /\ DOMAIN h = 1 .. Len(h) /\ DOMAIN g = 1 .. Len(h) + 1
      /\ \A i \in 1 .. Len(h) : g[i] = h[i]
      /\ g[Len(h) + 1] = m
  OBVIOUS
<1> HIDE DEF g
<1> SUFFICES ASSUME NEW i \in 1 .. Len(h) + 1, NEW j \in 1 .. Len(h) + 1,
                    i < j, g[i].from = g[j].from,
                    \A k \in i + 1 .. j - 1 : g[k].from # g[i].from
             PROVE  Follows(gone, g[i].from, g[i].n, g[j].n)
  BY <1>1 DEF InOrder, g
<1>2. i \in 1 .. Len(h) /\ g[i] = h[i]
  BY <1>1
<1>3. CASE j = Len(h) + 1
  <2>1. \A k \in 1 .. Len(h) : k > i => h[k].from # m.from
    <3>1. \A k \in 1 .. Len(h) : k > i => k \in i + 1 .. j - 1
      BY <1>1, <1>2, <1>3
    <3> QED
      BY <1>1, <1>2, <1>3, <3>1
  <2> QED
    BY <1>1, <1>2, <1>3, <2>1 DEF LastFrom
<1>4. CASE j \in 1 .. Len(h)
  <2>1. \A k \in i + 1 .. j - 1 : k \in 1 .. Len(h)
    BY <1>1, <1>2, <1>4
  <2>2. \A k \in i + 1 .. j - 1 : h[k].from # h[i].from
    BY <1>1, <1>2, <2>1
  <2> QED
    BY <1>1, <1>2, <1>4, <2>2 DEF InOrder
<1> QED
  BY <1>1, <1>3, <1>4

\* After one more message from s, its last place is the end; that of every
\* other sender stays.
LEMMA AppendLast ==
  ASSUME NEW h \in Seq(Messages), NEW m \in Messages, NEW s, NEW i \in 1 .. Len(h) + 1,
         LastFrom(Append(h, m), s, i)
  PROVE  IF s = m.from THEN Append(h, m)[i] = m
                       ELSE i \in 1 .. Len(h) /\ LastFrom(h, s, i) /\ Append(h, m)[i] = h[i]
<1> DEFINE g == Append(h, m)
<1>1. /\ Len(h) \in Nat /\ Len(g) = Len(h) + 1
      /\ \A k \in 1 .. Len(h) : g[k] = h[k] /\ k \in 1 .. Len(h) + 1
      /\ g[Len(h) + 1] = m /\ Len(h) + 1 \in 1 .. Len(h) + 1
  OBVIOUS
<1>2. LastFrom(g, s, i)
  OBVIOUS
<1> HIDE DEF g
<1>3. i \in 1 .. Len(h) \/ i = Len(h) + 1
  BY <1>1
<1>4. CASE s = m.from
  BY <1>1, <1>2, <1>3, <1>4 DEF LastFrom, g
<1>5. CASE s # m.from
  BY <1>1, <1>2, <1>3, <1>5 DEF LastFrom, g
<1> QED
  BY <1>4, <1>5

LEMMA Steps ==
  ASSUME [Next]_vars
  PROVE  \/ Silent
         \/ \E c \in Clients : Connect(c) \/ Send(c) \/ Close(c)
         \/ \E c \in Clients : register(c) \/ Read(c) \/ ReadFails(c) \/ unregister(c)
         \/ \E c \in Clients : Snapshot(c) \/ Written(c)
         \/ \E c, d \in Clients : Write(c, d) \/ WriteFails(c, d)
<1>1. CASE UNCHANGED vars
  BY <1>1 DEF vars, wire, client, Silent
<1>2. ASSUME NEW c \in Clients, Pump(c) \/ recv(c)
      PROVE  Silent
  BY <1>2 DEF Pump, PumpRead, PumpSend, PumpEnds, recv, wire, Silent
<1> QED
  BY <1>1, <1>2 DEF Next, ServeHTTP, broadcast, User

\* What a client has heard changes by a write, or with the connection; what it
\* has missed does not come back.
LEMMA Hears ==
  ASSUME TypeInv, HandlerInv, [Next]_vars
  PROVE  \A d \in Clients :
           \/ heard'[d] = heard[d] /\ missed[d] \subseteq missed'[d]
           \/ heard'[d] = <<>>
           \/ \E c \in Clients : /\ Write(c, d) /\ data[c].from = c /\ missed' = missed
                                 /\ heard'[d] = Append(heard[d], data[c])
<1>1. CASE Silent \/ UNCHANGED <<heard, missed>>
  BY <1>1 DEF Silent, past
<1>2. ASSUME NEW c \in Clients, Close(c)
      PROVE  \A d \in Clients : \/ heard'[d] = heard[d] /\ missed'[d] = missed[d]
                                \/ heard'[d] = <<>>
  BY <1>2 DEF Close, Drop, TypeInv
<1>3. ASSUME NEW c \in Clients, NEW e \in Clients, WriteFails(c, e)
      PROVE  \A d \in Clients : \/ heard'[d] = heard[d] /\ missed[d] \subseteq missed'[d]
                                \/ heard'[d] = <<>>
  BY <1>3 DEF WriteFails, Breaks, Drop, TypeInv
<1>4. ASSUME NEW c \in Clients, NEW e \in Clients, Write(c, e)
      PROVE  /\ data[c].from = c /\ heard'[e] = Append(heard[e], data[c]) /\ missed' = missed
             /\ \A d \in Clients : d # e => heard'[d] = heard[d]
  BY <1>4 DEF Write, TypeInv, HandlerInv
<1>5. ASSUME NEW c \in Clients,
             \/ Connect(c) \/ Send(c) \/ register(c) \/ Read(c) \/ ReadFails(c)
             \/ unregister(c) \/ Snapshot(c) \/ Written(c)
      PROVE  UNCHANGED <<heard, missed>>
  BY <1>5 DEF Connect, Send, register, Read, ReadFails, unregister, Snapshot, Written, past
<1> QED
  BY <1>1, <1>2, <1>3, <1>4, <1>5, Steps

LEMMA TypeStep ==
  ASSUME TypeInv, [Next]_vars
  PROVE  TypeInv'
<1>1. CASE Silent
  BY <1>1 DEF Silent, handler, past, TypeInv
<1>2. ASSUME NEW c \in Clients, Connect(c)
      PROVE  TypeInv'
  BY <1>2, NoMessageIsOne DEF Connect, wire, handler, client, past, Drop, Done, TypeInv, Messages
<1>3. ASSUME NEW c \in Clients, Send(c)
      PROVE  TypeInv'
  BY <1>3, NoMessageIsOne DEF Send, wire, handler, client, past, Drop, Done, TypeInv, Messages
<1>4. ASSUME NEW c \in Clients, Close(c)
      PROVE  TypeInv'
  BY <1>4, NoMessageIsOne DEF Close, wire, handler, client, past, Drop, Done, TypeInv, Messages
<1>5. ASSUME NEW c \in Clients, register(c)
      PROVE  TypeInv'
  BY <1>5, NoMessageIsOne DEF register, wire, handler, client, past, Drop, Done, TypeInv, Messages
<1>6. ASSUME NEW c \in Clients, Read(c)
      PROVE  TypeInv'
  BY <1>6, ReadShifts DEF Read, wire, handler, client, past, Drop, Done, TypeInv, Messages
<1>7. ASSUME NEW c \in Clients, ReadFails(c)
      PROVE  TypeInv'
  BY <1>7, NoMessageIsOne DEF ReadFails, wire, handler, client, past, Drop, Done, TypeInv, Messages
<1>8. ASSUME NEW c \in Clients, Snapshot(c)
      PROVE  TypeInv'
  BY <1>8, NoMessageIsOne DEF Snapshot, wire, handler, client, past, Drop, Done, TypeInv, Messages
<1>9. ASSUME NEW c \in Clients, Written(c)
      PROVE  TypeInv'
  BY <1>9, NoMessageIsOne DEF Written, wire, handler, client, past, Drop, Done, TypeInv, Messages
<1>10. ASSUME NEW c \in Clients, unregister(c)
      PROVE  TypeInv'
  BY <1>10, NoMessageIsOne DEF unregister, wire, handler, client, past, Drop, Done, TypeInv, Messages
<1>11. ASSUME NEW c \in Clients, NEW d \in Clients, Write(c, d)
      PROVE  TypeInv'
  <2>1. Append(heard[d], data[c]) \in Seq(Messages)
    BY <1>11 DEF TypeInv
  <2>2. heard' \in [Clients -> Seq(Messages)]
    BY <1>11, <2>1 DEF Write, TypeInv
  <2>3. conns' \in [Clients -> SUBSET Clients]
    BY <1>11 DEF Write, Done, TypeInv
  <2> QED
    BY <1>11, <2>2, <2>3 DEF Write, client, TypeInv
<1>12. ASSUME NEW c \in Clients, NEW d \in Clients, WriteFails(c, d)
      PROVE  TypeInv'
  <2>1. conn' \in [Clients -> {"none", "open", "closed", "broken"}]
    BY <1>12 DEF WriteFails, Breaks, TypeInv
  <2>2. up' \in [Clients -> Seq(Messages)]
    <3>1. <<>> \in Seq(Messages)
      OBVIOUS
    <3>2. CASE Breaks(d)
      BY <3>1, <3>2 DEF Breaks, TypeInv
    <3> QED
      BY <1>12, <3>2 DEF WriteFails, TypeInv
  <2>3. conns' \in [Clients -> SUBSET Clients]
    BY <1>12 DEF WriteFails, Done, TypeInv
  <2>4. /\ heard' \in [Clients -> Seq(Messages)]
        /\ owed' \in [Clients -> SUBSET Messages] /\ missed' \in [Clients -> SUBSET Messages]
    <3>1. CASE Breaks(d)
      <4>1. <<>> \in Seq(Messages)
        OBVIOUS
      <4> QED
        BY <3>1, <4>1 DEF Breaks, Drop, TypeInv
    <3>2. CASE UNCHANGED <<heard, owed>> /\ missed' = [missed EXCEPT ![d] = @ \cup {data[c]}]
      <4>1. data[c] \in Messages
        BY DEF TypeInv
      <4> QED
        BY <3>2, <4>1 DEF TypeInv
    <3> QED
      BY <1>12, <3>1, <3>2 DEF WriteFails
  <2> QED
    BY <1>12, <2>1, <2>2, <2>3, <2>4 DEF WriteFails, client, TypeInv
<1> QED
  BY <1>1, <1>2, <1>3, <1>4, <1>5, <1>6, <1>7, <1>8, <1>9, <1>10, <1>11, <1>12, Steps

LEMMA HandlerStep ==
  ASSUME TypeInv, HandlerInv, RegistryInv, [Next]_vars
  PROVE  HandlerInv'
<1>1. CASE Silent
  BY <1>1 DEF Silent, handler, past, TypeInv, HandlerInv
<1>2. ASSUME NEW c \in Clients, Connect(c)
      PROVE  HandlerInv'
  <2>1. /\ UNCHANGED <<conns, up, data, heard, owed>> /\ conn[c] = "none" /\ loop'[c] = "accepted"
        /\ \A d \in Clients : d # c => conn'[d] = conn[d] /\ loop'[d] = loop[d]
    BY <1>2 DEF Connect, past, TypeInv
  <2>2. loop[c] = "none"
    BY <2>1 DEF RegistryInv
  <2> QED
    BY <2>1, <2>2 DEF HandlerInv
<1>3. ASSUME NEW c \in Clients, Send(c)
      PROVE  HandlerInv'
  <2>1. \A e \in Clients : \A i \in 1 .. Len(up'[e]) : up'[e][i].from = e
    <3>1. \A i \in 1 .. Len(up[c]) + 1 : up'[c][i].from = c
      <4>1. \A i \in 1 .. Len(up[c]) : up'[c][i].from = c
        BY <1>3, SendShifts DEF HandlerInv
      <4>2. up'[c][Len(up[c]) + 1].from = c
        BY <1>3, SendShifts
      <4> QED
        BY <1>3, <4>1, <4>2, SendShifts
    <3>2. Len(up'[c]) = Len(up[c]) + 1 /\ \A e \in Clients : e # c => up'[e] = up[e]
      BY <1>3, SendShifts
    <3> QED
      BY <3>1, <3>2 DEF HandlerInv
  <2> QED
    BY <1>3, <2>1 DEF Send, handler, past, HandlerInv
<1>4. ASSUME NEW c \in Clients, Close(c)
      PROVE  HandlerInv'
  BY <1>4 DEF Close, wire, handler, client, past, Drop, Done, TypeInv, HandlerInv, Messages
<1>5. ASSUME NEW c \in Clients, register(c)
      PROVE  HandlerInv'
  BY <1>5 DEF register, wire, handler, client, past, Drop, Done, TypeInv, HandlerInv, Messages
<1>6. ASSUME NEW c \in Clients, Read(c)
      PROVE  HandlerInv'
  <2>1. data'[c].from = c
    <3>1. data'[c] = up[c][1] /\ Len(up[c]) > 0 /\ Len(up[c]) \in Nat
      BY <1>6, ReadShifts
    <3> QED
      BY <3>1 DEF HandlerInv
  <2>2. \A e \in Clients : \A i \in 1 .. Len(up'[e]) : up'[e][i].from = e
    <3>1. \A i \in 1 .. Len(up[c]) - 1 : up'[c][i].from = c
      <4>1. /\ \A i \in 1 .. Len(up[c]) - 1 : up'[c][i] = up[c][i + 1]
            /\ Len(up[c]) \in Nat
        BY <1>6, ReadShifts
      <4> QED
        BY <4>1 DEF HandlerInv
    <3>2. Len(up'[c]) = Len(up[c]) - 1 /\ \A e \in Clients : e # c => up'[e] = up[e]
      BY <1>6, ReadShifts
    <3> QED
      BY <3>1, <3>2 DEF HandlerInv
  <2>3. \A e \in Clients : e # c => data'[e] = data[e] /\ loop'[e] = loop[e]
    BY <1>6 DEF Read, TypeInv
  <2> QED
    BY <1>6, <2>1, <2>2, <2>3 DEF Read, past, HandlerInv, TypeInv
<1>7. ASSUME NEW c \in Clients, ReadFails(c)
      PROVE  HandlerInv'
  BY <1>7 DEF ReadFails, wire, handler, client, past, Drop, Done, TypeInv, HandlerInv, Messages
<1>8. ASSUME NEW c \in Clients, Snapshot(c)
      PROVE  HandlerInv'
  BY <1>8 DEF Snapshot, wire, handler, client, past, Drop, Done, TypeInv, HandlerInv, Messages
<1>9. ASSUME NEW c \in Clients, Written(c)
      PROVE  HandlerInv'
  BY <1>9 DEF Written, wire, handler, client, past, Drop, Done, TypeInv, HandlerInv, Messages
<1>10. ASSUME NEW c \in Clients, unregister(c)
      PROVE  HandlerInv'
  BY <1>10 DEF unregister, wire, handler, client, past, Drop, Done, TypeInv, HandlerInv, Messages
<1>11. ASSUME NEW c \in Clients, NEW d \in Clients, Write(c, d)
      PROVE  HandlerInv'
  BY <1>11 DEF Write, wire, handler, client, past, Drop, Done, TypeInv, HandlerInv, Messages
<1>12. ASSUME NEW c \in Clients, NEW d \in Clients, WriteFails(c, d)
      PROVE  HandlerInv'
  <2>1. \A e \in Clients : up'[e] = up[e] \/ up'[e] = <<>>
    BY <1>12 DEF WriteFails, Breaks, TypeInv
  <2>2. \A e \in Clients : \A i \in 1 .. Len(up'[e]) : up'[e][i].from = e
    <3>1. Len(<<>>) = 0
      OBVIOUS
    <3> QED
      BY <2>1, <3>1 DEF HandlerInv
  <2>3. \A e \in Clients : e # d => /\ heard'[e] = heard[e] /\ owed'[e] = owed[e]
                                   /\ conn'[e] = conn[e]
    BY <1>12 DEF WriteFails, Breaks, Drop, TypeInv
  <2>4. \/ heard'[d] = <<>> /\ owed'[d] = {}
        \/ conn' = conn /\ conn[d] = "open"
    BY <1>12 DEF WriteFails, Breaks, Drop, TypeInv
  <2>5. \A e \in Clients : e # c => conns'[e] = conns[e]
    BY <1>12 DEF WriteFails, Done, TypeInv
  <2> QED
    BY <1>12, <2>2, <2>3, <2>4, <2>5 DEF WriteFails, HandlerInv
<1> QED
  BY <1>1, <1>2, <1>3, <1>4, <1>5, <1>6, <1>7, <1>8, <1>9, <1>10, <1>11, <1>12, Steps

LEMMA RegistryStep ==
  ASSUME TypeInv, HandlerInv, RegistryInv, [Next]_vars
  PROVE  RegistryInv'
<1>1. CASE Silent
  BY <1>1 DEF Silent, handler, past, TypeInv, HandlerInv, RegistryInv
<1>2. ASSUME NEW c \in Clients, Connect(c)
      PROVE  RegistryInv'
  <2>1. /\ conn[c] = "none" /\ conn'[c] = "open" /\ loop'[c] = "accepted"
        /\ \A d \in Clients : d # c => conn'[d] = conn[d] /\ loop'[d] = loop[d]
        /\ UNCHANGED <<clients, conns, heard>>
    BY <1>2 DEF Connect, past, TypeInv
  <2>2. c \notin clients /\ \A d \in Clients : c \notin conns[d]
    BY <2>1 DEF RegistryInv
  <2> QED
    BY <2>1, <2>2 DEF RegistryInv
<1>3. ASSUME NEW c \in Clients, Send(c)
      PROVE  RegistryInv'
  BY <1>3 DEF Send, wire, handler, client, past, Drop, Done, TypeInv, HandlerInv, RegistryInv
<1>4. ASSUME NEW c \in Clients, Close(c)
      PROVE  RegistryInv'
  BY <1>4 DEF Close, wire, handler, client, past, Drop, Done, TypeInv, HandlerInv, RegistryInv
<1>5. ASSUME NEW c \in Clients, register(c)
      PROVE  RegistryInv'
  BY <1>5 DEF register, wire, handler, client, past, Drop, Done, TypeInv, HandlerInv, RegistryInv
<1>6. ASSUME NEW c \in Clients, Read(c)
      PROVE  RegistryInv'
  BY <1>6 DEF Read, wire, handler, client, past, Drop, Done, TypeInv, HandlerInv, RegistryInv
<1>7. ASSUME NEW c \in Clients, ReadFails(c)
      PROVE  RegistryInv'
  BY <1>7 DEF ReadFails, wire, handler, client, past, Drop, Done, TypeInv, HandlerInv, RegistryInv
<1>8. ASSUME NEW c \in Clients, Snapshot(c)
      PROVE  RegistryInv'
  BY <1>8 DEF Snapshot, wire, handler, client, past, Drop, Done, TypeInv, HandlerInv, RegistryInv
<1>9. ASSUME NEW c \in Clients, Written(c)
      PROVE  RegistryInv'
  BY <1>9 DEF Written, wire, handler, client, past, Drop, Done, TypeInv, HandlerInv, RegistryInv
<1>10. ASSUME NEW c \in Clients, unregister(c)
      PROVE  RegistryInv'
  BY <1>10 DEF unregister, wire, handler, client, past, Drop, Done, TypeInv, HandlerInv, RegistryInv
<1>11. ASSUME NEW c \in Clients, NEW d \in Clients, Write(c, d)
      PROVE  RegistryInv'
  BY <1>11 DEF Write, wire, handler, client, past, Drop, Done, TypeInv, HandlerInv, RegistryInv
<1>12. ASSUME NEW c \in Clients, NEW d \in Clients, WriteFails(c, d)
      PROVE  RegistryInv'
  <2>1. UNCHANGED <<clients, loop>>
    BY <1>12 DEF WriteFails
  <2>2. \A e \in Clients : \/ conn'[e] = conn[e]
                           \/ conn[e] = "open" /\ conn'[e] = "broken"
    BY <1>12 DEF WriteFails, Breaks, TypeInv
  <2>3. \A e \in Clients : heard'[e] = heard[e] \/ heard'[e] = <<>>
    BY <1>12 DEF WriteFails, Breaks, Drop, TypeInv
  <2>4. \A e \in Clients : conns'[e] \subseteq conns[e]
    BY <1>12 DEF WriteFails, Done, TypeInv
  <2> QED
    BY <2>1, <2>2, <2>3, <2>4 DEF RegistryInv
<1> QED
  BY <1>1, <1>2, <1>3, <1>4, <1>5, <1>6, <1>7, <1>8, <1>9, <1>10, <1>11, <1>12, Steps

LEMMA NumberStep ==
  ASSUME TypeInv, RegistryInv, NumberInv, [Next]_vars
  PROVE  NumberInv'
<1>1. CASE Silent
  BY <1>1 DEF Silent, handler, past, TypeInv, NumberInv
<1>2. ASSUME NEW c \in Clients, Connect(c)
      PROVE  NumberInv'
  BY <1>2 DEF Connect, wire, handler, client, past, Drop, Done, TypeInv, NumberInv, RegistryInv
<1>3. ASSUME NEW c \in Clients, Send(c)
      PROVE  NumberInv'
  <2>1. \A i \in 1 .. Len(up[c]) + 1 : up'[c][i].n = sent[c] - Len(up[c]) + i
    <3>1. \A i \in 1 .. Len(up[c]) : up'[c][i].n = sent[c] - Len(up[c]) + i
      BY <1>3, SendShifts DEF NumberInv
    <3>2. /\ up'[c][Len(up[c]) + 1].n = sent[c] + 1
          /\ Len(up[c]) \in Nat /\ sent[c] \in Nat
      BY <1>3, SendShifts DEF TypeInv
    <3> QED
      BY <3>1, <3>2
  <2>2. /\ Len(up'[c]) = Len(up[c]) + 1 /\ \A e \in Clients : e # c => up'[e] = up[e]
        /\ Len(up[c]) \in Nat
    BY <1>3, SendShifts
  <2>3. sent'[c] = sent[c] + 1 /\ \A e \in Clients : e # c => sent'[e] = sent[e]
    BY <1>3 DEF Send, TypeInv
  <2>4. sent'[c] - Len(up'[c]) = sent[c] - Len(up[c])
    BY <2>2, <2>3 DEF TypeInv
  <2>5. \A i \in 1 .. Len(up'[c]) : up'[c][i].n = sent'[c] - Len(up'[c]) + i
    BY <2>1, <2>2, <2>4
  <2> QED
    BY <1>3, <2>2, <2>3, <2>4, <2>5 DEF Send, handler, NumberInv
<1>4. ASSUME NEW c \in Clients, Close(c)
      PROVE  NumberInv'
  BY <1>4 DEF Close, wire, handler, client, past, Drop, Done, TypeInv, NumberInv, RegistryInv
<1>5. ASSUME NEW c \in Clients, register(c)
      PROVE  NumberInv'
  BY <1>5 DEF register, wire, handler, client, past, Drop, Done, TypeInv, NumberInv, RegistryInv
<1>6. ASSUME NEW c \in Clients, Read(c)
      PROVE  NumberInv'
  <2>1. /\ data'[c] = up[c][1] /\ Len(up[c]) > 0 /\ Len(up[c]) \in Nat
        /\ Len(up'[c]) = Len(up[c]) - 1
        /\ \A e \in Clients : e # c => up'[e] = up[e] /\ data'[e] = data[e]
    BY <1>6, ReadShifts
  <2>2. \A i \in 1 .. Len(up'[c]) : up'[c][i] = up[c][i + 1]
    BY <1>6, ReadShifts
  <2>3. sent[c] \in Nat /\ sent' = sent /\ conn' = conn
    BY <1>6 DEF Read, TypeInv, client
  <2>4. data'[c].n = sent'[c] - Len(up'[c])
    <3>1. up[c][1].n = sent[c] - Len(up[c]) + 1
      BY <2>1 DEF NumberInv
    <3> QED
      BY <2>1, <2>3, <3>1
  <2>5. \A i \in 1 .. Len(up'[c]) : up'[c][i].n = sent'[c] - Len(up'[c]) + i
    <3>1. \A i \in 1 .. Len(up[c]) - 1 : up[c][i + 1].n = sent[c] - Len(up[c]) + (i + 1)
      BY <2>1 DEF NumberInv
    <3>2. \A i \in 1 .. Len(up[c]) - 1 : up'[c][i] = up[c][i + 1]
      BY <2>1, <2>2
    <3>3. \A i \in 1 .. Len(up[c]) - 1 :
             sent[c] - Len(up[c]) + (i + 1) = sent'[c] - (Len(up[c]) - 1) + i
      BY <2>1, <2>3
    <3> QED
      BY <2>1, <3>1, <3>2, <3>3
  <2>6. \A e \in Clients : e # c => loop'[e] = loop[e]
    BY <1>6 DEF Read, TypeInv
  <2>7. ASSUME NEW e \in Clients, e # c
        PROVE  /\ \A i \in 1 .. Len(up'[e]) : up'[e][i].n = sent'[e] - Len(up'[e]) + i
               /\ conn'[e] # "broken" /\ loop'[e] \in {"snapshot", "write"} =>
                     data'[e].n = sent'[e] - Len(up'[e])
    BY <2>1, <2>3, <2>6, <2>7 DEF NumberInv
  <2> QED
    BY <2>4, <2>5, <2>7 DEF NumberInv
<1>7. ASSUME NEW c \in Clients, ReadFails(c)
      PROVE  NumberInv'
  BY <1>7 DEF ReadFails, wire, handler, client, past, Drop, Done, TypeInv, NumberInv, RegistryInv
<1>8. ASSUME NEW c \in Clients, Snapshot(c)
      PROVE  NumberInv'
  BY <1>8 DEF Snapshot, wire, handler, client, past, Drop, Done, TypeInv, NumberInv, RegistryInv
<1>9. ASSUME NEW c \in Clients, Written(c)
      PROVE  NumberInv'
  BY <1>9 DEF Written, wire, handler, client, past, Drop, Done, TypeInv, NumberInv, RegistryInv
<1>10. ASSUME NEW c \in Clients, unregister(c)
      PROVE  NumberInv'
  BY <1>10 DEF unregister, wire, handler, client, past, Drop, Done, TypeInv, NumberInv, RegistryInv
<1>11. ASSUME NEW c \in Clients, NEW d \in Clients, Write(c, d)
      PROVE  NumberInv'
  BY <1>11 DEF Write, wire, handler, client, past, Drop, Done, TypeInv, NumberInv, RegistryInv
<1>12. ASSUME NEW c \in Clients, NEW d \in Clients, WriteFails(c, d)
      PROVE  NumberInv'
  <2>1. /\ \A e \in Clients : e # d => up'[e] = up[e] /\ conn'[e] = conn[e]
        /\ \/ up'[d] = up[d] /\ conn'[d] = conn[d]
           \/ up'[d] = <<>> /\ conn'[d] = "broken"
        /\ UNCHANGED <<loop, data, sent>>
    BY <1>12 DEF WriteFails, Breaks, TypeInv, client
  <2>2. Len(<<>>) = 0
    OBVIOUS
  <2> QED
    BY <2>1, <2>2 DEF NumberInv
<1> QED
  BY <1>1, <1>2, <1>3, <1>4, <1>5, <1>6, <1>7, <1>8, <1>9, <1>10, <1>11, <1>12, Steps

LEMMA ReachesStep ==
  ASSUME TypeInv, HandlerInv, RegistryInv, ReachesRegistered, [Next]_vars
  PROVE  ReachesRegistered'
<1>1. CASE Silent
  BY <1>1 DEF Silent, handler, past, TypeInv, HandlerInv, ReachesRegistered
<1>2. ASSUME NEW c \in Clients, Connect(c)
      PROVE  ReachesRegistered'
  BY <1>2 DEF Connect, wire, handler, client, past, Drop, Done, TypeInv, HandlerInv, ReachesRegistered, RegistryInv, Messages
<1>3. ASSUME NEW c \in Clients, Send(c)
      PROVE  ReachesRegistered'
  BY <1>3 DEF Send, wire, handler, client, past, Drop, Done, TypeInv, HandlerInv, ReachesRegistered, RegistryInv, Messages
<1>4. ASSUME NEW c \in Clients, Close(c)
      PROVE  ReachesRegistered'
  BY <1>4 DEF Close, wire, handler, client, past, Drop, Done, TypeInv, HandlerInv, ReachesRegistered, RegistryInv, Messages
<1>5. ASSUME NEW c \in Clients, register(c)
      PROVE  ReachesRegistered'
  BY <1>5 DEF register, wire, handler, client, past, Drop, Done, TypeInv, HandlerInv, ReachesRegistered, RegistryInv, Messages
<1>6. ASSUME NEW c \in Clients, Read(c)
      PROVE  ReachesRegistered'
  <2>1. UNCHANGED <<conn, conns, heard, owed, missed>> /\ conns[c] = {}
    BY <1>6 DEF Read, past, HandlerInv
  <2>2. ASSUME NEW e \in Clients, NEW m \in owed[e], e \in conns[m.from]
        PROVE  data'[m.from] = data[m.from]
    <3>1. m.from \in Clients /\ m.from # c
      BY <2>1, <2>2 DEF TypeInv, Messages
    <3> QED
      BY <1>6, <3>1 DEF Read, TypeInv
  <2> QED
    BY <2>1, <2>2 DEF ReachesRegistered, Contains
<1>7. ASSUME NEW c \in Clients, ReadFails(c)
      PROVE  ReachesRegistered'
  BY <1>7 DEF ReadFails, wire, handler, client, past, Drop, Done, TypeInv, HandlerInv, ReachesRegistered, RegistryInv, Messages
<1>8. ASSUME NEW c \in Clients, Snapshot(c)
      PROVE  ReachesRegistered'
  BY <1>8 DEF Snapshot, wire, handler, client, past, Drop, Done, TypeInv, HandlerInv, ReachesRegistered, RegistryInv, Messages
<1>9. ASSUME NEW c \in Clients, Written(c)
      PROVE  ReachesRegistered'
  BY <1>9 DEF Written, wire, handler, client, past, Drop, Done, TypeInv, HandlerInv, ReachesRegistered, RegistryInv, Messages
<1>10. ASSUME NEW c \in Clients, unregister(c)
      PROVE  ReachesRegistered'
  BY <1>10 DEF unregister, wire, handler, client, past, Drop, Done, TypeInv, HandlerInv, ReachesRegistered, RegistryInv, Messages
<1>11. ASSUME NEW c \in Clients, NEW d \in Clients, Write(c, d)
      PROVE  ReachesRegistered'
  <2>1. /\ UNCHANGED <<conn, data, owed, missed>> /\ data[c] \in Messages /\ data[c].from = c
        /\ heard'[d] = Append(heard[d], data[c]) /\ heard[d] \in Seq(Messages)
        /\ \A e \in Clients : e # d => heard'[e] = heard[e]
        /\ conns'[c] = conns[c] \ {d}
        /\ \A e \in Clients : e # c => conns'[e] = conns[e]
    BY <1>11 DEF Write, Done, TypeInv, HandlerInv
  <2>2. /\ Contains(heard'[d], data[c])
        /\ \A m : Contains(heard[d], m) => Contains(heard'[d], m)
    <3>1. /\ Len(heard'[d]) = Len(heard[d]) + 1 /\ Len(heard[d]) \in Nat
          /\ heard'[d][Len(heard[d]) + 1] = data[c]
          /\ \A i \in 1 .. Len(heard[d]) : heard'[d][i] = heard[d][i]
      BY <2>1
    <3>2. /\ Len(heard[d]) + 1 \in 1 .. Len(heard'[d])
          /\ \A i \in 1 .. Len(heard[d]) : i \in 1 .. Len(heard'[d])
      BY <3>1
    <3> QED
      BY <3>1, <3>2 DEF Contains
  <2>3. ASSUME NEW e \in Clients, NEW m \in owed[e], data[m.from] = m, e \in conns[m.from]
        PROVE  e \in conns'[m.from] \/ (e = d /\ m = data[c])
    <3>1. m.from \in Clients
      BY <2>3 DEF TypeInv, Messages
    <3> QED
      BY <2>1, <2>3, <3>1
  <2>4. \A e \in Clients : \A m : Contains(heard[e], m) => Contains(heard'[e], m)
    BY <2>1, <2>2
  <2>5. ASSUME NEW e \in Clients, NEW m \in owed[e]
        PROVE  \/ Contains(heard'[e], m) \/ conn[e] # "open" \/ m \in missed[e]
               \/ data[m.from] = m /\ e \in conns'[m.from]
    <3>1. CASE Contains(heard[e], m)
      BY <2>4, <3>1
    <3>2. CASE data[m.from] = m /\ e \in conns[m.from]
      BY <2>2, <2>3, <3>2
    <3> QED
      BY <3>1, <3>2 DEF ReachesRegistered
  <2> QED
    BY <2>1, <2>5 DEF ReachesRegistered
<1>12. ASSUME NEW c \in Clients, NEW d \in Clients, WriteFails(c, d)
      PROVE  ReachesRegistered'
  <2>1. /\ UNCHANGED data
        /\ conns'[c] = conns[c] \ {d} /\ \A e \in Clients : e # c => conns'[e] = conns[e]
    BY <1>12 DEF WriteFails, Done, TypeInv
  <2>2. ASSUME NEW e \in Clients, e # d
        PROVE  /\ conn'[e] = conn[e] /\ heard'[e] = heard[e] /\ owed'[e] = owed[e]
               /\ missed'[e] = missed[e]
    BY <1>12, <2>2 DEF WriteFails, Breaks, Drop, TypeInv
  <2>3. \/ owed'[d] = {}
        \/ UNCHANGED <<conn, heard, owed>> /\ missed'[d] = missed[d] \cup {data[c]}
    BY <1>12 DEF WriteFails, Breaks, Drop, TypeInv
  <2>4. ASSUME NEW e \in Clients, NEW m \in owed[e], data[m.from] = m, e \in conns[m.from]
        PROVE  e \in conns'[m.from] \/ (e = d /\ m = data[c])
    <3>1. m.from \in Clients
      BY <2>4 DEF TypeInv, Messages
    <3> QED
      BY <2>1, <2>4, <3>1
  <2> QED
    BY <2>1, <2>2, <2>3, <2>4 DEF ReachesRegistered
<1> QED
  BY <1>1, <1>2, <1>3, <1>4, <1>5, <1>6, <1>7, <1>8, <1>9, <1>10, <1>11, <1>12, Steps

LEMMA OrderStep ==
  ASSUME TypeInv, HandlerInv, HeardInv, SendersInOrder, [Next]_vars
  PROVE  SendersInOrder'
<1>1. \A c \in Clients : InOrder(heard[c], missed[c])
  BY DEF SendersInOrder, InOrder
<1>2. ASSUME NEW d \in Clients
      PROVE  InOrder(heard'[d], missed'[d])
  <2>1. CASE heard'[d] = heard[d] /\ missed[d] \subseteq missed'[d]
    BY <1>1, <2>1, FollowsStays DEF InOrder
  <2>2. CASE heard'[d] = <<>>
    BY <2>2 DEF InOrder
  <2>3. ASSUME NEW c \in Clients, Write(c, d), data[c].from = c, missed' = missed,
               heard'[d] = Append(heard[d], data[c])
        PROVE  InOrder(heard'[d], missed'[d])
    <3>1. /\ heard[d] \in Seq(Messages) /\ data[c] \in Messages
          /\ loop[c] = "write" /\ d \in conns[c]
      BY <2>3 DEF TypeInv, Write
    <3>2. \A i \in 1 .. Len(heard[d]) : LastFrom(heard[d], c, i) =>
             Follows(missed[d], c, heard[d][i].n, data[c].n)
      BY <3>1 DEF HeardInv, Told
    <3> QED
      BY <1>1, <2>3, <3>1, <3>2, AppendKeepsOrder
  <2> QED
    BY <2>1, <2>2, <2>3, Hears
<1> QED
  BY <1>2 DEF SendersInOrder, InOrder

LEMMA HeardStep ==
  ASSUME TypeInv, HandlerInv, RegistryInv, NumberInv, HeardInv, [Next]_vars
  PROVE  HeardInv'
<1> SUFFICES ASSUME NEW e \in Clients, NEW s \in Clients, NEW i \in 1 .. Len(heard'[e]),
                    LastFrom(heard'[e], s, i)
             PROVE  Told(missed[e], e, s, heard[e][i].n)'
  BY DEF HeardInv, Told
<1> TypeInv'
  BY TypeStep
<1> heard'[e] # <<>>
  <2>1. Len(<<>>) = 0
    OBVIOUS
  <2> QED
    BY <2>1
<1>1. CASE heard'[e] = heard[e] /\ missed[e] \subseteq missed'[e]
  <2> SUFFICES ASSUME NEW n, n = heard[e][i].n, NEW gone, gone = missed'[e]
               PROVE  Told(gone, e, s, n)'
    BY <1>1 DEF Told
  <2>1. Told(gone, e, s, n) /\ e \in clients /\ n \in Nat
    <3>1. Told(missed[e], e, s, n)
      BY <1>1 DEF HeardInv
    <3>2. e \in clients /\ n \in Nat
      <4>1. heard[e] \in Seq(Messages) /\ heard[e] # <<>>
        BY <1>1 DEF TypeInv
      <4>2. heard[e][i] \in Messages
        BY <1>1, <4>1
      <4> QED
        BY <4>1, <4>2 DEF RegistryInv, Messages
    <3> QED
      BY <1>1, <3>1, <3>2, FollowsStays DEF Told
  <2>2. CASE Silent
    BY <2>1, <2>2 DEF Silent, handler, Told
  <2>3. ASSUME NEW c \in Clients, Connect(c)
        PROVE  Told(gone, e, s, n)'
    BY <1>1, <2>1, <2>3 DEF Connect, wire, handler, client, Told, TypeInv, RegistryInv
  <2>4. ASSUME NEW c \in Clients, Send(c)
        PROVE  Told(gone, e, s, n)'
    BY <1>1, <2>1, <2>4 DEF Send, wire, handler, client, Told, TypeInv, RegistryInv
  <2>5. ASSUME NEW c \in Clients, Close(c)
        PROVE  Told(gone, e, s, n)'
    BY <1>1, <2>1, <2>5 DEF Close, wire, handler, client, Told, TypeInv, RegistryInv
  <2>6. ASSUME NEW c \in Clients, register(c)
        PROVE  Told(gone, e, s, n)'
    BY <1>1, <2>1, <2>6 DEF register, wire, handler, client, Told, TypeInv, RegistryInv
  <2>7. ASSUME NEW c \in Clients, Read(c)
        PROVE  Told(gone, e, s, n)'
    <3>1. /\ data'[c].n = sent[c] - Len(up'[c]) /\ Len(up'[c]) = Len(up[c]) - 1
          /\ Len(up[c]) \in Nat
          /\ \A d \in Clients : d # c => up'[d] = up[d] /\ data'[d] = data[d]
      <4>1. loop'[c] = "snapshot" /\ conn'[c] # "broken" /\ sent'[c] = sent[c]
        BY <2>7 DEF Read, TypeInv, client
      <4>2. NumberInv'
        BY NumberStep
      <4>3. data'[c].n = sent'[c] - Len(up'[c])
        BY <4>1, <4>2 DEF NumberInv
      <4> QED
        BY <2>7, <4>1, <4>3, ReadShifts
    <3>2. /\ UNCHANGED <<conn, conns, sent>> /\ loop'[c] = "snapshot"
          /\ \A d \in Clients : d # c => loop'[d] = loop[d]
      BY <2>7 DEF Read, client, TypeInv
    <3>3. CASE s = c
      <4>1. Follows(gone, c, n, sent[c] - Len(up[c]) + 1) /\ sent[c] \in Nat
        BY <2>1, <2>7, <3>3 DEF Told, Read, TypeInv
      <4>2. sent[c] - Len(up[c]) + 1 = data'[c].n
        BY <3>1, <4>1
      <4> QED
        BY <3>2, <3>3, <4>1, <4>2 DEF Told
    <3>4. CASE s # c
      BY <2>1, <3>1, <3>2, <3>4 DEF Told
    <3> QED
      BY <3>3, <3>4
  <2>8. ASSUME NEW c \in Clients, ReadFails(c)
        PROVE  Told(gone, e, s, n)'
    BY <1>1, <2>1, <2>8 DEF ReadFails, wire, handler, client, Told, TypeInv, RegistryInv
  <2>9. ASSUME NEW c \in Clients, Snapshot(c)
        PROVE  Told(gone, e, s, n)'
    BY <1>1, <2>1, <2>9 DEF Snapshot, wire, client, Told, TypeInv, RegistryInv
  <2>10. ASSUME NEW c \in Clients, Written(c)
        PROVE  Told(gone, e, s, n)'
    BY <1>1, <2>1, <2>10 DEF Written, wire, client, Told, NumberInv, TypeInv
  <2>11. ASSUME NEW c \in Clients, unregister(c)
        PROVE  Told(gone, e, s, n)'
    BY <1>1, <2>1, <2>11 DEF unregister, wire, client, Told, TypeInv
  <2>12. ASSUME NEW c \in Clients, NEW d \in Clients, Write(c, d)
        PROVE  Told(gone, e, s, n)'
    BY <1>1, <2>1, <2>12 DEF Write, Done, client, Told, TypeInv
  <2>13. ASSUME NEW c \in Clients, NEW d \in Clients, WriteFails(c, d)
        PROVE  Told(gone, e, s, n)'
    <3>1. /\ UNCHANGED <<loop, data, sent>> /\ loop[c] = "write" /\ data[c] \in Messages
          /\ data[c].from = c
          /\ conns'[c] = conns[c] \ {d} /\ \A f \in Clients : f # c => conns'[f] = conns[f]
      BY <2>13 DEF WriteFails, Done, client, TypeInv, HandlerInv
    <3>2. /\ conn'[s] # "broken" => up'[s] = up[s] /\ conn[s] # "broken"
          /\ d = e => data[c] \in gone
      <4>1. CASE Breaks(d)
        <5>1. conn'[s] # "broken" => up'[s] = up[s] /\ conn[s] # "broken"
          BY <4>1 DEF Breaks, TypeInv
        <5>2. heard'[d] = <<>>
          BY <4>1 DEF Breaks, Drop, TypeInv
        <5> QED
          BY <5>1, <5>2
      <4>2. CASE UNCHANGED <<conn, up>> /\ missed' = [missed EXCEPT ![d] = @ \cup {data[c]}]
        BY <4>2 DEF TypeInv
      <4> QED
        BY <2>13, <4>1, <4>2 DEF WriteFails
    <3>3. CASE s = c /\ d = e /\ e \in conns[c]
      <4>1. Follows(gone, c, n, data[c].n)
        BY <2>1, <3>1, <3>3 DEF Told
      <4>2. data[c] = [from |-> c, n |-> data[c].n] /\ data[c].n \in Nat
        BY <3>1 DEF Messages
      <4>3. gone \cup {[from |-> c, n |-> data[c].n]} = gone
        BY <3>2, <3>3, <4>2
      <4>4. Follows(gone, c, n, data[c].n + 1)
        BY <2>1, <4>1, <4>2, <4>3, FollowsNext
      <4> QED
        BY <3>1, <3>3, <4>4 DEF Told
    <3>4. CASE ~(s = c /\ d = e /\ e \in conns[c])
      BY <2>1, <3>1, <3>2, <3>4 DEF Told
    <3> QED
      BY <3>3, <3>4
  <2> QED
    BY <1>1, <2>2, <2>3, <2>4, <2>5, <2>6, <2>7, <2>8, <2>9, <2>10, <2>11, <2>12, <2>13, Steps
<1>2. ASSUME NEW c \in Clients, Write(c, e), data[c].from = c,
             missed' = missed, heard'[e] = Append(heard[e], data[c])
      PROVE  Told(missed[e], e, s, heard[e][i].n)'
  <2>1. heard[e] \in Seq(Messages) /\ data[c] \in Messages
    BY DEF TypeInv
  <2>2. i \in 1 .. Len(heard[e]) + 1
    BY <1>2, <2>1
  <2>3. IF s = c THEN heard'[e][i] = data[c]
                 ELSE /\ i \in 1 .. Len(heard[e]) /\ LastFrom(heard[e], s, i)
                      /\ heard'[e][i] = heard[e][i]
    BY <1>2, <2>1, <2>2, AppendLast
  <2>4. /\ UNCHANGED <<conn, up, loop, data, sent>> /\ loop[c] = "write" /\ e \notin conns'[c]
        /\ \A d \in Clients : d # c => conns'[d] = conns[d]
    BY <1>2 DEF Write, Done, client, TypeInv
  <2>5. CASE s = c
    <3>1. Follows(missed[e], c, data[c].n, data[c].n + 1)
      BY <2>1, FollowsItself DEF Messages
    <3> QED
      BY <1>2, <2>3, <2>4, <2>5, <3>1 DEF Told
  <2>6. CASE s # c
    <3>1. Told(missed[e], e, s, heard[e][i].n)
      BY <2>3, <2>6 DEF HeardInv
    <3> QED
      BY <1>2, <2>3, <2>4, <2>6, <3>1 DEF Told
  <2> QED
    BY <2>5, <2>6
<1> QED
  BY <1>1, <1>2, Hears

-----------------------------------------------------------------------------
THEOREM Invariant == Spec => []IInv
<1>1. Init => IInv
  <2> SUFFICES ASSUME Init
               PROVE  IInv
    OBVIOUS
  <2>1. TypeInv
    BY NoMessageIsOne DEF Init, TypeInv
  <2>2. HandlerInv /\ RegistryInv /\ NumberInv /\ ReachesRegistered
    BY DEF Init, HandlerInv, RegistryInv, NumberInv, ReachesRegistered
  <2>3. HeardInv /\ SendersInOrder
    <3>1. Len(<<>>) = 0 /\ DOMAIN <<>> = {}
      OBVIOUS
    <3> QED
      BY <3>1 DEF Init, HeardInv, SendersInOrder
  <2> QED
    BY <2>1, <2>2, <2>3 DEF IInv
<1>2. IInv /\ [Next]_vars => IInv'
  BY TypeStep, HandlerStep, RegistryStep, NumberStep, HeardStep, ReachesStep, OrderStep DEF IInv
<1> QED
  BY <1>1, <1>2, PTL DEF Spec

\* "Every message reaches every client" (main.go:114), but for those that do
\* not read: whoever was registered when broadcast took its snapshot has heard
\* the message, is still to be written to, has lost its connection, or let the
\* deadline of the write pass.
THEOREM MessagesReachWhoIsRegistered == Spec => []ReachesRegistered
BY Invariant, PTL DEF IInv

\* A client hears every sender in order and nothing twice, though broadcast
\* writes outside the lock and to a snapshot, and misses a message in between
\* only where its own write timed out.
THEOREM EverySenderInOrder == Spec => []SendersInOrder
BY Invariant, PTL DEF IInv
=============================================================================
