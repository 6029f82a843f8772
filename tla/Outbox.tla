------------------------------- MODULE Outbox --------------------------------
(***************************************************************************)
(* The transactional outbox of examples/outbox-pattern: PlaceOrder writes  *)
(* an order and its event in one transaction, relays poll the outbox,      *)
(* publish each pending event and then mark it dispatched, and the broker  *)
(* drops the events it has already seen.  Relays may die anywhere and may  *)
(* overlap.  The dual write that the pattern replaces is modelled too.     *)
(*                                                                         *)
(* The database has one connection (SetMaxOpenConns(1)): while a           *)
(* transaction is open every other statement waits.                        *)
(***************************************************************************)
EXTENDS Naturals, Sequences

CONSTANTS
  Relays,
  MaxOrders,    \* bound: rows of the orders table
  MaxCrashes    \* bound: deaths of relays

ASSUME BoundAssumption == MaxOrders \in Nat /\ MaxCrashes \in Nat

VARIABLES
  \* the database; a row's id is its position
  orders,       \* how each order got there: "placed" or "direct"
  outbox,       \* [order, dispatched]
  tx,           \* progress of the open transaction, "none" when there is none
  \* the relays
  pc, batch,    \* events read and not yet handled
  crashes,
  \* the broker
  delivered, dupes

db     == <<orders, outbox, tx>>
relay  == <<pc, batch, crashes>>
broker == <<delivered, dupes>>
vars   == <<db, relay, broker>>

Events == DOMAIN outbox
Seen   == {delivered[i] : i \in DOMAIN delivered}

Rows == [order : Nat \ {0}, dispatched : BOOLEAN]

TypeOK ==
  /\ orders \in Seq({"placed", "direct"})
  /\ outbox \in Seq(Rows)
  /\ tx \in {"none", "begun", "ordered", "evented"}
  /\ pc \in [Relays -> {"idle", "publish", "mark"}]
  /\ batch \in [Relays -> Seq(Nat)]
  /\ crashes \in 0 .. MaxCrashes
  /\ delivered \in Seq(Nat)
  /\ dupes \in Nat

Init ==
  /\ orders = <<>> /\ outbox = <<>> /\ tx = "none"
  /\ pc = [r \in Relays |-> "idle"]
  /\ batch = [r \in Relays |-> <<>>]
  /\ crashes = 0
  /\ delivered = <<>> /\ dupes = 0

-----------------------------------------------------------------------------
(* PlaceOrder.  Its inserts stay in the transaction until Commit.          *)
Begin ==
  /\ tx = "none" /\ Len(orders) < MaxOrders
  /\ tx' = "begun"
  /\ UNCHANGED <<orders, outbox, relay, broker>>

InsertOrderOutsideTx ==   \* mutant: the order is written on its own
  /\ tx = "begun"
  /\ tx' = "ordered"
  /\ orders' = Append(orders, "placed")
  /\ UNCHANGED <<outbox, relay, broker>>

InsertOrder ==
  /\ tx = "begun"
  /\ tx' = "ordered"
  /\ UNCHANGED <<orders, outbox, relay, broker>>

InsertEvent ==
  /\ tx = "ordered"
  /\ tx' = "evented"
  /\ UNCHANGED <<orders, outbox, relay, broker>>

Commit ==
  /\ tx = "evented"
  /\ tx' = "none"
  /\ orders' = Append(orders, "placed")
  /\ outbox' = Append(outbox, [order |-> Len(orders) + 1, dispatched |-> FALSE])
  /\ UNCHANGED <<relay, broker>>

\* A statement fails or the application dies: the deferred Rollback, or
\* SQLite's recovery, leaves no row of the transaction.
Rollback ==
  /\ tx # "none"
  /\ tx' = "none"
  /\ UNCHANGED <<orders, outbox, relay, broker>>

(* dualWriteProblem: commit the order, die before telling the broker. *)
DualWrite ==
  /\ tx = "none" /\ Len(orders) < MaxOrders
  /\ orders' = Append(orders, "direct")
  /\ UNCHANGED <<outbox, tx, relay, broker>>

-----------------------------------------------------------------------------
(* PendingEvents: the undispatched rows, by id.                            *)
Undispatched == {e \in Events : ~outbox[e].dispatched}

Lists(s, S) == {s[i] : i \in DOMAIN s} = S
ById(s)     == \A i, j \in DOMAIN s : i < j => s[i] < s[j]

(* Relay: one pass over what was pending when it began. *)
Take(r, s) ==
  /\ batch' = [batch EXCEPT ![r] = s]
  /\ pc' = [pc EXCEPT ![r] = "publish"]
  /\ UNCHANGED <<db, crashes, broker>>

PollNewestFirst(r) ==   \* mutant: ORDER BY id DESC
  /\ pc[r] = "idle" /\ tx = "none"
  /\ \E n \in Events : \E s \in [1 .. n -> Events] :
       /\ Lists(s, Undispatched)
       /\ \A i, j \in DOMAIN s : i < j => s[i] > s[j]
       /\ Take(r, s)

PollUnseen(r) ==   \* mutant: a cursor on what was published, not on the marks
  /\ pc[r] = "idle" /\ tx = "none"
  /\ \E n \in Events : \E s \in [1 .. n -> Events] :
       Lists(s, Undispatched \ Seen) /\ ById(s) /\ Take(r, s)

Poll(r) ==
  /\ pc[r] = "idle" /\ tx = "none"
  /\ \E n \in Events : \E s \in [1 .. n -> Events] :
       Lists(s, Undispatched) /\ ById(s) /\ Take(r, s)

PublishUnchecked(r) ==   \* mutant: the broker does not deduplicate
  /\ pc[r] = "publish"
  /\ delivered' = Append(delivered, Head(batch[r]))
  /\ pc' = [pc EXCEPT ![r] = "mark"]
  /\ UNCHANGED <<dupes, db, batch, crashes>>

Publish(r) ==
  /\ pc[r] = "publish"
  /\ LET e == Head(batch[r]) IN
       IF e \in Seen
       THEN dupes' = dupes + 1 /\ UNCHANGED delivered
       ELSE delivered' = Append(delivered, e) /\ UNCHANGED dupes
  /\ pc' = [pc EXCEPT ![r] = "mark"]
  /\ UNCHANGED <<db, batch, crashes>>

NextEvent(r) ==
  /\ batch' = [batch EXCEPT ![r] = Tail(@)]
  /\ pc' = [pc EXCEPT ![r] = IF Len(batch[r]) = 1 THEN "idle" ELSE "publish"]

MarkBatch(r) ==   \* mutant: one UPDATE for every event of the pass
  /\ pc[r] = "mark" /\ tx = "none"
  /\ outbox' = [e \in Events |->
       IF \E i \in DOMAIN batch[r] : batch[r][i] = e
       THEN [outbox[e] EXCEPT !.dispatched = TRUE] ELSE outbox[e]]
  /\ NextEvent(r)
  /\ UNCHANGED <<orders, tx, crashes, broker>>

Mark(r) ==
  /\ pc[r] = "mark" /\ tx = "none"
  /\ outbox' = [outbox EXCEPT ![Head(batch[r])].dispatched = TRUE]
  /\ NextEvent(r)
  /\ UNCHANGED <<orders, tx, crashes, broker>>

\* crashBeforeMark, a failing statement, or a death between two events.
Crash(r) ==
  /\ pc[r] # "idle" /\ crashes < MaxCrashes
  /\ crashes' = crashes + 1
  /\ pc' = [pc EXCEPT ![r] = "idle"]
  /\ batch' = [batch EXCEPT ![r] = <<>>]
  /\ UNCHANGED <<db, broker>>

PlaceOrder == Begin \/ InsertOrder \/ InsertEvent \/ Commit \/ Rollback
Relay(r)   == Poll(r) \/ Publish(r) \/ Mark(r)

Next ==
  \/ PlaceOrder
  \/ DualWrite
  \/ \E r \in Relays : Relay(r) \/ Crash(r)

(* A relay keeps polling (the connection is granted to it in the end); a   *)
(* transaction does not stay open.  Nobody has to place orders.            *)
Spec ==
  /\ Init /\ [][Next]_vars
  /\ WF_vars(InsertOrder \/ InsertEvent \/ Commit \/ Rollback)
  /\ \A r \in Relays : SF_vars(Relay(r))

-----------------------------------------------------------------------------
(* An order placed through the outbox has exactly one event, and nothing   *)
(* else has one: neither a rolled-back order nor a dual write.  The events *)
(* are in the order of the orders.                                         *)
EventIffPlaced ==
  /\ \A e \in Events : /\ outbox[e].order \in DOMAIN orders
                       /\ orders[outbox[e].order] = "placed"
  /\ \A o \in DOMAIN orders : orders[o] = "placed" =>
       \E e \in Events : outbox[e].order = o
  /\ \A d, e \in Events : d < e => outbox[d].order < outbox[e].order

(* Only an event the broker has is ever marked: publish, then mark.        *)
DispatchedIsDelivered ==
  \A e \in Events : outbox[e].dispatched => e \in Seen

(* The consumers see every event at most once, by id and without a gap,    *)
(* however many relays overlap and whenever they die.                      *)
DeliveredInOrder ==
  \A i \in DOMAIN delivered : delivered[i] = i /\ i \in Events

(* The outbox drains: every event is published and marked in the end.      *)
Drains ==
  \A e \in 1 .. MaxOrders :
    e \in Events ~> e \in Events /\ outbox[e].dispatched

(* What makes them inductive: the batch of a relay never skips an event    *)
(* that is not delivered, whatever the others did since it was read.       *)
BatchesFit ==
  \A r \in Relays :
    /\ pc[r] = "idle" <=> batch[r] = <<>>
    /\ \A i \in DOMAIN batch[r] : batch[r][i] \in Events
    /\ pc[r] = "publish" => batch[r][1] <= Len(delivered) + 1
    /\ pc[r] = "mark" => batch[r][1] <= Len(delivered)
    /\ \A i \in DOMAIN batch[r] : i > 1 =>
         \/ batch[r][i] <= batch[r][i - 1] + 1
         \/ batch[r][i] <= Len(delivered) + 1

TxFits == Len(orders) <= MaxOrders /\ (tx # "none" => Len(orders) < MaxOrders)

IInv ==
  /\ TypeOK /\ EventIffPlaced /\ DispatchedIsDelivered /\ DeliveredInOrder
  /\ BatchesFit /\ TxFits

(* The outbox keeps its promise.  EventIffPlaced says that the orders of   *)
(* its events are the orders placed, in the order of placement.            *)
Promise == INSTANCE OrderAnnouncements
             WITH Ids <- 1 .. MaxOrders,
                  placed <- [e \in Events |-> outbox[e].order],
                  announced <- [i \in DOMAIN delivered |-> outbox[delivered[i]].order]

KeepsPromise == Promise!Spec
=============================================================================
