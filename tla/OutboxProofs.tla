---------------------------- MODULE OutboxProofs ----------------------------
(***************************************************************************)
(* Proofs about Outbox, for any relays and bounds, and that it implements  *)
(* OrderAnnouncements (the safety part).                                   *)
(*                                                                         *)
(* What has been delivered is always the events 1 .. Len(delivered).  A    *)
(* relay works from an old list of pending events, but that list never     *)
(* skips an event that is not delivered, so the next event it publishes    *)
(* was delivered before or is the next one in line.                        *)
(***************************************************************************)
EXTENDS Outbox, TLAPS, SequenceTheorems

(* The shape of the sequences. *)
LEMMA Shape ==
  ASSUME TypeOK
  PROVE  /\ Len(orders) \in Nat /\ DOMAIN orders = 1 .. Len(orders)
         /\ Len(outbox) \in Nat /\ Events = 1 .. Len(outbox)
         /\ \A e \in Events : /\ outbox[e] \in Rows
                              /\ outbox[e] = [order |-> outbox[e].order,
                                              dispatched |-> outbox[e].dispatched]
         /\ Len(delivered) \in Nat /\ DOMAIN delivered = 1 .. Len(delivered)
         /\ \A r \in Relays : /\ batch[r] \in Seq(Nat)
                              /\ Len(batch[r]) \in Nat
                              /\ DOMAIN batch[r] = 1 .. Len(batch[r])
<1>1. \A e \in Events : outbox[e] \in Rows
  BY DEF TypeOK, Events
<1>2. QED
  BY <1>1 DEF TypeOK, Events, Rows

(* What has been delivered is the first so many events. *)
LEMMA SeenIsPrefix ==
  ASSUME TypeOK, DeliveredInOrder
  PROVE  /\ Seen = 1 .. Len(delivered)
         /\ Len(delivered) <= Len(outbox)
         /\ \A i \in 1 .. Len(delivered) : delivered[i] = i
<1>1. \A i \in 1 .. Len(delivered) : delivered[i] = i /\ i \in 1 .. Len(outbox)
  BY Shape DEF DeliveredInOrder
<1>2. QED
  BY <1>1, Shape DEF Seen

(* Empty tables and idle relays satisfy the invariant. *)
LEMMA InitIInv == Init => IInv
<1> SUFFICES ASSUME Init PROVE IInv
  OBVIOUS
<1>1. TypeOK
  BY EmptySeq, BoundAssumption DEF Init, TypeOK
<1>2. QED
  BY <1>1, BoundAssumption
  DEF Init, IInv, EventIffPlaced, DispatchedIsDelivered, DeliveredInOrder,
      BatchesFit, TxFits, Events, Seen

(* Steps of a transaction before its end, and its rollback. *)
LEMMA OpenTxIInv ==
  ASSUME IInv, Begin \/ InsertOrder \/ InsertEvent \/ Rollback
  PROVE  IInv'
<1> USE DEF Begin, InsertOrder, InsertEvent, Rollback, relay, broker
<1>1. TypeOK'
  BY DEF IInv, TypeOK, Rows
<1>2. /\ EventIffPlaced' /\ DispatchedIsDelivered' /\ DeliveredInOrder'
      /\ BatchesFit'
  BY DEF IInv, EventIffPlaced, DispatchedIsDelivered, DeliveredInOrder,
         BatchesFit, Events, Seen
<1>3. TxFits'
  BY Shape, BoundAssumption DEF IInv, TxFits
<1>4. QED
  BY <1>1, <1>2, <1>3 DEF IInv

(* The commit adds the order and its event together. *)
LEMMA CommitIInv ==
  ASSUME IInv, Commit
  PROVE  IInv'
<1> USE DEF Commit, relay, broker
<1> DEFINE row == [order |-> Len(orders) + 1, dispatched |-> FALSE]
<1>1. /\ orders' \in Seq({"placed", "direct"})
      /\ Len(orders') = Len(orders) + 1
      /\ \A o \in 1 .. Len(orders) : orders'[o] = orders[o]
      /\ orders'[Len(orders) + 1] = "placed"
  BY Shape DEF IInv, TypeOK
<1>2. /\ row \in Rows
      /\ row.order = Len(orders) + 1 /\ row.dispatched = FALSE
  BY Shape DEF IInv, Rows
<1>3. /\ outbox' \in Seq(Rows)
      /\ Len(outbox') = Len(outbox) + 1
      /\ \A e \in 1 .. Len(outbox) : outbox'[e] = outbox[e]
      /\ outbox'[Len(outbox) + 1] = row
  BY <1>2, Shape DEF IInv, TypeOK
<1>4. TypeOK'
  BY <1>1, <1>3 DEF IInv, TypeOK
<1>5. /\ DOMAIN orders' = 1 .. Len(orders) + 1
      /\ Events' = 1 .. Len(outbox) + 1
  BY <1>1, <1>3, <1>4 DEF TypeOK, Events
<1>6. EventIffPlaced'
  <2>1. ASSUME NEW e \in Events'
        PROVE  outbox'[e].order \in DOMAIN orders' /\ orders'[outbox'[e].order] = "placed"
    BY <1>1, <1>2, <1>3, <1>5, Shape DEF IInv, EventIffPlaced
  <2>2. ASSUME NEW o \in DOMAIN orders', orders'[o] = "placed"
        PROVE  \E e \in Events' : outbox'[e].order = o
    <3>1. CASE o \in DOMAIN orders
      BY <2>2, <3>1, <1>1, <1>3, <1>5, Shape DEF IInv, EventIffPlaced
    <3>2. CASE o = Len(orders) + 1
      <4>1. Len(outbox) + 1 \in Events'
        BY <1>5, Shape DEF IInv
      <4>2. QED
        BY <3>2, <4>1, <1>2, <1>3
    <3>3. QED
      BY <2>2, <3>1, <3>2, <1>5, Shape DEF IInv
  <2>3. ASSUME NEW d \in Events', NEW e \in Events', d < e
        PROVE  outbox'[d].order < outbox'[e].order
    <3>1. d \in Events
      BY <2>3, <1>5, Shape DEF IInv
    <3>2. outbox'[d] = outbox[d] /\ outbox[d].order \in 1 .. Len(orders)
      BY <3>1, <1>3, Shape DEF IInv, EventIffPlaced
    <3>3. CASE e \in Events
      BY <2>3, <3>1, <3>2, <3>3, <1>3, Shape DEF IInv, EventIffPlaced
    <3>4. CASE e = Len(outbox) + 1
      <4>1. outbox'[e].order = Len(orders) + 1
        BY <3>4, <1>2, <1>3, Zenon
      <4>2. outbox'[d].order = outbox[d].order
        BY <3>2, Zenon
      <4>3. outbox[d].order < Len(orders) + 1
        BY <3>2, Shape DEF IInv
      <4>4. QED
        BY <4>1, <4>2, <4>3, Zenon
    <3>5. QED
      BY <3>3, <3>4, <1>5, Shape DEF IInv
  <2>4. QED
    BY <2>1, <2>2, <2>3 DEF EventIffPlaced
<1>7. DispatchedIsDelivered'
  <2>1. ASSUME NEW e \in Events', outbox'[e].dispatched
        PROVE  e \in Events /\ outbox[e].dispatched
    <3>1. e # Len(outbox) + 1
      BY <2>1, <1>2, <1>3, Zenon
    <3>2. e \in Events /\ outbox'[e] = outbox[e]
      BY <3>1, <1>3, <1>5, Shape DEF IInv
    <3>3. QED
      BY <2>1, <3>2, Zenon
  <2>2. QED
    BY <2>1, Zenon DEF IInv, DispatchedIsDelivered, Seen
<1>8. DeliveredInOrder' /\ BatchesFit'
  BY <1>5, Shape DEF IInv, DeliveredInOrder, BatchesFit
<1>9. TxFits'
  BY <1>1, Shape, BoundAssumption DEF IInv, TxFits
<1>10. QED
  BY <1>4, <1>6, <1>7, <1>8, <1>9 DEF IInv

(* The dual write adds an order that no event speaks of. *)
LEMMA DualWriteIInv ==
  ASSUME IInv, DualWrite
  PROVE  IInv'
<1> USE DEF DualWrite, relay, broker
<1>1. /\ orders' \in Seq({"placed", "direct"})
      /\ Len(orders') = Len(orders) + 1
      /\ \A o \in 1 .. Len(orders) : orders'[o] = orders[o]
      /\ orders'[Len(orders) + 1] = "direct"
  BY Shape DEF IInv, TypeOK
<1>2. TypeOK'
  BY <1>1 DEF IInv, TypeOK
<1>3. DOMAIN orders' = 1 .. Len(orders) + 1 /\ DOMAIN orders = 1 .. Len(orders)
  BY <1>1, <1>2, Shape DEF IInv, TypeOK
<1>4. EventIffPlaced'
  <2>1. ASSUME NEW e \in Events
        PROVE  outbox[e].order \in DOMAIN orders' /\ orders'[outbox[e].order] = "placed"
    BY <1>1, <1>3, Shape DEF IInv, EventIffPlaced
  <2>2. ASSUME NEW o \in DOMAIN orders', orders'[o] = "placed"
        PROVE  o \in DOMAIN orders /\ orders[o] = "placed"
    BY <2>2, <1>1, <1>3, Shape DEF IInv
  <2>3. QED
    BY <2>1, <2>2 DEF IInv, EventIffPlaced, Events
<1>5. DispatchedIsDelivered' /\ DeliveredInOrder' /\ BatchesFit'
  BY DEF IInv, DispatchedIsDelivered, DeliveredInOrder, BatchesFit, Events, Seen
<1>6. TxFits'
  BY <1>1, Shape, BoundAssumption DEF IInv, TxFits
<1>7. QED
  BY <1>2, <1>4, <1>5, <1>6 DEF IInv

(* The pending events leave out only events that are delivered. *)
LEMMA PendingSkipsNothing ==
  ASSUME IInv, NEW n \in Events, NEW s \in [1 .. n -> Events],
         Lists(s, Undispatched), ById(s), NEW i \in 1 .. n, s[i] > 1
  PROVE  s[i] - 1 <= Len(delivered) \/ (i > 1 /\ s[i] - 1 = s[i - 1])
<1> DEFINE e == s[i] - 1
<1>1. Len(outbox) \in Nat /\ Events = 1 .. Len(outbox)
  BY Shape DEF IInv
<1>2. e \in Events
  BY <1>1
<1>3. CASE outbox[e].dispatched
  <2>1. e \in Seen
    BY <1>2, <1>3, Zenon DEF IInv, DispatchedIsDelivered
  <2>2. QED
    BY <2>1, SeenIsPrefix, Shape DEF IInv
<1>4. CASE ~outbox[e].dispatched
  <2>1. e \in {s[k] : k \in 1 .. n}
    BY <1>2, <1>4 DEF Lists, Undispatched
  <2>2. PICK j \in 1 .. n : s[j] = e
    BY <2>1
  <2>3. j < i
    BY <1>1, <2>2 DEF ById
  <2>4. ~(j < i - 1)
    <3>1. SUFFICES ASSUME j < i - 1 PROVE FALSE
      OBVIOUS
    <3>2. i - 1 \in 1 .. n /\ s[j] < s[i - 1] /\ s[i - 1] < s[i]
      BY <1>1, <3>1 DEF ById
    <3>3. s[i - 1] \in Nat /\ s[i] \in Nat
      BY <1>1, <3>2
    <3>4. QED
      BY <2>2, <3>2, <3>3
  <2>5. j = i - 1
    BY <1>1, <2>3, <2>4
  <2>6. QED
    BY <1>1, <2>2, <2>3, <2>5
<1>5. QED
  BY <1>3, <1>4

(* A poll reads a list that skips no undelivered event. *)
LEMMA PollIInv ==
  ASSUME IInv, NEW r \in Relays, Poll(r)
  PROVE  IInv'
<1>1. PICK n \in Events : \E s \in [1 .. n -> Events] :
               Lists(s, Undispatched) /\ ById(s) /\ Take(r, s)
  BY DEF Poll
<1>2. PICK s \in [1 .. n -> Events] :
               Lists(s, Undispatched) /\ ById(s) /\ Take(r, s)
  BY <1>1
<1> USE DEF Take, db, broker
<1>3. /\ Len(outbox) \in Nat /\ Events = 1 .. Len(outbox)
      /\ Len(delivered) \in Nat
  BY Shape DEF IInv
<1>4. n \in Nat \ {0} /\ s \in [1 .. n -> Nat]
  BY <1>3
<1>5. /\ s \in Seq(Nat) /\ Len(s) = n /\ DOMAIN s = 1 .. n /\ s # <<>>
  BY <1>4
<1>6. TypeOK'
  BY <1>2, <1>5 DEF IInv, TypeOK
<1>7. /\ batch' = [batch EXCEPT ![r] = s]
      /\ pc' = [pc EXCEPT ![r] = "publish"]
      /\ UNCHANGED <<orders, outbox, tx, crashes, delivered, dupes>>
  BY <1>2
<1>8. /\ EventIffPlaced' /\ DispatchedIsDelivered' /\ DeliveredInOrder'
      /\ TxFits'
  BY <1>7 DEF IInv, EventIffPlaced, DispatchedIsDelivered, DeliveredInOrder,
              TxFits, Events, Seen
<1>9. \A i \in 1 .. n : \/ s[i] = 1
                        \/ s[i] <= Len(delivered) + 1
                        \/ i > 1 /\ s[i] = s[i - 1] + 1
  <2>1. SUFFICES ASSUME NEW i \in 1 .. n, s[i] > 1
                 PROVE  \/ s[i] <= Len(delivered) + 1
                        \/ i > 1 /\ s[i] = s[i - 1] + 1
    BY <1>4, <1>3
  <2>2. s[i] - 1 <= Len(delivered) \/ (i > 1 /\ s[i] - 1 = s[i - 1])
    BY <2>1, <1>2, PendingSkipsNothing
  <2>3. s[i] \in Nat /\ (i > 1 => s[i - 1] \in Nat)
    BY <1>4
  <2>4. QED
    BY <2>2, <2>3, <1>3
<1>10. BatchesFit'
  <2>1. ASSUME NEW q \in Relays, q # r
        PROVE  batch'[q] = batch[q] /\ pc'[q] = pc[q]
    BY <2>1, <1>7 DEF IInv, TypeOK
  <2>2. batch'[r] = s /\ pc'[r] = "publish"
    BY <1>7 DEF IInv, TypeOK
  <2>3. s[1] <= Len(delivered) + 1
    BY <1>9, <1>4, <1>3
  <2>4. \A i \in 1 .. n : i > 1 =>
          s[i] <= s[i - 1] + 1 \/ s[i] <= Len(delivered) + 1
    BY <1>9, <1>4, <1>3
  <2>5. QED
    BY <2>1, <2>2, <2>3, <2>4, <1>5, <1>7 DEF IInv, BatchesFit, Events
<1>11. QED
  BY <1>6, <1>8, <1>10 DEF IInv

(* What a relay publishes was delivered before or is next in line. *)
LEMMA PublishIsNext ==
  ASSUME IInv, NEW r \in Relays, pc[r] = "publish"
  PROVE  /\ Head(batch[r]) = batch[r][1] /\ batch[r][1] \in Events
         /\ Head(batch[r]) \notin Seen => Head(batch[r]) = Len(delivered) + 1
<1>1. batch[r] \in Seq(Nat) /\ batch[r] # <<>>
  BY Shape DEF IInv, BatchesFit
<1>2. Head(batch[r]) = batch[r][1] /\ 1 \in DOMAIN batch[r]
  BY <1>1, EmptySeq
<1>3. batch[r][1] \in Events /\ batch[r][1] <= Len(delivered) + 1
  BY <1>2 DEF IInv, BatchesFit
<1>4. QED
  BY <1>2, <1>3, SeenIsPrefix, Shape DEF IInv

(* A publish delivers the next event or drops a duplicate. *)
LEMMA PublishIInv ==
  ASSUME IInv, NEW r \in Relays, Publish(r)
  PROVE  IInv'
<1> DEFINE e == Head(batch[r])
<1> USE DEF Publish, db
<1>1. /\ pc[r] = "publish" /\ pc' = [pc EXCEPT ![r] = "mark"]
      /\ UNCHANGED <<orders, outbox, tx, batch, crashes>>
  OBVIOUS
<1>2. e = batch[r][1] /\ e \in Events
  BY <1>1, PublishIsNext
<1>3. /\ Len(delivered) \in Nat /\ Len(outbox) \in Nat
      /\ Events = 1 .. Len(outbox)
  BY Shape DEF IInv
<1>4. /\ delivered' \in Seq(Nat) /\ Len(delivered') \in Nat
      /\ Len(delivered') >= Len(delivered) /\ e <= Len(delivered')
      /\ Len(delivered') <= Len(outbox)
      /\ \A i \in 1 .. Len(delivered') : delivered'[i] = i
      /\ dupes' \in Nat
  <2>1. CASE e \in Seen
    BY <2>1, <1>2, <1>3, SeenIsPrefix DEF IInv, TypeOK
  <2>2. CASE e \notin Seen
    <3>1. e = Len(delivered) + 1
      BY <1>1, <2>2, PublishIsNext
    <3>2. delivered' = Append(delivered, e) /\ dupes' = dupes
      BY <2>2
    <3>3. /\ delivered' \in Seq(Nat) /\ Len(delivered') = Len(delivered) + 1
          /\ \A i \in 1 .. Len(delivered) : delivered'[i] = delivered[i]
          /\ delivered'[Len(delivered) + 1] = e
      BY <3>1, <3>2, <1>3 DEF IInv, TypeOK
    <3>4. QED
      BY <3>1, <3>2, <3>3, <1>2, <1>3, SeenIsPrefix DEF IInv, TypeOK
  <2>3. QED
    BY <2>1, <2>2
<1>5. TypeOK'
  BY <1>1, <1>4 DEF IInv, TypeOK
<1>6. EventIffPlaced' /\ TxFits'
  BY <1>1 DEF IInv, EventIffPlaced, TxFits, Events
<1>7. DeliveredInOrder'
  BY <1>1, <1>3, <1>4, <1>5, Shape DEF DeliveredInOrder, TypeOK, Events
<1>8. Seen \subseteq Seen'
  BY <1>3, <1>4, <1>5, <1>7, SeenIsPrefix DEF IInv, DeliveredInOrder, Seen
<1>9. DispatchedIsDelivered'
  BY <1>1, <1>8, Zenon DEF IInv, DispatchedIsDelivered, Events
<1>10. BatchesFit'
  <2>1. \A q \in Relays : q # r => pc'[q] = pc[q]
    BY <1>1 DEF IInv, TypeOK
  <2>2. pc'[r] = "mark"
    BY <1>1 DEF IInv, TypeOK
  <2>3. \A q \in Relays : \A i \in DOMAIN batch[q] :
          batch[q][i] \in Nat /\ (i > 1 => batch[q][i - 1] \in Nat)
    BY Shape DEF IInv
  <2>4. \A q \in Relays :
          /\ pc[q] = "idle" <=> batch[q] = <<>>
          /\ \A i \in DOMAIN batch[q] : batch[q][i] \in Events
    BY DEF IInv, BatchesFit
  <2>5. \A q \in Relays : pc[q] # "idle" => batch[q][1] \in Nat
    BY <1>3, <2>4, Shape, EmptySeq DEF IInv
  <2>6. ASSUME NEW q \in Relays
        PROVE  /\ pc[q] = "publish" => batch[q][1] <= Len(delivered') + 1
               /\ pc[q] = "mark" => batch[q][1] <= Len(delivered')
    BY <1>3, <1>4, <2>5 DEF IInv, BatchesFit
  <2>7. ASSUME NEW q \in Relays, NEW i \in DOMAIN batch[q], i > 1
        PROVE  \/ batch[q][i] <= batch[q][i - 1] + 1
               \/ batch[q][i] <= Len(delivered') + 1
    <3>1. \/ batch[q][i] <= batch[q][i - 1] + 1
          \/ batch[q][i] <= Len(delivered) + 1
      BY <2>7 DEF IInv, BatchesFit
    <3>2. batch[q][i] \in Nat
      BY <2>3, <2>7
    <3> QED
      BY <1>3, <1>4, <3>1, <3>2
  <2>8. Events' = Events /\ batch' = batch /\ e = batch[r][1]
    BY <1>1, <1>2 DEF Events
  <2>9. QED
    BY <1>1, <1>4, <2>1, <2>2, <2>4, <2>6, <2>7, <2>8 DEF BatchesFit
<1>11. QED
  BY <1>5, <1>6, <1>7, <1>9, <1>10 DEF IInv

(* Only the empty sequence has no element. *)
LEMMA OnlyEmpty ==
  ASSUME NEW t \in Seq(Nat)
  PROVE  t = <<>> <=> Len(t) = 0
  BY EmptySeq

(* The rest of a batch. *)
LEMMA TailOf ==
  ASSUME NEW b \in Seq(Nat), b # <<>>
  PROVE  /\ Len(b) \in Nat \ {0} /\ DOMAIN b = 1 .. Len(b)
         /\ Tail(b) \in Seq(Nat) /\ DOMAIN Tail(b) = 1 .. Len(b) - 1
         /\ \A i \in 1 .. Len(b) - 1 : i + 1 \in DOMAIN b /\ Tail(b)[i] = b[i + 1]
         /\ Tail(b) = <<>> <=> Len(b) = 1
<1>1. Len(b) \in Nat \ {0} /\ DOMAIN b = 1 .. Len(b)
  BY EmptySeq
<1>2. /\ Tail(b) \in Seq(Nat) /\ Len(Tail(b)) = Len(b) - 1
      /\ \A i \in 1 .. Len(b) - 1 : Tail(b)[i] = b[i + 1]
  BY HeadTailProperties
<1>3. DOMAIN Tail(b) = 1 .. Len(b) - 1
  BY <1>2
<1>4. Tail(b) = <<>> <=> Len(b) = 1
  <2>1. Tail(b) = <<>> <=> Len(Tail(b)) = 0
    BY <1>2, OnlyEmpty, Zenon
  <2>2. Len(Tail(b)) = 0 <=> Len(b) = 1
    <3>1. ASSUME NEW m \in Nat \ {0}, NEW k, k = m - 1
          PROVE  k = 0 <=> m = 1
      BY <3>1
    <3>2. QED
      BY <1>1, <1>2, <3>1, Zenon
  <2>3. QED
    BY <2>1, <2>2, Zenon
<1>5. \A i \in 1 .. Len(b) - 1 : i + 1 \in DOMAIN b
  BY <1>1
<1>6. QED
  BY <1>1, <1>2, <1>3, <1>4, <1>5

(* The mark: what is marked is delivered, and the batch moves on. *)
LEMMA MarkIInv ==
  ASSUME IInv, NEW r \in Relays, Mark(r)
  PROVE  IInv'
<1> DEFINE h == Head(batch[r])
<1>1. /\ pc[r] = "mark" /\ tx = "none"
      /\ outbox' = [outbox EXCEPT ![h].dispatched = TRUE]
      /\ batch' = [batch EXCEPT ![r] = Tail(batch[r])]
      /\ pc' = [pc EXCEPT ![r] = IF Len(batch[r]) = 1 THEN "idle" ELSE "publish"]
      /\ UNCHANGED <<orders, tx, crashes, delivered, dupes>>
  BY DEF Mark, NextEvent, broker
<1>2. /\ Len(delivered) \in Nat /\ Len(outbox) \in Nat
      /\ Events = 1 .. Len(outbox)
  BY Shape DEF IInv
<1>3. batch[r] \in Seq(Nat) /\ batch[r] # <<>> /\ Len(batch[r]) \in Nat \ {0}
  BY <1>1, Shape, EmptySeq DEF IInv, BatchesFit
<1>4. /\ h = batch[r][1] /\ h \in Events
      /\ h <= Len(delivered) /\ h \in Nat
  BY <1>1, <1>2, <1>3 DEF IInv, BatchesFit
<1>5. /\ Tail(batch[r]) \in Seq(Nat)
      /\ DOMAIN Tail(batch[r]) = 1 .. Len(batch[r]) - 1
      /\ \A i \in 1 .. Len(batch[r]) - 1 :
           i + 1 \in DOMAIN batch[r] /\ Tail(batch[r])[i] = batch[r][i + 1]
      /\ Tail(batch[r]) = <<>> <=> Len(batch[r]) = 1
  BY <1>3, TailOf
<1>6. /\ Events' = Events
      /\ \A e \in Events : /\ outbox'[e].order = outbox[e].order
                           /\ e # h => outbox'[e] = outbox[e]
  BY <1>1, Shape DEF IInv, Events
<1>7. outbox' \in Seq(Rows)
  <2>1. outbox[h] \in Rows
    BY <1>4, Shape DEF IInv
  <2>2. [outbox[h] EXCEPT !.dispatched = TRUE] \in Rows
    BY <2>1 DEF Rows
  <2>3. outbox' = [outbox EXCEPT ![h] = [outbox[h] EXCEPT !.dispatched = TRUE]]
    BY <1>1
  <2>4. QED
    BY <1>2, <1>4, <2>2, <2>3, ExceptSeq DEF IInv, TypeOK
<1>8. TypeOK'
  BY <1>1, <1>5, <1>7 DEF IInv, TypeOK
<1>9. EventIffPlaced'
  BY <1>1, <1>6 DEF IInv, EventIffPlaced
<1>10. DeliveredInOrder' /\ TxFits'
  BY <1>1, <1>6 DEF IInv, DeliveredInOrder, TxFits
<1>11. DispatchedIsDelivered'
  <2>1. h \in Seen /\ Seen' = Seen
    BY <1>1, <1>2, <1>4, SeenIsPrefix DEF IInv, Seen
  <2>2. QED
    BY <1>6, <2>1, Zenon DEF IInv, DispatchedIsDelivered
<1>12. BatchesFit'
  <2>1. ASSUME NEW q \in Relays, q # r
        PROVE  batch'[q] = batch[q] /\ pc'[q] = pc[q]
    BY <2>1, <1>1 DEF IInv, TypeOK
  <2>2. /\ batch'[r] = Tail(batch[r])
        /\ pc'[r] = IF Len(batch[r]) = 1 THEN "idle" ELSE "publish"
    BY <1>1 DEF IInv, TypeOK
  <2>3. \A i \in DOMAIN batch[r] : batch[r][i] \in Nat
    BY <1>3
  <2>4. ASSUME NEW i \in 1 .. Len(batch[r]) - 1
        PROVE  /\ batch[r][i + 1] \in Events
               /\ \/ batch[r][i + 1] <= batch[r][i] + 1
                  \/ batch[r][i + 1] <= Len(delivered) + 1
    <3>1. i + 1 > 1 /\ (i + 1) - 1 = i
      BY <1>3
    <3>2. i + 1 \in DOMAIN batch[r]
      BY <1>5
    <3>3. QED
      BY <3>1, <3>2 DEF IInv, BatchesFit
  <2>5. Len(batch[r]) # 1 => Tail(batch[r])[1] <= Len(delivered) + 1
    <3>1. SUFFICES ASSUME Len(batch[r]) # 1
                   PROVE  Tail(batch[r])[1] <= Len(delivered) + 1
      OBVIOUS
    <3>2. 1 \in 1 .. Len(batch[r]) - 1 /\ 1 + 1 = 2
      <4>1. \A m \in Nat \ {0} : m # 1 => 1 \in 1 .. m - 1 /\ 1 + 1 = 2
        OBVIOUS
      <4>2. QED
        BY <1>3, <3>1, <4>1, Zenon
    <3>3. Tail(batch[r])[1] = batch[r][2] /\ 2 \in DOMAIN batch[r]
      BY <1>5, <3>2
    <3>4. batch[r][2] <= batch[r][1] + 1 \/ batch[r][2] <= Len(delivered) + 1
      BY <2>4, <3>2
    <3>5. batch[r][2] \in Nat
      BY <2>3, <3>3
    <3>6. QED
      BY <1>2, <1>4, <3>3, <3>4, <3>5
  <2>6. ASSUME NEW i \in DOMAIN Tail(batch[r])
        PROVE  /\ Tail(batch[r])[i] \in Events
               /\ i > 1 => \/ Tail(batch[r])[i] <= Tail(batch[r])[i - 1] + 1
                           \/ Tail(batch[r])[i] <= Len(delivered) + 1
    <3>1. i \in 1 .. Len(batch[r]) - 1 /\ Tail(batch[r])[i] = batch[r][i + 1]
      BY <1>5
    <3>2. CASE i > 1
      <4>1. i - 1 \in 1 .. Len(batch[r]) - 1 /\ (i - 1) + 1 = i
        BY <1>3, <3>1, <3>2
      <4>2. Tail(batch[r])[i - 1] = batch[r][i]
        BY <1>5, <4>1
      <4>3. QED
        BY <2>4, <3>1, <4>2
    <3>3. QED
      BY <2>4, <3>1, <3>2
  <2>7. ASSUME NEW q \in Relays, q # r
        PROVE  /\ pc'[q] = "idle" <=> batch'[q] = <<>>
               /\ \A i \in DOMAIN batch'[q] : batch'[q][i] \in Events
               /\ pc'[q] = "publish" => batch'[q][1] <= Len(delivered) + 1
               /\ pc'[q] = "mark" => batch'[q][1] <= Len(delivered)
               /\ \A i \in DOMAIN batch'[q] : i > 1 =>
                    \/ batch'[q][i] <= batch'[q][i - 1] + 1
                    \/ batch'[q][i] <= Len(delivered) + 1
    BY <2>1, <2>7 DEF IInv, BatchesFit
  <2>8. /\ pc'[r] = "idle" <=> batch'[r] = <<>>
        /\ pc'[r] = "publish" => batch'[r][1] <= Len(delivered) + 1
        /\ pc'[r] # "mark"
    BY <1>5, <2>2, <2>5
  <2>9. delivered' = delivered /\ Events' = Events
    BY <1>1, <1>6
  <2>10. QED
    BY <2>2, <2>6, <2>7, <2>8, <2>9 DEF BatchesFit
<1>13. QED
  BY <1>8, <1>9, <1>10, <1>11, <1>12 DEF IInv

(* A dead relay forgets its batch. *)
LEMMA CrashIInv ==
  ASSUME IInv, NEW r \in Relays, Crash(r)
  PROVE  IInv'
<1> USE DEF Crash, db, broker
<1>1. TypeOK'
  BY BoundAssumption, EmptySeq DEF IInv, TypeOK
<1>2. /\ EventIffPlaced' /\ DispatchedIsDelivered' /\ DeliveredInOrder'
      /\ TxFits'
  BY DEF IInv, EventIffPlaced, DispatchedIsDelivered, DeliveredInOrder,
         TxFits, Events, Seen
<1>3. BatchesFit'
  BY DEF IInv, TypeOK, BatchesFit, Events
<1>4. QED
  BY <1>1, <1>2, <1>3 DEF IInv

-----------------------------------------------------------------------------
(* IInv holds in every state of every behaviour. *)
THEOREM Inductive == Spec => []IInv
<1>1. IInv /\ [Next]_vars => IInv'
  <2> SUFFICES ASSUME IInv, [Next]_vars PROVE IInv'
    OBVIOUS
  <2>1. CASE UNCHANGED vars
    BY <2>1 DEF vars, db, relay, broker, IInv, TypeOK, EventIffPlaced,
                DispatchedIsDelivered, DeliveredInOrder, BatchesFit, TxFits,
                Events, Seen
  <2>2. CASE PlaceOrder
    BY <2>2, OpenTxIInv, CommitIInv DEF PlaceOrder
  <2>3. CASE DualWrite
    BY <2>3, DualWriteIInv
  <2>4. ASSUME NEW r \in Relays, Relay(r) \/ Crash(r) PROVE IInv'
    BY <2>4, PollIInv, PublishIInv, MarkIInv, CrashIInv DEF Relay
  <2>5. QED
    BY <2>1, <2>2, <2>3, <2>4 DEF Next
<1>2. QED
  BY InitIInv, <1>1, PTL DEF Spec

(* The tables, the relays' batches and the broker's log hold only orders    *)
(* and events that exist.                                                   *)
THEOREM TypeCorrect == Spec => []TypeOK
<1>1. IInv => TypeOK
  BY DEF IInv
<1>2. QED
  BY <1>1, Inductive, PTL

(* An order has an event exactly when it was placed through the outbox. *)
THEOREM AtomicPlacement == Spec => []EventIffPlaced
<1>1. IInv => EventIffPlaced
  BY DEF IInv
<1>2. QED
  BY <1>1, Inductive, PTL

(* No event is marked dispatched that the broker does not have. *)
THEOREM NothingIsLost == Spec => []DispatchedIsDelivered
<1>1. IInv => DispatchedIsDelivered
  BY DEF IInv
<1>2. QED
  BY <1>1, Inductive, PTL

(* Every event is delivered at most once, by id and without a gap. *)
THEOREM OrderOfDelivery == Spec => []DeliveredInOrder
<1>1. IInv => DeliveredInOrder
  BY DEF IInv
<1>2. QED
  BY <1>1, Inductive, PTL

-----------------------------------------------------------------------------
(* The refinement mapping. *)
Placed == [e \in Events |-> outbox[e].order]
Heard  == [i \in DOMAIN delivered |-> outbox[delivered[i]].order]

HeardFits ==
  /\ Placed \in Seq(Nat) /\ Len(Placed) = Len(outbox)
  /\ DOMAIN Placed = 1 .. Len(outbox)
  /\ Heard \in Seq(Nat) /\ Len(Heard) = Len(delivered)
  /\ DOMAIN Heard = 1 .. Len(delivered)
  /\ \A i \in 1 .. Len(delivered) : Heard[i] = Placed[i]
  /\ Len(delivered) <= Len(outbox)

(* What has been heard is a prefix of what was placed. *)
LEMMA HeardIsPrefix == IInv => HeardFits
<1> SUFFICES ASSUME IInv PROVE HeardFits
  OBVIOUS
<1>1. \A e \in 1 .. Len(outbox) : outbox[e].order \in Nat
  BY Shape DEF IInv, Rows
<1>2. /\ Placed \in Seq(Nat) /\ Len(Placed) = Len(outbox)
      /\ DOMAIN Placed = 1 .. Len(outbox)
  BY <1>1, Shape DEF IInv, Placed
<1>3. /\ Len(delivered) <= Len(outbox)
      /\ \A i \in 1 .. Len(delivered) : delivered[i] = i
  BY SeenIsPrefix DEF IInv
<1>4. \A i \in 1 .. Len(delivered) : Heard[i] = outbox[i].order /\ i \in 1 .. Len(outbox)
  BY <1>3, Shape DEF IInv, Heard
<1>5. /\ Heard \in Seq(Nat) /\ Len(Heard) = Len(delivered)
      /\ DOMAIN Heard = 1 .. Len(delivered)
  <2>1. DOMAIN Heard = 1 .. Len(delivered)
    BY Shape DEF IInv, Heard
  <2>2. Heard \in [1 .. Len(delivered) -> Nat]
    BY <1>1, <1>4, <2>1 DEF Heard
  <2>3. Len(delivered) \in Nat
    BY Shape DEF IInv
  <2>4. QED
    BY <2>1, <2>2, <2>3
<1>6. QED
  BY <1>2, <1>3, <1>4, <1>5, Shape DEF IInv, Placed, HeardFits

(* The same, in the next state. *)
LEMMA HeardPrimed == IInv' => HeardFits'
  BY HeardIsPrefix, PTL

(* A commit places one order more. *)
LEMMA CommitPlaces ==
  ASSUME IInv, IInv', Commit
  PROVE  Promise!Place
<1>1. Heard' = Heard
  BY SeenIsPrefix, Shape DEF IInv, Commit, broker, Heard
<1>2. Placed' = Append(Placed, Len(orders) + 1)
  <2>1. /\ Len(outbox') = Len(outbox) + 1
        /\ \A e \in 1 .. Len(outbox) : outbox'[e] = outbox[e]
        /\ outbox'[Len(outbox) + 1] = [order |-> Len(orders) + 1, dispatched |-> FALSE]
    BY Shape DEF IInv, TypeOK, Commit
  <2>2. outbox'[Len(outbox) + 1].order = Len(orders) + 1
    BY <2>1
  <2>3. /\ Len(outbox) \in Nat /\ Events = 1 .. Len(outbox)
        /\ Events' = 1 .. Len(outbox) + 1 /\ Len(orders) \in Nat
    BY <2>1, Shape DEF IInv, TypeOK, Events
  <2>4. /\ Placed' \in Seq(Nat) /\ Len(Placed') = Len(outbox) + 1
        /\ \A e \in 1 .. Len(outbox) : Placed'[e] = Placed[e]
        /\ Placed'[Len(outbox) + 1] = Len(orders) + 1
    <3>1. Placed' \in Seq(Nat) /\ Len(Placed') = Len(outbox')
      BY HeardPrimed DEF HeardFits
    <3>2. QED
      BY <2>1, <2>2, <2>3, <3>1 DEF Placed
  <2>5. Placed \in Seq(Nat) /\ Len(Placed) = Len(outbox)
    BY HeardIsPrefix DEF HeardFits
  <2>6. QED
    BY <2>3, <2>4, <2>5
<1>3. Len(orders) + 1 \in 1 .. MaxOrders
  BY Shape, BoundAssumption DEF IInv, TxFits, Commit
<1>4. QED
  BY <1>1, <1>2, <1>3 DEF Promise!Place, Placed, Heard

(* A publish announces the next order, or drops a duplicate. *)
LEMMA PublishAnnounces ==
  ASSUME IInv, IInv', NEW r \in Relays, Publish(r)
  PROVE  Promise!Announce \/ UNCHANGED <<Placed, Heard>>
<1> DEFINE e == Head(batch[r])
<1>1. outbox' = outbox /\ Placed' = Placed
  BY DEF Publish, db, Placed, Events
<1>2. CASE e \in Seen
  BY <1>1, <1>2 DEF Publish, Heard
<1>3. CASE e \notin Seen
  <2>1. e = Len(delivered) + 1 /\ e \in Events
    BY <1>3, PublishIsNext DEF Publish
  <2>2. delivered' = Append(delivered, e)
    BY <1>3 DEF Publish
  <2>3. Len(delivered) \in Nat /\ Len(delivered') = Len(delivered) + 1
    BY <2>1, <2>2, Shape DEF IInv, TypeOK
  <2>4. /\ Heard' \in Seq(Nat) /\ Len(Heard') = Len(delivered) + 1
        /\ \A i \in 1 .. Len(delivered) + 1 : Heard'[i] = Placed[i]
    BY <1>1, <2>3, HeardPrimed DEF HeardFits
  <2>5. /\ Heard \in Seq(Nat) /\ Len(Heard) = Len(delivered)
        /\ \A i \in 1 .. Len(delivered) : Heard[i] = Placed[i]
        /\ Len(Placed) = Len(outbox) /\ Len(delivered) < Len(outbox)
    BY <2>1, <2>3, HeardIsPrefix, Shape DEF IInv, HeardFits
  <2>6. Placed[Len(Heard) + 1] \in Nat
    BY <2>1, <2>5, HeardIsPrefix, Shape DEF IInv, HeardFits
  <2>7. Heard' = Append(Heard, Placed[Len(Heard) + 1])
    BY <2>3, <2>4, <2>5, <2>6
  <2>8. Len(Heard) < Len(Placed)
    BY <2>5
  <2>9. QED
    BY <1>1, <2>7, <2>8 DEF Promise!Announce, Placed, Heard
<1>4. QED
  BY <1>2, <1>3

(* The outbox implements what OrderAnnouncements allows. *)
THEOREM Implements == Spec => Promise!Safe
<1>1. Init => Promise!Init
  BY DEF Init, Promise!Init, Events
<1>2. IInv /\ IInv' /\ [Next]_vars => [Promise!Next]_(Promise!vars)
  <2> SUFFICES ASSUME IInv, IInv', [Next]_vars
               PROVE  Promise!Next \/ UNCHANGED <<Placed, Heard>>
    BY DEF Promise!vars, Placed, Heard
  <2>1. CASE UNCHANGED <<outbox, delivered>>
    BY <2>1 DEF Placed, Heard, Events
  <2>2. CASE Commit
    BY <2>2, CommitPlaces DEF Promise!Next
  <2>3. ASSUME NEW r \in Relays, Publish(r)
        PROVE  Promise!Next \/ UNCHANGED <<Placed, Heard>>
    BY <2>3, PublishAnnounces DEF Promise!Next
  <2>4. ASSUME NEW r \in Relays, Mark(r)
        PROVE  UNCHANGED <<Placed, Heard>>
    <3>1. /\ delivered' = delivered /\ Events' = Events
          /\ \A e \in Events : outbox'[e].order = outbox[e].order
      BY <2>4, Shape DEF IInv, Mark, broker, Events
    <3>2. \A i \in DOMAIN delivered : delivered[i] \in Events
      BY SeenIsPrefix, Shape DEF IInv
    <3>3. QED
      BY <3>1, <3>2 DEF Placed, Heard
  <2>5. QED
    BY <2>1, <2>2, <2>3, <2>4
    DEF Next, PlaceOrder, Begin, InsertOrder, InsertEvent, Rollback, DualWrite,
        Relay, Poll, Take, Crash, vars, db, relay, broker
<1>3. QED
  BY <1>1, <1>2, Inductive, PTL DEF Spec, Promise!Safe
=============================================================================
