------------------------ MODULE Dissemination_proofs ------------------------
(***************************************************************************)
(* Proofs about Dissemination, for any nodes, ids and payloads: what the   *)
(* data receivers are called with is, for each originator, in order,       *)
(* without repetition and as it was published.                             *)
(***************************************************************************)
EXTENDS Dissemination, TLAPS

\* What appending does to a sequence, element by element.
LEMMA Appended ==
    ASSUME NEW S, NEW s \in Seq(S), NEW e \in S
    PROVE  /\ Append(s, e) \in Seq(S)
           /\ Len(Append(s, e)) = Len(s) + 1
           /\ DOMAIN s = 1 .. Len(s) /\ Len(s) \in Nat
           /\ DOMAIN Append(s, e) = 1 .. Len(s) + 1
           /\ \A i \in 1 .. Len(s) : Append(s, e)[i] = s[i]
           /\ Append(s, e)[Len(s) + 1] = e
  OBVIOUS

-----------------------------------------------------------------------------
(* Types *)

LEMMA TypeInit == Init => TypeOK
  BY DEF Init, TypeOK

LEMMA TypeNext == TypeOK /\ [Next]_vars => TypeOK'
<1> SUFFICES ASSUME TypeOK, [Next]_vars PROVE TypeOK'
  OBVIOUS
<1>1. ASSUME NEW n \in Node, NEW data \in Payload, Publish(n, data)
      PROVE  TypeOK'
  <2>1. Append(published[self[n]], data) \in Seq(Payload)
    BY Appended DEF TypeOK
  <2> QED  BY <1>1, <2>1 DEF Publish, TypeOK
<1>2. ASSUME NEW n \in Node, NEW id \in Id, Restart(n, id)
      PROVE  TypeOK'
  <2>1. <<>> \in Seq(Delivery)
    OBVIOUS
  <2> QED  BY <1>2, <2>1 DEF Restart, TypeOK
<1>3. ASSUME NEW n \in Node, NEW id \in Id,
             NEW k \in 1 .. Len(published[id]), Deliver(n, id, k)
      PROVE  TypeOK'
  <2>1. published[id][k] \in Payload /\ k \in Nat
    BY DEF TypeOK
  <2>2. Version(id, k, published[id][k]) \in Delivery
    BY <2>1 DEF Version, Delivery
  <2>3. Append(delivered[n], Version(id, k, published[id][k])) \in Seq(Delivery)
    BY <2>2, Appended DEF TypeOK
  <2> QED  BY <1>3, <2>3 DEF Deliver, TypeOK
<1>4. CASE UNCHANGED vars
  BY <1>4 DEF vars, TypeOK
<1> QED  BY <1>1, <1>2, <1>3, <1>4 DEF Next

\* Every process has an id, and the receivers get versions of payloads.
THEOREM TypeCorrect == Spec => []TypeOK
  BY TypeInit, TypeNext, PTL DEF Spec

-----------------------------------------------------------------------------
(* Order *)

LEMMA OrderNext ==
    TypeOK /\ DeliveredOnceInOrder /\ [Next]_vars => DeliveredOnceInOrder'
<1> SUFFICES ASSUME TypeOK, DeliveredOnceInOrder, [Next]_vars
             PROVE  DeliveredOnceInOrder'
  OBVIOUS
<1>1. ASSUME NEW n \in Node, NEW data \in Payload, Publish(n, data)
      PROVE  DeliveredOnceInOrder'
  BY <1>1 DEF Publish, DeliveredOnceInOrder
<1>2. ASSUME NEW n \in Node, NEW id \in Id, Restart(n, id)
      PROVE  DeliveredOnceInOrder'
  BY <1>2 DEF Restart, DeliveredOnceInOrder, TypeOK
<1>3. ASSUME NEW n \in Node, NEW id \in Id,
             NEW k \in 1 .. Len(published[id]), Deliver(n, id, k)
      PROVE  DeliveredOnceInOrder'
  <2> DEFINE v == Version(id, k, published[id][k])
             D == delivered[n]
  <2>1. v \in Delivery
    BY DEF TypeOK, Version, Delivery
  <2>2. D \in Seq(Delivery)
    BY DEF TypeOK
  <2>3. /\ DOMAIN Append(D, v) = 1 .. Len(D) + 1 /\ Len(D) \in Nat
        /\ DOMAIN D = 1 .. Len(D)
        /\ \A i \in 1 .. Len(D) : Append(D, v)[i] = D[i]
        /\ Append(D, v)[Len(D) + 1] = v
    BY <2>1, <2>2, Appended
  <2>4. delivered' = [delivered EXCEPT ![n] = Append(D, v)]
    BY <1>3 DEF Deliver
  <2>5. SUFFICES ASSUME NEW i \in DOMAIN Append(D, v), NEW j \in DOMAIN Append(D, v),
                        i < j,
                        Append(D, v)[i].member_id = Append(D, v)[j].member_id
                 PROVE  Append(D, v)[i].sequence_number
                          < Append(D, v)[j].sequence_number
    <3> HIDE DEF v, D
    <3> QED  BY <2>4, <2>5 DEF DeliveredOnceInOrder, TypeOK
  <2>6. i \in 1 .. Len(D) /\ Append(D, v)[i] = D[i]
    BY <2>3, <2>5
  <2>7. CASE j \in 1 .. Len(D)
    <3>1. Append(D, v)[j] = D[j]
      BY <2>3, <2>7
    <3> QED  BY <2>3, <2>5, <2>6, <2>7, <3>1 DEF DeliveredOnceInOrder
  <2>8. CASE j = Len(D) + 1
    <3>1. Append(D, v)[j] = v /\ v.member_id = id /\ v.sequence_number = k
      BY <2>3, <2>8 DEF Version
    <3>2. D[i].member_id = id
      BY <2>5, <2>6, <3>1
    <3>3. D[i].sequence_number < k
      BY <1>3, <2>3, <2>6, <3>2 DEF Deliver
    <3> QED  BY <2>6, <3>1, <3>3
  <2> QED  BY <2>3, <2>5, <2>7, <2>8
<1>4. CASE UNCHANGED vars
  BY <1>4 DEF vars, DeliveredOnceInOrder
<1> QED  BY <1>1, <1>2, <1>3, <1>4 DEF Next

\* The data receiver of gossip_handle_data is called once per payload, and never
\* with an older payload of an originator after a newer one.
THEOREM OnceInOrder == Spec => []DeliveredOnceInOrder
<1>1. Init => DeliveredOnceInOrder
  BY DEF Init, DeliveredOnceInOrder
<1> QED  BY <1>1, TypeInit, TypeNext, OrderNext, PTL DEF Spec

-----------------------------------------------------------------------------
(* Contents *)

LEMMA ContentsNext ==
    TypeOK /\ DeliveredAsPublished /\ [Next]_vars => DeliveredAsPublished'
<1> SUFFICES ASSUME TypeOK, DeliveredAsPublished, [Next]_vars
             PROVE  DeliveredAsPublished'
  OBVIOUS
<1>1. ASSUME NEW n \in Node, NEW data \in Payload, Publish(n, data)
      PROVE  DeliveredAsPublished'
  <2> DEFINE P == published[self[n]]
  <2>1. P \in Seq(Payload) /\ self[n] \in Id
    BY DEF TypeOK
  <2>2. /\ Len(P) \in Nat /\ Len(Append(P, data)) = Len(P) + 1
        /\ \A i \in 1 .. Len(P) : Append(P, data)[i] = P[i]
    BY <2>1, Appended
  <2>3. /\ published' = [published EXCEPT ![self[n]] = Append(P, data)]
        /\ self' = self /\ delivered' = delivered
    BY <1>1 DEF Publish
  <2>4. ASSUME NEW id \in Id
        PROVE  /\ 1 .. Len(published[id]) \subseteq 1 .. Len(published'[id])
               /\ \A i \in 1 .. Len(published[id]) : published'[id][i] = published[id][i]
    <3>1. CASE id = self[n]
      <4>1. published'[id] = Append(P, data)
        BY <2>1, <2>3, <3>1 DEF TypeOK
      <4> QED  BY <2>2, <3>1, <4>1
    <3>2. CASE id # self[n]
      BY <2>3, <3>2 DEF TypeOK
    <3> QED  BY <3>1, <3>2
  <2>5. ASSUME NEW m \in Node, NEW i \in DOMAIN delivered[m]
        PROVE  delivered[m][i].member_id \in Id
    <3>1. delivered[m][i] \in Delivery
      BY DEF TypeOK
    <3> QED  BY <3>1 DEF Delivery
  <2> HIDE DEF P
  <2> QED  BY <2>3, <2>4, <2>5 DEF DeliveredAsPublished
<1>2. ASSUME NEW n \in Node, NEW id \in Id, Restart(n, id)
      PROVE  DeliveredAsPublished'
  BY <1>2 DEF Restart, DeliveredAsPublished, TypeOK
<1>3. ASSUME NEW n \in Node, NEW id \in Id,
             NEW k \in 1 .. Len(published[id]), Deliver(n, id, k)
      PROVE  DeliveredAsPublished'
  <2> DEFINE v == Version(id, k, published[id][k])
             D == delivered[n]
  <2>1. v \in Delivery
    BY DEF TypeOK, Version, Delivery
  <2>2. D \in Seq(Delivery)
    BY DEF TypeOK
  <2>3. /\ DOMAIN Append(D, v) = 1 .. Len(D) + 1 /\ Len(D) \in Nat
        /\ DOMAIN D = 1 .. Len(D)
        /\ \A i \in 1 .. Len(D) : Append(D, v)[i] = D[i]
        /\ Append(D, v)[Len(D) + 1] = v
    BY <2>1, <2>2, Appended
  <2>4. /\ delivered' = [delivered EXCEPT ![n] = Append(D, v)]
        /\ self' = self /\ published' = published /\ id # self[n]
    BY <1>3 DEF Deliver
  <2>5. v.member_id = id /\ v.sequence_number = k /\ v.data = published[id][k]
    BY DEF Version
  <2>6. ASSUME NEW i \in DOMAIN Append(D, v)
        PROVE  LET w == Append(D, v)[i]
               IN  /\ w.member_id # self[n]
                   /\ w.sequence_number \in 1 .. Len(published[w.member_id])
                   /\ w.data = published[w.member_id][w.sequence_number]
    <3>1. CASE i \in 1 .. Len(D)
      BY <2>3, <3>1 DEF DeliveredAsPublished
    <3>2. CASE i = Len(D) + 1
      BY <2>3, <2>4, <2>5, <3>2
    <3> QED  BY <2>3, <3>1, <3>2
  <2> HIDE DEF v, D
  <2> QED  BY <2>4, <2>6 DEF DeliveredAsPublished, TypeOK
<1>4. CASE UNCHANGED vars
  BY <1>4 DEF vars, DeliveredAsPublished
<1> QED  BY <1>1, <1>2, <1>3, <1>4 DEF Next

\* The data receiver is called with what the originator sent under that number,
\* and never with a payload of its own process.
THEOREM AsPublished == Spec => []DeliveredAsPublished
<1>1. Init => DeliveredAsPublished
  BY DEF Init, DeliveredAsPublished
<1> QED  BY <1>1, TypeInit, TypeNext, ContentsNext, PTL DEF Spec

=============================================================================
