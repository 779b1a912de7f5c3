--------------------------- MODULE Gossip_proofs ---------------------------
(***************************************************************************)
(* Proofs about the cluster, for any nodes, seeds and payloads, any sizes  *)
(* of queues, tables and lists, and any number of failures and restarts.   *)
(***************************************************************************)
EXTENDS Gossip, Outbound_proofs, VectorClock_proofs, SequenceTheorems

-----------------------------------------------------------------------------
(* What is in messages and tables *)

ClockRecord == [member_id : Ids, sequence_number : Nat]

LogRecord == [member_id : Ids, sequence_number : Nat, data : Payload]

\* The messages whose payloads are records of G.
Msgs(G) ==
    UNION {[type : {"HELLO"}, this_member : Member],
           [type : {"WELCOME"}, hello_sequence_num : Nat, this_member : Member],
           [type : {"MEMBER_LIST"}, members : Seq(Member)],
           [type : {"DATA"}, record : G],
           [type : {"ACK"}, ack_sequence_num : Nat],
           [type : {"STATUS"}, records : Seq(ClockRecord)]}

\* No pass over a queue sees the clock tick.
NoDrift == MaxDrift = 0

KeptIntact(queue) == NoDrift => Intact(queue)

\* An outbound queue, and a network, with such messages.
QueueOf(o, G) == WellFormed(o, Msgs(G), Node) /\ KeptIntact(o.queue)

\* What may be sent without having been asked: everything but acknowledgements.
Unasked(G) == Node \X {m \in Msgs(G) : m.type # "ACK"}

NetworkOf(net, G) ==
    /\ IsABag(net)
    /\ \A d \in BagToSet(net) :
          d \in [from : Node, to : Node, sequence_num : Nat, msg : Msgs(G)]

LEMMA MsgsGrow ==
    ASSUME NEW G, NEW H, G \subseteq H
    PROVE  Msgs(G) \subseteq Msgs(H)
<1>1. [type : {"DATA"}, record : G] \subseteq [type : {"DATA"}, record : H]
  OBVIOUS
<1> QED
  BY <1>1 DEF Msgs

\* What a message is made of, by its type.
LEMMA MsgFields ==
    ASSUME NEW G, NEW m \in Msgs(G)
    PROVE  /\ m.type = "HELLO" => m.this_member \in Member
           /\ m.type = "WELCOME" => m.this_member \in Member
           /\ m.type = "MEMBER_LIST" => m.members \in Seq(Member)
           /\ m.type = "DATA" => m.record \in G
           /\ m.type = "ACK" => m.ack_sequence_num \in Nat
BY DEF Msgs

LEMMA MsgTypes ==
    ASSUME NEW G
    PROVE  /\ \A x \in Member : Hello(x) \in Msgs(G)
           /\ \A s \in Nat : \A x \in Member : Welcome(s, x) \in Msgs(G)
           /\ \A s \in Seq(Member) : MemberList(s) \in Msgs(G)
           /\ \A r \in G : Data(r) \in Msgs(G)
           /\ \A s \in Nat : Ack(s) \in Msgs(G)
           /\ \A c : c.records \in Seq(ClockRecord) => Status(c) \in Msgs(G)
BY DEF Msgs, Hello, Welcome, MemberList, Data, Ack, Status

-----------------------------------------------------------------------------
(* Enqueueing *)

LEMMA StaysIntact ==
    ASSUME NEW o, NEW p, KeptIntact(o.queue), KeepsIntact(o, p)
    PROVE  KeptIntact(p.queue)
BY DEF KeptIntact, KeepsIntact

LEMMA EnqueueQueue ==
    ASSUME NEW G, NEW o, QueueOf(o, G), NEW msg \in Msgs(G), NEW rs \in Seq(Node),
           NEW p, p = Enqueue(o, msg, rs)
    PROVE  /\ QueueOf(p, G)
           /\ \A New : (\A i \in DOMAIN rs : <<rs[i], msg>> \in New) => Follows(o, p, New)
           /\ msg.type # "ACK" => Follows(o, p, Unasked(G))
<1>1. Fits(msg) \in BOOLEAN
  BY DEF Fits
<1>2. MaxAttempts(msg.type) \in {1, MESSAGE_RETRY_ATTEMPTS}
  BY DEF MaxAttempts
<1>3. ASSUME NEW New, \A i \in DOMAIN rs : <<rs[i], msg>> \in New
      PROVE  QueueOf(p, G) /\ Follows(o, p, New)
  <2>1. /\ WellFormed(p, Msgs(G), Node) /\ Follows(o, p, New)
        /\ KeepsIntact(o, p)
    BY <1>1, <1>2, <1>3, EnqueueWellFormed DEF QueueOf, Enqueue
  <2> QED
    BY <2>1, StaysIntact DEF QueueOf
<1>4. \A i \in DOMAIN rs : <<rs[i], msg>> \in Node \X {msg}
  OBVIOUS
<1>5. msg.type # "ACK" => \A i \in DOMAIN rs : <<rs[i], msg>> \in Unasked(G)
  BY DEF Unasked
<1> QED
  BY <1>3, <1>4, <1>5

LEMMA DirectQueue ==
    ASSUME NEW G, NEW o, QueueOf(o, G), NEW msg \in Msgs(G), NEW to \in Node,
           NEW p, p = Direct(o, msg, to)
    PROVE  /\ QueueOf(p, G)
           /\ \A New : <<to, msg>> \in New => Follows(o, p, New)
           /\ msg.type # "ACK" => Follows(o, p, Unasked(G))
<1>1. <<to>> \in Seq(Node) /\ \A i \in DOMAIN <<to>> : <<to>>[i] = to
  OBVIOUS
<1> QED
  BY <1>1, EnqueueQueue DEF Direct

LEMMA FunctionIsSeq ==
    ASSUME NEW S, NEW n \in Nat, NEW f \in [1 .. n -> S]
    PROVE  f \in Seq(S) /\ Len(f) = n
OBVIOUS

LEMMA AddressesType ==
    ASSUME NEW ms \in Seq(Member)
    PROVE  Addresses(ms) \in Seq(Node)
<1>1. PICK n \in Nat : n = Len(ms) /\ DOMAIN ms = 1 .. n
  OBVIOUS
<1>2. \A i \in 1 .. n : ms[i].address \in Node
  <2>1. \A m \in Member : m.address \in Node
    BY DEF Member
  <2>2. \A i \in 1 .. n : ms[i] \in Member
    BY <1>1
  <2> QED
    BY <2>1, <2>2
<1>3. Addresses(ms) \in [1 .. n -> Node]
  BY <1>1, <1>2 DEF Addresses
<1> QED
  BY <1>3, FunctionIsSeq


LEMMA BroadcastQueue ==
    ASSUME NEW G, NEW o, QueueOf(o, G), NEW msg \in Msgs(G),
           NEW ms, ms.set \in Seq(Member), NEW p, p = Broadcast(o, msg, ms)
    PROVE  QueueOf(p, G) /\ (msg.type # "ACK" => Follows(o, p, Unasked(G)))
<1>1. Addresses(ms.set) \in Seq(Node)
  BY AddressesType
<1> QED
  BY <1>1, EnqueueQueue DEF Broadcast

\* The sampling loop of cluster_member_set_random_members: after k rounds every
\* outcome is a list of x.size members.
SampleStep(x, rs, i) ==
    ReplaceSome(rs, x.size, x.ms[i])

Sampled(x, k, rs) == \A r \in rs : r \in [1 .. x.size -> Member]

SampleLoop == INSTANCE FoldInduction WITH op <- SampleStep, Good <- Sampled

LEMMA SampleIsLoop ==
    ASSUME NEW x, NEW base, NEW seq
    PROVE  FoldLeft(LAMBDA rs, i : ReplaceSome(rs, x.size, x.ms[i]), base, seq)
             = SampleLoop!Loop(x, base, seq)
BY DEF SampleStep, SampleLoop!Loop, SampleLoop!Last, FoldLeft, MapThenFoldSet, Max

LEMMA SampleMembers ==
    ASSUME NEW ms, ms.set \in Seq(Member),
           NEW r \in cluster_member_set_random_members(ms, MESSAGE_RUMOR_FACTOR)
    PROVE  r \in Seq(Member)
<1> DEFINE L    == Len(ms.set)
           size == IF L > MESSAGE_RUMOR_FACTOR THEN MESSAGE_RUMOR_FACTOR ELSE L
           x    == [ms |-> ms.set, size |-> size]
           base == {SubSeq(ms.set, 1, size)}
           seq  == [i \in 1 .. L - size |-> size + i]
<1>1. L \in Nat /\ size \in Nat /\ size <= L /\ DOMAIN ms.set = 1 .. L
  BY RumorFactorAssumption
<1>2. x.ms = ms.set /\ x.size = size
  OBVIOUS
<1>3. cluster_member_set_random_members(ms, MESSAGE_RUMOR_FACTOR)
        = SampleLoop!Loop(x, base, seq)
  <2> HIDE DEF x, size, seq, base
  <2>1. cluster_member_set_random_members(ms, MESSAGE_RUMOR_FACTOR)
          = FoldLeft(LAMBDA rs, i : ReplaceSome(rs, size, ms.set[i]), base, seq)
    BY DEF cluster_member_set_random_members, base, seq, size, FoldLeft,
           MapThenFoldSet, Max
  <2> QED
    <3>1. FoldLeft(LAMBDA rs, i : ReplaceSome(rs, x.size, x.ms[i]), base, seq)
            = SampleLoop!Loop(x, base, seq)
      BY SampleIsLoop
    <3>2. FoldLeft(LAMBDA rs, i : ReplaceSome(rs, x.size, x.ms[i]), base, seq)
            = FoldLeft(LAMBDA rs, i : ReplaceSome(rs, size, ms.set[i]), base, seq)
      BY <1>2
    <3> QED
      BY <2>1, <3>1, <3>2
<1>4. L - size \in Nat /\ DOMAIN seq = 1 .. (L - size)
  BY <1>1
<1>5. Sampled(x, 0, base)
  <2>1. PICK n \in Nat : n = size
    BY <1>1
  <2>2. SubSeq(ms.set, 1, n) \in [1 .. n -> Member]
    <3> HIDE DEF size
    <3>1. \A i \in 1 .. n : ms.set[i] \in Member
      BY <1>1, <2>1
    <3>2. SubSeq(ms.set, 1, n) = [i \in 1 .. n |-> ms.set[i]]
      BY <1>1, <2>1
    <3> QED
      BY <3>1, <3>2
  <2> HIDE DEF x, size
  <2> QED
    BY <1>2, <2>1, <2>2 DEF Sampled
<1>6. ASSUME NEW k \in 0 .. (L - size) - 1, NEW rs, Sampled(x, k, rs)
      PROVE  Sampled(x, k + 1, SampleStep(x, rs, seq[k + 1]))
  <2>1. seq[k + 1] \in 1 .. L
    BY <1>1
  <2> HIDE DEF x, size, seq, L
  <2>2. PICK m \in Member : m = ms.set[seq[k + 1]]
    BY <1>1, <2>1
  <2>3. PICK z : z = size
    OBVIOUS
  <2>4. \A s \in rs : s \in [1 .. z -> Member]
    BY <1>2, <1>6, <2>3 DEF Sampled
  <2>5. \A s \in rs : \A j \in 1 .. z : [s EXCEPT ![j] = m] \in [1 .. z -> Member]
    BY <2>4
  <2>6. SampleStep(x, rs, seq[k + 1]) = ReplaceSome(rs, z, m)
    BY <1>2, <2>2, <2>3 DEF SampleStep
  <2>7. \A s \in ReplaceSome(rs, z, m) :
            s \in rs \/ \E t \in rs, j \in 1 .. z : s = [t EXCEPT ![j] = m]
    BY DEF ReplaceSome
  <2>8. ASSUME NEW s \in ReplaceSome(rs, z, m)
        PROVE  s \in [1 .. z -> Member]
    <3>1. CASE s \in rs
      BY <2>4, <3>1
    <3>2. CASE \E t \in rs, j \in 1 .. z : s = [t EXCEPT ![j] = m]
      BY <2>4, <3>2
    <3> QED
      BY <2>7, <3>1, <3>2
  <2> QED
    BY <1>2, <2>3, <2>6, <2>8 DEF Sampled
<1> HIDE DEF x, base, seq, size, L
<1>7. Sampled(x, L - size, SampleLoop!Loop(x, base, seq))
  BY <1>4, <1>5, <1>6, SampleLoop!LoopInvariant
<1>8. r \in [1 .. size -> Member]
  BY <1>2, <1>3, <1>7 DEF Sampled
<1> QED
  BY <1>1, <1>8, FunctionIsSeq

LEMMA RandomQueue ==
    ASSUME NEW G, NEW o, QueueOf(o, G), NEW msg \in Msgs(G),
           NEW ms, ms.set \in Seq(Member), NEW p \in Random(o, msg, ms)
    PROVE  QueueOf(p, G) /\ (msg.type # "ACK" => Follows(o, p, Unasked(G)))
<1>1. PICK r \in cluster_member_set_random_members(ms, MESSAGE_RUMOR_FACTOR) :
          p = Enqueue(o, msg, Addresses(r))
  BY DEF Random
<1>2. Addresses(r) \in Seq(Node)
  BY SampleMembers, AddressesType
<1> QED
  BY <1>1, <1>2, EnqueueQueue

-----------------------------------------------------------------------------
(* Loops that enqueue *)

\* The loops enqueue after what was in the queue at first.
Appended(o, p, G) == QueueOf(p, G) /\ Follows(o, p, Unasked(G))

LEMMA AppendedSelf ==
    ASSUME NEW G, NEW o, QueueOf(o, G)
    PROVE  Appended(o, o, G)
BY FollowsSelf DEF Appended, QueueOf

LEMMA AppendedOn ==
    ASSUME NEW G, NEW o, NEW p, NEW r, QueueOf(o, G), Appended(o, p, G),
           QueueOf(r, G), Follows(p, r, Unasked(G))
    PROVE  Appended(o, r, G)
BY FollowsOn DEF Appended, QueueOf

\* pittacus_gossip_join: one HELLO for every seed.
HelloStep(x, o, seed) == Direct(o, x.msg, seed)

HelloSent(x, k, o) == Appended(x.start, o, x.G)

HelloLoop == INSTANCE FoldInduction WITH op <- HelloStep, Good <- HelloSent

LEMMA HelloIsLoop ==
    ASSUME NEW x, NEW base, NEW seq
    PROVE  FoldLeft(LAMBDA o, seed : Direct(o, x.msg, seed), base, seq)
             = HelloLoop!Loop(x, base, seq)
BY DEF HelloStep, HelloLoop!Loop, HelloLoop!Last, FoldLeft, MapThenFoldSet, Max

LEMMA HelloQueue ==
    ASSUME NEW G, NEW o, QueueOf(o, G), NEW msg \in Msgs(G), msg.type # "ACK",
           NEW seeds \in Seq(Node)
    PROVE  Appended(o, FoldLeft(LAMBDA p, seed : Direct(p, msg, seed), o, seeds), G)
<1> DEFINE x == [msg |-> msg, start |-> o, G |-> G]
<1>1. x.msg = msg /\ x.start = o /\ x.G = G
  OBVIOUS
<1> HIDE DEF x
<1>2. PICK n \in Nat : DOMAIN seeds = 1 .. n
  OBVIOUS
<1>3. HelloSent(x, 0, o)
  BY <1>1, AppendedSelf DEF HelloSent
<1>4. ASSUME NEW k \in 0 .. n - 1, NEW p, HelloSent(x, k, p)
      PROVE  HelloSent(x, k + 1, HelloStep(x, p, seeds[k + 1]))
  <2>1. seeds[k + 1] \in Node
    BY <1>2
  <2>2. Appended(o, p, G) /\ QueueOf(p, G)
    BY <1>1, <1>4 DEF HelloSent, Appended
  <2>3. /\ QueueOf(Direct(p, msg, seeds[k + 1]), G)
        /\ Follows(p, Direct(p, msg, seeds[k + 1]), Unasked(G))
    BY <2>1, <2>2, DirectQueue
  <2>4. Appended(o, Direct(p, msg, seeds[k + 1]), G)
    BY <2>2, <2>3, AppendedOn
  <2> QED
    BY <1>1, <2>4 DEF HelloSent, HelloStep
<1>5. HelloSent(x, n, HelloLoop!Loop(x, o, seeds))
  BY <1>2, <1>3, <1>4, HelloLoop!LoopInvariant
<1>6. FoldLeft(LAMBDA p, seed : Direct(p, x.msg, seed), o, seeds)
        = HelloLoop!Loop(x, o, seeds)
  BY HelloIsLoop
<1>7. FoldLeft(LAMBDA p, seed : Direct(p, x.msg, seed), o, seeds)
        = FoldLeft(LAMBDA p, seed : Direct(p, msg, seed), o, seeds)
  BY <1>1 DEF FoldLeft, MapThenFoldSet, Max
<1> QED
  BY <1>1, <1>5, <1>6, <1>7 DEF HelloSent

\* A list of members is cut into lists of members.
LEMMA PartIsSeq ==
    ASSUME NEW S, NEW s \in Seq(S), NEW i \in Nat \ {0}, NEW j \in 0 .. Len(s)
    PROVE  SubSeq(s, i, j) \in Seq(S)
OBVIOUS

LEMMA ChunksType ==
    ASSUME NEW ms \in Seq(Member)
    PROVE  \E n \in Nat :
             /\ DOMAIN Chunks(ms, MEMBER_LIST_SYNC_SIZE) = 1 .. n
             /\ \A i \in 1 .. n : Chunks(ms, MEMBER_LIST_SYNC_SIZE)[i] \in Seq(Member)
<1>1. PICK size \in Nat \ {0} : size = MEMBER_LIST_SYNC_SIZE
  BY SyncSizeAssumption
<1>2. PICK L \in Nat : L = Len(ms)
  OBVIOUS
<1>3. PICK n \in Nat : n = (L + size - 1) \div size
  OBVIOUS
<1>4. DOMAIN Chunks(ms, size) = 1 .. n
  BY <1>2, <1>3 DEF Chunks
<1>5. ASSUME NEW i \in 1 .. n
      PROVE  Chunks(ms, size)[i] \in Seq(Member)
  <2>1. \A p, q \in Nat : p * q \in Nat
    OBVIOUS
  <2>2. i - 1 \in Nat /\ i \in Nat
    OBVIOUS
  <2>3. (i - 1) * size \in Nat /\ i * size \in Nat
    BY <2>1, <2>2
  <2>4. PICK a \in Nat \ {0} : a = (i - 1) * size + 1
    BY <2>3
  <2>5. PICK c \in Nat : c = i * size
    BY <2>3
  <2>6. Min({c, L}) \in 0 .. L
    <3>1. c <= L => Min({c, L}) = c
      BY DEF Min
    <3>2. L <= c => Min({c, L}) = L
      BY DEF Min
    <3> QED
      BY <3>1, <3>2
  <2>7. Chunks(ms, size)[i] = SubSeq(ms, a, Min({c, L}))
    BY <1>2, <1>3, <2>4, <2>5 DEF Chunks
  <2> QED
    BY <1>2, <2>6, <2>7, PartIsSeq
<1> QED
  BY <1>1, <1>4, <1>5

\* gossip_enqueue_member_list
ListStep(x, o, c) == Direct(o, MemberList(c), x.to)

ListSent(x, k, o) == Appended(x.start, o, x.G)

ListLoop == INSTANCE FoldInduction WITH op <- ListStep, Good <- ListSent

LEMMA ListIsLoop ==
    ASSUME NEW x, NEW base, NEW seq
    PROVE  FoldLeft(LAMBDA p, c : Direct(p, MemberList(c), x.to), base, seq)
             = ListLoop!Loop(x, base, seq)
BY DEF ListStep, ListLoop!Loop, ListLoop!Last, FoldLeft, MapThenFoldSet, Max

LEMMA ListQueue ==
    ASSUME NEW G, NEW o, QueueOf(o, G), NEW ms \in Seq(Member), NEW to \in Node,
           NEW p, p = gossip_enqueue_member_list(o, ms, to)
    PROVE  Appended(o, p, G)
<1> DEFINE x  == [to |-> to, start |-> o, G |-> G]
           cs == Chunks(ms, MEMBER_LIST_SYNC_SIZE)
<1>1. x.to = to /\ x.start = o /\ x.G = G
  OBVIOUS
<1> HIDE DEF x
<1>2. PICK n \in Nat : DOMAIN cs = 1 .. n /\ \A i \in 1 .. n : cs[i] \in Seq(Member)
  BY ChunksType
<1>0. p = FoldLeft(LAMBDA q, c : Direct(q, MemberList(c), to), o, cs)
  BY DEF gossip_enqueue_member_list
<1> HIDE DEF cs
<1>3. ListSent(x, 0, o)
  BY <1>1, AppendedSelf DEF ListSent
<1>4. ASSUME NEW k \in 0 .. n - 1, NEW q, ListSent(x, k, q)
      PROVE  ListSent(x, k + 1, ListStep(x, q, cs[k + 1]))
  <2>1. MemberList(cs[k + 1]) \in Msgs(G) /\ MemberList(cs[k + 1]).type # "ACK"
    BY <1>2, MsgTypes DEF MemberList
  <2>2. Appended(o, q, G) /\ QueueOf(q, G)
    BY <1>1, <1>4 DEF ListSent, Appended
  <2>3. /\ QueueOf(Direct(q, MemberList(cs[k + 1]), to), G)
        /\ Follows(q, Direct(q, MemberList(cs[k + 1]), to), Unasked(G))
    BY <2>1, <2>2, DirectQueue
  <2>4. Appended(o, Direct(q, MemberList(cs[k + 1]), to), G)
    BY <2>2, <2>3, AppendedOn
  <2> QED
    BY <1>1, <2>4 DEF ListSent, ListStep
<1>5. ListSent(x, n, ListLoop!Loop(x, o, cs))
  BY <1>2, <1>3, <1>4, ListLoop!LoopInvariant
<1>6. FoldLeft(LAMBDA q, c : Direct(q, MemberList(c), x.to), o, cs)
        = ListLoop!Loop(x, o, cs)
  BY ListIsLoop
<1>7. FoldLeft(LAMBDA q, c : Direct(q, MemberList(c), x.to), o, cs)
        = FoldLeft(LAMBDA q, c : Direct(q, MemberList(c), to), o, cs)
  BY <1>1 DEF FoldLeft, MapThenFoldSet, Max
<1> QED
  BY <1>0, <1>1, <1>5, <1>6, <1>7 DEF ListSent

\* gossip_enqueue_data_log
RelayStep(x, p, r) ==
    IF p.failed \/ vector_clock_compare_with_record(x.clock, r) # "BEFORE"
    THEN p
    ELSE [out |-> Direct(p.out, Data(r), x.to), failed |-> ~Fits(Data(r))]

Relayed(x, k, p) == Appended(x.start, p.out, x.G)

RelayLoop == INSTANCE FoldInduction WITH op <- RelayStep, Good <- Relayed

LEMMA RelayIsLoop ==
    ASSUME NEW x, NEW base, NEW seq
    PROVE  FoldLeft(LAMBDA p, r :
                 IF p.failed \/ vector_clock_compare_with_record(x.clock, r) # "BEFORE"
                 THEN p
                 ELSE [out |-> Direct(p.out, Data(r), x.to), failed |-> ~Fits(Data(r))],
                 base, seq)
             = RelayLoop!Loop(x, base, seq)
BY DEF RelayStep, RelayLoop!Loop, RelayLoop!Last, FoldLeft, MapThenFoldSet, Max

LEMMA RelayQueue ==
    ASSUME NEW G, NEW o, QueueOf(o, G), NEW log, log.records \in Seq(G), NEW clock,
           NEW to \in Node, NEW p, p = gossip_enqueue_data_log(o, log, clock, to)
    PROVE  Appended(o, p.out, G)
<1> DEFINE x    == [clock |-> clock, to |-> to, start |-> o, G |-> G]
           base == [out |-> o, failed |-> FALSE]
<1>1. x.clock = clock /\ x.to = to /\ x.start = o /\ x.G = G /\ base.out = o
  OBVIOUS
<1>0. p = FoldLeft(LAMBDA q, r :
              IF q.failed \/ vector_clock_compare_with_record(clock, r) # "BEFORE"
              THEN q
              ELSE [out |-> Direct(q.out, Data(r), to), failed |-> ~Fits(Data(r))],
              base, log.records)
  BY DEF gossip_enqueue_data_log
<1> HIDE DEF x, base
<1>2. PICK n \in Nat : DOMAIN log.records = 1 .. n
  OBVIOUS
<1>3. Relayed(x, 0, base)
  BY <1>1, AppendedSelf DEF Relayed
<1>4. ASSUME NEW k \in 0 .. n - 1, NEW q, Relayed(x, k, q)
      PROVE  Relayed(x, k + 1, RelayStep(x, q, log.records[k + 1]))
  <2>1. log.records[k + 1] \in G
    BY <1>2
  <2>2. Data(log.records[k + 1]) \in Msgs(G) /\ Data(log.records[k + 1]).type # "ACK"
    BY <2>1, MsgTypes DEF Data
  <2>3. Appended(o, q.out, G) /\ QueueOf(q.out, G)
    BY <1>1, <1>4 DEF Relayed, Appended
  <2>0. /\ QueueOf(Direct(q.out, Data(log.records[k + 1]), to), G)
        /\ Follows(q.out, Direct(q.out, Data(log.records[k + 1]), to), Unasked(G))
    BY <2>2, <2>3, DirectQueue
  <2>4. Appended(o, Direct(q.out, Data(log.records[k + 1]), to), G)
    BY <2>0, <2>3, AppendedOn
  <2>5. RelayStep(x, q, log.records[k + 1]).out
          \in {q.out, Direct(q.out, Data(log.records[k + 1]), to)}
    BY <1>1 DEF RelayStep
  <2> QED
    BY <1>1, <2>3, <2>4, <2>5 DEF Relayed
<1>5. Relayed(x, n, RelayLoop!Loop(x, base, log.records))
  BY <1>2, <1>3, <1>4, RelayLoop!LoopInvariant
<1>6. FoldLeft(LAMBDA q, r :
          IF q.failed \/ vector_clock_compare_with_record(x.clock, r) # "BEFORE"
          THEN q
          ELSE [out |-> Direct(q.out, Data(r), x.to), failed |-> ~Fits(Data(r))],
          base, log.records)
        = RelayLoop!Loop(x, base, log.records)
  BY RelayIsLoop
<1>7. FoldLeft(LAMBDA q, r :
          IF q.failed \/ vector_clock_compare_with_record(x.clock, r) # "BEFORE"
          THEN q
          ELSE [out |-> Direct(q.out, Data(r), x.to), failed |-> ~Fits(Data(r))],
          base, log.records)
        = FoldLeft(LAMBDA q, r :
            IF q.failed \/ vector_clock_compare_with_record(clock, r) # "BEFORE"
            THEN q
            ELSE [out |-> Direct(q.out, Data(r), to), failed |-> ~Fits(Data(r))],
            base, log.records)
  BY <1>1 DEF FoldLeft, MapThenFoldSet, Max
<1> QED
  BY <1>0, <1>1, <1>5, <1>6, <1>7 DEF Relayed

-----------------------------------------------------------------------------
(* The member set *)

\* The array of a member set: no member twice.
Distinct(s) == \A i, j \in DOMAIN s : s[i] = s[j] => i = j

MembersOK(ms) ==
    /\ ms \in [set : Seq(Member), capacity : Nat \ {0}]
    /\ Distinct(ms.set)
    /\ Len(ms.set) <= ms.capacity

LEMMA InitialMembers == MembersOK(cluster_member_set_init)
BY InitialCapacityAssumption DEF MembersOK, cluster_member_set_init, Distinct

\* cluster_member_set_extend: as long as the capacity is not enough for size
\* members, it is at least the number of rounds.
ExtendStep(x, c, round) == IF 4 * x.size < 3 * c THEN c ELSE 2 * c

Extended(x, k, c) ==
    /\ c \in Nat \ {0}
    /\ 4 * x.size < 3 * c \/ c >= k + 1

ExtendLoop == INSTANCE FoldInduction WITH op <- ExtendStep, Good <- Extended

LEMMA ExtendIsLoop ==
    ASSUME NEW x, NEW base, NEW seq
    PROVE  FoldLeft(LAMBDA c, round : IF 4 * x.size < 3 * c THEN c ELSE 2 * c, base, seq)
             = ExtendLoop!Loop(x, base, seq)
BY DEF ExtendStep, ExtendLoop!Loop, ExtendLoop!Last, FoldLeft, MapThenFoldSet, Max

\* The array that cluster_member_set_extend allocates has room for size members.
LEMMA ExtendMakesRoom ==
    ASSUME NEW capacity \in Nat \ {0}, NEW size \in Nat,
           NEW c, c = cluster_member_set_extend(capacity, size)
    PROVE  c \in Nat \ {0} /\ size <= c
<1> DEFINE x   == [size |-> size]
           seq == [i \in 1 .. size |-> i]
<1>1. x.size = size /\ DOMAIN seq = 1 .. size
  OBVIOUS
<1>0. c = FoldLeft(LAMBDA a, round : IF 4 * size < 3 * a THEN a ELSE 2 * a, capacity, seq)
  BY DEF cluster_member_set_extend
<1> HIDE DEF x, seq
<1>2. Extended(x, 0, capacity)
  BY DEF Extended
<1>3. ASSUME NEW k \in 0 .. size - 1, NEW a, Extended(x, k, a)
      PROVE  Extended(x, k + 1, ExtendStep(x, a, seq[k + 1]))
  BY <1>1, <1>3 DEF Extended, ExtendStep
<1>4. Extended(x, size, ExtendLoop!Loop(x, capacity, seq))
  BY <1>1, <1>2, <1>3, ExtendLoop!LoopInvariant
<1>5. FoldLeft(LAMBDA a, round : IF 4 * x.size < 3 * a THEN a ELSE 2 * a, capacity, seq)
        = ExtendLoop!Loop(x, capacity, seq)
  BY ExtendIsLoop
<1>6. FoldLeft(LAMBDA a, round : IF 4 * x.size < 3 * a THEN a ELSE 2 * a, capacity, seq)
        = FoldLeft(LAMBDA a, round : IF 4 * size < 3 * a THEN a ELSE 2 * a, capacity, seq)
  BY <1>1 DEF FoldLeft, MapThenFoldSet, Max
<1>7. Extended(x, size, c)
  BY <1>0, <1>4, <1>5, <1>6
<1> QED
  BY <1>1, <1>7 DEF Extended

\* The loop of cluster_member_set_put appends at most one member per round.
PutStep(x, ms, m) == IF Contains(ms, m) THEN ms ELSE Append(ms, m)

Put(x, k, ms) ==
    /\ ms \in Seq(Member)
    /\ Distinct(ms)
    /\ Len(ms) <= x + k

PutLoop == INSTANCE FoldInduction WITH op <- PutStep, Good <- Put

LEMMA PutIsLoop ==
    ASSUME NEW x, NEW base, NEW seq
    PROVE  FoldLeft(LAMBDA ms, m : IF Contains(ms, m) THEN ms ELSE Append(ms, m), base, seq)
             = PutLoop!Loop(x, base, seq)
BY DEF PutStep, PutLoop!Loop, PutLoop!Last, FoldLeft, MapThenFoldSet, Max

LEMMA PutKeeps ==
    ASSUME NEW x \in Nat, NEW k \in Nat, NEW ms, Put(x, k, ms), NEW m \in Member
    PROVE  Put(x, k + 1, PutStep(x, ms, m))
<1>1. PICK n \in Nat : n = Len(ms) /\ n <= x + k /\ DOMAIN ms = 1 .. n
  BY DEF Put
<1>2. CASE Contains(ms, m)
  BY <1>1, <1>2 DEF Put, PutStep
<1>3. CASE ~Contains(ms, m)
  <2>1. PICK u : u = Append(ms, m)
    OBVIOUS
  <2>2. /\ u \in Seq(Member) /\ Len(u) = n + 1 /\ DOMAIN u = 1 .. n + 1
        /\ \A i \in 1 .. n : u[i] = ms[i]
        /\ u[n + 1] = m
    BY <1>1, <2>1 DEF Put
  <2>3. \A i \in 1 .. n : u[i] # m
    BY <1>1, <1>3, <2>2 DEF Contains
  <2>4. \A i \in 1 .. n + 1 : i \in 1 .. n \/ i = n + 1
    OBVIOUS
  <2>5. \A i, j \in 1 .. n : ms[i] = ms[j] => i = j
    BY <1>1 DEF Put, Distinct
  <2>6. Distinct(u)
    BY <2>2, <2>3, <2>4, <2>5 DEF Distinct
  <2>7. n + 1 <= x + (k + 1)
    BY <1>1
  <2> QED
    BY <1>3, <2>1, <2>2, <2>6, <2>7 DEF Put, PutStep
<1> QED
  BY <1>2, <1>3

\* cluster_member_set_put never writes past the end of the array.
LEMMA PutFits ==
    ASSUME NEW ms, MembersOK(ms), NEW new \in Seq(Member),
           NEW u, u = cluster_member_set_put(ms, new)
    PROVE  MembersOK(u)
<1> DEFINE L == Len(ms.set)
           s == FoldLeft(LAMBDA t, m : IF Contains(t, m) THEN t ELSE Append(t, m), ms.set, new)
           c == cluster_member_set_extend(ms.capacity, L + Len(new))
<1>1. u = [capacity |-> c, set |-> s]
  BY DEF cluster_member_set_put
<1>2. PICK n \in Nat : n = Len(new) /\ DOMAIN new = 1 .. n
  OBVIOUS
<1>3. L \in Nat /\ ms.capacity \in Nat \ {0} /\ ms.set \in Seq(Member) /\ Distinct(ms.set)
  BY DEF MembersOK
<1>4. c \in Nat \ {0} /\ L + n <= c
  <2>1. L + Len(new) \in Nat /\ L + Len(new) = L + n
    BY <1>2, <1>3
  <2> HIDE DEF L
  <2> QED
    BY <1>3, <2>1, ExtendMakesRoom
<1>5. s = PutLoop!Loop(L, ms.set, new)
  BY PutIsLoop
<1> HIDE DEF s, c
<1>6. Put(L, 0, ms.set)
  BY <1>3 DEF Put
<1> HIDE DEF L
<1>7. ASSUME NEW k \in 0 .. n - 1, NEW t, Put(L, k, t)
      PROVE  Put(L, k + 1, PutStep(L, t, new[k + 1]))
  <2>1. new[k + 1] \in Member /\ k \in Nat
    BY <1>2
  <2> QED
    BY <1>3, <1>7, <2>1, PutKeeps
<1>8. Put(L, n, PutLoop!Loop(L, ms.set, new))
  BY <1>2, <1>6, <1>7, PutLoop!LoopInvariant
<1>9. s \in Seq(Member) /\ Distinct(s) /\ Len(s) <= c
  BY <1>3, <1>4, <1>5, <1>8 DEF Put
<1> QED
  BY <1>1, <1>4, <1>9 DEF MembersOK

\* One member leaves the array, the others move up.
LEMMA RemoveAtKeeps ==
    ASSUME NEW s \in Seq(Member), Distinct(s), NEW i \in 1 .. Len(s),
           NEW u, u = RemoveAt(s, i)
    PROVE  u \in Seq(Member) /\ Distinct(u) /\ Len(u) <= Len(s)
<1>1. PICK n \in Nat : n = Len(s) /\ DOMAIN s = 1 .. n
  OBVIOUS
<1>2. u = SubSeq(s, 1, i - 1) \o SubSeq(s, i + 1, n)
  BY <1>1 DEF RemoveAt
<1>3. PICK a : a = SubSeq(s, 1, i - 1)
  OBVIOUS
<1>4. PICK b : b = SubSeq(s, i + 1, n)
  OBVIOUS
<1>a. a \in Seq(Member) /\ Len(a) = i - 1 /\ \A j \in 1 .. i - 1 : a[j] = s[j]
  <2>1. \A j \in 1 .. i - 1 : s[j] \in Member
    BY <1>1
  <2> QED
    BY <1>1, <1>3, <2>1, SubSeqProperties
<1>b. b \in Seq(Member) /\ Len(b) = n - i /\ \A j \in 1 .. n - i : b[j] = s[i + j]
  <2>1. \A j \in i + 1 .. n : s[j] \in Member
    BY <1>1
  <2>2. /\ b \in Seq(Member)
        /\ Len(b) = IF i + 1 <= n THEN n - (i + 1) + 1 ELSE 0
        /\ \A j \in 1 .. n - (i + 1) + 1 : b[j] = s[(i + 1) + j - 1]
    BY <1>1, <1>4, <2>1, SubSeqProperties
  <2> QED
    BY <1>1, <2>2
<1>5. u = a \o b
  BY <1>2, <1>3, <1>4
<1>c. /\ u \in Seq(Member) /\ Len(u) = Len(a) + Len(b)
      /\ \A j \in 1 .. Len(a) + Len(b) :
            u[j] = IF j <= Len(a) THEN a[j] ELSE b[j - Len(a)]
  <2>1. a \in Seq(Member) /\ b \in Seq(Member)
    BY <1>a, <1>b
  <2>2. /\ a \o b \in Seq(Member) /\ Len(a \o b) = Len(a) + Len(b)
        /\ \A j \in 1 .. Len(a) + Len(b) :
              (a \o b)[j] = IF j <= Len(a) THEN a[j] ELSE b[j - Len(a)]
    BY <2>1, ConcatProperties, Zenon
  <2> QED
    BY <1>5, <2>2, Zenon
<1>6. /\ u \in Seq(Member) /\ Len(u) = n - 1 /\ DOMAIN u = 1 .. n - 1
      /\ \A j \in 1 .. n - 1 : u[j] = IF j <= i - 1 THEN a[j] ELSE b[j - (i - 1)]
  <2>1. Len(a) = i - 1 /\ Len(b) = n - i /\ Len(a) + Len(b) = n - 1
    BY <1>1, <1>a, <1>b
  <2>2. u \in Seq(Member) /\ Len(u) = n - 1
    BY <1>c, <2>1
  <2>3. DOMAIN u = 1 .. n - 1
    BY <2>2
  <2> QED
    BY <1>c, <2>1, <2>2, <2>3
<1> DEFINE At(j) == IF j < i THEN j ELSE j + 1
<1>7. \A j \in 1 .. n - 1 : At(j) \in 1 .. n /\ u[j] = s[At(j)]
  <2> SUFFICES ASSUME NEW j \in 1 .. n - 1
               PROVE  At(j) \in 1 .. n /\ u[j] = s[At(j)]
    OBVIOUS
  <2>1. CASE j < i
    <3>1. j \in 1 .. i - 1 /\ j <= i - 1 /\ j \in 1 .. n
      BY <1>1, <2>1
    <3> QED
      BY <1>6, <1>a, <2>1, <3>1
  <2>2. CASE ~(j < i)
    <3>1. j - (i - 1) \in 1 .. n - i /\ i + (j - (i - 1)) = j + 1
      BY <1>1, <2>2
    <3>2. u[j] = b[j - (i - 1)]
      BY <1>1, <1>6, <2>2
    <3> QED
      BY <1>1, <1>b, <2>2, <3>1, <3>2
  <2> QED
    BY <2>1, <2>2
<1>8. \A j, k \in 1 .. n - 1 : At(j) = At(k) => j = k
  BY <1>1
<1> HIDE DEF At
<1>9. Distinct(u)
  BY <1>1, <1>6, <1>7, <1>8 DEF Distinct
<1> QED
  BY <1>1, <1>6, <1>9

\* cluster_member_set_remove_by_addr leaves a member set.
LEMMA RemoveKeeps ==
    ASSUME NEW ms, MembersOK(ms), NEW addr,
           NEW u, u = cluster_member_set_remove_by_addr(ms, addr)
    PROVE  MembersOK(u)
<1> DEFINE t == RemoveFirstMatch(ms.set, LAMBDA m : m.address = addr)
           I == {i \in 1 .. Len(ms.set) : ms.set[i].address = addr}
<1>1. /\ ms.set \in Seq(Member) /\ ms.capacity \in Nat \ {0} /\ Distinct(ms.set)
      /\ Len(ms.set) <= ms.capacity /\ Len(ms.set) \in Nat
      /\ ms = [set |-> ms.set, capacity |-> ms.capacity]
  BY DEF MembersOK
<1>2. u = [ms EXCEPT !.set = t]
  BY DEF cluster_member_set_remove_by_addr
<1>3. t = IF I # {} THEN RemoveAt(ms.set, Min(I)) ELSE ms.set
  BY DEF RemoveFirstMatch, SelectInSeq
<1>4. t \in Seq(Member) /\ Distinct(t) /\ Len(t) <= Len(ms.set)
  <2> HIDE DEF t
  <2>1. CASE I = {}
    BY <1>1, <1>3, <2>1
  <2>2. CASE I # {}
    <3>1. I \in SUBSET Nat
      OBVIOUS
    <3>2. Min(I) \in I
      <4> HIDE DEF I
      <4>1. \E m \in I : \A n \in I : m <= n
        BY <2>2, <3>1, NatMin
      <4> QED
        BY <4>1 DEF Min
    <3>3. Min(I) \in 1 .. Len(ms.set)
      BY <3>2
    <3> HIDE DEF I
    <3> QED
      BY <1>1, <1>3, <2>2, <3>3, RemoveAtKeeps
  <2> QED
    BY <2>1, <2>2
<1> HIDE DEF t
<1>5. u = [set |-> t, capacity |-> ms.capacity]
  BY <1>1, <1>2
<1>6. Len(t) <= ms.capacity
  BY <1>1, <1>4
<1> QED
  BY <1>1, <1>4, <1>5, <1>6 DEF MembersOK

\* The members dropped in one pass over queue q.
DropStep(q, ms, s) ==
    IF {e \in Dropping(q) : e.sequence_num = s} = {} THEN ms
    ELSE cluster_member_set_remove_by_addr(
             ms, (CHOOSE e \in {e \in Dropping(q) : e.sequence_num = s} : TRUE).recipient)

Dropped(q, k, ms) == MembersOK(ms)

DropLoop == INSTANCE FoldInduction WITH op <- DropStep, Good <- Dropped

AfterDrops(q, ms, seq) == FoldLeft(LAMBDA t, s : DropStep(q, t, s), ms, seq)

LEMMA DropIsLoop ==
    ASSUME NEW q, NEW base, NEW seq
    PROVE  AfterDrops(q, base, seq) = DropLoop!Loop(q, base, seq)
BY DEF AfterDrops, DropLoop!Loop, DropLoop!Last, FoldLeft, MapThenFoldSet, Max

LEMMA DropKeeps ==
    ASSUME NEW ms, MembersOK(ms), NEW q, NEW n \in Nat, NEW seq, DOMAIN seq = 1 .. n
    PROVE  MembersOK(AfterDrops(q, ms, seq))
<1>2. AfterDrops(q, ms, seq) = DropLoop!Loop(q, ms, seq)
  BY DropIsLoop
<1>3. Dropped(q, 0, ms)
  BY DEF Dropped
<1>4. ASSUME NEW k \in 0 .. n - 1, NEW t, Dropped(q, k, t)
      PROVE  Dropped(q, k + 1, DropStep(q, t, seq[k + 1]))
  BY <1>4, RemoveKeeps DEF Dropped, DropStep
<1>5. Dropped(q, n, DropLoop!Loop(q, ms, seq))
  BY <1>3, <1>4, DropLoop!LoopInvariant
<1> QED
  BY <1>2, <1>5 DEF Dropped

-----------------------------------------------------------------------------
(* The network *)

LEMMA NetworkGrows ==
    ASSUME NEW G, NEW H, G \subseteq H, NEW net, NetworkOf(net, G)
    PROVE  NetworkOf(net, H)
<1>1. Msgs(G) \subseteq Msgs(H)
  BY MsgsGrow
<1>2. \A d \in [from : Node, to : Node, sequence_num : Nat, msg : Msgs(G)] :
          d \in [from : Node, to : Node, sequence_num : Nat, msg : Msgs(H)]
  BY <1>1
<1> QED
  BY <1>2 DEF NetworkOf

\* A datagram is read or lost, ...
LEMMA NetworkTakes ==
    ASSUME NEW G, NEW net, NetworkOf(net, G), NEW d, NEW u, u = net (-) SetToBag({d})
    PROVE  NetworkOf(u, G)
<1>1. net \in [DOMAIN net -> Nat \ {0}]
  BY DEF NetworkOf, IsABag
<1> DEFINE b(e) == IF e \in {d} THEN net[e] - 1 ELSE net[e]
           D    == {e \in DOMAIN net : b(e) > 0}
<1>2. u = [e \in D |-> b(e)]
  BY DEF (-), SetToBag
<1>3. \A e \in D : b(e) \in Nat /\ b(e) > 0
  BY <1>1
<1> HIDE DEF b
<1>4. DOMAIN u \subseteq DOMAIN net /\ IsABag(u)
  BY <1>2, <1>3 DEF IsABag
<1> QED
  BY <1>4 DEF NetworkOf, BagToSet

\* ... or datagrams are added to it.
LEMMA NetworkGets ==
    ASSUME NEW G, NEW net, NetworkOf(net, G), NEW D,
           \A d \in D : d \in [from : Node, to : Node, sequence_num : Nat, msg : Msgs(G)],
           NEW u, u = net (+) SetToBag(D)
    PROVE  NetworkOf(u, G)
<1>1. net \in [DOMAIN net -> Nat \ {0}]
  BY DEF NetworkOf, IsABag
<1> DEFINE b(e) == (IF e \in DOMAIN net THEN net[e] ELSE 0) + (IF e \in D THEN 1 ELSE 0)
<1>2. u = [e \in DOMAIN net \cup D |-> b(e)]
  BY DEF (+), SetToBag
<1>3. \A e \in DOMAIN net \cup D : b(e) \in Nat /\ b(e) > 0
  BY <1>1
<1> HIDE DEF b
<1>4. DOMAIN u = DOMAIN net \cup D /\ IsABag(u)
  BY <1>2, <1>3 DEF IsABag
<1> QED
  BY <1>4 DEF NetworkOf, BagToSet

\* What is read of a message whose end is missing has the fields of a message.
LEMMA ReadingsType ==
    ASSUME NEW G, NEW msg \in Msgs(G), NEW m \in Readings(msg)
    PROVE  m \in Msgs(G)
<1>1. CASE m = msg
  BY <1>1
<1>2. CASE msg.type \in {"HELLO", "WELCOME"}
           /\ \E a \in Node : m = [msg EXCEPT !.this_member.address = a]
  <2>1. PICK a \in Node : m = [msg EXCEPT !.this_member.address = a]
    BY <1>2
  <2>2. msg.this_member \in Member
    BY <1>2, MsgFields
  <2>3. PICK x \in Member : x = [msg.this_member EXCEPT !.address = a]
    BY <2>2 DEF Member
  <2>4. m = [msg EXCEPT !.this_member = x]
    BY <2>1, <2>3
  <2> QED
    BY <1>2, <2>4 DEF Msgs
<1>3. CASE msg.type = "MEMBER_LIST"
           /\ \E ms \in [DOMAIN msg.members -> Member] : m = [msg EXCEPT !.members = ms]
  <2>1. PICK ms \in [DOMAIN msg.members -> Member] : m = [msg EXCEPT !.members = ms]
    BY <1>3
  <2>2. msg.members \in Seq(Member)
    BY <1>3, MsgFields
  <2>3. PICK k \in Nat : DOMAIN msg.members = 1 .. k
    BY <2>2
  <2>4. ms \in Seq(Member)
    BY <2>3, FunctionIsSeq
  <2> QED
    BY <1>3, <2>1, <2>4 DEF Msgs
<1> QED
  BY <1>1, <1>2, <1>3 DEF Readings

\* The datagrams of a pass carry what is in the queue, or what is read of it.
LEMMA DatagramSource ==
    ASSUME NEW n, NEW d, NEW stop, NEW datagrams \in Transmissions(n, d, stop),
           NEW x \in datagrams
    PROVE  \E e \in out[n].queue :
             /\ e \in Due(out[n].queue, d)
             /\ \/ e.contents = e.message /\ x = Datagram(n, e, e.contents)
                \/ /\ e.contents # e.message
                   /\ \E msg \in Readings(e.contents) : x = Datagram(n, e, msg)
BY DEF Transmissions, Due

LEMMA DatagramsType ==
    ASSUME NEW G, NEW n \in Node, QueueOf(out[n], G), NEW d, NEW stop,
           NEW datagrams \in Transmissions(n, d, stop), NEW x \in datagrams
    PROVE  x \in [from : Node, to : Node, sequence_num : Nat, msg : Msgs(G)]
<1>1. PICK e \in out[n].queue :
          \/ x = Datagram(n, e, e.contents)
          \/ \E msg \in Readings(e.contents) : x = Datagram(n, e, msg)
  BY DatagramSource
<1>2. e \in Envelope(Msgs(G), Node)
  BY DEF QueueOf, WellFormed
<1>3. e.recipient \in Node /\ e.sequence_num \in Nat /\ e.contents \in Msgs(G)
  BY <1>2 DEF Envelope
<1>4. PICK msg \in Msgs(G) : x = Datagram(n, e, msg)
  BY <1>1, <1>3, ReadingsType
<1> QED
  BY <1>3, <1>4 DEF Datagram

-----------------------------------------------------------------------------
(* The state: what is kept where, whatever has been sent.  G is a set of   *)
(* versions with payloads that holds all those there are in the cluster.   *)

OnNodes(f) == f = [n \in Node |-> f[n]]

StatesOK(s) == s \in [Node -> {"INITIALIZED", "JOINING", "CONNECTED"}]

UidsOK(u) ==
    /\ OnNodes(u)
    /\ \A n \in Node : /\ u[n] \in 0 .. MaxUid
                       /\ n \notin Restarting => u[n] = 0

MemberSetsOK(ms) == OnNodes(ms) /\ \A n \in Node : MembersOK(ms[n])

ClocksOK(dv) ==
    OnNodes(dv) /\ \A n \in Node : IsTable(dv[n], ClockRecord, MAX_VECTOR_SIZE)

LogsOK(log, G) ==
    OnNodes(log) /\ \A n \in Node : IsTable(log[n], G, DATA_LOG_SIZE)

CountersOK(dc, l) ==
    /\ OnNodes(dc)
    /\ \A n \in Node : dc[n] \in Nat /\ dc[n] + l["payload"] <= Budget["payload"]

QueuesOK(o, G) ==
    /\ OnNodes(o)
    /\ \A n \in Node : QueueOf(o[n], G) /\ o[n].sequence_num <= MaxSeq

AgesOK(a) == a \in [Node -> 0 .. GOSSIP_TICK_INTERVAL]

DeliveriesOK(del, G) == OnNodes(del) /\ \A n \in Node : del[n] \in Seq(G)

PublishedOK(pub) == pub \in [Ids -> Seq(Payload)]

Kinds == {"payload", "tick", "fail", "lose", "duplicate", "restart"}

LeftOK(l) == l \in [Kinds -> Nat] /\ \A w \in Kinds : l[w] <= Budget[w]

Types(G) ==
    /\ StatesOK(state)
    /\ UidsOK(uid)
    /\ MemberSetsOK(members)
    /\ ClocksOK(data_version)
    /\ LogsOK(data_log, G)
    /\ CountersOK(data_counter, left)
    /\ QueuesOK(out, G)
    /\ AgesOK(gossip_age)
    /\ DeliveriesOK(delivered, G)
    /\ PublishedOK(published)
    /\ NetworkOf(network, G)
    /\ LeftOK(left)

LEMMA MembersUpdated ==
    ASSUME NEW f, MemberSetsOK(f), NEW n \in Node, NEW v, MembersOK(v),
           NEW g, g = [f EXCEPT ![n] = v]
    PROVE  MemberSetsOK(g)
<1>0. OnNodes(f)
  BY DEF MemberSetsOK
<1>1. OnNodes(g) /\ g[n] = v /\ \A m \in Node \ {n} : g[m] = f[m]
  BY <1>0 DEF OnNodes
<1> QED
  BY <1>1 DEF MemberSetsOK

LEMMA ClocksUpdated ==
    ASSUME NEW f, ClocksOK(f), NEW n \in Node, NEW v,
           IsTable(v, ClockRecord, MAX_VECTOR_SIZE), NEW g, g = [f EXCEPT ![n] = v]
    PROVE  ClocksOK(g)
<1>0. OnNodes(f)
  BY DEF ClocksOK
<1>1. OnNodes(g) /\ g[n] = v /\ \A m \in Node \ {n} : g[m] = f[m]
  BY <1>0 DEF OnNodes
<1> QED
  BY <1>1 DEF ClocksOK

LEMMA LogsUpdated ==
    ASSUME NEW G, NEW f, LogsOK(f, G), NEW n \in Node, NEW v,
           IsTable(v, G, DATA_LOG_SIZE), NEW g, g = [f EXCEPT ![n] = v]
    PROVE  LogsOK(g, G)
<1>0. OnNodes(f)
  BY DEF LogsOK
<1>1. OnNodes(g) /\ g[n] = v /\ \A m \in Node \ {n} : g[m] = f[m]
  BY <1>0 DEF OnNodes
<1> QED
  BY <1>1 DEF LogsOK

LEMMA QueuesUpdated ==
    ASSUME NEW G, NEW f, QueuesOK(f, G), NEW n \in Node, NEW v, QueueOf(v, G),
           v.sequence_num <= MaxSeq, NEW g, g = [f EXCEPT ![n] = v]
    PROVE  QueuesOK(g, G)
<1>0. OnNodes(f)
  BY DEF QueuesOK
<1>1. OnNodes(g) /\ g[n] = v /\ \A m \in Node \ {n} : g[m] = f[m]
  BY <1>0 DEF OnNodes
<1> QED
  BY <1>1 DEF QueuesOK

LEMMA DeliveriesUpdated ==
    ASSUME NEW G, NEW f, DeliveriesOK(f, G), NEW n \in Node, NEW v \in Seq(G),
           NEW g, g = [f EXCEPT ![n] = v]
    PROVE  DeliveriesOK(g, G)
<1>0. OnNodes(f)
  BY DEF DeliveriesOK
<1>1. OnNodes(g) /\ g[n] = v /\ \A m \in Node \ {n} : g[m] = f[m]
  BY <1>0 DEF OnNodes
<1> QED
  BY <1>1 DEF DeliveriesOK

\* A larger set will do.
LEMMA TypesGrow ==
    ASSUME NEW G, NEW H, G \subseteq H, Types(G)
    PROVE  Types(H)
<1>1. Msgs(G) \subseteq Msgs(H)
  BY MsgsGrow
<1>2. QueuesOK(out, H)
  <2>1. ASSUME NEW n \in Node PROVE QueueOf(out[n], H)
    <3>1. WellFormed(out[n], Msgs(G), Node) /\ KeptIntact(out[n].queue)
      BY DEF Types, QueuesOK, QueueOf
    <3> QED
      BY <1>1, <3>1, WellFormedGrows DEF QueueOf
  <2> QED
    BY <2>1 DEF Types, QueuesOK
<1>3. \A s \in Seq(G) : s \in Seq(H)
  OBVIOUS
<1>4. LogsOK(data_log, H)
  <2>1. ASSUME NEW n \in Node PROVE IsTable(data_log[n], H, DATA_LOG_SIZE)
    <3>1. IsTable(data_log[n], G, DATA_LOG_SIZE)
      BY DEF Types, LogsOK
    <3> QED
      BY <1>3, <3>1 DEF IsTable
  <2> QED
    BY <2>1 DEF Types, LogsOK
<1>5. DeliveriesOK(delivered, H)
  BY <1>3 DEF Types, DeliveriesOK
<1>6. NetworkOf(network, H)
  BY NetworkGrows DEF Types
<1> QED
  BY <1>2, <1>4, <1>5, <1>6 DEF Types

\* The ids and members that there are.
LEMMA SelfType ==
    ASSUME NEW n \in Node, UidsOK(uid)
    PROVE  Self(n) \in Member /\ vector_clock_create_member_id(Self(n)) \in Ids
<1>2. uid[n] \in 0 .. MaxUid
  BY DEF UidsOK
<1>3. Self(n) = [address |-> n, uid |-> uid[n]]
  BY DEF Self
<1>4. CASE n \in Restarting
  BY <1>2, <1>3, <1>4 DEF Member, Ids
<1>5. CASE n \notin Restarting
  <2>1. uid[n] \in {0}
    BY <1>5 DEF UidsOK
  <2> QED
    BY <1>2, <1>3, <2>1 DEF Member, Ids
<1> QED
  BY <1>4, <1>5

\* Spending from the budget.
LEMMA SpendKeeps ==
    ASSUME NEW w \in Kinds, LeftOK(left), Spend(w)
    PROVE  /\ LeftOK(left')
           /\ left'[w] = left[w] - 1
           /\ \A v \in Kinds \ {w} : left'[v] = left[v]
<1>1. left \in [Kinds -> Nat] /\ left[w] > 0 /\ left' = [left EXCEPT ![w] = left[w] - 1]
  BY DEF LeftOK, Spend
<1>2. left[w] - 1 \in Nat /\ left[w] - 1 <= left[w]
  BY <1>1
<1>3. left' \in [Kinds -> Nat] /\ left'[w] = left[w] - 1
      /\ \A v \in Kinds \ {w} : left'[v] = left[v]
  BY <1>1, <1>2
<1>4. Budget[w] \in Nat
  BY BudgetAssumption DEF Kinds
<1>5. left'[w] <= Budget[w]
  BY <1>1, <1>2, <1>3, <1>4 DEF LeftOK
<1> QED
  BY <1>3, <1>5 DEF LeftOK

LEMMA InitTypes ==
    ASSUME NEW G, Init
    PROVE  Types(G)
<1>1. StatesOK(state) /\ AgesOK(gossip_age)
  BY TickIntervalAssumption DEF Init, EmptyNodes, StatesOK, AgesOK
<1>2. LeftOK(left)
  BY BudgetAssumption DEF Init, LeftOK, Kinds
<1>3. UidsOK(uid) /\ CountersOK(data_counter, left)
  BY BudgetAssumption, MaxUidAssumption
     DEF Init, EmptyNodes, UidsOK, CountersOK, OnNodes
<1>4. MemberSetsOK(members)
  BY InitialMembers DEF Init, EmptyNodes, MemberSetsOK, OnNodes
<1>5. ClocksOK(data_version) /\ LogsOK(data_log, G)
  BY EmptyTable, VectorSizeIsPositive, DataLogSizeAssumption
     DEF Init, EmptyNodes, ClocksOK, LogsOK, OnNodes
<1>6. QueuesOK(out, G)
  <2>1. QueueOf(EmptyOut, G) /\ EmptyOut.sequence_num <= MaxSeq
    BY MaxSeqAssumption DEF QueueOf, WellFormed, Numbered, KeptIntact, Intact, Grouped,
       EmptyOut
  <2> QED
    BY <2>1 DEF Init, EmptyNodes, QueuesOK, OnNodes
<1>7. DeliveriesOK(delivered, G) /\ PublishedOK(published)
  BY DEF Init, EmptyNodes, DeliveriesOK, OnNodes, PublishedOK
<1>8. NetworkOf(network, G)
  BY DEF Init, EmptyNodes, NetworkOf, EmptyBag, SetToBag, IsABag, BagToSet
<1> QED
  BY <1>1, <1>2, <1>3, <1>4, <1>5, <1>6, <1>7, <1>8 DEF Types

-----------------------------------------------------------------------------
(* Every operation and every handler keeps the types *)

LEMMA JoinTypes ==
    ASSUME NEW G, Types(G), NEW n \in Node, pittacus_gossip_join(n)
    PROVE  Types(G)'
<1> DEFINE o == FoldLeft(LAMBDA p, seed : Direct(p, Hello(Self(n)), seed), out[n], Seeds[n])
<1>1. /\ state' = [state EXCEPT ![n] = IF Seeds[n] = <<>> THEN "CONNECTED" ELSE "JOINING"]
      /\ UNCHANGED <<uid, members, data_version, data_log, data_counter,
                     gossip_age, delivered, published, network, left>>
  BY DEF pittacus_gossip_join
<1>2. o.sequence_num <= MaxSeq /\ out' = [out EXCEPT ![n] = o]
  BY DEF pittacus_gossip_join, SetOut
<1>3. QueueOf(o, G)
  <2>1. Self(n) \in Member
    BY SelfType DEF Types
  <2>2. Hello(Self(n)) \in Msgs(G) /\ Hello(Self(n)).type # "ACK"
    BY <2>1, MsgTypes DEF Hello
  <2>3. Seeds[n] \in Seq(Node)
    <3>1. Seeds[n] \in Seq(Node \ {n})
      BY SeedsAssumption
    <3> QED
      BY <3>1
  <2>4. QueueOf(out[n], G)
    BY DEF Types, QueuesOK
  <2> QED
    BY <2>2, <2>3, <2>4, HelloQueue DEF Appended
<1> HIDE DEF o
<1>4. QueuesOK(out', G)
  BY <1>2, <1>3, QueuesUpdated DEF Types
<1>5. StatesOK(state')
  BY <1>1 DEF Types, StatesOK
<1> QED
  BY <1>1, <1>4, <1>5 DEF Types

\* The record that pittacus_gossip_send_data makes of a payload.
Sent(n, data) ==
    DataRecord(vector_clock_create_member_id(Self(n)), data_counter[n] + 1, data)

LEMMA SetClock ==
    ASSUME NEW c, IsTable(c, ClockRecord, MAX_VECTOR_SIZE), NEW id \in Ids, NEW k \in Nat,
           NEW u, u = vector_clock_set(c, id, k)
    PROVE  IsTable(u, ClockRecord, MAX_VECTOR_SIZE)
<1>1. Record(id, k) \in ClockRecord
  BY DEF Record, ClockRecord
<1> QED
  BY <1>1, SetKeepsTable, VectorSizeIsPositive DEF vector_clock_set

LEMMA SendTypes ==
    ASSUME NEW G, Types(G), NEW n \in Node, NEW data \in Payload,
           pittacus_gossip_send_data(n, data), Sent(n, data) \in G
    PROVE  Types(G)'
<1> DEFINE id == vector_clock_create_member_id(Self(n))
           k  == data_counter[n] + 1
<1>1. /\ data_counter' = [data_counter EXCEPT ![n] = k]
      /\ data_version' = [data_version EXCEPT ![n] = vector_clock_set(data_version[n], id, k)]
      /\ data_log' = [data_log EXCEPT ![n] =
                         SetRecord(data_log[n], Sent(n, data), DATA_LOG_SIZE)]
      /\ published' = [published EXCEPT ![id] = Append(published[id], data)]
      /\ Spend("payload")
      /\ UNCHANGED <<state, uid, members, gossip_age, delivered, network>>
  BY DEF pittacus_gossip_send_data, Sent
<1>2. PICK o \in Random(out[n], Data(Sent(n, data)), members[n]) :
           o.sequence_num <= MaxSeq /\ out' = [out EXCEPT ![n] = o]
  BY DEF pittacus_gossip_send_data, SetOut, Sent
<1>3. id \in Ids
  BY SelfType DEF Types
<1>4. /\ LeftOK(left') /\ left'["payload"] = left["payload"] - 1
      /\ left["payload"] \in Nat
  BY <1>1, SpendKeeps DEF Types, Kinds, LeftOK
<1>5. k \in Nat /\ data_counter[n] \in Nat
      /\ data_counter[n] + left["payload"] <= Budget["payload"]
  BY DEF Types, CountersOK
<1> HIDE DEF id
<1>6. CountersOK(data_counter', left')
  <2>1. Budget["payload"] \in Nat
    BY BudgetAssumption
  <2>2. OnNodes(data_counter') /\ data_counter'[n] = k
        /\ \A m \in Node \ {n} : data_counter'[m] = data_counter[m]
    BY <1>1 DEF Types, CountersOK, OnNodes
  <2>3. k + left'["payload"] <= Budget["payload"]
    BY <1>4, <1>5, <2>1
  <2>4. \A m \in Node : data_counter[m] \in Nat
                        /\ data_counter[m] + left["payload"] <= Budget["payload"]
    BY DEF Types, CountersOK
  <2>5. \A m \in Node : data_counter[m] + left'["payload"] <= Budget["payload"]
    BY <1>4, <2>1, <2>4
  <2> HIDE DEF k
  <2>6. ASSUME NEW m \in Node
        PROVE  data_counter'[m] \in Nat
               /\ data_counter'[m] + left'["payload"] <= Budget["payload"]
    BY <1>5, <2>2, <2>3, <2>4, <2>5
  <2> QED
    BY <2>2, <2>6 DEF CountersOK
<1> HIDE DEF k
<1>7. ClocksOK(data_version')
  <2>1. IsTable(vector_clock_set(data_version[n], id, k), ClockRecord, MAX_VECTOR_SIZE)
    BY <1>3, <1>5, SetClock DEF Types, ClocksOK
  <2> QED
    BY <1>1, <2>1, ClocksUpdated DEF Types
<1>8. LogsOK(data_log', G)
  <2>1. IsTable(SetRecord(data_log[n], Sent(n, data), DATA_LOG_SIZE), G, DATA_LOG_SIZE)
    BY SetKeepsTable, DataLogSizeAssumption DEF Types, LogsOK
  <2> QED
    BY <1>1, <2>1, LogsUpdated DEF Types
<1>9. PublishedOK(published')
  <2>1. Append(published[id], data) \in Seq(Payload)
    BY <1>3 DEF Types, PublishedOK
  <2> QED
    BY <1>1, <1>3, <2>1 DEF Types, PublishedOK
<1>10. QueuesOK(out', G)
  <2>1. Data(Sent(n, data)) \in Msgs(G)
    BY MsgTypes
  <2>2. QueueOf(out[n], G) /\ members[n].set \in Seq(Member)
    BY DEF Types, QueuesOK, MemberSetsOK, MembersOK
  <2>3. QueueOf(o, G)
    BY <1>2, <2>1, <2>2, RandomQueue
  <2> QED
    BY <1>2, <2>3, QueuesUpdated DEF Types
<1>11. UidsOK(uid')
  BY <1>1, <1>4 DEF Types, UidsOK
<1> QED
  BY <1>1, <1>4, <1>6, <1>7, <1>8, <1>9, <1>10, <1>11 DEF Types

LEMMA TickTypes ==
    ASSUME NEW G, Types(G), NEW n \in Node, pittacus_gossip_tick(n)
    PROVE  Types(G)'
<1>1. /\ Spend("tick")
      /\ gossip_age' = [gossip_age EXCEPT ![n] = 0]
      /\ UNCHANGED <<state, uid, members, data_version, data_log, data_counter,
                     delivered, published, network>>
  BY DEF pittacus_gossip_tick
<1>2. PICK o \in Random(out[n], Status(data_version[n]), members[n]) :
           o.sequence_num <= MaxSeq /\ out' = [out EXCEPT ![n] = o]
  BY DEF pittacus_gossip_tick, SetOut
<1>3. LeftOK(left') /\ left'["payload"] = left["payload"]
  BY <1>1, SpendKeeps DEF Types, Kinds
<1>4. QueuesOK(out', G)
  <2>1. data_version[n].records \in Seq(ClockRecord)
    BY DEF Types, ClocksOK, IsTable
  <2>2. Status(data_version[n]) \in Msgs(G)
    BY <2>1, MsgTypes
  <2>3. QueueOf(out[n], G) /\ members[n].set \in Seq(Member)
    BY DEF Types, QueuesOK, MemberSetsOK, MembersOK
  <2>4. QueueOf(o, G)
    BY <1>2, <2>2, <2>3, RandomQueue
  <2> QED
    BY <1>2, <2>4, QueuesUpdated DEF Types
<1>5. AgesOK(gossip_age')
  BY <1>1, TickIntervalAssumption DEF Types, AgesOK
<1>6. UidsOK(uid') /\ CountersOK(data_counter', left')
  BY <1>1, <1>3 DEF Types, UidsOK, CountersOK
<1> QED
  BY <1>1, <1>3, <1>4, <1>5, <1>6 DEF Types

\* Where a pass ends is past an envelope's number.
LEMMA PassEnds ==
    ASSUME NEW G, NEW n \in Node, QueueOf(out[n], G), NEW d,
           NEW stop \in {PastLast(n)} \cup WriteFailures(n, d)
    PROVE  stop \in Nat /\ stop >= 1 /\ stop - 1 \in Nat
<1>1. CASE stop = PastLast(n)
  <2>1. out[n].sequence_num \in Nat
    BY DEF QueueOf, WellFormed
  <2> QED
    BY <1>1, <2>1 DEF PastLast
<1>2. CASE stop \in WriteFailures(n, d)
  <2>1. PICK e \in out[n].queue : stop = e.sequence_num
    BY <1>2 DEF WriteFailures, Due
  <2>2. e \in Envelope(Msgs(G), Node) /\ e.sequence_num >= 1
    BY DEF QueueOf, WellFormed, Proper
  <2>3. e.sequence_num \in Nat
    BY <2>2 DEF Envelope
  <2> QED
    BY <2>1, <2>2, <2>3
<1> QED
  BY <1>1, <1>2

\* The queue after a pass.
LEMMA PassQueue ==
    ASSUME NEW G, NEW o, QueueOf(o, G), NEW stop \in Nat, NEW D \in 0 .. MaxDrift,
           NEW d \in Timings(o.queue, D),
           NEW p, p = [o EXCEPT !.queue = AfterPass(o.queue, d, D, stop)]
    PROVE  /\ QueueOf(p, G) /\ p.sequence_num = o.sequence_num
           /\ \A New : Follows(o, p, New)
<1>1. D \in Nat /\ d \in [o.queue -> 0 .. D] /\ (NoDrift => D = 0)
  BY MaxDriftAssumption DEF Timings, NoDrift
<1>2. /\ WellFormed(p, Msgs(G), Node) /\ p.sequence_num = o.sequence_num
      /\ \A New : Follows(o, p, New)
      /\ D = 0 => KeepsIntact(o, p)
  BY <1>1, PassWellFormed DEF QueueOf
<1>3. KeptIntact(p.queue)
  BY <1>1, <1>2 DEF QueueOf, KeptIntact, KeepsIntact
<1> QED
  BY <1>2, <1>3 DEF QueueOf

\* The time since the last status round is kept up to the interval.
LEMMA AgeType ==
    ASSUME NEW a \in 0 .. GOSSIP_TICK_INTERVAL, NEW D \in Nat
    PROVE  Min({a + D, GOSSIP_TICK_INTERVAL}) \in 0 .. GOSSIP_TICK_INTERVAL
<1>1. PICK T \in Nat : T = GOSSIP_TICK_INTERVAL
  BY TickIntervalAssumption
<1>2. a + D <= T => Min({a + D, T}) = a + D
  BY <1>1 DEF Min
<1>3. T <= a + D => Min({a + D, T}) = T
  BY <1>1 DEF Min
<1> QED
  BY <1>1, <1>2, <1>3

LEMMA ProcessSendTypes ==
    ASSUME NEW G, Types(G), NEW n \in Node, pittacus_gossip_process_send(n)
    PROVE  Types(G)'
<1>1. PICK D \in 0 .. MaxDrift : \E d \in Timings(out[n].queue, D) :
          \E stop \in {PastLast(n)} \cup WriteFailures(n, d) :
              /\ Pass(n, d, D, stop)
              /\ \E datagrams \in Transmissions(n, d, stop) :
                    network' = network (+) SetToBag(datagrams)
              /\ IF stop = PastLast(n) THEN UNCHANGED left ELSE Spend("fail")
  BY DEF pittacus_gossip_process_send
<1>0. PICK d \in Timings(out[n].queue, D) :
          \E stop \in {PastLast(n)} \cup WriteFailures(n, d) :
              /\ Pass(n, d, D, stop)
              /\ \E datagrams \in Transmissions(n, d, stop) :
                    network' = network (+) SetToBag(datagrams)
              /\ IF stop = PastLast(n) THEN UNCHANGED left ELSE Spend("fail")
  BY <1>1
<1>a. PICK stop \in {PastLast(n)} \cup WriteFailures(n, d) :
          /\ Pass(n, d, D, stop)
          /\ \E datagrams \in Transmissions(n, d, stop) :
                network' = network (+) SetToBag(datagrams)
          /\ IF stop = PastLast(n) THEN UNCHANGED left ELSE Spend("fail")
  BY <1>0
<1>2. UNCHANGED <<state, uid, data_version, data_log, data_counter,
                  delivered, published>>
  BY DEF pittacus_gossip_process_send
<1>3. QueueOf(out[n], G) /\ out[n].sequence_num <= MaxSeq /\ MembersOK(members[n])
  BY DEF Types, QueuesOK, MemberSetsOK
<1>4. stop - 1 \in Nat /\ stop \in Nat
  BY <1>3, PassEnds
<1>5. QueuesOK(out', G)
  <2> DEFINE o == [out[n] EXCEPT !.queue = AfterPass(out[n].queue, d, D, stop)]
  <2>1. out' = [out EXCEPT ![n] = o]
    BY <1>a DEF Pass
  <2>2. QueueOf(o, G) /\ o.sequence_num = out[n].sequence_num
    BY <1>3, <1>4, PassQueue
  <2> HIDE DEF o
  <2> QED
    BY <1>3, <2>1, <2>2, QueuesUpdated DEF Types
<1>6. MemberSetsOK(members')
  <2> DEFINE q == out[n].queue
             k == stop - 1
             a == members[n]
             b == [s \in 1 .. k |-> s]
             u == IF Dropping(q) = {} THEN a ELSE AfterDrops(q, a, b)
  <2>1. members' = [members EXCEPT ![n] = u]
    BY <1>a DEF Pass, AfterDrops, DropStep
  <2>2. MembersOK(u)
    <3>0. k \in Nat
      BY <1>4
    <3>1. DOMAIN b = 1 .. k /\ MembersOK(a)
      BY <1>3
    <3> HIDE DEF q, k, a, b
    <3> QED
      BY <3>0, <3>1, DropKeeps
  <2> HIDE DEF u
  <2> QED
    BY <2>1, <2>2, MembersUpdated DEF Types
<1>7. NetworkOf(network', G)
  <2>0. PICK datagrams \in Transmissions(n, d, stop) :
            network' = network (+) SetToBag(datagrams)
    BY <1>a
  <2>1. \A x \in datagrams :
            x \in [from : Node, to : Node, sequence_num : Nat, msg : Msgs(G)]
    BY <1>3, DatagramsType
  <2> QED
    BY <2>0, <2>1, NetworkGets DEF Types
<1>8. LeftOK(left') /\ left'["payload"] = left["payload"]
  BY <1>a, SpendKeeps DEF Types, Kinds
<1>9. UidsOK(uid') /\ CountersOK(data_counter', left')
  BY <1>2, <1>8 DEF Types, UidsOK, CountersOK
<1>10. AgesOK(gossip_age')
  <2>1. gossip_age' = [gossip_age EXCEPT ![n] =
                          Min({gossip_age[n] + D, GOSSIP_TICK_INTERVAL})]
    BY <1>a DEF Pass
  <2>2. gossip_age[n] \in 0 .. GOSSIP_TICK_INTERVAL /\ D \in Nat
    BY MaxDriftAssumption DEF Types, AgesOK
  <2>3. PICK a \in 0 .. GOSSIP_TICK_INTERVAL :
            a = Min({gossip_age[n] + D, GOSSIP_TICK_INTERVAL})
    BY <2>2, AgeType
  <2> QED
    BY <2>1, <2>3 DEF Types, AgesOK
<1> QED
  BY <1>2, <1>5, <1>6, <1>7, <1>8, <1>9, <1>10 DEF Types

\* What a datagram is made of.
LEMMA DatagramType ==
    ASSUME NEW G, NetworkOf(network, G), NEW d \in BagToSet(network)
    PROVE  d.from \in Node /\ d.to \in Node /\ d.sequence_num \in Nat /\ d.msg \in Msgs(G)
<1>1. d \in [from : Node, to : Node, sequence_num : Nat, msg : Msgs(G)]
  BY DEF NetworkOf
<1> QED
  BY <1>1

LEMMA ReadKeeps ==
    ASSUME NEW G, NetworkOf(network, G), NEW n, NEW d, NEW type, Read(n, d, type)
    PROVE  NetworkOf(network', G) /\ left' = left /\ d.msg.type = type
<1>1. network' = network (-) SetToBag({d}) /\ left' = left /\ d.msg.type = type
  BY DEF Read
<1> QED
  BY <1>1, NetworkTakes

LEMMA HelloTypes ==
    ASSUME NEW G, Types(G), NEW n \in Node, NEW d \in BagToSet(network),
           gossip_handle_hello(n, d)
    PROVE  Types(G)'
<1> DEFINE new      == d.msg.this_member
           welcomed == Direct(out[n], Welcome(d.sequence_num, Self(n)), d.from)
           informed == gossip_enqueue_member_list(welcomed, members[n].set, d.from)
           o        == Broadcast(informed, MemberList(<<new>>), members[n])
           u        == cluster_member_set_put(members[n], <<new>>)
<1>1. /\ Read(n, d, "HELLO")
      /\ o.sequence_num <= MaxSeq /\ out' = [out EXCEPT ![n] = o]
      /\ members' = [members EXCEPT ![n] = u]
      /\ UNCHANGED <<state, uid, data_version, data_log, data_counter,
                     gossip_age, delivered, published>>
  BY DEF gossip_handle_hello, SetOut
<1>2. NetworkOf(network', G) /\ left' = left /\ d.msg.type = "HELLO"
  BY <1>1, ReadKeeps DEF Types
<1>3. d.from \in Node /\ d.sequence_num \in Nat /\ d.msg \in Msgs(G)
  BY DatagramType DEF Types
<1>4. new \in Member /\ <<new>> \in Seq(Member)
  BY <1>2, <1>3, MsgFields
<1>5. QueueOf(out[n], G) /\ MembersOK(members[n]) /\ members[n].set \in Seq(Member)
  BY DEF Types, QueuesOK, MemberSetsOK, MembersOK
<1>6. Self(n) \in Member
  BY SelfType DEF Types
<1> HIDE DEF new
<1>7. QueueOf(welcomed, G)
  BY <1>3, <1>5, <1>6, MsgTypes, DirectQueue
<1> HIDE DEF welcomed
<1>8. QueueOf(informed, G)
  BY <1>3, <1>5, <1>7, ListQueue DEF Appended
<1> HIDE DEF informed
<1>9. QueueOf(o, G)
  BY <1>4, <1>5, <1>8, MsgTypes, BroadcastQueue
<1>10. MembersOK(u)
  BY <1>4, <1>5, PutFits
<1> HIDE DEF o, u
<1>11. QueuesOK(out', G)
  BY <1>1, <1>9, QueuesUpdated DEF Types
<1>12. MemberSetsOK(members')
  BY <1>1, <1>10, MembersUpdated DEF Types
<1> QED
  BY <1>1, <1>2, <1>11, <1>12 DEF Types

LEMMA RemoveQueue ==
    ASSUME NEW G, NEW o, QueueOf(o, G), NEW s,
           NEW p, p = [o EXCEPT !.queue = gossip_envelope_remove(o.queue, s)]
    PROVE  QueueOf(p, G) /\ p.sequence_num = o.sequence_num /\ \A New : Follows(o, p, New)
<1>1. /\ WellFormed(p, Msgs(G), Node) /\ \A New : Follows(o, p, New)
      /\ KeepsIntact(o, p)
  BY RemoveWellFormed DEF QueueOf
<1>2. KeptIntact(p.queue)
  BY <1>1, StaysIntact DEF QueueOf
<1>3. p.sequence_num = o.sequence_num
  BY DEF QueueOf, WellFormed
<1> QED
  BY <1>1, <1>2, <1>3 DEF QueueOf

LEMMA WelcomeTypes ==
    ASSUME NEW G, Types(G), NEW n \in Node, NEW d \in BagToSet(network),
           gossip_handle_welcome(n, d)
    PROVE  Types(G)'
<1> DEFINE new == d.msg.this_member
           o   == [out[n] EXCEPT !.queue =
                      gossip_envelope_remove(out[n].queue, d.msg.hello_sequence_num)]
           u   == cluster_member_set_put(members[n], <<new>>)
<1>1. /\ Read(n, d, "WELCOME")
      /\ state' = [state EXCEPT ![n] = "CONNECTED"]
      /\ out' = [out EXCEPT ![n] = o]
      /\ members' = [members EXCEPT ![n] = u]
      /\ UNCHANGED <<uid, data_version, data_log, data_counter, gossip_age,
                     delivered, published>>
  BY DEF gossip_handle_welcome
<1>2. NetworkOf(network', G) /\ left' = left /\ d.msg.type = "WELCOME"
  BY <1>1, ReadKeeps DEF Types
<1>3. d.msg \in Msgs(G)
  BY DatagramType DEF Types
<1>4. new \in Member /\ <<new>> \in Seq(Member)
  BY <1>2, <1>3, MsgFields
<1>5. /\ QueueOf(out[n], G) /\ MembersOK(members[n])
      /\ out[n].sequence_num <= MaxSeq
  BY DEF Types, QueuesOK, MemberSetsOK
<1> HIDE DEF new
<1>6. QueueOf(o, G) /\ o.sequence_num = out[n].sequence_num
  BY <1>5, RemoveQueue
<1>7. MembersOK(u)
  BY <1>4, <1>5, PutFits
<1> HIDE DEF o, u
<1>8. QueuesOK(out', G)
  BY <1>1, <1>5, <1>6, QueuesUpdated DEF Types
<1>9. MemberSetsOK(members')
  BY <1>1, <1>7, MembersUpdated DEF Types
<1>10. StatesOK(state')
  BY <1>1 DEF Types, StatesOK
<1> QED
  BY <1>1, <1>2, <1>8, <1>9, <1>10 DEF Types

LEMMA MemberListTypes ==
    ASSUME NEW G, Types(G), NEW n \in Node, NEW d \in BagToSet(network),
           gossip_handle_member_list(n, d)
    PROVE  Types(G)'
<1> DEFINE o == Direct(out[n], Ack(d.sequence_num), d.from)
           u == cluster_member_set_put(members[n], d.msg.members)
<1>1. /\ Read(n, d, "MEMBER_LIST")
      /\ o.sequence_num <= MaxSeq /\ out' = [out EXCEPT ![n] = o]
      /\ members' = [members EXCEPT ![n] = u]
      /\ UNCHANGED <<state, uid, data_version, data_log, data_counter,
                     gossip_age, delivered, published>>
  BY DEF gossip_handle_member_list, SetOut
<1>2. NetworkOf(network', G) /\ left' = left /\ d.msg.type = "MEMBER_LIST"
  BY <1>1, ReadKeeps DEF Types
<1>3. d.from \in Node /\ d.sequence_num \in Nat /\ d.msg \in Msgs(G)
  BY DatagramType DEF Types
<1>4. d.msg.members \in Seq(Member)
  BY <1>2, <1>3, MsgFields
<1>5. QueueOf(out[n], G) /\ MembersOK(members[n])
  BY DEF Types, QueuesOK, MemberSetsOK
<1>6. QueueOf(o, G)
  BY <1>3, <1>5, MsgTypes, DirectQueue
<1>7. MembersOK(u)
  BY <1>4, <1>5, PutFits
<1> HIDE DEF o, u
<1>8. QueuesOK(out', G)
  BY <1>1, <1>6, QueuesUpdated DEF Types
<1>9. MemberSetsOK(members')
  BY <1>1, <1>7, MembersUpdated DEF Types
<1> QED
  BY <1>1, <1>2, <1>8, <1>9 DEF Types

LEMMA DataTypes ==
    ASSUME NEW G, G \subseteq LogRecord, Types(G), NEW n \in Node,
           NEW d \in BagToSet(network), gossip_handle_data(n, d)
    PROVE  Types(G)'
<1> DEFINE r     == d.msg.record
           acked == Direct(out[n], Ack(d.sequence_num), d.from)
           news  == vector_clock_compare_with_record(data_version[n], r) = "BEFORE"
<1>1. /\ Read(n, d, "DATA")
      /\ data_version' = [data_version EXCEPT ![n] = MergeRecord(data_version[n], r)]
      /\ UNCHANGED <<state, uid, members, data_counter, gossip_age, published>>
  BY DEF gossip_handle_data
<1>2. \/ /\ news
         /\ data_log' = [data_log EXCEPT ![n] = SetRecord(data_log[n], r, DATA_LOG_SIZE)]
         /\ delivered' = [delivered EXCEPT ![n] = Append(delivered[n], r)]
         /\ \E o \in Random(acked, d.msg, members[n]) :
               o.sequence_num <= MaxSeq /\ out' = [out EXCEPT ![n] = o]
      \/ /\ ~news
         /\ acked.sequence_num <= MaxSeq /\ out' = [out EXCEPT ![n] = acked]
         /\ UNCHANGED <<data_log, delivered>>
  BY DEF gossip_handle_data, SetOut
<1>3. NetworkOf(network', G) /\ left' = left /\ d.msg.type = "DATA"
  BY <1>1, ReadKeeps DEF Types
<1>4. d.from \in Node /\ d.sequence_num \in Nat /\ d.msg \in Msgs(G)
  BY DatagramType DEF Types
<1>5. r \in G
  BY <1>3, <1>4, MsgFields
<1>6. r.member_id \in Ids /\ r.sequence_number \in Nat
  BY <1>5 DEF LogRecord
<1>7. /\ QueueOf(out[n], G) /\ members[n].set \in Seq(Member)
      /\ IsTable(data_version[n], ClockRecord, MAX_VECTOR_SIZE)
      /\ IsTable(data_log[n], G, DATA_LOG_SIZE) /\ delivered[n] \in Seq(G)
  BY DEF Types, QueuesOK, MemberSetsOK, MembersOK, ClocksOK, LogsOK, DeliveriesOK
<1> HIDE DEF r
<1>8. ClocksOK(data_version')
  <2>1. IsTable(MergeRecord(data_version[n], r), ClockRecord, MAX_VECTOR_SIZE)
    BY <1>6, <1>7, SetClock DEF MergeRecord
  <2> QED
    BY <1>1, <2>1, ClocksUpdated DEF Types
<1>9. QueueOf(acked, G)
  BY <1>4, <1>7, MsgTypes, DirectQueue
<1> HIDE DEF acked, news
<1>10. QueuesOK(out', G) /\ LogsOK(data_log', G) /\ DeliveriesOK(delivered', G)
  <2>1. CASE news
    <3>1. PICK o \in Random(acked, d.msg, members[n]) :
              o.sequence_num <= MaxSeq /\ out' = [out EXCEPT ![n] = o]
      BY <1>2, <2>1
    <3>2. QueueOf(o, G)
      BY <1>4, <1>7, <1>9, RandomQueue
    <3>3. QueuesOK(out', G)
      BY <3>1, <3>2, QueuesUpdated DEF Types
    <3>4. IsTable(SetRecord(data_log[n], r, DATA_LOG_SIZE), G, DATA_LOG_SIZE)
      BY <1>5, <1>7, SetKeepsTable, DataLogSizeAssumption
    <3>5. data_log' = [data_log EXCEPT ![n] = SetRecord(data_log[n], r, DATA_LOG_SIZE)]
      BY <1>2, <2>1
    <3>6. LogsOK(data_log', G)
      BY <3>4, <3>5, LogsUpdated DEF Types
    <3>7. Append(delivered[n], r) \in Seq(G)
      BY <1>5, <1>7
    <3>8. delivered' = [delivered EXCEPT ![n] = Append(delivered[n], r)]
      BY <1>2, <2>1
    <3>9. DeliveriesOK(delivered', G)
      BY <3>7, <3>8, DeliveriesUpdated DEF Types
    <3> QED
      BY <3>3, <3>6, <3>9
  <2>2. CASE ~news
    <3>1. QueuesOK(out', G)
      BY <1>2, <1>9, <2>2, QueuesUpdated DEF Types
    <3> QED
      BY <1>2, <2>2, <3>1 DEF Types
  <2> QED
    BY <2>1, <2>2
<1> QED
  BY <1>1, <1>3, <1>8, <1>10 DEF Types

LEMMA AckTypes ==
    ASSUME NEW G, Types(G), NEW n \in Node, NEW d \in BagToSet(network),
           gossip_handle_ack(n, d)
    PROVE  Types(G)'
<1> DEFINE o == [out[n] EXCEPT !.queue =
                    gossip_envelope_remove(out[n].queue, d.msg.ack_sequence_num)]
<1>1. /\ Read(n, d, "ACK")
      /\ out' = [out EXCEPT ![n] = o]
      /\ UNCHANGED <<state, uid, members, data_version, data_log, data_counter,
                     gossip_age, delivered, published>>
  BY DEF gossip_handle_ack
<1>2. NetworkOf(network', G) /\ left' = left
  BY <1>1, ReadKeeps DEF Types
<1>3. QueueOf(out[n], G) /\ out[n].sequence_num <= MaxSeq
  BY DEF Types, QueuesOK
<1>4. QueueOf(o, G) /\ o.sequence_num = out[n].sequence_num
  BY <1>3, RemoveQueue
<1> HIDE DEF o
<1>5. QueuesOK(out', G)
  BY <1>1, <1>3, <1>4, QueuesUpdated DEF Types
<1> QED
  BY <1>1, <1>2, <1>5 DEF Types

LEMMA StatusTypes ==
    ASSUME NEW G, Types(G), NEW n \in Node, NEW d \in BagToSet(network),
           gossip_handle_status(n, d)
    PROVE  Types(G)'
<1> DEFINE theirs  == [records |-> d.msg.records, current_idx |-> 0]
           res     == vector_clock_compare(data_version[n], theirs)
           acked   == Direct(out[n], Ack(d.sequence_num), d.from)
           relayed == gossip_enqueue_data_log(acked, data_log[n], theirs, d.from)
           asked   == Direct(acked, Status(data_version[n]), d.from)
           both    == Direct(relayed.out, Status(data_version[n]), d.from)
           o == CASE res = "AFTER" -> relayed.out
                  [] res = "BEFORE" -> asked
                  [] res = "CONFLICT" -> IF relayed.failed THEN relayed.out ELSE both
                  [] OTHER -> acked
<1>1. /\ Read(n, d, "STATUS")
      /\ o.sequence_num <= MaxSeq /\ out' = [out EXCEPT ![n] = o]
      /\ UNCHANGED <<state, uid, members, data_version, data_log, data_counter,
                     gossip_age, delivered, published>>
  BY DEF gossip_handle_status, SetOut
<1>2. NetworkOf(network', G) /\ left' = left
  BY <1>1, ReadKeeps DEF Types
<1>3. d.from \in Node /\ d.sequence_num \in Nat
  BY DatagramType DEF Types
<1>4. /\ QueueOf(out[n], G) /\ data_version[n].records \in Seq(ClockRecord)
      /\ data_log[n].records \in Seq(G)
  BY DEF Types, QueuesOK, ClocksOK, LogsOK, IsTable
<1>5. Status(data_version[n]) \in Msgs(G)
  BY <1>4, MsgTypes
<1> HIDE DEF theirs, res
<1>6. QueueOf(acked, G)
  BY <1>3, <1>4, MsgTypes, DirectQueue
<1> HIDE DEF acked
<1>7. QueueOf(relayed.out, G)
  BY <1>3, <1>4, <1>6, RelayQueue DEF Appended
<1>8. QueueOf(asked, G)
  BY <1>3, <1>5, <1>6, DirectQueue
<1> HIDE DEF relayed
<1>9. QueueOf(both, G)
  BY <1>3, <1>5, <1>7, DirectQueue
<1> HIDE DEF asked, both
<1>10. QueueOf(o, G)
  <2>1. o = relayed.out \/ o = asked \/ o = both \/ o = acked
    OBVIOUS
  <2> QED
    BY <1>6, <1>7, <1>8, <1>9, <2>1
<1> HIDE DEF o
<1>11. QueuesOK(out', G)
  BY <1>1, <1>10, QueuesUpdated DEF Types
<1> QED
  BY <1>1, <1>2, <1>11 DEF Types

\* Datagrams that are refused, lost or duplicated.
LEMMA RefuseTypes ==
    ASSUME NEW G, Types(G), NEW n \in Node, NEW d \in BagToSet(network),
           RefuseUntilWelcome(n, d)
    PROVE  Types(G)'
<1>1. PICK type : Read(n, d, type)
  BY DEF RefuseUntilWelcome
<1>2. UNCHANGED <<state, uid, members, data_version, data_log, data_counter,
                  out, gossip_age, delivered, published>>
  BY DEF RefuseUntilWelcome, nodeVars
<1>3. NetworkOf(network', G) /\ left' = left
  BY <1>1, ReadKeeps DEF Types
<1> QED
  BY <1>2, <1>3 DEF Types

LEMMA FaultTypes ==
    ASSUME NEW G, Types(G), NEW d \in BagToSet(network), Lose(d) \/ Duplicate(d)
    PROVE  Types(G)'
<1>1. UNCHANGED <<state, uid, members, data_version, data_log, data_counter,
                  out, gossip_age, delivered, published>>
  BY DEF Lose, Duplicate, nodeVars
<1>2. LeftOK(left') /\ left'["payload"] = left["payload"]
  BY SpendKeeps DEF Types, Kinds, Lose, Duplicate
<1>3. NetworkOf(network', G)
  <2>1. CASE network' = network (-) SetToBag({d})
    BY <2>1, NetworkTakes DEF Types
  <2>2. CASE network' = network (+) SetToBag({d})
    <3>1. \A e \in {d} : e \in [from : Node, to : Node, sequence_num : Nat, msg : Msgs(G)]
      BY DEF Types, NetworkOf
    <3> QED
      BY <2>2, <3>1, NetworkGets DEF Types
  <2> QED
    BY <2>1, <2>2 DEF Lose, Duplicate
<1>4. UidsOK(uid') /\ CountersOK(data_counter', left')
  BY <1>1, <1>2 DEF Types, UidsOK, CountersOK
<1> QED
  BY <1>1, <1>2, <1>3, <1>4 DEF Types

\* A process is started again.
LEMMA RestartTypes ==
    ASSUME NEW G, Types(G), NEW n \in Node, pittacus_gossip_init(n)
    PROVE  Types(G)'
<1>0. PICK u \in uid[n] + Pause .. MaxUid : uid' = [uid EXCEPT ![n] = u]
  BY DEF pittacus_gossip_init
<1>1. /\ n \in Restarting /\ Spend("restart")
      /\ state' = [state EXCEPT ![n] = "INITIALIZED"]
      /\ members' = [members EXCEPT ![n] = cluster_member_set_init]
      /\ data_version' = [data_version EXCEPT ![n] = Table]
      /\ data_log' = [data_log EXCEPT ![n] = Table]
      /\ data_counter' = [data_counter EXCEPT ![n] = 0]
      /\ out' = [out EXCEPT ![n] = EmptyOut]
      /\ gossip_age' = [gossip_age EXCEPT ![n] = GOSSIP_TICK_INTERVAL]
      /\ delivered' = [delivered EXCEPT ![n] = <<>>]
      /\ UNCHANGED <<published, network>>
  BY DEF pittacus_gossip_init
<1>2. /\ LeftOK(left') /\ left'["payload"] = left["payload"]
      /\ left["payload"] \in Nat
      /\ left["payload"] <= Budget["payload"]
  BY <1>1, SpendKeeps DEF Types, Kinds, LeftOK
<1>3. StatesOK(state') /\ AgesOK(gossip_age')
  BY <1>1, TickIntervalAssumption DEF Types, StatesOK, AgesOK
<1>4. UidsOK(uid')
  <2>1. OnNodes(uid') /\ uid'[n] = u
        /\ \A m \in Node \ {n} : uid'[m] = uid[m]
    BY <1>0 DEF Types, UidsOK, OnNodes
  <2>2. u \in 0 .. MaxUid
    BY <1>0, PauseAssumption, MaxUidAssumption DEF Types, UidsOK
  <2> QED
    BY <1>1, <2>1, <2>2 DEF Types, UidsOK
<1>5. CountersOK(data_counter', left')
  <2>1. OnNodes(data_counter') /\ data_counter'[n] = 0
        /\ \A m \in Node \ {n} : data_counter'[m] = data_counter[m]
    BY <1>1 DEF Types, CountersOK, OnNodes
  <2> QED
    BY <1>2, <2>1 DEF Types, CountersOK
<1>6. MemberSetsOK(members')
  BY <1>1, InitialMembers, MembersUpdated DEF Types
<1>7. ClocksOK(data_version') /\ LogsOK(data_log', G)
  <2>1. IsTable(Table, ClockRecord, MAX_VECTOR_SIZE) /\ IsTable(Table, G, DATA_LOG_SIZE)
    BY EmptyTable, VectorSizeIsPositive, DataLogSizeAssumption
  <2>2. ClocksOK(data_version')
    BY <1>1, <2>1, ClocksUpdated DEF Types
  <2>3. LogsOK(data_log', G)
    BY <1>1, <2>1, LogsUpdated DEF Types
  <2> QED
    BY <2>2, <2>3
<1>8. QueuesOK(out', G)
  <2>1. QueueOf(EmptyOut, G) /\ EmptyOut.sequence_num <= MaxSeq
    BY MaxSeqAssumption DEF QueueOf, WellFormed, Numbered, KeptIntact, Intact, Grouped,
       EmptyOut
  <2> QED
    BY <1>1, <2>1, QueuesUpdated DEF Types
<1>9. DeliveriesOK(delivered', G)
  <2>1. <<>> \in Seq(G)
    OBVIOUS
  <2> QED
    BY <1>1, <2>1, DeliveriesUpdated DEF Types
<1> QED
  BY <1>1, <1>2, <1>3, <1>4, <1>5, <1>6, <1>7, <1>8, <1>9 DEF Types

LEMMA ElapseQueue ==
    ASSUME NEW G, NEW o, QueueOf(o, G),
           NEW p, p = [o EXCEPT !.queue = Elapse(o.queue, 1)]
    PROVE  QueueOf(p, G) /\ p.sequence_num = o.sequence_num /\ \A New : Follows(o, p, New)
<1>1. /\ WellFormed(p, Msgs(G), Node) /\ \A New : Follows(o, p, New)
      /\ KeepsIntact(o, p)
  BY ElapseWellFormed DEF QueueOf
<1>2. KeptIntact(p.queue)
  BY <1>1, StaysIntact DEF QueueOf
<1>3. p.sequence_num = o.sequence_num
  BY DEF QueueOf, WellFormed
<1> QED
  BY <1>1, <1>2, <1>3 DEF QueueOf

LEMMA TimeTypes ==
    ASSUME NEW G, Types(G), TimePasses
    PROVE  Types(G)'
<1>1. /\ out' = [n \in Node |-> [out[n] EXCEPT !.queue = Elapse(out[n].queue, 1)]]
      /\ gossip_age' = [n \in Node |-> Min({gossip_age[n] + 1, GOSSIP_TICK_INTERVAL})]
      /\ UNCHANGED <<state, uid, members, data_version, data_log, data_counter,
                     delivered, published, network, left>>
  BY DEF TimePasses
<1>2. ASSUME NEW n \in Node
      PROVE  QueueOf(out'[n], G) /\ out'[n].sequence_num <= MaxSeq
  <2> DEFINE o == [out[n] EXCEPT !.queue = Elapse(out[n].queue, 1)]
  <2>1. out'[n] = o
    BY <1>1
  <2>2. QueueOf(out[n], G) /\ out[n].sequence_num <= MaxSeq
    BY DEF Types, QueuesOK
  <2>3. QueueOf(o, G) /\ o.sequence_num = out[n].sequence_num
    BY <2>2, ElapseQueue
  <2> HIDE DEF o
  <2> QED
    BY <2>1, <2>2, <2>3
<1>3. OnNodes(out')
  BY <1>1 DEF OnNodes
<1>4. QueuesOK(out', G)
  BY <1>2, <1>3 DEF QueuesOK
<1>5. AgesOK(gossip_age')
  <2>1. \A a \in 0 .. GOSSIP_TICK_INTERVAL :
            Min({a + 1, GOSSIP_TICK_INTERVAL}) \in 0 .. GOSSIP_TICK_INTERVAL
    BY AgeType
  <2>2. \A n \in Node : gossip_age[n] \in 0 .. GOSSIP_TICK_INTERVAL
    BY DEF Types, AgesOK
  <2> QED
    BY <1>1, <2>1, <2>2 DEF AgesOK
<1> QED
  BY <1>1, <1>4, <1>5 DEF Types

\* Every step keeps the types, if the payloads that are sent are in G.
LEMMA StepTypes ==
    ASSUME NEW G, G \subseteq LogRecord, Types(G), [Next]_vars,
           \A n \in Node : \A data \in Payload :
               pittacus_gossip_send_data(n, data) => Sent(n, data) \in G
    PROVE  Types(G)'
<1>1. CASE UNCHANGED vars
  BY <1>1 DEF vars, nodeVars, Types
<1>2. ASSUME NEW n \in Node,
             \/ pittacus_gossip_join(n)
             \/ \E data \in Payload : pittacus_gossip_send_data(n, data)
             \/ pittacus_gossip_tick(n)
             \/ pittacus_gossip_process_send(n)
             \/ Receive(n)
             \/ pittacus_gossip_init(n)
      PROVE  Types(G)'
  <2>1. CASE \E data \in Payload : pittacus_gossip_send_data(n, data)
    BY <2>1, SendTypes
  <2>2. CASE Receive(n)
    <3>1. PICK d \in BagToSet(network) :
              gossip_handle_new_message(n, d) \/ RefuseUntilWelcome(n, d)
      BY <2>2 DEF Receive
    <3> QED
      BY <3>1, HelloTypes, WelcomeTypes, MemberListTypes, DataTypes, AckTypes,
         StatusTypes, RefuseTypes DEF gossip_handle_new_message
  <2> QED
    BY <1>2, <2>1, <2>2, JoinTypes, TickTypes, ProcessSendTypes, RestartTypes
<1> QED
  BY <1>1, <1>2, FaultTypes, TimeTypes DEF Next

\* Whatever happens in the cluster, the records of logs, messages and deliveries
\* are versions of payloads.
THEOREM AlwaysTyped == Spec => []Types(LogRecord)
<1>1. Init => Types(LogRecord)
  BY InitTypes
<1>2. Types(LogRecord) /\ [Next]_vars => Types(LogRecord)'
  <2> SUFFICES ASSUME Types(LogRecord), [Next]_vars PROVE Types(LogRecord)'
    OBVIOUS
  <2>1. ASSUME NEW n \in Node, NEW data \in Payload
        PROVE  Sent(n, data) \in LogRecord
    <3>1. vector_clock_create_member_id(Self(n)) \in Ids
      BY SelfType DEF Types
    <3>2. data_counter[n] + 1 \in Nat
      BY DEF Types, CountersOK
    <3> QED
      BY <3>1, <3>2 DEF Sent, DataRecord, LogRecord
  <2> QED
    BY <2>1, StepTypes
<1> QED
  BY <1>1, <1>2, PTL DEF Spec

-----------------------------------------------------------------------------
(* What the types give *)

\* Every node's tables, queue and counters stay within their bounds, members and
\* addresses are those of the cluster, and no envelope of process_send is tried
\* more often than it may, for any sizes and any faults.
THEOREM TypeCorrect == Spec => []TypeOK
<1>1. Types(LogRecord) => TypeOK
  <2> SUFFICES ASSUME Types(LogRecord) PROVE TypeOK
    OBVIOUS
  <2>1. state \in [Node -> {"INITIALIZED", "JOINING", "CONNECTED", "DESTROYED"}]
    BY DEF Types, StatesOK
  <2>2. ASSUME NEW n \in Node
        PROVE  /\ uid[n] \in 0 .. MaxUid
               /\ \A i \in DOMAIN members[n].set : members[n].set[i] \in Member
               /\ Len(data_version[n].records) <= MAX_VECTOR_SIZE
               /\ Len(data_log[n].records) <= DATA_LOG_SIZE
               /\ data_counter[n] \in 0 .. Budget["payload"]
               /\ out[n].sequence_num \in 0 .. MaxSeq
               /\ \A e \in out[n].queue : /\ e.sequence_num \in 1 .. out[n].sequence_num
                                          /\ e.buffer \in Buffers
                                          /\ e.attempt_num < e.max_attempts + 1
               /\ gossip_age[n] \in 0 .. GOSSIP_TICK_INTERVAL
    <3>1. uid[n] \in 0 .. MaxUid
      BY DEF Types, UidsOK
    <3>2. members[n].set \in Seq(Member)
      BY DEF Types, MemberSetsOK, MembersOK
    <3>3. \A i \in DOMAIN members[n].set : members[n].set[i] \in Member
      BY <3>2
    <3>4. /\ Len(data_version[n].records) <= MAX_VECTOR_SIZE
          /\ Len(data_log[n].records) <= DATA_LOG_SIZE
      BY DEF Types, ClocksOK, LogsOK, IsTable
    <3>5. data_counter[n] \in 0 .. Budget["payload"]
      <4>1. /\ data_counter[n] \in Nat /\ left["payload"] \in Nat
            /\ data_counter[n] + left["payload"] <= Budget["payload"]
        BY DEF Types, CountersOK, LeftOK, Kinds
      <4>2. Budget["payload"] \in Nat
        BY BudgetAssumption
      <4> QED
        BY <4>1, <4>2
    <3>6. WellFormed(out[n], Msgs(LogRecord), Node) /\ out[n].sequence_num <= MaxSeq
      BY DEF Types, QueuesOK, QueueOf
    <3>7. out[n].sequence_num \in 0 .. MaxSeq
      BY <3>6, MaxSeqAssumption DEF WellFormed
    <3>8. ASSUME NEW e \in out[n].queue
          PROVE  /\ e.sequence_num \in 1 .. out[n].sequence_num
                 /\ e.buffer \in Buffers
                 /\ e.attempt_num < e.max_attempts + 1
      <4>1. /\ e \in Envelope(Msgs(LogRecord), Node) /\ out[n].sequence_num \in Nat
            /\ e.sequence_num >= 1 /\ e.sequence_num <= out[n].sequence_num
            /\ e.attempt_num <= e.max_attempts
        BY <3>6 DEF WellFormed, Proper
      <4>2. /\ e.sequence_num \in Nat /\ e.buffer \in Buffers
            /\ e.attempt_num \in Nat /\ e.max_attempts \in Nat
        BY <4>1 DEF Envelope
      <4> QED
        BY <4>1, <4>2
    <3>9. gossip_age[n] \in 0 .. GOSSIP_TICK_INTERVAL
      BY DEF Types, AgesOK
    <3> QED
      BY <3>1, <3>3, <3>4, <3>5, <3>7, <3>8, <3>9
  <2>3. \A d \in BagToSet(network) : d.from \in Node /\ d.to \in Node
    BY DatagramType DEF Types
  <2>4. \A what \in DOMAIN left : left[what] \in 0 .. Budget[what]
    <3>1. \A w \in Kinds : Budget[w] \in Nat
      BY BudgetAssumption DEF Kinds
    <3> QED
      BY <3>1 DEF Types, LeftOK
  <2> QED
    BY <2>1, <2>2, <2>3, <2>4 DEF TypeOK
<1> QED
  BY <1>1, AlwaysTyped, PTL

\* However often members announce themselves, are dropped and come back, none is
\* in the array of cluster_member_set_put twice, and none is written past its end.
THEOREM MembersAlwaysFit == Spec => []MembersFit
<1>1. Types(LogRecord) => MembersFit
  <2> SUFFICES ASSUME Types(LogRecord), NEW n \in Node
               PROVE  /\ \A i, j \in DOMAIN members[n].set :
                            members[n].set[i] = members[n].set[j] => i = j
                      /\ Len(members[n].set) <= members[n].capacity
    BY DEF MembersFit
  <2>1. MembersOK(members[n])
    BY DEF Types, MemberSetsOK
  <2> QED
    BY <2>1 DEF MembersOK, Distinct
<1> QED
  BY <1>1, AlwaysTyped, PTL

-----------------------------------------------------------------------------
(* The log and the clock *)

\* Both tables have room for all the originators.
Room ==
    /\ IsFiniteSet(Ids)
    /\ Cardinality(Ids) <= MAX_VECTOR_SIZE
    /\ Cardinality(Ids) <= DATA_LOG_SIZE

\* Which steps touch the tables, the counters and the ids.
LEMMA StepKinds ==
    ASSUME [Next]_vars
    PROVE  \/ \E n \in Node : \E data \in Payload : pittacus_gossip_send_data(n, data)
           \/ \E n \in Node : \E d \in BagToSet(network) : gossip_handle_data(n, d)
           \/ \E n \in Node : pittacus_gossip_init(n)
           \/ UNCHANGED <<uid, data_version, data_log, data_counter, delivered, published>>
<1>1. CASE UNCHANGED vars
  BY <1>1 DEF vars, nodeVars
<1>2. ASSUME NEW n \in Node, NEW d,
             \/ gossip_handle_hello(n, d) \/ gossip_handle_welcome(n, d)
             \/ gossip_handle_member_list(n, d) \/ gossip_handle_ack(n, d)
             \/ gossip_handle_status(n, d) \/ RefuseUntilWelcome(n, d)
      PROVE  UNCHANGED <<uid, data_version, data_log, data_counter, delivered, published>>
  BY <1>2 DEF gossip_handle_hello, gossip_handle_welcome, gossip_handle_member_list,
              gossip_handle_ack, gossip_handle_status, RefuseUntilWelcome, nodeVars
<1>3. ASSUME NEW n \in Node,
             \/ pittacus_gossip_join(n) \/ pittacus_gossip_tick(n)
             \/ pittacus_gossip_process_send(n)
      PROVE  UNCHANGED <<uid, data_version, data_log, data_counter, delivered, published>>
  BY <1>3 DEF pittacus_gossip_join, pittacus_gossip_tick, pittacus_gossip_process_send
<1>4. ASSUME (\E d \in BagToSet(network) : Lose(d) \/ Duplicate(d)) \/ TimePasses
      PROVE  UNCHANGED <<uid, data_version, data_log, data_counter, delivered, published>>
  BY <1>4 DEF Lose, Duplicate, TimePasses, nodeVars
<1> QED
  BY <1>1, <1>2, <1>3, <1>4 DEF Next, Receive, gossip_handle_new_message

\* What send_data does to the tables, ...
LEMMA SendEffect ==
    ASSUME NEW n \in Node, NEW data \in Payload, pittacus_gossip_send_data(n, data)
    PROVE  LET id == vector_clock_create_member_id(Self(n))
               k  == data_counter[n] + 1
           IN  /\ data_counter' = [data_counter EXCEPT ![n] = k]
               /\ data_version' = [data_version EXCEPT ![n] =
                                      vector_clock_set(data_version[n], id, k)]
               /\ data_log' = [data_log EXCEPT ![n] =
                                  SetRecord(data_log[n], Sent(n, data), DATA_LOG_SIZE)]
               /\ published' = [published EXCEPT ![id] = Append(published[id], data)]
               /\ UNCHANGED <<uid, delivered>>
BY DEF pittacus_gossip_send_data, Sent

\* ... gossip_handle_data, when the record is news and when it is not, ...
LEMMA DataEffect ==
    ASSUME NEW n \in Node, NEW d \in BagToSet(network), gossip_handle_data(n, d),
           NEW r, r = d.msg.record
    PROVE  /\ UNCHANGED <<uid, data_counter, published>>
           /\ \/ /\ vector_clock_compare_with_record(data_version[n], r) = "BEFORE"
                 /\ data_version' = [data_version EXCEPT ![n] =
                        vector_clock_set(data_version[n], r.member_id, r.sequence_number)]
                 /\ data_log' = [data_log EXCEPT ![n] =
                                    SetRecord(data_log[n], r, DATA_LOG_SIZE)]
                 /\ delivered' = [delivered EXCEPT ![n] = Append(delivered[n], r)]
              \/ /\ vector_clock_compare_with_record(data_version[n], r) # "BEFORE"
                 /\ data_version' = [data_version EXCEPT ![n] = data_version[n]]
                 /\ UNCHANGED <<data_log, delivered>>
BY DEF gossip_handle_data, MergeRecord

\* ... and a restart.
LEMMA RestartEffect ==
    ASSUME NEW n \in Node, pittacus_gossip_init(n)
    PROVE  /\ n \in Restarting
           /\ \E u \in uid[n] + Pause .. MaxUid : uid' = [uid EXCEPT ![n] = u]
           /\ data_version' = [data_version EXCEPT ![n] = Table]
           /\ data_log' = [data_log EXCEPT ![n] = Table]
           /\ data_counter' = [data_counter EXCEPT ![n] = 0]
           /\ delivered' = [delivered EXCEPT ![n] = <<>>]
           /\ UNCHANGED published
BY DEF pittacus_gossip_init

\* The record a DATA message carries.
LEMMA DataRecordType ==
    ASSUME NEW G, NetworkOf(network, G), NEW n, NEW d \in BagToSet(network),
           gossip_handle_data(n, d)
    PROVE  d.msg.record \in G
<1>1. d.msg.type = "DATA"
  BY DEF gossip_handle_data, Read
<1>2. d.msg \in Msgs(G)
  BY DatagramType
<1> QED
  BY <1>1, <1>2, MsgFields

\* The versions of a table once a record is set where there is room.
LEMMA VersionsSet ==
    ASSUME NEW R, NEW max \in Nat \ {0}, NEW t, IsTable(t, R, max), NEW r \in R,
           HasRoom(t, r.member_id, max)
    PROVE  Versions(SetRecord(t, r, max)) =
               {v \in Versions(t) : v[1] # r.member_id}
                 \cup {<<r.member_id, r.sequence_number>>}
<1> DEFINE V(e) == <<e.member_id, e.sequence_number>>
<1>1. \A u : Versions(u) = {V(e) : e \in Entries(u)}
  BY DEF Versions, Entries
<1>2. Entries(SetRecord(t, r, max)) =
          {e \in Entries(t) : e.member_id # r.member_id} \cup {r}
  BY SetWithRoom
<1>3. \A e : V(e)[1] = e.member_id
  OBVIOUS
<1> HIDE DEF V
<1>4. {V(e) : e \in {e \in Entries(t) : e.member_id # r.member_id} \cup {r}}
        = {v \in {V(e) : e \in Entries(t)} : v[1] # r.member_id} \cup {V(r)}
  BY <1>3
<1> QED
  BY <1>1, <1>2, <1>4 DEF V

LEMMA IdsOfClock ==
    ASSUME NEW t, NEW max, IsTable(t, ClockRecord, max), NEW e \in Entries(t)
    PROVE  e.member_id \in Ids
<1>1. e \in ClockRecord
  BY DEF IsTable, Entries
<1> QED
  BY <1>1 DEF ClockRecord

LEMMA IdsOfLog ==
    ASSUME NEW t, NEW max, IsTable(t, LogRecord, max), NEW e \in Entries(t)
    PROVE  e.member_id \in Ids
<1>1. e \in LogRecord
  BY DEF IsTable, Entries
<1> QED
  BY <1>1 DEF LogRecord

\* A record that is set in the log and in the clock.
LEMMA SetInBoth ==
    ASSUME Room, NEW c, IsTable(c, ClockRecord, MAX_VECTOR_SIZE),
           NEW l, IsTable(l, LogRecord, DATA_LOG_SIZE), Versions(l) = Versions(c),
           NEW r \in LogRecord
    PROVE  Versions(SetRecord(l, r, DATA_LOG_SIZE))
             = Versions(vector_clock_set(c, r.member_id, r.sequence_number))
<1>1. r.member_id \in Ids /\ r.sequence_number \in Nat
  BY DEF LogRecord
<1>2. PICK s \in ClockRecord : s = Record(r.member_id, r.sequence_number)
  BY <1>1 DEF Record, ClockRecord
<1>3. s.member_id = r.member_id /\ s.sequence_number = r.sequence_number
  BY <1>2 DEF Record
<1>4. HasRoom(l, r.member_id, DATA_LOG_SIZE)
  BY <1>1, IdsOfLog, RoomForAll, DataLogSizeAssumption DEF Room
<1>5. HasRoom(c, s.member_id, MAX_VECTOR_SIZE)
  BY <1>1, <1>3, IdsOfClock, RoomForAll, VectorSizeIsPositive DEF Room
<1>6. Versions(SetRecord(l, r, DATA_LOG_SIZE)) =
          {v \in Versions(l) : v[1] # r.member_id}
            \cup {<<r.member_id, r.sequence_number>>}
  BY <1>4, VersionsSet, DataLogSizeAssumption
<1>7. Versions(SetRecord(c, s, MAX_VECTOR_SIZE)) =
          {v \in Versions(c) : v[1] # s.member_id}
            \cup {<<s.member_id, s.sequence_number>>}
  BY <1>5, VersionsSet, VectorSizeIsPositive
<1>8. vector_clock_set(c, r.member_id, r.sequence_number) = SetRecord(c, s, MAX_VECTOR_SIZE)
  BY <1>2 DEF vector_clock_set
<1> QED
  BY <1>3, <1>6, <1>7, <1>8

LEMMA StepMatches ==
    ASSUME Room, Types(LogRecord), LogMatchesClock, [Next]_vars
    PROVE  LogMatchesClock'
<1>0. /\ OnNodes(data_version) /\ OnNodes(data_log)
      /\ \A n \in Node : /\ IsTable(data_version[n], ClockRecord, MAX_VECTOR_SIZE)
                         /\ IsTable(data_log[n], LogRecord, DATA_LOG_SIZE)
                         /\ Versions(data_log[n]) = Versions(data_version[n])
  BY DEF Types, ClocksOK, LogsOK, LogMatchesClock
\* The tables of one node become l and c.
<1>1. ASSUME NEW n \in Node, NEW l, NEW c, Versions(l) = Versions(c),
             data_log' = [data_log EXCEPT ![n] = l],
             data_version' = [data_version EXCEPT ![n] = c]
      PROVE  LogMatchesClock'
  <2>1. data_log'[n] = l /\ \A m \in Node \ {n} : data_log'[m] = data_log[m]
    BY <1>0, <1>1 DEF OnNodes
  <2>2. data_version'[n] = c /\ \A m \in Node \ {n} : data_version'[m] = data_version[m]
    BY <1>0, <1>1 DEF OnNodes
  <2>3. \A m \in Node : Versions(data_log'[m]) = Versions(data_version'[m])
    BY <1>0, <1>1, <2>1, <2>2
  <2> QED
    BY <2>3 DEF LogMatchesClock
<1>2. ASSUME NEW n \in Node, NEW r \in LogRecord,
             data_log' = [data_log EXCEPT ![n] = SetRecord(data_log[n], r, DATA_LOG_SIZE)],
             data_version' = [data_version EXCEPT ![n] =
                 vector_clock_set(data_version[n], r.member_id, r.sequence_number)]
      PROVE  LogMatchesClock'
  <2> DEFINE l == SetRecord(data_log[n], r, DATA_LOG_SIZE)
             c == vector_clock_set(data_version[n], r.member_id, r.sequence_number)
  <2>1. Versions(l) = Versions(c)
    BY <1>0, SetInBoth
  <2>2. data_log' = [data_log EXCEPT ![n] = l] /\ data_version' = [data_version EXCEPT ![n] = c]
    BY <1>2
  <2> HIDE DEF l, c
  <2> QED
    BY <1>1, <2>1, <2>2
<1>3. CASE \E n \in Node : \E data \in Payload : pittacus_gossip_send_data(n, data)
  <2>1. PICK n \in Node, data \in Payload : pittacus_gossip_send_data(n, data)
    BY <1>3
  <2>2. PICK r : r = Sent(n, data)
    OBVIOUS
  <2>3. /\ r \in LogRecord /\ r.sequence_number = data_counter[n] + 1
        /\ r.member_id = vector_clock_create_member_id(Self(n))
    <3>1. vector_clock_create_member_id(Self(n)) \in Ids
      BY SelfType DEF Types
    <3>2. data_counter[n] + 1 \in Nat
      BY DEF Types, CountersOK
    <3> QED
      BY <2>2, <3>1, <3>2 DEF Sent, DataRecord, LogRecord
  <2> QED
    BY <1>2, <2>1, <2>2, <2>3, SendEffect
<1>4. CASE \E n \in Node : \E d \in BagToSet(network) : gossip_handle_data(n, d)
  <2>1. PICK n \in Node, d \in BagToSet(network) : gossip_handle_data(n, d)
    BY <1>4
  <2>2. PICK r \in LogRecord : r = d.msg.record
    BY <2>1, DataRecordType DEF Types
  <2>3. CASE UNCHANGED data_log /\ data_version' = [data_version EXCEPT ![n] = data_version[n]]
    <3>1. data_version' = data_version
      BY <1>0, <2>3 DEF OnNodes
    <3> QED
      BY <1>0, <2>3, <3>1 DEF LogMatchesClock
  <2> QED
    BY <1>2, <2>1, <2>2, <2>3, DataEffect
<1>5. CASE \E n \in Node : pittacus_gossip_init(n)
  <2>1. PICK n \in Node : pittacus_gossip_init(n)
    BY <1>5
  <2>2. /\ data_version' = [data_version EXCEPT ![n] = Table]
        /\ data_log' = [data_log EXCEPT ![n] = Table]
    BY <2>1, RestartEffect
  <2> QED
    BY <1>1, <2>2
<1>6. CASE UNCHANGED <<uid, data_version, data_log, data_counter, delivered, published>>
  BY <1>0, <1>6 DEF LogMatchesClock
<1> QED
  BY <1>3, <1>4, <1>5, <1>6, StepKinds

\* As long as both tables have room for all originators, a node can hand on what
\* its clock says it has: gossip_data_log holds the versions of data_version after
\* every send_data, every gossip_handle_data and every restart.
THEOREM LogAlwaysMatchesClock ==
    ASSUME Room
    PROVE  Spec => []LogMatchesClock
<1>1. Init => LogMatchesClock
  BY DEF Init, EmptyNodes, LogMatchesClock
<1>2. Types(LogRecord) /\ LogMatchesClock /\ [Next]_vars => LogMatchesClock'
  BY StepMatches
<1> QED
  BY <1>1, <1>2, AlwaysTyped, PTL DEF Spec

-----------------------------------------------------------------------------
(* What is published *)

\* The versions that were sent under some id, with their payloads.
Genuine(pub) ==
    {r \in LogRecord : /\ r.sequence_number \in 1 .. Len(pub[r.member_id])
                       /\ r.data = pub[r.member_id][r.sequence_number]}

\* A process that is restarted at an address gets another member id.
NoIdReused == Restarting = {} \/ Pause >= UidSpan

OwnId(n) == vector_clock_create_member_id(Self(n))

\* Node n counts what was sent under its id, ...
Counted == \A n \in Node : Len(published[OwnId(n)]) = data_counter[n]

\* ... and nothing was sent yet under the ids it gets later.
Unused ==
    \A n \in Node : \A k \in Nat :
        <<n, k>> \in Ids /\ k > uid[n] \div UidSpan => published[<<n, k>>] = <<>>

\* All payloads in logs, queues, datagrams and deliveries are as they were sent.
Authentic == Types(Genuine(published)) /\ Counted /\ Unused

LEMMA GenuineRecord ==
    ASSUME NEW pub
    PROVE  Genuine(pub) \subseteq LogRecord
BY DEF Genuine

LEMMA GenuineGrows ==
    ASSUME NEW pub, PublishedOK(pub), NEW id \in Ids, NEW data \in Payload,
           NEW new, new[id] = Append(pub[id], data),
           \A i \in Ids \ {id} : new[i] = pub[i]
    PROVE  /\ Genuine(pub) \subseteq Genuine(new)
           /\ Len(new[id]) = Len(pub[id]) + 1
           /\ new[id][Len(pub[id]) + 1] = data
<1>1. pub \in [Ids -> Seq(Payload)]
  BY DEF PublishedOK
<1>3. /\ Len(new[id]) = Len(pub[id]) + 1 /\ Len(pub[id]) \in Nat
      /\ new[id][Len(pub[id]) + 1] = data
      /\ \A k \in 1 .. Len(pub[id]) : new[id][k] = pub[id][k]
  BY <1>1
<1>4. ASSUME NEW r \in Genuine(pub)
      PROVE  r \in Genuine(new)
  <2>1. /\ r \in LogRecord /\ r.member_id \in Ids
        /\ r.sequence_number \in 1 .. Len(pub[r.member_id])
        /\ r.data = pub[r.member_id][r.sequence_number]
    BY DEF Genuine, LogRecord
  <2>2. /\ r.sequence_number \in 1 .. Len(new[r.member_id])
        /\ r.data = new[r.member_id][r.sequence_number]
    <3>1. CASE r.member_id = id
      BY <1>3, <2>1, <3>1
    <3>2. CASE r.member_id # id
      BY <2>1, <3>2
    <3> QED
      BY <3>1, <3>2
  <2> QED
    BY <2>1, <2>2 DEF Genuine
<1> QED
  BY <1>3, <1>4

\* No two nodes have the same id.
LEMMA OwnIds ==
    ASSUME NEW n \in Node
    PROVE  /\ OwnId(n) = <<n, uid[n] \div UidSpan>>
           /\ \A m \in Node : OwnId(m) = OwnId(n) => m = n
<1>1. \A m \in Node : OwnId(m) = <<m, uid[m] \div UidSpan>>
  BY DEF OwnId, vector_clock_create_member_id, Self
<1> QED
  BY <1>1

\* The id of a process that was started at n.
LEMMA IdOfProcess ==
    ASSUME NEW n \in Node, NEW u, UidsOK(u)
    PROVE  <<n, u[n] \div UidSpan>> \in Ids
<1>2. u[n] \in 0 .. MaxUid /\ (n \notin Restarting => u[n] = 0)
  BY DEF UidsOK
<1>3. \A k : [address |-> n, uid |-> k].address = n /\ [address |-> n, uid |-> k].uid = k
  OBVIOUS
<1> QED
  BY <1>2, <1>3 DEF Ids, vector_clock_create_member_id

\* A later start, by as much as shares an id, gives a later id.
LEMMA LaterId ==
    ASSUME NEW u \in Nat, NEW v \in Nat, u + UidSpan <= v
    PROVE  u \div UidSpan < v \div UidSpan
<1>1. PICK k \in Nat \ {0} : k = UidSpan
  BY UidSpanAssumption
<1>2. PICK a \in Nat : a = u \div k
  OBVIOUS
<1>3. PICK b \in Nat : b = v \div k
  OBVIOUS
<1>4. k * a <= u
  BY <1>2
<1>5. v < k * (b + 1)
  BY <1>3
<1>6. k * (a + 1) = k * a + k
  OBVIOUS
<1>7. k * (a + 1) < k * (b + 1)
  BY <1>1, <1>4, <1>5, <1>6
<1>8. a < b
  <2> SUFFICES ASSUME b <= a PROVE FALSE
    OBVIOUS
  <2>1. k * (b + 1) <= k * (a + 1)
    OBVIOUS
  <2>2. k * (b + 1) \in Nat /\ k * (a + 1) \in Nat
    OBVIOUS
  <2> QED
    BY <1>7, <2>1, <2>2
<1> QED
  BY <1>1, <1>2, <1>3, <1>8

LEMMA InitAuthentic == Init => Authentic
<1> SUFFICES ASSUME Init PROVE Authentic
  OBVIOUS
<1>1. Types(Genuine(published))
  BY InitTypes
<1>2. \A n \in Node : OwnId(n) \in Ids
  BY <1>1, SelfType DEF Types, OwnId
<1>3. Counted
  BY <1>2 DEF Init, EmptyNodes, Counted
<1>4. Unused
  BY DEF Init, EmptyNodes, Unused
<1> QED
  BY <1>1, <1>3, <1>4 DEF Authentic

\* The record of pittacus_gossip_send_data is what it publishes.
LEMMA SendPublishes ==
    ASSUME Authentic, NEW n \in Node, NEW data \in Payload,
           pittacus_gossip_send_data(n, data)
    PROVE  /\ OwnId(n) \in Ids
           /\ Genuine(published) \subseteq Genuine(published')
           /\ Sent(n, data) \in Genuine(published')
           /\ Len(published'[OwnId(n)]) = data_counter'[n]
           /\ data_counter' = [data_counter EXCEPT ![n] = data_counter[n] + 1]
           /\ data_counter'[n] = data_counter[n] + 1
           /\ \A i \in Ids \ {OwnId(n)} : published'[i] = published[i]
           /\ UNCHANGED uid
<1>1. OwnId(n) \in Ids
  BY SelfType DEF Authentic, Types, OwnId
<1>2. PublishedOK(published) /\ CountersOK(data_counter, left)
  BY DEF Authentic, Types
<1>3. /\ published' = [published EXCEPT ![OwnId(n)] = Append(published[OwnId(n)], data)]
      /\ data_counter' = [data_counter EXCEPT ![n] = data_counter[n] + 1]
      /\ UNCHANGED uid
  BY SendEffect DEF OwnId
<1>4. /\ Genuine(published) \subseteq Genuine(published')
      /\ Len(published'[OwnId(n)]) = Len(published[OwnId(n)]) + 1
      /\ published'[OwnId(n)][Len(published[OwnId(n)]) + 1] = data
      /\ \A i \in Ids \ {OwnId(n)} : published'[i] = published[i]
  <2>1. /\ published'[OwnId(n)] = Append(published[OwnId(n)], data)
        /\ \A i \in Ids \ {OwnId(n)} : published'[i] = published[i]
    BY <1>1, <1>2, <1>3 DEF PublishedOK
  <2> QED
    BY <1>1, <1>2, <2>1, GenuineGrows
<1>5. Len(published[OwnId(n)]) = data_counter[n] /\ data_counter[n] \in Nat
  BY <1>2 DEF Authentic, Counted, CountersOK
<1>6. data_counter'[n] = data_counter[n] + 1
  BY <1>2, <1>3 DEF CountersOK, OnNodes
<1>7. PICK r : r = Sent(n, data)
  OBVIOUS
<1>8. r.member_id = OwnId(n) /\ r.sequence_number = data_counter[n] + 1 /\ r.data = data
      /\ r = [member_id |-> OwnId(n), sequence_number |-> data_counter[n] + 1, data |-> data]
  BY <1>7 DEF Sent, DataRecord, OwnId
<1>9. r \in LogRecord
  BY <1>1, <1>5, <1>8 DEF LogRecord
<1>10. r.sequence_number \in 1 .. Len(published'[r.member_id])
  BY <1>4, <1>5, <1>8
<1>11. r.data = published'[r.member_id][r.sequence_number]
  BY <1>4, <1>5, <1>8
<1>12. r \in Genuine(published')
  BY <1>9, <1>10, <1>11 DEF Genuine
<1> QED
  BY <1>1, <1>3, <1>4, <1>5, <1>6, <1>7, <1>12

\* What a step adds to the payloads of the cluster was sent under its version.
LEMMA StepGenuine ==
    ASSUME Authentic, [Next]_vars
    PROVE  Types(Genuine(published))'
<1>1. CASE \E n \in Node : \E data \in Payload : pittacus_gossip_send_data(n, data)
  <2>1. PICK n \in Node, data \in Payload : pittacus_gossip_send_data(n, data)
    BY <1>1
  <2>2. PICK H : H = Genuine(published')
    OBVIOUS
  <2>3. Types(H)
    BY <2>1, <2>2, SendPublishes, TypesGrow DEF Authentic
  <2>4. Sent(n, data) \in H
    BY <2>1, <2>2, SendPublishes
  <2>5. Types(H)'
    BY <2>1, <2>3, <2>4, SendTypes
  <2> QED
    BY <2>2, <2>5 DEF Types, Genuine
<1>2. CASE UNCHANGED published
  <2>1. PICK H : H = Genuine(published)
    OBVIOUS
  <2>2. Types(H) /\ H \subseteq LogRecord
    BY <2>1, GenuineRecord DEF Authentic
  <2>3. ASSUME NEW n \in Node, NEW data \in Payload, pittacus_gossip_send_data(n, data)
        PROVE  Sent(n, data) \in H
    BY <1>2, <2>1, <2>3, SendPublishes
  <2>4. Types(H)'
    BY <2>2, <2>3, StepTypes
  <2> QED
    BY <1>2, <2>1, <2>4 DEF Types, Genuine
<1>3. CASE \E n \in Node : \E d \in BagToSet(network) : gossip_handle_data(n, d)
  BY <1>2, <1>3, DataEffect
<1>4. CASE \E n \in Node : pittacus_gossip_init(n)
  BY <1>2, <1>4, RestartEffect
<1> QED
  BY <1>1, <1>2, <1>3, <1>4, StepKinds

LEMMA StepAuthentic ==
    ASSUME NoIdReused, Authentic, [Next]_vars
    PROVE  Authentic'
<1>1. Types(Genuine(published))'
  BY StepGenuine
<1>2. \A n \in Node : OwnId(n) \in Ids
  BY SelfType DEF Authentic, Types, OwnId
<1>3. CASE UNCHANGED <<uid, data_counter, published>>
  BY <1>1, <1>3 DEF Authentic, Counted, Unused, OwnId, Self, vector_clock_create_member_id
<1>4. CASE \E n \in Node : \E data \in Payload : pittacus_gossip_send_data(n, data)
  <2>1. PICK n \in Node, data \in Payload : pittacus_gossip_send_data(n, data)
    BY <1>4
  <2>2. /\ Len(published'[OwnId(n)]) = data_counter'[n]
        /\ data_counter' = [data_counter EXCEPT ![n] = data_counter[n] + 1]
        /\ \A i \in Ids \ {OwnId(n)} : published'[i] = published[i]
        /\ uid' = uid
    BY <2>1, SendPublishes
  <2>3. \A m \in Node : OwnId(m)' = OwnId(m)
    BY <2>2 DEF OwnId, Self, vector_clock_create_member_id
  <2>4. \A m \in Node \ {n} : data_counter'[m] = data_counter[m]
    BY <2>2 DEF Authentic, Types, CountersOK, OnNodes
  <2>5. ASSUME NEW m \in Node PROVE Len(published'[OwnId(m)]) = data_counter'[m]
    <3>1. m # n => OwnId(m) # OwnId(n)
      BY OwnIds
    <3> QED
      BY <1>2, <2>2, <2>4, <3>1 DEF Authentic, Counted
  <2>6. Counted'
    BY <2>3, <2>5 DEF Counted
  <2>7. Unused'
    <3> SUFFICES ASSUME NEW m \in Node, NEW k \in Nat, <<m, k>> \in Ids,
                        k > uid[m] \div UidSpan
                 PROVE  published'[<<m, k>>] = <<>>
      BY <2>2 DEF Unused
    <3>1. OwnId(n) = <<n, uid[n] \div UidSpan>>
      BY OwnIds
    <3>2. uid[n] \div UidSpan \in Int
      BY UidSpanAssumption DEF Authentic, Types, UidsOK
    <3>3. <<m, k>> # OwnId(n)
      BY <3>1, <3>2
    <3> QED
      BY <2>2, <3>3 DEF Authentic, Unused
  <2> QED
    BY <1>1, <2>6, <2>7 DEF Authentic
<1>5. CASE \E n \in Node : pittacus_gossip_init(n)
  <2>1. PICK n \in Node : pittacus_gossip_init(n)
    BY <1>5
  <2>2. PICK u \in uid[n] + Pause .. MaxUid : uid' = [uid EXCEPT ![n] = u]
    BY <2>1, RestartEffect
  <2>3. /\ n \in Restarting
        /\ data_counter' = [data_counter EXCEPT ![n] = 0]
        /\ published' = published
    BY <2>1, RestartEffect
  <2>4. /\ \A m \in Node : uid[m] \in Nat
        /\ uid'[n] = u /\ \A m \in Node \ {n} : uid'[m] = uid[m]
        /\ data_counter'[n] = 0
        /\ \A m \in Node \ {n} : data_counter'[m] = data_counter[m]
    BY <2>2, <2>3 DEF Authentic, Types, UidsOK, CountersOK, OnNodes
  <2>5. u \in Nat /\ uid[n] \div UidSpan < u \div UidSpan
    <3>1. Pause >= UidSpan /\ Pause \in Nat /\ UidSpan \in Nat
      BY <2>3, PauseAssumption, UidSpanAssumption DEF NoIdReused
    <3>2. u \in Nat /\ uid[n] + UidSpan <= u
      BY <2>4, <3>1, MaxUidAssumption
    <3> QED
      BY <2>4, <3>2, LaterId
  <2>6. \A m \in Node : OwnId(m)' = <<m, uid'[m] \div UidSpan>>
                       /\ OwnId(m) = <<m, uid[m] \div UidSpan>>
    BY DEF OwnId, Self, vector_clock_create_member_id
  <2>0. \A m \in Node : uid[m] \div UidSpan \in Nat /\ uid'[m] \div UidSpan \in Nat
    BY <2>4, <2>5, UidSpanAssumption
  <2>7. OwnId(n)' \in Ids
    <3>1. UidsOK(uid')
      BY <1>1 DEF Types
    <3> QED
      BY <2>6, <3>1, IdOfProcess
  <2>8. published[OwnId(n)'] = <<>>
    <3>1. PICK k \in Nat : k = u \div UidSpan
      BY <2>0, <2>4
    <3>2. OwnId(n)' = <<n, k>> /\ k > uid[n] \div UidSpan
      BY <2>0, <2>4, <2>5, <2>6, <3>1
    <3> QED
      BY <2>7, <3>2 DEF Authentic, Unused
  <2>9. Counted'
    <3> SUFFICES ASSUME NEW m \in Node PROVE Len(published[OwnId(m)']) = data_counter'[m]
      BY <2>3 DEF Counted
    <3>1. CASE m = n
      BY <2>4, <2>8, <3>1
    <3>2. CASE m # n
      BY <2>4, <2>6, <3>2 DEF Authentic, Counted
    <3> QED
      BY <3>1, <3>2
  <2>10. Unused'
    <3> SUFFICES ASSUME NEW m \in Node, NEW k \in Nat, <<m, k>> \in Ids,
                        k > uid'[m] \div UidSpan
                 PROVE  published[<<m, k>>] = <<>>
      BY <2>3 DEF Unused
    <3>1. k > uid[m] \div UidSpan
      BY <2>0, <2>4, <2>5
    <3> QED
      BY <3>1 DEF Authentic, Unused
  <2> QED
    BY <1>1, <2>9, <2>10 DEF Authentic
<1>6. CASE \E n \in Node : \E d \in BagToSet(network) : gossip_handle_data(n, d)
  BY <1>3, <1>6, DataEffect
<1> QED
  BY <1>3, <1>4, <1>5, <1>6, StepKinds

\* When a restarted process gets an id of its own, every payload in a log, a queue,
\* a datagram or a delivery is the one its originator gave to send_data under that
\* version, whoever relayed it and however often.
THEOREM AlwaysAuthentic ==
    ASSUME NoIdReused
    PROVE  Spec => []Authentic
<1>1. Authentic /\ [Next]_vars => Authentic'
  BY StepAuthentic
<1> QED
  BY <1>1, InitAuthentic, PTL DEF Spec

\* Under the same condition a version names one payload in all the logs that
\* gossip_enqueue_data_log relays.
THEOREM VersionsIdentify ==
    ASSUME NoIdReused
    PROVE  Spec => []VersionIdentifiesPayload
<1>1. Authentic => VersionIdentifiesPayload
  <2> SUFFICES ASSUME Authentic PROVE VersionIdentifiesPayload
    OBVIOUS
  <2>1. ASSUME NEW n \in Node, NEW r \in ToSet(data_log[n].records)
        PROVE  r.data = published[r.member_id][r.sequence_number]
    <3>1. data_log[n].records \in Seq(Genuine(published))
      BY DEF Authentic, Types, LogsOK, IsTable
    <3>2. r \in Genuine(published)
      BY <3>1 DEF ToSet
    <3> QED
      BY <3>2 DEF Genuine
  <2>2. \A r \in UNION {ToSet(data_log[n].records) : n \in Node} :
            r.data = published[r.member_id][r.sequence_number]
    BY <2>1
  <2> QED
    BY <2>2 DEF VersionIdentifiesPayload
<1> QED
  BY <1>1, AlwaysAuthentic, PTL

-----------------------------------------------------------------------------
(* What is delivered *)

\* The clocks have room for all the originators.
ClockRoom == IsFiniteSet(Ids) /\ Cardinality(Ids) <= MAX_VECTOR_SIZE

\* The number of the latest payload of originator id, by clock c.
KnownIn(c, id) ==
    IF FindById(c, id) = 0 THEN 0 ELSE c.records[FindById(c, id)].sequence_number

LEMMA KnownEntry ==
    ASSUME NEW c, IsTable(c, ClockRecord, MAX_VECTOR_SIZE), NEW id
    PROVE  /\ \A e \in Entries(c) : e.member_id = id => KnownIn(c, id) = e.sequence_number
           /\ (\A e \in Entries(c) : e.member_id # id) => KnownIn(c, id) = 0
           /\ KnownIn(c, id) \in Nat
<1>1. c.records \in Seq(ClockRecord)
  BY DEF IsTable
<1>2. ASSUME NEW e \in Entries(c), e.member_id = id
      PROVE  KnownIn(c, id) = e.sequence_number
  <2>1. PICK i \in DOMAIN c.records : e = c.records[i]
    BY DEF Entries
  <2>2. FindById(c, id) = i
    BY <1>2, <2>1, FoundOnly
  <2>3. i # 0
    BY <1>1, <2>1
  <2> QED
    BY <2>1, <2>2, <2>3 DEF KnownIn
<1>3. ASSUME \A e \in Entries(c) : e.member_id # id
      PROVE  KnownIn(c, id) = 0
  <2>1. ~Has(c, id)
    BY <1>3 DEF Has, Entries
  <2>2. FindById(c, id) = 0
    BY <1>1, <2>1, Found
  <2> QED
    BY <2>2 DEF KnownIn
<1>4. \A e \in Entries(c) : e.sequence_number \in Nat
  <2>1. \A e \in Entries(c) : e \in ClockRecord
    BY <1>1 DEF Entries
  <2> QED
    BY <2>1 DEF ClockRecord
<1>5. KnownIn(c, id) \in Nat
  <2>1. CASE \E e \in Entries(c) : e.member_id = id
    BY <1>2, <1>4, <2>1
  <2>2. CASE \A e \in Entries(c) : e.member_id # id
    BY <1>3, <2>2
  <2> QED
    BY <2>1, <2>2
<1> QED
  BY <1>2, <1>3, <1>5

\* Setting a record in a clock with room changes what is known of that originator.
LEMMA KnownSet ==
    ASSUME ClockRoom, NEW c, IsTable(c, ClockRecord, MAX_VECTOR_SIZE),
           NEW id \in Ids, NEW k \in Nat, NEW u, u = vector_clock_set(c, id, k)
    PROVE  KnownIn(u, id) = k /\ \A j : j # id => KnownIn(u, j) = KnownIn(c, j)
<1>1. PICK s \in ClockRecord : s = Record(id, k)
  BY DEF Record, ClockRecord
<1>2. s.member_id = id /\ s.sequence_number = k
  BY <1>1 DEF Record
<1>3. HasRoom(c, s.member_id, MAX_VECTOR_SIZE)
  BY <1>2, IdsOfClock, RoomForAll, VectorSizeIsPositive DEF ClockRoom
<1>4. u = SetRecord(c, s, MAX_VECTOR_SIZE)
  BY <1>1 DEF vector_clock_set
<1>5. Entries(u) = {e \in Entries(c) : e.member_id # s.member_id} \cup {s}
  BY <1>3, <1>4, SetWithRoom, VectorSizeIsPositive
<1>6. IsTable(u, ClockRecord, MAX_VECTOR_SIZE)
  BY SetClock
<1>7. KnownIn(u, id) = k
  BY <1>2, <1>5, <1>6, KnownEntry
<1>8. ASSUME NEW j, j # id
      PROVE  KnownIn(u, j) = KnownIn(c, j)
  <2>1. CASE \E e \in Entries(c) : e.member_id = j
    <3>1. PICK e \in Entries(c) : e.member_id = j
      BY <2>1
    <3>2. e \in Entries(u)
      BY <1>2, <1>5, <1>8, <3>1
    <3> QED
      BY <1>6, <3>1, <3>2, KnownEntry
  <2>2. CASE \A e \in Entries(c) : e.member_id # j
    <3>1. \A e \in Entries(u) : e.member_id # j
      BY <1>2, <1>5, <1>8, <2>2
    <3> QED
      BY <1>6, <2>2, <3>1, KnownEntry
  <2> QED
    BY <2>1, <2>2
<1> QED
  BY <1>7, <1>8

\* A record that vector_clock_compare_with_record finds new has a larger number.
LEMMA KnownBefore ==
    ASSUME NEW c, IsTable(c, ClockRecord, MAX_VECTOR_SIZE), NEW r, r.sequence_number \in Nat \ {0},
           vector_clock_compare_with_record(c, r) = "BEFORE"
    PROVE  KnownIn(c, r.member_id) < r.sequence_number
<1>1. CASE FindById(c, r.member_id) = 0
  BY <1>1 DEF KnownIn
<1>2. CASE FindById(c, r.member_id) # 0
  <2>1. KnownIn(c, r.member_id) = c.records[FindById(c, r.member_id)].sequence_number
    BY <1>2 DEF KnownIn
  <2>2. KnownIn(c, r.member_id) \in Nat
    BY KnownEntry
  <2> QED
    BY <1>2, <2>1, <2>2 DEF vector_clock_compare_with_record
<1> QED
  BY <1>1, <1>2

\* A node knows its own payloads, ...
KnowsOwn == \A n \in Node : KnownIn(data_version[n], OwnId(n)) = data_counter[n]

\* ... and of every other originator what its data receiver was called with.
KnowsDelivered ==
    \A n \in Node : \A i \in DOMAIN delivered[n] :
        delivered[n][i].sequence_number
          <= KnownIn(data_version[n], delivered[n][i].member_id)

\* A payload that the data receiver is called with is from another process, has
\* been published and is newer than all those before.
LEMMA NewsIsNew ==
    ASSUME Authentic, KnowsOwn, KnowsDelivered, NEW n \in Node,
           NEW r \in Genuine(published),
           vector_clock_compare_with_record(data_version[n], r) = "BEFORE"
    PROVE  /\ r.member_id \in Ids
           /\ r.member_id # OwnId(n)
           /\ r.sequence_number \in 1 .. Len(published[r.member_id])
           /\ r.data = published[r.member_id][r.sequence_number]
           /\ r = [member_id |-> r.member_id, sequence_number |-> r.sequence_number,
                   data |-> r.data]
           /\ KnownIn(data_version[n], r.member_id) < r.sequence_number
           /\ \A i \in DOMAIN delivered[n] :
                 delivered[n][i].member_id = r.member_id
                   => delivered[n][i].sequence_number < r.sequence_number
<1>1. /\ r.member_id \in Ids /\ r.sequence_number \in Nat
      /\ r.sequence_number \in 1 .. Len(published[r.member_id])
      /\ r.data = published[r.member_id][r.sequence_number]
      /\ r = [member_id |-> r.member_id, sequence_number |-> r.sequence_number,
              data |-> r.data]
  BY DEF Genuine, LogRecord
<1>2. published[r.member_id] \in Seq(Payload)
  BY <1>1 DEF Authentic, Types, PublishedOK
<1>3. r.sequence_number \in Nat \ {0} /\ r.sequence_number <= Len(published[r.member_id])
  BY <1>1, <1>2
<1>4. IsTable(data_version[n], ClockRecord, MAX_VECTOR_SIZE)
  BY DEF Authentic, Types, ClocksOK
<1>5. KnownIn(data_version[n], r.member_id) < r.sequence_number
  BY <1>3, <1>4, KnownBefore
<1>6. KnownIn(data_version[n], r.member_id) \in Nat
  BY <1>4, KnownEntry
<1>7. r.member_id # OwnId(n)
  <2> SUFFICES ASSUME r.member_id = OwnId(n) PROVE FALSE
    OBVIOUS
  <2>1. KnownIn(data_version[n], r.member_id) = Len(published[r.member_id])
    BY DEF KnowsOwn, Authentic, Counted
  <2> QED
    BY <1>3, <1>5, <1>6, <2>1
<1>8. ASSUME NEW i \in DOMAIN delivered[n], delivered[n][i].member_id = r.member_id
      PROVE  delivered[n][i].sequence_number < r.sequence_number
  <2>1. delivered[n][i] \in Genuine(published)
    BY DEF Authentic, Types, DeliveriesOK
  <2>2. delivered[n][i].sequence_number \in Nat
    BY <2>1 DEF Genuine, LogRecord
  <2>3. delivered[n][i].sequence_number <= KnownIn(data_version[n], r.member_id)
    BY <1>8 DEF KnowsDelivered
  <2> QED
    BY <1>1, <1>5, <1>6, <2>2, <2>3
<1> QED
  BY <1>1, <1>5, <1>7, <1>8

\* The inductive invariant of the refinement.
Tracks == Authentic /\ KnowsOwn /\ KnowsDelivered

LEMMA InitTracks == Init => Tracks
<1> SUFFICES ASSUME Init PROVE Tracks
  OBVIOUS
<1>1. \A n \in Node : /\ data_version[n] = Table /\ data_counter[n] = 0
                      /\ delivered[n] = <<>>
  BY DEF Init, EmptyNodes
<1>2. \A id : KnownIn(Table, id) = 0
  BY KnownEntry, EmptyTable, VectorSizeIsPositive
<1>3. KnowsOwn
  BY <1>1, <1>2 DEF KnowsOwn
<1>4. KnowsDelivered
  BY <1>1 DEF KnowsDelivered
<1> QED
  BY <1>3, <1>4, InitAuthentic DEF Tracks

\* What the clock of one node says does not concern the others.
LEMMA StepTracks ==
    ASSUME NoIdReused, ClockRoom, Tracks, [Next]_vars
    PROVE  Tracks'
<1>0. /\ Authentic /\ KnowsOwn /\ KnowsDelivered /\ Authentic'
      /\ OnNodes(data_version) /\ OnNodes(data_counter) /\ OnNodes(delivered) /\ OnNodes(uid)
      /\ \A n \in Node : /\ IsTable(data_version[n], ClockRecord, MAX_VECTOR_SIZE)
                         /\ OwnId(n) \in Ids /\ data_counter[n] \in Nat
                         /\ delivered[n] \in Seq(Genuine(published))
  BY StepAuthentic, SelfType DEF Tracks, Authentic, Types, ClocksOK, CountersOK, DeliveriesOK,
                                 UidsOK, OwnId
<1>1. \A n \in Node : uid'[n] = uid[n] => OwnId(n)' = OwnId(n)
  BY DEF OwnId, Self, vector_clock_create_member_id
<1>2. CASE UNCHANGED <<uid, data_version, data_log, data_counter, delivered, published>>
  BY <1>0, <1>1, <1>2 DEF Tracks, KnowsOwn, KnowsDelivered
<1>3. CASE \E n \in Node : \E data \in Payload : pittacus_gossip_send_data(n, data)
  <2>1. PICK n \in Node, data \in Payload : pittacus_gossip_send_data(n, data)
    BY <1>3
  <2>2. PICK c : c = vector_clock_set(data_version[n], OwnId(n), data_counter[n] + 1)
    OBVIOUS
  <2>3. /\ data_version' = [data_version EXCEPT ![n] = c]
        /\ data_counter' = [data_counter EXCEPT ![n] = data_counter[n] + 1]
        /\ uid' = uid /\ delivered' = delivered
    BY <2>1, <2>2, SendEffect DEF OwnId
  <2>4. /\ data_version'[n] = c /\ data_counter'[n] = data_counter[n] + 1
        /\ \A m \in Node \ {n} : /\ data_version'[m] = data_version[m]
                                 /\ data_counter'[m] = data_counter[m]
    BY <1>0, <2>3 DEF OnNodes
  <2>5. data_counter[n] \in Nat /\ data_counter[n] + 1 \in Nat
    BY <1>0
  <2>6. /\ KnownIn(c, OwnId(n)) = data_counter[n] + 1
        /\ \A j : j # OwnId(n) => KnownIn(c, j) = KnownIn(data_version[n], j)
    BY <1>0, <2>2, <2>5, KnownSet
  <2>7. \A j : KnownIn(data_version[n], j) \in Nat /\ KnownIn(data_version[n], j) <= KnownIn(c, j)
    <3>1. \A j : KnownIn(data_version[n], j) \in Nat
      BY <1>0, KnownEntry
    <3>2. KnownIn(data_version[n], OwnId(n)) = data_counter[n]
      BY <1>0 DEF KnowsOwn
    <3>3. KnownIn(data_version[n], OwnId(n)) <= KnownIn(c, OwnId(n))
      BY <2>5, <2>6, <3>2
    <3>4. ASSUME NEW j PROVE KnownIn(data_version[n], j) <= KnownIn(c, j)
      <4>1. CASE j = OwnId(n)
        BY <3>3, <4>1
      <4>2. CASE j # OwnId(n)
        BY <2>6, <3>1, <4>2
      <4> QED
        BY <4>1, <4>2
    <3> QED
      BY <3>1, <3>4
  <2>8. KnowsOwn'
    BY <1>0, <1>1, <2>3, <2>4, <2>6 DEF KnowsOwn
  <2>9. KnowsDelivered'
    <3> SUFFICES ASSUME NEW m \in Node, NEW i \in DOMAIN delivered[m]
                 PROVE  delivered[m][i].sequence_number
                          <= KnownIn(data_version'[m], delivered[m][i].member_id)
      BY <2>3 DEF KnowsDelivered
    <3>1. delivered[m][i].sequence_number
            <= KnownIn(data_version[m], delivered[m][i].member_id)
      BY <1>0 DEF KnowsDelivered
    <3>2. CASE m # n
      BY <2>4, <3>1, <3>2
    <3>3. CASE m = n
      <4>1. PICK s : s = delivered[n][i].sequence_number
        OBVIOUS
      <4>2. PICK a \in Nat : a = KnownIn(data_version[n], delivered[n][i].member_id)
        BY <2>7
      <4>3. PICK b : b = KnownIn(c, delivered[n][i].member_id)
        OBVIOUS
      <4>4. a <= b /\ s <= a
        BY <2>7, <3>1, <3>3, <4>1, <4>2, <4>3
      <4>5. s \in Nat
        <5>1. s = delivered[n][i].sequence_number /\ delivered[n][i] \in Genuine(published)
          BY <1>0, <3>3, <4>1
        <5> QED
          BY <5>1 DEF Genuine, LogRecord
      <4>6. b \in Nat
        <5>1. IsTable(c, ClockRecord, MAX_VECTOR_SIZE)
          BY <1>0, <2>2, <2>5, SetClock
        <5> QED
          BY <4>3, <5>1, KnownEntry
      <4>7. s <= b
        BY <4>4, <4>5, <4>6
      <4> QED
        BY <2>4, <3>3, <4>1, <4>3, <4>7
    <3> QED
      BY <3>2, <3>3
  <2> QED
    BY <1>0, <2>8, <2>9 DEF Tracks
<1>4. CASE \E n \in Node : \E d \in BagToSet(network) : gossip_handle_data(n, d)
  <2>1. PICK n \in Node, d \in BagToSet(network) : gossip_handle_data(n, d)
    BY <1>4
  <2>2. PICK r \in Genuine(published) : r = d.msg.record
    BY <1>0, <2>1, DataRecordType DEF Authentic, Types
  <2>3. UNCHANGED <<uid, data_counter, published>>
    BY <2>1, DataEffect
  <2>4. CASE /\ data_version' = [data_version EXCEPT ![n] = data_version[n]]
             /\ UNCHANGED <<data_log, delivered>>
    <3>1. data_version' = data_version
      BY <1>0, <2>4 DEF OnNodes
    <3> QED
      BY <1>2, <2>3, <2>4, <3>1
  <2>5. CASE /\ vector_clock_compare_with_record(data_version[n], r) = "BEFORE"
             /\ data_version' = [data_version EXCEPT ![n] =
                    vector_clock_set(data_version[n], r.member_id, r.sequence_number)]
             /\ delivered' = [delivered EXCEPT ![n] = Append(delivered[n], r)]
    <3>1. PICK c : c = vector_clock_set(data_version[n], r.member_id, r.sequence_number)
      OBVIOUS
    <3>2. /\ r.member_id \in Ids /\ r.member_id # OwnId(n)
          /\ KnownIn(data_version[n], r.member_id) < r.sequence_number
      BY <1>0, <2>5, NewsIsNew
    <3>3. r.sequence_number \in Nat
      BY DEF Genuine, LogRecord
    <3>4. /\ KnownIn(c, r.member_id) = r.sequence_number
          /\ \A j : j # r.member_id => KnownIn(c, j) = KnownIn(data_version[n], j)
      BY <1>0, <3>1, <3>2, <3>3, KnownSet
    <3>5. PICK D : D = Append(delivered[n], r)
      OBVIOUS
    <3>6. /\ data_version'[n] = c /\ delivered'[n] = D
          /\ \A m \in Node \ {n} : /\ data_version'[m] = data_version[m]
                                   /\ delivered'[m] = delivered[m]
      BY <1>0, <2>5, <3>1, <3>5 DEF OnNodes
    <3>7. KnowsOwn'
      BY <1>0, <1>1, <2>3, <3>2, <3>4, <3>6 DEF KnowsOwn
    <3>8. ASSUME NEW i \in DOMAIN D
          PROVE  D[i].sequence_number <= KnownIn(c, D[i].member_id)
      <4>1. /\ i \in DOMAIN delivered[n] /\ D[i] = delivered[n][i]
            \/ D[i] = r
        BY <1>0, <3>5
      <4>2. CASE D[i] = r
        BY <3>3, <3>4, <4>2
      <4>3. CASE i \in DOMAIN delivered[n] /\ D[i] = delivered[n][i] /\ D[i].member_id # r.member_id
        BY <1>0, <3>4, <4>3 DEF KnowsDelivered
      <4>4. CASE i \in DOMAIN delivered[n] /\ D[i] = delivered[n][i] /\ D[i].member_id = r.member_id
        <5>1. D[i].sequence_number < r.sequence_number
          BY <1>0, <2>5, <4>4, NewsIsNew
        <5>2. D[i].sequence_number \in Nat
          <6>1. D[i] \in Genuine(published)
            BY <1>0, <4>4
          <6> QED
            BY <6>1 DEF Genuine, LogRecord
        <5> QED
          BY <3>3, <3>4, <4>4, <5>1, <5>2
      <4> QED
        BY <4>1, <4>2, <4>3, <4>4
    <3>9. KnowsDelivered'
      BY <1>0, <3>6, <3>8 DEF KnowsDelivered
    <3> QED
      BY <1>0, <3>7, <3>9 DEF Tracks
  <2> QED
    BY <2>1, <2>2, <2>4, <2>5, DataEffect
<1>5. CASE \E n \in Node : pittacus_gossip_init(n)
  <2>1. PICK n \in Node : pittacus_gossip_init(n)
    BY <1>5
  <2>2. /\ data_version' = [data_version EXCEPT ![n] = Table]
        /\ data_counter' = [data_counter EXCEPT ![n] = 0]
        /\ delivered' = [delivered EXCEPT ![n] = <<>>]
        /\ \E u : uid' = [uid EXCEPT ![n] = u]
    BY <2>1, RestartEffect
  <2>3. /\ data_version'[n] = Table /\ data_counter'[n] = 0 /\ delivered'[n] = <<>>
        /\ \A m \in Node \ {n} :
              /\ data_version'[m] = data_version[m] /\ data_counter'[m] = data_counter[m]
              /\ delivered'[m] = delivered[m] /\ uid'[m] = uid[m]
    BY <1>0, <2>2 DEF OnNodes
  <2>4. \A id : KnownIn(Table, id) = 0
    BY KnownEntry, EmptyTable, VectorSizeIsPositive
  <2>5. KnowsOwn'
    BY <1>0, <1>1, <2>3, <2>4 DEF KnowsOwn
  <2>6. KnowsDelivered'
    BY <1>0, <2>3 DEF KnowsDelivered
  <2> QED
    BY <1>0, <2>5, <2>6 DEF Tracks
<1> QED
  BY <1>2, <1>3, <1>4, <1>5, StepKinds

\* Every step of the cluster is one of Dissemination or changes nothing of it.
LEMMA StepDisseminates ==
    ASSUME NoIdReused, ClockRoom, Tracks, Tracks', [Next]_vars
    PROVE  [Abstract!Next]_(Abstract!vars)
<1> DEFINE self == [n \in Node |-> vector_clock_create_member_id(Self(n))]
<1>0. /\ Authentic /\ KnowsOwn /\ KnowsDelivered /\ Authentic'
      /\ OnNodes(uid)
      /\ \A n \in Node : /\ self[n] = OwnId(n) /\ self'[n] = OwnId(n)'
                         /\ OwnId(n) \in Ids
  BY SelfType DEF Tracks, Authentic, Types, OwnId, UidsOK
<1>1. uid' = uid => self' = self
  BY DEF Self, vector_clock_create_member_id
<1>2. CASE UNCHANGED <<uid, data_version, data_log, data_counter, delivered, published>>
  BY <1>1, <1>2 DEF Abstract!vars
<1>3. CASE \E n \in Node : \E data \in Payload : pittacus_gossip_send_data(n, data)
  <2>1. PICK n \in Node, data \in Payload : pittacus_gossip_send_data(n, data)
    BY <1>3
  <2>2. /\ published' = [published EXCEPT ![self[n]] = Append(published[self[n]], data)]
        /\ uid' = uid /\ delivered' = delivered
    BY <1>0, <2>1, SendEffect DEF OwnId
  <2>3. Abstract!Publish(n, data)
    BY <1>1, <2>2 DEF Abstract!Publish
  <2> QED
    BY <2>3 DEF Abstract!Next
<1>4. CASE \E n \in Node : \E d \in BagToSet(network) : gossip_handle_data(n, d)
  <2>1. PICK n \in Node, d \in BagToSet(network) : gossip_handle_data(n, d)
    BY <1>4
  <2>2. PICK r \in Genuine(published) : r = d.msg.record
    BY <1>0, <2>1, DataRecordType DEF Authentic, Types
  <2>3. UNCHANGED <<uid, data_counter, published>>
    BY <2>1, DataEffect
  <2>4. CASE UNCHANGED delivered
    BY <1>1, <2>3, <2>4 DEF Abstract!vars
  <2>5. CASE /\ vector_clock_compare_with_record(data_version[n], r) = "BEFORE"
             /\ delivered' = [delivered EXCEPT ![n] = Append(delivered[n], r)]
    <3>1. /\ r.member_id \in Ids
          /\ r.member_id # OwnId(n)
          /\ r.sequence_number \in 1 .. Len(published[r.member_id])
          /\ r.data = published[r.member_id][r.sequence_number]
          /\ r = [member_id |-> r.member_id, sequence_number |-> r.sequence_number,
                  data |-> r.data]
          /\ \A i \in DOMAIN delivered[n] :
                delivered[n][i].member_id = r.member_id
                  => delivered[n][i].sequence_number < r.sequence_number
      BY <1>0, <2>5, NewsIsNew
    <3>2. Abstract!Version(r.member_id, r.sequence_number,
                           published[r.member_id][r.sequence_number]) = r
      BY <3>1 DEF Abstract!Version
    <3>3. r.member_id # self[n]
      BY <1>0, <3>1
    <3>4. self' = self /\ published' = published
      BY <1>1, <2>3
    <3>5. Abstract!Deliver(n, r.member_id, r.sequence_number)
      BY <2>5, <3>1, <3>2, <3>3, <3>4 DEF Abstract!Deliver
    <3> QED
      BY <3>1, <3>5 DEF Abstract!Next
  <2> QED
    BY <2>1, <2>2, <2>4, <2>5, DataEffect
<1>5. CASE \E n \in Node : pittacus_gossip_init(n)
  <2>1. PICK n \in Node : pittacus_gossip_init(n)
    BY <1>5
  <2>2. /\ \E u : uid' = [uid EXCEPT ![n] = u]
        /\ data_counter' = [data_counter EXCEPT ![n] = 0]
        /\ delivered' = [delivered EXCEPT ![n] = <<>>]
        /\ published' = published
    BY <2>1, RestartEffect
  <2>3. PICK id : id = OwnId(n)'
    OBVIOUS
  <2>4. id \in Ids
    <3>1. UidsOK(uid')
      BY <1>0 DEF Authentic, Types
    <3>2. id = <<n, uid'[n] \div UidSpan>>
      BY <2>3 DEF OwnId, Self, vector_clock_create_member_id
    <3> QED
      BY <3>1, <3>2, IdOfProcess
  <2>5. \A m \in Node \ {n} : OwnId(m)' = OwnId(m)
    <3>1. \A m \in Node \ {n} : uid'[m] = uid[m]
      BY <1>0, <2>2 DEF OnNodes
    <3> QED
      BY <3>1 DEF OwnId, Self, vector_clock_create_member_id
  <2>6. \A m \in Node \ {n} : OwnId(m) # id
    <3>1. \A m \in Node : OwnId(m)' = <<m, uid'[m] \div UidSpan>>
      BY DEF OwnId, Self, vector_clock_create_member_id
    <3> QED
      BY <2>3, <2>5, <3>1
  <2>7. self' = [self EXCEPT ![n] = id]
    BY <1>0, <2>3, <2>5
  <2>8. published[id] = <<>>
    <3>1. Len(published'[OwnId(n)']) = data_counter'[n]
      BY <1>0 DEF Authentic, Counted
    <3>2. data_counter'[n] = 0
      BY <1>0, <2>2 DEF Authentic, Types, CountersOK, OnNodes
    <3>3. published[id] \in Seq(Payload) /\ Len(published[id]) = 0
      BY <1>0, <2>2, <2>3, <2>4, <3>1, <3>2 DEF Authentic, Types, PublishedOK
    <3> QED
      BY <3>3
  <2>9. \A m \in Node \ {n} : self[m] # id
    BY <1>0, <2>6
  <2>10. Abstract!Restart(n, id)
    BY <2>2, <2>7, <2>8, <2>9 DEF Abstract!Restart
  <2> QED
    BY <2>4, <2>10 DEF Abstract!Next
<1> QED
  BY <1>2, <1>3, <1>4, <1>5, StepKinds

LEMMA InitDisseminates == Init => Abstract!Init
<1> SUFFICES ASSUME Init PROVE Abstract!Init
  OBVIOUS
<1> DEFINE self == [n \in Node |-> vector_clock_create_member_id(Self(n))]
<1>1. \A n \in Node : self[n] = OwnId(n)
  BY DEF OwnId
<1>2. \A n \in Node : OwnId(n) \in Ids
  <2>1. UidsOK(uid)
    BY InitTypes DEF Types
  <2> QED
    BY <2>1, SelfType DEF OwnId
<1>3. self \in [Node -> Ids] /\ \A n, m \in Node : self[n] = self[m] => n = m
  BY <1>1, <1>2, OwnIds
<1>4. published = [id \in Ids |-> <<>>] /\ delivered = [n \in Node |-> <<>>]
  BY DEF Init, EmptyNodes
<1> QED
  BY <1>3, <1>4 DEF Abstract!Init

\* When restarted processes get ids of their own and the clocks have room for all
\* originators, the cluster implements Dissemination: however messages are lost,
\* duplicated, reordered, resent and relayed, gossip_handle_data calls the data
\* receiver with news of other processes, as it was published, and with nothing
\* twice.
THEOREM Implements ==
    ASSUME NoIdReused, ClockRoom
    PROVE  Spec => Disseminates
<1>1. Tracks /\ [Next]_vars => Tracks'
  BY StepTracks
<1>2. Tracks /\ Tracks' /\ [Next]_vars => [Abstract!Next]_(Abstract!vars)
  BY StepDisseminates
<1> QED
  BY <1>1, <1>2, InitTracks, InitDisseminates, PTL DEF Spec, Disseminates, Abstract!Spec

\* What is proved of Dissemination, for the state of the cluster.
Promised ==
    INSTANCE Dissemination_proofs WITH
        Id   <- Ids,
        self <- [n \in Node |-> vector_clock_create_member_id(Self(n))]

\* Under the same conditions the data receiver is called at most once per payload
\* and in the order of the originator.
THEOREM DeliversOnceInOrder ==
    ASSUME NoIdReused, ClockRoom
    PROVE  Spec => []DeliveredOnceInOrder
<1>1. Init => DeliveredOnceInOrder
  BY DEF Init, EmptyNodes, DeliveredOnceInOrder, Abstract!DeliveredOnceInOrder
<1>2. Tracks /\ [Next]_vars => Tracks'
  BY StepTracks
<1>3. Tracks /\ Tracks' /\ [Next]_vars => [Promised!Next]_(Promised!vars)
  BY StepDisseminates DEF Abstract!Next, Abstract!vars, Abstract!Publish,
     Abstract!Deliver, Abstract!Restart, Abstract!Version, Promised!Next, Promised!vars,
     Promised!Publish, Promised!Deliver, Promised!Restart, Promised!Version
<1>4. Promised!TypeOK /\ Promised!DeliveredOnceInOrder /\ [Promised!Next]_(Promised!vars)
        => Promised!DeliveredOnceInOrder'
  BY Promised!OrderNext
<1>5. DeliveredOnceInOrder <=> Promised!DeliveredOnceInOrder
  BY DEF DeliveredOnceInOrder, Abstract!DeliveredOnceInOrder, Promised!DeliveredOnceInOrder
<1>6. Tracks => Promised!TypeOK
  <2> SUFFICES ASSUME Tracks PROVE Promised!TypeOK
    OBVIOUS
  <2>1. \A n \in Node : vector_clock_create_member_id(Self(n)) \in Ids
    BY SelfType DEF Tracks, Authentic, Types
  <2>2. published \in [Ids -> Seq(Payload)]
    BY DEF Tracks, Authentic, Types, PublishedOK
  <2>3. delivered = [n \in Node |-> delivered[n]]
        /\ \A n \in Node : delivered[n] \in Seq(Genuine(published))
    BY DEF Tracks, Authentic, Types, DeliveriesOK, OnNodes
  <2>4. Genuine(published) \subseteq LogRecord
    BY GenuineRecord
  <2>5. \A n \in Node : delivered[n] \in Seq(LogRecord)
    BY <2>3, <2>4
  <2>6. delivered \in [Node -> Seq(LogRecord)]
    BY <2>3, <2>5
  <2> QED
    BY <2>1, <2>2, <2>6 DEF Promised!TypeOK, Promised!Delivery, LogRecord
<1> QED
  BY <1>1, <1>2, <1>3, <1>4, <1>5, <1>6, InitTracks, PTL DEF Spec

-----------------------------------------------------------------------------
(* What a step does to the queues and the network *)

\* Only the queue of n changes, as if New had been enqueued after what was in it.
Queues(n, New) ==
    /\ Follows(out[n], out'[n], New)
    /\ \A m \in Node \ {n} : out'[m] = out[m]

LEMMA OneQueue ==
    ASSUME NEW G, QueuesOK(out, G), NEW n \in Node, NEW o, out' = [out EXCEPT ![n] = o],
           NEW New, Follows(out[n], o, New)
    PROVE  Queues(n, New)
<1>1. OnNodes(out)
  BY DEF QueuesOK
<1>2. out'[n] = o /\ \A m \in Node \ {n} : out'[m] = out[m]
  BY <1>1 DEF OnNodes
<1> QED
  BY <1>2 DEF Queues

\* The handlers that answer with an acknowledgement.
Acknowledges(n, d) ==
    \/ gossip_handle_member_list(n, d)
    \/ gossip_handle_data(n, d)
    \/ gossip_handle_status(n, d)

\* What is enqueued when datagram d is acknowledged.
Answers(G, d) == Unasked(G) \cup {<<d.from, Ack(d.sequence_num)>>}

LEMMA JoinQueues ==
    ASSUME NEW G, Types(G), NEW n \in Node, pittacus_gossip_join(n)
    PROVE  Queues(n, Unasked(G))
<1> DEFINE o == FoldLeft(LAMBDA p, seed : Direct(p, Hello(Self(n)), seed), out[n], Seeds[n])
<1>1. out' = [out EXCEPT ![n] = o]
  BY DEF pittacus_gossip_join, SetOut
<1>2. Hello(Self(n)) \in Msgs(G) /\ Hello(Self(n)).type # "ACK"
  <2>1. Self(n) \in Member
    BY SelfType DEF Types
  <2> QED
    BY <2>1, MsgTypes DEF Hello
<1>3. Seeds[n] \in Seq(Node)
  <2>1. Seeds[n] \in Seq(Node \ {n})
    BY SeedsAssumption
  <2> QED
    BY <2>1
<1>4. QueueOf(out[n], G) /\ QueuesOK(out, G)
  BY DEF Types, QueuesOK
<1>5. Follows(out[n], o, Unasked(G))
  BY <1>2, <1>3, <1>4, HelloQueue DEF Appended
<1> HIDE DEF o
<1> QED
  BY <1>1, <1>4, <1>5, OneQueue

LEMMA SendQueues ==
    ASSUME NEW G, Types(G), NEW n \in Node, NEW data \in Payload,
           pittacus_gossip_send_data(n, data), Sent(n, data) \in G
    PROVE  Queues(n, Unasked(G))
<1>1. PICK o \in Random(out[n], Data(Sent(n, data)), members[n]) :
           out' = [out EXCEPT ![n] = o]
  BY DEF pittacus_gossip_send_data, SetOut, Sent
<1>2. Data(Sent(n, data)) \in Msgs(G) /\ Data(Sent(n, data)).type # "ACK"
  BY MsgTypes DEF Data
<1>3. QueueOf(out[n], G) /\ members[n].set \in Seq(Member) /\ QueuesOK(out, G)
  BY DEF Types, QueuesOK, MemberSetsOK, MembersOK
<1>4. Follows(out[n], o, Unasked(G))
  BY <1>2, <1>3, RandomQueue
<1> QED
  BY <1>1, <1>3, <1>4, OneQueue

LEMMA TickQueues ==
    ASSUME NEW G, Types(G), NEW n \in Node, pittacus_gossip_tick(n)
    PROVE  Queues(n, Unasked(G))
<1>1. PICK o \in Random(out[n], Status(data_version[n]), members[n]) :
           out' = [out EXCEPT ![n] = o]
  BY DEF pittacus_gossip_tick, SetOut
<1>2. Status(data_version[n]) \in Msgs(G) /\ Status(data_version[n]).type # "ACK"
  <2>1. data_version[n].records \in Seq(ClockRecord)
    BY DEF Types, ClocksOK, IsTable
  <2> QED
    BY <2>1, MsgTypes DEF Status
<1>3. QueueOf(out[n], G) /\ members[n].set \in Seq(Member) /\ QueuesOK(out, G)
  BY DEF Types, QueuesOK, MemberSetsOK, MembersOK
<1>4. Follows(out[n], o, Unasked(G))
  BY <1>2, <1>3, RandomQueue
<1> QED
  BY <1>1, <1>3, <1>4, OneQueue

LEMMA ProcessSendQueues ==
    ASSUME NEW G, Types(G), NEW n \in Node, pittacus_gossip_process_send(n)
    PROVE  Queues(n, Unasked(G))
<1>1. PICK D \in 0 .. MaxDrift : \E d \in Timings(out[n].queue, D) :
          \E stop \in {PastLast(n)} \cup WriteFailures(n, d) : Pass(n, d, D, stop)
  BY DEF pittacus_gossip_process_send
<1>a. PICK d \in Timings(out[n].queue, D) :
          \E stop \in {PastLast(n)} \cup WriteFailures(n, d) : Pass(n, d, D, stop)
  BY <1>1
<1>0. PICK stop \in {PastLast(n)} \cup WriteFailures(n, d) : Pass(n, d, D, stop)
  BY <1>a
<1>2. QueueOf(out[n], G) /\ QueuesOK(out, G)
  BY DEF Types, QueuesOK
<1>3. stop \in Nat
  BY <1>2, PassEnds
<1> DEFINE o == [out[n] EXCEPT !.queue = AfterPass(out[n].queue, d, D, stop)]
<1>4. out' = [out EXCEPT ![n] = o]
  BY <1>0 DEF Pass
<1>5. Follows(out[n], o, Unasked(G))
  BY <1>2, <1>3, PassQueue
<1> HIDE DEF o
<1> QED
  BY <1>2, <1>4, <1>5, OneQueue

LEMMA HelloQueues ==
    ASSUME NEW G, Types(G), NEW n \in Node, NEW d \in BagToSet(network),
           gossip_handle_hello(n, d)
    PROVE  Queues(n, Unasked(G))
<1> DEFINE new      == d.msg.this_member
           welcomed == Direct(out[n], Welcome(d.sequence_num, Self(n)), d.from)
           informed == gossip_enqueue_member_list(welcomed, members[n].set, d.from)
           o        == Broadcast(informed, MemberList(<<new>>), members[n])
<1>1. Read(n, d, "HELLO") /\ out' = [out EXCEPT ![n] = o]
  BY DEF gossip_handle_hello, SetOut
<1>2. d.msg.type = "HELLO"
  BY <1>1 DEF Read
<1>3. d.from \in Node /\ d.sequence_num \in Nat /\ d.msg \in Msgs(G)
  BY DatagramType DEF Types
<1>4. MemberList(<<new>>) \in Msgs(G) /\ MemberList(<<new>>).type # "ACK"
  <2>1. <<new>> \in Seq(Member)
    BY <1>2, <1>3, MsgFields
  <2> QED
    BY <2>1, MsgTypes DEF MemberList
<1>5. QueueOf(out[n], G) /\ members[n].set \in Seq(Member) /\ QueuesOK(out, G)
  BY DEF Types, QueuesOK, MemberSetsOK, MembersOK
<1>6. /\ Welcome(d.sequence_num, Self(n)) \in Msgs(G)
      /\ Welcome(d.sequence_num, Self(n)).type # "ACK"
  <2>1. Self(n) \in Member
    BY SelfType DEF Types
  <2> QED
    BY <1>3, <2>1, MsgTypes DEF Welcome
<1> HIDE DEF new
<1>7. Appended(out[n], welcomed, G)
  BY <1>3, <1>5, <1>6, DirectQueue DEF Appended
<1> HIDE DEF welcomed
<1>8. Appended(welcomed, informed, G)
  BY <1>3, <1>5, <1>7, ListQueue DEF Appended
<1> HIDE DEF informed
<1>9. Appended(informed, o, G)
  BY <1>4, <1>5, <1>8, BroadcastQueue DEF Appended
<1> HIDE DEF o
<1>10. Appended(out[n], informed, G)
  BY <1>5, <1>7, <1>8, AppendedOn DEF Appended
<1>11. Appended(out[n], o, G)
  BY <1>5, <1>9, <1>10, AppendedOn DEF Appended
<1> QED
  BY <1>1, <1>5, <1>11, OneQueue DEF Appended

\* A WELCOME and an ACK only remove what they answer.
LEMMA RemovalQueues ==
    ASSUME NEW G, Types(G), NEW n \in Node, NEW s,
           out' = [out EXCEPT ![n].queue = gossip_envelope_remove(out[n].queue, s)]
    PROVE  Queues(n, Unasked(G))
<1> DEFINE o == [out[n] EXCEPT !.queue = gossip_envelope_remove(out[n].queue, s)]
<1>1. out' = [out EXCEPT ![n] = o]
  OBVIOUS
<1>2. QueueOf(out[n], G) /\ QueuesOK(out, G)
  BY DEF Types, QueuesOK
<1>3. Follows(out[n], o, Unasked(G))
  BY <1>2, RemoveQueue
<1> HIDE DEF o
<1> QED
  BY <1>1, <1>2, <1>3, OneQueue

\* An acknowledgement, and then something else.
LEMMA AckedThen ==
    ASSUME NEW G, NEW o, QueueOf(o, G), NEW d, d.from \in Node, d.sequence_num \in Nat,
           NEW acked, acked = Direct(o, Ack(d.sequence_num), d.from),
           NEW p, Appended(acked, p, G)
    PROVE  Follows(o, p, Answers(G, d))
<1>1. Ack(d.sequence_num) \in Msgs(G)
  BY MsgTypes
<1>2. QueueOf(acked, G) /\ Follows(o, acked, Answers(G, d))
  BY <1>1, DirectQueue DEF Answers
<1>3. Unasked(G) \subseteq Answers(G, d)
  BY DEF Answers
<1>4. QueueOf(p, G) /\ Follows(acked, p, Answers(G, d))
  BY <1>3, FollowsMore DEF Appended
<1> QED
  BY <1>2, <1>4, FollowsOn DEF QueueOf

LEMMA AckIsDirect ==
    ASSUME NEW G, NEW o, QueueOf(o, G), NEW d, d.from \in Node, d.sequence_num \in Nat
    PROVE  QueueOf(Direct(o, Ack(d.sequence_num), d.from), G)
<1>1. Ack(d.sequence_num) \in Msgs(G)
  BY MsgTypes
<1> QED
  BY <1>1, DirectQueue

LEMMA MemberListQueues ==
    ASSUME NEW G, Types(G), NEW n \in Node, NEW d \in BagToSet(network),
           gossip_handle_member_list(n, d)
    PROVE  Queues(n, Answers(G, d))
<1> DEFINE o == Direct(out[n], Ack(d.sequence_num), d.from)
<1>1. out' = [out EXCEPT ![n] = o]
  BY DEF gossip_handle_member_list, SetOut
<1>2. d.from \in Node /\ d.sequence_num \in Nat
  BY DatagramType DEF Types
<1>3. QueueOf(out[n], G) /\ QueuesOK(out, G)
  BY DEF Types, QueuesOK
<1>4. QueueOf(o, G)
  BY <1>2, <1>3, AckIsDirect
<1>5. Appended(o, o, G)
  BY <1>4, AppendedSelf
<1>6. Follows(out[n], o, Answers(G, d))
  BY <1>2, <1>3, <1>5, AckedThen
<1> HIDE DEF o
<1> QED
  BY <1>1, <1>3, <1>6, OneQueue

LEMMA DataQueues ==
    ASSUME NEW G, Types(G), NEW n \in Node, NEW d \in BagToSet(network),
           gossip_handle_data(n, d)
    PROVE  Queues(n, Answers(G, d))
<1> DEFINE acked == Direct(out[n], Ack(d.sequence_num), d.from)
<1>1. PICK o \in Random(acked, d.msg, members[n]) \cup {acked} :
          out' = [out EXCEPT ![n] = o]
  BY DEF gossip_handle_data, SetOut
<1>2. d.from \in Node /\ d.sequence_num \in Nat /\ d.msg \in Msgs(G)
  BY DatagramType DEF Types
<1>3. d.msg.type # "ACK"
  BY DEF gossip_handle_data, Read
<1>4. QueueOf(out[n], G) /\ members[n].set \in Seq(Member) /\ QueuesOK(out, G)
  BY DEF Types, QueuesOK, MemberSetsOK, MembersOK
<1>5. QueueOf(acked, G)
  BY <1>2, <1>4, AckIsDirect
<1>6. Appended(acked, o, G)
  <2>1. CASE o = acked
    BY <1>5, <2>1, AppendedSelf
  <2>2. CASE o \in Random(acked, d.msg, members[n])
    <3> HIDE DEF acked
    <3> QED
      BY <1>2, <1>3, <1>4, <1>5, <2>2, RandomQueue DEF Appended
  <2> QED
    BY <2>1, <2>2
<1>7. Follows(out[n], o, Answers(G, d))
  BY <1>2, <1>4, <1>6, AckedThen
<1> QED
  BY <1>1, <1>4, <1>7, OneQueue

LEMMA StatusQueues ==
    ASSUME NEW G, Types(G), NEW n \in Node, NEW d \in BagToSet(network),
           gossip_handle_status(n, d)
    PROVE  Queues(n, Answers(G, d))
<1> DEFINE theirs  == [records |-> d.msg.records, current_idx |-> 0]
           res     == vector_clock_compare(data_version[n], theirs)
           acked   == Direct(out[n], Ack(d.sequence_num), d.from)
           relayed == gossip_enqueue_data_log(acked, data_log[n], theirs, d.from)
           asked   == Direct(acked, Status(data_version[n]), d.from)
           both    == Direct(relayed.out, Status(data_version[n]), d.from)
           o == CASE res = "AFTER" -> relayed.out
                  [] res = "BEFORE" -> asked
                  [] res = "CONFLICT" -> IF relayed.failed THEN relayed.out ELSE both
                  [] OTHER -> acked
<1>1. out' = [out EXCEPT ![n] = o]
  BY DEF gossip_handle_status, SetOut
<1>2. d.from \in Node /\ d.sequence_num \in Nat
  BY DatagramType DEF Types
<1>3. /\ QueueOf(out[n], G) /\ data_version[n].records \in Seq(ClockRecord)
      /\ data_log[n].records \in Seq(G) /\ QueuesOK(out, G)
  BY DEF Types, QueuesOK, ClocksOK, LogsOK, IsTable
<1>4. Status(data_version[n]) \in Msgs(G) /\ Status(data_version[n]).type # "ACK"
  BY <1>3, MsgTypes DEF Status
<1>5. QueueOf(acked, G)
  BY <1>2, <1>3, AckIsDirect
<1>6. \A p : Appended(acked, p, G) => Follows(out[n], p, Answers(G, d))
  BY <1>2, <1>3, AckedThen
<1> HIDE DEF theirs, res, acked
<1>7. Appended(acked, acked, G)
  BY <1>5, AppendedSelf
<1>8. Appended(acked, relayed.out, G)
  BY <1>2, <1>3, <1>5, RelayQueue
<1> HIDE DEF relayed
<1>9. Appended(acked, asked, G)
  BY <1>2, <1>4, <1>5, DirectQueue DEF Appended
<1>10. QueueOf(both, G) /\ Follows(relayed.out, both, Unasked(G))
  BY <1>2, <1>4, <1>8, DirectQueue DEF Appended
<1> HIDE DEF asked, both
<1>11. Appended(acked, both, G)
  BY <1>5, <1>8, <1>10, AppendedOn
<1>12. o = relayed.out \/ o = asked \/ o = both \/ o = acked
  OBVIOUS
<1> HIDE DEF o
<1>13. Follows(out[n], o, Answers(G, d))
  BY <1>6, <1>7, <1>8, <1>9, <1>11, <1>12
<1> QED
  BY <1>1, <1>3, <1>13, OneQueue

\* The uid of a restarted process tells it from the first one at its address.
LEMMA RestartsLater ==
    ASSUME NoIdReused, UidsOK(uid), NEW n \in Node, pittacus_gossip_init(n)
    PROVE  uid'[n] > 0 /\ \A m \in Node \ {n} : uid'[m] = uid[m]
<1>1. PICK u \in uid[n] + Pause .. MaxUid : uid' = [uid EXCEPT ![n] = u]
  BY RestartEffect
<1>2. Pause >= UidSpan /\ UidSpan \in Nat \ {0} /\ Pause \in Nat
  BY RestartEffect, PauseAssumption, UidSpanAssumption DEF NoIdReused
<1>3. OnNodes(uid) /\ uid[n] \in Nat
  BY DEF UidsOK
<1>4. u > 0
  BY <1>2, <1>3, MaxUidAssumption
<1> QED
  BY <1>1, <1>3, <1>4 DEF OnNodes

\* Every step leaves the queue of node b as it was, enqueues without having been
\* asked or acknowledges a datagram, or b is a new process.
StepQueue(b, G) ==
    \/ Follows(out[b], out'[b], Unasked(G))
    \/ \E d \in BagToSet(network) :
          /\ d.to = b
          /\ Acknowledges(b, d)
          /\ Follows(out[b], out'[b], Answers(G, d))
    \/ out'[b] = EmptyOut /\ uid'[b] > 0

LEMMA StepQueues ==
    ASSUME NoIdReused, Types(LogRecord), [Next]_vars, NEW b \in Node
    PROVE  StepQueue(b, LogRecord)
<1>0. QueueOf(out[b], LogRecord)
  BY DEF Types, QueuesOK
<1>1. out'[b] = out[b] => Follows(out[b], out'[b], Unasked(LogRecord))
  BY <1>0, FollowsSelf DEF QueueOf
<1>2. ASSUME NEW n \in Node, Queues(n, Unasked(LogRecord))
      PROVE  StepQueue(b, LogRecord)
  BY <1>1, <1>2 DEF Queues, StepQueue
<1>3. ASSUME NEW n \in Node, NEW d \in BagToSet(network), Acknowledges(n, d)
      PROVE  StepQueue(b, LogRecord)
  <2>1. Queues(n, Answers(LogRecord, d))
    BY <1>3, MemberListQueues, DataQueues, StatusQueues DEF Acknowledges
  <2>2. d.to = n
    BY <1>3 DEF Acknowledges, gossip_handle_member_list, gossip_handle_data,
                gossip_handle_status, Read
  <2> QED
    BY <1>1, <1>3, <2>1, <2>2 DEF Queues, StepQueue
<1>4. ASSUME UNCHANGED out PROVE StepQueue(b, LogRecord)
  BY <1>1, <1>4 DEF StepQueue
<1>5. CASE UNCHANGED vars
  BY <1>4, <1>5 DEF vars, nodeVars
<1>6. ASSUME NEW n \in Node, NEW data \in Payload, pittacus_gossip_send_data(n, data)
      PROVE  StepQueue(b, LogRecord)
  <2>1. vector_clock_create_member_id(Self(n)) \in Ids
    BY SelfType DEF Types
  <2>2. data_counter[n] + 1 \in Nat
    BY DEF Types, CountersOK
  <2>3. Sent(n, data) \in LogRecord
    BY <2>1, <2>2 DEF Sent, DataRecord, LogRecord
  <2> QED
    BY <1>2, <1>6, <2>3, SendQueues
<1>7. ASSUME NEW n \in Node,
             pittacus_gossip_join(n) \/ pittacus_gossip_tick(n)
               \/ pittacus_gossip_process_send(n)
      PROVE  StepQueue(b, LogRecord)
  BY <1>2, <1>7, JoinQueues, TickQueues, ProcessSendQueues
<1>8. ASSUME NEW n \in Node, NEW d \in BagToSet(network),
             \/ gossip_handle_hello(n, d) \/ gossip_handle_welcome(n, d)
             \/ gossip_handle_ack(n, d) \/ RefuseUntilWelcome(n, d)
      PROVE  StepQueue(b, LogRecord)
  <2>1. CASE gossip_handle_hello(n, d)
    BY <1>2, <2>1, HelloQueues
  <2>2. CASE gossip_handle_welcome(n, d) \/ gossip_handle_ack(n, d)
    <3>1. \E s : out' = [out EXCEPT ![n].queue = gossip_envelope_remove(out[n].queue, s)]
      BY <2>2 DEF gossip_handle_welcome, gossip_handle_ack
    <3> QED
      BY <1>2, <3>1, RemovalQueues
  <2>3. CASE RefuseUntilWelcome(n, d)
    BY <1>4, <2>3 DEF RefuseUntilWelcome, nodeVars
  <2> QED
    BY <1>8, <2>1, <2>2, <2>3
<1>9. ASSUME NEW n \in Node, pittacus_gossip_init(n)
      PROVE  StepQueue(b, LogRecord)
  <2>1. out' = [out EXCEPT ![n] = EmptyOut]
    BY <1>9 DEF pittacus_gossip_init
  <2>2. OnNodes(out) /\ uid'[n] > 0
    BY <1>9, RestartsLater DEF Types, QueuesOK
  <2>3. /\ out'[n] = EmptyOut /\ uid'[n] > 0
        /\ b # n => out'[b] = out[b]
    BY <2>1, <2>2 DEF OnNodes
  <2> QED
    BY <1>1, <2>3 DEF StepQueue
<1>10. ASSUME NEW d, Lose(d) \/ Duplicate(d) PROVE StepQueue(b, LogRecord)
  BY <1>4, <1>10 DEF Lose, Duplicate, nodeVars
<1>11. CASE TimePasses
  <2> DEFINE o == [out[b] EXCEPT !.queue = Elapse(out[b].queue, 1)]
  <2>1. out'[b] = o
    BY <1>11 DEF TimePasses
  <2>2. Follows(out[b], o, Unasked(LogRecord))
    BY <1>0, ElapseQueue
  <2> HIDE DEF o
  <2> QED
    BY <2>1, <2>2 DEF StepQueue
<1>12. ASSUME NEW n \in Node, Receive(n) PROVE StepQueue(b, LogRecord)
  BY <1>3, <1>8, <1>12 DEF Receive, gossip_handle_new_message, Acknowledges
<1> QED
  BY <1>5, <1>6, <1>7, <1>9, <1>10, <1>11, <1>12 DEF Next

LEMMA TakenFrom ==
    ASSUME NEW net, IsABag(net), NEW d, NEW u, u = net (-) SetToBag({d})
    PROVE  BagToSet(u) \subseteq BagToSet(net)
<1>1. net \in [DOMAIN net -> Nat \ {0}]
  BY DEF IsABag
<1> DEFINE b(e) == IF e \in {d} THEN net[e] - 1 ELSE net[e]
           D    == {e \in DOMAIN net : b(e) > 0}
<1>2. u = [e \in D |-> b(e)]
  BY DEF (-), SetToBag
<1> HIDE DEF b
<1> QED
  BY <1>2 DEF BagToSet

LEMMA AddedTo ==
    ASSUME NEW net, IsABag(net), NEW D, NEW u, u = net (+) SetToBag(D)
    PROVE  BagToSet(u) \subseteq BagToSet(net) \cup D
BY DEF (+), SetToBag, BagToSet

\* As long as no clock ticks during a pass, what is in the network was there or has
\* been sent from a queue.
LEMMA StepNetwork ==
    ASSUME NoDrift, Types(LogRecord), [Next]_vars, NEW d \in BagToSet(network')
    PROVE  \/ d \in BagToSet(network)
           \/ /\ d.from \in Node
              /\ \E e \in out[d.from].queue :
                    /\ d.to = e.recipient
                    /\ d.sequence_num = e.sequence_num
                    /\ d.msg = e.message
<1>0. IsABag(network)
  BY DEF Types, NetworkOf
<1>1. ASSUME UNCHANGED network PROVE d \in BagToSet(network)
  BY <1>1
<1>2. ASSUME NEW f, network' = network (-) SetToBag({f})
      PROVE  d \in BagToSet(network)
  BY <1>0, <1>2, TakenFrom
<1>3. ASSUME NEW f \in BagToSet(network), network' = network (+) SetToBag({f})
      PROVE  d \in BagToSet(network)
  BY <1>0, <1>3, AddedTo
<1>4. ASSUME NEW n \in Node, pittacus_gossip_process_send(n), d \notin BagToSet(network)
      PROVE  /\ d.from \in Node
             /\ \E e \in out[d.from].queue :
                    /\ d.to = e.recipient
                    /\ d.sequence_num = e.sequence_num
                    /\ d.msg = e.message
  <2>0. PICK t, stop : \E datagrams \in Transmissions(n, t, stop) :
            network' = network (+) SetToBag(datagrams)
    BY <1>4 DEF pittacus_gossip_process_send
  <2>1. PICK datagrams \in Transmissions(n, t, stop) :
            network' = network (+) SetToBag(datagrams)
    BY <2>0
  <2>2. d \in datagrams
    BY <1>0, <1>4, <2>1, AddedTo
  <2>3. \A e \in out[n].queue : e.contents = e.message
    BY <1>4 DEF Types, QueuesOK, QueueOf, KeptIntact, Intact
  <2>4. PICK e \in out[n].queue : d = Datagram(n, e, e.contents)
    BY <2>1, <2>2, <2>3, DatagramSource
  <2> QED
    BY <1>4, <2>3, <2>4 DEF Datagram
<1>5. ASSUME NEW n \in Node, Receive(n) PROVE d \in BagToSet(network)
  <2>1. \E f : network' = network (-) SetToBag({f})
    BY <1>5 DEF Receive, gossip_handle_new_message, gossip_handle_hello,
       gossip_handle_welcome, gossip_handle_member_list, gossip_handle_data,
       gossip_handle_ack, gossip_handle_status, RefuseUntilWelcome, Read
  <2> QED
    BY <1>2, <2>1
<1>6. ASSUME NEW f \in BagToSet(network), Lose(f) \/ Duplicate(f)
      PROVE  d \in BagToSet(network)
  BY <1>2, <1>3, <1>6 DEF Lose, Duplicate
<1>7. ASSUME \/ \E n \in Node : \/ pittacus_gossip_join(n)
                                \/ \E data \in Payload : pittacus_gossip_send_data(n, data)
                                \/ pittacus_gossip_tick(n)
                                \/ pittacus_gossip_init(n)
             \/ TimePasses
             \/ UNCHANGED vars
      PROVE  d \in BagToSet(network)
  BY <1>1, <1>7 DEF pittacus_gossip_join, pittacus_gossip_send_data, pittacus_gossip_tick,
     pittacus_gossip_init, TimePasses, vars
<1> QED
  BY <1>4, <1>5, <1>6, <1>7 DEF Next

-----------------------------------------------------------------------------
(* What acknowledgements stand for *)

\* A record that is not news has a number that is known.
LEMMA KnownAfter ==
    ASSUME NEW c, IsTable(c, ClockRecord, MAX_VECTOR_SIZE), NEW r, r.sequence_number \in Nat,
           vector_clock_compare_with_record(c, r) # "BEFORE"
    PROVE  r.sequence_number <= KnownIn(c, r.member_id)
<1>1. FindById(c, r.member_id) # 0
  BY DEF vector_clock_compare_with_record
<1>2. KnownIn(c, r.member_id) = c.records[FindById(c, r.member_id)].sequence_number
  BY <1>1 DEF KnownIn
<1>3. KnownIn(c, r.member_id) \in Nat
  BY KnownEntry
<1> QED
  BY <1>1, <1>2, <1>3 DEF vector_clock_compare_with_record

\* Setting a record to a number that is not below what is known loses nothing.
LEMMA KnownGrows ==
    ASSUME ClockRoom, NEW c, IsTable(c, ClockRecord, MAX_VECTOR_SIZE),
           NEW id \in Ids, NEW k \in Nat, KnownIn(c, id) <= k,
           NEW u, u = vector_clock_set(c, id, k)
    PROVE  \A j : KnownIn(c, j) <= KnownIn(u, j)
<1>1. KnownIn(u, id) = k /\ \A j : j # id => KnownIn(u, j) = KnownIn(c, j)
  BY KnownSet
<1>2. \A j : KnownIn(c, j) \in Nat
  BY KnownEntry
<1> SUFFICES ASSUME NEW j PROVE KnownIn(c, j) <= KnownIn(u, j)
  OBVIOUS
<1>3. CASE j = id
  BY <1>1, <1>3
<1>4. CASE j # id
  <2>1. PICK k1 \in Nat : k1 = KnownIn(c, j)
    BY <1>2
  <2>2. KnownIn(u, j) = k1
    BY <1>1, <1>4, <2>1
  <2> QED
    BY <2>1, <2>2
<1> QED
  BY <1>3, <1>4

\* A process never forgets: its clock only grows, ...
LEMMA StepLearns ==
    ASSUME NoIdReused, ClockRoom, Tracks, [Next]_vars, NEW a \in Node
    PROVE  /\ uid'[a] = 0 => uid[a] = 0
           /\ \/ uid'[a] > 0
              \/ \A j : KnownIn(data_version[a], j) <= KnownIn(data_version'[a], j)
<1>0. /\ Authentic /\ KnowsOwn /\ OnNodes(data_version) /\ OnNodes(uid)
      /\ \A n \in Node : /\ IsTable(data_version[n], ClockRecord, MAX_VECTOR_SIZE)
                         /\ OwnId(n) \in Ids /\ data_counter[n] \in Nat
                         /\ uid[n] \in Nat
  BY SelfType DEF Tracks, Authentic, Types, ClocksOK, CountersOK, UidsOK, OwnId
<1>1. ASSUME data_version'[a] = data_version[a]
      PROVE  \A j : KnownIn(data_version[a], j) <= KnownIn(data_version'[a], j)
  <2>1. \A j : KnownIn(data_version[a], j) \in Nat
    BY <1>0, KnownEntry
  <2> QED
    BY <1>1, <2>1
\* The clock of one node becomes c.
<1>2. ASSUME NEW n \in Node, NEW c, data_version' = [data_version EXCEPT ![n] = c],
             \A j : KnownIn(data_version[n], j) <= KnownIn(c, j)
      PROVE  \A j : KnownIn(data_version[a], j) <= KnownIn(data_version'[a], j)
  <2>1. data_version'[n] = c /\ \A m \in Node \ {n} : data_version'[m] = data_version[m]
    BY <1>0, <1>2 DEF OnNodes
  <2>2. CASE a = n
    BY <1>2, <2>1, <2>2
  <2>3. CASE a # n
    BY <1>1, <2>1, <2>3
  <2> QED
    BY <2>2, <2>3
<1>3. CASE UNCHANGED <<uid, data_version, data_log, data_counter, delivered, published>>
  BY <1>1, <1>3
<1>4. CASE \E n \in Node : \E data \in Payload : pittacus_gossip_send_data(n, data)
  <2>1. PICK n \in Node, data \in Payload : pittacus_gossip_send_data(n, data)
    BY <1>4
  <2>2. PICK c : c = vector_clock_set(data_version[n], OwnId(n), data_counter[n] + 1)
    OBVIOUS
  <2>3. data_version' = [data_version EXCEPT ![n] = c] /\ uid' = uid
    BY <2>1, <2>2, SendEffect DEF OwnId
  <2>4. /\ data_counter[n] + 1 \in Nat
        /\ KnownIn(data_version[n], OwnId(n)) <= data_counter[n] + 1
    BY <1>0 DEF KnowsOwn
  <2>5. \A j : KnownIn(data_version[n], j) <= KnownIn(c, j)
    BY <1>0, <2>2, <2>4, KnownGrows
  <2> QED
    BY <1>2, <2>3, <2>5
<1>5. CASE \E n \in Node : \E d \in BagToSet(network) : gossip_handle_data(n, d)
  <2>1. PICK n \in Node, d \in BagToSet(network) : gossip_handle_data(n, d)
    BY <1>5
  <2>2. PICK r \in Genuine(published) : r = d.msg.record
    BY <1>0, <2>1, DataRecordType DEF Authentic, Types
  <2>3. uid' = uid
    BY <2>1, DataEffect
  <2>4. CASE data_version' = [data_version EXCEPT ![n] = data_version[n]]
    <3>1. data_version' = data_version
      BY <1>0, <2>4 DEF OnNodes
    <3> QED
      BY <1>1, <2>3, <3>1
  <2>5. CASE /\ vector_clock_compare_with_record(data_version[n], r) = "BEFORE"
             /\ data_version' = [data_version EXCEPT ![n] =
                    vector_clock_set(data_version[n], r.member_id, r.sequence_number)]
    <3>1. PICK c : c = vector_clock_set(data_version[n], r.member_id, r.sequence_number)
      OBVIOUS
    <3>2. r.member_id \in Ids /\ KnownIn(data_version[n], r.member_id) < r.sequence_number
      BY <1>0, <2>5, NewsIsNew DEF Tracks
    <3>3. r.sequence_number \in Nat /\ KnownIn(data_version[n], r.member_id) \in Nat
      BY <1>0, KnownEntry DEF Genuine, LogRecord
    <3>4. KnownIn(data_version[n], r.member_id) <= r.sequence_number
      BY <3>2, <3>3
    <3>5. \A j : KnownIn(data_version[n], j) <= KnownIn(c, j)
      BY <1>0, <3>1, <3>2, <3>3, <3>4, KnownGrows
    <3> QED
      BY <1>2, <2>3, <2>5, <3>1, <3>5
  <2> QED
    BY <2>1, <2>2, <2>4, <2>5, DataEffect
<1>6. CASE \E n \in Node : pittacus_gossip_init(n)
  <2>1. PICK n \in Node : pittacus_gossip_init(n)
    BY <1>6
  <2>2. /\ data_version' = [data_version EXCEPT ![n] = Table]
        /\ uid'[n] > 0 /\ \A m \in Node \ {n} : uid'[m] = uid[m]
    BY <1>0, <2>1, RestartEffect, RestartsLater DEF Authentic, Types
  <2>3. /\ \A m \in Node \ {n} : data_version'[m] = data_version[m] /\ uid'[m] = uid[m]
        /\ uid'[n] > 0
    BY <1>0, <2>2 DEF OnNodes
  <2>4. CASE a = n
    BY <2>3, <2>4
  <2>5. CASE a # n
    BY <1>1, <2>3, <2>5
  <2> QED
    BY <2>4, <2>5
<1> QED
  BY <1>3, <1>4, <1>5, <1>6, StepKinds

\* ... and what gossip_handle_data acknowledges is known then, news or not.
LEMMA HandledIsKnown ==
    ASSUME ClockRoom, Tracks, NEW a \in Node, NEW d \in BagToSet(network),
           gossip_handle_data(a, d), NEW r, r = d.msg.record
    PROVE  r.sequence_number <= KnownIn(data_version'[a], r.member_id)
<1>0. /\ Authentic /\ OnNodes(data_version)
      /\ IsTable(data_version[a], ClockRecord, MAX_VECTOR_SIZE)
  BY DEF Tracks, Authentic, Types, ClocksOK
<1>1. r \in Genuine(published)
  BY <1>0, DataRecordType DEF Authentic, Types
<1>2. r.member_id \in Ids /\ r.sequence_number \in Nat
  BY <1>1 DEF Genuine, LogRecord
<1>3. CASE /\ vector_clock_compare_with_record(data_version[a], r) # "BEFORE"
           /\ data_version' = [data_version EXCEPT ![a] = data_version[a]]
  <2>1. data_version'[a] = data_version[a]
    BY <1>0, <1>3 DEF OnNodes
  <2> QED
    BY <1>0, <1>2, <1>3, <2>1, KnownAfter
<1>4. CASE data_version' = [data_version EXCEPT ![a] =
               vector_clock_set(data_version[a], r.member_id, r.sequence_number)]
  <2>1. PICK c : c = vector_clock_set(data_version[a], r.member_id, r.sequence_number)
    OBVIOUS
  <2>2. data_version'[a] = c
    BY <1>0, <1>4, <2>1 DEF OnNodes
  <2>3. KnownIn(c, r.member_id) = r.sequence_number
    BY <1>0, <1>2, <2>1, KnownSet
  <2> QED
    BY <1>2, <2>2, <2>3
<1> QED
  BY <1>3, <1>4, DataEffect

\* Node a has the version of record r or a later one, or is a new process.
HasLearned(a, r) ==
    uid[a] > 0 \/ r.sequence_number <= KnownIn(data_version[a], r.member_id)

\* Node a may acknowledge number s of b: if b still waits for that with a payload,
\* it was for a, and a has it.
Earned(a, b, s) ==
    uid[b] = 0 =>
        /\ s <= out[b].sequence_num
        /\ \A e \in out[b].queue :
              e.sequence_num = s /\ e.message.type = "DATA"
                => e.recipient = a /\ HasLearned(a, e.message.record)

\* A datagram carries what its sender has in the queue under that number, if it
\* has anything there.
Carries(d) ==
    uid[d.from] = 0 =>
        /\ d.sequence_num <= out[d.from].sequence_num
        /\ \A e \in out[d.from].queue :
              e.sequence_num = d.sequence_num => e.recipient = d.to /\ e.message = d.msg

\* The inductive invariant of acknowledgements, in the queues and in flight.
Acks ==
    /\ \A d \in BagToSet(network) :
          /\ Carries(d)
          /\ d.msg.type = "ACK" => Earned(d.from, d.to, d.msg.ack_sequence_num)
    /\ \A a \in Node : \A e \in out[a].queue :
          e.message.type = "ACK" => Earned(a, e.recipient, e.message.ack_sequence_num)

\* An envelope with a number that was given out before the step was in the queue
\* before the step.
LEMMA OldEnvelope ==
    ASSUME NoIdReused, Types(LogRecord), Types(LogRecord)', [Next]_vars,
           NEW b \in Node, uid'[b] = 0, NEW s \in Nat, s <= out[b].sequence_num
    PROVE  /\ s <= out'[b].sequence_num
           /\ \A x \in out'[b].queue : x.sequence_num = s =>
                 \E e \in out[b].queue : /\ x.sequence_num = e.sequence_num
                                         /\ x.recipient = e.recipient
                                         /\ x.message = e.message
<1>1. PICK New : Follows(out[b], out'[b], New)
  BY StepQueues DEF StepQueue
<1>2. out[b].sequence_num \in Nat /\ out'[b].sequence_num \in Nat
  BY DEF Types, QueuesOK, QueueOf, WellFormed
<1>3. out[b].sequence_num <= out'[b].sequence_num
  BY <1>1 DEF Follows
<1>4. s <= out'[b].sequence_num
  BY <1>2, <1>3
<1>5. ~(s > out[b].sequence_num)
  BY <1>2
<1> QED
  BY <1>1, <1>4, <1>5 DEF Follows

\* What has been learned stays known.
LEMMA LearnedStays ==
    ASSUME NoIdReused, ClockRoom, Tracks, Tracks', [Next]_vars, NEW a \in Node,
           NEW r \in LogRecord, HasLearned(a, r)
    PROVE  HasLearned(a, r)'
<1>1. /\ IsTable(data_version[a], ClockRecord, MAX_VECTOR_SIZE) /\ uid[a] \in Nat
      /\ IsTable(data_version'[a], ClockRecord, MAX_VECTOR_SIZE) /\ uid'[a] \in Nat
  BY DEF Tracks, Authentic, Types, ClocksOK, UidsOK
<1>2. CASE uid'[a] > 0
  BY <1>2 DEF HasLearned
<1>3. CASE uid'[a] = 0
  <2>1. /\ uid[a] = 0
        /\ KnownIn(data_version[a], r.member_id) <= KnownIn(data_version'[a], r.member_id)
    BY <1>3, StepLearns
  <2>2. r.sequence_number <= KnownIn(data_version[a], r.member_id)
    BY <2>1 DEF HasLearned
  <2>3. PICK k1 \in Nat : k1 = KnownIn(data_version[a], r.member_id)
    BY <1>1, KnownEntry
  <2>4. PICK k2 \in Nat : k2 = KnownIn(data_version'[a], r.member_id)
    BY <1>1, KnownEntry
  <2>5. r.sequence_number \in Nat
    BY DEF LogRecord
  <2>6. r.sequence_number <= k2
    BY <2>1, <2>2, <2>3, <2>4, <2>5
  <2> QED
    BY <2>4, <2>6 DEF HasLearned
<1> QED
  BY <1>1, <1>2, <1>3

LEMMA EarnedStays ==
    ASSUME NoIdReused, ClockRoom, Tracks, Tracks', Types(LogRecord), Types(LogRecord)', [Next]_vars,
           NEW a \in Node, NEW b \in Node, NEW s \in Nat, Earned(a, b, s)
    PROVE  Earned(a, b, s)'
<1> SUFFICES ASSUME uid'[b] = 0
             PROVE  /\ s <= out'[b].sequence_num
                    /\ \A e \in out'[b].queue :
                          e.sequence_num = s /\ e.message.type = "DATA"
                            => e.recipient = a /\ HasLearned(a, e.message.record)'
  BY DEF Earned
<1>1. /\ s <= out[b].sequence_num
      /\ \A e \in out[b].queue :
            e.sequence_num = s /\ e.message.type = "DATA"
              => e.recipient = a /\ HasLearned(a, e.message.record)
  BY StepLearns DEF Earned
<1>2. ASSUME NEW x \in out'[b].queue, x.sequence_num = s, x.message.type = "DATA"
      PROVE  x.recipient = a /\ HasLearned(a, x.message.record)'
  <2>1. PICK e \in out[b].queue : /\ x.sequence_num = e.sequence_num
                                  /\ x.recipient = e.recipient
                                  /\ x.message = e.message
    BY <1>1, <1>2, OldEnvelope
  <2>2. e.recipient = a /\ HasLearned(a, e.message.record)
    BY <1>1, <1>2, <2>1
  <2>3. PICK r \in LogRecord : r = e.message.record
    <3>1. e.message \in Msgs(LogRecord)
      BY DEF Types, QueuesOK, QueueOf, WellFormed, Envelope
    <3> QED
      BY <1>2, <2>1, <3>1, MsgFields
  <2>4. HasLearned(a, r)'
    BY <2>2, <2>3, LearnedStays
  <2>5. x.message.record = r
    BY <2>1, <2>3
  <2> QED
    BY <2>1, <2>2, <2>4, <2>5 DEF HasLearned
<1> QED
  BY <1>1, <1>2, OldEnvelope

\* What a datagram carries stays what is in the queue.
LEMMA StillCarries ==
    ASSUME NoIdReused, ClockRoom, Tracks, Types(LogRecord), Types(LogRecord)', [Next]_vars,
           NEW d, d.from \in Node, d.sequence_num \in Nat, Carries(d)
    PROVE  Carries(d)'
<1> SUFFICES ASSUME uid'[d.from] = 0
             PROVE  /\ d.sequence_num <= out'[d.from].sequence_num
                    /\ \A e \in out'[d.from].queue :
                          e.sequence_num = d.sequence_num
                            => e.recipient = d.to /\ e.message = d.msg
  BY DEF Carries
<1>1. /\ d.sequence_num <= out[d.from].sequence_num
      /\ \A e \in out[d.from].queue :
            e.sequence_num = d.sequence_num => e.recipient = d.to /\ e.message = d.msg
  BY StepLearns DEF Carries
<1> QED
  BY <1>1, OldEnvelope

\* An acknowledgement is due once the handler of a datagram is done.
LEMMA EarnedByHandling ==
    ASSUME NoIdReused, ClockRoom, Tracks, Types(LogRecord), Types(LogRecord)', [Next]_vars,
           NEW a \in Node, NEW d \in BagToSet(network), d.to = a, Acknowledges(a, d),
           Carries(d)
    PROVE  Earned(a, d.from, d.sequence_num)'
<1>0. d.from \in Node /\ d.sequence_num \in Nat
  BY DatagramType DEF Types
<1>1. PICK b \in Node : b = d.from
  BY <1>0
<1>2. PICK s \in Nat : s = d.sequence_num
  BY <1>0
<1> SUFFICES ASSUME uid'[b] = 0
             PROVE  /\ s <= out'[b].sequence_num
                    /\ \A e \in out'[b].queue :
                          e.sequence_num = s /\ e.message.type = "DATA"
                            => e.recipient = a /\ HasLearned(a, e.message.record)'
  BY <1>1, <1>2 DEF Earned
<1>3. /\ s <= out[b].sequence_num
      /\ \A e \in out[b].queue : e.sequence_num = s => e.recipient = a /\ e.message = d.msg
  BY <1>1, <1>2, StepLearns DEF Carries
<1>4. ASSUME NEW x \in out'[b].queue, x.sequence_num = s, x.message.type = "DATA"
      PROVE  x.recipient = a /\ HasLearned(a, x.message.record)'
  <2>1. x.recipient = a /\ x.message = d.msg
    BY <1>3, <1>4, OldEnvelope
  <2>2. gossip_handle_data(a, d)
    BY <1>4, <2>1 DEF Acknowledges, gossip_handle_member_list, gossip_handle_status, Read
  <2>3. PICK r : r = d.msg.record
    OBVIOUS
  <2>4. r.sequence_number <= KnownIn(data_version'[a], r.member_id)
    BY <2>2, <2>3, HandledIsKnown
  <2> QED
    BY <2>1, <2>3, <2>4 DEF HasLearned
<1> QED
  BY <1>3, <1>4, OldEnvelope

LEMMA InitAcks == Init => Acks
BY DEF Init, EmptyNodes, Acks, EmptyOut, EmptyBag, SetToBag, BagToSet

LEMMA StepAcks ==
    ASSUME NoDrift, NoIdReused, ClockRoom, Tracks, Tracks', Types(LogRecord),
           Types(LogRecord)', Acks, [Next]_vars
    PROVE  Acks'
<1>1. ASSUME NEW d \in BagToSet(network')
      PROVE  /\ Carries(d)'
             /\ d.msg.type = "ACK" => Earned(d.from, d.to, d.msg.ack_sequence_num)'
  <2>1. d.from \in Node /\ d.to \in Node /\ d.sequence_num \in Nat /\ d.msg \in Msgs(LogRecord)
    <3>1. d \in [from : Node, to : Node, sequence_num : Nat, msg : Msgs(LogRecord)]
      BY DEF Types, NetworkOf
    <3> QED
      BY <3>1
  <2>2. d.msg.type = "ACK" => d.msg.ack_sequence_num \in Nat
    BY <2>1, MsgFields
  <2>3. Carries(d) /\ (d.msg.type = "ACK" => Earned(d.from, d.to, d.msg.ack_sequence_num))
    <3>1. CASE d \in BagToSet(network)
      BY <3>1 DEF Acks
    <3>2. CASE \E e \in out[d.from].queue : /\ d.to = e.recipient
                                            /\ d.sequence_num = e.sequence_num
                                            /\ d.msg = e.message
      <4>1. PICK e \in out[d.from].queue : /\ d.to = e.recipient
                                           /\ d.sequence_num = e.sequence_num
                                           /\ d.msg = e.message
        BY <3>2
      <4>2. Numbered(out[d.from].queue) /\ e.sequence_num <= out[d.from].sequence_num
        BY <2>1 DEF Types, QueuesOK, QueueOf, WellFormed, Proper
      <4>3. Carries(d)
        BY <4>1, <4>2 DEF Carries, Numbered
      <4> QED
        BY <2>1, <4>1, <4>3 DEF Acks
    <3> QED
      BY <3>1, <3>2, StepNetwork
  <2> QED
    BY <2>1, <2>2, <2>3, StillCarries, EarnedStays
<1>2. ASSUME NEW a \in Node, NEW x \in out'[a].queue, x.message.type = "ACK"
      PROVE  Earned(a, x.recipient, x.message.ack_sequence_num)'
  <2>1. ASSUME NEW e \in out[a].queue, x.recipient = e.recipient, x.message = e.message
        PROVE  Earned(a, x.recipient, x.message.ack_sequence_num)'
    <3>1. e.recipient \in Node /\ e.message \in Msgs(LogRecord)
      BY DEF Types, QueuesOK, QueueOf, WellFormed, Envelope
    <3>2. PICK b \in Node, s \in Nat : b = e.recipient /\ s = e.message.ack_sequence_num
      BY <1>2, <2>1, <3>1, MsgFields
    <3>3. Earned(a, b, s)
      BY <1>2, <2>1, <3>2 DEF Acks
    <3>4. Earned(a, b, s)'
      BY <3>3, EarnedStays
    <3> QED
      BY <2>1, <3>2, <3>4
  <2>2. ~(<<x.recipient, x.message>> \in Unasked(LogRecord))
    BY <1>2 DEF Unasked
  <2>3. CASE Follows(out[a], out'[a], Unasked(LogRecord))
    BY <2>1, <2>2, <2>3 DEF Follows
  <2>4. CASE \E d \in BagToSet(network) :
                /\ d.to = a
                /\ Acknowledges(a, d)
                /\ Follows(out[a], out'[a], Answers(LogRecord, d))
    <3>1. PICK d \in BagToSet(network) :
              /\ d.to = a
              /\ Acknowledges(a, d)
              /\ Follows(out[a], out'[a], Answers(LogRecord, d))
      BY <2>4
    <3>2. CASE x.recipient = d.from /\ x.message = Ack(d.sequence_num)
      <4>1. x.message.ack_sequence_num = d.sequence_num
        BY <3>2 DEF Ack
      <4>2. Earned(a, d.from, d.sequence_num)'
        BY <3>1, EarnedByHandling DEF Acks
      <4> QED
        BY <3>2, <4>1, <4>2
    <3>3. CASE \E e \in out[a].queue : x.recipient = e.recipient /\ x.message = e.message
      BY <2>1, <3>3
    <3>4. CASE <<x.recipient, x.message>> \in Answers(LogRecord, d)
      BY <2>2, <3>2, <3>4 DEF Answers
    <3> QED
      BY <3>1, <3>3, <3>4 DEF Follows
  <2>5. CASE out'[a] = EmptyOut
    BY <2>5 DEF EmptyOut
  <2> QED
    BY <2>3, <2>4, <2>5, StepQueues DEF StepQueue
<1> QED
  BY <1>1, <1>2 DEF Acks

LEMMA AcksGive ==
    ASSUME Tracks, Acks
    PROVE  AckedDataIsKnown
<1> SUFFICES ASSUME NEW d \in BagToSet(network), uid[d.to] = 0, d.msg.type = "ACK",
                    NEW e \in out[d.to].queue,
                    e.sequence_num = d.msg.ack_sequence_num, e.message.type = "DATA"
             PROVE  \/ uid[e.recipient] > 0
                    \/ vector_clock_compare_with_record(
                           data_version[e.recipient], e.message.record) # "BEFORE"
  BY DEF AckedDataIsKnown, AcknowledgesKnown
<1>1. PICK G : G = Genuine(published)
  OBVIOUS
<1>2. Types(G)
  BY <1>1 DEF Tracks, Authentic
<1>3. d.from \in Node /\ d.to \in Node
  BY <1>2, DatagramType DEF Types
<1>4. e.message \in Msgs(G)
  <2>1. WellFormed(out[d.to], Msgs(G), Node)
    BY <1>2, <1>3 DEF Types, QueuesOK, QueueOf, KeptIntact
  <2> QED
    BY <2>1 DEF WellFormed, Envelope
<1>5. e.recipient = d.from /\ HasLearned(d.from, e.message.record)
  BY DEF Acks, Earned
<1>6. PICK r \in G : r = e.message.record
  BY <1>4, MsgFields
<1>7. r.sequence_number \in Nat \ {0}
  <2>1. /\ r.member_id \in Ids /\ r.sequence_number \in 1 .. Len(published[r.member_id])
    BY <1>1 DEF Genuine, LogRecord
  <2>2. Len(published[r.member_id]) \in Nat
    BY <1>2, <2>1 DEF Types, PublishedOK
  <2> QED
    BY <2>1, <2>2
<1>8. ASSUME vector_clock_compare_with_record(data_version[d.from], r) = "BEFORE"
      PROVE  uid[d.from] > 0
  <2>1. IsTable(data_version[d.from], ClockRecord, MAX_VECTOR_SIZE)
    BY <1>2, <1>3 DEF Types, ClocksOK
  <2>2. KnownIn(data_version[d.from], r.member_id) < r.sequence_number
    BY <1>7, <1>8, <2>1, KnownBefore
  <2>3. KnownIn(data_version[d.from], r.member_id) \in Nat
    BY <2>1, KnownEntry
  <2> QED
    BY <1>5, <1>6, <1>7, <2>2, <2>3 DEF HasLearned
<1> QED
  BY <1>4, <1>5, <1>6, <1>8

\* When no pass over a queue sees the clock tick, restarted processes get ids of
\* their own and the clocks have room for all originators, gossip_handle_ack of a
\* process that is the first at its address takes nothing from the queue that its
\* recipient does not have, however late, often or out of order datagrams arrive and
\* whoever else is restarted meanwhile.
THEOREM AckedIsKnown ==
    ASSUME NoDrift, NoIdReused, ClockRoom
    PROVE  Spec => []AckedDataIsKnown
<1>1. Tracks /\ [Next]_vars => Tracks'
  BY StepTracks
<1>2. /\ Tracks /\ Tracks' /\ Types(LogRecord) /\ Types(LogRecord)' /\ Acks /\ [Next]_vars
      => Acks'
  BY StepAcks
<1>3. Tracks /\ Acks => AckedDataIsKnown
  BY AcksGive
<1> QED
  BY <1>1, <1>2, <1>3, InitTracks, InitAcks, AlwaysTyped, PTL DEF Spec

=============================================================================
