------------------------------- MODULE Gossip -------------------------------
(***************************************************************************)
(* A cluster of Pittacus nodes (src/src/gossip.c) over UDP.  Each node is  *)
(* single-threaded: an action is one call of the public interface by its   *)
(* application, or the handling of one datagram.  Datagrams are lost,      *)
(* duplicated and reordered; nodes are restarted at the same address.      *)
(*                                                                         *)
(* Every node is an address.  Data is abstract: a payload is an element of *)
(* Payload, a message a record of the fields its handler reads.            *)
(***************************************************************************)
EXTENDS Outbound, Messages, VectorClock, MemberSet, Bags

CONSTANTS
    Node,                    \* the addresses
    Seeds,                   \* Seeds[n]: the seed nodes n joins, in order
    Payload,                 \* what applications send
    Oversized,               \* the payloads that do not fit in a message
    MESSAGE_RUMOR_FACTOR,    \* receivers of a rumor            (3)
    MEMBER_LIST_SYNC_SIZE,   \* members in one MEMBER_LIST      (512 / size)
    DATA_LOG_SIZE,           \* records of the data log         (25)
    GOSSIP_TICK_INTERVAL,    \* time between two status rounds  (1000)
    UidSpan,                 \* uids that share a member id     (2^16)
    Pause,                   \* seconds between two starts of a node, at least
    MaxDrift,                \* how long a pass over the queue may last
    Restarting,              \* the nodes that may be restarted
    MaxUid,                  \* bound on the time a process is started at
    MaxSeq,                  \* bound on the envelopes of one node
    Budget                   \* bounds on payloads, ticks, failed writes,
                             \* losses, duplicates and restarts in all

ASSUME SeedsAssumption == \A n \in Node : Seeds[n] \in Seq(Node \ {n})
ASSUME RestartingAssumption == Restarting \subseteq Node
ASSUME OversizedAssumption == Oversized \subseteq Payload
ASSUME DataLogSizeAssumption == DATA_LOG_SIZE \in Nat \ {0}
ASSUME UidSpanAssumption == UidSpan \in Nat \ {0}
ASSUME PauseAssumption == Pause \in Nat
ASSUME MaxDriftAssumption == MaxDrift \in Nat
ASSUME MaxUidAssumption == MaxUid \in Nat
ASSUME RumorFactorAssumption == MESSAGE_RUMOR_FACTOR \in Nat
ASSUME SyncSizeAssumption == MEMBER_LIST_SYNC_SIZE \in Nat \ {0}
ASSUME TickIntervalAssumption == GOSSIP_TICK_INTERVAL \in Nat
ASSUME MaxSeqAssumption == MaxSeq \in Nat
ASSUME BudgetAssumption ==
    Budget \in [{"payload", "tick", "fail", "lose", "duplicate", "restart"} -> Nat]

VARIABLES
    state,          \* pittacus_gossip_state_t of each node
    uid,            \* self_address.uid: when the process started, in seconds
    members,        \* the known members, without the node itself
    data_version,   \* the version clock
    data_log,       \* the latest payload of each originator
    data_counter,   \* the number of own payloads
    out,            \* the outbound queue and sequence_num
    gossip_age,     \* time since last_gossip_ts, up to the interval
    delivered,      \* history: what the data receiver was called with
    published,      \* history: what was sent under each id, in order
    network,        \* the datagrams in flight, a bag
    left            \* what is left of Budget

nodeVars == <<state, uid, members, data_version, data_log, data_counter,
              out, gossip_age, delivered, published>>
vars == <<nodeVars, network, left>>

Member == [address : Node, uid : 0 .. MaxUid]

Self(n) == [address |-> n, uid |-> uid[n]]

\* Mutants: the address, or the uid, is left out of the id.
MemberIdOfUid(m) == <<m.uid \div UidSpan>>

MemberIdOfAddress(m) == <<m.address>>

\* The id under which the versions of a member are kept: its address and the
\* upper half of its uid.
vector_clock_create_member_id(m) == <<m.address, m.uid \div UidSpan>>

\* The ids of all processes that run within the bounds.
Ids == {vector_clock_create_member_id([address |-> n, uid |-> u]) :
            n \in Node, u \in {0}}
       \cup {vector_clock_create_member_id([address |-> n, uid |-> u]) :
                n \in Restarting, u \in 0 .. MaxUid}

EmptyOut == [queue |-> {}, sequence_num |-> 0]

EmptyNodes ==
    /\ uid = [n \in Node |-> 0]
    /\ members = [n \in Node |-> cluster_member_set_init]
    /\ data_version = [n \in Node |-> Table]
    /\ data_log = [n \in Node |-> Table]
    /\ data_counter = [n \in Node |-> 0]
    /\ out = [n \in Node |-> EmptyOut]
    /\ gossip_age = [n \in Node |-> GOSSIP_TICK_INTERVAL]
    /\ delivered = [n \in Node |-> <<>>]
    /\ published = [id \in Ids |-> <<>>]
    /\ network = EmptyBag

Init ==
    /\ state = [n \in Node |-> "INITIALIZED"]
    /\ EmptyNodes
    /\ left = Budget

Spend(what) == left[what] > 0 /\ left' = [left EXCEPT ![what] = @ - 1]

-----------------------------------------------------------------------------
(* Sending *)

Fits(msg) == msg.type = "DATA" => msg.record.data \notin Oversized

\* gossip_enqueue_message with a list of recipients, ...
Enqueue(o, msg, recipients) ==
    gossip_enqueue_message(o, msg, Fits(msg), MaxAttempts(msg.type), recipients)

Addresses(ms) == [i \in DOMAIN ms |-> ms[i].address]

\* ... its GOSSIP_DIRECT, GOSSIP_BROADCAST and GOSSIP_RANDOM forms.  Random
\* is the set of the possible outcomes.
Direct(o, msg, to) == Enqueue(o, msg, <<to>>)

Broadcast(o, msg, ms) == Enqueue(o, msg, Addresses(ms.set))

Random(o, msg, ms) ==
    {Enqueue(o, msg, Addresses(r)) :
        r \in cluster_member_set_random_members(ms, MESSAGE_RUMOR_FACTOR)}

\* The list of members to a newcomer, cut in messages.
gossip_enqueue_member_list(o, ms, to) ==
    FoldLeft(LAMBDA p, c : Direct(p, MemberList(c), to), o,
             Chunks(ms, MEMBER_LIST_SYNC_SIZE))

\* Mutant: one payload that cannot be encoded keeps back the others, wherever it is.
EnqueueAllOrNothing(o, log, clock, to) ==
    FoldLeft(LAMBDA p, r :
                 IF p.failed \/ vector_clock_compare_with_record(clock, r) # "BEFORE"
                 THEN p
                 ELSE [out |-> Direct(p.out, Data(r), to), failed |-> FALSE],
             [out |-> o,
              failed |-> \E i \in DOMAIN log.records : ~Fits(Data(log.records[i]))],
             log.records)

\* Every payload of the log that the other clock is behind of, up to the first
\* one that cannot be encoded, and whether there was one.
gossip_enqueue_data_log(o, log, clock, to) ==
    FoldLeft(LAMBDA p, r :
                 IF p.failed \/ vector_clock_compare_with_record(clock, r) # "BEFORE"
                 THEN p
                 ELSE [out |-> Direct(p.out, Data(r), to), failed |-> ~Fits(Data(r))],
             [out |-> o, failed |-> FALSE], log.records)

-----------------------------------------------------------------------------
(* The public interface *)

\* The node's outbound part becomes o, within the bound on sequence numbers.
SetOut(n, o) == o.sequence_num <= MaxSeq /\ out' = [out EXCEPT ![n] = o]

pittacus_gossip_join(n) ==
    /\ state[n] = "INITIALIZED"
    /\ state' = [state EXCEPT ![n] =
                    IF Seeds[n] = <<>> THEN "CONNECTED" ELSE "JOINING"]
    /\ SetOut(n, FoldLeft(LAMBDA o, seed : Direct(o, Hello(Self(n)), seed),
                          out[n], Seeds[n]))
    /\ UNCHANGED <<uid, members, data_version, data_log, data_counter,
                   gossip_age, delivered, published, network, left>>

pittacus_gossip_send_data(n, data) ==
    /\ state[n] = "CONNECTED"
    /\ Spend("payload")
    /\ LET count == data_counter[n] + 1
           id    == vector_clock_create_member_id(Self(n))
           r     == DataRecord(id, count, data)
       IN  /\ data_counter' = [data_counter EXCEPT ![n] = count]
           /\ data_version' = [data_version EXCEPT ![n] =
                                  vector_clock_set(@, id, count)]
           /\ data_log' = [data_log EXCEPT ![n] = SetRecord(@, r, DATA_LOG_SIZE)]
           /\ published' = [published EXCEPT ![id] = Append(@, data)]
           /\ \E o \in Random(out[n], Data(r), members[n]) : SetOut(n, o)
    /\ UNCHANGED <<state, uid, members, gossip_age, delivered, network>>

\* Before its time, or unless connected, a tick does nothing.
pittacus_gossip_tick(n) ==
    /\ state[n] = "CONNECTED"
    /\ gossip_age[n] >= GOSSIP_TICK_INTERVAL
    /\ Spend("tick")
    /\ \E o \in Random(out[n], Status(data_version[n]), members[n]) : SetOut(n, o)
    /\ gossip_age' = [gossip_age EXCEPT ![n] = 0]
    /\ UNCHANGED <<state, uid, members, data_version, data_log, data_counter,
                   delivered, published, network>>

Datagram(n, e, msg) == [from |-> n, to |-> e.recipient,
                        sequence_num |-> e.sequence_num, msg |-> msg]

\* What the receiver may read when msg stands in a buffer that is sent with the
\* size of another message.  If bytes are missing it refuses DATA, STATUS and ACK,
\* but of a member it only asks for what comes before the address, and of a second
\* or later member in a list for nothing: the rest is what the receiver happens to
\* have in memory, which is taken to be some member of the cluster.
Readings(msg) ==
    {msg} \cup
    CASE msg.type \in {"HELLO", "WELCOME"} ->
            {[msg EXCEPT !.this_member.address = a] : a \in Node}
      [] msg.type = "MEMBER_LIST" ->
            {[msg EXCEPT !.members = ms] :
                ms \in {f \in [DOMAIN msg.members -> Member] :
                          f[1].uid = msg.members[1].uid}}
      [] OTHER -> {}

\* The sets of datagrams that a pass with timing d that ends at stop may put on
\* the network, those that will be refused left out.
Transmissions(n, d, stop) ==
    LET sent    == {e \in Due(out[n].queue, d) : e.sequence_num < stop}
        whole   == {Datagram(n, e, e.contents) :
                       e \in {x \in sent : x.contents = x.message}}
        garbled == UNION {{Datagram(n, e, msg) : msg \in Readings(e.contents)} :
                             e \in {x \in sent : x.contents # x.message}}
    IN  {whole \cup read :
            read \in {R \in SUBSET garbled :
                        \A x, y \in R : x.sequence_num = y.sequence_num => x = y}}

\* A pass over the outbound queue that lasts D, with timing d, and ends at stop,
\* where a write failed or past the last envelope: unreachable members are dropped
\* in list order, due messages are sent.  Only the clock of n itself moves.
Pass(n, d, D, stop) ==
    LET q     == out[n].queue
        Leaves(s) == {e \in Dropping(q) : e.sequence_num = s}
        Drop(ms, s) == IF Leaves(s) = {} THEN ms
                       ELSE cluster_member_set_remove_by_addr(
                                ms, (CHOOSE e \in Leaves(s) : TRUE).recipient)
    IN  /\ out' = [out EXCEPT ![n].queue = AfterPass(q, d, D, stop)]
        /\ gossip_age' = [gossip_age EXCEPT ![n] = Min({@ + D, GOSSIP_TICK_INTERVAL})]
        /\ members' = [members EXCEPT ![n] =
                          IF Dropping(q) = {} THEN @
                          ELSE FoldLeft(Drop, @, [s \in 1 .. stop - 1 |-> s])]

\* Where a pass can end: past the last envelope, or where a write fails.
PastLast(n) == out[n].sequence_num + 1

WriteFailures(n, d) == {e.sequence_num : e \in Due(out[n].queue, d)}

pittacus_gossip_process_send(n) ==
    /\ state[n] \in {"JOINING", "CONNECTED"}
    /\ \E D \in 0 .. MaxDrift : \E d \in Timings(out[n].queue, D) :
          \E stop \in {PastLast(n)} \cup WriteFailures(n, d) :
              /\ Pass(n, d, D, stop)
              /\ \E datagrams \in Transmissions(n, d, stop) :
                    network' = network (+) SetToBag(datagrams)
              /\ IF stop = PastLast(n) THEN UNCHANGED left ELSE Spend("fail")
    /\ UNCHANGED <<state, uid, data_version, data_log, data_counter,
                   delivered, published>>

-----------------------------------------------------------------------------
(* The handlers of pittacus_gossip_process_receive *)

\* Node n reads datagram d of the given type from its socket.
Read(n, d, type) ==
    /\ state[n] \in {"JOINING", "CONNECTED"}
    /\ d.to = n /\ d.msg.type = type
    /\ network' = network (-) SetToBag({d})
    /\ UNCHANGED left

\* Mutant: the newcomer is told the members before it is welcomed.
HandleHelloListFirst(n, d) ==
    /\ Read(n, d, "HELLO")
    /\ state[n] = "CONNECTED"
    /\ LET new       == d.msg.this_member
           informed  == gossip_enqueue_member_list(out[n], members[n].set, d.from)
           welcomed  == Direct(informed, Welcome(d.sequence_num, Self(n)), d.from)
       IN  /\ SetOut(n, Broadcast(welcomed, MemberList(<<new>>), members[n]))
           /\ members' = [members EXCEPT ![n] = cluster_member_set_put(@, <<new>>)]
    /\ UNCHANGED <<state, uid, data_version, data_log, data_counter,
                   gossip_age, delivered, published>>

gossip_handle_hello(n, d) ==
    /\ Read(n, d, "HELLO")
    /\ state[n] = "CONNECTED"
    /\ LET new       == d.msg.this_member
           welcomed  == Direct(out[n], Welcome(d.sequence_num, Self(n)), d.from)
           informed  == gossip_enqueue_member_list(welcomed, members[n].set, d.from)
       IN  /\ SetOut(n, Broadcast(informed, MemberList(<<new>>), members[n]))
           /\ members' = [members EXCEPT ![n] = cluster_member_set_put(@, <<new>>)]
    /\ UNCHANGED <<state, uid, data_version, data_log, data_counter,
                   gossip_age, delivered, published>>

\* Mutant: a WELCOME is ignored when its HELLO has left the queue.
HandleAwaitedWelcome(n, d) ==
    /\ Read(n, d, "WELCOME")
    /\ IF \E e \in out[n].queue : e.sequence_num = d.msg.hello_sequence_num
       THEN /\ state' = [state EXCEPT ![n] = "CONNECTED"]
            /\ members' = [members EXCEPT ![n] =
                              cluster_member_set_put(@, <<d.msg.this_member>>)]
            /\ out' = [out EXCEPT ![n].queue =
                          gossip_envelope_remove(@, d.msg.hello_sequence_num)]
       ELSE UNCHANGED <<state, members, out>>
    /\ UNCHANGED <<uid, data_version, data_log, data_counter, gossip_age,
                   delivered, published>>

gossip_handle_welcome(n, d) ==
    /\ Read(n, d, "WELCOME")
    /\ state' = [state EXCEPT ![n] = "CONNECTED"]
    /\ members' = [members EXCEPT ![n] =
                      cluster_member_set_put(@, <<d.msg.this_member>>)]
    /\ out' = [out EXCEPT ![n].queue =
                  gossip_envelope_remove(@, d.msg.hello_sequence_num)]
    /\ UNCHANGED <<uid, data_version, data_log, data_counter, gossip_age,
                   delivered, published>>

gossip_handle_member_list(n, d) ==
    /\ Read(n, d, "MEMBER_LIST")
    /\ state[n] = "CONNECTED"
    /\ members' = [members EXCEPT ![n] = cluster_member_set_put(@, d.msg.members)]
    /\ SetOut(n, Direct(out[n], Ack(d.sequence_num), d.from))
    /\ UNCHANGED <<state, uid, data_version, data_log, data_counter,
                   gossip_age, delivered, published>>

\* The message is acknowledged in any case; only news is logged, handed to the
\* application and passed on.
gossip_handle_data(n, d) ==
    /\ Read(n, d, "DATA")
    /\ state[n] = "CONNECTED"
    /\ LET r     == d.msg.record
           acked == Direct(out[n], Ack(d.sequence_num), d.from)
           news  == vector_clock_compare_with_record(data_version[n], r) = "BEFORE"
       IN  /\ data_version' = [data_version EXCEPT ![n] = MergeRecord(@, r)]
           /\ \/ /\ news
                 /\ data_log' = [data_log EXCEPT ![n] = SetRecord(@, r, DATA_LOG_SIZE)]
                 /\ delivered' = [delivered EXCEPT ![n] = Append(@, r)]
                 /\ \E o \in Random(acked, d.msg, members[n]) : SetOut(n, o)
              \/ /\ ~news
                 /\ SetOut(n, acked)
                 /\ UNCHANGED <<data_log, delivered>>
    /\ UNCHANGED <<state, uid, members, data_counter, gossip_age, published>>

gossip_handle_ack(n, d) ==
    /\ Read(n, d, "ACK")
    /\ state[n] = "CONNECTED"
    /\ out' = [out EXCEPT ![n].queue =
                  gossip_envelope_remove(@, d.msg.ack_sequence_num)]
    /\ UNCHANGED <<state, uid, members, data_version, data_log, data_counter,
                   gossip_age, delivered, published>>

\* A status is answered with what its sender lacks, and with the own status
\* when this node lacks something; the second is skipped when the first fails.
gossip_handle_status(n, d) ==
    /\ Read(n, d, "STATUS")
    /\ state[n] = "CONNECTED"
    /\ LET theirs == [records |-> d.msg.records, current_idx |-> 0]
           res    == vector_clock_compare(data_version[n], theirs)
           acked  == Direct(out[n], Ack(d.sequence_num), d.from)
           relayed == gossip_enqueue_data_log(acked, data_log[n], theirs, d.from)
           Ask(o) == Direct(o, Status(data_version[n]), d.from)
       IN  SetOut(n, CASE res = "AFTER" -> relayed.out
                       [] res = "BEFORE" -> Ask(acked)
                       [] res = "CONFLICT" -> IF relayed.failed THEN relayed.out
                                              ELSE Ask(relayed.out)
                       [] OTHER -> acked)
    /\ UNCHANGED <<state, uid, members, data_version, data_log, data_counter,
                   gossip_age, delivered, published>>

\* Before the welcome, everything else is read and refused.
RefuseUntilWelcome(n, d) ==
    /\ \E type \in {"HELLO", "MEMBER_LIST", "DATA", "ACK", "STATUS"} :
           Read(n, d, type)
    /\ state[n] # "CONNECTED"
    /\ UNCHANGED nodeVars

-----------------------------------------------------------------------------
(* The environment *)

Lose(d) == Spend("lose") /\ network' = network (-) SetToBag({d})
           /\ UNCHANGED nodeVars

Duplicate(d) == Spend("duplicate") /\ network' = network (+) SetToBag({d})
                /\ UNCHANGED nodeVars

\* A process ends, by pittacus_gossip_destroy or a crash, and another one is
\* created at its address: nothing is kept.  Its uid is the time in seconds, which
\* the code lets be the same.
pittacus_gossip_init(n) ==
    /\ n \in Restarting
    /\ state[n] # "INITIALIZED"
    /\ Spend("restart")
    /\ state' = [state EXCEPT ![n] = "INITIALIZED"]
    /\ \E u \in uid[n] + Pause .. MaxUid : uid' = [uid EXCEPT ![n] = u]
    /\ members' = [members EXCEPT ![n] = cluster_member_set_init]
    /\ data_version' = [data_version EXCEPT ![n] = Table]
    /\ data_log' = [data_log EXCEPT ![n] = Table]
    /\ data_counter' = [data_counter EXCEPT ![n] = 0]
    /\ out' = [out EXCEPT ![n] = EmptyOut]
    /\ gossip_age' = [gossip_age EXCEPT ![n] = GOSSIP_TICK_INTERVAL]
    /\ delivered' = [delivered EXCEPT ![n] = <<>>]
    /\ UNCHANGED <<published, network>>

TimePasses ==
    /\ out' = [n \in Node |-> [out[n] EXCEPT !.queue = Elapse(@, 1)]]
    /\ gossip_age' = [n \in Node |-> Min({gossip_age[n] + 1, GOSSIP_TICK_INTERVAL})]
    /\ UNCHANGED <<state, uid, members, data_version, data_log, data_counter,
                   delivered, published, network, left>>

gossip_handle_new_message(n, d) ==
    \/ gossip_handle_hello(n, d)
    \/ gossip_handle_welcome(n, d)
    \/ gossip_handle_member_list(n, d)
    \/ gossip_handle_data(n, d)
    \/ gossip_handle_ack(n, d)
    \/ gossip_handle_status(n, d)

Receive(n) ==
    \E d \in BagToSet(network) :
        gossip_handle_new_message(n, d) \/ RefuseUntilWelcome(n, d)

Next ==
    \/ \E n \in Node :
          \/ pittacus_gossip_join(n)
          \/ \E data \in Payload : pittacus_gossip_send_data(n, data)
          \/ pittacus_gossip_tick(n)
          \/ pittacus_gossip_process_send(n)
          \/ Receive(n)
          \/ pittacus_gossip_init(n)
    \/ \E d \in BagToSet(network) : Lose(d) \/ Duplicate(d)
    \/ TimePasses

Spec == Init /\ [][Next]_vars

\* A datagram for n leaves the network and is not lost: a Receive(n) step, told
\* by what it does to the network.  Every handler accepts every datagram, so
\* the two are enabled together, except where only MaxSeq disables a handler:
\* behaviours that need more envelopes are not considered.
Reads(n) ==
    /\ state[n] # "INITIALIZED"
    /\ \E d \in BagToSet(network) : d.to = n /\ network' = network (-) SetToBag({d})
    /\ UNCHANGED left

\* Every application joins, and then keeps calling process_send and, while
\* there are datagrams to read, process_receive; time goes on.
Fairness ==
    /\ \A n \in Node : /\ WF_vars(pittacus_gossip_join(n))
                       /\ WF_vars(pittacus_gossip_process_send(n))
                       /\ WF_network(Reads(n))
    /\ WF_vars(TimePasses)

FairSpec == Spec /\ Fairness

-----------------------------------------------------------------------------
(* Properties *)

Versions(table) ==
    {<<table.records[i].member_id, table.records[i].sequence_number>> :
        i \in DOMAIN table.records}

TypeOK ==
    /\ state \in [Node -> {"INITIALIZED", "JOINING", "CONNECTED", "DESTROYED"}]
    /\ \A n \in Node :
          /\ uid[n] \in 0 .. MaxUid
          /\ \A i \in DOMAIN members[n].set : members[n].set[i] \in Member
          /\ Len(data_version[n].records) <= MAX_VECTOR_SIZE
          /\ Len(data_log[n].records) <= DATA_LOG_SIZE
          /\ data_counter[n] \in 0 .. Budget["payload"]
          /\ out[n].sequence_num \in 0 .. MaxSeq
          /\ \A e \in out[n].queue : /\ e.sequence_num \in 1 .. out[n].sequence_num
                                     /\ e.buffer \in Buffers
                                     /\ e.attempt_num < e.max_attempts + 1
          /\ gossip_age[n] \in 0 .. GOSSIP_TICK_INTERVAL
    /\ \A d \in BagToSet(network) : d.from \in Node /\ d.to \in Node
    /\ \A what \in DOMAIN left : left[what] \in 0 .. Budget[what]

\* A node can hand on exactly what its clock says it has: the log holds the
\* versions of the clock, as long as both tables have room for all originators.
LogMatchesClock == \A n \in Node : Versions(data_log[n]) = Versions(data_version[n])

\* Node n has this many payloads of originator id: the number of the latest.
Known(n, id) ==
    LET i == FindById(data_version[n], id)
    IN  IF i = 0 THEN 0 ELSE data_version[n].records[i].sequence_number

Abstract ==
    INSTANCE Dissemination WITH
        Id   <- Ids,
        self <- [n \in Node |-> vector_clock_create_member_id(Self(n))]

\* Every step of the cluster is a step of Dissemination, or nothing to the
\* applications: whatever is resent, relayed, duplicated or reordered, the data
\* receiver of gossip_handle_data is called with a subsequence of what each
\* other originator gave to send_data.
Disseminates == Abstract!Spec

\* The data receiver is called once per payload and never with an older
\* payload of an originator after a newer one.
DeliveredOnceInOrder == Abstract!DeliveredOnceInOrder

\* A version names one payload in the whole cluster.
VersionIdentifiesPayload ==
    LET Logged == UNION {ToSet(data_log[n].records) : n \in Node}
    IN  \A r, s \in Logged :
           /\ r.member_id = s.member_id
           /\ r.sequence_number = s.sequence_number
           => r.data = s.data

\* No member is in the array twice and none is written past its end, however
\* often members announce themselves, disappear and come back.
MembersFit ==
    \A n \in Node :
        /\ \A i, j \in DOMAIN members[n].set :
              members[n].set[i] = members[n].set[j] => i = j
        /\ Len(members[n].set) <= members[n].capacity

\* If the acknowledgement d is about to remove the envelope of a DATA message, then
\* the recipient of the envelope has the version of that message or a later one (or
\* has been restarted and knows nothing any more).
AcknowledgesKnown(d) ==
    \A e \in out[d.to].queue :
        /\ e.sequence_num = d.msg.ack_sequence_num
        /\ e.message.type = "DATA"
        => \/ uid[e.recipient] > 0
           \/ vector_clock_compare_with_record(
                  data_version[e.recipient], e.message.record) # "BEFORE"

\* As long as no clock tick falls inside a pass, an acknowledgement that reaches the
\* process that was started first at its address removes a DATA message only if the
\* recipient has the payload: the message is not to be sent again, and nobody else will.
AckedDataIsKnown ==
    \A d \in BagToSet(network) :
        d.msg.type = "ACK" /\ uid[d.to] = 0 => AcknowledgesKnown(d)

\* The HELLOs of n that s may still read and the WELCOMEs that n may still read
\* from s.
Chances(n, s) ==
    LET Between(a, b, type) == {d \in BagToSet(network) :
                                   d.from = a /\ d.to = b /\ d.msg.type = type}
        Left(a, b, type) == {e \in out[a].queue :
                                e.recipient = b /\ e.contents.type = type}
        Copies(D)   == MapThenSumSet(LAMBDA d : network[d], D)
        Attempts(Q) == MapThenSumSet(LAMBDA e : e.max_attempts - e.attempt_num, Q)
    IN  Copies(Between(n, s, "HELLO") \cup Between(s, n, "WELCOME"))
          + Attempts(Left(n, s, "HELLO") \cup Left(s, n, "WELCOME"))

\* A node that has called join becomes connected when one of its seeds is, even
\* if that seed refused it before and datagrams get lost, as long as HELLO is
\* retransmitted more often than that.
JoinCompletes ==
    \A n \in Node :
        (/\ state[n] = "JOINING"
         /\ \E s \in ToSet(Seeds[n]) :
               state[s] = "CONNECTED" /\ Chances(n, s) > left["lose"])
        ~> state[n] = "CONNECTED"

\* When the applications do nothing more, nothing is left to be sent: each message is
\* acknowledged, given up or replaced, also when nobody is there to answer it.
FallsSilent ==
    <>[](\A n \in Node : out[n].queue = {})

\* Node n has payload number k of originator id, or a later one.
Knows(n, id, k) == Known(n, id) >= k

\* The status d was sent with payload number k of originator id, or a later
\* one, known.
Tells(d, id, k) ==
    \E i \in DOMAIN d.msg.records :
        /\ d.msg.records[i].member_id = id
        /\ d.msg.records[i].sequence_number >= k

\* The first i records of the log of n fit in a message each: one that does not ends
\* gossip_enqueue_data_log, and gossip_handle_status with it.
Relayable(n, i) == \A j \in 1 .. i : Fits(Data(data_log[n].records[j]))

\* One status message between two nodes is enough for the one that is behind
\* to catch up, once no more datagrams are lost: m is sent what n knows when it reads
\* the status of m, up to the first payload in the log that is too large, and asks for
\* what the status of n tells it, unless its own log has such a payload.
StatusRepairs ==
    \A n, m \in Node : \A id \in Ids : \A k \in 1 .. Budget["payload"] + 1 :
        (/\ left["lose"] = 0
         /\ Relayable(n, FindById(data_log[n], id))
         /\ \E d \in BagToSet(network) :
               /\ d.msg.type = "STATUS"
               /\ \/ d.from = m /\ d.to = n /\ Knows(n, id, k)
                  \/ /\ d.from = n /\ d.to = m /\ Tells(d, id, k)
                     /\ Relayable(m, Len(data_log[m].records)))
        ~> Knows(m, id, k)

\* A node is not its own member: it would send its gossip to itself.
NotOwnMember == \A n \in Node : Self(n) \notin ToSet(members[n].set)

=============================================================================
