------------------------------ MODULE MCGossip ------------------------------
(***************************************************************************)
(* Gossip for TLC: small clusters that start from scratch, or that have    *)
(* just been formed.                                                       *)
(***************************************************************************)
EXTENDS Gossip

CONSTANTS n1, n2, n3

\* n1 stands by itself, the others join through it.
Star == [n \in Node |-> IF n = n1 THEN <<>> ELSE <<n1>>]

\* n3 joins through n2, which has to join through n1 itself.
Chain == [n \in Node |-> IF n = n1 THEN <<>> ELSE IF n = n2 THEN <<n1>> ELSE <<n2>>]

\* The bounds of a run.
Bounds(payload, tick, fail, lose, duplicate, restart) ==
    [payload |-> payload, tick |-> tick, fail |-> fail, lose |-> lose,
     duplicate |-> duplicate, restart |-> restart]

JoinBudget     == Bounds(0, 0, 0, 1, 0, 0)
StatusBudget   == Bounds(0, 1, 0, 0, 0, 0)
RetryBudget    == Bounds(2, 0, 1, 0, 1, 1)
SpreadBudget   == Bounds(2, 0, 0, 0, 0, 1)

-----------------------------------------------------------------------------
(* A cluster that has been formed *)

First(n) == [address |-> n, uid |-> 0]

\* Connected are the nodes In.  ms lists the members each node knows in the order it
\* was told of them, log the payloads it has, the first of their originators.
Formed(In, u, ms, log) ==
    /\ state = [n \in Node |-> IF n \in In THEN "CONNECTED" ELSE "DESTROYED"]
    /\ uid = u
    /\ members = [n \in Node |->
           FoldLeft(LAMBDA set, m : cluster_member_set_put(set, <<m>>),
                    cluster_member_set_init, ms[n])]
    /\ data_version = [n \in Node |->
           FoldLeft(LAMBDA t, r : vector_clock_set(t, r.member_id, 1), Table, log[n])]
    /\ data_log = [n \in Node |->
           FoldLeft(LAMBDA t, r : SetRecord(t, r, DATA_LOG_SIZE), Table, log[n])]
    /\ data_counter = [n \in Node |->
           IF \E r \in ToSet(log[n]) : r.member_id = <<n, u[n] \div UidSpan>>
           THEN 1 ELSE 0]
    /\ gossip_age = [n \in Node |-> GOSSIP_TICK_INTERVAL]
    /\ delivered = [n \in Node |->
           SelectSeq(log[n], LAMBDA r : r.member_id # <<n, u[n] \div UidSpan>>)]
    /\ published = [id \in Ids |->
           LET Of == {r \in UNION {ToSet(log[n]) : n \in Node} : r.member_id = id}
           IN  IF Of = {} THEN <<>> ELSE <<(CHOOSE r \in Of : TRUE).data>>]

\* Each node has sent seq[n] messages, which have been handled or got lost.
Quiet(seq) ==
    /\ out = [n \in Node |-> [queue |-> {}, sequence_num |-> seq[n]]]
    /\ network = EmptyBag

Start == [n \in Node |-> 0]

Nothing == [n \in Node |-> <<>>]

\* n2 sends HELLO, n1 sends WELCOME; ...
Both == [n \in Node |-> IF n = n1 THEN <<First(n2)>>
                        ELSE IF n = n2 THEN <<First(n1)>> ELSE <<>>]

\* ... n2 sends STATUS, n1 acknowledges; ...
Pair == Formed({n1, n2}, Start, Both, Nothing) /\ Quiet([n \in Node |-> 2])

\* ... n1 sends STATUS, n2 acknowledges, ...
PairOfThree == Formed({n1, n2}, Start, Both, Nothing) /\ Quiet([n \in Node |-> 3])

\* ... and then the DATA of one or both, or of neither, gets lost.
Apart ==
    \E log \in [Node -> {<<>>} \cup {<<p>> : p \in Payload}] :
        LET Own(n) == [i \in DOMAIN log[n] |-> DataRecord(<<n, 0>>, 1, log[n][i])]
        IN  /\ \A n \in Node \ {n1, n2} : log[n] = <<>>
            /\ Formed({n1, n2}, Start, Both, [n \in Node |-> Own(n)])
            /\ Quiet([n \in Node |-> 3 + Len(log[n])])

\* Or else the first process of n2 sends a payload, n1 acknowledges it and sends a
\* status, and the process ends.  The second one joins; n1 sends WELCOME and two lists,
\* one with the first process and one with the second, which get lost.  Then n1 takes a
\* payload that is too large.  n2 has just taken one too, and its message has the number
\* that the acknowledgement of n1, which is still on its way, is for.
Reborn ==
    LET second == [address |-> n2, uid |-> 1]
        old    == DataRecord(<<n2, 0>>, 1, CHOOSE p \in Payload \ Oversized : TRUE)
    IN  \E p \in Oversized, q \in Payload \ Oversized :
        LET own == DataRecord(<<n1, 0>>, 1, p)
            new == DataRecord(<<n2, 1>>, 1, q)
        IN  /\ Formed({n1, n2}, [Start EXCEPT ![n2] = 1],
                      [Both EXCEPT ![n1] = <<First(n2), second>>],
                      [n \in Node |-> CASE n = n1 -> <<old, own>>
                                        [] n = n2 -> <<new>>
                                        [] OTHER  -> <<>>])
            /\ out = [n \in Node |->
                   CASE n = n1 -> [queue |-> {}, sequence_num |-> 6]
                     [] n = n2 -> Direct([queue |-> {}, sequence_num |-> 1], Data(new), n1)
                     [] OTHER  -> EmptyOut]
            /\ network = SetToBag({[from |-> n1, to |-> n2, sequence_num |-> 2,
                                    msg |-> Ack(2)]})

\* n3 joins n1 and n2: it sends HELLO, n1 sends WELCOME, the list of n2 to n3 and that
\* of n3 to n2, who both acknowledge.
Trio ==
    /\ Formed({n1, n2, n3}, Start,
              [n \in Node |-> IF n = n1 THEN <<First(n2), First(n3)>>
                              ELSE IF n = n2 THEN <<First(n1), First(n3)>>
                              ELSE <<First(n1), First(n2)>>], Nothing)
    /\ Quiet([n \in Node |-> IF n = n1 THEN 4 ELSE 2])

\* Three nodes; or two, of which one may be restarted.
SpreadSpec ==
    /\ \/ Trio /\ left = [Budget EXCEPT !["restart"] = 0]
       \/ Pair /\ left = Budget
    /\ [][Next]_vars

PairSpec == Pair /\ left = Budget /\ [][Next]_vars

\* A write fails and a datagram is duplicated, or a node is restarted.
RetrySpec ==
    /\ \/ PairOfThree /\ left = [Budget EXCEPT !["restart"] = 0]
       \/ PairOfThree /\ left = [Budget EXCEPT !["fail"] = 0, !["duplicate"] = 0]
    /\ [][Next]_vars

FairStatusSpec == (Apart \/ Reborn) /\ left = Budget /\ [][Next]_vars /\ Fairness

-----------------------------------------------------------------------------
(* A cluster that is being formed *)

\* A chain: n2 has sent HELLO twice, one got lost, n1 has handled the other and sent
\* WELCOME, which n2 has not read.  n3 has not been started.
Welcomed ==
    LET hello == NewEnvelope(1, n1, 0, Hello(First(n2)), MESSAGE_RETRY_ATTEMPTS)
    IN  /\ state = [n \in Node |-> CASE n = n1 -> "CONNECTED"
                                      [] n = n2 -> "JOINING"
                                      [] OTHER  -> "INITIALIZED"]
        /\ uid = Start
        /\ members = [n \in Node |->
               IF n = n1 THEN cluster_member_set_put(cluster_member_set_init,
                                                     <<First(n2)>>)
                         ELSE cluster_member_set_init]
        /\ data_version = [n \in Node |-> Table]
        /\ data_log = [n \in Node |-> Table]
        /\ data_counter = [n \in Node |-> 0]
        /\ out = [n \in Node |->
               CASE n = n1 -> [EmptyOut EXCEPT !.sequence_num = 1]
                 [] n = n2 -> [queue |-> {Attempted(Attempted(hello, 0), 0)},
                               sequence_num |-> 1]
                 [] OTHER  -> EmptyOut]
        /\ gossip_age = [n \in Node |-> GOSSIP_TICK_INTERVAL]
        /\ delivered = Nothing
        /\ published = [i \in Ids |-> <<>>]
        /\ network = SetToBag({[from |-> n1, to |-> n2, sequence_num |-> 1,
                                msg |-> Welcome(1, First(n1))]})

\* n2 joins n1, which is there or has ended before, while there is no n3; or n3 joins
\* through n2, which is still joining, and nothing more gets lost.
FairJoinSpec ==
    /\ \/ /\ state \in {[n \in Node |-> IF n \in Gone THEN "DESTROYED" ELSE "INITIALIZED"] :
                           Gone \in {{n3}, {n1, n3}}}
          /\ EmptyNodes
          /\ left = Budget
       \/ /\ Welcomed
          /\ left = [Budget EXCEPT !["lose"] = 0]
    /\ [][Next]_vars
    /\ Fairness

Symmetry == Permutations(Payload)

=============================================================================
