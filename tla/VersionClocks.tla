--------------------------- MODULE VersionClocks ---------------------------
(***************************************************************************)
(* The version clocks of a group of nodes.  Every node numbers its own     *)
(* payloads and merges single records (DATA messages) and whole clocks     *)
(* (vector_clock_compare with merge) of the others.  The clock operators   *)
(* are compared with the order they stand for: a clock is a function from  *)
(* originators to numbers, 0 where it has no record.                       *)
(***************************************************************************)
EXTENDS VectorClock

CONSTANTS
    Node,         \* the nodes; a node is its own member id
    MaxCounter    \* bound on the payloads of one node

ASSUME MaxCounterAssumption == MaxCounter \in Nat

VARIABLES
    clock,     \* clock[n] is data_version of node n
    counter    \* counter[n] is data_counter of node n

vars == <<clock, counter>>

Clocks == [records : Seq([member_id : Node, sequence_number : 0 .. MaxCounter]),
           current_idx : 0 .. MAX_VECTOR_SIZE - 1]

TypeOK ==
    /\ \A n \in Node : /\ clock[n] \in Clocks
                       /\ Len(clock[n].records) <= MAX_VECTOR_SIZE
    /\ counter \in [Node -> 0 .. MaxCounter]

Init ==
    /\ clock = [n \in Node |-> Table]
    /\ counter = [n \in Node |-> 0]

\* A payload of node n (gossip_enqueue_data).
Publish(n) ==
    /\ counter[n] < MaxCounter
    /\ counter' = [counter EXCEPT ![n] = @ + 1]
    /\ clock' = [clock EXCEPT ![n] = vector_clock_set(@, n, counter[n] + 1)]

\* The same by vector_clock_increment, for a node that has a record of its own.
PublishByIncrement(n) ==
    /\ counter[n] < MaxCounter
    /\ Has(clock[n], n)
    /\ counter' = [counter EXCEPT ![n] = @ + 1]
    /\ clock' = [clock EXCEPT ![n] = vector_clock_increment(@, n)]

\* The payload with one of m's records reaches n (gossip_handle_data).
LearnRecord(n, m) ==
    /\ \E i \in DOMAIN clock[m].records :
          clock' = [clock EXCEPT ![n] = MergeRecord(@, clock[m].records[i])]
    /\ UNCHANGED counter

\* n merges the whole clock of m.
LearnClock(n, m) ==
    /\ clock' = [clock EXCEPT ![n] = Merge(@, clock[m])]
    /\ UNCHANGED counter

Learn == \E n \in Node : \E m \in Node \ {n} :
             LearnRecord(n, m) \/ LearnClock(n, m)

Next == Learn \/ \E n \in Node : Publish(n) \/ PublishByIncrement(n)

Spec == Init /\ [][Next]_vars

-----------------------------------------------------------------------------
(* Properties *)

\* The number clock c has for originator id.
Count(c, id) == IF Has(c, id) THEN c.records[FindById(c, id)].sequence_number
                ELSE 0

\* The reference for vector_clock_compare: the pointwise order.
Order(a, b) ==
    LET less == \E id \in Node : Count(a, id) < Count(b, id)
        more == \E id \in Node : Count(a, id) > Count(b, id)
    IN  CASE less /\ more -> "CONFLICT"
          [] less /\ ~more -> "BEFORE"
          [] ~less /\ more -> "AFTER"
          [] OTHER -> "EQUAL"

\* vector_clock_compare decides the pointwise order of any two clocks the
\* nodes have, also when records have been overwritten.
CompareIsPointwise ==
    \A n, m \in Node : vector_clock_compare(clock[n], clock[m])
                         = Order(clock[n], clock[m])

\* One record per originator, and new records go to the end of the table
\* until it is full: vector_clock_set_by_id never leaves a gap or a double.
TableShape ==
    \A n \in Node :
        LET rs == clock[n].records
        IN  /\ \A i, j \in DOMAIN rs : rs[i].member_id = rs[j].member_id => i = j
            /\ Len(rs) < MAX_VECTOR_SIZE => clock[n].current_idx = Len(rs)

Ids(c) == {c.records[i].member_id : i \in DOMAIN c.records}

\* Learning never invents a number its originator did not reach, and takes back
\* what a node knew only where vector_clock_set_by_id must overwrite: the table
\* is full, the record is gone altogether, and a newcomer has its slot.
LearnsOnly ==
    [][\A n, id \in Node :
          /\ Count(clock'[n], id) <= counter'[id]
          /\ \/ Count(clock'[n], id) >= Count(clock[n], id)
             \/ /\ id \notin Ids(clock'[n])
                /\ Len(clock'[n].records) = MAX_VECTOR_SIZE
                /\ Ids(clock'[n]) \ Ids(clock[n]) # {}]_vars

\* Merging a whole clock gives the least clock above both, whenever there is a
\* slot for every originator that one of them knows.
MergeIsJoin ==
    \A n, m \in Node :
        Cardinality(Ids(clock[n]) \cup Ids(clock[m])) <= MAX_VECTOR_SIZE =>
          \A id \in Node :
              Count(Merge(clock[n], clock[m]), id)
                = Max({Count(clock[n], id), Count(clock[m], id)})

=============================================================================
