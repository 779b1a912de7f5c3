--------------------------- MODULE Dissemination ---------------------------
(***************************************************************************)
(* What the library promises its applications, without messages, queues or *)
(* clocks: what the data receiver of a node is called with is, for every   *)
(* originator, a subsequence of what that originator sent.  Payloads may   *)
(* be skipped (only the latest one of an originator is handed on), none    *)
(* comes twice, late, altered, or back to the node that sent it.           *)
(*                                                                         *)
(* Gossip implements this specification (Gossip!Disseminates).             *)
(***************************************************************************)
EXTENDS Integers, Sequences

CONSTANTS
    Node,       \* the addresses
    Id,         \* the ids under which nodes publish
    Payload

VARIABLES
    self,        \* the id of the process that now runs at an address
    published,   \* the payloads of each id, in order
    delivered    \* what the data receiver of each node was called with

vars == <<self, published, delivered>>

Version(id, k, data) == [member_id |-> id, sequence_number |-> k, data |-> data]

Delivery == [member_id : Id, sequence_number : Nat, data : Payload]

TypeOK ==
    /\ self \in [Node -> Id]
    /\ published \in [Id -> Seq(Payload)]
    /\ delivered \in [Node -> Seq(Delivery)]

\* No two processes publish under one id.
Init ==
    /\ self \in [Node -> Id]
    /\ \A n, m \in Node : self[n] = self[m] => n = m
    /\ published = [id \in Id |-> <<>>]
    /\ delivered = [n \in Node |-> <<>>]

Publish(n, data) ==
    /\ published' = [published EXCEPT ![self[n]] = Append(@, data)]
    /\ UNCHANGED <<self, delivered>>

\* News of another originator, from wherever: possibly not the next payload,
\* never one that is not newer.
Deliver(n, id, k) ==
    /\ id # self[n]
    /\ \A i \in DOMAIN delivered[n] :
          delivered[n][i].member_id = id => delivered[n][i].sequence_number < k
    /\ delivered' = [delivered EXCEPT ![n] =
                        Append(@, Version(id, k, published[id][k]))]
    /\ UNCHANGED <<self, published>>

\* A new process at the address of an old one knows nothing, and publishes
\* under an id that nobody has used.
Restart(n, id) ==
    /\ self' = [self EXCEPT ![n] = id]
    /\ published[id] = <<>>
    /\ \A m \in Node \ {n} : self[m] # id
    /\ delivered' = [delivered EXCEPT ![n] = <<>>]
    /\ UNCHANGED published

Next ==
    \E n \in Node :
        \/ \E data \in Payload : Publish(n, data)
        \/ \E id \in Id : \/ Restart(n, id)
                          \/ \E k \in 1 .. Len(published[id]) : Deliver(n, id, k)

Spec == Init /\ [][Next]_vars

-----------------------------------------------------------------------------
(* Properties *)

\* The data receiver is called once per payload and never with an older
\* payload of an originator after a newer one.
DeliveredOnceInOrder ==
    \A n \in Node : \A i, j \in DOMAIN delivered[n] :
        /\ i < j
        /\ delivered[n][i].member_id = delivered[n][j].member_id
        => delivered[n][i].sequence_number < delivered[n][j].sequence_number

\* It is called with what the originator sent under that number, and never
\* with a payload of its own node.
DeliveredAsPublished ==
    \A n \in Node : \A i \in DOMAIN delivered[n] :
        LET v == delivered[n][i]
        IN  /\ v.member_id # self[n]
            /\ v.sequence_number \in 1 .. Len(published[v.member_id])
            /\ v.data = published[v.member_id][v.sequence_number]

=============================================================================
