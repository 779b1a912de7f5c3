------------------------------- MODULE MCWire -------------------------------
(* Wire for TLC, with the sizes of the default configuration. *)
EXTENDS Wire

CONSTANTS v4, v6, p1, p486, p487

Lengths == [a \in {v4, v6} |-> IF a = v4 THEN 16 ELSE 28]

Sizes == [p \in {NULL, p1, p486, p487} |->
             CASE p = NULL -> 0 [] p = p1 -> 1 [] p = p486 -> 486 [] p = p487 -> 487]

MemberAt(a, u) == [address |-> a, uid |-> u]

Known == <<MemberAt(v4, 1), MemberAt(v6, 1), MemberAt(v4, 2), MemberAt(v6, 2)>>

\* The ids of originators are some 8-byte values.
Clock(size) == [records |-> [i \in 1 .. size |->
                    [member_id |-> 100 + i, sequence_number |-> i]]]

\* All kinds of messages: both address families, the lists a node with four
\* members sends, an empty, a short and a full clock, and payloads around the
\* limit.
Offered ==
    {Hello(MemberAt(v6, 1)), Welcome(7, MemberAt(v4, 2)), Ack(9)}
    \cup {MemberList(c) : c \in ToSet(Chunks(Known, MEMBER_LIST_SYNC_SIZE))}
    \cup {Data(DataRecord(101, 3, p)) : p \in {NULL, p1, p486, p487}}
    \cup {Status(Clock(n)) : n \in {0, 1, MAX_VECTOR_SIZE}}

Lists == {<<>>, <<v4>>, <<v4, v6>>}

=============================================================================
