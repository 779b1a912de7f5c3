------------------------------ MODULE Messages ------------------------------
(***************************************************************************)
(* The messages nodes exchange (src/src/messages.h).  A member is a record *)
(* with its address and uid, a version one with member_id and              *)
(* sequence_number; the sequence number of a message is not part of it, it *)
(* belongs to the envelope.                                                *)
(***************************************************************************)
EXTENDS Integers, SequencesExt

Hello(m)       == [type |-> "HELLO", this_member |-> m]
Welcome(s, m)  == [type |-> "WELCOME", hello_sequence_num |-> s, this_member |-> m]
MemberList(ms) == [type |-> "MEMBER_LIST", members |-> ms]
Data(r)        == [type |-> "DATA", record |-> r]
Ack(s)         == [type |-> "ACK", ack_sequence_num |-> s]
Status(c)      == [type |-> "STATUS", records |-> c.records]

\* A record of the data log: a version and its payload.
DataRecord(id, n, d) == [member_id |-> id, sequence_number |-> n, data |-> d]

\* A list of members cut in lists of size members and a shorter one.
Chunks(ms, size) ==
    [i \in 1 .. (Len(ms) + size - 1) \div size |->
        SubSeq(ms, (i - 1) * size + 1, Min({i * size, Len(ms)}))]

=============================================================================
