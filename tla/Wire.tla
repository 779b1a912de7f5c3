-------------------------------- MODULE Wire --------------------------------
(***************************************************************************)
(* The outbound queue of one node with the bytes in its output buffers     *)
(* (src/src/gossip.c, gossip_enqueue_message to                            *)
(* pittacus_gossip_process_send): a message is encoded once for all its    *)
(* recipients; each transmission writes the sequence number of its         *)
(* envelope over the one in the shared buffer and sends as many bytes as   *)
(* the message of the envelope had.  A buffer that is used again keeps     *)
(* what the shorter message does not cover.                                *)
(***************************************************************************)
EXTENDS Outbound, Encoding

CONSTANTS
    MAX_VECTOR_SIZE,  \* records of a full clock          (20)
    Message,          \* the messages that are offered
    Recipients,       \* the lists of recipients
    MaxSeq            \* bound on the envelopes

\* The messages a node sends.
Member == [address : DOMAIN AddressLen, uid : Nat]
Version == [member_id : Nat, sequence_number : Nat]

ProtocolMessage ==
    [type : {"HELLO"}, this_member : Member]
    \cup [type : {"WELCOME"}, hello_sequence_num : Nat, this_member : Member]
    \cup [type : {"MEMBER_LIST"}, members : Seq(Member)]
    \cup [type : {"DATA"}, record : [member_id : Nat, sequence_number : Nat,
                                    data : DOMAIN DataSize]]
    \cup [type : {"ACK"}, ack_sequence_num : Nat]
    \cup [type : {"STATUS"}, records : Seq(Version)]

ASSUME MessageAssumption ==
    \A msg \in Message :
        /\ msg \in ProtocolMessage
        /\ msg.type = "MEMBER_LIST" => Len(msg.members) <= MEMBER_LIST_SYNC_SIZE
        /\ msg.type = "STATUS" => Len(msg.records) <= MAX_VECTOR_SIZE
ASSUME RecipientsAssumption == \A rs \in Recipients : rs \in Seq(ToSet(rs))
ASSUME MaxVectorSizeAssumption == MAX_VECTOR_SIZE \in Nat

VARIABLES
    out,              \* the outbound queue and sequence_num
    output_buffer,    \* the bytes of each buffer
    datagrams,        \* history: what the last step handed to the socket
    refused           \* history: what the last step could not encode

vars == <<out, output_buffer, datagrams, refused>>

Init ==
    /\ out = [queue |-> {}, sequence_num |-> 0]
    /\ output_buffer = [b \in Buffers |-> <<>>]
    /\ datagrams = {}
    /\ refused = {}

\* HELLO, WELCOME and ACK are for one recipient (GOSSIP_DIRECT), the others may
\* have any number of them.
Submit(msg, recipients) ==
    /\ out.sequence_num + Len(recipients) <= MaxSeq
    /\ msg.type \in {"HELLO", "WELCOME", "ACK"} => Len(recipients) = 1
    /\ out' = gossip_enqueue_message(out, msg, Encodable(msg),
                                     MaxAttempts(msg.type), recipients)
    /\ LET b == gossip_find_available_output_buffer(out.queue).buffer
       IN  output_buffer' = IF Encodable(msg)
                            THEN [output_buffer EXCEPT ![b] = Write(@, Fields(msg), 0)]
                            ELSE output_buffer
    /\ refused' = IF Encodable(msg) THEN {} ELSE {msg}
    /\ datagrams' = {}

Acknowledge(seq) ==
    /\ out' = [out EXCEPT !.queue = gossip_envelope_remove(@, seq)]
    /\ datagrams' = {} /\ refused' = {}
    /\ UNCHANGED output_buffer

\* Mutant: the sequence number is written before the first attempt only.
PatchedOnce(buffer, e) ==
    IF e.attempt_num = 0 THEN Write(buffer, <<Field(4, e.sequence_num)>>, 8) ELSE buffer

\* The buffer of an envelope that is about to be sent.
Patched(buffer, e) == Write(buffer, <<Field(4, e.sequence_num)>>, 8)

Datagram(buffer, e) ==
    [sequence_num |-> e.sequence_num,
     intact       |-> e.contents = e.message,
     msg          |-> e.message,
     size         |-> EncodedSize(e.message),
     bytes        |-> Prefix(buffer, EncodedSize(e.message))]

\* Envelope e is handed to the socket; at stop the write fails, but the number has
\* been written into the buffer.
Hand(p, e, stop) ==
    LET buffer == Patched(p.buffers[e.buffer], e)
    IN  [buffers |-> [p.buffers EXCEPT ![e.buffer] = buffer],
         sent    |-> IF e.sequence_num = stop THEN p.sent
                     ELSE p.sent \cup {Datagram(buffer, e)}]

\* The due envelopes are handed to the socket in list order.  The clock stands still
\* during a pass here: what a tick inside one does is the subject of OutboundQueue.
ProcessSend(stop) ==
    LET q         == out.queue
        now       == [e \in q |-> 0]
        At(s)     == {e \in Due(q, now) : e.sequence_num = s}
        Visit(p, s) == IF At(s) = {} THEN p ELSE Hand(p, CHOOSE e \in At(s) : TRUE, stop)
        pass      == FoldLeft(Visit, [buffers |-> output_buffer, sent |-> {}],
                              [s \in 1 .. stop |-> s])
    IN  /\ out' = [out EXCEPT !.queue = AfterPass(q, now, 0, stop)]
        /\ output_buffer' = pass.buffers
        /\ datagrams' = pass.sent
        /\ refused' = {}

pittacus_gossip_process_send ==
    \/ ProcessSend(out.sequence_num + 1)
    \/ \E e \in Due(out.queue, [x \in out.queue |-> 0]) : ProcessSend(e.sequence_num)

TimePasses ==
    /\ out' = [out EXCEPT !.queue = Elapse(@, 1)]
    /\ datagrams' = {} /\ refused' = {}
    /\ UNCHANGED output_buffer

Next ==
    \/ \E msg \in Message, recipients \in Recipients : Submit(msg, recipients)
    \/ \E e \in out.queue : Acknowledge(e.sequence_num)
    \/ pittacus_gossip_process_send
    \/ TimePasses

Spec == Init /\ [][Next]_vars

-----------------------------------------------------------------------------
(* Properties *)

\* The receiver of a datagram reads the message of the envelope, with the
\* envelope's own sequence number, although its buffer is shared with other
\* envelopes, has been written for each of them and may have been used for a
\* longer message before: as long as the buffer has not been given to another
\* message meanwhile (OutboundQueueAliasing).
WireCarriesContents ==
    \A d \in datagrams :
        d.intact => Decode(d.bytes, d.size) =
                        {[sequence_num |-> d.sequence_num, msg |-> d.msg]}

\* Of what the protocol sends, only a payload can be too large for a buffer: a
\* full MEMBER_LIST and the status of a full clock are not, although
\* MEMBER_LIST_SYNC_SIZE leaves no room for the header.  What is accepted stays
\* within its buffer.
OnlyDataIsRefused ==
    /\ \A msg \in refused :
          msg.type = "DATA" /\ DataSize[msg.record.data] > MESSAGE_MAX_SIZE - 26
    /\ \A b \in Buffers : \A o \in DOMAIN output_buffer[b] :
          o + output_buffer[b][o].width <= MESSAGE_MAX_SIZE

=============================================================================
