------------------------------ MODULE Encoding ------------------------------
(***************************************************************************)
(* How messages are laid out in buffers and read back (src/src/messages.c, *)
(* the encoders and decoders of member.c and vector_clock.c).              *)
(*                                                                         *)
(* A message is written as a sequence of fields, each a value and its      *)
(* width in bytes.  A buffer is a function: the offset of each readable    *)
(* field to the field.  A field of which a byte has been overwritten is no *)
(* longer there; to read what is not there yields Garbage, whatever the    *)
(* bytes happen to mean.                                                   *)
(***************************************************************************)
EXTENDS Messages

CONSTANTS
    MESSAGE_MAX_SIZE,   \* bytes of an output buffer              (512)
    AddressLen,         \* AddressLen[a]: bytes of address a      (16 or 28)
    DataSize,           \* DataSize[p]: bytes of payload p, below 2^16
    NULL                \* the payload without bytes

\* A datagram has less than 2^16 bytes, so that no count of two bytes wraps.
ASSUME MessageMaxSizeAssumption == MESSAGE_MAX_SIZE \in Nat /\ MESSAGE_MAX_SIZE < 65536
\* From sockaddr_in to pt_sockaddr_storage.
ASSUME AddressLenAssumption == \A a \in DOMAIN AddressLen : AddressLen[a] \in 16 .. 128
ASSUME DataSizeAssumption ==
    \A p \in DOMAIN DataSize : DataSize[p] \in Nat /\ (DataSize[p] = 0 <=> p = NULL)

PROTOCOL_ID == "ptcs"
PROTOCOL_VERSION == 1
Garbage == 0

message_header_size == 12
VECTOR_RECORD_SIZE == 4 + 8

\* sizeof(cluster_member_t) without the pointer, padding included: what HELLO
\* and WELCOME count for the 10 bytes in front of the address.
cluster_member_struct_size == 16

\* The largest member: with an address of sizeof(pt_sockaddr_storage).
CLUSTER_MEMBER_SIZE == 2 + 4 + 4 + 128

\* Mutant: rounded up.
RoundedUpSyncSize ==
    (MESSAGE_MAX_SIZE + CLUSTER_MEMBER_SIZE - 1) \div CLUSTER_MEMBER_SIZE

\* The members in one MEMBER_LIST.
MEMBER_LIST_SYNC_SIZE == MESSAGE_MAX_SIZE \div CLUSTER_MEMBER_SIZE

-----------------------------------------------------------------------------
(* Encoding *)

Field(width, value) == [width |-> width, value |-> value]

message_header_encode(type) ==
    <<Field(5, PROTOCOL_ID), Field(1, type), Field(2, 0), Field(4, 0)>>

cluster_member_encode(m) ==
    LET len == AddressLen[m.address]
    IN  <<Field(2, PROTOCOL_VERSION), Field(4, m.uid), Field(4, len),
          Field(len, m.address)>>

vector_clock_record_encode(r) ==
    <<Field(4, r.sequence_number), Field(8, r.member_id)>>

vector_clock_encode(records) ==
    FoldLeft(LAMBDA fs, r : fs \o vector_clock_record_encode(r),
             <<Field(2, Len(records))>>, records)

\* An encoder: the fields it writes after the header, and the bytes it wants to
\* have for them before it writes anything.  For members that is more than it
\* needs.
message_hello_encode(msg) ==
    [fields   |-> cluster_member_encode(msg.this_member),
     expected |-> cluster_member_struct_size + AddressLen[msg.this_member.address]]

message_welcome_encode(msg) ==
    [fields   |-> <<Field(4, msg.hello_sequence_num)>>
                     \o cluster_member_encode(msg.this_member),
     expected |-> 4 + cluster_member_struct_size
                    + AddressLen[msg.this_member.address]]

message_member_list_encode(msg) ==
    [fields   |-> FoldLeft(LAMBDA fs, m : fs \o cluster_member_encode(m),
                           <<Field(2, Len(msg.members))>>, msg.members),
     expected |-> 2 + Len(msg.members) * CLUSTER_MEMBER_SIZE]

message_data_encode(msg) ==
    LET size == DataSize[msg.record.data]
    IN  [fields   |-> vector_clock_record_encode(msg.record)
                         \o <<Field(2, size), Field(size, msg.record.data)>>,
         expected |-> VECTOR_RECORD_SIZE + 2 + size]

message_ack_encode(msg) ==
    [fields |-> <<Field(4, msg.ack_sequence_num)>>, expected |-> 4]

message_status_encode(msg) ==
    [fields   |-> vector_clock_encode(msg.records),
     expected |-> 2 + Len(msg.records) * VECTOR_RECORD_SIZE]

gossip_encode_message(msg) ==
    CASE msg.type = "HELLO"       -> message_hello_encode(msg)
      [] msg.type = "WELCOME"     -> message_welcome_encode(msg)
      [] msg.type = "MEMBER_LIST" -> message_member_list_encode(msg)
      [] msg.type = "DATA"        -> message_data_encode(msg)
      [] msg.type = "ACK"         -> message_ack_encode(msg)
      [] msg.type = "STATUS"      -> message_status_encode(msg)

Fields(msg) == message_header_encode(msg.type) \o gossip_encode_message(msg).fields

\* Whether the encoder accepts the message.
Encodable(msg) ==
    message_header_size + gossip_encode_message(msg).expected <= MESSAGE_MAX_SIZE

-----------------------------------------------------------------------------
(* Buffers *)

\* The fields of f, and those of g elsewhere.
Over(f, g) == [o \in DOMAIN f \cup DOMAIN g |-> IF o \in DOMAIN f THEN f[o] ELSE g[o]]

\* The next field is placed at the cursor, which moves behind it.
Place(p, f) ==
    [next   |-> p.next + f.width,
     placed |-> IF f.width = 0 THEN p.placed ELSE Over(p.placed, [o \in {p.next} |-> f])]

\* The fields at their offsets, from offset at on.
Placed(fields, at) == FoldLeft(Place, [next |-> at, placed |-> <<>>], fields)

\* What the encoder returns: where the cursor is at the end.
EncodedSize(msg) == Placed(Fields(msg), 0).next

\* The fields written at offset at, and what they leave of the buffer.
Write(buffer, fields, at) ==
    LET new  == Placed(fields, at)
        kept == {o \in DOMAIN buffer :
                    o + buffer[o].width <= at \/ o >= new.next}
    IN  Over(new.placed, Restrict(buffer, kept))

\* The first size bytes of the buffer.
Prefix(buffer, size) ==
    Restrict(buffer, {o \in DOMAIN buffer : o + buffer[o].width <= size})

ReadAt(buffer, at, width) ==
    IF at \in DOMAIN buffer /\ buffer[at].width = width
    THEN buffer[at].value ELSE Garbage

-----------------------------------------------------------------------------
(* Decoding: the set of the message read, empty when the datagram is refused *)

message_type_decode(buffer) == ReadAt(buffer, 5, 1)

cluster_member_decode(buffer, at) ==
    [uid     |-> ReadAt(buffer, at + 2, 4),
     address |-> ReadAt(buffer, at + 10, ReadAt(buffer, at + 6, 4))]

message_hello_decode(buffer, size) ==
    IF size < message_header_size + cluster_member_struct_size THEN {}
    ELSE {Hello(cluster_member_decode(buffer, 12))}

message_welcome_decode(buffer, size) ==
    IF size < message_header_size + 4 + cluster_member_struct_size THEN {}
    ELSE {Welcome(ReadAt(buffer, 12, 4), cluster_member_decode(buffer, 16))}

\* Each member begins where the address of the one before it ends; past the end
\* of the datagram the unsigned rest is large again.
ReadMember(buffer, size, p) ==
    [at      |-> p.at + 10 + ReadAt(buffer, p.at + 6, 4),
     members |-> Append(p.members, cluster_member_decode(buffer, p.at)),
     refused |-> p.refused \/ size - p.at \in 0 .. 9]

message_member_list_decode(buffer, size) ==
    LET read == FoldLeft(LAMBDA p, i : ReadMember(buffer, size, p),
                         [at |-> 14, members |-> <<>>, refused |-> FALSE],
                         [i \in 1 .. ReadAt(buffer, 12, 2) |-> i])
    IN  IF size < 14 \/ read.refused THEN {} ELSE {MemberList(read.members)}

\* The only message that must have exactly the size it says.
message_data_decode(buffer, size) ==
    LET len == ReadAt(buffer, 24, 2)
    IN  IF size < 24 \/ size # 26 + len THEN {}
        ELSE {Data(DataRecord(ReadAt(buffer, 16, 8), ReadAt(buffer, 12, 4),
                              IF len > 0 THEN ReadAt(buffer, 26, len) ELSE NULL))}

message_ack_decode(buffer, size) ==
    IF size < 16 THEN {} ELSE {Ack(ReadAt(buffer, 12, 4))}

vector_clock_record_decode(buffer, at) ==
    [sequence_number |-> ReadAt(buffer, at, 4), member_id |-> ReadAt(buffer, at + 4, 8)]

\* The records of a clock from offset at on.
vector_clock_decode(buffer, at, size) ==
    LET n == ReadAt(buffer, at, 2)
    IN  IF size - (at + 2) < n * VECTOR_RECORD_SIZE THEN {}
        ELSE {[i \in 1 .. n |->
                  vector_clock_record_decode(buffer,
                                             at + 2 + (i - 1) * VECTOR_RECORD_SIZE)]}

message_status_decode(buffer, size) ==
    IF size < 14 THEN {}
    ELSE {Status([records |-> rs]) : rs \in vector_clock_decode(buffer, 12, size)}

\* The datagram of size bytes, read by the decoder of its type.
Decode(buffer, size) ==
    LET type == message_type_decode(buffer)
        msgs == CASE type = "HELLO"       -> message_hello_decode(buffer, size)
                  [] type = "WELCOME"     -> message_welcome_decode(buffer, size)
                  [] type = "MEMBER_LIST" -> message_member_list_decode(buffer, size)
                  [] type = "DATA"        -> message_data_decode(buffer, size)
                  [] type = "ACK"         -> message_ack_decode(buffer, size)
                  [] type = "STATUS"      -> message_status_decode(buffer, size)
                  [] OTHER                -> {}
    IN  IF size < message_header_size \/ ReadAt(buffer, 0, 5) # PROTOCOL_ID THEN {}
        ELSE {[sequence_num |-> ReadAt(buffer, 8, 4), msg |-> m] : m \in msgs}

=============================================================================
