------------------------------ MODULE Outbound ------------------------------
(***************************************************************************)
(* The outbound message queue of one Pittacus node (src/src/gossip.c): the *)
(* operators on the list of envelopes, the fixed array of output buffers   *)
(* the envelopes point into, and the retransmission pass.                  *)
(*                                                                         *)
(* The doubly linked list is modelled as a SET of envelopes.  Every        *)
(* envelope is appended at the tail with a fresh, larger sequence number   *)
(* (gossip_enqueue_to_outbound) and never moves, so list order is the      *)
(* order of sequence_num: head is the least one, "next" the next larger.   *)
(*                                                                         *)
(* An envelope does not own its bytes: it points into output_buffer.  The  *)
(* field contents is what its buffer holds now, so writing a buffer writes *)
(* the contents of every envelope that points at it.  The field message is *)
(* a history field: the message the envelope was created for.              *)
(*                                                                         *)
(* Time is kept relative: attempt_age is pt_time() - attempt_ts, counted   *)
(* up to MESSAGE_RETRY_INTERVAL, which is all the code tells apart.        *)
(***************************************************************************)
EXTENDS Integers, Sequences, FiniteSetsExt

CONSTANTS
    MAX_OUTPUT_MESSAGES,      \* number of output buffers             (100)
    MESSAGE_RETRY_ATTEMPTS,   \* attempts of an acknowledged message  (3)
    MESSAGE_RETRY_INTERVAL    \* time between two attempts            (10000)

ASSUME MaxOutputMessagesAssumption == MAX_OUTPUT_MESSAGES \in Nat \ {0}
ASSUME RetryAttemptsAssumption == MESSAGE_RETRY_ATTEMPTS \in Nat \ {0}
ASSUME RetryIntervalAssumption == MESSAGE_RETRY_INTERVAL \in Nat \ {0}

Buffers == 0 .. MAX_OUTPUT_MESSAGES - 1

\* The envelopes of an outbound queue; Message and Recipient are the sets
\* the module that uses the queue draws messages and addresses from.
Envelope(Message, Recipient) ==
    [sequence_num : Nat,
     recipient    : Recipient,
     buffer       : Buffers,
     contents     : Message,
     message      : Message,
     attempt_num  : Nat,
     attempt_age  : 0 .. MESSAGE_RETRY_INTERVAL,
     max_attempts : Nat]

\* The elapsed time d is added to an age, up to the retry interval.
Aged(age, d) == IF age + d < MESSAGE_RETRY_INTERVAL
                THEN age + d ELSE MESSAGE_RETRY_INTERVAL

-----------------------------------------------------------------------------
(* Choosing an output buffer *)

\* Mutant: one slot too many is searched.
FreeBuffersAndOneMore(queue) ==
    {b \in 0 .. MAX_OUTPUT_MESSAGES : \A e \in queue : e.buffer # b}

FreeBuffers(queue) == {b \in Buffers : \A e \in queue : e.buffer # b}

\* The first envelope of the list among those attempted most often.
IsOldest(queue, o) ==
    \A e \in queue : \/ e.attempt_num < o.attempt_num
                     \/ /\ e.attempt_num = o.attempt_num
                        /\ o.sequence_num <= e.sequence_num

Oldest(queue) == CHOOSE o \in queue : IsOldest(queue, o)

\* Mutant: only the oldest envelope goes.
SharedFromOldestOnly(queue, o) == {o}

\* The envelopes of the list from envelope o on that are all still within
\* the region of o's buffer: the walk stops at the first foreign buffer.
SharedFrom(queue, o) ==
    {e \in queue : /\ o.sequence_num <= e.sequence_num
                   /\ \A f \in queue :
                        /\ o.sequence_num <= f.sequence_num
                        /\ f.sequence_num <= e.sequence_num
                        => f.buffer = o.buffer}

\* The buffer for the next message and the queue that is left: a free buffer
\* if there is one, otherwise the buffer of the oldest envelope, which is
\* dropped together with the envelopes after it that share the buffer.
gossip_find_available_output_buffer(queue) ==
    IF FreeBuffers(queue) # {}
    THEN [buffer |-> Min(FreeBuffers(queue)), queue |-> queue]
    ELSE [buffer |-> Oldest(queue).buffer,
          queue  |-> queue \ SharedFrom(queue, Oldest(queue))]

-----------------------------------------------------------------------------
(* Enqueueing *)

\* ACK and WELCOME cannot be acknowledged: they are sent once.
MaxAttempts(type) ==
    IF type \in {"WELCOME", "ACK"} THEN 1 ELSE MESSAGE_RETRY_ATTEMPTS

\* Serializing msg into buffer b: whoever points at b now points at msg.
WriteBuffer(queue, b, msg) ==
    {IF e.buffer = b THEN [e EXCEPT !.contents = msg] ELSE e : e \in queue}

NewEnvelope(seq, to, b, msg, max) ==
    [sequence_num |-> seq, recipient |-> to, buffer |-> b,
     contents |-> msg, message |-> msg,
     attempt_num |-> 0, attempt_age |-> 0, max_attempts |-> max]

\* The outbound part of a node: the queue and the last sequence number used.
\* One buffer is written, and one envelope per recipient points at it.
\* A message that does not fit in a buffer is refused, but only after the
\* buffer for it has been made free.
gossip_enqueue_message(out, msg, fits, max, recipients) ==
    LET found == gossip_find_available_output_buffer(out.queue)
        new   == {NewEnvelope(out.sequence_num + i, recipients[i],
                              found.buffer, msg, max) : i \in DOMAIN recipients}
    IN  IF ~fits
        THEN [out EXCEPT !.queue = found.queue]
        ELSE [queue        |-> WriteBuffer(found.queue, found.buffer, msg)
                                 \cup new,
              sequence_num |-> out.sequence_num + Len(recipients)]

\* An acknowledgement (ACK, or WELCOME for a HELLO) removes the envelope with
\* the acknowledged sequence number, whoever sent the acknowledgement.
gossip_envelope_remove(queue, seq) == {e \in queue : e.sequence_num # seq}

-----------------------------------------------------------------------------
(* One pass of pittacus_gossip_process_send over the list *)

\* Mutant: the attempt to come is counted.
ExhaustedEarly(e) == e.attempt_num + 1 >= e.max_attempts

Exhausted(e) == e.attempt_num >= e.max_attempts

\* An exhausted acknowledged message condemns its recipient, ...
Condemned(queue) == {e \in queue : Exhausted(e) /\ e.max_attempts > 1}

\* Mutant: whoever the messages right behind it are for.
SweptRegardless(queue) ==
    {e \in queue : \E x \in Condemned(queue) : x.sequence_num < e.sequence_num}

\* ... and takes the messages right behind it for the same recipient along.
Swept(queue) ==
    {e \in queue :
        \E x \in Condemned(queue) :
           /\ x.sequence_num < e.sequence_num
           /\ \A f \in queue : /\ x.sequence_num <= f.sequence_num
                               /\ f.sequence_num <= e.sequence_num
                               => f.recipient = x.recipient}

GivenUp(queue) == {e \in queue : Exhausted(e)} \cup Swept(queue)

\* The envelopes at which cluster_member_set_remove_by_addr is called.
Dropping(queue) == Condemned(queue) \ Swept(queue)

\* Mutant: the retry interval is not waited for.
DueAtOnce(queue, d) == queue \ GivenUp(queue)

\* How much time may have passed since the pass began when it comes to each of
\* the envelopes, if it lasts D: pt_time() is read for every one of them.
Timings(queue, D) ==
    {d \in [queue -> 0 .. D] :
        \A e, f \in queue : e.sequence_num < f.sequence_num => d[e] <= d[f]}

\* The envelopes the pass hands to the socket with the timing d.
Due(queue, d) ==
    {e \in queue \ GivenUp(queue) :
        \/ e.attempt_num = 0
        \/ Aged(e.attempt_age, d[e]) >= MESSAGE_RETRY_INTERVAL}

\* An envelope D later; attempt_ts means nothing before the first attempt.
Older(e, D) ==
    IF e.attempt_num = 0 THEN e ELSE [e EXCEPT !.attempt_age = Aged(@, D)]

Attempted(e, D) ==
    [e EXCEPT !.attempt_num = @ + 1, !.attempt_age = Aged(0, D)]

\* Mutant: a failed write is skipped instead of ending the pass.
AfterPassOn(queue, d, D, stop) ==
    LET sent == {e \in Due(queue, d) : e.sequence_num # stop}
        gone == GivenUp(queue) \cup {e \in sent : e.max_attempts <= 1}
    IN  {IF e \in sent THEN Attempted(e, D - d[e]) ELSE Older(e, D) :
            e \in queue \ gone}

\* Mutant: what has been tried often enough stays.
AfterPassForgetful(queue, d, D, stop) ==
    LET sent == {e \in Due(queue, d) : e.sequence_num < stop}
        gone == {e \in sent : e.max_attempts <= 1}
    IN  {IF e \in sent THEN Attempted(e, D - d[e]) ELSE Older(e, D) :
            e \in queue \ gone}

\* The queue after a pass that lasted D and handled the envelopes with
\* sequence number below stop (where a write failure ended it).  A message
\* that is sent only once is removed as soon as it is sent.
AfterPass(queue, d, D, stop) ==
    LET sent == {e \in Due(queue, d) : e.sequence_num < stop}
        gone == {e \in GivenUp(queue) : e.sequence_num < stop}
                   \cup {e \in sent : e.max_attempts <= 1}
    IN  {IF e \in sent THEN Attempted(e, D - d[e]) ELSE Older(e, D) :
            e \in queue \ gone}

\* Time passes between two calls.
Elapse(queue, D) == {Older(e, D) : e \in queue}

-----------------------------------------------------------------------------
(* What the eviction walk relies on *)

\* Envelopes e and f of one message, e before f in the list: e has been tried
\* more often, or as often and not more recently.
Ahead(e, f) ==
    \/ e.attempt_num > f.attempt_num
    \/ e.attempt_num = f.attempt_num /\ e.attempt_age >= f.attempt_age

\* The envelopes that share a buffer stand next to each other in the list, and
\* the first of them is the one tried most often.
Grouped(queue) ==
    \A e, f \in queue :
        e.buffer = f.buffer /\ e.sequence_num < f.sequence_num
          => /\ Ahead(e, f)
             /\ \A g \in queue : /\ e.sequence_num <= g.sequence_num
                                 /\ g.sequence_num <= f.sequence_num
                                 => g.buffer = e.buffer

=============================================================================
