--------------------------- MODULE OutboundQueue ---------------------------
(***************************************************************************)
(* The outbound queue of one node as a state machine.  The handlers of the *)
(* node submit messages (gossip_enqueue_message), acknowledgements arrive, *)
(* the application calls pittacus_gossip_process_send again and again, and *)
(* time passes.  The members are those of cluster_member_set_t, reduced to *)
(* their addresses: a pass that gives up on a message removes its          *)
(* recipient from them.                                                    *)
(***************************************************************************)
EXTENDS Outbound

CONSTANTS
    Message,      \* the contents of messages
    Recipient,    \* the addresses messages are sent to
    Unsendable,   \* addresses for which pt_send_to always fails (no route)
    MESSAGE_RUMOR_FACTOR,   \* receivers of a rumor  (3)
    MaxSeq,       \* bound on the number of envelopes ever created
    MaxDrift      \* how far pt_time() may advance during one pass

ASSUME RecipientAssumption == IsFiniteSet(Recipient)
ASSUME UnsendableAssumption == Unsendable \subseteq Recipient
ASSUME RumorFactorAssumption == MESSAGE_RUMOR_FACTOR \in Nat
ASSUME MaxSeqAssumption == MaxSeq \in Nat
ASSUME MaxDriftAssumption == MaxDrift \in Nat

VARIABLES
    queue,          \* outbound_messages and the buffers they point into
    sequence_num,   \* the last sequence number handed out
    members,        \* the addresses of the known members
    waited          \* history: time since the first attempt of an envelope

vars == <<queue, sequence_num, members, waited>>

\* The longest wait that the properties tell apart.
Patience == (MESSAGE_RETRY_ATTEMPTS - 1) * MESSAGE_RETRY_INTERVAL

Waited(w, D) == IF w + D < Patience THEN w + D ELSE Patience

TypeOK ==
    /\ queue \subseteq Envelope(Message, Recipient)
    /\ sequence_num \in Nat
    /\ members \subseteq Recipient
    /\ waited \in [1 .. MaxSeq -> 0 .. Patience]

Init ==
    /\ queue = {}
    /\ sequence_num = 0
    /\ members = {}
    /\ waited = [s \in 1 .. MaxSeq |-> 0]

-----------------------------------------------------------------------------
\* The lists of n members, each once, in any order.
Lists(n) ==
    {s \in [1 .. n -> members] : \A i, j \in DOMAIN s : s[i] = s[j] => i = j}

\* GOSSIP_DIRECT names one recipient, GOSSIP_BROADCAST takes all members and
\* GOSSIP_RANDOM as many of them as the rumor factor says.
Spreading ==
    {<<r>> : r \in Recipient}
      \cup Lists(Cardinality(members))
      \cup Lists(Min({MESSAGE_RUMOR_FACTOR, Cardinality(members)}))

\* A handler, tick or send_data enqueues a message.  ACK and WELCOME are sent
\* once; DATA may turn out not to fit.
Submit(msg, fits, max, recipients) ==
    /\ sequence_num + Len(recipients) <= MaxSeq
    /\ LET out == gossip_enqueue_message(
                     [queue |-> queue, sequence_num |-> sequence_num],
                     msg, fits, max, recipients)
       IN  /\ queue' = out.queue
           /\ sequence_num' = out.sequence_num
    /\ UNCHANGED <<members, waited>>

\* An ACK or a WELCOME for sequence number s arrives, possibly late or twice.
Acknowledge(s) ==
    /\ queue' = gossip_envelope_remove(queue, s)
    /\ UNCHANGED <<sequence_num, members, waited>>

\* cluster_member_set_put, from HELLO, WELCOME or MEMBER_LIST.
AddMember(r) ==
    /\ members' = members \cup {r}
    /\ UNCHANGED <<queue, sequence_num, waited>>

\* Where a pass may end: at a write that fails, or past the last envelope.
\* It does not get past a write to an address that always fails.
Stops(d) ==
    {s \in {e.sequence_num : e \in Due(queue, d)} \cup {sequence_num + 1} :
        \A e \in Due(queue, d) :
            e.recipient \in Unsendable => s <= e.sequence_num}

\* One call of pittacus_gossip_process_send that ends at stop.
Pass(d, D, stop) ==
    /\ queue' = AfterPass(queue, d, D, stop)
    /\ members' = members \ {x.recipient : x \in
                        {y \in Dropping(queue) : y.sequence_num < stop}}
    /\ waited' = [s \in 1 .. MaxSeq |->
                    IF \E e \in queue : e.sequence_num = s /\ e.attempt_num > 0
                    THEN Waited(waited[s], D)
                    ELSE IF \E e \in Due(queue, d) :
                               e.sequence_num = s /\ s < stop
                    THEN Waited(0, D - d[CHOOSE e \in queue : e.sequence_num = s])
                    ELSE waited[s]]
    /\ UNCHANGED sequence_num

ProcessSend ==
    \E D \in 0 .. MaxDrift : \E d \in Timings(queue, D) :
        \E stop \in Stops(d) : Pass(d, D, stop)

\* A pass in which only the writes that always fail do fail.
FullPass ==
    \E D \in 0 .. MaxDrift : \E d \in Timings(queue, D) :
        Pass(d, D, Max(Stops(d)))

TimePasses ==
    /\ queue' = Elapse(queue, 1)
    /\ waited' = [s \in 1 .. MaxSeq |->
                    IF \E e \in queue : e.sequence_num = s /\ e.attempt_num > 0
                    THEN Waited(waited[s], 1) ELSE waited[s]]
    /\ UNCHANGED <<sequence_num, members>>

SubmitAny ==
    \E msg \in Message, fits \in BOOLEAN, max \in {1, MESSAGE_RETRY_ATTEMPTS} :
        \E recipients \in Spreading : Submit(msg, fits, max, recipients)

Next ==
    \/ SubmitAny
    \/ \E s \in 1 .. MaxSeq : Acknowledge(s)
    \/ \E r \in Recipient : AddMember(r)
    \/ ProcessSend
    \/ TimePasses

Spec == Init /\ [][Next]_vars

\* The application keeps calling process_send, the socket accepts a whole
\* pass now and then, and time goes on.
FairSpec == Spec /\ WF_vars(FullPass) /\ WF_vars(TimePasses)

-----------------------------------------------------------------------------
(* Properties *)

\* What an envelope points at is the message it was created for: a buffer is
\* not written while a queued envelope still points into it.
EnvelopeKeepsItsMessage == \A e \in queue : e.contents = e.message

\* The envelopes that share a buffer stand next to each other in the list,
\* and the first of them is the one tried most often.  This is what the walk
\* of gossip_find_available_output_buffer from the oldest envelope on needs
\* in order to reach all of them.
GroupsInOrder == Grouped(queue)

\* A member is dropped as unreachable only when a message to it was sent
\* MESSAGE_RETRY_ATTEMPTS times, and never sooner than the retry intervals
\* between those attempts add up to.
DroppedOnlyAfterPatience ==
    [][\A r \in members \ members' :
          \E e \in queue : /\ e.recipient = r
                           /\ e.attempt_num >= MESSAGE_RETRY_ATTEMPTS
                           /\ waited[e.sequence_num] = Patience]_vars

\* A pass gives up an acknowledged message only together with its recipient: the
\* sweep of the messages behind an exhausted one takes none along that is for a
\* member the node goes on gossiping with.
GivenUpWithItsMember ==
    [][ProcessSend =>
          \A e \in queue :
              /\ e.max_attempts > 1
              /\ \A f \in queue' : f.sequence_num # e.sequence_num
              => e.recipient \notin members']_vars

\* Every message to an address the socket can send to leaves the queue:
\* process_send sends it, and it is acknowledged, given up or replaced.
EveryEnvelopeLeaves ==
    \A s \in 1 .. MaxSeq :
        (\E e \in queue : e.sequence_num = s /\ e.recipient \notin Unsendable)
          ~> (\A e \in queue : e.sequence_num # s)

=============================================================================
