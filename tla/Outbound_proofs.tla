-------------------------- MODULE Outbound_proofs --------------------------
(***************************************************************************)
(* What the operators on the outbound queue do, whatever the messages and  *)
(* the recipients are.                                                     *)
(***************************************************************************)
EXTENDS Outbound, FiniteSetTheorems, WellFoundedInduction, TLAPS

-----------------------------------------------------------------------------
(* Buffers *)

\* A non-empty set of natural numbers has a least element: the scans of the
\* buffer array and of the list find what they look for.
LEMMA NatMin ==
    ASSUME NEW S \in SUBSET Nat, S # {}
    PROVE  \E m \in S : \A n \in S : m <= n
<1>1. IsWellFoundedOn(OpToRel(<, Nat), Nat)
  BY NatLessThanWellFounded
<1>2. PICK m \in S : \A n \in S : ~ (<<n, m>> \in OpToRel(<, Nat))
  BY <1>1, WFMin
<1>3. \A n \in S : ~ (n < m)
  BY <1>2 DEF OpToRel
<1> QED
  BY <1>3

\* The scan of buffer_is_occupied returns a free buffer when there is one.
LEMMA FreeBufferFound ==
    ASSUME NEW q, FreeBuffers(q) # {}
    PROVE  Min(FreeBuffers(q)) \in FreeBuffers(q)
<1>1. FreeBuffers(q) \in SUBSET Nat
  BY MaxOutputMessagesAssumption DEF FreeBuffers, Buffers
<1>2. \E m \in FreeBuffers(q) : \A n \in FreeBuffers(q) : m <= n
  BY <1>1, NatMin
<1> QED
  BY <1>2 DEF Min

\* When the list is not empty, one envelope is the oldest.
LEMMA OldestExists ==
    ASSUME NEW M, NEW T, NEW q \in SUBSET Envelope(M, T), q # {}, NEW B \in Nat,
           \A e \in q : e.attempt_num <= B
    PROVE  Oldest(q) \in q /\ IsOldest(q, Oldest(q))
<1> DEFINE Left == {B - e.attempt_num : e \in q}
<1>1. Left \in SUBSET Nat /\ Left # {}
  BY DEF Envelope
<1>2. PICK l \in Left : \A n \in Left : l <= n
  BY <1>1, NatMin
<1> DEFINE First == {e.sequence_num : e \in {f \in q : B - f.attempt_num = l}}
<1>3. First \in SUBSET Nat /\ First # {}
  BY <1>2 DEF Envelope
<1>4. PICK s \in First : \A n \in First : s <= n
  BY <1>3, NatMin
<1>5. PICK o \in q : o.sequence_num = s /\ B - o.attempt_num = l
  BY <1>4
<1>6. ASSUME NEW e \in q
      PROVE  \/ e.attempt_num < o.attempt_num
             \/ /\ e.attempt_num = o.attempt_num
                /\ o.sequence_num <= e.sequence_num
  <2>1. e.attempt_num \in Nat /\ o.attempt_num \in Nat
    BY <1>5, <1>6 DEF Envelope
  <2>2. l <= B - e.attempt_num
    BY <1>2, <1>6
  <2>3. CASE e.attempt_num = o.attempt_num
    <3>1. e.sequence_num \in First
      BY <1>5, <1>6, <2>3
    <3> QED
      BY <1>4, <1>5, <2>3, <3>1
  <2> QED
    BY <1>5, <2>1, <2>2, <2>3
<1>7. IsOldest(q, o)
  BY <1>6 DEF IsOldest
<1> QED
  BY <1>5, <1>7 DEF Oldest

\* gossip_find_available_output_buffer returns one of the output buffers, and
\* takes nothing but whole envelopes out of the list.
LEMMA BufferFound ==
    ASSUME NEW M, NEW T, NEW q \in SUBSET Envelope(M, T), NEW B \in Nat, \A e \in q : e.attempt_num <= B
    PROVE  LET found == gossip_find_available_output_buffer(q)
           IN  found.buffer \in Buffers /\ found.queue \subseteq q
<1>1. CASE FreeBuffers(q) # {}
  BY <1>1, FreeBufferFound DEF FreeBuffers, gossip_find_available_output_buffer
<1>2. CASE FreeBuffers(q) = {}
  <2>1. 0 \in Buffers
    BY MaxOutputMessagesAssumption DEF Buffers
  <2>2. q # {}
    BY <1>2, <2>1 DEF FreeBuffers
  <2>3. Oldest(q) \in q
    BY <2>2, OldestExists
  <2> QED
    BY <1>2, <2>3 DEF gossip_find_available_output_buffer, Envelope
<1> QED
  BY <1>1, <1>2

\* Ages stay within the retry interval.
LEMMA AgedType ==
    ASSUME NEW a \in 0 .. MESSAGE_RETRY_INTERVAL, NEW D \in Nat
    PROVE  /\ Aged(a, D) \in 0 .. MESSAGE_RETRY_INTERVAL
           /\ a <= Aged(a, D)
           /\ Aged(a, D) <= a + D
BY RetryIntervalAssumption DEF Aged

\* Time changes the age of an envelope and nothing else.
LEMMA OlderKeeps ==
    ASSUME NEW M, NEW T, NEW e \in Envelope(M, T), NEW D \in Nat
    PROVE  /\ Older(e, D) \in Envelope(M, T)
           /\ Older(e, D).sequence_num = e.sequence_num
           /\ Older(e, D).recipient = e.recipient
           /\ Older(e, D).buffer = e.buffer
           /\ Older(e, D).contents = e.contents
           /\ Older(e, D).message = e.message
           /\ Older(e, D).max_attempts = e.max_attempts
           /\ Older(e, D).attempt_num = e.attempt_num
           /\ Older(e, D).attempt_age =
                IF e.attempt_num = 0 THEN e.attempt_age
                ELSE Aged(e.attempt_age, D)
BY AgedType DEF Older, Envelope

\* An attempt counts, restarts the age, and changes nothing else.
LEMMA AttemptedKeeps ==
    ASSUME NEW M, NEW T, NEW e \in Envelope(M, T), NEW D \in Nat
    PROVE  /\ Attempted(e, D) \in Envelope(M, T)
           /\ Attempted(e, D).sequence_num = e.sequence_num
           /\ Attempted(e, D).recipient = e.recipient
           /\ Attempted(e, D).buffer = e.buffer
           /\ Attempted(e, D).contents = e.contents
           /\ Attempted(e, D).message = e.message
           /\ Attempted(e, D).max_attempts = e.max_attempts
           /\ Attempted(e, D).attempt_num = e.attempt_num + 1
           /\ Attempted(e, D).attempt_age = Aged(0, D)
<1>1. Aged(0, D) \in 0 .. MESSAGE_RETRY_INTERVAL
  BY AgedType, RetryIntervalAssumption
<1>2. e.attempt_num + 1 \in Nat
  BY DEF Envelope
<1> DEFINE once == [e EXCEPT !.attempt_num = e.attempt_num + 1]
<1>3. /\ once \in Envelope(M, T)
      /\ once.sequence_num = e.sequence_num
      /\ once.recipient = e.recipient
      /\ once.buffer = e.buffer
      /\ once.contents = e.contents
      /\ once.message = e.message
      /\ once.max_attempts = e.max_attempts
      /\ once.attempt_num = e.attempt_num + 1
  BY <1>2 DEF Envelope
<1>4. Attempted(e, D) = [once EXCEPT !.attempt_age = Aged(0, D)]
  BY DEF Attempted, Envelope
<1> HIDE DEF once
<1> QED
  BY <1>1, <1>3, <1>4 DEF Envelope

\* Where the envelopes of the list after a pass come from: they were in the
\* list, and were sent and will be sent again, or were left alone.
LEMMA PassOrigin ==
    ASSUME NEW q, NEW d, NEW D, NEW stop, NEW x \in AfterPass(q, d, D, stop)
    PROVE  \E e \in q :
             /\ ~ (e \in GivenUp(q) /\ e.sequence_num < stop)
             /\ \/ /\ e \in Due(q, d) /\ e.sequence_num < stop
                   /\ ~ (e.max_attempts <= 1)
                   /\ x = Attempted(e, D - d[e])
                \/ /\ ~ (e \in Due(q, d) /\ e.sequence_num < stop)
                   /\ x = Older(e, D)
BY DEF AfterPass

\* An envelope as gossip_envelope_create makes it.
LEMMA NewEnvelopeType ==
    ASSUME NEW M, NEW T, NEW s \in Nat, NEW to \in T, NEW b \in Buffers,
           NEW msg \in M, NEW max \in {1, MESSAGE_RETRY_ATTEMPTS},
           NEW x, x = NewEnvelope(s, to, b, msg, max)
    PROVE  /\ x \in Envelope(M, T)
           /\ x.sequence_num = s
           /\ x.recipient = to
           /\ x.buffer = b
           /\ x.message = msg
           /\ x.contents = x.message
           /\ x.max_attempts = max
           /\ x.attempt_num = 0
           /\ x.attempt_age = 0
BY RetryAttemptsAssumption, RetryIntervalAssumption
   DEF NewEnvelope, Envelope

\* The eviction walk reaches every envelope that points into the buffer it is
\* about to give away: the oldest envelope is the first of its group, and the
\* group has no gap.
LEMMA EvictionReachesAll ==
    ASSUME NEW M, NEW T, NEW q \in SUBSET Envelope(M, T), NEW B \in Nat,
           \A e \in q : e.attempt_num <= B,
           \A e, f \in q : e.sequence_num = f.sequence_num => e = f,
           Grouped(q)
    PROVE  LET found == gossip_find_available_output_buffer(q)
           IN  \A e \in found.queue : e.buffer # found.buffer
<1>1. CASE FreeBuffers(q) # {}
  <2>1. Min(FreeBuffers(q)) \in FreeBuffers(q)
    BY <1>1, FreeBufferFound
  <2> QED
    BY <1>1, <2>1 DEF FreeBuffers, gossip_find_available_output_buffer
<1>2. CASE FreeBuffers(q) = {}
  <2> DEFINE o == Oldest(q)
  <2>1. 0 \in Buffers
    BY MaxOutputMessagesAssumption DEF Buffers
  <2>2. q # {}
    BY <1>2, <2>1 DEF FreeBuffers
  <2>3. o \in q /\ IsOldest(q, o)
    BY <2>2, OldestExists
  <2>4. gossip_find_available_output_buffer(q) =
          [buffer |-> o.buffer, queue |-> q \ SharedFrom(q, o)]
    BY <1>2 DEF gossip_find_available_output_buffer
  <2> HIDE DEF o
  <2>5. ASSUME NEW e \in q, e.buffer = o.buffer
        PROVE  e \in SharedFrom(q, o)
    <3>1. /\ e.sequence_num \in Nat /\ o.sequence_num \in Nat
          /\ e.attempt_num \in Nat /\ o.attempt_num \in Nat
      BY <2>3, <2>5 DEF Envelope
    <3>2. o.sequence_num <= e.sequence_num
      <4>1. CASE e.sequence_num < o.sequence_num
        <5>1. Ahead(e, o)
          BY <2>3, <2>5, <4>1 DEF Grouped
        <5> QED
          BY <2>3, <2>5, <3>1, <4>1, <5>1 DEF Ahead, IsOldest
      <4> QED
        BY <3>1, <4>1
    <3>3. CASE o.sequence_num = e.sequence_num
      <4>1. \A f \in q : o.sequence_num <= f.sequence_num
                         /\ f.sequence_num <= e.sequence_num
                         => f.sequence_num = o.sequence_num
        BY <3>1, <3>3 DEF Envelope
      <4>2. \A f \in q : f.sequence_num = o.sequence_num => f = o
        BY <2>3
      <4> QED
        BY <2>3, <2>5, <3>2, <4>1, <4>2 DEF SharedFrom
    <3>4. CASE o.sequence_num < e.sequence_num
      BY <2>3, <2>5, <3>2, <3>4 DEF Grouped, SharedFrom
    <3> QED
      BY <3>1, <3>2, <3>3, <3>4
  <2> QED
    BY <2>4, <2>5
<1> QED
  BY <1>1, <1>2

-----------------------------------------------------------------------------
(* The outbound part of a node *)

\* What is known of each envelope when the numbers up to n have been given out.
Proper(e, n) ==
    /\ e.sequence_num >= 1
    /\ e.sequence_num <= n
    /\ e.max_attempts \in {1, MESSAGE_RETRY_ATTEMPTS}
    /\ e.attempt_num <= e.max_attempts

\* No number is given out twice.
Numbered(queue) == \A e, f \in queue : e.sequence_num = f.sequence_num => e = f

\* A queue of messages of M for recipients of T, with the numbers that have been
\* given out, none tried more often than gossip_encode_message allows.
WellFormed(o, M, T) ==
    /\ o \in [queue : SUBSET Envelope(M, T), sequence_num : Nat]
    /\ \A e \in o.queue : Proper(e, o.sequence_num)
    /\ Numbered(o.queue)

\* Every envelope points at the message it was created for, and the eviction walk
\* will see to it that this remains so.  A pass in which the clock ticks does not
\* keep this.
Intact(queue) == Grouped(queue) /\ \A e \in queue : e.contents = e.message

\* An operation that takes o to p leaves an intact queue intact.
KeepsIntact(o, p) == Intact(o.queue) => Intact(p.queue)

LEMMA WellFormedGrows ==
    ASSUME NEW M, NEW N, NEW T, M \subseteq N, NEW o, WellFormed(o, M, T)
    PROVE  WellFormed(o, N, T)
<1>1. \A e \in Envelope(M, T) : e \in Envelope(N, T)
  BY DEF Envelope
<1>2. /\ o.queue \subseteq Envelope(N, T) /\ o.sequence_num \in Nat
      /\ o = [queue |-> o.queue, sequence_num |-> o.sequence_num]
  BY <1>1 DEF WellFormed
<1>3. o \in [queue : SUBSET Envelope(N, T), sequence_num : Nat]
  BY <1>2
<1> QED
  BY <1>3 DEF WellFormed

LEMMA IntactPart ==
    ASSUME NEW q, NEW r \in SUBSET q, Intact(q)
    PROVE  Intact(r)
BY DEF Intact, Grouped

\* What an operation on the queue does to messages on their way: an envelope of
\* p was in o, with its number, recipient and message, or is a new one, for a
\* recipient and message of New, with a number not given out before.
Follows(o, p, New) ==
    /\ o.sequence_num <= p.sequence_num
    /\ \A x \in p.queue :
          \/ \E e \in o.queue : /\ x.sequence_num = e.sequence_num
                                /\ x.recipient = e.recipient
                                /\ x.message = e.message
          \/ /\ x.sequence_num > o.sequence_num
             /\ <<x.recipient, x.message>> \in New

LEMMA FollowsSelf ==
    ASSUME NEW M, NEW T, NEW o, WellFormed(o, M, T)
    PROVE  \A New : Follows(o, o, New)
BY DEF WellFormed, Follows

LEMMA FollowsMore ==
    ASSUME NEW o, NEW p, NEW New, NEW More, New \subseteq More, Follows(o, p, New)
    PROVE  Follows(o, p, More)
BY DEF Follows

LEMMA FollowsOn ==
    ASSUME NEW M, NEW T, NEW o, NEW p, NEW r, NEW New,
           WellFormed(o, M, T), WellFormed(p, M, T), WellFormed(r, M, T),
           Follows(o, p, New), Follows(p, r, New)
    PROVE  Follows(o, r, New)
<1>1. /\ o.sequence_num \in Nat /\ p.sequence_num \in Nat /\ r.sequence_num \in Nat
      /\ \A x \in r.queue : x.sequence_num \in Nat
  BY DEF WellFormed, Envelope
<1>2. o.sequence_num <= r.sequence_num
  BY <1>1 DEF Follows
<1>3. ASSUME NEW x \in r.queue
      PROVE  \/ \E e \in o.queue : /\ x.sequence_num = e.sequence_num
                                   /\ x.recipient = e.recipient
                                   /\ x.message = e.message
             \/ /\ x.sequence_num > o.sequence_num
                /\ <<x.recipient, x.message>> \in New
  <2>1. CASE \E e \in p.queue : /\ x.sequence_num = e.sequence_num
                                /\ x.recipient = e.recipient
                                /\ x.message = e.message
    BY <2>1 DEF Follows
  <2>2. CASE /\ x.sequence_num > p.sequence_num
             /\ <<x.recipient, x.message>> \in New
    BY <1>1, <2>2 DEF Follows
  <2> QED
    BY <2>1, <2>2 DEF Follows
<1> QED
  BY <1>2, <1>3 DEF Follows

\* An envelope that is still there when msg has been written to buffer b.
Rewritten(e, b, msg, written) ==
    IF written /\ e.buffer = b THEN [e EXCEPT !.contents = msg] ELSE e

LEMMA RewrittenKeeps ==
    ASSUME NEW M, NEW T, NEW e \in Envelope(M, T), NEW b, NEW msg \in M,
           NEW written \in BOOLEAN, NEW x, x = Rewritten(e, b, msg, written)
    PROVE  /\ x \in Envelope(M, T)
           /\ x.sequence_num = e.sequence_num
           /\ x.recipient = e.recipient
           /\ x.message = e.message
           /\ x.max_attempts = e.max_attempts
           /\ x.attempt_num = e.attempt_num
BY DEF Rewritten, Envelope

\* What p is when msg has been written to buffer b, if it fits, while the envelopes
\* that were kept are still there, and an envelope for each of rs been appended.
Enqueued(o, p, b, kept, msg, fits, max, rs) ==
    /\ p = [queue |-> p.queue, sequence_num |-> p.sequence_num]
    /\ p.sequence_num \in Nat /\ o.sequence_num <= p.sequence_num
    /\ \A x \in p.queue :
          \/ \E e \in kept : x = Rewritten(e, b, msg, fits)
          \/ \E i \in DOMAIN rs :
                /\ o.sequence_num + i <= p.sequence_num
                /\ x = NewEnvelope(o.sequence_num + i, rs[i], b, msg, max)

\* gossip_enqueue_message appends the envelopes of the new message.  If groups
\* are in order, it overwrites no message that is still queued.
LEMMA EnqueueEffect ==
    ASSUME NEW M, NEW T, NEW o, WellFormed(o, M, T), NEW msg \in M,
           NEW fits \in BOOLEAN, NEW max \in {1, MESSAGE_RETRY_ATTEMPTS},
           NEW rs \in Seq(T),
           NEW p, p = gossip_enqueue_message(o, msg, fits, max, rs)
    PROVE  \E b \in Buffers : \E kept \in SUBSET o.queue :
             /\ Enqueued(o, p, b, kept, msg, fits, max, rs)
             /\ Grouped(o.queue) => \A e \in kept : e.buffer # b
<1> DEFINE found == gossip_find_available_output_buffer(o.queue)
<1>1. /\ o.queue \in SUBSET Envelope(M, T) /\ o.sequence_num \in Nat
      /\ o = [queue |-> o.queue, sequence_num |-> o.sequence_num]
  BY DEF WellFormed
<1>2. \A e \in o.queue : e.attempt_num <= MESSAGE_RETRY_ATTEMPTS
  BY RetryAttemptsAssumption DEF WellFormed, Proper, Envelope
<1>3. found.buffer \in Buffers /\ found.queue \subseteq o.queue
  BY <1>1, <1>2, BufferFound, RetryAttemptsAssumption
<1>4. Grouped(o.queue) => \A e \in found.queue : e.buffer # found.buffer
  <2>1. Numbered(o.queue)
    BY DEF WellFormed
  <2> QED
    BY <1>1, <1>2, <2>1, EvictionReachesAll, RetryAttemptsAssumption DEF Numbered
<1>5. Len(rs) \in Nat /\ DOMAIN rs = 1 .. Len(rs)
  OBVIOUS
<1>6. CASE ~fits
  <2>1. p = [o EXCEPT !.queue = found.queue]
    BY <1>6 DEF gossip_enqueue_message
  <2> HIDE DEF found
  <2>2. p = [queue |-> found.queue, sequence_num |-> o.sequence_num]
    BY <1>1, <2>1
  <2>3. p.queue = found.queue /\ p.sequence_num = o.sequence_num
    BY <2>2
  <2>4. /\ p = [queue |-> p.queue, sequence_num |-> p.sequence_num]
        /\ p.sequence_num \in Nat /\ o.sequence_num <= p.sequence_num
    BY <1>1, <2>2, <2>3
  <2>5. \A e \in found.queue : e = Rewritten(e, found.buffer, msg, fits)
    BY <1>6 DEF Rewritten
  <2> QED
    BY <1>3, <1>4, <2>3, <2>4, <2>5 DEF Enqueued
<1>7. CASE fits
  <2> DEFINE kept == WriteBuffer(found.queue, found.buffer, msg)
             new  == {NewEnvelope(o.sequence_num + i, rs[i], found.buffer, msg, max) :
                        i \in DOMAIN rs}
             n    == o.sequence_num + Len(rs)
  <2>1. p = [queue |-> kept \cup new, sequence_num |-> n]
    BY <1>7 DEF gossip_enqueue_message
  <2>2. n \in Nat /\ o.sequence_num <= n /\ \A i \in DOMAIN rs : o.sequence_num + i <= n
    BY <1>1, <1>5
  <2>3. \A x \in kept : \E e \in found.queue : x = Rewritten(e, found.buffer, msg, fits)
    BY <1>7 DEF WriteBuffer, Rewritten
  <2>4. \A x \in new : \E i \in DOMAIN rs :
            x = NewEnvelope(o.sequence_num + i, rs[i], found.buffer, msg, max)
    OBVIOUS
  <2> HIDE DEF kept, new, n, found
  <2>5. p.queue = kept \cup new /\ p.sequence_num = n
    BY <2>1
  <2>6. \A x \in p.queue :
            \/ \E e \in found.queue : x = Rewritten(e, found.buffer, msg, fits)
            \/ \E i \in DOMAIN rs :
                  /\ o.sequence_num + i <= p.sequence_num
                  /\ x = NewEnvelope(o.sequence_num + i, rs[i], found.buffer, msg, max)
    BY <2>2, <2>3, <2>4, <2>5
  <2> QED
    BY <1>3, <1>4, <2>1, <2>2, <2>5, <2>6 DEF Enqueued
<1> QED
  BY <1>6, <1>7

\* It makes a well-formed queue of a well-formed queue, in which the old
\* messages are followed by the new one, and an intact one of an intact one.
LEMMA EnqueueWellFormed ==
    ASSUME NEW M, NEW T, NEW o, WellFormed(o, M, T), NEW msg \in M,
           NEW fits \in BOOLEAN, NEW max \in {1, MESSAGE_RETRY_ATTEMPTS},
           NEW rs \in Seq(T), NEW New, \A i \in DOMAIN rs : <<rs[i], msg>> \in New,
           NEW p, p = gossip_enqueue_message(o, msg, fits, max, rs)
    PROVE  /\ WellFormed(p, M, T) /\ Follows(o, p, New)
           /\ KeepsIntact(o, p)
<1>1. PICK b \in Buffers, kept \in SUBSET o.queue :
          /\ Enqueued(o, p, b, kept, msg, fits, max, rs)
          /\ Grouped(o.queue) => \A e \in kept : e.buffer # b
  BY EnqueueEffect
<1>2. /\ kept \subseteq o.queue
      /\ p = [queue |-> p.queue, sequence_num |-> p.sequence_num]
      /\ p.sequence_num \in Nat /\ o.sequence_num <= p.sequence_num
      /\ \A x \in p.queue :
            \/ \E e \in kept : x = Rewritten(e, b, msg, fits)
            \/ \E i \in DOMAIN rs :
                  /\ o.sequence_num + i <= p.sequence_num
                  /\ x = NewEnvelope(o.sequence_num + i, rs[i], b, msg, max)
  BY <1>1 DEF Enqueued
<1> DEFINE Added(x, i) == /\ x = NewEnvelope(o.sequence_num + i, rs[i], b, msg, max)
                          /\ x \in Envelope(M, T)
                          /\ x.sequence_num = o.sequence_num + i
                          /\ x.recipient = rs[i]
                          /\ x.buffer = b
                          /\ x.message = msg
                          /\ x.contents = x.message
                          /\ x.attempt_num = 0 /\ x.attempt_age = 0
                          /\ Proper(x, p.sequence_num)
           Left(x, e) ==  /\ x = Rewritten(e, b, msg, fits)
                          /\ x \in Envelope(M, T)
                          /\ x.sequence_num = e.sequence_num
                          /\ x.recipient = e.recipient
                          /\ x.message = e.message
                          /\ Proper(x, p.sequence_num)
<1>3. /\ o.sequence_num \in Nat
      /\ \A e \in o.queue : /\ e \in Envelope(M, T)
                            /\ Proper(e, o.sequence_num)
                            /\ e.sequence_num \in Nat
                            /\ e.sequence_num <= o.sequence_num
      /\ Numbered(o.queue)
  BY DEF WellFormed, Proper, Envelope
<1>4. Len(rs) \in Nat /\ DOMAIN rs = 1 .. Len(rs) /\ \A i \in DOMAIN rs : rs[i] \in T
  OBVIOUS
<1>5. ASSUME NEW i \in DOMAIN rs, o.sequence_num + i <= p.sequence_num, NEW x,
             x = NewEnvelope(o.sequence_num + i, rs[i], b, msg, max)
      PROVE  Added(x, i)
  <2>1. o.sequence_num + i \in Nat /\ o.sequence_num + i >= 1
    BY <1>3, <1>4
  <2>2. /\ x \in Envelope(M, T) /\ x.sequence_num = o.sequence_num + i
        /\ x.recipient = rs[i] /\ x.buffer = b /\ x.message = msg
        /\ x.contents = x.message /\ x.max_attempts = max
        /\ x.attempt_num = 0 /\ x.attempt_age = 0
    BY <1>4, <1>5, <2>1, NewEnvelopeType
  <2>3. Proper(x, p.sequence_num)
    BY <1>5, <2>1, <2>2, RetryAttemptsAssumption DEF Proper
  <2> QED
    BY <1>5, <2>2, <2>3
<1>6. ASSUME NEW e \in kept, NEW x, x = Rewritten(e, b, msg, fits)
      PROVE  Left(x, e)
  <2>1. e \in Envelope(M, T) /\ Proper(e, o.sequence_num) /\ e.sequence_num \in Nat
    BY <1>2, <1>3
  <2>2. /\ x \in Envelope(M, T) /\ x.sequence_num = e.sequence_num
        /\ x.recipient = e.recipient /\ x.message = e.message
        /\ x.max_attempts = e.max_attempts /\ x.attempt_num = e.attempt_num
    BY <1>6, <2>1, RewrittenKeeps
  <2>3. Proper(x, p.sequence_num)
    BY <1>2, <1>3, <2>1, <2>2 DEF Proper
  <2> QED
    BY <1>6, <2>2, <2>3
<1>7. \A x \in p.queue : \/ \E e \in kept : Left(x, e)
                         \/ \E i \in DOMAIN rs : Added(x, i)
  <2> HIDE DEF Added, Left
  <2> QED
    BY <1>2, <1>5, <1>6
<1>8. \A x : \A i \in DOMAIN rs : Added(x, i) => x.sequence_num > o.sequence_num
  BY <1>3, <1>4
<1>9. \A x : \A e \in kept : Left(x, e) => /\ x.sequence_num \in Nat
                                          /\ x.sequence_num <= o.sequence_num
  BY <1>2, <1>3
<1>10. Numbered(p.queue)
  <2> SUFFICES ASSUME NEW x \in p.queue, NEW y \in p.queue,
                      x.sequence_num = y.sequence_num
               PROVE  x = y
    BY DEF Numbered
  <2>1. CASE \E e, f \in kept : Left(x, e) /\ Left(y, f)
    BY <1>2, <1>3, <2>1 DEF Numbered
  <2>2. CASE \E i, j \in DOMAIN rs : Added(x, i) /\ Added(y, j)
    <3>1. PICK i \in DOMAIN rs, j \in DOMAIN rs : Added(x, i) /\ Added(y, j)
      BY <2>2
    <3>2. i = j
      BY <1>3, <1>4, <3>1
    <3> QED
      BY <3>1, <3>2
  <2>3. \A u, v : \A e \in kept : \A i \in DOMAIN rs :
           Left(u, e) /\ Added(v, i) => u.sequence_num # v.sequence_num
    <3> HIDE DEF Added, Left
    <3> QED
      BY <1>3, <1>8, <1>9
  <2> HIDE DEF Added, Left
  <2> QED
    BY <1>7, <2>1, <2>2, <2>3
<1>11. WellFormed(p, M, T)
  <2>1. \A x \in p.queue : x \in Envelope(M, T) /\ Proper(x, p.sequence_num)
    BY <1>7
  <2>2. p \in [queue : SUBSET Envelope(M, T), sequence_num : Nat]
    BY <1>2, <2>1
  <2> QED
    BY <1>10, <2>1, <2>2 DEF WellFormed
<1>12. Follows(o, p, New)
  <2>1. \A x \in p.queue : \A i \in DOMAIN rs :
           Added(x, i) => <<x.recipient, x.message>> \in New
    OBVIOUS
  <2>2. \A x \in p.queue : \A e \in kept :
           Left(x, e) => /\ x.sequence_num = e.sequence_num
                         /\ x.recipient = e.recipient /\ x.message = e.message
    OBVIOUS
  <2> HIDE DEF Added, Left
  <2> QED
    BY <1>2, <1>7, <1>8, <2>1, <2>2 DEF Follows
<1>13. ASSUME Intact(o.queue)
       PROVE  Intact(p.queue)
  <2>1. /\ \A e \in kept : e.buffer # b /\ e.contents = e.message
        /\ Grouped(o.queue)
    BY <1>1, <1>13 DEF Intact
  <2>2. \A x : \A e \in kept : Left(x, e) => x = e
    BY <2>1 DEF Rewritten
  <2>3. \A x \in p.queue : x \in kept \/ \E i \in DOMAIN rs : Added(x, i)
    <3> HIDE DEF Added, Left
    <3> QED
      BY <1>7, <2>2
  <2>4. \A x \in p.queue : x.contents = x.message
    BY <2>1, <2>3
  <2>5. \A x \in kept : x.sequence_num \in Nat /\ x.sequence_num <= o.sequence_num
    BY <1>2, <1>3
  <2>6. SUFFICES ASSUME NEW x \in p.queue, NEW y \in p.queue,
                        x.buffer = y.buffer, x.sequence_num < y.sequence_num
                 PROVE  /\ Ahead(x, y)
                        /\ \A z \in p.queue : /\ x.sequence_num <= z.sequence_num
                                               /\ z.sequence_num <= y.sequence_num
                                               => z.buffer = x.buffer
    BY <2>4 DEF Intact, Grouped
  <2>7. \A z \in p.queue : z.sequence_num \in Nat
    BY <1>11 DEF WellFormed, Envelope
  <2>8. CASE x \in kept /\ y \in kept
    <3>1. Ahead(x, y) /\ \A z \in o.queue : /\ x.sequence_num <= z.sequence_num
                                            /\ z.sequence_num <= y.sequence_num
                                            => z.buffer = x.buffer
      BY <1>2, <2>1, <2>6, <2>8 DEF Grouped
    <3>2. \A z \in p.queue : \A i \in DOMAIN rs :
             Added(z, i) => ~ (z.sequence_num <= y.sequence_num)
      <4> HIDE DEF Added
      <4> QED
        BY <1>3, <1>8, <2>5, <2>7, <2>8
    <3> HIDE DEF Added
    <3> QED
      BY <1>2, <2>3, <3>1, <3>2
  <2>9. CASE \E i, j \in DOMAIN rs : Added(x, i) /\ Added(y, j)
    <3>1. Ahead(x, y)
      BY <2>9 DEF Ahead
    <3>2. x.sequence_num > o.sequence_num /\ x.buffer = b
      BY <1>8, <2>9
    <3>3. \A z \in kept : ~ (x.sequence_num <= z.sequence_num)
      BY <1>3, <2>5, <2>7, <3>2
    <3>4. \A z : \A i \in DOMAIN rs : Added(z, i) => z.buffer = b
      OBVIOUS
    <3> HIDE DEF Added
    <3> QED
      BY <2>3, <3>1, <3>2, <3>3, <3>4
  <2>10. \A u \in kept, v \in p.queue : \A i \in DOMAIN rs :
           Added(v, i) => u.buffer # v.buffer
    BY <2>1
  <2> HIDE DEF Added, Left
  <2> QED
    BY <2>3, <2>6, <2>8, <2>9, <2>10
<1> QED
  BY <1>11, <1>12, <1>13 DEF KeepsIntact

LEMMA EnqueueIntact ==
    ASSUME NEW M, NEW T, NEW o, WellFormed(o, M, T), Intact(o.queue), NEW msg \in M,
           NEW fits \in BOOLEAN, NEW max \in {1, MESSAGE_RETRY_ATTEMPTS},
           NEW rs \in Seq(T),
           NEW p, p = gossip_enqueue_message(o, msg, fits, max, rs)
    PROVE  WellFormed(p, M, T) /\ Intact(p.queue)
<1>1. \A i \in DOMAIN rs : <<rs[i], msg>> \in T \X M
  OBVIOUS
<1>2. PICK New : \A i \in DOMAIN rs : <<rs[i], msg>> \in New
  BY <1>1
<1>3. WellFormed(p, M, T) /\ KeepsIntact(o, p)
  BY <1>2, EnqueueWellFormed
<1> QED
  BY <1>3 DEF KeepsIntact

\* So does an acknowledgement, ...
LEMMA RemoveWellFormed ==
    ASSUME NEW M, NEW T, NEW o, WellFormed(o, M, T), NEW s,
           NEW p, p = [o EXCEPT !.queue = gossip_envelope_remove(o.queue, s)]
    PROVE  /\ WellFormed(p, M, T) /\ \A New : Follows(o, p, New)
           /\ KeepsIntact(o, p)
<1>1. p = [queue |-> gossip_envelope_remove(o.queue, s), sequence_num |-> o.sequence_num]
  BY DEF WellFormed
<1>2. gossip_envelope_remove(o.queue, s) \subseteq o.queue
  BY DEF gossip_envelope_remove
<1>3. o.sequence_num \in Nat
  BY DEF WellFormed
<1>4. WellFormed(p, M, T)
  BY <1>1, <1>2 DEF WellFormed, Numbered
<1>5. \A New : Follows(o, p, New)
  BY <1>1, <1>2, <1>3 DEF Follows
<1>6. p.queue \in SUBSET o.queue
  BY <1>1, <1>2
<1> QED
  BY <1>4, <1>5, <1>6, IntactPart DEF KeepsIntact

\* ... the passing of time, which is the same for all envelopes ...
LEMMA AgedMonotone ==
    ASSUME NEW a \in 0 .. MESSAGE_RETRY_INTERVAL,
           NEW b \in 0 .. MESSAGE_RETRY_INTERVAL, a >= b, NEW D \in Nat
    PROVE  Aged(a, D) >= Aged(b, D)
BY RetryIntervalAssumption DEF Aged

LEMMA ElapseGrouped ==
    ASSUME NEW M, NEW T, NEW q \in SUBSET Envelope(M, T), Grouped(q), NEW D \in Nat
    PROVE  Grouped(Elapse(q, D))
<1>1. \A e \in q : /\ e.attempt_num \in Nat
                   /\ e.attempt_age \in 0 .. MESSAGE_RETRY_INTERVAL
  BY DEF Envelope
<1> DEFINE From(x, e) ==
              /\ x.sequence_num = e.sequence_num
              /\ x.buffer = e.buffer
              /\ x.attempt_num = e.attempt_num
              /\ x.attempt_age = IF e.attempt_num = 0 THEN e.attempt_age
                                 ELSE Aged(e.attempt_age, D)
<1>2. \A x \in Elapse(q, D) : \E e \in q : From(x, e)
  BY OlderKeeps DEF Elapse
<1>3. SUFFICES ASSUME NEW x \in Elapse(q, D), NEW y \in Elapse(q, D),
                      x.buffer = y.buffer, x.sequence_num < y.sequence_num
               PROVE  /\ Ahead(x, y)
                      /\ \A z \in Elapse(q, D) : /\ x.sequence_num <= z.sequence_num
                                                 /\ z.sequence_num <= y.sequence_num
                                                 => z.buffer = x.buffer
  BY DEF Grouped
<1>4. PICK e \in q : From(x, e)
  BY <1>2
<1>5. PICK f \in q : From(y, f)
  BY <1>2
<1>6. /\ Ahead(e, f)
      /\ \A g \in q : /\ e.sequence_num <= g.sequence_num
                      /\ g.sequence_num <= f.sequence_num
                      => g.buffer = e.buffer
  BY <1>3, <1>4, <1>5 DEF Grouped
<1>7. Ahead(x, y)
  <2>1. e.attempt_age >= f.attempt_age
          => Aged(e.attempt_age, D) >= Aged(f.attempt_age, D)
    BY <1>1, AgedMonotone
  <2> QED
    BY <1>1, <1>4, <1>5, <1>6, <2>1 DEF Ahead
<1> QED
  BY <1>2, <1>4, <1>5, <1>6, <1>7

LEMMA ElapseWellFormed ==
    ASSUME NEW M, NEW T, NEW o, WellFormed(o, M, T), NEW D \in Nat,
           NEW p, p = [o EXCEPT !.queue = Elapse(o.queue, D)]
    PROVE  /\ WellFormed(p, M, T) /\ \A New : Follows(o, p, New)
           /\ KeepsIntact(o, p)
<1>1. /\ p = [queue |-> Elapse(o.queue, D), sequence_num |-> o.sequence_num]
      /\ p.queue = Elapse(o.queue, D) /\ p.sequence_num = o.sequence_num
      /\ o.sequence_num \in Nat
  BY DEF WellFormed
<1> DEFINE From(x, e) == /\ x = Older(e, D)
                         /\ x \in Envelope(M, T)
                         /\ x.sequence_num = e.sequence_num
                         /\ x.recipient = e.recipient
                         /\ x.message = e.message
                         /\ x.contents = e.contents
                         /\ Proper(x, o.sequence_num)
<1>2. ASSUME NEW x \in p.queue
      PROVE  \E e \in o.queue : From(x, e)
  <2>1. PICK e \in o.queue : x = Older(e, D)
    BY <1>1 DEF Elapse
  <2>2. e \in Envelope(M, T) /\ Proper(e, o.sequence_num)
    BY DEF WellFormed
  <2>3. /\ x \in Envelope(M, T) /\ x.sequence_num = e.sequence_num
        /\ x.recipient = e.recipient /\ x.message = e.message
        /\ x.contents = e.contents
        /\ x.max_attempts = e.max_attempts /\ x.attempt_num = e.attempt_num
    BY <2>1, <2>2, OlderKeeps
  <2> QED
    BY <2>1, <2>2, <2>3 DEF Proper
<1>3. Numbered(p.queue)
  <2> SUFFICES ASSUME NEW x \in p.queue, NEW y \in p.queue,
                      x.sequence_num = y.sequence_num
               PROVE  x = y
    BY DEF Numbered
  <2>1. PICK e \in o.queue : From(x, e)
    BY <1>2
  <2>2. PICK f \in o.queue : From(y, f)
    BY <1>2
  <2> QED
    BY <2>1, <2>2 DEF WellFormed, Numbered
<1>4. Intact(o.queue) => Intact(p.queue)
  <2>1. o.queue \in SUBSET Envelope(M, T)
    BY DEF WellFormed
  <2>2. Grouped(o.queue) => Grouped(p.queue)
    BY <1>1, <2>1, ElapseGrouped
  <2> QED
    BY <1>2, <2>2 DEF Intact
<1>5. p \in [queue : SUBSET Envelope(M, T), sequence_num : Nat]
  <2>1. p.queue \in SUBSET Envelope(M, T)
    BY <1>2
  <2> QED
    BY <1>1, <2>1
<1>6. WellFormed(p, M, T)
  BY <1>1, <1>2, <1>3, <1>5 DEF WellFormed
<1>7. \A New : Follows(o, p, New)
  BY <1>1, <1>2 DEF Follows
<1> QED
  BY <1>4, <1>6, <1>7 DEF KeepsIntact

\* ... and a pass over the queue, wherever it ends; but only one in which the clock
\* does not tick keeps the queue intact, as it treats the envelopes of one message
\* alike from the first one on.
LEMMA PassGrouped ==
    ASSUME NEW M, NEW T, NEW q \in SUBSET Envelope(M, T), Grouped(q),
           NEW d, \A e \in q : d[e] = 0, NEW stop \in Nat
    PROVE  Grouped(AfterPass(q, d, 0, stop))
<1> DEFINE Q       == AfterPass(q, d, 0, stop)
           Sent(e) == e \in Due(q, d) /\ e.sequence_num < stop
           From(x, e) ==
              /\ x.sequence_num = e.sequence_num
              /\ x.buffer = e.buffer
              /\ ~ (e \in GivenUp(q) /\ e.sequence_num < stop)
              /\ \/ /\ Sent(e)
                    /\ x.attempt_num = e.attempt_num + 1
                    /\ x.attempt_age = 0
                 \/ /\ ~ Sent(e)
                    /\ x.attempt_num = e.attempt_num
                    /\ x.attempt_age = e.attempt_age
<1>1. \A e \in q : /\ e.attempt_num \in Nat
                   /\ e.sequence_num \in Nat
                   /\ e.attempt_age \in 0 .. MESSAGE_RETRY_INTERVAL
                   /\ Aged(e.attempt_age, 0) = e.attempt_age
  BY RetryIntervalAssumption DEF Envelope, Aged
<1>2. Aged(0, 0) = 0
  BY RetryIntervalAssumption DEF Aged
<1>3. \A x \in Q : \E e \in q : From(x, e)
  <2> SUFFICES ASSUME NEW x \in Q PROVE \E e \in q : From(x, e)
    OBVIOUS
  <2>1. PICK e \in q :
           /\ ~ (e \in GivenUp(q) /\ e.sequence_num < stop)
           /\ \/ Sent(e) /\ x = Attempted(e, 0 - d[e])
              \/ ~ Sent(e) /\ x = Older(e, 0)
    BY PassOrigin
  <2>2. e \in Envelope(M, T) /\ 0 - d[e] = 0 /\ 0 \in Nat
    OBVIOUS
  <2> HIDE DEF Sent, Q
  <2>3. CASE Sent(e) /\ x = Attempted(e, 0)
    <3>1. /\ x.sequence_num = e.sequence_num /\ x.buffer = e.buffer
          /\ x.attempt_num = e.attempt_num + 1 /\ x.attempt_age = 0
      BY <1>2, <2>2, <2>3, AttemptedKeeps
    <3> QED
      BY <2>1, <2>3, <3>1
  <2>4. CASE ~ Sent(e) /\ x = Older(e, 0)
    <3>1. /\ x.sequence_num = e.sequence_num /\ x.buffer = e.buffer
          /\ x.attempt_num = e.attempt_num
          /\ x.attempt_age = IF e.attempt_num = 0 THEN e.attempt_age
                             ELSE Aged(e.attempt_age, 0)
      BY <2>2, <2>4, OlderKeeps
    <3>2. x.attempt_age = e.attempt_age
      BY <1>1, <3>1
    <3> QED
      BY <2>1, <2>4, <3>1, <3>2
  <2> QED
    BY <2>1, <2>2, <2>3, <2>4
<1>4. ASSUME NEW e \in q, NEW f \in q,
             e.sequence_num < f.sequence_num, Ahead(e, f), Sent(f),
             e.attempt_num = f.attempt_num,
             ~ (e \in GivenUp(q) /\ e.sequence_num < stop)
      PROVE  Sent(e)
  <2>1. e.sequence_num < stop /\ e \notin GivenUp(q)
    BY <1>1, <1>4
  <2>2. f.attempt_num = 0 \/ f.attempt_age >= MESSAGE_RETRY_INTERVAL
    BY <1>1, <1>4 DEF Due
  <2>3. e.attempt_num = 0 \/ e.attempt_age >= MESSAGE_RETRY_INTERVAL
    BY <1>1, <1>4, <2>2, RetryIntervalAssumption DEF Ahead
  <2> QED
    BY <1>1, <2>1, <2>3 DEF Due
<1> HIDE DEF Q, Sent
<1>5. SUFFICES ASSUME NEW x \in Q, NEW y \in Q,
                      x.buffer = y.buffer, x.sequence_num < y.sequence_num
               PROVE  /\ Ahead(x, y)
                      /\ \A z \in Q : /\ x.sequence_num <= z.sequence_num
                                      /\ z.sequence_num <= y.sequence_num
                                      => z.buffer = x.buffer
  BY DEF Grouped, Q
<1>6. PICK e \in q : From(x, e)
  BY <1>3
<1>7. PICK f \in q : From(y, f)
  BY <1>3
<1>8. /\ Ahead(e, f)
      /\ \A g \in q : /\ e.sequence_num <= g.sequence_num
                      /\ g.sequence_num <= f.sequence_num
                      => g.buffer = e.buffer
      /\ e.sequence_num < f.sequence_num
  BY <1>5, <1>6, <1>7 DEF Grouped
<1>9. Sent(f) /\ e.attempt_num = f.attempt_num => Sent(e)
  BY <1>4, <1>6, <1>8
<1>10. Ahead(x, y)
  BY <1>1, <1>6, <1>7, <1>8, <1>9 DEF Ahead
<1> QED
  BY <1>3, <1>6, <1>7, <1>8, <1>10

LEMMA AttemptedProper ==
    ASSUME NEW M, NEW T, NEW e \in Envelope(M, T), NEW n, Proper(e, n),
           ~ Exhausted(e), NEW t \in Nat, NEW x, x = Attempted(e, t)
    PROVE  /\ x \in Envelope(M, T) /\ x.sequence_num = e.sequence_num
           /\ x.recipient = e.recipient /\ x.message = e.message
           /\ x.contents = e.contents /\ Proper(x, n)
<1>1. /\ x \in Envelope(M, T) /\ x.sequence_num = e.sequence_num
      /\ x.recipient = e.recipient /\ x.message = e.message
      /\ x.contents = e.contents
      /\ x.max_attempts = e.max_attempts /\ x.attempt_num = e.attempt_num + 1
  BY AttemptedKeeps
<1>2. e.attempt_num \in Nat /\ e.max_attempts \in Nat
  BY DEF Envelope
<1> QED
  BY <1>1, <1>2 DEF Proper, Exhausted

LEMMA OlderProper ==
    ASSUME NEW M, NEW T, NEW e \in Envelope(M, T), NEW n, Proper(e, n),
           NEW t \in Nat, NEW x, x = Older(e, t)
    PROVE  /\ x \in Envelope(M, T) /\ x.sequence_num = e.sequence_num
           /\ x.recipient = e.recipient /\ x.message = e.message
           /\ x.contents = e.contents /\ Proper(x, n)
<1>1. /\ x \in Envelope(M, T) /\ x.sequence_num = e.sequence_num
      /\ x.recipient = e.recipient /\ x.message = e.message
      /\ x.contents = e.contents
      /\ x.max_attempts = e.max_attempts /\ x.attempt_num = e.attempt_num
  BY OlderKeeps
<1> QED
  BY <1>1 DEF Proper

LEMMA PassWellFormed ==
    ASSUME NEW M, NEW T, NEW o, WellFormed(o, M, T), NEW stop \in Nat,
           NEW D \in Nat, NEW d \in [o.queue -> 0 .. D],
           NEW p, p = [o EXCEPT !.queue = AfterPass(o.queue, d, D, stop)]
    PROVE  /\ WellFormed(p, M, T) /\ p.sequence_num = o.sequence_num
           /\ \A New : Follows(o, p, New)
           /\ D = 0 => KeepsIntact(o, p)
<1> DEFINE q == AfterPass(o.queue, d, D, stop)
           Sent(e) == e \in Due(o.queue, d) /\ e.sequence_num < stop
           From(x, e) == /\ x = IF Sent(e) THEN Attempted(e, D - d[e]) ELSE Older(e, D)
                         /\ x \in Envelope(M, T)
                         /\ x.sequence_num = e.sequence_num
                         /\ x.recipient = e.recipient
                         /\ x.message = e.message
                         /\ x.contents = e.contents
                         /\ Proper(x, o.sequence_num)
<1>1. /\ o.queue \in SUBSET Envelope(M, T) /\ o.sequence_num \in Nat
      /\ Numbered(o.queue)
      /\ \A e \in o.queue : Proper(e, o.sequence_num)
  BY DEF WellFormed
<1>2. p = [queue |-> q, sequence_num |-> o.sequence_num]
  BY DEF WellFormed
<1>3. \A e \in o.queue : D - d[e] \in Nat
  OBVIOUS
<1>4. ASSUME NEW x \in q
      PROVE  \E e \in o.queue : From(x, e)
  <2>1. PICK e \in o.queue : \/ Sent(e) /\ x = Attempted(e, D - d[e])
                             \/ ~ Sent(e) /\ x = Older(e, D)
    BY PassOrigin
  <2>2. e \in Envelope(M, T) /\ Proper(e, o.sequence_num)
    BY <1>1
  <2>3. Sent(e) => ~ Exhausted(e)
    BY DEF Due, GivenUp
  <2> HIDE DEF Sent, q
  <2>4. CASE ~ Sent(e) /\ x = Older(e, D)
    <3>1. /\ x \in Envelope(M, T) /\ x.sequence_num = e.sequence_num
          /\ x.recipient = e.recipient /\ x.message = e.message
          /\ x.contents = e.contents /\ Proper(x, o.sequence_num)
      BY ONLY <2>2, <2>4, OlderProper
    <3> QED
      BY <2>4, <3>1
  <2>5. CASE Sent(e) /\ x = Attempted(e, D - d[e])
    <3>1. PICK t : t \in Nat /\ t = D - d[e]
      BY <1>3
    <3>2. x = Attempted(e, t) /\ ~ Exhausted(e)
      BY <2>3, <2>5, <3>1
    <3>3. /\ x \in Envelope(M, T) /\ x.sequence_num = e.sequence_num
          /\ x.recipient = e.recipient /\ x.message = e.message
          /\ x.contents = e.contents /\ Proper(x, o.sequence_num)
      BY ONLY <2>2, <3>1, <3>2, AttemptedProper
    <3> QED
      BY <2>5, <3>3
  <2> QED
    BY <2>1, <2>4, <2>5
<1>5. D = 0 /\ Grouped(o.queue) => Grouped(q)
  <2>1. D = 0 => \A e \in o.queue : d[e] = 0
    OBVIOUS
  <2> QED
    BY <1>1, <2>1, PassGrouped
<1> HIDE DEF q, Sent
<1>6. Numbered(q)
  <2> SUFFICES ASSUME NEW x \in q, NEW y \in q,
                      x.sequence_num = y.sequence_num
               PROVE  x = y
    BY DEF Numbered
  <2>1. PICK e \in o.queue : From(x, e)
    BY <1>4
  <2>2. PICK f \in o.queue : From(y, f)
    BY <1>4
  <2> QED
    BY <1>1, <2>1, <2>2 DEF Numbered
<1>7. p.queue = q /\ p.sequence_num = o.sequence_num
  BY <1>2
<1>8. p \in [queue : SUBSET Envelope(M, T), sequence_num : Nat]
  <2>1. q \in SUBSET Envelope(M, T)
    BY <1>4
  <2>2. [queue |-> q, sequence_num |-> o.sequence_num]
          \in [queue : SUBSET Envelope(M, T), sequence_num : Nat]
    BY <1>1, <2>1
  <2> QED
    BY <1>2, <2>2
<1>9. WellFormed(p, M, T)
  BY <1>4, <1>6, <1>7, <1>8 DEF WellFormed
<1>10. \A New : Follows(o, p, New)
  BY <1>1, <1>4, <1>7 DEF Follows
<1>11. D = 0 /\ Intact(o.queue) => Intact(p.queue)
  BY <1>4, <1>5, <1>7 DEF Intact
<1> QED
  BY <1>7, <1>9, <1>10, <1>11 DEF KeepsIntact

LEMMA PassIntact ==
    ASSUME NEW M, NEW T, NEW o, WellFormed(o, M, T), Intact(o.queue), NEW stop \in Nat,
           NEW d, d = [e \in o.queue |-> 0],
           NEW p, p = [o EXCEPT !.queue = AfterPass(o.queue, d, 0, stop)]
    PROVE  WellFormed(p, M, T) /\ Intact(p.queue)
<1>1. PICK D : D = 0 /\ D \in Nat
  OBVIOUS
<1>2. d \in [o.queue -> 0 .. D]
  BY <1>1
<1>3. p = [o EXCEPT !.queue = AfterPass(o.queue, d, D, stop)]
  BY <1>1
<1>4. WellFormed(p, M, T) /\ KeepsIntact(o, p)
  BY <1>1, <1>2, <1>3, PassWellFormed
<1> QED
  BY <1>4 DEF KeepsIntact

=============================================================================
