------------------------ MODULE OutboundQueue_proofs ------------------------
(***************************************************************************)
(* Proofs about the outbound queue, for any number of buffers, attempts,   *)
(* recipients and messages and any retry interval.                         *)
(***************************************************************************)
EXTENDS OutboundQueue, Outbound_proofs

Env == Envelope(Message, Recipient)

USE DEF Env

\* Sequence numbers are handed out once, and nothing is tried more often than
\* gossip_encode_message allows.
Counted ==
    /\ sequence_num <= MaxSeq
    /\ \A e \in queue :
          /\ e.sequence_num >= 1
          /\ e.sequence_num <= sequence_num
          /\ e.max_attempts \in {1, MESSAGE_RETRY_ATTEMPTS}
          /\ e.attempt_num <= e.max_attempts
    /\ \A e, f \in queue : e.sequence_num = f.sequence_num => e = f

TypeInv == TypeOK /\ Counted

-----------------------------------------------------------------------------
(* Lemmas about messages *)

\* The lemmas of Outbound_proofs for the messages and recipients of this module.
LEMMA NewEnv ==
    ASSUME NEW s \in Nat, NEW to \in Recipient, NEW b \in Buffers,
           NEW msg \in Message, NEW max \in {1, MESSAGE_RETRY_ATTEMPTS}
    PROVE  LET x == NewEnvelope(s, to, b, msg, max)
           IN  /\ x \in Env
               /\ x.sequence_num = s
               /\ x.buffer = b
               /\ x.contents = x.message
               /\ x.max_attempts = max
               /\ x.attempt_num = 0
               /\ x.attempt_age = 0
BY RetryAttemptsAssumption, RetryIntervalAssumption
   DEF NewEnvelope, Envelope

LEMMA AttemptedEnv ==
    ASSUME NEW e \in Env, NEW D \in Nat
    PROVE  /\ Attempted(e, D) \in Env
           /\ Attempted(e, D).sequence_num = e.sequence_num
           /\ Attempted(e, D).recipient = e.recipient
           /\ Attempted(e, D).buffer = e.buffer
           /\ Attempted(e, D).contents = e.contents
           /\ Attempted(e, D).message = e.message
           /\ Attempted(e, D).max_attempts = e.max_attempts
           /\ Attempted(e, D).attempt_num = e.attempt_num + 1
           /\ Attempted(e, D).attempt_age = Aged(0, D)
BY AttemptedKeeps

LEMMA OlderEnv ==
    ASSUME NEW e \in Env, NEW D \in Nat
    PROVE  /\ Older(e, D) \in Env
           /\ Older(e, D).sequence_num = e.sequence_num
           /\ Older(e, D).recipient = e.recipient
           /\ Older(e, D).buffer = e.buffer
           /\ Older(e, D).contents = e.contents
           /\ Older(e, D).message = e.message
           /\ Older(e, D).max_attempts = e.max_attempts
           /\ Older(e, D).attempt_num = e.attempt_num
           /\ Older(e, D).attempt_age =
                IF e.attempt_num = 0 THEN e.attempt_age
                ELSE Aged(e.attempt_age, D)
BY OlderKeeps

\* The recipients of a message are a sequence of addresses.
LEMMA SpreadingType ==
    ASSUME TypeOK, NEW recipients \in Spreading
    PROVE  /\ Len(recipients) \in Nat
           /\ DOMAIN recipients = 1 .. Len(recipients)
           /\ \A i \in DOMAIN recipients : recipients[i] \in Recipient
<1>1. Cardinality(members) \in Nat
  <2>1. IsFiniteSet(members)
    BY RecipientAssumption, FS_Subset DEF TypeOK
  <2> QED
    BY <2>1, FS_CardinalityType
<1>2. CASE \E r \in Recipient : recipients = <<r>>
  BY <1>2
<1>3. CASE \E n \in Nat : recipients \in Lists(n)
  <2>1. PICK n \in Nat : recipients \in [1 .. n -> members]
    BY <1>3 DEF Lists
  <2>2. n \in Nat
    BY <2>1
  <2>3. recipients \in Seq(members)
    BY <2>1, <2>2
  <2> QED
    BY <2>1, <2>2, <2>3 DEF TypeOK
<1>4. Min({MESSAGE_RUMOR_FACTOR, Cardinality(members)}) \in Nat
  <2>1. PICK k \in Nat, c \in Nat : k = MESSAGE_RUMOR_FACTOR /\ c = Cardinality(members)
    BY <1>1, RumorFactorAssumption
  <2>2. \E m \in {k, c} : \A n \in {k, c} : m <= n
    BY NatMin
  <2> QED
    BY <2>1, <2>2 DEF Min
<1> QED
  BY <1>1, <1>2, <1>3, <1>4 DEF Spreading

-----------------------------------------------------------------------------
(* Type correctness *)

\* A fresh node has an empty queue and no members (pittacus_gossip_init).
LEMMA TypeInit == Init => TypeInv
<1>1. Patience \in Nat
  BY RetryAttemptsAssumption, RetryIntervalAssumption DEF Patience
<1> QED
  BY <1>1, MaxSeqAssumption DEF Init, TypeInv, TypeOK, Counted

\* What a new message does to the list.
LEMMA SubmitEffect ==
    ASSUME TypeInv,
           NEW msg \in Message, NEW fits \in BOOLEAN,
           NEW max \in {1, MESSAGE_RETRY_ATTEMPTS},
           NEW recipients \in Spreading,
           Submit(msg, fits, max, recipients)
    PROVE  LET found == gossip_find_available_output_buffer(queue)
               Kept(x) == \E e \in found.queue :
                             IF fits /\ e.buffer = found.buffer
                             THEN x = [e EXCEPT !.contents = msg]
                             ELSE x = e
               New(x)  == \E i \in 1 .. Len(recipients) :
                             x = NewEnvelope(sequence_num + i, recipients[i],
                                             found.buffer, msg, max)
           IN  /\ found.buffer \in Buffers
               /\ found.queue \subseteq queue
               /\ sequence_num' \in Nat
               /\ sequence_num <= sequence_num'
               /\ sequence_num' <= MaxSeq
               /\ fits => sequence_num' = sequence_num + Len(recipients)
               /\ \A x \in queue' : Kept(x) \/ (fits /\ New(x))
<1> DEFINE found == gossip_find_available_output_buffer(queue)
<1>1. found.buffer \in Buffers /\ found.queue \subseteq queue
  <2>1. queue \in SUBSET Env
    BY DEF TypeInv, TypeOK, Env
  <2>2. \A e \in queue : e.attempt_num <= MESSAGE_RETRY_ATTEMPTS
    BY RetryAttemptsAssumption DEF TypeInv, TypeOK, Counted, Envelope
  <2> QED
    BY <2>1, <2>2, BufferFound, RetryAttemptsAssumption
<1>2. /\ Len(recipients) \in Nat
      /\ DOMAIN recipients = 1 .. Len(recipients)
  BY SpreadingType DEF TypeInv
<1>3. CASE ~fits
  <2>1. queue' = found.queue /\ sequence_num' = sequence_num
    BY <1>3 DEF Submit, gossip_enqueue_message
  <2> QED
    BY <1>1, <1>3, <2>1 DEF TypeInv, TypeOK, Counted
<1>4. CASE fits
  <2> DEFINE new == {NewEnvelope(sequence_num + i, recipients[i],
                                 found.buffer, msg, max) : i \in DOMAIN recipients}
  <2>1. /\ queue' = WriteBuffer(found.queue, found.buffer, msg) \cup new
        /\ sequence_num' = sequence_num + Len(recipients)
        /\ sequence_num + Len(recipients) <= MaxSeq
    BY <1>4 DEF Submit, gossip_enqueue_message
  <2>2. \A x \in new : \E i \in 1 .. Len(recipients) :
             x = NewEnvelope(sequence_num + i, recipients[i],
                             found.buffer, msg, max)
    BY <1>2
  <2>3. \A x \in WriteBuffer(found.queue, found.buffer, msg) :
             \E e \in found.queue : IF e.buffer = found.buffer
                                    THEN x = [e EXCEPT !.contents = msg]
                                    ELSE x = e
    BY DEF WriteBuffer
  <2>4. sequence_num \in Nat
    BY DEF TypeInv, TypeOK
  <2> HIDE DEF new, found
  <2> QED
    BY <1>1, <1>2, <1>4, <2>1, <2>2, <2>3, <2>4 DEF found
<1> QED
  BY <1>3, <1>4

\* gossip_enqueue_message keeps the types: it picks a real buffer, and fresh
\* numbers for the new envelopes.
LEMMA SubmitType ==
    ASSUME TypeInv,
           NEW msg \in Message, NEW fits \in BOOLEAN,
           NEW max \in {1, MESSAGE_RETRY_ATTEMPTS},
           NEW recipients \in Spreading,
           Submit(msg, fits, max, recipients)
    PROVE  TypeInv'
<1> DEFINE found == gossip_find_available_output_buffer(queue)
           Kept(x, e) == IF fits /\ e.buffer = found.buffer
                         THEN x = [e EXCEPT !.contents = msg] ELSE x = e
           New(x, i)  == x = NewEnvelope(sequence_num + i, recipients[i],
                                         found.buffer, msg, max)
<1>1. /\ found.buffer \in Buffers
      /\ found.queue \subseteq queue
      /\ sequence_num' \in Nat
      /\ sequence_num <= sequence_num'
      /\ sequence_num' <= MaxSeq
      /\ fits => sequence_num' = sequence_num + Len(recipients)
      /\ \A x \in queue' : \/ \E e \in found.queue : Kept(x, e)
                           \/ fits /\ \E i \in 1 .. Len(recipients) : New(x, i)
  BY SubmitEffect
<1>2. /\ Len(recipients) \in Nat
      /\ \A i \in 1 .. Len(recipients) : recipients[i] \in Recipient
  BY SpreadingType DEF TypeInv
<1>3. /\ queue \subseteq Env
      /\ sequence_num \in Nat
  BY DEF TypeInv, TypeOK, Env
<1>4. \A e \in queue : \A x : Kept(x, e) =>
         /\ x \in Env
         /\ x.sequence_num = e.sequence_num
         /\ x.max_attempts = e.max_attempts
         /\ x.attempt_num = e.attempt_num
  BY <1>3 DEF Env, Envelope
<1>5. \A i \in 1 .. Len(recipients) : \A x : New(x, i) =>
         /\ x \in Env
         /\ x.sequence_num = sequence_num + i
         /\ x.max_attempts = max
         /\ x.attempt_num = 0
  <2> SUFFICES ASSUME NEW i \in 1 .. Len(recipients)
               PROVE  LET x == NewEnvelope(sequence_num + i, recipients[i],
                                           found.buffer, msg, max)
                      IN  /\ x \in Env
                          /\ x.sequence_num = sequence_num + i
                          /\ x.max_attempts = max
                          /\ x.attempt_num = 0
    OBVIOUS
  <2>1. sequence_num + i \in Nat
    BY <1>2, <1>3
  <2> HIDE DEF found
  <2> QED
    BY <1>1, <1>2, <2>1, NewEnv
<1>6. \A e \in queue : \A x, y : Kept(x, e) /\ Kept(y, e) => x = y
  OBVIOUS
<1>7. \A i : \A x, y : New(x, i) /\ New(y, i) => x = y
  OBVIOUS
<1> HIDE DEF found, Kept, New
<1>8. queue' \subseteq Envelope(Message, Recipient)
  BY <1>1, <1>4, <1>5 DEF Env
<1>9. \A x \in queue' : /\ x.sequence_num >= 1
                        /\ x.sequence_num <= sequence_num'
                        /\ x.max_attempts \in {1, MESSAGE_RETRY_ATTEMPTS}
                        /\ x.attempt_num <= x.max_attempts
  <2> SUFFICES ASSUME NEW x \in queue'
               PROVE  /\ x.sequence_num >= 1
                      /\ x.sequence_num <= sequence_num'
                      /\ x.max_attempts \in {1, MESSAGE_RETRY_ATTEMPTS}
                      /\ x.attempt_num <= x.max_attempts
    OBVIOUS
  <2>1. CASE \E e \in found.queue : Kept(x, e)
    <3>1. PICK e \in queue : Kept(x, e)
      BY <1>1, <2>1
    <3>2. /\ e.sequence_num >= 1
          /\ e.sequence_num <= sequence_num
          /\ e.max_attempts \in {1, MESSAGE_RETRY_ATTEMPTS}
          /\ e.attempt_num <= e.max_attempts
          /\ e.sequence_num \in Nat
      BY <1>3 DEF TypeInv, Counted, Env, Envelope
    <3> QED
      BY <1>1, <1>3, <1>4, <3>1, <3>2
  <2>2. CASE fits /\ \E i \in 1 .. Len(recipients) : New(x, i)
    BY <1>1, <1>2, <1>3, <1>5, <2>2, RetryAttemptsAssumption
  <2> QED
    BY <1>1, <2>1, <2>2
<1>10. \A x, y \in queue' : x.sequence_num = y.sequence_num => x = y
  <2> SUFFICES ASSUME NEW x \in queue', NEW y \in queue',
                      x.sequence_num = y.sequence_num
               PROVE  x = y
    OBVIOUS
  <2>1. \A e \in queue : e.sequence_num \in Nat /\ e.sequence_num <= sequence_num
    BY <1>3 DEF TypeInv, Counted, Env, Envelope
  <2>2. CASE /\ \E e \in found.queue : Kept(x, e)
             /\ \E e \in found.queue : Kept(y, e)
    <3>1. PICK e \in queue, f \in queue : Kept(x, e) /\ Kept(y, f)
      BY <1>1, <2>2
    <3>2. e = f
      BY <1>4, <3>1 DEF TypeInv, Counted
    <3> QED
      BY <1>6, <3>1, <3>2
  <2>3. CASE fits /\ /\ \E i \in 1 .. Len(recipients) : New(x, i)
                     /\ \E i \in 1 .. Len(recipients) : New(y, i)
    <3>1. PICK i \in 1 .. Len(recipients), j \in 1 .. Len(recipients) :
             New(x, i) /\ New(y, j)
      BY <2>3
    <3>2. i = j
      BY <1>2, <1>3, <1>5, <3>1
    <3> QED
      BY <1>7, <3>1, <3>2
  <2>4. \A e \in queue, i \in 1 .. Len(recipients) :
           \A u, v : Kept(u, e) /\ New(v, i) => u.sequence_num # v.sequence_num
    BY <1>2, <1>3, <1>4, <1>5, <2>1
  <2> QED
    BY <1>1, <2>2, <2>3, <2>4
<1>11. members' = members /\ waited' = waited
  BY DEF Submit
<1> QED
  BY <1>1, <1>8, <1>9, <1>10, <1>11 DEF TypeInv, TypeOK, Counted

\* History of waiting stays within its range.
LEMMA WaitedType ==
    ASSUME NEW w \in 0 .. Patience, NEW D \in Nat
    PROVE  /\ Waited(w, D) \in 0 .. Patience
           /\ Waited(w, D) = Patience \/ Waited(w, D) = w + D
<1>1. Patience \in Nat
  BY RetryAttemptsAssumption, RetryIntervalAssumption DEF Patience
<1> QED
  BY <1>1 DEF Waited

\* What a pass leaves of an envelope: its place and, once counted, its
\* attempts.
LEMMA PassKeeps ==
    ASSUME TypeInv, NEW D \in 0 .. MaxDrift, NEW d \in [queue -> 0 .. D],
           NEW stop, Pass(d, D, stop), NEW x \in queue'
    PROVE  \E e \in queue :
              /\ x \in Env
              /\ x.sequence_num = e.sequence_num
              /\ x.buffer = e.buffer
              /\ x.contents = e.contents
              /\ x.message = e.message
              /\ x.max_attempts = e.max_attempts
              /\ \/ /\ e \in Due(queue, d) /\ e.sequence_num < stop
                    /\ x = Attempted(e, D - d[e])
                    /\ x.attempt_num = e.attempt_num + 1
                    /\ x.attempt_age = Aged(0, D - d[e])
                    /\ ~ Exhausted(e)
                 \/ /\ ~ (e \in Due(queue, d) /\ e.sequence_num < stop)
                    /\ ~ (e \in GivenUp(queue) /\ e.sequence_num < stop)
                    /\ x = Older(e, D)
                    /\ x.attempt_num = e.attempt_num
                    /\ x.attempt_age = IF e.attempt_num = 0 THEN e.attempt_age
                                       ELSE Aged(e.attempt_age, D)
<1>1. x \in AfterPass(queue, d, D, stop)
  BY DEF Pass
<1>2. PICK e \in queue :
             /\ ~ (e \in GivenUp(queue) /\ e.sequence_num < stop)
             /\ \/ /\ e \in Due(queue, d) /\ e.sequence_num < stop
                   /\ ~ (e.max_attempts <= 1)
                   /\ x = Attempted(e, D - d[e])
                \/ /\ ~ (e \in Due(queue, d) /\ e.sequence_num < stop)
                   /\ x = Older(e, D)
  BY <1>1, PassOrigin
<1>3. e \in Env /\ D \in Nat /\ d[e] \in 0 .. D /\ D - d[e] \in Nat
  BY MaxDriftAssumption DEF TypeInv, TypeOK, Env
<1>4. CASE /\ e \in Due(queue, d) /\ e.sequence_num < stop
           /\ x = Attempted(e, D - d[e])
  <2>1. ~ Exhausted(e)
    BY <1>4 DEF Due, GivenUp
  <2> QED
    BY <1>3, <1>4, <2>1, AttemptedEnv
<1>5. CASE /\ ~ (e \in Due(queue, d) /\ e.sequence_num < stop)
           /\ x = Older(e, D)
  BY <1>2, <1>3, <1>5, OlderEnv
<1> QED
  BY <1>2, <1>4, <1>5

\* pittacus_gossip_process_send keeps the types, wherever it stops.
LEMMA PassType ==
    ASSUME TypeInv, NEW D \in 0 .. MaxDrift, NEW d \in [queue -> 0 .. D],
           NEW stop, Pass(d, D, stop)
    PROVE  TypeInv'
<1>1. queue' \subseteq Envelope(Message, Recipient)
  BY PassKeeps DEF Env
<1>2. sequence_num' = sequence_num /\ members' \subseteq members
  BY DEF Pass
<1>3. waited' \in [1 .. MaxSeq -> 0 .. Patience]
  <2> SUFFICES ASSUME NEW s \in 1 .. MaxSeq
               PROVE  waited'[s] \in 0 .. Patience
    BY DEF Pass
  <2>0. waited[s] \in 0 .. Patience /\ 0 \in 0 .. Patience /\ D \in Nat
    BY MaxDriftAssumption, RetryAttemptsAssumption, RetryIntervalAssumption
       DEF TypeInv, TypeOK, Patience
  <2>1. CASE \E e \in queue : e.sequence_num = s /\ e.attempt_num > 0
    <3>1. waited'[s] = Waited(waited[s], D)
      BY <2>1 DEF Pass
    <3> QED
      BY <2>0, <3>1, WaitedType
  <2>2. CASE /\ ~ \E e \in queue : e.sequence_num = s /\ e.attempt_num > 0
             /\ \E e \in Due(queue, d) : e.sequence_num = s /\ s < stop
    <3> DEFINE c == CHOOSE e \in queue : e.sequence_num = s
    <3>1. waited'[s] = Waited(0, D - d[c])
      BY <2>2 DEF Pass
    <3>2. c \in queue
      BY <2>2 DEF Due
    <3>3. D - d[c] \in Nat
      BY <2>0, <3>2
    <3> HIDE DEF c
    <3> QED
      BY <2>0, <3>1, <3>3, WaitedType
  <2>3. CASE /\ ~ \E e \in queue : e.sequence_num = s /\ e.attempt_num > 0
             /\ ~ \E e \in Due(queue, d) : e.sequence_num = s /\ s < stop
    <3>1. waited'[s] = waited[s]
      BY <2>3 DEF Pass
    <3> QED
      BY <2>0, <3>1
  <2> QED
    BY <2>1, <2>2, <2>3
<1>4. \A x \in queue' : /\ x.sequence_num >= 1
                        /\ x.sequence_num <= sequence_num'
                        /\ x.max_attempts \in {1, MESSAGE_RETRY_ATTEMPTS}
                        /\ x.attempt_num <= x.max_attempts
  <2> SUFFICES ASSUME NEW x \in queue'
               PROVE  /\ x.sequence_num >= 1
                      /\ x.sequence_num <= sequence_num'
                      /\ x.max_attempts \in {1, MESSAGE_RETRY_ATTEMPTS}
                      /\ x.attempt_num <= x.max_attempts
    OBVIOUS
  <2>1. PICK e \in queue :
           /\ x.sequence_num = e.sequence_num
           /\ x.max_attempts = e.max_attempts
           /\ \/ x.attempt_num = e.attempt_num
              \/ x.attempt_num = e.attempt_num + 1 /\ ~ Exhausted(e)
    BY PassKeeps
  <2>2. e.attempt_num \in Nat /\ e.max_attempts \in Nat
    BY DEF TypeInv, TypeOK, Envelope
  <2> QED
    BY <1>2, <2>1, <2>2 DEF TypeInv, Counted, Exhausted
<1>5. \A x, y \in queue' : x.sequence_num = y.sequence_num => x = y
  <2> SUFFICES ASSUME NEW x \in queue', NEW y \in queue',
                      x.sequence_num = y.sequence_num
               PROVE  x = y
    OBVIOUS
  <2>1. PICK e \in queue :
           /\ x.sequence_num = e.sequence_num
           /\ \/ /\ e \in Due(queue, d) /\ e.sequence_num < stop
                 /\ x = Attempted(e, D - d[e])
              \/ /\ ~ (e \in Due(queue, d) /\ e.sequence_num < stop)
                 /\ x = Older(e, D)
    BY PassKeeps
  <2>2. PICK f \in queue :
           /\ y.sequence_num = f.sequence_num
           /\ \/ /\ f \in Due(queue, d) /\ f.sequence_num < stop
                 /\ y = Attempted(f, D - d[f])
              \/ /\ ~ (f \in Due(queue, d) /\ f.sequence_num < stop)
                 /\ y = Older(f, D)
    BY PassKeeps
  <2>3. e = f
    BY <2>1, <2>2 DEF TypeInv, Counted
  <2> QED
    BY <2>1, <2>2, <2>3
<1> QED
  BY <1>1, <1>2, <1>3, <1>4, <1>5 DEF TypeInv, TypeOK, Counted

\* Time passing between two calls changes ages and nothing else.
LEMMA TimeKeeps ==
    ASSUME TypeInv, TimePasses, NEW x \in queue'
    PROVE  \E e \in queue :
              /\ x \in Env
              /\ x.sequence_num = e.sequence_num
              /\ x.buffer = e.buffer
              /\ x.contents = e.contents
              /\ x.message = e.message
              /\ x.max_attempts = e.max_attempts
              /\ x = Older(e, 1)
              /\ x.attempt_num = e.attempt_num
              /\ x.attempt_age = IF e.attempt_num = 0 THEN e.attempt_age
                                 ELSE Aged(e.attempt_age, 1)
<1>1. PICK e \in queue : x = Older(e, 1)
  BY DEF TimePasses, Elapse
<1>2. e \in Env /\ 1 \in Nat
  BY DEF TypeInv, TypeOK, Env
<1> QED
  BY <1>1, <1>2, OlderEnv

\* Time between two calls keeps the types.
LEMMA TimeType ==
    ASSUME TypeInv, TimePasses
    PROVE  TypeInv'
<1>1. queue' \subseteq Envelope(Message, Recipient)
  BY TimeKeeps DEF Env
<1>2. sequence_num' = sequence_num /\ members' = members
  BY DEF TimePasses
<1>3. waited' \in [1 .. MaxSeq -> 0 .. Patience]
  <2> SUFFICES ASSUME NEW s \in 1 .. MaxSeq
               PROVE  waited'[s] \in 0 .. Patience
    BY DEF TimePasses
  <2>1. waited[s] \in 0 .. Patience
    BY DEF TypeInv, TypeOK
  <2>2. waited'[s] = Waited(waited[s], 1) \/ waited'[s] = waited[s]
    BY DEF TimePasses
  <2> QED
    BY <2>1, <2>2, WaitedType
<1>4. \A x \in queue' : /\ x.sequence_num >= 1
                        /\ x.sequence_num <= sequence_num'
                        /\ x.max_attempts \in {1, MESSAGE_RETRY_ATTEMPTS}
                        /\ x.attempt_num <= x.max_attempts
  BY <1>2, TimeKeeps DEF TypeInv, Counted
<1>5. \A x, y \in queue' : x.sequence_num = y.sequence_num => x = y
  <2> SUFFICES ASSUME NEW x \in queue', NEW y \in queue',
                      x.sequence_num = y.sequence_num
               PROVE  x = y
    OBVIOUS
  <2>1. PICK e \in queue : x.sequence_num = e.sequence_num /\ x = Older(e, 1)
    BY TimeKeeps
  <2>2. PICK f \in queue : y.sequence_num = f.sequence_num /\ y = Older(f, 1)
    BY TimeKeeps
  <2> QED
    BY <2>1, <2>2 DEF TypeInv, Counted
<1> QED
  BY <1>1, <1>2, <1>3, <1>4, <1>5 DEF TypeInv, TypeOK, Counted

\* Every step of the queue keeps the types and the numbering.
LEMMA TypeStep == TypeInv /\ [Next]_vars => TypeInv'
<1> SUFFICES ASSUME TypeInv, [Next]_vars PROVE TypeInv'
  OBVIOUS
<1>1. CASE SubmitAny
  <2>1. PICK msg \in Message, fits \in BOOLEAN,
             max \in {1, MESSAGE_RETRY_ATTEMPTS}, recipients \in Spreading :
             Submit(msg, fits, max, recipients)
    BY <1>1 DEF SubmitAny
  <2> QED
    BY <2>1, SubmitType
<1>2. CASE \E s \in 1 .. MaxSeq : Acknowledge(s)
  BY <1>2 DEF Acknowledge, gossip_envelope_remove, TypeInv, TypeOK, Counted
<1>3. CASE \E r \in Recipient : AddMember(r)
  BY <1>3 DEF AddMember, TypeInv, TypeOK, Counted
<1>4. CASE ProcessSend
  BY <1>4, PassType DEF ProcessSend, Timings
<1>5. CASE TimePasses
  BY <1>5, TimeType
<1>6. CASE UNCHANGED vars
  BY <1>6 DEF vars, TypeInv, TypeOK, Counted
<1> QED
  BY <1>1, <1>2, <1>3, <1>4, <1>5, <1>6 DEF Next

\* Type correctness of the outbound queue: every envelope points into the
\* output buffer array, whatever was evicted, refused, retried or given up.
THEOREM TypeCorrect == Spec => []TypeOK
<1>1. TypeInv => TypeOK
  BY DEF TypeInv
<1> QED
  BY <1>1, TypeInit, TypeStep, PTL DEF Spec

\* The stronger invariant the other theorems use.
THEOREM TypeInvariant == Spec => []TypeInv
BY TypeInit, TypeStep, PTL DEF Spec

-----------------------------------------------------------------------------
(* Envelopes keep their messages, as long as the clock does not tick inside *)
(* a pass.                                                                  *)

MessageInv == TypeInv /\ GroupsInOrder /\ EnvelopeKeepsItsMessage

\* The queue as the lemmas of Outbound_proofs see it.
LEMMA MessageWellFormed ==
    ASSUME MessageInv
    PROVE  /\ WellFormed([queue |-> queue, sequence_num |-> sequence_num],
                         Message, Recipient)
           /\ Intact(queue)
<1>1. \A e \in queue : Proper(e, sequence_num)
  BY DEF MessageInv, TypeInv, Counted, Proper
<1>2. Numbered(queue) /\ Intact(queue)
  BY DEF MessageInv, TypeInv, Counted, GroupsInOrder, EnvelopeKeepsItsMessage,
         Numbered, Intact
<1>3. queue \in SUBSET Envelope(Message, Recipient) /\ sequence_num \in Nat
  BY DEF MessageInv, TypeInv, TypeOK
<1> QED
  BY <1>1, <1>2, <1>3 DEF WellFormed

\* gossip_enqueue_message overwrites no message that is still queued, and
\* appends the envelopes of the new one as a group, in order.
LEMMA SubmitMessage ==
    ASSUME MessageInv,
           NEW msg \in Message, NEW fits \in BOOLEAN,
           NEW max \in {1, MESSAGE_RETRY_ATTEMPTS},
           NEW recipients \in Spreading,
           Submit(msg, fits, max, recipients)
    PROVE  GroupsInOrder' /\ EnvelopeKeepsItsMessage'
<1>1. PICK o : o = [queue |-> queue, sequence_num |-> sequence_num]
  OBVIOUS
<1>2. PICK p : p = gossip_enqueue_message(o, msg, fits, max, recipients)
  OBVIOUS
<1>3. recipients \in Seq(Recipient)
  <2>1. /\ Len(recipients) \in Nat
        /\ DOMAIN recipients = 1 .. Len(recipients)
        /\ \A i \in DOMAIN recipients : recipients[i] \in Recipient
    BY SpreadingType DEF MessageInv, TypeInv
  <2>2. recipients = [i \in 1 .. Len(recipients) |-> recipients[i]]
    BY <2>1 DEF Spreading, Lists
  <2> QED
    BY <2>1, <2>2
<1>4. WellFormed(o, Message, Recipient) /\ Intact(o.queue)
  BY <1>1, MessageWellFormed
<1>5. Intact(p.queue)
  BY <1>2, <1>3, <1>4, EnqueueIntact
<1>6. queue' = p.queue
  BY <1>1, <1>2 DEF Submit
<1>7. Grouped(queue') /\ \A e \in queue' : e.contents = e.message
  BY <1>5, <1>6 DEF Intact
<1> QED
  BY <1>7 DEF GroupsInOrder, EnvelopeKeepsItsMessage

\* A pass of pittacus_gossip_process_send, however short, treats the
\* envelopes of one message alike from the first one on: groups stay in order.
LEMMA PassMessage ==
    ASSUME MaxDrift = 0, MessageInv,
           NEW D \in 0 .. MaxDrift, NEW d \in [queue -> 0 .. D],
           NEW stop \in Nat, Pass(d, D, stop)
    PROVE  GroupsInOrder' /\ EnvelopeKeepsItsMessage'
<1>1. D = 0 /\ \A e \in queue : d[e] = 0
  OBVIOUS
<1>2. TypeInv /\ queue \in SUBSET Envelope(Message, Recipient) /\ Grouped(queue)
  BY DEF MessageInv, TypeInv, TypeOK, GroupsInOrder
<1>3. EnvelopeKeepsItsMessage'
  BY <1>2, PassKeeps DEF EnvelopeKeepsItsMessage, MessageInv
<1>4. Grouped(AfterPass(queue, d, 0, stop))
  BY <1>1, <1>2, PassGrouped
<1> QED
  BY <1>1, <1>3, <1>4 DEF Pass, GroupsInOrder

\* Time between two calls keeps messages and groups.
LEMMA TimeMessage ==
    ASSUME MessageInv, TimePasses
    PROVE  GroupsInOrder' /\ EnvelopeKeepsItsMessage'
<1>1. TypeInv /\ queue \in SUBSET Envelope(Message, Recipient) /\ Grouped(queue)
  BY DEF MessageInv, TypeInv, TypeOK, GroupsInOrder
<1>2. EnvelopeKeepsItsMessage'
  BY <1>1, TimeKeeps DEF EnvelopeKeepsItsMessage, MessageInv
<1>3. Grouped(Elapse(queue, 1))
  BY <1>1, ElapseGrouped
<1> QED
  BY <1>2, <1>3 DEF TimePasses, GroupsInOrder

\* A pass stops at the number of an envelope, or past the last one.
LEMMA StopsType ==
    ASSUME TypeInv, NEW d, NEW stop \in Stops(d)
    PROVE  stop \in Nat
BY DEF Stops, Due, TypeInv, TypeOK, Envelope

\* Without a clock tick inside a pass, every step keeps messages and groups.
LEMMA MessageStep ==
    ASSUME MaxDrift = 0
    PROVE  MessageInv /\ [Next]_vars => MessageInv'
<1> SUFFICES ASSUME MessageInv, [Next]_vars PROVE MessageInv'
  OBVIOUS
<1>0. TypeInv'
  BY TypeStep DEF MessageInv
<1>1. CASE SubmitAny
  <2>1. PICK msg \in Message, fits \in BOOLEAN,
             max \in {1, MESSAGE_RETRY_ATTEMPTS}, recipients \in Spreading :
             Submit(msg, fits, max, recipients)
    BY <1>1 DEF SubmitAny
  <2> QED
    BY <1>0, <2>1, SubmitMessage DEF MessageInv
<1>2. CASE \E s \in 1 .. MaxSeq : Acknowledge(s)
  <2>1. queue' \subseteq queue
    BY <1>2 DEF Acknowledge, gossip_envelope_remove
  <2> QED
    BY <1>0, <2>1
       DEF MessageInv, GroupsInOrder, Grouped, EnvelopeKeepsItsMessage, Ahead
<1>3. CASE \E r \in Recipient : AddMember(r)
  BY <1>0, <1>3
     DEF AddMember, MessageInv, GroupsInOrder, Grouped, EnvelopeKeepsItsMessage, Ahead
<1>4. CASE ProcessSend
  <2>0. PICK D \in 0 .. MaxDrift : \E d \in [queue -> 0 .. D] :
             \E stop \in Stops(d) : Pass(d, D, stop)
    BY <1>4 DEF ProcessSend, Timings
  <2>1. PICK d \in [queue -> 0 .. D] : \E stop \in Stops(d) : Pass(d, D, stop)
    BY <2>0
  <2>2. PICK stop \in Stops(d) : Pass(d, D, stop)
    BY <2>1
  <2>3. stop \in Nat
    BY <2>2, StopsType DEF MessageInv
  <2> QED
    BY <1>0, <2>2, <2>3, PassMessage DEF MessageInv
<1>5. CASE TimePasses
  BY <1>0, <1>5, TimeMessage DEF MessageInv
<1>6. CASE UNCHANGED vars
  BY <1>0, <1>6
     DEF vars, MessageInv, GroupsInOrder, Grouped, EnvelopeKeepsItsMessage, Ahead
<1> QED
  BY <1>1, <1>2, <1>3, <1>4, <1>5, <1>6 DEF Next

\* When pt_time() does not advance inside a pass, no queued envelope ever
\* points at a buffer that has been given to another message, for any number
\* of buffers, attempts and recipients: eviction removes every envelope that
\* shares the buffer it gives away.
THEOREM MessagesKept ==
    ASSUME MaxDrift = 0
    PROVE  Spec => []EnvelopeKeepsItsMessage
<1>1. Init => MessageInv
  BY TypeInit DEF Init, MessageInv, GroupsInOrder, Grouped, EnvelopeKeepsItsMessage
<1>2. MessageInv /\ [Next]_vars => MessageInv'
  BY MessageStep
<1>3. MessageInv => EnvelopeKeepsItsMessage
  BY DEF MessageInv
<1> QED
  BY <1>1, <1>2, <1>3, PTL DEF Spec

\* Under the same condition the envelopes of one message stay together and in
\* order, which is what the eviction walk relies on.
THEOREM GroupsKept ==
    ASSUME MaxDrift = 0
    PROVE  Spec => []GroupsInOrder
<1>1. Init => MessageInv
  BY TypeInit DEF Init, MessageInv, GroupsInOrder, Grouped, EnvelopeKeepsItsMessage
<1>2. MessageInv /\ [Next]_vars => MessageInv'
  BY MessageStep
<1>3. MessageInv => GroupsInOrder
  BY DEF MessageInv
<1> QED
  BY <1>1, <1>2, <1>3, PTL DEF Spec

-----------------------------------------------------------------------------
(* Members are not dropped early, however the clock ticks. *)

\* An envelope tried k times has waited k - 1 full intervals and its age.
WaitedEnough ==
    \A e \in queue :
        e.attempt_num > 0 =>
          \/ waited[e.sequence_num] = Patience
          \/ waited[e.sequence_num] >=
               (e.attempt_num - 1) * MESSAGE_RETRY_INTERVAL + e.attempt_age

WaitInv == TypeInv /\ WaitedEnough

\* New envelopes of gossip_enqueue_message have not waited and need not have.
LEMMA SubmitWait ==
    ASSUME WaitInv,
           NEW msg \in Message, NEW fits \in BOOLEAN,
           NEW max \in {1, MESSAGE_RETRY_ATTEMPTS},
           NEW recipients \in Spreading,
           Submit(msg, fits, max, recipients)
    PROVE  WaitedEnough'
<1> DEFINE found == gossip_find_available_output_buffer(queue)
           Kept(x, e) == IF fits /\ e.buffer = found.buffer
                         THEN x = [e EXCEPT !.contents = msg] ELSE x = e
           New(x, i)  == x = NewEnvelope(sequence_num + i, recipients[i],
                                         found.buffer, msg, max)
<1>1. /\ found.queue \subseteq queue
      /\ \A x \in queue' : \/ \E e \in found.queue : Kept(x, e)
                           \/ fits /\ \E i \in 1 .. Len(recipients) : New(x, i)
  BY SubmitEffect DEF WaitInv
<1>2. \A e \in queue : \A x : Kept(x, e) =>
         /\ x.sequence_num = e.sequence_num
         /\ x.attempt_num = e.attempt_num
         /\ x.attempt_age = e.attempt_age
  BY DEF WaitInv, TypeInv, TypeOK, Envelope
<1>3. \A i : \A x : New(x, i) => x.attempt_num = 0
  BY DEF NewEnvelope
<1>4. waited' = waited
  BY DEF Submit
<1> HIDE DEF found, Kept, New
<1>5. \A x \in queue' : \/ x.attempt_num = 0
                        \/ \E e \in queue :
                              /\ x.sequence_num = e.sequence_num
                              /\ x.attempt_num = e.attempt_num
                              /\ x.attempt_age = e.attempt_age
  BY <1>1, <1>2, <1>3
<1> QED
  BY <1>4, <1>5 DEF WaitInv, WaitedEnough

\* One more attempt is worth one more interval.
LEMMA OneMoreInterval ==
    ASSUME NEW k \in Nat
    PROVE  /\ k * MESSAGE_RETRY_INTERVAL \in Int
           /\ (k - 1) * MESSAGE_RETRY_INTERVAL \in Int
           /\ k * MESSAGE_RETRY_INTERVAL =
                (k - 1) * MESSAGE_RETRY_INTERVAL + MESSAGE_RETRY_INTERVAL
BY RetryIntervalAssumption

\* A pass counts an attempt only when an interval has been waited for since
\* the one before.
LEMMA PassWait ==
    ASSUME WaitInv, NEW D \in 0 .. MaxDrift, NEW d \in [queue -> 0 .. D],
           NEW stop, Pass(d, D, stop)
    PROVE  WaitedEnough'
<1>1. TypeInv /\ D \in Nat
  BY MaxDriftAssumption DEF WaitInv
<1>2. SUFFICES ASSUME NEW x \in queue', x.attempt_num > 0
               PROVE  \/ waited'[x.sequence_num] = Patience
                      \/ waited'[x.sequence_num] >=
                           (x.attempt_num - 1) * MESSAGE_RETRY_INTERVAL
                             + x.attempt_age
  BY DEF WaitedEnough
<1>3. PICK e \in queue :
         /\ x.sequence_num = e.sequence_num
         /\ \/ /\ e \in Due(queue, d) /\ e.sequence_num < stop
               /\ x.attempt_num = e.attempt_num + 1
               /\ x.attempt_age = Aged(0, D - d[e])
            \/ /\ x.attempt_num = e.attempt_num
               /\ x.attempt_age = IF e.attempt_num = 0 THEN e.attempt_age
                                  ELSE Aged(e.attempt_age, D)
  BY <1>1, PassKeeps
<1> DEFINE s == e.sequence_num
<1>4. /\ s \in 1 .. MaxSeq
      /\ waited[s] \in 0 .. Patience
      /\ e.attempt_num \in Nat
      /\ e.attempt_age \in 0 .. MESSAGE_RETRY_INTERVAL
      /\ d[e] \in 0 .. D
      /\ D - d[e] \in Nat
      /\ Patience \in Nat
  BY <1>1, MaxSeqAssumption, RetryAttemptsAssumption, RetryIntervalAssumption
     DEF TypeInv, TypeOK, Counted, Envelope, Patience
<1>5. CASE e.attempt_num > 0
  <2>1. waited'[s] = Waited(waited[s], D)
    BY <1>4, <1>5 DEF Pass
  <2>2. \/ waited[s] = Patience
        \/ waited[s] >= (e.attempt_num - 1) * MESSAGE_RETRY_INTERVAL
                          + e.attempt_age
    BY <1>5 DEF WaitInv, WaitedEnough
  <2>3. waited'[s] = Patience \/ waited'[s] = waited[s] + D
    BY <1>1, <1>4, <2>1, WaitedType
  <2>4. (e.attempt_num - 1) * MESSAGE_RETRY_INTERVAL \in Int
    BY <1>4, OneMoreInterval
  <2>5. CASE /\ x.attempt_num = e.attempt_num
             /\ x.attempt_age = Aged(e.attempt_age, D)
    <3>1. /\ Aged(e.attempt_age, D) \in Nat
          /\ Aged(e.attempt_age, D) <= e.attempt_age + D
      <4>1. e.attempt_age \in Nat
        BY <1>4
      <4> QED
        BY <1>1, <1>4, <4>1, RetryIntervalAssumption DEF Aged
    <3>2. waited[s] = Patience => waited'[s] = Patience
      BY <1>1, <1>4, <2>1 DEF Waited
    <3> QED
      BY <1>1, <1>3, <1>4, <2>2, <2>3, <2>4, <2>5, <3>1, <3>2
  <2>6. CASE /\ e \in Due(queue, d)
             /\ x.attempt_num = e.attempt_num + 1
             /\ x.attempt_age = Aged(0, D - d[e])
    <3>1. Aged(e.attempt_age, d[e]) >= MESSAGE_RETRY_INTERVAL
      BY <1>4, <1>5, <2>6 DEF Due
    <3>2. e.attempt_age + d[e] >= MESSAGE_RETRY_INTERVAL
      BY <1>4, <3>1, RetryIntervalAssumption DEF Aged
    <3>3. Aged(0, D - d[e]) \in Nat /\ Aged(0, D - d[e]) <= D - d[e]
      BY <1>4, RetryIntervalAssumption DEF Aged
    <3>4. e.attempt_num * MESSAGE_RETRY_INTERVAL =
            (e.attempt_num - 1) * MESSAGE_RETRY_INTERVAL + MESSAGE_RETRY_INTERVAL
      BY <1>4, OneMoreInterval
    <3>5. waited[s] = Patience => waited'[s] = Patience
      BY <1>1, <1>4, <2>1 DEF Waited
    <3>6. (x.attempt_num - 1) * MESSAGE_RETRY_INTERVAL
            = e.attempt_num * MESSAGE_RETRY_INTERVAL
      <4>1. x.attempt_num - 1 = e.attempt_num
        BY <1>4, <2>6
      <4> QED
        BY <4>1
    <3>7. CASE waited'[s] = Patience
      BY <1>3, <3>7
    <3>8. CASE /\ waited'[s] = waited[s] + D
               /\ waited[s] >= (e.attempt_num - 1) * MESSAGE_RETRY_INTERVAL
                                 + e.attempt_age
      <4>1. waited'[s] >= (e.attempt_num - 1) * MESSAGE_RETRY_INTERVAL
                            + MESSAGE_RETRY_INTERVAL + Aged(0, D - d[e])
        BY <1>1, <1>4, <2>4, <3>2, <3>3, <3>8, RetryIntervalAssumption
      <4> QED
        BY <1>3, <2>6, <3>4, <3>6, <4>1
    <3> QED
      BY <2>2, <2>3, <3>5, <3>7, <3>8
  <2> QED
    BY <1>3, <1>5, <2>5, <2>6
<1>6. CASE e.attempt_num = 0
  <2>1. /\ e \in Due(queue, d) /\ s < stop
        /\ x.attempt_num = 1
        /\ x.attempt_age = Aged(0, D - d[e])
    BY <1>2, <1>3, <1>6
  <2>2. \A f \in queue : f.sequence_num = s => f = e
    BY <1>1 DEF TypeInv, Counted
  <2>3. (CHOOSE f \in queue : f.sequence_num = s) = e
    BY <2>2
  <2>4. ~ \E f \in queue : f.sequence_num = s /\ f.attempt_num > 0
    BY <1>4, <1>6, <2>2
  <2>5. waited'[s] = Waited(0, D - d[e])
    BY <1>4, <2>1, <2>3, <2>4 DEF Pass
  <2>6. waited'[s] = Patience \/ waited'[s] = 0 + (D - d[e])
    BY <1>4, <2>5, WaitedType
  <2>7. Aged(0, D - d[e]) \in Nat /\ Aged(0, D - d[e]) <= D - d[e]
    BY <1>4, RetryIntervalAssumption DEF Aged
  <2>8. (x.attempt_num - 1) * MESSAGE_RETRY_INTERVAL = 0
    BY <2>1, RetryIntervalAssumption
  <2> QED
    BY <1>3, <1>4, <2>1, <2>6, <2>7, <2>8
<1> QED
  BY <1>4, <1>5, <1>6

\* Time between two calls is waited by every envelope tried before.
LEMMA TimeWait ==
    ASSUME WaitInv, TimePasses
    PROVE  WaitedEnough'
<1>1. TypeInv
  BY DEF WaitInv
<1>2. SUFFICES ASSUME NEW x \in queue', x.attempt_num > 0
               PROVE  \/ waited'[x.sequence_num] = Patience
                      \/ waited'[x.sequence_num] >=
                           (x.attempt_num - 1) * MESSAGE_RETRY_INTERVAL
                             + x.attempt_age
  BY DEF WaitedEnough
<1>3. PICK e \in queue :
         /\ x.sequence_num = e.sequence_num
         /\ x.attempt_num = e.attempt_num
         /\ x.attempt_age = IF e.attempt_num = 0 THEN e.attempt_age
                            ELSE Aged(e.attempt_age, 1)
  BY <1>1, TimeKeeps
<1> DEFINE s == e.sequence_num
<1>4. /\ s \in 1 .. MaxSeq
      /\ waited[s] \in 0 .. Patience
      /\ e.attempt_num \in Nat
      /\ e.attempt_age \in 0 .. MESSAGE_RETRY_INTERVAL
      /\ Patience \in Nat
  BY <1>1, MaxSeqAssumption, RetryAttemptsAssumption, RetryIntervalAssumption
     DEF TypeInv, TypeOK, Counted, Envelope, Patience
<1>5. e.attempt_num > 0 /\ x.attempt_age = Aged(e.attempt_age, 1)
  BY <1>2, <1>3, <1>4
<1>6. waited'[s] = Waited(waited[s], 1)
  BY <1>4, <1>5 DEF TimePasses
<1>7. \/ waited[s] = Patience
      \/ waited[s] >= (e.attempt_num - 1) * MESSAGE_RETRY_INTERVAL
                        + e.attempt_age
  BY <1>5 DEF WaitInv, WaitedEnough
<1>8. /\ waited'[s] = Patience \/ waited'[s] = waited[s] + 1
      /\ waited[s] = Patience => waited'[s] = Patience
  BY <1>4, <1>6 DEF Waited
<1>9. (e.attempt_num - 1) * MESSAGE_RETRY_INTERVAL \in Int
  BY <1>4, OneMoreInterval
<1>10. Aged(e.attempt_age, 1) \in Nat /\ Aged(e.attempt_age, 1) <= e.attempt_age + 1
  BY <1>4, RetryIntervalAssumption DEF Aged
<1> QED
  BY <1>3, <1>4, <1>5, <1>7, <1>8, <1>9, <1>10

\* Every step keeps the account of attempts and waiting.
LEMMA WaitStep == WaitInv /\ [Next]_vars => WaitInv'
<1> SUFFICES ASSUME WaitInv, [Next]_vars PROVE WaitInv'
  OBVIOUS
<1>0. TypeInv'
  BY TypeStep DEF WaitInv
<1>1. CASE SubmitAny
  <2>1. PICK msg \in Message, fits \in BOOLEAN,
             max \in {1, MESSAGE_RETRY_ATTEMPTS}, recipients \in Spreading :
             Submit(msg, fits, max, recipients)
    BY <1>1 DEF SubmitAny
  <2> QED
    BY <1>0, <2>1, SubmitWait DEF WaitInv
<1>2. CASE \E s \in 1 .. MaxSeq : Acknowledge(s)
  <2>1. queue' \subseteq queue /\ waited' = waited
    BY <1>2 DEF Acknowledge, gossip_envelope_remove
  <2> QED
    BY <1>0, <2>1 DEF WaitInv, WaitedEnough
<1>3. CASE \E r \in Recipient : AddMember(r)
  BY <1>0, <1>3 DEF AddMember, WaitInv, WaitedEnough
<1>4. CASE ProcessSend
  <2>1. PICK D \in 0 .. MaxDrift : \E d \in [queue -> 0 .. D] :
             \E stop \in Stops(d) : Pass(d, D, stop)
    BY <1>4 DEF ProcessSend, Timings
  <2> QED
    BY <1>0, <2>1, PassWait DEF WaitInv
<1>5. CASE TimePasses
  BY <1>0, <1>5, TimeWait DEF WaitInv
<1>6. CASE UNCHANGED vars
  BY <1>0, <1>6 DEF vars, WaitInv, WaitedEnough
<1> QED
  BY <1>1, <1>2, <1>3, <1>4, <1>5, <1>6 DEF Next

\* The step of DroppedOnlyAfterPatience.
Patient ==
    \A r \in members \ members' :
        \E e \in queue : /\ e.recipient = r
                         /\ e.attempt_num >= MESSAGE_RETRY_ATTEMPTS
                         /\ waited[e.sequence_num] = Patience

\* Whatever the clock does inside a pass and wherever writes fail, a member
\* leaves the member set only after a message to it was tried
\* MESSAGE_RETRY_ATTEMPTS times over all the retry intervals between.
THEOREM Patiently == Spec => DroppedOnlyAfterPatience
<1>1. Init => WaitInv
  BY TypeInit DEF Init, WaitInv, WaitedEnough
<1>2. WaitInv /\ [Next]_vars => [Patient]_vars
  <2> SUFFICES ASSUME WaitInv, [Next]_vars PROVE [Patient]_vars
    OBVIOUS
  <2>1. CASE ProcessSend
    <3>1. PICK D \in 0 .. MaxDrift : \E d \in [queue -> 0 .. D] :
               \E stop \in Stops(d) : Pass(d, D, stop)
      BY <2>1 DEF ProcessSend, Timings
    <3>2. ASSUME NEW r \in members \ members'
          PROVE  \E e \in queue : /\ e.recipient = r
                                  /\ e.attempt_num >= MESSAGE_RETRY_ATTEMPTS
                                  /\ waited[e.sequence_num] = Patience
      <4>1. PICK e \in Condemned(queue) : e.recipient = r
        BY <3>1, <3>2 DEF Pass, Dropping
      <4>2. /\ e \in queue
            /\ e.attempt_num >= e.max_attempts
            /\ e.max_attempts > 1
        BY <4>1 DEF Condemned, Exhausted
      <4>3. /\ e.attempt_num \in Nat
            /\ e.max_attempts = MESSAGE_RETRY_ATTEMPTS
            /\ e.attempt_num = MESSAGE_RETRY_ATTEMPTS
            /\ e.attempt_age \in Nat
            /\ waited[e.sequence_num] \in 0 .. Patience
            /\ Patience \in Nat
        BY <4>2, MaxSeqAssumption, RetryAttemptsAssumption, RetryIntervalAssumption
           DEF WaitInv, TypeInv, TypeOK, Counted, Envelope, Patience
      <4>4. \/ waited[e.sequence_num] = Patience
            \/ waited[e.sequence_num] >=
                 (e.attempt_num - 1) * MESSAGE_RETRY_INTERVAL + e.attempt_age
        BY <4>2, <4>3, RetryAttemptsAssumption DEF WaitInv, WaitedEnough
      <4>5. (e.attempt_num - 1) * MESSAGE_RETRY_INTERVAL = Patience
        BY <4>3 DEF Patience
      <4>6. waited[e.sequence_num] = Patience
        BY <4>3, <4>4, <4>5
      <4> QED
        BY <4>1, <4>2, <4>3, <4>6, RetryAttemptsAssumption
    <3> QED
      BY <3>2 DEF Patient
  <2>2. CASE ~ ProcessSend
    <3>1. members \ members' = {}
      BY <2>2 DEF Next, vars, SubmitAny, Submit, Acknowledge, AddMember, TimePasses
    <3> QED
      BY <3>1 DEF Patient
  <2> QED
    BY <2>1, <2>2
<1>3. [Patient]_vars <=> [\A r \in members \ members' :
          \E e \in queue : /\ e.recipient = r
                           /\ e.attempt_num >= MESSAGE_RETRY_ATTEMPTS
                           /\ waited[e.sequence_num] = Patience]_vars
  BY DEF Patient
<1> QED
  BY <1>1, <1>2, <1>3, WaitStep, PTL DEF Spec, DroppedOnlyAfterPatience

-----------------------------------------------------------------------------
(* Giving up *)

\* The sweep starts at an envelope whose recipient is dropped: every envelope that
\* is given up, but was to be acknowledged, is for such a recipient.
LEMMA SweepIsForDropped ==
    ASSUME NEW M, NEW T, NEW q \in SUBSET Envelope(M, T), NEW e \in GivenUp(q),
           e.max_attempts > 1
    PROVE  \E x \in Dropping(q) : /\ x.recipient = e.recipient
                                  /\ x.sequence_num <= e.sequence_num
<1> DEFINE Run(x) == /\ x.sequence_num <= e.sequence_num
                     /\ \A f \in q : /\ x.sequence_num <= f.sequence_num
                                      /\ f.sequence_num <= e.sequence_num
                                      => f.recipient = x.recipient
           Starts == {x.sequence_num : x \in {y \in Condemned(q) : Run(y)}}
<1>1. \A x \in q : x.sequence_num \in Nat
  BY DEF Envelope
<1>2. e \in q /\ Condemned(q) \subseteq q
  BY DEF GivenUp, Swept, Condemned
<1>3. CASE e \in Swept(q)
  <2>1. \E y \in Condemned(q) : Run(y)
    BY <1>1, <1>2, <1>3 DEF Swept
  <2>2. Starts \in SUBSET Nat /\ Starts # {}
    BY <1>1, <1>2, <2>1
  <2>3. PICK s \in Starts : \A t \in Starts : s <= t
    BY <2>2, NatMin
  <2>4. PICK x \in Condemned(q) : Run(x) /\ x.sequence_num = s
    BY <2>3
  <2>5. x.recipient = e.recipient
    BY <1>1, <1>2, <2>4
  <2>6. x \notin Swept(q)
    <3> SUFFICES ASSUME x \in Swept(q) PROVE FALSE
      OBVIOUS
    <3>1. PICK y \in Condemned(q) :
              /\ y.sequence_num < x.sequence_num
              /\ \A f \in q : /\ y.sequence_num <= f.sequence_num
                               /\ f.sequence_num <= x.sequence_num
                               => f.recipient = y.recipient
      BY DEF Swept
    <3>2. y.recipient = x.recipient
      BY <1>1, <1>2, <2>4, <3>1
    <3>3. Run(y)
      BY <1>1, <1>2, <2>4, <3>1, <3>2
    <3>4. y.sequence_num \in Starts
      BY <3>3
    <3> QED
      BY <1>1, <1>2, <2>3, <2>4, <3>1, <3>4
  <2> QED
    BY <2>4, <2>5, <2>6 DEF Dropping
<1>4. CASE e \notin Swept(q)
  <2>1. e \in Dropping(q)
    BY <1>2, <1>4 DEF GivenUp, Condemned, Dropping
  <2> QED
    BY <1>1, <1>2, <2>1
<1> QED
  BY <1>3, <1>4

\* The step of GivenUpWithItsMember.
WithItsMember ==
    ProcessSend =>
        \A e \in queue :
            /\ e.max_attempts > 1
            /\ \A f \in queue' : f.sequence_num # e.sequence_num
            => e.recipient \notin members'

LEMMA PassWithMember ==
    ASSUME TypeInv, NEW D \in 0 .. MaxDrift, NEW d \in [queue -> 0 .. D],
           NEW stop \in Nat, Pass(d, D, stop),
           NEW e \in queue, e.max_attempts > 1,
           \A f \in queue' : f.sequence_num # e.sequence_num
    PROVE  e.recipient \notin members'
<1>1. /\ queue \in SUBSET Env /\ e \in Env /\ D \in Nat /\ D - d[e] \in Nat
      /\ e.max_attempts \in Nat /\ e.sequence_num \in Nat
  BY MaxDriftAssumption DEF TypeInv, TypeOK, Env, Envelope
<1>2. e \in GivenUp(queue) /\ e.sequence_num < stop
  <2> SUFFICES ASSUME ~ (e \in GivenUp(queue) /\ e.sequence_num < stop) PROVE FALSE
    OBVIOUS
  <2>1. \E x \in AfterPass(queue, d, D, stop) :
            x = Attempted(e, D - d[e]) \/ x = Older(e, D)
    BY <1>1 DEF AfterPass
  <2>2. Attempted(e, D - d[e]).sequence_num = e.sequence_num
    BY <1>1, AttemptedEnv
  <2>3. Older(e, D).sequence_num = e.sequence_num
    BY <1>1, OlderEnv
  <2> QED
    BY <2>1, <2>2, <2>3 DEF Pass
<1>3. PICK x \in Dropping(queue) : /\ x.recipient = e.recipient
                                   /\ x.sequence_num <= e.sequence_num
  BY <1>1, <1>2, SweepIsForDropped DEF Env
<1>4. x \in queue /\ x.sequence_num \in Nat
  BY <1>1, <1>3 DEF Dropping, Condemned, Env, Envelope
<1>5. x.sequence_num < stop
  BY <1>1, <1>2, <1>3, <1>4
<1> QED
  BY <1>3, <1>5 DEF Pass

\* Whatever the clock does inside a pass and wherever writes fail, a pass of
\* pittacus_gossip_process_send that gives up an acknowledged message removes
\* its recipient from the members, also when the message was only swept along.
THEOREM GivesUpWithMember == Spec => GivenUpWithItsMember
<1>1. TypeInv /\ [Next]_vars => [WithItsMember]_vars
  <2> SUFFICES ASSUME TypeInv, ProcessSend, NEW e \in queue, e.max_attempts > 1,
                      \A f \in queue' : f.sequence_num # e.sequence_num
               PROVE  e.recipient \notin members'
    BY DEF WithItsMember
  <2>1. PICK D \in 0 .. MaxDrift : \E d \in [queue -> 0 .. D] :
             \E stop \in Stops(d) : Pass(d, D, stop)
    BY DEF ProcessSend, Timings
  <2>2. PICK d \in [queue -> 0 .. D] : \E stop \in Stops(d) : Pass(d, D, stop)
    BY <2>1
  <2>3. PICK stop \in Stops(d) : Pass(d, D, stop)
    BY <2>2
  <2>4. stop \in Nat
    BY <2>3, StopsType
  <2> QED
    BY <2>3, <2>4, PassWithMember
<1>2. [WithItsMember]_vars <=> [ProcessSend =>
        \A e \in queue :
            /\ e.max_attempts > 1
            /\ \A f \in queue' : f.sequence_num # e.sequence_num
            => e.recipient \notin members']_vars
  BY DEF WithItsMember
<1> QED
  BY <1>1, <1>2, TypeInit, TypeStep, PTL DEF Spec, GivenUpWithItsMember

=============================================================================
