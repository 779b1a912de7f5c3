# A TLA+ verification of Pittacus

Pittacus (`src/`) is a small gossip library in C: nodes exchange UDP datagrams,
spread payloads as rumors, and repair losses by comparing version clocks.
This directory holds a TLA+ model of it, the TLC configurations that check the
model on small instances, and proofs checked by TLAPS.  Line numbers refer to
`src/src/gossip.c` unless another file is named.

## 1. The system

| Part | State it keeps | Operations | Interacts with |
|---|---|---|---|
| Outbound queue (`gossip.c` 27-355, 767-831) | list of envelopes, `output_buffer` array the envelopes point into, `sequence_num` | enqueue (direct, random, broadcast), remove on acknowledgement, `process_send` | filled by every handler, emptied by `process_send`, which also drops members |
| Version clock (`vector_clock.c`) | table of at most `MAX_VECTOR_SIZE` records, `current_idx` | set, increment, compare, compare with a record, merge | one per node (`data_version`); copied into STATUS messages |
| Data log (`gossip.c` 62-126) | table of at most `DATA_LOG_SIZE` payloads, the latest of each originator | insert or replace, relay | updated with the clock, read when a STATUS arrives |
| Member set (`member.c`) | array of members without duplicates, its capacity | put, remove by address, random choice | HELLO, WELCOME, MEMBER_LIST add; `process_send` removes |
| Gossip protocol (`gossip.c` 357-858) | `state`, `data_counter`, `last_gossip_ts` and all of the above | `join`, `send_data`, `tick`, `process_send`, `process_receive` and six handlers | other nodes, by datagrams; the application, by calls and the data receiver callback |
| Messages (`messages.c`) | none (the bytes are in the output buffers) | encode and decode six message types | called by the protocol; `process_send` writes the sequence number over the encoded one |
| Network, time (`network.c`, `utils.c`) | the socket | send, receive, `pt_time`, `pt_random` | system calls |
| Demos (`demos/`) | the position in an event loop | create, join, then poll, receive, tick, send, write for ever | end the process at the first negative result |

Every node is single-threaded.  The hard part is between nodes and in time:
messages are retransmitted until acknowledged, arrive late, twice, out of order
or not at all; buffers and clock slots run out and are reused; nodes restart
with the same address; the clock moves during a pass over the queue.

What makes each part correct:

* queue: an envelope keeps its message, every envelope leaves, no member is
  dropped without all attempts;
* clock: comparison is the pointwise order, merging the join, the table has one
  record per originator;
* log: it can hand on exactly what the clock claims;
* members: without duplicates, without the node itself, within the array;
* messages: what is read is what was written, under the number of its own
  envelope; nothing but a payload is ever too large;
* protocol: payloads are delivered once, as sent and in the order of their
  originator, a version names one payload, an acknowledged payload is known,
  joining completes, a status exchange repairs losses, and the exchange of
  messages ends;
* demos: a process ends because a call of the system failed, never because of a
  message that came too early.

`PROJECT.json` lists the hazards behind these properties, each at its line.

## 2. The modules

```
Outbound -----------> OutboundQueue ---> MCOutboundQueue
  |   \
  |    \  Messages -> Encoding
  |     \    |           |
  |      `---|-----------+--> Wire --> MCWire
  |          |
  |          |   VectorClock --> VersionClocks --> MCVersionClocks
  |          |       |   MemberSet
  `----------+-------+-------+--> Gossip --> MCGossip
                                    | \----> Demo --> MCDemo
                                    v (refines)
                              Dissemination

Proofs:
Outbound_proofs ----> OutboundQueue_proofs
  |  `------------.
  |  FoldInduction +-> Wire_proofs
  |       |  `-----'-> VersionClocks_proofs
  |       |             ^
  |       |  VectorClock_proofs
  |       |     |    Dissemination_proofs
  `-------+-----+-----------+--> Gossip_proofs
```

**Outbound** has the operators on the queue: choice of a buffer
(`gossip_find_available_output_buffer`), enqueueing, removal, and one pass of
`process_send`.  It has no variables, so that the single-node machines and the
cluster use the same definitions.
The linked list is a set ordered by `sequence_num` (envelopes are only ever
appended, with a fresh larger number).  An envelope has the field `contents`,
what its buffer holds now, and the history field `message`, what it was created
for; writing a buffer changes the contents of everybody who points at it.
Time is relative: `attempt_age` is the time since `attempt_ts`, up to the retry
interval.  A pass is one action; `d` gives the time that has gone by when the
pass reaches each envelope, because the code calls `pt_time()` per envelope, and
`stop` the envelope whose write fails.

**OutboundQueue** is the machine around it: any handler may submit a message
(to one recipient, or to some or all members), acknowledgements come at any
time, members are added, `process_send` runs with any failing write, time goes
by.  A message is for one recipient, for a sample of MESSAGE_RUMOR_FACTOR members
or for all of them (`Spreading`).  `waited` is a history variable: the time since
the first attempt.

**Messages** has the six messages, **Encoding** their layout.  A message is
encoded as a sequence of fields with widths, a buffer maps offsets to the fields
that can be read there, and writing takes away every field it touches; so bytes
are where the code puts them without being computed one by one.  There is one
operator per encoder (what it writes and what it asks for) and per decoder (with
its size checks).
**Wire** is the outbound queue with these buffers: encoding into the chosen
buffer, writing the sequence number of each envelope into the shared buffer
before it is sent, also when the write then fails, and sending as many bytes as
the message of the envelope had.  `Message` is the set of messages that are
offered, any subset of `ProtocolMessage` whose lists have at most
`MEMBER_LIST_SYNC_SIZE` members and whose clocks at most `MAX_VECTOR_SIZE`
records, as the code makes them.  The clock stands still during a pass in Wire.

**VectorClock** has the operators of `vector_clock.c`; `SetRecord` serves the
clock and the data log, which have the same insert-or-overwrite discipline.
Comparing and merging are one function with a flag in the code and two operators
here (`vector_clock_compare` / `Merge`, `vector_clock_compare_with_record` /
`MergeRecord`).  The code marks the records it has met in a 32-bit mask; here
that is a set, which is the same up to 31 slots, and the module assumes no more.
**VersionClocks** lets several nodes number payloads and learn records or whole
clocks from each other.

**MemberSet** has the operators of `member.c` that the protocol uses: the array
with its capacity, which grows before new members are compared with the old
ones, and the sampling loop as the set of its outcomes.

**Gossip** composes them: a cluster of nodes, a bag of datagrams, one action per
call of the public interface and per handler.

| Action | Code |
|---|---|
| `pittacus_gossip_join`, `_send_data`, `_tick`, `_process_send` | the functions of that name |
| `gossip_handle_hello`, `_welcome`, `_member_list`, `_data`, `_ack`, `_status` | the handlers, as `process_receive` calls them |
| `RefuseUntilWelcome` | `RETURN_IF_NOT_CONNECTED` in the handlers |
| `pittacus_gossip_init` | the end of a process and its successor at the same address |
| `Lose`, `Duplicate` | UDP; reordering comes from reading any datagram of the bag |
| `TimePasses` | `pt_time()` |

A pass of `process_send` is one action here too, and lasts up to `MaxDrift`: the clock
of the node may tick between any two of its envelopes (`Timings`).  Then an envelope
may carry a message it was not created for, and the datagram has the length of the one
and the bytes of the other.  `Readings` is what a receiver can make of that: the message
if enough of it is there, nothing if the decoder misses bytes, and an arbitrary member
of the cluster where `cluster_member_decode` reads an address past the end of
the datagram (what it finds there could be anything; values that are no member are left
out).

The uid of a process is the time it starts at, in seconds (`member.c:28`): a successor's
is at least `Pause` later, which may be 0, and at most `MaxUid`.
`UidSpan` is the number of start times that have the same member id: the code
copies the upper two bytes of the uid, so it is 2^16 there.  `delivered` and
`published` are history variables: the calls of the data receiver, and what was
given to `send_data` under each id.  A payload either fits in a message or is
one of `Oversized`; that nothing else can be too large is checked in Wire.

**Dissemination** says what the applications see of all this: payloads are
published under ids, and each node is handed, for every other originator, a
subsequence of what that one published.  `Gossip!Disseminates` is this
specification under the mapping of `self` to the member id of the running
process; every other variable of Gossip is hidden from it.

**Demo** runs Gossip's actions from the event loops of the demo programs, one
step per call, with a queue of datagrams per socket instead of the unordered
network: on one machine a datagram is in the receiver's queue, behind the
earlier ones, when `sendto` returns.  The clock stands still during a pass there; as
every message is sent once in its run, a tick inside one would change nothing.

A definition preceded by a comment that begins with "Mutant" is a wrong version
of the definition after it, used to see that a property notices; no
specification uses it.

## 3. The runs

`tlc -config <run>.cfg <module>`, where the module is `MCOutboundQueue`,
`MCWire`, `MCVersionClocks`, `MCGossip` or `MCDemo` by the run's prefix.

Passing:

| Run | Properties | Instance |
|---|---|---|
| OutboundQueue | `TypeOK`, `GroupsInOrder`, `EnvelopeKeepsItsMessage`, `DroppedOnlyAfterPatience`, `GivenUpWithItsMember` | 2 buffers, 4 envelopes, 2 recipients, 3 attempts, no clock tick inside a pass |
| Wire | `WireCarriesContents`, `OnlyDataIsRefused` | the default sizes; one buffer, 3 envelopes, 2 attempts; all message types, both address families, 3 members in a list, 0, 1 and 20 records in a clock, payloads of 0, 1, 486 and 487 bytes |
| VersionClocks | `TypeOK`, `CompareIsPointwise`, `TableShape`, `MergeIsJoin`, `LearnsOnly` | 3 originators, 2 slots, 2 payloads each |
| GossipSpread | `LogMatchesClock`, `DeliveredOnceInOrder`, `VersionIdentifiesPayload`, `Disseminates` | 3 nodes that know each other, or 2 of which one is restarted with a new member id and joins again; 2 payloads |
| GossipRetry | `TypeOK`, `AckedDataIsKnown` | 2 nodes, 2 buffers, 2 attempts, an oversized payload, no clock tick inside a pass; a restart with a new member id, or a failing write and a duplicate |
| GossipJoin | `MembersFit`, `JoinCompletes`, `FallsSilent` | 2 nodes from scratch, one loss, a seed that is there or not; or a chain, the third node joining through the second while that one is joining itself; 2 attempts, member arrays that begin with one slot, clock ticks inside passes |
| GossipStatus | `StatusRepairs` | 2 nodes, either or both with a payload that got lost or was too large; or one that has been restarted, with an ACK for its predecessor on its way and a payload that was too large in the log of the other; one tick |
| Demo | `EndsOnlyOnFailure`, `DemoConnects` | a seed and 2 demo nodes, a payload or a tick, one failing call |

Violations, where the code does not do what a comment or header says
(`findings` in `PROJECT.json` quotes the line):

| Run | Property | What happens |
|---|---|---|
| OutboundQueueAliasing | `EnvelopeKeepsItsMessage` | in one pass the retry interval of an envelope is not yet over and that of the next envelope of the same message is, because the clock ticked; the second is now "oldest"; eviction starts there, and the first envelope is left pointing at a foreign message |
| OutboundQueueBlocked | `EveryEnvelopeLeaves` | `sendto` fails for one recipient in every pass; the failure is not counted as an attempt, and nothing behind that envelope is ever written |
| GossipOwnMember | `NotOwnMember` | a retransmitted HELLO is answered with an announcement of the newcomer to the newcomer |
| GossipRestart | `VersionIdentifiesPayload` | after a quick restart the node reuses version 1 under the same id |

Some passing properties depend on a condition that the code does not enforce:

* `Disseminates` and `DeliveredOnceInOrder` need a clock slot for every
  originator.  With the three nodes of GossipSpread, MAX_VECTOR_SIZE = 2, MaxSeq = 9
  and a third payload, a full clock forgets the node's own record and its own
  payload is handed to the application as new.
* `EnvelopeKeepsItsMessage`, `GroupsInOrder` and `AckedDataIsKnown` need that no clock
  tick falls inside a pass (`MaxDrift = 0`).  `pt_time()` is read for every envelope
  (801), so the code does not guarantee it.  OutboundQueueAliasing is what happens
  otherwise; in a cluster, an envelope whose payload got lost can come to carry a
  status that was written into its buffer.  That is sent under the envelope's
  number and acknowledged, and the envelope of the payload is removed although
  its recipient never got it.
* `AckedDataIsKnown` is also about processes that are the first at their address
  (`uid[d.to] = 0`).  A successor numbers its messages from 1 again, so an ACK for
  a process that has ended removes a message of the next one that nobody has
  processed; without the condition GossipRetry finds that.  GossipStatus begins
  with such an ACK on its way and shows that the next status makes up for it.
* `VersionIdentifiesPayload` and `Disseminates` need processes at an address that start
  in different spans of 2^16 seconds (GossipRestart).
* `StatusRepairs` is about payloads in front of the first oversized one in a log
  (`Relayable`).  A payload that does not fit is counted and logged before it is
  refused (394-405); when a status is answered, `gossip_enqueue_data_log` returns
  at that record, and what stands behind it in the log is not relayed.  A status
  that is in conflict is then not answered with a status either (627-632), so the
  node does not ask for what it lacks itself until it next sends one.
* `OnlyDataIsRefused` holds for MESSAGE_MAX_SIZE = 512, where a full member list
  takes 14 + 3 * 138 = 428 bytes.  The division at 423 leaves the 14 bytes out of
  account; with a size whose remainder by 138 is less than 14 (552, say) a full
  list is refused, and the newcomer is not told the members.  Section 4 has the
  proof of both.
* `EndsOnlyOnFailure` needs a buffer for each message of the join exchange: with
  MAX_OUTPUT_MESSAGES = 1 WELCOME is evicted by the MEMBER_LIST that follows it.
* `WireCarriesContents` is about envelopes whose buffer still holds their
  message; OutboundQueueAliasing shows how it can be another one.

Bounds.  Buffers, slots and attempts are as small as they can be while being
scarce: two buffers make the third message evict, two slots make the third
originator overwrite, two attempts are the least that make a message
retransmitted.  Where retransmission is not what a run is about, every message
is sent once.  In Wire one buffer makes every message overwrite another, longer
or shorter; sizes are the real ones.  `MaxSeq` bounds the envelopes of a node,
`Budget` the payloads, ticks, failed writes, losses, duplicates and restarts of
a behaviour. `MaxSeq` is chosen by what a behaviour needs.  In GossipSpread n1
has sent 2 messages to n2 before; 7 is the least that lets it welcome the
restarted n2 (3 more) and log a payload of either process of n2 (an ACK and a
copy), so that payloads of both stand in logs together: a member id without the
uid is noticed with 7 and not with 6.  In the chain of GossipJoin, n3 sends its
HELLO twice because n2 refuses the first one; `MaxSeq` leaves out that n2
welcomes it twice, which the seed of two nodes may do.  With two nodes no
behaviour of GossipJoin is lost to `MaxSeq`.  In Demo retransmission is left to
GossipJoin: what Demo is about is the order of first transmissions.

Runs on a cluster that is already formed begin in states that the join exchange
ends in: `Pair`, `PairOfThree` and `Trio`, when each of its messages so far has
been handled once.  `Apart` is a pair whose payloads got lost, `Reborn` one
whose second node is in its second process.  The chain of GossipJoin begins
(`Welcomed`) at the point where n2 has sent HELLO twice, n1 has answered, and n3
has not been started.  Symmetry is used for payloads, messages and recipients
where nothing tells them apart, and never with liveness.

Fairness.  The application calls `join`, and calls `process_send` and
`process_receive` again and again (the demos do so from a poll loop), so these
are weakly fair, and so is time.  Fairness of a datagram's reading is stated by
what it does to the network (`Reads`), that of a demo process by what it does to
`pc` (`Moves`); both are equivalent to fairness of the actions as long as no
handler is disabled, and only `MaxSeq` can disable one.  With the two nodes of
GossipJoin it never does.  In GossipStatus it does cut behaviours: two nodes
that are both behind answer each other's STATUS with a STATUS as long as they
read those before the DATA that ends the conflict; the model
follows that for a few rounds, and longer exchanges are not considered.
Ticks, sends and restarts are not fair.

## 4. The proofs

`tlapm <module>_proofs.tla`.  Nothing is bounded in them: they are about any
number of nodes, buffers, slots, attempts, payloads, faults and restarts.

### The outbound queue

`Outbound_proofs` has the lemmas about the operators of Outbound, for any set of
messages.  `WellFormed` says of a queue that its numbers are between 1 and
`sequence_num` and unique, and that what it carries are such messages; `Intact`
that envelopes have the contents of their own messages and groups are in order.
Every operation keeps the first, enqueueing, removing, ageing and a pass without
drift also the second (`EnqueueWellFormed` to `PassWellFormed`).  `Follows` says
what becomes of each envelope: it is left, with its number, recipient and
message, or it is gone, and what is new has a new number.  `EvictionReachesAll`
is the reason: the walk from the oldest envelope finds all envelopes of its
buffer if the groups are in order.  OutboundQueue and every node of Gossip use
these operators, so both get the result.  `OutboundQueue_proofs` proves:

* `TypeCorrect`: `Spec => []TypeOK`.  Inductive invariant `TypeInv`: types, and
  every queued number is between 1 and `sequence_num` and unique.  Uniqueness is
  what makes the set a list.
* `MessagesKept` and `GroupsKept`: if `MaxDrift = 0`, `EnvelopeKeepsItsMessage`
  and `GroupsInOrder` hold.  Neither is inductive alone.  Eviction frees a buffer
  completely only if the oldest envelope is the first of its group and the group
  has no gaps (`GroupsInOrder`), and groups stay in order only because their
  envelopes age alike and are sent first to last; `MessageInv` is the conjunction.
  The hypothesis cannot be dropped: OutboundQueueAliasing is the
  counterexample.
* `Patiently`: `DroppedOnlyAfterPatience`, for any drift.  Inductive invariant
  `WaitInv`: an envelope tried k times has waited k - 1 intervals, and the age of
  its last attempt on top.
* `GivesUpWithMember`: `GivenUpWithItsMember`, for any drift: what a pass takes out of
  the queue without an answer was sent only once by design, or its recipient has
  been dropped.  The sweep behind an exhausted message (785-794) stops at the
  first envelope for somebody else.

### Loops

The loops of the code are left folds here.  `FoldInduction` proves the rule of
loop invariants for them (`LoopInvariant`), once, from the well-foundedness of
the natural numbers.  The body of the loop and its invariant are constants of
that module, and every proof about a loop is an INSTANCE of it.  (The library's
induction theorems take the invariant as a parameter, which the provers cannot
instantiate.)

### The version clocks

`VectorClock_proofs` has the lemmas about one table: looking up finds the only
record of a member, `SetRecord` replaces, appends or overwrites, and keeps the
table a table (`IsTable`); with room it replaces the member's record and nothing
else (`SetWithRoom`), and there is room whenever there are no more originators
than slots (`RoomForAll`, by counting).  `VersionClocks_proofs` proves:

* `TypeCorrect` and `ShapeKept`: `TypeOK` and `TableShape`.  The inductive
  invariant `Inv` is their conjunction and `Numbers`: a clock has only positive
  numbers, and none above the number its originator has given out.
* `ComparesPointwise`: `CompareIsPointwise`.  The loop of `vector_clock_compare`
  keeps: the result so far is the pointwise order of the records seen so far.
  Numbers must be positive, because a missing record counts as 0.
* `MergesToJoin`: `MergeIsJoin`, with the hypothesis that is in the property:
  there is a slot for every originator that either clock has.
* `LearnsOnlyHolds`: the action property `LearnsOnly`, from `Inv`.

### The bytes

`Wire_proofs` is about `Wire!Spec`, for any size of a buffer, any addresses and
payloads, any set of messages and lists of recipients.

* `WireInvHolds`: the inductive invariant `WireInv`.  Every buffer is `Sound`
  (its fields end within it), for each queued envelope the buffer it points to
  has every field of its message at its offset, except for the number, and every
  datagram of the last step is `Understood`, that is, decoded to the message and
  number it was sent with.
* `CarriesContents`: `WireCarriesContents`.
* `RefusesOnlyData`: `OnlyDataIsRefused`, if `SizesFit`: a message has room for a
  WELCOME with the largest address (160 bytes), for the status of a full clock
  (14 + 12 * MAX_VECTOR_SIZE), and its size leaves a remainder of at least 14
  when divided by CLUSTER_MEMBER_SIZE.  `DefaultSizesFit`: the default
  configuration does.  `FullListRefused`: with a smaller remainder the encoder
  refuses every full member list, so this is the exact condition for lists.

The argument goes from the encoders to the decoders.  Placing fields is a loop,
and so is encoding a list of members or records; their invariants are lists of
offsets (`Layout`, `MembersEncoded`, `RecordsEncoded`), which give the place of
every field of every message (`MessageLayout`).  An encoder asks for at least as
many bytes as it writes, although what it counts for a member is not what it
writes, so that an accepted message ends within its buffer (`AcceptedFits`).
The four bytes of the number are a field of their own in every message
(`PlacedApart`), so that writing them leaves the message as it is
(`PatchKeeps`); encoding another message does not, but that goes into a buffer
that no envelope points to any more (`EvictionReachesAll`, from the queue).
Each decoder then finds its fields where the encoder put them (`HelloRead` to
`ListRead`, `DecodesTo`); the lists are loops again.  Offsets into a member list
depend on the lengths of the addresses before them, which is why the decoder's
loop needs the encoder's list of offsets in its invariant.  No clock tick falls
inside a pass in Wire, which by `PassWellFormed` makes all datagrams `intact`.

### The promise

`Dissemination_proofs` proves of Dissemination:

* `TypeCorrect`: `Spec => []TypeOK`;
* `OnceInOrder`: `Spec => []DeliveredOnceInOrder`, inductive together with the
  types: a delivery is newer than all earlier ones of its originator;
* `AsPublished`: `Spec => []DeliveredAsPublished`, inductive together with the
  types: publishing only appends, so what was delivered stays what was published.

### The cluster

`Gossip_proofs` is about `Gossip!Spec`, in four layers.

1. *Well-formedness.*  `Types(G)` says of every variable what it may hold, where
   `G` is any set of payload versions that contains those in the cluster: queues
   are `WellFormed` with messages over `G`, logs and clocks are tables, member
   arrays have no doubles and fit, datagrams carry messages over `G`.  All of
   this holds for any `MaxDrift`, also of an envelope that points at a foreign
   message.  That none does (`Intact`) is part of it only under `NoDrift`
   (`KeptIntact`).  There is one lemma per operation, handler and fault;
   `StepTypes` combines them: a step keeps `Types(G)` if what `send_data` adds
   is in `G`.  With `G` the set of all records this is `AlwaysTyped`, and it
   gives `TypeCorrect` (`TypeOK`) and `MembersAlwaysFit` (`MembersFit`).  The
   latter rests on the loop of `cluster_member_set_extend` making room for all
   new members before any is appended. From it, `LogAlwaysMatchesClock`:
   `LogMatchesClock`, if `Room`: neither table has fewer slots than there are
   member ids.
2. *Authenticity.*  `AlwaysAuthentic`: everything in logs, queues, datagrams and
   deliveries is in `Genuine(published)`, the versions that were sent, with the
   payloads they were sent with.  That is `Types(G)` with a `G` that grows with
   `published`; it is inductive with `Counted` (a node's counter is the number of
   payloads under its id) and `Unused` (nothing was sent yet under the ids of
   later processes).  The hypothesis `NoIdReused` says that nothing restarts, or
   that a process starts at least `UidSpan` after the one before, so that it gets a
   new member id (`Pause >= UidSpan`: in the code, that the upper half of the
   start time has changed).  It gives `VersionsIdentify`
   (`VersionIdentifiesPayload`).
3. *The refinement.*  `Implements`: `Spec => Disseminates`, if `NoIdReused` and
   `ClockRoom` (a clock slot for every member id).  The invariant `Tracks` adds to
   the above that a node's clock has its own counter (`KnowsOwn`) and, for each
   originator, a number not below any that was delivered (`KnowsDelivered`).  So
   what `vector_clock_compare_with_record` finds new is from somebody else and
   newer than all deliveries (`NewsIsNew`), and `gossip_handle_data` is `Deliver`;
   `send_data` is `Publish`, a restart is `Restart`, everything else changes
   nothing that Dissemination sees.  `DeliversOnceInOrder`
   (`DeliveredOnceInOrder`) follows with the proof of Dissemination, instantiated.
4. *Acknowledgements.*  `AckedIsKnown`: `AckedDataIsKnown`, under the same two
   hypotheses and `NoDrift`.  The property is about ACKs that have arrived, so
   it has to be carried back to where they come from.  The invariant `Acks` adds
   to `Tracks`, for every process `a` that is the first at its address: a
   datagram of `a` under the number of an envelope in its queue has that
   envelope's message and recipient (`Carries`), and an ACK for `a`, queued or
   in flight, stands for a version its sender knows, if the envelope with that
   number is still there and is DATA (`Earned`). `StepQueues` and `StepNetwork`
   say where the envelopes and datagrams of the next state come from,
   `StepLearns` that a clock only grows until its process ends, `HandledIsKnown`
   that the handler that answers with an ACK has merged the record before.

Only the acknowledgements need `NoDrift`; the first three layers hold whatever
the clock does during a pass.  The other hypotheses are on configuration and
use; GossipSpread is an instance that satisfies them.  GossipRestart shows what
happens when an id is reused, and section 3 what happens when a clock is full.
`Room` also asks it of the log, because the two tables are of different sizes
(20 and 25 slots by default): once the clock is full and the log is not, one
forgets an originator that the other still has.

Assumptions are the named ASSUMEs of the modules: table sizes, capacities, the
retry values, `UidSpan` and the size of a member list are positive, MAX_VECTOR_SIZE is
at most 31; the rumor factor, the tick interval, `Pause`, `MaxDrift`, `MaxUid` and
the bounds are natural numbers; `Recipient` is
finite; seeds are other nodes.  In Wire a buffer is smaller than 2^16 bytes (what
is larger is no datagram, and the two-byte counts would wrap), an address has the
length of some `sockaddr` (16 to 128 bytes), and the only payload without bytes is
`NULL`, which is what the decoder makes of it.  Dissemination assumes nothing of
its constants.

Only model-checked: the liveness properties (`JoinCompletes`, `FallsSilent`,
`StatusRepairs`, `DemoConnects`; fairness is out of the prover's reach), and
Demo's `EndsOnlyOnFailure`.  The latter does not hold for every value of the
constants: with MAX_OUTPUT_MESSAGES = 1 the run finds that the seed's MEMBER_LIST
evicts the WELCOME before it, and the newcomer ends.  A theorem would need a
condition on the number of buffers, relative to all that can be enqueued between
two calls of `process_send`, and an invariant that follows the order of datagrams
through the queues of all processes.

## 5. Not modelled

* Byte order (both sides convert alike); the truncation of IPv6 addresses in
  member ids; datagrams that no Pittacus node has sent.
* The narrowing of `data_size` to 16 bits (833 and 392): sizes are what it
  leaves.  A payload that does not fit in a message is taken to fit in a record
  of the data log (up to MESSAGE_MAX_SIZE bytes).
* Failing `malloc`, `socket` and `bind`.
* `cluster_member_set_remove`, `cluster_member_set_find_by_addr`,
  `vector_clock_to_string`: the library never calls them.
* Wrap-around of 32-bit counters (numbers are bounded); a wall clock that is set
  back.
* A data receiver that calls `send_data` from within the callback.
* A decoded clock has `current_idx` 0; inserting into one would leave a gap, but
  the library never does.
* In the demos: a full socket buffer, and the end of the process when `tick`
  fails (it fails only if a STATUS cannot be encoded, which does not happen:
  `OnlyDataIsRefused`).  Error codes are constants; unit tests are not part of
  the program.

## 6. Plan

Of the safety properties that the runs check, `EndsOnlyOnFailure` is the one that is
left to prove, under a condition on the number of buffers (section 4).  The argument
would be the order of the datagrams in a socket: whoever tells a newcomer anything
is the seed, after it has sent WELCOME, or was told of the newcomer by the seed,
after it has sent WELCOME.
