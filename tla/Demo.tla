-------------------------------- MODULE Demo --------------------------------
(***************************************************************************)
(* The demo programs (src/demos): processes on one machine that run the    *)
(* event loop an application is meant to have around the library.  A node  *)
(* without seeds is demo_seed_node, the others are demo_node.              *)
(*                                                                         *)
(* One iteration of the loop polls the socket, handles at most one         *)
(* datagram, calls tick, sends data when it is time to, and writes what is *)
(* in the outbound queue.  A negative result of poll, receive or write     *)
(* ends the process.                                                       *)
(*                                                                         *)
(* On the loopback interface sendto puts a datagram in the queue of the    *)
(* receiving socket, if there is one: nothing is lost on the way, and what *)
(* was sent first is read first.  network is kept as the bag of all the    *)
(* queued datagrams.                                                       *)
(***************************************************************************)
EXTENDS Gossip, BagsExt

VARIABLES
    pc,      \* where each process is in its loop
    inbox    \* the receive queue of each socket

demoVars == <<vars, pc, inbox>>

\* Nothing has been started yet.
Stopped ==
    /\ state = [n \in Node |-> "INITIALIZED"]
    /\ EmptyNodes
    /\ pc = [n \in Node |-> "start"]
    /\ inbox = [n \in Node |-> <<>>]

IsSeed(n) == Seeds[n] = <<>>

Running(n) == pc[n] \notin {"start", "ended"}

At(n, here, next) == pc[n] = here /\ pc' = [pc EXCEPT ![n] = next]

\* pittacus_gossip_create and pittacus_gossip_join.
Start(n) ==
    /\ At(n, "start", IF IsSeed(n) THEN "poll" ELSE "hello")
    /\ pittacus_gossip_join(n)
    /\ UNCHANGED inbox

\* The inboxes after the datagrams of a pass have been sent in order.
Arrived(datagrams) ==
    FoldLeft(LAMBDA boxes, d : IF Running(d.to) THEN [boxes EXCEPT ![d.to] = Append(@, d)]
                               ELSE boxes,
             inbox,
             SetToSortSeq(datagrams, LAMBDA x, y : x.sequence_num < y.sequence_num))

Queued(boxes) ==
    FoldLeft(BagAdd, EmptyBag,
             FlattenSeq([i \in 1 .. Cardinality(Node) |-> boxes[SetToSeq(Node)[i]]]))

\* The process ends; its socket, with what is queued there, is closed.
pittacus_gossip_destroy(n, boxes) ==
    /\ pc' = [pc EXCEPT ![n] = "ended"]
    /\ state' = [state EXCEPT ![n] = "DESTROYED"]
    /\ out' = [out EXCEPT ![n].queue = {}]
    /\ members' = [members EXCEPT ![n] = cluster_member_set_init]
    /\ inbox' = [boxes EXCEPT ![n] = <<>>]
    /\ network' = Queued(inbox')
    /\ UNCHANGED <<uid, data_version, data_log, data_counter, gossip_age,
                   delivered, published>>

\* The socket is written to: first to send HELLO, then in every iteration.  The
\* clock stands still during a pass, which tells apart only what is sent again.
Write(n, here) ==
    /\ pc[n] = here
    /\ \E d \in Timings(out[n].queue, 0) :
          \/ /\ pc' = [pc EXCEPT ![n] = "poll"]
             /\ Pass(n, d, 0, PastLast(n))
             /\ \E sent \in Transmissions(n, d, PastLast(n)) : inbox' = Arrived(sent)
             /\ network' = Queued(inbox')
             /\ UNCHANGED <<state, uid, data_version, data_log, data_counter,
                            delivered, published, left>>
          \/ /\ Spend("fail")
             /\ \E stop \in WriteFailures(n, d) :
                   \E sent \in Transmissions(n, d, stop) :
                       pittacus_gossip_destroy(n, Arrived(sent))

\* The socket has something to read, ...
Poll(n) ==
    /\ At(n, "poll", "tick")
    /\ inbox[n] # <<>>
    /\ gossip_handle_new_message(n, Head(inbox[n]))
    /\ inbox' = [inbox EXCEPT ![n] = Tail(@)]

\* ... or has nothing until the interval is over, ...
PollTimeout(n) ==
    /\ At(n, "poll", "tick")
    /\ inbox[n] = <<>>
    /\ UNCHANGED <<vars, inbox>>

\* ... or the library refuses what there is, or the poll itself fails.
Refuses(n) ==
    /\ inbox[n] # <<>>
    /\ state[n] # "CONNECTED" /\ Head(inbox[n]).msg.type # "WELCOME"

PollFails(n) ==
    /\ pc[n] = "poll"
    /\ IF Refuses(n) THEN UNCHANGED left ELSE Spend("fail")
    /\ pittacus_gossip_destroy(n, inbox)

Tick(n) ==
    /\ At(n, "tick", IF IsSeed(n) THEN "write" ELSE "data")
    /\ \/ pittacus_gossip_tick(n)
       \/ /\ \/ state[n] # "CONNECTED"
             \/ gossip_age[n] < GOSSIP_TICK_INTERVAL
             \/ left["tick"] = 0
          /\ UNCHANGED vars
    /\ UNCHANGED inbox

\* Data is sent from time to time, whether or not the node is connected: when
\* it is not, the call fails and nobody looks at its result.
SendData(n) ==
    /\ At(n, "data", "write")
    /\ \/ \E data \in Payload : pittacus_gossip_send_data(n, data)
       \/ UNCHANGED vars
    /\ UNCHANGED inbox

Iterate(n) ==
    \/ Start(n)
    \/ Write(n, "hello")
    \/ Poll(n)
    \/ PollTimeout(n)
    \/ PollFails(n)
    \/ Tick(n)
    \/ SendData(n)
    \/ Write(n, "write")

DemoNext ==
    \/ \E n \in Node : Iterate(n)
    \/ TimePasses /\ UNCHANGED <<pc, inbox>>

\* Process n takes a step, told by what it does to pc.  As long as a process has
\* not ended it can, except where only MaxSeq keeps it from handling a datagram:
\* behaviours that need more envelopes are not considered.
Moves(n) ==
    /\ pc[n] # "ended"
    /\ \E place \in {"hello", "poll", "tick", "data", "write", "ended"} \ {pc[n]} :
          pc' = [pc EXCEPT ![n] = place]

\* Every process runs, and time goes on.
DemoFairness ==
    /\ \A n \in Node : WF_pc(Moves(n))
    /\ WF_demoVars(TimePasses /\ UNCHANGED <<pc, inbox>>)

DemoInit == Stopped /\ left = Budget

DemoSpec == DemoInit /\ [][DemoNext]_demoVars /\ DemoFairness

-----------------------------------------------------------------------------
(* Properties *)

\* A process of the demo ends only because a call of the system failed, never
\* because a message reached it that it could not handle yet: whoever tells
\* others about a newcomer has sent its WELCOME before.
EndsOnlyOnFailure ==
    Cardinality({n \in Node : pc[n] = "ended"}) <= Budget["fail"] - left["fail"]

\* A demo node becomes connected if the seed is there to read one of its HELLOs,
\* unless one of the two processes ends.
DemoConnects ==
    \A n \in Node : \A s \in ToSet(Seeds[n]) :
        (/\ state[n] = "JOINING" /\ Running(n) /\ Running(s)
         /\ Chances(n, s) > 0)
        ~> \/ state[n] = "CONNECTED"
           \/ pc[n] = "ended"
           \/ pc[s] = "ended"

=============================================================================
