------------------------------- MODULE MCDemo -------------------------------
(* Demo for TLC: a seed node and demo nodes. *)
EXTENDS Demo

CONSTANTS n1, n2, n3

Star == [n \in Node |-> IF n = n1 THEN <<>> ELSE <<n1>>]

DemoBudget ==
    [payload |-> 1, tick |-> 1, fail |-> 1, lose |-> 0, duplicate |-> 0, restart |-> 0]

\* Either a payload is sent, or a status.
EitherInit ==
    /\ Stopped
    /\ left \in {[Budget EXCEPT ![what] = 0] : what \in {"payload", "tick"}}

EitherSpec == EitherInit /\ [][DemoNext]_demoVars /\ DemoFairness

=============================================================================
