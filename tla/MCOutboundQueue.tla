-------------------------- MODULE MCOutboundQueue --------------------------
(***************************************************************************)
(* OutboundQueue for TLC.  Messages and recipients are interchangeable.    *)
(***************************************************************************)
EXTENDS OutboundQueue, TLC

Symmetry == Permutations(Message) \cup Permutations(Recipient)

=============================================================================
