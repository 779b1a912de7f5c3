-------------------------- MODULE MCVersionClocks --------------------------
(***************************************************************************)
(* VersionClocks for TLC.  Nodes are interchangeable.                      *)
(***************************************************************************)
EXTENDS VersionClocks

Symmetry == Permutations(Node)

=============================================================================
