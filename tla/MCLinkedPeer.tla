---------------------------- MODULE MCLinkedPeer ----------------------------
(***************************************************************************)
(* LinkedPeer with two workers for TLC.                                    *)
(***************************************************************************)
EXTENDS LinkedPeer, TLC

Symmetry == Permutations(Worker)

=============================================================================
