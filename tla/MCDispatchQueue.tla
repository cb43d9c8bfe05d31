-------------------------- MODULE MCDispatchQueue --------------------------
(***************************************************************************)
(* Instances of DispatchQueue for TLC.                                     *)
(***************************************************************************)
EXTENDS DispatchQueue, TLC

Symmetry == Permutations(Bucket) \cup Permutations(Content)
=============================================================================
