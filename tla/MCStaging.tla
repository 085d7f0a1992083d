------------------------------ MODULE MCStaging -----------------------------
(***************************************************************************)
(* A finite instance of Staging.                                           *)
(***************************************************************************)
EXTENDS Staging, TLC

\* The agent chooses the keys; the order in which it stages them is in the state.
Symmetry == Permutations(Key)
=============================================================================
