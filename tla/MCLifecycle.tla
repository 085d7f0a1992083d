---------------------------- MODULE MCLifecycle -----------------------------
(***************************************************************************)
(* A finite instance of Lifecycle.                                         *)
(***************************************************************************)
EXTENDS Lifecycle

CONSTANTS i1, i2, i3

\* One issue waits for another; the third is free.
Chain == [i \in Issue |-> IF i = i2 THEN {i1} ELSE {}]
=============================================================================
