----------------------------- MODULE MCApplying -----------------------------
(***************************************************************************)
(* A finite instance of Applying, without symmetry, for calls must end.    *)
(***************************************************************************)
EXTENDS Applying

\* Three sub-issues, each depending on those before it; the second also on itself (which
\* counts for nothing), the first on the second (a cycle that topological_order cut).
Chain == <<{2}, {1, 2}, {2, 1}>>

\* Bound: one request is late at a time.
OneLate == Cardinality(wire) <= 1

\* Bound: a decomposition touches nothing that the other calls touch, and runs on its own.
Apart ==
  \/ \A d \in Decomposer : At(d, "idle")
  \/ \A c \in Opener \cup Pusher : At(c, "idle")
=============================================================================
