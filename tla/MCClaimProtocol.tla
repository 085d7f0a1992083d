-------------------------- MODULE MCClaimProtocol ---------------------------
(***************************************************************************)
(* Finite instances of ClaimProtocol, and a statement of the docs that the *)
(* protocol does not keep.                                                 *)
(***************************************************************************)
EXTENDS ClaimProtocol, TLC

Symmetry == Permutations(Run)

\* run_id() tells the runs apart (see README: the assumption DistinctIds).
OwnIds == [r \in Run |-> r]

\* Bound of the run that looks at two leases in succession: a person comments, or a request
\* is in flight, only while no run is under way.
Undisturbed ==
  \/ wire = {} /\ \A t \in Target : \A i \in DOMAIN thread[t] : thread[t][i].run # None
  \/ \A r \in Run : pc[r] \in {"idle"} \cup Ended

\* README.md: "overlapping cron fires never double-work"; try_claim: "two runs firing
\* at once no longer both proceed".  No two runs ever work on the same target.
NoDoubleWork ==
  \A t \in Target : \A r, s \in Run : Working(r, t) /\ Working(s, t) => r = s
=============================================================================
