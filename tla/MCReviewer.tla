----------------------------- MODULE MCReviewer -----------------------------
(***************************************************************************)
(* Finite instances of Reviewer, and a statement of the tests that it does *)
(* not keep.                                                               *)
(***************************************************************************)
EXTENDS Reviewer, TLC

Symmetry == Permutations(Run) \cup Permutations(PR)

\* Bound: the steps after a crash, or after an error without a claim, of another run.  For
\* the others that run is one that takes no more steps, and those are looked at.
NobodyDies == \A r \in Run : run[r].pc \notin {"crashed", "failed"}

\* Bound: a person comments or pushes once.
PeopleActOnce ==
  \A p \in PR :
     Cardinality(ByPeople(thread[p])) + Cardinality({k \in DOMAIN head[p] : head[p][k].by = None}) <= 1

\* test_reviewer_skip.py: "A command that predates the latest approval is already
\* handled".  The review behind an approval has read every command before it.
CommandsSeenByApproval ==
  \A p \in PR : \A j, k \in DOMAIN thread[p] :
     thread[p][j].text = "command" /\ thread[p][k].text = "lgtm" /\ j < k
       => j <= thread[p][k].read
=============================================================================
