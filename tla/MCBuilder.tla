----------------------------- MODULE MCBuilder ------------------------------
(***************************************************************************)
(* Finite instances of Builder, and a statement of the source that it does *)
(* not keep.                                                               *)
(***************************************************************************)
EXTENDS Builder, TLC

Symmetry == Permutations(Run) \cup Permutations(Branch)

\* One issue says it depends on itself, which counts for nothing; the others on it.
OneFirst == [i \in Issue |-> {CHOOSE j \in Issue : TRUE}]

\* open_pr_with_changes: "Create ``branch`` off the default branch, commit ``files``, and
\* open a PR".  The head of a PR then holds the files of its own run and no others.
HeadHoldsOwnFiles ==
  \A p \in prs : \A k \in DOMAIN commits[p.branch] : commits[p.branch][k] = p.by
=============================================================================
