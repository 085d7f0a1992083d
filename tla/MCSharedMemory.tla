--------------------------- MODULE MCSharedMemory ---------------------------
(***************************************************************************)
(* A finite instance of SharedMemory, without symmetry, for its properties *)
(* are about order and fairness too.                                       *)
(***************************************************************************)
EXTENDS SharedMemory

\* One run opens a pull request for an issue, another one looks into the same issue and
\* finds that nothing is left to do; a third one claims nothing.
Three ==
  [w \in Writer |->
     CASE w = 1 -> [no_work |-> FALSE, target |-> "issue", has_pr |-> TRUE]
       [] w = 2 -> [no_work |-> TRUE, target |-> "issue", has_pr |-> FALSE]
       [] OTHER -> [no_work |-> TRUE, target |-> NoTarget, has_pr |-> FALSE]]

\* Bound: rounds overlap, or fail.
NotBoth == overlapped => failures = 0
=============================================================================
