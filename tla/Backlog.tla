------------------------------- MODULE Backlog ------------------------------
(***************************************************************************)
(* What the loop as a whole promises to the people who file issues, with   *)
(* no runs, claims, reviews or listings: a change is proposed for an issue *)
(* once everything that the issue depends on is done, a proposal ships or  *)
(* is withdrawn, and in the end every issue is done.                       *)
(***************************************************************************)
CONSTANTS
  Issue,
  Upstream      \* issue -> the issues it depends on

VARIABLES
  done,         \* the closed issues
  proposed      \* the issues with an open pull request

vars == <<done, proposed>>

Ready(i) == Upstream[i] \ {i} \subseteq done

Init == done = {} /\ proposed = {}

\* Also for an issue that is done: a run that began before does not look again.
Propose(i) ==
  /\ i \notin proposed /\ Ready(i)
  /\ proposed' = proposed \cup {i}
  /\ UNCHANGED done

Ship(i) ==
  /\ i \in proposed
  /\ done' = done \cup {i}
  /\ proposed' = proposed \ {i}

Withdraw(i) ==
  /\ i \in proposed
  /\ proposed' = proposed \ {i}
  /\ UNCHANGED done

Next == \E i \in Issue : Propose(i) \/ Ship(i) \/ Withdraw(i)

\* No issue that is ready waits for ever, and no issue is proposed again and again
\* without ever shipping.
Fairness ==
  \A i \in Issue : WF_vars(i \notin done /\ Propose(i)) /\ SF_vars(Ship(i))

Spec == Init /\ [][Next]_vars /\ Fairness
=============================================================================
