------------------------------ MODULE Lifecycle -----------------------------
(***************************************************************************)
(* The loop as a whole: builder and reviewer runs and people take issues   *)
(* from filing to merged pull request.  Where Builder and Reviewer look    *)
(* into one run, this module looks at round after round of both pipelines: *)
(* in which order they take their targets, which targets they pass over,   *)
(* and what a round leaves for the next one.                               *)
(*                                                                         *)
(* A round has two steps, claim and outcome, between which its claim may   *)
(* expire and others act.  GitHub lists by last update, and a comment is   *)
(* an update; lists fit on their page.  A claim is live until it is        *)
(* released, by whomever, or expires: how that comes about is the subject  *)
(* of ClaimProtocol, and decomposition that of Builder and Staging.        *)
(***************************************************************************)
EXTENDS Naturals, FiniteSets, SequencesExt

CONSTANTS
  Issue, None,
  BuilderSlot, ReviewerSlot,  \* rounds that the cron keeps in flight at the same time
  Upstream,                   \* issue -> the issues its body depends on
  MaxSetbacks                 \* bound: failed rounds, fixes, commands, rejected PRs

ASSUME LifecycleAssumption ==
  /\ IsFiniteSet(Issue) /\ None \notin Issue
  /\ BuilderSlot \cap ReviewerSlot = {}
  /\ Upstream \in [Issue -> SUBSET Issue]
  /\ MaxSetbacks \in Nat

VARIABLES
  issues,       \* the open issues, last updated first
  prs,          \* the issues with an open PR of the loop, last updated first
  approved,     \* those whose PR bears an approval and no command after it
  dibs,         \* targets with a live claim: <<"issue", i>> and <<"pr", i>>
  at,           \* slot -> the issue, or the issue of the PR, in hand
  setbacks

vars == <<issues, prs, approved, dibs, at, setbacks>>

Slot == BuilderSlot \cup ReviewerSlot

TypeOK ==
  /\ issues \in Seq(Issue) /\ IsInjective(issues)
  /\ prs \in Seq(Issue) /\ IsInjective(prs)
  /\ approved \subseteq ToSet(prs)
  /\ dibs \subseteq {"issue", "pr"} \X Issue
  /\ at \in [Slot -> Issue \cup {None}]
  /\ setbacks \in 0..MaxSetbacks

-----------------------------------------------------------------------------
(* Lists and claims *)

Touch(list, i) == IF Contains(list, i) THEN Cons(i, RemoveFirst(list, i)) ELSE list

\* A plausible bug: an upstream blocks although it is closed.
BugBlocking(i) == Upstream[i] \ {i}

Blocking(i) == (Upstream[i] \ {i}) \cap ToSet(issues)

Buildable(i) == ~Contains(prs, i) /\ Blocking(i) = {} /\ <<"issue", i>> \notin dibs

Reviewable(i) == i \notin approved /\ <<"pr", i>> \notin dibs

\* The first of the list that passes the filter, or None.
NextIssue == LET k == SelectInSeq(issues, Buildable) IN IF k = 0 THEN None ELSE issues[k]
NextPR == LET k == SelectInSeq(prs, Reviewable) IN IF k = 0 THEN None ELSE prs[k]

\* The round ends; with the release marker, every claim of the target ends too.
Leaves(s, kind, release) ==
  /\ at' = [at EXCEPT ![s] = None]
  /\ dibs' = IF release THEN dibs \ {<<kind, at[s]>>} ELSE dibs

Setback == setbacks < MaxSetbacks /\ setbacks' = setbacks + 1

Init ==
  /\ issues \in SetToSeqs(Issue)
  /\ prs = <<>> /\ approved = {} /\ dibs = {}
  /\ at = [s \in Slot |-> None]
  /\ setbacks = 0

-----------------------------------------------------------------------------
(* A builder round *)

\* _claim_open_issue: the first eligible issue; the claim is a comment on it.
ClaimIssue(b) ==
  LET i == NextIssue
  IN  /\ at[b] = None /\ i # None
      /\ at' = [at EXCEPT ![b] = i]
      /\ dibs' = dibs \cup {<<"issue", i>>}
      /\ issues' = Touch(issues, i)
      /\ UNCHANGED <<prs, approved, setbacks>>

\* The plan is verified: a PR, which keeps the claim, unless the guard finds one.
OpenPR(b) ==
  /\ at[b] # None
  /\ IF Contains(prs, at[b])
     THEN /\ Leaves(b, "issue", TRUE)
          /\ issues' = Touch(issues, at[b])
          /\ UNCHANGED prs
     ELSE /\ Leaves(b, "issue", FALSE)
          /\ prs' = Cons(at[b], prs)
          /\ UNCHANGED issues
  /\ UNCHANGED <<approved, setbacks>>

\* Skipped by the agent, rejected to the last attempt, or an exception: the release,
\* and the verifier's feedback, are comments, so that the issue is listed first again.
\* The next rounds take it before any other: that this ends is the bound's assumption.
BuildFails(b) ==
  /\ at[b] # None
  /\ Setback
  /\ Leaves(b, "issue", TRUE)
  /\ issues' = Touch(issues, at[b])
  /\ UNCHANGED <<prs, approved>>

-----------------------------------------------------------------------------
(* A reviewer round *)

ClaimPR(v) ==
  LET i == NextPR
  IN  /\ at[v] = None /\ i # None
      /\ at' = [at EXCEPT ![v] = i]
      /\ dibs' = dibs \cup {<<"pr", i>>}
      /\ prs' = Touch(prs, i)
      /\ UNCHANGED <<issues, approved, setbacks>>

\* A plausible bug: the approval is a comment without the marker.
BugApprove(v) ==
  /\ at[v] # None
  /\ Leaves(v, "pr", TRUE)
  /\ prs' = Touch(prs, at[v])
  /\ UNCHANGED <<issues, approved, setbacks>>

\* The approval and the release go to the PR, open or not.
Approve(v) ==
  /\ at[v] # None
  /\ Leaves(v, "pr", TRUE)
  /\ approved' = approved \cup ({at[v]} \cap ToSet(prs))
  /\ prs' = Touch(prs, at[v])
  /\ UNCHANGED <<issues, setbacks>>

\* Fixes are pushed, or the round fails: either way the PR is commented and released.
FixOrFail(v) ==
  /\ at[v] # None
  /\ Setback
  /\ Leaves(v, "pr", TRUE)
  /\ prs' = Touch(prs, at[v])
  /\ UNCHANGED <<issues, approved>>

-----------------------------------------------------------------------------
(* Crashes, time and people *)

\* The run dies, or raises before it knows that its claim was posted, or its last release is
\* lost: the claim stays.
Dies(s) ==
  /\ at[s] # None
  /\ Setback
  /\ Leaves(s, "issue", FALSE)
  /\ UNCHANGED <<issues, prs, approved>>

\* Time passes a claim by, whether its run is still at work or not.
Expire(target) ==
  /\ target \in dibs
  /\ dibs' = dibs \ {target}
  /\ UNCHANGED <<issues, prs, approved, at, setbacks>>

\* The next PR of the issue starts afresh; a review of this one changes nothing any more.
Settled(i) ==
  /\ prs' = RemoveFirst(prs, i)
  /\ approved' = approved \ {i}
  /\ dibs' = dibs \ {<<"pr", i>>}
  /\ at' = [s \in Slot |-> IF s \in ReviewerSlot /\ at[s] = i THEN None ELSE at[s]]

Merge(i) ==
  /\ Contains(prs, i)
  /\ Settled(i)
  /\ issues' = RemoveFirst(issues, i)
  /\ UNCHANGED setbacks

Reject(i) ==
  /\ Contains(prs, i)
  /\ Setback
  /\ Settled(i)
  /\ UNCHANGED issues

\* "/flyte-agent-loop ..." on an approved PR.
Command(i) ==
  /\ i \in approved
  /\ Setback
  /\ approved' = approved \ {i}
  /\ prs' = Touch(prs, i)
  /\ UNCHANGED <<issues, dibs, at>>

Build(b) == ClaimIssue(b) \/ OpenPR(b) \/ BuildFails(b)
Review(v) == ClaimPR(v) \/ Approve(v) \/ FixOrFail(v)

Next ==
  \/ \E b \in BuilderSlot : Build(b)
  \/ \E v \in ReviewerSlot : Review(v)
  \/ \E s \in Slot : Dies(s)
  \/ \E target \in dibs : Expire(target)
  \/ \E i \in Issue : Merge(i) \/ Reject(i) \/ Command(i)

Spec == Init /\ [][Next]_vars

\* The crons keep firing and a round that was started ends; claims expire; people merge
\* what is approved, sooner or later.  Nothing else is assumed of people or of failures.
Fairness ==
  /\ \A b \in BuilderSlot : WF_vars(Build(b))
  /\ \A v \in ReviewerSlot : WF_vars(Review(v))
  /\ \A target \in {"issue", "pr"} \X Issue : WF_vars(Expire(target))
  /\ \A i \in Issue : WF_vars(i \in approved /\ Merge(i))

FairSpec == Spec /\ Fairness

-----------------------------------------------------------------------------
(* Properties *)

Done == Issue \ ToSet(issues)

\* The pipelines and the people together do what Backlog promises: changes are proposed
\* in the order of the dependencies, and every issue is done in the end, through failed
\* rounds, dead runs, expired claims, reviews that ask for more, commands and rejected
\* PRs (finitely many of each).
Promise == INSTANCE Backlog WITH done <- Done, proposed <- ToSet(prs)
ImplementsBacklog == Promise!Spec

\* Every open PR is answered, again and again: a review round approves it, or people settle
\* it, also after a command.
PRsAreAnswered ==
  \A i \in Issue : []<>(Contains(prs, i) => i \in approved)
=============================================================================
