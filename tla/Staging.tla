------------------------------ MODULE Staging -------------------------------
(***************************************************************************)
(* What the issue builder agent and the review agent stage (staging.py) and*)
(* how a staged decomposition is filed (topological_order of               *)
(* github_client.py, open_issues_from_decomposition of tools.py).  The     *)
(* agents are language models: they call their tools in any order, any     *)
(* number of times, with any keys, and the dependencies may be unknown,    *)
(* reflexive or cyclic.                                                    *)
(*                                                                         *)
(* A staged file is its path, a staged issue its key and dependencies.  The*)
(* nested calls of visit are frames on a stack, the innermost one last.    *)
(***************************************************************************)
EXTENDS Naturals, Sequences, FiniteSets, SequencesExt

CONSTANTS
  Key,          \* keys of sub-issues that the agent may stage
  Unknown,      \* a key it never stages but may depend on
  Path,         \* paths of files
  MaxDeps       \* bound: dependencies of one sub-issue

ASSUME StagingAssumption == Unknown \notin Key /\ MaxDeps \in Nat

VARIABLES
  kind,         \* "issue": the builder's agent, "pr": the reviewer's
  action,       \* the last submission, or "none"
  files,        \* the staged files
  issues,       \* the staged sub-issues, in the order of their (last) staging
  item,         \* position of the next sub-issue to visit, 0 before the filing
  stack,        \* the calls of visit under way: their items and next dependencies
  ordered       \* the keys of the sub-issues placed so far

agentVars == <<kind, action, files, issues>>
vars == <<agentVars, item, stack, ordered>>

DependsOn == UNION {[1..n -> Key \cup {Unknown}] : n \in 0..MaxDeps}
Item == [key : Key, depends_on : DependsOn]
Frame == [key : Key, next : Nat \ {0}]

Submissions ==
  IF kind = "issue" THEN {"implement", "decompose", "skip"} ELSE {"fix", "no_changes"}

TypeOK ==
  /\ kind \in {"issue", "pr"}
  /\ action \in Submissions \cup {"none"}
  /\ files \subseteq Path
  /\ issues \in Seq(Item)
  /\ item \in Nat
  /\ stack \in Seq(Frame)
  /\ ordered \in Seq(Key)

-----------------------------------------------------------------------------
(* Lists of sub-issues *)

Keys(items) == {items[i].key : i \in DOMAIN items}

Position(items, key) == CHOOSE i \in DOMAIN items : items[i].key = key

Without(items, key) ==
  IF key \in Keys(items) THEN RemoveAt(items, Position(items, key)) ELSE items

-----------------------------------------------------------------------------
(* The tools of the agent *)

Init ==
  /\ kind \in {"issue", "pr"}
  /\ action = "none"
  /\ files = {}
  /\ issues = <<>>
  /\ item = 0
  /\ stack = <<>>
  /\ ordered = <<>>

\* The agent is at work: nothing of its stage is filed yet.
Staging == item = 0 /\ UNCHANGED <<item, stack, ordered>>

StageFile(p) == Staging /\ files' = files \cup {p} /\ UNCHANGED <<kind, action, issues>>

UnstageFile(p) == Staging /\ files' = files \ {p} /\ UNCHANGED <<kind, action, issues>>

\* Staging a key again replaces its item, of which there is at most one, at the end of the
\* list.
StageIssue(new) ==
  /\ Staging
  /\ kind = "issue"
  /\ issues' = Append(Without(issues, new.key), new)
  /\ UNCHANGED <<kind, action, files>>

\* submit_implementation, submit_decomposition, skip_issue, submit_fix, no_changes: the
\* last call counts, and staging may go on after it.
Submit(what) ==
  /\ Staging
  /\ action' = what
  /\ UNCHANGED <<kind, files, issues>>

\* A plausible bug: the plan carries whatever is staged.
BugToPlan == [action |-> action, files |-> files, issues |-> issues]

\* to_plan: an agent that never submits anything leaves an error.
ToPlan ==
  [action |-> IF action = "none" THEN "error" ELSE action,
   files |-> IF action \in {"implement", "fix"} THEN files ELSE {},
   issues |-> IF action = "decompose" THEN issues ELSE <<>>]

HasWork(plan) == plan.files # {} \/ plan.issues # <<>>

-----------------------------------------------------------------------------
(* Filing a decomposition *)

Upstreams(key) == issues[Position(issues, key)].depends_on

Visiting == {stack[i].key : i \in DOMAIN stack}

\* A plausible bug: placed items are not remembered.
BugPlaced == {}

Placed == ToSet(ordered)

\* visit returns at once when its item is placed already.
Call(frames, key) ==
  IF key \in Placed THEN frames ELSE Append(frames, [key |-> key, next |-> 1])

\* The agent has finished, and its verified plan is a decomposition with sub-issues.
StartFiling ==
  /\ item = 0
  /\ HasWork(ToPlan)
  /\ ToPlan.action = "decompose"
  /\ item' = 1
  /\ UNCHANGED <<agentVars, stack, ordered>>

\* The outer loop of topological_order.
VisitNext ==
  /\ item \in DOMAIN issues
  /\ stack = <<>>
  /\ item' = item + 1
  /\ stack' = Call(stack, issues[item].key)
  /\ UNCHANGED <<agentVars, ordered>>

\* A plausible bug: the dependencies are not visited.
BugVisitDependency ==
  LET top == Last(stack)
  IN /\ stack # <<>>
     /\ top.next \in DOMAIN Upstreams(top.key)
     /\ stack' = [stack EXCEPT ![Len(stack)].next = @ + 1]
     /\ UNCHANGED <<agentVars, item, ordered>>

\* The loop of visit over the dependencies of the innermost item: it visits those that are
\* staged and not being visited.
VisitDependency ==
  LET top == Last(stack)
      dep == Upstreams(top.key)[top.next]
      rest == [stack EXCEPT ![Len(stack)].next = @ + 1]
  IN  /\ stack # <<>>
      /\ top.next \in DOMAIN Upstreams(top.key)
      /\ stack' = IF dep \in Keys(issues) \ Visiting THEN Call(rest, dep) ELSE rest
      /\ UNCHANGED <<agentVars, item, ordered>>

\* After its dependencies the item is placed, and visit returns.
Place ==
  LET top == Last(stack)
  IN  /\ stack # <<>>
      /\ top.next \notin DOMAIN Upstreams(top.key)
      /\ ordered' = IF top.key \in Placed THEN ordered ELSE Append(ordered, top.key)
      /\ stack' = Front(stack)
      /\ UNCHANGED <<agentVars, item>>

Next ==
  \/ \E p \in Path : StageFile(p) \/ UnstageFile(p)
  \/ \E new \in Item : StageIssue(new)
  \/ \E what \in Submissions : Submit(what)
  \/ StartFiling
  \/ VisitNext \/ VisitDependency \/ Place

Spec == Init /\ [][Next]_vars

Filed == item > Len(issues) /\ stack = <<>>

\* A plausible bug: the numbers are filled in after all sub-issues exist.
BugFiledUpstreams(k) == Keys(issues) \cap ToSet(Upstreams(ordered[k]))

\* The dependencies recorded in the k-th filed sub-issue: those filed before it.
FiledUpstreams(k) == {ordered[j] : j \in 1..(k - 1)} \cap ToSet(Upstreams(ordered[k]))

-----------------------------------------------------------------------------
(* Properties *)

\* A plan that is applied is a change or a decomposition, never both: the pipeline looks
\* at the action alone and would lose the other half.
PlanIsOneOutcome ==
  HasWork(ToPlan) =>
    /\ ToPlan.files = {} <=> ToPlan.issues # <<>>
    /\ ToPlan.action \in {"implement", "decompose", "fix"}

\* Every staged sub-issue is filed exactly once, whatever the agent declared.
FiledOnce ==
  /\ IsInjective(ordered)
  /\ item > 0 /\ Filed => ToSet(ordered) = Keys(issues)

\* `to` can be reached from `from` along declared dependencies.
Reaches(from, to) ==
  LET Edge(k, l) == l \in Keys(issues) \cap ToSet(Upstreams(k))
  IN  \E n \in 1..Cardinality(Keys(issues)) :
        \E path \in [0..n -> Keys(issues)] :
           /\ path[0] = from /\ path[n] = to
           /\ \A m \in 0..(n - 1) : Edge(path[m], path[m + 1])

\* A declared dependency on a staged sub-issue is recorded, unless it lies on a cycle.
OnlyCyclesAreCut ==
  \A k \in DOMAIN ordered :
     \A dep \in Keys(issues) \cap ToSet(Upstreams(ordered[k])) :
        dep \in FiledUpstreams(k) \/ Reaches(dep, ordered[k])

\* The filed sub-issues never wait for one another: of any that are still open, one has
\* only closed upstreams.
NeverStuck ==
  \A left \in SUBSET DOMAIN ordered : left # {} =>
     \E k \in left : FiledUpstreams(k) \cap {ordered[j] : j \in left} = {}
=============================================================================
