------------------------------- MODULE Builder ------------------------------
(***************************************************************************)
(* The builder pipeline (builder_agent.py): overlapping scheduled runs list*)
(* the open issues, claim one, build and verify a plan for it and apply the*)
(* plan, as a pull request or as the sub-issues of a decomposed spec.      *)
(*                                                                         *)
(* The agents are abstracted to the outcomes the pipeline tells apart: a   *)
(* plan with files, a plan with sub-issues, no work; verified or not.  A   *)
(* claim or release is posted and answered, or refused; what retries and   *)
(* delays do to them is the subject of ClaimProtocol, which this module    *)
(* implements.  The comment that goes with the closing of a spec carries no*)
(* marker and is left out.                                                 *)
(***************************************************************************)
EXTENDS Dibs, FiniteSets

CONSTANTS
  Run, Issue, None,
  Branch,       \* head branch names the agents come up with (plan.raw["branch"])
  Plans,        \* the plans the build agents may stage: "implement", "decompose"
  Upstream,     \* issue -> the issues its body depends on
  Items,        \* sub-issues in a staged decomposition
  Page,         \* comments in the one page that list_comments fetches
  TTL,          \* settings.dibs_ttl_minutes
  MaxTries,     \* settings.max_tries
  ListPage,     \* entries of the one page of open issues and PRs that is fetched
  PRPage,       \* entries of the one page of open PRs; both less what people's PRs fill
  MaxClock      \* bound: the clock

ASSUME BuilderAssumption ==
  /\ None \notin Run \cup Issue \cup Branch
  /\ IsFiniteSet(Issue)
  /\ Plans \subseteq {"implement", "decompose"}
  /\ Upstream \in [Issue -> SUBSET Issue]
  /\ Items \in Nat \ {0} /\ TTL \in Int /\ MaxTries \in Nat \ {0}
  /\ Page \in Nat /\ ListPage \in Nat /\ PRPage \in Nat /\ MaxClock \in Nat

VARIABLES
  clock,
  thread,       \* issue -> its comments
  open,         \* the open issues
  commits,      \* branch -> runs whose files were committed on top of the default branch
  prs,          \* pull requests: [by, issue, branch, state, leased]
  filed,        \* sub-issues: [spec, by, item, leased]; item 0 is the closing of the spec
  run           \* run -> its local variables

vars == <<clock, thread, open, commits, prs, filed, run>>

Kind == "issue"
WorkPhases == {"build", "verify", "guard", "commit", "push", "open", "file", "close"}
Ended == {"done", "failed", "crashed"}
Posting == {"claim", "note", "release", "recover"}
Phases == {"idle", "list", "prs", "scan", "readback"} \cup WorkPhases \cup Posting \cup Ended
Records == {"none", "no_work", "error", "opened_pr", "opened_issues"}

Fresh ==
  [pc |-> "idle", now |-> 0, listed |-> {}, todo |-> {}, target |-> None, owner |-> 0,
   plan |-> "none", attempt |-> 0, passed |-> 0, branch |-> None, parent |-> 0, item |-> 0,
   record |-> "none"]

Comment == [op : {"claim", "note", "release"}, kind : {Kind}, run : Run, until : Int]
Local ==
  [pc : Phases, now : 0..MaxClock, listed : SUBSET Issue, todo : SUBSET Issue,
   target : Issue \cup {None}, owner : Nat, plan : Plans \cup {"none"}, attempt : 0..MaxTries,
   passed : 0..MaxTries, branch : Branch \cup {None}, parent : Nat, item : 0..Items,
   record : Records]

LocalOK(l) ==
  /\ l \in Local
  /\ l.todo \subseteq l.listed
  /\ l.pc \in WorkPhases \cup Posting \cup {"readback"} => l.target \in l.listed
  /\ l.pc \in {"commit", "push", "open"} => l.branch \in Branch

TypeOK ==
  /\ clock \in 0..MaxClock
  /\ thread \in [Issue -> Seq(Comment)]
  /\ open \subseteq Issue
  /\ commits \in [Branch -> Seq(Run)]
  /\ prs \subseteq [by : Run, issue : Issue, branch : Branch, leased : BOOLEAN,
                    state : {"open", "merged", "closed"}]
  /\ filed \subseteq [spec : Issue, by : Run, item : 0..Items, leased : BOOLEAN]
  /\ run \in [Run -> Local]
  /\ \A r \in Run : LocalOK(run[r])

-----------------------------------------------------------------------------
(* What the pipeline reads *)

OpenPRs == {p \in prs : p.state = "open"}

\* The first page of a listing by last update, which anything may have changed.
Pages(entries, size) ==
  {page \in SUBSET entries :
     \/ page = entries /\ Cardinality(page) <= size
     \/ Cardinality(page) = size}

\* issues_with_open_prs: every PR names its issue in its body ("Closes #N").
Linked(page) == {p.issue : p \in page}

BugBlocking(i, numbers) == {}

\* blocking_dependencies: upstreams that are open as far as the listing shows.
Blocking(i, numbers) == (Upstream[i] \ {i}) \cap numbers

Owner(r, i) == OwningClaim(FirstPage(thread[i], Page), Kind, run[r].now)
OwnedBy(r, i) == Owner(r, i) # 0 /\ thread[i][Owner(r, i)].run = r

\* Run r works under the claim its read-back found, neither revoked nor expired.
HoldsLease(r) ==
  LET i == run[r].target
      k == run[r].owner
  IN  /\ run[r].pc \in WorkPhases
      /\ k # 0
      /\ ~ReleasedAfter(thread[i], Kind, k)
      /\ thread[i][k].until > clock

-----------------------------------------------------------------------------
(* Steps of a run *)

At(r, phase) == run[r].pc = phase

\* A step of run r changes the local variables of nobody else.
Becomes(r, local) == run' = [run EXCEPT ![r] = local]

Goes(r, phase) == Becomes(r, [run[r] EXCEPT !.pc = phase])

\* The task returns its record; a crashed one returns nothing.
Ends(r, phase, record) ==
  Becomes(r, [Fresh EXCEPT !.pc = phase, !.record = record])

Init ==
  /\ clock = 0
  /\ thread = [i \in Issue |-> <<>>]
  /\ open = Issue
  /\ commits = [b \in Branch |-> <<>>]
  /\ prs = {}
  /\ filed = {}
  /\ run = [r \in Run |-> Fresh]

github == <<thread, open, commits, prs, filed>>

\* The task starts and reads the clock, once.
Begin(r) ==
  /\ At(r, "idle")
  /\ clock + TTL <= MaxClock
  /\ Becomes(r, [run[r] EXCEPT !.pc = "list", !.now = clock])
  /\ UNCHANGED <<clock, github>>

\* list_open_issues: the endpoint lists PRs too, which take their place on the page.
ListIssues(r) ==
  /\ At(r, "list")
  /\ \E page \in Pages(open \cup OpenPRs, ListPage) :
        Becomes(r, [run[r] EXCEPT !.pc = "prs", !.listed = page \cap open])
  /\ UNCHANGED <<clock, github>>

\* issues_with_open_prs, a second read; with both, the loop's filters are settled.
ListPRs(r) ==
  /\ At(r, "prs")
  /\ \E page \in Pages(OpenPRs, PRPage) :
        Becomes(r, [run[r] EXCEPT !.pc = "scan",
                                  !.todo = {i \in run[r].listed \ Linked(page) :
                                                 Blocking(i, run[r].listed) = {}}])
  /\ UNCHANGED <<clock, github>>

NoWork(r) ==
  /\ At(r, "scan")
  /\ run[r].todo = {}
  /\ Ends(r, "done", "no_work")
  /\ UNCHANGED <<clock, github>>

\* try_claim on the next listed issue: somebody owns it ...
StandDown(r, i) ==
  /\ At(r, "scan") /\ i \in run[r].todo
  /\ Owner(r, i) # 0 /\ ~OwnedBy(r, i)
  /\ Becomes(r, [run[r] EXCEPT !.todo = @ \ {i}])
  /\ UNCHANGED <<clock, github>>

\* ... or nobody does.  (A run meets each issue once, so never its own claim.)
Stake(r, i) ==
  /\ At(r, "scan") /\ i \in run[r].todo
  /\ Owner(r, i) = 0
  /\ Becomes(r, [run[r] EXCEPT !.pc = "claim", !.todo = @ \ {i}, !.target = i])
  /\ UNCHANGED <<clock, github>>

\* A plausible bug: after posting, the claim is taken for granted.
BugReadBackWins(r) ==
  /\ At(r, "readback")
  /\ Becomes(r, [run[r] EXCEPT !.pc = "build", !.owner = Owner(r, run[r].target)])
  /\ UNCHANGED <<clock, github>>

\* The read-back finds the run's own claim first, or no live claim at all.
ReadBackWins(r) ==
  LET i == run[r].target
  IN  /\ At(r, "readback")
      /\ Owner(r, i) # 0 => OwnedBy(r, i)
      /\ Becomes(r, [run[r] EXCEPT !.pc = "build", !.owner = Owner(r, i)])
      /\ UNCHANGED <<clock, github>>

ReadBackLoses(r) ==
  LET i == run[r].target
  IN  /\ At(r, "readback")
      /\ Owner(r, i) # 0 /\ ~OwnedBy(r, i)
      /\ Becomes(r, [run[r] EXCEPT !.pc = "scan", !.target = None])
      /\ UNCHANGED <<clock, github>>

\* One attempt of the build agent.  Without work the run releases and is done.
Build(r) ==
  /\ At(r, "build")
  /\ \/ Becomes(r, [run[r] EXCEPT !.pc = "release", !.attempt = @ + 1,
                                  !.record = "no_work"])
     \/ \E plan \in Plans :
          Becomes(r, [run[r] EXCEPT !.pc = "verify", !.attempt = @ + 1, !.plan = plan])
  /\ UNCHANGED <<clock, github>>

\* A plausible bug: the last plan is applied even if the verifier rejects it.
BugRejected(r) ==
  /\ At(r, "verify")
  /\ IF run[r].attempt < MaxTries
     THEN Goes(r, "build")
     ELSE Goes(r, IF run[r].plan = "implement" THEN "guard" ELSE "file")
  /\ UNCHANGED <<clock, github>>

\* A plausible bug: one attempt too many.
BugAttempts(r) ==
  /\ At(r, "verify")
  /\ IF run[r].attempt <= MaxTries
     THEN Goes(r, "build")
     ELSE Becomes(r, [run[r] EXCEPT !.pc = "note", !.record = "error"])
  /\ UNCHANGED <<clock, github>>

\* The verifier rejects the plan: another attempt, or a comment and a release.
Rejected(r) ==
  /\ At(r, "verify")
  /\ IF run[r].attempt < MaxTries
     THEN Goes(r, "build")
     ELSE Becomes(r, [run[r] EXCEPT !.pc = "note", !.record = "error"])
  /\ UNCHANGED <<clock, github>>

\* The verifier passes the plan: files go through the guard, sub-issues do not.
Verified(r) ==
  /\ At(r, "verify")
  /\ Becomes(r, [run[r] EXCEPT !.pc = IF run[r].plan = "implement" THEN "guard" ELSE "file",
                               !.passed = run[r].attempt])
  /\ UNCHANGED <<clock, github>>

\* A plausible bug: no look at the pull requests before opening one.
BugGuard(r) ==
  /\ At(r, "guard")
  /\ \E b \in Branch : Becomes(r, [run[r] EXCEPT !.pc = "commit", !.branch = b])
  /\ UNCHANGED <<clock, github>>

\* The pre-open guard, _issue_already_has_open_pr.
Guard(r) ==
  /\ At(r, "guard")
  /\ \E page \in Pages(OpenPRs, PRPage) :
        IF run[r].target \in Linked(page)
        THEN Becomes(r, [run[r] EXCEPT !.pc = "release", !.record = "no_work"])
        ELSE \E b \in Branch : Becomes(r, [run[r] EXCEPT !.pc = "commit", !.branch = b])
  /\ UNCHANGED <<clock, github>>

\* create_branch, which keeps a branch that exists, and the head that commit_files
\* builds on.
CommitStarts(r) ==
  /\ At(r, "commit")
  /\ Becomes(r, [run[r] EXCEPT !.pc = "push", !.parent = Len(commits[run[r].branch])])
  /\ UNCHANGED <<clock, github>>

\* The ref is patched without force: only if nobody has moved it.
Push(r) ==
  /\ At(r, "push")
  /\ run[r].parent = Len(commits[run[r].branch])
  /\ commits' = [commits EXCEPT ![run[r].branch] = Append(@, r)]
  /\ Goes(r, "open")
  /\ UNCHANGED <<clock, thread, open, prs, filed>>

PRof(r) ==
  [by |-> r, issue |-> run[r].target, branch |-> run[r].branch, state |-> "open",
   leased |-> HoldsLease(r)]

\* GitHub has one open PR per head branch.
HeadIsFree(b) == \A p \in OpenPRs : p.branch # b

\* The change is made.  Its answer returns, or is lost and a retry of the request, or
\* the loss itself, raises.  The claim is kept only when the answer returns.
Applied(r, record) ==
  \/ Ends(r, "done", record)
  \/ Becomes(r, [run[r] EXCEPT !.pc = "recover", !.record = "error"])

\* The open PR now keeps other runs away.
OpenPR(r) ==
  /\ At(r, "open")
  /\ HeadIsFree(run[r].branch)
  /\ prs' = prs \cup {PRof(r)}
  /\ Applied(r, "opened_pr")
  /\ UNCHANGED <<clock, thread, open, commits, filed>>

FiledBy(r, k) == [spec |-> run[r].target, by |-> r, item |-> k, leased |-> HoldsLease(r)]

\* open_issues_from_decomposition: the sub-issues one by one ...
FileItem(r) ==
  /\ At(r, "file")
  /\ Becomes(r, [run[r] EXCEPT !.item = @ + 1,
                               !.pc = IF run[r].item + 1 = Items THEN "close" ELSE "file"])
  /\ filed' = filed \cup {FiledBy(r, run[r].item + 1)}
  /\ UNCHANGED <<clock, thread, open, commits, prs>>

\* A plausible bug: the spec is left open.
BugCloseSpec(r) ==
  /\ At(r, "close")
  /\ filed' = filed \cup {FiledBy(r, 0)}
  /\ Applied(r, "opened_issues")
  /\ UNCHANGED <<clock, thread, open, commits, prs>>

\* ... then the spec is closed, open or not, and the claim is kept.
CloseSpec(r) ==
  /\ At(r, "close")
  /\ open' = open \ {run[r].target}
  /\ filed' = filed \cup {FiledBy(r, 0)}
  /\ Applied(r, "opened_issues")
  /\ UNCHANGED <<clock, thread, commits, prs>>

-----------------------------------------------------------------------------
(* Comments, failures, the environment *)

Outgoing(r) ==
  CASE At(r, "claim") -> [op |-> "claim", kind |-> Kind, run |-> r, until |-> run[r].now + TTL]
    [] At(r, "note") -> [op |-> "note", kind |-> Kind, run |-> r, until |-> 0]
    [] OTHER -> [op |-> "release", kind |-> Kind, run |-> r, until |-> run[r].now]

Post(r) ==
  /\ run[r].pc \in Posting
  /\ thread' = [thread EXCEPT ![run[r].target] = Append(@, Outgoing(r))]
  /\ CASE At(r, "claim") -> Goes(r, "readback")
       [] At(r, "note") -> Goes(r, "release")
       [] OTHER -> Ends(r, "done", run[r].record)
  /\ UNCHANGED <<clock, open, commits, prs, filed>>

\* An exception: before the claim is known, nothing is released; the last release
\* swallows its own failure; everything else goes there.
Raises(r) ==
  /\ run[r].pc \notin {"idle"} \cup Ended
  /\ CASE run[r].pc \in {"list", "prs", "scan", "claim", "readback"} -> Ends(r, "failed", "error")
       [] At(r, "recover") -> Ends(r, "done", "error")
       [] OTHER -> Becomes(r, [run[r] EXCEPT !.pc = "recover", !.record = "error"])
  /\ UNCHANGED <<clock, github>>

Crash(r) ==
  /\ run[r].pc \notin {"idle"} \cup Ended
  /\ Ends(r, "crashed", "none")
  /\ UNCHANGED <<clock, github>>

\* Maintainers merge a PR, which closes its issue, or close it unmerged.
Merge(p) ==
  /\ p \in OpenPRs
  /\ prs' = (prs \ {p}) \cup {[p EXCEPT !.state = "merged"]}
  /\ open' = open \ {p.issue}
  /\ UNCHANGED <<clock, thread, commits, filed, run>>

ClosePR(p) ==
  /\ p \in OpenPRs
  /\ prs' = (prs \ {p}) \cup {[p EXCEPT !.state = "closed"]}
  /\ UNCHANGED <<clock, thread, open, commits, filed, run>>

Tick ==
  /\ clock < MaxClock
  /\ clock' = clock + 1
  /\ UNCHANGED <<github, run>>

RunStep(r) ==
  \/ ListIssues(r) \/ ListPRs(r) \/ NoWork(r)
  \/ \E i \in Issue : StandDown(r, i) \/ Stake(r, i)
  \/ ReadBackWins(r) \/ ReadBackLoses(r)
  \/ Build(r) \/ Rejected(r) \/ Verified(r) \/ Guard(r)
  \/ CommitStarts(r) \/ Push(r) \/ OpenPR(r)
  \/ FileItem(r) \/ CloseSpec(r) \/ Post(r)

Next ==
  \/ \E r \in Run : Begin(r) \/ RunStep(r) \/ Raises(r) \/ Crash(r)
  \/ \E p \in prs : Merge(p) \/ ClosePR(p)
  \/ Tick

Spec == Init /\ [][Next]_vars

-----------------------------------------------------------------------------
(* Properties *)

\* Two open pull requests for one issue: one of them was opened by a run that no longer
\* held its claim.  The guard, the kept claim and the stale `now` of later runs work
\* together here (_claim_open_issue, try_claim, _issue_already_has_open_pr).
OnePRPerIssue ==
  \A p, q \in OpenPRs : p.issue = q.issue /\ p.leased /\ q.leased => p = q

\* No run pushes onto the head of an open PR of its own issue that another run opened,
\* as long as both held their claims at that moment (create_branch keeps a branch that
\* exists, commit_files builds on whatever head it finds).
NoPushOntoLeasedPR ==
  [][\A r \in Run : \A p \in OpenPRs :
       /\ At(r, "push") /\ run'[r].pc = "open"
       /\ p.issue = run[r].target /\ p.branch = run[r].branch
       => ~(p.leased /\ HoldsLease(r))]_vars

\* What became of an issue: its open PRs and its finished decompositions.
Outcomes(i) ==
  {[by |-> p.by, leased |-> p.leased, pr |-> TRUE] : p \in {q \in OpenPRs : q.issue = i}}
    \cup {[by |-> f.by, leased |-> f.leased, pr |-> FALSE] :
             f \in {g \in filed : g.spec = i /\ g.item = 0}}

ClaimRevoked(r, i) ==
  \E k \in DOMAIN thread[i] :
     /\ thread[i][k].op = "claim" /\ thread[i][k].run = r
     /\ ReleasedAfter(thread[i], Kind, k)

\* An issue gets a second outcome from a run that holds its claim only when somebody's
\* release has revoked the first run's claim, and only when one outcome is a
\* decomposition, which passes no guard: a listing read before the first outcome does not
\* get a run through try_claim, and one read after it does not show the issue.
OneOutcomePerIssue ==
  \A i \in Issue : \A o, p \in Outcomes(i) :
     o.by # p.by /\ o.leased /\ p.leased =>
       /\ ~(o.pr /\ p.pr)
       /\ ClaimRevoked(o.by, i) \/ ClaimRevoked(p.by, i)

\* A run works on an issue only while all its upstreams are closed: the filter works on a
\* listing read before the claim, and a closed upstream stays closed.  (For repositories
\* whose open issues fit on one page.)
UpstreamsFirst ==
  \A r \in Run :
     run[r].pc \in WorkPhases =>
       (Upstream[run[r].target] \ {run[r].target}) \cap open = {}

\* Whatever is applied is the very plan that the verifier passed, in its last attempt.
OnlyVerifiedApplied ==
  \A r \in Run :
     run[r].pc \in {"guard", "commit", "push", "open", "file", "close"} =>
       run[r].passed = run[r].attempt /\ run[r].attempt > 0

\* A record tells what its run left on GitHub: a PR, a whole decomposition and a closed
\* spec, or nothing.
RecordsAreTrue ==
  \A r \in Run : run[r].pc \in Ended =>
    CASE run[r].record = "opened_pr" -> \E p \in prs : p.by = r
      [] run[r].record = "opened_issues" ->
           \E i \in Issue \ open : {f.item : f \in {g \in filed : g.by = r /\ g.spec = i}} = 0..Items
      [] run[r].record = "no_work" -> /\ \A p \in prs : p.by # r
                                      /\ \A f \in filed : f.by # r
      [] OTHER -> TRUE

(***************************************************************************)
(* The builder implements the claim protocol, with the answers of GitHub   *)
(* in time: its theorems hold of the builder's claims.                     *)
(***************************************************************************)
Phase(r) ==
  CASE At(r, "prs") -> "list"
    [] run[r].pc \in WorkPhases -> "work"
    [] OTHER -> run[r].pc

Claims == INSTANCE ClaimProtocol WITH
  RunId <- [r \in Run |-> r],
  Target <- Issue,
  MaxRetries <- 0,
  MaxRestarts <- 0,
  MaxNotes <- 0,
  wire <- {},
  pc <- [r \in Run |-> Phase(r)],
  now <- [r \in Run |-> run[r].now],
  todo <- [r \in Run |-> run[r].todo],
  target <- [r \in Run |-> run[r].target],
  owner <- [r \in Run |-> run[r].owner],
  tries <- [r \in Run |-> 0],
  restarts <- [r \in Run |-> 0]

ImplementsClaims == Claims!Spec
=============================================================================
