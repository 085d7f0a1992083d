------------------------------- MODULE Reviewer -----------------------------
(***************************************************************************)
(* The reviewer pipeline (reviewer_agent.py): overlapping scheduled runs   *)
(* claim an open pull request of the agent, review it and either approve it*)
(* with a comment or push verified fixes onto its head branch.             *)
(*                                                                         *)
(* People comment, ask for another review, push to the same branch, merge  *)
(* and close at any time.  The review agent is abstracted to its outcomes: *)
(* fixes, no changes, no decision.  As in Builder, comments are posted and *)
(* answered or refused; ClaimProtocol has the retries.                     *)
(***************************************************************************)
EXTENDS Dibs, FiniteSets

CONSTANTS
  Run, PR, None,
  Page,         \* comments in the one page that list_comments fetches
  TTL,          \* settings.dibs_ttl_minutes
  MaxTries,     \* settings.max_tries
  MaxComments,  \* bound: comments by people, per pull request
  MaxPushes,    \* bound: commits by people, per pull request
  MaxClock      \* bound: the clock

ASSUME ReviewerAssumption ==
  /\ None \notin Run \cup PR
  /\ Page \in Nat /\ TTL \in Int /\ MaxTries \in Nat \ {0}
  /\ MaxComments \in Nat /\ MaxPushes \in Nat /\ MaxClock \in Nat

VARIABLES
  clock,
  thread,       \* pull request -> its conversation
  open,         \* the open pull requests, all of them authored by the agent's login
  head,         \* pull request -> commits on its head branch: [by, seen, leased]
  run           \* run -> its local variables

vars == <<clock, thread, open, head, run>>

Kind == "pr"
WorkPhases == {"review", "verify", "approve", "commit", "push"}
Ended == {"done", "failed", "crashed"}
Posting == {"claim", "lgtm", "note", "release", "recover"}
Phases == {"idle", "list", "scan", "try", "readback"} \cup WorkPhases \cup Posting \cup Ended
Texts == {"marker", "lgtm", "report", "command", "words"}
Records == {"none", "no_work", "error", "pushed_fixes"}

\* `seen` and `read` are what the last review saw: commits of the head, comments.
Fresh ==
  [pc |-> "idle", now |-> 0, todo |-> {}, target |-> None, owner |-> 0, attempt |-> 0,
   passed |-> 0, seen |-> 0, read |-> 0, parent |-> 0, record |-> "none"]

\* Markers come from runs; commands and other words come from people.
Comment ==
  {c \in [op : {"claim", "note", "release"}, kind : {Kind}, run : Run \cup {None}, until : Int,
          text : Texts, read : Nat, leased : BOOLEAN] :
     /\ c.op = "note" <=> c.text # "marker"
     /\ c.run = None <=> c.text \in {"command", "words"}}

Local ==
  [pc : Phases, now : 0..MaxClock, todo : SUBSET PR, target : PR \cup {None}, owner : Nat,
   attempt : 0..MaxTries, passed : 0..MaxTries, seen : Nat, read : Nat, parent : Nat,
   record : Records]

LocalOK(l) ==
  /\ l \in Local
  /\ l.pc \in WorkPhases \cup Posting \cup {"try", "readback"} => l.target \in PR

TypeOK ==
  /\ clock \in 0..MaxClock
  /\ thread \in [PR -> Seq(Comment)]
  /\ open \subseteq PR
  /\ head \in [PR -> Seq([by : Run \cup {None}, seen : Nat, leased : BOOLEAN])]
  /\ \A p \in PR : \A k \in DOMAIN head[p] : head[p][k].seen < k
  /\ run \in [Run -> Local]
  /\ \A r \in Run : LocalOK(run[r])

-----------------------------------------------------------------------------
(* What the pipeline reads *)

\* The conversation as far as the pipeline sees it.
Seen(p) == FirstPage(thread[p], Page)

Last(s, text) ==
  LET found == {k \in DOMAIN s : s[k].text = text}
  IN  IF found = {} THEN 0 ELSE CHOOSE k \in found : \A j \in found : j <= k

ByPeople(s) == {k \in DOMAIN s : s[k].run = None}

BugNeedsLgtm(p) == TRUE

\* needs_lgtm: never approved, or a person has commented since.
NeedsLgtm(p) ==
  \/ Last(Seen(p), "lgtm") = 0
  \/ \E k \in ByPeople(Seen(p)) : k > Last(Seen(p), "lgtm")

\* approved_awaiting_command: approved, and no command since.
ApprovedAwaitingCommand(p) ==
  /\ Last(Seen(p), "lgtm") # 0
  /\ Last(Seen(p), "command") <= Last(Seen(p), "lgtm")

Owner(r, p) == OwningClaim(Seen(p), Kind, run[r].now)
OwnedBy(r, p) == Owner(r, p) # 0 /\ thread[p][Owner(r, p)].run = r

\* Run r works, or writes its comment, under the claim its read-back found, and that
\* claim is neither revoked nor expired.
HoldsLease(r) ==
  LET p == run[r].target
      k == run[r].owner
  IN  /\ run[r].pc \in WorkPhases \cup {"lgtm"}
      /\ k # 0
      /\ ~ReleasedAfter(thread[p], Kind, k)
      /\ thread[p][k].until > clock

-----------------------------------------------------------------------------
(* Claiming *)

At(r, phase) == run[r].pc = phase

\* A step of run r changes the local variables of nobody else.
Becomes(r, local) == run' = [run EXCEPT ![r] = local]

Goes(r, phase) == Becomes(r, [run[r] EXCEPT !.pc = phase])

\* The task returns its record; a crashed one returns nothing.
Ends(r, phase, record) ==
  Becomes(r, [Fresh EXCEPT !.pc = phase, !.record = record])

github == <<thread, open, head>>

Init ==
  /\ clock = 0
  /\ thread = [p \in PR |-> <<>>]
  /\ open = PR
  /\ head = [p \in PR |-> <<>>]
  /\ run = [r \in Run |-> Fresh]

Begin(r) ==
  /\ At(r, "idle")
  /\ clock + TTL <= MaxClock
  /\ Becomes(r, [run[r] EXCEPT !.pc = "list", !.now = clock])
  /\ UNCHANGED <<clock, github>>

Lists(r) ==
  /\ At(r, "list")
  /\ Becomes(r, [run[r] EXCEPT !.pc = "scan", !.todo = open])
  /\ UNCHANGED <<clock, github>>

NoWork(r) ==
  /\ At(r, "scan")
  /\ run[r].todo = {}
  /\ Ends(r, "done", "no_work")
  /\ UNCHANGED <<clock, github>>

\* The first read of a listed pull request: an approved one is left alone ...
SkipsApproved(r, p) ==
  /\ At(r, "scan") /\ p \in run[r].todo
  /\ ApprovedAwaitingCommand(p)
  /\ Becomes(r, [run[r] EXCEPT !.todo = @ \ {p}])
  /\ UNCHANGED <<clock, github>>

\* ... any other one is tried, which reads the conversation again.
Tries(r, p) ==
  /\ At(r, "scan") /\ p \in run[r].todo
  /\ ~ApprovedAwaitingCommand(p)
  /\ Becomes(r, [run[r] EXCEPT !.pc = "try", !.target = p])
  /\ UNCHANGED <<clock, github>>

StandDown(r) ==
  LET p == run[r].target
  IN  /\ At(r, "try")
      /\ Owner(r, p) # 0 /\ ~OwnedBy(r, p)
      /\ Becomes(r, [run[r] EXCEPT !.pc = "scan", !.todo = @ \ {p}, !.target = None])
      /\ UNCHANGED <<clock, github>>

Stake(r) ==
  LET p == run[r].target
  IN  /\ At(r, "try")
      /\ Owner(r, p) = 0
      /\ Becomes(r, [run[r] EXCEPT !.pc = "claim", !.todo = @ \ {p}])
      /\ UNCHANGED <<clock, github>>

\* A plausible bug: after posting, the claim is taken for granted.
BugReadBackWins(r) ==
  /\ At(r, "readback")
  /\ Becomes(r, [run[r] EXCEPT !.pc = "review", !.owner = Owner(r, run[r].target)])
  /\ UNCHANGED <<clock, github>>

ReadBackWins(r) ==
  LET p == run[r].target
  IN  /\ At(r, "readback")
      /\ Owner(r, p) # 0 => OwnedBy(r, p)
      /\ Becomes(r, [run[r] EXCEPT !.pc = "review", !.owner = Owner(r, p)])
      /\ UNCHANGED <<clock, github>>

ReadBackLoses(r) ==
  LET p == run[r].target
  IN  /\ At(r, "readback")
      /\ Owner(r, p) # 0 /\ ~OwnedBy(r, p)
      /\ Becomes(r, [run[r] EXCEPT !.pc = "scan", !.target = None])
      /\ UNCHANGED <<clock, github>>

-----------------------------------------------------------------------------
(* Reviewing, approving, pushing *)

\* One attempt of the review agent, on the head and the conversation of this moment: no
\* decision, no changes needed, or fixes.
Review(r) ==
  LET p == run[r].target
      looked == [run[r] EXCEPT !.attempt = @ + 1, !.seen = Len(head[p]), !.read = Len(Seen(p))]
  IN  /\ At(r, "review")
      /\ \E next \in {[pc |-> "release", record |-> "error"],
                     [pc |-> "approve", record |-> "no_work"],
                     [pc |-> "verify", record |-> "none"]} :
           Becomes(r, [looked EXCEPT !.pc = next.pc, !.record = next.record])
      /\ UNCHANGED <<clock, github>>

\* Plausible bugs: one attempt too many; the last fixes are pushed although rejected.
BugAttempts(r) ==
  /\ At(r, "verify")
  /\ IF run[r].attempt <= MaxTries
     THEN Goes(r, "review")
     ELSE Becomes(r, [run[r] EXCEPT !.pc = "note", !.record = "error"])
  /\ UNCHANGED <<clock, github>>
BugRejected(r) ==
  /\ At(r, "verify")
  /\ Goes(r, IF run[r].attempt < MaxTries THEN "review" ELSE "commit")
  /\ UNCHANGED <<clock, github>>

\* The verifier rejects the fixes: another attempt, or a comment and a release.
Rejected(r) ==
  /\ At(r, "verify")
  /\ IF run[r].attempt < MaxTries
     THEN Goes(r, "review")
     ELSE Becomes(r, [run[r] EXCEPT !.pc = "note", !.record = "error"])
  /\ UNCHANGED <<clock, github>>

Verified(r) ==
  /\ At(r, "verify")
  /\ Becomes(r, [run[r] EXCEPT !.pc = "commit", !.passed = run[r].attempt])
  /\ UNCHANGED <<clock, github>>

\* _approve: post_lgtm reads the conversation and posts or not; then the release.
Approve(r) ==
  /\ At(r, "approve")
  /\ Goes(r, IF NeedsLgtm(run[r].target) THEN "lgtm" ELSE "release")
  /\ UNCHANGED <<clock, github>>

\* push_changes_to_pr: commit_files builds on the head it finds, whoever moved it since
\* the review; the state of the pull request is not looked at.
CommitStarts(r) ==
  /\ At(r, "commit")
  /\ Becomes(r, [run[r] EXCEPT !.pc = "push", !.parent = Len(head[run[r].target])])
  /\ UNCHANGED <<clock, github>>

\* The ref is patched without force: only if nobody has moved it.
Push(r) ==
  LET p == run[r].target
  IN  /\ At(r, "push")
      /\ run[r].parent = Len(head[p])
      /\ head' = [head EXCEPT ![p] =
                    Append(@, [by |-> r, seen |-> run[r].seen, leased |-> HoldsLease(r)])]
      /\ Becomes(r, [run[r] EXCEPT !.pc = "note", !.record = "pushed_fixes"])
      /\ UNCHANGED <<clock, thread, open>>

-----------------------------------------------------------------------------
(* Comments, failures, the environment *)

Text(r) ==
  CASE At(r, "lgtm") -> "lgtm"
    [] At(r, "note") -> "report"
    [] OTHER -> "marker"

\* The comment that run r posts; `read` and `leased` only serve the properties.
Outgoing(r) ==
  [op |-> CASE At(r, "claim") -> "claim"
            [] run[r].pc \in {"lgtm", "note"} -> "note"
            [] OTHER -> "release",
   kind |-> Kind,
   run |-> r,
   until |-> CASE At(r, "claim") -> run[r].now + TTL
               [] run[r].pc \in {"lgtm", "note"} -> 0
               [] OTHER -> run[r].now,
   text |-> Text(r),
   read |-> run[r].read,
   leased |-> HoldsLease(r)]

\* A plausible bug: the comment is taken for the end of the run.
BugPost(r) ==
  /\ run[r].pc \in Posting
  /\ thread' = [thread EXCEPT ![run[r].target] = Append(@, Outgoing(r))]
  /\ IF At(r, "claim") THEN Goes(r, "readback") ELSE Ends(r, "done", run[r].record)
  /\ UNCHANGED <<clock, open, head>>

Post(r) ==
  /\ run[r].pc \in Posting
  /\ thread' = [thread EXCEPT ![run[r].target] = Append(@, Outgoing(r))]
  /\ CASE At(r, "claim") -> Goes(r, "readback")
       [] run[r].pc \in {"lgtm", "note"} -> Goes(r, "release")
       [] OTHER -> Ends(r, "done", run[r].record)
  /\ UNCHANGED <<clock, open, head>>

\* An exception: before the claim is known, nothing is released; the last release
\* swallows its own failure; everything else goes there.
Raises(r) ==
  /\ run[r].pc \notin {"idle"} \cup Ended
  /\ CASE run[r].pc \in {"list", "scan", "try", "claim", "readback"} -> Ends(r, "failed", "error")
       [] At(r, "recover") -> Ends(r, "done", "error")
       [] OTHER -> Becomes(r, [run[r] EXCEPT !.pc = "recover", !.record = "error"])
  /\ UNCHANGED <<clock, github>>

Crash(r) ==
  /\ run[r].pc \notin {"idle"} \cup Ended
  /\ Ends(r, "crashed", "none")
  /\ UNCHANGED <<clock, github>>

PersonComments(p) ==
  /\ Cardinality(ByPeople(thread[p])) < MaxComments
  /\ \E text \in {"command", "words"} :
       thread' = [thread EXCEPT ![p] =
                    Append(@, [op |-> "note", kind |-> Kind, run |-> None, until |-> 0,
                               text |-> text, read |-> 0, leased |-> FALSE])]
  /\ UNCHANGED <<clock, open, head, run>>

PersonPushes(p) ==
  /\ Cardinality({k \in DOMAIN head[p] : head[p][k].by = None}) < MaxPushes
  /\ head' = [head EXCEPT ![p] = Append(@, [by |-> None, seen |-> Len(@), leased |-> FALSE])]
  /\ UNCHANGED <<clock, thread, open, run>>

\* A maintainer merges or closes the pull request.
MergeOrClose(p) ==
  /\ p \in open
  /\ open' = open \ {p}
  /\ UNCHANGED <<clock, thread, head, run>>

Tick ==
  /\ clock < MaxClock
  /\ clock' = clock + 1
  /\ UNCHANGED <<github, run>>

RunStep(r) ==
  \/ Lists(r) \/ NoWork(r)
  \/ \E p \in PR : SkipsApproved(r, p) \/ Tries(r, p)
  \/ StandDown(r) \/ Stake(r) \/ ReadBackWins(r) \/ ReadBackLoses(r)
  \/ Review(r) \/ Rejected(r) \/ Verified(r) \/ Approve(r)
  \/ CommitStarts(r) \/ Push(r) \/ Post(r)

Next ==
  \/ \E r \in Run : Begin(r) \/ RunStep(r) \/ Raises(r) \/ Crash(r)
  \/ \E p \in PR : PersonComments(p) \/ PersonPushes(p) \/ MergeOrClose(p)
  \/ Tick

Spec == Init /\ [][Next]_vars

-----------------------------------------------------------------------------
(* Properties *)

\* Between two approvals by runs that held their claims a person has commented: neither
\* a run that chose the PR before the first approval nor one that raced for it repeats
\* the comment (needs_lgtm is read under the claim, approved_awaiting_command before it).
\* This is for conversations that fit on the page: behind it an approval is not seen.
ApprovalsAnswerPeople ==
  \A p \in PR : \A j, k \in DOMAIN thread[p] :
     /\ j < k
     /\ thread[p][j].text = "lgtm" /\ thread[p][j].leased
     /\ thread[p][k].text = "lgtm" /\ thread[p][k].leased
     => \E i \in ByPeople(thread[p]) : j < i /\ i < k

\* Fixes are whole files written against the head the review saw.  The fixes of a run
\* that held its claim never go on top of other such fixes that it had not seen.
NoFixOverwritten ==
  \A p \in PR : \A j, k \in DOMAIN head[p] :
     head[p][j].leased /\ head[p][k].leased /\ j < k => j <= head[p][k].seen

\* What is about to be pushed is what the verifier passed, in the last attempt.
OnlyVerifiedPushed ==
  \A r \in Run : run[r].pc \in {"commit", "push"} =>
     run[r].passed = run[r].attempt /\ run[r].attempt > 0

\* "pushed_fixes" stands for a commit, a comment and a release, in that order for the
\* last two; "no_work" for no commit at all, and for an approval only with a release.
RecordsAreTrue ==
  \A r \in Run : At(r, "done") =>
    LET Wrote(p, k, text) == thread[p][k].run = r /\ thread[p][k].text = text
        Released(p, text) ==
          \A j \in DOMAIN thread[p] : Wrote(p, j, text) =>
             \E k \in DOMAIN thread[p] : j < k /\ Wrote(p, k, "marker")
                                         /\ thread[p][k].op = "release"
        Pushed(p) == \E k \in DOMAIN head[p] : head[p][k].by = r
    IN  /\ run[r].record = "pushed_fixes" =>
             \E p \in PR : /\ Pushed(p)
                           /\ \E k \in DOMAIN thread[p] : Wrote(p, k, "report")
                           /\ Released(p, "report")
        /\ run[r].record = "no_work" =>
             \A p \in PR : ~Pushed(p) /\ Released(p, "lgtm")

(***************************************************************************)
(* The reviewer implements the claim protocol, with the answers of GitHub  *)
(* in time: its theorems hold of the reviewer's claims.                    *)
(***************************************************************************)
Phase(r) ==
  CASE At(r, "try") -> "scan"
    [] run[r].pc \in WorkPhases -> "work"
    [] At(r, "lgtm") -> "note"
    [] OTHER -> run[r].pc

Plain(c) == [op |-> c.op, kind |-> c.kind, run |-> c.run, until |-> c.until]

Claims == INSTANCE ClaimProtocol WITH
  RunId <- [r \in Run |-> r],
  Target <- PR,
  MaxRetries <- 0,
  MaxRestarts <- 0,
  MaxNotes <- MaxComments,
  wire <- {},
  thread <- [p \in PR |-> [k \in DOMAIN thread[p] |-> Plain(thread[p][k])]],
  pc <- [r \in Run |-> Phase(r)],
  now <- [r \in Run |-> run[r].now],
  todo <- [r \in Run |-> run[r].todo],
  target <- [r \in Run |-> IF At(r, "try") THEN None ELSE run[r].target],
  owner <- [r \in Run |-> run[r].owner],
  tries <- [r \in Run |-> 0],
  restarts <- [r \in Run |-> 0]

ImplementsClaims == Claims!Spec
=============================================================================
