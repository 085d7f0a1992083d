--------------------------- MODULE ClaimProtocol ----------------------------
(***************************************************************************)
(* How scheduled runs of one pipeline claim, work on and release the issues*)
(* (builder) or the pull requests (reviewer) of the repository: the claim  *)
(* and release calls of github_client.py, the retrying transport under     *)
(* them, and the skeleton that builder() and reviewer() share around them. *)
(*                                                                         *)
(* What a run does with its target between claim and release is one state, *)
(* "work"; the modules of the pipelines refine it.                         *)
(*                                                                         *)
(* A POST that times out may have reached GitHub, may reach it later, even *)
(* after the client has retried it or given up, or never: the request is   *)
(* put on the wire and the wire delivers when it likes.  Reads are         *)
(* linearizable, of the first Page comments of the thread.                 *)
(***************************************************************************)
EXTENDS Dibs, FiniteSets

CONSTANTS
  Run,          \* one execution of the pipeline each, unless restarted
  RunId,        \* run -> what run_id() answers: the name of its Flyte action
  Target,       \* numbers of the issues (or of the pull requests)
  None,         \* no run, no target
  Kind,         \* "issue" or "pr": a number is one or the other, never both
  TTL,          \* settings.dibs_ttl_minutes, in ticks; not clamped by load_settings
  Page,         \* comments in the one page that list_comments fetches
  MaxRetries,   \* settings.http_retries
  MaxRestarts,  \* bound: re-executions of a run under its own id (0: retries=0)
  MaxNotes,     \* bound: comments by people
  MaxClock      \* bound: the clock, and so the last moment a run can start

ASSUME ConstantsAssumption ==
  /\ None \notin Target \cup {RunId[r] : r \in Run}
  /\ TTL \in Int
  /\ Page \in Nat
  /\ MaxRetries \in Nat
  /\ MaxRestarts \in Nat
  /\ MaxNotes \in Nat
  /\ MaxClock \in Nat

VARIABLES
  clock,        \* the time, shared by GitHub and the runs
  thread,       \* target -> its comments, oldest first
  wire,         \* POSTs that timed out on the client and may still be delivered
  pc,           \* run -> where it is
  now,          \* run -> `now`, read once when the task starts
  todo,         \* run -> listed targets it has not tried yet
  target,       \* run -> the target it is trying or working on
  owner,        \* run -> position of the claim on which try_claim succeeded, or 0
  tries,        \* run -> retries of the current POST so far
  restarts      \* run -> re-executions so far

vars == <<clock, thread, wire, pc, now, todo, target, owner, tries, restarts>>
runVars == <<now, todo, target, owner, tries, restarts>>

\* No two runs have the same id.  Everything below is stated without it.
DistinctIds == \A r, s \in Run : RunId[r] = RunId[s] => r = s

Ids == {RunId[r] : r \in Run}
Marker == [op : {"claim", "release"}, kind : {Kind}, run : Ids, until : Int]
Note == [op : {"note"}, kind : {Kind}, run : Ids \cup {None}, until : Int]
Comment == Marker \cup Note

Phases == {"idle", "list", "scan", "claim", "readback", "work", "note", "release", "recover",
           "done", "failed", "crashed"}
Posting == {"claim", "note", "release", "recover"}
Ended == {"done", "failed", "crashed"}

\* A POST in flight.  Every sending is a request of its own, also when a retry or a re-execution
\* has sent the same comment before: the run, its execution, its phase and its attempt.
Request == [to : Target, body : Comment,
            sent : Run \X (0..MaxRestarts) \X Posting \X (0..MaxRetries)]

GitHubTypeOK ==
  /\ clock \in Nat
  /\ thread \in [Target -> Seq(Comment)]
  /\ wire \subseteq Request

RunsTypeOK ==
  /\ pc \in [Run -> Phases]
  /\ now \in [Run -> Nat]
  /\ todo \in [Run -> SUBSET Target]
  /\ target \in [Run -> Target \cup {None}]
  /\ owner \in [Run -> Nat]
  /\ tries \in [Run -> 0..MaxRetries]
  /\ restarts \in [Run -> 0..MaxRestarts]
  /\ \A r \in Run : pc[r] \in Posting \cup {"readback", "work"} => target[r] \in Target

TypeOK == GitHubTypeOK /\ RunsTypeOK

-----------------------------------------------------------------------------
(* What a run reads and writes *)

\* What a run sees of the conversation.
Seen(t) == FirstPage(thread[t], Page)

ClaimMarker(r) == [op |-> "claim", kind |-> Kind, run |-> RunId[r], until |-> now[r] + TTL]
ReleaseMarker(r) == [op |-> "release", kind |-> Kind, run |-> RunId[r], until |-> now[r]]
NoteOf(id) == [op |-> "note", kind |-> Kind, run |-> id, until |-> 0]

\* The comment that run r is posting.
Outgoing(r) ==
  CASE pc[r] = "claim" -> ClaimMarker(r)
    [] pc[r] = "note" -> NoteOf(RunId[r])
    [] OTHER -> ReleaseMarker(r)

PostOf(r) ==
  [to |-> target[r], body |-> Outgoing(r), sent |-> <<r, restarts[r], pc[r], tries[r]>>]

\* Where a run goes when its POST is answered (a plausible bug: to work, without
\* reading back), and when its POST raises.  A failed
\* comment or release is caught by the pipeline's top level, which releases once
\* more; that last release swallows its own failure.  A failed claim is caught
\* there too, but with `claimed` still None nothing is released.
BugAnswered(phase) ==
  CASE phase = "claim" -> "work"
    [] phase = "note" -> "release"
    [] OTHER -> "done"

Answered(phase) ==
  CASE phase = "claim" -> "readback"
    [] phase = "note" -> "release"
    [] OTHER -> "done"

Raised(phase) ==
  CASE phase = "claim" -> "failed"
    [] phase = "recover" -> "done"
    [] OTHER -> "recover"

Goes(r, phase) == pc' = [pc EXCEPT ![r] = phase]

\* The task returns: its local variables are gone.
Ends(r, phase) ==
  /\ Goes(r, phase)
  /\ now' = [now EXCEPT ![r] = 0]
  /\ todo' = [todo EXCEPT ![r] = {}]
  /\ target' = [target EXCEPT ![r] = None]
  /\ owner' = [owner EXCEPT ![r] = 0]
  /\ tries' = [tries EXCEPT ![r] = 0]
  /\ UNCHANGED restarts

\* The run goes on to its next phase, or the task returns.
Proceeds(r, phase) ==
  IF phase \in Ended
  THEN Ends(r, phase)
  ELSE /\ Goes(r, phase)
       /\ tries' = [tries EXCEPT ![r] = 0]
       /\ UNCHANGED <<now, todo, target, owner, restarts>>

-----------------------------------------------------------------------------
(* Starting *)

Init ==
  /\ clock = 0
  /\ thread = [t \in Target |-> <<>>]
  /\ wire = {}
  /\ pc = [r \in Run |-> "idle"]
  /\ now = [r \in Run |-> 0]
  /\ todo = [r \in Run |-> {}]
  /\ target = [r \in Run |-> None]
  /\ owner = [r \in Run |-> 0]
  /\ tries = [r \in Run |-> 0]
  /\ restarts = [r \in Run |-> 0]

\* The task starts: it reads the clock, once.
Starts(r) ==
  /\ clock + TTL <= MaxClock
  /\ Goes(r, "list")
  /\ now' = [now EXCEPT ![r] = clock]
  /\ UNCHANGED <<clock, thread, wire, todo, target, owner, tries>>

Begin(r) ==
  /\ pc[r] = "idle"
  /\ Starts(r)
  /\ UNCHANGED restarts

\* The platform executes a crashed action again, under the same name.
Restart(r) ==
  /\ pc[r] = "crashed"
  /\ restarts[r] < MaxRestarts
  /\ Starts(r)
  /\ restarts' = [restarts EXCEPT ![r] = @ + 1]

\* It lists the targets, in an order that the choice of the next one stands for.
Lists(r) ==
  /\ pc[r] = "list"
  /\ Goes(r, "scan")
  /\ \E listed \in SUBSET Target : todo' = [todo EXCEPT ![r] = listed]
  /\ UNCHANGED <<clock, thread, wire, now, target, owner, tries, restarts>>

\* The pipeline finds the next listed target ineligible.
Skip(r, t) ==
  /\ pc[r] = "scan"
  /\ t \in todo[r]
  /\ todo' = [todo EXCEPT ![r] = @ \ {t}]
  /\ UNCHANGED <<clock, thread, wire, pc, now, target, owner, tries, restarts>>

\* No listed target could be claimed: the run records "no_work".
NoWork(r) ==
  /\ pc[r] = "scan"
  /\ todo[r] = {}
  /\ Ends(r, "done")
  /\ UNCHANGED <<clock, thread, wire>>

-----------------------------------------------------------------------------
(* Claiming *)

\* A plausible bug: the loop over the listed targets stays where it is.
BugStandDown(r, t) ==
  LET i == OwningClaim(Seen(t), Kind, now[r])
  IN  /\ pc[r] = "scan"
      /\ t \in todo[r]
      /\ i # 0
      /\ thread[t][i].run # RunId[r]
      /\ UNCHANGED vars

\* The next listed target is owned by another run: skip it.
StandDown(r, t) ==
  LET i == OwningClaim(Seen(t), Kind, now[r])
  IN  /\ pc[r] = "scan"
      /\ t \in todo[r]
      /\ i # 0
      /\ thread[t][i].run # RunId[r]
      /\ todo' = [todo EXCEPT ![r] = @ \ {t}]
      /\ UNCHANGED <<clock, thread, wire, pc, now, target, owner, tries, restarts>>

\* It is owned by this very run: go to work without a new claim.
AlreadyHeld(r, t) ==
  LET i == OwningClaim(Seen(t), Kind, now[r])
  IN  /\ pc[r] = "scan"
      /\ t \in todo[r]
      /\ i # 0
      /\ thread[t][i].run = RunId[r]
      /\ Goes(r, "work")
      /\ target' = [target EXCEPT ![r] = t]
      /\ owner' = [owner EXCEPT ![r] = i]
      /\ UNCHANGED <<clock, thread, wire, now, todo, tries, restarts>>

\* It is free: stake a claim.
Stake(r, t) ==
  /\ pc[r] = "scan"
  /\ t \in todo[r]
  /\ OwningClaim(Seen(t), Kind, now[r]) = 0
  /\ Goes(r, "claim")
  /\ todo' = [todo EXCEPT ![r] = @ \ {t}]
  /\ target' = [target EXCEPT ![r] = t]
  /\ UNCHANGED <<clock, thread, wire, now, owner, tries, restarts>>

\* A plausible bug: after posting, the claim is taken for granted.
BugReadBackWins(r) ==
  /\ pc[r] = "readback"
  /\ Goes(r, "work")
  /\ owner' = [owner EXCEPT ![r] = OwningClaim(Seen(target[r]), Kind, now[r])]
  /\ UNCHANGED <<clock, thread, wire, now, todo, target, tries, restarts>>

\* The read-back finds the run's own claim first, or no live claim at all: the run
\* goes to work.
ReadBackWins(r) ==
  LET i == OwningClaim(Seen(target[r]), Kind, now[r])
  IN  /\ pc[r] = "readback"
      /\ i # 0 => thread[target[r]][i].run = RunId[r]
      /\ Goes(r, "work")
      /\ owner' = [owner EXCEPT ![r] = i]
      /\ UNCHANGED <<clock, thread, wire, now, todo, target, tries, restarts>>

\* A plausible bug: any claim of another run, earlier or later, makes the race lost.
BugReadBackLoses(r) ==
  LET t == target[r]
  IN  /\ pc[r] = "readback"
      /\ \E i \in DOMAIN Seen(t) :
            /\ LiveClaim(Seen(t), Kind, now[r], i)
            /\ thread[t][i].run # RunId[r]
      /\ Goes(r, "scan")
      /\ target' = [target EXCEPT ![r] = None]
      /\ UNCHANGED <<clock, thread, wire, now, todo, owner, tries, restarts>>

\* The read-back finds an earlier claim of another run: leave the own claim where it
\* is and try the next listed target.
ReadBackLoses(r) ==
  LET t == target[r]
      i == OwningClaim(Seen(t), Kind, now[r])
  IN  /\ pc[r] = "readback"
      /\ i # 0
      /\ thread[t][i].run # RunId[r]
      /\ Goes(r, "scan")
      /\ target' = [target EXCEPT ![r] = None]
      /\ UNCHANGED <<clock, thread, wire, now, todo, owner, tries, restarts>>

\* A read raises, its retries exhausted: `claimed` is None, so nothing is released.
ReadFails(r) ==
  /\ pc[r] \in {"list", "scan", "readback"}
  /\ Ends(r, "failed")
  /\ UNCHANGED <<clock, thread, wire>>

-----------------------------------------------------------------------------
(* Working and letting go *)

\* The four ways a pipeline leaves its target: with a comment and a release (attempts
\* exhausted, fixes pushed, approved), with a release alone (nothing to do, superseded),
\* by an exception, or with its result and without a release (PR opened, issues filed).
CommentsAndReleases(r) ==
  pc[r] = "work" /\ Proceeds(r, "note") /\ UNCHANGED <<clock, thread, wire>>

Releases(r) ==
  pc[r] = "work" /\ Proceeds(r, "release") /\ UNCHANGED <<clock, thread, wire>>

WorkFails(r) ==
  pc[r] = "work" /\ Proceeds(r, "recover") /\ UNCHANGED <<clock, thread, wire>>

Keeps(r) ==
  pc[r] = "work" /\ Proceeds(r, "done") /\ UNCHANGED <<clock, thread, wire>>

-----------------------------------------------------------------------------
(* Posting comments *)

\* The POST is answered: the comment is at the end of the thread.
Post(r) ==
  /\ pc[r] \in Posting
  /\ thread' = [thread EXCEPT ![target[r]] = Append(@, Outgoing(r))]
  /\ Proceeds(r, Answered(pc[r]))
  /\ UNCHANGED <<clock, wire>>

BugRetriesLeft(r) == tries[r] <= MaxRetries

\* Of max_retries + 1 attempts the last one raises.
RetriesLeft(r) == tries[r] < MaxRetries

\* The POST times out: retried while retries are left, raised after that.
TimesOut(r) ==
  /\ pc[r] \in Posting
  /\ wire' = wire \cup {PostOf(r)}
  /\ IF RetriesLeft(r)
     THEN /\ tries' = [tries EXCEPT ![r] = @ + 1]
          /\ UNCHANGED <<pc, now, todo, target, owner, restarts>>
     ELSE Proceeds(r, Raised(pc[r]))
  /\ UNCHANGED <<clock, thread>>

\* The POST is refused with a status that is not retried: it raises at once.
Refused(r) ==
  /\ pc[r] \in Posting
  /\ Proceeds(r, Raised(pc[r]))
  /\ UNCHANGED <<clock, thread, wire>>

\* GitHub handles a request whose client has timed out.
Deliver(m) ==
  /\ m \in wire
  /\ wire' = wire \ {m}
  /\ thread' = [thread EXCEPT ![m.to] = Append(@, m.body)]
  /\ UNCHANGED <<clock, pc>>
  /\ UNCHANGED runVars

-----------------------------------------------------------------------------
(* The environment *)

\* Somebody writes a comment.
PersonComments(t) ==
  /\ Cardinality({k \in DOMAIN thread[t] : thread[t][k].run = None}) < MaxNotes
  /\ thread' = [thread EXCEPT ![t] = Append(@, NoteOf(None))]
  /\ UNCHANGED <<clock, wire, pc>>
  /\ UNCHANGED runVars

\* The pod dies, or the task is cancelled: CancelledError is no Exception.
Crash(r) ==
  /\ pc[r] \notin Ended \cup {"idle"}
  /\ Ends(r, "crashed")
  /\ UNCHANGED <<clock, thread, wire>>

Tick ==
  /\ clock < MaxClock
  /\ clock' = clock + 1
  /\ UNCHANGED <<thread, wire, pc>>
  /\ UNCHANGED runVars

-----------------------------------------------------------------------------
RunStep(r) ==
  \/ Lists(r) \/ NoWork(r)
  \/ \E t \in Target : StandDown(r, t) \/ AlreadyHeld(r, t) \/ Stake(r, t)
  \/ ReadBackWins(r) \/ ReadBackLoses(r)
  \/ CommentsAndReleases(r) \/ Releases(r) \/ Keeps(r)
  \/ Post(r)

Failure(r) ==
  ReadFails(r) \/ WorkFails(r) \/ TimesOut(r) \/ Refused(r) \/ Crash(r)

Next ==
  \/ \E r \in Run : Begin(r) \/ Restart(r) \/ RunStep(r) \/ Failure(r)
  \/ \E r \in Run, t \in Target : Skip(r, t)
  \/ \E m \in wire : Deliver(m)
  \/ \E t \in Target : PersonComments(t)
  \/ Tick

Spec == Init /\ [][Next]_vars

\* The platform keeps executing a started task, and time passes.  Nothing is assumed
\* of the cron trigger, of the wire, of people or of failures.
Fairness == WF_vars(Tick) /\ \A r \in Run : WF_vars(RunStep(r))

FairSpec == Spec /\ Fairness

-----------------------------------------------------------------------------
(* Properties *)

\* Run r is working on t: its effects on the target lie ahead.
Working(r, t) == pc[r] = "work" /\ target[r] = t

\* Comment i of thread t still speaks for its run: a claim no release has followed.
Unrevoked(t, i) == i \in DOMAIN thread[t] /\ ~ReleasedAfter(thread[t], Kind, i)

\* Run r works on t under the claim its read-back found, and that claim is neither
\* revoked nor expired.
HoldsLease(r, t) ==
  /\ Working(r, t)
  /\ owner[r] # 0
  /\ Unrevoked(t, owner[r])
  /\ thread[t][owner[r]].until > clock

\* What a successful read-back leaves behind: claim i of thread s carries the run's id, and
\* every earlier claim that no release has followed had expired at the run's `now`.
Won(s, id, i, n) ==
  /\ i \in DOMAIN s
  /\ s[i].op = "claim"
  /\ s[i].run = id
  /\ \A j \in DOMAIN s :
        j < i /\ MarkerOf(s, Kind, j) /\ s[j].op = "claim" /\ ~ReleasedAfter(s, Kind, j)
          => s[j].until <= n

\* The inductive part of the lease properties: it relates every working run to the whole
\* thread, and no later comment of anybody can undo it.
WonClaims ==
  \A r \in Run :
     /\ now[r] <= clock
     /\ pc[r] = "work" /\ owner[r] # 0 => Won(thread[target[r]], RunId[r], owner[r], now[r])

\* Two runs never work on one target under live claims, whatever is lost, delayed,
\* duplicated or restarted, and even when the claims do not fit on the first page
\* (try_claim, owning_claim).
LeaseExclusion ==
  \A t \in Target : \A r, s \in Run : HoldsLease(r, t) /\ HoldsLease(s, t) => r = s

\* Of two runs that work on one target, one has lost its claim: it was revoked by
\* somebody's release, or it had expired when the other one started, or it never was
\* on the page.  This holds at any moment and does not depend on the clock.
OverlapExplained ==
  \A t \in Target : \A r, s \in Run :
     /\ r # s /\ Working(r, t) /\ Working(s, t)
     /\ owner[r] # 0 /\ Unrevoked(t, owner[r])
     /\ owner[s] # 0 /\ Unrevoked(t, owner[s])
     => \/ thread[t][owner[r]].until <= now[s]
        \/ thread[t][owner[s]].until <= now[r]

\* A run that goes to work on an empty read-back (owner None) has posted a claim, and
\* that claim was revoked, or fell off the page, or was born expired.
BlindWinExplained ==
  \A r \in Run :
     pc[r] = "work" /\ owner[r] = 0 =>
       \E i \in DOMAIN thread[target[r]] :
          /\ thread[target[r]][i] = ClaimMarker(r)
          /\ \/ TTL <= 0
             \/ i > Page
             \/ ReleasedAfter(thread[target[r]], Kind, i)

\* The protocol implements the lease: the leases are those of the working runs.
leaseSet ==
  {[run |-> p[1], target |-> p[2], until |-> thread[p[2]][owner[p[1]]].until] :
     p \in {q \in Run \X Target : HoldsLease(q[1], q[2])}}

L == INSTANCE Lease WITH leases <- leaseSet

LeaseSpec == L!Spec

\* A claim nobody releases stops blocking its target by time alone: whatever its run
\* did, by the end of the run's lease the claim is dead (owning_claim's expiry).
ClaimsExpire ==
  \A t \in Target : []<>(OwningClaim(thread[t], Kind, clock) = 0)

\* Every started run comes to an end, with a record or with a crash; its retries and
\* the targets it goes through are finite.
RunsEnd == \A r \in Run : pc[r] = "list" ~> pc[r] \in Ended
=============================================================================
