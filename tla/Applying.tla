------------------------------ MODULE Applying ------------------------------
(***************************************************************************)
(* The write tools (tools.py), request by request, over the transport of   *)
(* github_client.py: a POST, PATCH or PUT whose answer does not come is    *)
(* sent again, and the one that was given up may still reach GitHub.       *)
(*                                                                         *)
(*   Opener      seed the default branch if it is empty, create the head   *)
(*               branch, commit onto it, open the pull request             *)
(*   Pusher      commit onto the head branch of a pull request             *)
(*   Decomposer  file the sub-issues one by one, close the spec            *)
(*                                                                         *)
(* A commit is the history it denotes: the calls whose files were committed*)
(* on top of the base.  Blobs, trees and commits that no branch reaches are*)
(* invisible and left out, as is the comment that precedes the closing of  *)
(* a spec.                                                                 *)
(***************************************************************************)
EXTENDS SequencesExt

CONSTANTS
  Opener, Pusher, Decomposer,   \* the calls of each tool
  None,
  Branch,       \* head branches
  Staged,       \* the sub-issues in the order of topological_order: each one's
                \* dependencies, as positions
  MaxRetries    \* settings.http_retries

Call == Opener \cup Pusher \cup Decomposer

ASSUME ApplyingAssumption ==
  /\ None \notin Branch
  /\ Opener \cap Pusher = {} /\ Decomposer \cap (Opener \cup Pusher) = {}
  /\ Staged \in Seq(SUBSET Nat) /\ Staged # <<>>
  /\ MaxRetries \in Nat

VARIABLES
  seeded,       \* the default branch has a commit
  head,         \* the branches that exist -> their histories
  prs,          \* pull requests: [by, branch, open]
  issues,       \* the filed sub-issues, by number: [by, item, upstreams]
  closed,       \* the calls that have closed their spec
  wire,         \* requests that were given up and may still arrive
  call          \* call -> its local variables

github == <<seeded, head, prs, issues, closed>>
vars == <<github, wire, call>>

Writing == {"seed", "create", "move", "open", "file", "close"}
Ended == {"returned", "raised"}
Phases == {"idle", "look", "read"} \cup Writing \cup Ended

Fresh ==
  [pc |-> "idle", try |-> 0, branch |-> None, commit |-> <<>>, numbers |-> <<>>]

\* A request: the local variables of its call when it was sent.
Request == [kind : Writing, by : Call, try : 0..MaxRetries, branch : Branch \cup {None},
            commit : Seq(Call), upstreams : SUBSET Nat, item : Nat]

RequestOK(q) ==
  /\ q \in Request
  /\ q.kind = "create" => q.branch \in Branch /\ q.commit = <<>>
  /\ q.kind \in {"move", "open"} => q.branch \in DOMAIN head
  /\ q.kind = "file" => q.item \in DOMAIN Staged /\ q.upstreams \subseteq DOMAIN issues

Local == [pc : Phases, try : 0..MaxRetries, branch : Branch \cup {None},
          commit : Seq(Call), numbers : Seq(Nat)]

\* The phases that each tool goes through.
PhasesOf(c) ==
  {"idle"} \cup Ended \cup
  CASE c \in Opener -> {"look", "seed", "create", "read", "move", "open"}
    [] c \in Pusher -> {"read", "move"}
    [] OTHER -> {"file", "close"}

LocalOK(c, l) ==
  /\ l \in Local
  /\ l.pc \in PhasesOf(c)
  /\ l.pc \in {"look", "seed", "create"} => l.branch \in Branch
  /\ l.pc \in {"read", "move", "open"} => l.branch \in DOMAIN head
  /\ l.pc = "file" => Len(l.numbers) < Len(Staged)
  /\ l.pc \notin {"move", "open"} => l.commit = <<>>
  /\ l.pc \notin {"file", "close"} => l.numbers = <<>>
  /\ \A j \in DOMAIN l.numbers : l.numbers[j] \in DOMAIN issues

\* Branches and sub-issues that are named exist; a call keeps to the phases of its tool, to the
\* retries it has and to the length of the decomposition, and carries nothing it has no use for.
TypeOK ==
  /\ seeded \in BOOLEAN
  /\ DOMAIN head \subseteq Branch
  /\ head \in [DOMAIN head -> Seq(Call)]
  /\ prs \subseteq [by : Call, branch : DOMAIN head, open : BOOLEAN]
  /\ issues \in Seq([by : Call, item : DOMAIN Staged, upstreams : SUBSET (1..Len(issues))])
  /\ closed \subseteq Call
  /\ \A q \in wire : RequestOK(q)
  /\ call \in [Call -> Local]
  /\ \A c \in Call : LocalOK(c, call[c])

-----------------------------------------------------------------------------
(* GitHub *)

HeadIsFree(b) == \A p \in prs : p.branch = b => ~p.open

\* A plausible bug: the ref is moved with force.
BugAccepts(q) ==
  CASE q.kind = "seed" -> ~seeded
    [] q.kind = "create" -> q.branch \notin DOMAIN head
    [] q.kind = "open" -> HeadIsFree(q.branch)
    [] OTHER -> TRUE

\* A branch is created once, a ref moves forward only, a head has one open pull request;
\* anything else is answered 422.
Accepts(q) ==
  CASE q.kind = "seed" -> ~seeded
    [] q.kind = "create" -> q.branch \notin DOMAIN head
    [] q.kind = "move" -> IsPrefix(head[q.branch], q.commit)
    [] q.kind = "open" -> HeadIsFree(q.branch)
    [] OTHER -> TRUE

Performs(q) ==
  /\ seeded' = (seeded \/ q.kind = "seed")
  /\ head' = IF q.kind \in {"create", "move"}
             THEN [b \in DOMAIN head \cup {q.branch} |-> IF b = q.branch THEN q.commit ELSE head[b]]
             ELSE head
  /\ prs' = IF q.kind = "open"
            THEN prs \cup {[by |-> q.by, branch |-> q.branch, open |-> TRUE]}
            ELSE prs
  /\ issues' = IF q.kind = "file"
               THEN Append(issues, [by |-> q.by, item |-> q.item, upstreams |-> q.upstreams])
               ELSE issues
  /\ closed' = IF q.kind = "close" THEN closed \cup {q.by} ELSE closed

-----------------------------------------------------------------------------
(* A call *)

Init ==
  /\ seeded \in BOOLEAN
  /\ head = <<>>
  /\ prs = {}
  /\ issues = <<>>
  /\ closed = {}
  /\ wire = {}
  /\ call = [c \in Call |-> Fresh]

At(c, phase) == call[c].pc = phase

\* A call goes on with its next request, or ends and its local variables are gone.
Continues(c, phase, numbers) ==
  call' = [call EXCEPT ![c] =
    IF phase \in Ended
    THEN [Fresh EXCEPT !.pc = phase]
    ELSE [@ EXCEPT !.pc = phase, !.try = 0, !.numbers = numbers]]

Goes(c, phase) == Continues(c, phase, call[c].numbers)

\* The pipeline calls the tool.  push_changes_to_pr reads the head branch of its pull
\* request, whatever has become of that by now.
Starts(c) ==
  /\ At(c, "idle")
  /\ \/ /\ c \in Opener
        /\ \E b \in Branch : call' = [call EXCEPT ![c].pc = "look", ![c].branch = b]
     \/ /\ c \in Pusher
        /\ \E p \in prs : call' = [call EXCEPT ![c].pc = "read", ![c].branch = p.branch]
     \/ /\ c \in Decomposer
        /\ Goes(c, "file")
  /\ UNCHANGED <<github, wire>>

\* ensure_base_branch: does the default branch have a commit?
Looks(c) ==
  /\ At(c, "look")
  /\ Goes(c, IF seeded THEN "create" ELSE "seed")
  /\ UNCHANGED <<github, wire>>

\* commit_files reads the head of the branch and builds its commit on it.
Reads(c) ==
  /\ At(c, "read")
  /\ call' = [call EXCEPT ![c].pc = "move", ![c].commit = Append(head[call[c].branch], c)]
  /\ UNCHANGED <<github, wire>>

\* The sub-issue that is next ...
Item(c) == Len(call[c].numbers) + 1

\* A plausible bug: they are looked up among the filed issues.
BugUpstreams(c) ==
  {n \in DOMAIN issues : issues[n].by = c /\ issues[n].item \in Staged[Item(c)]}

\* ... and the numbers of those of its dependencies that were filed before it.
Upstreams(c) ==
  {call[c].numbers[j] : j \in {i \in Staged[Item(c)] : i \in DOMAIN call[c].numbers}}

Outgoing(c) ==
  [kind |-> call[c].pc, by |-> c, try |-> call[c].try, branch |-> call[c].branch,
   commit |-> call[c].commit,
   item |-> IF At(c, "file") THEN Item(c) ELSE 0,
   upstreams |-> IF At(c, "file") THEN Upstreams(c) ELSE {}]

\* What follows an answered request.
NextPhase(c) ==
  CASE At(c, "seed") -> "create"
    [] At(c, "create") -> "read"
    [] At(c, "move") -> IF c \in Opener THEN "open" ELSE "returned"
    [] At(c, "file") -> IF Item(c) < Len(Staged) THEN "file" ELSE "close"
    [] OTHER -> "returned"

\* A plausible bug: the number that is remembered is the item's position.
BugProceeds(c) ==
  Continues(c, NextPhase(c),
            IF At(c, "file") THEN Append(call[c].numbers, Item(c)) ELSE call[c].numbers)

\* The answer to a filed issue is its number.
Proceeds(c) ==
  Continues(c, NextPhase(c),
            IF At(c, "file") THEN Append(call[c].numbers, Len(issues')) ELSE call[c].numbers)

Answered(c) ==
  /\ call[c].pc \in Writing
  /\ Accepts(Outgoing(c))
  /\ Performs(Outgoing(c))
  /\ Proceeds(c)
  /\ UNCHANGED wire

\* GitHub answers 422, which only the creation of the branch takes for an answer.
Conflicts(c) ==
  /\ call[c].pc \in Writing
  /\ ~Accepts(Outgoing(c))
  /\ Goes(c, IF At(c, "create") THEN "read" ELSE "raised")
  /\ UNCHANGED <<github, wire>>

\* Plausible bugs: retries without end; the whole of commit_files is tried again.
BugRetriesForEver(c) ==
  call' = [call EXCEPT ![c].try = (@ + 1) % (MaxRetries + 1)]

BugCommitsAgain(c) ==
  IF call[c].try < MaxRetries
  THEN call' = [call EXCEPT ![c].try = @ + 1, ![c].pc = IF @ = "move" THEN "read" ELSE @]
  ELSE Goes(c, "raised")

\* _request sends once more, or raises.
SendsAgain(c) ==
  IF call[c].try < MaxRetries
  THEN call' = [call EXCEPT ![c].try = @ + 1]
  ELSE Goes(c, "raised")

\* No answer in time: the request may be on its way.
TimesOut(c) ==
  /\ call[c].pc \in Writing
  /\ SendsAgain(c)
  /\ wire' = wire \cup {Outgoing(c)}
  /\ UNCHANGED github

\* The connection fails, or GitHub answers 429 or 5xx.
Refused(c) ==
  /\ call[c].pc \in Writing
  /\ SendsAgain(c)
  /\ UNCHANGED <<github, wire>>

\* A read fails for good, or the task dies between two requests.
Raises(c) ==
  /\ call[c].pc \notin {"idle"} \cup Ended
  /\ Goes(c, "raised")
  /\ UNCHANGED <<github, wire>>

\* A request that was given up arrives; nobody hears its answer.
Arrives(q) ==
  /\ q \in wire
  /\ wire' = wire \ {q}
  /\ IF Accepts(q) THEN Performs(q) ELSE UNCHANGED github
  /\ UNCHANGED call

\* Maintainers merge a pull request or close it unmerged; its branch stays.
Settles(p) ==
  /\ p \in prs /\ p.open
  /\ prs' = (prs \ {p}) \cup {[p EXCEPT !.open = FALSE]}
  /\ UNCHANGED <<seeded, head, issues, closed, wire, call>>

CallStep(c) == Looks(c) \/ Reads(c) \/ Answered(c) \/ Conflicts(c) \/ TimesOut(c) \/ Refused(c)

Next ==
  \/ \E c \in Call : Starts(c) \/ CallStep(c) \/ Raises(c)
  \/ \E q \in wire : Arrives(q)
  \/ \E p \in prs : Settles(p)

Spec == Init /\ [][Next]_vars

\* Each request has a time-out.  Nothing is assumed of late requests, or of maintainers.
FairSpec == Spec /\ \A c \in Call : WF_vars(CallStep(c))

-----------------------------------------------------------------------------
(* Properties *)

\* Whatever is retried, late or refused: the effects of a call come in their order (no pull
\* request before its commit, no spec closed before its sub-issues are filed), what has
\* been committed stays, and a call that returns has made them all.
Landed(c) == \E b \in DOMAIN head : c \in Range(head[b])

Made(c) ==
  IF c \in Decomposer
  THEN {issues[n].item : n \in {m \in DOMAIN issues : issues[m].by = c}}
         \cup {Len(Staged) + 1 : k \in {c} \cap closed}
  ELSE {1 : k \in {k \in {c} : Landed(c)}} \cup {2 : p \in {p \in prs : p.by = c}}

Promise == INSTANCE ToolCall WITH
  Effects <- [c \in Call |-> CASE c \in Opener -> 2
                              [] c \in Pusher -> 1
                              [] OTHER -> Len(Staged) + 1],
  made <- [c \in Call |-> Made(c)],
  returned <- {c \in Call : At(c, "returned")}

ImplementsToolCall == Promise!Spec

\* A commit lands once, although its PATCH may be sent, and arrive, several times.
LandsOnce ==
  \A b, d \in DOMAIN head : \A j \in DOMAIN head[b], k \in DOMAIN head[d] :
     head[b][j] = head[d][k] => b = d /\ j = k

\* The upstream numbers in a filed sub-issue are those of earlier issues of its own
\* decomposition, one for each dependency that precedes it.
UpstreamsResolve ==
  \A n \in DOMAIN issues :
     LET i == issues[n]
     IN  /\ {issues[m].item : m \in i.upstreams} = {k \in Staged[i.item] : 1 <= k /\ k < i.item}
         /\ \A m \in i.upstreams : m < n /\ issues[m].by = i.by

\* A retried or late POST files a second copy of a sub-issue.  Only one of the copies has
\* dependents: who closes it unblocks them, and the others keep nobody waiting.
CopiesKeepNobodyWaiting ==
  \A m, n \in UNION {issues[k].upstreams : k \in DOMAIN issues} :
     issues[m].by = issues[n].by /\ issues[m].item = issues[n].item => m = n

\* A call that has started ends, whatever the connection does.
CallsEnd ==
  \A c \in Call : call[c].pc # "idle" ~> call[c].pc \in Ended
=============================================================================
