# A verification development for flyte-agent-loop

This directory holds TLA+ models of the control loop in
`src/src/flyte_agent_loop/` (about 3900 lines of Python), the TLC
configurations that check them and theorems checked by TLAPS. File names without
a path are relative to `src/src/flyte_agent_loop/`; `architecture.md` is
`src/docs/architecture.md`.

Three Flyte tasks are fired by crons and share nothing but a GitHub repository
and two memory stores. There is no lock and no coordinator: mutual exclusion is
made of *markers*, HTML comments in the conversation of an issue or a pull
request ("dibs"). What can go wrong lies between the processes, and that is what
the models are about.

## 1. The system

| component | state it keeps | operations | module |
|---|---|---|---|
| **dibs** `dibs.py` | none: pure functions over a thread of comments | parse markers, first live claim (`owning_claim`) | `Dibs` |
| **claim protocol** `github_client.py:563-601`, `pipeline.py`, the skeleton of `builder()` and `reviewer()` | the thread on GitHub; per run `now`, listed targets, target | list, stand down, claim, read back, work, comment, release, recover | `ClaimProtocol`, `Lease` |
| **HTTP transport** `github_client.py:215-285` | retry counter of a request | send, retry on time-out and 5xx, raise | `ClaimProtocol` (the POSTs of claims, notes and releases), `Applying` (all other writes) |
| **write tools** `tools.py`, `github_client.py:384-560` | branches, PRs, sub-issues on GitHub; locals of a call | seed the default branch, create a branch, commit, move the ref, open a PR, file sub-issues, close the spec | `Applying`, `ToolCall` |
| **the loop as a whole** | the lists of issues and PRs, their order | round after round of both pipelines, people who approve, merge, command, reject | `Lifecycle`, `Backlog` |
| **builder** `builder_agent.py`, `tools.py` | issues, branches, PRs, sub-issues on GitHub; locals of a run | list, filter, claim, build/verify attempts, guard, branch, commit, PR; or sub-issues and closing the spec | `Builder` |
| **reviewer** `reviewer_agent.py`, `tools.py` | conversations and head branches of PRs; locals of a run | list, skip approved, claim, review/verify attempts, approve, push, release | `Reviewer` |
| **staging, decomposition** `staging.py`, `agents.py:112-146`, `github_client.py:116-144`, `tools.py:132-158` | the stage an agent fills | stage/unstage files, stage issues, submit (build agent and review agent), `to_plan`, `topological_order`, file | `Staging` |
| **shared memory** `memory.py` | the `-runs` and `-context` stores | open a copy, save the copy, record a run, delete records, write ledger/lessons/digest | `SharedMemory` |
| **distiller** `distiller_agent.py` | locals of a round | load, prune, ingest, distill, write | `SharedMemory` |
| **evaluation** `evals.py` | the ledger `IngestState` | select and ingest new records | `Evals`, inside `SharedMemory` |
| run bookkeeping `pipeline.py`, `common.py` | - | `release_claim`, `comment_and_release`, `safe_release`, `finish_run` | inside the modules above |
| agents, configuration, LLM callback, reports, introspection, deployment | none that the loop depends on | prompts, environment variables, HTML, queries, declarations | not modelled |

**How they interact.** A builder run and a reviewer run call `list_*`,
`list_comments` and `add_comment` on GitHub; the comments of one are the markers the
others read. The number of a PR and the number of an issue are drawn from one
sequence, and a marker carries its kind, so the claims of builder and reviewer never
mix (a thread has one kind). Every run ends by saving one record into the
`-runs` store (`finish_run`, `record_run`). The distiller alone reads that store,
deletes from it, and writes the `-context` store, whose digest the agents of later
runs read.

**Which behaviours are hard.** Overlapping fires of one cron; a read used after
others have written (the claim check, the guard before a PR, the approval check,
the copy of a store); a clock that a run reads once and uses to the end; a release
that voids everybody's claims; POSTs that time out and arrive late or twice;
crashes between any two requests and re-execution under the same name; partial
decompositions; a ledger and lessons that are saved at different moments; distillers whose
rounds overlap; listings whose order every comment changes. Each is
listed with its line in `PROJECT.json` under "hazards", with the properties that
would catch it.

**What makes each component right.** A target is never worked on under two live
claims, and every overlap has a reason one can name; claims die by themselves and runs
end (protocol). An issue gets one outcome, upstreams first, only what was verified is
applied, records tell the truth (builder). An approval is repeated only in answer to a
person, no fix covers another unseen one (reviewer). A record of work is never lost, is
distilled once and reaches the agents, and the ledger counts it once (memory). A plan is of
one kind, and what is filed can be worked off (staging). The effects
of a tool come in their order, once each, and the call ends (write tools). Issues ship, in
the order of their dependencies, and no PR waits for ever (the loop).

## 2. The modules

    Dibs              pure operators on a thread
     |- ClaimProtocol   any number of runs, targets, retries, restarts
     |    |- ClaimProtocolProofs   theorems: types, exclusion, overlaps, wins on an
     |    |                        empty read-back, the protocol implements Lease
     |    |- Lease                 what the protocol promises; INSTANCEd by it
     |    |- ClaimRace             who was told to have lost to whom   MCClaimRace
     |    |    `- ClaimRaceProofs       theorem: every race leaves a contender
     |    `- MCClaimProtocol
     |- Builder         INSTANCEs ClaimProtocol (refinement)    MCBuilder
     |    `- BuilderProofs         theorems: types, verified changes, records, upstreams;
     |                             refinement; one PR, one outcome, pushes
     `- Reviewer        INSTANCEs ClaimProtocol (refinement)    MCReviewer
          `- ReviewerProofs        theorems: types, verified pushes, records;
                                   refinement; fixes, approvals
    ToolCall          what a write tool promises; INSTANCEd by
     `- Applying        the tools, request by request           MCApplying
          `- ApplyingProofs        theorems: types, commits, sub-issues; the tools
                                   implement ToolCall
    Backlog           what the loop promises; INSTANCEd by
     `- Lifecycle       rounds of both pipelines, and people    MCLifecycle
          `- LifecycleProofs       theorems: types; the loop follows Backlog, but
                                   for its fairness
    Evals             pure operators on the ledger
     `- SharedMemory    the stores, the runs, the distillers    MCSharedMemory
          `- SharedMemoryProofs    theorems: types, records, ledgers, rounds
    Staging           the stage of an agent, and its filing     MCStaging
     `- StagingProofs    theorems: types, plans, the order of filing

Definitions named `Bug...` are plausible mistakes in the definition that follows them;
no specification uses them. They serve to confirm that each property can fail.

### Dibs, ClaimProtocol, Lease

A comment is `[op, kind, run, until]`: what `parse_markers` makes of it, `op = "note"`
when it has no marker. `OwningClaim` is the position of the first claim that is
unexpired and that no release of *anybody* follows (`dibs.py:133-151`), and
`Seen` is the first page of a thread. The other reading of a
thread that `dibs.py` offers (`active_claim`), by which the latest marker counts, is not used by
the loop and is left out.

`ClaimProtocol` follows one run through `pc`:
`idle -> list -> scan -> claim -> readback -> work -> note -> release -> done`, with
`recover` for the top-level exception handler, `failed` for a run that raises before
its claim is known, and `crashed`. `StandDown`, `AlreadyHeld`, `Stake`, `ReadBackWins`
and `ReadBackLoses` are the branches of `try_claim`. An empty read-back *wins*, as in
`github_client.py:592-593`. What the run does between claim and release is one state,
`work`; its four exits are the ways the pipelines leave a target. `Post`, `TimesOut`,
`Refused` and `Deliver` are the transport: a timed-out POST stays on the wire and is
delivered at any later moment or never, so that retries duplicate and reorder. Each sending is
a request of its own (`sent`), so that two copies of one comment may both be on the wire.
`Restart` executes a crashed action again under its own name, the case for which
`try_claim` accepts a claim "already held by this run".

`Lease` is the abstract specification, written for a caller: a lease on a target is
granted only while no unexpired, unrevoked lease on it exists; anybody may revoke;
time ends it. `LeaseSpec` maps the leases to the working runs that hold a live claim.

Time is one integer. `now[r]` is read at the start of the task, as in
`builder_agent.py:64` and `reviewer_agent.py`, and never again.

### Builder and Reviewer

Each has one record of local variables per run and one action per request to GitHub, so
that other runs, maintainers and people act between any two requests. The agents are
choices between their outcomes (a plan or none, a verdict); texts are left out.
`Raises` is an exception at any step, `Crash` the death of the task. `Applied` gives a
change two outcomes: the answer arrives, or it is lost and the run fails although the
change was made. `Page` is the first page of a conversation, `ListPage` and `PRPage` are the entries that one page of a listing shows, less those
that are taken by what people have open: the issue listing shows issues and PRs on one page
(`Pages`), the guard and the filter of the listing one page of PRs (`Linked`). History fields (`leased`, `seen`, `read`, `by`) only record what was
true at the moment of a change; no guard reads them.

Both *implement ClaimProtocol* (`ImplementsClaims`): the phases between claim and
release map to `work`, the wire is empty because here a POST is answered or refused. The
refinement is proved, so what is proved about the protocol holds of the two pipelines' claims, and
the theorems about pull requests, fixes and approvals start from it (section 4).

### Applying, ToolCall

`Builder` makes a commit, a PR or a sub-issue in one step that may lose its answer. `Applying`
looks into that step: each call is at one of its requests, and each request is `Answered`,
answered 422 (`Conflicts`), given up and perhaps still on its way (`TimesOut`), `Refused` with
no effect, or the call `Raises`. `Accepts` says which requests GitHub performs: a branch is
created once, a ref moves forward only, a head has one open PR. Only `create_branch` takes a
422 for an answer. A commit is the sequence of the calls that committed on top of the base,
so that "moves forward" is `IsPrefix`. A request that was given up arrives later or never,
between any two requests of any call, and after the end of its own.

`ToolCall` is the abstract specification: a call makes its effects one after the other,
none is undone, a call that returns has made all. `ImplementsToolCall` reads the effects off
GitHub (`Made`), not off the program counters.

### Lifecycle, Backlog

`Builder` and `Reviewer` end with one round of each run. `Lifecycle` reduces a round to two
steps, claim and outcome, and plays rounds for ever: a slot is a round that the cron
keeps in flight, and becomes free again when the round ends. What matters between rounds is
what one round leaves for the next: the claim that stays on an issue whose PR is open, the
approval, and the *order of the lists*: GitHub lists by last update, and claims, releases and
feedback are comments and thus updates (`Touch`). `NextIssue` and `NextPR` pick the first
entry that passes the filters, as `_claim_open_issue` and `_claim_agent_pr` do. A claim may expire at any
moment (`Expire`), so that two rounds may hold one target.

`Backlog` is what the people who file issues are promised, without runs and claims: a change
is proposed when everything it depends on is done, and every issue is done in the end.

### Evals, SharedMemory, Staging

A store is a set of records, or of files that are sets of the records that went into
them. Opening copies it and saving uploads the whole copy (`memory.py:70-76`,
`149-173`). The two are separate actions. The ledger is the real one: `Evals` has
`select_new_records` and `ingest_new_records`, one record after the other in the order of
the timestamps (a record is named by its run, and runs are numbered), and each round of `SharedMemory` runs
them on the ledger it has read and saves the result later, so that rounds which overlap
put old ledgers back. `RecordOf` gives each record its target and outcome. `Shown` is what
`render_records_brief` puts before the agent: the last `Brief` of the new records (60 in the
code). `dropped` and `overlapped` are history: what a round did not show or lost by a
failure, and that two rounds were writing at the same time.

`Staging` lets an agent (`kind`: the build agent or the review agent) call the staging
tools in any order, then turns the stage into a plan and files a decomposition. The
depth-first search of `topological_order` is a state machine: `stack` holds the nested calls of
`visit`, each with its item and the dependency it looks at next (the code's `stack` argument is
their keys, `Visiting`), `ordered` what is placed, `item` where the outer loop is. `VisitNext` is
that loop, `VisitDependency` the loop in `visit`, `Place` its end. `FiledUpstreams` is what
`open_issues_from_decomposition` finds in `key_to_number` when the k-th sub-issue is created.

## 3. What the runs check

`CHECK_DEADLOCK FALSE` wherever runs really end (protocol, builder, reviewer, write tools) or
everything is done (the loop). **Violated** marks a run that shows the code to
disagree with a sentence of its docs, comments or tests; section 5 and the "findings" of
`PROJECT.json` say which.

| run | instance | what it shows |
|---|---|---|
| `claim_retries` | 3 runs started at once, 1 retry per POST, late deliveries, a page of 6 comments | `LeaseExclusion`; `BlindWinExplained`: a run that goes to work on an empty read-back had its claim revoked, off the page or born dead; `RaceHasWinner`: no set of runs in which each has lost to another one, unless the claim of one of them was handled again after a release |
| `claim_restarts` | 2 runs, each restarted once, two lease periods, weak fairness | `OverlapExplained`, `LeaseSpec`; `ClaimsExpire`, `RunsEnd` |
| `builder` | 2 runs, 2 issues (one depends on the other and on itself), 2 branch names, 2 attempts, decompositions of 2, three lease periods | the builder's eight properties, `ImplementsClaims` among them |
| `reviewer` | 2 runs, 1 PR, 1 attempt, two lease periods, one act of a person | `ApprovalsAnswerPeople`, `NoFixOverwritten`, `OnlyVerifiedPushed`, `RecordsAreTrue` |
| `reviewer_claims` | 2 runs, 1 PR, 2 attempts, two lease periods | `ImplementsClaims` |
| `applying` | 2 calls that open a PR, 1 that pushes fixes, 1 that files 3 sub-issues; 1 branch, 1 retry, 1 late request, seeded repository or empty one, weak fairness of the calls | `ImplementsToolCall`; `LandsOnce`: a commit lands once, however often its PATCH is sent or arrives; `UpstreamsResolve`; `CopiesKeepNobodyWaiting`: of a sub-issue filed twice, one copy has the dependents; `CallsEnd` |
| `lifecycle` | 3 issues of which one waits for another and two compete, 2 builder slots, 1 reviewer slot, 1 setback, fairness | `ImplementsBacklog` with its liveness: none is passed over for ever; `PRsAreAnswered` |
| `memory` | 3 writers (two on one issue, one without work), 2 distillers that overlap or are hit by a failure, a prompt of 1 record, weak fairness | `LedgerIsExact`, `DistilledOnce`, `DistilledOrDropped`, `RecordsSurvive`; `RecordsReachAgents`, `ShellsVanish`; `OverlapHeals`: once the rounds no longer overlap, every record of work is in the ledger for good |
| `staging` | the build agent or the review agent, 3 keys, 2 dependencies each, one unknown key, 1 path | `PlanIsOneOutcome`, `FiledOnce`, `OnlyCyclesAreCut`, `NeverStuck` |
| `double_work` | 3 runs, nothing lost, crashed or expired | **violated**: `NoDoubleWork` |
| `stale_branch` | 2 runs, 1 issue, 1 branch name | **violated**: `HeadHoldsOwnFiles` |
| `lost_command` | 1 run, 1 PR, 1 comment | **violated**: `CommandsSeenByApproval` |

`TypeOK` is an invariant of `claim_retries`, `builder` and `reviewer`, and a theorem for every
detailed specification (section 4).

### Bounds, and why they are enough

* *Runs.* Exclusion is about pairs; the third run of `double_work` is what a release between
  two others needs. So is that of `claim_retries`: in a race of two nobody's release comes
  between the claims of both, and there is no circle whatever is repeated. The properties of the
  claims are theorems for any number of runs.
* *Targets.* One thread in the protocol runs: the only thing two threads share is the
  order in which a run tries them, and that is the set `todo`. The theorems hold for any
  number of targets.
* *Clock.* A run starts only while `clock + TTL <= MaxClock`; so with `TTL = 1` the
  bounds 1, 2 and 3 give one, two and three successive leases. Runs may outlive their
  claim in all of them.
* *Constraints.* `OneHeat` (`claim_retries`): the runs read the clock at the same time, and one
  that crashes, comments, or fails at its work or its release is followed no further; two requests
  are late at a time: a claim and a release, which is what a circle of losers takes, or two copies
  of one claim. `Undisturbed` (`claim_restarts`): a person
  comments, or a request is late, only while no run is under way. So one of the two runs has
  the late requests, the other one the failures, restarts, expiries and people; that the safety
  properties hold with all of them at once is proved, not checked. Liveness is shown for behaviours
  whose POSTs are answered or refused.
  `NobodyDies` and `PeopleActOnce` (`reviewer`): a run that has crashed or failed is, for
  the others, a run that takes no more steps; those remain.
* *Symmetry* over runs (and PRs, branch names, keys, targets) is used only in runs without
  liveness properties.
* *Write tools.* `OneLate`: one request is late at a time; it still arrives after any
  number of other events, its own retry included, which is what it takes for an old ref update to
  meet a newer one or for a sub-issue to be filed twice. `Apart`: the decomposition shares
  nothing with the other calls and runs on its own. One branch name is the hard case: with
  two, calls do not meet. Three sub-issues are what it takes for the number of a filed issue to
  differ from its place in the list when it is needed.
* *Pages.* Conversations show 6 comments in `claim_retries` and 3 in `builder` and `reviewer_claims`, so
  that claims fall off the page; in `reviewer` they show all (10), as `ApprovalsAnswerPeople`
  needs. The two listings of `builder` (10) hold everything the instance can produce.
* *Loop.* `MaxSetbacks` bounds failed rounds, requested fixes, dead runs, commands and rejected
  PRs together: one, anywhere, of any kind. Without a bound nothing would ever have to ship.
  Two builder slots are two overlapping fires of the cron.
* *Memory.* `NotBoth`: once rounds have overlapped and a failure has hit one, the behaviour is
  followed no further; each of the two is explored in full without the other. `Brief` is one,
  so that two records in a round exceed it.
* *Staging.* Three sub-issues with two dependencies each are enough for a cycle and an item that
  hangs on it, at either end; one path, since only the emptiness of the set of files matters. The
  theorems hold for any number.
* *Ids.* `RunId <- OwnIds`: the runs have different ids, see section 5.

### Fairness

`ClaimProtocol`: weak fairness of `Tick` and of `RunStep(r)` for each run, the steps the
platform takes as long as a task runs. Nothing is assumed of the cron (`Begin`), of
`Restart`, of the wire, of people, or of failures. Every request of the code has a
time-out and a finite number of retries, so a running task always gets an answer or an
exception. `SharedMemory`: weak fairness of a started run's opening and saving its
store, and of each distiller's steps, its start included: the cron keeps firing. A
failure is never fair; their number is bounded, and a record hit by one is excused only
when its own round failed after the ledger was saved, or had too much to show (`dropped`).

`Applying`: weak fairness of the steps of a call that has started (each request has a
time-out); nothing is assumed of late requests or of maintainers. `Lifecycle`: weak fairness of
a slot's steps (the cron fires, a round ends: that of `RunsEnd`), of the expiry of a claim,
and of merging a PR as long as it is approved. Nothing is assumed of setbacks. That
rounds of one slot are enough follows from weak fairness; that an *issue* gets its
turn does not. With finitely many setbacks it does get it, also when independent issues compete
for the builders; with an issue that always fails it does not (section 5).

## 4. What is proved

The theorems hold for every value of the constants: any sets of runs, issues, pull requests and
branches, any page sizes, TTL (negative ones included; `RacesHaveWinners` wants it positive), attempts, retries and
restarts.

| module | theorem | what it states |
|---|---|---|
| `ClaimProtocolProofs` | `TypeCorrect`, `Invariant` | `Spec => []TypeOK`, `Spec => [](TypeOK /\ WonClaims)` |
| | `LeasesExclude`, `OverlapsExplained` | `DistinctIds` implies `Spec => []LeaseExclusion`, `Spec => []OverlapExplained` |
| | `BlindWinsExplained` | `Spec => []BlindWinExplained`, for any `RunId` |
| | `ProtocolImplementsLease` | `DistinctIds` implies `Spec => LeaseSpec` |
| | `LeaseExclusive` | `L!Spec => []L!Exclusive`: the abstract lease keeps its promise |
| `ClaimRaceProofs` | `RacesHaveWinners` | `DistinctIds` and `TTL > 0` imply `RaceSpec => []RaceHasWinner` |
| `BuilderProofs` | `TypeCorrect`, `AppliedIsVerified`, `RecordsTrue` | `Spec => []TypeOK`, `[]OnlyVerifiedApplied`, `[]RecordsAreTrue` |
| | `UpstreamsCloseFirst` | `Spec /\ []ListingFits => []UpstreamsFirst` |
| | `BuilderImplementsClaims` | `Spec => ImplementsClaims` |
| | `OnePRForAnIssue`, `OneOutcomeForAnIssue` | `Spec /\ []PRsFit => []OnePRPerIssue`, `[]OneOutcomePerIssue` |
| | `PushesSpareLeasedPRs` | `Spec /\ []PRsFit => NoPushOntoLeasedPR` |
| `ReviewerProofs` | `TypeCorrect`, `PushedIsVerified`, `RecordsTrue` | `Spec => []TypeOK`, `[]OnlyVerifiedPushed`, `[]RecordsAreTrue` |
| | `ReviewerImplementsClaims` | `Spec => ImplementsClaims` |
| | `FixesSeeEachOther` | `Spec => []NoFixOverwritten` |
| | `ApprovalsAnswered` | `Spec /\ []ConversationsFit => []ApprovalsAnswerPeople` |
| `ApplyingProofs` | `TypeCorrect`, `CommitsLandOnce`, `UpstreamsAlwaysResolve`, `CopiesAreHarmless` | `Spec => []TypeOK`, `[]LandsOnce`, `[]UpstreamsResolve`, `[]CopiesKeepNobodyWaiting` |
| | `ToolsKeepTheirPromise` | `Spec => ImplementsToolCall` |
| `SharedMemoryProofs` | `TypeCorrect`, `LedgerStaysExact` | `Spec => []TypeOK`, `[]LedgerIsExact` |
| | `RecordsAreSafe` | `Spec => RecordsSurvive` |
| | `NoneDistilledTwice`, `NoneSlipsThrough` | `Spec => []DistilledOnce`, `[]DistilledOrDropped` |
| `LifecycleProofs` | `TypeCorrect` | `Spec => []TypeOK` |
| | `LoopFollowsBacklog` | `Spec => Promise!Init /\ [][Promise!Next]_(Promise!vars)` |
| `StagingProofs` | `TypeCorrect`, `PlansAreOneOutcome` | `Spec => []TypeOK`, `[]PlanIsOneOutcome` |
| | `AllFiledOnce`, `CutsAreOnCycles`, `FiledNeverStuck` | `Spec => []FiledOnce`, `[]OnlyCyclesAreCut`, `[]NeverStuck` |

**Hypotheses.** `ListingFits`, `PRsFit` and `ConversationsFit` say that what a run lists fits on
the one page that the code fetches. They are hypotheses about the behaviour, not about the
constants, and name what the code relies on without checking it: 50 entries of the listing
(`github_client.py:376`), 100 comments of a conversation. Each is needed: with a
page of 0 PRs `OnePRPerIssue` fails, with a listing that hides an upstream `UpstreamsFirst` does, and
an approval behind the page is repeated. The remaining theorems need none of them.

**The claims.** `LeaseExclusion` is not inductive: it speaks of claims live *now*, and
says nothing about why the earlier claims in the thread were dead when a run won. The
strengthening `WonClaims` says just that: for a working run whose read-back found a claim
at position `i`, each earlier claim that no release follows had expired at the run's
`now`, and no run's `now` is in the future. `Won` is *stable*: threads only grow at the
end, so an appended comment can only turn "not followed by a release" into "followed"
(lemmas about `Append` and `ReleasedAfter`), and `now` never changes while a run works. It
is *established* by `ReadBackWins` and `AlreadyHeld`, because `OwningClaim` returns the
first live claim of the first page, and what the page hides lies behind it. Then two
working runs with unrevoked claims at `i` and `j` have different positions, since the ids
in the markers differ; the earlier one had expired at the later winner's `now`, which
is `OverlapExplained`, and `now <= clock` makes it dead now, which is `LeaseExclusion`.

`BlindWinExplained` needs another strengthening, `PostedClaims`: a run at its read-back
has its own claim somewhere in the thread, with the expiry it computed. If the page shows
that claim live, then some claim of the page is live, so there is a *first* live one and
`OwningClaim` does not answer 0 (`LiveClaimIsFound`); so a 0 means that the run's claim is
off the page, released or born expired. The existence of a first one (`LeastNatural`) comes
from the well-foundedness of finite sets under strict inclusion; it stands in for the
induction principle, which the installed provers cannot instantiate.

`RaceHasWinner` speaks of what runs were told long ago, by threads that have grown since. `LostTo` keeps
of it what the thread still shows: the rival has a claim before the loser's own first one
with no release between them, or a release separates that first one from a later claim of the rival.
It is established by `ReadBackLoses`, since the loser's own claims are live unless released
(`OwnClaims`: they all carry the expiry computed from its one `now`; here `TTL > 0` and `DistinctIds` are
needed), and comments behind it do not change it (`LostToStable`). Releases cut the thread into
turns. In a circle of losers take the first claims of the last turn in which there are any, and of these the
earliest: its run has lost to nobody in its turn, and to nobody in a later one (`NoCircle`). This needs
the claims of each racer to lie in one turn, which is what `InOneTurn` says, and
without it `claim_retries` has a circle (section 5).

The refinement of `Lease` rests on `StepKinds`: as far as leases are concerned each step of the
protocol leaves everything (`Quiet`), lets time pass (`Passes`), appends a comment to one
thread (`Appends`), or starts or stops the work of one run (`StartsWork`, `StopsWork`).
Each kind is then a step of `Lease` or a stutter. That a grant is made only on a free target
is exactly `LeaseExclusion` in the state after the step; that a comment moves no position
under a working run is `WonClaims`.

**The pipelines.** Their types are proved with what a phase knows of the local variables: a run past
its claim has a target, one that applies has a plan whose attempt was verified. That is
already `OnlyVerifiedApplied` and `OnlyVerifiedPushed`. For the records, `Traces` ties each phase to what
the run has left on GitHub so far: nothing before its first change, its commit but no release in
between, the whole decomposition at the end; an exception keeps what was left and records a failure.

That a pipeline implements `ClaimProtocol` is shown action by action: `Mapped` says that a step of
one run changes the mapped variables at that run alone, `Internal` that the steps between claim
and release stutter, and the others are the protocol's own. The reviewer's conversations
are longer than the protocol's threads (they say what a comment is), so `PlainThread` and
`SameOwner` show that forgetting the text commutes with appending, cutting off the page and
finding the owner. With that, `CP == INSTANCE ClaimProtocolProofs` carries the invariant
`WonClaims` over to both pipelines, where `RunId` is the identity: `DistinctIds` holds there by
construction.

* `OnePRPerIssue`, `NoPushOntoLeasedPR`: `Guarded`. While a PR that was opened under a lease is open,
  no other run past the guard holds a lease on its issue. It gets past the guard only by a page without that
  PR, and a lease that was lost does not come back (`LeaseFades`).
* `OneOutcomePerIssue`: `AllBacked`. A leased outcome is backed by a claim its run won, and
  whoever may still come to work on the issue read the clock before that claim
  expires, or its listing shows the outcome. So a second winner must have found the claim revoked.
* `NoFixOverwritten`: `FixesInHand`. While a run that holds its lease has fixes in hand, they know every
  commit pushed under a lease.
* `ApprovalsAnswerPeople`: `ApprovalInHand`, the same for the approval that a run is about to
  post; `WonAtComment` carries the claim past the end of the work, where the protocol's invariant stops.
* `UpstreamsFirst`: an upstream that a run has not listed as open is closed, and stays so.

**The write tools.** `LandsOnce` follows from `Landings`: all requests of one call, the late ones
included, move one branch to one commit, which was built on an earlier head of that branch;
a ref that moves forward only can take it once. `UpstreamsResolve` and `CopiesKeepNobodyWaiting` follow from
`Resolving`: the numbers a call remembers are those of issues it has filed itself, and while it runs
every cited issue of its decomposition is the one it remembers. `ImplementsToolCall` follows from
`InOrder`: a request under way, or late, has all effects before its own behind it, the effects made
are always the first `n` of the call, and a call that returns has made all. So an accepted request
makes the next effect (a step of `Makes`) or none.

**The memory.** `IngestNewRecords` is a recursive function, and what it computes is shown
without induction: `WayExists` takes the shortest batch for which the function does not exist,
`Ingested` the first record after which the ledger is not what it should be, and `LeastNumber`
says that there is such a first one. So `Ingested` holds for every batch: the ledger has the
new records and the old ones, and is exact if it was. `LedgerIsExact` is not inductive, since a
save puts a ledger there that a distiller has had in hand for a while: `LedgersAreExact` says it of
the stored ledger, of the one each distiller has made and of the one in each open copy. For
`DistilledOnce` and `DistilledOrDropped` the invariant is `Rounds`, up to the first overlap: at most
one round writes, its open copy is the store, the digest is contained in the lessons and these
in the ledger (`Nested`), and each phase knows how far its new records have got (`RoundOf`).
`Stepped` is what a step of a round leaves to the others. The proofs take any number of
distillers and of records, shown to the agent or not.

**The loop.** Every step keeps what the lists contain, or proposes a PR, or settles one (`StepKinds`; a
list is a sequence without repetition, and `TouchIs` and `RemoveFirstIs` say what an update and a
closing make of it). That a PR is proposed for an issue that is ready needs `Unblocked`: what a
builder round has in hand waits for nothing open, since it did not when the round took it, and nothing
is reopened. This holds for cyclic dependencies too; that no issue waits for ever needs fairness, and an
order among the issues, and stays with TLC.

**Filing a decomposition.** The search remembers no path, only its calls and what is placed. `Search`
says what follows from these: the calls are for different items, none placed (`Calls`); each
was made for a dependency of the one before (`Nested`); a dependency that a call has looked at is
placed or is being visited, by a call that leads to this one, by this one or by the next one (`LookedAt`);
what the outer loop has passed is placed, or the outermost call is about it (`Begun`). When an item is placed,
all its dependencies have been looked at and no call was made by this one, so one that is not
placed belongs to a call that leads here, and the calls from there on are a cycle (`OnACycle`; it is no
longer than there are keys, since the calls are for different ones). That filed sub-issues never
wait for one another needs only that each waits for earlier ones. That the search ends would
be liveness, and is not stated.

**Assumptions.** `ConstantsAssumption`, `BuilderAssumption`, `ReviewerAssumption`,
`ApplyingAssumption`, `EvalsAssumption`, `MemoryAssumption`, `LifecycleAssumption` and `StagingAssumption` (types of the constants; issues, sub-issues and records are finitely many, a round is of one kind; a name
is not at once that of a run and of nothing), and for four of the
theorems `DistinctIds`. Built into the models: reads of GitHub are up to date (the
read-after-write lag that architecture.md mentions is not modelled); GitHub appends comments
in one order that everyone sees; runs and GitHub read one clock.

**Only model-checked:** all liveness (fairness and ENABLED are out of the prover's
reach).

## 5. What the code does and a reader of the docs would not expect

Shown by a run (quoted in `PROJECT.json`, "findings"):

1. **Double work without any failure** (`double_work`). A release voids the claims of
   *every* run (`dibs.py:147-149`) and an empty read-back counts as a win
   (`github_client.py:592`). r1 wins a race against r2 and releases before r2 reads back;
   r2 finds no owner and works with a void claim; r3 claims and works too.
2. **A PR with the files of a failed run** (`stale_branch`). `create_branch` keeps a branch
   that exists; the next run commits on top of it.
3. **A command nobody reads** (`lost_command`). A `/flyte-agent-loop` command posted during a
   review precedes the approval that follows it, and only the order counts.

Met while modelling. No run is spent on them, but the models contain them, or the properties
are worded around them:

* *Two racers that lose to each other.* POSTs that time out are sent again, and both copies may
  be handled. r1 works and releases; r3 and r2 claim, in this order, and r2 loses to r3. Now the second
  copy of r1's release voids both claims (`dibs.py:147-149`), and after it comes the second copy of r2's claim: r3
  reads back and loses to r2. Nobody works on the target until that claim expires.
  `github_client.py:584-585` has "Earliest claim wins — stable regardless of read-back
  ordering". `RaceHasWinner` fails in `claim_retries` without its premise `InOneTurn`.
* *Issues that starve.* `_claim_open_issue` claims the first eligible issue by last update, one
  per run (`builder_agent.py:358`), and claim and release are comments that update it: an issue
  that the agents skip, or that is rejected each time, is the first again in the next run, and
  nothing counts or delays the tries. With `MaxSetbacks` unbounded the liveness of `Backlog`
  fails in `Lifecycle` for issues that depend on nothing.
* *An approval nobody gave.* `submit_fix` without staged files, by which the review agent says
  that there *are* problems, is treated like `no_changes` (`reviewer_agent.py:117`): the PR is
  approved, and later runs skip it. In `Staging` its plan is a fix without files.
* *Two open PRs for one issue with every read up to date.* A claim that expires between guard
  and PR is enough; architecture.md:215-217 asks for a read lag. This is why `OnePRPerIssue`
  speaks of PRs opened under a live claim.
* *A guard that does not see.* The guard reads one page of open PRs
  (`github_client.py:376`); in a repository with 50 younger ones a run under a good claim opens
  a second PR. `OnePRPerIssue` fails with `PRPage = 0`.
* *Sub-issues filed twice.* The POST that creates an issue is retried like a read
  (`github_client.py:271`). The dependents name one copy only (`CopiesKeepNobodyWaiting`), so
  the other blocks nobody, but a builder will work on both.
* *Errors that release nothing.* A read-back that raises leaves its claim behind: `claimed` is
  still `None` (`builder_agent.py:234`). Only time frees the target.
* *Which marker wins.* docs/index.html:443 says the latest, the code takes the earliest that is
  live; `active_claim`, `can_claim` and `held_by_me` have no caller outside the tests.
* *Records that no agent sees.* All new records enter the ledger, the last 60 of them the prompt
  (`evals.py:272`); the others are not new in the next round. `dropped` holds them.
* *Deleted records that return* with the copy of a run that opened the store before
  (`memory.py:72-76` against the comment at `107-109`). `ShellsVanish` shows that it heals.
* *A success rate above 100%.* A superseded run is recorded as `no_work` and verified: it counts
  among the verified runs and not among the attempts (`evals.py:225`).
* *Run ids.* `run_id()` (`common.py:27-42`) returns the name of the Flyte *action*, while
  `run_name()` next to it returns that of the run. `tests/unit/test_introspect.py:30` has
  "a0" as the action of a pipeline's own task, so two fires of the cron may well carry
  one id, and then every run takes every claim for its own. How Flyte names actions is
  not in this repository: hence the constant `RunId` and the explicit `DistinctIds`.
* An upstream that is open but not on the listed page does not block
  (`builder_agent.py:363`): `UpstreamsFirst` needs `ListPage` to hold all open issues and PRs.
* A run that looked at a PR before its approval reviews it again (`reviewer_agent.py:251`),
  and the approving run releases its claim although a comment says it holds it
  (`reviewer_agent.py:118-119`, `293-295`).
* Distillers that overlap again and again may keep reverting each other's ledger: without its
  premise `OverlapHeals` does not hold. architecture.md:219-222 concedes the overlap.
* Of the retries of `applying` only those of the issues leave something behind. When the first
  attempt has taken effect unheard, a retried branch creation is answered 422, which is taken for
  success; a ref that is where the retry wants it is accepted again, and is refused with 422 only if
  the branch has moved on; a PR that is open already is answered 422, and the call raises although
  its effects are there.

## 6. What is not modelled

* `active_claim`, `can_claim` and `held_by_me` of `dibs.py`: no pipeline calls them.
* The metrics of `evaluate` and the renderings of `evals.py`: they go to the report and into a
  prompt, and no decision of the code depends on them.
* Prompts, texts and parsing of verdicts (`agents.py`), `llm.py`, `reports.py`,
  `introspect.py`, `environments.py`, `deploy.py`, and the reading of environment variables
  (`config.py`; its values are constants): no state of the loop, or text.
* GitHub's read lag: reads are up to date. architecture.md names the lag as a cause of overlaps;
  the overlaps of section 5 do without.
* Time inside the transport: the backoff, and the search limits of a request.
* Retries inside `Builder` and `Reviewer`: there a change is made once, or made with its answer
  lost. What retries add is the subject of `Applying`, whose calls promise `ToolCall`; that
  `Builder` needs no more than that promise is argued, not checked.
* A failure of GitHub while a decomposition is filed: that is in `Builder` and `Applying`. `Staging` has
  the order of the filing, without its requests.
* The steps between guard and PR in `Lifecycle`, where both are one step: what other runs do in
  between is in `Builder`.
* Decomposition in `Lifecycle`: its issues are there from the start. Filing them is in
  `Builder`, their order in `Staging` and `Applying`.
* Whether a PR is still open when fixes are pushed to its branch: the code does not look, and
  nothing in the repository says what should happen.

## 7. Plan

Done: `Dibs`, `Lease`, `ClaimProtocol` with its theorems; `Builder`, `Reviewer`,
`SharedMemory` with the ledger of `Evals`, `Staging`; the write tools over their transport (`Applying`) and the loop
as a whole (`Lifecycle`). The order was that of importance: what keeps two runs apart
first, then the pipelines that rely on it, then memory, then what leads from one run to the
next.

Proved: every safety property that a passing run checks, the safety half of what the loop
promises, and the refinements of the claim protocol, the lease and the write tools. What is left:

1. `RacesHaveWinners` without `TTL > 0`: with an expired claim nobody loses to a run whose own
   `now` is not the later one, so there is no circle either.
2. `RecordsReachAgents`, `OverlapHeals` and the other liveness properties stay with TLC.
