---------------------------- MODULE BuilderProofs ---------------------------
(***************************************************************************)
(* Theorems of Builder for every set of runs, issues and branches, every   *)
(* page size, TTL and number of attempts.                                  *)
(*                                                                         *)
(* First its types, and what follows from what a phase knows of the local  *)
(* variables: verified changes, true records, closed upstreams.            *)
(*                                                                         *)
(* Then the refinement: each step of the builder is a step of              *)
(* ClaimProtocol or changes nothing there.  The theorems of the protocol   *)
(* hold of the builder's claims, and give what the builder promises about  *)
(* its pull requests.                                                      *)
(***************************************************************************)
EXTENDS Builder, SequenceTheorems, FiniteSetTheorems, TLAPS

-----------------------------------------------------------------------------
(* Type correctness *)

Early == {"idle", "list", "prs", "scan", "claim", "readback"}
Applying == {"guard", "commit", "push", "open", "file", "close"}

\* What the local variables of a run say beyond their types: there is nothing to do before
\* the lists are read, attempts and sub-issues are counted within their limits, a plan that
\* is applied has passed in its last attempt, and what ends a run early is on its record.
Consistent(l) ==
  /\ l.pc \in {"idle", "list", "prs"} => l.todo = {}
  /\ l.pc \in Early => l.attempt = 0
  /\ l.pc = "build" => l.attempt < MaxTries
  /\ l.pc = "verify" => l.attempt > 0
  /\ l.pc \in Applying => l.passed = l.attempt /\ l.attempt > 0
  /\ l.pc \in Early \cup {"build", "verify"} => l.item = 0
  /\ l.pc = "file" => l.item < Items
  /\ l.pc = "close" => l.item = Items
  /\ l.pc \in {"note", "recover"} => l.record = "error"
  /\ l.pc = "release" => l.record \in {"no_work", "error"}

Sound(l) == LocalOK(l) /\ Consistent(l)

Typed == TypeOK /\ \A r \in Run : Consistent(run[r])

\* A page of a thread is a prefix of it, so the owner's position is one of the thread.
LEMMA PageDomain ==
  ASSUME BuilderAssumption, NEW s \in Seq(Comment)
  PROVE  /\ DOMAIN FirstPage(s, Page) \subseteq DOMAIN s
         /\ \A i \in DOMAIN FirstPage(s, Page) : i \in Nat \ {0} /\ FirstPage(s, Page)[i] = s[i]
<1> DEFINE n == IF Len(s) < Page THEN Len(s) ELSE Page
<1>1. Len(s) \in Nat /\ DOMAIN s = 1..Len(s)
  BY LenProperties
<1>2. n \in Nat /\ n <= Len(s)
  BY <1>1 DEF BuilderAssumption
<1>3. \A i \in 1..n : s[i] \in Comment
  BY <1>1, <1>2, ElementOfSeq
<1>4. /\ SubSeq(s, 1, n) \in Seq(Comment)
      /\ Len(SubSeq(s, 1, n)) = n
      /\ \A i \in 1..n : SubSeq(s, 1, n)[i] = s[i]
  <2> HIDE DEF n
  <2>1. /\ SubSeq(s, 1, n) \in Seq(Comment)
        /\ Len(SubSeq(s, 1, n)) = IF 1 <= n THEN n - 1 + 1 ELSE 0
        /\ \A i \in 1..(n - 1 + 1) : SubSeq(s, 1, n)[i] = s[1 + i - 1]
    BY <1>2, <1>3, SubSeqProperties
  <2> QED
    BY <1>2, <2>1
<1>5. DOMAIN SubSeq(s, 1, n) = 1..n
  <2> HIDE DEF n
  <2> QED
    BY <1>4, LenProperties
<1>6. FirstPage(s, Page) = SubSeq(s, 1, n)
  BY DEF FirstPage
<1> HIDE DEF n
<1> QED
  BY <1>1, <1>2, <1>4, <1>5, <1>6

\* The owner of an issue is nobody or the run of one of its comments.
LEMMA OwnerType ==
  ASSUME BuilderAssumption, TypeOK, NEW r \in Run, NEW i \in Issue
  PROVE  Owner(r, i) \in Nat /\ (Owner(r, i) # 0 => Owner(r, i) \in DOMAIN thread[i])
<1>1. thread[i] \in Seq(Comment)
  BY DEF TypeOK
<1>2. Owner(r, i) = 0 \/ Owner(r, i) \in DOMAIN FirstPage(thread[i], Page)
  BY DEF Owner, OwningClaim
<1> QED
  BY <1>1, <1>2, PageDomain

\* The record of a task that has returned.
LEMMA EndedLocal ==
  ASSUME BuilderAssumption, NEW phase \in Ended, NEW record \in Records
  PROVE  LET l == [Fresh EXCEPT !.pc = phase, !.record = record]
         IN  /\ l \in Local
             /\ l.pc = phase /\ l.record = record
             /\ l.todo = {} /\ l.listed = {} /\ l.attempt = 0 /\ l.item = 0
<1>1. /\ Fresh \in Local
      /\ Fresh.todo = {} /\ Fresh.listed = {} /\ Fresh.attempt = 0 /\ Fresh.item = 0
      /\ Fresh.now = 0 /\ Fresh.owner = 0 /\ Fresh.target = None
  BY DEF Fresh, Local, Phases, Records, BuilderAssumption
<1>2. phase \in Phases
  BY DEF Phases
<1> QED
  BY <1>1, <1>2 DEF Local

\* What each step makes of the local variables keeps them well typed and its counts in bounds.
LEMMA SoundLocals ==
  ASSUME BuilderAssumption, NEW l, Sound(l)
  PROVE  /\ l.pc = "idle" => \A t \in 0..MaxClock : Sound([l EXCEPT !.pc = "list", !.now = t])
         /\ l.pc = "list" => \A is \in SUBSET Issue : Sound([l EXCEPT !.pc = "prs", !.listed = is])
         /\ l.pc = "prs" => \A is \in SUBSET l.listed : Sound([l EXCEPT !.pc = "scan", !.todo = is])
         /\ l.pc = "scan" => \A i \in l.todo :
              /\ Sound([l EXCEPT !.todo = @ \ {i}])
              /\ Sound([l EXCEPT !.pc = "claim", !.todo = @ \ {i}, !.target = i])
         /\ l.pc = "readback" =>
              /\ l.target \in Issue
              /\ \A k \in Nat : Sound([l EXCEPT !.pc = "build", !.owner = k])
              /\ Sound([l EXCEPT !.pc = "scan", !.target = None])
         /\ l.pc = "build" =>
              /\ Sound([l EXCEPT !.pc = "release", !.attempt = @ + 1, !.record = "no_work"])
              /\ \A plan \in Plans :
                    Sound([l EXCEPT !.pc = "verify", !.attempt = @ + 1, !.plan = plan])
         /\ l.pc = "verify" =>
              /\ l.attempt < MaxTries => Sound([l EXCEPT !.pc = "build"])
              /\ Sound([l EXCEPT !.pc = "note", !.record = "error"])
              /\ \A phase \in {"guard", "file"} :
                    Sound([l EXCEPT !.pc = phase, !.passed = l.attempt])
         /\ l.pc = "guard" =>
              /\ Sound([l EXCEPT !.pc = "release", !.record = "no_work"])
              /\ \A b \in Branch : Sound([l EXCEPT !.pc = "commit", !.branch = b])
         /\ l.pc = "commit" =>
              \A n \in Nat : l.branch \in Branch /\ Sound([l EXCEPT !.pc = "push", !.parent = n])
         /\ l.pc = "push" => Sound([l EXCEPT !.pc = "open"])
         /\ l.pc = "file" =>
              Sound([l EXCEPT !.item = @ + 1, !.pc = IF l.item + 1 = Items THEN "close" ELSE "file"])
         /\ l.pc = "claim" => Sound([l EXCEPT !.pc = "readback"])
         /\ l.pc = "note" => Sound([l EXCEPT !.pc = "release"])
         /\ l.pc \in WorkPhases \cup {"note", "release"} =>
              Sound([l EXCEPT !.pc = "recover", !.record = "error"])
         /\ \A phase \in Ended, record \in Records : Sound([Fresh EXCEPT !.pc = phase, !.record = record])
<1>a. /\ "list" \in Phases /\ "prs" \in Phases /\ "scan" \in Phases /\ "claim" \in Phases
      /\ "readback" \in Phases /\ "build" \in Phases /\ "verify" \in Phases /\ "guard" \in Phases
      /\ "commit" \in Phases /\ "push" \in Phases /\ "open" \in Phases /\ "file" \in Phases
      /\ "close" \in Phases /\ "note" \in Phases /\ "release" \in Phases /\ "recover" \in Phases
  BY DEF Phases, WorkPhases, Posting
<1>b. "no_work" \in Records /\ "error" \in Records
  BY DEF Records
<1>c. ASSUME NEW phase \in Ended, NEW record \in Records
      PROVE  Sound([Fresh EXCEPT !.pc = phase, !.record = record])
  BY EndedLocal DEF Sound, LocalOK, Consistent, WorkPhases, Posting, Ended, Early, Applying
<1>d. /\ MaxTries \in Nat \ {0} /\ Items \in Nat \ {0}
      /\ l.attempt \in 0..MaxTries /\ l.item \in 0..Items /\ l.pc \in Early => l.attempt < MaxTries
      /\ l.attempt < MaxTries => l.attempt + 1 \in 0..MaxTries /\ l.attempt + 1 > 0
      /\ l.item < Items => l.item + 1 \in 0..Items /\ (l.item + 1 # Items => l.item + 1 < Items)
  BY DEF BuilderAssumption, Sound, LocalOK, Consistent, Local
<1> USE <1>a, <1>b DEF Sound, LocalOK, Consistent, Local, WorkPhases, Posting, Early, Applying
<1>1. ASSUME l.pc = "idle", NEW t \in 0..MaxClock PROVE Sound([l EXCEPT !.pc = "list", !.now = t])
  BY <1>1
<1>2. ASSUME l.pc = "list", NEW is \in SUBSET Issue PROVE Sound([l EXCEPT !.pc = "prs", !.listed = is])
  BY <1>2
<1>3. ASSUME l.pc = "prs", NEW is \in SUBSET l.listed
      PROVE  Sound([l EXCEPT !.pc = "scan", !.todo = is])
  BY <1>3
<1>4. ASSUME l.pc = "scan", NEW i \in l.todo
      PROVE  /\ Sound([l EXCEPT !.todo = @ \ {i}])
             /\ Sound([l EXCEPT !.pc = "claim", !.todo = @ \ {i}, !.target = i])
  BY <1>4
<1>5. ASSUME l.pc = "readback"
      PROVE  l.target \in Issue /\ Sound([l EXCEPT !.pc = "scan", !.target = None])
  BY <1>5
<1>6. ASSUME l.pc = "readback", NEW k \in Nat
      PROVE  Sound([l EXCEPT !.pc = "build", !.owner = k])
  BY <1>6, <1>d
<1>7. ASSUME l.pc = "build"
      PROVE  Sound([l EXCEPT !.pc = "release", !.attempt = @ + 1, !.record = "no_work"])
  BY <1>7, <1>d
<1>8. ASSUME l.pc = "build", NEW plan \in Plans
      PROVE  Sound([l EXCEPT !.pc = "verify", !.attempt = @ + 1, !.plan = plan])
  BY <1>8, <1>d
<1>9. ASSUME l.pc = "verify"
      PROVE  /\ l.attempt < MaxTries => Sound([l EXCEPT !.pc = "build"])
             /\ Sound([l EXCEPT !.pc = "note", !.record = "error"])
  BY ZenonT(30), <1>9
<1>e. ASSUME l.pc = "verify", NEW phase \in {"guard", "file"}
      PROVE  Sound([l EXCEPT !.pc = phase, !.passed = l.attempt])
  <2>1. 0 < Items /\ phase \in Phases
    BY <1>d
  <2> QED
    BY <1>d, <1>e, <2>1
<1>10. ASSUME l.pc = "guard"
       PROVE  Sound([l EXCEPT !.pc = "release", !.record = "no_work"])
  BY <1>10
<1>11. ASSUME l.pc = "guard", NEW b \in Branch PROVE Sound([l EXCEPT !.pc = "commit", !.branch = b])
  BY <1>11
<1>12. ASSUME l.pc = "commit", NEW n \in Nat
       PROVE  l.branch \in Branch /\ Sound([l EXCEPT !.pc = "push", !.parent = n])
  BY <1>12
<1>13. ASSUME l.pc = "push" PROVE Sound([l EXCEPT !.pc = "open"])
  BY <1>13
<1>14. ASSUME l.pc = "file"
       PROVE  Sound([l EXCEPT !.item = @ + 1, !.pc = IF l.item + 1 = Items THEN "close" ELSE "file"])
  BY <1>14, <1>d
<1>15. ASSUME l.pc = "claim" PROVE Sound([l EXCEPT !.pc = "readback"])
  BY <1>15
<1>16. ASSUME l.pc = "note" PROVE Sound([l EXCEPT !.pc = "release"])
  BY <1>16
<1>17. ASSUME l.pc \in WorkPhases \cup {"note", "release"}
       PROVE  Sound([l EXCEPT !.pc = "recover", !.record = "error"])
  <2>1. l.target \in l.listed
    BY <1>17
  <2> QED
    BY <2>1
<1> HIDE <1>a, <1>b DEF Sound, LocalOK, Consistent, Local, WorkPhases, Posting, Early, Applying
<1> QED
  BY <1>1, <1>2, <1>3, <1>4, <1>5, <1>6, <1>7, <1>8, <1>9, <1>10, <1>11, <1>12, <1>13, <1>14, <1>15,
     <1>16, <1>17, <1>c, <1>e

\* Every step of run r changes its own local variables only and keeps them sound.
LEMMA LocalStep ==
  ASSUME BuilderAssumption, Typed, NEW r \in Run, Begin(r) \/ RunStep(r) \/ Raises(r) \/ Crash(r)
  PROVE  \E l : Becomes(r, l) /\ Sound(l)
<1> DEFINE Goal == \E l : Becomes(r, l) /\ Sound(l)
<1>0. Sound(run[r]) /\ run \in [Run -> Local] /\ clock \in 0..MaxClock /\ open \subseteq Issue
  BY DEF Sound, Typed, TypeOK
<1>a. ASSUME NEW l, Becomes(r, l), Sound(l) PROVE Goal
  BY <1>a
<1> HIDE DEF Goal
<1> USE <1>0, <1>a, SoundLocals DEF At, Goes, Ends
<1>1. CASE Begin(r)
  BY <1>1 DEF Begin
<1>2. CASE ListIssues(r)
  BY <1>2 DEF ListIssues
<1>3. CASE ListPRs(r)
  BY <1>3 DEF ListPRs
<1>4. ASSUME NEW i \in Issue, StandDown(r, i) PROVE Goal
  BY <1>4 DEF StandDown
<1>5. ASSUME NEW i \in Issue, Stake(r, i) PROVE Goal
  BY <1>5 DEF Stake
<1>6. CASE ReadBackWins(r)
  BY <1>6, OwnerType DEF ReadBackWins, Typed
<1>7. CASE ReadBackLoses(r)
  BY <1>7 DEF ReadBackLoses
<1>8. CASE Build(r)
  BY <1>8 DEF Build
<1>9. CASE Rejected(r)
  BY <1>9 DEF Rejected
<1>10. CASE Verified(r)
  BY <1>10 DEF Verified
<1>11. CASE Guard(r)
  BY <1>11 DEF Guard
<1>12. CASE CommitStarts(r)
  <2>1. run[r].pc = "commit" => Len(commits[run[r].branch]) \in Nat
    BY LenProperties DEF Typed, TypeOK
  <2> QED
    BY <1>12, <2>1 DEF CommitStarts
<1>13. CASE Push(r)
  BY <1>13 DEF Push
<1>14. CASE OpenPR(r)
  BY <1>14 DEF OpenPR, Applied, WorkPhases, Posting, Ended, Records
<1>15. CASE FileItem(r)
  BY <1>15 DEF FileItem
<1>16. CASE CloseSpec(r)
  BY <1>16 DEF CloseSpec, Applied, WorkPhases, Posting, Ended, Records
<1>17. CASE Post(r)
  <2>1. run[r].record \in Records
    BY DEF Sound, LocalOK, Local
  <2> QED
    BY <1>17, <2>1 DEF Post, Ended
<1>18. CASE Raises(r)
  <2>1. run[r].pc \in Phases
    BY DEF Sound, LocalOK, Local
  <2> QED
    BY <1>18, <2>1 DEF Raises, Phases, Ended, Records, WorkPhases, Posting
<1>19. CASE NoWork(r) \/ Crash(r)
  BY <1>19 DEF NoWork, Crash, Ended, Records
<1> HIDE <1>0, <1>a, SoundLocals DEF At, Goes, Ends
<1> QED
  BY <1>1, <1>2, <1>3, <1>4, <1>5, <1>6, <1>7, <1>8, <1>9, <1>10, <1>11, <1>12, <1>13, <1>14, <1>15,
     <1>16, <1>17, <1>18, <1>19 DEF RunStep, Goal

\* The comments that runs post, and the PRs and items they record, are well typed.
LEMMA GitHubStep ==
  ASSUME BuilderAssumption, Typed, NEW r \in Run, Begin(r) \/ RunStep(r) \/ Raises(r) \/ Crash(r)
  PROVE  /\ clock' = clock
         /\ thread' \in [Issue -> Seq(Comment)]
         /\ open' \subseteq open
         /\ commits' \in [Branch -> Seq(Run)]
         /\ prs' \subseteq prs \cup {PRof(r)} /\ prs \subseteq prs'
         /\ filed \subseteq filed' /\ \A f \in filed' \ filed : f.by = r
         /\ filed' \subseteq [spec : Issue, by : Run, item : 0..Items, leased : BOOLEAN]
<1> DEFINE l == run[r]
           Filings == [spec : Issue, by : Run, item : 0..Items, leased : BOOLEAN]
           Goal == /\ clock' = clock
                   /\ thread' \in [Issue -> Seq(Comment)]
                   /\ open' \subseteq open
                   /\ commits' \in [Branch -> Seq(Run)]
                   /\ prs' \subseteq prs \cup {PRof(r)} /\ prs \subseteq prs'
                   /\ filed \subseteq filed' /\ \A f \in filed' \ filed : f.by = r
                   /\ filed' \subseteq Filings
<1>0. /\ Sound(l) /\ thread \in [Issue -> Seq(Comment)] /\ commits \in [Branch -> Seq(Run)]
      /\ filed \subseteq Filings
  BY DEF Sound, Typed, TypeOK
<1>1. ASSUME UNCHANGED <<clock, github>> PROVE Goal
  BY <1>0, <1>1 DEF github
<1>2. CASE Push(r)
  <2>1. l.branch \in Branch
    BY <1>0, <1>2 DEF Push, At, Sound, LocalOK
  <2>2. commits' \in [Branch -> Seq(Run)]
    BY <1>0, <1>2, <2>1, AppendProperties DEF Push
  <2> QED
    BY <1>0, <1>2, <2>2 DEF Push
<1>3. CASE OpenPR(r)
  BY <1>0, <1>3 DEF OpenPR
<1>4. ASSUME l.pc \in WorkPhases, NEW k \in 0..Items
      PROVE  FiledBy(r, k) \in Filings /\ FiledBy(r, k).by = r
  BY <1>0, <1>4 DEF FiledBy, HoldsLease, Sound, LocalOK, Local
<1>5. CASE FileItem(r)
  <2>1. l.item + 1 \in 0..Items /\ l.pc \in WorkPhases
    <3>1. l.pc = "file" /\ l.item < Items /\ l.item \in Nat /\ Items \in Nat
      BY <1>0, <1>5 DEF FileItem, At, Sound, LocalOK, Local, Consistent, BuilderAssumption
    <3> QED
      BY <3>1 DEF WorkPhases
  <2> QED
    BY <1>0, <1>4, <1>5, <2>1 DEF FileItem
<1>6. CASE CloseSpec(r)
  <2>1. 0 \in 0..Items /\ l.pc \in WorkPhases
    BY <1>6 DEF CloseSpec, At, WorkPhases, BuilderAssumption
  <2> QED
    BY <1>0, <1>4, <1>6, <2>1 DEF CloseSpec
<1>7. CASE Post(r)
  <2>1. l.target \in Issue /\ l.now \in Int
    BY SMTT(20), <1>0, <1>7 DEF Post, Posting, Sound, LocalOK, Local
  <2>2. Outgoing(r) \in Comment
    BY <2>1 DEF Outgoing, Comment, BuilderAssumption
  <2>3. thread' \in [Issue -> Seq(Comment)]
    BY <1>0, <1>7, <2>1, <2>2, AppendProperties DEF Post
  <2> QED
    BY <1>0, <1>7, <2>3 DEF Post
<1>8. CASE ~(Push(r) \/ OpenPR(r) \/ FileItem(r) \/ CloseSpec(r) \/ Post(r))
  <2>1. UNCHANGED <<clock, github>>
    BY <1>8 DEF Begin, RunStep, Raises, Crash, ListIssues, ListPRs, NoWork, StandDown, Stake,
                ReadBackWins, ReadBackLoses, Build, Rejected, Verified, Guard, CommitStarts
  <2> QED
    BY <1>1, <2>1
<1> QED
  BY <1>2, <1>3, <1>5, <1>6, <1>7, <1>8

PRType ==
  [by : Run, issue : Issue, branch : Branch, leased : BOOLEAN, state : {"open", "merged", "closed"}]

\* What OpenPR opens is a pull request.
LEMMA PRTyped ==
  ASSUME BuilderAssumption, Typed, NEW r \in Run, OpenPR(r)
  PROVE  PRof(r) \in PRType
<1>1. Sound(run[r]) /\ run[r].pc = "open"
  BY DEF OpenPR, At, Sound, Typed, TypeOK
<1>2. run[r].target \in Issue /\ run[r].branch \in Branch
  BY <1>1 DEF Sound, LocalOK, Local, WorkPhases
<1> QED
  BY <1>2 DEF PRof, PRType, HoldsLease

\* Every step leaves every run's local variables sound.
LEMMA RunsSound ==
  ASSUME BuilderAssumption, Typed, [Next]_vars
  PROVE  run' \in [Run -> Local] /\ \A r \in Run : Sound(run'[r])
<1>0. run \in [Run -> Local] /\ \A r \in Run : Sound(run[r])
  BY DEF Typed, TypeOK, Sound
<1>1. ASSUME NEW r \in Run, NEW l, Becomes(r, l), Sound(l)
      PROVE  run' \in [Run -> Local] /\ \A s \in Run : Sound(run'[s])
  <2>1. l \in Local
    BY <1>1 DEF Sound, LocalOK
  <2> QED
    BY <1>0, <1>1, <2>1 DEF Becomes
<1>2. CASE UNCHANGED run
  BY <1>0, <1>2
<1>3. ASSUME ~UNCHANGED run
      PROVE  \E r \in Run : Begin(r) \/ RunStep(r) \/ Raises(r) \/ Crash(r)
  BY <1>3 DEF Next, vars, Merge, ClosePR, Tick
<1> QED
  BY <1>1, <1>2, <1>3, LocalStep

\* Every step keeps the strengthened type invariant.
LEMMA TypeStep ==
  ASSUME BuilderAssumption, Typed, [Next]_vars
  PROVE  Typed'
<1> DEFINE GitHubOK == /\ clock \in 0..MaxClock
                       /\ thread \in [Issue -> Seq(Comment)]
                       /\ open \subseteq Issue
                       /\ commits \in [Branch -> Seq(Run)]
                       /\ prs \subseteq PRType
                       /\ filed \subseteq [spec : Issue, by : Run, item : 0..Items, leased : BOOLEAN]
<1>0. GitHubOK
  BY DEF Typed, TypeOK, PRType
<1>1. ASSUME NEW r \in Run, Begin(r) \/ RunStep(r) \/ Raises(r) \/ Crash(r) PROVE GitHubOK'
  <2>1. prs' \subseteq PRType
    <3>1. CASE OpenPR(r)
      BY <1>0, <3>1, PRTyped DEF OpenPR
    <3>2. CASE ~OpenPR(r)
      <4>1. prs' = prs
        BY <1>1, <3>2 DEF github, Begin, RunStep, Raises, Crash, ListIssues, ListPRs, NoWork, StandDown,
             Stake, ReadBackWins, ReadBackLoses, Build, Rejected, Verified, Guard, CommitStarts, Push,
             FileItem, CloseSpec, Post
      <4> QED
        BY <1>0, <4>1
    <3> QED
      BY <3>1, <3>2
  <2> QED
    BY <1>0, <1>1, <2>1, GitHubStep
<1>2. ASSUME NEW p \in prs, Merge(p) \/ ClosePR(p) PROVE GitHubOK'
  <2>1. p \in PRType
    BY <1>0
  <2>2. [p EXCEPT !.state = "merged"] \in PRType /\ [p EXCEPT !.state = "closed"] \in PRType
    BY <2>1 DEF PRType
  <2> QED
    BY <1>0, <1>2, <2>2 DEF Merge, ClosePR
<1>3. ASSUME Tick PROVE GitHubOK'
  <2>1. clock' \in 0..MaxClock /\ UNCHANGED <<thread, open, commits, prs, filed>>
    BY <1>0, <1>3 DEF Tick, github, BuilderAssumption
  <2> QED
    BY <1>0, <2>1
<1>4. ASSUME UNCHANGED vars PROVE GitHubOK'
  BY <1>0, <1>4 DEF vars
<1>5. GitHubOK'
  <2> HIDE DEF GitHubOK
  <2> QED
    BY <1>1, <1>2, <1>3, <1>4 DEF Next
<1> HIDE DEF GitHubOK
<1>6. run' \in [Run -> Local] /\ \A r \in Run : LocalOK(run'[r]) /\ Consistent(run'[r])
  BY RunsSound DEF Sound
<1> QED
  BY <1>5, <1>6 DEF GitHubOK, Typed, TypeOK, PRType

\* It holds initially.
LEMMA TypeInit == ASSUME BuilderAssumption, Init PROVE Typed
<1>1. Fresh \in Local
  BY DEF Fresh, Local, Phases, Records, BuilderAssumption
<1>2. LocalOK(Fresh) /\ Consistent(Fresh)
  BY <1>1 DEF LocalOK, Consistent, Fresh, WorkPhases, Posting, Early, Applying
<1>3. clock \in 0..MaxClock /\ <<>> \in Seq(Comment) /\ <<>> \in Seq(Run)
  BY EmptySeq DEF Init, BuilderAssumption
<1> QED
  BY <1>1, <1>2, <1>3 DEF Init, Typed, TypeOK

\* Every variable has its type in every reachable state.
THEOREM TypeCorrect == Spec => []TypeOK
<1> USE BuilderAssumption
<1>1. Init => Typed
  BY TypeInit
<1>2. Typed /\ [Next]_vars => Typed'
  BY TypeStep
<1>3. Typed => TypeOK
  BY DEF Typed
<1> QED
  BY <1>1, <1>2, <1>3, PTL DEF Spec

\* Whatever is applied is the plan that the verifier passed, in its last attempt.
THEOREM AppliedIsVerified == Spec => []OnlyVerifiedApplied
<1> USE BuilderAssumption
<1>1. Init => Typed
  BY TypeInit
<1>2. Typed /\ [Next]_vars => Typed'
  BY TypeStep
<1>3. Typed => OnlyVerifiedApplied
  BY DEF Typed, Consistent, Applying, OnlyVerifiedApplied
<1> QED
  BY <1>1, <1>2, <1>3, PTL DEF Spec

-----------------------------------------------------------------------------
(* What a run leaves behind *)

PRBy(r) == \E p \in prs : p.by = r
ItemsFiled(r, i) == {f.item : f \in {g \in filed : g.by = r /\ g.spec = i}}

\* Before its last step a run has opened no pull request, and the sub-issues it has filed
\* are those up to its count.
Traces(r) ==
  /\ run[r].pc \notin {"recover"} \cup Ended => ~PRBy(r)
  /\ run[r].pc \notin {"file", "close", "recover"} \cup Ended => \A f \in filed : f.by # r
  /\ run[r].pc \in {"file", "close"} => ItemsFiled(r, run[r].target) = 1..run[r].item
  /\ run[r].pc \in Ended =>
       /\ run[r].record = "opened_pr" => PRBy(r)
       /\ run[r].record = "opened_issues" => \E i \in Issue \ open : ItemsFiled(r, i) = 0..Items
       /\ run[r].record = "no_work" => ~PRBy(r) /\ \A f \in filed : f.by # r

\* A step that leaves a run alone leaves its traces alone.
LEMMA TracesStay ==
  ASSUME NEW r \in Run, Traces(r), run'[r] = run[r], open' \subseteq open,
         PRBy(r)' <=> PRBy(r), filed \subseteq filed', \A f \in filed' \ filed : f.by # r
  PROVE  Traces(r)'
<1>1. \A i : ItemsFiled(r, i)' = ItemsFiled(r, i)
  BY DEF ItemsFiled
<1>2. (\A f \in filed : f.by # r) <=> \A f \in filed' : f.by # r
  OBVIOUS
<1> QED
  BY <1>1, <1>2 DEF Traces

\* What each step does to the local variables of its run, field by field.
Same(l, m) == m.now = l.now /\ m.listed = l.listed /\ m.item = l.item
SameWork(l, m) == /\ m.now = l.now /\ m.listed = l.listed /\ m.todo = l.todo
                  /\ m.target = l.target /\ m.owner = l.owner

\* What each step does to the local variables of its run, field by field.
LEMMA Fields ==
  ASSUME BuilderAssumption, NEW r \in Run, run \in [Run -> Local]
  PROVE  LET l == run[r]
             m == run'[r]
         IN  /\ Begin(r) => m.pc = "list" /\ m.now = clock /\ m.todo = l.todo /\ m.item = l.item
             /\ ListIssues(r) => m.pc = "prs" /\ m.now = l.now /\ m.todo = l.todo /\ m.item = l.item
             /\ ListPRs(r) => m.pc = "scan" /\ Same(l, m)
             /\ \A i \in Issue : StandDown(r, i) => m.pc = "scan" /\ Same(l, m) /\ m.todo = l.todo \ {i}
             /\ \A i \in Issue :
                  Stake(r, i) => m.pc = "claim" /\ Same(l, m) /\ m.todo = l.todo \ {i} /\ m.target = i
             /\ ReadBackWins(r) => /\ m.pc = "build" /\ Same(l, m) /\ m.todo = l.todo
                                   /\ m.target = l.target /\ m.owner = Owner(r, l.target)
             /\ ReadBackLoses(r) => m.pc = "scan" /\ Same(l, m) /\ m.todo = l.todo
             /\ Build(r) => /\ m.pc \in {"release", "verify"} /\ SameWork(l, m) /\ m.item = l.item
             /\ Rejected(r) => m.pc \in {"build", "note"} /\ SameWork(l, m) /\ m.item = l.item
             /\ Verified(r) => m.pc \in {"guard", "file"} /\ SameWork(l, m) /\ m.item = l.item
             /\ Guard(r) => m.pc \in {"release", "commit"} /\ SameWork(l, m) /\ m.item = l.item
             /\ CommitStarts(r) => /\ m.pc = "push" /\ SameWork(l, m) /\ m.item = l.item
                                   /\ m.branch = l.branch
             /\ Push(r) => m.pc = "open" /\ SameWork(l, m) /\ m.item = l.item /\ m.branch = l.branch
             /\ FileItem(r) => m.pc \in {"file", "close"} /\ SameWork(l, m) /\ m.item = l.item + 1
             /\ \A phase \in {"readback", "release"} :
                  Goes(r, phase) => m.pc = phase /\ SameWork(l, m) /\ m.item = l.item
             /\ Becomes(r, [l EXCEPT !.pc = "recover", !.record = "error"]) => m.pc = "recover" /\ SameWork(l, m)
             /\ \A phase \in Ended, record \in Records :
                  Ends(r, phase, record) =>
                    m.pc = phase /\ m.record = record /\ m.todo = {} /\ m.listed = {}
<1> DEFINE l == run[r]
           m == run'[r]
<1>0. l \in Local
  OBVIOUS
<1>1. ASSUME NEW k, Becomes(r, k) PROVE m = k
  BY <1>1 DEF Becomes
<1> USE <1>0, <1>1 DEF Local, Same, SameWork
<1>2. Begin(r) => m.pc = "list" /\ m.now = clock /\ m.todo = l.todo /\ m.item = l.item
  BY DEF Begin
<1>3. ListIssues(r) => m.pc = "prs" /\ m.now = l.now /\ m.todo = l.todo /\ m.item = l.item
  BY DEF ListIssues
<1>4. ListPRs(r) => m.pc = "scan" /\ Same(l, m)
  BY DEF ListPRs
<1>5. ASSUME NEW i \in Issue
      PROVE  /\ StandDown(r, i) => m.pc = "scan" /\ Same(l, m) /\ m.todo = l.todo \ {i}
             /\ Stake(r, i) => m.pc = "claim" /\ Same(l, m) /\ m.todo = l.todo \ {i} /\ m.target = i
  <2>1. ASSUME StandDown(r, i) PROVE m.pc = "scan" /\ Same(l, m) /\ m.todo = l.todo \ {i}
    BY <2>1 DEF StandDown, At
  <2>2. ASSUME Stake(r, i)
        PROVE  m.pc = "claim" /\ Same(l, m) /\ m.todo = l.todo \ {i} /\ m.target = i
    <3>1. m = [l EXCEPT !.pc = "claim", !.todo = @ \ {i}, !.target = i]
      BY <2>2 DEF Stake
    <3> QED
      BY <3>1
  <2> QED
    BY <2>1, <2>2
<1>6. /\ ReadBackWins(r) => /\ m.pc = "build" /\ Same(l, m) /\ m.todo = l.todo
                            /\ m.target = l.target /\ m.owner = Owner(r, l.target)
      /\ ReadBackLoses(r) => m.pc = "scan" /\ Same(l, m) /\ m.todo = l.todo
  BY ZenonT(30) DEF ReadBackWins, ReadBackLoses
<1>7. Build(r) => m.pc \in {"release", "verify"} /\ SameWork(l, m) /\ m.item = l.item
  <2> DEFINE P(k) == k.pc \in {"release", "verify"} /\ SameWork(l, k) /\ k.item = l.item
  <2>1. /\ P([l EXCEPT !.pc = "release", !.attempt = @ + 1, !.record = "no_work"])
        /\ \A plan \in Plans : P([l EXCEPT !.pc = "verify", !.attempt = @ + 1, !.plan = plan])
    OBVIOUS
  <2> HIDE DEF P
  <2>2. Build(r) => \E k : Becomes(r, k) /\ P(k)
    BY <2>1 DEF Build
  <2>3. ASSUME NEW k, Becomes(r, k), P(k) PROVE P(m)
    BY <2>3
  <2>4. Build(r) => P(m)
    BY <2>2, <2>3
  <2> QED
    BY <2>4 DEF P
<1>8. Rejected(r) => m.pc \in {"build", "note"} /\ SameWork(l, m) /\ m.item = l.item
  BY ZenonT(30) DEF Rejected, Goes
<1>9. Verified(r) => m.pc \in {"guard", "file"} /\ SameWork(l, m) /\ m.item = l.item
  <2>1. ASSUME NEW phase \in {"guard", "file"}, m = [l EXCEPT !.pc = phase, !.passed = l.attempt]
        PROVE  m.pc = phase /\ SameWork(l, m) /\ m.item = l.item
    BY <2>1
  <2>2. Verified(r) =>
          m = [l EXCEPT !.pc = IF l.plan = "implement" THEN "guard" ELSE "file", !.passed = l.attempt]
    BY DEF Verified
  <2> HIDE DEF m, l, Local, SameWork
  <2> QED
    BY <2>1, <2>2
<1>10. Guard(r) => m.pc \in {"release", "commit"} /\ SameWork(l, m) /\ m.item = l.item
  <2> DEFINE P(k) == k.pc \in {"release", "commit"} /\ SameWork(l, k) /\ k.item = l.item
  <2>1. /\ P([l EXCEPT !.pc = "release", !.record = "no_work"])
        /\ \A b \in Branch : P([l EXCEPT !.pc = "commit", !.branch = b])
    OBVIOUS
  <2> HIDE DEF P
  <2>2. Guard(r) => \E k : Becomes(r, k) /\ P(k)
    BY <2>1 DEF Guard
  <2>3. ASSUME NEW k, Becomes(r, k), P(k) PROVE P(m)
    BY <2>3
  <2>4. Guard(r) => P(m)
    BY <2>2, <2>3
  <2> QED
    BY <2>4 DEF P
<1>11. /\ CommitStarts(r) => /\ m.pc = "push" /\ SameWork(l, m) /\ m.item = l.item
                             /\ m.branch = l.branch
       /\ Push(r) => m.pc = "open" /\ SameWork(l, m) /\ m.item = l.item /\ m.branch = l.branch
  BY ZenonT(30) DEF CommitStarts, Push, Goes
<1>12. FileItem(r) => m.pc \in {"file", "close"} /\ SameWork(l, m) /\ m.item = l.item + 1
  BY ZenonT(30) DEF FileItem
<1>13. ASSUME NEW phase \in {"readback", "release"}
       PROVE  Goes(r, phase) => m.pc = phase /\ SameWork(l, m) /\ m.item = l.item
  BY DEF Goes
<1>14. Becomes(r, [l EXCEPT !.pc = "recover", !.record = "error"]) => m.pc = "recover" /\ SameWork(l, m)
  BY ZenonT(30)
<1>15. ASSUME NEW phase \in Ended, NEW record \in Records
       PROVE  Ends(r, phase, record) => m.pc = phase /\ m.record = record /\ m.todo = {} /\ m.listed = {}
  <2> DEFINE k == [Fresh EXCEPT !.pc = phase, !.record = record]
  <2>1. k.pc = phase /\ k.record = record /\ k.todo = {} /\ k.listed = {}
    BY EndedLocal
  <2>2. Ends(r, phase, record) => m = k
    BY DEF Ends
  <2> HIDE DEF k
  <2> QED
    BY <2>1, <2>2
<1> HIDE <1>0, <1>1 DEF Local, Same, SameWork
<1> QED
  BY <1>2, <1>3, <1>4, <1>5, <1>6, <1>7, <1>8, <1>9, <1>10, <1>11, <1>12, <1>13, <1>14, <1>15

\* A step of a run keeps its own record true of what it has left on GitHub.
LEMMA TracesStep ==
  ASSUME BuilderAssumption, Typed, NEW r \in Run, Traces(r), Begin(r) \/ RunStep(r) \/ Raises(r) \/ Crash(r)
  PROVE  Traces(r)'
<1> DEFINE l == run[r]
<1>0. Sound(l) /\ run \in [Run -> Local] /\ l \in Local
  BY DEF Typed, TypeOK, Sound
\* Nothing has been opened or filed, and nothing is yet.
<1>1. ASSUME UNCHANGED <<prs, filed>>, l.pc \notin {"file", "close", "recover"} \cup Ended,
             run'[r].pc \notin {"file", "close"} \cup Ended
      PROVE  Traces(r)'
  BY <1>1 DEF Traces, PRBy, ItemsFiled
\* The run ends with a record that promises nothing, or "no_work" and nothing done.
<1>2. ASSUME NEW phase \in Ended, NEW record, Ends(r, phase, record), UNCHANGED <<prs, filed>>,
             \/ record \in {"none", "error"}
             \/ record = "no_work" /\ l.pc \notin {"file", "close", "recover"} \cup Ended
      PROVE  Traces(r)'
  <2>1. run'[r].pc = phase /\ run'[r].record = record
    BY <1>0, <1>2 DEF Ends, Becomes, Fresh
  <2>2. phase \notin {"file", "close", "recover"}
    BY <1>2 DEF Ended
  <2> QED
    BY <1>2, <2>1, <2>2 DEF Traces, PRBy
<1>3. ASSUME run'[r].pc = "recover" PROVE Traces(r)'
  BY <1>3 DEF Traces, Ended
<1>4. CASE \/ Begin(r) \/ ListIssues(r) \/ ListPRs(r) \/ CommitStarts(r) \/ Push(r)
           \/ ReadBackWins(r) \/ ReadBackLoses(r) \/ \E i \in Issue : StandDown(r, i) \/ Stake(r, i)
           \/ Build(r) \/ Rejected(r) \/ Guard(r)
  <2>1. /\ UNCHANGED <<prs, filed>>
        /\ l.pc \in {"idle", "list", "prs", "scan", "readback", "commit", "push", "build", "verify", "guard"}
    BY <1>4 DEF github, At, Begin, ListIssues, ListPRs, CommitStarts, Push, ReadBackWins, ReadBackLoses,
               StandDown, Stake, Build, Rejected, Guard
  <2>2. run'[r].pc \in {"list", "prs", "scan", "claim", "build", "push", "open", "release", "verify",
                        "note", "commit"}
    BY <1>0, <1>4, Fields
  <2> QED
    BY <1>1, <2>1, <2>2 DEF Ended
<1>7. CASE Verified(r)
  <2>1. /\ UNCHANGED <<prs, filed>> /\ l.pc = "verify" /\ l.item = 0
        /\ run'[r].pc \in {"guard", "file"} /\ run'[r].item = 0
    BY <1>0, <1>7, Fields DEF github, At, Verified, Sound, Consistent
  <2>2. ~PRBy(r) /\ (\A f \in filed : f.by # r) /\ 1..run'[r].item = {}
    BY <2>1 DEF Traces, Ended
  <2> QED
    BY <2>1, <2>2 DEF Traces, PRBy, ItemsFiled, Ended
<1>8. CASE Post(r)
  <2>1. UNCHANGED <<prs, filed>> /\ l.pc \in Posting
    BY <1>8 DEF Post
  <2>2. CASE l.pc \in {"claim", "note"}
    <3>1. run'[r].pc \in {"readback", "release"}
      BY <1>0, <1>8, <2>2, Fields DEF Post, At
    <3> QED
      BY <1>1, <2>1, <2>2, <3>1 DEF Ended
  <2>3. CASE l.pc \in {"release", "recover"}
    <3>1. Ends(r, "done", l.record)
      BY <1>8, <2>3 DEF Post, At
    <3>2. IF l.pc = "release" THEN l.record \in {"no_work", "error"} ELSE l.record = "error"
      BY <1>0, <2>3 DEF Sound, Consistent
    <3> QED
      BY <1>2, <2>1, <2>3, <3>1, <3>2 DEF Ended
  <2> QED
    BY <2>1, <2>2, <2>3 DEF Posting
<1>9. CASE Raises(r)
  <2>1. UNCHANGED <<prs, filed>>
    BY <1>9 DEF Raises, github
  <2>2. \/ Ends(r, "failed", "error") \/ Ends(r, "done", "error")
        \/ Becomes(r, [l EXCEPT !.pc = "recover", !.record = "error"])
    BY <1>9 DEF Raises
  <2> QED
    BY <1>0, <1>2, <1>3, <2>1, <2>2, Fields DEF Ended
<1>10. CASE NoWork(r) \/ Crash(r)
  <2>1. /\ UNCHANGED <<prs, filed>>
        /\ \/ Ends(r, "crashed", "none")
           \/ l.pc = "scan" /\ Ends(r, "done", "no_work")
    BY <1>10 DEF NoWork, Crash, github, At
  <2> QED
    BY <1>2, <2>1 DEF Ended
<1>11. ASSUME NEW record \in Records, Applied(r, record)
       PROVE  \/ run'[r].pc = "recover"
              \/ run'[r].pc = "done" /\ run'[r].record = record
  BY <1>0, <1>11, Fields DEF Applied, Ended
<1>12. CASE OpenPR(r)
  <2>1. PRof(r) \in prs' /\ PRof(r).by = r
    BY <1>12 DEF OpenPR, PRof
  <2>2. \/ run'[r].pc = "recover"
        \/ run'[r].pc = "done" /\ run'[r].record = "opened_pr"
    BY <1>11, <1>12 DEF OpenPR, Records
  <2> QED
    BY <1>3, <2>1, <2>2 DEF Traces, PRBy, Ended
<1>13. ASSUME l.pc \in {"file", "close"}, NEW k, filed' = filed \cup {FiledBy(r, k)}
       PROVE  \A i : i = l.target => ItemsFiled(r, i)' = (1..l.item) \cup {k}
  <2> TAKE i
  <2> HAVE i = l.target
  <2>1. FiledBy(r, k).by = r /\ FiledBy(r, k).spec = i /\ FiledBy(r, k).item = k
    BY DEF FiledBy
  <2>2. ItemsFiled(r, i) = 1..l.item
    BY <1>13 DEF Traces
  <2>3. {g \in filed' : g.by = r /\ g.spec = i}
          = {g \in filed : g.by = r /\ g.spec = i} \cup {FiledBy(r, k)}
    BY <1>13, <2>1
  <2>4. ItemsFiled(r, i)' = ItemsFiled(r, i) \cup {k}
    BY <2>1, <2>3 DEF ItemsFiled
  <2> QED
    BY <2>2, <2>4
<1>14. CASE FileItem(r)
  <2>1. /\ l.pc = "file" /\ l.item \in Nat /\ UNCHANGED prs
        /\ filed' = filed \cup {FiledBy(r, l.item + 1)}
        /\ run'[r].pc \in {"file", "close"} /\ run'[r].item = l.item + 1 /\ run'[r].target = l.target
    <3>1. run'[r].pc \in {"file", "close"} /\ run'[r].item = l.item + 1 /\ run'[r].target = l.target
      BY <1>0, <1>14, Fields DEF SameWork
    <3>2. l.pc = "file" /\ UNCHANGED prs /\ filed' = filed \cup {FiledBy(r, l.item + 1)}
      BY <1>14 DEF FileItem, At
    <3>3. l.item \in Nat
      BY <1>0 DEF Local
    <3> QED
      BY <3>1, <3>2, <3>3
  <2>2. \A i : i = l.target => ItemsFiled(r, i)' = 1..run'[r].item
    <3>1. (1..l.item) \cup {l.item + 1} = 1..(l.item + 1)
      BY <2>1
    <3> QED
      BY <1>13, <2>1, <3>1
  <2>3. ~PRBy(r) /\ ~PRBy(r)'
    BY <2>1 DEF Traces, Ended, PRBy
  <2> QED
    BY <2>1, <2>2, <2>3 DEF Traces, Ended
<1>15. CASE CloseSpec(r)
  <2>1. /\ l.pc = "close" /\ l.item = Items /\ l.target \in Issue /\ l.target \notin open'
        /\ filed' = filed \cup {FiledBy(r, 0)}
    BY <1>0, <1>15 DEF CloseSpec, At, Sound, Consistent, LocalOK, Local, WorkPhases
  <2>2. \/ run'[r].pc = "recover"
        \/ run'[r].pc = "done" /\ run'[r].record = "opened_issues"
    BY <1>11, <1>15 DEF CloseSpec, Records
  <2>3. \A i : i = l.target => ItemsFiled(r, i)' = 0..Items
    <3>1. (1..Items) \cup {0} = 0..Items
      BY DEF BuilderAssumption
    <3> QED
      BY <1>13, <2>1, <3>1
  <2> QED
    BY <1>3, <2>1, <2>2, <2>3 DEF Traces, Ended
<1> QED
  BY <1>4, <1>7, <1>8, <1>9, <1>10, <1>12, <1>14, <1>15 DEF RunStep

\* Every step does, of every run.
LEMMA TracesPreserved ==
  ASSUME BuilderAssumption, Typed, \A r \in Run : Traces(r), [Next]_vars
  PROVE  \A r \in Run : Traces(r)'
<1>0. run \in [Run -> Local] /\ prs \subseteq PRType
  BY DEF Typed, TypeOK, PRType
<1>1. ASSUME NEW s \in Run, Begin(s) \/ RunStep(s) \/ Raises(s) \/ Crash(s), NEW r \in Run
      PROVE  Traces(r)'
  <2>1. CASE s = r
    BY <1>1, <2>1, TracesStep
  <2>2. CASE s # r
    <3>1. \E l : Becomes(s, l)
      BY <1>1, LocalStep
    <3>2. run'[r] = run[r]
      BY <1>0, <2>2, <3>1 DEF Becomes
    <3>3. PRof(s).by # r
      BY <2>2 DEF PRof
    <3>4. PRBy(r)' <=> PRBy(r)
      BY <1>1, <3>3, GitHubStep DEF PRBy
    <3> QED
      BY <1>1, <2>2, <3>2, <3>4, GitHubStep, TracesStay
  <2> QED
    BY <2>1, <2>2
<1>2. ASSUME NEW p \in prs, Merge(p) \/ ClosePR(p), NEW r \in Run
      PROVE  Traces(r)'
  <2>1. [p EXCEPT !.state = "merged"].by = p.by /\ [p EXCEPT !.state = "closed"].by = p.by
    BY <1>0 DEF PRType
  <2>2. PRBy(r)' <=> PRBy(r)
    BY <1>2, <2>1 DEF PRBy, Merge, ClosePR
  <2>3. run' = run /\ open' \subseteq open /\ filed' = filed
    BY <1>2 DEF Merge, ClosePR
  <2> QED
    BY <2>2, <2>3, TracesStay
<1>3. ASSUME Tick \/ UNCHANGED vars, NEW r \in Run
      PROVE  Traces(r)'
  <2>1. UNCHANGED <<run, open, prs, filed>>
    BY <1>3 DEF Tick, vars, github
  <2> QED
    BY <2>1, TracesStay DEF PRBy
<1> QED
  BY <1>1, <1>2, <1>3 DEF Next

\* A record tells what its run left on GitHub.
THEOREM RecordsTrue == Spec => []RecordsAreTrue
<1> USE BuilderAssumption
<1> DEFINE IInv == Typed /\ \A r \in Run : Traces(r)
<1>1. Init => IInv
  <2> SUFFICES ASSUME Init PROVE IInv
    OBVIOUS
  <2>1. \A r \in Run : run[r].pc = "idle" /\ prs = {} /\ filed = {}
    BY DEF Init, Fresh
  <2> QED
    BY <2>1, TypeInit DEF Traces, PRBy, Ended
<1>2. IInv /\ [Next]_vars => IInv'
  BY TypeStep, TracesPreserved
<1>3. IInv => RecordsAreTrue
  BY DEF Traces, PRBy, ItemsFiled, RecordsAreTrue
<1> QED
  BY <1>1, <1>2, <1>3, PTL DEF Spec

-----------------------------------------------------------------------------
(* Where the issues that a run has in hand come from *)

\* A step changes the local variables of at most one run.
LEMMA StepOf ==
  ASSUME BuilderAssumption, Typed, [Next]_vars, NEW s \in Run
  PROVE  run'[s] = run[s] \/ Begin(s) \/ RunStep(s) \/ Raises(s) \/ Crash(s)
<1>0. run \in [Run -> Local]
  BY DEF Typed, TypeOK
<1>1. CASE UNCHANGED run
  BY <1>1
<1>2. ASSUME NEW r \in Run, Begin(r) \/ RunStep(r) \/ Raises(r) \/ Crash(r), s # r
      PROVE  run'[s] = run[s]
  <2>1. PICK l : Becomes(r, l)
    BY <1>2, LocalStep
  <2> QED
    BY <1>0, <1>2, <2>1 DEF Becomes
<1>3. ASSUME ~UNCHANGED run
      PROVE  \E r \in Run : Begin(r) \/ RunStep(r) \/ Raises(r) \/ Crash(r)
  BY <1>3 DEF Next, vars, Merge, ClosePR, Tick
<1> QED
  BY <1>1, <1>2, <1>3

Held == WorkPhases \cup Posting \cup {"readback"}

\* The issues a run may still take, and the one it has taken.
InHand(r, i) == i \in run[r].todo \/ (run[r].pc \in Held /\ run[r].target = i)

\* An issue comes into a run's hands when the run has read both listings, and the run does
\* not look at the clock again.
LEMMA InHandFrom ==
  ASSUME BuilderAssumption, Typed, [Next]_vars, NEW r \in Run, NEW i \in Issue, InHand(r, i)'
  PROVE  \/ ListPRs(r) /\ i \in run'[r].todo
         \/ InHand(r, i) /\ run'[r].now = run[r].now
<1> DEFINE l == run[r]
           m == run'[r]
           Stays == InHand(r, i) /\ m.now = l.now
<1>0. run \in [Run -> Local] /\ Sound(l)
  BY DEF Typed, TypeOK, Sound
<1>1. ASSUME m = l PROVE Stays
  BY <1>1 DEF InHand
<1>2. ASSUME SameWork(l, m), l.pc \in Held PROVE Stays
  BY <1>2 DEF InHand, SameWork
<1>3. ASSUME NEW phase \in Ended, NEW record \in Records, Ends(r, phase, record) PROVE FALSE
  <2>1. m.pc = phase /\ m.todo = {}
    BY <1>0, <1>3, Fields
  <2> QED
    BY <2>1 DEF InHand, Held, Ended, WorkPhases, Posting
<1>4. ASSUME Begin(r) \/ ListIssues(r) PROVE FALSE
  <2>1. l.todo = {} /\ m.todo = l.todo /\ m.pc \in {"list", "prs"}
    BY <1>0, <1>4, Fields DEF Begin, ListIssues, At, Sound, Consistent
  <2> QED
    BY <2>1 DEF InHand, Held, WorkPhases, Posting
<1>5. ASSUME ListPRs(r) PROVE i \in m.todo
  <2>1. m.pc = "scan"
    BY <1>0, <1>5, Fields
  <2> QED
    BY <2>1 DEF InHand, Held, WorkPhases, Posting
<1>6. ASSUME NEW j \in Issue, StandDown(r, j) \/ Stake(r, j) PROVE Stays
  <2>1. j \in l.todo
    BY <1>6 DEF StandDown, Stake
  <2>2. /\ Same(l, m) /\ m.todo = l.todo \ {j}
        /\ \/ m.pc = "scan"
           \/ m.target = j
    BY <1>0, <1>6, Fields
  <2> QED
    BY <2>1, <2>2 DEF InHand, Held, WorkPhases, Posting, Same
<1>7. ASSUME ReadBackWins(r) \/ ReadBackLoses(r) PROVE Stays
  <2>1. l.pc = "readback"
    BY <1>7 DEF ReadBackWins, ReadBackLoses, At
  <2>2. /\ Same(l, m) /\ m.todo = l.todo
        /\ \/ m.pc = "scan"
           \/ m.target = l.target
    BY <1>0, <1>7, Fields
  <2> QED
    BY <2>1, <2>2 DEF InHand, Held, WorkPhases, Posting, Same
<1>8. ASSUME \/ Build(r) \/ Rejected(r) \/ Verified(r) \/ Guard(r)
             \/ CommitStarts(r) \/ Push(r) \/ FileItem(r)
      PROVE  Stays
  <2>1. l.pc \in WorkPhases
    BY <1>8 DEF Build, Rejected, Verified, Guard, CommitStarts, Push, FileItem, At, WorkPhases
  <2>2. SameWork(l, m)
    BY <1>0, <1>8, Fields
  <2> QED
    BY <1>2, <2>1, <2>2 DEF Held
<1>9. ASSUME OpenPR(r) \/ CloseSpec(r) PROVE Stays
  <2>1. l.pc \in WorkPhases
    BY <1>9 DEF OpenPR, CloseSpec, At, WorkPhases
  <2>2. PICK record \in Records : Applied(r, record)
    BY <1>9 DEF OpenPR, CloseSpec, Records
  <2>3. Becomes(r, [l EXCEPT !.pc = "recover", !.record = "error"])
    BY <1>3, <2>2 DEF Applied, Ended
  <2>4. SameWork(l, m)
    BY <1>0, <2>3, Fields
  <2> QED
    BY <1>2, <2>1, <2>4 DEF Held
<1>10. ASSUME Post(r) PROVE Stays
  <2>1. l.pc \in Posting /\ l.record \in Records
    BY <1>0, <1>10 DEF Post, Sound, LocalOK, Local
  <2>2. Goes(r, "readback") \/ Goes(r, "release")
    BY <1>3, <1>10, <2>1 DEF Post, Ended
  <2>3. SameWork(l, m)
    BY <1>0, <2>2, Fields
  <2> QED
    BY <1>2, <2>1, <2>3 DEF Held
<1>11. ASSUME Raises(r) PROVE Stays
  <2>1. /\ l.pc \in Phases \ ({"idle", "list", "prs", "scan", "claim", "readback", "recover"} \cup Ended)
        /\ Becomes(r, [l EXCEPT !.pc = "recover", !.record = "error"])
    BY <1>0, <1>3, <1>11 DEF Raises, At, Ended, Records, Sound, LocalOK, Local
  <2>2. SameWork(l, m)
    BY <1>0, <2>1, Fields
  <2> QED
    BY <1>2, <2>1, <2>2 DEF Held, Phases
<1>12. ASSUME NoWork(r) \/ Crash(r) PROVE FALSE
  BY <1>3, <1>12 DEF NoWork, Crash, Ended, Records
<1> HIDE DEF l, m, Stays
<1>13. (ListPRs(r) /\ i \in m.todo) \/ Stays
  BY <1>1, <1>4, <1>5, <1>6, <1>7, <1>8, <1>9, <1>10, <1>11, <1>12, StepOf DEF RunStep, l, m
<1> QED
  BY <1>13 DEF Stays, m, l

-----------------------------------------------------------------------------
(* Upstreams first *)

\* The open issues and pull requests, or the open pull requests, fit on the page that the
\* run fetches.
ListingFits == Cardinality(open \cup OpenPRs) <= ListPage
PRsFit == Cardinality(OpenPRs) <= PRPage

\* A listing that fits on a page is read whole.
LEMMA WholePage ==
  ASSUME NEW entries, IsFiniteSet(entries), NEW size \in Nat, Cardinality(entries) <= size,
         NEW page \in Pages(entries, size)
  PROVE  page = entries
<1>1. page \in SUBSET entries /\ (page = entries \/ Cardinality(page) = size)
  BY DEF Pages
<1>2. /\ Cardinality(page) <= Cardinality(entries) /\ Cardinality(entries) \in Nat
      /\ Cardinality(page) = Cardinality(entries) => page = entries
  BY <1>1, FS_Subset, FS_CardinalityType
<1> QED
  BY <1>1, <1>2

\* There are finitely many pull requests.
LEMMA FiniteStep ==
  ASSUME BuilderAssumption, Typed, IsFiniteSet(prs), [Next]_vars
  PROVE  IsFiniteSet(prs')
<1>1. ASSUME NEW r \in Run, Begin(r) \/ RunStep(r) \/ Raises(r) \/ Crash(r)
      PROVE  IsFiniteSet(prs')
  <2>1. prs' \subseteq prs \cup {PRof(r)}
    BY <1>1, GitHubStep
  <2>2. IsFiniteSet(prs \cup {PRof(r)})
    BY FS_AddElement
  <2> QED
    BY <2>1, <2>2, FS_Subset
<1>2. ASSUME NEW p \in prs, NEW q, prs' = (prs \ {p}) \cup {q}
      PROVE  IsFiniteSet(prs')
  BY <1>2, FS_AddElement, FS_RemoveElement
<1>3. CASE UNCHANGED prs
  BY <1>3
<1> QED
  BY <1>1, <1>2, <1>3 DEF Next, Merge, ClosePR, Tick, github, vars

\* What is listed is finite, so that a page can hold all of it.
LEMMA FiniteListings ==
  ASSUME BuilderAssumption, Typed, IsFiniteSet(prs)
  PROVE  IsFiniteSet(OpenPRs) /\ IsFiniteSet(open \cup OpenPRs)
<1>1. OpenPRs \subseteq prs /\ open \subseteq Issue
  BY DEF OpenPRs, Typed, TypeOK
<1>2. IsFiniteSet(OpenPRs) /\ IsFiniteSet(open)
  BY <1>1, FS_Subset DEF BuilderAssumption
<1> QED
  BY <1>2, FS_Union

UpstreamsClosed(i) == (Upstream[i] \ {i}) \cap open = {}

\* What a run holds of an issue: it has listed every open issue before it filters them, and
\* what it has in hand waits for none of them.
UpstreamInv ==
  \A r \in Run :
    /\ run[r].pc = "prs" => open \subseteq run[r].listed
    /\ \A i \in Issue : InHand(r, i) => UpstreamsClosed(i)

\* Issues are closed and never opened again.
LEMMA OpenShrinks == ASSUME BuilderAssumption, Typed, [Next]_vars PROVE open' \subseteq open
BY GitHubStep DEF Next, Merge, ClosePR, Tick, github, vars

\* A run that has listed the issues and not yet the pull requests has just done so, or waits.
LEMMA ListedFrom ==
  ASSUME BuilderAssumption, Typed, [Next]_vars, NEW r \in Run, run'[r].pc = "prs"
  PROVE  ListIssues(r) \/ run'[r] = run[r]
<1>0. run \in [Run -> Local] /\ run[r] \in Local
  BY DEF Typed, TypeOK
<1> SUFFICES ASSUME ~ListIssues(r), run'[r] # run[r] PROVE FALSE
  OBVIOUS
<1>1. /\ ~Begin(r) /\ ~ListPRs(r)
      /\ \A i \in Issue : ~StandDown(r, i) /\ ~Stake(r, i)
  BY <1>0, Fields
<1>2. /\ ~ReadBackWins(r) /\ ~ReadBackLoses(r) /\ ~Build(r) /\ ~Rejected(r) /\ ~Verified(r)
      /\ ~Guard(r) /\ ~CommitStarts(r) /\ ~Push(r) /\ ~FileItem(r)
  BY <1>0, Fields
<1>3. /\ \A phase \in {"readback", "release"} : ~Goes(r, phase)
      /\ ~Becomes(r, [run[r] EXCEPT !.pc = "recover", !.record = "error"])
      /\ \A phase \in Ended, record \in Records : ~Ends(r, phase, record)
  BY <1>0, Fields DEF Ended
<1>4. ~OpenPR(r) /\ ~CloseSpec(r)
  BY <1>3 DEF OpenPR, CloseSpec, Applied, Records, Ended
<1>5. ~Post(r) /\ ~Raises(r) /\ ~NoWork(r) /\ ~Crash(r)
  <2>1. run[r].record \in Records
    BY <1>0 DEF Local
  <2> QED
    BY <1>3, <2>1 DEF Post, Raises, NoWork, Crash, Records, Ended
<1> QED
  BY <1>1, <1>2, <1>4, <1>5, StepOf DEF RunStep

\* A run keeps in hand only issues whose upstream issues are closed.
LEMMA UpstreamStep ==
  ASSUME BuilderAssumption, Typed, IsFiniteSet(prs), ListingFits, UpstreamInv, [Next]_vars
  PROVE  UpstreamInv'
<1> SUFFICES ASSUME NEW r \in Run
             PROVE  /\ run'[r].pc = "prs" => open' \subseteq run'[r].listed
                    /\ \A i \in Issue : InHand(r, i)' => UpstreamsClosed(i)'
  BY DEF UpstreamInv
<1>0. run \in [Run -> Local] /\ Sound(run[r])
  BY DEF Typed, TypeOK, Sound
<1>1. ASSUME run'[r].pc = "prs" PROVE open' \subseteq run'[r].listed
  <2>1. CASE ListIssues(r)
    <3>1. PICK page \in Pages(open \cup OpenPRs, ListPage) :
             Becomes(r, [run[r] EXCEPT !.pc = "prs", !.listed = page \cap open])
      BY <2>1 DEF ListIssues
    <3>2. page = open \cup OpenPRs
      BY WholePage, FiniteListings DEF ListingFits, BuilderAssumption
    <3>3. run'[r].listed = page \cap open
      BY <1>0, <3>1 DEF Becomes, Local
    <3> QED
      BY <3>2, <3>3, OpenShrinks
  <2>2. CASE run'[r] = run[r]
    BY <1>1, <2>2, OpenShrinks DEF UpstreamInv
  <2> QED
    BY <1>1, <2>1, <2>2, ListedFrom
<1>2. ASSUME NEW i \in Issue, InHand(r, i)' PROVE UpstreamsClosed(i)'
  <2>1. UpstreamsClosed(i) => UpstreamsClosed(i)'
    BY OpenShrinks DEF UpstreamsClosed
  <2>2. CASE InHand(r, i)
    BY <2>1, <2>2 DEF UpstreamInv
  <2>3. CASE ListPRs(r) /\ i \in run'[r].todo
    <3>1. run[r].pc = "prs"
      BY <2>3 DEF ListPRs, At
    <3>2. PICK page \in Pages(OpenPRs, PRPage) :
            Becomes(r, [run[r] EXCEPT !.pc = "scan",
                                      !.todo = {j \in run[r].listed \ Linked(page) :
                                                     Blocking(j, run[r].listed) = {}}])
      BY <2>3 DEF ListPRs
    <3>3. run'[r].todo = {j \in run[r].listed \ Linked(page) : Blocking(j, run[r].listed) = {}}
      BY <1>0, <3>2 DEF Becomes, Local
    <3>4. Blocking(i, run[r].listed) = {} /\ open \subseteq run[r].listed
      BY <2>3, <3>1, <3>3 DEF UpstreamInv
    <3> QED
      BY <2>1, <3>4 DEF Blocking, UpstreamsClosed
  <2> QED
    BY <1>2, <2>2, <2>3, InHandFrom
<1> QED
  BY <1>1, <1>2

\* A run works on an issue only while all its upstreams are closed, as long as the open
\* issues and pull requests fit on one page.
THEOREM UpstreamsCloseFirst == Spec /\ []ListingFits => []UpstreamsFirst
<1> USE BuilderAssumption
<1> DEFINE IInv == Typed /\ IsFiniteSet(prs) /\ UpstreamInv
<1>1. Init => IInv
  <2> SUFFICES ASSUME Init PROVE IInv
    OBVIOUS
  <2>1. prs = {} /\ \A r \in Run : run[r].pc = "idle" /\ run[r].todo = {}
    BY DEF Init, Fresh
  <2> QED
    BY <2>1, TypeInit, FS_EmptySet DEF UpstreamInv, InHand, Held, WorkPhases, Posting
<1>2. IInv /\ ListingFits /\ [Next]_vars => IInv'
  BY TypeStep, FiniteStep, UpstreamStep
<1>3. IInv => UpstreamsFirst
  <2> SUFFICES ASSUME IInv, NEW r \in Run, run[r].pc \in WorkPhases
               PROVE  (Upstream[run[r].target] \ {run[r].target}) \cap open = {}
    BY DEF UpstreamsFirst
  <2>1. run[r].target \in Issue
    BY DEF Typed, TypeOK, LocalOK, Local
  <2>2. InHand(r, run[r].target)
    BY DEF InHand, Held
  <2> QED
    BY <2>1, <2>2 DEF UpstreamInv, UpstreamsClosed
<1> HIDE DEF IInv
<1> QED
  BY <1>1, <1>2, <1>3, PTL DEF Spec

-----------------------------------------------------------------------------
(* How a step of a run shows in the variables of the protocol *)

PhaseOf(p) ==
  CASE p = "prs" -> "list"
    [] p \in WorkPhases -> "work"
    [] OTHER -> p

\* The phase of the protocol is that of the run's own phase.
LEMMA PhaseIs == ASSUME NEW r PROVE Phase(r) = PhaseOf(run[r].pc)
  BY DEF Phase, PhaseOf, At

\* Every variable of the protocol changes at r alone, as the local variable does.
Mapped(r) ==
  LET l == run'[r]
  IN  /\ Claims!Goes(r, PhaseOf(l.pc))
      /\ PhaseOf(l.pc) = Phase(r) => UNCHANGED [s \in Run |-> Phase(s)]
      /\ [s \in Run |-> run[s].now]' = [[s \in Run |-> run[s].now] EXCEPT ![r] = l.now]
      /\ l.now = run[r].now => UNCHANGED [s \in Run |-> run[s].now]
      /\ [s \in Run |-> run[s].todo]' = [[s \in Run |-> run[s].todo] EXCEPT ![r] = l.todo]
      /\ l.todo = run[r].todo => UNCHANGED [s \in Run |-> run[s].todo]
      /\ [s \in Run |-> run[s].target]' = [[s \in Run |-> run[s].target] EXCEPT ![r] = l.target]
      /\ l.target = run[r].target => UNCHANGED [s \in Run |-> run[s].target]
      /\ [s \in Run |-> run[s].owner]' = [[s \in Run |-> run[s].owner] EXCEPT ![r] = l.owner]
      /\ l.owner = run[r].owner => UNCHANGED [s \in Run |-> run[s].owner]

\* A step of run r alone changes the variables of the protocol at r alone.
LEMMA MappedStep ==
  ASSUME run \in [Run -> Local], NEW r \in Run, NEW l, Becomes(r, l)
  PROVE  Mapped(r)
<1>1. run' = [s \in Run |-> IF s = r THEN l ELSE run[s]] /\ run'[r] = l
  BY DEF Becomes
<1>2. \A s \in Run : Phase(s)' = IF s = r THEN PhaseOf(l.pc) ELSE Phase(s)
  <2>1. \A s : Phase(s)' = PhaseOf(run'[s].pc)
    BY DEF Phase, PhaseOf, At
  <2> QED
    BY <1>1, <2>1, PhaseIs
<1>3. Claims!Goes(r, PhaseOf(l.pc))
  BY <1>2 DEF Claims!Goes
<1>4. PhaseOf(l.pc) = Phase(r) => UNCHANGED [s \in Run |-> Phase(s)]
  BY <1>2
<1> QED
  BY <1>1, <1>3, <1>4 DEF Mapped

\* Every step of a run is such a change.
LEMMA Mapping ==
  ASSUME BuilderAssumption, Typed, NEW r \in Run, Begin(r) \/ RunStep(r) \/ Raises(r) \/ Crash(r)
  PROVE  Mapped(r)
  BY LocalStep, MappedStep DEF Typed, TypeOK

\* Nothing is retried or restarted.
LEMMA ZerosStay ==
  ASSUME NEW r \in Run
  PROVE  [[s \in Run |-> 0] EXCEPT ![r] = 0] = [s \in Run |-> 0]
  OBVIOUS

\* A step that keeps to one phase of the protocol and to its variables is a stutter there.
LEMMA Internal ==
  ASSUME NEW r \in Run, Mapped(r), UNCHANGED <<clock, thread>>,
         PhaseOf(run'[r].pc) = Phase(r), run'[r].now = run[r].now, run'[r].todo = run[r].todo,
         run'[r].target = run[r].target, run'[r].owner = run[r].owner
  PROVE  UNCHANGED Claims!vars
  BY DEF Mapped, Claims!vars

\* The task returns: all its variables are reset.
LEMMA EndsMapped ==
  ASSUME NEW r \in Run, Mapped(r), run \in [Run -> Local], NEW phase \in Ended, NEW record,
         Ends(r, phase, record)
  PROVE  Claims!Ends(r, phase) /\ Claims!Proceeds(r, phase)
<1>1. PhaseOf(run'[r].pc) = phase
      /\ run'[r].now = 0 /\ run'[r].todo = {} /\ run'[r].target = None /\ run'[r].owner = 0
  BY DEF Ends, Becomes, Fresh, PhaseOf, Ended, WorkPhases
<1>2. Claims!Ends(r, phase)
  BY <1>1, ZerosStay DEF Mapped, Claims!Ends
<1>3. phase \in Claims!Ended
  BY DEF Claims!Ended, Ended
<1> QED
  BY <1>2, <1>3 DEF Claims!Proceeds

\* The run goes on with the same variables to another phase of the protocol.
LEMMA ProceedsMapped ==
  ASSUME NEW r \in Run, Mapped(r), NEW phase, PhaseOf(run'[r].pc) = phase, phase \notin Ended,
         run'[r].now = run[r].now, run'[r].todo = run[r].todo,
         run'[r].target = run[r].target, run'[r].owner = run[r].owner
  PROVE  Claims!Proceeds(r, phase)
<1>1. phase \notin Claims!Ended
  BY DEF Claims!Ended, Ended
<1> QED
  BY <1>1, ZerosStay DEF Mapped, Claims!Proceeds

-----------------------------------------------------------------------------
(* Every step of a run is a step of the protocol *)

\* The claim algebra of the protocol is the builder's own.
LEMMA SameAlgebra ==
  /\ \A s, n : Claims!FirstPage(s, n) = FirstPage(s, n)
  /\ \A s, k, i : Claims!MarkerOf(s, k, i) <=> MarkerOf(s, k, i)
  /\ \A s, k, i : Claims!ReleasedAfter(s, k, i) <=> ReleasedAfter(s, k, i)
  /\ \A s, k, n : Claims!OwningClaim(s, k, n) = OwningClaim(s, k, n)
<1>1. \A s, n : Claims!FirstPage(s, n) = FirstPage(s, n)
  BY Zenon DEF FirstPage, Claims!FirstPage
<1>2. \A s, k, i : Claims!MarkerOf(s, k, i) <=> MarkerOf(s, k, i)
  BY Zenon DEF MarkerOf, Claims!MarkerOf
<1>3. \A s, k, i : Claims!ReleasedAfter(s, k, i) <=> ReleasedAfter(s, k, i)
  BY Zenon DEF ReleasedAfter, Claims!ReleasedAfter, MarkerOf, Claims!MarkerOf
<1>4. \A s, k, n, i : Claims!LiveClaim(s, k, n, i) <=> LiveClaim(s, k, n, i)
  BY Zenon, <1>2, <1>3 DEF LiveClaim, Claims!LiveClaim
<1>5. \A s, k, n, i : Claims!Owns(s, k, n, i) <=> Owns(s, k, n, i)
  BY <1>4 DEF Owns, Claims!Owns
<1>6. ASSUME NEW s, NEW k, NEW n PROVE Claims!OwningClaim(s, k, n) = OwningClaim(s, k, n)
  <2>1. \A i : Claims!Owns(s, k, n, i) = Owns(s, k, n, i)
    <3>1. \A i : Claims!Owns(s, k, n, i) \in BOOLEAN /\ Owns(s, k, n, i) \in BOOLEAN
      BY DEF Claims!Owns, Owns
    <3> QED
      BY <1>5, <3>1
  <2> QED
    BY <2>1 DEF Claims!OwningClaim, OwningClaim
<1> QED
  BY <1>1, <1>2, <1>3, <1>6

\* What a step makes of the local variables that the protocol knows.
Keeps(r) ==
  /\ run'[r].now = run[r].now /\ run'[r].todo = run[r].todo
  /\ run'[r].target = run[r].target /\ run'[r].owner = run[r].owner

\* Starting, listing and claiming.
LEMMA ScanMapped ==
  ASSUME Typed, NEW r \in Run, Mapped(r)
  PROVE  /\ Begin(r) => Claims!Begin(r)
         /\ ListIssues(r) => UNCHANGED Claims!vars
         /\ ListPRs(r) => Claims!Lists(r)
         /\ NoWork(r) => Claims!NoWork(r)
         /\ \A i \in Issue : /\ StandDown(r, i) => Claims!StandDown(r, i)
                             /\ Stake(r, i) => Claims!Stake(r, i)
         /\ ReadBackWins(r) => Claims!ReadBackWins(r)
         /\ ReadBackLoses(r) => Claims!ReadBackLoses(r)
<1>0. run \in [Run -> Local] /\ run[r] \in Local /\ open \subseteq Issue /\ LocalOK(run[r])
  BY DEF Typed, TypeOK
<1>a. \A i : Owner(r, i) = Claims!OwningClaim(Claims!Seen(i), Kind, run[r].now)
  BY SameAlgebra DEF Owner, Claims!Seen
<1>1. ASSUME Begin(r) PROVE Claims!Begin(r)
  <2>1. /\ Phase(r) = "idle" /\ PhaseOf(run'[r].pc) = "list" /\ run'[r].now = clock
        /\ run'[r].todo = run[r].todo /\ run'[r].target = run[r].target
        /\ run'[r].owner = run[r].owner
    BY <1>0, <1>1 DEF Begin, Becomes, At, Phase, PhaseOf, Local, WorkPhases
  <2> QED
    BY <1>1, <2>1 DEF Mapped, Begin, github, Claims!Begin, Claims!Starts
<1>2. ASSUME ListIssues(r) PROVE UNCHANGED Claims!vars
  <2>1. PhaseOf(run'[r].pc) = Phase(r) /\ Keeps(r)
    BY <1>0, <1>2 DEF ListIssues, Becomes, At, Phase, PhaseOf, Local, WorkPhases, Keeps
  <2> QED
    BY <1>2, <2>1, Internal DEF Keeps, ListIssues, github
<1>3. ASSUME ListPRs(r) PROVE Claims!Lists(r)
  <2>1. /\ Phase(r) = "list" /\ PhaseOf(run'[r].pc) = "scan"
        /\ run'[r].todo \in SUBSET Issue
        /\ run'[r].now = run[r].now /\ run'[r].target = run[r].target
        /\ run'[r].owner = run[r].owner
    BY <1>0, <1>3 DEF ListPRs, Becomes, At, Phase, PhaseOf, Local, WorkPhases
  <2> QED
    BY <1>3, <2>1 DEF Mapped, ListPRs, github, Claims!Lists
<1>4. ASSUME NoWork(r) PROVE Claims!NoWork(r)
  <2>1. Phase(r) = "scan" /\ Claims!Ends(r, "done")
    BY <1>0, <1>4, EndsMapped DEF NoWork, At, Phase, WorkPhases, Ended
  <2> QED
    BY <1>4, <2>1 DEF NoWork, github, Claims!NoWork
<1>5. ASSUME NEW i \in Issue, StandDown(r, i) PROVE Claims!StandDown(r, i)
  <2>1. /\ Phase(r) = "scan" /\ PhaseOf(run'[r].pc) = Phase(r)
        /\ run'[r].todo = run[r].todo \ {i}
        /\ run'[r].now = run[r].now /\ run'[r].target = run[r].target
        /\ run'[r].owner = run[r].owner
    BY <1>0, <1>5 DEF StandDown, Becomes, At, Phase, PhaseOf, Local, WorkPhases
  <2> QED
    BY <1>5, <1>a, <2>1 DEF Mapped, StandDown, OwnedBy, github, Claims!StandDown
<1>6. ASSUME NEW i \in Issue, Stake(r, i) PROVE Claims!Stake(r, i)
  <2>1. /\ Phase(r) = "scan" /\ PhaseOf(run'[r].pc) = "claim"
        /\ run'[r].todo = run[r].todo \ {i} /\ run'[r].target = i
        /\ run'[r].now = run[r].now /\ run'[r].owner = run[r].owner
    BY <1>0, <1>6 DEF Stake, Becomes, At, Phase, PhaseOf, Local, WorkPhases
  <2> QED
    BY <1>6, <1>a, <2>1 DEF Mapped, Stake, github, Claims!Stake
<1>7. ASSUME ReadBackWins(r) PROVE Claims!ReadBackWins(r)
  <2>1. /\ Phase(r) = "readback" /\ PhaseOf(run'[r].pc) = "work"
        /\ run'[r].owner = Owner(r, run[r].target)
        /\ run'[r].now = run[r].now /\ run'[r].target = run[r].target
        /\ run'[r].todo = run[r].todo
    BY <1>0, <1>7 DEF ReadBackWins, Becomes, At, Phase, PhaseOf, Local, WorkPhases
  <2> QED
    BY <1>7, <1>a, <2>1 DEF Mapped, ReadBackWins, OwnedBy, github, Claims!ReadBackWins
<1>8. ASSUME ReadBackLoses(r) PROVE Claims!ReadBackLoses(r)
  <2>1. /\ Phase(r) = "readback" /\ PhaseOf(run'[r].pc) = "scan"
        /\ run'[r].target = None /\ run'[r].owner = run[r].owner
        /\ run'[r].now = run[r].now /\ run'[r].todo = run[r].todo
    BY <1>0, <1>8 DEF ReadBackLoses, Becomes, At, Phase, PhaseOf, Local, WorkPhases
  <2> QED
    BY <1>8, <1>a, <2>1 DEF Mapped, ReadBackLoses, OwnedBy, github, Claims!ReadBackLoses
<1> QED
  BY <1>1, <1>2, <1>3, <1>4, <1>5, <1>6, <1>7, <1>8

\* A run at work leaves the variables of the protocol alone until it returns.
WorkStep(r) ==
  \/ Build(r) \/ Rejected(r) \/ Verified(r) \/ Guard(r) \/ CommitStarts(r) \/ Push(r)
  \/ FileItem(r)

\* A run at work leaves the variables of the protocol alone until it comments or releases.
LEMMA WorkMapped ==
  ASSUME Typed, NEW r \in Run, Mapped(r), WorkStep(r)
  PROVE  Claims!Releases(r) \/ Claims!CommentsAndReleases(r) \/ UNCHANGED Claims!vars
<1> DEFINE Goal == Claims!Releases(r) \/ Claims!CommentsAndReleases(r) \/ UNCHANGED Claims!vars
<1>0. run \in [Run -> Local] /\ run[r] \in Local
  BY DEF Typed, TypeOK
<1>a. ASSUME Keeps(r), NEW phase \in {"note", "release"}, run'[r].pc = phase
      PROVE  Claims!Proceeds(r, phase)
  <2>1. phase \notin Ended /\ PhaseOf(run'[r].pc) = phase
    BY <1>a DEF Ended, PhaseOf, WorkPhases
  <2> QED
    BY <1>a, <2>1, ProceedsMapped DEF Keeps
<1>b. ASSUME Keeps(r), Phase(r) = "work", UNCHANGED <<clock, thread>>, run'[r].pc \in WorkPhases
      PROVE  UNCHANGED Claims!vars
  <2>1. PhaseOf(run'[r].pc) = Phase(r)
    BY <1>b DEF PhaseOf, WorkPhases
  <2> QED
    BY <1>b, <2>1, Internal DEF Keeps
<1>c. ASSUME Keeps(r), Phase(r) = "work", UNCHANGED <<clock, thread>>,
             run'[r].pc \in WorkPhases \cup {"note", "release"}
      PROVE  Goal
  BY <1>a, <1>b, <1>c DEF Claims!Releases, Claims!CommentsAndReleases
<1> DEFINE Kept(l) == /\ l.now = run[r].now /\ l.todo = run[r].todo
                      /\ l.target = run[r].target /\ l.owner = run[r].owner
                      /\ l.pc \in WorkPhases \cup {"note", "release"}
<1>d. ASSUME NEW l, Becomes(r, l), Kept(l)
      PROVE  Keeps(r) /\ run'[r].pc \in WorkPhases \cup {"note", "release"}
  BY <1>0, <1>d DEF Becomes, Keeps
<1>1. CASE Build(r)
  <2>1. /\ Kept([run[r] EXCEPT !.pc = "release", !.attempt = @ + 1, !.record = "no_work"])
        /\ \A plan \in Plans :
              Kept([run[r] EXCEPT !.pc = "verify", !.attempt = @ + 1, !.plan = plan])
    BY <1>0 DEF Local, WorkPhases
  <2>2. \E l : Becomes(r, l) /\ Kept(l)
    <3> HIDE DEF Kept
    <3> QED
      BY <1>1, <2>1 DEF Build
  <2>3. Phase(r) = "work" /\ UNCHANGED <<clock, thread>>
    BY <1>1 DEF Build, At, Phase, WorkPhases, github
  <2> QED
    BY <1>c, <1>d, <2>2, <2>3
<1>2. CASE Rejected(r)
  <2>1. /\ Kept([run[r] EXCEPT !.pc = "build"])
        /\ Kept([run[r] EXCEPT !.pc = "note", !.record = "error"])
    BY <1>0 DEF Local, WorkPhases
  <2>2. \E l : Becomes(r, l) /\ Kept(l)
    <3> HIDE DEF Kept
    <3> QED
      BY <1>2, <2>1 DEF Rejected, Goes
  <2>3. Phase(r) = "work" /\ UNCHANGED <<clock, thread>>
    BY <1>2 DEF Rejected, At, Phase, WorkPhases, github
  <2> QED
    BY <1>c, <1>d, <2>2, <2>3
<1>3. CASE Verified(r)
  <2>1. Keeps(r)
    BY <1>0, <1>3 DEF Verified, Becomes, Local, Keeps
  <2>2. run'[r].pc \in WorkPhases \cup {"note", "release"}
    BY <1>0, <1>3 DEF Verified, Becomes, Local, WorkPhases
  <2> QED
    BY <1>3, <1>c, <2>1, <2>2 DEF Verified, At, Phase, WorkPhases, github
<1>4. CASE Guard(r)
  <2>1. /\ Kept([run[r] EXCEPT !.pc = "release", !.record = "no_work"])
        /\ \A b \in Branch : Kept([run[r] EXCEPT !.pc = "commit", !.branch = b])
    BY <1>0 DEF Local, WorkPhases
  <2>2. \E l : Becomes(r, l) /\ Kept(l)
    <3> HIDE DEF Kept
    <3> QED
      BY <1>4, <2>1 DEF Guard
  <2>3. Phase(r) = "work" /\ UNCHANGED <<clock, thread>>
    BY <1>4 DEF Guard, At, Phase, WorkPhases, github
  <2> QED
    BY <1>c, <1>d, <2>2, <2>3
<1>5. CASE CommitStarts(r)
  <2>1. Keeps(r)
    BY <1>0, <1>5 DEF CommitStarts, Becomes, Local, Keeps
  <2>2. run'[r].pc \in WorkPhases \cup {"note", "release"}
    BY <1>0, <1>5 DEF CommitStarts, Becomes, Local, WorkPhases
  <2> QED
    BY <1>5, <1>c, <2>1, <2>2 DEF CommitStarts, At, Phase, WorkPhases, github
<1>6. CASE Push(r)
  <2>1. Keeps(r)
    BY <1>0, <1>6 DEF Push, Goes, Becomes, Local, Keeps
  <2>2. run'[r].pc \in WorkPhases \cup {"note", "release"}
    BY <1>0, <1>6 DEF Push, Goes, Becomes, Local, WorkPhases
  <2> QED
    BY <1>6, <1>c, <2>1, <2>2 DEF Push, At, Phase, WorkPhases, github
<1>7. CASE FileItem(r)
  <2>1. Keeps(r)
    BY <1>0, <1>7 DEF FileItem, Becomes, Local, Keeps
  <2>2. run'[r].pc \in WorkPhases \cup {"note", "release"}
    BY <1>0, <1>7 DEF FileItem, Becomes, Local, WorkPhases
  <2> QED
    BY <1>7, <1>c, <2>1, <2>2 DEF FileItem, At, Phase, WorkPhases, github
<1> QED
  BY <1>1, <1>2, <1>3, <1>4, <1>5, <1>6, <1>7 DEF WorkStep

\* It returns with its claim kept, or fails at the last moment.
LEMMA ResultMapped ==
  ASSUME Typed, NEW r \in Run, Mapped(r), OpenPR(r) \/ CloseSpec(r)
  PROVE  Claims!Keeps(r) \/ Claims!WorkFails(r)
<1>0. run \in [Run -> Local] /\ run[r] \in Local
  BY DEF Typed, TypeOK
<1>1. Phase(r) = "work" /\ UNCHANGED <<clock, thread>>
  BY DEF OpenPR, CloseSpec, At, Phase, WorkPhases
<1>2. ASSUME NEW record, Ends(r, "done", record) PROVE Claims!Keeps(r)
  BY <1>0, <1>1, <1>2, EndsMapped DEF Ended, Claims!Keeps
<1>3. ASSUME Becomes(r, [run[r] EXCEPT !.pc = "recover", !.record = "error"])
      PROVE  Claims!WorkFails(r)
  <2>1. Keeps(r) /\ PhaseOf(run'[r].pc) = "recover"
    BY <1>0, <1>3 DEF Becomes, Local, Keeps, PhaseOf, WorkPhases
  <2>2. Claims!Proceeds(r, "recover")
    BY <2>1, ProceedsMapped DEF Keeps, Ended
  <2> QED
    BY <1>1, <2>2 DEF Claims!WorkFails
<1> QED
  BY <1>2, <1>3 DEF OpenPR, CloseSpec, Applied

\* A comment is answered or refused, a run fails or crashes.
LEMMA LeavingMapped ==
  ASSUME Typed, NEW r \in Run, Mapped(r)
  PROVE  /\ Post(r) => Claims!Post(r)
         /\ Raises(r) => Claims!ReadFails(r) \/ Claims!Refused(r) \/ Claims!WorkFails(r)
         /\ Crash(r) => Claims!Crash(r)
<1>0. run \in [Run -> Local] /\ run[r] \in Local /\ run[r].pc \in Phases
  BY DEF Typed, TypeOK, Local
<1>b. ASSUME Keeps(r), NEW phase \in Posting \cup {"readback"}, run'[r].pc = phase
      PROVE  Claims!Proceeds(r, phase)
  <2>1. phase \notin Ended /\ PhaseOf(run'[r].pc) = phase
    BY <1>b DEF Posting, Ended, PhaseOf, WorkPhases
  <2> QED
    BY <1>b, <2>1, ProceedsMapped DEF Keeps
<1>1. ASSUME Post(r) PROVE Claims!Post(r)
  <2>1. run[r].pc \in Posting /\ Phase(r) = run[r].pc
    BY <1>1 DEF Post, Posting, Phase, At, WorkPhases
  <2>2. Outgoing(r) = Claims!Outgoing(r)
    BY <2>1 DEF Outgoing, At, Claims!Outgoing, Claims!ClaimMarker, Claims!NoteOf, Claims!ReleaseMarker
  <2>3. Claims!Proceeds(r, Claims!Answered(Phase(r)))
    <3>1. CASE At(r, "claim")
      <4>1. Keeps(r) /\ run'[r].pc = "readback"
        BY <1>0, <1>1, <3>1 DEF Post, Goes, Becomes, At, Local, Keeps
      <4> QED
        BY <1>b, <2>1, <3>1, <4>1 DEF At, Claims!Answered
    <3>2. CASE At(r, "note")
      <4>1. Keeps(r) /\ run'[r].pc = "release"
        BY <1>0, <1>1, <3>2 DEF Post, Goes, Becomes, At, Local, Keeps
      <4> QED
        BY <1>b, <2>1, <3>2, <4>1 DEF At, Claims!Answered, Posting
    <3>3. CASE ~At(r, "claim") /\ ~At(r, "note")
      <4>1. Ends(r, "done", run[r].record)
        BY <1>1, <3>3 DEF Post
      <4>2. Claims!Proceeds(r, "done")
        BY <1>0, <4>1, EndsMapped DEF Ended
      <4> QED
        BY <2>1, <3>3, <4>2 DEF At, Claims!Answered
    <3> QED
      BY <3>1, <3>2, <3>3
  <2> QED
    BY <1>1, <2>1, <2>2, <2>3 DEF Post, Posting, Claims!Post, Claims!Posting
<1>2. ASSUME Raises(r)
      PROVE  Claims!ReadFails(r) \/ Claims!Refused(r) \/ Claims!WorkFails(r)
  <2>0. UNCHANGED <<clock, thread>>
    BY <1>2 DEF Raises, github
  <2>1. CASE run[r].pc \in {"list", "prs", "scan", "readback"}
    <3>1. Ends(r, "failed", "error") /\ Phase(r) \in {"list", "scan", "readback"}
      BY <1>2, <2>1 DEF Raises, Phase, At, WorkPhases
    <3> QED
      BY <1>0, <2>0, <3>1, EndsMapped DEF Ended, Claims!ReadFails
  <2>2. CASE At(r, "claim")
    <3>1. Ends(r, "failed", "error") /\ Phase(r) = "claim"
      BY <1>2, <2>2 DEF Raises, Phase, At, WorkPhases
    <3> QED
      BY <1>0, <2>0, <3>1, EndsMapped DEF Ended, Claims!Refused, Claims!Posting, Claims!Raised
  <2>3. CASE At(r, "recover")
    <3>1. Ends(r, "done", "error") /\ Phase(r) = "recover"
      BY <1>2, <2>3 DEF Raises, Phase, At, WorkPhases
    <3> QED
      BY <1>0, <2>0, <3>1, EndsMapped DEF Ended, Claims!Refused, Claims!Posting, Claims!Raised
  <2>4. CASE run[r].pc \in WorkPhases \cup {"note", "release"}
    <3>0. Becomes(r, [run[r] EXCEPT !.pc = "recover", !.record = "error"])
      BY <1>2, <2>4 DEF Raises, At, WorkPhases
    <3>1. Keeps(r) /\ run'[r].pc = "recover"
      BY <1>0, <3>0 DEF Becomes, Local, Keeps
    <3>2. Claims!Proceeds(r, "recover") /\ Phase(r) \in {"work", "note", "release"}
      BY <1>b, <2>4, <3>1 DEF Posting, Phase, At, WorkPhases
    <3> QED
      BY <2>0, <3>2 DEF Claims!Refused, Claims!WorkFails, Claims!Posting, Claims!Raised
  <2> QED
    BY <1>0, <1>2, <2>1, <2>2, <2>3, <2>4 DEF Raises, At, Phases, Posting, Ended
<1>3. ASSUME Crash(r) PROVE Claims!Crash(r)
  <2>1. Claims!Ends(r, "crashed") /\ Phase(r) \notin Ended \cup {"idle"}
    BY <1>0, <1>3, EndsMapped DEF Crash, Ended, Phase, At, WorkPhases
  <2> QED
    BY <1>3, <2>1 DEF Crash, github, Ended, Claims!Crash, Claims!Ended
<1> QED
  BY <1>1, <1>2, <1>3

-----------------------------------------------------------------------------
(* The refinement *)

\* The builder starts where the protocol starts.
LEMMA RefinesInit == Init => Claims!Init
<1> SUFFICES ASSUME Init PROVE Claims!Init
  OBVIOUS
<1>1. \A r \in Run : /\ run[r].pc = "idle" /\ run[r].now = 0 /\ run[r].todo = {}
                     /\ run[r].target = None /\ run[r].owner = 0
  BY DEF Init, Fresh
<1>2. \A r \in Run : Phase(r) = "idle"
  BY <1>1 DEF Phase, At, WorkPhases
<1> QED
  BY <1>1, <1>2 DEF Init, Claims!Init

\* Every step is a step of the protocol or leaves its variables alone.
LEMMA RefinesStep ==
  ASSUME BuilderAssumption, Typed, [Next]_vars
  PROVE  [Claims!Next]_(Claims!vars)
<1> DEFINE Goal == [Claims!Next]_(Claims!vars)
<1>1. ASSUME NEW r \in Run, Begin(r) \/ RunStep(r) \/ Raises(r) \/ Crash(r) PROVE Goal
  <2>1. Mapped(r)
    BY <1>1, Mapping
  <2>2. CASE Begin(r)
    BY <2>1, <2>2, ScanMapped DEF Claims!Next
  <2>3. CASE Raises(r) \/ Crash(r)
    BY <2>1, <2>3, LeavingMapped DEF Claims!Next, Claims!Failure
  <2>4. CASE RunStep(r)
    <3>1. CASE WorkStep(r)
      BY <2>1, <3>1, WorkMapped DEF Claims!Next, Claims!RunStep
    <3>2. CASE OpenPR(r) \/ CloseSpec(r)
      BY <2>1, <3>2, ResultMapped DEF Claims!Next, Claims!RunStep, Claims!Failure
    <3>3. CASE Post(r)
      BY <2>1, <3>3, LeavingMapped DEF Claims!Next, Claims!RunStep
    <3>4. CASE \E i \in Issue : StandDown(r, i) \/ Stake(r, i)
      BY <2>1, <3>4, ScanMapped DEF Claims!Next, Claims!RunStep
    <3>5. CASE ListIssues(r) \/ ListPRs(r) \/ NoWork(r) \/ ReadBackWins(r) \/ ReadBackLoses(r)
      BY <2>1, <3>5, ScanMapped DEF Claims!Next, Claims!RunStep
    <3> QED
      BY <2>4, <3>1, <3>2, <3>3, <3>4, <3>5 DEF RunStep, WorkStep
  <2> QED
    BY <1>1, <2>2, <2>3, <2>4
<1>2. ASSUME UNCHANGED <<clock, thread, run>> PROVE Goal
  BY <1>2 DEF Claims!vars, Phase, At
<1>3. ASSUME Tick PROVE Goal
  <2>1. Claims!Tick
    BY <1>3 DEF Tick, github, Claims!Tick, Claims!runVars, Phase, At
  <2> QED
    BY <2>1 DEF Claims!Next
<1> QED
  BY <1>1, <1>2, <1>3 DEF Next, Merge, ClosePR, vars

\* The builder implements the claim protocol.
THEOREM BuilderImplementsClaims == Spec => ImplementsClaims
<1> USE BuilderAssumption
<1>1. Init => Claims!Init /\ Typed
  BY RefinesInit, TypeInit
<1>2. Typed /\ [Next]_vars => Typed'
  BY TypeStep
<1>3. Typed /\ [Next]_vars => [Claims!Next]_(Claims!vars)
  BY RefinesStep
<1> QED
  BY <1>1, <1>2, <1>3, PTL DEF Spec, ImplementsClaims, Claims!Spec

-----------------------------------------------------------------------------
(* What the protocol's theorems say of the builder *)

CP == INSTANCE ClaimProtocolProofs WITH
  RunId <- [r \in Run |-> r],
  Target <- Issue,
  MaxRetries <- 0,
  MaxRestarts <- 0,
  MaxNotes <- 0,
  wire <- {},
  pc <- [r \in Run |-> Phase(r)],
  now <- [r \in Run |-> run[r].now],
  todo <- [r \in Run |-> run[r].todo],
  target <- [r \in Run |-> run[r].target],
  owner <- [r \in Run |-> run[r].owner],
  tries <- [r \in Run |-> 0],
  restarts <- [r \in Run |-> 0]

\* The protocol that Builder names is the one the theorems are about.
LEMMA SameSteps ==
  /\ Claims!Init <=> CP!Init
  /\ [Claims!Next]_(Claims!vars) <=> [CP!Next]_(CP!vars)
<1>1. /\ Claims!Init <=> CP!Init
      /\ UNCHANGED Claims!vars <=> UNCHANGED CP!vars
  BY Zenon DEF Claims!vars, CP!vars, Claims!Init, CP!Init
<1>2. ASSUME NEW r \in Run
      PROVE  /\ Claims!Begin(r) <=> CP!Begin(r)
             /\ Claims!Restart(r) <=> CP!Restart(r)
  BY Zenon DEF Claims!Begin, Claims!Restart, Claims!Starts, Claims!Goes,
     CP!Begin, CP!Restart, CP!Starts, CP!Goes
<1>3. ASSUME NEW r \in Run PROVE Claims!Failure(r) <=> CP!Failure(r)
  BY Zenon
  DEF Claims!Failure, Claims!ReadFails, Claims!WorkFails, Claims!TimesOut, Claims!Refused,
      Claims!Crash, Claims!Ends, Claims!Goes, Claims!Proceeds, Claims!Raised, Claims!Posting,
      Claims!RetriesLeft, Claims!Outgoing, Claims!ClaimMarker, Claims!NoteOf,
      Claims!ReleaseMarker, Claims!Ended,
      CP!Failure, CP!ReadFails, CP!WorkFails, CP!TimesOut, CP!Refused,
      CP!Crash, CP!Ends, CP!Goes, CP!Proceeds, CP!Raised, CP!Posting,
      CP!RetriesLeft, CP!Outgoing, CP!ClaimMarker, CP!NoteOf,
      CP!ReleaseMarker, CP!Ended
<1>4. ASSUME NEW r \in Run PROVE Claims!RunStep(r) <=> CP!RunStep(r)
  BY Zenon
  DEF Claims!RunStep, Claims!Lists, Claims!NoWork, Claims!StandDown, Claims!AlreadyHeld,
      Claims!Stake, Claims!ReadBackWins, Claims!ReadBackLoses, Claims!CommentsAndReleases,
      Claims!Releases, Claims!Keeps, Claims!Post, Claims!Answered, Claims!Ends, Claims!Goes,
      Claims!Proceeds, Claims!Posting, Claims!Outgoing, Claims!ClaimMarker, Claims!NoteOf,
      Claims!ReleaseMarker, Claims!Ended, Claims!Seen, Claims!FirstPage, Claims!OwningClaim,
      Claims!Owns, Claims!LiveClaim, Claims!ReleasedAfter, Claims!MarkerOf,
      CP!RunStep, CP!Lists, CP!NoWork, CP!StandDown, CP!AlreadyHeld,
      CP!Stake, CP!ReadBackWins, CP!ReadBackLoses, CP!CommentsAndReleases,
      CP!Releases, CP!Keeps, CP!Post, CP!Answered, CP!Ends, CP!Goes,
      CP!Proceeds, CP!Posting, CP!Outgoing, CP!ClaimMarker, CP!NoteOf,
      CP!ReleaseMarker, CP!Ended, CP!Seen, CP!FirstPage, CP!OwningClaim,
      CP!Owns, CP!LiveClaim, CP!ReleasedAfter, CP!MarkerOf
<1>5. /\ \A r \in Run, t \in Issue : Claims!Skip(r, t) <=> CP!Skip(r, t)
      /\ \A t \in Issue : Claims!PersonComments(t) <=> CP!PersonComments(t)
      /\ Claims!Tick <=> CP!Tick
  BY Zenon DEF Claims!Skip, Claims!PersonComments, Claims!NoteOf, Claims!Tick, Claims!runVars,
     Claims!Cardinality, CP!Skip, CP!PersonComments, CP!NoteOf, CP!Tick, CP!runVars,
     CP!Cardinality
<1>6. Claims!Next <=> CP!Next
  BY Zenon, <1>2, <1>3, <1>4, <1>5 DEF Claims!Next, CP!Next
<1> QED
  BY <1>1, <1>6

\* Its theorems hold of the builder's claims.
LEMMA ClaimsInvariant == Spec => [](Typed /\ CP!IInv)
<1> USE BuilderAssumption
<1>1. CP!ConstantsAssumption
  BY DEF CP!ConstantsAssumption, BuilderAssumption
<1>2. Init => CP!Init /\ Typed
  BY RefinesInit, TypeInit, SameSteps
<1>3. Typed /\ [Next]_vars => Typed' /\ [CP!Next]_(CP!vars)
  BY TypeStep, RefinesStep, SameSteps
<1>4. CP!Spec => []CP!IInv
  BY <1>1, CP!Invariant
<1> QED
  BY <1>2, <1>3, <1>4, PTL DEF Spec, CP!Spec

\* Both copies of the claim algebra say the same of a release.
LEMMA SameRelease == \A t, k, i : CP!ReleasedAfter(t, k, i) <=> ReleasedAfter(t, k, i)
BY Zenon DEF ReleasedAfter, CP!ReleasedAfter, MarkerOf, CP!MarkerOf

\* A run that works under a claim has won it, and no two runs hold a lease on one issue.
LEMMA ClaimsSay ==
  ASSUME BuilderAssumption, Typed, CP!IInv
  PROVE  /\ \A r \in Run :
              /\ run[r].now <= clock
              /\ run[r].pc \in WorkPhases /\ run[r].owner # 0 =>
                   /\ CP!Won(thread[run[r].target], r, run[r].owner, run[r].now)
                   /\ run[r].owner \in DOMAIN thread[run[r].target]
         /\ \A r, s \in Run : HoldsLease(r) /\ HoldsLease(s) /\ run[r].target = run[s].target => r = s
         /\ thread \in [Issue -> Seq(CP!Comment)]
<1>0. \A r \in Run : run[r].target \in Issue \/ run[r].pc \notin WorkPhases
  BY DEF Typed, TypeOK, LocalOK, Local
<1>1. \A r \in Run : run[r].pc \in WorkPhases => Phase(r) = "work"
  BY DEF Phase, At, WorkPhases
<1>2. CP!WonClaims /\ CP!TypeOK /\ thread \in [Issue -> Seq(CP!Comment)]
  BY DEF CP!IInv, CP!TypeOK, CP!GitHubTypeOK
<1>3. \A r \in Run :
        /\ run[r].now <= clock
        /\ run[r].pc \in WorkPhases /\ run[r].owner # 0 =>
             /\ CP!Won(thread[run[r].target], r, run[r].owner, run[r].now)
             /\ run[r].owner \in DOMAIN thread[run[r].target]
  BY <1>1, <1>2 DEF CP!WonClaims, CP!Won
<1>4. CP!LeaseExclusion
  <2>1. CP!DistinctIds
    BY DEF CP!DistinctIds
  <2> QED
    BY <2>1, CP!IInvExclusion
<1>5. ASSUME NEW r \in Run, HoldsLease(r) PROVE CP!HoldsLease(r, run[r].target)
  <2>1. /\ run[r].pc \in WorkPhases /\ run[r].owner # 0
        /\ ~ReleasedAfter(thread[run[r].target], Kind, run[r].owner)
        /\ thread[run[r].target][run[r].owner].until > clock
    BY <1>5 DEF HoldsLease
  <2>2. CP!Unrevoked(run[r].target, run[r].owner) /\ CP!Working(r, run[r].target)
    BY <1>1, <1>3, <2>1, SameRelease DEF CP!Unrevoked, CP!Working
  <2> QED
    BY <2>1, <2>2 DEF CP!HoldsLease
<1>6. ASSUME NEW r \in Run, NEW s \in Run, HoldsLease(r), HoldsLease(s), run[r].target = run[s].target
      PROVE  r = s
  <2>1. run[r].target \in Issue
    BY <1>0, <1>6 DEF HoldsLease
  <2> QED
    BY <1>4, <1>5, <1>6, <2>1 DEF CP!LeaseExclusion
<1> QED
  BY <1>2, <1>3, <1>6

\* A step leaves the comments of a thread where they are: what was revoked stays revoked and
\* what was won stays won.
LEMMA ThreadsKept ==
  ASSUME BuilderAssumption, Typed, CP!IInv, [Next]_vars
  PROVE  /\ clock \in Nat /\ clock' \in Nat /\ clock <= clock'
         /\ \A i \in Issue :
              /\ \A k \in DOMAIN thread[i] : k \in DOMAIN thread'[i] /\ thread'[i][k] = thread[i][k]
              /\ \A k : ReleasedAfter(thread[i], Kind, k) => ReleasedAfter(thread'[i], Kind, k)
              /\ \A id, k, n : CP!Won(thread[i], id, k, n) => CP!Won(thread'[i], id, k, n)
<1>1. CP!ConstantsAssumption
  BY DEF CP!ConstantsAssumption, BuilderAssumption
<1>2. CP!TypeOK
  BY DEF CP!IInv
<1>3. [CP!Next]_(CP!vars)
  BY RefinesStep, SameSteps
<1>4. /\ clock' \in {clock, clock + 1}
      /\ \A i \in Issue : \/ thread'[i] = thread[i]
                          \/ \E c \in CP!Comment : thread'[i] = Append(thread[i], c)
  BY <1>1, <1>2, <1>3, CP!ThreadsGrow
<1>5. clock \in Nat /\ clock' \in Nat /\ clock <= clock'
  BY <1>4 DEF Typed, TypeOK, BuilderAssumption
<1>6. ASSUME NEW t \in Seq(CP!Comment), NEW c \in CP!Comment
      PROVE  /\ \A k \in DOMAIN t : k \in DOMAIN Append(t, c) /\ Append(t, c)[k] = t[k]
             /\ \A k : ReleasedAfter(t, Kind, k) => ReleasedAfter(Append(t, c), Kind, k)
             /\ \A id, k, n : CP!Won(t, id, k, n) => CP!Won(Append(t, c), id, k, n)
  <2>1. \A k \in DOMAIN t : k \in DOMAIN Append(t, c) /\ Append(t, c)[k] = t[k]
    BY CP!AppendThread
  <2>2. ASSUME NEW k, ReleasedAfter(t, Kind, k) PROVE ReleasedAfter(Append(t, c), Kind, k)
    BY <2>2, SameRelease, CP!ReleasedMonotone
  <2>3. ASSUME NEW id, NEW k, NEW n, CP!Won(t, id, k, n) PROVE CP!Won(Append(t, c), id, k, n)
    BY <2>3, CP!WonStable
  <2> QED
    BY <2>1, <2>2, <2>3
<1>7. \A i \in Issue : thread[i] \in Seq(CP!Comment)
  BY ClaimsSay
<1>8. ASSUME NEW i \in Issue
      PROVE  /\ \A k \in DOMAIN thread[i] : k \in DOMAIN thread'[i] /\ thread'[i][k] = thread[i][k]
             /\ \A k : ReleasedAfter(thread[i], Kind, k) => ReleasedAfter(thread'[i], Kind, k)
             /\ \A id, k, n : CP!Won(thread[i], id, k, n) => CP!Won(thread'[i], id, k, n)
  <2>1. CASE thread'[i] = thread[i]
    BY <2>1
  <2>2. ASSUME NEW c \in CP!Comment, thread'[i] = Append(thread[i], c)
        PROVE  /\ \A k \in DOMAIN thread[i] : k \in DOMAIN thread'[i] /\ thread'[i][k] = thread[i][k]
               /\ \A k : ReleasedAfter(thread[i], Kind, k) => ReleasedAfter(thread'[i], Kind, k)
               /\ \A id, k, n : CP!Won(thread[i], id, k, n) => CP!Won(thread'[i], id, k, n)
    BY <1>6, <1>7, <2>2
  <2> QED
    BY <1>4, <2>1, <2>2
<1> QED
  BY <1>5, <1>8

\* A lease that has been lost does not come back.
LEMMA LeaseFades ==
  ASSUME BuilderAssumption, Typed, CP!IInv, [Next]_vars,
         NEW r \in Run, run[r].pc \in WorkPhases, run'[r].target = run[r].target,
         run'[r].owner = run[r].owner, HoldsLease(r)'
  PROVE  HoldsLease(r)
<1> DEFINE i == run[r].target
           k == run[r].owner
<1>1. i \in Issue
  BY DEF Typed, TypeOK, LocalOK, Local
<1>2. k # 0 /\ ~ReleasedAfter(thread'[i], Kind, k) /\ thread'[i][k].until > clock'
  BY DEF HoldsLease
<1>3. k \in DOMAIN thread[i]
  BY <1>2, ClaimsSay
<1>4. ~ReleasedAfter(thread[i], Kind, k) /\ thread'[i][k] = thread[i][k]
  BY <1>1, <1>2, <1>3, ThreadsKept
<1>5. thread[i][k].until \in Int
  BY <1>1, <1>3, CP!KindOfThread DEF CP!IInv
<1>6. thread[i][k].until > clock
  BY <1>2, <1>4, <1>5, ThreadsKept
<1> QED
  BY <1>2, <1>4, <1>6 DEF HoldsLease

-----------------------------------------------------------------------------
(* One pull request per issue *)

Opening == {"commit", "push", "open"}

\* A run that is about to open a pull request has passed the guard.
LEMMA OpeningFrom ==
  ASSUME BuilderAssumption, Typed, [Next]_vars, NEW r \in Run, run'[r].pc \in Opening
  PROVE  /\ Guard(r) \/ run[r].pc \in Opening
         /\ run'[r].target = run[r].target /\ run'[r].owner = run[r].owner
<1>0. run \in [Run -> Local] /\ Sound(run[r]) /\ run[r].record \in Records
  BY DEF Typed, TypeOK, Sound, Local
<1>1. CASE Guard(r) \/ CommitStarts(r) \/ Push(r)
  <2>1. SameWork(run[r], run'[r])
    BY <1>0, <1>1, Fields
  <2>2. Guard(r) \/ run[r].pc \in Opening
    BY <1>1 DEF CommitStarts, Push, At, Opening
  <2> QED
    BY <2>1, <2>2 DEF SameWork
<1>2. CASE run'[r] = run[r]
  BY <1>2
<1>3. CASE ~(Guard(r) \/ CommitStarts(r) \/ Push(r)) /\ run'[r] # run[r]
  <2>1. /\ ~Begin(r) /\ ~ListIssues(r) /\ ~ListPRs(r)
        /\ \A i \in Issue : ~StandDown(r, i) /\ ~Stake(r, i)
    BY <1>0, Fields DEF Opening
  <2>2. /\ ~ReadBackWins(r) /\ ~ReadBackLoses(r) /\ ~Build(r) /\ ~Rejected(r) /\ ~Verified(r)
        /\ ~FileItem(r)
    BY <1>0, Fields DEF Opening
  <2>3. /\ \A phase \in {"readback", "release"} : ~Goes(r, phase)
        /\ ~Becomes(r, [run[r] EXCEPT !.pc = "recover", !.record = "error"])
        /\ \A phase \in Ended, record \in Records : ~Ends(r, phase, record)
    BY <1>0, Fields DEF Opening, Ended
  <2>4. ~OpenPR(r) /\ ~CloseSpec(r)
    BY <2>3 DEF OpenPR, CloseSpec, Applied, Records, Ended
  <2>5. ~Post(r) /\ ~Raises(r) /\ ~NoWork(r) /\ ~Crash(r)
    BY <1>0, <2>3 DEF Post, Raises, NoWork, Crash, Records, Ended
  <2> QED
    BY <1>3, <2>1, <2>2, <2>4, <2>5, StepOf DEF RunStep
<1> QED
  BY <1>1, <1>2, <1>3

\* The guard lets a run through only when its issue has no open pull request.
LEMMA GuardSees ==
  ASSUME BuilderAssumption, Typed, IsFiniteSet(prs), PRsFit, NEW r \in Run, Guard(r),
         run'[r].pc \in Opening
  PROVE  UNCHANGED prs /\ \A p \in OpenPRs : p.issue # run[r].target
<1>0. run \in [Run -> Local] /\ run[r] \in Local
  BY DEF Typed, TypeOK
<1>1. PICK page \in Pages(OpenPRs, PRPage) :
         run[r].target \in Linked(page) =>
           Becomes(r, [run[r] EXCEPT !.pc = "release", !.record = "no_work"])
  BY DEF Guard
<1>2. page = OpenPRs
  BY WholePage, FiniteListings DEF PRsFit, BuilderAssumption
<1>3. ~Becomes(r, [run[r] EXCEPT !.pc = "release", !.record = "no_work"])
  <2>1. [run[r] EXCEPT !.pc = "release", !.record = "no_work"].pc = "release"
    BY <1>0 DEF Local
  <2> QED
    BY <1>0, <2>1 DEF Becomes, Opening
<1> QED
  BY <1>1, <1>2, <1>3 DEF Guard, github, Linked

\* While a pull request that was opened under a lease is open, no other run past the guard
\* holds a lease on its issue.
Guarded ==
  \A p \in OpenPRs, r \in Run :
     p.leased /\ run[r].pc \in Opening /\ run[r].target = p.issue => ~HoldsLease(r)

\* Where an open pull request comes from.
LEMMA OpenPRFrom ==
  ASSUME BuilderAssumption, Typed, [Next]_vars, NEW p \in OpenPRs', p \notin OpenPRs
  PROVE  /\ UNCHANGED <<thread, clock>>
         /\ \E r \in Run : OpenPR(r) /\ p = PRof(r) /\ p.by = r /\ p.issue = run[r].target
                          /\ p.leased = HoldsLease(r) /\ run[r].pc = "open"
<1>1. ASSUME NEW q \in prs, Merge(q) \/ ClosePR(q) PROVE FALSE
  <2>1. /\ [q EXCEPT !.state = "merged"].state = "merged"
        /\ [q EXCEPT !.state = "closed"].state = "closed"
    <3>1. q \in PRType
      BY DEF Typed, TypeOK, PRType
    <3> QED
      BY <3>1 DEF PRType
  <2> QED
    BY <1>1, <2>1 DEF Merge, ClosePR, OpenPRs
<1>2. ~UNCHANGED prs
  BY DEF OpenPRs
<1>3. PICK r \in Run : Begin(r) \/ RunStep(r) \/ Raises(r) \/ Crash(r)
  BY <1>1, <1>2 DEF Next, vars, Tick, github
<1>4. OpenPR(r)
  BY <1>2, <1>3 DEF github, Begin, RunStep, Raises, Crash, ListIssues, ListPRs, NoWork, StandDown,
     Stake, ReadBackWins, ReadBackLoses, Build, Rejected, Verified, Guard, CommitStarts, Push,
     FileItem, CloseSpec, Post
<1>5. p = PRof(r)
  BY <1>4 DEF OpenPR, OpenPRs
<1> QED
  BY <1>4, <1>5 DEF OpenPR, At, PRof

\* Every step keeps the guard's promise and one pull request per issue.
LEMMA GuardedStep ==
  ASSUME BuilderAssumption, Typed, CP!IInv, IsFiniteSet(prs), PRsFit, Guarded, OnePRPerIssue, [Next]_vars
  PROVE  Guarded' /\ OnePRPerIssue'
<1>0. Opening \subseteq WorkPhases
  BY DEF Opening, WorkPhases
\* A run past the guard that holds a lease was there before, or has just seen no open PR.
<1>1. ASSUME NEW r \in Run, run'[r].pc \in Opening, HoldsLease(r)', NEW p \in OpenPRs,
             p.leased, p.issue = run'[r].target
      PROVE  FALSE
  <2>1. run'[r].target = run[r].target /\ run'[r].owner = run[r].owner
    BY <1>1, OpeningFrom
  <2>2. run[r].pc \in WorkPhases
    BY <1>0, <1>1, OpeningFrom DEF Guard, At, WorkPhases
  <2>3. HoldsLease(r)
    BY <1>1, <2>1, <2>2, LeaseFades
  <2>4. CASE run[r].pc \in Opening
    BY <1>1, <2>1, <2>3, <2>4 DEF Guarded
  <2>5. CASE Guard(r)
    BY <1>1, <2>1, <2>5, GuardSees
  <2> QED
    BY <1>1, <2>4, <2>5, OpeningFrom
<1>2. Guarded'
  <2> SUFFICES ASSUME NEW p \in OpenPRs', NEW r \in Run, p.leased, run'[r].pc \in Opening,
                      run'[r].target = p.issue, HoldsLease(r)'
               PROVE  FALSE
    BY DEF Guarded
  <2>1. CASE p \in OpenPRs
    BY <1>1, <2>1
  <2>2. CASE p \notin OpenPRs
    <3>1. PICK s \in Run : /\ OpenPR(s) /\ p.issue = run[s].target /\ p.leased = HoldsLease(s)
                           /\ run[s].pc = "open"
      BY <2>2, OpenPRFrom
    <3>2. HoldsLease(s)
      BY <3>1
    <3>3. run'[r].target = run[r].target /\ run'[r].owner = run[r].owner /\ run[r].pc \in WorkPhases
      BY <1>0, OpeningFrom DEF Guard, At, WorkPhases
    <3>4. HoldsLease(r)
      BY <3>3, LeaseFades
    <3>5. r = s
      BY <3>1, <3>2, <3>3, <3>4, ClaimsSay
    <3>6. run'[s].pc \notin Opening
      <4>1. Applied(s, "opened_pr") /\ run \in [Run -> Local]
        BY <3>1 DEF OpenPR, Typed, TypeOK
      <4>2. run'[s].pc \in {"done", "recover"}
        BY <4>1, Fields DEF Applied, Ended, Records
      <4> QED
        BY <4>2 DEF Opening
    <3> QED
      BY <3>5, <3>6
  <2> QED
    BY <2>1, <2>2
<1>3. OnePRPerIssue'
  <2> SUFFICES ASSUME NEW p \in OpenPRs', NEW q \in OpenPRs', p.issue = q.issue, p.leased, q.leased
               PROVE  p = q
    BY DEF OnePRPerIssue
  <2>1. ASSUME NEW a \in OpenPRs, NEW b \in OpenPRs', b \notin OpenPRs,
               a.issue = b.issue, a.leased, b.leased
        PROVE  FALSE
    <3>1. PICK s \in Run : /\ b.issue = run[s].target /\ b.leased = HoldsLease(s) /\ run[s].pc = "open"
      BY <2>1, OpenPRFrom
    <3> QED
      BY <2>1, <3>1 DEF Guarded, Opening
  <2>2. ASSUME p \notin OpenPRs, q \notin OpenPRs PROVE p = q
    <3>1. PICK r \in Run : p = PRof(r) /\ p.leased = HoldsLease(r) /\ p.issue = run[r].target
      BY <2>2, OpenPRFrom
    <3>2. PICK s \in Run : q = PRof(s) /\ q.leased = HoldsLease(s) /\ q.issue = run[s].target
      BY <2>2, OpenPRFrom
    <3>3. r = s
      BY <3>1, <3>2, ClaimsSay
    <3> QED
      BY <3>1, <3>2, <3>3
  <2>3. CASE p \in OpenPRs /\ q \in OpenPRs
    BY <2>3 DEF OnePRPerIssue
  <2> QED
    BY <2>1, <2>2, <2>3
<1> QED
  BY <1>2, <1>3

\* No run pushes onto the head of an open pull request of its own issue, when both held
\* their claims at that moment.
LEMMA PushStep ==
  ASSUME Guarded
  PROVE  \A r \in Run : \A p \in OpenPRs :
           /\ At(r, "push") /\ run'[r].pc = "open"
           /\ p.issue = run[r].target /\ p.branch = run[r].branch
           => ~(p.leased /\ HoldsLease(r))
BY DEF Guarded, Opening, At

\* The inductive invariant behind the pull requests.
LEMMA GuardInvariant == Spec /\ []PRsFit => [](Guarded /\ OnePRPerIssue)
<1> USE BuilderAssumption
<1> DEFINE A == Typed /\ CP!IInv
           B == IsFiniteSet(prs) /\ Guarded /\ OnePRPerIssue
<1>1. Init => B
  <2> SUFFICES ASSUME Init PROVE B
    OBVIOUS
  <2>1. prs = {} /\ OpenPRs = {}
    BY DEF Init, OpenPRs
  <2> QED
    BY <2>1, FS_EmptySet DEF Guarded, OnePRPerIssue
<1>2. A /\ B /\ PRsFit /\ [Next]_vars => B'
  BY GuardedStep, FiniteStep
<1>3. Spec => []A
  BY ClaimsInvariant
<1>4. B => Guarded /\ OnePRPerIssue
  OBVIOUS
<1> HIDE DEF A, B
<1> QED
  BY <1>1, <1>2, <1>3, <1>4, PTL DEF Spec

\* Of two open pull requests for one issue, one was opened by a run that had lost its claim,
\* as long as the open pull requests fit on one page.
THEOREM OnePRForAnIssue == Spec /\ []PRsFit => []OnePRPerIssue
BY GuardInvariant, PTL

\* No run that holds its claim pushes onto the head of an open pull request of its own issue
\* that was opened under a claim, as long as the open pull requests fit on one page.
THEOREM PushesSpareLeasedPRs == Spec /\ []PRsFit => NoPushOntoLeasedPR
<1> DEFINE A == \A r \in Run : \A p \in OpenPRs :
                   /\ At(r, "push") /\ run'[r].pc = "open"
                   /\ p.issue = run[r].target /\ p.branch = run[r].branch
                   => ~(p.leased /\ HoldsLease(r))
<1>1. Guarded => A
  BY PushStep
<1>2. Spec /\ []PRsFit => []Guarded
  BY GuardInvariant, PTL
<1>3. Spec /\ []PRsFit => [][A]_vars
  BY <1>1, <1>2, PTL
<1> QED
  BY <1>3 DEF NoPushOntoLeasedPR

-----------------------------------------------------------------------------
(* One outcome per issue *)

\* Run r has won a claim on issue i, and whoever else may still come to work on i read the
\* clock before that claim expires.  An open pull request shows when the pull requests are
\* listed; a spec that was decomposed is no longer listed as open.
Backed(i, r, decomposed) ==
  \E k \in DOMAIN thread[i], n \in Nat :
    /\ n <= clock /\ k \in Nat
    /\ CP!Won(thread[i], r, k, n)
    /\ \A s \in Run \ {r} :
         \/ InHand(s, i)
         \/ decomposed /\ run[s].pc = "prs" /\ i \in run[s].listed
         => run[s].now < thread[i][k].until

PRBacked(p) == p.leased => Backed(p.issue, p.by, FALSE)
FilingBacked(f) == f.item = 0 => f.spec \notin open /\ (f.leased => Backed(f.spec, f.by, TRUE))

AllBacked == (\A p \in OpenPRs : PRBacked(p)) /\ \A f \in filed : FilingBacked(f)

\* A run with a leased outcome stays ahead of whoever comes to work on its issue.
LEMMA BackedStays ==
  ASSUME BuilderAssumption, Typed, CP!IInv, IsFiniteSet(prs), PRsFit, [Next]_vars,
         NEW i \in Issue, NEW r \in Run, NEW decomposed \in BOOLEAN, Backed(i, r, decomposed),
         decomposed => i \notin open,
         ~decomposed => \E p \in OpenPRs : p.issue = i
  PROVE  Backed(i, r, decomposed)'
<1>0. run \in [Run -> Local]
  BY DEF Typed, TypeOK
<1>1. PICK k \in DOMAIN thread[i], n \in Nat :
        /\ n <= clock /\ k \in Nat
        /\ CP!Won(thread[i], r, k, n)
        /\ \A s \in Run \ {r} :
             \/ InHand(s, i)
             \/ decomposed /\ run[s].pc = "prs" /\ i \in run[s].listed
             => run[s].now < thread[i][k].until
  BY DEF Backed
<1>2. /\ k \in DOMAIN thread'[i] /\ thread'[i][k] = thread[i][k]
      /\ n <= clock'
      /\ CP!Won(thread'[i], r, k, n)
  BY <1>1, ThreadsKept
<1>3. ASSUME NEW s \in Run \ {r}, InHand(s, i)' PROVE run'[s].now < thread[i][k].until
  <2>1. CASE InHand(s, i) /\ run'[s].now = run[s].now
    BY <1>1, <2>1
  <2>2. CASE ListPRs(s) /\ i \in run'[s].todo
    <3>1. PICK page \in Pages(OpenPRs, PRPage) :
            Becomes(s, [run[s] EXCEPT !.pc = "scan",
                                      !.todo = {j \in run[s].listed \ Linked(page) :
                                                     Blocking(j, run[s].listed) = {}}])
      BY <2>2 DEF ListPRs
    <3>2. page = OpenPRs
      BY WholePage, FiniteListings DEF PRsFit, BuilderAssumption
    <3>3. /\ run'[s].todo = {j \in run[s].listed \ Linked(page) : Blocking(j, run[s].listed) = {}}
          /\ run'[s].now = run[s].now
      BY <1>0, <3>1 DEF Becomes, Local
    <3>4. i \in run[s].listed /\ i \notin Linked(OpenPRs) /\ run[s].pc = "prs"
      BY <2>2, <3>2, <3>3 DEF ListPRs, At
    <3>5. decomposed
      BY <3>4 DEF Linked
    <3> QED
      BY <1>1, <3>3, <3>4, <3>5
  <2> QED
    BY <1>3, <2>1, <2>2, InHandFrom
<1>4. ASSUME NEW s \in Run \ {r}, decomposed, run'[s].pc = "prs", i \in run'[s].listed
      PROVE  run'[s].now < thread[i][k].until
  <2>1. CASE ListIssues(s)
    <3>1. PICK page : Becomes(s, [run[s] EXCEPT !.pc = "prs", !.listed = page \cap open])
      BY <2>1 DEF ListIssues
    <3>2. run'[s].listed = page \cap open
      BY <1>0, <3>1 DEF Becomes, Local
    <3> QED
      BY <1>4, <3>2
  <2>2. CASE run'[s] = run[s]
    BY <1>1, <1>4, <2>2
  <2> QED
    BY <1>4, <2>1, <2>2, ListedFrom
<1>5. \A s \in Run \ {r} :
        \/ InHand(s, i)'
        \/ decomposed /\ run'[s].pc = "prs" /\ i \in run'[s].listed
        => run'[s].now < thread'[i][k].until
  BY <1>2, <1>3, <1>4
<1> QED
  BY <1>1, <1>2, <1>5 DEF Backed

\* An outcome that comes about under a lease is backed by the claim of its run.
LEMMA BackedStarts ==
  ASSUME BuilderAssumption, Typed, CP!IInv, [Next]_vars, NEW r \in Run, OpenPR(r) \/ CloseSpec(r),
         HoldsLease(r), NEW decomposed, NEW i, i = run[r].target
  PROVE  Backed(i, r, decomposed)'
<1> PICK k : k = run[r].owner
  OBVIOUS
<1>1. /\ run[r].pc \in WorkPhases /\ k # 0 /\ thread[i][k].until > clock
      /\ i \in Issue /\ k \in Nat /\ run[r].now \in Nat /\ UNCHANGED <<thread, clock>>
      /\ \A s \in Run : run[s].now \in Nat
  BY DEF HoldsLease, Typed, TypeOK, LocalOK, Local, OpenPR, CloseSpec
<1>2. /\ CP!Won(thread[i], r, k, run[r].now) /\ k \in DOMAIN thread[i]
      /\ \A s \in Run : run[s].now <= clock
  BY <1>1, ClaimsSay
<1>3. ASSUME NEW s \in Run \ {r} PROVE run'[s] = run[s]
  <2>1. PICK l : Becomes(r, l)
    BY LocalStep DEF RunStep
  <2> QED
    BY <1>3, <2>1 DEF Becomes, Typed, TypeOK
<1>4. thread[i][k].until \in Int /\ clock \in Nat
  BY <1>1, <1>2, CP!KindOfThread DEF CP!IInv, Typed, TypeOK
<1>5. \A s \in Run \ {r} : run'[s].now < thread'[i][k].until
  BY <1>1, <1>2, <1>3, <1>4
<1>6. /\ k \in DOMAIN thread'[i] /\ run[r].now <= clock'
      /\ CP!Won(thread'[i], r, k, run[r].now)
  BY <1>1, <1>2
<1> QED
  BY <1>1, <1>5, <1>6 DEF Backed

\* Where the closing of a decomposed spec comes from.
LEMMA FilingFrom ==
  ASSUME BuilderAssumption, Typed, [Next]_vars, NEW f \in filed', f \notin filed, f.item = 0
  PROVE  \E r \in Run : /\ CloseSpec(r) /\ f.by = r /\ f.spec = run[r].target /\ f.spec \notin open'
                       /\ f.leased = HoldsLease(r)
<1>1. ~UNCHANGED filed
  OBVIOUS
<1>2. PICK r \in Run : Begin(r) \/ RunStep(r) \/ Raises(r) \/ Crash(r)
  BY <1>1 DEF Next, vars, Tick, github, Merge, ClosePR
<1>3. FileItem(r) \/ CloseSpec(r)
  BY <1>1, <1>2 DEF github, Begin, RunStep, Raises, Crash, ListIssues, ListPRs, NoWork, StandDown,
     Stake, ReadBackWins, ReadBackLoses, Build, Rejected, Verified, Guard, CommitStarts, Push,
     OpenPR, Post
<1>4. run[r].item \in Nat
  BY DEF Typed, TypeOK, Local
<1>5. \A k : FiledBy(r, k) = [spec |-> run[r].target, by |-> r, item |-> k, leased |-> HoldsLease(r)]
  BY DEF FiledBy
<1>6. ~FileItem(r)
  <2>1. FileItem(r) => f = FiledBy(r, run[r].item + 1)
    BY DEF FileItem
  <2>2. f # FiledBy(r, run[r].item + 1)
    BY <1>4, <1>5
  <2> QED
    BY <2>1, <2>2
<1>7. CloseSpec(r) /\ f = FiledBy(r, 0)
  BY <1>3, <1>6 DEF CloseSpec
<1> QED
  BY <1>5, <1>7 DEF CloseSpec

\* Every step keeps every outcome backed by a claim its run has won.
LEMMA AllBackedStep ==
  ASSUME BuilderAssumption, Typed, Typed', CP!IInv, IsFiniteSet(prs), PRsFit, AllBacked, [Next]_vars
  PROVE  AllBacked'
<1>1. ASSUME NEW p \in OpenPRs' PROVE PRBacked(p)'
  <2>1. CASE p \in OpenPRs
    <3>1. p.issue \in Issue /\ p.by \in Run
      BY <2>1 DEF Typed, TypeOK, OpenPRs
    <3>2. ASSUME p.leased PROVE Backed(p.issue, p.by, FALSE)'
      <4>1. Backed(p.issue, p.by, FALSE)
        BY <2>1, <3>2 DEF AllBacked, PRBacked
      <4>2. \E q \in OpenPRs : q.issue = p.issue
        BY <2>1
      <4> QED
        BY <3>1, <4>1, <4>2, BackedStays
    <3> QED
      BY <3>2 DEF PRBacked
  <2>2. CASE p \notin OpenPRs
    <3>1. PICK r \in Run : /\ OpenPR(r) /\ p.by = r /\ p.issue = run[r].target
                           /\ p.leased = HoldsLease(r)
      BY <2>2, OpenPRFrom
    <3>2. p.leased => Backed(p.issue, p.by, FALSE)'
      BY <3>1, BackedStarts
    <3> QED
      BY <3>2 DEF PRBacked
  <2> QED
    BY <2>1, <2>2
<1>2. ASSUME NEW f \in filed', f.item = 0
      PROVE  f.spec \notin open' /\ (f.leased => Backed(f.spec, f.by, TRUE)')
  <2>1. CASE f \in filed
    <3>1. f.spec \in Issue /\ f.by \in Run
      BY <2>1 DEF Typed, TypeOK
    <3>2. f.spec \notin open /\ (f.leased => Backed(f.spec, f.by, TRUE))
      BY <1>2, <2>1 DEF AllBacked, FilingBacked
    <3>3. ASSUME f.leased PROVE Backed(f.spec, f.by, TRUE)'
      BY <3>1, <3>2, <3>3, BackedStays
    <3> QED
      BY <3>2, <3>3, OpenShrinks
  <2>2. CASE f \notin filed
    <3>1. PICK r \in Run : /\ CloseSpec(r) /\ f.by = r /\ f.spec = run[r].target /\ f.spec \notin open'
                           /\ f.leased = HoldsLease(r)
      BY <1>2, <2>2, FilingFrom
    <3>2. f.leased => Backed(f.spec, f.by, TRUE)'
      BY <3>1, BackedStarts
    <3> QED
      BY <3>1, <3>2
  <2> QED
    BY <2>1, <2>2
<1>3. \A f \in filed' : FilingBacked(f)'
  BY <1>2 DEF FilingBacked
<1> QED
  BY <1>1, <1>3 DEF AllBacked

\* Of two outcomes under a lease, one run's claim has been revoked since.
OneRevoked ==
  \A i \in Issue : \A o, p \in Outcomes(i) :
     o.by # p.by /\ o.leased /\ p.leased => ClaimRevoked(o.by, i) \/ ClaimRevoked(p.by, i)

\* An outcome that was reached under a lease is backed by a claim.
LEMMA OutcomeBacked ==
  ASSUME AllBacked, NEW i, NEW o \in Outcomes(i), o.leased
  PROVE  \E decomposed \in BOOLEAN : Backed(i, o.by, decomposed)
<1>1. ASSUME NEW p \in OpenPRs, p.issue = i, o = [by |-> p.by, leased |-> p.leased, pr |-> TRUE]
      PROVE  \E decomposed \in BOOLEAN : Backed(i, o.by, decomposed)
  <2>1. p.by = o.by /\ p.leased
    BY <1>1
  <2> QED
    BY <1>1, <2>1 DEF AllBacked, PRBacked
<1>2. ASSUME NEW f \in filed, f.spec = i, f.item = 0,
             o = [by |-> f.by, leased |-> f.leased, pr |-> FALSE]
      PROVE  \E decomposed \in BOOLEAN : Backed(i, o.by, decomposed)
  <2>1. f.by = o.by /\ f.leased
    BY <1>2
  <2> QED
    BY <1>2, <2>1 DEF AllBacked, FilingBacked
<1> QED
  BY <1>1, <1>2 DEF Outcomes

\* A new outcome comes from the run that opens the pull request or closes the spec.
LEMMA OutcomeFrom ==
  ASSUME BuilderAssumption, Typed, [Next]_vars, NEW i \in Issue, NEW o \in Outcomes(i)', o \notin Outcomes(i)
  PROVE  \E r \in Run : /\ OpenPR(r) \/ CloseSpec(r)
                       /\ o.by = r /\ run[r].target = i /\ o.leased = HoldsLease(r)
<1>1. ASSUME NEW p \in OpenPRs', p.issue = i, o = [by |-> p.by, leased |-> p.leased, pr |-> TRUE]
      PROVE  \E r \in Run : /\ OpenPR(r) \/ CloseSpec(r)
                           /\ o.by = r /\ run[r].target = i /\ o.leased = HoldsLease(r)
  <2>1. p \notin OpenPRs
    BY <1>1 DEF Outcomes
  <2> QED
    BY <1>1, <2>1, OpenPRFrom
<1>2. ASSUME NEW f \in filed', f.spec = i, f.item = 0, o = [by |-> f.by, leased |-> f.leased, pr |-> FALSE]
      PROVE  \E r \in Run : /\ OpenPR(r) \/ CloseSpec(r)
                           /\ o.by = r /\ run[r].target = i /\ o.leased = HoldsLease(r)
  <2>1. f \notin filed
    BY <1>2 DEF Outcomes
  <2> QED
    BY <1>2, <2>1, FilingFrom
<1> QED
  BY <1>1, <1>2 DEF Outcomes

\* Every step keeps it so that of two such outcomes one run's claim has been revoked.
LEMMA OneRevokedStep ==
  ASSUME BuilderAssumption, Typed, CP!IInv, AllBacked, OneRevoked, [Next]_vars
  PROVE  OneRevoked'
<1>1. ASSUME NEW i \in Issue, NEW r, ClaimRevoked(r, i) PROVE ClaimRevoked(r, i)'
  <2>1. PICK k \in DOMAIN thread[i] : /\ thread[i][k].op = "claim" /\ thread[i][k].run = r
                                      /\ ReleasedAfter(thread[i], Kind, k)
    BY <1>1 DEF ClaimRevoked
  <2>2. k \in DOMAIN thread'[i] /\ thread'[i][k] = thread[i][k] /\ ReleasedAfter(thread'[i], Kind, k)
    BY <2>1, ThreadsKept
  <2> QED
    BY <2>1, <2>2 DEF ClaimRevoked
\* A run that gets its outcome under a lease knew nothing of an earlier one: somebody's
\* release had revoked the claim behind it.
<1>2. ASSUME NEW i \in Issue, NEW o \in Outcomes(i), o.leased, NEW r \in Run, r # o.by,
             OpenPR(r) \/ CloseSpec(r), run[r].target = i, HoldsLease(r)
      PROVE  ClaimRevoked(o.by, i)
  <2>1. PICK k \in DOMAIN thread[i], n \in Nat :
          /\ n <= clock /\ k \in Nat
          /\ CP!Won(thread[i], o.by, k, n)
          /\ \A s \in Run \ {o.by} : InHand(s, i) => run[s].now < thread[i][k].until
    BY <1>2, OutcomeBacked DEF Backed
  <2> DEFINE j == run[r].owner
  <2>2. /\ run[r].pc \in WorkPhases /\ j # 0 /\ j \in Nat /\ thread[i][j].until > clock
        /\ ~ReleasedAfter(thread[i], Kind, j) /\ run[r].now \in Nat /\ clock \in Nat
    BY <1>2 DEF HoldsLease, Typed, TypeOK, Local
  <2>3. InHand(r, i)
    BY <1>2, <2>2 DEF InHand, Held
  <2>4. run[r].now < thread[i][k].until
    BY <1>2, <2>1, <2>3
  <2>5. CP!Won(thread[i], r, j, run[r].now) /\ j \in DOMAIN thread[i]
    BY <1>2, <2>2, ClaimsSay
  <2>6. /\ \A x \in DOMAIN thread[i] : thread[i][x].kind = Kind
        /\ thread[i][k].until \in Int /\ thread[i][j].until \in Int
    BY <2>1, <2>5, CP!KindOfThread DEF CP!IInv
  <2>7. ~(thread[i][k].until <= run[r].now) /\ ~(thread[i][j].until <= n)
    BY <2>1, <2>2, <2>4, <2>6
  <2>8. CP!ReleasedAfter(thread[i], Kind, k) \/ CP!ReleasedAfter(thread[i], Kind, j)
    <3> HIDE DEF j
    <3> QED
      BY <1>2, <2>1, <2>2, <2>5, <2>6, <2>7, CP!EarlierExpired
  <2>9. ReleasedAfter(thread[i], Kind, k)
    BY <2>2, <2>8, SameRelease
  <2>10. thread[i][k].op = "claim" /\ thread[i][k].run = o.by
    BY <2>1 DEF CP!Won
  <2> QED
    BY <2>9, <2>10 DEF ClaimRevoked
<1>3. ASSUME NEW i \in Issue, NEW o \in Outcomes(i)', NEW p \in Outcomes(i)',
             o.by # p.by, o.leased, p.leased
      PROVE  ClaimRevoked(o.by, i)' \/ ClaimRevoked(p.by, i)'
  <2>1. CASE o \in Outcomes(i) /\ p \in Outcomes(i)
    BY <1>1, <1>3, <2>1 DEF OneRevoked
  <2>2. CASE o \in Outcomes(i) /\ p \notin Outcomes(i)
    <3>1. ClaimRevoked(o.by, i)
      BY <1>2, <1>3, <2>2, OutcomeFrom
    <3> QED
      BY <1>1, <3>1
  <2>3. CASE o \notin Outcomes(i) /\ p \in Outcomes(i)
    <3>1. ClaimRevoked(p.by, i)
      BY <1>2, <1>3, <2>3, OutcomeFrom
    <3> QED
      BY <1>1, <3>1
  <2>4. CASE o \notin Outcomes(i) /\ p \notin Outcomes(i)
    <3>1. PICK r \in Run : o.by = r /\ run[r].target = i /\ o.leased = HoldsLease(r)
      BY <2>4, OutcomeFrom
    <3>2. PICK s \in Run : p.by = s /\ run[s].target = i /\ p.leased = HoldsLease(s)
      BY <2>4, OutcomeFrom
    <3> QED
      BY <1>3, <3>1, <3>2, ClaimsSay
  <2> QED
    BY <2>1, <2>2, <2>3, <2>4
<1> QED
  BY <1>3 DEF OneRevoked

\* A second outcome of an issue, from a run that holds its claim, is never a second open pull
\* request, and comes about only when a release has revoked one run's claim, as long as the
\* open pull requests fit on one page.
THEOREM OneOutcomeForAnIssue == Spec /\ []PRsFit => []OneOutcomePerIssue
<1> USE BuilderAssumption
<1> DEFINE A == Typed /\ CP!IInv
           B == IsFiniteSet(prs) /\ AllBacked /\ OneRevoked
<1>1. Init => B
  <2> SUFFICES ASSUME Init PROVE B
    OBVIOUS
  <2>1. prs = {} /\ filed = {} /\ OpenPRs = {}
    BY DEF Init, OpenPRs
  <2>2. \A i : Outcomes(i) = {}
    BY <2>1 DEF Outcomes
  <2> QED
    BY <2>1, <2>2, FS_EmptySet DEF AllBacked, OneRevoked
<1>2. A /\ A' /\ B /\ PRsFit /\ [Next]_vars => B'
  BY AllBackedStep, OneRevokedStep, FiniteStep
<1>3. Spec => []A
  BY ClaimsInvariant
<1>4. Spec /\ []PRsFit => [](OnePRPerIssue)
  BY OnePRForAnIssue
<1>5. B /\ OnePRPerIssue => OneOutcomePerIssue
  <2> SUFFICES ASSUME OneRevoked, OnePRPerIssue, NEW i \in Issue, NEW o \in Outcomes(i),
                      NEW p \in Outcomes(i), o.by # p.by, o.leased, p.leased
               PROVE  /\ ~(o.pr /\ p.pr)
                      /\ ClaimRevoked(o.by, i) \/ ClaimRevoked(p.by, i)
    BY DEF OneOutcomePerIssue
  <2>1. ASSUME NEW q \in Outcomes(i), q.pr
        PROVE  \E x \in OpenPRs : x.issue = i /\ x.by = q.by /\ x.leased = q.leased
    BY <2>1 DEF Outcomes
  <2>2. ~(o.pr /\ p.pr)
    BY <2>1 DEF OnePRPerIssue
  <2> QED
    BY <2>2 DEF OneRevoked
<1> HIDE DEF A, B
<1> QED
  BY <1>1, <1>2, <1>3, <1>4, <1>5, PTL DEF Spec
=============================================================================
