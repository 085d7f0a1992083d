---------------------------- MODULE ReviewerProofs --------------------------
(***************************************************************************)
(* Theorems of Reviewer for every set of runs and pull requests, every     *)
(* page size, TTL and number of attempts.                                  *)
(*                                                                         *)
(* First its types, and what follows from what a phase knows of the local  *)
(* variables: verified pushes, true records.                               *)
(*                                                                         *)
(* Then the refinement: each step of the reviewer is a step of             *)
(* ClaimProtocol or changes nothing there.  The theorems of the protocol   *)
(* hold of the reviewer's claims, and give what the reviewer promises      *)
(* about its fixes and its approvals.                                      *)
(***************************************************************************)
EXTENDS Reviewer, SequenceTheorems, FiniteSetTheorems, WellFoundedInduction, TLAPS

-----------------------------------------------------------------------------
(* Type correctness *)

Early == {"idle", "list", "scan", "try", "claim", "readback"}
Pushing == {"commit", "push"}

\* What the local variables of a run say beyond their types: there is nothing to do before
\* the list is read and no target while it is gone through, a pull request that is tried has not been crossed off, attempts are
\* counted within their limit, fixes that are pushed have passed in their last attempt, and
\* the record says why a run is about to comment or to release.
Consistent(l) ==
  /\ l.pc \in {"idle", "list"} => l.todo = {}
  /\ l.pc \in {"idle", "list", "scan"} => l.target = None
  /\ l.pc = "try" => l.target \in l.todo
  /\ l.pc \in Early => l.attempt = 0
  /\ l.pc = "review" => l.attempt < MaxTries
  /\ l.pc = "verify" => l.attempt > 0
  /\ l.pc \in Pushing => l.passed = l.attempt /\ l.attempt > 0
  /\ l.pc \in {"approve", "lgtm"} => l.record = "no_work"
  /\ l.pc = "note" => l.record \in {"error", "pushed_fixes"}
  /\ l.pc = "release" => l.record \in {"error", "no_work", "pushed_fixes"}
  /\ l.pc = "recover" => l.record = "error"

Sound(l) == LocalOK(l) /\ Consistent(l)

\* A run has seen no more of the head than there is: heads only grow.
SeenBounded(r) ==
  run[r].pc \in {"verify"} \cup Pushing => run[r].seen <= Len(head[run[r].target])

Typed == TypeOK /\ \A r \in Run : Consistent(run[r]) /\ SeenBounded(r)

\* A page of a thread is a prefix of it.
LEMMA PageDomain ==
  ASSUME ReviewerAssumption, NEW s \in Seq(Comment)
  PROVE  /\ DOMAIN FirstPage(s, Page) \subseteq DOMAIN s
         /\ \A i \in DOMAIN FirstPage(s, Page) : i \in Nat \ {0} /\ FirstPage(s, Page)[i] = s[i]
         /\ Len(FirstPage(s, Page)) \in Nat
         /\ DOMAIN FirstPage(s, Page) = 1..(IF Len(s) < Page THEN Len(s) ELSE Page)
<1> DEFINE n == IF Len(s) < Page THEN Len(s) ELSE Page
<1>1. Len(s) \in Nat /\ DOMAIN s = 1..Len(s)
  BY LenProperties
<1>2. n \in Nat /\ n <= Len(s)
  BY <1>1 DEF ReviewerAssumption
<1>3. \A i \in 1..n : s[i] \in Comment
  BY <1>1, <1>2, ElementOfSeq
<1>4. /\ SubSeq(s, 1, n) \in Seq(Comment)
      /\ Len(SubSeq(s, 1, n)) = n
      /\ \A i \in 1..n : SubSeq(s, 1, n)[i] = s[i]
  <2> HIDE DEF n
  <2>1. /\ SubSeq(s, 1, n) \in Seq(Comment)
        /\ Len(SubSeq(s, 1, n)) = IF 1 <= n THEN n - 1 + 1 ELSE 0
        /\ \A i \in 1..(n - 1 + 1) : SubSeq(s, 1, n)[i] = s[1 + i - 1]
    BY <1>2, <1>3, SubSeqProperties
  <2> QED
    BY <1>2, <2>1
<1>5. DOMAIN SubSeq(s, 1, n) = 1..n
  <2> HIDE DEF n
  <2> QED
    BY <1>4, LenProperties
<1>6. FirstPage(s, Page) = SubSeq(s, 1, n)
  BY DEF FirstPage
<1> HIDE DEF n
<1>7. /\ DOMAIN FirstPage(s, Page) \subseteq DOMAIN s
      /\ \A i \in DOMAIN FirstPage(s, Page) : i \in Nat \ {0} /\ FirstPage(s, Page)[i] = s[i]
      /\ Len(FirstPage(s, Page)) \in Nat
  BY <1>1, <1>2, <1>4, <1>5, <1>6
<1> QED
  BY <1>5, <1>6, <1>7 DEF n

\* The owner of a pull request is nobody or the run of one of its comments.
LEMMA OwnerType ==
  ASSUME ReviewerAssumption, TypeOK, NEW r \in Run, NEW p \in PR
  PROVE  Owner(r, p) \in Nat /\ (Owner(r, p) # 0 => Owner(r, p) \in DOMAIN thread[p])
<1>1. thread[p] \in Seq(Comment)
  BY DEF TypeOK
<1>2. Owner(r, p) = 0 \/ Owner(r, p) \in DOMAIN FirstPage(thread[p], Page)
  BY DEF Owner, OwningClaim, Seen
<1> QED
  BY <1>1, <1>2, PageDomain

\* The record of a task that has returned.
LEMMA EndedLocal ==
  ASSUME ReviewerAssumption, NEW phase \in Ended, NEW record \in Records
  PROVE  LET l == [Fresh EXCEPT !.pc = phase, !.record = record]
         IN  l \in Local /\ l.pc = phase /\ l.record = record /\ l.todo = {} /\ l.attempt = 0
<1>1. /\ Fresh \in Local
      /\ Fresh.todo = {} /\ Fresh.attempt = 0
      /\ Fresh.now = 0 /\ Fresh.owner = 0 /\ Fresh.target = None
  BY DEF Fresh, Local, Phases, Records, ReviewerAssumption
<1>2. phase \in Phases
  BY DEF Phases
<1> QED
  BY <1>1, <1>2 DEF Local

\* What each step makes of the local variables keeps them well typed and its counts in bounds.
LEMMA SoundLocals ==
  ASSUME ReviewerAssumption, NEW l, Sound(l)
  PROVE  /\ l.pc = "idle" => \A t \in 0..MaxClock : Sound([l EXCEPT !.pc = "list", !.now = t])
         /\ l.pc = "list" => \A ps \in SUBSET PR : Sound([l EXCEPT !.pc = "scan", !.todo = ps])
         /\ l.pc = "scan" => \A p \in l.todo :
              /\ Sound([l EXCEPT !.todo = @ \ {p}])
              /\ Sound([l EXCEPT !.pc = "try", !.target = p])
         /\ l.pc = "try" => \A p \in PR :
              /\ l.target \in PR
              /\ Sound([l EXCEPT !.pc = "scan", !.todo = @ \ {p}, !.target = None])
              /\ Sound([l EXCEPT !.pc = "claim", !.todo = @ \ {p}])
         /\ l.pc = "readback" =>
              /\ l.target \in PR
              /\ \A k \in Nat : Sound([l EXCEPT !.pc = "review", !.owner = k])
              /\ Sound([l EXCEPT !.pc = "scan", !.target = None])
         /\ l.pc = "review" => l.target \in PR /\ \A n, m \in Nat :
              LET looked == [l EXCEPT !.attempt = @ + 1, !.seen = n, !.read = m]
              IN  /\ Sound([looked EXCEPT !.pc = "release", !.record = "error"])
                  /\ Sound([looked EXCEPT !.pc = "approve", !.record = "no_work"])
                  /\ Sound([looked EXCEPT !.pc = "verify", !.record = "none"])
         /\ l.pc = "verify" =>
              /\ l.attempt < MaxTries => Sound([l EXCEPT !.pc = "review"])
              /\ Sound([l EXCEPT !.pc = "note", !.record = "error"])
              /\ Sound([l EXCEPT !.pc = "commit", !.passed = l.attempt])
         /\ l.pc = "approve" =>
              Sound([l EXCEPT !.pc = "lgtm"]) /\ Sound([l EXCEPT !.pc = "release"])
         /\ l.pc = "commit" =>
              \A n \in Nat : l.target \in PR /\ Sound([l EXCEPT !.pc = "push", !.parent = n])
         /\ l.pc = "push" => l.target \in PR /\ Sound([l EXCEPT !.pc = "note", !.record = "pushed_fixes"])
         /\ l.pc = "claim" => Sound([l EXCEPT !.pc = "readback"])
         /\ l.pc \in {"lgtm", "note"} => Sound([l EXCEPT !.pc = "release"])
         /\ l.pc \in WorkPhases \cup {"lgtm", "note", "release"} =>
              Sound([l EXCEPT !.pc = "recover", !.record = "error"])
         /\ \A phase \in Ended, record \in Records :
              Sound([Fresh EXCEPT !.pc = phase, !.record = record])
<1>a. /\ "list" \in Phases /\ "scan" \in Phases /\ "try" \in Phases /\ "claim" \in Phases
      /\ "readback" \in Phases /\ "review" \in Phases /\ "verify" \in Phases
      /\ "approve" \in Phases /\ "commit" \in Phases /\ "push" \in Phases
      /\ "lgtm" \in Phases /\ "note" \in Phases /\ "release" \in Phases /\ "recover" \in Phases
  BY DEF Phases, WorkPhases, Posting
<1>b. /\ "none" \in Records /\ "no_work" \in Records /\ "error" \in Records
      /\ "pushed_fixes" \in Records
  BY DEF Records
<1>c. ASSUME NEW phase \in Ended, NEW record \in Records
      PROVE  Sound([Fresh EXCEPT !.pc = phase, !.record = record])
  BY EndedLocal DEF Sound, LocalOK, Consistent, WorkPhases, Posting, Ended, Early, Pushing
<1>d. /\ MaxTries \in Nat \ {0}
      /\ l.attempt \in 0..MaxTries /\ l.pc \in Early => l.attempt < MaxTries
      /\ l.attempt < MaxTries => l.attempt + 1 \in 0..MaxTries /\ l.attempt + 1 > 0
  BY DEF ReviewerAssumption, Sound, LocalOK, Consistent, Local
<1> USE <1>a, <1>b DEF Sound, LocalOK, Consistent, Local, WorkPhases, Posting, Early, Pushing
<1>1. ASSUME l.pc = "idle", NEW t \in 0..MaxClock PROVE Sound([l EXCEPT !.pc = "list", !.now = t])
  BY <1>1
<1>2. ASSUME l.pc = "list", NEW ps \in SUBSET PR PROVE Sound([l EXCEPT !.pc = "scan", !.todo = ps])
  BY <1>2
<1>3. ASSUME l.pc = "scan", NEW p \in l.todo
      PROVE  /\ Sound([l EXCEPT !.todo = @ \ {p}])
             /\ Sound([l EXCEPT !.pc = "try", !.target = p])
  BY <1>3
<1>4. ASSUME l.pc = "try", NEW p \in PR
      PROVE  /\ l.target \in PR
             /\ Sound([l EXCEPT !.pc = "scan", !.todo = @ \ {p}, !.target = None])
             /\ Sound([l EXCEPT !.pc = "claim", !.todo = @ \ {p}])
  BY <1>4
<1>5. ASSUME l.pc = "readback"
      PROVE  l.target \in PR /\ Sound([l EXCEPT !.pc = "scan", !.target = None])
  BY <1>5
<1>6. ASSUME l.pc = "readback", NEW k \in Nat
      PROVE  Sound([l EXCEPT !.pc = "review", !.owner = k])
  BY <1>6, <1>d
<1>7. ASSUME l.pc = "review", NEW n \in Nat, NEW m \in Nat, NEW looked,
             looked = [l EXCEPT !.attempt = @ + 1, !.seen = n, !.read = m]
      PROVE  /\ l.target \in PR
             /\ Sound([looked EXCEPT !.pc = "release", !.record = "error"])
             /\ Sound([looked EXCEPT !.pc = "approve", !.record = "no_work"])
             /\ Sound([looked EXCEPT !.pc = "verify", !.record = "none"])
  <2>1. looked \in Local /\ looked.target \in PR /\ looked.attempt > 0
    BY <1>7, <1>d
  <2> QED
    BY ZenonT(30), <1>7, <2>1
<1>8. ASSUME l.pc = "verify"
      PROVE  /\ l.attempt < MaxTries => Sound([l EXCEPT !.pc = "review"])
             /\ Sound([l EXCEPT !.pc = "note", !.record = "error"])
             /\ Sound([l EXCEPT !.pc = "commit", !.passed = l.attempt])
  BY <1>8, <1>d
<1>9. ASSUME l.pc = "approve"
      PROVE  Sound([l EXCEPT !.pc = "lgtm"]) /\ Sound([l EXCEPT !.pc = "release"])
  BY <1>9
<1>10. ASSUME l.pc = "commit", NEW n \in Nat
       PROVE  l.target \in PR /\ Sound([l EXCEPT !.pc = "push", !.parent = n])
  BY <1>10
<1>11. ASSUME l.pc = "push"
       PROVE  l.target \in PR /\ Sound([l EXCEPT !.pc = "note", !.record = "pushed_fixes"])
  BY <1>11
<1>12. ASSUME l.pc = "claim" PROVE Sound([l EXCEPT !.pc = "readback"])
  BY <1>12
<1>13. ASSUME l.pc \in {"lgtm", "note"} PROVE Sound([l EXCEPT !.pc = "release"])
  BY <1>13
<1>14. ASSUME l.pc \in WorkPhases \cup {"lgtm", "note", "release"}
       PROVE  Sound([l EXCEPT !.pc = "recover", !.record = "error"])
  BY <1>14
<1> HIDE <1>a, <1>b DEF Sound, LocalOK, Consistent, Local, WorkPhases, Posting, Early, Pushing
<1> QED
  BY <1>1, <1>2, <1>3, <1>4, <1>5, <1>6, <1>7, <1>8, <1>9, <1>10, <1>11, <1>12, <1>13, <1>14, <1>c

\* The three outcomes of a review.
LEMMA ReviewOutcome ==
  ASSUME NEW r \in Run, Review(r)
  PROVE  LET p == run[r].target
             looked == [run[r] EXCEPT !.attempt = @ + 1, !.seen = Len(head[p]), !.read = Len(Seen(p))]
         IN  \/ Becomes(r, [looked EXCEPT !.pc = "release", !.record = "error"])
             \/ Becomes(r, [looked EXCEPT !.pc = "approve", !.record = "no_work"])
             \/ Becomes(r, [looked EXCEPT !.pc = "verify", !.record = "none"])
<1> DEFINE p == run[r].target
           looked == [run[r] EXCEPT !.attempt = @ + 1, !.seen = Len(head[p]), !.read = Len(Seen(p))]
<1>1. PICK next \in {[pc |-> "release", record |-> "error"],
                     [pc |-> "approve", record |-> "no_work"],
                     [pc |-> "verify", record |-> "none"]} :
         Becomes(r, [looked EXCEPT !.pc = next.pc, !.record = next.record])
  BY DEF Review
<1> HIDE DEF looked
<1>2. \/ next.pc = "release" /\ next.record = "error"
      \/ next.pc = "approve" /\ next.record = "no_work"
      \/ next.pc = "verify" /\ next.record = "none"
  OBVIOUS
<1>3. \/ Becomes(r, [looked EXCEPT !.pc = "release", !.record = "error"])
      \/ Becomes(r, [looked EXCEPT !.pc = "approve", !.record = "no_work"])
      \/ Becomes(r, [looked EXCEPT !.pc = "verify", !.record = "none"])
  BY <1>1, <1>2
<1> QED
  BY <1>3 DEF looked

\* Every step of run r changes its own local variables only and keeps them sound.
LEMMA LocalStep ==
  ASSUME ReviewerAssumption, Typed, NEW r \in Run, Begin(r) \/ RunStep(r) \/ Raises(r) \/ Crash(r)
  PROVE  \E l : Becomes(r, l) /\ Sound(l)
<1> DEFINE Goal == \E l : Becomes(r, l) /\ Sound(l)
<1>0. Sound(run[r]) /\ run \in [Run -> Local] /\ clock \in 0..MaxClock /\ open \subseteq PR
  BY DEF Sound, Typed, TypeOK
<1>a. ASSUME NEW l, Becomes(r, l), Sound(l) PROVE Goal
  BY <1>a
<1>b. \A p \in PR : Len(head[p]) \in Nat /\ Len(Seen(p)) \in Nat
  BY LenProperties, PageDomain DEF Typed, TypeOK, Seen
<1> HIDE DEF Goal
<1> USE <1>0, <1>a, SoundLocals DEF At, Goes, Ends
<1>1. CASE Begin(r)
  BY <1>1 DEF Begin
<1>2. CASE Lists(r)
  BY <1>2 DEF Lists
<1>3. ASSUME NEW p \in PR, SkipsApproved(r, p) PROVE Goal
  BY <1>3 DEF SkipsApproved
<1>4. ASSUME NEW p \in PR, Tries(r, p) PROVE Goal
  BY <1>4 DEF Tries
<1>5. CASE StandDown(r)
  BY <1>5 DEF StandDown, LocalOK, Sound, Posting
<1>6. CASE Stake(r)
  BY <1>6 DEF Stake, LocalOK, Sound, Posting
<1>7. CASE ReadBackWins(r)
  BY <1>7, OwnerType DEF ReadBackWins, Typed
<1>8. CASE ReadBackLoses(r)
  BY <1>8 DEF ReadBackLoses
<1>9. CASE Review(r)
  <2> DEFINE p == run[r].target
             looked == [run[r] EXCEPT !.attempt = @ + 1, !.seen = Len(head[p]), !.read = Len(Seen(p))]
  <2>1. /\ Sound([looked EXCEPT !.pc = "release", !.record = "error"])
        /\ Sound([looked EXCEPT !.pc = "approve", !.record = "no_work"])
        /\ Sound([looked EXCEPT !.pc = "verify", !.record = "none"])
    BY <1>9, <1>b DEF Review
  <2>2. \/ Becomes(r, [looked EXCEPT !.pc = "release", !.record = "error"])
        \/ Becomes(r, [looked EXCEPT !.pc = "approve", !.record = "no_work"])
        \/ Becomes(r, [looked EXCEPT !.pc = "verify", !.record = "none"])
    BY Zenon, <1>9, ReviewOutcome
  <2> HIDE DEF looked
  <2> QED
    BY <2>1, <2>2
<1>10. CASE Rejected(r)
  BY <1>10 DEF Rejected
<1>11. CASE Verified(r)
  BY <1>11 DEF Verified
<1>12. CASE Approve(r)
  BY <1>12 DEF Approve
<1>13. CASE CommitStarts(r)
  BY <1>13, <1>b DEF CommitStarts
<1>14. CASE Push(r)
  BY <1>14 DEF Push
<1>15. CASE Post(r)
  <2>1. run[r].record \in Records
    BY DEF Sound, LocalOK, Local
  <2> QED
    BY <1>15, <2>1 DEF Post, Ended
<1>16. CASE Raises(r)
  <2>1. run[r].pc \in Phases
    BY DEF Sound, LocalOK, Local
  <2> QED
    BY <1>16, <2>1 DEF Raises, Phases, Ended, Records, WorkPhases, Posting
<1>17. CASE NoWork(r) \/ Crash(r)
  BY <1>17 DEF NoWork, Crash, Ended, Records
<1> HIDE <1>0, <1>a, SoundLocals DEF At, Goes, Ends
<1> QED
  BY <1>1, <1>2, <1>3, <1>4, <1>5, <1>6, <1>7, <1>8, <1>9, <1>10, <1>11, <1>12, <1>13, <1>14, <1>15,
     <1>16, <1>17 DEF RunStep, Goal
-----------------------------------------------------------------------------
(* What each step does to the local variables of its run, field by field *)

SameWork(l, m) ==
  m.now = l.now /\ m.todo = l.todo /\ m.target = l.target /\ m.owner = l.owner

\* Listing and claiming.
LEMMA ScanFields ==
  ASSUME NEW r \in Run, run \in [Run -> Local]
  PROVE  LET l == run[r]
             m == run'[r]
         IN  /\ Begin(r) => /\ m.pc = "list" /\ m.now = clock /\ m.todo = l.todo
                            /\ m.target = l.target /\ m.owner = l.owner
             /\ Lists(r) => /\ m.pc = "scan" /\ m.now = l.now /\ m.todo = open
                            /\ m.target = l.target /\ m.owner = l.owner
             /\ \A p \in PR : SkipsApproved(r, p) =>
                  /\ m.pc = "scan" /\ m.now = l.now /\ m.todo = l.todo \ {p}
                  /\ m.target = l.target /\ m.owner = l.owner
             /\ \A p \in PR : Tries(r, p) =>
                  /\ m.pc = "try" /\ m.now = l.now /\ m.todo = l.todo
                  /\ m.target = p /\ m.owner = l.owner
             /\ StandDown(r) => /\ m.pc = "scan" /\ m.now = l.now /\ m.todo = l.todo \ {l.target}
                                /\ m.target = None /\ m.owner = l.owner
             /\ Stake(r) => /\ m.pc = "claim" /\ m.now = l.now /\ m.todo = l.todo \ {l.target}
                            /\ m.target = l.target /\ m.owner = l.owner
             /\ ReadBackWins(r) => /\ m.pc = "review" /\ m.now = l.now /\ m.todo = l.todo
                                   /\ m.target = l.target /\ m.owner = Owner(r, l.target)
             /\ ReadBackLoses(r) => /\ m.pc = "scan" /\ m.now = l.now /\ m.todo = l.todo
                                    /\ m.target = None /\ m.owner = l.owner
<1> DEFINE l == run[r]
           m == run'[r]
<1>0. l \in Local
  OBVIOUS
<1>a. ASSUME NEW k, Becomes(r, k) PROVE m = k
  BY <1>a DEF Becomes
<1> USE <1>0, <1>a DEF Local
<1>1. Begin(r) => /\ m.pc = "list" /\ m.now = clock /\ m.todo = l.todo
                  /\ m.target = l.target /\ m.owner = l.owner
  BY DEF Begin
<1>2. Lists(r) => /\ m.pc = "scan" /\ m.now = l.now /\ m.todo = open
                  /\ m.target = l.target /\ m.owner = l.owner
  BY DEF Lists
<1>3. ASSUME NEW p \in PR, SkipsApproved(r, p)
      PROVE  /\ m.pc = "scan" /\ m.now = l.now /\ m.todo = l.todo \ {p}
             /\ m.target = l.target /\ m.owner = l.owner
  <2>1. l.pc = "scan" /\ m = [l EXCEPT !.todo = @ \ {p}]
    BY <1>3 DEF SkipsApproved, At
  <2> QED
    BY <2>1
<1>4. ASSUME NEW p \in PR, Tries(r, p)
      PROVE  /\ m.pc = "try" /\ m.now = l.now /\ m.todo = l.todo
             /\ m.target = p /\ m.owner = l.owner
  <2>1. m = [l EXCEPT !.pc = "try", !.target = p]
    BY <1>4 DEF Tries
  <2> QED
    BY <2>1
<1>5. StandDown(r) => /\ m.pc = "scan" /\ m.now = l.now /\ m.todo = l.todo \ {l.target}
                      /\ m.target = None /\ m.owner = l.owner
  BY DEF StandDown
<1>6. Stake(r) => /\ m.pc = "claim" /\ m.now = l.now /\ m.todo = l.todo \ {l.target}
                  /\ m.target = l.target /\ m.owner = l.owner
  BY DEF Stake
<1>7. ReadBackWins(r) => /\ m.pc = "review" /\ m.now = l.now /\ m.todo = l.todo
                         /\ m.target = l.target /\ m.owner = Owner(r, l.target)
  BY DEF ReadBackWins
<1>8. ReadBackLoses(r) => /\ m.pc = "scan" /\ m.now = l.now /\ m.todo = l.todo
                          /\ m.target = None /\ m.owner = l.owner
  BY DEF ReadBackLoses
<1> HIDE <1>0, <1>a DEF Local
<1> QED
  BY <1>1, <1>2, <1>3, <1>4, <1>5, <1>6, <1>7, <1>8

\* Reviewing, approving, pushing.
LEMMA WorkFields ==
  ASSUME NEW r \in Run, run \in [Run -> Local]
  PROVE  LET l == run[r]
             m == run'[r]
         IN  /\ Review(r) => /\ SameWork(l, m) /\ m.seen = Len(head[l.target])
                             /\ \/ m.pc = "release" /\ m.record = "error"
                                \/ m.pc = "approve" /\ m.record = "no_work"
                                \/ m.pc = "verify"
             /\ Rejected(r) => /\ SameWork(l, m)
                               /\ \/ m.pc = "review"
                                  \/ m.pc = "note" /\ m.record = "error"
             /\ Verified(r) => m.pc = "commit" /\ SameWork(l, m) /\ m.seen = l.seen
             /\ Approve(r) => /\ SameWork(l, m) /\ m.record = l.record
                              /\ \/ m.pc = "lgtm" /\ NeedsLgtm(l.target)
                                 \/ m.pc = "release"
             /\ CommitStarts(r) => m.pc = "push" /\ SameWork(l, m) /\ m.seen = l.seen
             /\ Push(r) => m.pc = "note" /\ SameWork(l, m) /\ m.record = "pushed_fixes"
<1> DEFINE l == run[r]
           m == run'[r]
<1>0. l \in Local
  OBVIOUS
<1>a. ASSUME NEW k, Becomes(r, k) PROVE m = k
  BY <1>a DEF Becomes
<1> USE <1>0, <1>a DEF Local, SameWork
<1>1. Review(r) => /\ SameWork(l, m) /\ m.seen = Len(head[l.target])
                   /\ \/ m.pc = "release" /\ m.record = "error"
                      \/ m.pc = "approve" /\ m.record = "no_work"
                      \/ m.pc = "verify"
  <2> DEFINE n == Len(Seen(l.target))
  <2> HIDE DEF n
  <2> DEFINE looked == [l EXCEPT !.attempt = @ + 1, !.seen = Len(head[l.target]), !.read = n]
             P(k) == /\ SameWork(l, k) /\ k.seen = Len(head[l.target])
                     /\ \/ k.pc = "release" /\ k.record = "error"
                        \/ k.pc = "approve" /\ k.record = "no_work"
                        \/ k.pc = "verify"
  <2>1. /\ P([looked EXCEPT !.pc = "release", !.record = "error"])
        /\ P([looked EXCEPT !.pc = "approve", !.record = "no_work"])
        /\ P([looked EXCEPT !.pc = "verify", !.record = "none"])
    OBVIOUS
  <2> HIDE DEF P
  <2>2. Review(r) => \/ Becomes(r, [looked EXCEPT !.pc = "release", !.record = "error"])
                     \/ Becomes(r, [looked EXCEPT !.pc = "approve", !.record = "no_work"])
                     \/ Becomes(r, [looked EXCEPT !.pc = "verify", !.record = "none"])
    BY Zenon, ReviewOutcome DEF n
  <2> HIDE DEF looked
  <2>3. ASSUME NEW k, Becomes(r, k), P(k) PROVE P(m)
    BY <2>3
  <2>4. Review(r) => P(m)
    BY <2>1, <2>2, <2>3
  <2> QED
    BY <2>4 DEF P
<1>2. Rejected(r) => /\ SameWork(l, m)
                     /\ \/ m.pc = "review"
                        \/ m.pc = "note" /\ m.record = "error"
  BY DEF Rejected, Goes
<1>3. Verified(r) => m.pc = "commit" /\ SameWork(l, m) /\ m.seen = l.seen
  BY DEF Verified
<1>4. Approve(r) => /\ SameWork(l, m) /\ m.record = l.record
                    /\ \/ m.pc = "lgtm" /\ NeedsLgtm(l.target)
                       \/ m.pc = "release"
  BY DEF Approve, Goes
<1>5. CommitStarts(r) => m.pc = "push" /\ SameWork(l, m) /\ m.seen = l.seen
  BY DEF CommitStarts
<1>6. Push(r) => m.pc = "note" /\ SameWork(l, m) /\ m.record = "pushed_fixes"
  BY DEF Push
<1> HIDE <1>0, <1>a DEF Local, SameWork
<1> QED
  BY <1>1, <1>2, <1>3, <1>4, <1>5, <1>6

\* Comments, failures, the end.
LEMMA EndFields ==
  ASSUME ReviewerAssumption, NEW r \in Run, run \in [Run -> Local]
  PROVE  LET l == run[r]
             m == run'[r]
         IN  /\ NoWork(r) => m.pc = "done" /\ m.record = "no_work" /\ Ends(r, "done", "no_work")
             /\ Post(r) =>
                  \/ l.pc = "claim" /\ m.pc = "readback" /\ SameWork(l, m)
                  \/ /\ l.pc \in {"lgtm", "note"} /\ m.pc = "release"
                     /\ SameWork(l, m) /\ m.record = l.record
                  \/ /\ l.pc \in {"release", "recover"} /\ Ends(r, "done", l.record)
                     /\ m.pc = "done" /\ m.record = l.record
             /\ Raises(r) =>
                  \/ /\ l.pc \in {"list", "scan", "try", "claim", "readback"}
                     /\ Ends(r, "failed", "error") /\ m.pc = "failed"
                  \/ l.pc = "recover" /\ Ends(r, "done", "error") /\ m.pc = "done" /\ m.record = "error"
                  \/ /\ l.pc \in WorkPhases \cup {"lgtm", "note", "release"}
                     /\ m.pc = "recover" /\ SameWork(l, m)
             /\ Crash(r) => Ends(r, "crashed", "none") /\ m.pc = "crashed"
<1> DEFINE l == run[r]
           m == run'[r]
<1>0. l \in Local /\ l.pc \in Phases /\ l.record \in Records
  BY DEF Local
<1>a. ASSUME NEW k, Becomes(r, k) PROVE m = k
  BY <1>a DEF Becomes
<1>b. ASSUME NEW phase \in Ended, NEW record \in Records, Ends(r, phase, record)
      PROVE  m.pc = phase /\ m.record = record
  <2> DEFINE k == [Fresh EXCEPT !.pc = phase, !.record = record]
  <2>1. k.pc = phase /\ k.record = record
    BY EndedLocal
  <2>2. m = k
    BY <1>a, <1>b DEF Ends
  <2> QED
    BY <2>1, <2>2
<1>c. ASSUME NEW phase, Goes(r, phase) PROVE m.pc = phase /\ SameWork(l, m) /\ m.record = l.record
  BY <1>0, <1>a, <1>c DEF Goes, Local, SameWork
<1>1. NoWork(r) => m.pc = "done" /\ m.record = "no_work" /\ Ends(r, "done", "no_work")
  BY <1>b DEF NoWork, Ended, Records
<1>2. ASSUME Post(r)
      PROVE  \/ l.pc = "claim" /\ m.pc = "readback" /\ SameWork(l, m)
             \/ /\ l.pc \in {"lgtm", "note"} /\ m.pc = "release"
                /\ SameWork(l, m) /\ m.record = l.record
             \/ /\ l.pc \in {"release", "recover"} /\ Ends(r, "done", l.record)
                /\ m.pc = "done" /\ m.record = l.record
  <2>1. l.pc \in Posting
    BY <1>2 DEF Post
  <2>2. \/ l.pc = "claim" /\ Goes(r, "readback")
        \/ l.pc \in {"lgtm", "note"} /\ Goes(r, "release")
        \/ l.pc \in {"release", "recover"} /\ Ends(r, "done", l.record)
    BY <1>2, <2>1 DEF Post, Posting, At
  <2> QED
    BY <1>0, <1>b, <1>c, <2>2 DEF Ended
<1>3. ASSUME Raises(r)
      PROVE  \/ /\ l.pc \in {"list", "scan", "try", "claim", "readback"}
                /\ Ends(r, "failed", "error") /\ m.pc = "failed"
             \/ l.pc = "recover" /\ Ends(r, "done", "error") /\ m.pc = "done" /\ m.record = "error"
             \/ /\ l.pc \in WorkPhases \cup {"lgtm", "note", "release"}
                /\ m.pc = "recover" /\ SameWork(l, m)
  <2>1. \/ /\ l.pc \in {"list", "scan", "try", "claim", "readback"}
           /\ Ends(r, "failed", "error")
        \/ l.pc = "recover" /\ Ends(r, "done", "error")
        \/ /\ l.pc \in WorkPhases \cup {"lgtm", "note", "release"}
           /\ Becomes(r, [l EXCEPT !.pc = "recover", !.record = "error"])
    BY <1>0, <1>3 DEF Raises, At, Phases, Posting, Ended
  <2>2. ASSUME Becomes(r, [l EXCEPT !.pc = "recover", !.record = "error"])
        PROVE  m.pc = "recover" /\ SameWork(l, m)
    BY <1>0, <1>a, <2>2 DEF Local, SameWork
  <2> QED
    BY <1>b, <2>1, <2>2 DEF Ended, Records
<1>4. Crash(r) => Ends(r, "crashed", "none") /\ m.pc = "crashed"
  BY <1>b DEF Crash, Ended, Records
<1> QED
  BY <1>1, <1>2, <1>3, <1>4
-----------------------------------------------------------------------------
(* What a step does to GitHub *)

Commit == [by : Run \cup {None}, seen : Nat, leased : BOOLEAN]

\* A run only posts comments of its own, of the right type.
LEMMA OutgoingType ==
  ASSUME ReviewerAssumption, Typed, NEW r \in Run, run[r].pc \in Posting
  PROVE  /\ Outgoing(r) \in Comment /\ run[r].target \in PR
         /\ Outgoing(r).run = r /\ Outgoing(r).run # None
         /\ Outgoing(r).text = Text(r) /\ Outgoing(r).leased = HoldsLease(r)
         /\ run[r].pc = "lgtm" => Text(r) = "lgtm"
         /\ run[r].pc = "note" => Text(r) = "report"
         /\ run[r].pc \in {"claim", "release", "recover"} => Text(r) = "marker"
         /\ run[r].pc \in {"release", "recover"} => Outgoing(r).op = "release"
<1> DEFINE l == run[r]
           op == CASE At(r, "claim") -> "claim"
                   [] l.pc \in {"lgtm", "note"} -> "note"
                   [] OTHER -> "release"
           until == CASE At(r, "claim") -> l.now + TTL
                      [] l.pc \in {"lgtm", "note"} -> 0
                      [] OTHER -> l.now
<1>1. l.now \in Int /\ l.read \in Nat /\ l.target \in PR
  BY DEF Typed, TypeOK, LocalOK, Local
<1>2. /\ l.pc = "lgtm" => Text(r) = "lgtm" /\ op = "note"
      /\ l.pc = "note" => Text(r) = "report" /\ op = "note"
      /\ l.pc = "claim" => Text(r) = "marker" /\ op = "claim"
      /\ l.pc \in {"release", "recover"} => Text(r) = "marker" /\ op = "release"
  BY DEF Text, At
<1>3. until \in Int
  BY <1>1 DEF At, ReviewerAssumption
<1>4. HoldsLease(r) \in BOOLEAN
  BY DEF HoldsLease
<1>5. r # None
  BY DEF ReviewerAssumption
<1>6. Outgoing(r) = [op |-> op, kind |-> Kind, run |-> r, until |-> until, text |-> Text(r),
                     read |-> l.read, leased |-> HoldsLease(r)]
  BY DEF Outgoing
<1>7. l.pc \in {"claim", "lgtm", "note", "release", "recover"}
  BY DEF Posting
<1>8. /\ op \in {"claim", "note", "release"}
      /\ Text(r) \in Texts
      /\ op = "note" <=> Text(r) # "marker"
      /\ Text(r) \notin {"command", "words"}
  BY <1>2, <1>7 DEF Texts
<1> HIDE DEF op, until
<1> QED
  BY <1>1, <1>2, <1>3, <1>4, <1>5, <1>6, <1>8 DEF Comment

\* A step of a run appends at most its one comment or its one commit.
LEMMA GitHubStep ==
  ASSUME ReviewerAssumption, Typed, NEW r \in Run, Begin(r) \/ RunStep(r) \/ Raises(r) \/ Crash(r)
  PROVE  /\ UNCHANGED <<clock, open>>
         /\ \/ UNCHANGED thread
            \/ Post(r) /\ thread' = [thread EXCEPT ![run[r].target] = Append(@, Outgoing(r))]
         /\ \/ UNCHANGED head
            \/ /\ Push(r)
               /\ head' = [head EXCEPT ![run[r].target] =
                    Append(@, [by |-> r, seen |-> run[r].seen, leased |-> HoldsLease(r)])]
         /\ Push(r) => UNCHANGED thread
         /\ Post(r) => UNCHANGED head
<1>1. CASE Push(r)
  BY <1>1 DEF Push, Post, At, Posting
<1>2. CASE Post(r)
  BY <1>2 DEF Push, Post, At, Posting
<1>3. CASE ~Push(r) /\ ~Post(r)
  BY <1>3 DEF Begin, RunStep, Raises, Crash, Lists, NoWork, SkipsApproved, Tries, StandDown, Stake,
     ReadBackWins, ReadBackLoses, Review, Rejected, Verified, Approve, CommitStarts, github
<1> QED
  BY <1>1, <1>2, <1>3

\* What a person writes or commits is of the right type.
LEMMA PersonType ==
  ASSUME ReviewerAssumption, NEW text \in {"command", "words"}
  PROVE  [op |-> "note", kind |-> Kind, run |-> None, until |-> 0,
          text |-> text, read |-> 0, leased |-> FALSE] \in Comment
BY DEF Comment, Texts

\* The threads and the heads stay well typed and only grow.
LEMMA GitHubTyped ==
  ASSUME ReviewerAssumption, Typed, [Next]_vars
  PROVE  /\ clock' \in 0..MaxClock /\ clock' \in {clock, clock + 1}
         /\ open' \subseteq PR
         /\ thread' \in [PR -> Seq(Comment)]
         /\ \A p \in PR : \/ thread'[p] = thread[p]
                          \/ \E c \in Comment : thread'[p] = Append(thread[p], c)
         /\ head' \in [PR -> Seq(Commit)]
         /\ \A p \in PR : \/ head'[p] = head[p]
                          \/ \E c \in Commit : /\ head'[p] = Append(head[p], c)
                                               /\ c.seen <= Len(head[p])
<1> DEFINE ClockOK == clock' \in 0..MaxClock /\ clock' \in {clock, clock + 1}
           OpenOK == open' \subseteq PR
           ThreadOK == /\ thread' \in [PR -> Seq(Comment)]
                       /\ \A p \in PR : \/ thread'[p] = thread[p]
                                        \/ \E c \in Comment : thread'[p] = Append(thread[p], c)
           HeadOK == /\ head' \in [PR -> Seq(Commit)]
                     /\ \A p \in PR : \/ head'[p] = head[p]
                                      \/ \E c \in Commit : /\ head'[p] = Append(head[p], c)
                                                           /\ c.seen <= Len(head[p])
<1>0. /\ clock \in 0..MaxClock /\ open \subseteq PR /\ thread \in [PR -> Seq(Comment)]
      /\ head \in [PR -> Seq(Commit)]
  BY DEF Typed, TypeOK, Commit
<1>1. UNCHANGED clock => ClockOK
  BY <1>0
<1>2. UNCHANGED open => OpenOK
  BY <1>0
<1>3. UNCHANGED thread => ThreadOK
  BY <1>0
<1>4. UNCHANGED head => HeadOK
  BY <1>0
<1>5. ASSUME NEW p \in PR, NEW c \in Comment, thread' = [thread EXCEPT ![p] = Append(@, c)]
      PROVE  ThreadOK
  <2>1. Append(thread[p], c) \in Seq(Comment)
    BY <1>0, AppendProperties
  <2> QED
    BY <1>0, <1>5, <2>1
<1>6. ASSUME NEW p \in PR, NEW c \in Commit, head' = [head EXCEPT ![p] = Append(@, c)],
             c.seen <= Len(head[p])
      PROVE  HeadOK
  <2>1. Append(head[p], c) \in Seq(Commit)
    BY <1>0, AppendProperties
  <2> QED
    BY <1>0, <1>6, <2>1
<1> HIDE DEF ClockOK, OpenOK, ThreadOK, HeadOK
<1>7. ASSUME NEW r \in Run, Begin(r) \/ RunStep(r) \/ Raises(r) \/ Crash(r)
      PROVE  ClockOK /\ OpenOK /\ ThreadOK /\ HeadOK
  <2>1. ClockOK /\ OpenOK
    BY <1>1, <1>2, <1>7, GitHubStep
  <2>2. ThreadOK
    <3>1. CASE Post(r)
      BY <1>3, <1>5, <1>7, <3>1, GitHubStep, OutgoingType DEF Post
    <3> QED
      BY <1>3, <1>7, <3>1, GitHubStep
  <2>3. HeadOK
    <3>1. ASSUME Push(r), NEW c, c = [by |-> r, seen |-> run[r].seen, leased |-> HoldsLease(r)]
          PROVE  run[r].target \in PR /\ c \in Commit /\ c.seen <= Len(head[run[r].target])
      <4>1. run[r].pc = "push" /\ run[r] \in Local /\ LocalOK(run[r]) /\ SeenBounded(r)
        BY <3>1 DEF Push, At, Typed, TypeOK, LocalOK
      <4>2. run[r].target \in PR /\ run[r].seen \in Nat
        BY <4>1 DEF LocalOK, Local, WorkPhases
      <4>3. run[r].seen <= Len(head[run[r].target])
        BY <4>1 DEF SeenBounded, Pushing
      <4> QED
        BY <3>1, <4>2, <4>3 DEF Commit, HoldsLease
    <3> QED
      BY <1>4, <1>6, <1>7, <3>1, GitHubStep
  <2> QED
    BY <2>1, <2>2, <2>3
<1>8. ASSUME NEW p \in PR, PersonComments(p) PROVE ClockOK /\ OpenOK /\ ThreadOK /\ HeadOK
  BY <1>1, <1>2, <1>4, <1>5, <1>8, PersonType DEF PersonComments
<1>9. ASSUME NEW p \in PR, PersonPushes(p) PROVE ClockOK /\ OpenOK /\ ThreadOK /\ HeadOK
  <2>1. Len(head[p]) \in Nat
    BY <1>0, LenProperties
  <2>2. [by |-> None, seen |-> Len(head[p]), leased |-> FALSE] \in Commit
    BY <2>1 DEF Commit
  <2>3. [by |-> None, seen |-> Len(head[p]), leased |-> FALSE].seen <= Len(head[p])
    BY <2>1
  <2>4. HeadOK
    BY <1>6, <1>9, <2>2, <2>3 DEF PersonPushes
  <2> QED
    BY <1>1, <1>2, <1>3, <1>9, <2>4 DEF PersonPushes
<1>10. ASSUME NEW p \in PR, MergeOrClose(p) PROVE ClockOK /\ OpenOK /\ ThreadOK /\ HeadOK
  BY <1>0, <1>1, <1>3, <1>4, <1>10 DEF MergeOrClose, OpenOK
<1>11. ASSUME Tick PROVE ClockOK /\ OpenOK /\ ThreadOK /\ HeadOK
  <2>1. ClockOK
    BY <1>0, <1>11 DEF Tick, ClockOK, ReviewerAssumption
  <2> QED
    BY <1>2, <1>3, <1>4, <1>11, <2>1 DEF Tick, github
<1>12. ASSUME UNCHANGED vars PROVE ClockOK /\ OpenOK /\ ThreadOK /\ HeadOK
  BY <1>1, <1>2, <1>3, <1>4, <1>12 DEF vars
<1>13. ClockOK /\ OpenOK /\ ThreadOK /\ HeadOK
  BY <1>7, <1>8, <1>9, <1>10, <1>11, <1>12 DEF Next
<1> QED
  BY <1>13 DEF ClockOK, OpenOK, ThreadOK, HeadOK

\* A commit that is appended leaves the others in place.
LEMMA AppendHead ==
  ASSUME NEW s \in Seq(Commit), NEW c \in Commit
  PROVE  /\ Len(Append(s, c)) = Len(s) + 1 /\ Len(s) \in Nat
         /\ DOMAIN s = 1..Len(s) /\ DOMAIN Append(s, c) = 1..Len(s) + 1
         /\ \A k \in DOMAIN s : Append(s, c)[k] = s[k]
         /\ Append(s, c)[Len(s) + 1] = c
BY AppendProperties, LenProperties

\* The same of the comments of a thread.
LEMMA AppendThread ==
  ASSUME NEW s \in Seq(Comment), NEW c \in Comment
  PROVE  /\ Len(Append(s, c)) = Len(s) + 1 /\ Len(s) \in Nat
         /\ DOMAIN s = 1..Len(s) /\ DOMAIN Append(s, c) = 1..Len(s) + 1
         /\ \A k \in DOMAIN s : Append(s, c)[k] = s[k]
         /\ Append(s, c)[Len(s) + 1] = c
BY AppendProperties, LenProperties
-----------------------------------------------------------------------------
(* Type correctness, concluded *)

\* A step that changes a run's local variables is a step of that run.
LEMMA StepOf ==
  ASSUME ReviewerAssumption, Typed, [Next]_vars, NEW r \in Run, run'[r] # run[r]
  PROVE  Begin(r) \/ RunStep(r) \/ Raises(r) \/ Crash(r)
<1>0. run \in [Run -> Local]
  BY DEF Typed, TypeOK
<1>1. ~UNCHANGED run
  OBVIOUS
<1>2. PICK s \in Run : Begin(s) \/ RunStep(s) \/ Raises(s) \/ Crash(s)
  BY <1>1 DEF Next, vars, PersonComments, PersonPushes, MergeOrClose, Tick
<1>3. \E l : Becomes(s, l)
  BY <1>2, LocalStep
<1>4. s = r
  BY <1>0, <1>3 DEF Becomes
<1> QED
  BY <1>2, <1>4

\* Every step leaves every run's local variables sound.
LEMMA RunsSound ==
  ASSUME ReviewerAssumption, Typed, [Next]_vars
  PROVE  run' \in [Run -> Local] /\ \A r \in Run : Sound(run'[r])
<1>0. run \in [Run -> Local] /\ \A r \in Run : Sound(run[r])
  BY DEF Typed, TypeOK, Sound
<1>1. ASSUME NEW r \in Run, NEW l, Becomes(r, l), Sound(l)
      PROVE  run' \in [Run -> Local] /\ \A s \in Run : Sound(run'[s])
  <2>1. l \in Local
    BY <1>1 DEF Sound, LocalOK
  <2> QED
    BY <1>0, <1>1, <2>1 DEF Becomes
<1>2. CASE UNCHANGED run
  BY <1>0, <1>2
<1>3. ASSUME ~UNCHANGED run
      PROVE  \E r \in Run : Begin(r) \/ RunStep(r) \/ Raises(r) \/ Crash(r)
  BY <1>3 DEF Next, vars, PersonComments, PersonPushes, MergeOrClose, Tick
<1> QED
  BY <1>1, <1>2, <1>3, LocalStep

\* A run that has fixes in hand has just reviewed, or had them and keeps its target.
LEMMA PushingFrom ==
  ASSUME ReviewerAssumption, Typed, [Next]_vars, NEW r \in Run,
         run'[r].pc \in {"verify"} \cup Pushing
  PROVE  /\ SameWork(run[r], run'[r])
         /\ \/ Review(r) /\ run'[r].seen = Len(head[run[r].target]) /\ UNCHANGED <<head, thread, clock>>
            \/ run[r].pc \in {"verify"} \cup Pushing /\ run'[r].seen = run[r].seen
<1>0. run \in [Run -> Local] /\ run[r] \in Local
  BY DEF Typed, TypeOK
<1>1. CASE run'[r] = run[r]
  BY <1>1 DEF SameWork
<1>2. CASE Review(r)
  BY <1>0, <1>2, WorkFields DEF Review, github
<1>3. CASE Verified(r) \/ CommitStarts(r)
  <2>1. run[r].pc \in {"verify"} \cup Pushing
    BY <1>3 DEF Verified, CommitStarts, At, Pushing
  <2> QED
    BY <1>0, <1>3, <2>1, WorkFields
<1>4. CASE run'[r] # run[r] /\ ~(Review(r) \/ Verified(r) \/ CommitStarts(r))
  <2>1. /\ ~Begin(r) /\ ~Lists(r) /\ ~StandDown(r) /\ ~Stake(r) /\ ~ReadBackWins(r)
        /\ ~ReadBackLoses(r) /\ \A p \in PR : ~SkipsApproved(r, p) /\ ~Tries(r, p)
    BY <1>0, ScanFields DEF Pushing
  <2>2. ~Rejected(r) /\ ~Approve(r) /\ ~Push(r)
    BY <1>0, WorkFields DEF Pushing
  <2>3. ~NoWork(r) /\ ~Post(r) /\ ~Raises(r) /\ ~Crash(r)
    BY <1>0, EndFields DEF Pushing
  <2> QED
    BY <1>4, <2>1, <2>2, <2>3, StepOf DEF RunStep
<1> QED
  BY <1>1, <1>2, <1>3, <1>4

\* What a run has seen stays part of the head.
LEMMA SeenStays ==
  ASSUME ReviewerAssumption, Typed, [Next]_vars, NEW r \in Run
  PROVE  SeenBounded(r)'
<1> SUFFICES ASSUME run'[r].pc \in {"verify"} \cup Pushing
             PROVE  run'[r].seen <= Len(head'[run'[r].target])
  BY DEF SeenBounded
<1> DEFINE p == run[r].target
<1>1. run'[r].target = p
  BY PushingFrom DEF SameWork
<1>2. p \in PR /\ run'[r].seen \in Nat /\ run'[r].seen <= Len(head[p])
  <2>1. Sound(run'[r])
    BY RunsSound
  <2>2. p \in PR /\ run'[r].seen \in Nat
    BY <1>1, <2>1 DEF Sound, LocalOK, Local, WorkPhases, Pushing
  <2>3. head[p] \in Seq(Commit)
    BY <2>2 DEF Typed, TypeOK, Commit
  <2>4. Len(head[p]) \in Nat
    BY <2>3, LenProperties
  <2> QED
    BY <2>2, <2>4, PushingFrom DEF Typed, SeenBounded
<1>3. head[p] \in Seq(Commit) /\ Len(head[p]) <= Len(head'[p]) /\ Len(head'[p]) \in Nat
  <2>1. head[p] \in Seq(Commit)
    BY <1>2 DEF Typed, TypeOK, Commit
  <2>2. Len(head[p]) \in Nat /\ \A c \in Commit : Len(Append(head[p], c)) = Len(head[p]) + 1
    BY <2>1, AppendHead, LenProperties
  <2>3. head'[p] = head[p] \/ \E c \in Commit : head'[p] = Append(head[p], c)
    BY <1>2, GitHubTyped
  <2> HIDE DEF p
  <2>4. Len(head'[p]) = Len(head[p]) \/ Len(head'[p]) = Len(head[p]) + 1
    BY <2>2, <2>3
  <2> QED
    BY <2>1, <2>2, <2>4
<1> QED
  BY <1>1, <1>2, <1>3

\* Every step keeps the strengthened type invariant.
LEMMA TypeStep ==
  ASSUME ReviewerAssumption, Typed, [Next]_vars
  PROVE  Typed'
<1>1. /\ clock' \in 0..MaxClock /\ open' \subseteq PR /\ thread' \in [PR -> Seq(Comment)]
      /\ head' \in [PR -> Seq(Commit)]
  BY GitHubTyped
<1>2. run' \in [Run -> Local] /\ \A r \in Run : LocalOK(run'[r]) /\ Consistent(run'[r])
  BY RunsSound DEF Sound
<1>3. ASSUME NEW p \in PR, NEW k \in DOMAIN head'[p] PROVE head'[p][k].seen < k
  <2>0. head[p] \in Seq(Commit) /\ \A j \in DOMAIN head[p] : head[p][j].seen < j
    BY DEF Typed, TypeOK, Commit
  <2>1. CASE head'[p] = head[p]
    BY <1>3, <2>0, <2>1
  <2>2. ASSUME NEW c \in Commit, head'[p] = Append(head[p], c), c.seen <= Len(head[p])
        PROVE  head'[p][k].seen < k
    <3>1. \/ k \in DOMAIN head[p] /\ head'[p][k] = head[p][k]
          \/ k = Len(head[p]) + 1 /\ head'[p][k] = c
      BY <1>3, <2>0, <2>2, AppendHead
    <3>2. c.seen \in Nat /\ Len(head[p]) \in Nat
      BY <2>0, LenProperties DEF Commit
    <3> QED
      BY <2>0, <2>2, <3>1, <3>2
  <2> QED
    BY <2>1, <2>2, GitHubTyped
<1>4. \A r \in Run : SeenBounded(r)'
  BY SeenStays
<1> QED
  BY <1>1, <1>2, <1>3, <1>4 DEF Typed, TypeOK, Commit

\* It holds initially.
LEMMA TypeInit == ASSUME ReviewerAssumption, Init PROVE Typed
<1>1. Fresh \in Local
  BY DEF Fresh, Local, Phases, Records, ReviewerAssumption
<1>2. LocalOK(Fresh) /\ Consistent(Fresh) /\ Fresh.pc = "idle"
  BY <1>1 DEF LocalOK, Consistent, Fresh, WorkPhases, Posting, Early, Pushing
<1>3. clock \in 0..MaxClock /\ <<>> \in Seq(Comment) /\ <<>> \in Seq(Commit) /\ DOMAIN <<>> = {}
  BY EmptySeq DEF Init, ReviewerAssumption
<1>4. \A r \in Run : SeenBounded(r)
  BY <1>2 DEF Init, SeenBounded, Pushing
<1> QED
  BY <1>1, <1>2, <1>3, <1>4 DEF Init, Typed, TypeOK, Commit

\* Every variable has its type in every reachable state; in particular no commit claims to
\* have been written against a head that came after it.
THEOREM TypeCorrect == Spec => []TypeOK
<1> USE ReviewerAssumption
<1>1. Init => Typed
  BY TypeInit
<1>2. Typed /\ [Next]_vars => Typed'
  BY TypeStep
<1>3. Typed => TypeOK
  BY DEF Typed
<1> QED
  BY <1>1, <1>2, <1>3, PTL DEF Spec

\* Whatever is pushed is what the verifier passed, in its last attempt.
THEOREM PushedIsVerified == Spec => []OnlyVerifiedPushed
<1> USE ReviewerAssumption
<1>1. Init => Typed
  BY TypeInit
<1>2. Typed /\ [Next]_vars => Typed'
  BY TypeStep
<1>3. Typed => OnlyVerifiedPushed
  BY DEF Typed, Consistent, Pushing, OnlyVerifiedPushed
<1> QED
  BY <1>1, <1>2, <1>3, PTL DEF Spec
-----------------------------------------------------------------------------
(* What a run leaves behind *)

Says(r, p, k, text) ==
  k \in DOMAIN thread[p] /\ thread[p][k].run = r /\ thread[p][k].text = text
Frees(r, p, k) == Says(r, p, k, "marker") /\ thread[p][k].op = "release"
Commits(r, p) == \E k \in DOMAIN head[p] : head[p][k].by = r

Silent(r, text) == \A p \in PR : \A k : ~Says(r, p, k, text)
Freed(r, p, text) == \A j : Says(r, p, j, text) => \E k : j < k /\ Frees(r, p, k)

\* What is pushed, reported and approved up to each phase: nothing before its own step, and
\* what the record says when the run is about to release and when it has returned.
Traces(r) ==
  /\ run[r].pc \notin {"note", "release", "recover"} \cup Ended => \A p \in PR : ~Commits(r, p)
  /\ run[r].pc \notin {"release", "recover"} \cup Ended => Silent(r, "report") /\ Silent(r, "lgtm")
  /\ run[r].pc = "note" /\ run[r].record = "pushed_fixes" => Commits(r, run[r].target)
  /\ run[r].pc = "release" =>
       /\ run[r].record = "pushed_fixes" =>
            Commits(r, run[r].target) /\ \E k : Says(r, run[r].target, k, "report")
       /\ run[r].record = "no_work" =>
            /\ \A p \in PR : ~Commits(r, p)
            /\ \A p \in PR : \A k : Says(r, p, k, "lgtm") => p = run[r].target
  /\ run[r].pc = "done" =>
       /\ run[r].record = "pushed_fixes" =>
            \E p \in PR : /\ Commits(r, p) /\ Freed(r, p, "report")
                          /\ \E k : Says(r, p, k, "report")
       /\ run[r].record = "no_work" => \A p \in PR : ~Commits(r, p) /\ Freed(r, p, "lgtm")

\* What a run is seen to have said after a comment is appended.
LEMMA SaysAppended ==
  ASSUME thread \in [PR -> Seq(Comment)], NEW p \in PR, NEW c \in Comment,
         thread'[p] = Append(thread[p], c), NEW r
  PROVE  /\ \A k, text : Says(r, p, k, text)' <=>
              \/ Says(r, p, k, text)
              \/ k = Len(thread[p]) + 1 /\ c.run = r /\ c.text = text
         /\ \A k : Frees(r, p, k)' <=>
              \/ Frees(r, p, k)
              \/ k = Len(thread[p]) + 1 /\ c.run = r /\ c.text = "marker" /\ c.op = "release"
         /\ \A j, text : Says(r, p, j, text) => j < Len(thread[p]) + 1
<1> DEFINE s == thread[p]
           n == Len(thread[p]) + 1
<1>1. /\ s \in Seq(Comment) /\ DOMAIN thread'[p] = DOMAIN s \cup {n} /\ thread'[p][n] = c
      /\ n \notin DOMAIN s /\ \A k \in DOMAIN s : thread'[p][k] = s[k] /\ k < n
  <2>1. s \in Seq(Comment)
    OBVIOUS
  <2>2. /\ Len(s) \in Nat /\ DOMAIN s = 1..Len(s) /\ DOMAIN Append(s, c) = 1..Len(s) + 1
        /\ \A k \in DOMAIN s : Append(s, c)[k] = s[k]
        /\ Append(s, c)[Len(s) + 1] = c
    BY <2>1, AppendThread
  <2>3. (1..Len(s)) \cup {Len(s) + 1} = 1..Len(s) + 1 /\ Len(s) + 1 \notin 1..Len(s)
        /\ \A k \in 1..Len(s) : k < Len(s) + 1
    BY <2>2
  <2> QED
    BY <2>1, <2>2, <2>3
<1>2. \A k, text : Says(r, p, k, text)' <=>
         Says(r, p, k, text) \/ (k = n /\ c.run = r /\ c.text = text)
  <2> HIDE DEF n
  <2> QED
    BY <1>1 DEF Says
<1>3. \A k : Frees(r, p, k)' <=>
         Frees(r, p, k) \/ (k = n /\ c.run = r /\ c.text = "marker" /\ c.op = "release")
  <2> HIDE DEF n
  <2> QED
    BY <1>1 DEF Says, Frees
<1>4. \A j, text : Says(r, p, j, text) => j < n
  <2> HIDE DEF n
  <2> QED
    BY <1>1 DEF Says
<1> QED
  BY <1>2, <1>3, <1>4

\* Nobody writes comments or commits in another run's name.
LEMMA Quiet ==
  ASSUME ReviewerAssumption, Typed, [Next]_vars, NEW r \in Run
  PROVE  /\ ~Post(r) => \A p \in PR : \A k :
              /\ Frees(r, p, k)' <=> Frees(r, p, k)
              /\ \A text : Says(r, p, k, text)' <=> Says(r, p, k, text)
         /\ ~Push(r) => \A p \in PR : Commits(r, p)' <=> Commits(r, p)
<1>0. thread \in [PR -> Seq(Comment)] /\ head \in [PR -> Seq(Commit)] /\ r # None
  BY DEF Typed, TypeOK, Commit, ReviewerAssumption
<1>1. ASSUME NEW p \in PR, thread'[p] = thread[p] \/ \E c \in Comment : c.run # r /\ thread'[p] = Append(thread[p], c)
      PROVE  \A k : /\ Frees(r, p, k)' <=> Frees(r, p, k)
                    /\ \A text : Says(r, p, k, text)' <=> Says(r, p, k, text)
  <2>1. CASE thread'[p] = thread[p]
    BY <2>1 DEF Frees, Says
  <2>2. ASSUME NEW c \in Comment, c.run # r, thread'[p] = Append(thread[p], c)
        PROVE  \A k : /\ Frees(r, p, k)' <=> Frees(r, p, k)
                      /\ \A text : Says(r, p, k, text)' <=> Says(r, p, k, text)
    BY <1>0, <2>2, SaysAppended
  <2> QED
    BY <1>1, <2>1, <2>2
<1>2. ASSUME NEW p \in PR, head'[p] = head[p] \/ \E c \in Commit : c.by # r /\ head'[p] = Append(head[p], c)
      PROVE  Commits(r, p)' <=> Commits(r, p)
  <2>1. CASE head'[p] = head[p]
    BY <2>1 DEF Commits
  <2>2. ASSUME NEW c \in Commit, c.by # r, head'[p] = Append(head[p], c)
        PROVE  Commits(r, p)' <=> Commits(r, p)
    <3>1. head[p] \in Seq(Commit)
      BY <1>0
    <3>2. /\ Len(head[p]) \in Nat /\ DOMAIN head[p] = 1..Len(head[p])
          /\ DOMAIN head'[p] = 1..Len(head[p]) + 1
          /\ \A k \in DOMAIN head[p] : head'[p][k] = head[p][k]
          /\ head'[p][Len(head[p]) + 1] = c
      BY <2>2, <3>1, AppendHead
    <3>3. DOMAIN head'[p] = DOMAIN head[p] \cup {Len(head[p]) + 1}
      BY <3>2
    <3> QED
      BY <2>2, <3>2, <3>3 DEF Commits
  <2> QED
    BY <1>2, <2>1, <2>2
<1>3. ASSUME ~Post(r), NEW p \in PR
      PROVE  thread'[p] = thread[p] \/ \E c \in Comment : c.run # r /\ thread'[p] = Append(thread[p], c)
  <2>1. ASSUME NEW s \in Run, Begin(s) \/ RunStep(s) \/ Raises(s) \/ Crash(s), ~UNCHANGED thread
        PROVE  \/ thread'[p] = thread[p]
               \/ \E c \in Comment : c.run # r /\ thread'[p] = Append(thread[p], c)
    <3>1. Post(s) /\ thread' = [thread EXCEPT ![run[s].target] = Append(@, Outgoing(s))]
      BY <2>1, GitHubStep
    <3>2. s # r /\ Outgoing(s) \in Comment /\ Outgoing(s).run = s
      BY <1>3, <3>1, OutgoingType DEF Post
    <3> QED
      BY <1>0, <3>1, <3>2
  <2>2. ASSUME NEW q \in PR, PersonComments(q)
        PROVE  \/ thread'[p] = thread[p]
               \/ \E c \in Comment : c.run # r /\ thread'[p] = Append(thread[p], c)
    <3>1. PICK text \in {"command", "words"} :
             thread' = [thread EXCEPT ![q] =
                    Append(@, [op |-> "note", kind |-> Kind, run |-> None, until |-> 0,
                               text |-> text, read |-> 0, leased |-> FALSE])]
      BY <2>2 DEF PersonComments
    <3> DEFINE c == [op |-> "note", kind |-> Kind, run |-> None, until |-> 0,
                     text |-> text, read |-> 0, leased |-> FALSE]
    <3>2. c \in Comment /\ c.run # r
      BY <1>0, PersonType
    <3> HIDE DEF c
    <3>3. thread' = [thread EXCEPT ![q] = Append(@, c)]
      BY <3>1 DEF c
    <3> QED
      BY <1>0, <3>2, <3>3
  <2> QED
    BY <2>1, <2>2 DEF Next, vars, PersonPushes, MergeOrClose, Tick, github
<1>4. ASSUME ~Push(r), NEW p \in PR
      PROVE  head'[p] = head[p] \/ \E c \in Commit : c.by # r /\ head'[p] = Append(head[p], c)
  <2>1. ASSUME NEW s \in Run, Begin(s) \/ RunStep(s) \/ Raises(s) \/ Crash(s), ~UNCHANGED head
        PROVE  \/ head'[p] = head[p]
               \/ \E c \in Commit : c.by # r /\ head'[p] = Append(head[p], c)
    <3> DEFINE c == [by |-> s, seen |-> run[s].seen, leased |-> HoldsLease(s)]
    <3>1. Push(s) /\ head' = [head EXCEPT ![run[s].target] = Append(@, c)]
      BY <2>1, GitHubStep
    <3>2. s # r /\ c \in Commit /\ c.by # r
      BY <1>4, <3>1 DEF Commit, HoldsLease, Typed, TypeOK, Local
    <3> HIDE DEF c
    <3> QED
      BY <1>0, <3>1, <3>2
  <2>2. ASSUME NEW q \in PR, PersonPushes(q)
        PROVE  \/ head'[p] = head[p]
               \/ \E c \in Commit : c.by # r /\ head'[p] = Append(head[p], c)
    <3> DEFINE c == [by |-> None, seen |-> Len(head[q]), leased |-> FALSE]
    <3>1. c \in Commit /\ c.by # r /\ head' = [head EXCEPT ![q] = Append(@, c)]
      BY <1>0, <2>2, LenProperties DEF Commit, PersonPushes
    <3> HIDE DEF c
    <3> QED
      BY <1>0, <3>1
  <2> QED
    BY <2>1, <2>2 DEF Next, vars, PersonComments, MergeOrClose, Tick, github
<1> QED
  BY <1>1, <1>2, <1>3, <1>4
\* A step of a run keeps its traces true.
LEMMA TracesStep ==
  ASSUME ReviewerAssumption, Typed, NEW r \in Run, Traces(r), [Next]_vars,
         Begin(r) \/ RunStep(r) \/ Raises(r) \/ Crash(r)
  PROVE  Traces(r)'
<1> DEFINE l == run[r]
           m == run'[r]
           Calm == Phases \ ({"note", "release", "recover"} \cup Ended)
<1>0. /\ run \in [Run -> Local] /\ l \in Local /\ Sound(l) /\ l.pc \in Phases
      /\ thread \in [PR -> Seq(Comment)] /\ head \in [PR -> Seq(Commit)]
  BY DEF Typed, TypeOK, Sound, Local, Commit
<1>p. PICK p : p = run[r].target
  OBVIOUS
<1>n. PICK n : n = Len(thread[p]) + 1
  OBVIOUS
<1> USE <1>p, <1>n
\* Nothing has been pushed or written, and nothing is yet.
<1>1. ASSUME ~Post(r), ~Push(r), l.pc \in Calm, m.pc \in Calm
      PROVE  Traces(r)'
  BY <1>1, Quiet DEF Traces, Silent, Ended
<1>2. CASE \/ Begin(r) \/ Lists(r) \/ StandDown(r) \/ Stake(r) \/ ReadBackWins(r)
           \/ ReadBackLoses(r) \/ \E q \in PR : SkipsApproved(r, q) \/ Tries(r, q)
  <2>1. m.pc \in Calm
    <3>1. m.pc \in {"list", "scan", "try", "claim", "review"}
      BY <1>0, <1>2, ScanFields
    <3> QED
      BY <3>1 DEF Phases, WorkPhases, Posting, Ended
  <2>2. ~Post(r) /\ ~Push(r) /\ l.pc \in {"idle", "list", "scan", "try", "readback"}
    BY <1>2 DEF Begin, Lists, StandDown, Stake, ReadBackWins, ReadBackLoses, SkipsApproved, Tries,
                Post, Push, At, Posting
  <2> QED
    BY <1>0, <1>1, <2>1, <2>2 DEF Ended
<1>3. ASSUME ~Post(r), ~Push(r), l.pc \in Calm, m.pc \in {"note", "release"},
             m.record = "error" \/ (m.pc = "release" /\ m.record = "no_work")
      PROVE  Traces(r)'
  BY <1>3, Quiet DEF Traces, Silent, Ended
<1>4. CASE Review(r) \/ Rejected(r) \/ Verified(r) \/ Approve(r) \/ CommitStarts(r)
  <2>1. ~Post(r) /\ ~Push(r) /\ l.pc \in {"review", "verify", "approve", "commit"}
    BY <1>4 DEF Review, Rejected, Verified, Approve, CommitStarts, Post, Push, At, Posting
  <2>2. Approve(r) => l.record = "no_work"
    BY <1>0 DEF Approve, At, Sound, Consistent
  <2>3. \/ m.pc \in {"approve", "verify", "review", "commit", "lgtm", "push"}
        \/ m.pc \in {"note", "release"} /\ (m.record = "error" \/ (m.pc = "release" /\ m.record = "no_work"))
    BY <1>0, <1>4, <2>2, WorkFields
  <2>4. m.pc \in {"approve", "verify", "review", "commit", "lgtm", "push"} => m.pc \in Calm
    BY DEF Phases, WorkPhases, Posting, Ended
  <2>5. l.pc \in Calm
    BY <2>1 DEF Phases, WorkPhases, Posting, Ended
  <2> QED
    BY <1>1, <1>3, <2>1, <2>3, <2>4, <2>5
<1>5. CASE Push(r)
  <2>1. l.pc = "push" /\ p \in PR /\ ~Post(r)
    BY <1>0, <1>5 DEF Push, At, Sound, LocalOK, WorkPhases, Post, Posting
  <2>2. m.pc = "note" /\ m.target = p /\ m.record = "pushed_fixes"
    BY <1>0, <1>5, WorkFields DEF SameWork
  <2>3. Commits(r, p)'
    <3> DEFINE c == [by |-> r, seen |-> l.seen, leased |-> HoldsLease(r)]
    <3>1. c \in Commit /\ c.by = r
      BY <1>0 DEF Commit, HoldsLease, Local
    <3> HIDE DEF c
    <3>2. head'[p] = Append(head[p], c)
      BY <1>0, <1>5, <2>1 DEF Push, c
    <3>3. head[p] \in Seq(Commit)
      BY <1>0, <2>1
    <3>4. Len(head[p]) + 1 \in DOMAIN head'[p] /\ head'[p][Len(head[p]) + 1] = c
      BY <3>1, <3>2, <3>3, AppendHead
    <3>5. \E k \in DOMAIN head'[p] : head'[p][k].by = r
      BY <3>1, <3>4
    <3> QED
      BY <3>5 DEF Commits
  <2>4. Silent(r, "report")' /\ Silent(r, "lgtm")'
    BY <2>1, Quiet DEF Traces, Silent, Ended
  <2> QED
    BY <2>2, <2>3, <2>4 DEF Traces, Ended
<1>6. ASSUME l.pc \in Posting, Post(r)
      PROVE  /\ p \in PR /\ thread'[p] = Append(thread[p], Outgoing(r))
             /\ \A q \in PR : q # p => thread'[q] = thread[q]
             /\ \A q \in PR : Commits(r, q)' <=> Commits(r, q)
             /\ \A k, text : Says(r, p, k, text)' <=>
                  (Says(r, p, k, text) \/ (k = n /\ Text(r) = text))
             /\ \A q \in PR : q # p => \A k : /\ Frees(r, q, k)' <=> Frees(r, q, k)
                                              /\ \A text : Says(r, q, k, text)' <=> Says(r, q, k, text)
             /\ \A j, text : Says(r, p, j, text) => j < n
             /\ l.pc \in {"release", "recover"} => Frees(r, p, n)'
  <2>1. p \in PR /\ Outgoing(r) \in Comment /\ Outgoing(r).run = r /\ Outgoing(r).text = Text(r)
    BY <1>6, OutgoingType
  <2>2. thread'[p] = Append(thread[p], Outgoing(r)) /\ \A q \in PR : q # p => thread'[q] = thread[q]
    BY <1>0, <1>6, <2>1 DEF Post
  <2>3. ~Push(r)
    BY <1>6 DEF Push, At, Posting
  <2>4. \A q \in PR : q # p => \A k : /\ Frees(r, q, k)' <=> Frees(r, q, k)
                                      /\ \A text : Says(r, q, k, text)' <=> Says(r, q, k, text)
    BY <2>2 DEF Frees, Says
  <2>5. /\ \A k, text : Says(r, p, k, text)' <=> Says(r, p, k, text) \/ (k = n /\ Text(r) = text)
        /\ \A j, text : Says(r, p, j, text) => j < n
        /\ l.pc \in {"release", "recover"} => Frees(r, p, n)'
    <3>1. l.pc \in {"release", "recover"} => Text(r) = "marker" /\ Outgoing(r).op = "release"
      BY <1>6, OutgoingType
    <3>2. /\ \A k, text : Says(r, p, k, text)' <=>
               (Says(r, p, k, text) \/ (k = n /\ Outgoing(r).run = r /\ Outgoing(r).text = text))
          /\ \A k : Frees(r, p, k)' <=>
               \/ Frees(r, p, k)
               \/ k = n /\ Outgoing(r).run = r /\ Outgoing(r).text = "marker" /\ Outgoing(r).op = "release"
          /\ \A j, text : Says(r, p, j, text) => j < n
      <4> HIDE <1>p
      <4> QED
        BY <1>0, <2>1, <2>2, SaysAppended, ZenonT(30)
    <3> QED
      BY <2>1, <3>1, <3>2
  <2> QED
    BY <2>1, <2>2, <2>3, <2>4, <2>5, Quiet
<1>7. CASE Post(r)
  <2>0. l.pc \in Posting
    BY <1>7 DEF Post
  <2>1. CASE l.pc = "claim"
    <3>1. m.pc = "readback" /\ Text(r) = "marker"
      BY <1>0, <1>7, <2>0, <2>1, EndFields, OutgoingType
    <3>2. Silent(r, "report")' /\ Silent(r, "lgtm")'
      BY <1>6, <1>7, <2>0, <2>1, <3>1 DEF Traces, Silent, Ended
    <3> QED
      BY <1>6, <1>7, <2>0, <2>1, <3>1, <3>2 DEF Traces, Ended
  <2>2. CASE l.pc = "lgtm"
    <3>1. m.pc = "release" /\ Text(r) = "lgtm" /\ m.record = "no_work" /\ m.target = p
      <4>1. l.record = "no_work"
        BY <1>0, <2>2 DEF Sound, Consistent
      <4> QED
        BY <1>0, <1>7, <2>0, <2>2, <4>1, EndFields, OutgoingType DEF SameWork
    <3>2. \A q \in PR : ~Commits(r, q)'
      BY <1>6, <1>7, <2>0, <2>2 DEF Traces, Ended
    <3>3. \A q \in PR : \A k : Says(r, q, k, "lgtm")' => q = p
      BY <1>6, <1>7, <2>0, <2>2 DEF Traces, Silent, Ended
    <3> QED
      BY <3>1, <3>2, <3>3 DEF Traces, Ended
  <2>3. CASE l.pc = "note"
    <3>1. m.pc = "release" /\ Text(r) = "report" /\ m.record = l.record /\ m.target = p
          /\ l.record \in {"error", "pushed_fixes"}
      <4>1. l.record \in {"error", "pushed_fixes"}
        BY <1>0, <2>3 DEF Sound, Consistent
      <4> QED
        BY <1>0, <1>7, <2>0, <2>3, <4>1, EndFields, OutgoingType DEF SameWork
    <3>2. l.record = "pushed_fixes" => Commits(r, p)'
      BY <1>6, <1>7, <2>0, <2>3 DEF Traces
    <3>3. Says(r, p, n, "report")'
      BY <1>6, <1>7, <2>0, <3>1
    <3> QED
      BY <3>1, <3>2, <3>3 DEF Traces, Ended
  <2>4. CASE l.pc \in {"release", "recover"}
    <3>1. m.pc = "done" /\ m.record = l.record /\ Text(r) = "marker"
      BY <1>0, <1>7, <2>0, <2>4, EndFields, OutgoingType
    <3>2. \A text : text # "marker" => Freed(r, p, text)'
      BY <1>6, <1>7, <2>0, <2>4, <3>1 DEF Freed
    <3>3. ASSUME l.record = "pushed_fixes"
          PROVE  p \in PR /\ Commits(r, p)' /\ Freed(r, p, "report")' /\ \E k : Says(r, p, k, "report")'
      <4>1. l.pc = "release"
        BY <1>0, <2>4, <3>3 DEF Sound, Consistent
      <4>2. Commits(r, p) /\ \E k : Says(r, p, k, "report")
        BY <3>3, <4>1 DEF Traces
      <4> QED
        BY <1>6, <1>7, <2>0, <3>2, <4>2
    <3>4. ASSUME l.record = "no_work", NEW q \in PR PROVE ~Commits(r, q)' /\ Freed(r, q, "lgtm")'
      <4>1. l.pc = "release"
        BY <1>0, <2>4, <3>4 DEF Sound, Consistent
      <4>2. ~Commits(r, q) /\ \A k : Says(r, q, k, "lgtm") => q = p
        BY <3>4, <4>1 DEF Traces
      <4>3. CASE q = p
        BY <1>6, <1>7, <2>0, <3>2, <4>2, <4>3
      <4>4. CASE q # p
        BY <1>6, <1>7, <2>0, <4>2, <4>4 DEF Freed
      <4> QED
        BY <4>3, <4>4
    <3> QED
      BY <3>1, <3>3, <3>4 DEF Traces, Ended
  <2> QED
    BY <2>0, <2>1, <2>2, <2>3, <2>4 DEF Posting
<1>8. CASE Raises(r) \/ Crash(r)
  <2>1. \/ m.pc \in {"failed", "crashed", "recover"}
        \/ m.pc = "done" /\ m.record = "error"
    BY <1>0, <1>8, EndFields
  <2> QED
    BY <2>1 DEF Traces, Ended
<1>9. CASE NoWork(r)
  <2>1. m.pc = "done" /\ m.record = "no_work" /\ l.pc = "scan" /\ ~Post(r) /\ ~Push(r)
    BY <1>0, <1>9, EndFields DEF NoWork, At, Post, Push, Posting
  <2> QED
    BY <2>1, Quiet DEF Traces, Silent, Freed, Ended
<1> QED
  BY <1>2, <1>4, <1>5, <1>7, <1>8, <1>9 DEF RunStep
\* So does every step.
LEMMA TracesPreserved ==
  ASSUME ReviewerAssumption, Typed, [Next]_vars, NEW r \in Run, Traces(r)
  PROVE  Traces(r)'
<1>0. run \in [Run -> Local]
  BY DEF Typed, TypeOK
<1>1. CASE run'[r] # run[r]
  BY <1>1, StepOf, TracesStep
<1>2. CASE run'[r] = run[r]
  <2>1. ~Post(r)
    <3>1. Post(r) => run'[r].pc # run[r].pc
      BY <1>0, EndFields
    <3> QED
      BY <1>2, <3>1
  <2>2. ~Push(r)
    BY <1>0, <1>2, WorkFields DEF Push, At
  <2>3. /\ \A p \in PR : \A k : /\ Frees(r, p, k)' <=> Frees(r, p, k)
                                /\ \A text : Says(r, p, k, text)' <=> Says(r, p, k, text)
        /\ \A p \in PR : Commits(r, p)' <=> Commits(r, p)
    BY <2>1, <2>2, Quiet
  <2>4. \A p \in PR : \A text : Freed(r, p, text)' <=> Freed(r, p, text)
    BY <2>3 DEF Freed
  <2>5. \A text : Silent(r, text)' <=> Silent(r, text)
    BY <2>3 DEF Silent
  <2>6. PICK t : t = run[r].target
    OBVIOUS
  <2>7. run[r].pc \in {"note", "release"} => t \in PR
    BY <2>6 DEF Typed, TypeOK, LocalOK, Posting
  <2> QED
    BY <1>2, <2>3, <2>4, <2>5, <2>6, <2>7 DEF Traces
<1> QED
  BY <1>1, <1>2

\* A record tells what its run left on GitHub: "pushed_fixes" a commit, a report and then a
\* release; "no_work" no commit, and no approval that is not followed by a release.
THEOREM RecordsTrue == Spec => []RecordsAreTrue
<1> USE ReviewerAssumption
<1> DEFINE IInv == Typed /\ \A r \in Run : Traces(r)
<1>1. Init => IInv
  <2> SUFFICES ASSUME Init PROVE \A r \in Run : Traces(r)
    BY TypeInit
  <2>1. \A r \in Run : run[r].pc = "idle"
    BY DEF Init, Fresh
  <2>2. \A p \in PR : thread[p] = <<>> /\ head[p] = <<>>
    BY DEF Init
  <2> QED
    BY <2>1, <2>2 DEF Traces, Silent, Says, Commits, Ended
<1>2. IInv /\ [Next]_vars => IInv'
  BY TypeStep, TracesPreserved
<1>3. IInv => RecordsAreTrue
  <2> SUFFICES ASSUME IInv, NEW r \in Run, At(r, "done")
               PROVE  LET Wrote(p, k, text) == thread[p][k].run = r /\ thread[p][k].text = text
                          Released(p, text) ==
                            \A j \in DOMAIN thread[p] : Wrote(p, j, text) =>
                               \E k \in DOMAIN thread[p] : j < k /\ Wrote(p, k, "marker")
                                                           /\ thread[p][k].op = "release"
                          Pushed(p) == \E k \in DOMAIN head[p] : head[p][k].by = r
                      IN  /\ run[r].record = "pushed_fixes" =>
                               \E p \in PR : /\ Pushed(p)
                                             /\ \E k \in DOMAIN thread[p] : Wrote(p, k, "report")
                                             /\ Released(p, "report")
                          /\ run[r].record = "no_work" =>
                               \A p \in PR : ~Pushed(p) /\ Released(p, "lgtm")
    BY DEF RecordsAreTrue
  <2>1. Traces(r) /\ run[r].pc = "done"
    BY DEF At
  <2> QED
    BY <2>1 DEF Traces, Freed, Frees, Says, Commits
<1> QED
  BY <1>1, <1>2, <1>3, PTL DEF Spec

-----------------------------------------------------------------------------
(* How the local variables of a run show in those of the protocol *)

PhaseOf(p) ==
  CASE p = "try" -> "scan"
    [] p \in WorkPhases -> "work"
    [] p = "lgtm" -> "note"
    [] OTHER -> p

TargetOf(l) == IF l.pc = "try" THEN None ELSE l.target

\* The phase of the protocol is that of the run's own phase.
LEMMA PhaseIs == ASSUME NEW r PROVE Phase(r) = PhaseOf(run[r].pc)
  BY DEF Phase, PhaseOf, At

\* Every variable of the protocol changes at r alone, as the local variable does.
Mapped(r) ==
  LET l == run'[r]
      targets == [s \in Run |-> IF At(s, "try") THEN None ELSE run[s].target]
  IN  /\ Claims!Goes(r, PhaseOf(l.pc))
      /\ PhaseOf(l.pc) = Phase(r) => UNCHANGED [s \in Run |-> Phase(s)]
      /\ [s \in Run |-> run[s].now]' = [[s \in Run |-> run[s].now] EXCEPT ![r] = l.now]
      /\ l.now = run[r].now => UNCHANGED [s \in Run |-> run[s].now]
      /\ [s \in Run |-> run[s].todo]' = [[s \in Run |-> run[s].todo] EXCEPT ![r] = l.todo]
      /\ l.todo = run[r].todo => UNCHANGED [s \in Run |-> run[s].todo]
      /\ targets' = [targets EXCEPT ![r] = TargetOf(l)]
      /\ TargetOf(l) = TargetOf(run[r]) => UNCHANGED targets
      /\ [s \in Run |-> run[s].owner]' = [[s \in Run |-> run[s].owner] EXCEPT ![r] = l.owner]
      /\ l.owner = run[r].owner => UNCHANGED [s \in Run |-> run[s].owner]

\* A step of run r alone is such a change.
LEMMA MappedStep ==
  ASSUME run \in [Run -> Local], NEW r \in Run, NEW l, Becomes(r, l)
  PROVE  Mapped(r)
<1>1. run' = [s \in Run |-> IF s = r THEN l ELSE run[s]] /\ run'[r] = l
  BY DEF Becomes
<1>2. \A s \in Run : Phase(s)' = IF s = r THEN PhaseOf(l.pc) ELSE Phase(s)
  <2>1. \A s : Phase(s)' = PhaseOf(run'[s].pc)
    BY DEF Phase, PhaseOf, At
  <2> QED
    BY <1>1, <2>1, PhaseIs
<1>3. Claims!Goes(r, PhaseOf(l.pc))
  BY <1>2 DEF Claims!Goes
<1>4. PhaseOf(l.pc) = Phase(r) => UNCHANGED [s \in Run |-> Phase(s)]
  BY <1>2
<1> DEFINE T(s) == IF At(s, "try") THEN None ELSE run[s].target
<1>5. \A s \in Run : T(s)' = IF s = r THEN TargetOf(l) ELSE T(s)
  BY <1>1 DEF At, TargetOf
<1>6. T(r) = TargetOf(run[r])
  BY DEF At, TargetOf
<1>7. /\ [s \in Run |-> T(s)]' = [[s \in Run |-> T(s)] EXCEPT ![r] = TargetOf(l)]
      /\ TargetOf(l) = TargetOf(run[r]) => UNCHANGED [s \in Run |-> T(s)]
  <2> HIDE DEF T
  <2> QED
    BY <1>5, <1>6
<1> QED
  BY <1>1, <1>3, <1>4, <1>7 DEF Mapped

\* Every step of a run is.
LEMMA Mapping ==
  ASSUME ReviewerAssumption, Typed, NEW r \in Run, Begin(r) \/ RunStep(r) \/ Raises(r) \/ Crash(r)
  PROVE  Mapped(r)
  BY LocalStep, MappedStep DEF Typed, TypeOK

\* Nothing is retried or restarted.
LEMMA ZerosStay ==
  ASSUME NEW r \in Run
  PROVE  [[s \in Run |-> 0] EXCEPT ![r] = 0] = [s \in Run |-> 0]
  OBVIOUS

plainThreads == [p \in PR |-> [k \in DOMAIN thread[p] |-> Plain(thread[p][k])]]

\* A step that keeps to one phase of the protocol and to its variables is a stutter there.
LEMMA Internal ==
  ASSUME NEW r \in Run, Mapped(r), UNCHANGED <<clock, thread>>,
         PhaseOf(run'[r].pc) = Phase(r), run'[r].now = run[r].now, run'[r].todo = run[r].todo,
         TargetOf(run'[r]) = TargetOf(run[r]), run'[r].owner = run[r].owner
  PROVE  UNCHANGED Claims!vars
<1>1. UNCHANGED plainThreads
  BY DEF plainThreads
<1> QED
  BY <1>1 DEF Mapped, Claims!vars, plainThreads

\* The task returns: all its variables are reset.
LEMMA EndsMapped ==
  ASSUME NEW r \in Run, Mapped(r), run \in [Run -> Local], NEW phase \in Ended, NEW record,
         Ends(r, phase, record)
  PROVE  Claims!Ends(r, phase) /\ Claims!Proceeds(r, phase)
<1>1. PhaseOf(run'[r].pc) = phase
      /\ run'[r].now = 0 /\ run'[r].todo = {} /\ TargetOf(run'[r]) = None /\ run'[r].owner = 0
  BY DEF Ends, Becomes, Fresh, PhaseOf, Ended, WorkPhases, TargetOf
<1>2. Claims!Ends(r, phase)
  BY <1>1, ZerosStay DEF Mapped, Claims!Ends
<1>3. phase \in Claims!Ended
  BY DEF Claims!Ended, Ended
<1> QED
  BY <1>2, <1>3 DEF Claims!Proceeds

\* The run goes on with the same variables to another phase of the protocol.
LEMMA ProceedsMapped ==
  ASSUME NEW r \in Run, Mapped(r), NEW phase, PhaseOf(run'[r].pc) = phase, phase \notin Ended,
         SameWork(run[r], run'[r]), run[r].pc # "try", run'[r].pc # "try"
  PROVE  Claims!Proceeds(r, phase)
<1>1. phase \notin Claims!Ended
  BY DEF Claims!Ended, Ended
<1>2. TargetOf(run'[r]) = TargetOf(run[r])
  BY DEF TargetOf, SameWork
<1> QED
  BY <1>1, <1>2, ZerosStay DEF Mapped, Claims!Proceeds, SameWork

-----------------------------------------------------------------------------
(* How the threads show in those of the protocol *)

PlainOf(s) == [k \in DOMAIN s |-> Plain(s[k])]

\* The claim algebra looks at what Plain keeps.
LEMMA SameMarkers ==
  ASSUME NEW s, NEW t, DOMAIN t = DOMAIN s,
         \A i \in DOMAIN s : /\ t[i].op = s[i].op /\ t[i].kind = s[i].kind
                             /\ t[i].until = s[i].until
  PROVE  /\ \A k, i : Claims!ReleasedAfter(t, k, i) <=> ReleasedAfter(s, k, i)
         /\ \A k, n : Claims!OwningClaim(t, k, n) = OwningClaim(s, k, n)
<1>1. \A k, i : Claims!MarkerOf(t, k, i) <=> MarkerOf(s, k, i)
  BY DEF Claims!MarkerOf, MarkerOf
<1>2. \A k, i : Claims!ReleasedAfter(t, k, i) <=> ReleasedAfter(s, k, i)
  BY <1>1 DEF Claims!ReleasedAfter, ReleasedAfter, MarkerOf
<1>3. \A k, n, i : Claims!LiveClaim(t, k, n, i) <=> LiveClaim(s, k, n, i)
  BY <1>1, <1>2 DEF Claims!LiveClaim, LiveClaim, MarkerOf
<1>4. \A k, n, i : Claims!Owns(t, k, n, i) <=> Owns(s, k, n, i)
  BY <1>3 DEF Claims!Owns, Owns
<1>5. ASSUME NEW k, NEW n PROVE Claims!OwningClaim(t, k, n) = OwningClaim(s, k, n)
  <2>1. \A i : Claims!Owns(t, k, n, i) = Owns(s, k, n, i)
    <3>1. \A i : Claims!Owns(t, k, n, i) \in BOOLEAN /\ Owns(s, k, n, i) \in BOOLEAN
      BY DEF Claims!Owns, Owns
    <3> QED
      BY <1>4, <3>1
  <2> QED
    BY <2>1 DEF Claims!OwningClaim, OwningClaim
<1> QED
  BY <1>2, <1>5

\* The plain form of a thread has the same length and the same markers, and a comment that
\* is appended to the one is appended to the other.
LEMMA PlainThread ==
  ASSUME NEW s \in Seq(Comment)
  PROVE  /\ PlainOf(s) \in Seq({Plain(c) : c \in Comment})
         /\ DOMAIN PlainOf(s) = DOMAIN s /\ Len(PlainOf(s)) = Len(s)
         /\ \A i \in DOMAIN s : PlainOf(s)[i] = Plain(s[i])
         /\ \A c \in Comment : PlainOf(Append(s, c)) = Append(PlainOf(s), Plain(c))
<1> DEFINE P == {Plain(c) : c \in Comment}
<1>1. Len(s) \in Nat /\ DOMAIN s = 1..Len(s) /\ \A i \in 1..Len(s) : s[i] \in Comment
  BY LenProperties, ElementOfSeq
<1>2. PlainOf(s) = [k \in 1..Len(s) |-> Plain(s[k])]
  BY <1>1 DEF PlainOf
<1>3. \A i \in 1..Len(s) : Plain(s[i]) \in P
  BY <1>1
<1>4. PlainOf(s) \in Seq(P)
  <2> HIDE DEF P
  <2> QED
    BY <1>1, <1>2, <1>3
<1>5. DOMAIN PlainOf(s) = DOMAIN s /\ Len(PlainOf(s)) = Len(s)
      /\ \A i \in DOMAIN s : PlainOf(s)[i] = Plain(s[i])
  <2>1. DOMAIN PlainOf(s) = 1..Len(s) /\ \A i \in DOMAIN s : PlainOf(s)[i] = Plain(s[i])
    BY <1>1, <1>2
  <2>2. Len(PlainOf(s)) \in Nat /\ DOMAIN PlainOf(s) = 1..Len(PlainOf(s))
    BY <1>4, LenProperties
  <2> QED
    BY <1>1, <2>1, <2>2
<1>6. ASSUME NEW c \in Comment PROVE PlainOf(Append(s, c)) = Append(PlainOf(s), Plain(c))
  <2> DEFINE n == Len(s) + 1
  <2>1. /\ DOMAIN Append(s, c) = 1..n /\ \A k \in 1..Len(s) : Append(s, c)[k] = s[k]
        /\ Append(s, c)[n] = c
    BY <1>1, AppendThread
  <2>2. /\ Append(PlainOf(s), Plain(c)) \in Seq(P)
        /\ Len(Append(PlainOf(s), Plain(c))) = n
        /\ \A k \in 1..Len(s) : Append(PlainOf(s), Plain(c))[k] = PlainOf(s)[k]
        /\ Append(PlainOf(s), Plain(c))[n] = Plain(c)
    <3>1. Plain(c) \in P
      OBVIOUS
    <3> HIDE DEF P
    <3> QED
      BY <1>1, <1>4, <1>5, <3>1, AppendProperties
  <2>3. /\ DOMAIN Append(PlainOf(s), Plain(c)) = 1..n
        /\ Append(PlainOf(s), Plain(c)) = [k \in 1..n |-> Append(PlainOf(s), Plain(c))[k]]
    <3> HIDE DEF P, n
    <3> QED
      BY <2>2, LenProperties
  <2>4. ASSUME NEW k \in 1..n PROVE Plain(Append(s, c)[k]) = Append(PlainOf(s), Plain(c))[k]
    <3>1. k \in 1..Len(s) \/ k = n
      BY <1>1
    <3> HIDE DEF n
    <3> QED
      BY <1>1, <1>5, <2>1, <2>2, <3>1
  <2>5. PlainOf(Append(s, c)) = [k \in 1..n |-> Plain(Append(s, c)[k])]
    BY <2>1 DEF PlainOf
  <2> HIDE DEF n
  <2> QED
    BY <2>3, <2>4, <2>5
<1> QED
  BY <1>4, <1>5, <1>6
\* The page of the plain form is the plain form of the page, so both have the same owner.
LEMMA SameOwner ==
  ASSUME ReviewerAssumption, Typed, NEW p \in PR
  PROVE  /\ plainThreads[p] = PlainOf(thread[p])
         /\ \A n : Claims!OwningClaim(Claims!Seen(p), Kind, n) = OwningClaim(Seen(p), Kind, n)
         /\ \A k : Claims!ReleasedAfter(plainThreads[p], Kind, k) <=> ReleasedAfter(thread[p], Kind, k)
         /\ \A k \in DOMAIN thread[p] : /\ plainThreads[p][k].run = thread[p][k].run
                                        /\ plainThreads[p][k].until = thread[p][k].until
<1> DEFINE s == thread[p]
           t == PlainOf(s)
           n == IF Len(s) < Page THEN Len(s) ELSE Page
<1>1. s \in Seq(Comment)
  BY DEF Typed, TypeOK
<1>2. plainThreads[p] = t
  BY DEF plainThreads, PlainOf
<1>t. t \in Seq({Plain(c) : c \in Comment})
  BY <1>1, PlainThread
<1>3. /\ DOMAIN t = DOMAIN s /\ Len(t) = Len(s)
      /\ \A i \in DOMAIN s : t[i] = Plain(s[i])
  BY <1>1, PlainThread
<1>4. Len(s) \in Nat /\ DOMAIN s = 1..Len(s) /\ n \in Nat /\ n <= Len(s)
  BY <1>1, LenProperties DEF ReviewerAssumption
<1>5. Claims!Seen(p) = SubSeq(t, 1, n)
  <2>1. Claims!Seen(p) = Claims!FirstPage(t, Page)
    BY <1>2 DEF Claims!Seen, plainThreads
  <2> QED
    BY <1>3, <2>1 DEF Claims!FirstPage
<1>6. /\ DOMAIN SubSeq(t, 1, n) = 1..n /\ \A i \in 1..n : SubSeq(t, 1, n)[i] = t[i]
  <2> HIDE DEF n, t
  <2>1. \A i \in 1..n : t[i] \in {Plain(c) : c \in Comment}
    BY <1>t, <1>3, <1>4, ElementOfSeq
  <2>2. /\ SubSeq(t, 1, n) \in Seq({Plain(c) : c \in Comment})
        /\ Len(SubSeq(t, 1, n)) = IF 1 <= n THEN n - 1 + 1 ELSE 0
        /\ \A i \in 1..(n - 1 + 1) : SubSeq(t, 1, n)[i] = t[1 + i - 1]
    BY <1>4, <2>1, SubSeqProperties
  <2>3. Len(SubSeq(t, 1, n)) = n
    BY <1>4, <2>2
  <2>4. DOMAIN SubSeq(t, 1, n) = 1..n
    BY <2>2, <2>3, LenProperties
  <2> QED
    BY <1>4, <2>2, <2>4
<1>7. DOMAIN Seen(p) = 1..n /\ \A i \in 1..n : Seen(p)[i] = s[i]
  BY <1>1, PageDomain DEF Seen
<1> HIDE DEF n, t
<1>8. PICK u : u = Claims!Seen(p)
  OBVIOUS
<1>9. /\ DOMAIN u = 1..n
      /\ \A i \in 1..n : u[i] = t[i]
  BY <1>5, <1>6, <1>8
<1>10. \A i \in 1..n : i \in DOMAIN s
  BY <1>4
<1>11. \A i \in 1..n : u[i] = Plain(Seen(p)[i])
  BY <1>3, <1>7, <1>9, <1>10
<1>12. \A m : Claims!OwningClaim(Claims!Seen(p), Kind, m) = OwningClaim(Seen(p), Kind, m)
  <2>1. \A i \in DOMAIN Seen(p) : /\ u[i].op = Seen(p)[i].op /\ u[i].kind = Seen(p)[i].kind
                                  /\ u[i].until = Seen(p)[i].until
    <3>1. \A c : Plain(c).op = c.op /\ Plain(c).kind = c.kind /\ Plain(c).until = c.until
      BY DEF Plain
    <3> QED
      BY <1>7, <1>11, <3>1
  <2>2. DOMAIN u = DOMAIN Seen(p)
    BY <1>7, <1>9
  <2> QED
    BY <1>8, <2>1, <2>2, SameMarkers
<1>13. \A k \in DOMAIN s : /\ t[k].run = s[k].run /\ t[k].until = s[k].until
                           /\ t[k].op = s[k].op /\ t[k].kind = s[k].kind
  <2>1. \A c : /\ Plain(c).run = c.run /\ Plain(c).until = c.until
               /\ Plain(c).op = c.op /\ Plain(c).kind = c.kind
    BY DEF Plain
  <2> QED
    BY <1>3, <2>1
<1>14. \A k : Claims!ReleasedAfter(t, Kind, k) <=> ReleasedAfter(s, Kind, k)
  BY <1>3, <1>13, SameMarkers
<1> QED
  BY <1>2, <1>12, <1>13, <1>14 DEF t
-----------------------------------------------------------------------------
(* Every step of a run is a step of the protocol *)

\* What a run finds as the owner is what it finds in the protocol.
LEMMA OwnerMapped ==
  ASSUME ReviewerAssumption, Typed, NEW r \in Run, NEW p \in PR
  PROVE  /\ Claims!OwningClaim(Claims!Seen(p), Kind, run[r].now) = Owner(r, p)
         /\ Owner(r, p) # 0 =>
              (plainThreads[p][Owner(r, p)].run = r <=> thread[p][Owner(r, p)].run = r)
<1>1. Owner(r, p) # 0 => Owner(r, p) \in DOMAIN thread[p]
  BY OwnerType DEF Typed
<1> QED
  BY <1>1, SameOwner DEF Owner

\* Starting, listing and claiming.
LEMMA ScanMapped ==
  ASSUME ReviewerAssumption, Typed, NEW r \in Run, Mapped(r)
  PROVE  /\ Begin(r) => Claims!Begin(r)
         /\ Lists(r) => Claims!Lists(r)
         /\ NoWork(r) => Claims!NoWork(r)
         /\ \A p \in PR : /\ SkipsApproved(r, p) => Claims!Skip(r, p)
                          /\ Tries(r, p) => UNCHANGED Claims!vars
         /\ StandDown(r) => \E p \in PR : Claims!StandDown(r, p)
         /\ Stake(r) => \E p \in PR : Claims!Stake(r, p)
         /\ ReadBackWins(r) => Claims!ReadBackWins(r)
         /\ ReadBackLoses(r) => Claims!ReadBackLoses(r)
<1>0. /\ run \in [Run -> Local] /\ open \subseteq PR /\ LocalOK(run[r])
      /\ Consistent(run[r])
  BY DEF Typed, TypeOK
<1>a. UNCHANGED thread => UNCHANGED plainThreads
  BY DEF plainThreads
<1>b. \A ph : PhaseOf(ph) = IF ph = "try" THEN "scan"
                            ELSE IF ph \in WorkPhases THEN "work"
                            ELSE IF ph = "lgtm" THEN "note" ELSE ph
  BY DEF PhaseOf, WorkPhases
<1>c. Phase(r) = PhaseOf(run[r].pc)
  BY PhaseIs
<1>1. ASSUME Begin(r) PROVE Claims!Begin(r)
  <2>1. /\ Phase(r) = "idle" /\ PhaseOf(run'[r].pc) = "list" /\ run'[r].now = clock
        /\ run'[r].todo = run[r].todo /\ TargetOf(run'[r]) = TargetOf(run[r])
        /\ run'[r].owner = run[r].owner
    <3>1. run[r].pc = "idle"
      BY <1>1 DEF Begin, At
    <3> QED
      BY <1>0, <1>1, <1>b, <1>c, <3>1, ScanFields DEF TargetOf, WorkPhases
  <2> QED
    BY <1>1, <1>a, <2>1 DEF Mapped, Begin, github, Claims!Begin, Claims!Starts, plainThreads
<1>2. ASSUME Lists(r) PROVE Claims!Lists(r)
  <2>1. /\ Phase(r) = "list" /\ PhaseOf(run'[r].pc) = "scan" /\ run'[r].now = run[r].now
        /\ run'[r].todo \in SUBSET PR /\ TargetOf(run'[r]) = TargetOf(run[r])
        /\ run'[r].owner = run[r].owner
    <3>1. run[r].pc = "list"
      BY <1>2 DEF Lists, At
    <3> QED
      BY <1>0, <1>2, <1>b, <1>c, <3>1, ScanFields DEF TargetOf, WorkPhases
  <2> QED
    BY <1>2, <1>a, <2>1 DEF Mapped, Lists, github, Claims!Lists, plainThreads
<1>3. ASSUME NoWork(r) PROVE Claims!NoWork(r)
  <2>1. Phase(r) = "scan" /\ Claims!Ends(r, "done")
    BY <1>0, <1>3, EndsMapped DEF NoWork, At, Phase, WorkPhases, Ended
  <2> QED
    BY <1>3, <1>a, <2>1 DEF NoWork, github, Claims!NoWork, plainThreads
<1>4. ASSUME NEW p \in PR, SkipsApproved(r, p) PROVE Claims!Skip(r, p)
  <2>1. /\ Phase(r) = "scan" /\ PhaseOf(run'[r].pc) = Phase(r) /\ run'[r].now = run[r].now
        /\ run'[r].todo = run[r].todo \ {p} /\ TargetOf(run'[r]) = TargetOf(run[r])
        /\ run'[r].owner = run[r].owner
    <3>1. run[r].pc = "scan"
      BY <1>4 DEF SkipsApproved, At
    <3> QED
      BY <1>0, <1>4, <1>b, <1>c, <3>1, ScanFields DEF TargetOf, WorkPhases
  <2> QED
    BY <1>4, <1>a, <2>1 DEF Mapped, SkipsApproved, github, Claims!Skip, plainThreads
<1>5. ASSUME NEW p \in PR, Tries(r, p) PROVE UNCHANGED Claims!vars
  <2>1. /\ PhaseOf(run'[r].pc) = Phase(r) /\ run'[r].now = run[r].now
        /\ run'[r].todo = run[r].todo /\ TargetOf(run'[r]) = TargetOf(run[r])
        /\ run'[r].owner = run[r].owner
    <3>1. run[r].pc = "scan" /\ run[r].target = None
      BY <1>0, <1>5 DEF Tries, At, Consistent
    <3> QED
      BY <1>0, <1>5, <1>b, <1>c, <3>1, ScanFields DEF TargetOf, WorkPhases
  <2> QED
    BY <1>5, <2>1, Internal DEF Tries, github
<1>d. At(r, "try") => run[r].target \in PR /\ run[r].target \in run[r].todo
  BY <1>0 DEF At, LocalOK, Consistent
<1>6. ASSUME StandDown(r), NEW p \in PR, p = run[r].target PROVE Claims!StandDown(r, p)
  <2>1. /\ Phase(r) = "scan" /\ PhaseOf(run'[r].pc) = Phase(r) /\ run'[r].now = run[r].now
        /\ run'[r].todo = run[r].todo \ {p} /\ TargetOf(run'[r]) = TargetOf(run[r])
        /\ run'[r].owner = run[r].owner /\ p \in run[r].todo
    <3>1. run[r].pc = "try"
      BY <1>6 DEF StandDown, At
    <3> QED
      BY <1>0, <1>6, <1>b, <1>c, <1>d, <3>1, ScanFields DEF TargetOf, WorkPhases, At
  <2>2. Owner(r, p) # 0 /\ plainThreads[p][Owner(r, p)].run # r
    BY <1>6, OwnerMapped DEF StandDown, OwnedBy
  <2> QED
    BY <1>6, <1>a, <2>1, <2>2, OwnerMapped
    DEF Mapped, StandDown, github, Claims!StandDown, plainThreads
<1>7. ASSUME Stake(r), NEW p \in PR, p = run[r].target PROVE Claims!Stake(r, p)
  <2>1. /\ Phase(r) = "scan" /\ PhaseOf(run'[r].pc) = "claim" /\ run'[r].now = run[r].now
        /\ run'[r].todo = run[r].todo \ {p} /\ TargetOf(run'[r]) = p
        /\ run'[r].owner = run[r].owner /\ p \in run[r].todo
    <3>1. run[r].pc = "try"
      BY <1>7 DEF Stake, At
    <3> QED
      BY <1>0, <1>7, <1>b, <1>c, <1>d, <3>1, ScanFields DEF TargetOf, WorkPhases, At
  <2>2. p \in [s \in Run |-> run[s].todo][r]
    BY <2>1
  <2>3. Claims!OwningClaim(Claims!Seen(p), Kind, [s \in Run |-> run[s].now][r]) = 0
    BY <1>7, OwnerMapped DEF Stake
  <2>4. /\ Claims!Goes(r, "claim") /\ UNCHANGED <<clock, plainThreads>>
        /\ [s \in Run |-> run[s].todo]'
              = [[s \in Run |-> run[s].todo] EXCEPT ![r] = run[r].todo \ {p}]
        /\ [s \in Run |-> IF At(s, "try") THEN None ELSE run[s].target]'
              = [[s \in Run |-> IF At(s, "try") THEN None ELSE run[s].target] EXCEPT ![r] = p]
        /\ UNCHANGED <<[s \in Run |-> run[s].now], [s \in Run |-> run[s].owner]>>
    BY <1>7, <1>a, <2>1 DEF Mapped, Stake, github
  <2>5. [s \in Run |-> Phase(s)][r] = "scan"
    BY <2>1
  <2>6. [s \in Run |-> run[s].todo][r] = run[r].todo
    OBVIOUS
  <2> QED
    BY Zenon, <2>2, <2>3, <2>4, <2>5, <2>6 DEF Claims!Stake, plainThreads
<1>e. At(r, "readback") =>
        /\ run[r].target \in PR
        /\ [s \in Run |-> IF At(s, "try") THEN None ELSE run[s].target][r] = run[r].target
  BY <1>0 DEF At, LocalOK
<1>8. ASSUME ReadBackWins(r), NEW p \in PR, p = run[r].target PROVE Claims!ReadBackWins(r)
  <2>1. /\ Phase(r) = "readback" /\ PhaseOf(run'[r].pc) = "work" /\ run'[r].now = run[r].now
        /\ run'[r].todo = run[r].todo /\ TargetOf(run'[r]) = TargetOf(run[r])
        /\ run'[r].owner = Owner(r, p)
    <3>1. run[r].pc = "readback"
      BY <1>8 DEF ReadBackWins, At
    <3> QED
      BY <1>0, <1>8, <1>b, <1>c, <3>1, ScanFields DEF TargetOf, WorkPhases
  <2>2. Owner(r, p) # 0 => plainThreads[p][Owner(r, p)].run = r
    BY <1>8, OwnerMapped DEF ReadBackWins, OwnedBy
  <2>3. [s \in Run |-> IF At(s, "try") THEN None ELSE run[s].target][r] = p
    BY <1>8, <1>e DEF ReadBackWins
  <2>5. Claims!OwningClaim(Claims!Seen(p), Kind, [s \in Run |-> run[s].now][r]) = Owner(r, p)
    BY OwnerMapped
  <2>6. Owner(r, p) # 0 => plainThreads[p][Owner(r, p)].run = [s \in Run |-> s][r]
    BY <2>2
  <2>7. /\ Claims!Goes(r, "work") /\ UNCHANGED <<clock, plainThreads>>
        /\ [s \in Run |-> run[s].owner]' = [[s \in Run |-> run[s].owner] EXCEPT ![r] = Owner(r, p)]
        /\ UNCHANGED <<[s \in Run |-> run[s].now], [s \in Run |-> run[s].todo],
                       [s \in Run |-> IF At(s, "try") THEN None ELSE run[s].target]>>
    BY <1>8, <1>a, <2>1 DEF Mapped, ReadBackWins, github
  <2>8. [s \in Run |-> Phase(s)][r] = "readback"
    BY <2>1
  <2> QED
    BY Zenon, <2>3, <2>5, <2>6, <2>7, <2>8 DEF Claims!ReadBackWins, plainThreads
<1>9. ASSUME ReadBackLoses(r), NEW p \in PR, p = run[r].target PROVE Claims!ReadBackLoses(r)
  <2>1. /\ Phase(r) = "readback" /\ PhaseOf(run'[r].pc) = "scan" /\ run'[r].now = run[r].now
        /\ run'[r].todo = run[r].todo /\ TargetOf(run'[r]) = None
        /\ run'[r].owner = run[r].owner
    <3>1. run[r].pc = "readback"
      BY <1>9 DEF ReadBackLoses, At
    <3> QED
      BY <1>0, <1>9, <1>b, <1>c, <3>1, ScanFields DEF TargetOf, WorkPhases
  <2>2. Owner(r, p) # 0 /\ plainThreads[p][Owner(r, p)].run # r
    BY <1>9, OwnerMapped DEF ReadBackLoses, OwnedBy
  <2>3. [s \in Run |-> IF At(s, "try") THEN None ELSE run[s].target][r] = p
    BY <1>9, <1>e DEF ReadBackLoses
  <2>5. Claims!OwningClaim(Claims!Seen(p), Kind, [s \in Run |-> run[s].now][r]) = Owner(r, p)
    BY OwnerMapped
  <2>6. Owner(r, p) # 0 /\ plainThreads[p][Owner(r, p)].run # [s \in Run |-> s][r]
    BY <2>2
  <2>7. /\ Claims!Goes(r, "scan") /\ UNCHANGED <<clock, plainThreads>>
        /\ [s \in Run |-> IF At(s, "try") THEN None ELSE run[s].target]'
              = [[s \in Run |-> IF At(s, "try") THEN None ELSE run[s].target] EXCEPT ![r] = None]
        /\ UNCHANGED <<[s \in Run |-> run[s].now], [s \in Run |-> run[s].todo],
                       [s \in Run |-> run[s].owner]>>
    BY <1>9, <1>a, <2>1 DEF Mapped, ReadBackLoses, github
  <2>8. [s \in Run |-> Phase(s)][r] = "readback"
    BY <2>1
  <2> QED
    BY Zenon, <2>3, <2>5, <2>6, <2>7, <2>8 DEF Claims!ReadBackLoses, plainThreads
<1>10. /\ StandDown(r) \/ Stake(r) => At(r, "try")
       /\ ReadBackWins(r) \/ ReadBackLoses(r) => At(r, "readback")
  BY DEF StandDown, Stake, ReadBackWins, ReadBackLoses
<1> QED
  BY <1>1, <1>2, <1>3, <1>4, <1>5, <1>6, <1>7, <1>8, <1>9, <1>10, <1>d, <1>e
\* Reviewing, approving and pushing.
WorkStep(r) ==
  Review(r) \/ Rejected(r) \/ Verified(r) \/ Approve(r) \/ CommitStarts(r) \/ Push(r)

\* A run at work leaves the variables of the protocol alone until it goes to comment or to
\* release.
LEMMA WorkMapped ==
  ASSUME Typed, NEW r \in Run, Mapped(r), WorkStep(r)
  PROVE  Claims!Releases(r) \/ Claims!CommentsAndReleases(r) \/ UNCHANGED Claims!vars
<1>0. run \in [Run -> Local]
  BY DEF Typed, TypeOK
<1>1. UNCHANGED <<clock, thread>> /\ run[r].pc \in WorkPhases
  BY DEF WorkStep, Review, Rejected, Verified, Approve, CommitStarts, Push, At, WorkPhases, github
<1>2. SameWork(run[r], run'[r]) /\ run'[r].pc \in WorkPhases \cup {"lgtm", "note", "release"}
  BY <1>0, WorkFields DEF WorkStep, WorkPhases
<1>3. /\ Phase(r) = "work" /\ run[r].pc # "try" /\ run'[r].pc # "try"
      /\ TargetOf(run'[r]) = TargetOf(run[r])
  BY <1>1, <1>2 DEF Phase, At, WorkPhases, TargetOf, SameWork
<1>4. UNCHANGED plainThreads
  BY <1>1 DEF plainThreads
<1>5. CASE run'[r].pc \in WorkPhases
  <2>1. PhaseOf(run'[r].pc) = Phase(r)
    BY <1>3, <1>5 DEF PhaseOf, WorkPhases
  <2> QED
    BY <1>1, <1>2, <1>3, <2>1, Internal DEF SameWork
<1>6. ASSUME run'[r].pc \in {"lgtm", "note", "release"},
             NEW phase, phase = IF run'[r].pc = "release" THEN "release" ELSE "note"
      PROVE  Claims!Proceeds(r, phase)
  <2>1. PhaseOf(run'[r].pc) = phase /\ phase \notin Ended
    BY <1>6 DEF PhaseOf, WorkPhases, Ended
  <2> QED
    BY <1>2, <1>3, <2>1, ProceedsMapped
<1> QED
  BY <1>1, <1>2, <1>3, <1>4, <1>5, <1>6 DEF Claims!Releases, Claims!CommentsAndReleases, plainThreads

\* A comment is answered or refused, a run fails or crashes.
LEMMA LeavingMapped ==
  ASSUME ReviewerAssumption, Typed, NEW r \in Run, Mapped(r)
  PROVE  /\ Post(r) => Claims!Post(r)
         /\ Raises(r) => Claims!ReadFails(r) \/ Claims!Refused(r) \/ Claims!WorkFails(r)
         /\ Crash(r) => Claims!Crash(r)
<1>0. /\ run \in [Run -> Local] /\ run[r] \in Local /\ run[r].pc \in Phases
      /\ LocalOK(run[r]) /\ thread \in [PR -> Seq(Comment)]
  BY DEF Typed, TypeOK, Local
<1>a. UNCHANGED thread => UNCHANGED plainThreads
  BY DEF plainThreads
<1>b. Phase(r) = PhaseOf(run[r].pc)
  BY PhaseIs
<1>1. ASSUME Post(r) PROVE Claims!Post(r)
  <2>1. run[r].pc \in Posting /\ run[r].target \in PR /\ Outgoing(r) \in Comment
    BY <1>1, OutgoingType DEF Post
  <2>2. Phase(r) = IF run[r].pc = "lgtm" THEN "note" ELSE run[r].pc
    BY <1>b, <2>1 DEF PhaseOf, Posting, WorkPhases
  <2>3. Plain(Outgoing(r)) = Claims!Outgoing(r)
    <3>1. run[r].pc \in {"claim", "lgtm", "note", "release", "recover"}
      BY <2>1 DEF Posting
    <3> QED
      BY <2>2, <3>1
      DEF Plain, Outgoing, At, Claims!Outgoing, Claims!ClaimMarker, Claims!NoteOf, Claims!ReleaseMarker
  <2>4. Claims!Proceeds(r, Claims!Answered(Phase(r)))
    <3>1. ASSUME NEW phase \in {"readback", "release"}, SameWork(run[r], run'[r]), run'[r].pc = phase
          PROVE  Claims!Proceeds(r, phase)
      <4>1. PhaseOf(run'[r].pc) = phase /\ phase \notin Ended /\ run'[r].pc # "try" /\ run[r].pc # "try"
        BY <2>1, <3>1 DEF PhaseOf, WorkPhases, Ended, Posting
      <4> QED
        BY <3>1, <4>1, ProceedsMapped
    <3>2. CASE run[r].pc = "claim"
      <4>1. run'[r].pc = "readback" /\ SameWork(run[r], run'[r])
        BY <1>0, <1>1, <3>2, EndFields
      <4> QED
        BY <2>2, <3>1, <3>2, <4>1 DEF Claims!Answered
    <3>3. CASE run[r].pc \in {"lgtm", "note"}
      <4>1. run'[r].pc = "release" /\ SameWork(run[r], run'[r])
        BY <1>0, <1>1, <3>3, EndFields
      <4> QED
        BY <2>2, <3>1, <3>3, <4>1 DEF Claims!Answered
    <3>4. CASE run[r].pc \in {"release", "recover"}
      <4>1. Ends(r, "done", run[r].record)
        BY <1>0, <1>1, <3>4, EndFields
      <4>2. Claims!Proceeds(r, "done")
        BY <1>0, <4>1, EndsMapped DEF Ended
      <4> QED
        BY <2>2, <3>4, <4>2 DEF Claims!Answered
    <3> QED
      BY <2>1, <3>2, <3>3, <3>4 DEF Posting
  <2>5. plainThreads' = [plainThreads EXCEPT ![run[r].target] = Append(@, Plain(Outgoing(r)))]
    <3>1. /\ thread' = [thread EXCEPT ![run[r].target] = Append(@, Outgoing(r))]
          /\ thread' \in [PR -> Seq(Comment)]
      <4>1. \A s \in Seq(Comment) : Append(s, Outgoing(r)) \in Seq(Comment)
        BY <2>1, AppendProperties
      <4> QED
        BY <1>0, <1>1, <2>1, <4>1 DEF Post
    <3>2. ASSUME NEW p \in PR
          PROVE  PlainOf(thread'[p]) =
                   IF p = run[r].target THEN Append(PlainOf(thread[p]), Plain(Outgoing(r)))
                                        ELSE PlainOf(thread[p])
      BY <1>0, <2>1, <3>1, PlainThread
    <3>3. plainThreads = [p \in PR |-> PlainOf(thread[p])]
      BY DEF plainThreads, PlainOf
    <3>4. plainThreads' = [p \in PR |-> PlainOf(thread'[p])]
      BY DEF plainThreads, PlainOf
    <3> QED
      BY <2>1, <3>2, <3>3, <3>4
  <2>6. [s \in Run |-> IF At(s, "try") THEN None ELSE run[s].target][r] = run[r].target
    BY <2>1 DEF At, Posting
  <2>7. [s \in Run |-> Phase(s)][r] = Phase(r) /\ Phase(r) \in Claims!Posting /\ clock' = clock
    BY <1>1, <2>1, <2>2 DEF Posting, Claims!Posting, Post
  <2> QED
    BY <2>3, <2>4, <2>5, <2>6, <2>7 DEF Claims!Post, plainThreads
<1>2. ASSUME Raises(r)
      PROVE  Claims!ReadFails(r) \/ Claims!Refused(r) \/ Claims!WorkFails(r)
  <2>0. UNCHANGED <<clock, thread, plainThreads>>
    BY <1>2, <1>a DEF Raises, github
  <2>1. CASE /\ run[r].pc \in {"list", "scan", "try", "claim", "readback"}
             /\ Ends(r, "failed", "error")
    <3>1. Claims!Ends(r, "failed") /\ Claims!Proceeds(r, "failed")
      BY <1>0, <2>1, EndsMapped DEF Ended
    <3>2. Phase(r) = IF run[r].pc = "try" THEN "scan" ELSE run[r].pc
      BY <1>b, <2>1 DEF PhaseOf, WorkPhases
    <3> QED
      BY <2>0, <2>1, <3>1, <3>2
      DEF Claims!ReadFails, Claims!Refused, Claims!Posting, Claims!Raised, plainThreads
  <2>2. CASE run[r].pc = "recover" /\ Ends(r, "done", "error")
    <3>1. Claims!Proceeds(r, "done")
      BY <1>0, <2>2, EndsMapped DEF Ended
    <3>2. Phase(r) = "recover"
      BY <1>b, <2>2 DEF PhaseOf, WorkPhases
    <3> QED
      BY <2>0, <3>1, <3>2 DEF Claims!Refused, Claims!Posting, Claims!Raised, plainThreads
  <2>3. CASE /\ run[r].pc \in WorkPhases \cup {"lgtm", "note", "release"}
             /\ run'[r].pc = "recover" /\ SameWork(run[r], run'[r])
    <3>1. /\ PhaseOf(run'[r].pc) = "recover" /\ "recover" \notin Ended
          /\ run'[r].pc # "try" /\ run[r].pc # "try"
      BY <2>3 DEF PhaseOf, WorkPhases, Ended
    <3>2. Claims!Proceeds(r, "recover")
      BY <2>3, <3>1, ProceedsMapped
    <3>3. Phase(r) \in {"work", "note", "release"}
      BY <1>b, <2>3 DEF PhaseOf, WorkPhases
    <3> QED
      BY <2>0, <3>2, <3>3
      DEF Claims!Refused, Claims!WorkFails, Claims!Posting, Claims!Raised, plainThreads
  <2> QED
    BY <1>0, <1>2, <2>1, <2>2, <2>3, EndFields
<1>3. ASSUME Crash(r) PROVE Claims!Crash(r)
  <2>1. Claims!Ends(r, "crashed")
    BY <1>0, <1>3, EndFields, EndsMapped DEF Ended
  <2>2. Phase(r) \notin Ended \cup {"idle"}
    BY <1>b, <1>3 DEF Crash, PhaseOf, Ended, WorkPhases
  <2> QED
    BY <1>3, <1>a, <2>1, <2>2 DEF Crash, github, Ended, Claims!Crash, Claims!Ended, plainThreads
<1> QED
  BY <1>1, <1>2, <1>3

\* A person comments.
LEMMA PersonMapped ==
  ASSUME ReviewerAssumption, Typed, NEW p \in PR, PersonComments(p)
  PROVE  Claims!PersonComments(p)
<1>0. thread \in [PR -> Seq(Comment)]
  BY DEF Typed, TypeOK
<1>1. PICK text \in {"command", "words"} :
         thread' = [thread EXCEPT ![p] =
                Append(@, [op |-> "note", kind |-> Kind, run |-> None, until |-> 0,
                           text |-> text, read |-> 0, leased |-> FALSE])]
  BY DEF PersonComments
<1> DEFINE c == [op |-> "note", kind |-> Kind, run |-> None, until |-> 0,
                 text |-> text, read |-> 0, leased |-> FALSE]
<1>2. c \in Comment
  BY PersonType
<1>3. Plain(c) = Claims!NoteOf(None)
  BY DEF Plain, Claims!NoteOf
<1> HIDE DEF c
<1>4. thread' = [thread EXCEPT ![p] = Append(@, c)]
  BY <1>1 DEF c
<1>5. plainThreads' = [plainThreads EXCEPT ![p] = Append(@, Claims!NoteOf(None))]
  <2>1. ASSUME NEW q \in PR
        PROVE  PlainOf(thread'[q]) =
                 IF q = p THEN Append(PlainOf(thread[q]), Plain(c)) ELSE PlainOf(thread[q])
    BY <1>0, <1>2, <1>4, PlainThread
  <2>2. plainThreads = [q \in PR |-> PlainOf(thread[q])]
    BY DEF plainThreads, PlainOf
  <2>3. plainThreads' = [q \in PR |-> PlainOf(thread'[q])]
    BY DEF plainThreads, PlainOf
  <2> QED
    BY <1>3, <2>1, <2>2, <2>3
<1>6. {k \in DOMAIN plainThreads[p] : plainThreads[p][k].run = None} = ByPeople(thread[p])
  <2>1. plainThreads[p] = PlainOf(thread[p]) /\ DOMAIN PlainOf(thread[p]) = DOMAIN thread[p]
    BY SameOwner DEF PlainOf
  <2> QED
    BY <2>1, SameOwner DEF ByPeople
<1>7. Claims!Cardinality({k \in DOMAIN plainThreads[p] : plainThreads[p][k].run = None})
        < MaxComments
  <2>1. Cardinality(ByPeople(thread[p])) < MaxComments
    BY DEF PersonComments
  <2>2. ASSUME NEW S PROVE Claims!Cardinality(S) = Cardinality(S)
    BY Zenon DEF Claims!Cardinality, Cardinality
  <2> QED
    BY <1>6, <2>1, <2>2
<1>8. UNCHANGED <<clock, run>>
  BY DEF PersonComments
<1>9. /\ UNCHANGED <<clock, [r \in Run |-> Phase(r)]>>
      /\ UNCHANGED Claims!runVars
  BY <1>8 DEF Phase, At, Claims!runVars
<1> QED
  BY Zenon, <1>5, <1>7, <1>9 DEF Claims!PersonComments, plainThreads
-----------------------------------------------------------------------------
(* The refinement *)

\* It starts where the protocol starts.
LEMMA RefinesInit == Init => Claims!Init
<1> SUFFICES ASSUME Init PROVE Claims!Init
  OBVIOUS
<1>1. \A r \in Run : /\ run[r].pc = "idle" /\ run[r].now = 0 /\ run[r].todo = {}
                     /\ run[r].target = None /\ run[r].owner = 0
  BY DEF Init, Fresh
<1>2. \A r \in Run : Phase(r) = "idle" /\ ~At(r, "try")
  BY <1>1 DEF Phase, At, WorkPhases
<1>3. plainThreads = [p \in PR |-> <<>>]
  <2>1. \A p \in PR : thread[p] = <<>>
    BY DEF Init
  <2>2. \A p \in PR : [k \in DOMAIN thread[p] |-> Plain(thread[p][k])] = <<>>
    BY <2>1
  <2> QED
    BY <2>2 DEF plainThreads
<1>4. clock = 0
  BY DEF Init
<1> QED
  BY <1>1, <1>2, <1>3, <1>4 DEF Claims!Init, plainThreads

\* Every step is a step of the protocol or leaves its variables alone.
LEMMA RefinesStep ==
  ASSUME ReviewerAssumption, Typed, [Next]_vars
  PROVE  [Claims!Next]_(Claims!vars)
<1> DEFINE Goal == [Claims!Next]_(Claims!vars)
<1>1. ASSUME NEW r \in Run, Begin(r) \/ RunStep(r) \/ Raises(r) \/ Crash(r) PROVE Goal
  <2>1. Mapped(r)
    BY <1>1, Mapping
  <2>2. CASE Begin(r)
    BY <2>1, <2>2, ScanMapped DEF Claims!Next
  <2>3. CASE Raises(r) \/ Crash(r)
    BY <2>1, <2>3, LeavingMapped DEF Claims!Next, Claims!Failure
  <2>4. CASE RunStep(r)
    <3>1. CASE WorkStep(r)
      BY <2>1, <3>1, WorkMapped DEF Claims!Next, Claims!RunStep
    <3>2. CASE Post(r)
      BY <2>1, <3>2, LeavingMapped DEF Claims!Next, Claims!RunStep
    <3>3. CASE \E p \in PR : SkipsApproved(r, p) \/ Tries(r, p)
      BY <2>1, <3>3, ScanMapped DEF Claims!Next, Claims!RunStep
    <3>4. CASE StandDown(r) \/ Stake(r)
      BY <2>1, <3>4, ScanMapped DEF Claims!Next, Claims!RunStep
    <3>5. CASE Lists(r) \/ NoWork(r) \/ ReadBackWins(r) \/ ReadBackLoses(r)
      BY <2>1, <3>5, ScanMapped DEF Claims!Next, Claims!RunStep
    <3> QED
      BY <2>4, <3>1, <3>2, <3>3, <3>4, <3>5 DEF RunStep, WorkStep
  <2> QED
    BY <1>1, <2>2, <2>3, <2>4
<1>2. ASSUME NEW p \in PR, PersonComments(p) PROVE Goal
  BY <1>2, PersonMapped DEF Claims!Next
<1>3. ASSUME UNCHANGED <<clock, thread, run>> PROVE Goal
  <2>1. UNCHANGED plainThreads
    BY <1>3 DEF plainThreads
  <2> QED
    BY <1>3, <2>1 DEF Claims!vars, plainThreads, Phase, At
<1>4. ASSUME Tick PROVE Goal
  <2>1. UNCHANGED plainThreads
    BY <1>4 DEF Tick, github, plainThreads
  <2>2. Claims!Tick
    BY <1>4, <2>1 DEF Tick, github, Claims!Tick, Claims!runVars, plainThreads, Phase, At
  <2> QED
    BY <2>2 DEF Claims!Next
<1> QED
  BY <1>1, <1>2, <1>3, <1>4 DEF Next, PersonPushes, MergeOrClose, vars

\* The reviewer implements the claim protocol.
THEOREM ReviewerImplementsClaims == Spec => ImplementsClaims
<1> USE ReviewerAssumption
<1>1. Init => Claims!Init /\ Typed
  BY RefinesInit, TypeInit
<1>2. Typed /\ [Next]_vars => Typed'
  BY TypeStep
<1>3. Typed /\ [Next]_vars => [Claims!Next]_(Claims!vars)
  BY RefinesStep
<1> QED
  BY <1>1, <1>2, <1>3, PTL DEF Spec, ImplementsClaims, Claims!Spec
-----------------------------------------------------------------------------
(* What the protocol's theorems say of the reviewer *)

CP == INSTANCE ClaimProtocolProofs WITH
  RunId <- [r \in Run |-> r],
  Target <- PR,
  MaxRetries <- 0,
  MaxRestarts <- 0,
  MaxNotes <- MaxComments,
  wire <- {},
  thread <- [p \in PR |-> [k \in DOMAIN thread[p] |-> Plain(thread[p][k])]],
  pc <- [r \in Run |-> Phase(r)],
  now <- [r \in Run |-> run[r].now],
  todo <- [r \in Run |-> run[r].todo],
  target <- [r \in Run |-> IF At(r, "try") THEN None ELSE run[r].target],
  owner <- [r \in Run |-> run[r].owner],
  tries <- [r \in Run |-> 0],
  restarts <- [r \in Run |-> 0]

\* The protocol that Reviewer names is the one the theorems are about.
LEMMA SameSteps ==
  /\ Claims!Init <=> CP!Init
  /\ [Claims!Next]_(Claims!vars) <=> [CP!Next]_(CP!vars)
<1>1. /\ Claims!Init <=> CP!Init
      /\ UNCHANGED Claims!vars <=> UNCHANGED CP!vars
  BY Zenon DEF Claims!vars, CP!vars, Claims!Init, CP!Init
<1>2. ASSUME NEW r \in Run
      PROVE  /\ Claims!Begin(r) <=> CP!Begin(r)
             /\ Claims!Restart(r) <=> CP!Restart(r)
  BY Zenon DEF Claims!Begin, Claims!Restart, Claims!Starts, Claims!Goes,
     CP!Begin, CP!Restart, CP!Starts, CP!Goes
<1>3. ASSUME NEW r \in Run PROVE Claims!Failure(r) <=> CP!Failure(r)
  BY Zenon
  DEF Claims!Failure, Claims!ReadFails, Claims!WorkFails, Claims!TimesOut, Claims!Refused,
      Claims!Crash, Claims!Ends, Claims!Goes, Claims!Proceeds, Claims!Raised, Claims!Posting,
      Claims!RetriesLeft, Claims!Outgoing, Claims!ClaimMarker, Claims!NoteOf,
      Claims!ReleaseMarker, Claims!Ended,
      CP!Failure, CP!ReadFails, CP!WorkFails, CP!TimesOut, CP!Refused,
      CP!Crash, CP!Ends, CP!Goes, CP!Proceeds, CP!Raised, CP!Posting,
      CP!RetriesLeft, CP!Outgoing, CP!ClaimMarker, CP!NoteOf,
      CP!ReleaseMarker, CP!Ended
<1>4. ASSUME NEW r \in Run PROVE Claims!RunStep(r) <=> CP!RunStep(r)
  BY Zenon
  DEF Claims!RunStep, Claims!Lists, Claims!NoWork, Claims!StandDown, Claims!AlreadyHeld,
      Claims!Stake, Claims!ReadBackWins, Claims!ReadBackLoses, Claims!CommentsAndReleases,
      Claims!Releases, Claims!Keeps, Claims!Post, Claims!Answered, Claims!Ends, Claims!Goes,
      Claims!Proceeds, Claims!Posting, Claims!Outgoing, Claims!ClaimMarker, Claims!NoteOf,
      Claims!ReleaseMarker, Claims!Ended, Claims!Seen, Claims!FirstPage, Claims!OwningClaim,
      Claims!Owns, Claims!LiveClaim, Claims!ReleasedAfter, Claims!MarkerOf,
      CP!RunStep, CP!Lists, CP!NoWork, CP!StandDown, CP!AlreadyHeld,
      CP!Stake, CP!ReadBackWins, CP!ReadBackLoses, CP!CommentsAndReleases,
      CP!Releases, CP!Keeps, CP!Post, CP!Answered, CP!Ends, CP!Goes,
      CP!Proceeds, CP!Posting, CP!Outgoing, CP!ClaimMarker, CP!NoteOf,
      CP!ReleaseMarker, CP!Ended, CP!Seen, CP!FirstPage, CP!OwningClaim,
      CP!Owns, CP!LiveClaim, CP!ReleasedAfter, CP!MarkerOf
<1>5. /\ \A r \in Run, t \in PR : Claims!Skip(r, t) <=> CP!Skip(r, t)
      /\ \A t \in PR : Claims!PersonComments(t) <=> CP!PersonComments(t)
      /\ Claims!Tick <=> CP!Tick
  BY Zenon DEF Claims!Skip, Claims!PersonComments, Claims!NoteOf, Claims!Tick, Claims!runVars,
     Claims!Cardinality, CP!Skip, CP!PersonComments, CP!NoteOf, CP!Tick, CP!runVars,
     CP!Cardinality
<1>6. Claims!Next <=> CP!Next
  BY Zenon, <1>2, <1>3, <1>4, <1>5 DEF Claims!Next, CP!Next
<1> QED
  BY <1>1, <1>6

\* Its inductive invariant holds of the reviewer's claims, in every state and after every step.
LEMMA ClaimsInvariant == Spec => [](Typed /\ CP!IInv)
<1> USE ReviewerAssumption
<1>1. CP!ConstantsAssumption
  BY DEF CP!ConstantsAssumption, ReviewerAssumption
<1>2. Init => CP!Init /\ Typed
  BY RefinesInit, TypeInit, SameSteps
<1>3. Typed /\ [Next]_vars => Typed' /\ [CP!Next]_(CP!vars)
  BY TypeStep, RefinesStep, SameSteps
<1>4. CP!Spec => []CP!IInv
  BY <1>1, CP!Invariant
<1> QED
  BY <1>2, <1>3, <1>4, PTL DEF Spec, CP!Spec

\* Both copies of the claim algebra say the same of a release.
LEMMA SameRelease == \A t, k, i : CP!ReleasedAfter(t, k, i) <=> Claims!ReleasedAfter(t, k, i)
BY Zenon DEF Claims!ReleasedAfter, CP!ReleasedAfter, Claims!MarkerOf, CP!MarkerOf

\* A run that writes its approval still has the claim that it won: the protocol's invariant
\* says so of runs at work only.
WonAtComment ==
  \A r \in Run :
     run[r].pc = "lgtm" /\ run[r].owner # 0 =>
       CP!Won(plainThreads[run[r].target], r, run[r].owner, run[r].now)

Leasing == WorkPhases \cup {"lgtm"}

\* A step appends at most one comment to the plain form of a thread, too.
LEMMA ThreadsKept ==
  ASSUME ReviewerAssumption, Typed, CP!IInv, [Next]_vars, NEW p \in PR
  PROVE  /\ clock \in Nat /\ clock' \in Nat /\ clock <= clock'
         /\ \A k \in DOMAIN thread[p] : k \in DOMAIN thread'[p] /\ thread'[p][k] = thread[p][k]
         /\ \A k : ReleasedAfter(thread[p], Kind, k) => ReleasedAfter(thread'[p], Kind, k)
         /\ \A id, k, n : CP!Won(plainThreads[p], id, k, n) => CP!Won(plainThreads'[p], id, k, n)
<1>1. thread[p] \in Seq(Comment) /\ clock \in 0..MaxClock
  BY DEF Typed, TypeOK
<1>2. /\ clock' \in {clock, clock + 1}
      /\ thread'[p] = thread[p] \/ \E c \in Comment : thread'[p] = Append(thread[p], c)
  BY GitHubTyped
<1>3. clock \in Nat /\ clock' \in Nat /\ clock <= clock'
  BY <1>1, <1>2 DEF ReviewerAssumption
<1>4. \A k \in DOMAIN thread[p] : k \in DOMAIN thread'[p] /\ thread'[p][k] = thread[p][k]
  <2>1. ASSUME NEW c \in Comment, NEW k \in DOMAIN thread[p]
        PROVE  k \in DOMAIN Append(thread[p], c) /\ Append(thread[p], c)[k] = thread[p][k]
    BY <1>1, AppendThread
  <2> QED
    BY <1>2, <2>1
<1>5. \A k : ReleasedAfter(thread[p], Kind, k) => ReleasedAfter(thread'[p], Kind, k)
  BY <1>4 DEF ReleasedAfter, MarkerOf
<1>6. ASSUME NEW id, NEW k, NEW n, CP!Won(plainThreads[p], id, k, n)
      PROVE  CP!Won(plainThreads'[p], id, k, n)
  <2>1. CP!ConstantsAssumption
    BY DEF CP!ConstantsAssumption, ReviewerAssumption
  <2>2. [CP!Next]_(CP!vars)
    BY RefinesStep, SameSteps
  <2>3. plainThreads \in [PR -> Seq(CP!Comment)]
    BY DEF CP!IInv, CP!TypeOK, CP!GitHubTypeOK, plainThreads
  <2>4. \/ plainThreads'[p] = plainThreads[p]
        \/ \E c \in CP!Comment : plainThreads'[p] = Append(plainThreads[p], c)
    BY <2>1, <2>2, CP!ThreadsGrow DEF CP!IInv, plainThreads
  <2>5. ASSUME NEW t \in Seq(CP!Comment), NEW c \in CP!Comment, CP!Won(t, id, k, n)
        PROVE  CP!Won(Append(t, c), id, k, n)
    BY <2>1, <2>5, CP!WonStable DEF CP!ConstantsAssumption
  <2>6. plainThreads[p] \in Seq(CP!Comment)
    BY <2>3
  <2> QED
    BY <1>6, <2>4, <2>5, <2>6
<1> QED
  BY <1>3, <1>4, <1>5, <1>6
\* No two runs that work or write their approval hold a lease on one pull request.
LEMMA LeasesExclude ==
  ASSUME ReviewerAssumption, Typed, CP!IInv, WonAtComment
  PROVE  /\ \A r \in Run : run[r].now <= clock
         /\ \A r \in Run : run[r].pc \in Leasing /\ run[r].owner # 0 =>
              /\ CP!Won(plainThreads[run[r].target], r, run[r].owner, run[r].now)
              /\ run[r].target \in PR
              /\ run[r].owner \in DOMAIN thread[run[r].target]
         /\ \A r, s \in Run : HoldsLease(r) /\ HoldsLease(s) /\ run[r].target = run[s].target => r = s
<1>0. \A r \in Run : /\ run[r].pc \in Leasing => run[r].target \in PR
                     /\ run[r].owner \in Nat /\ run[r].now \in Nat
  BY DEF Typed, TypeOK, LocalOK, Local, Leasing, Posting, ReviewerAssumption
<1>1. \A r \in Run : /\ run[r].now <= clock
                     /\ Phase(r) = "work" /\ run[r].owner # 0 =>
                          CP!Won(plainThreads[IF At(r, "try") THEN None ELSE run[r].target],
                                 r, run[r].owner, run[r].now)
  BY DEF CP!IInv, CP!WonClaims, plainThreads
<1>2. ASSUME NEW r \in Run, run[r].pc \in Leasing, run[r].owner # 0
      PROVE  /\ CP!Won(plainThreads[run[r].target], r, run[r].owner, run[r].now)
             /\ run[r].owner \in DOMAIN thread[run[r].target]
  <2>1. run[r].pc \in WorkPhases => Phase(r) = "work" /\ ~At(r, "try")
    BY DEF Phase, At, WorkPhases
  <2>2. CP!Won(plainThreads[run[r].target], r, run[r].owner, run[r].now)
    BY <1>1, <1>2, <2>1 DEF Leasing, WonAtComment
  <2>3. run[r].owner \in DOMAIN plainThreads[run[r].target]
    BY <2>2 DEF CP!Won
  <2>4. DOMAIN plainThreads[run[r].target] = DOMAIN thread[run[r].target]
    BY <1>0, <1>2 DEF plainThreads
  <2> QED
    BY <2>2, <2>3, <2>4
<1>3. ASSUME NEW r \in Run, NEW s \in Run, HoldsLease(r), HoldsLease(s),
             run[r].target = run[s].target, r # s
      PROVE  FALSE
  <2>1. PICK p \in PR : p = run[r].target
    BY <1>0, <1>3 DEF HoldsLease, Leasing
  <2>2. PICK k \in Nat : k = run[r].owner
    BY <1>0
  <2>3. PICK j \in Nat : j = run[s].owner
    BY <1>0
  <2>4. /\ run[r].pc \in Leasing /\ k # 0 /\ ~ReleasedAfter(thread[p], Kind, k)
        /\ thread[p][k].until > clock
        /\ run[s].pc \in Leasing /\ j # 0 /\ ~ReleasedAfter(thread[p], Kind, j)
        /\ thread[p][j].until > clock
    BY <1>3, <2>1, <2>2, <2>3 DEF HoldsLease, Leasing
  <2>5. /\ CP!Won(plainThreads[p], r, k, run[r].now) /\ k \in DOMAIN thread[p]
        /\ CP!Won(plainThreads[p], s, j, run[s].now) /\ j \in DOMAIN thread[p]
    BY <1>2, <1>3, <2>1, <2>2, <2>3, <2>4
  <2>6. /\ \A i : CP!ReleasedAfter(plainThreads[p], Kind, i) <=> ReleasedAfter(thread[p], Kind, i)
        /\ \A i \in DOMAIN thread[p] : plainThreads[p][i].until = thread[p][i].until
    BY SameOwner, SameRelease
  <2>7. /\ \A i \in DOMAIN plainThreads[p] : plainThreads[p][i].kind = Kind
        /\ \A i \in DOMAIN thread[p] : thread[p][i].until \in Int
    <3>1. thread[p] \in Seq(Comment)
      BY DEF Typed, TypeOK
    <3>2. \A i \in DOMAIN thread[p] : thread[p][i] \in Comment
      BY <3>1, LenProperties, ElementOfSeq
    <3>3. \A i \in DOMAIN thread[p] : thread[p][i].kind = Kind /\ thread[p][i].until \in Int
      BY <3>2 DEF Comment
    <3>4. \A c : Plain(c).kind = c.kind
      BY DEF Plain
    <3> QED
      BY <3>3, <3>4 DEF plainThreads
  <2>8. \/ plainThreads[p][k].until <= run[s].now
        \/ plainThreads[p][j].until <= run[r].now
    <3>1. CP!ConstantsAssumption
      BY DEF CP!ConstantsAssumption, ReviewerAssumption
    <3>2. ~CP!ReleasedAfter(plainThreads[p], Kind, k) /\ ~CP!ReleasedAfter(plainThreads[p], Kind, j)
      BY <2>4, <2>6
    <3>3. ASSUME NEW t, t = plainThreads[p]
          PROVE  t[k].until <= run[s].now \/ t[j].until <= run[r].now
      BY <1>3, <2>5, <2>7, <3>1, <3>2, <3>3, CP!EarlierExpired DEF CP!ConstantsAssumption
    <3> QED
      BY <3>3
  <2>9. run[r].now <= clock /\ run[s].now <= clock /\ clock \in Nat
        /\ run[r].now \in Nat /\ run[s].now \in Nat
    BY <1>0, <1>1 DEF Typed, TypeOK, ReviewerAssumption
  <2> QED
    BY <2>4, <2>5, <2>6, <2>7, <2>8, <2>9
<1> QED
  BY <1>0, <1>1, <1>2, <1>3
\* A run that writes its approval did so before, or has just decided to under its claim.
LEMMA ApprovingFrom ==
  ASSUME ReviewerAssumption, Typed, [Next]_vars, NEW r \in Run, run'[r].pc = "lgtm"
  PROVE  /\ SameWork(run[r], run'[r])
         /\ \/ run'[r] = run[r]
            \/ Approve(r) /\ run[r].pc \in WorkPhases /\ NeedsLgtm(run[r].target)
               /\ UNCHANGED <<clock, thread>>
<1>0. run \in [Run -> Local]
  BY DEF Typed, TypeOK
<1>1. CASE run'[r] = run[r]
  BY <1>1 DEF SameWork
<1>2. CASE Approve(r)
  <2>1. SameWork(run[r], run'[r]) /\ NeedsLgtm(run[r].target)
    BY <1>0, <1>2, WorkFields
  <2> QED
    BY <1>2, <2>1 DEF Approve, At, WorkPhases, github
<1>3. CASE run'[r] # run[r] /\ ~Approve(r)
  <2>1. /\ ~Begin(r) /\ ~Lists(r) /\ ~StandDown(r) /\ ~Stake(r) /\ ~ReadBackWins(r)
        /\ ~ReadBackLoses(r) /\ \A p \in PR : ~SkipsApproved(r, p) /\ ~Tries(r, p)
    BY <1>0, ScanFields
  <2>2. ~Review(r) /\ ~Rejected(r) /\ ~Verified(r) /\ ~CommitStarts(r) /\ ~Push(r)
    BY <1>0, WorkFields
  <2>3. ~NoWork(r) /\ ~Post(r) /\ ~Raises(r) /\ ~Crash(r)
    BY <1>0, EndFields
  <2> QED
    BY <1>3, <2>1, <2>2, <2>3, StepOf DEF RunStep
<1> QED
  BY <1>1, <1>2, <1>3

\* What was won at work is still won at the comment.
LEMMA WonStep ==
  ASSUME ReviewerAssumption, Typed, CP!IInv, WonAtComment, [Next]_vars
  PROVE  WonAtComment'
<1> SUFFICES ASSUME NEW r \in Run, run'[r].pc = "lgtm", run'[r].owner # 0
             PROVE  CP!Won(plainThreads'[run'[r].target], r, run'[r].owner, run'[r].now)
  BY DEF WonAtComment
<1>1. /\ run[r].pc \in Leasing /\ run'[r].owner = run[r].owner
      /\ run'[r].target = run[r].target /\ run'[r].now = run[r].now
  BY ApprovingFrom DEF SameWork, Leasing
<1>2. /\ CP!Won(plainThreads[run[r].target], r, run[r].owner, run[r].now)
      /\ run[r].target \in PR
  BY <1>1, LeasesExclude
<1> QED
  BY <1>1, <1>2, ThreadsKept

\* A lease that has been lost does not come back.
LEMMA LeaseFades ==
  ASSUME ReviewerAssumption, Typed, CP!IInv, WonAtComment, [Next]_vars,
         NEW r \in Run, run[r].pc \in Leasing, run'[r].target = run[r].target,
         run'[r].owner = run[r].owner, HoldsLease(r)'
  PROVE  HoldsLease(r)
<1>p. PICK p : p = run[r].target
  OBVIOUS
<1>k. PICK k : k = run[r].owner
  OBVIOUS
<1>1. k # 0 /\ ~ReleasedAfter(thread'[p], Kind, k) /\ thread'[p][k].until > clock'
  BY <1>p, <1>k DEF HoldsLease
<1>2. k \in DOMAIN thread[p] /\ p \in PR
  BY <1>1, <1>p, <1>k, LeasesExclude
<1>3. /\ ~ReleasedAfter(thread[p], Kind, k) /\ thread'[p][k] = thread[p][k]
      /\ clock \in Nat /\ clock' \in Nat /\ clock <= clock'
  BY <1>1, <1>2, ThreadsKept
<1>4. thread[p][k].until \in Int
  <2>1. thread[p] \in Seq(Comment)
    BY <1>2 DEF Typed, TypeOK
  <2>2. thread[p][k] \in Comment
    BY <1>2, <2>1, LenProperties, ElementOfSeq
  <2> QED
    BY <2>2 DEF Comment
<1>5. thread[p][k].until > clock
  BY <1>1, <1>3, <1>4
<1> QED
  BY <1>1, <1>3, <1>5, <1>p, <1>k DEF HoldsLease, Leasing

\* The invariant of the claims, with the runs that write their approval.
ClaimsHold == Typed /\ CP!IInv /\ WonAtComment

\* It holds in every reachable state.
LEMMA ClaimsHoldAlways == Spec => []ClaimsHold
<1> USE ReviewerAssumption
<1>1. Init => WonAtComment
  BY DEF Init, Fresh, WonAtComment
<1>2. Typed /\ CP!IInv /\ WonAtComment /\ [Next]_vars => WonAtComment'
  BY WonStep
<1> QED
  BY <1>1, <1>2, ClaimsInvariant, PTL DEF Spec, ClaimsHold

-----------------------------------------------------------------------------
(* Fixes *)

\* While a run that holds its lease has fixes in hand, they know every commit that was
\* pushed under a lease.
FixesInHand ==
  \A r \in Run :
    run[r].pc \in {"verify"} \cup Pushing /\ HoldsLease(r) =>
      \A j \in DOMAIN head[run[r].target] :
        head[run[r].target][j].leased => j <= run[r].seen

\* Where a commit comes from: a person, or a run that says whether it holds its lease.
LEMMA CommitFrom ==
  ASSUME ReviewerAssumption, Typed, [Next]_vars, NEW p \in PR
  PROVE  \/ head'[p] = head[p]
         \/ \E c \in Commit :
              /\ head'[p] = Append(head[p], c)
              /\ c.leased => \E r \in Run : /\ Push(r) /\ run[r].target = p /\ HoldsLease(r)
                                            /\ run[r].pc = "push" /\ run'[r].pc = "note"
                                            /\ c.seen = run[r].seen
<1>0. head \in [PR -> Seq(Commit)] /\ run \in [Run -> Local] /\ \A r \in Run : LocalOK(run[r])
  BY DEF Typed, TypeOK, Commit
<1>1. ASSUME NEW r \in Run, Push(r),
             head' = [head EXCEPT ![run[r].target] =
                        Append(@, [by |-> r, seen |-> run[r].seen, leased |-> HoldsLease(r)])]
      PROVE  \/ head'[p] = head[p]
             \/ \E c \in Commit :
                  /\ head'[p] = Append(head[p], c)
                  /\ c.leased => /\ run[r].target = p /\ HoldsLease(r)
                                 /\ run[r].pc = "push" /\ run'[r].pc = "note"
                                 /\ c.seen = run[r].seen
  <2> DEFINE c == [by |-> r, seen |-> run[r].seen, leased |-> HoldsLease(r)]
  <2>1. c \in Commit /\ c.leased = HoldsLease(r) /\ c.seen = run[r].seen
    BY <1>0 DEF Commit, Local, HoldsLease
  <2>2. run[r].pc = "push" /\ run'[r].pc = "note"
    BY <1>0, <1>1, WorkFields DEF Push, At
  <2> HIDE DEF c
  <2>3. CASE run[r].target = p
    <3>1. head'[p] = Append(head[p], c)
      BY <1>0, <1>1, <2>3 DEF c
    <3> QED
      BY <2>1, <2>2, <2>3, <3>1
  <2>4. CASE run[r].target # p
    BY <1>0, <1>1, <2>1, <2>4
  <2> QED
    BY <2>3, <2>4
<1>2. ASSUME NEW q \in PR, PersonPushes(q)
      PROVE  head'[p] = head[p] \/ \E c \in Commit : head'[p] = Append(head[p], c) /\ ~c.leased
  <2>1. Len(head[p]) \in Nat
    BY <1>0, LenProperties
  <2>2. [by |-> None, seen |-> Len(head[p]), leased |-> FALSE] \in Commit
    BY <2>1 DEF Commit
  <2> QED
    BY <1>0, <1>2, <2>2 DEF PersonPushes
<1>3. CASE UNCHANGED head
  BY <1>3
<1>4. \/ UNCHANGED head
      \/ \E q \in PR : PersonPushes(q)
      \/ \E r \in Run : Begin(r) \/ RunStep(r) \/ Raises(r) \/ Crash(r)
  BY DEF Next, vars, PersonComments, MergeOrClose, Tick, github
<1>5. ASSUME NEW r \in Run, Begin(r) \/ RunStep(r) \/ Raises(r) \/ Crash(r), ~UNCHANGED head
      PROVE  /\ Push(r)
             /\ head' = [head EXCEPT ![run[r].target] =
                           Append(@, [by |-> r, seen |-> run[r].seen, leased |-> HoldsLease(r)])]
  BY <1>5, GitHubStep
<1>6. CASE ~UNCHANGED head /\ \A q \in PR : ~PersonPushes(q)
  <2>1. PICK r \in Run : Begin(r) \/ RunStep(r) \/ Raises(r) \/ Crash(r)
    BY <1>4, <1>6
  <2>2. \/ head'[p] = head[p]
        \/ \E c \in Commit :
             /\ head'[p] = Append(head[p], c)
             /\ c.leased => /\ Push(r) /\ run[r].target = p /\ HoldsLease(r)
                            /\ run[r].pc = "push" /\ run'[r].pc = "note"
                            /\ c.seen = run[r].seen
    BY <1>1, <1>5, <1>6, <2>1
  <2> QED
    BY <2>2
<1>7. CASE \E q \in PR : PersonPushes(q)
  BY <1>2, <1>7
<1> QED
  BY <1>3, <1>6, <1>7

\* No run that holds its lease pushes over what it has not seen.
LEMMA FixesStep ==
  ASSUME ReviewerAssumption, ClaimsHold, FixesInHand, NoFixOverwritten, [Next]_vars
  PROVE  FixesInHand' /\ NoFixOverwritten'
<1>0. Typed /\ CP!IInv /\ WonAtComment
  BY DEF ClaimsHold
<1>h. \A p \in PR : head[p] \in Seq(Commit)
  BY DEF ClaimsHold, Typed, TypeOK, Commit
<1>1. FixesInHand'
  <2> SUFFICES ASSUME NEW r \in Run, run'[r].pc \in {"verify"} \cup Pushing, HoldsLease(r)',
                      NEW j \in DOMAIN head'[run'[r].target], head'[run'[r].target][j].leased
               PROVE  j <= run'[r].seen
    BY DEF FixesInHand
  <2>p. PICK p : p = run[r].target
    OBVIOUS
  <2>1. SameWork(run[r], run'[r]) /\ run'[r].target = p /\ run'[r].owner = run[r].owner
    BY <1>0, <2>p, PushingFrom DEF SameWork
  <2>2. CASE Review(r) /\ run'[r].seen = Len(head[p]) /\ UNCHANGED head
    <3>1. run[r].target \in PR
      BY <1>0, <2>2 DEF Review, At, Typed, TypeOK, LocalOK, WorkPhases
    <3>2. DOMAIN head[p] = 1..Len(head[p]) /\ Len(head[p]) \in Nat
      BY <1>h, <2>p, <3>1, LenProperties
    <3> QED
      BY <2>1, <2>2, <3>2
  <2>3. CASE run[r].pc \in {"verify"} \cup Pushing /\ run'[r].seen = run[r].seen
    <3>0. run[r].pc \in Leasing
      BY <2>3 DEF Leasing, WorkPhases, Pushing
    <3>1. HoldsLease(r)
      BY <1>0, <2>1, <2>p, <3>0, LeaseFades
    <3>2. p \in PR
      BY <1>0, <2>p, <3>0, <3>1, LeasesExclude DEF HoldsLease
    <3>3. \A i \in DOMAIN head[p] : head[p][i].leased => i <= run[r].seen
      BY <2>3, <2>p, <3>1 DEF FixesInHand
    <3>4. CASE head'[p] = head[p]
      BY <2>1, <2>3, <3>3, <3>4
    <3>5. ASSUME NEW c \in Commit, head'[p] = Append(head[p], c),
                 c.leased => \E s \in Run : /\ run[s].target = p /\ HoldsLease(s)
                                            /\ run'[s].pc = "note"
          PROVE  j <= run'[r].seen
      <4>1. ~c.leased
        <5>1. run'[r].pc # "note"
          BY DEF Pushing
        <5>2. \A s \in Run : HoldsLease(s) /\ run[s].target = p => s = r
          BY <1>0, <2>p, <3>1, LeasesExclude
        <5> QED
          BY <3>5, <5>1, <5>2
      <4>2. \/ j \in DOMAIN head[p] /\ head'[p][j] = head[p][j]
            \/ head'[p][j] = c
        BY <1>h, <2>1, <3>2, <3>5, AppendHead
      <4> QED
        BY <2>1, <2>3, <3>3, <4>1, <4>2
    <3> QED
      BY <1>0, <3>2, <3>4, <3>5, CommitFrom
  <2> QED
    BY <1>0, <2>p, <2>2, <2>3, PushingFrom
<1>2. NoFixOverwritten'
  <2> SUFFICES ASSUME NEW p \in PR, NEW j \in DOMAIN head'[p], NEW k \in DOMAIN head'[p],
                      head'[p][j].leased, head'[p][k].leased, j < k
               PROVE  j <= head'[p][k].seen
    BY DEF NoFixOverwritten
  <2>1. CASE head'[p] = head[p]
    BY <2>1 DEF NoFixOverwritten
  <2>2. ASSUME NEW c \in Commit, head'[p] = Append(head[p], c),
               c.leased => \E r \in Run : /\ run[r].target = p /\ HoldsLease(r)
                                          /\ run[r].pc = "push" /\ c.seen = run[r].seen
        PROVE  j <= head'[p][k].seen
    <3>1. /\ Len(head[p]) \in Nat /\ DOMAIN head[p] = 1..Len(head[p])
          /\ DOMAIN head'[p] = 1..Len(head[p]) + 1
          /\ \A i \in DOMAIN head[p] : head'[p][i] = head[p][i]
          /\ head'[p][Len(head[p]) + 1] = c
      BY <1>h, <2>2, AppendHead
    <3>2. j \in DOMAIN head[p]
      BY <3>1
    <3>3. CASE k \in DOMAIN head[p]
      BY <3>1, <3>2, <3>3 DEF NoFixOverwritten
    <3>4. CASE k = Len(head[p]) + 1
      <4>1. PICK r \in Run : /\ run[r].target = p /\ HoldsLease(r)
                             /\ run[r].pc = "push" /\ c.seen = run[r].seen
        BY <2>2, <3>1, <3>4
      <4>2. j <= run[r].seen
        BY <3>1, <3>2, <4>1 DEF FixesInHand, Pushing
      <4> QED
        BY <3>1, <3>4, <4>1, <4>2
    <3> QED
      BY <3>1, <3>3, <3>4
  <2> QED
    BY <1>0, <2>1, <2>2, CommitFrom
<1> QED
  BY <1>1, <1>2

\* A verified fix never overwrites another fix that was pushed under a lease and that its
\* review had not seen.
THEOREM FixesSeeEachOther == Spec => []NoFixOverwritten
<1> USE ReviewerAssumption
<1> DEFINE I == FixesInHand /\ NoFixOverwritten
<1>1. Init => I
  BY DEF Init, Fresh, FixesInHand, NoFixOverwritten, Pushing
<1>2. ClaimsHold /\ I /\ [Next]_vars => I'
  BY FixesStep
<1>3. I => NoFixOverwritten
  OBVIOUS
<1> HIDE DEF I
<1> QED
  BY <1>1, <1>2, <1>3, ClaimsHoldAlways, PTL DEF Spec
-----------------------------------------------------------------------------
(* Approvals *)

\* Every conversation fits on the page that the pipeline fetches.
ConversationsFit == \A p \in PR : Len(thread[p]) <= Page

\* A set of positions in a sequence has a last one.
LEMMA LastPosition ==
  ASSUME NEW n \in Nat, NEW found \in SUBSET (1..n), found # {}
  PROVE  \E k \in found : \A j \in found : j <= k
<1> DEFINE R == OpToRel(<, Nat)
           T == {n - j : j \in found}
<1>1. IsWellFoundedOn(R, Nat)
  BY NatLessThanWellFounded
<1>2. R = {ss \in Nat \X Nat : ss[1] < ss[2]}
  BY DEF OpToRel
<1>3. T \subseteq Nat /\ T # {}
  <2>1. \A j \in found : n - j \in Nat
    OBVIOUS
  <2>2. PICK j \in found : TRUE
    OBVIOUS
  <2>3. n - j \in T
    BY <2>2
  <2> QED
    BY <2>1, <2>3
<1> HIDE DEF R
<1>4. PICK m \in T : \A i \in T : <<i, m>> \notin R
  <2> HIDE DEF T
  <2> QED
    BY <1>1, <1>3, WFMin
<1>5. \A i \in T : m <= i
  <2> HIDE DEF T
  <2>1. m \in Nat /\ \A i \in T : i \in Nat
    BY <1>3
  <2>2. \A i \in T : ~(i < m)
    BY <1>2, <1>4, <2>1
  <2> QED
    BY <2>1, <2>2
<1>6. PICK k \in found : m = n - k
  OBVIOUS
<1>7. ASSUME NEW j \in found PROVE j <= k
  <2>1. n - k <= n - j
    BY <1>5, <1>6
  <2> QED
    BY <2>1
<1> QED
  BY <1>7

\* Last finds the last comment with that text, or 0 when there is none.
LEMMA LastFound ==
  ASSUME ReviewerAssumption, Typed, NEW p \in PR, NEW text
  PROVE  \A j \in DOMAIN Seen(p) : Seen(p)[j].text = text =>
           j <= Last(Seen(p), text) /\ Last(Seen(p), text) \in DOMAIN Seen(p)
<1> DEFINE s == Seen(p)
           found == {k \in DOMAIN s : s[k].text = text}
           n == IF Len(thread[p]) < Page THEN Len(thread[p]) ELSE Page
<1>1. thread[p] \in Seq(Comment)
  BY DEF Typed, TypeOK
<1>2. DOMAIN s = 1..n /\ n \in Nat
  BY <1>1, PageDomain, LenProperties DEF Seen, ReviewerAssumption
<1> HIDE DEF s, n
<1> SUFFICES ASSUME NEW j \in found PROVE j <= Last(s, text) /\ Last(s, text) \in DOMAIN s
  BY DEF s
<1>3. \E k \in found : \A i \in found : i <= k
  BY <1>2, LastPosition
<1>4. Last(s, text) = CHOOSE k \in found : \A i \in found : i <= k
  BY DEF Last
<1>5. Last(s, text) \in found /\ j <= Last(s, text)
  <2> HIDE DEF found
  <2> QED
    BY <1>3, <1>4
<1> QED
  BY <1>2, <1>5

\* Whoever finds that a pull request needs an approval has seen that a person has spoken
\* since every earlier one, when the conversation fits on the page.
LEMMA NeedsLgtmSees ==
  ASSUME ReviewerAssumption, Typed, ConversationsFit, NEW p \in PR, NeedsLgtm(p),
         NEW j \in DOMAIN thread[p], thread[p][j].text = "lgtm"
  PROVE  \E i \in ByPeople(thread[p]) : j < i
<1>1. thread[p] \in Seq(Comment) /\ Len(thread[p]) <= Page
  BY DEF Typed, TypeOK, ConversationsFit
<1>2. /\ Len(thread[p]) \in Nat /\ DOMAIN thread[p] = 1..Len(thread[p])
      /\ DOMAIN Seen(p) = DOMAIN thread[p]
      /\ \A i \in DOMAIN Seen(p) : Seen(p)[i] = thread[p][i]
  BY <1>1, PageDomain, LenProperties DEF Seen, ReviewerAssumption
<1>3. j <= Last(Seen(p), "lgtm") /\ Last(Seen(p), "lgtm") \in 1..Len(thread[p])
  BY <1>2, LastFound
<1>4. PICK i \in ByPeople(Seen(p)) : i > Last(Seen(p), "lgtm")
  BY <1>2, <1>3 DEF NeedsLgtm
<1>5. i \in ByPeople(thread[p])
  BY <1>2 DEF ByPeople
<1>6. i \in Nat /\ j \in Nat
  BY <1>2, <1>5 DEF ByPeople
<1> QED
  BY <1>2, <1>3, <1>4, <1>5, <1>6
\* While a run that holds its lease writes an approval, a person has spoken since every
\* earlier approval that was given under a lease.
ApprovalInHand ==
  \A r \in Run :
    At(r, "lgtm") /\ HoldsLease(r) =>
      \A j \in DOMAIN thread[run[r].target] :
        /\ thread[run[r].target][j].text = "lgtm"
        /\ thread[run[r].target][j].leased
        => \E i \in ByPeople(thread[run[r].target]) : j < i

\* Where an approval given under a lease comes from.
LEMMA ApprovalFrom ==
  ASSUME ReviewerAssumption, Typed, [Next]_vars, NEW p \in PR
  PROVE  \/ thread'[p] = thread[p]
         \/ \E c \in Comment :
              /\ thread'[p] = Append(thread[p], c)
              /\ c.text = "lgtm" /\ c.leased =>
                   \E r \in Run : /\ At(r, "lgtm") /\ run[r].target = p /\ HoldsLease(r)
                                  /\ run'[r].pc = "release"
<1>0. thread \in [PR -> Seq(Comment)] /\ run \in [Run -> Local]
  BY DEF Typed, TypeOK
<1>1. ASSUME NEW r \in Run, Post(r),
             thread' = [thread EXCEPT ![run[r].target] = Append(@, Outgoing(r))]
      PROVE  \/ thread'[p] = thread[p]
             \/ \E c \in Comment :
                  /\ thread'[p] = Append(thread[p], c)
                  /\ c.text = "lgtm" /\ c.leased =>
                       /\ At(r, "lgtm") /\ run[r].target = p /\ HoldsLease(r)
                       /\ run'[r].pc = "release"
  <2>1. run[r].pc \in Posting
    BY <1>1 DEF Post
  <2>2. Outgoing(r) \in Comment /\ Outgoing(r).text = Text(r) /\ Outgoing(r).leased = HoldsLease(r)
        /\ (Text(r) = "lgtm" => run[r].pc = "lgtm")
    BY <2>1, OutgoingType DEF Posting
  <2>3. run[r].pc = "lgtm" => run'[r].pc = "release"
    BY <1>0, <1>1, EndFields
  <2>c. PICK c : c = Outgoing(r)
    OBVIOUS
  <2>4. CASE run[r].target = p
    <3>1. thread'[p] = Append(thread[p], c)
      BY <1>0, <1>1, <2>4, <2>c
    <3> QED
      BY <2>2, <2>3, <2>4, <2>c, <3>1 DEF At
  <2>5. CASE run[r].target # p
    BY <1>0, <1>1, <2>5
  <2> QED
    BY <2>4, <2>5
<1>2. ASSUME NEW q \in PR, PersonComments(q)
      PROVE  \/ thread'[p] = thread[p]
             \/ \E c \in Comment : thread'[p] = Append(thread[p], c) /\ ~c.leased
  <2>1. PICK text \in {"command", "words"} :
           thread' = [thread EXCEPT ![q] =
                Append(@, [op |-> "note", kind |-> Kind, run |-> None, until |-> 0,
                           text |-> text, read |-> 0, leased |-> FALSE])]
    BY <1>2 DEF PersonComments
  <2> DEFINE c == [op |-> "note", kind |-> Kind, run |-> None, until |-> 0,
                   text |-> text, read |-> 0, leased |-> FALSE]
  <2>2. c \in Comment /\ ~c.leased
    BY PersonType
  <2> HIDE DEF c
  <2>3. thread' = [thread EXCEPT ![q] = Append(@, c)]
    BY <2>1 DEF c
  <2> QED
    BY <1>0, <2>2, <2>3
<1>3. \/ UNCHANGED thread
      \/ \E q \in PR : PersonComments(q)
      \/ \E r \in Run : Begin(r) \/ RunStep(r) \/ Raises(r) \/ Crash(r)
  BY DEF Next, vars, PersonPushes, MergeOrClose, Tick, github
<1>4. ASSUME NEW r \in Run, Begin(r) \/ RunStep(r) \/ Raises(r) \/ Crash(r), ~UNCHANGED thread
      PROVE  /\ Post(r)
             /\ thread' = [thread EXCEPT ![run[r].target] = Append(@, Outgoing(r))]
  BY <1>4, GitHubStep
<1>5. CASE UNCHANGED thread
  BY <1>5
<1>6. CASE ~UNCHANGED thread /\ \A q \in PR : ~PersonComments(q)
  <2>1. PICK r \in Run : Begin(r) \/ RunStep(r) \/ Raises(r) \/ Crash(r)
    BY <1>3, <1>6
  <2>2. \/ thread'[p] = thread[p]
        \/ \E c \in Comment :
             /\ thread'[p] = Append(thread[p], c)
             /\ c.text = "lgtm" /\ c.leased =>
                  /\ At(r, "lgtm") /\ run[r].target = p /\ HoldsLease(r)
                  /\ run'[r].pc = "release"
    BY <1>1, <1>4, <1>6, <2>1
  <2> QED
    BY <2>2
<1>7. CASE \E q \in PR : PersonComments(q)
  BY <1>2, <1>7
<1> QED
  BY <1>5, <1>6, <1>7

\* No run that holds its lease repeats an approval that nobody has answered.
LEMMA ApprovalStep ==
  ASSUME ReviewerAssumption, ClaimsHold, ConversationsFit, ApprovalInHand,
         ApprovalsAnswerPeople, [Next]_vars
  PROVE  ApprovalInHand' /\ ApprovalsAnswerPeople'
<1>0. Typed /\ CP!IInv /\ WonAtComment
  BY DEF ClaimsHold
<1>h. \A p \in PR : thread[p] \in Seq(Comment)
  BY DEF ClaimsHold, Typed, TypeOK
\* What a person has said stays said.
<1>g. ASSUME NEW p \in PR, NEW c \in Comment, thread'[p] = Append(thread[p], c)
      PROVE  /\ Len(thread[p]) \in Nat /\ DOMAIN thread[p] = 1..Len(thread[p])
             /\ DOMAIN thread'[p] = 1..Len(thread[p]) + 1
             /\ \A i \in DOMAIN thread[p] : thread'[p][i] = thread[p][i]
             /\ thread'[p][Len(thread[p]) + 1] = c
             /\ ByPeople(thread[p]) \subseteq ByPeople(thread'[p])
  <2>1. /\ Len(thread[p]) \in Nat /\ DOMAIN thread[p] = 1..Len(thread[p])
        /\ DOMAIN thread'[p] = 1..Len(thread[p]) + 1
        /\ \A i \in DOMAIN thread[p] : thread'[p][i] = thread[p][i]
        /\ thread'[p][Len(thread[p]) + 1] = c
    BY <1>h, <1>g, AppendThread
  <2> QED
    BY <2>1 DEF ByPeople
<1>1. ApprovalInHand'
  <2> SUFFICES ASSUME NEW r \in Run, run'[r].pc = "lgtm", HoldsLease(r)',
                      NEW j \in DOMAIN thread'[run'[r].target],
                      thread'[run'[r].target][j].text = "lgtm",
                      thread'[run'[r].target][j].leased
               PROVE  \E i \in ByPeople(thread'[run'[r].target]) : j < i
    BY DEF ApprovalInHand, At, ByPeople
  <2>p. PICK p : p = run[r].target
    OBVIOUS
  <2>1. /\ run[r].pc \in Leasing /\ run'[r].target = p /\ run'[r].owner = run[r].owner
    BY <1>0, <2>p, ApprovingFrom DEF SameWork, Leasing
  <2>2. HoldsLease(r)
    BY <1>0, <2>1, <2>p, LeaseFades
  <2>3. p \in PR
    BY <1>0, <2>1, <2>2, <2>p, LeasesExclude DEF HoldsLease
  <2>4. CASE NeedsLgtm(p) /\ UNCHANGED thread
    BY <1>0, <2>1, <2>3, <2>4, NeedsLgtmSees
  <2>5. CASE run'[r] = run[r]
    <3>1. \A k \in DOMAIN thread[p] : thread[p][k].text = "lgtm" /\ thread[p][k].leased
             => \E i \in ByPeople(thread[p]) : k < i
      BY <2>2, <2>5, <2>p DEF ApprovalInHand, At
    <3>2. CASE thread'[p] = thread[p]
      BY <2>1, <3>1, <3>2
    <3>3. ASSUME NEW c \in Comment, thread'[p] = Append(thread[p], c),
                 c.text = "lgtm" /\ c.leased =>
                   \E s \in Run : run[s].target = p /\ HoldsLease(s) /\ run'[s].pc = "release"
          PROVE  \E i \in ByPeople(thread'[p]) : j < i
      <4>1. ~(c.text = "lgtm" /\ c.leased)
        <5>1. \A s \in Run : HoldsLease(s) /\ run[s].target = p => s = r
          BY <1>0, <2>2, <2>p, LeasesExclude
        <5> QED
          BY <3>3, <5>1
      <4>2. j \in DOMAIN thread[p] /\ thread'[p][j] = thread[p][j]
        BY <1>g, <2>1, <2>3, <3>3, <4>1
      <4>3. PICK i \in ByPeople(thread[p]) : j < i
        BY <2>1, <3>1, <4>2
      <4>4. i \in ByPeople(thread'[p])
        BY <1>g, <2>3, <3>3
      <4> QED
        BY <4>3, <4>4
    <3> QED
      BY <1>0, <2>1, <2>3, <3>2, <3>3, ApprovalFrom
  <2> QED
    BY <1>0, <2>4, <2>5, <2>p, ApprovingFrom
<1>2. ApprovalsAnswerPeople'
  <2> SUFFICES ASSUME NEW p \in PR, NEW j \in DOMAIN thread'[p], NEW k \in DOMAIN thread'[p],
                      j < k,
                      thread'[p][j].text = "lgtm", thread'[p][j].leased,
                      thread'[p][k].text = "lgtm", thread'[p][k].leased
               PROVE  \E i \in ByPeople(thread'[p]) : j < i /\ i < k
    BY DEF ApprovalsAnswerPeople, ByPeople
  <2>1. CASE thread'[p] = thread[p]
    BY <2>1 DEF ApprovalsAnswerPeople
  <2>2. ASSUME NEW c \in Comment, thread'[p] = Append(thread[p], c),
               c.text = "lgtm" /\ c.leased =>
                 \E r \in Run : At(r, "lgtm") /\ run[r].target = p /\ HoldsLease(r)
        PROVE  \E i \in ByPeople(thread'[p]) : j < i /\ i < k
    <3>1. j \in DOMAIN thread[p] /\ thread'[p][j] = thread[p][j]
      BY <1>g, <2>2
    <3>2. CASE k \in DOMAIN thread[p]
      <4>1. thread'[p][k] = thread[p][k]
        BY <1>g, <2>2, <3>2
      <4>2. \E i \in ByPeople(thread[p]) : j < i /\ i < k
        BY <3>1, <3>2, <4>1 DEF ApprovalsAnswerPeople
      <4> QED
        BY <1>g, <2>2, <4>2
    <3>3. CASE k = Len(thread[p]) + 1
      <4>1. PICK r \in Run : At(r, "lgtm") /\ run[r].target = p /\ HoldsLease(r)
        BY <1>g, <2>2, <3>3
      <4>2. PICK i \in ByPeople(thread[p]) : j < i
        BY <3>1, <4>1 DEF ApprovalInHand
      <4>3. i < k
        BY <1>g, <2>2, <3>3 DEF ByPeople
      <4> QED
        BY <1>g, <2>2, <4>2, <4>3
    <3> QED
      BY <1>g, <2>2, <3>2, <3>3
  <2> QED
    BY <1>0, <2>1, <2>2, ApprovalFrom
<1> QED
  BY <1>1, <1>2

\* Between two approvals by runs that hold their claims a person has commented, as long as
\* the conversations fit on the page that the pipeline fetches.
THEOREM ApprovalsAnswered == Spec /\ []ConversationsFit => []ApprovalsAnswerPeople
<1> USE ReviewerAssumption
<1> DEFINE I == ApprovalInHand /\ ApprovalsAnswerPeople
<1>1. Init => I
  BY DEF Init, Fresh, ApprovalInHand, ApprovalsAnswerPeople, At
<1>2. ClaimsHold /\ ConversationsFit /\ I /\ [Next]_vars => I'
  BY ApprovalStep
<1>3. I => ApprovalsAnswerPeople
  OBVIOUS
<1> HIDE DEF I
<1> QED
  BY <1>1, <1>2, <1>3, ClaimsHoldAlways, PTL DEF Spec
=============================================================================
