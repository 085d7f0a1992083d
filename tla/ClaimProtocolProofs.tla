------------------------ MODULE ClaimProtocolProofs -------------------------
(***************************************************************************)
(* Theorems of ClaimProtocol for every set of runs and targets and every   *)
(* TTL, page size and number of retries and restarts.                      *)
(*                                                                         *)
(* Exclusion: a run that wins its read-back has seen every earlier claim   *)
(* of its page either released or expired at its own `now` (SeenOwner).    *)
(* Comments are only ever appended, so what it saw stays true (WonStable,  *)
(* ReleasedMonotone).  Of two runs working on a target one has the earlier *)
(* claim; the other one saw it dead.                                       *)
(*                                                                         *)
(* The empty read-back: an invariant remembers the posted claim from the   *)
(* POST to the end of the work.  That the read-back would have found it,   *)
(* had it been live, needs the first one among the live claims to exist    *)
(* (LeastNatural).                                                         *)
(*                                                                         *)
(* Refinement: every step of the protocol is of one of five kinds as far   *)
(* as leases are concerned (StepKinds), and each kind is a step of Lease   *)
(* or a stutter.                                                           *)
(***************************************************************************)
EXTENDS ClaimProtocol, SequenceTheorems, FiniteSetTheorems, TLAPS

-----------------------------------------------------------------------------
(* Threads *)

\* owning_claim answers None or the first live claim.
LEMMA OwningClaimOwns ==
  ASSUME NEW s, NEW k, NEW n, OwningClaim(s, k, n) # 0
  PROVE  /\ OwningClaim(s, k, n) \in DOMAIN s
         /\ Owns(s, k, n, OwningClaim(s, k, n))
BY DEF OwningClaim

\* Appending a comment keeps every comment where it was.
LEMMA AppendThread ==
  ASSUME NEW s \in Seq(Comment), NEW c \in Comment
  PROVE  /\ Append(s, c) \in Seq(Comment)
         /\ DOMAIN s \subseteq DOMAIN Append(s, c)
         /\ \A i \in DOMAIN s : i \in Nat /\ Append(s, c)[i] = s[i]
         /\ \A i \in DOMAIN s : \A j \in DOMAIN Append(s, c) : j < i => j \in DOMAIN s
BY AppendProperties, LenProperties

\* A released claim stays released.
LEMMA ReleasedMonotone ==
  ASSUME NEW s \in Seq(Comment), NEW c \in Comment, NEW i, ReleasedAfter(s, Kind, i)
  PROVE  ReleasedAfter(Append(s, c), Kind, i)
BY AppendThread DEF ReleasedAfter, MarkerOf

\* A won claim stays won, whatever is posted after it.
LEMMA WonStable ==
  ASSUME NEW s \in Seq(Comment), NEW c \in Comment, NEW id, NEW i, NEW n, Won(s, id, i, n)
  PROVE  Won(Append(s, c), id, i, n)
<1> DEFINE a == Append(s, c)
<1>1. i \in DOMAIN a /\ a[i].op = "claim" /\ a[i].run = id
  BY AppendThread DEF Won
<1>2. ASSUME NEW j \in DOMAIN a, j < i, MarkerOf(a, Kind, j), a[j].op = "claim",
             ~ReleasedAfter(a, Kind, j)
      PROVE  a[j].until <= n
  <2>1. i \in DOMAIN s
    BY DEF Won
  <2>2. j \in DOMAIN s /\ a[j] = s[j]
    BY <1>2, <2>1, AppendThread
  <2>3. MarkerOf(s, Kind, j) /\ ~ReleasedAfter(s, Kind, j)
    BY <1>2, <2>2, ReleasedMonotone DEF MarkerOf
  <2> QED
    BY <1>2, <2>2, <2>3 DEF Won
<1> QED
  BY <1>1, <1>2 DEF Won

\* The page is a prefix of the thread.
LEMMA SeenPrefix ==
  ASSUME ConstantsAssumption, NEW t, thread[t] \in Seq(Comment)
  PROVE  /\ DOMAIN Seen(t) \subseteq DOMAIN thread[t]
         /\ \A i \in DOMAIN Seen(t) : i \in Nat /\ i # 0 /\ Seen(t)[i] = thread[t][i]
         /\ \A i \in DOMAIN Seen(t) : \A j \in DOMAIN thread[t] : j < i => j \in DOMAIN Seen(t)
<1> DEFINE len == Len(thread[t])
           n == IF len < Page THEN len ELSE Page
<1>1. len \in Nat /\ DOMAIN thread[t] = 1..len
  BY LenProperties
<1>2. n \in Nat /\ n <= len
  BY <1>1 DEF ConstantsAssumption
<1>3. \A i \in 1..n : thread[t][i] \in Comment
  BY <1>1, <1>2, ElementOfSeq
<1>4. /\ Seen(t) \in Seq(Comment)
      /\ Len(Seen(t)) = n
      /\ \A i \in 1..n : Seen(t)[i] = thread[t][i]
  <2>1. /\ SubSeq(thread[t], 1, n) \in Seq(Comment)
        /\ Len(SubSeq(thread[t], 1, n)) = IF 1 <= n THEN n - 1 + 1 ELSE 0
        /\ \A i \in 1..(n - 1 + 1) : SubSeq(thread[t], 1, n)[i] = thread[t][1 + i - 1]
    <3> HIDE DEF n
    <3> QED BY <1>2, <1>3, SubSeqProperties
  <2> QED
    <3> Seen(t) = SubSeq(thread[t], 1, n)
      BY DEF Seen, FirstPage
    <3> HIDE DEF n
    <3> QED BY <1>2, <2>1
<1>5. DOMAIN Seen(t) = 1..n
  BY <1>4, LenProperties
<1> HIDE DEF n
<1> QED
  BY <1>1, <1>2, <1>4, <1>5

\* The owner that a read of the page finds was won by its run.
LEMMA SeenOwner ==
  ASSUME ConstantsAssumption, NEW t, thread[t] \in Seq(Comment), NEW n \in Nat,
         NEW i, i = OwningClaim(Seen(t), Kind, n), i # 0
  PROVE  Won(thread[t], thread[t][i].run, i, n)
<1> DEFINE p == Seen(t)
<1>1. i \in DOMAIN p /\ Owns(p, Kind, n, i)
  BY OwningClaimOwns
<1>2. i \in DOMAIN thread[t] /\ p[i] = thread[t][i] /\ thread[t][i].op = "claim"
  BY <1>1, SeenPrefix DEF Owns, LiveClaim
<1>3. ASSUME NEW j \in DOMAIN thread[t], j < i, MarkerOf(thread[t], Kind, j),
             thread[t][j].op = "claim", ~ReleasedAfter(thread[t], Kind, j)
      PROVE  thread[t][j].until <= n
  <2>1. j \in DOMAIN p /\ p[j] = thread[t][j]
    BY <1>1, <1>3, SeenPrefix
  <2>2. MarkerOf(p, Kind, j)
    BY <1>3, <2>1 DEF MarkerOf
  <2>3. ~ReleasedAfter(p, Kind, j)
    BY <1>3, SeenPrefix DEF ReleasedAfter, MarkerOf
  <2>4. ~(thread[t][j].until > n)
    BY <1>1, <1>3, <2>1, <2>2, <2>3 DEF Owns, LiveClaim
  <2>5. thread[t][j].until \in Int
    <3>1. thread[t][j] \in Comment
      BY <1>3, LenProperties, ElementOfSeq
    <3> QED
      BY <3>1 DEF Comment, Marker, Note
  <2> QED
    BY <2>4, <2>5
<1> QED
  BY <1>2, <1>3 DEF Won

-----------------------------------------------------------------------------
(* Type correctness *)

\* A run only posts comments.
LEMMA OutgoingType ==
  ASSUME ConstantsAssumption, TypeOK, NEW r \in Run
  PROVE  Outgoing(r) \in Comment
<1>1. now[r] \in Int /\ now[r] + TTL \in Int
  BY DEF TypeOK, RunsTypeOK, ConstantsAssumption
<1> QED
  BY <1>1 DEF Outgoing, ClaimMarker, ReleaseMarker, NoteOf, Comment, Marker, Note, Ids

\* Leaving the task, and going on to a phase with the target at hand, keep the types of
\* the runs' variables.
LEMMA EndsType ==
  ASSUME ConstantsAssumption, RunsTypeOK, NEW r \in Run, NEW phase \in Ended, Ends(r, phase)
  PROVE  RunsTypeOK'
<1>1. pc' \in [Run -> Phases] /\ pc' = [pc EXCEPT ![r] = phase]
  BY DEF RunsTypeOK, Ends, Goes, Ended, Phases
<1>2. /\ now' \in [Run -> Nat]
      /\ todo' \in [Run -> SUBSET Target]
      /\ target' \in [Run -> Target \cup {None}]
      /\ owner' \in [Run -> Nat]
      /\ tries' \in [Run -> 0..MaxRetries]
      /\ restarts' \in [Run -> 0..MaxRestarts]
  BY DEF RunsTypeOK, Ends, ConstantsAssumption
<1>3. \A s \in Run : pc'[s] \in Posting \cup {"readback", "work"} => target'[s] \in Target
  BY <1>1 DEF RunsTypeOK, Ends, Ended, Posting
<1> QED
  BY <1>1, <1>2, <1>3 DEF RunsTypeOK

\* A run that proceeds stays well typed.
LEMMA ProceedsType ==
  ASSUME ConstantsAssumption, RunsTypeOK, NEW r \in Run, target[r] \in Target,
         NEW phase \in Posting \cup Ended \cup {"readback"}, Proceeds(r, phase)
  PROVE  RunsTypeOK'
<1>1. CASE phase \in Ended
  BY <1>1, EndsType DEF Proceeds
<1>2. CASE phase \notin Ended
  <2>1. pc' \in [Run -> Phases] /\ pc' = [pc EXCEPT ![r] = phase]
    BY <1>2 DEF RunsTypeOK, Proceeds, Goes, Posting, Phases, Ended
  <2>2. tries' \in [Run -> 0..MaxRetries]
    BY <1>2 DEF RunsTypeOK, Proceeds, ConstantsAssumption
  <2>3. UNCHANGED <<now, todo, target, owner, restarts>>
    BY <1>2 DEF Proceeds
  <2> QED
    BY <2>1, <2>2, <2>3 DEF RunsTypeOK
<1> QED
  BY <1>1, <1>2

\* An answered or a failed POST leads to a phase of the protocol.
LEMMA NextPhases ==
  ASSUME NEW phase \in Posting
  PROVE  /\ Answered(phase) \in Posting \cup Ended \cup {"readback"}
         /\ Raised(phase) \in Posting \cup Ended
BY DEF Posting, Ended, Answered, Raised

\* The threads only grow.
LEMMA PostType ==
  ASSUME GitHubTypeOK, NEW t \in Target, NEW c \in Comment,
         thread' = [thread EXCEPT ![t] = Append(@, c)]
  PROVE  thread' \in [Target -> Seq(Comment)]
BY AppendThread DEF GitHubTypeOK

\* The initial state is well typed.
LEMMA TypeInit == ConstantsAssumption /\ Init => TypeOK
<1> SUFFICES ASSUME ConstantsAssumption, Init PROVE TypeOK
  OBVIOUS
<1>1. thread \in [Target -> Seq(Comment)]
  BY EmptySeq DEF Init
<1>2. GitHubTypeOK
  BY <1>1 DEF Init, GitHubTypeOK
<1>3. RunsTypeOK
  BY DEF Init, RunsTypeOK, ConstantsAssumption, Phases, Posting
<1> QED
  BY <1>2, <1>3 DEF TypeOK

\* Each action keeps the types.
LEMMA TypeStep == ConstantsAssumption /\ TypeOK /\ [Next]_vars => TypeOK'
<1> SUFFICES ASSUME ConstantsAssumption, TypeOK, [Next]_vars PROVE TypeOK'
  OBVIOUS
<1> USE DEF TypeOK
<1>1. ASSUME NEW r \in Run, Starts(r), pc[r] \in {"idle", "crashed"},
             \/ UNCHANGED restarts
             \/ /\ restarts[r] < MaxRestarts
                /\ restarts' = [restarts EXCEPT ![r] = @ + 1]
      PROVE  TypeOK'
  <2>1. GitHubTypeOK'
    BY <1>1 DEF Starts, GitHubTypeOK
  <2>2. restarts' \in [Run -> 0..MaxRestarts]
    BY <1>1 DEF RunsTypeOK, ConstantsAssumption
  <2>3. pc' \in [Run -> Phases] /\ pc' = [pc EXCEPT ![r] = "list"]
    BY <1>1 DEF Starts, Goes, RunsTypeOK, Phases
  <2>4. now' \in [Run -> Nat]
    BY <1>1 DEF Starts, RunsTypeOK, GitHubTypeOK
  <2>5. UNCHANGED <<todo, target, owner, tries>>
    BY <1>1 DEF Starts
  <2> QED
    BY <2>1, <2>2, <2>3, <2>4, <2>5 DEF RunsTypeOK, Posting
<1>2. ASSUME NEW r \in Run, NEW t \in Target, Skip(r, t) \/ StandDown(r, t) PROVE TypeOK'
  <2>1. todo' = [todo EXCEPT ![r] = @ \ {t}] /\ UNCHANGED <<clock, thread, wire, pc>>
        /\ UNCHANGED <<now, target, owner, tries, restarts>>
    BY <1>2 DEF Skip, StandDown
  <2> QED
    BY <2>1 DEF GitHubTypeOK, RunsTypeOK
<1>3. ASSUME NEW r \in Run, NEW t \in Target, AlreadyHeld(r, t) PROVE TypeOK'
  <2>1. OwningClaim(Seen(t), Kind, now[r]) \in Nat
    BY <1>3, OwningClaimOwns, SeenPrefix DEF AlreadyHeld, GitHubTypeOK
  <2> QED
    BY <1>3, <2>1 DEF AlreadyHeld, Goes, GitHubTypeOK, RunsTypeOK, Phases, Posting
<1>4. ASSUME NEW r \in Run, NEW t \in Target, Stake(r, t) PROVE TypeOK'
  BY <1>4 DEF Stake, Goes, GitHubTypeOK, RunsTypeOK, Phases, Posting
<1>5. ASSUME NEW r \in Run, ReadBackWins(r) PROVE TypeOK'
  <2>1. target[r] \in Target
    BY <1>5 DEF ReadBackWins, RunsTypeOK
  <2>2. OwningClaim(Seen(target[r]), Kind, now[r]) \in Nat
    BY <2>1, OwningClaimOwns, SeenPrefix DEF GitHubTypeOK
  <2> QED
    BY <1>5, <2>1, <2>2 DEF ReadBackWins, Goes, GitHubTypeOK, RunsTypeOK, Phases, Posting
<1>6. ASSUME NEW r \in Run, Lists(r) \/ ReadBackLoses(r) PROVE TypeOK'
  <2>1. CASE Lists(r)
    BY <2>1 DEF Lists, Goes, GitHubTypeOK, RunsTypeOK, Phases, Posting
  <2>2. CASE ReadBackLoses(r)
    BY <2>2 DEF ReadBackLoses, Goes, GitHubTypeOK, RunsTypeOK, Phases, Posting
  <2> QED
    BY <1>6, <2>1, <2>2
<1>7. ASSUME NEW r \in Run, NEW phase \in Ended, Ends(r, phase),
             UNCHANGED <<clock, thread, wire>>
      PROVE  TypeOK'
  BY <1>7, EndsType DEF GitHubTypeOK
<1>8. ASSUME NEW r \in Run, pc[r] = "work", NEW phase \in Posting \cup Ended,
             Proceeds(r, phase), UNCHANGED <<clock, thread, wire>>
      PROVE  TypeOK'
  <2>1. target[r] \in Target
    BY <1>8 DEF RunsTypeOK
  <2> QED
    BY <1>8, <2>1, ProceedsType DEF GitHubTypeOK
<1>9. ASSUME NEW r \in Run, Post(r) PROVE TypeOK'
  <2>1. pc[r] \in Posting /\ target[r] \in Target /\ Outgoing(r) \in Comment
    BY <1>9, OutgoingType DEF Post, RunsTypeOK
  <2>2. GitHubTypeOK'
    BY <1>9, <2>1, PostType DEF Post, GitHubTypeOK
  <2>3. RunsTypeOK'
    BY <1>9, <2>1, NextPhases, ProceedsType DEF Post
  <2> QED
    BY <2>2, <2>3
<1>10. ASSUME NEW r \in Run, TimesOut(r) PROVE TypeOK'
  <2>1. pc[r] \in Posting /\ target[r] \in Target /\ Outgoing(r) \in Comment
    BY <1>10, OutgoingType DEF TimesOut, RunsTypeOK
  <2>2. GitHubTypeOK'
    <3>1. <<r, restarts[r], pc[r], tries[r]>>
            \in Run \X (0..MaxRestarts) \X Posting \X (0..MaxRetries)
      BY <2>1 DEF RunsTypeOK
    <3>2. PostOf(r) \in Request
      BY <2>1, <3>1 DEF PostOf, Request
    <3> QED
      BY <1>10, <3>2 DEF TimesOut, GitHubTypeOK
  <2>3. CASE RetriesLeft(r)
    <3>1. tries' \in [Run -> 0..MaxRetries]
      BY <1>10, <2>3 DEF TimesOut, RetriesLeft, RunsTypeOK, ConstantsAssumption
    <3> QED
      BY <1>10, <2>2, <2>3, <3>1 DEF TimesOut, RunsTypeOK
  <2>4. CASE ~RetriesLeft(r)
    BY <1>10, <2>1, <2>2, <2>4, NextPhases, ProceedsType DEF TimesOut
  <2> QED
    BY <2>3, <2>4
<1>11. ASSUME NEW r \in Run, Refused(r) PROVE TypeOK'
  <2>1. pc[r] \in Posting /\ target[r] \in Target
    BY <1>11 DEF Refused, RunsTypeOK
  <2> QED
    BY <1>11, <2>1, NextPhases, ProceedsType DEF Refused, GitHubTypeOK
<1>12. ASSUME NEW m \in wire, Deliver(m) PROVE TypeOK'
  <2>1. m.to \in Target /\ m.body \in Comment
    BY DEF GitHubTypeOK, Request
  <2>2. thread' \in [Target -> Seq(Comment)]
    BY <1>12, <2>1, PostType DEF Deliver
  <2> QED
    BY <1>12, <2>2 DEF Deliver, runVars, GitHubTypeOK, RunsTypeOK
<1>13. ASSUME NEW t \in Target, PersonComments(t) PROVE TypeOK'
  <2>1. NoteOf(None) \in Comment
    BY DEF NoteOf, Comment, Note
  <2>2. thread' \in [Target -> Seq(Comment)]
    BY <1>13, <2>1, PostType DEF PersonComments
  <2> QED
    BY <1>13, <2>2 DEF PersonComments, runVars, GitHubTypeOK, RunsTypeOK
<1>14. CASE Tick
  BY <1>14 DEF Tick, runVars, GitHubTypeOK, RunsTypeOK
<1>15. CASE UNCHANGED vars
  BY <1>15 DEF vars, GitHubTypeOK, RunsTypeOK
<1>16. ASSUME NEW r \in Run,
              Begin(r) \/ Restart(r) \/ RunStep(r) \/ Failure(r)
       PROVE  TypeOK'
  <2>1. CASE Begin(r)
    BY <2>1, <1>1 DEF Begin
  <2>2. CASE Restart(r)
    BY <2>2, <1>1 DEF Restart
  <2>3. CASE RunStep(r)
    BY <2>3, <1>2, <1>3, <1>4, <1>5, <1>6, <1>7, <1>8, <1>9
    DEF RunStep, NoWork, CommentsAndReleases, Releases, Keeps, Posting, Ended
  <2>4. CASE Failure(r)
    BY <2>4, <1>7, <1>8, <1>10, <1>11
    DEF Failure, ReadFails, WorkFails, Crash, Posting, Ended
  <2> QED
    BY <1>16, <2>1, <2>2, <2>3, <2>4
<1> QED
  BY <1>2, <1>12, <1>13, <1>14, <1>15, <1>16 DEF Next

\* Type correctness, for every value of the constants.
THEOREM TypeCorrect == Spec => []TypeOK
<1> USE ConstantsAssumption
<1>1. Init => TypeOK
  BY TypeInit
<1>2. TypeOK /\ [Next]_vars => TypeOK'
  BY TypeStep
<1> QED
  BY <1>1, <1>2, PTL DEF Spec

-----------------------------------------------------------------------------
(* The lease *)

\* No step rewrites a comment, and the clock does not go back.
LEMMA ThreadsGrow ==
  ASSUME ConstantsAssumption, TypeOK, [Next]_vars
  PROVE  /\ clock' \in {clock, clock + 1}
         /\ \A t \in Target : \/ thread'[t] = thread[t]
                              \/ \E c \in Comment : thread'[t] = Append(thread[t], c)
<1> DEFINE Goal == /\ clock' \in {clock, clock + 1}
                   /\ \A t \in Target : \/ thread'[t] = thread[t]
                                        \/ \E c \in Comment : thread'[t] = Append(thread[t], c)
<1>1. ASSUME NEW t \in Target, NEW c \in Comment, UNCHANGED clock,
             thread' = [thread EXCEPT ![t] = Append(@, c)]
      PROVE  Goal
  BY <1>1 DEF TypeOK, GitHubTypeOK
<1>2. ASSUME NEW r \in Run, Post(r) PROVE Goal
  <2>1. target[r] \in Target /\ Outgoing(r) \in Comment
    BY <1>2, OutgoingType DEF Post, TypeOK, RunsTypeOK
  <2> QED
    BY <1>1, <1>2, <2>1 DEF Post
<1>3. ASSUME NEW m \in wire, Deliver(m) PROVE Goal
  BY <1>1, <1>3 DEF Deliver, TypeOK, GitHubTypeOK, Request
<1>4. ASSUME NEW t \in Target, PersonComments(t) PROVE Goal
  BY <1>1, <1>4 DEF PersonComments, NoteOf, Comment, Note
<1>5. CASE Tick
  BY <1>5 DEF Tick
<1>6. CASE UNCHANGED vars
  BY <1>6 DEF vars
<1>7. ASSUME NEW r \in Run, Begin(r) \/ Restart(r) \/ RunStep(r) \/ Failure(r) PROVE Goal
  BY <1>2, <1>7
  DEF Begin, Restart, Starts, Lists, RunStep, NoWork, StandDown, AlreadyHeld, Stake, ReadBackWins,
      ReadBackLoses, CommentsAndReleases, Releases, Keeps, Failure, ReadFails, WorkFails,
      TimesOut, Refused, Crash
<1> QED
  BY <1>3, <1>4, <1>5, <1>6, <1>7 DEF Next, Skip

\* What the step of run r does to the variables of run s that the lease is about: s is at
\* work after the step only if it was before, or if it has just found itself the owner
\* (or nobody) on the page.
Bystander(s) ==
  /\ now'[s] = now[s]
  /\ pc'[s] = "work" =>
       pc[s] = "work" /\ target'[s] = target[s] /\ owner'[s] = owner[s]

WinsReading(s) ==
  /\ UNCHANGED <<clock, thread, now>>
  /\ target'[s] \in Target
  /\ owner'[s] = OwningClaim(Seen(target'[s]), Kind, now[s])
  /\ owner'[s] # 0 => thread[target'[s]][owner'[s]].run = RunId[s]

AtWorkAfter(s) ==
  \/ Bystander(s)
  \/ now'[s] \in {0, clock} /\ pc'[s] # "work"
  \/ WinsReading(s)

\* Going on to a phase that is not "work" puts nobody else to work.
LEMMA ProceedsAtWork ==
  ASSUME RunsTypeOK, NEW r \in Run, NEW phase \in Posting \cup Ended \cup {"readback"},
         Proceeds(r, phase) \/ (phase \in Ended /\ Ends(r, phase)), NEW s \in Run
  PROVE  AtWorkAfter(s)
<1>1. phase # "work"
  BY DEF Posting, Ended
<1>2. pc' = [pc EXCEPT ![r] = phase]
  BY DEF Proceeds, Ends, Goes
<1>3. CASE s = r
  BY <1>1, <1>2, <1>3 DEF Proceeds, Ends, RunsTypeOK, AtWorkAfter, Bystander
<1>4. CASE s # r
  BY <1>2, <1>4 DEF Proceeds, Ends, RunsTypeOK, AtWorkAfter, Bystander
<1> QED
  BY <1>3, <1>4

\* A run at work after a step was there before, or has just won its claim.
LEMMA StepAtWork ==
  ASSUME ConstantsAssumption, TypeOK, [Next]_vars, NEW s \in Run
  PROVE  AtWorkAfter(s)
<1> USE DEF TypeOK
<1>1. ASSUME NEW r \in Run, Starts(r) PROVE AtWorkAfter(s)
  BY <1>1 DEF Starts, Goes, RunsTypeOK, AtWorkAfter, Bystander
<1>2. ASSUME NEW r \in Run, NEW t \in Target,
             Skip(r, t) \/ StandDown(r, t) \/ Stake(r, t)
      PROVE  AtWorkAfter(s)
  BY <1>2 DEF Skip, StandDown, Stake, Goes, RunsTypeOK, AtWorkAfter, Bystander
<1>3. ASSUME NEW r \in Run, NEW t \in Target, AlreadyHeld(r, t) PROVE AtWorkAfter(s)
  BY <1>3 DEF AlreadyHeld, Goes, RunsTypeOK, AtWorkAfter, Bystander, WinsReading
<1>4. ASSUME NEW r \in Run, ReadBackWins(r) PROVE AtWorkAfter(s)
  BY <1>4 DEF ReadBackWins, Goes, RunsTypeOK, AtWorkAfter, Bystander, WinsReading
<1>5. ASSUME NEW r \in Run, Lists(r) \/ ReadBackLoses(r) PROVE AtWorkAfter(s)
  BY <1>5 DEF Lists, ReadBackLoses, Goes, RunsTypeOK, AtWorkAfter, Bystander
<1>6. ASSUME NEW r \in Run, Post(r) \/ TimesOut(r) \/ Refused(r) PROVE AtWorkAfter(s)
  <2>1. pc[r] \in Posting
    BY <1>6 DEF Post, TimesOut, Refused
  <2>2. CASE UNCHANGED <<pc, now, target, owner>>
    BY <2>2 DEF AtWorkAfter, Bystander
  <2> QED
    BY <1>6, <2>1, <2>2, NextPhases, ProceedsAtWork DEF Post, TimesOut, Refused
<1>7. ASSUME NEW r \in Run, NoWork(r) \/ ReadFails(r) \/ Crash(r) PROVE AtWorkAfter(s)
  BY <1>7, ProceedsAtWork DEF NoWork, ReadFails, Crash, Ended
<1>8. ASSUME NEW r \in Run, CommentsAndReleases(r) \/ Releases(r) \/ Keeps(r) \/ WorkFails(r)
      PROVE  AtWorkAfter(s)
  BY <1>8, ProceedsAtWork
  DEF CommentsAndReleases, Releases, Keeps, WorkFails, Posting, Ended
<1>9. CASE (\E m \in wire : Deliver(m)) \/ (\E t \in Target : PersonComments(t)) \/ Tick
           \/ UNCHANGED vars
  BY <1>9 DEF Deliver, PersonComments, Tick, runVars, vars, AtWorkAfter, Bystander
<1> QED
  BY <1>1, <1>2, <1>3, <1>4, <1>5, <1>6, <1>7, <1>8, <1>9
  DEF Next, Begin, Restart, RunStep, Failure

\* The invariant behind the lease is inductive.
LEMMA WonClaimsStep ==
  ASSUME ConstantsAssumption, TypeOK, TypeOK', WonClaims, [Next]_vars
  PROVE  WonClaims'
<1> SUFFICES ASSUME NEW r \in Run
             PROVE  /\ now'[r] <= clock'
                    /\ pc'[r] = "work" /\ owner'[r] # 0 =>
                         Won(thread'[target'[r]], RunId[r], owner'[r], now'[r])
  BY DEF WonClaims
<1>1. now[r] \in Nat /\ clock \in Nat /\ now[r] <= clock /\ clock' >= clock
  <2>1. now[r] \in Nat /\ clock \in Nat
    BY DEF TypeOK, GitHubTypeOK, RunsTypeOK
  <2>2. clock' \in {clock, clock + 1}
    BY ThreadsGrow
  <2> QED
    BY <2>1, <2>2 DEF WonClaims
<1>2. AtWorkAfter(r)
  BY StepAtWork
<1>3. now'[r] <= clock'
  BY <1>1, <1>2, ThreadsGrow DEF AtWorkAfter, Bystander, WinsReading, TypeOK, GitHubTypeOK
<1>4. ASSUME pc'[r] = "work", owner'[r] # 0, Bystander(r)
      PROVE  Won(thread'[target'[r]], RunId[r], owner'[r], now'[r])
  <2>1. Won(thread[target[r]], RunId[r], owner[r], now[r]) /\ target[r] \in Target
    BY <1>4 DEF Bystander, WonClaims, TypeOK, RunsTypeOK
  <2>2. thread[target[r]] \in Seq(Comment)
    BY <2>1 DEF TypeOK, GitHubTypeOK
  <2>3. Won(thread'[target[r]], RunId[r], owner[r], now[r])
    <3>1. CASE thread'[target[r]] = thread[target[r]]
      BY <2>1, <3>1
    <3>2. CASE \E c \in Comment : thread'[target[r]] = Append(thread[target[r]], c)
      BY <2>1, <2>2, <3>2, WonStable
    <3> QED
      BY <2>1, <3>1, <3>2, ThreadsGrow
  <2> QED
    BY <1>4, <2>3 DEF Bystander
<1>5. ASSUME pc'[r] = "work", owner'[r] # 0, WinsReading(r)
      PROVE  Won(thread'[target'[r]], RunId[r], owner'[r], now'[r])
  <2>1. target'[r] \in Target /\ thread[target'[r]] \in Seq(Comment)
    BY <1>5 DEF WinsReading, TypeOK, GitHubTypeOK
  <2>2. Won(thread[target'[r]], thread[target'[r]][owner'[r]].run, owner'[r], now[r])
    BY <1>1, <1>5, <2>1, SeenOwner DEF WinsReading
  <2> QED
    BY <1>5, <2>2 DEF WinsReading
<1> QED
  BY <1>2, <1>3, <1>4, <1>5 DEF AtWorkAfter

IInv == TypeOK /\ WonClaims

\* The inductive invariant holds in every reachable state.
THEOREM Invariant == Spec => []IInv
<1> USE ConstantsAssumption
<1>1. Init => IInv
  BY TypeInit DEF IInv, Init, WonClaims
<1>2. IInv /\ [Next]_vars => IInv'
  BY TypeStep, WonClaimsStep DEF IInv
<1> QED
  BY <1>1, <1>2, PTL DEF Spec

\* The earlier of two won, unrevoked claims on one thread had expired when the run of the
\* later one started.
LEMMA EarlierExpired ==
  ASSUME NEW s, NEW id, NEW other, NEW i \in Nat, NEW k \in Nat, NEW m, NEW n,
         id # other, Won(s, id, i, m), Won(s, other, k, n),
         \A j \in DOMAIN s : s[j].kind = Kind,
         ~ReleasedAfter(s, Kind, i), ~ReleasedAfter(s, Kind, k)
  PROVE  s[i].until <= n \/ s[k].until <= m
<1>1. i # k
  BY DEF Won
<1>2. MarkerOf(s, Kind, i) /\ MarkerOf(s, Kind, k)
  BY DEF Won, MarkerOf
<1>3. CASE i < k
  BY <1>2, <1>3 DEF Won
<1>4. CASE k < i
  BY <1>2, <1>4 DEF Won
<1> QED
  BY <1>1, <1>3, <1>4

\* All comments of a thread are of the one kind of its number.
LEMMA KindOfThread ==
  ASSUME TypeOK, NEW t \in Target
  PROVE  \A j \in DOMAIN thread[t] : thread[t][j].kind = Kind /\ thread[t][j].until \in Int
<1> SUFFICES ASSUME NEW j \in DOMAIN thread[t]
             PROVE  thread[t][j].kind = Kind /\ thread[t][j].until \in Int
  OBVIOUS
<1>1. thread[t][j] \in Comment
  BY LenProperties, ElementOfSeq DEF TypeOK, GitHubTypeOK
<1> QED
  BY <1>1 DEF Comment, Marker, Note

\* Of two runs at work on one target, one lost its claim to a release, or its claim had
\* expired before the other one started.
LEMMA IInvOverlap == DistinctIds /\ IInv => OverlapExplained
<1> SUFFICES ASSUME DistinctIds, IInv, NEW t \in Target, NEW r \in Run, NEW q \in Run,
                    r # q, Working(r, t), Working(q, t),
                    owner[r] # 0, Unrevoked(t, owner[r]),
                    owner[q] # 0, Unrevoked(t, owner[q])
             PROVE  \/ thread[t][owner[r]].until <= now[q]
                    \/ thread[t][owner[q]].until <= now[r]
  BY DEF OverlapExplained
<1>1. Won(thread[t], RunId[r], owner[r], now[r]) /\ Won(thread[t], RunId[q], owner[q], now[q])
  BY DEF IInv, WonClaims, Working
<1>2. owner[r] \in Nat /\ owner[q] \in Nat
  BY DEF IInv, TypeOK, RunsTypeOK
<1>3. \A j \in DOMAIN thread[t] : thread[t][j].kind = Kind
  BY KindOfThread DEF IInv
<1>4. RunId[r] # RunId[q]
  BY DEF DistinctIds
<1> QED
  BY <1>1, <1>2, <1>3, <1>4, EarlierExpired DEF Unrevoked

\* At most one run at work on a target holds a claim that is neither revoked nor expired.
LEMMA IInvExclusion == DistinctIds /\ IInv => LeaseExclusion
<1> SUFFICES ASSUME DistinctIds, IInv, NEW t \in Target, NEW r \in Run, NEW q \in Run,
                    HoldsLease(r, t), HoldsLease(q, t), r # q
             PROVE  FALSE
  BY DEF LeaseExclusion
<1>1. \/ thread[t][owner[r]].until <= now[q]
      \/ thread[t][owner[q]].until <= now[r]
  BY IInvOverlap DEF OverlapExplained, HoldsLease
<1>2. now[r] \in Nat /\ now[q] \in Nat /\ clock \in Nat /\ now[r] <= clock /\ now[q] <= clock
  BY DEF IInv, TypeOK, GitHubTypeOK, RunsTypeOK, WonClaims
<1>3. thread[t][owner[r]].until \in Int /\ thread[t][owner[q]].until \in Int
  BY KindOfThread DEF IInv, HoldsLease, Unrevoked
<1> QED
  BY <1>1, <1>2, <1>3 DEF HoldsLease

\* Mutual exclusion of the leases, when no two runs have the same id.
THEOREM LeasesExclude == ASSUME DistinctIds PROVE Spec => []LeaseExclusion
<1>1. IInv => LeaseExclusion
  BY IInvExclusion
<1> QED
  BY <1>1, Invariant, PTL

\* Every overlap of two runs has one of the three causes, when no two have the same id.
THEOREM OverlapsExplained == ASSUME DistinctIds PROVE Spec => []OverlapExplained
<1>1. IInv => OverlapExplained
  BY IInvOverlap
<1> QED
  BY <1>1, Invariant, PTL

-----------------------------------------------------------------------------
(* The first live claim *)

\* A non-empty set of natural numbers has a least element.
LEMMA LeastNatural ==
  ASSUME NEW T \in SUBSET Nat, T # {}
  PROVE  \E k \in T : \A m \in T : k <= m
<1> DEFINE Belows == {1..k : k \in T}
<1>1. Belows \subseteq FiniteSubsetsOf(Nat) /\ Belows # {}
  <2>1. \A k \in T : IsFiniteSet(1..k) /\ 1..k \subseteq Nat
    BY FS_Interval
  <2> QED
    BY <2>1 DEF FiniteSubsetsOf
<1>2. PICK s \in Belows : \A z \in Belows : <<z, s>> \notin StrictSubsetOrdering(Nat)
  <2> HIDE DEF Belows
  <2> QED
    BY <1>1, FS_StrictSubsetOrderingWellFounded, WFMin
<1>3. PICK k \in T : s = 1..k
  OBVIOUS
<1>4. ASSUME NEW m \in T, m < k PROVE FALSE
  <2>1. k \in 1..k /\ k \notin 1..m
    BY <1>4
  <2>2. 1..m \subseteq 1..k /\ 1..m # 1..k
    BY <1>4, <2>1
  <2>3. <<1..m, s>> \in StrictSubsetOrdering(Nat)
    BY <1>3, <2>2 DEF StrictSubsetOrdering
  <2> QED
    BY <1>2, <2>3
<1> QED
  BY <1>3, <1>4

\* owning_claim finds a live claim whenever there is one.
LEMMA LiveClaimIsFound ==
  ASSUME NEW s, NEW k, NEW n, NEW i, DOMAIN s \subseteq Nat, 0 \notin DOMAIN s,
         LiveClaim(s, k, n, i)
  PROVE  OwningClaim(s, k, n) # 0
<1> DEFINE live == {j \in DOMAIN s : LiveClaim(s, k, n, j)}
<1>1. i \in live
  BY DEF LiveClaim, MarkerOf
<1>2. PICK j \in live : \A m \in live : j <= m
  <2>1. live \in SUBSET Nat /\ live # {}
    BY <1>1
  <2> HIDE DEF live
  <2> QED
    BY <2>1, LeastNatural
<1>3. Owns(s, k, n, j)
  <2>1. \A m \in DOMAIN s : m < j => ~LiveClaim(s, k, n, m)
    BY <1>2
  <2> QED
    BY <1>2, <2>1 DEF Owns
<1>4. OwningClaim(s, k, n) \in DOMAIN s
  BY <1>2, <1>3 DEF OwningClaim
<1> QED
  BY <1>4

\* Every comment that fits on the page is seen, and nothing else.
LEMMA SeenDomain ==
  ASSUME ConstantsAssumption, NEW t, thread[t] \in Seq(Comment), NEW i \in DOMAIN thread[t],
         i <= Page
  PROVE  i \in DOMAIN Seen(t)
<1> DEFINE len == Len(thread[t])
           n == IF len < Page THEN len ELSE Page
<1>1. len \in Nat /\ DOMAIN thread[t] = 1..len
  BY LenProperties
<1>2. n \in Nat /\ n <= len /\ i \in 1..n
  BY <1>1 DEF ConstantsAssumption
<1>3. \A j \in 1..n : thread[t][j] \in Comment
  BY <1>1, <1>2, ElementOfSeq
<1>4. /\ SubSeq(thread[t], 1, n) \in Seq(Comment)
      /\ Len(SubSeq(thread[t], 1, n)) = IF 1 <= n THEN n - 1 + 1 ELSE 0
  <2> HIDE DEF n
  <2> QED
    BY <1>2, <1>3, SubSeqProperties
<1>5. DOMAIN SubSeq(thread[t], 1, n) = 1..n
  <2>1. Len(SubSeq(thread[t], 1, n)) = n
    <3> HIDE DEF n
    <3> QED
      BY <1>2, <1>4
  <2> HIDE DEF n
  <2> QED
    BY <1>4, <2>1, LenProperties
<1> QED
  BY <1>2, <1>5 DEF Seen, FirstPage

-----------------------------------------------------------------------------
(* The posted claim *)

\* Comment i of thread t is the claim of run r.
ClaimAt(r, t, i) == i \in DOMAIN thread[t] /\ thread[t][i] = ClaimMarker(r)

\* Why a claim did not count when it was read back.
DeadOrHidden(t, i) ==
  \/ TTL <= 0
  \/ i > Page
  \/ ReleasedAfter(thread[t], Kind, i)

\* A run that reads back has posted its claim; one that found no owner has posted one that
\* is dead or hidden.
PostedClaims ==
  \A r \in Run :
     /\ pc[r] = "readback" => \E i \in DOMAIN thread[target[r]] : ClaimAt(r, target[r], i)
     /\ pc[r] = "work" /\ owner[r] = 0 =>
          \E i \in DOMAIN thread[target[r]] :
             ClaimAt(r, target[r], i) /\ DeadOrHidden(target[r], i)

\* A read-back without an owner means that the run's own claim is dead or hidden.
LEMMA BlindReadBack ==
  ASSUME ConstantsAssumption, NEW r, NEW t, thread[t] \in Seq(Comment), now[r] \in Nat,
         NEW i \in DOMAIN thread[t], ClaimAt(r, t, i),
         OwningClaim(Seen(t), Kind, now[r]) = 0
  PROVE  DeadOrHidden(t, i)
<1> SUFFICES ASSUME ~DeadOrHidden(t, i) PROVE FALSE
  OBVIOUS
<1>1. TTL \in Int /\ Page \in Nat /\ TTL > 0
  BY DEF DeadOrHidden, ConstantsAssumption
<1>2. i \in Nat
  BY LenProperties
<1>3. i \in DOMAIN Seen(t)
  BY <1>1, <1>2, SeenDomain DEF DeadOrHidden
<1>4. Seen(t)[i] = ClaimMarker(r)
  BY <1>3, SeenPrefix DEF ClaimAt
<1>5. ~ReleasedAfter(Seen(t), Kind, i)
  BY SeenPrefix DEF DeadOrHidden, ReleasedAfter, MarkerOf
<1>6. LiveClaim(Seen(t), Kind, now[r], i)
  BY <1>1, <1>3, <1>4, <1>5 DEF LiveClaim, MarkerOf, ClaimMarker
<1>7. DOMAIN Seen(t) \subseteq Nat /\ 0 \notin DOMAIN Seen(t)
  BY SeenPrefix
<1> QED
  BY <1>6, <1>7, LiveClaimIsFound

-----------------------------------------------------------------------------
(* The steps *)

\* What a step may do to run s as far as its posted claim is concerned: leave it alone,
\* put it anywhere but to the read-back or to work without an owner, post its claim, or
\* let it read back.
Stays(s) ==
  now'[s] = now[s] /\ pc'[s] = pc[s] /\ target'[s] = target[s] /\ owner'[s] = owner[s]

Elsewhere(s) == pc'[s] # "readback" /\ (pc'[s] = "work" => owner'[s] # 0)

PostsClaim(s) ==
  /\ target[s] \in Target
  /\ now'[s] = now[s] /\ target'[s] = target[s] /\ pc'[s] = "readback"
  /\ thread' = [thread EXCEPT ![target[s]] = Append(@, ClaimMarker(s))]

ReadsBack(s) ==
  /\ pc[s] = "readback" /\ pc'[s] = "work"
  /\ UNCHANGED <<now, target, thread>>
  /\ owner'[s] = OwningClaim(Seen(target[s]), Kind, now[s])

AfterStep(s) == Stays(s) \/ Elsewhere(s) \/ PostsClaim(s) \/ ReadsBack(s)

\* A run that proceeds to post or to end is not at work and does not read back.
LEMMA ProceedsElsewhere ==
  ASSUME RunsTypeOK, NEW r \in Run, NEW phase \in Posting \cup Ended,
         Proceeds(r, phase) \/ (phase \in Ended /\ Ends(r, phase)), NEW s \in Run
  PROVE  AfterStep(s)
<1>1. phase # "work" /\ phase # "readback"
  BY DEF Posting, Ended
<1>2. pc' = [pc EXCEPT ![r] = phase]
  BY DEF Proceeds, Ends, Goes
<1>3. CASE s = r
  BY <1>1, <1>2, <1>3 DEF RunsTypeOK, AfterStep, Elsewhere
<1>4. CASE s # r
  BY <1>2, <1>4 DEF Proceeds, Ends, RunsTypeOK, AfterStep, Stays
<1> QED
  BY <1>3, <1>4

\* A posted claim is in the thread when its run reads back.
LEMMA PostAfter ==
  ASSUME TypeOK, NEW r \in Run, Post(r), NEW s \in Run
  PROVE  AfterStep(s)
<1>1. pc[r] \in Posting /\ target[r] \in Target
  BY DEF Post, TypeOK, RunsTypeOK
<1>2. CASE pc[r] = "claim"
  <2>1. Proceeds(r, "readback") /\ Outgoing(r) = ClaimMarker(r)
    BY <1>2 DEF Post, Answered, Outgoing
  <2>2. /\ pc' = [pc EXCEPT ![r] = "readback"]
        /\ UNCHANGED <<now, target, owner>>
    BY <2>1 DEF Proceeds, Ended, Goes
  <2>3. CASE s = r
    BY <1>1, <2>1, <2>2, <2>3 DEF Post, TypeOK, RunsTypeOK, AfterStep, PostsClaim
  <2>4. CASE s # r
    BY <2>2, <2>4 DEF TypeOK, RunsTypeOK, AfterStep, Stays
  <2> QED
    BY <2>3, <2>4
<1>3. CASE pc[r] # "claim"
  <2>1. Answered(pc[r]) \in Posting \cup Ended
    BY <1>1, <1>3 DEF Answered, Posting, Ended
  <2> QED
    BY <2>1, ProceedsElsewhere DEF Post, TypeOK
<1> QED
  BY <1>2, <1>3

\* Every step leaves each run in one of the situations of AfterStep.
LEMMA StepAfter ==
  ASSUME ConstantsAssumption, TypeOK, [Next]_vars, NEW s \in Run
  PROVE  AfterStep(s)
<1> USE DEF TypeOK
<1>1. ASSUME NEW r \in Run, Starts(r) PROVE AfterStep(s)
  BY <1>1 DEF Starts, Goes, RunsTypeOK, AfterStep, Stays, Elsewhere
<1>2. ASSUME NEW r \in Run, NEW t \in Target,
             Skip(r, t) \/ StandDown(r, t) \/ Stake(r, t) \/ AlreadyHeld(r, t)
      PROVE  AfterStep(s)
  BY <1>2 DEF Skip, StandDown, Stake, AlreadyHeld, Goes, RunsTypeOK, AfterStep, Stays, Elsewhere
<1>3. ASSUME NEW r \in Run, ReadBackWins(r) PROVE AfterStep(s)
  BY <1>3 DEF ReadBackWins, Goes, RunsTypeOK, AfterStep, Stays, ReadsBack
<1>4. ASSUME NEW r \in Run, Lists(r) \/ ReadBackLoses(r) PROVE AfterStep(s)
  BY <1>4 DEF Lists, ReadBackLoses, Goes, RunsTypeOK, AfterStep, Stays, Elsewhere
<1>5. ASSUME NEW r \in Run, TimesOut(r) \/ Refused(r) PROVE AfterStep(s)
  <2>1. pc[r] \in Posting
    BY <1>5 DEF TimesOut, Refused
  <2>2. CASE UNCHANGED <<pc, now, target, owner>>
    BY <2>2 DEF AfterStep, Stays
  <2> QED
    BY <1>5, <2>1, <2>2, NextPhases, ProceedsElsewhere DEF TimesOut, Refused
<1>6. ASSUME NEW r \in Run, NoWork(r) \/ ReadFails(r) \/ Crash(r) PROVE AfterStep(s)
  BY <1>6, ProceedsElsewhere DEF NoWork, ReadFails, Crash, Ended
<1>7. ASSUME NEW r \in Run, CommentsAndReleases(r) \/ Releases(r) \/ Keeps(r) \/ WorkFails(r)
      PROVE  AfterStep(s)
  BY <1>7, ProceedsElsewhere
  DEF CommentsAndReleases, Releases, Keeps, WorkFails, Posting, Ended
<1>8. CASE (\E m \in wire : Deliver(m)) \/ (\E t \in Target : PersonComments(t)) \/ Tick
           \/ UNCHANGED vars
  BY <1>8 DEF Deliver, PersonComments, Tick, runVars, vars, AfterStep, Stays
<1> QED
  BY <1>1, <1>2, <1>3, <1>4, <1>5, <1>6, <1>7, <1>8, PostAfter
  DEF Next, Begin, Restart, RunStep, Failure

\* A posted claim stays where it is, and a dead one stays dead.
LEMMA ClaimStays ==
  ASSUME ConstantsAssumption, TypeOK, [Next]_vars, NEW s \in Run, NEW t \in Target,
         now'[s] = now[s], NEW i \in DOMAIN thread[t], ClaimAt(s, t, i)
  PROVE  ClaimAt(s, t, i)' /\ (DeadOrHidden(t, i) => DeadOrHidden(t, i)')
<1>1. thread[t] \in Seq(Comment)
  BY DEF TypeOK, GitHubTypeOK
<1>2. ClaimMarker(s)' = ClaimMarker(s)
  BY DEF ClaimMarker
<1>3. CASE thread'[t] = thread[t]
  BY <1>2, <1>3 DEF ClaimAt, DeadOrHidden
<1>4. ASSUME NEW c \in Comment, thread'[t] = Append(thread[t], c)
      PROVE  ClaimAt(s, t, i)' /\ (DeadOrHidden(t, i) => DeadOrHidden(t, i)')
  BY <1>1, <1>2, <1>4, AppendThread, ReleasedMonotone DEF ClaimAt, DeadOrHidden
<1> QED
  BY <1>3, <1>4, ThreadsGrow

\* Every step keeps the posted claims in their threads.
LEMMA PostedClaimsStep ==
  ASSUME ConstantsAssumption, TypeOK, PostedClaims, [Next]_vars
  PROVE  PostedClaims'
<1> SUFFICES ASSUME NEW s \in Run
             PROVE  /\ pc'[s] = "readback" =>
                         \E i \in DOMAIN thread'[target'[s]] : ClaimAt(s, target[s], i)'
                    /\ pc'[s] = "work" /\ owner'[s] = 0 =>
                         \E i \in DOMAIN thread'[target'[s]] :
                            ClaimAt(s, target[s], i)' /\ DeadOrHidden(target[s], i)'
  BY DEF PostedClaims
<1>1. CASE Stays(s)
  <2>1. pc[s] \in {"readback", "work"} => target[s] \in Target
    BY DEF TypeOK, RunsTypeOK
  <2>2. ASSUME pc'[s] = "readback"
        PROVE  \E i \in DOMAIN thread'[target'[s]] : ClaimAt(s, target[s], i)'
    <3>1. PICK i \in DOMAIN thread[target[s]] : ClaimAt(s, target[s], i)
      BY <1>1, <2>2 DEF Stays, PostedClaims
    <3>2. target[s] \in Target /\ target'[s] = target[s] /\ now'[s] = now[s]
      BY <1>1, <2>1, <2>2 DEF Stays
    <3>3. i \in DOMAIN thread'[target[s]] /\ thread'[target[s]][i] = ClaimMarker(s)'
      BY <3>1, <3>2, ClaimStays DEF ClaimAt
    <3> QED
      BY <3>2, <3>3 DEF ClaimAt
  <2>3. ASSUME pc'[s] = "work", owner'[s] = 0
        PROVE  \E i \in DOMAIN thread'[target'[s]] :
                  ClaimAt(s, target[s], i)' /\ DeadOrHidden(target[s], i)'
    <3>1. PICK i \in DOMAIN thread[target[s]] :
                  ClaimAt(s, target[s], i) /\ DeadOrHidden(target[s], i)
      BY <1>1, <2>3 DEF Stays, PostedClaims
    <3>2. target[s] \in Target /\ target'[s] = target[s] /\ now'[s] = now[s]
      BY <1>1, <2>1, <2>3 DEF Stays
    <3>3. /\ i \in DOMAIN thread'[target[s]] /\ thread'[target[s]][i] = ClaimMarker(s)'
          /\ TTL <= 0 \/ i > Page \/ ReleasedAfter(thread'[target[s]], Kind, i)
      BY <3>1, <3>2, ClaimStays DEF ClaimAt, DeadOrHidden
    <3> QED
      BY <3>2, <3>3 DEF ClaimAt, DeadOrHidden
  <2> QED
    BY <2>2, <2>3
<1>2. CASE Elsewhere(s)
  BY <1>2 DEF Elsewhere
<1>3. CASE PostsClaim(s)
  <2>1. thread[target[s]] \in Seq(Comment)
    BY <1>3 DEF PostsClaim, TypeOK, GitHubTypeOK
  <2>2. thread'[target[s]] = Append(thread[target[s]], ClaimMarker(s))
    BY <1>3 DEF PostsClaim, TypeOK, GitHubTypeOK
  <2>3. ClaimMarker(s) \in Comment
    <3>1. now[s] \in Nat /\ now[s] + TTL \in Int
      BY DEF TypeOK, RunsTypeOK, ConstantsAssumption
    <3> QED
      BY <3>1 DEF ClaimMarker, Comment, Marker, Ids
  <2> DEFINE last == Len(thread[target[s]]) + 1
  <2>4. last \in DOMAIN thread'[target[s]] /\ thread'[target[s]][last] = ClaimMarker(s)
    BY <2>1, <2>2, <2>3, AppendProperties, LenProperties
  <2>5. ClaimMarker(s)' = ClaimMarker(s)
    BY <1>3 DEF PostsClaim, ClaimMarker
  <2> QED
    BY <1>3, <2>4, <2>5 DEF PostsClaim, ClaimAt
<1>4. CASE ReadsBack(s)
  <2>1. target[s] \in Target /\ thread[target[s]] \in Seq(Comment) /\ now[s] \in Nat
    BY <1>4 DEF ReadsBack, TypeOK, GitHubTypeOK, RunsTypeOK
  <2>2. PICK i \in DOMAIN thread[target[s]] : ClaimAt(s, target[s], i)
    BY <1>4 DEF ReadsBack, PostedClaims
  <2>3. owner'[s] = 0 => DeadOrHidden(target[s], i)
    BY <1>4, <2>1, <2>2, BlindReadBack DEF ReadsBack
  <2>4. ClaimMarker(s)' = ClaimMarker(s)
    BY <1>4 DEF ReadsBack, ClaimMarker
  <2> QED
    BY <1>4, <2>2, <2>3, <2>4 DEF ReadsBack, ClaimAt, DeadOrHidden
<1> QED
  BY <1>1, <1>2, <1>3, <1>4, StepAfter DEF AfterStep

\* A run that goes to work on an empty read-back had its claim revoked, or off the page, or
\* born expired: nothing else makes an owner invisible.
THEOREM BlindWinsExplained == Spec => []BlindWinExplained
<1> USE ConstantsAssumption
<1>1. Init => TypeOK /\ PostedClaims
  BY TypeInit DEF Init, PostedClaims
<1>2. TypeOK /\ PostedClaims /\ [Next]_vars => (TypeOK /\ PostedClaims)'
  BY TypeStep, PostedClaimsStep
<1>3. TypeOK /\ PostedClaims => BlindWinExplained
  BY DEF PostedClaims, ClaimAt, DeadOrHidden, BlindWinExplained
<1> QED
  BY <1>1, <1>2, <1>3, PTL DEF Spec

-----------------------------------------------------------------------------
(* The abstract specification *)

\* Lease keeps what it promises: one unrevoked, unexpired lease per target.
THEOREM LeaseExclusive == L!Spec => []L!Exclusive
<1>1. L!Init => L!Exclusive
  BY DEF L!Init, L!Exclusive
<1>2. L!Exclusive /\ [L!Next]_L!vars => L!Exclusive'
  <2> SUFFICES ASSUME L!Exclusive, [L!Next]_L!vars PROVE L!Exclusive'
    OBVIOUS
  <2> DEFINE before == leaseSet
             after == leaseSet'
  <2>1. ASSUME NEW t, \A k \in before : k.target # t, NEW l, l.target = t,
               after = before \cup {l}
        PROVE  L!Exclusive'
    <3> HIDE DEF after, before
    <3>1. \A k, m \in before : k.target = m.target => k = m
      BY DEF L!Exclusive, before
    <3>2. \A k, m \in after : k.target = m.target => k = m
      BY <2>1, <3>1
    <3> QED
      BY <3>2 DEF L!Exclusive, after
  <2>2. ASSUME after \subseteq before PROVE L!Exclusive'
    <3> HIDE DEF after, before
    <3>1. \A k, m \in before : k.target = m.target => k = m
      BY DEF L!Exclusive, before
    <3>2. \A k, m \in after : k.target = m.target => k = m
      BY <2>2, <3>1
    <3> QED
      BY <3>2 DEF L!Exclusive, after
  <2>3. ASSUME NEW r \in Run, NEW t \in Target, L!Grant(r, t) PROVE L!Exclusive'
    BY <2>1, <2>3 DEF L!Grant, L!Free
  <2>4. ASSUME L!Elapse \/ (\E r \in Run : L!Stop(r)) \/ (\E t \in Target : L!Revoke(t))
               \/ UNCHANGED L!vars
        PROVE  L!Exclusive'
    BY <2>2, <2>4 DEF L!Stop, L!Revoke, L!Elapse, L!vars
  <2> QED
    BY <2>3, <2>4 DEF L!Next
<1> QED
  BY <1>1, <1>2, PTL DEF L!Spec

-----------------------------------------------------------------------------
(* Leases of the protocol *)

LeaseOf(r, t) == [run |-> r, target |-> t, until |-> thread[t][owner[r]].until]

LeasesOfRuns ==
  \A l : l \in leaseSet <=> \E r \in Run, t \in Target : HoldsLease(r, t) /\ l = LeaseOf(r, t)

\* The leases are those of the runs that hold one, before and after a step.
LEMMA InLeases ==
  /\ \A l : l \in leaseSet <=> \E r \in Run, t \in Target : HoldsLease(r, t) /\ l = LeaseOf(r, t)
  /\ \A l : l \in leaseSet' <=>
              \E r \in Run, t \in Target : HoldsLease(r, t)' /\ l = LeaseOf(r, t)'
<1>1. LeasesOfRuns
  <2> DEFINE Holders == {q \in Run \X Target : HoldsLease(q[1], q[2])}
  <2>1. \A r \in Run, t \in Target : HoldsLease(r, t) <=> <<r, t>> \in Holders
    OBVIOUS
  <2>2. \A q \in Holders : q = <<q[1], q[2]>> /\ q[1] \in Run /\ q[2] \in Target
    OBVIOUS
  <2>3. leaseSet = {LeaseOf(q[1], q[2]) : q \in Holders}
    BY DEF leaseSet, LeaseOf
  <2> HIDE DEF Holders
  <2>4. \A l : l \in leaseSet <=> \E q \in Holders : l = LeaseOf(q[1], q[2])
    BY <2>3
  <2>5. \A l : (\E q \in Holders : l = LeaseOf(q[1], q[2])) <=>
              \E r \in Run, t \in Target : HoldsLease(r, t) /\ l = LeaseOf(r, t)
    BY <2>1, <2>2
  <2> QED
    BY <2>4, <2>5 DEF LeasesOfRuns
<1>2. LeasesOfRuns'
  BY <1>1, PTL
<1> QED
  BY <1>1, <1>2 DEF LeasesOfRuns

\* The step leaves the work of run s as it is.
SameWork(s) ==
  /\ pc'[s] = "work" <=> pc[s] = "work"
  /\ pc[s] = "work" => target'[s] = target[s] /\ owner'[s] = owner[s]

Quiet == UNCHANGED <<clock, thread>> /\ \A s \in Run : SameWork(s)

Passes ==
  /\ clock' = clock + 1
  /\ UNCHANGED thread
  /\ \A s \in Run : SameWork(s)

Appends(t, c) ==
  /\ UNCHANGED clock
  /\ thread' = [thread EXCEPT ![t] = Append(@, c)]
  /\ \A s \in Run : SameWork(s)

StopsWork(r) ==
  /\ UNCHANGED <<clock, thread>>
  /\ pc'[r] # "work"
  /\ \A s \in Run \ {r} : SameWork(s)

StartsWork(r) ==
  /\ UNCHANGED <<clock, thread>>
  /\ pc[r] # "work" /\ pc'[r] = "work" /\ target'[r] \in Target
  /\ \A s \in Run \ {r} : SameWork(s)

StepKind ==
  \/ Quiet
  \/ Passes
  \/ \E t \in Target, c \in Comment : Appends(t, c)
  \/ \E r \in Run : StopsWork(r) \/ StartsWork(r)

\* Going on to a phase that is not "work" changes nobody else's work.
LEMMA ProceedsWork ==
  ASSUME RunsTypeOK, NEW r \in Run, NEW phase \in Posting \cup Ended \cup {"readback"},
         Proceeds(r, phase) \/ (phase \in Ended /\ Ends(r, phase))
  PROVE  pc'[r] # "work" /\ \A s \in Run \ {r} : SameWork(s)
<1>1. phase # "work"
  BY DEF Posting, Ended
<1>2. pc' = [pc EXCEPT ![r] = phase]
  BY DEF Proceeds, Ends, Goes
<1> QED
  BY <1>1, <1>2 DEF Proceeds, Ends, RunsTypeOK, SameWork

\* Every step of the protocol is of one of these kinds.
LEMMA StepKinds ==
  ASSUME ConstantsAssumption, TypeOK, [Next]_vars
  PROVE  StepKind
<1> USE DEF TypeOK
<1>1. ASSUME NEW r \in Run, Starts(r), pc[r] \in {"idle", "crashed"} PROVE Quiet
  BY <1>1 DEF Starts, Goes, RunsTypeOK, Quiet, SameWork
<1>2. ASSUME NEW r \in Run, NEW t \in Target, Skip(r, t) \/ StandDown(r, t) \/ Stake(r, t)
      PROVE  Quiet
  BY <1>2 DEF Skip, StandDown, Stake, Goes, RunsTypeOK, Quiet, SameWork
<1>3. ASSUME NEW r \in Run, NEW t \in Target, AlreadyHeld(r, t) PROVE StartsWork(r)
  BY <1>3 DEF AlreadyHeld, Goes, RunsTypeOK, StartsWork, SameWork
<1>4. ASSUME NEW r \in Run, ReadBackWins(r) PROVE StartsWork(r)
  BY <1>4 DEF ReadBackWins, Goes, RunsTypeOK, StartsWork, SameWork
<1>5. ASSUME NEW r \in Run, Lists(r) \/ ReadBackLoses(r) PROVE Quiet
  BY <1>5 DEF Lists, ReadBackLoses, Goes, RunsTypeOK, Quiet, SameWork
<1>6. ASSUME NEW r \in Run, NoWork(r) \/ ReadFails(r) \/ Crash(r) PROVE StopsWork(r)
  BY <1>6, ProceedsWork DEF NoWork, ReadFails, Crash, Ended, StopsWork
<1>7. ASSUME NEW r \in Run, CommentsAndReleases(r) \/ Releases(r) \/ Keeps(r) \/ WorkFails(r)
      PROVE  StopsWork(r)
  BY <1>7, ProceedsWork
  DEF CommentsAndReleases, Releases, Keeps, WorkFails, Posting, Ended, StopsWork
<1>8. ASSUME NEW r \in Run, TimesOut(r) \/ Refused(r) PROVE StopsWork(r) \/ Quiet
  <2>1. pc[r] \in Posting
    BY <1>8 DEF TimesOut, Refused
  <2>2. CASE UNCHANGED <<pc, target, owner>>
    BY <1>8, <2>2 DEF TimesOut, Refused, Quiet, SameWork
  <2> QED
    BY <1>8, <2>1, <2>2, NextPhases, ProceedsWork DEF TimesOut, Refused, StopsWork
<1>9. ASSUME NEW r \in Run, Post(r) PROVE Appends(target[r], Outgoing(r))
  <2>1. pc[r] \in Posting /\ pc[r] # "work"
    BY <1>9 DEF Post, Posting
  <2>2. pc'[r] # "work" /\ \A s \in Run \ {r} : SameWork(s)
    BY <1>9, <2>1, NextPhases, ProceedsWork DEF Post
  <2> QED
    BY <1>9, <2>1, <2>2 DEF Post, Appends, SameWork
<1>10. ASSUME NEW r \in Run, Post(r)
       PROVE  target[r] \in Target /\ Outgoing(r) \in Comment
  BY <1>10, OutgoingType DEF Post, RunsTypeOK
<1>11. ASSUME NEW m \in wire, Deliver(m)
       PROVE  m.to \in Target /\ m.body \in Comment /\ Appends(m.to, m.body)
  BY <1>11 DEF Deliver, runVars, GitHubTypeOK, Request, Appends, SameWork
<1>12. ASSUME NEW t \in Target, PersonComments(t)
       PROVE  NoteOf(None) \in Comment /\ Appends(t, NoteOf(None))
  BY <1>12 DEF PersonComments, runVars, NoteOf, Comment, Note, Appends, SameWork
<1>13. CASE Tick
  BY <1>13 DEF Tick, runVars, Passes, SameWork, StepKind
<1>14. CASE UNCHANGED vars
  BY <1>14 DEF vars, Quiet, SameWork, StepKind
<1>15. ASSUME NEW r \in Run, Begin(r) \/ Restart(r) \/ RunStep(r) \/ Failure(r)
       PROVE  StepKind
  BY <1>1, <1>2, <1>3, <1>4, <1>5, <1>6, <1>7, <1>8, <1>9, <1>10, <1>15
  DEF Begin, Restart, RunStep, Failure, StepKind
<1> QED
  BY <1>2, <1>11, <1>12, <1>13, <1>14, <1>15 DEF Next, StepKind

-----------------------------------------------------------------------------
(* The kinds of steps are steps of Lease *)

\* A lease that its run keeps over a step that writes nothing.
LEMMA KeptLease ==
  ASSUME TypeOK, UNCHANGED thread, clock' >= clock, clock' \in Nat,
         NEW s \in Run, SameWork(s), NEW t \in Target
  PROVE  /\ HoldsLease(s, t)' <=> HoldsLease(s, t) /\ thread[t][owner[s]].until > clock'
         /\ HoldsLease(s, t) => LeaseOf(s, t)' = LeaseOf(s, t)
<1>1. owner[s] # 0 /\ Unrevoked(t, owner[s]) => thread[t][owner[s]].until \in Int
  BY KindOfThread DEF Unrevoked
<1>2. clock \in Nat
  BY DEF TypeOK, GitHubTypeOK
<1> QED
  BY <1>1, <1>2 DEF SameWork, HoldsLease, Working, Unrevoked, ReleasedAfter, MarkerOf, LeaseOf

\* A lease that is held ends in the future.
LEMMA UntilAfterClock ==
  ASSUME TypeOK, NEW r \in Run, NEW t \in Target, HoldsLease(r, t)
  PROVE  thread[t][owner[r]].until \in Int /\ thread[t][owner[r]].until > clock
BY KindOfThread DEF HoldsLease, Unrevoked

\* A quiet step leaves the leases as they are.
LEMMA QuietIsStutter ==
  ASSUME TypeOK, Quiet
  PROVE  UNCHANGED L!vars
<1>1. \A s \in Run, t \in Target :
         /\ HoldsLease(s, t)' <=> HoldsLease(s, t)
         /\ HoldsLease(s, t) => LeaseOf(s, t)' = LeaseOf(s, t)
  BY KeptLease, UntilAfterClock DEF Quiet, TypeOK, GitHubTypeOK
<1>2. leaseSet' = leaseSet
  BY <1>1, InLeases
<1> QED
  BY <1>2 DEF Quiet, L!vars

\* Time that passes lets the leases elapse that end by then.
LEMMA PassesIsElapse ==
  ASSUME TypeOK, Passes
  PROVE  L!Elapse
<1>1. \A s \in Run, t \in Target :
         /\ HoldsLease(s, t)' <=> HoldsLease(s, t) /\ LeaseOf(s, t).until > clock'
         /\ HoldsLease(s, t) => LeaseOf(s, t)' = LeaseOf(s, t)
  BY KeptLease DEF Passes, TypeOK, GitHubTypeOK, LeaseOf
<1>2. leaseSet' = {l \in leaseSet : l.until > clock'}
  BY <1>1, InLeases
<1> QED
  BY <1>2 DEF Passes, L!Elapse

\* A run that stops working gives its lease up.
LEMMA StopsWorkIsStop ==
  ASSUME TypeOK, NEW r \in Run, StopsWork(r)
  PROVE  L!Stop(r)
<1>1. \A s \in Run \ {r}, t \in Target :
         /\ HoldsLease(s, t)' <=> HoldsLease(s, t)
         /\ HoldsLease(s, t) => LeaseOf(s, t)' = LeaseOf(s, t)
  BY KeptLease, UntilAfterClock DEF StopsWork, TypeOK, GitHubTypeOK
<1>2. \A t \in Target : ~HoldsLease(r, t)'
  BY DEF StopsWork, HoldsLease, Working
<1>3. \A s, t : LeaseOf(s, t).run = s
  BY DEF LeaseOf
<1>4. leaseSet' = {l \in leaseSet : l.run # r}
  BY <1>1, <1>2, <1>3, InLeases
<1> QED
  BY <1>4 DEF StopsWork, L!Stop

\* Going to work is a grant, when the claim is live; the target is free by the exclusion
\* of leases.
LEMMA StartsWorkIsGrant ==
  ASSUME TypeOK, LeaseExclusion', NEW r \in Run, StartsWork(r)
  PROVE  (\E t \in Target : L!Grant(r, t)) \/ UNCHANGED L!vars
<1>0. PICK t \in Target : t = target'[r]
  BY DEF StartsWork
<1>1. \A s \in Run \ {r}, u \in Target :
         /\ HoldsLease(s, u)' <=> HoldsLease(s, u)
         /\ HoldsLease(s, u) => LeaseOf(s, u)' = LeaseOf(s, u)
  BY KeptLease, UntilAfterClock DEF StartsWork, TypeOK, GitHubTypeOK
<1>2. \A u \in Target : ~HoldsLease(r, u) /\ (HoldsLease(r, u)' => u = t)
  BY <1>0 DEF StartsWork, HoldsLease, Working
<1>3. UNCHANGED clock
  BY DEF StartsWork
<1>4. CASE ~\E u \in Target : HoldsLease(r, u)'
  <2>1. leaseSet' = leaseSet
    BY <1>1, <1>2, <1>4, InLeases
  <2> QED
    BY <1>3, <2>1 DEF L!vars
<1>5. CASE \E u \in Target : HoldsLease(r, u)'
  <2>0. HoldsLease(r, t)'
    BY <1>2, <1>5
  <2> PICK l : l = LeaseOf(r, t)'
    OBVIOUS
  <2>1. \A s \in Run : ~HoldsLease(s, t)
    <3> TAKE s \in Run
    <3>1. CASE s = r
      BY <1>2, <3>1
    <3>2. CASE s # r
      <4>1. \A q \in Run : HoldsLease(q, t)' => q = r
        BY <2>0 DEF LeaseExclusion
      <4> QED
        BY <1>1, <3>2, <4>1
    <3> QED
      BY <3>1, <3>2
  <2>2. \A s, u : LeaseOf(s, u).run = s /\ LeaseOf(s, u).target = u
    BY DEF LeaseOf
  <2>3. \A k \in leaseSet : k.target # t
    BY <2>1, <2>2, InLeases
  <2>4. l.run = r /\ l.target = t /\ l.until > clock
    BY <1>3, <2>0 DEF LeaseOf, HoldsLease
  <2>5. leaseSet' = leaseSet \cup {l}
    BY <1>1, <1>2, <2>0, InLeases
  <2>6. l \in leaseSet' \ leaseSet
    BY <2>3, <2>4, <2>5
  <2>7. L!Grant(r, t)
    BY <1>3, <2>3, <2>4, <2>5, <2>6 DEF L!Grant, L!Free
  <2> QED
    BY <2>7
<1> QED
  BY <1>4, <1>5

\* A release revokes every lease on its target, another comment none.
LEMMA AppendsIsRevoke ==
  ASSUME IInv, NEW t \in Target, NEW c \in Comment, Appends(t, c)
  PROVE  L!Revoke(t) \/ UNCHANGED L!vars
<1> USE DEF IInv
<1>1. /\ thread'[t] = Append(thread[t], c) /\ thread[t] \in Seq(Comment)
      /\ \A u \in Target \ {t} : thread'[u] = thread[u]
  BY DEF Appends, TypeOK, GitHubTypeOK
<1>2. ASSUME NEW s \in Run, NEW u \in Target \ {t}
      PROVE  /\ HoldsLease(s, u)' <=> HoldsLease(s, u)
             /\ HoldsLease(s, u) => LeaseOf(s, u)' = LeaseOf(s, u)
  BY <1>1 DEF Appends, SameWork, HoldsLease, Working, Unrevoked, ReleasedAfter, MarkerOf, LeaseOf
<1>3. ASSUME NEW s \in Run, Working(s, t), owner[s] # 0
      PROVE  owner[s] \in DOMAIN thread[t]
  BY <1>3 DEF WonClaims, Won, Working
<1>4. ASSUME NEW i \in DOMAIN thread[t]
      PROVE  /\ thread'[t][i] = thread[t][i]
             /\ Unrevoked(t, i)' <=> Unrevoked(t, i) /\ c.op # "release"
  <2> DEFINE a == Append(thread[t], c)
             n == Len(thread[t]) + 1
  <2>1. /\ a[i] = thread[t][i] /\ i \in DOMAIN a
        /\ n \in DOMAIN a /\ a[n] = c /\ i < n
        /\ DOMAIN a = DOMAIN thread[t] \cup {n}
        /\ \A j \in DOMAIN thread[t] : a[j] = thread[t][j]
    BY <1>1, AppendProperties, LenProperties
  <2>2. c.kind = Kind
    BY DEF Comment, Marker, Note
  <2>3. ReleasedAfter(a, Kind, i) <=> ReleasedAfter(thread[t], Kind, i) \/ c.op = "release"
    <3> HIDE DEF a, n
    <3> QED
      BY <2>1, <2>2 DEF ReleasedAfter, MarkerOf
  <2> HIDE DEF n
  <2> QED
    BY <1>1, <2>1, <2>3 DEF Unrevoked
<1>5. ASSUME NEW s \in Run
      PROVE  /\ HoldsLease(s, t)' <=> HoldsLease(s, t) /\ c.op # "release"
             /\ HoldsLease(s, t) => LeaseOf(s, t)' = LeaseOf(s, t)
  BY <1>3, <1>4 DEF Appends, SameWork, HoldsLease, Working, LeaseOf
<1>6. \A s, u : LeaseOf(s, u).target = u
  BY DEF LeaseOf
<1>7. CASE c.op = "release"
  <2>1. leaseSet' = {l \in leaseSet : l.target # t}
    BY <1>2, <1>5, <1>6, <1>7, InLeases
  <2> QED
    BY <2>1 DEF Appends, L!Revoke
<1>8. CASE c.op # "release"
  <2>1. leaseSet' = leaseSet
    BY <1>2, <1>5, <1>8, InLeases
  <2> QED
    BY <2>1 DEF Appends, L!vars
<1> QED
  BY <1>7, <1>8

\* The protocol implements the lease, when no two runs have the same id.
THEOREM ProtocolImplementsLease == ASSUME DistinctIds PROVE Spec => LeaseSpec
<1> USE ConstantsAssumption
<1>1. Init => L!Init
  BY InLeases DEF Init, L!Init, HoldsLease, Working
<1>2. IInv => LeaseExclusion
  BY IInvExclusion
<1>3. IInv /\ LeaseExclusion' /\ [Next]_vars => [L!Next]_L!vars
  <2> SUFFICES ASSUME IInv, LeaseExclusion', [Next]_vars PROVE [L!Next]_L!vars
    OBVIOUS
  <2>1. StepKind
    BY StepKinds DEF IInv
  <2> QED
    BY <2>1, QuietIsStutter, PassesIsElapse, AppendsIsRevoke, StopsWorkIsStop,
       StartsWorkIsGrant
    DEF StepKind, IInv, L!Next
<1> QED
  BY <1>1, <1>2, <1>3, Invariant, PTL DEF Spec, LeaseSpec, L!Spec
=============================================================================
