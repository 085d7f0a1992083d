--------------------------- MODULE ClaimRaceProofs --------------------------
(***************************************************************************)
(* A race leaves a contender, for every set of runs and targets and every  *)
(* page size and number of retries.                                        *)
(*                                                                         *)
(* What a run was told when it lost stays visible in the thread: the rival *)
(* has a claim before the run's own first claim, with no release between   *)
(* the two, or a release separates the run's first claim from a later one  *)
(* of the rival (LostTo).  Order the first claims of the racers by the     *)
(* releases between them and by position: among those that no release      *)
(* separates from the last of them, the run with the first one has lost to *)
(* nobody (NoCircle).                                                      *)
(***************************************************************************)
EXTENDS ClaimRace, ClaimProtocolProofs

-----------------------------------------------------------------------------
(* Claims and releases in a thread *)

FirstClaim(s, id, p) == p \in ClaimsOf(s, id) /\ \A k \in ClaimsOf(s, id) : p <= k

\* The rival's claim i precedes claim p in its turn, or belongs to a later turn.
Beats(s, i, p) == (i < p /\ ~ReleaseBetween(s, i, p)) \/ ReleaseBetween(s, p, i)

LostTo(s, id, rival) ==
  \E p \in DOMAIN s, i \in ClaimsOf(s, rival) : FirstClaim(s, id, p) /\ Beats(s, i, p)

\* A run with a claim in the thread has a first one.
LEMMA FirstClaimExists ==
  ASSUME NEW s, DOMAIN s \subseteq Nat, NEW id, NEW k \in ClaimsOf(s, id)
  PROVE  \E p \in ClaimsOf(s, id) : FirstClaim(s, id, p)
<1>1. ClaimsOf(s, id) \subseteq Nat /\ ClaimsOf(s, id) # {}
  BY DEF ClaimsOf
<1> QED
  BY <1>1, LeastNatural DEF FirstClaim

\* Two stretches without a release make one, if there is no release at the joint.
LEMMA OneTurn ==
  ASSUME NEW s, DOMAIN s \subseteq Nat, NEW i \in Nat, NEW j \in Nat, NEW k \in Nat,
         ~ReleaseBetween(s, i, j), ~ReleaseBetween(s, j, k), s[j].op = "claim"
  PROVE  ~ReleaseBetween(s, i, k)
<1> SUFFICES ASSUME NEW m \in DOMAIN s, i < m, m < k, MarkerOf(s, Kind, m), s[m].op = "release"
             PROVE  FALSE
  BY DEF ReleaseBetween
<1>1. m # j
  OBVIOUS
<1>2. m < j \/ j < m
  BY <1>1
<1> QED
  BY <1>2 DEF ReleaseBetween

\* Of runs whose claims each lie in one turn, one has lost to no other.
LEMMA NoCircle ==
  ASSUME NEW s, NEW len \in Nat, DOMAIN s = 1..len, NEW ids, ids # {},
         \A id \in ids : \A i, k \in ClaimsOf(s, id) : ~ReleaseBetween(s, i, k),
         \A id \in ids : \E rival \in ids : LostTo(s, id, rival)
  PROVE  FALSE
<1> DEFINE Firsts == {p \in DOMAIN s : \E id \in ids : FirstClaim(s, id, p)}
<1>1. DOMAIN s \subseteq Nat
  OBVIOUS
<1>2. \A p \in Firsts : p \in 1..len /\ s[p].op = "claim"
  BY DEF FirstClaim, ClaimsOf
<1>3. PICK last \in Firsts : \A p \in Firsts : p <= last
  <2>1. Firsts # {}
    BY DEF LostTo
  <2> DEFINE Above == {len - p : p \in Firsts}
  <2>2. Above \in SUBSET Nat /\ Above # {}
    <3> HIDE DEF Firsts
    <3> QED
      BY <1>2, <2>1
  <2>3. PICK a \in Above : \A b \in Above : a <= b
    <3> HIDE DEF Above
    <3> QED
      BY <2>2, LeastNatural
  <2>4. PICK last \in Firsts : a = len - last
    OBVIOUS
  <2>5. ASSUME NEW p \in Firsts PROVE p <= last
    <3>1. len - last <= len - p
      BY <2>3, <2>4
    <3> HIDE DEF Firsts
    <3> QED
      BY <1>2, <3>1
  <2> QED
    BY <2>5
<1> DEFINE Group == {p \in Firsts : ~ReleaseBetween(s, p, last)}
<1>4. PICK q \in Group : \A p \in Group : q <= p
  <2>1. last \in Nat
    BY <1>2
  <2>2. last \in Group
    BY <1>1, <2>1 DEF ReleaseBetween
  <2>3. Group \in SUBSET Nat /\ Group # {}
    BY <1>2, <2>2
  <2> HIDE DEF Group
  <2> QED
    BY <2>3, LeastNatural
<1>5. PICK id \in ids : FirstClaim(s, id, q)
  OBVIOUS
<1>6. PICK rival \in ids : LostTo(s, id, rival)
  OBVIOUS
<1>7. PICK i \in ClaimsOf(s, rival) : Beats(s, i, q)
  <2>1. PICK p \in DOMAIN s, i \in ClaimsOf(s, rival) : FirstClaim(s, id, p) /\ Beats(s, i, p)
    BY <1>6 DEF LostTo
  <2>2. p <= q /\ q <= p /\ p \in Nat /\ q \in Nat
    BY <1>1, <1>5, <2>1 DEF FirstClaim, ClaimsOf
  <2>3. p = q
    BY <2>2
  <2> QED
    BY <2>1, <2>3
<1>8. PICK u \in ClaimsOf(s, rival) : FirstClaim(s, rival, u)
  BY <1>1, FirstClaimExists
<1>9. u \in Firsts /\ ~ReleaseBetween(s, u, i)
  BY <1>8 DEF ClaimsOf
<1>10. /\ u \in Nat /\ i \in Nat /\ q \in Nat /\ last \in Nat
       /\ u <= i /\ u <= last /\ s[i].op = "claim" /\ s[q].op = "claim"
       /\ s[u].op = "claim" /\ ~ReleaseBetween(s, q, last)
  BY <1>2, <1>3, <1>4, <1>8, <1>9 DEF FirstClaim, ClaimsOf
<1>11. u \in Group => q <= u
  BY <1>4
<1>12. u \in Group <=> ~ReleaseBetween(s, u, last)
  BY <1>9
<1> HIDE DEF Firsts, Group
<1>13. CASE i < q /\ ~ReleaseBetween(s, i, q)
  <2>1. ~ReleaseBetween(s, u, q)
    BY <1>1, <1>9, <1>10, <1>13, OneTurn
  <2>2. ~ReleaseBetween(s, u, last)
    BY <1>1, <1>10, <2>1, OneTurn
  <2> QED
    BY <1>10, <1>11, <1>12, <1>13, <2>2
<1>14. CASE ReleaseBetween(s, q, i)
  <2>1. PICK m \in DOMAIN s : q < m /\ m < i /\ MarkerOf(s, Kind, m) /\ s[m].op = "release"
    BY <1>14 DEF ReleaseBetween
  <2>2. m \in Nat /\ ~(u < m) /\ u # m
    BY <1>1, <1>9, <1>10, <2>1 DEF ReleaseBetween
  <2>3. m < last
    BY <1>10, <2>2
  <2> QED
    BY <1>10, <2>1, <2>3 DEF ReleaseBetween
<1> QED
  BY <1>7, <1>13, <1>14 DEF Beats

-----------------------------------------------------------------------------
(* What a run has claimed *)

\* The comment is in a thread, or a late request may still put it there.
Published(c) ==
  \/ \E t \in Target : \E i \in DOMAIN thread[t] : thread[t][i] = c
  \/ \E m \in wire : m.body = c

\* A run that was executed once has claimed nothing before it began, and all its claims
\* carry the expiry it computed from its own `now`.
OwnClaims ==
  \A r \in Run : restarts[r] = 0 =>
     \A c : Published(c) /\ c.op = "claim" /\ c.run = RunId[r] =>
        pc[r] # "idle" /\ (pc[r] \notin Ended => c.until = now[r] + TTL)

\* What a step does to a run executed once: it begins, goes on under the same `now`, or ends.
LivesOn(s) ==
  restarts'[s] = 0 =>
    /\ restarts[s] = 0
    /\ pc'[s] = "idle" => pc[s] = "idle"
    /\ pc'[s] \notin Ended => pc[s] = "idle" \/ (pc[s] \notin Ended /\ now'[s] = now[s])

\* What a step publishes: nothing, or what a run is posting, or a person's comment.
Publishes ==
  \A c : Published(c)' =>
    \/ Published(c)
    \/ \E r \in Run : pc[r] \in Posting /\ c = Outgoing(r)
    \/ c = NoteOf(None)

\* A run that proceeds, or ends, does not begin.
LEMMA ProceedsLivesOn ==
  ASSUME RunsTypeOK, NEW r \in Run, NEW phase \in Posting \cup Ended \cup {"readback"},
         pc[r] \notin Ended \cup {"idle"},
         Proceeds(r, phase) \/ (phase \in Ended /\ Ends(r, phase)), NEW s \in Run
  PROVE  LivesOn(s)
<1>1. phase # "idle"
  BY DEF Posting, Ended
<1>2. pc' = [pc EXCEPT ![r] = phase] /\ UNCHANGED restarts
  BY DEF Proceeds, Ends, Goes
<1>3. phase \in Ended \/ UNCHANGED now
  BY DEF Proceeds
<1>4. CASE s = r
  BY <1>1, <1>2, <1>3, <1>4 DEF RunsTypeOK, LivesOn
<1>5. CASE s # r
  BY <1>2, <1>3, <1>5 DEF Proceeds, Ends, RunsTypeOK, LivesOn
<1> QED
  BY <1>4, <1>5

\* Every run lives on through every step.
LEMMA StepLivesOn ==
  ASSUME ConstantsAssumption, TypeOK, [Next]_vars, NEW s \in Run
  PROVE  LivesOn(s)
<1> USE DEF TypeOK
<1>1. ASSUME NEW r \in Run, Begin(r) PROVE LivesOn(s)
  BY <1>1 DEF Begin, Starts, Goes, RunsTypeOK, LivesOn
<1>2. ASSUME NEW r \in Run, Restart(r) PROVE LivesOn(s)
  <2>1. restarts[r] \in Nat /\ restarts' = [restarts EXCEPT ![r] = @ + 1]
    BY <1>2 DEF Restart, RunsTypeOK, ConstantsAssumption
  <2>2. CASE s = r
    BY <2>1, <2>2 DEF RunsTypeOK, LivesOn
  <2>3. CASE s # r
    BY <1>2, <2>1, <2>3 DEF Restart, Starts, Goes, RunsTypeOK, LivesOn
  <2> QED
    BY <2>2, <2>3
<1>3. ASSUME NEW r \in Run, NEW t \in Target,
             Skip(r, t) \/ StandDown(r, t) \/ Stake(r, t) \/ AlreadyHeld(r, t)
      PROVE  LivesOn(s)
  BY <1>3 DEF Skip, StandDown, Stake, AlreadyHeld, Goes, RunsTypeOK, LivesOn, Ended
<1>4. ASSUME NEW r \in Run, Lists(r) \/ ReadBackWins(r) \/ ReadBackLoses(r) PROVE LivesOn(s)
  BY <1>4 DEF Lists, ReadBackWins, ReadBackLoses, Goes, RunsTypeOK, LivesOn, Ended
<1>5. ASSUME NEW r \in Run, Post(r) \/ TimesOut(r) \/ Refused(r) PROVE LivesOn(s)
  <2>1. pc[r] \in Posting /\ pc[r] \notin Ended \cup {"idle"}
    BY <1>5 DEF Post, TimesOut, Refused, Posting, Ended
  <2>2. CASE UNCHANGED <<pc, now, restarts>>
    BY <2>2 DEF LivesOn
  <2> QED
    BY <1>5, <2>1, <2>2, NextPhases, ProceedsLivesOn DEF Post, TimesOut, Refused
<1>6. ASSUME NEW r \in Run, NoWork(r) \/ ReadFails(r) \/ Crash(r) PROVE LivesOn(s)
  <2>1. pc[r] \notin Ended \cup {"idle"}
    BY <1>6 DEF NoWork, ReadFails, Crash, Ended
  <2> QED
    BY <1>6, <2>1, ProceedsLivesOn DEF NoWork, ReadFails, Crash, Ended
<1>7. ASSUME NEW r \in Run, CommentsAndReleases(r) \/ Releases(r) \/ Keeps(r) \/ WorkFails(r)
      PROVE  LivesOn(s)
  <2>1. pc[r] \notin Ended \cup {"idle"}
    BY <1>7 DEF CommentsAndReleases, Releases, Keeps, WorkFails, Ended
  <2> QED
    BY <1>7, <2>1, ProceedsLivesOn
    DEF CommentsAndReleases, Releases, Keeps, WorkFails, Posting, Ended
<1>8. CASE (\E m \in wire : Deliver(m)) \/ (\E t \in Target : PersonComments(t)) \/ Tick
           \/ UNCHANGED vars
  BY <1>8 DEF Deliver, PersonComments, Tick, runVars, vars, LivesOn
<1> QED
  BY <1>1, <1>2, <1>3, <1>4, <1>5, <1>6, <1>7, <1>8 DEF Next, RunStep, Failure

\* Appending to one thread publishes one comment.
LEMMA AppendPublishes ==
  ASSUME TypeOK, NEW t \in Target, NEW d \in Comment,
         thread' = [thread EXCEPT ![t] = Append(@, d)], wire' \subseteq wire
  PROVE  \A c : Published(c)' => Published(c) \/ c = d
<1> SUFFICES ASSUME NEW c, Published(c)', c # d PROVE Published(c)
  OBVIOUS
<1>1. thread'[t] = Append(thread[t], d) /\ thread[t] \in Seq(Comment)
  BY DEF TypeOK, GitHubTypeOK
<1>2. ASSUME NEW u \in Target, NEW i \in DOMAIN thread'[u], thread'[u][i] = c
      PROVE  i \in DOMAIN thread[u] /\ thread[u][i] = c
  <2>1. CASE u # t
    BY <1>2, <2>1 DEF TypeOK, GitHubTypeOK
  <2>2. CASE u = t
    <3>1. i \in 1..(Len(thread[t]) + 1) /\ Len(thread[t]) \in Nat
      BY <1>1, <1>2, <2>2, AppendProperties, LenProperties
    <3>2. i # Len(thread[t]) + 1
      BY <1>1, <1>2, <2>2, AppendProperties
    <3>3. i \in 1..Len(thread[t])
      BY <3>1, <3>2
    <3> QED
      BY <1>1, <1>2, <2>2, <3>3, AppendProperties, LenProperties
  <2> QED
    BY <2>1, <2>2
<1> QED
  BY <1>2 DEF Published

\* Only the POST at hand, a late request or a person's comment shows up after a step.
LEMMA StepPublishes ==
  ASSUME ConstantsAssumption, TypeOK, [Next]_vars
  PROVE  Publishes
<1>1. ASSUME NEW r \in Run, Post(r) PROVE Publishes
  <2>1. target[r] \in Target /\ Outgoing(r) \in Comment /\ pc[r] \in Posting
    BY <1>1, OutgoingType DEF Post, TypeOK, RunsTypeOK
  <2> QED
    BY <1>1, <2>1, AppendPublishes DEF Post, Publishes
<1>2. ASSUME NEW r \in Run, TimesOut(r) PROVE Publishes
  <2>1. UNCHANGED thread /\ wire' = wire \cup {PostOf(r)} /\ PostOf(r).body = Outgoing(r)
    BY <1>2 DEF TimesOut, PostOf
  <2>2. pc[r] \in Posting
    BY <1>2 DEF TimesOut
  <2> QED
    BY <2>1, <2>2 DEF Publishes, Published
<1>3. ASSUME NEW m \in wire, Deliver(m) PROVE Publishes
  <2>1. m.to \in Target /\ m.body \in Comment
    BY DEF TypeOK, GitHubTypeOK, Request
  <2>2. \A c : Published(c)' => Published(c) \/ c = m.body
    BY <1>3, <2>1, AppendPublishes DEF Deliver
  <2>3. Published(m.body)
    BY DEF Published
  <2> QED
    BY <2>2, <2>3 DEF Publishes
<1>4. ASSUME NEW t \in Target, PersonComments(t) PROVE Publishes
  <2>1. NoteOf(None) \in Comment
    BY DEF NoteOf, Comment, Note
  <2> QED
    BY <1>4, <2>1, AppendPublishes DEF PersonComments, Publishes
<1>5. ASSUME UNCHANGED <<thread, wire>> PROVE Publishes
  BY <1>5 DEF Publishes, Published
<1>6. ASSUME NEW r \in Run, Begin(r) \/ Restart(r) \/ RunStep(r) \/ Failure(r) PROVE Publishes
  BY <1>1, <1>2, <1>5, <1>6
  DEF Begin, Restart, Starts, Lists, RunStep, NoWork, StandDown, AlreadyHeld, Stake, ReadBackWins,
      ReadBackLoses, CommentsAndReleases, Releases, Keeps, Failure, ReadFails, WorkFails,
      Refused, Crash
<1> QED
  BY <1>3, <1>4, <1>5, <1>6 DEF Next, Skip, Tick, vars

\* With distinct ids a run's claims stay its own.
LEMMA OwnClaimsStep ==
  ASSUME ConstantsAssumption, DistinctIds, TypeOK, OwnClaims, [Next]_vars
  PROVE  OwnClaims'
<1> SUFFICES ASSUME NEW r \in Run, restarts'[r] = 0, NEW c, Published(c)', c.op = "claim",
                    c.run = RunId[r]
             PROVE  pc'[r] # "idle" /\ (pc'[r] \notin Ended => c.until = now'[r] + TTL)
  BY DEF OwnClaims
<1>1. /\ restarts[r] = 0
      /\ pc'[r] = "idle" => pc[r] = "idle"
      /\ pc'[r] \notin Ended => pc[r] = "idle" \/ (pc[r] \notin Ended /\ now'[r] = now[r])
  BY StepLivesOn DEF LivesOn
<1>2. CASE Published(c)
  BY <1>1, <1>2 DEF OwnClaims
<1>3. ASSUME NEW s \in Run, pc[s] \in Posting, c = Outgoing(s)
      PROVE  pc'[r] # "idle" /\ (pc'[r] \notin Ended => c.until = now'[r] + TTL)
  <2>1. pc[s] = "claim" /\ c = ClaimMarker(s)
    BY <1>3 DEF Outgoing, NoteOf, ReleaseMarker
  <2>2. RunId[s] = RunId[r] /\ c.until = now[s] + TTL
    BY <2>1 DEF ClaimMarker
  <2>3. s = r
    BY <2>2 DEF DistinctIds
  <2> QED
    BY <1>1, <2>1, <2>2, <2>3
<1>4. c # NoteOf(None)
  BY DEF NoteOf
<1> QED
  BY <1>2, <1>3, <1>4, StepPublishes DEF Publishes

-----------------------------------------------------------------------------
(* What a run was told when it lost *)

LossesExplained ==
  \A r \in Run, t \in Target : restarts[r] = 0 /\ Len(thread[t]) <= Page =>
     \A id : <<t, id>> \in lost[r] => LostTo(thread[t], RunId[r], id)

\* What a run has lost by does not change when a comment is appended.
LEMMA LostToStable ==
  ASSUME NEW s \in Seq(Comment), NEW c \in Comment, NEW id, NEW rival, LostTo(s, id, rival)
  PROVE  LostTo(Append(s, c), id, rival)
<1> DEFINE a == Append(s, c)
<1>1. /\ DOMAIN s = 1..Len(s) /\ Len(s) \in Nat
      /\ DOMAIN a = 1..(Len(s) + 1)
      /\ \A i \in DOMAIN s : i \in DOMAIN a /\ a[i] = s[i]
  BY AppendProperties, LenProperties
<1>2. \A i \in DOMAIN a : i \notin DOMAIN s => \A k \in DOMAIN s : k < i
  BY <1>1
<1>3. \A who : \A i \in DOMAIN s : i \in ClaimsOf(a, who) <=> i \in ClaimsOf(s, who)
  BY <1>1 DEF ClaimsOf, MarkerOf
<1>4. \A i, k \in DOMAIN s : ReleaseBetween(a, i, k) <=> ReleaseBetween(s, i, k)
  <2> SUFFICES ASSUME NEW i \in DOMAIN s, NEW k \in DOMAIN s
               PROVE  ReleaseBetween(a, i, k) <=> ReleaseBetween(s, i, k)
    OBVIOUS
  <2>1. \A j \in DOMAIN a : j < k => j \in DOMAIN s
    BY <1>1
  <2> HIDE DEF a
  <2> QED
    BY <1>1, <2>1 DEF ReleaseBetween, MarkerOf
<1>5. PICK p \in DOMAIN s, i \in ClaimsOf(s, rival) : FirstClaim(s, id, p) /\ Beats(s, i, p)
  BY DEF LostTo
<1>6. p \in DOMAIN a /\ i \in DOMAIN s /\ i \in ClaimsOf(a, rival)
  BY <1>1, <1>3, <1>5 DEF ClaimsOf
<1>7. FirstClaim(a, id, p)
  <2>1. p \in ClaimsOf(a, id)
    BY <1>3, <1>5 DEF FirstClaim
  <2>2. ASSUME NEW k \in ClaimsOf(a, id) PROVE p <= k
    <3>1. CASE k \in DOMAIN s
      BY <1>3, <1>5, <3>1 DEF FirstClaim
    <3>2. CASE k \notin DOMAIN s
      <4>1. k \in DOMAIN a
        BY DEF ClaimsOf
      <4>2. p < k /\ p \in Nat /\ k \in Nat
        BY <1>1, <1>2, <1>5, <3>2, <4>1
      <4> QED
        BY <4>2
    <3> QED
      BY <3>1, <3>2
  <2> QED
    BY <2>1, <2>2 DEF FirstClaim
<1>8. Beats(a, i, p)
  BY <1>4, <1>5, <1>6 DEF Beats
<1> QED
  BY <1>6, <1>7, <1>8 DEF LostTo

\* A whole thread on the page is read as it is.
LEMMA WholeThreadSeen ==
  ASSUME ConstantsAssumption, NEW t, thread[t] \in Seq(Comment), Len(thread[t]) <= Page
  PROVE  /\ DOMAIN Seen(t) = DOMAIN thread[t]
         /\ \A i \in DOMAIN thread[t] : Seen(t)[i] = thread[t][i]
<1>1. \A i \in DOMAIN thread[t] : i <= Page
  BY LenProperties DEF ConstantsAssumption
<1>2. \A i \in DOMAIN thread[t] : i \in DOMAIN Seen(t)
  BY <1>1, SeenDomain
<1> QED
  BY <1>2, SeenPrefix

\* A run that loses its race names a rival whose claim precedes its own in their turn, or
\* belongs to a later turn: its own claim, if it came first, was released.
LEMMA LossExplained ==
  ASSUME ConstantsAssumption, TypeOK, TTL > 0, PostedClaims, OwnClaims,
         NEW r \in Run, restarts[r] = 0, ReadBackLoses(r), Len(thread[target[r]]) <= Page
  PROVE  LostTo(thread[target[r]], RunId[r], Rival(r))
<1> DEFINE t == target[r]
           s == thread[t]
           i == OwningClaim(Seen(t), Kind, now[r])
<1>1. /\ t \in Target /\ s \in Seq(Comment) /\ pc[r] = "readback"
      /\ now[r] \in Nat /\ TTL \in Int
  BY DEF ReadBackLoses, TypeOK, GitHubTypeOK, RunsTypeOK, ConstantsAssumption
<1>2. DOMAIN s \subseteq Nat
  BY <1>1, LenProperties
<1>3. DOMAIN Seen(t) = DOMAIN s /\ \A k \in DOMAIN s : Seen(t)[k] = s[k]
  BY <1>1, WholeThreadSeen
<1>4. i \in DOMAIN s /\ Owns(Seen(t), Kind, now[r], i)
  BY <1>3, OwningClaimOwns DEF ReadBackLoses
<1>5. i \in ClaimsOf(s, Rival(r)) /\ ~ReleasedAfter(s, Kind, i)
  BY <1>3, <1>4 DEF Owns, LiveClaim, MarkerOf, ReleasedAfter, ClaimsOf, Rival
<1>6. PICK k \in DOMAIN s : s[k] = ClaimMarker(r)
  BY <1>1 DEF PostedClaims, ClaimAt
<1>7. k \in ClaimsOf(s, RunId[r])
  BY <1>6 DEF ClaimMarker, ClaimsOf, MarkerOf
<1>8. PICK p \in ClaimsOf(s, RunId[r]) : FirstClaim(s, RunId[r], p)
  BY <1>2, <1>7, FirstClaimExists
<1>9. p \in DOMAIN s /\ s[p].until > now[r]
  <2>1. p \in DOMAIN s /\ s[p].op = "claim" /\ s[p].run = RunId[r]
    BY DEF ClaimsOf
  <2>2. Published(s[p])
    BY <1>1, <2>1 DEF Published
  <2>3. s[p].until = now[r] + TTL
    BY <1>1, <2>1, <2>2 DEF OwnClaims, Ended
  <2> QED
    BY <1>1, <2>1, <2>3
<1>10. p # i
  <2>1. s[p].run = RunId[r]
    BY DEF ClaimsOf
  <2> QED
    BY <2>1 DEF ReadBackLoses
<1>11. CASE i < p
  <2>1. ~ReleaseBetween(s, i, p)
    BY <1>5 DEF ReleaseBetween, ReleasedAfter
  <2> QED
    BY <1>5, <1>8, <1>9, <1>11, <2>1 DEF LostTo, Beats
<1>12. CASE p < i
  <2>1. ~LiveClaim(Seen(t), Kind, now[r], p)
    BY <1>3, <1>4, <1>9, <1>12 DEF Owns
  <2>2. ReleasedAfter(Seen(t), Kind, p)
    BY <1>3, <1>9, <2>1 DEF LiveClaim, ClaimsOf, MarkerOf
  <2>3. PICK m \in DOMAIN s : p < m /\ MarkerOf(s, Kind, m) /\ s[m].op = "release"
    BY <1>3, <2>2 DEF ReleasedAfter, MarkerOf
  <2>4. ~(i < m) /\ i # m
    BY <1>5, <2>3 DEF ReleasedAfter, ClaimsOf
  <2>5. m < i
    BY <1>2, <1>4, <2>3, <2>4
  <2>6. ReleaseBetween(s, p, i)
    BY <2>3, <2>5 DEF ReleaseBetween
  <2> QED
    BY <1>5, <1>8, <1>9, <2>6 DEF LostTo, Beats
<1>13. i \in Nat /\ p \in Nat
  BY <1>2, <1>4, <1>9
<1> QED
  BY <1>10, <1>11, <1>12, <1>13

\* Only a lost race leads from a read-back to the next target.
LEMMA LosesByReadBack ==
  ASSUME TypeOK, [Next]_vars, NEW r \in Run, LosesNow(r)
  PROVE  ReadBackLoses(r)
<1> USE DEF TypeOK, LosesNow
<1>1. ASSUME NEW q \in Run, NEW phase, phase # "scan", Goes(q, phase) PROVE FALSE
  BY <1>1 DEF Goes, RunsTypeOK
<1>2. ASSUME NEW q \in Run, NEW phase \in Posting \cup Ended \cup {"readback"},
             Proceeds(q, phase) \/ Ends(q, phase)
      PROVE  FALSE
  BY <1>1, <1>2 DEF Proceeds, Ends, Posting, Ended
<1>3. ASSUME NEW q \in Run, Begin(q) \/ Restart(q) PROVE FALSE
  BY <1>1, <1>3 DEF Begin, Restart, Starts
<1>4. ASSUME NEW q \in Run, NEW t \in Target,
             Skip(q, t) \/ StandDown(q, t) \/ AlreadyHeld(q, t) \/ Stake(q, t)
      PROVE  FALSE
  BY <1>1, <1>4 DEF Skip, StandDown, AlreadyHeld, Stake
<1>5. ASSUME NEW q \in Run, Lists(q) PROVE FALSE
  BY <1>5 DEF Lists, Goes, RunsTypeOK
<1>6. ASSUME NEW q \in Run, ReadBackWins(q) PROVE FALSE
  BY <1>1, <1>6 DEF ReadBackWins
<1>7. ASSUME NEW q \in Run, ReadBackLoses(q) PROVE q = r
  BY <1>7 DEF ReadBackLoses, Goes, RunsTypeOK
<1>8. ASSUME NEW q \in Run, Post(q) \/ TimesOut(q) \/ Refused(q) PROVE FALSE
  <2>1. pc[q] \in Posting
    BY <1>8 DEF Post, TimesOut, Refused
  <2> QED
    BY <1>2, <1>8, <2>1, NextPhases DEF Post, TimesOut, Refused
<1>9. ASSUME NEW q \in Run, NoWork(q) \/ ReadFails(q) \/ Crash(q) PROVE FALSE
  BY <1>2, <1>9 DEF NoWork, ReadFails, Crash, Ended
<1>10. ASSUME NEW q \in Run,
              CommentsAndReleases(q) \/ Releases(q) \/ Keeps(q) \/ WorkFails(q)
       PROVE  FALSE
  BY <1>2, <1>10 DEF CommentsAndReleases, Releases, Keeps, WorkFails, Posting, Ended
<1>11. CASE (\E m \in wire : Deliver(m)) \/ (\E t \in Target : PersonComments(t)) \/ Tick
            \/ UNCHANGED vars
  BY <1>11 DEF Deliver, PersonComments, Tick, vars
<1> QED
  BY <1>3, <1>4, <1>5, <1>6, <1>7, <1>8, <1>9, <1>10, <1>11 DEF Next, RunStep, Failure

\* A thread that still fits on the page fitted before.
LEMMA ThreadFitted ==
  ASSUME ConstantsAssumption, TypeOK, [Next]_vars, NEW t \in Target, Len(thread'[t]) <= Page
  PROVE  Len(thread[t]) <= Page
<1>1. thread[t] \in Seq(Comment) /\ Len(thread[t]) \in Nat /\ Page \in Nat
  BY LenProperties DEF TypeOK, GitHubTypeOK, ConstantsAssumption
<1>2. ASSUME NEW c \in Comment, thread'[t] = Append(thread[t], c)
      PROVE  Len(thread[t]) <= Page
  <2>1. Len(Append(thread[t], c)) = Len(thread[t]) + 1
    BY <1>1, AppendProperties
  <2> QED
    BY <1>1, <1>2, <2>1
<1> QED
  BY <1>2, ThreadsGrow

\* Every loss stays explained, and every new one is.
LEMMA LossesExplainedStep ==
  ASSUME ConstantsAssumption, DistinctIds, TTL > 0, TypeOK, PostedClaims, OwnClaims,
         LossesExplained, [RaceNext]_raceVars
  PROVE  LossesExplained'
<1> SUFFICES ASSUME NEW r \in Run, NEW t \in Target, restarts'[r] = 0,
                    Len(thread'[t]) <= Page, NEW id, <<t, id>> \in lost'[r]
             PROVE  LostTo(thread'[t], RunId[r], id)
  BY DEF LossesExplained
<1>1. [Next]_vars
  BY DEF RaceNext, raceVars
<1>2. restarts[r] = 0
  BY <1>1, StepLivesOn DEF LivesOn
<1>3. Len(thread[t]) <= Page /\ thread[t] \in Seq(Comment)
  BY <1>1, ThreadFitted DEF TypeOK, GitHubTypeOK
<1>4. CASE <<t, id>> \in lost[r]
  <2>1. LostTo(thread[t], RunId[r], id)
    BY <1>2, <1>3, <1>4 DEF LossesExplained
  <2>2. CASE thread'[t] = thread[t]
    BY <2>1, <2>2
  <2>3. ASSUME NEW c \in Comment, thread'[t] = Append(thread[t], c)
        PROVE  LostTo(thread'[t], RunId[r], id)
    BY <1>3, <2>1, <2>3, LostToStable
  <2> QED
    BY <1>1, <2>2, <2>3, ThreadsGrow
<1>5. CASE <<t, id>> \notin lost[r]
  <2>1. LosesNow(r) /\ t = target[r] /\ id = Rival(r)
    BY <1>5 DEF RaceNext, raceVars
  <2>2. ReadBackLoses(r)
    BY <1>1, <2>1, LosesByReadBack
  <2>3. thread' = thread
    BY <2>2 DEF ReadBackLoses
  <2> QED
    BY <1>2, <1>3, <2>1, <2>2, <2>3, LossExplained
<1> QED
  BY <1>4, <1>5

\* Runs that have all lost to each other contradict what they were told.
LEMMA ContenderLeft ==
  ASSUME ConstantsAssumption, TypeOK, LossesExplained
  PROVE  RaceHasWinner
<1> SUFFICES ASSUME NEW t \in Target, Len(thread[t]) <= Page, NEW racers \in (SUBSET Run) \ {{}},
                    \A r \in racers : restarts[r] = 0 /\ InOneTurn(r, t),
                    \A r \in racers : \E s \in racers : <<t, RunId[s]>> \in lost[r]
             PROVE  FALSE
  BY DEF RaceHasWinner
<1> DEFINE ids == {RunId[r] : r \in racers}
<1>1. DOMAIN thread[t] = 1..Len(thread[t]) /\ Len(thread[t]) \in Nat
  BY LenProperties DEF TypeOK, GitHubTypeOK
<1>2. ids # {}
  <2>1. racers # {}
    OBVIOUS
  <2> QED
    BY <2>1
<1>3. ASSUME NEW id \in ids
      PROVE  \A i, k \in ClaimsOf(thread[t], id) : ~ReleaseBetween(thread[t], i, k)
  BY DEF InOneTurn
<1>4. ASSUME NEW id \in ids PROVE \E rival \in ids : LostTo(thread[t], id, rival)
  <2>1. PICK r \in racers : id = RunId[r]
    OBVIOUS
  <2>2. PICK s \in racers : <<t, RunId[s]>> \in lost[r]
    OBVIOUS
  <2>3. LostTo(thread[t], RunId[r], RunId[s])
    BY <2>2 DEF LossesExplained
  <2> QED
    BY <2>1, <2>3
<1> HIDE DEF ids
<1> QED
  BY <1>1, <1>2, <1>3, <1>4, NoCircle

\* Every race leaves a contender, for any number of racers, of targets, of retries and
\* duplicates, whatever fails or crashes, when no two runs have the same id and claims are
\* not born expired.
THEOREM RacesHaveWinners == ASSUME DistinctIds, TTL > 0 PROVE RaceSpec => []RaceHasWinner
<1> DEFINE RaceInv == TypeOK /\ PostedClaims /\ OwnClaims /\ LossesExplained
<1> USE ConstantsAssumption
<1>1. RaceInit => RaceInv
  <2> SUFFICES ASSUME RaceInit PROVE RaceInv
    OBVIOUS
  <2>1. TypeOK /\ PostedClaims
    BY TypeInit DEF RaceInit, Init, PostedClaims
  <2>2. \A c : ~Published(c)
    BY DEF RaceInit, Init, Published
  <2>3. OwnClaims
    BY <2>2 DEF OwnClaims
  <2>4. LossesExplained
    BY DEF RaceInit, LossesExplained
  <2> QED
    BY <2>1, <2>3, <2>4
<1>2. RaceInv /\ [RaceNext]_raceVars => RaceInv'
  <2> SUFFICES ASSUME RaceInv, [RaceNext]_raceVars PROVE RaceInv'
    OBVIOUS
  <2>1. [Next]_vars
    BY DEF RaceNext, raceVars
  <2>2. TypeOK' /\ PostedClaims' /\ OwnClaims'
    BY <2>1, TypeStep, PostedClaimsStep, OwnClaimsStep
  <2>3. LossesExplained'
    BY LossesExplainedStep
  <2> QED
    BY <2>2, <2>3
<1>3. RaceInv => RaceHasWinner
  BY ContenderLeft
<1> QED
  BY <1>1, <1>2, <1>3, PTL DEF RaceSpec
=============================================================================
