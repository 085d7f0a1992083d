-------------------------- MODULE LifecycleProofs ---------------------------
(***************************************************************************)
(* Theorems about Lifecycle, for any finite set of issues with any         *)
(* dependencies among them, cyclic ones included, and any number of rounds *)
(* in flight: types, and the safety half of what Backlog promises.  That   *)
(* every issue is done in the end is left to TLC.                          *)
(***************************************************************************)
EXTENDS Lifecycle, SequenceTheorems, FiniteSetTheorems, WellFoundedInduction, TLAPS

-----------------------------------------------------------------------------
(* Lists *)

\* A set of numbers has a least one, which Min names.
LEMMA MinIs ==
  ASSUME NEW T \in SUBSET Nat, T # {}
  PROVE  Min(T) \in T
<1> DEFINE R == OpToRel(<, Nat)
<1>1. IsWellFoundedOn(R, Nat)
  BY NatLessThanWellFounded
<1>2. R = {ss \in Nat \X Nat : ss[1] < ss[2]}
  BY DEF OpToRel
<1> HIDE DEF R
<1>3. PICK k \in T : \A m \in T : <<m, k>> \notin R
  BY <1>1, WFMin
<1>4. ASSUME NEW m \in T PROVE k <= m
  <2>1. ~(m < k)
    BY <1>2, <1>3
  <2> QED
    BY <2>1
<1> QED
  BY <1>4 DEF Min

\* The open issues, or PRs, each of them once.
IsListing(list) == list \in Seq(Issue) /\ IsInjective(list)

\* A piece of a list.
LEMMA PieceIs ==
  ASSUME NEW s \in Seq(Issue), NEW a \in Nat, NEW b \in Nat,
         1 <= a, a <= b + 1, b <= Len(s)
  PROVE  /\ SubSeq(s, a, b) \in Seq(Issue)
         /\ Len(SubSeq(s, a, b)) = b + 1 - a
         /\ \A j \in 1..(b + 1 - a) : SubSeq(s, a, b)[j] = s[a + j - 1]
<1>1. Len(s) \in Nat /\ \A j \in 1..Len(s) : s[j] \in Issue
  BY LenProperties, ElementOfSeq
<1>2. \A j \in a..b : s[j] \in Issue
  BY <1>1
<1> DEFINE piece == SubSeq(s, a, b)
<1>3. /\ piece \in Seq(Issue)
      /\ Len(piece) = IF a <= b THEN b - a + 1 ELSE 0
      /\ \A j \in 1..(b - a + 1) : piece[j] = s[a + j - 1]
  BY <1>2, SubSeqProperties
<1> HIDE DEF piece
<1>4. b - a + 1 = b + 1 - a /\ (~(a <= b) => b + 1 - a = 0)
  OBVIOUS
<1>5. Len(piece) = b + 1 - a
  BY <1>3, <1>4
<1> QED
  BY <1>3, <1>4, <1>5 DEF piece

\* A list without one of its entries.
LEMMA RemoveFirstIs ==
  ASSUME NEW s, IsListing(s), NEW i
  PROVE  /\ IsListing(RemoveFirst(s, i))
         /\ ToSet(RemoveFirst(s, i)) = ToSet(s) \ {i}
<1>1. /\ s \in Seq(Issue) /\ Len(s) \in Nat /\ DOMAIN s = 1..Len(s)
      /\ \A j \in 1..Len(s) : s[j] \in Issue
      /\ \A j, k \in 1..Len(s) : s[j] = s[k] => j = k
      /\ ToSet(s) = {s[j] : j \in 1..Len(s)}
  BY LenProperties, ElementOfSeq DEF IsListing, IsInjective, ToSet
<1>2. CASE ~\E j \in 1..Len(s) : s[j] = i
  <2>1. RemoveFirst(s, i) = s
    BY <1>2 DEF RemoveFirst
  <2>2. i \notin ToSet(s)
    BY <1>1, <1>2
  <2> QED
    BY <2>1, <2>2
<1>3. CASE \E j \in 1..Len(s) : s[j] = i
  <2> DEFINE I == {j \in 1..Len(s) : s[j] = i}
             k == Min(I)
             r == RemoveFirst(s, i)
  <2>1. k \in I
    <3>1. I \in SUBSET Nat /\ I # {}
      BY <1>1, <1>3
    <3> HIDE DEF I
    <3> QED
      BY <3>1, MinIs
  <2>2. r = RemoveAt(s, k)
    BY <1>3 DEF RemoveFirst, SelectInSeq
  <2> HIDE DEF r, k
  <2>3. /\ k \in 1..Len(s) /\ s[k] = i /\ Len(s) \in Nat
        /\ k \in Nat /\ 1 <= k /\ k <= Len(s)
    BY <1>1, <2>1
  <2> DEFINE front == SubSeq(s, 1, k - 1)
             back == SubSeq(s, k + 1, Len(s))
  <2>4. /\ front \in Seq(Issue) /\ Len(front) = k - 1
        /\ \A j \in 1..(k - 1) : front[j] = s[j]
    <3>1. k - 1 \in Nat /\ k - 1 + 1 - 1 = k - 1 /\ 1 <= k - 1 + 1 /\ k - 1 <= Len(s)
      BY <2>3
    <3>2. /\ front \in Seq(Issue) /\ Len(front) = k - 1
          /\ \A j \in 1..(k - 1) : front[j] = s[1 + j - 1]
      BY <1>1, <3>1, PieceIs
    <3>3. \A j \in 1..(k - 1) : 1 + j - 1 = j
      OBVIOUS
    <3> QED
      BY <3>2, <3>3
  <2>5. /\ back \in Seq(Issue) /\ Len(back) = Len(s) - k
        /\ \A j \in 1..(Len(s) - k) : back[j] = s[k + j]
    <3>1. /\ k + 1 \in Nat /\ 1 <= k + 1 /\ k + 1 <= Len(s) + 1
          /\ Len(s) + 1 - (k + 1) = Len(s) - k
      BY <2>3
    <3>2. /\ back \in Seq(Issue) /\ Len(back) = Len(s) - k
          /\ \A j \in 1..(Len(s) - k) : back[j] = s[(k + 1) + j - 1]
      BY <1>1, <3>1, PieceIs
    <3>3. \A j \in 1..(Len(s) - k) : (k + 1) + j - 1 = k + j
      BY <1>1, <2>3
    <3> QED
      BY <3>2, <3>3
  <2>6. r = front \o back
    BY <2>2 DEF RemoveAt
  <2> HIDE DEF front, back
  <2>7. /\ r \in Seq(Issue) /\ Len(r) = Len(s) - 1 /\ DOMAIN r = 1..(Len(s) - 1)
        /\ \A j \in 1..(Len(s) - 1) : r[j] = IF j < k THEN s[j] ELSE s[j + 1]
    <3>1. /\ r \in Seq(Issue) /\ Len(r) = (k - 1) + (Len(s) - k)
          /\ \A j \in 1..((k - 1) + (Len(s) - k)) :
                r[j] = IF j <= k - 1 THEN front[j] ELSE back[j - (k - 1)]
      <4>1. /\ r \in Seq(Issue) /\ Len(r) = Len(front) + Len(back)
            /\ \A j \in 1..(Len(front) + Len(back)) :
                  r[j] = IF j <= Len(front) THEN front[j] ELSE back[j - Len(front)]
        BY <2>4, <2>5, <2>6, ConcatProperties
      <4> QED
        BY <2>4, <2>5, <4>1
    <3>2. Len(r) = Len(s) - 1 /\ DOMAIN r = 1..(Len(s) - 1)
      BY <1>1, <2>3, <3>1, LenProperties
    <3>3. ASSUME NEW j \in 1..(Len(s) - 1)
          PROVE  r[j] = IF j < k THEN s[j] ELSE s[j + 1]
      <4>1. j \in Nat /\ k \in Nat /\ r[j] = IF j <= k - 1 THEN front[j] ELSE back[j - (k - 1)]
        BY <1>1, <2>3, <3>1, <3>3
      <4>2. CASE j < k
        BY <2>4, <3>3, <4>1, <4>2
      <4>3. CASE ~(j < k)
        <5> DEFINE q == j - (k - 1)
        <5>1. q \in 1..(Len(s) - k) /\ k + q = j + 1 /\ ~(j <= k - 1)
          BY <1>1, <2>3, <3>3, <4>1, <4>3
        <5>2. r[j] = back[q]
          BY <4>1, <5>1
        <5> HIDE DEF q
        <5>3. back[q] = s[k + q]
          BY <2>5, <5>1
        <5> QED
          BY <4>3, <5>1, <5>2, <5>3
      <4> QED
        BY <4>2, <4>3
    <3> QED
      BY <3>1, <3>2, <3>3
  <2>8. IsInjective(r)
    <3>1. ASSUME NEW a \in 1..(Len(s) - 1), NEW b \in 1..(Len(s) - 1), r[a] = r[b] PROVE a = b
      <4>1. /\ r[a] = IF a < k THEN s[a] ELSE s[a + 1]
            /\ r[b] = IF b < k THEN s[b] ELSE s[b + 1]
        BY <2>7
      <4>2. /\ a \in 1..Len(s) /\ a + 1 \in 1..Len(s) /\ b \in 1..Len(s) /\ b + 1 \in 1..Len(s)
            /\ k \in Nat
        BY <1>1, <2>3
      <4>3. CASE a < k /\ b < k
        BY <1>1, <3>1, <4>1, <4>2, <4>3
      <4>4. CASE ~(a < k) /\ ~(b < k)
        <5>1. a + 1 = b + 1
          BY <1>1, <3>1, <4>1, <4>2, <4>4
        <5> QED
          BY <4>2, <5>1
      <4>5. CASE a < k /\ ~(b < k)
        <5>1. a = b + 1
          BY <1>1, <3>1, <4>1, <4>2, <4>5
        <5> QED
          BY <4>2, <4>5, <5>1
      <4>6. CASE ~(a < k) /\ b < k
        <5>1. a + 1 = b
          BY <1>1, <3>1, <4>1, <4>2, <4>6
        <5> QED
          BY <4>2, <4>6, <5>1
      <4> QED
        BY <4>3, <4>4, <4>5, <4>6
    <3> QED
      BY <2>7, <3>1 DEF IsInjective
  <2>9. ToSet(r) = ToSet(s) \ {i}
    <3>1. ToSet(r) = {r[j] : j \in 1..(Len(s) - 1)}
      BY <2>7 DEF ToSet
    <3>2. ASSUME NEW j \in 1..(Len(s) - 1) PROVE r[j] \in ToSet(s) \ {i}
      <4> DEFINE p == IF j < k THEN j ELSE j + 1
      <4>1. r[j] = s[p] /\ p \in 1..Len(s) /\ p # k
        BY <1>1, <2>3, <2>7
      <4> HIDE DEF p
      <4> QED
        BY <1>1, <2>3, <4>1
    <3>3. ASSUME NEW x \in ToSet(s) \ {i} PROVE \E j \in 1..(Len(s) - 1) : r[j] = x
      <4>1. PICK p \in 1..Len(s) : s[p] = x
        BY <1>1
      <4>2. p # k /\ p \in Nat /\ k \in Nat
        BY <2>3, <4>1, <1>1
      <4> DEFINE j == IF p < k THEN p ELSE p - 1
      <4>3. j \in 1..(Len(s) - 1) /\ r[j] = s[p]
        <5>1. CASE p < k
          BY <1>1, <2>3, <2>7, <4>2, <5>1
        <5>2. CASE ~(p < k)
          <6>1. j = p - 1 /\ j \in 1..(Len(s) - 1) /\ ~(j < k) /\ j + 1 = p
            BY <1>1, <2>3, <4>2, <5>2
          <6> QED
            BY <2>7, <6>1
        <5> QED
          BY <5>1, <5>2
      <4> QED
        BY <4>1, <4>3
    <3> QED
      BY <3>1, <3>2, <3>3
  <2> QED
    BY <2>7, <2>8, <2>9 DEF IsListing, r
<1> QED
  BY <1>2, <1>3

\* A list with a new first entry.
LEMMA ConsIs ==
  ASSUME NEW s, IsListing(s), NEW i \in Issue \ ToSet(s)
  PROVE  IsListing(Cons(i, s)) /\ ToSet(Cons(i, s)) = ToSet(s) \cup {i}
<1> DEFINE c == Cons(i, s)
           n == Len(s)
<1>1. /\ s \in Seq(Issue) /\ n \in Nat /\ DOMAIN s = 1..n
      /\ \A j \in 1..n : s[j] \in ToSet(s)
      /\ \A j, k \in 1..n : s[j] = s[k] => j = k
      /\ ToSet(s) = {s[j] : j \in 1..n}
  BY LenProperties DEF IsListing, IsInjective, ToSet
<1>2. <<i>> \in Seq(Issue) /\ Len(<<i>>) = 1 /\ <<i>>[1] = i
  OBVIOUS
<1>3. /\ c \in Seq(Issue) /\ Len(c) = 1 + n
      /\ \A j \in 1..(1 + n) : c[j] = IF j <= 1 THEN <<i>>[j] ELSE s[j - 1]
  BY <1>1, <1>2, ConcatProperties DEF Cons
<1> HIDE DEF c, n
<1>4. /\ DOMAIN c = 1..(n + 1) /\ c[1] = i
      /\ \A j \in 1..n : c[j + 1] = s[j]
  <2>1. DOMAIN c = 1..(n + 1)
    BY <1>1, <1>3, LenProperties
  <2>2. c[1] = i
    BY <1>1, <1>2, <1>3
  <2>3. ASSUME NEW j \in 1..n PROVE c[j + 1] = s[j]
    <3>1. j + 1 \in 1..(1 + n) /\ ~(j + 1 <= 1) /\ (j + 1) - 1 = j
      BY <1>1
    <3> QED
      BY <1>3, <3>1
  <2> QED
    BY <2>1, <2>2, <2>3
<1>5. ASSUME NEW j \in 1..(n + 1), j # 1
      PROVE  \E k \in 1..n : j = k + 1 /\ c[j] = s[k]
  <2>1. j - 1 \in 1..n /\ j = (j - 1) + 1
    BY <1>1, <1>5
  <2> QED
    BY <1>4, <2>1
<1>6. ToSet(c) = ToSet(s) \cup {i}
  <2>1. ToSet(c) = {c[j] : j \in 1..(n + 1)}
    BY <1>4 DEF ToSet
  <2>2. ASSUME NEW j \in 1..(n + 1) PROVE c[j] \in ToSet(s) \cup {i}
    BY <1>1, <1>4, <1>5
  <2>3. ASSUME NEW x \in ToSet(s) PROVE x \in ToSet(c)
    <3>1. PICK j \in 1..n : x = s[j]
      BY <1>1
    <3>2. j + 1 \in 1..(n + 1) /\ c[j + 1] = x
      BY <1>1, <1>4, <3>1
    <3> QED
      BY <2>1, <3>2
  <2>4. i \in ToSet(c)
    <3>1. 1 \in 1..(n + 1)
      BY <1>1
    <3> QED
      BY <1>4, <2>1, <3>1
  <2> QED
    BY <2>1, <2>2, <2>3, <2>4
<1>7. IsInjective(c)
  <2>1. ASSUME NEW a \in 1..(n + 1), NEW b \in 1..(n + 1), c[a] = c[b] PROVE a = b
    <3>1. i \notin ToSet(s)
      OBVIOUS
    <3>2. ASSUME NEW j \in 1..(n + 1), c[j] = i PROVE j = 1
      BY <1>1, <1>5, <3>1, <3>2
    <3>3. CASE c[a] = i
      BY <2>1, <3>2, <3>3
    <3>4. CASE c[a] # i
      <4>1. a # 1 /\ b # 1
        BY <1>4, <2>1, <3>4
      <4>2. PICK j \in 1..n : a = j + 1 /\ c[a] = s[j]
        BY <1>5, <4>1
      <4>3. PICK k \in 1..n : b = k + 1 /\ c[b] = s[k]
        BY <1>5, <4>1
      <4>4. j = k
        BY <1>1, <2>1, <4>2, <4>3
      <4> QED
        BY <4>2, <4>3, <4>4
    <3> QED
      BY <3>3, <3>4
  <2> QED
    BY <1>4, <2>1 DEF IsInjective
<1> QED
  BY <1>3, <1>6, <1>7 DEF IsListing, c

\* An update moves an entry to the front.
LEMMA TouchIs ==
  ASSUME NEW s, IsListing(s), NEW i
  PROVE  IsListing(Touch(s, i)) /\ ToSet(Touch(s, i)) = ToSet(s)
<1>1. DOMAIN s = 1..Len(s) /\ ToSet(s) \subseteq Issue
  BY LenProperties, ElementOfSeq DEF IsListing, ToSet
<1>2. Contains(s, i) <=> i \in ToSet(s)
  BY <1>1 DEF Contains, ToSet
<1>3. CASE ~Contains(s, i)
  BY <1>3 DEF Touch
<1>4. CASE Contains(s, i)
  <2>1. Touch(s, i) = Cons(i, RemoveFirst(s, i)) /\ i \in ToSet(s)
    BY <1>2, <1>4 DEF Touch
  <2>2. IsListing(RemoveFirst(s, i)) /\ ToSet(RemoveFirst(s, i)) = ToSet(s) \ {i}
    BY RemoveFirstIs
  <2>3. i \in Issue \ ToSet(RemoveFirst(s, i))
    BY <1>1, <2>1, <2>2
  <2>4. /\ IsListing(Cons(i, RemoveFirst(s, i)))
        /\ ToSet(Cons(i, RemoveFirst(s, i))) = ToSet(RemoveFirst(s, i)) \cup {i}
    BY <2>2, <2>3, ConsIs
  <2> QED
    BY <2>1, <2>2, <2>4
<1> QED
  BY <1>3, <1>4

\* What the lists contain.
LEMMA ContainsIs ==
  ASSUME NEW s, IsListing(s), NEW i
  PROVE  /\ ToSet(s) \subseteq Issue
         /\ Contains(s, i) <=> i \in ToSet(s)
<1>1. DOMAIN s = 1..Len(s) /\ ToSet(s) \subseteq Issue
  BY LenProperties, ElementOfSeq DEF IsListing, ToSet
<1> QED
  BY <1>1 DEF Contains, ToSet

\* The empty list.
LEMMA EmptyListing == IsListing(<<>>) /\ ToSet(<<>>) = {}
  BY DEF IsListing, IsInjective, ToSet

\* Every order in which the issues may have been filed is a list of all of them.
LEMMA FiledInSomeOrder ==
  ASSUME LifecycleAssumption, NEW s \in SetToSeqs(Issue)
  PROVE  IsListing(s) /\ ToSet(s) = Issue
<1> DEFINE n == Cardinality(Issue)
<1>1. IsFiniteSet(Issue) /\ n \in Nat
  BY FS_CardinalityType DEF LifecycleAssumption
<1>2. s \in [1..n -> Issue] /\ \A j, k \in 1..n : j # k => s[j] # s[k]
  BY DEF SetToSeqs
<1>3. s \in Injection(1..n, Issue) /\ IsInjective(s)
  BY <1>2 DEF Injection, IsInjective
<1>4. IsFiniteSet(1..n) /\ Cardinality(1..n) = n
  BY <1>1, FS_Interval
<1>5. s \in Surjection(1..n, Issue)
  BY <1>1, <1>3, <1>4, FS_Injection
<1>6. s \in Seq(Issue)
  BY <1>1, <1>2
<1>7. ToSet(s) = Issue
  BY <1>2, <1>5 DEF Surjection, ToSet
<1> QED
  BY <1>3, <1>6, <1>7 DEF IsListing

-----------------------------------------------------------------------------
(* Types *)

\* A round takes an open issue that nothing open keeps waiting, or an open PR.
LEMMA NextIs ==
  ASSUME TypeOK, LifecycleAssumption
  PROVE  /\ NextIssue # None => NextIssue \in ToSet(issues) /\ Buildable(NextIssue)
         /\ NextPR # None => NextPR \in ToSet(prs) /\ Reviewable(NextPR)
<1> DEFINE I == {k \in 1..Len(issues) : Buildable(issues[k])}
           P == {k \in 1..Len(prs) : Reviewable(prs[k])}
<1>1. /\ DOMAIN issues = 1..Len(issues) /\ Len(issues) \in Nat
      /\ DOMAIN prs = 1..Len(prs) /\ Len(prs) \in Nat
  BY LenProperties DEF TypeOK
<1>2. ASSUME NextIssue # None PROVE NextIssue \in ToSet(issues) /\ Buildable(NextIssue)
  <2>1. I # {} /\ NextIssue = issues[Min(I)]
    BY <1>2 DEF NextIssue, SelectInSeq
  <2>2. I \in SUBSET Nat
    BY <1>1
  <2>3. Min(I) \in I
    <3> HIDE DEF I
    <3> QED
      BY <2>1, <2>2, MinIs
  <2> DEFINE k == Min(I)
  <2> HIDE DEF k
  <2>4. k \in 1..Len(issues) /\ Buildable(issues[k]) /\ NextIssue = issues[k]
    BY <2>1, <2>3 DEF k
  <2> QED
    BY <1>1, <2>4 DEF ToSet
<1>3. ASSUME NextPR # None PROVE NextPR \in ToSet(prs) /\ Reviewable(NextPR)
  <2>1. P # {} /\ NextPR = prs[Min(P)]
    BY <1>3 DEF NextPR, SelectInSeq
  <2>2. P \in SUBSET Nat
    BY <1>1
  <2>3. Min(P) \in P
    <3> HIDE DEF P
    <3> QED
      BY <2>1, <2>2, MinIs
  <2> DEFINE k == Min(P)
  <2> HIDE DEF k
  <2>4. k \in 1..Len(prs) /\ Reviewable(prs[k]) /\ NextPR = prs[k]
    BY <2>1, <2>3 DEF k
  <2> QED
    BY <1>1, <2>4 DEF ToSet
<1> QED
  BY <1>2, <1>3

\* The names of targets that can be claimed.
TargetNames == {"issue", "pr"} \X Issue

\* What holds at the start.
LEMMA TypeInit ==
  ASSUME LifecycleAssumption, Init
  PROVE  TypeOK /\ ToSet(issues) = Issue /\ ToSet(prs) = {}
<1>1. IsListing(issues) /\ ToSet(issues) = Issue
  BY FiledInSomeOrder DEF Init
<1>2. IsListing(prs) /\ ToSet(prs) = {}
  BY EmptyListing DEF Init
<1>3. setbacks \in 0..MaxSetbacks
  BY DEF Init, LifecycleAssumption
<1> QED
  BY <1>1, <1>2, <1>3 DEF TypeOK, IsListing, Init

\* What a step does to the lists and the slots.  An update moves an entry to the front; people
\* take an entry out.
Kept(list, after) == IsListing(after) /\ ToSet(after) = ToSet(list)
Lost(list, after, i) == IsListing(after) /\ ToSet(after) = ToSet(list) \ {i}

\* A round takes a target: a builder one that waits for nothing open.
Takes(s) ==
  \E i \in Issue :
    /\ at' = [at EXCEPT ![s] = i]
    /\ s \in BuilderSlot => Blocking(i) = {}
    /\ Kept(issues, issues') /\ Kept(prs, prs')

\* A round ends, with nothing proposed ...
Ends(s) ==
  /\ at' = [at EXCEPT ![s] = None]
  /\ Kept(issues, issues') /\ Kept(prs, prs')

\* ... or with a PR for what it had in hand.
Proposes(b) ==
  /\ at' = [at EXCEPT ![b] = None]
  /\ at[b] \in Issue \ ToSet(prs)
  /\ Kept(issues, issues')
  /\ IsListing(prs') /\ ToSet(prs') = ToSet(prs) \cup {at[b]}

\* People settle a PR, and close its issue or not.
Settles(i) ==
  /\ i \in ToSet(prs) /\ Lost(prs, prs', i)
  /\ Lost(issues, issues', i) \/ Kept(issues, issues')
  /\ at' \in [Slot -> Issue \cup {None}]
  /\ \A b \in BuilderSlot : at'[b] = at[b]

Idles == UNCHANGED at /\ Kept(issues, issues') /\ Kept(prs, prs')

\* What it does to the other variables.
Rest ==
  /\ approved' \subseteq ToSet(prs')
  /\ dibs' \subseteq TargetNames
  /\ setbacks' \in 0..MaxSetbacks

\* Every step is one of these.
LEMMA StepKinds ==
  ASSUME LifecycleAssumption, TypeOK, Next
  PROVE  /\ Rest
         /\ \/ \E s \in Slot : Takes(s) \/ Ends(s)
            \/ \E b \in BuilderSlot : Proposes(b)
            \/ \E i \in Issue : Settles(i)
            \/ Idles
<1>1. /\ IsListing(issues) /\ IsListing(prs)
      /\ ToSet(issues) \subseteq Issue /\ ToSet(prs) \subseteq Issue
      /\ \A i : Contains(prs, i) <=> i \in ToSet(prs)
      /\ Kept(issues, issues) /\ Kept(prs, prs)
      /\ \A i : Kept(issues, Touch(issues, i)) /\ Kept(prs, Touch(prs, i))
  <2>1. IsListing(issues) /\ IsListing(prs)
    BY DEF TypeOK, IsListing
  <2> QED
    BY <2>1, ContainsIs, TouchIs DEF Kept
<1>2. /\ approved \subseteq ToSet(prs) /\ dibs \subseteq TargetNames
      /\ at \in [Slot -> Issue \cup {None}]
      /\ setbacks \in 0..MaxSetbacks /\ MaxSetbacks \in Nat
      /\ None \notin Issue /\ BuilderSlot \cap ReviewerSlot = {}
      /\ BuilderSlot \subseteq Slot /\ ReviewerSlot \subseteq Slot
  BY DEF TypeOK, TargetNames, LifecycleAssumption, Slot
<1>3. \A s, kind, release :
         Leaves(s, kind, release) =>
           at' = [at EXCEPT ![s] = None] /\ dibs' \subseteq TargetNames
  BY <1>2 DEF Leaves
<1>4. Setback => setbacks' \in 0..MaxSetbacks
  BY <1>2 DEF Setback
<1>5. ASSUME NEW b \in BuilderSlot, ClaimIssue(b) PROVE Rest /\ Takes(b)
  <2> DEFINE i == NextIssue
  <2>1. /\ i \in ToSet(issues) /\ Buildable(i)
        /\ at' = [at EXCEPT ![b] = i] /\ dibs' = dibs \cup {<<"issue", i>>}
        /\ issues' = Touch(issues, i) /\ UNCHANGED <<prs, approved, setbacks>>
    BY <1>5, NextIs DEF ClaimIssue
  <2> HIDE DEF i
  <2>2. <<"issue", i>> \in TargetNames /\ i \in Issue /\ Blocking(i) = {}
    BY <1>1, <2>1 DEF TargetNames, Buildable
  <2> QED
    BY <1>1, <1>2, <2>1, <2>2 DEF Rest, Takes
<1>6. ASSUME NEW v \in ReviewerSlot, ClaimPR(v) PROVE Rest /\ Takes(v)
  <2> DEFINE i == NextPR
  <2>1. /\ i \in ToSet(prs)
        /\ at' = [at EXCEPT ![v] = i] /\ dibs' = dibs \cup {<<"pr", i>>}
        /\ prs' = Touch(prs, i) /\ UNCHANGED <<issues, approved, setbacks>>
    BY <1>6, NextIs DEF ClaimPR
  <2> HIDE DEF i
  <2>2. <<"pr", i>> \in TargetNames /\ i \in Issue /\ v \notin BuilderSlot
    BY <1>1, <1>2, <2>1 DEF TargetNames
  <2>3. approved' \subseteq ToSet(prs')
    BY <1>1, <1>2, <2>1 DEF Kept
  <2> QED
    BY <1>1, <1>2, <2>1, <2>2, <2>3 DEF Rest, Takes
<1>7. ASSUME NEW b \in BuilderSlot, OpenPR(b) PROVE Rest /\ (Ends(b) \/ Proposes(b))
  <2>1. CASE Contains(prs, at[b])
    <3>1. /\ Leaves(b, "issue", TRUE) /\ issues' = Touch(issues, at[b])
          /\ UNCHANGED <<prs, approved, setbacks>>
      BY <1>7, <2>1 DEF OpenPR
    <3> QED
      BY <1>1, <1>2, <1>3, <3>1 DEF Rest, Ends
  <2>2. CASE ~Contains(prs, at[b])
    <3>1. /\ Leaves(b, "issue", FALSE) /\ prs' = Cons(at[b], prs) /\ at[b] # None
          /\ UNCHANGED <<issues, approved, setbacks>>
      BY <1>7, <2>2 DEF OpenPR
    <3>2. at[b] \in Issue \ ToSet(prs)
      BY <1>1, <1>2, <2>2, <3>1
    <3>3. IsListing(prs') /\ ToSet(prs') = ToSet(prs) \cup {at[b]}
      BY <1>1, <3>1, <3>2, ConsIs
    <3> QED
      BY <1>1, <1>2, <1>3, <3>1, <3>2, <3>3 DEF Rest, Proposes
  <2> QED
    BY <2>1, <2>2
<1>8. ASSUME NEW b \in BuilderSlot, BuildFails(b) PROVE Rest /\ Ends(b)
  <2>1. /\ Leaves(b, "issue", TRUE) /\ issues' = Touch(issues, at[b]) /\ Setback
        /\ UNCHANGED <<prs, approved>>
    BY <1>8 DEF BuildFails
  <2> QED
    BY <1>1, <1>2, <1>3, <1>4, <2>1 DEF Rest, Ends
<1>9. ASSUME NEW v \in ReviewerSlot, Approve(v) \/ FixOrFail(v) PROVE Rest /\ Ends(v)
  <2>1. /\ Leaves(v, "pr", TRUE) /\ prs' = Touch(prs, at[v])
        /\ approved' \subseteq approved \cup ToSet(prs)
        /\ UNCHANGED setbacks \/ Setback
        /\ UNCHANGED issues
    BY <1>9 DEF Approve, FixOrFail
  <2>2. approved' \subseteq ToSet(prs')
    BY <1>1, <1>2, <2>1 DEF Kept
  <2> QED
    BY <1>1, <1>2, <1>3, <1>4, <2>1, <2>2 DEF Rest, Ends
<1>10. ASSUME NEW s \in Slot, Dies(s) PROVE Rest /\ Ends(s)
  <2>1. Leaves(s, "issue", FALSE) /\ Setback /\ UNCHANGED <<issues, prs, approved>>
    BY <1>10 DEF Dies
  <2> QED
    BY <1>1, <1>2, <1>3, <1>4, <2>1 DEF Rest, Ends
<1>11. ASSUME NEW target, Expire(target)
       PROVE  Rest /\ Idles
  BY <1>1, <1>2, <1>11 DEF Expire, Rest, Idles
<1>12. ASSUME NEW i \in Issue, Merge(i) \/ Reject(i) PROVE Rest /\ Settles(i)
  <2>1. /\ i \in ToSet(prs) /\ Settled(i)
        /\ UNCHANGED setbacks \/ Setback
        /\ issues' = issues \/ issues' = RemoveFirst(issues, i)
    BY <1>1, <1>12 DEF Merge, Reject
  <2>2. Lost(prs, prs', i) /\ (Lost(issues, issues', i) \/ Kept(issues, issues'))
    BY <1>1, <2>1, RemoveFirstIs DEF Settled, Lost, Kept
  <2>3. approved' \subseteq ToSet(prs') /\ dibs' \subseteq TargetNames
    BY <1>2, <2>1, <2>2 DEF Settled, Lost
  <2>4. at' \in [Slot -> Issue \cup {None}] /\ \A b \in BuilderSlot : at'[b] = at[b]
    BY <1>2, <2>1 DEF Settled
  <2> QED
    BY <1>2, <1>4, <2>1, <2>2, <2>3, <2>4 DEF Rest, Settles
<1>13. ASSUME NEW i, Command(i)
       PROVE  Rest /\ Idles
  <2>1. /\ Setback /\ approved' = approved \ {i} /\ prs' = Touch(prs, i)
        /\ UNCHANGED <<issues, dibs, at>>
    BY <1>13 DEF Command
  <2>2. approved' \subseteq ToSet(prs')
    BY <1>1, <1>2, <2>1 DEF Kept
  <2> QED
    BY <1>1, <1>2, <1>4, <2>1, <2>2 DEF Rest, Idles
<1>14. CASE \E b \in BuilderSlot : Build(b)
  BY <1>2, <1>5, <1>7, <1>8, <1>14 DEF Build
<1>15. CASE \E v \in ReviewerSlot : Review(v)
  BY <1>2, <1>6, <1>9, <1>15 DEF Review
<1> QED
  BY <1>10, <1>11, <1>12, <1>13, <1>14, <1>15 DEF Next

\* Every step keeps the types.
LEMMA TypeStep ==
  ASSUME LifecycleAssumption, TypeOK, [Next]_vars
  PROVE  TypeOK'
<1>1. CASE UNCHANGED vars
  BY <1>1 DEF vars, TypeOK, IsInjective, ToSet
<1>2. CASE Next
  <2>1. at \in [Slot -> Issue \cup {None}] /\ BuilderSlot \subseteq Slot
    BY DEF TypeOK, Slot
  <2>2. Rest
    BY <1>2, StepKinds
  <2>3. /\ IsListing(issues') /\ IsListing(prs')
        /\ at' \in [Slot -> Issue \cup {None}]
    BY <1>2, <2>1, StepKinds
       DEF Takes, Ends, Proposes, Settles, Idles, Kept, Lost
  <2>4. IsInjective(issues)' /\ IsInjective(prs)' /\ (approved \subseteq ToSet(prs))'
    BY <2>2, <2>3 DEF IsListing, IsInjective, ToSet, Rest
  <2> QED
    BY <2>2, <2>3, <2>4 DEF TypeOK, IsListing, Rest, TargetNames
<1> QED
  BY <1>1, <1>2

\* Every reachable state is well typed: listings name no issue twice, and only an open PR is
\* approved.
THEOREM TypeCorrect == Spec => []TypeOK
<1> USE LifecycleAssumption
<1>1. Init => TypeOK
  BY TypeInit
<1>2. TypeOK /\ [Next]_vars => TypeOK'
  BY TypeStep
<1> QED
  BY <1>1, <1>2, PTL DEF Spec

-----------------------------------------------------------------------------
(* The backlog *)

\* What a builder round has in hand waits for nothing that is open: it was so when the round
\* claimed it, and nothing is reopened.
Unblocked == \A b \in BuilderSlot : at[b] # None => Blocking(at[b]) = {}

\* Every step keeps it so.
LEMMA UnblockedStep ==
  ASSUME LifecycleAssumption, TypeOK, Unblocked, [Next]_vars
  PROVE  Unblocked'
<1>1. /\ BuilderSlot \subseteq Slot
      /\ at \in [Slot -> Issue \cup {None}]
  BY DEF TypeOK, Slot
<1>2. ASSUME NEW b \in BuilderSlot, at'[b] # None, ToSet(issues') \subseteq ToSet(issues),
             at'[b] = at[b] \/ Blocking(at'[b]) = {}
      PROVE  (Upstream[at'[b]] \ {at'[b]}) \cap ToSet(issues') = {}
  BY <1>2 DEF Unblocked, Blocking
<1>3. ASSUME NEW b \in BuilderSlot, at'[b] # None
      PROVE  /\ ToSet(issues') \subseteq ToSet(issues)
             /\ at'[b] = at[b] \/ Blocking(at'[b]) = {}
  <2>1. CASE UNCHANGED vars
    BY <2>1 DEF vars
  <2>2. CASE \E s \in Slot : Takes(s)
    BY <1>1, <1>3, <2>2 DEF Takes, Kept
  <2>3. CASE (\E s \in Slot : Ends(s)) \/ \E s \in BuilderSlot : Proposes(s)
    BY <1>1, <1>3, <2>3 DEF Ends, Proposes, Kept
  <2>4. CASE \E i \in Issue : Settles(i)
    BY <2>4 DEF Settles, Lost, Kept
  <2>5. CASE Idles
    BY <2>5 DEF Idles, Kept
  <2> QED
    BY <2>1, <2>2, <2>3, <2>4, <2>5, StepKinds
<1> QED
  BY <1>2, <1>3 DEF Unblocked, Blocking, ToSet

\* A step of the loop is a step of the backlog or none.
LEMMA BacklogStep ==
  ASSUME LifecycleAssumption, TypeOK, Unblocked, [Next]_vars
  PROVE  [Promise!Next]_(Promise!vars)
<1>1. /\ ToSet(issues) \subseteq Issue /\ ToSet(prs) \subseteq Issue
      /\ Upstream \in [Issue -> SUBSET Issue]
  BY ContainsIs DEF TypeOK, IsListing, LifecycleAssumption
<1>2. ASSUME ToSet(issues') = ToSet(issues), ToSet(prs') = ToSet(prs)
      PROVE  [Promise!Next]_(Promise!vars)
  BY <1>2 DEF Promise!vars, Done, ToSet
<1>3. ASSUME NEW b \in BuilderSlot, Proposes(b) PROVE Promise!Next
  <2>1. /\ ToSet(issues') = ToSet(issues) /\ at[b] \in Issue \ ToSet(prs)
        /\ ToSet(prs') = ToSet(prs) \cup {at[b]}
    BY <1>3 DEF Proposes, Kept
  <2>2. Blocking(at[b]) = {}
    BY <2>1 DEF Unblocked, LifecycleAssumption
  <2>3. Upstream[at[b]] \ {at[b]} \subseteq Done
    BY <1>1, <2>1, <2>2 DEF Blocking, Done
  <2>4. Promise!Propose(at[b])
    BY <2>1, <2>3 DEF Promise!Propose, Promise!Ready, Done, ToSet
  <2> QED
    BY <2>1, <2>4 DEF Promise!Next
<1>4. ASSUME NEW i \in Issue, Settles(i) PROVE Promise!Next
  <2>1. i \in ToSet(prs) /\ ToSet(prs') = ToSet(prs) \ {i}
    BY <1>4 DEF Settles, Lost
  <2>2. CASE ToSet(issues') = ToSet(issues)
    <3>1. Promise!Withdraw(i)
      BY <2>1, <2>2 DEF Promise!Withdraw, Done, ToSet
    <3> QED
      BY <3>1 DEF Promise!Next
  <2>3. CASE ToSet(issues') = ToSet(issues) \ {i}
    <3>1. Done' = Done \cup {i}
      BY <2>3 DEF Done, ToSet
    <3>2. Promise!Ship(i)
      BY <2>1, <3>1 DEF Promise!Ship, ToSet
    <3> QED
      BY <3>2 DEF Promise!Next
  <2> QED
    BY <1>4, <2>2, <2>3 DEF Settles, Lost, Kept
<1>5. CASE UNCHANGED vars
  BY <1>2, <1>5 DEF vars
<1>6. CASE (\E s \in Slot : Takes(s) \/ Ends(s)) \/ Idles
  BY <1>2, <1>6 DEF Takes, Ends, Idles, Kept
<1> QED
  BY <1>3, <1>4, <1>5, <1>6, StepKinds

\* The safety half of ImplementsBacklog: a change is proposed only when everything that its issue
\* depends on is done, also if the round that proposes it looked long ago and the claim that
\* it held has expired; a proposal ships or is withdrawn; and what is done stays done.
FollowsBacklog == Promise!Init /\ [][Promise!Next]_(Promise!vars)

\* The loop follows the backlog.
THEOREM LoopFollowsBacklog == Spec => FollowsBacklog
<1> USE LifecycleAssumption
<1>1. Init => TypeOK /\ Unblocked /\ Promise!Init
  <2> SUFFICES ASSUME Init PROVE TypeOK /\ Unblocked /\ Promise!Init
    OBVIOUS
  <2>1. TypeOK /\ ToSet(issues) = Issue /\ ToSet(prs) = {}
    BY TypeInit
  <2>2. Unblocked
    BY DEF Unblocked, Init, Slot
  <2> QED
    BY <2>1, <2>2 DEF Promise!Init, Done
<1>2. TypeOK /\ Unblocked /\ [Next]_vars => Unblocked'
  BY UnblockedStep
<1>3. TypeOK /\ Unblocked /\ [Next]_vars => [Promise!Next]_(Promise!vars)
  BY BacklogStep
<1> QED
  BY <1>1, <1>2, <1>3, TypeCorrect, PTL DEF Spec, FollowsBacklog
=============================================================================
