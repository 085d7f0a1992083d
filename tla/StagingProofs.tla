---------------------------- MODULE StagingProofs ---------------------------
(***************************************************************************)
(* Theorems of Staging for any finite number of staged sub-issues with any *)
(* dependencies among them: what the plan of an agent is, and what the     *)
(* depth-first search of topological_order makes of a decomposition.  The  *)
(* search keeps no more than its calls and what it has placed, so the      *)
(* invariant says what these two know of the dependencies looked at.       *)
(***************************************************************************)
EXTENDS Staging, SequenceTheorems, FiniteSetTheorems, WellFoundedInduction, TLAPS

-----------------------------------------------------------------------------
(* Lists of sub-issues *)

\* No key is in the list twice.
Unique(items) == \A i, j \in DOMAIN items : items[i].key = items[j].key => i = j

IsList(items) == items \in Seq(Item) /\ Unique(items)

\* What is at the position of a key.
LEMMA PositionIs ==
  ASSUME NEW items \in Seq(Item), NEW key \in Keys(items)
  PROVE  /\ Position(items, key) \in 1..Len(items)
         /\ items[Position(items, key)] \in Item
         /\ items[Position(items, key)].key = key
<1>1. Len(items) \in Nat /\ DOMAIN items = 1..Len(items)
  BY LenProperties
<1>2. PICK i \in DOMAIN items : items[i].key = key
  BY DEF Keys
<1>3. Position(items, key) \in DOMAIN items /\ items[Position(items, key)].key = key
  BY <1>2 DEF Position
<1> QED
  BY <1>1, <1>3, ElementOfSeq

\* Dependencies are a sequence.
LEMMA DependencyList ==
  ASSUME NEW new \in Item, StagingAssumption
  PROVE  /\ new.key \in Key
         /\ new.depends_on \in Seq(Key \cup {Unknown})
         /\ \E n \in Nat : DOMAIN new.depends_on = 1..n
<1>1. new.key \in Key /\ new.depends_on \in DependsOn
  BY DEF Item
<1>2. PICK n \in 0..MaxDeps : new.depends_on \in [1..n -> Key \cup {Unknown}]
  BY <1>1 DEF DependsOn
<1> QED
  BY <1>1, <1>2, StagingAssumption DEF StagingAssumption

\* A piece of a list.
LEMMA PieceIs ==
  ASSUME NEW T, NEW s \in Seq(T), NEW a \in Nat, NEW b \in Nat,
         1 <= a, a <= b + 1, b <= Len(s)
  PROVE  /\ SubSeq(s, a, b) \in Seq(T)
         /\ Len(SubSeq(s, a, b)) = b + 1 - a
         /\ \A j \in 1..(b + 1 - a) : SubSeq(s, a, b)[j] = s[a + j - 1]
<1>1. Len(s) \in Nat /\ \A j \in 1..Len(s) : s[j] \in T
  BY LenProperties, ElementOfSeq
<1>2. \A j \in a..b : s[j] \in T
  BY <1>1
<1> DEFINE piece == SubSeq(s, a, b)
<1>3. /\ piece \in Seq(T)
      /\ Len(piece) = IF a <= b THEN b - a + 1 ELSE 0
      /\ \A j \in 1..(b - a + 1) : piece[j] = s[a + j - 1]
  BY <1>2, SubSeqProperties
<1> HIDE DEF piece
<1>4. b - a + 1 = b + 1 - a /\ (~(a <= b) => b + 1 - a = 0)
  OBVIOUS
<1>5. Len(piece) = b + 1 - a
  BY <1>3, <1>4
<1> QED
  BY <1>3, <1>4, <1>5 DEF piece

\* A list without one of its entries: the entries before it and those after it.
LEMMA RemovedAt ==
  ASSUME NEW s \in Seq(Item), NEW k \in 1..Len(s)
  PROVE  LET r == RemoveAt(s, k)
         IN  /\ r \in Seq(Item) /\ Len(r) = Len(s) - 1 /\ DOMAIN r = 1..(Len(s) - 1)
             /\ \A j \in 1..(Len(s) - 1) : r[j] = IF j < k THEN s[j] ELSE s[j + 1]
<1> DEFINE r == RemoveAt(s, k)
           front == SubSeq(s, 1, k - 1)
           back == SubSeq(s, k + 1, Len(s))
<1>1. Len(s) \in Nat /\ k \in Nat /\ 1 <= k /\ k <= Len(s)
  BY LenProperties
<1>2. /\ front \in Seq(Item) /\ Len(front) = k - 1
      /\ \A j \in 1..(k - 1) : front[j] = s[j]
  <2>1. k - 1 \in Nat /\ k - 1 + 1 - 1 = k - 1 /\ 1 <= k - 1 + 1 /\ k - 1 <= Len(s)
    BY <1>1
  <2>2. /\ front \in Seq(Item) /\ Len(front) = k - 1
        /\ \A j \in 1..(k - 1) : front[j] = s[1 + j - 1]
    BY <1>1, <2>1, PieceIs
  <2>3. \A j \in 1..(k - 1) : 1 + j - 1 = j
    OBVIOUS
  <2> QED
    BY <2>2, <2>3
<1>3. /\ back \in Seq(Item) /\ Len(back) = Len(s) - k
      /\ \A j \in 1..(Len(s) - k) : back[j] = s[k + j]
  <2>1. /\ k + 1 \in Nat /\ 1 <= k + 1 /\ k + 1 <= Len(s) + 1
        /\ Len(s) + 1 - (k + 1) = Len(s) - k
    BY <1>1
  <2>2. /\ back \in Seq(Item) /\ Len(back) = Len(s) - k
        /\ \A j \in 1..(Len(s) - k) : back[j] = s[(k + 1) + j - 1]
    BY <1>1, <2>1, PieceIs
  <2>3. \A j \in 1..(Len(s) - k) : (k + 1) + j - 1 = k + j
    BY <1>1
  <2> QED
    BY <2>2, <2>3
<1>4. r = front \o back
  BY DEF RemoveAt
<1> HIDE DEF r, front, back
<1>5. /\ r \in Seq(Item) /\ Len(r) = Len(s) - 1
      /\ \A j \in 1..(Len(s) - 1) : r[j] = IF j <= k - 1 THEN front[j] ELSE back[j - (k - 1)]
  <2>1. /\ r \in Seq(Item) /\ Len(r) = Len(front) + Len(back)
        /\ \A j \in 1..(Len(front) + Len(back)) :
              r[j] = IF j <= Len(front) THEN front[j] ELSE back[j - Len(front)]
    BY <1>2, <1>3, <1>4, ConcatProperties
  <2>2. Len(front) + Len(back) = Len(s) - 1 /\ Len(front) = k - 1
    BY <1>1, <1>2, <1>3
  <2> QED
    BY <2>1, <2>2
<1>6. ASSUME NEW j \in 1..(Len(s) - 1)
      PROVE  r[j] = IF j < k THEN s[j] ELSE s[j + 1]
  <2>1. CASE j < k
    <3>1. j \in 1..(k - 1) /\ j <= k - 1
      BY <1>1, <2>1
    <3> QED
      BY <1>2, <1>5, <2>1, <3>1
  <2>2. CASE ~(j < k)
    <3>1. /\ ~(j <= k - 1) /\ j - (k - 1) \in 1..(Len(s) - k)
          /\ k + (j - (k - 1)) = j + 1
      BY <1>1, <2>2
    <3> QED
      BY <1>3, <1>5, <2>2, <3>1
  <2> QED
    BY <2>1, <2>2
<1>7. DOMAIN r = 1..(Len(s) - 1)
  BY <1>5, LenProperties
<1> QED
  BY <1>5, <1>6, <1>7 DEF r

\* Taking a key out of a list.
LEMMA WithoutIs ==
  ASSUME NEW items, IsList(items), NEW key
  PROVE  /\ IsList(Without(items, key))
         /\ Keys(Without(items, key)) \subseteq Keys(items) \ {key}
<1>1. /\ items \in Seq(Item) /\ Len(items) \in Nat /\ DOMAIN items = 1..Len(items)
      /\ \A i, j \in 1..Len(items) : items[i].key = items[j].key => i = j
  BY LenProperties DEF IsList, Unique
<1>2. CASE key \notin Keys(items)
  BY <1>2 DEF Without
<1>3. CASE key \in Keys(items)
  <2> DEFINE k == Position(items, key)
             r == Without(items, key)
  <2>1. k \in 1..Len(items) /\ items[k].key = key
    BY <1>1, <1>3, PositionIs
  <2>2. r = RemoveAt(items, k)
    BY <1>3 DEF Without
  <2> HIDE DEF r, k
  <2>3. /\ r \in Seq(Item) /\ DOMAIN r = 1..(Len(items) - 1)
        /\ \A j \in 1..(Len(items) - 1) : r[j] = IF j < k THEN items[j] ELSE items[j + 1]
    BY <1>1, <2>1, <2>2, RemovedAt
  <2> DEFINE Old(j) == IF j < k THEN j ELSE j + 1
  <2>4. ASSUME NEW j \in DOMAIN r
        PROVE  Old(j) \in 1..Len(items) /\ Old(j) # k /\ r[j] = items[Old(j)]
    <3>1. j \in 1..(Len(items) - 1)
      BY <2>3
    <3>2. CASE j < k
      BY <1>1, <2>1, <2>3, <3>1, <3>2
    <3>3. CASE ~(j < k)
      BY <1>1, <2>1, <2>3, <3>1, <3>3
    <3> QED
      BY <3>2, <3>3
  <2>5. ASSUME NEW i \in DOMAIN r, NEW j \in DOMAIN r, Old(i) = Old(j) PROVE i = j
    <3>1. i \in Nat /\ j \in Nat /\ k \in Nat
      BY <1>1, <2>1, <2>3
    <3> QED
      BY <2>5, <3>1
  <2> HIDE DEF Old
  <2>6. Unique(r)
    BY <1>1, <2>4, <2>5 DEF Unique
  <2>7. Keys(r) \subseteq Keys(items) \ {key}
    <3> SUFFICES ASSUME NEW j \in DOMAIN r PROVE r[j].key \in Keys(items) \ {key}
      BY DEF Keys
    <3>1. Old(j) \in 1..Len(items) /\ Old(j) # k /\ r[j] = items[Old(j)]
      BY <2>4
    <3> QED
      BY <1>1, <2>1, <3>1 DEF Keys
  <2> QED
    BY <2>3, <2>6, <2>7 DEF IsList, r
<1> QED
  BY <1>2, <1>3

\* Staging a sub-issue.
LEMMA AppendedIs ==
  ASSUME NEW items, IsList(items), NEW new \in Item, new.key \notin Keys(items)
  PROVE  IsList(Append(items, new))
<1>1. /\ items \in Seq(Item) /\ Len(items) \in Nat /\ DOMAIN items = 1..Len(items)
      /\ \A i, j \in 1..Len(items) : items[i].key = items[j].key => i = j
  BY LenProperties DEF IsList, Unique
<1> DEFINE more == Append(items, new)
<1>2. /\ more \in Seq(Item) /\ DOMAIN more = 1..(Len(items) + 1)
      /\ \A i \in 1..Len(items) : more[i] = items[i]
      /\ more[Len(items) + 1] = new
  BY <1>1, AppendProperties, LenProperties
<1> HIDE DEF more
<1>3. \A i \in 1..Len(items) : items[i].key # new.key
  BY <1>1 DEF Keys
<1>4. \A i \in DOMAIN more : i \in 1..Len(items) \/ i = Len(items) + 1
  BY <1>1, <1>2
<1>5. Unique(more)
  BY <1>1, <1>2, <1>3, <1>4 DEF Unique
<1> QED
  BY <1>2, <1>5 DEF IsList, more

-----------------------------------------------------------------------------
(* What is known during the search *)

Deps(items, key) == items[Position(items, key)].depends_on

\* The staged sub-issues that one depends on.
Needs(items, key) == Keys(items) \cap ToSet(Deps(items, key))

\* The calls of visit under way are for different sub-issues, none of them placed.
Calls(items, frames, placed) ==
  /\ \A i \in DOMAIN frames : frames[i].key \in Keys(items) \ placed
  /\ \A i, j \in DOMAIN frames : frames[i].key = frames[j].key => i = j

\* Each was made for a dependency of the one before.
Nested(items, frames) ==
  \A i, j \in DOMAIN frames : j = i + 1 => frames[j].key \in Needs(items, frames[i].key)

\* The key is that of one of the first n calls.
Among(frames, n, key) == \E j \in DOMAIN frames : j <= n /\ frames[j].key = key

\* A dependency that a call has looked at is placed, or it is being visited: by a call
\* that leads to this one, or by this one, or by the next one.
LookedAt(items, frames, placed) ==
  \A i \in DOMAIN frames : \A d \in DOMAIN Deps(items, frames[i].key) :
     LET dep == Deps(items, frames[i].key)[d]
     IN  d < frames[i].next /\ dep \in Keys(items) =>
           dep \in placed \/ Among(frames, i + 1, dep)

\* The sub-issues that the outer loop has gone through are placed, but for the one that the
\* outermost call is about.
Begun(items, n, frames, placed) ==
  \A i \in DOMAIN items : i < n => items[i].key \in placed \/ Among(frames, 1, items[i].key)

\* `to` can be reached from `from`.
Linked(items, from, to) ==
  \E n \in 1..Cardinality(Keys(items)) :
     \E path \in [0..n -> Keys(items)] :
        /\ path[0] = from /\ path[n] = to
        /\ \A m \in 0..(n - 1) : path[m + 1] \in Needs(items, path[m])

\* A dependency that is not placed before its dependent is on a cycle with it.
CutOnCycles(items, order) ==
  \A k \in DOMAIN order : \A dep \in Needs(items, order[k]) :
     (\E j \in 1..(k - 1) : order[j] = dep) \/ Linked(items, dep, order[k])

Search(items, n, frames, order) ==
  /\ Calls(items, frames, ToSet(order))
  /\ Nested(items, frames)
  /\ LookedAt(items, frames, ToSet(order))
  /\ Begun(items, n, frames, ToSet(order))
  /\ IsInjective(order) /\ ToSet(order) \subseteq Keys(items)
  /\ CutOnCycles(items, order)

IInv ==
  /\ TypeOK
  /\ Unique(issues)
  /\ item = 0 => stack = <<>> /\ ordered = <<>>
  /\ Search(issues, item, stack, ordered)

\* What a sub-issue depends on.
LEMMA DepsAre ==
  ASSUME StagingAssumption, NEW items \in Seq(Item), NEW key \in Keys(items)
  PROVE  key \in Key /\ \E n \in Nat : DOMAIN Deps(items, key) = 1..n
BY PositionIs, DependencyList DEF Deps

\* The staged keys are finitely many.
LEMMA KeysFinite ==
  ASSUME NEW items \in Seq(Item)
  PROVE  IsFiniteSet(Keys(items)) /\ Cardinality(Keys(items)) \in Nat
<1> DEFINE f == [i \in 1..Len(items) |-> items[i].key]
<1>1. Len(items) \in Nat /\ DOMAIN items = 1..Len(items)
  BY LenProperties
<1>2. f \in Surjection(1..Len(items), Keys(items))
  BY <1>1 DEF Surjection, Keys
<1>3. IsFiniteSet(1..Len(items))
  BY <1>1, FS_Interval
<1> QED
  BY <1>2, <1>3, FS_Surjection, FS_CardinalityType

\* A call leads to every later one along dependencies, and its own dependency on itself to
\* itself: a sub-issue that the innermost call depends on and that is being visited is on a
\* cycle with it.
LEMMA OnACycle ==
  ASSUME NEW items \in Seq(Item), NEW frames \in Seq(Frame), NEW placed,
         Calls(items, frames, placed), Nested(items, frames),
         NEW m \in DOMAIN frames,
         frames[m].key \in Needs(items, frames[Len(frames)].key)
  PROVE  Linked(items, frames[m].key, frames[Len(frames)].key)
<1> DEFINE last == Len(frames)
           K == Keys(items)
<1>1. last \in Nat /\ DOMAIN frames = 1..last /\ m \in 1..last /\ last \in 1..last
  BY LenProperties
<1>2. IsFiniteSet(K) /\ Cardinality(K) \in Nat
  BY KeysFinite
<1>3. last <= Cardinality(K)
  <2> DEFINE f == [i \in 1..last |-> frames[i].key]
  <2>1. f \in Injection(1..last, K)
    BY <1>1 DEF Calls, Injection, IsInjective
  <2>2. Cardinality(1..last) = last
    BY <1>1, FS_Interval
  <2> QED
    BY <1>2, <2>1, <2>2, FS_Injection
<1>4. \A i \in 1..last : frames[i].key \in K
  BY <1>1 DEF Calls
<1> HIDE DEF K
<1>5. CASE m = last
  <2> DEFINE path == [i \in 0..1 |-> frames[m].key]
  <2>1. path \in [0..1 -> K]
    BY <1>1, <1>4
  <2>2. \A i \in 0..(1 - 1) : path[i] = frames[m].key /\ path[i + 1] = frames[m].key
    OBVIOUS
  <2>3. path[0] = frames[m].key /\ path[1] = frames[last].key
    BY <1>5
  <2>4. 1 \in 1..Cardinality(K)
    BY <1>1, <1>2, <1>3
  <2>5. \A i \in 0..(1 - 1) : path[i + 1] \in Needs(items, path[i])
    BY <1>5, <2>2
  <2> HIDE DEF path
  <2> QED
    BY <2>1, <2>3, <2>4, <2>5 DEF Linked, K
<1>6. CASE m # last
  <2> DEFINE n == last - m
             path == [i \in 0..n |-> frames[m + i].key]
  <2>1. n \in 1..Cardinality(K) /\ \A i \in 0..n : m + i \in 1..last
    BY <1>1, <1>2, <1>3, <1>6
  <2>2. path \in [0..n -> K]
    BY <1>4, <2>1
  <2>3. path[0] = frames[m].key /\ path[n] = frames[last].key
    <3>1. m + 0 = m /\ m + n = last /\ 0 \in 0..n /\ n \in 0..n
      BY <1>1, <2>1
    <3> QED
      BY <3>1
  <2>4. ASSUME NEW i \in 0..(n - 1) PROVE path[i + 1] \in Needs(items, path[i])
    <3>1. /\ i \in 0..n /\ i + 1 \in 0..n
          /\ m + i \in 1..last /\ m + (i + 1) \in 1..last /\ m + (i + 1) = (m + i) + 1
      BY <1>1, <2>1
    <3>2. frames[m + (i + 1)].key \in Needs(items, frames[m + i].key)
      BY <1>1, <3>1 DEF Nested
    <3> QED
      BY <3>1, <3>2
  <2> HIDE DEF path, n
  <2> QED
    BY <2>1, <2>2, <2>3, <2>4 DEF Linked, K
<1> QED
  BY <1>5, <1>6

-----------------------------------------------------------------------------
(* Its steps *)

\* Looking at the next dependency of a call: what is staged of it is placed or being visited.
LEMMA Advanced ==
  ASSUME NEW items, NEW n, NEW order, NEW frames \in Seq(Frame), NEW more \in Seq(Frame),
         Search(items, n, frames, order),
         DOMAIN more = DOMAIN frames,
         \A i \in DOMAIN frames : more[i].key = frames[i].key,
         NEW p \in DOMAIN frames,
         \A i \in DOMAIN frames : i # p => more[i].next = frames[i].next,
         more[p].next = frames[p].next + 1,
         LET dep == Deps(items, frames[p].key)[frames[p].next]
         IN  dep \in Keys(items) => dep \in ToSet(order) \/ Among(frames, p + 1, dep),
         \A d \in DOMAIN Deps(items, frames[p].key) : d \in Nat
  PROVE  Search(items, n, more, order)
<1>1. \A i \in DOMAIN frames : i \in Nat /\ frames[i].next \in Nat
  <2>1. DOMAIN frames = 1..Len(frames) /\ Len(frames) \in Nat
    BY LenProperties
  <2>2. \A i \in 1..Len(frames) : frames[i] \in Frame
    BY ElementOfSeq
  <2> QED
    BY <2>1, <2>2 DEF Frame
<1>2. Calls(items, more, ToSet(order))
  BY DEF Search, Calls
<1>3. Nested(items, more)
  BY DEF Search, Nested
<1>4. \A k, key : Among(frames, k, key) <=> Among(more, k, key)
  BY DEF Among
<1>5. Begun(items, n, more, ToSet(order))
  BY <1>4 DEF Search, Begun
<1>6. LookedAt(items, more, ToSet(order))
  <2> SUFFICES ASSUME NEW i \in DOMAIN frames,
                      NEW d \in DOMAIN Deps(items, frames[i].key),
                      d < more[i].next,
                      Deps(items, frames[i].key)[d] \in Keys(items)
               PROVE  \/ Deps(items, frames[i].key)[d] \in ToSet(order)
                      \/ Among(frames, i + 1, Deps(items, frames[i].key)[d])
    BY <1>4 DEF LookedAt
  <2>1. CASE d < frames[i].next
    BY <2>1 DEF Search, LookedAt
  <2>2. CASE ~(d < frames[i].next)
    <3>1. i = p
      BY <2>2
    <3>2. d = frames[p].next
      BY <1>1, <2>2, <3>1
    <3> QED
      BY <3>1, <3>2
  <2> QED
    BY <2>1, <2>2
<1> QED
  BY <1>2, <1>3, <1>5, <1>6 DEF Search

\* A new call.
Fresh(key) == [key |-> key, next |-> 1]

LEMMA Pushed ==
  ASSUME NEW frames \in Seq(Frame), NEW key \in Key
  PROVE  LET more == Append(frames, Fresh(key))
         IN  /\ more \in Seq(Frame) /\ Len(more) = Len(frames) + 1
             /\ DOMAIN more = 1..(Len(frames) + 1)
             /\ \A i \in 1..Len(frames) : more[i] = frames[i]
             /\ more[Len(frames) + 1].key = key /\ more[Len(frames) + 1].next = 1
<1>1. Fresh(key) \in Frame /\ Fresh(key).key = key /\ Fresh(key).next = 1
  BY DEF Fresh, Frame
<1> QED
  BY <1>1, AppendProperties, LenProperties

LEMMA Called ==
  ASSUME StagingAssumption, NEW items \in Seq(Item), NEW n, NEW order,
         NEW frames \in Seq(Frame),
         Search(items, n, frames, order),
         NEW key \in Keys(items) \ ToSet(order),
         \A i \in DOMAIN frames : frames[i].key # key,
         frames # <<>> => key \in Needs(items, frames[Len(frames)].key)
  PROVE  Search(items, n, Append(frames, Fresh(key)), order)
<1> DEFINE more == Append(frames, Fresh(key))
           last == Len(frames)
<1>1. last \in Nat /\ DOMAIN frames = 1..last /\ (frames = <<>> <=> last = 0)
  BY LenProperties, EmptySeq
<1>2. /\ DOMAIN more = 1..(last + 1)
      /\ \A i \in 1..last : more[i] = frames[i]
      /\ more[last + 1].key = key /\ more[last + 1].next = 1
  BY Pushed, DepsAre
<1> HIDE DEF more
<1>3. \A i \in DOMAIN more : i \in 1..last \/ i = last + 1
  BY <1>1, <1>2
<1>4. Calls(items, more, ToSet(order))
  BY <1>1, <1>2, <1>3 DEF Search, Calls
<1>5. Nested(items, more)
  <2> SUFFICES ASSUME NEW i \in DOMAIN more, NEW j \in DOMAIN more, j = i + 1
               PROVE  more[j].key \in Needs(items, more[i].key)
    BY DEF Nested
  <2>1. i \in 1..last
    BY <1>1, <1>2
  <2>2. CASE j \in 1..last
    BY <1>1, <1>2, <2>1, <2>2 DEF Search, Nested
  <2>3. CASE j = last + 1
    <3>1. i = last /\ last # 0
      BY <1>1, <2>1, <2>3
    <3> QED
      BY <1>1, <1>2, <2>1, <2>3, <3>1
  <2> QED
    BY <1>3, <2>2, <2>3
<1>6. \A k, e : Among(frames, k, e) => Among(more, k, e)
  BY <1>1, <1>2 DEF Among
<1>7. Begun(items, n, more, ToSet(order))
  BY <1>6 DEF Search, Begun
<1>8. LookedAt(items, more, ToSet(order))
  <2> SUFFICES ASSUME NEW i \in DOMAIN more,
                      NEW d \in DOMAIN Deps(items, more[i].key),
                      d < more[i].next,
                      Deps(items, more[i].key)[d] \in Keys(items)
               PROVE  \/ Deps(items, more[i].key)[d] \in ToSet(order)
                      \/ Among(more, i + 1, Deps(items, more[i].key)[d])
    BY DEF LookedAt
  <2>1. i \in 1..last
    <3>1. ASSUME i = last + 1 PROVE FALSE
      <4>1. d < 1 /\ d \in DOMAIN Deps(items, key)
        BY <1>2, <3>1
      <4> QED
        BY <4>1, DepsAre
    <3> QED
      BY <1>3, <3>1
  <2> QED
    BY <1>1, <1>2, <1>6, <2>1 DEF Search, LookedAt
<1> QED
  BY <1>4, <1>5, <1>7, <1>8 DEF Search, more

\* The outer loop goes on.
LEMMA BegunNext ==
  ASSUME NEW items \in Seq(Item), NEW n \in Nat, NEW frames, NEW order,
         Search(items, n, frames, order),
         n \in DOMAIN items => items[n].key \in ToSet(order) \/ Among(frames, 1, items[n].key)
  PROVE  Search(items, n + 1, frames, order)
<1>1. \A i \in DOMAIN items : i < n + 1 => i < n \/ i = n
  BY LenProperties
<1>2. Begun(items, n + 1, frames, ToSet(order))
  BY <1>1 DEF Search, Begun
<1> QED
  BY <1>2 DEF Search

\* A call that has looked at everything places its sub-issue and returns.
LEMMA Placing ==
  ASSUME StagingAssumption, NEW items \in Seq(Item), NEW n, NEW order \in Seq(Key),
         NEW frames \in Seq(Frame), frames # <<>>,
         Search(items, n, frames, order),
         frames[Len(frames)].next \notin DOMAIN Deps(items, frames[Len(frames)].key)
  PROVE  LET key == frames[Len(frames)].key
         IN  /\ Front(frames) \in Seq(Frame)
             /\ key \in Key /\ key \notin ToSet(order)
             /\ Search(items, n, Front(frames), Append(order, key))
<1> DEFINE last == Len(frames)
           key == frames[last].key
           less == Front(frames)
           more == Append(order, key)
           len == Len(order)
<1>1. /\ last \in Nat /\ last # 0 /\ last - 1 \in Nat /\ DOMAIN frames = 1..last
      /\ last \in 1..last /\ len \in Nat /\ DOMAIN order = 1..len
  BY LenProperties, EmptySeq
<1>2. key \in Keys(items) \ ToSet(order)
  BY <1>1 DEF Search, Calls
<1>3. key \in Key
  BY <1>2, DepsAre
<1>4. /\ less \in Seq(Frame) /\ DOMAIN less = 1..(last - 1)
      /\ \A i \in 1..(last - 1) : less[i] = frames[i]
  <2>1. /\ less \in Seq(Frame) /\ Len(less) = (last - 1) + 1 - 1
        /\ \A i \in 1..((last - 1) + 1 - 1) : less[i] = frames[1 + i - 1]
    BY <1>1, PieceIs DEF Front
  <2>2. /\ (last - 1) + 1 - 1 = last - 1
        /\ \A i \in 1..(last - 1) : 1 + i - 1 = i
    BY <1>1
  <2>3. DOMAIN less = 1..Len(less)
    BY <2>1, LenProperties
  <2> QED
    BY <2>1, <2>2, <2>3
<1>5. /\ DOMAIN more = 1..(len + 1)
      /\ \A i \in 1..len : more[i] = order[i]
      /\ more[len + 1] = key
  BY <1>1, <1>3, AppendProperties, LenProperties
<1> HIDE DEF less, more, key
<1>6. \A i \in DOMAIN more : i \in 1..len \/ i = len + 1
  BY <1>1, <1>5
<1>7. ToSet(more) = ToSet(order) \cup {key}
  BY <1>1, <1>5, <1>6 DEF ToSet
<1>8. \A i \in DOMAIN frames : i \in 1..(last - 1) \/ i = last
  BY <1>1
<1>9. ASSUME NEW i \in 1..(last - 1) PROVE i \in DOMAIN frames /\ i # last
  <2>1. \A m \in Nat : i \in 1..(m - 1) => i \in 1..m /\ i # m
    OBVIOUS
  <2> QED
    BY <1>1, <2>1
<1>10. \A k, e : Among(frames, k, e) => e = key \/ Among(less, k, e)
  BY <1>4, <1>8 DEF Among, key
<1>11. Calls(items, less, ToSet(more))
  <2>1. \A i \in 1..(last - 1) : frames[i].key # key
    BY <1>1, <1>9 DEF Search, Calls, key
  <2> QED
    BY <1>4, <1>7, <1>9, <2>1 DEF Search, Calls
<1>12. Nested(items, less)
  <2> SUFFICES ASSUME NEW i \in DOMAIN less, NEW j \in DOMAIN less, j = i + 1
               PROVE  less[j].key \in Needs(items, less[i].key)
    BY DEF Nested
  <2>1. /\ less[i] = frames[i] /\ less[j] = frames[j]
        /\ i \in DOMAIN frames /\ j \in DOMAIN frames
    BY <1>4, <1>9
  <2> QED
    BY <2>1 DEF Search, Nested
<1>13. LookedAt(items, less, ToSet(more))
  BY <1>4, <1>7, <1>9, <1>10 DEF Search, LookedAt
<1>14. Begun(items, n, less, ToSet(more))
  BY <1>7, <1>10 DEF Search, Begun
<1>15. IsInjective(more)
  <2>1. \A i \in 1..len : order[i] # key
    BY <1>1, <1>2 DEF ToSet
  <2>2. \A i, j \in 1..len : order[i] = order[j] => i = j
    BY <1>1 DEF Search, IsInjective
  <2> QED
    BY <1>1, <1>5, <1>6, <2>1, <2>2 DEF IsInjective
<1>16. ToSet(more) \subseteq Keys(items)
  BY <1>2, <1>7 DEF Search
<1>17. CutOnCycles(items, more)
  <2> SUFFICES ASSUME NEW k \in DOMAIN more, NEW dep \in Needs(items, more[k])
               PROVE  (\E j \in 1..(k - 1) : more[j] = dep) \/ Linked(items, dep, more[k])
    BY DEF CutOnCycles
  <2>1. CASE k \in 1..len
    <3>1. \A j \in 1..(k - 1) : j \in 1..len
      BY <1>1, <2>1
    <3>2. (\E j \in 1..(k - 1) : order[j] = dep) \/ Linked(items, dep, order[k])
      BY <1>1, <1>5, <2>1 DEF Search, CutOnCycles
    <3> QED
      BY <1>5, <2>1, <3>1, <3>2
  <2>2. CASE k = len + 1
    <3>1. /\ more[k] = key /\ dep \in Keys(items) /\ dep \in ToSet(Deps(items, key))
      BY <1>5, <2>2 DEF Needs
    <3>2. PICK d \in DOMAIN Deps(items, key) : Deps(items, key)[d] = dep
      BY <3>1 DEF ToSet
    <3>3. d < frames[last].next
      <4>1. frames[last] \in Frame
        BY <1>1, ElementOfSeq
      <4>2. frames[last].next \in Nat \ {0}
        BY <4>1 DEF Frame
      <4>3. PICK m \in Nat : DOMAIN Deps(items, key) = 1..m
        BY <1>2, DepsAre
      <4>4. frames[last].next \notin 1..m
        BY <4>3 DEF key
      <4> QED
        BY <4>2, <4>3, <4>4
    <3>4. dep \in ToSet(order) \/ Among(frames, last + 1, dep)
      BY <1>1, <3>1, <3>2, <3>3 DEF Search, LookedAt, key
    <3>5. CASE dep \in ToSet(order)
      <4>1. PICK j \in 1..len : order[j] = dep
        BY <1>1, <3>5 DEF ToSet
      <4>2. j \in 1..(k - 1)
        BY <1>1, <2>2, <4>1
      <4> QED
        BY <1>5, <4>1, <4>2
    <3>6. CASE Among(frames, last + 1, dep)
      <4>1. PICK m \in DOMAIN frames : frames[m].key = dep
        BY <3>6 DEF Among
      <4>2. dep \in Needs(items, key)
        BY <3>1 DEF Needs
      <4>3. Linked(items, dep, key)
        BY <4>1, <4>2, OnACycle DEF Search, key
      <4> QED
        BY <3>1, <4>3
    <3> QED
      BY <3>4, <3>5, <3>6
  <2> QED
    BY <1>6, <2>1, <2>2
<1>18. Search(items, n, less, more)
  BY <1>11, <1>12, <1>13, <1>14, <1>15, <1>16, <1>17 DEF Search
<1> QED
  BY <1>2, <1>3, <1>4, <1>18 DEF key, less, more

-----------------------------------------------------------------------------
(* The invariant *)

\* Before the search nothing is known, and nothing needs to be.
LEMMA NothingPlaced ==
  ASSUME NEW items \in Seq(Item), NEW n \in {0, 1}
  PROVE  Search(items, n, <<>>, <<>>)
<1>1. ToSet(<<>>) = {}
  BY DEF ToSet
<1>2. Begun(items, n, <<>>, ToSet(<<>>))
  <2>1. \A i \in DOMAIN items : ~(i < n)
    BY LenProperties
  <2> QED
    BY <2>1 DEF Begun
<1>3. Calls(items, <<>>, {}) /\ Nested(items, <<>>) /\ LookedAt(items, <<>>, {})
  BY DEF Calls, Nested, LookedAt
<1>4. IsInjective(<<>>) /\ CutOnCycles(items, <<>>)
  BY DEF IsInjective, CutOnCycles
<1> QED
  BY <1>1, <1>2, <1>3, <1>4 DEF Search

LEMMA InvInit == ASSUME Init PROVE IInv
<1>1. issues \in Seq(Item) /\ stack \in Seq(Frame) /\ ordered \in Seq(Key)
  BY DEF Init
<1>2. TypeOK
  BY <1>1 DEF Init, TypeOK
<1>3. Unique(issues)
  BY DEF Init, Unique
<1>4. Search(issues, item, stack, ordered)
  BY <1>1, NothingPlaced DEF Init
<1> QED
  BY <1>2, <1>3, <1>4 DEF Init, IInv

\* While the agent stages, its sub-issues stay a list without repetitions.
LEMMA StagingKeeps ==
  ASSUME IInv, Staging, IsList(issues'),
         kind' = kind, action' \in Submissions \cup {"none"}, files' \subseteq Path
  PROVE  IInv'
<1>1. /\ item = 0 /\ item' = 0 /\ stack = <<>> /\ ordered = <<>>
      /\ stack' = <<>> /\ ordered' = <<>>
  BY DEF IInv, Staging
<1>2. issues' \in Seq(Item) /\ Unique(issues')
  BY DEF IsList
<1>3. TypeOK'
  BY <1>1, <1>2 DEF IInv, TypeOK, Submissions
<1>4. Search(issues', 0, <<>>, <<>>)
  BY <1>2, NothingPlaced
<1>5. Search(issues', item', stack', ordered')
  BY <1>1, <1>4
<1> QED
  BY <1>1, <1>2, <1>3, <1>5 DEF IInv, Unique, Search, Calls, Nested, LookedAt, Begun, CutOnCycles

LEMMA AgentStep ==
  ASSUME StagingAssumption, IInv,
         \/ \E p \in Path : StageFile(p) \/ UnstageFile(p)
         \/ \E new \in Item : StageIssue(new)
         \/ \E what \in Submissions : Submit(what)
  PROVE  IInv'
<1>1. /\ IsList(issues) /\ action \in Submissions \cup {"none"} /\ files \subseteq Path
  BY DEF IInv, TypeOK, IsList
<1>2. CASE \E p \in Path : StageFile(p) \/ UnstageFile(p)
  BY <1>1, <1>2, StagingKeeps DEF StageFile, UnstageFile
<1>3. CASE \E new \in Item : StageIssue(new)
  <2>1. PICK new \in Item : StageIssue(new)
    BY <1>3
  <2>2. IsList(Append(Without(issues, new.key), new))
    BY <1>1, WithoutIs, AppendedIs
  <2>3. IsList(issues')
    BY <2>1, <2>2 DEF StageIssue
  <2> QED
    BY <1>1, <2>1, <2>3, StagingKeeps DEF StageIssue
<1>4. CASE \E what \in Submissions : Submit(what)
  BY <1>1, <1>4, StagingKeeps DEF Submit
<1> QED
  BY <1>2, <1>3, <1>4

\* While the sub-issues are filed, the stage stays as it is.
LEMMA SearchKeeps ==
  ASSUME IInv, UNCHANGED agentVars,
         item' \in Nat \ {0}, stack' \in Seq(Frame), ordered' \in Seq(Key),
         Search(issues, item', stack', ordered')
  PROVE  IInv'
<1>1. TypeOK'
  BY DEF IInv, TypeOK, agentVars, Submissions
<1>2. issues' = issues
  BY DEF agentVars
<1>3. Unique(issues') /\ Search(issues', item', stack', ordered')
  BY <1>2 DEF IInv
<1> QED
  BY <1>1, <1>3 DEF IInv

LEMMA StartStep == ASSUME IInv, StartFiling PROVE IInv'
<1>1. /\ item' = 1 /\ stack' = <<>> /\ ordered' = <<>> /\ UNCHANGED agentVars
      /\ issues \in Seq(Item)
  BY DEF IInv, TypeOK, StartFiling
<1>2. <<>> \in Seq(Frame) /\ <<>> \in Seq(Key)
  OBVIOUS
<1>3. Search(issues, 1, <<>>, <<>>)
  BY <1>1, NothingPlaced
<1>4. Search(issues, item', stack', ordered')
  BY <1>1, <1>3
<1> QED
  BY <1>1, <1>2, <1>4, SearchKeeps

LEMMA VisitNextStep == ASSUME StagingAssumption, IInv, VisitNext PROVE IInv'
<1> DEFINE key == issues[item].key
           frames == Call(stack, key)
<1>1. /\ item \in DOMAIN issues /\ stack = <<>> /\ item' = item + 1
      /\ stack' = frames /\ ordered' = ordered /\ UNCHANGED agentVars
  BY DEF VisitNext
<1>2. /\ issues \in Seq(Item) /\ item \in Nat /\ stack \in Seq(Frame) /\ ordered \in Seq(Key)
      /\ Search(issues, item, stack, ordered)
  BY DEF IInv, TypeOK
<1>3. key \in Keys(issues) /\ key \in Key
  BY <1>1, <1>2, DepsAre DEF Keys
<1> HIDE DEF key
<1>4. /\ frames \in Seq(Frame) /\ Search(issues, item, frames, ordered)
      /\ key \in ToSet(ordered) \/ Among(frames, 1, key)
  <2>1. CASE key \in ToSet(ordered)
    BY <1>2, <2>1 DEF Call, Placed
  <2>2. CASE key \notin ToSet(ordered)
    <3>1. frames = Append(stack, Fresh(key))
      BY <2>2 DEF Call, Placed, Fresh
    <3>2. Len(stack) = 0 /\ DOMAIN stack = {}
      BY <1>1
    <3>3. Search(issues, item, Append(stack, Fresh(key)), ordered)
      <4>1. \A i \in DOMAIN stack : stack[i].key # key
        BY <3>2
      <4> QED
        BY <1>1, <1>2, <1>3, <2>2, <4>1, Called
    <3>4. /\ frames \in Seq(Frame) /\ DOMAIN frames = 1..(Len(stack) + 1)
          /\ frames[Len(stack) + 1].key = key
      BY <1>2, <1>3, <3>1, Pushed
    <3>5. 1 \in DOMAIN frames /\ frames[1].key = key
      BY <3>2, <3>4
    <3> HIDE DEF frames
    <3> QED
      BY <3>1, <3>3, <3>4, <3>5 DEF Among
  <2> QED
    BY <2>1, <2>2
<1>5. Search(issues, item + 1, frames, ordered)
  BY <1>2, <1>4, BegunNext DEF key
<1>6. Search(issues, item', stack', ordered')
  BY <1>1, <1>5
<1>7. item' \in Nat \ {0} /\ stack' \in Seq(Frame) /\ ordered' \in Seq(Key)
  BY <1>1, <1>2, <1>4
<1> QED
  BY <1>1, <1>6, <1>7, SearchKeeps

\* A search is under way only while sub-issues are filed.
LEMMA Searching == ASSUME IInv, stack # <<>> PROVE item \in Nat \ {0}
BY DEF IInv, TypeOK

LEMMA VisitDependencyStep == ASSUME StagingAssumption, IInv, VisitDependency PROVE IInv'
<1> DEFINE last == Len(stack)
           top == stack[last]
           dep == Upstreams(top.key)[top.next]
           rest == [stack EXCEPT ![last].next = @ + 1]
<1>1. /\ stack # <<>> /\ top.next \in DOMAIN Upstreams(top.key)
      /\ stack' = IF dep \in Keys(issues) \ Visiting THEN Call(rest, dep) ELSE rest
      /\ item' = item /\ ordered' = ordered /\ UNCHANGED agentVars
  BY DEF VisitDependency, Last
<1>2. /\ issues \in Seq(Item) /\ stack \in Seq(Frame) /\ ordered \in Seq(Key)
      /\ Search(issues, item, stack, ordered)
  BY DEF IInv, TypeOK
<1>3. /\ last \in Nat /\ DOMAIN stack = 1..last /\ last \in DOMAIN stack
      /\ top \in Frame
  <2>1. last \in Nat /\ DOMAIN stack = 1..last /\ last # 0
    BY <1>1, <1>2, LenProperties, EmptySeq
  <2> QED
    BY <1>2, <2>1, ElementOfSeq
<1>4. /\ rest \in Seq(Frame) /\ DOMAIN rest = DOMAIN stack /\ Len(rest) = last
      /\ \A i \in DOMAIN stack : rest[i].key = stack[i].key
      /\ \A i \in DOMAIN stack : i # last => rest[i].next = stack[i].next
      /\ rest[last].next = top.next + 1
  <2> DEFINE moved == [top EXCEPT !.next = @ + 1]
  <2>1. moved \in Frame /\ moved.key = top.key /\ moved.next = top.next + 1
    BY <1>3 DEF Frame
  <2>2. rest = [stack EXCEPT ![last] = moved]
    OBVIOUS
  <2> HIDE DEF moved, rest
  <2>3. rest \in Seq(Frame) /\ Len(rest) = last
    BY <1>2, <1>3, <2>1, <2>2, ExceptSeq
  <2>4. /\ DOMAIN rest = DOMAIN stack /\ rest[last] = moved
        /\ \A i \in DOMAIN stack : i # last => rest[i] = stack[i]
    BY <1>3, <2>2
  <2> QED
    BY <2>1, <2>3, <2>4
<1>5. /\ Upstreams(top.key) = Deps(issues, top.key)
      /\ top.key \in Keys(issues)
      /\ \A d \in DOMAIN Deps(issues, top.key) : d \in Nat
  <2>1. top.key \in Keys(issues)
    BY <1>2, <1>3 DEF Search, Calls
  <2> QED
    BY <1>2, <2>1, DepsAre DEF Upstreams, Deps
<1> HIDE DEF rest, dep
<1>6. dep \in Visiting => Among(stack, last + 1, dep)
  BY <1>3 DEF Visiting, Among
<1>7. CASE dep \in Keys(issues) => dep \in Visiting \cup ToSet(ordered)
  <2>1. stack' = rest
    BY <1>1, <1>7 DEF Call, Placed
  <2>2. Search(issues, item, rest, ordered)
    BY <1>2, <1>3, <1>4, <1>5, <1>6, <1>7, Advanced DEF dep
  <2>3. Search(issues, item', stack', ordered')
    BY <1>1, <2>1, <2>2
  <2> QED
    BY <1>1, <1>2, <1>4, <2>1, <2>3, Searching, SearchKeeps
<1>8. CASE dep \in Keys(issues) \ (Visiting \cup ToSet(ordered))
  <2> DEFINE early == Append(stack, Fresh(dep))
             more == Append(rest, Fresh(dep))
  <2>1. stack' = more
    BY <1>1, <1>8 DEF Call, Placed, Fresh
  <2>2. dep \in Key
    BY <1>2, <1>8, DepsAre
  <2>3. /\ early \in Seq(Frame) /\ DOMAIN early = 1..(last + 1)
        /\ \A i \in 1..last : early[i] = stack[i]
        /\ early[last + 1].key = dep /\ early[last + 1].next = 1
    BY <1>2, <2>2, Pushed
  <2>4. /\ more \in Seq(Frame) /\ DOMAIN more = 1..(last + 1)
        /\ \A i \in 1..last : more[i] = rest[i]
        /\ more[last + 1].key = dep /\ more[last + 1].next = 1
    BY <1>4, <2>2, Pushed
  <2>5. Search(issues, item, early, ordered)
    <3>1. \A i \in DOMAIN stack : stack[i].key # dep
      BY <1>8 DEF Visiting
    <3>2. dep \in Needs(issues, top.key)
      BY <1>1, <1>5, <1>8 DEF Needs, ToSet, dep
    <3> QED
      BY <1>2, <1>8, <3>1, <3>2, Called
  <2> HIDE DEF early, more
  <2>6. \A i \in 1..(last + 1) : i \in 1..last \/ i = last + 1
    BY <1>3
  <2>7. last \in DOMAIN early /\ early[last] = top
    BY <1>3, <2>3
  <2>8. /\ \A i \in DOMAIN early : more[i].key = early[i].key
        /\ \A i \in DOMAIN early : i # last => more[i].next = early[i].next
        /\ more[last].next = early[last].next + 1
    <3>1. last \in 1..last
      BY <1>3
    <3> QED
      BY <1>3, <1>4, <2>3, <2>4, <2>6, <3>1
  <2>9. Among(early, last + 1, dep)
    <3>1. last + 1 \in DOMAIN early /\ last + 1 <= last + 1
      BY <1>3, <2>3
    <3> QED
      BY <2>3, <3>1 DEF Among
  <2>10. Search(issues, item, more, ordered)
    <3>1. DOMAIN more = DOMAIN early
      BY <2>3, <2>4
    <3>2. Deps(issues, early[last].key)[early[last].next] = dep
      BY <1>5, <2>7 DEF dep
    <3>3. \A d \in DOMAIN Deps(issues, early[last].key) : d \in Nat
      BY <1>5, <2>7
    <3> QED
      BY <2>3, <2>4, <2>5, <2>7, <2>8, <2>9, <3>1, <3>2, <3>3, Advanced
  <2>11. Search(issues, item', stack', ordered')
    BY <1>1, <2>1, <2>10
  <2> QED
    BY <1>1, <1>2, <2>1, <2>4, <2>11, Searching, SearchKeeps
<1> QED
  BY <1>7, <1>8

LEMMA PlaceStep == ASSUME StagingAssumption, IInv, Place PROVE IInv'
<1> DEFINE key == stack[Len(stack)].key
<1>1. /\ stack # <<>> /\ stack[Len(stack)].next \notin DOMAIN Upstreams(key)
      /\ ordered' = IF key \in Placed THEN ordered ELSE Append(ordered, key)
      /\ stack' = Front(stack)
      /\ item' = item /\ UNCHANGED agentVars
  BY DEF Place, Last
<1>2. /\ issues \in Seq(Item) /\ stack \in Seq(Frame) /\ ordered \in Seq(Key)
      /\ Search(issues, item, stack, ordered)
  BY DEF IInv, TypeOK
<1>3. /\ Front(stack) \in Seq(Frame) /\ key \in Key /\ key \notin ToSet(ordered)
      /\ Search(issues, item, Front(stack), Append(ordered, key))
  BY <1>1, <1>2, Placing DEF Upstreams, Deps
<1> HIDE DEF key
<1>4. ordered' = Append(ordered, key)
  BY <1>1, <1>3 DEF Placed
<1>5. Search(issues, item', stack', ordered')
  BY <1>1, <1>3, <1>4
<1>6. stack' \in Seq(Frame) /\ ordered' \in Seq(Key)
  BY <1>1, <1>2, <1>3, <1>4, AppendProperties
<1> QED
  BY <1>1, <1>5, <1>6, Searching, SearchKeeps

LEMMA InvStep == ASSUME StagingAssumption, IInv, [Next]_vars PROVE IInv'
<1>1. CASE \/ \E p \in Path : StageFile(p) \/ UnstageFile(p)
           \/ \E new \in Item : StageIssue(new)
           \/ \E what \in Submissions : Submit(what)
  BY <1>1, AgentStep
<1>2. CASE StartFiling
  BY <1>2, StartStep
<1>3. CASE VisitNext
  BY <1>3, VisitNextStep
<1>4. CASE VisitDependency
  BY <1>4, VisitDependencyStep
<1>5. CASE Place
  BY <1>5, PlaceStep
<1>6. CASE UNCHANGED vars
  <2>1. UNCHANGED <<kind, action, files, issues, item, stack, ordered>>
    BY <1>6 DEF vars, agentVars
  <2>2. TypeOK'
    BY <2>1 DEF IInv, TypeOK, Submissions
  <2> QED
    BY <2>1, <2>2 DEF IInv
<1> QED
  BY <1>1, <1>2, <1>3, <1>4, <1>5, <1>6 DEF Next

LEMMA Invariant == Spec => []IInv
<1>1. Init => IInv
  BY InvInit
<1>2. IInv /\ [Next]_vars => IInv'
  BY StagingAssumption, InvStep
<1> QED
  BY <1>1, <1>2, PTL DEF Spec

-----------------------------------------------------------------------------
(* Theorems *)

\* Every reachable state is well typed: the stage, the calls of visit and what they have
\* placed.
THEOREM TypeCorrect == Spec => []TypeOK
<1>1. IInv => TypeOK
  BY DEF IInv
<1> QED
  BY <1>1, Invariant, PTL

\* Whatever the agent has staged and submitted in whatever order, its plan (to_plan) is a
\* change or a decomposition.
THEOREM PlansAreOneOutcome == Spec => []PlanIsOneOutcome
<1>1. TypeOK => PlanIsOneOutcome
  BY DEF TypeOK, Submissions, PlanIsOneOutcome, HasWork, ToPlan
<1> QED
  BY <1>1, TypeCorrect, PTL

\* Whatever dependencies were declared, topological_order emits every staged sub-issue, and
\* none of them twice.
THEOREM AllFiledOnce == Spec => []FiledOnce
<1>1. ASSUME IInv PROVE FiledOnce
  <2>1. /\ issues \in Seq(Item) /\ item \in Nat /\ IsInjective(ordered)
        /\ ToSet(ordered) \subseteq Keys(issues)
        /\ Begun(issues, item, stack, ToSet(ordered))
    BY <1>1 DEF IInv, TypeOK, Search
  <2>2. ASSUME Filed, NEW i \in DOMAIN issues PROVE issues[i].key \in ToSet(ordered)
    <3>1. i < item
      BY <2>1, <2>2, LenProperties DEF Filed
    <3>2. ~Among(stack, 1, issues[i].key)
      BY <2>2 DEF Filed, Among
    <3> QED
      BY <2>1, <3>1, <3>2 DEF Begun
  <2>3. Filed => ToSet(ordered) = Keys(issues)
    BY <2>1, <2>2 DEF Keys
  <2> QED
    BY <2>1, <2>3 DEF FiledOnce
<1> QED
  BY <1>1, Invariant, PTL

\* A dependency that topological_order leaves out is one of a cycle: the sub-issue that it is
\* on is, in the end, itself waiting for the dependent.
THEOREM CutsAreOnCycles == Spec => []OnlyCyclesAreCut
<1>1. ASSUME IInv PROVE OnlyCyclesAreCut
  <2>1. CutOnCycles(issues, ordered)
    BY <1>1 DEF IInv, Search
  <2>2. \A key : Upstreams(key) = Deps(issues, key)
    BY DEF Upstreams, Deps
  <2>3. \A from, to : Linked(issues, from, to) => Reaches(from, to)
    BY <2>2 DEF Linked, Reaches, Needs
  <2> SUFFICES ASSUME NEW k \in DOMAIN ordered,
                      NEW dep \in Keys(issues) \cap ToSet(Upstreams(ordered[k]))
               PROVE  dep \in FiledUpstreams(k) \/ Reaches(dep, ordered[k])
    BY DEF OnlyCyclesAreCut
  <2>4. dep \in Needs(issues, ordered[k])
    BY <2>2 DEF Needs
  <2>5. (\E j \in 1..(k - 1) : ordered[j] = dep) \/ Linked(issues, dep, ordered[k])
    BY <2>1, <2>4 DEF CutOnCycles
  <2> QED
    BY <2>3, <2>5 DEF FiledUpstreams
<1> QED
  BY <1>1, Invariant, PTL

\* A set of numbers has a least one.
LEMMA Least ==
  ASSUME NEW T \in SUBSET Nat, T # {}
  PROVE  \E k \in T : \A m \in T : k <= m
<1> DEFINE R == OpToRel(<, Nat)
<1>1. IsWellFoundedOn(R, Nat)
  BY NatLessThanWellFounded
<1>2. R = {ss \in Nat \X Nat : ss[1] < ss[2]}
  BY DEF OpToRel
<1> HIDE DEF R
<1>3. PICK k \in T : \A m \in T : <<m, k>> \notin R
  BY <1>1, WFMin
<1>4. ASSUME NEW m \in T PROVE k <= m
  <2>1. ~(m < k)
    BY <1>2, <1>3
  <2> QED
    BY <2>1
<1> QED
  BY <1>4

\* The numbers that open_issues_from_decomposition writes into the sub-issues never make them
\* wait for one another, cycles or not: the one that was filed first waits for none of the
\* others.
THEOREM FiledNeverStuck == Spec => []NeverStuck
<1>1. ASSUME IInv PROVE NeverStuck
  <2> SUFFICES ASSUME NEW left \in SUBSET DOMAIN ordered, left # {}
               PROVE  \E k \in left : FiledUpstreams(k) \cap {ordered[j] : j \in left} = {}
    BY DEF NeverStuck
  <2>1. IsInjective(ordered) /\ ordered \in Seq(Key)
    BY <1>1 DEF IInv, TypeOK, Search
  <2>2. DOMAIN ordered = 1..Len(ordered) /\ Len(ordered) \in Nat
    BY <2>1, LenProperties
  <2>3. left \in SUBSET Nat
    BY <2>2
  <2>4. PICK k \in left : \A m \in left : k <= m
    BY <2>3, Least
  <2>5. ASSUME NEW j \in 1..(k - 1), NEW i \in left, ordered[j] = ordered[i] PROVE FALSE
    <3>1. j \in DOMAIN ordered /\ j < k /\ k <= i
      BY <2>2, <2>4
    <3>2. i = j
      BY <2>1, <2>5, <3>1 DEF IsInjective
    <3> QED
      BY <2>3, <3>1, <3>2
  <2>6. FiledUpstreams(k) \cap {ordered[j] : j \in left} = {}
    BY <2>5 DEF FiledUpstreams
  <2> QED
    BY <2>6
<1> QED
  BY <1>1, Invariant, PTL
=============================================================================
