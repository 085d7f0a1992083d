------------------------- MODULE SharedMemoryProofs --------------------------
(***************************************************************************)
(* Theorems about SharedMemory, for every set of runs, every record and    *)
(* any number of distillers that overlap, fail and save old copies.        *)
(*                                                                         *)
(* The ledger first: IngestNewRecords is a recursive function, so that it  *)
(* exists, and what it keeps, is shown with a least counterexample.  Then  *)
(* the types of the stores and of every copy of them; the exactness of     *)
(* every ledger, stored or in hand; and the rounds, of which only one      *)
(* writes until two overlap.                                               *)
(***************************************************************************)
EXTENDS SharedMemory, SequenceTheorems, FiniteSetTheorems, FunctionTheorems,
        WellFoundedInduction, TLAPS

-----------------------------------------------------------------------------
(* The ledger *)

\* A set of numbers has a least one: what the proofs use in place of induction.
LEMMA LeastNumber ==
  ASSUME NEW T \in SUBSET Nat, T # {}
  PROVE  \E k \in T : \A m \in T : k <= m
<1> DEFINE R == OpToRel(<, Nat)
<1>1. IsWellFoundedOn(R, Nat)
  BY NatLessThanWellFounded
<1>2. R = {ss \in Nat \X Nat : ss[1] < ss[2]}
  BY DEF OpToRel
<1> HIDE DEF R
<1>3. PICK k \in T : \A m \in T : <<m, k>> \notin R
  BY <1>1, WFMin
<1>4. ASSUME NEW m \in T PROVE k <= m
  <2>1. ~(m < k)
    BY <1>2, <1>3
  <2> QED
    BY <2>1
<1> QED
  BY <1>4

\* The records in the order of their timestamps: each of them, and no other.
LEMMA ByTimeIs ==
  ASSUME EvalsAssumption, NEW records \in SUBSET Writer
  PROVE  /\ ByTime(records) \in Seq(records)
         /\ Len(ByTime(records)) = Cardinality(records)
         /\ Cardinality(records) \in Nat
         /\ {ByTime(records)[k] : k \in DOMAIN ByTime(records)} = records
<1> DEFINE n == Cardinality(records)
           Before(w) == {v \in records : v < w}
           rank == [w \in records |-> Cardinality(Before(w)) + 1]
<1>1. IsFiniteSet(records) /\ n \in Nat /\ records \subseteq Nat
  BY FS_Subset, FS_CardinalityType DEF EvalsAssumption
<1>2. ASSUME NEW w \in records
      PROVE  IsFiniteSet(Before(w)) /\ rank[w] \in 1..n
  <2>1. IsFiniteSet(Before(w)) /\ Before(w) \subseteq records \ {w}
    BY <1>1, FS_Subset
  <2>2. IsFiniteSet(records \ {w}) /\ Cardinality(records \ {w}) = n - 1
    BY <1>1, FS_RemoveElement
  <2>3. Cardinality(Before(w)) \in Nat /\ Cardinality(Before(w)) <= n - 1
    BY <2>1, <2>2, FS_Subset, FS_CardinalityType
  <2> QED
    BY <1>1, <2>1, <2>3
<1>3. ASSUME NEW v \in records, NEW w \in records, v < w
      PROVE  rank[v] # rank[w]
  <2>1. Before(v) \subseteq Before(w) /\ v \in Before(w) /\ v \notin Before(v)
    <3>1. v \in Nat /\ w \in Nat /\ \A u \in records : u \in Nat
      BY <1>1
    <3>2. ~(v < v) /\ \A u \in records : u < v => u < w
      BY <1>3, <3>1
    <3> QED
      BY <1>3, <3>2
  <2>2. Cardinality(Before(v)) # Cardinality(Before(w))
    BY <1>2, <2>1, FS_Subset
  <2>3. Cardinality(Before(v)) \in Nat /\ Cardinality(Before(w)) \in Nat
    BY <1>2, FS_CardinalityType
  <2> QED
    BY <2>2, <2>3
<1>4. rank \in Injection(records, 1..n)
  <2>1. rank \in [records -> 1..n]
    BY <1>2
  <2>2. ASSUME NEW v \in records, NEW w \in records, v # w PROVE rank[v] # rank[w]
    <3>1. v \in Nat /\ w \in Nat
      BY <1>1
    <3>2. v < w \/ w < v
      BY <2>2, <3>1
    <3> QED
      BY <1>3, <3>2
  <2> HIDE DEF rank
  <2> QED
    BY <2>1, <2>2 DEF Injection, IsInjective
<1>5. rank \in Surjection(records, 1..n)
  <2>1. IsFiniteSet(1..n) /\ Cardinality(1..n) = n
    BY <1>1, FS_Interval
  <2> QED
    BY <1>4, <2>1, FS_Injection
<1>6. \A k \in 1..n : \E w \in records : Cardinality(Before(w)) = k - 1
  <2> SUFFICES ASSUME NEW k \in 1..n PROVE \E w \in records : Cardinality(Before(w)) = k - 1
    OBVIOUS
  <2>1. PICK w \in records : rank[w] = k
    BY <1>5 DEF Surjection
  <2>2. Cardinality(Before(w)) \in Nat
    BY <1>2, FS_CardinalityType
  <2>3. rank[w] = Cardinality(Before(w)) + 1
    OBVIOUS
  <2> QED
    <3>1. k \in Nat /\ Cardinality(Before(w)) + 1 = k
      BY <1>1, <2>1, <2>3
    <3>2. Cardinality(Before(w)) = k - 1
      BY <2>2, <3>1
    <3> QED
      BY <3>2
<1> DEFINE s == ByTime(records)
<1>7. s = [k \in 1..n |-> CHOOSE w \in records : Cardinality(Before(w)) = k - 1]
  BY DEF ByTime
<1>8. ASSUME NEW k \in 1..n
      PROVE  s[k] \in records /\ Cardinality(Before(s[k])) = k - 1
  <2> DEFINE P(w) == Cardinality(Before(w)) = k - 1
  <2>1. \E w \in records : P(w)
    BY <1>6
  <2>2. s[k] = CHOOSE w \in records : P(w)
    BY <1>7
  <2> HIDE DEF P, s
  <2>3. s[k] \in records /\ P(s[k])
    BY <2>1, <2>2
  <2> QED
    BY <2>3 DEF P
<1>9. s \in Seq(records) /\ Len(s) = n /\ DOMAIN s = 1..n
  <2>1. DOMAIN s = 1..n /\ s \in [1..n -> records]
    BY <1>7, <1>8
  <2> HIDE DEF s
  <2> QED
    BY <1>1, <2>1, LenProperties
<1>10. ASSUME NEW w \in records PROVE \E k \in 1..n : s[k] = w
  <2> DEFINE k == rank[w]
  <2>1. k \in 1..n
    BY <1>2
  <2>2. Cardinality(Before(s[k])) = k - 1 /\ s[k] \in records
    BY <1>8, <2>1
  <2>3. Cardinality(Before(w)) \in Nat /\ k = Cardinality(Before(w)) + 1
    BY <1>2, FS_CardinalityType
  <2>4. rank[s[k]] = rank[w]
    BY <2>2, <2>3
  <2>5. s[k] = w
    BY <1>4, <2>2, <2>4 DEF Injection, IsInjective
  <2> QED
    BY <2>1, <2>5
<1> HIDE DEF s, n
<1>11. {s[k] : k \in DOMAIN s} = records
  BY <1>8, <1>9, <1>10
<1> QED
  BY <1>1, <1>9, <1>11 DEF s, n

\* The ledgers from one record of the batch to the next.
IsWay(after, state, batch, n) ==
  after = [k \in 0..n |-> IF k = 0 THEN state ELSE IngestOne(after[k - 1], batch[k])]

\* They exist.
LEMMA WayExists ==
  ASSUME NEW state, NEW batch, NEW n \in Nat
  PROVE  \E after : IsWay(after, state, batch, n)
<1> DEFINE Way(after, m) == IsWay(after, state, batch, m)
           Missing == {m \in Nat : \A after : ~Way(after, m)}
<1>1. SUFFICES Missing = {}
  OBVIOUS
<1>2. SUFFICES ASSUME Missing # {} PROVE FALSE
  OBVIOUS
<1>3. PICK m \in Missing : \A j \in Missing : m <= j
  <2>1. Missing \in SUBSET Nat
    OBVIOUS
  <2> HIDE DEF Missing
  <2> QED
    BY <1>2, <2>1, LeastNumber
<1>4. m \in Nat /\ \A after : ~Way(after, m)
  OBVIOUS
<1> USE DEF IsWay
<1>5. CASE m = 0
  <2> DEFINE g == [k \in 0..0 |-> state]
  <2>1. Way(g, 0)
    OBVIOUS
  <2> QED
    BY <1>4, <1>5, <2>1
<1>6. CASE m # 0
  <2>1. m - 1 \in Nat /\ m - 1 \notin Missing
    BY <1>3, <1>4, <1>6
  <2>2. PICK g : Way(g, m - 1)
    BY <2>1
  <2> DEFINE h == [k \in 0..m |-> IF k = m THEN IngestOne(g[m - 1], batch[m]) ELSE g[k]]
  <2>3. ASSUME NEW k \in 0..m
        PROVE  h[k] = IF k = 0 THEN state ELSE IngestOne(h[k - 1], batch[k])
    <3>1. CASE k = 0
      BY <1>4, <1>6, <2>2, <3>1
    <3>2. CASE k = m
      <4>1. h[k - 1] = g[m - 1]
        BY <1>4, <2>1, <3>2
      <4> QED
        BY <1>6, <3>2, <4>1
    <3>3. CASE k # 0 /\ k # m
      <4>1. k \in 0..(m - 1) /\ k - 1 \in 0..m /\ k - 1 # m
        BY <1>4, <3>3
      <4>2. h[k] = g[k] /\ h[k - 1] = g[k - 1]
        BY <3>3, <4>1
      <4>3. g[k] = IngestOne(g[k - 1], batch[k])
        BY <2>2, <3>3, <4>1
      <4> QED
        BY <3>3, <4>2, <4>3
    <3> QED
      BY <3>1, <3>2, <3>3
  <2>4. DOMAIN h = 0..m /\ h = [k \in 0..m |-> h[k]]
    OBVIOUS
  <2> HIDE DEF h
  <2>5. Way(h, m)
    BY <2>3, <2>4
  <2> QED
    BY <1>4, <2>5
<1> QED
  BY <1>5, <1>6

\* ingest_new_records enters one record of the batch after the other.
LEMMA IngestIs ==
  ASSUME EvalsAssumption, NEW state, NEW records \in SUBSET Writer
  PROVE  \E after :
            /\ after[0] = state
            /\ \A k \in 1..Len(ByTime(records)) :
                  after[k] = IngestOne(after[k - 1], ByTime(records)[k])
            /\ IngestNewRecords(state, records) = after[Len(ByTime(records))]
<1> DEFINE batch == ByTime(records)
           n == Len(batch)
           after == CHOOSE f : IsWay(f, state, batch, n)
<1>1. n \in Nat
  BY ByTimeIs
<1>2. IsWay(after, state, batch, n)
  BY <1>1, WayExists
<1>3. IngestNewRecords(state, records) = after[n]
  BY DEF IngestNewRecords, IsWay
<1> HIDE DEF after, n, batch
<1>4. after[0] = state
  BY <1>1, <1>2 DEF IsWay
<1>5. ASSUME NEW k \in 1..n PROVE after[k] = IngestOne(after[k - 1], batch[k])
  BY <1>1, <1>2 DEF IsWay
<1> QED
  BY <1>3, <1>4, <1>5 DEF n, batch

\* Entering one record makes a ledger of a ledger, with that record entered.
LEMMA IngestOneTyped ==
  ASSUME EvalsAssumption, NEW l, IsLedger(l), NEW id \in Work
  PROVE  /\ IsLedger(IngestOne(l, id))
         /\ Entered(IngestOne(l, id)) = Entered(l) \cup {id}
<1> DEFINE t == RecordOf[id].target
           m == IngestOne(l, id)
<1>1. CASE id \in Entered(l)
  <2>1. m = l
    BY <1>1 DEF IngestOne
  <2> QED
    BY <1>1, <2>1
<1>2. CASE id \notin Entered(l)
  <2> DEFINE updated == Updated(EntryOf(l.targets, t), id)
             extended == [u \in DOMAIN l.targets \cup {t} |->
                            IF u = t THEN updated ELSE l.targets[u]]
  <2>1. m = [ids |-> Append(l.ids, id),
             targets |-> IF t = NoTarget THEN l.targets ELSE extended]
    BY <1>2 DEF IngestOne
  <2>2. l.ids \in Seq(Work) /\ l.targets \in [DOMAIN l.targets -> Entry]
        /\ DOMAIN l.targets \subseteq Targets
    BY DEF IsLedger
  <2>3. Append(l.ids, id) \in Seq(Work)
    BY <2>2
  <2>4. Entered(m) = Entered(l) \cup {id}
    <3>1. DOMAIN Append(l.ids, id) = 1..Len(l.ids) + 1 /\ DOMAIN l.ids = 1..Len(l.ids)
          /\ Len(l.ids) \in Nat
      BY <2>2, AppendProperties, LenProperties
    <3>2. \A k \in 1..Len(l.ids) : Append(l.ids, id)[k] = l.ids[k]
      BY <2>2, AppendProperties
    <3>3. Append(l.ids, id)[Len(l.ids) + 1] = id
      BY <2>2, AppendProperties
    <3> DEFINE a == Append(l.ids, id)
    <3>4. Entered(m) = {a[k] : k \in DOMAIN a} /\ Entered(l) = {l.ids[k] : k \in DOMAIN l.ids}
      BY <2>1 DEF Entered
    <3> HIDE DEF a, m
    <3> DEFINE n == Len(l.ids)
    <3>5. 1..n + 1 = 1..n \cup {n + 1}
      BY <3>1
    <3>6. DOMAIN a = 1..n \cup {n + 1}
      BY <3>1, <3>5 DEF a
    <3>7. \A k \in 1..n : a[k] = l.ids[k]
      BY <3>2 DEF a
    <3>8. a[n + 1] = id
      BY <3>3 DEF a
    <3> HIDE DEF n
    <3> QED
      BY <3>1, <3>4, <3>6, <3>7, <3>8 DEF n
  <2>5. EntryOf(l.targets, t).ingest_count \in Nat /\ EntryOf(l.targets, t).has_pr \in BOOLEAN
    BY <2>2 DEF EntryOf, NewEntry, Entry
  <2>6. updated \in Entry
    <3>1. RecordOf[id].has_pr \in BOOLEAN
      BY DEF EvalsAssumption, Work
    <3> QED
      BY <2>5, <3>1 DEF Updated, Entry
  <2> HIDE DEF updated
  <2>7. t # NoTarget => /\ DOMAIN extended \subseteq Targets
                        /\ extended \in [DOMAIN extended -> Entry]
    <3>1. t # NoTarget => t \in Targets
      BY DEF Targets
    <3> QED
      BY <2>2, <2>6, <3>1
  <2> HIDE DEF extended, m
  <2>8. IsLedger(m)
    <3>1. /\ m.ids = Append(l.ids, id)
          /\ m.targets = IF t = NoTarget THEN l.targets ELSE extended
          /\ m = [ids |-> m.ids, targets |-> m.targets]
      BY <2>1
    <3>2. DOMAIN m.targets \subseteq Targets /\ m.targets \in [DOMAIN m.targets -> Entry]
      BY <2>2, <2>7, <3>1
    <3> QED
      BY <2>3, <3>1, <3>2 DEF IsLedger
  <2> QED
    BY <2>4, <2>8 DEF m
<1> QED
  BY <1>1, <1>2

\* An exact ledger stays exact.
LEMMA IngestOneExact ==
  ASSUME EvalsAssumption, NEW l, IsLedger(l), IsExact(l), NEW id \in Work
  PROVE  IsExact(IngestOne(l, id))
<1> DEFINE t == RecordOf[id].target
           m == IngestOne(l, id)
           Of(k, u) == {w \in Entered(k) : RecordOf[w].target = u}
<1>1. CASE id \in Entered(l)
  BY <1>1 DEF IngestOne
<1>2. CASE id \notin Entered(l)
  <2>1. Entered(m) = Entered(l) \cup {id}
    BY IngestOneTyped
  <2>2. m.ids = Append(l.ids, id)
    BY <1>2 DEF IngestOne
  <2>3. m.targets = IF t = NoTarget THEN l.targets
                    ELSE [u \in DOMAIN l.targets \cup {t} |->
                            IF u = t THEN Updated(EntryOf(l.targets, t), id) ELSE l.targets[u]]
    BY <1>2 DEF IngestOne
  <2>4. /\ Cardinality(Entered(l)) = Len(l.ids)
        /\ DOMAIN l.targets = {RecordOf[w].target : w \in Entered(l)} \ {NoTarget}
        /\ \A u \in DOMAIN l.targets :
             /\ l.targets[u].ingest_count = Cardinality(Of(l, u))
             /\ l.targets[u].last \in Of(l, u)
             /\ l.targets[u].has_pr <=> \E w \in Of(l, u) : RecordOf[w].has_pr
    BY DEF IsExact
  <2>5. /\ l.ids \in Seq(Work) /\ Entered(l) \subseteq Work
        /\ l.targets \in [DOMAIN l.targets -> Entry]
    BY DEF IsLedger, Entered
  <2>6. IsFiniteSet(Entered(l)) /\ \A u : IsFiniteSet(Of(l, u))
    <3>1. Entered(l) \subseteq Writer /\ \A u : Of(l, u) \subseteq Writer
      BY <2>5 DEF Work
    <3> QED
      BY <3>1, FS_Subset DEF EvalsAssumption
  <2> HIDE DEF m
  <2>7. Cardinality(Entered(m)) = Len(m.ids)
    <3>1. Cardinality(Entered(m)) = Cardinality(Entered(l)) + 1
      BY <1>2, <2>1, <2>6, FS_AddElement
    <3>2. Len(m.ids) = Len(l.ids) + 1
      BY <2>2, <2>5, AppendProperties
    <3> QED
      BY <2>4, <3>1, <3>2
  <2>8. DOMAIN m.targets = {RecordOf[w].target : w \in Entered(m)} \ {NoTarget}
    <3>1. {RecordOf[w].target : w \in Entered(m)} = {RecordOf[w].target : w \in Entered(l)} \cup {t}
      BY <2>1
    <3>2. DOMAIN m.targets = IF t = NoTarget THEN DOMAIN l.targets ELSE DOMAIN l.targets \cup {t}
      BY <2>3
    <3>3. DOMAIN l.targets = {RecordOf[w].target : w \in Entered(l)} \ {NoTarget}
      BY <2>4
    <3> QED
      BY <3>1, <3>2, <3>3
  <2>9. ASSUME NEW u \in DOMAIN m.targets
        PROVE  /\ m.targets[u].ingest_count = Cardinality(Of(m, u))
               /\ m.targets[u].last \in Of(m, u)
               /\ m.targets[u].has_pr <=> \E w \in Of(m, u) : RecordOf[w].has_pr
    <3>1. CASE u # t
      <4>1. u \in DOMAIN l.targets /\ m.targets[u] = l.targets[u]
        BY <2>3, <2>9, <3>1
      <4>2. Of(m, u) = Of(l, u)
        BY <2>1, <3>1
      <4> HIDE DEF Of
      <4> QED
        BY <2>4, <4>1, <4>2
    <3>2. CASE u = t
      <4>0. t # NoTarget
        BY <2>8, <3>2
      <4>1. Of(m, u) = Of(l, u) \cup {id} /\ id \notin Of(l, u)
        BY <1>2, <2>1, <3>2
      <4>2. Cardinality(Of(m, u)) = Cardinality(Of(l, u)) + 1
        <5> HIDE DEF Of
        <5>1. IsFiniteSet(Of(l, u))
          BY <2>6
        <5> QED
          BY <4>1, <5>1, FS_AddElement
      <4> DEFINE e == EntryOf(l.targets, t)
      <4>3. m.targets[u] = [ingest_count |-> e.ingest_count + 1, last |-> id,
                            has_pr |-> e.has_pr \/ RecordOf[id].has_pr]
        BY <2>3, <3>2, <4>0 DEF Updated
      <4>4. /\ e.ingest_count = Cardinality(Of(l, u))
            /\ e.has_pr <=> \E w \in Of(l, u) : RecordOf[w].has_pr
        <5>1. CASE t \in DOMAIN l.targets
          <6>1. e = l.targets[u]
            BY <3>2, <5>1 DEF EntryOf
          <6> HIDE DEF Of, e
          <6> QED
            BY <2>4, <3>2, <5>1, <6>1
        <5>2. CASE t \notin DOMAIN l.targets
          <6>1. e = NewEntry
            BY <5>2 DEF EntryOf
          <6>2. Of(l, u) = {}
            BY <2>4, <3>2, <4>0, <5>2
          <6>3. Cardinality(Of(l, u)) = 0
            BY <6>2, FS_EmptySet
          <6> QED
            BY <6>1, <6>2, <6>3 DEF NewEntry
        <5> QED
          BY <5>1, <5>2
      <4>5. m.targets[u].ingest_count = e.ingest_count + 1 /\ m.targets[u].last = id
            /\ m.targets[u].has_pr = (e.has_pr \/ RecordOf[id].has_pr)
        BY <4>3
      <4> HIDE DEF Of, e
      <4> QED
        BY <4>1, <4>2, <4>4, <4>5
    <3> QED
      BY <3>1, <3>2
  <2>10. IsExact(m)
    BY <2>7, <2>8, <2>9 DEF IsExact
  <2> QED
    BY <2>10 DEF m
<1> QED
  BY <1>1, <1>2

\* So does entering a batch, record by record.
LEMMA Ingested ==
  ASSUME EvalsAssumption, NEW l, IsLedger(l), NEW records \in SUBSET Work
  PROVE  /\ IsLedger(IngestNewRecords(l, records))
         /\ Entered(IngestNewRecords(l, records)) = Entered(l) \cup records
         /\ IsExact(l) => IsExact(IngestNewRecords(l, records))
<1> DEFINE batch == ByTime(records)
           n == Len(batch)
<1>1. /\ records \in SUBSET Writer /\ batch \in Seq(records) /\ n \in Nat
      /\ {batch[k] : k \in DOMAIN batch} = records
  BY ByTimeIs DEF Work
<1>2. DOMAIN batch = 1..n /\ \A k \in 1..n : batch[k] \in Work
  BY <1>1, LenProperties, ElementOfSeq
<1>3. PICK after :
         /\ after[0] = l
         /\ \A k \in 1..n : after[k] = IngestOne(after[k - 1], batch[k])
         /\ IngestNewRecords(l, records) = after[n]
  BY <1>1, IngestIs
<1> HIDE DEF n, batch
<1> DEFINE Fits(k) == /\ IsLedger(after[k])
                      /\ Entered(after[k]) = Entered(l) \cup {batch[j] : j \in 1..k}
                      /\ IsExact(l) => IsExact(after[k])
           Bad == {k \in 0..n : ~Fits(k)}
<1>4. Bad = {}
  <2> SUFFICES ASSUME Bad # {} PROVE FALSE
    OBVIOUS
  <2>1. PICK k \in Bad : \A j \in Bad : k <= j
    <3>1. Bad \in SUBSET Nat
      BY <1>1
    <3> HIDE DEF Bad
    <3> QED
      BY <3>1, LeastNumber
  <2>2. k \in 0..n /\ ~Fits(k)
    OBVIOUS
  <2>3. CASE k = 0
    <3>1. {batch[j] : j \in 1..0} = {}
      OBVIOUS
    <3> QED
      BY <1>3, <2>2, <2>3, <3>1
  <2>4. CASE k # 0
    <3>1. k \in 1..n /\ k - 1 \in 0..n /\ k - 1 < k /\ k \in Nat
      BY <1>1, <2>2, <2>4
    <3>2. k - 1 \notin Bad
      BY <2>1, <3>1
    <3>3. Fits(k - 1)
      BY <3>1, <3>2
    <3>4. after[k] = IngestOne(after[k - 1], batch[k]) /\ batch[k] \in Work
      BY <1>2, <1>3, <3>1
    <3>5. IsLedger(after[k]) /\ Entered(after[k]) = Entered(after[k - 1]) \cup {batch[k]}
      BY <3>3, <3>4, IngestOneTyped
    <3>6. IsExact(l) => IsExact(after[k])
      BY <3>3, <3>4, IngestOneExact
    <3>7. {batch[j] : j \in 1..k} = {batch[j] : j \in 1..(k - 1)} \cup {batch[k]}
      <4>1. 1..k = 1..(k - 1) \cup {k}
        BY <3>1
      <4> QED
        BY <4>1
    <3>8. Fits(k)
      BY <3>3, <3>5, <3>6, <3>7
    <3> QED
      BY <2>2, <3>8
  <2> QED
    BY <2>3, <2>4
<1>5. Fits(n)
  <2>1. n \in 0..n
    BY <1>1
  <2> HIDE DEF Fits
  <2> QED
    BY <1>4, <2>1
<1>6. {batch[j] : j \in 1..n} = records
  BY <1>1, <1>2
<1> QED
  BY <1>3, <1>5, <1>6

\* The empty ledger is exact.
LEMMA EmptyIs ==
  /\ IsLedger(EmptyLedger) /\ IsExact(EmptyLedger) /\ Entered(EmptyLedger) = {}
  /\ IsContext(Empty) /\ Empty.ledger = EmptyLedger /\ Empty.lessons = {} /\ Empty.digest = {}
<1>1. EmptyLedger.ids = <<>> /\ EmptyLedger.targets = [t \in {} |-> NewEntry]
      /\ EmptyLedger = [ids |-> EmptyLedger.ids, targets |-> EmptyLedger.targets]
  BY DEF EmptyLedger
<1>2. DOMAIN EmptyLedger.targets = {} /\ EmptyLedger.targets \in [{} -> Entry]
  BY <1>1
<1>3. Entered(EmptyLedger) = {}
  BY <1>1 DEF Entered
<1>4. IsLedger(EmptyLedger)
  BY <1>1, <1>2 DEF IsLedger
<1>5. IsExact(EmptyLedger)
  <2>1. Cardinality({}) = 0 /\ Len(EmptyLedger.ids) = 0
    BY <1>1, FS_EmptySet
  <2> QED
    BY <1>2, <1>3, <2>1 DEF IsExact
<1>6. /\ IsContext(Empty) /\ Empty.ledger = EmptyLedger
      /\ Empty.lessons = {} /\ Empty.digest = {}
  BY <1>4 DEF IsContext, Empty
<1> QED
  BY <1>3, <1>4, <1>5, <1>6

-----------------------------------------------------------------------------
(* Types *)

\* A step of d leaves the other distillers alone.
Moved(d) ==
  /\ distiller' = [e \in Distiller |-> distiller'[e]]
  /\ \A e \in Distiller \ {d} : distiller'[e] = distiller[e]

\* Its own local variables become m.
Becomes(d, m) == Moved(d) /\ distiller'[d] = m

\* What the steps of a distiller make of its local variables.
LEMMA Turns ==
  ASSUME TypeOK, NEW d \in Distiller
  PROVE  /\ Load(d) =>
              Becomes(d, [distiller[d] EXCEPT !.pc = "prune",
                                              !.loaded = {w \in runs : ~DidNoWork(w)},
                                              !.shells = {w \in runs : DidNoWork(w)}])
         /\ Prune(d) \/ PruneFails(d) =>
              \E w \in distiller[d].shells :
                 Becomes(d, [distiller[d] EXCEPT !.shells = distiller[d].shells \ {w}])
         /\ Pruned(d) => Becomes(d, [distiller[d] EXCEPT !.pc = "ingest"])
         /\ Ingest(d) =>
              \/ New(d) = {} /\ Becomes(d, Asleep)
              \/ /\ New(d) # {}
                 /\ Becomes(d, [distiller[d] EXCEPT
                       !.pc = "open ledger", !.loaded = {}, !.new = New(d),
                       !.state = IngestNewRecords(context.ledger, New(d))])
         /\ OpenLedger(d) =>
              Becomes(d, [distiller[d] EXCEPT !.pc = "save ledger", !.copy = context])
         /\ OpenLessons(d) =>
              Becomes(d, [distiller[d] EXCEPT !.pc = "save lessons", !.copy = context])
         /\ OpenDigest(d) =>
              Becomes(d, [distiller[d] EXCEPT !.pc = "save digest", !.copy = context])
         /\ Save(d) =>
              \/ /\ distiller[d].pc = "save ledger"
                 /\ Becomes(d, [distiller[d] EXCEPT !.pc = "distill", !.copy = Empty,
                                                    !.state = EmptyLedger])
              \/ /\ distiller[d].pc = "save lessons"
                 /\ Becomes(d, [distiller[d] EXCEPT !.pc = "open digest", !.copy = Empty])
              \/ distiller[d].pc = "save digest" /\ Becomes(d, Asleep)
         /\ Distill(d) =>
              Becomes(d, [distiller[d] EXCEPT !.pc = "open lessons", !.lessons = Folded(d)])
         /\ DistillsNothing(d) =>
              Becomes(d, [distiller[d] EXCEPT !.pc = "open lessons",
                                              !.lessons = context.lessons])
         /\ Fails(d) \/ FailsAfterSave(d) => Becomes(d, Asleep)
<1> DEFINE l == distiller[d]
           m == distiller'[d]
<1>1. distiller = [e \in Distiller |-> distiller[e]]
  BY DEF TypeOK
<1> USE <1>1
<1>2. ASSUME Load(d) PROVE Moved(d) /\ m = [l EXCEPT !.pc = "prune",
                               !.loaded = {w \in runs : ~DidNoWork(w)},
                               !.shells = {w \in runs : DidNoWork(w)}]
  BY <1>2 DEF Load, Moved
<1>3. ASSUME Prune(d) \/ PruneFails(d)
      PROVE  Moved(d) /\ \E w \in l.shells : m = [l EXCEPT !.shells = l.shells \ {w}]
  <2>1. PICK w \in l.shells : distiller' = [distiller EXCEPT ![d].shells = @ \ {w}]
    BY <1>3 DEF Prune, PruneFails
  <2> QED
    BY <2>1 DEF Moved
<1>4. ASSUME Pruned(d) PROVE Moved(d) /\ m = [l EXCEPT !.pc = "ingest"]
  BY <1>4 DEF Pruned, Moved
<1>5. ASSUME Ingest(d)
      PROVE  /\ Moved(d)
             /\ \/ New(d) = {} /\ m = Asleep
                \/ /\ New(d) # {}
                   /\ m = [l EXCEPT !.pc = "open ledger", !.loaded = {}, !.new = New(d),
                                    !.state = IngestNewRecords(context.ledger, New(d))]
  <2> DEFINE n == [l EXCEPT !.pc = "open ledger", !.loaded = {}, !.new = New(d),
                            !.state = IngestNewRecords(context.ledger, New(d))]
  <2>1. distiller' = [distiller EXCEPT ![d] = IF New(d) = {} THEN Asleep ELSE n]
    BY <1>5 DEF Ingest
  <2> HIDE DEF n
  <2>2. Moved(d) /\ m = IF New(d) = {} THEN Asleep ELSE n
    BY <2>1 DEF Moved
  <2> QED
    BY <2>2 DEF n
<1>6. ASSUME OpenLedger(d)
      PROVE  Moved(d) /\ m = [l EXCEPT !.pc = "save ledger", !.copy = context]
  BY <1>6 DEF OpenLedger, Open, Moved
<1>7. ASSUME OpenLessons(d)
      PROVE  Moved(d) /\ m = [l EXCEPT !.pc = "save lessons", !.copy = context]
  BY <1>7 DEF OpenLessons, Open, Moved
<1>8. ASSUME OpenDigest(d)
      PROVE  Moved(d) /\ m = [l EXCEPT !.pc = "save digest", !.copy = context]
  BY <1>8 DEF OpenDigest, Open, Moved
<1>9. ASSUME Save(d)
      PROVE  /\ Moved(d)
             /\ \/ l.pc = "save ledger" /\ m = [l EXCEPT !.pc = "distill", !.copy = Empty,
                                                         !.state = EmptyLedger]
                \/ l.pc = "save lessons" /\ m = [l EXCEPT !.pc = "open digest", !.copy = Empty]
                \/ l.pc = "save digest" /\ m = Asleep
  <2>1. CASE l.pc = "save ledger"
    <3>1. distiller' = [distiller EXCEPT ![d] = [@ EXCEPT !.pc = "distill", !.copy = Empty,
                                                          !.state = EmptyLedger]]
      BY <1>9, <2>1 DEF Save, At
    <3> QED
      BY <2>1, <3>1 DEF Moved
  <2>2. CASE l.pc = "save lessons"
    <3>1. distiller' = [distiller EXCEPT ![d] = [@ EXCEPT !.pc = "open digest", !.copy = Empty]]
      BY <1>9, <2>2 DEF Save, At
    <3> QED
      BY <2>2, <3>1 DEF Moved
  <2>3. CASE l.pc = "save digest"
    <3>1. distiller' = [distiller EXCEPT ![d] = Asleep]
      BY <1>9, <2>3 DEF Save, At
    <3> QED
      BY <2>3, <3>1 DEF Moved
  <2> QED
    BY <1>9, <2>1, <2>2, <2>3 DEF Save, Saving
<1>10. ASSUME Distill(d)
       PROVE  Moved(d) /\ m = [l EXCEPT !.pc = "open lessons", !.lessons = Folded(d)]
  BY <1>10 DEF Distill, Moved
<1>11. ASSUME DistillsNothing(d)
       PROVE  Moved(d) /\ m = [l EXCEPT !.pc = "open lessons", !.lessons = context.lessons]
  BY <1>11 DEF DistillsNothing, Moved
<1>12. ASSUME Fails(d) \/ FailsAfterSave(d) PROVE Moved(d) /\ m = Asleep
  BY <1>12 DEF Fails, FailsAfterSave, Moved
<1> QED
  BY <1>2, <1>3, <1>4, <1>5, <1>6, <1>7, <1>8, <1>9, <1>10, <1>11, <1>12 DEF Becomes

\* The context with one of its files rewritten is a context.
LEMMA ChangedIs ==
  ASSUME TypeOK, NEW d \in Distiller, Saving(d), NEW l, l = distiller[d]
  PROVE  /\ IsContext(Changed(d))
         /\ l.pc = "save ledger" =>
              /\ Changed(d).ledger = l.state /\ Changed(d).lessons = l.copy.lessons
              /\ Changed(d).digest = l.copy.digest
         /\ l.pc = "save lessons" =>
              /\ Changed(d).ledger = l.copy.ledger /\ Changed(d).lessons = l.lessons
              /\ Changed(d).digest = l.copy.digest
         /\ l.pc = "save digest" =>
              /\ Changed(d).ledger = l.copy.ledger /\ Changed(d).lessons = l.copy.lessons
              /\ Changed(d).digest = l.lessons
<1> DEFINE c == l.copy
<1> DEFINE n == Changed(d)
<1>1. /\ IsContext(c) /\ IsLedger(l.state) /\ l.lessons \subseteq Work
      /\ l.pc \in {"save ledger", "save lessons", "save digest"}
  BY DEF TypeOK, IsLocal, Saving
<1>2. /\ c = [ledger |-> c.ledger, lessons |-> c.lessons, digest |-> c.digest]
      /\ IsLedger(c.ledger) /\ c.lessons \subseteq Work /\ c.digest \subseteq Work
  BY <1>1 DEF IsContext
<1> HIDE DEF c
<1>3. CASE l.pc = "save ledger"
  <2>1. Changed(d) = [c EXCEPT !.ledger = l.state]
    BY <1>3 DEF Changed, c
  <2>2. Changed(d) = [ledger |-> l.state, lessons |-> c.lessons, digest |-> c.digest]
    BY <1>2, <2>1
  <2>3. n = [ledger |-> n.ledger, lessons |-> n.lessons, digest |-> n.digest]
    BY <2>2
  <2>4. n.ledger = l.state /\ n.lessons = c.lessons /\ n.digest = c.digest
    BY <2>2
  <2> HIDE DEF n
  <2>5. IsContext(n)
    BY <1>1, <1>2, <2>3, <2>4 DEF IsContext
  <2> QED
    BY <1>3, <2>4, <2>5 DEF c, n
<1>4. CASE l.pc = "save lessons"
  <2>1. Changed(d) = [c EXCEPT !.lessons = l.lessons]
    BY <1>4 DEF Changed, c
  <2>2. Changed(d) = [ledger |-> c.ledger, lessons |-> l.lessons, digest |-> c.digest]
    BY <1>2, <2>1
  <2>3. n = [ledger |-> n.ledger, lessons |-> n.lessons, digest |-> n.digest]
    BY <2>2
  <2>4. n.ledger = c.ledger /\ n.lessons = l.lessons /\ n.digest = c.digest
    BY <2>2
  <2> HIDE DEF n
  <2>5. IsContext(n)
    BY <1>1, <1>2, <2>3, <2>4 DEF IsContext
  <2> QED
    BY <1>4, <2>4, <2>5 DEF c, n
<1>5. CASE l.pc = "save digest"
  <2>1. Changed(d) = [c EXCEPT !.digest = l.lessons]
    BY <1>5 DEF Changed, c
  <2>2. Changed(d) = [ledger |-> c.ledger, lessons |-> c.lessons, digest |-> l.lessons]
    BY <1>2, <2>1
  <2>3. n = [ledger |-> n.ledger, lessons |-> n.lessons, digest |-> n.digest]
    BY <2>2
  <2>4. n.ledger = c.ledger /\ n.lessons = c.lessons /\ n.digest = l.lessons
    BY <2>2
  <2> HIDE DEF n
  <2>5. IsContext(n)
    BY <1>1, <1>2, <2>3, <2>4 DEF IsContext
  <2> QED
    BY <1>5, <2>4, <2>5 DEF c, n
<1> QED
  BY <1>1, <1>3, <1>4, <1>5

\* What a distiller takes for new is work that the ledger does not know.
LEMMA NewIs ==
  ASSUME TypeOK, NEW d \in Distiller
  PROVE  /\ New(d) \subseteq Work
         /\ New(d) \cap Entered(context.ledger) = {}
<1>1. distiller[d].loaded \subseteq Work
  BY DEF TypeOK, IsLocal
<1> QED
  BY <1>1 DEF New, SelectNewRecords

\* The steps of a run, and a distiller's step on the stores.
LEMMA OnStores ==
  ASSUME TypeOK, [Next]_vars
  PROVE  \/ /\ UNCHANGED <<context, distiller, dropped, overlapped>>
            /\ failures' = failures
            /\ \/ UNCHANGED <<runs, writer>>
               \/ \E w \in Writer : WriterStep(w) \/ Dies(w)
         \/ \E d \in Distiller :
              /\ DistillerStep(d) \/ Failure(d)
              /\ writer' = writer
              /\ runs' = runs \/ \E w \in distiller[d].shells : runs' = runs \ {w}
              /\ context' = context \/ (Saving(d) /\ context' = Changed(d))
              /\ \/ dropped' = dropped
                 \/ dropped' = dropped \cup distiller[d].new
                 \/ dropped' = dropped \cup (distiller[d].new \ Shown(distiller[d].new))
              /\ failures' = failures \/ (failures < MaxFailures /\ failures' = failures + 1)
<1>1. CASE UNCHANGED vars
  BY <1>1 DEF vars
<1>2. ASSUME NEW w \in Writer, WriterStep(w) \/ Dies(w)
      PROVE  /\ UNCHANGED <<context, distiller, dropped, overlapped>>
             /\ failures' = failures
  BY <1>2 DEF WriterStep, Opens, Saves, Dies
<1>3. ASSUME NEW d \in Distiller, DistillerStep(d) \/ Failure(d)
      PROVE  /\ writer' = writer
             /\ runs' = runs \/ \E w \in distiller[d].shells : runs' = runs \ {w}
             /\ context' = context \/ (Saving(d) /\ context' = Changed(d))
             /\ \/ dropped' = dropped
                \/ dropped' = dropped \cup distiller[d].new
                \/ dropped' = dropped \cup (distiller[d].new \ Shown(distiller[d].new))
             /\ failures' = failures \/ (failures < MaxFailures /\ failures' = failures + 1)
  <2>1. CASE Load(d)
    BY <2>1 DEF Load
  <2>2. CASE Prune(d)
    BY <2>2 DEF Prune
  <2>3. CASE Pruned(d)
    BY <2>3 DEF Pruned
  <2>4. CASE Ingest(d)
    BY <2>4 DEF Ingest
  <2>5. CASE OpenLedger(d) \/ OpenLessons(d) \/ OpenDigest(d)
    BY <2>5 DEF OpenLedger, OpenLessons, OpenDigest, Open
  <2>6. CASE Save(d)
    BY <2>6 DEF Save
  <2>7. CASE Distill(d)
    BY <2>7 DEF Distill
  <2>8. CASE PruneFails(d)
    BY <2>8 DEF PruneFails
  <2>9. CASE DistillsNothing(d)
    BY <2>9 DEF DistillsNothing
  <2>10. CASE Fails(d)
    BY <2>10 DEF Fails
  <2>11. CASE FailsAfterSave(d)
    BY <2>11 DEF FailsAfterSave
  <2> QED
    BY <1>3, <2>1, <2>2, <2>3, <2>4, <2>5, <2>6, <2>7, <2>8, <2>9, <2>10, <2>11
       DEF DistillerStep, Failure
<1> QED
  BY <1>1, <1>2, <1>3 DEF Next

\* The local variables of a distiller keep their types.
LEMMA LocalStep ==
  ASSUME MemoryAssumption, EvalsAssumption, TypeOK, NEW d \in Distiller,
         DistillerStep(d) \/ Failure(d)
  PROVE  Moved(d) /\ IsLocal(distiller'[d])
<1> DEFINE l == distiller[d]
           m == distiller'[d]
<1>1. /\ l = [pc |-> l.pc, loaded |-> l.loaded, shells |-> l.shells, state |-> l.state,
              new |-> l.new, lessons |-> l.lessons, copy |-> l.copy]
      /\ l.pc \in DistillerPhases
      /\ l.loaded \subseteq Work /\ l.shells \subseteq Shells
      /\ l.new \subseteq Work /\ l.lessons \subseteq Work
      /\ IsLedger(l.state) /\ IsContext(l.copy)
  BY DEF TypeOK, IsLocal
<1>2. /\ runs \subseteq Writer /\ IsContext(context) /\ IsLedger(context.ledger)
      /\ context.lessons \subseteq Work
  BY DEF TypeOK, IsContext
<1>3. IsLocal(Asleep)
  BY EmptyIs DEF IsLocal, Asleep, DistillerPhases
<1>4. CASE Load(d)
  <2>1. Moved(d) /\ m = [l EXCEPT !.pc = "prune",
                               !.loaded = {w \in runs : ~DidNoWork(w)},
                               !.shells = {w \in runs : DidNoWork(w)}]
    BY <1>4, Turns DEF Becomes
  <2>2. /\ {w \in runs : ~DidNoWork(w)} \subseteq Work
        /\ {w \in runs : DidNoWork(w)} \subseteq Shells
    BY <1>2 DEF Work, Shells
  <2> HIDE DEF l, m
  <2> QED
    BY <1>1, <2>1, <2>2 DEF IsLocal, DistillerPhases, m
<1>5. CASE Prune(d) \/ PruneFails(d)
  <2>1. Moved(d) /\ \E w \in l.shells : m = [l EXCEPT !.shells = l.shells \ {w}]
    BY <1>5, Turns DEF Becomes
  <2> HIDE DEF l, m
  <2> QED
    BY <1>1, <2>1 DEF IsLocal, DistillerPhases, m
<1>6. CASE Pruned(d)
  <2>1. Moved(d) /\ m = [l EXCEPT !.pc = "ingest"]
    BY <1>6, Turns DEF Becomes
  <2> HIDE DEF l, m
  <2> QED
    BY <1>1, <2>1 DEF IsLocal, DistillerPhases, m
<1>7. CASE Ingest(d)
  <2> DEFINE n == IngestNewRecords(context.ledger, New(d))
  <2>1. /\ Moved(d)
        /\ m = Asleep \/ m = [l EXCEPT !.pc = "open ledger", !.loaded = {}, !.new = New(d),
                                      !.state = n]
    BY <1>7, Turns DEF Becomes
  <2>2. New(d) \subseteq Work /\ IsLedger(n)
    BY <1>2, NewIs, Ingested
  <2> HIDE DEF l, m, n
  <2> QED
    BY <1>1, <1>3, <2>1, <2>2 DEF IsLocal, DistillerPhases, m
<1>8. CASE OpenLedger(d) \/ OpenLessons(d) \/ OpenDigest(d)
  <2>1. PICK phase \in {"save ledger", "save lessons", "save digest"} :
          Moved(d) /\ m = [l EXCEPT !.pc = phase, !.copy = context]
    BY <1>8, Turns DEF Becomes
  <2> HIDE DEF l, m
  <2> QED
    BY <1>1, <1>2, <2>1 DEF IsLocal, DistillerPhases, m
<1>9. CASE Save(d)
  <2>1. /\ Moved(d)
        /\ \/ m = [l EXCEPT !.pc = "distill", !.copy = Empty, !.state = EmptyLedger]
           \/ m = [l EXCEPT !.pc = "open digest", !.copy = Empty]
           \/ m = Asleep
    BY <1>9, Turns DEF Becomes
  <2>2. IsContext(Empty) /\ IsLedger(EmptyLedger)
    BY EmptyIs
  <2> HIDE DEF l, m
  <2> QED
    BY <1>1, <1>3, <2>1, <2>2 DEF IsLocal, DistillerPhases, m
<1>10. CASE Distill(d) \/ DistillsNothing(d)
  <2>1. PICK folded \in {Folded(d), context.lessons} :
          Moved(d) /\ m = [l EXCEPT !.pc = "open lessons", !.lessons = folded]
    BY <1>10, Turns DEF Becomes
  <2>2. Folded(d) \subseteq Work
    BY <1>1, <1>2 DEF Folded, Shown
  <2>3. folded \subseteq Work
    BY <1>2, <2>2
  <2> HIDE DEF l, m
  <2> QED
    BY <1>1, <2>1, <2>3 DEF IsLocal, DistillerPhases, m
<1>11. CASE Fails(d) \/ FailsAfterSave(d)
  BY <1>3, <1>11, Turns DEF Becomes
<1> QED
  BY <1>4, <1>5, <1>6, <1>7, <1>8, <1>9, <1>10, <1>11 DEF DistillerStep, Failure

\* A run keeps to the types of its own variables and of the store.
LEMMA WriterTyped ==
  ASSUME TypeOK, NEW w \in Writer, WriterStep(w) \/ Dies(w)
  PROVE  /\ runs \subseteq runs' /\ runs' \subseteq Writer
         /\ writer' \in [Writer -> [pc : WriterPhases, copy : SUBSET Writer]]
<1>1. /\ runs \subseteq Writer
      /\ writer \in [Writer -> [pc : WriterPhases, copy : SUBSET Writer]]
  BY DEF TypeOK
<1>2. writer[w].copy \subseteq Writer
  BY <1>1
<1>3. CASE Opens(w)
  BY <1>1, <1>3 DEF Opens, WriterPhases
<1>4. CASE Saves(w)
  BY <1>1, <1>2, <1>4 DEF Saves, WriterPhases
<1>5. CASE Dies(w)
  BY <1>1, <1>5 DEF Dies, WriterPhases
<1> QED
  BY <1>3, <1>4, <1>5 DEF WriterStep

\* Initially the types hold.
LEMMA TypeInit == MemoryAssumption /\ Init => TypeOK
<1> SUFFICES ASSUME MemoryAssumption, Init PROVE TypeOK
  OBVIOUS
<1>1. IsLocal(Asleep) /\ IsContext(Empty)
  BY EmptyIs DEF IsLocal, Asleep, DistillerPhases
<1>2. /\ distiller = [d \in Distiller |-> distiller[d]]
      /\ \A d \in Distiller : distiller[d] = Asleep
  BY DEF Init
<1>3. writer \in [Writer -> [pc : WriterPhases, copy : SUBSET Writer]]
  BY DEF Init, WriterPhases
<1>4. runs = {} /\ context = Empty /\ dropped = {} /\ overlapped = FALSE /\ failures = 0
  BY DEF Init
<1>5. failures \in 0..MaxFailures
  BY <1>4 DEF MemoryAssumption
<1> QED
  BY <1>1, <1>2, <1>3, <1>4, <1>5 DEF TypeOK

\* Every step keeps them.
LEMMA TypeStep ==
  ASSUME MemoryAssumption, EvalsAssumption, TypeOK, [Next]_vars
  PROVE  TypeOK'
<1>1. /\ runs \subseteq Writer /\ IsContext(context)
      /\ writer \in [Writer -> [pc : WriterPhases, copy : SUBSET Writer]]
      /\ distiller = [d \in Distiller |-> distiller[d]]
      /\ \A d \in Distiller : IsLocal(distiller[d])
      /\ dropped \subseteq Work /\ overlapped \in BOOLEAN
      /\ failures \in 0..MaxFailures /\ MaxFailures \in Nat
  BY DEF TypeOK, MemoryAssumption
<1>2. CASE /\ UNCHANGED <<context, distiller, dropped, overlapped>>
           /\ failures' = failures
           /\ \/ UNCHANGED <<runs, writer>>
              \/ \E w \in Writer : WriterStep(w) \/ Dies(w)
  <2>1. runs' \subseteq Writer
        /\ writer' \in [Writer -> [pc : WriterPhases, copy : SUBSET Writer]]
    BY <1>1, <1>2, WriterTyped
  <2> QED
    BY <1>1, <1>2, <2>1 DEF TypeOK
<1>3. ASSUME NEW d \in Distiller, DistillerStep(d) \/ Failure(d),
             writer' = writer,
             runs' = runs \/ \E w \in distiller[d].shells : runs' = runs \ {w},
             context' = context \/ (Saving(d) /\ context' = Changed(d)),
             \/ dropped' = dropped
             \/ dropped' = dropped \cup distiller[d].new
             \/ dropped' = dropped \cup (distiller[d].new \ Shown(distiller[d].new)),
             failures' = failures \/ (failures < MaxFailures /\ failures' = failures + 1)
      PROVE  TypeOK'
  <2>1. /\ distiller' = [e \in Distiller |-> distiller'[e]]
        /\ \A e \in Distiller \ {d} : distiller'[e] = distiller[e]
        /\ IsLocal(distiller'[d])
    BY <1>3, LocalStep DEF Moved
  <2>2. \A e \in Distiller : IsLocal(distiller'[e])
    BY <1>1, <2>1
  <2>3. IsContext(context')
    BY <1>1, <1>3, ChangedIs
  <2>4. distiller[d].new \subseteq Work
    BY <1>1 DEF IsLocal
  <2>5. dropped' \subseteq Work
    BY <1>1, <1>3, <2>4
  <2>6. overlapped' \in BOOLEAN
    <3>1. \/ overlapped' = overlapped
          \/ overlapped' = (overlapped \/ (New(d) # {} /\ \E e \in Distiller \ {d} : Writes(e)))
      BY <1>3 DEF DistillerStep, Failure, Load, Prune, Pruned, Ingest, OpenLedger, OpenLessons,
                  OpenDigest, Open, Save, Distill, PruneFails, DistillsNothing, Fails,
                  FailsAfterSave
    <3> QED
      BY <1>1, <3>1
  <2>7. failures' \in 0..MaxFailures
    BY <1>1, <1>3
  <2>8. runs' \subseteq Writer
    BY <1>1, <1>3
  <2>9. /\ \A e \in Distiller : IsLocal(distiller[e])'
        /\ IsContext(context)'
    BY <2>2, <2>3 DEF IsLocal, IsContext, IsLedger
  <2> QED
    BY <1>1, <1>3, <2>1, <2>5, <2>6, <2>7, <2>8, <2>9 DEF TypeOK
<1> QED
  BY <1>2, <1>3, OnStores

\* Every reachable state is well typed: the stores, the copies that runs and distillers have
\* of them, and the ledgers that distillers have in hand.
THEOREM TypeCorrect == Spec => []TypeOK
<1> USE MemoryAssumption, EvalsAssumption
<1>1. Init => TypeOK
  BY TypeInit
<1>2. TypeOK /\ [Next]_vars => TypeOK'
  BY TypeStep
<1> QED
  BY <1>1, <1>2, PTL DEF Spec

\* A saved record of work is never lost: distillers delete only records without work, and no
\* copy that is saved takes a record away.
THEOREM RecordsAreSafe == Spec => RecordsSurvive
<1>1. TypeOK /\ [Next]_vars => [runs \ Shells \subseteq runs']_vars
  <2> SUFFICES ASSUME TypeOK, [Next]_vars PROVE runs \ Shells \subseteq runs'
    OBVIOUS
  <2>1. CASE runs' = runs
    BY <2>1
  <2>2. CASE \E w \in Writer : WriterStep(w) \/ Dies(w)
    BY <2>2, WriterTyped
  <2>3. ASSUME NEW d \in Distiller, \E w \in distiller[d].shells : runs' = runs \ {w}
        PROVE  runs \ Shells \subseteq runs'
    <3>1. distiller[d].shells \subseteq Shells
      BY DEF TypeOK, IsLocal
    <3> QED
      BY <2>3, <3>1
  <2> QED
    BY <2>1, <2>2, <2>3, OnStores
<1> QED
  BY <1>1, TypeCorrect, PTL DEF Spec, RecordsSurvive

-----------------------------------------------------------------------------
(* The ledgers are exact *)

\* The stored ledger, the one that a distiller has made of it, and those of open copies.
LedgersAreExact ==
  /\ IsExact(context.ledger)
  /\ \A d \in Distiller : IsExact(distiller[d].state) /\ IsExact(distiller[d].copy.ledger)

\* What d has in hand after its step.
Holds(d, pc, state, new, lessons, copy) ==
  /\ distiller'[d].pc = pc /\ distiller'[d].state = state /\ distiller'[d].new = new
  /\ distiller'[d].lessons = lessons /\ distiller'[d].copy = copy

\* The same, field by field.
LEMMA Fields ==
  ASSUME TypeOK, NEW d \in Distiller, NEW l, l = distiller[d]
  PROVE  /\ Load(d) => Holds(d, "prune", l.state, l.new, l.lessons, l.copy)
         /\ Prune(d) \/ PruneFails(d) => Holds(d, l.pc, l.state, l.new, l.lessons, l.copy)
         /\ Pruned(d) => Holds(d, "ingest", l.state, l.new, l.lessons, l.copy)
         /\ Ingest(d) =>
              \/ distiller'[d] = Asleep
              \/ /\ New(d) # {}
                 /\ Holds(d, "open ledger", IngestNewRecords(context.ledger, New(d)), New(d),
                          l.lessons, l.copy)
         /\ OpenLedger(d) => Holds(d, "save ledger", l.state, l.new, l.lessons, context)
         /\ OpenLessons(d) => Holds(d, "save lessons", l.state, l.new, l.lessons, context)
         /\ OpenDigest(d) => Holds(d, "save digest", l.state, l.new, l.lessons, context)
         /\ Save(d) =>
              \/ /\ l.pc = "save ledger"
                 /\ Holds(d, "distill", EmptyLedger, l.new, l.lessons, Empty)
              \/ /\ l.pc = "save lessons"
                 /\ Holds(d, "open digest", l.state, l.new, l.lessons, Empty)
              \/ l.pc = "save digest" /\ distiller'[d] = Asleep
         /\ Distill(d) => Holds(d, "open lessons", l.state, l.new, Folded(d), l.copy)
         /\ DistillsNothing(d) =>
              Holds(d, "open lessons", l.state, l.new, context.lessons, l.copy)
         /\ Fails(d) \/ FailsAfterSave(d) => distiller'[d] = Asleep
<1> DEFINE m == distiller'[d]
<1>1. l = [pc |-> l.pc, loaded |-> l.loaded, shells |-> l.shells, state |-> l.state,
           new |-> l.new, lessons |-> l.lessons, copy |-> l.copy]
  BY DEF TypeOK, IsLocal
<1>2. ASSUME Load(d) PROVE Holds(d, "prune", l.state, l.new, l.lessons, l.copy)
  <2>1. m = [l EXCEPT !.pc = "prune", !.loaded = {w \in runs : ~DidNoWork(w)},
                      !.shells = {w \in runs : DidNoWork(w)}]
    BY <1>2, Turns DEF Becomes
  <2> HIDE DEF m
  <2> QED
    BY <1>1, <2>1 DEF Holds, m
<1>3. ASSUME Prune(d) \/ PruneFails(d)
      PROVE  Holds(d, l.pc, l.state, l.new, l.lessons, l.copy)
  <2>1. PICK w \in l.shells : m = [l EXCEPT !.shells = l.shells \ {w}]
    BY <1>3, Turns DEF Becomes
  <2> HIDE DEF m
  <2> QED
    BY <1>1, <2>1 DEF Holds, m
<1>4. ASSUME Pruned(d) PROVE Holds(d, "ingest", l.state, l.new, l.lessons, l.copy)
  <2>1. m = [l EXCEPT !.pc = "ingest"]
    BY <1>4, Turns DEF Becomes
  <2> HIDE DEF m
  <2> QED
    BY <1>1, <2>1 DEF Holds, m
<1>5. ASSUME Ingest(d)
      PROVE  \/ m = Asleep
             \/ /\ New(d) # {}
                /\ Holds(d, "open ledger", IngestNewRecords(context.ledger, New(d)), New(d),
                         l.lessons, l.copy)
  <2> DEFINE s == IngestNewRecords(context.ledger, New(d))
  <2>1. \/ m = Asleep
        \/ /\ New(d) # {}
           /\ m = [l EXCEPT !.pc = "open ledger", !.loaded = {}, !.new = New(d), !.state = s]
    BY <1>5, Turns DEF Becomes
  <2> HIDE DEF m, s
  <2>2. \/ m = Asleep
        \/ New(d) # {} /\ Holds(d, "open ledger", s, New(d), l.lessons, l.copy)
    BY <1>1, <2>1 DEF Holds, m
  <2> QED
    BY <2>2 DEF s, m
<1>6. ASSUME NEW before, NEW after, Open(d, before, after)
      PROVE  Holds(d, after, l.state, l.new, l.lessons, context)
  <2>1. m = [l EXCEPT !.pc = after, !.copy = context]
    BY <1>6 DEF Open, TypeOK
  <2> HIDE DEF m
  <2> QED
    BY <1>1, <2>1 DEF Holds, m
<1>7. ASSUME Save(d)
      PROVE  \/ /\ l.pc = "save ledger"
                /\ Holds(d, "distill", EmptyLedger, l.new, l.lessons, Empty)
             \/ /\ l.pc = "save lessons"
                /\ Holds(d, "open digest", l.state, l.new, l.lessons, Empty)
             \/ l.pc = "save digest" /\ m = Asleep
  <2>1. \/ /\ l.pc = "save ledger"
           /\ m = [l EXCEPT !.pc = "distill", !.copy = Empty, !.state = EmptyLedger]
        \/ /\ l.pc = "save lessons"
           /\ m = [l EXCEPT !.pc = "open digest", !.copy = Empty]
        \/ l.pc = "save digest" /\ m = Asleep
    BY <1>7, Turns DEF Becomes
  <2> HIDE DEF m
  <2> QED
    BY <1>1, <2>1 DEF Holds, m
<1>8. ASSUME NEW folded, \/ Distill(d) /\ folded = Folded(d)
                         \/ DistillsNothing(d) /\ folded = context.lessons
      PROVE  Holds(d, "open lessons", l.state, l.new, folded, l.copy)
  <2>1. m = [l EXCEPT !.pc = "open lessons", !.lessons = folded]
    <3>1. CASE Distill(d) /\ folded = Folded(d)
      BY <3>1, Turns DEF Becomes
    <3>2. CASE DistillsNothing(d) /\ folded = context.lessons
      BY <3>2, Turns DEF Becomes
    <3> QED
      BY <1>8, <3>1, <3>2
  <2> HIDE DEF m
  <2> QED
    BY <1>1, <2>1 DEF Holds, m
<1>9. ASSUME Fails(d) \/ FailsAfterSave(d) PROVE m = Asleep
  BY <1>9, Turns DEF Becomes
<1>10. /\ OpenLedger(d) => Holds(d, "save ledger", l.state, l.new, l.lessons, context)
       /\ OpenLessons(d) => Holds(d, "save lessons", l.state, l.new, l.lessons, context)
       /\ OpenDigest(d) => Holds(d, "save digest", l.state, l.new, l.lessons, context)
  BY <1>6 DEF OpenLedger, OpenLessons, OpenDigest
<1> QED
  BY <1>2, <1>3, <1>4, <1>5, <1>7, <1>8, <1>9, <1>10

\* Every step keeps them exact.
LEMMA LedgersStep ==
  ASSUME MemoryAssumption, EvalsAssumption, TypeOK, LedgersAreExact, [Next]_vars
  PROVE  LedgersAreExact'
<1>1. CASE UNCHANGED <<context, distiller>>
  <2>1. /\ IsExact(context'.ledger)
        /\ \A d \in Distiller : IsExact(distiller'[d].state) /\ IsExact(distiller'[d].copy.ledger)
    BY <1>1 DEF LedgersAreExact
  <2> QED
    BY <2>1 DEF LedgersAreExact, IsExact, Entered
<1>2. ASSUME NEW d \in Distiller, DistillerStep(d) \/ Failure(d),
             context' = context \/ (Saving(d) /\ context' = Changed(d))
      PROVE  LedgersAreExact'
  <2> DEFINE l == distiller[d]
             m == distiller'[d]
  <2>1. /\ IsLocal(l) /\ IsLedger(context.ledger)
        /\ l = [pc |-> l.pc, loaded |-> l.loaded, shells |-> l.shells, state |-> l.state,
                new |-> l.new, lessons |-> l.lessons, copy |-> l.copy]
    BY DEF TypeOK, IsLocal, IsContext
  <2>2. IsExact(l.state) /\ IsExact(l.copy.ledger) /\ IsExact(context.ledger)
    BY DEF LedgersAreExact
  <2>3. IsExact(Asleep.state) /\ IsExact(Asleep.copy.ledger)
    BY EmptyIs DEF Asleep
  <2>4. IsExact(m.state) /\ IsExact(m.copy.ledger)
    <3>1. CASE m.state = l.state /\ m.copy = l.copy
      BY <2>2, <3>1
    <3>2. CASE m = Asleep
      BY <2>3, <3>2
    <3>3. CASE m.state = l.state /\ m.copy = context
      BY <2>2, <3>3
    <3>4. CASE m.state \in {l.state, EmptyLedger} /\ m.copy = Empty
      BY <2>2, <3>4, EmptyIs
    <3>5. CASE m.state = IngestNewRecords(context.ledger, New(d)) /\ m.copy = l.copy
      <4>1. IsExact(IngestNewRecords(context.ledger, New(d)))
        BY <2>1, <2>2, NewIs, Ingested
      <4> QED
        BY <2>2, <3>5, <4>1
    <3>6. \/ m.state = l.state /\ m.copy = l.copy
          \/ m = Asleep
          \/ m.state = l.state /\ m.copy = context
          \/ m.state \in {l.state, EmptyLedger} /\ m.copy = Empty
          \/ m.state = IngestNewRecords(context.ledger, New(d)) /\ m.copy = l.copy
      BY <1>2, Fields DEF DistillerStep, Failure, Holds
    <3> HIDE DEF l, m
    <3> QED
      BY <3>1, <3>2, <3>3, <3>4, <3>5, <3>6
  <2>5. IsExact(context'.ledger)
    <3>1. ASSUME Saving(d), context' = Changed(d) PROVE context'.ledger \in {l.state, l.copy.ledger}
      BY <3>1, ChangedIs DEF Saving
    <3> QED
      BY <1>2, <2>2, <3>1
  <2>6. \A e \in Distiller : IsExact(distiller'[e].state) /\ IsExact(distiller'[e].copy.ledger)
    <3>1. \A e \in Distiller \ {d} : distiller'[e] = distiller[e]
      BY <1>2, LocalStep DEF Moved
    <3> QED
      BY <2>4, <3>1 DEF LedgersAreExact
  <2> QED
    BY <2>5, <2>6 DEF LedgersAreExact, IsExact, Entered
<1> QED
  BY <1>1, <1>2, OnStores

\* Whatever overlaps, fails or is put back: the stored ledger knows exactly the targets of the
\* records entered in it, counts each record once, and knows of a pull request.
THEOREM LedgerStaysExact == Spec => []LedgerIsExact
<1> USE MemoryAssumption, EvalsAssumption
<1> DEFINE I == LedgersAreExact
<1>1. Init => I
  <2> SUFFICES ASSUME Init PROVE LedgersAreExact
    OBVIOUS
  <2>1. context = Empty /\ \A d \in Distiller : distiller[d] = Asleep
    BY DEF Init
  <2>2. IsExact(Asleep.state) /\ IsExact(Asleep.copy.ledger)
    BY EmptyIs DEF Asleep
  <2> QED
    BY <2>1, <2>2, EmptyIs DEF LedgersAreExact
<1>2. TypeOK /\ I /\ [Next]_vars => I'
  BY LedgersStep
<1>3. I => LedgerIsExact
  BY DEF LedgersAreExact, LedgerIsExact
<1> HIDE DEF I
<1> QED
  BY <1>1, <1>2, <1>3, TypeCorrect, PTL DEF Spec

-----------------------------------------------------------------------------
(* Rounds *)

Idle == {"asleep", "prune", "ingest"}

\* What a distiller has in hand, and the store c and the dropped records: as long as no two
\* rounds have written at the same time.
RoundOf(l, c, drop) ==
  /\ l.pc \in Idle => l.new = {}
  /\ l.pc \in {"open ledger", "save ledger"} =>
       /\ l.new \cap Entered(c.ledger) = {}
       /\ Entered(l.state) = Entered(c.ledger) \cup l.new
  /\ l.pc \in {"save ledger", "save lessons", "save digest"} => l.copy = c
  /\ l.pc \in LedgerSaved => l.new \subseteq Entered(c.ledger)
  /\ l.pc = "distill" => l.new \cap c.lessons = {}
  /\ l.pc \in {"open lessons", "save lessons"} =>
       /\ c.lessons \subseteq l.lessons
       /\ l.lessons \subseteq Entered(c.ledger)
       /\ l.new \subseteq l.lessons \cup drop
  /\ l.pc \in {"open digest", "save digest"} =>
       /\ l.lessons = c.lessons
       /\ l.new \subseteq l.lessons \cup drop

\* The digest lags behind the lessons, the lessons behind the ledger.
Nested(c) == c.digest \subseteq c.lessons /\ c.lessons \subseteq Entered(c.ledger)

\* The inductive invariant behind DistilledOnce and DistilledOrDropped: at most one round
\* writes, and it alone has the records that the ledger knows and the digest does not.
Rounds ==
  /\ \A d, e \in Distiller : Writes(d) /\ Writes(e) => d = e
  /\ Nested(context)
  /\ \A d \in Distiller : RoundOf(distiller[d], context, dropped)
  /\ \A w \in Entered(context.ledger) :
       \/ w \in context.digest
       \/ w \in dropped
       \/ \E d \in Distiller : w \in distiller[d].new

\* A step of the round of d: it alone changes the store, and every record that is entered
\* and not in the digest is still in its hand, or dropped.
Stepped(d) ==
  /\ RoundOf(distiller'[d], context', dropped')
  /\ Nested(context')
  /\ dropped \subseteq dropped' /\ context.digest \subseteq context'.digest
  /\ distiller'[d].pc \in Idle \/ Writes(d)
       \/ \A e \in Distiller \ {d} : ~Writes(e)
  /\ context' = context \/ Writes(d)
  /\ \A w \in Entered(context'.ledger) :
       w \in Entered(context.ledger) \cup distiller'[d].new \cup dropped'
  /\ \A w \in distiller[d].new \cap Entered(context'.ledger) :
       w \in distiller'[d].new \cup dropped' \cup context'.digest

\* Asleep, a distiller has nothing in hand.
LEMMA AsleepIs ==
  ASSUME NEW c, NEW drop
  PROVE  Asleep.new = {} /\ Asleep.pc \in Idle /\ RoundOf(Asleep, c, drop)
<1>1. Asleep.new = {} /\ Asleep.pc = "asleep"
  BY DEF Asleep
<1> QED
  BY <1>1 DEF RoundOf, Idle, LedgerSaved

\* The steps before a round writes.
LEMMA BeforeWriting ==
  ASSUME EvalsAssumption, TypeOK, ~overlapped', Rounds, NEW d \in Distiller,
         Load(d) \/ Prune(d) \/ PruneFails(d) \/ Pruned(d) \/ Ingest(d)
  PROVE  Stepped(d)
<1> DEFINE l == distiller[d]
           m == distiller'[d]
<1>1. /\ l.pc \in {"asleep", "prune", "ingest"} /\ l.pc \in Idle
      /\ UNCHANGED <<context, dropped>>
  BY DEF Load, Prune, PruneFails, Pruned, Ingest, At, Idle
<1>2. RoundOf(l, context, dropped) /\ l.new = {} /\ Nested(context)
  BY <1>1 DEF Rounds, RoundOf
<1>3. \A w \in Entered(context.ledger) : w \in Entered(context.ledger) \cup m.new \cup dropped
  OBVIOUS
<1>4. CASE Load(d) \/ Prune(d) \/ PruneFails(d) \/ Pruned(d)
  <2>1. m.pc \in Idle /\ m.new = {}
    BY <1>1, <1>2, <1>4, Fields DEF Holds, Idle
  <2>2. RoundOf(m, context, dropped)
    BY <2>1 DEF RoundOf, Idle, LedgerSaved
  <2> HIDE DEF l, m
  <2> QED
    BY <1>1, <1>2, <1>3, <2>1, <2>2 DEF Stepped, l, m
<1>5. CASE Ingest(d) /\ m = Asleep
  <2>1. RoundOf(m, context, dropped) /\ m.pc \in Idle /\ m.new = {}
    BY <1>5, AsleepIs
  <2> QED
    BY <1>1, <1>2, <1>3, <2>1 DEF Stepped
<1>6. CASE /\ Ingest(d) /\ New(d) # {}
           /\ Holds(d, "open ledger", IngestNewRecords(context.ledger, New(d)), New(d),
                    l.lessons, l.copy)
  <2>1. \A e \in Distiller \ {d} : ~Writes(e)
    BY <1>6 DEF Ingest
  <2>2. /\ m.pc = "open ledger" /\ m.new = New(d)
        /\ m.state = IngestNewRecords(context.ledger, New(d))
    BY <1>6 DEF Holds
  <2>3. /\ m.new \cap Entered(context.ledger) = {}
        /\ Entered(m.state) = Entered(context.ledger) \cup m.new
    <3>1. IsLedger(context.ledger)
      BY DEF TypeOK, IsContext
    <3>2. New(d) \subseteq Work /\ New(d) \cap Entered(context.ledger) = {}
      BY NewIs
    <3>3. Entered(IngestNewRecords(context.ledger, New(d))) = Entered(context.ledger) \cup New(d)
      BY <3>1, <3>2, Ingested
    <3> QED
      BY <2>2, <3>2, <3>3
  <2>4. RoundOf(m, context, dropped)
    BY <2>2, <2>3 DEF RoundOf, Idle, LedgerSaved
  <2> QED
    BY <1>1, <1>2, <1>3, <2>1, <2>4 DEF Stepped
<1> QED
  BY <1>4, <1>5, <1>6, Fields

\* The steps on an open copy and on the agent's lessons.
LEMMA WhileWriting ==
  ASSUME TypeOK, Rounds, NEW d \in Distiller,
         \/ OpenLedger(d) \/ OpenLessons(d) \/ OpenDigest(d)
         \/ Distill(d) \/ DistillsNothing(d)
  PROVE  Stepped(d)
<1> DEFINE l == distiller[d]
           m == distiller'[d]
           open == {"open ledger", "open lessons", "open digest"}
<1>1. /\ l.pc \in open \cup {"distill"} /\ Writes(d)
      /\ context' = context /\ dropped \subseteq dropped'
  BY DEF OpenLedger, OpenLessons, OpenDigest, Open, Distill, DistillsNothing, At, Writes
<1>2. RoundOf(l, context, dropped) /\ Nested(context)
  BY DEF Rounds
<1>3. m.new = l.new
  <2>1. \E pc, lessons, copy : Holds(d, pc, l.state, l.new, lessons, copy)
    BY Fields
  <2> QED
    BY <2>1 DEF Holds
<1>4. CASE OpenLedger(d) \/ OpenLessons(d) \/ OpenDigest(d)
  <2>1. /\ dropped' = dropped /\ m.copy = context /\ m.state = l.state
        /\ m.lessons = l.lessons
        /\ \/ l.pc = "open ledger" /\ m.pc = "save ledger"
           \/ l.pc = "open lessons" /\ m.pc = "save lessons"
           \/ l.pc = "open digest" /\ m.pc = "save digest"
    BY <1>4, Fields DEF OpenLedger, OpenLessons, OpenDigest, Open, Holds, At
  <2> HIDE DEF l, m
  <2>2. RoundOf(m, context, dropped)
    BY <1>2, <1>3, <2>1 DEF RoundOf, Idle, LedgerSaved
  <2> QED
    BY <1>1, <1>2, <1>3, <2>1, <2>2 DEF Stepped, l, m
<1>5. CASE Distill(d) \/ DistillsNothing(d)
  <2>1. l.pc = "distill" /\ m.pc = "open lessons"
    BY <1>5, Fields DEF Distill, DistillsNothing, Holds, At
  <2>2. /\ context.lessons \subseteq m.lessons
        /\ m.lessons \subseteq context.lessons \cup l.new
        /\ l.new \subseteq m.lessons \cup dropped'
    <3>1. Shown(l.new) \subseteq l.new
      BY DEF Shown
    <3>2. CASE Distill(d)
      <4>1. m.lessons = context.lessons \cup Shown(l.new)
        BY <3>2, Fields DEF Holds, Folded
      <4>2. dropped' = dropped \cup (l.new \ Shown(l.new))
        BY <3>2 DEF Distill
      <4> QED
        BY <3>1, <4>1, <4>2
    <3>3. CASE DistillsNothing(d)
      <4>1. m.lessons = context.lessons /\ dropped' = dropped \cup l.new
        BY <3>3, Fields DEF Holds, DistillsNothing
      <4> QED
        BY <4>1
    <3> QED
      BY <1>5, <3>2, <3>3
  <2>3. l.new \subseteq Entered(context.ledger)
    BY <1>2, <2>1 DEF RoundOf, LedgerSaved
  <2>4. context.lessons \subseteq Entered(context.ledger)
    BY <1>2 DEF Nested
  <2> HIDE DEF l, m
  <2>5. RoundOf(m, context, dropped')
    BY <1>3, <2>1, <2>2, <2>3, <2>4 DEF RoundOf, Idle, LedgerSaved
  <2> QED
    BY <1>1, <1>2, <1>3, <2>5 DEF Stepped, l, m
<1> QED
  BY <1>4, <1>5

\* What a save leaves in the store.
LEMMA SavedIs ==
  ASSUME TypeOK, Rounds, NEW d \in Distiller, Saving(d), context' = Changed(d),
         NEW l, l = distiller[d]
  PROVE  /\ Nested(context') /\ context.digest \subseteq context'.digest /\ Writes(d)
         /\ \/ /\ l.pc = "save ledger"
               /\ Entered(context'.ledger) = Entered(context.ledger) \cup l.new
               /\ l.new \cap Entered(context.ledger) = {}
               /\ context'.lessons = context.lessons
            \/ /\ l.pc = "save lessons"
               /\ Entered(context'.ledger) = Entered(context.ledger)
               /\ l.new \subseteq Entered(context.ledger)
               /\ context'.lessons = l.lessons
               /\ l.new \subseteq l.lessons \cup dropped
            \/ /\ l.pc = "save digest"
               /\ Entered(context'.ledger) = Entered(context.ledger)
               /\ context'.digest = l.lessons
               /\ l.new \subseteq l.lessons \cup dropped
<1>1. l.pc \in {"save ledger", "save lessons", "save digest"} /\ Writes(d)
  BY DEF Saving, Writes
<1>2. RoundOf(l, context, dropped) /\ Nested(context)
  BY DEF Rounds
<1>3. l.copy = context
  BY <1>1, <1>2 DEF RoundOf
<1>4. CASE l.pc = "save ledger"
  <2>1. /\ context'.ledger = l.state /\ context'.lessons = context.lessons
        /\ context'.digest = context.digest
    BY <1>3, <1>4, ChangedIs
  <2>2. /\ l.new \cap Entered(context.ledger) = {}
        /\ Entered(l.state) = Entered(context.ledger) \cup l.new
    BY <1>2, <1>4 DEF RoundOf
  <2> QED
    BY <1>1, <1>2, <1>4, <2>1, <2>2 DEF Nested
<1>5. CASE l.pc = "save lessons"
  <2>1. /\ context'.ledger = context.ledger /\ context'.lessons = l.lessons
        /\ context'.digest = context.digest
    BY <1>3, <1>5, ChangedIs
  <2>2. /\ context.lessons \subseteq l.lessons
        /\ l.lessons \subseteq Entered(context.ledger)
        /\ l.new \subseteq l.lessons \cup dropped
        /\ l.new \subseteq Entered(context.ledger)
    BY <1>2, <1>5 DEF RoundOf, LedgerSaved
  <2> QED
    BY <1>1, <1>2, <1>5, <2>1, <2>2 DEF Nested
<1>6. CASE l.pc = "save digest"
  <2>1. /\ context'.ledger = context.ledger /\ context'.lessons = context.lessons
        /\ context'.digest = l.lessons
    BY <1>3, <1>6, ChangedIs
  <2>2. /\ l.lessons = context.lessons
        /\ l.new \subseteq l.lessons \cup dropped
    BY <1>2, <1>6 DEF RoundOf
  <2> QED
    BY <1>1, <1>2, <1>6, <2>1, <2>2 DEF Nested
<1> QED
  BY <1>1, <1>4, <1>5, <1>6

\* The steps that save.
LEMMA WhenSaving ==
  ASSUME TypeOK, Rounds, NEW d \in Distiller, Save(d) \/ FailsAfterSave(d)
  PROVE  Stepped(d)
<1> DEFINE l == distiller[d]
           m == distiller'[d]
           c == context
           n == context'
<1>1. Saving(d) /\ n = Changed(d)
  BY DEF Save, FailsAfterSave
<1>2. /\ Nested(n) /\ c.digest \subseteq n.digest /\ Writes(d)
      /\ \/ /\ l.pc = "save ledger"
            /\ Entered(n.ledger) = Entered(c.ledger) \cup l.new
            /\ l.new \cap Entered(c.ledger) = {}
            /\ n.lessons = c.lessons
         \/ /\ l.pc = "save lessons"
            /\ Entered(n.ledger) = Entered(c.ledger)
            /\ l.new \subseteq Entered(c.ledger)
            /\ n.lessons = l.lessons
            /\ l.new \subseteq l.lessons \cup dropped
         \/ /\ l.pc = "save digest"
            /\ Entered(n.ledger) = Entered(c.ledger)
            /\ n.digest = l.lessons
            /\ l.new \subseteq l.lessons \cup dropped
  BY <1>1, SavedIs
<1>3. CASE Save(d) /\ l.pc = "save ledger"
  <2>1. m.pc = "distill" /\ m.new = l.new /\ dropped' = dropped
    BY <1>3, Fields DEF Save, Holds
  <2>2. /\ Entered(n.ledger) = Entered(c.ledger) \cup l.new
        /\ l.new \cap n.lessons = {}
    <3>1. c.lessons \subseteq Entered(c.ledger)
      BY DEF Rounds, Nested
    <3> QED
      BY <1>2, <1>3, <3>1
  <2> HIDE DEF l, m, c, n
  <2>3. RoundOf(m, n, dropped')
    BY <2>1, <2>2 DEF RoundOf, Idle, LedgerSaved
  <2> QED
    BY <1>2, <2>1, <2>2, <2>3 DEF Stepped, l, m, c, n
<1>4. CASE Save(d) /\ l.pc = "save lessons"
  <2>1. m.pc = "open digest" /\ m.new = l.new /\ m.lessons = l.lessons /\ dropped' = dropped
    BY <1>4, Fields DEF Save, Holds
  <2> HIDE DEF l, m, c, n
  <2>2. RoundOf(m, n, dropped')
    BY <1>2, <1>4, <2>1 DEF RoundOf, Idle, LedgerSaved
  <2> QED
    BY <1>2, <1>4, <2>1, <2>2 DEF Stepped, l, m, c, n
<1>5. CASE Save(d) /\ l.pc = "save digest"
  <2>1. m = Asleep /\ dropped' = dropped
    BY <1>5, Fields DEF Save, Holds
  <2>2. m.new = {} /\ RoundOf(m, n, dropped')
    BY <2>1, AsleepIs
  <2> HIDE DEF l, m, c, n
  <2> QED
    BY <1>2, <1>5, <2>1, <2>2 DEF Stepped, l, m, c, n
<1>6. CASE FailsAfterSave(d)
  <2>1. m = Asleep /\ dropped' = dropped \cup l.new
    BY <1>6, Fields DEF FailsAfterSave
  <2>2. m.new = {} /\ RoundOf(m, n, dropped')
    BY <2>1, AsleepIs
  <2> HIDE DEF l, m, c, n
  <2> QED
    BY <1>2, <2>1, <2>2 DEF Stepped, l, m, c, n
<1> QED
  BY <1>1, <1>3, <1>4, <1>5, <1>6 DEF Saving

\* A failure before a save: what the ledger knows by then counts as dropped.
LEMMA WhenFailing ==
  ASSUME TypeOK, Rounds, NEW d \in Distiller, Fails(d)
  PROVE  Stepped(d)
<1> DEFINE l == distiller[d]
           m == distiller'[d]
<1>1. m = Asleep
  BY Fields
<1>2. m.new = {} /\ m.pc \in Idle /\ RoundOf(m, context, dropped')
  BY <1>1, AsleepIs
<1>3. /\ context' = context
      /\ dropped' = IF l.pc \in LedgerSaved THEN dropped \cup l.new ELSE dropped
  BY DEF Fails
<1>4. RoundOf(l, context, dropped) /\ Nested(context) /\ l.pc \in DistillerPhases
  BY DEF Rounds, TypeOK, IsLocal
<1>5. l.pc \notin LedgerSaved => l.new \cap Entered(context.ledger) = {}
  BY <1>4 DEF RoundOf, LedgerSaved, Idle, DistillerPhases
<1> HIDE DEF l, m
<1> QED
  BY <1>2, <1>3, <1>4, <1>5 DEF Stepped, l, m

\* Every step keeps the rounds apart, until two of them overlap.
LEMMA RoundsStep ==
  ASSUME MemoryAssumption, EvalsAssumption, TypeOK, ~overlapped', Rounds, [Next]_vars
  PROVE  Rounds'
<1>1. CASE UNCHANGED <<context, distiller, dropped>>
  <2>1. /\ \A d, e \in Distiller : Writes(d)' /\ Writes(e)' => d = e
        /\ Nested(context')
        /\ \A d \in Distiller : RoundOf(distiller'[d], context', dropped')
        /\ \A w \in Entered(context'.ledger) :
             \/ w \in context'.digest
             \/ w \in dropped'
             \/ \E d \in Distiller : w \in distiller'[d].new
    BY <1>1 DEF Rounds, Writes
  <2> QED
    BY <2>1 DEF Rounds, Nested, RoundOf, Entered
<1>2. ASSUME NEW d \in Distiller, DistillerStep(d) \/ Failure(d)
      PROVE  Rounds'
  <2>1. Stepped(d)
    BY <1>2, BeforeWriting, WhileWriting, WhenSaving, WhenFailing DEF DistillerStep, Failure
  <2>2. \A e \in Distiller \ {d} : distiller'[e] = distiller[e]
    BY <1>2, LocalStep DEF Moved
  <2>3. \A e \in Distiller : RoundOf(distiller'[e], context', dropped')
    <3>1. ASSUME NEW e \in Distiller \ {d} PROVE RoundOf(distiller[e], context', dropped')
      <4>1. RoundOf(distiller[e], context, dropped) /\ dropped \subseteq dropped'
        BY <2>1 DEF Rounds, Stepped
      <4>2. CASE context' = context
        BY <4>1, <4>2 DEF RoundOf
      <4>3. CASE Writes(d)
        <5>1. distiller[e].pc \in Idle
          BY <4>3 DEF Rounds, Writes, Idle
        <5>2. distiller[e].new = {}
          BY <4>1, <5>1 DEF RoundOf
        <5> QED
          BY <5>1, <5>2 DEF RoundOf, Idle, LedgerSaved
      <4> QED
        BY <2>1, <4>2, <4>3 DEF Stepped
    <3> QED
      BY <2>1, <2>2, <3>1 DEF Stepped
  <2>4. \A e, f \in Distiller :
           distiller'[e].pc \notin Idle /\ distiller'[f].pc \notin Idle => e = f
    BY <2>1, <2>2 DEF Stepped, Rounds, Writes, Idle
  <2>5. ASSUME NEW w \in Entered(context'.ledger)
        PROVE  \/ w \in context'.digest
               \/ w \in dropped'
               \/ \E e \in Distiller : w \in distiller'[e].new
    BY <2>1, <2>2 DEF Stepped, Rounds
  <2>6. /\ \A e, f \in Distiller : Writes(e)' /\ Writes(f)' => e = f
        /\ Nested(context')
    BY <2>1, <2>4 DEF Writes, Idle, Stepped
  <2> QED
    BY <2>3, <2>5, <2>6 DEF Rounds, Nested, RoundOf, Entered
<1> QED
  BY <1>1, <1>2, OnStores

\* An overlap is remembered.
LEMMA OverlapStays ==
  ASSUME TypeOK, [Next]_vars, overlapped
  PROVE  overlapped'
<1>1. CASE UNCHANGED overlapped
  BY <1>1
<1>2. ASSUME NEW d \in Distiller, DistillerStep(d) \/ Failure(d) PROVE overlapped'
  BY <1>2 DEF DistillerStep, Failure, Load, Prune, Pruned, Ingest, OpenLedger, OpenLessons,
              OpenDigest, Open, Save, Distill, PruneFails, DistillsNothing, Fails, FailsAfterSave
<1> QED
  BY <1>1, <1>2, OnStores

\* Before the first round the memory is empty.
LEMMA RoundsInit == Init => Rounds
<1> SUFFICES ASSUME Init PROVE Rounds
  OBVIOUS
<1>1. context = Empty /\ \A d \in Distiller : distiller[d] = Asleep
  BY DEF Init
<1>2. Entered(context.ledger) = {} /\ context.lessons = {} /\ context.digest = {}
  BY <1>1, EmptyIs
<1>3. \A d \in Distiller : RoundOf(distiller[d], context, dropped) /\ ~Writes(d)
  BY <1>1, AsleepIs DEF Writes, Idle
<1> QED
  BY <1>2, <1>3 DEF Rounds, Nested

\* As long as no two rounds overlap, at most one writes, and it has in hand what the ledger
\* knows and the digest does not.
LEMMA RoundsApart == Spec => [](~overlapped => Rounds)
<1> USE MemoryAssumption, EvalsAssumption
<1> DEFINE I == ~overlapped => Rounds
<1>1. Init => I
  BY RoundsInit
<1>2. TypeOK /\ I /\ [Next]_vars => I'
  BY RoundsStep, OverlapStays
<1> HIDE DEF I
<1>3. Spec => []I
  BY <1>1, <1>2, TypeCorrect, PTL DEF Spec
<1> QED
  BY <1>3 DEF I

\* Without an overlap no record is folded into the lessons twice: the ledger is saved before
\* the lessons, so what the lessons have is never new.
THEOREM NoneDistilledTwice == Spec => []DistilledOnce
<1>1. (~overlapped => Rounds) => DistilledOnce
  BY DEF Rounds, RoundOf, DistilledOnce, At
<1> QED
  BY <1>1, RoundsApart, PTL

\* Without an overlap every record in the ledger is in the lessons and in the digest, in the
\* hands of a round, or dropped: by a round that failed or had more than it could show.
THEOREM NoneSlipsThrough == Spec => []DistilledOrDropped
<1>1. (~overlapped => Rounds) => DistilledOrDropped
  BY DEF Rounds, Nested, DistilledOrDropped
<1> QED
  BY <1>1, RoundsApart, PTL
=============================================================================
