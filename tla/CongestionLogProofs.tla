-------------------------- MODULE CongestionLogProofs --------------------------
(* Theorems of CongestionLog, for every number of nodes, runs and warnings. *)
EXTENDS CongestionLog, FiniteSetTheorems, SequenceTheorems,
        WellFoundedInduction, TLAPS

(* Whatever is on its way, stored or logged was a warning, of the past.     *)
Known ==
  /\ now \in 0..MaxTime
  /\ \A r \in warned : r \in Warning /\ r.ts <= now
  /\ calls \subseteq warned /\ logged \subseteq warned
  /\ \A t \in DOMAIN stored : [ts |-> t, node |-> stored[t]] \in warned

LEMMA InitKnown == Init => Known
  BY CongestionLogAssumption DEF Init, Known

LEMMA NextKnown == ASSUME Known, [Next]_vars PROVE Known'
<1> USE CongestionLogAssumption DEF Known
<1>1. CASE Tick
  <2>1. now' = now + 1 /\ now' \in 0..MaxTime
        /\ warned' = warned /\ calls' = calls /\ stored' = stored /\ logged' = logged
    BY <1>1 DEF Tick, warnings
  <2>2. \A r \in warned : r.ts <= now'
    BY <2>1 DEF Warning
  <2> QED
    BY <2>1, <2>2
<1>2. ASSUME NEW n \in Nodes, StoreWarning(n) PROVE Known'
  BY <1>2 DEF StoreWarning, Warning, driver
<1>3. ASSUME NEW r \in calls, Store(r) PROVE Known'
  <2>1. r \in warned /\ r = [ts |-> r.ts, node |-> r.node]
    BY DEF Warning
  <2>2. \A t \in DOMAIN stored' : [ts |-> t, node |-> stored'[t]] \in warned
    BY <1>3, <2>1 DEF Store, Put
  <2> QED
    BY <1>3, <2>2 DEF Store, driver
<1>4. CASE UNCHANGED <<now, warnings>>
  BY <1>4 DEF warnings
<1> QED
  BY <1>1, <1>2, <1>3, <1>4 DEF Next, BeginRun, InjectFailure, RemoveFailure, CheckCongestion, vars, warnings

(* Whatever query_storage can read, on either platform and in any run, and  *)
(* in whichever order the entries were logged, is a warning that some       *)
(* sidecar stored. (run_experiment.py:72-93, logs_script.sh:3-5,            *)
(* filter.cc:162-185)                                                       *)
THEOREM Provenance == Spec => [](\A found \in RecordSets : found \subseteq warned)
<1>1. Known => \A found \in RecordSets : found \subseteq warned
  BY DEF Known, RecordSets
<1> QED
  BY <1>1, InitKnown, NextKnown, PTL DEF Spec

--------------------------------------------------------------------------------

(* The records query_storage may return: no timestamp is Period away.       *)
Lists == Seq(Warning)

(* The end of the interval is not found.                                    *)
LEMMA NoEnd ==
  ASSUME NEW records \in Lists, NEW t0 \in Nat, NEW c \in Nat
  PROVE  IndexFrom(records, t0 + c + Period) = -1
<1>1. \A i \in 1..Len(records) : ~(records[i].ts >= t0 + c + Period)
  <2> SUFFICES ASSUME NEW i \in 1..Len(records)
               PROVE  ~(records[i].ts >= t0 + c + Period)
    OBVIOUS
  <2>1. records[i] \in Warning
    BY DEF Lists
  <2>2. records[i].ts \in 0..MaxTime
    BY <2>1 DEF Warning
  <2> QED
    BY <2>2, CongestionLogAssumption
<1>2. {i \in 1..Len(records) : records[i].ts >= t0 + c + Period} = {}
  BY <1>1
<1> QED
  BY <1>2 DEF IndexFrom, SelectInSeq

LEMMA MinOf ==
  ASSUME NEW S \in SUBSET Nat, NEW m \in S, \A i \in S : m <= i
  PROVE  Min(S) = m
<1>1. Min(S) \in S /\ \A i \in S : Min(S) <= i
  BY DEF Min
<1>2. Min(S) \in Nat /\ m \in Nat
  BY <1>1
<1> QED
  BY <1>1, <1>2

LEMMA Least ==
  ASSUME NEW S \in SUBSET Nat, S # {}
  PROVE  \E m \in S : \A i \in S : m <= i
<1>1. PICK m \in S : \A i \in S : ~(<<i, m>> \in OpToRel(<, Nat))
  BY WFMin, NatLessThanWellFounded
<1>2. \A i \in S : <<i, m>> \in OpToRel(<, Nat) <=> i < m
  BY DEF OpToRel
<1> SUFFICES ASSUME NEW i \in S PROVE m <= i
  OBVIOUS
<1>3. i \in Nat /\ m \in Nat /\ ~(i < m)
  BY <1>1, <1>2
<1> QED
  BY <1>3

(* A slice that ends at -1 leaves the last record out.                      *)
LEMMA SliceToNewest ==
  ASSUME NEW list, NEW n \in Nat, Len(list) = n + 1
  PROVE  /\ Slice(list, -1, -1) = SubSeq(list, n + 1, n)
         /\ \A first \in 0..n : Slice(list, first, -1) = SubSeq(list, first + 1, n)
<1>1. Max({0, n}) = n
  BY DEF Max
<1>2. n + 1 + (-1) = n
  OBVIOUS
<1>3. ASSUME NEW first \in 0..n PROVE Min({first, n + 1}) = first
  BY MinOf
<1>4. Slice(list, -1, -1) = SubSeq(list, Max({0, n + 1 + (-1)}) + 1, Max({0, n + 1 + (-1)}))
  BY DEF Slice
<1>5. ASSUME NEW first \in 0..n
      PROVE  Slice(list, first, -1)
               = SubSeq(list, Min({first, n + 1}) + 1, Max({0, n + 1 + (-1)}))
  <2>1. ~(first < 0) /\ -1 < 0
    OBVIOUS
  <2>2. (IF first < 0 THEN Max({0, n + 1 + first}) ELSE Min({first, n + 1}))
          = Min({first, n + 1})
    BY <2>1
  <2>3. Slice(list, first, -1)
          = SubSeq(list, (IF first < 0 THEN Max({0, n + 1 + first}) ELSE Min({first, n + 1})) + 1,
                   Max({0, n + 1 + (-1)}))
    BY <2>1 DEF Slice
  <2> QED
    BY <2>2, <2>3
<1> QED
  BY <1>1, <1>2, <1>3, <1>4, <1>5

(* Of a list with one record more only those before it are looked at, from  *)
(* a place that does not depend on it.                                      *)
LEMMA SliceOfAppended ==
  ASSUME NEW records \in Lists, NEW t0 \in Nat, NEW c \in Nat
  PROVE  \E k \in 1..(Len(records) + 1) :
           /\ k <= Len(records) => records[k].ts >= t0 + c
           /\ \A i \in 1..(k - 1) : ~(records[i].ts >= t0 + c)
           /\ \A r \in Warning :
                LogSlice(Append(records, r), t0, c) = SubSeq(records, k, Len(records))
<1> DEFINE n == Len(records)
           Late == {i \in 1..n : records[i].ts >= t0 + c}
           LateIn(r) == {i \in 1..(n + 1) : Append(records, r)[i].ts >= t0 + c}
<1> USE DEF Lists
<1>1. n \in Nat /\ Late \in SUBSET Nat
  OBVIOUS
<1>2. PICK k \in 1..(n + 1) : \/ (k \in Late /\ \A i \in Late : k <= i)
                             \/ (k = n + 1 /\ Late = {})
  <2>1. CASE Late = {}
    BY <1>1, <2>1
  <2>2. CASE Late # {}
    <3>1. PICK m \in Late : \A i \in Late : m <= i
      BY <1>1, <2>2, Least
    <3> QED
      BY <1>1, <3>1
  <2> QED
    BY <2>1, <2>2
<1>3. ASSUME NEW r \in Warning
      PROVE  LogSlice(Append(records, r), t0, c) = SubSeq(records, k, n)
  <2> DEFINE longer == Append(records, r)
  <2>1. longer \in Lists /\ Len(longer) = n + 1 /\ \A i \in 1..n : longer[i] = records[i]
    OBVIOUS
  <2>2. IndexFrom(longer, t0 + c + Period) = -1
    BY <2>1, NoEnd
  <2>3. IndexFrom(longer, t0 + c) \in {k - 1, -1}
        /\ (IndexFrom(longer, t0 + c) = -1 => k = n + 1)
    <3>0. LateIn(r) \in SUBSET Nat /\ Late = LateIn(r) \cap 1..n
      BY <1>1, <2>1
    <3>1. CASE LateIn(r) = {}
      <4>1. IndexFrom(longer, t0 + c) = -1
        BY <2>1, <3>1 DEF IndexFrom, SelectInSeq
      <4> QED
        BY <1>2, <3>0, <3>1, <4>1
    <3>2. CASE LateIn(r) # {}
      <4>1. k \in LateIn(r) /\ \A i \in LateIn(r) : k <= i
        BY <1>1, <1>2, <3>0, <3>2
      <4>2. Min(LateIn(r)) = k
        BY <3>0, <4>1, MinOf
      <4>3. IndexFrom(longer, t0 + c) = Min(LateIn(r)) - 1
        BY <2>1, <3>2 DEF IndexFrom, SelectInSeq
      <4>4. IndexFrom(longer, t0 + c) = k - 1
        BY <4>2, <4>3
      <4>5. k - 1 # -1
        BY <1>1, <1>2
      <4> QED
        BY <4>4, <4>5
    <3> QED
      BY <3>1, <3>2
  <2>5. LogSlice(longer, t0, c) = SubSeq(longer, k, n)
    <3>1. LogSlice(longer, t0, c) = Slice(longer, IndexFrom(longer, t0 + c), -1)
      BY <2>2 DEF LogSlice
    <3>2. CASE IndexFrom(longer, t0 + c) = -1
      BY <1>1, <2>1, <2>3, <3>1, <3>2, SliceToNewest
    <3>3. CASE IndexFrom(longer, t0 + c) = k - 1
      <4>1. k - 1 \in 0..n /\ (k - 1) + 1 = k
        BY <1>1, <1>2
      <4> QED
        BY <1>1, <2>1, <3>1, <3>3, <4>1, SliceToNewest
    <3> QED
      BY <2>3, <3>2, <3>3
  <2>6. SubSeq(longer, k, n) = SubSeq(records, k, n)
    BY <1>1, <2>1
  <2> QED
    BY <2>5, <2>6
<1>4. k <= n => records[k].ts >= t0 + c
  BY <1>1, <1>2
<1>5. ASSUME NEW i \in 1..(k - 1) PROVE ~(records[i].ts >= t0 + c)
  <2>1. i \in 1..n /\ ~(k <= i)
    BY <1>1, <1>2
  <2> QED
    BY <1>2, <2>1
<1> QED
  BY <1>3, <1>4, <1>5

(* Of records ordered by time the slice holds none from before the          *)
(* injection, whatever earlier runs left in the storage.                    *)
(* (run_experiment.py:47-55)                                                *)
THEOREM SinceInjection ==
  ASSUME NEW records \in Lists, NEW t0 \in Nat, NEW c \in Nat, NEW r \in Warning,
         \A i, j \in 1..Len(records) : i <= j => records[i].ts <= records[j].ts
  PROVE  LET slice == LogSlice(Append(records, r), t0, c)
         IN \A i \in 1..Len(slice) : slice[i].ts >= t0 + c
<1> DEFINE n == Len(records)
<1>1. PICK k \in 1..(n + 1) :
        /\ k <= Len(records) => records[k].ts >= t0 + c
        /\ \A i \in 1..(k - 1) : ~(records[i].ts >= t0 + c)
        /\ \A q \in Warning :
             LogSlice(Append(records, q), t0, c) = SubSeq(records, k, Len(records))
  BY SliceOfAppended
<1>2. n \in Nat /\ k \in Nat
  BY DEF Lists
<1>3. ASSUME NEW i \in 1..Len(SubSeq(records, k, n))
      PROVE  SubSeq(records, k, n)[i].ts >= t0 + c
  <2>1. /\ i \in 1..(n - k + 1) /\ k <= n
        /\ SubSeq(records, k, n)[i] = records[k + i - 1]
    BY <1>2, <1>3 DEF Lists
  <2>2. k + i - 1 \in 1..n /\ k \in 1..n /\ k <= k + i - 1
    BY <1>1, <1>2, <2>1
  <2>3. records[k].ts \in Nat /\ records[k + i - 1].ts \in Nat
    <3>1. records[k] \in Warning /\ records[k + i - 1] \in Warning
      BY <2>2 DEF Lists
    <3>2. \A q \in Warning : q.ts \in Nat
      BY CongestionLogAssumption DEF Warning
    <3> QED
      BY <3>1, <3>2
  <2>4. records[k].ts <= records[k + i - 1].ts
    BY <2>2
  <2>5. records[k].ts >= t0 + c
    BY <1>1, <2>1
  <2>6. records[k + i - 1].ts >= t0 + c
    BY <2>3, <2>4, <2>5
  <2> QED
    BY <2>1, <2>6
<1> QED
  BY <1>1, <1>3

(* No verdict depends on the newest record: whatever it is, the interval    *)
(* has no end, and the slice leaves the last record out.                    *)
(* (run_experiment.py:51-55)                                                *)
THEOREM NewestIgnored ==
  ASSUME NEW records \in Lists, NEW t0 \in Nat, NEW c \in Nat,
         NEW r \in Warning, NEW s \in Warning
  PROVE  FindCongestion(Append(records, r), t0, c)
           = FindCongestion(Append(records, s), t0, c)
<1>1. PICK k \in 1..(Len(records) + 1) :
        /\ k <= Len(records) => records[k].ts >= t0 + c
        /\ \A i \in 1..(k - 1) : ~(records[i].ts >= t0 + c)
        /\ \A q \in Warning :
             LogSlice(Append(records, q), t0, c) = SubSeq(records, k, Len(records))
  BY SliceOfAppended
<1>2. LogSlice(Append(records, r), t0, c) = LogSlice(Append(records, s), t0, c)
  BY <1>1
<1> QED
  BY <1>2 DEF FindCongestion

--------------------------------------------------------------------------------

(* A list whose records are in the order of their times. *)
Ordered(list) ==
  \A i, j \in 1..Len(list) : i <= j => list[i].ts <= list[j].ts

(* The records that come before the i-th one, and how many they are. *)
Earlier(list, i) == {j \in DOMAIN list : Before(list, j, i)}
Rank(list, i) == Cardinality(Earlier(list, i))

LEMMA RecordTypes ==
  ASSUME NEW list \in Lists
  PROVE  /\ Len(list) \in Nat /\ DOMAIN list = 1..Len(list)
         /\ \A i \in 1..Len(list) :
              list[i] \in Warning /\ list[i].ts \in Nat /\ list[i].ts <= MaxTime
              /\ list[i].node \in Nodes
<1>1. ASSUME NEW i \in 1..Len(list) PROVE list[i] \in Warning
  BY DEF Lists
<1>2. ASSUME NEW r \in Warning
      PROVE  r.ts \in Nat /\ r.ts <= MaxTime /\ r.node \in Nodes
  BY CongestionLogAssumption DEF Warning
<1>3. Len(list) \in Nat /\ DOMAIN list = 1..Len(list)
  BY DEF Lists
<1> QED
  BY <1>1, <1>2, <1>3

LEMMA Counting ==
  ASSUME NEW n \in Nat
  PROVE  /\ IsFiniteSet(1..n) /\ Cardinality(1..n) = n
         /\ IsFiniteSet(0..(n - 1)) /\ Cardinality(0..(n - 1)) = n
<1>1. 1 \in Int /\ 0 \in Int /\ n \in Int /\ n - 1 \in Int
  OBVIOUS
<1>2. IsFiniteSet(1..n) /\ Cardinality(1..n) = IF 1 > n THEN 0 ELSE n - 1 + 1
  BY <1>1, FS_Interval
<1>3. /\ IsFiniteSet(0..(n - 1))
      /\ Cardinality(0..(n - 1)) = IF 0 > n - 1 THEN 0 ELSE (n - 1) - 0 + 1
  BY <1>1, FS_Interval
<1> QED
  BY <1>2, <1>3

(* Of two records one comes before the other, and fewer come before it.     *)
LEMMA RankOrder ==
  ASSUME NEW list \in Lists
  PROVE  /\ \A i \in 1..Len(list) : Rank(list, i) \in 0..(Len(list) - 1)
         /\ \A i, j \in 1..Len(list) : Before(list, i, j) => Rank(list, i) < Rank(list, j)
         /\ \A i, j \in 1..Len(list) : i # j => Before(list, i, j) \/ Before(list, j, i)
<1> DEFINE n == Len(list)
<1>1. /\ n \in Nat /\ DOMAIN list = 1..n
      /\ \A i \in 1..n : list[i].ts \in Nat
  BY RecordTypes
<1>2. IsFiniteSet(1..n) /\ Cardinality(1..n) = n
  BY <1>1, Counting
<1>3. ASSUME NEW i \in 1..n
      PROVE  /\ Earlier(list, i) \subseteq 1..n /\ i \notin Earlier(list, i)
             /\ IsFiniteSet(Earlier(list, i)) /\ Rank(list, i) \in 0..(n - 1)
  <2>1. Earlier(list, i) \subseteq 1..n /\ i \notin Earlier(list, i)
    BY <1>1 DEF Earlier, Before
  <2>2. /\ IsFiniteSet(Earlier(list, i)) /\ Cardinality(Earlier(list, i)) <= n
        /\ Cardinality(Earlier(list, i)) # n
    BY <1>2, <2>1, FS_Subset
  <2>3. Cardinality(Earlier(list, i)) \in Nat
    BY <2>2, FS_CardinalityType
  <2> QED
    BY <1>1, <2>1, <2>2, <2>3 DEF Rank
<1>4. ASSUME NEW i \in 1..n, NEW j \in 1..n, Before(list, i, j)
      PROVE  Rank(list, i) < Rank(list, j)
  <2>1. Earlier(list, i) \subseteq Earlier(list, j)
    <3> SUFFICES ASSUME NEW k \in 1..n, Before(list, k, i) PROVE Before(list, k, j)
      BY <1>1 DEF Earlier
    <3>1. list[i].ts \in Nat /\ list[j].ts \in Nat /\ list[k].ts \in Nat
      BY <1>1
    <3> QED
      BY <1>1, <1>4, <3>1 DEF Before
  <2>2. i \in Earlier(list, j) /\ i \notin Earlier(list, i)
    BY <1>1, <1>3, <1>4 DEF Earlier
  <2>3. /\ Cardinality(Earlier(list, i)) <= Cardinality(Earlier(list, j))
        /\ Cardinality(Earlier(list, i)) # Cardinality(Earlier(list, j))
    BY <1>3, <2>1, <2>2, FS_Subset
  <2>4. Rank(list, i) \in 0..(n - 1) /\ Rank(list, j) \in 0..(n - 1)
    BY <1>3
  <2> QED
    BY <1>1, <2>3, <2>4 DEF Rank
<1>5. ASSUME NEW i \in 1..n, NEW j \in 1..n, i # j
      PROVE  Before(list, i, j) \/ Before(list, j, i)
  <2>1. list[i].ts \in Nat /\ list[j].ts \in Nat
    BY <1>1
  <2> QED
    BY <1>1, <1>5, <2>1 DEF Before
<1> QED
  BY <1>3, <1>4, <1>5

(* Each rank is that of one record. *)
LEMMA RankTaken ==
  ASSUME NEW list \in Lists, NEW k \in 1..Len(list)
  PROVE  \E i \in 1..Len(list) : Rank(list, i) = k - 1
<1> DEFINE n == Len(list)
           ranks == [i \in 1..n |-> Rank(list, i)]
<1> SUFFICES ASSUME \A i \in 1..n : Rank(list, i) # k - 1 PROVE FALSE
  OBVIOUS
<1>1. n \in Nat /\ k - 1 \in 0..(n - 1)
  BY RecordTypes
<1>2. IsFiniteSet(1..n) /\ Cardinality(1..n) = n
  BY <1>1, Counting
<1>3. IsFiniteSet(0..(n - 1)) /\ Cardinality(0..(n - 1)) = n
  BY <1>1, Counting
<1>4. /\ IsFiniteSet((0..(n - 1)) \ {k - 1})
      /\ Cardinality((0..(n - 1)) \ {k - 1}) = n - 1
  <2> DEFINE S == 0..(n - 1)
             x == k - 1
  <2>1. IsFiniteSet(S) /\ Cardinality(S) = n /\ x \in S
    BY <1>1, <1>3
  <2> HIDE DEF S, x
  <2>2. IsFiniteSet(S \ {x}) /\ Cardinality(S \ {x}) = n - 1
    BY <2>1, FS_RemoveElement
  <2> QED
    BY <2>2 DEF S, x
<1>5. ranks \in [1..n -> (0..(n - 1)) \ {k - 1}]
  BY RankOrder
<1>6. PICK i, j \in 1..n : i # j /\ ranks[i] = ranks[j]
  <2> DEFINE others == (0..(n - 1)) \ {k - 1}
  <2>1. Cardinality(others) < Cardinality(1..n)
    BY <1>1, <1>2, <1>4
  <2>2. IsFiniteSet(1..n) /\ IsFiniteSet(others) /\ ranks \in [1..n -> others]
    BY <1>2, <1>4, <1>5
  <2> HIDE DEF others, ranks
  <2> QED
    BY <2>1, <2>2, FS_PigeonHole
<1>7. Rank(list, i) = Rank(list, j) /\ Rank(list, i) \in 0..(n - 1)
  BY <1>6, RankOrder
<1>8. Rank(list, i) < Rank(list, j) \/ Rank(list, j) < Rank(list, i)
  BY <1>6, RankOrder
<1> QED
  BY <1>1, <1>7, <1>8

(* The sort keeps every record once, orders them by time, and those of one  *)
(* time as they were listed. (run_experiment.py:93)                         *)
THEOREM Sorting ==
  ASSUME NEW list \in Lists
  PROVE  LET n == Len(list) IN
         \E at \in [1..n -> 1..n] :
           /\ SortedByTime(list) = [k \in 1..n |-> list[at[k]]]
           /\ \A i \in 1..n : \E k \in 1..n : at[k] = i
           /\ \A k, l \in 1..n : k < l => Before(list, at[k], at[l])
<1> DEFINE n == Len(list)
           At(k) == CHOOSE i \in 1..n : Rank(list, i) = k - 1
           at == [k \in 1..n |-> At(k)]
<1>1. n \in Nat /\ DOMAIN list = 1..n
  BY RecordTypes
<1>2. ASSUME NEW k \in 1..n PROVE at[k] \in 1..n /\ Rank(list, at[k]) = k - 1
  BY RankTaken
<1>3. at \in [1..n -> 1..n]
  BY <1>2
<1>4. SortedByTime(list) = [k \in 1..n |-> list[at[k]]]
  BY <1>1 DEF SortedByTime, Rank, Earlier
<1>5. ASSUME NEW k \in 1..n, NEW l \in 1..n, k < l
      PROVE  Before(list, at[k], at[l])
  <2>1. /\ at[k] \in 1..n /\ Rank(list, at[k]) = k - 1
        /\ at[l] \in 1..n /\ Rank(list, at[l]) = l - 1
    BY <1>2
  <2>2. at[k] # at[l] /\ ~(Rank(list, at[l]) < Rank(list, at[k]))
    BY <1>1, <1>5, <2>1
  <2> QED
    BY <2>1, <2>2, RankOrder
<1>6. ASSUME NEW i \in 1..n PROVE \E k \in 1..n : at[k] = i
  <2>1. Rank(list, i) \in 0..(n - 1)
    BY RankOrder
  <2>2. PICK k \in 1..n : k - 1 = Rank(list, i)
    <3>1. Rank(list, i) + 1 \in 1..n /\ (Rank(list, i) + 1) - 1 = Rank(list, i)
      BY <1>1, <2>1
    <3> QED
      BY <3>1
  <2>3. at[k] \in 1..n /\ Rank(list, at[k]) = Rank(list, i)
    BY <1>2, <2>2
  <2>4. at[k] = i
    <3> SUFFICES ASSUME at[k] # i PROVE FALSE
      OBVIOUS
    <3>1. Rank(list, i) < Rank(list, at[k]) \/ Rank(list, at[k]) < Rank(list, i)
      BY <2>3, RankOrder
    <3> QED
      BY <2>1, <2>3, <3>1
  <2> QED
    BY <2>4
<1> QED
  BY <1>3, <1>4, <1>5, <1>6

LEMMA SortedList ==
  ASSUME NEW list \in Lists
  PROVE  /\ SortedByTime(list) \in Lists /\ Ordered(SortedByTime(list))
         /\ Len(SortedByTime(list)) = Len(list)
         /\ \A S : (\A i \in 1..Len(list) : list[i] \in S) =>
                   (\A i \in 1..Len(list) : SortedByTime(list)[i] \in S)
<1> DEFINE n == Len(list)
           sorted == SortedByTime(list)
<1>1. PICK at \in [1..n -> 1..n] :
        /\ sorted = [k \in 1..n |-> list[at[k]]]
        /\ \A k, l \in 1..n : k < l => Before(list, at[k], at[l])
  BY Sorting
<1>2. n \in Nat /\ \A i \in 1..n : list[i] \in Warning /\ list[i].ts \in Nat
  BY RecordTypes
<1>3. sorted \in Seq(Warning) /\ Len(sorted) = n
  BY <1>1, <1>2
<1>4. Ordered(sorted)
  <2> SUFFICES ASSUME NEW i \in 1..n, NEW j \in 1..n, i <= j
               PROVE  sorted[i].ts <= sorted[j].ts
    BY <1>3 DEF Ordered
  <2>1. sorted[i] = list[at[i]] /\ sorted[j] = list[at[j]]
    BY <1>1
  <2>2. at[i] \in 1..n /\ at[j] \in 1..n
    BY <1>1
  <2>3. list[at[i]].ts \in Nat /\ list[at[j]].ts \in Nat
    BY <1>2, <2>2
  <2>4. i = j \/ Before(list, at[i], at[j])
    BY <1>1, <1>2
  <2> QED
    BY <2>1, <2>3, <2>4 DEF Before
<1> QED
  BY <1>1, <1>3, <1>4 DEF Lists

--------------------------------------------------------------------------------

(* The records at which the node is another than that of the one before. *)
Turns(list) == {i \in 2..Len(list) : list[i - 1].node # list[i].node}

LEMMA TwoNodes ==
  ASSUME NEW a, NEW b, a # b
  PROVE  Cardinality({a, b}) = 2
<1>1. IsFiniteSet({a}) /\ Cardinality({a}) = 1
  BY FS_Singleton
<1>2. Cardinality({a} \cup {b}) = 2
  BY <1>1, FS_AddElement
<1>3. {a} \cup {b} = {a, b}
  OBVIOUS
<1> QED
  BY <1>2, <1>3

(* Induction, for a set of counterexamples: it is empty, for it has no      *)
(* least element.                                                           *)
LEMMA NoCounterexample ==
  ASSUME NEW T \in SUBSET Nat, 0 \notin T, \A m \in Nat : m \notin T => m + 1 \notin T
  PROVE  T = {}
<1> SUFFICES ASSUME T # {} PROVE FALSE
  OBVIOUS
<1>1. PICK m \in T : \A i \in T : m <= i
  BY Least
<1>2. m \in Nat /\ m # 0
  BY <1>1
<1>3. m - 1 \in Nat /\ ~(m <= m - 1) /\ (m - 1) + 1 = m
  BY <1>2
<1>4. m - 1 \notin T
  BY <1>1, <1>3
<1> QED
  BY <1>1, <1>3, <1>4

(* The loop over the records has a dict after each of them.                 *)
LoopOf(list, m, g) ==
  g = [i \in 0..m |-> IF i = 0 THEN <<>> ELSE Add(g[i - 1], list[i])]

LEMMA DictsExist ==
  ASSUME NEW list \in Lists
  PROVE  \A m \in Nat : \E g : LoopOf(list, m, g)
<1> DEFINE T == {m \in Nat : ~\E g : LoopOf(list, m, g)}
<1>1. 0 \notin T
  <2>1. LoopOf(list, 0, [i \in 0..0 |-> <<>>])
    BY DEF LoopOf
  <2> QED
    BY <2>1
<1>2. ASSUME NEW m \in Nat, m \notin T PROVE m + 1 \notin T
  <2>1. PICK g : LoopOf(list, m, g)
    BY <1>2
  <2> DEFINE h == [i \in 0..(m + 1) |-> IF i = m + 1 THEN Add(g[m], list[m + 1]) ELSE g[i]]
             f == [i \in 0..(m + 1) |-> IF i = 0 THEN <<>> ELSE Add(h[i - 1], list[i])]
  <2>2. ASSUME NEW i \in 0..(m + 1) PROVE h[i] = f[i]
    <3>1. CASE i = m + 1
      <4>1. i - 1 = m /\ m \in 0..(m + 1) /\ m # m + 1 /\ i # 0
        BY <3>1
      <4> QED
        BY <3>1, <4>1
    <3>2. CASE i \in 0..m
      <4>1. g[i] = IF i = 0 THEN <<>> ELSE Add(g[i - 1], list[i])
        BY <2>1, <3>2 DEF LoopOf
      <4>2. i # m + 1 /\ (i # 0 => i - 1 \in 0..(m + 1) /\ i - 1 # m + 1)
        BY <3>2
      <4> QED
        BY <4>1, <4>2
    <3> QED
      BY <3>1, <3>2
  <2>3. h = f
    BY <2>2
  <2>4. LoopOf(list, m + 1, h)
    BY <2>3 DEF LoopOf
  <2> QED
    BY <2>4
<1>3. T = {}
  <2> HIDE DEF T
  <2>1. T \in SUBSET Nat
    BY DEF T
  <2> QED
    BY <1>1, <1>2, <2>1, NoCounterexample
<1> QED
  BY <1>3

LEMMA DictIsLoop ==
  ASSUME NEW list \in Lists
  PROVE  \E g : LoopOf(list, Len(list), g) /\ CongestionDict(list) = g[Len(list)]
<1> DEFINE after == CHOOSE g : LoopOf(list, Len(list), g)
<1>1. Len(list) \in Nat
  BY RecordTypes
<1>2. LoopOf(list, Len(list), after)
  BY <1>1, DictsExist
<1>3. CongestionDict(list) = after[Len(list)]
  BY DEF CongestionDict, LoopOf
<1> QED
  BY <1>2, <1>3

(* What the dict d holds after the i-th record: the last of one node so far, *)
(* and once a second node has come, what it held then.                      *)
FirstTurn(list, c) == c \in Turns(list) /\ \A j \in Turns(list) : c <= j

Holds(list, d, i) ==
  /\ (\A j \in Turns(list) : i < j) =>
       DOMAIN d = {list[i].node} /\ d[list[i].node] = list[i].ts
  /\ \A c \in 1..i : FirstTurn(list, c) =>
       /\ DOMAIN d = {list[c - 1].node, list[c].node}
       /\ d[list[c - 1].node] = list[c - 1].ts
       /\ d[list[c].node] = list[c].ts

LEMMA FirstHolds ==
  ASSUME NEW list \in Lists, Len(list) > 0
  PROVE  Holds(list, Add(<<>>, list[1]), 1)
<1>1. DOMAIN <<>> = {} /\ Cardinality({}) = 0
  BY FS_EmptySet
<1>2. Add(<<>>, list[1]) = Put(<<>>, list[1].node, list[1].ts)
  BY <1>1 DEF Add
<1>3. /\ DOMAIN Put(<<>>, list[1].node, list[1].ts) = {list[1].node}
      /\ Put(<<>>, list[1].node, list[1].ts)[list[1].node] = list[1].ts
  BY <1>1 DEF Put
<1>4. \A c \in 1..1 : ~FirstTurn(list, c)
  BY DEF FirstTurn, Turns
<1> QED
  BY <1>2, <1>3, <1>4 DEF Holds

LEMMA HoldsOn ==
  ASSUME NEW list \in Lists, NEW i \in 1..(Len(list) - 1), NEW d, Holds(list, d, i)
  PROVE  Holds(list, Add(d, list[i + 1]), i + 1)
<1> DEFINE a == list[i]
           b == list[i + 1]
           e == Add(d, b)
           Before1 == \A j \in Turns(list) : i < j
<1>1. /\ Len(list) \in Nat /\ i \in Nat /\ i + 1 \in 2..Len(list) /\ (i + 1) - 1 = i
      /\ Turns(list) \subseteq 2..Len(list)
  BY RecordTypes DEF Turns
<1>2. CASE Before1 /\ a.node = b.node
  <2>1. DOMAIN d = {a.node}
    BY <1>2 DEF Holds
  <2>2. Cardinality(DOMAIN d) = 1
    BY <2>1, FS_Singleton
  <2>3. e = Put(d, b.node, b.ts)
    BY <2>2 DEF Add
  <2>4. DOMAIN e = {b.node} /\ e[b.node] = b.ts
    BY <1>2, <2>1, <2>3 DEF Put
  <2>5. i + 1 \notin Turns(list)
    BY <1>1, <1>2 DEF Turns
  <2>6. \A c \in 1..(i + 1) : ~FirstTurn(list, c)
    BY <1>1, <1>2, <2>5 DEF FirstTurn
  <2> QED
    BY <2>4, <2>6 DEF Holds
<1>3. CASE Before1 /\ a.node # b.node
  <2>1. DOMAIN d = {a.node} /\ d[a.node] = a.ts
    BY <1>3 DEF Holds
  <2>2. Cardinality(DOMAIN d) = 1
    BY <2>1, FS_Singleton
  <2>3. e = Put(d, b.node, b.ts)
    BY <2>2 DEF Add
  <2>4. DOMAIN e = {a.node, b.node} /\ e[b.node] = b.ts /\ e[a.node] = a.ts
    BY <1>3, <2>1, <2>3 DEF Put
  <2>5. i + 1 \in Turns(list)
    BY <1>1, <1>3 DEF Turns
  <2>6. \A c \in 1..(i + 1) : FirstTurn(list, c) => c = i + 1
    BY <1>1, <1>3, <2>5 DEF FirstTurn
  <2>7. ~(\A j \in Turns(list) : i + 1 < j)
    BY <1>1, <2>5
  <2>8. ASSUME NEW c \in 1..(i + 1), FirstTurn(list, c)
        PROVE  /\ DOMAIN e = {list[c - 1].node, list[c].node}
               /\ e[list[c - 1].node] = list[c - 1].ts
               /\ e[list[c].node] = list[c].ts
    <3>1. c = i + 1 /\ list[c - 1] = a /\ list[c] = b
      BY <1>1, <2>6, <2>8
    <3> HIDE DEF a, b, e
    <3> QED
      BY <2>4, <3>1
  <2> QED
    BY <2>7, <2>8 DEF Holds
<1>4. CASE ~Before1
  <2>1. PICK c \in Turns(list) : \A j \in Turns(list) : c <= j
    <3>1. Turns(list) \in SUBSET Nat /\ Turns(list) # {}
      BY <1>1, <1>4
    <3> QED
      BY <3>1, Least
  <2>2. c \in 1..i /\ FirstTurn(list, c)
    BY <1>1, <1>4, <2>1 DEF FirstTurn
  <2>3. DOMAIN d = {list[c - 1].node, list[c].node}
    BY <2>2 DEF Holds
  <2>4. list[c - 1].node # list[c].node
    BY DEF Turns
  <2>5. Cardinality(DOMAIN d) = 2
    <3> DEFINE x == list[c - 1].node
               y == list[c].node
    <3>1. x # y /\ DOMAIN d = {x, y}
      BY <2>3, <2>4
    <3> HIDE DEF x, y
    <3>2. Cardinality({x, y}) = 2
      BY <3>1, TwoNodes
    <3> QED
      BY <3>1, <3>2
  <2>6. e = d
    BY <2>5 DEF Add
  <2>7. \A j \in 1..(i + 1) : FirstTurn(list, j) => j \in 1..i
    BY <1>1, <2>1, <2>2 DEF FirstTurn
  <2>8. ~(\A j \in Turns(list) : i + 1 < j)
    BY <1>1, <2>1, <2>2
  <2> QED
    BY <2>6, <2>7, <2>8 DEF Holds
<1> QED
  BY <1>2, <1>3, <1>4

LEMMA DictHolds ==
  ASSUME NEW list \in Lists, Len(list) > 0
  PROVE  Holds(list, CongestionDict(list), Len(list))
<1> DEFINE n == Len(list)
<1>1. n \in Nat /\ n > 0
  BY RecordTypes
<1>2. PICK g : LoopOf(list, n, g) /\ CongestionDict(list) = g[n]
  BY DictIsLoop
<1> DEFINE T == {m \in Nat : m < n /\ ~Holds(list, g[m + 1], m + 1)}
<1>3. \A i \in 1..n : g[i] = Add(g[i - 1], list[i])
  BY <1>1, <1>2 DEF LoopOf
<1>4. 0 \notin T
  <2>1. g[0] = <<>>
    BY <1>1, <1>2 DEF LoopOf
  <2>2. g[1] = Add(<<>>, list[1])
    BY <1>1, <1>3, <2>1
  <2> QED
    BY <1>1, <2>2, FirstHolds
<1>5. ASSUME NEW m \in Nat, m \notin T PROVE m + 1 \notin T
  <2> SUFFICES ASSUME m + 1 < n PROVE Holds(list, g[m + 2], m + 2)
    OBVIOUS
  <2>1. m < n /\ m + 1 \in 1..(n - 1) /\ (m + 1) + 1 = m + 2 /\ m + 2 \in 1..n
        /\ (m + 2) - 1 = m + 1
    BY <1>1
  <2>2. Holds(list, g[m + 1], m + 1)
    BY <1>5, <2>1
  <2>3. Holds(list, Add(g[m + 1], list[(m + 1) + 1]), (m + 1) + 1)
    BY <2>1, <2>2, HoldsOn
  <2>4. g[m + 2] = Add(g[m + 1], list[m + 2])
    BY <1>3, <2>1
  <2> QED
    BY <2>1, <2>3, <2>4
<1>6. T = {}
  <2> HIDE DEF T
  <2>1. T \in SUBSET Nat
    BY DEF T
  <2> QED
    BY <1>4, <1>5, <2>1, NoCounterexample
<1>7. n - 1 \in Nat /\ n - 1 < n /\ (n - 1) + 1 = n
  BY <1>1
<1>8. Holds(list, g[n], n)
  BY <1>6, <1>7
<1> QED
  BY <1>2, <1>8

(* The verdict on a slice of ordered records: there is one exactly if the   *)
(* node changes, and it is of the record before the first change.           *)
LEMMA VerdictOfSlice ==
  ASSUME NEW slice \in Lists, Ordered(slice), NEW t0 \in Nat,
         \A i \in 1..Len(slice) : slice[i].ts >= t0
  PROVE  LET dict == CongestionDict(slice)
         IN  /\ Turns(slice) = {} => ~(Cardinality(DOMAIN dict) > 1)
             /\ \A c \in Turns(slice) : FirstTurn(slice, c) =>
                  /\ Cardinality(DOMAIN dict) > 1
                  /\ Min({dict[n] - t0 : n \in DOMAIN dict}) = slice[c - 1].ts - t0
<1> DEFINE n == Len(slice)
           dict == CongestionDict(slice)
<1>1. n \in Nat /\ Turns(slice) \subseteq 2..n
  BY RecordTypes DEF Turns
<1>2. CASE n = 0
  <2>1. PICK g : LoopOf(slice, n, g) /\ dict = g[n]
    BY DictIsLoop
  <2>2. dict = <<>>
    BY <1>2, <2>1 DEF LoopOf
  <2>3. Cardinality(DOMAIN dict) = 0
    BY <2>2, FS_EmptySet
  <2>4. Turns(slice) = {}
    BY <1>1, <1>2
  <2> QED
    BY <2>3, <2>4
<1>3. CASE n > 0
  <2>1. Holds(slice, dict, n)
    BY <1>3, DictHolds
  <2>2. ASSUME Turns(slice) = {} PROVE ~(Cardinality(DOMAIN dict) > 1)
    <3>1. DOMAIN dict = {slice[n].node}
      BY <2>1, <2>2 DEF Holds
    <3>2. Cardinality(DOMAIN dict) = 1
      BY <3>1, FS_Singleton
    <3> QED
      BY <3>2
  <2>3. ASSUME NEW c \in Turns(slice), FirstTurn(slice, c)
        PROVE  /\ Cardinality(DOMAIN dict) > 1
               /\ Min({dict[m] - t0 : m \in DOMAIN dict}) = slice[c - 1].ts - t0
    <3> DEFINE x == slice[c - 1].node
               y == slice[c].node
               u == slice[c - 1].ts
               v == slice[c].ts
    <3>1. c \in 2..n /\ c \in 1..n /\ c - 1 \in 1..n /\ c - 1 <= c
      BY <1>1, <2>3
    <3>2. x # y
      BY DEF Turns
    <3>3. DOMAIN dict = {x, y} /\ dict[x] = u /\ dict[y] = v
      BY <2>1, <2>3, <3>1 DEF Holds
    <3>4. u \in Nat /\ v \in Nat /\ u >= t0 /\ u <= v
      <4>1. u \in Nat /\ v \in Nat
        BY <3>1, RecordTypes
      <4> QED
        BY <3>1, <4>1 DEF Ordered
    <3> HIDE DEF x, y, u, v, dict
    <3>5. Cardinality(DOMAIN dict) = 2
      <4>1. Cardinality({x, y}) = 2
        BY <3>2, TwoNodes
      <4> QED
        BY <3>3, <4>1
    <3>6. {dict[m] - t0 : m \in DOMAIN dict} = {u - t0, v - t0}
      BY <3>3
    <3>7. Min({u - t0, v - t0}) = u - t0
      <4>1. {u - t0, v - t0} \in SUBSET Nat /\ \A i \in {u - t0, v - t0} : u - t0 <= i
        BY <3>4
      <4> QED
        BY <4>1, MinOf
    <3>8. Cardinality(DOMAIN dict) > 1
      BY <3>5
    <3>9. Min({dict[m] - t0 : m \in DOMAIN dict}) = u - t0
      BY <3>6, <3>7
    <3> QED
      BY <3>8, <3>9 DEF u
  <2> QED
    BY <2>2, <2>3
<1>4. n = 0 \/ n > 0
  BY <1>1
<1> QED
  BY <1>2, <1>3, <1>4

(* The slice of ordered records: those since the injection, but the newest. *)
LEMMA SliceOf ==
  ASSUME NEW list \in Lists, Ordered(list), Len(list) > 0, NEW t0 \in Nat, NEW c \in Nat
  PROVE  \E k \in 1..Len(list) :
           /\ LogSlice(list, t0, c) = SubSeq(list, k, Len(list) - 1)
           /\ \A i \in 1..(Len(list) - 1) : list[i].ts >= t0 + c <=> k <= i
<1> DEFINE n == Len(list)
           front == SubSeq(list, 1, n - 1)
<1>1. n \in Nat /\ n - 1 \in Nat
  BY RecordTypes
<1>2. /\ front \in Lists /\ Len(front) = n - 1
      /\ \A i \in 1..(n - 1) : front[i] = list[i]
  <2>1. list \in Seq(Warning)
    BY DEF Lists
  <2>2. /\ 1 \in Int /\ n - 1 \in Int /\ (n - 1) - 1 + 1 = n - 1
        /\ \A i \in 1..(n - 1) : list[i] \in Warning /\ 1 + i - 1 = i
    BY <1>1, <2>1
  <2>3. /\ front \in Seq(Warning)
        /\ Len(front) = IF 1 <= n - 1 THEN (n - 1) - 1 + 1 ELSE 0
        /\ \A i \in 1..((n - 1) - 1 + 1) : front[i] = list[1 + i - 1]
    BY <2>2, SubSeqProperties
  <2>4. Len(front) = n - 1 /\ \A i \in 1..(n - 1) : front[i] = list[i]
    BY <1>1, <2>2, <2>3
  <2> QED
    BY <2>3, <2>4 DEF Lists
<1>3. list[n] \in Warning
  BY <1>1, RecordTypes
<1>4. Append(front, list[n]) = list
  <2>1. Append(front, list[n]) \in Seq(Warning) /\ list \in Seq(Warning)
    BY <1>2, <1>3 DEF Lists
  <2>2. Len(Append(front, list[n])) = n
    BY <1>1, <1>2 DEF Lists
  <2>3. \A i \in 1..n : Append(front, list[n])[i] = list[i]
    BY <1>1, <1>2 DEF Lists
  <2> QED
    BY <2>1, <2>2, <2>3, SeqEqual
<1>5. PICK k \in 1..(Len(front) + 1) :
        /\ k <= Len(front) => front[k].ts >= t0 + c
        /\ \A i \in 1..(k - 1) : ~(front[i].ts >= t0 + c)
        /\ \A r \in Warning : LogSlice(Append(front, r), t0, c) = SubSeq(front, k, Len(front))
  BY <1>2, SliceOfAppended
<1>6. k \in 1..n
  BY <1>1, <1>2, <1>5
<1>7. LogSlice(list, t0, c) = SubSeq(front, k, n - 1)
  BY <1>2, <1>3, <1>4, <1>5
<1>8. SubSeq(front, k, n - 1) = SubSeq(list, k, n - 1)
  BY <1>1, <1>2, <1>6 DEF Lists
<1>9. ASSUME NEW i \in 1..(n - 1)
      PROVE  list[i].ts >= t0 + c <=> k <= i
  <2>1. list[i].ts \in Nat /\ i \in 1..n /\ front[i] = list[i]
    BY <1>1, <1>2, RecordTypes
  <2>2. CASE k <= i
    <3>1. k \in 1..(n - 1) /\ list[k].ts \in Nat /\ front[k] = list[k]
      BY <1>1, <1>2, <1>6, <2>2, RecordTypes
    <3>2. list[k].ts >= t0 + c /\ list[k].ts <= list[i].ts
      BY <1>2, <1>5, <1>6, <2>1, <2>2, <3>1 DEF Ordered
    <3> QED
      BY <2>1, <2>2, <3>1, <3>2
  <2>3. CASE ~(k <= i)
    <3>1. i \in 1..(k - 1)
      BY <1>6, <2>3
    <3> QED
      BY <1>5, <2>1, <2>3, <3>1
  <2> QED
    BY <2>2, <2>3
<1> QED
  BY <1>6, <1>7, <1>8, <1>9

(* Where the node changes among the records since a time, but the newest. *)
Changes(list, since) ==
  {i \in 2..(Len(list) - 1) : list[i - 1].ts >= since /\ list[i - 1].node # list[i].node}

LEMMA SubList ==
  ASSUME NEW list \in Lists, NEW k \in 1..Len(list)
  PROVE  LET slice == SubSeq(list, k, Len(list) - 1)
         IN  /\ slice \in Lists /\ Len(slice) = Len(list) - k
             /\ \A j \in 1..(Len(list) - k) : slice[j] = list[k + j - 1]
<1> DEFINE n == Len(list)
           slice == SubSeq(list, k, n - 1)
<1>1. n \in Nat /\ k \in Int /\ n - 1 \in Int /\ k <= n
  BY RecordTypes
<1>2. \A i \in k..(n - 1) : list[i] \in Warning
  BY <1>1, RecordTypes
<1>3. /\ slice \in Seq(Warning)
      /\ Len(slice) = IF k <= n - 1 THEN (n - 1) - k + 1 ELSE 0
      /\ \A j \in 1..((n - 1) - k + 1) : slice[j] = list[k + j - 1]
  BY <1>1, <1>2, SubSeqProperties
<1>4. (n - 1) - k + 1 = n - k /\ (~(k <= n - 1) => n - k = 0)
  BY <1>1
<1>5. Len(slice) = n - k /\ \A j \in 1..(n - k) : slice[j] = list[k + j - 1]
  BY <1>1, <1>3, <1>4
<1> QED
  BY <1>3, <1>5 DEF Lists

LEMMA NoRecords ==
  ASSUME NEW list \in Lists, Len(list) = 0, NEW t0 \in Nat, NEW c \in Nat
  PROVE  FindCongestion(list, t0, c) = None
<1>1. list = <<>>
  BY DEF Lists
<1>2. IndexFrom(list, t0 + c) = -1 /\ IndexFrom(list, t0 + c + Period) = -1
  <2>1. ASSUME NEW t PROVE {i \in 1..Len(list) : list[i].ts >= t} = {}
    OBVIOUS
  <2> QED
    BY <2>1 DEF IndexFrom, SelectInSeq
<1>3. Max({0, -1}) = 0
  BY DEF Max
<1>4. LogSlice(list, t0, c) = SubSeq(list, 1, 0)
  <2>1. Slice(list, -1, -1) = SubSeq(list, Max({0, 0 + (-1)}) + 1, Max({0, 0 + (-1)}))
    BY DEF Slice
  <2>2. Slice(list, -1, -1) = SubSeq(list, 1, 0)
    BY <1>3, <2>1
  <2> QED
    BY <1>2, <2>2 DEF LogSlice
<1>5. LogSlice(list, t0, c) = <<>>
  BY <1>1, <1>4
<1>6. <<>> \in Lists /\ Len(<<>>) = 0 /\ Ordered(<<>>) /\ Turns(<<>>) = {}
  BY DEF Lists, Ordered, Turns
<1>7. ~(Cardinality(DOMAIN CongestionDict(<<>>)) > 1)
  BY <1>6, VerdictOfSlice
<1> QED
  BY <1>5, <1>7 DEF FindCongestion

(* What find_congestion returns of records ordered by time: a verdict if    *)
(* and only if the node changes among those since the injection, but the    *)
(* newest of all, and then the time of the last record before the change.   *)
(* (run_experiment.py:47-66)                                                *)
THEOREM Verdict ==
  ASSUME NEW list \in Lists, Ordered(list), NEW t0 \in Nat, NEW c \in Nat
  PROVE  FindCongestion(list, t0, c)
           = IF Changes(list, t0 + c) = {} THEN None
             ELSE list[Min(Changes(list, t0 + c)) - 1].ts - t0
<1> DEFINE n == Len(list)
           C == Changes(list, t0 + c)
<1>1. n \in Nat
  BY RecordTypes
<1>2. CASE n = 0
  <2>1. C = {}
    BY <1>2 DEF Changes
  <2> QED
    BY <1>2, <2>1, NoRecords
<1>3. CASE n > 0
  <2>1. PICK k \in 1..n :
          /\ LogSlice(list, t0, c) = SubSeq(list, k, n - 1)
          /\ \A i \in 1..(n - 1) : list[i].ts >= t0 + c <=> k <= i
    BY <1>3, SliceOf
  <2> DEFINE slice == SubSeq(list, k, n - 1)
             dict == CongestionDict(slice)
  <2>2. /\ slice \in Lists /\ Len(slice) = n - k
        /\ \A j \in 1..(n - k) : slice[j] = list[k + j - 1]
    BY SubList
  <2>3. \A j \in 1..(n - k) : k + j - 1 \in 1..(n - 1) /\ k <= k + j - 1
    BY <1>1, <2>1
  <2> HIDE DEF slice
  <2>4. Ordered(slice)
    <3> SUFFICES ASSUME NEW i \in 1..(n - k), NEW j \in 1..(n - k), i <= j
                 PROVE  slice[i].ts <= slice[j].ts
      BY <2>2 DEF Ordered
    <3>1. k + i - 1 \in 1..n /\ k + j - 1 \in 1..n /\ k + i - 1 <= k + j - 1
      BY <1>1, <2>3
    <3> QED
      BY <2>2, <3>1 DEF Ordered
  <2>5. \A j \in 1..Len(slice) : slice[j].ts >= t0
    <3> SUFFICES ASSUME NEW j \in 1..(n - k) PROVE list[k + j - 1].ts >= t0
      BY <2>2
    <3>1. k + j - 1 \in 1..n /\ list[k + j - 1].ts >= t0 + c
      BY <1>1, <2>1, <2>3
    <3>2. list[k + j - 1].ts \in Nat
      BY <3>1, RecordTypes
    <3> QED
      BY <3>1, <3>2
  <2>6. \A j \in 2..(n - k) : j \in Turns(slice) <=> k + j - 1 \in C
    <3> SUFFICES ASSUME NEW j \in 2..(n - k)
                 PROVE  j \in Turns(slice) <=> k + j - 1 \in C
      OBVIOUS
    <3>1. /\ j - 1 \in 1..(n - k) /\ j \in 1..(n - k)
          /\ k + (j - 1) - 1 = (k + j - 1) - 1 /\ k + j - 1 \in 2..(n - 1)
          /\ (k + j - 1) - 1 \in 1..(n - 1) /\ k <= (k + j - 1) - 1
      BY <1>1, <2>1
    <3>2. slice[j] = list[k + j - 1] /\ slice[j - 1] = list[(k + j - 1) - 1]
      BY <2>2, <3>1
    <3>3. list[(k + j - 1) - 1].ts >= t0 + c
      BY <2>1, <3>1
    <3> QED
      BY <2>2, <3>1, <3>2, <3>3 DEF Turns, Changes
  <2>7. \A i \in C : i - k + 1 \in 2..(n - k) /\ k + (i - k + 1) - 1 = i
    <3> SUFFICES ASSUME NEW i \in C
                 PROVE  i - k + 1 \in 2..(n - k) /\ k + (i - k + 1) - 1 = i
      OBVIOUS
    <3>1. i \in 2..(n - 1) /\ i - 1 \in 1..(n - 1) /\ list[i - 1].ts >= t0 + c
      BY <1>1 DEF Changes
    <3>2. k <= i - 1
      BY <2>1, <3>1
    <3> QED
      BY <1>1, <2>1, <3>1, <3>2
  <2>8. FindCongestion(list, t0, c)
          = IF Cardinality(DOMAIN dict) > 1 THEN Min({dict[m] - t0 : m \in DOMAIN dict})
            ELSE None
    BY <2>1 DEF FindCongestion, slice
  <2>9. /\ Turns(slice) = {} => ~(Cardinality(DOMAIN dict) > 1)
        /\ \A j \in Turns(slice) : FirstTurn(slice, j) =>
             /\ Cardinality(DOMAIN dict) > 1
             /\ Min({dict[m] - t0 : m \in DOMAIN dict}) = slice[j - 1].ts - t0
    BY <2>2, <2>4, <2>5, VerdictOfSlice
  <2>10. CASE C = {}
    <3>1. Turns(slice) = {}
      BY <2>2, <2>6, <2>10 DEF Turns
    <3> QED
      BY <2>8, <2>9, <2>10, <3>1
  <2>11. CASE C # {}
    <3>1. C \in SUBSET Nat
      BY DEF Changes
    <3>2. PICK i \in C : \A j \in C : i <= j
      BY <2>11, <3>1, Least
    <3>3. Min(C) = i
      BY <3>1, <3>2, MinOf
    <3> DEFINE turn == i - k + 1
    <3>4. turn \in 2..(n - k) /\ turn \in Turns(slice)
      BY <2>6, <2>7
    <3>5. \A j \in Turns(slice) : turn <= j
      <4> SUFFICES ASSUME NEW j \in Turns(slice) PROVE turn <= j
        OBVIOUS
      <4>1. j \in 2..(n - k)
        BY <2>2 DEF Turns
      <4>2. i <= k + j - 1
        BY <2>6, <3>2, <4>1
      <4> QED
        BY <2>1, <3>1, <4>1, <4>2
    <3>6. Min({dict[m] - t0 : m \in DOMAIN dict}) = slice[turn - 1].ts - t0
          /\ Cardinality(DOMAIN dict) > 1
      BY <2>9, <3>4, <3>5 DEF FirstTurn
    <3>7. slice[turn - 1] = list[i - 1]
      <4>1. i \in Nat /\ k \in Nat /\ i - k + 1 \in 2..(n - k)
        BY <2>1, <3>1, <3>2, <3>4
      <4>2. turn - 1 \in 1..(n - k) /\ k + (turn - 1) - 1 = i - 1
        BY <1>1, <4>1
      <4> QED
        BY <2>2, <4>2
    <3> QED
      BY <2>8, <2>11, <3>3, <3>6, <3>7
  <2> QED
    BY <2>10, <2>11
<1>4. n = 0 \/ n > 0
  BY <1>1
<1> QED
  BY <1>2, <1>3, <1>4

(* There is a change among the records since a time exactly if they are not *)
(* all of one node: along records without a change the node stays.          *)
LEMMA ChangeIffTwo ==
  ASSUME NEW list \in Lists, Ordered(list), NEW since \in Nat
  PROVE  Changes(list, since) # {} <=>
           \E i, j \in 1..(Len(list) - 1) :
             /\ list[i].ts >= since /\ list[j].ts >= since
             /\ list[i].node # list[j].node
<1> DEFINE n == Len(list)
<1>1. n \in Nat
  BY RecordTypes
<1>2. ASSUME NEW i \in Changes(list, since)
      PROVE  \E a, b \in 1..(n - 1) :
               list[a].ts >= since /\ list[b].ts >= since /\ list[a].node # list[b].node
  <2>1. /\ i - 1 \in 1..(n - 1) /\ i \in 1..(n - 1) /\ i - 1 \in 1..n /\ i \in 1..n
        /\ i - 1 <= i /\ list[i - 1].ts >= since /\ list[i - 1].node # list[i].node
    BY <1>1 DEF Changes
  <2>2. list[i - 1].ts \in Nat /\ list[i].ts \in Nat /\ list[i - 1].ts <= list[i].ts
    <3>1. list[i - 1].ts \in Nat /\ list[i].ts \in Nat
      BY <2>1, RecordTypes
    <3> QED
      BY <2>1, <3>1 DEF Ordered
  <2>3. list[i].ts >= since
    BY <2>1, <2>2
  <2> QED
    BY <2>1, <2>3
<1>3. ASSUME Changes(list, since) = {}, NEW i \in 1..(n - 1), NEW j \in 1..(n - 1), i <= j,
             list[i].ts >= since
      PROVE  list[i].node = list[j].node
  <2> DEFINE T == {m \in Nat : i + m <= n - 1 /\ list[i + m].node # list[i].node}
  <2>1. 0 \notin T
    BY <1>1
  <2>2. ASSUME NEW m \in Nat, m \notin T PROVE m + 1 \notin T
    <3> SUFFICES ASSUME i + (m + 1) <= n - 1
                 PROVE  list[i + (m + 1)].node = list[i].node
      OBVIOUS
    <3>1. /\ i + m \in 1..n /\ i \in 1..n /\ i <= i + m /\ i + m <= n - 1
          /\ i + (m + 1) \in 2..(n - 1) /\ (i + (m + 1)) - 1 = i + m
      BY <1>1
    <3>2. list[i + m].node = list[i].node
      BY <2>2, <3>1
    <3>3. list[i + m].ts \in Nat /\ list[i].ts \in Nat /\ list[i].ts <= list[i + m].ts
      <4>1. list[i + m].ts \in Nat /\ list[i].ts \in Nat
        BY <3>1, RecordTypes
      <4> QED
        BY <3>1, <4>1 DEF Ordered
    <3>4. list[i + m].ts >= since
      BY <1>3, <3>3
    <3>5. i + (m + 1) \notin Changes(list, since)
      BY <1>3
    <3> QED
      BY <3>1, <3>2, <3>4, <3>5 DEF Changes
  <2>3. T = {}
    <3> HIDE DEF T
    <3>1. T \in SUBSET Nat
      BY DEF T
    <3> QED
      BY <2>1, <2>2, <3>1, NoCounterexample
  <2>4. j - i \in Nat /\ i + (j - i) = j /\ j <= n - 1
    BY <1>1, <1>3
  <2> QED
    BY <2>3, <2>4
<1>4. ASSUME Changes(list, since) = {}, NEW i \in 1..(n - 1), NEW j \in 1..(n - 1),
             list[i].ts >= since, list[j].ts >= since
      PROVE  list[i].node = list[j].node
  <2>1. i <= j \/ j <= i
    BY <1>1
  <2> QED
    BY <1>3, <1>4, <2>1
<1> QED
  BY <1>2, <1>4

(* A run is called congested exactly when the records since its injection,  *)
(* but the newest of all, are of more than one service: what the loop over  *)
(* the slice decides one record at a time. (run_experiment.py:47-66)        *)
THEOREM Criterion ==
  ASSUME NEW list \in Lists, Ordered(list), NEW t0 \in Nat, NEW c \in Nat
  PROVE  FindCongestion(list, t0, c) # None <=>
           \E i, j \in 1..(Len(list) - 1) :
             /\ list[i].ts >= t0 + c /\ list[j].ts >= t0 + c
             /\ list[i].node # list[j].node
<1> DEFINE C == Changes(list, t0 + c)
<1>0. t0 + c \in Nat
  OBVIOUS
<1>1. CASE C = {}
  <2>1. FindCongestion(list, t0, c) = None
    BY <1>1, Verdict
  <2> QED
    BY <1>0, <1>1, <2>1, ChangeIffTwo
<1>2. CASE C # {}
  <2>1. PICK i \in C : \A j \in C : i <= j
    <3>1. C \in SUBSET Nat
      BY DEF Changes
    <3> QED
      BY <1>2, <3>1, Least
  <2>2. Min(C) = i
    <3>1. C \in SUBSET Nat
      BY DEF Changes
    <3> QED
      BY <2>1, <3>1, MinOf
  <2>3. FindCongestion(list, t0, c) = list[i - 1].ts - t0
    BY <1>2, <2>2, Verdict
  <2>4. i - 1 \in 1..Len(list)
    <3>1. Len(list) \in Nat
      BY RecordTypes
    <3> QED
      BY <3>1 DEF Changes
  <2>5. list[i - 1].ts \in Nat
    BY <2>4, RecordTypes
  <2>6. list[i - 1].ts - t0 \in Int
    BY <2>5
  <2>7. FindCongestion(list, t0, c) # None
    BY <2>3, <2>6, CongestionLogAssumption
  <2> QED
    BY <1>0, <1>2, <2>7, ChangeIffTwo
<1> QED
  BY <1>1, <1>2

--------------------------------------------------------------------------------

(* The invariant the other theorems follow from: a verdict is that of the   *)
(* records that were read, and they are in order.  No run begins after the  *)
(* last.                                                                    *)
Timeline ==
  /\ platform \in Platforms /\ stage \in Stages
  /\ start \in 0..now /\ congestion \in 0..MaxTime
  /\ run \in 0..Runs
  /\ stage = "idle" => run = 0
  /\ stage \in {"idle", "started", "injected", "cleared"} => run < Runs

WasRead ==
  /\ IsFiniteSet(warned)
  /\ logs \in Lists /\ Ordered(logs)
  /\ \A i \in 1..Len(logs) : logs[i] \in warned
  /\ verdict \in 0..MaxTime \cup {None}
  /\ stage = "checked" => verdict = FindCongestion(logs, start, congestion)

IInv == Known /\ Timeline /\ WasRead

LEMMA InitIInv == Init => IInv
<1> SUFFICES ASSUME Init PROVE IInv
  OBVIOUS
<1>1. Known
  BY InitKnown
<1>2. Timeline
  BY CongestionLogAssumption DEF Init, Timeline, Stages
<1>3. WasRead
  BY FS_EmptySet DEF Init, WasRead, Lists, Ordered
<1> QED
  BY <1>1, <1>2, <1>3 DEF IInv

(* No time is reported that is past the end.                                *)
LEMMA VerdictType ==
  ASSUME NEW list \in Lists, Ordered(list), NEW t0 \in Nat, NEW c \in Nat
  PROVE  FindCongestion(list, t0, c) \in 0..MaxTime \cup {None}
<1> DEFINE C == Changes(list, t0 + c)
<1>1. CASE C = {}
  BY <1>1, Verdict
<1>2. CASE C # {}
  <2>1. C \in SUBSET Nat
    BY DEF Changes
  <2>2. PICK i \in C : \A j \in C : i <= j
    BY <1>2, <2>1, Least
  <2>3. Min(C) = i
    BY <2>1, <2>2, MinOf
  <2>4. FindCongestion(list, t0, c) = list[i - 1].ts - t0
    BY <1>2, <2>3, Verdict
  <2>5. i - 1 \in 1..Len(list) /\ list[i - 1].ts >= t0 + c
    <3>1. Len(list) \in Nat
      BY RecordTypes
    <3> QED
      BY <2>2, <3>1 DEF Changes
  <2>6. list[i - 1].ts \in Nat /\ list[i - 1].ts <= MaxTime
    BY <2>5, RecordTypes
  <2> QED
    BY <2>4, <2>5, <2>6, CongestionLogAssumption
<1> QED
  BY <1>1, <1>2

(* A listing of finitely many records, all of them warnings, is a list.     *)
LEMMA Listing ==
  ASSUME Known, IsFiniteSet(warned), NEW found \in RecordSets,
         NEW list \in SetToSeqs(found)
  PROVE  list \in Lists /\ \A i \in 1..Len(list) : list[i] \in warned
<1>1. found \subseteq warned
  BY DEF Known, RecordSets
<1>2. IsFiniteSet(found) /\ Cardinality(found) \in Nat
  BY <1>1, FS_Subset, FS_CardinalityType
<1>3. list \in [1..Cardinality(found) -> found]
  BY DEF SetToSeqs
<1>4. \A i \in 1..Cardinality(found) : list[i] \in warned /\ list[i] \in Warning
  BY <1>1, <1>3 DEF Known
<1>5. list \in Seq(Warning) /\ Len(list) = Cardinality(found)
  BY <1>2, <1>3, <1>4
<1> QED
  BY <1>4, <1>5 DEF Lists

LEMMA NextTimeline == ASSUME IInv, [Next]_vars PROVE Timeline'
<1> USE CongestionLogAssumption DEF IInv, Known, Timeline
<1>1. CASE Tick
  BY <1>1 DEF Tick, driver
<1>2. ASSUME NEW n \in Nodes, StoreWarning(n) PROVE Timeline'
  BY <1>2 DEF StoreWarning, driver
<1>3. ASSUME NEW r \in calls, Store(r) PROVE Timeline'
  BY <1>3 DEF Store, driver
<1>4. CASE BeginRun
  BY <1>4 DEF BeginRun, Becomes, Stages
<1>5. CASE InjectFailure
  BY <1>5 DEF InjectFailure, Becomes, Stages
<1>6. CASE RemoveFailure
  BY <1>6 DEF RemoveFailure, Becomes, Stages
<1>7. CASE CheckCongestion
  BY <1>7 DEF CheckCongestion, Becomes, Stages
<1>8. CASE UNCHANGED vars
  BY <1>8 DEF vars
<1> QED
  BY <1>1, <1>2, <1>3, <1>4, <1>5, <1>6, <1>7, <1>8 DEF Next

LEMMA NextRead == ASSUME IInv, [Next]_vars PROVE WasRead'
<1>1. CASE /\ IsFiniteSet(warned') /\ warned \subseteq warned'
           /\ UNCHANGED <<logs, verdict>>
           /\ stage' = "checked" => UNCHANGED <<stage, start, congestion>>
  BY <1>1 DEF IInv, WasRead, Ordered
<1>2. CASE Tick
  BY <1>1, <1>2 DEF Tick, warnings, driver, IInv, WasRead
<1>3. ASSUME NEW n \in Nodes, StoreWarning(n) PROVE WasRead'
  <2>1. warned' = warned \cup {[ts |-> now, node |-> n]}
        /\ UNCHANGED <<logs, verdict, stage, start, congestion>>
    BY <1>3 DEF StoreWarning, driver
  <2>2. IsFiniteSet(warned')
    BY <2>1, FS_AddElement DEF IInv, WasRead
  <2> QED
    BY <1>1, <2>1, <2>2
<1>4. ASSUME NEW r \in calls, Store(r) PROVE WasRead'
  BY <1>1, <1>4 DEF Store, driver, IInv, WasRead
<1>5. CASE BeginRun \/ InjectFailure \/ RemoveFailure
  BY <1>1, <1>5 DEF BeginRun, InjectFailure, RemoveFailure, Becomes, warnings, IInv, WasRead
<1>6. CASE CheckCongestion
  <2>1. UNCHANGED <<warned, start, congestion>> /\ start \in Nat /\ congestion \in Nat
    BY <1>6, CongestionLogAssumption DEF CheckCongestion, warnings, IInv, Known, Timeline
  <2>2. CASE /\ stage' = "checked"
             /\ \E found \in RecordSets :
                  \E list \in SetToSeqs(found) : logs' = SortedByTime(list)
             /\ verdict' = FindCongestion(logs', start, congestion)
    <3>1. PICK found \in RecordSets :
            \E list \in SetToSeqs(found) : logs' = SortedByTime(list)
      BY <2>2
    <3>2. PICK list \in SetToSeqs(found) : logs' = SortedByTime(list)
      BY <3>1
    <3>3. list \in Lists /\ \A i \in 1..Len(list) : list[i] \in warned
      BY Listing DEF IInv, WasRead
    <3>4. /\ logs' \in Lists /\ Ordered(logs')
          /\ \A i \in 1..Len(logs') : logs'[i] \in warned
      BY <3>2, <3>3, SortedList
    <3>5. verdict' \in 0..MaxTime \cup {None}
      BY <2>1, <2>2, <3>4, VerdictType
    <3> QED
      BY <2>1, <2>2, <3>4, <3>5 DEF IInv, WasRead, Ordered
  <2>3. CASE stage' = "exited" /\ UNCHANGED <<logs, verdict>>
    BY <1>1, <2>1, <2>3 DEF IInv, WasRead
  <2> QED
    BY <1>6, <2>2, <2>3 DEF CheckCongestion, Becomes
<1>7. CASE UNCHANGED vars
  BY <1>1, <1>7 DEF vars, IInv, WasRead
<1> QED
  BY <1>2, <1>3, <1>4, <1>5, <1>6, <1>7 DEF Next

LEMMA Invariant == Spec => []IInv
<1>1. IInv /\ [Next]_vars => IInv'
  BY NextKnown, NextTimeline, NextRead DEF IInv
<1> QED
  BY <1>1, InitIInv, PTL DEF Spec

(* Every time is one of the clock's, every record a warning, and no run is  *)
(* begun after the last. (run_experiment.py:226-264)                        *)
THEOREM Typing == Spec => []TypeOK
<1>1. IInv => TypeOK
  <2> SUFFICES ASSUME IInv PROVE TypeOK
    OBVIOUS
  <2>1. \A set \in {warned, calls, logged} : set \subseteq Warning
    BY DEF IInv, Known
  <2>2. \A t \in DOMAIN stored : t \in 0..MaxTime /\ stored[t] \in Nodes
    BY DEF IInv, Known, Warning
  <2>3. ToSet(logs) \subseteq Warning
    BY RecordTypes DEF IInv, WasRead, ToSet
  <2> QED
    BY <2>1, <2>2, <2>3 DEF TypeOK, IInv, Known, Timeline, WasRead
<1> QED
  BY <1>1, Invariant, PTL

(* A run is called congested if and only if the records it reads hold, after *)
(* the injection and before the newest of all, those of two nodes.          *)
(* (run_experiment.py:47-66, 93)                                            *)
THEOREM Found == Spec => []SpreadFound
<1>1. IInv => SpreadFound
  <2> SUFFICES ASSUME IInv, stage = "checked"
               PROVE  verdict = IF Changes(logs, start + congestion) = {} THEN None
                                ELSE logs[Min(Changes(logs, start + congestion)) - 1].ts - start
    BY DEF SpreadFound, Changes, InWindow
  <2>1. start \in Nat /\ congestion \in Nat
    BY CongestionLogAssumption DEF IInv, Known, Timeline
  <2> QED
    BY <2>1, Verdict DEF IInv, WasRead
<1> QED
  BY <1>1, Invariant, PTL

(* A run is called congested only if two nodes warned after its own failure *)
(* was injected, and the time it reports is that of one of them.            *)
(* (run_experiment.py:43-66)                                                *)
THEOREM Confirmed == Spec => []SpreadConfirmed
<1>1. IInv => SpreadConfirmed
  <2> SUFFICES ASSUME IInv, stage = "checked", verdict # None
               PROVE  \E a, b \in warned :
                        /\ InWindow(a) /\ InWindow(b)
                        /\ a.node # b.node /\ a.ts <= b.ts
                        /\ verdict = a.ts - start
    BY DEF SpreadConfirmed
  <2> DEFINE C == Changes(logs, start + congestion)
  <2>1. /\ start \in Nat /\ congestion \in Nat
        /\ logs \in Lists /\ Ordered(logs) /\ Len(logs) \in Nat
    BY CongestionLogAssumption, RecordTypes DEF IInv, Known, Timeline, WasRead
  <2>2. verdict = IF C = {} THEN None ELSE logs[Min(C) - 1].ts - start
    BY <2>1, Verdict DEF IInv, WasRead
  <2>3. C # {} /\ C \in SUBSET Nat
    BY <2>2 DEF Changes
  <2>4. PICK i \in C : \A j \in C : i <= j
    BY <2>3, Least
  <2>5. verdict = logs[i - 1].ts - start
    BY <2>2, <2>3, <2>4, MinOf
  <2>6. /\ i \in 1..Len(logs) /\ i - 1 \in 1..Len(logs) /\ i - 1 <= i
        /\ logs[i - 1].ts >= start + congestion /\ logs[i - 1].node # logs[i].node
    BY <2>1, <2>4 DEF Changes
  <2>7. /\ logs[i - 1] \in warned /\ logs[i] \in warned
        /\ logs[i - 1].ts \in Nat /\ logs[i].ts \in Nat
    BY <2>1, <2>6, RecordTypes DEF IInv, WasRead
  <2>8. logs[i - 1].ts <= logs[i].ts
    BY <2>1, <2>6 DEF Ordered
  <2>9. InWindow(logs[i - 1]) /\ InWindow(logs[i])
    BY <2>1, <2>6, <2>7, <2>8 DEF InWindow
  <2> QED
    BY <2>5, <2>6, <2>7, <2>8, <2>9
<1> QED
  BY <1>1, Invariant, PTL
================================================================================
