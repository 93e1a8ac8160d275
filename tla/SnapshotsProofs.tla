-------------------------- MODULE SnapshotsProofs ---------------------------
(***************************************************************************)
(* Theorems about the snapshots of a Mac and everything that is computed   *)
(* from them, for any readings, any models, any limits and any number of   *)
(* snapshots.                                                              *)
(***************************************************************************)
EXTENDS Sessions, FiniteSetTheorems, WellFoundedInduction, TLAPS

(* Numbers and finite sets.                                                *)

\* Any set of numbers has a least one.
LEMMA LeastExists ==
  ASSUME NEW S \in SUBSET Nat, S # {}
  PROVE  \E i \in S : \A j \in S : i <= j
  <1> DEFINE less == OpToRel(<, Nat)
  <1>1. IsWellFoundedOn(less, Nat)
    BY NatLessThanWellFounded
  <1>2. \A i, j \in Nat : i < j => <<i, j>> \in less
    BY DEF OpToRel
  <1> HIDE DEF less
  <1>3. PICK i \in S : \A j \in S : ~ (<<j, i>> \in less)
    BY <1>1, WFMin
  <1>4. ASSUME NEW j \in S PROVE i <= j
    <2>1. i \in Nat /\ j \in Nat  OBVIOUS
    <2>2. ~ (j < i)  BY <1>2, <1>3, <2>1
    <2>3. QED  BY <2>1, <2>2
  <1>5. QED  BY <1>4

\* What holds of 0, and of each number after one of which it holds, up to n.
LEMMA Induct ==
  ASSUME NEW n \in Nat, NEW S, 0 \in S, \A k \in 0 .. n - 1 : k \in S => k + 1 \in S
  PROVE  \A k \in 0 .. n : k \in S
  <1> DEFINE Bad == {k \in 0 .. n : k \notin S}
  <1> SUFFICES ASSUME Bad # {} PROVE FALSE
    OBVIOUS
  <1>1. Bad \in SUBSET Nat
    OBVIOUS
  <1>2. PICK b \in Bad : \A j \in Bad : b <= j
    <2> HIDE DEF Bad
    <2>1. QED  BY <1>1, LeastExists
  <1>3. b \in 0 .. n /\ b \notin S /\ b # 0
    OBVIOUS
  <1>4. b - 1 \in 0 .. n - 1 /\ b - 1 \notin Bad
    BY <1>2, <1>3
  <1>5. b - 1 \in S
    BY <1>3, <1>4
  <1>6. b - 1 + 1 = b
    BY <1>3
  <1>7. QED  BY <1>3, <1>4, <1>5, <1>6

\* A finite set of numbers has a greatest one.
LEMMA GreatestExists ==
  ASSUME NEW S \in SUBSET Int, IsFiniteSet(S), S # {}
  PROVE  \E i \in S : \A j \in S : j <= i
  <1> DEFINE Up(i) == {j \in S : j > i}
             Counts == {Cardinality(Up(i)) : i \in S}
  <1>1. \A i \in S : IsFiniteSet(Up(i)) /\ Cardinality(Up(i)) \in Nat
    <2>1. \A i \in S : Up(i) \in SUBSET S
      OBVIOUS
    <2>2. QED  BY <2>1, FS_Subset, FS_CardinalityType
  <1> HIDE DEF Up
  <1>2. Counts \in SUBSET Nat /\ Counts # {}
    BY <1>1
  <1>3. PICK c \in Counts : \A d \in Counts : c <= d
    <2> HIDE DEF Counts
    <2>1. QED  BY <1>2, LeastExists
  <1>4. PICK i \in S : c = Cardinality(Up(i))
    OBVIOUS
  <1>5. \A j \in S : Cardinality(Up(i)) <= Cardinality(Up(j))
    BY <1>3, <1>4
  <1>6. ASSUME NEW j \in S, j > i PROVE FALSE
    <2>0. i \in Int /\ j \in Int /\ \A k \in S : k \in Int
      OBVIOUS
    <2>1. Up(j) \in SUBSET Up(i) /\ j \in Up(i) /\ j \notin Up(j)
      <3>1. ASSUME NEW k \in Up(j) PROVE k \in Up(i)
        <4>1. k \in S /\ k > j
          BY DEF Up
        <4>2. k > i
          BY <1>6, <2>0, <4>1
        <4>3. QED  BY <4>1, <4>2 DEF Up
      <3>2. j \in Up(i)
        BY <1>6 DEF Up
      <3>3. j \notin Up(j)
        BY <2>0 DEF Up
      <3>4. QED  BY <3>1, <3>2, <3>3
    <2>2. Cardinality(Up(j)) <= Cardinality(Up(i))
          /\ (Cardinality(Up(i)) = Cardinality(Up(j)) => Up(i) = Up(j))
      BY <1>1, <2>1, FS_Subset
    <2>3. Cardinality(Up(j)) = Cardinality(Up(i))
      <3>1. Cardinality(Up(j)) \in Nat /\ Cardinality(Up(i)) \in Nat
        BY <1>1
      <3>2. Cardinality(Up(i)) <= Cardinality(Up(j))
        BY <1>5
      <3>3. QED  BY <2>2, <3>1, <3>2
    <2>4. QED  BY <2>1, <2>2, <2>3
  <1>7. QED  BY <1>6

\* The greatest and the least element of the community modules are these.
LEMMA MaxFacts ==
  ASSUME NEW S \in SUBSET Int, IsFiniteSet(S), S # {}
  PROVE  Max(S) \in S /\ \A j \in S : j <= Max(S)
  <1>1. PICK i \in S : \A j \in S : j <= i
    BY GreatestExists
  <1>2. \A j \in S : i >= j
    BY <1>1
  <1>3. Max(S) \in S /\ \A j \in S : Max(S) >= j
    BY <1>2 DEF Max
  <1>4. QED  BY <1>3

\* A set that holds with each of 1 to n all before it.
LEMMA SegmentIsCounted ==
  ASSUME NEW n \in Nat, NEW S \in SUBSET (1 .. n),
         \A i \in S : \A j \in 1 .. i : j \in S
  PROVE  Cardinality(S) \in 0 .. n /\ S = 1 .. Cardinality(S)
  <1>1. IsFiniteSet(S)
    <2>1. IsFiniteSet(1 .. n)
      BY FS_Interval
    <2>2. QED  BY <2>1, FS_Subset
  <1>2. CASE S = {}
    BY <1>2, FS_EmptySet
  <1>3. CASE S # {}
    <2>1. S \in SUBSET Int
      OBVIOUS
    <2>2. PICK i \in S : \A j \in S : j <= i
      BY <1>1, <1>3, <2>1, GreatestExists
    <2>0. \A j \in S : j \in 1 .. n
      OBVIOUS
    <2>3. i \in Int /\ 1 <= i /\ i <= n /\ S = 1 .. i
      <3>1. i \in Int /\ 1 <= i /\ i <= n
        BY <2>0
      <3>2. \A j \in S : j \in 1 .. i
        BY <2>0, <2>2, <3>1
      <3>3. \A j \in 1 .. i : j \in S
        OBVIOUS
      <3>4. QED  BY <3>1, <3>2, <3>3
    <2>4. Cardinality(1 .. i) = i
      BY <2>3, FS_Interval
    <2>5. QED  BY <2>3, <2>4
  <1>4. QED  BY <1>2, <1>3

-----------------------------------------------------------------------------
(* Folds.  The operators of the community modules define them by a         *)
(* function on the subsets of a finite set; here it is shown to exist.     *)

Chooses(c, D) == \A s \in SUBSET D : s # {} => c[s] \in s

\* The results of folding f, which takes an element and a result, over the
\* subsets of D.
Folds(f, base, c, D, A) ==
    {g \in [SUBSET D -> A] :
        \A s \in SUBSET D :
            g[s] = IF s = {} THEN base ELSE f[<<c[s], g[s \ {c[s]}]>>]}

LEMMA FoldExists ==
  ASSUME NEW D, IsFiniteSet(D), NEW A, NEW base \in A, NEW c, Chooses(c, D),
         NEW f \in [D \X A -> A]
  PROVE  Folds(f, base, c, D, A) # {}
  <1> DEFINE n == Cardinality(D)
             Small(k) == {s \in SUBSET D : Cardinality(s) <= k}
             Value(g, s) == IF s = {} THEN base ELSE f[<<c[s], g[s \ {c[s]}]>>]
             Exists(k) == \E g \in [Small(k) -> A] : \A s \in Small(k) : g[s] = Value(g, s)
  <1>1. n \in Nat
    BY FS_CardinalityType
  <1>2. \A s \in SUBSET D : IsFiniteSet(s) /\ Cardinality(s) \in Nat /\ Cardinality(s) <= n
    BY FS_Subset, FS_CardinalityType
  <1>3. \A s \in SUBSET D : s # {} => Cardinality(s \ {c[s]}) = Cardinality(s) - 1
                                      /\ s \ {c[s]} \in SUBSET D /\ c[s] \in D
    BY <1>2, FS_RemoveElement DEF Chooses
  <1>4. Exists(0)
    <2>1. \A s \in Small(0) : s = {}
      BY <1>2, FS_EmptySet
    <2> DEFINE g == [s \in Small(0) |-> base]
    <2>2. g \in [Small(0) -> A] /\ \A s \in Small(0) : g[s] = Value(g, s)
      BY <2>1
    <2>3. QED  BY <2>2
  <1>5. ASSUME NEW k \in 0 .. n - 1, Exists(k) PROVE Exists(k + 1)
    <2>1. PICK g \in [Small(k) -> A] : \A s \in Small(k) : g[s] = Value(g, s)
      BY <1>5
    <2> DEFINE h == [s \in Small(k + 1) |-> Value(g, s)]
    <2>2. \A s \in Small(k + 1) : s # {} => s \ {c[s]} \in Small(k)
      BY <1>1, <1>2, <1>3
    <2>3. \A s \in Small(k) : s \in Small(k + 1)
      BY <1>1, <1>2
    <2>4. \A s \in Small(k) : h[s] = g[s]
      BY <2>1, <2>3
    <2>5. ASSUME NEW s \in Small(k + 1) PROVE Value(g, s) \in A
      BY <1>3, <2>2
    <2>6. h \in [Small(k + 1) -> A]
      BY <2>5
    <2>7. ASSUME NEW s \in Small(k + 1) PROVE h[s] = Value(h, s)
      <3>1. h[s] = Value(g, s)
        OBVIOUS
      <3>2. s # {} => h[s \ {c[s]}] = g[s \ {c[s]}]
        BY <2>2, <2>4
      <3> HIDE DEF h
      <3>3. QED  BY <3>1, <3>2
    <2> HIDE DEF h
    <2>8. QED  BY <2>6, <2>7
  <1> DEFINE Good == {k \in 0 .. n : Exists(k)}
  <1>6. \A k \in 0 .. n : k \in Good
    <2> HIDE DEF Exists
    <2>1. 0 \in Good
      BY <1>1, <1>4
    <2>2. \A k \in 0 .. n - 1 : k \in Good => k + 1 \in Good
      BY <1>1, <1>5
    <2> HIDE DEF Good
    <2>3. QED  BY <1>1, <2>1, <2>2, Induct
  <1>7. Exists(n)
    <2> HIDE DEF Exists
    <2>1. QED  BY <1>1, <1>6
  <1>8. Small(n) = SUBSET D
    BY <1>2
  <1>9. PICK g \in [Small(n) -> A] : \A s \in Small(n) : g[s] = Value(g, s)
    BY <1>7
  <1> HIDE DEF Small
  <1>10. g \in Folds(f, base, c, D, A)
    BY <1>8, <1>9 DEF Folds
  <1>11. QED  BY <1>10

\* The sets of numbers such a fold goes through.
LEMMA SegmentFacts ==
  ASSUME NEW n \in Nat
  PROVE  /\ 1 .. 0 = {}
         /\ \A k \in 1 .. n : /\ 1 .. k # {} /\ 1 .. k \in SUBSET (1 .. n)
                              /\ Max(1 .. k) = k /\ (1 .. k) \ {k} = 1 .. k - 1
                              /\ k - 1 \in 0 .. n
         /\ \A k \in 0 .. n : 1 .. k \in SUBSET (1 .. n)
         /\ \A s \in SUBSET (1 .. n) : s # {} => Max(s) \in s /\ Max(s) \in 1 .. n
  <1>1. ASSUME NEW k \in 1 .. n PROVE Max(1 .. k) = k
    <2>1. k \in 1 .. k /\ \A j \in 1 .. k : j <= k
      OBVIOUS
    <2>2. IsFiniteSet(1 .. k) /\ 1 .. k \in SUBSET Int /\ 1 .. k # {}
      <3>1. IsFiniteSet(1 .. k)
        BY FS_Interval
      <3>2. 1 .. k \in SUBSET Int /\ 1 .. k # {}
        BY <2>1
      <3>3. QED  BY <3>1, <3>2
    <2>3. Max(1 .. k) \in 1 .. k /\ \A j \in 1 .. k : j <= Max(1 .. k)
      BY <2>2, MaxFacts
    <2>4. Max(1 .. k) <= k /\ k <= Max(1 .. k) /\ Max(1 .. k) \in Int
      BY <2>1, <2>3
    <2>5. QED  BY <2>4
  <1>2. ASSUME NEW k \in 1 .. n
        PROVE  1 .. k # {} /\ 1 .. k \in SUBSET (1 .. n) /\ (1 .. k) \ {k} = 1 .. k - 1
               /\ k - 1 \in 0 .. n
    <2>1. k \in Int /\ 1 <= k /\ k <= n
      OBVIOUS
    <2>2. k \in 1 .. k /\ k - 1 \in 0 .. n
      BY <2>1
    <2>3. \A j \in 1 .. k : j \in 1 .. n
      BY <2>1
    <2>4. \A j : j \in (1 .. k) \ {k} <=> j \in 1 .. k - 1
      BY <2>1
    <2>5. QED  BY <2>2, <2>3, <2>4
  <1>3. ASSUME NEW s \in SUBSET (1 .. n), s # {} PROVE Max(s) \in s /\ Max(s) \in 1 .. n
    <2>1. IsFiniteSet(1 .. n)
      BY FS_Interval
    <2>2. IsFiniteSet(s)
      BY <2>1, FS_Subset
    <2>3. s \in SUBSET Int
      OBVIOUS
    <2>4. QED  BY <1>3, <2>2, <2>3, MaxFacts
  <1>4. QED  BY <1>1, <1>2, <1>3

\* The fold of the numbers up to n, from the left.
LeftFolds(f, base, n, A) ==
    {g \in [SUBSET (1 .. n) -> A] :
        \A s \in SUBSET (1 .. n) :
            g[s] = IF s = {} THEN base ELSE f[<<Max(s), g[s \ {Max(s)}]>>]}

LEMMA FoldLeftExists ==
  ASSUME NEW n \in Nat, NEW A, NEW base \in A, NEW f \in [(1 .. n) \X A -> A]
  PROVE  LeftFolds(f, base, n, A) # {}
  <1> DEFINE c == [s \in SUBSET (1 .. n) |-> Max(s)]
  <1>1. IsFiniteSet(1 .. n)
    BY FS_Interval
  <1>2. Chooses(c, 1 .. n)
    BY SegmentFacts DEF Chooses
  <1>3. PICK g : g \in Folds(f, base, c, 1 .. n, A)
    <2> HIDE DEF c
    <2>1. Folds(f, base, c, 1 .. n, A) # {}
      BY <1>1, <1>2, FoldExists
    <2>2. QED  BY <2>1
  <1>4. g \in [SUBSET (1 .. n) -> A]
    BY <1>3 DEF Folds
  <1>5. ASSUME NEW s \in SUBSET (1 .. n)
        PROVE  g[s] = IF s = {} THEN base ELSE f[<<Max(s), g[s \ {Max(s)}]>>]
    <2>1. c[s] = Max(s)
      OBVIOUS
    <2> HIDE DEF c
    <2>2. g[s] = IF s = {} THEN base ELSE f[<<c[s], g[s \ {c[s]}]>>]
      BY <1>3 DEF Folds
    <2>3. QED  BY <2>1, <2>2
  <1>6. QED  BY <1>4, <1>5 DEF LeftFolds

-----------------------------------------------------------------------------
(* The invariant.                                                          *)

\* The types, with a bound on the counter that the next read respects.
Typed == /\ clock \in Times
         /\ stamp \in Times \cup {NoTime}
         /\ session \in [started : Times, served : Nat]
         /\ snaps \in Seq(Snapshot)
         /\ session.started <= clock /\ session.served <= Len(snaps)

\* Reads are stamped one after the other, and none ahead of the clock.
RowsInOrder ==
    /\ \A i, j \in 1 .. Len(snaps) : i < j => snaps[i].at < snaps[j].at
    /\ \A i \in 1 .. Len(snaps) : i - 1 <= snaps[i].at /\ snaps[i].at <= clock

\* The read under way is later than all that are stored.
StampLatest == stamp # NoTime => /\ stamp <= clock
                                 /\ Len(snaps) <= stamp
                                 /\ \A i \in 1 .. Len(snaps) : snaps[i].at < stamp

\* What is stored of the running session is behind it, and a row that is
\* ahead of its counter was read before it started.
SessionsInOrder ==
    /\ snaps # <<>> => /\ snaps[Len(snaps)].started = session.started
                       /\ snaps[Len(snaps)].served = session.served
    /\ \A i \in 1 .. Len(snaps) : \/ snaps[i].at <= session.started
                                  \/ snaps[i].served <= session.served

SnapshotsInv == Typed /\ RowsInOrder /\ StampLatest /\ SessionsInOrder

LEMMA Limits ==
  /\ Freshness \in Nat /\ DownAfter \in Nat /\ SessionAge \in Nat /\ WarmFlips \in Nat
  /\ FrozenFor \in Nat /\ Hour \in Nat /\ RecentTraffic \in Nat /\ OutageGap \in Nat
  /\ Lag \in Nat /\ MaxTime \in Nat
  /\ Lag <= Freshness /\ Freshness <= DownAfter /\ RecentTraffic <= SessionAge
  /\ NoTime = -1 /\ NoTime \notin Nat
  BY LimitsAssumption DEF NoTime

LEMMA InitInv == Init => SnapshotsInv
  <1> SUFFICES ASSUME Init PROVE SnapshotsInv
    OBVIOUS
  <1> USE Limits DEF Init
  <1>1. Typed
    BY DEF Typed, Times
  <1>2. RowsInOrder /\ StampLatest /\ SessionsInOrder
    BY DEF RowsInOrder, StampLatest, SessionsInOrder
  <1>3. QED  BY <1>1, <1>2 DEF SnapshotsInv

\* What a read stores.
LEMMA ReadStores ==
  ASSUME SnapshotsInv, NEW reading \in Readings, Read(reading)
  PROVE  /\ \E row \in Snapshot :
               /\ snaps' = Append(snaps, row)
               /\ row.at = stamp /\ row.started = session'.started
               /\ row.served = session'.served
         /\ session' \in [started : Times, served : Nat]
         /\ session'.served <= Len(snaps) + 1
         /\ \/ session'.started = session.started /\ session'.served >= session.served
            \/ session'.started = clock
         /\ stamp \in Times /\ Len(snaps) <= stamp /\ stamp <= clock
         /\ Len(snaps) \in Nat /\ snaps \in Seq(Snapshot)
         /\ clock' = clock /\ stamp' = NoTime
  <1> USE Limits
  <1>1. /\ stamp \in Times /\ stamp <= clock /\ Len(snaps) <= stamp
        /\ clock \in Times /\ session.started \in Times /\ session.served \in Nat
        /\ session.served <= Len(snaps) /\ session.started <= clock
        /\ Len(snaps) \in Nat /\ snaps \in Seq(Snapshot)
    BY DEF SnapshotsInv, Typed, StampLatest, Read
  <1>2. reading \in [model : Models \cup {NoModel}, warm : SUBSET Models,
                     target : Models \cup {NoModel}, active : BOOLEAN,
                     fresh : BOOLEAN, trusted : BOOLEAN,
                     serves : BOOLEAN, restarts : BOOLEAN]
    BY ReadingsAssumption
  <1> DEFINE served == IF reading.serves THEN 1 ELSE 0
  <1>3. /\ session'.started = (IF reading.restarts THEN clock ELSE session.started)
        /\ session'.served = (IF reading.restarts THEN served ELSE session.served + served)
        /\ session' \in [started : Times, served : Nat]
    <2>1. session' = NextSession(reading) /\ session \in [started : Times, served : Nat]
      BY DEF SnapshotsInv, Typed, Read
    <2>2. CASE reading.restarts
      BY <1>1, <2>1, <2>2 DEF NextSession
    <2>3. CASE ~ reading.restarts
      BY <1>1, <2>1, <2>3 DEF NextSession
    <2>4. QED  BY <2>2, <2>3
  <1>4. session'.served <= Len(snaps) + 1 /\ session'.served \in 0 .. MaxTime + 1
    BY <1>1, <1>3 DEF Times
  <1>5. Row(stamp, session', reading) \in Snapshot
    <2>1. session'.started \in Times
      BY <1>3
    <2>2. QED  BY <1>1, <1>2, <1>4, <2>1 DEF Row, Snapshot
  <1>6. \E row \in Snapshot :
               /\ snaps' = Append(snaps, row)
               /\ row.at = stamp /\ row.started = session'.started
               /\ row.served = session'.served
    <2> WITNESS Row(stamp, session', reading) \in Snapshot
    <2>1. QED  BY DEF Read, Row
  <1>7. \/ session'.started = session.started /\ session'.served >= session.served
        \/ session'.started = clock
    BY <1>1, <1>3
  <1>8. clock' = clock /\ stamp' = NoTime
    BY DEF Read
  <1>9. QED  BY <1>1, <1>3, <1>4, <1>6, <1>7, <1>8

LEMMA StepInv == SnapshotsInv /\ [Next]_vars => SnapshotsInv'
  <1> SUFFICES ASSUME SnapshotsInv, [Next]_vars PROVE SnapshotsInv'
    OBVIOUS
  <1> USE Limits
  <1>0. /\ clock \in Nat /\ clock <= MaxTime /\ Len(snaps) \in Nat
        /\ \A i \in 1 .. Len(snaps) : snaps[i].at \in Nat
    <2>1. \A i \in 1 .. Len(snaps) : snaps[i] \in Snapshot
      BY DEF SnapshotsInv, Typed
    <2>2. QED  BY <2>1 DEF SnapshotsInv, Typed, Times, Snapshot
  <1>1. CASE Advance
    <2>1. clock' = clock + 1 /\ clock < MaxTime /\ UNCHANGED <<stamp, session, snaps>>
      BY <1>1 DEF Advance
    <2>2. Typed'
      BY <1>0, <2>1 DEF SnapshotsInv, Typed, Times
    <2>3. RowsInOrder'
      BY <1>0, <2>1 DEF SnapshotsInv, RowsInOrder
    <2>4. StampLatest'
      BY <1>0, <2>1 DEF SnapshotsInv, Typed, StampLatest, Times
    <2>5. SessionsInOrder'
      BY <2>1 DEF SnapshotsInv, SessionsInOrder
    <2>6. QED  BY <2>2, <2>3, <2>4, <2>5 DEF SnapshotsInv
  <1>2. CASE StartRead
    <2>1. stamp' = clock /\ UNCHANGED <<clock, session, snaps>>
          /\ (snaps # <<>> => clock > Last(snaps).at)
      BY <1>2 DEF StartRead
    <2>2. Typed' /\ RowsInOrder' /\ SessionsInOrder'
      BY <2>1 DEF SnapshotsInv, Typed, RowsInOrder, SessionsInOrder
    <2>3. ASSUME NEW i \in 1 .. Len(snaps) PROVE snaps[i].at < clock
      <3>1. snaps # <<>> /\ Len(snaps) \in 1 .. Len(snaps)
        BY <1>0, <2>3 DEF SnapshotsInv, Typed
      <3>2. snaps[Len(snaps)].at < clock
        BY <1>0, <2>1, <3>1 DEF Last
      <3>3. i < Len(snaps) => snaps[i].at < snaps[Len(snaps)].at
        BY <3>1 DEF SnapshotsInv, RowsInOrder
      <3>4. QED  BY <1>0, <3>1, <3>2, <3>3
    <2>4. Len(snaps) <= clock
      <3>1. CASE Len(snaps) = 0
        BY <1>0, <3>1
      <3>2. CASE Len(snaps) # 0
        <4>1. Len(snaps) \in 1 .. Len(snaps)
          BY <1>0, <3>2
        <4>2. Len(snaps) - 1 <= snaps[Len(snaps)].at
          BY <4>1 DEF SnapshotsInv, RowsInOrder
        <4>3. QED  BY <1>0, <2>3, <4>1, <4>2
      <3>3. QED  BY <3>1, <3>2
    <2>5. StampLatest'
      BY <1>0, <2>1, <2>3, <2>4 DEF StampLatest
    <2>6. QED  BY <2>2, <2>5 DEF SnapshotsInv
  <1>3. CASE ReadFails
    BY <1>3 DEF ReadFails, SnapshotsInv, Typed, RowsInOrder, StampLatest, SessionsInOrder
  <1>4. ASSUME NEW reading \in Readings, Read(reading) PROVE SnapshotsInv'
    <2>1. PICK row \in Snapshot : /\ snaps' = Append(snaps, row)
                                  /\ row.at = stamp /\ row.started = session'.started
                                  /\ row.served = session'.served
      BY <1>4, ReadStores
    <2>2. /\ session' \in [started : Times, served : Nat]
          /\ session'.served <= Len(snaps) + 1
          /\ \/ session'.started = session.started /\ session'.served >= session.served
             \/ session'.started = clock
          /\ stamp \in Times /\ Len(snaps) <= stamp /\ stamp <= clock
          /\ Len(snaps) \in Nat /\ snaps \in Seq(Snapshot)
          /\ clock' = clock /\ stamp' = NoTime
      BY <1>4, ReadStores
    <2>3. /\ snaps' \in Seq(Snapshot) /\ Len(snaps') = Len(snaps) + 1
          /\ snaps'[Len(snaps) + 1] = row
          /\ \A i \in 1 .. Len(snaps) : snaps'[i] = snaps[i]
          /\ \A i \in 1 .. Len(snaps') : i \in 1 .. Len(snaps) \/ i = Len(snaps) + 1
      BY <2>1, <2>2
    <2>4. \A i \in 1 .. Len(snaps) : snaps[i].at < stamp
      BY <1>4 DEF SnapshotsInv, StampLatest, Read
    <2>5. Typed'
      <3>1. session'.started <= clock
        BY <1>0, <2>2 DEF SnapshotsInv, Typed
      <3>2. clock' \in Times /\ stamp' \in Times \cup {NoTime}
        BY <2>2 DEF SnapshotsInv, Typed
      <3>3. QED  BY <2>2, <2>3, <3>1, <3>2 DEF Typed
    <2>6. RowsInOrder'
      <3>1. stamp \in Nat
        BY <2>2 DEF Times
      <3>2. ASSUME NEW i \in 1 .. Len(snaps'), NEW j \in 1 .. Len(snaps'), i < j
            PROVE  snaps'[i].at < snaps'[j].at
        <4>1. i \in 1 .. Len(snaps)
          BY <2>2, <2>3, <3>2
        <4>2. CASE j \in 1 .. Len(snaps)
          BY <2>3, <3>2, <4>1, <4>2 DEF SnapshotsInv, RowsInOrder
        <4>3. CASE j = Len(snaps) + 1
          BY <2>1, <2>3, <2>4, <4>1, <4>3
        <4>4. QED  BY <2>3, <4>2, <4>3
      <3>3. ASSUME NEW i \in 1 .. Len(snaps')
            PROVE  i - 1 <= snaps'[i].at /\ snaps'[i].at <= clock'
        <4>1. CASE i \in 1 .. Len(snaps)
          BY <2>2, <2>3, <4>1 DEF SnapshotsInv, RowsInOrder
        <4>2. CASE i = Len(snaps) + 1
          BY <2>1, <2>2, <2>3, <3>1, <4>2
        <4>3. QED  BY <2>3, <4>1, <4>2
      <3>4. QED  BY <3>2, <3>3 DEF RowsInOrder
    <2>7. StampLatest'
      BY <2>2 DEF StampLatest
    <2>8. SessionsInOrder'
      <3>1. snaps'[Len(snaps')].started = session'.started
            /\ snaps'[Len(snaps')].served = session'.served
        BY <2>1, <2>3
      <3>2. ASSUME NEW i \in 1 .. Len(snaps')
            PROVE  snaps'[i].at <= session'.started \/ snaps'[i].served <= session'.served
        <4>1. session.served \in Nat /\ session'.served \in Nat
          BY <2>2 DEF SnapshotsInv, Typed
        <4>2. CASE i = Len(snaps) + 1
          BY <2>1, <2>3, <4>1, <4>2
        <4>3. CASE i \in 1 .. Len(snaps)
          <5>1. snaps'[i] = snaps[i] /\ snaps[i].at <= clock
            BY <2>3, <4>3 DEF SnapshotsInv, RowsInOrder
          <5>2. snaps[i].served \in Nat
            <6>1. snaps[i] \in Snapshot
              BY <4>3 DEF SnapshotsInv, Typed
            <6>2. QED  BY <6>1 DEF Snapshot
          <5>3. snaps[i].at <= session.started \/ snaps[i].served <= session.served
            BY <4>3 DEF SnapshotsInv, SessionsInOrder
          <5>4. CASE session'.started = clock
            BY <5>1, <5>4
          <5>5. CASE session'.started = session.started /\ session'.served >= session.served
            BY <4>1, <5>1, <5>2, <5>3, <5>5
          <5>6. QED  BY <2>2, <5>4, <5>5
        <4>4. QED  BY <2>3, <4>2, <4>3
      <3>3. QED  BY <3>1, <3>2 DEF SessionsInOrder
    <2>9. QED  BY <2>5, <2>6, <2>7, <2>8 DEF SnapshotsInv
  <1>5. CASE UNCHANGED vars
    BY <1>5 DEF vars, SnapshotsInv, Typed, RowsInOrder, StampLatest, SessionsInOrder
  <1>6. QED  BY <1>1, <1>2, <1>3, <1>4, <1>5 DEF Next

(* The stored rows are in the order of their stamps, and a read under way  *)
(* is stamped after all of them, whether or not it succeeds: what         *)
(* _persist_tick_daemon keeps and every reader of the table relies on.     *)
THEOREM InvHolds == Spec => []SnapshotsInv
  <1>1. QED  BY InitInv, StepInv, PTL DEF Spec

LEMMA InvTypeOK == SnapshotsInv => TypeOK
  <1> SUFFICES ASSUME SnapshotsInv PROVE TypeOK
    OBVIOUS
  <1> USE Limits
  <1>1. session.served \in 0 .. MaxTime + 1
    <2>0. session.served \in Nat /\ session.served <= Len(snaps) /\ Len(snaps) \in Nat
          /\ clock \in Nat /\ clock <= MaxTime
          /\ \A i \in 1 .. Len(snaps) : snaps[i] \in Snapshot
      BY DEF SnapshotsInv, Typed, Times
    <2>1. CASE Len(snaps) = 0
      BY <2>0, <2>1
    <2>2. CASE Len(snaps) # 0
      <3>1. Len(snaps) \in 1 .. Len(snaps)
        BY <2>0, <2>2
      <3>2. Len(snaps) - 1 <= snaps[Len(snaps)].at /\ snaps[Len(snaps)].at <= clock
        BY <3>1 DEF SnapshotsInv, RowsInOrder
      <3>3. snaps[Len(snaps)].at \in Nat
        BY <2>0, <3>1 DEF Snapshot, Times
      <3>4. QED  BY <2>0, <3>2, <3>3
    <2>3. QED  BY <2>1, <2>2
  <1>2. session \in Session
    BY <1>1 DEF SnapshotsInv, Typed, Session
  <1>3. \A i \in 2 .. Len(snaps) : snaps[i - 1].at < snaps[i].at
    <2>1. Len(snaps) \in Nat
      BY DEF SnapshotsInv, Typed
    <2>2. ASSUME NEW i \in 2 .. Len(snaps) PROVE snaps[i - 1].at < snaps[i].at
      <3>1. i - 1 \in 1 .. Len(snaps) /\ i \in 1 .. Len(snaps) /\ i - 1 < i
        BY <2>1
      <3>2. QED  BY <3>1 DEF SnapshotsInv, RowsInOrder
    <2>3. QED  BY <2>2
  <1>4. QED  BY <1>2, <1>3 DEF SnapshotsInv, Typed, TypeOK

(* The rows are in the order of their stamps, whatever reads fail, and     *)
(* clock, session and rows are of their types.                             *)
THEOREM TypeCorrect == Spec => []TypeOK
  <1>1. QED  BY InvHolds, InvTypeOK, PTL

-----------------------------------------------------------------------------
(* The switch cost.                                                        *)

\* A greater number does not change the least of a set.
LEMMA MinOfMore ==
  ASSUME NEW S \in SUBSET Nat, S # {}, NEW x \in Nat, \A j \in S : j < x
  PROVE  Min(S \cup {x}) = Min(S)
  <1>1. PICK i \in S : \A j \in S : i <= j
    BY LeastExists
  <1>2. Min(S) \in S /\ \A j \in S : Min(S) <= j
    BY <1>1 DEF Min
  <1>3. Min(S) \in Nat /\ Min(S) < x
    BY <1>2
  <1> DEFINE T == S \cup {x}
  <1>4. Min(S) \in T /\ \A j \in T : Min(S) <= j
    BY <1>2, <1>3
  <1>5. Min(T) \in T /\ \A j \in T : Min(T) <= j
    BY <1>4 DEF Min
  <1>6. Min(T) <= Min(S) /\ Min(S) <= Min(T) /\ Min(T) \in Nat
    BY <1>3, <1>4, <1>5
  <1> HIDE DEF T
  <1>7. Min(T) = Min(S)
    BY <1>3, <1>6
  <1>8. QED  BY <1>7 DEF T

\* What a row more adds to the rows that show a request.
LEMMA RowsOfMore ==
  ASSUME snaps \in Seq(Snapshot), NEW row \in Snapshot, snaps' = Append(snaps, row)
  PROVE  /\ ToSet(snaps)' = ToSet(snaps) \cup {row}
         /\ ToSet(snaps) \subseteq Snapshot
         /\ \A r \in ToSet(snaps) : \E i \in 1 .. Len(snaps) : r = snaps[i]
  <1>1. /\ Len(snaps) \in Nat /\ DOMAIN snaps = 1 .. Len(snaps)
        /\ DOMAIN snaps' = 1 .. Len(snaps) + 1
        /\ snaps'[Len(snaps) + 1] = row
        /\ \A i \in 1 .. Len(snaps) : snaps'[i] = snaps[i] /\ snaps[i] \in Snapshot
    OBVIOUS
  <1>2. ASSUME NEW r \in ToSet(snaps)' PROVE r \in ToSet(snaps) \cup {row}
    <2>1. PICK i \in 1 .. Len(snaps) + 1 : r = snaps'[i]
      BY <1>1, <1>2 DEF ToSet
    <2>2. i \in 1 .. Len(snaps) \/ i = Len(snaps) + 1
      BY <1>1
    <2>3. QED  BY <1>1, <2>1, <2>2 DEF ToSet
  <1>3. ASSUME NEW r \in ToSet(snaps) \cup {row} PROVE r \in ToSet(snaps)'
    <2>1. \A i \in 1 .. Len(snaps) : i \in 1 .. Len(snaps) + 1
      BY <1>1
    <2>2. Len(snaps) + 1 \in 1 .. Len(snaps) + 1
      BY <1>1
    <2>3. QED  BY <1>1, <1>3, <2>1, <2>2 DEF ToSet
  <1>4. \A r \in ToSet(snaps) : \E i \in 1 .. Len(snaps) : r = snaps[i]
    BY <1>1 DEF ToSet
  <1>5. QED  BY <1>1, <1>2, <1>3, <1>4

\* A read changes the delay of no session that has served before.
LEMMA DelaysSettle ==
  ASSUME SnapshotsInv, NEW reading \in Readings, Read(reading),
         DOMAIN Delays' = DOMAIN Delays
  PROVE  Delays' = Delays
  <1>1. PICK row \in Snapshot : snaps' = Append(snaps, row) /\ row.at = stamp
    BY ReadStores
  <1>2. /\ snaps \in Seq(Snapshot) /\ Len(snaps) \in Nat /\ stamp \in Nat
        /\ \A i \in 1 .. Len(snaps) : snaps[i].at < stamp
    BY ReadStores DEF SnapshotsInv, StampLatest, Read, Times
  <1> DEFINE served == {r \in ToSet(snaps) : r.served > 0}
             times(s) == {r.at : r \in {q \in served : q.started = s}}
             new == {r \in ToSet(snaps)' : r.served > 0}
             newTimes(s) == {r.at : r \in {q \in new : q.started = s}}
  <1>3. Delays = [s \in {r.started : r \in served} |-> Min(times(s)) - s]
    BY DEF Delays
  <1>4. Delays' = [s \in {r.started : r \in new} |-> Min(newTimes(s)) - s]
    BY DEF Delays
  <1>5. \A r \in served : r \in Snapshot /\ r.at < stamp /\ r.at \in Nat
    <2>1. ASSUME NEW r \in served PROVE r \in Snapshot /\ r.at < stamp /\ r.at \in Nat
      <3>1. r \in Snapshot /\ \E i \in 1 .. Len(snaps) : r = snaps[i]
        BY <1>1, <1>2, RowsOfMore
      <3>2. QED  BY <1>2, <3>1 DEF Snapshot, Times
    <2>2. QED  BY <2>1
  <1>6. new = IF row.served > 0 THEN served \cup {row} ELSE served
    BY <1>1, <1>2, RowsOfMore
  <1>7. {r.started : r \in new} = {r.started : r \in served}
    BY <1>3, <1>4
  <1>8. ASSUME NEW s \in {r.started : r \in served} PROVE Min(newTimes(s)) = Min(times(s))
    <2>1. times(s) # {} /\ \A t \in times(s) : t \in Nat /\ t < stamp
      BY <1>5
    <2>2. CASE row.served > 0 /\ row.started = s
      <3>1. newTimes(s) = times(s) \cup {stamp}
        BY <1>1, <1>6, <2>2
      <3>2. Min(times(s) \cup {stamp}) = Min(times(s))
        <4>1. times(s) \in SUBSET Nat
          BY <2>1
        <4> HIDE DEF times
        <4>2. QED  BY <1>2, <2>1, <4>1, MinOfMore
      <3>3. QED  BY <3>1, <3>2
    <2>3. CASE ~ (row.served > 0 /\ row.started = s)
      <3>1. newTimes(s) = times(s)
        BY <1>6, <2>3
      <3>2. QED  BY <3>1
    <2>4. QED  BY <2>2, <2>3
  <1> HIDE DEF times, newTimes, served, new
  <1>9. QED  BY <1>3, <1>4, <1>7, <1>8

(* The switch cost changes only when a session serves its first request:   *)
(* the least of a session's samples is not lowered by a later one.         *)
THEOREM SwitchCostHolds == Spec => SwitchCostSettles
  <1>1. SnapshotsInv /\ [Next]_vars
           => [SwitchCost' # SwitchCost => DOMAIN Delays' # DOMAIN Delays]_vars
    <2> SUFFICES ASSUME SnapshotsInv, [Next]_vars,
                        DOMAIN Delays' = DOMAIN Delays
                 PROVE  SwitchCost' = SwitchCost
      OBVIOUS
    <2>1. Delays' = Delays
      <3>1. CASE snaps' = snaps
        BY <3>1 DEF Delays
      <3>2. CASE \E reading \in Readings : Read(reading)
        BY <3>2, DelaysSettle
      <3>3. QED  BY <3>1, <3>2 DEF Next, Advance, StartRead, ReadFails, vars
    <2>2. QED  BY <2>1 DEF SwitchCost
  <1>2. QED  BY <1>1, InvHolds, PTL DEF Spec, SwitchCostSettles

-----------------------------------------------------------------------------
(* The badge and the band.                                                 *)

\* Where each state of the badge comes from.
LEMMA BadgeFacts ==
  ASSUME NEW network \in BOOLEAN
  PROVE  /\ Health(network).state \in {"STALE", "DAEMON_DOWN", "DEAD_SESSION", "THRASH", "HEALTHY"}
         /\ Health(network).state = "DAEMON_DOWN" <=> snaps # <<>> /\ IsDown
         /\ Health(network).state = "STALE" => snaps = <<>> \/ Stale(Last(snaps))
         /\ Health(network).state = "HEALTHY" => snaps # <<>> /\ ~ Stale(Last(snaps))
         /\ Health(network).state = "DEAD_SESSION" => snaps # <<>> /\ Dead(network)
  <1> DEFINE otherwise == IF Stale(Last(snaps)) THEN Badge("STALE", DownSince)
                          ELSE Badge("HEALTHY", Last(snaps).at)
  <1>1. \/ Faults(network, otherwise).state = "DEAD_SESSION" /\ Dead(network)
        \/ Faults(network, otherwise).state = "THRASH"
        \/ Faults(network, otherwise) = otherwise
    <2>1. CASE Dead(network)
      BY <2>1 DEF Faults, Badge
    <2>2. CASE ~ Dead(network) /\ ThrashSince # NoTime
      BY <2>2 DEF Faults, Badge
    <2>3. CASE ~ Dead(network) /\ ThrashSince = NoTime
      BY <2>3 DEF Faults, Badge
    <2>4. QED  BY <2>1, <2>2, <2>3
  <1>2. otherwise.state = IF Stale(Last(snaps)) THEN "STALE" ELSE "HEALTHY"
    BY DEF Badge
  <1>3. CASE snaps = <<>>
    BY <1>3 DEF Health, Badge
  <1>4. CASE snaps # <<>> /\ IsDown
    BY <1>4 DEF Health, Badge
  <1>5. CASE snaps # <<>> /\ ~ IsDown
    <2>1. Health(network) = Faults(network, otherwise)
      BY <1>5 DEF Health
    <2> HIDE DEF otherwise
    <2>2. QED  BY <1>1, <1>2, <1>5, <2>1
  <1>6. QED  BY <1>3, <1>4, <1>5

LEMMA BandFacts ==
  /\ snaps = <<>> => Band = "OFF"
  /\ snaps # <<>> /\ Stale(Last(snaps)) => Band = "STALE"
  /\ snaps # <<>> /\ ~ Stale(Last(snaps)) => Band \in {"ATTESTING", "EARNING", "TRUSTED"}
  /\ Band = "EARNING" => snaps # <<>> /\ ServedRecently
  <1>1. CASE snaps = <<>>
    BY <1>1 DEF Band
  <1>2. CASE snaps # <<>> /\ Stale(Last(snaps))
    BY <1>2 DEF Band
  <1>3. CASE snaps # <<>> /\ ~ Stale(Last(snaps))
    BY <1>3 DEF Band
  <1>4. QED  BY <1>1, <1>2, <1>3

\* A row whose counter rose is not of the session of the last row when that
\* has served nothing: it was read before the session started.
LEMMA RisesAreEarlier ==
  ASSUME SnapshotsInv, snaps # <<>>, Last(snaps).served = 0, NEW i \in Rises
  PROVE  snaps[i].at <= Last(snaps).started
  <1>1. /\ Len(snaps) \in Nat /\ i \in 1 .. Len(snaps)
        /\ \A j \in 1 .. Len(snaps) : snaps[j] \in Snapshot
    BY DEF SnapshotsInv, Typed, Rises
  <1>2. \A j \in 1 .. Len(snaps) : snaps[j].served \in Nat
    BY <1>1 DEF Snapshot
  <1> DEFINE before == IF i > 1 /\ snaps[i - 1].started = snaps[i].started
                       THEN snaps[i - 1].served ELSE 0
  <1>3. snaps[i].served > before
    BY DEF Rises
  <1>4. before \in Nat
    BY <1>1, <1>2
  <1>5. snaps[i].served > 0
    <2> HIDE DEF before
    <2>1. QED  BY <1>1, <1>2, <1>3, <1>4
  <1>6. session.served = 0 /\ session.started = Last(snaps).started
    BY DEF Last, SnapshotsInv, SessionsInOrder
  <1>7. QED  BY <1>1, <1>2, <1>5, <1>6 DEF SnapshotsInv, SessionsInOrder

LEMMA InvAgree == SnapshotsInv => BadgeAndBandAgree
  <1> SUFFICES ASSUME SnapshotsInv, NEW network \in BOOLEAN
               PROVE  LET state == Health(network).state
                      IN  /\ state \in {"DAEMON_DOWN", "STALE"} => Band \in {"STALE", "OFF"}
                          /\ state = "HEALTHY" => Band \in {"EARNING", "TRUSTED", "ATTESTING"}
                          /\ state = "DEAD_SESSION" /\ Band = "EARNING" => Last(snaps).active
    BY DEF BadgeAndBandAgree
  <1> DEFINE state == Health(network).state
  <1>1. state \in {"DAEMON_DOWN", "STALE"} => Band \in {"STALE", "OFF"}
    BY BadgeFacts, BandFacts DEF IsDown
  <1>2. state = "HEALTHY" => Band \in {"EARNING", "TRUSTED", "ATTESTING"}
    BY BadgeFacts, BandFacts
  <1>3. ASSUME state = "DEAD_SESSION", Band = "EARNING", ~ Last(snaps).active PROVE FALSE
    <2>1. snaps # <<>> /\ Dead(network) /\ ServedRecently
      BY <1>3, BadgeFacts, BandFacts
    <2>2. PICK i \in Rises : clock - snaps[i].at <= RecentTraffic
      BY <1>3, <2>1 DEF ServedRecently
    <2>3. Last(snaps).served = 0 /\ clock - Last(snaps).started > SessionAge
      BY <2>1 DEF Dead
    <2>4. snaps[i].at <= Last(snaps).started
      BY <2>1, <2>3, RisesAreEarlier
    <2>5. /\ i \in 1 .. Len(snaps) /\ Len(snaps) \in 1 .. Len(snaps)
          /\ snaps[i] \in Snapshot /\ Last(snaps) \in Snapshot
      BY <2>1 DEF SnapshotsInv, Typed, Rises, Last
    <2>6. snaps[i].at \in Nat /\ Last(snaps).started \in Nat /\ clock \in Nat
      BY <2>5 DEF SnapshotsInv, Typed, Snapshot, Times
    <2>7. QED  BY <2>2, <2>3, <2>4, <2>6, Limits
  <1>4. QED  BY <1>1, <1>2, <1>3

(* A stale badge comes with a stale band, a healthy one with none that is, *)
(* and a dead session does not earn on an earlier session's requests.      *)
THEOREM AgreementHolds == Spec => []BadgeAndBandAgree
  <1>1. QED  BY InvHolds, InvAgree, PTL

-----------------------------------------------------------------------------
(* The daemon that is down.                                                *)

LEMMA InvDown == SnapshotsInv => DownIsExact
  <1> SUFFICES ASSUME SnapshotsInv, NEW network \in BOOLEAN
               PROVE  Health(network).state = "DAEMON_DOWN" <=>
                         /\ snaps # <<>>
                         /\ clock - Head(snaps).at > DownAfter
                         /\ \A i \in 1 .. Len(snaps) :
                               snaps[i].fresh => clock - snaps[i].at > DownAfter
    BY DEF DownIsExact
  <1> USE Limits
  <1>1. CASE snaps = <<>>
    BY <1>1, BadgeFacts
  <1>2. CASE snaps # <<>>
    <2> DEFINE n == Len(snaps)
    <2>1. /\ n \in Nat /\ 1 \in 1 .. n /\ n \in 1 .. n /\ DOMAIN snaps = 1 .. n
          /\ \A i \in 1 .. n : snaps[i] \in Snapshot
          /\ clock \in Nat
      BY <1>2 DEF SnapshotsInv, Typed, Times
    <2>2. \A i \in 1 .. n : snaps[i].at \in Nat /\ snaps[i].at <= clock
      BY <2>1 DEF Snapshot, Times, SnapshotsInv, RowsInOrder
    <2>3. \A i \in 1 .. n : snaps[1].at <= snaps[i].at /\ snaps[i].at <= snaps[n].at
      <3>1. ASSUME NEW i \in 1 .. n
            PROVE  snaps[1].at <= snaps[i].at /\ snaps[i].at <= snaps[n].at
        <4>1. i \in Int /\ n \in Int /\ 1 <= i /\ i <= n
          BY <2>1
        <4>2. snaps[1].at \in Nat /\ snaps[i].at \in Nat /\ snaps[n].at \in Nat
          BY <2>1, <2>2
        <4>3. 1 < i => snaps[1].at < snaps[i].at
          BY <2>1 DEF SnapshotsInv, RowsInOrder
        <4>4. i < n => snaps[i].at < snaps[n].at
          BY <2>1 DEF SnapshotsInv, RowsInOrder
        <4>5. (i = 1 \/ 1 < i) /\ (i = n \/ i < n)
          <5> HIDE DEF n
          <5>1. QED  BY <4>1
        <4>6. QED  BY <4>2, <4>3, <4>4, <4>5
      <3>2. QED  BY <3>1
    <2>4. Head(snaps) = snaps[1] /\ Last(snaps) = snaps[n]
      BY <2>1 DEF Last
    <2>5. ASSUME NEW t PROVE t \in FreshTimes <=> \E i \in 1 .. n : snaps[i].fresh /\ t = snaps[i].at
      BY <2>1 DEF FreshTimes, ToSet
    <2>6. FreshTimes \in SUBSET (0 .. clock)
      BY <2>1, <2>2, <2>5
    <2>7. Stale(Last(snaps)) <=> ~ snaps[n].fresh \/ clock - snaps[n].at > Freshness
      BY <2>4 DEF Stale
    <2>8. CASE FreshTimes = {}
      <3>1. \A i \in 1 .. n : ~ snaps[i].fresh
        BY <2>5, <2>8
      <3>2. DownSince = snaps[1].at
        BY <2>4, <2>8 DEF DownSince
      <3>3. IsDown <=> clock - snaps[1].at > DownAfter
        BY <1>2, <2>1, <2>7, <3>1, <3>2 DEF IsDown
      <3>4. QED  BY <1>2, <2>4, <3>1, <3>3, BadgeFacts
    <2>9. CASE FreshTimes # {}
      <3>1. DownSince \in FreshTimes /\ \A t \in FreshTimes : t <= DownSince
        <4>1. IsFiniteSet(FreshTimes)
          <5>1. IsFiniteSet(0 .. clock)
            BY <2>1, FS_Interval
          <5>2. QED  BY <2>6, <5>1, FS_Subset
        <4>2. FreshTimes \in SUBSET Int
          BY <2>6
        <4>3. QED  BY <2>9, <4>1, <4>2, MaxFacts DEF DownSince
      <3>2. PICK f \in 1 .. n : snaps[f].fresh /\ DownSince = snaps[f].at
        BY <2>5, <3>1
      <3>3. \A i \in 1 .. n : snaps[i].fresh => snaps[i].at <= snaps[f].at
        BY <2>5, <3>1, <3>2
      <3>4. ASSUME clock - snaps[f].at > DownAfter
            PROVE  /\ Stale(Last(snaps)) /\ clock - Head(snaps).at > DownAfter
                   /\ \A i \in 1 .. n : snaps[i].fresh => clock - snaps[i].at > DownAfter
        <4>1. \A i \in 1 .. n : snaps[i].fresh => clock - snaps[i].at > DownAfter
          BY <2>1, <2>2, <3>3, <3>4
        <4>2. clock - snaps[1].at > DownAfter
          BY <2>1, <2>2, <2>3, <3>4
        <4>3. snaps[n].fresh => clock - snaps[n].at > Freshness
          BY <2>1, <2>2, <4>1
        <4>4. QED  BY <2>4, <2>7, <4>1, <4>2, <4>3
      <3>5. IsDown <=> clock - snaps[f].at > DownAfter
        BY <1>2, <3>2, <3>4 DEF IsDown
      <3>6. (\A i \in 1 .. n : snaps[i].fresh => clock - snaps[i].at > DownAfter)
               => clock - snaps[f].at > DownAfter
        BY <3>2
      <3>7. QED  BY <1>2, <3>4, <3>5, <3>6, BadgeFacts
    <2>10. QED  BY <2>8, <2>9
  <1>3. QED  BY <1>1, <1>2

-----------------------------------------------------------------------------
(* Rows in the order of their stamps, and those from a time on.            *)

Ordered == {rows \in Seq(Snapshot) :
               \A i, j \in 1 .. Len(rows) : i < j => rows[i].at < rows[j].at}

LEMMA SnapsOrdered == SnapshotsInv => snaps \in Ordered /\ clock \in Nat
  BY DEF SnapshotsInv, Typed, RowsInOrder, Ordered, Times

LEMMA OrderedFacts ==
  ASSUME NEW rows \in Ordered
  PROVE  /\ rows \in Seq(Snapshot) /\ Len(rows) \in Nat /\ DOMAIN rows = 1 .. Len(rows)
         /\ \A i \in 1 .. Len(rows) : rows[i] \in Snapshot /\ rows[i].at \in Nat
         /\ \A i, j \in 1 .. Len(rows) : i <= j => rows[i].at <= rows[j].at
  <1>1. rows \in Seq(Snapshot) /\ Len(rows) \in Nat /\ DOMAIN rows = 1 .. Len(rows)
    BY DEF Ordered
  <1>2. ASSUME NEW i \in 1 .. Len(rows) PROVE rows[i] \in Snapshot /\ rows[i].at \in Nat
    <2>1. rows[i] \in Snapshot
      BY <1>1
    <2>2. QED  BY <2>1 DEF Snapshot, Times
  <1>3. ASSUME NEW i \in 1 .. Len(rows), NEW j \in 1 .. Len(rows), i <= j
        PROVE  rows[i].at <= rows[j].at
    <2>1. i \in Int /\ j \in Int
      OBVIOUS
    <2>2. i = j \/ i < j
      BY <1>3, <2>1
    <2>3. i < j => rows[i].at < rows[j].at
      BY DEF Ordered
    <2>4. QED  BY <1>2, <2>2, <2>3
  <1>4. QED  BY <1>1, <1>2, <1>3

\* Bisecting finds the rows up to a time.
LEMMA BisectFacts ==
  ASSUME NEW rows \in Ordered, NEW time \in Int
  PROVE  /\ Bisect(rows, time) \in 0 .. Len(rows)
         /\ \A i \in 1 .. Len(rows) : i <= Bisect(rows, time) <=> rows[i].at <= time
  <1> DEFINE n == Len(rows)
             S == {i \in 1 .. n : rows[i].at <= time}
  <1>1. n \in Nat /\ S \in SUBSET (1 .. n)
    BY OrderedFacts
  <1>2. ASSUME NEW i \in S, NEW j \in 1 .. i PROVE j \in S
    <2>1. i \in 1 .. n /\ j \in 1 .. n /\ j <= i
      BY <1>1
    <2>2. rows[j].at <= rows[i].at /\ rows[i].at \in Nat /\ rows[j].at \in Nat
      BY <2>1, OrderedFacts
    <2>3. QED  BY <2>1, <2>2
  <1>3. Cardinality(S) \in 0 .. n /\ S = 1 .. Cardinality(S)
    <2>1. \A i \in S : \A j \in 1 .. i : j \in S
      BY <1>2
    <2> HIDE DEF S, n
    <2>2. QED  BY <1>1, <2>1, SegmentIsCounted
  <1>4. Bisect(rows, time) = Cardinality(S)
    BY DEF Bisect
  <1>5. ASSUME NEW i \in 1 .. n PROVE i <= Cardinality(S) <=> rows[i].at <= time
    <2>1. i \in S <=> rows[i].at <= time
      OBVIOUS
    <2> HIDE DEF S
    <2>2. i \in 1 .. Cardinality(S) <=> i <= Cardinality(S)
      BY <1>1, <1>3
    <2>3. QED  BY <1>3, <2>1, <2>2
  <1>6. QED  BY <1>3, <1>4, <1>5

\* The rows from the a-th on are in order too.
LEMMA TailFacts ==
  ASSUME NEW rows \in Ordered, NEW a \in 1 .. Len(rows) + 1
  PROVE  LET tail == SubSeq(rows, a, Len(rows))
         IN  /\ tail \in Ordered
             /\ Len(tail) = Len(rows) - a + 1
             /\ \A i \in 1 .. Len(tail) : tail[i] = rows[a + i - 1]
  <1> DEFINE tail == SubSeq(rows, a, Len(rows))
             n == Len(rows)
  <1>1. rows \in Seq(Snapshot) /\ n \in Nat
    BY OrderedFacts
  <1>2. a \in Nat /\ a >= 1 /\ a <= n + 1
    BY <1>1
  <1>3. /\ tail \in Seq(Snapshot) /\ Len(tail) = n - a + 1
        /\ \A i \in 1 .. n - a + 1 : tail[i] = rows[a + i - 1]
    BY <1>1, <1>2
  <1>4. ASSUME NEW i \in 1 .. Len(tail), NEW j \in 1 .. Len(tail), i < j
        PROVE  tail[i].at < tail[j].at
    <2>1. tail[i] = rows[a + i - 1] /\ tail[j] = rows[a + j - 1]
      BY <1>3
    <2>2. a + i - 1 \in 1 .. n /\ a + j - 1 \in 1 .. n /\ a + i - 1 < a + j - 1
      BY <1>1, <1>2, <1>3, <1>4
    <2>3. QED  BY <2>1, <2>2 DEF Ordered
  <1>5. QED  BY <1>3, <1>4 DEF Ordered

LEMMA RowsFromFacts ==
  ASSUME SnapshotsInv, NEW time \in Int
  PROVE  \E b \in 0 .. Len(snaps) :
            /\ RowsFrom(time) \in Ordered
            /\ Len(RowsFrom(time)) = Len(snaps) - b
            /\ \A i \in 1 .. Len(snaps) - b : RowsFrom(time)[i] = snaps[b + i]
            /\ \A i \in 1 .. Len(snaps) : b < i <=> time <= snaps[i].at
  <1> DEFINE b == Bisect(snaps, time - 1)
             n == Len(snaps)
  <1>1. snaps \in Ordered /\ n \in Nat /\ \A i \in 1 .. n : snaps[i].at \in Nat
    BY SnapsOrdered, OrderedFacts
  <1>2. b \in 0 .. n /\ \A i \in 1 .. n : i <= b <=> snaps[i].at <= time - 1
    BY <1>1, BisectFacts
  <1>3. RowsFrom(time) = SubSeq(snaps, b + 1, n)
    BY DEF RowsFrom
  <1> HIDE DEF b
  <1>4. b + 1 \in 1 .. n + 1
    BY <1>1, <1>2
  <1>5. /\ RowsFrom(time) \in Ordered
        /\ Len(RowsFrom(time)) = n - (b + 1) + 1
        /\ \A i \in 1 .. Len(RowsFrom(time)) : RowsFrom(time)[i] = snaps[b + 1 + i - 1]
    BY <1>1, <1>3, <1>4, TailFacts
  <1>6. n - (b + 1) + 1 = n - b /\ \A i \in Int : b + 1 + i - 1 = b + i
    BY <1>1, <1>2
  <1>7. ASSUME NEW i \in 1 .. n PROVE b < i <=> time <= snaps[i].at
    <2>1. i \in Int /\ b \in Int /\ snaps[i].at \in Int
      BY <1>1, <1>2
    <2>2. i <= b <=> snaps[i].at <= time - 1
      BY <1>2
    <2>3. QED  BY <2>1, <2>2
  <1>8. \A i \in 1 .. n - b : RowsFrom(time)[i] = snaps[b + i]
    BY <1>1, <1>2, <1>5, <1>6
  <1>9. QED  BY <1>2, <1>5, <1>6, <1>7, <1>8

-----------------------------------------------------------------------------
(* The rows of the last hour.                                              *)

Flips == [warm : SUBSET Models, seen : BOOLEAN, flips : Nat, since : Int]

\* The steps of the fold that counts the changes of the warm set.
LEMMA FlipsSteps ==
  ASSUME NEW rows \in Seq(Snapshot)
  PROVE  \E steps :
            /\ steps[0] = NoFlips
            /\ \A k \in 1 .. Len(rows) : steps[k] = StepFlips(steps[k - 1], rows[k])
            /\ FoldLeft(StepFlips, NoFlips, rows) = steps[Len(rows)]
  <1> DEFINE n == Len(rows)
             f == [p \in (1 .. n) \X Flips |-> StepFlips(p[2], rows[p[1]])]
             IsIter(g) == g = [s \in SUBSET DOMAIN rows |->
                                 IF s = {} THEN NoFlips
                                 ELSE StepFlips(g[s \ {Max(s)}], rows[Max(s)])]
  <1>1. n \in Nat /\ DOMAIN rows = 1 .. n /\ \A i \in 1 .. n : rows[i] \in Snapshot
    OBVIOUS
  <1>2. NoFlips \in Flips
    BY DEF NoFlips, Flips, NoTime
  <1>3. \A count \in Flips, row \in Snapshot : StepFlips(count, row) \in Flips
    BY DEF StepFlips, Flips, Snapshot, Times, NoTime
  <1>4. f \in [(1 .. n) \X Flips -> Flips]
    BY <1>1, <1>3
  <1>5. \E g : IsIter(g)
    <2>0. PICK g : g \in LeftFolds(f, NoFlips, n, Flips)
      <3> HIDE DEF f, n
      <3>1. QED  BY <1>1, <1>2, <1>4, FoldLeftExists
    <2>1. g \in [SUBSET (1 .. n) -> Flips]
          /\ \A s \in SUBSET (1 .. n) :
               g[s] = IF s = {} THEN NoFlips ELSE f[<<Max(s), g[s \ {Max(s)}]>>]
      <3> HIDE DEF f
      <3>1. QED  BY <2>0 DEF LeftFolds
    <2>2. ASSUME NEW s \in SUBSET (1 .. n), s # {}
          PROVE  g[s] = StepFlips(g[s \ {Max(s)}], rows[Max(s)])
      <3>1. Max(s) \in 1 .. n
        <4> HIDE DEF n
        <4>1. QED  BY <1>1, <2>2, SegmentFacts
      <3>2. g[s \ {Max(s)}] \in Flips
        <4>1. s \ {Max(s)} \in SUBSET (1 .. n)
          OBVIOUS
        <4>2. QED  BY <2>1, <4>1
      <3>3. QED  BY <2>1, <2>2, <3>1, <3>2
    <2>3. IsIter(g)
      BY <1>1, <2>1, <2>2
    <2>4. QED  BY <2>3
  <1> DEFINE iter == CHOOSE g : IsIter(g)
  <1>6. IsIter(iter)
    BY <1>5
  <1>7. FoldLeft(StepFlips, NoFlips, rows) = iter[1 .. n]
    BY <1>1 DEF FoldLeft, MapThenFoldSet
  <1> DEFINE steps == [k \in 0 .. n |-> iter[1 .. k]]
  <1>8. \A s \in SUBSET (1 .. n) : iter[s] = IF s = {} THEN NoFlips
                                    ELSE StepFlips(iter[s \ {Max(s)}], rows[Max(s)])
    BY <1>1, <1>6
  <1> HIDE DEF iter, f
  <1>9. steps[0] = NoFlips
    <2>1. iter[{}] = NoFlips
      BY <1>8
    <2>2. 1 .. 0 = {}
      BY SegmentFacts
    <2>3. QED  BY <1>1, <2>1, <2>2
  <1>10. ASSUME NEW k \in 1 .. n PROVE steps[k] = StepFlips(steps[k - 1], rows[k])
    <2>1. steps[k] = iter[1 .. k] /\ steps[k - 1] = iter[1 .. k - 1]
      BY <1>1
    <2>2. 1 .. k # {} /\ 1 .. k \in SUBSET (1 .. n)
          /\ Max(1 .. k) = k /\ (1 .. k) \ {k} = 1 .. k - 1
      <3> HIDE DEF n
      <3>1. QED  BY <1>1, SegmentFacts
    <2>3. iter[1 .. k] = StepFlips(iter[(1 .. k) \ {k}], rows[k])
      BY <1>8, <2>2
    <2>4. QED  BY <2>1, <2>2, <2>3
  <1>11. steps[n] = iter[1 .. n]
    BY <1>1
  <1> HIDE DEF steps
  <1>12. QED  BY <1>7, <1>9, <1>10, <1>11
Streaks == [start : Int, served : Int, found : Int]

\* The steps of the fold that follows the streaks of an active daemon.
LEMMA FrozenSteps ==
  ASSUME NEW rows \in Seq(Snapshot)
  PROVE  \E steps :
            /\ steps[0] = NoStreak
            /\ \A k \in 1 .. Len(rows) : steps[k] = StepFrozen(steps[k - 1], rows[k])
            /\ FoldLeft(StepFrozen, NoStreak, rows) = steps[Len(rows)]
  <1> DEFINE n == Len(rows)
             f == [p \in (1 .. n) \X Streaks |-> StepFrozen(p[2], rows[p[1]])]
             IsIter(g) == g = [s \in SUBSET DOMAIN rows |->
                                 IF s = {} THEN NoStreak
                                 ELSE StepFrozen(g[s \ {Max(s)}], rows[Max(s)])]
  <1>1. n \in Nat /\ DOMAIN rows = 1 .. n /\ \A i \in 1 .. n : rows[i] \in Snapshot
    OBVIOUS
  <1>2. NoStreak \in Streaks
    BY DEF NoStreak, Streaks, NoTime
  <1>3. \A streak \in Streaks, row \in Snapshot : StepFrozen(streak, row) \in Streaks
    BY DEF StepFrozen, Streaks, Snapshot, Times, NoTime
  <1>4. f \in [(1 .. n) \X Streaks -> Streaks]
    BY <1>1, <1>3
  <1>5. \E g : IsIter(g)
    <2>0. PICK g : g \in LeftFolds(f, NoStreak, n, Streaks)
      <3> HIDE DEF f, n
      <3>1. QED  BY <1>1, <1>2, <1>4, FoldLeftExists
    <2>1. g \in [SUBSET (1 .. n) -> Streaks]
          /\ \A s \in SUBSET (1 .. n) :
               g[s] = IF s = {} THEN NoStreak ELSE f[<<Max(s), g[s \ {Max(s)}]>>]
      <3> HIDE DEF f
      <3>1. QED  BY <2>0 DEF LeftFolds
    <2>2. ASSUME NEW s \in SUBSET (1 .. n), s # {}
          PROVE  g[s] = StepFrozen(g[s \ {Max(s)}], rows[Max(s)])
      <3>1. Max(s) \in 1 .. n
        <4> HIDE DEF n
        <4>1. QED  BY <1>1, <2>2, SegmentFacts
      <3>2. g[s \ {Max(s)}] \in Streaks
        <4>1. s \ {Max(s)} \in SUBSET (1 .. n)
          OBVIOUS
        <4>2. QED  BY <2>1, <4>1
      <3>3. QED  BY <2>1, <2>2, <3>1, <3>2
    <2>3. IsIter(g)
      BY <1>1, <2>1, <2>2
    <2>4. QED  BY <2>3
  <1> DEFINE iter == CHOOSE g : IsIter(g)
  <1>6. IsIter(iter)
    BY <1>5
  <1>7. FoldLeft(StepFrozen, NoStreak, rows) = iter[1 .. n]
    BY <1>1 DEF FoldLeft, MapThenFoldSet
  <1> DEFINE steps == [k \in 0 .. n |-> iter[1 .. k]]
  <1>8. \A s \in SUBSET (1 .. n) : iter[s] = IF s = {} THEN NoStreak
                                    ELSE StepFrozen(iter[s \ {Max(s)}], rows[Max(s)])
    BY <1>1, <1>6
  <1> HIDE DEF iter, f
  <1>9. steps[0] = NoStreak
    <2>1. iter[{}] = NoStreak
      BY <1>8
    <2>2. 1 .. 0 = {}
      BY SegmentFacts
    <2>3. QED  BY <1>1, <2>1, <2>2
  <1>10. ASSUME NEW k \in 1 .. n PROVE steps[k] = StepFrozen(steps[k - 1], rows[k])
    <2>1. steps[k] = iter[1 .. k] /\ steps[k - 1] = iter[1 .. k - 1]
      BY <1>1
    <2>2. 1 .. k # {} /\ 1 .. k \in SUBSET (1 .. n)
          /\ Max(1 .. k) = k /\ (1 .. k) \ {k} = 1 .. k - 1
      <3> HIDE DEF n
      <3>1. QED  BY <1>1, SegmentFacts
    <2>3. iter[1 .. k] = StepFrozen(iter[(1 .. k) \ {k}], rows[k])
      BY <1>8, <2>2
    <2>4. QED  BY <2>1, <2>2, <2>3
  <1>11. steps[n] = iter[1 .. n]
    BY <1>1
  <1> HIDE DEF steps
  <1>12. QED  BY <1>7, <1>9, <1>10, <1>11

LEMMA StampsAreTimes ==
  \A row \in Snapshot : row.at \in Nat /\ row.at # NoTime
  <1>1. \A row \in Snapshot : row.at \in Nat
    BY DEF Snapshot, Times
  <1>2. QED  BY <1>1, Limits

\* The changes of the warm set up to the k-th row.
Changes(rows, k) == {i \in 2 .. k : rows[i].warm # rows[i - 1].warm}

LEMMA ChangesCounted ==
  ASSUME NEW rows, NEW k \in Nat \ {0}
  PROVE  /\ IsFiniteSet(Changes(rows, k)) /\ Cardinality(Changes(rows, k)) \in Nat
         /\ Changes(rows, 1) = {}
         /\ k > 1 => Changes(rows, k) =
               IF rows[k].warm # rows[k - 1].warm THEN Changes(rows, k - 1) \cup {k}
               ELSE Changes(rows, k - 1)
         /\ k \notin Changes(rows, k - 1)
         /\ {j \in Changes(rows, k) : j < k} = Changes(rows, k - 1)
  <1>1. IsFiniteSet(Changes(rows, k)) /\ Cardinality(Changes(rows, k)) \in Nat
    <2>1. IsFiniteSet(2 .. k)
      BY FS_Interval
    <2>2. Changes(rows, k) \in SUBSET (2 .. k)
      BY DEF Changes
    <2>3. QED  BY <2>1, <2>2, FS_Subset, FS_CardinalityType
  <1>2. Changes(rows, 1) = {}
    BY DEF Changes
  <1>3. ASSUME k > 1
        PROVE  Changes(rows, k) =
               IF rows[k].warm # rows[k - 1].warm THEN Changes(rows, k - 1) \cup {k}
               ELSE Changes(rows, k - 1)
    <2>1. \A i : i \in 2 .. k <=> i \in 2 .. k - 1 \/ i = k
      BY <1>3
    <2>2. QED  BY <2>1 DEF Changes
  <1>4. k \notin Changes(rows, k - 1)
    BY DEF Changes
  <1>5. {j \in Changes(rows, k) : j < k} = Changes(rows, k - 1)
    <2>1. \A i : i \in 2 .. k - 1 <=> i \in 2 .. k /\ i < k
      OBVIOUS
    <2>2. QED  BY <2>1 DEF Changes
  <1>6. QED  BY <1>1, <1>2, <1>3, <1>4, <1>5

\* What the count has come to after the k-th row.
Counted(rows, count, k) ==
    /\ count.seen /\ count.warm = rows[k].warm
    /\ count.flips = Cardinality(Changes(rows, k))
    /\ count.since = NoTime <=> count.flips <= WarmFlips
    /\ \A i \in Changes(rows, k) :
          Cardinality(Changes(rows, i - 1)) = WarmFlips => count.since = rows[i].at

LEMMA FirstCounted ==
  ASSUME NEW rows \in Seq(Snapshot), 1 \in 1 .. Len(rows)
  PROVE  Counted(rows, StepFlips(NoFlips, rows[1]), 1)
  <1>1. Changes(rows, 1) = {} /\ Cardinality(Changes(rows, 1)) = 0
    BY ChangesCounted, FS_EmptySet
  <1>2. StepFlips(NoFlips, rows[1]) = [warm |-> rows[1].warm, seen |-> TRUE,
                                       flips |-> 0, since |-> NoTime]
    <2>1. NoFlips.seen = FALSE /\ NoFlips.flips = 0 /\ NoFlips.since = NoTime
      BY DEF NoFlips
    <2>2. 0 + 0 = 0 /\ ~ (0 > WarmFlips)
      BY Limits
    <2>3. QED  BY <2>1, <2>2 DEF StepFlips
  <1>3. QED  BY <1>1, <1>2, Limits DEF Counted

LEMMA NextCounted ==
  ASSUME NEW rows \in Seq(Snapshot), NEW k \in 2 .. Len(rows),
         NEW count, Counted(rows, count, k - 1)
  PROVE  Counted(rows, StepFlips(count, rows[k]), k)
  <1> DEFINE before == Changes(rows, k - 1)
             next == StepFlips(count, rows[k])
             flips == count.flips + (IF rows[k].warm # rows[k - 1].warm THEN 1 ELSE 0)
  <1>1. /\ IsFiniteSet(before) /\ Cardinality(before) \in Nat
        /\ k \notin before /\ k \in Nat /\ k > 1
        /\ Changes(rows, k) = IF rows[k].warm # rows[k - 1].warm THEN before \cup {k} ELSE before
    <2>1. k \in Nat \ {0} /\ k - 1 \in Nat \ {0} /\ k > 1
      OBVIOUS
    <2>2. QED  BY <2>1, ChangesCounted
  <1>2. rows[k].at # NoTime
    <2>1. rows[k] \in Snapshot
      OBVIOUS
    <2>2. QED  BY <2>1, StampsAreTimes
  <1>3. count.flips = Cardinality(before) /\ count.seen /\ count.warm = rows[k - 1].warm
    BY DEF Counted
  <1>4. /\ next.warm = rows[k].warm /\ next.seen /\ next.flips = flips
        /\ next.since = IF count.since = NoTime /\ flips > WarmFlips THEN rows[k].at
                        ELSE count.since
    BY <1>3 DEF StepFlips
  <1>5. flips = Cardinality(Changes(rows, k))
    <2>1. Cardinality(before \cup {k}) = Cardinality(before) + 1
      BY <1>1, FS_AddElement
    <2>2. QED  BY <1>1, <1>3, <2>1
  <1>6. count.since = NoTime <=> count.flips <= WarmFlips
    BY DEF Counted
  <1> HIDE DEF before, next
  <1>7. CASE rows[k].warm = rows[k - 1].warm
    <2>1. flips = count.flips /\ next.since = count.since /\ Changes(rows, k) = before
      BY <1>1, <1>3, <1>4, <1>6, <1>7, Limits
    <2>2. \A i \in Changes(rows, k) :
             Cardinality(Changes(rows, i - 1)) = WarmFlips => next.since = rows[i].at
      BY <2>1 DEF Counted, before
    <2>3. next.since = NoTime <=> next.flips <= WarmFlips
      BY <1>4, <1>6, <2>1
    <2>4. QED  BY <1>4, <1>5, <2>2, <2>3 DEF Counted, next
  <1>8. CASE rows[k].warm # rows[k - 1].warm
    <2>1. flips = count.flips + 1 /\ Changes(rows, k) = before \cup {k}
          /\ count.flips \in Nat
      BY <1>1, <1>3, <1>8
    <2>2. next.since = NoTime <=> next.flips <= WarmFlips
      <3> HIDE DEF flips
      <3>1. QED  BY <1>2, <1>4, <1>6, <2>1, Limits
    <2>3. ASSUME NEW i \in Changes(rows, k), Cardinality(Changes(rows, i - 1)) = WarmFlips
          PROVE  next.since = rows[i].at
      <3>1. CASE i = k
        <4>1. count.flips = WarmFlips
          BY <1>3, <2>3, <3>1 DEF before
        <4> HIDE DEF flips
        <4>2. QED  BY <1>4, <1>6, <2>1, <3>1, <4>1, Limits
      <3>2. CASE i \in before
        <4>1. count.since = rows[i].at
          BY <2>3, <3>2 DEF Counted, before
        <4>2. count.since # NoTime
          <5>1. i \in 2 .. k - 1
            BY <3>2 DEF before, Changes
          <5>2. i \in 1 .. Len(rows)
            BY <5>1
          <5>3. rows[i] \in Snapshot
            BY <5>2
          <5>4. QED  BY <4>1, <5>3, StampsAreTimes
        <4>3. QED  BY <1>4, <4>1, <4>2
      <3>3. QED  BY <2>1, <3>1, <3>2
    <2>4. QED  BY <1>4, <1>5, <2>2, <2>3 DEF Counted, next
  <1>9. QED  BY <1>7, <1>8

LEMMA InvThrash == SnapshotsInv => ThrashIsExact
  <1> SUFFICES ASSUME SnapshotsInv PROVE ThrashIsExact
    OBVIOUS
  <1> DEFINE n == Len(Recent)
             changes == {i \in 2 .. Len(Recent) : Recent[i].warm # Recent[i - 1].warm}
             crossings == {i \in changes : Cardinality({j \in changes : j < i}) = WarmFlips}
  <1>1. Recent \in Seq(Snapshot) /\ n \in Nat
    <2>1. clock - Hour \in Int
      BY Limits, SnapsOrdered
    <2>2. Recent \in Ordered
      BY <2>1, RowsFromFacts DEF Recent
    <2>3. QED  BY <2>2, OrderedFacts
  <1>2. changes = Changes(Recent, n)
    BY DEF Changes
  <1>3. PICK steps : /\ steps[0] = NoFlips
                     /\ \A k \in 1 .. n : steps[k] = StepFlips(steps[k - 1], Recent[k])
                     /\ FoldLeft(StepFlips, NoFlips, Recent) = steps[n]
    BY <1>1, FlipsSteps
  <1>4. CASE n = 0
    <2>1. changes = {} /\ Cardinality(changes) = 0
      BY <1>4, FS_EmptySet
    <2>2. ThrashSince = NoTime
      BY <1>3, <1>4 DEF ThrashSince, NoFlips
    <2>3. QED  BY <2>1, <2>2, Limits DEF ThrashIsExact
  <1>5. CASE n # 0
    <2> DEFINE Good == {m \in 0 .. n - 1 : Counted(Recent, steps[m + 1], m + 1)}
    <2> HIDE DEF n
    <2>1. n - 1 \in Nat /\ 1 \in 1 .. n
      BY <1>1, <1>5
    <2>2. 0 \in Good
      <3>1. steps[1] = StepFlips(NoFlips, Recent[1])
        <4>1. 1 - 1 = 0
          OBVIOUS
        <4>2. QED  BY <1>3, <2>1, <4>1
      <3>2. Counted(Recent, steps[1], 1)
        BY <1>1, <2>1, <3>1, FirstCounted DEF n
      <3>3. 0 \in 0 .. n - 1 /\ 0 + 1 = 1
        BY <2>1
      <3>4. QED  BY <3>2, <3>3
    <2>3. ASSUME NEW m \in 0 .. (n - 1) - 1, m \in Good PROVE m + 1 \in Good
      <3>1. m + 1 \in 0 .. n - 1 /\ m + 2 \in 2 .. n /\ m + 2 \in 1 .. n
            /\ m + 2 - 1 = m + 1 /\ m + 1 + 1 = m + 2
        <4>1. m \in Int /\ n \in Int /\ 0 <= m /\ m <= n - 2
          BY <1>1, <2>1
        <4>2. QED  BY <4>1
      <3>2. Counted(Recent, steps[m + 1], m + 1)
        BY <2>3
      <3>3. steps[m + 2] = StepFlips(steps[m + 1], Recent[m + 2])
        BY <1>3, <3>1
      <3>4. Counted(Recent, steps[m + 2], m + 2)
        BY <1>1, <3>1, <3>2, <3>3, NextCounted DEF n
      <3>5. QED  BY <3>1, <3>4
    <2>4. n - 1 \in Good
      <3>1. \A m \in 0 .. n - 1 : m \in Good
        <4> HIDE DEF Good
        <4>1. QED  BY <2>1, <2>2, <2>3, Induct
      <3>2. QED  BY <2>1, <3>1
    <2>5. Counted(Recent, steps[n], n)
      <3>1. n - 1 + 1 = n
        BY <1>1
      <3>2. QED  BY <2>4, <3>1
    <2>6. ThrashSince = steps[n].since
      BY <1>3 DEF ThrashSince
    <2>7. Cardinality(changes) <= WarmFlips => ThrashSince = NoTime
      BY <1>2, <2>5, <2>6 DEF Counted
    <2>8. ASSUME NEW i \in crossings PROVE ThrashSince = Recent[i].at
      <3>1. i \in changes /\ Cardinality({j \in changes : j < i}) = WarmFlips
        OBVIOUS
      <3>2. i \in 2 .. n
        BY DEF n
      <3>3. {j \in changes : j < i} = Changes(Recent, i - 1)
        <4>1. \A j : j \in 2 .. n /\ j < i <=> j \in 2 .. i - 1
          BY <1>1, <3>2
        <4>2. QED  BY <4>1 DEF Changes, n
      <3> HIDE DEF changes
      <3>4. QED  BY <1>2, <2>5, <2>6, <3>1, <3>3 DEF Counted
    <2>9. QED  BY <2>7, <2>8 DEF ThrashIsExact
  <1>6. QED  BY <1>4, <1>5

\* Streaks of any rows, and those that were too long by the k-th row.
StreakOf(rows, i, j) ==
    /\ \A k \in i .. j : rows[k].active /\ rows[k].served = rows[i].served
    /\ i > 1 => ~ (rows[i - 1].active /\ rows[i - 1].served = rows[i].served)

LongEnd(rows, i, j) == StreakOf(rows, i, j) /\ rows[j].at - rows[i].at > FrozenFor

LongBy(rows, k) == {i \in 1 .. k : \E j \in i .. k : LongEnd(rows, i, j)}

\* No streak begins within another.
LEMMA LatestStreak ==
  ASSUME NEW rows, NEW k \in Nat, NEW i \in 1 .. k, StreakOf(rows, i, k),
         NEW j \in 1 .. k, NEW l \in j .. k, StreakOf(rows, j, l)
  PROVE  j <= i
  <1> SUFFICES ASSUME i < j PROVE FALSE
    OBVIOUS
  <1>1. j \in i .. k /\ j - 1 \in i .. k /\ j > 1
    OBVIOUS
  <1>2. rows[j - 1].active /\ rows[j - 1].served = rows[i].served
        /\ rows[j].served = rows[i].served
    BY <1>1 DEF StreakOf
  <1>3. QED  BY <1>1, <1>2 DEF StreakOf

LEMMA LongBySplits ==
  ASSUME NEW rows, NEW k \in Nat \ {0}
  PROVE  LongBy(rows, k) = LongBy(rows, k - 1) \cup {i \in 1 .. k : LongEnd(rows, i, k)}
  <1>1. \A i : \A j : i \in 1 .. k /\ j \in i .. k
                  <=> \/ i \in 1 .. k - 1 /\ j \in i .. k - 1
                      \/ i \in 1 .. k /\ j = k
    OBVIOUS
  <1>2. QED  BY <1>1 DEF LongBy

\* What following the streaks has come to after the k-th row.
Followed(rows, streak, k) ==
    /\ streak.served = rows[k].served
    /\ ~ rows[k].active => streak.start = NoTime
    /\ rows[k].active => \E i \in 1 .. k : StreakOf(rows, i, k) /\ streak.start = rows[i].at
    /\ LongBy(rows, k) = {} => streak.found = NoTime
    /\ \A i \in LongBy(rows, k) :
          (\A j \in LongBy(rows, k) : j <= i) => streak.found = rows[i].at

\* One row more, seen from the rows before it.
LEMMA StepFollowed ==
  ASSUME NEW rows \in Seq(Snapshot), NEW k \in 1 .. Len(rows), NEW streak,
         k = 1 => streak = NoStreak,
         k > 1 => Followed(rows, streak, k - 1)
  PROVE  Followed(rows, StepFrozen(streak, rows[k]), k)
  <1> DEFINE next == StepFrozen(streak, rows[k])
             ends == {i \in 1 .. k : LongEnd(rows, i, k)}
  <1>1. /\ k \in Nat \ {0} /\ \A i \in 1 .. k : rows[i].at \in Nat /\ rows[i].at # NoTime
    BY StampsAreTimes
  <1>2. LongBy(rows, k) = LongBy(rows, k - 1) \cup ends
    BY <1>1, LongBySplits
  <1>3. /\ LongBy(rows, k - 1) = {} => streak.found = NoTime
        /\ \A i \in LongBy(rows, k - 1) :
              (\A j \in LongBy(rows, k - 1) : j <= i) => streak.found = rows[i].at
    <2>1. CASE k = 1
      <3>1. LongBy(rows, k - 1) = {}
        BY <2>1 DEF LongBy
      <3>2. QED  BY <2>1, <3>1 DEF NoStreak
    <2>2. CASE k > 1
      BY <2>2 DEF Followed
    <2>3. QED  BY <1>1, <2>1, <2>2
  <1> HIDE DEF ends
  <1>4. ASSUME ends = {}, next.found = streak.found
        PROVE  /\ LongBy(rows, k) = {} => next.found = NoTime
               /\ \A i \in LongBy(rows, k) :
                    (\A j \in LongBy(rows, k) : j <= i) => next.found = rows[i].at
    <2>1. LongBy(rows, k) = LongBy(rows, k - 1)
      BY <1>2, <1>4
    <2> HIDE DEF next
    <2>2. QED  BY <1>3, <1>4, <2>1
  <1>5. next.served = rows[k].served
    BY DEF StepFrozen
  <1>6. CASE ~ rows[k].active
    <2>1. next.start = NoTime /\ next.found = streak.found
      BY <1>6 DEF StepFrozen
    <2>2. ends = {}
      <3>1. ASSUME NEW i \in 1 .. k PROVE ~ StreakOf(rows, i, k)
        <4>1. k \in i .. k
          BY <1>1
        <4>2. QED  BY <1>6, <4>1 DEF StreakOf
      <3>2. QED  BY <3>1 DEF ends, LongEnd
    <2> HIDE DEF next
    <2>3. QED  BY <1>4, <1>5, <1>6, <2>1, <2>2 DEF Followed, next
  <1>7. CASE rows[k].active /\ (streak.start = NoTime \/ rows[k].served # streak.served)
    <2>1. next.start = rows[k].at /\ next.found = streak.found
      <3>1. ~ (rows[k].at - rows[k].at > FrozenFor)
        BY <1>1, Limits
      <3>2. QED  BY <1>7, <3>1 DEF StepFrozen
    <2>2. StreakOf(rows, k, k)
      <3>1. \A l \in k .. k : l = k
        BY <1>1
      <3>2. ASSUME k > 1 PROVE ~ (rows[k - 1].active /\ rows[k - 1].served = rows[k].served)
        <4>1. rows[k - 1].active => streak.start # NoTime
          <5>1. \A i \in 1 .. k - 1 : rows[i].at # NoTime
            BY <1>1
          <5>2. QED  BY <3>2, <5>1 DEF Followed
        <4>2. streak.served = rows[k - 1].served
          BY <3>2 DEF Followed
        <4>3. QED  BY <1>7, <4>1, <4>2
      <3>3. QED  BY <1>7, <3>1, <3>2 DEF StreakOf
    <2>3. ends = {}
      <3>1. ASSUME NEW i \in 1 .. k, LongEnd(rows, i, k) PROVE FALSE
        <4>1. StreakOf(rows, i, k) /\ rows[k].at - rows[i].at > FrozenFor
          BY <3>1 DEF LongEnd
        <4>2. k \in 1 .. k /\ k \in k .. k
          BY <1>1
        <4>3. k <= i
          BY <1>1, <2>2, <4>1, <4>2, LatestStreak
        <4>4. i = k
          BY <1>1, <4>3
        <4>5. QED  BY <1>1, <4>1, <4>4, Limits
      <3>2. QED  BY <3>1 DEF ends
    <2>4. k \in 1 .. k
      BY <1>1
    <2> HIDE DEF next
    <2>5. QED  BY <1>4, <1>5, <1>7, <2>1, <2>2, <2>3, <2>4 DEF Followed, next
  <1>8. CASE rows[k].active /\ streak.start # NoTime /\ rows[k].served = streak.served
    <2>1. k > 1 /\ k - 1 \in 1 .. k /\ k - 1 \in 1 .. k - 1
      BY <1>1, <1>8 DEF NoStreak
    <2>2. rows[k - 1].active /\ rows[k].served = rows[k - 1].served
      BY <1>8, <2>1 DEF Followed
    <2>3. PICK i \in 1 .. k - 1 : StreakOf(rows, i, k - 1) /\ streak.start = rows[i].at
      BY <2>1, <2>2 DEF Followed
    <2>4. i \in 1 .. k /\ StreakOf(rows, i, k)
      <3>1. i \in 1 .. k /\ k - 1 \in i .. k - 1 /\ \A l \in i .. k : l \in i .. k - 1 \/ l = k
        BY <1>1
      <3>2. rows[k].active /\ rows[k].served = rows[i].served
        BY <1>8, <2>2, <2>3, <3>1 DEF StreakOf
      <3>3. QED  BY <2>3, <3>1, <3>2 DEF StreakOf
    <2>5. next.start = rows[i].at
          /\ next.found = IF rows[k].at - rows[i].at > FrozenFor THEN rows[i].at
                          ELSE streak.found
      BY <1>1, <1>8, <2>3, <2>4 DEF StepFrozen
    <2> HIDE DEF next
    <2>6. ASSUME NEW j \in LongBy(rows, k) PROVE j <= i
      <3>1. PICK l \in j .. k : j \in 1 .. k /\ LongEnd(rows, j, l)
        BY DEF LongBy
      <3>2. QED  BY <1>1, <2>4, <3>1, LatestStreak DEF LongEnd
    <2>7. CASE rows[k].at - rows[i].at > FrozenFor
      <3>1. i \in LongBy(rows, k)
        BY <1>2, <2>4, <2>7 DEF ends, LongEnd
      <3>2. ASSUME NEW m \in LongBy(rows, k), \A j \in LongBy(rows, k) : j <= m
            PROVE  m = i
        <4>1. m <= i /\ i <= m
          BY <2>6, <3>1, <3>2
        <4>2. m \in Int /\ i \in Int
          BY DEF LongBy
        <4>3. QED  BY <4>1, <4>2
      <3>3. QED  BY <1>5, <1>8, <2>4, <2>5, <2>7, <3>1, <3>2 DEF Followed, next
    <2>8. CASE ~ (rows[k].at - rows[i].at > FrozenFor)
      <3>1. ends = {}
        <4>1. ASSUME NEW j \in 1 .. k, LongEnd(rows, j, k) PROVE FALSE
          <5>1. StreakOf(rows, j, k) /\ rows[k].at - rows[j].at > FrozenFor
            BY <4>1 DEF LongEnd
          <5>2. k \in i .. k /\ k \in j .. k
            BY <1>1, <2>4
          <5>3. i <= j /\ j <= i
            BY <1>1, <2>4, <5>1, <5>2, LatestStreak
          <5>4. i = j
            BY <5>3
          <5>5. QED  BY <2>8, <5>1, <5>4
        <4>2. QED  BY <4>1 DEF ends
      <3>2. QED  BY <1>4, <1>5, <1>8, <2>4, <2>5, <2>8, <3>1 DEF Followed, next
    <2>9. QED  BY <2>7, <2>8
  <1>9. QED  BY <1>6, <1>7, <1>8 DEF next

LEMMA AllFollowed ==
  ASSUME NEW rows \in Seq(Snapshot), Len(rows) # 0, NEW steps, steps[0] = NoStreak,
         \A k \in 1 .. Len(rows) : steps[k] = StepFrozen(steps[k - 1], rows[k])
  PROVE  Followed(rows, steps[Len(rows)], Len(rows))
  <1> DEFINE n == Len(rows)
             Good == {m \in 0 .. n : m > 0 => Followed(rows, steps[m], m)}
  <1>1. n \in Nat /\ n # 0
    OBVIOUS
  <1> HIDE DEF n
  <1>2. 0 \in Good
    BY <1>1
  <1>3. ASSUME NEW m \in 0 .. n - 1, m \in Good PROVE m + 1 \in Good
    <2>1. m \in Int /\ 0 <= m /\ m <= n - 1 /\ n \in Int
      BY <1>1
    <2>2. m + 1 \in 0 .. n /\ m + 1 \in 1 .. n /\ m + 1 - 1 = m
          /\ (m + 1 = 1 => m = 0) /\ (m + 1 > 1 => m > 0)
      BY <2>1
    <2>3. steps[m + 1] = StepFrozen(steps[m], rows[m + 1])
      BY <2>2 DEF n
    <2>4. m + 1 = 1 => steps[m] = NoStreak
      BY <2>2
    <2>5. m + 1 > 1 => Followed(rows, steps[m], m)
      BY <1>3, <2>2
    <2>6. Followed(rows, StepFrozen(steps[m], rows[m + 1]), m + 1)
      <3>1. m + 1 > 1 => Followed(rows, steps[m], m + 1 - 1)
        BY <2>2, <2>5
      <3>2. m + 1 \in 1 .. Len(rows)
        BY <2>2 DEF n
      <3>3. QED  BY <2>4, <3>1, <3>2, StepFollowed
    <2>7. QED  BY <2>2, <2>3, <2>6
  <1>4. n \in Good
    <2>1. \A m \in 0 .. n : m \in Good
      <3> HIDE DEF Good
      <3>1. QED  BY <1>1, <1>2, <1>3, Induct
    <2>2. n \in 0 .. n
      BY <1>1
    <2>3. QED  BY <2>1, <2>2
  <1>5. QED  BY <1>1, <1>4 DEF n

LEMMA InvFrozen == SnapshotsInv => FrozenIsExact
  <1> SUFFICES ASSUME SnapshotsInv PROVE FrozenIsExact
    OBVIOUS
  <1> DEFINE n == Len(Recent)
             starts == {i \in 1 .. Len(Recent) : TooLong(Recent, i)}
             latest == CHOOSE i \in starts : \A j \in starts : j <= i
  <1>1. Recent \in Seq(Snapshot) /\ n \in Nat
    <2>1. clock - Hour \in Int
      BY Limits, SnapsOrdered
    <2>2. Recent \in Ordered
      BY <2>1, RowsFromFacts DEF Recent
    <2>3. QED  BY <2>2, OrderedFacts
  <1>2. PICK steps : /\ steps[0] = NoStreak
                     /\ \A k \in 1 .. n : steps[k] = StepFrozen(steps[k - 1], Recent[k])
                     /\ FoldLeft(StepFrozen, NoStreak, Recent) = steps[n]
    BY <1>1, FrozenSteps
  <1> DEFINE streak == steps[n]
  <1>3. FrozenSince = IF streak.start # NoTime /\ clock - streak.start > FrozenFor
                      THEN streak.start ELSE streak.found
    BY <1>2 DEF FrozenSince
  <1>4. FrozenIsExact <=> FrozenSince = IF starts = {} THEN NoTime ELSE Recent[latest].at
    BY DEF FrozenIsExact
  <1>5. CASE n = 0
    <2>1. starts = {}
      BY <1>5
    <2>2. streak = NoStreak
      BY <1>2, <1>5
    <2> HIDE DEF streak, starts
    <2>3. QED  BY <1>3, <1>4, <2>1, <2>2 DEF NoStreak
  <1>6. CASE n # 0
    <2>1. Followed(Recent, streak, n)
      BY <1>1, <1>2, <1>6, AllFollowed
    <2>2. ASSUME NEW i \in 1 .. n
          PROVE  i \in starts <=> \/ i \in LongBy(Recent, n)
                                  \/ StreakOf(Recent, i, n) /\ clock - Recent[i].at > FrozenFor
      <3>1. n \in i .. n /\ i \in 1 .. Len(Recent)
        BY <1>1
      <3>2. \A j : Streak(Recent, i, j) <=> StreakOf(Recent, i, j)
        BY DEF Streak, StreakOf
      <3>3. i \in starts <=> TooLong(Recent, i)
        BY <3>1
      <3> HIDE DEF starts
      <3>4. TooLong(Recent, i) <=> \E j \in i .. n :
                              /\ StreakOf(Recent, i, j)
                              /\ \/ Recent[j].at - Recent[i].at > FrozenFor
                                 \/ j = n /\ clock - Recent[i].at > FrozenFor
        BY <3>2 DEF TooLong
      <3>5. i \in LongBy(Recent, n) <=> \E j \in i .. n : LongEnd(Recent, i, j)
        BY DEF LongBy
      <3> HIDE DEF n
      <3>6. QED  BY <3>1, <3>3, <3>4, <3>5 DEF LongEnd
    <2>3. starts \in SUBSET (1 .. n) /\ LongBy(Recent, n) \in SUBSET (1 .. n)
      BY DEF LongBy
    <2> HIDE DEF starts, streak, n
    <2>4. \A i \in starts : (\A j \in starts : j <= i) => latest = i
      <3>1. ASSUME NEW i \in starts, \A j \in starts : j <= i PROVE latest = i
        <4>1. latest \in starts /\ \A j \in starts : j <= latest
          BY <3>1
        <4> HIDE DEF latest
        <4>2. latest \in 1 .. n /\ i \in 1 .. n
          BY <2>3, <4>1
        <4>3. latest <= i /\ i <= latest
          BY <3>1, <4>1
        <4>4. QED  BY <1>1, <4>2, <4>3
      <3>2. QED  BY <3>1
    <2>5. CASE streak.start # NoTime /\ clock - streak.start > FrozenFor
      <3>1. PICK i \in 1 .. n : StreakOf(Recent, i, n) /\ streak.start = Recent[i].at
        BY <2>1, <2>5 DEF Followed
      <3>2. i \in starts
        BY <2>2, <2>5, <3>1
      <3>3. ASSUME NEW j \in starts PROVE j <= i
        <4>1. j \in 1 .. n
          BY <2>3
        <4>2. \E l \in j .. n : StreakOf(Recent, j, l)
          <5>1. n \in j .. n
            BY <1>1, <4>1
          <5>2. QED  BY <2>2, <4>1, <5>1 DEF LongBy, LongEnd
        <4>3. QED  BY <1>1, <3>1, <4>1, <4>2, LatestStreak
      <3>4. latest = i
        BY <2>4, <3>2, <3>3
      <3> HIDE DEF latest
      <3>5. QED  BY <1>3, <1>4, <2>5, <3>1, <3>2, <3>4
    <2>6. CASE ~ (streak.start # NoTime /\ clock - streak.start > FrozenFor)
      <3>1. starts = LongBy(Recent, n)
        <4>1. ASSUME NEW i \in 1 .. n, StreakOf(Recent, i, n),
                     clock - Recent[i].at > FrozenFor
              PROVE  FALSE
          <5>0. n \in i .. n
            BY <1>1
          <5>1. Recent[n].active
            BY <4>1, <5>0 DEF StreakOf
          <5>2. PICK j \in 1 .. n : StreakOf(Recent, j, n) /\ streak.start = Recent[j].at
            BY <2>1, <5>1 DEF Followed
          <5>3. n \in j .. n
            BY <1>1
          <5>4. i <= j /\ j <= i
            BY <1>1, <4>1, <5>0, <5>2, <5>3, LatestStreak
          <5>5. i = j
            BY <5>4
          <5>6. Recent[j].at # NoTime
            <6>1. Recent[j] \in Snapshot
              BY <1>1 DEF n
            <6>2. QED  BY <6>1, StampsAreTimes
          <5>7. QED  BY <2>6, <4>1, <5>2, <5>5, <5>6
        <4>2. QED  BY <2>2, <2>3, <4>1
      <3>2. FrozenSince = streak.found
        BY <1>3, <2>6
      <3>3. CASE starts = {}
        BY <1>4, <2>1, <3>1, <3>2, <3>3 DEF Followed
      <3>4. CASE starts # {}
        <4>1. PICK i \in starts : \A j \in starts : j <= i
          <5>1. IsFiniteSet(1 .. n)
            BY <1>1, FS_Interval
          <5>2. IsFiniteSet(starts)
            BY <2>3, <5>1, FS_Subset
          <5>3. starts \in SUBSET Int
            BY <2>3
          <5>4. QED  BY <3>4, <5>2, <5>3, GreatestExists
        <4>2. latest = i
          BY <2>4, <4>1
        <4>3. streak.found = Recent[i].at
          BY <2>1, <3>1, <4>1 DEF Followed
        <4> HIDE DEF latest
        <4>4. QED  BY <1>4, <3>2, <3>4, <4>2, <4>3
      <3>5. QED  BY <3>3, <3>4
    <2>7. QED  BY <2>5, <2>6
  <1>7. QED  BY <1>5, <1>6

(* The badge names a daemon that is down, one that thrashes and one that   *)
(* is frozen exactly when the history says so, and since when it says so.  *)
THEOREM HealthHolds == Spec => []HealthIsExact
  <1>1. SnapshotsInv => HealthIsExact
    BY InvDown, InvThrash, InvFrozen DEF HealthIsExact
  <1>2. QED  BY <1>1, InvHolds, PTL

-----------------------------------------------------------------------------
(* The serving shares.                                                     *)

LEMMA HeldIsNat ==
  ASSUME SnapshotsInv, NEW rows \in Ordered, NEW since \in Int, NEW m, NEW i \in 1 .. Len(rows)
  PROVE  Held(rows, since, m, i) \in Nat
  <1> DEFINE next == IF i < Len(rows) THEN rows[i + 1].at ELSE clock
  <1>1. next \in Int /\ rows[i].at \in Int
    <2>1. Len(rows) \in Nat /\ \A j \in 1 .. Len(rows) : rows[j].at \in Nat
      BY OrderedFacts
    <2>2. clock \in Nat
      BY SnapsOrdered
    <2>3. i < Len(rows) => i + 1 \in 1 .. Len(rows)
      BY <2>1
    <2>4. QED  BY <2>1, <2>2, <2>3
  <1> HIDE DEF next
  <1>2. Later(0, next - Later(rows[i].at, since)) \in Nat
    BY <1>1 DEF Later
  <1>3. QED  BY <1>2 DEF Held, next

\* The steps of the fold that sums what the rows held.
LEMMA SumSteps ==
  ASSUME SnapshotsInv, NEW rows \in Ordered, NEW since \in Int, NEW m
  PROVE  \E steps :
            /\ steps[0] = 0
            /\ \A k \in 1 .. Len(rows) : steps[k] = steps[k - 1] + Held(rows, since, m, k)
            /\ SumHeld(rows, since, m) = steps[Len(rows)]
  <1> DEFINE n == Len(rows)
             held(i) == Held(rows, since, m, i)
             numbers == [i \in 1 .. Len(rows) |-> i]
             f == [p \in (1 .. n) \X Nat |-> p[2] + held(p[1])]
             IsIter(g) == g = [s \in SUBSET DOMAIN numbers |->
                                 IF s = {} THEN 0
                                 ELSE g[s \ {Max(s)}] + Held(rows, since, m, numbers[Max(s)])]
  <1>1. n \in Nat /\ DOMAIN numbers = 1 .. n /\ \A i \in 1 .. n : numbers[i] = i
    BY OrderedFacts
  <1>2. \A i \in 1 .. n : held(i) \in Nat
    BY HeldIsNat
  <1>3. f \in [(1 .. n) \X Nat -> Nat]
    <2> HIDE DEF held
    <2>1. \A p \in (1 .. n) \X Nat : p[2] + held(p[1]) \in Nat
      BY <1>2
    <2>2. QED  BY <2>1
  <1>4. \E g : IsIter(g)
    <2>0. PICK g : g \in LeftFolds(f, 0, n, Nat)
      <3>1. 0 \in Nat
        OBVIOUS
      <3> HIDE DEF f, n
      <3>2. LeftFolds(f, 0, n, Nat) # {}
        BY <1>1, <1>3, <3>1, FoldLeftExists
      <3>3. QED  BY <3>2
    <2>1. g \in [SUBSET (1 .. n) -> Nat]
          /\ \A s \in SUBSET (1 .. n) :
               g[s] = IF s = {} THEN 0 ELSE f[<<Max(s), g[s \ {Max(s)}]>>]
      <3> HIDE DEF f
      <3>1. QED  BY <2>0 DEF LeftFolds
    <2>2. ASSUME NEW s \in SUBSET (1 .. n), s # {}
          PROVE  g[s] = g[s \ {Max(s)}] + held(numbers[Max(s)])
      <3>1. Max(s) \in 1 .. n
        <4> HIDE DEF n
        <4>1. QED  BY <1>1, <2>2, SegmentFacts
      <3>2. g[s \ {Max(s)}] \in Nat
        <4>1. s \ {Max(s)} \in SUBSET (1 .. n)
          OBVIOUS
        <4>2. QED  BY <2>1, <4>1
      <3>3. numbers[Max(s)] = Max(s)
        BY <1>1, <3>1
      <3> HIDE DEF held, n, numbers
      <3>4. QED  BY <2>1, <2>2, <3>1, <3>2, <3>3
    <2>3. IsIter(g)
      <3> HIDE DEF numbers
      <3>1. QED  BY <1>1, <2>1, <2>2
    <2>4. QED  BY <2>3
  <1> DEFINE iter == CHOOSE g : IsIter(g)
  <1>5. IsIter(iter)
    BY <1>4
  <1>6. SumHeld(rows, since, m) = iter[1 .. n]
    BY <1>1 DEF SumHeld, FoldLeft, MapThenFoldSet
  <1> DEFINE steps == [k \in 0 .. n |-> iter[1 .. k]]
  <1>7. \A s \in SUBSET (1 .. n) : iter[s] = IF s = {} THEN 0
                                    ELSE iter[s \ {Max(s)}] + held(numbers[Max(s)])
    <2> HIDE DEF iter, numbers
    <2>1. QED  BY <1>1, <1>5
  <1> HIDE DEF iter, f, numbers
  <1>8. steps[0] = 0
    <2>1. iter[{}] = 0
      BY <1>7
    <2>2. 1 .. 0 = {}
      BY SegmentFacts
    <2>3. QED  BY <1>1, <2>1, <2>2
  <1>9. ASSUME NEW k \in 1 .. n PROVE steps[k] = steps[k - 1] + held(k)
    <2> HIDE DEF held
    <2>1. steps[k] = iter[1 .. k] /\ steps[k - 1] = iter[1 .. k - 1]
      BY <1>1
    <2>2. 1 .. k # {} /\ 1 .. k \in SUBSET (1 .. n)
          /\ Max(1 .. k) = k /\ (1 .. k) \ {k} = 1 .. k - 1
      <3> HIDE DEF n
      <3>1. QED  BY <1>1, SegmentFacts
    <2>3. iter[1 .. k] = iter[(1 .. k) \ {k}] + held(numbers[k])
      BY <1>7, <2>2
    <2>4. numbers[k] = k
      BY <1>1
    <2>5. QED  BY <2>1, <2>2, <2>3, <2>4
  <1>10. steps[n] = iter[1 .. n]
    BY <1>1
  <1> HIDE DEF steps
  <1>11. QED  BY <1>6, <1>8, <1>9, <1>10

\* The moments at which the i-th row counts for a model.
NextOf(i) == IF i < Len(snaps) THEN snaps[i + 1].at ELSE clock

MomentsOf(m, since, i) ==
    {t \in since .. clock - 1 :
        /\ snaps[i].at <= t /\ t < NextOf(i)
        /\ Serving(snaps[i], m) /\ NextOf(i) - snaps[i].at <= OutageGap}

LEMMA NextOfFacts ==
  ASSUME SnapshotsInv, NEW i \in 1 .. Len(snaps)
  PROVE  /\ NextOf(i) \in Nat /\ NextOf(i) <= clock /\ clock \in Nat
         /\ snaps[i].at \in Nat /\ snaps[i].at <= NextOf(i)
         /\ \A j \in 1 .. Len(snaps) : i < j => NextOf(i) <= snaps[j].at
  <1>1. /\ Len(snaps) \in Nat /\ clock \in Nat
        /\ \A j \in 1 .. Len(snaps) : snaps[j].at \in Nat
        /\ \A j, k \in 1 .. Len(snaps) : j <= k => snaps[j].at <= snaps[k].at
    BY SnapsOrdered, OrderedFacts
  <1>2. \A j \in 1 .. Len(snaps) : snaps[j].at <= clock
    BY DEF SnapshotsInv, RowsInOrder
  <1>3. i \in Int /\ 1 <= i /\ i <= Len(snaps)
    BY <1>1
  <1>4. CASE i < Len(snaps)
    <2>1. i + 1 \in 1 .. Len(snaps) /\ i <= i + 1
          /\ \A j \in 1 .. Len(snaps) : i < j => i + 1 <= j
      BY <1>1, <1>3, <1>4
    <2>2. QED  BY <1>1, <1>2, <1>4, <2>1 DEF NextOf
  <1>5. CASE ~ (i < Len(snaps))
    <2>1. \A j \in 1 .. Len(snaps) : ~ (i < j)
      BY <1>1, <1>3, <1>5
    <2>2. QED  BY <1>1, <1>2, <1>5, <2>1 DEF NextOf
  <1>6. QED  BY <1>4, <1>5

LEMMA MomentsApart ==
  ASSUME SnapshotsInv, NEW since \in Int, NEW m,
         NEW i \in 1 .. Len(snaps), NEW j \in 1 .. Len(snaps), i < j
  PROVE  MomentsOf(m, since, i) \cap MomentsOf(m, since, j) = {}
  <1>1. NextOf(i) \in Nat /\ NextOf(i) <= snaps[j].at /\ snaps[j].at \in Nat
    BY NextOfFacts
  <1>2. \A t \in Int : ~ (t < NextOf(i) /\ snaps[j].at <= t)
    BY <1>1
  <1>3. QED  BY <1>2 DEF MomentsOf

LEMMA MomentsCounted ==
  ASSUME SnapshotsInv, NEW since \in Int, NEW m, NEW i \in 1 .. Len(snaps)
  PROVE  /\ IsFiniteSet(MomentsOf(m, since, i))
         /\ Cardinality(MomentsOf(m, since, i)) =
               IF Serving(snaps[i], m) /\ NextOf(i) - snaps[i].at <= OutageGap
               THEN Later(0, NextOf(i) - Later(snaps[i].at, since)) ELSE 0
  <1>1. NextOf(i) \in Nat /\ NextOf(i) <= clock /\ clock \in Nat /\ snaps[i].at \in Nat
    BY NextOfFacts
  <1>2. CASE Serving(snaps[i], m) /\ NextOf(i) - snaps[i].at <= OutageGap
    <2> DEFINE from == Later(snaps[i].at, since)
    <2>1. from \in Int /\ \A t \in Int : from <= t <=> snaps[i].at <= t /\ since <= t
      BY <1>1 DEF Later
    <2> HIDE DEF from
    <2>2. MomentsOf(m, since, i) = from .. NextOf(i) - 1
      <3>1. \A t \in Int : t \in from .. NextOf(i) - 1
               <=> t \in since .. clock - 1 /\ snaps[i].at <= t /\ t < NextOf(i)
        BY <1>1, <2>1
      <3>2. QED  BY <1>2, <3>1 DEF MomentsOf
    <2>3. /\ IsFiniteSet(from .. NextOf(i) - 1)
          /\ Cardinality(from .. NextOf(i) - 1) = Later(0, NextOf(i) - from)
      <3>1. NextOf(i) - 1 \in Int
        BY <1>1
      <3>2. /\ IsFiniteSet(from .. NextOf(i) - 1)
            /\ Cardinality(from .. NextOf(i) - 1) =
                  IF from > NextOf(i) - 1 THEN 0 ELSE (NextOf(i) - 1) - from + 1
        BY <2>1, <3>1, FS_Interval
      <3>3. QED  BY <1>1, <2>1, <3>2 DEF Later
    <2>4. QED  BY <1>2, <2>2, <2>3 DEF from
  <1>3. CASE ~ (Serving(snaps[i], m) /\ NextOf(i) - snaps[i].at <= OutageGap)
    <2>1. MomentsOf(m, since, i) = {}
      BY <1>3 DEF MomentsOf
    <2>2. QED  BY <1>3, <2>1, FS_EmptySet
  <1>4. QED  BY <1>2, <1>3

\* The rows from the a-th on, if those before it are over at `since', hold
\* exactly the moments at which any row counts.
LEMMA TailSum ==
  ASSUME SnapshotsInv, NEW since \in Int, NEW m, NEW a \in 1 .. Len(snaps) + 1,
         a = 1 \/ (a <= Len(snaps) /\ snaps[a].at <= since)
  PROVE  SumHeld(SubSeq(snaps, a, Len(snaps)), since, m) = Moments(m, since)
  <1> DEFINE n == Len(snaps)
             tail == SubSeq(snaps, a, n)
             N == Len(tail)
             row(k) == a + k - 1
             upTo(k) == UNION {MomentsOf(m, since, row(j)) : j \in 1 .. k}
  <1>1. snaps \in Ordered /\ n \in Nat /\ a \in Nat /\ a >= 1 /\ a <= n + 1
    <2>1. snaps \in Ordered /\ n \in Nat
      BY SnapsOrdered, OrderedFacts
    <2>2. QED  BY <2>1
  <1>2. /\ tail \in Ordered /\ N = n - a + 1 /\ N \in Nat
        /\ \A k \in 1 .. N : tail[k] = snaps[row(k)]
    <2>1. tail \in Ordered /\ N = n - a + 1 /\ \A k \in 1 .. N : tail[k] = snaps[a + k - 1]
      BY <1>1, TailFacts
    <2>2. QED  BY <1>1, <2>1
  <1> HIDE DEF tail, N
  <1>3. ASSUME NEW k \in 1 .. N
        PROVE  /\ row(k) \in 1 .. n
               /\ Held(tail, since, m, k) = Cardinality(MomentsOf(m, since, row(k)))
               /\ IsFiniteSet(MomentsOf(m, since, row(k)))
    <2>1. row(k) \in 1 .. n /\ (k < N <=> row(k) < n) /\ (k < N => k + 1 \in 1 .. N)
          /\ row(k + 1) = row(k) + 1
      <3>1. k \in Int /\ 1 <= k /\ k <= N /\ N = n - a + 1
            /\ a \in Int /\ n \in Int /\ a >= 1
        BY <1>1, <1>2
      <3> HIDE DEF n
      <3>2. row(k) \in 1 .. n /\ (k < N <=> row(k) < n)
        BY <3>1
      <3>3. (k < N => k + 1 \in 1 .. N) /\ row(k + 1) = row(k) + 1
        BY <3>1
      <3>4. QED  BY <3>2, <3>3
    <2> HIDE DEF row
    <2>2. (IF k < Len(tail) THEN tail[k + 1].at ELSE clock) = NextOf(row(k))
      BY <1>2, <2>1 DEF NextOf, N
    <2>3. tail[k] = snaps[row(k)]
      BY <1>2
    <2>4. Held(tail, since, m, k) =
              IF Serving(snaps[row(k)], m) /\ NextOf(row(k)) - snaps[row(k)].at <= OutageGap
              THEN Later(0, NextOf(row(k)) - Later(snaps[row(k)].at, since)) ELSE 0
      BY <2>2, <2>3 DEF Held
    <2>5. QED  BY <2>1, <2>4, MomentsCounted
  <1>4. PICK steps : /\ steps[0] = 0
                     /\ \A k \in 1 .. N : steps[k] = steps[k - 1] + Held(tail, since, m, k)
                     /\ SumHeld(tail, since, m) = steps[N]
    BY <1>2, SumSteps DEF N
  <1> DEFINE Good == {k \in 0 .. N : IsFiniteSet(upTo(k)) /\ Cardinality(upTo(k)) = steps[k]}
  <1>5. 0 \in Good
    <2>1. upTo(0) = {}
      OBVIOUS
    <2>2. IsFiniteSet({}) /\ Cardinality({}) = 0
      BY FS_EmptySet
    <2>3. 0 \in 0 .. N
      BY <1>2
    <2> HIDE DEF upTo
    <2>4. QED  BY <1>4, <2>1, <2>2, <2>3
  <1>6. ASSUME NEW k \in 0 .. N - 1, k \in Good PROVE k + 1 \in Good
    <2>1. k \in Int /\ k + 1 \in 1 .. N /\ k + 1 \in 0 .. N /\ k + 1 - 1 = k
      <3>1. k \in Int /\ 0 <= k /\ k <= N - 1
        BY <1>2
      <3>2. QED  BY <1>2, <3>1
    <2>2. upTo(k + 1) = upTo(k) \cup MomentsOf(m, since, row(k + 1))
      <3>1. \A j : j \in 1 .. k + 1 <=> j \in 1 .. k \/ j = k + 1
        BY <1>2, <1>6
      <3> HIDE DEF row
      <3>2. QED  BY <3>1
    <2>3. ASSUME NEW j \in 1 .. k
          PROVE  MomentsOf(m, since, row(j)) \cap MomentsOf(m, since, row(k + 1)) = {}
      <3>1. row(j) \in 1 .. n
        <4>1. j \in 1 .. N
          BY <1>2, <2>1
        <4>2. QED  BY <1>3, <4>1
      <3>2. row(k + 1) \in 1 .. n
        BY <1>3, <2>1
      <3>3. row(j) < row(k + 1)
        <4>1. j \in Int /\ j <= k
          BY <2>1
        <4>2. QED  BY <1>1, <2>1, <4>1
      <3> HIDE DEF row
      <3>4. QED  BY <3>1, <3>2, <3>3, MomentsApart
    <2>4. upTo(k) \cap MomentsOf(m, since, row(k + 1)) = {}
      <3> HIDE DEF row
      <3>1. QED  BY <2>3
    <2> HIDE DEF upTo, row
    <2>5. IsFiniteSet(MomentsOf(m, since, row(k + 1)))
      BY <1>3, <2>1
    <2>6. /\ IsFiniteSet(upTo(k + 1))
          /\ Cardinality(upTo(k + 1)) = Cardinality(upTo(k))
                + Cardinality(MomentsOf(m, since, row(k + 1))) - Cardinality({})
      BY <1>6, <2>2, <2>4, <2>5, FS_Union
    <2>7. Cardinality(upTo(k + 1)) = steps[k + 1]
      <3>1. Cardinality(upTo(k)) \in Nat /\ Cardinality(upTo(k)) = steps[k]
            /\ Cardinality(MomentsOf(m, since, row(k + 1))) \in Nat
        BY <1>6, <2>5, FS_CardinalityType
      <3>2. steps[k + 1] = steps[k] + Cardinality(MomentsOf(m, since, row(k + 1)))
        BY <1>3, <1>4, <2>1
      <3>3. Cardinality({}) = 0
        BY FS_EmptySet
      <3>4. QED  BY <2>6, <3>1, <3>2, <3>3
    <2>8. QED  BY <2>1, <2>6, <2>7
  <1>7. N \in Good
    <2>1. \A k \in 0 .. N : k \in Good
      <3> HIDE DEF Good
      <3>1. QED  BY <1>2, <1>5, <1>6, Induct
    <2>2. N \in 0 .. N
      BY <1>2
    <2>3. QED  BY <2>1, <2>2
  <1>8. upTo(N) = {t \in since .. clock - 1 : ServesAt(m, t)}
    <2>1. ASSUME NEW t PROVE t \in since .. clock - 1 /\ ServesAt(m, t)
                              <=> \E i \in 1 .. n : t \in MomentsOf(m, since, i)
      BY DEF ServesAt, MomentsOf, NextOf
    <2>2. ASSUME NEW i \in 1 .. n, NEW t \in MomentsOf(m, since, i) PROVE a <= i
      <3> SUFFICES ASSUME i < a PROVE FALSE
        BY <1>1
      <3>1. a \in 1 .. n /\ snaps[a].at <= since
        BY <1>1
      <3>2. NextOf(i) <= snaps[a].at /\ NextOf(i) \in Nat /\ snaps[a].at \in Nat
        BY <3>1, NextOfFacts
      <3>3. since <= t /\ t < NextOf(i) /\ t \in Int
        BY DEF MomentsOf
      <3>4. QED  BY <3>1, <3>2, <3>3
    <2>3. \A i \in 1 .. n : a <= i => i - a + 1 \in 1 .. N /\ row(i - a + 1) = i
      BY <1>1, <1>2
    <2>4. ASSUME NEW t, NEW i \in 1 .. n, t \in MomentsOf(m, since, i) PROVE t \in upTo(N)
      <3>1. a <= i
        BY <2>2, <2>4
      <3>2. i - a + 1 \in 1 .. N /\ row(i - a + 1) = i
        BY <2>3, <3>1
      <3> HIDE DEF row
      <3>3. QED  BY <2>4, <3>2
    <2>5. ASSUME NEW t \in upTo(N) PROVE \E i \in 1 .. n : t \in MomentsOf(m, since, i)
      <3>1. PICK k \in 1 .. N : t \in MomentsOf(m, since, row(k))
        OBVIOUS
      <3>2. row(k) \in 1 .. n
        BY <1>3
      <3> HIDE DEF row
      <3>3. QED  BY <3>1, <3>2
    <2> HIDE DEF upTo
    <2>6. QED  BY <2>1, <2>4, <2>5
  <1>9. SumHeld(tail, since, m) = Cardinality(upTo(N))
    BY <1>4, <1>7
  <1> HIDE DEF upTo
  <1>10. QED  BY <1>8, <1>9 DEF Moments, tail

LEMMA LongestFacts ==
  Longest \in Windows /\ \A w \in Windows : w \in Nat /\ w >= 1 /\ w <= Longest
  <1>1. Windows \in SUBSET Int /\ Windows # {} /\ IsFiniteSet(Windows)
        /\ \A w \in Windows : w \in Nat /\ w >= 1
    BY LimitsAssumption
  <1>2. \E w \in Windows : \A v \in Windows : v <= w
    BY <1>1, GreatestExists
  <1>3. QED  BY <1>1, <1>2 DEF Longest

\* Cutting rows at a time leaves those from the latest one up to it on.
LEMMA InWindowFacts ==
  ASSUME NEW rows \in Ordered, NEW since \in Int
  PROVE  \E a \in 1 .. Len(rows) + 1 :
            /\ InWindow(rows, since) = SubSeq(rows, a, Len(rows))
            /\ a = 1 \/ (a <= Len(rows) /\ rows[a].at <= since)
  <1> DEFINE b == Bisect(rows, since)
  <1>1. b \in 0 .. Len(rows) /\ Len(rows) \in Nat
        /\ \A i \in 1 .. Len(rows) : i <= b <=> rows[i].at <= since
    BY BisectFacts, OrderedFacts
  <1>2. InWindow(rows, since) = SubSeq(rows, Later(1, b), Len(rows))
    BY DEF InWindow
  <1> HIDE DEF b
  <1>3. CASE b = 0
    <2>1. Later(1, b) = 1 /\ 1 \in 1 .. Len(rows) + 1
      BY <1>1, <1>3 DEF Later
    <2>2. QED  BY <1>2, <2>1
  <1>4. CASE b # 0
    <2>1. Later(1, b) = b /\ b \in 1 .. Len(rows) + 1 /\ b <= Len(rows)
          /\ b \in 1 .. Len(rows) /\ b <= b
      BY <1>1, <1>4 DEF Later
    <2>2. QED  BY <1>1, <1>2, <2>1
  <1>5. QED  BY <1>3, <1>4

LEMMA TailOfTail ==
  ASSUME NEW rows \in Ordered, NEW a \in 1 .. Len(rows) + 1,
         NEW tail, tail = SubSeq(rows, a, Len(rows)), NEW c \in 1 .. Len(tail) + 1
  PROVE  SubSeq(tail, c, Len(tail)) = SubSeq(rows, a + c - 1, Len(rows))
  <1>1. /\ Len(rows) \in Nat /\ tail \in Ordered /\ Len(tail) = Len(rows) - a + 1
        /\ \A i \in 1 .. Len(tail) : tail[i] = rows[a + i - 1]
    BY OrderedFacts, TailFacts
  <1>2. a \in Int /\ 1 <= a /\ a <= Len(rows) + 1 /\ c \in Int /\ 1 <= c /\ c <= Len(tail) + 1
    BY <1>1
  <1>3. a + c - 1 \in 1 .. Len(rows) + 1
    BY <1>1, <1>2
  <1> DEFINE left == SubSeq(tail, c, Len(tail))
             right == SubSeq(rows, a + c - 1, Len(rows))
  <1>4. /\ left \in Seq(Snapshot) /\ Len(left) = Len(tail) - c + 1
        /\ \A i \in 1 .. Len(left) : left[i] = tail[c + i - 1]
    BY <1>1, TailFacts, OrderedFacts
  <1>5. /\ right \in Seq(Snapshot) /\ Len(right) = Len(rows) - (a + c - 1) + 1
        /\ \A i \in 1 .. Len(right) : right[i] = rows[a + c - 1 + i - 1]
    BY <1>3, TailFacts, OrderedFacts
  <1> HIDE DEF left, right
  <1>6. Len(left) = Len(right) /\ Len(left) \in Nat
    BY <1>1, <1>2, <1>4, <1>5
  <1>7. ASSUME NEW i \in 1 .. Len(left) PROVE left[i] = right[i]
    <2>1. i \in Int /\ 1 <= i /\ i <= Len(left)
      BY <1>6
    <2>2. c + i - 1 \in 1 .. Len(tail) /\ a + (c + i - 1) - 1 = a + c - 1 + i - 1
      BY <1>1, <1>2, <1>4, <2>1
    <2>3. left[i] = rows[a + (c + i - 1) - 1]
      BY <1>1, <1>4, <2>2
    <2>4. right[i] = rows[a + c - 1 + i - 1]
      BY <1>5, <1>6
    <2>5. QED  BY <2>2, <2>3, <2>4
  <1>8. left = right
    <2>1. left \in [1 .. Len(left) -> Snapshot]
      BY <1>4
    <2>2. right \in [1 .. Len(left) -> Snapshot]
      BY <1>5, <1>6
    <2>3. QED  BY <1>7, <2>1, <2>2
  <1>9. QED  BY <1>8 DEF left, right

LEMMA InvServing == SnapshotsInv => ServingIsExact
  <1> SUFFICES ASSUME SnapshotsInv, NEW m \in Models
               PROVE  /\ \A w \in Windows : NamedSeconds(w, m) = Moments(m, clock - w)
                      /\ LifetimeSeconds(m) = IF snaps = <<>> THEN 0
                                              ELSE Moments(m, Head(snaps).at)
    BY DEF ServingIsExact
  <1>1. /\ snaps \in Ordered /\ clock \in Nat /\ Len(snaps) \in Nat
        /\ snaps \in Seq(Snapshot)
        /\ \A i \in 1 .. Len(snaps) : snaps[i].at \in Nat
    BY SnapsOrdered, OrderedFacts
  <1>2. ASSUME NEW w \in Windows PROVE NamedSeconds(w, m) = Moments(m, clock - w)
    <2>1. /\ clock - w \in Int /\ clock - Longest \in Int
          /\ clock - Longest <= clock - w
      BY <1>1, LongestFacts
    <2>2. PICK a \in 1 .. Len(snaps) + 1 :
            /\ History = SubSeq(snaps, a, Len(snaps))
            /\ a = 1 \/ (a <= Len(snaps) /\ snaps[a].at <= clock - Longest)
      BY <1>1, <2>1, InWindowFacts DEF History
    <2>3. /\ History \in Ordered /\ Len(History) = Len(snaps) - a + 1
          /\ \A i \in 1 .. Len(History) : History[i] = snaps[a + i - 1]
      BY <1>1, <2>2, TailFacts
    <2>4. PICK c \in 1 .. Len(History) + 1 :
            /\ InWindow(History, clock - w) = SubSeq(History, c, Len(History))
            /\ c = 1 \/ (c <= Len(History) /\ History[c].at <= clock - w)
      BY <2>1, <2>3, InWindowFacts
    <2>5. InWindow(History, clock - w) = SubSeq(snaps, a + c - 1, Len(snaps))
      BY <1>1, <2>2, <2>4, TailOfTail
    <2>6. a \in Int /\ 1 <= a /\ a <= Len(snaps) + 1
          /\ c \in Int /\ 1 <= c /\ c <= Len(History) + 1
      BY <1>1, <2>3
    <2>7. a + c - 1 \in 1 .. Len(snaps) + 1
      BY <1>1, <2>3, <2>6
    <2>8. a + c - 1 = 1
          \/ (a + c - 1 <= Len(snaps) /\ snaps[a + c - 1].at <= clock - w)
      <3>1. CASE c = 1
        <4>1. a + c - 1 = a
          BY <2>6, <3>1
        <4>2. CASE a = 1
          BY <4>1, <4>2
        <4>3. CASE a <= Len(snaps) /\ snaps[a].at <= clock - Longest
          <5>1. a \in 1 .. Len(snaps)
            BY <1>1, <2>6, <4>3
          <5>2. snaps[a].at \in Nat
            BY <1>1, <5>1
          <5>3. Longest \in Nat /\ w \in Nat
            BY LongestFacts
          <5>4. snaps[a].at <= clock - w
            BY <1>1, <2>1, <4>3, <5>2, <5>3
          <5>5. QED  BY <4>1, <4>3, <5>4
        <4>4. QED  BY <2>2, <4>2, <4>3
      <3>2. CASE c <= Len(History) /\ History[c].at <= clock - w
        <4>1. c \in 1 .. Len(History)
          BY <2>3, <2>6, <3>2
        <4>2. a + c - 1 <= Len(snaps)
          BY <1>1, <2>3, <2>6, <3>2
        <4>3. QED  BY <2>3, <3>2, <4>1, <4>2
      <3>3. QED  BY <2>4, <3>1, <3>2
    <2>9. SumHeld(SubSeq(snaps, a + c - 1, Len(snaps)), clock - w, m) = Moments(m, clock - w)
      BY <2>1, <2>7, <2>8, TailSum
    <2>10. QED  BY <2>5, <2>9 DEF NamedSeconds
  <1>3. ASSUME snaps # <<>> PROVE LifetimeSeconds(m) = Moments(m, Head(snaps).at)
    <2>1. 1 \in 1 .. Len(snaps) + 1 /\ Head(snaps).at \in Int
      <3>1. 1 \in 1 .. Len(snaps) /\ Head(snaps) = snaps[1]
        BY <1>1, <1>3
      <3>2. QED  BY <1>1, <3>1
    <2>2. SubSeq(snaps, 1, Len(snaps)) = snaps
      BY <1>1
    <2>3. SumHeld(SubSeq(snaps, 1, Len(snaps)), Head(snaps).at, m) = Moments(m, Head(snaps).at)
      BY <2>1, TailSum
    <2>4. QED  BY <1>3, <2>2, <2>3 DEF LifetimeSeconds
  <1>4. snaps = <<>> => LifetimeSeconds(m) = 0
    BY DEF LifetimeSeconds
  <1>5. QED  BY <1>2, <1>3, <1>4

(* Every window counts exactly the moments in which the model served: what *)
(* the cuts leave out was over when the window began.                      *)
THEOREM ServingHolds == Spec => []ServingIsExact
  <1>1. QED  BY InvServing, InvHolds, PTL

-----------------------------------------------------------------------------
(* Sums of the sizes of sets that have nothing in common.                  *)

Parts(X, s) == UNION {X[i] : i \in s}

Apart(X, D) == /\ \A i \in D : IsFiniteSet(X[i])
               /\ \A i, j \in D : i # j => X[i] \cap X[j] = {}

LEMMA PartsSplit ==
  ASSUME NEW D, NEW X, Apart(X, D), NEW s \in SUBSET D, NEW x \in s,
         IsFiniteSet(Parts(X, s \ {x}))
  PROVE  /\ IsFiniteSet(Parts(X, s)) /\ IsFiniteSet(X[x])
         /\ Cardinality(Parts(X, s)) = Cardinality(Parts(X, s \ {x})) + Cardinality(X[x])
  <1>1. IsFiniteSet(X[x])
    BY DEF Apart
  <1>2. Parts(X, s) = Parts(X, s \ {x}) \cup X[x]
    BY DEF Parts
  <1>3. Parts(X, s \ {x}) \cap X[x] = {}
    <2>1. \A i \in s \ {x} : X[i] \cap X[x] = {}
      BY DEF Apart
    <2>2. QED  BY <2>1 DEF Parts
  <1>4. /\ IsFiniteSet(Parts(X, s))
        /\ Cardinality(Parts(X, s)) = Cardinality(Parts(X, s \ {x})) + Cardinality(X[x])
                                      - Cardinality({})
    BY <1>1, <1>2, <1>3, FS_Union
  <1>5. /\ Cardinality(Parts(X, s \ {x})) \in Nat /\ Cardinality(X[x]) \in Nat
        /\ Cardinality({}) = 0
    BY <1>1, FS_CardinalityType, FS_EmptySet
  <1>6. QED  BY <1>1, <1>4, <1>5

LEMMA PartsFinite ==
  ASSUME NEW D, IsFiniteSet(D), NEW X, Apart(X, D)
  PROVE  \A s \in SUBSET D : IsFiniteSet(Parts(X, s))
  <1> DEFINE n == Cardinality(D)
             Good == {k \in 0 .. n : \A s \in SUBSET D :
                                        Cardinality(s) <= k => IsFiniteSet(Parts(X, s))}
  <1>1. n \in Nat
    BY FS_CardinalityType
  <1>2. \A s \in SUBSET D : IsFiniteSet(s) /\ Cardinality(s) \in Nat /\ Cardinality(s) <= n
    BY FS_Subset, FS_CardinalityType
  <1> HIDE DEF n
  <1>3. 0 \in Good
    <2>1. ASSUME NEW s \in SUBSET D, Cardinality(s) <= 0 PROVE IsFiniteSet(Parts(X, s))
      <3>1. s = {}
        BY <1>2, <2>1, FS_EmptySet
      <3>2. Parts(X, s) = {}
        BY <3>1 DEF Parts
      <3>3. QED  BY <3>2, FS_EmptySet
    <2>2. QED  BY <1>1, <2>1
  <1>4. ASSUME NEW k \in 0 .. n - 1, k \in Good PROVE k + 1 \in Good
    <2>1. ASSUME NEW s \in SUBSET D, Cardinality(s) <= k + 1, s # {}
          PROVE  IsFiniteSet(Parts(X, s))
      <3>1. PICK x \in s : TRUE
        BY <2>1
      <3>2. Cardinality(s \ {x}) = Cardinality(s) - 1 /\ s \ {x} \in SUBSET D
        BY <1>2, FS_RemoveElement
      <3>3. Cardinality(s \ {x}) <= k
        BY <1>1, <1>2, <2>1, <3>2
      <3>4. IsFiniteSet(Parts(X, s \ {x}))
        BY <1>4, <3>2, <3>3
      <3>5. QED  BY <3>4, PartsSplit
    <2>2. IsFiniteSet(Parts(X, {}))
      <3>1. Parts(X, {}) = {}
        BY DEF Parts
      <3>2. QED  BY <3>1, FS_EmptySet
    <2>3. k + 1 \in 0 .. n
      BY <1>1
    <2>4. QED  BY <2>1, <2>2, <2>3
  <1>5. n \in Good
    <2>1. \A k \in 0 .. n : k \in Good
      <3> HIDE DEF Good
      <3>1. QED  BY <1>1, <1>3, <1>4, Induct
    <2>2. QED  BY <1>1, <2>1
  <1>6. QED  BY <1>2, <1>5

\* A sum that takes the parts one by one, in the order of c.
Sums(iter, X, c, D) ==
    \A s \in SUBSET D :
        iter[s] = IF s = {} THEN 0 ELSE iter[s \ {c[s]}] + Cardinality(X[c[s]])

LEMMA SumExists ==
  ASSUME NEW D, IsFiniteSet(D), NEW X, Apart(X, D), NEW c, Chooses(c, D)
  PROVE  Sums([s \in SUBSET D |-> Cardinality(Parts(X, s))], X, c, D)
  <1> DEFINE g == [s \in SUBSET D |-> Cardinality(Parts(X, s))]
  <1>1. \A s \in SUBSET D : g[s] = Cardinality(Parts(X, s))
    OBVIOUS
  <1> HIDE DEF g
  <1>2. ASSUME NEW s \in SUBSET D
        PROVE  g[s] = IF s = {} THEN 0 ELSE g[s \ {c[s]}] + Cardinality(X[c[s]])
    <2>1. CASE s = {}
      <3>1. Parts(X, s) = {}
        BY <2>1 DEF Parts
      <3>2. QED  BY <1>1, <2>1, <3>1, FS_EmptySet
    <2>2. CASE s # {}
      <3>1. c[s] \in s /\ s \ {c[s]} \in SUBSET D
        BY <2>2 DEF Chooses
      <3>2. IsFiniteSet(Parts(X, s \ {c[s]}))
        BY <3>1, PartsFinite
      <3>3. Cardinality(Parts(X, s)) = Cardinality(Parts(X, s \ {c[s]})) + Cardinality(X[c[s]])
        BY <3>1, <3>2, PartsSplit
      <3>4. QED  BY <1>1, <2>2, <3>1, <3>3
    <2>3. QED  BY <2>1, <2>2
  <1>3. QED  BY <1>2 DEF Sums, g

LEMMA SumIsCounted ==
  ASSUME NEW D, IsFiniteSet(D), NEW X, Apart(X, D), NEW c, Chooses(c, D),
         NEW iter, Sums(iter, X, c, D)
  PROVE  iter[D] = Cardinality(Parts(X, D))
  <1> DEFINE n == Cardinality(D)
             Good == {k \in 0 .. n : \A s \in SUBSET D :
                         Cardinality(s) <= k => iter[s] = Cardinality(Parts(X, s))}
             g == [s \in SUBSET D |-> Cardinality(Parts(X, s))]
  <1>1. n \in Nat
    BY FS_CardinalityType
  <1>2. \A s \in SUBSET D : IsFiniteSet(s) /\ Cardinality(s) \in Nat /\ Cardinality(s) <= n
    BY FS_Subset, FS_CardinalityType
  <1>3. Sums(g, X, c, D) /\ \A s \in SUBSET D : g[s] = Cardinality(Parts(X, s))
    BY SumExists
  <1> HIDE DEF n, g
  <1>4. iter[{}] = Cardinality(Parts(X, {}))
    <2>1. iter[{}] = 0 /\ g[{}] = 0
      BY <1>3 DEF Sums
    <2>2. QED  BY <1>3, <2>1
  <1>5. 0 \in Good
    <2>1. \A s \in SUBSET D : Cardinality(s) <= 0 => s = {}
      BY <1>2, FS_EmptySet
    <2>2. QED  BY <1>1, <1>4, <2>1
  <1>6. ASSUME NEW k \in 0 .. n - 1, k \in Good PROVE k + 1 \in Good
    <2>1. ASSUME NEW s \in SUBSET D, Cardinality(s) <= k + 1, s # {}
          PROVE  iter[s] = Cardinality(Parts(X, s))
      <3>1. c[s] \in s /\ s \ {c[s]} \in SUBSET D
        BY <2>1 DEF Chooses
      <3>2. Cardinality(s \ {c[s]}) = Cardinality(s) - 1
        BY <1>2, <3>1, FS_RemoveElement
      <3>3. Cardinality(s \ {c[s]}) <= k
        BY <1>1, <1>2, <2>1, <3>2
      <3>4. iter[s \ {c[s]}] = g[s \ {c[s]}]
        BY <1>3, <1>6, <3>1, <3>3
      <3>5. iter[s] = iter[s \ {c[s]}] + Cardinality(X[c[s]])
        BY <2>1 DEF Sums
      <3>6. g[s] = g[s \ {c[s]}] + Cardinality(X[c[s]])
        BY <1>3, <2>1 DEF Sums
      <3>7. QED  BY <1>3, <3>4, <3>5, <3>6
    <2>2. k + 1 \in 0 .. n
      BY <1>1
    <2>3. QED  BY <1>4, <2>1, <2>2
  <1>7. n \in Good
    <2>1. \A k \in 0 .. n : k \in Good
      <3> HIDE DEF Good
      <3>1. QED  BY <1>1, <1>5, <1>6, Induct
    <2>2. QED  BY <1>1, <2>1
  <1>8. D \in SUBSET D /\ Cardinality(D) <= n
    BY <1>2
  <1>9. QED  BY <1>7, <1>8

\* An element of each set, as FoldSet chooses it.
AnyOf(D) == [s \in SUBSET D |-> CHOOSE x \in s : TRUE]

LEMMA AnyOfChooses ==
  ASSUME NEW D
  PROVE  Chooses(AnyOf(D), D) /\ \A s \in SUBSET D : AnyOf(D)[s] = CHOOSE x \in s : TRUE
  <1>1. \A s \in SUBSET D : AnyOf(D)[s] = CHOOSE x \in s : TRUE
    BY DEF AnyOf
  <1>2. ASSUME NEW s \in SUBSET D, s # {} PROVE (CHOOSE x \in s : TRUE) \in s
    BY <1>2
  <1>3. QED  BY <1>1, <1>2 DEF Chooses

-----------------------------------------------------------------------------
(* The allocation evidence.                                                *)

\* The moments from the i-th sample to the next, unless they are apart.
Slice(i) == IF snaps[i + 1].at - snaps[i].at <= MaxInterval
            THEN snaps[i].at .. snaps[i + 1].at - 1 ELSE {}

LEMMA SliceFacts ==
  ASSUME SnapshotsInv, NEW i \in 1 .. Len(snaps) - 1
  PROVE  /\ i \in 1 .. Len(snaps) /\ i + 1 \in 1 .. Len(snaps)
         /\ snaps[i].at \in Nat /\ snaps[i + 1].at \in Nat /\ snaps[i].at < snaps[i + 1].at
         /\ IsFiniteSet(Slice(i))
         /\ Cardinality(Slice(i)) =
               LET seconds == snaps[i + 1].at - snaps[i].at
               IN  IF seconds \in 1 .. MaxInterval THEN seconds ELSE 0
  <1>1. Len(snaps) \in Nat /\ \A j \in 1 .. Len(snaps) : snaps[j].at \in Nat
    BY SnapsOrdered, OrderedFacts
  <1>2. i \in 1 .. Len(snaps) /\ i + 1 \in 1 .. Len(snaps) /\ i < i + 1
    BY <1>1
  <1>3. snaps[i].at \in Nat /\ snaps[i + 1].at \in Nat /\ snaps[i].at < snaps[i + 1].at
    BY <1>1, <1>2 DEF SnapshotsInv, RowsInOrder
  <1>4. MaxInterval \in Nat
    BY EvidenceAssumption
  <1>5. CASE snaps[i + 1].at - snaps[i].at <= MaxInterval
    <2>1. snaps[i + 1].at - 1 \in Int /\ snaps[i].at \in Int
      BY <1>3
    <2>2. /\ IsFiniteSet(snaps[i].at .. snaps[i + 1].at - 1)
          /\ Cardinality(snaps[i].at .. snaps[i + 1].at - 1) =
                IF snaps[i].at > snaps[i + 1].at - 1 THEN 0
                ELSE (snaps[i + 1].at - 1) - snaps[i].at + 1
      BY <2>1, FS_Interval
    <2>3. (snaps[i + 1].at - 1) - snaps[i].at + 1 = snaps[i + 1].at - snaps[i].at
          /\ ~ (snaps[i].at > snaps[i + 1].at - 1)
          /\ snaps[i + 1].at - snaps[i].at \in 1 .. MaxInterval
      <3>1. ASSUME NEW x \in Nat, NEW y \in Nat, x < y, y - x <= MaxInterval
            PROVE  (y - 1) - x + 1 = y - x /\ ~ (x > y - 1) /\ y - x \in 1 .. MaxInterval
        <4>1. (y - 1) - x + 1 = y - x /\ ~ (x > y - 1)
          BY <3>1
        <4>2. y - x \in 1 .. MaxInterval
          BY <1>4, <3>1
        <4>3. QED  BY <4>1, <4>2
      <3>2. QED  BY <1>3, <1>5, <3>1
    <2>4. QED  BY <1>2, <1>3, <1>5, <2>2, <2>3 DEF Slice
  <1>6. CASE ~ (snaps[i + 1].at - snaps[i].at <= MaxInterval)
    <2>1. ~ (snaps[i + 1].at - snaps[i].at \in 1 .. MaxInterval)
      BY <1>3, <1>4, <1>6
    <2>2. Slice(i) = {}
      BY <1>6 DEF Slice
    <2>3. QED  BY <1>2, <1>3, <2>1, <2>2, FS_EmptySet
  <1>7. QED  BY <1>5, <1>6

LEMMA SlicesApart ==
  ASSUME SnapshotsInv, NEW i \in 1 .. Len(snaps) - 1, NEW j \in 1 .. Len(snaps) - 1,
         NEW t \in Slice(i), t \in Slice(j)
  PROVE  i = j
  <1>1. /\ t \in Int /\ snaps[i].at <= t /\ t < snaps[i + 1].at
        /\ snaps[j].at <= t /\ t < snaps[j + 1].at
    <2>1. /\ t \in snaps[i].at .. snaps[i + 1].at - 1
          /\ t \in snaps[j].at .. snaps[j + 1].at - 1
      BY DEF Slice
    <2>2. snaps[i].at \in Nat /\ snaps[i + 1].at \in Nat
          /\ snaps[j].at \in Nat /\ snaps[j + 1].at \in Nat
      BY SliceFacts
    <2>3. QED  BY <2>1, <2>2
  <1>2. /\ Len(snaps) \in Nat /\ \A k \in 1 .. Len(snaps) : snaps[k].at \in Nat
        /\ \A k, l \in 1 .. Len(snaps) : k <= l => snaps[k].at <= snaps[l].at
    BY SnapsOrdered, OrderedFacts
  <1>3. i \in 1 .. Len(snaps) /\ i + 1 \in 1 .. Len(snaps)
        /\ j \in 1 .. Len(snaps) /\ j + 1 \in 1 .. Len(snaps)
    BY SliceFacts
  <1>4. ~ (i + 1 <= j) /\ ~ (j + 1 <= i)
    BY <1>1, <1>2, <1>3
  <1>5. QED  BY <1>2, <1>4

\* The samples of the span that are added up, and their slices.
LEMMA SecondsFacts ==
  ASSUME SnapshotsInv
  PROVE  \E b \in 0 .. Len(snaps) :
            /\ Observations \in Ordered /\ Len(Observations) = Len(snaps) - b
            /\ \A i \in 1 .. Len(Observations) : Observations[i] = snaps[b + i]
            /\ \A i \in 1 .. Len(snaps) : b < i <=> clock - EvidenceSpan <= snaps[i].at
            /\ \A samples \in SUBSET (1 .. Len(Observations) - 1) :
                  SecondsOf(samples) = Cardinality(UNION {Slice(b + i) : i \in samples})
  <1>1. clock - EvidenceSpan \in Int
    BY SnapsOrdered, EvidenceAssumption
  <1>2. PICK b \in 0 .. Len(snaps) :
            /\ Observations \in Ordered /\ Len(Observations) = Len(snaps) - b
            /\ \A i \in 1 .. Len(snaps) - b : Observations[i] = snaps[b + i]
            /\ \A i \in 1 .. Len(snaps) : b < i <=> clock - EvidenceSpan <= snaps[i].at
    BY <1>1, RowsFromFacts DEF Observations
  <1> DEFINE N == Len(Observations)
  <1>3. Len(snaps) \in Nat /\ b \in Int /\ 0 <= b /\ b <= Len(snaps) /\ N \in Nat
        /\ N = Len(snaps) - b
    <2>1. Len(snaps) \in Nat
      BY SnapsOrdered, OrderedFacts
    <2>2. QED  BY <1>2, <2>1
  <1>4. ASSUME NEW samples \in SUBSET (1 .. N - 1)
        PROVE  SecondsOf(samples) = Cardinality(UNION {Slice(b + i) : i \in samples})
    <2> DEFINE X == [i \in samples |-> Slice(b + i)]
               IsIter(g) == g = [s \in SUBSET samples |->
                                   IF s = {} THEN 0
                                   ELSE g[s \ {CHOOSE x \in s : TRUE}]
                                        + Interval(Observations, CHOOSE x \in s : TRUE)]
    <2>1. ASSUME NEW i \in samples
          PROVE  /\ b + i \in 1 .. Len(snaps) - 1 /\ i \in Int
                 /\ i \in 1 .. N /\ i + 1 \in 1 .. N
      <3>1. i \in 1 .. N - 1
        OBVIOUS
      <3>2. i \in Int /\ 1 <= i /\ i <= N - 1
        BY <1>3, <3>1
      <3> HIDE DEF N
      <3>3. QED  BY <1>3, <3>2
    <2>2. IsFiniteSet(samples)
      <3>1. IsFiniteSet(1 .. N - 1)
        BY <1>3, FS_Interval
      <3>2. QED  BY <3>1, FS_Subset
    <2>3. ASSUME NEW i \in samples
          PROVE  X[i] = Slice(b + i) /\ IsFiniteSet(X[i])
                 /\ Interval(Observations, i) = Cardinality(X[i])
      <3>1. X[i] = Slice(b + i)
        OBVIOUS
      <3> HIDE DEF X, N
      <3>2. Observations[i] = snaps[b + i] /\ Observations[i + 1] = snaps[b + i + 1]
        <4>1. b + (i + 1) = b + i + 1
          BY <1>3, <2>1
        <4>2. i \in 1 .. Len(snaps) - b /\ i + 1 \in 1 .. Len(snaps) - b
          BY <1>3, <2>1
        <4>3. Observations[i] = snaps[b + i] /\ Observations[i + 1] = snaps[b + (i + 1)]
          BY <1>2, <4>2
        <4>4. QED  BY <4>1, <4>3
      <3>3. QED  BY <2>1, <3>1, <3>2, SliceFacts DEF Interval
    <2>4. Apart(X, samples)
      <3>1. ASSUME NEW i \in samples, NEW j \in samples, i # j PROVE X[i] \cap X[j] = {}
        <4>1. X[i] = Slice(b + i) /\ X[j] = Slice(b + j)
          BY <2>3
        <4>2. b + i \in 1 .. Len(snaps) - 1 /\ b + j \in 1 .. Len(snaps) - 1 /\ b + i # b + j
          BY <1>3, <2>1, <3>1
        <4> HIDE DEF X, N
        <4>3. QED  BY <4>1, <4>2, SlicesApart
      <3> HIDE DEF X
      <3>2. QED  BY <2>3, <3>1 DEF Apart
    <2> HIDE DEF X, N
    <2>5. \A g : IsIter(g) => Sums(g, X, AnyOf(samples), samples)
      <3>1. ASSUME NEW g, IsIter(g), NEW s \in SUBSET samples
            PROVE  g[s] = IF s = {} THEN 0
                          ELSE g[s \ {AnyOf(samples)[s]}] + Cardinality(X[AnyOf(samples)[s]])
        <4>1. g[s] = IF s = {} THEN 0 ELSE g[s \ {CHOOSE x \in s : TRUE}]
                                           + Interval(Observations, CHOOSE x \in s : TRUE)
          BY <3>1
        <4>2. AnyOf(samples)[s] = CHOOSE x \in s : TRUE
          BY AnyOfChooses
        <4>3. s # {} => AnyOf(samples)[s] \in samples
          BY AnyOfChooses DEF Chooses
        <4>4. s # {} => Interval(Observations, AnyOf(samples)[s])
                           = Cardinality(X[AnyOf(samples)[s]])
          BY <2>3, <4>3
        <4>5. QED  BY <4>1, <4>2, <4>4
      <3>2. QED  BY <3>1 DEF Sums
    <2>6. \E g : IsIter(g)
      <3> DEFINE g == [s \in SUBSET samples |-> Cardinality(Parts(X, s))]
      <3>1. Sums(g, X, AnyOf(samples), samples)
        BY <2>2, <2>4, AnyOfChooses, SumExists
      <3>2. g = [s \in SUBSET samples |-> g[s]]
        OBVIOUS
      <3> HIDE DEF g
      <3>3. ASSUME NEW s \in SUBSET samples
            PROVE  g[s] = IF s = {} THEN 0 ELSE g[s \ {CHOOSE x \in s : TRUE}]
                                           + Interval(Observations, CHOOSE x \in s : TRUE)
        <4>1. g[s] = IF s = {} THEN 0
                     ELSE g[s \ {AnyOf(samples)[s]}] + Cardinality(X[AnyOf(samples)[s]])
          BY <3>1 DEF Sums
        <4>2. AnyOf(samples)[s] = CHOOSE x \in s : TRUE
          BY AnyOfChooses
        <4>3. s # {} => AnyOf(samples)[s] \in samples
          BY AnyOfChooses DEF Chooses
        <4>4. s # {} => Interval(Observations, AnyOf(samples)[s])
                           = Cardinality(X[AnyOf(samples)[s]])
          BY <2>3, <4>3
        <4>5. QED  BY <4>1, <4>2, <4>4
      <3>4. IsIter(g)
        BY <3>2, <3>3
      <3>5. QED  BY <3>4
    <2> DEFINE iter == CHOOSE g : IsIter(g)
    <2>7. IsIter(iter)
      BY <2>6
    <2>8. SecondsOf(samples) = iter[samples]
      BY DEF SecondsOf, FoldSet, MapThenFoldSet
    <2> HIDE DEF iter, IsIter
    <2>9. iter[samples] = Cardinality(Parts(X, samples))
      BY <2>2, <2>4, <2>5, <2>7, AnyOfChooses, SumIsCounted
    <2>10. Parts(X, samples) = UNION {Slice(b + i) : i \in samples}
      BY <2>3 DEF Parts
    <2>11. QED  BY <2>8, <2>9, <2>10
  <1>5. QED  BY <1>2, <1>4

\* What the i-th sample says of a model in the span.
Tells(i, m, warm) ==
    /\ clock - EvidenceSpan <= snaps[i].at
    /\ IF snaps[i].fresh /\ \E n \in Models : snaps[i].warm = {n}
       THEN snaps[i].warm = {m}
       ELSE ~ warm /\ snaps[i].target = m

Telling(m, warm) == {i \in 1 .. Len(snaps) - 1 : Tells(i, m, warm)}

LEMMA TellingMoments ==
  ASSUME SnapshotsInv, NEW m, NEW warm \in BOOLEAN
  PROVE  {t \in Times : AllocatedAt(m, t, warm)} = UNION {Slice(i) : i \in Telling(m, warm)}
  <1>1. ASSUME NEW i \in 1 .. Len(snaps) - 1, NEW t
        PROVE  t \in Slice(i) <=> /\ t \in Times
                                  /\ snaps[i].at <= t /\ t < snaps[i + 1].at
                                  /\ snaps[i + 1].at - snaps[i].at <= MaxInterval
    <2>1. snaps[i].at \in Nat /\ snaps[i + 1].at \in Nat /\ i + 1 \in 1 .. Len(snaps)
      BY SliceFacts
    <2>2. snaps[i + 1].at <= MaxTime
      <3>1. snaps[i + 1].at <= clock /\ clock \in Nat /\ clock <= MaxTime
        BY <2>1, Limits DEF SnapshotsInv, RowsInOrder, Typed, Times
      <3>2. QED  BY <2>1, <3>1, Limits
    <2>3. t \in snaps[i].at .. snaps[i + 1].at - 1
             <=> t \in Times /\ snaps[i].at <= t /\ t < snaps[i + 1].at
      <3>1. ASSUME NEW x \in Nat, NEW y \in Nat, y <= MaxTime
            PROVE  t \in x .. y - 1 <=> t \in Times /\ x <= t /\ t < y
        <4>1. t \in x .. y - 1 => t \in Times /\ x <= t /\ t < y
          BY <3>1, Limits DEF Times
        <4>2. t \in Times /\ x <= t /\ t < y => t \in x .. y - 1
          BY <3>1, Limits DEF Times
        <4>3. QED  BY <4>1, <4>2
      <3>2. QED  BY <2>1, <2>2, <3>1
    <2>4. QED  BY <2>3 DEF Slice
  <1>2. ASSUME NEW t
        PROVE  t \in Times /\ AllocatedAt(m, t, warm)
                  <=> \E i \in Telling(m, warm) : t \in Slice(i)
    BY <1>1 DEF AllocatedAt, Telling, Tells
  <1>3. QED  BY <1>2

\* The seconds of a model are those of the samples that tell of it.
LEMMA SamplesTell ==
  ASSUME SnapshotsInv, NEW m \in Models
  PROVE  /\ AllocatedSeconds(m) = Cardinality({t \in Times : AllocatedAt(m, t, FALSE)})
         /\ WarmSeconds(m) = Cardinality({t \in Times : AllocatedAt(m, t, TRUE)})
  <1> DEFINE N == Len(Observations)
             rows == Observations
             warmOnes == {i \in Allocated(m) : rows[i].fresh /\ rows[i].warm = {m}}
  <1>1. PICK b \in 0 .. Len(snaps) :
            /\ Observations \in Ordered /\ N = Len(snaps) - b
            /\ \A i \in 1 .. N : Observations[i] = snaps[b + i]
            /\ \A i \in 1 .. Len(snaps) : b < i <=> clock - EvidenceSpan <= snaps[i].at
            /\ \A samples \in SUBSET (1 .. N - 1) :
                  SecondsOf(samples) = Cardinality(UNION {Slice(b + i) : i \in samples})
    BY SecondsFacts
  <1>2. Len(snaps) \in Nat /\ b \in Int /\ 0 <= b /\ b <= Len(snaps) /\ N \in Nat
    <2>1. Len(snaps) \in Nat
      BY SnapsOrdered, OrderedFacts
    <2>2. QED  BY <1>1, <2>1
  <1>3. ASSUME NEW i \in 1 .. N - 1
        PROVE  /\ i \in Int /\ b + i \in 1 .. Len(snaps) - 1 /\ b < b + i
               /\ b + i \in 1 .. Len(snaps)
               /\ rows[i] = snaps[b + i] /\ snaps[b + i] \in Snapshot
    <2>1. i \in Int /\ 1 <= i /\ i <= N - 1 /\ i \in 1 .. N
      BY <1>2
    <2>2. b + i \in 1 .. Len(snaps) - 1 /\ b < b + i /\ b + i \in 1 .. Len(snaps)
      <3> HIDE DEF N
      <3>1. QED  BY <1>1, <1>2, <2>1
    <2>3. snaps[b + i] \in Snapshot
      BY <2>2, SnapsOrdered, OrderedFacts
    <2>4. QED  BY <1>1, <2>1, <2>2, <2>3
  <1>4. ASSUME NEW row \in Snapshot
        PROVE  AllocatedModel(row) = m
                  <=> IF row.fresh /\ \E n \in Models : row.warm = {n}
                      THEN row.warm = {m} ELSE row.target = m
    <2>1. row.warm \in SUBSET Models /\ IsFiniteSet(row.warm)
      <3>1. row.warm \in SUBSET Models
        BY DEF Snapshot
      <3>2. QED  BY <3>1, FS_Subset, ReadingsAssumption
    <2>2. Cardinality(row.warm) = 1 <=> \E n \in Models : row.warm = {n}
      <3>1. Cardinality(row.warm) = 1 <=> \E n : row.warm = {n}
        BY <2>1, FS_Singleton
      <3>2. \A n : row.warm = {n} => n \in Models
        BY <2>1
      <3>3. QED  BY <3>1, <3>2
    <2>3. ASSUME NEW n \in Models, row.warm = {n} PROVE (CHOOSE x \in row.warm : TRUE) = n
      BY <2>3
    <2>4. QED  BY <2>2, <2>3 DEF AllocatedModel
  <1>5. ASSUME NEW i \in 1 .. N - 1
        PROVE  /\ i \in Allocated(m) <=> b + i \in Telling(m, FALSE)
               /\ i \in warmOnes <=> b + i \in Telling(m, TRUE)
    <2>1. clock - EvidenceSpan <= snaps[b + i].at
      BY <1>1, <1>3
    <2>2. i \in Allocated(m) <=> AllocatedModel(snaps[b + i]) = m
      BY <1>3 DEF Allocated
    <2>3. \A w \in BOOLEAN : b + i \in Telling(m, w) <=> Tells(b + i, m, w)
      BY <1>3 DEF Telling
    <2>4. i \in warmOnes <=> /\ AllocatedModel(snaps[b + i]) = m
                             /\ snaps[b + i].fresh /\ snaps[b + i].warm = {m}
      BY <1>3, <2>2
    <2>5. QED  BY <1>3, <1>4, <2>1, <2>2, <2>3, <2>4 DEF Tells
  <1>6. ASSUME NEW i, NEW w \in BOOLEAN, i \in Telling(m, w)
        PROVE  i - b \in 1 .. N - 1 /\ b + (i - b) = i
    <2>1. i \in 1 .. Len(snaps) - 1 /\ clock - EvidenceSpan <= snaps[i].at
      BY <1>6 DEF Telling, Tells
    <2>2. i \in 1 .. Len(snaps)
      BY <1>2, <2>1
    <2>3. b < i
      BY <1>1, <2>1, <2>2
    <2> HIDE DEF N
    <2>4. QED  BY <1>1, <1>2, <2>1, <2>3
  <1>7. Allocated(m) \in SUBSET (1 .. N - 1) /\ warmOnes \in SUBSET (1 .. N - 1)
    BY DEF Allocated
  <1> HIDE DEF N, warmOnes
  <1>8. /\ UNION {Slice(b + i) : i \in Allocated(m)} = UNION {Slice(i) : i \in Telling(m, FALSE)}
        /\ UNION {Slice(b + i) : i \in warmOnes} = UNION {Slice(i) : i \in Telling(m, TRUE)}
    <2>1. \A i \in Allocated(m) : b + i \in Telling(m, FALSE)
      BY <1>5, <1>7
    <2>2. \A i \in warmOnes : b + i \in Telling(m, TRUE)
      BY <1>5, <1>7
    <2>3. \A i \in Telling(m, FALSE) : i - b \in Allocated(m) /\ b + (i - b) = i
      BY <1>5, <1>6
    <2>4. \A i \in Telling(m, TRUE) : i - b \in warmOnes /\ b + (i - b) = i
      BY <1>5, <1>6
    <2>5. UNION {Slice(b + i) : i \in Allocated(m)} = UNION {Slice(i) : i \in Telling(m, FALSE)}
      BY <2>1, <2>3
    <2>6. UNION {Slice(b + i) : i \in warmOnes} = UNION {Slice(i) : i \in Telling(m, TRUE)}
      BY <2>2, <2>4
    <2>7. QED  BY <2>5, <2>6
  <1>9. AllocatedSeconds(m) = Cardinality({t \in Times : AllocatedAt(m, t, FALSE)})
    BY <1>1, <1>7, <1>8, TellingMoments DEF AllocatedSeconds
  <1>10. WarmSeconds(m) = Cardinality({t \in Times : AllocatedAt(m, t, TRUE)})
    BY <1>1, <1>7, <1>8, TellingMoments DEF WarmSeconds, warmOnes
  <1>11. QED  BY <1>9, <1>10

LEMMA InvEvidence == SnapshotsInv => EvidenceIsExact
  <1> SUFFICES ASSUME SnapshotsInv PROVE EvidenceIsExact
    OBVIOUS
  <1> DEFINE X == [m \in Models |-> {t \in Times : AllocatedAt(m, t, FALSE)}]
             c == AnyOf(Models)
             seconds == [m \in Models |-> AllocatedSeconds(m)]
             IsIter(g) == g = [s \in SUBSET Models |->
                                 IF s = {} THEN 0
                                 ELSE g[s \ {CHOOSE x \in s : TRUE}]
                                      + seconds[CHOOSE x \in s : TRUE]]
             total == FoldSet(LAMBDA m, total : total + seconds[m], 0, Models)
  <1>1. \A m \in Models : AllocatedSeconds(m) = Cardinality(X[m])
    BY SamplesTell
  <1>2. IsFiniteSet(Models)
    BY ReadingsAssumption
  <1>3. Chooses(c, Models) /\ \A s \in SUBSET Models : c[s] = CHOOSE x \in s : TRUE
    BY AnyOfChooses
  <1>4. ASSUME NEW m \in Models, NEW t
        PROVE  t \in X[m] <=> \E i \in Telling(m, FALSE) : t \in Slice(i)
    <2>1. X[m] = {u \in Times : AllocatedAt(m, u, FALSE)}
      OBVIOUS
    <2> HIDE DEF X
    <2>2. X[m] = UNION {Slice(i) : i \in Telling(m, FALSE)}
      BY <2>1, TellingMoments
    <2>3. QED  BY <2>2
  <1> DEFINE span == clock - EvidenceSpan .. clock - 1
  <1>5. ASSUME NEW m \in Models PROVE X[m] \in SUBSET span
    <2>1. ASSUME NEW i \in Telling(m, FALSE) PROVE Slice(i) \in SUBSET span
      <3>1. i \in 1 .. Len(snaps) - 1 /\ clock - EvidenceSpan <= snaps[i].at
        BY DEF Telling, Tells
      <3>2. snaps[i].at \in Nat /\ snaps[i + 1].at \in Nat /\ i + 1 \in 1 .. Len(snaps)
        BY <3>1, SliceFacts
      <3>3. snaps[i + 1].at <= clock /\ clock \in Nat
        BY <3>2, SnapsOrdered DEF SnapshotsInv, RowsInOrder
      <3>4. EvidenceSpan \in Nat
        BY EvidenceAssumption
      <3>5. QED  BY <3>1, <3>2, <3>3, <3>4 DEF Slice
    <2> HIDE DEF X, span
    <2>2. QED  BY <1>4, <2>1
  <1>6. /\ IsFiniteSet(span) /\ Cardinality(span) = EvidenceSpan
    <2>1. clock \in Nat /\ EvidenceSpan \in Nat
      BY SnapsOrdered, EvidenceAssumption
    <2>2. clock - EvidenceSpan \in Int /\ clock - 1 \in Int
      BY <2>1
    <2>3. IsFiniteSet(span) /\ Cardinality(span) = IF clock - EvidenceSpan > clock - 1 THEN 0
                                          ELSE (clock - 1) - (clock - EvidenceSpan) + 1
      BY <2>2, FS_Interval
    <2> HIDE DEF span
    <2>4. QED  BY <2>1, <2>3
  <1>7. Apart(X, Models)
    <2>1. \A m \in Models : IsFiniteSet(X[m])
      <3> HIDE DEF X, span
      <3>1. QED  BY <1>5, <1>6, FS_Subset
    <2>2. ASSUME NEW m \in Models, NEW n \in Models, NEW t \in X[m], t \in X[n]
          PROVE  m = n
      <3> HIDE DEF X
      <3>1. PICK i \in Telling(m, FALSE) : t \in Slice(i)
        BY <1>4
      <3>2. PICK j \in Telling(n, FALSE) : t \in Slice(j)
        BY <1>4, <2>2
      <3>3. i = j
        BY <3>1, <3>2, SlicesApart DEF Telling
      <3>4. Tells(i, m, FALSE) /\ Tells(i, n, FALSE)
        BY <3>3 DEF Telling
      <3>5. QED  BY <3>4 DEF Tells
    <2> HIDE DEF X
    <2>3. \A m, n \in Models : m # n => X[m] \cap X[n] = {}
      BY <2>2
    <2>4. QED  BY <2>1, <2>3 DEF Apart
  <1> HIDE DEF X, c, span
  <1>8. \A g : IsIter(g) <=> /\ g = [s \in SUBSET Models |-> g[s]]
                             /\ Sums(g, X, c, Models)
    <2>1. ASSUME NEW g, NEW s \in SUBSET Models
          PROVE  (IF s = {} THEN 0 ELSE g[s \ {CHOOSE x \in s : TRUE}]
                                        + seconds[CHOOSE x \in s : TRUE])
                   = IF s = {} THEN 0 ELSE g[s \ {c[s]}] + Cardinality(X[c[s]])
      <3>1. CASE s = {}
        BY <3>1
      <3>2. CASE s # {}
        <4>1. c[s] = (CHOOSE x \in s : TRUE) /\ c[s] \in Models
          BY <1>3, <3>2 DEF Chooses
        <4>2. QED  BY <1>1, <3>2, <4>1
      <3>3. QED  BY <3>1, <3>2
    <2>2. QED  BY <2>1 DEF Sums
  <1>9. \E g : IsIter(g)
    <2> DEFINE g == [s \in SUBSET Models |-> Cardinality(Parts(X, s))]
    <2>1. Sums(g, X, c, Models)
      BY <1>2, <1>3, <1>7, SumExists
    <2>2. g = [s \in SUBSET Models |-> g[s]]
      OBVIOUS
    <2> HIDE DEF g, IsIter
    <2>3. QED  BY <1>8, <2>1, <2>2
  <1> DEFINE iter == CHOOSE g : IsIter(g)
  <1>10. IsIter(iter)
    BY <1>9
  <1>11. total = iter[Models]
    BY DEF FoldSet, MapThenFoldSet
  <1> HIDE DEF iter, IsIter
  <1>12. total = Cardinality(Parts(X, Models))
    BY <1>2, <1>3, <1>7, <1>8, <1>10, <1>11, SumIsCounted
  <1>13. Cardinality(Parts(X, Models)) <= EvidenceSpan
    <2>1. Parts(X, Models) \in SUBSET span
      BY <1>5 DEF Parts
    <2>2. QED  BY <1>6, <2>1, FS_Subset
  <1> HIDE DEF total
  <1>14. total <= EvidenceSpan
    BY <1>12, <1>13
  <1>15. QED  BY <1>14, SamplesTell DEF EvidenceIsExact, total

(* The evidence counts every moment of the span once, for the model it was *)
(* allocated to, and no more than the span in all.                         *)
THEOREM EvidenceHolds == Spec => []EvidenceIsExact
  <1>1. QED  BY InvEvidence, InvHolds, PTL
=============================================================================
