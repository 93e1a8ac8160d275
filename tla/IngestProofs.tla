---------------------------- MODULE IngestProofs ----------------------------
(***************************************************************************)
(* Theorems about payout ingestion for every set of hosts, batch size and  *)
(* bound of the ledger.                                                    *)
(***************************************************************************)
EXTENDS Ingest, FiniteSetTheorems, WellFoundedInduction, TLAPS

(* What a host's ingestion holds between its steps.                        *)

\* The cursor is the highest stored row, and stays so until the insert.
CursorIsLast ==
    \A h \in Hosts : pc[h] # "idle" =>
        /\ since[h] \in stored[h] \cup {0}
        /\ \A r \in stored[h] : r <= since[h]

\* The fetched rows are the next ones behind the cursor, without a gap.
BatchFollows ==
    \A h \in Hosts : pc[h] = "fetched" =>
        /\ payouts[h].rows \subseteq ledger[h]
        /\ \A r \in payouts[h].rows :
              /\ since[h] < r
              /\ \A q \in ledger[h] : since[h] < q /\ q < r => q \in payouts[h].rows

IInv == TypeOK /\ StoredIsPrefix /\ CursorIsLast /\ BatchFollows

-----------------------------------------------------------------------------

LEMMA RowsAreNats == Rows \subseteq Nat /\ Rows \subseteq Int /\ 0 \notin Rows
  BY BatchAssumption DEF Rows

\* Rows picked in the ledger's order up to a rank have no gap before them.
LEMMA NextRowsFollow ==
  ASSUME NEW h \in Hosts, ledger[h] \in SUBSET Rows, NEW after \in 0 .. MaxRow
  PROVE  \A r \in NextRows(h, after) :
            /\ r \in ledger[h] /\ after < r
            /\ \A q \in ledger[h] : after < q /\ q < r => q \in NextRows(h, after)
  <1> DEFINE Upto(r) == {q \in Newer(h, after) : q <= r}
  <1>1. \A r \in Rows : IsFiniteSet(Upto(r)) /\ Cardinality(Upto(r)) \in Nat
    <2>1. IsFiniteSet(Rows)
      BY FS_Interval, BatchAssumption DEF Rows
    <2>2. \A r \in Rows : Upto(r) \in SUBSET Rows
      BY DEF Newer
    <2>3. QED
      BY <2>1, <2>2, FS_Subset, FS_CardinalityType
  <1>2. ASSUME NEW r \in NextRows(h, after), NEW S \in SUBSET Upto(r)
        PROVE  Cardinality(S) <= Batch
    <2>1. r \in Rows /\ Cardinality(Upto(r)) <= Batch
      BY DEF NextRows, Newer
    <2>2. IsFiniteSet(S) /\ Cardinality(S) <= Cardinality(Upto(r))
      BY <1>1, <2>1, FS_Subset
    <2>3. Cardinality(S) \in Nat
      BY <2>2, FS_CardinalityType
    <2>4. QED
      BY <1>1, <2>1, <2>2, <2>3, BatchAssumption
  <1>3. ASSUME NEW r \in NextRows(h, after)
        PROVE  r \in ledger[h] /\ after < r /\ r \in Rows
    BY BatchAssumption DEF NextRows, Newer, Rows
  <1>4. ASSUME NEW r \in NextRows(h, after), NEW q \in ledger[h], after < q, q < r
        PROVE  q \in NextRows(h, after)
    <2>1. q \in Newer(h, after) /\ q \in Rows
      BY <1>4, BatchAssumption DEF Newer, Rows
    <2>2. Upto(q) \in SUBSET Upto(r)
      <3>1. Newer(h, after) \subseteq Int /\ q \in Int /\ r \in Int
        BY <1>3, <2>1, RowsAreNats DEF Newer
      <3>2. \A x \in Newer(h, after) : x <= q => x <= r
        BY <1>4, <3>1
      <3>3. QED
        BY <3>2
    <2>3. Cardinality(Upto(q)) <= Batch
      BY <1>2, <2>2
    <2>4. QED
      BY <2>1, <2>3 DEF NextRows
  <1>5. QED
    BY <1>3, <1>4

-----------------------------------------------------------------------------

LEMMA InitInv == Init => IInv
  BY BatchAssumption DEF Init, IInv, TypeOK, StoredIsPrefix, CursorIsLast,
     BatchFollows, NoPayouts

LEMMA AppendInv == ASSUME NEW h \in Hosts, IInv, Append(h) PROVE IInv'
  <1> USE DEF IInv
  <1>1. PICK r \in Rows : /\ \A q \in ledger[h] : q < r
                          /\ ledger' = [ledger EXCEPT ![h] = @ \cup {r}]
                          /\ \/ hashed' = [hashed EXCEPT ![h] = @ \cup {r}]
                             \/ UNCHANGED hashed
                          /\ UNCHANGED <<stored, known, pc, since, payouts>>
    BY DEF Append
  <1>2. \A g \in Hosts : ledger'[g] = IF g = h THEN ledger[g] \cup {r} ELSE ledger[g]
    BY <1>1 DEF TypeOK
  <1>3. TypeOK'
    <2>1. ledger' \in [Hosts -> SUBSET Rows]
      BY <1>1 DEF TypeOK
    <2>2. hashed' \in [Hosts -> SUBSET Rows]
      BY <1>1 DEF TypeOK
    <2>3. QED
      BY <1>1, <2>1, <2>2 DEF TypeOK
  <1>4. \A x \in ledger[h] : ~(r < x) /\ x \in Int /\ r \in Int
    BY <1>1, RowsAreNats DEF TypeOK
  <1>5. StoredIsPrefix'
    BY <1>1, <1>2, <1>4 DEF StoredIsPrefix
  <1>6. BatchFollows'
    BY <1>1, <1>2, <1>4 DEF BatchFollows
  <1>7. CursorIsLast'
    BY <1>1 DEF CursorIsLast
  <1>8. QED
    BY <1>3, <1>5, <1>6, <1>7

LEMMA ReadCursorInv == ASSUME NEW h \in Hosts, IInv, ReadCursor(h) PROVE IInv'
  <1> USE DEF IInv
  <1>1. PICK m \in stored[h] \cup {0} :
           /\ \A r \in stored[h] : r <= m
           /\ since' = [since EXCEPT ![h] = m]
    BY DEF ReadCursor
  <1>2. /\ pc[h] = "idle" /\ pc' = [pc EXCEPT ![h] = "cursor"]
        /\ UNCHANGED <<ledger, hashed, stored, known, payouts>>
    BY DEF ReadCursor
  <1>3. m \in 0 .. MaxRow
    BY <1>1, BatchAssumption DEF TypeOK, Rows
  <1>4. TypeOK'
    BY <1>1, <1>2, <1>3 DEF TypeOK
  <1>5. \A g \in Hosts : /\ pc'[g] = IF g = h THEN "cursor" ELSE pc[g]
                         /\ since'[g] = IF g = h THEN m ELSE since[g]
    BY <1>1, <1>2 DEF TypeOK
  <1>6. CursorIsLast'
    BY <1>1, <1>2, <1>5 DEF CursorIsLast
  <1>7. BatchFollows'
    BY <1>2, <1>5 DEF BatchFollows
  <1>8. QED
    BY <1>2, <1>4, <1>6, <1>7 DEF StoredIsPrefix

LEMMA FetchInv == ASSUME NEW h \in Hosts, IInv, Fetch(h) PROVE IInv'
  <1> USE DEF IInv
  <1> DEFINE rows == NextRows(h, since[h])
             fetched == [rows |-> rows, hashed |-> rows \cap hashed[h]]
  <1>1. /\ pc[h] = "cursor" /\ pc' = [pc EXCEPT ![h] = "fetched"]
        /\ payouts' = [payouts EXCEPT ![h] = fetched]
        /\ UNCHANGED <<ledger, hashed, stored, known, since>>
    BY DEF Fetch
  <1>2. rows \subseteq Rows /\ fetched \in [rows : SUBSET Rows, hashed : SUBSET Rows]
    BY DEF TypeOK, NextRows, Newer
  <1>3. TypeOK'
    <2>1. payouts' \in [Hosts -> [rows : SUBSET Rows, hashed : SUBSET Rows]]
      BY <1>1, <1>2 DEF TypeOK
    <2>2. QED
      BY <1>1, <2>1 DEF TypeOK
  <1>4. \A g \in Hosts : /\ pc'[g] = IF g = h THEN "fetched" ELSE pc[g]
                         /\ payouts'[g].rows = IF g = h THEN rows ELSE payouts[g].rows
    BY <1>1 DEF TypeOK
  <1>5. \A r \in rows :
            /\ r \in ledger[h] /\ since[h] < r
            /\ \A q \in ledger[h] : since[h] < q /\ q < r => q \in rows
    BY NextRowsFollow DEF TypeOK
  <1> HIDE DEF rows
  <1>6. BatchFollows'
    <2> SUFFICES ASSUME NEW g \in Hosts, pc'[g] = "fetched"
                 PROVE  /\ payouts'[g].rows \subseteq ledger[g]
                        /\ \A r \in payouts'[g].rows :
                              /\ since[g] < r
                              /\ \A q \in ledger[g] : since[g] < q /\ q < r
                                    => q \in payouts'[g].rows
      BY <1>1 DEF BatchFollows
    <2>1. CASE g = h
      BY <1>4, <1>5, <2>1
    <2>2. CASE g # h
      BY <1>4, <2>2 DEF BatchFollows
    <2>3. QED
      BY <2>1, <2>2
  <1>7. CursorIsLast'
    BY <1>1, <1>4 DEF CursorIsLast
  <1>8. QED
    BY <1>1, <1>3, <1>6, <1>7 DEF StoredIsPrefix

\* Rows behind the cursor that are not stored lie behind it in the ledger.
LEMMA MissingIsBehind ==
  ASSUME IInv, NEW h \in Hosts, pc[h] = "fetched",
         NEW q \in ledger[h], q \notin stored[h]
  PROVE  since[h] < q
  <1>1. /\ since[h] \in stored[h] \cup {0} /\ since[h] \in Int /\ q \in Nat /\ q # 0
    BY RowsAreNats, BatchAssumption DEF IInv, TypeOK, CursorIsLast
  <1>2. CASE since[h] = 0
    BY <1>1, <1>2
  <1>3. CASE since[h] \in stored[h]
    BY <1>1, <1>3 DEF IInv, StoredIsPrefix
  <1>4. QED
    BY <1>1, <1>2, <1>3

LEMMA InsertInv == ASSUME NEW h \in Hosts, IInv, Insert(h) PROVE IInv'
  <1> USE DEF IInv
  <1>1. /\ pc[h] = "fetched"
        /\ stored' = [stored EXCEPT ![h] = @ \cup payouts[h].rows]
        /\ known' = [known EXCEPT ![h] = @ \cup (payouts[h].hashed \ stored[h])]
        /\ pc' = [pc EXCEPT ![h] = "idle"]
        /\ since' = [since EXCEPT ![h] = 0]
        /\ payouts' = [payouts EXCEPT ![h] = NoPayouts]
        /\ UNCHANGED <<ledger, hashed>>
    BY DEF Insert, EndIngest
  <1>2. TypeOK'
    <2>1. payouts[h].rows \subseteq Rows /\ payouts[h].hashed \subseteq Rows
      BY DEF TypeOK
    <2>2. stored' \in [Hosts -> SUBSET Rows] /\ known' \in [Hosts -> SUBSET Rows]
      BY <1>1, <2>1 DEF TypeOK
    <2>3. payouts' \in [Hosts -> [rows : SUBSET Rows, hashed : SUBSET Rows]]
      BY <1>1 DEF TypeOK, NoPayouts
    <2>4. since' \in [Hosts -> 0 .. MaxRow] /\ pc' \in [Hosts -> {"idle", "cursor", "fetched"}]
      BY <1>1, BatchAssumption DEF TypeOK
    <2>5. QED
      BY <1>1, <2>2, <2>3, <2>4 DEF TypeOK
  <1>3. \A g \in Hosts :
           /\ stored'[g] = IF g = h THEN stored[g] \cup payouts[g].rows ELSE stored[g]
           /\ pc'[g] = IF g = h THEN "idle" ELSE pc[g]
           /\ g # h => since'[g] = since[g] /\ payouts'[g] = payouts[g]
    BY <1>1 DEF TypeOK
  <1>4. StoredIsPrefix'
    <2> SUFFICES ASSUME NEW g \in Hosts
                 PROVE  /\ stored'[g] \subseteq ledger[g]
                        /\ \A r \in stored'[g], q \in ledger[g] :
                              q < r => q \in stored'[g]
      BY <1>1 DEF StoredIsPrefix
    <2>1. CASE g = h
      <3>1. \A q \in ledger[h] : q \notin stored[h] => since[h] < q
        BY <1>1, MissingIsBehind
      <3>2. QED
        BY <1>1, <1>3, <2>1, <3>1 DEF StoredIsPrefix, BatchFollows
    <2>2. CASE g # h
      BY <1>3, <2>2 DEF StoredIsPrefix
    <2>3. QED
      BY <2>1, <2>2
  <1>5. CursorIsLast'
    BY <1>3 DEF CursorIsLast
  <1>6. BatchFollows'
    <2>1. \A g \in Hosts : pc'[g] = "fetched" =>
             /\ g # h /\ pc[g] = "fetched"
             /\ since'[g] = since[g] /\ payouts'[g] = payouts[g]
      BY <1>3
    <2>2. ledger' = ledger
      BY <1>1
    <2>3. QED
      BY <2>1, <2>2 DEF BatchFollows
  <1>7. QED
    BY <1>2, <1>4, <1>5, <1>6

LEMMA AbandonInv == ASSUME NEW h \in Hosts, IInv, Abandon(h) PROVE IInv'
  <1> USE DEF IInv
  <1>1. /\ pc' = [pc EXCEPT ![h] = "idle"]
        /\ since' = [since EXCEPT ![h] = 0]
        /\ payouts' = [payouts EXCEPT ![h] = NoPayouts]
        /\ UNCHANGED <<ledger, hashed, stored, known>>
    BY DEF Abandon, EndIngest
  <1>2. TypeOK'
    BY <1>1, BatchAssumption DEF TypeOK, NoPayouts
  <1>3. \A g \in Hosts :
           /\ pc'[g] = IF g = h THEN "idle" ELSE pc[g]
           /\ g # h => since'[g] = since[g] /\ payouts'[g] = payouts[g]
    BY <1>1 DEF TypeOK
  <1>4. CursorIsLast' /\ BatchFollows'
    BY <1>1, <1>3 DEF CursorIsLast, BatchFollows
  <1>5. QED
    BY <1>1, <1>2, <1>4 DEF StoredIsPrefix

LEMMA NextInv == IInv /\ [Next]_vars => IInv'
  <1> SUFFICES ASSUME IInv, [Next]_vars PROVE IInv'
    OBVIOUS
  <1>1. CASE UNCHANGED vars
    BY <1>1 DEF vars, IInv, TypeOK, StoredIsPrefix, CursorIsLast, BatchFollows
  <1>2. CASE Next
    BY <1>2, AppendInv, ReadCursorInv, FetchInv, InsertInv, AbandonInv DEF Next
  <1>3. QED
    BY <1>1, <1>2

(* The inductive invariant holds in every reachable state of ingestion.    *)
THEOREM Invariance == Spec => []IInv
  BY InitInv, NextInv, PTL DEF Spec

(* Type correctness of ingestion.                                          *)
THEOREM TypeCorrect == Spec => []TypeOK
  <1>1. IInv => TypeOK
    BY DEF IInv
  <1>2. QED
    BY <1>1, Invariance, PTL

(* The earnings of a host are always a gap-free prefix of its Mac's        *)
(* ledger: no failure, restart or batch boundary loses a payout.           *)
THEOREM NoPayoutIsSkipped == Spec => []StoredIsPrefix
  <1>1. IInv => StoredIsPrefix
    BY DEF IInv
  <1>2. QED
    BY <1>1, Invariance, PTL

(* Every host's ingestion implements an ordered, bounded copy of its       *)
(* ledger.                                                                 *)
THEOREM Refinement == Spec => ImplementsCopy
  <1>1. Init => \A h \in Hosts : Copy(h)!Init
    BY DEF Init, Copy!Init
  <1>2. ASSUME IInv, [Next]_vars, NEW g \in Hosts
        PROVE  [Copy(g)!Next]_(Copy(g)!vars)
    <2>1. CASE UNCHANGED vars
      BY <2>1 DEF vars, Copy!vars
    <2>2. ASSUME NEW h \in Hosts, Append(h)
          PROVE  [Copy(g)!Next]_(Copy(g)!vars)
      <3>1. PICK r \in Rows : /\ \A q \in ledger[h] : q < r
                              /\ ledger' = [ledger EXCEPT ![h] = @ \cup {r}]
                              /\ stored' = stored
        BY <2>2 DEF Append
      <3>2. ledger'[g] = IF g = h THEN ledger[g] \cup {r} ELSE ledger[g]
        BY <1>2, <3>1 DEF IInv, TypeOK
      <3>3. CASE g = h
        BY <3>1, <3>2, <3>3 DEF Copy!Next, Copy!Grow, Rows
      <3>4. CASE g # h
        BY <3>1, <3>2, <3>4 DEF Copy!vars
      <3>5. QED
        BY <3>3, <3>4
    <2>3. ASSUME NEW h \in Hosts, Insert(h)
          PROVE  [Copy(g)!Next]_(Copy(g)!vars)
      <3>1. /\ stored' = [stored EXCEPT ![h] = @ \cup payouts[h].rows]
            /\ ledger' = ledger /\ pc[h] = "fetched"
        BY <2>3 DEF Insert, EndIngest
      <3>2. stored'[g] = IF g = h THEN stored[g] \cup payouts[g].rows ELSE stored[g]
        BY <1>2, <3>1 DEF IInv, TypeOK
      <3>3. CASE g = h
        <4> DEFINE rows == payouts[g].rows
        <4>1. \A q \in ledger[g] : q \notin stored[g] => since[g] < q
          BY <1>2, <3>1, <3>3, MissingIsBehind
        <4>2. /\ rows \subseteq ledger[g]
              /\ \A r \in rows :
                    /\ since[g] < r
                    /\ \A q \in ledger[g] : since[g] < q /\ q < r => q \in rows
          BY <1>2, <3>1, <3>3 DEF IInv, BatchFollows
        <4>3. \A r \in stored[g] : r <= since[g] /\ r \in Int /\ since[g] \in Int
          BY <1>2, <3>1, <3>3, RowsAreNats DEF IInv, CursorIsLast, TypeOK
        <4>4. rows \in SUBSET (ledger[g] \ stored[g])
          BY <4>2, <4>3
        <4>5. Copy(g)!FirstSegment(rows, ledger[g] \ stored[g])
          BY <4>1, <4>2 DEF Copy!FirstSegment
        <4>6. QED
          BY <3>1, <3>2, <3>3, <4>4, <4>5 DEF Copy!Next, Copy!Follow
      <3>4. CASE g # h
        BY <3>1, <3>2, <3>4 DEF Copy!vars
      <3>5. QED
        BY <3>3, <3>4
    <2>4. ASSUME NEW h \in Hosts, ReadCursor(h) \/ Fetch(h) \/ Abandon(h)
          PROVE  [Copy(g)!Next]_(Copy(g)!vars)
      BY <2>4 DEF ReadCursor, Fetch, Abandon, Copy!vars
    <2>5. QED
      BY <1>2, <2>1, <2>2, <2>3, <2>4 DEF Next
  <1>3. IInv /\ [Next]_vars => \A h \in Hosts : [Copy(h)!Next]_(Copy(h)!vars)
    BY <1>2
  <1>4. QED
    BY <1>1, <1>3, Invariance, PTL DEF Spec, ImplementsCopy

-----------------------------------------------------------------------------
(* What the dashboard makes of the copies.                                 *)

\* A hash that is known was stored with its row.
KnownIsStored == \A h \in Hosts : /\ known[h] \subseteq stored[h]
                                  /\ payouts[h].hashed \subseteq payouts[h].rows

LEMMA KnownIsStoredInv ==
  ASSUME TypeOK, KnownIsStored, [Next]_vars
  PROVE  /\ KnownIsStored'
         /\ \A h \in Hosts : known[h] \subseteq known'[h]
  <1> USE DEF TypeOK
  <1>1. CASE UNCHANGED vars
    BY <1>1 DEF vars, KnownIsStored
  <1>2. ASSUME NEW h \in Hosts, Append(h) \/ ReadCursor(h)
        PROVE  UNCHANGED <<stored, known, payouts>>
    BY <1>2 DEF Append, ReadCursor
  <1>3. ASSUME NEW h \in Hosts, Fetch(h)
        PROVE  /\ UNCHANGED <<stored, known>>
               /\ \A g \in Hosts : payouts'[g].hashed \subseteq payouts'[g].rows
    <2> DEFINE rows == NextRows(h, since[h])
               fetched == [rows |-> rows, hashed |-> rows \cap hashed[h]]
    <2>1. /\ payouts' = [payouts EXCEPT ![h] = fetched]
          /\ UNCHANGED <<stored, known>>
      BY <1>3 DEF Fetch
    <2>2. fetched.hashed \subseteq fetched.rows
      OBVIOUS
    <2> HIDE DEF fetched
    <2>3. \A g \in Hosts : payouts'[g] = IF g = h THEN fetched ELSE payouts[g]
      BY <2>1
    <2>4. QED
      BY <2>1, <2>2, <2>3 DEF KnownIsStored
  <1>4. ASSUME NEW h \in Hosts, Insert(h) \/ Abandon(h)
        PROVE  /\ \A g \in Hosts : known[g] \subseteq known'[g]
               /\ KnownIsStored'
    <2>1. payouts' = [payouts EXCEPT ![h] = NoPayouts]
      BY <1>4 DEF Insert, Abandon, EndIngest
    <2>2. \A g \in Hosts : payouts'[g].hashed \subseteq payouts'[g].rows
      BY <2>1 DEF KnownIsStored, NoPayouts
    <2>3. CASE Insert(h)
      <3>1. /\ stored' = [stored EXCEPT ![h] = @ \cup payouts[h].rows]
            /\ known' = [known EXCEPT ![h] = @ \cup (payouts[h].hashed \ stored[h])]
        BY <2>3 DEF Insert
      <3>2. \A g \in Hosts :
               /\ stored'[g] = IF g = h THEN stored[g] \cup payouts[g].rows ELSE stored[g]
               /\ known'[g] = IF g = h THEN known[g] \cup (payouts[g].hashed \ stored[g])
                                       ELSE known[g]
        BY <3>1
      <3>3. QED
        BY <2>2, <3>2 DEF KnownIsStored
    <2>4. CASE Abandon(h)
      BY <2>2, <2>4 DEF Abandon, KnownIsStored
    <2>5. QED
      BY <1>4, <2>3, <2>4
  <1>5. CASE Next
    <2>1. PICK h \in Hosts : \/ Append(h) \/ ReadCursor(h) \/ Fetch(h)
                             \/ Insert(h) \/ Abandon(h)
      BY <1>5 DEF Next
    <2>2. CASE Append(h) \/ ReadCursor(h)
      BY <1>2, <2>2 DEF KnownIsStored
    <2>3. CASE Fetch(h)
      BY <1>3, <2>3 DEF KnownIsStored
    <2>4. QED
      BY <1>4, <2>1, <2>2, <2>3
  <1>6. QED
    BY <1>1, <1>5

LEMMA KnownInvariance == Spec => []KnownIsStored
  <1>1. Init => KnownIsStored
    BY DEF Init, KnownIsStored, NoPayouts
  <1>2. IInv /\ KnownIsStored /\ [Next]_vars => KnownIsStored'
    BY KnownIsStoredInv DEF IInv
  <1>3. QED
    BY <1>1, <1>2, Invariance, PTL DEF Spec

\* Any set of numbers has a least one.
LEMMA LeastExists ==
  ASSUME NEW S \in SUBSET Nat, S # {}
  PROVE  \E i \in S : \A j \in S : i <= j
  <1> DEFINE less == OpToRel(<, Nat)
  <1>1. IsWellFoundedOn(less, Nat)
    BY NatLessThanWellFounded
  <1>2. \A i, j \in Nat : i < j => <<i, j>> \in less
    BY DEF OpToRel
  <1> HIDE DEF less
  <1>3. PICK i \in S : \A j \in S : ~ (<<j, i>> \in less)
    BY <1>1, WFMin
  <1>4. ASSUME NEW j \in S PROVE i <= j
    <2>1. i \in Nat /\ j \in Nat
      OBVIOUS
    <2>2. ~ (j < i)
      BY <1>2, <1>3, <2>1
    <2>3. QED
      BY <2>1, <2>2
  <1>5. QED
    BY <1>4

\* Any set of row ids has a greatest one.
LEMMA GreatestExists ==
  ASSUME NEW S \in SUBSET Rows, S # {}
  PROVE  \E i \in S : \A j \in S : j <= i
  <1> DEFINE T == {MaxRow - i : i \in S}
  <1>1. T \in SUBSET Nat /\ T # {}
    <2>1. \A i \in Rows : MaxRow - i \in Nat
      BY BatchAssumption DEF Rows
    <2>2. QED
      BY <2>1
  <1>2. PICK k \in T : \A j \in T : k <= j
    <2> HIDE DEF T
    <2>1. QED
      BY <1>1, LeastExists
  <1>3. PICK i \in S : k = MaxRow - i
    OBVIOUS
  <1>4. ASSUME NEW j \in S PROVE j <= i
    <2>1. MaxRow - i <= MaxRow - j
      BY <1>2, <1>3
    <2>2. QED
      BY <2>1, BatchAssumption DEF Rows
  <1>5. QED
    BY <1>4

\* A row is attributable as soon as one of its copies has the hash.
LEMMA OneHashSuffices ==
  KnownIsStored =>
      \A r \in Rows : (\E g \in Hosts : r \in known[g]) => Attributable(r)
  <1> SUFFICES ASSUME KnownIsStored, NEW r \in Rows, NEW g \in Hosts, r \in known[g]
               PROVE  Attributable(r)
    OBVIOUS
  <1> DEFINE S == {h \in Hosts : r \in known[h]}
  <1>1. S \in SUBSET Nat /\ S # {}
    BY HostsAssumption
  <1>2. PICK h \in S : \A f \in S : h <= f
    <2> HIDE DEF S
    <2>1. QED
      BY <1>1, LeastExists
  <1>3. h \in Holders(r) /\ r \in known[h]
    BY DEF Holders, KnownIsStored
  <1>4. ASSUME NEW f \in Holders(r) PROVE Before(h, f, r)
    BY <1>2, <1>3 DEF Before, Holders
  <1>5. QED
    BY <1>3, <1>4 DEF Attributable, UniqueCopy

(* A payout that could be attributed stays so: no copy that comes later,   *)
(* whichever host has it, hides the hash of another (unique_payouts_sql).  *)
THEOREM AttributionStays == Spec => AttributionIsKept
  <1>1. (KnownIsStored =>
            \A r \in Rows : (\E g \in Hosts : r \in known[g]) => Attributable(r))'
    BY OneHashSuffices, PTL
  <1>2. ASSUME TypeOK, KnownIsStored, [Next]_vars, NEW r \in Rows, Attributable(r)
        PROVE  Attributable(r)'
    <2>1. PICK g \in Hosts : r \in known[g]
      BY <1>2 DEF Attributable, UniqueCopy, Holders
    <2>2. KnownIsStored' /\ r \in known'[g]
      BY <1>2, <2>1, KnownIsStoredInv
    <2>3. QED
      BY <1>1, <2>2
  <1>3. IInv /\ KnownIsStored /\ [Next]_vars =>
            [\A r \in Rows : Attributable(r) => Attributable(r)']_vars
    BY <1>2 DEF IInv
  <1>4. QED
    BY <1>3, Invariance, KnownInvariance, PTL DEF Spec, AttributionIsKept

-----------------------------------------------------------------------------
(* The bounded choice of the latest rows.                                  *)

From(S, r) == {q \in S : q >= r}

\* What is counted is finite.
LEMMA FromIsFinite ==
  ASSUME NEW S \in SUBSET Rows, NEW r
  PROVE  IsFiniteSet(From(S, r)) /\ Cardinality(From(S, r)) \in Nat
  <1>1. IsFiniteSet(Rows)
    BY FS_Interval, BatchAssumption DEF Rows
  <1>2. From(S, r) \in SUBSET Rows
    BY DEF From
  <1>3. QED
    BY <1>1, <1>2, FS_Subset, FS_CardinalityType

\* Fewer rows, fewer that are later.
LEMMA LatestOfLess ==
  ASSUME NEW S \in SUBSET Rows, NEW T \in SUBSET S, NEW limit \in Nat,
         NEW r \in T, r \in Latest(S, limit)
  PROVE  r \in Latest(T, limit)
  <1>1. Cardinality(From(S, r)) <= limit
    BY DEF Latest, From
  <1>2. From(T, r) \in SUBSET From(S, r) /\ T \in SUBSET Rows
    BY DEF From
  <1>3. /\ Cardinality(From(T, r)) <= Cardinality(From(S, r))
        /\ Cardinality(From(T, r)) \in Nat /\ Cardinality(From(S, r)) \in Nat
    BY <1>2, FromIsFinite, FS_Subset
  <1>4. Cardinality(From(T, r)) <= limit
    BY <1>1, <1>3
  <1>5. QED
    BY <1>4 DEF Latest, From

\* A row that is left out is behind as many latest rows as the limit says.
LEMMA LatestIsFull ==
  ASSUME NEW S \in SUBSET Rows, NEW limit \in Nat, NEW q \in S,
         q \notin Latest(S, limit)
  PROVE  \E T \in SUBSET Latest(S, limit) :
             /\ \A x \in T : q < x
             /\ IsFiniteSet(T) /\ Cardinality(T) >= limit
  <1> DEFINE Out == {x \in S : x \notin Latest(S, limit)}
  <1>1. Out \in SUBSET Rows /\ q \in Out
    OBVIOUS
  <1>2. PICK z \in Out : \A x \in Out : x <= z
    <2> HIDE DEF Out
    <2>1. QED
      BY <1>1, GreatestExists
  <1> DEFINE T == From(S, z) \ {z}
  <1>3. z \in S /\ z \in Int /\ q \in Int /\ q <= z /\ S \subseteq Int
    BY <1>1, <1>2, RowsAreNats
  <1>4. ASSUME NEW x \in T PROVE z < x /\ x \in Latest(S, limit) /\ q < x
    <2>1. x \in S /\ x >= z /\ x # z /\ x \in Int
      BY <1>3 DEF From
    <2>2. z < x /\ q < x
      BY <1>3, <2>1
    <2>3. ~ (x <= z)
      BY <1>3, <2>1, <2>2
    <2>4. QED
      BY <1>2, <2>1, <2>2, <2>3
  <1>5. ~ (Cardinality(From(S, z)) <= limit)
    BY <1>2 DEF Latest, From
  <1>6. IsFiniteSet(From(S, z)) /\ Cardinality(From(S, z)) \in Nat
    BY FromIsFinite
  <1>7. z \in From(S, z)
    BY <1>3 DEF From
  <1>8. IsFiniteSet(T) /\ Cardinality(T) = Cardinality(From(S, z)) - 1
    BY <1>6, <1>7, FS_RemoveElement
  <1>9. Cardinality(T) >= limit
    BY <1>5, <1>6, <1>8
  <1> HIDE DEF T
  <1>10. QED
    BY <1>4, <1>8, <1>9

AllStored == UNION {stored[h] : h \in Hosts}
AllRecent(limit) == UNION {Recent(h, limit) : h \in Hosts}

LEMMA UnionsAreRows ==
  ASSUME TypeOK, NEW limit
  PROVE  /\ AllStored \in SUBSET Rows
         /\ AllRecent(limit) \in SUBSET AllStored
  <1>1. \A h \in Hosts : stored[h] \subseteq Rows
    BY DEF TypeOK
  <1>2. AllStored \subseteq Rows
    BY <1>1 DEF AllStored
  <1>3. \A h \in Hosts : Recent(h, limit) \subseteq stored[h]
    BY DEF Recent, Latest
  <1>4. \A h \in Hosts : Recent(h, limit) \subseteq AllStored
    BY <1>3 DEF AllStored
  <1>5. AllRecent(limit) \subseteq AllStored
    BY <1>4 DEF AllRecent
  <1>6. QED
    BY <1>2, <1>5

\* What is among the latest rows is, with all that is later, among the latest of
\* every host that has it.
LEMMA LaterIsRecent ==
  ASSUME TypeOK, NEW limit \in Nat \ {0}, NEW r \in RecentRows(limit)
  PROVE  From(AllStored, r) \subseteq From(AllRecent(limit), r)
  <1>1. r \in AllRecent(limit) /\ Cardinality(From(AllRecent(limit), r)) <= limit
    BY DEF RecentRows, Latest, From, AllRecent
  <1>2. AllStored \subseteq Rows /\ AllRecent(limit) \subseteq Rows
    BY UnionsAreRows
  <1>3. SUFFICES ASSUME NEW q \in AllStored, q >= r, q \notin AllRecent(limit)
                 PROVE  FALSE
    BY DEF From
  <1>4. PICK g \in Hosts : q \in stored[g]
    BY DEF AllStored
  <1>5. stored[g] \in SUBSET Rows /\ q \notin Latest(stored[g], limit)
    BY <1>3, <1>4 DEF AllRecent, Recent, TypeOK
  <1>6. PICK T \in SUBSET Latest(stored[g], limit) :
           /\ \A x \in T : q < x
           /\ IsFiniteSet(T) /\ Cardinality(T) >= limit
    BY <1>4, <1>5, LatestIsFull
  <1>7. T \subseteq AllRecent(limit)
    BY <1>6 DEF AllRecent, Recent
  <1>8. q \in Int /\ r \in Int /\ \A x \in T : x \in Int
    BY <1>1, <1>2, <1>7, RowsAreNats
  <1>9. \A x \in T : x >= r /\ x # r
    BY <1>3, <1>6, <1>8
  <1>10. T \cup {r} \in SUBSET From(AllRecent(limit), r)
    BY <1>1, <1>7, <1>8, <1>9 DEF From
  <1>11. r \notin T /\ Cardinality(T) \in Nat
    BY <1>6, <1>9, FS_CardinalityType
  <1>12. Cardinality(T \cup {r}) = Cardinality(T) + 1
    BY <1>6, <1>11, FS_AddElement
  <1>13. /\ Cardinality(T \cup {r}) <= Cardinality(From(AllRecent(limit), r))
         /\ Cardinality(From(AllRecent(limit), r)) \in Nat
    BY <1>2, <1>10, FromIsFinite, FS_Subset
  <1>14. QED
    BY <1>1, <1>6, <1>11, <1>12, <1>13

\* A row among the latest of the account is so on every host that has it.
LEMMA LatestIsRecent ==
  ASSUME TypeOK, NEW limit \in Nat \ {0}, NEW r \in Latest(AllStored, limit),
         NEW h \in Hosts, r \in stored[h]
  PROVE  r \in Recent(h, limit)
  <1>1. AllStored \in SUBSET Rows /\ stored[h] \in SUBSET AllStored
    BY DEF TypeOK, AllStored
  <1>2. QED
    BY <1>1, LatestOfLess DEF Recent

LEMMA RecentHolds == TypeOK => RecentIsExact
  <1> SUFFICES ASSUME TypeOK, NEW limit \in 1 .. MaxRow
               PROVE  /\ RecentRows(limit) = Latest(AllStored, limit)
                      /\ \A r \in Latest(AllStored, limit) :
                            RecentCopy(r, limit) = UniqueCopy(r)
    BY DEF RecentIsExact, AllStored
  <1>1. limit \in Nat \ {0}
    BY BatchAssumption
  <1>2. /\ AllStored \in SUBSET Rows
        /\ AllRecent(limit) \in SUBSET AllStored
    BY UnionsAreRows
  <1>3. ASSUME NEW r \in Latest(AllStored, limit)
        PROVE  r \in RecentRows(limit)
    <2>1. PICK h \in Hosts : r \in stored[h]
      BY DEF AllStored, Latest
    <2>2. r \in AllRecent(limit)
      BY <1>1, <2>1, LatestIsRecent DEF AllRecent
    <2>3. r \in Latest(AllRecent(limit), limit)
      BY <1>1, <1>2, <2>2, LatestOfLess
    <2>4. QED
      BY <2>3 DEF RecentRows, AllRecent
  <1>4. ASSUME NEW r \in RecentRows(limit)
        PROVE  r \in Latest(AllStored, limit)
    <2>1. From(AllStored, r) = From(AllRecent(limit), r)
      BY <1>1, <1>2, LaterIsRecent DEF From
    <2>2. r \in AllStored /\ Cardinality(From(AllRecent(limit), r)) <= limit
      BY <1>2 DEF RecentRows, Latest, From, AllRecent
    <2>3. QED
      BY <2>1, <2>2 DEF Latest, From
  <1>5. ASSUME NEW r \in Latest(AllStored, limit)
        PROVE  RecentCopy(r, limit) = UniqueCopy(r)
    <2>1. \A h \in Hosts : r \in Recent(h, limit) <=> r \in stored[h]
      BY <1>1, LatestIsRecent DEF Recent, Latest
    <2>2. QED
      BY <2>1 DEF RecentCopy, UniqueCopy, Holders
  <1>6. QED
    BY <1>3, <1>4, <1>5

(* Counting only the latest rows of each host counts the latest rows of    *)
(* the account, by the same copies (unattributed_recent), for any number   *)
(* of hosts, however far they are behind one another.                      *)
THEOREM RecentRowsAreExact == Spec => []RecentIsExact
  BY TypeCorrect, RecentHolds, PTL
=============================================================================
