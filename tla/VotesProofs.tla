---------------------------- MODULE VotesProofs -----------------------------
(***************************************************************************)
(* Theorems about the counter votes, for any Macs, any number of sessions  *)
(* and payouts, and reads of any length.                                   *)
(***************************************************************************)
EXTENDS Votes, WellFoundedInduction, FiniteSetTheorems, TLAPS

(* What the votes are cast on.                                             *)

Counters == [started : Nat, served : Nat]
Rows == [at : Nat, started : Nat, served : Nat]
PaidRequests == [hash : [host : Hosts, started : Nat], nth : Nat, at : Nat]

Types == /\ clock \in Nat
         /\ session \in [Hosts -> Counters]
         /\ reading \in [Hosts -> Nat \cup {NoTime}]
         /\ snaps \in [Hosts -> Seq(Rows)]
         /\ payouts \subseteq PaidRequests
         /\ IsFiniteSet(payouts)

\* A read that is under way will be the latest snapshot of its Mac.
ReadsAreNext == \A h \in Hosts : reading[h] # NoTime =>
                    \A i \in 1 .. Len(snaps[h]) : snaps[h][i].at < reading[h]

IInv == Types /\ ReadsAreNext

-----------------------------------------------------------------------------
(* The ends of a set of indices.                                           *)

LeastOf(S) == CHOOSE i \in S : \A j \in S : i <= j
GreatestOf(S) == CHOOSE i \in S : \A j \in S : j <= i

LEMMA LeastFacts ==
  ASSUME NEW S \in SUBSET Nat, S # {}
  PROVE  /\ LeastOf(S) \in S
         /\ \A j \in S : LeastOf(S) <= j
  <1> DEFINE less == OpToRel(<, Nat)
  <1>1. IsWellFoundedOn(less, Nat)
    BY NatLessThanWellFounded
  <1>2. \A i, j \in Nat : i < j => <<i, j>> \in less
    BY DEF OpToRel
  <1> HIDE DEF less
  <1>3. PICK i \in S : \A j \in S : ~ (<<j, i>> \in less)
    BY <1>1, WFMin
  <1>4. ASSUME NEW j \in S PROVE i <= j
    <2>1. i \in Nat /\ j \in Nat  OBVIOUS
    <2>2. ~ (j < i)  BY <1>2, <1>3, <2>1
    <2>3. QED  BY <2>1, <2>2
  <1>5. QED  BY <1>4 DEF LeastOf

LEMMA GreatestFacts ==
  ASSUME NEW n \in Nat, NEW S \in SUBSET (1 .. n), S # {}
  PROVE  GreatestOf(S) \in S
  <1> DEFINE T == {n - i : i \in S}
  <1>1. T \in SUBSET Nat
    <2>1. \A i \in 1 .. n : n - i \in Nat  OBVIOUS
    <2>2. QED  BY <2>1
  <1>2. T # {}
    OBVIOUS
  <1> HIDE DEF T
  <1>3. LeastOf(T) \in T /\ \A k \in T : LeastOf(T) <= k
    BY <1>1, <1>2, LeastFacts
  <1>4. PICK i \in S : LeastOf(T) = n - i
    BY <1>3 DEF T
  <1>5. ASSUME NEW j \in S PROVE j <= i
    <2>1. n - i <= n - j  BY <1>3, <1>4 DEF T
    <2>2. QED  BY <2>1
  <1>6. QED  BY <1>5 DEF GreatestOf

\* A later index does not change the first one.
LEMMA LeastStays ==
  ASSUME NEW S \in SUBSET Nat, S # {}, NEW n \in Nat, \A i \in S : i <= n
  PROVE  LeastOf(S \cup {n + 1}) = LeastOf(S)
  <1> DEFINE T == S \cup {n + 1}
             i == LeastOf(S)
             k == LeastOf(T)
  <1>1. i \in S /\ \A j \in S : i <= j
    BY LeastFacts
  <1>2. T \in SUBSET Nat /\ T # {}
    OBVIOUS
  <1>3. k \in T /\ \A j \in T : k <= j
    BY <1>2, LeastFacts
  <1>4. i \in T /\ i \in Nat /\ k \in Nat
    BY <1>1, <1>2, <1>3
  <1> HIDE DEF i, k
  <1>5. k <= i /\ i <= n
    BY <1>1, <1>3, <1>4
  <1>6. k # n + 1
    BY <1>4, <1>5
  <1>7. i <= k
    BY <1>1, <1>3, <1>6
  <1>8. i = k
    BY <1>4, <1>5, <1>7
  <1>9. QED  BY <1>8 DEF i, k

-----------------------------------------------------------------------------

LEMMA InitHolds == Init => IInv
  <1> SUFFICES ASSUME Init PROVE IInv  OBVIOUS
  <1>1. \A h \in Hosts : snaps[h] = <<>> /\ reading[h] = NoTime
    BY DEF Init
  <1>2. Types
    BY FS_EmptySet DEF Init, Types, Counters
  <1>3. ReadsAreNext
    BY <1>1 DEF ReadsAreNext
  <1>4. QED  BY <1>2, <1>3 DEF IInv

\* A payout is of a session that is running.
LEMMA ServeHolds ==
  ASSUME IInv, NEW h \in Hosts, Serve(h)
  PROVE  IInv'
  <1>1. /\ session[h].started \in Nat /\ session[h].served \in Nat /\ clock \in Nat
        /\ session[h] \in Counters
    BY DEF IInv, Types, Counters
  <1>2. session[h].served + 1 \in Nat
    BY <1>1
  <1> DEFINE new == [hash |-> [host |-> h, started |-> session[h].started],
                     nth |-> session[h].served + 1, at |-> clock]
  <1>3. new \in PaidRequests
    BY <1>1, <1>2 DEF PaidRequests
  <1>4. payouts' = payouts \cup {new}
    BY DEF Serve
  <1> HIDE DEF new
  <1>5. payouts' \subseteq PaidRequests /\ IsFiniteSet(payouts')
    BY <1>3, <1>4, FS_AddElement DEF IInv, Types
  <1>6. [session[h] EXCEPT !.served = session[h].served + 1] \in Counters
    BY <1>1, <1>2 DEF Counters
  <1>7. session' \in [Hosts -> Counters]
    BY <1>6 DEF Serve, IInv, Types
  <1>8. UNCHANGED <<clock, reading, snaps>>
    BY DEF Serve
  <1>9. QED  BY <1>5, <1>7, <1>8 DEF IInv, Types, ReadsAreNext

LEMMA RestartHolds ==
  ASSUME IInv, NEW h \in Hosts, RestartDaemon(h)
  PROVE  IInv'
  <1>1. [started |-> session[h].started + 1, served |-> 0] \in Counters
    BY DEF IInv, Types, Counters
  <1>2. session' \in [Hosts -> Counters]
    BY <1>1 DEF RestartDaemon, IInv, Types
  <1>3. QED  BY <1>2 DEF RestartDaemon, IInv, Types, ReadsAreNext

LEMMA StartReadHolds ==
  ASSUME IInv, NEW h \in Hosts, StartRead(h)
  PROVE  IInv'
  <1>1. reading' \in [Hosts -> Nat \cup {NoTime}]
    BY DEF StartRead, IInv, Types
  <1>2. reading'[h] = clock /\ \A g \in Hosts \ {h} : reading'[g] = reading[g]
    BY DEF StartRead, IInv, Types
  <1>3. QED  BY <1>1, <1>2 DEF StartRead, IInv, Types, ReadsAreNext

LEMMA ReadFailsHolds ==
  ASSUME IInv, NEW h \in Hosts, ReadFails(h)
  PROVE  IInv'
  <1>1. reading' \in [Hosts -> Nat \cup {NoTime}]
    BY DEF ReadFails, IInv, Types
  <1>2. reading'[h] = NoTime /\ \A g \in Hosts \ {h} : reading'[g] = reading[g]
    BY DEF ReadFails, IInv, Types
  <1>3. QED  BY <1>1, <1>2 DEF ReadFails, IInv, Types, ReadsAreNext

LEMMA RowFacts ==
  ASSUME Types, NEW h \in Hosts
  PROVE  /\ Len(snaps[h]) \in Nat
         /\ \A i \in 1 .. Len(snaps[h]) : /\ snaps[h][i].at \in Nat
                                          /\ snaps[h][i].served \in Nat
  <1>1. snaps[h] \in Seq(Rows)
    BY DEF Types
  <1>2. \A i \in 1 .. Len(snaps[h]) : snaps[h][i] \in Rows
    BY <1>1
  <1>3. QED  BY <1>1, <1>2 DEF Rows

\* What a read does to the snapshots.
LEMMA ReadFacts ==
  ASSUME IInv, NEW h \in Hosts, Read(h)
  PROVE  /\ snaps' \in [Hosts -> Seq(Rows)]
         /\ \A g \in Hosts \ {h} : snaps'[g] = snaps[g]
         /\ Len(snaps[h]) \in Nat
         /\ Len(snaps'[h]) = Len(snaps[h]) + 1
         /\ \A i \in 1 .. Len(snaps[h]) : snaps'[h][i] = snaps[h][i]
         /\ snaps'[h][Len(snaps[h]) + 1].at = reading[h]
         /\ reading[h] \in Nat /\ reading[h] # NoTime
         /\ \A i \in 1 .. Len(snaps[h]) : snaps[h][i].at \in Nat
  <1> DEFINE row == [at |-> reading[h], started |-> session[h].started,
                     served |-> session[h].served]
  <1>1. reading[h] \in Nat /\ reading[h] # NoTime
    BY DEF Read, IInv, Types
  <1>2. row \in Rows /\ row.at = reading[h]
    BY <1>1 DEF IInv, Types, Counters, Rows
  <1>3. snaps' = [snaps EXCEPT ![h] = Append(snaps[h], row)]
    BY DEF Read
  <1> HIDE DEF row
  <1>4. snaps[h] \in Seq(Rows)
    BY DEF IInv, Types
  <1>5. Append(snaps[h], row) \in Seq(Rows)
    BY <1>2, <1>4
  <1>6. snaps'[h] = Append(snaps[h], row) /\ \A g \in Hosts \ {h} : snaps'[g] = snaps[g]
    BY <1>3 DEF IInv, Types
  <1>7. snaps' \in [Hosts -> Seq(Rows)]
    BY <1>3, <1>5 DEF IInv, Types
  <1>8. \A i \in 1 .. Len(snaps[h]) : snaps[h][i].at \in Nat
    BY RowFacts DEF IInv
  <1>9. QED  BY <1>1, <1>2, <1>4, <1>6, <1>7, <1>8

LEMMA ReadHolds ==
  ASSUME IInv, NEW h \in Hosts, Read(h)
  PROVE  IInv'
  <1>1. reading'[h] = NoTime /\ \A g \in Hosts \ {h} : reading'[g] = reading[g]
    BY DEF Read, IInv, Types
  <1>2. reading' \in [Hosts -> Nat \cup {NoTime}]
    BY DEF Read, IInv, Types
  <1>3. Types'
    BY <1>2, ReadFacts DEF Read, IInv, Types
  <1>4. ReadsAreNext'
    BY <1>1, ReadFacts DEF IInv, ReadsAreNext
  <1>5. QED  BY <1>3, <1>4 DEF IInv

LEMMA NextHolds == IInv /\ [Next]_vars => IInv'
  <1> SUFFICES ASSUME IInv, [Next]_vars PROVE IInv'  OBVIOUS
  <1>1. CASE Advance
    BY <1>1 DEF Advance, IInv, Types, ReadsAreNext
  <1>2. CASE UNCHANGED vars
    BY <1>2 DEF vars, IInv, Types, ReadsAreNext
  <1>3. QED
    BY <1>1, <1>2, ServeHolds, RestartHolds, StartReadHolds, ReadHolds, ReadFailsHolds
       DEF Next

(* A Mac's snapshot is always appended behind those stored, so a vote that *)
(* was possible stays possible (insert_daemon_snapshot).                   *)
THEOREM Invariance == Spec => []IInv
  BY InitHolds, NextHolds, PTL DEF Spec

-----------------------------------------------------------------------------
(* The bounds.  They rest on each other: no counter passes the number of   *)
(* payouts, because no request is paid twice.                              *)

\* The payouts of a Mac are of its session or of earlier ones, each of a request
\* that its counter has passed.
PaidAreServed ==
    \A p \in payouts :
        LET now == session[p.hash.host]
        IN  /\ p.hash.started <= now.started
            /\ p.hash.started = now.started => p.nth <= now.served

CountersAreBounded ==
    /\ \A h \in Hosts : /\ session[h].started \in 1 .. MaxSessions
                        /\ session[h].served <= Cardinality(payouts)
    /\ Cardinality(payouts) <= MaxPayouts

TimesAreBounded ==
    /\ clock <= MaxTime
    /\ \A h \in Hosts : reading[h] # NoTime => reading[h] <= clock

RowsAreBounded ==
    \A h \in Hosts :
        /\ \A i \in 1 .. Len(snaps[h]) : snaps[h][i] \in Snapshot
        /\ \A i \in 2 .. Len(snaps[h]) : snaps[h][i - 1].at < snaps[h][i].at

BInv == /\ IInv /\ PaidAreServed /\ CountersAreBounded /\ TimesAreBounded
        /\ RowsAreBounded /\ payouts \subseteq Payout

LEMMA Limits ==
    /\ MaxSessions \in Nat /\ MaxSessions >= 1 /\ MaxPayouts \in Nat /\ MaxTime \in Nat
  BY BoundsAssumption

LEMMA SessionFacts ==
  ASSUME Types, NEW h \in Hosts
  PROVE  session[h].started \in Nat /\ session[h].served \in Nat
  BY DEF Types, Counters

LEMMA InitIsBounded == Init => BInv
  <1> SUFFICES ASSUME Init PROVE BInv  OBVIOUS
  <1>1. \A h \in Hosts : /\ snaps[h] = <<>> /\ reading[h] = NoTime
                         /\ session[h].started = 1 /\ session[h].served = 0
    BY DEF Init
  <1>2. payouts = {} /\ Cardinality(payouts) = 0 /\ clock = 0
    BY FS_EmptySet DEF Init
  <1>3. CountersAreBounded
    BY <1>1, <1>2, Limits DEF CountersAreBounded
  <1>4. TimesAreBounded
    BY <1>1, <1>2, Limits DEF TimesAreBounded
  <1>5. RowsAreBounded
    BY <1>1 DEF RowsAreBounded
  <1>6. QED  BY <1>2, <1>3, <1>4, <1>5, InitHolds DEF BInv, PaidAreServed

\* A request is paid once, and counts for one payout more.
LEMMA ServeIsBounded ==
  ASSUME BInv, NEW h \in Hosts, Serve(h)
  PROVE  BInv'
  <1> DEFINE new == [hash |-> [host |-> h, started |-> session[h].started],
                     nth |-> session[h].served + 1, at |-> clock]
             n == Cardinality(payouts)
  <1>1. /\ \A g \in Hosts : session[g].started \in Nat /\ session[g].served \in Nat
        /\ clock \in Nat /\ n \in Nat /\ IsFiniteSet(payouts)
    <2>1. IsFiniteSet(payouts) /\ clock \in Nat /\ Types
      BY DEF BInv, IInv, Types
    <2>2. QED  BY <2>1, SessionFacts, FS_CardinalityType
  <1>2. payouts' = payouts \cup {new}
    BY DEF Serve
  <1>3. new \notin payouts
    <2> SUFFICES ASSUME new \in payouts PROVE FALSE  OBVIOUS
    <2>1. new.nth <= session[h].served
      BY DEF BInv, PaidAreServed
    <2>2. QED  BY <1>1, <2>1
  <1>4. Cardinality(payouts') = n + 1
    BY <1>1, <1>2, <1>3, FS_AddElement
  <1>5. n < MaxPayouts
    BY DEF Serve
  <1>6. session[h].served <= n /\ session[h].started \in 1 .. MaxSessions
    BY DEF BInv, CountersAreBounded
  <1>7. /\ session'[h].started = session[h].started
        /\ session'[h].served = session[h].served + 1
        /\ \A g \in Hosts \ {h} : session'[g] = session[g]
    BY DEF Serve, BInv, IInv, Types, Counters
  <1>8. CountersAreBounded'
    <2> HIDE DEF new, n
    <2>1. \A g \in Hosts : session[g].served <= n /\ session[g].started \in 1 .. MaxSessions
      BY DEF BInv, CountersAreBounded, n
    <2>2. ASSUME NEW g \in Hosts
          PROVE  session'[g].started \in 1 .. MaxSessions /\ session'[g].served <= n + 1
      <3>1. CASE g = h  BY <1>1, <1>6, <1>7, <3>1
      <3>2. CASE g # h  BY <1>1, <1>7, <2>1, <3>2
      <3>3. QED  BY <3>1, <3>2
    <2>3. n + 1 <= MaxPayouts
      BY <1>1, <1>5, Limits
    <2>4. QED  BY <1>4, <2>2, <2>3 DEF CountersAreBounded
  <1>9. payouts' \subseteq Payout
    <2>1. session[h].served + 1 \in 1 .. MaxPayouts
      BY <1>1, <1>5, <1>6, Limits
    <2>2. clock \in Times
      BY <1>1, Limits DEF BInv, TimesAreBounded, Times
    <2>3. new \in Payout
      BY <1>6, <2>1, <2>2 DEF Payout, Hash
    <2>4. QED  BY <1>2, <2>3 DEF BInv
  <1>10. PaidAreServed'
    <2>1. ASSUME NEW p \in payouts'
          PROVE  /\ p.hash.started <= session'[p.hash.host].started
                 /\ p.hash.started = session'[p.hash.host].started
                       => p.nth <= session'[p.hash.host].served
      <3>1. CASE p = new
        BY <1>1, <1>7, <3>1
      <3>2. CASE p \in payouts
        <4>1. /\ p.hash.host \in Hosts /\ p.nth \in Nat
              /\ p.hash.started <= session[p.hash.host].started
              /\ p.hash.started = session[p.hash.host].started
                    => p.nth <= session[p.hash.host].served
          BY <3>2 DEF BInv, IInv, Types, PaidRequests, PaidAreServed
        <4>2. QED  BY <1>1, <1>7, <4>1
      <3>3. QED  BY <1>2, <2>1, <3>1, <3>2
    <2>2. QED  BY <2>1 DEF PaidAreServed
  <1>11. TimesAreBounded' /\ RowsAreBounded'
    BY DEF Serve, BInv, TimesAreBounded, RowsAreBounded
  <1>12. IInv'
    BY ServeHolds DEF BInv
  <1>13. QED  BY <1>8, <1>9, <1>10, <1>11, <1>12 DEF BInv

LEMMA RestartIsBounded ==
  ASSUME BInv, NEW h \in Hosts, RestartDaemon(h)
  PROVE  BInv'
  <1>1. /\ session'[h].started = session[h].started + 1 /\ session'[h].served = 0
        /\ \A g \in Hosts \ {h} : session'[g] = session[g]
    BY DEF RestartDaemon, BInv, IInv, Types
  <1>2. \A g \in Hosts : session[g].started \in Nat /\ session[g].served \in Nat
    BY SessionFacts DEF BInv, IInv
  <1>3. payouts' = payouts /\ Cardinality(payouts) \in Nat
    BY FS_CardinalityType DEF RestartDaemon, BInv, IInv, Types
  <1>4. CountersAreBounded'
    <2>1. session[h].started + 1 \in 1 .. MaxSessions
      BY <1>2, Limits DEF RestartDaemon
    <2>2. QED  BY <1>1, <1>3, <2>1 DEF BInv, CountersAreBounded
  <1>5. PaidAreServed'
    <2>1. ASSUME NEW p \in payouts
          PROVE  /\ p.hash.started <= session'[p.hash.host].started
                 /\ p.hash.started = session'[p.hash.host].started
                       => p.nth <= session'[p.hash.host].served
      <3>1. /\ p.hash.host \in Hosts /\ p.hash.started \in Nat
            /\ p.hash.started <= session[p.hash.host].started
            /\ p.hash.started = session[p.hash.host].started
                  => p.nth <= session[p.hash.host].served
        BY DEF BInv, IInv, Types, PaidRequests, PaidAreServed
      <3>2. CASE p.hash.host = h
        BY <1>1, <1>2, <3>1, <3>2
      <3>3. CASE p.hash.host # h
        BY <1>1, <3>1, <3>3
      <3>4. QED  BY <3>2, <3>3
    <2>2. QED  BY <1>3, <2>1 DEF PaidAreServed
  <1>6. TimesAreBounded' /\ RowsAreBounded'
    BY DEF RestartDaemon, BInv, TimesAreBounded, RowsAreBounded
  <1>7. QED  BY <1>3, <1>4, <1>5, <1>6, RestartHolds DEF BInv

LEMMA ReadIsBounded ==
  ASSUME BInv, NEW h \in Hosts, Read(h)
  PROVE  BInv'
  <1> DEFINE n == Len(snaps[h])
             row == [at |-> reading[h], started |-> session[h].started,
                     served |-> session[h].served]
  <1>1. reading'[h] = NoTime /\ \A g \in Hosts \ {h} : reading'[g] = reading[g]
    BY DEF Read, BInv, IInv, Types
  <1>2. TimesAreBounded'
    BY <1>1 DEF Read, BInv, TimesAreBounded
  <1>3. row \in Snapshot
    <2>1. session[h].started \in Nat /\ session[h].served \in Nat
      BY SessionFacts DEF BInv, IInv
    <2>2. Cardinality(payouts) \in Nat
      BY FS_CardinalityType DEF BInv, IInv, Types
    <2>3. session[h].served \in 0 .. MaxPayouts
      <3>1. /\ session[h].served <= Cardinality(payouts)
            /\ Cardinality(payouts) <= MaxPayouts
        BY DEF BInv, CountersAreBounded
      <3>2. QED  BY <2>1, <2>2, <3>1, Limits
    <2>4. session[h].started \in 1 .. MaxSessions
      BY DEF BInv, CountersAreBounded
    <2>5. reading[h] \in Nat /\ clock \in Nat /\ reading[h] <= clock /\ clock <= MaxTime
      BY ReadFacts DEF Read, BInv, IInv, Types, TimesAreBounded
    <2>6. reading[h] \in Times
      BY <2>5, Limits DEF Times
    <2>7. QED  BY <2>3, <2>4, <2>6 DEF Snapshot
  <1>4. snaps'[h] = Append(snaps[h], row) /\ snaps[h] \in Seq(Rows)
    BY DEF Read, BInv, IInv, Types
  <1>5. /\ n \in Nat /\ Len(snaps'[h]) = n + 1 /\ snaps'[h][n + 1] = row
        /\ \A i \in 1 .. n : snaps'[h][i] = snaps[h][i]
        /\ \A g \in Hosts \ {h} : snaps'[g] = snaps[g]
    <2> HIDE DEF row
    <2>1. QED  BY <1>4, ReadFacts DEF BInv
  <1>6. \A i \in 1 .. n : snaps[h][i].at < row.at
    BY DEF Read, BInv, IInv, ReadsAreNext
  <1> HIDE DEF n, row
  <1>7. ASSUME NEW i \in 1 .. n + 1 PROVE snaps'[h][i] \in Snapshot
    <2>1. CASE i = n + 1  BY <1>3, <1>5, <2>1
    <2>2. CASE i \in 1 .. n  BY <1>5, <2>2 DEF BInv, RowsAreBounded, n
    <2>3. QED  BY <1>5, <2>1, <2>2
  <1>8. ASSUME NEW i \in 2 .. n + 1 PROVE snaps'[h][i - 1].at < snaps'[h][i].at
    <2>1. CASE i = n + 1
      <3>1. i - 1 = n /\ n \in 1 .. n
        BY <1>5, <2>1
      <3>2. QED  BY <1>5, <1>6, <2>1, <3>1
    <2>2. CASE i \in 2 .. n
      <3>1. i - 1 \in 1 .. n /\ i \in 1 .. n
        BY <1>5, <2>2
      <3>2. snaps[h][i - 1].at < snaps[h][i].at
        BY <2>2 DEF BInv, RowsAreBounded, n
      <3>3. QED  BY <1>5, <3>1, <3>2
    <2>3. QED  BY <1>5, <2>1, <2>2
  <1>9. RowsAreBounded'
    BY <1>5, <1>7, <1>8 DEF BInv, RowsAreBounded
  <1>10. PaidAreServed' /\ CountersAreBounded' /\ payouts' \subseteq Payout
    BY DEF Read, BInv, PaidAreServed, CountersAreBounded
  <1>11. QED  BY <1>2, <1>9, <1>10, ReadHolds DEF BInv

LEMMA NextIsBounded == BInv /\ [Next]_vars => BInv'
  <1> SUFFICES ASSUME BInv, [Next]_vars PROVE BInv'  OBVIOUS
  <1> USE DEF BInv, PaidAreServed, CountersAreBounded, TimesAreBounded, RowsAreBounded
  <1>1. IInv'
    BY NextHolds
  <1>2. CASE Advance
    <2>1. clock' <= MaxTime /\ \A h \in Hosts : reading[h] # NoTime => reading[h] <= clock'
      BY <1>2, Limits DEF Advance, IInv, Types
    <2>2. QED  BY <1>1, <1>2, <2>1 DEF Advance
  <1>3. ASSUME NEW h \in Hosts, StartRead(h) PROVE BInv'
    <2>1. reading'[h] = clock /\ \A g \in Hosts \ {h} : reading'[g] = reading[g]
      BY <1>3 DEF StartRead, IInv, Types
    <2>2. clock \in Nat  BY DEF IInv, Types
    <2>3. TimesAreBounded'
      BY <1>3, <2>1, <2>2 DEF StartRead
    <2>4. QED  BY <1>1, <1>3, <2>3 DEF StartRead
  <1>4. ASSUME NEW h \in Hosts, ReadFails(h) PROVE BInv'
    <2>1. reading'[h] = NoTime /\ \A g \in Hosts \ {h} : reading'[g] = reading[g]
      BY <1>4 DEF ReadFails, IInv, Types
    <2>2. QED  BY <1>1, <1>4, <2>1 DEF ReadFails
  <1>5. CASE UNCHANGED vars
    BY <1>1, <1>5 DEF vars
  <1>6. QED
    BY <1>2, <1>3, <1>4, <1>5, ServeIsBounded, RestartIsBounded, ReadIsBounded DEF Next

LEMMA BoundedIsTyped == BInv => TypeOK
  <1> SUFFICES ASSUME BInv PROVE TypeOK  OBVIOUS
  <1>1. clock \in Times
    BY Limits DEF BInv, IInv, Types, TimesAreBounded, Times
  <1>2. session \in [Hosts -> Counter]
    <2>1. ASSUME NEW h \in Hosts PROVE session[h] \in Counter
      <3>1. /\ session[h] \in Counters /\ session[h].served \in Nat
            /\ Cardinality(payouts) \in Nat
        BY SessionFacts, FS_CardinalityType DEF BInv, IInv, Types
      <3>2. /\ session[h].started \in 1 .. MaxSessions
            /\ session[h].served <= Cardinality(payouts)
            /\ Cardinality(payouts) <= MaxPayouts
        BY DEF BInv, CountersAreBounded
      <3>3. session[h].served \in 0 .. MaxPayouts
        BY <3>1, <3>2, Limits
      <3>4. QED  BY <3>1, <3>2, <3>3 DEF Counters, Counter
    <2>2. QED  BY <2>1 DEF BInv, IInv, Types
  <1>3. reading \in [Hosts -> Times \cup {NoTime}]
    <2>1. ASSUME NEW h \in Hosts PROVE reading[h] \in Times \cup {NoTime}
      <3>1. reading[h] \in Nat \cup {NoTime} /\ clock \in Nat
        BY DEF BInv, IInv, Types
      <3>2. reading[h] # NoTime => reading[h] <= MaxTime
        BY <3>1, Limits DEF BInv, TimesAreBounded
      <3>3. QED  BY <3>1, <3>2, Limits DEF Times
    <2>2. QED  BY <2>1 DEF BInv, IInv, Types
  <1>4. snaps \in [Hosts -> Seq(Snapshot)]
    <2>1. ASSUME NEW h \in Hosts PROVE snaps[h] \in Seq(Snapshot)
      <3>1. snaps[h] \in Seq(Rows)
        BY DEF BInv, IInv, Types
      <3>2. \A i \in 1 .. Len(snaps[h]) : snaps[h][i] \in Snapshot
        BY DEF BInv, RowsAreBounded
      <3>3. snaps[h] \in [1 .. Len(snaps[h]) -> Snapshot]
        BY <3>1, <3>2
      <3>4. QED  BY <3>1, <3>3
    <2>2. QED  BY <2>1 DEF BInv, IInv, Types
  <1>5. QED
    BY <1>1, <1>2, <1>3, <1>4 DEF BInv, RowsAreBounded, TypeOK

(* Every variable keeps to its bounds: no daemon's counter passes the      *)
(* number of payouts, no stamp the clock, and the snapshots of a Mac are   *)
(* in the strict order of their stamps, however long a read takes.         *)
THEOREM TypeCorrect == Spec => []TypeOK
  <1>1. Spec => []BInv
    BY InitIsBounded, NextIsBounded, PTL DEF Spec
  <1>2. QED  BY <1>1, BoundedIsTyped, PTL

-----------------------------------------------------------------------------
(* A vote that is cast.                                                    *)

Rises(h, p) == /\ Polled(h, p)
               /\ Prev(h, p).started = Nxt(h, p).started
               /\ Nxt(h, p).served > Prev(h, p).served

LEMMA PaidAt == ASSUME IInv, NEW p \in payouts PROVE p.at \in Nat
  BY DEF IInv, Types, PaidRequests

\* The read of one Mac.
LEMMA RisesStays ==
  ASSUME IInv, NEW h \in Hosts, Read(h), NEW p \in payouts, Since(h, p) # {}
  PROVE  Rises(h, p)' <=> Rises(h, p)
  <1> DEFINE n == Len(snaps[h])
  <1>1. /\ n \in Nat /\ Len(snaps'[h]) = n + 1
        /\ \A i \in 1 .. n : snaps'[h][i] = snaps[h][i] /\ snaps[h][i].at \in Nat
        /\ snaps'[h][n + 1].at = reading[h] /\ reading[h] \in Nat
    BY ReadFacts
  <1>2. Since(h, p) \subseteq 1 .. n /\ Before(h, p) \subseteq 1 .. n
    BY DEF Since, Before
  <1>3. p.at \in Nat  BY PaidAt
  <1>4. p.at < reading[h]
    <2>1. PICK i \in 1 .. n : snaps[h][i].at >= p.at
      BY DEF Since
    <2>2. snaps[h][i].at < reading[h]
      BY <2>1 DEF Read, IInv, ReadsAreNext
    <2>3. QED  BY <1>1, <1>3, <2>1, <2>2
  <1>5. 1 .. n + 1 = (1 .. n) \cup {n + 1}
    BY <1>1
  <1>6. Before(h, p)' = Before(h, p)
    <2>1. ~ (snaps'[h][n + 1].at < p.at)
      BY <1>1, <1>3, <1>4
    <2>2. QED  BY <1>1, <1>5, <2>1 DEF Before
  <1>7. Since(h, p)' = Since(h, p) \cup {n + 1}
    <2>1. snaps'[h][n + 1].at >= p.at
      BY <1>1, <1>3, <1>4
    <2>2. QED  BY <1>1, <1>5, <2>1 DEF Since
  <1> HIDE DEF n
  <1>8. Nxt(h, p)' = Nxt(h, p)
    <2>1. LeastOf(Since(h, p) \cup {n + 1}) = LeastOf(Since(h, p))
      <3>1. Since(h, p) \in SUBSET Nat /\ \A i \in Since(h, p) : i <= n
        BY <1>1, <1>2
      <3>2. QED  BY <1>1, <3>1, LeastStays
    <2>2. LeastOf(Since(h, p)) \in 1 .. n
      BY <1>1, <1>2, LeastFacts
    <2>3. Nxt(h, p) = snaps[h][LeastOf(Since(h, p))]
      BY DEF Nxt, LeastOf
    <2>4. Nxt(h, p)' = snaps'[h][LeastOf(Since(h, p)')]
      BY DEF Nxt, LeastOf
    <2>5. QED  BY <1>1, <1>7, <2>1, <2>2, <2>3, <2>4
  <1>9. Before(h, p) # {} => Prev(h, p)' = Prev(h, p)
    <2> SUFFICES ASSUME Before(h, p) # {} PROVE Prev(h, p)' = Prev(h, p)
      OBVIOUS
    <2>1. GreatestOf(Before(h, p)) \in 1 .. n
      BY <1>1, <1>2, GreatestFacts
    <2>2. Prev(h, p) = snaps[h][GreatestOf(Before(h, p))]
      BY DEF Prev, GreatestOf
    <2>3. Prev(h, p)' = snaps'[h][GreatestOf(Before(h, p)')]
      BY DEF Prev, GreatestOf
    <2>4. QED  BY <1>1, <1>6, <2>1, <2>2, <2>3
  <1>10. Polled(h, p)' <=> Polled(h, p)
    BY <1>6, <1>7 DEF Polled
  <1>11. QED  BY <1>8, <1>9, <1>10 DEF Rises, Polled

\* The other Macs.
LEMMA RisesElsewhere ==
  ASSUME NEW g \in Hosts, snaps'[g] = snaps[g], NEW p
  PROVE  Rises(g, p)' <=> Rises(g, p)
  BY DEF Rises, Polled, Before, Since, Prev, Nxt

LEMMA RisersAreThoseThatRise == \A p : Risers(p) = {h \in Hosts : Rises(h, p)}
  BY DEF Risers, Rises

(* Once every Mac was read after a payout, its vote stays what it is:      *)
(* later snapshots and payouts do not change it (_VOTES_SQL).              *)
THEOREM VotesAreFinal == Spec => VoteIsFinal
  <1>1. ASSUME IInv, [Next]_vars, NEW p \in payouts, \A h \in Hosts : Since(h, p) # {}
        PROVE  Risers(p)' = Risers(p)
    <2>1. ASSUME NEW g \in Hosts PROVE Rises(g, p)' <=> Rises(g, p)
      <3>1. CASE snaps' = snaps
        BY <3>1, RisesElsewhere
      <3>2. ASSUME NEW h \in Hosts, Read(h) PROVE Rises(g, p)' <=> Rises(g, p)
        BY <1>1, <3>2, RisesStays, RisesElsewhere, ReadFacts
      <3>3. QED
        BY <1>1, <3>1, <3>2
           DEF Next, Advance, Serve, RestartDaemon, StartRead, ReadFails, vars
    <2>2. QED  BY <2>1 DEF Risers, Rises
  <1>2. IInv /\ [Next]_vars =>
            [\A p \in payouts :
                (\A h \in Hosts : Since(h, p) # {}) => Risers(p)' = Risers(p)]_vars
    BY <1>1
  <1>3. QED  BY <1>2, Invariance, PTL DEF Spec, VoteIsFinal

-----------------------------------------------------------------------------
(* The leader of the votes.                                                *)

\* The votes for a Mac, and the payouts that its Mac's snapshots do not show.
Voters(hash, h) == {p \in InDay : p.hash = hash /\ Risers(p) = {h}}
Unwatched(hash) == {p \in InDay : p.hash = hash /\ ~ Watched(p)}

LEMMA FiniteVoters ==
  ASSUME IInv, NEW hash
  PROVE  /\ IsFiniteSet(Unwatched(hash)) /\ Cardinality(Unwatched(hash)) \in Nat
         /\ \A h : VotesFor(hash, h) = Cardinality(Voters(hash, h))
         /\ \A h : VotesFor(hash, h) \in Nat
  <1>1. IsFiniteSet(payouts)
    BY DEF IInv, Types
  <1>2. \A S \in SUBSET payouts : IsFiniteSet(S) /\ Cardinality(S) \in Nat
    BY <1>1, FS_Subset, FS_CardinalityType
  <1>3. Unwatched(hash) \subseteq payouts /\ \A h : Voters(hash, h) \subseteq payouts
    BY DEF Unwatched, Voters, InDay
  <1>4. \A h : VotesFor(hash, h) = Cardinality(Voters(hash, h))
    BY DEF VotesFor, Voters
  <1>5. QED  BY <1>2, <1>3, <1>4

\* An honest observation has the Mac among the risers.
LEMMA WatchedRises ==
  ASSUME IInv, NEW p \in payouts, Watched(p)
  PROVE  p.hash.host \in Risers(p)
  <1> DEFINE h == p.hash.host
             n == Len(snaps[h])
  <1>1. h \in Hosts /\ p.nth \in Nat
    BY DEF IInv, Types, PaidRequests
  <1>2. Polled(h, p) /\ Prev(h, p).started = Nxt(h, p).started
        /\ Prev(h, p).served < p.nth /\ p.nth <= Nxt(h, p).served
    BY DEF Watched
  <1>3. Before(h, p) \subseteq 1 .. n /\ Since(h, p) \subseteq 1 .. n
    BY DEF Before, Since
  <1>4. n \in Nat /\ \A i \in 1 .. n : snaps[h][i].served \in Nat
    BY <1>1, RowFacts DEF IInv
  <1> HIDE DEF h, n
  <1>5. Prev(h, p).served \in Nat
    <2>1. GreatestOf(Before(h, p)) \in 1 .. n
      BY <1>2, <1>3, <1>4, GreatestFacts DEF Polled
    <2>2. QED  BY <1>4, <2>1 DEF Prev, GreatestOf
  <1>6. Nxt(h, p).served \in Nat
    <2>1. Since(h, p) \in SUBSET Nat
      BY <1>3, <1>4
    <2>2. LeastOf(Since(h, p)) \in 1 .. n
      BY <1>2, <1>3, <2>1, LeastFacts DEF Polled
    <2>3. QED  BY <1>4, <2>2 DEF Nxt, LeastOf
  <1>7. Nxt(h, p).served > Prev(h, p).served
    BY <1>1, <1>2, <1>5, <1>6
  <1>8. QED  BY <1>1, <1>2, <1>7 DEF Risers, h

\* The Mac a hash is shown on has more votes than any other.
LEMMA AttributedLeads ==
  ASSUME IInv, NEW hash, NEW g, g = Attributed(hash), g # Nobody
  PROVE  /\ g \in Hosts
         /\ \A h \in Hosts \ {g} : VotesFor(hash, h) < VotesFor(hash, g)
  <1>1. Cardinality(Leaders(hash)) = 1
    BY DEF Attributed
  <1>2. Leaders(hash) =
            {h \in Hosts : /\ VotesFor(hash, h) > 0
                           /\ \A f \in Hosts : VotesFor(hash, f) <= VotesFor(hash, h)}
    BY DEF Leaders
  <1>3. Leaders(hash) \subseteq Hosts
    BY <1>2
  <1>4. IsFiniteSet(Leaders(hash))
    BY <1>3, BoundsAssumption, FS_Subset
  <1>5. PICK x : Leaders(hash) = {x}
    BY <1>1, <1>4, FS_Singleton
  <1>6. g = x
    BY <1>1, <1>3, <1>5 DEF Attributed
  <1>7. g \in Leaders(hash)
    BY <1>5, <1>6
  <1>8. ASSUME NEW h \in Hosts \ {g} PROVE VotesFor(hash, h) < VotesFor(hash, g)
    <2>1. VotesFor(hash, h) \in Nat /\ VotesFor(hash, g) \in Nat
      BY FiniteVoters
    <2>2. VotesFor(hash, h) <= VotesFor(hash, g)
      BY <1>2, <1>7
    <2>3. VotesFor(hash, h) # VotesFor(hash, g)
      <3>1. SUFFICES ASSUME VotesFor(hash, h) = VotesFor(hash, g) PROVE FALSE
        OBVIOUS
      <3>2. h \in Leaders(hash)
        BY <1>2, <1>7, <3>1
      <3>3. QED  BY <1>5, <1>6, <3>2
    <2>4. QED  BY <2>1, <2>2, <2>3
  <1>9. QED  BY <1>3, <1>7, <1>8

LEMMA LeaderHolds == IInv => LeaderIsBacked
  <1> SUFFICES ASSUME IInv, NEW p0 \in payouts,
                      Attributed(p0.hash) \notin {Nobody, p0.hash.host}
               PROVE  Cardinality(Unwatched(p0.hash)) > VotesFor(p0.hash, p0.hash.host)
    BY DEF LeaderIsBacked, Unwatched
  <1> DEFINE hash == p0.hash
             g == Attributed(hash)
  <1>1. hash.host \in Hosts
    BY DEF IInv, Types, PaidRequests
  <1>2. g \in Hosts /\ VotesFor(hash, hash.host) < VotesFor(hash, g)
    BY <1>1, AttributedLeads
  <1>3. Voters(hash, g) \subseteq Unwatched(hash)
    <2> SUFFICES ASSUME NEW p \in InDay, p.hash = hash, Risers(p) = {g}, Watched(p)
                 PROVE  FALSE
      BY DEF Voters, Unwatched
    <2>1. hash.host \in Risers(p)
      BY WatchedRises DEF InDay
    <2>2. QED  BY <2>1
  <1>4. /\ Cardinality(Voters(hash, g)) <= Cardinality(Unwatched(hash))
        /\ Cardinality(Unwatched(hash)) \in Nat
    BY <1>3, FiniteVoters, FS_Subset
  <1>5. /\ VotesFor(hash, g) = Cardinality(Voters(hash, g))
        /\ VotesFor(hash, g) \in Nat /\ VotesFor(hash, hash.host) \in Nat
    BY FiniteVoters
  <1> HIDE DEF hash, g
  <1>6. Cardinality(Unwatched(hash)) > VotesFor(hash, hash.host)
    BY <1>2, <1>4, <1>5
  <1>7. QED  BY <1>6 DEF hash

(* A hash is shown on a wrong Mac only on the strength of more payouts     *)
(* that the right Mac's snapshots do not show than it has votes            *)
(* (provider_hosts).                                                       *)
THEOREM LeadersAreBacked == Spec => []LeaderIsBacked
  BY Invariance, LeaderHolds, PTL
=============================================================================
