---------------------------- MODULE WatchProofs ----------------------------
(***************************************************************************)
(* Theorems about the watchdog loop for every set of alerts, every grace,  *)
(* every hold time and every bound of the clock.                           *)
(***************************************************************************)
EXTENDS Watch, TLAPS

(* What a tick holds between its steps, beyond the types.                  *)

\* The tick's copy is the stored state: no other process writes the row.
CopyIsRow == pc \in {"post", "clean"} => state = row

\* Past the POST, Alertmanager has every recovery that is about to be dropped.
CleanIsDelivered ==
    pc = "clean" =>
        \A a \in Alerts : Ended(row[a])
            => am[a] = [told |-> "closed", end |-> row[a].ended]

\* Only whole records are stored, and only pages that fired can end.
WellFormed ==
    \A a \in Alerts : /\ Absent(row[a]) => row[a] = NoRecord
                      /\ Ended(row[a]) => row[a].firing

\* An open page has outlasted its grace, by the clock and by the tick's stamp.
GraceServed ==
    \A a \in Alerts :
        row[a].firing /\ ~Ended(row[a])
            => /\ clock - row[a].since >= Delay(a)
               /\ pc \in {"stamped", "post", "clean"} => at - row[a].since >= Delay(a)

StampIsPast == at <= clock

IInv == /\ TypeOK /\ CopyIsRow /\ CleanIsDelivered /\ WellFormed
        /\ RowRemembersSpell /\ GraceServed /\ StampIsPast

-----------------------------------------------------------------------------
(* The helpers.                                                            *)

LEMMA DelayIsNat == \A a \in Alerts : Delay(a) \in Nat
  BY TimesAssumption DEF Delay

LEMMA TimesAreInts == Times \subseteq Int /\ NoTime \in Int /\ NoTime \notin Times
  BY TimesAssumption DEF Times, NoTime

(* NoState and the records that move are records.                          *)
LEMMA NoStateType == NoState \in [Alerts -> Record]
  BY DEF NoState, NoRecord, Record

LEMMA NoRecordFacts ==
    /\ NoRecord \in Record
    /\ Absent(NoRecord) /\ ~Ended(NoRecord) /\ ~NoRecord.firing
  BY DEF NoRecord, Record, Absent, Ended

(* One record moves to a record, and what it says of the current spell.    *)
LEMMA AdvanceFacts ==
  ASSUME NEW item \in Record, NEW condition \in Condition,
         NEW delay \in Nat, NEW now \in Times,
         Absent(item) => item = NoRecord,
         Ended(item) => item.firing
  PROVE  LET next == AdvanceAlert(item, condition, delay, now)
         IN  /\ next \in Record
             /\ Absent(next) => next = NoRecord
             /\ Ended(next) => next.firing
             /\ condition = "ok" => Absent(next) \/ Ended(next)
             /\ condition = "bad" => ~Absent(next) /\ ~Ended(next)
             /\ condition = "bad" /\ (Absent(item) \/ Ended(item))
                   => next.since = now
             /\ condition = "bad" /\ ~Absent(item) /\ ~Ended(item)
                   => next.since = item.since
             /\ condition = "bad" /\ next.firing
                   => \/ now - next.since >= delay
                      \/ item.firing /\ ~Absent(item) /\ ~Ended(item)
             /\ condition = "unknown" => next = item
             /\ item.firing => (next.firing \/ (Ended(item) /\ condition = "bad"))
             /\ Ended(item) /\ Ended(next) => next = item
  <1> DEFINE next == AdvanceAlert(item, condition, delay, now)
  <1>0. /\ item.since \in Times \cup {NoTime}
        /\ item.firing \in BOOLEAN
        /\ item.ended \in Times \cup {NoTime}
    BY DEF Record
  <1>1. CASE condition = "ok"
    BY <1>1, TimesAreInts
       DEF AdvanceAlert, HealthyRecord, Record, Absent, Ended, NoRecord
  <1>2. CASE condition = "bad"
    <2> DEFINE fresh == Absent(item) \/ Ended(item)
               since == IF fresh THEN now ELSE item.since
               fires == (IF fresh THEN FALSE ELSE item.firing) \/ now - since >= delay
    <2>1. next = [since |-> since, firing |-> fires, ended |-> NoTime]
      BY <1>2 DEF AdvanceAlert, FaultyRecord
    <2>2. since \in Times /\ fires \in BOOLEAN
      BY <1>0 DEF Absent
    <2>3. next \in Record /\ ~Absent(next) /\ ~Ended(next)
      BY <2>1, <2>2, TimesAreInts DEF Record, Absent, Ended
    <2>4. fires => now - since >= delay \/ (item.firing /\ ~fresh)
      OBVIOUS
    <2>5. item.firing => fires \/ Ended(item)
      BY DEF Absent, NoRecord
    <2>6. since = IF fresh THEN now ELSE item.since
      OBVIOUS
    <2> HIDE DEF since, fires, next
    <2>7. next.since = since /\ (next.firing <=> fires)
      BY <2>1, <2>2
    <2>8. /\ next.firing => now - next.since >= delay \/ (item.firing /\ ~fresh)
          /\ item.firing => next.firing \/ Ended(item)
          /\ fresh => next.since = now
          /\ ~fresh => next.since = item.since
      BY <2>4, <2>5, <2>6, <2>7
    <2>9. QED
      BY <1>2, <2>3, <2>8 DEF next
  <1>3. CASE condition = "unknown"
    BY <1>3 DEF AdvanceAlert
  <1>4. QED
    BY <1>1, <1>2, <1>3 DEF Condition

(* The conditions of every probe, and the records of a whole transition.   *)
LEMMA ConditionTypes ==
  /\ Unreachable \in [Alerts -> Condition]
  /\ \A status \in Readings : ConditionsOf(status) \in [Alerts -> Condition]
  <1>1. Unreachable \in [Alerts -> Condition]
    BY DEF Unreachable, Condition
  <1>2. ASSUME NEW status \in Readings, NEW a \in Alerts
        PROVE  ConditionsOf(status)[a] \in Condition
    <2>1. a \in AllAlerts
      BY AlertsAssumption
    <2>2. /\ UpOrBad(status.provider) \in Condition
          /\ UpOrBad(status.manager) \in Condition
          /\ SwitchCondition(status) \in Condition
      BY DEF UpOrBad, SwitchCondition, Condition
    <2>3. QED
      BY <2>1, <2>2 DEF ConditionsOf, AllAlerts, Condition
  <1>3. ASSUME NEW status \in Readings
        PROVE  ConditionsOf(status) \in [Alerts -> Condition]
    BY <1>2 DEF ConditionsOf
  <1>4. QED
    BY <1>1, <1>3

LEMMA TransitionAt ==
  ASSUME NEW saved \in [Alerts -> Record], NEW conditions \in [Alerts -> Condition],
         NEW now \in Times, NEW a \in Alerts
  PROVE  Transition(saved, conditions, now)[a]
           = AdvanceAlert(saved[a], conditions[a], Delay(a), now)
  BY DEF Transition

-----------------------------------------------------------------------------
(* The invariant holds at first and is preserved by every step.            *)

LEMMA InitInv == Init => IInv
  <1> SUFFICES ASSUME Init PROVE IInv
    OBVIOUS
  <1>1. TypeOK
    <2>1. am \in [Alerts -> Message]
      BY TimesAssumption DEF Init, NoMessage, Message
    <2>2. observed \in [Alerts -> Condition] /\ clock \in Times /\ at \in Times
      BY TimesAssumption DEF Init, Condition, Times
    <2>3. QED
      BY <2>1, <2>2, NoStateType DEF Init, TypeOK
  <1>2. \A a \in Alerts : row[a] = NoRecord
    BY DEF Init, NoState
  <1>3. \A a \in Alerts : Absent(row[a]) /\ ~Ended(row[a]) /\ ~row[a].firing
    BY <1>2, NoRecordFacts
  <1>4. QED
    BY <1>1, <1>2, <1>3 DEF Init, IInv, CopyIsRow, CleanIsDelivered, StampIsPast,
       WellFormed, GraceServed, RowRemembersSpell

LEMMA AdvanceInv == IInv /\ Advance => IInv'
  <1> SUFFICES ASSUME IInv, Advance PROVE IInv'
    OBVIOUS
  <1>1. TypeOK'
    BY TimesAssumption DEF IInv, TypeOK, Advance, Times
  <1>2. GraceServed'
    <2>1. clock \in Int /\ \A a \in Alerts : Delay(a) \in Int /\ row[a].since \in Int
      BY DelayIsNat, TimesAreInts DEF IInv, TypeOK, Record, Times
    <2>2. QED
      BY <2>1 DEF IInv, GraceServed, Advance, Ended
  <1>3. StampIsPast'
    BY TimesAssumption DEF IInv, TypeOK, StampIsPast, Advance, Times
  <1>4. QED
    BY <1>1, <1>2, <1>3 DEF IInv, Advance, CopyIsRow, CleanIsDelivered, WellFormed,
       RowRemembersSpell

LEMMA ReadInv ==
  ASSUME NEW conditions \in [Alerts -> Condition], IInv, Read(conditions)
  PROVE  IInv'
  <1>1. TypeOK'
    BY DEF IInv, TypeOK, Read
  <1>2. QED
    BY <1>1 DEF IInv, Read, CopyIsRow, CleanIsDelivered, WellFormed,
       RowRemembersSpell, GraceServed, StampIsPast

LEMMA StampInv == IInv /\ Stamp => IInv'
  <1> SUFFICES ASSUME IInv, Stamp PROVE IInv'
    OBVIOUS
  <1>1. TypeOK'
    BY DEF IInv, TypeOK, Stamp
  <1>2. StampIsPast'
    BY TimesAssumption DEF IInv, TypeOK, StampIsPast, Stamp, Times
  <1>3. QED
    BY <1>1, <1>2 DEF IInv, Stamp, CopyIsRow, CleanIsDelivered, WellFormed,
       RowRemembersSpell, GraceServed

LEMMA AbandonInv == IInv /\ Abandon => IInv'
  <1> SUFFICES ASSUME IInv, Abandon PROVE IInv'
    OBVIOUS
  <1>1. TypeOK'
    BY TimesAssumption, NoStateType DEF IInv, TypeOK, Abandon, EndTick, Times
  <1>2. StampIsPast'
    BY TimesAssumption DEF IInv, TypeOK, StampIsPast, Abandon, EndTick, Times
  <1>3. QED
    BY <1>1, <1>2 DEF IInv, Abandon, EndTick, CopyIsRow, CleanIsDelivered, WellFormed,
       RowRemembersSpell, GraceServed

(* The first transaction: each record moves as AdvanceFacts says, and the  *)
(* history variable with it.                                               *)
LEMMA CommitRow ==
  ASSUME IInv, Commit, NEW a \in Alerts
  PROVE  /\ row'[a] = AdvanceAlert(row[a], observed[a], Delay(a), at)
         /\ sick'[a] = NextSick[a]
         /\ row[a] \in Record /\ observed[a] \in Condition
         /\ Absent(row[a]) => row[a] = NoRecord
         /\ Ended(row[a]) => row[a].firing
  BY TransitionAt DEF IInv, TypeOK, WellFormed, Commit

LEMMA CommitType == IInv /\ Commit => TypeOK'
  <1> SUFFICES ASSUME IInv, Commit PROVE TypeOK'
    OBVIOUS
  <1>1. ASSUME NEW a \in Alerts
        PROVE  AdvanceAlert(row[a], observed[a], Delay(a), at) \in Record
    <2>1. at \in Times
      BY DEF IInv, TypeOK
    <2>2. QED
      BY <2>1, CommitRow, DelayIsNat, AdvanceFacts
  <1>2. row' \in [Alerts -> Record]
    BY <1>1 DEF Commit, Transition
  <1>3. state' \in [Alerts -> Record]
    BY <1>2, NoStateType DEF Commit, EndTick
  <1>4. sick' \in [Alerts -> Times \cup {NoTime}]
    BY DEF IInv, TypeOK, Commit, NextSick, Condition
  <1>5. at' \in Times
    BY TimesAssumption DEF IInv, TypeOK, Commit, EndTick, Times
  <1>6. pc' \in {"idle", "post"}
    BY DEF Commit, EndTick
  <1>7. QED
    BY <1>2, <1>3, <1>4, <1>5, <1>6 DEF IInv, TypeOK, Commit

LEMMA CommitInv == IInv /\ Commit => IInv'
  <1> SUFFICES ASSUME IInv, Commit PROVE IInv'
    OBVIOUS
  <1> USE DEF IInv
  <1>1. TypeOK'
    BY CommitType
  <1>2. /\ at \in Times /\ clock \in Times /\ pc = "stamped"
        /\ clock' = clock /\ (at' = at \/ pc' = "idle")
    BY DEF TypeOK, Commit, EndTick
  <1>3. CopyIsRow' /\ CleanIsDelivered'
    BY DEF Commit, EndTick, CopyIsRow, CleanIsDelivered
  <1>4. WellFormed'
    BY <1>2, CommitRow, DelayIsNat, AdvanceFacts DEF WellFormed
  <1>5. RowRemembersSpell'
    <2> SUFFICES ASSUME NEW a \in Alerts
                 PROVE  /\ Absent(row'[a]) \/ Ended(row'[a]) => sick'[a] = NoTime
                        /\ ~Absent(row'[a]) /\ ~Ended(row'[a])
                              => row'[a].since = sick'[a]
      BY DEF RowRemembersSpell
    <2> DEFINE next == AdvanceAlert(row[a], observed[a], Delay(a), at)
    <2>1. next = row'[a]
      BY CommitRow
    <2>2. sick'[a] = CASE observed[a] = "ok" -> NoTime
                       [] observed[a] = "bad" /\ sick[a] = NoTime -> at
                       [] OTHER -> sick[a]
      BY CommitRow DEF NextSick
    <2>3. /\ Absent(row[a]) \/ Ended(row[a]) => sick[a] = NoTime
          /\ ~Absent(row[a]) /\ ~Ended(row[a]) => sick[a] = row[a].since
      BY DEF RowRemembersSpell
    <2>4. CASE observed[a] = "ok"
      <3>1. Absent(next) \/ Ended(next)
        BY <1>2, <2>4, CommitRow, DelayIsNat, AdvanceFacts
      <3>2. QED
        BY <2>1, <2>2, <2>4, <3>1
    <2>5. CASE observed[a] = "bad"
      <3>1. /\ ~Absent(next) /\ ~Ended(next)
            /\ Absent(row[a]) \/ Ended(row[a]) => next.since = at
            /\ ~Absent(row[a]) /\ ~Ended(row[a]) => next.since = row[a].since
        BY <1>2, <2>5, CommitRow, DelayIsNat, AdvanceFacts
      <3>2. CASE Absent(row[a]) \/ Ended(row[a])
        BY <2>1, <2>2, <2>3, <2>5, <3>1, <3>2
      <3>3. CASE ~Absent(row[a]) /\ ~Ended(row[a])
        <4>1. sick[a] # NoTime
          BY <2>3, <3>3 DEF Absent
        <4>2. QED
          BY <2>1, <2>2, <2>3, <2>5, <3>1, <3>3, <4>1
      <3>4. QED
        BY <3>2, <3>3
    <2>6. CASE observed[a] = "unknown"
      <3>1. next = row[a]
        BY <1>2, <2>6, CommitRow, DelayIsNat, AdvanceFacts
      <3>2. QED
        BY <2>1, <2>2, <2>3, <2>6, <3>1
    <2>7. QED
      BY <2>4, <2>5, <2>6, CommitRow DEF Condition
  <1>6. ASSUME NEW a \in Alerts, row'[a].firing, ~Ended(row'[a])
        PROVE  at - row'[a].since >= Delay(a)
    <2> DEFINE next == AdvanceAlert(row[a], observed[a], Delay(a), at)
    <2>1. next = row'[a]
      BY CommitRow
    <2>2. row[a].firing /\ ~Ended(row[a]) => at - row[a].since >= Delay(a)
      BY <1>2 DEF GraceServed
    <2>3. CASE observed[a] = "ok"
      BY <1>2, <1>6, <2>1, <2>3, CommitRow, DelayIsNat, AdvanceFacts, NoRecordFacts
    <2>4. CASE observed[a] = "bad"
      BY <1>2, <1>6, <2>1, <2>2, <2>4, CommitRow, DelayIsNat, AdvanceFacts
    <2>5. CASE observed[a] = "unknown"
      BY <1>2, <1>6, <2>1, <2>2, <2>5, CommitRow, DelayIsNat, AdvanceFacts
    <2>6. QED
      BY <2>3, <2>4, <2>5, CommitRow DEF Condition
  <1>7. GraceServed'
    <2>1. ASSUME NEW a \in Alerts
          PROVE  /\ at \in Int /\ clock \in Int /\ at <= clock
                 /\ Delay(a) \in Int /\ row'[a].since \in Int
      BY <1>1, <1>2, DelayIsNat, TimesAreInts DEF StampIsPast, TypeOK, Record, Times
    <2>2. QED
      BY <1>2, <1>6, <2>1 DEF GraceServed, Ended
  <1>8. StampIsPast'
    BY <1>2, TimesAssumption DEF Commit, EndTick, StampIsPast, Times
  <1>9. QED
    BY <1>1, <1>3, <1>4, <1>5, <1>7, <1>8

LEMMA PostInv == IInv /\ PostAccepted => IInv'
  <1> SUFFICES ASSUME IInv, PostAccepted PROVE IInv'
    OBVIOUS
  <1> USE DEF IInv
  <1>1. /\ pc = "post" /\ pc' = "clean" /\ state = row
        /\ am' = Accept(state, at)
        /\ UNCHANGED <<clock, row, observed, at, state, sick>>
    BY DEF PostAccepted, CopyIsRow
  <1>2. ASSUME NEW a \in Alerts
        PROVE  Accept(state, at)[a] \in Message
    <2>1. row[a] \in Record /\ am[a] \in Message /\ at \in Times
      BY DEF TypeOK
    <2>2. Payload(row[a], at) \in Message
      BY <2>1, TimesAssumption DEF Payload, Message, Record, Ended, Times, NoTime
    <2>3. QED
      BY <1>1, <2>1, <2>2 DEF Accept
  <1>3. TypeOK'
    BY <1>1, <1>2 DEF TypeOK, Accept
  <1>4. ASSUME NEW a \in Alerts, Ended(row[a])
        PROVE  am'[a] = [told |-> "closed", end |-> row[a].ended]
    <2>1. row[a].firing
      BY <1>4 DEF WellFormed
    <2>2. QED
      BY <1>1, <1>4, <2>1 DEF Accept, Payload
  <1>5. CleanIsDelivered'
    BY <1>1, <1>4 DEF CleanIsDelivered
  <1>6. QED
    BY <1>1, <1>3, <1>5 DEF CopyIsRow, WellFormed, RowRemembersSpell, GraceServed,
       StampIsPast

LEMMA CleanInv == IInv /\ Clean => IInv'
  <1> SUFFICES ASSUME IInv, Clean PROVE IInv'
    OBVIOUS
  <1> USE DEF IInv
  <1>1. /\ pc = "clean" /\ pc' = "idle" /\ at' = 0 /\ state' = NoState
        /\ row' = WithoutEnded(row)
        /\ UNCHANGED <<clock, observed, am, sick>>
    BY DEF Clean, EndTick, CopyIsRow
  <1>2. ASSUME NEW a \in Alerts
        PROVE  row'[a] = IF Ended(row[a]) THEN NoRecord ELSE row[a]
    BY <1>1 DEF WithoutEnded
  <1>3. TypeOK'
    <2>1. row' \in [Alerts -> Record]
      BY <1>1, NoRecordFacts DEF TypeOK, WithoutEnded
    <2>2. QED
      BY <1>1, <2>1, NoStateType, TimesAssumption DEF TypeOK, Times
  <1>4. WellFormed' /\ RowRemembersSpell'
    BY <1>1, <1>2, NoRecordFacts DEF WellFormed, RowRemembersSpell
  <1>5. GraceServed'
    BY <1>1, <1>2, NoRecordFacts DEF GraceServed
  <1>6. QED
    BY <1>1, <1>3, <1>4, <1>5, TimesAssumption
       DEF CopyIsRow, CleanIsDelivered, StampIsPast, TypeOK, Times

LEMMA NextInv == IInv /\ [Next]_vars => IInv'
  <1> SUFFICES ASSUME IInv, [Next]_vars PROVE IInv'
    OBVIOUS
  <1>1. CASE Advance
    BY <1>1, AdvanceInv
  <1>2. CASE ProbeAnswers
    BY <1>2, ReadInv, ConditionTypes DEF ProbeAnswers
  <1>3. CASE ProbeFails
    BY <1>3, ReadInv, ConditionTypes DEF ProbeFails
  <1>4. CASE Stamp
    BY <1>4, StampInv
  <1>5. CASE Commit
    BY <1>5, CommitInv
  <1>6. CASE PostAccepted
    BY <1>6, PostInv
  <1>7. CASE Clean
    BY <1>7, CleanInv
  <1>8. CASE Abandon
    BY <1>8, AbandonInv
  <1>9. CASE UNCHANGED vars
    BY <1>9 DEF vars, IInv, TypeOK, CopyIsRow, CleanIsDelivered, WellFormed,
       RowRemembersSpell, GraceServed, StampIsPast
  <1>10. QED
    BY <1>1, <1>2, <1>3, <1>4, <1>5, <1>6, <1>7, <1>8, <1>9 DEF Next

(* The inductive invariant holds in every reachable state of the loop.     *)
THEOREM Invariance == Spec => []IInv
  BY InitInv, NextInv, PTL DEF Spec

(* Type correctness of the watchdog's state.                               *)
THEOREM TypeCorrect == Spec => []TypeOK
  <1>1. IInv => TypeOK
    BY DEF IInv
  <1>2. QED
    BY <1>1, Invariance, PTL

(* The stored record is the memory of the current spell of every alert:    *)
(* no failed tick and no restart shortens or stretches an outage.          *)
THEOREM SpellRemembered == Spec => []RowRemembersSpell
  <1>1. IInv => RowRemembersSpell
    BY DEF IInv
  <1>2. QED
    BY <1>1, Invariance, PTL

-----------------------------------------------------------------------------
(* What no step may do.                                                    *)

\* Only the POST changes what Alertmanager holds, and only the two
\* transactions change the stored records.
LEMMA OnlyPostTells == [Next]_vars => am' = am \/ PostAccepted
  BY DEF Next, vars, Advance, ProbeAnswers, ProbeFails, Read, Stamp, Commit,
     EndTick, Clean, Abandon

LEMMA OnlyTransactionsWrite ==
    [Next]_vars => Commit \/ Clean \/ (row' = row /\ sick' = sick)
  BY DEF Next, vars, Advance, ProbeAnswers, ProbeFails, Read, Stamp,
     PostAccepted, EndTick, Abandon

\* A changed message speaks of a record that paged: open for an open record,
\* closed for an ended one.
LEMMA PostTells ==
  ASSUME IInv, PostAccepted, NEW a \in Alerts, am'[a] # am[a]
  PROVE  /\ pc = "post" /\ row[a].firing
         /\ am'[a].told = IF Ended(row[a]) THEN "closed" ELSE "open"
  <1>1. /\ pc = "post" /\ am' = Accept(row, at)
    BY DEF IInv, CopyIsRow, PostAccepted
  <1>2. am'[a] = IF row[a].firing THEN Payload(row[a], at) ELSE am[a]
    BY <1>1 DEF Accept
  <1>3. QED
    BY <1>1, <1>2 DEF Payload

(* Every page Alertmanager accepts has been earned by an unbroken fault of *)
(* at least its grace in the committed readings.                           *)
THEOREM PagesAreEarned == Spec => PageEarned
  <1>1. ASSUME IInv, [Next]_vars, NEW a \in Alerts,
               am'[a] # am[a], am'[a].told = "open"
        PROVE  sick[a] # NoTime /\ at - sick[a] >= Delay(a)
    <2>1. PostAccepted
      BY <1>1, OnlyPostTells
    <2>2. pc = "post" /\ row[a].firing /\ ~Ended(row[a])
      BY <1>1, <2>1, PostTells
    <2>3. ~Absent(row[a])
      BY <1>1, <2>2, NoRecordFacts DEF IInv, WellFormed
    <2>4. row[a].since = sick[a] /\ at - row[a].since >= Delay(a)
      BY <1>1, <2>2, <2>3 DEF IInv, RowRemembersSpell, GraceServed
    <2>5. QED
      BY <2>3, <2>4 DEF Absent
  <1>2. IInv /\ [Next]_vars =>
          \A a \in Alerts : am'[a] # am[a] /\ am'[a].told = "open"
             => sick[a] # NoTime /\ at - sick[a] >= Delay(a)
    BY <1>1
  <1>3. QED
    BY <1>2, Invariance, PTL DEF Spec, PageEarned

(* Alertmanager is told of a recovery only after a committed healthy       *)
(* reading that no committed fault has followed.                           *)
THEOREM RecoveriesAreEarned == Spec => RecoveryEarned
  <1>1. ASSUME IInv, [Next]_vars, NEW a \in Alerts,
               am'[a] # am[a], am'[a].told = "closed"
        PROVE  sick[a] = NoTime
    <2>1. PostAccepted
      BY <1>1, OnlyPostTells
    <2>2. Ended(row[a])
      BY <1>1, <2>1, PostTells
    <2>3. QED
      BY <1>1, <2>2 DEF IInv, RowRemembersSpell
  <1>2. IInv /\ [Next]_vars =>
          \A a \in Alerts : am'[a] # am[a] /\ am'[a].told = "closed"
             => sick[a] = NoTime
    BY <1>1
  <1>3. QED
    BY <1>2, Invariance, PTL DEF Spec, RecoveryEarned

(* A recovery keeps the end it was first stamped with until it is gone.    *)
THEOREM EndsAreStable == Spec => EndIsStable
  <1>1. ASSUME IInv, [Next]_vars, NEW a \in Alerts, Ended(row[a]), Ended(row'[a])
        PROVE  row'[a] = row[a]
    <2>1. CASE Commit
      <3>1. at \in Times
        BY <1>1 DEF IInv, TypeOK
      <3>2. QED
        BY <1>1, <2>1, <3>1, CommitRow, DelayIsNat, AdvanceFacts
    <2>2. CASE Clean
      BY <1>1, <2>2, NoRecordFacts DEF Clean, WithoutEnded, IInv, CopyIsRow
    <2>3. QED
      BY <1>1, <2>1, <2>2, OnlyTransactionsWrite
  <1>2. IInv /\ [Next]_vars =>
          \A a \in Alerts : Ended(row[a]) /\ Ended(row'[a]) => row'[a] = row[a]
    BY <1>1
  <1>3. QED
    BY <1>2, Invariance, PTL DEF Spec, EndIsStable

(* A page that fired is never lost to a failed delivery or a crash: it     *)
(* leaves the database after Alertmanager took its end, or to a new spell. *)
THEOREM PagesOutliveDelivery == Spec => PageOutlivesDelivery
  <1>1. ASSUME IInv, [Next]_vars, NEW a \in Alerts,
               row[a].firing, row'[a].since # row[a].since
        PROVE  \/ am[a] = [told |-> "closed", end |-> row[a].ended]
               \/ sick[a] = NoTime /\ sick'[a] # NoTime
    <2>1. CASE Commit
      <3>1. at \in Times
        BY <1>1 DEF IInv, TypeOK
      <3>2. ~Absent(row[a])
        BY <1>1, NoRecordFacts DEF IInv, WellFormed
      <3>3. Ended(row[a]) /\ observed[a] = "bad"
        <4> DEFINE next == AdvanceAlert(row[a], observed[a], Delay(a), at)
        <4>1. /\ row'[a] = next /\ row[a] \in Record
              /\ observed[a] \in Condition
          BY <1>1, <2>1, CommitRow
        <4>2. CASE observed[a] = "ok"
          BY <1>1, <4>1, <4>2 DEF AdvanceAlert, HealthyRecord, Record
        <4>3. CASE observed[a] = "bad"
          BY <1>1, <2>1, <3>1, <3>2, <4>1, <4>3, CommitRow, DelayIsNat, AdvanceFacts
        <4>4. CASE observed[a] = "unknown"
          BY <1>1, <4>1, <4>4 DEF AdvanceAlert
        <4>5. QED
          BY <4>1, <4>2, <4>3, <4>4 DEF Condition
      <3>4. sick[a] = NoTime
        BY <1>1, <3>3 DEF IInv, RowRemembersSpell
      <3>5. sick'[a] = at
        BY <1>1, <2>1, <3>3, <3>4, CommitRow DEF NextSick
      <3>6. QED
        BY <3>1, <3>4, <3>5, TimesAreInts
    <2>2. CASE Clean
      <3>1. Ended(row[a]) /\ pc = "clean"
        BY <1>1, <2>2 DEF Clean, WithoutEnded, IInv, CopyIsRow
      <3>2. QED
        BY <1>1, <3>1 DEF IInv, CleanIsDelivered
    <2>3. QED
      BY <1>1, <2>1, <2>2, OnlyTransactionsWrite
  <1>2. IInv /\ [Next]_vars =>
          \A a \in Alerts :
             row[a].firing /\ row'[a].since # row[a].since
               => \/ am[a] = [told |-> "closed", end |-> row[a].ended]
                  \/ sick[a] = NoTime /\ sick'[a] # NoTime
    BY <1>1
  <1>3. QED
    BY <1>2, Invariance, PTL DEF Spec, PageOutlivesDelivery

-----------------------------------------------------------------------------
(* The watchdog implements AlertLifecycle.                                 *)

LEMMA PhaseTypes ==
  ASSUME NEW item \in Record
  PROVE  PhaseOf(item) \in Lifecycle!Phase
  BY DEF PhaseOf, Lifecycle!Phase, Record

\* A transaction moves the phase of a record as the abstract check may.
LEMMA PhaseMoves ==
  ASSUME IInv, Commit, NEW a \in Alerts
  PROVE  <<PhaseOf(row[a]), PhaseOf(row'[a])>> \in Lifecycle!Moves(a)
  <1> DEFINE next == AdvanceAlert(row[a], observed[a], Delay(a), at)
  <1>1. /\ row'[a] = next /\ at \in Times /\ Delay(a) \in Nat
        /\ row[a] \in Record /\ observed[a] \in Condition
        /\ Absent(row[a]) => row[a] = NoRecord
        /\ Ended(row[a]) => row[a].firing
    BY CommitRow, DelayIsNat DEF IInv, TypeOK
  <1>2. \A p \in Lifecycle!Phase : <<p, p>> \in Lifecycle!Moves(a)
    BY DEF Lifecycle!Moves
  <1>3. /\ <<"clear", Lifecycle!Opening(a)>> \in Lifecycle!Moves(a)
        /\ <<"resolving", Lifecycle!Opening(a)>> \in Lifecycle!Moves(a)
        /\ <<"pending", "firing">> \in Lifecycle!Moves(a)
        /\ <<"pending", "clear">> \in Lifecycle!Moves(a)
        /\ <<"firing", "resolving">> \in Lifecycle!Moves(a)
    BY DEF Lifecycle!Moves
  <1>4. CASE observed[a] = "unknown"
    BY <1>1, <1>2, <1>4, PhaseTypes DEF AdvanceAlert
  <1>5. CASE observed[a] = "ok"
    <2>1. next = HealthyRecord(row[a], at)
      BY <1>5 DEF AdvanceAlert
    <2>2. CASE Absent(row[a]) \/ Ended(row[a])
      <3>1. next = row[a]
        BY <1>1, <2>1, <2>2, NoRecordFacts DEF HealthyRecord
      <3>2. QED
        BY <1>1, <1>2, <3>1, PhaseTypes
    <2>3. CASE ~Absent(row[a]) /\ ~Ended(row[a]) /\ row[a].firing
      <3>1. PhaseOf(row[a]) = "firing"
        BY <2>3 DEF PhaseOf
      <3>2. ~Absent(next) /\ Ended(next)
        BY <1>1, <2>1, <2>3, TimesAreInts DEF HealthyRecord, Absent, Ended, Record
      <3>3. QED
        BY <1>1, <1>3, <3>1, <3>2 DEF PhaseOf
    <2>4. CASE ~Absent(row[a]) /\ ~Ended(row[a]) /\ ~row[a].firing
      <3>1. PhaseOf(row[a]) = "pending"
        BY <2>4 DEF PhaseOf
      <3>2. PhaseOf(next) = "clear"
        BY <2>1, <2>4, NoRecordFacts DEF HealthyRecord, PhaseOf
      <3>3. QED
        BY <1>1, <1>3, <3>1, <3>2
    <2>5. QED
      BY <2>2, <2>3, <2>4
  <1>6. CASE observed[a] = "bad"
    <2> DEFINE old == ~Absent(row[a]) /\ ~Ended(row[a])
    <2>1. /\ ~Absent(next) /\ ~Ended(next)
          /\ ~old => next.since = at
          /\ next.firing => at - next.since >= Delay(a) \/ (row[a].firing /\ old)
          /\ old /\ row[a].firing => next.firing
      BY <1>1, <1>6, AdvanceFacts
    <2>2. PhaseOf(next) = IF next.firing THEN "firing" ELSE "pending"
      BY <2>1 DEF PhaseOf
    <2>3. CASE ~old
      <3>1. PhaseOf(row[a]) \in {"clear", "resolving"}
        BY <2>3 DEF PhaseOf
      <3>2. next.firing <=> Delay(a) = 0
        <4>1. next = [since |-> at, firing |-> FALSE \/ at - at >= Delay(a),
                      ended |-> NoTime]
          BY <1>6, <2>3 DEF AdvanceAlert, FaultyRecord
        <4>2. (at - at >= Delay(a)) <=> Delay(a) = 0
          BY <1>1 DEF Times
        <4> HIDE DEF next
        <4>3. next.firing = (FALSE \/ at - at >= Delay(a))
          BY <4>1
        <4>4. QED
          BY <4>2, <4>3
      <3>3. PhaseOf(next) = Lifecycle!Opening(a)
        BY <2>2, <3>2 DEF Lifecycle!Opening
      <3>4. QED
        BY <1>1, <1>3, <3>1, <3>3
    <2>4. CASE old
      <3>1. PhaseOf(row[a]) = IF row[a].firing THEN "firing" ELSE "pending"
        BY <2>4 DEF PhaseOf
      <3>2. {"firing", "pending"} \subseteq Lifecycle!Phase
        BY DEF Lifecycle!Phase
      <3>3. QED
        BY <1>1, <1>2, <1>3, <2>1, <2>2, <2>4, <3>1, <3>2
    <2>5. QED
      BY <2>3, <2>4
  <1>7. QED
    BY <1>1, <1>4, <1>5, <1>6 DEF Condition

LEMMA CommitReports == IInv /\ Commit => Lifecycle!Report
  <1> SUFFICES ASSUME IInv, Commit PROVE Lifecycle!Report
    OBVIOUS
  <1>1. row' \in [Alerts -> Record] /\ am' = am
    BY CommitType DEF TypeOK, Commit
  <1>2. \A a \in Alerts : PhaseOf(row'[a]) \in Lifecycle!Phase
    BY <1>1, PhaseTypes
  <1>3. QED
    BY <1>1, <1>2, PhaseMoves DEF Lifecycle!Report

LEMMA PostDelivers == IInv /\ PostAccepted => Lifecycle!Deliver
  <1> SUFFICES ASSUME IInv, PostAccepted PROVE Lifecycle!Deliver
    OBVIOUS
  <1>1. am' = Accept(row, at) /\ row' = row
    BY DEF IInv, CopyIsRow, PostAccepted
  <1>2. ASSUME NEW a \in Alerts
        PROVE  am'[a].told = CASE PhaseOf(row[a]) = "firing"    -> "open"
                               [] PhaseOf(row[a]) = "resolving" -> "closed"
                               [] OTHER                         -> am[a].told
    <2>1. am'[a] = IF row[a].firing THEN Payload(row[a], at) ELSE am[a]
      BY <1>1 DEF Accept
    <2>2. /\ Absent(row[a]) => ~row[a].firing /\ ~Ended(row[a])
          /\ Ended(row[a]) => row[a].firing
      BY NoRecordFacts DEF IInv, WellFormed
    <2>3. CASE Ended(row[a])
      BY <2>1, <2>2, <2>3 DEF Payload, PhaseOf
    <2>4. CASE ~Ended(row[a]) /\ row[a].firing
      BY <2>1, <2>2, <2>4 DEF Payload, PhaseOf
    <2>5. CASE ~row[a].firing
      BY <2>1, <2>2, <2>5 DEF PhaseOf
    <2>6. QED
      BY <2>3, <2>4, <2>5
  <1>3. QED
    BY <1>1, <1>2 DEF Lifecycle!Deliver

LEMMA CleanDischarges == IInv /\ Clean => Lifecycle!Discharge
  <1> SUFFICES ASSUME IInv, Clean PROVE Lifecycle!Discharge
    OBVIOUS
  <1>1. row' = WithoutEnded(row) /\ am' = am /\ pc = "clean"
    BY DEF IInv, CopyIsRow, Clean
  <1>2. ASSUME NEW a \in Alerts
        PROVE  /\ PhaseOf(row[a]) = "resolving" <=> Ended(row[a])
               /\ PhaseOf(row'[a]) = IF Ended(row[a]) THEN "clear" ELSE PhaseOf(row[a])
    <2>1. Absent(row[a]) => ~Ended(row[a])
      BY NoRecordFacts DEF IInv, WellFormed
    <2>2. row'[a] = IF Ended(row[a]) THEN NoRecord ELSE row[a]
      BY <1>1 DEF WithoutEnded
    <2>3. QED
      BY <2>1, <2>2, NoRecordFacts DEF PhaseOf
  <1>3. ASSUME NEW a \in Alerts, Ended(row[a])
        PROVE  am[a].told = "closed"
    <2>1. am[a] = [told |-> "closed", end |-> row[a].ended]
      BY <1>1, <1>3 DEF IInv, CleanIsDelivered
    <2>2. QED
      BY <2>1
  <1>4. QED
    BY <1>1, <1>2, <1>3 DEF Lifecycle!Discharge

(* The watchdog implements the abstract alert lifecycle: its first state   *)
(* is an abstract first state and every step is a Report, a Deliver, a     *)
(* Discharge or invisible.                                                 *)
THEOREM Refinement == Spec => ImplementsLifecycle
  <1>1. Init => Lifecycle!Init
    <2> SUFFICES ASSUME Init PROVE Lifecycle!Init
      OBVIOUS
    <2>1. \A a \in Alerts : PhaseOf(row[a]) = "clear"
      BY NoRecordFacts DEF Init, NoState, PhaseOf
    <2>2. \A a \in Alerts : am[a].told = "nothing"
      BY DEF Init, NoMessage
    <2>3. QED
      BY <2>1, <2>2 DEF Lifecycle!Init
  <1>2. IInv /\ [Next]_vars => [Lifecycle!Next]_(Lifecycle!vars)
    <2> SUFFICES ASSUME IInv, [Next]_vars PROVE [Lifecycle!Next]_(Lifecycle!vars)
      OBVIOUS
    <2>1. CASE Commit
      BY <2>1, CommitReports DEF Lifecycle!Next
    <2>2. CASE PostAccepted
      BY <2>2, PostDelivers DEF Lifecycle!Next
    <2>3. CASE Clean
      BY <2>3, CleanDischarges DEF Lifecycle!Next
    <2>4. CASE row' = row /\ am' = am
      BY <2>4 DEF Lifecycle!vars
    <2>5. Commit \/ Clean \/ PostAccepted \/ (row' = row /\ am' = am)
      BY OnlyPostTells, OnlyTransactionsWrite
    <2>6. QED
      BY <2>1, <2>2, <2>3, <2>4, <2>5
  <1>3. QED
    BY <1>1, <1>2, Invariance, PTL DEF Spec, ImplementsLifecycle, Lifecycle!Spec
=============================================================================
