------------------------------- MODULE Watch -------------------------------
(***************************************************************************)
(* The watchdog loop of one Mac (src/fleet/watch.py): an SSH probe, one    *)
(* transaction that moves the stored alert records, one POST to            *)
(* Alertmanager, one transaction that drops the delivered recoveries.      *)
(* Every step may fail, the answer of a step that succeeded may be lost,   *)
(* and the process may be killed between any two of them; only `row'       *)
(* survives.  `sick' is a history variable: no action reads it.            *)
(***************************************************************************)
EXTENDS Integers

CONSTANTS Alerts,   \* the alert names under observation
          Grace,    \* how long a provider or manager fault lasts before it pages
          Hold,     \* how long Alertmanager holds a page that is not repeated
          MaxTime   \* bound on the clock

AllAlerts == {"provider", "manager", "switch"}

ASSUME AlertsAssumption == Alerts \subseteq AllAlerts
ASSUME TimesAssumption == /\ Grace \in Nat
                          /\ Hold \in Nat \ {0}
                          /\ MaxTime \in Nat

VARIABLES
    clock,     \* time.time()
    row,       \* watch_state of the Mac in PostgreSQL: one record per alert
    pc,        \* where the tick is
    observed,  \* conditions(...) of the last probe
    at,        \* the tick's `now'
    state,     \* the tick's `state'
    am,        \* per alert, the last message Alertmanager accepted
    sick       \* per alert, the stamp of the first committed fault since the
               \* last committed healthy reading, or NoTime

vars == <<clock, row, pc, observed, at, state, am, sick>>

-----------------------------------------------------------------------------
(* What one probe says.                                                    *)

Condition == {"ok", "bad", "unknown"}

\* warm is valid only as a list of strings; "target" is exactly the model of
\* the pending switch.  pending "failed" stands for a recorded command_error
\* or a blocked restart.
Readings == [provider : BOOLEAN, manager : BOOLEAN,
             warm : {"invalid", "other", "target"},
             pending : {"none", "started", "failed"}]

SwitchCondition(status) ==
    LET recovered == /\ status.provider
                     /\ status.pending # "none"
                     /\ status.warm = "target"
        failed    == status.pending = "failed" /\ ~recovered
    IN  IF failed THEN "bad"
        ELSE IF status.manager \/ recovered THEN "ok" ELSE "unknown"

UpOrBad(up) == IF up THEN "ok" ELSE "bad"

ConditionsOf(status) ==
    [a \in Alerts |->
        CASE a = "provider" -> UpOrBad(status.provider)
          [] a = "manager"  -> UpOrBad(status.manager)
          [] a = "switch"   -> IF status.warm = "invalid" THEN "unknown"
                               ELSE SwitchCondition(status)]

\* A probe that failed, timed out or printed anything malformed.
Unreachable == [a \in Alerts |-> IF a = "provider" THEN "bad" ELSE "unknown"]

-----------------------------------------------------------------------------
(* The stored records.                                                     *)

NoTime == -1
Times  == 0 .. MaxTime

Record == [since : Times \cup {NoTime}, firing : BOOLEAN,
           ended : Times \cup {NoTime}]

NoRecord == [since |-> NoTime, firing |-> FALSE, ended |-> NoTime]
NoState  == [a \in Alerts |-> NoRecord]

Absent(item) == item.since = NoTime
Ended(item)  == item.ended # NoTime

Delay(a) == IF a = "switch" THEN 0 ELSE Grace

\* Mutants of HealthyRecord: a healthy reading restamps the end, leaves a
\* pending record in place, or drops a page that fired.
HealthyRecordRestamps(item, now) ==
    IF ~item.firing THEN NoRecord ELSE [item EXCEPT !.ended = now]

HealthyRecordKeepsPending(item, now) ==
    IF ~item.firing \/ Ended(item) THEN item ELSE [item EXCEPT !.ended = now]

HealthyRecordDrops(item, now) == NoRecord

HealthyRecord(item, now) ==
    IF ~item.firing THEN NoRecord
    ELSE IF Ended(item) THEN item
    ELSE [item EXCEPT !.ended = now]

\* Mutant of FaultyRecord: a fault after a recovery goes on with the old record.
FaultyRecordContinues(item, delay, now) ==
    LET since == IF Absent(item) THEN now ELSE item.since
    IN  [since |-> since, firing |-> item.firing \/ now - since >= delay,
         ended |-> NoTime]

FaultyRecord(item, delay, now) ==
    LET since == IF Absent(item) \/ Ended(item) THEN now ELSE item.since
        known == IF Absent(item) \/ Ended(item) THEN FALSE ELSE item.firing
    IN  [since |-> since, firing |-> known \/ now - since >= delay,
         ended |-> NoTime]

\* Mutant of AdvanceAlert: an unknown condition is taken for a healthy one.
AdvanceAlertFalsy(item, condition, delay, now) ==
    IF condition = "bad" THEN FaultyRecord(item, delay, now)
    ELSE HealthyRecord(item, now)

AdvanceAlert(item, condition, delay, now) ==
    CASE condition = "ok"  -> HealthyRecord(item, now)
      [] condition = "bad" -> FaultyRecord(item, delay, now)
      [] OTHER             -> item

Transition(saved, conditions, now) ==
    [a \in Alerts |-> AdvanceAlert(saved[a], conditions[a], Delay(a), now)]

WithoutEnded(items) ==
    [a \in Alerts |-> IF Ended(items[a]) THEN NoRecord ELSE items[a]]

\* Mutant of Paging: ended pages are not sent.
PagingOpenOnly(items) == {a \in Alerts : items[a].firing /\ ~Ended(items[a])}

Paging(items) == {a \in Alerts : items[a].firing}

-----------------------------------------------------------------------------
(* What Alertmanager holds: a page is open until its end passes.           *)

NoMessage == [told |-> "nothing", end |-> 0]

Message == [told : {"nothing", "open", "closed"}, end : 0 .. MaxTime + Hold]

\* Mutant of Payload: the end of a page counts from its start.
PayloadFixedEnd(item, now) ==
    IF Ended(item) THEN [told |-> "closed", end |-> item.ended]
    ELSE [told |-> "open", end |-> item.since + Hold]

Payload(item, now) ==
    IF Ended(item) THEN [told |-> "closed", end |-> item.ended]
    ELSE [told |-> "open", end |-> now + Hold]

Accept(items, now) ==
    [a \in Alerts |-> IF items[a].firing THEN Payload(items[a], now) ELSE am[a]]

-----------------------------------------------------------------------------

TypeOK == /\ clock \in Times
          /\ row \in [Alerts -> Record]
          /\ pc \in {"idle", "read", "stamped", "post", "clean"}
          /\ observed \in [Alerts -> Condition]
          /\ at \in Times
          /\ state \in [Alerts -> Record]
          /\ am \in [Alerts -> Message]
          /\ sick \in [Alerts -> Times \cup {NoTime}]

Init == /\ clock = 0
        /\ row = NoState
        /\ pc = "idle"
        /\ observed = [a \in Alerts |-> "unknown"]
        /\ at = 0
        /\ state = NoState
        /\ am = [a \in Alerts |-> NoMessage]
        /\ sick = [a \in Alerts |-> NoTime]

(* Time passes in the wait between ticks and inside every step.            *)
Advance == /\ clock < MaxTime
           /\ clock' = clock + 1
           /\ UNCHANGED <<row, pc, observed, at, state, am, sick>>

Read(conditions) == /\ pc = "idle"
                    /\ observed' = conditions
                    /\ pc' = "read"
                    /\ UNCHANGED <<clock, row, at, state, am, sick>>

ProbeAnswers == \E status \in Readings : Read(ConditionsOf(status))

ProbeFails == Read(Unreachable)

Stamp == /\ pc = "read"
         /\ at' = clock
         /\ pc' = "stamped"
         /\ UNCHANGED <<clock, row, observed, state, am, sick>>

(* The tick ends, on success or on an exception that run_forever logs; its *)
(* local variables are gone.                                               *)
EndTick == /\ pc' = "idle"
           /\ at' = 0
           /\ state' = NoState

NextSick == [a \in Alerts |->
               CASE observed[a] = "ok" -> NoTime
                 [] observed[a] = "bad" /\ sick[a] = NoTime -> at
                 [] OTHER -> sick[a]]

(* The first transaction is written; with nothing to send the tick ends.   *)
Commit == /\ pc = "stamped"
          /\ row' = Transition(row, observed, at)
          /\ sick' = NextSick
          /\ IF Paging(row') = {}
             THEN EndTick
             ELSE /\ state' = row'
                  /\ pc' = "post"
                  /\ UNCHANGED at
          /\ UNCHANGED <<clock, observed, am>>

PostAccepted == /\ pc = "post"
                /\ am' = Accept(state, at)
                /\ pc' = "clean"
                /\ UNCHANGED <<clock, row, observed, at, state, sick>>

\* Mutant of Clean: the recoveries are dropped before the POST.
CleanEarly == /\ pc \in {"post", "clean"}
              /\ row' = WithoutEnded(state)
              /\ EndTick
              /\ UNCHANGED <<clock, observed, am, sick>>

Clean == /\ pc = "clean"
         /\ row' = WithoutEnded(state)
         /\ EndTick
         /\ UNCHANGED <<clock, observed, am, sick>>

(* A transaction rolled back, a refused POST, an answer lost after its     *)
(* write or message took effect, or the process killed and started again:  *)
(* the tick ends where it stood.                                           *)
Abandon == /\ pc # "idle"
           /\ EndTick
           /\ UNCHANGED <<clock, row, observed, am, sick>>

Next == \/ Advance
        \/ ProbeAnswers \/ ProbeFails
        \/ Stamp
        \/ Commit
        \/ PostAccepted
        \/ Clean
        \/ Abandon

Spec == Init /\ [][Next]_vars

(* run_forever never stops checking, and SSH, PostgreSQL and Alertmanager  *)
(* do not fail for ever: a step tried again and again succeeds in the end. *)
Fairness == /\ WF_vars(ProbeAnswers \/ ProbeFails)
            /\ SF_vars(Stamp)
            /\ SF_vars(Commit)
            /\ SF_vars(PostAccepted)
            /\ SF_vars(Clean)

FairSpec == Spec /\ Fairness

-----------------------------------------------------------------------------
(* Properties.                                                             *)

(* The stored record is the memory of the current spell: while an alert is *)
(* open its `since' is the stamp of the first fault committed since the    *)
(* last healthy reading, across failed probes, failed ticks and restarts;  *)
(* an absent or ended record means no fault was committed after a recovery *)
(* (_advance_alert and the read-modify-write of tick).                     *)
RowRemembersSpell ==
    \A a \in Alerts :
        /\ Absent(row[a]) \/ Ended(row[a]) => sick[a] = NoTime
        /\ ~Absent(row[a]) /\ ~Ended(row[a]) => row[a].since = sick[a]

(* No premature page: whenever Alertmanager takes a page for an alert, the *)
(* committed readings up to that tick hold a fault unbroken by a healthy   *)
(* one for at least the alert's grace ("unavailable for five minutes").    *)
PageEarned ==
    [][\A a \in Alerts :
          am'[a] # am[a] /\ am'[a].told = "open"
             => sick[a] # NoTime /\ at - sick[a] >= Delay(a)]_vars

(* No false recovery: Alertmanager is told that an alert ended only while  *)
(* the latest committed reading of it is healthy, so an unreachable Mac or *)
(* an unreadable manager never resolves a manager or switch page (the      *)
(* None of conditions: "retain an existing switch alert until a good       *)
(* read").                                                                 *)
RecoveryEarned ==
    [][\A a \in Alerts :
          am'[a] # am[a] /\ am'[a].told = "closed" => sick[a] = NoTime]_vars

(* A recovery is stamped once: retries of its delivery, in this process or *)
(* after a restart, repeat the first end (setdefault in _advance_alert).   *)
EndIsStable ==
    [][\A a \in Alerts :
          Ended(row[a]) /\ Ended(row'[a]) => row'[a] = row[a]]_vars

(* A page that fired leaves the database only after Alertmanager took the  *)
(* end stored in it, or because a new spell began: no failed delivery, no  *)
(* crash and no clean-up of another alert loses it.                        *)
PageOutlivesDelivery ==
    [][\A a \in Alerts :
          row[a].firing /\ row'[a].since # row[a].since
             => \/ am[a] = [told |-> "closed", end |-> row[a].ended]
                \/ sick[a] = NoTime /\ sick'[a] # NoTime]_vars

(* The comment of tick, read as it stands: "Keep resolved records until    *)
(* delivery succeeds, including across restarts."                          *)
ResolvedKeptUntilDelivered ==
    [][\A a \in Alerts :
          Ended(row[a]) /\ row'[a] # row[a]
             => am[a] = [told |-> "closed", end |-> row[a].ended]]_vars

(* When every later probe reads an alert healthy, its record is closed,    *)
(* delivered and gone in the end, whatever failed before.                  *)
RecoveryDelivered ==
    \A a \in Alerts : <>[](observed[a] = "ok") => <>[](row[a] = NoRecord)

(* An outage that outlasts its grace is paged, and while it lasts the page *)
(* is repeated with an end ahead of the clock, so Alertmanager does not    *)
(* close it (the clock stops at MaxTime, so no repeat comes too late).     *)
OutagePaged ==
    \A a \in Alerts :
        <>[](observed[a] = "bad" /\ sick[a] # NoTime /\ clock - sick[a] >= Delay(a))
            => <>[](am[a].told = "open" /\ am[a].end > clock)

-----------------------------------------------------------------------------
(* The phase AlertLifecycle sees of a stored record.                       *)
PhaseOf(item) == CASE Absent(item)                 -> "clear"
                   [] ~Absent(item) /\ Ended(item) -> "resolving"
                   [] OTHER -> IF item.firing THEN "firing" ELSE "pending"

Lifecycle == INSTANCE AlertLifecycle WITH
                 Immediate <- {a \in Alerts : Delay(a) = 0},
                 phase <- [a \in Alerts |-> PhaseOf(row[a])],
                 told  <- [a \in Alerts |-> am[a].told]

(* Every step of the watchdog is a step of AlertLifecycle or none: a       *)
(* firing alert never vanishes, one check moves an alert by one phase and  *)
(* one message carries every open and every ended page.                    *)
ImplementsLifecycle == Lifecycle!Spec
=============================================================================
