----------------------------- MODULE Snapshots ------------------------------
(***************************************************************************)
(* The daemon_snapshots of one Mac and what the status makes of them: the  *)
(* serving shares (src/fleet/queries.py), the health badge (health.py) and *)
(* the band of the card (card.py).  A snapshot is stamped when its tick    *)
(* starts and stored when its SSH read returns, if it does; answers are    *)
(* computed at any moment, from whatever is stored.  Times are in units of *)
(* the shortest distance the limits below tell apart.                      *)
(***************************************************************************)
EXTENDS Integers, SequencesExt

CONSTANTS
    Models,       \* the models a daemon serves
    NoModel,      \* current_model of an idle daemon
    Readings,     \* what a read of the daemon may find
    Freshness,    \* daemon_freshness_seconds
    DownAfter, SessionAge, WarmFlips, FrozenFor, Hour,   \* health.py
    RecentTraffic,                                       \* card.py
    OutageGap, Windows,                                  \* queries.py
    Lag,          \* bound on the time a read takes
    MaxTime       \* bound on the clock

ASSUME LimitsAssumption ==
    /\ {Freshness, DownAfter, SessionAge, WarmFlips, FrozenFor, Hour,
        RecentTraffic, OutageGap, Lag, MaxTime} \subseteq Nat
    /\ Windows \subseteq Nat \ {0} /\ Windows # {} /\ IsFiniteSet(Windows)
    /\ Lag <= Freshness /\ Freshness <= DownAfter
    /\ RecentTraffic <= SessionAge
ASSUME ReadingsAssumption ==
    /\ IsFiniteSet(Models) /\ NoModel \notin Models
    /\ Readings \subseteq [model : Models \cup {NoModel}, warm : SUBSET Models,
                           target : Models \cup {NoModel}, active : BOOLEAN,
                           fresh : BOOLEAN, trusted : BOOLEAN,
                           serves : BOOLEAN, restarts : BOOLEAN]

VARIABLES clock,      \* time.time()
          stamp,      \* `now' of the tick that is reading, or NoTime
          session,    \* the daemon's started_at and requests_served
          snaps       \* daemon_snapshots, by observed_at

vars == <<clock, stamp, session, snaps>>

NoTime == -1
Times == 0 .. MaxTime

Session == [started : Times, served : 0 .. MaxTime + 1]

\* A row of daemon_snapshots.
Snapshot == [at : Times, started : Times, served : 0 .. MaxTime + 1,
             model : Models \cup {NoModel}, warm : SUBSET Models,
             target : Models \cup {NoModel}, active : BOOLEAN, fresh : BOOLEAN,
             trusted : BOOLEAN]

TypeOK == /\ clock \in Times
          /\ stamp \in Times \cup {NoTime}
          /\ session \in Session
          /\ snaps \in Seq(Snapshot)
          /\ \A i \in 2 .. Len(snaps) : snaps[i - 1].at < snaps[i].at

Init == /\ clock = 0
        /\ stamp = NoTime
        /\ session = [started |-> 0, served |-> 0]
        /\ snaps = <<>>

Advance == /\ clock < MaxTime
           /\ stamp # NoTime => clock - stamp < Lag
           /\ clock' = clock + 1
           /\ UNCHANGED <<stamp, session, snaps>>

\* Mutant of StartRead: the stamp of the read before may come again.
StartReadSame == /\ stamp = NoTime
                 /\ stamp' = clock
                 /\ UNCHANGED <<clock, session, snaps>>

StartRead == /\ stamp = NoTime
             /\ snaps # <<>> => clock > Last(snaps).at
             /\ stamp' = clock
             /\ UNCHANGED <<clock, session, snaps>>

\* What the daemon's session has come to since the last read.
NextSession(reading) ==
    LET served == IF reading.serves THEN 1 ELSE 0
    IN  IF reading.restarts THEN [started |-> clock, served |-> served]
        ELSE [session EXCEPT !.served = @ + served]

\* What is stored of a reading.
Row(at, daemon, reading) ==
    [at |-> at, started |-> daemon.started, served |-> daemon.served,
     model |-> reading.model, warm |-> reading.warm, target |-> reading.target,
     active |-> reading.active, fresh |-> reading.fresh, trusted |-> reading.trusted]

Read(reading) ==
    /\ stamp # NoTime
    /\ session' = NextSession(reading)
    /\ snaps' = Append(snaps, Row(stamp, session', reading))
    /\ stamp' = NoTime
    /\ UNCHANGED clock

\* SSH or PostgreSQL failed, or the process was restarted.
ReadFails == /\ stamp # NoTime
             /\ stamp' = NoTime
             /\ UNCHANGED <<clock, session, snaps>>

Next == \/ Advance \/ StartRead \/ ReadFails
        \/ \E reading \in Readings : Read(reading)

Spec == Init /\ [][Next]_vars

-----------------------------------------------------------------------------
(* Serving shares.  They are sums of seconds here, before the division by  *)
(* the window.                                                             *)

Serving(row, m) == row.model = m /\ row.active /\ row.fresh

Later(a, b) == IF a > b THEN a ELSE b

(* How long the state of the i-th row counts: until the next one, or now.  *)
Held(rows, since, m, i) ==
    LET next == IF i < Len(rows) THEN rows[i + 1].at ELSE clock
    IN  IF Serving(rows[i], m) /\ next - rows[i].at <= OutageGap
        THEN Later(0, next - Later(rows[i].at, since)) ELSE 0

SumHeld(rows, since, m) ==
    FoldLeft(LAMBDA total, i : total + Held(rows, since, m, i), 0,
             [i \in 1 .. Len(rows) |-> i])

\* How many rows are at or before a time.
Bisect(rows, time) == Cardinality({i \in 1 .. Len(rows) : rows[i].at <= time})

\* Mutant of InWindow: the rows before the window are dropped.
InWindowOnly(rows, since) == SubSeq(rows, Bisect(rows, since) + 1, Len(rows))

(* The rows after `since', behind the latest one at or before it.          *)
InWindow(rows, since) == SubSeq(rows, Later(1, Bisect(rows, since)), Len(rows))

Longest == CHOOSE w \in Windows : \A v \in Windows : v <= w

(* The named windows are cut from one bounded history.                     *)
History == InWindow(snaps, clock - Longest)

NamedSeconds(w, m) == SumHeld(InWindow(History, clock - w), clock - w, m)

LifetimeSeconds(m) ==
    IF snaps = <<>> THEN 0 ELSE SumHeld(snaps, Head(snaps).at, m)

-----------------------------------------------------------------------------
(* The health badge.                                                       *)

Stale(row) == ~ row.fresh \/ clock - row.at > Freshness

Badge(state, since) == [state |-> state, since |-> since]

FreshTimes == {row.at : row \in {r \in ToSet(snaps) : r.fresh}}

\* Mutant of DownSince: it is the latest read, fresh or not.
DownSinceLatest == Last(snaps).at

DownSince == IF FreshTimes = {} THEN Head(snaps).at ELSE Max(FreshTimes)

IsDown == /\ snaps # <<>> /\ Stale(Last(snaps))
          /\ clock - DownSince > DownAfter

\* Mutant of Dead: the age of the session is not looked at.
DeadYoung(network) ==
    LET row == Last(snaps)
    IN  row.trusted /\ row.served = 0 /\ network

(* `network' stands for what _DEAD_SQL finds: demand for an advertised     *)
(* model, and another Mac that served, since the session started.          *)
Dead(network) ==
    LET row == Last(snaps)
    IN  /\ row.trusted /\ row.served = 0 /\ network
        /\ clock - row.started > SessionAge

\* The rows from a time on.
RowsFrom(time) == SubSeq(snaps, Bisect(snaps, time - 1) + 1, Len(snaps))

Recent == RowsFrom(clock - Hour)

NoFlips == [warm |-> {}, seen |-> FALSE, flips |-> 0, since |-> NoTime]

\* Mutant of StepFlips: the last crossing is kept, not the first.
StepFlipsLast(count, row) ==
    LET flips == count.flips + (IF count.seen /\ row.warm # count.warm THEN 1 ELSE 0)
    IN  [warm |-> row.warm, seen |-> TRUE, flips |-> flips,
         since |-> IF flips > count.flips /\ flips > WarmFlips THEN row.at ELSE count.since]

StepFlips(count, row) ==
    LET flips == count.flips + (IF count.seen /\ row.warm # count.warm THEN 1 ELSE 0)
    IN  [warm |-> row.warm, seen |-> TRUE, flips |-> flips,
         since |-> IF count.since = NoTime /\ flips > WarmFlips THEN row.at ELSE count.since]

ThrashSince == FoldLeft(StepFlips, NoFlips, Recent).since

NoStreak == [start |-> NoTime, served |-> NoTime, found |-> NoTime]

\* Mutant of StepFrozen: an idle row does not end the streak.
StepFrozenOn(streak, row) ==
    LET start == IF row.active /\ (streak.start = NoTime \/ row.served # streak.served)
                 THEN row.at ELSE streak.start
    IN  [start |-> start, served |-> IF row.active THEN row.served ELSE streak.served,
         found |-> IF start # NoTime /\ row.at - start > FrozenFor
                   THEN start ELSE streak.found]

StepFrozen(streak, row) ==
    LET start == CASE ~ row.active -> NoTime
                   [] row.active /\ (streak.start = NoTime \/ row.served # streak.served)
                        -> row.at
                   [] OTHER -> streak.start
    IN  [start |-> start, served |-> row.served,
         found |-> IF start # NoTime /\ row.at - start > FrozenFor
                   THEN start ELSE streak.found]

FrozenSince ==
    LET streak == FoldLeft(StepFrozen, NoStreak, Recent)
    IN  IF streak.start # NoTime /\ clock - streak.start > FrozenFor
        THEN streak.start ELSE streak.found

Faults(network, otherwise) ==
    LET thrash == ThrashSince
        frozen == FrozenSince
    IN  CASE Dead(network) -> Badge("DEAD_SESSION", Last(snaps).started)
          [] ~ Dead(network) /\ thrash # NoTime -> Badge("THRASH", thrash)
          [] OTHER -> IF frozen # NoTime THEN Badge("THRASH", frozen) ELSE otherwise

Health(network) ==
    IF snaps = <<>> THEN Badge("STALE", clock)
    ELSE IF IsDown THEN Badge("DAEMON_DOWN", DownSince)
    ELSE Faults(network, IF Stale(Last(snaps)) THEN Badge("STALE", DownSince)
                         ELSE Badge("HEALTHY", Last(snaps).at))

-----------------------------------------------------------------------------
(* The band of the card.                                                   *)

\* Rows whose counter rose within its session; a session starts from 0.
Rises ==
    LET before(i) == IF i > 1 /\ snaps[i - 1].started = snaps[i].started
                     THEN snaps[i - 1].served ELSE 0
    IN  {i \in 1 .. Len(snaps) : snaps[i].served > before(i) /\ snaps[i].model # NoModel}

ServedRecently == \/ Last(snaps).active
                  \/ \E i \in Rises : clock - snaps[i].at <= RecentTraffic

Band == CASE snaps = <<>> -> "OFF"
          [] snaps # <<>> /\ Stale(Last(snaps)) -> "STALE"
          [] OTHER -> IF ~ Last(snaps).trusted THEN "ATTESTING"
                      ELSE IF ServedRecently THEN "EARNING" ELSE "TRUSTED"

-----------------------------------------------------------------------------
(* Properties.                                                             *)

(* What the docstring of _serving_shares says, moment by moment: the row   *)
(* in force is the latest one so far, it counts when it is serving, and    *)
(* when the next row, or now, is not an outage away.                       *)
ServesAt(m, t) ==
    \E i \in 1 .. Len(snaps) :
        LET next == IF i < Len(snaps) THEN snaps[i + 1].at ELSE clock
        IN  /\ snaps[i].at <= t /\ t < next
            /\ Serving(snaps[i], m)
            /\ next - snaps[i].at <= OutageGap

Moments(m, since) == Cardinality({t \in since .. clock - 1 : ServesAt(m, t)})

(* Every window counts exactly the moments in which the model served:      *)
(* nothing is lost or doubled at the cut of a window, at the cut of the    *)
(* bounded history, at an outage or at now, and the lifetime share, which  *)
(* another statement computes, is that of the window since the first row.  *)
ServingIsExact ==
    \A m \in Models :
        /\ \A w \in Windows : NamedSeconds(w, m) = Moments(m, clock - w)
        /\ LifetimeSeconds(m) = IF snaps = <<>> THEN 0 ELSE Moments(m, Head(snaps).at)

(* Rows i to j show an active daemon whose counter stands still, and i     *)
(* begins the streak.                                                      *)
Streak(rows, i, j) ==
    /\ \A k \in i .. j : rows[k].active /\ rows[k].served = rows[i].served
    /\ i > 1 => ~ (rows[i - 1].active /\ rows[i - 1].served = rows[i].served)

TooLong(rows, i) ==
    \E j \in i .. Len(rows) :
        /\ Streak(rows, i, j)
        /\ \/ rows[j].at - rows[i].at > FrozenFor
           \/ j = Len(rows) /\ clock - rows[i].at > FrozenFor

(* The frozen daemon is found exactly when a streak in the last hour was   *)
(* longer than allowed, and since the start of the latest such streak,     *)
(* however streaks, idle rows and restarts follow each other.              *)
FrozenIsExact ==
    LET rows   == Recent
        starts == {i \in 1 .. Len(rows) : TooLong(rows, i)}
    IN  FrozenSince = IF starts = {} THEN NoTime
                      ELSE rows[CHOOSE i \in starts : \A j \in starts : j <= i].at

(* A Mac that thrashes does so since the change of the warm set that made  *)
(* too many of those in the last hour, the first that did: an earlier      *)
(* origin is forgotten as the hour slides, but no later change replaces it.*)
ThrashIsExact ==
    LET changes   == {i \in 2 .. Len(Recent) : Recent[i].warm # Recent[i - 1].warm}
        crossings == {i \in changes : Cardinality({j \in changes : j < i}) = WarmFlips}
    IN  IF Cardinality(changes) <= WarmFlips THEN ThrashSince = NoTime
        ELSE \A i \in crossings : ThrashSince = Recent[i].at

(* DAEMON_DOWN says, whatever came before, that no fresh state was read in *)
(* the last DownAfter, of a Mac that has been known for longer.            *)
DownIsExact ==
    \A network \in BOOLEAN :
        Health(network).state = "DAEMON_DOWN" <=>
            /\ snaps # <<>>
            /\ clock - Head(snaps).at > DownAfter
            /\ \A i \in 1 .. Len(snaps) : snaps[i].fresh => clock - snaps[i].at > DownAfter

(* Every fault the badge can name is there exactly when the history says   *)
(* so, and since the time it says.                                         *)
HealthIsExact == FrozenIsExact /\ ThrashIsExact /\ DownIsExact

(* The badge and the band, computed apart, do not contradict each other: a *)
(* stale badge comes with a stale band, and a dead session is not shown as *)
(* earning on the strength of an earlier session's requests.               *)
BadgeAndBandAgree ==
    \A network \in BOOLEAN :
        LET state == Health(network).state
        IN  /\ state \in {"DAEMON_DOWN", "STALE"} => Band \in {"STALE", "OFF"}
            /\ state = "HEALTHY" => Band \in {"EARNING", "TRUSTED", "ATTESTING"}
            /\ state = "DEAD_SESSION" /\ Band = "EARNING" => Last(snaps).active
=============================================================================
