------------------------------ MODULE Sessions ------------------------------
(***************************************************************************)
(* What else is read from the daemon_snapshots of a Mac: how long its      *)
(* sessions took to their first request (src/fleet/routability.py), and    *)
(* for how long a model was allocated, the evidence that                   *)
(* src/fleet/earnings_shadow.py publishes to it.  The evidence's payouts   *)
(* are in module Identities; its average pressure is left out.             *)
(***************************************************************************)
EXTENDS Snapshots

CONSTANTS
    LastSessions,  \* the LIMIT of _switch_cost_sessions
    MinSessions,   \* MIN_SWITCH_COST_SESSIONS
    EvidenceSpan,  \* earnings_shadow.WINDOW
    MaxInterval    \* the longest distance of two samples that counts

ASSUME EvidenceAssumption ==
    /\ {LastSessions, MinSessions, EvidenceSpan, MaxInterval} \subseteq Nat
    /\ 0 < MinSessions /\ MinSessions <= LastSessions

-----------------------------------------------------------------------------
(* Sessions.                                                               *)

\* Mutant of Delays: the latest sample of a session is taken.
DelaysToLatest ==
    LET served == {row \in ToSet(snaps) : row.served > 0}
    IN  [s \in {row.started : row \in served} |->
            Max({row.at : row \in {r \in served : r.started = s}}) - s]

(* From the start of a session to its first sample that shows a request,   *)
(* for those that served: a session still waiting drops out.               *)
(* session_timing computes the same of the running one.                    *)
Delays ==
    LET served == {row \in ToSet(snaps) : row.served > 0}
    IN  [s \in {row.started : row \in served} |->
            Min({row.at : row \in {r \in served : r.started = s}}) - s]

\* The delays of the latest sessions, by length.
LatestDelays(delays) ==
    LET latest == {s \in DOMAIN delays :
                      Cardinality({t \in DOMAIN delays : t > s}) < LastSessions}
        order  == SetToSeq(latest)
    IN  SortSeq([i \in 1 .. Cardinality(latest) |-> delays[order[i]]], <)

\* percentile_cont(0.5), twice: the middle delay, or the sum of both.
TwiceMedian(delays) ==
    LET n == Len(delays) IN delays[(n + 1) \div 2] + delays[(n + 2) \div 2]

NoCost == -1

SwitchCost ==
    LET latest == LatestDelays(Delays)
    IN  IF Len(latest) < MinSessions THEN NoCost ELSE TwiceMedian(latest)

-----------------------------------------------------------------------------
(* Allocation.                                                             *)

\* The one warm model of a fresh sample, else the manager's target.
AllocatedModel(row) ==
    IF row.fresh /\ Cardinality(row.warm) = 1 THEN CHOOSE m \in row.warm : TRUE
    ELSE row.target

Observations == RowsFrom(clock - EvidenceSpan)

\* Mutant of Interval: an outage counts too.
IntervalAll(rows, i) == rows[i + 1].at - rows[i].at

\* What the time from one sample to the next counts for.
Interval(rows, i) ==
    LET seconds == rows[i + 1].at - rows[i].at
    IN  IF seconds \in 1 .. MaxInterval THEN seconds ELSE 0

Allocated(m) ==
    LET rows == Observations
    IN  {i \in 1 .. Len(rows) - 1 : AllocatedModel(rows[i]) = m}

SecondsOf(samples) ==
    LET rows == Observations
    IN  FoldSet(LAMBDA i, total : total + Interval(rows, i), 0, samples)

AllocatedSeconds(m) == SecondsOf(Allocated(m))

WarmSeconds(m) ==
    LET rows == Observations
    IN  SecondsOf({i \in Allocated(m) : rows[i].fresh /\ rows[i].warm = {m}})

-----------------------------------------------------------------------------
(* Properties.                                                             *)

(* The measured switch cost stays what it is until a session serves its    *)
(* first request: a session's delay is complete at that moment, whatever   *)
(* later samples, sessions that wait and restarts follow.                  *)
SwitchCostSettles ==
    [][SwitchCost' # SwitchCost => DOMAIN Delays' # DOMAIN Delays]_vars

(* The samples around a moment, both in the span, tell the model it is     *)
(* allocated to, unless they are an outage apart.                          *)
AllocatedAt(m, t, warm) ==
    \E i \in 1 .. Len(snaps) - 1 :
        /\ clock - EvidenceSpan <= snaps[i].at
        /\ snaps[i].at <= t /\ t < snaps[i + 1].at
        /\ snaps[i + 1].at - snaps[i].at <= MaxInterval
        /\ IF snaps[i].fresh /\ \E n \in Models : snaps[i].warm = {n}
           THEN snaps[i].warm = {m}
           ELSE ~ warm /\ snaps[i].target = m

(* The evidence counts every moment of the span once, for the model it     *)
(* was allocated to, and as warm when only that model was: nothing twice   *)
(* at its ends, at an outage or when models change, and no more than the   *)
(* span in all.                                                            *)
EvidenceIsExact ==
    LET moments(m, warm) == Cardinality({t \in Times : AllocatedAt(m, t, warm)})
        seconds == [m \in Models |-> AllocatedSeconds(m)]
    IN  /\ \A m \in Models : /\ seconds[m] = moments(m, FALSE)
                             /\ WarmSeconds(m) = moments(m, TRUE)
        /\ FoldSet(LAMBDA m, total : total + seconds[m], 0, Models) <= EvidenceSpan
=============================================================================
