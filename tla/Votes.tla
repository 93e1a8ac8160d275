------------------------------- MODULE Votes --------------------------------
(***************************************************************************)
(* Which Mac a payout is counted for when the attestation service names no *)
(* provider for it: src/fleet/attribution.py compares the request counters *)
(* of the snapshots around the payout.  Every Mac copies the same ledger,  *)
(* so the payout itself does not tell who served it.                       *)
(*                                                                         *)
(* A provider_hash stands for a session of one Mac's daemon.  A snapshot   *)
(* carries the time its tick started; the counter in it is read later.     *)
(***************************************************************************)
EXTENDS Integers, FiniteSets, Sequences

CONSTANTS
    Hosts,        \* the Macs
    Day,          \* how far back payouts are looked at
    Lag,          \* bound on the time a read takes
    MaxSessions,  \* bound on the sessions of a Mac
    MaxPayouts,   \* bound on the payouts
    MaxTime       \* bound on the clock

ASSUME BoundsAssumption ==
    /\ {Day, Lag, MaxPayouts, MaxTime} \subseteq Nat /\ MaxSessions \in Nat \ {0}
    /\ Hosts # {} /\ IsFiniteSet(Hosts)

VARIABLES clock,    \* time.time()
          session,  \* per Mac, its daemon's started_at and requests_served
          reading,  \* per Mac, `now' of the tick that is reading, or NoTime
          snaps,    \* per Mac, its daemon_snapshots by observed_at
          payouts   \* the ledger every Mac holds

vars == <<clock, session, reading, snaps, payouts>>

NoTime == -1
Nobody == "nobody"
Times == 0 .. MaxTime

Hash == [host : Hosts, started : 1 .. MaxSessions]
Payout == [hash : Hash, nth : 1 .. MaxPayouts, at : Times]
Counter == [started : 1 .. MaxSessions, served : 0 .. MaxPayouts]
Snapshot == [at : Times, started : 1 .. MaxSessions, served : 0 .. MaxPayouts]

TypeOK == /\ clock \in Times
          /\ session \in [Hosts -> Counter]
          /\ reading \in [Hosts -> Times \cup {NoTime}]
          /\ snaps \in [Hosts -> Seq(Snapshot)]
          /\ \A h \in Hosts : \A i \in 2 .. Len(snaps[h]) :
                snaps[h][i - 1].at < snaps[h][i].at
          /\ payouts \subseteq Payout

Init == /\ clock = 0
        /\ session = [h \in Hosts |-> [started |-> 1, served |-> 0]]
        /\ reading = [h \in Hosts |-> NoTime]
        /\ snaps = [h \in Hosts |-> <<>>]
        /\ payouts = {}

Advance == /\ clock < MaxTime
           /\ \A h \in Hosts : reading[h] # NoTime => clock - reading[h] < Lag
           /\ clock' = clock + 1
           /\ UNCHANGED <<session, reading, snaps, payouts>>

(* The daemon serves a request and is paid for it.                         *)
Serve(h) ==
    LET nth == session[h].served + 1
    IN  /\ Cardinality(payouts) < MaxPayouts
        /\ session' = [session EXCEPT ![h].served = nth]
        /\ payouts' = payouts \cup
              {[hash |-> [host |-> h, started |-> session[h].started],
                nth |-> nth, at |-> clock]}
        /\ UNCHANGED <<clock, reading, snaps>>

RestartDaemon(h) ==
    /\ session[h].started < MaxSessions
    /\ session' = [session EXCEPT ![h] = [started |-> @.started + 1, served |-> 0]]
    /\ UNCHANGED <<clock, reading, snaps, payouts>>

\* Mutant of StartRead: a stamp may come twice.
StartReadSame(h) ==
    /\ reading[h] = NoTime
    /\ reading' = [reading EXCEPT ![h] = clock]
    /\ UNCHANGED <<clock, session, snaps, payouts>>

StartRead(h) ==
    /\ reading[h] = NoTime
    /\ \A i \in 1 .. Len(snaps[h]) : snaps[h][i].at < clock
    /\ reading' = [reading EXCEPT ![h] = clock]
    /\ UNCHANGED <<clock, session, snaps, payouts>>

Read(h) ==
    /\ reading[h] # NoTime
    /\ snaps' = [snaps EXCEPT ![h] = Append(@,
          [at |-> reading[h], started |-> session[h].started,
           served |-> session[h].served])]
    /\ reading' = [reading EXCEPT ![h] = NoTime]
    /\ UNCHANGED <<clock, session, payouts>>

(* SSH or PostgreSQL failed, or the collector was restarted.               *)
ReadFails(h) ==
    /\ reading[h] # NoTime
    /\ reading' = [reading EXCEPT ![h] = NoTime]
    /\ UNCHANGED <<clock, session, snaps, payouts>>

Next == \/ Advance
        \/ \E h \in Hosts : \/ Serve(h) \/ RestartDaemon(h)
                            \/ StartRead(h) \/ Read(h) \/ ReadFails(h)

Spec == Init /\ [][Next]_vars

-----------------------------------------------------------------------------
(* The votes, as they stand at any moment.                                 *)

Before(h, p) == {i \in 1 .. Len(snaps[h]) : snaps[h][i].at < p.at}

Since(h, p) == {i \in 1 .. Len(snaps[h]) : snaps[h][i].at >= p.at}

\* The snapshots next to the payout, when there are both.
Polled(h, p) == Before(h, p) # {} /\ Since(h, p) # {}

\* Mutant of Nxt: it is the latest snapshot.
NxtLatest(h, p) == snaps[h][Len(snaps[h])]

Prev(h, p) == snaps[h][CHOOSE i \in Before(h, p) : \A j \in Before(h, p) : j <= i]
Nxt(h, p) == snaps[h][CHOOSE i \in Since(h, p) : \A j \in Since(h, p) : i <= j]

(* The Macs whose counter rose across the payout within one session.       *)
Risers(p) == {h \in Hosts : /\ Polled(h, p)
                            /\ Prev(h, p).started = Nxt(h, p).started
                            /\ Nxt(h, p).served > Prev(h, p).served}

InDay == {p \in payouts : p.at > clock - Day}

\* Mutant of VotesFor: every riser gets the vote.
VotesForAll(hash, h) == Cardinality({p \in InDay : p.hash = hash /\ h \in Risers(p)})

(* A payout with a single riser is a vote for it.                          *)
VotesFor(hash, h) == Cardinality({p \in InDay : p.hash = hash /\ Risers(p) = {h}})

Leaders(hash) ==
    LET votes == [h \in Hosts |-> VotesFor(hash, h)]
    IN  {h \in Hosts : votes[h] > 0 /\ \A g \in Hosts : votes[g] <= votes[h]}

(* The unique leader has the hash.                                         *)
Attributed(hash) ==
    LET leaders == Leaders(hash)
    IN  IF Cardinality(leaders) = 1 THEN CHOOSE h \in Hosts : h \in leaders ELSE Nobody

-----------------------------------------------------------------------------
(* Properties.                                                             *)

(* The snapshots of the serving Mac show the request of the payout.        *)
Watched(p) ==
    LET h == p.hash.host
    IN  /\ Polled(h, p)
        /\ Prev(h, p).started = p.hash.started /\ Nxt(h, p).started = p.hash.started
        /\ Prev(h, p).served < p.nth /\ p.nth <= Nxt(h, p).served

(* A hash is shown on a Mac that did not serve it only on the strength of  *)
(* payouts whose request the right Mac's snapshots do not show (it was     *)
(* restarted, not read, or read too late), and of more such payouts than   *)
(* there are votes for the right Mac: an honest vote is never outvoted by  *)
(* requests that the other Macs happened to serve at the same time.        *)
LeaderIsBacked ==
    \A hash \in {p.hash : p \in payouts} :
        Attributed(hash) \in {Nobody, hash.host}
        \/ Cardinality({p \in InDay : p.hash = hash /\ ~ Watched(p)})
              > VotesFor(hash, hash.host)

(* When every Mac was read after a payout its vote is cast: what is served *)
(* and read later never changes it, so that a hash loses or changes its    *)
(* Mac only by votes of other payouts or by the end of its day.            *)
VoteIsFinal ==
    [][\A p \in payouts :
          (\A h \in Hosts : Since(h, p) # {}) => Risers(p)' = Risers(p)]_vars
=============================================================================
