------------------------------- MODULE Scores -------------------------------
(***************************************************************************)
(* The moving average of each model's revenue score on one Mac: the end of *)
(* run_tick in src/fleet/collector.py, the ema_state table of db.py and    *)
(* update_ema of scoring.py.  Models leave the allow-list at a restart and *)
(* the disk at any moment; the inventory, the feeds and the database fail  *)
(* independently, and the process may be killed between two transactions.  *)
(*                                                                         *)
(* A value is known by the time of the oldest score averaged into it, and  *)
(* by that of the newest.                                                  *)
(***************************************************************************)
EXTENDS Integers

CONSTANTS Models,    \* model ids
          MaxTime    \* bound on the clock

ASSUME TimeAssumption == MaxTime \in Nat \ {0}

VARIABLES
    clock,     \* time.time()
    models,    \* cfg.models of the running process
    disk,      \* models in the Mac's cache
    ema,       \* ema_state of the Mac: per model its row, or NoRow
    pc,        \* where the tick is
    now,       \* its `now', kept until the next one
    eligible,  \* its `eligible'
    prev,      \* its `ema_prev', per model the value or NoValue
    updated,   \* its `last_updated'
    saved,     \* history: when the table was last saved
    deleted    \* history: per model, the last tick that found it ineligible
               \* and whose DELETE took effect

table == <<ema, saved, deleted>>
tick == <<pc, now, eligible, prev, updated>>
vars == <<clock, models, disk, table, tick>>

Never == 0
Times == 1 .. MaxTime

NoValue == [oldest |-> Never, newest |-> Never]
Values  == [oldest : Times, newest : Times]

\* A row of ema_state: the value and its updated_at.
NoRow == [value |-> NoValue, stamp |-> Never]
RowOf(value, stamp) == [value |-> value, stamp |-> stamp]

Stored == {m \in Models : ema[m] # NoRow}

TypeOK == /\ clock \in Times
          /\ models \subseteq Models
          /\ disk \subseteq Models
          /\ ema \in [Models -> {NoRow} \cup [value : Values, stamp : Times]]
          /\ pc \in {"idle", "inventory", "delete", "load", "save"}
          /\ now \in Times \cup {Never}
          /\ eligible \subseteq Models
          /\ prev \in [Models -> Values \cup {NoValue}]
          /\ updated \in Times \cup {Never}
          /\ saved \in Times \cup {Never}
          /\ deleted \in [Models -> Times \cup {Never}]

NoPrev == [m \in Models |-> NoValue]

Init == /\ clock = 1
        /\ models \in SUBSET Models
        /\ disk \in SUBSET Models
        /\ ema = [m \in Models |-> NoRow]
        /\ pc = "idle" /\ now = Never /\ eligible = {}
        /\ prev = NoPrev /\ updated = Never
        /\ saved = Never /\ deleted = [m \in Models |-> Never]

-----------------------------------------------------------------------------
(* Around the tick.                                                        *)

Advance == /\ clock < MaxTime
           /\ clock' = clock + 1
           /\ UNCHANGED <<models, disk, table, tick>>

Install(m) == /\ m \notin disk
              /\ disk' = disk \cup {m}
              /\ UNCHANGED <<clock, models, table, tick>>

Remove(m) == /\ m \in disk
             /\ disk' = disk \ {m}
             /\ UNCHANGED <<clock, models, table, tick>>

EndTick == /\ pc' = "idle" /\ eligible' = {}
           /\ prev' = NoPrev /\ updated' = Never
           /\ now' = now

(* The process is killed, in a tick or between two, and comes back, with   *)
(* another allow-list perhaps.                                             *)
Restart == /\ EndTick
           /\ models' \in SUBSET Models
           /\ UNCHANGED <<clock, disk, table>>

(* A statement fails: run_forever logs it.                                 *)
Abandon == /\ pc # "idle"
           /\ EndTick
           /\ UNCHANGED <<clock, models, disk, table>>

-----------------------------------------------------------------------------
(* The tick.  No two of them have the same `now'.                          *)

StartTick == /\ pc = "idle" /\ clock > now
             /\ now' = clock
             /\ pc' = "inventory"
             /\ UNCHANGED <<clock, models, disk, table, eligible, prev, updated>>

(* The inventory is read, or unknown: its SSH or the daemon's failed.      *)
Eligible(known) == IF known THEN models \cap disk ELSE models

ReadInventory(known) ==
    /\ pc = "inventory"
    /\ eligible' = Eligible(known)
    /\ pc' = "delete"
    /\ UNCHANGED <<clock, models, disk, table, now, prev, updated>>

\* Mutant of Kept: with nothing eligible nothing is deleted.
KeptIfEmpty == IF eligible = {} THEN Models ELSE eligible

\* The models whose rows the DELETE leaves.
Kept == eligible

(* delete_ineligible_ema: it deletes also what a tick that was cut short   *)
(* here has left behind.  With nothing eligible the tick returns.          *)
DeleteIneligible ==
    /\ pc = "delete"
    /\ ema' = [m \in Models |-> IF m \in Kept THEN ema[m] ELSE NoRow]
    /\ deleted' = [m \in Models |-> IF m \in eligible THEN deleted[m] ELSE now]
    /\ IF eligible = {} THEN EndTick
       ELSE pc' = "load" /\ UNCHANGED <<now, eligible, prev, updated>>
    /\ UNCHANGED <<clock, models, disk, saved>>

\* The loaded rows, less those that are not eligible.
Loaded == Stored \cap eligible

(* load_ema: the values, and the newest stamp of all rows.  It comes after *)
(* the feeds have been read, which may leave no score.                     *)
LoadEma ==
    /\ pc = "load"
    /\ prev' = [m \in Models |-> IF m \in Loaded THEN ema[m].value ELSE NoValue]
    /\ \E last \in {ema[m].stamp : m \in Stored} \cup {Never} :
          /\ \A m \in Stored : ema[m].stamp <= last
          /\ updated' = last
    /\ pc' = "save"
    /\ UNCHANGED <<clock, models, disk, table, now, eligible>>

\* No capacity, no price, or neither for an eligible model.
NoScores == /\ pc = "load"
            /\ EndTick
            /\ UNCHANGED <<clock, models, disk, table>>

(* update_ema of the scored models; the others keep their value.           *)
Averaged(m, scores) ==
    IF m \notin scores THEN prev[m]
    ELSE [oldest |-> IF prev[m] = NoValue THEN now ELSE prev[m].oldest, newest |-> now]

(* What the scores may be of: each eligible model may lack a sample or a   *)
(* price, but not all of them.                                             *)
Scored(scores) == scores # {} /\ scores \subseteq eligible

\* Mutant of SaveEma: only the scored models are saved.
SaveScored(scores) ==
    /\ pc = "save"
    /\ Scored(scores)
    /\ ema' = [m \in Models |-> IF m \in scores THEN RowOf(Averaged(m, scores), now)
                                ELSE ema[m]]
    /\ saved' = now
    /\ EndTick
    /\ UNCHANGED <<clock, models, disk, deleted>>

(* save_ema writes every value of the average, scored or not.              *)
SaveEma(scores) ==
    /\ pc = "save"
    /\ Scored(scores)
    /\ ema' = [m \in Models |-> IF Averaged(m, scores) = NoValue THEN ema[m]
                                ELSE RowOf(Averaged(m, scores), now)]
    /\ saved' = now
    /\ EndTick
    /\ UNCHANGED <<clock, models, disk, deleted>>

Next == \/ Advance
        \/ \E m \in Models : Install(m) \/ Remove(m)
        \/ Restart \/ Abandon
        \/ StartTick
        \/ \E known \in BOOLEAN : ReadInventory(known)
        \/ DeleteIneligible \/ LoadEma \/ NoScores
        \/ \E scores \in SUBSET Models : SaveEma(scores)

Spec == Init /\ [][Next]_vars

-----------------------------------------------------------------------------
(* Properties.                                                             *)

(* A model that a tick found retired or missing from the disk, and that it *)
(* deleted, starts afresh when it comes back: no score from before is left *)
(* in its average, nor in one a running tick is about to save, whatever    *)
(* fails or restarts in between.  To be found gone is not enough: a tick   *)
(* that is killed at its DELETE, or whose DELETE fails, leaves the row,    *)
(* and a model that is back before the next tick goes on with it.          *)
FreshStart ==
    \A m \in Models : /\ m \in Stored => ema[m].value.oldest > deleted[m]
                      /\ prev[m] # NoValue => prev[m].oldest > deleted[m]

(* The rows of the table share one stamp, that of the last save: the       *)
(* newest stamp, which a tick measures its elapsed time from, is the stamp *)
(* of each row it averages, although rows are deleted and ticks cut short  *)
(* in between.                                                             *)
OneStamp == \A m \in Stored : ema[m].stamp = saved

(* The comment of run_tick, read as it stands: saving without a score      *)
(* "would fake a fresh dt on the next real update".  A model is averaged   *)
(* with the time since it was last scored.                                 *)
ElapsedIsItsOwn ==
    pc = "save" => \A m \in Models : prev[m] # NoValue => updated = prev[m].newest
=============================================================================
