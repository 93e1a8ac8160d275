------------------------------- MODULE Hourly -------------------------------
(***************************************************************************)
(* The hourly panel of a card, src/fleet/hourly.py, as functions of the    *)
(* payouts that are counted for the card: which model had most jobs in     *)
(* each portion of an hour, and one legend of glyphs for all cards.        *)
(* A payout is a record with its time, `at', and its model.  How the       *)
(* counts are rounded to percentages is left out.                          *)
(***************************************************************************)
EXTENDS Integers, SequencesExt

CONSTANTS
    HourSeconds, PortionSeconds, Buckets,  \* HOUR_SECONDS, ...
    Names,      \* model ids in the order of sorted()
    Initials,   \* per model, the letters that its words begin with
    Labels,     \* the glyphs, in order
    Overflow    \* the glyph that the remaining models share

NoModel == "none"

ASSUME HoursAssumption ==
    /\ {HourSeconds, PortionSeconds, Buckets} \subseteq Nat \ {0}
    /\ HourSeconds % PortionSeconds = 0
    /\ Names \in Seq(ToSet(Names)) /\ NoModel \notin ToSet(Names)
    /\ DOMAIN Initials = ToSet(Names) /\ Overflow \notin ToSet(Labels)
    /\ Labels \in Seq(ToSet(Labels))
    /\ \A m \in ToSet(Names) : Initials[m] \in Seq(ToSet(Initials[m]))

HourOf(t) == (t \div HourSeconds) * HourSeconds

PortionOf(t) == (t % HourSeconds) \div PortionSeconds

\* The hour of `now', and those before it.
HoursOf(now) == {HourOf(now) - b * HourSeconds : b \in 0 .. Buckets - 1}

InHours(payouts, now) ==
    {p \in payouts : HourOf(p.at) \in HoursOf(now) /\ p.at <= now}

\* Mutant of HourSize: the running portion is left out.
HourSizeElapsed(hour, now) ==
    IF hour < HourOf(now) THEN HourSeconds \div PortionSeconds
    ELSE (now - hour) \div PortionSeconds

\* How many portions of an hour have begun.
HourSize(hour, now) ==
    IF hour < HourOf(now) THEN HourSeconds \div PortionSeconds
    ELSE IF now <= hour THEN 0 ELSE (now - hour) \div PortionSeconds + 1

(* The model with most jobs among the payouts of a portion, by name where  *)
(* they are equal.                                                         *)
Busiest(payouts) ==
    LET jobs(i) == Cardinality({p \in payouts : p.model = Names[i]})
        most    == {i \in DOMAIN Names : \A j \in DOMAIN Names : jobs(j) <= jobs(i)}
    IN  IF payouts = {} THEN NoModel ELSE Names[Max(most)]

HourRow(payouts, hour, now) ==
    LET rows == {p \in InHours(payouts, now) : HourOf(p.at) = hour}
    IN  [jobs |-> Cardinality(rows),
         portions |-> [k \in 0 .. HourSize(hour, now) - 1 |->
                          Busiest({p \in rows : PortionOf(p.at) = k})]]

HourlyRows(payouts, now) == [hour \in HoursOf(now) |-> HourRow(payouts, hour, now)]

Free(glyphs, used) == {i \in DOMAIN glyphs : glyphs[i] \notin used}

FirstFree(glyphs, used) == glyphs[Min(Free(glyphs, used))]

\* Mutant of Glyph: a fallback label may be taken already.
GlyphFirst(model, used) ==
    IF Free(Initials[model], used) # {} THEN FirstFree(Initials[model], used)
    ELSE Head(Labels)

(* An initial that is free, else a label that is free, else the overflow.  *)
Glyph(model, used) ==
    CASE Free(Initials[model], used) # {} -> FirstFree(Initials[model], used)
      [] Free(Initials[model], used) = {} /\ Free(Labels, used) # {} -> FirstFree(Labels, used)
      [] OTHER -> Overflow

\* `letters' with this glyph for this model.
With(letters, model, glyph) ==
    [m \in DOMAIN letters \cup {model} |->
        IF m \in DOMAIN letters THEN letters[m] ELSE glyph]

\* _assign_letters: the models, in the order of their names, get their glyphs.
Letters(models) ==
    LET letters[k \in 0 .. Len(Names)] ==
            LET before == letters[k - 1]
            IN  CASE k = 0 -> <<>>
                  [] k > 0 /\ Names[k] \notin models -> before
                  [] OTHER -> With(before, Names[k], Glyph(Names[k], Range(before)))
    IN  letters[Len(Names)]

(* share_legends: one legend for the models of all panels.                 *)
SharedLegend(panels, now) ==
    Letters({p.model : p \in UNION {InHours(payouts, now) : payouts \in panels}})
=============================================================================
