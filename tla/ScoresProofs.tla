---------------------------- MODULE ScoresProofs ----------------------------
(***************************************************************************)
(* Theorems about the moving average for every set of models and every     *)
(* bound of the clock.                                                     *)
(***************************************************************************)
EXTENDS Scores, TLAPS

(* What a tick knows between its transactions, beyond the types.           *)

\* No stamp lies ahead: the tick's `now' is past, and so is what it found.
StampsArePast == /\ now <= clock
                 /\ \A m \in Models : deleted[m] <= now
                 /\ pc = "delete" \/ pc = "inventory" =>
                       now # Never /\ \A m \in Models : deleted[m] < now

\* Past the DELETE only eligible models are stored, and none of them was deleted
\* by this tick.
PastDelete == pc \in {"load", "save"} =>
              /\ Stored \subseteq eligible
              /\ now # Never
              /\ \A m \in eligible : deleted[m] < now

\* What a tick is about to average is what is stored.
PrevIsStored == IF pc = "save" THEN \A m \in Models : prev[m] = ema[m].value
                ELSE prev = NoPrev

\* Only whole values are stored.
RowsHoldValues == \A m \in Models : ema[m] # NoRow => ema[m].value # NoValue

IInv == /\ TypeOK /\ StampsArePast /\ PastDelete /\ PrevIsStored /\ RowsHoldValues
        /\ FreshStart /\ OneStamp

-----------------------------------------------------------------------------

LEMMA TimesArePositive ==
    /\ Times \subseteq Int /\ Never \in Int /\ Never \notin Times
    /\ \A t \in Times : t > Never
  BY TimeAssumption DEF Times, Never

(* What averaging makes of a model that is eligible.                       *)
LEMMA AveragedFacts ==
  ASSUME TypeOK, NEW m \in Models, NEW scores, now \in Times
  PROVE  /\ Averaged(m, scores) \in Values \cup {NoValue}
         /\ m \in scores => Averaged(m, scores) # NoValue
         /\ m \in scores /\ prev[m] = NoValue => Averaged(m, scores).oldest = now
         /\ prev[m] # NoValue => /\ Averaged(m, scores) # NoValue
                                 /\ Averaged(m, scores).oldest = prev[m].oldest
         /\ m \notin scores /\ prev[m] = NoValue => Averaged(m, scores) = NoValue
  <1>1. prev[m] \in Values \cup {NoValue}  BY DEF TypeOK
  <1>2. CASE m \notin scores
    BY <1>1, <1>2 DEF Averaged
  <1>3. CASE m \in scores /\ prev[m] = NoValue
    BY <1>3, TimesArePositive DEF Averaged, Values, NoValue
  <1>4. CASE m \in scores /\ prev[m] # NoValue
    <2>1. prev[m].oldest \in Times  BY <1>1, <1>4 DEF Values
    <2>2. QED  BY <1>4, <2>1, TimesArePositive DEF Averaged, Values, NoValue
  <1>5. QED  BY <1>2, <1>3, <1>4

LEMMA InitHolds == Init => IInv
  <1> SUFFICES ASSUME Init PROVE IInv  OBVIOUS
  <1>1. \A m \in Models : ema[m] = NoRow /\ prev[m] = NoValue /\ deleted[m] = Never
    BY DEF Init, NoPrev
  <1>2. Stored = {}  BY <1>1 DEF Stored
  <1>3. 1 \in Times  BY TimeAssumption DEF Times
  <1>4. TypeOK  BY <1>3 DEF Init, TypeOK, NoPrev
  <1>5. StampsArePast  BY <1>1 DEF Init, StampsArePast, Never
  <1>6. QED
    BY <1>1, <1>2, <1>4, <1>5
       DEF Init, IInv, PastDelete, PrevIsStored, RowsHoldValues, FreshStart, OneStamp

(* The steps that end a tick, and leave the table alone.                   *)
LEMMA EndTickHolds ==
  ASSUME IInv, EndTick, UNCHANGED <<clock, table>>,
         disk' \subseteq Models, models' \subseteq Models
  PROVE  IInv'
  <1>1. \A m \in Models : prev'[m] = NoValue  BY DEF EndTick, NoPrev
  <1>2. Stored' = Stored  BY DEF Stored, table
  <1>3. TypeOK'  BY DEF IInv, TypeOK, EndTick, table, NoPrev
  <1>4. QED
    BY <1>1, <1>2, <1>3
       DEF IInv, EndTick, table, StampsArePast, PastDelete, PrevIsStored,
           RowsHoldValues, FreshStart, OneStamp

(* A step that touches neither the table nor the tick.                     *)
LEMMA OutsideHolds ==
  ASSUME IInv, UNCHANGED <<table, tick>>, clock' \in Times, clock <= clock',
         disk' \subseteq Models, models' \subseteq Models
  PROVE  IInv'
  <1>1. Stored' = Stored  BY DEF Stored, table
  <1>2. TypeOK'  BY DEF IInv, TypeOK, table, tick
  <1>3. StampsArePast'
    <2>1. now \in Int /\ clock \in Int /\ clock' \in Int
      BY TimesArePositive DEF IInv, TypeOK
    <2>2. now' <= clock'  BY <2>1 DEF IInv, StampsArePast, tick
    <2>3. QED  BY <2>2 DEF IInv, StampsArePast, tick, table
  <1>4. QED
    BY <1>1, <1>2, <1>3
       DEF IInv, table, tick, PastDelete, PrevIsStored, RowsHoldValues, FreshStart, OneStamp

LEMMA StartTickHolds == IInv /\ StartTick => IInv'
  <1> SUFFICES ASSUME IInv, StartTick PROVE IInv'  OBVIOUS
  <1>1. /\ clock \in Times /\ clock \in Int /\ now \in Int /\ clock # Never
        /\ \A m \in Models : deleted[m] \in Int
    BY TimesArePositive DEF IInv, TypeOK
  <1>2. Stored' = Stored  BY DEF Stored, StartTick, table
  <1>3. TypeOK'  BY DEF IInv, TypeOK, StartTick, table
  <1>4. StampsArePast'
    <2>1. \A m \in Models : deleted[m] < clock
      BY <1>1 DEF IInv, StampsArePast, StartTick
    <2>2. ASSUME NEW m \in Models PROVE deleted[m] <= clock
      <3>1. deleted[m] < clock /\ deleted[m] \in Int  BY <1>1, <2>1
      <3>2. QED  BY <1>1, <3>1
    <2>3. QED  BY <1>1, <2>1, <2>2 DEF StampsArePast, StartTick, table
  <1>5. QED
    BY <1>2, <1>3, <1>4
       DEF IInv, StartTick, table, PastDelete, PrevIsStored, RowsHoldValues, FreshStart, OneStamp

LEMMA ReadInventoryHolds == ASSUME NEW known \in BOOLEAN PROVE IInv /\ ReadInventory(known) => IInv'
  <1> SUFFICES ASSUME IInv, ReadInventory(known) PROVE IInv'  OBVIOUS
  <1>1. Stored' = Stored  BY DEF Stored, ReadInventory, table
  <1>2. TypeOK'  BY DEF IInv, TypeOK, ReadInventory, Eligible, table
  <1>3. QED
    BY <1>1, <1>2
       DEF IInv, ReadInventory, table, StampsArePast, PastDelete, PrevIsStored,
           RowsHoldValues, FreshStart, OneStamp

(* The DELETE leaves only eligible rows, and marks the rest as deleted.     *)
LEMMA DeleteHolds == IInv /\ DeleteIneligible => IInv'
  <1> SUFFICES ASSUME IInv, DeleteIneligible PROVE IInv'  OBVIOUS
  <1> USE DEF Kept
  <1>1. /\ now \in Times /\ now \in Int /\ clock \in Int
        /\ \A m \in Models : deleted[m] \in Int /\ deleted[m] < now
    BY TimesArePositive DEF IInv, TypeOK, StampsArePast, DeleteIneligible
  <1>2. now' = now /\ clock' = clock /\ prev' = prev /\ prev = NoPrev
    BY DEF DeleteIneligible, EndTick, IInv, PrevIsStored
  <1>3. \A m \in Models : /\ ema'[m] = IF m \in eligible THEN ema[m] ELSE NoRow
                          /\ deleted'[m] = IF m \in eligible THEN deleted[m] ELSE now
    BY DEF DeleteIneligible
  <1>4. Stored' = Stored \cap eligible  BY <1>3 DEF Stored
  <1>5. TypeOK'
    <2>1. /\ ema' \in [Models -> {NoRow} \cup [value : Values, stamp : Times]]
          /\ deleted' \in [Models -> Times \cup {Never}]
      BY <1>1 DEF IInv, TypeOK, DeleteIneligible
    <2>2. QED  BY <2>1 DEF IInv, TypeOK, DeleteIneligible, EndTick, NoPrev
  <1>6. StampsArePast'
    <2>1. \A m \in Models : deleted'[m] <= now  BY <1>1, <1>3
    <2>2. pc' \in {"idle", "load"}  BY DEF DeleteIneligible, EndTick
    <2>3. QED  BY <1>2, <2>1, <2>2 DEF IInv, StampsArePast
  <1>7. PastDelete'
    <2>1. CASE eligible = {}
      BY <2>1 DEF PastDelete, DeleteIneligible, EndTick
    <2>2. CASE eligible # {}
      <3>1. eligible' = eligible  BY <2>2 DEF DeleteIneligible
      <3>2. \A m \in eligible : deleted'[m] < now
        BY <1>1, <1>3 DEF IInv, TypeOK
      <3>3. now # Never  BY <1>1, TimesArePositive
      <3>4. QED  BY <1>2, <1>4, <3>1, <3>2, <3>3 DEF PastDelete
    <2>3. QED  BY <2>1, <2>2
  <1>8. PrevIsStored'
    BY <1>2 DEF PrevIsStored, DeleteIneligible, EndTick
  <1>9. RowsHoldValues'
    BY <1>3 DEF IInv, RowsHoldValues
  <1>10. FreshStart'
    <2>1. \A m \in Models : m \in Stored' => ema'[m].value.oldest > deleted'[m]
      BY <1>3, <1>4 DEF IInv, FreshStart
    <2>2. \A m \in Models : prev'[m] = NoValue  BY <1>2 DEF NoPrev
    <2>3. QED  BY <2>1, <2>2 DEF FreshStart
  <1>11. OneStamp'
    <2>1. Stored \subseteq Models /\ saved' = saved
      BY DEF Stored, DeleteIneligible
    <2>2. \A m \in Stored' : m \in Stored /\ ema'[m] = ema[m]
      BY <1>3, <1>4, <2>1
    <2>3. QED  BY <2>1, <2>2 DEF IInv, OneStamp
  <1>12. QED  BY <1>5, <1>6, <1>7, <1>8, <1>9, <1>10, <1>11 DEF IInv

(* Every stored row is eligible here, so that the filter drops none.       *)
LEMMA LoadHolds == IInv /\ LoadEma => IInv'
  <1> SUFFICES ASSUME IInv, LoadEma PROVE IInv'  OBVIOUS
  <1>1. Stored' = Stored /\ Loaded = Stored
    BY DEF IInv, PastDelete, LoadEma, Loaded, Stored, table
  <1>2. \A m \in Models : m \notin Stored => ema[m].value = NoValue
    BY DEF Stored, NoRow
  <1>3. \A m \in Models : prev'[m] = ema[m].value
    BY <1>1, <1>2 DEF LoadEma
  <1>4. TypeOK'
    <2>1. \A m \in Models : ema[m].value \in Values \cup {NoValue}
      BY <1>2 DEF IInv, TypeOK, Stored
    <2>2. prev' \in [Models -> Values \cup {NoValue}]
      BY <2>1 DEF LoadEma
    <2>3. updated' \in Times \cup {Never}
      BY DEF IInv, TypeOK, LoadEma, Stored
    <2>4. QED  BY <2>2, <2>3 DEF IInv, TypeOK, LoadEma, table
  <1>5. FreshStart'
    BY <1>1, <1>2, <1>3 DEF IInv, FreshStart, LoadEma, table
  <1>6. QED
    BY <1>1, <1>3, <1>4, <1>5
       DEF IInv, LoadEma, table, StampsArePast, PastDelete, PrevIsStored, RowsHoldValues, OneStamp

(* The average holds what was stored and scores of now; all of it is       *)
(* stamped.                                                                *)
LEMMA SaveHolds == ASSUME NEW scores PROVE IInv /\ SaveEma(scores) => IInv'
  <1> SUFFICES ASSUME IInv, SaveEma(scores) PROVE IInv'  OBVIOUS
  <1>1. now \in Times /\ now \in Int /\ scores \subseteq eligible
    BY TimesArePositive DEF IInv, TypeOK, PastDelete, SaveEma, Scored
  <1>2. \A m \in Models :
           /\ Averaged(m, scores) \in Values \cup {NoValue}
           /\ m \in scores => Averaged(m, scores) # NoValue
           /\ m \in scores /\ prev[m] = NoValue => Averaged(m, scores).oldest = now
           /\ prev[m] # NoValue => /\ Averaged(m, scores) # NoValue
                                   /\ Averaged(m, scores).oldest = prev[m].oldest
           /\ m \notin scores /\ prev[m] = NoValue => Averaged(m, scores) = NoValue
    BY <1>1, AveragedFacts DEF IInv
  <1>3. \A m \in Models : prev[m] = ema[m].value
    BY DEF IInv, PrevIsStored, SaveEma
  <1>4. \A m \in Models : prev[m] = NoValue <=> ema[m] = NoRow
    <2>1. ASSUME NEW m \in Models, ema[m] = NoRow PROVE ema[m].value = NoValue
      BY <2>1 DEF NoRow
    <2>2. QED  BY <1>3, <2>1 DEF IInv, RowsHoldValues
  <1>5. \A m \in Models : ema'[m] = IF Averaged(m, scores) = NoValue THEN NoRow
                                    ELSE RowOf(Averaged(m, scores), now)
    <2>1. \A m \in Models : Averaged(m, scores) = NoValue => ema[m] = NoRow
      BY <1>2, <1>4
    <2>2. QED  BY <2>1 DEF SaveEma
  <1>6. \A m \in Models :
           Averaged(m, scores) # NoValue =>
               /\ ema'[m] # NoRow
               /\ ema'[m] \in [value : Values, stamp : Times]
               /\ ema'[m].value = Averaged(m, scores)
               /\ ema'[m].stamp = now
    <2> SUFFICES ASSUME NEW m \in Models, Averaged(m, scores) # NoValue
                 PROVE  /\ ema'[m] # NoRow
                        /\ ema'[m] \in [value : Values, stamp : Times]
                        /\ ema'[m].value = Averaged(m, scores)
                        /\ ema'[m].stamp = now
      OBVIOUS
    <2> DEFINE average == Averaged(m, scores)
    <2>1. ema'[m] = [value |-> average, stamp |-> now]  BY <1>5 DEF RowOf
    <2>2. average \in Values /\ average # NoValue  BY <1>2
    <2> HIDE DEF average
    <2>3. /\ [value |-> average, stamp |-> now] \in [value : Values, stamp : Times]
          /\ [value |-> average, stamp |-> now].value = average
          /\ [value |-> average, stamp |-> now].stamp = now
      BY <1>1, <2>2
    <2>4. NoRow.value = NoValue  BY DEF NoRow
    <2>5. QED  BY <2>1, <2>2, <2>3, <2>4 DEF average
  <1>7. Stored' = {m \in Models : Averaged(m, scores) # NoValue}
    BY <1>5, <1>6 DEF Stored
  <1>8. TypeOK'
    <2>1. ema' \in [Models -> {NoRow} \cup [value : Values, stamp : Times]]
      <3>1. \A m \in Models : ema'[m] \in {NoRow} \cup [value : Values, stamp : Times]
        BY <1>5, <1>6
      <3>2. QED  BY <3>1 DEF SaveEma
    <2>2. QED  BY <1>1, <2>1 DEF IInv, TypeOK, SaveEma, EndTick, NoPrev
  <1>9. StampsArePast'
    BY DEF IInv, StampsArePast, SaveEma, EndTick
  <1>10. RowsHoldValues'
    BY <1>2, <1>5, <1>6 DEF RowsHoldValues
  <1>11. FreshStart'
    <2>1. \A m \in Models : prev'[m] = NoValue  BY DEF SaveEma, EndTick, NoPrev
    <2>2. deleted' = deleted  BY DEF SaveEma
    <2>3. ASSUME NEW m \in Models, m \in Stored'
          PROVE  ema'[m].value.oldest > deleted'[m]
      <3>1. ema'[m].value = Averaged(m, scores)
        BY <1>6, <1>7, <2>3
      <3>2. CASE prev[m] # NoValue
        BY <1>2, <2>2, <3>1, <3>2 DEF IInv, FreshStart
      <3>3. CASE prev[m] = NoValue
        <4>1. m \in scores  BY <1>2, <1>7, <2>3, <3>3
        <4>2. deleted[m] < now  BY <1>1, <4>1 DEF IInv, PastDelete, SaveEma
        <4>3. deleted[m] \in Int  BY TimesArePositive DEF IInv, TypeOK
        <4>4. QED  BY <1>1, <1>2, <2>2, <3>1, <3>3, <4>1, <4>2, <4>3
      <3>4. QED  BY <3>2, <3>3
    <2>4. QED  BY <2>1, <2>3 DEF FreshStart
  <1>12. OneStamp'
    BY <1>6, <1>7 DEF OneStamp, SaveEma
  <1>13. PastDelete' /\ PrevIsStored'
    BY DEF PastDelete, PrevIsStored, SaveEma, EndTick
  <1>14. QED  BY <1>8, <1>9, <1>10, <1>11, <1>12, <1>13 DEF IInv

LEMMA NextHolds == IInv /\ [Next]_vars => IInv'
  <1> SUFFICES ASSUME IInv, [Next]_vars PROVE IInv'  OBVIOUS
  <1> USE DEF IInv, TypeOK
  <1>1. CASE Advance
    <2>1. clock + 1 \in Times /\ clock <= clock + 1
      BY <1>1, TimeAssumption DEF Advance, Times
    <2>2. QED  BY <1>1, <2>1, OutsideHolds DEF Advance
  <1>2. ASSUME NEW m \in Models, Install(m) \/ Remove(m) PROVE IInv'
    <2>1. clock <= clock  BY TimesArePositive
    <2>2. QED  BY <1>2, <2>1, OutsideHolds DEF Install, Remove
  <1>3. CASE Restart
    BY <1>3, EndTickHolds DEF Restart
  <1>4. CASE Abandon
    BY <1>4, EndTickHolds DEF Abandon
  <1>5. CASE StartTick  BY <1>5, StartTickHolds
  <1>6. ASSUME NEW known \in BOOLEAN, ReadInventory(known) PROVE IInv'
    BY <1>6, ReadInventoryHolds
  <1>7. CASE DeleteIneligible  BY <1>7, DeleteHolds
  <1>8. CASE LoadEma  BY <1>8, LoadHolds
  <1>9. CASE NoScores
    BY <1>9, EndTickHolds DEF NoScores
  <1>10. ASSUME NEW scores \in SUBSET Models, SaveEma(scores) PROVE IInv'
    BY <1>10, SaveHolds
  <1>11. CASE UNCHANGED vars
    <2>1. clock <= clock  BY TimesArePositive
    <2>2. QED  BY <1>11, <2>1, OutsideHolds DEF vars
  <1>12. QED
    BY <1>1, <1>2, <1>3, <1>4, <1>5, <1>6, <1>7, <1>8, <1>9, <1>10, <1>11 DEF Next

-----------------------------------------------------------------------------

(* The stored averages, what a tick has loaded of them and what it has     *)
(* deleted agree after every step, failure and restart (run_tick).         *)
THEOREM Invariance == Spec => []IInv
  BY InitHolds, NextHolds, PTL DEF Spec

(* The state stays in its types.                                           *)
THEOREM TypeCorrect == Spec => []TypeOK
  BY Invariance, PTL DEF IInv

(* A model that a tick found retired or missing and deleted, and that      *)
(* comes back, starts afresh (delete_ineligible_ema before load_ema in     *)
(* run_tick).  Of one that a tick found gone but could not delete, it says *)
(* nothing: the next tick that finds it gone deletes it.                   *)
THEOREM StartsAfresh == Spec => []FreshStart
  BY Invariance, PTL DEF IInv

(* All rows bear the stamp of the last save (load_ema, save_ema).          *)
THEOREM StampsAgree == Spec => []OneStamp
  BY Invariance, PTL DEF IInv
=============================================================================
