--------------------------- MODULE AlertLifecycle ---------------------------
(***************************************************************************)
(* What the watchdog of one Mac promises about its alerts, without clocks, *)
(* SSH reads, transactions or crashes.  An alert is clear, pending (a      *)
(* fault is known, its grace has not run out), firing (it pages) or        *)
(* resolving (the fault is over, Alertmanager has not been told yet).      *)
(* Watch.tla is shown to implement this module.                            *)
(***************************************************************************)

CONSTANTS Alerts,     \* the alert names of one Mac
          Immediate   \* those that page on the first bad reading

VARIABLES phase,      \* what the stored record of each alert says
          told        \* what Alertmanager was last told about each alert

vars == <<phase, told>>

Phase == {"clear", "pending", "firing", "resolving"}
Told  == {"nothing", "open", "closed"}

TypeOK == /\ phase \in [Alerts -> Phase]
          /\ told \in [Alerts -> Told]

Init == /\ phase = [a \in Alerts |-> "clear"]
        /\ told = [a \in Alerts |-> "nothing"]

(* The moves one check of the Mac may make.  A firing alert never goes     *)
(* straight back to clear, and a fault that returns starts a new grace.    *)
Opening(a) == IF a \in Immediate THEN "firing" ELSE "pending"

Moves(a) == {<<p, p>> : p \in Phase}
            \cup {<<"clear", Opening(a)>>, <<"resolving", Opening(a)>>,
                  <<"pending", "firing">>, <<"pending", "clear">>,
                  <<"firing", "resolving">>}

(* One check records what it read of every alert at once.                  *)
Report == /\ phase' \in [Alerts -> Phase]
          /\ \A a \in Alerts : <<phase[a], phase'[a]>> \in Moves(a)
          /\ UNCHANGED told

(* Alertmanager accepts one message about every paging alert.              *)
Deliver == /\ told' = [a \in Alerts |->
                         CASE phase[a] = "firing"    -> "open"
                           [] phase[a] = "resolving" -> "closed"
                           [] OTHER                  -> told[a]]
           /\ UNCHANGED phase

(* A recovery is forgotten only when Alertmanager has been told of it.     *)
Discharge == /\ \A a \in Alerts : phase[a] = "resolving" => told[a] = "closed"
             /\ phase' = [a \in Alerts |->
                            IF phase[a] = "resolving" THEN "clear" ELSE phase[a]]
             /\ UNCHANGED told

Next == Report \/ Deliver \/ Discharge

Spec == Init /\ [][Next]_vars
=============================================================================
