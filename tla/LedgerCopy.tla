----------------------------- MODULE LedgerCopy -----------------------------
(***************************************************************************)
(* What ingestion promises about one Mac: a copy that follows an           *)
(* append-only ledger in its order, and forgets nothing.                   *)
(***************************************************************************)
EXTENDS Integers

CONSTANT MaxRow
VARIABLES source, copy

vars == <<source, copy>>

Init == source = {} /\ copy = {}

Grow == \E r \in 1 .. MaxRow : /\ \A q \in source : q < r
                               /\ source' = source \cup {r}
                               /\ UNCHANGED copy

\* The rows that may follow `copy': a first segment of what is missing.
FirstSegment(rows, missing) ==
    \A r \in rows, q \in missing : q < r => q \in rows

Follow == \E rows \in SUBSET (source \ copy) :
             /\ FirstSegment(rows, source \ copy)
             /\ copy' = copy \cup rows
             /\ UNCHANGED source

Next == Grow \/ Follow

Spec == Init /\ [][Next]_vars
=============================================================================
