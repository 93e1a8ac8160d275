---------------------------- MODULE MCSnapshots -----------------------------
(* A small instance of the snapshot history, and what is read from it, for *)
(* TLC.  The manager's target follows the model that is served.            *)
EXTENDS Sessions

CONSTANTS a, b

Reading(model, warm, active, fresh, serves, restarts) ==
    [model |-> model, warm |-> warm, active |-> active, fresh |-> fresh,
     serves |-> serves, restarts |-> restarts, trusted |-> ~ restarts,
     target |-> IF warm = {a, b} THEN b ELSE model]

\* An idle daemon; one that is busy, has served meanwhile, or is stale; one
\* that served another model and is idle; one that restarted
\* and is not trusted yet.
MCReadings == {Reading(NoModel, {}, FALSE, TRUE, FALSE, FALSE),
               Reading(a, {a}, TRUE, TRUE, FALSE, FALSE),
               Reading(a, {a}, TRUE, TRUE, TRUE, FALSE),
               Reading(a, {a}, TRUE, FALSE, FALSE, FALSE),
               Reading(b, {a, b}, FALSE, TRUE, TRUE, FALSE),
               Reading(NoModel, {}, FALSE, TRUE, FALSE, TRUE)}
=============================================================================
