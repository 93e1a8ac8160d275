------------------------------ MODULE Service -------------------------------
(***************************************************************************)
(* The process around the collectors (src/fleet/main.py, web.py and the    *)
(* run_forever loops of scheduler.py, watch.py and earnings_shadow.py):    *)
(* one background loop per Mac and duty, each running its ticks in a       *)
(* thread, next to /api/status requests that fan out over the hosts, all   *)
(* on one pool of database connections, until the server shuts down.       *)
(***************************************************************************)
EXTENDS Integers, FiniteSets

CONSTANTS
    Tasks,      \* the background loops
    Requests,   \* /api/status requests, used again once answered
    Hosts,      \* the host rows of an answer
    MaxSize     \* pool.max_size, connections and rows of a request at once

ASSUME MaxSizeAssumption == MaxSize \in Nat \ {0}
ASSUME WorkersAssumption == Tasks \cap (Requests \X (Hosts \cup {"shared"})) = {}

VARIABLES
    server,    \* "serving", "draining", "stopping" or "closed"
    stop,      \* the stop event of the lifespan
    loop,      \* per task, where run_forever is
    request,   \* per request, where status() is
    rows,      \* per request and host, its row
    holders    \* the threads that hold a connection of the pool

vars == <<server, stop, loop, request, rows, holders>>

\* A thread: a task's tick, a request's shared queries, or one host's row.
RowThreads == {<<r, h>> : r \in Requests, h \in Hosts}
Shared(r) == <<r, "shared">>

Threads == Tasks \cup RowThreads \cup {Shared(r) : r \in Requests}

Running(w) == \/ w \in Tasks /\ loop[w] = "tick"
              \/ \E r \in Requests :
                    \/ w = Shared(r) /\ request[r] = "shared"
                    \/ \E h \in Hosts : w = <<r, h>> /\ rows[r][h] = "running"

NoRows == [h \in Hosts |-> "queued"]

TypeOK == /\ server \in {"serving", "draining", "stopping", "closed"}
          /\ stop \in BOOLEAN
          /\ loop \in [Tasks -> {"check", "tick", "wait", "ended"}]
          /\ request \in [Requests -> {"none", "shared", "rows"}]
          /\ rows \in [Requests -> [Hosts -> {"queued", "running", "ok", "error"}]]
          /\ holders \subseteq {w \in Threads : Running(w)}

(* The schema is there and the lifespan has started the loops; those of a  *)
(* duty that is switched off return at once.                               *)
Init == /\ server = "serving"
        /\ stop = FALSE
        /\ loop \in [Tasks -> {"check", "ended"}]
        /\ request = [r \in Requests |-> "none"]
        /\ rows = [r \in Requests |-> NoRows]
        /\ holders = {}

-----------------------------------------------------------------------------
(* The pool.  A thread holds one connection at a time.                     *)

Connect(w) == /\ Running(w)
              /\ w \notin holders
              /\ Cardinality(holders) < MaxSize
              /\ server # "closed"
              /\ holders' = holders \cup {w}
              /\ UNCHANGED <<server, stop, loop, request, rows>>

\* The with block ends, after a commit or a rollback.
Disconnect(w) == /\ w \in holders
                 /\ holders' = holders \ {w}
                 /\ UNCHANGED <<server, stop, loop, request, rows>>

-----------------------------------------------------------------------------
(* run_forever.                                                            *)

CheckStop(t) == /\ loop[t] = "check"
                /\ loop' = [loop EXCEPT ![t] = IF stop THEN "ended" ELSE "tick"]
                /\ UNCHANGED <<server, stop, request, rows, holders>>

\* Mutants of EndTick: a connection is not given back; nothing catches the
\* exception of a tick.
EndTickLeaks(t) == /\ loop[t] = "tick"
                   /\ loop' = [loop EXCEPT ![t] = "wait"]
                   /\ UNCHANGED <<server, stop, request, rows, holders>>

EndTickEscapes(t) == /\ loop[t] = "tick" /\ t \notin holders
                     /\ \/ loop' = [loop EXCEPT ![t] = "wait"]
                        \/ loop' = [loop EXCEPT ![t] = "ended"]
                     /\ UNCHANGED <<server, stop, request, rows, holders>>

(* The tick returns, or raises (SSH, HTTP, PostgreSQL, no connection in    *)
(* time), which is logged.                                                 *)
EndTick(t) == /\ loop[t] = "tick" /\ t \notin holders
              /\ loop' = [loop EXCEPT ![t] = "wait"]
              /\ UNCHANGED <<server, stop, request, rows, holders>>

\* Mutant of Wake: the stop event is read before the tick only, and the loop
\* goes straight on to the next one.
WakeToTick(t) == /\ loop[t] = "wait"
                 /\ loop' = [loop EXCEPT ![t] = "tick"]
                 /\ UNCHANGED <<server, stop, request, rows, holders>>

(* The interval is over, or the stop event is set.                         *)
Wake(t) == /\ loop[t] = "wait"
           /\ loop' = [loop EXCEPT ![t] = "check"]
           /\ UNCHANGED <<server, stop, request, rows, holders>>

-----------------------------------------------------------------------------
(* status().                                                               *)

Accept(r) == /\ server = "serving"
             /\ request[r] = "none"
             /\ request' = [request EXCEPT ![r] = "shared"]
             /\ UNCHANGED <<server, stop, loop, rows, holders>>

Answer(r) == /\ request' = [request EXCEPT ![r] = "none"]
             /\ rows' = [rows EXCEPT ![r] = NoRows]

(* The account-wide queries fail: every host of the answer is in error.    *)
SharedFails(r) == /\ request[r] = "shared" /\ Shared(r) \notin holders
                  /\ Answer(r)
                  /\ UNCHANGED <<server, stop, loop, holders>>

SharedReturns(r) == /\ request[r] = "shared" /\ Shared(r) \notin holders
                    /\ request' = [request EXCEPT ![r] = "rows"]
                    /\ UNCHANGED <<server, stop, loop, rows, holders>>

InFlight(r) == {h \in Hosts : rows[r][h] = "running"}

(* A row passes the semaphore of its request.                              *)
StartRow(r, h) == /\ request[r] = "rows" /\ rows[r][h] = "queued"
                  /\ Cardinality(InFlight(r)) < MaxSize
                  /\ rows' = [rows EXCEPT ![r][h] = "running"]
                  /\ UNCHANGED <<server, stop, loop, request, holders>>

\* Mutant of EndRow: an exception leaves the row without an answer.
EndRowLost(r, h) == /\ rows[r][h] = "running" /\ <<r, h>> \notin holders
                    /\ \/ rows' = [rows EXCEPT ![r][h] = "ok"]
                       \/ rows' = [rows EXCEPT ![r][h] = "queued"]
                    /\ UNCHANGED <<server, stop, loop, request, holders>>

(* build_status returns, or _status_row answers for its exception.         *)
EndRow(r, h) == /\ rows[r][h] = "running" /\ <<r, h>> \notin holders
                /\ \/ rows' = [rows EXCEPT ![r][h] = "ok"]
                   \/ rows' = [rows EXCEPT ![r][h] = "error"]
                /\ UNCHANGED <<server, stop, loop, request, holders>>

Gathered(r) == /\ request[r] = "rows"
               /\ \A h \in Hosts : rows[r][h] \in {"ok", "error"}
               /\ Answer(r)
               /\ UNCHANGED <<server, stop, loop, holders>>

-----------------------------------------------------------------------------
(* Shutdown.                                                               *)

(* The server takes no more requests and lets the open ones finish.        *)
Shutdown == /\ server = "serving"
            /\ server' = "draining"
            /\ UNCHANGED <<stop, loop, request, rows, holders>>

(* The lifespan ends: it sets the stop event and gathers the loops.        *)
LifespanEnds == /\ server = "draining"
                /\ \A r \in Requests : request[r] = "none"
                /\ server' = "stopping"
                /\ stop' = TRUE
                /\ UNCHANGED <<loop, request, rows, holders>>

\* Mutant of ClosePool: the loops are not gathered.
ClosePoolAtOnce == /\ server = "stopping"
                   /\ server' = "closed"
                   /\ UNCHANGED <<stop, loop, request, rows, holders>>

(* gather returns once every loop has, and main closes the pool.           *)
ClosePool == /\ server = "stopping"
             /\ \A t \in Tasks : loop[t] = "ended"
             /\ server' = "closed"
             /\ UNCHANGED <<stop, loop, request, rows, holders>>

Closed == server = "closed" /\ UNCHANGED vars

Next == \/ \E w \in Threads : Connect(w) \/ Disconnect(w)
        \/ \E t \in Tasks : CheckStop(t) \/ EndTick(t) \/ Wake(t)
        \/ \E r \in Requests :
              \/ Accept(r) \/ SharedFails(r) \/ SharedReturns(r) \/ Gathered(r)
              \/ \E h \in Hosts : StartRow(r, h) \/ EndRow(r, h)
        \/ Shutdown \/ LifespanEnds \/ ClosePool \/ Closed

Spec == Init /\ [][Next]_vars

(* Threads end: SSH, HTTP and the wait for a connection have timeouts, and *)
(* a thread makes finitely many statements.  The event loop runs on, and   *)
(* serves the waiters of a semaphore in turn.                              *)
Fairness == /\ \A w \in Threads : WF_vars(Disconnect(w))
            /\ \A t \in Tasks : /\ WF_vars(CheckStop(t))
                                 /\ SF_vars(EndTick(t))
                                 /\ WF_vars(Wake(t))
            /\ \A r \in Requests :
                  /\ SF_vars(SharedFails(r) \/ SharedReturns(r))
                  /\ WF_vars(Gathered(r))
                  /\ \A h \in Hosts : /\ WF_vars(StartRow(r, h))
                                       /\ SF_vars(EndRow(r, h))
            /\ WF_vars(LifespanEnds) /\ WF_vars(ClosePool)

FairSpec == Spec /\ Fairness

-----------------------------------------------------------------------------
(* Properties.                                                             *)

(* The pool is closed only when no thread can use it any more: no tick is  *)
(* cut off in the middle, and no request is left.                          *)
PoolOutlivesThreads ==
    server = "closed" => holders = {} /\ \A w \in Threads : ~ Running(w)

(* After every tick, failed or not, a loop comes to its next one, until    *)
(* the server stops.                                                       *)
LoopsTick == \A t \in Tasks : loop[t] = "tick" ~> (loop[t] = "check" \/ stop)

(* Every request is answered, with the connections that ticks and other    *)
(* requests leave it.                                                      *)
RequestsAnswered == \A r \in Requests : request[r] # "none" ~> request[r] = "none"

(* A shutdown completes.                                                   *)
ShutdownCompletes == server = "draining" ~> server = "closed"
=============================================================================
