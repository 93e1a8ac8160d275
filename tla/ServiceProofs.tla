---------------------------- MODULE ServiceProofs ----------------------------
(***************************************************************************)
(* Theorems about the process and its pool, for any number of loops,       *)
(* requests, hosts and connections.                                        *)
(***************************************************************************)
EXTENDS Service, TLAPS

(* Rows run only for a request that has come to them.                      *)
RowsAreAsked == \A r \in Requests : request[r] # "rows" => rows[r] = NoRows

(* The order of the shutdown: no request is open once the lifespan ends,   *)
(* and no loop is left once the pool is closed.                            *)
ShutdownInOrder ==
    /\ server \in {"stopping", "closed"} => \A r \in Requests : request[r] = "none"
    /\ server = "closed" => \A t \in Tasks : loop[t] = "ended"

IInv == TypeOK /\ RowsAreAsked /\ ShutdownInOrder

\* The types of what is not the pool.
ProcessTypes ==
    /\ server \in {"serving", "draining", "stopping", "closed"}
    /\ stop \in BOOLEAN
    /\ loop \in [Tasks -> {"check", "tick", "wait", "ended"}]
    /\ request \in [Requests -> {"none", "shared", "rows"}]
    /\ rows \in [Requests -> [Hosts -> {"queued", "running", "ok", "error"}]]

LEMMA NoRowsFacts ==
    /\ NoRows \in [Hosts -> {"queued", "running", "ok", "error"}]
    /\ \A h \in Hosts : NoRows[h] # "running"
  BY DEF NoRows

LEMMA InitHolds == Init => IInv
  <1> SUFFICES ASSUME Init PROVE IInv  OBVIOUS
  <1>1. loop \in [Tasks -> {"check", "tick", "wait", "ended"}]
    BY DEF Init
  <1>2. TypeOK
    BY <1>1, NoRowsFacts DEF Init, TypeOK
  <1>3. RowsAreAsked /\ ShutdownInOrder
    BY DEF Init, RowsAreAsked, ShutdownInOrder
  <1>4. QED  BY <1>2, <1>3 DEF IInv

-----------------------------------------------------------------------------

\* Who holds a connection runs on, when threads that hold none end.
LEMMA HoldersRun ==
  ASSUME TypeOK, ProcessTypes', holders' = holders,
         \A w \in holders : Running(w) => Running(w)'
  PROVE  TypeOK'
  BY DEF TypeOK, ProcessTypes

LEMMA LoopHolds ==
  ASSUME IInv, NEW t \in Tasks, NEW step \in {"check", "tick", "wait", "ended"},
         loop' = [loop EXCEPT ![t] = step], loop[t] # "ended",
         t \notin holders \/ loop[t] # "tick",
         UNCHANGED <<server, stop, request, rows, holders>>
  PROVE  IInv'
  <1>1. ProcessTypes'
    BY DEF IInv, TypeOK, ProcessTypes
  <1>2. \A u \in Tasks \ {t} : loop'[u] = loop[u]
    BY DEF IInv, TypeOK
  <1>3. TypeOK'
    <2>1. ASSUME NEW w \in holders, Running(w) PROVE Running(w)'
      BY <1>2, <2>1 DEF Running
    <2>2. QED  BY <1>1, <2>1, HoldersRun DEF IInv
  <1>4. QED
    BY <1>3 DEF IInv, RowsAreAsked, ShutdownInOrder

\* An answer ends a request none of whose threads holds a connection.
LEMMA AnswerHolds ==
  ASSUME IInv, NEW r \in Requests, Answer(r), request[r] # "none",
         Shared(r) \notin holders \/ request[r] # "shared",
         \A h \in Hosts : rows[r][h] # "running",
         UNCHANGED <<server, stop, loop, holders>>
  PROVE  IInv'
  <1>1. /\ request'[r] = "none" /\ rows'[r] = NoRows
        /\ \A q \in Requests \ {r} : request'[q] = request[q] /\ rows'[q] = rows[q]
    BY DEF Answer, IInv, TypeOK
  <1>2. ProcessTypes'
    BY NoRowsFacts DEF Answer, IInv, TypeOK, ProcessTypes
  <1>3. TypeOK'
    <2>1. ASSUME NEW w \in holders, Running(w) PROVE Running(w)'
      BY <1>1, <2>1 DEF Running
    <2>2. QED  BY <1>2, <2>1, HoldersRun DEF IInv
  <1>4. QED
    BY <1>1, <1>3 DEF IInv, RowsAreAsked, ShutdownInOrder

\* A request that goes on before its rows run.
LEMMA RequestHolds ==
  ASSUME IInv, NEW r \in Requests, NEW step \in {"shared", "rows"},
         request' = [request EXCEPT ![r] = step],
         request[r] # "rows", Shared(r) \notin holders \/ request[r] # "shared",
         server = "serving" \/ request[r] # "none",
         UNCHANGED <<server, stop, loop, rows, holders>>
  PROVE  IInv'
  <1>1. ProcessTypes'
    BY DEF IInv, TypeOK, ProcessTypes
  <1>2. \A q \in Requests \ {r} : request'[q] = request[q]
    BY DEF IInv, TypeOK
  <1>3. TypeOK'
    <2>1. ASSUME NEW w \in holders, Running(w) PROVE Running(w)'
      BY <1>2, <2>1 DEF Running
    <2>2. QED  BY <1>1, <2>1, HoldersRun DEF IInv
  <1>4. QED
    BY <1>2, <1>3 DEF IInv, RowsAreAsked, ShutdownInOrder

LEMMA RowHolds ==
  ASSUME IInv, NEW r \in Requests, NEW h \in Hosts, NEW step \in {"running", "ok", "error"},
         rows' = [rows EXCEPT ![r][h] = step],
         request[r] = "rows", <<r, h>> \notin holders \/ rows[r][h] # "running",
         UNCHANGED <<server, stop, loop, request, holders>>
  PROVE  IInv'
  <1>1. ProcessTypes'
    BY DEF IInv, TypeOK, ProcessTypes
  <1>2. /\ \A q \in Requests \ {r} : rows'[q] = rows[q]
        /\ \A g \in Hosts \ {h} : rows'[r][g] = rows[r][g]
    BY DEF IInv, TypeOK
  <1>3. TypeOK'
    <2>1. ASSUME NEW w \in holders, Running(w) PROVE Running(w)'
      <3>1. ASSUME NEW q \in Requests, NEW g \in Hosts, w = <<q, g>>, rows[q][g] = "running"
            PROVE  rows'[q][g] = "running"
        BY <1>2, <3>1
      <3>2. QED  BY <2>1, <3>1 DEF Running
    <2>2. QED  BY <1>1, <2>1, HoldersRun DEF IInv
  <1>4. QED
    BY <1>2, <1>3 DEF IInv, RowsAreAsked, ShutdownInOrder

LEMMA NextHolds == IInv /\ [Next]_vars => IInv'
  <1> SUFFICES ASSUME IInv, [Next]_vars PROVE IInv'  OBVIOUS
  <1>1. ASSUME NEW w \in Threads, Connect(w) \/ Disconnect(w) PROVE IInv'
    BY <1>1 DEF Connect, Disconnect, IInv, TypeOK, Running, RowsAreAsked, ShutdownInOrder
  <1>2. ASSUME NEW t \in Tasks, CheckStop(t) \/ EndTick(t) \/ Wake(t) PROVE IInv'
    <2>1. CASE CheckStop(t)
      <3>1. (IF stop THEN "ended" ELSE "tick") \in {"check", "tick", "wait", "ended"}
        OBVIOUS
      <3>2. QED  BY <2>1, <3>1, LoopHolds DEF CheckStop
    <2>2. CASE EndTick(t)  BY <2>2, LoopHolds DEF EndTick
    <2>3. CASE Wake(t)  BY <2>3, LoopHolds DEF Wake
    <2>4. QED  BY <1>2, <2>1, <2>2, <2>3
  <1>3. ASSUME NEW r \in Requests, Accept(r) PROVE IInv'
    BY <1>3, RequestHolds DEF Accept
  <1>4. ASSUME NEW r \in Requests, SharedReturns(r) PROVE IInv'
    BY <1>4, RequestHolds DEF SharedReturns
  <1>5. ASSUME NEW r \in Requests, SharedFails(r) PROVE IInv'
    <2>1. \A h \in Hosts : rows[r][h] # "running"
      BY <1>5, NoRowsFacts DEF SharedFails, IInv, RowsAreAsked
    <2>2. QED  BY <1>5, <2>1, AnswerHolds DEF SharedFails
  <1>6. ASSUME NEW r \in Requests, Gathered(r) PROVE IInv'
    BY <1>6, AnswerHolds DEF Gathered
  <1>7. ASSUME NEW r \in Requests, NEW h \in Hosts, StartRow(r, h) PROVE IInv'
    BY <1>7, RowHolds DEF StartRow
  <1>8. ASSUME NEW r \in Requests, NEW h \in Hosts, EndRow(r, h) PROVE IInv'
    <2>1. request[r] = "rows"
      BY <1>8, NoRowsFacts DEF EndRow, IInv, RowsAreAsked
    <2>2. QED  BY <1>8, <2>1, RowHolds DEF EndRow
  <1>9. CASE Shutdown \/ LifespanEnds \/ ClosePool
    <2>1. ProcessTypes' /\ holders' = holders
      BY <1>9 DEF Shutdown, LifespanEnds, ClosePool, IInv, TypeOK, ProcessTypes
    <2>2. TypeOK'
      BY <1>9, <2>1, HoldersRun DEF Shutdown, LifespanEnds, ClosePool, IInv, Running
    <2>3. QED
      BY <1>9, <2>2
         DEF Shutdown, LifespanEnds, ClosePool, IInv, RowsAreAsked, ShutdownInOrder
  <1>10. CASE Closed \/ UNCHANGED vars
    BY <1>10 DEF Closed, vars, IInv, TypeOK, Running, RowsAreAsked, ShutdownInOrder
  <1>11. QED
    BY <1>1, <1>2, <1>3, <1>4, <1>5, <1>6, <1>7, <1>8, <1>9, <1>10 DEF Next

-----------------------------------------------------------------------------

(* Threads, connections and the order of the shutdown agree at every       *)
(* moment, whichever statements fail (main, lifespan, run_forever).        *)
THEOREM Invariance == Spec => []IInv
  BY InitHolds, NextHolds, PTL DEF Spec

(* The state stays in its types, and only running threads hold one of the  *)
(* pool's connections.                                                     *)
THEOREM TypeCorrect == Spec => []TypeOK
  BY Invariance, PTL DEF IInv

(* The pool is closed after every thread that could use it has ended (the  *)
(* lifespan's gather before main's finally).                               *)
THEOREM PoolIsClosedLast == Spec => []PoolOutlivesThreads
  <1>1. IInv => PoolOutlivesThreads
    <2> SUFFICES ASSUME IInv, server = "closed"
                 PROVE  holders = {} /\ \A w \in Threads : ~ Running(w)
      BY DEF PoolOutlivesThreads
    <2>1. /\ \A r \in Requests : request[r] = "none" /\ rows[r] = NoRows
          /\ \A t \in Tasks : loop[t] = "ended"
      BY DEF IInv, RowsAreAsked, ShutdownInOrder
    <2>2. \A w : ~ Running(w)
      BY <2>1, NoRowsFacts DEF Running
    <2>3. QED  BY <2>2 DEF IInv, TypeOK
  <1>2. QED  BY <1>1, Invariance, PTL
=============================================================================
