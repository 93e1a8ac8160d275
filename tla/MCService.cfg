CONSTANTS
    Tasks    = {t1, t2}
    Requests = {r1, r2}
    Hosts    = {h1, h2}
    MaxSize  = 1
SPECIFICATION FairSpec
INVARIANTS TypeOK PoolOutlivesThreads
PROPERTIES LoopsTick RequestsAnswered ShutdownCompletes
