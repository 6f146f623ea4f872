CONSTANTS
    Worker = {w1, w2}
    Task = {t1, t2, t3}
    Client = {c1}
    Owner = owner
    NoTask = NoTask
SPECIFICATION FairSpec
INVARIANTS PoolInv MemorySafe OutstandingCounts NothingLeaked WorkConserving
PROPERTIES TasksFinish WaitsReturn ShutdownReturns
