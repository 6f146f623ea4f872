CONSTANTS
    x = x
    y = y
    A = A
    B = B
    C = C
    Absent = Absent
    None = None
    Free = Free
    Client = {c1}
    InputKey <- MCInputKey
    QueryKey <- MCQueryKey
    Value <- MCValue
    Size <- MCSize
    Step <- MCStep
    InitialGrant <- MCGrant
    MaxBatch = 3
    MaxChanges = 2
    MaxRevision = 3
    LastBatch = 2
SPECIFICATION MCFairSpec
INVARIANTS DatabaseInv VerifiedMemosCurrent AnswersFresh NoPhantomExecution
PROPERTY GateReleased
