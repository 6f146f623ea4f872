CONSTANTS
    x = x
    y = y
    A = A
    B = B
    Absent = Absent
    None = None
    Free = Free
    Client = {c1}
    InputKey <- MCInputKey
    QueryKey <- MCQueryKey
    Value <- MCValue
    Size <- MCSize
    KeyBytes <- MCKeyBytes
    Step <- MCStep
    InitialGrant <- MCNothing
    Limits <- MCLimits
    Batch <- MCBatch
    Delta <- MCDelta
    MaxBatch = 1
    MaxChanges = 1
    MaxRevision = 1
    MaxEpoch = 3
SPECIFICATION SessionSpec
INVARIANTS DatabaseInv WorldCoherent DatabaseHoldsWorld AnswersOfWorld
