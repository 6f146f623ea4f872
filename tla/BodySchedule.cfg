SPECIFICATION Spec
CONSTANTS
    Worker = {w1, w2, w3}
    None = None
    Plan <- MCPlan
    DepClosure <- depClosure
INVARIANTS
    ScheduleInv
    FactsComplete
    CyclesStable
    ImportsReady
    SleepersWaitForWork
PROPERTIES
    AllAnalysed
