SPECIFICATION Spec
CONSTANTS
    Thread = {t1, t2}
    NotSeen = NotSeen
INVARIANTS
    WorkStateSafe
    ResultsReady
PROPERTIES
    StatesFreed
    CompletionSticks
