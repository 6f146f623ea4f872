\* One process at a time; three declarations that may fill a process each.
CONSTANTS
    Processes = {p1}
    Declarations = 3
    Checks = 2
    BodyTimes = {1, 3, 8}
    CheckTimes = {1}
    Deadline = 11
    Startup = 1
    SaveTime = 2
    StoreTime = 3
    Margin = 2
    CheckMargin = 1
    Automatic = TRUE
    MaxTaints = 1
    MaxKills = 1
SPECIFICATION Spec
INVARIANT BuildInv
PROPERTIES NothingTaintedSaved ProgressKept Completes
