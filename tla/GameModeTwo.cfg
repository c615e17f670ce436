CONSTANTS
    Service = {s1, s2}
    Mode <- MCMode
    Width = 2
    Outside = {}
    Orphans = FALSE
    Caller = {c1}
    RestoreCall = RestoreCall
SPECIFICATION FairSpec
INVARIANTS AppsCloseAfterServices ScriptsUnderGate
PROPERTIES OperationEnds
