CONSTANTS
    Service = {s1}
    Mode <- MCAllModes
    Width = 1
    Outside = {s1}
    Orphans = FALSE
    Caller = {c1}
    RestoreCall = RestoreCall
SPECIFICATION Spec
INVARIANTS TypeOK AlteredIsJournaled ConflictIsForeign RestoredMeansBaseline
PROPERTIES BaselineIsKept
