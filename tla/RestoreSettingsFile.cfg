CONSTANTS
    old = old
    new = new
    Job = {j1}
    NoJob = NoJob
    N = 1
    Kind <- MCKind
    Value <- MCValue
    Target <- MCTarget
    Caller = {c1}
    RestoreCall = RestoreCall
SPECIFICATION Spec
INVARIANTS CompletedSettingsPersisted
