CONSTANTS
    old = old
    new = new
    Job = {j1}
    NoJob = NoJob
    N = 3
    Kind <- MCKind
    Value <- MCValue
    Target <- MCTarget
    Caller = {c1}
    RestoreCall = RestoreCall
SPECIFICATION FairSpec
INVARIANTS TypeOK TouchedIsJournaled CompletedStaysRestored FirstErrorStops ExclusiveRestore
PROPERTIES ImplementsWriteAhead CompletedIsFinal RestoreEnds StartupSettlesJournal
