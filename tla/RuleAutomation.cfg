CONSTANTS
    Rule <- MCRule
    Execution <- MCExecution
    RuleOf <- MCRuleOf
    Kind <- MCKind
    Admin <- MCAdmin
    Limit = 2
SPECIFICATION Spec
INVARIANTS TypeOK AwaitingIsAnnounced ReadyMeansResumed EarlierSessionNeverRuns
PROPERTIES DecidedIsFinal
