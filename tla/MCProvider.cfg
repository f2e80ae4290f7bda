SPECIFICATION MCSpec
CONSTANTS
    MaxAttempts = 4
    c1 = c1
    Checks = {c1}
    DeleteReferencedTemplateOnExpiry = TRUE
    MaxCreations = 2
    MaxCrashes = 1
CHECK_DEADLOCK FALSE
INVARIANTS
    TypeOK
    RetriesOnlyReads
    RefusalIsFinal
    OutcomeIsTrue
    ZeroBeforeDelete
    TeardownTypeOK
    DrainedBeforeDelete
    TemplateOutlivesEndpoint
    ReapIntentSurvives
PROPERTIES
    NothingAfterDoubt
    CallReturns
    ChecksDrain
