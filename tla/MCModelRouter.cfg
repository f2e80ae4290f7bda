SPECIFICATION MCSpec
CONSTANTS
    q1 = q1  q2 = q2  c1 = c1   e1 = e1   t1 = t1  t2 = t2
    r1 = r1  r2 = r2  r3 = r3
    None = None
    Poller = Poller
    Requests = {q1, q2}
    Checks = {c1}
    Revisions = {e1}
    Targets <- MCTargets
    Target <- MCTarget
    Tokens = {t1, t2}
    RouteIds = {r1, r2, r3}
    MaxRV <- MCMaxRV
    MaxSecretRV = 1
    MaxRestarts = 1
    MaxTools = 2
    MaxMessages = 3
    MaxCalls = 2
    MaxSchemaNodes = 6
    MaxSchemaDepth = 2
    BufferSize = 2
    Payloads <- MCPayloads
    Limits <- MCLimits
    Lengths <- MCLengths
SYMMETRY Symmetry
INVARIANTS
    TypeOK
    LeaseHoldsFinalizerWhileRunning
    NoStaleLease
    TokenOutlivesLease
    WithdrawnMeansIdle
    ChatTypeOK
    ToolsVerdict
    AnnotationsStripped
    ResultsAnswerCalls
    
    WithinLimit
    TrailerTells
PROPERTY
    DrainKept
