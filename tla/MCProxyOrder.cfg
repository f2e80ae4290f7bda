SPECIFICATION MCProxySpec
CONSTANTS
    MaxTools = 2
    MaxMessages = 3
    MaxCalls = 2
    MaxSchemaNodes = 6
    MaxSchemaDepth = 2
    BufferSize = 2
    Payloads <- MCPayloads
    Limits <- MCLimits
    Lengths <- MCLengths
CHECK_DEADLOCK FALSE
INVARIANT
    ResultsFollowCalls
