SPECIFICATION FairSpec
CONSTANTS
    Poll = 1
    Interval = 2
    FlashMax = 1
    MaxCall = 1
    Cap = 3
    MaxChanges = 1
    MaxFaults = 1
INVARIANTS
    TypeOK
    VerifiedMeansProbed
    ReadyMeansWorkerSeen
PROPERTIES
    ProbeCadence
    ExpiryWithdraws
