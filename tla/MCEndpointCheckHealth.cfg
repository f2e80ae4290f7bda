SPECIFICATION Spec
CONSTANTS
    Poll = 2
    Interval = 4
    FlashMax = 1
    MaxCall = 1
    Cap = 5
    MaxChanges = 0
    MaxFaults = 0
PROPERTY
    HealthCadence
