SPECIFICATION Spec
CONSTANTS
    i1 = i1  i2 = i2  f = f  u = u
    None = None
    Kinds = {"Endpoint"}
    Own = {i1, i2}
    Foreign = f
    Unknown = u
    MaxPosts = 1
    MaxTampers = 0
    MaxFaults = 0
CHECK_DEADLOCK FALSE
INVARIANT
    NoWriteAfterDeadline
