SPECIFICATION FairSpec
CONSTANTS
    i1 = i1  i2 = i2  f = f  u = u
    None = None
    Kinds = {"Endpoint", "Template"}
    Own = {i1, i2}
    Foreign = f
    Unknown = u
    MaxPosts = 2
    MaxTampers = 1
    MaxFaults = 2
CHECK_DEADLOCK FALSE
INVARIANTS
    TypeOK
    AtMostOne
    GoneMeansDeleted
    ForeignUntouched
    TemplateWritesInTime
PROPERTY
    TemplateDeletionCompletes
