SPECIFICATION Spec
CONSTANTS
    s1 = s1  s2 = s2  s3 = s3
    Services = {s1, s2}
    Rank <- MCRank
    Dependencies = {s1}
    MaxDepth = 2
    MaxCalls = 2
    MaxRegisters = 2
CHECK_DEADLOCK FALSE
PROPERTY
    StartRespectsDependencies
