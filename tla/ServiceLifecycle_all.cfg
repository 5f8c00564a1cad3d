SPECIFICATION Spec
CONSTANTS
    s1 = s1  s2 = s2  s3 = s3
    Services = {s1, s2, s3}
    Rank <- MCRank
    Dependencies = {s1, s2}
    MaxDepth = 2
    MaxCalls = 3
    MaxRegisters = 3
CHECK_DEADLOCK FALSE
INVARIANTS
    RegistryConsistent
    StatesAreTrue
PROPERTIES
    DependenciesKept
