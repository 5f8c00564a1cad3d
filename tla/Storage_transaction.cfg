\* An update that fails half way, against the transaction-like updates of the documentation.
CONSTANTS
    parent = parent
    child = child
    k = k
    none = none
    Keys <- MCKeys
    Foreign <- MCForeign
    Ttls <- MCTtls
    Values = {"list", "tuple", "opaque"}
    Encodable = {"list", "tuple"}
    JsonOf <- MCJsonOf
    Nothing = "nothing"
    Blank = "list"
    CtxTtls <- MCCtxTtls
    MaxTime = 1
    MaxFaults = 1
    MaxCalls = 4
    Ctxs <- MCCtxs
    ParentOf <- MCParentOf
    NoCtx = none
    SlotOf <- MCSlotOf
    AllSlot <- MCAllSlot
    MaxObjs = 3
SPECIFICATION Spec
INVARIANT UpdatesAreTransactional
CHECK_DEADLOCK FALSE
