SPECIFICATION PluginSpec
CONSTANTS
    p1 = p1  p2 = p2  p3 = p3  p4 = p4
    Plugins = {p1, p2, p3, p4}
    NoPlugin = NoPlugin
    Orders <- MCOrders
    Graphs <- MCGraphs
    Compatible = {p1, p2, p3}
    MaxDepth = 6
    MaxCalls = 3
    MaxNested = 0
    MaxFaults = 1
CHECK_DEADLOCK FALSE
INVARIANT NoRunawayRecursion
