SPECIFICATION Spec
CONSTANTS
    u1 = u1
    u2 = u2
    i1 = i1
    i2 = i2
    User = {u1}
    Instance = {i1, i2}
    None = None
    Lifespans = {1, 2}
    CacheFor = 2
    Margin = 2
    Slack = 1
    Recheck = 1
    RetryCap = 2
SYMMETRY Symmetry
INVARIANTS
    TraceGoesFirst
    NothingIsForgotten
PROPERTIES  KeepsItsPromise
