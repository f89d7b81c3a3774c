SPECIFICATION FairSpec
CONSTANTS
    u1 = u1
    u2 = u2
    i1 = i1
    i2 = i2
    User = {u1}
    Instance = {i1}
    None = None
    Lifespans = {1, 2}
    CacheFor = 0
    Margin = 1
    Slack = 1
    Recheck = 1
    RetryCap = 2
PROPERTY EveryAccountGoes
