SPECIFICATION MCSpec
CONSTANTS
    MaxSends = 2
    MaxForms = 2
    MaxMoves = 3
    Concurrency = 2
    MaxReads = 4
    Options = {o1, o2}
    MaxClicks = 3
    Persons = {p, q}
    Nobody = nobody
    MaxChanges = 2
    MaxMenuAsks = 2
    Accounts = {a, b}
    Noone = noone
    MaxLogins = 2
    MaxTrips = 4
INVARIANTS RetryWritesOnce ShownIsHeld ReadsTakeTurns ClicksSettle RowsTellTheTruth MenuTellsTheTruth SessionsAreKept
PROPERTIES DraftsAreKept 
CHECK_DEADLOCK FALSE
