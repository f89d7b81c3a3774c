SPECIFICATION MCSpec
CONSTANTS
    Old <- MCOld
    MaxComments = 4
    His = {2}
    PageSize = 1
    MaxLoads = 3
    MaxFlight = 2
    MaxAsks = 3
INVARIANTS ViewFollowsAddress  LoadingIsAsked
PROPERTIES OnlyLatePagesMixOrders
CHECK_DEADLOCK FALSE
