SPECIFICATION FairSpec
CONSTANTS
    x = x
    Entry = {x}
    Moved = {x}
    None = None
    Delays = 2
    LastTitle = 1
INVARIANTS
    RememberedHasArrived
    DeletedStaysDeleted
    NothingBehindA304
PROPERTIES
    OnlyRetriesTurnTitlesBack
    NewsArrives
