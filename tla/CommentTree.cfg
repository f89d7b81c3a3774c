SPECIFICATION Spec
CONSTANTS
    Comment = {c1, c2, c3, c4}
    Reader = {ann, ben}
    NoParent = NoParent
    NoAuthor = NoAuthor
SYMMETRY Symmetry
INVARIANTS
    ReplyCountIsShown
    StandingIsReachable
    NoEmptyPlaceholder
PROPERTIES
    RecordsStay
    KeepsThePage
\* Every id may be in use by a row that nothing takes away
CHECK_DEADLOCK FALSE
