SPECIFICATION ErasureSpec
CONSTANTS
    Comment = {c1, c2, c3, c4}
    Reader = {ann, ben}
    NoParent = NoParent
    NoAuthor = NoAuthor
    BatchSize = 4
SYMMETRY Symmetry
INVARIANT StandingIsReachable
\* Every id may be in use by a row that nothing takes away
CHECK_DEADLOCK FALSE
