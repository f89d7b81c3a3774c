SPECIFICATION Spec
CONSTANTS
    t1 = t1
    t2 = t2
    t3 = t3
    ann = ann
    eve = eve
    Tab = {t1, t2, t3}
    StaffOf <- StaffAtTabs
    Author = ann
    Chief = {eve}
    None = None
    MaxSaves = 2
    MaxVersion = 3
SYMMETRY Symmetry
PROPERTIES
    DraftWorkIsNotLost
    EditWorkIsNotLost
    PublishedIsNeverDeleted
\* Nobody can open an article that was deleted
CHECK_DEADLOCK FALSE
