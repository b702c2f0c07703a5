\* Two students who change between two groups.
CONSTANTS
    Students = {s1, s2}
    Groups = {g1, g2}
    NoGroup = none
    MaxSubs = 3
    MaxUploads = 2
    MaxEvents = 2
SYMMETRY MCSymmetry
SPECIFICATION Spec
INVARIANTS
    TypeOK
    ReadyHasWork
    OwnGroupsWork
CHECK_DEADLOCK FALSE
