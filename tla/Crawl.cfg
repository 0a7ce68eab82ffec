CONSTANTS
    f1 = f1
    f2 = f2
    todo = todo
    plain = plain
    huge = huge
    none = none
    empty = empty
    None = none
    Empty = empty
    Files <- TwoFiles
    Versions <- ThreeVersions
    Marked <- TodoIsMarked
    Unlisted <- HugeIsUnlisted
    MaxEvents = 2
SPECIFICATION Spec
INVARIANTS
    TypeOK
    
    
    NoOrphans
SYMMETRY Interchangeable
