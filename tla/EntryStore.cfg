CONSTANTS
    a = a
    b = b
    x = x
    t1 = t1
    s1 = s1
    s2 = s2
    d1 = d1
    none = none
    None = none
    Contents <- ThreeContents
    Topics <- OneTopic
    Redacted <- Scrubbed
    Savers <- TwoSavers
    Cleaners <- OneCleaner
    Legacy = 1
    Batch = 1
    MaxRows = 2
    MaxUses = 1
SPECIFICATION Spec
INVARIANTS
    TypeOK
    
    
SYMMETRY Interchangeable
CHECK_DEADLOCK FALSE
