CONSTANTS
    e1 = e1
    e2 = e2
    m1 = m1
    m2 = m2
    s1 = s1
    s2 = s2
    Entries <- TwoEntries
    Machines <- OneMachine
    Syncers <- TwoSyncers
    Home <- Together
    Tasks <- OneWay
    Editors <- OneMachine
    Touches = FALSE
    Skew = 1
    Limit = 1
    MaxTime = 3
    MaxEdits = 2
    MaxFaults = 1
SPECIFICATION Spec
INVARIANTS
    TypeOK
    
    
SYMMETRY SameEntries
CHECK_DEADLOCK FALSE
