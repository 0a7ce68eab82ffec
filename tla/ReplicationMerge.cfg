CONSTANTS
    e1 = e1
    e2 = e2
    m1 = m1
    m2 = m2
    s1 = s1
    s2 = s2
    Entries <- OneEntry
    Machines <- TwoMachines
    Syncers <- TwoSyncers
    Home <- OneEach
    Tasks <- Uneven
    Editors <- TwoMachines
    Touches = TRUE
    Skew = 1
    Limit = 2
    MaxTime = 3
    MaxEdits = 2
    MaxFaults = 0
SPECIFICATION Spec

    
    
    
PROPERTIES
    RowsOnlyAdvance
CHECK_DEADLOCK FALSE
