SPECIFICATION FairSpec
CONSTANTS
    o1 = o1
    o2 = o2
    Objects = {o1, o2}
    Base = pg
    Faults <- AllFaults
    MaxFaults = 3
    MaxUses = 1
INVARIANTS
    TypeOK
    
    ForwardUnlessCutOff
    ReportIsTrue
PROPERTIES
    
    Migrates
CHECK_DEADLOCK FALSE
