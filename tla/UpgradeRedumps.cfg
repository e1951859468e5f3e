SPECIFICATION Spec
CONSTANTS
    o1 = o1
    o2 = o2
    Objects = {o1, o2}
    Base = pg
    Faults = {"unrecorded"}
    MaxFaults = 1
    MaxUses = 0
INVARIANT DumpIsTheWayForward
CHECK_DEADLOCK FALSE
