SPECIFICATION Spec
CONSTANTS
    i1 = i1 i2 = i2 c1 = c1 c2 = c2
    None = None
    IP <- MCIP
    Call <- MCCall
    Burst = 2
    Window = 3
    MaxClock = 4
SYMMETRY Symmetry
INVARIANTS TypeOK IntervalLimit
PROPERTIES QuietIsAdmitted
