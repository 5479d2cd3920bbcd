CONSTANTS
    Session = {1, 2, 3}
    Run = {r1, r2}
    MaxTime = 2
SYMMETRY MCSymmetry
SPECIFICATION Spec
INVARIANTS
    ClockNeverBreaksRecords
