\* A store may fall silent: every id is used and no run is active.
CHECK_DEADLOCK FALSE
CONSTANTS
    Session = {s1, s2, s3}
    Run = {r1, r2, r3}
    NoSession = NoSession
    a = a
    b = b
    Item <- MCItem
    Delta <- MCDelta
SYMMETRY MCSymmetry
SPECIFICATION Spec
INVARIANTS
    OneActiveRun
    SnapshotIsCurrent
    WholeTurns
PROPERTIES
    EndedRunsStayEnded
    HistoryGrowsByFinishOnly
