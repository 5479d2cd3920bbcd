\* Every id may be used up with nothing left running.
CHECK_DEADLOCK FALSE
CONSTANTS
    Session = {s1, s2}
    Run = {r1, r2}
    NoSession = NoSession
    Process = {p1, p2}
    NoProcess = NoProcess
    c1 = c1
    c2 = c2
    CallId <- MCCallId
    CallLists <- MCCallLists
    MaxItems = 3
SYMMETRY MCSymmetry
SPECIFICATION Spec
INVARIANTS
    TurnIsWhatWasStreamed
    LogClosesWithTheAnswer
    OrphansAreFaultsOrCrashes
PROPERTIES
    ImplementsContract
