\* The only run id may be used up with nothing left running.
CHECK_DEADLOCK FALSE
CONSTANTS
    Session = {s1, s2}
    Run = {r1}
    NoSession = NoSession
    Process = {p1}
    NoProcess = NoProcess
    c1 = c1
    c2 = c2
    c3 = c3
    CallId <- MCCallId
    CallLists <- MCCallLists
    MaxItems = 6
SPECIFICATION Spec
INVARIANTS
    HistoryIsReplayable

    
