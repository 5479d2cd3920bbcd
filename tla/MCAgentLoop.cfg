\* The task ends.
CHECK_DEADLOCK FALSE
CONSTANTS
    c1 = c1
    c2 = c2
    c3 = c3
    CallId <- MCCallId
    CallLists <- MCCallLists
    CommittedItems <- MCCommitted
    MaxItems = 7
    MaxFollowUps = 2
SPECIFICATION Spec
INVARIANTS
    ProviderSeesTheRun
    FirstReportDecides
    
    ScopesNest

    
