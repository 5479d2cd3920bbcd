CONSTANTS
    Session = {1, 2}
    Run = {r1}
    MaxTime = 1
SPECIFICATION Spec
INVARIANTS
    ListedInCreationOrder
