\* The response ends.
CHECK_DEADLOCK FALSE
CONSTANTS
    Piece = {"x"}
    Object = {"o"}
    MaxItems = 2
    MaxParts = 2
SPECIFICATION Spec
INVARIANTS
    StreamIsWellFormed
    TerminalAgreesWithStream
    TurnIsTheResponse
