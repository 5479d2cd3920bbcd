\* A call that is over takes no further step.
CHECK_DEADLOCK FALSE
CONSTANTS
    Tool = {"bash", "bash output", "read", "read image", "edit", "search"}
    Process = {sh, p1, p2}
    Shell = sh
    MaxLines = 2
    MaxBytes = 4
    MaxRaw = 7
    MaxChunk = 2
    TextFile <- MCTextFile
    Limit <- MCLimit
    PageBytes = 3
    Width <- MCWidth
    Height <- MCHeight
    Size <- MCSize
    MaxWidth = 6
    MaxHeight = 5
    MaxSize = 3
    EditedCharacter <- MCEditedCharacter
    EditedFile <- MCEditedFile
    Request <- MCRequest
    MaxOutput = 5
    PipeSize = 2
    OutputCap = 4
    ErrorCap = 3
SPECIFICATION CallSpec
INVARIANTS
    AnswersAreFinal
    SnapshotIsTheTail
    PagesTileTheFile
    SentImagesFit
    
    EditsAreSimultaneous
    FilesKeepTheirStyle
PROPERTIES
    TimeoutStopsTheShell
    StoppedCommandsReturn
    CallsEnd
