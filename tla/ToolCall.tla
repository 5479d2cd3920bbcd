------------------------------- MODULE ToolCall -------------------------------
(***************************************************************************)
(* One call that ToolExecutor.execute makes of a built-in tool.  The calls *)
(* of a turn follow one another, and no tool keeps a state between calls,  *)
(* so that a call is a behaviour of the one tool it names: what the others *)
(* would work on stands still.  bash has two halves that do not wait for   *)
(* each other, the command with its processes and what becomes of its      *)
(* output; grep and find share their external search.                      *)
(***************************************************************************)
EXTENDS BashProcess, ImageShrink

CONSTANTS
    Tool,                                   \* the halves of tools called
    MaxLines, MaxBytes, MaxRaw, MaxChunk,   \* as in OutputTail
    TextFile, Limit, PageBytes,             \* as in ReadPaging
    EditedCharacter, EditedFile, Request,   \* as in EditSplice
    MaxOutput, PipeSize, OutputCap, ErrorCap    \* as in ExternalSearch

VARIABLES
    tool,                                   \* what is called
    raw, pending, tail, boundary, totalBytes, totalLines, finished,             \* OutputTail
    file, from, offset, got, status,                                            \* ReadPaging
    before, edited, edits, spans, result, editStage,                            \* EditSplice
    child, toWrite, writing, pipe, collected, kept, drainer, caller, written    \* ExternalSearch

outputVars == <<raw, pending, tail, boundary, totalBytes, totalLines, finished>>
readVars == <<file, from, offset, got, status>>
editVars == <<before, edited, edits, spans, result, editStage>>
searchVars == <<child, toWrite, writing, pipe, collected, kept, drainer, caller, written>>
callVars == <<tool, vars, imageVars, outputVars, readVars, editVars, searchVars>>

BashOutput == INSTANCE OutputTail
Reading == INSTANCE ReadPaging WITH File <- TextFile, MaxBytes <- PageBytes
Editing == INSTANCE EditSplice WITH
    Character <- EditedCharacter, File <- EditedFile, file <- edited, stage <- editStage
Searching == INSTANCE ExternalSearch

ASSUME ToolCallAssumption ==
    /\ Tool \subseteq {"bash", "bash output", "read", "read image", "edit", "search"}
    /\ BashOutput!TailAssumption
    /\ Reading!PagingAssumption
    /\ Editing!EditingAssumption
    /\ Searching!SearchAssumption

-----------------------------------------------------------------------------
AnyOf(S) == CHOOSE x \in S : TRUE

\* What is not called is given one input, which it does not touch.
NothingElseIsAsked ==
    /\ tool # "bash" => detached = {} /\ stubborn = {} /\ holders = {}
    /\ tool # "read image" =>
          originalWidth = AnyOf(Width) /\ originalHeight = AnyOf(Height) /\ size = AnyOf(Size)
    /\ tool # "read" => file = AnyOf(TextFile) /\ from = 0
    /\ tool # "edit" => before = AnyOf(EditedFile) /\ edits = AnyOf(Request)
    /\ tool # "search" => toWrite = [s \in Searching!Streams |-> 0] /\ writing = "out"

CallInit ==
    /\ tool \in Tool
    /\ NothingElseIsAsked
    /\ Init /\ ImageInit
    /\ BashOutput!Init /\ Reading!Init /\ Editing!Init /\ Searching!Init

OfBash(action) ==
    /\ tool = "bash" /\ action
    /\ UNCHANGED <<tool, imageVars, outputVars, readVars, editVars, searchVars>>

OfBashOutput(action) ==
    /\ tool = "bash output" /\ action
    /\ UNCHANGED <<tool, vars, imageVars, readVars, editVars, searchVars>>

OfRead(action) ==
    /\ tool = "read" /\ action
    /\ UNCHANGED <<tool, vars, imageVars, outputVars, editVars, searchVars>>

OfReadImage(action) ==
    /\ tool = "read image" /\ action
    /\ UNCHANGED <<tool, vars, outputVars, readVars, editVars, searchVars>>

OfEdit(action) ==
    /\ tool = "edit" /\ action
    /\ UNCHANGED <<tool, vars, imageVars, outputVars, readVars, searchVars>>

OfSearch(action) ==
    /\ tool = "search" /\ action
    /\ UNCHANGED <<tool, vars, imageVars, outputVars, readVars, editVars>>

CallNext ==
    \/ OfBash(Next) \/ OfBashOutput(BashOutput!Next)
    \/ OfRead(Reading!Next) \/ OfReadImage(ImageNext)
    \/ OfEdit(Editing!Next) \/ OfSearch(Searching!Next)

\* What each tool's own specification assumes: the kernel, the child watcher
\* and the event loop run what can run.  As tool never changes, an action that
\* is one tool's step or another's is taken as fairly as each of them.
CallFairness ==
    /\ WF_callVars(OfRead(Reading!Next) \/ OfReadImage(ImageNext)
                   \/ OfBash(Reap) \/ OfSearch(Searching!Child))
    /\ WF_callVars(OfBash(Finished) \/ OfSearch(Searching!Caller))
    /\ WF_callVars(OfBash(Timeout) \/ OfSearch(Searching!Drainer))
    /\ WF_callVars(OfBash(Stopped))
    /\ WF_callVars(OfBash(Escalate))
    /\ WF_callVars(OfBash(Return))

CallSpec == CallInit /\ [][CallNext]_callVars /\ CallFairness

-----------------------------------------------------------------------------
(* The promises of the tools; those of BashProcess and ImageShrink have     *)
(* their names already.                                                     *)

\* However its output was cut into chunks, bash shows the last lines of it, as
\* many as fit, and says which they are and whether something is missing.
SnapshotIsTheTail == BashOutput!SnapshotIsTheTail

\* Whoever follows read's notices gets the lines of the file, each once, in
\* order, and none left out but those too long for a page.
PagesTileTheFile == tool = "read" => Reading!PagesTileTheFile

\* A successful edit replaced texts that are its old texts, with the file its
\* replacements give when they are all made at once.
EditsAreSimultaneous == Editing!EditsAreSimultaneous

\* An edit keeps uniform line endings and the byte-order mark, and gives the
\* file none; a rejected one keeps the file.
FilesKeepTheirStyle == Editing!FilesKeepTheirStyle

\* Calls come to their end: a reader that follows the notices at the last line,
\* whatever cut the pages; an image at a size that fits or at none; and a
\* search at its answer, whichever pipe its child fills first.
CallsEnd ==
    /\ tool = "read" => Reading!ReadingEnds
    /\ tool = "read image" => ShrinkingEnds
    /\ tool = "search" => Searching!SearchesAnswer

=============================================================================
