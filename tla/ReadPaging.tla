------------------------------ MODULE ReadPaging ------------------------------
(***************************************************************************)
(* A model that reads a text file with the read tool: each call returns a  *)
(* page of whole lines, and a notice suggests the offset to continue at.   *)
(* The reader follows those notices, with any limit on each call; past a   *)
(* line too long for any page, which a notice tells it to read otherwise,  *)
(* it goes on with the next line.                                          *)
(***************************************************************************)
EXTENDS Truncation, Integers

CONSTANTS
    File,       \* files, each as its lines: content.split("\n")
    Limit,      \* values of the limit argument
    MaxBytes    \* OUTPUT_BYTE_LIMIT

PagingAssumption ==
    /\ File \subseteq Seq(Seq(Character))
    /\ Limit \subseteq Int
    /\ MaxBytes \in Nat

VARIABLES
    file,       \* the lines of the file
    from,       \* the offset the reader starts at; 0 for None
    offset,     \* the offset of the next call
    got,        \* the lines read, TooLong for one that fits no page
    status      \* "reading", "complete", "beyond" (error), "ended"

vars == <<file, from, offset, got, status>>

TooLong == <<"too long">>

StartIndex(requested) == IF requested - 1 > 0 THEN requested - 1 ELSE 0

\* The lines from the requested offset to the end.
SelectContent(requested) == SubSeq(file, StartIndex(requested) + 1, Len(file))

Page(requested, limit) ==
    TruncateLines(SelectContent(requested), "head", IF limit > 1 THEN limit ELSE 1, MaxBytes)

\* Mutant: the next page starts with the last line of this one.
NextOffsetOverlapping(requested, page) == StartIndex(requested) + Len(page.lines)

\* end_line + 1
NextOffset(requested, page) == StartIndex(requested) + 1 + Len(page.lines)

BeyondTheEnd == StartIndex(offset) >= Len(file)

Init ==
    /\ file \in File
    /\ from \in 0..(Len(file) + 2)
    /\ offset = from
    /\ got = <<>>
    /\ status = "reading"

ReadBeyond ==
    /\ status = "reading"
    /\ BeyondTheEnd
    /\ status' = IF got = <<>> THEN "beyond" ELSE "ended"
    /\ UNCHANGED <<file, from, offset, got>>

\* Mutant: a page that holds no line is shown as any other.
ReadTooLongAsPage(limit) ==
    /\ status = "reading"
    /\ ~BeyondTheEnd
    /\ Page(offset, limit).edgeLineExceedsLimit
    /\ offset' = NextOffset(offset, Page(offset, limit))
    /\ UNCHANGED <<file, from, got, status>>

ReadTooLong(limit) ==
    /\ status = "reading"
    /\ ~BeyondTheEnd
    /\ Page(offset, limit).edgeLineExceedsLimit
    /\ got' = Append(got, TooLong)
    /\ offset' = StartIndex(offset) + 2
    /\ UNCHANGED <<file, from, status>>

ReadPage(limit) ==
    LET page == Page(offset, limit)
    IN /\ status = "reading"
       /\ ~BeyondTheEnd
       /\ ~page.edgeLineExceedsLimit
       /\ got' = got \o page.lines
       /\ IF page.truncated
          THEN offset' = NextOffset(offset, page) /\ UNCHANGED status
          ELSE status' = "complete" /\ UNCHANGED offset
       /\ UNCHANGED <<file, from>>

Next ==
    \/ ReadBeyond
    \/ \E limit \in Limit : ReadTooLong(limit) \/ ReadPage(limit)

\* A reader that is not done keeps reading.
Spec == Init /\ [][Next]_vars /\ WF_vars(Next)

-----------------------------------------------------------------------------
\* Whatever the limits cut the pages to, the pages read so far are the lines
\* of the file from the first offset to the next one, none twice and none
\* left out but those too long for a page; and reading only ends with the
\* last line, or because it started beyond it (read's continuation notices).
PagesTileTheFile ==
    LET wanted == SubSeq(file, StartIndex(from) + 1, Len(file))
    IN /\ Len(got) <= Len(wanted)
       /\ \A i \in 1..Len(got) :
             got[i] = IF Bytes(wanted[i]) > MaxBytes THEN TooLong ELSE wanted[i]
       /\ status = "reading" /\ got # <<>> => StartIndex(offset) = StartIndex(from) + Len(got)
       /\ status # "reading" => Len(got) = Len(wanted)
       /\ status = "beyond" <=> status # "reading" /\ wanted = <<>>

\* Every page makes progress: whoever follows the notices gets to the end.
ReadingEnds == <>(status # "reading")

=============================================================================
