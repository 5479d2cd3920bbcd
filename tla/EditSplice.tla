------------------------------ MODULE EditSplice ------------------------------
(***************************************************************************)
(* The edit tool: it loads a text file, finds for every edit the one place *)
(* its old text stands at, exactly or else by whole lines up to trailing   *)
(* space and typography, splices the new texts in, and writes the file     *)
(* back with its byte-order mark and line endings.  Offsets in a text      *)
(* count from 0 as they do in the code.                                    *)
(***************************************************************************)
EXTENDS EditText

CONSTANTS
    Character,  \* the characters of texts
    File,       \* what the file may hold
    Request     \* what a model may ask for: sequences of edits [old, new]

VARIABLES
    before,     \* the file before the edit
    file,       \* the file
    edits,      \* the edits of the call
    spans,      \* the spans they replace: [edit, start, end, replacement]
    result,     \* the edited content
    stage       \* where _edit_file is

vars == <<before, file, edits, spans, result, stage>>

\* _validate_non_empty_old_text rejects the others.
EditingAssumption ==
    /\ {LF, CR, Bom} \subseteq Character
    /\ File \subseteq Seq(Character)
    /\ Request \subseteq Seq([old : Seq(Character) \ {<<>>}, new : Seq(Character)])

-----------------------------------------------------------------------------
(* Loading. *)

Content == NormalizeToLf(StripBom(before))

\* The members of a set in an order: the kth has k - 1 below it.
InOrder(S, below) ==
    [k \in 1..Cardinality(S) |-> CHOOSE a \in S : Cardinality(below[a]) = k - 1]

-----------------------------------------------------------------------------
(* Exact matches. *)

OccursAt(text, old, offset) ==
    /\ offset + Len(old) <= Len(text)
    /\ SubSeq(text, offset + 1, offset + Len(old)) = old

\* From left to right, each occurrence that starts no earlier than where the
\* one found before it ends.
FindTextStarts(text, old) ==
    LET starts[n \in 0..Len(text)] ==
            IF n = 0 THEN {}
            ELSE starts[n - 1] \cup {offset \in {n - 1} :
                     /\ OccursAt(text, old, offset)
                     /\ \A start \in starts[n - 1] : start + Len(old) <= offset}
    IN starts[Len(text)]

ExactSpan(text, old, start) == [start |-> start, end |-> start + Len(old)]

-----------------------------------------------------------------------------
(* Fuzzy matches: windows of whole lines. *)

LineStartOffsets(text) ==
    LET starts == {offset \in 0..(Len(text) - 1) : offset = 0 \/ text[offset] = LF}
    IN InOrder(starts, [a \in starts |-> {b \in starts : b < a}])

\* Lines that keep their own newline.
TerminatedLines(text) ==
    LET starts == LineStartOffsets(text)
    IN [k \in DOMAIN starts |->
            SubSeq(text, starts[k] + 1,
                   IF k = Len(starts) THEN Len(text) ELSE starts[k + 1])]

EndsWithNewline(line) == Last(line) = LF

\* One line: typography folded, white space at its end stripped.
NormalizeForFuzzyMatch(line) ==
    LET ink == {i \in DOMAIN line : line[i] \notin {Space, LF}}
        kept == SubSeq(line, 1, IF ink = {} THEN 0 ELSE Max(ink))
    IN [i \in DOMAIN kept |-> IF kept[i] = SmartQuote THEN Quote ELSE kept[i]]
       \o IF EndsWithNewline(line) THEN <<LF>> ELSE <<>>

NormalizedLines(text) ==
    LET lines == TerminatedLines(text)
    IN [k \in DOMAIN lines |-> NormalizeForFuzzyMatch(lines[k])]

LastWindowLineMatches(fileLine, oldLine) ==
    \/ fileLine = oldLine
    \/ ~IsSuffix(<<LF>>, oldLine) /\ fileLine = Append(oldLine, LF)

WindowMatchesAt(lines, window, start) ==
    /\ \A k \in 1..(Len(window) - 1) : lines[start + k] = window[k]
    /\ LastWindowLineMatches(lines[start + Len(window)], Last(window))

FindWindowStarts(text, old) ==
    LET lines == NormalizedLines(text)
        window == NormalizedLines(old)
    IN {start \in 0..(Len(lines) - Len(window)) : WindowMatchesAt(lines, window, start)}

\* Mutant: the newline of the last line goes with the window.
WindowCharSpanWithNewline(text, old, startLine) ==
    LET lines == TerminatedLines(text)
        lastLine == startLine + Len(TerminatedLines(old))
        offsets == LineStartOffsets(text)
    IN [start |-> offsets[startLine + 1], end |-> offsets[lastLine] + Len(lines[lastLine])]

WindowCharSpan(text, old, startLine) ==
    LET lines == TerminatedLines(text)
        lastLine == startLine + Len(TerminatedLines(old))
        offsets == LineStartOffsets(text)
        kept == ~EndsWithNewline(old) /\ EndsWithNewline(lines[lastLine])
    IN [start |-> offsets[startLine + 1],
        end |-> offsets[lastLine] + Len(lines[lastLine]) - IF kept THEN 1 ELSE 0]

-----------------------------------------------------------------------------
(* Validation and splicing. *)

\* _require_unique_match over the edits in order: the first that has no
\* unique match decides.
Verdict(starts) ==
    LET bad == {i \in DOMAIN starts : Cardinality(starts[i]) # 1}
    IN IF bad = {} THEN "matched"
       ELSE IF starts[Min(bad)] = {} THEN "not found" ELSE "duplicate"

ByStart(located) ==
    LET S == ToSet(located)
    IN InOrder(S, [a \in S |->
           {b \in S : b.start < a.start \/ (b.start = a.start /\ b.edit < a.edit)}])

Overlap(located) ==
    LET ordered == ByStart(located)
    IN \E i \in 1..(Len(ordered) - 1) : ordered[i].end > ordered[i + 1].start

\* sorted(..., reverse=True) keeps spans that start together in list order.
InReverse(located) ==
    LET S == ToSet(located)
    IN InOrder(S, [a \in S |->
           {b \in S : b.start > a.start \/ (b.start = a.start /\ b.edit < a.edit)}])

Splice(text, span) ==
    SubSeq(text, 1, Min({span.start, Len(text)}))
    \o span.replacement \o SubSeq(text, span.end + 1, Len(text))

Spliced(text, ordered) ==
    LET spliced[n \in 0..Len(ordered)] ==
            IF n = 0 THEN text ELSE Splice(spliced[n - 1], ordered[n])
    IN spliced[Len(ordered)]

\* Mutant: from the front.
SpliceForwards(text, located) == Spliced(text, ByStart(located))

SpliceTextSpans(text, located) == Spliced(text, InReverse(located))

OldText(i) == NormalizeToLf(edits[i].old)

MatchedSpan(i, span) ==
    [edit |-> i, start |-> span.start, end |-> span.end,
     replacement |-> NormalizeToLf(edits[i].new)]

-----------------------------------------------------------------------------
(* _edit_file *)

Init ==
    /\ before \in File
    /\ file = before
    /\ edits \in Request
    /\ spans = <<>>
    /\ result = <<>>
    /\ stage = "exact"

\* Where each edit may start, and the span it takes there.
Locate(starts, located, ifNotFound) ==
    \/ /\ Verdict(starts) = "matched"
       /\ spans' = located
       /\ stage' = IF Overlap(located) THEN "rejected" ELSE "splice"
    \/ /\ Verdict(starts) = "not found"
       /\ stage' = ifNotFound
       /\ UNCHANGED spans
    \/ /\ Verdict(starts) = "duplicate"
       /\ stage' = "rejected"
       /\ UNCHANGED spans

MatchExactSpans ==
    LET starts == [i \in DOMAIN edits |-> FindTextStarts(Content, OldText(i))]
    IN /\ stage = "exact"
       /\ Locate(starts,
                 [i \in DOMAIN edits |->
                     MatchedSpan(i, ExactSpan(Content, OldText(i), Min(starts[i])))],
                 "fuzzy")
       /\ UNCHANGED <<before, file, edits, result>>

MatchFuzzySpans ==
    LET starts == [i \in DOMAIN edits |-> FindWindowStarts(Content, OldText(i))]
    IN /\ stage = "fuzzy"
       /\ Locate(starts,
                 [i \in DOMAIN edits |->
                     MatchedSpan(i, WindowCharSpan(Content, OldText(i), Min(starts[i])))],
                 "rejected")
       /\ UNCHANGED <<before, file, edits, result>>

\* Splices, and refuses to write a file that would not change.
BuildApplication ==
    LET edited == SpliceTextSpans(Content, spans)
    IN /\ stage = "splice"
       /\ result' = edited
       /\ stage' = IF edited = Content THEN "rejected" ELSE "open"
       /\ UNCHANGED <<before, file, edits, spans>>

OpenForWriting ==
    /\ stage = "open"
    /\ file' = <<>>
    /\ stage' = "write"
    /\ UNCHANGED <<before, edits, spans, result>>

\* The load detects the line ending and keeps the byte-order mark.
WriteLoadedFile ==
    /\ stage = "write"
    /\ file' = (IF HasBom(before) THEN <<Bom>> ELSE <<>>)
                \o RestoreLineEndings(result, DetectLineEnding(StripBom(before)))
    /\ stage' = "done"
    /\ UNCHANGED <<before, edits, spans, result>>

\* An OSError: at the open, or when the file is truncated already.
FailToWrite ==
    /\ stage \in {"open", "write"}
    /\ stage' = IF stage = "open" THEN "rejected" ELSE "torn"
    /\ UNCHANGED <<before, file, edits, spans, result>>

Next ==
    \/ MatchExactSpans \/ MatchFuzzySpans \/ BuildApplication
    \/ OpenForWriting \/ WriteLoadedFile \/ FailToWrite

Spec == Init /\ [][Next]_vars

-----------------------------------------------------------------------------
\* What a fuzzy match may disregard.
Folded(text) == FlattenSeq(NormalizedLines(text))

Covered(span) == SubSeq(Content, span.start + 1, span.end)

\* All replacements at once: every character outside the spans, and each new
\* text where its span starts.
AtOnce ==
    FlattenSeq([k \in 1..(Len(Content) + 1) |->
        FlattenSeq([i \in DOMAIN spans |->
            IF spans[i].start = k - 1 THEN spans[i].replacement ELSE <<>>])
        \o IF k <= Len(Content) /\ \A i \in DOMAIN spans :
                                      k - 1 \notin spans[i].start..(spans[i].end - 1)
           THEN <<Content[k]>> ELSE <<>>])

Written == stage = "done"

\* When the edit tool reports success, every edit replaced a text that is its
\* old text (up to white space at the ends of lines and typography), and the
\* file is what all replacements made at once give, whatever order the edits
\* came in.  (The span of white space on an empty line is empty; where it
\* starts together with another edit's, the splices do not commute.)
EditsAreSimultaneous ==
    Written /\ (\A i \in DOMAIN spans : spans[i].start < spans[i].end) =>
        /\ \A i \in DOMAIN spans : Folded(Covered(spans[i])) = Folded(OldText(i))
        /\ NormalizeToLf(IF HasBom(before) THEN StripBom(file) ELSE file) = AtOnce

\* How the lines of a raw text end.
LineEndings(text) ==
    {IF text[i] = LF /\ i > 1 /\ text[i - 1] = CR THEN <<CR, LF>> ELSE <<text[i]>> :
        i \in {j \in DOMAIN text : text[j] \in {CR, LF} /\ ~OccursAt(text, <<CR, LF>>, j - 1)}}

\* A mark that is not the file's byte-order mark: in the middle of the file,
\* whose start an edit may delete, or in a new text.
HasOtherMark ==
    \/ Bom \in ToSet(StripBom(before))
    \/ \E i \in DOMAIN edits : Bom \in ToSet(edits[i].new)

\* A file whose lines all end alike, in LF or CRLF, comes out that way and
\* with its byte-order mark, however the model wrote its new texts; it gets no
\* mark it did not have; and a rejected call has not touched the file.
FilesKeepTheirStyle ==
    /\ \A ending \in {<<LF>>, <<CR, LF>>} :
          Written /\ LineEndings(before) = {ending} => LineEndings(file) \subseteq {ending}
    /\ Written /\ HasBom(before) => HasBom(file)
    /\ Written /\ HasBom(file) => HasBom(before) \/ HasOtherMark
    /\ stage = "rejected" => file = before

=============================================================================
