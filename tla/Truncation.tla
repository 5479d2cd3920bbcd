------------------------------ MODULE Truncation ------------------------------
(***************************************************************************)
(* The helpers of truncation.py that bound the output of the tools: keep   *)
(* whole lines from one edge of a text within a limit on lines and one on  *)
(* UTF-8 bytes.                                                            *)
(*                                                                         *)
(* A text is a sequence of characters; all that is kept of a character is  *)
(* how many bytes it takes and whether it is the newline.  Truncation works*)
(* on the lines of a text: a text and its lines determine each other.      *)
(***************************************************************************)
EXTENDS Naturals, FiniteSets, Sequences, SequencesExt

NewLine == "newline"
Letter == "letter"
Wide == "wide"                  \* a character of two bytes
Replacement == "replacement"    \* U+FFFD, which takes three

Character == {NewLine, Letter, Wide, Replacement}

Places(chars, text) == {i \in DOMAIN text : text[i] \in chars}

\* len(text.encode("utf-8"))
Bytes(text) ==
    Len(text) + Cardinality(Places({Wide, Replacement}, text))
              + Cardinality(Places({Replacement}, text))

\* text.split("\n"): there is always a last line, possibly an empty one.
Lines(text) ==
    LET breaks == {0, Len(text) + 1} \cup {i \in 1..Len(text) : text[i] = NewLine}
        Break(k) == CHOOSE b \in breaks : Cardinality({c \in breaks : c < b}) = k
    IN [k \in 1..(Cardinality(breaks) - 1) |->
            SubSeq(text, Break(k - 1) + 1, Break(k) - 1)]

\* "\n".join(lines)
Join(lines) ==
    IF lines = <<>>
    THEN <<>>
    ELSE Tail(FlattenSeq([i \in DOMAIN lines |-> <<NewLine>> \o lines[i]]))

-----------------------------------------------------------------------------
(* truncate_text, as what it leaves of the lines of the text.              *)

EdgeLines(lines, keep, count) ==
    IF keep = "head"
    THEN SubSeq(lines, 1, count)
    ELSE SubSeq(lines, Len(lines) - count + 1, Len(lines))

\* Mutant: the separators are not counted.
StopsUnseparated(lines, keep, maxLines, maxBytes, taken) ==
    \/ taken = Len(lines)
    \/ taken >= maxLines
    \/ LET next == EdgeLines(lines, keep, taken + 1)
       IN Bytes(Join(next)) > maxBytes + Len(next) - 1

\* The loop ends with taken lines: there is no line left, the limit on lines
\* is reached, or the next line and its separator exceed the one on bytes.
SelectionStops(lines, keep, maxLines, maxBytes, taken) ==
    \/ taken = Len(lines)
    \/ taken >= maxLines
    \/ Bytes(Join(EdgeLines(lines, keep, taken + 1))) > maxBytes

SelectOutputLines(lines, keep, maxLines, maxBytes) ==
    LET Stops(taken) == SelectionStops(lines, keep, maxLines, maxBytes, taken)
        taken == CHOOSE n \in 0..Len(lines) : Stops(n) /\ \A m \in 0..(n - 1) : ~Stops(m)
    IN EdgeLines(lines, keep, taken)

FitsLimits(lines, maxLines, maxBytes) ==
    Len(lines) <= maxLines /\ Bytes(Join(lines)) <= maxBytes

\* The one line at the edge that is kept is too long by itself.
EdgeLineExceedsLimit(lines, keep, maxBytes) ==
    Bytes(EdgeLines(lines, keep, 1)[1]) > maxBytes

\* What the properties tell apart of a Truncation.
Result(outputLines, truncated, edgeExceeds) ==
    [lines |-> outputLines, truncated |-> truncated, edgeLineExceedsLimit |-> edgeExceeds]

TruncateLines(lines, keep, maxLines, maxBytes) ==
    CASE FitsLimits(lines, maxLines, maxBytes) -> Result(lines, FALSE, FALSE)
      [] ~FitsLimits(lines, maxLines, maxBytes)
         /\ EdgeLineExceedsLimit(lines, keep, maxBytes) -> Result(<<>>, TRUE, TRUE)
      [] OTHER -> Result(SelectOutputLines(lines, keep, maxLines, maxBytes), TRUE, FALSE)

=============================================================================
