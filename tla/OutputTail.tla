------------------------------ MODULE OutputTail ------------------------------
(***************************************************************************)
(* OutputAccumulator: the output of a command, which may be endless and    *)
(* comes in chunks cut anywhere, is decoded as it arrives and only a tail  *)
(* of it is kept.  What is shown at the end must be what truncation would  *)
(* have left of the whole output.                                          *)
(*                                                                         *)
(* The raw output is made of letters, newlines, and the two bytes of a     *)
(* wide character, each of which is invalid without the other.             *)
(***************************************************************************)
EXTENDS Truncation

CONSTANTS
    MaxLines,   \* OUTPUT_LINE_LIMIT
    MaxBytes,   \* OUTPUT_BYTE_LIMIT
    MaxRaw,     \* bound: bytes of raw output
    MaxChunk    \* bound: bytes of one chunk

\* The rolling buffer has twice the limit: with less than four bytes of limit
\* a wide character at the cut could cost a line that still fits.
TailAssumption ==
    /\ MaxLines \in Nat \ {0}
    /\ MaxBytes \in Nat /\ MaxBytes >= 4
    /\ MaxRaw \in Nat /\ MaxChunk \in Nat

VARIABLES
    raw,        \* all that was read; the program does not keep it
    pending,    \* the decoder holds the first byte of a wide character
    tail,       \* _tail_buffer
    boundary,   \* _tail_starts_at_line_boundary
    totalBytes,
    totalLines,
    finished

vars == <<raw, pending, tail, boundary, totalBytes, totalLines, finished>>

Lead == "lead"
Continuation == "continuation"
RawByte == {Letter, NewLine, Lead, Continuation}
Chunks == UNION {[1..n -> RawByte] : n \in 1..MaxChunk}

MaxRolling == 2 * MaxBytes

-----------------------------------------------------------------------------
(* The incremental decoder (errors="replace").                             *)

\* A first byte that is not followed by its second, and a second one without a
\* first, are replaced.
Decode(held, chunk) ==
    LET afterLead(i) == IF i = 1 THEN held ELSE chunk[i - 1] = Lead
        cut(i) == IF afterLead(i) THEN <<Replacement>> ELSE <<>>
        decoded(i) ==
            CASE chunk[i] = Lead -> cut(i)
              [] chunk[i] = Continuation ->
                    IF afterLead(i) THEN <<Wide>> ELSE <<Replacement>>
              [] OTHER -> Append(cut(i), chunk[i])
    IN [pending |-> IF chunk = <<>> THEN held ELSE Last(chunk) = Lead,
        text |-> FlattenSeq([i \in DOMAIN chunk |-> decoded(i)])]

Flush(held) == IF held THEN <<Replacement>> ELSE <<>>

-----------------------------------------------------------------------------
(* The rolling tail.                                                       *)

\* Characters to drop so that what is left takes at most MaxRolling bytes.
TrimStart(buffer) ==
    CHOOSE n \in 0..Len(buffer) :
        /\ Bytes(SubSeq(buffer, n + 1, Len(buffer))) <= MaxRolling
        /\ \A m \in 0..(n - 1) : Bytes(SubSeq(buffer, m + 1, Len(buffer))) > MaxRolling

StartsAtLineBoundary(buffer, start, previous) ==
    IF start = 0 THEN previous ELSE buffer[start] = NewLine

CountLines(lines, text) ==
    (IF lines = 0 THEN 1 ELSE lines) + Cardinality(Places({NewLine}, text))

AppendDecodedText(text) ==
    IF text = <<>>
    THEN UNCHANGED <<tail, boundary, totalBytes, totalLines>>
    ELSE LET buffer == tail \o text
             start == TrimStart(buffer)
         IN /\ totalBytes' = totalBytes + Bytes(text)
            /\ totalLines' = CountLines(totalLines, text)
            /\ tail' = SubSeq(buffer, start + 1, Len(buffer))
            /\ boundary' = StartsAtLineBoundary(buffer, start, boundary)

SnapshotText ==
    LET newline == SelectInSeq(tail, LAMBDA char : char = NewLine)
    IN IF boundary \/ newline = 0
       THEN tail
       ELSE SubSeq(tail, newline + 1, Len(tail))

\* Mutant: only what the rolling tail itself lost is reported.
SnapshotOfTheTail ==
    TruncateLines(Lines(SnapshotText), "tail", MaxLines, MaxBytes)

\* The totals of the whole output decide what the tail could not know.
WithTotalMetadata(truncation) ==
    [truncation EXCEPT !.truncated =
        @ \/ totalLines > MaxLines \/ totalBytes > MaxBytes]

Snapshot ==
    WithTotalMetadata(TruncateLines(Lines(SnapshotText), "tail", MaxLines, MaxBytes))

\* The lines bash says it shows, counted in the whole output.
NoticeLines(snapshot) ==
    <<totalLines - Len(snapshot.lines) + 1, totalLines>>

-----------------------------------------------------------------------------
Init ==
    /\ raw = <<>>
    /\ pending = FALSE
    /\ tail = <<>>
    /\ boundary = TRUE
    /\ totalBytes = 0
    /\ totalLines = 0
    /\ finished = FALSE

Accumulate(chunk) ==
    LET decoded == Decode(pending, chunk)
    IN /\ ~finished
       /\ Len(raw) + Len(chunk) <= MaxRaw
       /\ raw' = raw \o chunk
       /\ pending' = decoded.pending
       /\ AppendDecodedText(decoded.text)
       /\ UNCHANGED finished

Finish ==
    /\ ~finished
    /\ AppendDecodedText(Flush(pending))
    /\ pending' = FALSE
    /\ finished' = TRUE
    /\ UNCHANGED raw

Next ==
    \/ \E chunk \in Chunks : Accumulate(chunk)
    \/ Finish

Spec == Init /\ [][Next]_vars

-----------------------------------------------------------------------------
\* The whole output as text.
Output ==
    LET decoded == Decode(FALSE, raw)
    IN decoded.text \o (IF finished THEN Flush(decoded.pending) ELSE <<>>)

\* The greatest number of last lines that meet both limits.
LinesThatFit ==
    LET lines == Lines(Output)
    IN CHOOSE n \in 0..Len(lines) :
        /\ n <= MaxLines
        /\ Bytes(Join(EdgeLines(lines, "tail", n))) <= MaxBytes
        /\ \A m \in 0..Len(lines) :
              m <= MaxLines /\ Bytes(Join(EdgeLines(lines, "tail", m))) <= MaxBytes
                => m <= n

\* However the output was cut into chunks, and although most of it is gone, a
\* snapshot shows the last lines of the whole output, as many as fit; it says
\* which lines those are; and it reports a truncation exactly when it leaves
\* something out (OutputAccumulator.snapshot and bash's notice).
SnapshotIsTheTail ==
    LET lines == Lines(Output)
        shown == SubSeq(lines, NoticeLines(Snapshot)[1], NoticeLines(Snapshot)[2])
    IN Output # <<>> =>
        /\ Snapshot.lines = shown
        /\ Len(shown) = LinesThatFit
        /\ Snapshot.truncated <=> LinesThatFit < Len(lines)

=============================================================================
