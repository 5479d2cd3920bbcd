------------------------------- MODULE EditText -------------------------------
(***************************************************************************)
(* Texts as the edit tool loads and restores them: a sequence of           *)
(* characters, possibly with a byte-order mark, with line endings of       *)
(* either kind or of both.                                                 *)
(***************************************************************************)
EXTENDS Integers, SequencesExt

LF == "lf"
CR == "cr"
Bom == "bom"
Space == "space"
Quote == "quote"
SmartQuote == "smart quote"

-----------------------------------------------------------------------------
HasBom(text) == text # <<>> /\ Head(text) = Bom

StripBom(text) == IF HasBom(text) THEN Tail(text) ELSE text

NormalizeToLf(text) ==
    FlattenSeq([i \in DOMAIN text |->
        CASE text[i] # CR -> <<text[i]>>
          [] text[i] = CR /\ i < Len(text) /\ text[i + 1] = LF -> <<>>
          [] OTHER -> <<LF>>])

\* Mutant: find's -1 for a missing CRLF is taken for a position.
DetectUnchecked(text) ==
    IF /\ \E i \in DOMAIN text : text[i] = LF
       /\ \A i \in DOMAIN text : text[i] = LF => i = 1 \/ text[i - 1] # CR
    THEN <<CR, LF>> ELSE <<LF>>

\* CRLF if the first LF follows a CR
DetectLineEnding(text) ==
    IF \E i \in DOMAIN text : /\ text[i] = LF /\ i > 1 /\ text[i - 1] = CR
                              /\ \A j \in 1..(i - 1) : text[j] # LF
    THEN <<CR, LF>> ELSE <<LF>>

RestoreLineEndings(text, ending) ==
    FlattenSeq([i \in DOMAIN text |-> IF text[i] = LF THEN ending ELSE <<text[i]>>])

=============================================================================
