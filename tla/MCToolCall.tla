------------------------------ MODULE MCToolCall ------------------------------
(* One call of each tool, over every small input of it.                      *)
EXTENDS ToolCall, Sequences

Output == INSTANCE Truncation
Text == INSTANCE EditText

(* read: every file of one to three lines of at most two characters, of one  *)
(* or two bytes each, and files of four lines: a page of three bytes holds   *)
(* one to four of these lines, and a line of four bytes fits no page.        *)
Letter == Output!Letter
Wide == Output!Wide
MCLine == UNION {[1..n -> {Letter, Wide}] : n \in 0..2}
MCTextFile ==
    UNION {[1..n -> MCLine] : n \in 1..3} \cup [1..4 -> {<<>>, <<Letter>>, <<Wide, Wide>>}]
MCLimit == {-1, 2, 3}

(* read image: images up to three times as wide and high as the box, slim    *)
(* and square, with encodings just below and at the limit.                   *)
MCWidth == 1..18
MCHeight == 1..15
MCSize == {2, 3}

(* edit: every file of at most three characters in LF, files of several      *)
(* lines, the shorter of these in CRLF with a byte-order mark, mixed ones,   *)
(* and one with a mark that is not at its start; every call of one edit or   *)
(* of two with the old texts below.                                          *)
LF == Text!LF
CR == Text!CR
Space == Text!Space
Quote == Text!Quote
SmartQuote == Text!SmartQuote

MCInserted == <<"one", "two">>
MCEditedCharacter == {LF, CR, Text!Bom, Space, Quote, SmartQuote} \cup {MCInserted[i] : i \in 1..2}

MCTexts(n) == UNION {[1..k -> {Quote, SmartQuote, Space, LF}] : k \in 0..n}

MCLongTexts ==
    {<<Quote, LF, Quote, Quote, LF>>, <<Quote, Space, LF, SmartQuote>>,
     <<SmartQuote, LF, Space, LF, Quote>>, <<Quote, Quote, LF, Quote, Quote>>}

MCInCrLf(text) == <<Text!Bom>> \o Text!RestoreLineEndings(text, <<CR, LF>>)

MCEditedFile ==
    MCTexts(3) \cup MCLongTexts \cup {MCInCrLf(text) : text \in MCTexts(2) \cup MCLongTexts}
    \cup {<<Quote, LF, Quote, Space, CR, LF>>, <<SmartQuote, CR, Quote, CR, LF>>,
          <<Quote, Text!Bom, LF>>}

MCOlds == {<<Quote>>, <<Quote, Quote>>, <<Space>>, <<Space, LF>>, <<LF>>, <<Quote, CR, LF>>,
           <<Quote, Space>>, <<SmartQuote>>, <<LF, Quote>>, <<Quote, LF, Quote>>}

\* The new texts of the i-th edit.
MCNews(i) == {<<>>, <<MCInserted[i]>>}
MCEdits(i, news) == {[old |-> old, new |-> new] : old \in MCOlds, new \in news}

MCRequest ==
    [1..1 -> MCEdits(1, MCNews(1) \cup {<<LF, MCInserted[1], CR, LF>>})]
    \cup {<<edit, other>> : edit \in MCEdits(1, MCNews(1)), other \in MCEdits(2, MCNews(2))}
=============================================================================
