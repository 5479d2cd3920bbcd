---------------------------- MODULE StreamAssembler ----------------------------
(***************************************************************************)
(* One provider turn of the OpenAI provider: normalize_sdk_events and      *)
(* assemble_stream, which turn raw Responses API events into stream events *)
(* and the blocks of the assistant's turn while tracking a single active   *)
(* block.                                                                  *)
(*                                                                         *)
(* The service sends the events of one response.  An ordered service       *)
(* finishes an output item before it adds the next, as the Responses API   *)
(* does; the assembler relies on it, so an unordered one is modelled too,  *)
(* for what must hold whatever arrives.  Both generators are pulled by the *)
(* agent loop, one raw event at a time: a raw event is one step.           *)
(***************************************************************************)
EXTENDS Naturals, FiniteSets, Selection

CONSTANTS
    Piece,      \* non-empty strings that text is made of
    Object,     \* JSON objects other than {}
    MaxItems,   \* bound: output items of a response
    MaxParts    \* bound: parts of an item, and deltas sent for it

VARIABLES
    ordered,    \* the service finishes an item before it adds the next
    items,      \* the response's output items so far
    streaming,  \* the raw stream is being read
    blocks,     \* StreamAssemblyState.blocks
    active,     \* active_block_index counted from 1; 0 for None
    events      \* the stream events yielded

asm == <<blocks, active, events>>
vars == <<ordered, items, streaming, asm>>

NoArguments == "{}"
Garbled == "garbled"        \* not a JSON object, or cut off
BlankLine == "blank_line"   \* what separates summary parts

\* A text part may be the empty string; arguments are sent as text.
EmptyPart == ""
Parts == UNION {[1..n -> Piece \cup {EmptyPart}] : n \in 0..MaxParts}
RawArguments == Object \cup {Garbled}

ASSUME AssemblerAssumption ==
    /\ MaxItems \in Nat
    /\ MaxParts \in Nat
    /\ EmptyPart \notin Piece
    /\ Garbled \notin Object

\* An item as the service will have sent it when it is done.  Items of other
\* kinds (web searches and the like) have events nobody maps.
Content ==
    [kind : {"reasoning", "message"}, parts : Parts, arguments : {Garbled}]
    \cup [kind : {"tool_call"}, parts : {<<>>}, arguments : RawArguments]
    \cup [kind : {"other"}, parts : {<<>>}, arguments : {Garbled}]

-----------------------------------------------------------------------------
(* normalize_sdk_events.                                                   *)

ParseArguments(raw) == IF raw \in Object THEN raw ELSE NoArguments

NonEmpty(parts) == Only(parts, Piece)

\* Mutant: summary parts are joined like message parts.
JoinUnseparated(parts) == NonEmpty(parts)

JoinSummary(parts) ==
    LET kept == NonEmpty(parts)
    IN  [i \in 1 .. 2 * Len(kept) - 1 |->
            IF i % 2 = 1 THEN kept[(i + 1) \div 2] ELSE BlankLine]

JoinMessage(parts) == NonEmpty(parts)

Normalized(type, kind, content) == [type |-> type, kind |-> kind, content |-> content]
Ignored == Normalized("ignored", "none", <<>>)

NormalizeAdded(item) ==
    IF item.kind = "other" THEN Ignored ELSE Normalized("added", item.kind, <<>>)

NormalizeDone(item) ==
    CASE item.kind = "reasoning" -> Normalized("done", "reasoning", JoinSummary(item.parts))
      [] item.kind = "message" -> Normalized("done", "message", JoinMessage(item.parts))
      [] item.kind = "tool_call" -> Normalized("done", "tool_call", ParseArguments(item.arguments))
      [] item.kind = "other" -> Ignored

\* _extract_stop_reason promotes by the response's own output.
StopReason(base, output) ==
    IF base = "stop" /\ \E i \in DOMAIN output : output[i].kind = "tool_call"
    THEN "tool_use" ELSE base

-----------------------------------------------------------------------------
(* assemble_stream.  A block has text or arguments, and its item once it   *)
(* is final (message id, provider item id, reasoning signature).           *)

Yield(event) == events' = Append(events, event)
IsActive(kind) == active # 0 /\ blocks[active].kind = kind

\* _start_reasoning_block, _start_text_block, _start_tool_call_block.  The
\* service announces a call with empty arguments.
StartBlock(kind) ==
    /\ blocks' = Append(blocks, [kind |-> kind, text |-> <<>>, arguments |-> NoArguments, item |-> 0])
    /\ active' = Len(blocks')
    /\ Yield([event |-> "start", index |-> active', kind |-> kind])

\* Mutant: text is shown and not kept, as a call's arguments are.
AppendDeltaShownOnly(kind, piece) ==
    /\ IsActive(kind)
    /\ UNCHANGED <<blocks, active>>
    /\ Yield([event |-> "delta", index |-> active, kind |-> kind, piece |-> piece])

\* _append_reasoning_delta, _append_text_delta and, without a change to the
\* block, _append_tool_call_arguments_delta.
AppendDelta(kind, piece) ==
    /\ IsActive(kind)
    /\ blocks' = IF kind = "tool_call" THEN blocks
                 ELSE [blocks EXCEPT ![active].text = Append(@, piece)]
    /\ UNCHANGED active
    /\ Yield([event |-> "delta", index |-> active, kind |-> kind, piece |-> piece])

\* _replace_tool_call_arguments yields nothing.
ReplaceArguments(arguments) ==
    /\ IsActive("tool_call")
    /\ blocks' = [blocks EXCEPT ![active].arguments = arguments]
    /\ UNCHANGED <<active, events>>

\* What the three _finalize functions make of the active block.  An empty
\* summary does not replace what was streamed.
FinalReasoning(block, summary, item) ==
    [block EXCEPT !.text = IF summary = <<>> THEN @ ELSE summary, !.item = item]
FinalText(block, text, item) == [block EXCEPT !.text = text, !.item = item]
FinalToolCall(block, arguments, item) ==
    [block EXCEPT !.arguments = arguments, !.item = item]

FinalBlock(block, content, item) ==
    CASE block.kind = "reasoning" -> FinalReasoning(block, content, item)
      [] block.kind = "message" -> FinalText(block, content, item)
      [] block.kind = "tool_call" -> FinalToolCall(block, content, item)

\* Mutant: the active block is not cleared.
FinalizeBlockUncleared(kind, content, item) ==
    /\ IsActive(kind)
    /\ LET block == FinalBlock(blocks[active], content, item)
       IN  /\ blocks' = [blocks EXCEPT ![active] = block]
           /\ Yield([event |-> "end", index |-> active, block |-> block])
    /\ UNCHANGED active

FinalizeBlock(kind, content, item) ==
    /\ IsActive(kind)
    /\ LET block == FinalBlock(blocks[active], content, item)
       IN  /\ blocks' = [blocks EXCEPT ![active] = block]
           /\ Yield([event |-> "end", index |-> active, block |-> block])
    /\ active' = 0

\* _yield_stream_event for the events of items: what has no active block of its
\* kind is dropped.
Consume(normalized, item) ==
    LET kind == normalized.kind
        content == normalized.content
    IN  \/ normalized.type = "ignored" /\ UNCHANGED asm
        \/ normalized.type = "added" /\ StartBlock(kind)
        \/ /\ normalized.type \in {"delta", "arguments_done", "done"}
           /\ ~IsActive(kind)
           /\ UNCHANGED asm
        \/ normalized.type = "delta" /\ AppendDelta(kind, content)
        \/ normalized.type = "arguments_done" /\ ReplaceArguments(content)
        \/ normalized.type = "done" /\ FinalizeBlock(kind, content, item)

StreamDone(reason) == [event |-> "stream_done", reason |-> reason, blocks |-> blocks]
StreamError == [event |-> "stream_error", blocks |-> blocks]

-----------------------------------------------------------------------------
(* The service.                                                            *)

Created == events # <<>> /\ events[1].event = "stream_start"

Init ==
    /\ ordered \in BOOLEAN
    /\ items = <<>>
    /\ streaming = TRUE
    /\ blocks = <<>>
    /\ active = 0
    /\ events = <<>>

\* ResponseCreatedEvent, the first event of a response that does not fail.
CreateResponse ==
    /\ streaming
    /\ ~Created
    /\ Yield([event |-> "stream_start"])
    /\ UNCHANGED <<ordered, items, streaming, blocks, active>>

Open(i) == streaming /\ i \in DOMAIN items /\ ~items[i].done

AddItem(content) ==
    /\ streaming
    /\ Created
    /\ Len(items) < MaxItems
    /\ ordered => \A i \in DOMAIN items : items[i].done
    /\ items' = Append(items, [content |-> content, sent |-> 0, done |-> FALSE])
    /\ Consume(NormalizeAdded(content), Len(items'))
    /\ UNCHANGED <<ordered, streaming>>

\* A piece of text, of reasoning with or without a summary, or of a call's
\* arguments.
SendDelta(i, piece) ==
    /\ Open(i)
    /\ items[i].content.kind # "other"
    /\ items[i].sent < MaxParts
    /\ items' = [items EXCEPT ![i].sent = @ + 1]
    /\ Consume(Normalized("delta", items[i].content.kind, piece), i)
    /\ UNCHANGED <<ordered, streaming>>

FinishArguments(i) ==
    /\ Open(i)
    /\ items[i].content.kind = "tool_call"
    /\ Consume(Normalized("arguments_done", "tool_call",
                          ParseArguments(items[i].content.arguments)), i)
    /\ UNCHANGED <<ordered, items, streaming>>

FinishItem(i) ==
    /\ Open(i)
    /\ items' = [items EXCEPT ![i].done = TRUE]
    /\ Consume(NormalizeDone(items[i].content), i)
    /\ UNCHANGED <<ordered, streaming>>

Output == [i \in DOMAIN items |-> items[i].content]

\* COMPLETED, after every item.
Complete ==
    /\ streaming
    /\ Created
    /\ \A i \in DOMAIN items : items[i].done
    /\ streaming' = FALSE
    /\ Yield(StreamDone(StopReason("stop", Output)))
    /\ UNCHANGED <<ordered, items, blocks, active>>

\* INCOMPLETE, at any item: the length limit ends a turn, the content filter
\* fails it.
CutOff(reason) ==
    /\ streaming
    /\ Created
    /\ streaming' = FALSE
    /\ Yield(IF reason = "content_filter" THEN StreamError
             ELSE StreamDone(StopReason("length", Output)))
    /\ UNCHANGED <<ordered, items, blocks, active>>

\* FAILED, of the response or of the stream, also before there is a response.
Fail ==
    /\ streaming
    /\ streaming' = FALSE
    /\ Yield(StreamError)
    /\ UNCHANGED <<ordered, items, blocks, active>>

\* The transport ends or raises without a terminal event.
Disconnect ==
    /\ streaming
    /\ streaming' = FALSE
    /\ UNCHANGED <<ordered, items, asm>>

Next ==
    \/ CreateResponse
    \/ \E content \in Content : AddItem(content)
    \/ \E i \in DOMAIN items :
          (\E piece \in Piece : SendDelta(i, piece)) \/ FinishArguments(i) \/ FinishItem(i)
    \/ Complete
    \/ \E reason \in {"max_output_tokens", "content_filter"} : CutOff(reason)
    \/ Fail
    \/ Disconnect

Spec == Init /\ [][Next]_vars

-----------------------------------------------------------------------------
Text == Seq(Piece \cup {BlankLine})
Kind == {"reasoning", "message", "tool_call"}
Block == [kind : Kind, text : Text, arguments : Object \cup {NoArguments}, item : Nat]

\* The stream events of a turn.
Event ==
    [event : {"stream_start"}]
    \cup [event : {"start"}, index : Nat, kind : Kind]
    \cup [event : {"delta"}, index : Nat, kind : Kind, piece : Piece]
    \cup [event : {"end"}, index : Nat, block : Block]
    \cup [event : {"stream_done"}, reason : {"stop", "tool_use", "length"}, blocks : Seq(Block)]
    \cup [event : {"stream_error"}, blocks : Seq(Block)]

TypeOK ==
    /\ ordered \in BOOLEAN
    /\ items \in Seq([content : Content, sent : 0..MaxParts, done : BOOLEAN])
    /\ streaming \in BOOLEAN
    /\ blocks \in Seq(Block)
    /\ active \in 0..Len(blocks)
    /\ events \in Seq(Event)

IsTerminal(event) == event.event \in {"stream_done", "stream_error"}

\* What a consumer that follows the stream has on screen: every start opens the
\* next block, deltas extend it, the end replaces it.
Show(shown, e) ==
    CASE e.event = "start" -> Append(shown, [text |-> <<>>, final |-> FALSE])
      [] e.event = "delta" /\ e.kind # "tool_call" ->
            [shown EXCEPT ![e.index].text = Append(@, e.piece)]
      [] e.event = "end" -> [shown EXCEPT ![e.index] = [text |-> e.block.text, final |-> TRUE]]
      [] OTHER -> shown

Shown(yielded) ==
    LET shown[n \in 0 .. Len(yielded)] ==
            IF n = 0 THEN <<>> ELSE Show(shown[n - 1], yielded[n])
    IN  shown[Len(yielded)]

\* The blocks that the first n events start.
Started(yielded, n) == Cardinality({j \in 1 .. n : yielded[j].event = "start"})

\* The grammar of the stream, whatever arrives: starts count up, deltas and
\* ends belong to the last block started, which ends at most once and takes no
\* delta after it, and nothing follows the terminal event.
StreamIsWellFormed ==
    \A k \in DOMAIN events :
        LET e == events[k]
        IN  /\ \A j \in 1 .. k - 1 : ~IsTerminal(events[j])
            /\ e.event = "start" => e.index = Started(events, k - 1) + 1
            /\ e.event \in {"delta", "end"} =>
                  /\ e.index = Started(events, k - 1)
                  /\ \A j \in 1 .. k - 1 : events[j].event = "end" => events[j].index < e.index

\* The terminal event carries the turn its stream has shown: the same blocks
\* with the same text, and those that ended exactly as they ended.  It says
\* tool_use exactly when it carries a call to execute, although the reason is
\* taken from the response and the calls from the items streamed before it.
TerminalAgreesWithStream ==
    \A k \in DOMAIN events : IsTerminal(events[k]) =>
        LET final == events[k].blocks
            shown == Shown(events)
        IN  /\ Len(final) = Len(shown)
            /\ \A i \in DOMAIN final : final[i].text = shown[i].text
            /\ \A j \in DOMAIN events :
                  events[j].event = "end" => final[events[j].index] = events[j].block
            /\ events[k].event = "stream_done" /\ events[k].reason # "length" =>
                  (events[k].reason = "tool_use" <=> \E i \in DOMAIN final : final[i].kind = "tool_call")

\* Position of an item's block, the items nobody maps left out.
BlockOf(i) == Cardinality({j \in 1 .. i : items[j].content.kind # "other"})

\* From an ordered service, the turn is the response: each finished item is the
\* block at its place, with its own identity, text and arguments, and arguments
\* that are no JSON object are none.
TurnIsTheResponse ==
    ordered =>
        \A i \in DOMAIN items :
            LET content == items[i].content
                block == blocks[BlockOf(i)]
            IN  items[i].done /\ content.kind # "other" =>
                  /\ block.kind = content.kind
                  /\ block.item = i
                  /\ content.kind = "message" => block.text = NonEmpty(content.parts)
                  /\ content.kind = "reasoning" =>
                        IF NonEmpty(content.parts) = <<>>
                        THEN Len(block.text) = items[i].sent
                        ELSE Len(block.text) = 2 * Len(NonEmpty(content.parts)) - 1
                  /\ content.kind = "tool_call" =>
                        block.arguments = IF content.arguments = Garbled THEN NoArguments
                                          ELSE content.arguments
=============================================================================
