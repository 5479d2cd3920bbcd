----------------------------- MODULE AgentLoop -----------------------------
(***************************************************************************)
(* The program a run's task executes: execute_prompt with its typed        *)
(* attempts, the agent loop, one provider stream per turn, and the tool    *)
(* executor.  It refines the task of RunLifecycle, which allows any        *)
(* program that emits a turn's items in order.                             *)
(*                                                                         *)
(* A step runs from one await of the task to the next.  The provider       *)
(* decides what its streams deliver, the tools how their calls end.        *)
(***************************************************************************)
EXTENDS Naturals, Sequences, SequencesExt, Selection

CONSTANTS
    CallId, CallLists, MaxItems,    \* as in RunLifecycle
    CommittedItems,      \* the session's history when the prompt is accepted
    MaxFollowUps    \* MAX_RESULT_FOLLOW_UPS

VARIABLES
    typed,      \* the prompt requires a result
    pc,         \* the await the task is in
    attempt,    \* index of the current attempt
    working,    \* _RunHistory.working
    runHistory, \* run_history, the agent loop's own copy
    open,       \* the provider stream is open
    cutOff,     \* the last turn's stop_reason is "length"
    calls,      \* tool calls of the turn still to execute
    batch,      \* outcomes of the turn's tool executions
    executions, \* tool_executions of the attempt's earlier turns
    log,        \* the inner events emitted
    outcome,    \* what the task ended with
    aborting    \* the task is being cancelled

turnVars == <<open, cutOff, calls, batch>>
vars == <<typed, pc, attempt, working, runHistory, turnVars, executions, log, outcome, aborting>>

(* The conversation items of RunLifecycle. *)
UserMessage == [kind |-> "user"]
AssistantTurn(asked) == [kind |-> "assistant", calls |-> asked]
ToolResult(call, isError) == [kind |-> "tool_result", call |-> call, isError |-> isError]

Item ==
    {UserMessage} \cup {AssistantTurn(asked) : asked \in CallLists}
    \cup {ToolResult(call, isError) : call \in CallId, isError \in BOOLEAN}

ASSUME AgentLoopAssumption ==
    /\ CallLists \subseteq {asked \in Seq(CallId) : IsInjective(asked)}
    /\ CommittedItems \in Seq(Item)
    /\ MaxItems \in Nat \ {0} /\ MaxFollowUps \in Nat

\* How a tool call ends: an error of any kind, a result, a result that ends
\* the loop, or one of the two result tools a typed prompt adds.
Effect == {"error", "ok", "stop"} \cup (IF typed THEN {"complete", "fail"} ELSE {})
Terminates(execution) == execution.effect \in {"stop", "complete", "fail"}

\* The executions a typed prompt's result tools accepted.
Report == [call : CallId, effect : {"complete", "fail"}]

Event(name) == [event |-> name]
Carrying(name, item) == [event |-> name, item |-> item]
ToolEnd(call, effect) ==
    [event |-> "tool_end", item |-> ToolResult(call, effect = "error"), effect |-> effect]

\* The events that carry an item, and the items of a sequence of events.
ToolEndWith(effects) == [event : {"tool_end"}, item : Item, effect : effects]
Replayable ==
    [event : {"message_end", "follow_up"}, item : Item]
    \cup ToolEndWith({"error", "ok", "stop", "complete", "fail"})
Items(events) ==
    LET replayable == Only(events, Replayable)
    IN  [i \in DOMAIN replayable |-> replayable[i].item]

\* RunExecution._emit, for the events of one step in order.
Emit(events) ==
    /\ log' = log \o events
    /\ working' = working \o Items(events)

Delta == SubSeq(working, Len(CommittedItems) + 1, Len(working))
Room == Len(Delta) < MaxItems

-----------------------------------------------------------------------------
Init ==
    /\ typed \in BOOLEAN
    /\ pc = "start"
    /\ attempt = 0
    /\ working = Append(CommittedItems, UserMessage)
    /\ runHistory = <<>>
    /\ open = FALSE /\ cutOff = FALSE
    /\ calls = <<>> /\ batch = <<>> /\ executions = <<>>
    /\ log = <<>>
    /\ outcome = "none"
    /\ aborting = FALSE

At(place) == pc = place /\ ~aborting

Done(result) ==
    /\ pc' = "done"
    /\ outcome' = result
    /\ open' = FALSE

\* Mutant: the attempt is given the conversation as the previous one got it.
EnterAttemptStale(history) ==
    /\ runHistory' = IF attempt = 0 THEN history ELSE Append(CommittedItems, UserMessage)
    /\ executions' = <<>>
    /\ pc' = "calling"

\* run_agent: a private copy of the run's history as it is now.
EnterAttempt(history) ==
    /\ runHistory' = history
    /\ executions' = <<>>
    /\ pc' = "calling"

\* The task's first step, up to provider.stream.
Start ==
    /\ At("start")
    /\ EnterAttempt(working)
    /\ Emit(<<Event("agent_start")>>)
    /\ UNCHANGED <<typed, attempt, turnVars, outcome, aborting>>

\* provider.stream returned a stream.
OpenStream ==
    /\ At("calling")
    /\ pc' = "opened"
    /\ open' = TRUE
    /\ UNCHANGED <<typed, attempt, working, runHistory, cutOff, calls, batch, executions,
                   log, outcome, aborting>>

\* StreamStartEvent.  The updates that follow it are forwarded as
\* MessageUpdateEvents and change nothing here.
StartMessage ==
    /\ At("opened")
    /\ pc' = "streaming"
    /\ Emit(<<Event("turn_start"), Event("message_start")>>)
    /\ UNCHANGED <<typed, attempt, runHistory, turnVars, executions, outcome, aborting>>

\* Mutant: a turn with tool calls opens a tool scope before its message ends.
NextToolEarly(asked, events) ==
    IF asked = <<>>
    THEN pc' = "closing" /\ Emit(Append(events, Event("turn_end")))
    ELSE pc' = "tool" /\ Emit(<<Event("tool_start")>> \o events)

\* The next tool call starts, or the turn is over and its stream is closed.
NextTool(asked, events) ==
    IF asked = <<>>
    THEN pc' = "closing" /\ Emit(Append(events, Event("turn_end")))
    ELSE pc' = "tool" /\ Emit(Append(events, Event("tool_start")))

\* StreamDoneEvent: the turn is complete, whatever its stop reason, and all
\* its tool calls are going to be executed.
CompleteTurn(asked, length) ==
    /\ At("streaming") /\ Room
    /\ ToSet(asked) \cap {log[i].item.call : i \in {k \in DOMAIN log : log[k].event = "tool_end"}} = {}
    /\ cutOff' = length
    /\ calls' = asked
    /\ batch' = <<>>
    /\ NextTool(asked, <<Carrying("message_end", AssistantTurn(asked))>>)
    /\ UNCHANGED <<typed, attempt, runHistory, open, executions, outcome, aborting>>

\* Mutant: the batch runs concurrently and its calls end in any order.
EndAnyTool(effect) ==
    /\ At("tool")
    /\ \E i \in DOMAIN calls :
          /\ calls' = RemoveAt(calls, i)
          /\ batch' = Append(batch, [call |-> calls[i], effect |-> effect])
          /\ NextTool(RemoveAt(calls, i), <<ToolEnd(calls[i], effect)>>)
    /\ UNCHANGED <<typed, attempt, runHistory, open, cutOff, executions, outcome, aborting>>

\* ToolExecutor.execute returned; it turns every exception into an error.
EndTool(effect) ==
    /\ At("tool")
    /\ calls' = Tail(calls)
    /\ batch' = Append(batch, [call |-> Head(calls), effect |-> effect])
    /\ NextTool(Tail(calls), <<ToolEnd(Head(calls), effect)>>)
    /\ UNCHANGED <<typed, attempt, runHistory, open, cutOff, executions, outcome, aborting>>

\* _TurnResult.conversation_items
TurnItems ==
    <<AssistantTurn([i \in DOMAIN batch |-> batch[i].call])>>
    \o [i \in DOMAIN batch |-> ToolResult(batch[i].call, batch[i].effect = "error")]

\* _TurnResult.should_continue
ShouldContinue == batch # <<>> /\ ~\E i \in DOMAIN batch : Terminates(batch[i])

\* The stream is closed and the loop has tool results to send.
ContinueLoop ==
    /\ At("closing") /\ ShouldContinue
    /\ pc' = "calling"
    /\ open' = FALSE
    /\ runHistory' = runHistory \o TurnItems
    /\ executions' = executions \o batch
    /\ UNCHANGED <<typed, attempt, working, cutOff, calls, batch, log, outcome, aborting>>

\* Mutant: the last report of the attempt decides.
LastOutcome(all) ==
    LET reports == Only(all, Report)
    IN  IF reports = <<>> THEN "none"
        ELSE IF Last(reports).effect = "complete" THEN "completed" ELSE "agent_failure"

\* _result_outcome: the first report of the attempt decides.
ResultOutcome(all) ==
    LET reports == Only(all, Report)
    IN  IF reports = <<>> THEN "none"
        ELSE IF Head(reports).effect = "complete" THEN "completed" ELSE "agent_failure"

EndsAttempt ==
    /\ At("closing") /\ ~ShouldContinue
    /\ UNCHANGED <<typed, cutOff, calls, batch, aborting>>

\* What the ended attempt concludes the run with, if anything.
Conclusion ==
    IF typed THEN ResultOutcome(executions \o batch) ELSE "completed"

\* The attempt concludes the run: its text for a plain prompt, its report for
\* a typed one.
Conclude ==
    /\ EndsAttempt
    /\ Conclusion # "none"
    /\ Done(Conclusion)
    /\ Emit(<<Event("agent_end")>>)
    /\ UNCHANGED <<attempt, runHistory, executions>>

\* Mutant: one attempt more than the contract allows.
OneMoreAttempt == attempt <= MaxFollowUps

MayFollowUp == attempt < MaxFollowUps

\* No report: a reminder is added to the conversation and the next attempt
\* starts from the whole of it.
FollowUp ==
    /\ EndsAttempt /\ Room
    /\ Conclusion = "none" /\ MayFollowUp
    /\ attempt' = attempt + 1
    /\ LET events == <<Event("agent_end"), Carrying("follow_up", UserMessage), Event("agent_start")>>
       IN  Emit(events) /\ EnterAttempt(working \o Items(events))
    /\ open' = FALSE
    /\ UNCHANGED outcome

\* The contract's attempts are used up.
GiveUp ==
    /\ EndsAttempt
    /\ Conclusion = "none" /\ ~MayFollowUp
    /\ Done("agent_failure")
    /\ Emit(<<Event("agent_end")>>)
    /\ UNCHANGED <<attempt, runHistory, executions>>

\* StreamErrorEvent, possibly before any StreamStartEvent: the failed message
\* is emitted and TurnFailedError raised.
FailTurn ==
    /\ At("opened") \/ At("streaming")
    /\ Emit(<<Event("message_failed")>>)
    /\ Done("execution_failure")
    /\ UNCHANGED <<typed, attempt, runHistory, cutOff, calls, batch, executions, aborting>>

\* Mutant: no aclosing around the stream.
RaiseUnclosed ==
    /\ pc # "done" /\ ~aborting
    /\ pc' = "done"
    /\ outcome' = "execution_failure"
    /\ UNCHANGED <<typed, attempt, working, runHistory, turnVars, executions, log, aborting>>

\* Anything else that raises: a tool name that clashes with a result tool, the
\* provider call, a stream that ends without a terminal event, its closing.
\* A tool does not.
Raise ==
    /\ pc \notin {"tool", "done"} /\ ~aborting
    /\ Done("execution_failure")
    /\ UNCHANGED <<typed, attempt, working, runHistory, cutOff, calls, batch, executions, log, aborting>>

\* RunExecution.abort.
Abort ==
    /\ pc # "done"
    /\ aborting' = TRUE
    /\ UNCHANGED <<typed, pc, attempt, working, runHistory, turnVars, executions, log, outcome>>

\* The CancelledError leaves through aclosing, whose cleanup may raise.
Unwind ==
    /\ pc # "done" /\ aborting
    /\ \E result \in {"aborted", "execution_failure"} : Done(result)
    /\ UNCHANGED <<typed, attempt, working, runHistory, cutOff, calls, batch, executions, log, aborting>>

Next ==
    \/ Start \/ OpenStream \/ StartMessage
    \/ \E asked \in CallLists, length \in BOOLEAN : CompleteTurn(asked, length)
    \/ \E effect \in Effect : EndTool(effect)
    \/ ContinueLoop \/ Conclude \/ FollowUp \/ GiveUp
    \/ FailTurn \/ Raise \/ Abort \/ Unwind

Spec == Init /\ [][Next]_vars

-----------------------------------------------------------------------------
\* The two copies of the conversation agree whenever the provider is called:
\* it is sent the committed history and everything the run has added to it, in
\* the order the run will commit, across turns and attempts.
ProviderSeesTheRun == pc = "calling" => runHistory = working

\* The first complete or fail that was accepted decides a typed run, wherever
\* in the attempt's turns and batches it came; nothing is asked after it, and a
\* run without one fails only after MaxFollowUps reminders.
FirstReportDecides ==
    LET reports == Only(log, ToolEndWith({"complete", "fail"}))
        reported == reports # <<>>
        reminders == Len(Only(log, {Carrying("follow_up", UserMessage)}))
    IN  /\ typed /\ outcome = "completed" => reported /\ Head(reports).effect = "complete"
        /\ outcome = "agent_failure" =>
              IF reported THEN Head(reports).effect = "fail"
              ELSE reminders = MaxFollowUps
        /\ reported => pc \in {"tool", "closing", "done"}
        /\ reminders <= MaxFollowUps

\* A provider stream is never left open: not beside the next one, not when the
\* task has ended, however it ended.
StreamsAreClosed == open => pc \in {"opened", "streaming", "tool", "closing"}

Parent(start) ==
    CASE start = "agent_start" -> "run"
      [] start = "turn_start" -> "agent_start"
      [] start = "message_start" -> "turn_start"
      [] start = "tool_start" -> "turn_start"

StartOf(end) ==
    CASE end = "agent_end" -> "agent_start"
      [] end = "turn_end" -> "turn_start"
      [] end = "message_end" -> "message_start"
      [] end = "message_failed" -> "message_start"
      [] end = "tool_end" -> "tool_start"

\* The scopes open after an event; <<"broken">> once the nesting was violated.
After(scopes, e) ==
    CASE e.event \in {"agent_start", "turn_start", "message_start", "tool_start"} ->
            IF Last(scopes) = Parent(e.event) THEN Append(scopes, e.event) ELSE <<"broken">>
      [] e.event = "follow_up" ->
            IF scopes = <<"run">> THEN scopes ELSE <<"broken">>
      [] e.event = "message_failed" /\ Last(scopes) = "agent_start" -> scopes
      [] OTHER ->
            IF Last(scopes) = StartOf(e.event) THEN Front(scopes) ELSE <<"broken">>

\* The scopes open after all of the events.
Scopes(events) ==
    LET scopes[n \in 0 .. Len(events)] ==
            IF n = 0 THEN <<"run">> ELSE After(scopes[n - 1], events[n])
    IN  scopes[Len(events)]

\* Events nest as run, agent attempt, turn, message or tool execution on every
\* path; only a failed message may end without having started, when the stream
\* fails before the response exists.  A task that returns has closed them all.
ScopesNest ==
    /\ Last(Scopes(log)) # "broken"
    /\ outcome \in {"completed", "agent_failure"} => Scopes(log) = <<"run">>

\* What docs/openai-stream-event-lifecycle.md says: a response cut off by its length
\* limit ends its turn with no tool executions.
LengthStopRunsNoTools == cutOff => batch = <<>>

-----------------------------------------------------------------------------
(* The task of RunLifecycle: one run of one process, already accepted.     *)

Result ==
    CASE outcome \in {"agent_failure", "execution_failure"} -> "failed"
      [] OTHER -> outcome

Published ==
    LET kept == Only(log, Replayable \cup {Event("message_failed")})
    IN  [i \in DOMAIN kept |->
            IF kept[i] \in Replayable THEN [event |-> "item", item |-> kept[i].item]
            ELSE [event |-> "failed_turn"]]

Task == INSTANCE RunLifecycle WITH
    Session <- {"session"}, Run <- {"run"}, NoSession <- "no_session",
    Process <- {"process"}, NoProcess <- "no_process",
    sessions <- {"session"},
    runs <- [r \in {"run"} |-> [status |-> "active", session |-> "session"]],
    history <- [s \in {"session"} |-> <<>>],
    snapshot <- [r \in {"run"} |-> <<>>],
    exec <- [r \in {"run"} |->
        [phase |-> IF pc = "done" THEN "done" ELSE "running", process |-> "process",
         aborting |-> aborting, outcome |-> Result, delta |-> Delta,
         log |-> <<[event |-> "run_start"]>> \o Published, result |-> "none"]]

\* Every step of the program is one that RunLifecycle's task may take.
StepsAreTaskSteps ==
    [][Task!TaskStep("run") \/ Task!Abort("run") \/ Task!Unwind("run")]_(Task!vars)
=============================================================================
