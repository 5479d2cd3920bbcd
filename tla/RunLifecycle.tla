---------------------------- MODULE RunLifecycle ----------------------------
(***************************************************************************)
(* Prompts as the harness runs them: AgentHarness.prompt, RunExecution,    *)
(* its _RunHistory buffer and RunHandle, over the Store, in several        *)
(* processes that share the database.                                      *)
(*                                                                         *)
(* Within a process everything between two awaits of the event loop is     *)
(* one step.  The task that executes the prompt, its done-callback         *)
(* _finalize, abort() calls, durable aborts from any process, forks and    *)
(* crashes interleave.  The program the task runs (execute_prompt, the     *)
(* agent loop, tools and provider) is any program that emits the items of  *)
(* one conversation turn in the order agent.py emits them.                 *)
(***************************************************************************)
EXTENDS Naturals, Sequences, SequencesExt, Selection

CONSTANTS
    Session, Run, NoSession,    \* as in Store
    Process,    \* processes that open the database
    NoProcess,  \* where a run id that was never prompted executes
    CallId,     \* tool call ids, as the provider issues them
    CallLists,  \* the lists of tool calls an assistant turn may carry
    MaxItems    \* bound: items a task emits in one run, the prompt included

ASSUME LifecycleAssumption ==
    /\ NoSession \notin Session
    /\ NoProcess \notin Process
    /\ CallLists \subseteq {calls \in Seq(CallId) : IsInjective(calls)}
    /\ MaxItems \in Nat \ {0}

VARIABLES
    sessions, runs, history, snapshot,  \* the Store's
    exec        \* run id -> its RunExecution

storeVars == <<sessions, runs, history, snapshot>>
vars == <<storeVars, exec>>

UserMessage == [kind |-> "user"]
AssistantTurn(calls) == [kind |-> "assistant", calls |-> calls]
ToolResult(call, isError) == [kind |-> "tool_result", call |-> call, isError |-> isError]

Item ==
    {UserMessage} \cup {AssistantTurn(calls) : calls \in CallLists}
    \cup {ToolResult(call, isError) : call \in CallId, isError \in BOOLEAN}

Store == INSTANCE Store WITH Delta <- Seq(Item)

Outcome == {"completed", "failed", "aborted"}

(* The live event log: _emit appends every event to it and hands the       *)
(* replayable ones to _RunHistory.observe.                                 *)
RunStart == [event |-> "run_start"]
Emitted(item) == [event |-> "item", item |-> item]
FailedTurn == [event |-> "failed_turn"]
RunEnd(outcome) == [event |-> "run_end", outcome |-> outcome]
RunFault == [event |-> "run_fault"]

(* phase: "none" before the prompt, "running" while the task is not done,  *)
(* "done" until the loop calls _finalize, "finalized" after it, "lost"     *)
(* when the process died first.                                            *)
NoExecution == [phase |-> "none", process |-> NoProcess, aborting |-> FALSE,
                outcome |-> "none", delta |-> <<>>, log |-> <<>>, result |-> "none"]

Running(r) == exec[r].phase = "running"
LastItem(r) == Last(exec[r].delta)

-----------------------------------------------------------------------------
(* runtime/history.py                                                      *)

CallsOf(item) == IF item.kind = "assistant" THEN item.calls ELSE <<>>

Answered(items) ==
    {items[i].call : i \in {k \in DOMAIN items : items[k].kind = "tool_result"}}

\* Every tool call of the items, in order, that no result names.
UnansweredToolCalls(items) ==
    Only(FlattenSeq([i \in DOMAIN items |-> CallsOf(items[i])]),
         CallId \ Answered(items))

\* heal: an error result for every call the run did not get to answer.
Heal(items) ==
    LET open == UnansweredToolCalls(items)
    IN  items \o [k \in DOMAIN open |-> ToolResult(open[k], TRUE)]

\* _emit of an event that carries a replayable item.
Emit(r, item) ==
    exec' = [exec EXCEPT ![r].log = Append(@, Emitted(item)),
                         ![r].delta = Append(@, item)]

-----------------------------------------------------------------------------
Init ==
    /\ Store!Init
    /\ exec = [r \in Run |-> NoExecution]

CreateSession(s) == Store!CreateSession(s) /\ UNCHANGED exec

\* AgentHarness.prompt: durable admission, RunStartEvent and create_task in
\* one step.  A refused start_run raises to the caller and leaves no trace.
Prompt(p, s, r) ==
    /\ Store!StartRun(s, r)
    /\ exec' = [exec EXCEPT ![r] =
          [NoExecution EXCEPT !.phase = "running", !.process = p,
                              !.delta = <<UserMessage>>, !.log = <<RunStart>>]]

(* Steps of the task.  abort() makes its pending await raise, so it takes  *)
(* none of these once it is being aborted.                                 *)
MayStep(r) == Running(r) /\ ~exec[r].aborting
Room(r) == Len(exec[r].delta) < MaxItems
Settled(r) == UnansweredToolCalls(exec[r].delta) = <<>>

\* The agent loop needs no provider turn: the last one asked for no tools, or
\* a tool of its batch terminated the loop.
MayConclude(r) == Settled(r) /\ LastItem(r).kind # "user"

\* A provider turn completed.  Its call ids are new in this run.
CompleteTurn(r, calls) ==
    /\ MayStep(r) /\ Room(r) /\ Settled(r)
    /\ LastItem(r).kind # "assistant"
    /\ ToSet(calls) \cap Answered(exec[r].delta) = {}
    /\ Emit(r, AssistantTurn(calls))
    /\ UNCHANGED storeVars

\* The next tool call of the turn came back, with its result or an error.
EndTool(r, isError) ==
    /\ MayStep(r) /\ ~Settled(r)
    /\ Emit(r, ToolResult(Head(UnansweredToolCalls(exec[r].delta)), isError))
    /\ UNCHANGED storeVars

\* A typed prompt ended an attempt without a result and asks again.
FollowUp(r) ==
    /\ MayStep(r) /\ Room(r) /\ MayConclude(r)
    /\ Emit(r, UserMessage)
    /\ UNCHANGED storeVars

TaskDone(r, outcome) ==
    /\ exec' = [exec EXCEPT ![r].phase = "done", ![r].outcome = outcome]
    /\ UNCHANGED storeVars

\* execute_prompt returns Completed, or Failed for a typed result.
Return(r, outcome) ==
    /\ MayStep(r) /\ MayConclude(r)
    /\ TaskDone(r, outcome)

\* Mutant: the failed turn's partial blocks are observed as a turn.
FailTurnObserved(r) ==
    /\ MayStep(r) /\ Settled(r)
    /\ exec' = [exec EXCEPT ![r].phase = "done", ![r].outcome = "failed",
                            ![r].log = Append(@, FailedTurn),
                            ![r].delta = Append(@, AssistantTurn(<<>>))]
    /\ UNCHANGED storeVars

\* The stream reported an error: MessageEnd of a failed turn, which is not
\* replayable, then TurnFailedError.
FailTurn(r) ==
    /\ MayStep(r) /\ Settled(r)
    /\ exec' = [exec EXCEPT ![r].phase = "done", ![r].outcome = "failed",
                            ![r].log = Append(@, FailedTurn)]
    /\ UNCHANGED storeVars

\* Any other exception out of the provider, the loop or stream cleanup.
Raise(r) == MayStep(r) /\ TaskDone(r, "failed")

\* RunHandle.abort: task.cancel(), a no-op once the task is done.
Abort(r) ==
    /\ Running(r)
    /\ exec' = [exec EXCEPT ![r].aborting = TRUE]
    /\ UNCHANGED storeVars

\* Mutant: ToolExecutor.execute catches BaseException, so a cancelled tool is
\* one more failed call and the run goes on.
UnwindSwallowed(r) ==
    /\ Running(r) /\ exec[r].aborting
    /\ IF Settled(r) THEN TaskDone(r, "aborted")
       ELSE LET result == ToolResult(Head(UnansweredToolCalls(exec[r].delta)), TRUE)
            IN  /\ exec' = [exec EXCEPT ![r].aborting = FALSE,
                                        ![r].log = Append(@, Emitted(result)),
                                        ![r].delta = Append(@, result)]
                /\ UNCHANGED storeVars

\* The CancelledError leaves the coroutine, or cleanup on the way raises
\* something else in its place.
Unwind(r) ==
    /\ Running(r) /\ exec[r].aborting
    /\ \E outcome \in {"aborted", "failed"} : TaskDone(r, outcome)

-----------------------------------------------------------------------------
(* The done-callback: _finalize, _finish and _append_terminal_event.       *)

Close(r, result, delta, event) ==
    exec' = [exec EXCEPT ![r].phase = "finalized", ![r].result = result,
                         ![r].delta = delta, ![r].log = Append(@, event)]

\* Mutant: the buffer is committed as the task left it.
CommitUnhealed(r) ==
    /\ exec[r].phase = "done"
    /\ Store!FinishRun(runs[r].session, r, exec[r].outcome, exec[r].delta)
    /\ Close(r, exec[r].outcome, Heal(exec[r].delta), RunEnd(exec[r].outcome))

\* The record is still active: it ends with the task's outcome and the healed
\* delta is committed with it.
Commit(r) ==
    /\ exec[r].phase = "done"
    /\ Store!FinishRun(runs[r].session, r, exec[r].outcome, Heal(exec[r].delta))
    /\ Close(r, exec[r].outcome, Heal(exec[r].delta), RunEnd(exec[r].outcome))

\* Mutant: the loser of the race reports its own outcome.
ConcedeNothing(r) ==
    /\ exec[r].phase = "done"
    /\ Store!IsTerminal(r)
    /\ Close(r, exec[r].outcome, Heal(exec[r].delta), RunEnd(exec[r].outcome))
    /\ UNCHANGED storeVars

\* Mutant: _ended_outcome takes whatever status get_run reports, and any error
\* of finish_run leads to it.
ConcedeUnchecked(r) ==
    /\ exec[r].phase = "done"
    /\ Close(r, runs[r].status, Heal(exec[r].delta), RunEnd(runs[r].status))
    /\ UNCHANGED storeVars

\* RunAlreadyEndedError: a durable abort was first and its record answers.
Concede(r) ==
    /\ exec[r].phase = "done"
    /\ Store!IsTerminal(r)
    /\ Close(r, runs[r].status, Heal(exec[r].delta), RunEnd(runs[r].status))
    /\ UNCHANGED storeVars

\* Mutant: the fault is reported to wait() but does not close the log.
FaultSilently(r) ==
    /\ exec[r].phase = "done"
    /\ exec' = [exec EXCEPT ![r].phase = "finalized", ![r].result = "faulted"]
    /\ UNCHANGED storeVars

\* finish_run or get_run failed (locked database, I/O error): the process
\* reports a fault and the record stays as it is.
Fault(r) ==
    /\ exec[r].phase = "done"
    /\ Close(r, "faulted", Heal(exec[r].delta), RunFault)
    /\ UNCHANGED storeVars

Finalize(r) == Commit(r) \/ Concede(r) \/ Fault(r)

-----------------------------------------------------------------------------
(* The rest of the world.                                                  *)

\* SessionRepository.abort_active_run, from any process; the execution of the
\* run, if there is one, is not told.
DurableAbort(s) == Store!AbortActiveRun(s) /\ UNCHANGED exec

Fork(source, target) == Store!ForkSession(source, target) /\ UNCHANGED exec

\* A process dies: its executions are gone, the records stay as they are.
Crash(p) ==
    /\ \E r \in Run : exec[r].process = p /\ exec[r].phase \in {"running", "done"}
    /\ exec' = [r \in Run |->
                   IF exec[r].process = p /\ exec[r].phase \in {"running", "done"}
                   THEN [exec[r] EXCEPT !.phase = "lost"] ELSE exec[r]]
    /\ UNCHANGED storeVars

TaskStep(r) ==
    \/ \E calls \in CallLists : CompleteTurn(r, calls)
    \/ \E isError \in BOOLEAN : EndTool(r, isError)
    \/ FollowUp(r)
    \/ \E outcome \in {"completed", "failed"} : Return(r, outcome)
    \/ FailTurn(r)
    \/ Raise(r)

Next ==
    \/ \E s \in Session : CreateSession(s) \/ DurableAbort(s)
    \/ \E p \in Process, s \in Session, r \in Run : Prompt(p, s, r)
    \/ \E r \in Run : TaskStep(r) \/ Abort(r) \/ Unwind(r) \/ Finalize(r)
    \/ \E source, target \in Session : Fork(source, target)
    \/ \E p \in Process : Crash(p)

\* The event loop delivers a cancellation to the await it interrupts and runs
\* the callbacks of a done task; nothing else is owed to anyone.
Fairness == \A r \in Run : WF_vars(Unwind(r)) /\ WF_vars(Finalize(r))

Spec == Init /\ [][Next]_vars /\ Fairness

-----------------------------------------------------------------------------
TypeOK ==
    /\ Store!TypeOK
    /\ exec \in [Run ->
          [phase : {"none", "running", "done", "finalized", "lost"},
           process : Process \cup {NoProcess},
           aborting : BOOLEAN,
           outcome : Outcome \cup {"none"},
           delta : Seq(Item),
           log : Seq({RunStart, FailedTurn, RunFault}
                     \cup {Emitted(item) : item \in Item}
                     \cup {RunEnd(outcome) : outcome \in Outcome}),
           result : Outcome \cup {"none", "faulted"}]]

Committed(s) == [i \in DOMAIN history[s] |-> history[s][i].item]

Answers(items, i, j) ==
    /\ items[j].kind = "tool_result"
    /\ items[j].call \in ToSet(CallsOf(items[i]))
    /\ \A k \in i + 1 .. j : items[k].kind = "tool_result"

\* The provider accepts committed history as it stands: every tool call is
\* answered exactly once, by a result that comes before anything but results
\* follows the call, and no result answers nothing; whatever was running when
\* the turn was cancelled or failed, in every session and every fork.
HistoryIsReplayable ==
    \A s \in Session :
        LET items == Committed(s)
        IN  /\ \A i \in DOMAIN items : \A call \in ToSet(CallsOf(items[i])) :
                  Cardinality({j \in i + 1 .. Len(items) :
                                  Answers(items, i, j) /\ items[j].call = call}) = 1
            /\ \A j \in DOMAIN items :
                  items[j].kind = "tool_result" =>
                      \E i \in 1 .. j - 1 : Answers(items, i, j)

\* The turn a run left in its session, in order.
Turn(r) ==
    LET rows == Only(history[runs[r].session], [run : {r}, item : Item])
    IN  [i \in DOMAIN rows |-> rows[i].item]
Kept(r) == runs[r].status # "absent" /\ Turn(r) # <<>>

\* The items subscribers saw in the log, in order.
Streamed(r) ==
    LET events == Only(exec[r].log, {Emitted(item) : item \in Item})
    IN  [i \in DOMAIN events |-> events[i].item]

\* What a run commits is its prompt, then exactly what its events() stream
\* showed, then error results for calls that stream left open: no failed turn,
\* nothing lost, nothing reordered.
TurnIsWhatWasStreamed ==
    \A r \in Run :
        Kept(r) =>
            LET seen == <<UserMessage>> \o Streamed(r)
            IN  /\ IsPrefix(seen, Turn(r))
                /\ \A i \in DOMAIN Turn(r) \ DOMAIN seen :
                      /\ Turn(r)[i].kind = "tool_result" /\ Turn(r)[i].isError
                      /\ Turn(r)[i].call \notin Answered(seen)

\* Every waiter and every subscriber learns the same thing at the same time:
\* the log is closed, by one terminal event and nothing after it, exactly when
\* wait() has its answer, and the event says what the answer says.
LogClosesWithTheAnswer ==
    \A r \in Run :
        LET log == exec[r].log
            Terminal(i) == log[i].event \in {"run_end", "run_fault"}
        IN  /\ exec[r].result = "none" => ~\E i \in DOMAIN log : Terminal(i)
            /\ exec[r].result # "none" =>
                  /\ \A i \in DOMAIN log : Terminal(i) <=> i = Len(log)
                  /\ Last(log) = IF exec[r].result = "faulted" THEN RunFault
                                 ELSE RunEnd(exec[r].result)

\* A record that nobody will end by itself (its session refuses every prompt
\* until abort_active_run) is only ever left behind by a process that died or
\* a fault that was reported: an answered run has freed its session.
OrphansAreFaultsOrCrashes ==
    \A r \in Run :
        Store!IsActive(r) => \/ exec[r].phase \in {"running", "done", "lost"}
                             \/ exec[r].result = "faulted"

Contract == INSTANCE RunContract WITH
    record <- [r \in Run |-> runs[r].status],
    answer <- [r \in Run |-> exec[r].result],
    kept <- [r \in Run |-> Kept(r)]

\* Each run, seen through its record, its answer and its session's history,
\* behaves as RunContract says, whoever aborts it, forks around it or crashes.
ImplementsContract == Contract!Spec

\* abort() is enough: a run that is being aborted answers its waiters (with
\* Aborted, with a cleanup failure, or with a fault) unless its process dies.
AbortIsAnswered ==
    \A r \in Run :
        Running(r) /\ exec[r].aborting ~> exec[r].phase \in {"finalized", "lost"}
=============================================================================
