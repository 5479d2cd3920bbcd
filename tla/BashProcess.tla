------------------------------ MODULE BashProcess ------------------------------
(***************************************************************************)
(* One call of the bash tool on a POSIX system: _wait_for_process with its *)
(* timeout, the process group it signals, the pipe it reads to the end,    *)
(* and cancellation at each of its awaits.                                 *)
(*                                                                         *)
(* What the command does is its own business: its processes start others,  *)
(* leave the group (setsid), close the inherited output pipe, ignore       *)
(* SIGTERM, exit when they like or never.                                  *)
(***************************************************************************)
EXTENDS Naturals, FiniteSets

CONSTANTS
    Process,    \* the processes the command may consist of
    Shell       \* the one create_subprocess_shell starts

ASSUME BashAssumption == Shell \in Process

VARIABLES
    pc,         \* the await _wait_for_process is suspended in
    timedOut,   \* timed_out
    cancelled,  \* a CancelledError was raised in it
    signalled,  \* the signals sent to the group
    reaped,     \* process.returncode is set and process.wait() is over
    unborn,     \* processes that were not started yet
    alive,      \* processes that run
    detached,   \* those that leave the process group when they start
    stubborn,   \* those that ignore SIGTERM
    holders     \* those that have the write end of the output pipe

command == <<detached, stubborn, holders>>
vars == <<pc, timedOut, cancelled, signalled, reaped, unborn, alive, command>>

\* _execute has started the shell in a session of its own and
\* _wait_for_process has entered wait_for.
Init ==
    /\ pc = "waiting"
    /\ timedOut = FALSE
    /\ cancelled = FALSE
    /\ signalled = {}
    /\ reaped = FALSE
    /\ unborn = Process \ {Shell}
    /\ alive = {Shell}
    /\ detached \in SUBSET (Process \ {Shell})
    /\ stubborn \in SUBSET Process
    /\ holders \in SUBSET Process

-----------------------------------------------------------------------------
(* The command.                                                            *)

\* A process starts another, which has the pipe only if its parent does and is
\* out of the group if its parent is.
Spawn(p) ==
    /\ p \in unborn
    /\ \E parent \in alive :
          /\ p \in holders => parent \in holders
          /\ parent \in detached => p \in detached
    /\ unborn' = unborn \ {p}
    /\ alive' = alive \union {p}
    /\ UNCHANGED <<pc, timedOut, cancelled, signalled, reaped, command>>

Exit(p) ==
    /\ p \in alive
    /\ alive' = alive \ {p}
    /\ UNCHANGED <<pc, timedOut, cancelled, signalled, reaped, unborn, command>>

\* The child watcher: the shell's exit code is known and wait_task ends, also
\* when other processes still hold the pipe.
Reap ==
    /\ Shell \notin alive
    /\ ~reaped
    /\ reaped' = TRUE
    /\ UNCHANGED <<pc, timedOut, cancelled, signalled, unborn, alive, command>>

-----------------------------------------------------------------------------
(* _wait_for_process.                                                      *)

\* Mutant: process.send_signal, which reaches the shell alone.
SignalShellOnly(signal, victims) ==
    IF reaped
    THEN UNCHANGED <<signalled, alive>>
    ELSE /\ signalled' = signalled \union {signal}
         /\ alive' = alive \ (victims \intersect {Shell})

\* _terminate_process and _kill_process: a shell that was reaped is left alone,
\* and so is what is left of its group.
Signal(signal, victims) ==
    IF reaped
    THEN UNCHANGED <<signalled, alive>>
    ELSE /\ signalled' = signalled \union {signal}
         /\ alive' = alive \ victims

\* wait_for returns: the shell exited in time.
Finished ==
    /\ pc = "waiting"
    /\ reaped
    /\ pc' = "reading"
    /\ UNCHANGED <<timedOut, cancelled, signalled, reaped, unborn, alive, command>>

\* wait_for raises TimeoutError; a shell may have been reaped just before.
Timeout ==
    /\ pc = "waiting"
    /\ timedOut' = TRUE
    /\ Signal("TERM", Process \ (detached \union stubborn))
    /\ pc' = "terminating"
    /\ UNCHANGED <<cancelled, reaped, unborn, command>>

\* asyncio.wait with its one second, or the second wait, ends with wait_task.
Stopped ==
    /\ pc \in {"terminating", "killing"}
    /\ reaped
    /\ pc' = "reading"
    /\ UNCHANGED <<timedOut, cancelled, signalled, reaped, unborn, alive, command>>

\* Mutant: the second signal is SIGTERM again.
EscalateMildly ==
    /\ pc = "terminating"
    /\ ~reaped
    /\ Signal("KILL", Process \ (detached \union stubborn))
    /\ pc' = "killing"
    /\ UNCHANGED <<timedOut, cancelled, reaped, unborn, command>>

\* The second is over and wait_task is not.
Escalate ==
    /\ pc = "terminating"
    /\ ~reaped
    /\ Signal("KILL", Process \ detached)
    /\ pc' = "killing"
    /\ UNCHANGED <<timedOut, cancelled, reaped, unborn, command>>

\* Mutant: the output is taken as it is when the shell is gone.
ReturnUnread ==
    /\ pc = "reading"
    /\ pc' = "done"
    /\ UNCHANGED <<timedOut, cancelled, signalled, reaped, unborn, alive, command>>

\* await output_task ends at the end of the pipe, which nobody may hold then.
\* _execute returns, raises the ToolError, or goes on raising CancelledError.
Return ==
    /\ pc = "reading"
    /\ alive \intersect holders = {}
    /\ pc' = "done"
    /\ UNCHANGED <<timedOut, cancelled, signalled, reaped, unborn, alive, command>>

\* The task is cancelled.  The finally clause still awaits the output, and
\* nobody is signalled; a second cancellation cancels the reading as well.
Cancel ==
    /\ pc # "done"
    /\ cancelled' = TRUE
    /\ pc' = IF pc = "reading" THEN "done" ELSE "reading"
    /\ UNCHANGED <<timedOut, signalled, reaped, unborn, alive, command>>

Next ==
    \/ \E p \in Process : Spawn(p) \/ Exit(p)
    \/ Reap
    \/ Finished
    \/ Timeout
    \/ Stopped
    \/ Escalate
    \/ Return
    \/ Cancel

\* The kernel reports exits and the event loop runs its timers and callbacks.
\* Nothing makes a process exit, and nothing makes the user abort.
Fairness ==
    /\ WF_vars(Reap)
    /\ WF_vars(Finished)
    /\ WF_vars(Timeout)
    /\ WF_vars(Stopped)
    /\ WF_vars(Escalate)
    /\ WF_vars(Return)

Spec == Init /\ [][Next]_vars /\ Fairness

-----------------------------------------------------------------------------
TypeOK ==
    /\ pc \in {"waiting", "terminating", "killing", "reading", "done"}
    /\ timedOut \in BOOLEAN
    /\ cancelled \in BOOLEAN
    /\ signalled \subseteq {"TERM", "KILL"}
    /\ reaped \in BOOLEAN
    /\ unborn \subseteq Process
    /\ alive \subseteq Process \ unborn
    /\ detached \subseteq Process \ {Shell}
    /\ stubborn \subseteq Process
    /\ holders \subseteq Process

\* An answer the model sees is final: the exit code is the shell's (a None
\* would be read as success) and nobody is left that could have written more of
\* the output, on every path through timeout and escalation.
AnswersAreFinal ==
    pc = "done" /\ ~cancelled =>
        /\ reaped
        /\ alive \intersect holders = {}

\* A shell that outlives its timeout is gone at some time, whatever it does with
\* SIGTERM, unless the call is cancelled before SIGKILL.
TimeoutStopsTheShell ==
    timedOut ~> reaped \/ cancelled

\* What the signals can reach, they end: if no process of the command leaves the
\* group, a call whose SIGTERM nobody ignores, or that came to SIGKILL, returns.
StoppedCommandsReturn ==
    \/ detached = {} /\ stubborn = {} /\ "TERM" \in signalled
    \/ detached = {} /\ "KILL" \in signalled
    ~> pc = "done" \/ cancelled

\* As the comment on DEFAULT_TIMEOUT_SECONDS has it: a command that hangs until
\* its timeout stops it cannot wedge the run.
NoWedge ==
    "TERM" \in signalled ~> pc = "done" \/ cancelled
=============================================================================
