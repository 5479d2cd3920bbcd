------------------------------ MODULE EventLog ------------------------------
(***************************************************************************)
(* The live event log of one run and its subscribers: RunExecution.events, *)
(* _emit and _finalize around one asyncio.Event that every subscriber      *)
(* clears and waits on.                                                    *)
(*                                                                         *)
(* A subscriber is an async generator: it is suspended only at its yield,  *)
(* for as long as its consumer likes, and in _changed.wait().  What it     *)
(* does between two suspensions is one step.                               *)
(***************************************************************************)
EXTENDS Naturals, Sequences

CONSTANTS
    Subscriber,     \* the events() generators of the run
    MaxEvents       \* bound: events before the terminal one

ASSUME EventLogAssumption == MaxEvents \in Nat \ {0}

VARIABLES
    log,        \* _events
    changed,    \* _changed, the flag
    finalized,  \* _finalized
    at,         \* where each subscriber is suspended
    index       \* its index; the event at index is delivered when it yields

logVars == <<log, changed, finalized, at, index>>

Inner == "inner"
Terminal == "terminal"

\* RunStartEvent is emitted before anyone can subscribe, and sets the flag.
LogInit ==
    /\ log = <<Inner>>
    /\ changed = TRUE
    /\ finalized = FALSE
    /\ at = [s \in Subscriber |-> "new"]
    /\ index = [s \in Subscriber |-> 0]

\* asyncio.Event.set: nothing if it is set, else every waiter is scheduled and
\* will return from wait() whatever happens to the flag meanwhile.
WakeAll == [s \in Subscriber |-> IF ~changed /\ at[s] = "waiting" THEN "woken" ELSE at[s]]

\* _emit: append, then set.
Emit(event) ==
    /\ log' = Append(log, event)
    /\ changed' = TRUE
    /\ at' = WakeAll

\* The task emits an event of the run.
Publish ==
    /\ ~finalized
    /\ Len(log) < MaxEvents
    /\ Emit(Inner)
    /\ UNCHANGED <<finalized, index>>

\* Mutant: an await between the terminal event and the flag that goes with it.
FinalizeInTwoSteps ==
    /\ ~finalized
    /\ IF log[Len(log)] = Terminal
       THEN finalized' = TRUE /\ UNCHANGED <<log, changed, at>>
       ELSE Emit(Terminal) /\ UNCHANGED finalized
    /\ UNCHANGED index

\* _finalize: the terminal event and _finalized in one step.
Finalize ==
    /\ ~finalized
    /\ Emit(Terminal)
    /\ finalized' = TRUE
    /\ UNCHANGED index

-----------------------------------------------------------------------------
(* A subscriber's loop, with i for its local index.                        *)

\* There is an event to deliver.
Deliver(s, i) ==
    /\ i < Len(log)
    /\ at' = [at EXCEPT ![s] = "yielded"]
    /\ index' = [index EXCEPT ![s] = i]

\* Mutant: the end is looked for before the log is drained.
ReturnUndrained(s, i) ==
    /\ finalized
    /\ at' = [at EXCEPT ![s] = "ended"]
    /\ index' = [index EXCEPT ![s] = i]

\* The log is drained and there will be no more.
Return(s, i) ==
    /\ i >= Len(log)
    /\ finalized
    /\ at' = [at EXCEPT ![s] = "ended"]
    /\ index' = [index EXCEPT ![s] = i]

\* The log is drained: wait.  If the flag is still set wait() returns at once,
\* the loop clears it, finds nothing and waits again; so the subscriber always
\* goes to sleep on a cleared flag.
Sleep(s, i) ==
    /\ i >= Len(log)
    /\ ~finalized
    /\ at' = [at EXCEPT ![s] = "waiting"]
    /\ index' = [index EXCEPT ![s] = i]
    /\ changed' = FALSE

\* The top of the loop: clear, drain, end or wait.
Loop(s, i) ==
    \/ Deliver(s, i) /\ changed' = FALSE
    \/ Return(s, i) /\ changed' = FALSE
    \/ Sleep(s, i)

\* The consumer asks for the first event.
Subscribe(s) ==
    /\ at[s] = "new"
    /\ Loop(s, 0)
    /\ UNCHANGED <<log, finalized>>

\* The consumer asks for the next event: the drain goes on after the yield.
Pull(s) ==
    /\ at[s] = "yielded"
    /\ LET i == index[s] + 1
       IN  \/ Deliver(s, i) /\ UNCHANGED changed
           \/ Return(s, i) /\ UNCHANGED changed
           \/ Sleep(s, i)
    /\ UNCHANGED <<log, finalized>>

\* Mutant: a condition-variable habit, waiting on if the flag is clear again.
ResumeIfSet(s) ==
    /\ at[s] = "woken"
    /\ IF changed THEN Loop(s, index[s])
       ELSE at' = [at EXCEPT ![s] = "waiting"] /\ UNCHANGED <<index, changed>>
    /\ UNCHANGED <<log, finalized>>

\* The event loop resumes a subscriber whose wait() is over.
Resume(s) ==
    /\ at[s] = "woken"
    /\ Loop(s, index[s])
    /\ UNCHANGED <<log, finalized>>

\* The consumer breaks out of its loop, or is cancelled.
Leave(s) ==
    /\ at[s] \in {"yielded", "waiting", "woken"}
    /\ at' = [at EXCEPT ![s] = "left"]
    /\ UNCHANGED <<log, changed, finalized, index>>

LogNext ==
    \/ Publish
    \/ Finalize
    \/ \E s \in Subscriber : Subscribe(s) \/ Pull(s) \/ Resume(s) \/ Leave(s)

\* The event loop resumes what it has scheduled; consumers that stay keep
\* iterating, as `async for` does.  Nothing makes the run end.
Fairness == \A s \in Subscriber : WF_logVars(Resume(s)) /\ WF_logVars(Pull(s))

LogSpec == LogInit /\ [][LogNext]_logVars /\ Fairness

-----------------------------------------------------------------------------
LogTypeOK ==
    /\ log \in Seq({Inner, Terminal})
    /\ changed \in BOOLEAN
    /\ finalized \in BOOLEAN
    /\ at \in [Subscriber -> {"new", "yielded", "waiting", "woken", "ended", "left"}]
    /\ index \in [Subscriber -> Nat]
    /\ \A s \in Subscriber : index[s] <= Len(log)

\* No lost wakeup: whoever is asleep has been given every event so far, the
\* run is not over, and the next emit will find the flag clear and wake it,
\* although all subscribers clear the same flag at times of their own.
SleepersAreCurrent ==
    \A s \in Subscriber :
        at[s] = "waiting" => index[s] = Len(log) /\ ~finalized /\ ~changed

\* events() ends only after the one terminal event, and after everything else.
EndedReadersSawTheEnd ==
    \A s \in Subscriber :
        at[s] = "ended" =>
            /\ index[s] = Len(log)
            /\ \A k \in DOMAIN log : log[k] = Terminal <=> k = Len(log)

\* Once the run is over, every subscriber that keeps iterating gets to the end
\* of the log, however many of them share the flag.
EveryReaderEnds ==
    \A s \in Subscriber :
        finalized /\ at[s] \in {"yielded", "waiting", "woken"} ~> at[s] \in {"ended", "left"}
=============================================================================
