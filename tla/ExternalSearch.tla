---------------------------- MODULE ExternalSearch ----------------------------
(***************************************************************************)
(* execute, under the grep and find tools: a child process writes its      *)
(* results and its complaints into two pipes, each of which holds so much  *)
(* and then blocks the child; the caller collects the results up to a cap, *)
(* kills a child that has more to say, and awaits it, while a task of its  *)
(* own drains the complaints.  The caller may be cancelled anywhere.       *)
(* Output is counted in chunks of bytes.                                   *)
(***************************************************************************)
EXTENDS Integers

CONSTANTS
    MaxOutput,      \* what a child writes at most, per stream
    PipeSize,       \* what a pipe and the stream reader before it hold
    OutputCap,      \* STDOUT_BYTE_CAP
    ErrorCap        \* STDERR_BYTE_CAP

SearchAssumption ==
    /\ MaxOutput \in Nat
    /\ {PipeSize, OutputCap, ErrorCap} \subseteq Nat \ {0}

VARIABLES
    child,          \* "none", "running", "exited", "killed"
    toWrite,        \* per stream: what the child has yet to write
    writing,        \* the stream of its write in progress
    pipe,           \* per stream: written and not read
    collected,      \* stdout_bytes
    kept,           \* stderr_bytes
    drainer,        \* _read_capped_stderr: "none", "reading", "finished"
    caller,         \* execute: "start", "collecting", "waiting", "joining",
                    \* "output", "lines", "error", "cancelled"
    written         \* per stream: what the child wrote in all

vars == <<child, toWrite, writing, pipe, collected, kept, drainer, caller, written>>

Streams == {"out", "err"}
Smaller(n, m) == IF n < m THEN n ELSE m

Init ==
    /\ child = "none"
    /\ toWrite \in [Streams -> 0..MaxOutput]
    /\ writing \in Streams
    /\ pipe = [s \in Streams |-> 0]
    /\ collected = 0
    /\ kept = 0
    /\ drainer = "none"
    /\ caller = "start"
    /\ written = [s \in Streams |-> 0]

-----------------------------------------------------------------------------
(* The child *)

\* A write that the pipe has room for; the next is to any stream that the
\* child has something left for.
Write ==
    /\ child = "running"
    /\ toWrite[writing] > 0
    /\ pipe[writing] < PipeSize
    /\ toWrite' = [toWrite EXCEPT ![writing] = @ - 1]
    /\ pipe' = [pipe EXCEPT ![writing] = @ + 1]
    /\ written' = [written EXCEPT ![writing] = @ + 1]
    /\ writing' \in Streams
    /\ UNCHANGED <<child, collected, kept, drainer, caller>>

TurnToTheOther ==
    /\ child = "running"
    /\ toWrite[writing] = 0
    /\ \E s \in Streams : toWrite[s] > 0 /\ writing' = s
    /\ UNCHANGED <<child, toWrite, pipe, collected, kept, drainer, caller, written>>

Exit ==
    /\ child = "running"
    /\ \A s \in Streams : toWrite[s] = 0
    /\ child' = "exited"
    /\ UNCHANGED <<toWrite, writing, pipe, collected, kept, drainer, caller, written>>

Child == Write \/ TurnToTheOther \/ Exit

AtEnd(s) == pipe[s] = 0 /\ child \in {"exited", "killed"}

-----------------------------------------------------------------------------
(* The caller and its task *)

CreateSubprocess ==
    /\ caller = "start"
    /\ \/ child' = "running" /\ drainer' = "reading" /\ caller' = "collecting"
       \/ caller' = "error" /\ UNCHANGED <<child, drainer>>
    /\ UNCHANGED <<toWrite, writing, pipe, collected, kept, written>>

\* Any part of what is there, up to all of it; at the cap the child is killed
\* if it has not exited.
ReadStdout ==
    /\ caller = "collecting"
    /\ \E chunk \in 1..pipe["out"] :
          /\ pipe' = [pipe EXCEPT !["out"] = @ - chunk]
          /\ collected' = collected + chunk
    /\ IF collected' >= OutputCap
       THEN /\ caller' = "waiting"
            /\ child' = IF child = "running" THEN "killed" ELSE child
       ELSE UNCHANGED <<caller, child>>
    /\ UNCHANGED <<toWrite, writing, kept, drainer, written>>

EndOfStdout ==
    /\ caller = "collecting"
    /\ AtEnd("out")
    /\ caller' = "waiting"
    /\ UNCHANGED <<child, toWrite, writing, pipe, collected, kept, drainer, written>>

Wait ==
    /\ caller = "waiting"
    /\ child \in {"exited", "killed"}
    /\ caller' = "joining"
    /\ UNCHANGED <<child, toWrite, writing, pipe, collected, kept, drainer, written>>

\* Mutant: stderr is read once the child has been waited for.
ReadStderrLast ==
    /\ drainer = "reading"
    /\ caller = "joining"
    /\ \E chunk \in 1..pipe["err"] :
          /\ pipe' = [pipe EXCEPT !["err"] = @ - chunk]
          /\ kept' = Smaller(kept + chunk, ErrorCap)
    /\ UNCHANGED <<child, toWrite, writing, collected, drainer, caller, written>>

ReadStderr ==
    /\ drainer = "reading"
    /\ \E chunk \in 1..pipe["err"] :
          /\ pipe' = [pipe EXCEPT !["err"] = @ - chunk]
          /\ kept' = Smaller(kept + chunk, ErrorCap)
    /\ UNCHANGED <<child, toWrite, writing, collected, drainer, caller, written>>

EndOfStderr ==
    /\ drainer = "reading"
    /\ AtEnd("err")
    /\ drainer' = "finished"
    /\ UNCHANGED <<child, toWrite, writing, pipe, collected, kept, caller, written>>

Capped == collected >= OutputCap

\* The complete lines of a capped output, unless it has none; what the exit
\* code makes of one that is not.
Answer ==
    /\ caller = "joining"
    /\ drainer = "finished"
    /\ caller' \in IF Capped THEN {"lines", "error"} ELSE {"output", "error"}
    /\ UNCHANGED <<child, toWrite, writing, pipe, collected, kept, drainer, written>>

\* The run is cancelled: nobody stops the child or the task.
Cancel ==
    /\ caller \in {"collecting", "waiting", "joining"}
    /\ caller' = "cancelled"
    /\ UNCHANGED <<child, toWrite, writing, pipe, collected, kept, drainer, written>>

Caller == CreateSubprocess \/ ReadStdout \/ EndOfStdout \/ Wait \/ Answer
Drainer == ReadStderr \/ EndOfStderr

Next == Child \/ Caller \/ Drainer \/ Cancel

\* The operating system runs the child, and the event loop both coroutines;
\* nobody has to cancel.
Spec ==
    /\ Init /\ [][Next]_vars
    /\ WF_vars(Child) /\ WF_vars(Caller) /\ WF_vars(Drainer)

-----------------------------------------------------------------------------
Answered == {"output", "lines", "error"}

\* All the child wrote and the first of its complaints, or a capped output and
\* the child gone.
AnsweredInFull ==
    /\ caller \in Answered
    /\ kept = Smaller(written["err"], ErrorCap)
    /\ \/ child = "exited" /\ collected = written["out"]
          /\ \A s \in Streams : toWrite[s] = 0
       \/ Capped /\ child \in {"exited", "killed"}

\* Whichever pipe the child fills first, every call that is not cancelled, and
\* whose child could be started, comes to its answer in full.
SearchesAnswer ==
    <>(\/ caller = "cancelled"
       \/ caller = "error" /\ child = "none"
       \/ AnsweredInFull)

=============================================================================
