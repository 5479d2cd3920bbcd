---------------------------- MODULE RunContract ----------------------------
(***************************************************************************)
(* What tile promises about one prompt to the holder of its RunHandle and  *)
(* to anyone who reads the database: the durable record ends once, wait()  *)
(* answers once and never with an outcome the record contradicts, and the  *)
(* run's conversation turn becomes history only in the step in which its   *)
(* own execution ends the record.                                          *)
(***************************************************************************)
CONSTANT Run

VARIABLES
    record,     \* run id -> status of its durable record
    answer,     \* run id -> what wait() returns, "none" while it blocks
    kept        \* run id -> the run's turn is in its session's history

contractVars == <<record, answer, kept>>

Outcome == {"completed", "failed", "aborted"}

Init ==
    /\ record = [r \in Run |-> "absent"]
    /\ answer = [r \in Run |-> "none"]
    /\ kept = [r \in Run |-> FALSE]

\* A prompt is durably accepted.
Accept(r) ==
    /\ record[r] = "absent"
    /\ record' = [record EXCEPT ![r] = "active"]
    /\ UNCHANGED <<answer, kept>>

\* Somebody other than the execution ends the record; no turn is kept.
EndElsewhere(r) ==
    /\ record[r] = "active"
    /\ record' = [record EXCEPT ![r] = "aborted"]
    /\ UNCHANGED <<answer, kept>>

\* The execution ends the record itself, keeps its turn and answers with it.
Finish(r, outcome) ==
    /\ record[r] = "active"
    /\ answer[r] = "none"
    /\ record' = [record EXCEPT ![r] = outcome]
    /\ answer' = [answer EXCEPT ![r] = outcome]
    /\ kept' = [kept EXCEPT ![r] = TRUE]

\* The execution finds the record ended and answers with what it says.
Concede(r) ==
    /\ record[r] \in Outcome
    /\ answer[r] = "none"
    /\ answer' = [answer EXCEPT ![r] = record[r]]
    /\ UNCHANGED <<record, kept>>

\* The harness cannot tell: a fault is an answer, never a durable outcome.
Fault(r) ==
    /\ record[r] # "absent"
    /\ answer[r] = "none"
    /\ answer' = [answer EXCEPT ![r] = "faulted"]
    /\ UNCHANGED <<record, kept>>

Next ==
    \E r \in Run :
        \/ Accept(r)
        \/ EndElsewhere(r)
        \/ \E outcome \in Outcome : Finish(r, outcome)
        \/ Concede(r)
        \/ Fault(r)

Spec == Init /\ [][Next]_contractVars
=============================================================================
