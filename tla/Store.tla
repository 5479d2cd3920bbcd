------------------------------- MODULE Store -------------------------------
(***************************************************************************)
(* The durable state tile keeps in its Store and the atomic operations on  *)
(* it: sessions, runs and committed conversation history.  An operation    *)
(* that the code refuses with a StoreError leaves the state alone, so a    *)
(* refused call is a stuttering step and an action is a call that took     *)
(* effect.  SqliteStore shows that the SQLite transactions implement this  *)
(* module; RunLifecycle is written on top of it.                           *)
(***************************************************************************)
EXTENDS Naturals, Sequences

CONSTANTS
    Session,    \* session ids a caller may choose or draw (uuid4)
    Run,        \* run ids; a prompt draws a fresh one
    Item,       \* conversation items, opaque to the Store
    Delta,      \* the history deltas callers hand to finish_run
    NoSession   \* the owner of a run id that was never used

ASSUME StoreAssumption ==
    /\ Delta \subseteq Seq(Item)
    /\ NoSession \notin Session

VARIABLES
    sessions,   \* ids with a row in the sessions table
    runs,       \* run id -> the session that owns it and its status
    history,    \* session id -> its committed history, in position order
    snapshot    \* run id -> committed_history that start_run returned with it

storeVars == <<sessions, runs, history, snapshot>>

TerminalStatus == {"completed", "failed", "aborted"}
Status == {"absent", "active"} \cup TerminalStatus

RunRecord == [session : Session \cup {NoSession}, status : Status]
Entry == [run : Run, item : Item]

IsActive(r) == runs[r].status = "active"
IsTerminal(r) == runs[r].status \in TerminalStatus

\* _active_run_for_session finds a row.
HasActiveRun(s) == \E r \in Run : IsActive(r) /\ runs[r].session = s

\* The rows one run's delta becomes: every item carries its run's id.
Entries(r, delta) == [k \in DOMAIN delta |-> [run |-> r, item |-> delta[k]]]

Init ==
    /\ sessions = {}
    /\ runs = [r \in Run |-> [session |-> NoSession, status |-> "absent"]]
    /\ history = [s \in Session |-> <<>>]
    /\ snapshot = [r \in Run |-> <<>>]

-----------------------------------------------------------------------------
(* The operations.                                                         *)

CreateSession(s) ==
    /\ s \notin sessions
    /\ sessions' = sessions \cup {s}
    /\ UNCHANGED <<runs, history, snapshot>>

\* Mutant: the active-run check is dropped.
StartRunUnchecked(s, r) ==
    /\ s \in sessions
    /\ runs[r].status = "absent"
    /\ runs' = [runs EXCEPT ![r] = [session |-> s, status |-> "active"]]
    /\ snapshot' = [snapshot EXCEPT ![r] = history[s]]
    /\ UNCHANGED <<sessions, history>>

\* start_run: SessionNotFound, ActiveRunError and RunAlreadyExists are the
\* refusals; the snapshot is taken in the same transaction as the insert.
StartRun(s, r) ==
    /\ s \in sessions
    /\ ~HasActiveRun(s)
    /\ runs[r].status = "absent"
    /\ runs' = [runs EXCEPT ![r] = [session |-> s, status |-> "active"]]
    /\ snapshot' = [snapshot EXCEPT ![r] = history[s]]
    /\ UNCHANGED <<sessions, history>>

\* Mutant: a run that already ended may be finished again.
FinishRunUnfenced(s, r, outcome, delta) ==
    /\ runs[r].session = s
    /\ runs[r].status # "absent"
    /\ runs' = [runs EXCEPT ![r].status = outcome]
    /\ history' = [history EXCEPT ![s] = @ \o Entries(r, delta)]
    /\ UNCHANGED <<sessions, snapshot>>

\* finish_run: the run must belong to the session (RunNotFound) and still be
\* active (RunAlreadyEnded); record and history change together.
FinishRun(s, r, outcome, delta) ==
    /\ runs[r].session = s
    /\ IsActive(r)
    /\ runs' = [runs EXCEPT ![r].status = outcome]
    /\ history' = [history EXCEPT ![s] = @ \o Entries(r, delta)]
    /\ UNCHANGED <<sessions, snapshot>>

\* abort_active_run: ends the session's active run and commits no history;
\* without one it returns None and changes nothing.
AbortActiveRun(s) ==
    /\ s \in sessions
    /\ \E r \in Run :
          /\ IsActive(r)
          /\ runs[r].session = s
          /\ runs' = [runs EXCEPT ![r].status = "aborted"]
    /\ UNCHANGED <<sessions, history, snapshot>>

\* Mutant: the copy stops one row short.
ForkSessionShort(source, target) ==
    /\ source \in sessions
    /\ target \notin sessions
    /\ sessions' = sessions \cup {target}
    /\ history' = [history EXCEPT ![target] =
                      SubSeq(history[source], 1, Len(history[source]) - 1)]
    /\ UNCHANGED <<runs, snapshot>>

\* fork_session: the committed rows are copied with the run ids they carry;
\* runs are not, and an active run's provisional items are not committed.
ForkSession(source, target) ==
    /\ source \in sessions
    /\ target \notin sessions
    /\ sessions' = sessions \cup {target}
    /\ history' = [history EXCEPT ![target] = history[source]]
    /\ UNCHANGED <<runs, snapshot>>

FinishSomeRun ==
    \E s \in Session, r \in Run, outcome \in TerminalStatus, delta \in Delta :
        FinishRun(s, r, outcome, delta)

Next ==
    \/ \E s \in Session : CreateSession(s) \/ AbortActiveRun(s)
    \/ \E s \in Session, r \in Run : StartRun(s, r)
    \/ FinishSomeRun
    \/ \E source, target \in Session : ForkSession(source, target)

Spec == Init /\ [][Next]_storeVars

-----------------------------------------------------------------------------
(* What the operations keep true.                                          *)

\* The columns hold what the schema lets them hold: a run row names the
\* session that owns it, history rows name a run.
TypeOK ==
    /\ sessions \subseteq Session
    /\ runs \in [Run -> RunRecord]
    /\ history \in [Session -> Seq(Entry)]
    /\ snapshot \in [Run -> Seq(Entry)]

\* The partial unique index one_active_run_per_session: two prompts never
\* both own a session, whoever raced whom to start, finish and abort.
OneActiveRun ==
    \A r, q \in Run :
        IsActive(r) /\ IsActive(q) /\ runs[r].session = runs[q].session => r = q

\* The committed_history a prompt was bootstrapped with stays the session's
\* whole history for as long as the run is active, so the delta it will
\* commit continues exactly the conversation its provider calls saw.
SnapshotIsCurrent ==
    \A r \in Run : IsActive(r) => history[runs[r].session] = snapshot[r]

\* A committed row belongs to a run that has ended: nothing of a run in
\* flight is visible to get_history or to a fork.
OnlyEndedRunsInHistory ==
    \A s \in Session : \A i \in DOMAIN history[s] : IsTerminal(history[s][i].run)

\* A run's turn is the same rows at the same positions in every session that
\* carries any of it: a fork holds a whole turn or none of it.
WholeTurns ==
    \A s, t \in Session : \A i \in DOMAIN history[s], j \in DOMAIN history[t] :
        history[s][i].run = history[t][j].run =>
            i \in DOMAIN history[t] /\ history[t][i] = history[s][i]

\* ended-run fencing (base.py 126-136): a terminal record never changes
\* again, whatever the stale execution of the run still tries to write.
EndedRunsStayEnded ==
    [][\A r \in Run : IsTerminal(r) => runs'[r] = runs[r]]_storeVars

\* An existing session's history changes only by the step that ends the
\* session's active run, and then only by rows of that run appended to it.
HistoryGrowsByFinishOnly ==
    [][\A s \in sessions :
          history'[s] # history[s] =>
              \E r \in Run :
                  /\ IsActive(r) /\ runs[r].session = s
                  /\ runs'[r].status \in TerminalStatus
                  /\ Len(history'[s]) > Len(history[s])
                  /\ \A i \in DOMAIN history[s] : history'[s][i] = history[s][i]
                  /\ \A i \in DOMAIN history'[s] \ DOMAIN history[s] :
                         history'[s][i].run = r
      ]_storeVars
=============================================================================
