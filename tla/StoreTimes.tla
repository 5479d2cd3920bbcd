----------------------------- MODULE StoreTimes -----------------------------
(***************************************************************************)
(* The timestamps the Store assigns.  Every record takes datetime.now(UTC) *)
(* inside its transaction, so transactions order the records, but the wall *)
(* clock of a machine may stand still between two of them and may be set   *)
(* back.  Ids are numbers here, compared as SQLite compares their text.    *)
(***************************************************************************)
EXTENDS Naturals, Sequences, FiniteSets, FiniteSetsExt

CONSTANTS
    Session,    \* session ids, random (uuid4) or chosen by the caller
    Run,        \* run ids
    MaxTime     \* bound: the latest clock reading

ASSUME TimesAssumption == Session \subseteq Nat /\ MaxTime \in Nat

VARIABLES
    now,        \* what datetime.now(UTC) would return
    created,    \* session ids in the order their transactions committed
    sessionRow, \* session id -> created_at and updated_at
    runRow,     \* run id -> session, status, started_at and ended_at
    turns       \* session id -> the committed turns: run id and created_at

vars == <<now, created, sessionRow, runRow, turns>>

Time == 0 .. MaxTime
Exists(s) == \E i \in DOMAIN created : created[i] = s
NoActiveRun(s) ==
    \A r \in Run : runRow[r].session = {s} => runRow[r].status # "active"

Init ==
    /\ now \in Time
    /\ created = <<>>
    /\ sessionRow = [s \in Session |-> [created |-> 0, updated |-> 0]]
    /\ runRow = [r \in Run |-> [session |-> {}, status |-> "absent",
                                started |-> 0, ended |-> 0]]
    /\ turns = [s \in Session |-> <<>>]

\* Time passes, or an administrator or NTP sets the clock, back or forth.
SetClock(t) ==
    /\ now' = t
    /\ UNCHANGED <<created, sessionRow, runRow, turns>>

\* new_session_record.
NewSession(s) ==
    /\ ~Exists(s)
    /\ created' = Append(created, s)
    /\ sessionRow' = [sessionRow EXCEPT ![s] = [created |-> now, updated |-> now]]

CreateSession(s) == NewSession(s) /\ UNCHANGED <<now, runRow, turns>>

\* new_active_run_record; a session's owner is a singleton, {} before that.
StartRun(s, r) ==
    /\ Exists(s) /\ NoActiveRun(s)
    /\ runRow[r].status = "absent"
    /\ runRow' = [runRow EXCEPT ![r] = [session |-> {s}, status |-> "active",
                                        started |-> now, ended |-> 0]]
    /\ UNCHANGED <<now, created, sessionRow, turns>>

\* Mutant: ended_at is the clock as it stands.
RawEndTime(r) == now

\* terminal_run_record: never before the start, whatever the clock says.
EndTime(r) == Max({now, runRow[r].started})

\* Mutant: updated_at is simply overwritten.
TouchOverwrite(s, t) == sessionRow' = [sessionRow EXCEPT ![s].updated = t]

\* _touch_session.
Touch(s, t) == sessionRow' = [sessionRow EXCEPT ![s].updated = Max({@, t})]

\* finish_run commits a turn stamped with the run's end; abort_active_run ends
\* the record alone.
EndRun(s, r, keepsTurn) ==
    /\ runRow[r].session = {s} /\ runRow[r].status = "active"
    /\ runRow' = [runRow EXCEPT ![r].status = "ended", ![r].ended = EndTime(r)]
    /\ Touch(s, EndTime(r))
    /\ turns' = IF keepsTurn
                THEN [turns EXCEPT ![s] = Append(@, [run |-> r, at |-> EndTime(r)])]
                ELSE turns
    /\ UNCHANGED <<now, created>>

\* fork_session: a new session now, with rows that keep their created_at.
ForkSession(source, target) ==
    /\ Exists(source)
    /\ NewSession(target)
    /\ turns' = [turns EXCEPT ![target] = turns[source]]
    /\ UNCHANGED <<now, runRow>>

Next ==
    \/ \E t \in Time : SetClock(t)
    \/ \E s \in Session : CreateSession(s)
    \/ \E s \in Session, r \in Run :
          StartRun(s, r) \/ \E keepsTurn \in BOOLEAN : EndRun(s, r, keepsTurn)
    \/ \E source, target \in Session : ForkSession(source, target)

Spec == Init /\ [][Next]_vars

-----------------------------------------------------------------------------
\* list_sessions: ORDER BY created_at, id.
ListedBefore(s, t) ==
    \/ sessionRow[s].created < sessionRow[t].created
    \/ sessionRow[s].created = sessionRow[t].created /\ s < t

\* Every record can be read back: the validators that turn a row into a
\* SessionRecord or a TerminalRun (models.py 39-45, 99-105) accept what was
\* stored, although the clock went back in between; a row they refuse would
\* make get_session, list_sessions, get_run and list_runs raise for good.
RecordsCanBeReadBack ==
    /\ \A s \in Session : sessionRow[s].created <= sessionRow[s].updated
    /\ \A r \in Run : runRow[r].status = "ended" =>
                          runRow[r].started <= runRow[r].ended

\* A session's updated_at is no earlier than the end of any run it owns, in
\* whatever order ends and clock corrections came.
UpdatedAfterEveryRun ==
    \A r \in Run : \A s \in runRow[r].session :
        runRow[r].status = "ended" => runRow[r].ended <= sessionRow[s].updated

\* A committed turn carries its run's end time, in the run's own session and
\* in every fork, and forks of forks, made at any later or earlier reading.
TurnsKeepTheirTime ==
    \A s \in Session : \A i \in DOMAIN turns[s] :
        /\ runRow[turns[s][i].run].status = "ended"
        /\ turns[s][i].at = runRow[turns[s][i].run].ended

\* Whatever the wall clock does between two transactions, the stored times stay
\* consistent: rows can be read back, updated_at covers every ended run, and a
\* turn keeps the time it was committed at.
ClockNeverBreaksRecords ==
    /\ RecordsCanBeReadBack
    /\ UpdatedAfterEveryRun
    /\ TurnsKeepTheirTime

\* "Return sessions in creation order" (store/base.py 96, store/sqlite.py
\* 100): of two sessions list_sessions puts the one created first first.  Even
\* leaving ties to the random id, this asks it of different created_at only.
ListedInCreationOrder ==
    \A i, j \in DOMAIN created :
        /\ i < j
        /\ sessionRow[created[i]].created # sessionRow[created[j]].created
        => ListedBefore(created[i], created[j])
=============================================================================
