---------------------------- MODULE SqliteStore ----------------------------
(***************************************************************************)
(* SQLiteStore as several connections (processes, or Store instances of    *)
(* one process) run it against one database file.  A mutating call is an   *)
(* immediate transaction: BEGIN IMMEDIATE takes the database's single      *)
(* write lock, the call's SELECTs and writes work on a private image of    *)
(* the database, and COMMIT publishes it.  A statement or the commit may   *)
(* fail, and the process may die, at every point in between.               *)
(***************************************************************************)
EXTENDS Integers, Sequences, FiniteSets, FiniteSetsExt

CONSTANTS
    Session, Run, Item, Delta, NoSession,   \* as in Store
    Conn,       \* open connections
    NoConn      \* the write lock's holder when it is free

SqliteAssumption ==
    /\ NoConn \notin Conn
    /\ NoSession \notin Session
    /\ Delta \subseteq Seq(Item)

VARIABLES
    db,         \* the committed database
    image,      \* connection -> the database as its transaction sees it
    txn,        \* connection -> the call it is executing, or Idle
    writer,     \* holder of the write lock
    returned,   \* run id -> committed_history its start_run returned
    told        \* run id -> the callers told that they ended it, and how

vars == <<db, image, txn, writer, returned, told>>

TerminalStatus == {"completed", "failed", "aborted"}

\* One call of each mutating method, with its arguments.
Call ==
    [op : {"create_session", "abort_active_run"}, session : Session]
    \cup [op : {"start_run"}, session : Session, run : Run]
    \cup [op : {"finish_run"}, session : Session, run : Run,
          outcome : TerminalStatus, delta : Delta]
    \cup [op : {"fork_session"}, session : Session, target : Session]

\* The tables.  A history row carries an explicit session-local position.
Row == [session : Session, run : Run, position : Nat, item : Item]
Database == [sessions : SUBSET Session,
             runs : [Run -> [session : Session \cup {NoSession},
                             status : {"absent", "active"} \cup TerminalStatus]],
             rows : SUBSET Row]

EmptyDatabase ==
    [sessions |-> {},
     runs |-> [r \in Run |-> [session |-> NoSession, status |-> "absent"]],
     rows |-> {}]

Idle == [stage |-> "idle"]

-----------------------------------------------------------------------------
(* Queries.                                                                *)

RowsOf(d, s) == {row \in d.rows : row.session = s}

\* SELECT ... WHERE session_id = s ORDER BY position.
HistoryOf(d, s) ==
    LET rows == RowsOf(d, s)
        Nth(i) == CHOOSE row \in rows :
                     Cardinality({q \in rows : q.position < row.position}) = i - 1
    IN  [i \in 1 .. Cardinality(rows) |->
            [run |-> Nth(i).run, item |-> Nth(i).item]]

ActiveRuns(d, s) ==
    {r \in Run : d.runs[r].session = s /\ d.runs[r].status = "active"}

\* COALESCE(MAX(position), -1).
LastHistoryPosition(d, s) == Max({-1} \cup {row.position : row \in RowsOf(d, s)})

\* Mutant: the + 1 is missing.
UnincrementedPosition(d, s) == LastHistoryPosition(d, s)

\* Mutant: COALESCE(MAX(position), 0) + 1.
OneBasedPosition(d, s) == Max({0} \cup {row.position : row \in RowsOf(d, s)}) + 1

NextHistoryPosition(d, s) == LastHistoryPosition(d, s) + 1

\* The rows a run's delta becomes.
DeltaRows(d, s, r, delta) ==
    [k \in DOMAIN delta |->
        [session |-> s, run |-> r, item |-> delta[k],
         position |-> NextHistoryPosition(d, s) + k - 1]]

\* The source's rows under the target's id; run and position are kept.
CopiedRows(d, source, target) ==
    LET rows == RowsOf(d, source)
    IN  [k \in 1 .. Cardinality(rows) |->
            [CHOOSE row \in rows :
                Cardinality({q \in rows : q.position < row.position}) = k - 1
             EXCEPT !.session = target]]

\* The domain checks each method makes before it writes.  abort_active_run
\* with no active run is not refused: it returns None and commits nothing.
Accepts(d, call) ==
    CASE call.op = "create_session" -> call.session \notin d.sessions
      [] call.op = "start_run" ->
            /\ call.session \in d.sessions
            /\ ActiveRuns(d, call.session) = {}
            /\ d.runs[call.run].status = "absent"
      [] call.op = "finish_run" ->
            /\ d.runs[call.run].session = call.session
            /\ d.runs[call.run].status = "active"
      [] call.op = "abort_active_run" -> call.session \in d.sessions
      [] call.op = "fork_session" ->
            /\ call.session \in d.sessions
            /\ call.target \notin d.sessions

-----------------------------------------------------------------------------
Init ==
    /\ db = EmptyDatabase
    /\ image = [c \in Conn |-> EmptyDatabase]
    /\ txn = [c \in Conn |-> Idle]
    /\ writer = NoConn
    /\ returned = [r \in Run |-> <<>>]
    /\ told = [r \in Run |-> {}]

\* Mutant: a plain BEGIN, which lets a second call read before the first
\* one's writes are published.
BeginDeferred(c, call) ==
    /\ txn[c] = Idle
    /\ txn' = [txn EXCEPT ![c] =
                [stage |-> "write", call |-> call, pending |-> <<>>, ended |-> {}]]
    /\ image' = [image EXCEPT ![c] = db]
    /\ writer' = c
    /\ UNCHANGED <<db, returned, told>>

\* BEGIN IMMEDIATE: waits for the write lock, then sees what is committed.
\* (A busy timeout raises before the transaction exists and changes nothing.)
Begin(c, call) ==
    /\ txn[c] = Idle
    /\ writer = NoConn
    /\ txn' = [txn EXCEPT ![c] =
                [stage |-> "write", call |-> call, pending |-> <<>>, ended |-> {}]]
    /\ image' = [image EXCEPT ![c] = db]
    /\ writer' = c
    /\ UNCHANGED <<db, returned, told>>

\* The end of a transaction on every path: the lock is free, the image gone.
Release(c) ==
    /\ txn' = [txn EXCEPT ![c] = Idle]
    /\ image' = [image EXCEPT ![c] = EmptyDatabase]
    /\ writer' = NoConn

\* Mutant: the failed statement's predecessors had been committed one by one.
RollbackKeepsWrites(c) ==
    /\ txn[c] # Idle
    /\ db' = image[c]
    /\ Release(c)
    /\ UNCHANGED <<returned, told>>

\* A refused check, a failing statement, a commit that finds the database
\* locked, any exception in the block, or the death of the process (whose
\* journal the next opener rolls back): nothing of the image survives.
Rollback(c) ==
    /\ txn[c] # Idle
    /\ Release(c)
    /\ UNCHANGED <<db, returned, told>>

Writing(c, op) ==
    /\ txn[c].stage = "write"
    /\ txn[c].call.op = op
    /\ Accepts(image[c], txn[c].call)

\* One method's checks passed and its record statement ran: the history rows
\* it still has to insert are pending, and it holds the records of the runs
\* its UPDATE ended.
Write(c, d, rows, ended) ==
    /\ image' = [image EXCEPT ![c] = d]
    /\ txn' = [txn EXCEPT ![c].stage = "rows", ![c].pending = rows,
                          ![c].ended = ended]
    /\ UNCHANGED <<db, writer, returned, told>>

WriteSession(c) ==
    /\ Writing(c, "create_session")
    /\ Write(c, [image[c] EXCEPT !.sessions = @ \cup {txn[c].call.session}], <<>>, {})

WriteActiveRun(c) ==
    /\ Writing(c, "start_run")
    /\ Write(c,
             [image[c] EXCEPT !.runs[txn[c].call.run] =
                 [session |-> txn[c].call.session, status |-> "active"]],
             <<>>, {})

WriteFinishedRun(c) ==
    LET call == txn[c].call
    IN  /\ Writing(c, "finish_run")
        /\ Write(c, [image[c] EXCEPT !.runs[call.run].status = call.outcome],
                 DeltaRows(image[c], call.session, call.run, call.delta), {call.run})

WriteAbortedRun(c) ==
    LET active == ActiveRuns(image[c], txn[c].call.session)
    IN  /\ Writing(c, "abort_active_run")
        /\ Write(c,
                 [image[c] EXCEPT !.runs =
                     [r \in Run |-> IF r \in active
                                    THEN [@[r] EXCEPT !.status = "aborted"]
                                    ELSE @[r]]],
                 <<>>, active)

WriteFork(c) ==
    LET call == txn[c].call
    IN  /\ Writing(c, "fork_session")
        /\ Write(c, [image[c] EXCEPT !.sessions = @ \cup {call.target}],
                 CopiedRows(image[c], call.session, call.target), {})

\* UNIQUE (session_id, position) and the two foreign keys of history_items.
RowFits(d, row) ==
    /\ \A q \in RowsOf(d, row.session) : q.position # row.position
    /\ row.session \in d.sessions
    /\ d.runs[row.run].status # "absent"

\* One row of the executemany; a row that does not fit raises (Rollback).
InsertRow(c) ==
    /\ txn[c].stage = "rows"
    /\ txn[c].pending # <<>>
    /\ RowFits(image[c], Head(txn[c].pending))
    /\ image' = [image EXCEPT ![c].rows = @ \cup {Head(txn[c].pending)}]
    /\ txn' = [txn EXCEPT ![c].pending = Tail(@)]
    /\ UNCHANGED <<db, writer, returned, told>>

\* COMMIT, and the method's return: the image is the database, start_run's
\* caller has its snapshot, the caller that ended a run has its record.
Commit(c) ==
    /\ txn[c].stage = "rows"
    /\ txn[c].pending = <<>>
    /\ db' = image[c]
    /\ returned' =
          IF txn[c].call.op = "start_run"
          THEN [returned EXCEPT ![txn[c].call.run] =
                   HistoryOf(image[c], txn[c].call.session)]
          ELSE returned
    /\ told' = [r \in Run |->
                   IF r \in txn[c].ended
                   THEN told[r] \cup {[conn |-> c, status |-> image[c].runs[r].status]}
                   ELSE told[r]]
    /\ Release(c)

\* A step of the call that connection c makes.
CallStep(c) ==
    \/ \E call \in Call : Begin(c, call)
    \/ WriteSession(c)
    \/ WriteActiveRun(c)
    \/ WriteFinishedRun(c)
    \/ WriteAbortedRun(c)
    \/ WriteFork(c)
    \/ InsertRow(c)
    \/ Commit(c)
    \/ Rollback(c)

Next == \E c \in Conn : CallStep(c)

Spec == Init /\ [][Next]_vars

-----------------------------------------------------------------------------
(* What a Store promises, seen through the committed tables.               *)
Contract == INSTANCE Store WITH
    sessions <- db.sessions,
    runs <- db.runs,
    history <- [s \in Session |-> HistoryOf(db, s)],
    snapshot <- returned

\* Every behaviour of the connections, read through the committed tables, is a
\* behaviour of Store: a transaction takes effect at its commit, whole, and a
\* failed one never does ("Implementations must make each mutating method
\* atomic", base.py 77-78).
ImplementsStore == Contract!Spec

\* Every image is a database; a call that is not idle is at one of its stages.
TypeOK ==
    /\ db \in Database
    /\ image \in [Conn -> Database]
    /\ \A c \in Conn :
          \/ txn[c] = Idle
          \/ /\ txn[c].stage \in {"write", "rows"}
             /\ txn[c].call \in Call
             /\ txn[c].pending \in Seq(Row)
    /\ writer \in Conn \cup {NoConn}

\* MAX(position) + 1 and copied positions keep every session's committed rows
\* numbered 0, 1, ..., n - 1 without a gap or a repeat.
PositionsAreContiguous ==
    \A s \in Session :
        {row.position : row \in RowsOf(db, s)} =
            {p \in 0 .. Cardinality(RowsOf(db, s)) : p < Cardinality(RowsOf(db, s))}

\* The UNIQUE and FOREIGN KEY constraints are a second line: no row a method
\* computes is ever turned down by them.
ConstraintsNeverFire ==
    \A c \in Conn :
        txn[c] # Idle /\ txn[c].pending # <<>> =>
            RowFits(image[c], Head(txn[c].pending))

\* Of all the callers that race to end a run (its own finish_run, and any
\* number of durable aborts), one is given a terminal record, and what that
\* record says stays what the database says.
OneCallerEndsARun ==
    \A r \in Run :
        /\ Cardinality(told[r]) <= 1
        /\ \A note \in told[r] : db.runs[r].status = note.status
=============================================================================
