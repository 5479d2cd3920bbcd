------------------------------ MODULE SchemaInit ------------------------------
(***************************************************************************)
(* SQLiteStore's constructor: processes open database files at the same    *)
(* time, each in one immediate transaction that creates the schema in a    *)
(* blank file, completes the one that is there, or refuses a file that is  *)
(* something else.  Another program may put tables of its own into the     *)
(* same file; and of the calls that an open store makes all that matters   *)
(* here is that they take the same lock.                                   *)
(*                                                                         *)
(* A transaction works on its own image of the file; statements may fail,  *)
(* a connection may wait too long for the lock, and a process may die.     *)
(***************************************************************************)
EXTENDS Naturals, Sequences

CONSTANTS
    Opener,     \* processes that construct a SQLiteStore on the file
    None        \* no opener

ASSUME OpenerAssumption == None \notin Opener

VARIABLES
    file,       \* what is committed
    writer,     \* who holds the write lock; None for nobody
    image,      \* per opener: the file as its transaction sees it
    pc          \* per opener: where it is in the constructor

vars == <<file, writer, image, pc>>

Meta == "tile_meta"
AppTables == {"sessions", "runs", "history_items"}
Indexes == {"runs_session_id", "one_active_run_per_session"}
Foreign == "notes"              \* a table of another program
Tables == {Meta, Foreign} \cup AppTables

Current == "1"                  \* SQLITE_STORE_SCHEMA_VERSION
Other == "999"
Unversioned == "none"
Legacy == "legacy"              \* unversioned, with a key of the older stores
Versions == {Unversioned, Legacy, Current, Other}

\* The objects of a database, and the rows of tile_meta: its version.
Databases == [objects : SUBSET (Tables \cup Indexes), version : Versions]

Database(objects, version) == [objects |-> objects, version |-> version]
Blank == Database({}, Unversioned)

\* Files as programs leave them: empty, with another program's table, with an
\* empty tile_meta, written by an older or a newer tile, or by this one,
\* where an index may have been dropped.
InitialFiles ==
    {Blank,
     Database({Foreign}, Unversioned),
     Database({Meta}, Unversioned),
     Database({Meta}, Legacy),
     Database({Meta, "sessions"}, Legacy),
     Database({Meta}, Other),
     Database({Meta} \cup AppTables, Current),
     Database({Meta} \cup AppTables \cup Indexes, Current)}

\* The order of _create_schema.
First == "sessions"
NextStatement ==
    [sessions |-> "runs", runs |-> "history_items",
     history_items |-> "runs_session_id",
     runs_session_id |-> "one_active_run_per_session"]

Outside == {"closed", "refused", "failed"}
Stages == {Meta, "check", "version", "commit"} \cup AppTables \cup Indexes

-----------------------------------------------------------------------------
Init ==
    /\ file \in InitialFiles
    /\ writer = None
    /\ image = [p \in Opener |-> Blank]
    /\ pc = [p \in Opener |-> "closed"]

Goto(p, stage) == pc' = [pc EXCEPT ![p] = stage]

\* A statement of p's transaction.
Execute(p, stage, objects, version, next) ==
    /\ pc[p] = stage
    /\ image' = [image EXCEPT ![p] = Database(@.objects \cup objects, version)]
    /\ Goto(p, next)
    /\ UNCHANGED <<file, writer>>

\* Mutant: BEGIN instead of BEGIN IMMEDIATE, with nobody to wait for.
BeginUnlocked(p) ==
    /\ pc[p] \in Outside
    /\ writer' = p
    /\ image' = [image EXCEPT ![p] = file]
    /\ Goto(p, Meta)
    /\ UNCHANGED file

Begin(p) ==
    /\ pc[p] \in Outside
    /\ writer = None
    /\ writer' = p
    /\ image' = [image EXCEPT ![p] = file]
    /\ Goto(p, Meta)
    /\ UNCHANGED file

\* Someone else holds the lock for longer than the connection waits.
GiveUpWaiting(p) ==
    /\ pc[p] \in Outside
    /\ writer # None
    /\ Goto(p, "failed")
    /\ UNCHANGED <<file, writer, image>>

CreateMetaTable(p) == Execute(p, Meta, {Meta}, image[p].version, "check")

\* Mutant: a file without a version is taken for blank.
RefusesVersionsOnly(database) == database.version = Other

\* What initialize_sqlite_schema refuses, having read the version: another
\* version; and without one, a legacy key or a table other than tile_meta.
Refuses(database) ==
    \/ database.version = Other
    \/ database.version = Legacy
    \/ /\ database.version = Unversioned
       /\ database.objects \cap (Tables \ {Meta}) # {}

\* Mutant: a file that has our version is not completed.
AcceptVersioned(p) ==
    /\ pc[p] = "check"
    /\ ~Refuses(image[p])
    /\ Goto(p, IF image[p].version = Current THEN "commit" ELSE First)
    /\ UNCHANGED <<file, writer, image>>

Accept(p) ==
    /\ pc[p] = "check"
    /\ ~Refuses(image[p])
    /\ Goto(p, First)
    /\ UNCHANGED <<file, writer, image>>

\* CREATE ... IF NOT EXISTS, one object after the other.
CreateSchema(p) ==
    \E object \in AppTables \cup Indexes :
        Execute(p, object, {object}, image[p].version,
                IF object \in DOMAIN NextStatement THEN NextStatement[object]
                ELSE IF image[p].version = Current THEN "commit" ELSE "version")

WriteSchemaVersion(p) == Execute(p, "version", {}, Current, "commit")

Release(p, outcome) ==
    /\ writer' = None
    /\ image' = [image EXCEPT ![p] = Blank]
    /\ Goto(p, outcome)

Commit(p) ==
    /\ pc[p] = "commit"
    /\ file' = image[p]
    /\ Release(p, "open")

Rollback(p, outcome) == Release(p, outcome) /\ UNCHANGED file

Refuse(p) == pc[p] = "check" /\ Refuses(image[p]) /\ Rollback(p, "refused")

\* A statement or the commit fails; the constructor rolls back and closes.
Fail(p) == pc[p] \in Stages /\ Rollback(p, "failed")

\* The process dies, or closes its store.
Die(p) == pc[p] \in Stages /\ Rollback(p, "closed")

\* A store is not closed in the middle of a call; a process that dies there
\* rolls back first.
Close(p) ==
    /\ pc[p] = "open"
    /\ writer # p
    /\ Goto(p, "closed")
    /\ UNCHANGED <<file, writer, image>>

\* A call of an open store takes the lock or releases it.
UseStore(p) ==
    /\ pc[p] = "open"
    /\ {writer, writer'} \subseteq {None, p}
    /\ UNCHANGED <<file, image, pc>>

\* Another program creates its table, in a transaction of its own.
CreateForeignTable ==
    /\ writer = None
    /\ Foreign \notin file.objects
    /\ file' = Database(file.objects \cup {Foreign}, file.version)
    /\ UNCHANGED <<writer, image, pc>>

Construct(p) ==
    \/ Begin(p) \/ GiveUpWaiting(p)
    \/ CreateMetaTable(p) \/ Accept(p) \/ CreateSchema(p) \/ WriteSchemaVersion(p)
    \/ Commit(p) \/ Refuse(p) \/ Fail(p) \/ Die(p) \/ Close(p)

Next ==
    \/ \E p \in Opener : Construct(p) \/ UseStore(p)
    \/ CreateForeignTable

Spec == Init /\ [][Next]_vars

-----------------------------------------------------------------------------
TypeOK ==
    /\ file \in Databases
    /\ writer \in Opener \cup {None}
    /\ image \in [Opener -> Databases]
    /\ pc \in [Opener -> Outside \cup {"open"} \cup Stages]

Complete(database) ==
    /\ {Meta} \cup AppTables \cup Indexes \subseteq database.objects
    /\ database.version = Current

\* Whoever has a store open has the whole schema and its version under it,
\* whatever the others do (_create_schema, and the version written last).
OpenStoresHaveTheSchema ==
    \A p \in Opener : pc[p] = "open" => Complete(file)

\* tile writes into a file in one way only: from a blank file, or one that
\* already has this version, to the whole schema.  A file with tables of
\* another program and no version, of an older or of a newer tile is never
\* touched, and nothing in the file is lost, not even when openers race it,
\* fail or die.
TileWritesItsFilesOnly ==
    [][file' # file /\ ~CreateForeignTable =>
         /\ Complete(file')
         /\ file.objects \subseteq file'.objects
         /\ \/ file.version = Current
            \/ file.version = Unversioned /\ file.objects \cap Tables \subseteq {Meta}]_vars

=============================================================================
