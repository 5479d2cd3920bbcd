------------------------- MODULE SharedDatabaseProofs -------------------------
(***************************************************************************)
(* For any number of processes, sessions and runs.  Whoever has a store    *)
(* open has the whole schema, and tile writes into no file but its own.    *)
(* To those who open the file the calls of the others are transactions     *)
(* like any, so that this holds beside a store in full use; and what the   *)
(* calls commit is a behaviour of Store, call by call, with gap-free       *)
(* positions, constraints that never fire and one caller per end.          *)
(***************************************************************************)
EXTENDS SharedDatabase, FiniteSetTheorems, FunctionTheorems, SequenceTheorems, TLAPS

-----------------------------------------------------------------------------
(* The openers, by themselves.                                             *)

\* The objects a transaction has seen to when it reaches a stage.
SeenTo(stage) ==
    {object \in {Meta} \cup AppTables \cup Indexes :
        /\ stage # Meta
        /\ object \in AppTables => stage \notin {"check", "sessions"}
        /\ object \in {"runs", "history_items"} \cup Indexes => stage # "runs"
        /\ object \in {"history_items"} \cup Indexes => stage # "history_items"
        /\ object \in Indexes => stage \notin {"check", "sessions", "runs_session_id"}
        /\ object = "one_active_run_per_session" => stage # object}

\* The files tile may write into.
Acceptable(database) ==
    \/ database.version = Current
    \/ /\ database.version = Unversioned
       /\ database.objects \cap Tables \subseteq {Meta}

\* The lock is held by whoever is in the transaction.
LockIsHeld == \A p \in Opener : pc[p] \in Stages => writer = p

\* The image of the transaction is the file and the statements so far.
ImageIsTheFile ==
    \A p \in Opener : pc[p] \in Stages =>
        /\ file.objects \subseteq image[p].objects
        /\ SeenTo(pc[p]) \subseteq image[p].objects
        /\ pc[p] \in {Meta, "check"} =>
             /\ image[p].version = file.version
             /\ image[p].objects \subseteq file.objects \cup {Meta}
        /\ pc[p] \notin {Meta, "check"} => Acceptable(file)
        /\ pc[p] = "commit" => image[p].version = Current

IInv ==
    /\ TypeOK
    /\ LockIsHeld
    /\ ImageIsTheFile
    /\ OpenStoresHaveTheSchema

-----------------------------------------------------------------------------
USE OpenerAssumption DEF Meta, AppTables, Indexes, Foreign, Tables, Current,
    Other, Unversioned, Legacy, Versions, Outside, Stages, First

LEMMA InitIInv == Init => IInv
<1> SUFFICES ASSUME Init PROVE IInv
  OBVIOUS
<1>1. file \in Databases /\ Blank \in Databases
  BY DEF Init, InitialFiles, Databases, Database, Blank
<1> QED
  BY <1>1 DEF Init, IInv, TypeOK, LockIsHeld, ImageIsTheFile,
    OpenStoresHaveTheSchema

\* A statement of p's transaction changes p's image and stage only.
LEMMA ExecuteFrame ==
  ASSUME IInv, NEW p \in Opener, NEW stage \in Stages, NEW objects,
         objects \subseteq Tables \cup Indexes,
         NEW version \in Versions,
         NEW next \in Stages,
         Execute(p, stage, objects, version, next)
  PROVE  /\ TypeOK' /\ LockIsHeld' /\ OpenStoresHaveTheSchema'
         /\ file' = file /\ pc'[p] = next
         /\ image'[p] = Database(image[p].objects \cup objects, version)
         /\ \A q \in Opener \ {p} : pc'[q] \notin Stages
<1>1. image[p] \in Databases
  BY DEF IInv, TypeOK
<1>2. Database(image[p].objects \cup objects, version) \in Databases
  BY <1>1 DEF Databases, Database
<1>3. /\ file' = file /\ writer' = writer /\ pc' = [pc EXCEPT ![p] = next]
      /\ image' = [image EXCEPT ![p] =
            Database(image[p].objects \cup objects, version)]
  BY DEF Execute, Goto, IInv, TypeOK
<1>4. TypeOK'
  BY <1>2, <1>3 DEF IInv, TypeOK
<1>5. LockIsHeld' /\ \A q \in Opener \ {p} : pc'[q] \notin Stages
  BY <1>3 DEF IInv, TypeOK, LockIsHeld, Execute
<1>6. OpenStoresHaveTheSchema'
  BY <1>3 DEF IInv, TypeOK, OpenStoresHaveTheSchema, Complete
<1> QED
  BY <1>3, <1>4, <1>5, <1>6 DEF IInv, TypeOK


\* What p's statement does to the image of p is all that the image part of
\* the invariant depends on.
LEMMA ExecuteImage ==
  ASSUME IInv, NEW p \in Opener, NEW stage \in Stages, NEW objects,
         objects \subseteq Tables \cup Indexes,
         NEW version \in Versions,
         NEW next \in Stages \ {Meta},
         Execute(p, stage, objects, version, next),
         SeenTo(next) \subseteq SeenTo(stage) \cup objects,
         next = "check" => stage = Meta /\ objects = {Meta} /\ version = image[p].version,
         next # "check" => Acceptable(file),
         next = "commit" => version = Current
  PROVE  IInv'
<1>0. next \in Stages
  OBVIOUS
<1>1. /\ TypeOK' /\ LockIsHeld' /\ OpenStoresHaveTheSchema'
      /\ file' = file /\ pc'[p] = next
      /\ image'[p] = Database(image[p].objects \cup objects, version)
      /\ \A q \in Opener \ {p} : pc'[q] \notin Stages
  <2> HIDE DEF Meta, AppTables, Indexes, Foreign, Tables, Current,
      Other, Unversioned, Legacy, Versions, Outside, Stages, First
  <2> QED
    BY <1>0, ExecuteFrame
<1>2. /\ image'[p].objects = image[p].objects \cup objects
      /\ image'[p].version = version
  BY <1>1 DEF Database
<1>3. /\ file.objects \subseteq image[p].objects
      /\ SeenTo(stage) \subseteq image[p].objects
      /\ stage = Meta => image[p].version = file.version
                         /\ image[p].objects \subseteq file.objects \cup {Meta}
  BY DEF IInv, ImageIsTheFile, Execute
<1>4. Acceptable(file)' <=> Acceptable(file)
  BY <1>1 DEF Acceptable
<1>5. /\ file'.objects \subseteq image'[p].objects
      /\ SeenTo(pc'[p]) \subseteq image'[p].objects
  BY <1>1, <1>2, <1>3
<1>6. pc'[p] \in {Meta, "check"} =>
        /\ image'[p].version = file'.version
        /\ image'[p].objects \subseteq file'.objects \cup {Meta}
  BY <1>1, <1>2, <1>3
<1>7. /\ pc'[p] \notin {Meta, "check"} => Acceptable(file)'
      /\ pc'[p] = "commit" => image'[p].version = Current
  BY <1>1, <1>2, <1>4
<1>8. ImageIsTheFile'
  BY <1>1, <1>5, <1>6, <1>7 DEF ImageIsTheFile, SeenTo
<1> QED
  BY <1>1, <1>8 DEF IInv

LEMMA StatementsKeepIInv ==
  ASSUME IInv, NEW p \in Opener,
         CreateMetaTable(p) \/ Accept(p) \/ CreateSchema(p) \/ WriteSchemaVersion(p)
  PROVE  IInv'
<1>1. image[p].version \in Versions
  BY DEF IInv, TypeOK, Databases
<1>2. CASE CreateMetaTable(p)
  BY <1>1, <1>2, ExecuteImage DEF CreateMetaTable, SeenTo
<1>3. CASE Accept(p)
  <2>1. /\ pc[p] = "check" /\ pc' = [pc EXCEPT ![p] = First]
        /\ UNCHANGED <<file, writer, image>>
    BY <1>3 DEF Accept, Goto
  <2>2. Acceptable(file)
    <3>1. /\ image[p].version = file.version
          /\ file.objects \subseteq image[p].objects
          /\ image[p].objects \subseteq Tables \cup Indexes
      BY <2>1 DEF IInv, ImageIsTheFile, TypeOK, Databases
    <3>2. CASE image[p].version = Current
      BY <3>1, <3>2 DEF Acceptable
    <3>3. CASE image[p].version = Unversioned
      BY <3>1, <3>3, <1>3 DEF Acceptable, Accept, Refuses
    <3> QED
      BY <1>1, <1>3, <3>2, <3>3 DEF Accept, Refuses
  <2>3. TypeOK' /\ LockIsHeld'
    BY <2>1 DEF IInv, TypeOK, LockIsHeld
  <2>4. OpenStoresHaveTheSchema'
    BY <2>1 DEF IInv, TypeOK, OpenStoresHaveTheSchema, Complete
  <2>5. ImageIsTheFile'
    BY <2>1, <2>2 DEF IInv, TypeOK, ImageIsTheFile, SeenTo, Acceptable
  <2> QED
    BY <2>3, <2>4, <2>5 DEF IInv
<1>4. CASE CreateSchema(p)
  <2> DEFINE next(object) == IF object \in DOMAIN NextStatement THEN NextStatement[object]
                             ELSE IF image[p].version = Current THEN "commit" ELSE "version"
  <2>1. PICK object \in AppTables \cup Indexes :
            Execute(p, object, {object}, image[p].version, next(object))
    BY <1>4 DEF CreateSchema
  <2>2. Acceptable(file)
    BY <2>1 DEF IInv, ImageIsTheFile, Execute
  <2>3. /\ next(object) \in Stages \ {Meta} /\ next(object) # "check"
        /\ SeenTo(next(object)) \subseteq SeenTo(object) \cup {object}
        /\ next(object) = "commit" => image[p].version = Current
    BY DEF NextStatement, SeenTo
  <2>4. object \in Stages /\ {object} \subseteq Tables \cup Indexes
    OBVIOUS
  <2> HIDE DEF next, Meta, AppTables, Indexes, Foreign, Tables, Current,
      Other, Unversioned, Legacy, Versions, Outside, Stages, First
  <2> QED
    BY <1>1, <2>1, <2>2, <2>3, <2>4, ExecuteImage
<1>5. CASE WriteSchemaVersion(p)
  <2>1. Acceptable(file)
    BY <1>5 DEF IInv, ImageIsTheFile, Execute, WriteSchemaVersion
  <2>2. SeenTo("commit") \subseteq SeenTo("version")
    BY DEF SeenTo
  <2> QED
    BY <1>5, <2>1, <2>2, ExecuteImage DEF WriteSchemaVersion
<1> QED
  BY <1>2, <1>3, <1>4, <1>5

\* The end of a transaction, with or without its effects.
LEMMA CommitKeepsIInv ==
  ASSUME IInv, NEW p \in Opener, Commit(p)
  PROVE  IInv' /\ Complete(file') /\ file.objects \subseteq file'.objects /\ Acceptable(file)
<1>1. /\ pc[p] = "commit" /\ file' = image[p] /\ writer' = None
      /\ image' = [image EXCEPT ![p] = Blank] /\ pc' = [pc EXCEPT ![p] = "open"]
  BY DEF Commit, Release, Goto
<1>2. /\ file.objects \subseteq image[p].objects
      /\ {Meta} \cup AppTables \cup Indexes \subseteq image[p].objects
      /\ image[p].version = Current /\ Acceptable(file)
  BY <1>1 DEF IInv, ImageIsTheFile, SeenTo
<1>3. Complete(file')
  BY <1>1, <1>2 DEF Complete
<1>4. Blank \in Databases
  BY DEF Blank, Database, Databases
<1>5. TypeOK'
  BY <1>1, <1>4 DEF IInv, TypeOK
<1>6. \A q \in Opener : pc'[q] \notin Stages
  BY <1>1 DEF IInv, TypeOK, LockIsHeld
<1>7. LockIsHeld' /\ ImageIsTheFile' /\ OpenStoresHaveTheSchema'
  BY <1>3, <1>6 DEF LockIsHeld, ImageIsTheFile, OpenStoresHaveTheSchema
<1> QED
  BY <1>1, <1>2, <1>3, <1>5, <1>7 DEF IInv

LEMMA RollbackKeepsIInv ==
  ASSUME IInv, NEW p \in Opener, pc[p] \in Stages,
         NEW outcome \in Outside, Rollback(p, outcome)
  PROVE  IInv' /\ file' = file
<1>1. /\ file' = file /\ writer' = None
      /\ image' = [image EXCEPT ![p] = Blank] /\ pc' = [pc EXCEPT ![p] = outcome]
  BY DEF Rollback, Release, Goto
<1>2. Blank \in Databases
  BY DEF Blank, Database, Databases
<1>3. TypeOK'
  BY <1>1, <1>2 DEF IInv, TypeOK
<1>4. \A q \in Opener : pc'[q] \notin Stages /\ (pc'[q] = "open" => pc[q] = "open")
  BY <1>1 DEF IInv, TypeOK, LockIsHeld
<1>5. LockIsHeld' /\ ImageIsTheFile' /\ OpenStoresHaveTheSchema'
  BY <1>1, <1>4 DEF IInv, LockIsHeld, ImageIsTheFile, OpenStoresHaveTheSchema, Complete
<1> QED
  BY <1>1, <1>3, <1>5 DEF IInv

LEMMA BeginKeepsIInv == ASSUME IInv, NEW p \in Opener, Begin(p) PROVE IInv'
<1>1. /\ writer = None /\ file' = file /\ writer' = p
      /\ image' = [image EXCEPT ![p] = file] /\ pc' = [pc EXCEPT ![p] = Meta]
  BY DEF Begin, Goto
<1>2. TypeOK'
  BY <1>1 DEF IInv, TypeOK
<1>3. /\ \A q \in Opener \ {p} : pc'[q] \notin Stages
      /\ \A q \in Opener : pc'[q] = "open" => pc[q] = "open"
      /\ pc'[p] = Meta /\ image'[p] = file'
  BY <1>1 DEF IInv, TypeOK, LockIsHeld
<1>4. LockIsHeld' /\ ImageIsTheFile'
  BY <1>1, <1>3 DEF LockIsHeld, ImageIsTheFile, SeenTo
<1>5. OpenStoresHaveTheSchema'
  BY <1>1, <1>3 DEF IInv, OpenStoresHaveTheSchema, Complete
<1> QED
  BY <1>2, <1>4, <1>5 DEF IInv

LEMMA ForeignKeepsIInv == ASSUME IInv, CreateForeignTable PROVE IInv'
<1>1. /\ writer = None /\ UNCHANGED <<writer, image, pc>>
      /\ file' = Database(file.objects \cup {Foreign}, file.version)
  BY DEF CreateForeignTable
<1>2. TypeOK'
  BY <1>1 DEF IInv, TypeOK, Databases, Database
<1>3. \A p \in Opener : pc'[p] \notin Stages
  BY <1>1 DEF IInv, LockIsHeld
<1>4. LockIsHeld' /\ ImageIsTheFile' /\ OpenStoresHaveTheSchema'
  BY <1>1, <1>3 DEF IInv, LockIsHeld, ImageIsTheFile, OpenStoresHaveTheSchema,
    Complete, Database
<1> QED
  BY <1>2, <1>4 DEF IInv

\* What a step does to the file, beside preserving the invariant.
TileWrites ==
    file' # file /\ ~CreateForeignTable =>
        Complete(file') /\ file.objects \subseteq file'.objects /\ Acceptable(file)

LEMMA StepKeepsIInv == IInv /\ [Next]_vars => IInv' /\ TileWrites
<1> SUFFICES ASSUME IInv, [Next]_vars PROVE IInv' /\ TileWrites
  OBVIOUS
<1>1. CASE UNCHANGED vars
  BY <1>1 DEF vars, TileWrites, IInv, TypeOK, LockIsHeld, ImageIsTheFile, Acceptable,
    OpenStoresHaveTheSchema, Complete
<1>2. CASE CreateForeignTable
  BY <1>2, ForeignKeepsIInv DEF TileWrites
<1>3. ASSUME NEW p \in Opener, Begin(p) PROVE IInv' /\ TileWrites
  BY <1>3, BeginKeepsIInv DEF Begin, TileWrites
<1>4. ASSUME NEW p \in Opener, GiveUpWaiting(p) \/ Close(p) PROVE IInv' /\ TileWrites
  <2>1. /\ UNCHANGED <<file, writer, image>>
        /\ pc[p] \notin Stages
        /\ pc' = [pc EXCEPT ![p] = "failed"] \/ pc' = [pc EXCEPT ![p] = "closed"]
    BY <1>4 DEF GiveUpWaiting, Close, Goto
  <2>2. TypeOK'
    BY <2>1 DEF IInv, TypeOK
  <2>3. \A q \in Opener : /\ pc'[q] \in Stages => pc[q] \in Stages /\ pc'[q] = pc[q]
                          /\ pc'[q] = "open" => pc[q] = "open"
    BY <2>1 DEF IInv, TypeOK
  <2>4. LockIsHeld' /\ OpenStoresHaveTheSchema' /\ ImageIsTheFile'
    BY <2>1, <2>3 DEF IInv, LockIsHeld, ImageIsTheFile, OpenStoresHaveTheSchema,
      Complete, Acceptable
  <2> QED
    BY <2>1, <2>2, <2>4 DEF IInv, TileWrites
<1>5. ASSUME NEW p \in Opener,
             CreateMetaTable(p) \/ Accept(p) \/ CreateSchema(p) \/ WriteSchemaVersion(p)
      PROVE  IInv' /\ TileWrites
  <2>1. file' = file
    BY <1>5 DEF CreateMetaTable, Accept, CreateSchema, WriteSchemaVersion, Execute
  <2> QED
    BY <1>5, <2>1, StatementsKeepIInv DEF TileWrites
<1>6. ASSUME NEW p \in Opener, Commit(p) PROVE IInv' /\ TileWrites
  BY <1>6, CommitKeepsIInv DEF TileWrites
<1>7. ASSUME NEW p \in Opener, Refuse(p) \/ Fail(p) \/ Die(p) PROVE IInv' /\ TileWrites
  <2>1. PICK outcome \in Outside : Rollback(p, outcome)
    BY <1>7 DEF Refuse, Fail, Die
  <2>2. pc[p] \in Stages
    BY <1>7 DEF Refuse, Fail, Die
  <2> QED
    BY <2>1, <2>2, RollbackKeepsIInv DEF TileWrites
<1>8. ASSUME NEW p \in Opener, UseStore(p) PROVE IInv' /\ TileWrites
  <2>1. /\ UNCHANGED <<file, image, pc>> /\ pc[p] = "open"
        /\ writer \in {None, p} /\ writer' \in {None, p}
    BY <1>8 DEF UseStore
  <2>2. TypeOK'
    BY <2>1 DEF IInv, TypeOK
  <2>3. \A q \in Opener : pc'[q] \notin Stages
    BY <2>1 DEF IInv, LockIsHeld
  <2>4. LockIsHeld' /\ OpenStoresHaveTheSchema' /\ ImageIsTheFile'
    BY <2>1, <2>3 DEF IInv, LockIsHeld, ImageIsTheFile, OpenStoresHaveTheSchema, Complete
  <2> QED
    BY <2>1, <2>2, <2>4 DEF IInv, TileWrites
<1> QED
  BY <1>1, <1>2, <1>3, <1>4, <1>5, <1>6, <1>7, <1>8 DEF Next, Construct

\* The file, the images and the stages keep their types.
THEOREM SchemaTypeCorrect == Spec => []TypeOK
<1>1. IInv => TypeOK
  BY DEF IInv
<1> QED
  BY InitIInv, StepKeepsIInv, <1>1, PTL DEF Spec

\* Whatever openers and other programs race it, fail or die: whoever has a
\* store open has the whole schema under it.
THEOREM OpenMeansComplete == Spec => []OpenStoresHaveTheSchema
<1>1. IInv => OpenStoresHaveTheSchema
  BY DEF IInv
<1> QED
  BY InitIInv, StepKeepsIInv, <1>1, PTL DEF Spec

\* tile only ever turns a blank file, or one it owns, into one with the whole
\* schema, and loses nothing of it.
THEOREM OthersFilesAreSafe == Spec => TileWritesItsFilesOnly
<1> DEFINE Writes == file' # file /\ ~CreateForeignTable =>
             /\ Complete(file')
             /\ file.objects \subseteq file'.objects
             /\ \/ file.version = Current
                \/ file.version = Unversioned /\ file.objects \cap Tables \subseteq {Meta}
<1>1. TileWrites => Writes
  BY DEF TileWrites, Acceptable
<1>2. IInv /\ [Next]_vars => IInv' /\ [Writes]_vars
  BY StepKeepsIInv, <1>1
<1> QED
  BY InitIInv, <1>2, PTL DEF Spec, TileWritesItsFilesOnly

-----------------------------------------------------------------------------
(* The calls beside them.                                                  *)

\* A process in the middle of a call has its store open and the lock.
CallsHoldTheLock ==
    /\ txn = [p \in Opener |-> txn[p]]
    /\ \A p \in Opener : txn[p] # Rows!Idle => writer = p /\ pc[p] = "open"

SharedInv == IInv /\ CallsHoldTheLock

\* Nobody is in a call when the first process opens the file.
LEMMA InitSharedInv == SharedInit => SharedInv
<1> SUFFICES ASSUME SharedInit PROVE SharedInv
  OBVIOUS
<1>1. IInv
  BY InitIInv DEF SharedInit
<1>2. txn = [p \in Opener |-> Rows!Idle]
  BY DEF SharedInit, Rows!Init
<1> QED
  BY <1>1, <1>2 DEF SharedInv, CallsHoldTheLock

\* What a call does to the lock.
LEMMA CallTakesTheLock ==
  ASSUME CallsHoldTheLock, NEW p \in Opener, Rows!CallStep(p)
  PROVE  /\ {writer, writer'} \subseteq {None, p}
         /\ txn' = [q \in Opener |-> txn'[q]]
         /\ \A q \in Opener \ {p} : txn'[q] = txn[q]
         /\ txn'[p] # Rows!Idle => writer' = p
<1>1. txn = [q \in Opener |-> txn[q]]
  BY DEF CallsHoldTheLock
<1>2. txn[p].stage \in {"write", "rows"} => writer = p
  BY DEF CallsHoldTheLock, Rows!Idle
<1>3. ASSUME NEW call \in Rows!Call, Rows!Begin(p, call)
      PROVE  /\ writer = None /\ writer' = p
             /\ txn' = [txn EXCEPT ![p] = txn'[p]]
  BY <1>1, <1>3 DEF Rows!Begin
<1>4. ASSUME Rows!Commit(p) \/ Rows!Rollback(p)
      PROVE  /\ writer = p /\ writer' = None
             /\ txn' = [txn EXCEPT ![p] = Rows!Idle]
  BY <1>2, <1>4 DEF Rows!Commit, Rows!Rollback, Rows!Release, CallsHoldTheLock
<1>5. ASSUME \/ Rows!WriteSession(p) \/ Rows!WriteActiveRun(p) \/ Rows!WriteFinishedRun(p)
             \/ Rows!WriteAbortedRun(p) \/ Rows!WriteFork(p)
      PROVE  /\ txn[p].stage = "write" /\ writer' = writer
             /\ txn' = [txn EXCEPT ![p] = txn'[p]]
  BY <1>1, <1>5 DEF Rows!WriteSession, Rows!WriteActiveRun, Rows!WriteFinishedRun,
    Rows!WriteAbortedRun, Rows!WriteFork, Rows!Writing, Rows!Write
<1>6. ASSUME Rows!InsertRow(p)
      PROVE  /\ txn[p].stage = "rows" /\ writer' = writer
             /\ txn' = [txn EXCEPT ![p] = txn'[p]]
  BY <1>1, <1>6 DEF Rows!InsertRow
<1> QED
  BY <1>1, <1>2, <1>3, <1>4, <1>5, <1>6 DEF Rows!CallStep

\* Nobody who opens or closes the file takes the lock from a call.
LEMMA OpenersLeaveCallsAlone ==
  ASSUME SharedInv, (\E q \in Opener : Construct(q)) \/ CreateForeignTable,
         NEW p \in Opener, writer = p, pc[p] = "open"
  PROVE  writer' = p /\ pc'[p] = "open"
<1>1. writer # None /\ \A q \in Opener : pc[q] \notin Stages
  BY OpenerAssumption DEF SharedInv, IInv, LockIsHeld, Stages, Meta, AppTables, Indexes
<1>2. ASSUME NEW q \in Opener, GiveUpWaiting(q) \/ Close(q) PROVE writer' = p /\ pc'[p] = "open"
  <2>1. q # p /\ UNCHANGED writer
    BY <1>2 DEF GiveUpWaiting, Close, Outside
  <2>2. pc' = [pc EXCEPT ![q] = "failed"] \/ pc' = [pc EXCEPT ![q] = "closed"]
    BY <1>2 DEF GiveUpWaiting, Close, Goto
  <2> QED
    BY <2>1, <2>2 DEF SharedInv, IInv, TypeOK
<1>3. ~CreateForeignTable /\ \A q \in Opener : ~Begin(q)
  BY <1>1 DEF CreateForeignTable, Begin
<1>4. \A q \in Opener : ~(Commit(q) \/ Refuse(q) \/ Fail(q) \/ Die(q))
  BY <1>1 DEF Commit, Refuse, Fail, Die, Stages
<1>5. \A q \in Opener : ~(CreateMetaTable(q) \/ Accept(q) \/ CreateSchema(q) \/ WriteSchemaVersion(q))
  <2>1. ASSUME NEW q \in Opener, NEW stage \in Stages, NEW objects, NEW version, NEW next
        PROVE  ~Execute(q, stage, objects, version, next)
    BY <1>1 DEF Execute
  <2>2. {Meta, "check", "version"} \cup AppTables \cup Indexes \subseteq Stages
    BY DEF Stages
  <2> QED
    BY <1>1, <2>1, <2>2 DEF CreateMetaTable, Accept, CreateSchema, WriteSchemaVersion
<1> QED
  BY <1>2, <1>3, <1>4, <1>5 DEF Construct

\* No step of an opener or of a call takes the lock from a call.
LEMMA StepKeepsSharedInv ==
  SharedInv /\ [SharedNext]_sharedVars => SharedInv' /\ [Next]_vars
<1> SUFFICES ASSUME SharedInv, [SharedNext]_sharedVars PROVE SharedInv' /\ [Next]_vars
  OBVIOUS
<1>1. CASE UNCHANGED sharedVars
  <2>1. UNCHANGED vars /\ UNCHANGED <<txn, writer, pc>>
    BY <1>1 DEF sharedVars, rowVars, vars
  <2>2. CallsHoldTheLock'
    BY <2>1 DEF SharedInv, CallsHoldTheLock
  <2> QED
    BY <2>1, <2>2, StepKeepsIInv DEF SharedInv
<1>2. CASE OpenOrClose
  <2>1. [Next]_vars
    BY <1>2 DEF OpenOrClose, Next
  <2>2. txn' = txn
    BY <1>2 DEF OpenOrClose, rowVars
  <2>3. ASSUME NEW p \in Opener, txn'[p] # Rows!Idle PROVE writer' = p /\ pc'[p] = "open"
    BY <1>2, <2>2, <2>3, OpenersLeaveCallsAlone DEF OpenOrClose, SharedInv, CallsHoldTheLock
  <2>4. CallsHoldTheLock'
    BY <2>2, <2>3 DEF SharedInv, CallsHoldTheLock
  <2> QED
    BY <2>1, <2>4, StepKeepsIInv DEF SharedInv
<1>3. ASSUME NEW p \in Opener, CallStore(p) PROVE SharedInv' /\ [Next]_vars
  <2>1. /\ pc[p] = "open" /\ UNCHANGED <<file, image, pc>>
        /\ {writer, writer'} \subseteq {None, p}
        /\ txn' = [q \in Opener |-> txn'[q]]
        /\ \A q \in Opener \ {p} : txn'[q] = txn[q]
        /\ txn'[p] # Rows!Idle => writer' = p
    BY <1>3, CallTakesTheLock DEF CallStore, SharedInv
  <2>2. [Next]_vars
    BY <2>1 DEF Next, UseStore
  <2>3. \A q \in Opener \ {p} : txn[q] = Rows!Idle
    BY <2>1, OpenerAssumption DEF SharedInv, CallsHoldTheLock
  <2>4. CallsHoldTheLock'
    BY <2>1, <2>3 DEF CallsHoldTheLock
  <2> QED
    BY <2>2, <2>4, StepKeepsIInv DEF SharedInv
<1> QED
  BY <1>1, <1>2, <1>3 DEF SharedNext

\* Every behaviour of the shared database is, to those who open it, one of
\* SchemaInit: the calls of a store are steps in which somebody who has it
\* open takes the lock or releases it.
THEOREM CallsDoNotDisturbOpeners == SharedSpec => OpenersAreUndisturbed
<1>1. SharedInit => Init
  BY DEF SharedInit
<1> QED
  BY <1>1, InitSharedInv, StepKeepsSharedInv, PTL DEF SharedSpec, OpenersAreUndisturbed, Spec

\* Whoever makes calls of a store has the whole schema under it, whatever the
\* other processes do with the file.
THEOREM CallsFindTheSchema == SharedSpec => []OpenStoresHaveTheSchema
  BY CallsDoNotDisturbOpeners, OpenMeansComplete, PTL DEF OpenersAreUndisturbed

\* Beside a store in use, too, no file of another program is written into.
THEOREM SharedFilesAreSafe == SharedSpec => TileWritesItsFilesOnly
  BY CallsDoNotDisturbOpeners, OthersFilesAreSafe, PTL DEF OpenersAreUndisturbed

-----------------------------------------------------------------------------
(* The calls.  Rows of a session, as numbered by position.                 *)

\* Rows that carry the positions 0, ..., n - 1, each once.
Numbered(rows, n) ==
    /\ {row.position : row \in rows} = 0..(n - 1)
    /\ \A row, q \in rows : row.position = q.position => row = q

\* So many rows as positions.
LEMMA NumberedCount ==
  ASSUME NEW rows, NEW n \in Nat, Numbered(rows, n)
  PROVE  IsFiniteSet(rows) /\ Cardinality(rows) = n
<1> DEFINE At == [p \in 0..(n - 1) |-> CHOOSE row \in rows : row.position = p]
<1>1. \A p \in 0..(n - 1) : At[p] \in rows /\ At[p].position = p
  BY DEF Numbered
<1>2. At \in [0..(n - 1) -> rows]
  BY <1>1
<1>3. \A p, q \in 0..(n - 1) : At[p] = At[q] => p = q
  BY <1>1
<1>4. \A row \in rows : \E p \in 0..(n - 1) : At[p] = row
  BY <1>1 DEF Numbered
<1>5. At \in Bijection(0..(n - 1), rows)
  BY <1>2, <1>3, <1>4, Fun_IsBij
<1>6. IsFiniteSet(0..(n - 1)) /\ Cardinality(0..(n - 1)) = n
  BY FS_Interval
<1> QED
  BY <1>5, <1>6, FS_Bijection, Fun_ExistsBij

\* How many rows come before a row is its position.
LEMMA PositionIsRank ==
  ASSUME NEW rows, NEW n \in Nat, Numbered(rows, n), NEW row \in rows
  PROVE  /\ row.position \in 0..(n - 1)
         /\ Cardinality({q \in rows : q.position < row.position}) = row.position
<1> DEFINE before == {q \in rows : q.position < row.position}
<1>1. row.position \in 0..(n - 1)
  BY DEF Numbered
<1>2. Numbered(before, row.position)
  <2>1. {q.position : q \in before} = 0..(row.position - 1)
    BY <1>1 DEF Numbered
  <2> QED
    BY <2>1 DEF Numbered
<1> QED
  BY <1>1, <1>2, NumberedCount

\* The row that ORDER BY position gives as the i-th.
NthRow(rows, i) ==
    CHOOSE row \in rows : Cardinality({q \in rows : q.position < row.position}) = i - 1

\* The i-th row in the order of the positions is the one at position i - 1.
LEMMA NthRowPosition ==
  ASSUME NEW rows, NEW n \in Nat, Numbered(rows, n), NEW i \in 1..n
  PROVE  /\ NthRow(rows, i) \in rows
         /\ NthRow(rows, i).position = i - 1
<1>1. PICK row \in rows : row.position = i - 1
  <2>1. i - 1 \in 0..(n - 1)
    OBVIOUS
  <2>2. i - 1 \in {row.position : row \in rows}
    BY <2>1 DEF Numbered
  <2> QED
    BY <2>2
<1>2. Cardinality({q \in rows : q.position < row.position}) = i - 1
  BY <1>1, PositionIsRank
<1>3. /\ NthRow(rows, i) \in rows
      /\ Cardinality({q \in rows : q.position < NthRow(rows, i).position}) = i - 1
  BY <1>2 DEF NthRow
<1> QED
  BY <1>3, PositionIsRank

\* Rows appended at the end.
LEMMA AppendedRows ==
  ASSUME NEW rows, NEW n \in Nat, Numbered(rows, n),
         NEW added, NEW k \in Nat,
         \A i \in 1..k : added[i].position = n + i - 1
  PROVE  Numbered(rows \cup {added[i] : i \in 1..k}, n + k)
<1> DEFINE all == rows \cup {added[i] : i \in 1..k}
<1>1. \A row \in all : row.position \in 0..(n + k - 1)
  BY DEF Numbered
<1>2. \A p \in 0..(n + k - 1) : \E row \in all : row.position = p
  <2> TAKE p \in 0..(n + k - 1)
  <2>1. CASE p < n
    <3>1. p \in 0..(n - 1)
      BY <2>1
    <3>2. p \in {row.position : row \in rows}
      BY <3>1 DEF Numbered
    <3>3. PICK row \in rows : row.position = p
      BY <3>2
    <3> QED
      BY <3>3
  <2>2. CASE p >= n
    <3>1. p - n + 1 \in 1..k /\ added[p - n + 1].position = p
      BY <2>2
    <3> QED
      BY <3>1
  <2> QED
    BY <2>1, <2>2
<1>3. ASSUME NEW row \in all, NEW q \in all, row.position = q.position
      PROVE  row = q
  <2>1. \A old \in rows : old.position \in 0..(n - 1)
    BY DEF Numbered
  <2>2. \A i \in 1..k : added[i].position >= n
    OBVIOUS
  <2>3. CASE row \in rows /\ q \in rows
    BY <1>3, <2>3 DEF Numbered
  <2>4. CASE \E i, j \in 1..k : row = added[i] /\ q = added[j]
    BY <1>3, <2>4
  <2>5. CASE row \in rows /\ \E j \in 1..k : q = added[j]
    BY <1>3, <2>1, <2>2, <2>5
  <2>6. CASE q \in rows /\ \E j \in 1..k : row = added[j]
    BY <1>3, <2>1, <2>2, <2>6
  <2> QED
    BY <2>3, <2>4, <2>5, <2>6
<1> QED
  BY <1>1, <1>2, <1>3 DEF Numbered

\* MAX(position) + 1 is the number of rows.
LEMMA NextPosition ==
  ASSUME NEW d, NEW s, NEW n \in Nat, Numbered(Rows!RowsOf(d, s), n)
  PROVE  Rows!NextHistoryPosition(d, s) = n
<1> DEFINE positions == {-1} \cup {row.position : row \in Rows!RowsOf(d, s)}
<1>1. positions = (-1)..(n - 1)
  BY DEF Numbered
<1>2. Rows!LastHistoryPosition(d, s) = n - 1
  BY <1>1 DEF Rows!LastHistoryPosition, Rows!Max
<1> QED
  BY <1>2 DEF Rows!NextHistoryPosition

-----------------------------------------------------------------------------
(* What the statements of a call make of the database d it found.          *)

SessionsAfter(d, call) ==
    CASE call.op = "create_session" -> d.sessions \cup {call.session}
      [] call.op = "fork_session" -> d.sessions \cup {call.target}
      [] OTHER -> d.sessions

RunsAfter(d, call) ==
    CASE call.op = "start_run" ->
            [d.runs EXCEPT ![call.run] = [session |-> call.session, status |-> "active"]]
      [] call.op = "finish_run" -> [d.runs EXCEPT ![call.run].status = call.outcome]
      [] call.op = "abort_active_run" ->
            [r \in Run |-> IF r \in Rows!ActiveRuns(d, call.session)
                           THEN [d.runs[r] EXCEPT !.status = "aborted"] ELSE d.runs[r]]
      [] OTHER -> d.runs

NewRows(d, call) ==
    CASE call.op = "finish_run" -> Rows!DeltaRows(d, call.session, call.run, call.delta)
      [] call.op = "fork_session" -> Rows!CopiedRows(d, call.session, call.target)
      [] OTHER -> <<>>

\* The session whose history they extend.
Owner(call) == IF call.op = "fork_session" THEN call.target ELSE call.session

EndedBy(d, call) ==
    CASE call.op = "finish_run" -> {call.run}
      [] call.op = "abort_active_run" -> Rows!ActiveRuns(d, call.session)
      [] OTHER -> {}

\* The image once the record is written and k rows are inserted.
After(d, call, k) ==
    [sessions |-> SessionsAfter(d, call), runs |-> RunsAfter(d, call),
     rows |-> d.rows \cup {NewRows(d, call)[i] : i \in 1..k}]

\* A database that the calls left behind.
Sound(d) ==
    /\ d \in Rows!Database
    /\ \A r \in Run : d.runs[r].status # "absent" => d.runs[r].session \in d.sessions
    /\ \A r, q \in Run :
          /\ d.runs[r].status = "active" /\ d.runs[q].status = "active"
          /\ d.runs[r].session = d.runs[q].session
          => r = q
    /\ \A row \in d.rows : row.session \in d.sessions /\ d.runs[row.run].status # "absent"
    /\ \A s \in Session : \E n \in Nat : Numbered(Rows!RowsOf(d, s), n)

\* The instance of FiniteSets that SqliteStore brings counts like any.
LEMMA SameCardinality == \A S : Rows!Cardinality(S) = Cardinality(S)
  BY DEF Rows!Cardinality, Cardinality

\* A call is one of the five, with arguments of its kind.
LEMMA CallCases ==
  ASSUME NEW call \in Rows!Call
  PROVE  /\ call.session \in Session
         /\ \/ call.op = "create_session"
            \/ call.op = "abort_active_run"
            \/ call.op = "start_run" /\ call.run \in Run
            \/ /\ call.op = "finish_run" /\ call.run \in Run
               /\ call.outcome \in Rows!TerminalStatus /\ call.delta \in Delta
            \/ call.op = "fork_session" /\ call.target \in Session
  BY DEF Rows!Call

\* The rows of any session are numbered from 0.
LEMMA SoundCounts ==
  ASSUME NEW d, Sound(d), NEW s \in Session
  PROVE  /\ Cardinality(Rows!RowsOf(d, s)) \in Nat
         /\ Numbered(Rows!RowsOf(d, s), Cardinality(Rows!RowsOf(d, s)))
  BY NumberedCount DEF Sound

\* The rows a call inserts go to the end of its session's history.
LEMMA NewRowsFollow ==
  ASSUME NEW d, Sound(d), NEW call \in Rows!Call, Rows!Accepts(d, call)
  PROVE  /\ NewRows(d, call) \in Seq(Rows!Row)
         /\ Owner(call) \in Session
         /\ NewRows(d, call) # <<>> => Owner(call) \in SessionsAfter(d, call)
         /\ \A i \in 1..Len(NewRows(d, call)) :
               /\ NewRows(d, call)[i].session = Owner(call)
               /\ NewRows(d, call)[i].position =
                     Cardinality(Rows!RowsOf(d, Owner(call))) + i - 1
               /\ d.runs[NewRows(d, call)[i].run].status # "absent"
<1>1. Owner(call) \in Session
  BY CallCases DEF Owner
<1>2. CASE call.op \notin {"finish_run", "fork_session"}
  BY <1>1, <1>2 DEF NewRows
<1>3. CASE call.op = "finish_run"
  <2> DEFINE n == Cardinality(Rows!RowsOf(d, call.session))
  <2>1. /\ call.run \in Run /\ call.session \in Session /\ call.delta \in Seq(Item)
        /\ d.runs[call.run].session = call.session /\ d.runs[call.run].status = "active"
    BY <1>3, CallCases, SharedDatabaseAssumption DEF Rows!Accepts, Rows!SqliteAssumption
  <2>2. n \in Nat /\ Rows!NextHistoryPosition(d, call.session) = n
    BY <2>1, SoundCounts, NextPosition
  <2>3. NewRows(d, call) = [k \in 1..Len(call.delta) |->
            [session |-> call.session, run |-> call.run, item |-> call.delta[k],
             position |-> n + k - 1]]
    BY <1>3, <2>1, <2>2 DEF NewRows, Rows!DeltaRows
  <2>4. \A k \in 1..Len(call.delta) :
            [session |-> call.session, run |-> call.run, item |-> call.delta[k],
             position |-> n + k - 1] \in Rows!Row
    BY <2>1, <2>2 DEF Rows!Row
  <2>5. NewRows(d, call) \in Seq(Rows!Row) /\ Len(NewRows(d, call)) = Len(call.delta)
    BY <2>1, <2>3, <2>4
  <2>6. Owner(call) = call.session /\ Owner(call) \in SessionsAfter(d, call)
    BY <1>3, <2>1 DEF Owner, SessionsAfter, Sound
  <2>7. \A i \in 1..Len(NewRows(d, call)) :
            /\ NewRows(d, call)[i].session = call.session
            /\ NewRows(d, call)[i].position = n + i - 1
            /\ NewRows(d, call)[i].run = call.run
    BY <2>3, <2>5
  <2> QED
    BY <1>1, <2>1, <2>5, <2>6, <2>7
<1>4. CASE call.op = "fork_session"
  <2> DEFINE rows == Rows!RowsOf(d, call.session)
             n == Cardinality(rows)
  <2>1. /\ call.session \in Session /\ call.target \in Session
        /\ call.target \notin d.sessions
    BY <1>4, CallCases DEF Rows!Accepts
  <2>2. n \in Nat /\ Numbered(rows, n)
    BY <2>1, SoundCounts
  <2>3. NewRows(d, call) = [k \in 1..n |-> [NthRow(rows, k) EXCEPT !.session = call.target]]
    <3>1. NewRows(d, call) = Rows!CopiedRows(d, call.session, call.target)
      BY <1>4 DEF NewRows
    <3>2. Rows!CopiedRows(d, call.session, call.target) =
              [k \in 1..n |-> [NthRow(rows, k) EXCEPT !.session = call.target]]
      BY DEF Rows!CopiedRows, NthRow, Cardinality, Rows!Cardinality
    <3> QED
      BY <3>1, <3>2
  <2>4. \A k \in 1..n : NthRow(rows, k) \in rows /\ NthRow(rows, k).position = k - 1
    BY <2>2, NthRowPosition
  <2>5. \A k \in 1..n :
            NthRow(rows, k) \in Rows!Row /\ d.runs[NthRow(rows, k).run].status # "absent"
    BY <2>4 DEF Rows!RowsOf, Sound, Rows!Database
  <2>6. \A k \in 1..n :
            /\ NewRows(d, call)[k] \in Rows!Row
            /\ NewRows(d, call)[k].session = call.target
            /\ NewRows(d, call)[k].position = k - 1
            /\ d.runs[NewRows(d, call)[k].run].status # "absent"
    BY <2>1, <2>3, <2>4, <2>5 DEF Rows!Row
  <2>7. NewRows(d, call) \in Seq(Rows!Row) /\ Len(NewRows(d, call)) = n
    <3>1. n \in Nat
      BY <2>2
    <3>2. NewRows(d, call) \in [1..n -> Rows!Row]
      BY <2>3, <2>6
    <3> QED
      BY <3>1, <3>2
  <2>8. Rows!RowsOf(d, call.target) = {}
    BY <2>1 DEF Rows!RowsOf, Sound
  <2>9. Cardinality(Rows!RowsOf(d, call.target)) = 0
    BY <2>8, FS_EmptySet
  <2>10. Owner(call) = call.target /\ Owner(call) \in SessionsAfter(d, call)
    BY <1>4 DEF Owner, SessionsAfter
  <2> QED
    BY <1>1, <2>6, <2>7, <2>9, <2>10
<1> QED
  BY <1>2, <1>3, <1>4


\* The records a call leaves: owned by a session there is, one active in each.
LEMMA RecordsStaySound ==
  ASSUME NEW d, Sound(d), NEW call \in Rows!Call, Rows!Accepts(d, call)
  PROVE  /\ SessionsAfter(d, call) \subseteq Session
         /\ d.sessions \subseteq SessionsAfter(d, call)
         /\ RunsAfter(d, call) \in [Run -> [session : Session \cup {NoSession},
                                            status : {"absent", "active"} \cup Rows!TerminalStatus]]
         /\ \A r \in Run :
               d.runs[r].status # "absent" => RunsAfter(d, call)[r].status # "absent"
         /\ \A r \in Run :
               RunsAfter(d, call)[r].status # "absent" =>
                   RunsAfter(d, call)[r].session \in d.sessions
         /\ \A r, q \in Run :
               /\ RunsAfter(d, call)[r].status = "active"
               /\ RunsAfter(d, call)[q].status = "active"
               /\ RunsAfter(d, call)[r].session = RunsAfter(d, call)[q].session
               => r = q
<1> DEFINE Record == [session : Session \cup {NoSession},
                      status : {"absent", "active"} \cup Rows!TerminalStatus]
<1>1. d.sessions \subseteq Session /\ d.runs \in [Run -> Record]
  BY DEF Sound, Rows!Database
<1>2. /\ SessionsAfter(d, call) \subseteq Session
      /\ d.sessions \subseteq SessionsAfter(d, call)
  BY <1>1, CallCases DEF SessionsAfter
<1>3. CASE call.op \in {"create_session", "fork_session"}
  <2>1. RunsAfter(d, call) = d.runs
    BY <1>3 DEF RunsAfter
  <2> QED
    BY <1>1, <1>2, <2>1 DEF Sound
<1>4. CASE call.op = "start_run"
  <2>1. /\ RunsAfter(d, call) =
               [d.runs EXCEPT ![call.run] = [session |-> call.session, status |-> "active"]]
        /\ call.session \in d.sessions /\ call.run \in Run
        /\ Rows!ActiveRuns(d, call.session) = {}
    BY <1>4, CallCases DEF RunsAfter, Rows!Accepts
  <2>2. RunsAfter(d, call) \in [Run -> Record]
    BY <1>1, <2>1
  <2>3. \A r \in Run : d.runs[r].status = "active" => d.runs[r].session # call.session
    BY <2>1 DEF Rows!ActiveRuns
  <2>4. /\ \A r \in Run \ {call.run} : RunsAfter(d, call)[r] = d.runs[r]
        /\ RunsAfter(d, call)[call.run] = [session |-> call.session, status |-> "active"]
    BY <1>1, <2>1
  <2> QED
    BY <1>2, <2>1, <2>2, <2>3, <2>4 DEF Sound
<1>5. CASE call.op = "finish_run"
  <2>1. /\ RunsAfter(d, call) = [d.runs EXCEPT ![call.run].status = call.outcome]
        /\ call.run \in Run /\ d.runs[call.run].status = "active"
        /\ call.outcome \in Rows!TerminalStatus
    BY <1>5, CallCases DEF RunsAfter, Rows!Accepts
  <2>2. RunsAfter(d, call) \in [Run -> Record]
    BY <1>1, <2>1
  <2>3. /\ \A r \in Run \ {call.run} : RunsAfter(d, call)[r] = d.runs[r]
        /\ RunsAfter(d, call)[call.run].session = d.runs[call.run].session
        /\ RunsAfter(d, call)[call.run].status \in Rows!TerminalStatus
    BY <1>1, <2>1
  <2>4. RunsAfter(d, call)[call.run].status \notin {"absent", "active"}
    BY <2>3 DEF Rows!TerminalStatus
  <2>5. \A r \in Run : RunsAfter(d, call)[r].session = d.runs[r].session
    BY <2>3
  <2>6. \A r \in Run : RunsAfter(d, call)[r].status = "active" => d.runs[r].status = "active"
    BY <2>3, <2>4
  <2>7. \A r \in Run : RunsAfter(d, call)[r].status # "absent" => d.runs[r].status # "absent"
    BY <2>1, <2>3
  <2>8. \A r \in Run :
            /\ d.runs[r].status # "absent" => RunsAfter(d, call)[r].status # "absent"
            /\ RunsAfter(d, call)[r].status # "absent" =>
                   RunsAfter(d, call)[r].session \in d.sessions
    BY <2>3, <2>4, <2>5, <2>7 DEF Sound
  <2>9. \A r, q \in Run :
            /\ RunsAfter(d, call)[r].status = "active"
            /\ RunsAfter(d, call)[q].status = "active"
            /\ RunsAfter(d, call)[r].session = RunsAfter(d, call)[q].session
            => r = q
    BY <2>5, <2>6 DEF Sound
  <2> QED
    BY <1>2, <2>2, <2>8, <2>9
<1>6. CASE call.op = "abort_active_run"
  <2>1. RunsAfter(d, call) =
            [r \in Run |-> IF r \in Rows!ActiveRuns(d, call.session)
                           THEN [d.runs[r] EXCEPT !.status = "aborted"] ELSE d.runs[r]]
    BY <1>6 DEF RunsAfter
  <2>2. RunsAfter(d, call) \in [Run -> Record]
    BY <1>1, <2>1 DEF Rows!TerminalStatus
  <2>3. \A r \in Run :
            /\ RunsAfter(d, call)[r].session = d.runs[r].session
            /\ \/ RunsAfter(d, call)[r].status = d.runs[r].status
               \/ RunsAfter(d, call)[r].status = "aborted" /\ d.runs[r].status = "active"
    BY <1>1, <2>1 DEF Rows!ActiveRuns
  <2> QED
    BY <1>2, <2>2, <2>3 DEF Sound
<1> QED
  BY <1>3, <1>4, <1>5, <1>6, CallCases

\* An image with k of the rows: they are the last of its session's history,
\* and the rows of the other sessions are as they were.
LEMMA ImageRows ==
  ASSUME NEW d, Sound(d), NEW call \in Rows!Call, Rows!Accepts(d, call),
         NEW k \in 0..Len(NewRows(d, call))
  PROVE  /\ After(d, call, k) \in Rows!Database
         /\ Numbered(Rows!RowsOf(After(d, call, k), Owner(call)),
                     Cardinality(Rows!RowsOf(d, Owner(call))) + k)
         /\ \A s \in Session \ {Owner(call)} :
               Rows!RowsOf(After(d, call, k), s) = Rows!RowsOf(d, s)
<1> DEFINE new == NewRows(d, call)
           added == {new[i] : i \in 1..k}
           n == Cardinality(Rows!RowsOf(d, Owner(call)))
<1>1. /\ new \in Seq(Rows!Row) /\ Owner(call) \in Session
      /\ \A i \in 1..Len(new) :
            new[i].session = Owner(call) /\ new[i].position = n + i - 1
  BY NewRowsFollow
<1>2. n \in Nat /\ Numbered(Rows!RowsOf(d, Owner(call)), n)
  BY <1>1, SoundCounts
<1>3. k \in Nat /\ 1..k \subseteq 1..Len(new)
  BY <1>1
<1> HIDE DEF new, n
<1>4. added \subseteq Rows!Row /\ \A row \in added : row.session = Owner(call)
  BY <1>1, <1>3
<1>5. After(d, call, k) \in Rows!Database
  <2>1. d.rows \subseteq Rows!Row
    BY DEF Sound, Rows!Database
  <2>2. d.rows \cup added \in SUBSET Rows!Row
    BY <1>4, <2>1
  <2> QED
    BY <2>2, RecordsStaySound DEF After, Rows!Database, new
<1>6. After(d, call, k).rows = d.rows \cup added
  BY DEF After, new
<1>7. Rows!RowsOf(After(d, call, k), Owner(call)) = Rows!RowsOf(d, Owner(call)) \cup added
  BY <1>4, <1>6 DEF Rows!RowsOf
<1>8. \A s \in Session \ {Owner(call)} :
          Rows!RowsOf(After(d, call, k), s) = Rows!RowsOf(d, s)
  BY <1>4, <1>6 DEF Rows!RowsOf
<1>9. Numbered(Rows!RowsOf(d, Owner(call)) \cup added, n + k)
  <2>1. k \in Nat /\ \A i \in 1..k : new[i].position = n + i - 1
    BY <1>1, <1>3
  <2> QED
    BY <1>2, <2>1, AppendedRows, Zenon
<1> QED
  BY <1>5, <1>7, <1>8, <1>9 DEF n

\* The next row breaks no constraint.
LEMMA NextRowFits ==
  ASSUME NEW d, Sound(d), NEW call \in Rows!Call, Rows!Accepts(d, call),
         NEW k \in 0..Len(NewRows(d, call)), k < Len(NewRows(d, call))
  PROVE  Rows!RowFits(After(d, call, k), NewRows(d, call)[k + 1])
<1> DEFINE row == NewRows(d, call)[k + 1]
           n == Cardinality(Rows!RowsOf(d, Owner(call)))
<1>1. NewRows(d, call) \in Seq(Rows!Row) /\ Owner(call) \in Session
  BY NewRowsFollow
<1>2. n \in Nat
  BY <1>1, SoundCounts
<1>3. k \in Nat /\ k + 1 \in 1..Len(NewRows(d, call)) /\ NewRows(d, call) # <<>>
  BY <1>1
<1>4. /\ row \in Rows!Row /\ row.session = Owner(call) /\ row.position = n + k
      /\ d.runs[row.run].status # "absent"
      /\ Owner(call) \in SessionsAfter(d, call)
  BY <1>1, <1>2, <1>3, NewRowsFollow
<1>5. \A q \in Rows!RowsOf(After(d, call, k), row.session) : q.position # row.position
  <2> DEFINE rows == Rows!RowsOf(After(d, call, k), row.session)
             count == n + k
  <2>1. Numbered(rows, count) /\ count \in Nat
    BY <1>2, <1>3, <1>4, ImageRows
  <2> HIDE DEF rows, count
  <2>2. \A q \in rows : q.position \in 0..(count - 1)
    BY <2>1, PositionIsRank
  <2> QED
    BY <1>2, <1>3, <1>4, <2>2 DEF rows, count
<1>6. row.run \in Run
  BY <1>4 DEF Rows!Row
<1>7. RunsAfter(d, call)[row.run].status # "absent"
  BY <1>4, <1>6, RecordsStaySound
<1> QED
  BY <1>4, <1>5, <1>7 DEF Rows!RowFits, After

\* What the commit publishes is a sound database again.
LEMMA CommitStaysSound ==
  ASSUME NEW d, Sound(d), NEW call \in Rows!Call, Rows!Accepts(d, call)
  PROVE  Sound(After(d, call, Len(NewRows(d, call))))
<1> DEFINE k == Len(NewRows(d, call))
           e == After(d, call, k)
<1>1. NewRows(d, call) \in Seq(Rows!Row) /\ Owner(call) \in Session /\ k \in Nat /\ k \in 0..k
  BY NewRowsFollow
<1>2. /\ e.sessions = SessionsAfter(d, call) /\ e.runs = RunsAfter(d, call)
      /\ e.rows = d.rows \cup {NewRows(d, call)[i] : i \in 1..k}
  BY DEF After
<1> HIDE DEF e
<1>3. e \in Rows!Database
  BY <1>1, ImageRows DEF e
<1>4. ASSUME NEW s \in Session PROVE \E n \in Nat : Numbered(Rows!RowsOf(e, s), n)
  <2>1. CASE s = Owner(call)
    <3>1. Cardinality(Rows!RowsOf(d, s)) + k \in Nat
      BY <1>1, SoundCounts
    <3>2. Numbered(Rows!RowsOf(e, s), Cardinality(Rows!RowsOf(d, s)) + k)
      BY <1>1, <2>1, ImageRows DEF e
    <3> QED
      BY <3>1, <3>2
  <2>2. CASE s # Owner(call)
    BY <1>1, <2>2, ImageRows DEF Sound, e
  <2> QED
    BY <2>1, <2>2
<1>5. ASSUME NEW row \in e.rows
      PROVE  row.session \in e.sessions /\ e.runs[row.run].status # "absent"
  <2>1. row.run \in Run
    BY <1>3 DEF Rows!Database, Rows!Row
  <2>2. row.session \in SessionsAfter(d, call) /\ d.runs[row.run].status # "absent"
    <3>1. CASE row \in d.rows
      BY <3>1, RecordsStaySound DEF Sound
    <3>2. ASSUME NEW i \in 1..k, row = NewRows(d, call)[i]
          PROVE  row.session \in SessionsAfter(d, call) /\ d.runs[row.run].status # "absent"
      <4>1. NewRows(d, call) # <<>>
        BY <1>1
      <4> QED
        BY <3>2, <4>1, NewRowsFollow
    <3> QED
      BY <1>2, <3>1, <3>2
  <2> QED
    BY <1>2, <2>1, <2>2, RecordsStaySound
<1> QED
  BY <1>2, <1>3, <1>4, <1>5, RecordsStaySound DEF Sound, e

-----------------------------------------------------------------------------
(* The inductive invariant: the committed database is sound, and the image *)
(* of a call is what its statements so far make of that database, which    *)
(* does not change under it because the call has the lock.                 *)

Transaction ==
    [stage : {"write", "rows"}, call : Rows!Call, pending : Seq(Rows!Row), ended : SUBSET Run]

ImageIsOfTheCall(p) ==
    LET call == txn[p].call
        new == NewRows(db, call)
    IN  /\ txn[p].stage = "write" =>
              txn[p].pending = <<>> /\ txn[p].ended = {} /\ rowImage[p] = db
        /\ txn[p].stage = "rows" =>
              /\ Rows!Accepts(db, call)
              /\ txn[p].ended = EndedBy(db, call)
              /\ \E k \in 0..Len(new) :
                    /\ rowImage[p] = After(db, call, k)
                    /\ txn[p].pending = SubSeq(new, k + 1, Len(new))

TransactionsAreCalls ==
    \A p \in Opener : txn[p] # Rows!Idle => txn[p] \in Transaction /\ ImageIsOfTheCall(p)

Note == [conn : Opener, status : Rows!TerminalStatus]

NotesAreTrue ==
    /\ told \in [Run -> SUBSET Note]
    /\ \A r \in Run : \A note \in told[r] :
          told[r] = {note} /\ db.runs[r].status = note.status

CallInv ==
    /\ SharedInv
    /\ Sound(db)
    /\ rowImage \in [Opener -> Rows!Database]
    /\ TransactionsAreCalls
    /\ NotesAreTrue
    /\ returned = [r \in Run |-> returned[r]]

\* A file that was never written is sound.
LEMMA EmptyIsSound == Sound(Rows!EmptyDatabase)
<1> DEFINE d == Rows!EmptyDatabase
<1>1. d \in Rows!Database
  BY DEF Rows!EmptyDatabase, Rows!Database
<1>2. /\ d.rows = {}
      /\ \A r \in Run : d.runs[r].status = "absent"
  BY DEF Rows!EmptyDatabase
<1>3. \A s \in Session : Rows!RowsOf(d, s) = {}
  BY <1>2 DEF Rows!RowsOf
<1>4. Numbered({}, 0)
  BY DEF Numbered
<1> QED
  BY <1>1, <1>2, <1>3, <1>4 DEF Sound

\* The inductive invariant holds before the first call.
LEMMA InitCallInv == SharedInit => CallInv
<1> SUFFICES ASSUME SharedInit PROVE CallInv
  OBVIOUS
<1>1. /\ db = Rows!EmptyDatabase
      /\ rowImage = [p \in Opener |-> Rows!EmptyDatabase]
      /\ txn = [p \in Opener |-> Rows!Idle]
      /\ returned = [r \in Run |-> <<>>]
      /\ told = [r \in Run |-> {}]
  BY DEF SharedInit, Rows!Init
<1>2. Sound(db) /\ rowImage \in [Opener -> Rows!Database]
  BY <1>1, EmptyIsSound DEF Sound
<1>3. TransactionsAreCalls /\ NotesAreTrue
  BY <1>1 DEF TransactionsAreCalls, NotesAreTrue
<1> QED
  BY <1>1, <1>2, <1>3, InitSharedInv DEF CallInv

\* While one process is in a call the others are not: the lock is exclusive.
LEMMA OthersAreIdle ==
  ASSUME SharedInv, NEW p \in Opener, Rows!CallStep(p)
  PROVE  \A q \in Opener \ {p} : txn[q] = Rows!Idle /\ txn'[q] = Rows!Idle
  BY CallTakesTheLock, OpenerAssumption DEF SharedInv, CallsHoldTheLock

\* The record statement of every method, in one form.
LEMMA RecordIsWritten ==
  ASSUME CallInv, NEW p \in Opener,
         \/ Rows!WriteSession(p) \/ Rows!WriteActiveRun(p) \/ Rows!WriteFinishedRun(p)
         \/ Rows!WriteAbortedRun(p) \/ Rows!WriteFork(p)
  PROVE  LET call == txn[p].call
         IN  /\ txn[p] \in Transaction /\ txn[p].stage = "write"
             /\ Rows!Accepts(db, call)
             /\ rowImage' = [rowImage EXCEPT ![p] = After(db, call, 0)]
             /\ txn' = [txn EXCEPT ![p].stage = "rows", ![p].pending = NewRows(db, call),
                                   ![p].ended = EndedBy(db, call)]
             /\ UNCHANGED <<db, returned, told>>
<1> DEFINE call == txn[p].call
<1>1. txn[p].stage = "write"
  BY DEF Rows!WriteSession, Rows!WriteActiveRun, Rows!WriteFinishedRun, Rows!WriteAbortedRun,
         Rows!WriteFork, Rows!Writing
<1>2. txn[p] # Rows!Idle
  BY <1>1 DEF Rows!Idle
<1>3. txn[p] \in Transaction /\ rowImage[p] = db
  BY <1>1, <1>2 DEF CallInv, TransactionsAreCalls, ImageIsOfTheCall
<1>4. db = [sessions |-> db.sessions, runs |-> db.runs, rows |-> db.rows]
      /\ db.runs = [r \in Run |-> db.runs[r]]
  BY DEF CallInv, Sound, Rows!Database
<1>5. After(db, call, 0) =
          [sessions |-> SessionsAfter(db, call), runs |-> RunsAfter(db, call), rows |-> db.rows]
  <2>1. db.rows \cup {NewRows(db, call)[i] : i \in 1..0} = db.rows
    OBVIOUS
  <2> QED
    BY <2>1 DEF After
<1>6. CASE Rows!WriteSession(p)
  <2>1. call.op = "create_session" /\ Rows!Accepts(db, call)
        /\ Rows!Write(p, [db EXCEPT !.sessions = @ \cup {call.session}], <<>>, {})
    BY <1>3, <1>6 DEF Rows!WriteSession, Rows!Writing
  <2>2. [db EXCEPT !.sessions = @ \cup {call.session}] = After(db, call, 0)
    <3>1. /\ SessionsAfter(db, call) = db.sessions \cup {call.session}
          /\ RunsAfter(db, call) = db.runs
      BY <2>1 DEF SessionsAfter, RunsAfter
    <3> QED
      BY <1>4, <1>5, <3>1
  <2>3. NewRows(db, call) = <<>> /\ EndedBy(db, call) = {}
    BY <2>1 DEF NewRows, EndedBy
  <2> QED
    BY <1>1, <1>3, <2>1, <2>2, <2>3 DEF Rows!Write
<1>7. CASE Rows!WriteActiveRun(p)
  <2>1. call.op = "start_run" /\ Rows!Accepts(db, call)
        /\ Rows!Write(p, [db EXCEPT !.runs[call.run] =
                             [session |-> call.session, status |-> "active"]], <<>>, {})
    BY <1>3, <1>7 DEF Rows!WriteActiveRun, Rows!Writing
  <2>2. [db EXCEPT !.runs[call.run] = [session |-> call.session, status |-> "active"]]
            = After(db, call, 0)
    BY <1>4, <1>5, <2>1 DEF SessionsAfter, RunsAfter
  <2>3. NewRows(db, call) = <<>> /\ EndedBy(db, call) = {}
    BY <2>1 DEF NewRows, EndedBy
  <2> QED
    BY <1>1, <1>3, <2>1, <2>2, <2>3 DEF Rows!Write
<1>8. CASE Rows!WriteFinishedRun(p)
  <2>1. call.op = "finish_run" /\ Rows!Accepts(db, call)
        /\ Rows!Write(p, [db EXCEPT !.runs[call.run].status = call.outcome],
                      Rows!DeltaRows(db, call.session, call.run, call.delta), {call.run})
    BY <1>3, <1>8 DEF Rows!WriteFinishedRun, Rows!Writing
  <2>2. [db EXCEPT !.runs[call.run].status = call.outcome] = After(db, call, 0)
    <3>1. /\ SessionsAfter(db, call) = db.sessions
          /\ RunsAfter(db, call) = [db.runs EXCEPT ![call.run].status = call.outcome]
      BY <2>1 DEF SessionsAfter, RunsAfter
    <3> DEFINE runs == [db.runs EXCEPT ![call.run].status = call.outcome]
    <3>2. [db EXCEPT !.runs[call.run].status = call.outcome] = [db EXCEPT !.runs = runs]
      OBVIOUS
    <3> HIDE DEF runs
    <3>3. [db EXCEPT !.runs = runs]
              = [sessions |-> db.sessions, runs |-> runs, rows |-> db.rows]
      BY <1>4
    <3> QED
      BY <1>5, <3>1, <3>2, <3>3 DEF runs
  <2>3. /\ NewRows(db, call) = Rows!DeltaRows(db, call.session, call.run, call.delta)
        /\ EndedBy(db, call) = {call.run}
    BY <2>1 DEF NewRows, EndedBy
  <2> QED
    BY <1>1, <1>3, <2>1, <2>2, <2>3 DEF Rows!Write
<1>9. CASE Rows!WriteAbortedRun(p)
  <2> DEFINE aborted == [r \in Run |-> IF r \in Rows!ActiveRuns(db, call.session)
                                       THEN [db.runs[r] EXCEPT !.status = "aborted"]
                                       ELSE db.runs[r]]
  <2>1. call.op = "abort_active_run" /\ Rows!Accepts(db, call)
        /\ Rows!Write(p, [db EXCEPT !.runs = aborted], <<>>, Rows!ActiveRuns(db, call.session))
    BY <1>3, <1>9 DEF Rows!WriteAbortedRun, Rows!Writing
  <2>2. [db EXCEPT !.runs = aborted] = After(db, call, 0)
    BY <1>4, <1>5, <2>1 DEF SessionsAfter, RunsAfter
  <2>3. NewRows(db, call) = <<>> /\ EndedBy(db, call) = Rows!ActiveRuns(db, call.session)
    BY <2>1 DEF NewRows, EndedBy
  <2> QED
    BY <1>1, <1>3, <2>1, <2>2, <2>3 DEF Rows!Write
<1>10. CASE Rows!WriteFork(p)
  <2>1. call.op = "fork_session" /\ Rows!Accepts(db, call)
        /\ Rows!Write(p, [db EXCEPT !.sessions = @ \cup {call.target}],
                      Rows!CopiedRows(db, call.session, call.target), {})
    BY <1>3, <1>10 DEF Rows!WriteFork, Rows!Writing
  <2>2. [db EXCEPT !.sessions = @ \cup {call.target}] = After(db, call, 0)
    BY <1>4, <1>5, <2>1 DEF SessionsAfter, RunsAfter
  <2>3. /\ NewRows(db, call) = Rows!CopiedRows(db, call.session, call.target)
        /\ EndedBy(db, call) = {}
    BY <2>1 DEF NewRows, EndedBy
  <2> QED
    BY <1>1, <1>3, <2>1, <2>2, <2>3 DEF Rows!Write
<1> QED
  BY <1>6, <1>7, <1>8, <1>9, <1>10

\* BEGIN IMMEDIATE gives the call the committed database as its image.
LEMMA BeginKeeps ==
  ASSUME CallInv, NEW p \in Opener, NEW call \in Rows!Call, Rows!Begin(p, call)
  PROVE  Sound(db)' /\ (txn[p] \in Transaction /\ ImageIsOfTheCall(p))' /\ NotesAreTrue'
         /\ (rowImage \in [Opener -> Rows!Database])' /\ UNCHANGED <<db, returned>>
<1>1. /\ txn' = [txn EXCEPT ![p] =
                    [stage |-> "write", call |-> call, pending |-> <<>>, ended |-> {}]]
      /\ rowImage' = [rowImage EXCEPT ![p] = db]
      /\ UNCHANGED <<db, returned, told>>
  BY DEF Rows!Begin
<1>2. txn'[p] = [stage |-> "write", call |-> call, pending |-> <<>>, ended |-> {}]
  BY <1>1 DEF CallInv, SharedInv, CallsHoldTheLock
<1>3. rowImage' \in [Opener -> Rows!Database] /\ rowImage'[p] = db
  BY <1>1 DEF CallInv, Sound
<1>4. txn'[p] \in Transaction
  <2>1. <<>> \in Seq(Rows!Row)
    OBVIOUS
  <2> QED
    BY <1>2, <2>1 DEF Transaction
<1>5. ImageIsOfTheCall(p)'
  <2>1. /\ txn'[p].stage = "write" /\ txn'[p].pending = <<>> /\ txn'[p].ended = {}
        /\ rowImage'[p] = db'
    BY <1>1, <1>2, <1>3
  <2> QED
    BY <2>1 DEF ImageIsOfTheCall
<1>6. Sound(db') /\ NotesAreTrue'
  BY <1>1 DEF CallInv, NotesAreTrue
<1> QED
  BY <1>1, <1>3, <1>4, <1>5, <1>6

\* The record statement leaves an image that is what the call makes of it.
LEMMA RecordKeeps ==
  ASSUME CallInv, NEW p \in Opener,
         \/ Rows!WriteSession(p) \/ Rows!WriteActiveRun(p) \/ Rows!WriteFinishedRun(p)
         \/ Rows!WriteAbortedRun(p) \/ Rows!WriteFork(p)
  PROVE  Sound(db)' /\ (txn[p] \in Transaction /\ ImageIsOfTheCall(p))' /\ NotesAreTrue'
         /\ (rowImage \in [Opener -> Rows!Database])' /\ UNCHANGED <<db, returned>>
<1> DEFINE call == txn[p].call
           new == NewRows(db, call)
<1>1. /\ txn[p] \in Transaction /\ txn[p].stage = "write"
      /\ Rows!Accepts(db, call)
      /\ rowImage' = [rowImage EXCEPT ![p] = After(db, call, 0)]
      /\ txn' = [txn EXCEPT ![p].stage = "rows", ![p].pending = new,
                            ![p].ended = EndedBy(db, call)]
      /\ UNCHANGED <<db, returned, told>>
  BY RecordIsWritten
<1>2. call \in Rows!Call /\ Sound(db)
  BY <1>1 DEF Transaction, CallInv
<1>3. new \in Seq(Rows!Row) /\ EndedBy(db, call) \subseteq Run
  <2>1. EndedBy(db, call) \subseteq Run
    BY <1>2, CallCases DEF EndedBy, Rows!ActiveRuns
  <2> QED
    BY <1>1, <1>2, <2>1, NewRowsFollow
<1>4. After(db, call, 0) \in Rows!Database
  <2>1. 0 \in 0..Len(new)
    BY <1>3
  <2> QED
    BY <1>1, <1>2, <2>1, ImageRows
<1>5. /\ rowImage' \in [Opener -> Rows!Database]
      /\ rowImage'[p] = After(db, call, 0)
  BY <1>1, <1>4 DEF CallInv
<1> HIDE DEF new
<1>6. txn'[p] = [stage |-> "rows", call |-> call, pending |-> new, ended |-> EndedBy(db, call)]
  BY <1>1 DEF CallInv, SharedInv, CallsHoldTheLock, Transaction
<1>7. txn'[p] \in Transaction
  BY <1>2, <1>3, <1>6 DEF Transaction
<1>8. new = SubSeq(new, 0 + 1, Len(new)) /\ 0 \in 0..Len(new)
  BY <1>3
<1>9. ImageIsOfTheCall(p)'
  <2>1. txn'[p].stage = "rows" /\ txn'[p].call = call /\ txn'[p].pending = new
        /\ txn'[p].ended = EndedBy(db, call) /\ db' = db
    BY <1>1, <1>6
  <2> QED
    BY <1>1, <1>5, <1>8, <2>1 DEF ImageIsOfTheCall, new
<1>10. Sound(db') /\ NotesAreTrue'
  BY <1>1, <1>2 DEF CallInv, NotesAreTrue
<1> QED
  BY <1>1, <1>5, <1>7, <1>9, <1>10

\* The rows still to insert, after one more.
LEMMA NextOfRest ==
  ASSUME NEW S, NEW all \in Seq(S), NEW k \in 0..Len(all),
         SubSeq(all, k + 1, Len(all)) # <<>>
  PROVE  LET rest == SubSeq(all, k + 1, Len(all))
         IN  /\ k < Len(all) /\ k + 1 \in 0..Len(all)
             /\ Head(rest) = all[k + 1]
             /\ Tail(rest) = SubSeq(all, (k + 1) + 1, Len(all))
<1>1. k < Len(all)
  BY SubSeqEmpty
<1>2. k + 1 \in 1..Len(all) /\ Len(all) \in (k + 1)..Len(all)
  BY <1>1
<1> QED
  BY <1>1, <1>2, HeadTailOfSubSeq

\* Inserting one pending row leaves the image of a call with one row more.
LEMMA InsertKeeps ==
  ASSUME CallInv, NEW p \in Opener, Rows!InsertRow(p)
  PROVE  Sound(db)' /\ (txn[p] \in Transaction /\ ImageIsOfTheCall(p))' /\ NotesAreTrue'
         /\ (rowImage \in [Opener -> Rows!Database])' /\ UNCHANGED <<db, returned>>
<1> DEFINE call == txn[p].call
           new == NewRows(db, call)
<1>1. /\ txn[p].stage = "rows" /\ txn[p].pending # <<>>
      /\ rowImage' = [rowImage EXCEPT ![p].rows = @ \cup {Head(txn[p].pending)}]
      /\ txn' = [txn EXCEPT ![p].pending = Tail(@)]
      /\ UNCHANGED <<db, returned, told>>
  BY DEF Rows!InsertRow
<1>2. txn[p] \in Transaction /\ ImageIsOfTheCall(p)
  BY <1>1 DEF CallInv, TransactionsAreCalls, Rows!Idle
<1>3. call \in Rows!Call /\ Sound(db) /\ Rows!Accepts(db, call)
  BY <1>1, <1>2 DEF Transaction, ImageIsOfTheCall, CallInv
<1>4. PICK k \in 0..Len(new) :
          rowImage[p] = After(db, call, k) /\ txn[p].pending = SubSeq(new, k + 1, Len(new))
  BY <1>1, <1>2 DEF ImageIsOfTheCall
<1>5. new \in Seq(Rows!Row) /\ txn[p].pending \in Seq(Rows!Row)
  BY <1>2, <1>3, NewRowsFollow DEF Transaction
<1> HIDE DEF new, call
<1>6. /\ k < Len(new) /\ k + 1 \in 0..Len(new)
      /\ Head(txn[p].pending) = new[k + 1]
      /\ Tail(txn[p].pending) = SubSeq(new, (k + 1) + 1, Len(new))
      /\ Tail(txn[p].pending) \in Seq(Rows!Row)
  <2>1. SubSeq(new, k + 1, Len(new)) # <<>>
    BY <1>1, <1>4
  <2>2. /\ k < Len(new) /\ k + 1 \in 0..Len(new)
        /\ Head(txn[p].pending) = new[k + 1]
        /\ Tail(txn[p].pending) = SubSeq(new, (k + 1) + 1, Len(new))
    BY <1>4, <1>5, <2>1, NextOfRest, Zenon
  <2>3. Tail(txn[p].pending) \in Seq(Rows!Row)
    BY <1>1, <1>5, HeadTailProperties
  <2> QED
    BY <2>2, <2>3
<1>7. /\ txn'[p].stage = "rows" /\ txn'[p].call = call /\ txn'[p].ended = txn[p].ended
      /\ txn'[p].pending = Tail(txn[p].pending) /\ txn'[p] \in Transaction
  BY <1>1, <1>2, <1>6 DEF CallInv, SharedInv, CallsHoldTheLock, Transaction, call
<1>8. rowImage'[p] = After(db, call, k + 1)
  <2>1. rowImage'[p] = [After(db, call, k) EXCEPT !.rows = @ \cup {new[k + 1]}]
    BY <1>1, <1>4, <1>6 DEF CallInv
  <2>2. {new[i] : i \in 1..(k + 1)} = {new[i] : i \in 1..k} \cup {new[k + 1]}
    <3>1. 1..(k + 1) = 1..k \cup {k + 1}
      OBVIOUS
    <3> QED
      BY <3>1
  <2>3. db.rows \cup {new[i] : i \in 1..(k + 1)} =
            (db.rows \cup {new[i] : i \in 1..k}) \cup {new[k + 1]}
    BY <2>2
  <2> QED
    BY <2>1, <2>3 DEF After, new
<1>9. rowImage' \in [Opener -> Rows!Database]
  <2>1. After(db, call, k + 1) \in Rows!Database
    BY <1>3, <1>6, ImageRows DEF new
  <2>2. rowImage' = [rowImage EXCEPT ![p] = After(db, call, k + 1)]
    BY <1>1, <1>8 DEF CallInv
  <2> QED
    BY <2>1, <2>2 DEF CallInv
<1>10. ImageIsOfTheCall(p)'
  <2>1. txn[p].ended = EndedBy(db, call)
    BY <1>1, <1>2 DEF ImageIsOfTheCall, call
  <2> QED
    BY <1>1, <1>3, <1>6, <1>7, <1>8, <2>1 DEF ImageIsOfTheCall, new
<1>11. Sound(db') /\ NotesAreTrue'
  BY <1>1, <1>3 DEF CallInv, NotesAreTrue
<1> QED
  BY <1>1, <1>7, <1>9, <1>10, <1>11

\* A commit publishes the whole of what its call makes of the database, and
\* tells its caller of the runs it ended, which nobody was told of before.
LEMMA CommitPublishes ==
  ASSUME CallInv, NEW p \in Opener, Rows!Commit(p)
  PROVE  LET call == txn[p].call
         IN  /\ call \in Rows!Call /\ Rows!Accepts(db, call)
             /\ txn[p].ended = EndedBy(db, call)
             /\ rowImage[p] = After(db, call, Len(NewRows(db, call)))
             /\ db' = After(db, call, Len(NewRows(db, call)))
<1> DEFINE call == txn[p].call
           new == NewRows(db, call)
<1>1. txn[p].stage = "rows" /\ txn[p].pending = <<>> /\ db' = rowImage[p]
  BY DEF Rows!Commit
<1>2. txn[p] \in Transaction /\ ImageIsOfTheCall(p)
  BY <1>1 DEF CallInv, TransactionsAreCalls, Rows!Idle
<1>3. /\ call \in Rows!Call /\ Rows!Accepts(db, call) /\ Sound(db)
      /\ txn[p].ended = EndedBy(db, call)
  BY <1>1, <1>2 DEF Transaction, ImageIsOfTheCall, CallInv
<1>4. PICK k \in 0..Len(new) :
          rowImage[p] = After(db, call, k) /\ SubSeq(new, k + 1, Len(new)) = <<>>
  BY <1>1, <1>2 DEF ImageIsOfTheCall
<1>5. new \in Seq(Rows!Row)
  BY <1>3, NewRowsFollow
<1> HIDE DEF new
<1>6. k = Len(new)
  <2>1. Len(new) \in Nat /\ k \in 0..Len(new)
    BY <1>5
  <2>2. Len(SubSeq(new, k + 1, Len(new))) = Len(new) - k
    BY <1>5, <2>1
  <2>3. Len(SubSeq(new, k + 1, Len(new))) = 0
    <3> DEFINE rest == SubSeq(new, k + 1, Len(new))
    <3>1. rest = <<>>
      BY <1>4
    <3> HIDE DEF rest
    <3>2. Len(rest) = 0
      BY <3>1
    <3> QED
      BY <3>2 DEF rest
  <2> QED
    BY <2>1, <2>2, <2>3
<1> QED
  BY <1>1, <1>3, <1>4, <1>6 DEF new

\* A commit leaves a sound database, and every caller that was told of an end
\* was told the truth.
LEMMA CommitKeeps ==
  ASSUME CallInv, NEW p \in Opener, Rows!Commit(p)
  PROVE  /\ Sound(db)' /\ NotesAreTrue' /\ (rowImage \in [Opener -> Rows!Database])'
         /\ txn'[p] = Rows!Idle /\ (returned = [r \in Run |-> returned[r]])'
<1> DEFINE call == txn[p].call
           ended == EndedBy(db, call)
<1>1. /\ call \in Rows!Call /\ Rows!Accepts(db, call) /\ Sound(db)
      /\ txn[p].ended = ended
      /\ rowImage[p] = db'
      /\ db' = After(db, call, Len(NewRows(db, call)))
  BY CommitPublishes DEF CallInv
<1>2. Sound(db')
  BY <1>1, CommitStaysSound
<1>3. txn'[p] = Rows!Idle
  BY DEF Rows!Commit, Rows!Release, CallInv, SharedInv, CallsHoldTheLock
<1>4. rowImage' \in [Opener -> Rows!Database]
  BY EmptyIsSound DEF Rows!Commit, Rows!Release, CallInv, Sound
<1>5. returned' = [r \in Run |-> returned'[r]]
  BY DEF Rows!Commit, CallInv
<1>6. told' = [r \in Run |-> IF r \in ended
                             THEN told[r] \cup {[conn |-> p, status |-> db'.runs[r].status]}
                             ELSE told[r]]
  BY <1>1 DEF Rows!Commit
<1>7. db'.runs = RunsAfter(db, call)
  BY <1>1 DEF After
<1>8. ended \subseteq {r \in Run : db.runs[r].status = "active"}
  BY <1>1, CallCases DEF EndedBy, Rows!Accepts, Rows!ActiveRuns
<1>9. db.runs \in [Run -> [session : Session \cup {NoSession},
                           status : {"absent", "active"} \cup Rows!TerminalStatus]]
  BY <1>1 DEF Sound, Rows!Database
<1>10. \A r \in ended : db'.runs[r].status \in Rows!TerminalStatus
  <2>1. CASE call.op = "finish_run"
    BY <1>1, <1>7, <1>9, <2>1, CallCases DEF EndedBy, RunsAfter
  <2>2. CASE call.op = "abort_active_run"
    BY <1>7, <1>8, <1>9, <2>2 DEF EndedBy, RunsAfter, Rows!TerminalStatus
  <2>3. CASE call.op \notin {"finish_run", "abort_active_run"}
    BY <2>3 DEF EndedBy
  <2> QED
    BY <2>1, <2>2, <2>3
<1>11. \A r \in Run : db.runs[r].status \in Rows!TerminalStatus =>
          r \notin ended /\ db'.runs[r] = db.runs[r]
  <2> SUFFICES ASSUME NEW r \in Run, db.runs[r].status \in Rows!TerminalStatus
               PROVE  r \notin ended /\ db'.runs[r] = db.runs[r]
    OBVIOUS
  <2>1. db.runs[r].status \notin {"absent", "active"}
    BY DEF Rows!TerminalStatus
  <2>2. CASE call.op = "start_run"
    BY <1>1, <1>7, <1>8, <1>9, <2>1, <2>2, CallCases DEF RunsAfter, Rows!Accepts
  <2>3. CASE call.op = "finish_run"
    <3>1. db'.runs = [db.runs EXCEPT ![call.run].status = call.outcome]
      BY <1>7, <2>3 DEF RunsAfter
    <3>2. r # call.run
      BY <1>1, <2>1, <2>3 DEF Rows!Accepts
    <3> QED
      BY <1>8, <1>9, <2>1, <3>1, <3>2
  <2>4. CASE call.op = "abort_active_run"
    BY <1>7, <1>8, <1>9, <2>1, <2>4 DEF RunsAfter, Rows!ActiveRuns
  <2>5. CASE call.op \notin {"start_run", "finish_run", "abort_active_run"}
    BY <1>7, <1>8, <2>1, <2>5 DEF RunsAfter
  <2> QED
    BY <2>2, <2>3, <2>4, <2>5
<1> HIDE DEF ended
<1>12. told' \in [Run -> SUBSET Note]
  BY <1>6, <1>8, <1>10 DEF CallInv, NotesAreTrue, Note
<1>13. ASSUME NEW r \in Run, NEW note \in told'[r]
       PROVE  told'[r] = {note} /\ db'.runs[r].status = note.status
  <2>1. \A old \in told[r] : old.status \in Rows!TerminalStatus /\ db.runs[r].status = old.status
                             /\ told[r] = {old}
    BY DEF CallInv, NotesAreTrue, Note
  <2>2. CASE r \in ended
    <3>1. told[r] = {}
      BY <1>11, <2>1, <2>2
    <3>2. told'[r] = {[conn |-> p, status |-> db'.runs[r].status]}
      BY <1>6, <2>2, <3>1
    <3> QED
      BY <1>13, <3>2
  <2>3. CASE r \notin ended
    <3>1. told'[r] = told[r]
      BY <1>6, <2>3
    <3>2. db'.runs[r] = db.runs[r]
      BY <1>11, <1>13, <2>1, <3>1
    <3> QED
      BY <1>13, <2>1, <3>1, <3>2
  <2> QED
    BY <2>2, <2>3
<1> QED
  BY <1>2, <1>3, <1>4, <1>5, <1>12, <1>13 DEF NotesAreTrue

\* A rollback publishes nothing.
LEMMA RollbackKeeps ==
  ASSUME CallInv, NEW p \in Opener, Rows!Rollback(p)
  PROVE  /\ (rowImage \in [Opener -> Rows!Database])' /\ txn'[p] = Rows!Idle
         /\ UNCHANGED <<db, returned, told>>
  BY EmptyIsSound DEF Rows!Rollback, Rows!Release, CallInv, Sound, SharedInv, CallsHoldTheLock

\* What the others see of a call in progress is nothing.
LEMMA NothingIsPublished ==
  ASSUME CallInv, UNCHANGED rowVars
  PROVE  /\ Sound(db)' /\ (rowImage \in [Opener -> Rows!Database])' /\ TransactionsAreCalls'
         /\ NotesAreTrue' /\ (returned = [r \in Run |-> returned[r]])'
<1>1. UNCHANGED <<db, txn, returned, told, rowImage>>
  BY DEF rowVars
<1>2. TransactionsAreCalls'
  BY <1>1 DEF CallInv, TransactionsAreCalls, ImageIsOfTheCall
<1> QED
  BY <1>1, <1>2 DEF CallInv, NotesAreTrue

\* The inductive step: one case per kind of statement.
LEMMA StepKeepsCallInv == CallInv /\ [SharedNext]_sharedVars => CallInv'
<1> SUFFICES ASSUME CallInv, [SharedNext]_sharedVars PROVE CallInv'
  OBVIOUS
<1>1. SharedInv'
  BY StepKeepsSharedInv DEF CallInv
<1>2. CASE UNCHANGED sharedVars \/ OpenOrClose
  <2>1. UNCHANGED rowVars
    BY <1>2 DEF sharedVars, OpenOrClose
  <2> QED
    BY <1>1, <2>1, NothingIsPublished DEF CallInv
<1>3. ASSUME NEW p \in Opener, CallStore(p) PROVE CallInv'
  <2>1. Rows!CallStep(p)
    BY <1>3 DEF CallStore
  <2>2. \A q \in Opener \ {p} : txn'[q] = Rows!Idle
    BY <2>1, OthersAreIdle DEF CallInv
  <2>3. \/ \E call \in Rows!Call : Rows!Begin(p, call)
        \/ \/ Rows!WriteSession(p) \/ Rows!WriteActiveRun(p) \/ Rows!WriteFinishedRun(p)
           \/ Rows!WriteAbortedRun(p) \/ Rows!WriteFork(p)
        \/ Rows!InsertRow(p) \/ Rows!Commit(p) \/ Rows!Rollback(p)
    BY <2>1 DEF Rows!CallStep
  <2>4. /\ Sound(db') /\ rowImage' \in [Opener -> Rows!Database] /\ NotesAreTrue'
        /\ returned' = [r \in Run |-> returned'[r]]
        /\ txn'[p] = Rows!Idle \/ (txn[p] \in Transaction /\ ImageIsOfTheCall(p))'
    <3>1. CASE Rows!Commit(p)
      BY <3>1, CommitKeeps
    <3>2. CASE Rows!Rollback(p)
      BY <3>2, RollbackKeeps DEF CallInv, NotesAreTrue
    <3>3. CASE ~(Rows!Commit(p) \/ Rows!Rollback(p))
      <4>1. /\ Sound(db') /\ (txn[p] \in Transaction /\ ImageIsOfTheCall(p))' /\ NotesAreTrue'
            /\ rowImage' \in [Opener -> Rows!Database] /\ returned' = returned
        BY <2>3, <3>3, BeginKeeps, RecordKeeps, InsertKeeps
      <4> QED
        BY <4>1 DEF CallInv
    <3> QED
      BY <3>1, <3>2, <3>3
  <2>5. TransactionsAreCalls'
    BY <2>2, <2>4 DEF TransactionsAreCalls
  <2> QED
    BY <1>1, <2>4, <2>5 DEF CallInv
<1> QED
  BY <1>2, <1>3 DEF SharedNext

\* At all times the committed database is sound, and the image of the one call
\* in progress is what its statements so far make of that database.
THEOREM CallsAreAtomic == SharedSpec => []CallInv
  BY InitCallInv, StepKeepsCallInv, PTL DEF SharedSpec

\* MAX(position) + 1 and copied positions leave every session's rows numbered
\* from 0 without a gap or a repeat, for any sessions, runs and deltas.
THEOREM PositionsStayContiguous == SharedSpec => []PositionsAreContiguous
<1>1. CallInv => PositionsAreContiguous
  <2> SUFFICES ASSUME CallInv, NEW s \in Session
               PROVE  {row.position : row \in Rows!RowsOf(db, s)} =
                        {p \in 0 .. Rows!Cardinality(Rows!RowsOf(db, s)) :
                           p < Rows!Cardinality(Rows!RowsOf(db, s))}
    BY DEF PositionsAreContiguous, Rows!PositionsAreContiguous
  <2> DEFINE n == Cardinality(Rows!RowsOf(db, s))
  <2>1. n \in Nat /\ Numbered(Rows!RowsOf(db, s), n)
    BY SoundCounts DEF CallInv
  <2>2. 0..(n - 1) = {p \in 0..n : p < n}
    BY <2>1
  <2> QED
    BY <2>1, <2>2, SameCardinality DEF Numbered
<1> QED
  BY <1>1, CallsAreAtomic, PTL

\* No row a method computes is turned down by UNIQUE or a foreign key.
THEOREM ConstraintsAreASecondLine == SharedSpec => []ConstraintsNeverFire
<1>1. CallInv => ConstraintsNeverFire
  <2> SUFFICES ASSUME CallInv, NEW p \in Opener, txn[p] # Rows!Idle, txn[p].pending # <<>>
               PROVE  Rows!RowFits(rowImage[p], Head(txn[p].pending))
    BY DEF ConstraintsNeverFire, Rows!ConstraintsNeverFire
  <2> DEFINE call == txn[p].call
             new == NewRows(db, call)
  <2>1. txn[p] \in Transaction /\ ImageIsOfTheCall(p) /\ Sound(db)
    BY DEF CallInv, TransactionsAreCalls
  <2>2. call \in Rows!Call /\ txn[p].stage = "rows" /\ Rows!Accepts(db, call)
    BY <2>1 DEF Transaction, ImageIsOfTheCall
  <2>3. PICK k \in 0..Len(new) :
            rowImage[p] = After(db, call, k) /\ txn[p].pending = SubSeq(new, k + 1, Len(new))
    BY <2>1, <2>2 DEF ImageIsOfTheCall
  <2>4. new \in Seq(Rows!Row)
    BY <2>1, <2>2, NewRowsFollow
  <2>5. k < Len(new) /\ Head(txn[p].pending) = new[k + 1]
    <3>1. SubSeq(new, k + 1, Len(new)) # <<>>
      BY <2>3
    <3> HIDE DEF new
    <3> QED
      BY <2>3, <2>4, <3>1, NextOfRest
  <2> QED
    BY <2>1, <2>2, <2>3, <2>5, NextRowFits
<1> QED
  BY <1>1, CallsAreAtomic, PTL

\* Of all the callers that race to end a run one is given its terminal record.
THEOREM RacesHaveOneWinner == SharedSpec => []OneCallerEndsARun
<1>1. CallInv => OneCallerEndsARun
  <2> SUFFICES ASSUME CallInv, NEW r \in Run
               PROVE  /\ Rows!Cardinality(told[r]) <= 1
                      /\ \A note \in told[r] : db.runs[r].status = note.status
    BY DEF OneCallerEndsARun, Rows!OneCallerEndsARun
  <2>1. \A note \in told[r] : told[r] = {note} /\ db.runs[r].status = note.status
    BY DEF CallInv, NotesAreTrue
  <2>2. CASE told[r] = {}
    BY <2>1, <2>2, FS_EmptySet, SameCardinality
  <2>3. CASE told[r] # {}
    <3>1. PICK note : told[r] = {note}
      BY <2>1, <2>3
    <3>2. Cardinality(told[r]) = 1
      BY <3>1, FS_Singleton
    <3> QED
      BY <2>1, <3>2, SameCardinality
  <2> QED
    BY <2>2, <2>3
<1> QED
  BY <1>1, CallsAreAtomic, PTL

-----------------------------------------------------------------------------
(* The refinement: what the committed tables say changes as Store allows.  *)

\* What the ordered SELECT gives of rows numbered from 0.
Ordered(rows, n) ==
    [i \in 1..n |-> [run |-> NthRow(rows, i).run, item |-> NthRow(rows, i).item]]

\* HistoryOf in terms of numbered rows.
LEMMA HistoryIsOrdered ==
  ASSUME NEW d, NEW s, NEW n \in Nat, Numbered(Rows!RowsOf(d, s), n)
  PROVE  Rows!HistoryOf(d, s) = Ordered(Rows!RowsOf(d, s), n)
<1> DEFINE rows == Rows!RowsOf(d, s)
<1>1. Rows!HistoryOf(d, s) = Ordered(rows, Cardinality(rows))
  BY DEF Rows!HistoryOf, Ordered, NthRow, Cardinality, Rows!Cardinality
<1>2. Cardinality(rows) = n
  BY NumberedCount
<1> QED
  BY <1>1, <1>2

\* The row at position i - 1 is the i-th.
LEMMA NthRowIs ==
  ASSUME NEW rows, NEW n \in Nat, Numbered(rows, n), NEW i \in 1..n,
         NEW row \in rows, row.position = i - 1
  PROVE  NthRow(rows, i) = row
  BY NthRowPosition DEF Numbered

\* A history whose rows are untouched is untouched.
LEMMA SameRowsSameHistory ==
  ASSUME NEW d, NEW e, NEW s, Rows!RowsOf(e, s) = Rows!RowsOf(d, s)
  PROVE  Rows!HistoryOf(e, s) = Rows!HistoryOf(d, s)
  BY DEF Rows!HistoryOf

\* A sequence is the concatenation of two when it agrees with the first on its
\* first n elements and with the second on the others.
LEMMA ConcatIs ==
  ASSUME NEW S, NEW first \in Seq(S), NEW second \in Seq(S), NEW whole \in Seq(S),
         Len(whole) = Len(first) + Len(second),
         \A i \in 1..Len(first) : whole[i] = first[i],
         \A i \in 1..Len(second) : whole[Len(first) + i] = second[i]
  PROVE  whole = first \o second
<1>1. /\ first \o second \in Seq(S) /\ Len(first \o second) = Len(whole)
      /\ \A i \in 1..(Len(first) + Len(second)) : (first \o second)[i] =
            IF i <= Len(first) THEN first[i] ELSE second[i - Len(first)]
  BY ConcatProperties
<1>2. ASSUME NEW i \in 1..Len(whole) PROVE whole[i] = (first \o second)[i]
  <2>0. Len(first) \in Nat /\ Len(second) \in Nat
    OBVIOUS
  <2>1. CASE i <= Len(first)
    <3>1. i \in 1..Len(first)
      BY <2>0, <2>1
    <3> QED
      BY <1>1, <2>1, <3>1
  <2>2. CASE i > Len(first)
    <3>1. i - Len(first) \in 1..Len(second) /\ Len(first) + (i - Len(first)) = i
      BY <2>0, <2>2
    <3>2. whole[i] = second[i - Len(first)]
      BY <3>1
    <3> QED
      BY <1>1, <2>0, <2>2, <3>2
  <2> QED
    BY <2>0, <2>1, <2>2
<1> QED
  BY <1>1, <1>2, SeqEqual

Shown(row) == [run |-> row.run, item |-> row.item]
ShownRows(new) == [i \in 1..Len(new) |-> Shown(new[i])]

FollowIn(rows, all, n, new) ==
    /\ n \in Nat /\ Numbered(rows, n)
    /\ Numbered(all, n + Len(new)) /\ rows \subseteq all
    /\ Len(new) \in Nat
    /\ \A i \in 1..Len(new) : new[i] \in all /\ new[i].position = n + i - 1

\* Rows that follow the others come after them in the ordered SELECT.
LEMMA OrderedAppend ==
  ASSUME NEW rows, NEW all, NEW n, NEW new, FollowIn(rows, all, n, new)
  PROVE  Ordered(all, n + Len(new)) = Ordered(rows, n) \o ShownRows(new)
<1> SUFFICES ASSUME n \in Nat, Numbered(rows, n), Numbered(all, n + Len(new)),
                    rows \subseteq all
             PROVE  Ordered(all, n + Len(new)) = Ordered(rows, n) \o ShownRows(new)
  BY DEF FollowIn
<1> DEFINE k == Len(new)
<1>0. k \in Nat /\ \A i \in 1..k : new[i] \in all /\ new[i].position = n + i - 1
  BY DEF FollowIn
<1> HIDE DEF k
<1>1. n + k \in Nat
  BY <1>0
<1>2. \A i \in 1..n : NthRow(all, i) = NthRow(rows, i)
  <2> SUFFICES ASSUME NEW i \in 1..n PROVE NthRow(all, i) = NthRow(rows, i)
    OBVIOUS
  <2>1. NthRow(rows, i) \in all /\ NthRow(rows, i).position = i - 1
    BY NthRowPosition
  <2>2. i \in 1..(n + k)
    BY <1>0
  <2> QED
    BY <1>1, <2>1, <2>2, NthRowIs DEF k
<1>3. \A i \in 1..k : NthRow(all, n + i) = new[i]
  <2> SUFFICES ASSUME NEW i \in 1..k PROVE NthRow(all, n + i) = new[i]
    OBVIOUS
  <2>1. new[i] \in all /\ new[i].position = (n + i) - 1
    BY <1>0
  <2>2. n + i \in 1..(n + k)
    BY <1>0
  <2> QED
    BY <1>1, <2>1, <2>2, NthRowIs DEF k
<1> DEFINE S == {Shown(row) : row \in all}
           first == [i \in 1..n |-> Shown(NthRow(rows, i))]
           second == [i \in 1..k |-> Shown(new[i])]
           whole == [i \in 1..(n + k) |-> Shown(NthRow(all, i))]
<1>4. /\ \A i \in 1..n : NthRow(rows, i) \in all
      /\ \A i \in 1..(n + k) : NthRow(all, i) \in all
  BY <1>1, NthRowPosition DEF k
<1>5. first \in Seq(S) /\ Len(first) = n /\ \A i \in 1..n : first[i] = Shown(NthRow(rows, i))
  BY <1>4
<1>6. second \in Seq(S) /\ Len(second) = k /\ \A i \in 1..k : second[i] = Shown(new[i])
  BY <1>0 DEF k
<1>7. whole \in Seq(S) /\ Len(whole) = n + k
      /\ \A i \in 1..(n + k) : whole[i] = Shown(NthRow(all, i))
  BY <1>1, <1>4
<1>8. Ordered(rows, n) = first /\ Ordered(all, n + k) = whole
  BY DEF Ordered, Shown
<1> HIDE DEF S, first, second, whole
<1>9. \A i \in 1..n : whole[i] = first[i]
  <2> SUFFICES ASSUME NEW i \in 1..n PROVE whole[i] = first[i]
    OBVIOUS
  <2>1. i \in 1..(n + k)
    BY <1>0
  <2> QED
    BY <1>2, <1>5, <1>7, <2>1
<1>10. \A i \in 1..k : whole[n + i] = second[i]
  <2> SUFFICES ASSUME NEW i \in 1..k PROVE whole[n + i] = second[i]
    OBVIOUS
  <2>1. n + i \in 1..(n + k)
    BY <1>0
  <2> QED
    BY <1>3, <1>6, <1>7, <2>1
<1>11. whole = first \o second
  BY <1>5, <1>6, <1>7, <1>9, <1>10, ConcatIs
<1> QED
  BY <1>8, <1>11 DEF second, ShownRows, k

\* What a committed call leaves of the histories.
LEMMA HistoriesAfter ==
  ASSUME NEW d, Sound(d), NEW call \in Rows!Call, Rows!Accepts(d, call)
  PROVE  LET new == NewRows(d, call)
             e == After(d, call, Len(new))
             kept == Rows!HistoryOf(d, Owner(call))
         IN  /\ \A s \in Session \ {Owner(call)} : Rows!HistoryOf(e, s) = Rows!HistoryOf(d, s)
             /\ Rows!HistoryOf(e, Owner(call)) = kept \o ShownRows(new)
<1> DEFINE new == NewRows(d, call)
           k == Len(new)
           e == After(d, call, k)
           s == Owner(call)
           rows == Rows!RowsOf(d, s)
           all == Rows!RowsOf(e, s)
           n == Cardinality(rows)
<1>1. /\ new \in Seq(Rows!Row) /\ s \in Session
      /\ \A i \in 1..k : new[i].session = s /\ new[i].position = n + i - 1
  BY NewRowsFollow
<1>2. n \in Nat /\ k \in Nat /\ n + k \in Nat /\ Numbered(rows, n)
  BY <1>1, SoundCounts
<1>3. /\ Numbered(all, n + k)
      /\ \A t \in Session \ {s} : Rows!RowsOf(e, t) = Rows!RowsOf(d, t)
  BY <1>1, <1>2, ImageRows
<1>4. \A t \in Session \ {s} : Rows!HistoryOf(e, t) = Rows!HistoryOf(d, t)
  BY <1>3, SameRowsSameHistory
<1>5. rows \subseteq all /\ \A i \in 1..k : new[i] \in all
  BY <1>1 DEF After, Rows!RowsOf
<1>6. Rows!HistoryOf(d, s) = Ordered(rows, n)
  BY <1>2, HistoryIsOrdered
<1>7. Rows!HistoryOf(e, s) = Ordered(all, n + k)
  <2> HIDE DEF e, n, k
  <2> QED
    BY <1>2, <1>3, HistoryIsOrdered
<1> HIDE DEF new, e, s, rows, all, n, k
<1>8. Ordered(all, n + k) = Ordered(rows, n) \o ShownRows(new)
  <2>1. FollowIn(rows, all, n, new)
    BY <1>1, <1>2, <1>3, <1>5 DEF k, FollowIn
  <2>2. Ordered(all, n + Len(new)) = Ordered(rows, n) \o ShownRows(new)
    BY <2>1, OrderedAppend
  <2> QED
    BY <2>2 DEF k
<1> QED
  BY <1>4, <1>6, <1>7, <1>8 DEF new, e, s, k


Histories(d) == [s \in Session |-> Rows!HistoryOf(d, s)]

\* A call that inserts no row leaves every history.
LEMMA NoRowsNoChange ==
  ASSUME NEW d, NEW call, NewRows(d, call) = <<>>
  PROVE  Histories(After(d, call, Len(NewRows(d, call)))) = Histories(d)
<1> DEFINE e == After(d, call, Len(NewRows(d, call)))
<1>1. e.rows = d.rows
  <2>1. {NewRows(d, call)[i] : i \in 1..Len(NewRows(d, call))} = {}
    OBVIOUS
  <2>2. d.rows \cup {NewRows(d, call)[i] : i \in 1..Len(NewRows(d, call))} = d.rows
    BY <2>1
  <2> QED
    BY <2>2 DEF After
<1>2. \A s \in Session : Rows!RowsOf(e, s) = Rows!RowsOf(d, s)
  BY <1>1 DEF Rows!RowsOf
<1> HIDE DEF e
<1>3. \A s \in Session : Rows!HistoryOf(e, s) = Rows!HistoryOf(d, s)
  BY <1>2, SameRowsSameHistory
<1> QED
  BY <1>3 DEF Histories, e

\* finish_run appends its delta, each item under the run's id.
LEMMA FinishAppends ==
  ASSUME NEW d, Sound(d), NEW call \in Rows!Call, Rows!Accepts(d, call),
         call.op = "finish_run"
  PROVE  Histories(After(d, call, Len(NewRows(d, call)))) =
            [Histories(d) EXCEPT ![call.session] = @ \o Rows!Contract!Entries(call.run, call.delta)]
<1> DEFINE e == After(d, call, Len(NewRows(d, call)))
<1>1. Owner(call) = call.session /\ call.session \in Session /\ call.delta \in Seq(Item)
  BY CallCases, SharedDatabaseAssumption DEF Owner, Rows!SqliteAssumption
<1>2. ShownRows(NewRows(d, call)) = Rows!Contract!Entries(call.run, call.delta)
  <2>1. NewRows(d, call) =
          [k \in 1..Len(call.delta) |->
             [session |-> call.session, run |-> call.run, item |-> call.delta[k],
              position |-> Rows!NextHistoryPosition(d, call.session) + k - 1]]
    BY <1>1 DEF NewRows, Rows!DeltaRows
  <2>2. Len(NewRows(d, call)) = Len(call.delta)
    BY <1>1, <2>1
  <2>3. \A k \in 1..Len(call.delta) :
            Shown(NewRows(d, call)[k]) = [run |-> call.run, item |-> call.delta[k]]
    BY <2>1 DEF Shown
  <2>4. Rows!Contract!Entries(call.run, call.delta) =
            [k \in 1..Len(call.delta) |-> [run |-> call.run, item |-> call.delta[k]]]
    BY <1>1 DEF Rows!Contract!Entries
  <2> QED
    BY <2>2, <2>3, <2>4 DEF ShownRows
<1>3. /\ \A s \in Session \ {call.session} : Rows!HistoryOf(e, s) = Rows!HistoryOf(d, s)
      /\ Rows!HistoryOf(e, call.session) =
            Rows!HistoryOf(d, call.session) \o Rows!Contract!Entries(call.run, call.delta)
  BY <1>1, <1>2, HistoriesAfter
<1> HIDE DEF e
<1> QED
  BY <1>1, <1>3 DEF Histories, e

\* fork_session copies the source's history to a session that had none.
LEMMA ForkCopies ==
  ASSUME NEW d, Sound(d), NEW call \in Rows!Call, Rows!Accepts(d, call),
         call.op = "fork_session"
  PROVE  Histories(After(d, call, Len(NewRows(d, call)))) =
            [Histories(d) EXCEPT ![call.target] = Rows!HistoryOf(d, call.session)]
<1> DEFINE e == After(d, call, Len(NewRows(d, call)))
           rows == Rows!RowsOf(d, call.session)
           n == Cardinality(rows)
           S == {Shown(row) : row \in rows}
<1>1. /\ Owner(call) = call.target /\ call.session \in Session /\ call.target \in Session
      /\ call.target \notin d.sessions
  BY CallCases DEF Owner, Rows!Accepts
<1>2. n \in Nat /\ Numbered(rows, n)
  BY <1>1, SoundCounts
<1>3. NewRows(d, call) = [k \in 1..n |-> [NthRow(rows, k) EXCEPT !.session = call.target]]
  <2>1. NewRows(d, call) = Rows!CopiedRows(d, call.session, call.target)
    BY DEF NewRows
  <2>2. Rows!CopiedRows(d, call.session, call.target) =
            [k \in 1..n |-> [NthRow(rows, k) EXCEPT !.session = call.target]]
    BY DEF Rows!CopiedRows, NthRow, Cardinality, Rows!Cardinality
  <2> QED
    BY <2>1, <2>2
<1>4. Rows!HistoryOf(d, call.session) = Ordered(rows, n)
  BY <1>2, HistoryIsOrdered
<1>5. \A k \in 1..n : NthRow(rows, k) \in rows
  BY <1>2, NthRowPosition
<1>6. rows \subseteq Rows!Row
  BY DEF Rows!RowsOf, Sound, Rows!Database
<1> HIDE DEF n
<1>7. \A k \in 1..n : Shown(NewRows(d, call)[k]) = Shown(NthRow(rows, k))
  <2> SUFFICES ASSUME NEW k \in 1..n
               PROVE  Shown(NewRows(d, call)[k]) = Shown(NthRow(rows, k))
    OBVIOUS
  <2>1. NthRow(rows, k) \in Rows!Row
    BY <1>5, <1>6
  <2>2. NewRows(d, call)[k] = [NthRow(rows, k) EXCEPT !.session = call.target]
    BY <1>3
  <2> HIDE DEF rows
  <2> QED
    BY <2>1, <2>2 DEF Shown, Rows!Row
<1>8. Len(NewRows(d, call)) = n
  BY <1>2, <1>3
<1>9. ShownRows(NewRows(d, call)) = Rows!HistoryOf(d, call.session)
  BY <1>4, <1>7, <1>8 DEF ShownRows, Ordered, Shown
<1>10. Rows!HistoryOf(d, call.session) \in Seq(S)
  BY <1>2, <1>4, <1>5 DEF Ordered, Shown
<1>11. Rows!HistoryOf(d, call.target) = <<>>
  <2>1. Rows!RowsOf(d, call.target) = {}
    BY <1>1 DEF Rows!RowsOf, Sound
  <2>2. Numbered(Rows!RowsOf(d, call.target), 0)
    BY <2>1 DEF Numbered
  <2>3. Rows!HistoryOf(d, call.target) = Ordered(Rows!RowsOf(d, call.target), 0)
    BY <2>2, HistoryIsOrdered
  <2> QED
    BY <2>3 DEF Ordered
<1>12. /\ \A s \in Session \ {call.target} : Rows!HistoryOf(e, s) = Rows!HistoryOf(d, s)
       /\ Rows!HistoryOf(e, call.target) = <<>> \o Rows!HistoryOf(d, call.session)
  BY <1>1, <1>9, <1>11, HistoriesAfter
<1> HIDE DEF e, S
<1>13. Rows!HistoryOf(e, call.target) = Rows!HistoryOf(d, call.session)
  BY <1>10, <1>12, ConcatEmptySeq
<1> QED
  BY <1>1, <1>12, <1>13 DEF Histories, e

\* What a commit publishes is one action of Store, or nothing: abort_active_run
\* without an active run.
LEMMA CommitIsOneAction ==
  ASSUME CallInv, NEW p \in Opener, Rows!Commit(p)
  PROVE  [Rows!Contract!Next]_(Rows!Contract!storeVars)
<1> DEFINE call == txn[p].call
           e == After(db, call, Len(NewRows(db, call)))
<1>1. /\ call \in Rows!Call /\ Rows!Accepts(db, call) /\ Sound(db)
      /\ rowImage[p] = db' /\ db' = e
  BY CommitPublishes DEF CallInv
<1>2. returned' = IF call.op = "start_run"
                  THEN [returned EXCEPT ![call.run] = Rows!HistoryOf(db', call.session)]
                  ELSE returned
  BY <1>1 DEF Rows!Commit
<1>3. db'.sessions = SessionsAfter(db, call) /\ db'.runs = RunsAfter(db, call)
  BY <1>1 DEF After
<1>4. db.runs \in [Run -> [session : Session \cup {NoSession},
                           status : {"absent", "active"} \cup Rows!TerminalStatus]]
  BY <1>1 DEF Sound, Rows!Database
<1>5. /\ Histories(db) = [s \in Session |-> Rows!HistoryOf(db, s)]
      /\ Histories(db)' = [s \in Session |-> Rows!HistoryOf(db', s)]
  BY DEF Histories
<1>6. NewRows(db, call) = <<>> => Histories(db)' = Histories(db)
  BY <1>1, NoRowsNoChange DEF Histories
<1> HIDE DEF e
<1>7. CASE call.op = "create_session"
  <2>1. /\ call.session \in Session /\ call.session \notin db.sessions
        /\ db'.sessions = db.sessions \cup {call.session} /\ db'.runs = db.runs
        /\ returned' = returned /\ NewRows(db, call) = <<>>
    BY <1>1, <1>2, <1>3, <1>7, CallCases DEF Rows!Accepts, SessionsAfter, RunsAfter, NewRows
  <2>2. Rows!Contract!CreateSession(call.session)
    BY <1>5, <1>6, <2>1 DEF Rows!Contract!CreateSession
  <2> QED
    BY <2>1, <2>2 DEF Rows!Contract!Next
<1>8. CASE call.op = "start_run"
  <2>1. /\ call.session \in Session /\ call.run \in Run /\ call.session \in db.sessions
        /\ Rows!ActiveRuns(db, call.session) = {} /\ db.runs[call.run].status = "absent"
        /\ db'.sessions = db.sessions
        /\ db'.runs = [db.runs EXCEPT ![call.run] =
                          [session |-> call.session, status |-> "active"]]
        /\ returned' = [returned EXCEPT ![call.run] = Rows!HistoryOf(db', call.session)]
        /\ NewRows(db, call) = <<>>
    BY <1>1, <1>2, <1>3, <1>8, CallCases DEF Rows!Accepts, SessionsAfter, RunsAfter, NewRows
  <2>2. Rows!HistoryOf(db', call.session) = [s \in Session |-> Rows!HistoryOf(db, s)][call.session]
    BY <1>5, <1>6, <2>1
  <2>3. ~Rows!Contract!HasActiveRun(call.session)
    BY <2>1 DEF Rows!Contract!HasActiveRun, Rows!Contract!IsActive, Rows!ActiveRuns
  <2>4. Rows!Contract!StartRun(call.session, call.run)
    BY <1>5, <1>6, <2>1, <2>2, <2>3 DEF Rows!Contract!StartRun
  <2> QED
    BY <2>1, <2>4 DEF Rows!Contract!Next
<1>9. CASE call.op = "finish_run"
  <2>1. /\ call.session \in Session /\ call.run \in Run
        /\ call.outcome \in Rows!TerminalStatus /\ call.delta \in Delta
        /\ db.runs[call.run].session = call.session /\ db.runs[call.run].status = "active"
        /\ db'.sessions = db.sessions
        /\ db'.runs = [db.runs EXCEPT ![call.run].status = call.outcome]
        /\ returned' = returned
    BY <1>1, <1>2, <1>3, <1>9, CallCases DEF Rows!Accepts, SessionsAfter, RunsAfter
  <2>2. Histories(db)' =
            [Histories(db) EXCEPT ![call.session] = @ \o Rows!Contract!Entries(call.run, call.delta)]
    <3>1. Histories(e) =
              [Histories(db) EXCEPT ![call.session] = @ \o Rows!Contract!Entries(call.run, call.delta)]
      BY <1>1, <1>9, FinishAppends DEF e
    <3>2. Histories(db)' = Histories(e)
      BY <1>1, <1>5 DEF Histories
    <3> QED
      BY <3>1, <3>2
  <2>3. Rows!Contract!FinishRun(call.session, call.run, call.outcome, call.delta)
    BY <1>5, <2>1, <2>2 DEF Rows!Contract!FinishRun, Rows!Contract!IsActive
  <2> QED
    BY <2>1, <2>3 DEF Rows!Contract!Next, Rows!Contract!FinishSomeRun,
                      Rows!TerminalStatus, Rows!Contract!TerminalStatus
<1>10. CASE call.op = "abort_active_run"
  <2> DEFINE active == Rows!ActiveRuns(db, call.session)
  <2>1. /\ call.session \in Session /\ call.session \in db.sessions
        /\ db'.sessions = db.sessions
        /\ db'.runs = [r \in Run |-> IF r \in active
                                     THEN [db.runs[r] EXCEPT !.status = "aborted"]
                                     ELSE db.runs[r]]
        /\ returned' = returned /\ NewRows(db, call) = <<>>
    BY <1>1, <1>2, <1>3, <1>10, CallCases DEF Rows!Accepts, SessionsAfter, RunsAfter, NewRows
  <2>2. CASE active = {}
    <3>1. db'.runs = db.runs
      BY <1>4, <2>1, <2>2
    <3> QED
      BY <1>5, <1>6, <2>1, <3>1 DEF Rows!Contract!storeVars
  <2>3. CASE active # {}
    <3>1. PICK r \in Run : r \in active /\ db.runs[r].session = call.session
                           /\ db.runs[r].status = "active"
      BY <2>3 DEF Rows!ActiveRuns
    <3>2. \A q \in Run : q \in active => q = r
      BY <1>1, <3>1 DEF Rows!ActiveRuns, Sound
    <3> HIDE DEF active
    <3>3. db'.runs = [db.runs EXCEPT ![r].status = "aborted"]
      BY <1>4, <2>1, <3>1, <3>2
    <3>4. Rows!Contract!AbortActiveRun(call.session)
      BY <1>5, <1>6, <2>1, <3>1, <3>3 DEF Rows!Contract!AbortActiveRun, Rows!Contract!IsActive
    <3> QED
      BY <2>1, <3>4 DEF Rows!Contract!Next
  <2> QED
    BY <2>2, <2>3
<1>11. CASE call.op = "fork_session"
  <2>1. /\ call.session \in Session /\ call.target \in Session
        /\ call.session \in db.sessions /\ call.target \notin db.sessions
        /\ db'.sessions = db.sessions \cup {call.target} /\ db'.runs = db.runs
        /\ returned' = returned
    BY <1>1, <1>2, <1>3, <1>11, CallCases DEF Rows!Accepts, SessionsAfter, RunsAfter
  <2>2. Histories(db)' =
            [Histories(db) EXCEPT ![call.target] = Rows!HistoryOf(db, call.session)]
    <3>1. Histories(e) =
              [Histories(db) EXCEPT ![call.target] = Rows!HistoryOf(db, call.session)]
      BY <1>1, <1>11, ForkCopies DEF e
    <3>2. Histories(db)' = Histories(e)
      BY <1>1, <1>5 DEF Histories
    <3> QED
      BY <3>1, <3>2
  <2>3. Rows!Contract!ForkSession(call.session, call.target)
    BY <1>5, <2>1, <2>2 DEF Rows!Contract!ForkSession
  <2> QED
    BY <2>1, <2>3 DEF Rows!Contract!Next
<1> QED
  BY <1>1, <1>7, <1>8, <1>9, <1>10, <1>11, CallCases

\* Every other step of a call, and every opening and closing, is a stutter.
LEMMA StepIsOneAction ==
  CallInv /\ [SharedNext]_sharedVars => [Rows!Contract!Next]_(Rows!Contract!storeVars)
<1> SUFFICES ASSUME CallInv, [SharedNext]_sharedVars
             PROVE  [Rows!Contract!Next]_(Rows!Contract!storeVars)
  OBVIOUS
<1>1. (UNCHANGED <<db, returned>>) => UNCHANGED Rows!Contract!storeVars
  BY DEF Rows!Contract!storeVars, Rows!HistoryOf, Rows!RowsOf
<1>2. CASE UNCHANGED sharedVars \/ OpenOrClose
  BY <1>1, <1>2 DEF sharedVars, OpenOrClose, rowVars
<1>3. ASSUME NEW p \in Opener, CallStore(p)
      PROVE  [Rows!Contract!Next]_(Rows!Contract!storeVars)
  <2>1. Rows!CallStep(p)
    BY <1>3 DEF CallStore
  <2>2. Rows!Commit(p) \/ UNCHANGED <<db, returned>>
    BY <2>1 DEF Rows!CallStep, Rows!Begin, Rows!WriteSession, Rows!WriteActiveRun,
                Rows!WriteFinishedRun, Rows!WriteAbortedRun, Rows!WriteFork, Rows!Write,
                Rows!InsertRow, Rows!Rollback
  <2> QED
    BY <1>1, <2>2, CommitIsOneAction
<1> QED
  BY <1>2, <1>3 DEF SharedNext

\* An empty database is the empty store.
LEMMA InitIsInit == SharedInit => Rows!Contract!Init
<1> SUFFICES ASSUME SharedInit PROVE Rows!Contract!Init
  OBVIOUS
<1>1. db = Rows!EmptyDatabase /\ returned = [r \in Run |-> <<>>]
  BY DEF SharedInit, Rows!Init
<1>2. \A s \in Session : Rows!HistoryOf(db, s) = <<>>
  <2> SUFFICES ASSUME NEW s \in Session PROVE Rows!HistoryOf(db, s) = <<>>
    OBVIOUS
  <2>1. Rows!RowsOf(db, s) = {}
    BY <1>1 DEF Rows!EmptyDatabase, Rows!RowsOf
  <2>2. Numbered(Rows!RowsOf(db, s), 0)
    BY <2>1 DEF Numbered
  <2>3. Rows!HistoryOf(db, s) = Ordered(Rows!RowsOf(db, s), 0)
    BY <2>2, HistoryIsOrdered
  <2> QED
    BY <2>3 DEF Ordered
<1> QED
  BY <1>1, <1>2 DEF Rows!Contract!Init, Rows!EmptyDatabase

\* Read through the committed tables, processes that open, close and crash
\* while others call the store are a behaviour of Store: each call takes
\* effect at its COMMIT, whole, or never.
THEOREM CallsImplementStore == SharedSpec => ImplementsStore
<1> QED
  BY InitIsInit, StepIsOneAction, CallsAreAtomic, PTL
     DEF SharedSpec, ImplementsStore, Rows!ImplementsStore, Rows!Contract!Spec

=============================================================================
