---------------------------- MODULE SharedDatabase ----------------------------
(***************************************************************************)
(* One database file and the processes that share it.  A process opens the *)
(* file (SchemaInit), makes the calls of the store while it has it open    *)
(* (SqliteStore) and closes it; others may be opening the file meanwhile.  *)
(* Both kinds of transaction take the same write lock.                     *)
(***************************************************************************)
EXTENDS SchemaInit

CONSTANTS
    Session, Run, Item, Delta, NoSession    \* as in Store

VARIABLES
    db, txn, returned, told,    \* as in SqliteStore
    rowImage                    \* its image

Rows == INSTANCE SqliteStore WITH
    Conn <- Opener, NoConn <- None, image <- rowImage

ASSUME SharedDatabaseAssumption == Rows!SqliteAssumption

rowVars == <<db, txn, returned, told, rowImage>>
sharedVars == <<vars, rowVars>>

SharedInit == Init /\ Rows!Init

OpenOrClose ==
    /\ (\E p \in Opener : Construct(p)) \/ CreateForeignTable
    /\ UNCHANGED rowVars

CallStore(p) ==
    /\ pc[p] = "open"
    /\ Rows!CallStep(p)
    /\ UNCHANGED <<file, image, pc>>

SharedNext == OpenOrClose \/ \E p \in Opener : CallStore(p)

SharedSpec == SharedInit /\ [][SharedNext]_sharedVars

-----------------------------------------------------------------------------
\* The calls of a store do not disturb those who open the file: to these they
\* are transactions of somebody who takes the lock.
OpenersAreUndisturbed == Spec

\* MAX(position) + 1 and copied positions keep every session's committed rows
\* numbered 0, 1, ..., n - 1 without a gap or a repeat.
PositionsAreContiguous == Rows!PositionsAreContiguous

\* The UNIQUE and FOREIGN KEY constraints are a second line: no row a method
\* computes is ever turned down by them.
ConstraintsNeverFire == Rows!ConstraintsNeverFire

\* Of all the callers that race to end a run, one is given a terminal record,
\* and what that record says stays what the database says.
OneCallerEndsARun == Rows!OneCallerEndsARun

\* Through all openings and closings of the file, what its committed tables
\* say is a behaviour of Store ("Implementations must make each mutating
\* method atomic", base.py 77-78).
ImplementsStore == Rows!ImplementsStore

=============================================================================
