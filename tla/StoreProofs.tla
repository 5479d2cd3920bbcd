---------------------------- MODULE StoreProofs ----------------------------
(* Proofs, for every set of sessions, runs, items and deltas, of what        *)
(* Store's invariants and action properties say.                             *)
EXTENDS Store, TLAPS

\* A run row's session_id references a sessions row (the foreign key), so a
\* session that does not exist yet owns no run.
RunsHaveSessions ==
    \A r \in Run : runs[r].status # "absent" => runs[r].session \in sessions

\* The inductive invariant.  SnapshotIsCurrent needs OneActiveRun (another
\* run's finish must not extend the session) and RunsHaveSessions (a fork must
\* not write below an active run); WholeTurns needs OnlyEndedRunsInHistory (the
\* finishing run has no rows anywhere before it finishes).
IInv ==
    /\ TypeOK
    /\ RunsHaveSessions
    /\ OneActiveRun
    /\ SnapshotIsCurrent
    /\ OnlyEndedRunsInHistory
    /\ WholeTurns

USE StoreAssumption

\* Turning a delta into rows keeps its length, and every row names the run.
LEMMA EntriesShape ==
    ASSUME NEW r \in Run, NEW delta \in Delta
    PROVE  /\ Entries(r, delta) \in Seq(Entry)
           /\ Len(Entries(r, delta)) = Len(delta)
           /\ \A k \in 1 .. Len(delta) : Entries(r, delta)[k].run = r
  <1>1. delta \in Seq(Item)
    OBVIOUS
  <1>2. DOMAIN delta = 1 .. Len(delta) /\ Len(delta) \in Nat
    BY <1>1
  <1>3. \A k \in 1 .. Len(delta) : delta[k] \in Item
    BY <1>1
  <1>4. Entries(r, delta) \in [1 .. Len(delta) -> Entry]
    BY <1>2, <1>3 DEF Entries, Entry
  <1> QED
    BY <1>2, <1>4 DEF Entries

\* Appending a run's rows to a history keeps the old rows where they are and
\* puts rows of that run, and only of it, after them.
LEMMA AppendShape ==
    ASSUME NEW h \in Seq(Entry), NEW r \in Run, NEW delta \in Delta
    PROVE  LET g == h \o Entries(r, delta)
           IN  /\ g \in Seq(Entry)
               /\ DOMAIN h = 1 .. Len(h)
               /\ DOMAIN g = 1 .. Len(g)
               /\ Len(g) = Len(h) + Len(delta)
               /\ \A i \in DOMAIN h : i \in DOMAIN g /\ g[i] = h[i]
               /\ \A i \in DOMAIN g \ DOMAIN h : g[i].run = r
  <1> DEFINE g == h \o Entries(r, delta)
  <1>1. /\ Entries(r, delta) \in Seq(Entry)
        /\ Len(Entries(r, delta)) = Len(delta)
        /\ \A k \in 1 .. Len(delta) : Entries(r, delta)[k].run = r
    BY EntriesShape
  <1>2. g \in Seq(Entry) /\ Len(g) = Len(h) + Len(delta) /\ Len(delta) \in Nat
    BY <1>1
  <1>3. DOMAIN h = 1 .. Len(h) /\ DOMAIN g = 1 .. Len(g)
    BY <1>2
  <1>4. \A i \in 1 .. Len(h) : g[i] = h[i]
    BY <1>1
  <1>5. \A i \in 1 .. Len(g) : i > Len(h) => g[i] = Entries(r, delta)[i - Len(h)]
    BY <1>1
  <1> QED
    BY <1>1, <1>2, <1>3, <1>4, <1>5

\* A committed row is a row: it sits at a position of its history and names a
\* run.
LEMMA RowShape ==
    ASSUME TypeOK, NEW s \in Session
    PROVE  /\ history[s] \in Seq(Entry)
           /\ DOMAIN history[s] = 1 .. Len(history[s])
           /\ Len(history[s]) \in Nat
           /\ \A i \in DOMAIN history[s] :
                  history[s][i] \in Entry /\ history[s][i].run \in Run
  <1>1. history[s] \in Seq(Entry)
    BY DEF TypeOK
  <1>2. \A i \in DOMAIN history[s] : history[s][i] \in Entry
    BY <1>1
  <1> QED
    BY <1>1, <1>2 DEF Entry

LEMMA InitEstablishes == Init => IInv
  BY DEF Init, IInv, TypeOK, RunsHaveSessions, OneActiveRun, SnapshotIsCurrent,
         OnlyEndedRunsInHistory, WholeTurns, IsActive, IsTerminal, RunRecord,
         Status, TerminalStatus

LEMMA CreateSessionPreserves ==
    ASSUME IInv, NEW s \in Session, CreateSession(s)
    PROVE  IInv'
  BY DEF CreateSession, IInv, TypeOK, RunsHaveSessions, OneActiveRun,
         SnapshotIsCurrent, OnlyEndedRunsInHistory, WholeTurns, IsActive, IsTerminal

LEMMA StartRunPreserves ==
    ASSUME IInv, NEW s \in Session, NEW r \in Run, StartRun(s, r)
    PROVE  IInv'
  <1> USE DEF IInv, StartRun
  <1>1. TypeOK'
    BY DEF TypeOK, RunRecord, Status
  <1>2. \A q \in Run \ {r} : runs'[q] = runs[q] /\ snapshot'[q] = snapshot[q]
    BY DEF TypeOK
  <1>3. runs'[r] = [session |-> s, status |-> "active"] /\ snapshot'[r] = history[s]
    BY DEF TypeOK
  <1>4. RunsHaveSessions'
    BY <1>2, <1>3 DEF RunsHaveSessions
  <1>5. OneActiveRun'
    BY <1>2, <1>3 DEF OneActiveRun, HasActiveRun, IsActive
  <1>6. SnapshotIsCurrent'
    BY <1>2, <1>3 DEF SnapshotIsCurrent, IsActive
  <1>7. OnlyEndedRunsInHistory'
    <2>1. ~IsTerminal(r)
      BY DEF IsTerminal, TerminalStatus
    <2>2. \A t \in Session : \A i \in DOMAIN history[t] :
              history[t][i].run \in Run \ {r}
      BY <2>1, RowShape DEF OnlyEndedRunsInHistory
    <2> QED
      BY <1>2, <2>2 DEF OnlyEndedRunsInHistory, IsTerminal
  <1>8. WholeTurns'
    BY DEF WholeTurns
  <1> QED
    BY <1>1, <1>4, <1>5, <1>6, <1>7, <1>8

LEMMA FinishRunPreserves ==
    ASSUME IInv, NEW s \in Session, NEW r \in Run,
           NEW outcome \in TerminalStatus, NEW delta \in Delta,
           FinishRun(s, r, outcome, delta)
    PROVE  IInv'
  <1> USE DEF IInv, FinishRun
  <1> DEFINE h == history[s]
             g == history[s] \o Entries(r, delta)
  <1>1. /\ h \in Seq(Entry)
        /\ s \in sessions
    BY RowShape DEF RunsHaveSessions, IsActive
  <1>2. /\ g \in Seq(Entry)
        /\ \A i \in DOMAIN h : i \in DOMAIN g /\ g[i] = h[i]
        /\ \A i \in DOMAIN g \ DOMAIN h : g[i].run = r
    BY <1>1, AppendShape
  <1> HIDE DEF g
  <1>3. history' = [history EXCEPT ![s] = g]
    BY DEF g
  <1>4. /\ \A t \in Session \ {s} : history'[t] = history[t]
        /\ history'[s] = g
    BY <1>3 DEF TypeOK
  <1>5. /\ \A q \in Run \ {r} : runs'[q] = runs[q]
        /\ runs'[r] = [session |-> s, status |-> outcome]
    BY DEF TypeOK, RunRecord
  <1>6. TypeOK'
    <2>1. runs' \in [Run -> RunRecord]
      BY DEF TypeOK, RunRecord, Status
    <2>2. history' \in [Session -> Seq(Entry)]
      BY <1>2, <1>3 DEF TypeOK
    <2> QED
      BY <2>1, <2>2 DEF TypeOK
  <1>7. RunsHaveSessions'
    BY <1>1, <1>5 DEF RunsHaveSessions
  <1>8. ~IsActive(r)'
    BY <1>5 DEF IsActive, TerminalStatus
  <1>9. OneActiveRun'
    BY <1>5, <1>8 DEF OneActiveRun, IsActive
  <1>10. SnapshotIsCurrent'
    <2> SUFFICES ASSUME NEW q \in Run, IsActive(q)'
                 PROVE  history'[runs'[q].session] = snapshot'[q]
      BY DEF SnapshotIsCurrent
    <2>1. q # r /\ IsActive(q) /\ runs'[q] = runs[q]
      BY <1>5, <1>8 DEF IsActive
    <2>2. runs[q].session # s
      BY <2>1 DEF OneActiveRun
    <2>3. runs[q].session \in Session
      BY <2>1 DEF RunsHaveSessions, TypeOK, IsActive
    <2> QED
      BY <1>4, <2>1, <2>2, <2>3 DEF SnapshotIsCurrent
  <1>11. OnlyEndedRunsInHistory'
    <2> SUFFICES ASSUME NEW t \in Session, NEW i \in DOMAIN history'[t]
                 PROVE  runs'[history'[t][i].run].status \in TerminalStatus
      BY DEF OnlyEndedRunsInHistory, IsTerminal
    <2>1. runs'[r].status \in TerminalStatus
      BY <1>5
    <2>2. CASE t = s /\ i \notin DOMAIN h
      <3>1. history'[t][i].run = r
        BY <1>2, <1>4, <2>2
      <3> QED
        BY <2>1, <3>1
    <2>3. CASE t # s \/ i \in DOMAIN h
      <3>1. i \in DOMAIN history[t] /\ history'[t][i] = history[t][i]
        BY <1>2, <1>4, <2>3
      <3>2. /\ history[t][i].run \in Run
            /\ runs[history[t][i].run].status \in TerminalStatus
        BY <3>1, RowShape DEF OnlyEndedRunsInHistory, IsTerminal
      <3> QED
        BY <1>5, <2>1, <3>1, <3>2
    <2> QED
      BY <2>2, <2>3
  <1>12. WholeTurns'
    \* The finishing run has no rows yet, so old rows agree with old rows and
    \* new rows meet only themselves.
    <2>1. \A t \in Session : \A i \in DOMAIN history[t] : history[t][i].run # r
      BY DEF OnlyEndedRunsInHistory, IsTerminal, IsActive, TerminalStatus
    <2> SUFFICES ASSUME NEW t \in Session, NEW u \in Session,
                        NEW i \in DOMAIN history'[t], NEW j \in DOMAIN history'[u],
                        history'[t][i].run = history'[u][j].run
                 PROVE  i \in DOMAIN history'[u] /\ history'[u][i] = history'[t][i]
      BY DEF WholeTurns
    <2>2. CASE t = u
      BY <2>2
    <2>3. CASE t # u
      <3>1. i \in DOMAIN history[t] /\ history'[t][i] = history[t][i]
        <4>1. CASE t = s /\ i \notin DOMAIN h
          <5>1. history'[u] = history[u] /\ history'[t][i].run = r
            BY <1>2, <1>4, <2>3, <4>1
          <5> QED
            BY <2>1, <5>1
        <4>2. CASE t # s \/ i \in DOMAIN h
          BY <1>2, <1>4, <4>2
        <4> QED
          BY <4>1, <4>2
      <3>2. j \in DOMAIN history[u] /\ history'[u][j] = history[u][j]
        <4>1. CASE u = s /\ j \notin DOMAIN h
          <5>1. history'[t] = history[t] /\ history'[u][j].run = r
            BY <1>2, <1>4, <2>3, <4>1
          <5> QED
            BY <2>1, <5>1
        <4>2. CASE u # s \/ j \in DOMAIN h
          BY <1>2, <1>4, <4>2
        <4> QED
          BY <4>1, <4>2
      <3>3. i \in DOMAIN history[u] /\ history[u][i] = history[t][i]
        BY <3>1, <3>2 DEF WholeTurns
      <3> QED
        BY <1>2, <1>4, <3>1, <3>3
    <2> QED
      BY <2>2, <2>3
  <1> QED
    BY <1>6, <1>7, <1>9, <1>10, <1>11, <1>12

LEMMA AbortActiveRunPreserves ==
    ASSUME IInv, NEW s \in Session, AbortActiveRun(s)
    PROVE  IInv'
  <1> USE DEF IInv
  <1>1. PICK r \in Run : /\ IsActive(r)
                         /\ runs[r].session = s
                         /\ runs' = [runs EXCEPT ![r].status = "aborted"]
    BY DEF AbortActiveRun
  <1>2. UNCHANGED <<sessions, history, snapshot>>
    BY DEF AbortActiveRun
  <1>3. /\ \A q \in Run \ {r} : runs'[q] = runs[q]
        /\ runs'[r] = [session |-> s, status |-> "aborted"]
    BY <1>1 DEF TypeOK, RunRecord
  <1>4. TypeOK'
    BY <1>1, <1>2 DEF TypeOK, RunRecord, Status, TerminalStatus
  <1>5. RunsHaveSessions'
    BY <1>1, <1>2, <1>3 DEF RunsHaveSessions, IsActive
  <1>6. OneActiveRun' /\ SnapshotIsCurrent'
    BY <1>2, <1>3 DEF OneActiveRun, SnapshotIsCurrent, IsActive
  <1>7. \A q \in Run : IsTerminal(q) => IsTerminal(q)'
    BY <1>3 DEF IsTerminal, TerminalStatus
  <1>8. OnlyEndedRunsInHistory'
    BY <1>2, <1>7, RowShape DEF OnlyEndedRunsInHistory
  <1>9. WholeTurns'
    BY <1>2 DEF WholeTurns
  <1> QED
    BY <1>4, <1>5, <1>6, <1>8, <1>9

LEMMA ForkSessionPreserves ==
    ASSUME IInv, NEW source \in Session, NEW target \in Session,
           ForkSession(source, target)
    PROVE  IInv'
  <1> USE DEF IInv, ForkSession
  <1>1. /\ \A t \in Session \ {target} : history'[t] = history[t]
        /\ history'[target] = history[source]
    BY DEF TypeOK
  <1>2. TypeOK' /\ RunsHaveSessions' /\ OneActiveRun'
    BY DEF TypeOK, RunsHaveSessions, OneActiveRun, IsActive
  <1>3. SnapshotIsCurrent'
    <2>1. \A r \in Run : IsActive(r) => runs[r].session \in Session \ {target}
      BY DEF RunsHaveSessions, TypeOK, IsActive
    <2> QED
      BY <1>1, <2>1 DEF SnapshotIsCurrent, IsActive
  <1>4. OnlyEndedRunsInHistory'
    BY <1>1 DEF OnlyEndedRunsInHistory, IsTerminal
  <1>5. WholeTurns'
    <2> SUFFICES ASSUME NEW t \in Session, NEW u \in Session,
                        NEW i \in DOMAIN history'[t], NEW j \in DOMAIN history'[u],
                        history'[t][i].run = history'[u][j].run
                 PROVE  i \in DOMAIN history'[u] /\ history'[u][i] = history'[t][i]
      BY DEF WholeTurns
    <2>1. PICK t0 \in Session : history'[t] = history[t0]
      BY <1>1
    <2>2. PICK u0 \in Session : history'[u] = history[u0]
      BY <1>1
    <2> QED
      BY <2>1, <2>2 DEF WholeTurns
  <1> QED
    BY <1>2, <1>3, <1>4, <1>5

LEMMA StepPreserves == IInv /\ [Next]_storeVars => IInv'
  <1> SUFFICES ASSUME IInv, [Next]_storeVars
               PROVE  IInv'
    OBVIOUS
  <1>1. CASE \E s \in Session : CreateSession(s) \/ AbortActiveRun(s)
    BY <1>1, CreateSessionPreserves, AbortActiveRunPreserves
  <1>2. CASE \E s \in Session, r \in Run : StartRun(s, r)
    BY <1>2, StartRunPreserves
  <1>3. CASE FinishSomeRun
    BY <1>3, FinishRunPreserves DEF FinishSomeRun
  <1>4. CASE \E source, target \in Session : ForkSession(source, target)
    BY <1>4, ForkSessionPreserves
  <1>5. CASE UNCHANGED storeVars
    BY <1>5 DEF storeVars, IInv, TypeOK, RunsHaveSessions, OneActiveRun,
                SnapshotIsCurrent, OnlyEndedRunsInHistory, WholeTurns,
                IsActive, IsTerminal
  <1> QED
    BY <1>1, <1>2, <1>3, <1>4, <1>5 DEF Next

\* Every reachable store satisfies the inductive invariant, whatever the
\* interleaving of the callers' operations.
THEOREM Inductive == Spec => []IInv
  <1>1. Init => IInv
    BY InitEstablishes
  <1>2. IInv /\ [Next]_storeVars => IInv'
    BY StepPreserves
  <1> QED
    BY <1>1, <1>2, PTL DEF Spec

\* The tables hold what their columns are declared to hold.
THEOREM TypeCorrect == Spec => []TypeOK
  <1>1. IInv => TypeOK
    BY DEF IInv
  <1> QED
    BY <1>1, Inductive, PTL

\* No two runs are ever active in one session (schema.py 203-207 states it as
\* an index; start_run's own check already keeps it).
THEOREM OneActiveRunPerSession == Spec => []OneActiveRun
  <1>1. IInv => OneActiveRun
    BY DEF IInv
  <1> QED
    BY <1>1, Inductive, PTL

\* The history a run was started with is its session's history until it ends.
THEOREM SnapshotNeverStale == Spec => []SnapshotIsCurrent
  <1>1. IInv => SnapshotIsCurrent
    BY DEF IInv
  <1> QED
    BY <1>1, Inductive, PTL

\* Committed rows belong to ended runs, and every session that carries any row
\* of a run carries the run's whole turn at the same positions.
THEOREM TurnsAreAtomic == Spec => [](OnlyEndedRunsInHistory /\ WholeTurns)
  <1>1. IInv => OnlyEndedRunsInHistory /\ WholeTurns
    BY DEF IInv
  <1> QED
    BY <1>1, Inductive, PTL

\* Ended-run fencing: no step changes a terminal record.
THEOREM Fencing == Spec => EndedRunsStayEnded
  <1>1. IInv /\ [Next]_storeVars
           => [\A r \in Run : IsTerminal(r) => runs'[r] = runs[r]]_storeVars
    <2> SUFFICES ASSUME IInv, [Next]_storeVars, NEW q \in Run, IsTerminal(q)
                 PROVE  runs'[q] = runs[q]
      OBVIOUS
    <2> USE DEF IInv, TypeOK, IsTerminal, IsActive, TerminalStatus
    <2>1. ASSUME NEW s \in Session, CreateSession(s)
          PROVE  runs'[q] = runs[q]
      BY <2>1 DEF CreateSession
    <2>2. ASSUME NEW s \in Session, AbortActiveRun(s)
          PROVE  runs'[q] = runs[q]
      BY <2>2 DEF AbortActiveRun
    <2>3. ASSUME NEW s \in Session, NEW r \in Run, StartRun(s, r)
          PROVE  runs'[q] = runs[q]
      BY <2>3 DEF StartRun
    <2>4. ASSUME FinishSomeRun
          PROVE  runs'[q] = runs[q]
      BY <2>4 DEF FinishSomeRun, FinishRun
    <2>5. ASSUME NEW source \in Session, NEW target \in Session,
                 ForkSession(source, target)
          PROVE  runs'[q] = runs[q]
      BY <2>5 DEF ForkSession
    <2>6. CASE UNCHANGED storeVars
      BY <2>6 DEF storeVars
    <2> QED
      BY <2>1, <2>2, <2>3, <2>4, <2>5, <2>6 DEF Next
  <1> QED
    BY <1>1, Inductive, PTL DEF Spec, EndedRunsStayEnded

\* An append of nothing changes nothing.
LEMMA EmptyAppend ==
    ASSUME NEW h \in Seq(Entry), NEW r \in Run, NEW delta \in Delta,
           h \o Entries(r, delta) # h
    PROVE  Len(delta) > 0
  <1>1. Len(delta) \in Nat
    OBVIOUS
  <1> SUFFICES ASSUME Len(delta) = 0
               PROVE  h \o Entries(r, delta) = h
    BY <1>1
  <1>2. Entries(r, delta) \in Seq(Entry) /\ Len(Entries(r, delta)) = 0
    BY EntriesShape
  <1> QED
    BY <1>2

\* Committed history is append-only, and only the end of the session's active
\* run appends: its own rows, after everything that was there.
THEOREM HistoryIsAppendOnly == Spec => HistoryGrowsByFinishOnly
  <1> DEFINE Grew(s) ==
               \E r \in Run :
                  /\ IsActive(r) /\ runs[r].session = s
                  /\ runs'[r].status \in TerminalStatus
                  /\ Len(history'[s]) > Len(history[s])
                  /\ \A i \in DOMAIN history[s] : history'[s][i] = history[s][i]
                  /\ \A i \in DOMAIN history'[s] \ DOMAIN history[s] :
                         history'[s][i].run = r
  <1>1. IInv /\ [Next]_storeVars
           => [\A s \in sessions : history'[s] # history[s] => Grew(s)]_storeVars
    <2> SUFFICES ASSUME IInv, [Next]_storeVars,
                        NEW s \in sessions, history'[s] # history[s]
                 PROVE  Grew(s)
      OBVIOUS
    <2> USE DEF IInv
    <2>1. s \in Session
      BY DEF TypeOK
    <2>2. PICK t \in Session, r \in Run, outcome \in TerminalStatus, delta \in Delta :
              FinishRun(t, r, outcome, delta)
      <3>1. CASE \E u \in Session : CreateSession(u) \/ AbortActiveRun(u)
        BY <3>1 DEF CreateSession, AbortActiveRun
      <3>2. CASE \E u \in Session, r \in Run : StartRun(u, r)
        BY <3>2 DEF StartRun
      <3>3. CASE \E source, target \in Session : ForkSession(source, target)
        BY <3>3 DEF ForkSession, TypeOK
      <3>4. CASE UNCHANGED storeVars
        BY <3>4 DEF storeVars
      <3> QED
        BY <3>1, <3>2, <3>3, <3>4 DEF Next, FinishSomeRun
    <2>3. t = s /\ history'[s] = history[s] \o Entries(r, delta)
      BY <2>1, <2>2 DEF FinishRun, TypeOK
    <2>4. history[s] \in Seq(Entry)
      BY <2>1 DEF TypeOK
    <2>5. /\ Len(history'[s]) = Len(history[s]) + Len(delta)
          /\ \A i \in DOMAIN history[s] : history'[s][i] = history[s][i]
          /\ \A i \in DOMAIN history'[s] \ DOMAIN history[s] : history'[s][i].run = r
      <3> DEFINE h == history[s]
                 g == history'[s]
      <3>1. h \in Seq(Entry) /\ g = h \o Entries(r, delta)
        BY <2>3, <2>4
      <3> HIDE DEF h, g
      <3>2. /\ Len(g) = Len(h) + Len(delta)
            /\ \A i \in DOMAIN h : g[i] = h[i]
            /\ \A i \in DOMAIN g \ DOMAIN h : g[i].run = r
        BY <3>1, AppendShape
      <3> QED
        BY <3>2 DEF h, g
    <2>6. Len(delta) > 0
      BY <2>3, <2>4, EmptyAppend
    <2>7. Len(history[s]) \in Nat /\ Len(delta) \in Nat
      BY <2>4
    <2>8. /\ IsActive(r) /\ runs[r].session = s
          /\ runs'[r].status \in TerminalStatus
      BY <2>2, <2>3 DEF FinishRun, TypeOK, RunRecord
    <2> QED
      BY <2>5, <2>6, <2>7, <2>8
  <1> QED
    BY <1>1, Inductive, PTL DEF Spec, HistoryGrowsByFinishOnly
=============================================================================
