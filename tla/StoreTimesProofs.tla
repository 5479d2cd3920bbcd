--------------------------- MODULE StoreTimesProofs ---------------------------
(* The stored times stay consistent whatever the wall clock does, for any     *)
(* number of sessions and runs and any clock.                                 *)
EXTENDS StoreTimes, TLAPS

RunRecord == [session : SUBSET Session, status : {"absent", "active", "ended"},
              started : Nat, ended : Nat]

TimesTyped ==
    /\ now \in Nat
    /\ created \in Seq(Session)
    /\ sessionRow \in [Session -> [created : Nat, updated : Nat]]
    /\ runRow \in [Run -> RunRecord]
    /\ turns \in [Session -> Seq([run : Run, at : Nat])]

\* The record of a run's session is never created anew under it.
RunsHaveSessions == \A r \in Run : \A s \in runRow[r].session : Exists(s)

\* The inductive invariant.
IInv == TimesTyped /\ RunsHaveSessions /\ ClockNeverBreaksRecords

\* The later of two times, as finish_run and _touch_session take it.
LEMMA LaterOfTwo ==
    ASSUME NEW a \in Nat, NEW b \in Nat
    PROVE  Max({a, b}) \in Nat /\ a <= Max({a, b}) /\ b <= Max({a, b})
<1>1. PICK m \in {a, b} : \A y \in {a, b} : m >= y
  BY SMT
<1>2. Max({a, b}) \in {a, b} /\ \A y \in {a, b} : Max({a, b}) >= y
  BY <1>1, Zenon DEF Max
<1>3. QED
  BY <1>2, SMT

LEMMA InitEstablishes == Init => IInv
  BY TimesAssumption
  DEF Init, Time, IInv, TimesTyped, RunRecord, RunsHaveSessions, ClockNeverBreaksRecords,
      RecordsCanBeReadBack, UpdatedAfterEveryRun, TurnsKeepTheirTime

LEMMA ClockPreserves ==
    ASSUME IInv, NEW t \in Time, SetClock(t)
    PROVE  IInv'
<1>1. now' \in Nat /\ UNCHANGED <<created, sessionRow, runRow, turns>>
  BY TimesAssumption DEF SetClock, Time
<1>2. TimesTyped'
  BY <1>1 DEF IInv, TimesTyped
<1>3. RunsHaveSessions'
  BY <1>1 DEF IInv, RunsHaveSessions, Exists
<1>4. ClockNeverBreaksRecords'
  BY <1>1 DEF IInv, ClockNeverBreaksRecords, RecordsCanBeReadBack, UpdatedAfterEveryRun,
              TurnsKeepTheirTime
<1>5. QED
  BY <1>2, <1>3, <1>4 DEF IInv

\* A new session has no run yet, and those there are stay.
LEMMA NewSessionPreserves ==
    ASSUME IInv, NEW s \in Session, NewSession(s), UNCHANGED <<now, runRow>>
    PROVE  /\ created' \in Seq(Session)
           /\ sessionRow' \in [Session -> [created : Nat, updated : Nat]]
           /\ RunsHaveSessions'
           /\ RecordsCanBeReadBack'
           /\ UpdatedAfterEveryRun'
<1>1. /\ created' = Append(created, s)
      /\ sessionRow' = [sessionRow EXCEPT ![s] = [created |-> now, updated |-> now]]
      /\ runRow' = runRow
      /\ ~Exists(s)
  BY DEF NewSession
<1>2. created' \in Seq(Session) /\ sessionRow' \in [Session -> [created : Nat, updated : Nat]]
  BY <1>1 DEF IInv, TimesTyped
<1>3. ASSUME NEW t, Exists(t) PROVE Exists(t)'
  <2>1. PICK i \in DOMAIN created : created[i] = t
    BY <1>3 DEF Exists
  <2>2. i \in DOMAIN created' /\ created'[i] = t
    BY <1>1, <2>1 DEF IInv, TimesTyped
  <2>3. QED
    BY <2>2 DEF Exists
<1>4. RunsHaveSessions'
  BY <1>1, <1>3 DEF IInv, RunsHaveSessions
<1>5. RecordsCanBeReadBack'
  BY <1>1 DEF IInv, TimesTyped, ClockNeverBreaksRecords, RecordsCanBeReadBack
<1>6. UpdatedAfterEveryRun'
  <2>1. ASSUME NEW r \in Run, NEW t \in runRow[r].session
        PROVE  t \in Session /\ sessionRow'[t] = sessionRow[t]
    BY <1>1, <2>1 DEF IInv, TimesTyped, RunRecord, RunsHaveSessions
  <2>2. QED
    BY <1>1, <2>1 DEF IInv, ClockNeverBreaksRecords, UpdatedAfterEveryRun
<1>7. QED
  BY <1>2, <1>4, <1>5, <1>6

LEMMA CreateSessionPreserves ==
    ASSUME IInv, NEW s \in Session, CreateSession(s)
    PROVE  IInv'
<1>1. UNCHANGED <<now, runRow, turns>> /\ NewSession(s)
  BY DEF CreateSession
<1>2. TurnsKeepTheirTime'
  BY <1>1 DEF IInv, ClockNeverBreaksRecords, TurnsKeepTheirTime
<1>3. QED
  BY <1>1, <1>2, NewSessionPreserves DEF IInv, TimesTyped, ClockNeverBreaksRecords

LEMMA StartRunPreserves ==
    ASSUME IInv, NEW s \in Session, NEW r \in Run, StartRun(s, r)
    PROVE  IInv'
<1>1. /\ runRow' = [runRow EXCEPT ![r] = [session |-> {s}, status |-> "active",
                                          started |-> now, ended |-> 0]]
      /\ runRow[r].status = "absent" /\ Exists(s)
      /\ UNCHANGED <<now, created, sessionRow, turns>>
  BY DEF StartRun
<1>2. TimesTyped'
  BY <1>1 DEF IInv, TimesTyped, RunRecord
<1>3. RunsHaveSessions'
  BY <1>1 DEF IInv, TimesTyped, RunsHaveSessions, Exists
<1>4. RecordsCanBeReadBack' /\ UpdatedAfterEveryRun'
  BY <1>1 DEF IInv, TimesTyped, RunRecord, ClockNeverBreaksRecords, RecordsCanBeReadBack,
              UpdatedAfterEveryRun
<1>5. TurnsKeepTheirTime'
  BY <1>1 DEF IInv, TimesTyped, ClockNeverBreaksRecords, TurnsKeepTheirTime
<1>6. QED
  BY <1>2, <1>3, <1>4, <1>5 DEF IInv, ClockNeverBreaksRecords

\* An entry of a sequence is one of its elements.
LEMMA EntryOfSeq ==
    ASSUME NEW S, NEW q \in Seq(S), NEW k \in DOMAIN q
    PROVE  q[k] \in S
  OBVIOUS

LEMMA EndRunPreserves ==
    ASSUME IInv, NEW s \in Session, NEW r \in Run, NEW keepsTurn \in BOOLEAN,
           EndRun(s, r, keepsTurn)
    PROVE  IInv'
<1> DEFINE end == EndTime(r)
<1>1. end \in Nat /\ runRow[r].started <= end
  BY LaterOfTwo DEF IInv, TimesTyped, RunRecord, EndTime
<1>2. /\ runRow[r].session = {s} /\ runRow[r].status = "active"
      /\ runRow' = [runRow EXCEPT ![r].status = "ended", ![r].ended = end]
      /\ sessionRow' = [sessionRow EXCEPT ![s].updated = Max({sessionRow[s].updated, end})]
      /\ turns' = IF keepsTurn THEN [turns EXCEPT ![s] = Append(@, [run |-> r, at |-> end])]
                  ELSE turns
      /\ UNCHANGED <<now, created>>
  BY DEF EndRun, Touch
<1> HIDE DEF end
<1> DEFINE updated == Max({sessionRow[s].updated, end})
<1>3. updated \in Nat /\ sessionRow[s].updated <= updated /\ end <= updated
  BY <1>1, LaterOfTwo DEF IInv, TimesTyped
<1>4. sessionRow' = [sessionRow EXCEPT ![s].updated = updated]
  BY <1>2
<1> HIDE DEF updated
<1>5. TimesTyped'
  <2>1. runRow' \in [Run -> RunRecord]
    BY <1>1, <1>2 DEF IInv, TimesTyped, RunRecord
  <2>2. sessionRow' \in [Session -> [created : Nat, updated : Nat]]
    BY <1>3, <1>4 DEF IInv, TimesTyped
  <2>3. turns' \in [Session -> Seq([run : Run, at : Nat])]
    BY <1>1, <1>2 DEF IInv, TimesTyped
  <2>4. QED
    BY <1>2, <2>1, <2>2, <2>3 DEF IInv, TimesTyped
<1>6. RunsHaveSessions'
  BY <1>2 DEF IInv, TimesTyped, RunRecord, RunsHaveSessions, Exists
<1>7. RecordsCanBeReadBack'
  <2>1. \A t \in Session : sessionRow'[t].created <= sessionRow'[t].updated
    BY <1>3, <1>4 DEF IInv, TimesTyped, ClockNeverBreaksRecords, RecordsCanBeReadBack
  <2>2. \A q \in Run : runRow'[q].status = "ended" => runRow'[q].started <= runRow'[q].ended
    BY <1>1, <1>2 DEF IInv, TimesTyped, RunRecord, ClockNeverBreaksRecords, RecordsCanBeReadBack
  <2>3. QED
    BY <2>1, <2>2 DEF RecordsCanBeReadBack
<1>8. UpdatedAfterEveryRun'
  <2>1. SUFFICES ASSUME NEW q \in Run, NEW t \in runRow'[q].session, runRow'[q].status = "ended"
                 PROVE  runRow'[q].ended <= sessionRow'[t].updated
    BY DEF UpdatedAfterEveryRun
  <2>2. /\ t \in Session /\ t \in runRow[q].session
        /\ sessionRow[t].updated \in Nat /\ sessionRow[t].updated <= sessionRow'[t].updated
        /\ sessionRow'[t].updated \in Nat
    BY <1>2, <1>3, <1>4 DEF IInv, TimesTyped, RunRecord
  <2>3. CASE q = r
    BY <1>1, <1>2, <1>3, <1>4, <2>3 DEF IInv, TimesTyped, RunRecord
  <2>4. CASE q # r
    <3>1. runRow'[q] = runRow[q] /\ runRow[q].ended \in Nat
      BY <1>2, <2>4 DEF IInv, TimesTyped, RunRecord
    <3>2. runRow[q].ended <= sessionRow[t].updated
      BY <2>1, <2>2, <3>1 DEF IInv, ClockNeverBreaksRecords, UpdatedAfterEveryRun
    <3>3. QED
      BY <2>2, <3>1, <3>2
  <2>5. QED
    BY <2>3, <2>4
<1>9. TurnsKeepTheirTime'
  <2>1. ASSUME NEW t \in Session, NEW i \in DOMAIN turns[t]
        PROVE  /\ turns[t][i].run \in Run \ {r}
               /\ runRow[turns[t][i].run].status = "ended"
               /\ turns[t][i].at = runRow[turns[t][i].run].ended
    <3>1. turns[t] \in Seq([run : Run, at : Nat])
      BY DEF IInv, TimesTyped
    <3>2. turns[t][i].run \in Run
      <4>1. turns[t][i] \in [run : Run, at : Nat]
        BY <2>1, <3>1, EntryOfSeq
      <4>2. QED
        BY <4>1
    <3>3. /\ runRow[turns[t][i].run].status = "ended"
          /\ turns[t][i].at = runRow[turns[t][i].run].ended
      BY <2>1 DEF IInv, ClockNeverBreaksRecords, TurnsKeepTheirTime
    <3>4. QED
      BY <1>2, <3>2, <3>3
  <2>2. ASSUME NEW q \in Run \ {r} PROVE runRow'[q] = runRow[q]
    BY <1>2 DEF IInv, TimesTyped
  <2>3. runRow'[r].status = "ended" /\ runRow'[r].ended = end
    BY <1>2 DEF IInv, TimesTyped, RunRecord
  <2>4. ASSUME NEW t \in Session, NEW i \in DOMAIN turns'[t]
        PROVE  \/ i \in DOMAIN turns[t] /\ turns'[t][i] = turns[t][i]
               \/ turns'[t][i] = [run |-> r, at |-> end]
    BY <1>2, <2>4 DEF IInv, TimesTyped
  <2>5. QED
    BY <2>1, <2>2, <2>3, <2>4 DEF TurnsKeepTheirTime
<1>10. QED
  BY <1>5, <1>6, <1>7, <1>8, <1>9 DEF IInv, ClockNeverBreaksRecords

LEMMA ForkSessionPreserves ==
    ASSUME IInv, NEW source \in Session, NEW target \in Session, ForkSession(source, target)
    PROVE  IInv'
<1>1. /\ NewSession(target)
      /\ turns' = [turns EXCEPT ![target] = turns[source]]
      /\ UNCHANGED <<now, runRow>>
  BY DEF ForkSession
<1>2. turns' \in [Session -> Seq([run : Run, at : Nat])]
  BY <1>1 DEF IInv, TimesTyped
<1>3. TurnsKeepTheirTime'
  BY <1>1 DEF IInv, TimesTyped, ClockNeverBreaksRecords, TurnsKeepTheirTime
<1>4. QED
  BY <1>1, <1>2, <1>3, NewSessionPreserves DEF IInv, TimesTyped, ClockNeverBreaksRecords

LEMMA StepPreserves == IInv /\ [Next]_vars => IInv'
<1> SUFFICES ASSUME IInv, [Next]_vars PROVE IInv'
  OBVIOUS
<1>1. CASE UNCHANGED vars
  BY <1>1 DEF vars, IInv, TimesTyped, RunsHaveSessions, Exists, ClockNeverBreaksRecords,
              RecordsCanBeReadBack, UpdatedAfterEveryRun, TurnsKeepTheirTime
<1>2. CASE Next
  BY <1>2, ClockPreserves, CreateSessionPreserves, StartRunPreserves, EndRunPreserves,
     ForkSessionPreserves DEF Next
<1>3. QED
  BY <1>1, <1>2

\* Whatever the clock does between transactions, every stored record can be
\* read back, updated_at covers every ended run and turns keep their time.
THEOREM ClockIsHarmless == Spec => []ClockNeverBreaksRecords
<1>1. IInv => ClockNeverBreaksRecords
  BY DEF IInv
<1>2. QED
  BY InitEstablishes, StepPreserves, <1>1, PTL DEF Spec
=============================================================================
