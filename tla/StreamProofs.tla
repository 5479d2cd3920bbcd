---------------------------- MODULE StreamProofs ----------------------------
(***************************************************************************)
(* Streams of events.  Of a provider turn, whatever the service sends: its *)
(* stream keeps its grammar and ends with the turn it has shown, and the   *)
(* turn of an ordered service is its response.  Of a run, for any number   *)
(* of subscribers: none sleeps through an event, and none ends early.      *)
(***************************************************************************)
EXTENDS StreamAssembler, EventLog, SelectionProofs

-----------------------------------------------------------------------------
(* Counting.                                                               *)

\* The members of S among the first n numbers.
UpToIn(n, S) == {j \in 1..n : j \in S}

\* One more number is counted or not.
LEMMA CountStep ==
  ASSUME NEW S, NEW n \in Nat
  PROVE  /\ Cardinality(UpToIn(n, S)) \in Nat
         /\ Cardinality(UpToIn(n, S)) <= n
         /\ Cardinality(UpToIn(n + 1, S))
                = Cardinality(UpToIn(n, S)) + (IF n + 1 \in S THEN 1 ELSE 0)
<1>1. IsFiniteSet(1..n) /\ Cardinality(1..n) = n
  BY FS_Interval
<1>2. IsFiniteSet(UpToIn(n, S)) /\ Cardinality(UpToIn(n, S)) <= Cardinality(1..n)
  BY <1>1, FS_Subset DEF UpToIn
<1>3. Cardinality(UpToIn(n, S)) \in Nat
  BY <1>2, FS_CardinalityType
<1>4. CASE n + 1 \in S
  <2>1. UpToIn(n + 1, S) = UpToIn(n, S) \cup {n + 1} /\ n + 1 \notin UpToIn(n, S)
    BY <1>4 DEF UpToIn
  <2> QED
    BY <1>1, <1>2, <1>3, <1>4, <2>1, FS_AddElement
<1>5. CASE n + 1 \notin S
  <2>1. UpToIn(n + 1, S) = UpToIn(n, S)
    BY <1>5 DEF UpToIn
  <2> QED
    BY <1>1, <1>2, <1>3, <1>5, <2>1
<1> QED
  BY <1>4, <1>5

\* A member is counted after all that is below it.
LEMMA CountGrows ==
  ASSUME NEW S, NEW n \in Nat, NEW m \in Nat, m < n, n \in S
  PROVE  Cardinality(UpToIn(m, S)) < Cardinality(UpToIn(n, S))
<1>1. IsFiniteSet(1..n)
  BY FS_Interval
<1>2. IsFiniteSet(UpToIn(n, S)) /\ IsFiniteSet(UpToIn(m, S))
  <2>1. UpToIn(n, S) \subseteq 1..n /\ UpToIn(m, S) \subseteq 1..n
    BY DEF UpToIn
  <2> QED
    BY <1>1, <2>1, FS_Subset
<1>3. UpToIn(m, S) \subseteq UpToIn(n, S) /\ n \in UpToIn(n, S) /\ n \notin UpToIn(m, S)
  BY DEF UpToIn
<1>4. Cardinality(UpToIn(m, S)) # Cardinality(UpToIn(n, S))
  BY <1>2, <1>3, FS_Subset
<1>5. /\ Cardinality(UpToIn(m, S)) \in Nat /\ Cardinality(UpToIn(n, S)) \in Nat
      /\ Cardinality(UpToIn(m, S)) <= Cardinality(UpToIn(n, S))
  BY <1>2, <1>3, FS_Subset, FS_CardinalityType
<1> QED
  BY <1>4, <1>5

\* None among no numbers, and the count depends on those numbers only.
LEMMA CountFirst ==
  ASSUME NEW S
  PROVE  Cardinality(UpToIn(0, S)) = 0
<1>1. UpToIn(0, S) = {}
  BY DEF UpToIn
<1> QED
  BY <1>1, FS_EmptySet

-----------------------------------------------------------------------------
(* What is on the screen.                                                  *)

OnScreen == [text : Text, final : BOOLEAN]

\* Appending to a text.
LEMMA TextAppend ==
  ASSUME NEW text \in Text, NEW piece \in Piece
  PROVE  Append(text, piece) \in Text /\ Len(Append(text, piece)) = Len(text) + 1
<1>1. piece \in Piece \cup {BlankLine}
  OBVIOUS
<1> QED
  BY <1>1, AppendProperties DEF Text

\* A sequence with one element replaced.
LEMMA Replace ==
  ASSUME NEW X, NEW s \in Seq(X), NEW i, NEW x, i \in 1..Len(s) => x \in X
  PROVE  /\ [s EXCEPT ![i] = x] \in Seq(X)
         /\ Len([s EXCEPT ![i] = x]) = Len(s)
         /\ \A j \in 1..Len(s) : [s EXCEPT ![i] = x][j] = IF j = i THEN x ELSE s[j]
<1>1. CASE i \in 1..Len(s)
  <2>1. x \in X
    BY <1>1
  <2> QED
    BY <1>1, <2>1, ExceptSeq
<1>2. CASE i \notin 1..Len(s)
  <2>1. s = [j \in 1..Len(s) |-> s[j]] /\ DOMAIN s = 1..Len(s)
    OBVIOUS
  <2>2. [s EXCEPT ![i] = x] = s
    BY <1>2, <2>1
  <2> QED
    BY <1>2, <2>2
<1> QED
  BY <1>1, <1>2

\* An event leaves a screen, of what was on it with at most one change.
LEMMA ShowType ==
  ASSUME NEW shown \in Seq(OnScreen), NEW e \in Event
  PROVE  Show(shown, e) \in Seq(OnScreen)
<1>0. <<>> \in Text /\ TRUE \in BOOLEAN /\ FALSE \in BOOLEAN
  BY DEF Text
<1>1. CASE e.event = "start"
  <2>1. [text |-> <<>>, final |-> FALSE] \in OnScreen
    BY <1>0 DEF OnScreen
  <2> QED
    BY <1>1, <2>1, AppendProperties DEF Show
<1>2. CASE e.event = "delta" /\ e.kind # "tool_call"
  <2>1. e.piece \in Piece
    BY <1>2 DEF Event
  <2> DEFINE i == e.index
             block == [shown[i] EXCEPT !.text = Append(@, e.piece)]
  <2>2. ASSUME i \in 1..Len(shown) PROVE block \in OnScreen
    <3>1. shown[i] \in OnScreen
      BY <2>2
    <3> HIDE DEF i
    <3>2. shown[i].text \in Text
      BY <3>1 DEF OnScreen
    <3>3. Append(shown[i].text, e.piece) \in Text
      BY <2>1, <3>2, TextAppend
    <3> QED
      BY <3>1, <3>3 DEF OnScreen
  <2>3. Show(shown, e) = [shown EXCEPT ![i] = block]
    BY <1>2 DEF Show
  <2> HIDE DEF block, i
  <2> QED
    BY <2>2, <2>3, Replace
<1>3. CASE e.event = "end"
  <2>1. e.block.text \in Text
    BY <1>3 DEF Event, Block
  <2>2. [text |-> e.block.text, final |-> TRUE] \in OnScreen
    BY <2>1 DEF OnScreen
  <2> DEFINE i == e.index
             block == [text |-> e.block.text, final |-> TRUE]
  <2>3. Show(shown, e) = [shown EXCEPT ![i] = block]
    BY <1>3 DEF Show
  <2>4. block \in OnScreen
    BY <2>2
  <2> HIDE DEF block, i
  <2> QED
    BY <2>3, <2>4, Replace
<1>4. CASE ~(e.event = "start") /\ ~(e.event = "delta" /\ e.kind # "tool_call") /\ ~(e.event = "end")
  BY <1>4 DEF Show
<1> QED
  BY <1>1, <1>2, <1>3, <1>4

\* The function inside Shown.
Showing(yielded) ==
    CHOOSE shown : shown = [n \in 0 .. Len(yielded) |->
        IF n = 0 THEN <<>> ELSE Show(shown[n - 1], yielded[n])]

\* Shown is the last value of the function inside it.
LEMMA ShownIs == \A yielded : Shown(yielded) = Showing(yielded)[Len(yielded)]
  BY DEF Shown, Showing

Displays(f, yielded) ==
    /\ f \in [0 .. Len(yielded) -> Seq(OnScreen)]
    /\ f[0] = <<>>
    /\ \A n \in 1 .. Len(yielded) : f[n] = Show(f[n - 1], yielded[n])

\* The function inside Shown exists, and is the one its equation describes.
LEMMA ShowingIs ==
  ASSUME NEW yielded \in Seq(Event)
  PROVE  Displays(Showing(yielded), yielded)
<1> DEFINE N == Len(yielded)
           V == Seq(OnScreen)
           step == [n \in 1..N |-> [v \in V |-> Show(v, yielded[n])]]
           Body(shown) == [n \in 0 .. N |->
                              IF n = 0 THEN <<>> ELSE Show(shown[n - 1], yielded[n])]
<1>1. N \in Nat /\ <<>> \in V /\ \A n \in 1..N : yielded[n] \in Event
  BY DEF OnScreen
<1>2. step \in [1..N -> [V -> V]]
  <2>1. \A n \in 1..N : \A v \in V : Show(v, yielded[n]) \in V
    BY <1>1, ShowType
  <2> HIDE DEF V
  <2> QED
    BY <2>1
<1> HIDE DEF N, V
<1>3. PICK f \in [0..N -> V] :
          f[0] = <<>> /\ \A n \in 1..N : f[n] = step[n][f[n - 1]]
  <2> HIDE DEF step, Body
  <2> DEFINE base == <<>>
  <2>1. N \in Nat /\ base \in V
    BY <1>1
  <2> HIDE DEF base
  <2>2. Recurses(N, V, base, step)
    BY <1>2, <2>1, RecursionFor, Zenon
  <2> QED
    BY <2>2 DEF Recurses, base
<1>4. ASSUME NEW n \in 1..N PROVE f[n] = Show(f[n - 1], yielded[n])
  <2>1. f[n - 1] \in V
    BY <1>1, <1>3
  <2>2. step[n][f[n - 1]] = Show(f[n - 1], yielded[n])
    BY <2>1
  <2> QED
    BY <1>3, <2>2
<1>5. f = Body(f)
  <2>1. ASSUME NEW n \in 0..N PROVE f[n] = Body(f)[n]
    <3>1. CASE n = 0
      BY <1>3, <3>1
    <3>2. CASE n # 0
      <4>1. n \in 1..N
        BY <1>1, <3>2
      <4>2. Body(f)[n] = Show(f[n - 1], yielded[n])
        BY <3>2
      <4> QED
        BY <1>4, <4>1, <4>2
    <3> QED
      BY <3>1, <3>2
  <2> QED
    BY <1>3, <2>1
<1>6. Showing(yielded) = Body(Showing(yielded))
  BY <1>5 DEF Showing, N
<1> DEFINE r == Showing(yielded)
<1>7. /\ r = [n \in 0..N |-> r[n]] /\ r[0] = <<>>
      /\ \A n \in 1..N : r[n] = Show(r[n - 1], yielded[n])
  <2>1. r = Body(r)
    BY <1>6
  <2> HIDE DEF r
  <2>2. r = [n \in 0..N |-> r[n]] /\ \A n \in 0..N : r[n] = Body(r)[n]
    BY <2>1
  <2>3. ASSUME NEW n \in 1..N PROVE r[n] = Show(r[n - 1], yielded[n])
    <3>1. n \in 0..N /\ n # 0
      BY <1>1
    <3>2. Body(r)[n] = Show(r[n - 1], yielded[n])
      BY <3>1
    <3> QED
      BY <2>2, <3>1, <3>2
  <2>4. r[0] = <<>>
    <3>1. 0 \in 0..N
      BY <1>1
    <3> QED
      BY <2>2, <3>1
  <2> HIDE DEF Body
  <2> QED
    BY <2>2, <2>3, <2>4
<1> HIDE DEF r
<1>8. \A n \in 0..N : r[n] \in V
  <2> DEFINE S == {n \in 0..N : r[n] \in V}
  <2>1. 0 \in S
    BY <1>1, <1>7
  <2>2. ASSUME NEW n \in 0..N, n < N, n \in S PROVE n + 1 \in S
    <3>1. n + 1 \in 1..N /\ (n + 1) - 1 = n /\ r[n] \in V
      BY <1>1, <2>2
    <3>2. Show(r[n], yielded[n + 1]) \in V
      BY <1>1, <3>1, ShowType DEF V
    <3>3. r[n + 1] = Show(r[n], yielded[n + 1])
      BY <1>7, <3>1
    <3> QED
      BY <1>1, <3>1, <3>2, <3>3
  <2> HIDE DEF S
  <2>3. \A n \in 0..N : n \in S
    BY <1>1, <2>1, <2>2, UpTo
  <2> QED
    BY <2>3 DEF S
<1> QED
  BY <1>7, <1>8 DEF r, N, V, Displays

\* One more event.
LEMMA ShownAppend ==
  ASSUME NEW s \in Seq(Event), NEW e \in Event
  PROVE  Shown(s) \in Seq(OnScreen) /\ Shown(Append(s, e)) = Show(Shown(s), e)
<1> DEFINE t == Append(s, e)
           N == Len(s)
           r == Showing(s)
           q == Showing(t)
<1>1. /\ t \in Seq(Event) /\ Len(t) = N + 1 /\ t[N + 1] = e /\ N \in Nat
      /\ \A n \in 1..N : t[n] = s[n]
  BY AppendProperties
<1> HIDE DEF t
<1>2. Displays(r, s) /\ Displays(q, t)
  BY <1>1, ShowingIs
<1>3. Shown(s) = r[N] /\ Shown(t) = q[N + 1]
  BY <1>1, ShownIs
<1> HIDE DEF r, q
<1> DEFINE S == {n \in 0..N : q[n] = r[n]}
<1>4. 0 \in S
  <2>1. q[0] = <<>> /\ r[0] = <<>>
    BY <1>2 DEF Displays
  <2>2. 0 \in 0..N
    BY <1>1
  <2> QED
    BY <2>1, <2>2
<1>5. ASSUME NEW n \in 0..N, n < N, n \in S PROVE n + 1 \in S
  <2>1. n + 1 \in 1..N /\ (n + 1) - 1 = n /\ n + 1 \in 0..N /\ n + 1 \in 1..Len(t)
    BY <1>1, <1>5
  <2>2. r[n + 1] = Show(r[n], s[n + 1]) /\ q[n + 1] = Show(q[n], t[n + 1])
    BY <1>2, <2>1 DEF Displays
  <2> QED
    BY <1>1, <1>5, <2>1, <2>2
<1> HIDE DEF S
<1>6. \A n \in 0..N : n \in S
  BY <1>1, <1>4, <1>5, UpTo
<1>7. q[N] = r[N] /\ r[N] \in Seq(OnScreen)
  <2>1. N \in 0..N
    BY <1>1
  <2> QED
    BY <1>2, <1>6, <2>1 DEF S, Displays
<1>8. q[N + 1] = Show(q[N], e)
  <2>1. N + 1 \in 1..Len(t) /\ (N + 1) - 1 = N
    BY <1>1
  <2> QED
    BY <1>1, <1>2, <2>1 DEF Displays
<1> QED
  BY <1>3, <1>7, <1>8 DEF t

\* Nothing is on the screen before the first event.
LEMMA ShownEmpty == Shown(<<>>) = <<>>
<1>1. <<>> \in Seq(Event) /\ Len(<<>>) = 0
  OBVIOUS
<1>2. Displays(Showing(<<>>), <<>>)
  BY <1>1, ShowingIs
<1> QED
  BY <1>1, <1>2, ShownIs DEF Displays

-----------------------------------------------------------------------------
(* The inductive invariant.                                                *)

\* Every start event has opened a block, and only those have.
StartsAreBlocks == Started(events, Len(events)) = Len(blocks)

\* Only the last block can be active, and one that ended is not: it stays what
\* its end event said.
EndedBlocksStay ==
    /\ active \in {0, Len(blocks)}
    /\ \A j \in DOMAIN events : events[j].event = "end" =>
          /\ events[j].index \in 1 .. Len(blocks)
          /\ active # 0 => events[j].index < active
          /\ blocks[events[j].index] = events[j].block

\* The terminal event ends the reading, with the turn as it then is and the
\* stop reason that goes with it.
HasCall == \E i \in DOMAIN blocks : blocks[i].kind = "tool_call"
ReasonFits(e) ==
    e.event = "stream_done" /\ e.reason # "length" => (e.reason = "tool_use" <=> HasCall)
TerminalEnds ==
    \A k \in DOMAIN events : IsTerminal(events[k]) =>
        ~streaming /\ events[k].blocks = blocks /\ ReasonFits(events[k])

\* The consumer's screen shows the texts of the turn.
ScreenAgrees ==
    /\ Len(Shown(events)) = Len(blocks)
    /\ \A i \in 1 .. Len(blocks) : Shown(events)[i].text = blocks[i].text

\* The turn has a call exactly when the response has one.
CallsAreItems ==
    (\E i \in DOMAIN items : items[i].content.kind = "tool_call") <=> HasCall

StreamInv ==
    /\ TypeOK
    /\ StartsAreBlocks
    /\ EndedBlocksStay
    /\ TerminalEnds
    /\ ScreenAgrees
    /\ CallsAreItems
    /\ StreamIsWellFormed

\* The items with a block among the first n.
Mapped(s, n) == Cardinality({j \in 1 .. n : s[j].content.kind # "other"})

\* The last item has a block and is not finished.
LastIsOpen(s) == Len(s) # 0 /\ ~s[Len(s)].done /\ s[Len(s)].content.kind # "other"

\* From an ordered service only the last item can be open, its block is the
\* active one, and it has the text that was sent for it.
TakeTurns(s, turn, a) ==
    /\ \A i \in DOMAIN s : i < Len(s) => s[i].done
    /\ Len(turn) = Mapped(s, Len(s))
    /\ a = IF LastIsOpen(s) THEN Len(turn) ELSE 0
    /\ LastIsOpen(s) =>
          /\ turn[a].kind = s[Len(s)].content.kind
          /\ turn[a].kind = "reasoning" => Len(turn[a].text) = s[Len(s)].sent

ItemsTakeTurns == ordered => TakeTurns(items, blocks, active)

IInv ==
    /\ StreamInv
    /\ ItemsTakeTurns
    /\ TurnIsTheResponse

-----------------------------------------------------------------------------
(* One more event.                                                         *)

\* What the next event must be for the stream to keep its grammar.
Follows(e) ==
    /\ e.event = "start" => e.index = Len(blocks) + 1
    /\ e.event \in {"delta", "end"} => active # 0 /\ e.index = active

\* The events before stay where they are.
LEMMA YieldIs ==
  ASSUME TypeOK, NEW e \in Event, Yield(e)
  PROVE  /\ events' \in Seq(Event) /\ Len(events') = Len(events) + 1
         /\ events'[Len(events) + 1] = e /\ Len(events) \in Nat
         /\ \A j \in 1 .. Len(events) : events'[j] = events[j]
         /\ DOMAIN events = 1 .. Len(events) /\ DOMAIN events' = 1 .. (Len(events) + 1)
<1>1. events \in Seq(Event) /\ events' = Append(events, e)
  BY DEF TypeOK, Yield
<1>2. events' \in Seq(Event) /\ Len(events') = Len(events) + 1
  BY <1>1, AppendProperties
<1> QED
  BY <1>1, <1>2, AppendProperties

\* What was started stays started.
LEMMA StartedStays ==
  ASSUME TypeOK, NEW e \in Event, Yield(e)
  PROVE  \A n \in 0 .. Len(events) : Started(events', n) = Started(events, n)
<1>1. Len(events) \in Nat /\ \A j \in 1 .. Len(events) : events'[j] = events[j]
  BY YieldIs
<1> SUFFICES ASSUME NEW n \in 0 .. Len(events)
             PROVE  Started(events', n) = Started(events, n)
  OBVIOUS
<1>2. {j \in 1 .. n : events'[j].event = "start"} = {j \in 1 .. n : events[j].event = "start"}
  BY <1>1
<1> QED
  BY <1>2 DEF Started

\* A start event is counted, others are not.
LEMMA StartedGrows ==
  ASSUME TypeOK, NEW e \in Event, Yield(e), StartsAreBlocks
  PROVE  Started(events', Len(events')) = Len(blocks) + (IF e.event = "start" THEN 1 ELSE 0)
<1> DEFINE N == Len(events)
           S == {j \in 1 .. (N + 1) : events'[j].event = "start"}
<1>1. /\ N \in Nat /\ Len(events') = N + 1 /\ events'[N + 1] = e
      /\ \A j \in 1 .. N : events'[j] = events[j]
  BY YieldIs
<1>2. Started(events, N) = Len(blocks)
  BY DEF StartsAreBlocks
<1> HIDE DEF N
<1>3. UpToIn(N, S) = {j \in 1 .. N : events[j].event = "start"}
  BY <1>1 DEF UpToIn
<1>4. UpToIn(N + 1, S) = {j \in 1 .. (N + 1) : events'[j].event = "start"}
  BY <1>1 DEF UpToIn
<1>5. N + 1 \in S <=> e.event = "start"
  BY <1>1
<1> HIDE DEF S
<1>6. Cardinality(UpToIn(N + 1, S)) = Cardinality(UpToIn(N, S)) + (IF N + 1 \in S THEN 1 ELSE 0)
  BY <1>1, CountStep
<1> QED
  BY <1>1, <1>2, <1>3, <1>4, <1>5, <1>6 DEF Started

\* The grammar goes on.
LEMMA YieldKeepsGrammar ==
  ASSUME StreamInv, streaming, NEW e \in Event, Yield(e), Follows(e)
  PROVE  StreamIsWellFormed'
<1> DEFINE N == Len(events)
<1>1. /\ N \in Nat /\ Len(events') = N + 1 /\ events'[N + 1] = e
      /\ \A j \in 1 .. N : events'[j] = events[j]
      /\ DOMAIN events = 1 .. N /\ DOMAIN events' = 1 .. (N + 1)
  BY YieldIs DEF StreamInv
<1> DEFINE Good(k) ==
             /\ \A j \in 1 .. k - 1 : ~IsTerminal(events'[j])
             /\ events'[k].event = "start" => events'[k].index = Started(events', k - 1) + 1
             /\ events'[k].event \in {"delta", "end"} =>
                  /\ events'[k].index = Started(events', k - 1)
                  /\ \A j \in 1 .. k - 1 : events'[j].event = "end" => events'[j].index < events'[k].index
<1>2. \A j \in 1 .. N : ~IsTerminal(events[j])
  BY <1>1 DEF StreamInv, TerminalEnds
<1>3. \A n \in 0 .. N : Started(events', n) = Started(events, n)
  BY StartedStays DEF StreamInv
<1>4. Started(events, N) = Len(blocks)
  BY DEF StreamInv, StartsAreBlocks
<1>5. ASSUME NEW k \in 1 .. N PROVE Good(k)
  <2>1. k \in DOMAIN events /\ k - 1 \in 0 .. N /\ \A j \in 1 .. k - 1 : j \in 1 .. N
    BY <1>1
  <2>2. Started(events', k - 1) = Started(events, k - 1)
    BY <1>3, <2>1
  <2> QED
    BY <1>1, <2>1, <2>2 DEF StreamInv, StreamIsWellFormed
<1>6. Good(N + 1)
  <2>1. Started(events', N) = Len(blocks)
    BY <1>1, <1>3, <1>4
  <2>2. (N + 1) - 1 = N
    BY <1>1
  <2>3. \A j \in 1 .. N : ~IsTerminal(events'[j])
    BY <1>1, <1>2
  <2>4. e.event \in {"delta", "end"} =>
           /\ e.index = Len(blocks)
           /\ \A j \in 1 .. N : events'[j].event = "end" => events'[j].index < e.index
    BY <1>1 DEF StreamInv, EndedBlocksStay, Follows
  <2> QED
    BY <1>1, <2>1, <2>2, <2>3, <2>4 DEF Follows
<1> HIDE DEF Good
<1>7. ASSUME NEW k \in 1 .. (N + 1) PROVE Good(k)
  <2>1. k \in 1 .. N \/ k = N + 1
    BY <1>1
  <2> QED
    BY <1>5, <1>6, <2>1
<1> QED
  BY <1>1, <1>7 DEF StreamIsWellFormed, IsTerminal, Good

\* The screen follows.
LEMMA YieldShows ==
  ASSUME TypeOK, NEW e \in Event, Yield(e)
  PROVE  Shown(events) \in Seq(OnScreen) /\ Shown(events') = Show(Shown(events), e)
<1>1. events \in Seq(Event) /\ events' = Append(events, e)
  BY DEF TypeOK, Yield
<1> QED
  BY <1>1, ShownAppend

-----------------------------------------------------------------------------
(* The assembler's operations.                                             *)

\* What is said of the assembler, whatever its items are.
AsmInv ==
    /\ blocks \in Seq(Block)
    /\ active \in 0 .. Len(blocks)
    /\ events \in Seq(Event)
    /\ StartsAreBlocks
    /\ EndedBlocksStay
    /\ TerminalEnds
    /\ ScreenAgrees
    /\ StreamIsWellFormed

\* The assembler's part of the invariant.
LEMMA AsmInvIs == StreamInv => AsmInv
  BY DEF StreamInv, AsmInv, TypeOK

\* Nothing is terminal yet.
LEMMA YieldIsNotTheEnd ==
  ASSUME StreamInv, streaming, NEW e \in Event, Yield(e), ~IsTerminal(e)
  PROVE  TerminalEnds'
<1>1. /\ Len(events) \in Nat /\ events'[Len(events) + 1] = e
      /\ \A j \in 1 .. Len(events) : events'[j] = events[j]
      /\ DOMAIN events = 1 .. Len(events) /\ DOMAIN events' = 1 .. (Len(events) + 1)
  BY YieldIs DEF StreamInv
<1>2. \A j \in 1 .. Len(events) : ~IsTerminal(events[j])
  BY <1>1 DEF StreamInv, TerminalEnds
<1>3. \A j \in DOMAIN events' : ~IsTerminal(events'[j])
  <2> SUFFICES ASSUME NEW j \in DOMAIN events' PROVE ~IsTerminal(events'[j])
    OBVIOUS
  <2>1. CASE j = Len(events) + 1
    BY <1>1, <2>1
  <2>2. CASE j # Len(events) + 1
    <3>1. j \in 1 .. Len(events)
      BY <1>1, <2>2
    <3> QED
      BY <1>1, <1>2, <3>1
  <2> QED
    BY <2>1, <2>2
<1> QED
  BY <1>3 DEF TerminalEnds, IsTerminal

\* The first event has no block.
LEMMA YieldWithoutBlock ==
  ASSUME StreamInv, streaming, NEW e \in Event, Yield(e), UNCHANGED <<blocks, active>>,
         e.event = "stream_start"
  PROVE  AsmInv'
<1>0. ~IsTerminal(e) /\ Follows(e)
  BY DEF IsTerminal, Follows
<1>1. /\ Len(events) \in Nat /\ events'[Len(events) + 1] = e /\ events' \in Seq(Event)
      /\ Len(events') = Len(events) + 1
      /\ \A j \in 1 .. Len(events) : events'[j] = events[j]
      /\ DOMAIN events = 1 .. Len(events) /\ DOMAIN events' = 1 .. (Len(events) + 1)
  BY YieldIs DEF StreamInv
<1>2. StreamIsWellFormed' /\ TerminalEnds'
  BY <1>0, YieldKeepsGrammar, YieldIsNotTheEnd
<1>3. StartsAreBlocks'
  BY StartedGrows DEF StartsAreBlocks, StreamInv
<1>4. ScreenAgrees'
  <2>1. Shown(events') = Shown(events)
    BY YieldShows DEF Show, StreamInv
  <2> QED
    BY <2>1 DEF ScreenAgrees, StreamInv
<1>5. EndedBlocksStay'
  BY <1>1 DEF EndedBlocksStay, StreamInv
<1> QED
  BY <1>1, <1>2, <1>3, <1>4, <1>5 DEF AsmInv, StreamInv, TypeOK

\* The last event has the turn; nothing is read after it.
LEMMA YieldTheEnd ==
  ASSUME StreamInv, streaming, ~streaming', NEW e \in Event, Yield(e), UNCHANGED <<blocks, active>>,
         IsTerminal(e), e.blocks = blocks, ReasonFits(e)
  PROVE  AsmInv'
<1>0. Follows(e) /\ e.event \notin {"start", "delta", "end"}
  BY DEF IsTerminal, Follows
<1>1. /\ Len(events) \in Nat /\ events'[Len(events) + 1] = e /\ events' \in Seq(Event)
      /\ Len(events') = Len(events) + 1
      /\ \A j \in 1 .. Len(events) : events'[j] = events[j]
      /\ DOMAIN events = 1 .. Len(events) /\ DOMAIN events' = 1 .. (Len(events) + 1)
  BY YieldIs DEF StreamInv
<1>2. StreamIsWellFormed'
  BY <1>0, YieldKeepsGrammar
<1>3. StartsAreBlocks'
  BY <1>0, StartedGrows DEF StartsAreBlocks, StreamInv
<1>4. ScreenAgrees'
  <2>1. Shown(events') = Shown(events)
    BY <1>0, YieldShows DEF Show, StreamInv
  <2> QED
    BY <2>1 DEF ScreenAgrees, StreamInv
<1>5. EndedBlocksStay'
  BY <1>0, <1>1 DEF EndedBlocksStay, StreamInv
<1>6. TerminalEnds'
  <2>1. \A j \in 1 .. Len(events) : ~IsTerminal(events[j])
    BY <1>1 DEF StreamInv, TerminalEnds
  <2>2. ASSUME NEW j \in DOMAIN events', IsTerminal(events'[j])
        PROVE  ~streaming' /\ events'[j].blocks = blocks' /\ ReasonFits(events[j])'
    <3>1. j = Len(events) + 1
      BY <1>1, <2>1, <2>2
    <3>2. events'[j] = e /\ HasCall' = HasCall
      BY <1>1, <3>1 DEF HasCall
    <3> QED
      BY <3>2 DEF ReasonFits
  <2> QED
    BY <2>2 DEF TerminalEnds, IsTerminal
<1> QED
  BY <1>1, <1>2, <1>3, <1>4, <1>5, <1>6 DEF AsmInv, StreamInv, TypeOK

NewBlock(kind) == [kind |-> kind, text |-> <<>>, arguments |-> NoArguments, item |-> 0]

\* A block is started.
LEMMA StartKeeps ==
  ASSUME StreamInv, streaming, NEW kind \in Kind, StartBlock(kind)
  PROVE  /\ AsmInv'
         /\ Len(blocks') = Len(blocks) + 1 /\ blocks'[Len(blocks) + 1] = NewBlock(kind)
         /\ \A i \in 1 .. Len(blocks) : blocks'[i] = blocks[i]
         /\ active' = Len(blocks) + 1
<1> DEFINE M == Len(blocks)
           e == [event |-> "start", index |-> M + 1, kind |-> kind]
           N == Len(events)
<1>1. NewBlock(kind) \in Block
  BY DEF NewBlock, Block, Text
<1>2. blocks \in Seq(Block) /\ blocks' = Append(blocks, NewBlock(kind))
  BY DEF StartBlock, NewBlock, StreamInv, TypeOK
<1>3. /\ blocks' \in Seq(Block) /\ Len(blocks') = M + 1 /\ blocks'[M + 1] = NewBlock(kind)
      /\ \A i \in 1 .. M : blocks'[i] = blocks[i]
      /\ M \in Nat
  BY <1>1, <1>2, AppendProperties
<1>4. active' = M + 1 /\ Yield(e)
  BY <1>3 DEF StartBlock
<1>5. e \in Event
  BY <1>3 DEF Event
<1>6. e.event = "start" /\ e.index = M + 1
  OBVIOUS
<1> HIDE DEF e, M
<1>7. ~IsTerminal(e) /\ Follows(e)
  BY <1>6 DEF IsTerminal, Follows, M
<1>8. StreamIsWellFormed' /\ TerminalEnds'
  BY <1>4, <1>5, <1>7, YieldKeepsGrammar, YieldIsNotTheEnd
<1>9. /\ N \in Nat /\ events'[N + 1] = e /\ events' \in Seq(Event) /\ Len(events') = N + 1
      /\ \A j \in 1 .. N : events'[j] = events[j]
      /\ DOMAIN events = 1 .. N /\ DOMAIN events' = 1 .. (N + 1)
  BY <1>4, <1>5, YieldIs DEF StreamInv
<1>10. StartsAreBlocks'
  <2>1. Started(events', Len(events')) = M + 1
    BY <1>4, <1>5, <1>6, StartedGrows DEF StreamInv, M
  <2> QED
    BY <1>3, <2>1 DEF StartsAreBlocks
<1>11. ScreenAgrees'
  <2> DEFINE s == Shown(events)
             x == [text |-> <<>>, final |-> FALSE]
  <2>1. s \in Seq(OnScreen) /\ Shown(events') = Append(s, x)
    BY <1>4, <1>5, <1>6, YieldShows DEF Show, StreamInv
  <2>2. x \in OnScreen /\ x.text = <<>>
    BY DEF OnScreen, Text
  <2>3. Len(s) = M /\ \A i \in 1 .. M : s[i].text = blocks[i].text
    BY DEF StreamInv, ScreenAgrees, M
  <2> HIDE DEF s, x
  <2>4. /\ Len(Append(s, x)) = M + 1 /\ Append(s, x)[M + 1] = x
        /\ \A i \in 1 .. M : Append(s, x)[i] = s[i]
    BY <2>1, <2>2, <2>3, AppendProperties
  <2>5. NewBlock(kind).text = <<>>
    BY DEF NewBlock
  <2> QED
    BY <1>3, <2>1, <2>2, <2>3, <2>4, <2>5 DEF ScreenAgrees
<1>12. EndedBlocksStay'
  <2>1. ASSUME NEW j \in DOMAIN events', events'[j].event = "end"
        PROVE  /\ events'[j].index \in 1 .. Len(blocks')
               /\ active' # 0 => events'[j].index < active'
               /\ blocks'[events'[j].index] = events'[j].block
    <3>1. j \in 1 .. N
      BY <1>6, <1>9, <2>1
    <3>2. events'[j] = events[j] /\ j \in DOMAIN events
      BY <1>9, <3>1
    <3>3. events[j].index \in 1 .. M /\ blocks[events[j].index] = events[j].block
      BY <2>1, <3>2 DEF EndedBlocksStay, StreamInv, M
    <3> QED
      BY <1>3, <1>4, <3>2, <3>3
  <2> QED
    BY <1>3, <1>4, <2>1 DEF EndedBlocksStay
<1>13. active' \in 0 .. Len(blocks')
  BY <1>3, <1>4
<1> QED
  BY <1>3, <1>4, <1>8, <1>9, <1>10, <1>11, <1>12, <1>13 DEF AsmInv, M

\* The active block is replaced.
Edited(b) == blocks' = [blocks EXCEPT ![active] = b]

\* The others are not.
LEMMA EditedIs ==
  ASSUME StreamInv, active # 0, NEW b \in Block, Edited(b)
  PROVE  /\ blocks' \in Seq(Block) /\ Len(blocks') = Len(blocks) /\ Len(blocks) \in Nat
         /\ active = Len(blocks) /\ active \in 1 .. Len(blocks)
         /\ \A i \in 1 .. Len(blocks) : blocks'[i] = IF i = active THEN b ELSE blocks[i]
<1>1. blocks \in Seq(Block) /\ active \in 1 .. Len(blocks) /\ active = Len(blocks)
  BY DEF StreamInv, TypeOK, EndedBlocksStay
<1> QED
  BY <1>1, Replace DEF Edited

\* With it, what the screen has in its place.
LEMMA ScreenReplaced ==
  ASSUME StreamInv, active # 0, NEW b \in Block, Edited(b),
         NEW x \in OnScreen, x.text = b.text, Shown(events) \in Seq(OnScreen),
         Shown(events') = [Shown(events) EXCEPT ![active] = x]
  PROVE  ScreenAgrees'
<1> DEFINE s == Shown(events)
           M == Len(blocks)
<1>1. /\ Len(blocks') = M /\ active \in 1 .. M
      /\ \A i \in 1 .. M : blocks'[i] = IF i = active THEN b ELSE blocks[i]
  BY EditedIs
<1>2. Len(s) = M /\ \A i \in 1 .. M : s[i].text = blocks[i].text
  BY DEF StreamInv, ScreenAgrees
<1>3. Shown(events') = [s EXCEPT ![active] = x] /\ s \in Seq(OnScreen)
  OBVIOUS
<1> HIDE DEF s, M
<1>4. /\ Len([s EXCEPT ![active] = x]) = Len(s)
      /\ \A i \in 1 .. Len(s) : [s EXCEPT ![active] = x][i] = IF i = active THEN x ELSE s[i]
  BY <1>3, Replace
<1> QED
  BY <1>1, <1>2, <1>3, <1>4 DEF ScreenAgrees

\* Editing the active block disturbs no block that ended.
LEMMA EndedUndisturbed ==
  ASSUME StreamInv, active # 0, NEW b \in Block, Edited(b)
  PROVE  \A j \in 1 .. Len(events) : events[j].event = "end" =>
            /\ events[j].index \in 1 .. Len(blocks') /\ events[j].index < active
            /\ blocks'[events[j].index] = events[j].block
<1>1. /\ Len(blocks') = Len(blocks) /\ Len(blocks) \in Nat
      /\ \A i \in 1 .. Len(blocks) : blocks'[i] = IF i = active THEN b ELSE blocks[i]
  BY EditedIs
<1>2. DOMAIN events = 1 .. Len(events)
  BY DEF StreamInv, TypeOK
<1> QED
  BY <1>1, <1>2 DEF StreamInv, EndedBlocksStay

\* The active block is one of the kind asked for.
LEMMA ActiveIs ==
  ASSUME StreamInv, NEW kind, IsActive(kind)
  PROVE  /\ active # 0 /\ active \in Nat /\ blocks[active] \in Block /\ blocks[active].kind = kind
         /\ blocks[active].text \in Text
<1>1. active \in 1 .. Len(blocks) /\ blocks \in Seq(Block)
  BY DEF StreamInv, TypeOK, IsActive
<1>2. blocks[active] \in Block
  BY <1>1
<1> QED
  BY <1>1, <1>2 DEF IsActive, Block

\* A delta is shown, and kept unless it is of arguments.
LEMMA DeltaKeeps ==
  ASSUME StreamInv, streaming, NEW kind \in Kind, NEW piece \in Piece, AppendDelta(kind, piece)
  PROVE  /\ AsmInv' /\ active' = active
         /\ \E b \in Block : /\ Edited(b) /\ b.kind = kind
                             /\ kind # "tool_call" => Len(b.text) = Len(blocks[active].text) + 1
<1> DEFINE N == Len(events)
           e == [event |-> "delta", index |-> active, kind |-> kind, piece |-> piece]
           text == Append(blocks[active].text, piece)
           b == IF kind = "tool_call" THEN blocks[active] ELSE [blocks[active] EXCEPT !.text = text]
<1>1. IsActive(kind) /\ Yield(e) /\ active' = active
  BY DEF AppendDelta
<1>2. /\ active # 0 /\ active \in Nat /\ blocks[active] \in Block /\ blocks[active].kind = kind
      /\ blocks[active].text \in Text
  BY <1>1, ActiveIs
<1>3. text \in Text /\ Len(text) = Len(blocks[active].text) + 1
  BY <1>2, TextAppend
<1>4. b \in Block /\ b.kind = kind /\ (kind # "tool_call" => b.text = text)
      /\ (kind = "tool_call" => b = blocks[active])
  <2> HIDE DEF text
  <2> QED
    BY <1>2, <1>3 DEF Block
<1>5. Edited(b)
  <2>1. CASE kind = "tool_call"
    <3>1. blocks = [i \in 1 .. Len(blocks) |-> blocks[i]] /\ DOMAIN blocks = 1 .. Len(blocks)
      BY DEF StreamInv, TypeOK
    <3>2. [blocks EXCEPT ![active] = blocks[active]] = blocks
      BY <3>1
    <3> QED
      BY <2>1, <3>2 DEF Edited, AppendDelta
  <2>2. CASE kind # "tool_call"
    BY <2>2 DEF Edited, AppendDelta
  <2> QED
    BY <2>1, <2>2
<1>6. e \in Event
  BY <1>2 DEF Event
<1>7. e.event = "delta" /\ e.index = active /\ e.kind = kind /\ e.piece = piece
  OBVIOUS
<1> HIDE DEF e, b, text
<1>8. ~IsTerminal(e) /\ Follows(e)
  BY <1>2, <1>7 DEF IsTerminal, Follows
<1>9. StreamIsWellFormed' /\ TerminalEnds'
  BY <1>1, <1>6, <1>8, YieldKeepsGrammar, YieldIsNotTheEnd
<1>10. /\ N \in Nat /\ events'[N + 1] = e /\ events' \in Seq(Event) /\ Len(events') = N + 1
       /\ \A j \in 1 .. N : events'[j] = events[j]
       /\ DOMAIN events = 1 .. N /\ DOMAIN events' = 1 .. (N + 1)
  BY <1>1, <1>6, YieldIs DEF StreamInv
<1>11. /\ blocks' \in Seq(Block) /\ Len(blocks') = Len(blocks) /\ Len(blocks) \in Nat
       /\ active = Len(blocks) /\ active \in 1 .. Len(blocks)
       /\ \A i \in 1 .. Len(blocks) : blocks'[i] = IF i = active THEN b ELSE blocks[i]
  BY <1>2, <1>4, <1>5, EditedIs
<1>12. StartsAreBlocks'
  <2>1. Started(events', Len(events')) = Len(blocks)
    BY <1>1, <1>6, <1>7, <1>11, StartedGrows DEF StreamInv
  <2> QED
    BY <1>11, <2>1 DEF StartsAreBlocks
<1>13. ScreenAgrees'
  <2> DEFINE s == Shown(events)
             x == [s[active] EXCEPT !.text = Append(@, piece)]
  <2>1. s \in Seq(OnScreen) /\ Shown(events') = Show(s, e)
    BY <1>1, <1>6, YieldShows DEF StreamInv
  <2>2. CASE kind # "tool_call"
    <3>1. Show(s, e) = [s EXCEPT ![active] = x]
      BY <1>7, <2>2 DEF Show
    <3>2. s[active].text = blocks[active].text /\ Len(s) = Len(blocks)
      BY <1>11 DEF StreamInv, ScreenAgrees
    <3>3. s[active] \in OnScreen
      BY <1>11, <2>1, <3>2
    <3> HIDE DEF s
    <3>4. x \in OnScreen /\ x.text = text
      <4>1. x.text = text
        BY <3>2, <3>3 DEF text, OnScreen
      <4> QED
        BY <1>3, <3>2, <3>3, <4>1 DEF OnScreen, text
    <3> HIDE DEF x
    <3>5. x.text = b.text
      BY <1>4, <2>2, <3>4
    <3> QED
      BY <1>2, <1>4, <1>5, <2>1, <3>1, <3>4, <3>5, ScreenReplaced DEF s
  <2>3. CASE kind = "tool_call"
    <3>1. Show(s, e) = s
      BY <1>7, <2>3 DEF Show
    <3>2. blocks' = blocks
      BY <2>3 DEF AppendDelta
    <3> QED
      BY <2>1, <3>1, <3>2 DEF ScreenAgrees, StreamInv
  <2> QED
    BY <2>2, <2>3
<1>14. EndedBlocksStay'
  <2>1. \A j \in 1 .. N : events[j].event = "end" =>
            /\ events[j].index \in 1 .. Len(blocks') /\ events[j].index < active
            /\ blocks'[events[j].index] = events[j].block
    BY <1>2, <1>4, <1>5, EndedUndisturbed
  <2>2. ASSUME NEW j \in DOMAIN events', events'[j].event = "end"
        PROVE  j \in 1 .. N /\ events'[j] = events[j]
    BY <1>7, <1>10, <2>2
  <2> QED
    BY <1>1, <1>11, <2>1, <2>2 DEF EndedBlocksStay
<1> QED
  BY <1>1, <1>3, <1>4, <1>5, <1>9, <1>10, <1>11, <1>12, <1>13, <1>14 DEF AsmInv

\* New arguments are not shown.
LEMMA ArgumentsKeep ==
  ASSUME StreamInv, streaming, NEW arguments \in Object \cup {NoArguments},
         ReplaceArguments(arguments), streaming'
  PROVE  /\ AsmInv' /\ active' = active
         /\ \E b \in Block : Edited(b) /\ b.kind = "tool_call"
<1> DEFINE b == [blocks[active] EXCEPT !.arguments = arguments]
<1>1. IsActive("tool_call") /\ active' = active /\ events' = events /\ Edited(b)
  BY DEF ReplaceArguments, Edited
<1>2. /\ active # 0 /\ active \in Nat /\ blocks[active] \in Block
      /\ blocks[active].kind = "tool_call"
  BY <1>1, ActiveIs
<1>3. b \in Block /\ b.kind = "tool_call" /\ b.text = blocks[active].text
  BY <1>2 DEF Block
<1> HIDE DEF b
<1>4. /\ blocks' \in Seq(Block) /\ Len(blocks') = Len(blocks) /\ Len(blocks) \in Nat
      /\ active = Len(blocks) /\ active \in 1 .. Len(blocks)
      /\ \A i \in 1 .. Len(blocks) : blocks'[i] = IF i = active THEN b ELSE blocks[i]
  BY <1>1, <1>2, <1>3, EditedIs
<1>5. StreamIsWellFormed'
  BY <1>1 DEF StreamInv, StreamIsWellFormed, IsTerminal
<1>6. TerminalEnds'
  BY <1>1 DEF StreamInv, TerminalEnds, IsTerminal
<1>7. StartsAreBlocks'
  BY <1>1, <1>4 DEF StreamInv, StartsAreBlocks
<1>8. ScreenAgrees'
  BY <1>1, <1>3, <1>4 DEF StreamInv, ScreenAgrees
<1>9. EndedBlocksStay'
  <2>1. \A j \in 1 .. Len(events) : events[j].event = "end" =>
            /\ events[j].index \in 1 .. Len(blocks') /\ events[j].index < active
            /\ blocks'[events[j].index] = events[j].block
    BY <1>1, <1>2, <1>3, EndedUndisturbed
  <2>2. DOMAIN events = 1 .. Len(events)
    BY DEF StreamInv, TypeOK
  <2> QED
    BY <1>1, <1>4, <2>1, <2>2 DEF EndedBlocksStay
<1> QED
  BY <1>1, <1>3, <1>4, <1>5, <1>6, <1>7, <1>8, <1>9 DEF AsmInv, StreamInv, TypeOK

\* What the end of an item of each kind brings.
Brings(kind, content) ==
    IF kind = "tool_call" THEN content \in Object \cup {NoArguments} ELSE content \in Text

\* The final block is a block, of its kind.
LEMMA FinalBlockIs ==
  ASSUME NEW block \in Block, NEW content, Brings(block.kind, content), NEW item \in Nat
  PROVE  /\ FinalBlock(block, content, item) \in Block
         /\ FinalBlock(block, content, item).kind = block.kind
         /\ FinalBlock(block, content, item).item = item
         /\ block.kind = "message" => FinalBlock(block, content, item).text = content
         /\ block.kind = "reasoning" =>
               FinalBlock(block, content, item).text
                   = IF content = <<>> THEN block.text ELSE content
         /\ block.kind = "tool_call" => FinalBlock(block, content, item).arguments = content
<1>1. block.kind \in Kind /\ block.text \in Text
  BY DEF Block
<1>2. CASE block.kind = "reasoning"
  <2>1. content \in Text
    BY <1>2 DEF Brings
  <2>2. FinalBlock(block, content, item) = FinalReasoning(block, content, item)
    BY <1>2 DEF FinalBlock
  <2> QED
    BY <1>1, <1>2, <2>1, <2>2 DEF FinalReasoning, Block
<1>3. CASE block.kind = "message"
  <2>1. content \in Text
    BY <1>3 DEF Brings
  <2>2. FinalBlock(block, content, item) = FinalText(block, content, item)
    BY <1>3 DEF FinalBlock
  <2> QED
    BY <1>1, <1>3, <2>1, <2>2 DEF FinalText, Block
<1>4. CASE block.kind = "tool_call"
  <2>1. content \in Object \cup {NoArguments}
    BY <1>4 DEF Brings
  <2>2. FinalBlock(block, content, item) = FinalToolCall(block, content, item)
    BY <1>4 DEF FinalBlock
  <2> QED
    BY <1>1, <1>4, <2>1, <2>2 DEF FinalToolCall, Block
<1> QED
  BY <1>1, <1>2, <1>3, <1>4 DEF Kind

\* An item's end shows and keeps its final block.
LEMMA FinalizeKeeps ==
  ASSUME StreamInv, streaming, NEW kind \in Kind, NEW content, Brings(kind, content),
         NEW item \in Nat, FinalizeBlock(kind, content, item)
  PROVE  /\ AsmInv' /\ active' = 0
         /\ LET b == FinalBlock(blocks[active], content, item)
            IN  b \in Block /\ Edited(b) /\ b.kind = kind
<1> DEFINE N == Len(events)
           b == FinalBlock(blocks[active], content, item)
           e == [event |-> "end", index |-> active, block |-> b]
<1>1. IsActive(kind) /\ Yield(e) /\ active' = 0 /\ Edited(b)
  BY DEF FinalizeBlock, Edited
<1>2. /\ active # 0 /\ active \in Nat /\ blocks[active] \in Block /\ blocks[active].kind = kind
  BY <1>1, ActiveIs
<1>3. b \in Block /\ b.kind = kind
  BY <1>2, FinalBlockIs
<1>4. e.event = "end" /\ e.index = active /\ e.block = b
  OBVIOUS
<1> HIDE DEF b
<1>5. e \in Event
  BY <1>2, <1>3 DEF Event
<1> HIDE DEF e
<1>6. ~IsTerminal(e) /\ Follows(e)
  BY <1>2, <1>4 DEF IsTerminal, Follows
<1>7. StreamIsWellFormed' /\ TerminalEnds'
  BY <1>1, <1>5, <1>6, YieldKeepsGrammar, YieldIsNotTheEnd
<1>8. /\ N \in Nat /\ events'[N + 1] = e /\ events' \in Seq(Event) /\ Len(events') = N + 1
      /\ \A j \in 1 .. N : events'[j] = events[j]
      /\ DOMAIN events = 1 .. N /\ DOMAIN events' = 1 .. (N + 1)
  BY <1>1, <1>5, YieldIs DEF StreamInv
<1>9. /\ blocks' \in Seq(Block) /\ Len(blocks') = Len(blocks) /\ Len(blocks) \in Nat
      /\ active = Len(blocks) /\ active \in 1 .. Len(blocks)
      /\ \A i \in 1 .. Len(blocks) : blocks'[i] = IF i = active THEN b ELSE blocks[i]
  BY <1>1, <1>2, <1>3, EditedIs
<1>10. StartsAreBlocks'
  <2>1. Started(events', Len(events')) = Len(blocks)
    BY <1>1, <1>4, <1>5, <1>9, StartedGrows DEF StreamInv
  <2> QED
    BY <1>9, <2>1 DEF StartsAreBlocks
<1>11. ScreenAgrees'
  <2> DEFINE x == [text |-> b.text, final |-> TRUE]
  <2>1. Shown(events) \in Seq(OnScreen) /\ Shown(events') = Show(Shown(events), e)
    BY <1>1, <1>5, YieldShows DEF StreamInv
  <2>2. Show(Shown(events), e) = [Shown(events) EXCEPT ![active] = x]
    BY <1>4 DEF Show
  <2>3. b.text \in Text
    BY <1>3 DEF Block
  <2>4. x \in OnScreen /\ x.text = b.text
    BY <2>3 DEF OnScreen
  <2> HIDE DEF x
  <2> QED
    BY <1>1, <1>2, <1>3, <2>1, <2>2, <2>4, ScreenReplaced
<1>12. EndedBlocksStay'
  <2>1. \A j \in 1 .. N : events[j].event = "end" =>
            /\ events[j].index \in 1 .. Len(blocks') /\ events[j].index < active
            /\ blocks'[events[j].index] = events[j].block
    BY <1>1, <1>2, <1>3, EndedUndisturbed
  <2>2. ASSUME NEW j \in DOMAIN events', events'[j].event = "end"
        PROVE  /\ events'[j].index \in 1 .. Len(blocks')
               /\ blocks'[events'[j].index] = events'[j].block
    <3>1. CASE j \in 1 .. N
      BY <1>8, <2>1, <2>2, <3>1
    <3>2. CASE j \notin 1 .. N
      <4>1. j = N + 1
        BY <1>8, <3>2
      <4>2. events'[j].index = active /\ events'[j].block = b
        BY <1>4, <1>8, <4>1
      <4> QED
        BY <1>9, <4>2
    <3> QED
      BY <3>1, <3>2
  <2> QED
    BY <1>1, <2>2 DEF EndedBlocksStay
<1>13. active' \in 0 .. Len(blocks')
  BY <1>1, <1>9
<1> QED
  BY <1>1, <1>3, <1>7, <1>8, <1>9, <1>10, <1>11, <1>12, <1>13 DEF AsmInv, b

-----------------------------------------------------------------------------
(* What the events of an item bring.                                       *)

\* The parts of an item are a sequence.
LEMMA PartsAre ==
  ASSUME NEW parts \in Parts
  PROVE  parts \in Seq(Piece \cup {EmptyPart})
<1>1. PICK n \in 0 .. MaxParts : parts \in [1 .. n -> Piece \cup {EmptyPart}]
  BY DEF Parts
<1>2. n \in Nat
  BY <1>1, AssemblerAssumption
<1> QED
  BY <1>1, <1>2

\* Its non-empty parts are text.
LEMMA NonEmptyIs ==
  ASSUME NEW parts \in Parts
  PROVE  NonEmpty(parts) \in Seq(Piece) /\ NonEmpty(parts) \in Text /\ Len(NonEmpty(parts)) \in Nat
<1>1. parts \in Seq(Piece \cup {EmptyPart})
  BY PartsAre
<1>2. NonEmpty(parts) \in Seq((Piece \cup {EmptyPart}) \cap Piece)
  BY <1>1, OnlyType DEF NonEmpty
<1>3. (Piece \cup {EmptyPart}) \cap Piece = Piece
  OBVIOUS
<1> DEFINE p == NonEmpty(parts)
<1>4. p \in Seq(Piece)
  BY <1>2, <1>3
<1> HIDE DEF p
<1>5. p \in Seq(Piece \cup {BlankLine}) /\ Len(p) \in Nat
  BY <1>4
<1> QED
  BY <1>4, <1>5 DEF p, Text

\* A summary has a blank line between each two parts.
LEMMA JoinSummaryIs ==
  ASSUME NEW parts \in Parts
  PROVE  /\ JoinSummary(parts) \in Text
         /\ NonEmpty(parts) = <<>> => JoinSummary(parts) = <<>>
         /\ NonEmpty(parts) # <<>> =>
               /\ JoinSummary(parts) # <<>>
               /\ Len(JoinSummary(parts)) = 2 * Len(NonEmpty(parts)) - 1
<1> DEFINE kept == NonEmpty(parts)
           n == 2 * Len(kept) - 1
           text == [i \in 1 .. n |-> IF i % 2 = 1 THEN kept[(i + 1) \div 2] ELSE BlankLine]
<1>1. kept \in Seq(Piece) /\ Len(kept) \in Nat
  BY NonEmptyIs
<1>2. JoinSummary(parts) = text
  BY DEF JoinSummary
<1> HIDE DEF kept
<1>3. CASE kept = <<>>
  <2>1. 1 .. n = {}
    BY <1>3
  <2>2. text = <<>>
    <3>0. DOMAIN text = 1 .. n /\ text = [i \in 1 .. n |-> text[i]]
      OBVIOUS
    <3> HIDE DEF text, n
    <3>1. 1 .. n = 1 .. 0
      BY <2>1
    <3>4. DOMAIN text = 1 .. 0 /\ text = [i \in 1 .. 0 |-> text[i]]
      BY <3>0, <3>1, Zenon
    <3>2. text \in [1 .. 0 -> Piece]
      BY <3>4
    <3>3. text \in Seq(Piece) /\ Len(text) = 0
      BY <3>4, <3>2
    <3> QED
      BY <3>3, EmptySeq
  <2>3. <<>> \in Text
    BY DEF Text
  <2> QED
    BY <1>2, <1>3, <2>2, <2>3 DEF kept
<1>4. CASE kept # <<>>
  <2>1. Len(kept) >= 1 /\ n \in Nat /\ n >= 1
    BY <1>1, <1>4
  <2>2. ASSUME NEW i \in 1 .. n PROVE text[i] \in Piece \cup {BlankLine}
    <3>1. CASE i % 2 = 1
      <4>1. (i + 1) \div 2 \in 1 .. Len(kept)
        BY <1>1, <3>1
      <4>2. kept[(i + 1) \div 2] \in Piece
        BY <1>1, <4>1
      <4> QED
        BY <3>1, <4>2
    <3>2. CASE i % 2 # 1
      BY <3>2
    <3> QED
      BY <3>1, <3>2
  <2>3. DOMAIN text = 1 .. n /\ text = [i \in 1 .. n |-> text[i]]
    OBVIOUS
  <2> HIDE DEF n, text
  <2>4. text \in [1 .. n -> Piece \cup {BlankLine}]
    BY <2>2, <2>3
  <2>5. text \in Seq(Piece \cup {BlankLine}) /\ Len(text) = n
    BY <2>1, <2>4, <2>3
  <2>6. text # <<>>
    BY <2>1, <2>5
  <2> QED
    BY <1>2, <1>4, <2>5, <2>6 DEF Text, n, kept
<1> QED
  BY <1>3, <1>4

\* What the end of an item brings.
Final(content) ==
    CASE content.kind = "reasoning" -> JoinSummary(content.parts)
      [] content.kind = "message" -> NonEmpty(content.parts)
      [] content.kind = "tool_call" -> ParseArguments(content.arguments)

\* It is what a block of its kind can have.
LEMMA FinalIs ==
  ASSUME NEW content \in Content, content.kind # "other"
  PROVE  /\ content.kind \in Kind
         /\ NormalizeDone(content) = Normalized("done", content.kind, Final(content))
         /\ Brings(content.kind, Final(content))
<1>1. content.kind \in Kind
  BY DEF Content, Kind
<1>2. CASE content.kind = "reasoning"
  <2>1. content.parts \in Parts
    BY <1>2 DEF Content
  <2>2. JoinSummary(content.parts) \in Text
    BY <2>1, JoinSummaryIs
  <2> QED
    BY <1>1, <1>2, <2>2 DEF NormalizeDone, Final, Brings
<1>3. CASE content.kind = "message"
  <2>1. content.parts \in Parts
    BY <1>3 DEF Content
  <2>2. NonEmpty(content.parts) \in Text
    BY <2>1, NonEmptyIs
  <2> QED
    BY <1>1, <1>3, <2>2 DEF NormalizeDone, JoinMessage, Final, Brings
<1>4. CASE content.kind = "tool_call"
  <2>1. ParseArguments(content.arguments) \in Object \cup {NoArguments}
    BY DEF ParseArguments
  <2> QED
    BY <1>1, <1>4, <2>1 DEF NormalizeDone, Final, Brings
<1> QED
  BY <1>1, <1>2, <1>3, <1>4 DEF Kind

-----------------------------------------------------------------------------
(* Steps keep what is said of the stream.                                  *)

Item == [content : Content, sent : 0 .. MaxParts, done : BOOLEAN]

\* The items stay what they are, however much of them has been sent.
ItemsStay ==
    /\ items' \in Seq(Item)
    /\ Len(items') = Len(items)
    /\ \A i \in 1 .. Len(items) : items'[i].content = items[i].content

\* A step of the assembler, on items that stay.
LEMMA StreamStays ==
  ASSUME StreamInv, AsmInv', ItemsStay, HasCall' <=> HasCall, UNCHANGED ordered,
         streaming' \in BOOLEAN
  PROVE  StreamInv'
<1>1. items \in Seq(Item) /\ ordered' \in BOOLEAN
  BY DEF StreamInv, TypeOK, Item
<1>2. TypeOK'
  BY <1>1 DEF TypeOK, AsmInv, ItemsStay, Item
<1>3. DOMAIN items = 1 .. Len(items) /\ DOMAIN items' = 1 .. Len(items)
  BY <1>1 DEF ItemsStay
<1>4. CallsAreItems'
  BY <1>3 DEF CallsAreItems, ItemsStay, StreamInv
<1> QED
  BY <1>2, <1>4 DEF StreamInv, AsmInv

\* The assembler drops the event.
LEMMA DroppedKeeps ==
  ASSUME StreamInv, UNCHANGED asm, streaming' => streaming
  PROVE  AsmInv' /\ (HasCall' <=> HasCall)
<1>1. UNCHANGED <<blocks, active, events>>
  BY DEF asm
<1>2. HasCall' <=> HasCall
  BY <1>1 DEF HasCall
<1>3. TerminalEnds'
  <2>1. \A k \in DOMAIN events : IsTerminal(events[k]) =>
            ~streaming /\ events[k].blocks = blocks /\ ReasonFits(events[k])
    BY DEF StreamInv, TerminalEnds
  <2> QED
    BY <1>1, <1>2, <2>1 DEF TerminalEnds, IsTerminal, ReasonFits
<1>4. StartsAreBlocks' /\ EndedBlocksStay' /\ ScreenAgrees'
  BY <1>1 DEF StartsAreBlocks, EndedBlocksStay, ScreenAgrees, StreamInv
<1>5. StreamIsWellFormed'
  BY <1>1 DEF StreamIsWellFormed, IsTerminal, StreamInv
<1> QED
  BY <1>1, <1>2, <1>3, <1>4, <1>5 DEF AsmInv, StreamInv, TypeOK

\* A block keeps its kind.
LEMMA EditedCalls ==
  ASSUME StreamInv, active # 0, NEW b \in Block, Edited(b), b.kind = blocks[active].kind
  PROVE  HasCall' <=> HasCall
<1>1. /\ Len(blocks') = Len(blocks) /\ Len(blocks) \in Nat /\ blocks' \in Seq(Block)
      /\ \A i \in 1 .. Len(blocks) : blocks'[i] = IF i = active THEN b ELSE blocks[i]
  BY EditedIs
<1>2. DOMAIN blocks = 1 .. Len(blocks) /\ DOMAIN blocks' = 1 .. Len(blocks)
  BY <1>1 DEF StreamInv, TypeOK
<1>3. \A i \in 1 .. Len(blocks) : blocks'[i].kind = blocks[i].kind
  BY <1>1
<1> QED
  BY <1>2, <1>3 DEF HasCall

\* An item with one of its fields changed, as for a step that sends of it.
LEMMA ItemReplaced ==
  ASSUME StreamInv, NEW i \in DOMAIN items, NEW item \in Item,
         item.content = items[i].content, items' = [items EXCEPT ![i] = item]
  PROVE  /\ ItemsStay /\ i \in 1 .. Len(items)
         /\ \A j \in 1 .. Len(items) : items'[j] = IF j = i THEN item ELSE items[j]
<1>1. items \in Seq(Item) /\ DOMAIN items = 1 .. Len(items)
  BY DEF StreamInv, TypeOK, Item
<1>2. /\ items' \in Seq(Item) /\ Len(items') = Len(items)
      /\ \A j \in 1 .. Len(items) : items'[j] = IF j = i THEN item ELSE items[j]
  BY <1>1, Replace
<1> QED
  BY <1>1, <1>2 DEF ItemsStay

\* What it takes to be an open item.
LEMMA OpenIs ==
  ASSUME StreamInv, NEW i, Open(i)
  PROVE  /\ streaming /\ i \in DOMAIN items /\ i \in 1 .. Len(items) /\ i \in Nat
         /\ items[i] \in Item /\ ~items[i].done
         /\ items[i].content \in Content /\ items[i].sent \in Nat
<1>1. i \in DOMAIN items /\ items \in Seq(Item)
  BY DEF Open, StreamInv, TypeOK, Item
<1>2. items[i] \in Item /\ i \in 1 .. Len(items) /\ i \in Nat
  BY <1>1
<1>3. items[i].sent \in 0 .. MaxParts
  BY <1>2 DEF Item
<1> QED
  BY <1>1, <1>2, <1>3, AssemblerAssumption DEF Open, Item

\* The response is announced.
LEMMA CreateKeepsStream == ASSUME StreamInv, CreateResponse PROVE StreamInv'
<1> DEFINE e == [event |-> "stream_start"]
<1>1. streaming /\ Yield(e) /\ UNCHANGED <<ordered, items, streaming, blocks, active>>
  BY DEF CreateResponse
<1>2. e \in Event /\ e.event = "stream_start"
  BY DEF Event
<1> HIDE DEF e
<1>3. AsmInv'
  BY <1>1, <1>2, YieldWithoutBlock
<1>4. ItemsStay
  BY <1>1 DEF ItemsStay, StreamInv, TypeOK, Item
<1>5. HasCall' <=> HasCall
  BY <1>1 DEF HasCall
<1>6. streaming' \in BOOLEAN
  BY <1>1 DEF StreamInv, TypeOK
<1> QED
  BY <1>1, <1>3, <1>4, <1>5, <1>6, StreamStays

\* A new item: nothing, or a block, is started.
LEMMA AddIs ==
  ASSUME StreamInv, NEW content \in Content, AddItem(content)
  PROVE  /\ streaming /\ UNCHANGED <<ordered, streaming>>
         /\ ordered => \A i \in DOMAIN items : items[i].done
         /\ \/ content.kind = "other" /\ UNCHANGED asm
            \/ content.kind \in Kind /\ content.kind # "other" /\ StartBlock(content.kind)
<1>1. CASE content.kind = "other"
  BY <1>1 DEF AddItem, Consume, NormalizeAdded, Ignored, Normalized
<1>2. CASE content.kind # "other"
  <2>1. content.kind \in Kind
    BY <1>2 DEF Content, Kind
  <2>2. StartBlock(content.kind)
    BY <1>2 DEF AddItem, Consume, NormalizeAdded, Normalized
  <2> QED
    BY <1>2, <2>1, <2>2 DEF AddItem
<1> QED
  BY <1>1, <1>2 DEF AddItem

\* The items there were, and the new one.
LEMMA ItemAdded ==
  ASSUME StreamInv, NEW content \in Content, AddItem(content)
  PROVE  /\ items' \in Seq(Item) /\ Len(items') = Len(items) + 1 /\ Len(items) \in Nat
         /\ \A i \in 1 .. Len(items) : items'[i] = items[i]
         /\ items'[Len(items) + 1] = [content |-> content, sent |-> 0, done |-> FALSE]
         /\ items \in Seq(Item)
<1> DEFINE item == [content |-> content, sent |-> 0, done |-> FALSE]
<1>1. items \in Seq(Item) /\ items' = Append(items, item)
  BY DEF StreamInv, TypeOK, Item, AddItem
<1>2. item \in Item
  BY AssemblerAssumption DEF Item
<1> HIDE DEF item
<1> QED
  BY <1>1, <1>2, AppendProperties DEF item

\* An item is added.
LEMMA AddKeepsStream ==
  ASSUME StreamInv, NEW content \in Content, AddItem(content)
  PROVE  StreamInv'
<1> DEFINE M == Len(items)
<1>1. streaming /\ UNCHANGED <<ordered, streaming>>
  BY AddIs
<1>2. /\ items' \in Seq(Item) /\ Len(items') = M + 1 /\ M \in Nat
      /\ \A i \in 1 .. M : items'[i] = items[i]
      /\ items'[M + 1].content = content
      /\ items \in Seq(Item)
  <2> DEFINE item == [content |-> content, sent |-> 0, done |-> FALSE]
  <2>1. item.content = content
    OBVIOUS
  <2> HIDE DEF item
  <2>2. /\ items' \in Seq(Item) /\ Len(items') = M + 1 /\ M \in Nat
        /\ \A i \in 1 .. M : items'[i] = items[i]
        /\ items'[M + 1] = item
        /\ items \in Seq(Item)
    BY ItemAdded DEF item
  <2> QED
    BY <2>1, <2>2
<1>3. DOMAIN items = 1 .. M /\ DOMAIN items' = 1 .. (M + 1)
  BY <1>2
<1> DEFINE Call(s) == \E i \in DOMAIN s : s[i].content.kind = "tool_call"
<1>4. Call(items') <=> Call(items) \/ content.kind = "tool_call"
  BY <1>2, <1>3
<1>5. AsmInv' /\ (HasCall' <=> HasCall \/ content.kind = "tool_call")
  <2>1. CASE content.kind = "other" /\ UNCHANGED asm
    BY <1>1, <2>1, DroppedKeeps
  <2>2. CASE content.kind \in Kind /\ StartBlock(content.kind)
    <3>1. /\ AsmInv' /\ Len(blocks') = Len(blocks) + 1
          /\ blocks'[Len(blocks) + 1] = NewBlock(content.kind)
          /\ \A i \in 1 .. Len(blocks) : blocks'[i] = blocks[i]
      BY <1>1, <2>2, StartKeeps
    <3>2. DOMAIN blocks = 1 .. Len(blocks) /\ DOMAIN blocks' = 1 .. (Len(blocks) + 1) /\ Len(blocks) \in Nat
      BY <3>1 DEF StreamInv, TypeOK, AsmInv
    <3>3. NewBlock(content.kind).kind = content.kind
      BY DEF NewBlock
    <3>4. HasCall' <=> HasCall \/ content.kind = "tool_call"
      BY <3>1, <3>2, <3>3 DEF HasCall
    <3> QED
      BY <3>1, <3>4
  <2> QED
    BY <2>1, <2>2, AddIs
<1>6. CallsAreItems'
  BY <1>4, <1>5 DEF CallsAreItems, StreamInv
<1>7. TypeOK'
  BY <1>1, <1>2, <1>5 DEF TypeOK, StreamInv, AsmInv, Item
<1> QED
  BY <1>5, <1>6, <1>7 DEF StreamInv, AsmInv

\* A delta: dropped, or appended.
LEMMA DeltaIs ==
  ASSUME StreamInv, NEW i \in DOMAIN items, NEW piece \in Piece, SendDelta(i, piece)
  PROVE  /\ Open(i) /\ items[i].content.kind \in Kind /\ UNCHANGED <<ordered, streaming>>
         /\ items' = [items EXCEPT ![i] = [items[i] EXCEPT !.sent = @ + 1]]
         /\ [items[i] EXCEPT !.sent = @ + 1] \in Item
         /\ \/ ~IsActive(items[i].content.kind) /\ UNCHANGED asm
            \/ AppendDelta(items[i].content.kind, piece)
<1> DEFINE kind == items[i].content.kind
<1>1. Open(i) /\ kind # "other" /\ items[i].sent < MaxParts /\ UNCHANGED <<ordered, streaming>>
      /\ items' = [items EXCEPT ![i] = [items[i] EXCEPT !.sent = @ + 1]]
  BY DEF SendDelta
<1>2. items[i] \in Item /\ items[i].content \in Content /\ items[i].sent \in Nat
  BY <1>1, OpenIs
<1>3. kind \in Kind
  BY <1>1, <1>2 DEF Content, Kind
<1>4. [items[i] EXCEPT !.sent = @ + 1] \in Item
  BY <1>1, <1>2, AssemblerAssumption DEF Item
<1>5. (~IsActive(kind) /\ UNCHANGED asm) \/ AppendDelta(kind, piece)
  <2>1. Consume(Normalized("delta", kind, piece), i)
    BY DEF SendDelta
  <2> HIDE DEF kind
  <2> QED
    BY <2>1 DEF Consume, Normalized
<1> QED
  BY <1>1, <1>3, <1>4, <1>5

\* A delta is sent.
LEMMA DeltaKeepsStream ==
  ASSUME StreamInv, NEW i \in DOMAIN items, NEW piece \in Piece, SendDelta(i, piece)
  PROVE  StreamInv'
<1> DEFINE kind == items[i].content.kind
           item == [items[i] EXCEPT !.sent = @ + 1]
<1>1. /\ streaming /\ kind \in Kind /\ UNCHANGED <<ordered, streaming>>
      /\ items' = [items EXCEPT ![i] = item] /\ item \in Item
      /\ (~IsActive(kind) /\ UNCHANGED asm) \/ AppendDelta(kind, piece)
  BY DeltaIs DEF Open
<1>2. item.content = items[i].content
  OBVIOUS
<1> HIDE DEF item
<1>3. ItemsStay
  BY <1>1, <1>2, ItemReplaced
<1> HIDE DEF kind
<1>4. AsmInv' /\ (HasCall' <=> HasCall)
  <2>1. CASE UNCHANGED asm
    BY <1>1, <2>1, DroppedKeeps
  <2>2. CASE AppendDelta(kind, piece)
    <3>1. AsmInv' /\ \E b \in Block : Edited(b) /\ b.kind = kind
      BY <1>1, <2>2, DeltaKeeps
    <3>2. active # 0 /\ blocks[active].kind = kind
      BY <2>2 DEF AppendDelta, IsActive
    <3> QED
      BY <3>1, <3>2, EditedCalls
  <2> QED
    BY <1>1, <2>1, <2>2
<1>5. streaming' \in BOOLEAN
  BY <1>1 DEF StreamInv, TypeOK
<1> QED
  BY <1>1, <1>3, <1>4, <1>5, StreamStays

\* The end of a call's arguments: dropped, or kept.
LEMMA ArgumentsAre ==
  ASSUME StreamInv, NEW i \in DOMAIN items, FinishArguments(i)
  PROVE  /\ Open(i) /\ items[i].content.kind = "tool_call"
         /\ UNCHANGED <<ordered, items, streaming>>
         /\ \/ ~IsActive("tool_call") /\ UNCHANGED asm
            \/ \E arguments \in Object \cup {NoArguments} : ReplaceArguments(arguments)
<1> DEFINE arguments == ParseArguments(items[i].content.arguments)
<1>1. arguments \in Object \cup {NoArguments}
  BY DEF ParseArguments
<1>2. Consume(Normalized("arguments_done", "tool_call", arguments), i)
  BY DEF FinishArguments
<1> HIDE DEF arguments
<1>3. (~IsActive("tool_call") /\ UNCHANGED asm) \/ ReplaceArguments(arguments)
  BY <1>2 DEF Consume, Normalized
<1> QED
  BY <1>1, <1>3 DEF FinishArguments

\* A call's arguments are complete.
LEMMA ArgumentsKeepStream ==
  ASSUME StreamInv, NEW i \in DOMAIN items, FinishArguments(i)
  PROVE  StreamInv'
<1>1. /\ streaming /\ UNCHANGED <<ordered, items, streaming>>
      /\ \/ ~IsActive("tool_call") /\ UNCHANGED asm
         \/ \E arguments \in Object \cup {NoArguments} : ReplaceArguments(arguments)
  BY ArgumentsAre DEF Open
<1>2. ItemsStay
  BY <1>1 DEF ItemsStay, StreamInv, TypeOK, Item
<1>3. AsmInv' /\ (HasCall' <=> HasCall)
  <2>1. CASE UNCHANGED asm
    BY <1>1, <2>1, DroppedKeeps
  <2>2. ASSUME NEW arguments \in Object \cup {NoArguments}, ReplaceArguments(arguments)
        PROVE  AsmInv' /\ (HasCall' <=> HasCall)
    <3>1. AsmInv' /\ \E b \in Block : Edited(b) /\ b.kind = "tool_call"
      BY <1>1, <2>2, ArgumentsKeep
    <3>2. active # 0 /\ blocks[active].kind = "tool_call"
      BY <2>2 DEF ReplaceArguments, IsActive
    <3> QED
      BY <3>1, <3>2, EditedCalls
  <2> QED
    BY <1>1, <2>1, <2>2
<1>4. streaming' \in BOOLEAN
  BY <1>1 DEF StreamInv, TypeOK
<1> QED
  BY <1>1, <1>2, <1>3, <1>4, StreamStays

\* The end of an item: dropped, or its final block.
LEMMA FinishIs ==
  ASSUME StreamInv, NEW i \in DOMAIN items, FinishItem(i)
  PROVE  LET content == items[i].content
         IN  /\ Open(i) /\ UNCHANGED <<ordered, streaming>>
             /\ items' = [items EXCEPT ![i] = [items[i] EXCEPT !.done = TRUE]]
             /\ [items[i] EXCEPT !.done = TRUE] \in Item
             /\ \/ UNCHANGED asm /\ (content.kind = "other" \/ ~IsActive(content.kind))
                \/ /\ content.kind # "other"
                   /\ FinalizeBlock(content.kind, Final(content), i)
<1> DEFINE content == items[i].content
<1>1. /\ Open(i) /\ UNCHANGED <<ordered, streaming>>
      /\ items' = [items EXCEPT ![i] = [items[i] EXCEPT !.done = TRUE]]
      /\ Consume(NormalizeDone(content), i)
  BY DEF FinishItem
<1>2. items[i] \in Item /\ content \in Content
  BY <1>1, OpenIs
<1>3. [items[i] EXCEPT !.done = TRUE] \in Item
  BY <1>2 DEF Item
<1> HIDE DEF content
<1>4. CASE content.kind = "other"
  <2>1. NormalizeDone(content) = Ignored
    BY <1>4 DEF NormalizeDone
  <2>2. UNCHANGED asm
    BY <1>1, <2>1 DEF Consume, Ignored, Normalized
  <2> QED
    BY <1>1, <1>3, <1>4, <2>2 DEF content
<1>5. CASE content.kind # "other"
  <2> DEFINE final == Final(content)
             kind == content.kind
  <2>1. NormalizeDone(content) = Normalized("done", kind, final)
    BY <1>2, <1>5, FinalIs
  <2> HIDE DEF final, kind
  <2>2. (~IsActive(kind) /\ UNCHANGED asm) \/ FinalizeBlock(kind, final, i)
    BY <1>1, <2>1 DEF Consume, Normalized
  <2> QED
    BY <1>1, <1>3, <1>5, <2>2 DEF content, final, kind
<1> QED
  BY <1>4, <1>5

\* An item is finished.
LEMMA FinishKeepsStream ==
  ASSUME StreamInv, NEW i \in DOMAIN items, FinishItem(i)
  PROVE  StreamInv'
<1> DEFINE content == items[i].content
           item == [items[i] EXCEPT !.done = TRUE]
<1>1. /\ Open(i) /\ UNCHANGED <<ordered, streaming>>
      /\ items' = [items EXCEPT ![i] = item] /\ item \in Item
      /\ \/ UNCHANGED asm
         \/ content.kind # "other" /\ FinalizeBlock(content.kind, Final(content), i)
  BY FinishIs
<1>2. item.content = items[i].content
  OBVIOUS
<1> HIDE DEF item
<1>3. ItemsStay /\ streaming /\ i \in Nat /\ content \in Content
  BY <1>1, <1>2, ItemReplaced, OpenIs
<1> HIDE DEF content
<1>4. AsmInv' /\ (HasCall' <=> HasCall)
  <2>1. CASE UNCHANGED asm
    BY <1>1, <2>1, DroppedKeeps
  <2>2. CASE content.kind # "other" /\ FinalizeBlock(content.kind, Final(content), i)
    <3> DEFINE b == FinalBlock(blocks[active], Final(content), i)
    <3>1. content.kind \in Kind /\ Brings(content.kind, Final(content))
      BY <1>3, <2>2, FinalIs
    <3>2. AsmInv' /\ b \in Block /\ Edited(b) /\ b.kind = content.kind
      BY <1>3, <2>2, <3>1, FinalizeKeeps
    <3>3. active # 0 /\ blocks[active].kind = content.kind
      BY <2>2 DEF FinalizeBlock, IsActive
    <3> HIDE DEF b
    <3> QED
      BY <3>2, <3>3, EditedCalls
  <2> QED
    BY <1>1, <2>1, <2>2
<1>5. streaming' \in BOOLEAN
  BY <1>1 DEF StreamInv, TypeOK
<1> QED
  BY <1>1, <1>3, <1>4, <1>5, StreamStays

\* The last event of the stream.
LEMMA EndKeepsStream ==
  ASSUME StreamInv, streaming, streaming' = FALSE, UNCHANGED <<ordered, items, blocks, active>>,
         NEW e \in Event, Yield(e), IsTerminal(e), e.blocks = blocks, ReasonFits(e)
  PROVE  StreamInv'
<1>1. AsmInv'
  BY YieldTheEnd
<1>2. ItemsStay
  BY DEF ItemsStay, StreamInv, TypeOK, Item
<1>3. HasCall' <=> HasCall
  BY DEF HasCall
<1> QED
  BY <1>1, <1>2, <1>3, StreamStays

\* The terminal events.
LEMMA TerminalsAre ==
  ASSUME StreamInv
  PROVE  /\ StreamError \in Event /\ IsTerminal(StreamError) /\ StreamError.blocks = blocks
         /\ ReasonFits(StreamError)
         /\ \A base \in {"stop", "length"} :
               LET e == StreamDone(StopReason(base, Output))
               IN  e \in Event /\ IsTerminal(e) /\ e.blocks = blocks /\ ReasonFits(e)
<1>1. blocks \in Seq(Block)
  BY DEF StreamInv, TypeOK
<1>2. /\ StreamError \in Event /\ IsTerminal(StreamError) /\ StreamError.blocks = blocks
      /\ ReasonFits(StreamError)
  BY <1>1 DEF StreamError, Event, IsTerminal, ReasonFits
<1>3. ASSUME NEW base \in {"stop", "length"}
      PROVE  LET e == StreamDone(StopReason(base, Output))
             IN  e \in Event /\ IsTerminal(e) /\ e.blocks = blocks /\ ReasonFits(e)
  <2> DEFINE reason == StopReason(base, Output)
             e == StreamDone(reason)
  <2>1. /\ reason \in {"stop", "tool_use", "length"}
        /\ reason # "length" => base = "stop"
    BY DEF StopReason
  <2>2. base = "stop" =>
           (reason = "tool_use" <=> \E i \in DOMAIN Output : Output[i].kind = "tool_call")
    BY DEF StopReason
  <2>3. (\E i \in DOMAIN Output : Output[i].kind = "tool_call") <=> HasCall
    BY DEF Output, StreamInv, CallsAreItems
  <2> HIDE DEF reason
  <2>4. e \in Event /\ e.event = "stream_done" /\ e.reason = reason /\ e.blocks = blocks
    BY <1>1, <2>1 DEF StreamDone, Event
  <2> HIDE DEF e
  <2>5. IsTerminal(e) /\ ReasonFits(e)
    BY <2>1, <2>2, <2>3, <2>4 DEF IsTerminal, ReasonFits
  <2> QED
    BY <2>4, <2>5 DEF e, reason
<1> QED
  BY <1>2, <1>3

\* Every step keeps what is said of the stream.
LEMMA NextStreamInv == StreamInv /\ [Next]_vars => StreamInv'
<1> SUFFICES ASSUME StreamInv, [Next]_vars PROVE StreamInv'
  OBVIOUS
<1>1. CASE CreateResponse
  BY <1>1, CreateKeepsStream
<1>2. ASSUME NEW content \in Content, AddItem(content) PROVE StreamInv'
  BY <1>2, AddKeepsStream
<1>3. ASSUME NEW i \in DOMAIN items, NEW piece \in Piece, SendDelta(i, piece) PROVE StreamInv'
  BY <1>3, DeltaKeepsStream
<1>4. ASSUME NEW i \in DOMAIN items, FinishArguments(i) PROVE StreamInv'
  BY <1>4, ArgumentsKeepStream
<1>5. ASSUME NEW i \in DOMAIN items, FinishItem(i) PROVE StreamInv'
  BY <1>5, FinishKeepsStream
<1>6. CASE Complete
  <2> DEFINE e == StreamDone(StopReason("stop", Output))
  <2>1. e \in Event /\ IsTerminal(e) /\ e.blocks = blocks /\ ReasonFits(e)
    BY TerminalsAre
  <2>2. streaming /\ streaming' = FALSE /\ Yield(e) /\ UNCHANGED <<ordered, items, blocks, active>>
    BY <1>6 DEF Complete
  <2> HIDE DEF e
  <2> QED
    BY <2>1, <2>2, EndKeepsStream
<1>7. ASSUME NEW reason \in {"max_output_tokens", "content_filter"}, CutOff(reason)
      PROVE  StreamInv'
  <2> DEFINE e == IF reason = "content_filter" THEN StreamError
                  ELSE StreamDone(StopReason("length", Output))
  <2>1. e \in Event /\ IsTerminal(e) /\ e.blocks = blocks /\ ReasonFits(e)
    BY TerminalsAre
  <2>2. streaming /\ streaming' = FALSE /\ Yield(e) /\ UNCHANGED <<ordered, items, blocks, active>>
    BY <1>7 DEF CutOff
  <2> HIDE DEF e
  <2> QED
    BY <2>1, <2>2, EndKeepsStream
<1>8. CASE Fail
  <2>1. streaming /\ streaming' = FALSE /\ Yield(StreamError) /\ UNCHANGED <<ordered, items, blocks, active>>
    BY <1>8 DEF Fail
  <2> QED
    BY <2>1, TerminalsAre, EndKeepsStream
<1>9. CASE Disconnect \/ UNCHANGED vars
  <2>1. UNCHANGED <<ordered, items, asm>> /\ (streaming' => streaming) /\ streaming' \in BOOLEAN
    <3>1. CASE Disconnect
      BY <3>1 DEF Disconnect
    <3>2. CASE UNCHANGED vars
      <4>1. UNCHANGED <<ordered, items, asm>> /\ streaming' = streaming
        BY <3>2 DEF vars
      <4>2. streaming \in BOOLEAN
        BY DEF StreamInv, TypeOK
      <4> QED
        BY <4>1, <4>2
    <3> QED
      BY <1>9, <3>1, <3>2
  <2>2. ItemsStay
    BY <2>1 DEF ItemsStay, StreamInv, TypeOK, Item
  <2>3. AsmInv' /\ (HasCall' <=> HasCall)
    BY <2>1, DroppedKeeps
  <2> QED
    BY <2>1, <2>2, <2>3, StreamStays
<1> QED
  BY <1>1, <1>2, <1>3, <1>4, <1>5, <1>6, <1>7, <1>8, <1>9 DEF Next

\* It holds before the first event.
LEMMA InitStreamInv == Init => StreamInv
<1> SUFFICES ASSUME Init PROVE StreamInv
  OBVIOUS
<1>1. /\ ordered \in BOOLEAN /\ items = <<>> /\ streaming = TRUE /\ blocks = <<>>
      /\ active = 0 /\ events = <<>>
  BY DEF Init
<1>2. /\ items \in Seq(Item) /\ blocks \in Seq(Block) /\ events \in Seq(Event)
      /\ Len(blocks) = 0 /\ Len(events) = 0 /\ DOMAIN events = {} /\ DOMAIN items = {}
      /\ DOMAIN blocks = {}
  BY <1>1
<1>3. StartsAreBlocks
  <2>1. {j \in 1 .. 0 : events[j].event = "start"} = {}
    OBVIOUS
  <2> QED
    BY <1>2, <2>1, FS_EmptySet DEF StartsAreBlocks, Started
<1>4. ScreenAgrees
  <2>1. Shown(events) = <<>>
    BY <1>1, ShownEmpty
  <2> QED
    BY <1>1, <1>2, <2>1 DEF ScreenAgrees
<1>5. EndedBlocksStay /\ TerminalEnds /\ CallsAreItems /\ StreamIsWellFormed
  BY <1>1, <1>2 DEF EndedBlocksStay, TerminalEnds, CallsAreItems, HasCall, StreamIsWellFormed
<1>6. TypeOK
  BY <1>1, <1>2 DEF TypeOK, Item
<1> QED
  BY <1>3, <1>4, <1>5, <1>6 DEF StreamInv

-----------------------------------------------------------------------------
(* From an ordered service.                                                *)

\* The first n items are the same.
SameContents(s, t, n) == n \in Nat /\ \A j \in 1 .. n : t[j].content = s[j].content

\* The first items have the same blocks in longer and in changed sequences.
LEMMA MappedAgrees ==
  ASSUME NEW s, NEW t, NEW n, SameContents(s, t, n)
  PROVE  \A m \in 0 .. n : Mapped(t, m) = Mapped(s, m)
<1> SUFFICES ASSUME NEW m \in 0 .. n PROVE Mapped(t, m) = Mapped(s, m)
  OBVIOUS
<1>1. \A j \in 1 .. m : t[j].content = s[j].content
  BY DEF SameContents
<1>2. {j \in 1 .. m : t[j].content.kind # "other"} = {j \in 1 .. m : s[j].content.kind # "other"}
  BY <1>1
<1> QED
  BY <1>2 DEF Mapped

\* Blocks are counted one by one.
LEMMA MappedCounts ==
  ASSUME NEW s, NEW n \in Nat
  PROVE  /\ Mapped(s, n) \in Nat
         /\ Mapped(s, n + 1) = Mapped(s, n) + (IF s[n + 1].content.kind # "other" THEN 1 ELSE 0)
         /\ \A m \in 0 .. n : Mapped(s, m) \in Nat /\ Mapped(s, m) <= Mapped(s, n)
<1> DEFINE S == {j \in 1 .. (n + 1) : s[j].content.kind # "other"}
<1>1. ASSUME NEW m \in 0 .. (n + 1) PROVE Mapped(s, m) = Cardinality(UpToIn(m, S))
  <2>1. UpToIn(m, S) = {j \in 1 .. m : s[j].content.kind # "other"}
    BY DEF UpToIn
  <2> QED
    BY <2>1 DEF Mapped
<1>2. n + 1 \in S <=> s[n + 1].content.kind # "other"
  OBVIOUS
<1> HIDE DEF S
<1>3. /\ Cardinality(UpToIn(n, S)) \in Nat
      /\ Cardinality(UpToIn(n + 1, S))
             = Cardinality(UpToIn(n, S)) + (IF n + 1 \in S THEN 1 ELSE 0)
  BY CountStep
<1>4. ASSUME NEW m \in 0 .. n
      PROVE  Cardinality(UpToIn(m, S)) \in Nat /\ Cardinality(UpToIn(m, S)) <= Cardinality(UpToIn(n, S))
  <2>1. IsFiniteSet(1 .. n)
    BY FS_Interval
  <2>2. UpToIn(n, S) \subseteq 1 .. n /\ UpToIn(m, S) \subseteq UpToIn(n, S)
    BY DEF UpToIn
  <2>3. IsFiniteSet(UpToIn(n, S))
    BY <2>1, <2>2, FS_Subset
  <2> QED
    BY <2>2, <2>3, FS_Subset, FS_CardinalityType
<1>5. n \in 0 .. (n + 1) /\ n + 1 \in 0 .. (n + 1) /\ \A m \in 0 .. n : m \in 0 .. (n + 1)
  OBVIOUS
<1> QED
  BY <1>1, <1>2, <1>3, <1>4, <1>5

\* Of an item with a block, the block is there and after all before it.
LEMMA MappedGrows ==
  ASSUME NEW s, NEW n \in Nat, NEW i \in 1 .. n, s[i].content.kind # "other"
  PROVE  /\ Mapped(s, i) \in 1 .. Mapped(s, n)
         /\ \A m \in 0 .. i - 1 : Mapped(s, m) < Mapped(s, i)
<1>1. i - 1 \in Nat /\ (i - 1) + 1 = i /\ i \in Nat
  OBVIOUS
<1>2. ASSUME NEW m \in Nat
      PROVE  /\ Mapped(s, m) \in Nat
             /\ Mapped(s, m + 1) = Mapped(s, m) + (IF s[m + 1].content.kind # "other" THEN 1 ELSE 0)
             /\ \A k \in 0 .. m : Mapped(s, k) \in Nat /\ Mapped(s, k) <= Mapped(s, m)
  BY MappedCounts
<1>3. Mapped(s, i) = Mapped(s, i - 1) + 1 /\ Mapped(s, i - 1) \in Nat
  BY <1>1, <1>2
<1>4. \A m \in 0 .. i - 1 : Mapped(s, m) \in Nat /\ Mapped(s, m) <= Mapped(s, i - 1)
  BY <1>1, <1>2
<1>5. Mapped(s, i) \in Nat /\ Mapped(s, i) <= Mapped(s, n) /\ Mapped(s, n) \in Nat
  BY <1>1, <1>2
<1> QED
  BY <1>3, <1>4, <1>5

\* What the block of a finished item, the ith, is.
Answers(item, i, block) ==
    LET content == item.content
    IN  /\ block.kind = content.kind
        /\ block.item = i
        /\ content.kind = "message" => block.text = NonEmpty(content.parts)
        /\ content.kind = "reasoning" =>
              IF NonEmpty(content.parts) = <<>>
              THEN Len(block.text) = item.sent
              ELSE Len(block.text) = 2 * Len(NonEmpty(content.parts)) - 1
        /\ content.kind = "tool_call" =>
              block.arguments = IF content.arguments = Garbled THEN NoArguments
                                ELSE content.arguments

\* The same of all the finished items.
AllAnswered(s, turn) ==
    \A i \in DOMAIN s :
        s[i].done /\ s[i].content.kind # "other" => Answers(s[i], i, turn[Mapped(s, i)])

\* TurnIsTheResponse in these terms.
LEMMA TurnIs == /\ TurnIsTheResponse <=> (ordered => AllAnswered(items, blocks))
                /\ TurnIsTheResponse' <=> (ordered' => AllAnswered(items', blocks'))
<1>1. ASSUME NEW s, NEW turn
      PROVE  AllAnswered(s, turn) <=>
        \A i \in DOMAIN s :
            LET content == s[i].content
                block == turn[Mapped(s, i)]
            IN  s[i].done /\ content.kind # "other" =>
                  /\ block.kind = content.kind
                  /\ block.item = i
                  /\ content.kind = "message" => block.text = NonEmpty(content.parts)
                  /\ content.kind = "reasoning" =>
                        IF NonEmpty(content.parts) = <<>>
                        THEN Len(block.text) = s[i].sent
                        ELSE Len(block.text) = 2 * Len(NonEmpty(content.parts)) - 1
                  /\ content.kind = "tool_call" =>
                        block.arguments = IF content.arguments = Garbled THEN NoArguments
                                          ELSE content.arguments
  BY Zenon DEF AllAnswered, Answers
<1> QED
  BY <1>1, Zenon DEF TurnIsTheResponse, BlockOf, Mapped

\* An item that is not finished is the last, and has the active block.
LEMMA OpenIsLast ==
  ASSUME NEW s \in Seq(Item), NEW turn \in Seq(Block), NEW a, TakeTurns(s, turn, a),
         NEW i \in DOMAIN s, ~s[i].done
  PROVE  /\ i = Len(s) /\ i \in 1 .. i
         /\ s[i].content.kind = "other" => ~LastIsOpen(s) /\ a = 0
         /\ s[i].content.kind # "other" =>
               /\ LastIsOpen(s)
               /\ a = Len(turn) /\ a = Mapped(s, i) /\ a \in 1 .. Len(turn)
               /\ turn[a].kind = s[i].content.kind
<1>1. DOMAIN s = 1 .. Len(s) /\ Len(s) \in Nat
  OBVIOUS
<1>2. i = Len(s) /\ i \in 1 .. i /\ i \in Nat
  BY <1>1 DEF TakeTurns
<1>3. CASE s[i].content.kind = "other"
  BY <1>2, <1>3 DEF TakeTurns, LastIsOpen
<1>4. CASE s[i].content.kind # "other"
  <2>1. LastIsOpen(s)
    BY <1>2, <1>4 DEF LastIsOpen
  <2>2. a = Len(turn) /\ Len(turn) = Mapped(s, i) /\ turn[a].kind = s[i].content.kind
    BY <1>2, <2>1 DEF TakeTurns
  <2>3. Mapped(s, i) \in 1 .. Mapped(s, i)
    BY <1>2, <1>4, MappedGrows
  <2> QED
    BY <1>2, <1>4, <2>1, <2>2, <2>3
<1> QED
  BY <1>2, <1>3, <1>4

\* The ith item is one step further, the others stay.
ItemMoves(s, t, i) ==
    /\ Len(t) = Len(s)
    /\ t[i].content = s[i].content
    /\ \A j \in 1 .. Len(s) : j # i => t[j] = s[j]

\* The active block becomes b, the others stay.
BlockMoves(turn, after, a, b) ==
    /\ Len(after) = Len(turn)
    /\ \A j \in 1 .. Len(turn) : after[j] = IF j = a THEN b ELSE turn[j]
    /\ b.kind = turn[a].kind

\* An open item has the active block, with its text; a finished one its answer.
GoTogether(item, i, b, a, c) ==
    /\ item.done => c = 0 /\ Answers(item, i, b)
    /\ ~item.done => c = a /\ (b.kind = "reasoning" => Len(b.text) = item.sent)

\* The item and its block are one step further.
LEMMA TurnsEdited ==
  ASSUME NEW s \in Seq(Item), NEW turn \in Seq(Block), NEW a,
         TakeTurns(s, turn, a), AllAnswered(s, turn),
         NEW i \in DOMAIN s, ~s[i].done, s[i].content.kind # "other",
         NEW t \in Seq(Item), NEW after \in Seq(Block), NEW b \in Block, NEW c,
         ItemMoves(s, t, i), BlockMoves(turn, after, a, b), GoTogether(t[i], i, b, a, c)
  PROVE  TakeTurns(t, after, c) /\ AllAnswered(t, after)
<1>20. /\ Len(t) = Len(s) /\ t[i].content = s[i].content
       /\ \A j \in 1 .. Len(s) : j # i => t[j] = s[j]
  BY DEF ItemMoves
<1>21. /\ Len(after) = Len(turn) /\ b.kind = turn[a].kind
       /\ \A j \in 1 .. Len(turn) : after[j] = IF j = a THEN b ELSE turn[j]
  BY DEF BlockMoves
<1>22. /\ t[i].done => c = 0 /\ Answers(t[i], i, b)
       /\ ~t[i].done => c = a /\ (b.kind = "reasoning" => Len(b.text) = t[i].sent)
  BY DEF GoTogether
<1> DEFINE n == Len(s)
<1>1. DOMAIN s = 1 .. n /\ DOMAIN t = 1 .. n /\ n \in Nat /\ \A j \in 1 .. n : j \in Nat
  BY <1>20
<1>2. /\ i = n /\ n \in 1 .. n /\ LastIsOpen(s)
      /\ a = Len(turn) /\ a = Mapped(s, n) /\ a \in 1 .. Len(turn)
      /\ turn[a].kind = s[n].content.kind
  BY OpenIsLast
<1>3. \A j \in 1 .. n : t[j].content = s[j].content
  BY <1>2, <1>20
<1>4. \A m \in 0 .. n : Mapped(t, m) = Mapped(s, m)
  <2>1. SameContents(s, t, n)
    BY <1>1, <1>3 DEF SameContents
  <2> QED
    BY <2>1, MappedAgrees
<1>0. Mapped(t, n) = Mapped(s, n) /\ Len(t) = n /\ Len(s) = n
  <2>1. n \in 0 .. n
    BY <1>1
  <2> QED
    BY <1>4, <1>20, <2>1
<1>5. LastIsOpen(t) <=> ~t[n].done
  BY <1>0, <1>2, <1>3 DEF LastIsOpen
<1>6. after[a] = b
  BY <1>2, <1>21
<1>7. TakeTurns(t, after, c)
  <2>1. \A j \in DOMAIN t : j < Len(t) => t[j].done
    BY <1>0, <1>1, <1>2, <1>20 DEF TakeTurns
  <2>2. Len(after) = Mapped(t, Len(t))
    BY <1>0, <1>2, <1>21, Zenon
  <2>3. c = IF LastIsOpen(t) THEN Len(after) ELSE 0
    BY <1>2, <1>5, <1>21, <1>22
  <2>4. LastIsOpen(t) =>
          /\ after[c].kind = t[Len(t)].content.kind
          /\ after[c].kind = "reasoning" => Len(after[c].text) = t[Len(t)].sent
    BY <1>0, <1>2, <1>3, <1>5, <1>6, <1>21, <1>22
  <2> QED
    BY <2>1, <2>2, <2>3, <2>4 DEF TakeTurns
<1>8. ASSUME NEW j \in DOMAIN t, t[j].done, t[j].content.kind # "other"
      PROVE  Answers(t[j], j, after[Mapped(t, j)])
  <2>0. j \in 1 .. n /\ j \in 0 .. n
    BY <1>1
  <2>1. CASE j = n
    <3>1. Mapped(t, j) = a
      BY <1>2, <1>4, <2>0, <2>1
    <3> QED
      BY <1>2, <1>6, <1>8, <1>22, <2>1, <3>1
  <2>2. CASE j # n
    <3>1. t[j] = s[j] /\ Mapped(t, j) = Mapped(s, j) /\ j \in DOMAIN s
      BY <1>1, <1>2, <1>4, <1>20, <2>0, <2>2
    <3>2. Mapped(s, j) \in 1 .. Mapped(s, n)
      BY <1>1, <1>8, <2>0, <3>1, MappedGrows
    <3>3. Mapped(s, j) < Mapped(s, n)
      <4>1. j \in 0 .. n - 1
        <5> HIDE DEF n
        <5> QED
          BY <1>1, <2>0, <2>2
      <4>2. s[n].content.kind # "other"
        BY <1>2
      <4> QED
        BY <1>2, <4>1, <4>2, MappedGrows
    <3>4. after[Mapped(s, j)] = turn[Mapped(s, j)]
      BY <1>2, <1>21, <3>2, <3>3
    <3>5. Answers(s[j], j, turn[Mapped(s, j)])
      BY <1>8, <3>1 DEF AllAnswered
    <3> QED
      BY <3>1, <3>4, <3>5
  <2> QED
    BY <2>1, <2>2
<1> QED
  BY <1>7, <1>8 DEF AllAnswered

\* An item without a block is one step further.
LEMMA TurnsSkipped ==
  ASSUME NEW s \in Seq(Item), NEW turn \in Seq(Block), NEW a,
         TakeTurns(s, turn, a), AllAnswered(s, turn),
         NEW i \in DOMAIN s, ~s[i].done, s[i].content.kind = "other",
         NEW t \in Seq(Item), Len(t) = Len(s), t[i].content = s[i].content,
         \A j \in 1 .. Len(s) : j # i => t[j] = s[j]
  PROVE  TakeTurns(t, turn, a) /\ AllAnswered(t, turn)
<1> DEFINE n == Len(s)
<1>1. DOMAIN s = 1 .. n /\ DOMAIN t = 1 .. n /\ n \in Nat
  OBVIOUS
<1>2. i = n /\ n \in 1 .. n /\ ~LastIsOpen(s) /\ a = 0
  BY OpenIsLast
<1>3. \A j \in 1 .. n : t[j].content = s[j].content
  BY <1>2
<1>4. \A m \in 0 .. n : Mapped(t, m) = Mapped(s, m)
  <2>1. SameContents(s, t, n)
    BY <1>1, <1>3 DEF SameContents
  <2> QED
    BY <2>1, MappedAgrees
<1>0. Mapped(t, n) = Mapped(s, n) /\ Len(t) = n /\ Len(s) = n
  <2>1. n \in 0 .. n
    BY <1>1
  <2> QED
    BY <1>4, <2>1
<1>5. ~LastIsOpen(t)
  BY <1>2 DEF LastIsOpen
<1>6. TakeTurns(t, turn, a)
  <2>1. Len(turn) = Mapped(s, n)
    BY DEF TakeTurns
  <2>2. Len(turn) = Mapped(t, Len(t))
    BY <1>0, <2>1, Zenon
  <2>3. \A j \in DOMAIN t : j < Len(t) => t[j].done
    BY <1>1, <1>2 DEF TakeTurns
  <2> QED
    BY <1>2, <1>5, <2>2, <2>3 DEF TakeTurns
<1>7. ASSUME NEW j \in DOMAIN t, t[j].done, t[j].content.kind # "other"
      PROVE  Answers(t[j], j, turn[Mapped(t, j)])
  <2>0. t[n].content.kind = "other"
    BY <1>2
  <2>1. j # n /\ j \in 0 .. n
    <3>1. j # n
      BY <1>7, <2>0
    <3>2. j \in 1 .. n
      BY <1>1
    <3> HIDE DEF n
    <3> QED
      BY <3>1, <3>2, <1>1
  <2>2. t[j] = s[j] /\ Mapped(t, j) = Mapped(s, j) /\ j \in DOMAIN s
    BY <1>1, <1>2, <1>4, <2>1
  <2> QED
    BY <1>7, <2>2 DEF AllAnswered
<1> QED
  BY <1>6, <1>7 DEF AllAnswered

\* An item added to finished ones, with its block or without.
Adds(s, turn, a, t, after, c) ==
    /\ s \in Seq(Item) /\ turn \in Seq(Block)
    /\ TakeTurns(s, turn, a) /\ AllAnswered(s, turn) /\ \A j \in DOMAIN s : s[j].done
    /\ t \in Seq(Item) /\ Len(t) = Len(s) + 1 /\ \A j \in 1 .. Len(s) : t[j] = s[j]
    /\ ~t[Len(t)].done /\ t[Len(t)].sent = 0
    /\ after \in Seq(Block)
    /\ \A j \in 1 .. Len(turn) : after[j] = turn[j]
    /\ t[Len(t)].content.kind = "other" => Len(after) = Len(turn) /\ c = a
    /\ t[Len(t)].content.kind # "other" =>
          /\ Len(after) = Len(turn) + 1 /\ c = Len(after)
          /\ after[c].kind = t[Len(t)].content.kind /\ Len(after[c].text) = 0

\* It takes its turn.
LEMMA TurnsAdded ==
  ASSUME NEW s, NEW turn, NEW a, NEW t, NEW after, NEW c, Adds(s, turn, a, t, after, c)
  PROVE  TakeTurns(t, after, c) /\ AllAnswered(t, after)
<1> SUFFICES ASSUME s \in Seq(Item), turn \in Seq(Block),
                    TakeTurns(s, turn, a), AllAnswered(s, turn), \A j \in DOMAIN s : s[j].done,
                    t \in Seq(Item), Len(t) = Len(s) + 1, \A j \in 1 .. Len(s) : t[j] = s[j],
                    ~t[Len(t)].done, t[Len(t)].sent = 0,
                    after \in Seq(Block),
                    \A j \in 1 .. Len(turn) : after[j] = turn[j],
                    t[Len(t)].content.kind = "other" => Len(after) = Len(turn) /\ c = a,
                    t[Len(t)].content.kind # "other" =>
                        /\ Len(after) = Len(turn) + 1 /\ c = Len(after)
                        /\ after[c].kind = t[Len(t)].content.kind /\ Len(after[c].text) = 0
             PROVE  TakeTurns(t, after, c) /\ AllAnswered(t, after)
  BY DEF Adds
<1> DEFINE n == Len(s)
<1>1. DOMAIN s = 1 .. n /\ DOMAIN t = 1 .. (n + 1) /\ n \in Nat /\ Len(t) = n + 1
  OBVIOUS
<1>2. \A m \in 0 .. n : Mapped(t, m) = Mapped(s, m)
  <2>1. SameContents(s, t, n)
    BY <1>1 DEF SameContents
  <2> QED
    BY <2>1, MappedAgrees
<1>3. Mapped(t, n + 1) = Mapped(t, n) + (IF t[n + 1].content.kind # "other" THEN 1 ELSE 0)
  BY <1>1, MappedCounts
<1>4. Len(turn) = Mapped(s, n) /\ Mapped(t, n) = Mapped(s, n)
  BY <1>1, <1>2 DEF TakeTurns
<1>5. ~LastIsOpen(s) /\ a = 0
  BY <1>1 DEF TakeTurns, LastIsOpen
<1>6. LastIsOpen(t) <=> t[n + 1].content.kind # "other"
  BY <1>1 DEF LastIsOpen
<1>7. TakeTurns(t, after, c)
  <2>1. \A j \in DOMAIN t : j < Len(t) => t[j].done
    BY <1>1
  <2>2. Len(after) = Mapped(t, Len(t))
    BY <1>1, <1>3, <1>4
  <2>3. c = IF LastIsOpen(t) THEN Len(after) ELSE 0
    BY <1>1, <1>5, <1>6
  <2>4. LastIsOpen(t) =>
          /\ after[c].kind = t[Len(t)].content.kind
          /\ after[c].kind = "reasoning" => Len(after[c].text) = t[Len(t)].sent
    BY <1>1, <1>6
  <2> QED
    BY <2>1, <2>2, <2>3, <2>4 DEF TakeTurns
<1>8. ASSUME NEW j \in DOMAIN t, t[j].done, t[j].content.kind # "other"
      PROVE  Answers(t[j], j, after[Mapped(t, j)])
  <2>1. j # n + 1 /\ j \in 1 .. n /\ j \in 0 .. n
    BY <1>1, <1>8
  <2>2. t[j] = s[j] /\ Mapped(t, j) = Mapped(s, j) /\ j \in DOMAIN s
    BY <1>1, <1>2, <2>1
  <2>3. Mapped(s, j) \in 1 .. Mapped(s, n)
    BY <1>1, <1>8, <2>1, <2>2, MappedGrows
  <2>4. after[Mapped(s, j)] = turn[Mapped(s, j)]
    BY <1>4, <2>3
  <2> QED
    BY <1>8, <2>2, <2>4 DEF AllAnswered
<1> QED
  BY <1>7, <1>8 DEF AllAnswered

\* An item's final block is the answer to it.
LEMMA FinalAnswers ==
  ASSUME NEW item \in Item, item.content.kind # "other", NEW i \in Nat, NEW block \in Block,
         block.kind = item.content.kind,
         block.kind = "reasoning" => Len(block.text) = item.sent
  PROVE  Answers(item, i, FinalBlock(block, Final(item.content), i))
<1> DEFINE content == item.content
           final == Final(content)
           b == FinalBlock(block, final, i)
<1>1. content \in Content
  BY DEF Item
<1>2. content.kind \in Kind /\ Brings(content.kind, final)
  BY <1>1, FinalIs
<1> HIDE DEF final
<1>3. /\ b.kind = block.kind /\ b.item = i
      /\ block.kind = "message" => b.text = final
      /\ block.kind = "reasoning" => b.text = IF final = <<>> THEN block.text ELSE final
      /\ block.kind = "tool_call" => b.arguments = final
  BY <1>2, FinalBlockIs
<1> HIDE DEF b
<1>4. content.kind = "message" => b.text = NonEmpty(content.parts)
  BY <1>3 DEF final, Final
<1>5. content.kind = "reasoning" =>
         IF NonEmpty(content.parts) = <<>> THEN Len(b.text) = item.sent
         ELSE Len(b.text) = 2 * Len(NonEmpty(content.parts)) - 1
  <2> SUFFICES ASSUME content.kind = "reasoning"
               PROVE  IF NonEmpty(content.parts) = <<>> THEN Len(b.text) = item.sent
                      ELSE Len(b.text) = 2 * Len(NonEmpty(content.parts)) - 1
    OBVIOUS
  <2>1. final = JoinSummary(content.parts)
    BY DEF final, Final
  <2>2. content.parts \in Parts
    BY <1>1 DEF Content
  <2>3. /\ NonEmpty(content.parts) = <<>> => final = <<>>
        /\ NonEmpty(content.parts) # <<>> =>
              final # <<>> /\ Len(final) = 2 * Len(NonEmpty(content.parts)) - 1
    BY <2>1, <2>2, JoinSummaryIs
  <2> QED
    BY <1>3, <2>3
<1>6. content.kind = "tool_call" =>
         b.arguments = IF content.arguments = Garbled THEN NoArguments ELSE content.arguments
  <2> SUFFICES ASSUME content.kind = "tool_call"
               PROVE  b.arguments = IF content.arguments = Garbled THEN NoArguments
                                    ELSE content.arguments
    OBVIOUS
  <2>1. final = ParseArguments(content.arguments)
    BY DEF final, Final
  <2>2. content.arguments \in RawArguments
    BY <1>1 DEF Content
  <2> QED
    BY <1>3, <2>1, <2>2, AssemblerAssumption DEF ParseArguments, RawArguments
<1> QED
  BY <1>3, <1>4, <1>5, <1>6 DEF Answers, b, final

\* What IInv says of a response whose items take turns.
Orderly(s, turn, a) == TakeTurns(s, turn, a) /\ AllAnswered(s, turn)

\* IInv in these terms.
LEMMA IInvIs ==
  /\ IInv => StreamInv /\ (ordered => Orderly(items, blocks, active))
  /\ StreamInv' /\ (ordered' => Orderly(items', blocks', active')) => IInv'
<1>1. TurnIsTheResponse <=> (ordered => AllAnswered(items, blocks))
  BY TurnIs
<1>2. TurnIsTheResponse' <=> (ordered' => AllAnswered(items', blocks'))
  BY TurnIs
<1> QED
  BY <1>1, <1>2 DEF IInv, Orderly, ItemsTakeTurns

\* The items and the blocks are sequences.
LEMMA SequencesAre ==
  ASSUME StreamInv
  PROVE  items \in Seq(Item) /\ blocks \in Seq(Block) /\ DOMAIN items = 1 .. Len(items)
  BY DEF StreamInv, TypeOK, Item

\* An added item takes its turn.
LEMMA AddKeepsOrder ==
  ASSUME StreamInv, StreamInv', ordered, Orderly(items, blocks, active),
         NEW content \in Content, AddItem(content)
  PROVE  Orderly(items', blocks', active')
<1> DEFINE n == Len(items)
<1>1. \A j \in DOMAIN items : items[j].done
  BY AddIs
<1>2. /\ Len(items') = n + 1 /\ n \in Nat
      /\ \A i \in 1 .. n : items'[i] = items[i]
      /\ items'[n + 1] = [content |-> content, sent |-> 0, done |-> FALSE]
  BY ItemAdded
<1>3. items'[n + 1].content = content /\ items'[n + 1].sent = 0 /\ ~items'[n + 1].done
  BY <1>2
<1>4. items \in Seq(Item) /\ blocks \in Seq(Block)
  BY SequencesAre
<1>5. items' \in Seq(Item) /\ blocks' \in Seq(Block)
  BY DEF StreamInv, TypeOK, Item
<1> HIDE DEF n
<1>6. Len(items) = n
  BY DEF n
<1>7. CASE content.kind = "other" /\ UNCHANGED asm
  <2>1. blocks' = blocks /\ active' = active
    BY <1>7 DEF asm
  <2>2. items'[Len(items')].content.kind = "other"
    BY <1>2, <1>3, <1>7
  <2>3. ~items'[Len(items')].done /\ items'[Len(items')].sent = 0 /\ Len(items') = Len(items) + 1
        /\ \A i \in 1 .. Len(items) : items'[i] = items[i]
    BY <1>2, <1>3, <1>6
  <2> DEFINE t == items'
  <2>4. /\ t \in Seq(Item) /\ t[Len(t)].content.kind = "other"
        /\ ~t[Len(t)].done /\ t[Len(t)].sent = 0 /\ Len(t) = Len(items) + 1
        /\ \A i \in 1 .. Len(items) : t[i] = items[i]
    BY <1>5, <2>2, <2>3
  <2> HIDE DEF t
  <2>5. TakeTurns(items, blocks, active) /\ AllAnswered(items, blocks)
    BY DEF Orderly
  <2>6. Adds(items, blocks, active, t, blocks, active)
    BY <1>1, <1>4, <2>4, <2>5 DEF Adds
  <2>7. TakeTurns(t, blocks, active) /\ AllAnswered(t, blocks)
    BY <2>6, TurnsAdded
  <2> QED
    BY <2>1, <2>7 DEF Orderly, t
<1>8. CASE content.kind \in Kind /\ content.kind # "other" /\ StartBlock(content.kind)
  <2>1. /\ Len(blocks') = Len(blocks) + 1 /\ blocks'[Len(blocks) + 1] = NewBlock(content.kind)
        /\ \A i \in 1 .. Len(blocks) : blocks'[i] = blocks[i]
        /\ active' = Len(blocks) + 1
    BY <1>8, AddIs, StartKeeps
  <2>2. NewBlock(content.kind).kind = content.kind /\ NewBlock(content.kind).text = <<>>
    BY DEF NewBlock
  <2> DEFINE t == items'
             turn == blocks'
             c == active'
  <2>3. /\ t \in Seq(Item) /\ t[Len(t)].content.kind = content.kind
        /\ ~t[Len(t)].done /\ t[Len(t)].sent = 0 /\ Len(t) = Len(items) + 1
        /\ \A i \in 1 .. Len(items) : t[i] = items[i]
    BY <1>2, <1>3, <1>5, <1>6
  <2>4. /\ turn \in Seq(Block) /\ Len(turn) = Len(blocks) + 1 /\ c = Len(turn)
        /\ \A i \in 1 .. Len(blocks) : turn[i] = blocks[i]
        /\ turn[c].kind = content.kind /\ Len(turn[c].text) = 0
    BY <1>5, <2>1, <2>2
  <2> HIDE DEF t, turn, c
  <2>5. TakeTurns(items, blocks, active) /\ AllAnswered(items, blocks)
    BY DEF Orderly
  <2>6. Adds(items, blocks, active, t, turn, c)
    BY <1>1, <1>4, <1>8, <2>3, <2>4, <2>5 DEF Adds
  <2>7. TakeTurns(t, turn, c) /\ AllAnswered(t, turn)
    BY <2>6, TurnsAdded
  <2> QED
    BY <2>7 DEF Orderly, t, turn, c
<1> QED
  BY <1>7, <1>8, AddIs

\* Steps of the item whose turn it is.
LEMMA StepKeepsOrder ==
  ASSUME StreamInv, StreamInv', ordered, Orderly(items, blocks, active),
         NEW i \in DOMAIN items, Open(i), items[i].content.kind # "other",
         NEW item \in Item, item.content = items[i].content, items' = [items EXCEPT ![i] = item],
         NEW b \in Block, Edited(b), b.kind = items[i].content.kind,
         item.done => active' = 0 /\ Answers(item, i, b),
         ~item.done => active' = active /\ (b.kind = "reasoning" => Len(b.text) = item.sent)
  PROVE  Orderly(items', blocks', active')
<1>1. /\ items \in Seq(Item) /\ blocks \in Seq(Block) /\ ~items[i].done
  BY SequencesAre DEF Open
<1>2. active \in 1 .. Len(blocks) /\ blocks[active].kind = items[i].content.kind
  BY <1>1, OpenIsLast DEF Orderly
<1>3. /\ blocks' \in Seq(Block) /\ Len(blocks') = Len(blocks)
      /\ \A j \in 1 .. Len(blocks) : blocks'[j] = IF j = active THEN b ELSE blocks[j]
  <2>1. active # 0
    BY <1>2
  <2> QED
    BY <2>1, EditedIs
<1>4. /\ ItemsStay /\ i \in 1 .. Len(items)
      /\ \A j \in 1 .. Len(items) : items'[j] = IF j = i THEN item ELSE items[j]
  BY ItemReplaced
<1> DEFINE t == items'
           turn == blocks'
           c == active'
<1>5. /\ t \in Seq(Item) /\ Len(t) = Len(items) /\ t[i] = item
      /\ \A j \in 1 .. Len(items) : j # i => t[j] = items[j]
  BY <1>4 DEF ItemsStay
<1>6. /\ turn \in Seq(Block) /\ Len(turn) = Len(blocks)
      /\ \A j \in 1 .. Len(blocks) : turn[j] = IF j = active THEN b ELSE blocks[j]
  BY <1>3
<1>7. /\ item.done => c = 0 /\ Answers(item, i, b)
      /\ ~item.done => c = active /\ (b.kind = "reasoning" => Len(b.text) = item.sent)
  OBVIOUS
<1> HIDE DEF t, turn, c
<1>8. TakeTurns(t, turn, c) /\ AllAnswered(t, turn)
  <2>1. TakeTurns(items, blocks, active) /\ AllAnswered(items, blocks)
    BY DEF Orderly
  <2>2. ItemMoves(items, t, i) /\ t \in Seq(Item)
    BY <1>5 DEF ItemMoves
  <2>3. BlockMoves(blocks, turn, active, b) /\ turn \in Seq(Block)
    BY <1>2, <1>6 DEF BlockMoves
  <2>4. GoTogether(t[i], i, b, active, c)
    BY <1>5, <1>7 DEF GoTogether
  <2> QED
    BY <1>1, <2>1, <2>2, <2>3, <2>4, TurnsEdited
<1> QED
  BY <1>8 DEF Orderly, t, turn, c

\* It is active, with its text so far.
LEMMA TurnIsActive ==
  ASSUME StreamInv, ordered, Orderly(items, blocks, active),
         NEW i \in DOMAIN items, Open(i), items[i].content.kind # "other"
  PROVE  /\ IsActive(items[i].content.kind) /\ blocks[active] \in Block
         /\ blocks[active].kind = items[i].content.kind
         /\ blocks[active].kind = "reasoning" => Len(blocks[active].text) = items[i].sent
<1>1. items \in Seq(Item) /\ blocks \in Seq(Block) /\ ~items[i].done
  BY SequencesAre DEF Open
<1>2. /\ active \in 1 .. Len(blocks) /\ blocks[active].kind = items[i].content.kind
      /\ i = Len(items) /\ LastIsOpen(items)
  BY <1>1, OpenIsLast DEF Orderly
<1>3. blocks[active].kind = "reasoning" => Len(blocks[active].text) = items[i].sent
  BY <1>2 DEF Orderly, TakeTurns
<1> QED
  BY <1>1, <1>2, <1>3 DEF IsActive

\* A delta of the item whose turn it is.
LEMMA DeltaKeepsOrder ==
  ASSUME StreamInv, StreamInv', ordered, Orderly(items, blocks, active),
         NEW i \in DOMAIN items, NEW piece \in Piece, SendDelta(i, piece)
  PROVE  Orderly(items', blocks', active')
<1> DEFINE kind == items[i].content.kind
           item == [items[i] EXCEPT !.sent = @ + 1]
<1>1. /\ Open(i) /\ kind \in Kind /\ streaming /\ items[i] \in Item
      /\ items' = [items EXCEPT ![i] = item] /\ item \in Item
      /\ (~IsActive(kind) /\ UNCHANGED asm) \/ AppendDelta(kind, piece)
  BY DeltaIs, OpenIs
<1>2. item.content = items[i].content /\ item.sent = items[i].sent + 1 /\ ~item.done
  BY <1>1 DEF Item, Open
<1>3. kind # "other"
  BY <1>1 DEF Kind
<1>4. /\ IsActive(kind) /\ blocks[active].kind = kind
      /\ kind = "reasoning" => Len(blocks[active].text) = items[i].sent
  BY <1>1, <1>3, TurnIsActive
<1> HIDE DEF item
<1>5. PICK b \in Block : /\ Edited(b) /\ b.kind = kind
                         /\ kind # "tool_call" => Len(b.text) = Len(blocks[active].text) + 1
  <2> HIDE DEF kind
  <2> QED
    BY <1>1, <1>4, DeltaKeeps
<1>6. active' = active
  BY <1>1, <1>4 DEF AppendDelta
<1>7. b.kind = "reasoning" => Len(b.text) = item.sent
  BY <1>2, <1>4, <1>5
<1> QED
  BY <1>1, <1>2, <1>3, <1>5, <1>6, <1>7, StepKeepsOrder

\* Its arguments.
LEMMA ArgumentsKeepOrder ==
  ASSUME StreamInv, StreamInv', ordered, Orderly(items, blocks, active),
         NEW i \in DOMAIN items, FinishArguments(i)
  PROVE  Orderly(items', blocks', active')
<1> DEFINE item == items[i]
<1>1. /\ Open(i) /\ items[i].content.kind = "tool_call" /\ UNCHANGED items /\ items[i] \in Item
      /\ streaming /\ UNCHANGED streaming
      /\ \/ ~IsActive("tool_call") /\ UNCHANGED asm
         \/ \E arguments \in Object \cup {NoArguments} : ReplaceArguments(arguments)
  BY ArgumentsAre, OpenIs
<1>2. IsActive("tool_call") /\ blocks[active].kind = "tool_call"
  BY <1>1, TurnIsActive
<1>3. PICK arguments \in Object \cup {NoArguments} : ReplaceArguments(arguments)
  BY <1>1, <1>2
<1>4. active' = active /\ \E b \in Block : Edited(b) /\ b.kind = "tool_call"
  BY <1>1, <1>3, ArgumentsKeep
<1>5. PICK b \in Block : Edited(b) /\ b.kind = "tool_call"
  BY <1>4
<1>6. items' = [items EXCEPT ![i] = item]
  <2>1. items = [j \in 1 .. Len(items) |-> items[j]] /\ DOMAIN items = 1 .. Len(items)
    BY SequencesAre
  <2> QED
    BY <1>1, <2>1
<1>7. item \in Item /\ item.content = items[i].content /\ ~item.done
  BY <1>1 DEF Open
<1> HIDE DEF item
<1> QED
  BY <1>1, <1>4, <1>5, <1>6, <1>7, StepKeepsOrder

\* Its end.
LEMMA FinishKeepsOrder ==
  ASSUME StreamInv, StreamInv', ordered, Orderly(items, blocks, active),
         NEW i \in DOMAIN items, FinishItem(i)
  PROVE  Orderly(items', blocks', active')
<1> DEFINE content == items[i].content
           item == [items[i] EXCEPT !.done = TRUE]
<1>1. /\ Open(i) /\ items[i] \in Item /\ streaming /\ i \in Nat /\ i \in DOMAIN items
      /\ items' = [items EXCEPT ![i] = item] /\ item \in Item
      /\ \/ UNCHANGED asm /\ (content.kind = "other" \/ ~IsActive(content.kind))
         \/ content.kind # "other" /\ FinalizeBlock(content.kind, Final(content), i)
  BY FinishIs, OpenIs
<1>2. /\ item.content = content /\ item.sent = items[i].sent /\ item.done
  BY <1>1 DEF Item
<1>3. items \in Seq(Item) /\ blocks \in Seq(Block) /\ ~items[i].done
  BY <1>1, SequencesAre DEF Open
<1>4. CASE content.kind = "other"
  <2>1. blocks' = blocks /\ active' = active
    BY <1>1, <1>4 DEF asm
  <2> HIDE DEF item
  <2>2. /\ ItemsStay /\ i \in 1 .. Len(items)
        /\ \A j \in 1 .. Len(items) : items'[j] = IF j = i THEN item ELSE items[j]
    BY <1>1, <1>2, ItemReplaced
  <2> DEFINE t == items'
  <2>3. /\ t \in Seq(Item) /\ Len(t) = Len(items) /\ t[i].content = items[i].content
        /\ \A j \in 1 .. Len(items) : j # i => t[j] = items[j]
    BY <1>2, <2>2 DEF ItemsStay
  <2> HIDE DEF t
  <2>4. TakeTurns(items, blocks, active) /\ AllAnswered(items, blocks)
    BY DEF Orderly
  <2>5. TakeTurns(t, blocks, active) /\ AllAnswered(t, blocks)
    BY <1>1, <1>3, <1>4, <2>3, <2>4, TurnsSkipped
  <2> QED
    BY <2>1, <2>5 DEF Orderly, t
<1>5. CASE content.kind # "other"
  <2> DEFINE final == Final(content)
             b == FinalBlock(blocks[active], final, i)
  <2>1. /\ IsActive(content.kind) /\ blocks[active].kind = content.kind /\ blocks[active] \in Block
        /\ blocks[active].kind = "reasoning" => Len(blocks[active].text) = items[i].sent
    BY <1>1, <1>5, TurnIsActive
  <2>2. FinalizeBlock(content.kind, final, i)
    BY <1>1, <1>5, <2>1
  <2>3. content \in Content
    BY <1>1 DEF Item
  <2>4. content.kind \in Kind /\ Brings(content.kind, final)
    BY <1>5, <2>3, FinalIs
  <2> DEFINE kind == content.kind
  <2>5. active' = 0 /\ b \in Block /\ Edited(b) /\ b.kind = kind
    <3>1. kind \in Kind /\ Brings(kind, final) /\ FinalizeBlock(kind, final, i)
      BY <2>2, <2>4
    <3> HIDE DEF final, kind
    <3> QED
      BY <1>1, <3>1, FinalizeKeeps
  <2> DEFINE answer == Answers(item, i, b)
  <2>6. answer
    <3> HIDE DEF item
    <3>1. item.content.kind # "other" /\ blocks[active].kind = item.content.kind
          /\ (blocks[active].kind = "reasoning" => Len(blocks[active].text) = item.sent)
      BY <1>2, <1>5, <2>1
    <3>2. Answers(item, i, FinalBlock(blocks[active], Final(item.content), i))
      BY <1>1, <2>1, <3>1, FinalAnswers
    <3> QED
      BY <1>2, <3>2
  <2> HIDE DEF b, item
  <2> QED
    BY <1>1, <1>2, <1>5, <2>5, <2>6, StepKeepsOrder
<1> QED
  BY <1>4, <1>5

\* Every step keeps the invariant.
LEMMA NextIInv == IInv /\ [Next]_vars => IInv'
<1> SUFFICES ASSUME IInv, [Next]_vars PROVE IInv'
  OBVIOUS
<1>1. StreamInv /\ (ordered => Orderly(items, blocks, active))
  BY IInvIs
<1>2. StreamInv'
  BY <1>1, NextStreamInv
<1>3. ordered' = ordered
  BY DEF Next, vars, CreateResponse, AddItem, SendDelta, FinishArguments, FinishItem,
         Complete, CutOff, Fail, Disconnect
<1>4. ASSUME ordered PROVE Orderly(items', blocks', active')
  <2>0. Orderly(items, blocks, active)
    BY <1>1, <1>4
  <2>1. ASSUME NEW content \in Content, AddItem(content) PROVE Orderly(items', blocks', active')
    BY <1>1, <1>2, <1>4, <2>0, <2>1, AddKeepsOrder
  <2>2. ASSUME NEW i \in DOMAIN items, NEW piece \in Piece, SendDelta(i, piece)
        PROVE  Orderly(items', blocks', active')
    BY <1>1, <1>2, <1>4, <2>0, <2>2, DeltaKeepsOrder
  <2>3. ASSUME NEW i \in DOMAIN items, FinishArguments(i)
        PROVE  Orderly(items', blocks', active')
    BY <1>1, <1>2, <1>4, <2>0, <2>3, ArgumentsKeepOrder
  <2>4. ASSUME NEW i \in DOMAIN items, FinishItem(i) PROVE Orderly(items', blocks', active')
    BY <1>1, <1>2, <1>4, <2>0, <2>4, FinishKeepsOrder
  <2>5. CASE \/ CreateResponse \/ Complete \/ Fail \/ Disconnect \/ UNCHANGED vars
             \/ \E reason \in {"max_output_tokens", "content_filter"} : CutOff(reason)
    <3>1. items' = items /\ blocks' = blocks /\ active' = active
      BY <2>5 DEF CreateResponse, Complete, Fail, Disconnect, CutOff, vars, asm
    <3> QED
      BY <2>0, <3>1
  <2> QED
    BY <2>1, <2>2, <2>3, <2>4, <2>5 DEF Next
<1> QED
  BY <1>2, <1>3, <1>4, IInvIs

\* It holds before the first event.
LEMMA InitIInv == Init => IInv
<1> SUFFICES ASSUME Init PROVE IInv
  OBVIOUS
<1>1. StreamInv
  BY InitStreamInv
<1>2. items = <<>> /\ blocks = <<>> /\ active = 0 /\ Len(items) = 0 /\ Len(blocks) = 0
      /\ DOMAIN items = {}
  BY DEF Init
<1>3. Mapped(items, 0) = 0
  <2>1. {j \in 1 .. 0 : items[j].content.kind # "other"} = {}
    OBVIOUS
  <2> QED
    BY <2>1, FS_EmptySet DEF Mapped
<1>4. ItemsTakeTurns
  BY <1>2, <1>3 DEF ItemsTakeTurns, TakeTurns, LastIsOpen
<1>5. TurnIsTheResponse
  BY <1>2 DEF TurnIsTheResponse
<1> QED
  BY <1>1, <1>4, <1>5 DEF IInv

-----------------------------------------------------------------------------
\* Whatever the service sends, for responses of any length: every reachable
\* state of a provider turn satisfies the invariant.
THEOREM TurnInductive == Spec => []IInv
  BY InitIInv, NextIInv, PTL DEF Spec

\* The items, the blocks and the events keep their types.
THEOREM TurnTypeCorrect == Spec => []TypeOK
<1>1. IInv => TypeOK
  BY DEF IInv, StreamInv
<1> QED  BY <1>1, TurnInductive, PTL

\* The stream that assemble_stream yields keeps its grammar, for any number of
\* items whose events arrive in any order.
THEOREM StreamsAreWellFormed == Spec => []StreamIsWellFormed
<1>1. IInv => StreamIsWellFormed
  BY DEF IInv, StreamInv
<1> QED  BY <1>1, TurnInductive, PTL

\* Its terminal event carries the turn that a consumer has been shown, and a
\* stop reason that goes with the calls in it.
THEOREM TerminalsAgree == Spec => []TerminalAgreesWithStream
<1>1. IInv => TerminalAgreesWithStream
  <2> SUFFICES ASSUME IInv, NEW k \in DOMAIN events, IsTerminal(events[k])
               PROVE  LET final == events[k].blocks
                          shown == Shown(events)
                      IN  /\ Len(final) = Len(shown)
                          /\ \A i \in DOMAIN final : final[i].text = shown[i].text
                          /\ \A j \in DOMAIN events :
                                events[j].event = "end" => final[events[j].index] = events[j].block
                          /\ events[k].event = "stream_done" /\ events[k].reason # "length" =>
                                (events[k].reason = "tool_use"
                                    <=> \E i \in DOMAIN final : final[i].kind = "tool_call")
    BY DEF TerminalAgreesWithStream
  <2>1. StreamInv
    BY DEF IInv
  <2>2. events[k].blocks = blocks /\ ReasonFits(events[k])
    BY <2>1 DEF StreamInv, TerminalEnds
  <2>3. DOMAIN blocks = 1 .. Len(blocks)
    BY <2>1, SequencesAre
  <2>4. Len(Shown(events)) = Len(blocks) /\ \A i \in 1 .. Len(blocks) : Shown(events)[i].text = blocks[i].text
    BY <2>1 DEF StreamInv, ScreenAgrees
  <2>5. \A j \in DOMAIN events : events[j].event = "end" => blocks[events[j].index] = events[j].block
    BY <2>1 DEF StreamInv, EndedBlocksStay
  <2> QED
    BY <2>2, <2>3, <2>4, <2>5 DEF ReasonFits, HasCall
<1> QED  BY <1>1, TurnInductive, PTL

\* From a service that finishes each item before it adds the next, the turn is
\* the response, item by item, for responses of any length.
THEOREM TurnsAreResponses == Spec => []TurnIsTheResponse
<1>1. IInv => TurnIsTheResponse
  BY DEF IInv
<1> QED  BY <1>1, TurnInductive, PTL

-----------------------------------------------------------------------------
(* The log that a run's events end in, and its subscribers.                *)

\* The log is closed by its one terminal event, exactly when finalized is set.
TerminalClosesTheLog ==
    /\ Len(log) > 0
    /\ \A k \in DOMAIN log : log[k] = Terminal <=> finalized /\ k = Len(log)

\* The inductive invariant.  The two facts about subscribers say something of
\* one suspension point each; they hold of each other's successors only on a
\* log that nothing is appended to once it is closed.
LogInv ==
    /\ LogTypeOK
    /\ TerminalClosesTheLog
    /\ SleepersAreCurrent
    /\ \A s \in Subscriber : at[s] = "yielded" => index[s] < Len(log)
    /\ \A s \in Subscriber : at[s] = "ended" => finalized /\ index[s] = Len(log)

\* The invariant holds initially.
LEMMA InitLogInv == LogInit => LogInv
<1> SUFFICES ASSUME LogInit PROVE LogInv
  OBVIOUS
<1>1. /\ log = <<"inner">> /\ log \in Seq({"inner", "terminal"})
      /\ Len(log) = 1 /\ DOMAIN log = {1} /\ log[1] = "inner"
  BY DEF LogInit, Inner
<1>2. LogTypeOK
  <2>1. changed \in BOOLEAN /\ finalized \in BOOLEAN
    BY DEF LogInit
  <2>2. /\ at \in [Subscriber -> {"new", "yielded", "waiting", "woken", "ended", "left"}]
        /\ index \in [Subscriber -> Nat]
        /\ \A s \in Subscriber : index[s] <= Len(log)
    BY <1>1 DEF LogInit
  <2> QED  BY <1>1, <2>1, <2>2 DEF LogTypeOK, Inner, Terminal
<1>3. TerminalClosesTheLog
  BY <1>1 DEF LogInit, TerminalClosesTheLog, Terminal
<1> QED  BY <1>2, <1>3 DEF LogInit, LogInv, SleepersAreCurrent

\* Appending an event to an open log and waking the sleepers keeps everything
\* that is said of the subscribers.
LEMMA EmitKeeps ==
  ASSUME LogInv, ~finalized, UNCHANGED index, finalized' \in BOOLEAN,
         NEW event \in {Inner, Terminal}, Emit(event), finalized' <=> event = Terminal
  PROVE  LogInv'
<1>1. /\ log' \in Seq({Inner, Terminal})
      /\ Len(log') = Len(log) + 1
      /\ \A k \in DOMAIN log : log'[k] = log[k]
      /\ log'[Len(log) + 1] = event
  BY DEF Emit, LogInv, LogTypeOK
<1>2. /\ at' = WakeAll
      /\ \A s \in Subscriber : at'[s] \in {"new", "yielded", "waiting", "woken", "ended", "left"}
      /\ at' \in [Subscriber -> {"new", "yielded", "waiting", "woken", "ended", "left"}]
  BY DEF Emit, LogInv, LogTypeOK, WakeAll
<1>3. LogTypeOK'
  BY <1>1, <1>2 DEF Emit, LogInv, LogTypeOK
<1>4. TerminalClosesTheLog'
  <2>1. DOMAIN log = 1 .. Len(log) /\ DOMAIN log' = 1 .. Len(log) + 1 /\ Len(log) \in Nat
    BY <1>1 DEF LogInv, LogTypeOK
  <2>2. \A k \in DOMAIN log : log'[k] # Terminal
    BY <1>1, <2>1 DEF LogInv, TerminalClosesTheLog
  <2> QED  BY <1>1, <2>1, <2>2 DEF TerminalClosesTheLog
<1>5. \A s \in Subscriber : at'[s] # "waiting"
  BY <1>2 DEF WakeAll, LogInv, SleepersAreCurrent, LogTypeOK
<1>6. \A s \in Subscriber : at'[s] # "ended"
  BY <1>2 DEF WakeAll, LogInv, LogTypeOK
<1>7. \A s \in Subscriber : at'[s] = "yielded" => index'[s] < Len(log')
  BY <1>1, <1>2 DEF WakeAll, LogInv, LogTypeOK
<1> QED  BY <1>3, <1>4, <1>5, <1>6, <1>7 DEF LogInv, SleepersAreCurrent

\* A subscriber's step on an unchanged log, wherever it started from.
LEMMA LoopKeeps ==
  ASSUME LogInv, NEW s \in Subscriber, NEW i \in Nat, i <= Len(log), UNCHANGED <<log, finalized>>,
         changed' \in BOOLEAN, ~changed => ~changed',
         Deliver(s, i) \/ Return(s, i) \/ Sleep(s, i)
  PROVE  LogInv'
<1>1. /\ log' = log /\ finalized' = finalized
      /\ Len(log) \in Nat /\ log \in Seq({Inner, Terminal})
  BY DEF LogInv, LogTypeOK
<1>2. PICK where \in {"yielded", "ended", "waiting"} :
        /\ at' = [at EXCEPT ![s] = where]
        /\ index' = [index EXCEPT ![s] = i]
        /\ where = "yielded" => i < Len(log)
        /\ where = "ended" => i = Len(log) /\ finalized
        /\ where = "waiting" => i = Len(log) /\ ~finalized /\ ~changed'
  <2>1. CASE Deliver(s, i)
    BY <1>1, <2>1 DEF Deliver
  <2>2. CASE Return(s, i)
    BY <1>1, <2>2 DEF Return
  <2>3. CASE Sleep(s, i)
    BY <1>1, <2>3 DEF Sleep
  <2> QED  BY <2>1, <2>2, <2>3
<1>3. LogTypeOK'
  BY <1>1, <1>2 DEF LogInv, LogTypeOK
<1>4. TerminalClosesTheLog'
  BY <1>1 DEF LogInv, TerminalClosesTheLog
<1>5. ASSUME NEW t \in Subscriber
      PROVE  /\ at'[t] = IF t = s THEN where ELSE at[t]
             /\ index'[t] = IF t = s THEN i ELSE index[t]
  BY <1>2 DEF LogInv, LogTypeOK
<1>6. SleepersAreCurrent'
  BY <1>1, <1>2, <1>5 DEF LogInv, SleepersAreCurrent
<1> QED  BY <1>1, <1>2, <1>3, <1>4, <1>5, <1>6 DEF LogInv

\* Every step keeps it.
LEMMA NextLogInv == LogInv /\ [LogNext]_logVars => LogInv'
<1> SUFFICES ASSUME LogInv, [LogNext]_logVars PROVE LogInv'
  OBVIOUS
<1>1. CASE Publish
  <2>1. UNCHANGED index /\ ~finalized /\ ~finalized' /\ Emit(Inner)
    BY <1>1 DEF Publish
  <2>2. finalized' \in BOOLEAN
    BY <1>1 DEF Publish, LogInv, LogTypeOK
  <2>3. Inner # Terminal
    BY DEF Inner, Terminal
  <2> QED  BY <2>1, <2>2, <2>3, EmitKeeps
<1>2. CASE Finalize
  <2>1. UNCHANGED index /\ ~finalized /\ finalized' = TRUE /\ Emit(Terminal)
    BY <1>2 DEF Finalize
  <2> QED  BY <2>1, EmitKeeps
<1>3. ASSUME NEW s \in Subscriber, Subscribe(s)  PROVE LogInv'
  <2>1. 0 <= Len(log) /\ UNCHANGED <<log, finalized>>
    BY <1>3 DEF Subscribe, LogInv, LogTypeOK
  <2>2. Deliver(s, 0) \/ Return(s, 0) \/ Sleep(s, 0)
    BY <1>3 DEF Subscribe, Loop
  <2>3. changed' = FALSE
    BY <1>3 DEF Subscribe, Loop, Sleep
  <2> QED  BY <2>1, <2>2, <2>3, LoopKeeps
<1>4. ASSUME NEW s \in Subscriber, Resume(s)  PROVE LogInv'
  <2>1. index[s] \in Nat /\ index[s] <= Len(log) /\ UNCHANGED <<log, finalized>>
    BY <1>4 DEF Resume, LogInv, LogTypeOK
  <2>2. Deliver(s, index[s]) \/ Return(s, index[s]) \/ Sleep(s, index[s])
    BY <1>4 DEF Resume, Loop
  <2>3. changed' = FALSE
    BY <1>4 DEF Resume, Loop, Sleep
  <2> QED  BY <2>1, <2>2, <2>3, LoopKeeps
<1>5. ASSUME NEW s \in Subscriber, Pull(s)  PROVE LogInv'
  <2> DEFINE i == index[s] + 1
  <2>1. i \in Nat /\ i <= Len(log) /\ UNCHANGED <<log, finalized>>
    BY <1>5 DEF Pull, LogInv, LogTypeOK
  <2>2. \/ (Deliver(s, i) \/ Return(s, i)) /\ UNCHANGED changed
        \/ Sleep(s, i)
    BY <1>5 DEF Pull
  <2> HIDE DEF i
  <2>3. CASE (Deliver(s, i) \/ Return(s, i)) /\ UNCHANGED changed
    <3>1. changed' \in BOOLEAN /\ (~changed => ~changed')
      BY <2>3 DEF LogInv, LogTypeOK
    <3> QED  BY <2>1, <2>3, <3>1, LoopKeeps
  <2>4. CASE Sleep(s, i)
    <3>1. changed' = FALSE
      BY <2>4 DEF Sleep
    <3> QED  BY <2>1, <2>4, <3>1, LoopKeeps
  <2> QED  BY <2>2, <2>3, <2>4
<1>6. ASSUME NEW s \in Subscriber, Leave(s)  PROVE LogInv'
  BY <1>6 DEF Leave, LogInv, LogTypeOK, TerminalClosesTheLog, SleepersAreCurrent
<1>7. CASE UNCHANGED logVars
  BY <1>7 DEF logVars, LogInv, LogTypeOK, TerminalClosesTheLog, SleepersAreCurrent
<1> QED  BY <1>1, <1>2, <1>3, <1>4, <1>5, <1>6, <1>7 DEF LogNext

-----------------------------------------------------------------------------
\* Every reachable state of the log and its subscribers satisfies the invariant.
THEOREM LogInductive == LogSpec => []LogInv
  BY InitLogInv, NextLogInv, PTL DEF LogSpec

\* The log, the flag and every subscriber's index stay in range.
THEOREM LogTypeCorrect == LogSpec => []LogTypeOK
<1>1. LogInv => LogTypeOK
  BY DEF LogInv
<1> QED  BY <1>1, LogInductive, PTL

\* A subscriber asleep in _changed.wait() has missed nothing and is due to be
\* woken by the next event, whoever cleared the flag last.
THEOREM NoLostWakeup == LogSpec => []SleepersAreCurrent
<1>1. LogInv => SleepersAreCurrent
  BY DEF LogInv
<1> QED  BY <1>1, LogInductive, PTL

\* events() ends after the terminal event of a closed log.
THEOREM ReadersEndAtTheEnd == LogSpec => []EndedReadersSawTheEnd
<1>1. LogInv => EndedReadersSawTheEnd
  BY DEF LogInv, TerminalClosesTheLog, EndedReadersSawTheEnd
<1> QED  BY <1>1, LogInductive, PTL
=============================================================================
