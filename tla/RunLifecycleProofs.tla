------------------------- MODULE RunLifecycleProofs -------------------------
EXTENDS RunLifecycle, SelectionProofs

-----------------------------------------------------------------------------
(* Conversation items and the calls they leave open.                       *)

\* An item is a user message, a turn or a result, and only a turn has calls.
LEMMA ItemShape ==
    ASSUME NEW x \in Item
    PROVE  /\ x.kind \in {"user", "assistant", "tool_result"}
           /\ CallsOf(x) \in Seq(CallId)
           /\ IsInjective(CallsOf(x))
           /\ x.kind # "assistant" => CallsOf(x) = <<>>
           /\ x.kind = "assistant" => \E calls \in CallLists : x = AssistantTurn(calls)
           /\ x.kind = "tool_result" => x.call \in CallId
  <1>0. <<>> \in Seq(CallId) /\ IsInjective(<<>>)
    BY DEF IsInjective
  <1>1. CASE x = UserMessage
    BY <1>0, <1>1 DEF UserMessage, CallsOf
  <1>2. CASE \E calls \in CallLists : x = AssistantTurn(calls)
    <2>1. PICK calls \in CallLists : x = AssistantTurn(calls)
      BY <1>2
    <2>2. x.kind = "assistant" /\ x.calls = calls
      BY <2>1 DEF AssistantTurn
    <2>3. CallsOf(x) = calls
      BY <2>2 DEF CallsOf
    <2> QED
      BY <2>1, <2>2, <2>3, LifecycleAssumption DEF LifecycleAssumption
  <1>3. CASE \E call \in CallId, isError \in BOOLEAN : x = ToolResult(call, isError)
    <2>1. PICK call \in CallId, isError \in BOOLEAN : x = ToolResult(call, isError)
      BY <1>3
    <2>2. x.kind = "tool_result" /\ x.call = call
      BY <2>1 DEF ToolResult
    <2> QED
      BY <1>0, <2>1, <2>2 DEF CallsOf
  <1> QED
    BY <1>1, <1>2, <1>3 DEF Item

\* The kinds of items, and what a kind tells of an item.
LEMMA ItemsAre ==
    /\ UserMessage \in Item /\ UserMessage.kind = "user"
    /\ \A calls \in CallLists :
          /\ AssistantTurn(calls) \in Item
          /\ AssistantTurn(calls).kind = "assistant"
          /\ CallsOf(AssistantTurn(calls)) = calls
    /\ \A call \in CallId, isError \in BOOLEAN :
          /\ ToolResult(call, isError) \in Item
          /\ ToolResult(call, isError).kind = "tool_result"
          /\ ToolResult(call, isError).call = call
          /\ ToolResult(call, isError).isError = isError
          /\ CallsOf(ToolResult(call, isError)) = <<>>
  <1>1. UserMessage \in Item /\ UserMessage.kind = "user"
    BY DEF Item, UserMessage
  <1>2. ASSUME NEW calls \in CallLists
        PROVE  /\ AssistantTurn(calls) \in Item
               /\ AssistantTurn(calls).kind = "assistant"
               /\ CallsOf(AssistantTurn(calls)) = calls
    <2>1. AssistantTurn(calls) \in Item
      BY DEF Item
    <2> QED
      BY <2>1 DEF AssistantTurn, CallsOf
  <1>3. ASSUME NEW call \in CallId, NEW isError \in BOOLEAN
        PROVE  /\ ToolResult(call, isError) \in Item
               /\ ToolResult(call, isError).kind = "tool_result"
               /\ ToolResult(call, isError).call = call
               /\ ToolResult(call, isError).isError = isError
               /\ CallsOf(ToolResult(call, isError)) = <<>>
    <2>1. ToolResult(call, isError) \in Item
      BY DEF Item
    <2>2. /\ ToolResult(call, isError).kind = "tool_result"
          /\ ToolResult(call, isError).call = call
          /\ ToolResult(call, isError).isError = isError
      BY Zenon DEF ToolResult
    <2>3. CallsOf(ToolResult(call, isError)) = <<>>
      BY <2>2 DEF CallsOf
    <2> QED
      BY <2>1, <2>2, <2>3
  <1> QED
    BY <1>1, <1>2, <1>3

CallsIn(items) == [i \in DOMAIN items |-> CallsOf(items[i])]

\* What one more item of any sequence does to its domain and elements.
LEMMA OneMore ==
    ASSUME NEW X, NEW d \in Seq(X), NEW x \in X
    PROVE  /\ Append(d, x) \in Seq(X)
           /\ Len(d) \in Nat
           /\ Len(Append(d, x)) = Len(d) + 1
           /\ DOMAIN d = 1 .. Len(d)
           /\ DOMAIN Append(d, x) = 1 .. Len(d) + 1
           /\ \A i \in 1 .. Len(d) : Append(d, x)[i] = d[i]
           /\ Append(d, x)[Len(d) + 1] = x
  BY AppendProperties

\* One more item adds the calls it carries.
LEMMA CallsInAppend ==
    ASSUME NEW d \in Seq(Item), NEW x \in Item
    PROVE  /\ CallsIn(d) \in Seq(Seq(CallId))
           /\ CallsIn(Append(d, x)) = Append(CallsIn(d), CallsOf(x))
           /\ FlattenSeq(CallsIn(Append(d, x))) = FlattenSeq(CallsIn(d)) \o CallsOf(x)
  <1> DEFINE e == Append(d, x)
  <1>1. /\ e \in Seq(Item) /\ Len(d) \in Nat /\ Len(e) = Len(d) + 1
        /\ DOMAIN d = 1 .. Len(d) /\ DOMAIN e = 1 .. Len(d) + 1
        /\ \A i \in 1 .. Len(d) : e[i] = d[i]
        /\ e[Len(d) + 1] = x
    BY OneMore
  <1>2. \A i \in 1 .. Len(d) : CallsOf(d[i]) \in Seq(CallId)
    <2> SUFFICES ASSUME NEW i \in 1 .. Len(d) PROVE CallsOf(d[i]) \in Seq(CallId)
      OBVIOUS
    <2>1. d[i] \in Item
      OBVIOUS
    <2> QED
      BY <2>1, ItemShape
  <1>3. CallsOf(x) \in Seq(CallId)
    BY ItemShape
  <1> DEFINE c == CallsIn(d)
             V == Seq(CallId)
  <1>4. c \in Seq(V) /\ Len(c) = Len(d) /\ \A i \in 1 .. Len(d) : c[i] = CallsOf(d[i])
    <2>1. c = [i \in 1 .. Len(d) |-> CallsOf(d[i])]
      BY <1>1 DEF CallsIn
    <2> HIDE DEF c, V
    <2>2. c \in [1 .. Len(d) -> V]
      BY <1>2, <2>1 DEF V
    <2> QED
      BY <1>1, <2>1, <2>2
  <1>5. Append(c, CallsOf(x)) = CallsIn(e)
    <2> DEFINE a == Append(c, CallsOf(x))
               g == CallsIn(e)
    <2>1. /\ a \in Seq(V) /\ Len(a) = Len(d) + 1 /\ a[Len(d) + 1] = CallsOf(x)
          /\ \A i \in 1 .. Len(d) : a[i] = CallsOf(d[i])
      BY <1>3, <1>4, AppendProperties
    <2>2. g = [i \in 1 .. Len(d) + 1 |-> CallsOf(e[i])]
      BY <1>1 DEF CallsIn
    <2> HIDE DEF a, g, c, e
    <2>3. ASSUME NEW i \in 1 .. Len(d) + 1 PROVE g[i] = a[i]
      <3>1. g[i] = CallsOf(e[i])
        BY <2>2
      <3>2. CASE i \in 1 .. Len(d)
        BY <1>1, <2>1, <3>1, <3>2
      <3>3. CASE i = Len(d) + 1
        BY <1>1, <2>1, <3>1, <3>3
      <3> QED
        BY <1>1, <3>2, <3>3
    <2>4. a = [i \in 1 .. Len(d) + 1 |-> a[i]]
      BY <2>1 DEF V
    <2> QED
      BY <2>2, <2>3, <2>4 DEF a, g
  <1>6. FlattenSeq(Append(c, CallsOf(x))) = FlattenSeq(c) \o CallsOf(x)
    <2> HIDE DEF c
    <2> QED
      BY <1>3, <1>4, FlattenAppend
  <1> QED
    BY <1>4, <1>5, <1>6

\* One more item answers the call it names, if it is a result.
LEMMA AnsweredAppend ==
    ASSUME NEW d \in Seq(Item), NEW x \in Item
    PROVE  Answered(Append(d, x)) =
               Answered(d) \cup (IF x.kind = "tool_result" THEN {x.call} ELSE {})
  <1> DEFINE e == Append(d, x)
  <1>1. /\ Len(d) \in Nat
        /\ DOMAIN d = 1 .. Len(d) /\ DOMAIN e = 1 .. Len(d) + 1
        /\ \A i \in 1 .. Len(d) : e[i] = d[i]
        /\ e[Len(d) + 1] = x
    BY OneMore
  <1> HIDE DEF e
  <1>2. CASE x.kind = "tool_result"
    BY <1>1, <1>2 DEF Answered
  <1>3. CASE x.kind # "tool_result"
    BY <1>1, <1>3 DEF Answered
  <1> QED
    BY <1>2, <1>3 DEF e

\* The open calls are calls no result names.
LEMMA OpenCalls ==
    ASSUME NEW d \in Seq(Item)
    PROVE  /\ FlattenSeq(CallsIn(d)) \in Seq(CallId)
           /\ UnansweredToolCalls(d) = Only(FlattenSeq(CallsIn(d)), CallId \ Answered(d))
           /\ UnansweredToolCalls(d) \in Seq(CallId)
           /\ ToSet(UnansweredToolCalls(d)) \cap Answered(d) = {}
  <1>1. CallsIn(d) \in Seq(Seq(CallId))
    BY CallsInAppend, ItemsAre
  <1>2. FlattenSeq(CallsIn(d)) \in Seq(CallId)
    BY <1>1, FlattenType
  <1> DEFINE f == FlattenSeq(CallsIn(d))
             A == Answered(d)
  <1>3. UnansweredToolCalls(d) = Only(f, CallId \ A)
    BY DEF UnansweredToolCalls, CallsIn
  <1> HIDE DEF f, A
  <1>4. /\ Only(f, CallId \ A) \in Seq(CallId \cap (CallId \ A))
        /\ ToSet(Only(f, CallId \ A)) = ToSet(f) \cap (CallId \ A)
    BY <1>2, OnlyType, OnlyElements DEF f
  <1>5. Only(f, CallId \ A) \in Seq(CallId)
    BY <1>4
  <1> QED
    BY <1>2, <1>3, <1>4, <1>5 DEF f, A

\* A turn opens its calls; a call it repeats would have been answered already.
LEMMA TurnOpens ==
    ASSUME NEW d \in Seq(Item), NEW calls \in CallLists,
           UnansweredToolCalls(d) = <<>>, ToSet(calls) \cap Answered(d) = {}
    PROVE  UnansweredToolCalls(Append(d, AssistantTurn(calls))) = calls
  <1> DEFINE x == AssistantTurn(calls)
             f == FlattenSeq(CallsIn(d))
             g == FlattenSeq(CallsIn(Append(d, x)))
             T == CallId \ Answered(d)
  <1>1. x \in Item /\ x.kind = "assistant" /\ CallsOf(x) = calls
    BY ItemsAre
  <1>2. calls \in Seq(CallId)
    BY LifecycleAssumption DEF LifecycleAssumption
  <1> HIDE DEF x
  <1>3. Answered(Append(d, x)) = Answered(d) /\ Append(d, x) \in Seq(Item)
    BY <1>1, AnsweredAppend, OneMore
  <1>4. f \in Seq(CallId) /\ Only(f, T) = <<>>
    BY OpenCalls
  <1>5. UnansweredToolCalls(Append(d, x)) = Only(g, T)
    BY <1>3, OpenCalls
  <1>6. g = f \o calls
    BY <1>1, CallsInAppend
  <1>7. Only(calls, T) = calls
    <2>1. ToSet(calls) \subseteq CallId
      BY <1>2 DEF ToSet
    <2>2. ToSet(calls) \subseteq T
      BY <2>1
    <2> HIDE DEF T
    <2> QED
      BY <1>2, <2>2, OnlyAllOrNone
  <1>8. Only(f \o calls, T) = Only(f, T) \o Only(calls, T)
    <2> HIDE DEF f, T
    <2> QED
      BY <1>2, <1>4, OnlyConcat
  <1>9. <<>> \o calls = calls
    BY <1>2, ConcatEmptySeq
  <1> QED
    BY <1>4, <1>5, <1>6, <1>7, <1>8, <1>9, Zenon DEF x

\* A user message opens nothing.
LEMMA UserOpensNothing ==
    ASSUME NEW d \in Seq(Item)
    PROVE  UnansweredToolCalls(Append(d, UserMessage)) = UnansweredToolCalls(d)
  <1> DEFINE x == UserMessage
             f == FlattenSeq(CallsIn(d))
  <1>1. x \in Item /\ x.kind = "user" /\ CallsOf(x) = <<>>
    BY ItemsAre, ItemShape
  <1> HIDE DEF x
  <1>2. Answered(Append(d, x)) = Answered(d) /\ Append(d, x) \in Seq(Item)
    BY <1>1, AnsweredAppend, OneMore
  <1>3. f \in Seq(CallId) /\ UnansweredToolCalls(d) = Only(f, CallId \ Answered(d))
    BY OpenCalls
  <1>4. FlattenSeq(CallsIn(Append(d, x))) = f \o <<>>
    BY <1>1, CallsInAppend
  <1>5. f \o <<>> = f
    <2> HIDE DEF f
    <2> QED
      BY <1>3, ConcatEmptySeq
  <1>6. UnansweredToolCalls(Append(d, x))
            = Only(FlattenSeq(CallsIn(Append(d, x))), CallId \ Answered(d))
    BY <1>2, OpenCalls
  <1> QED
    BY <1>3, <1>4, <1>5, <1>6, Zenon DEF x

\* What is selected from an injective sequence without its head is its tail.
LEMMA OnlyTail ==
    ASSUME NEW X, NEW s \in Seq(X), s # <<>>, IsInjective(s)
    PROVE  /\ Head(s) \in X /\ Tail(s) \in Seq(X)
           /\ s = <<Head(s)>> \o Tail(s)
           /\ Len(Tail(s)) = Len(s) - 1
           /\ \A i \in 1 .. Len(s) - 1 : Tail(s)[i] = s[i + 1]
           /\ Head(s) = s[1] /\ Len(s) \in Nat \ {0}
           /\ IsInjective(Tail(s))
           /\ Only(s, X \ {Head(s)}) = Tail(s)
  <1> DEFINE h == Head(s)
             u == Tail(s)
  <1>1. h \in X /\ u \in Seq(X) /\ Len(u) = Len(s) - 1 /\ h = s[1] /\ Len(s) \in Nat \ {0}
        /\ \A i \in 1 .. Len(s) - 1 : u[i] = s[i + 1]
    BY HeadTailProperties
  <1> HIDE DEF h, u
  <1>2. s = <<h>> \o u
    <2>1. <<h>> \in Seq(X) /\ Len(<<h>>) = 1 /\ <<h>>[1] = h
      BY <1>1
    <2> DEFINE g == <<h>> \o u
    <2>2. g \in Seq(X) /\ Len(g) = Len(s)
          /\ \A i \in 1 .. Len(s) : g[i] = IF i <= 1 THEN h ELSE u[i - 1]
      BY <1>1, <2>1, ConcatProperties
    <2> HIDE DEF g
    <2>3. ASSUME NEW i \in 1 .. Len(s) PROVE g[i] = s[i]
      <3>1. CASE i = 1
        BY <1>1, <2>2, <3>1
      <3>2. CASE i # 1
        <4>1. i - 1 \in 1 .. Len(s) - 1 /\ (i - 1) + 1 = i /\ ~(i <= 1)
          BY <1>1, <3>2
        <4>2. g[i] = u[i - 1] /\ u[i - 1] = s[(i - 1) + 1]
          BY <1>1, <2>2, <4>1
        <4> QED
          BY <4>1, <4>2
      <3> QED
        BY <3>1, <3>2
    <2> QED
      BY <2>2, <2>3, SeqEqual DEF g
  <1>3. IsInjective(u) /\ h \notin ToSet(u)
    <2>1. DOMAIN u = 1 .. Len(s) - 1 /\ DOMAIN s = 1 .. Len(s)
      BY <1>1
    <2>2. \A i \in 1 .. Len(s) - 1 : i + 1 \in 1 .. Len(s) /\ i + 1 # 1 /\ u[i] = s[i + 1]
      BY <1>1
    <2>3. ASSUME NEW i \in DOMAIN u, NEW j \in DOMAIN u, u[i] = u[j] PROVE i = j
      <3>1. s[i + 1] = s[j + 1] /\ i + 1 \in DOMAIN s /\ j + 1 \in DOMAIN s
        BY <2>1, <2>2, <2>3
      <3>2. i + 1 = j + 1
        BY <3>1 DEF IsInjective
      <3> QED
        BY <1>1, <2>1, <3>2
    <2>4. ASSUME NEW i \in DOMAIN u, u[i] = h PROVE FALSE
      <3>1. s[i + 1] = s[1] /\ i + 1 \in DOMAIN s /\ 1 \in DOMAIN s /\ i + 1 # 1
        BY <1>1, <2>1, <2>2, <2>4
      <3> QED
        BY <3>1 DEF IsInjective
    <2> QED
      BY <2>3, <2>4 DEF IsInjective, ToSet
  <1>4. Only(s, X \ {h}) = u
    <2> DEFINE T == X \ {h}
    <2>1. ToSet(u) \subseteq T
      <3>1. \A i \in DOMAIN u : u[i] \in X
        BY <1>1
      <3> QED
        BY <1>3, <3>1 DEF ToSet
    <2>2. <<h>> \in Seq(X) /\ ToSet(<<h>>) \cap T = {}
      BY <1>1 DEF ToSet
    <2> HIDE DEF T
    <2>3. Only(u, T) = u
      BY <1>1, <2>1, OnlyAllOrNone
    <2>4. Only(<<h>>, T) = <<>>
      BY <2>2, OnlyAllOrNone
    <2>5. Only(<<h>> \o u, T) = Only(<<h>>, T) \o Only(u, T)
      <3> DEFINE g == <<h>>
      <3>1. g \in Seq(X) /\ u \in Seq(X)
        BY <1>1, <2>2
      <3> HIDE DEF g, u
      <3>2. Only(g \o u, T) = Only(g, T) \o Only(u, T)
        BY <3>1, OnlyConcat
      <3> QED
        BY <3>2 DEF g
    <2>6. <<>> \o u = u
      BY <1>1, ConcatEmptySeq
    <2> QED
      BY <1>2, <2>3, <2>4, <2>5, <2>6, Zenon DEF T
  <1> QED
    BY <1>1, <1>2, <1>3, <1>4 DEF h, u

\* A result for the first open call closes it and no other.
LEMMA ResultCloses ==
    ASSUME NEW d \in Seq(Item), NEW isError \in BOOLEAN,
           UnansweredToolCalls(d) # <<>>, IsInjective(UnansweredToolCalls(d))
    PROVE  LET x == ToolResult(Head(UnansweredToolCalls(d)), isError)
           IN  UnansweredToolCalls(Append(d, x)) = Tail(UnansweredToolCalls(d))
  <1> DEFINE U == UnansweredToolCalls(d)
             h == Head(U)
             x == ToolResult(h, isError)
             f == FlattenSeq(CallsIn(d))
             T == CallId \ Answered(d)
             V == CallId \ {h}
  <1>1. f \in Seq(CallId) /\ U = Only(f, T) /\ U \in Seq(CallId)
    BY OpenCalls
  <1> HIDE DEF U
  <1>2. h \in CallId /\ Only(U, V) = Tail(U)
    BY <1>1, OnlyTail DEF U
  <1>3. x \in Item /\ x.kind = "tool_result" /\ x.call = h /\ CallsOf(x) = <<>>
    BY <1>2, ItemsAre
  <1> HIDE DEF x
  <1>4. Answered(Append(d, x)) = Answered(d) \cup {h} /\ Append(d, x) \in Seq(Item)
    BY <1>3, AnsweredAppend, OneMore
  <1>5. FlattenSeq(CallsIn(Append(d, x))) = f \o <<>>
    BY <1>3, CallsInAppend
  <1>6. f \o <<>> = f
    <2> HIDE DEF f
    <2> QED
      BY <1>1, ConcatEmptySeq
  <1>7. UnansweredToolCalls(Append(d, x))
            = Only(FlattenSeq(CallsIn(Append(d, x))), CallId \ (Answered(d) \cup {h}))
    BY <1>4, OpenCalls
  <1>8. T \cap V = CallId \ (Answered(d) \cup {h})
    OBVIOUS
  <1>9. Only(Only(f, T), V) = Only(f, T \cap V)
    <2> HIDE DEF f, T, V
    <2> QED
      BY <1>1, OnlyTwice
  <1>10. UnansweredToolCalls(Append(d, x)) = Tail(U)
    BY <1>1, <1>2, <1>5, <1>6, <1>7, <1>8, <1>9, Zenon
  <1> QED
    BY <1>10 DEF U, x

-----------------------------------------------------------------------------
(* What a run's items always are: a conversation the provider accepts up   *)
(* to the calls of its last turn that are still open.                      *)

Replied(items, i, c) ==
    \E j \in i + 1 .. Len(items) : Answers(items, i, j) /\ items[j].call = c

OnlyResultsAfter(items, i) ==
    \A k \in i + 1 .. Len(items) : items[k].kind = "tool_result"

Justified(items) ==
    \A j \in DOMAIN items :
        items[j].kind = "tool_result" => \E i \in 1 .. j - 1 : Answers(items, i, j)

RepliedOnce(items) ==
    \A i \in DOMAIN items : \A j, k \in i + 1 .. Len(items) :
        Answers(items, i, j) /\ Answers(items, i, k) /\ items[j].call = items[k].call
            => j = k

RepliedOrOpen(items) ==
    \A i \in DOMAIN items : \A c \in ToSet(CallsOf(items[i])) :
        \/ Replied(items, i, c)
        \/ c \in ToSet(UnansweredToolCalls(items)) /\ OnlyResultsAfter(items, i)

OpenAtTheEnd(items) ==
    \A c \in ToSet(UnansweredToolCalls(items)) : \E i \in DOMAIN items :
        c \in ToSet(CallsOf(items[i])) /\ OnlyResultsAfter(items, i)

Conversation(items) ==
    /\ items \in Seq(Item) /\ items # <<>> /\ items[1] = UserMessage
    /\ Justified(items)
    /\ RepliedOnce(items)
    /\ RepliedOrOpen(items)
    /\ OpenAtTheEnd(items)
    /\ IsInjective(UnansweredToolCalls(items))

\* Whether one item answers another is a matter of the items up to it.
LEMMA AnswersInPrefix ==
    ASSUME NEW p, NEW e, NEW n \in Nat, \A i \in 1 .. n : e[i] = p[i],
           NEW i \in 1 .. n, NEW j \in i + 1 .. n
    PROVE  Answers(e, i, j) <=> Answers(p, i, j)
  <1>1. e[i] = p[i] /\ e[j] = p[j] /\ \A k \in i + 1 .. j : e[k] = p[k]
    OBVIOUS
  <1> QED
    BY <1>1 DEF Answers

\* One more item leaves the answers among the items before it as they were.
LEMMA AnswersAppend ==
    ASSUME NEW d \in Seq(Item), NEW x \in Item
    PROVE  LET e == Append(d, x)
           IN  /\ \A i \in 1 .. Len(d) : \A j \in i + 1 .. Len(d) :
                     Answers(e, i, j) <=> Answers(d, i, j)
               /\ \A i \in 1 .. Len(d) : \A c : Replied(d, i, c) => Replied(e, i, c)
               /\ Justified(d) =>
                     \A j \in 1 .. Len(d) :
                         e[j].kind = "tool_result" =>
                             \E i \in 1 .. j - 1 : Answers(e, i, j)
               /\ x.kind = "tool_result" =>
                     \A i \in 1 .. Len(d) :
                         OnlyResultsAfter(d, i) => OnlyResultsAfter(e, i)
  <1> DEFINE e == Append(d, x)
  <1>1. /\ e \in Seq(Item) /\ Len(d) \in Nat /\ Len(e) = Len(d) + 1
        /\ DOMAIN d = 1 .. Len(d) /\ DOMAIN e = 1 .. Len(d) + 1
        /\ \A i \in 1 .. Len(d) : e[i] = d[i]
        /\ e[Len(d) + 1] = x
    BY OneMore
  <1> HIDE DEF e
  <1>2. ASSUME NEW i \in 1 .. Len(d), NEW j \in i + 1 .. Len(d)
        PROVE  Answers(e, i, j) <=> Answers(d, i, j)
    BY <1>1, AnswersInPrefix
  <1>3. ASSUME NEW i \in 1 .. Len(d), NEW c, Replied(d, i, c)
        PROVE  Replied(e, i, c)
    <2>1. PICK j \in i + 1 .. Len(d) : Answers(d, i, j) /\ d[j].call = c
      BY <1>3 DEF Replied
    <2>2. Answers(e, i, j)
      BY <1>2, <2>1
    <2>3. j \in i + 1 .. Len(e) /\ e[j] = d[j]
      BY <1>1
    <2> QED
      BY <2>1, <2>2, <2>3 DEF Replied
  <1>4. ASSUME Justified(d), NEW j \in 1 .. Len(d), e[j].kind = "tool_result"
        PROVE  \E i \in 1 .. j - 1 : Answers(e, i, j)
    <2>1. PICK i \in 1 .. j - 1 : Answers(d, i, j)
      BY <1>1, <1>4 DEF Justified
    <2>2. i \in 1 .. Len(d) /\ j \in i + 1 .. Len(d)
      BY <1>1
    <2> QED
      BY <1>2, <2>1, <2>2
  <1>5. ASSUME x.kind = "tool_result", NEW i \in 1 .. Len(d), OnlyResultsAfter(d, i)
        PROVE  OnlyResultsAfter(e, i)
    BY <1>1, <1>5 DEF OnlyResultsAfter
  <1> QED
    BY <1>2, <1>3, <1>4, <1>5 DEF e

\* The empty list of calls.
LEMMA NoElements == ToSet(<<>>) = {} /\ IsInjective(<<>>)
  BY DEF ToSet, IsInjective

\* A prompt by itself is a conversation that owes nothing.
LEMMA ConversationStarts ==
    /\ Conversation(<<UserMessage>>)
    /\ UnansweredToolCalls(<<UserMessage>>) = <<>>
  <1> DEFINE d == <<UserMessage>>
  <1>1. d \in Seq(Item) /\ d # <<>> /\ Len(d) = 1 /\ DOMAIN d = {1} /\ d[1] = UserMessage
    BY ItemsAre
  <1>2. d = Append(<<>>, UserMessage)
    OBVIOUS
  <1>3. UnansweredToolCalls(<<>>) = <<>>
    <2>1. CallsIn(<<>>) = <<>>
      BY DEF CallsIn
    <2>2. <<>> \in Seq(Item)
      OBVIOUS
    <2> QED
      BY <2>1, <2>2, OpenCalls, FlattenEmpty, OnlyEmpty
  <1>4. UnansweredToolCalls(d) = <<>>
    <2>1. <<>> \in Seq(Item)
      OBVIOUS
    <2> QED
      BY <1>2, <1>3, <2>1, UserOpensNothing
  <1>5. CallsOf(UserMessage) = <<>> /\ UserMessage.kind = "user"
    BY ItemsAre, ItemShape
  <1> HIDE DEF d
  <1>6. Justified(d) /\ RepliedOnce(d) /\ RepliedOrOpen(d) /\ OpenAtTheEnd(d)
    BY <1>1, <1>4, <1>5, NoElements
       DEF Justified, RepliedOnce, RepliedOrOpen, OpenAtTheEnd
  <1> QED
    BY <1>1, <1>4, <1>6, NoElements DEF Conversation, d

\* With nothing open, an item that is not a result continues a conversation.
LEMMA ConversationContinues ==
    ASSUME NEW d, Conversation(d), UnansweredToolCalls(d) = <<>>,
           NEW x \in Item, x.kind # "tool_result",
           UnansweredToolCalls(Append(d, x)) = CallsOf(x)
    PROVE  Conversation(Append(d, x))
  <1> DEFINE e == Append(d, x)
             n == Len(d) + 1
  <1>0. d \in Seq(Item)
    BY DEF Conversation
  <1>1. /\ e \in Seq(Item) /\ Len(d) \in Nat /\ Len(e) = n
        /\ DOMAIN d = 1 .. Len(d) /\ DOMAIN e = 1 .. n
        /\ \A i \in 1 .. Len(d) : e[i] = d[i]
        /\ e[n] = x /\ n \in 1 .. n
    BY <1>0, OneMore
  <1>2. /\ \A i \in 1 .. Len(d) : \A j \in i + 1 .. Len(d) :
              Answers(e, i, j) <=> Answers(d, i, j)
        /\ \A i \in 1 .. Len(d) : \A c : Replied(d, i, c) => Replied(e, i, c)
        /\ \A j \in 1 .. Len(d) :
              e[j].kind = "tool_result" => \E i \in 1 .. j - 1 : Answers(e, i, j)
    BY <1>0, AnswersAppend DEF Conversation
  <1>3. UnansweredToolCalls(e) = CallsOf(x)
    OBVIOUS
  <1> HIDE DEF e, n
  <1>4. e # <<>> /\ e[1] = UserMessage
    <2>1. d # <<>> /\ d[1] = UserMessage
      BY DEF Conversation
    <2>2. 1 \in 1 .. Len(d)
      BY <1>0, <1>1, <2>1
    <2> QED
      BY <1>1, <2>1, <2>2
  <1>5. \A i \in 1 .. n : i # n => i \in 1 .. Len(d)
    BY <1>1 DEF n
  <1>6. Justified(e)
    BY <1>1, <1>2, <1>5 DEF Justified
  <1>7. RepliedOnce(e)
    <2> SUFFICES ASSUME NEW i \in 1 .. n, NEW j \in i + 1 .. n, NEW k \in i + 1 .. n,
                        Answers(e, i, j), Answers(e, i, k), e[j].call = e[k].call
                 PROVE  j = k
      BY <1>1 DEF RepliedOnce
    <2>1. j # n /\ k # n
      BY <1>1 DEF Answers
    <2>2. i \in 1 .. Len(d) /\ j \in i + 1 .. Len(d) /\ k \in i + 1 .. Len(d)
      BY <1>1, <2>1 DEF n
    <2>3. Answers(d, i, j) /\ Answers(d, i, k) /\ d[j].call = d[k].call
      BY <1>1, <1>2, <2>2
    <2> QED
      BY <1>1, <2>2, <2>3 DEF Conversation, RepliedOnce
  <1>8. RepliedOrOpen(e)
    <2> SUFFICES ASSUME NEW i \in 1 .. n, NEW c \in ToSet(CallsOf(e[i]))
                 PROVE  \/ Replied(e, i, c)
                        \/ c \in ToSet(UnansweredToolCalls(e)) /\ OnlyResultsAfter(e, i)
      BY <1>1 DEF RepliedOrOpen
    <2>1. CASE i = n
      BY <1>1, <1>3, <2>1 DEF OnlyResultsAfter
    <2>2. CASE i # n
      <3>1. i \in 1 .. Len(d) /\ c \in ToSet(CallsOf(d[i]))
        BY <1>1, <1>5, <2>2
      <3>2. Replied(d, i, c)
        BY <1>1, <3>1, NoElements DEF Conversation, RepliedOrOpen
      <3> QED
        BY <1>2, <3>1, <3>2
    <2> QED
      BY <2>1, <2>2
  <1>9. OpenAtTheEnd(e)
    BY <1>1, <1>3 DEF OpenAtTheEnd, OnlyResultsAfter
  <1>10. IsInjective(UnansweredToolCalls(e))
    BY <1>3, ItemShape
  <1> QED
    BY <1>1, <1>4, <1>6, <1>7, <1>8, <1>9, <1>10 DEF Conversation, e

\* A result for its first open call continues it too.
LEMMA ConversationAnswers ==
    ASSUME NEW d, Conversation(d), UnansweredToolCalls(d) # <<>>, NEW isError \in BOOLEAN
    PROVE  LET x == ToolResult(Head(UnansweredToolCalls(d)), isError)
           IN  /\ Conversation(Append(d, x))
               /\ UnansweredToolCalls(Append(d, x)) = Tail(UnansweredToolCalls(d))
  <1> DEFINE U == UnansweredToolCalls(d)
             h == Head(U)
             x == ToolResult(h, isError)
             e == Append(d, x)
             n == Len(d) + 1
  <1>0. d \in Seq(Item) /\ IsInjective(U)
    BY DEF Conversation
  <1>01. U \in Seq(CallId) /\ U # <<>> /\ ToSet(U) \cap Answered(d) = {}
    BY <1>0, OpenCalls
  <1>02. UnansweredToolCalls(e) = Tail(U)
    BY <1>0, ResultCloses
  <1> HIDE DEF U
  <1>03. /\ h \in CallId /\ Only(U, CallId \ {h}) = Tail(U) /\ IsInjective(Tail(U))
         /\ h = U[1] /\ DOMAIN U = 1 .. Len(U) /\ 1 \in 1 .. Len(U)
    <2>1. /\ Head(U) \in CallId /\ Only(U, CallId \ {Head(U)}) = Tail(U)
          /\ IsInjective(Tail(U)) /\ Head(U) = U[1]
      BY <1>0, <1>01, OnlyTail, Zenon
    <2>2. DOMAIN U = 1 .. Len(U) /\ 1 \in 1 .. Len(U)
      BY <1>01
    <2> QED
      BY <2>1, <2>2
  <1>04. ToSet(Tail(U)) = ToSet(U) \cap (CallId \ {h})
    BY <1>01, <1>03, OnlyElements
  <1>05. h \in ToSet(U) /\ ToSet(U) \subseteq CallId
    BY <1>01, <1>03 DEF ToSet
  <1>06. x \in Item /\ x.kind = "tool_result" /\ x.call = h /\ CallsOf(x) = <<>>
    BY <1>03, ItemsAre
  <1> HIDE DEF h, x
  <1>1. /\ e \in Seq(Item) /\ Len(d) \in Nat /\ Len(e) = n
        /\ DOMAIN d = 1 .. Len(d) /\ DOMAIN e = 1 .. n
        /\ \A i \in 1 .. Len(d) : e[i] = d[i]
        /\ e[n] = x /\ n \in 1 .. n
    BY <1>0, <1>06, OneMore
  <1>2. /\ \A i \in 1 .. Len(d) : \A j \in i + 1 .. Len(d) :
              Answers(e, i, j) <=> Answers(d, i, j)
        /\ \A i \in 1 .. Len(d) : \A c : Replied(d, i, c) => Replied(e, i, c)
        /\ \A j \in 1 .. Len(d) :
              e[j].kind = "tool_result" => \E i \in 1 .. j - 1 : Answers(e, i, j)
        /\ \A i \in 1 .. Len(d) : OnlyResultsAfter(d, i) => OnlyResultsAfter(e, i)
    BY <1>0, <1>06, AnswersAppend DEF Conversation
  <1> HIDE DEF e, n
  <1>4. e # <<>> /\ e[1] = UserMessage
    <2>1. d # <<>> /\ d[1] = UserMessage
      BY DEF Conversation
    <2>2. 1 \in 1 .. Len(d)
      BY <1>0, <1>1, <2>1
    <2> QED
      BY <1>1, <2>1, <2>2
  <1>5. \A i \in 1 .. n : i # n => i \in 1 .. Len(d)
    BY <1>1 DEF n
  \* The turn that asked is followed by results only, so this one answers it.
  <1>10. ASSUME NEW i \in 1 .. Len(d), h \in ToSet(CallsOf(d[i])), OnlyResultsAfter(d, i)
         PROVE  Answers(e, i, n) /\ n \in i + 1 .. n /\ i \in 1 .. n - 1
    <2>1. OnlyResultsAfter(e, i)
      BY <1>2, <1>10
    <2> QED
      BY <1>06, <1>1, <1>10, <2>1 DEF Answers, OnlyResultsAfter, n
  <1>6. Justified(e)
    <2>1. PICK i \in 1 .. Len(d) : h \in ToSet(CallsOf(d[i])) /\ OnlyResultsAfter(d, i)
      BY <1>05, <1>1 DEF Conversation, OpenAtTheEnd, U
    <2>2. Answers(e, i, n) /\ i \in 1 .. n - 1
      BY <1>10, <2>1
    <2> QED
      BY <1>1, <1>2, <1>5, <2>2 DEF Justified
  <1>7. RepliedOnce(e)
    <2> SUFFICES ASSUME NEW i \in 1 .. n, NEW j \in i + 1 .. n, NEW k \in i + 1 .. n,
                        Answers(e, i, j), Answers(e, i, k), e[j].call = e[k].call
                 PROVE  j = k
      BY <1>1 DEF RepliedOnce
    <2>0. ASSUME NEW m \in i + 1 .. n, m # n, Answers(e, i, m) PROVE e[m].call # h
      <3>1. m \in 1 .. Len(d)
        BY <1>1, <2>0 DEF n
      <3>2. d[m].kind = "tool_result" /\ e[m] = d[m]
        BY <1>1, <2>0, <3>1 DEF Answers
      <3>3. d[m].call \in Answered(d)
        BY <1>1, <3>1, <3>2 DEF Answered
      <3> QED
        BY <1>01, <1>05, <3>2, <3>3
    <2>1. CASE j # n /\ k # n
      <3>2. i \in 1 .. Len(d) /\ j \in i + 1 .. Len(d) /\ k \in i + 1 .. Len(d)
        BY <1>1, <2>1 DEF n
      <3>3. Answers(d, i, j) /\ Answers(d, i, k) /\ d[j].call = d[k].call
        BY <1>1, <1>2, <3>2
      <3> QED
        BY <1>1, <3>2, <3>3 DEF Conversation, RepliedOnce
    <2>2. CASE j = n \/ k = n
      BY <1>06, <1>1, <2>0, <2>2
    <2> QED
      BY <2>1, <2>2
  <1>8. RepliedOrOpen(e)
    <2> SUFFICES ASSUME NEW i \in 1 .. n, NEW c \in ToSet(CallsOf(e[i]))
                 PROVE  \/ Replied(e, i, c)
                        \/ c \in ToSet(Tail(U)) /\ OnlyResultsAfter(e, i)
      BY <1>02, <1>1 DEF RepliedOrOpen
    <2>0. i \in 1 .. Len(d) /\ e[i] = d[i]
      BY <1>06, <1>1, <1>5, NoElements
    <2>1. CASE Replied(d, i, c)
      BY <1>2, <2>0, <2>1
    <2>2. CASE c \in ToSet(U) /\ OnlyResultsAfter(d, i)
      <3>1. CASE c = h
        <4>1. Answers(e, i, n) /\ n \in i + 1 .. n /\ e[n].call = c
          BY <1>06, <1>1, <1>10, <2>0, <2>2, <3>1
        <4> QED
          BY <1>1, <4>1 DEF Replied
      <3>2. CASE c # h
        BY <1>04, <1>05, <1>2, <2>0, <2>2, <3>2
      <3> QED
        BY <3>1, <3>2
    <2> QED
      BY <1>1, <2>0, <2>1, <2>2 DEF Conversation, RepliedOrOpen, U
  <1>9. OpenAtTheEnd(e)
    <2> SUFFICES ASSUME NEW c \in ToSet(Tail(U))
                 PROVE  \E i \in 1 .. n : c \in ToSet(CallsOf(e[i])) /\ OnlyResultsAfter(e, i)
      BY <1>02, <1>1 DEF OpenAtTheEnd
    <2>1. PICK i \in 1 .. Len(d) : c \in ToSet(CallsOf(d[i])) /\ OnlyResultsAfter(d, i)
      BY <1>04, <1>1 DEF Conversation, OpenAtTheEnd, U
    <2>2. i \in 1 .. n
      BY <1>1 DEF n
    <2> QED
      BY <1>1, <1>2, <2>1, <2>2
  <1>11. Conversation(e)
    BY <1>02, <1>03, <1>1, <1>4, <1>6, <1>7, <1>8, <1>9 DEF Conversation
  <1> QED
    BY <1>02, <1>11 DEF U, h, x, e

-----------------------------------------------------------------------------
(* Healing, and what it leaves for the history.                            *)

\* A function on an initial segment is a sequence.
LEMMA FunctionsAreSequences ==
    ASSUME NEW X, NEW n \in Nat, NEW s \in [1 .. n -> X]
    PROVE  s \in Seq(X) /\ Len(s) = n
  OBVIOUS

\* The items heal appends.
Results(open, n) == [k \in 1 .. n |-> ToolResult(open[k], TRUE)]

\* There is one error result per open call, in their order.
LEMMA ResultsShape ==
    ASSUME NEW open \in Seq(CallId), NEW n \in 0 .. Len(open)
    PROVE  /\ Results(open, n) \in Seq(Item) /\ Len(Results(open, n)) = n
           /\ \A k \in 1 .. n : Results(open, n)[k] = ToolResult(open[k], TRUE)
           /\ n = 0 => Results(open, n) = <<>>
           /\ n < Len(open) =>
                 Results(open, n + 1) = Append(Results(open, n), ToolResult(open[n + 1], TRUE))
  <1>0. Len(open) \in Nat
    OBVIOUS
  <1>1. \A k \in 1 .. Len(open) : open[k] \in CallId
    OBVIOUS
  <1>2. \A k \in 1 .. Len(open) : ToolResult(open[k], TRUE) \in Item
    BY <1>1, ItemsAre
  <1>3. ASSUME NEW m \in 0 .. Len(open)
        PROVE  /\ Results(open, m) \in Seq(Item) /\ Len(Results(open, m)) = m
               /\ \A k \in 1 .. m : Results(open, m)[k] = ToolResult(open[k], TRUE)
    <2> DEFINE r == Results(open, m)
    <2>0. m \in Nat
      OBVIOUS
    <2>1. r = [k \in 1 .. m |-> ToolResult(open[k], TRUE)]
      BY DEF Results
    <2>2. \A k \in 1 .. m : ToolResult(open[k], TRUE) \in Item
      <3>1. \A k \in 1 .. m : k \in 1 .. Len(open)
        BY <1>0
      <3> QED
        BY <1>2, <3>1
    <2> HIDE DEF r
    <2>3. r \in [1 .. m -> Item]
      BY <2>1, <2>2
    <2>4. r \in Seq(Item) /\ Len(r) = m
      BY <2>0, <2>3, FunctionsAreSequences
    <2> QED
      BY <2>1, <2>4 DEF r
  <1>4. ASSUME n = 0 PROVE Results(open, n) = <<>>
    <2>1. Results(open, n) \in Seq(Item) /\ Len(Results(open, n)) = 0
      BY <1>3, <1>4
    <2> HIDE DEF Results
    <2> QED
      BY <2>1
  <1>5. ASSUME n < Len(open)
        PROVE  Results(open, n + 1) = Append(Results(open, n), ToolResult(open[n + 1], TRUE))
    <2> DEFINE p == Results(open, n)
               q == Results(open, n + 1)
               x == ToolResult(open[n + 1], TRUE)
               a == Append(p, x)
    <2>1. n + 1 \in 1 .. Len(open) /\ n + 1 \in 0 .. Len(open)
      BY <1>5
    <2>2. x \in Item
      BY <1>2, <2>1
    <2>3. /\ p \in Seq(Item) /\ Len(p) = n /\ \A k \in 1 .. n : p[k] = ToolResult(open[k], TRUE)
          /\ q \in Seq(Item) /\ Len(q) = n + 1
          /\ \A k \in 1 .. n + 1 : q[k] = ToolResult(open[k], TRUE)
      BY <1>3, <2>1
    <2> HIDE DEF p, q, x
    <2>4. a \in Seq(Item) /\ Len(a) = n + 1 /\ a[n + 1] = x /\ \A k \in 1 .. n : a[k] = p[k]
      BY <2>2, <2>3, AppendProperties
    <2> HIDE DEF a
    <2>5. ASSUME NEW k \in 1 .. n + 1 PROVE q[k] = a[k]
      <3>1. CASE k \in 1 .. n
        BY <2>3, <2>4, <3>1
      <3>2. CASE k = n + 1
        BY <2>1, <2>3, <2>4, <3>2 DEF x
      <3> QED
        BY <3>1, <3>2
    <2>6. q = a
      BY <2>3, <2>4, <2>5, SeqEqual
    <2> QED
      BY <2>6 DEF p, q, x, a
  <1> QED
    BY <1>3, <1>4, <1>5

\* What heal makes of the buffer.
LEMMA HealIs ==
    ASSUME NEW d \in Seq(Item)
    PROVE  Heal(d) = d \o Results(UnansweredToolCalls(d), Len(UnansweredToolCalls(d)))
  <1> DEFINE U == UnansweredToolCalls(d)
  <1>1. U \in Seq(CallId)
    BY OpenCalls
  <1> HIDE DEF U
  <1>2. DOMAIN U = 1 .. Len(U)
    BY <1>1
  <1>3. Results(U, Len(U)) = [k \in DOMAIN U |-> ToolResult(U[k], TRUE)]
    BY <1>2 DEF Results
  <1> QED
    BY <1>3 DEF Heal, U

\* heal answers the open calls one after the other, so what it returns is a
\* conversation with no open call.
LEMMA HealCloses ==
    ASSUME NEW d, Conversation(d)
    PROVE  Conversation(Heal(d)) /\ UnansweredToolCalls(Heal(d)) = <<>>
  <1> DEFINE U == UnansweredToolCalls(d)
             N == Len(U)
             H(n) == d \o Results(U, n)
             S == {n \in 0 .. N : /\ Conversation(H(n))
                                  /\ UnansweredToolCalls(H(n)) = SubSeq(U, n + 1, N)}
  <1>1. d \in Seq(Item)
    BY DEF Conversation
  <1>2. U \in Seq(CallId) /\ N \in Nat
    <2>1. U \in Seq(CallId)
      BY <1>1, OpenCalls
    <2> HIDE DEF U
    <2> QED
      BY <2>1
  <1>3. 0 \in S
    <2>1. Results(U, 0) = <<>>
      <3>1. 0 \in 0 .. Len(U)
        BY <1>2
      <3> HIDE DEF U
      <3> QED
        BY <1>2, <3>1, ResultsShape
    <2>2. H(0) = d
      BY <1>1, <2>1, ConcatEmptySeq
    <2>3. SubSeq(U, 1, N) = U
      <3> HIDE DEF U
      <3> DEFINE q == SubSeq(U, 1, N)
      <3>1. \A i \in 1 .. N : U[i] \in CallId
        BY <1>2
      <3>2. q \in Seq(CallId) /\ Len(q) = N /\ \A i \in 1 .. N : q[i] = U[i]
        BY <1>2, <3>1
      <3> HIDE DEF q
      <3>3. q = U
        BY <1>2, <3>2, SeqEqual
      <3> QED
        BY <3>3 DEF q
    <2>4. 0 + 1 = 1 /\ 0 \in 0 .. N
      BY <1>2
    <2> HIDE DEF U, N
    <2>5. Conversation(H(0)) /\ UnansweredToolCalls(H(0)) = SubSeq(U, 0 + 1, N)
      BY <2>2, <2>3, <2>4, Zenon DEF U
    <2> QED
      BY <2>4, <2>5
  <1> HIDE DEF U
  <1>4. ASSUME NEW n \in 0 .. N, n < N, n \in S PROVE n + 1 \in S
    <2> DEFINE open == UnansweredToolCalls(H(n))
               x == ToolResult(U[n + 1], TRUE)
    <2>1. open = SubSeq(U, n + 1, N) /\ Conversation(H(n))
      BY <1>4
    <2>2. n + 1 \in 1 .. N /\ n + 1 \in 0 .. N /\ \A i \in 1 .. N : U[i] \in CallId
      BY <1>2, <1>4
    <2>3. /\ open \in Seq(CallId) /\ Len(open) = N - n
          /\ \A i \in 1 .. N - n : open[i] = U[n + i]
      BY <1>2, <1>4, <2>1, <2>2
    <2>4. x \in Item
      BY <2>2, ItemsAre
    <2> HIDE DEF open
    <2>5. open # <<>> /\ Head(open) = U[n + 1] /\ Tail(open) = SubSeq(U, n + 2, N)
      <3>1. open # <<>> /\ Head(open) = U[n + 1]
        BY <1>2, <1>4, <2>3
      <3> DEFINE q == SubSeq(U, n + 2, N)
                 u == Tail(open)
      <3>2. q \in Seq(CallId) /\ Len(q) = N - (n + 1)
            /\ \A i \in 1 .. N - (n + 1) : q[i] = U[n + 1 + i]
        BY <1>2, <1>4, <2>2
      <3>3. u \in Seq(CallId) /\ Len(u) = N - (n + 1)
            /\ \A i \in 1 .. N - (n + 1) : u[i] = open[i + 1]
        BY <1>2, <1>4, <2>3, <3>1, HeadTailProperties
      <3>4. ASSUME NEW i \in 1 .. N - (n + 1) PROVE q[i] = u[i]
        <4>1. i + 1 \in 1 .. N - n /\ n + (i + 1) = n + 1 + i
          BY <1>2, <1>4
        <4>2. open[i + 1] = U[n + (i + 1)]
          BY <2>3, <4>1
        <4> QED
          BY <3>2, <3>3, <4>1, <4>2
      <3> HIDE DEF q, u
      <3>5. q = u
        BY <3>2, <3>3, <3>4, SeqEqual
      <3> QED
        BY <3>1, <3>5 DEF q, u
    <2>6. /\ Conversation(Append(H(n), x))
          /\ UnansweredToolCalls(Append(H(n), x)) = SubSeq(U, n + 2, N)
      <3>1. open # <<>> /\ TRUE \in BOOLEAN
        BY <2>5
      <3> HIDE DEF H
      <3>2. LET y == ToolResult(Head(open), TRUE)
            IN  /\ Conversation(Append(H(n), y))
                /\ UnansweredToolCalls(Append(H(n), y)) = Tail(open)
        BY <2>1, <3>1, ConversationAnswers DEF open
      <3> QED
        BY <2>5, <3>2
    <2>7. Append(H(n), x) = H(n + 1)
      <3>1. Results(U, n) \in Seq(Item) /\ Results(U, n + 1) = Append(Results(U, n), x)
        BY <1>2, <1>4, ResultsShape
      <3> HIDE DEF x
      <3>2. ASSUME NEW r \in Seq(Item) PROVE d \o Append(r, x) = Append(d \o r, x)
        BY <1>1, <2>4, ConcatAppends
      <3> QED
        BY <3>1, <3>2
    <2>8. (n + 1) + 1 = n + 2
      BY <1>2
    <2> HIDE DEF H, x
    <2> QED
      BY <2>2, <2>6, <2>7, <2>8
  <1> HIDE DEF S
  <1>5. N \in S
    <2>1. \A n \in 0 .. N : n \in S
      BY <1>2, <1>3, <1>4, UpTo
    <2> QED
      BY <1>2, <2>1
  <1>6. SubSeq(U, N + 1, N) = <<>>
    BY <1>2
  <1>7. Heal(d) = H(N)
    BY <1>1, HealIs DEF U
  <1>8. Conversation(H(N)) /\ UnansweredToolCalls(H(N)) = SubSeq(U, N + 1, N)
    BY <1>5 DEF S
  <1> HIDE DEF H
  <1> QED
    BY <1>6, <1>7, <1>8

Replayable(items) ==
    /\ items \in Seq(Item)
    /\ Justified(items)
    /\ RepliedOnce(items)
    /\ \A i \in DOMAIN items : \A c \in ToSet(CallsOf(items[i])) : Replied(items, i, c)

\* A conversation that owes no result is replayable.
LEMMA ClosedIsReplayable ==
    ASSUME NEW d, Conversation(d), UnansweredToolCalls(d) = <<>>
    PROVE  Replayable(d)
  BY NoElements DEF Conversation, RepliedOrOpen, Replayable

\* A conversation that starts with a user message can follow another: no
\* result of it reaches back across the message.
LEMMA ReplayableConcat ==
    ASSUME NEW p, NEW q, Replayable(p), Replayable(q), q # <<>>, q[1] = UserMessage
    PROVE  Replayable(p \o q)
  <1> DEFINE m == Len(p)
             n == Len(q)
             e == p \o q
  <1>1. p \in Seq(Item) /\ q \in Seq(Item) /\ UserMessage.kind = "user"
    BY ItemsAre DEF Replayable
  <1>2. /\ e \in Seq(Item) /\ Len(e) = m + n /\ m \in Nat /\ n \in Nat \ {0}
        /\ DOMAIN p = 1 .. m /\ DOMAIN q = 1 .. n /\ DOMAIN e = 1 .. m + n
    BY <1>1, ConcatProperties
  <1>3. \A i \in 1 .. m : e[i] = p[i]
    BY <1>1, <1>2, ConcatProperties
  <1>4. ASSUME NEW i \in 1 .. n PROVE e[m + i] = q[i] /\ m + i \in 1 .. m + n
    <2>1. m + i \in 1 .. m + n /\ ~(m + i <= m) /\ (m + i) - m = i
      BY <1>2
    <2>2. e[m + i] = q[(m + i) - m]
      BY <1>1, <2>1, ConcatProperties
    <2> QED
      BY <2>1, <2>2
  <1> HIDE DEF m, n, e
  <1>5. ASSUME NEW i \in 1 .. m + n, i \notin 1 .. m
        PROVE  \E k \in 1 .. n : i = m + k
    <2>1. i - m \in 1 .. n /\ i = m + (i - m)
      BY <1>2, <1>5
    <2> QED
      BY <2>1
  \* Answers stay within p, or within q.
  <1>6. ASSUME NEW i \in 1 .. m, NEW j \in i + 1 .. m
        PROVE  Answers(e, i, j) <=> Answers(p, i, j)
    BY <1>2, <1>3, AnswersInPrefix
  <1>7. ASSUME NEW i \in 1 .. n, NEW j \in i + 1 .. n
        PROVE  Answers(e, m + i, m + j) <=> Answers(q, i, j)
    <2>1. e[m + i] = q[i] /\ e[m + j] = q[j]
      BY <1>2, <1>4
    <2>2. (\A k \in m + i + 1 .. m + j : e[k].kind = "tool_result")
              <=> \A k \in i + 1 .. j : q[k].kind = "tool_result"
      <3>1. ASSUME \A k \in m + i + 1 .. m + j : e[k].kind = "tool_result",
                   NEW k \in i + 1 .. j
            PROVE  q[k].kind = "tool_result"
        <4>1. m + k \in m + i + 1 .. m + j /\ k \in 1 .. n
          BY <1>2
        <4> QED
          BY <1>4, <3>1, <4>1
      <3>2. ASSUME \A k \in i + 1 .. j : q[k].kind = "tool_result",
                   NEW k \in m + i + 1 .. m + j
            PROVE  e[k].kind = "tool_result"
        <4>1. k - m \in i + 1 .. j /\ k - m \in 1 .. n /\ m + (k - m) = k
          BY <1>2
        <4>2. e[m + (k - m)] = q[k - m]
          BY <1>4, <4>1
        <4> QED
          BY <3>2, <4>1, <4>2
      <3> QED
        BY <3>1, <3>2
    <2> QED
      BY <2>1, <2>2 DEF Answers
  <1>8. ASSUME NEW i \in 1 .. m, NEW j \in 1 .. m + n, j > m
        PROVE  ~Answers(e, i, j)
    <2>1. m + 1 \in i + 1 .. j /\ 1 \in 1 .. n
      BY <1>2, <1>8
    <2>2. e[m + 1] = q[1]
      BY <1>4, <2>1
    <2> QED
      BY <1>1, <2>1, <2>2 DEF Answers
  <1>9. Justified(e)
    <2> SUFFICES ASSUME NEW j \in 1 .. m + n, e[j].kind = "tool_result"
                 PROVE  \E i \in 1 .. j - 1 : Answers(e, i, j)
      BY <1>2 DEF Justified
    <2>1. CASE j \in 1 .. m
      <3>1. PICK i \in 1 .. j - 1 : Answers(p, i, j)
        BY <1>2, <1>3, <2>1 DEF Replayable, Justified
      <3>2. i \in 1 .. m /\ j \in i + 1 .. m
        BY <1>2, <2>1
      <3> QED
        BY <1>6, <3>1, <3>2
    <2>2. CASE j \notin 1 .. m
      <3>1. PICK k \in 1 .. n : j = m + k
        BY <1>5, <2>2
      <3>2. q[k].kind = "tool_result"
        BY <1>4, <3>1
      <3>3. PICK i \in 1 .. k - 1 : Answers(q, i, k)
        BY <1>2, <3>2 DEF Replayable, Justified
      <3>4. i \in 1 .. n /\ k \in i + 1 .. n /\ m + i \in 1 .. j - 1
        BY <1>2, <3>1
      <3> QED
        BY <1>7, <3>1, <3>3, <3>4
    <2> QED
      BY <2>1, <2>2
  <1>10. RepliedOnce(e)
    <2> SUFFICES ASSUME NEW i \in 1 .. m + n,
                        NEW j \in i + 1 .. m + n, NEW k \in i + 1 .. m + n,
                        Answers(e, i, j), Answers(e, i, k), e[j].call = e[k].call
                 PROVE  j = k
      BY <1>2 DEF RepliedOnce
    <2>1. CASE i \in 1 .. m
      <3>1. j \in i + 1 .. m /\ k \in i + 1 .. m
        BY <1>2, <1>8, <2>1
      <3>2. Answers(p, i, j) /\ Answers(p, i, k) /\ p[j].call = p[k].call
        BY <1>2, <1>3, <1>6, <2>1, <3>1
      <3> QED
        BY <1>2, <2>1, <3>1, <3>2 DEF Replayable, RepliedOnce, m
    <2>2. CASE i \notin 1 .. m
      <3>1. PICK a \in 1 .. n : i = m + a
        BY <1>5, <2>2
      <3> DEFINE b == j - m
                 c == k - m
      <3>2. b \in a + 1 .. n /\ c \in a + 1 .. n /\ j = m + b /\ k = m + c
            /\ b \in 1 .. n /\ c \in 1 .. n
        BY <1>2, <3>1
      <3> HIDE DEF b, c
      <3>3. Answers(q, a, b) /\ Answers(q, a, c) /\ q[b].call = q[c].call
        BY <1>4, <1>7, <3>1, <3>2
      <3>4. b = c
        BY <1>2, <3>2, <3>3 DEF Replayable, RepliedOnce, n
      <3> QED
        BY <3>2, <3>4
    <2> QED
      BY <2>1, <2>2
  <1>11. ASSUME NEW i \in 1 .. m + n, NEW c \in ToSet(CallsOf(e[i]))
         PROVE  Replied(e, i, c)
    <2>1. CASE i \in 1 .. m
      <3>1. Replied(p, i, c)
        BY <1>2, <1>3, <2>1 DEF Replayable
      <3>2. PICK j \in i + 1 .. m : Answers(p, i, j) /\ p[j].call = c
        BY <3>1 DEF Replied, m
      <3>3. Answers(e, i, j) /\ e[j].call = c /\ j \in i + 1 .. Len(e)
        BY <1>2, <1>3, <1>6, <2>1, <3>2
      <3> QED
        BY <3>3 DEF Replied
    <2>2. CASE i \notin 1 .. m
      <3>1. PICK a \in 1 .. n : i = m + a
        BY <1>5, <2>2
      <3>2. Replied(q, a, c)
        BY <1>2, <1>4, <3>1 DEF Replayable
      <3>3. PICK j \in a + 1 .. n : Answers(q, a, j) /\ q[j].call = c
        BY <3>2 DEF Replied, n
      <3>4. j \in 1 .. n /\ m + j \in i + 1 .. Len(e)
        BY <1>2, <3>1
      <3>5. Answers(e, i, m + j) /\ e[m + j].call = c
        BY <1>4, <1>7, <3>1, <3>3, <3>4
      <3> QED
        BY <3>4, <3>5 DEF Replied
    <2> QED
      BY <2>1, <2>2
  <1>12. Replayable(e)
    BY <1>2, <1>9, <1>10, <1>11 DEF Replayable
  <1> QED
    BY <1>12 DEF e

-----------------------------------------------------------------------------
(* The Store underneath.                                                   *)

SP == INSTANCE StoreProofs WITH Delta <- Seq(Item)

\* The assumption of the Store holds of the lifecycle's instance of it.
LEMMA StoreIsAssumed == SP!StoreAssumption
  BY LifecycleAssumption DEF LifecycleAssumption, SP!StoreAssumption

\* The Store's invariant holds initially.
LEMMA StoreStarts == Store!Init => SP!IInv
  <1>1. Store!Init => SP!Init
    BY DEF Store!Init, SP!Init
  <1> QED
    BY <1>1, SP!InitEstablishes, StoreIsAssumed

\* Every operation of the Store keeps what StoreProofs shows of it.
LEMMA StoreStep ==
    ASSUME SP!IInv, Store!Next \/ UNCHANGED storeVars
    PROVE  SP!IInv'
  <1>1. ASSUME NEW s \in Session, Store!CreateSession(s) PROVE SP!Next
    <2>1. SP!CreateSession(s)
      BY <1>1 DEF Store!CreateSession, SP!CreateSession
    <2> QED
      BY <2>1 DEF SP!Next
  <1>2. ASSUME NEW s \in Session, Store!AbortActiveRun(s) PROVE SP!Next
    <2>1. SP!AbortActiveRun(s)
      BY <1>2 DEF Store!AbortActiveRun, SP!AbortActiveRun, Store!IsActive, SP!IsActive
    <2> QED
      BY <2>1 DEF SP!Next
  <1>3. ASSUME NEW s \in Session, NEW r \in Run, Store!StartRun(s, r) PROVE SP!Next
    <2>1. SP!StartRun(s, r)
      BY <1>3 DEF Store!StartRun, SP!StartRun, Store!HasActiveRun, SP!HasActiveRun,
                  Store!IsActive, SP!IsActive
    <2> QED
      BY <2>1 DEF SP!Next
  <1>4. ASSUME Store!FinishSomeRun PROVE SP!Next
    <2>1. SP!FinishSomeRun
      BY <1>4 DEF Store!FinishSomeRun, SP!FinishSomeRun, Store!FinishRun, SP!FinishRun,
                  Store!IsActive, SP!IsActive, Store!Entries, SP!Entries,
                  Store!TerminalStatus, SP!TerminalStatus
    <2> QED
      BY <2>1 DEF SP!Next
  <1>5. ASSUME NEW source \in Session, NEW target \in Session,
               Store!ForkSession(source, target)
        PROVE  SP!Next
    <2>1. SP!ForkSession(source, target)
      BY <1>5 DEF Store!ForkSession, SP!ForkSession
    <2> QED
      BY <2>1 DEF SP!Next
  <1>6. [SP!Next]_SP!storeVars
    BY <1>1, <1>2, <1>3, <1>4, <1>5 DEF Store!Next, storeVars, SP!storeVars
  <1> QED
    BY <1>6, SP!StepPreserves, StoreIsAssumed

\* What the proofs below use of it.
StoreShape ==
    /\ runs \in [Run -> Store!RunRecord]
    /\ history \in [Session -> Seq(Store!Entry)]
    /\ \A r \in Run : runs[r].status # "absent" =>
                          runs[r].session \in sessions /\ runs[r].session \in Session
    /\ \A s \in Session : \A i \in DOMAIN history[s] :
          Store!IsTerminal(history[s][i].run)

\* What the lifecycle needs of the Store's invariant.
LEMMA StoreIs == SP!IInv => StoreShape /\ Store!TypeOK
  <1> SUFFICES ASSUME SP!IInv PROVE StoreShape /\ Store!TypeOK
    OBVIOUS
  <1>1. Store!TypeOK
    BY DEF SP!IInv, SP!TypeOK, Store!TypeOK, SP!RunRecord, Store!RunRecord,
           SP!Entry, Store!Entry, SP!Status, Store!Status, SP!TerminalStatus,
           Store!TerminalStatus
  <1>2. \A r \in Run : runs[r].status # "absent" =>
                           runs[r].session \in sessions /\ runs[r].session \in Session
    BY <1>1 DEF SP!IInv, SP!RunsHaveSessions, Store!TypeOK
  <1>3. \A s \in Session : \A i \in DOMAIN history[s] :
            Store!IsTerminal(history[s][i].run)
    BY DEF SP!IInv, SP!OnlyEndedRunsInHistory, SP!IsTerminal, Store!IsTerminal,
           SP!TerminalStatus, Store!TerminalStatus
  <1> QED
    BY <1>1, <1>2, <1>3 DEF StoreShape, Store!TypeOK

-----------------------------------------------------------------------------
(* Rows and turns.                                                         *)

RowsOf(r) == [run : {r}, item : Item]
ItemsAt(rows) == [i \in DOMAIN rows |-> rows[i].item]
TurnIn(r, h) == ItemsAt(Only(h, RowsOf(r)))

\* A run's turn is read from its session's rows.
LEMMA TurnIs == \A r : Turn(r) = TurnIn(r, history[runs[r].session])
  BY DEF Turn, TurnIn, ItemsAt, RowsOf

\* The rows of a delta are its items under the run's name.
LEMMA EntriesAre ==
    ASSUME NEW r \in Run, NEW delta \in Seq(Item)
    PROVE  /\ Store!Entries(r, delta) \in Seq(Store!Entry)
           /\ Len(Store!Entries(r, delta)) = Len(delta)
           /\ \A k \in 1 .. Len(delta) :
                 Store!Entries(r, delta)[k] = [run |-> r, item |-> delta[k]]
  <1> DEFINE E == Store!Entries(r, delta)
  <1>1. DOMAIN delta = 1 .. Len(delta) /\ Len(delta) \in Nat
    OBVIOUS
  <1>2. \A k \in 1 .. Len(delta) : delta[k] \in Item
    OBVIOUS
  <1>3. E = [k \in 1 .. Len(delta) |-> [run |-> r, item |-> delta[k]]]
    BY <1>1 DEF Store!Entries
  <1>4. \A k \in 1 .. Len(delta) : [run |-> r, item |-> delta[k]] \in Store!Entry
    BY <1>2 DEF Store!Entry
  <1> HIDE DEF E
  <1>5. E \in [1 .. Len(delta) -> Store!Entry]
    BY <1>3, <1>4
  <1>6. E \in Seq(Store!Entry) /\ Len(E) = Len(delta)
    BY <1>1, <1>5, FunctionsAreSequences
  <1> QED
    BY <1>3, <1>6 DEF E

\* The rows of a run in a history without any.
LEMMA NoTurn ==
    ASSUME NEW r, NEW h \in Seq(Store!Entry), \A i \in DOMAIN h : h[i].run # r
    PROVE  TurnIn(r, h) = <<>>
  <1>1. ToSet(h) \cap RowsOf(r) = {}
    BY DEF ToSet, RowsOf
  <1>2. Only(h, RowsOf(r)) = <<>>
    BY <1>1, OnlyAllOrNone
  <1> QED
    BY <1>2 DEF TurnIn, ItemsAt

\* A finish adds the whole delta to its run's turn, and nothing to another's.
LEMMA TurnAfterFinish ==
    ASSUME NEW h \in Seq(Store!Entry), NEW r \in Run, NEW delta \in Seq(Item), NEW q \in Run
    PROVE  LET g == h \o Store!Entries(r, delta)
           IN  /\ q # r => TurnIn(q, g) = TurnIn(q, h)
               /\ (\A i \in DOMAIN h : h[i].run # r) => TurnIn(r, g) = delta
  <1> DEFINE E == Store!Entries(r, delta)
  <1>1. /\ E \in Seq(Store!Entry) /\ Len(E) = Len(delta)
        /\ \A k \in 1 .. Len(delta) : E[k] = [run |-> r, item |-> delta[k]]
    BY EntriesAre
  <1> HIDE DEF E
  <1>2. /\ DOMAIN E = 1 .. Len(delta) /\ DOMAIN delta = 1 .. Len(delta)
        /\ \A k \in 1 .. Len(delta) : delta[k] \in Item
    BY <1>1
  <1>3. ASSUME q # r PROVE TurnIn(q, h \o E) = TurnIn(q, h)
    <2>1. ToSet(E) \cap RowsOf(q) = {}
      BY <1>1, <1>2, <1>3 DEF ToSet, RowsOf
    <2>2. Only(E, RowsOf(q)) = <<>>
      BY <1>1, <2>1, OnlyAllOrNone
    <2>3. Only(h \o E, RowsOf(q)) = Only(h, RowsOf(q)) \o Only(E, RowsOf(q))
      BY <1>1, OnlyConcat
    <2>4. Only(h, RowsOf(q)) \in Seq(Store!Entry \cap RowsOf(q))
      BY OnlyType
    <2>5. Only(h, RowsOf(q)) \o <<>> = Only(h, RowsOf(q))
      BY <2>4, ConcatEmptySeq
    <2> QED
      BY <2>2, <2>3, <2>5, Zenon DEF TurnIn
  <1>4. ASSUME \A i \in DOMAIN h : h[i].run # r PROVE TurnIn(r, h \o E) = delta
    <2>1. ToSet(h) \cap RowsOf(r) = {}
      BY <1>4 DEF ToSet, RowsOf
    <2>2. Only(h, RowsOf(r)) = <<>>
      BY <2>1, OnlyAllOrNone
    <2>3. ToSet(E) \subseteq RowsOf(r)
      BY <1>1, <1>2 DEF ToSet, RowsOf
    <2>4. Only(E, RowsOf(r)) = E
      BY <1>1, <2>3, OnlyAllOrNone
    <2>5. Only(h \o E, RowsOf(r)) = Only(h, RowsOf(r)) \o Only(E, RowsOf(r))
      BY <1>1, OnlyConcat
    <2>6. <<>> \o E = E
      BY <1>1, ConcatEmptySeq
    <2>7. TurnIn(r, h \o E) = ItemsAt(E)
      BY <2>2, <2>4, <2>5, <2>6, Zenon DEF TurnIn
    <2>8. ItemsAt(E) = delta
      <3>1. ItemsAt(E) = [i \in 1 .. Len(delta) |-> delta[i]]
        BY <1>1, <1>2 DEF ItemsAt
      <3> QED
        BY <1>2, <3>1
    <2> QED
      BY <2>7, <2>8
  <1> QED
    BY <1>3, <1>4 DEF E

\* The items of a history that a finish extended.
LEMMA ItemsAfterFinish ==
    ASSUME NEW h \in Seq(Store!Entry), NEW r \in Run, NEW delta \in Seq(Item)
    PROVE  /\ ItemsAt(h) \in Seq(Item)
           /\ ItemsAt(h \o Store!Entries(r, delta)) = ItemsAt(h) \o delta
  <1> DEFINE E == Store!Entries(r, delta)
             g == h \o E
             p == ItemsAt(h)
             a == p \o delta
  <1>1. /\ E \in Seq(Store!Entry) /\ Len(E) = Len(delta)
        /\ \A k \in 1 .. Len(delta) : E[k] = [run |-> r, item |-> delta[k]]
    BY EntriesAre
  <1> HIDE DEF E
  <1>2. /\ g \in Seq(Store!Entry) /\ Len(g) = Len(h) + Len(delta)
        /\ \A i \in 1 .. Len(h) + Len(delta) :
              g[i] = IF i <= Len(h) THEN h[i] ELSE E[i - Len(h)]
    <2>0. E \in Seq(Store!Entry)
      BY <1>1
    <2>1. /\ g \in Seq(Store!Entry) /\ Len(g) = Len(h) + Len(E)
          /\ \A i \in 1 .. Len(h) + Len(E) :
                g[i] = IF i <= Len(h) THEN h[i] ELSE E[i - Len(h)]
      BY <2>0, ConcatProperties
    <2> HIDE DEF g
    <2> QED
      BY <1>1, <2>1
  <1>3. p \in Seq(Item) /\ Len(p) = Len(h) /\ \A i \in 1 .. Len(h) : p[i] = h[i].item
    <2>0. Len(h) \in Nat
      OBVIOUS
    <2>1. p = [i \in 1 .. Len(h) |-> h[i].item]
      BY DEF ItemsAt
    <2>2. \A i \in 1 .. Len(h) : h[i] \in Store!Entry
      OBVIOUS
    <2>3. \A i \in 1 .. Len(h) : h[i].item \in Item
      BY <2>2 DEF Store!Entry
    <2> HIDE DEF p
    <2>4. p \in [1 .. Len(h) -> Item]
      BY <2>1, <2>3
    <2>5. p \in Seq(Item) /\ Len(p) = Len(h)
      BY <2>0, <2>4, FunctionsAreSequences
    <2> QED
      BY <2>1, <2>5
  <1> HIDE DEF p, g
  <1>4. /\ a \in Seq(Item) /\ Len(a) = Len(h) + Len(delta)
        /\ \A i \in 1 .. Len(h) + Len(delta) :
              a[i] = IF i <= Len(h) THEN p[i] ELSE delta[i - Len(h)]
    <2>1. /\ a \in Seq(Item) /\ Len(a) = Len(p) + Len(delta)
          /\ \A i \in 1 .. Len(p) + Len(delta) :
                a[i] = IF i <= Len(p) THEN p[i] ELSE delta[i - Len(p)]
      BY <1>3, ConcatProperties
    <2> HIDE DEF a
    <2> QED
      BY <1>3, <2>1
  <1> HIDE DEF a
  <1>5. ItemsAt(g) = a
    <2>0. Len(h) \in Nat /\ Len(delta) \in Nat
      OBVIOUS
    <2>1. ItemsAt(g) = [i \in 1 .. Len(h) + Len(delta) |-> g[i].item]
      BY <1>2 DEF ItemsAt
    <2>2. ASSUME NEW i \in 1 .. Len(h) + Len(delta) PROVE g[i].item = a[i]
      <3>1. CASE i <= Len(h)
        <4>1. i \in 1 .. Len(h) /\ g[i] = h[i] /\ a[i] = p[i]
          BY <1>2, <1>4, <2>0, <3>1
        <4> QED
          BY <1>3, <4>1
      <3>2. CASE ~(i <= Len(h))
        <4>1. i - Len(h) \in 1 .. Len(delta)
          BY <2>0, <3>2
        <4>2. g[i] = E[i - Len(h)] /\ a[i] = delta[i - Len(h)]
          BY <1>2, <1>4, <3>2
        <4>3. E[i - Len(h)] = [run |-> r, item |-> delta[i - Len(h)]]
          BY <1>1, <4>1
        <4> QED
          BY <4>2, <4>3
      <3> QED
        BY <3>1, <3>2
    <2>3. a = [i \in 1 .. Len(h) + Len(delta) |-> a[i]]
      BY <1>4
    <2> QED
      BY <2>1, <2>2, <2>3
  <1> QED
    BY <1>3, <1>5 DEF p, g, a, E

-----------------------------------------------------------------------------
(* One execution: its log, its buffer and its answer.                      *)

LogEvent ==
    {RunStart, FailedTurn, RunFault}
    \cup {Emitted(item) : item \in Item}
    \cup {RunEnd(outcome) : outcome \in Outcome}

ExecRecord ==
    [phase : {"none", "running", "done", "finalized", "lost"},
     process : Process \cup {NoProcess},
     aborting : BOOLEAN,
     outcome : Outcome \cup {"none"},
     delta : Seq(Item),
     log : Seq(LogEvent),
     result : Outcome \cup {"none", "faulted"}]

ItemsIn(log) ==
    LET events == Only(log, {Emitted(item) : item \in Item})
    IN  [i \in DOMAIN events |-> events[i].item]

SeenIn(log) == <<UserMessage>> \o ItemsIn(log)

Terminal(event) == event.event \in {"run_end", "run_fault"}

LogCloses(e) ==
    /\ e.result = "none" => \A i \in DOMAIN e.log : ~Terminal(e.log[i])
    /\ e.result # "none" =>
          /\ e.log # <<>>
          /\ \A i \in DOMAIN e.log : Terminal(e.log[i]) <=> i = Len(e.log)
          /\ e.log[Len(e.log)] = IF e.result = "faulted" THEN RunFault ELSE RunEnd(e.result)

RecordOK(e) ==
    /\ e \in ExecRecord
    /\ e.result # "none" <=> e.phase = "finalized"
    /\ e.phase = "done" => e.outcome \in Outcome
    /\ e.phase # "none" => Conversation(e.delta)
    /\ e.phase \in {"running", "done", "lost"} => e.delta = SeenIn(e.log)
    /\ e.phase = "finalized" => e.delta = Heal(SeenIn(e.log))
    /\ LogCloses(e)

\* The kinds of events, and which of them end a log.
LEMMA EventsAre ==
    /\ RunStart \in LogEvent /\ ~Terminal(RunStart) /\ RunStart.event # "item"
    /\ FailedTurn \in LogEvent /\ ~Terminal(FailedTurn) /\ FailedTurn.event # "item"
    /\ RunFault \in LogEvent /\ Terminal(RunFault) /\ RunFault.event # "item"
    /\ \A outcome \in Outcome :
          /\ RunEnd(outcome) \in LogEvent /\ Terminal(RunEnd(outcome))
          /\ RunEnd(outcome).event # "item"
    /\ \A item \in Item :
          /\ Emitted(item) \in LogEvent /\ ~Terminal(Emitted(item))
          /\ Emitted(item).event = "item" /\ Emitted(item).item = item
  BY DEF LogEvent, RunStart, FailedTurn, RunFault, RunEnd, Emitted, Terminal

\* One more event shows one more item, or none.
LEMMA ItemsInAppend ==
    ASSUME NEW log \in Seq(LogEvent)
    PROVE  /\ ItemsIn(log) \in Seq(Item)
           /\ \A item \in Item :
                 ItemsIn(Append(log, Emitted(item))) = Append(ItemsIn(log), item)
           /\ \A x \in LogEvent :
                 x.event # "item" => ItemsIn(Append(log, x)) = ItemsIn(log)
  <1> DEFINE T == {Emitted(item) : item \in Item}
             events == Only(log, T)
  <1>1. events \in Seq(LogEvent \cap T)
    BY OnlyType
  <1>2. \A x \in T : \E item \in Item : x = Emitted(item)
    OBVIOUS
  <1>3. \A item \in Item : Emitted(item) \in T
    OBVIOUS
  <1> HIDE DEF T, events
  <1>4. /\ ItemsIn(log) = [i \in 1 .. Len(events) |-> events[i].item]
        /\ Len(events) \in Nat
        /\ \A i \in 1 .. Len(events) : events[i].item \in Item
    <2>1. DOMAIN events = 1 .. Len(events) /\ Len(events) \in Nat
      BY <1>1
    <2>2. ASSUME NEW i \in 1 .. Len(events) PROVE events[i].item \in Item
      <3>1. events[i] \in T
        BY <1>1
      <3> QED
        BY <1>2, <3>1, EventsAre
    <2> QED
      BY <2>1, <2>2 DEF ItemsIn, events, T
  <1>5. ItemsIn(log) \in Seq(Item) /\ Len(ItemsIn(log)) = Len(events)
        /\ \A i \in 1 .. Len(events) : ItemsIn(log)[i] = events[i].item
    <2>1. ItemsIn(log) \in [1 .. Len(events) -> Item]
      BY <1>4
    <2>2. Len(events) \in Nat
      BY <1>4
    <2>3. ItemsIn(log) \in Seq(Item) /\ Len(ItemsIn(log)) = Len(events)
      BY <2>1, <2>2, FunctionsAreSequences
    <2> QED
      BY <1>4, <2>3
  <1>6. ASSUME NEW item \in Item
        PROVE  ItemsIn(Append(log, Emitted(item))) = Append(ItemsIn(log), item)
    <2> DEFINE x == Emitted(item)
               more == Append(events, x)
               p == ItemsIn(log)
               q == ItemsIn(Append(log, x))
               a == Append(p, item)
    <2>1. x \in LogEvent /\ x \in T /\ x.item = item
      BY <1>3, EventsAre
    <2> HIDE DEF x
    <2>2. Only(Append(log, x), T) = more
      BY <2>1, OnlyAppend DEF events
    <2>3. /\ Len(more) = Len(events) + 1 /\ DOMAIN more = 1 .. Len(events) + 1
          /\ more[Len(events) + 1] = x
          /\ \A i \in 1 .. Len(events) : more[i] = events[i]
      <3>1. x \in LogEvent \cap T
        BY <2>1
      <3> QED
        BY <1>1, <3>1, OneMore
    <2>4. q = [i \in 1 .. Len(events) + 1 |-> more[i].item]
      BY <2>2, <2>3 DEF ItemsIn, T
    <2> HIDE DEF q, more, p
    <2>5. /\ a \in Seq(Item) /\ Len(a) = Len(events) + 1 /\ a[Len(events) + 1] = item
          /\ \A i \in 1 .. Len(events) : a[i] = p[i]
      BY <1>5, AppendProperties DEF p
    <2> HIDE DEF a
    <2>6. ASSUME NEW i \in 1 .. Len(events) + 1 PROVE more[i].item = a[i]
      <3>1. CASE i \in 1 .. Len(events)
        BY <1>5, <2>3, <2>5, <3>1 DEF p
      <3>2. CASE i = Len(events) + 1
        BY <2>1, <2>3, <2>5, <3>2
      <3> QED
        BY <1>4, <3>1, <3>2
    <2>7. a = [i \in 1 .. Len(events) + 1 |-> a[i]]
      BY <2>5
    <2>8. q = a
      BY <2>4, <2>6, <2>7
    <2> QED
      BY <2>8 DEF q, a, p, x
  <1>7. ASSUME NEW x \in LogEvent, x.event # "item"
        PROVE  ItemsIn(Append(log, x)) = ItemsIn(log)
    <2>1. x \notin T
      BY <1>2, <1>7, EventsAre
    <2>2. Only(Append(log, x), T) = events
      BY <2>1, OnlyAppend DEF events
    <2> QED
      BY <2>2 DEF ItemsIn, events, T
  <1> QED
    BY <1>5, <1>6, <1>7

\* The same, after the prompt.
LEMMA SeenInAppend ==
    ASSUME NEW log \in Seq(LogEvent)
    PROVE  /\ SeenIn(log) \in Seq(Item)
           /\ \A item \in Item : SeenIn(Append(log, Emitted(item))) = Append(SeenIn(log), item)
           /\ \A x \in LogEvent : x.event # "item" => SeenIn(Append(log, x)) = SeenIn(log)
  <1>1. <<UserMessage>> \in Seq(Item) /\ ItemsIn(log) \in Seq(Item)
    BY ItemsAre, ItemsInAppend
  <1>2. ASSUME NEW item \in Item
        PROVE  SeenIn(Append(log, Emitted(item))) = Append(SeenIn(log), item)
    <2>1. ItemsIn(Append(log, Emitted(item))) = Append(ItemsIn(log), item)
      BY ItemsInAppend
    <2>2. <<UserMessage>> \o Append(ItemsIn(log), item)
              = Append(<<UserMessage>> \o ItemsIn(log), item)
      BY <1>1, ConcatAppends
    <2> QED
      BY <2>1, <2>2 DEF SeenIn
  <1>3. SeenIn(log) \in Seq(Item)
    BY <1>1, ConcatProperties DEF SeenIn
  <1> QED
    BY <1>2, <1>3, ItemsInAppend DEF SeenIn

\* One more event that does not close the log, and one that does.
LEMMA LogAppend ==
    ASSUME NEW log \in Seq(LogEvent), NEW x \in LogEvent,
           \A i \in DOMAIN log : ~Terminal(log[i])
    PROVE  LET more == Append(log, x)
           IN  /\ more \in Seq(LogEvent) /\ more # <<>> /\ more[Len(more)] = x
               /\ ~Terminal(x) => \A i \in DOMAIN more : ~Terminal(more[i])
               /\ Terminal(x) => \A i \in DOMAIN more : Terminal(more[i]) <=> i = Len(more)
  <1> DEFINE more == Append(log, x)
  <1>1. /\ more \in Seq(LogEvent) /\ Len(log) \in Nat /\ Len(more) = Len(log) + 1
        /\ DOMAIN log = 1 .. Len(log) /\ DOMAIN more = 1 .. Len(log) + 1
        /\ \A i \in 1 .. Len(log) : more[i] = log[i]
        /\ more[Len(log) + 1] = x
    BY OneMore
  <1>2. more # <<>>
    BY <1>1
  <1> HIDE DEF more
  <1>3. ASSUME NEW i \in DOMAIN more
        PROVE  /\ ~Terminal(x) => ~Terminal(more[i])
               /\ Terminal(x) => (Terminal(more[i]) <=> i = Len(more))
    <2>1. CASE i \in 1 .. Len(log)
      BY <1>1, <2>1
    <2>2. CASE i = Len(log) + 1
      BY <1>1, <2>2
    <2> QED
      BY <1>1, <2>1, <2>2
  <1> QED
    BY <1>1, <1>2, <1>3 DEF more

\* The fields of an execution.
LEMMA ExecShape ==
    ASSUME NEW e \in ExecRecord
    PROVE  /\ e.phase \in {"none", "running", "done", "finalized", "lost"}
           /\ e.process \in Process \cup {NoProcess} /\ e.aborting \in BOOLEAN
           /\ e.outcome \in Outcome \cup {"none"}
           /\ e.delta \in Seq(Item) /\ e.log \in Seq(LogEvent)
           /\ e.result \in Outcome \cup {"none", "faulted"}
  BY DEF ExecRecord

\* Before its prompt a run's execution is well formed.
LEMMA RecordNone == RecordOK(NoExecution)
  <1>1. <<>> \in Seq(Item) /\ <<>> \in Seq(LogEvent)
    OBVIOUS
  <1>2. NoExecution \in ExecRecord
    BY <1>1 DEF NoExecution, ExecRecord
  <1> QED
    BY <1>2 DEF RecordOK, NoExecution, LogCloses

\* So it is when the prompt has been admitted.
LEMMA RecordNew ==
    ASSUME NEW p \in Process
    PROVE  RecordOK([NoExecution EXCEPT !.phase = "running", !.process = p,
                                        !.delta = <<UserMessage>>, !.log = <<RunStart>>])
  <1> DEFINE e == [NoExecution EXCEPT !.phase = "running", !.process = p,
                                      !.delta = <<UserMessage>>, !.log = <<RunStart>>]
  <1>1. NoExecution \in ExecRecord /\ NoExecution.result = "none"
    BY RecordNone DEF RecordOK, NoExecution
  <1>2. <<UserMessage>> \in Seq(Item) /\ <<RunStart>> \in Seq(LogEvent)
        /\ RunStart \in LogEvent /\ ~Terminal(RunStart) /\ RunStart.event # "item"
    BY ItemsAre, EventsAre
  <1>3. SeenIn(<<RunStart>>) = <<UserMessage>>
    <2>1. <<RunStart>> = Append(<<>>, RunStart) /\ <<>> \in Seq(LogEvent)
      OBVIOUS
    <2>2. SeenIn(<<RunStart>>) = SeenIn(<<>>)
      BY <1>2, <2>1, SeenInAppend
    <2>3. ItemsIn(<<>>) = <<>>
      BY OnlyEmpty DEF ItemsIn
    <2>4. <<UserMessage>> \o <<>> = <<UserMessage>>
      BY <1>2, ConcatEmptySeq
    <2> QED
      BY <2>2, <2>3, <2>4 DEF SeenIn
  <1>4. /\ e.phase = "running" /\ e.delta = <<UserMessage>> /\ e.log = <<RunStart>>
        /\ e.result = "none"
    BY <1>1 DEF ExecRecord
  <1>5. e \in ExecRecord
    BY <1>1, <1>2 DEF ExecRecord
  <1> HIDE DEF e
  <1>6. LogCloses(e)
    <2>1. \A i \in DOMAIN <<RunStart>> : <<RunStart>>[i] = RunStart
      OBVIOUS
    <2> QED
      BY <1>2, <1>4, <2>1 DEF LogCloses
  <1> QED
    BY <1>3, <1>4, <1>5, <1>6, ConversationStarts DEF RecordOK, e

\* _emit of an item that continues the conversation.
LEMMA RecordEmit ==
    ASSUME NEW e, RecordOK(e), e.phase = "running", NEW item \in Item,
           Conversation(Append(e.delta, item))
    PROVE  RecordOK([e EXCEPT !.log = Append(@, Emitted(item)), !.delta = Append(@, item)])
  <1> DEFINE x == Emitted(item)
             f == [e EXCEPT !.log = Append(@, x), !.delta = Append(@, item)]
  <1>1. /\ e \in ExecRecord /\ e.result = "none" /\ e.delta \in Seq(Item)
        /\ e.log \in Seq(LogEvent) /\ \A i \in DOMAIN e.log : ~Terminal(e.log[i])
        /\ e.delta = SeenIn(e.log)
    BY ExecShape DEF RecordOK, LogCloses
  <1>2. x \in LogEvent /\ ~Terminal(x)
    BY EventsAre
  <1>3. SeenIn(Append(e.log, x)) = Append(e.delta, item)
    BY <1>1, SeenInAppend
  <1> HIDE DEF x
  <1>4. /\ Append(e.log, x) \in Seq(LogEvent)
        /\ \A i \in DOMAIN Append(e.log, x) : ~Terminal(Append(e.log, x)[i])
    BY <1>1, <1>2, LogAppend
  <1>5. Append(e.delta, item) \in Seq(Item)
    BY <1>1
  <1>6. /\ f.phase = "running" /\ f.result = "none"
        /\ f.delta = Append(e.delta, item) /\ f.log = Append(e.log, x)
    BY <1>1 DEF ExecRecord
  <1>7. f \in ExecRecord
    BY <1>1, <1>4, <1>5 DEF ExecRecord
  <1> HIDE DEF f
  <1>8. LogCloses(f)
    BY <1>4, <1>6 DEF LogCloses
  <1> QED
    BY <1>3, <1>6, <1>7, <1>8 DEF RecordOK, f, x

\* Changes that leave the buffer and the log alone.
LEMMA RecordMoves ==
    ASSUME NEW e, RecordOK(e)
    PROVE  /\ e.phase = "running" =>
                 \A outcome \in Outcome :
                     RecordOK([e EXCEPT !.phase = "done", !.outcome = outcome])
           /\ e.phase = "running" => RecordOK([e EXCEPT !.aborting = TRUE])
           /\ e.phase \in {"running", "done"} => RecordOK([e EXCEPT !.phase = "lost"])
  <1>1. e \in ExecRecord
    BY DEF RecordOK
  <1>2. ASSUME e.phase = "running", NEW outcome \in Outcome
        PROVE  RecordOK([e EXCEPT !.phase = "done", !.outcome = outcome])
    <2> DEFINE f == [e EXCEPT !.phase = "done", !.outcome = outcome]
    <2>1. /\ f \in ExecRecord /\ f.phase = "done" /\ f.outcome = outcome
          /\ f.result = e.result /\ f.delta = e.delta /\ f.log = e.log
      BY <1>1 DEF ExecRecord
    <2> HIDE DEF f
    <2> QED
      BY <1>2, <2>1 DEF RecordOK, LogCloses, f
  <1>3. ASSUME e.phase = "running"
        PROVE  RecordOK([e EXCEPT !.aborting = TRUE])
    <2> DEFINE f == [e EXCEPT !.aborting = TRUE]
    <2>1. /\ f \in ExecRecord /\ f.phase = e.phase /\ f.outcome = e.outcome
          /\ f.result = e.result /\ f.delta = e.delta /\ f.log = e.log
      BY <1>1 DEF ExecRecord
    <2> HIDE DEF f
    <2> QED
      BY <2>1 DEF RecordOK, LogCloses, f
  <1>4. ASSUME e.phase \in {"running", "done"}
        PROVE  RecordOK([e EXCEPT !.phase = "lost"])
    <2> DEFINE f == [e EXCEPT !.phase = "lost"]
    <2>1. /\ f \in ExecRecord /\ f.phase = "lost" /\ f.outcome = e.outcome
          /\ f.result = e.result /\ f.delta = e.delta /\ f.log = e.log
      BY <1>1 DEF ExecRecord
    <2> HIDE DEF f
    <2> QED
      BY <1>4, <2>1 DEF RecordOK, LogCloses, f
  <1> QED
    BY <1>2, <1>3, <1>4

\* A failed turn is shown and not observed.
LEMMA RecordFailTurn ==
    ASSUME NEW e, RecordOK(e), e.phase = "running"
    PROVE  RecordOK([e EXCEPT !.phase = "done", !.outcome = "failed",
                              !.log = Append(@, FailedTurn)])
  <1> DEFINE f == [e EXCEPT !.phase = "done", !.outcome = "failed",
                            !.log = Append(@, FailedTurn)]
  <1>1. /\ e \in ExecRecord /\ e.result = "none" /\ e.delta = SeenIn(e.log)
        /\ e.log \in Seq(LogEvent) /\ \A i \in DOMAIN e.log : ~Terminal(e.log[i])
        /\ Conversation(e.delta)
    BY ExecShape DEF RecordOK, LogCloses
  <1>2. FailedTurn \in LogEvent /\ ~Terminal(FailedTurn)
        /\ SeenIn(Append(e.log, FailedTurn)) = SeenIn(e.log)
    BY <1>1, EventsAre, SeenInAppend
  <1>3. /\ Append(e.log, FailedTurn) \in Seq(LogEvent)
        /\ \A i \in DOMAIN Append(e.log, FailedTurn) : ~Terminal(Append(e.log, FailedTurn)[i])
    BY <1>1, <1>2, LogAppend
  <1>4. /\ f.phase = "done" /\ f.outcome = "failed" /\ f.result = "none"
        /\ f.delta = e.delta /\ f.log = Append(e.log, FailedTurn)
    BY <1>1 DEF ExecRecord
  <1>5. f \in ExecRecord /\ "failed" \in Outcome
    BY <1>1, <1>3 DEF ExecRecord, Outcome
  <1> HIDE DEF f
  <1>6. LogCloses(f)
    BY <1>3, <1>4 DEF LogCloses
  <1> QED
    BY <1>1, <1>2, <1>4, <1>5, <1>6 DEF RecordOK, f

\* _finish: the buffer is healed and the log closed.
LEMMA RecordClose ==
    ASSUME NEW e, RecordOK(e), e.phase = "done", NEW result \in Outcome \cup {"faulted"}
    PROVE  RecordOK([e EXCEPT !.phase = "finalized", !.result = result,
                              !.delta = Heal(e.delta),
                              !.log = Append(@, IF result = "faulted" THEN RunFault
                                                ELSE RunEnd(result))])
  <1> DEFINE x == IF result = "faulted" THEN RunFault ELSE RunEnd(result)
             f == [e EXCEPT !.phase = "finalized", !.result = result,
                            !.delta = Heal(e.delta), !.log = Append(@, x)]
  <1>1. /\ e \in ExecRecord /\ e.result = "none" /\ e.delta = SeenIn(e.log)
        /\ e.log \in Seq(LogEvent) /\ \A i \in DOMAIN e.log : ~Terminal(e.log[i])
        /\ Conversation(e.delta)
    BY ExecShape DEF RecordOK, LogCloses
  <1>2. x \in LogEvent /\ Terminal(x) /\ x.event # "item"
    <2>1. CASE result = "faulted"
      BY <2>1, EventsAre
    <2>2. CASE result # "faulted"
      BY <2>2, EventsAre
    <2> QED
      BY <2>1, <2>2
  <1>3. result # "none"
    BY DEF Outcome
  <1> HIDE DEF x
  <1>4. /\ Append(e.log, x) \in Seq(LogEvent) /\ Append(e.log, x) # <<>>
        /\ Append(e.log, x)[Len(Append(e.log, x))] = x
        /\ \A i \in DOMAIN Append(e.log, x) :
              Terminal(Append(e.log, x)[i]) <=> i = Len(Append(e.log, x))
    BY <1>1, <1>2, LogAppend
  <1>5. SeenIn(Append(e.log, x)) = SeenIn(e.log)
    BY <1>1, <1>2, SeenInAppend
  <1>6. Conversation(Heal(e.delta)) /\ Heal(e.delta) \in Seq(Item)
    <2>1. Conversation(Heal(e.delta))
      BY <1>1, HealCloses
    <2> QED
      BY <2>1 DEF Conversation
  <1>7. /\ f.phase = "finalized" /\ f.result = result /\ f.delta = Heal(e.delta)
        /\ f.log = Append(e.log, x)
    BY <1>1 DEF ExecRecord
  <1>8. f \in ExecRecord
    BY <1>1, <1>4, <1>6 DEF ExecRecord
  <1> HIDE DEF f
  <1>9. LogCloses(f)
    BY <1>3, <1>4, <1>7 DEF LogCloses, x
  <1> QED
    BY <1>1, <1>3, <1>5, <1>6, <1>7, <1>8, <1>9 DEF RecordOK, f, x

-----------------------------------------------------------------------------
(* The inductive invariant.                                                *)

\* An execution and the record of its run.
Linked(r, e) ==
    /\ e.phase = "none" <=> runs[r].status = "absent"
    /\ Store!IsActive(r) => e.phase \in {"running", "done", "lost"} \/ e.result = "faulted"
    /\ Kept(r) => e.phase = "finalized" /\ Turn(r) = e.delta

IInv ==
    /\ SP!IInv
    /\ exec \in [Run -> ExecRecord]
    /\ \A r \in Run : RecordOK(exec[r]) /\ Linked(r, exec[r])
    /\ \A s \in Session : Replayable(ItemsAt(history[s]))

\* An empty history can be replayed.
LEMMA EmptyIsReplayable == Replayable(<<>>)
  <1>1. <<>> \in Seq(Item)
    OBVIOUS
  <1> QED
    BY <1>1 DEF Replayable, Justified, RepliedOnce

\* The invariant holds initially.
LEMMA InitEstablishes == Init => IInv
  <1> SUFFICES ASSUME Init PROVE IInv
    OBVIOUS
  <1>1. SP!IInv
    BY StoreStarts DEF Init
  <1>2. \A r \in Run : exec[r] = NoExecution
    BY DEF Init
  <1>3. NoExecution \in ExecRecord
    BY RecordNone DEF RecordOK
  <1>4. exec \in [Run -> ExecRecord]
    BY <1>3 DEF Init
  <1>5. ASSUME NEW r \in Run PROVE RecordOK(exec[r]) /\ Linked(r, exec[r])
    <2>1. runs[r].status = "absent"
      BY DEF Init, Store!Init
    <2>2. ~Kept(r) /\ ~Store!IsActive(r)
      BY <2>1 DEF Kept, Store!IsActive
    <2>3. exec[r].phase = "none"
      BY <1>2 DEF NoExecution
    <2> QED
      BY <1>2, <2>1, <2>2, <2>3, RecordNone DEF Linked
  <1>6. ASSUME NEW s \in Session PROVE Replayable(ItemsAt(history[s]))
    <2>1. history[s] = <<>>
      BY DEF Init, Store!Init
    <2>2. ItemsAt(<<>>) = <<>>
      BY DEF ItemsAt
    <2> QED
      BY <2>1, <2>2, EmptyIsReplayable
  <1> QED
    BY <1>1, <1>4, <1>5, <1>6 DEF IInv

\* What the invariant says of one run.
LEMMA RunIs ==
    ASSUME IInv, NEW r \in Run
    PROVE  /\ RecordOK(exec[r]) /\ Linked(r, exec[r])
           /\ exec \in [Run -> ExecRecord] /\ exec[r] \in ExecRecord
           /\ StoreShape
  BY StoreIs DEF IInv

\* A step that touches one execution and no record.
LEMMA ExecutionStep ==
    ASSUME IInv, NEW r \in Run, NEW e,
           exec' = [exec EXCEPT ![r] = e], UNCHANGED storeVars,
           RecordOK(e), Linked(r, e)
    PROVE  IInv'
  <1>1. SP!IInv'
    BY StoreStep DEF IInv
  <1>2. exec' \in [Run -> ExecRecord]
    BY DEF IInv, RecordOK
  <1>3. UNCHANGED <<runs, history>>
    BY DEF storeVars
  <1>4. \A q \in Run : exec'[q] = IF q = r THEN e ELSE exec[q]
    BY DEF IInv
  <1>5. ASSUME NEW q \in Run PROVE RecordOK(exec'[q]) /\ Linked(q, exec'[q])
    BY <1>4 DEF IInv
  <1>6. ASSUME NEW q \in Run PROVE Linked(q, exec[q])'
    <2>1. Turn(q)' = Turn(q)
      BY <1>3 DEF Turn
    <2>2. Kept(q)' <=> Kept(q)
      BY <1>3, <2>1 DEF Kept
    <2>3. Store!IsActive(q)' <=> Store!IsActive(q)
      BY <1>3 DEF Store!IsActive
    <2> QED
      BY <1>3, <1>5, <2>1, <2>2, <2>3 DEF Linked
  <1>7. ASSUME NEW s \in Session PROVE Replayable(ItemsAt(history[s]))'
    BY <1>3 DEF IInv
  <1> QED
    BY <1>1, <1>2, <1>5, <1>6, <1>7 DEF IInv

\* While its task or its callback is pending, a run has kept nothing.
LEMMA PendingKeepsNothing ==
    ASSUME IInv, NEW r \in Run, exec[r].phase \in {"running", "done"}
    PROVE  ~Kept(r) /\ runs[r].status # "absent"
  BY RunIs DEF Linked

\* A pending execution that stays pending, or is lost, is linked as before.
LEMMA StaysLinked ==
    ASSUME IInv, NEW r \in Run, exec[r].phase \in {"running", "done"},
           NEW e, e.phase \in {"running", "done", "lost"}
    PROVE  Linked(r, e)
  BY PendingKeepsNothing DEF Linked

\* A step of the task that emits an item.
LEMMA EmitPreserves ==
    ASSUME IInv, NEW r \in Run, NEW item \in Item, exec[r].phase = "running",
           Conversation(Append(exec[r].delta, item)), Emit(r, item), UNCHANGED storeVars
    PROVE  IInv'
  <1> DEFINE e == [exec[r] EXCEPT !.log = Append(@, Emitted(item)),
                                  !.delta = Append(@, item)]
  <1>1. RecordOK(exec[r]) /\ exec[r] \in ExecRecord /\ exec \in [Run -> ExecRecord]
    BY RunIs
  <1>2. RecordOK(e)
    BY <1>1, RecordEmit
  <1>3. e.phase = "running"
    BY <1>1 DEF ExecRecord
  <1>4. exec' = [exec EXCEPT ![r] = e]
    BY <1>1 DEF Emit
  <1> HIDE DEF e
  <1>5. Linked(r, e)
    BY <1>3, StaysLinked
  <1> QED
    BY <1>2, <1>4, <1>5, ExecutionStep

\* A provider turn opens its calls after all earlier ones are answered.
LEMMA CompleteTurnPreserves ==
    ASSUME IInv, NEW r \in Run, NEW calls \in CallLists, CompleteTurn(r, calls)
    PROVE  IInv'
  <1> DEFINE d == exec[r].delta
             x == AssistantTurn(calls)
  <1>1. exec[r].phase = "running" /\ RecordOK(exec[r])
    BY RunIs DEF CompleteTurn, MayStep, Running
  <1>2. Conversation(d) /\ d \in Seq(Item)
    BY <1>1 DEF RecordOK, Conversation
  <1>3. UnansweredToolCalls(d) = <<>> /\ ToSet(calls) \cap Answered(d) = {}
    BY DEF CompleteTurn, Settled
  <1>4. x \in Item /\ x.kind = "assistant" /\ CallsOf(x) = calls
    BY ItemsAre
  <1>5. UnansweredToolCalls(Append(d, x)) = CallsOf(x)
    BY <1>2, <1>3, <1>4, TurnOpens
  <1>6. Emit(r, x) /\ UNCHANGED storeVars
    BY DEF CompleteTurn
  <1> HIDE DEF d, x
  <1>7. Conversation(Append(d, x))
    BY <1>2, <1>3, <1>4, <1>5, ConversationContinues
  <1> QED
    BY <1>1, <1>4, <1>6, <1>7, EmitPreserves DEF d

\* A result closes the first open call.
LEMMA EndToolPreserves ==
    ASSUME IInv, NEW r \in Run, NEW isError \in BOOLEAN, EndTool(r, isError)
    PROVE  IInv'
  <1> DEFINE d == exec[r].delta
             x == ToolResult(Head(UnansweredToolCalls(d)), isError)
  <1>1. exec[r].phase = "running" /\ RecordOK(exec[r])
    BY RunIs DEF EndTool, MayStep, Running
  <1>2. Conversation(d)
    BY <1>1 DEF RecordOK
  <1>3. UnansweredToolCalls(d) # <<>>
    BY DEF EndTool, Settled
  <1>4. Conversation(Append(d, x))
    BY <1>2, <1>3, ConversationAnswers
  <1>5. Emit(r, x) /\ UNCHANGED storeVars
    BY DEF EndTool
  <1>6. x \in Item
    <2>1. UnansweredToolCalls(d) \in Seq(CallId)
      BY <1>2, OpenCalls DEF Conversation
    <2>2. Head(UnansweredToolCalls(d)) \in CallId
      BY <1>3, <2>1
    <2> QED
      BY <2>2, ItemsAre
  <1> HIDE DEF x
  <1> QED
    BY <1>1, <1>4, <1>5, <1>6, EmitPreserves

\* A follow-up is a user message like the prompt.
LEMMA FollowUpPreserves ==
    ASSUME IInv, NEW r \in Run, FollowUp(r)
    PROVE  IInv'
  <1> DEFINE d == exec[r].delta
             x == UserMessage
  <1>1. exec[r].phase = "running" /\ RecordOK(exec[r])
    BY RunIs DEF FollowUp, MayStep, Running
  <1>2. Conversation(d) /\ d \in Seq(Item)
    BY <1>1 DEF RecordOK, Conversation
  <1>3. UnansweredToolCalls(d) = <<>>
    BY DEF FollowUp, MayConclude, Settled
  <1>4. x \in Item /\ x.kind = "user" /\ CallsOf(x) = <<>>
    BY ItemsAre, ItemShape
  <1>5. UnansweredToolCalls(Append(d, x)) = CallsOf(x)
    BY <1>2, <1>3, <1>4, UserOpensNothing
  <1>6. Emit(r, x) /\ UNCHANGED storeVars
    BY DEF FollowUp
  <1> HIDE DEF d, x
  <1>7. Conversation(Append(d, x))
    BY <1>2, <1>3, <1>4, <1>5, ConversationContinues
  <1> QED
    BY <1>1, <1>4, <1>6, <1>7, EmitPreserves DEF d

\* The task ends, is being aborted, or its process dies.
LEMMA TaskDonePreserves ==
    ASSUME IInv, NEW r \in Run, NEW outcome \in Outcome, Running(r), TaskDone(r, outcome)
    PROVE  IInv'
  <1> DEFINE e == [exec[r] EXCEPT !.phase = "done", !.outcome = outcome]
  <1>1. RecordOK(exec[r]) /\ exec[r] \in ExecRecord /\ exec \in [Run -> ExecRecord]
    BY RunIs
  <1>2. RecordOK(e) /\ e.phase = "done"
    <2>1. e.phase = "done"
      BY <1>1 DEF ExecRecord
    <2> QED
      BY <1>1, <2>1, RecordMoves DEF Running
  <1>3. exec' = [exec EXCEPT ![r] = e] /\ UNCHANGED storeVars
    BY <1>1 DEF TaskDone
  <1> HIDE DEF e
  <1>4. Linked(r, e)
    BY <1>2, StaysLinked DEF Running
  <1> QED
    BY <1>2, <1>3, <1>4, ExecutionStep

\* A failed turn leaves the buffer alone.
LEMMA FailTurnPreserves ==
    ASSUME IInv, NEW r \in Run, FailTurn(r)
    PROVE  IInv'
  <1> DEFINE e == [exec[r] EXCEPT !.phase = "done", !.outcome = "failed",
                                  !.log = Append(@, FailedTurn)]
  <1>1. /\ RecordOK(exec[r]) /\ exec[r] \in ExecRecord /\ exec \in [Run -> ExecRecord]
        /\ exec[r].phase = "running"
    BY RunIs DEF FailTurn, MayStep, Running
  <1>2. RecordOK(e)
    BY <1>1, RecordFailTurn
  <1>3. e.phase = "done"
    BY <1>1 DEF ExecRecord
  <1>4. exec' = [exec EXCEPT ![r] = e] /\ UNCHANGED storeVars
    BY <1>1 DEF FailTurn
  <1> HIDE DEF e
  <1>5. Linked(r, e)
    BY <1>1, <1>3, StaysLinked
  <1> QED
    BY <1>2, <1>4, <1>5, ExecutionStep

\* abort() marks the execution.
LEMMA AbortPreserves ==
    ASSUME IInv, NEW r \in Run, Abort(r)
    PROVE  IInv'
  <1> DEFINE e == [exec[r] EXCEPT !.aborting = TRUE]
  <1>1. /\ RecordOK(exec[r]) /\ exec[r] \in ExecRecord /\ exec \in [Run -> ExecRecord]
        /\ exec[r].phase = "running"
    BY RunIs DEF Abort, Running
  <1>2. RecordOK(e)
    BY <1>1, RecordMoves
  <1>3. e.phase = "running"
    BY <1>1 DEF ExecRecord
  <1>4. exec' = [exec EXCEPT ![r] = e] /\ UNCHANGED storeVars
    BY <1>1 DEF Abort
  <1> HIDE DEF e
  <1>5. Linked(r, e)
    BY <1>1, <1>3, StaysLinked
  <1> QED
    BY <1>2, <1>4, <1>5, ExecutionStep

\* A run whose callback closes it without touching the record.
LEMMA ClosePreserves ==
    ASSUME IInv, NEW r \in Run, exec[r].phase = "done", UNCHANGED storeVars,
           NEW result \in Outcome \cup {"faulted"},
           Close(r, result, Heal(exec[r].delta),
                 IF result = "faulted" THEN RunFault ELSE RunEnd(result)),
           Store!IsActive(r) => result = "faulted"
    PROVE  IInv'
  <1> DEFINE x == IF result = "faulted" THEN RunFault ELSE RunEnd(result)
             e == [exec[r] EXCEPT !.phase = "finalized", !.result = result,
                                  !.delta = Heal(exec[r].delta), !.log = Append(@, x)]
  <1>1. RecordOK(exec[r]) /\ exec[r] \in ExecRecord /\ exec \in [Run -> ExecRecord]
    BY RunIs
  <1>2. RecordOK(e)
    BY <1>1, RecordClose
  <1>3. e.phase = "finalized" /\ e.result = result
    BY <1>1 DEF ExecRecord
  <1>4. exec' = [exec EXCEPT ![r] = e]
    BY <1>1 DEF Close
  <1> HIDE DEF e
  <1>5. Linked(r, e)
    BY <1>3, PendingKeepsNothing DEF Linked
  <1> QED
    BY <1>2, <1>4, <1>5, ExecutionStep

\* The outcomes of a task are the terminal statuses of a record.
LEMMA OutcomesAre == Outcome = Store!TerminalStatus /\ "active" \notin Outcome
                     /\ "absent" \notin Outcome /\ "faulted" \notin Outcome
  BY DEF Outcome, Store!TerminalStatus

\* _finish with the record ended by someone else.
LEMMA ConcedePreserves ==
    ASSUME IInv, NEW r \in Run, Concede(r)
    PROVE  IInv'
  <1>1. runs[r].status \in Outcome /\ ~Store!IsActive(r)
    BY OutcomesAre DEF Concede, Store!IsTerminal, Store!IsActive
  <1>2. runs[r].status # "faulted"
    BY <1>1, OutcomesAre
  <1> DEFINE result == runs[r].status
  <1>3. Close(r, result, Heal(exec[r].delta),
              IF result = "faulted" THEN RunFault ELSE RunEnd(result))
    BY <1>2 DEF Concede
  <1>4. exec[r].phase = "done" /\ UNCHANGED storeVars
    BY DEF Concede
  <1> HIDE DEF result
  <1> QED
    BY <1>1, <1>3, <1>4, ClosePreserves DEF result

\* _finish with the database out of reach.
LEMMA FaultPreserves ==
    ASSUME IInv, NEW r \in Run, Fault(r)
    PROVE  IInv'
  <1> DEFINE result == "faulted"
  <1>1. Close(r, result, Heal(exec[r].delta),
              IF result = "faulted" THEN RunFault ELSE RunEnd(result))
    BY DEF Fault
  <1>2. exec[r].phase = "done" /\ UNCHANGED storeVars /\ result \in Outcome \cup {"faulted"}
    BY DEF Fault
  <1>3. Store!IsActive(r) => result = "faulted"
    OBVIOUS
  <1> HIDE DEF result
  <1> QED
    BY <1>1, <1>2, <1>3, ClosePreserves

\* The executions of a process that dies are lost.
LEMMA CrashPreserves ==
    ASSUME IInv, NEW p \in Process, Crash(p)
    PROVE  IInv'
  <1>1. SP!IInv'
    BY StoreStep DEF IInv, Crash
  <1>2. UNCHANGED <<runs, history>>
    BY DEF Crash, storeVars
  <1>3. ASSUME NEW r \in Run
        PROVE  RecordOK(exec'[r]) /\ Linked(r, exec'[r]) /\ exec'[r] \in ExecRecord
    <2>1. RecordOK(exec[r]) /\ exec[r] \in ExecRecord /\ Linked(r, exec[r])
      BY RunIs
    <2>2. CASE exec[r].process = p /\ exec[r].phase \in {"running", "done"}
      <3> DEFINE e == [exec[r] EXCEPT !.phase = "lost"]
      <3>1. exec'[r] = e
        BY <2>2 DEF Crash
      <3>2. RecordOK(e)
        BY <2>1, <2>2, RecordMoves
      <3>3. e.phase = "lost"
        BY <2>1 DEF ExecRecord
      <3> HIDE DEF e
      <3>4. Linked(r, e)
        BY <2>2, <3>3, StaysLinked
      <3> QED
        BY <3>1, <3>2, <3>4 DEF RecordOK
    <2>3. CASE ~(exec[r].process = p /\ exec[r].phase \in {"running", "done"})
      <3>1. exec'[r] = exec[r]
        BY <2>3 DEF Crash
      <3> QED
        BY <2>1, <3>1
    <2> QED
      BY <2>2, <2>3
  <1>4. exec' \in [Run -> ExecRecord]
    <2>1. exec' = [r \in Run |-> exec'[r]]
      BY DEF Crash
    <2> QED
      BY <1>3, <2>1
  <1>5. ASSUME NEW q \in Run PROVE Linked(q, exec[q])'
    <2>1. Turn(q)' = Turn(q)
      BY <1>2 DEF Turn
    <2>2. Kept(q)' <=> Kept(q)
      BY <1>2, <2>1 DEF Kept
    <2>3. Store!IsActive(q)' <=> Store!IsActive(q)
      BY <1>2 DEF Store!IsActive
    <2> QED
      BY <1>2, <1>3, <2>1, <2>2, <2>3 DEF Linked
  <1>6. ASSUME NEW s \in Session PROVE Replayable(ItemsAt(history[s]))'
    BY <1>2 DEF IInv
  <1> QED
    BY <1>1, <1>3, <1>4, <1>5, <1>6 DEF IInv

-----------------------------------------------------------------------------
(* The steps that change the database.                                     *)

\* A run that has not ended has no row anywhere.
LEMMA NoRowsYet ==
    ASSUME StoreShape, NEW r \in Run, runs[r].status \in {"absent", "active"},
           NEW s \in Session
    PROVE  \A i \in DOMAIN history[s] : history[s][i].run # r
  <1>1. ~Store!IsTerminal(r)
    BY DEF Store!IsTerminal, Store!TerminalStatus
  <1> QED
    BY <1>1 DEF StoreShape

\* The turn of every run whose record or whose session's history a step leaves
\* alone is what it was.
LEMMA TurnStays ==
    ASSUME NEW r \in Run, runs'[r] = runs[r],
           runs[r].status # "absent" => history'[runs[r].session] = history[runs[r].session]
    PROVE  /\ Kept(r)' <=> Kept(r)
           /\ runs[r].status # "absent" => Turn(r)' = Turn(r)
           /\ Store!IsActive(r)' <=> Store!IsActive(r)
  <1>1. Turn(r)' = TurnIn(r, history'[runs'[r].session])
    BY DEF Turn, TurnIn, ItemsAt, RowsOf
  <1>2. Turn(r) = TurnIn(r, history[runs[r].session])
    BY TurnIs
  <1>3. runs[r].status # "absent" => Turn(r)' = Turn(r)
    BY <1>1, <1>2
  <1> QED
    BY <1>3 DEF Kept, Store!IsActive

\* A new session is empty.
LEMMA CreateSessionPreserves ==
    ASSUME IInv, NEW s \in Session, CreateSession(s)
    PROVE  IInv'
  <1>1. SP!IInv'
    <2>1. Store!Next
      BY DEF CreateSession, Store!Next
    <2> QED
      BY <2>1, StoreStep DEF IInv
  <1>2. UNCHANGED <<runs, history, exec>>
    BY DEF CreateSession, Store!CreateSession
  <1>3. ASSUME NEW q \in Run PROVE Linked(q, exec[q])'
    <2>1. Linked(q, exec[q])
      BY RunIs
    <2>2. Turn(q)' = Turn(q)
      BY <1>2 DEF Turn
    <2>3. (Kept(q)' <=> Kept(q)) /\ (Store!IsActive(q)' <=> Store!IsActive(q))
      BY <1>2, <2>2 DEF Kept, Store!IsActive
    <2> QED
      BY <1>2, <2>1, <2>2, <2>3 DEF Linked
  <1> QED
    BY <1>1, <1>2, <1>3 DEF IInv

\* The target of a fork is new, so that no run's turn is in it.
LEMMA ForkPreserves ==
    ASSUME IInv, NEW source \in Session, NEW target \in Session, Fork(source, target)
    PROVE  IInv'
  <1>1. SP!IInv'
    <2>1. Store!Next
      BY DEF Fork, Store!Next
    <2> QED
      BY <2>1, StoreStep DEF IInv
  <1>2. /\ UNCHANGED <<runs, exec>> /\ target \notin sessions
        /\ history' = [history EXCEPT ![target] = history[source]]
    BY DEF Fork, Store!ForkSession
  <1>3. StoreShape
    BY StoreIs DEF IInv
  <1>4. ASSUME NEW q \in Run PROVE Linked(q, exec[q])'
    <2>1. Linked(q, exec[q])
      BY RunIs
    <2>2. runs[q].status # "absent" =>
              history'[runs[q].session] = history[runs[q].session]
      BY <1>2, <1>3 DEF StoreShape
    <2>3. /\ Kept(q)' <=> Kept(q)
          /\ runs[q].status # "absent" => Turn(q)' = Turn(q)
          /\ Store!IsActive(q)' <=> Store!IsActive(q)
      BY <1>2, <2>2, TurnStays
    <2> QED
      BY <1>2, <2>1, <2>3 DEF Linked, Kept
  <1>5. ASSUME NEW s \in Session PROVE Replayable(ItemsAt(history'[s]))
    <2>1. history'[s] = history[s] \/ history'[s] = history[source]
      BY <1>2, <1>3 DEF StoreShape
    <2> QED
      BY <2>1 DEF IInv
  <1> QED
    BY <1>1, <1>2, <1>4, <1>5 DEF IInv

\* abort_active_run, from any process: the record ends without a turn.
LEMMA DurableAbortPreserves ==
    ASSUME IInv, NEW s \in Session, DurableAbort(s)
    PROVE  IInv'
  <1>1. SP!IInv'
    <2>1. Store!Next
      BY DEF DurableAbort, Store!Next
    <2> QED
      BY <2>1, StoreStep DEF IInv
  <1>2. PICK r \in Run : /\ Store!IsActive(r)
                         /\ runs' = [runs EXCEPT ![r].status = "aborted"]
    BY DEF DurableAbort, Store!AbortActiveRun
  <1>3. UNCHANGED <<history, exec>>
    BY DEF DurableAbort, Store!AbortActiveRun
  <1>4. StoreShape
    BY StoreIs DEF IInv
  <1>5. /\ \A q \in Run \ {r} : runs'[q] = runs[q]
        /\ runs'[r] = [runs[r] EXCEPT !.status = "aborted"]
        /\ runs'[r].status = "aborted" /\ runs'[r].session = runs[r].session
    BY <1>2, <1>4 DEF StoreShape, Store!RunRecord
  <1>6. ASSUME NEW q \in Run PROVE Linked(q, exec[q])'
    <2>1. Linked(q, exec[q])
      BY RunIs
    <2>2. CASE q # r
      <3>1. /\ Kept(q)' <=> Kept(q)
            /\ runs[q].status # "absent" => Turn(q)' = Turn(q)
            /\ Store!IsActive(q)' <=> Store!IsActive(q)
        BY <1>3, <1>5, <2>2, TurnStays
      <3> QED
        BY <1>3, <1>5, <2>1, <2>2, <3>1 DEF Linked, Kept
    <2>3. CASE q = r
      <3>1. runs[r].session \in Session /\ runs[r].status = "active"
        BY <1>2, <1>4 DEF StoreShape, Store!IsActive
      <3>2. TurnIn(r, history[runs[r].session]) = <<>>
        <4>1. history[runs[r].session] \in Seq(Store!Entry)
          BY <1>4, <3>1 DEF StoreShape
        <4>2. \A i \in DOMAIN history[runs[r].session] :
                  history[runs[r].session][i].run # r
          BY <1>4, <3>1, NoRowsYet
        <4> QED
          BY <4>1, <4>2, NoTurn
      <3>3. Turn(r)' = <<>>
        <4>1. Turn(r)' = TurnIn(r, history'[runs'[r].session])
          BY DEF Turn, TurnIn, ItemsAt, RowsOf
        <4> QED
          BY <1>3, <1>5, <3>2, <4>1
      <3>4. ~Kept(r)' /\ ~Store!IsActive(r)' /\ exec[r].phase # "none"
        BY <1>5, <2>1, <2>3, <3>1, <3>3 DEF Kept, Store!IsActive, Linked
      <3> QED
        BY <1>3, <1>5, <2>3, <3>4 DEF Linked
    <2> QED
      BY <2>2, <2>3
  <1>7. ASSUME NEW t \in Session PROVE Replayable(ItemsAt(history[t]))'
    BY <1>3 DEF IInv
  <1> QED
    BY <1>1, <1>3, <1>6, <1>7 DEF IInv

\* A prompt that is admitted starts its run's execution.
LEMMA PromptPreserves ==
    ASSUME IInv, NEW p \in Process, NEW s \in Session, NEW r \in Run, Prompt(p, s, r)
    PROVE  IInv'
  <1> DEFINE e == [NoExecution EXCEPT !.phase = "running", !.process = p,
                                      !.delta = <<UserMessage>>, !.log = <<RunStart>>]
  <1>1. SP!IInv'
    <2>1. Store!Next
      BY DEF Prompt, Store!Next
    <2> QED
      BY <2>1, StoreStep DEF IInv
  <1>2. /\ runs[r].status = "absent" /\ UNCHANGED history
        /\ runs' = [runs EXCEPT ![r] = [session |-> s, status |-> "active"]]
        /\ exec' = [exec EXCEPT ![r] = e]
    BY DEF Prompt, Store!StartRun
  <1>3. RecordOK(e)
    BY RecordNew
  <1>4. e.phase = "running"
    <2>1. NoExecution \in ExecRecord
      BY RecordNone DEF RecordOK
    <2> QED
      BY <2>1 DEF ExecRecord
  <1> HIDE DEF e
  <1>5. StoreShape /\ exec \in [Run -> ExecRecord]
    BY StoreIs DEF IInv
  <1>6. exec' \in [Run -> ExecRecord] /\ \A q \in Run : exec'[q] = IF q = r THEN e ELSE exec[q]
    BY <1>2, <1>3, <1>5 DEF RecordOK
  <1>7. /\ \A q \in Run \ {r} : runs'[q] = runs[q]
        /\ runs'[r].status = "active" /\ runs'[r].session = s
    BY <1>2, <1>5 DEF StoreShape
  <1>8. ASSUME NEW q \in Run PROVE Linked(q, exec[q])'
    <2>1. Linked(q, exec[q])
      BY RunIs
    <2>2. CASE q # r
      <3>1. /\ Kept(q)' <=> Kept(q)
            /\ runs[q].status # "absent" => Turn(q)' = Turn(q)
            /\ Store!IsActive(q)' <=> Store!IsActive(q)
        BY <1>2, <1>7, <2>2, TurnStays
      <3> QED
        BY <1>6, <1>7, <2>1, <2>2, <3>1 DEF Linked, Kept
    <2>3. CASE q = r
      <3>1. TurnIn(r, history[s]) = <<>>
        <4>1. history[s] \in Seq(Store!Entry)
          BY <1>5 DEF StoreShape
        <4>2. \A i \in DOMAIN history[s] : history[s][i].run # r
          BY <1>2, <1>5, NoRowsYet
        <4> QED
          BY <4>1, <4>2, NoTurn
      <3>2. Turn(r)' = <<>>
        <4>1. Turn(r)' = TurnIn(r, history'[runs'[r].session])
          BY DEF Turn, TurnIn, ItemsAt, RowsOf
        <4> QED
          BY <1>2, <1>7, <3>1, <4>1
      <3>3. ~Kept(r)' /\ exec'[r].phase = "running"
        BY <1>4, <1>6, <3>2 DEF Kept
      <3> QED
        BY <1>7, <2>3, <3>3 DEF Linked
    <2> QED
      BY <2>2, <2>3
  <1>9. ASSUME NEW q \in Run PROVE RecordOK(exec'[q])
    BY <1>3, <1>6 DEF IInv
  <1>10. ASSUME NEW t \in Session PROVE Replayable(ItemsAt(history[t]))'
    BY <1>2 DEF IInv
  <1> QED
    BY <1>1, <1>6, <1>8, <1>9, <1>10 DEF IInv

\* _finish with the record still active.
LEMMA CommitPreserves ==
    ASSUME IInv, NEW r \in Run, Commit(r)
    PROVE  /\ IInv'
           /\ Turn(r)' = Heal(exec[r].delta) /\ Kept(r)'
           /\ \A q \in Run \ {r} : Kept(q)' <=> Kept(q)
  <1> DEFINE s == runs[r].session
             outcome == exec[r].outcome
             delta == Heal(exec[r].delta)
             E == Store!Entries(r, delta)
             e == [exec[r] EXCEPT !.phase = "finalized", !.result = outcome,
                                  !.delta = delta, !.log = Append(@, RunEnd(outcome))]
  <1>1. /\ RecordOK(exec[r]) /\ exec[r] \in ExecRecord /\ exec \in [Run -> ExecRecord]
        /\ StoreShape /\ exec[r].phase = "done"
    BY RunIs DEF Commit
  <1>2. /\ Store!IsActive(r) /\ UNCHANGED sessions
        /\ runs' = [runs EXCEPT ![r].status = outcome]
        /\ history' = [history EXCEPT ![s] = @ \o E]
    BY DEF Commit, Store!FinishRun
  <1>3. outcome \in Outcome /\ outcome # "faulted" /\ outcome # "active" /\ outcome # "absent"
    BY <1>1, OutcomesAre DEF RecordOK
  <1>4. Conversation(delta) /\ UnansweredToolCalls(delta) = <<>> /\ delta \in Seq(Item)
    <2>1. Conversation(exec[r].delta)
      BY <1>1 DEF RecordOK
    <2>2. Conversation(delta) /\ UnansweredToolCalls(delta) = <<>>
      BY <2>1, HealCloses
    <2> QED
      BY <2>2 DEF Conversation
  <1>5. s \in Session /\ runs[r].status = "active" /\ history[s] \in Seq(Store!Entry)
    BY <1>1, <1>2 DEF StoreShape, Store!IsActive
  <1>6. SP!IInv'
    <2>1. Store!FinishRun(s, r, outcome, delta)
      BY DEF Commit
    <2>2. outcome \in Store!TerminalStatus
      BY <1>3, OutcomesAre
    <2> HIDE DEF s, outcome, delta
    <2>3. Store!Next
      BY <1>4, <1>5, <2>1, <2>2 DEF Store!Next, Store!FinishSomeRun
    <2> QED
      BY <2>3, StoreStep DEF IInv
  <1>7. exec' = [exec EXCEPT ![r] = e]
    BY <1>1 DEF Commit, Close
  <1>8. e.phase = "finalized" /\ e.result = outcome /\ e.delta = delta
    BY <1>1 DEF ExecRecord
  <1>9. RecordOK(e)
    <2> DEFINE result == outcome
    <2>1. result \in Outcome \cup {"faulted"} /\ result # "faulted"
      BY <1>3
    <2>2. RunEnd(outcome) = IF result = "faulted" THEN RunFault ELSE RunEnd(result)
      BY <2>1
    <2> HIDE DEF result
    <2>3. RecordOK([exec[r] EXCEPT !.phase = "finalized", !.result = result,
                              !.delta = Heal(exec[r].delta),
                              !.log = Append(@, IF result = "faulted" THEN RunFault
                                                ELSE RunEnd(result))])
      BY <1>1, <2>1, RecordClose
    <2> QED
      BY <2>2, <2>3 DEF result
  <1> HIDE DEF e, E, delta, outcome
  <1>10. exec' \in [Run -> ExecRecord] /\ \A q \in Run : exec'[q] = IF q = r THEN e ELSE exec[q]
    BY <1>1, <1>7, <1>9 DEF RecordOK
  <1>11. /\ \A q \in Run \ {r} : runs'[q] = runs[q]
         /\ runs'[r].status = outcome /\ runs'[r].session = s
    BY <1>1, <1>2 DEF StoreShape, Store!RunRecord
  <1> HIDE DEF s
  <1>12. /\ \A t \in Session \ {s} : history'[t] = history[t]
         /\ history'[s] = history[s] \o E
    BY <1>1, <1>2, <1>5 DEF StoreShape
  <1>13. \A i \in DOMAIN history[s] : history[s][i].run # r
    BY <1>1, <1>5, NoRowsYet
  <1>14. Turn(r)' = delta /\ Kept(r)'
    <2>1. Turn(r)' = TurnIn(r, history'[runs'[r].session])
      BY DEF Turn, TurnIn, ItemsAt, RowsOf
    <2>2. TurnIn(r, history[s] \o E) = delta
      BY <1>4, <1>5, <1>13, TurnAfterFinish DEF E
    <2>3. Turn(r)' = delta
      BY <1>11, <1>12, <2>1, <2>2
    <2>4. delta # <<>>
      BY <1>4 DEF Conversation
    <2> QED
      BY <1>3, <1>11, <2>3, <2>4 DEF Kept
  <1>15. ASSUME NEW q \in Run \ {r}
         PROVE  /\ Kept(q)' <=> Kept(q)
                /\ runs[q].status # "absent" => Turn(q)' = Turn(q)
    <2>1. Turn(q)' = TurnIn(q, history'[runs'[q].session])
      BY DEF Turn, TurnIn, ItemsAt, RowsOf
    <2>2. Turn(q) = TurnIn(q, history[runs[q].session])
      BY TurnIs
    <2>3. CASE runs[q].status # "absent"
      <3>1. runs[q].session \in Session
        BY <1>1, <2>3 DEF StoreShape
      <3>2. CASE runs[q].session = s
        <4>1. TurnIn(q, history[s] \o E) = TurnIn(q, history[s])
          BY <1>4, <1>5, TurnAfterFinish DEF E
        <4> QED
          BY <1>11, <1>12, <2>1, <2>2, <3>2, <4>1 DEF Kept
      <3>3. CASE runs[q].session # s
        BY <1>11, <1>12, <2>1, <2>2, <3>1, <3>3 DEF Kept
      <3> QED
        BY <3>2, <3>3
    <2>4. CASE runs[q].status = "absent"
      BY <1>11, <2>4 DEF Kept
    <2> QED
      BY <2>3, <2>4
  <1>16. ASSUME NEW q \in Run PROVE Linked(q, exec[q])'
    <2>1. CASE q # r
      <3>1. Linked(q, exec[q])
        BY RunIs
      <3>2. /\ Kept(q)' <=> Kept(q)
            /\ runs[q].status # "absent" => Turn(q)' = Turn(q)
        BY <1>15, <2>1
      <3>3. Store!IsActive(q)' <=> Store!IsActive(q)
        BY <1>11, <2>1 DEF Store!IsActive
      <3> QED
        BY <1>10, <1>11, <2>1, <3>1, <3>2, <3>3 DEF Linked, Kept
    <2>2. CASE q = r
      <3>1. ~Store!IsActive(r)' /\ exec'[r] = e
        BY <1>3, <1>10, <1>11 DEF Store!IsActive
      <3> QED
        BY <1>3, <1>8, <1>11, <1>14, <2>2, <3>1 DEF Linked
    <2> QED
      BY <2>1, <2>2
  <1>17. ASSUME NEW q \in Run PROVE RecordOK(exec'[q])
    BY <1>9, <1>10 DEF IInv
  <1>18. ASSUME NEW t \in Session PROVE Replayable(ItemsAt(history'[t]))
    <2>1. CASE t # s
      BY <1>12, <2>1 DEF IInv
    <2>2. CASE t = s
      <3>1. ItemsAt(history[s] \o E) = ItemsAt(history[s]) \o delta
        BY <1>4, <1>5, ItemsAfterFinish DEF E
      <3>2. Replayable(delta) /\ delta # <<>> /\ delta[1] = UserMessage
        BY <1>4, ClosedIsReplayable DEF Conversation
      <3>3. Replayable(ItemsAt(history[s]))
        BY <1>5 DEF IInv
      <3>4. Replayable(ItemsAt(history[s]) \o delta)
        BY <3>2, <3>3, ReplayableConcat
      <3> QED
        BY <1>12, <2>2, <3>1, <3>4
    <2> QED
      BY <2>1, <2>2
  <1> QED
    BY <1>6, <1>10, <1>14, <1>15, <1>16, <1>17, <1>18 DEF IInv, delta

-----------------------------------------------------------------------------
(* The theorems.                                                           *)

\* The steps of the task.
LEMMA TaskStepPreserves ==
    ASSUME IInv, NEW r \in Run, TaskStep(r)
    PROVE  IInv'
  <1>1. \A outcome \in {"completed", "failed", "aborted"} : outcome \in Outcome
    BY DEF Outcome
  <1>2. ASSUME NEW outcome \in {"completed", "failed"}, Return(r, outcome) PROVE IInv'
    BY <1>1, <1>2, TaskDonePreserves DEF Return, MayStep
  <1>3. ASSUME Raise(r) PROVE IInv'
    BY <1>1, <1>3, TaskDonePreserves DEF Raise, MayStep
  <1> QED
    BY <1>2, <1>3, CompleteTurnPreserves, EndToolPreserves, FollowUpPreserves,
       FailTurnPreserves DEF TaskStep

\* Every step keeps the invariant.
LEMMA StepPreserves == IInv /\ [Next]_vars => IInv'
  <1> SUFFICES ASSUME IInv, [Next]_vars PROVE IInv'
    OBVIOUS
  <1>1. ASSUME NEW r \in Run, Unwind(r) PROVE IInv'
    <2>1. \A outcome \in {"aborted", "failed"} : outcome \in Outcome
      BY DEF Outcome
    <2> QED
      BY <1>1, <2>1, TaskDonePreserves DEF Unwind
  <1>2. ASSUME NEW r \in Run, Finalize(r) PROVE IInv'
    BY <1>2, CommitPreserves, ConcedePreserves, FaultPreserves DEF Finalize
  <1>3. ASSUME UNCHANGED vars PROVE IInv'
    <2>1. SP!IInv'
      BY <1>3, StoreStep DEF IInv, vars
    <2>2. UNCHANGED <<runs, history, exec>>
      BY <1>3 DEF vars, storeVars
    <2>3. ASSUME NEW q \in Run PROVE Linked(q, exec[q])'
      <3>1. Linked(q, exec[q])
        BY RunIs
      <3>2. Turn(q)' = Turn(q)
        BY <2>2 DEF Turn
      <3>3. (Kept(q)' <=> Kept(q)) /\ (Store!IsActive(q)' <=> Store!IsActive(q))
        BY <2>2, <3>2 DEF Kept, Store!IsActive
      <3> QED
        BY <2>2, <3>1, <3>2, <3>3 DEF Linked
    <2> QED
      BY <2>1, <2>2, <2>3 DEF IInv
  <1>4. CASE \E s \in Session : CreateSession(s) \/ DurableAbort(s)
    BY <1>4, CreateSessionPreserves, DurableAbortPreserves
  <1>5. CASE \E p \in Process, s \in Session, r \in Run : Prompt(p, s, r)
    BY <1>5, PromptPreserves
  <1>6. CASE \E r \in Run : TaskStep(r) \/ Abort(r) \/ Unwind(r) \/ Finalize(r)
    BY <1>1, <1>2, <1>6, TaskStepPreserves, AbortPreserves
  <1>7. CASE \E source, target \in Session : Fork(source, target)
    BY <1>7, ForkPreserves
  <1>8. CASE \E p \in Process : Crash(p)
    BY <1>8, CrashPreserves
  <1> QED
    BY <1>3, <1>4, <1>5, <1>6, <1>7, <1>8 DEF Next

\* Every reachable state satisfies the inductive invariant.
THEOREM Inductive == Spec => []IInv
  <1>1. Init => IInv
    BY InitEstablishes
  <1>2. IInv /\ [Next]_vars => IInv'
    BY StepPreserves
  <1> QED
    BY <1>1, <1>2, PTL DEF Spec

\* Store, buffers and logs hold what they are declared to hold.
THEOREM TypeCorrect == Spec => []TypeOK
  <1>1. IInv => TypeOK
    <2> SUFFICES ASSUME IInv PROVE TypeOK
      OBVIOUS
    <2>1. Store!TypeOK /\ exec \in [Run -> ExecRecord]
      BY StoreIs DEF IInv
    <2> QED
      BY <2>1 DEF TypeOK, ExecRecord, LogEvent
  <1> QED
    BY <1>1, Inductive, PTL

\* Waiters and subscribers learn the same thing at the same time: the log of a
\* run is closed exactly when its wait() has an answer, with that answer.
THEOREM LogsClose == Spec => []LogClosesWithTheAnswer
  <1>1. IInv => LogClosesWithTheAnswer
    <2> SUFFICES ASSUME IInv, NEW r \in Run
                 PROVE  LET log == exec[r].log
                            Term(i) == log[i].event \in {"run_end", "run_fault"}
                        IN  /\ exec[r].result = "none" => ~\E i \in DOMAIN log : Term(i)
                            /\ exec[r].result # "none" =>
                                  /\ \A i \in DOMAIN log : Term(i) <=> i = Len(log)
                                  /\ Last(log) = IF exec[r].result = "faulted" THEN RunFault
                                                 ELSE RunEnd(exec[r].result)
      BY DEF LogClosesWithTheAnswer
    <2>1. LogCloses(exec[r])
      BY RunIs DEF RecordOK
    <2>2. Last(exec[r].log) = exec[r].log[Len(exec[r].log)]
      BY DEF Last
    <2> QED
      BY <2>1, <2>2 DEF LogCloses, Terminal
  <1> QED
    BY <1>1, Inductive, PTL

\* A session is left blocked only by a process that died or a fault that was
\* reported.
THEOREM OrphansExplained == Spec => []OrphansAreFaultsOrCrashes
  <1>1. IInv => OrphansAreFaultsOrCrashes
    BY DEF IInv, Linked, OrphansAreFaultsOrCrashes
  <1> QED
    BY <1>1, Inductive, PTL

\* What a run commits is what its events() stream showed, healed.
THEOREM TurnsAreStreamed == Spec => []TurnIsWhatWasStreamed
  <1>1. IInv => TurnIsWhatWasStreamed
    <2> SUFFICES ASSUME IInv, NEW r \in Run, Kept(r)
                 PROVE  LET seen == <<UserMessage>> \o Streamed(r)
                        IN  /\ IsPrefix(seen, Turn(r))
                            /\ \A i \in DOMAIN Turn(r) \ DOMAIN seen :
                                  /\ Turn(r)[i].kind = "tool_result" /\ Turn(r)[i].isError
                                  /\ Turn(r)[i].call \notin Answered(seen)
      BY DEF TurnIsWhatWasStreamed
    <2> DEFINE seen == <<UserMessage>> \o Streamed(r)
               U == UnansweredToolCalls(seen)
               R == Results(U, Len(U))
               t == Turn(r)
    <2>1. seen = SeenIn(exec[r].log)
      BY DEF SeenIn, ItemsIn, Streamed
    <2>2. seen \in Seq(Item)
      BY <2>1, RunIs, ExecShape, SeenInAppend
    <2>3. t = Heal(seen)
      BY <2>1, RunIs DEF Linked, RecordOK
    <2> HIDE DEF seen, t
    <2>4. U \in Seq(CallId) /\ ToSet(U) \cap Answered(seen) = {} /\ t = seen \o R
      BY <2>2, <2>3, OpenCalls, HealIs
    <2> HIDE DEF U
    <2>5. /\ R \in Seq(Item) /\ Len(R) = Len(U) /\ Len(U) \in Nat
          /\ \A k \in 1 .. Len(U) : R[k] = ToolResult(U[k], TRUE)
      <3>1. U \in Seq(CallId)
        BY <2>4
      <3>2. Len(U) \in Nat
        BY <3>1
      <3>3. Len(U) \in 0 .. Len(U)
        BY <3>2
      <3>4. /\ Results(U, Len(U)) \in Seq(Item) /\ Len(Results(U, Len(U))) = Len(U)
            /\ \A k \in 1 .. Len(U) : Results(U, Len(U))[k] = ToolResult(U[k], TRUE)
        BY <3>1, <3>3, ResultsShape
      <3> QED
        BY <3>2, <3>4
    <2> HIDE DEF R
    <2>6. /\ t \in Seq(Item) /\ Len(t) = Len(seen) + Len(U) /\ Len(seen) \in Nat
          /\ \A i \in 1 .. Len(seen) : t[i] = seen[i]
          /\ \A i \in 1 .. Len(t) : i > Len(seen) => t[i] = R[i - Len(seen)]
      <3>1. R \in Seq(Item)
        BY <2>5
      <3>2. t = seen \o R
        BY <2>4
      <3>3. Len(R) = Len(U)
        BY <2>5
      <3>4. /\ seen \o R \in Seq(Item) /\ Len(seen \o R) = Len(seen) + Len(R) /\ Len(seen) \in Nat
            /\ \A i \in 1 .. Len(seen \o R) :
                  (seen \o R)[i] = IF i <= Len(seen) THEN seen[i] ELSE R[i - Len(seen)]
        BY <2>2, <3>1
      <3> QED
        BY <2>5, <3>2, <3>3, <3>4
    <2>7. IsPrefix(seen, t)
      <3> DEFINE p == SubSeq(seen, 1, Len(seen))
                 q == SubSeq(t, 1, Len(seen))
      <3>1. p \in Seq(Item) /\ Len(p) = Len(seen) /\ \A i \in 1 .. Len(seen) : p[i] = seen[i]
        BY <2>2, <2>6
      <3>2. q \in Seq(Item) /\ Len(q) = Len(seen) /\ \A i \in 1 .. Len(seen) : q[i] = t[i]
        <4>1. \A i \in 1 .. Len(seen) : i \in 1 .. Len(t) /\ t[i] \in Item
          BY <2>5, <2>6
        <4> QED
          BY <2>6, <4>1
      <3> HIDE DEF p, q
      <3>3. p = q
        BY <2>6, <3>1, <3>2, SeqEqual
      <3>4. Len(seen) <= Len(t)
        BY <2>5, <2>6
      <3> QED
        BY <3>3, <3>4 DEF IsPrefix, p, q
    <2>8. ASSUME NEW i \in DOMAIN t \ DOMAIN seen
          PROVE  t[i].kind = "tool_result" /\ t[i].isError /\ t[i].call \notin Answered(seen)
      <3> DEFINE k == i - Len(seen)
      <3>1. k \in 1 .. Len(U) /\ t[i] = R[k]
        BY <2>2, <2>5, <2>6
      <3> HIDE DEF k
      <3>2. t[i] = ToolResult(U[k], TRUE) /\ U[k] \in CallId /\ U[k] \in ToSet(U)
        <4>1. U \in Seq(CallId) /\ k \in 1 .. Len(U)
          BY <2>4, <3>1
        <4>2. k \in DOMAIN U /\ U[k] \in CallId
          BY <4>1
        <4>3. U[k] \in ToSet(U)
          BY <4>2 DEF ToSet
        <4>4. R[k] = ToolResult(U[k], TRUE)
          BY <2>5, <3>1
        <4> QED
          BY <3>1, <4>2, <4>3, <4>4
      <3>3. t[i].kind = "tool_result" /\ t[i].call = U[k] /\ t[i].isError = TRUE
        <4> DEFINE c == U[k]
        <4>1. c \in CallId /\ t[i] = ToolResult(c, TRUE) /\ TRUE \in BOOLEAN
          BY <3>2
        <4> HIDE DEF c
        <4>2. /\ ToolResult(c, TRUE).kind = "tool_result"
              /\ ToolResult(c, TRUE).call = c
              /\ ToolResult(c, TRUE).isError = TRUE
          BY <4>1, ItemsAre
        <4> QED
          BY <4>1, <4>2 DEF c
      <3> QED
        BY <2>4, <3>2, <3>3
    <2> QED
      BY <2>7, <2>8 DEF seen, t
  <1> QED
    BY <1>1, Inductive, PTL

\* Committed history can be sent to the provider as it stands: every call is
\* answered once, right after its turn, and no result answers nothing.
THEOREM HistoriesAreReplayable == Spec => []HistoryIsReplayable
  <1>1. IInv => HistoryIsReplayable
    <2> SUFFICES ASSUME IInv, NEW s \in Session
                 PROVE  LET items == Committed(s)
                        IN  /\ \A i \in DOMAIN items : \A call \in ToSet(CallsOf(items[i])) :
                                  Cardinality({j \in i + 1 .. Len(items) :
                                      Answers(items, i, j) /\ items[j].call = call}) = 1
                            /\ \A j \in DOMAIN items :
                                  items[j].kind = "tool_result" =>
                                      \E i \in 1 .. j - 1 : Answers(items, i, j)
      BY DEF HistoryIsReplayable
    <2> DEFINE items == Committed(s)
    <2>1. Replayable(items)
      BY DEF IInv, Committed, ItemsAt
    <2> HIDE DEF items
    <2>2. ASSUME NEW i \in DOMAIN items, NEW call \in ToSet(CallsOf(items[i]))
          PROVE  Cardinality({j \in i + 1 .. Len(items) :
                                  Answers(items, i, j) /\ items[j].call = call}) = 1
      <3> DEFINE J == {j \in i + 1 .. Len(items) : Answers(items, i, j) /\ items[j].call = call}
      <3>1. PICK j \in i + 1 .. Len(items) : Answers(items, i, j) /\ items[j].call = call
        BY <2>1 DEF Replayable, Replied
      <3>2. \A k \in J : k = j
        BY <2>1, <3>1 DEF Replayable, RepliedOnce
      <3>3. J = {j}
        BY <3>1, <3>2
      <3> HIDE DEF J
      <3>4. Cardinality(J) = 1
        BY <3>3, FS_Singleton
      <3> QED
        BY <3>4 DEF J
    <2>3. \A j \in DOMAIN items :
              items[j].kind = "tool_result" => \E i \in 1 .. j - 1 : Answers(items, i, j)
      BY <2>1 DEF Replayable, Justified
    <2> QED
      BY <2>2, <2>3 DEF items
  <1> QED
    BY <1>1, Inductive, PTL

-----------------------------------------------------------------------------
(* The contract: every step is one action of RunContract, or none.         *)

\* Kept is a condition, before a step and after it.
LEMMA KeptIsACondition == \A q \in Run : Kept(q) \in BOOLEAN /\ Kept(q)' \in BOOLEAN
  BY DEF Kept

\* Runs whose record and whose session's history stay keep what they kept.
LEMMA KeptStays ==
    ASSUME UNCHANGED <<runs, history>>
    PROVE  \A q \in Run : runs'[q].status = runs[q].status /\ (Kept(q)' <=> Kept(q))
  <1>1. ASSUME NEW q \in Run PROVE Kept(q)' <=> Kept(q)
    <2>1. Turn(q)' = Turn(q)
      BY DEF Turn
    <2> QED
      BY <2>1 DEF Kept
  <1> QED
    BY <1>1

\* A step that changes no record, no answer and no kept turn stutters.
LEMMA ContractStutters ==
    ASSUME \A q \in Run : runs'[q].status = runs[q].status /\ (Kept(q)' <=> Kept(q)),
           \A q \in Run : exec'[q].result = exec[q].result
    PROVE  UNCHANGED Contract!contractVars
  <1>1. \A q \in Run : Kept(q)' = Kept(q)
    BY KeptIsACondition
  <1>2. [q \in Run |-> Kept(q)]' = [q \in Run |-> Kept(q)]
    BY <1>1
  <1>3. [q \in Run |-> runs[q].status]' = [q \in Run |-> runs[q].status]
    OBVIOUS
  <1>4. [q \in Run |-> exec[q].result]' = [q \in Run |-> exec[q].result]
    OBVIOUS
  <1> QED
    BY <1>2, <1>3, <1>4 DEF Contract!contractVars

\* A step of one execution that neither answers nor touches the database.
LEMMA SilentStep ==
    ASSUME IInv, NEW r \in Run, NEW e, exec' = [exec EXCEPT ![r] = e],
           e.result = exec[r].result, UNCHANGED storeVars
    PROVE  UNCHANGED Contract!contractVars
  <1>1. UNCHANGED <<runs, history>>
    BY DEF storeVars
  <1>2. \A q \in Run : exec'[q].result = exec[q].result
    BY DEF IInv
  <1> QED
    BY <1>1, <1>2, KeptStays, ContractStutters

\* An execution answers without ending its record.
LEMMA AnswerStep ==
    ASSUME IInv, NEW r \in Run, NEW result, exec[r].phase = "done", UNCHANGED storeVars,
           NEW event, Close(r, result, Heal(exec[r].delta), event)
    PROVE  /\ exec[r].result = "none" /\ runs[r].status # "absent"
           /\ [q \in Run |-> exec[q].result]' = [[q \in Run |-> exec[q].result] EXCEPT ![r] = result]
           /\ [q \in Run |-> runs[q].status]' = [q \in Run |-> runs[q].status]
           /\ [q \in Run |-> Kept(q)]' = [q \in Run |-> Kept(q)]
  <1> DEFINE e == [exec[r] EXCEPT !.phase = "finalized", !.result = result,
                                  !.delta = Heal(exec[r].delta), !.log = Append(@, event)]
  <1>1. exec[r] \in ExecRecord /\ exec \in [Run -> ExecRecord] /\ RecordOK(exec[r])
    BY RunIs
  <1>2. exec' = [exec EXCEPT ![r] = e] /\ e.result = result
    BY <1>1 DEF Close, ExecRecord
  <1> HIDE DEF e
  <1>3. \A q \in Run : exec'[q].result = IF q = r THEN result ELSE exec[q].result
    BY <1>1, <1>2
  <1>4. UNCHANGED <<runs, history>>
    BY DEF storeVars
  <1>5. \A q \in Run : Kept(q)' = Kept(q)
    BY <1>4, KeptStays, KeptIsACondition
  <1>6. exec[r].result = "none"
    BY <1>1 DEF RecordOK
  <1>7. runs[r].status # "absent"
    BY PendingKeepsNothing
  <1> QED
    BY <1>3, <1>4, <1>5, <1>6, <1>7

\* An admitted prompt is accepted.
LEMMA PromptAccepts ==
    ASSUME IInv, NEW p \in Process, NEW s \in Session, NEW r \in Run, Prompt(p, s, r)
    PROVE  Contract!Accept(r)
  <1> DEFINE e == [NoExecution EXCEPT !.phase = "running", !.process = p,
                                      !.delta = <<UserMessage>>, !.log = <<RunStart>>]
  <1>1. /\ runs[r].status = "absent" /\ UNCHANGED history
        /\ runs' = [runs EXCEPT ![r] = [session |-> s, status |-> "active"]]
        /\ exec' = [exec EXCEPT ![r] = e]
    BY DEF Prompt, Store!StartRun
  <1>2. StoreShape /\ exec \in [Run -> ExecRecord] /\ RecordOK(exec[r]) /\ Linked(r, exec[r])
    BY RunIs
  <1>3. e.result = "none"
    <2>1. NoExecution \in ExecRecord
      BY RecordNone DEF RecordOK
    <2> QED
      BY <2>1 DEF ExecRecord, NoExecution
  <1>4. exec[r].result = "none"
    BY <1>1, <1>2 DEF Linked, RecordOK
  <1> HIDE DEF e
  <1>5. \A q \in Run : exec'[q].result = exec[q].result
    BY <1>1, <1>2, <1>3, <1>4
  <1>6. \A q \in Run : runs'[q] = IF q = r THEN [session |-> s, status |-> "active"] ELSE runs[q]
    BY <1>1, <1>2 DEF StoreShape
  <1>7. IInv'
    BY PromptPreserves
  <1>8. ASSUME NEW q \in Run PROVE Kept(q)' = Kept(q)
    <2>1. CASE q # r
      <3>1. Kept(q)' <=> Kept(q)
        BY <1>1, <1>6, <2>1, TurnStays
      <3> QED
        BY <3>1, KeptIsACondition
    <2>2. CASE q = r
      <3>1. ~Kept(r)
        BY <1>1 DEF Kept
      <3>2. \A k \in Run : exec'[k] = IF k = r THEN e ELSE exec[k]
        BY <1>1, <1>2
      <3>3. e.phase = "running"
        <4>1. NoExecution \in ExecRecord
          BY RecordNone DEF RecordOK
        <4> QED
          BY <4>1 DEF e, ExecRecord
      <3>4. Linked(r, exec[r])'
        BY <1>7 DEF IInv
      <3>5. ~Kept(r)'
        BY <3>2, <3>3, <3>4 DEF Linked
      <3> QED
        BY <2>2, <3>1, <3>5, KeptIsACondition
    <2> QED
      BY <2>1, <2>2
  <1>9. [q \in Run |-> runs[q].status]' = [[q \in Run |-> runs[q].status] EXCEPT ![r] = "active"]
    <2>1. \A q \in Run : runs'[q].status = IF q = r THEN "active" ELSE runs[q].status
      BY <1>6
    <2> QED
      BY <2>1
  <1>10. [q \in Run |-> Kept(q)]' = [q \in Run |-> Kept(q)]
    BY <1>8
  <1>11. [q \in Run |-> exec[q].result]' = [q \in Run |-> exec[q].result]
    BY <1>5
  <1>12. [q \in Run |-> runs[q].status][r] = "absent"
    BY <1>1
  <1> QED
    BY <1>9, <1>10, <1>11, <1>12 DEF Contract!Accept

\* A durable abort ends the record from elsewhere; no turn is kept.
LEMMA DurableAbortEnds ==
    ASSUME IInv, NEW s \in Session, DurableAbort(s)
    PROVE  \E r \in Run : Contract!EndElsewhere(r)
  <1>1. PICK r \in Run : /\ Store!IsActive(r)
                         /\ runs' = [runs EXCEPT ![r].status = "aborted"]
    BY DEF DurableAbort, Store!AbortActiveRun
  <1>2. UNCHANGED <<history, exec>>
    BY DEF DurableAbort, Store!AbortActiveRun
  <1>3. StoreShape
    BY StoreIs DEF IInv
  <1>4. /\ \A q \in Run \ {r} : runs'[q] = runs[q]
        /\ runs'[r].status = "aborted" /\ runs[r].status = "active"
    BY <1>1, <1>3 DEF StoreShape, Store!RunRecord, Store!IsActive
  <1>5. ASSUME NEW q \in Run PROVE Kept(q)' = Kept(q)
    <2>1. CASE q # r
      <3>1. Kept(q)' <=> Kept(q)
        BY <1>2, <1>4, <2>1, TurnStays
      <3> QED
        BY <3>1, KeptIsACondition
    <2>2. CASE q = r
      <3>1. TurnIn(r, history[runs[r].session]) = <<>>
        <4>1. runs[r].session \in Session
          BY <1>3, <1>4 DEF StoreShape
        <4>2. history[runs[r].session] \in Seq(Store!Entry)
          BY <1>3, <4>1 DEF StoreShape
        <4>3. \A i \in DOMAIN history[runs[r].session] :
                  history[runs[r].session][i].run # r
          BY <1>3, <1>4, <4>1, NoRowsYet
        <4> QED
          BY <4>2, <4>3, NoTurn
      <3>2. Turn(r) = <<>>
        BY <3>1, TurnIs
      <3>3. Turn(r)' = <<>>
        <4>1. Turn(r)' = TurnIn(r, history'[runs'[r].session])
          BY DEF Turn, TurnIn, ItemsAt, RowsOf
        <4>2. runs'[r].session = runs[r].session
          BY <1>1, <1>3 DEF StoreShape, Store!RunRecord
        <4> QED
          BY <1>2, <3>1, <4>1, <4>2
      <3>4. ~Kept(r) /\ ~Kept(r)'
        BY <3>2, <3>3 DEF Kept
      <3> QED
        BY <2>2, <3>4, KeptIsACondition
    <2> QED
      BY <2>1, <2>2
  <1> QED
    BY <1>2, <1>4, <1>5 DEF Contract!EndElsewhere

\* A commit ends the record, keeps the turn and answers, all at once.
LEMMA CommitFinishes ==
    ASSUME IInv, NEW r \in Run, Commit(r)
    PROVE  \E outcome \in Contract!Outcome : Contract!Finish(r, outcome)
  <1>0. PICK outcome \in Outcome : outcome = exec[r].outcome
    BY RunIs DEF Commit, RecordOK
  <1> DEFINE e == [exec[r] EXCEPT !.phase = "finalized", !.result = outcome,
                           !.delta = Heal(exec[r].delta), !.log = Append(@, RunEnd(outcome))]
  <1>1. /\ RecordOK(exec[r]) /\ exec[r] \in ExecRecord /\ exec \in [Run -> ExecRecord]
        /\ StoreShape /\ exec[r].phase = "done"
    BY RunIs DEF Commit
  <1>2. Store!IsActive(r) /\ runs' = [runs EXCEPT ![r].status = outcome]
    BY <1>0 DEF Commit, Store!FinishRun
  <1>3. exec' = [exec EXCEPT ![r] = e] /\ e.result = outcome
    BY <1>0, <1>1 DEF Commit, Close, ExecRecord
  <1>4. outcome \in Contract!Outcome /\ exec[r].result = "none"
    BY <1>1 DEF RecordOK, Contract!Outcome, Outcome
  <1> HIDE DEF e
  <1>5. \A q \in Run : exec'[q].result = IF q = r THEN outcome ELSE exec[q].result
    BY <1>1, <1>3
  <1>6. \A q \in Run : runs'[q].status = IF q = r THEN outcome ELSE runs[q].status
    BY <1>1, <1>2 DEF StoreShape, Store!RunRecord
  <1>7. runs[r].status = "active"
    BY <1>2 DEF Store!IsActive
  <1>8. \A q \in Run : Kept(q)' = IF q = r THEN TRUE ELSE Kept(q)
    BY CommitPreserves, KeptIsACondition
  <1> QED
    BY <1>4, <1>5, <1>6, <1>7, <1>8 DEF Contract!Finish

\* _finish with the record ended by someone else.
LEMMA ConcedeConcedes ==
    ASSUME IInv, NEW r \in Run, Concede(r)
    PROVE  Contract!Concede(r)
  <1>1. /\ exec[r].phase = "done" /\ UNCHANGED storeVars
        /\ Close(r, runs[r].status, Heal(exec[r].delta), RunEnd(runs[r].status))
    BY DEF Concede
  <1>2. runs[r].status \in Outcome
    BY OutcomesAre DEF Concede, Store!IsTerminal
  <1>3. /\ exec[r].result = "none"
        /\ [q \in Run |-> exec[q].result]' = [[q \in Run |-> exec[q].result] EXCEPT ![r] = runs[r].status]
        /\ [q \in Run |-> runs[q].status]' = [q \in Run |-> runs[q].status]
        /\ [q \in Run |-> Kept(q)]' = [q \in Run |-> Kept(q)]
    BY <1>1, AnswerStep
  <1> QED
    BY <1>2, <1>3 DEF Contract!Concede, Contract!Outcome, Outcome

\* _finish with the database out of reach.
LEMMA FaultFaults ==
    ASSUME IInv, NEW r \in Run, Fault(r)
    PROVE  Contract!Fault(r)
  <1>1. /\ exec[r].phase = "done" /\ UNCHANGED storeVars
        /\ Close(r, "faulted", Heal(exec[r].delta), RunFault)
    BY DEF Fault
  <1>2. /\ exec[r].result = "none" /\ runs[r].status # "absent"
        /\ [q \in Run |-> exec[q].result]' = [[q \in Run |-> exec[q].result] EXCEPT ![r] = "faulted"]
        /\ [q \in Run |-> runs[q].status]' = [q \in Run |-> runs[q].status]
        /\ [q \in Run |-> Kept(q)]' = [q \in Run |-> Kept(q)]
    BY <1>1, AnswerStep
  <1> QED
    BY <1>2 DEF Contract!Fault

\* The steps of the task are the execution's own business.
LEMMA TaskIsSilent ==
    ASSUME IInv, NEW r \in Run, TaskStep(r) \/ Abort(r) \/ Unwind(r)
    PROVE  UNCHANGED Contract!contractVars
  <1>1. exec[r] \in ExecRecord
    BY RunIs
  <1>2. ASSUME NEW item, Emit(r, item), UNCHANGED storeVars
        PROVE  UNCHANGED Contract!contractVars
    <2> DEFINE e == [exec[r] EXCEPT !.log = Append(@, Emitted(item)),
                                    !.delta = Append(@, item)]
    <2>1. e.result = exec[r].result
      BY <1>1 DEF ExecRecord
    <2>2. exec' = [exec EXCEPT ![r] = e]
      BY <1>2, RunIs DEF Emit
    <2> HIDE DEF e
    <2> QED
      BY <1>2, <2>1, <2>2, SilentStep
  <1>3. ASSUME NEW outcome, TaskDone(r, outcome)
        PROVE  UNCHANGED Contract!contractVars
    <2> DEFINE e == [exec[r] EXCEPT !.phase = "done", !.outcome = outcome]
    <2>1. e.result = exec[r].result
      BY <1>1 DEF ExecRecord
    <2>2. exec' = [exec EXCEPT ![r] = e]
      BY <1>3, RunIs DEF TaskDone
    <2>3. UNCHANGED storeVars
      BY <1>3 DEF TaskDone
    <2> HIDE DEF e
    <2> QED
      BY <2>1, <2>2, <2>3, SilentStep
  <1>4. ASSUME FailTurn(r) PROVE UNCHANGED Contract!contractVars
    <2> DEFINE e == [exec[r] EXCEPT !.phase = "done", !.outcome = "failed",
                                    !.log = Append(@, FailedTurn)]
    <2>1. e.result = exec[r].result
      BY <1>1 DEF ExecRecord
    <2>2. exec' = [exec EXCEPT ![r] = e] /\ UNCHANGED storeVars
      BY <1>4, RunIs DEF FailTurn
    <2> HIDE DEF e
    <2> QED
      BY <2>1, <2>2, SilentStep
  <1>5. ASSUME Abort(r) PROVE UNCHANGED Contract!contractVars
    <2> DEFINE e == [exec[r] EXCEPT !.aborting = TRUE]
    <2>1. e.result = exec[r].result
      BY <1>1 DEF ExecRecord
    <2>2. exec' = [exec EXCEPT ![r] = e] /\ UNCHANGED storeVars
      BY <1>5, RunIs DEF Abort
    <2> HIDE DEF e
    <2> QED
      BY <2>1, <2>2, SilentStep
  <1>6. ASSUME NEW calls \in CallLists, CompleteTurn(r, calls)
        PROVE  UNCHANGED Contract!contractVars
    BY <1>2, <1>6 DEF CompleteTurn
  <1>7. ASSUME NEW isError \in BOOLEAN, EndTool(r, isError)
        PROVE  UNCHANGED Contract!contractVars
    BY <1>2, <1>7 DEF EndTool
  <1>8. ASSUME FollowUp(r) PROVE UNCHANGED Contract!contractVars
    BY <1>2, <1>8 DEF FollowUp
  <1>9. ASSUME NEW outcome \in {"completed", "failed"}, Return(r, outcome)
        PROVE  UNCHANGED Contract!contractVars
    BY <1>3, <1>9 DEF Return
  <1>10. ASSUME Raise(r) PROVE UNCHANGED Contract!contractVars
    BY <1>3, <1>10 DEF Raise
  <1>11. ASSUME Unwind(r) PROVE UNCHANGED Contract!contractVars
    BY <1>3, <1>11 DEF Unwind
  <1> QED
    BY <1>4, <1>5, <1>6, <1>7, <1>8, <1>9, <1>10, <1>11 DEF TaskStep

\* A process that dies answers nobody and writes nothing.
LEMMA CrashIsSilent ==
    ASSUME IInv, NEW p \in Process, Crash(p)
    PROVE  UNCHANGED Contract!contractVars
  <1>1. UNCHANGED <<runs, history>>
    BY DEF Crash, storeVars
  <1>2. ASSUME NEW q \in Run PROVE exec'[q].result = exec[q].result
    <2>1. exec[q] \in ExecRecord
      BY RunIs
    <2>2. \/ exec'[q] = [exec[q] EXCEPT !.phase = "lost"]
          \/ exec'[q] = exec[q]
      BY DEF Crash
    <2> QED
      BY <2>1, <2>2 DEF ExecRecord
  <1> QED
    BY <1>1, <1>2, KeptStays, ContractStutters

\* A fork copies a history; no run's session is the copy.
LEMMA ForkIsSilent ==
    ASSUME IInv, NEW source \in Session, NEW target \in Session, Fork(source, target)
    PROVE  UNCHANGED Contract!contractVars
  <1>1. /\ UNCHANGED <<runs, exec>> /\ target \notin sessions
        /\ history' = [history EXCEPT ![target] = history[source]]
    BY DEF Fork, Store!ForkSession
  <1>2. StoreShape
    BY StoreIs DEF IInv
  <1>3. ASSUME NEW q \in Run PROVE Kept(q)' <=> Kept(q)
    <2>1. runs[q].status # "absent" => history'[runs[q].session] = history[runs[q].session]
      BY <1>1, <1>2 DEF StoreShape
    <2> QED
      BY <1>1, <2>1, TurnStays
  <1> QED
    BY <1>1, <1>3, ContractStutters

\* Every step is one action of the contract, or none.
LEMMA StepImplements == IInv /\ [Next]_vars => [Contract!Next]_(Contract!contractVars)
  <1> SUFFICES ASSUME IInv, [Next]_vars
               PROVE  Contract!Next \/ UNCHANGED Contract!contractVars
    OBVIOUS
  <1>1. ASSUME UNCHANGED <<runs, history, exec>> PROVE UNCHANGED Contract!contractVars
    BY <1>1, KeptStays, ContractStutters
  <1>2. CASE UNCHANGED vars
    BY <1>1, <1>2 DEF vars, storeVars
  <1>3. ASSUME NEW s \in Session, CreateSession(s) PROVE UNCHANGED Contract!contractVars
    BY <1>1, <1>3 DEF CreateSession, Store!CreateSession
  <1>4. ASSUME NEW s \in Session, DurableAbort(s) PROVE Contract!Next
    BY <1>4, DurableAbortEnds DEF Contract!Next
  <1>5. ASSUME NEW p \in Process, NEW s \in Session, NEW r \in Run, Prompt(p, s, r)
        PROVE  Contract!Next
    BY <1>5, PromptAccepts DEF Contract!Next
  <1>6. ASSUME NEW r \in Run, Commit(r) PROVE Contract!Next
    BY <1>6, CommitFinishes DEF Contract!Next
  <1>7. ASSUME NEW r \in Run, Concede(r) PROVE Contract!Next
    BY <1>7, ConcedeConcedes DEF Contract!Next
  <1>8. ASSUME NEW r \in Run, Fault(r) PROVE Contract!Next
    BY <1>8, FaultFaults DEF Contract!Next
  <1>9. CASE \E s \in Session : CreateSession(s) \/ DurableAbort(s)
    BY <1>3, <1>4, <1>9
  <1>10. CASE \E p \in Process, s \in Session, r \in Run : Prompt(p, s, r)
    BY <1>5, <1>10
  <1>11. CASE \E r \in Run : TaskStep(r) \/ Abort(r) \/ Unwind(r) \/ Finalize(r)
    BY <1>6, <1>7, <1>8, <1>11, TaskIsSilent DEF Finalize
  <1>12. CASE \E source, target \in Session : Fork(source, target)
    BY <1>12, ForkIsSilent
  <1>13. CASE \E p \in Process : Crash(p)
    BY <1>13, CrashIsSilent
  <1> QED
    BY <1>2, <1>9, <1>10, <1>11, <1>12, <1>13 DEF Next

\* No run has a record, an answer or a turn at first.
LEMMA InitImplements == Init => Contract!Init
  <1> SUFFICES ASSUME Init PROVE Contract!Init
    OBVIOUS
  <1>1. \A r \in Run : runs[r].status = "absent"
    BY DEF Init, Store!Init
  <1>2. \A r \in Run : exec[r].result = "none"
    BY DEF Init, NoExecution
  <1>3. \A r \in Run : Kept(r) = FALSE
    BY <1>1 DEF Kept
  <1> QED
    BY <1>1, <1>2, <1>3 DEF Contract!Init

\* Seen through its record, its answer and its session's history, each run
\* behaves as RunContract promises to the holder of its handle.
THEOREM LifecycleImplementsContract == Spec => ImplementsContract
  <1>1. Init => Contract!Init
    BY InitImplements
  <1>2. IInv /\ [Next]_vars => [Contract!Next]_(Contract!contractVars)
    BY StepImplements
  <1> QED
    BY <1>1, <1>2, Inductive, PTL DEF Spec, ImplementsContract, Contract!Spec
=============================================================================
