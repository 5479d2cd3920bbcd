-------------------------- MODULE AgentLoopProofs --------------------------
(***************************************************************************)
(* The agent loop's conversation, reports, scopes and streams, for any     *)
(* tools, provider, history and number of turns and follow-ups; and every  *)
(* step of the program as a step that RunLifecycle allows a run's task.    *)
(***************************************************************************)
EXTENDS AgentLoop, SelectionProofs

Effects == {"error", "ok", "stop", "complete", "fail"}
Execution == [call : CallId, effect : Effects]

PlainEvent ==
    {Event(name) : name \in {"agent_start", "agent_end", "turn_start", "turn_end",
                             "message_start", "message_failed", "tool_start"}}
LogEvent == PlainEvent \cup Replayable

Place == {"start", "calling", "opened", "streaming", "tool", "closing", "done"}

TypeOK ==
    /\ typed \in BOOLEAN
    /\ pc \in Place
    /\ attempt \in Nat
    /\ working \in Seq(Item)
    /\ runHistory \in Seq(Item)
    /\ open \in BOOLEAN
    /\ cutOff \in BOOLEAN
    /\ calls \in Seq(CallId)
    /\ batch \in Seq(Execution)
    /\ executions \in Seq(Execution)
    /\ log \in Seq(LogEvent)
    /\ outcome \in {"none", "completed", "agent_failure", "execution_failure", "aborted"}
    /\ aborting \in BOOLEAN

-----------------------------------------------------------------------------
(* What is emitted.                                                        *)

\* A tool's answer is an item, whatever its effect.
LEMMA ResultIsItem ==
  \A call \in CallId : \A effect : ToolResult(call, effect = "error") \in Item
<1> SUFFICES ASSUME NEW call \in CallId, NEW effect
             PROVE  ToolResult(call, effect = "error") \in Item
  OBVIOUS
<1>1. (effect = "error") \in BOOLEAN
  OBVIOUS
<1>2. \A isError \in BOOLEAN : ToolResult(call, isError) \in Item
  BY DEF Item
<1> QED
  BY <1>1, <1>2, Zenon

\* Every step emits nothing but events of these kinds.
LEMMA EventsTyped ==
    /\ \A name \in {"agent_start", "agent_end", "turn_start", "turn_end",
                    "message_start", "message_failed", "tool_start"} :
          Event(name) \in LogEvent /\ Event(name) \notin Replayable
    /\ \A item \in Item :
          /\ Carrying("message_end", item) \in Replayable
          /\ Carrying("follow_up", item) \in Replayable
    /\ \A call \in CallId, effect \in Effects : ToolEnd(call, effect) \in Replayable
    /\ Replayable \subseteq LogEvent
<1>1. \A name \in {"agent_start", "agent_end", "turn_start", "turn_end",
                   "message_start", "message_failed", "tool_start"} :
          Event(name) \in LogEvent /\ Event(name) \notin Replayable
  <2> SUFFICES ASSUME NEW name \in {"agent_start", "agent_end", "turn_start", "turn_end",
                                    "message_start", "message_failed", "tool_start"}
               PROVE  Event(name) \in LogEvent /\ Event(name) \notin Replayable
    OBVIOUS
  <2>1. "item" \notin DOMAIN Event(name)
    BY DEF Event
  <2>2. \A e \in Replayable : "item" \in DOMAIN e
    BY DEF Replayable, ToolEndWith
  <2> QED
    BY <2>1, <2>2 DEF LogEvent, PlainEvent
<1>2. \A item \in Item : Carrying("message_end", item) \in Replayable
                         /\ Carrying("follow_up", item) \in Replayable
  BY DEF Carrying, Replayable
<1>3. \A call \in CallId, effect \in Effects : ToolEnd(call, effect) \in Replayable
  <2> SUFFICES ASSUME NEW call \in CallId, NEW effect \in Effects
               PROVE  ToolEnd(call, effect) \in Replayable
    OBVIOUS
  <2>1. ToolResult(call, effect = "error") \in Item
    BY ResultIsItem
  <2> QED
    BY <2>1 DEF ToolEnd, Replayable, ToolEndWith, Effects
<1> QED
  BY <1>1, <1>2, <1>3 DEF LogEvent

\* A carried item is an item.
LEMMA CarriedItem == \A e \in Replayable : e.item \in Item
  BY DEF Replayable, ToolEndWith

\* One more event adds its item, if it carries one.
LEMMA ItemsAppend ==
  ASSUME NEW s \in Seq(LogEvent), NEW e \in LogEvent
  PROVE  /\ Items(s) \in Seq(Item)
         /\ Items(Append(s, e)) = IF e \in Replayable THEN Append(Items(s), e.item)
                                  ELSE Items(s)
<1> DEFINE kept == Only(s, Replayable)
           more == Only(Append(s, e), Replayable)
<1>1. more = IF e \in Replayable THEN Append(kept, e) ELSE kept
  BY OnlyAppend
<1>2. kept \in Seq(Replayable)
  <2>1. kept \in Seq(LogEvent \cap Replayable)
    BY OnlyType
  <2>2. LogEvent \cap Replayable = Replayable
    BY DEF LogEvent
  <2> QED
    BY <2>1, <2>2
<1>3. Items(s) = [i \in DOMAIN kept |-> kept[i].item]
  BY DEF Items
<1>4. Items(Append(s, e)) = [i \in DOMAIN more |-> more[i].item]
  BY DEF Items
<1> HIDE DEF kept, more
<1>5. \A i \in DOMAIN kept : kept[i].item \in Item
  BY <1>2, CarriedItem
<1>6. Items(s) \in Seq(Item)
  BY <1>2, <1>3, <1>5
<1>7. ASSUME e \in Replayable
      PROVE  [i \in DOMAIN Append(kept, e) |-> Append(kept, e)[i].item]
                = Append([i \in DOMAIN kept |-> kept[i].item], e.item)
  BY <1>2, <1>5, <1>7
<1> QED
  BY <1>1, <1>3, <1>4, <1>6, <1>7

\* No events carry no items.
LEMMA ItemsEmpty == Items(<<>>) = <<>>
  BY OnlyEmpty DEF Items

\* Emitting one event.
LEMMA EmitOne ==
  ASSUME log \in Seq(LogEvent), working \in Seq(Item), NEW e \in LogEvent, Emit(<<e>>)
  PROVE  /\ log' = Append(log, e)
         /\ working' = IF e \in Replayable THEN Append(working, e.item) ELSE working
<1>1. <<>> \in Seq(LogEvent) /\ <<e>> = Append(<<>>, e)
  OBVIOUS
<1>2. Items(<<e>>) = IF e \in Replayable THEN Append(<<>>, e.item) ELSE <<>>
  BY <1>1, ItemsAppend, ItemsEmpty
<1>3. log' = log \o <<e>> /\ working' = working \o Items(<<e>>)
  BY DEF Emit
<1>4. log \o <<e>> = Append(log, e)
  BY AppendIsConcat
<1>5. CASE e \in Replayable
  <2>1. Items(<<e>>) = <<e.item>> /\ e.item \in Item
    BY <1>2, <1>5, CarriedItem
  <2>2. working \o <<e.item>> = Append(working, e.item)
    BY <2>1, AppendIsConcat
  <2> QED
    BY <1>3, <1>4, <1>5, <2>1, <2>2
<1>6. CASE e \notin Replayable
  <2>1. working \o <<>> = working
    BY ConcatEmptySeq
  <2> QED
    BY <1>2, <1>3, <1>4, <1>6, <2>1
<1> QED
  BY <1>5, <1>6

\* Emitting two events.
LEMMA EmitTwo ==
  ASSUME log \in Seq(LogEvent), working \in Seq(Item),
         NEW e \in LogEvent, NEW f \in PlainEvent, Emit(<<e, f>>)
  PROVE  /\ log' = Append(Append(log, e), f)
         /\ working' = IF e \in Replayable THEN Append(working, e.item) ELSE working
<1>0. f \in LogEvent /\ f \notin Replayable
  BY EventsTyped DEF PlainEvent
<1>1. <<e>> \in Seq(LogEvent) /\ <<e>> = Append(<<>>, e) /\ <<e, f>> = Append(<<e>>, f)
      /\ <<>> \in Seq(LogEvent)
  BY <1>0
<1>2. Items(<<e, f>>) = IF e \in Replayable THEN Append(<<>>, e.item) ELSE <<>>
  <2>1. Items(<<e>>) = IF e \in Replayable THEN Append(<<>>, e.item) ELSE <<>>
    BY <1>1, ItemsAppend, ItemsEmpty
  <2>2. Items(<<e, f>>) = Items(<<e>>)
    BY <1>0, <1>1, ItemsAppend
  <2> QED
    BY <2>1, <2>2
<1>3. log' = log \o <<e, f>> /\ working' = working \o Items(<<e, f>>)
  BY DEF Emit
<1>4. log \o <<e, f>> = Append(Append(log, e), f)
  BY <1>0
<1>5. CASE e \in Replayable
  <2>1. Items(<<e, f>>) = <<e.item>> /\ e.item \in Item
    BY <1>2, <1>5, CarriedItem
  <2>2. working \o <<e.item>> = Append(working, e.item)
    BY <2>1, AppendIsConcat
  <2> QED
    BY <1>3, <1>4, <1>5, <2>1, <2>2
<1>6. CASE e \notin Replayable
  <2>1. working \o <<>> = working
    BY ConcatEmptySeq
  <2> QED
    BY <1>2, <1>3, <1>4, <1>6, <2>1
<1> QED
  BY <1>5, <1>6

Reminder == Carrying("follow_up", UserMessage)

\* The end of an attempt, a reminder and the start of the next.
LEMMA EmitReminder ==
  ASSUME log \in Seq(LogEvent), working \in Seq(Item),
         Emit(<<Event("agent_end"), Reminder, Event("agent_start")>>)
  PROVE  /\ log' = Append(Append(Append(log, Event("agent_end")), Reminder),
                          Event("agent_start"))
         /\ working' = Append(working, UserMessage)
         /\ working \o Items(<<Event("agent_end"), Reminder, Event("agent_start")>>) = working'
<1> DEFINE a == Event("agent_end")
           b == Reminder
           c == Event("agent_start")
<1>0. /\ a \in LogEvent /\ a \notin Replayable /\ c \in LogEvent /\ c \notin Replayable
      /\ b \in Replayable /\ b \in LogEvent /\ b.item = UserMessage /\ UserMessage \in Item
  <2>1. UserMessage \in Item
    BY DEF Item
  <2> QED
    BY <2>1, EventsTyped DEF Reminder, Carrying
<1>3. log' = log \o <<a, b, c>> /\ working' = working \o Items(<<a, b, c>>)
  BY DEF Emit
<1> HIDE DEF a, b, c
<1>1. /\ <<a>> \in Seq(LogEvent) /\ <<a>> = Append(<<>>, a) /\ <<>> \in Seq(LogEvent)
      /\ <<a, b>> \in Seq(LogEvent) /\ <<a, b>> = Append(<<a>>, b)
      /\ <<a, b, c>> = Append(<<a, b>>, c)
  BY <1>0
<1>2. Items(<<a>>) = <<>>
  <2> DEFINE none == <<>>
  <2>1. none \in Seq(LogEvent) /\ Items(none) = <<>> /\ <<a>> = Append(none, a)
    BY <1>1, ItemsEmpty
  <2> HIDE DEF none
  <2>2. Items(Append(none, a)) = Items(none)
    BY <1>0, <2>1, ItemsAppend
  <2> QED
    BY <2>1, <2>2
<1>4. Items(<<a, b>>) = Append(<<>>, UserMessage)
  BY <1>0, <1>1, <1>2, ItemsAppend
<1>5. Items(<<a, b, c>>) = Append(<<>>, UserMessage)
  BY <1>0, <1>1, <1>4, ItemsAppend
<1>6. log \o <<a, b, c>> = Append(Append(Append(log, a), b), c)
  BY <1>0
<1>7. working \o Append(<<>>, UserMessage) = Append(working, UserMessage)
  BY <1>0
<1> QED
  BY <1>3, <1>5, <1>6, <1>7 DEF a, b, c

-----------------------------------------------------------------------------
(* The two copies of the conversation.                                     *)

CallsIn(b) == [i \in DOMAIN b |-> b[i].call]
ResultsIn(b) == [i \in DOMAIN b |-> ToolResult(b[i].call, b[i].effect = "error")]

\* The calls a batch answered, and their results.
LEMMA BatchType ==
  ASSUME NEW b \in Seq(Execution)
  PROVE  CallsIn(b) \in Seq(CallId) /\ ResultsIn(b) \in Seq(Item)
<1> DEFINE Answer(y) == ToolResult(y.call, y.effect = "error")
<1>1. \A y \in Execution : y.call \in CallId /\ Answer(y) \in Item
  <2> SUFFICES ASSUME NEW y \in Execution PROVE y.call \in CallId /\ Answer(y) \in Item
    OBVIOUS
  <2>1. y.call \in CallId
    BY DEF Execution
  <2> QED
    BY <2>1, ResultIsItem
<1>2. ResultsIn(b) = [i \in DOMAIN b |-> Answer(b[i])]
  BY DEF ResultsIn
<1> HIDE DEF Answer
<1>3. CallsIn(b) \in Seq(CallId)
  BY <1>1 DEF CallsIn
<1>4. [i \in DOMAIN b |-> Answer(b[i])] \in Seq(Item)
  BY <1>1
<1> QED
  BY <1>2, <1>3, <1>4

\* One more outcome is one more call answered.
LEMMA BatchAppend ==
  ASSUME NEW b \in Seq(Execution), NEW x \in Execution
  PROVE  /\ CallsIn(Append(b, x)) = Append(CallsIn(b), x.call)
         /\ ResultsIn(Append(b, x)) = Append(ResultsIn(b), ToolResult(x.call, x.effect = "error"))
<1> DEFINE Answer(y) == ToolResult(y.call, y.effect = "error")
<1>1. ResultsIn(b) = [i \in DOMAIN b |-> Answer(b[i])]
      /\ ResultsIn(Append(b, x)) = [i \in DOMAIN Append(b, x) |-> Answer(Append(b, x)[i])]
  BY DEF ResultsIn
<1> HIDE DEF Answer
<1>2. CallsIn(Append(b, x)) = Append(CallsIn(b), x.call)
  BY DEF CallsIn
<1>3. [i \in DOMAIN Append(b, x) |-> Answer(Append(b, x)[i])]
        = Append([i \in DOMAIN b |-> Answer(b[i])], Answer(x))
  OBVIOUS
<1> QED
  BY <1>1, <1>2, <1>3 DEF Answer

\* Both copies agree when the provider is called; between its answer and the end of
\* the batch the run is ahead of the loop by the turn as far as it got.
Copies ==
    /\ pc \in {"calling", "opened", "streaming"} => runHistory = working
    /\ pc \in {"tool", "closing"} =>
          working = Append(runHistory, AssistantTurn(CallsIn(batch) \o calls)) \o ResultsIn(batch)
    /\ pc = "tool" => calls # <<>>
    /\ pc = "closing" => calls = <<>>

-----------------------------------------------------------------------------
(* Reports and reminders in the log.                                       *)

Accepting == ToolEndWith({"complete", "fail"})
Accepted(events) == Only(events, Accepting)
Reminders(events) == Only(events, {Reminder})
Reports(b) == Only(b, Report)

SameHead(s, t) ==
    /\ s = <<>> <=> t = <<>>
    /\ s # <<>> => Head(s).effect = Head(t).effect

\* No report before the attempt's last batch; there, log and batch tell the same.
Reported ==
    /\ pc \in {"start", "calling", "opened", "streaming"} => Accepted(log) = <<>>
    /\ pc # "done" => Reports(executions) = <<>>
    /\ pc \in {"tool", "closing"} => SameHead(Accepted(log), Reports(batch))
    /\ Len(Reminders(log)) = attempt
    /\ attempt <= MaxFollowUps
    /\ outcome # "none" => pc = "done"
    /\ typed /\ outcome = "completed" =>
          Accepted(log) # <<>> /\ Head(Accepted(log)).effect = "complete"
    /\ outcome = "agent_failure" =>
          IF Accepted(log) # <<>> THEN Head(Accepted(log)).effect = "fail"
          ELSE attempt = MaxFollowUps

\* Which events report and remind.
LEMMA Classify ==
    /\ \A e \in PlainEvent : e \in LogEvent /\ e \notin Accepting /\ e # Reminder
                             /\ e \notin Replayable
    /\ \A item \in Item : Carrying("message_end", item) \notin Accepting
                          /\ Carrying("message_end", item) # Reminder
    /\ Reminder \in Replayable /\ Reminder \notin Accepting
    /\ \A call \in CallId : \A effect \in Effects :
          /\ ToolEnd(call, effect) # Reminder
          /\ ToolEnd(call, effect) \in Accepting <=> effect \in {"complete", "fail"}
    /\ Accepting \subseteq LogEvent
<1>1. \A e \in PlainEvent : e \in LogEvent /\ e \notin Replayable
  BY EventsTyped DEF PlainEvent
<1>2. UserMessage \in Item
  BY DEF Item
<1>3. Reminder \in Replayable
  BY <1>2, EventsTyped DEF Reminder
<1>4. Accepting \subseteq Replayable
  BY DEF Accepting, Replayable, ToolEndWith
<1>5. \A e \in Accepting : e.event = "tool_end"
  BY DEF Accepting, ToolEndWith
<1>6. Reminder.event = "follow_up"
  BY DEF Reminder, Carrying
<1>7. \A item \in Item : Carrying("message_end", item).event = "message_end"
  BY DEF Carrying
<1>8. ASSUME NEW call \in CallId, NEW effect \in Effects
      PROVE  /\ ToolEnd(call, effect) # Reminder
             /\ ToolEnd(call, effect) \in Accepting <=> effect \in {"complete", "fail"}
  <2>1. ToolEnd(call, effect).event = "tool_end"
    BY DEF ToolEnd
  <2>2. ToolEnd(call, effect).effect = effect
    BY DEF ToolEnd
  <2>3. \A e \in Accepting : e.effect \in {"complete", "fail"}
    BY DEF Accepting, ToolEndWith
  <2>4. ASSUME effect \in {"complete", "fail"} PROVE ToolEnd(call, effect) \in Accepting
    <3>1. ToolResult(call, effect = "error") \in Item
      BY ResultIsItem
    <3> QED
      BY <2>4, <3>1 DEF ToolEnd, Accepting, ToolEndWith
  <2> QED
    BY <1>6, <2>1, <2>2, <2>3, <2>4
<1> QED
  BY <1>1, <1>3, <1>4, <1>5, <1>6, <1>7, <1>8 DEF LogEvent

\* What one more event adds to the reports and the reminders.
LEMMA LogAppend ==
  ASSUME NEW s \in Seq(LogEvent), NEW e \in LogEvent
  PROVE  /\ Append(s, e) \in Seq(LogEvent)
         /\ Accepted(s) \in Seq(Accepting)
         /\ Accepted(Append(s, e)) = IF e \in Accepting THEN Append(Accepted(s), e)
                                     ELSE Accepted(s)
         /\ Reminders(s) \in Seq({Reminder})
         /\ Reminders(Append(s, e)) = IF e = Reminder THEN Append(Reminders(s), e)
                                      ELSE Reminders(s)
<1>1. Append(s, e) \in Seq(LogEvent)
  OBVIOUS
<1>2. Accepted(Append(s, e)) = IF e \in Accepting THEN Append(Accepted(s), e) ELSE Accepted(s)
  BY OnlyAppend DEF Accepted
<1>3. Reminders(Append(s, e)) = IF e \in {Reminder} THEN Append(Reminders(s), e)
                                ELSE Reminders(s)
  BY OnlyAppend DEF Reminders
<1>4. Accepted(s) \in Seq(LogEvent \cap Accepting) /\ LogEvent \cap Accepting = Accepting
  BY OnlyType, Classify DEF Accepted
<1>5. Reminders(s) \in Seq(LogEvent \cap {Reminder}) /\ LogEvent \cap {Reminder} = {Reminder}
  <2>1. Reminder \in LogEvent
    BY Classify DEF LogEvent
  <2> QED
    BY <2>1, OnlyType DEF Reminders
<1> QED
  BY <1>1, <1>2, <1>3, <1>4, <1>5

\* A plain event adds nothing.
LEMMA LogPlain ==
  ASSUME NEW s \in Seq(LogEvent), NEW e \in PlainEvent
  PROVE  /\ Append(s, e) \in Seq(LogEvent)
         /\ Accepted(Append(s, e)) = Accepted(s)
         /\ Reminders(Append(s, e)) = Reminders(s)
<1>1. e \in LogEvent /\ e \notin Accepting /\ e # Reminder
  BY Classify
<1> QED
  BY <1>1, LogAppend

\* The head of a longer sequence.
LEMMA HeadAppend ==
  ASSUME NEW X, NEW s \in Seq(X), NEW x \in X
  PROVE  Append(s, x) # <<>> /\ Head(Append(s, x)) = IF s = <<>> THEN x ELSE Head(s)
<1> DEFINE t == Append(s, x)
<1>1. /\ t \in Seq(X) /\ Len(t) = Len(s) + 1 /\ Len(s) \in Nat
      /\ t[Len(s) + 1] = x /\ \A n \in 1..Len(s) : t[n] = s[n]
  BY AppendProperties
<1> HIDE DEF t
<1>2. t # <<>> /\ Head(t) = t[1]
  BY <1>1
<1>3. CASE s = <<>>
  BY <1>1, <1>2, <1>3 DEF t
<1>4. CASE s # <<>>
  <2>1. Len(s) # 0 /\ Head(s) = s[1]
    BY <1>4
  <2>2. t[1] = s[1]
    BY <1>1, <2>1
  <2> QED
    BY <1>2, <1>4, <2>1, <2>2 DEF t
<1> QED
  BY <1>3, <1>4

\* One more outcome in a batch, and its event in the log.
LEMMA SameHeadAppend ==
  ASSUME NEW s \in Seq(LogEvent), NEW b \in Seq(Execution), SameHead(Accepted(s), Reports(b)),
         NEW call \in CallId, NEW effect \in Effects
  PROVE  LET x == [call |-> call, effect |-> effect]
         IN  SameHead(Accepted(Append(s, ToolEnd(call, effect))), Reports(Append(b, x)))
<1> DEFINE x == [call |-> call, effect |-> effect]
           e == ToolEnd(call, effect)
<1>1. e \in LogEvent /\ (e \in Accepting <=> effect \in {"complete", "fail"})
      /\ e.effect = effect
  BY EventsTyped, Classify DEF ToolEnd
<1>2. x \in Execution /\ (x \in Report <=> effect \in {"complete", "fail"}) /\ x.effect = effect
  BY DEF Execution, Report
<1> HIDE DEF x, e
<1>3. Reports(Append(b, x)) = IF x \in Report THEN Append(Reports(b), x) ELSE Reports(b)
  BY <1>2, OnlyAppend DEF Reports
<1>4. Reports(b) \in Seq(Execution)
  <2>1. Reports(b) \in Seq(Execution \cap Report)
    BY OnlyType DEF Reports
  <2> QED
    BY <2>1
<1>5. Accepted(Append(s, e)) = IF e \in Accepting THEN Append(Accepted(s), e) ELSE Accepted(s)
  BY <1>1, LogAppend
<1>6. Accepted(s) \in Seq(LogEvent)
  <2>1. Accepted(s) \in Seq(LogEvent \cap Accepting)
    BY OnlyType DEF Accepted
  <2> QED
    BY <2>1
<1>7. CASE effect \in {"complete", "fail"}
  <2>1. /\ Append(Accepted(s), e) # <<>>
        /\ Head(Append(Accepted(s), e)) = IF Accepted(s) = <<>> THEN e ELSE Head(Accepted(s))
    BY <1>1, <1>6, HeadAppend
  <2>2. /\ Append(Reports(b), x) # <<>>
        /\ Head(Append(Reports(b), x)) = IF Reports(b) = <<>> THEN x ELSE Head(Reports(b))
    BY <1>2, <1>4, HeadAppend
  <2>3. SameHead(Append(Accepted(s), e), Append(Reports(b), x))
    BY <1>1, <1>2, <2>1, <2>2 DEF SameHead
  <2> QED
    BY <1>1, <1>2, <1>3, <1>5, <1>7, <2>3 DEF x, e
<1>8. CASE effect \notin {"complete", "fail"}
  BY <1>1, <1>2, <1>3, <1>5, <1>8 DEF x, e
<1> QED
  BY <1>7, <1>8

-----------------------------------------------------------------------------
(* Scopes.                                                                 *)

Scope == {"run", "agent_start", "turn_start", "message_start", "tool_start", "broken"}

\* An event leaves a stack of scopes.
LEMMA AfterType ==
  ASSUME NEW scopes \in Seq(Scope), NEW e \in LogEvent
  PROVE  After(scopes, e) \in Seq(Scope)
<1>1. e.event \in {"agent_start", "turn_start", "message_start", "tool_start"}
         => Append(scopes, e.event) \in Seq(Scope)
  BY DEF Scope
<1>3. <<"broken">> \in Seq(Scope)
  BY DEF Scope
<1>4. Front(scopes) \in Seq(Scope)
  <2>1. \A n \in 1 .. Len(scopes) - 1 : scopes[n] \in Scope
    OBVIOUS
  <2> QED
    BY <2>1 DEF Front
<1> DEFINE opens == e.event \in {"agent_start", "turn_start", "message_start", "tool_start"}
           fails == e.event = "message_failed" /\ Last(scopes) = "agent_start"
<1>5. CASE opens
  BY <1>1, <1>3, <1>5 DEF After
<1>6. CASE e.event = "follow_up"
  BY <1>3, <1>6 DEF After
<1>7. CASE fails
  BY <1>7 DEF After
<1>8. CASE ~opens /\ e.event # "follow_up" /\ ~fails
  BY <1>3, <1>4, <1>8 DEF After
<1> QED
  BY <1>5, <1>6, <1>7, <1>8

\* The function inside Scopes.
Nesting(events) ==
    CHOOSE scopes : scopes = [n \in 0 .. Len(events) |->
        IF n = 0 THEN <<"run">> ELSE After(scopes[n - 1], events[n])]

\* Scopes is the last value of the function inside it.
LEMMA ScopesIs == \A events : Scopes(events) = Nesting(events)[Len(events)]
  BY DEF Scopes, Nesting

Nests(f, events) ==
    /\ f \in [0 .. Len(events) -> Seq(Scope)]
    /\ f[0] = <<"run">>
    /\ \A n \in 1 .. Len(events) : f[n] = After(f[n - 1], events[n])

\* The function inside Scopes exists, and is the one its equation describes.
LEMMA NestingIs ==
  ASSUME NEW events \in Seq(LogEvent)
  PROVE  Nests(Nesting(events), events)
<1> DEFINE N == Len(events)
           V == Seq(Scope)
           step == [n \in 1..N |-> [v \in V |-> After(v, events[n])]]
           Body(scopes) == [n \in 0 .. N |->
                              IF n = 0 THEN <<"run">> ELSE After(scopes[n - 1], events[n])]
<1>1. N \in Nat /\ <<"run">> \in V /\ \A n \in 1..N : events[n] \in LogEvent
  BY DEF Scope
<1>2. step \in [1..N -> [V -> V]]
  <2>1. \A n \in 1..N : \A v \in V : After(v, events[n]) \in V
    BY <1>1, AfterType
  <2> HIDE DEF V
  <2> QED
    BY <2>1
<1> HIDE DEF N, V
<1>3. PICK f \in [0..N -> V] :
          f[0] = <<"run">> /\ \A n \in 1..N : f[n] = step[n][f[n - 1]]
  <2> HIDE DEF step, Body
  <2> DEFINE base == <<"run">>
  <2>1. N \in Nat /\ base \in V
    BY <1>1
  <2> HIDE DEF base
  <2>2. Recurses(N, V, base, step)
    BY <1>2, <2>1, RecursionFor, Zenon
  <2> QED
    BY <2>2 DEF Recurses, base
<1>4. ASSUME NEW n \in 1..N PROVE f[n] = After(f[n - 1], events[n])
  <2>1. f[n - 1] \in V
    BY <1>1, <1>3
  <2>2. step[n][f[n - 1]] = After(f[n - 1], events[n])
    BY <2>1
  <2> QED
    BY <1>3, <2>2
<1>5. f = Body(f)
  <2>1. ASSUME NEW n \in 0..N PROVE f[n] = Body(f)[n]
    <3>1. CASE n = 0
      BY <1>3, <3>1
    <3>2. CASE n # 0
      <4>1. n \in 1..N
        BY <1>1, <3>2
      <4>2. Body(f)[n] = After(f[n - 1], events[n])
        BY <3>2
      <4> QED
        BY <1>4, <4>1, <4>2
    <3> QED
      BY <3>1, <3>2
  <2> QED
    BY <1>3, <2>1
<1>6. Nesting(events) = Body(Nesting(events))
  BY <1>5 DEF Nesting, N
<1> DEFINE r == Nesting(events)
<1>7. /\ r = [n \in 0..N |-> r[n]] /\ r[0] = <<"run">>
      /\ \A n \in 1..N : r[n] = After(r[n - 1], events[n])
  <2>1. r = Body(r)
    BY <1>6
  <2> HIDE DEF r
  <2>2. r = [n \in 0..N |-> r[n]] /\ \A n \in 0..N : r[n] = Body(r)[n]
    BY <2>1
  <2>3. ASSUME NEW n \in 1..N PROVE r[n] = After(r[n - 1], events[n])
    <3>1. n \in 0..N /\ n # 0
      BY <1>1
    <3>2. Body(r)[n] = After(r[n - 1], events[n])
      BY <3>1
    <3> QED
      BY <2>2, <3>1, <3>2
  <2>4. r[0] = <<"run">>
    <3>1. 0 \in 0..N
      BY <1>1
    <3> QED
      BY <2>2, <3>1
  <2> HIDE DEF Body
  <2> QED
    BY <2>2, <2>3, <2>4
<1> HIDE DEF r
<1>8. \A n \in 0..N : r[n] \in V
  <2> DEFINE S == {n \in 0..N : r[n] \in V}
  <2>1. 0 \in S
    BY <1>1, <1>7
  <2>2. ASSUME NEW n \in 0..N, n < N, n \in S PROVE n + 1 \in S
    <3>1. n + 1 \in 1..N /\ (n + 1) - 1 = n /\ r[n] \in V
      BY <1>1, <2>2
    <3>2. After(r[n], events[n + 1]) \in V
      BY <1>1, <3>1, AfterType DEF V
    <3>3. r[n + 1] = After(r[n], events[n + 1])
      BY <1>7, <3>1
    <3> QED
      BY <1>1, <3>1, <3>2, <3>3
  <2> HIDE DEF S
  <2>3. \A n \in 0..N : n \in S
    BY <1>1, <2>1, <2>2, UpTo
  <2> QED
    BY <2>3 DEF S
<1> QED
  BY <1>7, <1>8 DEF r, N, V, Nests

\* One more event.
LEMMA ScopesAppend ==
  ASSUME NEW s \in Seq(LogEvent), NEW e \in LogEvent
  PROVE  Scopes(s) \in Seq(Scope) /\ Scopes(Append(s, e)) = After(Scopes(s), e)
<1> DEFINE t == Append(s, e)
           N == Len(s)
           r == Nesting(s)
           q == Nesting(t)
<1>1. /\ t \in Seq(LogEvent) /\ Len(t) = N + 1 /\ t[N + 1] = e /\ N \in Nat
      /\ \A n \in 1..N : t[n] = s[n]
  BY AppendProperties
<1> HIDE DEF t
<1>2. Nests(r, s) /\ Nests(q, t)
  BY <1>1, NestingIs
<1>3. Scopes(s) = r[N] /\ Scopes(t) = q[N + 1]
  BY <1>1, ScopesIs
<1> HIDE DEF r, q
<1> DEFINE S == {n \in 0..N : q[n] = r[n]}
<1>4. 0 \in S
  <2>1. q[0] = <<"run">> /\ r[0] = <<"run">>
    BY <1>2 DEF Nests
  <2>2. 0 \in 0..N
    BY <1>1
  <2> QED
    BY <2>1, <2>2
<1>5. ASSUME NEW n \in 0..N, n < N, n \in S PROVE n + 1 \in S
  <2>1. n + 1 \in 1..N /\ (n + 1) - 1 = n /\ n + 1 \in 0..N /\ n + 1 \in 1..Len(t)
    BY <1>1, <1>5
  <2>2. r[n + 1] = After(r[n], s[n + 1]) /\ q[n + 1] = After(q[n], t[n + 1])
    BY <1>2, <2>1 DEF Nests
  <2> QED
    BY <1>1, <1>5, <2>1, <2>2
<1> HIDE DEF S
<1>6. \A n \in 0..N : n \in S
  BY <1>1, <1>4, <1>5, UpTo
<1>7. q[N] = r[N] /\ r[N] \in Seq(Scope)
  <2>1. N \in 0..N
    BY <1>1
  <2> QED
    BY <1>2, <1>6, <2>1 DEF S, Nests
<1>8. q[N + 1] = After(q[N], e)
  <2>1. N + 1 \in 1..Len(t) /\ (N + 1) - 1 = N
    BY <1>1
  <2> QED
    BY <1>1, <1>2, <2>1 DEF Nests
<1> QED
  BY <1>3, <1>7, <1>8 DEF t

\* Nothing is open before the first event but the run itself.
LEMMA ScopesEmpty == Scopes(<<>>) = <<"run">>
<1>1. <<>> \in Seq(LogEvent) /\ Len(<<>>) = 0
  OBVIOUS
<1>2. Nests(Nesting(<<>>), <<>>)
  BY <1>1, NestingIs
<1> QED
  BY <1>1, <1>2, ScopesIs DEF Nests

\* The top of a stack.
LEMMA PushPop ==
  ASSUME NEW s \in Seq(Scope), NEW x \in Scope
  PROVE  Append(s, x) \in Seq(Scope) /\ Last(Append(s, x)) = x /\ Front(Append(s, x)) = s
<1> DEFINE t == Append(s, x)
           N == Len(s)
<1>1. /\ t \in Seq(Scope) /\ Len(t) = N + 1 /\ t[N + 1] = x /\ N \in Nat
      /\ \A n \in 1..N : t[n] = s[n]
  BY AppendProperties
<1> HIDE DEF t
<1>2. Last(t) = x
  BY <1>1 DEF Last
<1>3. Front(t) \in Seq(Scope) /\ Len(Front(t)) = N /\ \A n \in 1..N : Front(t)[n] = s[n]
  <2>1. Front(t) = SubSeq(t, 1, N)
    BY <1>1 DEF Front
  <2>2. SubSeq(t, 1, N) \in Seq(Scope) /\ Len(SubSeq(t, 1, N)) = N
        /\ \A n \in 1..N : SubSeq(t, 1, N)[n] = t[n]
    BY <1>1
  <2> QED
    BY <1>1, <2>1, <2>2
<1>4. Front(t) = s
  BY <1>3, SeqEqual
<1> QED
  BY <1>1, <1>2, <1>4 DEF t

InRun == <<"run">>
InAgent == Append(InRun, "agent_start")
InTurn == Append(InAgent, "turn_start")
InMessage == Append(InTurn, "message_start")
InTool == Append(InTurn, "tool_start")

StackAt(place) ==
    CASE place = "start" -> InRun
      [] place \in {"calling", "opened", "closing"} -> InAgent
      [] place = "streaming" -> InMessage
      [] place = "tool" -> InTool

\* Where each event leads.
LEMMA Transitions ==
    /\ \A s \in {InRun, InAgent, InTurn, InMessage, InTool} :
          s \in Seq(Scope) /\ Last(s) # "broken"
    /\ \A e \in LogEvent :
          /\ e.event = "agent_start" => After(InRun, e) = InAgent
          /\ e.event = "agent_end" => After(InAgent, e) = InRun
          /\ e.event = "turn_start" => After(InAgent, e) = InTurn
          /\ e.event = "turn_end" => After(InTurn, e) = InAgent
          /\ e.event = "message_start" => After(InTurn, e) = InMessage
          /\ e.event = "message_end" => After(InMessage, e) = InTurn
          /\ e.event = "tool_start" => After(InTurn, e) = InTool
          /\ e.event = "tool_end" => After(InTool, e) = InTurn
          /\ e.event = "follow_up" => After(InRun, e) = InRun
          /\ e.event = "message_failed" =>
                After(InAgent, e) = InAgent /\ After(InMessage, e) = InTurn
<1>0. /\ "run" \in Scope /\ "agent_start" \in Scope /\ "turn_start" \in Scope
      /\ "message_start" \in Scope /\ "tool_start" \in Scope
  BY DEF Scope
<1>1. InRun \in Seq(Scope) /\ Last(InRun) = "run"
  BY <1>0 DEF InRun, Last
<1>2. InAgent \in Seq(Scope) /\ Last(InAgent) = "agent_start" /\ Front(InAgent) = InRun
  BY <1>0, <1>1, PushPop DEF InAgent
<1>3. InTurn \in Seq(Scope) /\ Last(InTurn) = "turn_start" /\ Front(InTurn) = InAgent
  BY <1>0, <1>2, PushPop DEF InTurn
<1>4. InMessage \in Seq(Scope) /\ Last(InMessage) = "message_start" /\ Front(InMessage) = InTurn
  BY <1>0, <1>3, PushPop DEF InMessage
<1>5. InTool \in Seq(Scope) /\ Last(InTool) = "tool_start" /\ Front(InTool) = InTurn
  BY <1>0, <1>3, PushPop DEF InTool
<1> DEFINE s0 == InRun  s1 == InAgent  s2 == InTurn  s3 == InMessage  s4 == InTool
<1>6. /\ s1 = Append(s0, "agent_start") /\ s2 = Append(s1, "turn_start")
      /\ s3 = Append(s2, "message_start") /\ s4 = Append(s2, "tool_start")
  BY DEF InAgent, InTurn, InMessage, InTool
<1>7. ASSUME NEW e \in LogEvent
      PROVE  /\ e.event = "agent_start" => After(s0, e) = s1
             /\ e.event = "turn_start" => After(s1, e) = s2
             /\ e.event = "message_start" => After(s2, e) = s3
             /\ e.event = "tool_start" => After(s2, e) = s4
  BY <1>1, <1>2, <1>3, <1>6 DEF After, Parent
<1>8. ASSUME NEW e \in LogEvent
      PROVE  /\ e.event = "agent_end" => After(s1, e) = s0
             /\ e.event = "turn_end" => After(s2, e) = s1
             /\ e.event = "message_end" => After(s3, e) = s2
             /\ e.event = "tool_end" => After(s4, e) = s2
             /\ e.event = "message_failed" => After(s1, e) = s1 /\ After(s3, e) = s2
  BY <1>2, <1>3, <1>4, <1>5 DEF After, StartOf
<1>9. ASSUME NEW e \in LogEvent
      PROVE  e.event = "follow_up" => After(s0, e) = s0
  BY DEF After, InRun
<1> QED
  BY <1>1, <1>2, <1>3, <1>4, <1>5, <1>7, <1>8, <1>9

-----------------------------------------------------------------------------
(* The inductive invariant.                                                *)

\* Where the task stands decides what is open; a task that is done may have
\* left anything open unless it returned.
Nested ==
    /\ pc # "done" => Scopes(log) = StackAt(pc)
    /\ Last(Scopes(log)) # "broken"
    /\ outcome \in {"completed", "agent_failure"} => Scopes(log) = InRun

IInv == TypeOK /\ Copies /\ Reported /\ Nested /\ StreamsAreClosed

\* The run's first event is still to come.
LEMMA InitInvariant == Init => IInv
<1> SUFFICES ASSUME Init PROVE IInv
  OBVIOUS
<1>1. UserMessage \in Item /\ CommittedItems \in Seq(Item)
  BY AgentLoopAssumption DEF Item
<1>2. Append(CommittedItems, UserMessage) \in Seq(Item)
  BY <1>1
<1>3. <<>> \in Seq(LogEvent) /\ <<>> \in Seq(Execution) /\ <<>> \in Seq(CallId)
  OBVIOUS
<1>4. TypeOK
  <2>1. /\ working \in Seq(Item) /\ log \in Seq(LogEvent) /\ batch \in Seq(Execution)
        /\ executions \in Seq(Execution) /\ calls \in Seq(CallId) /\ runHistory \in Seq(Item)
    BY <1>2, <1>3 DEF Init
  <2>2. /\ typed \in BOOLEAN /\ pc \in Place /\ attempt \in Nat /\ open \in BOOLEAN
        /\ cutOff \in BOOLEAN /\ aborting \in BOOLEAN /\ outcome = "none"
    BY DEF Init, Place
  <2> QED
    BY <2>1, <2>2 DEF TypeOK
<1>5. Copies
  BY DEF Init, Copies
<1>6. Reported
  <2>1. Accepted(log) = <<>> /\ Reminders(log) = <<>> /\ Reports(executions) = <<>>
    BY OnlyEmpty DEF Init, Accepted, Reminders, Reports
  <2> QED
    BY <2>1, AgentLoopAssumption DEF Init, Reported
<1>7. Nested
  <2>1. Scopes(log) = InRun
    BY ScopesEmpty DEF Init, InRun
  <2> QED
    BY <2>1, Transitions DEF Init, Nested, StackAt
<1>8. StreamsAreClosed
  BY DEF Init, StreamsAreClosed
<1> QED
  BY <1>4, <1>5, <1>6, <1>7, <1>8 DEF IInv

\* Start, with a copy of what the run has so far.
LEMMA StartInvariant == ASSUME IInv, Start PROVE IInv'
<1> DEFINE e == Event("agent_start")
<1>0. e \in PlainEvent /\ e \in LogEvent /\ e \notin Replayable /\ e.event = "agent_start"
  BY EventsTyped DEF PlainEvent, Event
<1> HIDE DEF e
<1>1. log' = Append(log, e) /\ working' = working
  <2>1. Emit(<<e>>) /\ log \in Seq(LogEvent) /\ working \in Seq(Item)
    BY DEF Start, IInv, TypeOK, e
  <2> QED
    BY <1>0, <2>1, EmitOne
<1>2. pc = "start" /\ pc' = "calling" /\ runHistory' = working /\ executions' = <<>>
      /\ UNCHANGED <<typed, attempt, open, cutOff, calls, batch, outcome, aborting>>
  BY DEF Start, EnterAttempt, turnVars, At
<1>3. TypeOK'
  BY <1>0, <1>1, <1>2 DEF IInv, TypeOK, Place
<1>4. Copies'
  BY <1>1, <1>2 DEF Copies
<1>5. Reported'
  <2>1. Accepted(log') = Accepted(log) /\ Reminders(log') = Reminders(log)
    BY <1>0, <1>1, LogPlain DEF IInv, TypeOK
  <2>2. Reports(executions') = <<>>
    BY <1>2, OnlyEmpty DEF Reports
  <2>3. Accepted(log)' = Accepted(log') /\ Reminders(log)' = Reminders(log')
        /\ Reports(executions)' = Reports(executions')
    BY DEF Accepted, Reminders, Reports
  <2> QED
    BY <1>2, <2>1, <2>2, <2>3 DEF IInv, Reported
<1>6. Nested'
  <2>1. Scopes(log') = After(Scopes(log), e)
    BY <1>0, <1>1, ScopesAppend DEF IInv, TypeOK
  <2>2. Scopes(log) = InRun /\ After(InRun, e) = InAgent /\ Last(InAgent) # "broken"
    BY <1>0, <1>2, Transitions DEF IInv, Nested, StackAt
  <2> QED
    BY <1>2, <2>1, <2>2 DEF IInv, Nested, StackAt, Reported
<1>7. StreamsAreClosed'
  BY <1>2 DEF IInv, StreamsAreClosed
<1> QED
  BY <1>3, <1>4, <1>5, <1>6, <1>7 DEF IInv

\* A state that differs in what an abort asks for, or not at all.
LEMMA StutterInvariant ==
  ASSUME IInv, aborting' \in BOOLEAN,
         UNCHANGED <<typed, pc, attempt, working, runHistory, turnVars, executions, log, outcome>>
  PROVE  IInv'
<1>1. TypeOK'
  BY DEF IInv, TypeOK, turnVars
<1>2. Copies' /\ StreamsAreClosed'
  BY DEF IInv, Copies, StreamsAreClosed, turnVars
<1>3. Reported'
  BY DEF IInv, Reported, Accepted, Reminders, Reports, turnVars
<1>4. Nested'
  BY DEF IInv, Nested
<1> QED
  BY <1>1, <1>2, <1>3, <1>4 DEF IInv

\* Abort changes nothing but what is asked for.
LEMMA AbortInvariant == ASSUME IInv, Abort PROVE IInv'
  BY StutterInvariant DEF Abort

\* The provider's stream arrives.
LEMMA OpenStreamInvariant == ASSUME IInv, OpenStream PROVE IInv'
<1>0. /\ pc = "calling" /\ pc' = "opened" /\ open' = TRUE
      /\ UNCHANGED <<typed, attempt, working, runHistory, cutOff, calls, batch, executions,
                     log, outcome, aborting>>
  BY DEF OpenStream, At
<1>1. TypeOK'
  BY <1>0 DEF IInv, TypeOK, Place
<1>2. Copies' /\ StreamsAreClosed'
  BY <1>0 DEF IInv, Copies, StreamsAreClosed
<1>3. Reported'
  BY <1>0 DEF IInv, Reported, Accepted, Reminders, Reports
<1>4. Nested'
  BY <1>0 DEF IInv, Nested, StackAt
<1> QED
  BY <1>1, <1>2, <1>3, <1>4 DEF IInv

\* The turn and its message start.
LEMMA StartMessageInvariant == ASSUME IInv, StartMessage PROVE IInv'
<1> DEFINE e == Event("turn_start")
           f == Event("message_start")
<1>0. /\ e \in PlainEvent /\ e \in LogEvent /\ e \notin Replayable /\ e.event = "turn_start"
      /\ f \in PlainEvent /\ f \in LogEvent /\ f.event = "message_start"
  BY EventsTyped DEF PlainEvent, Event
<1> HIDE DEF e, f
<1>1. log' = Append(Append(log, e), f) /\ working' = working
  <2>1. Emit(<<e, f>>) /\ log \in Seq(LogEvent) /\ working \in Seq(Item)
    BY DEF StartMessage, IInv, TypeOK, e, f
  <2> QED
    BY <1>0, <2>1, EmitTwo
<1>2. pc = "opened" /\ pc' = "streaming"
      /\ UNCHANGED <<typed, attempt, runHistory, open, cutOff, calls, batch, executions,
                     outcome, aborting>>
  BY DEF StartMessage, turnVars, At
<1>l. log \in Seq(LogEvent) /\ Append(log, e) \in Seq(LogEvent)
  BY <1>0 DEF IInv, TypeOK
<1>3. TypeOK'
  <2>1. log' \in Seq(LogEvent)
    BY <1>0, <1>1, <1>l
  <2> QED
    BY <1>1, <1>2, <2>1 DEF IInv, TypeOK, Place
<1>4. Copies' /\ StreamsAreClosed'
  BY <1>1, <1>2 DEF IInv, Copies, StreamsAreClosed
<1>5. Reported'
  <2>1. Accepted(log') = Accepted(log) /\ Reminders(log') = Reminders(log)
    BY <1>0, <1>1, <1>l, LogPlain
  <2>3. Accepted(log)' = Accepted(log') /\ Reminders(log)' = Reminders(log')
        /\ Reports(executions)' = Reports(executions)
    BY <1>2 DEF Accepted, Reminders, Reports
  <2> QED
    BY <1>2, <2>1, <2>3 DEF IInv, Reported
<1>6. Nested'
  <2>1. Scopes(log') = After(After(Scopes(log), e), f)
    BY <1>0, <1>1, <1>l, ScopesAppend
  <2>2. Scopes(log) = InAgent
    BY <1>2 DEF IInv, Nested, StackAt
  <2>3. Scopes(log') = InMessage /\ Last(InMessage) # "broken"
    BY <1>0, <2>1, <2>2, Transitions
  <2> QED
    BY <1>2, <2>3 DEF IInv, Nested, StackAt, Reported
<1> QED
  BY <1>3, <1>4, <1>5, <1>6 DEF IInv

\* What NextTool emits, and where it leads.
LEMMA NextToolEmits ==
  ASSUME TypeOK, NEW asked, NEW e \in Replayable, NextTool(asked, <<e>>)
  PROVE  \E f \in PlainEvent :
            /\ log' = Append(Append(log, e), f)
            /\ working' = Append(working, e.item)
            /\ pc' = IF asked = <<>> THEN "closing" ELSE "tool"
            /\ f.event = IF asked = <<>> THEN "turn_end" ELSE "tool_start"
<1> DEFINE f == Event(IF asked = <<>> THEN "turn_end" ELSE "tool_start")
<1>0. /\ e \in LogEvent /\ f \in PlainEvent
      /\ f.event = IF asked = <<>> THEN "turn_end" ELSE "tool_start"
  BY DEF LogEvent, PlainEvent, Event
<1>2. Emit(Append(<<e>>, f)) /\ pc' = IF asked = <<>> THEN "closing" ELSE "tool"
  BY DEF NextTool
<1> HIDE DEF f
<1>1. <<e, f>> = Append(<<e>>, f)
  <2>1. e \in LogEvent /\ f \in LogEvent
    BY <1>0, Classify
  <2>2. <<e>> \in Seq(LogEvent)
    BY <2>1
  <2> QED
    BY <2>1, <2>2
<1>3. Emit(<<e, f>>) /\ log \in Seq(LogEvent) /\ working \in Seq(Item)
  BY <1>1, <1>2 DEF TypeOK
<1>4. log' = Append(Append(log, e), f) /\ working' = Append(working, e.item)
  BY <1>0, <1>3, EmitTwo
<1> QED
  BY <1>0, <1>2, <1>4

\* A turn is complete: what the run has now is what the loop had and the turn.
LEMMA CompleteTurnInvariant ==
  ASSUME IInv, NEW asked \in CallLists, NEW length \in BOOLEAN, CompleteTurn(asked, length)
  PROVE  IInv'
<1> DEFINE e == Carrying("message_end", AssistantTurn(asked))
<1>0. /\ e \in Replayable /\ e \in LogEvent /\ e.event = "message_end"
      /\ e.item = AssistantTurn(asked) /\ AssistantTurn(asked) \in Item
      /\ e \notin Accepting /\ e # Reminder
  <2>1. AssistantTurn(asked) \in Item
    BY DEF Item
  <2> QED
    BY <2>1, EventsTyped, Classify DEF Carrying
<1> HIDE DEF e
<1>1. /\ pc = "streaming" /\ cutOff' = length /\ calls' = asked /\ batch' = <<>>
      /\ NextTool(asked, <<e>>)
      /\ UNCHANGED <<typed, attempt, runHistory, open, executions, outcome, aborting>>
  BY DEF CompleteTurn, At, e
<1>2. PICK f \in PlainEvent :
            /\ log' = Append(Append(log, e), f)
            /\ working' = Append(working, e.item)
            /\ pc' = IF asked = <<>> THEN "closing" ELSE "tool"
            /\ f.event = IF asked = <<>> THEN "turn_end" ELSE "tool_start"
  <2>1. TypeOK
    BY DEF IInv
  <2> QED
    BY <1>0, <1>1, <2>1, NextToolEmits
<1>l. /\ log \in Seq(LogEvent) /\ Append(log, e) \in Seq(LogEvent)
      /\ f \in LogEvent /\ log' \in Seq(LogEvent)
  BY <1>0, <1>2, Classify DEF IInv, TypeOK
<1>3. TypeOK'
  <2>1. working' \in Seq(Item)
    BY <1>0, <1>2 DEF IInv, TypeOK
  <2>2. asked \in Seq(CallId) /\ <<>> \in Seq(Execution)
    BY AgentLoopAssumption
  <2>3. pc' \in Place
    BY <1>2 DEF Place
  <2> QED
    BY <1>1, <1>l, <2>1, <2>2, <2>3 DEF IInv, TypeOK
<1>4. Copies'
  <2>1. CallsIn(<<>>) = <<>> /\ ResultsIn(<<>>) = <<>>
    BY DEF CallsIn, ResultsIn
  <2>2. <<>> \o asked = asked
    BY AgentLoopAssumption, ConcatEmptySeq
  <2>3. runHistory = working /\ working \in Seq(Item)
    BY <1>1 DEF IInv, Copies, TypeOK
  <2>4. working' = Append(runHistory, AssistantTurn(asked)) /\ working' \in Seq(Item)
    BY <1>0, <1>2, <2>3
  <2>5. working' \o <<>> = working'
    BY <2>4, ConcatEmptySeq
  <2>6. /\ CallsIn(batch)' = <<>> /\ ResultsIn(batch)' = <<>> /\ runHistory' = runHistory
        /\ calls' = asked
    BY <1>1, <2>1 DEF CallsIn, ResultsIn
  <2>7. working' = Append(runHistory', AssistantTurn(CallsIn(batch)' \o calls')) \o ResultsIn(batch)'
    BY <2>2, <2>4, <2>5, <2>6
  <2> QED
    BY <1>2, <2>6, <2>7 DEF Copies
<1>5. StreamsAreClosed'
  BY <1>1, <1>2 DEF StreamsAreClosed
<1>6. Reported'
  <2>1. Accepted(log') = Accepted(log) /\ Reminders(log') = Reminders(log)
    <3> DEFINE s == Append(log, e)
    <3>1. s \in Seq(LogEvent) /\ log' = Append(s, f)
      BY <1>2, <1>l
    <3>2. Accepted(s) = Accepted(log) /\ Reminders(s) = Reminders(log)
      BY <1>0, <1>l, LogAppend
    <3> HIDE DEF s
    <3>3. Accepted(Append(s, f)) = Accepted(s) /\ Reminders(Append(s, f)) = Reminders(s)
      BY <3>1, LogPlain
    <3> QED
      BY <3>1, <3>2, <3>3
  <2>2. Reports(<<>>) = <<>>
    BY OnlyEmpty DEF Reports
  <2>3. /\ Accepted(log)' = Accepted(log') /\ Reminders(log)' = Reminders(log')
        /\ Reports(executions)' = Reports(executions) /\ Reports(batch)' = Reports(<<>>)
    BY <1>1 DEF Accepted, Reminders, Reports
  <2>4. Accepted(log) = <<>>
    BY <1>1 DEF IInv, Reported
  <2>5. SameHead(Accepted(log'), Reports(<<>>))
    BY <2>1, <2>2, <2>4 DEF SameHead
  <2>6. SameHead(Accepted(log), Reports(batch))'
    BY <2>3, <2>5 DEF SameHead
  <2> QED
    BY <1>1, <1>2, <2>1, <2>3, <2>6 DEF IInv, Reported
<1>7. Nested'
  <2>1. Scopes(log') = After(After(Scopes(log), e), f)
    BY <1>0, <1>2, <1>l, ScopesAppend
  <2>2. Scopes(log) = InMessage
    BY <1>1 DEF IInv, Nested, StackAt
  <2>3. After(Scopes(log), e) = InTurn
    BY <1>0, <2>2, Transitions
  <2>4. Scopes(log') = IF asked = <<>> THEN InAgent ELSE InTool
    BY <1>2, <1>l, <2>1, <2>3, Transitions
  <2>5. Scopes(log') = StackAt(pc') /\ Last(Scopes(log')) # "broken"
    BY <1>2, <2>4, Transitions DEF StackAt
  <2> QED
    BY <1>1, <1>2, <2>5 DEF IInv, Nested, Reported
<1> QED
  BY <1>3, <1>4, <1>5, <1>6, <1>7 DEF IInv

\* A tool call is answered: both copies of the turn grow.
LEMMA EndToolInvariant ==
  ASSUME IInv, NEW effect \in Effect, EndTool(effect)
  PROVE  IInv'
<1> DEFINE call == Head(calls)
           e == ToolEnd(call, effect)
           x == [call |-> call, effect |-> effect]
<1>0. /\ pc = "tool" /\ calls' = Tail(calls) /\ batch' = Append(batch, x)
      /\ NextTool(Tail(calls), <<e>>)
      /\ UNCHANGED <<typed, attempt, runHistory, open, cutOff, executions, outcome, aborting>>
  BY DEF EndTool, At
<1>1. calls # <<>> /\ calls \in Seq(CallId) /\ call \in CallId /\ Tail(calls) \in Seq(CallId)
      /\ calls = <<call>> \o Tail(calls)
  <2>1. calls # <<>> /\ calls \in Seq(CallId)
    BY <1>0 DEF IInv, Copies, TypeOK
  <2> QED
    BY <2>1
<1>2. effect \in Effects
  BY DEF Effect, Effects
<1>3. x \in Execution /\ x.call = call /\ x.effect = effect
  BY <1>1, <1>2 DEF Execution
<1>4. /\ e \in Replayable /\ e \in LogEvent /\ e.event = "tool_end" /\ e # Reminder
      /\ e.item = ToolResult(call, effect = "error")
      /\ ToolResult(call, effect = "error") \in Item
  <2>1. e.event = "tool_end" /\ e.item = ToolResult(call, effect = "error")
    BY DEF ToolEnd
  <2> QED
    BY <1>1, <1>2, <2>1, EventsTyped, Classify, ResultIsItem DEF LogEvent
<1> HIDE DEF e, x, call
<1>5. PICK f \in PlainEvent :
            /\ log' = Append(Append(log, e), f)
            /\ working' = Append(working, e.item)
            /\ pc' = IF Tail(calls) = <<>> THEN "closing" ELSE "tool"
            /\ f.event = IF Tail(calls) = <<>> THEN "turn_end" ELSE "tool_start"
  <2>1. TypeOK
    BY DEF IInv
  <2> QED
    BY <1>0, <1>4, <2>1, NextToolEmits
<1>l. /\ log \in Seq(LogEvent) /\ Append(log, e) \in Seq(LogEvent)
      /\ f \in LogEvent /\ log' \in Seq(LogEvent)
  BY <1>4, <1>5, Classify DEF IInv, TypeOK
<1>6. TypeOK'
  <2>1. working' \in Seq(Item)
    BY <1>4, <1>5 DEF IInv, TypeOK
  <2>2. batch' \in Seq(Execution)
    BY <1>0, <1>3 DEF IInv, TypeOK
  <2>3. pc' \in Place
    BY <1>5 DEF Place
  <2> QED
    BY <1>0, <1>1, <1>l, <2>1, <2>2, <2>3 DEF IInv, TypeOK
<1>7. Copies'
  <2>0. batch \in Seq(Execution)
    BY DEF IInv, TypeOK
  <2>1. /\ CallsIn(batch) \in Seq(CallId) /\ CallsIn(batch') = Append(CallsIn(batch), call)
        /\ ResultsIn(batch) \in Seq(Item)
        /\ ResultsIn(batch') = Append(ResultsIn(batch), e.item)
    BY <1>0, <1>3, <1>4, <2>0, BatchType, BatchAppend
  <2>2. CallsIn(batch') \o Tail(calls) = CallsIn(batch) \o calls
    <3>1. Append(CallsIn(batch), call) \o Tail(calls)
             = CallsIn(batch) \o (<<call>> \o Tail(calls))
      <4>1. <<call>> \in Seq(CallId)
        BY <1>1
      <4>2. Append(CallsIn(batch), call) = CallsIn(batch) \o <<call>>
        BY <1>1, <2>1, AppendIsConcat
      <4> QED
        BY <1>1, <2>1, <4>1, <4>2, ConcatAssociative
    <3> QED
      BY <1>1, <2>1, <3>1
  <2> DEFINE turn == AssistantTurn(CallsIn(batch) \o calls)
             before == Append(runHistory, turn)
  <2>3. working = before \o ResultsIn(batch)
    BY <1>0 DEF IInv, Copies
  <2>4. runHistory \in Seq(Item)
    BY DEF IInv, TypeOK
  <2> HIDE DEF turn
  <2>5. working' = before \o ResultsIn(batch')
    <3> DEFINE U == Item \cup {turn}
    <3>1. runHistory \in Seq(U) /\ turn \in U /\ ResultsIn(batch) \in Seq(U) /\ e.item \in U
      BY <1>4, <2>1, <2>4
    <3> HIDE DEF U
    <3>2. before \in Seq(U)
      BY <3>1
    <3> HIDE DEF before
    <3>3. before \o Append(ResultsIn(batch), e.item) = Append(before \o ResultsIn(batch), e.item)
      BY <3>1, <3>2, ConcatAppends
    <3> QED
      BY <1>5, <2>1, <2>3, <3>3
  <2>6. CallsIn(batch)' = CallsIn(batch') /\ ResultsIn(batch)' = ResultsIn(batch')
        /\ runHistory' = runHistory /\ calls' = Tail(calls)
    BY <1>0 DEF CallsIn, ResultsIn
  <2>7. working' = Append(runHistory', AssistantTurn(CallsIn(batch)' \o calls')) \o ResultsIn(batch)'
    BY <2>2, <2>5, <2>6 DEF turn
  <2> QED
    BY <1>5, <2>6, <2>7 DEF Copies
<1>8. StreamsAreClosed'
  BY <1>5 DEF StreamsAreClosed
<1>9. Reported'
  <2>1. Accepted(log') = Accepted(Append(log, e)) /\ Reminders(log') = Reminders(log)
    <3> DEFINE s == Append(log, e)
    <3>1. s \in Seq(LogEvent) /\ log' = Append(s, f)
      BY <1>5, <1>l
    <3>2. Reminders(s) = Reminders(log)
      BY <1>4, <1>l, LogAppend
    <3> HIDE DEF s
    <3>3. Accepted(Append(s, f)) = Accepted(s) /\ Reminders(Append(s, f)) = Reminders(s)
      BY <3>1, LogPlain
    <3> QED
      BY <3>1, <3>2, <3>3 DEF s
  <2>2. SameHead(Accepted(log), Reports(batch)) /\ batch \in Seq(Execution)
    BY <1>0 DEF IInv, Reported, TypeOK
  <2>3. SameHead(Accepted(Append(log, e)), Reports(batch'))
    BY <1>0, <1>1, <1>2, <1>l, <2>2, SameHeadAppend DEF x, e
  <2>4. /\ Accepted(log)' = Accepted(log') /\ Reminders(log)' = Reminders(log')
        /\ Reports(executions)' = Reports(executions) /\ Reports(batch)' = Reports(batch')
    BY <1>0 DEF Accepted, Reminders, Reports
  <2>5. SameHead(Accepted(log), Reports(batch))'
    BY <2>1, <2>3, <2>4 DEF SameHead
  <2> QED
    BY <1>0, <1>5, <2>1, <2>4, <2>5 DEF IInv, Reported
<1>10. Nested'
  <2>1. Scopes(log') = After(After(Scopes(log), e), f)
    BY <1>4, <1>5, <1>l, ScopesAppend
  <2>2. Scopes(log) = InTool
    BY <1>0 DEF IInv, Nested, StackAt
  <2>3. After(Scopes(log), e) = InTurn
    BY <1>4, <2>2, Transitions
  <2>4. Scopes(log') = IF Tail(calls) = <<>> THEN InAgent ELSE InTool
    BY <1>5, <1>l, <2>1, <2>3, Transitions
  <2>5. Scopes(log') = StackAt(pc') /\ Last(Scopes(log')) # "broken"
    BY <1>5, <2>4, Transitions DEF StackAt
  <2> QED
    BY <1>0, <1>5, <2>5 DEF IInv, Nested, Reported
<1> QED
  BY <1>6, <1>7, <1>8, <1>9, <1>10 DEF IInv

\* No execution that ends the loop is a report.
LEMMA ContinuingBatch ==
  ASSUME batch \in Seq(Execution), ShouldContinue
  PROVE  Reports(batch) = <<>>
<1>1. \A i \in DOMAIN batch : batch[i].effect \notin {"stop", "complete", "fail"}
  BY DEF ShouldContinue, Terminates
<1>2. ToSet(batch) \cap Report = {}
  BY <1>1 DEF ToSet, Report
<1> QED
  BY <1>2, OnlyAllOrNone DEF Reports

\* The loop adds the turn to its own copy.
LEMMA ContinueLoopInvariant == ASSUME IInv, ContinueLoop PROVE IInv'
<1>0. /\ pc = "closing" /\ ShouldContinue /\ pc' = "calling" /\ open' = FALSE
      /\ runHistory' = runHistory \o TurnItems
      /\ executions' = executions \o batch
      /\ UNCHANGED <<typed, attempt, working, cutOff, calls, batch, log, outcome, aborting>>
  BY DEF ContinueLoop, At
<1>1. calls = <<>> /\ batch \in Seq(Execution) /\ executions \in Seq(Execution)
      /\ runHistory \in Seq(Item) /\ working \in Seq(Item)
  BY <1>0 DEF IInv, Copies, TypeOK
<1>2. runHistory' = working
  <2> DEFINE turn == AssistantTurn(CallsIn(batch))
             U == Item \cup {turn}
  <2>1. TurnItems = <<turn>> \o ResultsIn(batch)
    BY DEF TurnItems, CallsIn, ResultsIn
  <2>2. CallsIn(batch) \in Seq(CallId) /\ ResultsIn(batch) \in Seq(Item)
    BY <1>1, BatchType
  <2>3. CallsIn(batch) \o calls = CallsIn(batch)
    BY <1>1, <2>2, ConcatEmptySeq
  <2>4. working = Append(runHistory, turn) \o ResultsIn(batch)
    BY <1>0, <2>3 DEF IInv, Copies
  <2>5. runHistory \in Seq(U) /\ turn \in U /\ ResultsIn(batch) \in Seq(U)
    BY <1>1, <2>2
  <2> HIDE DEF turn, U
  <2>6. <<turn>> \in Seq(U) /\ Append(runHistory, turn) = runHistory \o <<turn>>
    BY <2>5, AppendIsConcat
  <2>7. (runHistory \o <<turn>>) \o ResultsIn(batch) = runHistory \o (<<turn>> \o ResultsIn(batch))
    BY <2>5, <2>6, ConcatAssociative
  <2> QED
    BY <1>0, <2>1, <2>4, <2>6, <2>7
<1>3. TypeOK'
  <2>1. executions' \in Seq(Execution)
    BY <1>0, <1>1
  <2> QED
    BY <1>0, <1>1, <1>2, <2>1 DEF IInv, TypeOK, Place
<1>4. Copies' /\ StreamsAreClosed'
  BY <1>0, <1>2 DEF Copies, StreamsAreClosed
<1>5. Reported'
  <2>1. Reports(batch) = <<>>
    BY <1>0, <1>1, ContinuingBatch
  <2>2. Reports(executions) = <<>> /\ SameHead(Accepted(log), Reports(batch))
    BY <1>0 DEF IInv, Reported
  <2>3. Reports(executions') = Reports(executions) \o Reports(batch)
    BY <1>0, <1>1, OnlyConcat DEF Reports
  <2>4. Reports(executions') = <<>>
    BY <2>1, <2>2, <2>3
  <2>5. Accepted(log) = <<>>
    BY <2>1, <2>2 DEF SameHead
  <2>6. /\ Accepted(log)' = Accepted(log) /\ Reminders(log)' = Reminders(log)
        /\ Reports(executions)' = Reports(executions')
    BY <1>0 DEF Accepted, Reminders, Reports
  <2> QED
    BY <1>0, <2>4, <2>5, <2>6 DEF IInv, Reported
<1>6. Nested'
  BY <1>0 DEF IInv, Nested, StackAt
<1> QED
  BY <1>3, <1>4, <1>5, <1>6 DEF IInv

\* What the loop hands over when an attempt ends: nothing stays open, and the log
\* reports what the batch did.
LEMMA AttemptEnds ==
  ASSUME IInv, EndsAttempt
  PROVE  /\ pc = "closing" /\ Scopes(log) = InAgent
         /\ SameHead(Accepted(log), Reports(executions \o batch))
         /\ UNCHANGED <<typed, cutOff, calls, batch, aborting>>
<1>0. pc = "closing" /\ UNCHANGED <<typed, cutOff, calls, batch, aborting>>
  BY DEF EndsAttempt, At
<1>1. executions \in Seq(Execution) /\ batch \in Seq(Execution)
  BY DEF IInv, TypeOK
<1>2. Reports(executions) = <<>> /\ SameHead(Accepted(log), Reports(batch))
  BY <1>0 DEF IInv, Reported
<1>3. Reports(executions \o batch) = Reports(executions) \o Reports(batch)
  BY <1>1, OnlyConcat DEF Reports
<1>4. Reports(batch) \in Seq(Execution \cap Report)
  BY <1>1, OnlyType DEF Reports
<1>5. Reports(executions \o batch) = Reports(batch)
  BY <1>2, <1>3, <1>4, ConcatEmptySeq
<1>6. Scopes(log) = InAgent
  BY <1>0 DEF IInv, Nested, StackAt
<1> QED
  BY <1>0, <1>2, <1>5, <1>6

\* What a report list concludes, in the words of the invariant.
LEMMA ConclusionIs ==
  ASSUME NEW s \in Seq(Execution)
  PROVE  /\ ResultOutcome(s) = "none" <=> Reports(s) = <<>>
         /\ ResultOutcome(s) = "completed" =>
               Reports(s) # <<>> /\ Head(Reports(s)).effect = "complete"
         /\ ResultOutcome(s) = "agent_failure" =>
               Reports(s) # <<>> /\ Head(Reports(s)).effect = "fail"
         /\ ResultOutcome(s) \in {"none", "completed", "agent_failure"}
<1>1. Reports(s) \in Seq(Execution \cap Report)
  BY OnlyType DEF Reports
<1>2. Reports(s) # <<>> => Head(Reports(s)) \in Execution \cap Report
  BY <1>1
<1>3. \A x \in Report : x.effect \in {"complete", "fail"}
  BY DEF Report
<1>4. ResultOutcome(s) = IF Reports(s) = <<>> THEN "none"
                         ELSE IF Head(Reports(s)).effect = "complete" THEN "completed"
                         ELSE "agent_failure"
  BY DEF ResultOutcome, Reports
<1> HIDE DEF Reports
<1> QED
  BY <1>2, <1>3, <1>4

\* The end of an attempt and of the task with it.
LEMMA EndEvent ==
  ASSUME IInv, Scopes(log) = InAgent, Emit(<<Event("agent_end")>>)
  PROVE  /\ log' \in Seq(LogEvent) /\ working' = working
         /\ Accepted(log)' = Accepted(log) /\ Reminders(log)' = Reminders(log)
         /\ Scopes(log)' = InRun
<1> DEFINE e == Event("agent_end")
<1>0. e \in PlainEvent /\ e \in LogEvent /\ e \notin Replayable /\ e.event = "agent_end"
  BY EventsTyped DEF PlainEvent, Event
<1> HIDE DEF e
<1>1. log \in Seq(LogEvent) /\ working \in Seq(Item) /\ Emit(<<e>>)
  BY DEF IInv, TypeOK, e
<1>2. log' = Append(log, e) /\ working' = working
  BY <1>0, <1>1, EmitOne
<1>3. Accepted(log') = Accepted(log) /\ Reminders(log') = Reminders(log)
      /\ log' \in Seq(LogEvent)
  BY <1>0, <1>1, <1>2, LogPlain
<1>4. Scopes(log') = After(Scopes(log), e)
  BY <1>0, <1>1, <1>2, ScopesAppend
<1>5. Scopes(log') = InRun
  BY <1>0, <1>4, Transitions
<1>6. Scopes(log)' = Scopes(log') /\ Accepted(log)' = Accepted(log')
      /\ Reminders(log)' = Reminders(log')
  BY DEF Accepted, Reminders
<1> QED
  BY <1>2, <1>3, <1>5, <1>6

\* A plain prompt is answered by its text, a typed one by its first report.
LEMMA ConcludeInvariant == ASSUME IInv, Conclude PROVE IInv'
<1> DEFINE all == executions \o batch
<1>0. /\ EndsAttempt /\ Conclusion # "none" /\ pc' = "done" /\ outcome' = Conclusion
      /\ open' = FALSE /\ Emit(<<Event("agent_end")>>)
      /\ UNCHANGED <<attempt, runHistory, executions>>
  BY DEF Conclude, Done
<1>1. /\ pc = "closing" /\ Scopes(log) = InAgent /\ SameHead(Accepted(log), Reports(all))
      /\ UNCHANGED <<typed, cutOff, calls, batch, aborting>>
  BY <1>0, AttemptEnds
<1>2. /\ log' \in Seq(LogEvent) /\ working' = working
      /\ Accepted(log)' = Accepted(log) /\ Reminders(log)' = Reminders(log)
      /\ Scopes(log)' = InRun
  BY <1>0, <1>1, EndEvent
<1>3. all \in Seq(Execution)
  BY DEF IInv, TypeOK
<1>4. Conclusion = IF typed THEN ResultOutcome(all) ELSE "completed"
  BY DEF Conclusion
<1> HIDE DEF all
<1>5. /\ outcome' \in {"completed", "agent_failure"}
      /\ typed /\ outcome' = "completed" =>
            Accepted(log) # <<>> /\ Head(Accepted(log)).effect = "complete"
      /\ outcome' = "agent_failure" =>
            Accepted(log) # <<>> /\ Head(Accepted(log)).effect = "fail"
  <2>1. CASE ~typed
    BY <1>0, <1>4, <2>1
  <2>2. CASE typed
    BY <1>0, <1>1, <1>3, <1>4, <2>2, ConclusionIs DEF SameHead
  <2> QED
    BY <2>1, <2>2
<1>6. TypeOK'
  BY <1>0, <1>1, <1>2, <1>5 DEF IInv, TypeOK, Place
<1>7. Copies' /\ StreamsAreClosed'
  BY <1>0 DEF Copies, StreamsAreClosed
<1>8. Reported'
  BY <1>0, <1>1, <1>2, <1>5 DEF IInv, Reported
<1>9. Nested'
  BY <1>0, <1>2, Transitions DEF Nested
<1> QED
  BY <1>6, <1>7, <1>8, <1>9 DEF IInv

\* A typed prompt without a report after its last reminder fails.
LEMMA GiveUpInvariant == ASSUME IInv, GiveUp PROVE IInv'
<1> DEFINE all == executions \o batch
<1>0. /\ EndsAttempt /\ Conclusion = "none" /\ ~MayFollowUp /\ pc' = "done"
      /\ outcome' = "agent_failure"
      /\ open' = FALSE /\ Emit(<<Event("agent_end")>>)
      /\ UNCHANGED <<attempt, runHistory, executions>>
  BY DEF GiveUp, Done
<1>1. /\ pc = "closing" /\ Scopes(log) = InAgent /\ SameHead(Accepted(log), Reports(all))
      /\ UNCHANGED <<typed, cutOff, calls, batch, aborting>>
  BY <1>0, AttemptEnds
<1>2. /\ log' \in Seq(LogEvent) /\ working' = working
      /\ Accepted(log)' = Accepted(log) /\ Reminders(log)' = Reminders(log)
      /\ Scopes(log)' = InRun
  BY <1>0, <1>1, EndEvent
<1>3. all \in Seq(Execution)
  BY DEF IInv, TypeOK
<1>4. Conclusion = IF typed THEN ResultOutcome(all) ELSE "completed"
  BY DEF Conclusion
<1> HIDE DEF all
<1>5. typed /\ Accepted(log) = <<>>
  BY <1>0, <1>1, <1>3, <1>4, ConclusionIs DEF SameHead
<1>6. attempt = MaxFollowUps
  <2>1. attempt \in Nat /\ attempt <= MaxFollowUps /\ ~(attempt < MaxFollowUps)
    BY <1>0 DEF IInv, TypeOK, Reported, MayFollowUp
  <2> QED
    BY <2>1, AgentLoopAssumption
<1>7. TypeOK'
  BY <1>0, <1>1, <1>2 DEF IInv, TypeOK, Place
<1>8. Copies' /\ StreamsAreClosed'
  BY <1>0 DEF Copies, StreamsAreClosed
<1>9. Reported'
  BY <1>0, <1>1, <1>2, <1>5, <1>6 DEF IInv, Reported
<1>10. Nested'
  BY <1>0, <1>2, Transitions DEF Nested
<1> QED
  BY <1>7, <1>8, <1>9, <1>10 DEF IInv

\* A reminder, and the next attempt with a copy of all the run has.
LEMMA FollowUpInvariant == ASSUME IInv, FollowUp PROVE IInv'
<1> DEFINE all == executions \o batch
           a == Event("agent_end")
           b == Reminder
           c == Event("agent_start")
           la == Append(log, a)
           lb == Append(la, b)
<1>0. /\ EndsAttempt /\ Conclusion = "none" /\ MayFollowUp /\ attempt' = attempt + 1
      /\ pc' = "calling" /\ open' = FALSE /\ outcome' = outcome /\ executions' = <<>>
      /\ Emit(<<a, b, c>>) /\ runHistory' = working \o Items(<<a, b, c>>)
  BY DEF FollowUp, EnterAttempt, Reminder
<1>1. /\ pc = "closing" /\ Scopes(log) = InAgent /\ SameHead(Accepted(log), Reports(all))
      /\ UNCHANGED <<typed, cutOff, calls, batch, aborting>>
  BY <1>0, AttemptEnds
<1>2. /\ log \in Seq(LogEvent) /\ working \in Seq(Item) /\ attempt \in Nat
      /\ all \in Seq(Execution)
  BY DEF IInv, TypeOK
<1>3. /\ log' = Append(lb, c) /\ working' = Append(working, UserMessage)
      /\ runHistory' = working'
  BY <1>0, <1>2, EmitReminder
<1>4. /\ a \in PlainEvent /\ a \in LogEvent /\ a.event = "agent_end"
      /\ c \in PlainEvent /\ c \in LogEvent /\ c.event = "agent_start"
      /\ b \in LogEvent /\ b.event = "follow_up" /\ b \notin Accepting /\ b = Reminder
      /\ UserMessage \in Item
  <2>1. UserMessage \in Item
    BY DEF Item
  <2>2. b.event = "follow_up"
    BY DEF Reminder, Carrying
  <2> QED
    BY <2>1, <2>2, EventsTyped, Classify DEF PlainEvent, Event
<1>5. Conclusion = IF typed THEN ResultOutcome(all) ELSE "completed"
  BY DEF Conclusion
<1> HIDE DEF all, a, b, c
<1>6. la \in Seq(LogEvent) /\ lb \in Seq(LogEvent) /\ log' \in Seq(LogEvent)
  BY <1>2, <1>3, <1>4
<1> HIDE DEF la, lb
<1>7. typed /\ Accepted(log) = <<>>
  BY <1>0, <1>1, <1>2, <1>5, ConclusionIs DEF SameHead
<1>8. TypeOK'
  <2>1. <<>> \in Seq(Execution) /\ working' \in Seq(Item) /\ attempt' \in Nat
    BY <1>0, <1>2, <1>3, <1>4
  <2> QED
    BY <1>0, <1>1, <1>3, <1>6, <2>1 DEF IInv, TypeOK, Place
<1>9. Copies' /\ StreamsAreClosed'
  BY <1>0, <1>3 DEF Copies, StreamsAreClosed
<1>10. Reported'
  <2>1. Accepted(la) = Accepted(log) /\ Reminders(la) = Reminders(log)
    BY <1>2, <1>4, LogPlain DEF la
  <2>2. /\ Accepted(lb) = Accepted(la) /\ Reminders(lb) = Append(Reminders(la), b)
        /\ Reminders(la) \in Seq({Reminder})
    BY <1>4, <1>6, LogAppend DEF lb
  <2>3. Accepted(log') = Accepted(lb) /\ Reminders(log') = Reminders(lb)
    BY <1>3, <1>4, <1>6, LogPlain
  <2>4. Len(Reminders(log')) = Len(Reminders(log)) + 1
    BY <1>4, <2>1, <2>2, <2>3
  <2>5. Accepted(log') = <<>>
    BY <1>7, <2>1, <2>2, <2>3
  <2>6. Reports(executions') = <<>>
    BY <1>0, OnlyEmpty DEF Reports
  <2>7. /\ Accepted(log)' = Accepted(log') /\ Reminders(log)' = Reminders(log')
        /\ Reports(executions)' = Reports(executions')
    BY DEF Accepted, Reminders, Reports
  <2>8. attempt' <= MaxFollowUps /\ Len(Reminders(log)) = attempt
    <3>1. attempt < MaxFollowUps /\ Len(Reminders(log)) = attempt
      BY <1>0 DEF IInv, Reported, MayFollowUp
    <3> QED
      BY <1>0, <1>2, <3>1, AgentLoopAssumption
  <2>9. outcome' = "none"
    BY <1>0, <1>1 DEF IInv, Reported
  <2> QED
    BY <1>0, <2>4, <2>5, <2>6, <2>7, <2>8, <2>9 DEF Reported
<1>11. Nested'
  <2>1. /\ Scopes(la) = After(Scopes(log), a) /\ Scopes(lb) = After(Scopes(la), b)
        /\ Scopes(log') = After(Scopes(lb), c)
    <3>1. Scopes(la) = After(Scopes(log), a)
      BY <1>2, <1>4, ScopesAppend DEF la
    <3>2. Scopes(lb) = After(Scopes(la), b)
      BY <1>4, <1>6, ScopesAppend DEF lb
    <3>3. Scopes(log') = After(Scopes(lb), c)
      BY <1>3, <1>4, <1>6, ScopesAppend
    <3> QED
      BY <3>1, <3>2, <3>3
  <2>2. Scopes(la) = InRun
    BY <1>1, <1>4, <2>1, Transitions
  <2>3. Scopes(lb) = InRun
    BY <1>4, <2>1, <2>2, Transitions
  <2>4. Scopes(log') = InAgent
    BY <1>4, <2>1, <2>3, Transitions
  <2>5. outcome' = "none"
    BY <1>0, <1>1 DEF IInv, Reported
  <2> QED
    BY <1>0, <2>4, <2>5, Transitions DEF Nested, StackAt
<1> QED
  BY <1>8, <1>9, <1>10, <1>11 DEF IInv

\* An end that is no answer, with no event.
LEMMA EndSilently ==
  ASSUME IInv, pc # "done", NEW result \in {"aborted", "execution_failure"}, Done(result),
         UNCHANGED <<typed, attempt, working, runHistory, cutOff, calls, batch, executions, log,
                     aborting>>
  PROVE  IInv'
<1>0. pc' = "done" /\ outcome' = result /\ open' = FALSE
  BY DEF Done
<1>1. TypeOK'
  BY <1>0 DEF IInv, TypeOK, Place
<1>2. Copies' /\ StreamsAreClosed'
  BY <1>0 DEF Copies, StreamsAreClosed
<1>3. Reported'
  BY <1>0 DEF IInv, Reported, Accepted, Reminders, Reports
<1>4. Nested'
  BY <1>0 DEF IInv, Nested
<1> QED
  BY <1>1, <1>2, <1>3, <1>4 DEF IInv

\* Anything raised, but by a tool.
LEMMA RaiseInvariant == ASSUME IInv, Raise PROVE IInv'
  BY EndSilently DEF Raise

\* A cancellation has left the program.
LEMMA UnwindInvariant == ASSUME IInv, Unwind PROVE IInv'
<1>1. PICK result \in {"aborted", "execution_failure"} : Done(result)
  BY DEF Unwind
<1> QED
  BY <1>1, EndSilently DEF Unwind

\* A stream failed, before its message started or in it.
LEMMA FailTurnInvariant == ASSUME IInv, FailTurn PROVE IInv'
<1> DEFINE e == Event("message_failed")
<1>0. /\ e \in PlainEvent /\ e \in LogEvent /\ e \notin Replayable
      /\ e.event = "message_failed"
  BY EventsTyped DEF PlainEvent, Event
<1>1. /\ pc \in {"opened", "streaming"} /\ pc' = "done" /\ outcome' = "execution_failure"
      /\ open' = FALSE /\ Emit(<<e>>)
      /\ UNCHANGED <<typed, attempt, runHistory, cutOff, calls, batch, executions, aborting>>
  BY DEF FailTurn, Done, At
<1> HIDE DEF e
<1>2. log \in Seq(LogEvent) /\ working \in Seq(Item)
  BY DEF IInv, TypeOK
<1>3. log' = Append(log, e) /\ working' = working
  BY <1>0, <1>1, <1>2, EmitOne
<1>4. log' \in Seq(LogEvent)
  BY <1>0, <1>2, <1>3
<1>5. TypeOK'
  BY <1>1, <1>3, <1>4 DEF IInv, TypeOK, Place
<1>6. Copies' /\ StreamsAreClosed'
  BY <1>1 DEF Copies, StreamsAreClosed
<1>7. Reported'
  <2>1. Accepted(log') = Accepted(log) /\ Reminders(log') = Reminders(log)
    BY <1>0, <1>2, <1>3, LogPlain
  <2>2. Accepted(log)' = Accepted(log') /\ Reminders(log)' = Reminders(log')
    BY DEF Accepted, Reminders
  <2> QED
    BY <1>1, <2>1, <2>2 DEF IInv, Reported
<1>8. Nested'
  <2>1. Scopes(log') = After(Scopes(log), e)
    BY <1>0, <1>2, <1>3, ScopesAppend
  <2>2. Scopes(log) \in {InAgent, InMessage}
    BY <1>1 DEF IInv, Nested, StackAt
  <2>3. Scopes(log') \in {InAgent, InTurn}
    BY <1>0, <2>1, <2>2, Transitions
  <2>4. Last(Scopes(log')) # "broken"
    BY <2>3, Transitions
  <2> QED
    BY <1>1, <2>4 DEF Nested
<1> QED
  BY <1>5, <1>6, <1>7, <1>8 DEF IInv

\* Every step preserves the invariant.
LEMMA StepInvariant == IInv /\ [Next]_vars => IInv'
<1> SUFFICES ASSUME IInv, [Next]_vars PROVE IInv'
  OBVIOUS
<1>1. CASE UNCHANGED vars
  <2>1. aborting' \in BOOLEAN
    BY <1>1 DEF vars, IInv, TypeOK
  <2> QED
    BY <1>1, <2>1, StutterInvariant DEF vars
<1>2. CASE Next
  <2>1. CASE Start
    BY <2>1, StartInvariant
  <2>2. CASE OpenStream
    BY <2>2, OpenStreamInvariant
  <2>3. CASE StartMessage
    BY <2>3, StartMessageInvariant
  <2>4. ASSUME NEW asked \in CallLists, NEW length \in BOOLEAN, CompleteTurn(asked, length)
        PROVE  IInv'
    BY <2>4, CompleteTurnInvariant
  <2>5. ASSUME NEW effect \in Effect, EndTool(effect) PROVE IInv'
    BY <2>5, EndToolInvariant
  <2>6. CASE ContinueLoop
    BY <2>6, ContinueLoopInvariant
  <2>7. CASE Conclude
    BY <2>7, ConcludeInvariant
  <2>8. CASE FollowUp
    BY <2>8, FollowUpInvariant
  <2>9. CASE GiveUp
    BY <2>9, GiveUpInvariant
  <2>10. CASE FailTurn
    BY <2>10, FailTurnInvariant
  <2>11. CASE Raise
    BY <2>11, RaiseInvariant
  <2>12. CASE Abort
    BY <2>12, AbortInvariant
  <2>13. CASE Unwind
    BY <2>13, UnwindInvariant
  <2> QED
    BY <1>2, <2>1, <2>2, <2>3, <2>4, <2>5, <2>6, <2>7, <2>8, <2>9, <2>10, <2>11, <2>12, <2>13
       DEF Next
<1> QED
  BY <1>1, <1>2

-----------------------------------------------------------------------------
(* What follows.                                                           *)

\* The conversation, the reports and the scopes are as IInv says in every reachable
\* state.
THEOREM LoopInductive == Spec => []IInv
<1> QED
  BY InitInvariant, StepInvariant, PTL DEF Spec

\* The variables stay in their types (execute_prompt, run_agent, _emit).
THEOREM LoopTypeCorrect == Spec => []TypeOK
<1>1. IInv => TypeOK
  BY DEF IInv
<1> QED
  BY <1>1, LoopInductive, PTL

\* Whatever the turns, batches and follow-ups before, run_agent calls the provider
\* with the conversation the run will commit.
THEOREM ProviderIsSentTheRun == Spec => []ProviderSeesTheRun
<1>1. IInv => ProviderSeesTheRun
  BY DEF IInv, Copies, ProviderSeesTheRun
<1> QED
  BY <1>1, LoopInductive, PTL

\* _result_outcome answers with the first report in the log, and a typed prompt
\* without one fails only after MaxFollowUps reminders.
THEOREM FirstReportAnswers == Spec => []FirstReportDecides
<1>1. ASSUME IInv PROVE FirstReportDecides
  <2>1. Accepted(log) = Only(log, ToolEndWith({"complete", "fail"}))
    BY DEF Accepted, Accepting
  <2>2. Reminders(log) = Only(log, {Carrying("follow_up", UserMessage)})
    BY DEF Reminders, Reminder
  <2>3. Accepted(log) # <<>> => pc \in {"tool", "closing", "done"}
    BY <1>1 DEF IInv, Reported, TypeOK, Place
  <2> QED
    BY <1>1, <2>1, <2>2, <2>3 DEF IInv, Reported, FirstReportDecides
<1> QED
  BY <1>1, LoopInductive, PTL

\* aclosing: no stream is open beside the next call of the provider or after the task.
THEOREM NoStreamIsLeaked == Spec => []StreamsAreClosed
<1>1. IInv => StreamsAreClosed
  BY DEF IInv
<1> QED
  BY <1>1, LoopInductive, PTL

\* The events of run_agent and execute_prompt nest on every path.
THEOREM EventsNest == Spec => []ScopesNest
<1>1. IInv => ScopesNest
  BY DEF IInv, Nested, ScopesNest, InRun
<1> QED
  BY <1>1, LoopInductive, PTL

-----------------------------------------------------------------------------
(* The task of RunLifecycle.  What its proofs show of items and the calls   *)
(* they leave open is about no state.                                      *)

TaskProofs == INSTANCE RunLifecycleProofs WITH
    Session <- {"session"}, Run <- {"run"}, NoSession <- "no_session",
    Process <- {"process"}, NoProcess <- "no_process",
    sessions <- {}, runs <- <<>>, history <- <<>>, snapshot <- <<>>, exec <- <<>>

\* RunLifecycle's assumption holds of the loop's constants.
LEMMA TaskIsAssumed == TaskProofs!LifecycleAssumption
  BY AgentLoopAssumption DEF TaskProofs!LifecycleAssumption, IsInjective, TaskProofs!IsInjective

\* Both modules' operators are the same.
LEMMA SameOperators ==
    /\ TaskProofs!Item = Item /\ TaskProofs!UserMessage = UserMessage
    /\ \A asked : TaskProofs!AssistantTurn(asked) = AssistantTurn(asked)
                  /\ Task!AssistantTurn(asked) = AssistantTurn(asked)
    /\ \A call, isError : TaskProofs!ToolResult(call, isError) = ToolResult(call, isError)
                          /\ Task!ToolResult(call, isError) = ToolResult(call, isError)
    /\ Task!UserMessage = UserMessage
    /\ \A s : TaskProofs!ToSet(s) = ToSet(s) /\ Task!ToSet(s) = ToSet(s)
    /\ \A s : TaskProofs!IsInjective(s) <=> IsInjective(s)
    /\ \A s : Task!Last(s) = Last(s)
    /\ \A d : TaskProofs!Answered(d) = Task!Answered(d)
    /\ \A d : TaskProofs!UnansweredToolCalls(d) = Task!UnansweredToolCalls(d)
<1>1. \A asked : TaskProofs!AssistantTurn(asked) = AssistantTurn(asked)
                 /\ Task!AssistantTurn(asked) = AssistantTurn(asked)
  BY DEF AssistantTurn, TaskProofs!AssistantTurn, Task!AssistantTurn
<1>2. \A call, isError : TaskProofs!ToolResult(call, isError) = ToolResult(call, isError)
                         /\ Task!ToolResult(call, isError) = ToolResult(call, isError)
  BY DEF ToolResult, TaskProofs!ToolResult, Task!ToolResult
<1>3. TaskProofs!UserMessage = UserMessage /\ Task!UserMessage = UserMessage
  BY DEF UserMessage, TaskProofs!UserMessage, Task!UserMessage
<1>4. TaskProofs!Item = Item
  BY <1>1, <1>2, <1>3 DEF Item, TaskProofs!Item
<1>5. \A s : TaskProofs!ToSet(s) = ToSet(s) /\ Task!ToSet(s) = ToSet(s)
  BY DEF ToSet, TaskProofs!ToSet, Task!ToSet
<1>6. \A s : TaskProofs!IsInjective(s) <=> IsInjective(s)
  BY DEF IsInjective, TaskProofs!IsInjective
<1>7. \A s : Task!Last(s) = Last(s)
  BY DEF Last, Task!Last
<1>8. \A d : TaskProofs!Answered(d) = Task!Answered(d)
  BY DEF Task!Answered, TaskProofs!Answered
<1>9. \A x : TaskProofs!CallsOf(x) = Task!CallsOf(x)
  BY DEF Task!CallsOf, TaskProofs!CallsOf
<1>10. \A s, T : Task!Only(s, T) = TaskProofs!Only(s, T)
  BY DEF Task!Only, TaskProofs!Only
<1>11. \A s : Task!FlattenSeq(s) = TaskProofs!FlattenSeq(s)
  BY DEF Task!FlattenSeq, TaskProofs!FlattenSeq
<1>12. ASSUME NEW d
       PROVE  TaskProofs!UnansweredToolCalls(d) = Task!UnansweredToolCalls(d)
  <2>1. [i \in DOMAIN d |-> Task!CallsOf(d[i])] = [i \in DOMAIN d |-> TaskProofs!CallsOf(d[i])]
    BY <1>9
  <2> QED
    BY <1>8, <1>10, <1>11, <2>1 DEF Task!UnansweredToolCalls, TaskProofs!UnansweredToolCalls
<1> QED
  BY <1>1, <1>2, <1>3, <1>4, <1>5, <1>6, <1>7, <1>8, <1>12

Unanswered(d) == Task!UnansweredToolCalls(d)
Answered(d) == Task!Answered(d)

\* What each kind of item does to the calls that are open.
LEMMA PromptOwesNothing == Unanswered(<<UserMessage>>) = <<>>
  BY TaskIsAssumed, TaskProofs!ConversationStarts, SameOperators DEF Unanswered

\* A turn opens the calls it asks for.
LEMMA TurnOwesItsCalls ==
  ASSUME NEW d \in Seq(Item), NEW asked \in CallLists,
         Unanswered(d) = <<>>, ToSet(asked) \cap Answered(d) = {}
  PROVE  Unanswered(Append(d, AssistantTurn(asked))) = asked
<1>1. /\ d \in Seq(TaskProofs!Item) /\ TaskProofs!UnansweredToolCalls(d) = <<>>
      /\ TaskProofs!ToSet(asked) \cap TaskProofs!Answered(d) = {}
  BY SameOperators DEF Unanswered, Answered
<1>2. TaskProofs!UnansweredToolCalls(Append(d, TaskProofs!AssistantTurn(asked))) = asked
  BY <1>1, TaskIsAssumed, TaskProofs!TurnOpens
<1> QED
  BY <1>2, SameOperators DEF Unanswered

\* A user message opens none.
LEMMA MessageOwesNothing ==
  ASSUME NEW d \in Seq(Item)
  PROVE  Unanswered(Append(d, UserMessage)) = Unanswered(d)
<1>1. d \in Seq(TaskProofs!Item)
  BY SameOperators
<1>2. TaskProofs!UnansweredToolCalls(Append(d, TaskProofs!UserMessage))
        = TaskProofs!UnansweredToolCalls(d)
  BY <1>1, TaskIsAssumed, TaskProofs!UserOpensNothing
<1> QED
  BY <1>2, SameOperators DEF Unanswered

\* A result closes the first.
LEMMA ResultPaysTheFirst ==
  ASSUME NEW d \in Seq(Item), NEW isError \in BOOLEAN,
         Unanswered(d) # <<>>, IsInjective(Unanswered(d))
  PROVE  Unanswered(Append(d, ToolResult(Head(Unanswered(d)), isError))) = Tail(Unanswered(d))
<1>1. /\ d \in Seq(TaskProofs!Item) /\ TaskProofs!UnansweredToolCalls(d) # <<>>
      /\ TaskProofs!IsInjective(TaskProofs!UnansweredToolCalls(d))
  BY SameOperators DEF Unanswered
<1>2. TaskProofs!UnansweredToolCalls(Append(d,
          TaskProofs!ToolResult(Head(TaskProofs!UnansweredToolCalls(d)), isError)))
        = Tail(TaskProofs!UnansweredToolCalls(d))
  BY <1>1, TaskIsAssumed, TaskProofs!ResultCloses
<1> QED
  BY <1>2, SameOperators DEF Unanswered

\* A result answers the call it names.
LEMMA ResultAnswers ==
  ASSUME NEW d \in Seq(Item), NEW x \in Item
  PROVE  Answered(Append(d, x)) =
             Answered(d) \cup (IF x.kind = "tool_result" THEN {x.call} ELSE {})
<1>1. d \in Seq(TaskProofs!Item) /\ x \in TaskProofs!Item
  BY SameOperators
<1>2. TaskProofs!Answered(Append(d, x)) =
          TaskProofs!Answered(d) \cup (IF x.kind = "tool_result" THEN {x.call} ELSE {})
  BY <1>1, TaskIsAssumed, TaskProofs!AnsweredAppend
<1> QED
  BY <1>2, SameOperators DEF Answered

-----------------------------------------------------------------------------
(* The log as RunLifecycle sees it.                                        *)

Shown(events) == <<UserMessage>> \o Items(events)
Ended(events) == {events[i].item.call : i \in {k \in DOMAIN events : events[k].event = "tool_end"}}

Failure == Event("message_failed")
Visible == Replayable \cup {Failure}
Publish(e) == IF e \in Replayable THEN [event |-> "item", item |-> e.item]
              ELSE [event |-> "failed_turn"]
PublishedIn(events) ==
    LET kept == Only(events, Visible) IN [i \in DOMAIN kept |-> Publish(kept[i])]
PublishedEvent == {Publish(e) : e \in Visible}

\* Published is what the log publishes.
LEMMA PublishedIs == Published = PublishedIn(log)
  BY DEF Published, PublishedIn, Visible, Failure, Publish

\* What one more event shows, publishes and answers.
LEMMA ViewAppend ==
  ASSUME NEW s \in Seq(LogEvent), NEW e \in LogEvent
  PROVE  /\ Shown(s) \in Seq(Item) /\ Shown(s) # <<>>
         /\ Shown(Append(s, e)) = IF e \in Replayable THEN Append(Shown(s), e.item) ELSE Shown(s)
         /\ PublishedIn(s) \in Seq(PublishedEvent)
         /\ PublishedIn(Append(s, e)) = IF e \in Visible THEN Append(PublishedIn(s), Publish(e))
                                        ELSE PublishedIn(s)
         /\ Ended(Append(s, e)) = Ended(s) \cup (IF e.event = "tool_end" THEN {e.item.call} ELSE {})
<1>1. UserMessage \in Item
  BY DEF Item
<1>2. Items(s) \in Seq(Item)
  BY ItemsAppend
<1>3. Shown(s) \in Seq(Item) /\ Shown(s) # <<>>
  BY <1>1, <1>2 DEF Shown
<1>4. Shown(Append(s, e)) = IF e \in Replayable THEN Append(Shown(s), e.item) ELSE Shown(s)
  <2>1. CASE e \in Replayable
    <3>1. e.item \in Item /\ Items(Append(s, e)) = Append(Items(s), e.item)
      BY <2>1, CarriedItem, ItemsAppend
    <3>2. <<UserMessage>> \in Seq(Item)
      BY <1>1
    <3>3. <<UserMessage>> \o Append(Items(s), e.item) = Append(<<UserMessage>> \o Items(s), e.item)
      BY <1>2, <3>1, <3>2, ConcatAppends
    <3> QED
      BY <2>1, <3>1, <3>3 DEF Shown
  <2>2. CASE e \notin Replayable
    BY <2>2, ItemsAppend DEF Shown
  <2> QED
    BY <2>1, <2>2
<1> DEFINE kept == Only(s, Visible)
           more == Only(Append(s, e), Visible)
<1>5. more = IF e \in Visible THEN Append(kept, e) ELSE kept
  BY OnlyAppend
<1>6. kept \in Seq(Visible)
  <2>1. kept \in Seq(LogEvent \cap Visible)
    BY OnlyType
  <2>2. LogEvent \cap Visible \subseteq Visible
    OBVIOUS
  <2> HIDE DEF kept
  <2> QED
    BY <2>1, <2>2
<1>7. PublishedIn(s) = [i \in DOMAIN kept |-> Publish(kept[i])]
      /\ PublishedIn(Append(s, e)) = [i \in DOMAIN more |-> Publish(more[i])]
  BY DEF PublishedIn
<1> HIDE DEF kept, more
<1>8. \A i \in DOMAIN kept : Publish(kept[i]) \in PublishedEvent
  BY <1>6 DEF PublishedEvent
<1>9. PublishedIn(s) \in Seq(PublishedEvent)
  BY <1>6, <1>7, <1>8
<1>10. ASSUME e \in Visible
       PROVE  [i \in DOMAIN Append(kept, e) |-> Publish(Append(kept, e)[i])]
                = Append([i \in DOMAIN kept |-> Publish(kept[i])], Publish(e))
  BY <1>6, <1>10
<1>11. PublishedIn(Append(s, e)) = IF e \in Visible THEN Append(PublishedIn(s), Publish(e))
                                   ELSE PublishedIn(s)
  BY <1>5, <1>7, <1>10
<1>12. Ended(Append(s, e)) = Ended(s) \cup (IF e.event = "tool_end" THEN {e.item.call} ELSE {})
  <2> DEFINE t == Append(s, e)
             N == Len(s)
  <2>1. /\ t \in Seq(LogEvent) /\ t[N + 1] = e /\ N \in Nat
        /\ DOMAIN s = 1..N /\ DOMAIN t = 1..(N + 1)
        /\ \A n \in 1..N : t[n] = s[n]
    BY AppendProperties
  <2> HIDE DEF t, N
  <2>2. Ended(s) = {s[i].item.call : i \in {k \in 1..N : s[k].event = "tool_end"}}
        /\ Ended(t) = {t[i].item.call : i \in {k \in 1..(N + 1) : t[k].event = "tool_end"}}
    BY <2>1 DEF Ended
  <2>3. {k \in 1..(N + 1) : t[k].event = "tool_end"}
          = {k \in 1..N : s[k].event = "tool_end"} \cup (IF e.event = "tool_end" THEN {N + 1} ELSE {})
    BY <2>1
  <2>4. \A i \in {k \in 1..N : s[k].event = "tool_end"} : t[i] = s[i]
    BY <2>1
  <2>5. Ended(t) = Ended(s) \cup (IF e.event = "tool_end" THEN {e.item.call} ELSE {})
    <3> DEFINE A == {k \in 1..N : s[k].event = "tool_end"}
               B == {k \in 1..(N + 1) : t[k].event = "tool_end"}
    <3>1. /\ Ended(s) = {s[i].item.call : i \in A} /\ Ended(t) = {t[i].item.call : i \in B}
          /\ B = A \cup (IF e.event = "tool_end" THEN {N + 1} ELSE {})
          /\ \A i \in A : t[i] = s[i]
      BY <2>2, <2>3, <2>4
    <3> HIDE DEF A, B
    <3>2. CASE e.event = "tool_end"
      BY <2>1, <3>1, <3>2
    <3>3. CASE e.event # "tool_end"
      BY <2>1, <3>1, <3>3
    <3> QED
      BY <3>2, <3>3
  <2> QED
    BY <2>5 DEF t
<1> QED
  BY <1>3, <1>4, <1>9, <1>11, <1>12

View(events) == <<Shown(events), PublishedIn(events), Ended(events)>>

\* Most plain events are not to be seen.
LEMMA ViewPlain ==
  ASSUME NEW s \in Seq(LogEvent), NEW e \in PlainEvent, e.event # "message_failed"
  PROVE  Append(s, e) \in Seq(LogEvent) /\ View(Append(s, e)) = View(s)
<1>1. e \in LogEvent /\ e \notin Replayable /\ e # Failure /\ e.event # "tool_end"
  <2>1. Failure.event = "message_failed"
    BY DEF Failure, Event
  <2>2. e.event # "tool_end"
    BY DEF PlainEvent, Event
  <2> QED
    BY <2>1, <2>2, Classify
<1>2. e \notin Visible
  BY <1>1 DEF Visible
<1>3. Shown(Append(s, e)) = Shown(s) /\ PublishedIn(Append(s, e)) = PublishedIn(s)
      /\ Ended(Append(s, e)) = Ended(s) \cup {}
  BY <1>1, <1>2, ViewAppend
<1> QED
  BY <1>1, <1>3 DEF View

\* An event with an item.
LEMMA ViewItem ==
  ASSUME NEW s \in Seq(LogEvent), NEW e \in Replayable
  PROVE  /\ Append(s, e) \in Seq(LogEvent)
         /\ Shown(Append(s, e)) = Append(Shown(s), e.item)
         /\ PublishedIn(Append(s, e)) = Append(PublishedIn(s), [event |-> "item", item |-> e.item])
         /\ Ended(Append(s, e)) = Ended(s) \cup (IF e.event = "tool_end" THEN {e.item.call} ELSE {})
<1>1. e \in LogEvent
  BY DEF LogEvent
<1> QED
  BY <1>1, ViewAppend DEF Visible, Publish

\* The prompt is the last item, or the log's last one is.
LEMMA LastAppend ==
  ASSUME NEW X, NEW s \in Seq(X), NEW x \in X
  PROVE  Last(Append(s, x)) = x
  BY DEF Last

\* What follows the committed history.
LEMMA AfterCommitted ==
  ASSUME NEW d \in Seq(Item)
  PROVE  SubSeq(CommittedItems \o d, Len(CommittedItems) + 1, Len(CommittedItems \o d)) = d
<1> DEFINE m == Len(CommittedItems)
           w == CommittedItems \o d
           q == SubSeq(w, m + 1, Len(w))
<1>1. CommittedItems \in Seq(Item)
  BY AgentLoopAssumption
<1>2. /\ w \in Seq(Item) /\ Len(w) = m + Len(d) /\ m \in Nat /\ Len(d) \in Nat
      /\ \A i \in 1 .. Len(d) : w[m + i] = d[i]
  BY <1>1
<1> HIDE DEF w, m
<1> DEFINE k == m + 1
           n == Len(w)
<1>3. /\ SubSeq(w, k, n) \in Seq(Item)
      /\ Len(SubSeq(w, k, n)) = IF k <= n THEN n - k + 1 ELSE 0
      /\ \A i \in 1 .. (n - k + 1) : SubSeq(w, k, n)[i] = w[k + i - 1]
  <2>1. k \in Int /\ n \in Int /\ \A i \in k .. n : w[i] \in Item
    BY <1>2
  <2> HIDE DEF k, n
  <2> QED
    BY <2>1, SubSeqProperties
<1>4. n - k + 1 = Len(d) /\ (k <= n => n - k + 1 = Len(d)) /\ (~(k <= n) => Len(d) = 0)
      /\ \A i \in 1 .. Len(d) : k + i - 1 = m + i
  BY <1>2
<1> HIDE DEF q
<1>5. q = d
  <2>1. \A i \in 1 .. Len(d) : q[i] = d[i]
    BY <1>2, <1>3, <1>4 DEF q
  <2>2. q \in Seq(Item) /\ Len(q) = Len(d)
    BY <1>3, <1>4 DEF q
  <2> QED
    BY <2>1, <2>2, SeqEqual
<1> QED
  BY <1>5 DEF q, w, m

-----------------------------------------------------------------------------
(* The program, seen as a task.                                            *)

InStep ==
    /\ working = CommittedItems \o Shown(log)
    /\ Answered(Shown(log)) = Ended(log)
    /\ pc = "tool" => Unanswered(Shown(log)) = calls /\ IsInjective(calls)
    /\ pc \notin {"tool", "done"} => Unanswered(Shown(log)) = <<>>
    /\ pc \in {"start", "calling", "opened", "streaming"} => Last(Shown(log)).kind # "assistant"
    /\ pc \in {"tool", "closing"} =>
          /\ Last(Shown(log)).kind # "user"
          /\ batch # <<>> => Last(Shown(log)).kind # "assistant"

\* The run's delta, in the words of the log.
LEMMA DeltaIs ==
  ASSUME TypeOK, InStep
  PROVE  Delta = Shown(log) /\ Shown(log) \in Seq(Item)
<1>1. Shown(log) \in Seq(Item)
  <2>1. Event("agent_start") \in LogEvent /\ log \in Seq(LogEvent)
    BY EventsTyped DEF TypeOK, PlainEvent
  <2> QED
    BY <2>1, ViewAppend
<1>2. Delta = SubSeq(CommittedItems \o Shown(log), Len(CommittedItems) + 1,
                     Len(CommittedItems \o Shown(log)))
  BY DEF Delta, InStep
<1> QED
  BY <1>1, <1>2, AfterCommitted

\* What the guards of the task's steps say of the program.
LEMMA TaskSees ==
  ASSUME TypeOK, InStep
  PROVE  /\ Task!Running("run") <=> pc # "done"
         /\ Task!MayStep("run") <=> pc # "done" /\ ~aborting
         /\ Task!Settled("run") <=> Unanswered(Shown(log)) = <<>>
         /\ Task!LastItem("run") = Last(Shown(log))
         /\ Task!Room("run") <=> Room
<1>1. Task!Running("run") <=> pc # "done"
  BY DEF Task!Running
<1>2. Task!MayStep("run") <=> pc # "done" /\ ~aborting
  BY <1>1 DEF Task!MayStep
<1>3. Task!Settled("run") <=> Unanswered(Shown(log)) = <<>>
  BY DeltaIs DEF Task!Settled, Unanswered
<1>4. Task!LastItem("run") = Last(Shown(log))
  BY DeltaIs, SameOperators DEF Task!LastItem
<1>5. Task!Room("run") <=> Room
  BY DEF Task!Room, Room
<1> QED
  BY <1>1, <1>2, <1>3, <1>4, <1>5

Publication(x) == [event |-> "item", item |-> x]

\* RunExecution as RunLifecycle sees it.
TaskState(phase, isAborting, result, delta, events) ==
    [phase |-> phase, process |-> "process", aborting |-> isAborting, outcome |-> result,
     delta |-> delta, log |-> events, result |-> "none"]
TaskRecord ==
    TaskState(IF pc = "done" THEN "done" ELSE "running", aborting, Result, Delta,
              <<[event |-> "run_start"]>> \o Published)

TaskFields == {"phase", "process", "aborting", "outcome", "delta", "log", "result"}

\* Records are what their fields are.
LEMMA SameFields ==
  ASSUME NEW s, NEW t,
         s = [k \in TaskFields |-> s[k]], t = [k \in TaskFields |-> t[k]],
         s.phase = t.phase, s.process = t.process, s.aborting = t.aborting,
         s.outcome = t.outcome, s.delta = t.delta, s.log = t.log, s.result = t.result
  PROVE  s = t
<1>1. \A k \in TaskFields : s[k] = t[k]
  BY DEF TaskFields
<1> QED
  BY <1>1

WithItem(r, x, y) == [r EXCEPT !.log = Append(@, x), !.delta = Append(@, y)]
WithOutcome(r, x) == [r EXCEPT !.phase = "done", !.outcome = x]
WithFailure(r, x) == [r EXCEPT !.phase = "done", !.outcome = "failed", !.log = Append(@, x)]
WithAbort(r, b) == [r EXCEPT !.aborting = b]

\* The record after an item.
LEMMA ItemAdded ==
  ASSUME NEW p, NEW a, NEW o, NEW d, NEW l, NEW x, NEW y
  PROVE  WithItem(TaskState(p, a, o, d, l), x, y) = TaskState(p, a, o, Append(d, y), Append(l, x))
<1> DEFINE s == WithItem(TaskState(p, a, o, d, l), x, y)
           t == TaskState(p, a, o, Append(d, y), Append(l, x))
<1>1. s = [k \in TaskFields |-> s[k]] /\ t = [k \in TaskFields |-> t[k]]
  BY DEF WithItem, TaskState, TaskFields
<1>2. /\ s.phase = t.phase /\ s.process = t.process /\ s.aborting = t.aborting
      /\ s.outcome = t.outcome /\ s.delta = t.delta /\ s.log = t.log /\ s.result = t.result
  BY DEF WithItem, TaskState
<1> HIDE DEF s, t
<1>3. s = t
  BY <1>1, <1>2, SameFields
<1> QED
  BY <1>3 DEF s, t

\* The record after an end that emits nothing.
LEMMA OutcomeSet ==
  ASSUME NEW p, NEW a, NEW o, NEW d, NEW l, NEW x
  PROVE  WithOutcome(TaskState(p, a, o, d, l), x) = TaskState("done", a, x, d, l)
<1> DEFINE s == WithOutcome(TaskState(p, a, o, d, l), x)
           t == TaskState("done", a, x, d, l)
<1>1. s = [k \in TaskFields |-> s[k]] /\ t = [k \in TaskFields |-> t[k]]
  BY DEF WithOutcome, TaskState, TaskFields
<1>2. /\ s.phase = t.phase /\ s.process = t.process /\ s.aborting = t.aborting
      /\ s.outcome = t.outcome /\ s.delta = t.delta /\ s.log = t.log /\ s.result = t.result
  BY DEF WithOutcome, TaskState
<1> HIDE DEF s, t
<1>3. s = t
  BY <1>1, <1>2, SameFields
<1> QED
  BY <1>3 DEF s, t

\* The record after a failed turn.
LEMMA FailureAdded ==
  ASSUME NEW p, NEW a, NEW o, NEW d, NEW l, NEW x
  PROVE  WithFailure(TaskState(p, a, o, d, l), x) = TaskState("done", a, "failed", d, Append(l, x))
<1> DEFINE s == WithFailure(TaskState(p, a, o, d, l), x)
           t == TaskState("done", a, "failed", d, Append(l, x))
<1>1. s = [k \in TaskFields |-> s[k]] /\ t = [k \in TaskFields |-> t[k]]
  BY DEF WithFailure, TaskState, TaskFields
<1>2. /\ s.phase = t.phase /\ s.process = t.process /\ s.aborting = t.aborting
      /\ s.outcome = t.outcome /\ s.delta = t.delta /\ s.log = t.log /\ s.result = t.result
  BY DEF WithFailure, TaskState
<1> HIDE DEF s, t
<1>3. s = t
  BY <1>1, <1>2, SameFields
<1> QED
  BY <1>3 DEF s, t

\* The record after abort().
LEMMA AbortSet ==
  ASSUME NEW p, NEW a, NEW o, NEW d, NEW l, NEW b
  PROVE  WithAbort(TaskState(p, a, o, d, l), b) = TaskState(p, b, o, d, l)
<1> DEFINE s == WithAbort(TaskState(p, a, o, d, l), b)
           t == TaskState(p, b, o, d, l)
<1>1. s = [k \in TaskFields |-> s[k]] /\ t = [k \in TaskFields |-> t[k]]
  BY DEF WithAbort, TaskState, TaskFields
<1>2. /\ s.phase = t.phase /\ s.process = t.process /\ s.aborting = t.aborting
      /\ s.outcome = t.outcome /\ s.delta = t.delta /\ s.log = t.log /\ s.result = t.result
  BY DEF WithAbort, TaskState
<1> HIDE DEF s, t
<1>3. s = t
  BY <1>1, <1>2, SameFields
<1> QED
  BY <1>3 DEF s, t

\* An item that is emitted: the task emits it, and the buffer still says what the
\* log shows.
LEMMA TaskEmits ==
  ASSUME TypeOK, TypeOK', InStep, NEW x \in Item, pc # "done", pc' # "done",
         UNCHANGED <<aborting, outcome>>, working' = Append(working, x),
         Shown(log') = Append(Shown(log), x),
         PublishedIn(log') = Append(PublishedIn(log), Publication(x)),
         Ended(log') = Ended(log) \cup (IF x.kind = "tool_result" THEN {x.call} ELSE {})
  PROVE  /\ working' = CommittedItems \o Shown(log')
         /\ Answered(Shown(log')) = Ended(log')
         /\ Task!Emit("run", x) /\ UNCHANGED Task!storeVars
<1>1. Delta = Shown(log) /\ Shown(log) \in Seq(Item)
  BY DeltaIs
<1>2. working' = CommittedItems \o Append(Shown(log), x)
  <2>1. CommittedItems \in Seq(Item)
    BY AgentLoopAssumption
  <2>2. CommittedItems \o Append(Shown(log), x) = Append(CommittedItems \o Shown(log), x)
    BY <1>1, <2>1, ConcatAppends
  <2> QED
    BY <2>2 DEF InStep
<1>3. Delta' = Append(Delta, x)
  <2>1. Append(Shown(log), x) \in Seq(Item)
    BY <1>1
  <2>2. Delta' = SubSeq(working', Len(CommittedItems) + 1, Len(working'))
    BY DEF Delta
  <2> QED
    BY <1>1, <1>2, <2>1, <2>2, AfterCommitted
<1>4. Answered(Shown(log')) = Ended(log')
  BY <1>1, ResultAnswers DEF InStep
<1>5. Published' = Append(Published, Publication(x))
  <2>1. Published' = PublishedIn(log')
    BY DEF Published, PublishedIn, Visible, Failure, Publish
  <2> QED
    BY <2>1, PublishedIs
<1>6. Published \in Seq(PublishedEvent)
  <2>1. log \in Seq(LogEvent) /\ Event("agent_start") \in LogEvent
    BY EventsTyped DEF TypeOK, PlainEvent
  <2> QED
    BY <2>1, PublishedIs, ViewAppend
<1>7. <<[event |-> "run_start"]>> \o Published'
        = Append(<<[event |-> "run_start"]>> \o Published, Publication(x))
  <2> DEFINE U == PublishedEvent \cup {[event |-> "run_start"], Publication(x)}
             start == <<[event |-> "run_start"]>>
  <2>1. start \in Seq(U) /\ Published \in Seq(U) /\ Publication(x) \in U
    BY <1>6
  <2> HIDE DEF U, start
  <2>2. start \o Append(Published, Publication(x)) = Append(start \o Published, Publication(x))
    BY <2>1, ConcatAppends
  <2> QED
    BY <1>5, <2>2 DEF start
<1>8. Result' = Result
  BY DEF Result
<1>9. TaskRecord' = WithItem(TaskRecord, Publication(x), x)
  <2> DEFINE shown == <<[event |-> "run_start"]>> \o Published
  <2>1. TaskRecord = TaskState("running", aborting, Result, Delta, shown)
    BY DEF TaskRecord
  <2>2. TaskRecord' = TaskState("running", aborting, Result, Append(Delta, x),
                                Append(shown, Publication(x)))
    BY <1>3, <1>7, <1>8 DEF TaskRecord, TaskState
  <2> HIDE DEF shown
  <2>3. WithItem(TaskRecord, Publication(x), x)
          = TaskState("running", aborting, Result, Append(Delta, x), Append(shown, Publication(x)))
    <3> DEFINE e == Publication(x)
               a == aborting
               o == Result
               d == Delta
    <3> HIDE DEF e, a, o, d, shown
    <3>1. WithItem(TaskState("running", a, o, d, shown), e, x)
            = TaskState("running", a, o, Append(d, x), Append(shown, e))
      BY ItemAdded
    <3> QED
      BY <2>1, <3>1 DEF e, a, o, d
  <2> QED
    BY <2>2, <2>3
<1>10. [r \in {"run"} |-> TaskRecord]'
         = [[r \in {"run"} |-> TaskRecord] EXCEPT
               !["run"].log = Append(@, Publication(x)), !["run"].delta = Append(@, x)]
  BY <1>9 DEF WithItem
<1>11. Task!Emit("run", x)
  BY <1>10 DEF TaskRecord, TaskState, Task!Emit, Task!Emitted, Publication
<1>12. UNCHANGED Task!storeVars
  BY DEF Task!storeVars
<1> QED
  BY <1>1, <1>2, <1>4, <1>11, <1>12

\* Steps that show nothing leave the delta and what is published.
LEMMA ShownUnchanged ==
  ASSUME TypeOK, InStep, working' = working, View(log') = View(log)
  PROVE  /\ Delta' = Delta /\ Published' = Published
         /\ Shown(log') = Shown(log) /\ Ended(log') = Ended(log)
<1>1. Shown(log') = Shown(log) /\ PublishedIn(log') = PublishedIn(log) /\ Ended(log') = Ended(log)
  BY DEF View
<1>2. Published' = PublishedIn(log')
  BY DEF Published, PublishedIn, Visible, Failure, Publish
<1> QED
  BY <1>1, <1>2, PublishedIs DEF Delta

\* The task is over, and has shown nothing more.
LEMMA TaskEnds ==
  ASSUME TypeOK, InStep, pc # "done", pc' = "done", aborting' = aborting,
         working' = working, View(log') = View(log)
  PROVE  Task!TaskDone("run", Result')
<1> DEFINE shown == <<[event |-> "run_start"]>> \o Published
           a == aborting
           o == Result
           d == Delta
           result == Result'
<1>1. TaskRecord = TaskState("running", a, o, d, shown)
  BY DEF TaskRecord
<1>2. TaskRecord' = TaskState("done", a, result, d, shown)
  BY ShownUnchanged DEF TaskRecord, TaskState
<1> HIDE DEF shown, a, o, d, result
<1>3. WithOutcome(TaskState("running", a, o, d, shown), result)
        = TaskState("done", a, result, d, shown)
  BY OutcomeSet
<1>4. TaskRecord' = WithOutcome(TaskRecord, result)
  BY <1>1, <1>2, <1>3
<1>5. [r \in {"run"} |-> TaskRecord]'
         = [[r \in {"run"} |-> TaskRecord] EXCEPT
               !["run"].phase = "done", !["run"].outcome = result]
  BY <1>4 DEF WithOutcome
<1> QED
  BY <1>5 DEF TaskRecord, TaskState, Task!TaskDone, Task!storeVars, result

\* The task is over with a failed turn.
LEMMA TaskFails ==
  ASSUME TypeOK, InStep, pc # "done", pc' = "done", aborting' = aborting,
         working' = working, Result' = "failed",
         Shown(log') = Shown(log),
         PublishedIn(log') = Append(PublishedIn(log), [event |-> "failed_turn"]),
         ~aborting, Unanswered(Shown(log)) = <<>>
  PROVE  Task!FailTurn("run")
<1> DEFINE shown == <<[event |-> "run_start"]>> \o Published
           a == aborting
           o == Result
           d == Delta
           failed == [event |-> "failed_turn"]
<1>0. Task!MayStep("run") /\ Task!Settled("run")
  BY TaskSees
<1>1. TaskRecord = TaskState("running", a, o, d, shown)
  BY DEF TaskRecord
<1>2. Published' = Append(Published, failed)
  <2>1. Published' = PublishedIn(log')
    BY DEF Published, PublishedIn, Visible, Failure, Publish
  <2> QED
    BY <2>1, PublishedIs
<1>3. Published \in Seq(PublishedEvent)
  <2>1. log \in Seq(LogEvent) /\ Event("agent_start") \in LogEvent
    BY EventsTyped DEF TypeOK, PlainEvent
  <2> QED
    BY <2>1, PublishedIs, ViewAppend
<1>4. <<[event |-> "run_start"]>> \o Published' = Append(shown, failed)
  <2> DEFINE U == PublishedEvent \cup {[event |-> "run_start"], failed}
             start == <<[event |-> "run_start"]>>
  <2>1. start \in Seq(U) /\ Published \in Seq(U) /\ failed \in U
    BY <1>3
  <2> HIDE DEF U, start, failed
  <2>2. start \o Append(Published, failed) = Append(start \o Published, failed)
    BY <2>1, ConcatAppends
  <2> QED
    BY <1>2, <2>2 DEF start
<1>5. TaskRecord' = TaskState("done", a, "failed", d, Append(shown, failed))
  <2>1. Delta' = Delta
    BY DEF Delta
  <2> QED
    BY <1>4, <2>1 DEF TaskRecord, TaskState
<1> HIDE DEF shown, a, o, d, failed
<1>6. WithFailure(TaskState("running", a, o, d, shown), failed)
        = TaskState("done", a, "failed", d, Append(shown, failed))
  BY FailureAdded
<1>7. TaskRecord' = WithFailure(TaskRecord, failed)
  BY <1>1, <1>5, <1>6
<1>8. [r \in {"run"} |-> TaskRecord]'
         = [[r \in {"run"} |-> TaskRecord] EXCEPT
               !["run"].phase = "done", !["run"].outcome = "failed",
               !["run"].log = Append(@, failed)]
  BY <1>7 DEF WithFailure
<1> QED
  BY <1>0, <1>8 DEF TaskRecord, TaskState, Task!FailTurn, Task!FailedTurn, Task!storeVars, failed

\* The task is asked to end.
LEMMA TaskAborts ==
  ASSUME TypeOK, InStep, Abort
  PROVE  Task!Abort("run")
<1>0. /\ pc # "done" /\ pc' = pc /\ aborting' = TRUE
      /\ UNCHANGED <<working, log, outcome>>
  BY DEF Abort
<1>1. Delta' = Delta /\ Published' = Published /\ Result' = Result
  BY <1>0 DEF Delta, Published, Result
<1> DEFINE shown == <<[event |-> "run_start"]>> \o Published
           a == aborting
           o == Result
           d == Delta
           b == TRUE
<1>2. TaskRecord = TaskState("running", a, o, d, shown)
  BY <1>0 DEF TaskRecord
<1>3. TaskRecord' = TaskState("running", b, o, d, shown)
  BY <1>0, <1>1 DEF TaskRecord, TaskState
<1> HIDE DEF shown, a, o, d, b
<1>4. WithAbort(TaskState("running", a, o, d, shown), b) = TaskState("running", b, o, d, shown)
  BY AbortSet
<1>5. TaskRecord' = WithAbort(TaskRecord, b)
  BY <1>2, <1>3, <1>4
<1>6. [r \in {"run"} |-> TaskRecord]'
         = [[r \in {"run"} |-> TaskRecord] EXCEPT !["run"].aborting = TRUE]
  BY <1>5 DEF WithAbort, b
<1>7. Task!Running("run")
  BY <1>0, TaskSees
<1> QED
  BY <1>6, <1>7 DEF TaskRecord, TaskState, Task!Abort, Task!storeVars

\* Nothing that RunLifecycle knows of has changed.
LEMMA TaskStutters ==
  ASSUME TypeOK, InStep, (pc = "done") <=> (pc' = "done"), aborting' = aborting,
         outcome' = outcome, working' = working, View(log') = View(log)
  PROVE  UNCHANGED Task!vars
<1>1. Result' = Result
  BY DEF Result
<1>2. TaskRecord' = TaskRecord
  BY <1>1, ShownUnchanged DEF TaskRecord, TaskState
<1>3. [r \in {"run"} |-> TaskRecord]' = [r \in {"run"} |-> TaskRecord]
  BY <1>2
<1> QED
  BY <1>3 DEF TaskRecord, TaskState, Task!vars, Task!storeVars

-----------------------------------------------------------------------------
(* Each step of the program is a step of the task, and keeps InStep.       *)

TaskMove == Task!TaskStep("run") \/ Task!Abort("run") \/ Task!Unwind("run")

\* What one emitted item and the plain event after it show.
LEMMA ShowsItem ==
  ASSUME TypeOK, NEW e \in Replayable, NEW f \in PlainEvent, f.event # "message_failed",
         e.event = "tool_end" <=> e.item.kind = "tool_result",
         log' = Append(Append(log, e), f)
  PROVE  /\ Shown(log') = Append(Shown(log), e.item) /\ Shown(log) \in Seq(Item)
         /\ PublishedIn(log') = Append(PublishedIn(log), Publication(e.item))
         /\ Ended(log') = Ended(log)
                          \cup (IF e.item.kind = "tool_result" THEN {e.item.call} ELSE {})
<1>1. log \in Seq(LogEvent) /\ e \in LogEvent
  BY DEF TypeOK, LogEvent
<1>2. /\ Append(log, e) \in Seq(LogEvent)
      /\ Shown(Append(log, e)) = Append(Shown(log), e.item)
      /\ PublishedIn(Append(log, e)) = Append(PublishedIn(log), [event |-> "item", item |-> e.item])
      /\ Ended(Append(log, e)) = Ended(log) \cup (IF e.event = "tool_end" THEN {e.item.call} ELSE {})
  BY <1>1, ViewItem
<1>3. View(log') = View(Append(log, e))
  BY <1>2, ViewPlain
<1>4. Shown(log) \in Seq(Item)
  BY <1>1, ViewAppend
<1> QED
  BY <1>2, <1>3, <1>4 DEF View, Publication

\* The calls that were answered are those whose tool ended.
LEMMA NewCalls ==
  ASSUME InStep, NEW asked, NEW length, CompleteTurn(asked, length)
  PROVE  ToSet(asked) \cap Answered(Shown(log)) = {}
  BY DEF InStep, CompleteTurn, Ended

\* A turn is complete.
LEMMA CompleteTurnRefines ==
  ASSUME TypeOK, TypeOK', InStep, NEW asked \in CallLists, NEW length \in BOOLEAN,
         CompleteTurn(asked, length)
  PROVE  InStep' /\ TaskMove
<1> DEFINE e == Carrying("message_end", AssistantTurn(asked))
<1>0. /\ e \in Replayable /\ e.event = "message_end"
      /\ e.item = AssistantTurn(asked) /\ AssistantTurn(asked) \in Item
      /\ e.item.kind = "assistant"
  <2>1. AssistantTurn(asked) \in Item
    BY DEF Item
  <2> QED
    BY <2>1, EventsTyped DEF Carrying, AssistantTurn
<1> HIDE DEF e
<1>1. /\ pc = "streaming" /\ ~aborting /\ Room /\ calls' = asked /\ batch' = <<>>
      /\ NextTool(asked, <<e>>) /\ UNCHANGED <<outcome, aborting>>
  BY DEF CompleteTurn, At, e
<1>2. PICK f \in PlainEvent :
            /\ log' = Append(Append(log, e), f)
            /\ working' = Append(working, e.item)
            /\ pc' = IF asked = <<>> THEN "closing" ELSE "tool"
            /\ f.event = IF asked = <<>> THEN "turn_end" ELSE "tool_start"
  BY <1>0, <1>1, NextToolEmits
<1>3. /\ Shown(log') = Append(Shown(log), e.item) /\ Shown(log) \in Seq(Item)
      /\ PublishedIn(log') = Append(PublishedIn(log), Publication(e.item))
      /\ Ended(log') = Ended(log)
                       \cup (IF e.item.kind = "tool_result" THEN {e.item.call} ELSE {})
  BY <1>0, <1>2, ShowsItem
<1>4. /\ working' = CommittedItems \o Shown(log')
      /\ Answered(Shown(log')) = Ended(log')
      /\ Task!Emit("run", e.item) /\ UNCHANGED Task!storeVars
  BY <1>0, <1>1, <1>2, <1>3, TaskEmits
<1>5. Unanswered(Shown(log)) = <<>> /\ ToSet(asked) \cap Answered(Shown(log)) = {}
  BY <1>1, NewCalls DEF InStep
<1>6. Unanswered(Shown(log')) = asked
  BY <1>0, <1>3, <1>5, TurnOwesItsCalls
<1>7. Last(Shown(log')) = e.item
  BY <1>0, <1>3, LastAppend
<1>8. InStep'
  <2>1. IsInjective(asked)
    BY AgentLoopAssumption
  <2>2. /\ working' = CommittedItems \o Shown(log')
        /\ Answered(Shown(log')) = Ended(log')
        /\ pc' = "tool" => Unanswered(Shown(log')) = calls' /\ IsInjective(calls')
        /\ pc' \notin {"tool", "done"} => Unanswered(Shown(log')) = <<>>
        /\ pc' \notin {"start", "calling", "opened", "streaming"}
        /\ Last(Shown(log')).kind # "user" /\ batch' = <<>>
    BY <1>0, <1>1, <1>2, <1>4, <1>6, <1>7, <2>1
  <2> QED
    BY <2>2 DEF InStep, Shown, Ended, Answered, Unanswered, IsInjective
<1>9. Task!CompleteTurn("run", asked)
  <2>1. Task!MayStep("run") /\ Task!Room("run") /\ Task!Settled("run")
    BY <1>1, <1>5, TaskSees
  <2>2. Task!LastItem("run").kind # "assistant"
    BY <1>1, TaskSees DEF InStep
  <2> QED
    BY <1>0, <1>4, <1>5, <2>1, <2>2, DeltaIs, SameOperators DEF Task!CompleteTurn, Answered
<1> QED
  BY <1>8, <1>9 DEF TaskMove, Task!TaskStep

\* A call is answered: the first that is open.
LEMMA EndToolRefines ==
  ASSUME TypeOK, TypeOK', Copies, InStep, NEW effect \in Effect, EndTool(effect)
  PROVE  InStep' /\ TaskMove
<1> DEFINE call == Head(calls)
           isError == effect = "error"
           e == ToolEnd(call, effect)
           x == ToolResult(call, isError)
<1>1. /\ pc = "tool" /\ ~aborting /\ calls' = Tail(calls)
      /\ batch' = Append(batch, [call |-> call, effect |-> effect])
      /\ NextTool(Tail(calls), <<e>>) /\ UNCHANGED <<outcome, aborting>>
  BY DEF EndTool, At
<1>2. /\ calls # <<>> /\ calls \in Seq(CallId) /\ call \in CallId /\ Tail(calls) \in Seq(CallId)
      /\ isError \in BOOLEAN /\ effect \in Effects
  <2>1. calls # <<>> /\ calls \in Seq(CallId)
    BY <1>1 DEF Copies, TypeOK
  <2>2. effect \in Effects
    BY DEF Effect, Effects
  <2> QED
    BY <2>1, <2>2
<1>3. x \in Item /\ x.kind = "tool_result"
  BY <1>2, ResultIsItem DEF ToolResult
<1>4. e \in Replayable /\ e.event = "tool_end" /\ e.item = x
  <2>1. e.event = "tool_end" /\ e.item = x
    BY DEF ToolEnd
  <2> QED
    BY <1>2, <2>1, EventsTyped
<1> HIDE DEF e
<1>5. PICK f \in PlainEvent :
            /\ log' = Append(Append(log, e), f)
            /\ working' = Append(working, e.item)
            /\ pc' = IF Tail(calls) = <<>> THEN "closing" ELSE "tool"
            /\ f.event = IF Tail(calls) = <<>> THEN "turn_end" ELSE "tool_start"
  BY <1>1, <1>4, NextToolEmits
<1>6. /\ Shown(log') = Append(Shown(log), x) /\ Shown(log) \in Seq(Item)
      /\ PublishedIn(log') = Append(PublishedIn(log), Publication(x))
      /\ Ended(log') = Ended(log) \cup (IF x.kind = "tool_result" THEN {x.call} ELSE {})
  BY <1>3, <1>4, <1>5, ShowsItem
<1>7. /\ working' = CommittedItems \o Shown(log')
      /\ Answered(Shown(log')) = Ended(log')
      /\ Task!Emit("run", x) /\ UNCHANGED Task!storeVars
  BY <1>1, <1>3, <1>4, <1>5, <1>6, TaskEmits
<1>8. Unanswered(Shown(log)) = calls /\ IsInjective(calls)
  BY <1>1 DEF InStep
<1>9. Unanswered(Shown(log')) = Tail(calls)
  BY <1>2, <1>6, <1>8, ResultPaysTheFirst
<1>10. Last(Shown(log')) = x
  BY <1>3, <1>6, LastAppend
<1>11. IsInjective(Tail(calls))
  <2>1. \A i, j \in DOMAIN calls : calls[i] = calls[j] => i = j
    BY <1>8 DEF IsInjective
  <2>2. /\ DOMAIN Tail(calls) = 1 .. Len(calls) - 1 /\ Len(calls) \in Nat
        /\ DOMAIN calls = 1 .. Len(calls)
        /\ \A i \in 1 .. Len(calls) - 1 : Tail(calls)[i] = calls[i + 1]
    BY <1>2
  <2>3. \A i, j \in DOMAIN Tail(calls) : Tail(calls)[i] = Tail(calls)[j] => i = j
    BY <2>1, <2>2
  <2> QED
    BY <2>3 DEF IsInjective
<1>12. InStep'
  <2>1. /\ working' = CommittedItems \o Shown(log')
        /\ Answered(Shown(log')) = Ended(log')
        /\ pc' = "tool" => Unanswered(Shown(log')) = calls' /\ IsInjective(calls')
        /\ pc' \notin {"tool", "done"} => Unanswered(Shown(log')) = <<>>
        /\ pc' \notin {"start", "calling", "opened", "streaming"}
        /\ Last(Shown(log')).kind # "user" /\ Last(Shown(log')).kind # "assistant"
    BY <1>1, <1>3, <1>5, <1>7, <1>9, <1>10, <1>11
  <2> QED
    BY <2>1 DEF InStep, Shown, Ended, Answered, Unanswered, IsInjective
<1>13. Task!EndTool("run", isError)
  <2>1. Task!MayStep("run") /\ ~Task!Settled("run")
    BY <1>1, <1>2, <1>8, TaskSees
  <2>2. Delta = Shown(log)
    BY DeltaIs
  <2>3. Task!UnansweredToolCalls(Delta) = calls
    BY <1>8, <2>2 DEF Unanswered
  <2>4. Task!ToolResult(Head(Task!UnansweredToolCalls(Delta)), isError) = x
    BY <2>3, SameOperators
  <2> QED
    BY <1>7, <2>1, <2>4 DEF Task!EndTool
<1> QED
  BY <1>2, <1>13, <1>12 DEF TaskMove, Task!TaskStep

\* A reminder.
LEMMA FollowUpRefines ==
  ASSUME TypeOK, TypeOK', InStep, FollowUp
  PROVE  InStep' /\ TaskMove
<1> DEFINE d == Event("agent_end")
           e == Reminder
           f == Event("agent_start")
           x == UserMessage
<1>0. /\ d \in PlainEvent /\ d.event = "agent_end"
      /\ f \in PlainEvent /\ f.event = "agent_start"
      /\ e \in Replayable /\ e.event = "follow_up" /\ e.item = x
      /\ x \in Item /\ x.kind = "user"
  <2>1. x \in Item /\ x.kind = "user"
    BY DEF Item, UserMessage
  <2> QED
    BY <2>1, EventsTyped DEF PlainEvent, Event, Reminder, Carrying
<1>1. /\ pc = "closing" /\ ~aborting /\ Room /\ pc' = "calling"
      /\ UNCHANGED <<outcome, aborting>> /\ batch' = batch /\ calls' = calls
      /\ Emit(<<d, e, f>>)
  BY DEF FollowUp, EndsAttempt, EnterAttempt, At, Reminder
<1>2. log' = Append(Append(Append(log, d), e), f) /\ working' = Append(working, x)
  BY <1>1, EmitReminder DEF TypeOK
<1> HIDE DEF d, e, f, x
<1>3. Append(log, d) \in Seq(LogEvent) /\ View(Append(log, d)) = View(log)
  BY <1>0, ViewPlain DEF TypeOK
<1>4. /\ Append(Append(log, d), e) \in Seq(LogEvent)
      /\ Shown(Append(Append(log, d), e)) = Append(Shown(log), x)
      /\ PublishedIn(Append(Append(log, d), e)) = Append(PublishedIn(log), Publication(x))
      /\ Ended(Append(Append(log, d), e)) = Ended(log) \cup {}
  BY <1>0, <1>3, ViewItem DEF View, Publication
<1>5. View(log') = View(Append(Append(log, d), e))
  BY <1>0, <1>2, <1>4, ViewPlain
<1>6. /\ Shown(log') = Append(Shown(log), x) /\ Shown(log) \in Seq(Item)
      /\ PublishedIn(log') = Append(PublishedIn(log), Publication(x))
      /\ Ended(log') = Ended(log) \cup (IF x.kind = "tool_result" THEN {x.call} ELSE {})
  BY <1>0, <1>4, <1>5, DeltaIs DEF View
<1>7. /\ working' = CommittedItems \o Shown(log')
      /\ Answered(Shown(log')) = Ended(log')
      /\ Task!Emit("run", x) /\ UNCHANGED Task!storeVars
  BY <1>0, <1>1, <1>2, <1>6, TaskEmits
<1>8. Unanswered(Shown(log)) = <<>> /\ Last(Shown(log)).kind # "user"
  BY <1>1 DEF InStep
<1>9. Unanswered(Shown(log')) = <<>>
  BY <1>6, <1>8, MessageOwesNothing DEF x
<1>10. Last(Shown(log')) = x
  BY <1>0, <1>6, LastAppend
<1>11. InStep'
  <2>1. /\ working' = CommittedItems \o Shown(log')
        /\ Answered(Shown(log')) = Ended(log')
        /\ pc' = "calling"
        /\ Unanswered(Shown(log')) = <<>>
        /\ Last(Shown(log')).kind # "assistant"
    BY <1>0, <1>1, <1>7, <1>9, <1>10
  <2> QED
    BY <2>1 DEF InStep, Shown, Ended, Answered, Unanswered
<1>12. Task!FollowUp("run")
  <2>1. Task!MayStep("run") /\ Task!Room("run") /\ Task!MayConclude("run")
    BY <1>1, <1>8, TaskSees DEF Task!MayConclude
  <2>2. Task!UserMessage = x
    BY SameOperators DEF x
  <2> QED
    BY <1>7, <2>1, <2>2 DEF Task!FollowUp
<1> QED
  BY <1>11, <1>12 DEF TaskMove, Task!TaskStep

\* Where nothing is shown, the buffer still says what the log shows.
LEMMA KeepsDelta ==
  ASSUME TypeOK, InStep, working' = working, View(log') = View(log)
  PROVE  /\ working' = CommittedItems \o Shown(log')
         /\ Answered(Shown(log')) = Ended(log') /\ Shown(log') = Shown(log)
  BY ShownUnchanged DEF InStep

\* The task is over.
LEMMA EndRefines ==
  ASSUME TypeOK, InStep, pc # "done", pc' = "done", aborting' = aborting,
         working' = working, View(log') = View(log)
  PROVE  InStep' /\ Task!TaskDone("run", Result')
<1>1. InStep'
  <2>1. /\ working' = CommittedItems \o Shown(log')
        /\ Answered(Shown(log')) = Ended(log')
    BY KeepsDelta
  <2> QED
    BY <2>1 DEF InStep, Shown, Ended, Answered
<1> QED
  BY <1>1, TaskEnds

\* The end of the last attempt.
LEMMA ReturnRefines ==
  ASSUME TypeOK, InStep, At("closing"), pc' = "done", aborting' = aborting,
         Emit(<<Event("agent_end")>>), Result' \in {"completed", "failed"}
  PROVE  InStep' /\ TaskMove
<1> DEFINE e == Event("agent_end")
<1>0. e \in PlainEvent /\ e.event = "agent_end" /\ e \in LogEvent /\ e \notin Replayable
  BY EventsTyped DEF PlainEvent, Event
<1>1. Emit(<<e>>) /\ log \in Seq(LogEvent) /\ working \in Seq(Item)
  BY DEF TypeOK
<1> HIDE DEF e
<1>2. log' = Append(log, e) /\ working' = working
  BY <1>0, <1>1, EmitOne
<1>3. View(log') = View(log)
  BY <1>0, <1>1, <1>2, ViewPlain
<1>4. pc = "closing" /\ ~aborting
  BY DEF At
<1>5. InStep' /\ Task!TaskDone("run", Result')
  BY <1>2, <1>3, <1>4, EndRefines
<1>6. Task!MayStep("run") /\ Task!MayConclude("run")
  BY <1>4, TaskSees DEF InStep, Task!MayConclude
<1>7. Task!Return("run", Result')
  BY <1>5, <1>6 DEF Task!Return
<1> QED
  BY <1>5, <1>7 DEF TaskMove, Task!TaskStep

\* A run that is answered.
LEMMA ConcludeRefines == ASSUME IInv, InStep, Conclude PROVE InStep' /\ TaskMove
<1>1. /\ At("closing") /\ pc' = "done" /\ outcome' = Conclusion /\ Conclusion # "none"
      /\ Emit(<<Event("agent_end")>>) /\ aborting' = aborting
  BY DEF Conclude, Done, EndsAttempt
<1>2. executions \o batch \in Seq(Execution) /\ TypeOK
  BY DEF IInv, TypeOK
<1>3. Conclusion \in {"none", "completed", "agent_failure"}
  BY <1>2, ConclusionIs DEF Conclusion
<1>4. Result' \in {"completed", "failed"}
  BY <1>1, <1>3 DEF Result
<1> QED
  BY <1>1, <1>2, <1>4, ReturnRefines

\* A run whose contract's attempts are used up.
LEMMA GiveUpRefines == ASSUME TypeOK, InStep, GiveUp PROVE InStep' /\ TaskMove
<1>1. /\ At("closing") /\ pc' = "done" /\ outcome' = "agent_failure"
      /\ Emit(<<Event("agent_end")>>) /\ aborting' = aborting
  BY DEF GiveUp, Done, EndsAttempt
<1>2. Result' \in {"completed", "failed"}
  BY <1>1 DEF Result
<1> QED
  BY <1>1, <1>2, ReturnRefines

\* A failed turn.
LEMMA FailTurnRefines == ASSUME TypeOK, InStep, FailTurn PROVE InStep' /\ TaskMove
<1> DEFINE e == Failure
<1>0. /\ e \in PlainEvent /\ e \in LogEvent /\ e \notin Replayable /\ e \in Visible
      /\ e.event = "message_failed"
  BY EventsTyped DEF PlainEvent, Event, Failure, Visible
<1>1. /\ pc \in {"opened", "streaming"} /\ ~aborting /\ pc' = "done"
      /\ outcome' = "execution_failure" /\ Emit(<<e>>) /\ aborting' = aborting
  BY DEF FailTurn, Done, At, Failure
<1>p. Publish(e) = [event |-> "failed_turn"]
  BY <1>0 DEF Publish
<1> HIDE DEF e
<1>2. log \in Seq(LogEvent) /\ working \in Seq(Item)
  BY DEF TypeOK
<1>3. log' = Append(log, e) /\ working' = working
  BY <1>0, <1>1, <1>2, EmitOne
<1>4. /\ Shown(log') = Shown(log)
      /\ PublishedIn(log') = Append(PublishedIn(log), Publish(e))
      /\ Ended(log') = Ended(log) \cup {}
  BY <1>0, <1>2, <1>3, ViewAppend
<1>5. Unanswered(Shown(log)) = <<>> /\ Result' = "failed"
  BY <1>1 DEF InStep, Result
<1>6. Task!FailTurn("run")
  BY <1>1, <1>3, <1>4, <1>5, <1>p, TaskFails
<1>7. InStep'
  <2>1. /\ working' = CommittedItems \o Shown(log')
        /\ Answered(Shown(log')) = Ended(log')
    BY <1>3, <1>4 DEF InStep
  <2> QED
    BY <1>1, <2>1 DEF InStep, Shown, Ended, Answered
<1> QED
  BY <1>6, <1>7 DEF TaskMove, Task!TaskStep

\* Anything else that is raised.
LEMMA RaiseRefines == ASSUME TypeOK, InStep, Raise PROVE InStep' /\ TaskMove
<1>1. /\ pc # "done" /\ ~aborting /\ pc' = "done" /\ aborting' = aborting
      /\ working' = working /\ log' = log /\ Result' = "failed"
  BY DEF Raise, Done, Result
<1>2. InStep' /\ Task!TaskDone("run", Result')
  BY <1>1, EndRefines
<1>3. Task!MayStep("run")
  BY <1>1, TaskSees
<1> QED
  BY <1>1, <1>2, <1>3 DEF TaskMove, Task!TaskStep, Task!Raise

\* A cancellation that has left the program.
LEMMA UnwindRefines == ASSUME TypeOK, InStep, Unwind PROVE InStep' /\ TaskMove
<1>1. /\ pc # "done" /\ aborting /\ pc' = "done" /\ aborting' = aborting
      /\ working' = working /\ log' = log /\ Result' \in {"aborted", "failed"}
  BY DEF Unwind, Done, Result
<1>2. InStep' /\ Task!TaskDone("run", Result')
  BY <1>1, EndRefines
<1>3. Task!Running("run")
  BY <1>1, TaskSees
<1>4. Task!Unwind("run")
  BY <1>1, <1>2, <1>3 DEF Task!Unwind
<1> QED
  BY <1>2, <1>4 DEF TaskMove

\* abort().
LEMMA AbortRefines == ASSUME TypeOK, InStep, Abort PROVE InStep' /\ TaskMove
<1>1. InStep'
  BY DEF InStep, Abort, turnVars, Shown, Ended, Answered, Unanswered, IsInjective
<1> QED
  BY <1>1, TaskAborts DEF TaskMove

\* A step of the program that RunLifecycle does not see.
LEMMA SilentRefines ==
  ASSUME TypeOK, InStep, pc # "done", pc' # "done", aborting' = aborting, outcome' = outcome,
         working' = working, View(log') = View(log), pc # "tool", pc' # "tool", pc' # "closing",
         pc \in {"start", "calling", "opened", "streaming"} \/ Last(Shown(log)).kind # "assistant"
  PROVE  InStep' /\ UNCHANGED Task!vars
<1>1. InStep'
  <2>1. /\ working' = CommittedItems \o Shown(log')
        /\ Answered(Shown(log')) = Ended(log')
        /\ Unanswered(Shown(log')) = <<>>
        /\ Last(Shown(log')).kind # "assistant"
    BY KeepsDelta DEF InStep
  <2> QED
    BY <2>1 DEF InStep, Shown, Ended, Answered, Unanswered
<1> QED
  BY <1>1, TaskStutters

\* The first attempt starts.
LEMMA StartRefines == ASSUME TypeOK, InStep, Start PROVE InStep' /\ UNCHANGED Task!vars
<1> DEFINE e == Event("agent_start")
<1>0. e \in PlainEvent /\ e.event = "agent_start" /\ e \in LogEvent /\ e \notin Replayable
  BY EventsTyped DEF PlainEvent, Event
<1>1. /\ pc = "start" /\ pc' = "calling" /\ Emit(<<e>>)
      /\ aborting' = aborting /\ outcome' = outcome
  BY DEF Start, EnterAttempt, At
<1>2. log \in Seq(LogEvent) /\ working \in Seq(Item)
  BY DEF TypeOK
<1> HIDE DEF e
<1>3. log' = Append(log, e) /\ working' = working
  BY <1>0, <1>1, <1>2, EmitOne
<1>4. View(log') = View(log)
  BY <1>0, <1>2, <1>3, ViewPlain
<1> QED
  BY <1>1, <1>3, <1>4, SilentRefines

\* The stream arrives.
LEMMA OpenStreamRefines == ASSUME TypeOK, InStep, OpenStream PROVE InStep' /\ UNCHANGED Task!vars
<1>1. /\ pc = "calling" /\ pc' = "opened" /\ log' = log /\ working' = working
      /\ aborting' = aborting /\ outcome' = outcome
  BY DEF OpenStream, At
<1> QED
  BY <1>1, SilentRefines

\* A message starts.
LEMMA StartMessageRefines ==
  ASSUME TypeOK, InStep, StartMessage
  PROVE  InStep' /\ UNCHANGED Task!vars
<1> DEFINE e == Event("turn_start")
           f == Event("message_start")
<1>0. /\ e \in PlainEvent /\ e \in LogEvent /\ e \notin Replayable /\ e.event = "turn_start"
      /\ f \in PlainEvent /\ f.event = "message_start"
  BY EventsTyped DEF PlainEvent, Event
<1>1. /\ pc = "opened" /\ pc' = "streaming" /\ Emit(<<e, f>>)
      /\ aborting' = aborting /\ outcome' = outcome
  BY DEF StartMessage, At, turnVars
<1>2. log \in Seq(LogEvent) /\ working \in Seq(Item)
  BY DEF TypeOK
<1> HIDE DEF e, f
<1>3. log' = Append(Append(log, e), f) /\ working' = working
  BY <1>0, <1>1, <1>2, EmitTwo
<1>4. Append(log, e) \in Seq(LogEvent) /\ View(Append(log, e)) = View(log)
  BY <1>0, <1>2, ViewPlain
<1>5. View(log') = View(log)
  BY <1>0, <1>3, <1>4, ViewPlain
<1> QED
  BY <1>1, <1>3, <1>5, SilentRefines

\* The loop goes on to the next turn.
LEMMA ContinueLoopRefines ==
  ASSUME TypeOK, InStep, ContinueLoop
  PROVE  InStep' /\ UNCHANGED Task!vars
<1>1. /\ pc = "closing" /\ pc' = "calling" /\ log' = log /\ working' = working
      /\ aborting' = aborting /\ outcome' = outcome /\ batch # <<>>
  BY DEF ContinueLoop, At, ShouldContinue
<1>2. Last(Shown(log)).kind # "assistant"
  BY <1>1 DEF InStep
<1> QED
  BY <1>1, <1>2, SilentRefines

\* Every step of the program.
LEMMA StepRefines ==
  ASSUME IInv, IInv', InStep, [Next]_vars
  PROVE  InStep' /\ [TaskMove]_(Task!vars)
<1>t. TypeOK /\ TypeOK' /\ Copies
  BY DEF IInv
<1>1. CASE UNCHANGED vars
  <2>1. InStep'
    BY <1>1 DEF InStep, vars, turnVars, Shown, Ended, Answered, Unanswered, IsInjective
  <2>2. log' = log /\ working' = working /\ pc' = pc /\ aborting' = aborting /\ outcome' = outcome
    BY <1>1 DEF vars
  <2>3. UNCHANGED Task!vars
    BY <1>t, <2>2, TaskStutters
  <2> QED
    BY <2>1, <2>3
<1>2. CASE Next
  <2>1. CASE Start
    BY <1>t, <2>1, StartRefines
  <2>2. CASE OpenStream
    BY <1>t, <2>2, OpenStreamRefines
  <2>3. CASE StartMessage
    BY <1>t, <2>3, StartMessageRefines
  <2>4. ASSUME NEW asked \in CallLists, NEW length \in BOOLEAN, CompleteTurn(asked, length)
        PROVE  InStep' /\ TaskMove
    BY <1>t, <2>4, CompleteTurnRefines
  <2>5. ASSUME NEW effect \in Effect, EndTool(effect) PROVE InStep' /\ TaskMove
    BY <1>t, <2>5, EndToolRefines
  <2>6. CASE ContinueLoop
    BY <1>t, <2>6, ContinueLoopRefines
  <2>7. CASE Conclude
    BY <2>7, ConcludeRefines
  <2>8. CASE FollowUp
    BY <1>t, <2>8, FollowUpRefines
  <2>9. CASE GiveUp
    BY <1>t, <2>9, GiveUpRefines
  <2>10. CASE FailTurn
    BY <1>t, <2>10, FailTurnRefines
  <2>11. CASE Raise
    BY <1>t, <2>11, RaiseRefines
  <2>12. CASE Abort
    BY <1>t, <2>12, AbortRefines
  <2>13. CASE Unwind
    BY <1>t, <2>13, UnwindRefines
  <2> QED
    BY <1>2, <2>1, <2>2, <2>3, <2>4, <2>5, <2>6, <2>7, <2>8, <2>9, <2>10, <2>11, <2>12, <2>13
       DEF Next
<1> QED
  BY <1>1, <1>2

\* An accepted prompt is all there is to see at first.
LEMMA InitShows == Init => InStep
<1> SUFFICES ASSUME Init PROVE InStep
  OBVIOUS
<1>1. /\ pc = "start" /\ log = <<>> /\ working = Append(CommittedItems, UserMessage)
      /\ CommittedItems \in Seq(Item) /\ UserMessage \in Item /\ UserMessage.kind = "user"
  BY AgentLoopAssumption DEF Init, Item, UserMessage
<1>2. Shown(log) = <<UserMessage>>
  <2>1. <<UserMessage>> \in Seq(Item)
    BY <1>1
  <2>2. <<UserMessage>> \o <<>> = <<UserMessage>>
    BY <2>1, ConcatEmptySeq
  <2> QED
    BY <1>1, <2>2, ItemsEmpty DEF Shown
<1>3. working = CommittedItems \o Shown(log)
  BY <1>1, <1>2, AppendIsConcat
<1>4. Ended(log) = {}
  BY <1>1 DEF Ended
<1>5. Answered(Shown(log)) = {}
  <2> DEFINE d == Shown(log)
  <2>1. DOMAIN d = {1} /\ d[1].kind = "user"
    BY <1>1, <1>2
  <2> HIDE DEF d
  <2>2. Answered(d) = {}
    BY <2>1 DEF Answered, Task!Answered
  <2> QED
    BY <2>2 DEF d
<1>6. Unanswered(Shown(log)) = <<>>
  BY <1>2, PromptOwesNothing
<1>7. Last(Shown(log)) = UserMessage
  BY <1>2 DEF Last
<1> QED
  BY <1>1, <1>3, <1>4, <1>5, <1>6, <1>7 DEF InStep

\* What run_agent and execute_prompt emit, step by step, is what RunLifecycle allows the
\* task of a run: turns in order, results for the open calls one by one, reminders after
\* an attempt, an answer only when none is open.
THEOREM ProgramIsATask == Spec => StepsAreTaskSteps
<1>1. IInv /\ IInv' /\ InStep /\ [Next]_vars => InStep' /\ [TaskMove]_(Task!vars)
  BY StepRefines
<1>2. [][TaskMove]_(Task!vars) => StepsAreTaskSteps
  BY DEF TaskMove, StepsAreTaskSteps
<1> QED
  BY <1>1, <1>2, InitShows, LoopInductive, PTL DEF Spec
=============================================================================
