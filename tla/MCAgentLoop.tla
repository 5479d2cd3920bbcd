---------------------------- MODULE MCAgentLoop ----------------------------
(* A session with one earlier exchange; two follow-ups; turns with up to two *)
(* tool calls.                                                               *)
EXTENDS AgentLoop
CONSTANTS c1, c2, c3
MCCallId == {c1, c2, c3}
MCCallLists == {<<>>, <<c1>>, <<c1, c2>>, <<c2, c3>>}
MCCommitted == <<UserMessage, AssistantTurn(<<>>)>>
=============================================================================
