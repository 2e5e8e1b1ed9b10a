-------------------------- MODULE AnthropicHistory --------------------------
(***************************************************************************)
(* translateAnthropicMessages (anthropic.go): the messages of an Anthropic *)
(* request, which replay the conversation so far, become the messages of a *)
(* Chat Completions request.                                               *)
(*                                                                         *)
(* An action is one turn of the loop over req.Messages.  An answer of the  *)
(* model holds any of thinking, text and tool_use blocks; the user's next  *)
(* message holds the results of all its tools, in any order, with or       *)
(* without text and images among them.  What the texts say is left out     *)
(* (see ChatHistory), and messages that cannot be decoded.                 *)
(* ReplayedHistory states what the messages must be.                       *)
(***************************************************************************)
EXTENDS ChatHistory, SequencesExt

CONSTANTS
  MaxAnswers,    \* bound: answers of the model in the conversation
  MaxCalls       \* bound: tool calls in one answer

VARIABLES
  messages,      \* the messages built so far
  answer,        \* the model's answers so far
  speaker,       \* whose message is next
  unanswered,    \* calls whose result the client has not sent
  reasoned       \* the answers that hold thinking

vars == <<messages, answer, speaker, unanswered, reasoned>>

Answers == 1..MaxAnswers
CallIDs == Answers \X (1..MaxCalls)

\* extractSystemContent
Init ==
  /\ messages \in {<<>>, <<Message("system", 0, 0, {}, NoCall)>>}
  /\ answer = 0
  /\ speaker = "user"
  /\ unanswered = {}
  /\ reasoned = {}

-----------------------------------------------------------------------------
\* case "tool_result"
ToolResults(order) ==
  [i \in DOMAIN order |-> Message("tool", 0, 0, {}, order[i])]

UserText(text) == IF text THEN <<Message("user", 0, 0, {}, NoCall)>> ELSE <<>>

\* Mutant: the results are dropped from a message that holds text.
ConvertUserBlocksText(order, text) ==
  IF text THEN UserText(text) ELSE ToolResults(order)

\* convertUserBlocks: the text of the message comes before its tool results.
ConvertUserBlocks(order, text) == UserText(text) \o ToolResults(order)

\* convertAssistantBlocks: one message, whatever the blocks and their order.
ConvertAssistantBlocks(thinking, text, calls) ==
  <<Message("assistant", IF text THEN answer + 1 ELSE 0,
            IF thinking THEN answer + 1 ELSE 0, calls, NoCall)>>

UserMessage ==
  /\ speaker = "user"
  /\ \E order \in SetToSeqs(unanswered), text \in BOOLEAN :
       /\ order = <<>> => text
       /\ messages' = messages \o ConvertUserBlocks(order, text)
  /\ unanswered' = {}
  /\ speaker' = "assistant"
  /\ UNCHANGED <<answer, reasoned>>

AssistantMessage ==
  /\ speaker = "assistant"
  /\ answer < MaxAnswers
  /\ answer' = answer + 1
  /\ \E thinking, text \in BOOLEAN, n \in 0..MaxCalls :
       LET calls == {<<answer + 1, k>> : k \in 1..n}
       IN /\ thinking \/ text \/ n > 0
          /\ messages' = messages \o ConvertAssistantBlocks(thinking, text, calls)
          /\ unanswered' = calls
          /\ reasoned' = IF thinking THEN reasoned \cup {answer + 1} ELSE reasoned
  /\ speaker' = "user"

Next == UserMessage \/ AssistantMessage
=============================================================================
