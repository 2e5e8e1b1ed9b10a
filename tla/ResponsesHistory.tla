-------------------------- MODULE ResponsesHistory --------------------------
(***************************************************************************)
(* translateResponsesInput (responses.go): the items of a Responses        *)
(* request, which replay the conversation so far, become the messages of a *)
(* Chat Completions request.                                               *)
(*                                                                         *)
(* An action is one turn of the loop over items.  Which item comes next is *)
(* what a client may have recorded.  An answer of the model is what the    *)
(* proxy gave it: reasoning, messages and function calls, in this order    *)
(* and with one message from responsesNonStreaming, in any order and       *)
(* number from responsesStreaming (module ResponsesStream).  The outputs   *)
(* of the client's tools are recorded after the answer, or those of the    *)
(* calls so far before the answer goes on, and all of them before the user *)
(* speaks again.  What the texts say is left out (see ChatHistory).        *)
(* ReplayedHistory states what the messages must be.                       *)
(***************************************************************************)
EXTENDS Naturals, Sequences, ChatHistory

CONSTANTS
  MaxAnswers,    \* bound: answers of the model in the conversation
  MaxCalls,      \* bound: function calls in one answer
  MaxMessages    \* bound: no text, the user's or the model's, is added behind
                 \* so many messages

VARIABLES
  messages,          \* the messages built so far
  pendingReasoning,  \* the answer whose reasoning waits for its turn, or 0
  answer,            \* the model's answers so far
  last,              \* the last item of the conversation
  called,            \* calls made in this answer so far
  unanswered,        \* calls whose output the client has not recorded
  reasoned,          \* the answers that began with reasoning
  grouped,           \* history variable: so far no item of an answer was
                     \* recorded behind the output of one of its calls
  textFirst          \* history variable: so far each answer had its text in one
                     \* message, before its calls

vars == <<messages, pendingReasoning, answer, last, called, unanswered, reasoned,
          grouped, textFirst>>

Answers == 1..MaxAnswers
CallIDs == Answers \X (1..MaxCalls)

\* The instructions, if there are any.
Init ==
  /\ messages \in {<<>>, <<Message("system", 0, 0, {}, NoCall)>>}
  /\ pendingReasoning = 0
  /\ answer = 0
  /\ last = "none"
  /\ called = 0
  /\ unanswered = {}
  /\ reasoned = {}
  /\ grouped = TRUE
  /\ textFirst = TRUE

-----------------------------------------------------------------------------
\* The model answers the user, or the outputs of its calls.
BeginAnswer ==
  /\ last = "input" \/ (last = "output" /\ unanswered = {})
  /\ answer < MaxAnswers
  /\ answer' = answer + 1
  /\ UNCHANGED grouped

\* The answer goes on.
ContinueAnswer ==
  /\ last \in {"reasoning", "message", "call"} \/ (last = "output" /\ unanswered = {})
  /\ answer' = answer
  /\ grouped' = (grouped /\ last # "output")

CalledSoFar == IF answer' = answer THEN called ELSE 0

EndsWithAssistant ==
  messages # <<>> /\ messages[Len(messages)].role = "assistant"

\* normalizeResponsesRole, for the roles that are not the assistant's.
NormalRole(role) == IF role \in {"system", "developer"} THEN "system" ELSE "user"

\* Mutant: reasoning that no turn took is kept past the user's message.
InputMessageKeeps(role) ==
  /\ unanswered = {}
  /\ Len(messages) < MaxMessages
  /\ messages' = Append(messages, Message(NormalRole(role), 0, 0, {}, NoCall))
  /\ last' = "input"
  /\ UNCHANGED <<pendingReasoning, answer, called, unanswered, reasoned, grouped, textFirst>>

\* case "message", any role but the assistant's.
InputMessage(role) ==
  /\ unanswered = {}
  /\ Len(messages) < MaxMessages
  /\ messages' = Append(messages, Message(NormalRole(role), 0, 0, {}, NoCall))
  /\ pendingReasoning' = 0
  /\ last' = "input"
  /\ UNCHANGED <<answer, called, unanswered, reasoned, grouped, textFirst>>

\* case "reasoning"
Reasoning ==
  /\ \/ BeginAnswer /\ reasoned' = reasoned \cup {answer'}
     \/ ContinueAnswer /\ UNCHANGED reasoned
  /\ called' = CalledSoFar
  /\ pendingReasoning' = answer'
  /\ last' = "reasoning"
  /\ UNCHANGED <<messages, unanswered, textFirst>>

\* Mutant: the message does not take the reasoning that is pending.
AssistantMessagePlain ==
  /\ BeginAnswer \/ ContinueAnswer
  /\ Len(messages) < MaxMessages
  /\ called' = CalledSoFar
  /\ messages' = Append(messages, Message("assistant", answer', 0, {}, NoCall))
  /\ pendingReasoning' = 0
  /\ last' = "message"
  /\ textFirst' = (textFirst /\ called' = 0 /\ ~EndsWithAssistant)
  /\ UNCHANGED <<unanswered, reasoned>>

\* case "message", role assistant.
AssistantMessage ==
  /\ BeginAnswer \/ ContinueAnswer
  /\ Len(messages) < MaxMessages
  /\ called' = CalledSoFar
  /\ messages' = Append(messages,
                        Message("assistant", answer', pendingReasoning, {}, NoCall))
  /\ pendingReasoning' = 0
  /\ last' = "message"
  /\ textFirst' = (textFirst /\ called' = 0 /\ ~EndsWithAssistant)
  /\ UNCHANGED <<unanswered, reasoned>>

\* Mutant: every call is a message of its own.
WithCallAlone(id) ==
  Append(messages, Message("assistant", 0, pendingReasoning, {id}, NoCall))

\* A call joins the assistant message before it, or is a message of its own.
WithCall(id) ==
  IF EndsWithAssistant
    THEN [messages EXCEPT ![Len(messages)].calls = @ \cup {id},
                          ![Len(messages)].reasoning =
                             IF @ = 0 THEN pendingReasoning ELSE @]
    ELSE Append(messages, Message("assistant", 0, pendingReasoning, {id}, NoCall))

\* case "function_call"
FunctionCall ==
  /\ BeginAnswer \/ ContinueAnswer
  /\ CalledSoFar < MaxCalls
  /\ called' = CalledSoFar + 1
  /\ messages' = WithCall(<<answer', called'>>)
  /\ unanswered' = unanswered \cup {<<answer', called'>>}
  /\ pendingReasoning' = 0
  /\ last' = "call"
  /\ UNCHANGED <<reasoned, textFirst>>

\* case "function_call_output"
FunctionCallOutput(id) ==
  /\ id \in unanswered
  /\ messages' = Append(messages, Message("tool", 0, 0, {}, id))
  /\ unanswered' = unanswered \ {id}
  /\ pendingReasoning' = 0
  /\ last' = "output"
  /\ UNCHANGED <<answer, called, reasoned, grouped, textFirst>>

Next ==
  \/ \E role \in {"user", "system", "developer"} : InputMessage(role)
  \/ Reasoning \/ AssistantMessage \/ FunctionCall
  \/ \E id \in CallIDs : FunctionCallOutput(id)
=============================================================================
