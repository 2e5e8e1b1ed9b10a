---------------------------- MODULE ChatHistory ----------------------------
(***************************************************************************)
(* What a Chat Completions upstream requires of the messages of a request  *)
(* (external: how the proxy's code and comments describe the upstream).    *)
(*                                                                         *)
(* A message is a record [role, content, reasoning, calls, answer].  The   *)
(* answers of the model are numbered: content and reasoning are the number *)
(* of the answer the text comes from, 0 where there is none; calls is the  *)
(* set of tool calls the message makes and answer the call it answers,     *)
(* each call a pair of the number of its answer and a number in it.        *)
(***************************************************************************)
EXTENDS Naturals, Sequences

NoCall == <<0, 0>>

Message(role, content, reasoning, calls, answer) ==
  [role |-> role, content |-> content, reasoning |-> reasoning,
   calls |-> calls, answer |-> answer]

\* The answers a message of the model has something of.
AnswersIn(message) ==
  ({message.content, message.reasoning} \cup {call[1] : call \in message.calls}) \ {0}

\* reasoned is the set of the answers that began with reasoning: a message
\* with tool calls carries the reasoning of the answer that made them.
CarryReasoning(messages, reasoned) ==
  \A i \in DOMAIN messages : \A call \in messages[i].calls :
    call[1] \in reasoned => messages[i].reasoning = call[1]

\* Such a message, or one before it, carries that reasoning.
FollowReasoning(messages, reasoned) ==
  \A i \in DOMAIN messages : \A call \in messages[i].calls :
    call[1] \in reasoned => \E j \in 1..i : messages[j].reasoning = call[1]

\* Reasoning is attached to text and calls of its own answer only.
OwnReasoning(messages) ==
  \A i \in DOMAIN messages :
    messages[i].reasoning # 0 =>
      /\ messages[i].role = "assistant"
      /\ messages[i].content \in {0, messages[i].reasoning}
      /\ \A call \in messages[i].calls : call[1] = messages[i].reasoning
=============================================================================
