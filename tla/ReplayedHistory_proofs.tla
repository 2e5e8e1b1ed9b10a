------------------------ MODULE ReplayedHistory_proofs ------------------------
(***************************************************************************)
(* Proofs about the history an upstream is sent, from a client of either   *)
(* translated protocol (module ReplayedHistory).  Inv, at the end of the   *)
(* definitions, is the inductive invariant.                                *)
(*                                                                         *)
(* HistoryInv holds of both translations.  Its parts TypeInv, CarryInv,    *)
(* OwnInv, FollowInv and AnsweredInv are what the properties ask of the    *)
(* messages; CallInv and PendingInv tell where the calls are that are not  *)
(* answered yet, so that their outputs can be shown to follow them.        *)
(* ResponsesInv and AnthropicInv relate the variables of each loop to the  *)
(* last message; CarriedInv, a part of the first, tells that the reasoning *)
(* of an answer was attached once it is pending no more.                   *)
(*                                                                         *)
(* A turn of either loop adds messages that are not the model's, adds one  *)
(* of the model's, or lets a call join the last one: AnswersKeepHistory,   *)
(* SpeakingKeepsHistory and JoiningKeepsHistory are about these.           *)
(***************************************************************************)
EXTENDS ReplayedHistory, SequenceTheorems, FiniteSetTheorems, TLAPS

(***************************************************************************)
(* The fields of a message.                                                *)
(***************************************************************************)
\* Who speaks.
RoleOf(message) == message.role
\* The answer its text is of.
ContentOf(message) == message.content
\* The answer its reasoning is of.
ReasoningOf(message) == message.reasoning
\* The tool calls it makes.
CallsOf(message) == message.calls
\* The tool call it answers.
AnswerOf(message) == message.answer

\* MayStandBetween, of a protocol p, of textFirst and by the fields.
Between(p, first, message, call) ==
  \/ RoleOf(message) = "tool"
  \/ p = "anthropic" /\ RoleOf(message) = "user"
  \/ ~first /\ RoleOf(message) = "assistant" /\ call[1] \in AnswersIn(message)

\* All messages.
Messages == [role : {"system", "user", "assistant", "tool"}, content : Nat, reasoning : Nat,
             calls : SUBSET (Nat \X Nat), answer : Nat \X Nat]

(***************************************************************************)
(* The inductive invariant.                                                *)
(***************************************************************************)
\* The types; an answer that began with reasoning is one of those given.
TypeInv ==
  /\ protocol \in {"responses", "anthropic"}
  /\ messages \in Seq(Messages)
  /\ answer \in Nat /\ reasoned \subseteq 1..answer
  /\ grouped \in BOOLEAN /\ textFirst \in BOOLEAN

\* Calls are the model's, and answered behind their message or still open.
CallInv ==
  \A i \in 1..Len(messages) : \A call \in CallsOf(messages[i]) :
    /\ RoleOf(messages[i]) = "assistant" /\ call[1] \in 0..answer
    /\ call \in unanswered \/ \E k \in i..Len(messages) : AnswerOf(messages[k]) = call

\* From the message of an open call on, an answer could still follow it.
PendingInv ==
  \A call \in unanswered :
    \E j \in 1..Len(messages) :
      /\ call \in CallsOf(messages[j])
      /\ \A k \in (j + 1)..Len(messages) : Between(protocol, textFirst, messages[k], call)

\* Calls stand in the message that carries the reasoning of their answer or
\* behind it, if the items of answers were grouped.
CarryInv ==
  grouped =>
    \A i \in 1..Len(messages) : \A call \in CallsOf(messages[i]) :
      call[1] \in reasoned =>
        /\ \E j \in 1..i : ReasoningOf(messages[j]) = call[1]
        /\ textFirst => ReasoningOf(messages[i]) = call[1]

\* Reasoning is with the text and calls of its own answer.
OwnInv ==
  \A i \in 1..Len(messages) :
    ReasoningOf(messages[i]) # 0 =>
      /\ RoleOf(messages[i]) = "assistant"
      /\ ContentOf(messages[i]) \in {0, ReasoningOf(messages[i])}
      /\ \A call \in CallsOf(messages[i]) : call[1] = ReasoningOf(messages[i])

\* Outputs stand behind their calls.
FollowInv ==
  \A i \in 1..Len(messages) :
    RoleOf(messages[i]) = "tool" =>
      \E j \in 1..(i - 1) :
        /\ AnswerOf(messages[i]) \in CallsOf(messages[j])
        /\ \A k \in (j + 1)..(i - 1) :
             Between(protocol, textFirst, messages[k], AnswerOf(messages[i]))

\* Calls are answered before the model gives another answer.
AnsweredInv ==
  \A i, j \in 1..Len(messages) :
    i < j /\ RoleOf(messages[j]) = "assistant" =>
      \A call \in CallsOf(messages[i]) :
        call[1] \notin AnswersIn(messages[j]) =>
          \E k \in i..j : AnswerOf(messages[k]) = call

\* What holds of the messages whichever the protocol.
HistoryInv ==
  TypeInv /\ CallInv /\ PendingInv /\ CarryInv /\ OwnInv /\ FollowInv /\ AnsweredInv

\* The message is of the answer that is being replayed.
OfAnswer(message) ==
  /\ RoleOf(message) = "assistant"
  /\ ContentOf(message) \in {0, answer} /\ ReasoningOf(message) \in {0, answer}
  /\ \A call \in CallsOf(message) : call[1] = answer
  /\ grouped /\ textFirst /\ answer \in reasoned => ReasoningOf(message) = answer

\* The reasoning of the answer that is being replayed is attached, or pending.
CarriedInv ==
  grouped /\ last \in {"message", "call"} /\ answer \in reasoned =>
    \E j \in 1..Len(messages) : ReasoningOf(messages[j]) = answer

\* The last message is the model's.
SpokeLast == messages # <<>> /\ RoleOf(messages[Len(messages)]) = "assistant"

\* translateResponsesInput: reasoning is pending right behind its item, open
\* calls are of the answer that is being replayed, and the last message is the
\* model's only if an item of its answer was the last.
ResponsesInv ==
  protocol = "responses" =>
    /\ called \in Nat
    /\ pendingReasoning = IF last = "reasoning" THEN answer ELSE 0
    /\ last \in {"none", "input"} => unanswered = {}
    /\ last \in {"reasoning", "message", "call", "output"} => answer # 0
    /\ \A call \in unanswered : call[1] = answer /\ called # 0
    /\ SpokeLast => /\ last \in {"reasoning", "message", "call"}
                    /\ OfAnswer(messages[Len(messages)])
    /\ ~SpokeLast => /\ last \notin {"message", "call"}
                     /\ last = "reasoning" => unanswered = {}
    /\ CarriedInv

\* translateAnthropicMessages: calls are open while the user is to speak.
AnthropicInv ==
  protocol = "anthropic" =>
    /\ speaker # "user" => unanswered = {}
    /\ IsFiniteSet(unanswered)

\* The inductive invariant of ReplayedHistory.
Inv == HistoryInv /\ ResponsesInv /\ AnthropicInv

-----------------------------------------------------------------------------
\* What the user, the system and the tools add to the messages: nothing that
\* is the model's, and while calls are open nothing that may not stand between
\* them and their answers.
Answers(old, new) ==
  /\ Len(old) <= Len(new)
  /\ \A i \in 1..Len(old) : new[i] = old[i]
  /\ \A i \in (Len(old) + 1)..Len(new) :
       /\ RoleOf(new[i]) # "assistant" /\ CallsOf(new[i]) = {} /\ ReasoningOf(new[i]) = 0
       /\ \A call \in unanswered : Between(protocol, textFirst, new[i], call)
       /\ RoleOf(new[i]) = "tool" => AnswerOf(new[i]) \in unanswered

\* The call is answered from message i to message j.
AnsweredWithin(call, i, j) == \E k \in i..j : AnswerOf(messages[k]) = call

\* What AnsweredInv says of two messages.
LEMMA AnsweredBetween ==
  ASSUME HistoryInv, NEW i \in 1..Len(messages), NEW j \in 1..Len(messages), i < j,
         RoleOf(messages[j]) = "assistant", NEW call \in CallsOf(messages[i]),
         call[1] \notin AnswersIn(messages[j])
  PROVE  AnsweredWithin(call, i, j)
<1>1. \A x, y \in 1..Len(messages) :
        x < y /\ RoleOf(messages[y]) = "assistant" =>
          \A c \in CallsOf(messages[x]) :
            c[1] \notin AnswersIn(messages[y]) => \E k \in x..y : AnswerOf(messages[k]) = c
  BY DEF HistoryInv, AnsweredInv
<1>2. \A c \in CallsOf(messages[i]) :
        c[1] \notin AnswersIn(messages[j]) => \E k \in i..j : AnswerOf(messages[k]) = c
  BY <1>1
<1> QED
  BY <1>2 DEF AnsweredWithin

LEMMA AnswersKeepHistory ==
  ASSUME HistoryInv, messages' \in Seq(Messages), Answers(messages, messages'),
         UNCHANGED <<protocol, answer, reasoned, grouped, textFirst>>,
         unanswered' \subseteq unanswered,
         \A call \in unanswered \ unanswered' :
           \E k \in (Len(messages) + 1)..Len(messages') : AnswerOf(messages'[k]) = call
  PROVE  HistoryInv'
<1> DEFINE n == Len(messages)
           n1 == Len(messages)'
<1>1. /\ n \in Nat /\ n1 \in Nat /\ n <= n1
      /\ \A i \in 1..n : messages'[i] = messages[i]
      /\ \A i \in (n + 1)..n1 :
           /\ RoleOf(messages'[i]) # "assistant" /\ CallsOf(messages'[i]) = {}
           /\ ReasoningOf(messages'[i]) = 0
           /\ \A call \in unanswered : Between(protocol, textFirst, messages'[i], call)
           /\ RoleOf(messages'[i]) = "tool" => AnswerOf(messages'[i]) \in unanswered
      /\ \A i \in 1..n1 : i \in 1..n \/ i \in (n + 1)..n1
      /\ \A call \in unanswered \ unanswered' :
           \E k \in (n + 1)..n1 : AnswerOf(messages'[k]) = call
      /\ UNCHANGED <<protocol, textFirst>>
  <2>1. messages \in Seq(Messages)
    BY DEF HistoryInv, TypeInv
  <2>2. Len(messages) \in Nat /\ Len(messages') \in Nat
    BY <2>1, LenProperties
  <2>3. \A i \in 1..n1 : i \in 1..n \/ i \in (n + 1)..n1
    BY <2>2
  <2> HIDE DEF n, n1
  <2> QED
    BY <2>2, <2>3 DEF Answers, n, n1
<1> HIDE DEF n, n1
<1>2. TypeInv'
  BY DEF HistoryInv, TypeInv
<1>3. ASSUME NEW i \in 1..n1, NEW call \in CallsOf(messages'[i])
      PROVE  /\ i \in 1..n /\ call \in CallsOf(messages[i]) /\ messages'[i] = messages[i]
  BY <1>1
<1>4. CallInv'
  <2>1. ASSUME NEW i \in 1..n1, NEW call \in CallsOf(messages'[i])
        PROVE  /\ RoleOf(messages'[i]) = "assistant" /\ call[1] \in 0..answer
               /\ call \in unanswered' \/ \E k \in i..n1 : AnswerOf(messages'[k]) = call
    <3>1. i \in 1..n /\ call \in CallsOf(messages[i]) /\ messages'[i] = messages[i]
      BY <1>3
    <3>2. /\ RoleOf(messages[i]) = "assistant" /\ call[1] \in 0..answer
          /\ call \in unanswered \/ \E k \in i..n : AnswerOf(messages[k]) = call
      BY <3>1 DEF HistoryInv, CallInv, n
    <3>3. CASE \E k \in i..n : AnswerOf(messages[k]) = call
      <4>1. PICK k \in i..n : AnswerOf(messages[k]) = call
        BY <3>3
      <4>2. k \in i..n1 /\ AnswerOf(messages'[k]) = call
        BY <1>1, <3>1, <4>1
      <4> QED
        BY <3>1, <3>2, <4>2
    <3>4. CASE call \in unanswered \ unanswered'
      <4>1. PICK k \in (n + 1)..n1 : AnswerOf(messages'[k]) = call
        BY <1>1, <3>4
      <4>2. k \in i..n1
        BY <1>1, <3>1, <4>1
      <4> QED
        BY <3>1, <3>2, <4>1, <4>2
    <3> QED
      BY <3>1, <3>2, <3>3, <3>4
  <2> QED
    BY <2>1 DEF CallInv, n1
<1>5. PendingInv'
  <2>1. ASSUME NEW call \in unanswered'
        PROVE  \E j \in 1..n1 :
                 /\ call \in CallsOf(messages'[j])
                 /\ \A k \in (j + 1)..n1 : Between(protocol, textFirst, messages'[k], call)
    <3>1. PICK j \in 1..n :
                 /\ call \in CallsOf(messages[j])
                 /\ \A k \in (j + 1)..n : Between(protocol, textFirst, messages[k], call)
      BY DEF HistoryInv, PendingInv, n
    <3>2. j \in 1..n1 /\ call \in CallsOf(messages'[j])
      BY <1>1, <3>1
    <3>3. ASSUME NEW k \in (j + 1)..n1
          PROVE  Between(protocol, textFirst, messages'[k], call)
      <4>1. CASE k \in 1..n
        BY <1>1, <3>1, <4>1
      <4>2. CASE k \in (n + 1)..n1
        BY <1>1, <4>2
      <4> QED
        BY <1>1, <3>1, <4>1, <4>2
    <3> QED
      BY <3>2, <3>3
  <2> QED
    BY <1>1, <2>1 DEF PendingInv, n1
<1>6. CarryInv'
  <2>1. ASSUME NEW i \in 1..n1, NEW call \in CallsOf(messages'[i]), grouped,
               call[1] \in reasoned
        PROVE  /\ \E j \in 1..i : ReasoningOf(messages'[j]) = call[1]
               /\ textFirst => ReasoningOf(messages'[i]) = call[1]
    <3>1. i \in 1..n /\ call \in CallsOf(messages[i]) /\ messages'[i] = messages[i]
      BY <1>3
    <3>2. /\ \E j \in 1..i : ReasoningOf(messages[j]) = call[1]
          /\ textFirst => ReasoningOf(messages[i]) = call[1]
      BY <2>1, <3>1 DEF HistoryInv, CarryInv, n
    <3>3. \A j \in 1..i : messages'[j] = messages[j]
      BY <1>1, <3>1
    <3> QED
      BY <3>1, <3>2, <3>3
  <2> QED
    BY <2>1 DEF CarryInv, n1
<1>7. OwnInv'
  <2>1. ASSUME NEW i \in 1..n1, ReasoningOf(messages'[i]) # 0
        PROVE  i \in 1..n /\ messages'[i] = messages[i]
    BY <1>1, <2>1
  <2> QED
    BY <2>1 DEF HistoryInv, OwnInv, n, n1
<1>8. FollowInv'
  <2>1. ASSUME NEW i \in 1..n1, RoleOf(messages'[i]) = "tool"
        PROVE  \E j \in 1..(i - 1) :
                 /\ AnswerOf(messages'[i]) \in CallsOf(messages'[j])
                 /\ \A k \in (j + 1)..(i - 1) :
                      Between(protocol, textFirst, messages'[k], AnswerOf(messages'[i]))
    <3>1. CASE i \in 1..n
      <4>1. PICK j \in 1..(i - 1) :
                 /\ AnswerOf(messages[i]) \in CallsOf(messages[j])
                 /\ \A k \in (j + 1)..(i - 1) :
                      Between(protocol, textFirst, messages[k], AnswerOf(messages[i]))
        BY <1>1, <2>1, <3>1 DEF HistoryInv, FollowInv, n
      <4>2. \A k \in 1..i : messages'[k] = messages[k]
        BY <1>1, <3>1
      <4>3. i \in 1..i /\ j \in 1..i /\ \A k \in (j + 1)..(i - 1) : k \in 1..i
        BY <1>1, <3>1, <4>1
      <4> QED
        BY <4>1, <4>2, <4>3
    <3>2. CASE i \in (n + 1)..n1
      <4>1. AnswerOf(messages'[i]) \in unanswered
        BY <1>1, <2>1, <3>2
      <4>2. PICK j \in 1..n :
                 /\ AnswerOf(messages'[i]) \in CallsOf(messages[j])
                 /\ \A k \in (j + 1)..n :
                      Between(protocol, textFirst, messages[k], AnswerOf(messages'[i]))
        BY <4>1 DEF HistoryInv, PendingInv, n
      <4>3. j \in 1..(i - 1) /\ messages'[j] = messages[j]
        BY <1>1, <3>2, <4>2
      <4>4. ASSUME NEW k \in (j + 1)..(i - 1)
            PROVE  Between(protocol, textFirst, messages'[k], AnswerOf(messages'[i]))
        <5>1. CASE k \in 1..n
          BY <1>1, <4>2, <5>1
        <5>2. CASE k \in (n + 1)..n1
          BY <1>1, <4>1, <5>2
        <5> QED
          BY <1>1, <3>2, <4>2, <5>1, <5>2
      <4> QED
        BY <4>2, <4>3, <4>4
    <3> QED
      BY <1>1, <3>1, <3>2
  <2> QED
    BY <1>1, <2>1 DEF FollowInv, n1
<1>9. AnsweredInv'
  <2>1. ASSUME NEW i \in 1..n1, NEW j \in 1..n1, i < j, RoleOf(messages'[j]) = "assistant",
               NEW call \in CallsOf(messages'[i]), call[1] \notin AnswersIn(messages'[j])
        PROVE  \E k \in i..j : AnswerOf(messages'[k]) = call
    <3>1. i \in 1..n /\ j \in 1..n /\ messages'[j] = messages[j] /\ messages'[i] = messages[i]
      BY <1>1, <2>1
    <3>2. /\ RoleOf(messages[j]) = "assistant" /\ call \in CallsOf(messages[i]) /\ i < j
          /\ i \in 1..Len(messages) /\ j \in 1..Len(messages)
          /\ call[1] \notin AnswersIn(messages[j])
      BY <2>1, <3>1 DEF n
    <3>3. PICK k \in i..j : AnswerOf(messages[k]) = call
      <4>1. AnsweredWithin(call, i, j)
        BY <3>2, AnsweredBetween
      <4> QED
        BY <4>1 DEF AnsweredWithin
    <3>4. messages'[k] = messages[k]
      BY <1>1, <3>1, <3>3
    <3> QED
      BY <3>3, <3>4
  <2> QED
    BY <2>1 DEF AnsweredInv, n1
<1> QED
  BY <1>2, <1>4, <1>5, <1>6, <1>7, <1>8, <1>9 DEF HistoryInv

\* The model adds a message, while no calls but those of its answer are open.
LEMMA SpeakingKeepsHistory ==
  ASSUME HistoryInv, NEW message \in Messages, messages' = Append(messages, message),
         UNCHANGED protocol,
         answer' \in Nat, reasoned' \subseteq 1..answer', answer <= answer',
         \A a \in 0..answer : a \in reasoned' => a \in reasoned,
         grouped' \in BOOLEAN, grouped' => grouped,
         textFirst' \in BOOLEAN, textFirst' => textFirst,
         RoleOf(message) = "assistant", unanswered' = unanswered \cup CallsOf(message),
         \A call \in CallsOf(message) :
           /\ call[1] = answer'
           /\ grouped' /\ answer' \in reasoned' => ReasoningOf(message) = answer',
         ReasoningOf(message) # 0 => ReasoningOf(message) = answer',
         ContentOf(message) \in {0, answer'},
         \A call \in unanswered : call[1] \in AnswersIn(message) /\ ~textFirst'
  PROVE  HistoryInv'
<1> DEFINE n == Len(messages)
<1>1. /\ n \in Nat /\ Len(messages)' = n + 1 /\ messages' \in Seq(Messages)
      /\ \A i \in 1..n : messages'[i] = messages[i]
      /\ messages'[n + 1] = message
      /\ \A i \in 1..(n + 1) : i \in 1..n \/ i = n + 1
      /\ answer \in Nat
  <2>1. messages \in Seq(Messages) /\ answer \in Nat
    BY DEF HistoryInv, TypeInv
  <2> QED
    BY <2>1, LenProperties, AppendProperties
<1>10. \A old, call : Between(protocol, textFirst, old, call) =>
                       Between(protocol', textFirst', old, call)
  BY DEF Between
<1> HIDE DEF n
<1>2. TypeInv'
  BY <1>1 DEF HistoryInv, TypeInv
<1>3. ASSUME NEW i \in 1..n, NEW call \in CallsOf(messages[i])
      PROVE  /\ RoleOf(messages[i]) = "assistant" /\ call[1] \in 0..answer
             /\ call \in unanswered \/ \E k \in i..n : AnswerOf(messages[k]) = call
  BY DEF HistoryInv, CallInv, n
<1>4. CallInv'
  <2>1. ASSUME NEW i \in 1..(n + 1), NEW call \in CallsOf(messages'[i])
        PROVE  /\ RoleOf(messages'[i]) = "assistant" /\ call[1] \in 0..answer'
               /\ call \in unanswered' \/ \E k \in i..(n + 1) : AnswerOf(messages'[k]) = call
    <3>1. CASE i \in 1..n
      <4>1. /\ RoleOf(messages[i]) = "assistant" /\ call[1] \in 0..answer
        BY <1>1, <1>3, <3>1
      <4>2. CASE call \in unanswered
        BY <1>1, <3>1, <4>1, <4>2
      <4>3. CASE \E k \in i..n : AnswerOf(messages[k]) = call
        <5>1. PICK k \in i..n : AnswerOf(messages[k]) = call
          BY <4>3
        <5>2. k \in i..(n + 1) /\ AnswerOf(messages'[k]) = call
          BY <1>1, <3>1, <5>1
        <5> QED
          BY <1>1, <3>1, <4>1, <5>2
      <4> QED
        BY <1>1, <1>3, <3>1, <4>2, <4>3
    <3>2. CASE i = n + 1
      BY <1>1, <3>2
    <3> QED
      BY <1>1, <3>1, <3>2
  <2> QED
    BY SMTT(30), <1>1, <2>1 DEF CallInv
<1>5. PendingInv'
  <2>1. ASSUME NEW call \in unanswered'
        PROVE  \E j \in 1..(n + 1) :
                 /\ call \in CallsOf(messages'[j])
                 /\ \A k \in (j + 1)..(n + 1) :
                      Between(protocol', textFirst', messages'[k], call)
    <3>1. CASE call \in CallsOf(message)
      <4>1. n + 1 \in 1..(n + 1) /\ ((n + 1) + 1)..(n + 1) = {}
        BY <1>1
      <4> QED
        BY <1>1, <3>1, <4>1
    <3>2. CASE call \in unanswered
      <4>1. PICK j \in 1..n :
                 /\ call \in CallsOf(messages[j])
                 /\ \A k \in (j + 1)..n : Between(protocol, textFirst, messages[k], call)
        BY <3>2 DEF HistoryInv, PendingInv, n
      <4>2. Between(protocol', textFirst', message, call)
        BY <3>2 DEF Between
      <4>3. ASSUME NEW k \in (j + 1)..(n + 1)
            PROVE  Between(protocol', textFirst', messages'[k], call)
        <5>1. CASE k \in 1..n
          BY <1>1, <1>10, <4>1, <5>1
        <5>2. CASE k = n + 1
          BY <1>1, <4>2, <5>2
        <5> QED
          BY <1>1, <4>1, <5>1, <5>2
      <4>4. j \in 1..(n + 1) /\ call \in CallsOf(messages'[j])
        BY <1>1, <4>1
      <4> QED
        BY <4>3, <4>4
    <3> QED
      BY <3>1, <3>2
  <2> QED
    BY <1>1, <2>1 DEF PendingInv
<1>6. CarryInv'
  <2>1. ASSUME NEW i \in 1..(n + 1), NEW call \in CallsOf(messages'[i]), grouped',
               call[1] \in reasoned'
        PROVE  /\ \E j \in 1..i : ReasoningOf(messages'[j]) = call[1]
               /\ textFirst' => ReasoningOf(messages'[i]) = call[1]
    <3>1. CASE i \in 1..n
      <4>1. call \in CallsOf(messages[i]) /\ call[1] \in reasoned /\ grouped
        BY <1>1, <1>3, <2>1, <3>1
      <4>2. /\ \E j \in 1..i : ReasoningOf(messages[j]) = call[1]
            /\ textFirst => ReasoningOf(messages[i]) = call[1]
        BY <3>1, <4>1 DEF HistoryInv, CarryInv, n
      <4>3. i \in 1..i /\ \A j \in 1..i : messages'[j] = messages[j]
        BY <1>1, <3>1
      <4> QED
        BY <4>2, <4>3
    <3>2. CASE i = n + 1
      <4>1. i \in 1..i /\ ReasoningOf(messages'[i]) = call[1]
        BY <1>1, <2>1, <3>2
      <4> QED
        BY <4>1
    <3> QED
      BY <1>1, <3>1, <3>2
  <2> QED
    BY <1>1, <2>1 DEF CarryInv
<1>7. OwnInv'
  <2>1. ASSUME NEW i \in 1..(n + 1), ReasoningOf(messages'[i]) # 0
        PROVE  /\ RoleOf(messages'[i]) = "assistant"
               /\ ContentOf(messages'[i]) \in {0, ReasoningOf(messages'[i])}
               /\ \A call \in CallsOf(messages'[i]) : call[1] = ReasoningOf(messages'[i])
    <3>1. CASE i \in 1..n
      BY <1>1, <2>1, <3>1 DEF HistoryInv, OwnInv, n
    <3>2. CASE i = n + 1
      BY <1>1, <2>1, <3>2
    <3> QED
      BY <1>1, <3>1, <3>2
  <2> QED
    BY <1>1, <2>1 DEF OwnInv
<1>8. FollowInv'
  <2>1. ASSUME NEW i \in 1..(n + 1), RoleOf(messages'[i]) = "tool"
        PROVE  \E j \in 1..(i - 1) :
                 /\ AnswerOf(messages'[i]) \in CallsOf(messages'[j])
                 /\ \A k \in (j + 1)..(i - 1) :
                      Between(protocol', textFirst', messages'[k], AnswerOf(messages'[i]))
    <3>1. i \in 1..n
      BY <1>1, <2>1
    <3>2. PICK j \in 1..(i - 1) :
                 /\ AnswerOf(messages[i]) \in CallsOf(messages[j])
                 /\ \A k \in (j + 1)..(i - 1) :
                      Between(protocol, textFirst, messages[k], AnswerOf(messages[i]))
      BY <1>1, <2>1, <3>1 DEF HistoryInv, FollowInv, n
    <3>3. \A k \in 1..i : messages'[k] = messages[k]
      BY <1>1, <3>1
    <3>4. i \in 1..i /\ j \in 1..i /\ \A k \in (j + 1)..(i - 1) : k \in 1..i
      BY <1>1, <3>1, <3>2
    <3>5. messages'[i] = messages[i] /\ messages'[j] = messages[j]
      BY <3>3, <3>4
    <3> QED
      BY <1>10, <3>2, <3>3, <3>4, <3>5
  <2> QED
    BY <1>1, <2>1 DEF FollowInv
<1>9. AnsweredInv'
  <2>1. ASSUME NEW i \in 1..Len(messages)', NEW j \in 1..Len(messages)',
               i < j /\ RoleOf(messages'[j]) = "assistant",
               NEW call \in CallsOf(messages'[i]), call[1] \notin AnswersIn(messages'[j])
        PROVE  \E k \in i..j : AnswerOf(messages'[k]) = call
    <3>1. i \in 1..n /\ messages'[i] = messages[i] /\ j \in 1..(n + 1) /\ i < j
      BY <1>1, <2>1
    <3>2. CASE j \in 1..n
      <4>1. /\ RoleOf(messages[j]) = "assistant" /\ call \in CallsOf(messages[i]) /\ i < j
            /\ i \in 1..Len(messages) /\ j \in 1..Len(messages)
            /\ call[1] \notin AnswersIn(messages[j])
        BY <1>1, <2>1, <3>1, <3>2 DEF n
      <4>2. PICK k \in i..j : AnswerOf(messages[k]) = call
        <5>1. AnsweredWithin(call, i, j)
          BY <4>1, AnsweredBetween
        <5> QED
          BY <5>1 DEF AnsweredWithin
      <4>3. messages'[k] = messages[k]
        BY <1>1, <3>1, <3>2, <4>2
      <4> QED
        BY <4>2, <4>3
    <3>3. CASE j = n + 1
      <4>1. PICK k \in i..n : AnswerOf(messages[k]) = call
        <5>1. call \notin unanswered
          BY <1>1, <2>1, <3>3
        <5> QED
          BY <1>3, <2>1, <3>1, <5>1
      <4>2. k \in i..j /\ messages'[k] = messages[k]
        BY <1>1, <3>1, <3>3, <4>1
      <4> QED
        BY <4>1, <4>2
    <3> QED
      BY <1>1, <3>1, <3>2, <3>3
  <2> QED
    BY <2>1 DEF AnsweredInv
<1> QED
  BY <1>2, <1>4, <1>5, <1>6, <1>7, <1>8, <1>9 DEF HistoryInv

\* A call joins the message of the model that is the last one.
LEMMA JoiningKeepsHistory ==
  ASSUME HistoryInv, protocol = "responses", NEW id \in Nat \X Nat, id[1] = answer,
         messages # <<>>, OfAnswer(messages[Len(messages)]), NEW joined \in Messages,
         CallsOf(joined) = CallsOf(messages[Len(messages)]) \cup {id},
         RoleOf(joined) = RoleOf(messages[Len(messages)]),
         ContentOf(joined) = ContentOf(messages[Len(messages)]),
         ReasoningOf(joined) \in {0, answer},
         ReasoningOf(messages[Len(messages)]) # 0 =>
           ReasoningOf(joined) = ReasoningOf(messages[Len(messages)]),
         grouped /\ answer \in reasoned =>
           \/ ReasoningOf(joined) = answer
           \/ \E j \in 1..Len(messages) : ReasoningOf(messages[j]) = answer,
         AnswerOf(joined) = AnswerOf(messages[Len(messages)]),
         messages' = [messages EXCEPT ![Len(messages)] = joined],
         unanswered' = unanswered \cup {id},
         UNCHANGED <<protocol, answer, reasoned, grouped, textFirst>>
  PROVE  /\ HistoryInv' /\ OfAnswer(messages[Len(messages)])'
         /\ grouped /\ answer \in reasoned =>
              \E j \in 1..Len(messages)' : ReasoningOf(messages'[j]) = answer
<1> DEFINE n == Len(messages)
<1>1. /\ n \in Nat /\ n \in 1..n /\ messages \in Seq(Messages)
      /\ answer \in Nat /\ reasoned \subseteq 1..answer
  <2>1. messages \in Seq(Messages) /\ answer \in Nat /\ reasoned \subseteq 1..answer
    BY DEF HistoryInv, TypeInv
  <2>2. Len(messages) \in Nat /\ Len(messages) # 0
    BY <2>1, LenProperties, EmptySeq
  <2> QED
    BY <2>1, <2>2
<1>2. /\ CallsOf(joined) = CallsOf(messages[n]) \cup {id}
      /\ RoleOf(joined) = RoleOf(messages[n]) /\ ContentOf(joined) = ContentOf(messages[n])
      /\ ReasoningOf(messages[n]) # 0 => ReasoningOf(joined) = ReasoningOf(messages[n])
      /\ ReasoningOf(joined) \in {0, answer}
      /\ AnswerOf(joined) = AnswerOf(messages[n])
  OBVIOUS
<1>3. messages' = [messages EXCEPT ![n] = joined]
  OBVIOUS
<1>4. /\ Len(messages)' = n /\ messages' \in Seq(Messages) /\ messages'[n] = joined
      /\ \A i \in 1..n : i # n => messages'[i] = messages[i]
      /\ UNCHANGED <<protocol, textFirst>>
  <2> HIDE DEF n
  <2>1. /\ [messages EXCEPT ![n] = joined] \in Seq(Messages)
        /\ Len([messages EXCEPT ![n] = joined]) = Len(messages)
        /\ \A i \in 1..Len(messages) :
             [messages EXCEPT ![n] = joined][i] = IF i = n THEN joined ELSE messages[i]
    <3>1. n \in 1..Len(messages)
      BY <1>1 DEF n
    <3> QED
      BY <1>1, <3>1, ExceptSeq
  <2>2. Len(messages) = n
    BY DEF n
  <2> QED
    BY <1>1, <1>3, <2>1, <2>2
<1>15. OfAnswer(messages[n])
  OBVIOUS
<1> HIDE DEF n
<1>5. /\ RoleOf(joined) = "assistant" /\ ContentOf(joined) \in {0, answer}
      /\ ReasoningOf(joined) \in {0, answer}
      /\ \A call \in CallsOf(joined) : call[1] = answer
      /\ grouped /\ textFirst /\ answer \in reasoned => ReasoningOf(joined) = answer
      /\ messages[n].role = "assistant"
  <2> HIDE DEF n
  <2>1. answer \in reasoned => answer # 0
    BY <1>1
  <2> QED
    BY <1>2, <1>15, <2>1 DEF OfAnswer, RoleOf
<1>6. ASSUME NEW i \in 1..n
      PROVE  /\ RoleOf(messages'[i]) = RoleOf(messages[i])
             /\ ContentOf(messages'[i]) = ContentOf(messages[i])
             /\ ReasoningOf(messages[i]) # 0 =>
                  ReasoningOf(messages'[i]) = ReasoningOf(messages[i])
             /\ AnswerOf(messages'[i]) = AnswerOf(messages[i])
             /\ CallsOf(messages[i]) \subseteq CallsOf(messages'[i])
             /\ CallsOf(messages'[i]) \subseteq CallsOf(messages[i]) \cup {id}
             /\ i # n => CallsOf(messages'[i]) = CallsOf(messages[i])
  <2>1. CASE i = n
    BY <1>2, <1>4, <2>1
  <2>2. CASE i # n
    BY <1>4, <2>2
  <2> QED
    BY <2>1, <2>2
<1>16. ASSUME NEW i \in 1..n
       PROVE  /\ AnswersIn(messages[i]) \subseteq AnswersIn(messages'[i])
              /\ \A call : Between(protocol, textFirst, messages[i], call) =>
                            Between(protocol, textFirst, messages'[i], call)
  <2>1. AnswersIn(messages[i]) \subseteq AnswersIn(messages'[i])
    BY <1>6 DEF AnswersIn, ContentOf, ReasoningOf, CallsOf
  <2> QED
    BY <1>6, <2>1 DEF Between
<1>17. grouped /\ answer \in reasoned =>
         \E j \in 1..n : ReasoningOf(messages'[j]) = answer
  <2> SUFFICES ASSUME grouped, answer \in reasoned
               PROVE  \E j \in 1..n : ReasoningOf(messages'[j]) = answer
    OBVIOUS
  <2>1. CASE ReasoningOf(joined) = answer
    BY <1>1, <1>4, <2>1
  <2>2. CASE \E j \in 1..n : ReasoningOf(messages[j]) = answer
    <3>1. answer # 0
      BY <1>1
    <3> QED
      BY <1>6, <2>2, <3>1
  <2> QED
    BY <2>1, <2>2 DEF n
<1>7. TypeInv'
  BY <1>4 DEF HistoryInv, TypeInv
<1>8. CallInv'
  <2>1. ASSUME NEW i \in 1..n, NEW call \in CallsOf(messages'[i])
        PROVE  /\ RoleOf(messages'[i]) = "assistant" /\ call[1] \in 0..answer
               /\ call \in unanswered' \/ \E k \in i..n : AnswerOf(messages'[k]) = call
    <3>1. CASE call \in CallsOf(messages[i])
      <4>1. /\ RoleOf(messages[i]) = "assistant" /\ call[1] \in 0..answer
            /\ call \in unanswered \/ \E k \in i..n : AnswerOf(messages[k]) = call
        BY <3>1 DEF HistoryInv, CallInv, n
      <4>2. \A k \in i..n : k \in 1..n
        BY <1>1
      <4> QED
        BY <1>6, <4>1, <4>2
    <3>2. CASE i = n /\ call = id
      BY <1>1, <1>4, <1>5, <3>2
    <3> QED
      BY <1>6, <3>1, <3>2
  <2> QED
    BY <1>4, <2>1 DEF CallInv
<1>9. PendingInv'
  <2>1. ASSUME NEW call \in unanswered'
        PROVE  \E j \in 1..n :
                 /\ call \in CallsOf(messages'[j])
                 /\ \A k \in (j + 1)..n : Between(protocol, textFirst, messages'[k], call)
    <3>1. CASE call \in unanswered
      <4>1. PICK j \in 1..n :
                 /\ call \in CallsOf(messages[j])
                 /\ \A k \in (j + 1)..n : Between(protocol, textFirst, messages[k], call)
        BY <3>1 DEF HistoryInv, PendingInv, n
      <4>2. \A k \in (j + 1)..n : k \in 1..n
        BY <1>1
      <4> QED
        BY <1>6, <1>16, <4>1, <4>2
    <3>2. CASE call = id
      <4>1. (n + 1)..n = {} /\ id \in CallsOf(messages'[n])
        BY <1>1, <1>2, <1>4
      <4> QED
        BY <1>1, <3>2, <4>1
    <3> QED
      BY <3>1, <3>2
  <2> QED
    BY <1>4, <2>1 DEF PendingInv
<1>10. CarryInv'
  <2>1. ASSUME NEW i \in 1..n, NEW call \in CallsOf(messages'[i]), grouped, call[1] \in reasoned
        PROVE  /\ \E j \in 1..i : ReasoningOf(messages'[j]) = call[1]
               /\ textFirst => ReasoningOf(messages'[i]) = call[1]
    <3>1. CASE i = n
      <4>1. call[1] = answer
        BY <1>4, <1>5, <3>1
      <4> QED
        BY <1>4, <1>5, <1>17, <2>1, <3>1, <4>1
    <3>2. CASE i # n
      <4>1. call \in CallsOf(messages[i]) /\ messages'[i] = messages[i]
        BY <1>4, <3>2
      <4>2. /\ \E j \in 1..i : ReasoningOf(messages[j]) = call[1]
            /\ textFirst => ReasoningOf(messages[i]) = call[1]
        BY <2>1, <4>1 DEF HistoryInv, CarryInv, n
      <4>3. \A j \in 1..i : messages'[j] = messages[j]
        BY <1>1, <1>4, <3>2
      <4> QED
        BY <4>1, <4>2, <4>3
    <3> QED
      BY <3>1, <3>2
  <2> QED
    BY <1>4, <2>1 DEF CarryInv
<1>11. OwnInv'
  <2>1. ASSUME NEW i \in 1..n, ReasoningOf(messages'[i]) # 0
        PROVE  /\ RoleOf(messages'[i]) = "assistant"
               /\ ContentOf(messages'[i]) \in {0, ReasoningOf(messages'[i])}
               /\ \A call \in CallsOf(messages'[i]) : call[1] = ReasoningOf(messages'[i])
    <3>1. CASE i = n
      BY <1>4, <1>5, <2>1, <3>1
    <3>2. CASE i # n
      <4>1. messages'[i] = messages[i]
        BY <1>4, <3>2
      <4> QED
        BY <2>1, <4>1 DEF HistoryInv, OwnInv, n
    <3> QED
      BY <3>1, <3>2
  <2> QED
    BY <1>4, <2>1 DEF OwnInv
<1>12. FollowInv'
  <2>1. ASSUME NEW i \in 1..n, RoleOf(messages'[i]) = "tool"
        PROVE  \E j \in 1..(i - 1) :
                 /\ AnswerOf(messages'[i]) \in CallsOf(messages'[j])
                 /\ \A k \in (j + 1)..(i - 1) :
                      Between(protocol, textFirst, messages'[k], AnswerOf(messages'[i]))
    <3>1. PICK j \in 1..(i - 1) :
                 /\ AnswerOf(messages[i]) \in CallsOf(messages[j])
                 /\ \A k \in (j + 1)..(i - 1) :
                      Between(protocol, textFirst, messages[k], AnswerOf(messages[i]))
      BY <1>6, <2>1 DEF HistoryInv, FollowInv, n
    <3>2. j \in 1..n /\ \A k \in (j + 1)..(i - 1) : k \in 1..n
      BY <1>1, <3>1
    <3> QED
      BY <1>6, <1>16, <3>1, <3>2
  <2> QED
    BY <1>4, <2>1 DEF FollowInv
<1>13. AnsweredInv'
  <2>1. ASSUME NEW i \in 1..Len(messages)', NEW j \in 1..Len(messages)',
               i < j /\ RoleOf(messages'[j]) = "assistant",
               NEW call \in CallsOf(messages'[i]), call[1] \notin AnswersIn(messages'[j])
        PROVE  \E k \in i..j : AnswerOf(messages'[k]) = call
    <3>1. i \in 1..n /\ j \in 1..n /\ i < j /\ i # n
      BY <1>1, <1>4, <2>1
    <3>2. /\ RoleOf(messages[j]) = "assistant" /\ call \in CallsOf(messages[i]) /\ i < j
          /\ i \in 1..Len(messages) /\ j \in 1..Len(messages)
          /\ call[1] \notin AnswersIn(messages[j])
      BY <1>6, <1>16, <2>1, <3>1 DEF n
    <3>3. PICK k \in i..j : AnswerOf(messages[k]) = call
      <4>1. AnsweredWithin(call, i, j)
        BY <3>2, AnsweredBetween
      <4> QED
        BY <4>1 DEF AnsweredWithin
    <3>4. k \in 1..n
      BY <1>1, <3>1, <3>3
    <3> QED
      BY <1>6, <3>3, <3>4
  <2> QED
    BY <2>1 DEF AnsweredInv
<1>14. OfAnswer(messages[Len(messages)])'
  BY <1>4, <1>5 DEF OfAnswer
<1> QED
  BY <1>4, <1>7, <1>8, <1>9, <1>10, <1>11, <1>12, <1>13, <1>14, <1>17 DEF HistoryInv

-----------------------------------------------------------------------------
\* A message of the constructor, by its fields.
LEMMA MessageFields ==
  ASSUME NEW role \in {"system", "user", "assistant", "tool"}, NEW content \in Nat,
         NEW reasoning \in Nat, NEW calls \in SUBSET (Nat \X Nat), NEW call \in Nat \X Nat
  PROVE  /\ Message(role, content, reasoning, calls, call) \in Messages
         /\ RoleOf(Message(role, content, reasoning, calls, call)) = role
         /\ ContentOf(Message(role, content, reasoning, calls, call)) = content
         /\ ReasoningOf(Message(role, content, reasoning, calls, call)) = reasoning
         /\ CallsOf(Message(role, content, reasoning, calls, call)) = calls
         /\ AnswerOf(Message(role, content, reasoning, calls, call)) = call
BY DEF Message, Messages, RoleOf, ContentOf, ReasoningOf, CallsOf, AnswerOf

\* One message is added that is not the model's.
LEMMA OneAnswer ==
  ASSUME HistoryInv, NEW message \in Messages, messages' = Append(messages, message),
         RoleOf(message) # "assistant", CallsOf(message) = {}, ReasoningOf(message) = 0,
         \A call \in unanswered : Between(protocol, textFirst, message, call),
         RoleOf(message) = "tool" => AnswerOf(message) \in unanswered,
         UNCHANGED <<protocol, answer, reasoned, grouped, textFirst>>,
         unanswered' \subseteq unanswered,
         \A call \in unanswered \ unanswered' : AnswerOf(message) = call
  PROVE  /\ HistoryInv' /\ messages' # <<>>
         /\ RoleOf(messages[Len(messages)])' = RoleOf(message)
<1> DEFINE n == Len(messages)
<1>1. /\ n \in Nat /\ Len(messages)' = n + 1 /\ messages' \in Seq(Messages)
      /\ \A i \in 1..n : messages'[i] = messages[i]
      /\ messages'[n + 1] = message
  <2>1. messages \in Seq(Messages)
    BY DEF HistoryInv, TypeInv
  <2> QED
    BY <2>1, LenProperties, AppendProperties
<1> HIDE DEF n
<1>2. \A i \in (n + 1)..(n + 1) : i = n + 1
  BY <1>1
<1>3. Answers(messages, messages')
  BY <1>1, <1>2 DEF Answers, n
<1>4. \A call \in unanswered \ unanswered' :
        \E k \in (Len(messages) + 1)..Len(messages') : AnswerOf(messages'[k]) = call
  BY <1>1 DEF n
<1>5. HistoryInv'
  BY <1>1, <1>3, <1>4, AnswersKeepHistory
<1> QED
  BY <1>1, <1>5, EmptySeq

-----------------------------------------------------------------------------
\* The user, the system or the developer adds a message.
LEMMA InputMessageKeepsInv ==
  ASSUME Inv, protocol = "responses", UNCHANGED <<protocol, speaker>>,
         NEW role \in {"user", "system", "developer"}, Responses!InputMessage(role)
  PROVE  Inv'
<1> DEFINE message == Message(Responses!NormalRole(role), 0, 0, {}, NoCall)
<1>1. /\ unanswered = {}
      /\ messages' = Append(messages, message)
      /\ pendingReasoning' = 0 /\ last' = "input"
      /\ UNCHANGED <<answer, called, unanswered, reasoned, grouped, textFirst>>
  BY DEF Responses!InputMessage, Responses!Message, Responses!NoCall, Message, NoCall
<1>2. Responses!NormalRole(role) \in {"system", "user"}
  BY DEF Responses!NormalRole
<1>3. /\ message \in Messages /\ RoleOf(message) \in {"system", "user"}
      /\ CallsOf(message) = {} /\ ReasoningOf(message) = 0
  <2>1. NoCall \in Nat \X Nat
    BY DEF NoCall
  <2> QED
    BY <1>2, <2>1, MessageFields
<1> HIDE DEF message
<1>4. called \in Nat /\ HistoryInv
  BY DEF Inv, ResponsesInv
<1>5. HistoryInv' /\ messages' # <<>> /\ RoleOf(messages[Len(messages)])' = RoleOf(message)
  BY <1>1, <1>3, <1>4, OneAnswer
<1>6. ~SpokeLast'
  BY <1>3, <1>5 DEF SpokeLast
<1>7. ResponsesInv'
  BY <1>1, <1>4, <1>6 DEF ResponsesInv, CarriedInv
<1> QED
  BY <1>5, <1>7 DEF Inv, AnthropicInv

\* How an item of the model begins its answer, or goes on with it.
LEMMA AnswerGoesOn ==
  ASSUME Responses!BeginAnswer \/ Responses!ContinueAnswer, Inv, protocol = "responses"
  PROVE  /\ \/ /\ last \in {"reasoning", "message", "call"}
               /\ answer' = answer /\ grouped' = grouped
            \/ /\ last = "output" /\ unanswered = {}
               /\ answer' = answer /\ grouped' = FALSE
            \/ /\ last \in {"input", "output"} /\ unanswered = {}
               /\ answer' = answer + 1 /\ grouped' = grouped
         /\ answer' # answer => Responses!CalledSoFar = 0
         /\ answer' = answer => Responses!CalledSoFar = called
         /\ Responses!CalledSoFar \in Nat
         /\ answer \in Nat /\ answer' \in Nat /\ answer' # 0 /\ answer <= answer'
<1>1. answer \in Nat
  BY DEF Inv, HistoryInv, TypeInv
<1>2. /\ called \in Nat /\ (last = "input" => unanswered = {})
      /\ last \in {"reasoning", "message", "call", "output"} => answer # 0
      /\ grouped \in BOOLEAN
  BY DEF Inv, ResponsesInv, HistoryInv, TypeInv
<1>3. CASE Responses!BeginAnswer
  BY <1>1, <1>2, <1>3 DEF Responses!BeginAnswer, Responses!CalledSoFar
<1>4. CASE Responses!ContinueAnswer
  <2>1. CASE last \in {"reasoning", "message", "call"}
    <3>1. answer' = answer /\ grouped' = (grouped /\ TRUE)
      BY <1>4, <2>1 DEF Responses!ContinueAnswer
    <3>2. grouped' = grouped
      BY Zenon, <1>2, <3>1
    <3> QED
      BY <1>1, <1>2, <2>1, <3>1, <3>2 DEF Responses!CalledSoFar
  <2>2. CASE last = "output" /\ unanswered = {}
    <3>1. answer' = answer /\ grouped' = FALSE
      BY Zenon, <1>4, <2>2 DEF Responses!ContinueAnswer
    <3> QED
      BY <1>1, <1>2, <2>2, <3>1 DEF Responses!CalledSoFar
  <2> QED
    BY <1>4, <2>1, <2>2 DEF Responses!ContinueAnswer
<1> QED
  BY <1>3, <1>4

\* A reasoning item waits for the turn of its answer.
LEMMA ReasoningKeepsInv ==
  ASSUME Inv, protocol = "responses", UNCHANGED <<protocol, speaker>>, Responses!Reasoning
  PROVE  Inv'
<1>1. /\ Responses!BeginAnswer \/ Responses!ContinueAnswer
      /\ called' = Responses!CalledSoFar
      /\ pendingReasoning' = answer' /\ last' = "reasoning"
      /\ UNCHANGED <<messages, unanswered, textFirst>>
      /\ reasoned' \in {reasoned, reasoned \cup {answer'}}
  BY DEF Responses!Reasoning
<1>2. HistoryInv /\ (answer' = answer => reasoned' = reasoned)
  BY DEF Inv, HistoryInv, TypeInv, Responses!Reasoning, Responses!BeginAnswer
<1>3. /\ \/ /\ last \in {"reasoning", "message", "call"}
            /\ answer' = answer /\ grouped' = grouped
         \/ /\ last = "output" /\ unanswered = {}
            /\ answer' = answer /\ grouped' = FALSE
         \/ /\ last \in {"input", "output"} /\ unanswered = {}
            /\ answer' = answer + 1 /\ grouped' = grouped
      /\ answer' = answer => called' = called
      /\ called' \in Nat /\ grouped' \in BOOLEAN
      /\ answer \in Nat /\ answer' \in Nat /\ answer' # 0 /\ answer <= answer'
  BY <1>1, <1>2, AnswerGoesOn DEF HistoryInv, TypeInv
<1>4. reasoned \subseteq 1..answer /\ reasoned' \subseteq 1..answer'
  BY <1>1, <1>2, <1>3 DEF HistoryInv, TypeInv
<1>5. TypeInv'
  BY <1>1, <1>2, <1>3, <1>4 DEF HistoryInv, TypeInv
<1>6. ASSUME NEW i \in 1..Len(messages), NEW call \in CallsOf(messages[i])
      PROVE  /\ RoleOf(messages[i]) = "assistant" /\ call[1] \in 0..answer'
             /\ call \in unanswered \/ \E k \in i..Len(messages) : AnswerOf(messages[k]) = call
             /\ call[1] \in reasoned' => call[1] \in reasoned
  <2>1. /\ RoleOf(messages[i]) = "assistant" /\ call[1] \in 0..answer
        /\ call \in unanswered \/ \E k \in i..Len(messages) : AnswerOf(messages[k]) = call
    BY <1>2 DEF HistoryInv, CallInv
  <2> QED
    BY <1>1, <1>2, <1>3, <2>1
<1>7. CallInv'
  BY <1>1, <1>6 DEF CallInv
<1>8. CarryInv'
  BY <1>1, <1>2, <1>3, <1>6 DEF HistoryInv, CarryInv
<1>9. PendingInv' /\ OwnInv' /\ FollowInv' /\ AnsweredInv'
  BY <1>1, <1>2 DEF HistoryInv, PendingInv, OwnInv, FollowInv, AnsweredInv
<1>10. SpokeLast => /\ answer' = answer /\ grouped' = grouped
                    /\ OfAnswer(messages[Len(messages)])
  BY <1>3 DEF Inv, ResponsesInv
<1>11. SpokeLast' => OfAnswer(messages[Len(messages)])'
  BY <1>1, <1>2, <1>10 DEF OfAnswer, SpokeLast
<1>12. ~SpokeLast' => unanswered' = {}
  BY <1>1, <1>3 DEF Inv, ResponsesInv, SpokeLast
<1>13. \A call \in unanswered' : call[1] = answer' /\ called' # 0
  BY <1>1, <1>3 DEF Inv, ResponsesInv
<1>14. ResponsesInv'
  BY <1>1, <1>3, <1>11, <1>12, <1>13 DEF ResponsesInv, CarriedInv
<1> QED
  BY <1>5, <1>7, <1>8, <1>9, <1>14 DEF Inv, HistoryInv, AnthropicInv

\* The model adds a message, of an answer that goes on or of a new one: a text,
\* or a call behind a message that is not the model's.
LEMMA SpeakingKeepsInv ==
  ASSUME Inv, protocol = "responses", UNCHANGED <<protocol, speaker>>,
         NEW content \in Nat, NEW calls \in SUBSET (Nat \X Nat),
         messages' = Append(messages,
                            Message("assistant", content, pendingReasoning, calls, NoCall)),
         Responses!BeginAnswer \/ Responses!ContinueAnswer,
         content \in {0, answer'}, \A call \in calls : call[1] = answer',
         unanswered' = unanswered \cup calls, pendingReasoning' = 0,
         UNCHANGED reasoned,
         \/ /\ last' = "message" /\ content = answer' /\ calls = {}
            /\ called' = Responses!CalledSoFar
            /\ textFirst' = (textFirst /\ called' = 0 /\ ~SpokeLast)
         \/ /\ last' = "call" /\ called' = Responses!CalledSoFar + 1
            /\ ~SpokeLast /\ textFirst' = textFirst
  PROVE  Inv'
<1> DEFINE message == Message("assistant", content, pendingReasoning, calls, NoCall)
<1>1. /\ HistoryInv
      /\ pendingReasoning = IF last = "reasoning" THEN answer ELSE 0
      /\ \A call \in unanswered : call[1] = answer /\ called # 0
      /\ ~SpokeLast => /\ last \notin {"message", "call"}
                       /\ last = "reasoning" => unanswered = {}
      /\ CarriedInv
  BY DEF Inv, ResponsesInv
<1>2. messages \in Seq(Messages) /\ answer \in Nat /\ reasoned \subseteq 1..answer
  BY <1>1 DEF HistoryInv, TypeInv
<1>3. /\ \/ /\ last \in {"reasoning", "message", "call"}
            /\ answer' = answer /\ grouped' = grouped
         \/ /\ last = "output" /\ unanswered = {}
            /\ answer' = answer /\ grouped' = FALSE
         \/ /\ last \in {"input", "output"} /\ unanswered = {}
            /\ answer' = answer + 1 /\ grouped' = grouped
      /\ answer' = answer => Responses!CalledSoFar = called
      /\ Responses!CalledSoFar \in Nat
      /\ answer' \in Nat /\ answer' # 0 /\ answer <= answer'
  BY AnswerGoesOn
<1>4. pendingReasoning \in Nat /\ pendingReasoning \in {0, answer'} /\ called' \in Nat
  BY <1>1, <1>2, <1>3
<1>5. /\ message \in Messages /\ RoleOf(message) = "assistant" /\ ContentOf(message) = content
      /\ ReasoningOf(message) = pendingReasoning /\ CallsOf(message) = calls
  <2>1. NoCall \in Nat \X Nat
    BY DEF NoCall
  <2> QED
    BY <1>4, <2>1, MessageFields
<1> HIDE DEF message
<1>6. messages' = Append(messages, message)
  BY DEF message
<1>7. /\ reasoned' \subseteq 1..answer' /\ \A a \in 0..answer : a \in reasoned' => a \in reasoned
      /\ grouped' \in BOOLEAN /\ (grouped' => grouped)
      /\ textFirst' \in BOOLEAN /\ (textFirst' => textFirst)
  <2>1. grouped \in BOOLEAN /\ textFirst \in BOOLEAN
    BY <1>1 DEF HistoryInv, TypeInv
  <2>2. grouped' \in BOOLEAN /\ (grouped' => grouped)
    <3>1. grouped' = grouped \/ grouped' = FALSE
      BY <1>3
    <3>2. grouped' \in BOOLEAN
      BY <2>1, <3>1
    <3> QED
      BY <2>1, <3>1, <3>2
  <2>3. textFirst' \in BOOLEAN /\ (textFirst' => textFirst)
    <3>1. CASE textFirst' = textFirst
      BY <2>1, <3>1
    <3>2. CASE textFirst' = (textFirst /\ called' = 0 /\ ~SpokeLast)
      BY <2>1, <3>2
    <3> QED
      BY Zenon, <3>1, <3>2
  <2>4. reasoned' \subseteq 1..answer' /\ \A a \in 0..answer : a \in reasoned' => a \in reasoned
    BY <1>2, <1>3
  <2> QED
    BY <2>2, <2>3, <2>4
\* The answer's reasoning is pending, unless a message of it has taken it.
<1>8. ASSUME grouped', answer' \in reasoned', pendingReasoning # answer'
      PROVE  /\ last \in {"message", "call"} /\ answer' = answer /\ grouped /\ SpokeLast
             /\ last' = "message" /\ calls = {} /\ ~textFirst'
  <2>1. last # "reasoning" /\ answer' = answer /\ last \in {"message", "call"}
    <3>1. answer' # answer + 1
      BY <1>2, <1>8
    <3>2. grouped' # FALSE
      BY <1>7, <1>8
    <3>3. last \in {"reasoning", "message", "call"} /\ answer' = answer
      BY <1>3, <3>1, <3>2
    <3>4. last # "reasoning"
      BY <1>1, <1>8, <3>3
    <3> QED
      BY <3>3, <3>4
  <2>2. SpokeLast
    <3>1. last \in {"message", "call"} => SpokeLast
      BY Zenon, <1>1
    <3> QED
      BY <2>1, <3>1
  <2>3. last' = "message" /\ calls = {}
    BY <2>2
  <2>5. grouped
    BY <1>7, <1>8
  <2>4. ~textFirst'
    <3>1. textFirst' = (textFirst /\ called' = 0 /\ ~SpokeLast)
      BY Zenon, <2>2
    <3> QED
      BY <2>2, <3>1
  <2> QED
    BY <2>1, <2>2, <2>3, <2>4, <2>5
<1>9. ASSUME NEW call \in unanswered
      PROVE  call[1] \in AnswersIn(message) /\ ~textFirst'
  <2>1. /\ last \in {"reasoning", "message", "call"} /\ answer' = answer
        /\ call[1] = answer' /\ called # 0 /\ SpokeLast
    BY <1>1, <1>3
  <2>2. content = answer' /\ ~textFirst'
    BY <1>3, <2>1
  <2> QED
    BY <1>3, <1>5, <2>1, <2>2 DEF AnswersIn, ContentOf
<1>10. \A call \in CallsOf(message) :
         /\ call[1] = answer'
         /\ grouped' /\ answer' \in reasoned' => ReasoningOf(message) = answer'
  BY <1>5, <1>8
<1>11. HistoryInv'
  BY <1>1, <1>3, <1>4, <1>5, <1>6, <1>7, <1>9, <1>10, SpeakingKeepsHistory
<1>12. /\ messages' # <<>> /\ messages[Len(messages)]' = message
       /\ Len(messages)' = Len(messages) + 1 /\ Len(messages) \in Nat
       /\ \A j \in 1..Len(messages) : messages'[j] = messages[j]
       /\ messages'[Len(messages) + 1] = message
  BY <1>2, <1>5, <1>6, AppendProperties, LenProperties
<1>13. OfAnswer(messages[Len(messages)])' /\ SpokeLast'
  BY <1>4, <1>5, <1>8, <1>12 DEF OfAnswer, SpokeLast
<1>14. CarriedInv'
  <2> SUFFICES ASSUME grouped', answer' \in reasoned'
               PROVE  \E j \in 1..Len(messages)' : ReasoningOf(messages'[j]) = answer'
    BY DEF CarriedInv
  <2>1. CASE pendingReasoning = answer'
    <3>1. Len(messages) + 1 \in 1..Len(messages)'
      BY <1>12
    <3> QED
      BY <1>5, <1>12, <2>1, <3>1
  <2>2. CASE pendingReasoning # answer'
    <3>1. PICK j \in 1..Len(messages) : ReasoningOf(messages[j]) = answer
      BY <1>1, <1>8, <2>2 DEF CarriedInv
    <3>2. j \in 1..Len(messages)' /\ ReasoningOf(messages'[j]) = answer'
      BY <1>8, <1>12, <2>2, <3>1
    <3> QED
      BY <3>2
  <2> QED
    BY <2>1, <2>2
<1>15. \A call \in unanswered' : call[1] = answer' /\ called' # 0
  <2>1. \A call \in unanswered : call[1] = answer' /\ Responses!CalledSoFar # 0
    BY <1>1, <1>3
  <2>2. Responses!CalledSoFar # 0 => called' # 0
    BY <1>3
  <2> QED
    BY <1>3, <2>1, <2>2
<1>16. ResponsesInv'
  BY <1>3, <1>4, <1>13, <1>14, <1>15 DEF ResponsesInv
<1> QED
  BY <1>11, <1>16 DEF Inv, AnthropicInv

\* EndsWithAssistant, in the words of the invariant.
LEMMA EndsSpoke == Responses!EndsWithAssistant <=> SpokeLast
BY DEF Responses!EndsWithAssistant, SpokeLast, RoleOf

\* case "message", role assistant.
LEMMA AssistantMessageKeepsInv ==
  ASSUME Inv, protocol = "responses", UNCHANGED <<protocol, speaker>>,
         Responses!AssistantMessage
  PROVE  Inv'
<1>1. /\ messages' = Append(messages,
                            Message("assistant", answer', pendingReasoning, {}, NoCall))
      /\ pendingReasoning' = 0 /\ last' = "message"
      /\ UNCHANGED <<unanswered, reasoned>>
      /\ Responses!BeginAnswer \/ Responses!ContinueAnswer
      /\ called' = Responses!CalledSoFar
  BY DEF Responses!AssistantMessage, Responses!Message, Responses!NoCall, Message, NoCall
<1>2. textFirst' = (textFirst /\ called' = 0 /\ ~SpokeLast)
  BY EndsSpoke DEF Responses!AssistantMessage
<1>3. answer' \in Nat
  BY <1>1, AnswerGoesOn
<1>4. /\ unanswered' = unanswered \cup {} /\ {} \in SUBSET (Nat \X Nat)
      /\ \A call \in {} : call[1] = answer'
  BY <1>1
<1> QED
  BY <1>1, <1>2, <1>3, <1>4, SpeakingKeepsInv

\* case "function_call", behind a message of the model's answer.
LEMMA JoinCallKeepsInv ==
  ASSUME Inv, protocol = "responses", UNCHANGED <<protocol, speaker>>, SpokeLast,
         answer' = answer, called' = called + 1,
         grouped' = grouped, messages' = Responses!WithCall(<<answer', called'>>),
         unanswered' = unanswered \cup {<<answer', called'>>},
         pendingReasoning' = 0, last' = "call", UNCHANGED <<reasoned, textFirst>>
  PROVE  Inv'
<1> DEFINE n == Len(messages)
           id == <<answer', called'>>
           reasoning == IF messages[n].reasoning = 0 THEN pendingReasoning
                                                     ELSE messages[n].reasoning
           joined == [messages[n] EXCEPT !.calls = @ \cup {id}, !.reasoning = reasoning]
<1>1. /\ HistoryInv /\ messages # <<>> /\ OfAnswer(messages[n])
      /\ called \in Nat /\ last \in {"reasoning", "message", "call"} /\ answer # 0
      /\ pendingReasoning = IF last = "reasoning" THEN answer ELSE 0
      /\ \A call \in unanswered : call[1] = answer
      /\ CarriedInv
  BY DEF Inv, ResponsesInv, SpokeLast
<1>2. messages \in Seq(Messages) /\ answer \in Nat
  BY <1>1 DEF HistoryInv, TypeInv
<1>3. n \in 1..n /\ messages[n] \in Messages
  <2>1. Len(messages) \in Nat /\ Len(messages) # 0
    BY <1>1, <1>2, LenProperties, EmptySeq
  <2> QED
    BY <1>2, <2>1, ElementOfSeq
<1>4. id \in Nat \X Nat /\ id[1] = answer
  BY <1>1, <1>2
<1>5. /\ reasoning \in {0, answer}
      /\ ReasoningOf(messages[n]) # 0 => reasoning = ReasoningOf(messages[n])
      /\ last = "reasoning" => reasoning = answer
  <2>1. ReasoningOf(messages[n]) \in {0, answer}
    BY <1>1 DEF OfAnswer
  <2> HIDE DEF n
  <2> QED
    BY <1>1, <2>1 DEF ReasoningOf
<1>6. /\ joined \in Messages /\ CallsOf(joined) = CallsOf(messages[n]) \cup {id}
      /\ RoleOf(joined) = RoleOf(messages[n]) /\ ContentOf(joined) = ContentOf(messages[n])
      /\ ReasoningOf(joined) = reasoning
      /\ AnswerOf(joined) = AnswerOf(messages[n])
  <2> HIDE DEF n, id, reasoning
  <2> QED
    BY <1>2, <1>3, <1>4, <1>5
       DEF Messages, CallsOf, RoleOf, ContentOf, ReasoningOf, AnswerOf
<1>7. messages' = [messages EXCEPT ![n] = joined]
  <2>1. messages' = [messages EXCEPT ![n].calls = @ \cup {id},
                                     ![n].reasoning = IF @ = 0 THEN pendingReasoning ELSE @]
    BY EndsSpoke DEF Responses!WithCall
  <2>2. messages = [k \in 1..n |-> messages[k]]
    BY <1>2, LenProperties
  <2> HIDE DEF n, id
  <2> DEFINE m == [messages EXCEPT ![n].calls = @ \cup {id}]
  <2>3. m[n].reasoning = messages[n].reasoning
    BY <1>3, <2>2 DEF Messages
  <2>4. messages' = [m EXCEPT ![n].reasoning = IF messages[n].reasoning = 0
                                                THEN pendingReasoning
                                                ELSE messages[n].reasoning]
    BY <2>1, <2>3
  <2>5. messages' = [m EXCEPT ![n].reasoning = reasoning]
    BY <2>3, <2>4
  <2>6. /\ m = [k \in 1..n |-> IF k = n THEN [messages[n] EXCEPT !.calls = @ \cup {id}]
                                        ELSE messages[k]]
        /\ n \in 1..n
    BY <1>3, <2>2
  <2> HIDE DEF m, reasoning
  <2>7. messages' = [k \in 1..n |-> IF k = n THEN [m[n] EXCEPT !.reasoning = reasoning]
                                             ELSE messages[k]]
    BY <2>5, <2>6
  <2>8. [m[n] EXCEPT !.reasoning = reasoning] = joined
    BY <1>3, <2>6 DEF Messages
  <2> HIDE DEF joined
  <2>9. [messages EXCEPT ![n] = joined] = [k \in 1..n |-> IF k = n THEN joined ELSE messages[k]]
    BY <1>3, <2>2
  <2> QED
    BY <2>7, <2>8, <2>9
<1>8. grouped /\ answer \in reasoned =>
        \/ reasoning = answer
        \/ \E j \in 1..Len(messages) : ReasoningOf(messages[j]) = answer
  BY <1>1, <1>5 DEF CarriedInv
<1> HIDE DEF n, id, joined, reasoning
<1>9. /\ HistoryInv' /\ OfAnswer(messages[Len(messages)])'
      /\ grouped /\ answer \in reasoned =>
           \E j \in 1..Len(messages)' : ReasoningOf(messages'[j]) = answer
  BY <1>1, <1>4, <1>5, <1>6, <1>7, <1>8, JoiningKeepsHistory DEF n, id
<1>10. SpokeLast'
  <2>1. messages' # <<>>
    BY <1>1, <1>2, <1>3, <1>7
  <2> QED
    BY <1>9, <2>1 DEF SpokeLast, OfAnswer
<1>11. \A call \in unanswered' : call[1] = answer' /\ called' # 0
  <2>1. called' # 0
    BY <1>1
  <2> QED
    BY <1>1, <1>4, <2>1 DEF id
<1>12. ResponsesInv'
  <2>1. called' \in Nat
    BY <1>1
  <2> QED
    BY <1>1, <1>9, <1>10, <1>11, <2>1 DEF ResponsesInv, CarriedInv
<1> QED
  BY <1>9, <1>12 DEF Inv, AnthropicInv

\* case "function_call"
LEMMA FunctionCallKeepsInv ==
  ASSUME Inv, protocol = "responses", UNCHANGED <<protocol, speaker>>,
         Responses!FunctionCall
  PROVE  Inv'
<1> DEFINE id == <<answer', called'>>
<1>1. /\ messages' = Responses!WithCall(id)
      /\ unanswered' = unanswered \cup {id}
      /\ pendingReasoning' = 0 /\ last' = "call"
      /\ UNCHANGED <<reasoned, textFirst>>
      /\ Responses!BeginAnswer \/ Responses!ContinueAnswer
      /\ called' = Responses!CalledSoFar + 1
  BY DEF Responses!FunctionCall
<1>2. /\ \/ /\ last \in {"reasoning", "message", "call"}
            /\ answer' = answer /\ grouped' = grouped
         \/ last \in {"input", "output"}
      /\ answer' = answer => Responses!CalledSoFar = called
      /\ Responses!CalledSoFar \in Nat /\ answer' \in Nat
  BY <1>1, AnswerGoesOn
<1>3. CASE SpokeLast
  <2>1. answer' = answer /\ grouped' = grouped
    BY <1>2, <1>3 DEF Inv, ResponsesInv
  <2> QED
    BY <1>1, <1>2, <1>3, <2>1, JoinCallKeepsInv
<1>4. CASE ~SpokeLast
  <2>1. messages' = Append(messages,
                           Message("assistant", 0, pendingReasoning, {id}, NoCall))
    BY <1>1, <1>4, EndsSpoke
       DEF Responses!WithCall, Responses!Message, Message, Responses!NoCall, NoCall
  <2>2. /\ {id} \in SUBSET (Nat \X Nat) /\ \A call \in {id} : call[1] = answer'
        /\ 0 \in {0, answer'}
    BY <1>1, <1>2
  <2> HIDE DEF id
  <2> QED
    BY <1>1, <1>4, <2>1, <2>2, SpeakingKeepsInv
<1> QED
  BY <1>3, <1>4

\* case "function_call_output"
LEMMA FunctionCallOutputKeepsInv ==
  ASSUME Inv, protocol = "responses", UNCHANGED <<protocol, speaker>>,
         NEW id \in Responses!CallIDs, Responses!FunctionCallOutput(id)
  PROVE  Inv'
<1> DEFINE message == Message("tool", 0, 0, {}, id)
<1>1. /\ id \in unanswered /\ messages' = Append(messages, message)
      /\ unanswered' = unanswered \ {id} /\ pendingReasoning' = 0 /\ last' = "output"
      /\ UNCHANGED <<answer, called, reasoned, grouped, textFirst>>
  BY DEF Responses!FunctionCallOutput, Responses!Message, Message
<1>2. id \in Nat \X Nat
  BY HistoryAssumption DEF Responses!CallIDs, Responses!Answers
<1>3. /\ message \in Messages /\ RoleOf(message) = "tool" /\ CallsOf(message) = {}
      /\ ReasoningOf(message) = 0 /\ AnswerOf(message) = id
  BY <1>2, MessageFields
<1> HIDE DEF message
<1>4. /\ HistoryInv /\ called \in Nat
      /\ \A call : Between(protocol, textFirst, message, call)
      /\ unanswered' \subseteq unanswered /\ \A call \in unanswered \ unanswered' : call = id
  BY <1>1, <1>3 DEF Inv, ResponsesInv, Between
<1>5. HistoryInv' /\ messages' # <<>> /\ RoleOf(messages[Len(messages)])' = RoleOf(message)
  BY <1>1, <1>3, <1>4, OneAnswer
<1>6. ~SpokeLast'
  BY <1>3, <1>5 DEF SpokeLast
<1>7. answer # 0 /\ \A call \in unanswered' : call[1] = answer /\ called # 0
  <2>1. id[1] = answer /\ \A call \in unanswered : call[1] = answer /\ called # 0
    BY <1>1 DEF Inv, ResponsesInv
  <2>2. id[1] # 0
    BY HistoryAssumption DEF Responses!CallIDs, Responses!Answers
  <2> QED
    BY <1>1, <2>1, <2>2
<1>8. ResponsesInv'
  BY <1>1, <1>4, <1>6, <1>7 DEF ResponsesInv, CarriedInv
<1> QED
  BY <1>5, <1>8 DEF Inv, AnthropicInv

-----------------------------------------------------------------------------
\* An order of the calls that are open has each of them.
LEMMA OrderIsComplete ==
  ASSUME NEW S, IsFiniteSet(S), NEW order \in Anthropic!SetToSeqs(S)
  PROVE  /\ order \in Seq(S)
         /\ \A e \in S : \E i \in 1..Len(order) : order[i] = e
<1> DEFINE D == 1..Cardinality(S)
           T == {order[i] : i \in D}
<1>1. order \in [D -> S] /\ \A i, j \in D : i # j => order[i] # order[j]
  BY DEF Anthropic!SetToSeqs, Anthropic!Cardinality, Cardinality
<1>2. Cardinality(S) \in Nat
  BY FS_CardinalityType
<1>3. order \in Seq(S) /\ Len(order) = Cardinality(S)
  BY <1>1, <1>2
<1>4. IsFiniteSet(D) /\ Cardinality(D) = Cardinality(S)
  BY <1>2, FS_Interval
<1>5. order \in Surjection(D, T) /\ order \in Injection(D, T)
  BY <1>1 DEF Surjection, Injection, IsInjective
<1>6. Cardinality(T) = Cardinality(S)
  <2> HIDE DEF D, T
  <2> QED
    BY <1>4, <1>5, FS_Surjection
<1>7. T = S
  <2>1. T \in SUBSET S
    BY <1>1
  <2> HIDE DEF D, T
  <2> QED
    BY <1>6, <2>1, FS_Subset
<1> QED
  BY <1>3, <1>7

\* A message the user sends, with a text or with the result of a call of S.
OfUser(message, S) ==
  /\ RoleOf(message) \in {"user", "tool"} /\ CallsOf(message) = {}
  /\ ReasoningOf(message) = 0
  /\ RoleOf(message) = "tool" => AnswerOf(message) \in S

\* What the user's message becomes: a text, if there is any, and each result.
LEMMA UserBlocks ==
  ASSUME NEW S, S \subseteq Nat \X Nat, IsFiniteSet(S),
         NEW order \in Anthropic!SetToSeqs(S), NEW text \in BOOLEAN
  PROVE  /\ Anthropic!ConvertUserBlocks(order, text) \in Seq(Messages)
         /\ \A i \in 1..Len(Anthropic!ConvertUserBlocks(order, text)) :
              OfUser(Anthropic!ConvertUserBlocks(order, text)[i], S)
         /\ \A e \in S : \E i \in 1..Len(Anthropic!ConvertUserBlocks(order, text)) :
              AnswerOf(Anthropic!ConvertUserBlocks(order, text)[i]) = e
<1> DEFINE results == Anthropic!ToolResults(order)
           front == Anthropic!UserText(text)
           blocks == Anthropic!ConvertUserBlocks(order, text)
<1>1. /\ order \in Seq(S) /\ Len(order) \in Nat /\ DOMAIN order = 1..Len(order)
      /\ \A i \in 1..Len(order) : order[i] \in S
      /\ \A e \in S : \E i \in 1..Len(order) : order[i] = e
  BY OrderIsComplete, LenProperties, ElementOfSeq
<1>2. \A e \in S : /\ Message("tool", 0, 0, {}, e) \in Messages
                   /\ OfUser(Message("tool", 0, 0, {}, e), S)
                   /\ AnswerOf(Message("tool", 0, 0, {}, e)) = e
  BY MessageFields DEF OfUser
<1>3. results = [i \in 1..Len(order) |-> Message("tool", 0, 0, {}, order[i])]
  BY <1>1 DEF Anthropic!ToolResults, Anthropic!Message, Message
<1>4. /\ results \in Seq(Messages) /\ Len(results) = Len(order)
      /\ \A i \in 1..Len(results) : OfUser(results[i], S) /\ AnswerOf(results[i]) = order[i]
  <2> HIDE DEF results
  <2>1. \A i \in 1..Len(order) : results[i] = Message("tool", 0, 0, {}, order[i])
    BY <1>3
  <2>2. results \in [1..Len(order) -> Messages]
    BY <1>1, <1>2, <1>3
  <2>3. results \in Seq(Messages) /\ Len(results) = Len(order)
    <3> DEFINE N == Len(order)
    <3>1. N \in Nat /\ results \in [1..N -> Messages]
      BY <1>1, <2>2
    <3> HIDE DEF N
    <3>2. results \in Seq(Messages) /\ Len(results) = N
      BY <3>1
    <3> QED
      BY <3>2 DEF N
  <2> QED
    BY <1>1, <1>2, <2>1, <2>3
<1>5. /\ front \in Seq(Messages) /\ Len(front) \in Nat
      /\ \A i \in 1..Len(front) : OfUser(front[i], S)
  <2>1. CASE text
    <3>1. front = <<Message("user", 0, 0, {}, NoCall)>>
      BY <2>1 DEF Anthropic!UserText, Anthropic!Message, Message, Anthropic!NoCall, NoCall
    <3>2. NoCall \in Nat \X Nat
      BY DEF NoCall
    <3>3. /\ Message("user", 0, 0, {}, NoCall) \in Messages
          /\ OfUser(Message("user", 0, 0, {}, NoCall), S)
      BY <3>2, MessageFields DEF OfUser
    <3> HIDE DEF front
    <3>4. front \in Seq(Messages) /\ Len(front) = 1
      BY <3>1, <3>3
    <3>5. \A i \in 1..Len(front) : front[i] = Message("user", 0, 0, {}, NoCall)
      BY <3>1, <3>4
    <3> QED
      BY <3>3, <3>4, <3>5
  <2>2. CASE ~text
    <3>1. front = <<>>
      BY <2>2 DEF Anthropic!UserText
    <3> HIDE DEF front
    <3> QED
      BY <3>1, EmptySeq
  <2> QED
    BY <2>1, <2>2
<1>6. blocks = front \o results
  BY DEF Anthropic!ConvertUserBlocks
<1> HIDE DEF results, front
<1>7. /\ blocks \in Seq(Messages) /\ Len(blocks) = Len(front) + Len(results)
      /\ \A i \in 1..Len(blocks) :
           blocks[i] = IF i <= Len(front) THEN front[i] ELSE results[i - Len(front)]
  <2> HIDE DEF blocks
  <2>1. front \in Seq(Messages) /\ results \in Seq(Messages)
    BY <1>4, <1>5
  <2> QED
    BY <1>6, <2>1, ConcatProperties
<1> HIDE DEF blocks
<1>8. ASSUME NEW i \in 1..Len(blocks) PROVE OfUser(blocks[i], S)
  <2>1. CASE i <= Len(front)
    BY <1>5, <1>7, <2>1
  <2>2. CASE i > Len(front)
    <3>1. i - Len(front) \in 1..Len(results) /\ blocks[i] = results[i - Len(front)]
      <4>1. /\ i \in 1..(Len(front) + Len(results)) /\ Len(front) \in Nat
            /\ Len(results) \in Nat
        BY <1>1, <1>4, <1>5, <1>7
      <4>2. i - Len(front) \in 1..Len(results) /\ ~(i <= Len(front))
        BY <2>2, <4>1
      <4> QED
        BY <1>7, <4>2
    <3> QED
      BY <1>4, <3>1
  <2> QED
    BY <1>5, <2>1, <2>2
<1>9. ASSUME NEW e \in S PROVE \E i \in 1..Len(blocks) : AnswerOf(blocks[i]) = e
  <2>1. PICK i \in 1..Len(order) : order[i] = e
    BY <1>1
  <2>2. /\ Len(front) + i \in 1..Len(blocks) /\ ~(Len(front) + i <= Len(front))
        /\ (Len(front) + i) - Len(front) = i
    BY SMTT(30), <1>1, <1>4, <1>5, <1>7
  <2>3. blocks[Len(front) + i] = results[i]
    BY <1>7, <2>2
  <2> QED
    BY <1>4, <2>1, <2>2, <2>3
<1> QED
  BY <1>7, <1>8, <1>9 DEF blocks

\* convertUserBlocks, for a message of the user.
LEMMA UserMessageKeepsInv ==
  ASSUME Inv, protocol = "anthropic", Anthropic!UserMessage,
         UNCHANGED <<protocol, pendingReasoning, last, called, grouped, textFirst>>
  PROVE  Inv'
<1>1. PICK order \in Anthropic!SetToSeqs(unanswered), text \in BOOLEAN :
        messages' = messages \o Anthropic!ConvertUserBlocks(order, text)
  BY DEF Anthropic!UserMessage
<1>2. unanswered' = {} /\ UNCHANGED <<answer, reasoned>>
  BY DEF Anthropic!UserMessage
<1>3. /\ HistoryInv /\ IsFiniteSet(unanswered)
      /\ \A message, call : RoleOf(message) \in {"tool", "user"} =>
                              Between(protocol, textFirst, message, call)
  BY DEF Inv, AnthropicInv, Between
<1>4. messages \in Seq(Messages) /\ Len(messages) \in Nat
  BY <1>3, LenProperties DEF HistoryInv, TypeInv
<1>5. unanswered \subseteq Nat \X Nat
  <2>1. \A i \in 1..Len(messages) : messages[i] \in Messages
    BY <1>4, ElementOfSeq
  <2>2. \A i \in 1..Len(messages) : CallsOf(messages[i]) \subseteq Nat \X Nat
    BY <2>1 DEF Messages, CallsOf
  <2> QED
    BY <1>3, <2>2 DEF HistoryInv, PendingInv
<1> DEFINE blocks == Anthropic!ConvertUserBlocks(order, text)
<1>6. /\ blocks \in Seq(Messages)
      /\ \A i \in 1..Len(blocks) :
           OfUser(blocks[i], unanswered)
      /\ \A call \in unanswered : \E i \in 1..Len(blocks) : AnswerOf(blocks[i]) = call
  BY <1>3, <1>5, UserBlocks
<1>7. messages' = messages \o blocks
  BY <1>1
<1> HIDE DEF blocks
<1>8. Len(blocks) \in Nat
  BY <1>6, LenProperties
<1>9. /\ messages' \in Seq(Messages) /\ Len(messages') = Len(messages) + Len(blocks)
      /\ \A i \in 1..(Len(messages) + Len(blocks)) :
           messages'[i] = IF i <= Len(messages) THEN messages[i]
                                                ELSE blocks[i - Len(messages)]
  BY <1>4, <1>6, <1>7, ConcatProperties
<1>10. \A i \in 1..Len(messages) : messages'[i] = messages[i]
  BY <1>4, <1>8, <1>9
<1>11. ASSUME NEW i \in (Len(messages) + 1)..Len(messages')
       PROVE  i - Len(messages) \in 1..Len(blocks) /\ messages'[i] = blocks[i - Len(messages)]
  BY <1>4, <1>8, <1>9
<1>12. Answers(messages, messages')
  <2>1. Len(messages) <= Len(messages')
    BY <1>4, <1>8, <1>9
  <2>2. ASSUME NEW i \in (Len(messages) + 1)..Len(messages')
        PROVE  /\ RoleOf(messages'[i]) # "assistant" /\ CallsOf(messages'[i]) = {}
               /\ ReasoningOf(messages'[i]) = 0
               /\ \A call \in unanswered : Between(protocol, textFirst, messages'[i], call)
               /\ RoleOf(messages'[i]) = "tool" => AnswerOf(messages'[i]) \in unanswered
    <3>1. OfUser(messages'[i], unanswered)
      BY <1>6, <1>11
    <3>2. RoleOf(messages'[i]) \in {"tool", "user"}
      BY <3>1 DEF OfUser
    <3>3. \A call \in unanswered : Between(protocol, textFirst, messages'[i], call)
      BY <1>3, <3>2
    <3> QED
      BY <3>1, <3>2, <3>3 DEF OfUser
  <2> QED
    BY <1>10, <2>1, <2>2 DEF Answers
<1>13. ASSUME NEW call \in unanswered \ unanswered'
       PROVE  \E k \in (Len(messages) + 1)..Len(messages') : AnswerOf(messages'[k]) = call
  <2>1. PICK i \in 1..Len(blocks) : AnswerOf(blocks[i]) = call
    BY <1>6
  <2>2. /\ Len(messages) + i \in (Len(messages) + 1)..Len(messages')
        /\ (Len(messages) + i) - Len(messages) = i
    BY <1>4, <1>8, <1>9
  <2>3. messages'[Len(messages) + i] = blocks[i]
    BY <1>11, <2>2
  <2> QED
    BY <2>1, <2>2, <2>3
<1>14. HistoryInv'
  BY <1>2, <1>3, <1>9, <1>12, <1>13, AnswersKeepHistory
<1>15. AnthropicInv'
  BY <1>2, <1>3, FS_EmptySet DEF AnthropicInv
<1> QED
  BY <1>14, <1>15 DEF Inv, ResponsesInv

\* convertAssistantBlocks, for an answer of the model.
LEMMA AssistantTurnKeepsInv ==
  ASSUME Inv, protocol = "anthropic", Anthropic!AssistantMessage,
         UNCHANGED <<protocol, pendingReasoning, last, called, grouped, textFirst>>
  PROVE  Inv'
<1> DEFINE new == answer + 1
           made(n) == {<<new, k>> : k \in 1..n}
<1>1. PICK thinking \in BOOLEAN, text \in BOOLEAN, n \in 0..MaxCalls :
        /\ messages' = messages \o Anthropic!ConvertAssistantBlocks(thinking, text, made(n))
        /\ unanswered' = made(n)
        /\ reasoned' = IF thinking THEN reasoned \cup {new} ELSE reasoned
  BY DEF Anthropic!AssistantMessage
<1>2. speaker = "assistant" /\ answer' = new /\ speaker' = "user"
  BY DEF Anthropic!AssistantMessage
<1> DEFINE calls == made(n)
           content == IF text THEN new ELSE 0
           reasoning == IF thinking THEN new ELSE 0
           message == Message("assistant", content, reasoning, calls, NoCall)
<1>3. /\ HistoryInv /\ unanswered = {}
  BY <1>2 DEF Inv, AnthropicInv
<1>4. messages \in Seq(Messages) /\ answer \in Nat /\ reasoned \subseteq 1..answer
  BY <1>3 DEF HistoryInv, TypeInv
<1>5. new \in Nat /\ answer <= new /\ new \notin reasoned /\ n \in Nat
  BY <1>4, HistoryAssumption
<1>6. /\ calls \in SUBSET (Nat \X Nat) /\ \A call \in calls : call[1] = new
      /\ IsFiniteSet(calls)
  <2>1. calls \in SUBSET (Nat \X Nat) /\ \A call \in calls : call[1] = new
    BY <1>5
  <2>2. IsFiniteSet(1..n)
    BY <1>5, FS_Interval
  <2>3. [k \in 1..n |-> <<new, k>>] \in Surjection(1..n, calls)
    BY DEF Surjection
  <2> HIDE DEF calls, new
  <2> QED
    BY <2>1, <2>2, <2>3, FS_Surjection
<1>7. /\ reasoned' \subseteq 1..new /\ \A a \in 0..answer : a \in reasoned' => a \in reasoned
      /\ content \in {0, new} /\ reasoning \in {0, new}
      /\ new \in reasoned' => reasoning = new
  <2>1. CASE thinking
    BY <1>1, <1>4, <1>5, <2>1
  <2>2. CASE ~thinking
    BY <1>1, <1>4, <1>5, <2>2
  <2> QED
    BY <2>1, <2>2
<1>8. messages' = messages \o <<message>>
  BY <1>1 DEF Anthropic!ConvertAssistantBlocks, Anthropic!Message, Message,
              Anthropic!NoCall, NoCall
<1>9. unanswered' = unanswered \cup calls
  BY <1>1, <1>3
<1> HIDE DEF calls, content, reasoning, new
<1>10. /\ message \in Messages /\ RoleOf(message) = "assistant" /\ ContentOf(message) = content
       /\ ReasoningOf(message) = reasoning /\ CallsOf(message) = calls
  <2>1. NoCall \in Nat \X Nat
    BY DEF NoCall
  <2>2. content \in Nat /\ reasoning \in Nat
    BY <1>5, <1>7
  <2> QED
    BY <1>6, <2>1, <2>2, MessageFields
<1> HIDE DEF message
<1>11. messages' = Append(messages, message)
  BY <1>4, <1>8, <1>10, AppendIsConcat
<1>12. HistoryInv'
  <2>1. /\ grouped' \in BOOLEAN /\ (grouped' => grouped)
        /\ textFirst' \in BOOLEAN /\ (textFirst' => textFirst)
    BY <1>3 DEF HistoryInv, TypeInv
  <2>2. \A call \in unanswered : call[1] \in AnswersIn(message) /\ ~textFirst'
    BY <1>3
  <2> QED
    BY <1>2, <1>3, <1>5, <1>6, <1>7, <1>9, <1>10, <1>11, <2>1, <2>2, SpeakingKeepsHistory
<1>13. AnthropicInv'
  BY <1>2, <1>3, <1>6, <1>9 DEF AnthropicInv
<1> QED
  BY <1>12, <1>13 DEF Inv, ResponsesInv

-----------------------------------------------------------------------------
\* The conversation begins with the instructions, or with nothing.
LEMMA InitInv == Init => Inv
<1> SUFFICES ASSUME Init PROVE Inv
  OBVIOUS
<1>1. /\ protocol \in {"responses", "anthropic"}
      /\ messages \in {<<>>, <<Message("system", 0, 0, {}, NoCall)>>}
      /\ answer = 0 /\ unanswered = {} /\ reasoned = {} /\ speaker = "user"
      /\ pendingReasoning = 0 /\ last = "none" /\ called = 0
      /\ grouped = TRUE /\ textFirst = TRUE
  BY DEF Init, Responses!Init, Anthropic!Init, Responses!Message, Message,
         Responses!NoCall, NoCall
<1>2. /\ Message("system", 0, 0, {}, NoCall) \in Messages
      /\ RoleOf(Message("system", 0, 0, {}, NoCall)) = "system"
      /\ CallsOf(Message("system", 0, 0, {}, NoCall)) = {}
      /\ ReasoningOf(Message("system", 0, 0, {}, NoCall)) = 0
  <2>1. NoCall \in Nat \X Nat
    BY DEF NoCall
  <2> QED
    BY <2>1, MessageFields
<1>3. /\ messages \in Seq(Messages) /\ Len(messages) \in {0, 1}
      /\ \A i \in 1..Len(messages) :
           /\ RoleOf(messages[i]) = "system" /\ CallsOf(messages[i]) = {}
           /\ ReasoningOf(messages[i]) = 0
      /\ messages = <<>> \/ RoleOf(messages[Len(messages)]) = "system"
  <2>1. CASE messages = <<>>
    BY <2>1, EmptySeq
  <2>2. CASE messages = <<Message("system", 0, 0, {}, NoCall)>>
    <3> DEFINE message == Message("system", 0, 0, {}, NoCall)
    <3>1. messages = <<message>> /\ message \in Messages
      BY <1>2, <2>2
    <3> HIDE DEF message
    <3>2. messages \in Seq(Messages) /\ Len(messages) = 1 /\ messages[1] = message
      BY <3>1
    <3> QED
      BY <1>2, <3>2 DEF message
  <2> QED
    BY <1>1, <2>1, <2>2
<1>4. TypeInv
  BY <1>1, <1>3 DEF TypeInv
<1>5. CallInv /\ PendingInv /\ CarryInv /\ OwnInv
  BY <1>1, <1>3 DEF CallInv, PendingInv, CarryInv, OwnInv
<1>6. FollowInv /\ AnsweredInv
  BY <1>3 DEF FollowInv, AnsweredInv
<1>7. ResponsesInv
  BY <1>1, <1>3 DEF ResponsesInv, SpokeLast, CarriedInv
<1>8. AnthropicInv
  BY <1>1, FS_EmptySet DEF AnthropicInv
<1> QED
  BY <1>4, <1>5, <1>6, <1>7, <1>8 DEF Inv, HistoryInv

\* Every turn of either loop keeps the invariant.
LEMMA KeepsInv == Inv /\ [Next]_vars => Inv'
<1> SUFFICES ASSUME Inv, [Next]_vars PROVE Inv'
  OBVIOUS
<1>1. CASE protocol = "responses" /\ Responses!Next /\ UNCHANGED <<protocol, speaker>>
  <2>1. ASSUME NEW role \in {"user", "system", "developer"}, Responses!InputMessage(role)
        PROVE  Inv'
    BY <1>1, <2>1, InputMessageKeepsInv
  <2>2. CASE Responses!Reasoning
    BY <1>1, <2>2, ReasoningKeepsInv
  <2>3. CASE Responses!AssistantMessage
    BY <1>1, <2>3, AssistantMessageKeepsInv
  <2>4. CASE Responses!FunctionCall
    BY <1>1, <2>4, FunctionCallKeepsInv
  <2>5. ASSUME NEW id \in Responses!CallIDs, Responses!FunctionCallOutput(id)
        PROVE  Inv'
    BY <1>1, <2>5, FunctionCallOutputKeepsInv
  <2> QED
    BY <1>1, <2>1, <2>2, <2>3, <2>4, <2>5 DEF Responses!Next
<1>2. CASE /\ protocol = "anthropic" /\ Anthropic!Next
           /\ UNCHANGED <<protocol, pendingReasoning, last, called, grouped, textFirst>>
  <2>1. CASE Anthropic!UserMessage
    BY <1>2, <2>1, UserMessageKeepsInv
  <2>2. CASE Anthropic!AssistantMessage
    BY <1>2, <2>2, AssistantTurnKeepsInv
  <2> QED
    BY <1>2, <2>1, <2>2 DEF Anthropic!Next
<1>3. CASE UNCHANGED vars
  BY <1>3 DEF vars, Inv, HistoryInv, TypeInv, CallInv, PendingInv, CarryInv, OwnInv,
              FollowInv, AnsweredInv, ResponsesInv, AnthropicInv, OfAnswer, SpokeLast,
              CarriedInv
<1> QED
  BY <1>1, <1>2, <1>3 DEF Next

\* The invariant holds of every conversation that is replayed.
THEOREM Invariance == Spec => []Inv
BY InitInv, KeepsInv, PTL DEF Spec

-----------------------------------------------------------------------------
\* The reasoning an answer began with reaches its calls, in their own message
\* where the text comes first, however long the conversation, however many calls
\* an answer makes and in whatever order its items were streamed.
THEOREM CallsCarryTheirReasoning == Spec => []CallsCarryReasoning
<1>1. Inv => CallsCarryReasoning
  <2> SUFFICES ASSUME Inv, grouped,
                      NEW i \in DOMAIN messages, NEW call \in messages[i].calls,
                      call[1] \in reasoned
               PROVE  /\ \E j \in 1..i : messages[j].reasoning = call[1]
                      /\ textFirst => messages[i].reasoning = call[1]
    BY DEF CallsCarryReasoning, CarryReasoning, FollowReasoning
  <2>1. i \in 1..Len(messages)
    BY LenProperties DEF Inv, HistoryInv, TypeInv
  <2> QED
    BY <2>1 DEF Inv, HistoryInv, CarryInv, CallsOf, ReasoningOf
<1> QED
  BY <1>1, Invariance, PTL

\* No message carries the reasoning of an answer other than its own.
THEOREM NoForeignReasoning == Spec => []ReasoningIsOwn
<1>1. Inv => ReasoningIsOwn
  <2> SUFFICES ASSUME Inv, NEW i \in DOMAIN messages, messages[i].reasoning # 0
               PROVE  /\ messages[i].role = "assistant"
                      /\ messages[i].content \in {0, messages[i].reasoning}
                      /\ \A call \in messages[i].calls : call[1] = messages[i].reasoning
    BY DEF ReasoningIsOwn, OwnReasoning
  <2>1. i \in 1..Len(messages)
    BY LenProperties DEF Inv, HistoryInv, TypeInv
  <2> QED
    BY <2>1 DEF Inv, HistoryInv, OwnInv, CallsOf, ReasoningOf, RoleOf, ContentOf
<1> QED
  BY <1>1, Invariance, PTL

\* The answer to a call stands behind the message that made it, and no other
\* answer of the model in between, whatever the order of the items and outputs.
THEOREM AnswersStandBehindCalls == Spec => []OutputsFollowCalls
<1>1. Inv => OutputsFollowCalls
  <2> SUFFICES ASSUME Inv, NEW i \in DOMAIN messages, messages[i].role = "tool"
               PROVE  \E j \in 1..(i - 1) :
                        /\ messages[i].answer \in messages[j].calls
                        /\ \A k \in (j + 1)..(i - 1) :
                             MayStandBetween(messages[k], messages[i].answer)
    BY DEF OutputsFollowCalls
  <2>1. i \in 1..Len(messages)
    BY LenProperties DEF Inv, HistoryInv, TypeInv
  <2>2. \A message, call : Between(protocol, textFirst, message, call) =>
                           MayStandBetween(message, call)
    BY DEF Between, MayStandBetween, RoleOf
  <2>3. \E j \in 1..(i - 1) :
          /\ messages[i].answer \in messages[j].calls
          /\ \A k \in (j + 1)..(i - 1) :
               Between(protocol, textFirst, messages[k], messages[i].answer)
    BY <2>1 DEF Inv, HistoryInv, FollowInv, CallsOf, AnswerOf, RoleOf
  <2> QED
    BY <2>2, <2>3
<1> QED
  BY <1>1, Invariance, PTL

\* All calls are answered before the model gives another answer, whatever the
\* order of the items and outputs.
THEOREM NoCallIsLeftOpen == Spec => []CallsAreAnswered
<1>1. Inv => CallsAreAnswered
  <2> SUFFICES ASSUME Inv, NEW i \in DOMAIN messages, NEW j \in DOMAIN messages,
                      i < j, messages[j].role = "assistant", NEW call \in messages[i].calls,
                      call[1] \notin AnswersIn(messages[j])
               PROVE  \E k \in i..j : messages[k].answer = call
    BY DEF CallsAreAnswered
  <2>1. i \in 1..Len(messages) /\ j \in 1..Len(messages)
    BY LenProperties DEF Inv, HistoryInv, TypeInv
  <2> QED
    BY <2>1 DEF Inv, HistoryInv, AnsweredInv, CallsOf, AnswerOf, RoleOf
<1> QED
  BY <1>1, Invariance, PTL

=============================================================================
