--------------------------- MODULE ResponsesStream ---------------------------
(***************************************************************************)
(* responsesStreaming (responses.go): a Chat Completions stream is turned  *)
(* into the events of the Responses API.                                   *)
(*                                                                         *)
(* The handler is sequential.  An upstream chunk with several parts does   *)
(* what one chunk per part would do, in the order reasoning, content, tool *)
(* calls, so each action takes one part.  A part carries one piece: pieces *)
(* of a source are numbered as they arrive, and the text of an item is the *)
(* set of the pieces it was sent as deltas.  Names of tools and usage are  *)
(* left out.  An upstream is ordered as long as it reasons before it does  *)
(* anything else and does not return to a tool call it has left for text.  *)
(*                                                                         *)
(* items is what the client has been sent: items[i] is the output item     *)
(* with output_index i - 1, so nextOutputIndex is Len(items).  A pointer   *)
(* to an item is its position, 0 for nil.                                  *)
(***************************************************************************)
EXTENDS Naturals, Sequences, FiniteSets

CONSTANTS
  ToolIndexes,   \* the indexes of the upstream's tool calls
  MaxFragments   \* bound: pieces the upstream sends from one source

Nil == 0
Sources == {"reasoning", "text"} \cup ToolIndexes

ASSUME SourcesAssumption ==
  /\ MaxFragments \in Nat
  /\ "reasoning" \notin ToolIndexes /\ "text" \notin ToolIndexes

VARIABLES
  items,             \* sequence of [source, id, content, dones]
  output,            \* the items of response.completed, as positions
  currentReasoning,
  currentText,
  toolItems,         \* position of each tool call's item
  nextMessageIndex,
  gotChunk,
  status,            \* "streaming", or the terminal event sent
  received,          \* pieces of each source the upstream has sent
  ordered            \* ghost: the upstream has kept its order so far

vars == <<items, output, currentReasoning, currentText, toolItems,
          nextMessageIndex, gotChunk, status, received, ordered>>

Positions == 1..Len(items)
Pieces == SUBSET (1..MaxFragments)

TypeOK ==
  /\ items \in Seq([source : Sources, id : Sources \X Nat, content : Pieces,
                    dones : {0, 1}])
  /\ output \in Seq(Positions)
  /\ currentReasoning \in Positions \cup {Nil}
  /\ currentText \in Positions \cup {Nil}
  /\ toolItems \in [ToolIndexes -> Positions \cup {Nil}]
  /\ nextMessageIndex \in Nat
  /\ gotChunk \in BOOLEAN
  /\ status \in {"streaming", "completed", "failed"}
  /\ received \in [Sources -> 0..MaxFragments]
  /\ ordered \in BOOLEAN

Init ==
  /\ items = <<>>
  /\ output = <<>>
  /\ currentReasoning = Nil
  /\ currentText = Nil
  /\ toolItems = [k \in ToolIndexes |-> Nil]
  /\ nextMessageIndex = 0
  /\ gotChunk = FALSE
  /\ status = "streaming"
  /\ received = [s \in Sources |-> 0]
  /\ ordered = TRUE

-----------------------------------------------------------------------------
(***************************************************************************)
(* The closures of responsesStreaming, on the items sent so far.           *)
(***************************************************************************)

\* response.output_item.added
Added(its, source, id) ==
  Append(its, [source |-> source, id |-> <<source, id>>, content |-> {},
               dones |-> 0])

\* A delta event for the item at position p.
Delta(its, p, piece) == [its EXCEPT ![p].content = @ \cup {piece}]

\* response.output_item.done for the items at the positions ps.  It repeats
\* the text the handler has accumulated, which is the content so far.
Done(its, ps) ==
  [i \in DOMAIN its |->
     IF i \in ps THEN [its[i] EXCEPT !.dones = @ + 1] ELSE its[i]]

ItemAt(p) == {p} \ {Nil}

\* Mutant: finishTool does not look at Done.
OpenToolsDoneOrNot ==
  {toolItems[k] : k \in {j \in ToolIndexes : toolItems[j] # Nil}}

\* Positions of the tool items that are not Done; toolOrder is their order.
OpenTools ==
  {toolItems[k] : k \in {j \in ToolIndexes : /\ toolItems[j] # Nil
                                             /\ items[toolItems[j]].dones = 0}}

\* The upstream has not left tool call k for text and now returns to it.
InRow(k) == toolItems[k] # Nil => items[toolItems[k]].dones = 0

\* The positions ps, the lowest first.
InOrder(ps) ==
  CHOOSE s \in [1..Cardinality(ps) -> ps] :
    \A i, j \in 1..Cardinality(ps) : i < j => s[i] < s[j]

(***************************************************************************)
(* A part of a chunk.  piece is the number of the source's next piece.     *)
(***************************************************************************)
Piece(source) == received[source] + 1

Arrive(source) ==
  /\ status = "streaming"
  /\ received[source] < MaxFragments
  /\ received' = [received EXCEPT ![source] = @ + 1]
  /\ gotChunk' = TRUE
  /\ UNCHANGED status

\* startReasoning leaves an open message or tool call open.
Reasoning ==
  /\ Arrive("reasoning")
  /\ ordered' = (ordered /\ currentReasoning = Len(items))
  /\ IF currentReasoning # Nil
       THEN /\ items' = Delta(items, currentReasoning, Piece("reasoning"))
            /\ UNCHANGED currentReasoning
       ELSE /\ currentReasoning' = Len(items) + 1
            /\ items' = Delta(Added(items, "reasoning", 0), currentReasoning',
                              Piece("reasoning"))
  /\ UNCHANGED <<output, currentText, toolItems, nextMessageIndex>>

\* Mutant: startText does not finish the tool calls.
TextKeepsTools ==
  /\ Arrive("text")
  /\ LET closed == Done(items, ItemAt(currentReasoning))
     IN /\ output' = output \o InOrder(ItemAt(currentReasoning))
        /\ IF currentText # Nil
             THEN /\ items' = Delta(closed, currentText, Piece("text"))
                  /\ UNCHANGED <<currentText, nextMessageIndex>>
             ELSE /\ currentText' = Len(items) + 1
                  /\ items' = Delta(Added(closed, "text", nextMessageIndex),
                                    currentText', Piece("text"))
                  /\ nextMessageIndex' = nextMessageIndex + 1
  /\ currentReasoning' = Nil
  /\ UNCHANGED <<toolItems, ordered>>

\* startText: finishReasoning and finishTools, then the current message or a
\* new one.
Text ==
  /\ Arrive("text")
  /\ LET finished == ItemAt(currentReasoning) \cup OpenTools
         closed   == Done(items, finished)
     IN /\ output' = output \o InOrder(ItemAt(currentReasoning))
                            \o InOrder(OpenTools)
        /\ IF currentText # Nil
             THEN /\ items' = Delta(closed, currentText, Piece("text"))
                  /\ UNCHANGED <<currentText, nextMessageIndex>>
             ELSE /\ currentText' = Len(items) + 1
                  /\ items' = Delta(Added(closed, "text", nextMessageIndex),
                                    currentText', Piece("text"))
                  /\ nextMessageIndex' = nextMessageIndex + 1
  /\ currentReasoning' = Nil
  /\ UNCHANGED <<toolItems, ordered>>

\* Mutant: arguments go to the tool call that was added last.
ToolCallLast(k) ==
  /\ Arrive(k)
  /\ ordered' = (ordered /\ InRow(k))
  /\ LET finished == ItemAt(currentReasoning) \cup ItemAt(currentText)
         closed   == Done(items, finished)
         added    == IF toolItems[k] # Nil THEN closed ELSE Added(closed, k, 0)
     IN /\ output' = output \o InOrder(ItemAt(currentReasoning))
                            \o InOrder(ItemAt(currentText))
        /\ toolItems' = IF toolItems[k] # Nil THEN toolItems
                        ELSE [toolItems EXCEPT ![k] = Len(items) + 1]
        /\ items' = Delta(added, Len(added), Piece(k))
  /\ currentReasoning' = Nil
  /\ currentText' = Nil
  /\ UNCHANGED nextMessageIndex

\* Mutant: finishText does not reset currentText.
ToolCallKeepsText(k) ==
  /\ Arrive(k)
  /\ ordered' = (ordered /\ InRow(k))
  /\ LET text     == {p \in ItemAt(currentText) : items[p].dones = 0}
         closed   == Done(items, ItemAt(currentReasoning) \cup text)
         added    == IF toolItems[k] # Nil THEN closed ELSE Added(closed, k, 0)
     IN /\ output' = output \o InOrder(ItemAt(currentReasoning)) \o InOrder(text)
        /\ toolItems' = IF toolItems[k] # Nil THEN toolItems
                        ELSE [toolItems EXCEPT ![k] = Len(items) + 1]
        /\ items' = Delta(added, toolItems'[k], Piece(k))
  /\ currentReasoning' = Nil
  /\ UNCHANGED <<currentText, nextMessageIndex>>

\* startTool: finishReasoning and finishText, then the item of this index,
\* whether or not it is Done, or a new one.  A fragment may have no arguments.
ToolCall(k) ==
  /\ \/ Arrive(k)
     \/ /\ status = "streaming" /\ gotChunk' = TRUE
        /\ UNCHANGED <<received, status>>
  /\ ordered' = (ordered /\ InRow(k))
  /\ LET finished == ItemAt(currentReasoning) \cup ItemAt(currentText)
         closed   == Done(items, finished)
         added    == IF toolItems[k] # Nil THEN closed ELSE Added(closed, k, 0)
     IN /\ output' = output \o InOrder(ItemAt(currentReasoning))
                            \o InOrder(ItemAt(currentText))
        /\ toolItems' = IF toolItems[k] # Nil THEN toolItems
                        ELSE [toolItems EXCEPT ![k] = Len(items) + 1]
        /\ items' = IF received'[k] = received[k] THEN added
                    ELSE Delta(added, toolItems'[k], Piece(k))
  /\ currentReasoning' = Nil
  /\ currentText' = Nil
  /\ UNCHANGED nextMessageIndex

\* A chunk without choices or with an empty delta.
EmptyChunk ==
  /\ status = "streaming"
  /\ gotChunk' = TRUE
  /\ UNCHANGED <<items, output, currentReasoning, currentText, toolItems,
                 nextMessageIndex, status, received, ordered>>

\* Mutant: the tool calls are left open at the end.
CompleteKeepsTools ==
  /\ status = "streaming"
  /\ gotChunk
  /\ items' = Done(items, ItemAt(currentReasoning) \cup ItemAt(currentText))
  /\ output' = output \o InOrder(ItemAt(currentReasoning))
                      \o InOrder(ItemAt(currentText))
  /\ currentReasoning' = Nil
  /\ currentText' = Nil
  /\ status' = "completed"
  /\ UNCHANGED <<toolItems, nextMessageIndex, gotChunk, received,
                 ordered>>

\* iterateSSE returns nil after at least one chunk: at [DONE], or at the end
\* of the body.  What is open is finished and response.completed follows.
Complete ==
  /\ status = "streaming"
  /\ gotChunk
  /\ items' = Done(items, ItemAt(currentReasoning) \cup ItemAt(currentText)
                            \cup OpenTools)
  /\ output' = output \o InOrder(ItemAt(currentReasoning))
                      \o InOrder(ItemAt(currentText)) \o InOrder(OpenTools)
  /\ currentReasoning' = Nil
  /\ currentText' = Nil
  /\ status' = "completed"
  /\ UNCHANGED <<toolItems, nextMessageIndex, gotChunk, received,
                 ordered>>

\* An error event, a read error, or an end without a chunk: response.failed.
Fail ==
  /\ status = "streaming"
  /\ status' = "failed"
  /\ UNCHANGED <<items, output, currentReasoning, currentText, toolItems,
                 nextMessageIndex, gotChunk, received, ordered>>

Next == \/ Reasoning \/ Text
        \/ \E k \in ToolIndexes : ToolCall(k)
        \/ EmptyChunk \/ Complete \/ Fail

Spec == Init /\ [][Next]_vars

-----------------------------------------------------------------------------
(***************************************************************************)
(* Properties.                                                             *)
(***************************************************************************)
ItemsOf(source) == {i \in Positions : items[i].source = source}
Content(source) == UNION {items[i].content : i \in ItemsOf(source)}

\* Whatever the order of the upstream's parts, every piece has reached the
\* client in a delta of an item of its own source, and all the fragments of a
\* tool call in one item: parallel calls are not mixed up.
NothingLost ==
  /\ \A s \in Sources : Content(s) = 1..received[s]
  /\ \A k \in ToolIndexes : Cardinality(ItemsOf(k)) <= 1

\* Whatever the order, response.completed comes when every item that was
\* added is done, and lists each of them once.
CompletedListsAllDone ==
  status = "completed" =>
    /\ \A i \in Positions : items[i].dones = 1
    /\ Len(output) = Len(items)
    /\ {output[j] : j \in 1..Len(output)} = Positions

\* The client sees an item stream: messages and reasoning get no delta once
\* they are done (so their done events hold the whole text), nor does a tool
\* call unless the upstream leaves it for text and returns to it; everything is
\* done when the response completes; nothing follows the terminal event.
ClientItems ==
  [i \in DOMAIN items |-> [source |-> items[i].source,
                           content |-> items[i].content,
                           open |-> items[i].dones = 0]]

Abstract == INSTANCE ItemStream WITH items <- ClientItems,
                                     Resumable <- ToolIndexes
ItemStreamSpec == Abstract!Spec

\* For an ordered upstream the response lists its items in the order of their
\* output_index, the order in which Codex replays them on the next turn, and
\* their ids tell them apart (a second reasoning item would be another
\* "rs_proxy").
OutputInIndexOrder ==
  ordered =>
    /\ status = "completed" => output = [i \in Positions |-> i]
    /\ \A i, j \in Positions : items[i].id = items[j].id => i = j
=============================================================================
