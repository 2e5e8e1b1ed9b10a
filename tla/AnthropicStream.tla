--------------------------- MODULE AnthropicStream ---------------------------
(***************************************************************************)
(* anthropicStreaming (anthropic.go): a Chat Completions stream is turned  *)
(* into the events of the Anthropic Messages API.                          *)
(*                                                                         *)
(* As in ResponsesStream an action takes one part of an upstream chunk,    *)
(* and the text of a block is the set of the pieces it was sent.  Names of *)
(* tools and token counts are left out.                                    *)
(*                                                                         *)
(* blocks is what the client has been sent: blocks[i] is the content block *)
(* with index i - 1, so nextBlockIndex is Len(blocks).  inThinking and     *)
(* thinkingIndex are one position, Nil while inThinking is false; inText   *)
(* and textIndex likewise.                                                 *)
(*                                                                         *)
(* An upstream is ordered as long as it does not return to a tool call it  *)
(* has left, tells its finish reason last and once, and gives the reason   *)
(* "tool_calls" only after a tool call.                                    *)
(***************************************************************************)
EXTENDS Naturals, Sequences, FiniteSets

CONSTANTS
  ToolIndexes,   \* the indexes of the upstream's tool calls
  MaxFragments   \* bound: pieces the upstream sends from one source

Nil == 0
Sources == {"reasoning", "text"} \cup ToolIndexes

ASSUME SourcesAssumption ==
  /\ MaxFragments \in Nat
  /\ "reasoning" \notin ToolIndexes /\ "text" \notin ToolIndexes

VARIABLES
  blocks,        \* sequence of [source, content, stops]
  thinkingIndex,
  textIndex,
  toolBlocks,    \* position of each tool call's block
  openTools,     \* the tool calls whose block is Open
  sawToolUse,
  stopReason,
  gotChunk,
  status,        \* "streaming", or the terminal event sent
  received,      \* pieces of each source the upstream has sent
  finished,      \* the upstream has told its finish reason
  ordered        \* ghost: the upstream has kept its order so far

vars == <<blocks, thinkingIndex, textIndex, toolBlocks, openTools, sawToolUse,
          stopReason, gotChunk, status, received, finished, ordered>>

Positions == 1..Len(blocks)
Pieces == SUBSET (1..MaxFragments)

TypeOK ==
  /\ blocks \in Seq([source : Sources, content : Pieces, stops : {0, 1}])
  /\ thinkingIndex \in Positions \cup {Nil}
  /\ textIndex \in Positions \cup {Nil}
  /\ toolBlocks \in [ToolIndexes -> Positions \cup {Nil}]
  /\ openTools \subseteq ToolIndexes
  /\ sawToolUse \in BOOLEAN
  /\ stopReason \in {"end_turn", "max_tokens", "tool_use"}
  /\ gotChunk \in BOOLEAN
  /\ status \in {"streaming", "completed", "failed"}
  /\ received \in [Sources -> 0..MaxFragments]
  /\ finished \in BOOLEAN
  /\ ordered \in BOOLEAN

Init ==
  /\ blocks = <<>>
  /\ thinkingIndex = Nil
  /\ textIndex = Nil
  /\ toolBlocks = [k \in ToolIndexes |-> Nil]
  /\ openTools = {}
  /\ sawToolUse = FALSE
  /\ stopReason = "end_turn"
  /\ gotChunk = FALSE
  /\ status = "streaming"
  /\ received = [s \in Sources |-> 0]
  /\ finished = FALSE
  /\ ordered = TRUE

-----------------------------------------------------------------------------
\* content_block_start
Started(bs, source) ==
  Append(bs, [source |-> source, content |-> {}, stops |-> 0])

\* content_block_delta for the block at position p.
Delta(bs, p, piece) == [bs EXCEPT ![p].content = @ \cup {piece}]

\* content_block_stop for the blocks at the positions ps.
Stopped(bs, ps) ==
  [i \in DOMAIN bs |->
     IF i \in ps THEN [bs[i] EXCEPT !.stops = @ + 1] ELSE bs[i]]

\* Mutant: closeTools does not look at Open.
OpenToolsOpenOrNot == {toolBlocks[k] : k \in ToolIndexes} \ {Nil}

\* closeThinking, closeText and closeTools: what each of them stops.
Thinking == {thinkingIndex} \ {Nil}
InText == {textIndex} \ {Nil}
OpenTools == {toolBlocks[k] : k \in openTools}

\* The upstream has not told its finish reason, and has not left tool call k to
\* return to it now.
InRow(k) == ~finished /\ (toolBlocks[k] # Nil => k \in openTools)

Piece(source) == received[source] + 1

Arrive(source) ==
  /\ status = "streaming"
  /\ received[source] < MaxFragments
  /\ received' = [received EXCEPT ![source] = @ + 1]
  /\ gotChunk' = TRUE
  /\ UNCHANGED <<status, finished>>

\* Mutant: reasoning does not close the tool calls.
ReasoningKeepsTools ==
  /\ Arrive("reasoning")
  /\ ordered' = (ordered /\ ~finished)
  /\ LET stopped == Stopped(blocks, InText)
     IN IF thinkingIndex # Nil
          THEN /\ blocks' = Delta(stopped, thinkingIndex, Piece("reasoning"))
               /\ UNCHANGED thinkingIndex
          ELSE /\ thinkingIndex' = Len(blocks) + 1
               /\ blocks' = Delta(Started(stopped, "reasoning"), thinkingIndex',
                                  Piece("reasoning"))
  /\ textIndex' = Nil
  /\ UNCHANGED <<toolBlocks, openTools, sawToolUse, stopReason>>

Reasoning ==
  /\ Arrive("reasoning")
  /\ ordered' = (ordered /\ ~finished)
  /\ LET stopped == Stopped(blocks, InText \cup OpenTools)
     IN IF thinkingIndex # Nil
          THEN /\ blocks' = Delta(stopped, thinkingIndex, Piece("reasoning"))
               /\ UNCHANGED thinkingIndex
          ELSE /\ thinkingIndex' = Len(blocks) + 1
               /\ blocks' = Delta(Started(stopped, "reasoning"), thinkingIndex',
                                  Piece("reasoning"))
  /\ textIndex' = Nil
  /\ openTools' = {}
  /\ UNCHANGED <<toolBlocks, sawToolUse, stopReason>>

Text ==
  /\ Arrive("text")
  /\ ordered' = (ordered /\ ~finished)
  /\ LET stopped == Stopped(blocks, Thinking \cup OpenTools)
     IN IF textIndex # Nil
          THEN /\ blocks' = Delta(stopped, textIndex, Piece("text"))
               /\ UNCHANGED textIndex
          ELSE /\ textIndex' = Len(blocks) + 1
               /\ blocks' = Delta(Started(stopped, "text"), textIndex', Piece("text"))
  /\ thinkingIndex' = Nil
  /\ openTools' = {}
  /\ UNCHANGED <<toolBlocks, sawToolUse, stopReason>>

\* Mutant: arguments go to the block that was started last.
ToolCallLast(k) ==
  /\ Arrive(k)
  /\ ordered' = (ordered /\ InRow(k))
  /\ LET stopped == Stopped(blocks, Thinking \cup InText)
         started == IF toolBlocks[k] # Nil THEN stopped ELSE Started(stopped, k)
     IN /\ toolBlocks' = IF toolBlocks[k] # Nil THEN toolBlocks
                         ELSE [toolBlocks EXCEPT ![k] = Len(blocks) + 1]
        /\ openTools' = openTools \cup {k}
        /\ blocks' = Delta(started, Len(started), Piece(k))
  /\ sawToolUse' = TRUE
  /\ thinkingIndex' = Nil
  /\ textIndex' = Nil
  /\ UNCHANGED stopReason

\* Mutant: closeText does not reset inText.
ToolCallKeepsText(k) ==
  /\ Arrive(k)
  /\ ordered' = (ordered /\ InRow(k))
  /\ LET text    == {p \in InText : blocks[p].stops = 0}
         stopped == Stopped(blocks, Thinking \cup text)
         started == IF toolBlocks[k] # Nil THEN stopped ELSE Started(stopped, k)
     IN /\ toolBlocks' = IF toolBlocks[k] # Nil THEN toolBlocks
                         ELSE [toolBlocks EXCEPT ![k] = Len(blocks) + 1]
        /\ openTools' = openTools \cup {k}
        /\ blocks' = Delta(started, toolBlocks'[k], Piece(k))
  /\ sawToolUse' = TRUE
  /\ thinkingIndex' = Nil
  /\ UNCHANGED <<textIndex, stopReason>>

\* A fragment of a tool call, with or without arguments.  Its block is found
\* by the index, whether or not it is still open.
ToolCall(k) ==
  /\ \/ Arrive(k)
     \/ /\ status = "streaming" /\ gotChunk' = TRUE
        /\ UNCHANGED <<received, status, finished>>
  /\ ordered' = (ordered /\ InRow(k))
  /\ LET stopped == Stopped(blocks, Thinking \cup InText)
         started == IF toolBlocks[k] # Nil THEN stopped ELSE Started(stopped, k)
     IN /\ toolBlocks' = IF toolBlocks[k] # Nil THEN toolBlocks
                         ELSE [toolBlocks EXCEPT ![k] = Len(blocks) + 1]
        /\ openTools' = IF toolBlocks[k] # Nil THEN openTools
                        ELSE openTools \cup {k}
        /\ blocks' = IF received'[k] = received[k] THEN started
                     ELSE Delta(started, toolBlocks'[k], Piece(k))
  /\ sawToolUse' = TRUE
  /\ thinkingIndex' = Nil
  /\ textIndex' = Nil
  /\ UNCHANGED stopReason

MapFinishReason(reason) ==
  CASE reason = "length"     -> "max_tokens"
    [] reason = "tool_calls" -> "tool_use"
    [] OTHER                 -> "end_turn"

\* Mutant: the tool calls seen do not count.
FinishPlain(reason) ==
  /\ status = "streaming"
  /\ ordered' = (ordered /\ ~finished /\ (reason = "tool_calls" => sawToolUse))
  /\ stopReason' = MapFinishReason(reason)
  /\ finished' = TRUE
  /\ gotChunk' = TRUE
  /\ UNCHANGED <<blocks, thinkingIndex, textIndex, toolBlocks, openTools,
                 sawToolUse, status, received>>

\* finish_reason of a choice; a tool call seen so far overrides it.
Finish(reason) ==
  /\ status = "streaming"
  /\ ordered' = (ordered /\ ~finished /\ (reason = "tool_calls" => sawToolUse))
  /\ stopReason' = IF sawToolUse THEN "tool_use" ELSE MapFinishReason(reason)
  /\ finished' = TRUE
  /\ gotChunk' = TRUE
  /\ UNCHANGED <<blocks, thinkingIndex, textIndex, toolBlocks, openTools,
                 sawToolUse, status, received>>

\* A chunk without choices or with an empty delta.
EmptyChunk ==
  /\ status = "streaming"
  /\ gotChunk' = TRUE
  /\ UNCHANGED <<blocks, thinkingIndex, textIndex, toolBlocks, openTools,
                 sawToolUse, stopReason, status, received, finished, ordered>>

\* After the loop every open block is stopped, whatever the outcome.
CloseAll ==
  /\ thinkingIndex' = Nil
  /\ textIndex' = Nil
  /\ openTools' = {}
  /\ UNCHANGED <<toolBlocks, sawToolUse, stopReason, gotChunk, received, finished>>

StoppedAll == Stopped(blocks, Thinking \cup InText \cup OpenTools)

\* The end of the stream after at least one chunk: an empty text block if there
\* was none, message_delta and message_stop.
Complete ==
  /\ status = "streaming"
  /\ gotChunk
  /\ ordered' = (ordered /\ finished)
  /\ CloseAll
  /\ blocks' = IF blocks = <<>> THEN Stopped(Started(blocks, "text"), {1})
               ELSE StoppedAll
  /\ status' = "completed"

\* Mutant: an error returns before the open blocks are stopped.
FailAtOnce ==
  /\ status = "streaming"
  /\ status' = "failed"
  /\ UNCHANGED <<blocks, thinkingIndex, textIndex, toolBlocks, openTools,
                 sawToolUse, stopReason, gotChunk, received, finished, ordered>>

\* An error event, a read error, or an end without a chunk: error.
Fail ==
  /\ status = "streaming"
  /\ CloseAll
  /\ blocks' = StoppedAll
  /\ status' = "failed"
  /\ UNCHANGED ordered

Next == \/ Reasoning \/ Text
        \/ \E k \in ToolIndexes : ToolCall(k)
        \/ \E reason \in {"stop", "length", "tool_calls"} : Finish(reason)
        \/ EmptyChunk \/ Complete \/ Fail

Spec == Init /\ [][Next]_vars

-----------------------------------------------------------------------------
(***************************************************************************)
(* Properties.                                                             *)
(***************************************************************************)
BlocksOf(source) == {i \in Positions : blocks[i].source = source}
Open(i) == blocks[i].stops = 0

\* Whatever the order of the upstream's parts, every piece has reached the
\* client in a delta of a block of its own source, and all the fragments of a
\* tool call in one block: parallel calls are not mixed up.
NothingLost ==
  /\ \A s \in Sources :
       UNION {blocks[i].content : i \in BlocksOf(s)} = 1..received[s]
  /\ \A k \in ToolIndexes : Cardinality(BlocksOf(k)) <= 1

\* Whatever the order, a client never has two blocks open at once, except
\* those of parallel tool calls.
OneKindOpen ==
  \A i, j \in Positions :
    Open(i) /\ Open(j) /\ i # j =>
      blocks[i].source \in ToolIndexes /\ blocks[j].source \in ToolIndexes

\* Whatever the order and the outcome, every block that was started has been
\* stopped, once, by the terminal event; a completed message is never empty.
TerminalAfterStops ==
  /\ status # "streaming" => \A i \in Positions : ~Open(i)
  /\ status = "completed" => blocks # <<>>

\* The client sees an item stream: a text or thinking block that has been
\* stopped gets no other delta, nor does a tool call unless the upstream leaves
\* it and returns to it; nothing follows the terminal event.
ClientItems ==
  [i \in DOMAIN blocks |-> [source |-> blocks[i].source,
                            content |-> blocks[i].content,
                            open |-> Open(i)]]

Abstract == INSTANCE ItemStream WITH items <- ClientItems,
                                     Resumable <- ToolIndexes
ItemStreamSpec == Abstract!Spec

\* For an ordered upstream a completed message tells stop_reason "tool_use"
\* exactly when it holds a tool call for the client to execute, whichever
\* finish_reason the upstream gave.
StopReasonTellsToolUse ==
  ordered /\ status = "completed" =>
    (stopReason = "tool_use" <=> \E i \in Positions : blocks[i].source \in ToolIndexes)

=============================================================================
