------------------------ MODULE AnthropicStream_proofs ------------------------
(***************************************************************************)
(* For any number of tool calls and pieces, and for every order of the     *)
(* upstream's parts: the client of the Messages endpoint loses nothing,    *)
(* never has blocks of two kinds open, gets the terminal event after every *)
(* stop, and sees an item stream.                                          *)
(*                                                                         *)
(* Reasoning, Text and ToolCall(k) do the same to what the client has been *)
(* sent: they stop the blocks of the other kinds and add at most one piece *)
(* to one block, the handler's current block of that source or a new one.  *)
(* Sends says so.  The three lemmas ...Sends show that each action is such *)
(* a step; SendsKeepsInv and SendsStreams then prove the invariant and the *)
(* refinement of ItemStream once for all three.                            *)
(***************************************************************************)
EXTENDS AnthropicStream, SequenceTheorems, FiniteSetTheorems, TLAPS

(***************************************************************************)
(* Blocks, and what the proofs look at of block i of the sequence bs.      *)
(***************************************************************************)
Block == [source : Sources, content : Pieces, stops : {0, 1}]

Source(bs, i) == bs[i].source
Content(bs, i) == bs[i].content
Stops(bs, i) == bs[i].stops

(***************************************************************************)
(* The inductive invariant.                                                *)
(***************************************************************************)

\* The handler's positions lead to blocks of their own source, and every tool
\* call has one block, the one toolBlocks knows.
PointersInv ==
  /\ \A p \in Thinking : Source(blocks, p) = "reasoning"
  /\ \A p \in InText : Source(blocks, p) = "text"
  /\ \A k \in ToolIndexes : toolBlocks[k] # Nil => Source(blocks, toolBlocks[k]) = k
  /\ \A i \in Positions :
       Source(blocks, i) \in ToolIndexes => toolBlocks[Source(blocks, i)] = i
  /\ \A k \in openTools : toolBlocks[k] # Nil

\* What the handler takes to be open.
Opens == Thinking \cup InText \cup OpenTools

\* A block is open exactly when the handler takes it to be, so that close...
\* stops it once; and the handler has one kind of block open.
OpenInv ==
  /\ \A i \in Positions : Stops(blocks, i) = 0 <=> i \in Opens
  /\ thinkingIndex # Nil => textIndex = Nil /\ openTools = {}
  /\ textIndex # Nil => openTools = {}
  /\ status # "streaming" => thinkingIndex = Nil /\ textIndex = Nil /\ openTools = {}

\* A block holds pieces of its own source, and every piece is in some block.
ContentInv ==
  /\ \A i \in Positions : Content(blocks, i) \subseteq 1..received[Source(blocks, i)]
  /\ \A s \in Sources : \A n \in 1..received[s] :
       \E i \in Positions : Source(blocks, i) = s /\ n \in Content(blocks, i)

\* What the handler knows of tool calls when it tells the stop reason.
StopInv ==
  /\ sawToolUse <=> \E k \in ToolIndexes : toolBlocks[k] # Nil
  /\ ordered /\ finished => (stopReason = "tool_use" <=> sawToolUse)
  /\ ordered /\ status = "completed" => finished
  /\ status = "completed" => blocks # <<>>

Inv == TypeOK /\ PointersInv /\ OpenInv /\ ContentInv /\ StopInv

-----------------------------------------------------------------------------
(***************************************************************************)
(* What the operators on blocks do.                                        *)
(***************************************************************************)

\* The types of a block's fields.
LEMMA BlockFields ==
  ASSUME NEW bs \in Seq(Block), NEW i \in 1..Len(bs)
  PROVE  /\ i \in DOMAIN bs /\ bs[i] \in Block
         /\ Source(bs, i) \in Sources /\ Content(bs, i) \in Pieces
         /\ Stops(bs, i) \in {0, 1}
<1>1. bs[i] \in Block /\ i \in DOMAIN bs
  BY ElementOfSeq, LenProperties
<1> QED
  BY <1>1 DEF Block, Source, Content, Stops

\* Stopping blocks that are open changes nothing but their stops.
LEMMA StoppedBlocks ==
  ASSUME NEW bs \in Seq(Block), NEW ps,
         \A i \in 1..Len(bs) : i \in ps => Stops(bs, i) = 0
  PROVE  /\ Stopped(bs, ps) \in Seq(Block)
         /\ Len(Stopped(bs, ps)) = Len(bs)
         /\ \A i \in 1..Len(bs) :
              /\ Source(Stopped(bs, ps), i) = Source(bs, i)
              /\ Content(Stopped(bs, ps), i) = Content(bs, i)
              /\ Stops(Stopped(bs, ps), i) = IF i \in ps THEN 1 ELSE Stops(bs, i)
<1> DEFINE s == Stopped(bs, ps)
<1>1. /\ Len(bs) \in Nat /\ DOMAIN bs = 1..Len(bs)
      /\ \A i \in 1..Len(bs) : bs[i] \in Block
  BY LenProperties, ElementOfSeq
<1>2. s = [i \in 1..Len(bs) |->
             IF i \in ps THEN [bs[i] EXCEPT !.stops = @ + 1] ELSE bs[i]]
  BY <1>1 DEF Stopped
<1>3. \A i \in 1..Len(bs) :
        /\ s[i] \in Block
        /\ s[i].source = bs[i].source /\ s[i].content = bs[i].content
        /\ s[i].stops = IF i \in ps THEN 1 ELSE bs[i].stops
  BY <1>1, <1>2 DEF Block, Stops
<1>4. s \in Seq(Block) /\ Len(s) = Len(bs)
  BY <1>1, <1>2, <1>3
<1> HIDE DEF s
<1>5. \A i \in 1..Len(bs) :
        /\ Source(s, i) = Source(bs, i)
        /\ Content(s, i) = Content(bs, i)
        /\ Stops(s, i) = IF i \in ps THEN 1 ELSE Stops(bs, i)
  BY <1>3 DEF Source, Content, Stops
<1> QED
  BY <1>4, <1>5 DEF s

\* A block started is a new one, empty and open, behind those there are.
LEMMA StartedBlocks ==
  ASSUME NEW bs \in Seq(Block), NEW source \in Sources
  PROVE  /\ Started(bs, source) \in Seq(Block)
         /\ Len(Started(bs, source)) = Len(bs) + 1
         /\ \A i \in 1..Len(bs) :
              /\ Source(Started(bs, source), i) = Source(bs, i)
              /\ Content(Started(bs, source), i) = Content(bs, i)
              /\ Stops(Started(bs, source), i) = Stops(bs, i)
         /\ Source(Started(bs, source), Len(bs) + 1) = source
         /\ Content(Started(bs, source), Len(bs) + 1) = {}
         /\ Stops(Started(bs, source), Len(bs) + 1) = 0
<1> DEFINE s == Started(bs, source)
           b == [source |-> source, content |-> {}, stops |-> 0]
<1>1. b \in Block /\ s = Append(bs, b)
  BY DEF Block, Pieces, Started
<1> HIDE DEF b, s
<1>2. /\ s \in Seq(Block) /\ Len(s) = Len(bs) + 1
      /\ \A i \in 1..Len(bs) : s[i] = bs[i]
      /\ s[Len(bs) + 1] = b
  BY <1>1, AppendProperties
<1>3. \A i \in 1..Len(bs) : /\ Source(s, i) = Source(bs, i)
                            /\ Content(s, i) = Content(bs, i)
                            /\ Stops(s, i) = Stops(bs, i)
  BY <1>2 DEF Source, Content, Stops
<1>4. /\ Source(s, Len(bs) + 1) = source /\ Content(s, Len(bs) + 1) = {}
      /\ Stops(s, Len(bs) + 1) = 0
  BY <1>2 DEF Source, Content, Stops, b
<1> QED
  BY <1>2, <1>3, <1>4 DEF s

\* d is bs with the piece added to the block at position p.
Pieced(bs, d, p, piece) ==
  /\ d \in Seq(Block)
  /\ Len(d) = Len(bs)
  /\ \A i \in 1..Len(bs) :
       /\ Source(d, i) = Source(bs, i)
       /\ Stops(d, i) = Stops(bs, i)
       /\ i # p => Content(d, i) = Content(bs, i)
  /\ Content(d, p) = Content(bs, p) \cup {piece}

\* A delta adds its piece to one block.
LEMMA DeltaBlocks ==
  ASSUME NEW bs \in Seq(Block), NEW p \in 1..Len(bs), NEW piece \in 1..MaxFragments
  PROVE  Pieced(bs, Delta(bs, p, piece), p, piece)
<1> DEFINE d == Delta(bs, p, piece)
           e == [bs[p] EXCEPT !.content = @ \cup {piece}]
<1>1. bs[p] \in Block
  BY ElementOfSeq
<1>2. d = [bs EXCEPT ![p] = e] /\ e \in Block
  BY <1>1 DEF Block, Pieces, Delta
<1>3. /\ e.source = bs[p].source /\ e.stops = bs[p].stops
      /\ e.content = bs[p].content \cup {piece}
  BY <1>1 DEF Block
<1> HIDE DEF d, e
<1>4. /\ d \in Seq(Block) /\ Len(d) = Len(bs)
      /\ \A i \in 1..Len(bs) : d[i] = IF i = p THEN e ELSE bs[i]
  BY <1>2, ExceptSeq
<1>5. \A i \in 1..Len(bs) :
        /\ Source(d, i) = Source(bs, i)
        /\ Stops(d, i) = Stops(bs, i)
        /\ i # p => Content(d, i) = Content(bs, i)
  BY <1>3, <1>4 DEF Source, Content, Stops
<1>6. Content(d, p) = Content(bs, p) \cup {piece}
  BY <1>3, <1>4 DEF Content
<1> QED
  BY <1>4, <1>5, <1>6 DEF d, Pieced

\* new is bs with the blocks at ps stopped, and the pieces added to the block
\* of source at p, which is new when p is the position behind the last.
Grown(bs, new, ps, p, source, pieces) ==
  /\ new \in Seq(Block)
  /\ Len(new) = IF p = Len(bs) + 1 THEN p ELSE Len(bs)
  /\ Source(new, p) = source
  /\ p = Len(bs) + 1 => Stops(new, p) = 0 /\ Content(new, p) = pieces
  /\ \A i \in 1..Len(bs) :
       /\ Source(new, i) = Source(bs, i)
       /\ Stops(new, i) = IF i \in ps THEN 1 ELSE Stops(bs, i)
       /\ Content(new, i) = IF i = p THEN Content(bs, i) \cup pieces
                                     ELSE Content(bs, i)

\* Closing the other kinds and finding or starting the block of source.
LEMMA GrownBlocks ==
  ASSUME NEW bs \in Seq(Block), NEW ps,
         \A i \in 1..Len(bs) : i \in ps => Stops(bs, i) = 0,
         NEW source \in Sources
  PROVE  /\ \A p \in 1..Len(bs) :
              Source(bs, p) = source => Grown(bs, Stopped(bs, ps), ps, p, source, {})
         /\ Grown(bs, Started(Stopped(bs, ps), source), ps, Len(bs) + 1, source, {})
<1> DEFINE s == Stopped(bs, ps)
           t == Started(s, source)
<1>1. Len(bs) \in Nat
  BY LenProperties
<1>2. /\ s \in Seq(Block) /\ Len(s) = Len(bs)
      /\ \A i \in 1..Len(bs) :
           /\ Source(s, i) = Source(bs, i) /\ Content(s, i) = Content(bs, i)
           /\ Stops(s, i) = IF i \in ps THEN 1 ELSE Stops(bs, i)
  BY StoppedBlocks
<1> HIDE DEF s
<1>3. \A p \in 1..Len(bs) : Source(bs, p) = source => Grown(bs, s, ps, p, source, {})
  BY <1>1, <1>2 DEF Grown
<1>4. /\ t \in Seq(Block) /\ Len(t) = Len(bs) + 1
      /\ \A i \in 1..Len(bs) :
           /\ Source(t, i) = Source(s, i) /\ Content(t, i) = Content(s, i)
           /\ Stops(t, i) = Stops(s, i)
      /\ Source(t, Len(bs) + 1) = source /\ Content(t, Len(bs) + 1) = {}
      /\ Stops(t, Len(bs) + 1) = 0
  BY <1>2, StartedBlocks
<1> HIDE DEF t
<1>5. Grown(bs, t, ps, Len(bs) + 1, source, {})
  BY <1>1, <1>2, <1>4 DEF Grown
<1> QED
  BY <1>3, <1>5 DEF s, t

\* ... and then sending a delta to it.
LEMMA GrownPiece ==
  ASSUME NEW bs \in Seq(Block), NEW ps, NEW new,
         NEW p \in 1..(Len(bs) + 1), NEW source \in Sources,
         Grown(bs, new, ps, p, source, {}), NEW piece \in 1..MaxFragments
  PROVE  Grown(bs, Delta(new, p, piece), ps, p, source, {piece})
<1> DEFINE d == Delta(new, p, piece)
<1>1. /\ Len(bs) \in Nat /\ new \in Seq(Block) /\ p \in 1..Len(new)
      /\ Len(new) = IF p = Len(bs) + 1 THEN p ELSE Len(bs)
  BY LenProperties DEF Grown
<1>2. Pieced(new, d, p, piece)
  BY <1>1, DeltaBlocks
<1> HIDE DEF d
<1>3. \A i \in 1..Len(bs) : i \in 1..Len(new)
  BY <1>1
<1>4. /\ d \in Seq(Block)
      /\ Len(d) = IF p = Len(bs) + 1 THEN p ELSE Len(bs)
      /\ Source(d, p) = source
      /\ p = Len(bs) + 1 => Stops(d, p) = 0 /\ Content(d, p) = {piece}
  BY <1>1, <1>2 DEF Grown, Pieced
<1>5. ASSUME NEW i \in 1..Len(bs)
      PROVE  /\ Source(d, i) = Source(bs, i)
             /\ Stops(d, i) = IF i \in ps THEN 1 ELSE Stops(bs, i)
             /\ Content(d, i) = IF i = p THEN Content(bs, i) \cup {piece}
                                         ELSE Content(bs, i)
  BY <1>2, <1>3 DEF Grown, Pieced
<1> QED
  BY <1>4, <1>5 DEF Grown, d

-----------------------------------------------------------------------------
(***************************************************************************)
(* What Reasoning, Text and ToolCall have in common.                       *)
(***************************************************************************)

\* What the upstream has sent is what goes to the client.
Arrived(source, pieces) ==
  \/ pieces = {} /\ received' = received
  \/ /\ received[source] < MaxFragments
     /\ received' = [received EXCEPT ![source] = @ + 1]
     /\ pieces = {Piece(source)}

\* The handler's positions after it has sent something to the block at p.
Pointed(p, source) ==
  /\ \A i \in Thinking' : i = p /\ source = "reasoning"
  /\ \A i \in InText' : i = p /\ source = "text"
  /\ toolBlocks' = [k \in ToolIndexes |-> toolBlocks'[k]]
  /\ \A k \in ToolIndexes :
       \/ toolBlocks'[k] = toolBlocks[k]
       \/ source = k /\ toolBlocks[k] = Nil
  /\ source \in ToolIndexes => toolBlocks'[source] = p
  /\ openTools' \subseteq openTools \cup ({source} \cap ToolIndexes)
  /\ source \notin ToolIndexes => openTools' = {} /\ p \in Opens'

\* The rest of the handler's state.
Told(source) ==
  /\ status = "streaming" /\ status' = status
  /\ gotChunk' = TRUE
  /\ finished' = finished /\ stopReason' = stopReason
  /\ sawToolUse' = (sawToolUse \/ source \in ToolIndexes)
  /\ ordered' = (ordered /\ IF source \in ToolIndexes THEN InRow(source) ELSE ~finished)

\* The blocks at ps are stopped and the pieces go to the block at p.
Sends(ps, p, source, pieces) ==
  /\ ps \subseteq Opens /\ p \in 1..(Len(blocks) + 1)
  /\ Grown(blocks, blocks', ps, p, source, pieces)
  /\ Opens' = (Opens \ ps) \cup ({p} \ Positions)
  /\ Pointed(p, source)
  /\ Told(source)
  /\ Arrived(source, pieces)

\* The blocks a step ends with, with and without a delta, when the handler has
\* a block of source and when it has none.
LEMMA SentBlocks ==
  ASSUME TypeOK, OpenInv, NEW ps \in SUBSET Opens, NEW source \in Sources
  PROVE  /\ \A p \in Positions :
              Source(blocks, p) = source =>
                /\ Grown(blocks, Stopped(blocks, ps), ps, p, source, {})
                /\ received[source] < MaxFragments =>
                     Grown(blocks, Delta(Stopped(blocks, ps), p, Piece(source)), ps, p,
                           source, {Piece(source)})
         /\ LET started == Started(Stopped(blocks, ps), source)
                p       == Len(blocks) + 1
            IN /\ Grown(blocks, started, ps, p, source, {})
               /\ received[source] < MaxFragments =>
                    Grown(blocks, Delta(started, p, Piece(source)), ps, p, source,
                          {Piece(source)})
<1>1. blocks \in Seq(Block) /\ Len(blocks) \in Nat /\ received[source] \in 0..MaxFragments
  BY LenProperties DEF TypeOK, Block
<1>2. \A i \in 1..Len(blocks) : i \in ps => Stops(blocks, i) = 0
  BY DEF OpenInv, Positions
<1>3. received[source] < MaxFragments => Piece(source) \in 1..MaxFragments
  BY <1>1, SourcesAssumption DEF Piece
<1>4. ASSUME NEW p \in Positions, Source(blocks, p) = source
      PROVE  /\ Grown(blocks, Stopped(blocks, ps), ps, p, source, {})
             /\ received[source] < MaxFragments =>
                  Grown(blocks, Delta(Stopped(blocks, ps), p, Piece(source)), ps, p,
                        source, {Piece(source)})
  <2>1. Grown(blocks, Stopped(blocks, ps), ps, p, source, {})
    BY <1>1, <1>2, <1>4, GrownBlocks DEF Positions
  <2>2. p \in 1..(Len(blocks) + 1)
    BY <1>1 DEF Positions
  <2> QED
    BY <1>1, <1>3, <2>1, <2>2, GrownPiece
<1>5. LET started == Started(Stopped(blocks, ps), source)
          p       == Len(blocks) + 1
      IN /\ Grown(blocks, started, ps, p, source, {})
         /\ received[source] < MaxFragments =>
              Grown(blocks, Delta(started, p, Piece(source)), ps, p, source,
                    {Piece(source)})
  <2> DEFINE started == Started(Stopped(blocks, ps), source)
             p       == Len(blocks) + 1
  <2>1. Grown(blocks, started, ps, p, source, {})
    BY <1>1, <1>2, GrownBlocks
  <2>2. p \in 1..(Len(blocks) + 1)
    BY <1>1
  <2> HIDE DEF started, p
  <2>3. received[source] < MaxFragments =>
          Grown(blocks, Delta(started, p, Piece(source)), ps, p, source, {Piece(source)})
    BY <1>1, <1>3, <2>1, <2>2, GrownPiece
  <2> QED
    BY <2>1, <2>3 DEF started, p
<1> QED
  BY <1>4, <1>5

\* Thinking goes to the thinking block or a new one.
LEMMA ReasoningSends ==
  ASSUME Inv, Reasoning
  PROVE  \E ps, p, pieces : Sends(ps, p, "reasoning", pieces)
<1> DEFINE ps == InText \cup OpenTools
           stopped == Stopped(blocks, ps)
<1>1. ps \in SUBSET Opens /\ "reasoning" \in Sources /\ Len(blocks) \in Nat
  BY LenProperties DEF Opens, Sources, Inv, TypeOK
<1>2. Arrived("reasoning", {Piece("reasoning")}) /\ received["reasoning"] < MaxFragments
  BY DEF Reasoning, Arrive, Arrived
<1>3. Told("reasoning") /\ toolBlocks = [k \in ToolIndexes |-> toolBlocks[k]]
  <2>1. "reasoning" \notin ToolIndexes
    BY SourcesAssumption
  <2> QED
    BY <2>1 DEF Reasoning, Arrive, Told, Inv, TypeOK
<1>4. CASE thinkingIndex # Nil
  <2>1. thinkingIndex \in Positions /\ Source(blocks, thinkingIndex) = "reasoning"
    BY <1>4 DEF Inv, TypeOK, PointersInv, Thinking
  <2>2. blocks' = Delta(stopped, thinkingIndex, Piece("reasoning"))
    BY <1>4 DEF Reasoning
  <2>3. Grown(blocks, blocks', ps, thinkingIndex, "reasoning", {Piece("reasoning")})
    BY <1>1, <1>2, <2>1, <2>2, SentBlocks DEF Inv
  <2>4. /\ Opens' = (Opens \ ps) \cup ({thinkingIndex} \ Positions)
        /\ thinkingIndex \in Opens' /\ \A i \in Thinking' : i = thinkingIndex
        /\ InText' = {} /\ openTools' = {} /\ toolBlocks' = toolBlocks
    <3>1. /\ thinkingIndex' = thinkingIndex /\ textIndex' = Nil /\ openTools' = {}
          /\ toolBlocks' = toolBlocks
      BY <1>4 DEF Reasoning
    <3>2. Thinking' = {thinkingIndex} /\ Thinking = {thinkingIndex} /\ InText' = {} /\ OpenTools' = {}
      BY <1>4, <3>1 DEF Thinking, InText, OpenTools, Nil
    <3>3. InText = {} /\ OpenTools = {}
      BY <1>4 DEF InText, OpenTools, Inv, OpenInv
    <3> QED
      BY <2>1, <3>1, <3>2, <3>3 DEF Opens
  <2>5. "reasoning" \notin ToolIndexes
    BY SourcesAssumption
  <2> HIDE DEF ps
  <2>6. Sends(ps, thinkingIndex, "reasoning", {Piece("reasoning")})
    BY <1>1, <1>2, <1>3, <2>1, <2>3, <2>4, <2>5 DEF Sends, Pointed, Positions
  <2> QED
    BY <2>6
<1>5. CASE thinkingIndex = Nil
  <2> DEFINE p == Len(blocks) + 1
  <2>1. thinkingIndex' = p /\ blocks' = Delta(Started(stopped, "reasoning"), p, Piece("reasoning"))
    BY <1>5 DEF Reasoning
  <2>2. Grown(blocks, blocks', ps, p, "reasoning", {Piece("reasoning")})
    BY <1>1, <1>2, <2>1, SentBlocks DEF Inv
  <2>3. /\ Opens' = (Opens \ ps) \cup ({p} \ Positions)
        /\ p \in Opens' /\ \A i \in Thinking' : i = p
        /\ InText' = {} /\ openTools' = {} /\ toolBlocks' = toolBlocks
    <3>1. textIndex' = Nil /\ openTools' = {} /\ toolBlocks' = toolBlocks
      BY DEF Reasoning
    <3>2. Thinking' = {p} /\ Thinking = {} /\ InText' = {} /\ OpenTools' = {}
      BY <1>1, <1>5, <2>1, <3>1 DEF Thinking, InText, OpenTools, Nil
    <3>3. {p} \ Positions = {p}
      BY <1>1 DEF Positions
    <3> QED
      BY <3>1, <3>2, <3>3 DEF Opens
  <2>4. "reasoning" \notin ToolIndexes /\ p \in 1..(Len(blocks) + 1)
    BY <1>1, SourcesAssumption
  <2> HIDE DEF ps, p
  <2>5. Sends(ps, p, "reasoning", {Piece("reasoning")})
    BY <1>1, <1>2, <1>3, <2>2, <2>3, <2>4 DEF Sends, Pointed
  <2> QED
    BY <2>5
<1> QED
  BY <1>4, <1>5

\* Text goes to the text block or a new one.
LEMMA TextSends ==
  ASSUME Inv, Text
  PROVE  \E ps, p, pieces : Sends(ps, p, "text", pieces)
<1> DEFINE ps == Thinking \cup OpenTools
           stopped == Stopped(blocks, ps)
<1>1. ps \in SUBSET Opens /\ "text" \in Sources /\ Len(blocks) \in Nat
  BY LenProperties DEF Opens, Sources, Inv, TypeOK
<1>2. Arrived("text", {Piece("text")}) /\ received["text"] < MaxFragments
  BY DEF Text, Arrive, Arrived
<1>3. Told("text") /\ toolBlocks = [k \in ToolIndexes |-> toolBlocks[k]]
  <2>1. "text" \notin ToolIndexes
    BY SourcesAssumption
  <2> QED
    BY <2>1 DEF Text, Arrive, Told, Inv, TypeOK
<1>4. CASE textIndex # Nil
  <2>1. textIndex \in Positions /\ Source(blocks, textIndex) = "text"
    BY <1>4 DEF Inv, TypeOK, PointersInv, InText
  <2>2. blocks' = Delta(stopped, textIndex, Piece("text"))
    BY <1>4 DEF Text
  <2>3. Grown(blocks, blocks', ps, textIndex, "text", {Piece("text")})
    BY <1>1, <1>2, <2>1, <2>2, SentBlocks DEF Inv
  <2>4. /\ Opens' = (Opens \ ps) \cup ({textIndex} \ Positions)
        /\ textIndex \in Opens' /\ \A i \in InText' : i = textIndex
        /\ Thinking' = {} /\ openTools' = {} /\ toolBlocks' = toolBlocks
    <3>1. /\ textIndex' = textIndex /\ thinkingIndex' = Nil /\ openTools' = {}
          /\ toolBlocks' = toolBlocks
      BY <1>4 DEF Text
    <3>2. InText' = {textIndex} /\ InText = {textIndex} /\ Thinking' = {} /\ OpenTools' = {}
      BY <1>4, <3>1 DEF Thinking, InText, OpenTools, Nil
    <3>3. Thinking = {} /\ OpenTools = {}
      BY <1>4 DEF Thinking, OpenTools, Inv, OpenInv
    <3> QED
      BY <2>1, <3>1, <3>2, <3>3 DEF Opens
  <2>5. "text" \notin ToolIndexes
    BY SourcesAssumption
  <2> HIDE DEF ps
  <2>6. Sends(ps, textIndex, "text", {Piece("text")})
    BY <1>1, <1>2, <1>3, <2>1, <2>3, <2>4, <2>5 DEF Sends, Pointed, Positions
  <2> QED
    BY <2>6
<1>5. CASE textIndex = Nil
  <2> DEFINE p == Len(blocks) + 1
  <2>1. textIndex' = p /\ blocks' = Delta(Started(stopped, "text"), p, Piece("text"))
    BY <1>5 DEF Text
  <2>2. Grown(blocks, blocks', ps, p, "text", {Piece("text")})
    BY <1>1, <1>2, <2>1, SentBlocks DEF Inv
  <2>3. /\ Opens' = (Opens \ ps) \cup ({p} \ Positions)
        /\ p \in Opens' /\ \A i \in InText' : i = p
        /\ Thinking' = {} /\ openTools' = {} /\ toolBlocks' = toolBlocks
    <3>1. thinkingIndex' = Nil /\ openTools' = {} /\ toolBlocks' = toolBlocks
      BY DEF Text
    <3>2. InText' = {p} /\ InText = {} /\ Thinking' = {} /\ OpenTools' = {}
      BY <1>1, <1>5, <2>1, <3>1 DEF Thinking, InText, OpenTools, Nil
    <3>3. {p} \ Positions = {p}
      BY <1>1 DEF Positions
    <3> QED
      BY <3>1, <3>2, <3>3 DEF Opens
  <2>4. "text" \notin ToolIndexes /\ p \in 1..(Len(blocks) + 1)
    BY <1>1, SourcesAssumption
  <2> HIDE DEF ps, p
  <2>5. Sends(ps, p, "text", {Piece("text")})
    BY <1>1, <1>2, <1>3, <2>2, <2>3, <2>4 DEF Sends, Pointed
  <2> QED
    BY <2>5
<1> QED
  BY <1>4, <1>5

\* A fragment of tool call k goes to its block, open or not, or to a new one;
\* one without arguments sends no delta.
LEMMA ToolCallSends ==
  ASSUME Inv, NEW k \in ToolIndexes, ToolCall(k)
  PROVE  \E ps, p, pieces : Sends(ps, p, k, pieces)
<1> DEFINE ps == Thinking \cup InText
           stopped == Stopped(blocks, ps)
<1>1. ps \in SUBSET Opens /\ k \in Sources /\ Len(blocks) \in Nat
  BY LenProperties DEF Opens, Sources, Inv, TypeOK
<1>2. k # "reasoning" /\ k # "text"
  BY SourcesAssumption
<1>3. Thinking' = {} /\ InText' = {} /\ Opens' = OpenTools'
  BY DEF ToolCall, Thinking, InText, Opens
<1>4. Opens \ ps = OpenTools
  BY DEF Opens, OpenTools, Thinking, InText, Inv, OpenInv, Nil
<1>5. PICK pieces : /\ Arrived(k, pieces)
                    /\ \/ pieces = {} /\ received'[k] = received[k]
                       \/ /\ pieces = {Piece(k)} /\ received'[k] # received[k]
                          /\ received[k] < MaxFragments
  <2>1. received \in [Sources -> 0..MaxFragments]
    BY DEF Inv, TypeOK
  <2>2. CASE received' = received
    BY <1>1, <2>1, <2>2 DEF Arrived
  <2>3. CASE Arrive(k)
    <3>1. received'[k] # received[k]
      BY <1>1, <2>1, <2>3, SourcesAssumption DEF Arrive
    <3> QED
      BY <2>3, <3>1 DEF Arrive, Arrived
  <2> QED
    BY <2>2, <2>3 DEF ToolCall
<1>6. ASSUME NEW p, NEW started,
             toolBlocks'[k] = p,
             blocks' = IF received'[k] = received[k] THEN started
                       ELSE Delta(started, p, Piece(k)),
             Grown(blocks, started, ps, p, k, {}),
             received[k] < MaxFragments =>
               Grown(blocks, Delta(started, p, Piece(k)), ps, p, k, {Piece(k)})
      PROVE  Grown(blocks, blocks', ps, p, k, pieces)
  BY <1>5, <1>6
<1>7. /\ Told(k) /\ toolBlocks \in [ToolIndexes -> Positions \cup {Nil}]
      /\ openTools \subseteq ToolIndexes
  BY DEF ToolCall, Arrive, Told, Inv, TypeOK
<1>8. CASE toolBlocks[k] # Nil
  <2> DEFINE p == toolBlocks[k]
  <2>1. p \in Positions /\ Source(blocks, p) = k
    BY <1>8 DEF Inv, TypeOK, PointersInv
  <2>2. /\ toolBlocks' = toolBlocks /\ openTools' = openTools
        /\ blocks' = IF received'[k] = received[k] THEN stopped
                     ELSE Delta(stopped, p, Piece(k))
    BY <1>8 DEF ToolCall
  <2>3. Grown(blocks, blocks', ps, p, k, pieces)
    <3>1. /\ Grown(blocks, stopped, ps, p, k, {})
          /\ received[k] < MaxFragments =>
               Grown(blocks, Delta(stopped, p, Piece(k)), ps, p, k, {Piece(k)})
      BY <1>1, <2>1, SentBlocks DEF Inv
    <3> HIDE DEF stopped
    <3> QED
      BY <1>6, <2>2, <3>1
  <2>4. Opens' = (Opens \ ps) \cup ({p} \ Positions)
    BY <1>3, <1>4, <2>1, <2>2 DEF OpenTools
  <2> HIDE DEF ps
  <2>5. p \in 1..(Len(blocks) + 1) /\ toolBlocks'[k] = p
    BY <1>1, <2>1, <2>2 DEF Positions
  <2> HIDE DEF p
  <2>6. Sends(ps, p, k, pieces)
    BY <1>1, <1>2, <1>3, <1>5, <1>7, <2>2, <2>3, <2>4, <2>5 DEF Sends, Pointed
  <2> QED
    BY <2>6
<1>9. CASE toolBlocks[k] = Nil
  <2> DEFINE p == Len(blocks) + 1
             started == Started(stopped, k)
  <2>1. /\ toolBlocks' = [toolBlocks EXCEPT ![k] = p] /\ openTools' = openTools \cup {k}
        /\ blocks' = IF received'[k] = received[k] THEN started
                     ELSE Delta(started, p, Piece(k))
    <3>1. /\ toolBlocks' = [toolBlocks EXCEPT ![k] = p] /\ openTools' = openTools \cup {k}
          /\ blocks' = IF received'[k] = received[k] THEN started
                       ELSE Delta(started, toolBlocks'[k], Piece(k))
      BY <1>9 DEF ToolCall
    <3>2. toolBlocks'[k] = p
      BY <3>1 DEF Inv, TypeOK
    <3> QED
      BY <3>1, <3>2
  <2>2. toolBlocks \in [ToolIndexes -> Positions \cup {Nil}]
    BY DEF Inv, TypeOK
  <2>3. toolBlocks'[k] = p /\ \A l \in ToolIndexes : l # k => toolBlocks'[l] = toolBlocks[l]
    BY <2>1, <2>2
  <2>4. Grown(blocks, blocks', ps, p, k, pieces)
    <3>1. /\ Grown(blocks, started, ps, p, k, {})
          /\ received[k] < MaxFragments =>
               Grown(blocks, Delta(started, p, Piece(k)), ps, p, k, {Piece(k)})
      BY <1>1, SentBlocks DEF Inv
    <3> HIDE DEF started
    <3> QED
      BY <1>6, <2>1, <2>3, <3>1
  <2>5. Opens' = (Opens \ ps) \cup ({p} \ Positions)
    <3>1. {p} \ Positions = {p}
      BY <1>1 DEF Positions
    <3>2. OpenTools' = OpenTools \cup {p}
      <4>1. k \notin openTools /\ openTools \subseteq ToolIndexes
        BY <1>9 DEF Inv, PointersInv, TypeOK
      <4> HIDE DEF p
      <4> QED
        BY <2>1, <2>3, <4>1 DEF OpenTools
    <3> QED
      BY <1>3, <1>4, <3>1, <3>2
  <2>6. p \in 1..(Len(blocks) + 1)
    BY <1>1
  <2> HIDE DEF ps, p
  <2>7. Sends(ps, p, k, pieces)
    BY <1>1, <1>2, <1>3, <1>5, <1>7, <1>9, <2>1, <2>3, <2>4, <2>5, <2>6 DEF Sends, Pointed
  <2> QED
    BY <2>7
<1> QED
  BY <1>8, <1>9

\* Grown, with the positions of new.
After(bs, new, ps, p, source, pieces) ==
  /\ new \in Seq(Block) /\ Len(bs) \in Nat /\ Len(new) \in Nat
  /\ 1..Len(new) = 1..Len(bs) \cup {p}
  /\ Source(new, p) = source
  /\ p \notin 1..Len(bs) => Stops(new, p) = 0 /\ Content(new, p) = pieces
  /\ \A i \in 1..Len(bs) :
       /\ Source(new, i) = Source(bs, i)
       /\ Stops(new, i) = IF i \in ps THEN 1 ELSE Stops(bs, i)
       /\ i # p => Content(new, i) = Content(bs, i)
  /\ p \in 1..Len(bs) => Content(new, p) = Content(bs, p) \cup pieces

\* The positions after a step are those before and p.
LEMMA GrownLength ==
  ASSUME NEW bs \in Seq(Block), NEW new, NEW ps, NEW p \in 1..(Len(bs) + 1),
         NEW source, NEW pieces, Grown(bs, new, ps, p, source, pieces)
  PROVE  After(bs, new, ps, p, source, pieces)
<1>1. /\ new \in Seq(Block) /\ Len(bs) \in Nat /\ Len(new) \in Nat
      /\ 1..Len(new) = 1..Len(bs) \cup {p}
  BY LenProperties DEF Grown
<1>2. /\ Source(new, p) = source
      /\ p \notin 1..Len(bs) => Stops(new, p) = 0 /\ Content(new, p) = pieces
  BY <1>1 DEF Grown
<1>3. \A i \in 1..Len(bs) :
        /\ Source(new, i) = Source(bs, i)
        /\ Stops(new, i) = IF i \in ps THEN 1 ELSE Stops(bs, i)
        /\ i # p => Content(new, i) = Content(bs, i)
  BY DEF Grown
<1>4. p \in 1..Len(bs) => Content(new, p) = Content(bs, p) \cup pieces
  BY DEF Grown
<1> QED
  BY <1>1, <1>2, <1>3, <1>4 DEF After

\* Sending something keeps the inductive invariant.
LEMMA SendsKeepsInv ==
  ASSUME Inv, NEW source \in Sources, NEW ps, NEW p, NEW pieces,
         Sends(ps, p, source, pieces)
  PROVE  Inv'
<1>1. blocks \in Seq(Block) /\ Positions = 1..Len(blocks) /\ Positions' = 1..Len(blocks')
  BY DEF Inv, TypeOK, Block, Positions
<1>2. /\ blocks' \in Seq(Block) /\ Len(blocks) \in Nat /\ Len(blocks') \in Nat
      /\ Positions' = Positions \cup {p}
      /\ Source(blocks', p) = source
      /\ p \notin Positions => Stops(blocks', p) = 0 /\ Content(blocks', p) = pieces
      /\ \A i \in Positions :
           /\ Source(blocks', i) = Source(blocks, i)
           /\ Stops(blocks', i) = IF i \in ps THEN 1 ELSE Stops(blocks, i)
           /\ i # p => Content(blocks', i) = Content(blocks, i)
      /\ p \in Positions => Content(blocks', p) = Content(blocks, p) \cup pieces
  <2>1. p \in 1..(Len(blocks) + 1) /\ Grown(blocks, blocks', ps, p, source, pieces)
    BY DEF Sends
  <2>2. After(blocks, blocks', ps, p, source, pieces)
    BY <1>1, <2>1, GrownLength
  <2> QED
    BY <1>1, <2>2 DEF After
<1>3. TypeOK'
  <2>1. /\ thinkingIndex' \in Positions' \cup {Nil}
        /\ textIndex' \in Positions' \cup {Nil}
    BY <1>2 DEF Sends, Pointed, Thinking, InText
  <2>2. toolBlocks' \in [ToolIndexes -> Positions' \cup {Nil}]
    <3>1. \A k \in ToolIndexes : toolBlocks'[k] \in Positions' \cup {Nil}
      BY <1>2 DEF Sends, Pointed, Inv, TypeOK
    <3> QED
      BY <3>1 DEF Sends, Pointed
  <2>3. received' \in [Sources -> 0..MaxFragments]
    BY SourcesAssumption DEF Sends, Arrived, Inv, TypeOK
  <2>4. openTools' \subseteq ToolIndexes
    BY DEF Sends, Pointed, Inv, TypeOK
  <2>5. /\ sawToolUse' \in BOOLEAN /\ finished' \in BOOLEAN /\ gotChunk' \in BOOLEAN
        /\ ordered' \in BOOLEAN /\ stopReason' \in {"end_turn", "max_tokens", "tool_use"}
        /\ status' \in {"streaming", "completed", "failed"}
    BY DEF Sends, Told, Inv, TypeOK, InRow
  <2> QED
    BY <1>2, <2>1, <2>2, <2>3, <2>4, <2>5 DEF TypeOK, Block
<1>4. PointersInv'
  <2>1. \A i \in Thinking' : Source(blocks', i) = "reasoning"
    BY <1>2 DEF Sends, Pointed
  <2>2. \A i \in InText' : Source(blocks', i) = "text"
    BY <1>2 DEF Sends, Pointed
  <2>3. \A k \in ToolIndexes : toolBlocks'[k] # Nil => Source(blocks', toolBlocks'[k]) = k
    <3> SUFFICES ASSUME NEW k \in ToolIndexes, toolBlocks'[k] # Nil
                 PROVE  Source(blocks', toolBlocks'[k]) = k
      OBVIOUS
    <3>1. CASE source = k
      BY <1>2, <3>1 DEF Sends, Pointed
    <3>2. CASE source # k
      BY <1>2, <3>2 DEF Sends, Pointed, Inv, PointersInv, TypeOK
    <3> QED
      BY <3>1, <3>2
  <2>4. ASSUME NEW i \in Positions', Source(blocks', i) \in ToolIndexes
        PROVE  toolBlocks'[Source(blocks', i)] = i
    <3>1. CASE i = p
      BY <1>2, <2>4, <3>1 DEF Sends, Pointed
    <3>2. CASE i # p
      <4>1. i \in Positions /\ Source(blocks', i) = Source(blocks, i) /\ i # Nil
        BY <1>1, <1>2, <3>2 DEF Nil
      <4> QED
        BY <2>4, <4>1 DEF Sends, Pointed, Inv, PointersInv
    <3> QED
      BY <3>1, <3>2
  <2>5. \A k \in openTools' : toolBlocks'[k] # Nil
    <3>1. p # Nil
      BY <1>1 DEF Sends, Nil
    <3> QED
      BY <3>1 DEF Sends, Pointed, Inv, PointersInv, TypeOK
  <2> QED
    BY <2>1, <2>2, <2>3, <2>4, <2>5 DEF PointersInv
<1>5. OpenInv'
  <2>1. ASSUME NEW i \in Positions'
        PROVE  Stops(blocks', i) = 0 <=> i \in Opens'
    <3>1. CASE i \in Positions
      BY <1>2, <3>1 DEF Sends, Inv, OpenInv
    <3>2. CASE i \notin Positions
      BY <1>2, <3>2 DEF Sends
    <3> QED
      BY <3>1, <3>2
  <2>2. /\ thinkingIndex' # Nil => textIndex' = Nil /\ openTools' = {}
        /\ textIndex' # Nil => openTools' = {}
    BY SourcesAssumption DEF Sends, Pointed, Thinking, InText
  <2>3. status' = "streaming"
    BY DEF Sends, Told
  <2> QED
    BY <2>1, <2>2, <2>3 DEF OpenInv
<1>6. ContentInv'
  <2>1. received \in [Sources -> 0..MaxFragments] /\ MaxFragments \in Nat
    BY SourcesAssumption DEF Inv, TypeOK
  <2>2. \A i \in Positions : Source(blocks, i) \in Sources
    BY <1>1, BlockFields
  <2>3. pieces \subseteq 1..received'[source]
    BY <2>1 DEF Sends, Arrived, Piece
  <2>4. \A s \in Sources : 1..received[s] \subseteq 1..received'[s]
    BY <2>1 DEF Sends, Arrived
  <2>5. ASSUME NEW s \in Sources, NEW n \in 1..received'[s]
        PROVE  n \in 1..received[s] \/ (s = source /\ n \in pieces)
    <3>1. received[s] \in Nat
      BY <2>1
    <3>2. \/ received'[s] = received[s]
          \/ s = source /\ received'[s] = received[s] + 1 /\ pieces = {received[s] + 1}
      BY <2>1 DEF Sends, Arrived, Piece
    <3> QED
      BY <3>1, <3>2
  <2>6. ASSUME NEW i \in Positions'
        PROVE  Content(blocks', i) \subseteq 1..received'[Source(blocks', i)]
    <3>1. CASE i \in Positions
      <4>1. Content(blocks, i) \subseteq 1..received'[Source(blocks, i)]
        BY <2>2, <2>4, <3>1 DEF Inv, ContentInv
      <4> QED
        BY <1>2, <2>3, <3>1, <4>1
    <3>2. CASE i \notin Positions
      BY <1>2, <2>3, <3>2
    <3> QED
      BY <3>1, <3>2
  <2>7. ASSUME NEW s \in Sources, NEW n \in 1..received'[s]
        PROVE  \E i \in Positions' : Source(blocks', i) = s /\ n \in Content(blocks', i)
    <3>1. CASE n \in 1..received[s]
      <4>1. PICK i \in Positions : Source(blocks, i) = s /\ n \in Content(blocks, i)
        BY <3>1 DEF Inv, ContentInv
      <4>2. Source(blocks', i) = s /\ n \in Content(blocks', i)
        BY <1>2, <4>1
      <4> QED
        BY <1>2, <4>2
    <3>2. CASE s = source /\ n \in pieces
      BY <1>2, <3>2
    <3> QED
      BY <2>5, <3>1, <3>2
  <2> QED
    BY <2>6, <2>7 DEF ContentInv
<1>7. StopInv'
  <2>1. sawToolUse' <=> \E k \in ToolIndexes : toolBlocks'[k] # Nil
    <3>1. p # Nil
      BY <1>1 DEF Sends, Nil
    <3> QED
      BY <3>1 DEF Sends, Pointed, Told, Inv, StopInv
  <2>2. ordered' /\ finished' => (stopReason' = "tool_use" <=> sawToolUse')
    BY DEF Sends, Told, InRow, Inv, StopInv
  <2> QED
    BY <2>1, <2>2 DEF StopInv, Sends, Told
<1> QED
  BY <1>3, <1>4, <1>5, <1>6, <1>7 DEF Inv

-----------------------------------------------------------------------------
(***************************************************************************)
(* Complete and Fail stop every block that is open; a message without      *)
(* blocks gets an empty one.                                               *)
(***************************************************************************)
Ends ==
  /\ blocks' \in Seq(Block) /\ Len(blocks) \in Nat /\ Len(blocks') \in Nat
  /\ Positions \subseteq Positions'
  /\ \A i \in Positions : /\ Source(blocks', i) = Source(blocks, i)
                          /\ Content(blocks', i) = Content(blocks, i)
  /\ \A i \in Positions' : Stops(blocks', i) = 1
  /\ \A i \in Positions' \ Positions : Source(blocks', i) = "text" /\ Content(blocks', i) = {}
  /\ CloseAll

\* closeThinking, closeText and closeTools at the end.
LEMMA StoppedAllEnds ==
  ASSUME Inv, blocks' = StoppedAll, CloseAll
  PROVE  Ends /\ Len(blocks') = Len(blocks)
<1>1. blocks \in Seq(Block) /\ Len(blocks) \in Nat /\ StoppedAll = Stopped(blocks, Opens)
  BY LenProperties DEF Inv, TypeOK, Block, StoppedAll, Opens
<1>2. \A i \in 1..Len(blocks) : i \in Opens => Stops(blocks, i) = 0
  BY DEF Inv, OpenInv, Positions
<1>3. /\ blocks' \in Seq(Block) /\ Len(blocks') = Len(blocks)
      /\ \A i \in 1..Len(blocks) :
           /\ Source(blocks', i) = Source(blocks, i)
           /\ Content(blocks', i) = Content(blocks, i)
           /\ Stops(blocks', i) = IF i \in Opens THEN 1 ELSE Stops(blocks, i)
  BY <1>1, <1>2, StoppedBlocks
<1>4. \A i \in 1..Len(blocks) : i \notin Opens => Stops(blocks, i) = 1
  BY <1>1, BlockFields DEF Inv, OpenInv, Positions
<1> QED
  BY <1>1, <1>3, <1>4 DEF Ends, Positions

\* The empty text block of a message without blocks.
LEMMA EmptyTextEnds ==
  ASSUME Inv, blocks = <<>>, blocks' = Stopped(Started(blocks, "text"), {1}), CloseAll
  PROVE  Ends /\ Len(blocks') = 1
<1> DEFINE t == Started(blocks, "text")
<1>1. blocks \in Seq(Block) /\ Len(blocks) = 0 /\ "text" \in Sources
  BY DEF Inv, TypeOK, Block, Sources
<1>2. /\ t \in Seq(Block) /\ Len(t) = 1 /\ Source(t, 1) = "text"
      /\ Content(t, 1) = {} /\ Stops(t, 1) = 0
  <2>1. /\ t \in Seq(Block) /\ Len(t) = Len(blocks) + 1
        /\ Source(t, Len(blocks) + 1) = "text"
        /\ Content(t, Len(blocks) + 1) = {} /\ Stops(t, Len(blocks) + 1) = 0
    BY <1>1, StartedBlocks
  <2>2. Len(blocks) + 1 = 1
    BY <1>1
  <2> HIDE DEF t
  <2> QED
    BY <2>1, <2>2
<1> HIDE DEF t
<1>3. 1..Len(t) = {1}
  BY <1>2
<1>4. \A i \in 1..Len(t) : i \in {1} => Stops(t, i) = 0
  BY <1>2, <1>3
<1>5. /\ blocks' \in Seq(Block) /\ Len(blocks') = Len(t)
      /\ \A i \in 1..Len(t) :
           /\ Source(blocks', i) = Source(t, i)
           /\ Content(blocks', i) = Content(t, i)
           /\ Stops(blocks', i) = IF i \in {1} THEN 1 ELSE Stops(t, i)
  <2>1. blocks' = Stopped(t, {1})
    BY DEF t
  <2> QED
    BY <1>2, <1>4, <2>1, StoppedBlocks
<1>6. Positions = {} /\ Positions' = {1}
  BY <1>1, <1>3, <1>5 DEF Positions
<1> QED
  BY <1>1, <1>2, <1>3, <1>5, <1>6 DEF Ends

\* The end keeps the inductive invariant.
LEMMA EndsKeepsInv ==
  ASSUME Inv, Ends, status' \in {"completed", "failed"}, ordered' \in BOOLEAN,
         ordered' => ordered, status' = "completed" => Len(blocks') > 0,
         status' = "completed" /\ ordered' => finished
  PROVE  Inv'
<1>1. /\ thinkingIndex' = Nil /\ textIndex' = Nil /\ openTools' = {}
      /\ toolBlocks' = toolBlocks /\ received' = received
      /\ sawToolUse' = sawToolUse /\ stopReason' = stopReason
      /\ gotChunk' = gotChunk /\ finished' = finished
  BY DEF Ends, CloseAll
<1>2. Opens' = {} /\ Thinking' = {} /\ InText' = {}
  BY <1>1 DEF Opens, Thinking, InText, OpenTools
<1>3. TypeOK'
  BY <1>1 DEF Inv, TypeOK, Ends, Block
<1>4. PointersInv'
  <2>1. \A k \in ToolIndexes : toolBlocks[k] # Nil => Source(blocks', toolBlocks[k]) = k
    BY DEF Ends, Inv, PointersInv, TypeOK
  <2>2. ASSUME NEW i \in Positions', Source(blocks', i) \in ToolIndexes
        PROVE  toolBlocks[Source(blocks', i)] = i
    BY <2>2, SourcesAssumption DEF Ends, Inv, PointersInv
  <2> QED
    BY <1>1, <1>2, <2>1, <2>2 DEF PointersInv
<1>5. OpenInv'
  BY <1>1, <1>2 DEF Ends, OpenInv
<1>6. ContentInv'
  BY <1>1 DEF Ends, Inv, ContentInv
<1>7. StopInv'
  BY <1>1 DEF Ends, Inv, StopInv
<1> QED
  BY <1>3, <1>4, <1>5, <1>6, <1>7 DEF Inv

\* Every step keeps the inductive invariant.
LEMMA KeepsInv ==
  ASSUME Inv, [Next]_vars
  PROVE  Inv'
<1>1. CASE Reasoning
  <2>1. "reasoning" \in Sources
    BY DEF Sources
  <2> QED
    BY <1>1, <2>1, ReasoningSends, SendsKeepsInv
<1>2. CASE Text
  <2>1. "text" \in Sources
    BY DEF Sources
  <2> QED
    BY <1>2, <2>1, TextSends, SendsKeepsInv
<1>3. ASSUME NEW k \in ToolIndexes, ToolCall(k) PROVE Inv'
  <2>1. k \in Sources
    BY DEF Sources
  <2> QED
    BY <1>3, <2>1, ToolCallSends, SendsKeepsInv
<1>4. ASSUME NEW reason \in {"stop", "length", "tool_calls"}, Finish(reason) PROVE Inv'
  <2>1. /\ blocks' = blocks /\ thinkingIndex' = thinkingIndex /\ textIndex' = textIndex
        /\ toolBlocks' = toolBlocks /\ openTools' = openTools /\ received' = received
        /\ sawToolUse' = sawToolUse /\ status' = "streaming" /\ status = "streaming"
        /\ finished' = TRUE /\ gotChunk' = TRUE
        /\ stopReason' = IF sawToolUse THEN "tool_use" ELSE MapFinishReason(reason)
        /\ ordered' = (ordered /\ ~finished /\ (reason = "tool_calls" => sawToolUse))
    BY <1>4 DEF Finish
  <2>2. /\ MapFinishReason(reason) \in {"end_turn", "max_tokens", "tool_use"}
        /\ MapFinishReason(reason) = "tool_use" => reason = "tool_calls"
    BY DEF MapFinishReason
  <2>3. TypeOK'
    BY <2>1, <2>2 DEF Inv, TypeOK, Positions
  <2>4. PointersInv' /\ OpenInv' /\ ContentInv'
    BY <2>1 DEF Inv, PointersInv, OpenInv, ContentInv, Opens, Thinking, InText, OpenTools,
                Positions
  <2>5. StopInv'
    BY <2>1, <2>2 DEF Inv, StopInv
  <2> QED
    BY <2>3, <2>4, <2>5 DEF Inv
<1>5. CASE EmptyChunk \/ UNCHANGED vars
  <2>1. /\ blocks' = blocks /\ thinkingIndex' = thinkingIndex /\ textIndex' = textIndex
        /\ toolBlocks' = toolBlocks /\ openTools' = openTools /\ received' = received
        /\ sawToolUse' = sawToolUse /\ status' = status /\ stopReason' = stopReason
        /\ finished' = finished /\ ordered' = ordered
        /\ (gotChunk' = gotChunk \/ gotChunk' = TRUE)
    BY <1>5 DEF EmptyChunk, vars
  <2>2. TypeOK'
    BY <2>1 DEF Inv, TypeOK, Positions
  <2>3. PointersInv' /\ OpenInv' /\ ContentInv'
    BY <2>1 DEF Inv, PointersInv, OpenInv, ContentInv, Opens, Thinking, InText, OpenTools,
                Positions
  <2>4. StopInv'
    BY <2>1 DEF Inv, StopInv
  <2> QED
    BY <2>2, <2>3, <2>4 DEF Inv
<1>6. CASE Complete
  <2>1. ordered \in BOOLEAN /\ finished \in BOOLEAN
    BY DEF Inv, TypeOK
  <2>2. CASE blocks = <<>>
    <3>1. Ends /\ Len(blocks') = 1
      BY <1>6, <2>2, EmptyTextEnds DEF Complete
    <3> QED
      BY <1>6, <2>1, <3>1, EndsKeepsInv DEF Complete
  <2>3. CASE blocks # <<>>
    <3>1. Ends /\ Len(blocks') = Len(blocks)
      BY <1>6, <2>3, StoppedAllEnds DEF Complete
    <3>2. Len(blocks) > 0
      BY <2>3, EmptySeq, LenProperties DEF Inv, TypeOK
    <3> QED
      BY <1>6, <2>1, <3>1, <3>2, EndsKeepsInv DEF Complete
  <2> QED
    BY <2>2, <2>3
<1>7. CASE Fail
  <2>1. Ends
    BY <1>7, StoppedAllEnds DEF Fail
  <2> QED
    BY <1>7, <2>1, EndsKeepsInv DEF Fail, Inv, TypeOK
<1> QED
  BY <1>1, <1>2, <1>3, <1>4, <1>5, <1>6, <1>7 DEF Next

\* A stream starts with nothing sent and nothing open.
LEMMA InitInv == Init => Inv
<1> SUFFICES ASSUME Init PROVE Inv
  OBVIOUS
<1>1. blocks = <<>> /\ Positions = {} /\ Opens = {} /\ Thinking = {} /\ InText = {}
  BY DEF Init, Positions, Opens, Thinking, InText, OpenTools
<1>2. TypeOK
  <2>1. blocks \in Seq(Block)
    BY <1>1
  <2>2. received \in [Sources -> 0..MaxFragments]
    BY SourcesAssumption DEF Init
  <2>3. /\ thinkingIndex = Nil /\ textIndex = Nil
        /\ toolBlocks \in [ToolIndexes -> Positions \cup {Nil}]
    BY DEF Init
  <2> QED
    BY <2>1, <2>2, <2>3 DEF Init, TypeOK, Block
<1>3. PointersInv /\ OpenInv
  BY <1>1 DEF Init, PointersInv, OpenInv
<1>4. ContentInv
  BY <1>1, SourcesAssumption DEF Init, ContentInv
<1>5. StopInv
  BY DEF Init, StopInv, Nil
<1> QED
  BY <1>2, <1>3, <1>4, <1>5 DEF Inv

\* The inductive invariant holds throughout.
LEMMA Invariance == Spec => []Inv
<1>1. Inv /\ [Next]_vars => Inv'
  BY KeepsInv
<1> QED
  BY <1>1, InitInv, PTL DEF Spec

\* The state of anthropicStreaming keeps its type: every position it holds is a
\* block that has been sent, and no block is stopped twice.
THEOREM TypeCorrect == Spec => []TypeOK
<1>1. Inv => TypeOK
  BY DEF Inv
<1> QED
  BY <1>1, Invariance, PTL

\* Whatever the order of the upstream's parts, the client never has two blocks
\* open at once, except those of parallel tool calls.
THEOREM OneKindIsOpen == Spec => []OneKindOpen
<1>1. Inv => OneKindOpen
  <2> SUFFICES ASSUME Inv, NEW i \in Positions, NEW j \in Positions,
                      Open(i), Open(j), i # j
               PROVE  blocks[i].source \in ToolIndexes /\ blocks[j].source \in ToolIndexes
    BY DEF OneKindOpen
  <2>1. i \in Opens /\ j \in Opens
    BY DEF Inv, OpenInv, Open, Stops
  <2>2. i \in OpenTools /\ j \in OpenTools
    BY <2>1 DEF Inv, OpenInv, Opens, Thinking, InText, OpenTools
  <2>3. ASSUME NEW l \in OpenTools PROVE Source(blocks, l) \in ToolIndexes
    BY DEF OpenTools, Inv, TypeOK, PointersInv
  <2> QED
    BY <2>2, <2>3 DEF Source
<1> QED
  BY <1>1, Invariance, PTL

\* Whatever the order and the outcome, every block has been stopped, once, by
\* the terminal event, and a completed message is not empty.
THEOREM TerminalIsAfterStops == Spec => []TerminalAfterStops
<1>1. Inv => TerminalAfterStops
  <2> SUFFICES ASSUME Inv PROVE TerminalAfterStops
    OBVIOUS
  <2>1. ASSUME status # "streaming", NEW i \in Positions PROVE ~Open(i)
    <3>1. Opens = {}
      BY <2>1 DEF Inv, OpenInv, Opens, Thinking, InText, OpenTools
    <3> QED
      BY <3>1 DEF Inv, OpenInv, Open, Stops
  <2> QED
    BY <2>1 DEF TerminalAfterStops, Inv, StopInv
<1> QED
  BY <1>1, Invariance, PTL

\* Whatever the order, every piece has reached the client in a block of its own
\* source, and a tool call has one block.
THEOREM NothingIsLost == Spec => []NothingLost
<1>1. Inv => NothingLost
  <2> SUFFICES ASSUME Inv PROVE NothingLost
    OBVIOUS
  <2>1. ASSUME NEW s \in Sources
        PROVE  UNION {blocks[i].content : i \in BlocksOf(s)} = 1..received[s]
    <3>1. \A i \in BlocksOf(s) : blocks[i].content \subseteq 1..received[s]
      BY DEF BlocksOf, Inv, ContentInv, Source, Content
    <3>2. \A n \in 1..received[s] : \E i \in BlocksOf(s) : n \in blocks[i].content
      BY DEF BlocksOf, Inv, ContentInv, Source, Content
    <3> QED
      BY <3>1, <3>2
  <2>2. ASSUME NEW k \in ToolIndexes PROVE Cardinality(BlocksOf(k)) <= 1
    <3>1. BlocksOf(k) \subseteq {toolBlocks[k]}
      BY DEF BlocksOf, Inv, PointersInv, Source
    <3>2. BlocksOf(k) = {} \/ BlocksOf(k) = {toolBlocks[k]}
      BY <3>1
    <3> QED
      <4>1. Cardinality({}) = 0 /\ Cardinality({toolBlocks[k]}) = 1
        BY FS_EmptySet, FS_Singleton
      <4> QED
        BY <3>2, <4>1
  <2> QED
    BY <2>1, <2>2 DEF NothingLost
<1> QED
  BY <1>1, Invariance, PTL

\* For an ordered upstream a completed message says "tool_use" exactly when it
\* holds a tool call.
THEOREM StopReasonIsTold == Spec => []StopReasonTellsToolUse
<1>1. Inv => StopReasonTellsToolUse
  <2> SUFFICES ASSUME Inv, ordered, status = "completed"
               PROVE  stopReason = "tool_use" <=>
                        \E i \in Positions : Source(blocks, i) \in ToolIndexes
    BY DEF StopReasonTellsToolUse, Source
  <2>1. stopReason = "tool_use" <=> \E k \in ToolIndexes : toolBlocks[k] # Nil
    BY DEF Inv, StopInv
  <2>2. ASSUME NEW k \in ToolIndexes, toolBlocks[k] # Nil
        PROVE  toolBlocks[k] \in Positions /\ Source(blocks, toolBlocks[k]) = k
    BY <2>2 DEF Inv, TypeOK, PointersInv
  <2>3. ASSUME NEW i \in Positions, Source(blocks, i) \in ToolIndexes
        PROVE  toolBlocks[Source(blocks, i)] # Nil
    BY <2>3 DEF Inv, PointersInv, Positions, Nil
  <2> QED
    BY <2>1, <2>2, <2>3
<1> QED
  BY <1>1, Invariance, PTL

-----------------------------------------------------------------------------
(***************************************************************************)
(* The refinement of ItemStream.                                           *)
(***************************************************************************)

\* The items a client sees in the blocks bs.
LEMMA ItemsOfBlocks ==
  ASSUME NEW bs \in Seq(Block),
         NEW items, items = [i \in DOMAIN bs |-> [source  |-> bs[i].source,
                                                  content |-> bs[i].content,
                                                  open    |-> bs[i].stops = 0]]
  PROVE  /\ Len(items) = Len(bs)
         /\ \A i \in 1..Len(bs) : /\ items[i].source = Source(bs, i)
                                  /\ items[i].content = Content(bs, i)
                                  /\ items[i].open = (Stops(bs, i) = 0)
<1>1. Len(bs) \in Nat /\ DOMAIN bs = 1..Len(bs)
  BY LenProperties
<1>2. items \in Seq([source : {bs[i].source : i \in 1..Len(bs)},
                     content : {bs[i].content : i \in 1..Len(bs)}, open : BOOLEAN])
  BY <1>1
<1>3. Len(items) = Len(bs)
  BY <1>1, <1>2, LenProperties
<1>4. \A i \in 1..Len(bs) : /\ items[i].source = Source(bs, i)
                            /\ items[i].content = Content(bs, i)
                            /\ items[i].open = (Stops(bs, i) = 0)
  BY <1>1 DEF Source, Content, Stops
<1> QED
  BY <1>3, <1>4

\* When no block loses content or is opened again, and none that was stopped
\* grows but a tool call the upstream returned to, the client's items go on.
LEMMA ItemsContinue ==
  ASSUME blocks \in Seq(Block), blocks' \in Seq(Block), Positions \subseteq Positions',
         \A i \in Positions :
           /\ Source(blocks', i) = Source(blocks, i)
           /\ Content(blocks, i) \subseteq Content(blocks', i)
           /\ Stops(blocks, i) # 0 =>
                /\ Stops(blocks', i) # 0
                /\ \/ Content(blocks', i) = Content(blocks, i)
                   \/ Source(blocks, i) \in ToolIndexes /\ ~ordered'
  PROVE  Abstract!Continues(ClientItems, ClientItems')
<1> DEFINE old == ClientItems
           new == ClientItems'
<1>1. /\ Len(old) = Len(blocks)
      /\ \A i \in 1..Len(blocks) : /\ old[i].source = Source(blocks, i)
                                   /\ old[i].content = Content(blocks, i)
                                   /\ old[i].open = (Stops(blocks, i) = 0)
  BY ItemsOfBlocks DEF ClientItems, Open
<1>2. /\ Len(new) = Len(blocks')
      /\ \A i \in 1..Len(blocks') : /\ new[i].source = Source(blocks', i)
                                    /\ new[i].content = Content(blocks', i)
                                    /\ new[i].open = (Stops(blocks', i) = 0)
  BY ItemsOfBlocks DEF ClientItems, Open
<1>3. /\ Len(blocks) <= Len(blocks')
      /\ Positions = 1..Len(blocks) /\ \A i \in 1..Len(blocks) : i \in 1..Len(blocks')
  <2>1. Len(blocks) \in Nat /\ Len(blocks') \in Nat
    BY LenProperties
  <2> QED
    BY <2>1 DEF Positions
<1> HIDE DEF old, new
<1>4. ASSUME NEW i \in 1..Len(old)
      PROVE  /\ new[i].source = old[i].source
             /\ old[i].content \subseteq new[i].content
             /\ ~old[i].open =>
                  /\ ~new[i].open
                  /\ \/ new[i].content = old[i].content
                     \/ old[i].source \in ToolIndexes /\ ~ordered'
  <2>1. /\ old[i].source = Source(blocks, i) /\ new[i].source = Source(blocks', i)
        /\ old[i].content = Content(blocks, i) /\ new[i].content = Content(blocks', i)
    BY <1>1, <1>2, <1>3
  <2>2. /\ old[i].open = (Stops(blocks, i) = 0) /\ new[i].open = (Stops(blocks', i) = 0)
    BY <1>1, <1>2, <1>3
  <2>3. i \in Positions
    BY <1>1, <1>3
  <2>4. (~old[i].open => Stops(blocks, i) # 0) /\ (Stops(blocks', i) # 0 => ~new[i].open)
    BY <2>2, Zenon
  <2> QED
    BY <2>1, <2>3, <2>4
<1> QED
  BY <1>1, <1>2, <1>3, <1>4 DEF old, new, Abstract!Continues

\* A block that is stopped gets no delta: text and thinking blocks that get one
\* are open after the step, and a stopped tool call was left and returned to.
LEMMA SendsStreams ==
  ASSUME Inv, Inv', NEW ps, NEW p, NEW source \in Sources, NEW pieces,
         Sends(ps, p, source, pieces)
  PROVE  Abstract!Next
<1>1. blocks \in Seq(Block) /\ Positions = 1..Len(blocks) /\ Positions' = 1..Len(blocks')
  BY DEF Inv, TypeOK, Block, Positions
<1>2. After(blocks, blocks', ps, p, source, pieces)
  <2>1. p \in 1..(Len(blocks) + 1) /\ Grown(blocks, blocks', ps, p, source, pieces)
    BY DEF Sends
  <2> QED
    BY <1>1, <2>1, GrownLength
<1>3. ASSUME NEW i \in Positions
      PROVE  /\ Source(blocks', i) = Source(blocks, i)
             /\ Content(blocks, i) \subseteq Content(blocks', i)
             /\ Stops(blocks, i) # 0 => Stops(blocks', i) # 0
  BY <1>1, <1>2 DEF After
<1>4. ASSUME NEW i \in Positions, Stops(blocks, i) # 0
      PROVE  \/ Content(blocks', i) = Content(blocks, i)
             \/ Source(blocks, i) \in ToolIndexes /\ ~ordered'
  <2>1. CASE i # p
    BY <1>1, <1>2, <2>1 DEF After
  <2>2. CASE i = p
    <3>1. Source(blocks, p) = source
      BY <1>1, <1>2, <2>2 DEF After
    <3>2. p \notin Opens'
      BY <1>1, <1>2, <1>3, <1>4, <2>2 DEF After, Inv, OpenInv
    <3>3. source \in ToolIndexes
      BY <3>2 DEF Sends, Pointed
    <3>4. toolBlocks[source] = p /\ p # Nil
      BY <1>1, <2>2, <3>1, <3>3 DEF Inv, PointersInv, Nil
    <3>5. source \notin openTools
      BY <1>4, <2>2, <3>3, <3>4 DEF Inv, OpenInv, Opens, OpenTools
    <3> QED
      BY <2>2, <3>1, <3>3, <3>4, <3>5 DEF Sends, Told, InRow
  <2> QED
    BY <2>1, <2>2
<1>5. Abstract!Continues(ClientItems, ClientItems')
  <2>1. Positions \subseteq Positions' /\ blocks' \in Seq(Block)
    BY <1>1, <1>2 DEF After
  <2> QED
    BY <1>1, <1>3, <1>4, <2>1, ItemsContinue
<1>6. status = "streaming" /\ status' = "streaming" /\ (ordered' => ordered)
  BY DEF Sends, Told
<1> QED
  BY <1>5, <1>6 DEF Abstract!Next, Abstract!Stream, Abstract!Proceed

\* The end closes every item.
LEMMA EndsCloses ==
  ASSUME Inv, Ends, status = "streaming", status' \in {"completed", "failed"},
         ordered' => ordered
  PROVE  Abstract!Next
<1>1. blocks \in Seq(Block) /\ blocks' \in Seq(Block) /\ Len(blocks') \in Nat
  BY DEF Inv, TypeOK, Block, Ends
<1>2. \A i \in Positions : /\ Source(blocks', i) = Source(blocks, i)
                           /\ Content(blocks', i) = Content(blocks, i)
                           /\ Stops(blocks', i) # 0
  BY DEF Ends
<1>3. Abstract!Continues(ClientItems, ClientItems')
  <2>1. Positions \subseteq Positions'
    BY DEF Ends
  <2> QED
    BY <1>1, <1>2, <2>1, ItemsContinue
<1>4. Abstract!AllClosed(ClientItems')
  <2> DEFINE new == ClientItems'
  <2>1. /\ Len(new) = Len(blocks')
        /\ \A i \in 1..Len(blocks') : new[i].open = (Stops(blocks', i) = 0)
    BY <1>1, ItemsOfBlocks DEF ClientItems, Open
  <2>2. \A i \in 1..Len(blocks') : Stops(blocks', i) = 1
    BY DEF Ends, Positions
  <2> HIDE DEF new
  <2>3. ASSUME NEW i \in 1..Len(new) PROVE ~new[i].open
    <3>1. new[i].open = (Stops(blocks', i) = 0) /\ Stops(blocks', i) = 1
      BY <2>1, <2>2
    <3>2. Stops(blocks', i) # 0
      BY <3>1
    <3> QED
      BY <3>1, <3>2, Zenon
  <2> QED
    BY <2>3 DEF new, Abstract!AllClosed
<1> QED
  BY <1>3, <1>4 DEF Abstract!Next, Abstract!Complete, Abstract!Fail, Abstract!Proceed

\* anthropicStreaming shows its client an item stream.
THEOREM StreamsItems == Spec => ItemStreamSpec
<1>1. Init => Abstract!Init
  BY DEF Init, Abstract!Init, ClientItems
<1>2. ASSUME Inv, Inv', [Next]_vars
      PROVE  [Abstract!Next]_Abstract!vars
  <2>1. ASSUME NEW source \in Sources, \E ps, p, pieces : Sends(ps, p, source, pieces)
        PROVE  Abstract!Next
    BY <1>2, <2>1, SendsStreams
  <2>2. CASE Reasoning
    BY <1>2, <2>1, <2>2, ReasoningSends DEF Sources
  <2>3. CASE Text
    BY <1>2, <2>1, <2>3, TextSends DEF Sources
  <2>4. ASSUME NEW k \in ToolIndexes, ToolCall(k) PROVE Abstract!Next
    <3>1. k \in Sources
      BY DEF Sources
    <3> QED
      BY <1>2, <2>1, <2>4, <3>1, ToolCallSends
  <2>5. ASSUME blocks' = blocks, status' = status, status = "streaming",
               ordered' => ordered
        PROVE  Abstract!Next
    <3>1. blocks \in Seq(Block)
      BY <1>2 DEF Inv, TypeOK, Block
    <3>2. Abstract!Continues(ClientItems, ClientItems')
      BY <2>5, <3>1, ItemsContinue DEF Positions
    <3> QED
      BY <2>5, <3>2 DEF Abstract!Next, Abstract!Stream, Abstract!Proceed
  <2>6. ASSUME NEW reason, Finish(reason) PROVE Abstract!Next
    <3>1. blocks' = blocks /\ status' = status /\ status = "streaming" /\ (ordered' => ordered)
      BY <2>6 DEF Finish
    <3> QED
      BY <2>5, <3>1
  <2>7. CASE EmptyChunk
    <3>1. blocks' = blocks /\ status' = status /\ status = "streaming" /\ (ordered' => ordered)
      BY <2>7 DEF EmptyChunk
    <3> QED
      BY <2>5, <3>1
  <2>8. CASE Complete
    <3>1. Ends
      BY <1>2, <2>8, StoppedAllEnds, EmptyTextEnds DEF Complete
    <3> QED
      BY <1>2, <2>8, <3>1, EndsCloses DEF Complete
  <2>9. CASE Fail
    <3>1. Ends
      BY <1>2, <2>9, StoppedAllEnds DEF Fail
    <3> QED
      BY <1>2, <2>9, <3>1, EndsCloses DEF Fail
  <2>10. CASE UNCHANGED vars
    BY <2>10 DEF vars, Abstract!vars, ClientItems, Open
  <2> QED
    BY <1>2, <2>2, <2>3, <2>4, <2>6, <2>7, <2>8, <2>9, <2>10 DEF Next
<1> QED
  BY <1>1, <1>2, Invariance, PTL DEF Spec, ItemStreamSpec, Abstract!Spec
=============================================================================
