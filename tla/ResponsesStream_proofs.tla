------------------------ MODULE ResponsesStream_proofs ------------------------
(***************************************************************************)
(* For any number of tool calls and pieces, and for every order of the     *)
(* upstream's parts: the client of the Responses endpoint loses nothing,   *)
(* response.completed lists every item once and all of them done, and the  *)
(* client sees an item stream.  For an ordered upstream the list is in the *)
(* order of the output indexes and no id comes twice.                      *)
(*                                                                         *)
(* Reasoning, Text and ToolCall(k) do the same to what the client has been *)
(* sent: they finish the items of the other kinds, in two lists, and add   *)
(* at most one piece to one item, the handler's current item of that       *)
(* source or a new one.  Sends says so.  The three lemmas ...Sends show    *)
(* that each action is such a step; SendsKeepsInv and SendsStreams then    *)
(* prove the invariant and the refinement of ItemStream once for all.      *)
(*                                                                         *)
(* That output is in order needs induction over the length of a list.  It  *)
(* is done with least counterexamples (Least), which need no theorem with  *)
(* an operator parameter.                                                  *)
(***************************************************************************)
EXTENDS ResponsesStream, SequenceTheorems, FiniteSetTheorems, WellFoundedInduction, TLAPS

(***************************************************************************)
(* Items, and what the proofs look at of item i of the sequence its.       *)
(***************************************************************************)
Item == [source : Sources, id : Sources \X Nat, content : Pieces, dones : {0, 1}]

ItemSource(its, i) == its[i].source
ItemPrefix(its, i) == its[i].id[1]
ItemNumber(its, i) == its[i].id[2]
ItemContent(its, i) == its[i].content
ItemDones(its, i) == its[i].dones

\* The positions of the items that are not done.
Pending == {i \in Positions : ItemDones(items, i) = 0}

-----------------------------------------------------------------------------
(***************************************************************************)
(* Sequences that list a set of positions.                                 *)
(***************************************************************************)

\* s lists each element of D once.
Lists(s, D) ==
  /\ s \in Seq(D)
  /\ \A d \in D : \E i \in 1..Len(s) : s[i] = d
  /\ \A i, j \in 1..Len(s) : s[i] = s[j] => i = j

\* The elements of s go up.
Rising(s) == \A i, j \in 1..Len(s) : i < j => s[i] < s[j]

\* Every set of natural numbers has a least one.
LEMMA Least ==
  ASSUME NEW T \in SUBSET Nat, T # {}
  PROVE  \E x \in T : \A y \in T : x <= y
<1>1. PICK x \in T : \A y \in T : <<y, x>> \notin OpToRel(<, Nat)
  BY NatLessThanWellFounded, WFMin
<1>2. \A y \in T : ~(y < x)
  BY <1>1 DEF OpToRel
<1> QED
  BY <1>2

\* Every finite set of positions has a list that goes up.
LEMMA RisingList ==
  ASSUME NEW n \in Nat, NEW ps \in SUBSET (1..n)
  PROVE  \E s : Lists(s, ps) /\ Rising(s)
<1> DEFINE Listed(m) == \A qs \in SUBSET (1..m) : \E s : Lists(s, qs) /\ Rising(s)
           T == {m \in Nat : ~Listed(m)}
<1>1. SUFFICES ASSUME T # {} PROVE FALSE
  BY DEF T
<1>2. PICK m \in T : \A k \in T : m <= k
  BY <1>1, Least
<1>3. Listed(0)
  <2>1. Lists(<<>>, {}) /\ Rising(<<>>)
    BY DEF Lists, Rising
  <2>2. \A qs \in SUBSET (1..0) : qs = {}
    OBVIOUS
  <2> QED
    BY <2>1, <2>2
<1>4. m \in Nat /\ m # 0
  BY <1>2, <1>3
<1>5. Listed(m - 1)
  BY <1>2, <1>4
<1> HIDE DEF T
<1>6. ASSUME NEW qs \in SUBSET (1..m)
      PROVE  \E s : Lists(s, qs) /\ Rising(s)
  <2> DEFINE rs == qs \ {m}
  <2>1. rs \in SUBSET (1..(m - 1))
    BY <1>4
  <2>2. PICK s : Lists(s, rs) /\ Rising(s)
    BY <1>5, <2>1
  <2>3. CASE m \notin qs
    BY <2>2, <2>3
  <2>4. CASE m \in qs
    <3> DEFINE t == Append(s, m)
    <3>1. s \in Seq(qs) /\ Len(s) \in Nat
      BY <2>2, LenProperties DEF Lists
    <3>2. /\ t \in Seq(qs) /\ Len(t) = Len(s) + 1
          /\ \A i \in 1..Len(s) : t[i] = s[i]
          /\ t[Len(s) + 1] = m
      BY <2>4, <3>1, AppendProperties
    <3>3. \A i \in 1..Len(s) : s[i] \in 1..(m - 1)
      BY <2>1, <2>2, ElementOfSeq DEF Lists
    <3> HIDE DEF t
    <3>4. \A i \in 1..Len(t) : i \in 1..Len(s) \/ i = Len(s) + 1
      BY <3>1, <3>2
    <3>5. Rising(t)
      BY <1>4, <2>2, <3>1, <3>2, <3>3, <3>4 DEF Rising
    <3>6. \A i, j \in 1..Len(t) : t[i] = t[j] => i = j
      BY <1>4, <2>2, <3>1, <3>2, <3>3, <3>4 DEF Lists
    <3>7. ASSUME NEW d \in qs PROVE \E i \in 1..Len(t) : t[i] = d
      <4>1. CASE d = m
        BY <3>1, <3>2, <4>1
      <4>2. CASE d # m
        <5>1. PICK i \in 1..Len(s) : s[i] = d
          BY <2>2, <4>2 DEF Lists
        <5> QED
          BY <3>1, <3>2, <5>1
      <4> QED
        BY <4>1, <4>2
    <3> QED
      BY <3>2, <3>5, <3>6, <3>7 DEF Lists
  <2> QED
    BY <2>3, <2>4
<1> QED
  BY <1>2, <1>6 DEF T

\* A list of a finite set is as long as the set is large.
LEMMA ListLength ==
  ASSUME NEW D, NEW s, Lists(s, D)
  PROVE  Len(s) \in Nat /\ Cardinality(D) = Len(s)
<1>1. Len(s) \in Nat /\ s \in [1..Len(s) -> D]
  BY LenProperties DEF Lists
<1>2. s \in Bijection(1..Len(s), D)
  BY <1>1 DEF Lists, Bijection, Injection, IsInjective, Surjection
<1>3. ExistsBijection(1..Len(s), D)
  BY <1>2 DEF ExistsBijection
<1> QED
  BY <1>1, <1>3, FS_CountingElements

\* What InOrder chooses exists, and lists its set.
LEMMA InOrderLists ==
  ASSUME NEW n \in Nat, NEW ps \in SUBSET (1..n)
  PROVE  Lists(InOrder(ps), ps) /\ Rising(InOrder(ps))
<1> DEFINE c == Cardinality(ps)
           s == InOrder(ps)
<1>1. PICK e : Lists(e, ps) /\ Rising(e)
  BY RisingList
<1>2. c \in Nat /\ Len(e) = c
  BY <1>1, ListLength
<1>3. e \in [1..c -> ps] /\ \A i, j \in 1..c : i < j => e[i] < e[j]
  BY <1>1, <1>2, LenProperties DEF Lists, Rising
<1>4. s \in [1..c -> ps] /\ \A i, j \in 1..c : i < j => s[i] < s[j]
  BY <1>3 DEF InOrder
<1> HIDE DEF s
<1>5. ASSUME NEW i \in 1..c, NEW j \in 1..c, s[i] = s[j]
      PROVE  i = j
  <2>1. s[i] \in Nat /\ s[j] \in Nat /\ i \in Nat /\ j \in Nat
    <3>1. s[i] \in ps /\ s[j] \in ps
      BY <1>4
    <3>2. \A p \in ps : p \in Nat
      OBVIOUS
    <3>3. i \in Nat /\ j \in Nat
      BY <1>2
    <3> QED
      BY <3>1, <3>2, <3>3
  <2>2. ~(i < j) /\ ~(j < i)
    BY <1>4, <1>5, <2>1
  <2> QED
    BY <2>1, <2>2
<1>6. s \in Injection(1..c, ps) /\ IsFiniteSet(ps)
  <2>1. s \in Injection(1..c, ps)
    BY <1>4, <1>5 DEF Injection, IsInjective
  <2>2. IsFiniteSet(1..n)
    BY FS_Interval
  <2> QED
    BY <2>1, <2>2, FS_Subset
<1>7. Cardinality(1..c) = c
  BY <1>2, FS_Interval
<1> HIDE DEF c
<1>8. s \in Surjection(1..c, ps)
  BY <1>6, <1>7, FS_Injection DEF c
<1>9. s \in Seq(ps) /\ Len(s) = c
  BY <1>2, <1>4
<1> QED
  BY <1>4, <1>5, <1>8, <1>9 DEF s, Lists, Rising, Surjection

\* A list of one set behind a list of another lists both.
LEMMA ListsConcat ==
  ASSUME NEW D, NEW E, D \cap E = {}, NEW s, NEW t, Lists(s, D), Lists(t, E)
  PROVE  Lists(s \o t, D \cup E)
<1> DEFINE u == s \o t
<1>1. /\ s \in Seq(D \cup E) /\ t \in Seq(D \cup E)
      /\ Len(s) \in Nat /\ Len(t) \in Nat
      /\ \A i \in 1..Len(s) : s[i] \in D
      /\ \A i \in 1..Len(t) : t[i] \in E
  BY SeqMonotonic, LenProperties, ElementOfSeq DEF Lists
<1>2. /\ u \in Seq(D \cup E) /\ Len(u) = Len(s) + Len(t)
      /\ \A i \in 1..(Len(s) + Len(t)) :
           u[i] = IF i <= Len(s) THEN s[i] ELSE t[i - Len(s)]
  BY <1>1, ConcatProperties
<1> HIDE DEF u
<1>3. \A i \in 1..Len(u) : \/ i \in 1..Len(s) /\ u[i] = s[i]
                           \/ i - Len(s) \in 1..Len(t) /\ u[i] = t[i - Len(s)]
  BY <1>1, <1>2
<1>4. \A d \in D \cup E : \E i \in 1..Len(u) : u[i] = d
  <2>1. ASSUME NEW d \in D PROVE \E i \in 1..Len(u) : u[i] = d
    <3>1. PICK i \in 1..Len(s) : s[i] = d
      BY DEF Lists
    <3> QED
      BY <1>1, <1>2, <3>1
  <2>2. ASSUME NEW d \in E PROVE \E i \in 1..Len(u) : u[i] = d
    <3>1. PICK i \in 1..Len(t) : t[i] = d
      BY DEF Lists
    <3>2. Len(s) + i \in 1..(Len(s) + Len(t)) /\ ~(Len(s) + i <= Len(s)) /\ (Len(s) + i) - Len(s) = i
      BY <1>1
    <3> QED
      BY <1>2, <3>1, <3>2
  <2> QED
    BY <2>1, <2>2
<1>5. ASSUME NEW i \in 1..Len(u), NEW j \in 1..Len(u), u[i] = u[j]
      PROVE  i = j
  <2>1. i \in Int /\ j \in Int
    OBVIOUS
  <2>2. CASE i \in 1..Len(s) /\ u[i] = s[i]
    <3>1. j \in 1..Len(s) /\ u[j] = s[j]
      BY <1>1, <1>3, <1>5, <2>2
    <3> QED
      BY ZenonT(60), <1>5, <2>2, <3>1 DEF Lists
  <2>3. CASE i - Len(s) \in 1..Len(t) /\ u[i] = t[i - Len(s)]
    <3>1. j - Len(s) \in 1..Len(t) /\ u[j] = t[j - Len(s)]
      BY <1>1, <1>3, <1>5, <2>3
    <3>2. i - Len(s) = j - Len(s)
      BY ZenonT(60), <1>5, <2>3, <3>1 DEF Lists
    <3> QED
      BY <1>1, <2>1, <3>2
  <2> QED
    BY <1>3, <2>2, <2>3
<1> QED
  BY <1>2, <1>4, <1>5 DEF u, Lists

\* Only the empty sequence lists the empty set.
LEMMA ListsNone ==
  ASSUME NEW s, Lists(s, {})
  PROVE  s = <<>>
<1>1. Len(s) = 0 /\ s \in Seq({})
  BY ListLength, FS_EmptySet DEF Lists
<1> QED
  BY <1>1, EmptySeq

\* The list of an interval that goes up counts.
LEMMA RisingInterval ==
  ASSUME NEW a \in Nat, NEW n \in Nat, a <= n, NEW s, Lists(s, (a + 1)..n), Rising(s)
  PROVE  Len(s) = n - a /\ \A i \in 1..Len(s) : s[i] = a + i
<1>1. /\ s \in Seq((a + 1)..n) /\ Len(s) \in Nat
      /\ \A i \in 1..Len(s) : s[i] \in (a + 1)..n
  BY LenProperties, ElementOfSeq DEF Lists
<1>2. Len(s) = n - a
  <2>1. Cardinality((a + 1)..n) = n - a
    <3>1. a + 1 \in Int /\ n \in Int
      OBVIOUS
    <3>2. Cardinality((a + 1)..n) = IF a + 1 > n THEN 0 ELSE n - (a + 1) + 1
      BY <3>1, FS_Interval
    <3> QED
      BY <3>2
  <2> QED
    BY <2>1, ListLength
<1> DEFINE T == {i \in 1..Len(s) : s[i] # a + i}
<1>3. SUFFICES ASSUME T # {} PROVE FALSE
  BY <1>2
<1>4. PICK i \in T : \A j \in T : i <= j
  <2>1. T \in SUBSET Nat
    OBVIOUS
  <2> QED
    BY <1>3, <2>1, Least
<1>5. i \in 1..Len(s) /\ i \in Nat /\ s[i] # a + i /\ s[i] \in (a + 1)..n
  BY <1>1, <1>4
<1>6. \A j \in 1..(i - 1) : j \in 1..Len(s) /\ s[j] = a + j
  BY <1>1, <1>4, <1>5
<1> HIDE DEF T
\* What is left for s[i] is more than a + i, so that a + i is not listed.
<1>7. s[i] > a + i
  <2>1. CASE s[i] < a + i
    <3>1. s[i] - a \in 1..(i - 1) /\ s[s[i] - a] = s[i]
      BY <1>5, <1>6, <2>1
    <3>2. s[i] - a = i
      BY <1>5, <1>6, <3>1 DEF Lists
    <3> QED
      BY <1>5, <3>2
  <2> QED
    BY <1>5, <2>1
<1>8. PICK j \in 1..Len(s) : s[j] = a + i
  <2>1. a + i \in (a + 1)..n
    BY <1>2, <1>5
  <2> QED
    BY <2>1 DEF Lists
<1>9. CASE j < i
  BY <1>5, <1>6, <1>8, <1>9
<1>10. CASE i < j
  BY <1>1, <1>5, <1>7, <1>8, <1>10 DEF Rising
<1> QED
  BY <1>5, <1>8, <1>9, <1>10

-----------------------------------------------------------------------------
(***************************************************************************)
(* What the operators on items do.                                         *)
(***************************************************************************)

\* What stays of the item at position i.
Kept(its, new, i) ==
  /\ ItemSource(new, i) = ItemSource(its, i)
  /\ ItemPrefix(new, i) = ItemPrefix(its, i)
  /\ ItemNumber(new, i) = ItemNumber(its, i)

\* The types of an item's fields.
LEMMA ItemFields ==
  ASSUME NEW its \in Seq(Item), NEW i \in 1..Len(its)
  PROVE  /\ ItemSource(its, i) \in Sources /\ ItemContent(its, i) \in Pieces
         /\ ItemDones(its, i) \in {0, 1} /\ ItemNumber(its, i) \in Nat
<1>1. its[i] \in Item /\ i \in DOMAIN its
  BY ElementOfSeq, LenProperties
<1> QED
  BY <1>1 DEF Item, ItemSource, ItemContent, ItemDones, ItemNumber

\* new is its with the items at ps done.
Finished(its, new, ps) ==
  /\ new \in Seq(Item) /\ Len(new) = Len(its)
  /\ \A i \in 1..Len(its) :
       /\ Kept(its, new, i)
       /\ ItemContent(new, i) = ItemContent(its, i)
       /\ ItemDones(new, i) = IF i \in ps THEN 1 ELSE ItemDones(its, i)

\* Finishing items that are pending changes nothing but their dones.
LEMMA DoneItems ==
  ASSUME NEW its \in Seq(Item), NEW ps,
         \A i \in 1..Len(its) : i \in ps => ItemDones(its, i) = 0
  PROVE  Finished(its, Done(its, ps), ps)
<1> DEFINE s == Done(its, ps)
<1>1. /\ Len(its) \in Nat /\ DOMAIN its = 1..Len(its)
      /\ \A i \in 1..Len(its) : its[i] \in Item
  BY LenProperties, ElementOfSeq
<1>2. s = [i \in 1..Len(its) |->
             IF i \in ps THEN [its[i] EXCEPT !.dones = @ + 1] ELSE its[i]]
  BY <1>1 DEF Done
<1>3. \A i \in 1..Len(its) :
        /\ s[i] \in Item
        /\ s[i].source = its[i].source /\ s[i].content = its[i].content /\ s[i].id = its[i].id
        /\ s[i].dones = IF i \in ps THEN 1 ELSE its[i].dones
  <2> SUFFICES ASSUME NEW i \in 1..Len(its)
               PROVE  /\ s[i] \in Item
                      /\ s[i].source = its[i].source /\ s[i].content = its[i].content
                      /\ s[i].id = its[i].id
                      /\ s[i].dones = IF i \in ps THEN 1 ELSE its[i].dones
    OBVIOUS
  <2> HIDE DEF s
  <2>1. CASE i \in ps
    <3>1. s[i] = [its[i] EXCEPT !.dones = @ + 1] /\ its[i] \in Item /\ its[i].dones = 0
      BY <1>1, <1>2, <2>1 DEF ItemDones
    <3>2. s[i] = [source |-> its[i].source, id |-> its[i].id, content |-> its[i].content,
                  dones |-> 1]
      BY <3>1 DEF Item
    <3> QED
      BY <2>1, <3>1, <3>2 DEF Item
  <2>2. CASE i \notin ps
    BY <1>1, <1>2, <2>2
  <2> QED
    BY <2>1, <2>2
<1>4. s \in Seq(Item) /\ Len(s) = Len(its)
  BY <1>1, <1>2, <1>3
<1> HIDE DEF s
<1>5. \A i \in 1..Len(its) :
        /\ Kept(its, s, i)
        /\ ItemContent(s, i) = ItemContent(its, i)
        /\ ItemDones(s, i) = IF i \in ps THEN 1 ELSE ItemDones(its, i)
  BY <1>3 DEF Kept, ItemSource, ItemPrefix, ItemNumber, ItemContent, ItemDones
<1> QED
  BY <1>4, <1>5 DEF s, Finished

\* Finishing nothing changes nothing.
LEMMA DoneNone ==
  ASSUME NEW its \in Seq(Item)
  PROVE  Done(its, {}) = its
<1>1. DOMAIN its = 1..Len(its) /\ its \in [1..Len(its) -> Item]
  BY LenProperties
<1> QED
  BY <1>1 DEF Done

\* new is its with a new item of source behind it, empty and pending.
Extended(its, new, source, id) ==
  /\ new \in Seq(Item) /\ Len(new) = Len(its) + 1
  /\ \A i \in 1..Len(its) : /\ Kept(its, new, i)
                            /\ ItemContent(new, i) = ItemContent(its, i)
                            /\ ItemDones(new, i) = ItemDones(its, i)
  /\ ItemSource(new, Len(its) + 1) = source
  /\ ItemPrefix(new, Len(its) + 1) = source
  /\ ItemNumber(new, Len(its) + 1) = id
  /\ ItemContent(new, Len(its) + 1) = {}
  /\ ItemDones(new, Len(its) + 1) = 0

\* An item added is a new one behind those there are.
LEMMA AddedItems ==
  ASSUME NEW its \in Seq(Item), NEW source \in Sources, NEW id \in Nat
  PROVE  Extended(its, Added(its, source, id), source, id)
<1> DEFINE s == Added(its, source, id)
           b == [source |-> source, id |-> <<source, id>>, content |-> {}, dones |-> 0]
<1>1. b \in Item /\ s = Append(its, b)
  BY DEF Item, Pieces, Added
<1>2. /\ b.source = source /\ b.id[1] = source /\ b.id[2] = id /\ b.content = {}
      /\ b.dones = 0
  OBVIOUS
<1> HIDE DEF b, s
<1>3. /\ s \in Seq(Item) /\ Len(s) = Len(its) + 1
      /\ \A i \in 1..Len(its) : s[i] = its[i]
      /\ s[Len(its) + 1] = b
  BY <1>1, AppendProperties
<1>4. \A i \in 1..Len(its) : /\ Kept(its, s, i)
                             /\ ItemContent(s, i) = ItemContent(its, i)
                             /\ ItemDones(s, i) = ItemDones(its, i)
  BY <1>3 DEF Kept, ItemSource, ItemPrefix, ItemNumber, ItemContent, ItemDones
<1>5. /\ ItemSource(s, Len(its) + 1) = source /\ ItemPrefix(s, Len(its) + 1) = source
      /\ ItemNumber(s, Len(its) + 1) = id /\ ItemContent(s, Len(its) + 1) = {}
      /\ ItemDones(s, Len(its) + 1) = 0
  BY <1>2, <1>3 DEF ItemSource, ItemPrefix, ItemNumber, ItemContent, ItemDones
<1> QED
  BY <1>3, <1>4, <1>5 DEF s, Extended

\* new is its with one more piece in the item at p.
Pieced(its, new, p, piece) ==
  /\ new \in Seq(Item) /\ Len(new) = Len(its)
  /\ \A i \in 1..Len(its) :
       /\ Kept(its, new, i)
       /\ ItemDones(new, i) = ItemDones(its, i)
       /\ i # p => ItemContent(new, i) = ItemContent(its, i)
  /\ ItemContent(new, p) = ItemContent(its, p) \cup {piece}

\* A delta adds its piece to one item.
LEMMA DeltaItems ==
  ASSUME NEW its \in Seq(Item), NEW p \in 1..Len(its), NEW piece \in 1..MaxFragments
  PROVE  Pieced(its, Delta(its, p, piece), p, piece)
<1> DEFINE d == Delta(its, p, piece)
           e == [its[p] EXCEPT !.content = @ \cup {piece}]
<1>1. its[p] \in Item
  BY ElementOfSeq
<1>2. d = [its EXCEPT ![p] = e] /\ e \in Item
  BY <1>1 DEF Item, Pieces, Delta
<1>3. /\ e.source = its[p].source /\ e.dones = its[p].dones /\ e.id = its[p].id
      /\ e.content = its[p].content \cup {piece}
  BY <1>1 DEF Item
<1> HIDE DEF d, e
<1>4. /\ d \in Seq(Item) /\ Len(d) = Len(its)
      /\ \A i \in 1..Len(its) : d[i] = IF i = p THEN e ELSE its[i]
  BY <1>2, ExceptSeq
<1>5. \A i \in 1..Len(its) :
        /\ Kept(its, d, i)
        /\ ItemDones(d, i) = ItemDones(its, i)
        /\ i # p => ItemContent(d, i) = ItemContent(its, i)
  BY <1>3, <1>4 DEF Kept, ItemSource, ItemPrefix, ItemNumber, ItemContent, ItemDones
<1>6. ItemContent(d, p) = ItemContent(its, p) \cup {piece}
  BY <1>3, <1>4 DEF ItemContent
<1> QED
  BY <1>4, <1>5, <1>6 DEF d, Pieced

\* new is its with the items at ps done, and the pieces added to the item of
\* source at p, which is new when p is the position behind the last.
Grown(its, new, ps, p, source, id, pieces) ==
  /\ new \in Seq(Item) /\ Len(its) \in Nat /\ Len(new) \in Nat
  /\ 1..Len(new) = 1..Len(its) \cup {p}
  /\ ItemSource(new, p) = source
  /\ p \notin 1..Len(its) => /\ ItemPrefix(new, p) = source /\ ItemNumber(new, p) = id
                             /\ ItemContent(new, p) = pieces /\ ItemDones(new, p) = 0
  /\ \A i \in 1..Len(its) :
       /\ Kept(its, new, i)
       /\ ItemDones(new, i) = IF i \in ps THEN 1 ELSE ItemDones(its, i)
       /\ i # p => ItemContent(new, i) = ItemContent(its, i)
  /\ p \in 1..Len(its) => ItemContent(new, p) = ItemContent(its, p) \cup pieces

\* Finishing the other kinds, when the handler has an item of source.
LEMMA GrownOld ==
  ASSUME NEW its \in Seq(Item), NEW ps, NEW source, NEW id,
         \A i \in 1..Len(its) : i \in ps => ItemDones(its, i) = 0,
         NEW p \in 1..Len(its), ItemSource(its, p) = source
  PROVE  Grown(its, Done(its, ps), ps, p, source, id, {})
<1> DEFINE s == Done(its, ps)
<1>1. Len(its) \in Nat /\ Finished(its, s, ps)
  BY LenProperties, DoneItems
<1> HIDE DEF s
<1>2. /\ s \in Seq(Item) /\ Len(s) \in Nat /\ 1..Len(s) = 1..Len(its) \cup {p}
      /\ ItemSource(s, p) = source
  BY <1>1 DEF Finished, Kept
<1> QED
  BY <1>1, <1>2 DEF Finished, Grown, s

\* Finishing the other kinds and adding an item of source.
LEMMA GrownNew ==
  ASSUME NEW its \in Seq(Item), NEW ps,
         \A i \in 1..Len(its) : i \in ps => ItemDones(its, i) = 0,
         NEW source \in Sources, NEW id \in Nat
  PROVE  Grown(its, Added(Done(its, ps), source, id), ps, Len(its) + 1, source, id, {})
<1> DEFINE s == Done(its, ps)
           t == Added(s, source, id)
<1>1. Len(its) \in Nat /\ Finished(its, s, ps)
  BY LenProperties, DoneItems
<1>2. s \in Seq(Item) /\ Len(s) = Len(its)
  BY <1>1 DEF Finished
<1> HIDE DEF s
<1>3. Extended(s, t, source, id)
  BY <1>2, AddedItems
<1> HIDE DEF t
<1>4. /\ t \in Seq(Item) /\ Len(t) \in Nat /\ 1..Len(t) = 1..Len(its) \cup {Len(its) + 1}
      /\ Len(its) + 1 \notin 1..Len(its)
  BY <1>1, <1>2, <1>3 DEF Extended
<1>5. ASSUME NEW i \in 1..Len(its)
      PROVE  /\ Kept(its, t, i)
             /\ ItemDones(t, i) = IF i \in ps THEN 1 ELSE ItemDones(its, i)
             /\ ItemContent(t, i) = ItemContent(its, i)
  BY <1>1, <1>2, <1>3 DEF Finished, Extended, Kept
<1>6. /\ ItemSource(t, Len(its) + 1) = source /\ ItemPrefix(t, Len(its) + 1) = source
      /\ ItemNumber(t, Len(its) + 1) = id /\ ItemContent(t, Len(its) + 1) = {}
      /\ ItemDones(t, Len(its) + 1) = 0
  BY <1>2, <1>3 DEF Extended
<1> QED
  BY <1>1, <1>4, <1>5, <1>6 DEF Grown, s, t

\* ... and then sending a delta to it.
LEMMA GrownPiece ==
  ASSUME NEW its \in Seq(Item), NEW ps, NEW new,
         NEW p \in 1..(Len(its) + 1), NEW source \in Sources, NEW id,
         Grown(its, new, ps, p, source, id, {}), NEW piece \in 1..MaxFragments
  PROVE  Grown(its, Delta(new, p, piece), ps, p, source, id, {piece})
<1> DEFINE d == Delta(new, p, piece)
<1>1. /\ Len(its) \in Nat /\ new \in Seq(Item) /\ p \in 1..Len(new)
      /\ 1..Len(new) = 1..Len(its) \cup {p}
  BY DEF Grown
<1>2. Pieced(new, d, p, piece)
  BY <1>1, DeltaItems
<1> HIDE DEF d
<1>3. /\ d \in Seq(Item) /\ Len(d) \in Nat /\ 1..Len(d) = 1..Len(its) \cup {p}
      /\ ItemSource(d, p) = source
      /\ p \notin 1..Len(its) => /\ ItemPrefix(d, p) = source /\ ItemNumber(d, p) = id
                                 /\ ItemContent(d, p) = {piece} /\ ItemDones(d, p) = 0
  BY <1>1, <1>2 DEF Grown, Pieced, Kept
<1>4. ASSUME NEW i \in 1..Len(its)
      PROVE  /\ Kept(its, d, i)
             /\ ItemDones(d, i) = IF i \in ps THEN 1 ELSE ItemDones(its, i)
             /\ i # p => ItemContent(d, i) = ItemContent(its, i)
             /\ i = p => ItemContent(d, i) = ItemContent(its, i) \cup {piece}
  BY <1>1, <1>2 DEF Grown, Pieced, Kept
<1> QED
  BY <1>1, <1>3, <1>4 DEF Grown, d

-----------------------------------------------------------------------------
(***************************************************************************)
(* The inductive invariant.                                                *)
(***************************************************************************)

\* The handler's positions lead to items of their own source, and every tool
\* call has one item, the one toolItems knows.
PointersInv ==
  /\ \A p \in ItemAt(currentReasoning) : ItemSource(items, p) = "reasoning"
  /\ \A p \in ItemAt(currentText) : ItemSource(items, p) = "text"
  /\ \A k \in ToolIndexes : toolItems[k] # Nil => ItemSource(items, toolItems[k]) = k
  /\ \A i \in Positions :
       ItemSource(items, i) \in ToolIndexes => toolItems[ItemSource(items, i)] = i

\* Only what the handler can still reach is pending, so that all of it is
\* finished in the end; and no tool call is pending beside a message.
PendingInv ==
  /\ ItemAt(currentReasoning) \cup ItemAt(currentText) \subseteq Pending
  /\ \A i \in Pending : \/ ItemSource(items, i) \in ToolIndexes
                        \/ i \in ItemAt(currentReasoning) \cup ItemAt(currentText)
  /\ currentText # Nil => \A i \in Pending : ItemSource(items, i) \notin ToolIndexes
  /\ status = "completed" => Pending = {}

\* An item holds pieces of its own source, and every piece is in some item.
ContentInv ==
  /\ \A i \in Positions : ItemContent(items, i) \subseteq 1..received[ItemSource(items, i)]
  /\ \A s \in Sources : \A n \in 1..received[s] :
       \E i \in Positions : ItemSource(items, i) = s /\ n \in ItemContent(items, i)

\* output lists each done item once.
OutputInv == Lists(output, Positions \ Pending)

\* The ids of messages have numbers of their own, below the next one.
IdInv ==
  /\ \A i \in Positions : ItemPrefix(items, i) = ItemSource(items, i)
  /\ \A i \in Positions :
       ItemSource(items, i) = "text" => ItemNumber(items, i) < nextMessageIndex
  /\ \A i, j \in Positions :
       /\ ItemSource(items, i) = "text" /\ ItemSource(items, j) = "text"
       /\ ItemNumber(items, i) = ItemNumber(items, j)
       => i = j

\* For an ordered upstream the done items are the first ones, in order, and
\* only the first item is reasoning, pending only while it is the last one.
OrderInv ==
  ordered =>
    /\ \A j \in 1..Len(output) : output[j] = j
    /\ \A i \in Positions : ItemSource(items, i) = "reasoning" => i = 1
    /\ currentReasoning # Nil => currentReasoning = Len(items)

\* It implies every property of the module.
Inv == TypeOK /\ PointersInv /\ PendingInv /\ ContentInv /\ OutputInv /\ IdInv /\ OrderInv

-----------------------------------------------------------------------------
(***************************************************************************)
(* What Reasoning, Text and ToolCall have in common.                       *)
(***************************************************************************)

\* The items that a part of source finishes: first these ...
First(source) == IF source = "reasoning" THEN {} ELSE ItemAt(currentReasoning)

\* ... and then these.
Second(source) ==
  IF source = "reasoning" THEN {}
  ELSE IF source = "text" THEN OpenTools ELSE ItemAt(currentText)

\* The number in the id of a new item of source.
Number(source) == IF source = "text" THEN nextMessageIndex ELSE 0

\* What the upstream has sent is what goes to the client.
Arrived(source, pieces) ==
  \/ pieces = {} /\ received' = received
  \/ /\ received[source] < MaxFragments
     /\ received' = [received EXCEPT ![source] = @ + 1]
     /\ pieces = {Piece(source)}

\* The handler's positions after it has sent something to the item at p.
Pointed(p, source) ==
  /\ currentReasoning' = IF source = "reasoning" THEN p ELSE Nil
  /\ currentText' = IF source = "text" THEN p
                    ELSE IF source = "reasoning" THEN currentText ELSE Nil
  /\ toolItems' = [k \in ToolIndexes |-> toolItems'[k]]
  /\ \A k \in ToolIndexes :
       \/ toolItems'[k] = toolItems[k]
       \/ source = k /\ toolItems[k] = Nil
  /\ source \in ToolIndexes => toolItems'[source] = p
  /\ source \notin ToolIndexes /\ p \in Positions => p \in Pending
  /\ source = "reasoning" /\ p \notin Positions => currentReasoning = Nil
  /\ source = "text" /\ p \notin Positions => currentText = Nil

\* The rest of the handler's state.
Told(p, source) ==
  /\ status = "streaming" /\ status' = status
  /\ gotChunk' = TRUE
  /\ nextMessageIndex' = IF source = "text" /\ p \notin Positions
                         THEN nextMessageIndex + 1 ELSE nextMessageIndex
  /\ ordered' = /\ ordered
                /\ source = "reasoning" => currentReasoning = Len(items)
                /\ source \in ToolIndexes => InRow(source)

\* The items of the other kinds are finished and the pieces go to the item at p.
Sends(p, source, pieces) ==
  /\ p \in 1..(Len(items) + 1)
  /\ Grown(items, items', First(source) \cup Second(source), p, source, Number(source),
           pieces)
  /\ output' = output \o InOrder(First(source)) \o InOrder(Second(source))
  /\ Pointed(p, source)
  /\ Told(p, source)
  /\ Arrived(source, pieces)

\* The tool calls finishTools finds are the pending ones.
LEMMA OpenToolsPending ==
  ASSUME Inv
  PROVE  OpenTools = {i \in Pending : ItemSource(items, i) \in ToolIndexes}
<1>1. \A k \in ToolIndexes : toolItems[k] # Nil => toolItems[k] \in Positions
  BY DEF Inv, TypeOK
<1>2. \A i \in Positions : ItemSource(items, i) \in ToolIndexes => toolItems[ItemSource(items, i)] = i
  BY DEF Inv, PointersInv
<1>3. \A k \in ToolIndexes : toolItems[k] # Nil => ItemSource(items, toolItems[k]) = k
  BY DEF Inv, PointersInv
<1>4. OpenTools \subseteq {i \in Pending : ItemSource(items, i) \in ToolIndexes}
  BY <1>1, <1>3 DEF OpenTools, Pending, ItemDones
<1>5. ASSUME NEW i \in Pending, ItemSource(items, i) \in ToolIndexes
      PROVE  i \in OpenTools
  BY <1>2, <1>5 DEF OpenTools, Pending, ItemDones, Positions, Nil
<1> QED
  BY <1>4, <1>5

\* A part finishes pending items, each once.
LEMMA ClosingPending ==
  ASSUME Inv, NEW source \in Sources
  PROVE  /\ First(source) \subseteq Pending /\ Second(source) \subseteq Pending
         /\ First(source) \cap Second(source) = {}
<1>1. OpenTools \subseteq Pending /\ \A i \in OpenTools : ItemSource(items, i) \in ToolIndexes
  BY OpenToolsPending
<1>2. /\ ItemAt(currentReasoning) \subseteq Pending /\ ItemAt(currentText) \subseteq Pending
      /\ \A i \in ItemAt(currentReasoning) : ItemSource(items, i) = "reasoning"
      /\ \A i \in ItemAt(currentText) : ItemSource(items, i) = "text"
  BY DEF Inv, PendingInv, PointersInv
<1> QED
  BY <1>1, <1>2, SourcesAssumption DEF First, Second

\* The items a step ends with, with and without a delta, when the handler has
\* an item of source ...
LEMMA SentOld ==
  ASSUME Inv, NEW source \in Sources, NEW p \in Positions, ItemSource(items, p) = source,
         NEW pieces, NEW sent,
         \/ pieces = {} /\ sent = Done(items, First(source) \cup Second(source))
         \/ /\ pieces = {Piece(source)} /\ received[source] < MaxFragments
            /\ sent = Delta(Done(items, First(source) \cup Second(source)), p, Piece(source))
  PROVE  Grown(items, sent, First(source) \cup Second(source), p, source, Number(source),
               pieces)
<1> DEFINE ps == First(source) \cup Second(source)
           closed == Done(items, ps)
<1>1. items \in Seq(Item) /\ Len(items) \in Nat /\ received[source] \in 0..MaxFragments
  BY LenProperties DEF Inv, TypeOK, Item
<1>2. \A i \in 1..Len(items) : i \in ps => ItemDones(items, i) = 0
  BY ClosingPending DEF Pending
<1>3. received[source] < MaxFragments => Piece(source) \in 1..MaxFragments
  BY <1>1, SourcesAssumption DEF Piece
<1>4. p \in 1..Len(items) /\ p \in 1..(Len(items) + 1)
  BY <1>1 DEF Positions
<1> HIDE DEF ps
<1>5. Grown(items, closed, ps, p, source, Number(source), {})
  BY <1>1, <1>2, <1>4, GrownOld
<1> HIDE DEF closed
<1>6. received[source] < MaxFragments =>
        Grown(items, Delta(closed, p, Piece(source)), ps, p, source, Number(source),
              {Piece(source)})
  BY <1>1, <1>3, <1>4, <1>5, GrownPiece
<1> QED
  BY <1>5, <1>6 DEF closed, ps

\* ... and when it has none.
LEMMA SentNew ==
  ASSUME Inv, NEW source \in Sources, NEW pieces, NEW sent,
         \/ /\ pieces = {}
            /\ sent = Added(Done(items, First(source) \cup Second(source)), source,
                            Number(source))
         \/ /\ pieces = {Piece(source)} /\ received[source] < MaxFragments
            /\ sent = Delta(Added(Done(items, First(source) \cup Second(source)), source,
                                  Number(source)), Len(items) + 1, Piece(source))
  PROVE  Grown(items, sent, First(source) \cup Second(source), Len(items) + 1, source,
               Number(source), pieces)
<1> DEFINE ps == First(source) \cup Second(source)
           added == Added(Done(items, ps), source, Number(source))
           p == Len(items) + 1
<1>1. items \in Seq(Item) /\ Len(items) \in Nat /\ received[source] \in 0..MaxFragments
  BY LenProperties DEF Inv, TypeOK, Item
<1>2. \A i \in 1..Len(items) : i \in ps => ItemDones(items, i) = 0
  BY ClosingPending DEF Pending, Positions
<1>3. received[source] < MaxFragments => Piece(source) \in 1..MaxFragments
  BY <1>1, SourcesAssumption DEF Piece
<1>4. p \in 1..(Len(items) + 1) /\ Number(source) \in Nat
  BY <1>1 DEF Number, Inv, TypeOK
<1> HIDE DEF ps
<1>5. Grown(items, added, ps, p, source, Number(source), {})
  BY <1>1, <1>2, <1>4, GrownNew
<1> HIDE DEF added, p
<1>6. received[source] < MaxFragments =>
        Grown(items, Delta(added, p, Piece(source)), ps, p, source, Number(source),
              {Piece(source)})
  BY <1>1, <1>3, <1>4, <1>5, GrownPiece
<1> QED
  BY <1>5, <1>6 DEF added, ps, p

\* Finishing nothing lists nothing.
LEMMA ListNothing == InOrder({}) = <<>>
<1>1. {} \in SUBSET (1..0)
  OBVIOUS
<1> QED
  BY <1>1, InOrderLists, ListsNone

\* Reasoning goes to the reasoning item or a new one and finishes nothing.
LEMMA ReasoningSends ==
  ASSUME Inv, Reasoning
  PROVE  \E p, pieces : Sends(p, "reasoning", pieces)
<1> DEFINE src == "reasoning"
           pieces == {Piece(src)}
<1>1. /\ src \in Sources /\ src \notin ToolIndexes /\ Len(items) \in Nat
      /\ items \in Seq(Item) /\ output \in Seq(Positions)
      /\ toolItems = [k \in ToolIndexes |-> toolItems[k]]
  BY LenProperties, SourcesAssumption DEF Sources, Inv, TypeOK, Item
<1>2. Arrived(src, pieces) /\ received[src] < MaxFragments
  BY DEF Reasoning, Arrive, Arrived
<1>3. First(src) = {} /\ Second(src) = {} /\ Number(src) = 0
  BY DEF First, Second, Number
<1>4. output' = output \o InOrder(First(src)) \o InOrder(Second(src))
  <2>1. output' = output
    BY DEF Reasoning
  <2>2. output \o <<>> \o <<>> = output
    BY <1>1, ConcatEmptySeq
  <2> QED
    BY <1>3, <2>1, <2>2, ListNothing
<1>5. Done(items, First(src) \cup Second(src)) = items
  BY <1>1, <1>3, DoneNone
<1>6. ASSUME NEW p PROVE Told(p, src)
  BY <1>1 DEF Told, Reasoning, Arrive, Inv, TypeOK
<1>7. CASE currentReasoning # Nil
  <2> DEFINE p == currentReasoning
  <2>1. p \in Positions /\ p \in Pending /\ ItemSource(items, p) = src
    BY <1>7 DEF Inv, TypeOK, PointersInv, PendingInv, ItemAt
  <2>2. /\ items' = Delta(items, p, Piece(src)) /\ currentReasoning' = p
        /\ currentText' = currentText /\ toolItems' = toolItems
    BY <1>7 DEF Reasoning
  <2> HIDE DEF p, src
  <2>3. Grown(items, items', First(src) \cup Second(src), p, src, Number(src), pieces)
    BY <1>1, <1>2, <1>5, <2>1, <2>2, SentOld
  <2>4. Pointed(p, src)
    BY <1>1, <2>1, <2>2 DEF Pointed, src
  <2>5. p \in 1..(Len(items) + 1)
    BY <1>1, <2>1 DEF Positions
  <2>6. Sends(p, src, pieces)
    BY <1>2, <1>4, <1>6, <2>3, <2>4, <2>5 DEF Sends
  <2> QED
    BY <2>6 DEF src
<1>8. CASE currentReasoning = Nil
  <2> DEFINE p == Len(items) + 1
  <2>1. /\ items' = Delta(Added(items, src, Number(src)), p, Piece(src)) /\ currentReasoning' = p
        /\ currentText' = currentText /\ toolItems' = toolItems
    BY <1>3, <1>8 DEF Reasoning
  <2>2. p \notin Positions /\ p \in 1..(Len(items) + 1)
    BY <1>1 DEF Positions
  <2> HIDE DEF src
  <2>3. Grown(items, items', First(src) \cup Second(src), p, src, Number(src), pieces)
    BY <1>1, <1>2, <1>5, <2>1, SentNew
  <2> HIDE DEF p
  <2>4. Pointed(p, src)
    BY <1>1, <1>8, <2>1, <2>2 DEF Pointed, src
  <2>5. Sends(p, src, pieces)
    BY <1>2, <1>4, <1>6, <2>2, <2>3, <2>4 DEF Sends
  <2> QED
    BY <2>5 DEF src
<1> QED
  BY <1>7, <1>8

\* Text goes to the message or a new one.
LEMMA TextSends ==
  ASSUME Inv, Text
  PROVE  \E p, pieces : Sends(p, "text", pieces)
<1> DEFINE src == "text"
           pieces == {Piece(src)}
           closed == Done(items, First(src) \cup Second(src))
<1>1. /\ src \in Sources /\ src \notin ToolIndexes /\ Len(items) \in Nat
      /\ toolItems = [k \in ToolIndexes |-> toolItems[k]]
  BY LenProperties, SourcesAssumption DEF Sources, Inv, TypeOK
<1>2. Arrived(src, pieces) /\ received[src] < MaxFragments
  BY DEF Text, Arrive, Arrived
<1>3. /\ First(src) = ItemAt(currentReasoning) /\ Second(src) = OpenTools
      /\ Number(src) = nextMessageIndex
  BY DEF First, Second, Number
<1>4. /\ output' = output \o InOrder(First(src)) \o InOrder(Second(src))
      /\ currentReasoning' = Nil /\ toolItems' = toolItems /\ ordered' = ordered
      /\ status = "streaming" /\ status' = status /\ gotChunk' = TRUE
  BY <1>3 DEF Text, Arrive
<1>5. CASE currentText # Nil
  <2> DEFINE p == currentText
  <2>1. p \in Positions /\ p \in Pending /\ ItemSource(items, p) = src
    BY <1>5 DEF Inv, TypeOK, PointersInv, PendingInv, ItemAt
  <2>2. /\ items' = Delta(closed, p, Piece(src))
        /\ currentText' = p /\ nextMessageIndex' = nextMessageIndex
    BY <1>3, <1>5 DEF Text
  <2>3. p \in 1..(Len(items) + 1)
    BY <1>1, <2>1 DEF Positions
  <2> HIDE DEF p, src
  <2>4. Grown(items, items', First(src) \cup Second(src), p, src, Number(src), pieces)
    BY <1>1, <1>2, <2>1, <2>2, SentOld
  <2>5. Pointed(p, src)
    BY <1>1, <1>4, <2>1, <2>2 DEF Pointed, src
  <2>6. Told(p, src)
    BY <1>1, <1>4, <2>1, <2>2 DEF Told, src, Inv, TypeOK
  <2>7. Sends(p, src, pieces)
    BY <1>2, <1>4, <2>3, <2>4, <2>5, <2>6 DEF Sends
  <2> QED
    BY <2>7 DEF src
<1>6. CASE currentText = Nil
  <2> DEFINE p == Len(items) + 1
  <2>1. /\ items' = Delta(Added(closed, src, Number(src)), p, Piece(src))
        /\ currentText' = p /\ nextMessageIndex' = nextMessageIndex + 1
    BY <1>3, <1>6 DEF Text
  <2>2. p \notin Positions /\ p \in 1..(Len(items) + 1)
    BY <1>1 DEF Positions
  <2> HIDE DEF src
  <2>3. Grown(items, items', First(src) \cup Second(src), p, src, Number(src), pieces)
    BY <1>1, <1>2, <2>1, SentNew
  <2> HIDE DEF p
  <2>4. Pointed(p, src)
    BY <1>1, <1>4, <1>6, <2>1, <2>2 DEF Pointed, src
  <2>5. Told(p, src)
    BY <1>1, <1>4, <2>1, <2>2 DEF Told, src, Inv, TypeOK
  <2>6. Sends(p, src, pieces)
    BY <1>2, <1>4, <2>2, <2>3, <2>4, <2>5 DEF Sends
  <2> QED
    BY <2>6 DEF src
<1> QED
  BY <1>5, <1>6

\* A fragment of tool call k goes to its item, done or not, or to a new one;
\* one without arguments sends no delta.
LEMMA ToolCallSends ==
  ASSUME Inv, NEW k \in ToolIndexes, ToolCall(k)
  PROVE  \E p, pieces : Sends(p, k, pieces)
<1> DEFINE closed == Done(items, First(k) \cup Second(k))
<1>1. /\ k \in Sources /\ k # "reasoning" /\ k # "text" /\ Len(items) \in Nat
      /\ toolItems \in [ToolIndexes -> Positions \cup {Nil}]
  BY LenProperties, SourcesAssumption DEF Sources, Inv, TypeOK
<1>2. /\ First(k) = ItemAt(currentReasoning) /\ Second(k) = ItemAt(currentText)
      /\ Number(k) = 0
  BY <1>1 DEF First, Second, Number
<1>3. PICK pieces : /\ Arrived(k, pieces)
                    /\ \/ pieces = {} /\ received'[k] = received[k]
                       \/ /\ pieces = {Piece(k)} /\ received'[k] # received[k]
                          /\ received[k] < MaxFragments
  <2>1. received \in [Sources -> 0..MaxFragments]
    BY DEF Inv, TypeOK
  <2>2. CASE received' = received
    BY <1>1, <2>1, <2>2 DEF Arrived
  <2>3. CASE Arrive(k)
    <3>1. received'[k] # received[k]
      BY <1>1, <2>1, <2>3, SourcesAssumption DEF Arrive
    <3> QED
      BY <2>3, <3>1 DEF Arrive, Arrived
  <2> QED
    BY <2>2, <2>3 DEF ToolCall
<1>4. /\ output' = output \o InOrder(First(k)) \o InOrder(Second(k))
      /\ currentReasoning' = Nil /\ currentText' = Nil
      /\ nextMessageIndex' = nextMessageIndex
      /\ status = "streaming" /\ status' = status /\ gotChunk' = TRUE
      /\ ordered' = (ordered /\ InRow(k))
  BY <1>2 DEF ToolCall, Arrive
<1>5. ASSUME NEW p PROVE Told(p, k)
  BY <1>1, <1>4 DEF Told
<1>6. CASE toolItems[k] # Nil
  <2> DEFINE p == toolItems[k]
  <2>1. p \in Positions /\ ItemSource(items, p) = k
    BY <1>6 DEF Inv, TypeOK, PointersInv
  <2>2. /\ toolItems' = toolItems
        /\ items' = IF received'[k] = received[k] THEN closed ELSE Delta(closed, p, Piece(k))
    BY <1>2, <1>6 DEF ToolCall
  <2>3. p \in 1..(Len(items) + 1)
    BY <1>1, <2>1 DEF Positions
  <2> HIDE DEF p
  <2>4. Grown(items, items', First(k) \cup Second(k), p, k, Number(k), pieces)
    <3>1. \/ pieces = {} /\ items' = closed
          \/ /\ pieces = {Piece(k)} /\ received[k] < MaxFragments
             /\ items' = Delta(closed, p, Piece(k))
      BY <1>3, <2>2
    <3> QED
      BY <1>1, <2>1, <3>1, SentOld
  <2>5. Pointed(p, k)
    BY <1>1, <1>4, <2>2 DEF Pointed, p
  <2>6. Sends(p, k, pieces)
    BY <1>3, <1>4, <1>5, <2>3, <2>4, <2>5 DEF Sends
  <2> QED
    BY <2>6
<1>7. CASE toolItems[k] = Nil
  <2> DEFINE p == Len(items) + 1
             added == Added(closed, k, Number(k))
  <2>1. /\ toolItems' = [toolItems EXCEPT ![k] = p]
        /\ items' = IF received'[k] = received[k] THEN added ELSE Delta(added, toolItems'[k], Piece(k))
    BY <1>2, <1>7 DEF ToolCall
  <2>2. p \in 1..(Len(items) + 1) /\ p \notin Positions
    BY <1>1 DEF Positions
  <2>3. /\ toolItems'[k] = p /\ \A l \in ToolIndexes : l # k => toolItems'[l] = toolItems[l]
        /\ toolItems' = [l \in ToolIndexes |-> toolItems'[l]]
    BY <1>1, <2>1
  <2>4. Grown(items, items', First(k) \cup Second(k), p, k, Number(k), pieces)
    <3>1. \/ pieces = {} /\ items' = added
          \/ /\ pieces = {Piece(k)} /\ received[k] < MaxFragments
             /\ items' = Delta(added, p, Piece(k))
      BY <1>3, <2>1, <2>3
    <3> QED
      BY <1>1, <3>1, SentNew
  <2> HIDE DEF p, added
  <2>5. Pointed(p, k)
    BY <1>1, <1>4, <1>7, <2>3 DEF Pointed
  <2>6. Sends(p, k, pieces)
    BY <1>3, <1>4, <1>5, <2>2, <2>4, <2>5 DEF Sends
  <2> QED
    BY <2>6
<1> QED
  BY <1>6, <1>7

-----------------------------------------------------------------------------
(***************************************************************************)
(* The order of the output, for an ordered upstream.                       *)
(***************************************************************************)

\* The done items come first.
LEMMA PendingAbove ==
  ASSUME Inv, ordered
  PROVE  /\ Len(output) \in Nat /\ Len(items) \in Nat /\ Len(output) <= Len(items)
         /\ Pending = (Len(output) + 1)..Len(items)
<1>1. Len(output) \in Nat /\ Len(items) \in Nat
  BY LenProperties DEF Inv, TypeOK
<1>2. /\ output \in Seq(Positions \ Pending)
      /\ \A i \in Positions \ Pending : \E j \in 1..Len(output) : output[j] = i
      /\ \A j \in 1..Len(output) : output[j] = j
  BY DEF Inv, OutputInv, Lists, OrderInv
<1>3. \A j \in 1..Len(output) : j \in Positions \ Pending
  BY <1>2, ElementOfSeq
<1>4. ASSUME NEW i \in Positions PROVE i \notin Pending <=> i \in 1..Len(output)
  <2>1. ASSUME i \notin Pending PROVE i \in 1..Len(output)
    <3>1. PICK j \in 1..Len(output) : output[j] = i
      BY <1>2, <2>1
    <3> QED
      BY <1>2, <3>1
  <2> QED
    BY <1>3, <2>1
<1>5. Len(output) <= Len(items)
  BY <1>1, <1>3 DEF Positions
<1>6. \A i \in Pending : i \in Positions
  BY DEF Pending
<1>7. ASSUME NEW i PROVE i \in Pending <=> i \in (Len(output) + 1)..Len(items)
  <2>1. i \in Positions <=> i \in 1..Len(items)
    BY DEF Positions
  <2> QED
    BY <1>1, <1>4, <1>5, <1>6, <2>1
<1> QED
  BY <1>1, <1>5, <1>7

\* s counts 1, 2, 3, ...
Counts(s) == \A j \in 1..Len(s) : s[j] = j

\* When all that is pending is finished, output lists all items in order.
LEMMA OutputCounts ==
  ASSUME Inv, ordered, NEW t, t = output \o InOrder(Pending)
  PROVE  Len(t) = Len(items) /\ \A j \in 1..Len(t) : t[j] = j
<1> DEFINE s == InOrder(Pending)
           a == Len(output)
           n == Len(items)
<1>1. a \in Nat /\ n \in Nat /\ a <= n /\ Pending = (a + 1)..n
  BY PendingAbove
<1>2. Pending \in SUBSET (1..n)
  BY DEF Pending, Positions
<1> HIDE DEF a, n
<1>3. Lists(s, Pending) /\ Rising(s)
  BY <1>1, <1>2, InOrderLists
<1> HIDE DEF s
<1>4. Len(s) = n - a /\ \A i \in 1..Len(s) : s[i] = a + i
  BY <1>1, <1>3, RisingInterval
<1>5. output \in Seq(Positions) /\ s \in Seq(Positions)
  <2>1. s \in Seq(Pending) /\ Pending \subseteq Positions
    BY <1>3 DEF Lists, Pending
  <2> QED
    BY <2>1, SeqMonotonic DEF Inv, TypeOK
<1>6. /\ Len(t) = a + Len(s)
      /\ \A j \in 1..(a + Len(s)) : t[j] = IF j <= a THEN output[j] ELSE s[j - a]
  BY <1>5, ConcatProperties DEF a, s
<1>7. Len(t) = n
  BY <1>1, <1>4, <1>6
<1>8. ASSUME NEW j \in 1..Len(t) PROVE t[j] = j
  <2>1. CASE j <= a
    <3>1. t[j] = output[j] /\ j \in 1..a
      BY <1>1, <1>4, <1>6, <1>7, <2>1
    <3> QED
      BY <3>1 DEF a, Inv, OrderInv
  <2>2. CASE ~(j <= a)
    <3>1. t[j] = s[j - a] /\ j - a \in 1..Len(s) /\ j = a + (j - a)
      BY <1>1, <1>4, <1>6, <1>7, <2>2
    <3> QED
      BY <1>4, <3>1
  <2> QED
    BY <2>1, <2>2
<1> QED
  BY <1>7, <1>8 DEF n

\* One kind is pending: the reasoning, the message, or tool calls.
LEMMA OneKindPending ==
  ASSUME Inv, ordered
  PROVE  /\ currentReasoning # Nil => Pending = ItemAt(currentReasoning)
         /\ currentText # Nil => Pending = ItemAt(currentText)
         /\ currentReasoning # Nil /\ currentText # Nil => FALSE
         /\ currentReasoning = Nil /\ currentText = Nil => Pending = OpenTools
<1>1. /\ ItemAt(currentReasoning) \subseteq Pending /\ ItemAt(currentText) \subseteq Pending
      /\ \A i \in Pending : \/ ItemSource(items, i) \in ToolIndexes
                            \/ i \in ItemAt(currentReasoning)
                            \/ i \in ItemAt(currentText)
      /\ currentText # Nil => \A i \in Pending : ItemSource(items, i) \notin ToolIndexes
      /\ Pending \subseteq 1..Len(items)
  BY DEF Inv, PendingInv, Pending, Positions
<1>2. ASSUME currentReasoning # Nil PROVE Pending = ItemAt(currentReasoning)
  <2>1. currentReasoning = 1 /\ Len(items) = 1
    <3>1. ItemSource(items, currentReasoning) = "reasoning" /\ currentReasoning \in Positions
      BY <1>2 DEF Inv, TypeOK, PointersInv, ItemAt
    <3> QED
      BY <1>2, <3>1 DEF Inv, OrderInv
  <2>2. Pending \subseteq {1} /\ {1} \subseteq Pending /\ ItemAt(currentReasoning) = {1}
    BY <1>1, <2>1 DEF ItemAt, Nil
  <2> QED
    BY <2>2
<1>3. ASSUME currentReasoning # Nil, currentText # Nil PROVE FALSE
  <2>1. currentReasoning = currentText
    BY <1>1, <1>2, <1>3 DEF ItemAt
  <2>2. /\ ItemSource(items, currentReasoning) = "reasoning"
        /\ ItemSource(items, currentText) = "text"
    BY <1>3 DEF Inv, PointersInv, ItemAt
  <2> QED
    BY <2>1, <2>2
<1>4. ASSUME currentText # Nil PROVE Pending = ItemAt(currentText)
  BY <1>1, <1>3, <1>4 DEF ItemAt
<1>5. ASSUME currentReasoning = Nil, currentText = Nil PROVE Pending = OpenTools
  BY <1>1, <1>5, OpenToolsPending DEF ItemAt
<1> QED
  BY <1>2, <1>3, <1>4, <1>5

\* The done items of a step are listed behind those that were done before.
LEMMA ListsMore ==
  ASSUME Inv, NEW A, NEW B, A \subseteq Pending, B \subseteq Pending, A \cap B = {},
         NEW out, Lists(out, Positions \ Pending)
  PROVE  Lists(out \o InOrder(A) \o InOrder(B), (Positions \ Pending) \cup A \cup B)
<1>1. Len(items) \in Nat /\ A \in SUBSET (1..Len(items)) /\ B \in SUBSET (1..Len(items))
  BY LenProperties DEF Inv, TypeOK, Pending, Positions
<1>2. Lists(InOrder(A), A) /\ Lists(InOrder(B), B)
  BY <1>1, InOrderLists
<1>3. Lists(out \o InOrder(A), (Positions \ Pending) \cup A)
  BY <1>2, ListsConcat
<1>4. ((Positions \ Pending) \cup A) \cap B = {}
  OBVIOUS
<1> QED
  BY <1>2, <1>3, <1>4, ListsConcat

\* A and B are together all that is pending, or nothing.
Whole(A, B) == \/ A = {} /\ B = {}
               \/ A = Pending /\ B = {}
               \/ A = {} /\ B = Pending

\* For an ordered upstream a step finishes all that is open, or nothing.
LEMMA AllOrNothing ==
  ASSUME Inv, ordered, NEW source \in Sources
  PROVE  Whole(First(source), Second(source))
<1> USE DEF Whole
<1>1. First(source) \cap Second(source) = {} /\ Second(source) \subseteq Pending
  BY ClosingPending
<1>2. CASE source = "reasoning"
  BY <1>2 DEF First, Second
<1>3. CASE source # "reasoning" /\ currentReasoning # Nil
  <2>1. First(source) = Pending
    BY <1>3, OneKindPending DEF First
  <2> QED
    BY <1>1, <2>1
<1>4. CASE source # "reasoning" /\ currentReasoning = Nil
  <2>1. First(source) = {}
    BY <1>4 DEF First, ItemAt
  <2>2. CASE source = "text" /\ currentText = Nil
    BY <1>4, <2>1, <2>2, OneKindPending DEF Second
  <2>3. CASE source = "text" /\ currentText # Nil
    <3>1. OpenTools = {}
      BY <2>3, OpenToolsPending DEF Inv, PendingInv
    <3> QED
      BY <2>1, <2>3, <3>1 DEF Second
  <2>4. CASE source # "text"
    <3>1. Second(source) = ItemAt(currentText)
      BY <1>4, <2>4 DEF Second
    <3>2. CASE currentText = Nil
      BY <2>1, <3>1, <3>2 DEF ItemAt
    <3>3. CASE currentText # Nil
      BY <2>1, <3>1, <3>3, OneKindPending
    <3> QED
      BY <3>2, <3>3
  <2> QED
    BY <2>2, <2>3, <2>4
<1> QED
  BY <1>2, <1>3, <1>4

\* Finishing all that is pending, or nothing, keeps output in order.
LEMMA OrderedOutput ==
  ASSUME Inv, ordered, NEW A, NEW B, Whole(A, B),
         NEW out, out = output \o InOrder(A) \o InOrder(B)
  PROVE  Counts(out)
<1>1. output \in Seq(Positions) /\ InOrder(Pending) \in Seq(Positions)
  <2>1. Len(items) \in Nat /\ Pending \in SUBSET (1..Len(items))
    BY LenProperties DEF Inv, TypeOK, Pending, Positions
  <2>2. InOrder(Pending) \in Seq(Pending) /\ Pending \subseteq Positions
    BY <2>1, InOrderLists DEF Lists, Pending
  <2> QED
    BY <2>2, SeqMonotonic DEF Inv, TypeOK
<1>2. output \o InOrder(Pending) \in Seq(Positions)
  BY <1>1, ConcatProperties
<1>3. out = output \/ out = output \o InOrder(Pending)
  <2>1. /\ output \o <<>> = output
        /\ (output \o InOrder(Pending)) \o <<>> = output \o InOrder(Pending)
    BY <1>1, <1>2, ConcatEmptySeq
  <2> QED
    BY <2>1, ListNothing DEF Whole
<1>4. CASE out = output
  BY <1>4 DEF Inv, OrderInv, Counts
<1>5. CASE out = output \o InOrder(Pending)
  BY <1>5, OutputCounts DEF Counts
<1> QED
  BY <1>3, <1>4, <1>5

(***************************************************************************)
(* Every step keeps the invariant.                                         *)
(***************************************************************************)

\* Reasoning, Text and ToolCall keep the invariant.
LEMMA SendsKeepsInv ==
  ASSUME Inv, NEW source \in Sources, NEW p, NEW pieces, Sends(p, source, pieces)
  PROVE  Inv'
<1> DEFINE ps == First(source) \cup Second(source)
<1>1. /\ items \in Seq(Item) /\ Positions = 1..Len(items) /\ Positions' = 1..Len(items')
      /\ p # Nil
  BY DEF Inv, TypeOK, Item, Positions, Sends, Nil
<1>2. /\ items' \in Seq(Item) /\ Len(items) \in Nat /\ Len(items') \in Nat
      /\ Positions' = Positions \cup {p}
      /\ ItemSource(items', p) = source
      /\ p \notin Positions =>
           /\ ItemPrefix(items', p) = source /\ ItemNumber(items', p) = Number(source)
           /\ ItemContent(items', p) = pieces /\ ItemDones(items', p) = 0
      /\ \A i \in Positions :
           /\ ItemSource(items', i) = ItemSource(items, i)
           /\ ItemPrefix(items', i) = ItemPrefix(items, i)
           /\ ItemNumber(items', i) = ItemNumber(items, i)
           /\ ItemDones(items', i) = IF i \in ps THEN 1 ELSE ItemDones(items, i)
           /\ i # p => ItemContent(items', i) = ItemContent(items, i)
      /\ p \in Positions => ItemContent(items', p) = ItemContent(items, p) \cup pieces
  BY <1>1 DEF Sends, Grown, Kept
<1>3. Pending' = (Pending \ ps) \cup ({p} \ Positions)
  BY <1>2 DEF Pending
<1>4. /\ Pointed(p, source) /\ Told(p, source) /\ Arrived(source, pieces)
      /\ output' = output \o InOrder(First(source)) \o InOrder(Second(source))
  BY DEF Sends
<1>5. /\ First(source) \subseteq Pending /\ Second(source) \subseteq Pending
      /\ First(source) \cap Second(source) = {}
  BY ClosingPending
<1>6. OutputInv'
  <2>1. Lists(output', (Positions \ Pending) \cup First(source) \cup Second(source))
    BY <1>4, <1>5, ListsMore DEF Inv, OutputInv
  <2>2. Pending \subseteq Positions
    BY DEF Pending
  <2>3. (Positions \ Pending) \cup First(source) \cup Second(source) = Positions' \ Pending'
    BY <1>2, <1>3, <1>5, <2>2
  <2> QED
    BY <2>1, <2>3 DEF OutputInv
<1>7. TypeOK'
  <2>1. /\ currentReasoning' \in Positions' \cup {Nil}
        /\ currentText' \in Positions' \cup {Nil}
    BY <1>2, <1>4 DEF Pointed, Inv, TypeOK
  <2>2. toolItems' \in [ToolIndexes -> Positions' \cup {Nil}]
    <3>1. \A k \in ToolIndexes : toolItems'[k] \in Positions' \cup {Nil}
      BY <1>2, <1>4 DEF Pointed, Inv, TypeOK
    <3> QED
      BY <1>4, <3>1 DEF Pointed
  <2>3. received' \in [Sources -> 0..MaxFragments]
    BY SMTT(30), <1>4, SourcesAssumption DEF Arrived, Inv, TypeOK
  <2>4. output' \in Seq(Positions')
    <3>1. output' \in Seq(Positions' \ Pending')
      BY <1>6 DEF OutputInv, Lists
    <3> QED
      BY <3>1, SeqMonotonic
  <2>5. /\ gotChunk' \in BOOLEAN /\ ordered' \in BOOLEAN /\ nextMessageIndex' \in Nat
        /\ status' \in {"streaming", "completed", "failed"}
    BY <1>4 DEF Told, Inv, TypeOK
  <2> QED
    BY <1>2, <2>1, <2>2, <2>3, <2>4, <2>5 DEF TypeOK, Item
<1>8. PointersInv'
  <2>1. \A i \in ItemAt(currentReasoning') : ItemSource(items', i) = "reasoning"
    BY <1>2, <1>4 DEF Pointed, ItemAt
  <2>2. \A i \in ItemAt(currentText') : ItemSource(items', i) = "text"
    <3>1. \A i \in ItemAt(currentText) : i \in Positions /\ ItemSource(items, i) = "text"
      BY DEF Inv, PointersInv, TypeOK, ItemAt
    <3> QED
      BY <1>2, <1>4, <3>1 DEF Pointed, ItemAt
  <2>3. ASSUME NEW k \in ToolIndexes, toolItems'[k] # Nil
        PROVE  ItemSource(items', toolItems'[k]) = k
    <3>1. CASE source = k
      BY <1>2, <1>4, <3>1 DEF Pointed
    <3>2. CASE source # k
      BY <1>2, <1>4, <2>3, <3>2 DEF Pointed, Inv, PointersInv, TypeOK
    <3> QED
      BY <3>1, <3>2
  <2>4. ASSUME NEW i \in Positions', ItemSource(items', i) \in ToolIndexes
        PROVE  toolItems'[ItemSource(items', i)] = i
    <3>1. CASE i = p
      BY <1>2, <1>4, <2>4, <3>1 DEF Pointed
    <3>2. CASE i # p
      <4>1. i \in Positions /\ ItemSource(items', i) = ItemSource(items, i) /\ i # Nil
        BY <1>1, <1>2, <3>2 DEF Nil
      <4> QED
        BY <1>4, <2>4, <4>1 DEF Pointed, Inv, PointersInv
    <3> QED
      BY <3>1, <3>2
  <2> QED
    BY <2>1, <2>2, <2>3, <2>4 DEF PointersInv
<1>9. PendingInv'
  <2>1. /\ ItemAt(currentReasoning) \cup ItemAt(currentText) \subseteq Pending
        /\ \A i \in Pending : \/ ItemSource(items, i) \in ToolIndexes
                              \/ i \in ItemAt(currentReasoning)
                              \/ i \in ItemAt(currentText)
        /\ currentText # Nil => \A i \in Pending : ItemSource(items, i) \notin ToolIndexes
    BY DEF Inv, PendingInv
  <2>2. /\ \A i \in Pending : i \in Positions /\ ItemSource(items', i) = ItemSource(items, i)
        /\ \A i \in ItemAt(currentReasoning) : ItemSource(items, i) = "reasoning"
        /\ \A i \in ItemAt(currentText) : ItemSource(items, i) = "text"
    BY <1>2 DEF Pending, Inv, PointersInv
  <2>3. CASE source = "reasoning"
    <3>1. ps = {} /\ source \notin ToolIndexes
      BY <2>3, SourcesAssumption DEF First, Second
    <3>2. ItemAt(currentReasoning') = {p} /\ currentText' = currentText
      BY <1>1, <1>4, <2>3 DEF Pointed, ItemAt
    <3>3. p \in Pending'
      BY <1>3, <1>4, <3>1 DEF Pointed
    <3>4. \A i \in ItemAt(currentReasoning) : i = p
      <4>1. p \in Positions => p \in ItemAt(currentReasoning)
        BY <1>2, <1>4, <2>1, <2>2, <2>3, <3>1 DEF Pointed
      <4> QED
        BY <1>4, <2>3, <4>1 DEF Pointed, ItemAt
    <3> HIDE DEF ps
    <3>5. \A i \in Pending' : \/ ItemSource(items', i) \in ToolIndexes
                              \/ i \in ItemAt(currentReasoning') \cup ItemAt(currentText')
      BY <1>3, <2>1, <2>2, <3>1, <3>2, <3>4
    <3>6. currentText' # Nil => \A i \in Pending' : ItemSource(items', i) \notin ToolIndexes
      BY <1>2, <1>3, <2>1, <2>2, <3>1, <3>2
    <3>7. ItemAt(currentReasoning') \cup ItemAt(currentText') \subseteq Pending'
      BY <1>3, <2>1, <3>1, <3>2, <3>3
    <3>8. status' # "completed"
      BY <1>4 DEF Told
    <3> QED
      BY <3>5, <3>6, <3>7, <3>8 DEF PendingInv
  <2>4. CASE source = "text"
    <3>1. ps = ItemAt(currentReasoning) \cup {i \in Pending : ItemSource(items, i) \in ToolIndexes}
      BY <2>4, OpenToolsPending DEF First, Second
    <3>2. ItemAt(currentReasoning') = {} /\ ItemAt(currentText') = {p} /\ source \notin ToolIndexes
      BY <1>1, <1>4, <2>4, SourcesAssumption DEF Pointed, ItemAt
    <3>3. p \in Pending'
      BY <1>2, <1>3, <1>4, <2>2, <2>4, <3>1, <3>2 DEF Pointed
    <3> HIDE DEF ps
    <3>4. ASSUME NEW i \in Pending' PROVE i = p
      <4>1. CASE i \in Pending
        <5>1. i \in ItemAt(currentText)
          BY <1>3, <2>1, <2>2, <3>1, <3>4, <4>1
        <5>2. p \in Positions
          BY <1>4, <2>4, <5>1 DEF Pointed, ItemAt
        <5>3. p \in Pending /\ ItemSource(items, p) = "text"
          BY <1>2, <1>4, <2>4, <3>2, <5>2 DEF Pointed
        <5>4. p \in ItemAt(currentText)
          BY <2>1, <2>2, <2>4, <3>2, <5>3
        <5> QED
          BY <5>1, <5>4 DEF ItemAt
      <4> QED
        BY <1>3, <3>4, <4>1
    <3>5. status' # "completed" /\ ItemSource(items', p) \notin ToolIndexes
      BY <1>2, <1>4, <3>2 DEF Told
    <3> QED
      BY <3>2, <3>3, <3>4, <3>5 DEF PendingInv
  <2>5. CASE source \in ToolIndexes
    <3>1. ps = ItemAt(currentReasoning) \cup ItemAt(currentText)
      BY <2>5, SourcesAssumption DEF First, Second
    <3>2. currentReasoning' = Nil /\ currentText' = Nil
      BY <1>4, <2>5, SourcesAssumption DEF Pointed
    <3> HIDE DEF ps
    <3>3. \A i \in Pending' : ItemSource(items', i) \in ToolIndexes
      BY <1>2, <1>3, <2>1, <2>2, <2>5, <3>1
    <3>4. status' # "completed"
      BY <1>4 DEF Told
    <3> QED
      BY <3>2, <3>3, <3>4 DEF PendingInv, ItemAt
  <2> QED
    BY <2>3, <2>4, <2>5 DEF Sources
<1>10. ContentInv'
  <2>1. received \in [Sources -> 0..MaxFragments] /\ MaxFragments \in Nat
    BY SourcesAssumption DEF Inv, TypeOK
  <2>2. \A i \in Positions : ItemSource(items, i) \in Sources
    BY <1>1, ItemFields
  <2>3. pieces \subseteq 1..received'[source]
    BY <1>4, <2>1 DEF Arrived, Piece
  <2>4. \A s \in Sources : 1..received[s] \subseteq 1..received'[s]
    BY <1>4, <2>1 DEF Arrived
  <2>5. ASSUME NEW s \in Sources, NEW n \in 1..received'[s]
        PROVE  n \in 1..received[s] \/ (s = source /\ n \in pieces)
    <3>1. received[s] \in Nat
      BY <2>1
    <3>2. \/ received'[s] = received[s]
          \/ s = source /\ received'[s] = received[s] + 1 /\ pieces = {received[s] + 1}
      BY <1>4, <2>1 DEF Arrived, Piece
    <3> QED
      BY <3>1, <3>2
  <2>6. ASSUME NEW i \in Positions'
        PROVE  ItemContent(items', i) \subseteq 1..received'[ItemSource(items', i)]
    <3>1. CASE i \in Positions
      <4>1. ItemContent(items, i) \subseteq 1..received'[ItemSource(items, i)]
        BY <2>2, <2>4, <3>1 DEF Inv, ContentInv
      <4> QED
        BY <1>2, <2>3, <3>1, <4>1
    <3>2. CASE i \notin Positions
      BY <1>2, <2>3, <3>2
    <3> QED
      BY <3>1, <3>2
  <2>7. ASSUME NEW s \in Sources, NEW n \in 1..received'[s]
        PROVE  \E i \in Positions' : ItemSource(items', i) = s /\ n \in ItemContent(items', i)
    <3>1. CASE n \in 1..received[s]
      <4>1. PICK i \in Positions : ItemSource(items, i) = s /\ n \in ItemContent(items, i)
        BY <3>1 DEF Inv, ContentInv
      <4>2. ItemSource(items', i) = s /\ n \in ItemContent(items', i)
        BY <1>2, <4>1
      <4> QED
        BY <1>2, <4>2
    <3>2. CASE s = source /\ n \in pieces
      BY <1>2, <3>2
    <3> QED
      BY <2>5, <3>1, <3>2
  <2> QED
    BY <2>6, <2>7 DEF ContentInv
<1>11. IdInv'
  <2>1. nextMessageIndex \in Nat /\ \A i \in Positions : ItemNumber(items, i) \in Nat
    BY <1>1, ItemFields DEF Inv, TypeOK
  <2>2. /\ nextMessageIndex' \in Nat /\ nextMessageIndex <= nextMessageIndex'
        /\ source = "text" /\ p \notin Positions =>
             Number(source) = nextMessageIndex /\ nextMessageIndex < nextMessageIndex'
    BY <1>4, <2>1 DEF Told, Number
  <2>3. \A i \in Positions' : ItemPrefix(items', i) = ItemSource(items', i)
    BY <1>2 DEF Inv, IdInv
  <2>4. ASSUME NEW i \in Positions', ItemSource(items', i) = "text"
        PROVE  ItemNumber(items', i) < nextMessageIndex'
    <3>1. CASE i \in Positions
      BY <1>2, <2>1, <2>2, <2>4, <3>1 DEF Inv, IdInv
    <3>2. CASE i \notin Positions
      BY <1>2, <2>2, <2>4, <3>2
    <3> QED
      BY <3>1, <3>2
  <2>5. ASSUME NEW i \in Positions', NEW j \in Positions',
               ItemSource(items', i) = "text", ItemSource(items', j) = "text",
               ItemNumber(items', i) = ItemNumber(items', j)
        PROVE  i = j
    <3>1. CASE i \in Positions /\ j \in Positions
      BY <1>2, <2>5, <3>1 DEF Inv, IdInv
    <3>2. ASSUME NEW k \in Positions, p \notin Positions, source = "text",
                 ItemSource(items', k) = "text"
          PROVE  ItemNumber(items', k) # ItemNumber(items', p)
      <4>1. ItemNumber(items', k) < nextMessageIndex /\ ItemNumber(items', k) \in Nat
        BY <1>2, <2>1, <3>2 DEF Inv, IdInv
      <4> QED
        BY <1>2, <2>1, <2>2, <3>2, <4>1
    <3> QED
      BY <1>2, <2>5, <3>1, <3>2
  <2> QED
    BY <2>3, <2>4, <2>5 DEF IdInv
<1>12. OrderInv'
  <2> SUFFICES ASSUME ordered'
               PROVE  /\ \A j \in 1..Len(output') : output'[j] = j
                      /\ \A i \in Positions' : ItemSource(items', i) = "reasoning" => i = 1
                      /\ currentReasoning' # Nil => currentReasoning' = Len(items')
    BY DEF OrderInv
  <2>1. ordered /\ (source = "reasoning" => currentReasoning = Len(items))
    BY <1>4 DEF Told
  <2>2. \A j \in 1..Len(output') : output'[j] = j
    <3>1. Whole(First(source), Second(source))
      BY <2>1, AllOrNothing
    <3>2. output' = output \o InOrder(First(source)) \o InOrder(Second(source))
      BY <1>4
    <3>3. Counts(output')
      BY <2>1, <3>1, <3>2, OrderedOutput
    <3> QED
      BY <3>3 DEF Counts
  <2>3. source = "reasoning" /\ p \notin Positions => p = 1 /\ Len(items') = 1
    <3>1. source = "reasoning" /\ p \notin Positions => Len(items) = 0
      BY <1>4, <2>1 DEF Pointed, Nil
    <3>2. p \in 1..(Len(items) + 1)
      BY DEF Sends
    <3>3. ASSUME Len(items) = 0 PROVE p = 1 /\ Len(items') = 1
      <4>1. p = 1 /\ 1..Len(items') = {1}
        BY <1>1, <1>2, <3>2, <3>3
      <4>2. 1 \in 1..Len(items')
        BY <4>1
      <4>3. Len(items') \in 1..Len(items')
        BY <1>2, <4>2
      <4> QED
        BY <4>1, <4>3
    <3> QED
      BY <3>1, <3>3
  <2>4. \A i \in Positions' : ItemSource(items', i) = "reasoning" => i = 1
    BY <1>2, <2>1, <2>3 DEF Inv, OrderInv
  <2>5. currentReasoning' # Nil => currentReasoning' = Len(items')
    <3>1. ASSUME currentReasoning' # Nil PROVE source = "reasoning" /\ currentReasoning' = p
      BY <1>4, <3>1 DEF Pointed
    <3>2. ASSUME p \in Positions, source = "reasoning" PROVE p = Len(items) /\ Len(items') = Len(items)
      <4>1. p = 1
        BY <1>2, <2>4, <3>2
      <4>2. p \in Pending
        BY <1>4, <3>2, SourcesAssumption DEF Pointed
      <4>3. currentReasoning # Nil
        BY <1>1, <2>1, <3>2 DEF Nil
      <4>4. Positions' = Positions
        BY <1>2, <3>2
      <4>5. Len(items') = Len(items)
        BY <1>1, <1>2, <4>4
      <4> QED
        BY <2>1, <4>2, <4>3, <4>5, OneKindPending, <3>2 DEF ItemAt
    <3> QED
      BY <2>3, <3>1, <3>2
  <2> QED
    BY <2>2, <2>4, <2>5
<1> QED
  BY <1>6, <1>7, <1>8, <1>9, <1>10, <1>11, <1>12 DEF Inv

-----------------------------------------------------------------------------
\* In the end output lists every item, in order for an ordered upstream.
LEMMA CompleteOutput ==
  ASSUME Inv, Complete
  PROVE  /\ Lists(output', Positions)
         /\ ordered => \A j \in 1..Len(output') : output'[j] = j
<1> DEFINE A == ItemAt(currentReasoning)
           B == ItemAt(currentText)
           C == OpenTools
           out == output \o InOrder(A) \o InOrder(B)
<1>1. /\ A \subseteq Pending /\ B \subseteq Pending /\ C \subseteq Pending
      /\ \A i \in A : ItemSource(items, i) = "reasoning"
      /\ \A i \in B : ItemSource(items, i) = "text"
      /\ \A i \in C : ItemSource(items, i) \in ToolIndexes
      /\ \A i \in Pending : i \in A \cup B \cup C
  BY OpenToolsPending DEF Inv, PendingInv, PointersInv
<1>2. A \cap B = {} /\ (A \cup B) \cap C = {} /\ A \cup B \cup C = Pending
  BY <1>1, SourcesAssumption
<1>3. output' = out \o InOrder(C)
  BY DEF Complete
<1> HIDE DEF A, B, C
<1>4. Lists(output', Positions)
  <2>1. Lists(out, (Positions \ Pending) \cup A \cup B)
    BY <1>1, <1>2, ListsMore DEF Inv, OutputInv
  <2>2. Lists(InOrder(C), C)
    <3>1. Len(items) \in Nat /\ C \in SUBSET (1..Len(items))
      BY <1>1, LenProperties DEF Inv, TypeOK, Pending, Positions
    <3> QED
      BY <3>1, InOrderLists
  <2>3. ((Positions \ Pending) \cup A \cup B) \cap C = {}
    BY <1>1, <1>2
  <2> HIDE DEF out
  <2>4. Lists(out \o InOrder(C), ((Positions \ Pending) \cup A \cup B) \cup C)
    BY <2>1, <2>2, <2>3, ListsConcat
  <2>5. ((Positions \ Pending) \cup A \cup B) \cup C = Positions
    BY <1>2 DEF Pending
  <2> QED
    BY <1>3, <2>4, <2>5
<1>5. ASSUME ordered PROVE \A j \in 1..Len(output') : output'[j] = j
  <2>1. output \in Seq(Positions)
    BY DEF Inv, TypeOK
  <2>2. CASE C = {}
    <3>1. Whole(A, B)
      <4>1. CASE currentReasoning # Nil
        BY <1>1, <1>2, <1>5, <4>1, OneKindPending DEF A, Whole
      <4>2. CASE currentReasoning = Nil /\ currentText # Nil
        BY <1>5, <4>2, OneKindPending DEF A, B, ItemAt, Whole
      <4>3. CASE currentReasoning = Nil /\ currentText = Nil
        BY <4>3 DEF A, B, ItemAt, Whole
      <4> QED
        BY <4>1, <4>2, <4>3
    <3>2. out \in Seq(Positions)
      <4>1. Lists(out, (Positions \ Pending) \cup A \cup B)
        BY <1>1, <1>2, ListsMore DEF Inv, OutputInv
      <4>2. (Positions \ Pending) \cup A \cup B \subseteq Positions
        BY <1>2 DEF Pending
      <4> HIDE DEF out
      <4> QED
        BY <4>1, <4>2, SeqMonotonic DEF Lists
    <3>3. output' = out
      <4> HIDE DEF out
      <4> QED
        BY <1>3, <2>2, <3>2, ConcatEmptySeq, ListNothing
    <3>4. Counts(out)
      BY <1>5, <3>1, OrderedOutput
    <3> QED
      BY <3>3, <3>4 DEF Counts
  <2>3. CASE C # {}
    <3>1. A = {} /\ B = {}
      <4>1. currentReasoning = Nil
        BY <1>1, <1>2, <1>5, <2>3, OneKindPending DEF A
      <4>2. currentText = Nil
        BY <1>1, <1>2, <1>5, <2>3, OneKindPending DEF B
      <4> QED
        BY <4>1, <4>2 DEF A, B, ItemAt
    <3>2. C = Pending
      BY <1>2, <3>1
    <3>3. out = output
      BY <2>1, <3>1, ConcatEmptySeq, ListNothing
    <3> HIDE DEF out
    <3>4. output' = output \o InOrder(Pending)
      BY <1>3, <3>2, <3>3
    <3> QED
      BY <1>5, <3>4, OutputCounts
  <2> QED
    BY <2>2, <2>3
<1> QED
  BY <1>4, <1>5

\* In the end all that was pending is done.
LEMMA CompleteItems ==
  ASSUME Inv, Complete
  PROVE  /\ Finished(items, items', Pending)
         /\ Positions' = Positions /\ Pending' = {}
<1>1. ItemAt(currentReasoning) \cup ItemAt(currentText) \cup OpenTools = Pending
  BY OpenToolsPending DEF Inv, PendingInv
<1>2. items' = Done(items, Pending) /\ items \in Seq(Item)
  BY <1>1 DEF Complete, Inv, TypeOK, Item
<1>3. \A i \in 1..Len(items) : i \in Pending => ItemDones(items, i) = 0
  BY DEF Pending
<1>4. Finished(items, items', Pending)
  BY <1>2, <1>3, DoneItems
<1>5. Positions' = Positions
  BY <1>4 DEF Finished, Positions
<1>6. \A i \in Positions : ItemDones(items', i) # 0
  BY <1>4 DEF Finished, Positions, Pending
<1> QED
  BY <1>4, <1>5, <1>6 DEF Pending

\* The end of the stream keeps the invariant.
LEMMA CompleteKeepsInv ==
  ASSUME Inv, Complete
  PROVE  Inv'
<1>1. /\ currentReasoning' = Nil /\ currentText' = Nil /\ status' = "completed"
      /\ toolItems' = toolItems /\ nextMessageIndex' = nextMessageIndex
      /\ gotChunk' = gotChunk /\ received' = received /\ ordered' = ordered
  BY DEF Complete
<1>2. Positions' = Positions /\ Pending' = {} /\ items' \in Seq(Item)
  BY CompleteItems DEF Finished
<1>3. \A i \in Positions :
        /\ ItemSource(items', i) = ItemSource(items, i)
        /\ ItemPrefix(items', i) = ItemPrefix(items, i)
        /\ ItemNumber(items', i) = ItemNumber(items, i)
        /\ ItemContent(items', i) = ItemContent(items, i)
  BY CompleteItems DEF Finished, Kept, Positions
<1>4. Lists(output', Positions)
  BY CompleteOutput
<1>5. TypeOK'
  <2>1. output' \in Seq(Positions)
    BY <1>4 DEF Lists
  <2> QED
    BY <1>1, <1>2, <2>1 DEF Inv, TypeOK, Item
<1>6. PointersInv'
  BY <1>1, <1>2, <1>3 DEF Inv, TypeOK, PointersInv, ItemAt
<1>7. PendingInv'
  BY <1>1, <1>2 DEF PendingInv, ItemAt
<1>8. ContentInv'
  BY <1>1, <1>2, <1>3 DEF Inv, ContentInv
<1>9. OutputInv'
  BY <1>2, <1>4 DEF OutputInv
<1>10. IdInv'
  BY <1>1, <1>2, <1>3 DEF Inv, IdInv
<1>11. OrderInv'
  BY <1>1, <1>2, <1>3, CompleteOutput DEF Inv, OrderInv
<1> QED
  BY <1>5, <1>6, <1>7, <1>8, <1>9, <1>10, <1>11 DEF Inv

\* The invariant is inductive.
LEMMA KeepsInv ==
  ASSUME Inv, [Next]_vars
  PROVE  Inv'
<1>1. CASE Reasoning
  <2>1. "reasoning" \in Sources
    BY DEF Sources
  <2> QED
    BY <1>1, <2>1, ReasoningSends, SendsKeepsInv
<1>2. CASE Text
  <2>1. "text" \in Sources
    BY DEF Sources
  <2> QED
    BY <1>2, <2>1, TextSends, SendsKeepsInv
<1>3. ASSUME NEW k \in ToolIndexes, ToolCall(k) PROVE Inv'
  <2>1. k \in Sources
    BY DEF Sources
  <2> QED
    BY <1>3, <2>1, ToolCallSends, SendsKeepsInv
<1>4. CASE Complete
  BY <1>4, CompleteKeepsInv
<1>5. CASE EmptyChunk \/ Fail \/ UNCHANGED vars
  <2>1. /\ items' = items /\ output' = output /\ toolItems' = toolItems
        /\ currentReasoning' = currentReasoning /\ currentText' = currentText
        /\ nextMessageIndex' = nextMessageIndex /\ received' = received
        /\ ordered' = ordered
        /\ (gotChunk' = gotChunk \/ gotChunk' = TRUE)
        /\ (status' = status \/ status' = "failed")
    BY <1>5 DEF EmptyChunk, Fail, vars
  <2>2. Positions' = Positions /\ Pending' = Pending
    BY <2>1 DEF Positions, Pending
  <2>3. TypeOK'
    BY <2>1, <2>2 DEF Inv, TypeOK
  <2>4. PointersInv' /\ ContentInv' /\ OutputInv' /\ IdInv' /\ OrderInv'
    BY <2>1, <2>2 DEF Inv, PointersInv, ContentInv, OutputInv, IdInv, OrderInv
  <2>5. PendingInv'
    BY <2>1, <2>2 DEF Inv, PendingInv
  <2> QED
    BY <2>3, <2>4, <2>5 DEF Inv
<1> QED
  BY <1>1, <1>2, <1>3, <1>4, <1>5 DEF Next

\* Nothing is sent yet.
LEMMA InitInv == Init => Inv
<1> SUFFICES ASSUME Init PROVE Inv
  OBVIOUS
<1>1. items = <<>> /\ Positions = {} /\ Pending = {} /\ output = <<>>
  BY DEF Init, Positions, Pending
<1>2. TypeOK
  <2>1. items \in Seq(Item) /\ output \in Seq(Positions)
    BY <1>1
  <2>2. received \in [Sources -> 0..MaxFragments]
    BY SourcesAssumption DEF Init
  <2>3. toolItems \in [ToolIndexes -> Positions \cup {Nil}]
    BY DEF Init
  <2> QED
    BY <2>1, <2>2, <2>3 DEF Init, TypeOK, Item
<1>3. PointersInv /\ PendingInv
  BY <1>1 DEF Init, PointersInv, PendingInv, ItemAt
<1>4. ContentInv
  BY <1>1, SourcesAssumption DEF Init, ContentInv
<1>5. OutputInv
  BY <1>1 DEF OutputInv, Lists
<1>6. IdInv /\ OrderInv
  BY <1>1 DEF Init, IdInv, OrderInv
<1> QED
  BY <1>2, <1>3, <1>4, <1>5, <1>6 DEF Inv

\* The invariant holds in every state.
LEMMA Invariance == Spec => []Inv
<1>1. Inv /\ [Next]_vars => Inv'
  BY KeepsInv
<1> QED
  BY <1>1, InitInv, PTL DEF Spec

(***************************************************************************)
(* The properties.                                                         *)
(***************************************************************************)

\* The state of responsesStreaming keeps its type: every position it holds or
\* lists is an item that has been sent, and no item is done twice.
THEOREM TypeCorrect == Spec => []TypeOK
<1>1. Inv => TypeOK
  BY DEF Inv
<1> QED
  BY <1>1, Invariance, PTL

\* Whatever the order, every piece has reached the client in an item of its own
\* source, and a tool call has one item.
THEOREM NothingIsLost == Spec => []NothingLost
<1>1. Inv => NothingLost
  <2> SUFFICES ASSUME Inv PROVE NothingLost
    OBVIOUS
  <2>1. ASSUME NEW s \in Sources PROVE Content(s) = 1..received[s]
    <3>1. \A i \in ItemsOf(s) : items[i].content \subseteq 1..received[s]
      BY DEF ItemsOf, Inv, ContentInv, ItemSource, ItemContent
    <3>2. \A n \in 1..received[s] : \E i \in ItemsOf(s) : n \in items[i].content
      BY DEF ItemsOf, Inv, ContentInv, ItemSource, ItemContent
    <3> QED
      BY <3>1, <3>2 DEF Content
  <2>2. ASSUME NEW k \in ToolIndexes PROVE Cardinality(ItemsOf(k)) <= 1
    <3>1. ItemsOf(k) \subseteq {toolItems[k]}
      BY DEF ItemsOf, Inv, PointersInv, ItemSource
    <3>2. ItemsOf(k) = {} \/ ItemsOf(k) = {toolItems[k]}
      BY <3>1
    <3> QED
      <4>1. Cardinality({}) = 0 /\ Cardinality({toolItems[k]}) = 1
        BY FS_EmptySet, FS_Singleton
      <4> QED
        BY <3>2, <4>1
  <2> QED
    BY <2>1, <2>2 DEF NothingLost
<1> QED
  BY <1>1, Invariance, PTL

\* A completed response lists every position once.
LEMMA CompletedOutput ==
  ASSUME Inv, status = "completed"
  PROVE  Pending = {} /\ Lists(output, Positions) /\ Len(output) = Len(items)
<1>1. Pending = {}
  BY DEF Inv, PendingInv
<1>2. Lists(output, Positions)
  BY <1>1 DEF Inv, OutputInv
<1>3. Len(items) \in Nat
  BY LenProperties DEF Inv, TypeOK
<1>4. Positions = 1..Len(items) /\ IsFiniteSet(Positions) /\ Cardinality(Positions) = Len(items)
  BY SMTT(30), <1>3, FS_Interval DEF Positions
<1>5. Len(output) = Len(items)
  BY <1>2, <1>4, ListLength
<1> QED
  BY <1>1, <1>2, <1>5

\* Whatever the order, response.completed comes when every item that was added
\* is done, and lists each of them once.
THEOREM CompletedListsAll == Spec => []CompletedListsAllDone
<1>1. Inv => CompletedListsAllDone
  <2> SUFFICES ASSUME Inv, status = "completed"
               PROVE  /\ \A i \in Positions : items[i].dones = 1
                      /\ Len(output) = Len(items)
                      /\ {output[j] : j \in 1..Len(output)} = Positions
    BY DEF CompletedListsAllDone
  <2>1. Pending = {} /\ Lists(output, Positions) /\ Len(output) = Len(items)
    BY CompletedOutput
  <2>2. ASSUME NEW i \in Positions PROVE items[i].dones = 1
    <3>1. items \in Seq(Item) /\ i \in 1..Len(items)
      BY DEF Inv, TypeOK, Item, Positions
    <3>2. ItemDones(items, i) \in {0, 1}
      BY <3>1, ItemFields
    <3> QED
      BY <2>1, <3>2 DEF Pending, ItemDones
  <2>3. \A j \in 1..Len(output) : output[j] \in Positions
    BY <2>1, ElementOfSeq DEF Lists
  <2>4. \A i \in Positions : \E j \in 1..Len(output) : output[j] = i
    BY <2>1 DEF Lists
  <2> QED
    BY <2>1, <2>2, <2>3, <2>4
<1> QED
  BY <1>1, Invariance, PTL

\* For an ordered upstream the response lists its items in the order of their
\* output_index and no id comes twice.
THEOREM OutputIsInOrder == Spec => []OutputInIndexOrder
<1>1. Inv => OutputInIndexOrder
  <2> SUFFICES ASSUME Inv, ordered
               PROVE  /\ status = "completed" => output = [i \in Positions |-> i]
                      /\ \A i, j \in Positions : items[i].id = items[j].id => i = j
    BY DEF OutputInIndexOrder
  <2>1. ASSUME status = "completed" PROVE output = [i \in Positions |-> i]
    <3>1. Len(output) = Len(items)
      BY <2>1, CompletedOutput
    <3>2. output \in Seq(Positions)
      BY DEF Inv, TypeOK
    <3>3. DOMAIN output = Positions /\ output \in [1..Len(output) -> Positions]
      BY <3>1, <3>2, LenProperties DEF Positions
    <3>4. \A j \in Positions : output[j] = j
      BY <3>1 DEF Inv, OrderInv, Positions
    <3> QED
      BY <3>3, <3>4
  <2>2. ASSUME NEW i \in Positions, NEW j \in Positions, items[i].id = items[j].id
        PROVE  i = j
    <3>1. ItemPrefix(items, i) = ItemPrefix(items, j) /\ ItemNumber(items, i) = ItemNumber(items, j)
      BY <2>2 DEF ItemPrefix, ItemNumber
    <3>2. ItemSource(items, i) = ItemSource(items, j)
      BY <3>1 DEF Inv, IdInv
    <3>3. ItemSource(items, i) \in Sources
      <4>1. items \in Seq(Item) /\ i \in 1..Len(items)
        BY DEF Inv, TypeOK, Item, Positions
      <4> QED
        BY <4>1, ItemFields
    <3>4. CASE ItemSource(items, i) = "reasoning"
      BY <3>2, <3>4 DEF Inv, OrderInv
    <3>5. CASE ItemSource(items, i) = "text"
      BY <3>1, <3>2, <3>5 DEF Inv, IdInv
    <3>6. CASE ItemSource(items, i) \in ToolIndexes
      BY <3>2, <3>6 DEF Inv, PointersInv
    <3> QED
      BY <3>3, <3>4, <3>5, <3>6 DEF Sources
  <2> QED
    BY <2>1, <2>2
<1> QED
  BY <1>1, Invariance, PTL

-----------------------------------------------------------------------------
(***************************************************************************)
(* The refinement of ItemStream.                                           *)
(***************************************************************************)

\* The items a client sees in the output items its.
LEMMA ClientSees ==
  ASSUME NEW its \in Seq(Item),
         NEW seen, seen = [i \in DOMAIN its |-> [source  |-> its[i].source,
                                                 content |-> its[i].content,
                                                 open    |-> its[i].dones = 0]]
  PROVE  /\ Len(seen) = Len(its)
         /\ \A i \in 1..Len(its) : /\ seen[i].source = ItemSource(its, i)
                                   /\ seen[i].content = ItemContent(its, i)
                                   /\ seen[i].open = (ItemDones(its, i) = 0)
<1>1. Len(its) \in Nat /\ DOMAIN its = 1..Len(its)
  BY LenProperties
<1>2. seen \in Seq([source : {its[i].source : i \in 1..Len(its)},
                    content : {its[i].content : i \in 1..Len(its)}, open : BOOLEAN])
  BY <1>1
<1>3. Len(seen) = Len(its)
  BY <1>1, <1>2, LenProperties
<1>4. \A i \in 1..Len(its) : /\ seen[i].source = ItemSource(its, i)
                             /\ seen[i].content = ItemContent(its, i)
                             /\ seen[i].open = (ItemDones(its, i) = 0)
  BY <1>1 DEF ItemSource, ItemContent, ItemDones
<1> QED
  BY <1>3, <1>4

\* When no item loses content or is opened again, and none that was done grows
\* but a tool call the upstream returned to, the client's items go on.
LEMMA ItemsContinue ==
  ASSUME items \in Seq(Item), items' \in Seq(Item), Positions \subseteq Positions',
         \A i \in Positions :
           /\ ItemSource(items', i) = ItemSource(items, i)
           /\ ItemContent(items, i) \subseteq ItemContent(items', i)
           /\ ItemDones(items, i) # 0 =>
                /\ ItemDones(items', i) # 0
                /\ \/ ItemContent(items', i) = ItemContent(items, i)
                   \/ ItemSource(items, i) \in ToolIndexes /\ ~ordered'
  PROVE  Abstract!Continues(ClientItems, ClientItems')
<1> DEFINE old == ClientItems
           new == ClientItems'
<1>1. /\ Len(old) = Len(items)
      /\ \A i \in 1..Len(items) : /\ old[i].source = ItemSource(items, i)
                                  /\ old[i].content = ItemContent(items, i)
                                  /\ old[i].open = (ItemDones(items, i) = 0)
  BY ClientSees DEF ClientItems
<1>2. /\ Len(new) = Len(items')
      /\ \A i \in 1..Len(items') : /\ new[i].source = ItemSource(items', i)
                                   /\ new[i].content = ItemContent(items', i)
                                   /\ new[i].open = (ItemDones(items', i) = 0)
  BY ClientSees DEF ClientItems
<1>3. /\ Len(items) <= Len(items')
      /\ Positions = 1..Len(items) /\ \A i \in 1..Len(items) : i \in 1..Len(items')
  <2>1. Len(items) \in Nat /\ Len(items') \in Nat
    BY LenProperties
  <2> QED
    BY <2>1 DEF Positions
<1> HIDE DEF old, new
<1>4. ASSUME NEW i \in 1..Len(old)
      PROVE  /\ new[i].source = old[i].source
             /\ old[i].content \subseteq new[i].content
             /\ ~old[i].open =>
                  /\ ~new[i].open
                  /\ \/ new[i].content = old[i].content
                     \/ old[i].source \in ToolIndexes /\ ~ordered'
  <2>1. /\ old[i].source = ItemSource(items, i) /\ new[i].source = ItemSource(items', i)
        /\ old[i].content = ItemContent(items, i) /\ new[i].content = ItemContent(items', i)
    BY <1>1, <1>2, <1>3
  <2>2. /\ old[i].open = (ItemDones(items, i) = 0)
        /\ new[i].open = (ItemDones(items', i) = 0)
    BY <1>1, <1>2, <1>3
  <2>3. i \in Positions
    BY <1>1, <1>3
  <2>4. (~old[i].open => ItemDones(items, i) # 0) /\ (ItemDones(items', i) # 0 => ~new[i].open)
    BY <2>2, Zenon
  <2> QED
    BY <2>1, <2>3, <2>4
<1> QED
  BY <1>1, <1>2, <1>3, <1>4 DEF old, new, Abstract!Continues

\* A done item gets no delta: messages and reasoning that get one are pending,
\* and a done tool call was left and returned to.
LEMMA SendsStreams ==
  ASSUME Inv, NEW source \in Sources, NEW p, NEW pieces, Sends(p, source, pieces)
  PROVE  Abstract!Next
<1>1. items \in Seq(Item) /\ Positions = 1..Len(items) /\ Positions' = 1..Len(items')
  BY DEF Inv, TypeOK, Item, Positions
<1>2. /\ items' \in Seq(Item) /\ Positions \subseteq Positions' /\ ItemSource(items', p) = source
      /\ \A i \in Positions :
           /\ Kept(items, items', i)
           /\ ItemDones(items', i) =
                IF i \in First(source) \cup Second(source) THEN 1 ELSE ItemDones(items, i)
           /\ i # p => ItemContent(items', i) = ItemContent(items, i)
      /\ p \in Positions => ItemContent(items', p) = ItemContent(items, p) \cup pieces
  BY <1>1 DEF Sends, Grown
<1>3. ASSUME NEW i \in Positions
      PROVE  /\ ItemSource(items', i) = ItemSource(items, i)
             /\ ItemContent(items, i) \subseteq ItemContent(items', i)
             /\ ItemDones(items, i) # 0 => ItemDones(items', i) # 0
  BY <1>2 DEF Kept
<1>4. ASSUME NEW i \in Positions, ItemDones(items, i) # 0
      PROVE  \/ ItemContent(items', i) = ItemContent(items, i)
             \/ ItemSource(items, i) \in ToolIndexes /\ ~ordered'
  <2>1. CASE i # p
    BY <1>2, <2>1
  <2>2. CASE i = p
    <3>1. ItemSource(items, p) = source
      BY <1>2, <2>2 DEF Kept
    <3>2. source \in ToolIndexes
      <4>1. p \notin Pending
        BY <1>4, <2>2 DEF Pending
      <4> QED
        BY <2>2, <4>1 DEF Sends, Pointed
    <3>3. toolItems[source] = p /\ p # Nil
      BY <1>1, <2>2, <3>1, <3>2 DEF Inv, PointersInv, Nil
    <3>4. ~InRow(source)
      BY <1>4, <2>2, <3>3 DEF InRow, ItemDones
    <3> QED
      BY <2>2, <3>1, <3>2, <3>4 DEF Sends, Told
  <2> QED
    BY <2>1, <2>2
<1>5. Abstract!Continues(ClientItems, ClientItems')
  BY <1>1, <1>2, <1>3, <1>4, ItemsContinue
<1>6. status = "streaming" /\ status' = "streaming" /\ (ordered' => ordered)
  BY DEF Sends, Told
<1> QED
  BY <1>5, <1>6 DEF Abstract!Next, Abstract!Stream, Abstract!Proceed

\* The end of the stream closes every item.
LEMMA CompleteCloses ==
  ASSUME Inv, Complete
  PROVE  Abstract!Next
<1>1. items \in Seq(Item) /\ Positions = 1..Len(items) /\ Positions' = 1..Len(items')
  BY DEF Inv, TypeOK, Item, Positions
<1>2. /\ items' \in Seq(Item) /\ Positions' = Positions /\ Pending' = {}
      /\ \A i \in Positions : /\ ItemSource(items', i) = ItemSource(items, i)
                              /\ ItemContent(items', i) = ItemContent(items, i)
  BY <1>1, CompleteItems DEF Finished, Kept
<1>3. \A i \in Positions' : ItemDones(items', i) # 0
  BY <1>2 DEF Pending
<1>4. Abstract!Continues(ClientItems, ClientItems')
  BY <1>1, <1>2, <1>3, ItemsContinue
<1>5. Abstract!AllClosed(ClientItems')
  <2> DEFINE new == ClientItems'
  <2>1. /\ Len(new) = Len(items')
        /\ \A i \in 1..Len(items') : new[i].open = (ItemDones(items', i) = 0)
    BY <1>2, ClientSees DEF ClientItems
  <2> HIDE DEF new
  <2>2. ASSUME NEW i \in 1..Len(new) PROVE ~new[i].open
    <3>1. new[i].open = (ItemDones(items', i) = 0) /\ ItemDones(items', i) # 0
      BY <1>1, <1>3, <2>1
    <3> QED
      BY <3>1, Zenon
  <2> QED
    BY <2>2 DEF new, Abstract!AllClosed
<1>6. status = "streaming" /\ status' = "completed" /\ ordered' = ordered
  BY DEF Complete
<1> QED
  BY <1>4, <1>5, <1>6 DEF Abstract!Next, Abstract!Complete, Abstract!Proceed

\* responsesStreaming shows its client an item stream.
THEOREM StreamsItems == Spec => ItemStreamSpec
<1>1. Init => Abstract!Init
  BY DEF Init, Abstract!Init, ClientItems
<1>2. ASSUME Inv, [Next]_vars
      PROVE  [Abstract!Next]_Abstract!vars
  <2>1. ASSUME NEW source \in Sources, \E p, pieces : Sends(p, source, pieces)
        PROVE  Abstract!Next
    BY <1>2, <2>1, SendsStreams
  <2>2. CASE Reasoning
    BY <1>2, <2>1, <2>2, ReasoningSends DEF Sources
  <2>3. CASE Text
    BY <1>2, <2>1, <2>3, TextSends DEF Sources
  <2>4. ASSUME NEW k \in ToolIndexes, ToolCall(k) PROVE Abstract!Next
    <3>1. k \in Sources
      BY DEF Sources
    <3> QED
      BY <1>2, <2>1, <2>4, <3>1, ToolCallSends
  <2>5. ASSUME items' = items, ordered' = ordered
        PROVE  Abstract!Continues(ClientItems, ClientItems')
    <3>1. items \in Seq(Item)
      BY <1>2 DEF Inv, TypeOK, Item
    <3> QED
      BY <2>5, <3>1, ItemsContinue DEF Positions
  <2>6. CASE EmptyChunk
    <3>1. /\ items' = items /\ ordered' = ordered
          /\ status = "streaming" /\ status' = "streaming"
      BY <2>6 DEF EmptyChunk
    <3> QED
      BY <2>5, <3>1 DEF Abstract!Next, Abstract!Stream, Abstract!Proceed
  <2>7. CASE Complete
    BY <1>2, <2>7, CompleteCloses
  <2>8. CASE Fail
    <3>1. /\ items' = items /\ ordered' = ordered
          /\ status = "streaming" /\ status' = "failed"
      BY <2>8 DEF Fail
    <3> QED
      BY <2>5, <3>1 DEF Abstract!Next, Abstract!Fail, Abstract!Proceed
  <2>9. CASE UNCHANGED vars
    BY <2>9 DEF vars, Abstract!vars, ClientItems
  <2> QED
    BY <1>2, <2>2, <2>3, <2>4, <2>6, <2>7, <2>8, <2>9 DEF Next
<1> QED
  BY <1>1, <1>2, Invariance, PTL DEF Spec, ItemStreamSpec, Abstract!Spec
=============================================================================
