---------------------------- MODULE Startup_proofs ----------------------------
(***************************************************************************)
(* Proofs about Startup: which fallback model a server has, what the       *)
(* catalogue adds to the models, and what the exit code of the update      *)
(* check says.                                                             *)
(*                                                                         *)
(* What a loop over a list keeps is proved from the order of the places it *)
(* keeps (NthPlace); that the update check compares versions as the        *)
(* standard does, by the first place at which their sort keys differ       *)
(* (ComparedByKeys).  RunInv connects the two with a run of the program.   *)
(***************************************************************************)
EXTENDS Startup, SequenceTheorems, FiniteSetTheorems, WellFoundedInduction, TLAPS

-----------------------------------------------------------------------------
\* A set of numbers that is not empty has a least one, which is its Min.
LEMMA Least ==
  ASSUME NEW S, S \subseteq Nat, S # {}
  PROVE  Min(S) \in S /\ \A y \in S : Min(S) <= y
<1>1. PICK x \in S : \A y \in S : <<y, x>> \notin OpToRel(<, Nat)
  BY NatLessThanWellFounded, WFMin
<1>2. \A y \in S : ~(y < x)
  BY <1>1 DEF OpToRel
<1>3. \A y \in S : x <= y
  BY <1>2
<1> QED
  BY <1>3 DEF Min

\* A finite one has a greatest, which is its Max: otherwise every number of it
\* has a next one, and all but the least are next ones.
LEMMA Greatest ==
  ASSUME NEW S, S \subseteq Nat, S # {}, IsFiniteSet(S)
  PROVE  Max(S) \in S /\ \A y \in S : y <= Max(S)
<1>1. \E x \in S : \A y \in S : x >= y
  <2> SUFFICES ASSUME \A x \in S : \E y \in S : y > x
               PROVE  FALSE
    OBVIOUS
  <2> DEFINE above(x) == {y \in S : y > x}
             next == [x \in S |-> Min(above(x))]
  <2>1. \A x \in S : next[x] \in S /\ next[x] > x /\ \A y \in S : y > x => next[x] <= y
    <3> SUFFICES ASSUME NEW x \in S
                 PROVE  next[x] \in S /\ next[x] > x /\ \A y \in S : y > x => next[x] <= y
      OBVIOUS
    <3>1. above(x) \subseteq Nat /\ above(x) # {}
      OBVIOUS
    <3>2. Min(above(x)) \in above(x) /\ \A y \in above(x) : Min(above(x)) <= y
      <4> HIDE DEF above
      <4> QED
        BY <3>1, Least
    <3> QED
      BY <3>2
  <2> DEFINE rest == S \ {Min(S)}
  <2>2. Min(S) \in S /\ \A y \in S : Min(S) <= y
    BY Least
  <2>3. next \in [S -> rest]
    <3> HIDE DEF next
    <3>1. ASSUME NEW x \in S PROVE next[x] \in rest
      <4>1. /\ next[x] \in S /\ next[x] > x /\ Min(S) <= x
            /\ x \in Nat /\ next[x] \in Nat /\ Min(S) \in Nat
        BY <2>1, <2>2
      <4> QED
        BY <4>1
    <3> QED
      BY <3>1 DEF next
  <2> HIDE DEF next
  <2>4. \A x, y \in S : next[x] = next[y] => x = y
    <3>1. ASSUME NEW x \in S, NEW y \in S, x < y PROVE next[x] < next[y]
      <4>1. /\ next[x] <= y /\ y < next[y]
            /\ y \in Nat /\ next[x] \in Nat /\ next[y] \in Nat
        BY <2>1, <3>1
      <4> QED
        BY <4>1
    <3>2. \A x \in S : next[x] \in Nat
      BY <2>1
    <3>3. \A x, y \in S : x < y \/ y < x \/ x = y
      OBVIOUS
    <3>4. ASSUME NEW x \in S, NEW y \in S, next[x] = next[y] PROVE x = y
      <4>1. ~(x < y) /\ ~(y < x)
        BY <3>1, <3>2, <3>4
      <4> QED
        BY <3>3, <4>1
    <3> QED
      BY <3>4
  <2>5. next \in Injection(S, rest)
    BY <2>3, <2>4 DEF Injection, IsInjective
  <2>6. IsFiniteSet(rest) /\ Cardinality(rest) = Cardinality(S) - 1
    BY <2>2, FS_RemoveElement
  <2> HIDE DEF rest
  <2>7. Cardinality(S) <= Cardinality(rest) /\ Cardinality(S) \in Nat
    BY <2>5, <2>6, FS_Injection, FS_CardinalityType
  <2> QED
    BY <2>6, <2>7
<1> QED
  <2>1. PICK x \in S : \A y \in S : x >= y
    BY <1>1
  <2>2. Max(S) \in S /\ \A y \in S : Max(S) >= y
    BY <1>1 DEF Max
  <2> QED
    BY <2>2

-----------------------------------------------------------------------------
\* How many of the places are not behind place i.
Rank(places, i) == Cardinality({k \in places : k <= i})

\* The places of a set are ranked from 1 on, in their order.
LEMMA Ranks ==
  ASSUME NEW S, S \subseteq Nat, IsFiniteSet(S)
  PROVE  /\ \A i \in S : Rank(S, i) \in 1..Cardinality(S)
         /\ \A i, j \in S : i < j => Rank(S, i) < Rank(S, j)
<1> DEFINE upTo(i) == {k \in S : k <= i}
<1>1. \A i \in S : /\ upTo(i) \in SUBSET S /\ i \in upTo(i)
                   /\ Rank(S, i) = Cardinality(upTo(i))
  BY DEF Rank
<1>2. ASSUME NEW i \in S, NEW j \in S, i < j
      PROVE  upTo(i) \in SUBSET upTo(j) /\ j \notin upTo(i)
  <2>1. i \in Nat /\ j \in Nat
    OBVIOUS
  <2>2. \A k \in S : k \in Nat /\ (k <= i => k <= j)
    BY <1>2, <2>1
  <2>3. ~(j <= i)
    BY <1>2, <2>1
  <2> QED
    BY <2>2, <2>3
<1> HIDE DEF upTo
<1>3. \A i \in S : /\ IsFiniteSet(upTo(i)) /\ Cardinality(upTo(i)) <= Cardinality(S)
                   /\ Cardinality(upTo(i)) \in Nat /\ Cardinality(upTo(i)) # 0
  BY <1>1, FS_Subset, FS_CardinalityType, FS_EmptySet
<1>4. ASSUME NEW i \in S, NEW j \in S, i < j
      PROVE  Cardinality(upTo(i)) < Cardinality(upTo(j))
  <2>1. /\ Cardinality(upTo(i)) <= Cardinality(upTo(j))
        /\ Cardinality(upTo(i)) # Cardinality(upTo(j))
    BY <1>1, <1>2, <1>3, <1>4, FS_Subset
  <2> QED
    BY <1>3, <2>1
<1>5. Cardinality(S) \in Nat
  BY FS_CardinalityType
<1>6. \A i \in S : Rank(S, i) \in 1..Cardinality(S)
  BY <1>1, <1>3, <1>5
<1> QED
  BY <1>1, <1>4, <1>6

\* Nth counts the places of a set in their order.
LEMMA NthPlace ==
  ASSUME NEW S, S \subseteq Nat, IsFiniteSet(S)
  PROVE  /\ Cardinality(S) \in Nat
         /\ \A j \in 1..Cardinality(S) : Nth(S, j) \in S
         /\ \A i \in S : \E j \in 1..Cardinality(S) : Nth(S, j) = i
         /\ \A j, k \in 1..Cardinality(S) : j < k => Nth(S, j) < Nth(S, k)
<1> DEFINE D == 1..Cardinality(S)
           rank == [i \in S |-> Rank(S, i)]
<1>1. Cardinality(S) \in Nat /\ IsFiniteSet(D) /\ Cardinality(D) = Cardinality(S)
  BY FS_CardinalityType, FS_Interval
<1>2. \A i \in S : rank[i] \in D
  BY Ranks
<1>3. \A i, j \in S : rank[i] = rank[j] => i = j
  <2>1. \A i, j \in S : i < j \/ j < i \/ i = j
    OBVIOUS
  <2>2. \A i, j \in S : i < j => rank[i] < rank[j]
    BY Ranks
  <2> QED
    BY <1>1, <1>2, <2>1, <2>2
<1>4. rank \in Injection(S, D)
  <2>1. rank \in [S -> D]
    BY <1>2
  <2> HIDE DEF rank
  <2> QED
    BY <1>3, <2>1 DEF Injection, IsInjective
<1>5. rank \in Surjection(S, D)
  <2> HIDE DEF rank, D
  <2> QED
    BY <1>1, <1>4, FS_Injection
<1>6. \A j \in D : \E i \in S : Rank(S, i) = j
  BY <1>5 DEF Surjection
<1>7. \A j \in D : Nth(S, j) \in S /\ Rank(S, Nth(S, j)) = j
  BY <1>6 DEF Nth, Rank
<1>8. ASSUME NEW i \in S PROVE \E j \in D : Nth(S, j) = i
  <2>1. Rank(S, i) \in D
    BY <1>2
  <2>2. rank[Nth(S, Rank(S, i))] = rank[i] /\ Nth(S, Rank(S, i)) \in S
    BY <1>7, <2>1
  <2> QED
    BY <1>3, <2>1, <2>2
<1>9. ASSUME NEW j \in D, NEW k \in D, j < k PROVE Nth(S, j) < Nth(S, k)
  <2>1. /\ Nth(S, j) \in S /\ Nth(S, k) \in S /\ Rank(S, Nth(S, j)) = j
        /\ Rank(S, Nth(S, k)) = k
    BY <1>7
  <2>2. CASE Nth(S, k) < Nth(S, j)
    <3>1. k < j
      BY <2>1, <2>2, Ranks
    <3> QED
      BY <1>1, <1>9, <3>1
  <2>3. CASE Nth(S, k) = Nth(S, j)
    BY <1>1, <1>9, <2>1, <2>3
  <2>4. Nth(S, j) \in Nat /\ Nth(S, k) \in Nat
    BY <2>1
  <2> QED
    BY <2>2, <2>3, <2>4
<1> QED
  BY <1>1, <1>7, <1>8, <1>9

-----------------------------------------------------------------------------
\* A model, with what a catalogue may have added.
ModelRecords ==
  [id : [stem : STRING, suffix : STRING], price : {"zero", "positive", "none"},
   textOnly : BOOLEAN, window : Nat,
   capabilities : {"absent", "plain", "silent", "reasons"}]

\* What a download of metadata may bring.
Downloads == Catalogues \cup {<<>>}

\* A catalogue has the key at the first place at which it has any.
LEMMA FirstKey ==
  ASSUME NEW id, NEW known, NEW provider, KnownKeys(id, known, provider) # {}
  PROVE  \E k \in DOMAIN known :
           FindModelMetadata(id, known, provider) = known[k]
<1> DEFINE order == LookupOrder(id, provider)
           keys == KnownKeys(id, known, provider)
           four == {Key("openrouter", id), Key("openrouter", Trimmed(id)),
                    Key("", id), Key("", Trimmed(id))}
<1>1. order \in Seq(four)
  <2>1. <<Key("openrouter", id), Key("openrouter", Trimmed(id))>> \in Seq(four)
    OBVIOUS
  <2>2. <<Key("", id), Key("", Trimmed(id))>> \in Seq(four)
    OBVIOUS
  <2>3. <<>> \in Seq(four)
    BY EmptySeq
  <2> HIDE DEF four
  <2> QED
    BY <2>1, <2>2, <2>3, ConcatProperties DEF LookupOrder
<1>2. DOMAIN order \subseteq Nat
  <2> HIDE DEF order, four
  <2> QED
    BY <1>1, LenProperties
<1>3. keys \subseteq Nat /\ \A i \in keys : order[i] \in DOMAIN known
  BY <1>2 DEF KnownKeys
<1>4. Min(keys) \in keys
  <2> HIDE DEF keys
  <2> QED
    BY <1>3, Least DEF keys
<1> QED
  BY <1>3, <1>4 DEF FindModelMetadata

\* What a catalogue adds to a model, and what it leaves.
LEMMA Enriched ==
  ASSUME NEW m \in Models, NEW known \in Downloads, NEW provider
  PROVE  /\ m \in ModelRecords /\ EnrichModel(m, known, provider) \in ModelRecords
         /\ EnrichModel(m, known, provider).id = m.id
         /\ EnrichModel(m, known, provider).window # m.window =>
              m.window = 0 /\ KnownKeys(m.id, known, provider) # {}
         /\ EnrichModel(m, known, provider).capabilities # "absent" <=>
              KnownKeys(m.id, known, provider) # {}
<1>1. m \in ModelRecords /\ m.capabilities = "absent"
  BY StartupAssumption DEF ModelRecords
<1>2. CASE KnownKeys(m.id, known, provider) = {}
  BY <1>1, <1>2 DEF EnrichModel
<1>3. CASE KnownKeys(m.id, known, provider) # {}
  <2> DEFINE metadata == FindModelMetadata(m.id, known, provider)
             e == EnrichModel(m, known, provider)
  <2>1. PICK k \in DOMAIN known : metadata = known[k]
    BY <1>3, FirstKey
  <2>2. known # <<>>
    BY <2>1
  <2>3. metadata \in [window : Nat, capabilities : {"plain", "silent", "reasons"}]
    BY <2>1, <2>2, StartupAssumption DEF Downloads
  <2>4. e = [m EXCEPT !.capabilities = metadata.capabilities,
                      !.window = IF @ = 0 THEN metadata.window ELSE @]
    BY <1>3 DEF EnrichModel
  <2> HIDE DEF metadata, e
  <2>5. /\ e \in ModelRecords /\ e.id = m.id /\ e.capabilities = metadata.capabilities
        /\ e.window = IF m.window = 0 THEN metadata.window ELSE m.window
    BY <1>1, <2>3, <2>4 DEF ModelRecords
  <2> QED
    BY <1>1, <1>3, <2>3, <2>5 DEF e
<1> QED
  BY <1>2, <1>3

\* The list that is enriched has the models the upstream listed.
LEMMA EnrichedList ==
  ASSUME NEW list \in Lists, NEW known \in Downloads, NEW provider
  PROVE  /\ list \in Seq(Models) /\ Len(list) \in Nat /\ DOMAIN list = 1..Len(list)
         /\ EnrichModels(list, known, provider) \in Seq(ModelRecords)
         /\ Len(EnrichModels(list, known, provider)) = Len(list)
         /\ DOMAIN EnrichModels(list, known, provider) = 1..Len(list)
         /\ \A i \in 1..Len(list) :
              /\ list[i] \in Models
              /\ EnrichModels(list, known, provider)[i] =
                   EnrichModel(list[i], known, provider)
<1>1. PICK n \in 0..Listed : list \in [1..n -> Models]
  BY DEF Lists, BoundedSeq, SeqOf
<1>2. n \in Nat
  BY StartupAssumption
<1>3. list \in Seq(Models) /\ Len(list) = n /\ DOMAIN list = 1..n
  BY <1>1, <1>2
<1>4. \A i \in 1..n : EnrichModel(list[i], known, provider) \in ModelRecords
  BY <1>1, Enriched
<1>5. EnrichModels(list, known, provider) =
        [i \in 1..n |-> EnrichModel(list[i], known, provider)]
  BY <1>3 DEF EnrichModels
<1>6. EnrichModels(list, known, provider) \in [1..n -> ModelRecords]
  BY <1>4, <1>5
<1> QED
  BY <1>1, <1>2, <1>3, <1>5, <1>6

-----------------------------------------------------------------------------
\* A named model that is free and writes text.
IsFreeText(m) == m.id # NoID /\ IsFreeModel(m) /\ m.textOnly

\* Such a model is taken from a list if the list has any.
LEMMA FirstFreeText ==
  ASSUME NEW list, DOMAIN list \subseteq Nat
  PROVE  \/ /\ FirstCurrentFreeModel(list) = NoID
            /\ \A i \in DOMAIN list : ~IsFreeText(list[i])
         \/ \E i \in DOMAIN list :
              IsFreeText(list[i]) /\ FirstCurrentFreeModel(list) = list[i].id
<1> DEFINE hits == {i \in DOMAIN list : IsFreeText(list[i])}
<1>1. FirstCurrentFreeModel(list) = IF hits = {} THEN NoID ELSE list[Min(hits)].id
  BY DEF FirstCurrentFreeModel, FirstID, IsFreeText
<1>2. hits # {} => Min(hits) \in hits
  <2>1. hits \subseteq Nat
    OBVIOUS
  <2> HIDE DEF hits
  <2> QED
    BY <2>1, Least
<1> QED
  BY <1>1, <1>2

\* Any named model is taken if the list has one.
LEMMA FirstNamed ==
  ASSUME NEW list, DOMAIN list \subseteq Nat
  PROVE  \/ /\ FirstModelID(list) = NoID
            /\ \A i \in DOMAIN list : list[i].id = NoID
         \/ \E i \in DOMAIN list :
              list[i].id # NoID /\ FirstModelID(list) = list[i].id
<1> DEFINE hits == {i \in DOMAIN list : list[i].id # NoID}
<1>1. FirstModelID(list) = IF hits = {} THEN NoID ELSE list[Min(hits)].id
  BY DEF FirstModelID, FirstID
<1>2. hits # {} => Min(hits) \in hits
  <2>1. hits \subseteq Nat
    OBVIOUS
  <2> HIDE DEF hits
  <2> QED
    BY <2>1, Least
<1> QED
  BY <1>1, <1>2

\* What a loop keeps of a list is what is at the places kept.
LEMMA KeptRange ==
  ASSUME NEW list, NEW S, S \subseteq Nat, IsFiniteSet(S)
  PROVE  Range(Kept(list, S)) = {list[i] : i \in S}
<1>1. /\ \A j \in 1..Cardinality(S) : Nth(S, j) \in S
      /\ \A i \in S : \E j \in 1..Cardinality(S) : Nth(S, j) = i
  BY NthPlace
<1> QED
  BY <1>1 DEF Range, Kept

\* Codex is shown the named models, each once, in their order.
LEMMA CodexShows ==
  ASSUME NEW list \in Seq(ModelRecords),
         NEW named, named = {i \in DOMAIN list : list[i].id # NoID}
  PROVE  /\ {e.priority : e \in Range(CodexModelCatalog(list))} = named
         /\ \A j, k \in DOMAIN CodexModelCatalog(list) :
              j < k => CodexModelCatalog(list)[j].priority
                         < CodexModelCatalog(list)[k].priority
         /\ \A e \in Range(CodexModelCatalog(list)) :
              /\ e.priority \in DOMAIN list
              /\ e.slug = list[e.priority].id
              /\ e.contextWindow > 0
              /\ list[e.priority].window > 0 =>
                   e.contextWindow = list[e.priority].window
              /\ ~e.reasons => list[e.priority].capabilities = "plain"
<1> DEFINE codex == CodexModelCatalog(list)
           D == 1..Cardinality(named)
<1>1. /\ named \subseteq Nat /\ IsFiniteSet(named) /\ named \subseteq DOMAIN list
      /\ DOMAIN list = 1..Len(list) /\ Len(list) \in Nat
  <2>1. DOMAIN list = 1..Len(list) /\ Len(list) \in Nat
    OBVIOUS
  <2>2. named \in SUBSET (1..Len(list))
    BY <2>1
  <2>3. IsFiniteSet(1..Len(list))
    BY <2>1, FS_Interval
  <2>4. IsFiniteSet(named)
    BY <2>2, <2>3, FS_Subset
  <2>5. named \subseteq Nat /\ named \subseteq DOMAIN list
    BY <2>1
  <2> QED
    BY <2>1, <2>4, <2>5
<1>2. /\ \A j \in D : Nth(named, j) \in named
      /\ \A i \in named : \E j \in D : Nth(named, j) = i
      /\ \A j, k \in D : j < k => Nth(named, j) < Nth(named, k)
  BY <1>1, NthPlace
<1>3. codex = [j \in D |-> CodexEntry(list[Nth(named, j)], Nth(named, j))]
  BY DEF CodexModelCatalog
<1>4. \A m, n : CodexEntry(m, n).priority = n
  BY DEF CodexEntry
<1>5. \A i \in named :
        LET e == CodexEntry(list[i], i)
        IN  /\ e.slug = list[i].id /\ e.contextWindow > 0
            /\ list[i].window > 0 => e.contextWindow = list[i].window
            /\ ~e.reasons => list[i].capabilities = "plain"
  <2> SUFFICES ASSUME NEW i \in named
               PROVE  LET e == CodexEntry(list[i], i)
                      IN  /\ e.slug = list[i].id /\ e.contextWindow > 0
                          /\ list[i].window > 0 => e.contextWindow = list[i].window
                          /\ ~e.reasons => list[i].capabilities = "plain"
    OBVIOUS
  <2>1. list[i] \in ModelRecords
    BY <1>1
  <2>2. list[i].window \in Nat
    BY <2>1 DEF ModelRecords
  <2>3. DefaultContextWindow \in Nat /\ DefaultContextWindow # 0
    BY StartupAssumption
  <2> DEFINE e == CodexEntry(list[i], i)
  <2>4. /\ e.slug = list[i].id /\ e.reasons = (list[i].capabilities # "plain")
        /\ e.contextWindow = IF list[i].window = 0 THEN DefaultContextWindow
                                                  ELSE list[i].window
    BY DEF CodexEntry
  <2> HIDE DEF e
  <2>5. e.contextWindow > 0 /\ (list[i].window > 0 => e.contextWindow = list[i].window)
    BY <2>2, <2>3, <2>4
  <2> QED
    BY <2>4, <2>5 DEF e
<1> HIDE DEF codex
<1>6. \A j \in D : codex[j].priority = Nth(named, j)
  BY <1>3, <1>4
<1>7. Range(codex) = {CodexEntry(list[i], i) : i \in named}
  BY <1>2, <1>3 DEF Range
<1>8. {e.priority : e \in Range(codex)} = named
  BY <1>4, <1>7
<1>9. \A j, k \in DOMAIN codex : j < k => codex[j].priority < codex[k].priority
  <2>1. DOMAIN codex = D
    BY <1>3
  <2> QED
    BY <1>2, <1>6, <2>1, SMTT(30)
<1>10. ASSUME NEW e \in Range(codex)
       PROVE  /\ e.priority \in DOMAIN list /\ e.slug = list[e.priority].id
              /\ e.contextWindow > 0
              /\ list[e.priority].window > 0 =>
                   e.contextWindow = list[e.priority].window
              /\ ~e.reasons => list[e.priority].capabilities = "plain"
  <2>1. PICK i \in named : e = CodexEntry(list[i], i)
    BY <1>7
  <2>2. e.priority = i /\ i \in DOMAIN list
    BY <1>1, <1>4, <2>1
  <2> QED
    BY <1>5, <2>1, <2>2
<1> QED
  BY <1>8, <1>9, <1>10 DEF codex

-----------------------------------------------------------------------------
\* What one identifier weighs in the sort key.
Weight(x, largest) == 1 + x.value + IF x.numeric THEN 0 ELSE largest

\* The weights of identifiers below largest order them as the code does.
LEMMA WeightsOrder ==
  ASSUME NEW x \in Identifiers, NEW y \in Identifiers, NEW largest \in Nat,
         x.value < largest, y.value < largest
  PROVE  /\ Weight(x, largest) \in Nat /\ Weight(x, largest) > 0
         /\ CompareIdentifiers(x, y) = 0 <=> Weight(x, largest) = Weight(y, largest)
         /\ CompareIdentifiers(x, y) = -1 <=> Weight(x, largest) < Weight(y, largest)
<1>1. /\ x.value \in Nat /\ y.value \in Nat /\ x.numeric \in BOOLEAN
      /\ y.numeric \in BOOLEAN
  BY DEF Identifiers
<1>2. CASE x.numeric /\ y.numeric
  BY <1>1, <1>2 DEF Weight, CompareIdentifiers, CompareInts
<1>3. CASE ~x.numeric /\ ~y.numeric
  BY <1>1, <1>3 DEF Weight, CompareIdentifiers, CompareInts
<1>4. CASE x.numeric /\ ~y.numeric
  <2>1. CompareIdentifiers(x, y) = -1
    BY <1>4, Zenon DEF CompareIdentifiers
  <2>2. Weight(x, largest) = 1 + x.value /\ Weight(y, largest) = 1 + y.value + largest
    BY <1>1, <1>4 DEF Weight
  <2> QED
    BY <1>1, <2>1, <2>2
<1>5. CASE ~x.numeric /\ y.numeric
  <2>1. CompareIdentifiers(x, y) = 1
    BY <1>5, Zenon DEF CompareIdentifiers
  <2>2. Weight(x, largest) = 1 + x.value + largest /\ Weight(y, largest) = 1 + y.value
    BY <1>1, <1>5 DEF Weight
  <2> QED
    BY <1>1, <2>1, <2>2
<1> QED
  BY <1>1, <1>2, <1>3, <1>4, <1>5

\* Two keys are ordered by the first place at which they differ.
LEMMA FirstDifference ==
  ASSUME NEW n \in Nat, NEW f \in [1..n -> Nat], NEW g \in [1..n -> Nat],
         NEW i \in 1..n, f[i] # g[i], \A j \in 1..(i - 1) : f[j] = g[j]
  PROVE  Precedes(f, g) <=> f[i] < g[i]
<1>1. f[i] < g[i] => Precedes(f, g)
  BY DEF Precedes
<1>2. ASSUME Precedes(f, g) PROVE f[i] < g[i]
  <2>1. PICK k \in 1..n : f[k] < g[k] /\ \A j \in 1..(k - 1) : f[j] = g[j]
    BY <1>2 DEF Precedes
  <2>2. CASE k < i
    <3>1. k \in 1..(i - 1)
      BY <2>2
    <3>2. f[k] = g[k] /\ f[k] \in Nat
      BY <3>1
    <3> QED
      BY <2>1, <3>2
  <2>3. CASE i < k
    <3>1. i \in 1..(k - 1)
      BY <2>3
    <3> QED
      BY <2>1, <3>1
  <2>4. k < i \/ i < k \/ k = i
    OBVIOUS
  <2> QED
    BY <2>1, <2>2, <2>3, <2>4
<1> QED
  BY <1>1, <1>2

\* Nothing precedes what is equal to it.
LEMMA NoDifference ==
  ASSUME NEW n \in Nat, NEW f \in [1..n -> Nat], NEW g \in [1..n -> Nat],
         \A j \in 1..n : f[j] = g[j]
  PROVE  ~Precedes(f, g)
BY DEF Precedes

\* What stands in the sort key at which place.
LEMMA Keys ==
  ASSUME NEW v \in Versions, ParsesAsSemantic(v), NEW longest \in Nat,
         NEW largest \in Nat, Len(v.prerelease) <= longest
  PROVE  /\ SortKey(v, longest, largest) \in [1..(4 + longest) -> Nat]
         /\ \A i \in 1..3 : SortKey(v, longest, largest)[i] = v.core[i]
         /\ SortKey(v, longest, largest)[4] = IF v.prerelease = <<>> THEN 1 ELSE 0
         /\ \A i \in 1..longest : SortKey(v, longest, largest)[4 + i] =
              IF i > Len(v.prerelease) THEN 0 ELSE Weight(v.prerelease[i], largest)
<1>1. /\ v.core \in Seq(Nat) /\ Len(v.core) = 3
      /\ v.prerelease \in Seq(Identifiers) /\ Len(v.prerelease) \in Nat
  BY DEF Versions, ParsesAsSemantic
<1> DEFINE flag == <<IF v.prerelease = <<>> THEN 1 ELSE 0>>
           cells == [i \in 1..longest |->
                       IF i > Len(v.prerelease) THEN 0
                       ELSE Weight(v.prerelease[i], largest)]
<1>2. flag \in Seq(Nat) /\ Len(flag) = 1
      /\ flag[1] = IF v.prerelease = <<>> THEN 1 ELSE 0
  OBVIOUS
<1>3. ASSUME NEW i \in 1..longest, ~(i > Len(v.prerelease))
      PROVE  Weight(v.prerelease[i], largest) \in Nat
  <2>1. v.prerelease[i] \in Identifiers
    BY <1>1, <1>3
  <2>2. v.prerelease[i].value \in Nat
    BY <2>1 DEF Identifiers
  <2> QED
    BY <2>2, SMTT(30) DEF Weight
<1>4. cells \in [1..longest -> Nat]
  BY <1>3
<1>5. cells \in Seq(Nat) /\ Len(cells) = longest
  <2> HIDE DEF cells
  <2> QED
    BY <1>4
<1>6. SortKey(v, longest, largest) = v.core \o flag \o cells
  BY DEF SortKey, Weight
<1>7. \A i \in 1..longest : cells[i] =
        IF i > Len(v.prerelease) THEN 0 ELSE Weight(v.prerelease[i], largest)
  OBVIOUS
<1> HIDE DEF flag, cells
<1> DEFINE front == v.core \o flag
<1>8. /\ front \in Seq(Nat) /\ Len(front) = 4
      /\ \A i \in 1..3 : front[i] = v.core[i]
      /\ front[4] = flag[1]
  <2>1. /\ front \in Seq(Nat) /\ Len(front) = 3 + 1
        /\ \A i \in 1..(3 + 1) : front[i] = IF i <= 3 THEN v.core[i] ELSE flag[i - 3]
    <3>1. v.core \in Seq(Nat) /\ flag \in Seq(Nat) /\ Len(v.core) = 3 /\ Len(flag) = 1
      BY <1>1, <1>2
    <3> HIDE DEF front
    <3>2. /\ v.core \o flag \in Seq(Nat) /\ Len(v.core \o flag) = 3 + 1
          /\ \A i \in 1..(3 + 1) :
               (v.core \o flag)[i] = IF i <= 3 THEN v.core[i] ELSE flag[i - 3]
      <4>1. /\ v.core \o flag \in Seq(Nat)
            /\ Len(v.core \o flag) = Len(v.core) + Len(flag)
            /\ \A i \in 1..(Len(v.core) + Len(flag)) :
                 (v.core \o flag)[i] = IF i <= Len(v.core) THEN v.core[i]
                                       ELSE flag[i - Len(v.core)]
        BY <3>1, ConcatProperties
      <4> QED
        BY <3>1, <4>1, Zenon
    <3> QED
      BY <3>2, Zenon DEF front
  <2> HIDE DEF front
  <2> QED
    BY <2>1
<1> HIDE DEF front
<1> DEFINE whole == front \o cells
<1>9. /\ whole \in Seq(Nat) /\ Len(whole) = 4 + longest
      /\ \A i \in 1..4 : whole[i] = front[i]
      /\ \A i \in 1..longest : whole[4 + i] = cells[i]
  <2>1. /\ whole \in Seq(Nat) /\ Len(whole) = 4 + longest
        /\ \A i \in 1..(4 + longest) :
             whole[i] = IF i <= 4 THEN front[i] ELSE cells[i - 4]
    <3>1. /\ front \in Seq(Nat) /\ cells \in Seq(Nat)
          /\ Len(front) = 4 /\ Len(cells) = longest
      BY <1>5, <1>8
    <3> HIDE DEF whole
    <3>2. /\ front \o cells \in Seq(Nat) /\ Len(front \o cells) = 4 + longest
          /\ \A i \in 1..(4 + longest) :
               (front \o cells)[i] = IF i <= 4 THEN front[i] ELSE cells[i - 4]
      <4>1. /\ front \o cells \in Seq(Nat)
            /\ Len(front \o cells) = Len(front) + Len(cells)
            /\ \A i \in 1..(Len(front) + Len(cells)) :
                 (front \o cells)[i] = IF i <= Len(front) THEN front[i]
                                       ELSE cells[i - Len(front)]
        BY <3>1, ConcatProperties
      <4> QED
        BY <3>1, <4>1, Zenon
    <3> QED
      BY <3>2, Zenon DEF whole
  <2> HIDE DEF whole
  <2>3. \A i \in 1..4 : whole[i] = front[i]
    BY <2>1
  <2>4. ASSUME NEW i \in 1..longest PROVE whole[4 + i] = cells[i]
    <3>1. 4 + i \in 1..(4 + longest) /\ ~(4 + i <= 4) /\ (4 + i) - 4 = i
      OBVIOUS
    <3> QED
      BY <2>1, <3>1
  <2> QED
    BY <2>1, <2>3, <2>4
<1>10. SortKey(v, longest, largest) = whole
  BY <1>6 DEF front
<1> HIDE DEF whole
<1>11. whole \in [1..(4 + longest) -> Nat]
  <2>1. whole \in [1..Len(whole) -> Nat]
    BY <1>9, LenProperties
  <2> QED
    BY <1>9, <2>1, Zenon
<1>12. \A i \in 1..3 : whole[i] = v.core[i]
  BY <1>8, <1>9
<1>13. whole[4] = IF v.prerelease = <<>> THEN 1 ELSE 0
  BY <1>2, <1>8, <1>9
<1> QED
  BY <1>7, <1>9, <1>10, <1>11, <1>12, <1>13

-----------------------------------------------------------------------------
\* The comparison of two versions is the order of their sort keys, whenever
\* longest and largest bound their identifiers.
LEMMA ComparedByKeys ==
  ASSUME NEW a \in Versions, NEW b \in Versions, ParsesAsSemantic(a),
         ParsesAsSemantic(b), NEW longest \in Nat, NEW largest \in Nat,
         Len(a.prerelease) <= longest, Len(b.prerelease) <= longest,
         \A i \in DOMAIN a.prerelease : a.prerelease[i].value < largest,
         \A i \in DOMAIN b.prerelease : b.prerelease[i].value < largest
  PROVE  CompareSemanticVersions(a, b) = -1
           <=> Precedes(SortKey(a, longest, largest), SortKey(b, longest, largest))
<1> DEFINE p == a.prerelease
           q == b.prerelease
           m == Len(p)
           n == Len(q)
           f == SortKey(a, longest, largest)
           g == SortKey(b, longest, largest)
           places == 4 + longest
           different == {i \in 1..3 : a.core[i] # b.core[i]}
<1>1. /\ p \in Seq(Identifiers) /\ q \in Seq(Identifiers) /\ m \in Nat /\ n \in Nat
      /\ p = <<>> <=> m = 0
      /\ q = <<>> <=> n = 0
      /\ m <= longest /\ n <= longest
  BY DEF Versions
<1>2. /\ \A i \in 1..3 : a.core[i] \in Nat /\ b.core[i] \in Nat
  <2>1. /\ a.core \in Seq(Nat) /\ Len(a.core) = 3
        /\ b.core \in Seq(Nat) /\ Len(b.core) = 3
    BY DEF Versions, ParsesAsSemantic
  <2>2. ASSUME NEW i \in 1..3 PROVE a.core[i] \in Nat /\ b.core[i] \in Nat
    <3>1. i \in 1..Len(a.core) /\ i \in 1..Len(b.core)
      BY <2>1
    <3> QED
      BY <2>1, <3>1, ElementOfSeq
  <2> QED
    BY <2>2
<1>3. /\ f \in [1..places -> Nat]
      /\ \A i \in 1..3 : f[i] = a.core[i]
      /\ f[4] = IF p = <<>> THEN 1 ELSE 0
      /\ \A i \in 1..longest : f[4 + i] = IF i > m THEN 0 ELSE Weight(p[i], largest)
  BY Keys, ZenonT(60)
<1>4. /\ g \in [1..places -> Nat]
      /\ \A i \in 1..3 : g[i] = b.core[i]
      /\ g[4] = IF q = <<>> THEN 1 ELSE 0
      /\ \A i \in 1..longest : g[4 + i] = IF i > n THEN 0 ELSE Weight(q[i], largest)
  BY Keys, ZenonT(60)
<1>5. /\ places \in Nat /\ \A i \in 1..longest : 4 + i \in 1..places
      /\ \A i \in 1..4 : i \in 1..places
      /\ \A j \in 1..places : j \in 1..3 \/ j = 4 \/ \E i \in 1..longest : j = 4 + i
  <2>1. ASSUME NEW j \in 1..places PROVE j \in 1..3 \/ j = 4 \/ \E i \in 1..longest : j = 4 + i
    <3>1. j > 4 => j - 4 \in 1..longest /\ j = 4 + (j - 4)
      OBVIOUS
    <3>2. j \in 1..3 \/ j = 4 \/ j > 4
      OBVIOUS
    <3> QED
      BY <3>1, <3>2
  <2> QED
    BY <2>1
<1>6. \A i \in 1..m : p[i] \in Identifiers /\ p[i].value < largest
  BY <1>1
<1>7. \A i \in 1..n : q[i] \in Identifiers /\ q[i].value < largest
  BY <1>1
<1>8. CompareSemanticVersions(a, b) =
        IF different = {} THEN ComparePrerelease(p, q)
        ELSE CompareInts(a.core[Min(different)], b.core[Min(different)])
  BY DEF CompareSemanticVersions
<1> HIDE DEF p, q, f, g, m, n, places, different
\* The numbers differ.
<1>9. CASE different # {}
  <2> DEFINE i == Min(different)
  <2>1. i \in different /\ \A k \in different : i <= k
    <3>1. different \subseteq Nat
      BY DEF different
    <3> QED
      BY <1>9, <3>1, Least
  <2>2. /\ i \in 1..3 /\ f[i] = a.core[i] /\ g[i] = b.core[i]
        /\ a.core[i] # b.core[i] /\ a.core[i] \in Nat /\ b.core[i] \in Nat
    BY <1>2, <1>3, <1>4, <2>1 DEF different
  <2>3. ASSUME NEW j \in 1..(i - 1) PROVE f[j] = g[j]
    <3>1. j \in 1..3 /\ ~(i <= j)
      BY <2>2
    <3>2. j \notin different
      BY <2>1, <3>1
    <3> QED
      BY <1>3, <1>4, <3>1, <3>2 DEF different
  <2> HIDE DEF i
  <2>4. i \in 1..places /\ f[i] # g[i]
    BY <1>5, <2>2
  <2>5. Precedes(f, g) <=> f[i] < g[i]
    BY <1>3, <1>4, <1>5, <2>3, <2>4, FirstDifference
  <2>6. CompareSemanticVersions(a, b) = CompareInts(a.core[i], b.core[i])
    BY <1>8, <1>9 DEF i
  <2> QED
    BY <2>2, <2>5, <2>6 DEF CompareInts, f, g
<1>10. ASSUME different = {} PROVE \A j \in 1..3 : f[j] = g[j]
  BY <1>3, <1>4, <1>10 DEF different
\* One of the two is a release and the other is not.
<1>11. CASE different = {} /\ ((p = <<>> /\ q # <<>>) \/ (p # <<>> /\ q = <<>>))
  <2>1. 4 \in 1..places /\ f[4] # g[4] /\ \A j \in 1..(4 - 1) : f[j] = g[j]
    BY <1>3, <1>4, <1>5, <1>10, <1>11
  <2>2. Precedes(f, g) <=> f[4] < g[4]
    BY <1>3, <1>4, <1>5, <2>1, FirstDifference
  <2>3. CompareSemanticVersions(a, b) = CompareInts(n, m)
    BY <1>8, <1>11 DEF ComparePrerelease, n, m
  <2> QED
    BY <1>1, <1>3, <1>4, <1>11, <2>2, <2>3 DEF CompareInts, f, g
\* Both are releases.
<1>12. CASE different = {} /\ p = <<>> /\ q = <<>>
  <2>1. ASSUME NEW j \in 1..places PROVE f[j] = g[j]
    <3>1. m = 0 /\ n = 0
      BY <1>1, <1>12
    <3>2. \A i \in 1..longest : f[4 + i] = g[4 + i]
      <4>1. \A i \in 1..longest : i > m /\ i > n
        BY <3>1
      <4> QED
        BY <1>3, <1>4, <4>1
    <3>3. f[4] = g[4]
      BY <1>3, <1>4, <1>12
    <3> QED
      BY <1>5, <1>10, <1>12, <3>2, <3>3
  <2>2. ~Precedes(f, g)
    BY <1>3, <1>4, <1>5, <2>1, NoDifference
  <2>3. CompareSemanticVersions(a, b) = CompareInts(n, m)
    BY <1>8, <1>12 DEF ComparePrerelease, n, m
  <2> QED
    BY <1>1, <1>12, <2>2, <2>3 DEF CompareInts, f, g
\* Both have identifiers.
<1>13. CASE different = {} /\ p # <<>> /\ q # <<>>
  <2>1. \A j \in 1..4 : f[j] = g[j]
    BY <1>3, <1>4, <1>10, <1>13
  <2> DEFINE least == Min({m, n})
  <2>2. /\ least \in Nat /\ least = IF m <= n THEN m ELSE n
    <3>1. least \in {m, n} /\ \A y \in {m, n} : least <= y
      <4>1. {m, n} \subseteq Nat /\ {m, n} # {}
        BY <1>1
      <4> QED
        BY <4>1, Least
    <3> HIDE DEF least
    <3> QED
      BY <1>1, <3>1
  <2>3. Differences(p, q) = {i \in 1..least : CompareIdentifiers(p[i], q[i]) # 0}
    BY DEF Differences, m, n
  <2> HIDE DEF least
  <2>4. ASSUME NEW i \in 1..least
        PROVE  /\ i \in 1..longest /\ 4 + i \in 1..places
               /\ f[4 + i] = Weight(p[i], largest) /\ g[4 + i] = Weight(q[i], largest)
               /\ CompareIdentifiers(p[i], q[i]) = 0 <=> f[4 + i] = g[4 + i]
               /\ CompareIdentifiers(p[i], q[i]) = -1 <=> f[4 + i] < g[4 + i]
    <3>1. i \in 1..longest /\ i \in 1..m /\ i \in 1..n /\ ~(i > m) /\ ~(i > n)
      BY <1>1, <2>2
    <3>2. f[4 + i] = Weight(p[i], largest) /\ g[4 + i] = Weight(q[i], largest)
      BY <1>3, <1>4, <3>1
    <3>3. /\ p[i] \in Identifiers /\ p[i].value < largest
          /\ q[i] \in Identifiers /\ q[i].value < largest
      BY <1>6, <1>7, <3>1
    <3>4. /\ CompareIdentifiers(p[i], q[i]) = 0
               <=> Weight(p[i], largest) = Weight(q[i], largest)
          /\ CompareIdentifiers(p[i], q[i]) = -1
               <=> Weight(p[i], largest) < Weight(q[i], largest)
      BY <3>3, WeightsOrder
    <3> QED
      BY <1>5, <3>1, <3>2, <3>4
  <2>5. CASE Differences(p, q) # {}
    <3> DEFINE i == Min(Differences(p, q))
    <3>1. i \in Differences(p, q) /\ \A k \in Differences(p, q) : i <= k
      <4>1. Differences(p, q) \subseteq Nat
        BY <2>2, <2>3
      <4> QED
        BY <2>5, <4>1, Least
    <3> HIDE DEF i
    <3>2. i \in 1..least /\ CompareIdentifiers(p[i], q[i]) # 0
      BY <2>3, <3>1
    <3>3. ASSUME NEW j \in 1..((4 + i) - 1) PROVE f[j] = g[j]
      <4>1. CASE j <= 4
        <5>1. j \in 1..4
          BY <3>2, <4>1
        <5> QED
          BY <2>1, <5>1
      <4>2. CASE j > 4
        <5>1. j - 4 \in 1..least /\ ~(i <= j - 4) /\ 4 + (j - 4) = j
          <6>1. i \in Nat /\ i <= least /\ j \in Nat /\ j <= 3 + i
            BY <2>2, <3>2
          <6> DEFINE k == j - 4
          <6>2. k \in Nat /\ k >= 1 /\ k <= i - 1 /\ 4 + k = j
            BY <4>2, <6>1
          <6>3. least \in Nat
            BY <2>2
          <6> HIDE DEF k
          <6>4. k \in 1..least /\ ~(i <= k) /\ 4 + k = j
            BY <6>1, <6>2, <6>3
          <6> QED
            BY <6>4 DEF k
        <5>2. CompareIdentifiers(p[j - 4], q[j - 4]) = 0
          BY <2>3, <3>1, <5>1
        <5>3. f[4 + (j - 4)] = g[4 + (j - 4)]
          BY <2>4, <5>1, <5>2
        <5> QED
          BY <5>1, <5>3
      <4>3. j <= 4 \/ j > 4
        BY <3>2
      <4> QED
        BY <4>1, <4>2, <4>3
    <3>4. 4 + i \in 1..places /\ f[4 + i] # g[4 + i]
      BY <2>4, <3>2
    <3>5. Precedes(f, g) <=> f[4 + i] < g[4 + i]
      BY <1>3, <1>4, <1>5, <3>3, <3>4, FirstDifference
    <3>6. CompareSemanticVersions(a, b) = CompareIdentifiers(p[i], q[i])
      BY <1>8, <1>13, <2>5 DEF ComparePrerelease, i
    <3> QED
      BY <2>4, <3>2, <3>5, <3>6 DEF f, g
  <2>6. CASE Differences(p, q) = {}
    <3>1. \A i \in 1..least : f[4 + i] = g[4 + i]
      BY <2>3, <2>4, <2>6
    <3>2. CompareSemanticVersions(a, b) = CompareInts(m, n)
      BY <1>8, <1>13, <2>6 DEF ComparePrerelease, m, n
    <3>3. CASE m = n
      <4>1. ASSUME NEW i \in 1..longest PROVE f[4 + i] = g[4 + i]
        <5>1. CASE i <= m
          <6>1. i \in 1..least
            BY <1>1, <2>2, <3>3, <5>1
          <6> QED
            BY <3>1, <6>1
        <5>2. CASE i > m
          BY <1>3, <1>4, <3>3, <5>2
        <5> QED
          BY <1>1, <5>1, <5>2
      <4>2. \A j \in 1..places : f[j] = g[j]
        <5>1. ASSUME NEW j \in 1..places PROVE f[j] = g[j]
          <6>1. \A i \in 1..3 : f[i] = g[i]
            BY <2>1
          <6>2. f[4] = g[4]
            BY <2>1
          <6> QED
            BY <1>5, <4>1, <6>1, <6>2
        <5> QED
          BY <5>1
      <4>3. ~Precedes(f, g)
        BY <1>3, <1>4, <1>5, <4>2, NoDifference
      <4> QED
        BY <1>1, <3>2, <3>3, <4>3 DEF CompareInts, f, g
    <3>4. CASE m # n
      <4> DEFINE i == least + 1
      <4>1. /\ i \in 1..longest /\ 4 + i \in 1..places
            /\ m < n <=> i > m
            /\ n < m <=> i > n
            /\ i > m => i \in 1..n
            /\ i > n => i \in 1..m
            /\ i > m \/ i > n
        <5>1. i \in 1..longest
          BY <1>1, <2>2, <3>4
        <5> QED
          BY <1>1, <1>5, <2>2, <3>4, <5>1
      <4>2. ASSUME NEW j \in 1..((4 + i) - 1) PROVE f[j] = g[j]
        <5>1. CASE j <= 4
          BY <2>1, <2>2, <5>1
        <5>2. CASE j > 4
          <6>1. j - 4 \in 1..least /\ 4 + (j - 4) = j
            <7> DEFINE k == j - 4
            <7>1. j \in Nat /\ j <= 4 + least /\ least \in Nat
              BY <2>2
            <7>2. k \in Nat /\ k >= 1 /\ k <= least /\ 4 + k = j
              BY <5>2, <7>1
            <7> HIDE DEF k
            <7>3. k \in 1..least /\ 4 + k = j
              BY <7>1, <7>2
            <7> QED
              BY <7>3 DEF k
          <6>2. f[4 + (j - 4)] = g[4 + (j - 4)]
            BY <3>1, <6>1
          <6> QED
            BY <6>1, <6>2
        <5>3. j <= 4 \/ j > 4
          BY <2>2
        <5> QED
          BY <5>1, <5>2, <5>3
      <4> HIDE DEF i
      <4>3. CASE m < n
        <5>1. i \in 1..n /\ ~(i > n) /\ i > m
          BY <1>1, <3>4, <4>1, <4>3
        <5>2. Weight(q[i], largest) \in Nat /\ Weight(q[i], largest) > 0
          BY <1>7, <5>1, WeightsOrder
        <5>3. f[4 + i] = 0 /\ g[4 + i] = Weight(q[i], largest)
          BY <1>3, <1>4, <4>1, <5>1
        <5>4. f[4 + i] < g[4 + i] /\ f[4 + i] # g[4 + i]
          BY <5>2, <5>3
        <5>5. Precedes(f, g)
          BY <1>3, <1>4, <1>5, <4>1, <4>2, <5>4, FirstDifference
        <5> QED
          BY <3>2, <4>3, <5>5 DEF CompareInts, f, g
      <4>4. CASE n < m
        <5>1. i \in 1..m /\ ~(i > m) /\ i > n
          BY <1>1, <3>4, <4>1, <4>4
        <5>2. Weight(p[i], largest) \in Nat /\ Weight(p[i], largest) > 0
          BY <1>6, <5>1, WeightsOrder
        <5>3. g[4 + i] = 0 /\ f[4 + i] = Weight(p[i], largest)
          BY <1>3, <1>4, <4>1, <5>1
        <5>4. ~(f[4 + i] < g[4 + i]) /\ f[4 + i] # g[4 + i]
          BY <5>2, <5>3
        <5>5. ~Precedes(f, g)
          BY <1>3, <1>4, <1>5, <4>1, <4>2, <5>4, FirstDifference
        <5> QED
          BY <1>1, <3>2, <4>4, <5>5 DEF CompareInts, f, g
      <4> QED
        BY <1>1, <3>4, <4>3, <4>4
    <3> QED
      BY <3>3, <3>4
  <2> QED
    BY <2>5, <2>6
<1> QED
  BY <1>9, <1>11, <1>12, <1>13

-----------------------------------------------------------------------------
\* The most identifiers a version has, and a number all their values are below.
Longest(a, b) == Max({Len(v.prerelease) : v \in {a, b}})
Values(v) == {v.prerelease[i].value : i \in DOMAIN v.prerelease}
Largest(a, b) == 1 + Max({0} \cup UNION {Values(v) : v \in {a, b}})

\* The values of a version's identifiers are finitely many.
LEMMA FewValues ==
  ASSUME NEW v \in Versions
  PROVE  Values(v) \subseteq Nat /\ IsFiniteSet(Values(v)) /\ Len(v.prerelease) \in Nat
<1>1. /\ v.prerelease \in Seq(Identifiers) /\ Len(v.prerelease) \in Nat
      /\ DOMAIN v.prerelease = 1..Len(v.prerelease)
  BY DEF Versions
<1>2. ASSUME NEW i \in DOMAIN v.prerelease PROVE v.prerelease[i].value \in Nat
  <2>1. v.prerelease[i] \in Identifiers
    BY <1>1
  <2> QED
    BY <2>1 DEF Identifiers
<1> DEFINE value == [i \in 1..Len(v.prerelease) |-> v.prerelease[i].value]
<1>3. value \in Surjection(1..Len(v.prerelease), Values(v))
  <2>1. /\ value \in [1..Len(v.prerelease) -> Values(v)]
        /\ \A x \in Values(v) : \E i \in 1..Len(v.prerelease) : value[i] = x
    BY <1>1 DEF Values
  <2> HIDE DEF value
  <2> QED
    BY <2>1 DEF Surjection
<1>4. IsFiniteSet(1..Len(v.prerelease))
  BY <1>1, FS_Interval
<1>5. IsFiniteSet(Values(v))
  <2> HIDE DEF value
  <2> QED
    BY <1>3, <1>4, FS_Surjection
<1> QED
  BY <1>1, <1>2, <1>5 DEF Values

\* Longest and Largest bound the identifiers of both versions.
LEMMA Bounds ==
  ASSUME NEW a \in Versions, NEW b \in Versions
  PROVE  /\ Longest(a, b) \in Nat /\ Largest(a, b) \in Nat
         /\ Len(a.prerelease) <= Longest(a, b) /\ Len(b.prerelease) <= Longest(a, b)
         /\ \A i \in DOMAIN a.prerelease : a.prerelease[i].value < Largest(a, b)
         /\ \A i \in DOMAIN b.prerelease : b.prerelease[i].value < Largest(a, b)
<1> DEFINE lengths == {Len(a.prerelease), Len(b.prerelease)}
           values == {0} \cup (Values(a) \cup Values(b))
<1>1. Longest(a, b) = Max(lengths) /\ Largest(a, b) = 1 + Max(values)
  <2>1. {Len(v.prerelease) : v \in {a, b}} = lengths
    OBVIOUS
  <2>2. UNION {Values(v) : v \in {a, b}} = Values(a) \cup Values(b)
    OBVIOUS
  <2> QED
    BY <2>1, <2>2 DEF Longest, Largest
<1>2. lengths \subseteq Nat /\ lengths # {} /\ IsFiniteSet(lengths)
  <2>1. lengths = {Len(a.prerelease)} \cup {Len(b.prerelease)}
    OBVIOUS
  <2>2. IsFiniteSet({Len(a.prerelease)} \cup {Len(b.prerelease)})
    BY FS_Singleton, FS_Union
  <2>3. IsFiniteSet(lengths)
    BY <2>1, <2>2, Zenon
  <2>4. Len(a.prerelease) \in Nat /\ Len(b.prerelease) \in Nat
    BY FewValues
  <2> QED
    BY <2>3, <2>4
<1>3. values \subseteq Nat /\ values # {} /\ IsFiniteSet(values)
  <2>1. IsFiniteSet(Values(a) \cup Values(b))
    BY FewValues, FS_Union
  <2>2. IsFiniteSet({0} \cup (Values(a) \cup Values(b)))
    BY <2>1, FS_Singleton, FS_Union
  <2>3. Values(a) \subseteq Nat /\ Values(b) \subseteq Nat
    BY FewValues
  <2> QED
    BY <2>2, <2>3
<1>4. Max(lengths) \in lengths /\ \A y \in lengths : y <= Max(lengths)
  <2> HIDE DEF lengths
  <2> QED
    BY <1>2, Greatest
<1>5. Max(values) \in values /\ \A y \in values : y <= Max(values)
  <2> HIDE DEF values
  <2> QED
    BY <1>3, Greatest
<1>6. \A y \in values : y < 1 + Max(values)
  <2>1. \A y \in values : y \in Nat
    BY <1>3
  <2> HIDE DEF values
  <2> QED
    BY <1>5, <2>1
<1>7. Longest(a, b) \in Nat /\ Largest(a, b) \in Nat
  <2>1. Max(values) \in Nat
    BY <1>3, <1>5
  <2>2. Max(lengths) \in Nat
    BY <1>2, <1>4
  <2> HIDE DEF values, lengths
  <2> QED
    BY <1>1, <2>1, <2>2
<1>8. Len(a.prerelease) <= Longest(a, b) /\ Len(b.prerelease) <= Longest(a, b)
  BY <1>1, <1>4
<1>9. /\ \A i \in DOMAIN a.prerelease : a.prerelease[i].value \in values
      /\ \A i \in DOMAIN b.prerelease : b.prerelease[i].value \in values
  BY DEF Values
<1> QED
  <2> HIDE DEF values, lengths
  <2> QED
    BY <1>1, <1>6, <1>7, <1>8, <1>9

\* The exit code of the update check for two versions that can be compared.
LEMMA ExitOfComparison ==
  ASSUME NEW a \in Versions, NEW b \in Versions, ParsesAsSemantic(a),
         ParsesAsSemantic(b)
  PROVE  ExitCode(CompareReleaseVersions(a, b)) =
           IF Precedes(SortKey(a, Longest(a, b), Largest(a, b)),
                       SortKey(b, Longest(a, b), Largest(a, b))) THEN 1 ELSE 0
<1>1. /\ Longest(a, b) \in Nat /\ Largest(a, b) \in Nat
      /\ Len(a.prerelease) <= Longest(a, b) /\ Len(b.prerelease) <= Longest(a, b)
      /\ \A i \in DOMAIN a.prerelease : a.prerelease[i].value < Largest(a, b)
      /\ \A i \in DOMAIN b.prerelease : b.prerelease[i].value < Largest(a, b)
  BY Bounds
<1>2. CompareSemanticVersions(a, b) = -1
        <=> Precedes(SortKey(a, Longest(a, b), Largest(a, b)),
                     SortKey(b, Longest(a, b), Largest(a, b)))
  BY <1>1, ComparedByKeys
<1>3. ~IsDevelopmentVersion(a)
  BY DEF ParsesAsSemantic, IsDevelopmentVersion
<1>4. CompareReleaseVersions(a, b) =
        CASE CompareSemanticVersions(a, b) = 0 -> "current"
          [] CompareSemanticVersions(a, b) = -1 -> "behind"
          [] OTHER -> "ahead"
  BY <1>3 DEF CompareReleaseVersions
<1>5. CASE CompareSemanticVersions(a, b) = -1
  <2>1. CompareReleaseVersions(a, b) = "behind"
    BY <1>4, <1>5
  <2> QED
    BY <1>2, <1>5, <2>1 DEF ExitCode
<1>6. CASE CompareSemanticVersions(a, b) # -1
  <2>1. CompareReleaseVersions(a, b) \in {"current", "ahead"}
    BY <1>4, <1>6
  <2> QED
    BY <1>2, <1>6, <2>1 DEF ExitCode
<1> QED
  BY <1>5, <1>6

-----------------------------------------------------------------------------
\* What the options and the configuration may say.
Settings ==
  [command : {"error", "help", "check-update", "models", "serve"},
   tui : BOOLEAN, terminal : BOOLEAN, configured : BOOLEAN,
   provider : {"zen", "openrouter"},
   model : {DefaultID, OwnID} \cup {m.id : m \in Models},
   version : OwnVersions]

\* The fallback model that the configuration names.
Configured(conf) == IF conf.configured THEN OwnID ELSE DefaultID

\* The list in use, the number of matches and the fallback model are those of
\* the list sent and of a catalogue that a download may bring.
Resolved(conf, sent, list, number) ==
  \E known \in Downloads :
    /\ sent \in Lists /\ list = EnrichModels(sent, known, conf.provider)
    /\ number = Cardinality({i \in DOMAIN sent :
                  KnownKeys(sent[i].id, known, conf.provider) # {}})
    /\ conf.model =
         ResolveFallbackModel([conf EXCEPT !.model = Configured(conf)], list)

\* What the channels hold before the downloads are used.
Channels(ofModels, ofMetadata, sent) ==
  /\ ofModels = Waiting \/ (sent \in Lists /\ ofModels = <<sent>>)
  /\ ofMetadata = Waiting \/ (\E known \in Downloads : ofMetadata = <<known>>)

\* The exit code is that of a comparison with the release the check was told of.
Told(conf, told, code) ==
  \E tag \in Tags :
    told = <<tag>> /\ code = ExitCode(CompareReleaseVersions(conf.version, tag))

\* What the three properties rest on: before the downloads are used the
\* fallback model is the configured one and the channels hold what was sent;
\* from then on until the end everything is resolved from them; and a release
\* is known only after the end, of which it decided the exit code.
RunInv ==
  /\ cfg \in Settings
  /\ stage \in {"options", "checking", "fetching"} =>
       /\ cfg.model = Configured(cfg) /\ latest = NoRelease
       /\ Channels(modelsCh, metadataCh, upstream)
  /\ stage \in {"listening", "serving", "dashboard", "closing"} =>
       Resolved(cfg, upstream, models, matched) /\ latest = NoRelease
  /\ latest # NoRelease => stage = "exited" /\ Told(cfg, latest, exit)

\* A resolved fallback model is the configured one or one of the list.
LEMMA FallbackNames ==
  ASSUME NEW conf, NEW list \in Seq(ModelRecords), NEW names,
         conf.model \in names, \A i \in DOMAIN list : list[i].id \in names
  PROVE  ResolveFallbackModel(conf, list) \in names
<1>1. DOMAIN list \subseteq Nat
  OBVIOUS
<1>2. FirstCurrentFreeModel(list) = NoID \/ FirstCurrentFreeModel(list) \in names
  BY <1>1, FirstFreeText
<1>3. FirstModelID(list) = NoID \/ FirstModelID(list) \in names
  BY <1>1, FirstNamed
<1> QED
  BY <1>2, <1>3 DEF ResolveFallbackModel

\* The downloads are used once, and what they brought is resolved.
LEMMA ResolveResolves ==
  ASSUME RunInv, Resolve
  PROVE  cfg' \in Settings /\ Resolved(cfg', upstream, models', matched')
<1>1. /\ stage = "fetching" /\ modelsCh # Waiting /\ metadataCh # Waiting
      /\ models' = EnrichModels(Head(modelsCh), Head(metadataCh), cfg.provider)
      /\ matched' = Cardinality({i \in DOMAIN Head(modelsCh) :
           KnownKeys(Head(modelsCh)[i].id, Head(metadataCh), cfg.provider) # {}})
      /\ cfg' = [cfg EXCEPT !.model = ResolveFallbackModel(cfg, models')]
  BY DEF Resolve
<1>2. /\ cfg \in Settings /\ cfg.model = Configured(cfg)
      /\ Channels(modelsCh, metadataCh, upstream)
  BY <1>1 DEF RunInv
<1>3. upstream \in Lists /\ Head(modelsCh) = upstream
  BY <1>1, <1>2 DEF Channels
<1>4. PICK known \in Downloads : Head(metadataCh) = known
  BY <1>1, <1>2 DEF Channels
<1>5. /\ models' = EnrichModels(upstream, known, cfg.provider)
      /\ matched' = Cardinality({i \in DOMAIN upstream :
           KnownKeys(upstream[i].id, known, cfg.provider) # {}})
  BY <1>1, <1>3, <1>4
<1> DEFINE names == {DefaultID, OwnID} \cup {m.id : m \in Models}
           chosen == ResolveFallbackModel(cfg, models')
<1>6. chosen \in names
  <2>1. models' \in Seq(ModelRecords)
    BY <1>3, <1>5, EnrichedList
  <2>2. \A i \in DOMAIN models' : models'[i].id \in names
    <3>1. SUFFICES ASSUME NEW i \in DOMAIN models'
                   PROVE  models'[i].id \in {m.id : m \in Models}
      OBVIOUS
    <3>2. i \in 1..Len(upstream)
      BY <1>3, <1>5, EnrichedList
    <3>3. /\ upstream[i] \in Models
          /\ models'[i] = EnrichModel(upstream[i], known, cfg.provider)
      BY <1>3, <1>5, <3>2, EnrichedList
    <3>4. models'[i].id = upstream[i].id
      BY <3>3, Enriched
    <3> QED
      BY <3>3, <3>4
  <2>3. cfg.model \in names
    BY <1>2 DEF Configured
  <2> HIDE DEF names
  <2> QED
    BY <2>1, <2>2, <2>3, FallbackNames
<1>7. cfg' = [cfg EXCEPT !.model = chosen]
  BY <1>1
<1> HIDE DEF chosen
<1>8. /\ cfg' \in Settings /\ cfg'.model = chosen /\ cfg'.provider = cfg.provider
      /\ cfg'.configured = cfg.configured
      /\ [cfg' EXCEPT !.model = cfg.model] = cfg
  BY <1>2, <1>6, <1>7 DEF Settings
<1>9. Configured(cfg') = cfg.model
  BY <1>2, <1>8 DEF Configured
<1>10. cfg'.model =
         ResolveFallbackModel([cfg' EXCEPT !.model = Configured(cfg')], models')
  BY <1>8, <1>9 DEF chosen
<1> QED
  BY <1>3, <1>5, <1>8, <1>10 DEF Resolved

-----------------------------------------------------------------------------
\* The program starts with the configured fallback model and empty channels.
LEMMA InitRun == Init => RunInv
<1> SUFFICES ASSUME Init PROVE RunInv
  OBVIOUS
<1>1. cfg \in Settings
  BY DEF Init, Settings
<1> QED
  BY <1>1 DEF Init, RunInv, Configured, Channels

\* Every step keeps the invariant.
LEMMA StepRun == RunInv /\ [Next]_vars => RunInv'
<1> SUFFICES ASSUME RunInv, [Next]_vars PROVE RunInv'
  OBVIOUS
<1> USE DEF RunInv
<1>1. CASE ParseRunOptions
  <2>1. /\ UNCHANGED <<cfg, modelsCh, metadataCh, upstream, models, matched, latest>>
        /\ stage = "options" /\ stage' \in {"exited", "checking", "fetching"}
    <3>1. cfg.command \in {"error", "help", "check-update", "models", "serve"}
      BY DEF Settings
    <3> QED
      BY <1>1, <3>1 DEF ParseRunOptions, Exit, GoTo, download, catalogue
  <2> QED
    BY <2>1
<1>2. CASE CheckFails
  BY <1>2 DEF CheckFails, Exit, download, catalogue
<1>3. CASE CheckForUpdate
  <2>1. PICK tag \in Tags : /\ latest' = <<tag>> /\ stage' = "exited"
                            /\ exit' = ExitCode(CompareReleaseVersions(cfg.version, tag))
    BY <1>3 DEF CheckForUpdate, Exit
  <2>2. cfg' = cfg
    BY <1>3 DEF CheckForUpdate
  <2>3. Told(cfg', latest', exit')
    BY <2>1, <2>2 DEF Told
  <2> QED
    BY <2>1, <2>2, <2>3
<1>4. CASE FetchModels
  <2>1. PICK list \in Lists : modelsCh' = <<list>> /\ upstream' = list
    BY <1>4 DEF FetchModels
  <2>2. UNCHANGED <<stage, cfg, metadataCh, models, matched, latest, exit>>
        /\ stage = "fetching"
    BY <1>4 DEF FetchModels, catalogue
  <2>3. Channels(modelsCh', metadataCh', upstream')
    BY <2>1, <2>2 DEF Channels
  <2> QED
    BY <2>2, <2>3
<1>5. CASE FetchModelMetadata
  <2>1. PICK known \in Downloads : metadataCh' = <<known>>
    BY <1>5 DEF FetchModelMetadata, Downloads
  <2>2. UNCHANGED <<stage, cfg, modelsCh, upstream, models, matched, latest, exit>>
        /\ stage = "fetching"
    BY <1>5 DEF FetchModelMetadata, catalogue
  <2>3. Channels(modelsCh', metadataCh', upstream')
    BY <2>1, <2>2 DEF Channels
  <2> QED
    BY <2>2, <2>3
<1>6. CASE Resolve
  <2>1. cfg' \in Settings /\ Resolved(cfg', upstream, models', matched')
    BY <1>6, ResolveResolves
  <2>2. UNCHANGED <<upstream, latest>> /\ stage = "fetching"
    BY <1>6 DEF Resolve
  <2>3. stage' \in {"exited", "listening"}
    BY <1>6 DEF Resolve, Exit, GoTo
  <2>4. Resolved(cfg', upstream', models', matched')
    BY <2>1, <2>2
  <2> QED
    BY <2>1, <2>2, <2>3, <2>4
<1>7. CASE Listen
  <2>1. /\ UNCHANGED <<cfg, upstream, models, matched, latest>>
        /\ stage = "listening" /\ stage' \in {"exited", "dashboard", "serving"}
    BY <1>7 DEF Listen, Exit, GoTo, download, catalogue
  <2> QED
    BY <2>1
<1>8. CASE ServeFails
  BY <1>8 DEF ServeFails, download, catalogue
<1>9. CASE ServeReturns
  BY <1>9 DEF ServeReturns, Exit, download, catalogue
<1>10. CASE Quit
  BY <1>10 DEF Quit, GoTo, download, catalogue
<1>11. CASE Close
  BY <1>11 DEF Close, download, catalogue
<1>12. CASE ServerStopped
  BY <1>12 DEF ServerStopped, Exit, download, catalogue
<1>13. CASE ShutdownDeadline
  BY <1>13 DEF ShutdownDeadline, Exit, download, catalogue
<1>14. CASE UNCHANGED vars
  BY <1>14 DEF vars
<1> QED
  BY <1>1, <1>2, <1>3, <1>4, <1>5, <1>6, <1>7, <1>8, <1>9, <1>10, <1>11, <1>12,
     <1>13, <1>14 DEF Next

\* The invariant holds throughout a run.
LEMMA RunInvariant == Spec => []RunInv
<1> QED
  BY InitRun, StepRun, PTL DEF Spec

\* A fallback model as FallbackIsCurrent asks for.
LEMMA FallbackSuits ==
  ASSUME RunInv PROVE FallbackIsCurrent
<1> SUFFICES ASSUME Serving, IDs \ {NoID} # {}
             PROVE  IF cfg.configured THEN cfg.model = OwnID
                    ELSE /\ cfg.model \in IDs \/ cfg.provider = "openrouter"
                         /\ \/ cfg.model \in FreeShown \cup {DefaultID}
                            \/ cfg.provider = "zen"
                         /\ \/ cfg.model \in FreeTextIDs
                            \/ DefaultID \in IDs \/ FreeTextIDs = {}
  BY DEF FallbackIsCurrent
<1>1. Resolved(cfg, upstream, models, matched) /\ cfg \in Settings
  BY DEF RunInv, Serving
<1>2. models \in Seq(ModelRecords)
  BY <1>1, EnrichedList DEF Resolved
<1>3. DOMAIN models \subseteq Nat /\ IsFiniteSet(DOMAIN models)
  <2>1. DOMAIN models = 1..Len(models) /\ Len(models) \in Nat
    BY <1>2
  <2>2. IsFiniteSet(1..Len(models))
    BY <2>1, FS_Interval
  <2> QED
    BY <2>1, <2>2
<1> DEFINE conf == [cfg EXCEPT !.model = Configured(cfg)]
           free == FirstCurrentFreeModel(models)
           first == FirstModelID(models)
<1>4. /\ conf.configured = cfg.configured /\ conf.provider = cfg.provider
      /\ conf.model = Configured(cfg) /\ cfg.provider \in {"zen", "openrouter"}
      /\ cfg.configured \in BOOLEAN
  BY <1>1 DEF Settings
<1>5. cfg.model =
        IF \/ cfg.configured
           \/ \E i \in DOMAIN models : models[i].id = Configured(cfg)
           \/ (IF free = NoID /\ cfg.provider # "openrouter" THEN first ELSE free) = NoID
        THEN Configured(cfg)
        ELSE IF free = NoID /\ cfg.provider # "openrouter" THEN first ELSE free
  <2>1. cfg.model = ResolveFallbackModel(conf, models)
    BY <1>1 DEF Resolved
  <2> HIDE DEF conf
  <2> QED
    BY <1>4, <2>1 DEF ResolveFallbackModel
<1>6. \/ free = NoID /\ \A i \in DOMAIN models : ~IsFreeText(models[i])
      \/ \E i \in DOMAIN models : IsFreeText(models[i]) /\ free = models[i].id
  BY <1>3, FirstFreeText
<1>7. \/ first = NoID /\ \A i \in DOMAIN models : models[i].id = NoID
      \/ \E i \in DOMAIN models : models[i].id # NoID /\ first = models[i].id
  BY <1>3, FirstNamed
<1>8. FreeTextIDs = {models[i].id : i \in {k \in DOMAIN models : IsFreeText(models[k])}}
  BY DEF FreeTextIDs, IsFreeText, Range
<1>9. FreeTextIDs \subseteq FreeShown
  <2> DEFINE shown == {i \in DOMAIN models : ShownAsFree(models[i], cfg.provider)}
  <2>1. shown \subseteq Nat /\ IsFiniteSet(shown)
    BY <1>3, FS_Subset
  <2>2. PartitionModels(models, cfg.provider).free = Kept(models, shown)
    BY DEF PartitionModels
  <2>3. \A i \in DOMAIN models : IsFreeText(models[i]) => i \in shown
    BY DEF IsFreeText, ShownAsFree
  <2> HIDE DEF shown
  <2>4. Range(Kept(models, shown)) = {models[i] : i \in shown}
    BY <2>1, KeptRange
  <2>5. FreeShown = {m.id : m \in {models[i] : i \in shown}}
    BY <2>2, <2>4 DEF FreeShown
  <2> QED
    BY <1>8, <2>3, <2>5
<1> HIDE DEF free, first, conf
<1>10. free \in FreeTextIDs \/ (free = NoID /\ FreeTextIDs = {})
  BY <1>6, <1>8
<1>11. first \in IDs /\ first # NoID
  BY <1>7 DEF IDs
<1>12. FreeTextIDs \subseteq IDs
  BY <1>8 DEF IDs
<1>13. NoID \notin FreeTextIDs
  BY DEF FreeTextIDs
<1>14. CASE cfg.configured
  BY <1>5, <1>14 DEF Configured
<1>15. CASE ~cfg.configured
  <2>1. Configured(cfg) = DefaultID
    BY <1>15 DEF Configured
  <2>2. DefaultID \in IDs <=> \E i \in DOMAIN models : models[i].id = DefaultID
    BY DEF IDs
  <2>3. CASE DefaultID \in IDs
    BY <1>5, <1>15, <2>1, <2>2, <2>3
  <2>4. CASE DefaultID \notin IDs
    <3>1. CASE free # NoID
      BY <1>4, <1>5, <1>9, <1>10, <1>12, <1>15, <2>1, <2>2, <2>4, <3>1
    <3>2. CASE free = NoID
      BY <1>4, <1>5, <1>10, <1>11, <1>13, <1>15, <2>1, <2>2, <2>4, <3>2
    <3> QED
      BY <3>1, <3>2
  <2> QED
    BY <2>3, <2>4
<1> QED
  BY <1>4, <1>14, <1>15

\* The models served as MetadataFillsGaps asks for.
LEMMA GapsAreFilled ==
  ASSUME RunInv PROVE MetadataFillsGaps
<1> SUFFICES ASSUME Serving PROVE MetadataFillsGaps
  BY DEF MetadataFillsGaps
<1>1. Resolved(cfg, upstream, models, matched)
  BY DEF RunInv, Serving
<1>2. PICK known \in Downloads :
        /\ upstream \in Lists /\ models = EnrichModels(upstream, known, cfg.provider)
        /\ matched = Cardinality({i \in DOMAIN upstream :
             KnownKeys(upstream[i].id, known, cfg.provider) # {}})
  BY <1>1 DEF Resolved
<1>3. /\ models \in Seq(ModelRecords) /\ Len(models) = Len(upstream)
      /\ DOMAIN models = DOMAIN upstream
  BY <1>2, EnrichedList
<1>4. ASSUME NEW i \in DOMAIN models
      PROVE  /\ models[i].id = upstream[i].id
             /\ models[i].window # upstream[i].window =>
                  upstream[i].window = 0 /\ models[i].capabilities # "absent"
             /\ models[i].capabilities # "absent" <=>
                  KnownKeys(upstream[i].id, known, cfg.provider) # {}
             /\ upstream[i].window \in Nat
             /\ upstream[i].window > 0 => models[i].window = upstream[i].window
  <2>1. upstream[i] \in Models /\ models[i] = EnrichModel(upstream[i], known, cfg.provider)
    BY <1>2, <1>3, <1>4, EnrichedList
  <2>2. /\ upstream[i] \in ModelRecords /\ models[i].id = upstream[i].id
        /\ models[i].window # upstream[i].window =>
             upstream[i].window = 0 /\ KnownKeys(upstream[i].id, known, cfg.provider) # {}
        /\ models[i].capabilities # "absent" <=>
             KnownKeys(upstream[i].id, known, cfg.provider) # {}
    <3> DEFINE m == upstream[i]
               e == EnrichModel(m, known, cfg.provider)
    <3>1. m \in Models /\ known \in Downloads
      BY <2>1
    <3> HIDE DEF m
    <3>2. /\ m \in ModelRecords /\ e.id = m.id
          /\ e.window # m.window =>
               m.window = 0 /\ KnownKeys(m.id, known, cfg.provider) # {}
          /\ e.capabilities # "absent" <=> KnownKeys(m.id, known, cfg.provider) # {}
      BY <3>1, Enriched
    <3>3. models[i] = e
      BY <2>1 DEF m
    <3> HIDE DEF e
    <3> QED
      BY <3>2, <3>3 DEF m
  <2>3. upstream[i].window \in Nat
    BY <2>2 DEF ModelRecords
  <2> QED
    BY <2>2, <2>3
<1>5. matched = Cardinality({i \in DOMAIN models : models[i].capabilities # "absent"})
  <2>1. {i \in DOMAIN models : models[i].capabilities # "absent"} =
          {i \in DOMAIN upstream : KnownKeys(upstream[i].id, known, cfg.provider) # {}}
    BY <1>3, <1>4
  <2> QED
    BY <1>2, <2>1
<1> DEFINE codex == CodexModelCatalog(models)
           named == {i \in DOMAIN upstream : upstream[i].id # NoID}
<1>6. named = {i \in DOMAIN models : models[i].id # NoID}
  BY <1>3, <1>4
<1>7. /\ {e.priority : e \in Range(codex)} = named
      /\ \A j, k \in DOMAIN codex : j < k => codex[j].priority < codex[k].priority
      /\ \A e \in Range(codex) :
           /\ e.priority \in DOMAIN models /\ e.slug = models[e.priority].id
           /\ e.contextWindow > 0
           /\ models[e.priority].window > 0 => e.contextWindow = models[e.priority].window
           /\ ~e.reasons => models[e.priority].capabilities = "plain"
  <2> HIDE DEF named
  <2> QED
    BY <1>3, <1>6, CodexShows
<1> HIDE DEF codex
<1>8. ASSUME NEW e \in Range(codex)
      PROVE  LET m == upstream[e.priority]
             IN  /\ e.slug = m.id /\ e.contextWindow > 0
                 /\ m.window > 0 => e.contextWindow = m.window
                 /\ ~e.reasons => models[e.priority].capabilities = "plain"
  <2> DEFINE i == e.priority
  <2>1. /\ i \in DOMAIN models /\ e.slug = models[i].id /\ e.contextWindow > 0
        /\ models[i].window > 0 => e.contextWindow = models[i].window
        /\ ~e.reasons => models[i].capabilities = "plain"
    BY <1>7
  <2> HIDE DEF i
  <2>2. /\ models[i].id = upstream[i].id
        /\ upstream[i].window > 0 => models[i].window = upstream[i].window
    BY <1>4, <2>1
  <2>3. upstream[i].window > 0 => e.contextWindow = upstream[i].window
    BY <2>1, <2>2
  <2> QED
    BY <2>1, <2>2, <2>3 DEF i
<1> QED
  BY <1>3, <1>4, <1>5, <1>7, <1>8 DEF MetadataFillsGaps, codex

\* The exit code as ExitTellsRelease asks for.
LEMMA ExitIsTold ==
  ASSUME RunInv PROVE ExitTellsRelease
<1> SUFFICES ASSUME latest # NoRelease PROVE ExitTellsRelease
  BY DEF ExitTellsRelease
<1>1. PICK tag \in Tags :
        latest = <<tag>> /\ exit = ExitCode(CompareReleaseVersions(cfg.version, tag))
  BY DEF RunInv, Told
<1>2. cfg.version \in Versions /\ tag \in Versions /\ Head(latest) = tag
  BY <1>1, StartupAssumption DEF RunInv, Settings
<1>3. ParsesAsSemantic(cfg.version) /\ ParsesAsSemantic(tag) =>
        exit = IF Precedes(SortKey(cfg.version, Longest(cfg.version, tag),
                                   Largest(cfg.version, tag)),
                           SortKey(tag, Longest(cfg.version, tag),
                                   Largest(cfg.version, tag))) THEN 1 ELSE 0
  BY <1>1, <1>2, ExitOfComparison
<1> QED
  BY <1>2, <1>3 DEF ExitTellsRelease, Longest, Largest, Values

\* The model a server falls back to is the user's if there is one, and
\* otherwise one that the upstream lists, free and writing text if the list
\* has such a model and the built-in one is gone (config.go:
\* resolveFallbackModel).
THEOREM FallbackModelIsCurrent == Spec => []FallbackIsCurrent
<1> QED
  BY RunInvariant, FallbackSuits, PTL

\* What the catalogue adds leaves the list as the upstream sent it and the
\* windows it reported, and Codex is shown every named model in its order
\* (model_metadata.go: EnrichModels; completions.go:
\* codexModelCatalog).
THEOREM MetadataOnlyFillsGaps == Spec => []MetadataFillsGaps
<1> QED
  BY RunInvariant, GapsAreFilled, PTL

\* The exit code of the update check says whether the release it was told of
\* is newer, for any two versions that can be compared (update.go).
THEOREM ExitCodeTellsRelease == Spec => []ExitTellsRelease
<1> QED
  BY RunInvariant, ExitIsTold, PTL

=============================================================================
