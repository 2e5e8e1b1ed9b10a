--------------------------- MODULE JsonViewer_proofs ---------------------------
(***************************************************************************)
(* Proofs about JsonViewer: the cached lines are current, the cursor is on *)
(* one of them, and a click hits what is drawn under the pointer, for any  *)
(* bodies, any traffic and terminals of any size.                          *)
(*                                                                         *)
(* First the order of the document, in which a node has its position among *)
(* any finite number of nodes (NodeAtPosition), and what of a tree is      *)
(* visible.  Inv is inductive; each handler is shown to end in one of a    *)
(* few ways (Keeps, Walks, Folds, ShowsAnew), which all hand a tree to the *)
(* end of Update that fits the cache (SettleInv).  Last the layout: where  *)
(* the tabs are, and where the list and the panel stand.                   *)
(*                                                                         *)
(* Induction over the length of a row of tabs is written as a least        *)
(* counterexample.                                                         *)
(***************************************************************************)
EXTENDS JsonViewer, SequenceTheorems, FiniteSetTheorems, WellFoundedInduction, TLAPS

-----------------------------------------------------------------------------
\* A set of numbers that is not empty has a least one.
LEMMA Least ==
  ASSUME NEW S, S \subseteq Nat, S # {}
  PROVE  \E x \in S : \A y \in S : x <= y
<1>1. PICK x \in S : \A y \in S : <<y, x>> \notin OpToRel(<, Nat)
  BY NatLessThanWellFounded, WFMin
<1>2. \A y \in S : ~(y < x)
  BY <1>1 DEF OpToRel
<1>3. \A y \in S : x <= y
  BY <1>2
<1> QED
  BY <1>3

\* A path of a node.
Path == Seq(Nat)

\* What a path has at place i, 0 behind its end.
Step(p, i) == IF i \in 1..Len(p) THEN 1 + p[i] ELSE 0

\* i is the first place at which the paths differ, and p has less there.
Parts(p, q, i) == /\ Step(p, i) < Step(q, i)
                  /\ \A j \in 1..(i - 1) : Step(p, j) = Step(q, j)

\* The steps of a path are numbers, 0 just behind its end.
LEMMA Steps ==
  ASSUME NEW p \in Path
  PROVE  /\ Len(p) \in Nat /\ \A i \in 1..Len(p) : p[i] \in Nat
         /\ \A i : Step(p, i) \in Nat
         /\ \A i : Step(p, i) = 0 <=> i \notin 1..Len(p)
         /\ \A i \in 1..Len(p) : Step(p, i) = 1 + p[i]
<1>1. Len(p) \in Nat /\ \A i \in 1..Len(p) : p[i] \in Nat
  BY DEF Path
<1> QED
  BY <1>1 DEF Step

\* A strict prefix is shorter and agrees as far as it goes.
LEMMA StrictPrefixIs ==
  ASSUME NEW p \in Path, NEW q \in Path
  PROVE  IsStrictPrefix(p, q) <=>
           Len(p) < Len(q) /\ \A i \in 1..Len(p) : p[i] = q[i]
<1> USE DEF Path
<1>1. /\ p \in Seq(Nat) /\ q \in Seq(Nat) /\ Len(p) \in Nat /\ Len(q) \in Nat
      /\ DOMAIN p = 1..Len(p) /\ DOMAIN q = 1..Len(q)
  OBVIOUS
<1>2. ASSUME Len(p) <= Len(q)
      PROVE  SubSeq(p, 1, Len(p)) = SubSeq(q, 1, Len(p))
               <=> \A i \in 1..Len(p) : p[i] = q[i]
  <2>1. /\ SubSeq(p, 1, Len(p)) = [i \in 1..Len(p) |-> p[i]]
        /\ SubSeq(q, 1, Len(p)) = [i \in 1..Len(p) |-> q[i]]
    BY <1>1, <1>2
  <2> QED
    BY <2>1
<1>3. ASSUME Len(p) = Len(q), \A i \in 1..Len(p) : p[i] = q[i]
      PROVE  p = q
  BY <1>1, <1>3, SeqEqual
<1> QED
  <2>1. ASSUME IsStrictPrefix(p, q)
        PROVE  Len(p) < Len(q) /\ \A i \in 1..Len(p) : p[i] = q[i]
    <3>1. Len(p) <= Len(q) /\ p # q /\ \A i \in 1..Len(p) : p[i] = q[i]
      BY <1>2, <2>1 DEF IsStrictPrefix, IsPrefix
    <3>2. Len(p) # Len(q) /\ Len(p) <= Len(q)
      BY <1>3, <3>1
    <3>3. Len(p) \in Nat /\ Len(q) \in Nat
      BY <1>1
    <3>4. Len(p) < Len(q)
      BY <3>2, <3>3
    <3> QED
      BY <3>1, <3>4
  <2>2. ASSUME Len(p) < Len(q), \A i \in 1..Len(p) : p[i] = q[i]
        PROVE  IsStrictPrefix(p, q)
    <3>0. Len(p) \in Nat /\ Len(q) \in Nat /\ Len(p) < Len(q)
      BY <1>1, <2>2
    <3>1. Len(p) <= Len(q) /\ Len(p) # Len(q)
      BY <3>0
    <3>2. p # q
      BY <3>1
    <3> QED
      BY <1>2, <2>2, <3>1, <3>2 DEF IsStrictPrefix, IsPrefix
  <2> QED
    BY <2>1, <2>2

\* The order of the document is that of the first place at which paths differ.
LEMMA BeforeIs ==
  ASSUME NEW p \in Path, NEW q \in Path
  PROVE  Before(p, q) <=> \E i \in Nat \ {0} : Parts(p, q, i)
<1> DEFINE m == Len(p)
           n == Len(q)
<1>1. /\ m \in Nat /\ n \in Nat
      /\ \A i \in 1..m : p[i] \in Nat /\ Step(p, i) = 1 + p[i]
      /\ \A i \in 1..n : q[i] \in Nat /\ Step(q, i) = 1 + q[i]
      /\ \A i : Step(p, i) \in Nat /\ Step(q, i) \in Nat
      /\ \A i : Step(p, i) = 0 <=> i \notin 1..m
      /\ \A i : Step(q, i) = 0 <=> i \notin 1..n
  BY Steps
<1>2. DOMAIN p = 1..m /\ DOMAIN q = 1..n
  BY DEF Path
<1>3. IsStrictPrefix(p, q) <=> m < n /\ \A i \in 1..m : p[i] = q[i]
  BY StrictPrefixIs
<1>4. ASSUME NEW i \in (1..m) \cap (1..n)
      PROVE  SubSeq(p, 1, i - 1) = SubSeq(q, 1, i - 1) <=> \A j \in 1..(i - 1) : p[j] = q[j]
  <2>1. /\ SubSeq(p, 1, i - 1) = [j \in 1..(i - 1) |-> p[j]]
        /\ SubSeq(q, 1, i - 1) = [j \in 1..(i - 1) |-> q[j]]
    BY <1>1 DEF Path
  <2> QED
    BY <2>1
<1> HIDE DEF m, n
<1>5. ASSUME IsStrictPrefix(p, q)
      PROVE  \E i \in Nat \ {0} : Parts(p, q, i)
  <2>1. m + 1 \in Nat \ {0} /\ m + 1 \in 1..n /\ m + 1 \notin 1..m
    BY <1>1, <1>3, <1>5
  <2>2. Step(p, m + 1) < Step(q, m + 1)
    <3>1. Step(p, m + 1) = 0 /\ Step(q, m + 1) # 0 /\ Step(q, m + 1) \in Nat
      BY <1>1, <2>1
    <3> QED
      BY <3>1
  <2>3. ASSUME NEW j \in 1..((m + 1) - 1) PROVE Step(p, j) = Step(q, j)
    <3>1. j \in 1..m /\ j \in 1..n
      BY <1>1, <1>3, <1>5
    <3> QED
      BY <1>1, <1>3, <1>5, <3>1
  <2> QED
    BY <2>1, <2>2, <2>3 DEF Parts
<1>6. ASSUME NEW i \in (1..m) \cap (1..n), p[i] < q[i],
             SubSeq(p, 1, i - 1) = SubSeq(q, 1, i - 1)
      PROVE  i \in Nat \ {0} /\ Parts(p, q, i)
  <2>1. i \in Nat \ {0} /\ Step(p, i) < Step(q, i)
    BY <1>1, <1>6
  <2>2. ASSUME NEW j \in 1..(i - 1) PROVE Step(p, j) = Step(q, j)
    <3>1. j \in 1..m /\ j \in 1..n
      BY <1>1
    <3>2. p[j] = q[j]
      BY <1>4, <1>6
    <3> QED
      BY <1>1, <3>1, <3>2
  <2> QED
    BY <2>1, <2>2 DEF Parts
<1>7. ASSUME NEW i \in Nat \ {0}, Parts(p, q, i)
      PROVE  Before(p, q)
  <2>1. i \in 1..n
    <3>1. Step(q, i) # 0
      BY <1>1, <1>7 DEF Parts
    <3> QED
      BY <1>1, <3>1
  <2>2. \A j \in 1..(i - 1) : j \in 1..n /\ j \in 1..m /\ p[j] = q[j]
    <3> SUFFICES ASSUME NEW j \in 1..(i - 1)
                 PROVE  j \in 1..n /\ j \in 1..m /\ p[j] = q[j]
      OBVIOUS
    <3>1. j \in 1..n /\ Step(p, j) = Step(q, j)
      BY <1>1, <1>7, <2>1 DEF Parts
    <3>2. j \in 1..m
      BY <1>1, <3>1
    <3> QED
      BY <1>1, <3>1, <3>2, SMTT(30)
  <2>3. CASE i \in 1..m
    <3>1. p[i] < q[i]
      BY <1>1, <1>7, <2>1, <2>3 DEF Parts
    <3>2. SubSeq(p, 1, i - 1) = SubSeq(q, 1, i - 1)
      BY <1>4, <2>1, <2>2, <2>3
    <3> QED
      BY <1>2, <2>1, <2>3, <3>1, <3>2 DEF Before
  <2>4. CASE i \notin 1..m
    <3>1. i = m + 1
      <4>1. i <= m + 1
        <5>1. CASE i > m + 1
          <6>1. m + 1 \in 1..(i - 1) /\ m + 1 \notin 1..m
            BY <1>1, <5>1
          <6> QED
            BY <2>2, <6>1
        <5> QED
          BY <1>1, <5>1
      <4> QED
        BY <1>1, <2>4, <4>1
    <3>2. m < n /\ \A j \in 1..m : p[j] = q[j]
      BY <1>1, <2>1, <2>2, <3>1
    <3> QED
      BY <1>3, <3>2 DEF Before
  <2> QED
    BY <2>3, <2>4
<1>8. Before(p, q) => \E i \in Nat \ {0} : Parts(p, q, i)
  BY <1>2, <1>5, <1>6 DEF Before
<1> QED
  BY <1>7, <1>8

\* The order of the document is a strict order, in which any two paths are.
LEMMA DocumentOrder ==
  /\ \A p \in Path : ~Before(p, p)
  /\ \A p, q, r \in Path : Before(p, q) /\ Before(q, r) => Before(p, r)
  /\ \A p, q \in Path : p = q \/ Before(p, q) \/ Before(q, p)
<1>1. ASSUME NEW p \in Path PROVE ~Before(p, p)
  <2>1. \A i : Step(p, i) \in Nat
    BY Steps
  <2>2. \A i : ~Parts(p, p, i)
    BY <2>1 DEF Parts
  <2> QED
    BY <2>2, BeforeIs
<1>2. ASSUME NEW p \in Path, NEW q \in Path, NEW r \in Path, Before(p, q), Before(q, r)
      PROVE  Before(p, r)
  <2>1. PICK i \in Nat \ {0} : Parts(p, q, i)
    BY <1>2, BeforeIs
  <2>2. PICK k \in Nat \ {0} : Parts(q, r, k)
    BY <1>2, BeforeIs
  <2>3. \A j : Step(p, j) \in Nat /\ Step(q, j) \in Nat /\ Step(r, j) \in Nat
    BY Steps
  <2>4. /\ Step(p, i) < Step(q, i) /\ \A j \in 1..(i - 1) : Step(p, j) = Step(q, j)
        /\ Step(q, k) < Step(r, k) /\ \A j \in 1..(k - 1) : Step(q, j) = Step(r, j)
    BY <2>1, <2>2 DEF Parts
  <2>5. CASE i < k
    <3>1. Step(q, i) = Step(r, i)
      BY <2>4, <2>5
    <3>2. \A j \in 1..(i - 1) : Step(p, j) = Step(r, j)
      BY <2>4, <2>5
    <3>3. Parts(p, r, i)
      BY <2>4, <3>1, <3>2 DEF Parts
    <3> QED
      BY <3>3, BeforeIs
  <2>6. CASE k < i
    <3>1. Step(p, k) = Step(q, k)
      BY <2>4, <2>6
    <3>2. \A j \in 1..(k - 1) : Step(p, j) = Step(r, j)
      BY <2>4, <2>6
    <3>3. Parts(p, r, k)
      BY <2>4, <3>1, <3>2 DEF Parts
    <3> QED
      BY <3>3, BeforeIs
  <2>7. CASE i = k
    <3>1. Step(p, i) < Step(r, i)
      BY <2>3, <2>4, <2>7
    <3>2. \A j \in 1..(i - 1) : Step(p, j) = Step(r, j)
      BY <2>4, <2>7
    <3>3. Parts(p, r, i)
      BY <3>1, <3>2 DEF Parts
    <3> QED
      BY <3>3, BeforeIs
  <2> QED
    BY <2>5, <2>6, <2>7
<1>3. ASSUME NEW p \in Path, NEW q \in Path, p # q PROVE Before(p, q) \/ Before(q, p)
  <2> DEFINE differing == {i \in Nat \ {0} : Step(p, i) # Step(q, i)}
  <2>1. \A j : Step(p, j) \in Nat /\ Step(q, j) \in Nat
    BY Steps
  <2>2. differing # {}
    <3> SUFFICES ASSUME differing = {} PROVE FALSE
      OBVIOUS
    <3>1. \A i \in Nat \ {0} : Step(p, i) = Step(q, i)
      OBVIOUS
    <3>2. /\ Len(p) \in Nat /\ Len(q) \in Nat
          /\ \A i \in 1..Len(p) : p[i] \in Nat /\ Step(p, i) = 1 + p[i]
          /\ \A i \in 1..Len(q) : q[i] \in Nat /\ Step(q, i) = 1 + q[i]
          /\ \A i : Step(p, i) = 0 <=> i \notin 1..Len(p)
          /\ \A i : Step(q, i) = 0 <=> i \notin 1..Len(q)
      BY Steps
    <3>3. \A i \in Nat \ {0} : i \in 1..Len(p) <=> i \in 1..Len(q)
      BY <3>1, <3>2
    <3>4. Len(p) = Len(q)
      <4>1. CASE Len(p) < Len(q)
        <5>1. Len(q) \in Nat \ {0} /\ Len(q) \in 1..Len(q) /\ Len(q) \notin 1..Len(p)
          BY <3>2, <4>1
        <5> QED
          BY <3>3, <5>1
      <4>2. CASE Len(q) < Len(p)
        <5>1. Len(p) \in Nat \ {0} /\ Len(p) \in 1..Len(p) /\ Len(p) \notin 1..Len(q)
          BY <3>2, <4>2
        <5> QED
          BY <3>3, <5>1
      <4> QED
        BY <3>2, <4>1, <4>2
    <3>5. \A i \in 1..Len(p) : p[i] = q[i]
      <4> SUFFICES ASSUME NEW i \in 1..Len(p) PROVE p[i] = q[i]
        OBVIOUS
      <4>1. i \in Nat \ {0} /\ i \in 1..Len(q)
        BY <3>2, <3>4
      <4>2. 1 + p[i] = 1 + q[i] /\ p[i] \in Nat /\ q[i] \in Nat
        BY <3>1, <3>2, <4>1
      <4> QED
        BY <4>2
    <3>6. p = q
      BY <3>4, <3>5, SeqEqual DEF Path
    <3> QED
      BY <1>3, <3>6
  <2>3. PICK i \in differing : \A j \in differing : i <= j
    BY <2>2, Least
  <2>4. i \in Nat \ {0} /\ Step(p, i) # Step(q, i)
    OBVIOUS
  <2>5. ASSUME NEW j \in 1..(i - 1) PROVE Step(p, j) = Step(q, j)
    <3>1. j \in Nat \ {0} /\ ~(i <= j)
      BY <2>4
    <3> QED
      BY <2>3, <3>1
  <2> HIDE DEF differing
  <2>6. Parts(p, q, i) \/ Parts(q, p, i)
    <3>1. Step(p, i) < Step(q, i) \/ Step(q, i) < Step(p, i)
      BY <2>1, <2>4
    <3> QED
      BY <2>5, <3>1 DEF Parts
  <2> QED
    BY <2>4, <2>6, BeforeIs
<1> QED
  BY <1>1, <1>2, <1>3

\* In a finite set of paths there is a node at every position below their
\* number.
LEMMA NodeAtPosition ==
  ASSUME NEW ps, ps \subseteq Path, IsFiniteSet(ps)
  PROVE  /\ Cardinality(ps) \in Nat
         /\ \A p \in ps : Index(ps, p) \in 0..(Cardinality(ps) - 1)
         /\ \A i \in 0..(Cardinality(ps) - 1) :
              NodeAt(ps, i) \in ps /\ Index(ps, NodeAt(ps, i)) = i
<1> DEFINE before(p) == {q \in ps : Before(q, p)}
           D == 0..(Cardinality(ps) - 1)
           index == [p \in ps |-> Index(ps, p)]
<1>1. Cardinality(ps) \in Nat /\ IsFiniteSet(D) /\ Cardinality(D) = Cardinality(ps)
  <2>1. Cardinality(ps) \in Nat
    BY FS_CardinalityType
  <2>2. 0 \in Int /\ Cardinality(ps) - 1 \in Int
    BY <2>1
  <2>3. IsFiniteSet(D) /\ Cardinality(D) =
          IF 0 > Cardinality(ps) - 1 THEN 0 ELSE (Cardinality(ps) - 1) - 0 + 1
    BY <2>2, FS_Interval
  <2> QED
    BY <2>1, <2>3
<1>2. \A p \in ps : before(p) \in SUBSET ps /\ p \notin before(p) /\ p \in Path
  BY DocumentOrder
<1>3. \A p \in ps : Index(ps, p) = Cardinality(before(p))
  BY DEF Index
<1>4. ASSUME NEW p \in ps, NEW q \in ps, Before(p, q)
      PROVE  before(p) \in SUBSET before(q) /\ p \in before(q)
  BY <1>2, <1>4, DocumentOrder
<1> HIDE DEF before
<1>5. \A p \in ps : /\ IsFiniteSet(before(p)) /\ Cardinality(before(p)) \in Nat
                    /\ Cardinality(before(p)) < Cardinality(ps)
  <2> SUFFICES ASSUME NEW p \in ps
               PROVE  /\ IsFiniteSet(before(p)) /\ Cardinality(before(p)) \in Nat
                      /\ Cardinality(before(p)) < Cardinality(ps)
    OBVIOUS
  <2>1. /\ IsFiniteSet(before(p)) /\ Cardinality(before(p)) <= Cardinality(ps)
        /\ Cardinality(ps) = Cardinality(before(p)) => ps = before(p)
    BY <1>2, FS_Subset
  <2>2. Cardinality(before(p)) \in Nat /\ ps # before(p)
    BY <1>2, <2>1, FS_CardinalityType
  <2> QED
    BY <1>1, <2>1, <2>2
<1>6. ASSUME NEW p \in ps, NEW q \in ps, Before(p, q)
      PROVE  Cardinality(before(p)) < Cardinality(before(q))
  <2>1. /\ Cardinality(before(p)) <= Cardinality(before(q))
        /\ Cardinality(before(q)) = Cardinality(before(p)) => before(q) = before(p)
    BY <1>4, <1>5, <1>6, FS_Subset
  <2>2. before(q) # before(p)
    BY <1>2, <1>4, <1>6
  <2> QED
    BY <1>5, <2>1, <2>2
<1>7. \A p \in ps : index[p] \in D
  BY <1>1, <1>3, <1>5
<1>8. \A p, q \in ps : index[p] = index[q] => p = q
  <2> SUFFICES ASSUME NEW p \in ps, NEW q \in ps, index[p] = index[q], p # q
               PROVE  FALSE
    OBVIOUS
  <2>1. Before(p, q) \/ Before(q, p)
    BY DocumentOrder
  <2>2. Cardinality(before(p)) = Cardinality(before(q))
    BY <1>3
  <2> QED
    BY <1>5, <1>6, <2>1, <2>2
<1>9. index \in Surjection(ps, D)
  <2>1. index \in [ps -> D]
    BY <1>7
  <2> HIDE DEF index
  <2>2. index \in Injection(ps, D)
    BY <1>8, <2>1 DEF Injection, IsInjective
  <2> HIDE DEF D
  <2> QED
    BY <1>1, <2>2, FS_Injection
<1>10. \A i \in D : \E p \in ps : Index(ps, p) = i
  BY <1>9 DEF Surjection
<1>11. \A i \in D : NodeAt(ps, i) \in ps /\ Index(ps, NodeAt(ps, i)) = i
  BY <1>10 DEF NodeAt
<1> QED
  BY <1>1, <1>7, <1>11

-----------------------------------------------------------------------------
\* A parsed body with its folded nodes, of which all are containers if sound.
TreeStates == [body : Bodies, folded : SUBSET Path]
Sound(t) == t.folded \subseteq t.body.containers

\* A body has finitely many nodes, and one that is drawn as a tree has a root and
\* with every other node its parent.
LEMMA BodyShape ==
  ASSUME NEW b \in Bodies
  PROVE  /\ b.nodes \subseteq Path /\ IsFiniteSet(b.nodes)
         /\ b.containers \subseteq b.nodes
         /\ b.kind = "empty" => b = Empty
         /\ IsTree(b) =>
              Root \in b.nodes /\ \A p \in b.nodes \ {Root} : Front(p) \in b.containers
<1>1. CASE b \in {Empty, Plain}
  BY <1>1, FS_EmptySet DEF Empty, Plain, NoJson, IsTree
<1>2. CASE b \notin {Empty, Plain}
  <2>1. PICK k \in {"json", "loose"}, t \in Trees :
          b = [kind |-> k, nodes |-> t.nodes, containers |-> t.containers]
    BY <1>2 DEF Bodies
  <2>2. /\ b.kind # "empty" /\ b.nodes = t.nodes /\ b.containers = t.containers
    BY <2>1
  <2>3. /\ t.nodes \subseteq Path /\ IsFiniteSet(t.nodes) /\ Root \in t.nodes
        /\ t.containers \subseteq t.nodes
        /\ \A p \in t.nodes \ {Root} : Front(p) \in t.containers
    BY ViewerAssumption DEF Path
  <2> QED
    BY <2>2, <2>3
<1> QED
  BY <1>1, <1>2

\* A body that is loaded stays loaded.
LEMMA Loaded ==
  ASSUME NEW t \in TreeStates, NEW b \in Bodies
  PROVE  /\ Load(t, b) \in TreeStates /\ Load(t, b).body = b
         /\ Sound(t) => Sound(Load(t, b))
         /\ t.body = b => Load(t, b) = t
         /\ Load(Load(t, b), b) = Load(t, b)
BY DEF Load, TreeStates, Sound

\* Visible nodes are nodes, finitely many; the root is visible.
LEMMA VisibleShape ==
  ASSUME NEW t \in TreeStates
  PROVE  /\ Visible(t) \subseteq t.body.nodes /\ Visible(t) \subseteq Path
         /\ IsFiniteSet(Visible(t))
         /\ IsTree(t.body) => Root \in Visible(t)
<1>1. t.body \in Bodies /\ t.folded \subseteq Path
  BY DEF TreeStates
<1>2. /\ t.body.nodes \subseteq Path /\ IsFiniteSet(t.body.nodes)
      /\ IsTree(t.body) => Root \in t.body.nodes
  BY <1>1, BodyShape
<1>3. Visible(t) \in SUBSET t.body.nodes
  BY DEF Visible
<1>4. IsFiniteSet(Visible(t))
  BY <1>2, <1>3, FS_Subset
<1>5. \A q \in Path : ~IsStrictPrefix(q, Root)
  <2> SUFFICES ASSUME NEW q \in Path PROVE ~IsStrictPrefix(q, Root)
    OBVIOUS
  <2>1. Root \in Path /\ Len(Root) = 0 /\ Len(q) \in Nat
    BY DEF Path, Root
  <2>2. ~(Len(q) < Len(Root))
    BY <2>1
  <2> QED
    BY <2>1, <2>2, StrictPrefixIs
<1> QED
  BY <1>1, <1>2, <1>3, <1>4, <1>5 DEF Visible

\* What is in front of a node is its parent, or in front of its parent.
LEMMA Parent ==
  ASSUME NEW p \in Path, p # Root
  PROVE  /\ Front(p) \in Path /\ Len(Front(p)) = Len(p) - 1 /\ Len(p) \in Nat \ {0}
         /\ \A i \in 1..(Len(p) - 1) : Front(p)[i] = p[i]
         /\ \A q \in Path :
              IsStrictPrefix(q, p) <=> q = Front(p) \/ IsStrictPrefix(q, Front(p))
<1>1. Len(p) \in Nat \ {0}
  BY EmptySeq DEF Path, Root
<1>2. /\ Front(p) \in Path /\ Len(Front(p)) = Len(p) - 1
      /\ \A i \in 1..(Len(p) - 1) : Front(p)[i] = p[i]
  <2>1. p \in Seq(Nat) /\ Len(p) - 1 \in Nat /\ Len(p) - 1 <= Len(p)
    BY <1>1 DEF Path
  <2>2. Front(p) = [i \in 1..(Len(p) - 1) |-> p[i]]
    BY <1>1, <2>1 DEF Front
  <2>3. Front(p) \in [1..(Len(p) - 1) -> Nat]
    <3>1. \A i \in 1..(Len(p) - 1) : p[i] \in Nat
      BY <1>1, <2>1
    <3> QED
      BY <2>2, <3>1
  <2>4. Front(p) \in Seq(Nat) /\ Len(Front(p)) = Len(p) - 1
    BY <2>1, <2>3
  <2> QED
    BY <2>2, <2>4 DEF Path
<1>3. ASSUME NEW q \in Path
      PROVE  IsStrictPrefix(q, p) <=> q = Front(p) \/ IsStrictPrefix(q, Front(p))
  <2> DEFINE m == Len(q)
             n == Len(p)
  <2>1. /\ IsStrictPrefix(q, p) <=> m < n /\ \A i \in 1..m : q[i] = p[i]
        /\ IsStrictPrefix(q, Front(p)) <=>
             m < n - 1 /\ \A i \in 1..m : q[i] = Front(p)[i]
    BY <1>2, StrictPrefixIs
  <2>2. m \in Nat /\ n \in Nat \ {0}
    BY <1>1, Steps
  <2>3. q = Front(p) => m = n - 1
    BY <1>2
  <2>4. m = n - 1 /\ (\A i \in 1..m : q[i] = Front(p)[i]) => q = Front(p)
    BY <1>2, SeqEqual DEF Path
  <2>5. ASSUME IsStrictPrefix(q, p) PROVE q = Front(p) \/ IsStrictPrefix(q, Front(p))
    <3>1. m <= n - 1 /\ \A i \in 1..m : i \in 1..(n - 1) /\ q[i] = p[i]
      <4> HIDE DEF m, n
      <4> QED
        BY <2>1, <2>2, <2>5
    <3>2. \A i \in 1..m : q[i] = Front(p)[i]
      BY <1>2, <3>1
    <3>3. m = n - 1 \/ m < n - 1
      <4> HIDE DEF m, n
      <4> QED
        BY <2>2, <3>1
    <3> QED
      BY <2>1, <2>4, <3>2, <3>3
  <2>6. ASSUME q = Front(p) \/ IsStrictPrefix(q, Front(p)) PROVE IsStrictPrefix(q, p)
    <3>1. m <= n - 1 /\ \A i \in 1..m : q[i] = Front(p)[i]
      <4> HIDE DEF m, n
      <4> QED
        BY <2>1, <2>2, <2>3, <2>6
    <3>2. m < n /\ \A i \in 1..m : i \in 1..(n - 1)
      <4> HIDE DEF m, n
      <4> QED
        BY <2>2, <3>1
    <3>3. \A i \in 1..m : q[i] = p[i]
      BY <1>2, <3>1, <3>2
    <3> QED
      BY <2>1, <3>2, <3>3
  <2> QED
    BY <2>5, <2>6
<1> QED
  BY <1>1, <1>2, <1>3

\* With a node its parent is visible.
LEMMA ParentVisible ==
  ASSUME NEW t \in TreeStates, IsTree(t.body), NEW p \in Visible(t), p # Root
  PROVE  Front(p) \in Visible(t)
<1>1. t.body \in Bodies /\ t.folded \subseteq Path /\ p \in t.body.nodes /\ p \in Path
  BY VisibleShape DEF TreeStates
<1>2. Front(p) \in t.body.nodes
  BY <1>1, BodyShape
<1>3. \A q \in t.folded : ~IsStrictPrefix(q, p)
  BY DEF Visible
<1>4. \A q \in t.folded : ~IsStrictPrefix(q, Front(p))
  BY <1>1, <1>3, Parent
<1> QED
  BY <1>2, <1>4 DEF Visible

\* The children of a visible node that is not folded are visible.
LEMMA ChildVisible ==
  ASSUME NEW t \in TreeStates, NEW p \in Visible(t), p \notin t.folded,
         NEW q \in t.body.nodes \ {Root}, Front(q) = p
  PROVE  q \in Visible(t)
<1>1. t.folded \subseteq Path /\ q \in Path
  BY BodyShape DEF TreeStates
<1>2. \A r \in t.folded : r # p /\ ~IsStrictPrefix(r, p)
  BY DEF Visible
<1>3. \A r \in t.folded : ~IsStrictPrefix(r, q)
  BY <1>1, <1>2, Parent
<1> QED
  BY <1>3 DEF Visible

\* A node that is folded or unfolded stays visible itself.
LEMMA FoldedVisible ==
  ASSUME NEW t \in TreeStates, NEW p \in Visible(t),
         NEW folded \in SUBSET (t.folded \cup {p})
  PROVE  p \in Visible([t EXCEPT !.folded = folded])
<1>1. p \in Path /\ p \in t.body.nodes /\ \A q \in t.folded : ~IsStrictPrefix(q, p)
  BY VisibleShape DEF Visible
<1>2. ~IsStrictPrefix(p, p)
  BY DEF IsStrictPrefix
<1>3. /\ [t EXCEPT !.folded = folded].body = t.body
      /\ [t EXCEPT !.folded = folded].folded = folded
  BY DEF TreeStates
<1> QED
  BY <1>1, <1>2, <1>3 DEF Visible

\* The first of a node's children, where it has any.
LEMMA FirstChild ==
  ASSUME NEW b \in Bodies, NEW p,
         NEW children, children = {q \in b.nodes \ {Root} : Front(q) = p},
         children # {}
  PROVE  (CHOOSE c \in children : \A q \in children : c = q \/ Before(c, q)) \in children
<1> DEFINE last == {q[Len(q)] : q \in children}
<1>1. \A q \in children : q \in Path /\ q # Root /\ Front(q) = p
  BY BodyShape
<1>2. ASSUME NEW q \in children
      PROVE  /\ Len(q) \in Nat \ {0} /\ Len(q) = Len(p) + 1 /\ q[Len(q)] \in Nat
             /\ DOMAIN q = 1..Len(q)
             /\ \A i \in 1..(Len(q) - 1) : q[i] = p[i]
  <2>1. /\ Len(q) \in Nat \ {0} /\ Len(p) = Len(q) - 1 /\ q \in Seq(Nat)
        /\ \A i \in 1..(Len(q) - 1) : p[i] = q[i]
    BY <1>1, Parent DEF Path
  <2>2. Len(q) \in 1..Len(q)
    BY <2>1
  <2>3. q[Len(q)] \in Nat /\ DOMAIN q = 1..Len(q)
    BY <2>1, <2>2
  <2>4. Len(q) = Len(p) + 1
    BY <2>1
  <2> QED
    BY <2>1, <2>3, <2>4
<1>3. last \subseteq Nat /\ last # {}
  BY <1>2
<1>4. PICK c \in children : \A q \in children : c[Len(c)] <= q[Len(q)]
  <2>1. PICK x \in last : \A y \in last : x <= y
    <3> HIDE DEF last
    <3> QED
      BY <1>3, Least
  <2>2. PICK c \in children : x = c[Len(c)]
    BY <2>1
  <2>3. \A q \in children : q[Len(q)] \in last
    OBVIOUS
  <2> QED
    BY <2>1, <2>2, <2>3
<1>5. ASSUME NEW q \in children PROVE c = q \/ Before(c, q)
  <2> DEFINE n == Len(p) + 1
  <2>1. /\ Len(c) = n /\ Len(q) = n /\ n \in Nat \ {0}
        /\ c[n] \in Nat /\ q[n] \in Nat /\ c[n] <= q[n]
        /\ DOMAIN c = 1..n /\ DOMAIN q = 1..n
        /\ \A i \in 1..(n - 1) : c[i] = q[i]
    BY <1>2, <1>4
  <2>2. c \in Seq(Nat) /\ q \in Seq(Nat)
    BY <1>1 DEF Path
  <2> HIDE DEF n
  <2>3. CASE c[n] = q[n]
    <3>1. \A i \in 1..n : c[i] = q[i]
      BY <2>1, <2>3
    <3> QED
      BY <2>1, <2>2, <3>1, SeqEqual
  <2>4. CASE c[n] # q[n]
    <3>1. c[n] < q[n] /\ n \in DOMAIN c \cap DOMAIN q
      BY <2>1, <2>4
    <3>2. SubSeq(c, 1, n - 1) = SubSeq(q, 1, n - 1)
      <4>1. /\ SubSeq(c, 1, n - 1) = [i \in 1..(n - 1) |-> c[i]]
            /\ SubSeq(q, 1, n - 1) = [i \in 1..(n - 1) |-> q[i]]
        BY <2>1, <2>2
      <4> QED
        BY <2>1, <4>1
    <3> QED
      BY <3>1, <3>2 DEF Before
  <2> QED
    BY <2>3, <2>4
<1> QED
  BY <1>5

-----------------------------------------------------------------------------
\* The greater and the lesser of two numbers.
LEMMA OfTwo ==
  ASSUME NEW a \in Int, NEW b \in Int
  PROVE  /\ Max({a, b}) = IF a >= b THEN a ELSE b
         /\ Min({a, b}) = IF a <= b THEN a ELSE b
<1>1. CASE a >= b
  <2>1. Max({a, b}) = a
    BY <1>1 DEF Max
  <2>2. Min({a, b}) = b
    BY <1>1 DEF Min
  <2> QED
    BY <1>1, <2>1, <2>2
<1>2. CASE ~(a >= b)
  <2>1. Max({a, b}) = b
    BY <1>2 DEF Max
  <2>2. Min({a, b}) = a
    BY <1>2 DEF Min
  <2> QED
    BY <1>2, <2>1, <2>2
<1> QED
  BY <1>1, <1>2

\* Finitely many lines more.
LEMMA WrappedType ==
  ASSUME NEW width
  PROVE  Wrapped(width) \in Nat
<1>1. IsFiniteSet({w \in WrapWidths : width < w})
  <2>1. {w \in WrapWidths : width < w} \subseteq WrapWidths /\ IsFiniteSet(WrapWidths)
    BY LayoutAssumption
  <2> QED
    BY <2>1, FS_Subset
<1> QED
  BY <1>1, FS_CardinalityType DEF Wrapped

\* The measures of a layout are numbers.
LEMMA LayoutTypes ==
  ASSUME NEW s \in Sizes, NEW catalogue \in BOOLEAN
  PROVE  /\ s.width \in Nat /\ s.height \in Nat
         /\ BodyHeight(s, catalogue) \in Nat /\ LeftOuter(s) \in Int
         /\ DetailHeight(s, catalogue) \in Nat /\ DetailWidth(s) \in Int
         /\ ModelLines(CatalogueWidth(s)) \in Nat
         /\ TreeLine(DetailWidth(s)) \in Nat
<1>1. s.width \in Nat /\ s.height \in Nat
  BY ViewerAssumption
<1>2. HeaderLines(s, catalogue) \in {1, 2} /\ FooterLines = 1
  BY DEF HeaderLines, FooterLines
<1>3. BodyHeight(s, catalogue) \in Nat
  <2> DEFINE left == s.height - HeaderLines(s, catalogue) - FooterLines
  <2>1. left \in Int
    BY <1>1, <1>2
  <2> HIDE DEF left
  <2>2. Max({0, left}) \in Nat
    BY <2>1, OfTwo
  <2> QED
    BY <2>2 DEF BodyHeight, left
<1>4. DetailHeight(s, catalogue) \in Nat
  <2>1. BodyHeight(s, catalogue) - 2 \in Int
    BY <1>3
  <2>2. Max({0, BodyHeight(s, catalogue) - 2}) \in Nat
    BY <2>1, OfTwo
  <2> QED
    BY <1>3, <2>2 DEF DetailHeight
<1>5. LeftOuter(s) \in 26..38
  <2>1. s.width \div 3 \in Int
    BY <1>1
  <2> DEFINE wide == Max({26, s.width \div 3})
  <2>2. wide = IF 26 >= s.width \div 3 THEN 26 ELSE s.width \div 3
    BY <2>1, OfTwo
  <2>5. wide \in Int /\ wide >= 26
    BY <2>1, <2>2
  <2> HIDE DEF wide
  <2>3. Min({38, wide}) = IF 38 <= wide THEN 38 ELSE wide
    BY <2>5, OfTwo
  <2>4. Min({38, wide}) \in 26..38
    BY <2>3, <2>5
  <2> QED
    BY <2>4 DEF LeftOuter, wide
<1>6. DetailWidth(s) \in Int
  BY <1>1, <1>5 DEF DetailWidth
<1>7. ModelLines(CatalogueWidth(s)) \in Nat
  <2>1. ASSUME NEW n \in Nat, NEW w PROVE GroupLines(n, w) \in Nat
    BY <2>1 DEF GroupLines
  <2>2. FreeModels \in Nat /\ OtherModels \in Nat
    BY LayoutAssumption
  <2> QED
    BY <2>1, <2>2 DEF ModelLines
<1>8. TreeLine(DetailWidth(s)) \in Nat
  BY ViewerAssumption, WrappedType DEF TreeLine
<1> QED
  BY <1>1, <1>3, <1>4, <1>5, <1>6, <1>7, <1>8

-----------------------------------------------------------------------------
\* The cached lines: the visible nodes of the tree of a body drawn as one, none of
\* other bodies.
DrawnStates ==
  [valid : BOOLEAN, key : Panels \X Path \X Bodies \X Int, nodes : SUBSET Path]
Cached(d, t) ==
  d.valid => IF IsTree(d.key[3]) THEN t.body = d.key[3] /\ d.nodes = Visible(t)
             ELSE d.nodes = {}

\* What is shown, and where the user is.
ViewInv ==
  /\ bodies \in [Panels -> Bodies] /\ panel \in Panels
  /\ count \in 0..Limit /\ selected \in Nat
  /\ count = 0 => selected = 0 /\ bodies = NoPayloads
  /\ count > 0 => selected \in 1..count
  /\ showModels \in BOOLEAN /\ replaced \in BOOLEAN
  /\ cursor \in Path /\ size \in Sizes

\* The caches: what is drawn is what the tree of the cache has at the time, and
\* was drawn for the present panel, cursor, body and width.  This holds while
\* the model catalogue covers the panel too, but for the key.
CacheInv ==
  /\ tree \in TreeStates /\ drawn \in DrawnStates /\ scroll \in Nat
  /\ IsFiniteSet(drawn.nodes)
  /\ Sound(tree) /\ Cached(drawn, tree)
  /\ count = 0 => ~drawn.valid
  /\ ~showModels /\ count > 0 =>
       drawn.valid /\ drawn.key = <<panel, cursor, Body, DetailWidth(size)>>

\* The cursor is on a visible node, also while the catalogue covers the panel.
CursorInv == IsTree(Body) /\ ~replaced => cursor \in Visible(Current)

Inv == ViewInv /\ CacheInv /\ CursorInv

\* Clamping gives a position in the lines.
LEMMA ClampType ==
  ASSUME NEW want \in Int, NEW lines \in Nat, NEW rows \in Nat
  PROVE  Clamp(want, lines, rows) \in Nat
BY DEF Clamp

\* The end of Update leaves caches that fit, and of the tree what it was given.
LEMMA SettleKeeps ==
  ASSUME NEW t \in TreeStates, NEW fresh \in BOOLEAN, NEW want \in Int,
         Settle(t, fresh, want), Sound(t), fresh => Cached(drawn, t),
         CacheInv, ViewInv', count' = 0 => count = 0
  PROVE  /\ CacheInv'
         /\ IsTree(Body') => Load(tree', Body') = Load(t, Body')
<1> DEFINE body == bodies'[panel']
           width == DetailWidth(size')
           key == <<panel', cursor', body, width>>
<1>1. /\ body \in Bodies /\ body = Body' /\ size' \in Sizes /\ count' \in Nat
      /\ showModels' \in BOOLEAN /\ panel' \in Panels /\ cursor' \in Path
  BY ViewerAssumption DEF ViewInv, Body
<1>2. /\ width \in Int /\ DetailHeight(size', TRUE) \in Nat
      /\ DetailHeight(size', FALSE) \in Nat
      /\ ModelLines(CatalogueWidth(size')) \in Nat /\ TreeLine(width) \in Nat
  BY <1>1, LayoutTypes
<1>3. key \in Panels \X Path \X Bodies \X Int
  BY <1>1, <1>2
<1>4. /\ drawn \in DrawnStates /\ IsFiniteSet(drawn.nodes)
      /\ drawn.valid \in BOOLEAN /\ drawn.nodes \in SUBSET Path
      /\ count' = 0 => ~drawn.valid
  BY DEF CacheInv, DrawnStates
<1>5. /\ Load(t, body) \in TreeStates /\ Load(t, body).body = body
      /\ Sound(Load(t, body)) /\ Load(Load(t, body), body) = Load(t, body)
  BY <1>1, Loaded
<1>6. Settle(t, fresh, want) <=>
        IF showModels'
        THEN /\ tree' = t
             /\ drawn' = [drawn EXCEPT !.valid = fresh /\ drawn.valid]
             /\ scroll' = Clamp(want, ModelLines(CatalogueWidth(size')),
                                DetailHeight(size', TRUE))
        ELSE /\ IF count' = 0 \/ (fresh /\ drawn.valid /\ drawn.key = key)
                THEN tree' = t /\ drawn' = drawn
                ELSE /\ tree' = IF body.kind = "empty" THEN t ELSE Load(t, body)
                     /\ drawn' = [valid |-> TRUE, key |-> key,
                                  nodes |-> IF IsTree(body)
                                            THEN Visible(tree') ELSE {}]
             /\ scroll' = Clamp(want, LineCount(drawn'.nodes, body, width, count'),
                                DetailHeight(size', FALSE))
  BY DEF Settle
<1> HIDE DEF body, width, key
\* What has to be shown of the position.
<1>7. ASSUME IsFiniteSet(drawn'.nodes) PROVE scroll' \in Nat
  <2>1. Cardinality(drawn'.nodes) \in Nat
    BY <1>7, FS_CardinalityType
  <2>2. LineCount(drawn'.nodes, body, width, count') \in Nat
    BY <1>2, <2>1 DEF LineCount
  <2>3. CASE showModels'
    <3>1. scroll' = Clamp(want, ModelLines(CatalogueWidth(size')),
                          DetailHeight(size', TRUE))
      BY <1>6, <2>3
    <3> QED
      BY <1>2, <3>1, ClampType
  <2>4. CASE ~showModels'
    <3>1. scroll' = Clamp(want, LineCount(drawn'.nodes, body, width, count'),
                          DetailHeight(size', FALSE))
      BY <1>6, <2>4
    <3> QED
      BY <1>2, <2>2, <3>1, ClampType
  <2> QED
    BY <2>3, <2>4
<1>8. CASE showModels'
  <2>1. tree' = t /\ drawn' = [drawn EXCEPT !.valid = fresh /\ drawn.valid]
    BY <1>6, <1>8
  <2>2. /\ drawn' \in DrawnStates /\ drawn'.nodes = drawn.nodes /\ drawn'.key = drawn.key
        /\ drawn'.valid = (fresh /\ drawn.valid)
    BY <1>4, <2>1 DEF DrawnStates
  <2>3. Cached(drawn', tree')
    BY <2>1, <2>2 DEF Cached
  <2>4. scroll' \in Nat
    BY <1>4, <1>7, <2>2
  <2> QED
    BY <1>1, <1>4, <1>8, <2>1, <2>2, <2>3, <2>4 DEF CacheInv
<1>9. CASE ~showModels' /\ (count' = 0 \/ (fresh /\ drawn.valid /\ drawn.key = key))
  <2>1. tree' = t /\ drawn' = drawn
    BY <1>6, <1>9
  <2>2. Cached(drawn', tree')
    BY <1>4, <1>9, <2>1 DEF Cached
  <2>3. scroll' \in Nat
    BY <1>4, <1>7, <2>1
  <2>4. count' > 0 => drawn'.valid /\ drawn'.key = key
    BY <1>1, <1>9, <2>1
  <2> QED
    BY <1>1, <1>4, <2>1, <2>2, <2>3, <2>4 DEF CacheInv, key, width
<1>10. CASE ~showModels' /\ ~(count' = 0 \/ (fresh /\ drawn.valid /\ drawn.key = key))
  <2>1. /\ tree' = IF body.kind = "empty" THEN t ELSE Load(t, body)
        /\ drawn' = [valid |-> TRUE, key |-> key,
                     nodes |-> IF IsTree(body) THEN Visible(tree') ELSE {}]
    BY <1>6, <1>10
  <2>2. /\ tree' \in TreeStates /\ Sound(tree')
        /\ IsTree(body) => tree'.body = body /\ Load(tree', body) = Load(t, body)
    BY <1>5, <2>1 DEF IsTree
  <2>3. Visible(tree') \in SUBSET Path /\ IsFiniteSet(Visible(tree'))
    BY <2>2, VisibleShape
  <2>4. /\ drawn'.valid = TRUE /\ drawn'.key = key
        /\ drawn'.nodes = IF IsTree(body) THEN Visible(tree') ELSE {}
    BY <2>1
  <2>5. drawn' \in DrawnStates
    BY <1>3, <2>1, <2>3 DEF DrawnStates
  <2>6. IsFiniteSet(drawn'.nodes)
    BY <2>3, <2>4, FS_EmptySet
  <2>7. key[3] = body
    BY DEF key
  <2>8. Cached(drawn', tree')
    BY <2>2, <2>4, <2>7 DEF Cached
  <2>9. scroll' \in Nat
    BY <1>7, <2>6
  <2> QED
    BY <1>1, <1>10, <2>2, <2>4, <2>5, <2>6, <2>8, <2>9 DEF CacheInv, key, width
<1> QED
  BY <1>8, <1>9, <1>10

-----------------------------------------------------------------------------
\* What every handler has to show: that it hands a tree to the end of Update
\* that fits the cache, if it keeps the cache, and has the cursor among its nodes.
LEMMA SettleInv ==
  ASSUME NEW t \in TreeStates, NEW fresh \in BOOLEAN, NEW want \in Int,
         Settle(t, fresh, want), Sound(t), fresh => Cached(drawn, t),
         Inv, ViewInv', count' = 0 => count = 0,
         IsTree(Body') /\ ~replaced' => cursor' \in Visible(Load(t, Body'))
  PROVE  Inv'
<1>1. CacheInv' /\ (IsTree(Body') => Load(tree', Body') = Load(t, Body'))
  BY SettleKeeps DEF Inv
<1>2. CursorInv'
  BY <1>1 DEF CursorInv, Current
<1> QED
  BY <1>1, <1>2 DEF Inv

\* The trace is shown, its body as a tree.
TreeShown == ~showModels /\ IsTree(Body)

\* The tree at hand, and the tree that is loaded where one is shown, fit the
\* cache; the cursor that a handler starts from is on a visible node.
LEMMA AtHand ==
  ASSUME Inv
  PROVE  /\ tree \in TreeStates /\ Sound(tree) /\ Cached(drawn, tree) /\ Body \in Bodies
         /\ Current \in TreeStates /\ Sound(Current) /\ Current.body = Body
         /\ Load(Current, Body) = Current
         /\ JsonActive => TreeShown
         /\ TreeShown => /\ Cached(drawn, Current) /\ count > 0
                         /\ Root \in Visible(Current) /\ Selected \in Visible(Current)
                         /\ Visible(Current) \subseteq Body.nodes
                         /\ Visible(Current) \subseteq Path
                         /\ IsFiniteSet(Visible(Current))
                         /\ Current = tree /\ drawn.nodes = Visible(Current)
<1>1. /\ tree \in TreeStates /\ Sound(tree) /\ Cached(drawn, tree) /\ drawn \in DrawnStates
      /\ bodies \in [Panels -> Bodies] /\ panel \in Panels /\ count \in Nat
      /\ count = 0 => bodies = NoPayloads
      /\ ~showModels /\ count > 0 =>
           drawn.valid /\ drawn.key = <<panel, cursor, Body, DetailWidth(size)>>
  BY ViewerAssumption DEF Inv, ViewInv, CacheInv
<1>2. Body \in Bodies
  BY <1>1 DEF Body
<1>3. /\ Current \in TreeStates /\ Current.body = Body /\ Sound(Current)
      /\ Load(Current, Body) = Current
      /\ tree.body = Body => Current = tree
  BY <1>1, <1>2, Loaded DEF Current
<1>4. ASSUME TreeShown
      PROVE  /\ Cached(drawn, Current) /\ count > 0
             /\ Root \in Visible(Current) /\ Selected \in Visible(Current)
             /\ Visible(Current) \subseteq Body.nodes /\ Visible(Current) \subseteq Path
             /\ IsFiniteSet(Visible(Current))
             /\ Current = tree /\ drawn.nodes = Visible(Current)
  <2>1. ~showModels /\ IsTree(Body)
    BY <1>4 DEF TreeShown
  <2>2. count > 0
    BY <1>1, <2>1 DEF Body, NoPayloads, Empty, NoJson, IsTree
  <2>3. Cached(drawn, Current) /\ Current = tree /\ drawn.nodes = Visible(Current)
    <3>1. drawn.valid /\ drawn.key[3] = Body
      BY <1>1, <2>1, <2>2
    <3>2. tree.body = Body /\ drawn.nodes = Visible(tree)
      BY <1>1, <2>1, <3>1 DEF Cached
    <3> QED
      BY <1>1, <1>3, <3>2
  <2>4. /\ Root \in Visible(Current) /\ Visible(Current) \subseteq Body.nodes
        /\ Visible(Current) \subseteq Path /\ IsFiniteSet(Visible(Current))
    BY <1>3, <2>1, VisibleShape
  <2> QED
    BY <2>2, <2>3, <2>4 DEF Selected
<1>5. JsonActive => TreeShown
  BY DEF JsonActive, TreeShown, IsTree
<1> QED
  BY <1>1, <1>2, <1>3, <1>4, <1>5

\* The view where only the cursor moves, to a path.
LEMMA CursorMoves ==
  ASSUME Inv, UNCHANGED <<shown, panel, showModels, size>>, cursor' \in Path,
         replaced' \in BOOLEAN
  PROVE  /\ ViewInv' /\ Body' = Body /\ count' = count
BY DEF Inv, ViewInv, Body, shown

\* A handler that leaves the cursor where it is, lets no body come under it
\* unnoticed, and settles the tree at hand.
LEMMA Keeps ==
  ASSUME Inv, ViewInv', count' = 0 => count = 0, cursor' = cursor,
         ~replaced' => ~replaced /\ Body' = Body,
         NEW want \in Int, Settle(tree, TRUE, want)
  PROVE  Inv'
<1>1. IsTree(Body') /\ ~replaced' => cursor' \in Visible(Load(tree, Body'))
  BY DEF Inv, CursorInv, Current
<1>2. tree \in TreeStates /\ Sound(tree) /\ Cached(drawn, tree)
  BY AtHand
<1> QED
  BY <1>1, <1>2, SettleInv

\* A handler of the JSON tree that keeps its folds and puts the cursor on a
\* visible node of it.
LEMMA Walks ==
  ASSUME Inv, JsonActive, UNCHANGED <<shown, panel, showModels, size>>,
         cursor' \in Visible(Current), replaced' = FALSE,
         NEW want \in Int, Settle(Current, TRUE, want)
  PROVE  Inv'
<1>1. /\ Current \in TreeStates /\ Sound(Current) /\ Cached(drawn, Current)
      /\ Load(Current, Body) = Current /\ Visible(Current) \subseteq Path
  BY AtHand
<1>2. ViewInv' /\ Body' = Body /\ count' = count
  BY <1>1, CursorMoves
<1>3. IsTree(Body') /\ ~replaced' => cursor' \in Visible(Load(Current, Body'))
  BY <1>1, <1>2
<1> QED
  BY <1>1, <1>2, <1>3, SettleInv

\* A handler that folds or unfolds the visible container it leaves the cursor on.
LEMMA Folds ==
  ASSUME Inv, JsonActive, UNCHANGED <<shown, panel, showModels, size>>,
         NEW p \in Visible(Current), cursor' = p, replaced' = FALSE,
         NEW folded, folded \subseteq Current.folded \cup {p},
         p \in folded => IsContainer(p) \/ p \in Current.folded,
         Settle([Current EXCEPT !.folded = folded], FALSE, scroll)
  PROVE  Inv'
<1> DEFINE t == [Current EXCEPT !.folded = folded]
<1>1. /\ Current \in TreeStates /\ Sound(Current) /\ Current.body = Body
      /\ Visible(Current) \subseteq Path /\ Body \in Bodies
  BY AtHand
<1>2. /\ t \in TreeStates /\ t.body = Body /\ t.folded = folded
  BY <1>1 DEF TreeStates
<1>3. Sound(t)
  BY <1>1, <1>2 DEF Sound, IsContainer
<1>4. p \in Visible(t)
  BY <1>1, FoldedVisible
<1>5. ViewInv' /\ Body' = Body /\ count' = count
  BY <1>1, CursorMoves
<1>6. Load(t, Body) = t
  BY <1>1, <1>2, Loaded
<1>7. scroll \in Int
  BY DEF Inv, CacheInv
<1> HIDE DEF t
<1>8. IsTree(Body') /\ ~replaced' => cursor' \in Visible(Load(t, Body'))
  BY <1>4, <1>5, <1>6
<1>9. Settle(t, FALSE, scroll)
  BY DEF t
<1> QED
  BY <1>2, <1>3, <1>5, <1>7, <1>8, <1>9, SettleInv

\* A handler that shows something else, from its root, and settles the tree at
\* hand; there is at least as much to show.
LEMMA ShowsAnew ==
  ASSUME Inv, ViewInv', count' = 0 => count = 0, cursor' = Root,
         NEW want \in Int, Settle(tree, TRUE, want)
  PROVE  Inv'
<1>1. tree \in TreeStates /\ Sound(tree) /\ Cached(drawn, tree)
  BY AtHand
<1>2. Body' \in Bodies
  BY DEF ViewInv, Body
<1>3. IsTree(Body') => cursor' \in Visible(Load(tree, Body'))
  BY <1>1, <1>2, Loaded, VisibleShape
<1> QED
  BY <1>1, <1>3, SettleInv

-----------------------------------------------------------------------------
\* Nothing is shown at first.
LEMMA InitInv == Init => Inv
<1> SUFFICES ASSUME Init PROVE Inv
  OBVIOUS
<1>1. /\ Empty \in Bodies /\ Empty.kind = "empty" /\ Root \in Path
  BY DEF Bodies, Empty, NoJson, Root, Path
<1>2. ViewInv
  <2>1. /\ bodies = NoPayloads /\ count = 0 /\ selected = 0 /\ showModels = FALSE
        /\ replaced = FALSE /\ panel \in Panels /\ cursor = Root /\ size \in Sizes
    BY DEF Init
  <2>2. NoPayloads \in [Panels -> Bodies]
    BY <1>1 DEF NoPayloads
  <2>3. /\ count \in 0..Limit /\ selected \in Nat
        /\ count = 0 => selected = 0 /\ bodies = NoPayloads
        /\ count > 0 => selected \in 1..count
    <3>1. 0 \in 0..Limit /\ 0 \in Nat /\ ~(0 > 0)
      BY ViewerAssumption
    <3> QED
      BY <2>1, <3>1
  <2>4. showModels \in BOOLEAN /\ replaced \in BOOLEAN
    BY <2>1
  <2> QED
    BY <1>1, <2>1, <2>2, <2>3, <2>4 DEF ViewInv
<1>3. tree \in TreeStates /\ Sound(tree)
  BY <1>1 DEF Init, TreeStates, Sound
<1>4. drawn \in DrawnStates /\ ~drawn.valid /\ IsFiniteSet(drawn.nodes)
  BY <1>1, FS_EmptySet DEF Init, DrawnStates
<1>5. CacheInv
  BY <1>3, <1>4 DEF Init, CacheInv, Cached
<1>6. CursorInv
  BY <1>1 DEF Init, CursorInv, Body, NoPayloads, IsTree
<1> QED
  BY <1>2, <1>5, <1>6 DEF Inv

\* The height of the panel, and where a handler may scroll to.
LEMMA ScrollTypes ==
  ASSUME Inv
  PROVE  /\ PanelHeight \in Nat /\ scroll \in Nat /\ Page \in Int /\ Bottom \in Int
         /\ \A ps, i : Cardinality(ps) \in Nat /\ i \in Int => EnsureVisible(ps, i) \in Int
<1>1. size \in Sizes /\ showModels \in BOOLEAN /\ count \in Nat
  BY ViewerAssumption DEF Inv, ViewInv
<1>2. scroll \in Nat /\ IsFiniteSet(drawn.nodes)
  BY DEF Inv, CacheInv
<1>3. PanelHeight \in Nat
  BY <1>1, LayoutTypes DEF PanelHeight
<1>4. Page \in Int
  BY <1>3 DEF Page
<1>5. Bottom \in Int
  <2>1. Cardinality(drawn.nodes) \in Nat
    BY <1>2, FS_CardinalityType
  <2>2. ModelLines(CatalogueWidth(size)) \in Nat /\ TreeLine(DetailWidth(size)) \in Nat
    BY <1>1, LayoutTypes
  <2>3. LineCount(drawn.nodes, Body, DetailWidth(size), count) \in Int
    BY <2>1, <2>2 DEF LineCount
  <2> QED
    BY <2>2, <2>3 DEF Bottom
<1>6. ASSUME NEW ps, NEW i \in Int, Cardinality(ps) \in Nat
      PROVE  EnsureVisible(ps, i) \in Int
  BY <1>2, <1>3, <1>6 DEF EnsureVisible
<1> QED
  BY <1>2, <1>3, <1>4, <1>5, <1>6

\* Up and down.
LEMMA MoveInv ==
  ASSUME Inv, NEW delta \in {-1, 1}, Move(delta)
  PROVE  Inv'
<1>1. UNCHANGED <<shown, panel, showModels, size>> /\ ~showModels
  BY DEF Move
<1>2. scroll \in Int /\ scroll + 3 * delta \in Int
  BY ScrollTypes
<1>3. CASE ~JsonActive
  <2>1. cursor' = cursor /\ replaced' = replaced /\ Settle(tree, TRUE, scroll + 3 * delta)
    BY <1>3 DEF Move
  <2>2. cursor' \in Path /\ replaced' \in BOOLEAN
    BY <2>1 DEF Inv, ViewInv
  <2>3. ViewInv' /\ Body' = Body /\ count' = count
    BY <1>1, <2>2, CursorMoves
  <2> QED
    BY <1>2, <2>1, <2>3, Keeps
<1>4. CASE JsonActive
  <2> DEFINE ps == Visible(Current)
             next == Index(ps, Selected) + delta
  <2>1. ps \subseteq Path /\ IsFiniteSet(ps) /\ Selected \in ps
    BY <1>4, AtHand
  <2>2. /\ Cardinality(ps) \in Nat
        /\ Index(ps, Selected) \in 0..(Cardinality(ps) - 1)
        /\ \A i \in 0..(Cardinality(ps) - 1) : NodeAt(ps, i) \in ps
    BY <2>1, NodeAtPosition
  <2>3. next \in Int
    BY <2>2
  <2>4. /\ replaced' = FALSE
        /\ IF next \in 0..(Cardinality(ps) - 1)
           THEN cursor' = NodeAt(ps, next) /\ Settle(Current, TRUE, EnsureVisible(ps, next))
           ELSE cursor' = Selected /\ Settle(Current, TRUE, scroll + 3 * delta)
    BY <1>4 DEF Move
  <2>5. EnsureVisible(ps, next) \in Int
    BY <2>2, <2>3, ScrollTypes
  <2>6. cursor' \in ps
    BY <2>1, <2>2, <2>4
  <2> HIDE DEF next
  <2> QED
    BY <1>1, <1>2, <1>4, <2>4, <2>5, <2>6, Walks
<1> QED
  BY <1>3, <1>4

\* The handler leaves the tree and the cursor as they are.
LEMMA StayInv ==
  ASSUME Inv, JsonActive, UNCHANGED <<shown, panel, showModels, size>>,
         replaced' = FALSE, Stay
  PROVE  Inv'
<1>1. Selected \in Visible(Current) /\ scroll \in Int
  BY AtHand, ScrollTypes
<1> QED
  BY <1>1, Walks DEF Stay

\* enter
LEMMA ToggleInv ==
  ASSUME Inv, Toggle
  PROVE  Inv'
<1>1. /\ JsonActive /\ replaced' = FALSE
      /\ UNCHANGED <<shown, panel, showModels, size>>
  BY DEF Toggle
<1>2. Selected \in Visible(Current)
  BY <1>1, AtHand
<1>3. CASE IsContainer(Selected)
  <2> DEFINE folded == IF Selected \in Current.folded THEN Current.folded \ {Selected}
                       ELSE Current.folded \cup {Selected}
  <2>1. cursor' = Selected /\ Settle([Current EXCEPT !.folded = folded], FALSE, scroll)
    BY <1>3 DEF Toggle, Fold
  <2>2. folded \subseteq Current.folded \cup {Selected}
    OBVIOUS
  <2> HIDE DEF folded
  <2> QED
    BY <1>1, <1>2, <1>3, <2>1, <2>2, Folds
<1>4. CASE ~IsContainer(Selected)
  BY <1>1, <1>4, StayInv DEF Toggle
<1> QED
  BY <1>3, <1>4

\* right: a node that is not folded has its children on the screen.
LEMMA ExpandInv ==
  ASSUME Inv, Expand
  PROVE  Inv'
<1>1. /\ JsonActive /\ replaced' = FALSE
      /\ UNCHANGED <<shown, panel, showModels, size>>
  BY DEF Expand
<1>2. /\ Selected \in Visible(Current) /\ Body \in Bodies
      /\ Current \in TreeStates /\ Current.body = Body
  BY <1>1, AtHand
<1>3. CASE Selected \in Current.folded
  <2> DEFINE folded == Current.folded \ {Selected}
  <2>1. cursor' = Selected /\ Settle([Current EXCEPT !.folded = folded], FALSE, scroll)
    BY <1>3 DEF Expand, Fold
  <2>2. folded \subseteq Current.folded \cup {Selected} /\ Selected \notin folded
    OBVIOUS
  <2> HIDE DEF folded
  <2> QED
    BY <1>1, <1>2, <2>1, <2>2, Folds
<1>4. CASE Selected \notin Current.folded /\ Children(Selected) # {}
  <2> DEFINE first == CHOOSE p \in Children(Selected) :
                        \A q \in Children(Selected) : p = q \/ Before(p, q)
  <2>1. cursor' = first /\ Settle(Current, TRUE, 0)
    BY <1>4 DEF Expand, Jump
  <2>5. 0 \in Int
    OBVIOUS
  <2>2. first \in Children(Selected)
    <3>1. Children(Selected) = {q \in Body.nodes \ {Root} : Front(q) = Selected}
      BY DEF Children
    <3> QED
      BY <1>2, <1>4, <3>1, FirstChild
  <2> HIDE DEF first
  <2>3. first \in Current.body.nodes \ {Root} /\ Front(first) = Selected
    BY <1>2, <2>2 DEF Children
  <2>4. first \in Visible(Current)
    BY <1>2, <1>4, <2>3, ChildVisible
  <2> QED
    BY <1>1, <2>1, <2>4, <2>5, Walks
<1>5. CASE Selected \notin Current.folded /\ Children(Selected) = {}
  BY <1>1, <1>5, StayInv DEF Expand
<1> QED
  BY <1>3, <1>4, <1>5

\* left: with a node its parent is on the screen.
LEMMA CollapseInv ==
  ASSUME Inv, Collapse
  PROVE  Inv'
<1>1. /\ JsonActive /\ replaced' = FALSE
      /\ UNCHANGED <<shown, panel, showModels, size>>
  BY DEF Collapse
<1>2. /\ Selected \in Visible(Current) /\ Body \in Bodies
      /\ Current \in TreeStates /\ Current.body = Body
  BY <1>1, AtHand
<1>3. CASE IsContainer(Selected) /\ Selected \notin Current.folded
  <2> DEFINE folded == Current.folded \cup {Selected}
  <2>1. cursor' = Selected /\ Settle([Current EXCEPT !.folded = folded], FALSE, scroll)
    BY <1>3 DEF Collapse, Fold
  <2>2. folded \subseteq Current.folded \cup {Selected}
    OBVIOUS
  <2> HIDE DEF folded
  <2> QED
    BY <1>1, <1>2, <1>3, <2>1, <2>2, Folds
<1>4. CASE Selected # Root /\ (~IsContainer(Selected) \/ Selected \in Current.folded)
  <2>1. cursor' = Front(Selected) /\ Settle(Current, TRUE, 0)
    BY <1>4 DEF Collapse, Jump
  <2>2. Front(Selected) \in Visible(Current)
    BY <1>1, <1>2, <1>4, AtHand, ParentVisible DEF TreeShown
  <2>3. 0 \in Int
    OBVIOUS
  <2> QED
    BY <1>1, <2>1, <2>2, <2>3, Walks
<1>5. CASE /\ ~(IsContainer(Selected) /\ Selected \notin Current.folded)
           /\ ~(Selected # Root /\ (~IsContainer(Selected) \/ Selected \in Current.folded))
  BY <1>1, <1>5, StayInv DEF Collapse
<1> QED
  BY <1>3, <1>4, <1>5

-----------------------------------------------------------------------------
\* Another panel is shown, and the catalogue closed.
LEMMA SelectPanelInv ==
  ASSUME Inv, NEW p \in Panels, SelectPanel(p)
  PROVE  Inv'
<1>1. /\ UNCHANGED <<shown, size>> /\ panel' = p /\ showModels' = FALSE
      /\ cursor' = Root /\ replaced' = FALSE /\ Settle(tree, TRUE, 0)
  BY DEF SelectPanel
<1>2. 0 \in Int
  OBVIOUS
<1>3. Root \in Path
  BY DEF Root, Path
<1>4. ViewInv' /\ count' = count
  BY <1>1, <1>3 DEF Inv, ViewInv, shown
<1> QED
  BY <1>1, <1>2, <1>4, ShowsAnew

\* The catalogue is opened or closed.
LEMMA ToggleModelsInv ==
  ASSUME Inv, ToggleModels
  PROVE  Inv'
<1>1. /\ UNCHANGED <<shown, panel, cursor, size, replaced>> /\ showModels' = ~showModels
      /\ Settle(tree, TRUE, 0)
  BY DEF ToggleModels
<1>3. 0 \in Int
  OBVIOUS
<1>2. ViewInv' /\ count' = count /\ Body' = Body
  BY <1>1 DEF Inv, ViewInv, shown, Body
<1> QED
  BY <1>1, <1>2, <1>3, Keeps

\* Scrolling.
LEMMA ScrollInv ==
  ASSUME Inv, NEW want \in Int, ScrollTo(want)
  PROVE  Inv'
<1>1. /\ UNCHANGED <<shown, panel, showModels, cursor, size, replaced>>
      /\ Settle(tree, TRUE, want)
  BY DEF ScrollTo
<1>2. ViewInv' /\ count' = count /\ Body' = Body
  BY <1>1 DEF Inv, ViewInv, shown, Body
<1> QED
  BY <1>1, <1>2, Keeps

\* Another size of the terminal.
LEMMA ResizeInv ==
  ASSUME Inv, Resize
  PROVE  Inv'
<1>1. /\ UNCHANGED <<shown, panel, showModels, cursor, replaced>> /\ size' \in Sizes
      /\ Settle(tree, TRUE, scroll)
  BY DEF Resize
<1>2. ViewInv' /\ count' = count /\ Body' = Body
  BY <1>1 DEF Inv, ViewInv, shown, Body
<1>3. scroll \in Int
  BY ScrollTypes
<1> QED
  BY <1>1, <1>2, <1>3, Keeps

\* Another trace of as many is shown, from its root.
LEMMA TraceShown ==
  ASSUME Inv, NEW position \in 1..count, count > 0,
         UNCHANGED <<count, panel, showModels, size>>,
         bodies' \in Payloads \/ bodies' = bodies, ShowTrace(position)
  PROVE  Inv'
<1>1. /\ selected' = position /\ cursor' = Root /\ replaced' = FALSE
      /\ Settle(tree, TRUE, 0)
  BY DEF ShowTrace
<1>2. bodies' \in [Panels -> Bodies]
  BY ViewerAssumption DEF Inv, ViewInv
<1>3. count \in Nat /\ position \in Nat /\ Root \in Path
  BY ViewerAssumption DEF Inv, ViewInv, Root, Path
<1>4. ViewInv'
  <2>1. /\ panel' \in Panels /\ showModels' \in BOOLEAN /\ replaced' \in BOOLEAN
        /\ size' \in Sizes /\ cursor' \in Path
    BY <1>1, <1>3 DEF Inv, ViewInv
  <2>2. /\ count' \in 0..Limit /\ selected' \in Nat /\ selected' \in 1..count'
        /\ count' = count
    BY <1>1, <1>3 DEF Inv, ViewInv
  <2>3. ~(count' = 0)
    BY <2>2
  <2> QED
    BY <1>2, <2>1, <2>2, <2>3 DEF ViewInv
<1>5. 0 \in Int
  OBVIOUS
<1> QED
  BY <1>1, <1>4, <1>5, ShowsAnew

\* Another request.
LEMMA SelectRequestInv ==
  ASSUME Inv, NEW delta \in {-1, 1}, SelectRequest(delta)
  PROVE  Inv'
<1> DEFINE next == Min({Max({1, selected + delta}), count})
<1>1. /\ count > 0 /\ UNCHANGED <<count, panel, showModels, size>>
      /\ bodies' \in Payloads \/ bodies' = bodies
      /\ ShowTrace(next)
  BY DEF SelectRequest
<1>2. count \in Nat /\ selected \in 1..count
  BY <1>1, ViewerAssumption DEF Inv, ViewInv
<1>3. next \in 1..count
  <2> DEFINE high == Max({1, selected + delta})
  <2>1. selected + delta \in Int
    BY <1>2
  <2>2. high = IF 1 >= selected + delta THEN 1 ELSE selected + delta
    BY <2>1, OfTwo
  <2>3. high \in Nat /\ high >= 1
    BY <2>1, <2>2
  <2> HIDE DEF high
  <2>4. Min({high, count}) = IF high <= count THEN high ELSE count
    BY <1>2, <2>3, OfTwo
  <2>5. Min({high, count}) \in 1..count
    BY <1>1, <1>2, <2>3, <2>4
  <2> QED
    BY <2>5 DEF high
<1> HIDE DEF next
<1> QED
  BY <1>1, <1>3, TraceShown

\* What the newest trace holds changes, or that of another.
LEMMA TraceChangedInv ==
  ASSUME Inv, TraceChanged
  PROVE  Inv'
<1>1. /\ count > 0 /\ UNCHANGED <<count, panel, showModels, size>> /\ bodies' \in Payloads
  BY DEF TraceChanged
<1>2. count \in Nat /\ selected \in 1..count /\ scroll \in Int
  BY <1>1, ViewerAssumption, ScrollTypes DEF Inv, ViewInv
<1>3. CASE selected = count
  <2>1. ShowTrace(count) /\ count \in 1..count
    BY <1>2, <1>3 DEF TraceChanged
  <2> QED
    BY <1>1, <2>1, TraceShown
<1>4. CASE selected # count
  <2>1. /\ selected' = selected /\ cursor' = cursor /\ Settle(tree, TRUE, scroll)
        /\ replaced' = (replaced \/ bodies'[panel] # Body)
    BY <1>4 DEF TraceChanged
  <2>2. bodies' \in [Panels -> Bodies]
    BY <1>1, ViewerAssumption
  <2>3. replaced' \in BOOLEAN /\ (~replaced' => ~replaced /\ Body' = Body)
    BY <1>1, <2>1 DEF Inv, ViewInv, Body
  <2>4. ViewInv'
    BY <1>1, <1>2, <2>1, <2>2, <2>3 DEF Inv, ViewInv
  <2> QED
    BY <1>1, <1>2, <2>1, <2>3, <2>4, Keeps
<1> QED
  BY <1>3, <1>4

\* A trace more, for which the oldest may have to go: the position of the
\* selected one stays a position.
LEMMA TraceAddedInv ==
  ASSUME Inv, TraceAdded
  PROVE  Inv'
<1>1. /\ UNCHANGED <<panel, showModels, size>> /\ count' = Min({count + 1, Limit})
      /\ bodies' \in Payloads \/ bodies' = bodies
      /\ selected = count => bodies' \in Payloads
  BY DEF TraceAdded
<1>2. /\ count \in 0..Limit /\ count \in Nat /\ selected \in Nat
      /\ Limit \in Nat \ {0} /\ scroll \in Int
      /\ count > 0 => selected \in 1..count
      /\ count = 0 => selected = 0
  BY ViewerAssumption, ScrollTypes DEF Inv, ViewInv
<1>3. count' = IF count + 1 <= Limit THEN count + 1 ELSE Limit
  <2>1. count + 1 \in Int /\ Limit \in Int
    BY <1>2
  <2>2. Min({count + 1, Limit}) = IF count + 1 <= Limit THEN count + 1 ELSE Limit
    BY <2>1, OfTwo
  <2> QED
    BY <1>1, <2>2
<1>4. count' \in 0..Limit /\ count' > 0 /\ count' # 0
  BY <1>2, <1>3
<1>5. bodies' \in [Panels -> Bodies]
  BY <1>1, ViewerAssumption DEF Inv, ViewInv
<1>6. CASE selected = count
  <2>1. /\ selected' = count' /\ cursor' = Root /\ replaced' = FALSE
        /\ Settle(tree, TRUE, 0)
    BY <1>6 DEF TraceAdded, ShowTrace
  <2>2. Root \in Path
    BY DEF Root, Path
  <2>3. selected' \in Nat /\ selected' \in 1..count'
    BY <1>2, <1>4, <2>1
  <2>4. ViewInv'
    <3>1. /\ panel' \in Panels /\ showModels' \in BOOLEAN /\ replaced' \in BOOLEAN
          /\ size' \in Sizes /\ cursor' \in Path
      BY <1>1, <2>1, <2>2 DEF Inv, ViewInv
    <3> QED
      BY <1>4, <1>5, <2>3, <3>1 DEF ViewInv
  <2>5. 0 \in Int
    OBVIOUS
  <2> QED
    BY <1>4, <2>1, <2>4, <2>5, ShowsAnew
<1>7. CASE selected # count
  <2>1. /\ selected' = IF count = Limit THEN Max({1, selected - 1}) ELSE selected
        /\ cursor' = cursor /\ Settle(tree, TRUE, scroll)
        /\ replaced' = (replaced \/ bodies'[panel] # Body)
    BY <1>7 DEF TraceAdded
  <2>2. selected \in 1..count /\ count > 0
    BY <1>2, <1>7
  <2>3. Max({1, selected - 1}) = IF 1 >= selected - 1 THEN 1 ELSE selected - 1
    BY <1>2, OfTwo
  <2>4. selected' \in Nat /\ selected' \in 1..count'
    BY <1>2, <1>3, <1>4, <2>1, <2>2, <2>3
  <2>5. replaced' \in BOOLEAN /\ (~replaced' => ~replaced /\ Body' = Body)
    BY <1>1, <2>1 DEF Inv, ViewInv, Body
  <2>6. ViewInv'
    BY <1>1, <1>4, <1>5, <2>1, <2>4, <2>5 DEF Inv, ViewInv
  <2>7. (count' = 0 => count = 0) /\ scroll \in Int
    BY <1>2, <1>4
  <2> QED
    BY <2>1, <2>5, <2>6, <2>7, Keeps
<1> QED
  BY <1>6, <1>7

-----------------------------------------------------------------------------
\* The form of the tab row has a tab for each panel, or is hidden.
LEMMA FormIs ==
  ASSUME NEW width
  PROVE  /\ PanelLabelForm(width) \in Seq(Nat \ {0})
         /\ DOMAIN PanelLabelForm(width) \subseteq Panels
<1> DEFINE form == PanelLabelForm(width)
           fitting == {i \in DOMAIN TabForms : TabRowWidth(TabForms[i]) =< width}
<1>1. form = IF fitting = {} THEN <<>> ELSE TabForms[Min(fitting)]
  BY DEF PanelLabelForm
<1>2. /\ DOMAIN TabForms \subseteq Nat
      /\ \A i \in DOMAIN TabForms : TabForms[i] \in Seq(Nat \ {0}) /\ DOMAIN TabForms[i] = Panels
  <2>1. TabForms \in Seq(Seq(Nat \ {0})) /\ Len(TabForms) # 0
    BY LayoutAssumption, EmptySeq
  <2>2. DOMAIN TabForms = 1..Len(TabForms) /\ 1 \in 1..Len(TabForms)
    BY <2>1
  <2>3. \A i \in 1..Len(TabForms) : TabForms[i] \in Seq(Nat \ {0})
    BY <2>1
  <2>4. \A i \in 1..Len(TabForms) : DOMAIN TabForms[i] = 1..Len(TabForms[i])
    BY <2>3
  <2>5. \A i \in 1..Len(TabForms) : Len(TabForms[i]) = Len(TabForms[1])
    BY <2>2, LayoutAssumption
  <2> QED
    BY <2>2, <2>3, <2>4, <2>5 DEF Panels
<1>3. fitting # {} => Min(fitting) \in fitting
  <2>1. fitting \subseteq Nat
    BY <1>2
  <2> HIDE DEF fitting
  <2>2. fitting # {} => \E i \in fitting : \A j \in fitting : i =< j
    BY <2>1, Least
  <2> QED
    BY <2>2 DEF Min
<1>4. fitting \subseteq DOMAIN TabForms
  OBVIOUS
<1> HIDE DEF fitting, form
<1>5. CASE fitting = {}
  <2>1. form = <<>>
    BY <1>1, <1>5
  <2>2. <<>> \in Seq(Nat \ {0}) /\ DOMAIN <<>> = {}
    OBVIOUS
  <2> QED
    BY <2>1, <2>2 DEF form
<1>6. CASE fitting # {}
  <2>1. form = TabForms[Min(fitting)] /\ Min(fitting) \in DOMAIN TabForms
    BY <1>1, <1>3, <1>4, <1>6
  <2> QED
    BY <1>2, <2>1 DEF form
<1> QED
  BY <1>5, <1>6

\* The tab row has tabs of panels only.
LEMMA TabsArePanels ==
  ASSUME NEW width, NEW x
  PROVE  PanelTabAt(width, x) \subseteq Panels
<1>1. PanelTabAt(width, x) \subseteq DOMAIN PanelLabelForm(width)
  BY DEF PanelTabAt
<1> QED
  BY <1>1, FormIs

\* What a click may be for: a panel there is, a request there is, and a node
\* that is drawn.
Sensible(target) ==
  /\ target.kind = "panel" => target.what \in Panels
  /\ target.kind = "request" => target.what \in 1..count
  /\ target.kind = "node" =>
       TreeShown /\ target.what \in 0..(Cardinality(drawn.nodes) - 1)

\* A click on the detail panel.
LEMMA DetailSensible ==
  ASSUME Inv, ~showModels, count > 0, NEW x, NEW row, NEW width
  PROVE  Sensible(DetailAt(x, row, width))
<1> DEFINE tabs == PanelTabAt(width, x)
           node == (scroll + row) - TreeLine(drawn.key[4])
<1>1. Sensible(Nothing)
  BY DEF Sensible, Nothing, Target
<1>2. ASSUME tabs # {} PROVE Sensible(Target("panel", CHOOSE p \in tabs : TRUE))
  <2>1. (CHOOSE p \in tabs : TRUE) \in Panels
    BY <1>2, TabsArePanels
  <2> QED
    BY <2>1 DEF Sensible, Target
<1>3. ASSUME node \in 0..(Cardinality(drawn.nodes) - 1) PROVE Sensible(Target("node", node))
  <2>1. /\ drawn.valid /\ Cached(drawn, tree)
        /\ drawn.key = <<panel, cursor, Body, DetailWidth(size)>>
    BY DEF Inv, CacheInv
  <2>2. drawn.key[3] = Body
    BY <2>1
  <2>3. drawn.nodes # {}
    <3>1. Cardinality({}) = 0 /\ 0..(0 - 1) = {}
      BY FS_EmptySet
    <3> QED
      BY <1>3, <3>1
  <2>4. IsTree(Body)
    BY <2>1, <2>2, <2>3 DEF Cached
  <2>5. TreeShown
    BY <2>4 DEF TreeShown
  <2> HIDE DEF node
  <2> QED
    BY <1>3, <2>5 DEF Sensible, Target
<1>4. \/ DetailAt(x, row, width) = Nothing
      \/ tabs # {} /\ DetailAt(x, row, width) = Target("panel", CHOOSE p \in tabs : TRUE)
      \/ /\ node \in 0..(Cardinality(drawn.nodes) - 1)
         /\ DetailAt(x, row, width) = Target("node", node)
  <2>1. DetailAt(x, row, width) =
          IF scroll + row = 4
          THEN IF tabs = {} THEN Nothing ELSE Target("panel", CHOOSE p \in tabs : TRUE)
          ELSE IF node \in 0..(Cardinality(drawn.nodes) - 1) THEN Target("node", node)
          ELSE Nothing
    BY DEF DetailAt
  <2> HIDE DEF tabs, node
  <2> QED
    BY <2>1
<1> HIDE DEF tabs, node
<1> QED
  BY <1>1, <1>2, <1>3, <1>4

\* The rows of the list, and the requests in front of its first one.
LEMMA ListTypes ==
  ASSUME Inv, NEW height \in Int
  PROVE  ListRows(height) \in Int /\ ListStart(height, selected, count) \in Nat
<1> DEFINE start == ListStart(height, selected, count)
<1>1. count \in Nat /\ selected \in Nat
  BY ViewerAssumption DEF Inv, ViewInv
<1>2. ListRows(height) \in Int
  <2>1. (height - 1) \div 2 \in Int
    OBVIOUS
  <2>2. Max({1, (height - 1) \div 2})
          = IF 1 >= (height - 1) \div 2 THEN 1 ELSE (height - 1) \div 2
    BY <2>1, OfTwo
  <2> QED
    BY <2>1, <2>2 DEF ListRows
<1>3. start \in Nat
  <2> DEFINE a == selected - 1 - (ListRows(height) \div 2)
             b == count - ListRows(height)
             low == Min({a, b})
  <2>1. a \in Int /\ b \in Int
    BY <1>1, <1>2
  <2>2. low = IF a <= b THEN a ELSE b
    <3> HIDE DEF a, b
    <3> QED
      BY <2>1, OfTwo
  <2>3. low \in Int
    BY <2>1, <2>2
  <2>4. start = Max({0, low})
    BY DEF ListStart
  <2> HIDE DEF a, b, low, start
  <2>5. start = IF 0 >= low THEN 0 ELSE low
    BY <2>3, <2>4, OfTwo
  <2> QED
    BY <2>3, <2>5
<1> QED
  BY <1>2, <1>3

\* A click on the list of requests.
LEMMA RequestSensible ==
  ASSUME Inv, count > 0, NEW row \in Int, NEW height \in Int
  PROVE  Sensible(RequestAt(row, height))
<1> DEFINE offset == (row - 1) \div 2
           start == ListStart(height, selected, count)
           index == start + offset + 1
<1>1. count \in Nat
  BY ViewerAssumption DEF Inv, ViewInv
<1>3. start \in Nat
  BY ListTypes
<1>4. RequestAt(row, height) =
        IF row >= 1 /\ offset < ListRows(height) /\ index =< count
        THEN Target("request", index) ELSE Nothing
  BY DEF RequestAt
<1> HIDE DEF start
<1>5. row >= 1 /\ index =< count => index \in 1..count
  BY <1>1, <1>3
<1> HIDE DEF offset, index
<1>6. Sensible(Nothing) /\ (index \in 1..count => Sensible(Target("request", index)))
  BY DEF Sensible, Nothing, Target
<1> QED
  BY <1>4, <1>5, <1>6

\* A click anywhere on the terminal.
LEMMA ClickSensible ==
  ASSUME Inv, NEW c \in Cells
  PROVE  Sensible(ClickedAt(c[1], c[2]))
<1> DEFINE x == c[1]
           y == c[2]
           bodyHeight == BodyHeight(size, showModels)
           bodyRow == y - HeaderLines(size, showModels)
<1>1. x \in Int /\ y \in Int /\ size \in Sizes /\ showModels \in BOOLEAN
  <2>1. size \in Sizes /\ showModels \in BOOLEAN
    BY DEF Inv, ViewInv
  <2>2. size.height \in Nat
    BY <2>1, LayoutTypes
  <2>3. x \in Columns /\ y \in 0..(size.height - 1)
    BY DEF Cells
  <2>4. y \in Int
    BY <2>2, <2>3
  <2>5. x \in Int
    <3>1. Columns \subseteq Nat
      BY ViewerAssumption
    <3>2. x \in Nat
      BY <2>3, <3>1
    <3> HIDE DEF x
    <3> QED
      BY <3>2
  <2> QED
    BY <2>1, <2>4, <2>5
<1>2. bodyHeight \in Int /\ bodyRow \in Int
  <2>1. BodyHeight(size, showModels) \in Nat
    BY <1>1, LayoutTypes
  <2>2. HeaderLines(size, showModels) \in {1, 2}
    BY DEF HeaderLines
  <2> QED
    BY <1>1, <2>1, <2>2
<1>3. Sensible(Nothing)
  BY DEF Sensible, Nothing, Target
<1> HIDE DEF x, y, bodyHeight, bodyRow
<1>4. CASE ClickedAt(c[1], c[2]) = Nothing
  BY <1>3, <1>4
<1>5. CASE ClickedAt(c[1], c[2]) # Nothing
  <2> DEFINE leftOuter == LeftOuter(size)
             rightOuter == size.width - leftOuter - 1
  <2>1. /\ ~showModels /\ ~(count = 0)
        /\ ClickedAt(c[1], c[2]) \in
             {DetailAt(x, bodyRow, size.width),
              DetailAt(x - 1, bodyRow - 1, size.width - 2),
              RequestAt(bodyRow - 1, bodyHeight - 2),
              DetailAt(x - (leftOuter + 2), bodyRow - 1, rightOuter - 2)}
    BY <1>5 DEF ClickedAt, x, y, bodyHeight, bodyRow
  <2>2. count > 0
    BY <2>1, ViewerAssumption DEF Inv, ViewInv
  <2>3. bodyRow - 1 \in Int /\ bodyHeight - 2 \in Int
    BY <1>2
  <2>4. Sensible(RequestAt(bodyRow - 1, bodyHeight - 2))
    BY <2>2, <2>3, RequestSensible
  <2>5. \A cx, row, width : Sensible(DetailAt(cx, row, width))
    BY <2>1, <2>2, DetailSensible
  <2> QED
    BY <2>1, <2>4, <2>5
<1> QED
  BY <1>4, <1>5

\* The node that is clicked is folded or unfolded if it is a container; the
\* nodes of a loose body stay as they are.
LEMMA ClickNodeInv ==
  ASSUME Inv, TreeShown, NEW clicked \in Visible(Current), ClickNode(clicked)
  PROVE  Inv'
<1>1. /\ replaced' = FALSE /\ UNCHANGED <<shown, panel, showModels, size>>
      /\ cursor' = clicked
  BY DEF ClickNode
<1>2. cursor' \in Visible(Current) /\ scroll \in Int
  BY <1>1, ScrollTypes
<1> DEFINE folded == IF cursor' \in Current.folded THEN Current.folded \ {cursor'}
                     ELSE Current.folded \cup {cursor'}
<1>3. CASE JsonActive /\ IsContainer(cursor')
  <2>1. Settle([Current EXCEPT !.folded = folded], FALSE, scroll)
    BY <1>3 DEF ClickNode
  <2>2. folded \subseteq Current.folded \cup {cursor'}
    OBVIOUS
  <2> HIDE DEF folded
  <2>3. PICK p \in Visible(Current) : p = cursor'
    BY <1>2
  <2>4. /\ folded \subseteq Current.folded \cup {p} /\ IsContainer(p)
    BY <1>3, <2>2, <2>3
  <2> QED
    BY <1>1, <1>3, <2>1, <2>3, <2>4, Folds
<1>4. CASE JsonActive /\ ~IsContainer(cursor')
  <2>1. Settle(Current, TRUE, scroll)
    BY <1>4 DEF ClickNode
  <2> QED
    BY <1>1, <1>2, <1>4, <2>1, Walks
<1>5. CASE ~JsonActive
  <2>1. Settle(tree, TRUE, scroll)
    BY <1>5 DEF ClickNode
  <2>2. /\ tree \in TreeStates /\ Sound(tree) /\ Cached(drawn, tree) /\ Current = tree
        /\ Load(Current, Body) = Current /\ Visible(Current) \subseteq Path
    BY AtHand
  <2>3. ViewInv' /\ Body' = Body /\ count' = count
    BY <1>1, <1>2, <2>2, CursorMoves
  <2>4. cursor' \in Visible(Load(tree, Body'))
    BY <1>2, <2>2, <2>3
  <2> QED
    BY <1>2, <2>1, <2>2, <2>3, <2>4, SettleInv
<1> QED
  BY <1>3, <1>4, <1>5

\* A click.
LEMMA ClickInv ==
  ASSUME Inv, NEW target, Sensible(target), Click(target)
  PROVE  Inv'
<1>1. CASE target.kind = "panel" /\ ClickPanel(target.what)
  <2>1. target.what \in Panels /\ SelectPanel(target.what)
    BY <1>1 DEF Sensible, ClickPanel
  <2> QED
    BY <2>1, SelectPanelInv
<1>2. CASE target.kind = "request" /\ ClickRequest(target.what)
  <2>1. target.what \in 1..count
    BY <1>2 DEF Sensible
  <2>2. count > 0
    BY <2>1, ViewerAssumption DEF Inv, ViewInv
  <2>3. /\ UNCHANGED <<count, panel, showModels, size>> /\ bodies' \in Payloads
        /\ ShowTrace(target.what)
    BY <1>2 DEF ClickRequest
  <2> QED
    BY <2>1, <2>2, <2>3, TraceShown
<1>3. CASE target.kind = "node" /\ ClickNode(NodeAt(drawn.nodes, target.what))
  <2>1. TreeShown /\ target.what \in 0..(Cardinality(drawn.nodes) - 1)
    BY <1>3 DEF Sensible
  <2>2. /\ drawn.nodes = Visible(Current) /\ Visible(Current) \subseteq Path
        /\ IsFiniteSet(Visible(Current)) /\ Root \in Visible(Current)
    BY <2>1, AtHand
  <2>3. NodeAt(drawn.nodes, target.what) \in Visible(Current)
    BY <2>1, <2>2, NodeAtPosition
  <2> QED
    BY <1>3, <2>1, <2>3, ClickNodeInv
<1> QED
  BY <1>1, <1>2, <1>3 DEF Click

-----------------------------------------------------------------------------
\* A step keeps the invariant.
LEMMA NextInv == Inv /\ [Next]_vars => Inv'
<1> SUFFICES ASSUME Inv, [Next]_vars PROVE Inv'
  OBVIOUS
<1>1. CASE Move(-1) \/ Move(1)
  BY <1>1, MoveInv
<1>2. CASE Toggle
  BY <1>2, ToggleInv
<1>3. CASE Expand
  BY <1>3, ExpandInv
<1>4. CASE Collapse
  BY <1>4, CollapseInv
<1>5. CASE \E target \in {ClickedAt(c[1], c[2]) : c \in Cells} : Click(target)
  <2>1. PICK c \in Cells : Click(ClickedAt(c[1], c[2]))
    BY <1>5
  <2> QED
    BY <2>1, ClickSensible, ClickInv
<1>6. CASE \E want \in {0, Bottom} \cup {scroll + d : d \in {-6, -1, 1, 6, Page, -Page}} :
             ScrollTo(want)
  <2>1. PICK want \in {0, Bottom} \cup {scroll + d : d \in {-6, -1, 1, 6, Page, -Page}} :
          ScrollTo(want)
    BY <1>6
  <2>2. want \in Int
    <3>1. scroll \in Int /\ Page \in Int /\ Bottom \in Int
      BY ScrollTypes
    <3> HIDE DEF Page, Bottom
    <3> QED
      BY <3>1
  <2> QED
    BY <2>1, <2>2, ScrollInv
<1>7. CASE \E p \in Panels : SelectPanel(p)
  BY <1>7, SelectPanelInv
<1>8. CASE ToggleModels
  BY <1>8, ToggleModelsInv
<1>9. CASE \E delta \in {-1, 1} : SelectRequest(delta)
  BY <1>9, SelectRequestInv
<1>10. CASE TraceChanged
  BY <1>10, TraceChangedInv
<1>11. CASE TraceAdded
  BY <1>11, TraceAddedInv
<1>12. CASE Resize
  BY <1>12, ResizeInv
<1>13. CASE UNCHANGED vars
  BY <1>13 DEF vars, Inv, ViewInv, CacheInv, CursorInv, Body, Current
<1> QED
  BY <1>1, <1>2, <1>3, <1>4, <1>5, <1>6, <1>7, <1>8, <1>9, <1>10, <1>11, <1>12, <1>13
  DEF Next

\* The lines in the cache are always those of the tree as it is folded now, for
\* the panel, the cursor, the body and the width there are now, and the folded
\* nodes are containers of this tree: invalidateViewer is called wherever it must
\* be, and the key of the cache tells apart what it must.
THEOREM CachedLinesAreCurrent == Spec => []DrawnIsCurrent
<1>1. Inv => DrawnIsCurrent
  <2> SUFFICES ASSUME Inv, ~showModels, drawn.valid, count > 0
               PROVE  /\ drawn.key = <<panel, cursor, Body, DetailWidth(size)>>
                      /\ drawn.nodes = IF IsTree(Body) THEN Visible(Current) ELSE {}
                      /\ tree.folded \subseteq tree.body.containers
    BY DEF DrawnIsCurrent
  <2>1. /\ drawn.key = <<panel, cursor, Body, DetailWidth(size)>>
        /\ Cached(drawn, tree) /\ Sound(tree) /\ tree \in TreeStates
    BY DEF Inv, CacheInv
  <2>2. drawn.key[3] = Body /\ Body \in Bodies
    BY <2>1, AtHand
  <2>3. tree.body = Body => Current = tree
    BY <2>1, <2>2, Loaded DEF Current
  <2>4. drawn.nodes = IF IsTree(Body) THEN Visible(Current) ELSE {}
    BY <2>1, <2>2, <2>3 DEF Cached
  <2> QED
    BY <2>1, <2>4 DEF Sound
<1> QED
  BY <1>1, InitInv, NextInv, PTL DEF Spec

\* The cursor is never on a node inside a folded one, or on none, unless a change
\* of the trace has just put another body under it.
THEOREM CursorStaysDrawn == Spec => []CursorIsDrawn
<1>1. Inv => CursorIsDrawn
  BY DEF Inv, CursorInv, CursorIsDrawn
<1> QED
  BY <1>1, InitInv, NextInv, PTL DEF Spec

-----------------------------------------------------------------------------
\* f holds where the first k tabs of a row begin, each from the one before it.
Begins(form, k, f) ==
  f = [i \in 1..k |-> IF i = 1 THEN 0 ELSE f[i - 1] + form[i - 1] + 1]

\* There is such an f for any number of tabs: a longer one from a shorter one.
LEMMA BeginsExists ==
  ASSUME NEW form, NEW n \in Nat
  PROVE  \E f : Begins(form, n, f)
<1> DEFINE without == {k \in Nat : ~\E f : Begins(form, k, f)}
<1>1. SUFFICES ASSUME without # {} PROVE FALSE
  BY DEF without
<1>2. PICK k \in without : \A j \in without : k <= j
  <2>1. without \subseteq Nat
    OBVIOUS
  <2> HIDE DEF without
  <2> QED
    BY <1>1, <2>1, Least
<1>3. k \in Nat /\ ~\E f : Begins(form, k, f)
  OBVIOUS
<1>4. CASE k = 0
  <2> DEFINE f == [i \in 1..0 |-> 0]
  <2>1. Begins(form, 0, f)
    BY DEF Begins
  <2> QED
    BY <1>3, <1>4, <2>1
<1>5. CASE k # 0
  <2>1. k - 1 \in Nat /\ ~(k <= k - 1)
    BY <1>3, <1>5
  <2>2. k - 1 \notin without
    BY <1>2, <2>1
  <2>3. PICK f : Begins(form, k - 1, f)
    BY <2>1, <2>2
  <2> DEFINE g == [i \in 1..k |-> IF i = 1 THEN 0 ELSE f[i - 1] + form[i - 1] + 1]
  <2>4. \A i \in 1..(k - 1) : g[i] = f[i]
    <3>1. \A i \in 1..(k - 1) : i \in 1..k
      BY <1>3
    <3>2. \A i \in 1..(k - 1) : f[i] = IF i = 1 THEN 0 ELSE f[i - 1] + form[i - 1] + 1
      BY <2>3 DEF Begins
    <3> QED
      BY <3>1, <3>2
  <2>5. \A i \in 1..k : i # 1 => g[i - 1] = f[i - 1]
    <3>1. \A i \in 1..k : i # 1 => i - 1 \in 1..(k - 1)
      BY <1>3
    <3> HIDE DEF g
    <3> QED
      BY <2>4, <3>1
  <2>6. Begins(form, k, g)
    BY <2>5 DEF Begins
  <2> QED
    BY <1>3, <2>6
<1> QED
  BY <1>4, <1>5

\* A tab begins one column behind the end of the one in front of it, so that no
\* two of them overlap.
Placed(form, n, pos) ==
  /\ n \in Nat /\ DOMAIN form = 1..n
  /\ \A i \in 1..n : pos[i] \in Nat /\ form[i] \in Nat \ {0}
  /\ \A i \in 1..n : i = 1 => pos[i] = 0
  /\ \A i \in 1..n : i # 1 => i - 1 \in 1..n /\ pos[i] = pos[i - 1] + form[i - 1] + 1
  /\ \A p, q \in 1..n : p < q => pos[p] + form[p] < pos[q]

\* The tabs of any row are placed so.
LEMMA TabPositionsAre ==
  ASSUME NEW form \in Seq(Nat \ {0}), NEW n, n = Len(form),
         NEW pos, pos = TabPositions(form)
  PROVE  Placed(form, n, pos)
<1>1. n \in Nat /\ DOMAIN form = 1..n /\ \A i \in 1..n : form[i] \in Nat \ {0}
  OBVIOUS
<1>2. Begins(form, n, pos)
  <2> DEFINE p == CHOOSE g : g = [i \in DOMAIN form |->
                                    IF i = 1 THEN 0 ELSE g[i - 1] + form[i - 1] + 1]
  <2>1. TabPositions(form) = p
    BY DEF TabPositions
  <2>2. p = CHOOSE g : Begins(form, n, g)
    BY <1>1 DEF Begins
  <2> HIDE DEF p
  <2>3. \E g : Begins(form, n, g)
    BY <1>1, BeginsExists
  <2>4. Begins(form, n, p)
    BY <2>2, <2>3
  <2> QED
    BY <2>1, <2>4
<1>3. \A i \in 1..n : pos[i] = IF i = 1 THEN 0 ELSE pos[i - 1] + form[i - 1] + 1
  BY <1>2 DEF Begins
<1>4. /\ \A i \in 1..n : i = 1 => pos[i] = 0
      /\ \A i \in 1..n : i # 1 => i - 1 \in 1..n /\ pos[i] = pos[i - 1] + form[i - 1] + 1
  <2>1. \A i \in 1..n : i # 1 => i - 1 \in 1..n
    BY <1>1
  <2> QED
    BY <1>3, <2>1
<1>5. \A i \in 1..n : pos[i] \in Nat
  <2> DEFINE bad == {i \in 1..n : pos[i] \notin Nat}
  <2>1. SUFFICES ASSUME bad # {} PROVE FALSE
    OBVIOUS
  <2>2. PICK i \in bad : \A j \in bad : i <= j
    <3>1. bad \subseteq Nat
      BY <1>1
    <3> HIDE DEF bad
    <3> QED
      BY <2>1, <3>1, Least
  <2>3. i # 1
    BY <1>4
  <2>4. i - 1 \in 1..n /\ ~(i <= i - 1)
    BY <1>1, <2>3
  <2>5. pos[i - 1] \in Nat
    BY <2>2, <2>4
  <2>6. form[i - 1] \in Nat /\ pos[i] = pos[i - 1] + form[i - 1] + 1
    BY <1>1, <1>4, <2>3, <2>4
  <2>7. pos[i] \in Nat
    BY <2>5, <2>6, SMTT(30)
  <2> QED
    BY <2>7
<1>6. ASSUME NEW p \in 1..n, NEW q \in 1..n, p < q
      PROVE  pos[p] + form[p] < pos[q]
  <2> DEFINE bad == {r \in 1..n : p < r /\ ~(pos[p] + form[p] < pos[r])}
  <2>1. SUFFICES ASSUME bad # {} PROVE FALSE
    BY <1>6
  <2>2. PICK r \in bad : \A j \in bad : r <= j
    <3>1. bad \subseteq Nat
      BY <1>1
    <3> HIDE DEF bad
    <3> QED
      BY <2>1, <3>1, Least
  <2>3. r \in 1..n /\ p < r /\ ~(pos[p] + form[p] < pos[r])
    OBVIOUS
  <2>4. r # 1 /\ r \in Nat /\ p \in Nat /\ ~(r <= r - 1) /\ (p = r - 1 \/ p < r - 1)
    BY <1>1, <2>3
  <2>5. r - 1 \in 1..n /\ pos[r] = pos[r - 1] + form[r - 1] + 1
    BY <1>4, <2>3, <2>4
  <2>6. p = r - 1 \/ pos[p] + form[p] < pos[r - 1]
    BY <2>2, <2>4, <2>5
  <2>7. /\ pos[p] \in Nat /\ pos[r] \in Nat /\ pos[r - 1] \in Nat
        /\ form[p] \in Nat /\ form[r - 1] \in Nat
    BY <1>1, <1>5, <2>3, <2>5
  <2>8. pos[p] + form[p] < pos[r]
    <3>1. CASE p = r - 1
      BY <2>5, <2>7, <3>1, SMTT(30)
    <3>2. CASE pos[p] + form[p] < pos[r - 1]
      BY <2>5, <2>7, <3>2, SMTT(30)
    <3> QED
      BY <2>6, <3>1, <3>2
  <2> QED
    BY <2>3, <2>8
<1> QED
  BY <1>1, <1>4, <1>5, <1>6 DEF Placed

\* Cell k of a row is of tab p, by the column at which the tab begins.
Within(form, pos, p, k) == k - 1 \in pos[p]..(pos[p] + form[p] - 1)

\* The tab of cell k, 0 for a gap.
TabOf(form, pos, k) ==
  IF \E p \in DOMAIN form : Within(form, pos, p, k)
  THEN CHOOSE p \in DOMAIN form : Within(form, pos, p, k) ELSE 0

\* The cells up to the end of tab i, and those of the tab alone.
RowTo(form, pos, i) == [k \in 1..(pos[i] + form[i]) |-> TabOf(form, pos, k)]
TabAlone(form, i) == [k \in 1..form[i] |-> i]

\* A cell is of at most one tab.
LEMMA OneTab ==
  ASSUME NEW form \in Seq(Nat \ {0}), NEW n, n = Len(form),
         NEW pos, pos = TabPositions(form)
  PROVE  /\ \A p \in 1..n : \A k \in Nat : Within(form, pos, p, k) => TabOf(form, pos, k) = p
         /\ \A k \in Nat : (\A p \in 1..n : ~Within(form, pos, p, k)) => TabOf(form, pos, k) = 0
<1>1. /\ n \in Nat /\ DOMAIN form = 1..n
      /\ \A i \in 1..n : pos[i] \in Nat /\ form[i] \in Nat \ {0}
      /\ \A p, q \in 1..n : p < q => pos[p] + form[p] < pos[q]
  BY TabPositionsAre DEF Placed
<1>2. ASSUME NEW p \in 1..n, NEW q \in 1..n, NEW k \in Nat,
             Within(form, pos, p, k), Within(form, pos, q, k)
      PROVE  ~(p < q)
  <2> SUFFICES ASSUME p < q PROVE FALSE
    OBVIOUS
  <2>1. /\ pos[p] \in Nat /\ pos[q] \in Nat /\ form[p] \in Nat /\ form[q] \in Nat
        /\ pos[p] + form[p] < pos[q]
    BY <1>1
  <2>2. k - 1 >= pos[q] /\ k - 1 <= pos[p] + form[p] - 1
    BY <1>2, <2>1 DEF Within
  <2> QED
    BY <2>1, <2>2, SMTT(30)
<1>3. ASSUME NEW p \in 1..n, NEW k \in Nat, Within(form, pos, p, k)
      PROVE  TabOf(form, pos, k) = p
  <2> DEFINE q == CHOOSE r \in DOMAIN form : Within(form, pos, r, k)
  <2>1. q \in 1..n /\ Within(form, pos, q, k) /\ TabOf(form, pos, k) = q
    BY <1>1, <1>3 DEF TabOf
  <2> HIDE DEF q
  <2>2. ~(p < q) /\ ~(q < p)
    BY <1>2, <1>3, <2>1
  <2>3. p = q
    BY <1>1, <2>1, <2>2
  <2> QED
    BY <2>1, <2>3
<1>4. ASSUME NEW k \in Nat, \A p \in 1..n : ~Within(form, pos, p, k)
      PROVE  TabOf(form, pos, k) = 0
  BY <1>1, <1>4 DEF TabOf
<1> QED
  BY <1>3, <1>4

\* The row grows by a gap and a tab.
LEMMA RowGrows ==
  ASSUME NEW form \in Seq(Nat \ {0}), NEW n, n = Len(form),
         NEW pos, pos = TabPositions(form), NEW i \in 1..n
  PROVE  RowTo(form, pos, i) = IF i = 1 THEN TabAlone(form, 1)
                               ELSE RowTo(form, pos, i - 1) \o (<<0>> \o TabAlone(form, i))
<1>1. /\ n \in Nat /\ DOMAIN form = 1..n
      /\ \A j \in 1..n : pos[j] \in Nat /\ form[j] \in Nat \ {0}
      /\ \A j \in 1..n : j = 1 => pos[j] = 0
      /\ \A j \in 1..n : j # 1 => j - 1 \in 1..n /\ pos[j] = pos[j - 1] + form[j - 1] + 1
      /\ \A p, q \in 1..n : p < q => pos[p] + form[p] < pos[q]
  <2>1. Placed(form, n, pos)
    BY TabPositionsAre
  <2> QED
    BY <2>1 DEF Placed
<1>2. /\ \A p \in 1..n : \A k \in Nat : Within(form, pos, p, k) => TabOf(form, pos, k) = p
      /\ \A k \in Nat : (\A p \in 1..n : ~Within(form, pos, p, k)) => TabOf(form, pos, k) = 0
  BY OneTab
<1>3. ASSUME NEW k \in (pos[i] + 1)..(pos[i] + form[i])
      PROVE  k \in Nat /\ TabOf(form, pos, k) = i
  <2>1. pos[i] \in Nat /\ form[i] \in Nat
    BY <1>1
  <2>2. k \in Nat /\ k - 1 \in pos[i]..(pos[i] + form[i] - 1)
    BY <1>3, <2>1
  <2> QED
    BY <1>2, <2>2 DEF Within
<1>4. CASE i = 1
  <2>1. pos[1] = 0 /\ form[1] \in Nat
    BY <1>1, <1>4
  <2>2. \A k \in 1..form[1] : TabOf(form, pos, k) = 1
    <3>1. \A k \in 1..form[1] : k \in (pos[1] + 1)..(pos[1] + form[1])
      BY <2>1
    <3> QED
      BY <1>3, <1>4, <3>1
  <2>3. 1..(pos[1] + form[1]) = 1..form[1]
    BY <2>1
  <2> QED
    BY <1>4, <2>2, <2>3 DEF RowTo, TabAlone
<1>5. CASE i # 1
  <2> DEFINE e == pos[i - 1] + form[i - 1]
             m == form[i]
             a == RowTo(form, pos, i - 1)
             t == TabAlone(form, i)
             b == <<0>> \o t
             r == RowTo(form, pos, i)
  <2>1. /\ i - 1 \in 1..n /\ e \in Nat /\ m \in Nat \ {0} /\ pos[i] = e + 1
        /\ pos[i] \in Nat /\ i \in Nat /\ pos[i - 1] \in Nat /\ pos[i - 1] <= e
    <3>1. i - 1 \in 1..n /\ pos[i] = pos[i - 1] + form[i - 1] + 1
      BY <1>1, <1>5
    <3>2. /\ pos[i - 1] \in Nat /\ form[i - 1] \in Nat
          /\ pos[i] \in Nat /\ form[i] \in Nat \ {0}
      BY <1>1, <3>1
    <3>3. i \in Nat
      BY <1>1
    <3> QED
      BY <3>1, <3>2, <3>3, SMTT(30)
  <2>2. \A k \in 1..(e + 1 + m) : k \in Nat /\ TabOf(form, pos, k) \in Nat
    <3>1. \A k \in Nat : TabOf(form, pos, k) \in Nat
      <4>1. \A k \in Nat : (\E p \in 1..n : Within(form, pos, p, k)) => TabOf(form, pos, k) \in 1..n
        BY <1>2
      <4>2. \A k \in Nat : TabOf(form, pos, k) \in 1..n \/ TabOf(form, pos, k) = 0
        BY <1>2, <4>1
      <4>3. \A v \in 1..n : v \in Nat
        BY <1>1
      <4> QED
        BY <4>2, <4>3
    <3>2. \A k \in 1..(e + 1 + m) : k \in Nat
      BY <2>1
    <3> QED
      BY <3>1, <3>2
  <2>3. /\ a \in Seq(Nat) /\ Len(a) = e
        /\ \A k \in 1..e : a[k] = TabOf(form, pos, k)
    <3>1. a = [k \in 1..e |-> TabOf(form, pos, k)]
      BY DEF RowTo
    <3>2. \A k \in 1..e : TabOf(form, pos, k) \in Nat
      BY <2>1, <2>2, SMTT(30)
    <3> HIDE DEF a, e
    <3> QED
      BY <2>1, <3>1, <3>2
  <2>4. /\ r \in Seq(Nat) /\ Len(r) = e + 1 + m
        /\ \A k \in 1..(e + 1 + m) : r[k] = TabOf(form, pos, k)
    <3>1. r = [k \in 1..(pos[i] + m) |-> TabOf(form, pos, k)]
      BY DEF RowTo
    <3>2. pos[i] + m = e + 1 + m /\ e + 1 + m \in Nat
      BY <2>1, SMTT(30)
    <3> HIDE DEF r, e, m
    <3>3. r = [k \in 1..(e + 1 + m) |-> TabOf(form, pos, k)]
      BY <3>1, <3>2
    <3> QED
      BY <2>2, <3>2, <3>3, SMTT(30)
  <2>5. t \in Seq(Nat) /\ Len(t) = m /\ \A k \in 1..m : t[k] = i
    <3>1. t = [k \in 1..m |-> i]
      BY DEF TabAlone
    <3> HIDE DEF t, m
    <3> QED
      BY <2>1, <3>1
  <2>6. <<0>> \in Seq(Nat) /\ Len(<<0>>) = 1 /\ <<0>>[1] = 0
    OBVIOUS
  <2> HIDE DEF a, t, r, e, m
  <2>7. /\ b \in Seq(Nat) /\ Len(b) = 1 + m
        /\ \A k \in 1..(1 + m) : b[k] = IF k <= 1 THEN <<0>>[k] ELSE t[k - 1]
    <3>1. /\ b \in Seq(Nat) /\ Len(b) = Len(<<0>>) + Len(t)
          /\ \A k \in 1..(Len(<<0>>) + Len(t)) :
               b[k] = IF k <= Len(<<0>>) THEN <<0>>[k] ELSE t[k - Len(<<0>>)]
      BY <2>5, <2>6, ConcatProperties
    <3> HIDE DEF b
    <3> QED
      BY <2>5, <2>6, <3>1, Zenon
  <2> HIDE DEF b
  <2>8. b[1] = 0 /\ \A k \in 2..(1 + m) : b[k] = i
    <3>1. 1 \in 1..(1 + m) /\ \A k \in 2..(1 + m) : k \in 1..(1 + m) /\ ~(k <= 1) /\ k - 1 \in 1..m
      BY <2>1
    <3>2. b[1] = 0
      BY <2>6, <2>7, <3>1
    <3> QED
      BY <2>5, <2>7, <3>1, <3>2
  <2>9. /\ a \o b \in Seq(Nat) /\ Len(a \o b) = e + (1 + m)
        /\ \A k \in 1..(e + (1 + m)) : (a \o b)[k] = IF k <= e THEN a[k] ELSE b[k - e]
    <3>1. /\ a \o b \in Seq(Nat) /\ Len(a \o b) = Len(a) + Len(b)
          /\ \A k \in 1..(Len(a) + Len(b)) :
               (a \o b)[k] = IF k <= Len(a) THEN a[k] ELSE b[k - Len(a)]
      BY <2>3, <2>7, ConcatProperties
    <3> QED
      BY <2>3, <2>7, <3>1, Zenon
  <2>10. e + (1 + m) = e + 1 + m
    BY <2>1
  <2>11. TabOf(form, pos, e + 1) = 0
    <3>1. ASSUME NEW p \in 1..n PROVE ~Within(form, pos, p, e + 1)
      <4>1. pos[p] \in Nat /\ form[p] \in Nat /\ p \in Nat
        BY <1>1
      <4>2. CASE p < i - 1
        <5>1. pos[p] + form[p] < pos[i - 1]
          BY <1>1, <2>1, <4>2
        <5>2. ~(e <= pos[p] + form[p] - 1)
          BY <2>1, <4>1, <5>1, SMTT(30)
        <5> QED
          BY <2>1, <4>1, <5>2 DEF Within
      <4>3. CASE p = i - 1
        <5>1. pos[p] + form[p] = e
          BY <4>3 DEF e
        <5> QED
          BY <2>1, <4>1, <5>1, SMTT(30) DEF Within
      <4>4. CASE i <= p
        <5>1. p = i \/ pos[i] + form[i] < pos[p]
          BY <1>1, <2>1, <4>1, <4>4
        <5>2. e + 1 <= pos[p]
          BY <2>1, <4>1, <5>1 DEF m
        <5> QED
          BY <2>1, <4>1, <5>2, SMTT(30) DEF Within
      <4> QED
        BY <2>1, <4>1, <4>2, <4>3, <4>4
    <3>2. e + 1 \in Nat
      BY <2>1
    <3> QED
      BY <1>2, <3>1, <3>2
  <2>12. ASSUME NEW k \in 1..(e + 1 + m) PROVE r[k] = (a \o b)[k]
    <3>1. k \in 1..(e + (1 + m)) /\ k \in Nat
      BY <2>1, <2>10
    <3>2. r[k] = TabOf(form, pos, k)
      BY <2>4
    <3>3. (a \o b)[k] = IF k <= e THEN a[k] ELSE b[k - e]
      BY <2>9, <3>1
    <3>4. CASE k <= e
      <4>1. k \in 1..e
        BY <2>1, <3>4
      <4> QED
        BY <2>3, <3>2, <3>3, <3>4, <4>1
    <3>5. CASE k = e + 1
      <4>1. k - e = 1 /\ ~(k <= e)
        BY <2>1, <3>5
      <4> QED
        BY <2>8, <2>11, <3>2, <3>3, <3>5, <4>1
    <3>6. CASE k > e + 1
      <4>1. k - e \in 2..(1 + m) /\ ~(k <= e) /\ k \in (pos[i] + 1)..(pos[i] + form[i])
        BY <2>1, <3>1, <3>6 DEF m
      <4>2. TabOf(form, pos, k) = i
        BY <1>3, <4>1
      <4> QED
        BY <2>8, <3>2, <3>3, <4>1, <4>2
    <3>7. k <= e \/ k = e + 1 \/ k > e + 1
      BY <2>1, <3>1
    <3> QED
      BY <3>4, <3>5, <3>6, <3>7
  <2>13. r = a \o b
    BY <2>4, <2>9, <2>10, <2>12, SeqEqual
  <2> QED
    BY <1>5, <2>13 DEF a, b, t, r
<1> QED
  BY <1>4, <1>5

\* The whole row, put together from its tabs and gaps.
LEMMA FlattenedRow ==
  ASSUME NEW form \in Seq(Nat \ {0}), NEW n, n = Len(form), n # 0,
         NEW pos, pos = TabPositions(form),
         NEW tabs, tabs = [i \in DOMAIN form |-> IF i = 1 THEN TabAlone(form, 1)
                                                 ELSE << 0 >> \o TabAlone(form, i)]
  PROVE  FlattenSeq(tabs) = RowTo(form, pos, n)
<1>1. n \in Nat /\ DOMAIN form = 1..n /\ n \in 1..n
  OBVIOUS
<1>2. Len(tabs) = n
  BY <1>1
<1> DEFINE Grown(h) == h = [i \in 1..n |-> IF i = 1 THEN tabs[i] ELSE h[i - 1] \o tabs[i]]
           row == [i \in 1..n |-> RowTo(form, pos, i)]
           f == CHOOSE h : Grown(h)
<1>3. FlattenSeq(tabs) = f[n]
  <2> DEFINE g == CHOOSE h : h = [i \in 1..Len(tabs) |->
                                    IF i = 1 THEN tabs[i] ELSE h[i - 1] \o tabs[i]]
  <2>1. FlattenSeq(tabs) = g[Len(tabs)]
    BY <1>1, <1>2 DEF FlattenSeq
  <2> QED
    BY <1>2, <2>1
<1>4. \A i \in 1..n : tabs[i] = IF i = 1 THEN TabAlone(form, 1) ELSE <<0>> \o TabAlone(form, i)
  BY <1>1
<1>5. \A i \in 1..n : i # 1 => i - 1 \in 1..n
  BY <1>1
<1>6. Grown(row)
  <2>1. \A i \in 1..n : RowTo(form, pos, i) =
          IF i = 1 THEN tabs[i] ELSE RowTo(form, pos, i - 1) \o tabs[i]
    <3> SUFFICES ASSUME NEW i \in 1..n
                 PROVE  RowTo(form, pos, i) =
                          IF i = 1 THEN tabs[i] ELSE RowTo(form, pos, i - 1) \o tabs[i]
      OBVIOUS
    <3>1. RowTo(form, pos, i) = IF i = 1 THEN TabAlone(form, 1)
                                ELSE RowTo(form, pos, i - 1) \o (<<0>> \o TabAlone(form, i))
      BY RowGrows
    <3>2. CASE i = 1
      <4>1. tabs[i] = TabAlone(form, 1)
        BY <1>4, <3>2
      <4> QED
        BY <3>1, <3>2, <4>1
    <3>3. CASE i # 1
      <4>1. tabs[i] = <<0>> \o TabAlone(form, i)
        BY <1>4, <3>3
      <4> QED
        BY <3>1, <3>3, <4>1
    <3> QED
      BY <3>2, <3>3
  <2>2. \A i \in 1..n : i # 1 => row[i - 1] = RowTo(form, pos, i - 1)
    BY <1>5
  <2>3. row = [i \in 1..n |-> RowTo(form, pos, i)]
    OBVIOUS
  <2> HIDE DEF row
  <2>4. \A i \in 1..n : RowTo(form, pos, i) =
          IF i = 1 THEN tabs[i] ELSE row[i - 1] \o tabs[i]
    BY <2>1, <2>2
  <2> QED
    BY <2>3, <2>4
<1>7. Grown(f)
  <2> HIDE DEF Grown, row
  <2> QED
    BY <1>6
<1>8. \A i \in 1..n : f[i] = IF i = 1 THEN tabs[i] ELSE f[i - 1] \o tabs[i]
  <2> HIDE DEF f
  <2> QED
    BY <1>7
<1>9. \A i \in 1..n : row[i] = IF i = 1 THEN tabs[i] ELSE row[i - 1] \o tabs[i]
  <2> HIDE DEF row
  <2> QED
    BY <1>6
<1>10. \A i \in 1..n : f[i] = row[i]
  <2> HIDE DEF f, row, Grown
  <2> DEFINE bad == {i \in 1..n : f[i] # row[i]}
  <2>1. SUFFICES ASSUME bad # {} PROVE FALSE
    OBVIOUS
  <2>2. PICK i \in bad : \A j \in bad : i <= j
    <3>1. bad \subseteq Nat
      BY <1>1
    <3> HIDE DEF bad
    <3> QED
      BY <2>1, <3>1, Least
  <2>3. i \in 1..n /\ f[i] # row[i] /\ ~(i <= i - 1)
    BY <1>1
  <2>4. i # 1
    BY <1>8, <1>9, <2>3
  <2>5. f[i - 1] = row[i - 1]
    BY <1>5, <2>2, <2>3, <2>4
  <2>6. f[i] = f[i - 1] \o tabs[i] /\ row[i] = row[i - 1] \o tabs[i]
    BY <1>8, <1>9, <2>3, <2>4
  <2> QED
    BY <2>3, <2>5, <2>6
<1>11. row[n] = RowTo(form, pos, n)
  BY <1>1
<1> QED
  BY <1>1, <1>3, <1>10, <1>11

\* A column of the tab row is of the panel whose tab is drawn there, and of none
\* where there is a gap, or no tab.
LEMMA TabsHit ==
  ASSUME NEW width, NEW x \in Int, NEW cells, cells = TabCells(width)
  PROVE  IF x + 1 \in DOMAIN cells /\ cells[x + 1] # 0
         THEN PanelTabAt(width, x) = {cells[x + 1]} ELSE PanelTabAt(width, x) = {}
<1> DEFINE form == PanelLabelForm(width)
           n == Len(form)
           pos == TabPositions(form)
           tabs == [i \in DOMAIN form |-> IF i = 1 THEN TabAlone(form, 1)
                                          ELSE <<0>> \o TabAlone(form, i)]
<1>1. form \in Seq(Nat \ {0})
  BY FormIs
<1>2. cells = FlattenSeq(tabs)
  BY DEF TabCells, TabAlone
<1>3. PanelTabAt(width, x) = {i \in DOMAIN form : Within(form, pos, i, x + 1)}
  <2>1. PanelTabAt(width, x) = {i \in DOMAIN form : x \in pos[i]..(pos[i] + form[i] - 1)}
    BY DEF PanelTabAt
  <2>2. (x + 1) - 1 = x
    OBVIOUS
  <2> QED
    BY <2>1, <2>2 DEF Within
<1> HIDE DEF form
<1>4. CASE n = 0
  <2>1. form = <<>> /\ DOMAIN form = {}
    BY <1>1, <1>4, EmptySeq
  <2>2. tabs = <<>> /\ Len(tabs) = 0
    BY <2>1
  <2>3. cells = <<>>
    BY <1>2, <2>2 DEF FlattenSeq
  <2> QED
    BY <1>3, <2>1, <2>3
<1>5. CASE n # 0
  <2>1. cells = RowTo(form, pos, n)
    BY <1>1, <1>2, <1>5, FlattenedRow
  <2> HIDE DEF n, pos
  <2>2. Placed(form, n, pos)
    BY <1>1, TabPositionsAre DEF n, pos
  <2>3. /\ n \in Nat /\ DOMAIN form = 1..n /\ n \in 1..n
        /\ \A p \in 1..n : pos[p] \in Nat /\ form[p] \in Nat \ {0} /\ p \in Nat
        /\ \A p, q \in 1..n : p < q => pos[p] + form[p] < pos[q]
    BY <1>5, <2>2 DEF Placed
  <2> DEFINE end == pos[n] + form[n]
  <2>4. end \in Nat /\ DOMAIN cells = 1..end /\ \A k \in 1..end : cells[k] = TabOf(form, pos, k)
    BY <2>1, <2>3 DEF RowTo
  <2>5. /\ \A p \in 1..n : \A k \in Nat : Within(form, pos, p, k) => TabOf(form, pos, k) = p
        /\ \A k \in Nat : (\A p \in 1..n : ~Within(form, pos, p, k)) => TabOf(form, pos, k) = 0
    BY <1>1, OneTab DEF n, pos
  <2>6. ASSUME NEW p \in 1..n, Within(form, pos, p, x + 1)
        PROVE  x + 1 \in 1..end
    <3>1. pos[p] \in Nat /\ form[p] \in Nat /\ pos[n] \in Nat /\ form[n] \in Nat /\ p \in Nat
      BY <2>3
    <3>2. x + 1 >= 1 /\ x + 1 <= pos[p] + form[p]
      BY <2>6, <3>1 DEF Within
    <3>3. p = n \/ pos[p] + form[p] < pos[n]
      BY <2>3, <3>1
    <3> QED
      BY <3>1, <3>2, <3>3
  <2>7. CASE \E p \in 1..n : Within(form, pos, p, x + 1)
    <3>1. PICK p \in 1..n : Within(form, pos, p, x + 1)
      BY <2>7
    <3>2. x + 1 \in 1..end /\ x + 1 \in Nat
      BY <2>6, <3>1
    <3>3. cells[x + 1] = p /\ p # 0
      BY <2>3, <2>4, <2>5, <3>1, <3>2
    <3>4. \A q \in 1..n : Within(form, pos, q, x + 1) => q = p
      BY <2>5, <3>1, <3>2
    <3>5. {i \in DOMAIN form : Within(form, pos, i, x + 1)} = {p}
      BY <2>3, <3>1, <3>4
    <3> QED
      BY <1>3, <2>4, <3>2, <3>3, <3>5
  <2>8. CASE \A p \in 1..n : ~Within(form, pos, p, x + 1)
    <3>1. PanelTabAt(width, x) = {}
      BY <1>3, <2>3, <2>8
    <3>2. ASSUME x + 1 \in DOMAIN cells PROVE cells[x + 1] = 0
      <4>1. x + 1 \in 1..end /\ x + 1 \in Nat
        BY <2>4, <3>2
      <4> QED
        BY <2>4, <2>5, <2>8, <4>1
    <3> QED
      BY <3>1, <3>2
  <2> QED
    BY <2>7, <2>8
<1> QED
  BY <1>4, <1>5

-----------------------------------------------------------------------------
\* The measures of the layout of the traces, by its mode.  In a frame there are
\* two lines and two columns less.
Measured(s) ==
  LET w == s.width
      h == s.height
      left == LeftOuter(s)
      rows == BodyHeight(s, FALSE)
  IN  /\ w \in Nat /\ h \in Nat /\ left \in Int /\ rows \in Nat
      /\ \/ /\ Mode(s) = "tiny" /\ HeaderLines(s, FALSE) = 1 /\ Top(s) = 1
            /\ DetailHeight(s, FALSE) = rows
            /\ DetailLeft(s) = 0 /\ DetailWidth(s) = w
         \/ /\ Mode(s) = "narrow" /\ HeaderLines(s, FALSE) = 2 /\ Top(s) = 3
            /\ w < 72 /\ rows = h - 3 /\ rows >= 7
            /\ DetailHeight(s, FALSE) = rows - 2
            /\ DetailLeft(s) = 1 /\ DetailWidth(s) = w - 2
         \/ /\ Mode(s) = "split" /\ HeaderLines(s, FALSE) = 1 /\ Top(s) = 2
            /\ ~(w < 72) /\ rows = h - 2 /\ rows >= 8
            /\ DetailHeight(s, FALSE) = rows - 2
            /\ DetailLeft(s) = left + 2 /\ DetailWidth(s) = w - left - 3

\* The layout has these measures at every size.
LEMMA Measures ==
  ASSUME NEW s \in Sizes
  PROVE  Measured(s)
<1> DEFINE w == s.width
           h == s.height
           left == LeftOuter(s)
           rows == BodyHeight(s, FALSE)
           header == HeaderLines(s, FALSE)
           detail == DetailHeight(s, FALSE)
           top == Top(s)
<1>1. w \in Nat /\ h \in Nat /\ left \in Int /\ rows \in Nat
  BY LayoutTypes
<1>2. /\ Mode(s) = IF w < 48 \/ h < 10 THEN "tiny" ELSE IF w < 72 THEN "narrow" ELSE "split"
      /\ Mode(s) \in {"tiny", "narrow", "split"}
  <2>1. w < 48 \/ h < 10 \/ (w \in 48..71 /\ h >= 10) \/ ~(w < 48 \/ h < 10 \/ w < 72)
    BY <1>1
  <2>2. CASE w < 48 \/ h < 10
    <3>1. ~(w \in 48..71 /\ h >= 10)
      BY <1>1, <2>2
    <3> QED
      BY <2>2, <3>1 DEF Mode
  <2>3. CASE ~(w < 48 \/ h < 10) /\ w < 72
    <3>1. w \in 48..71 /\ h >= 10
      BY <1>1, <2>3
    <3> QED
      BY <2>3, <3>1 DEF Mode
  <2>4. CASE ~(w < 48 \/ h < 10) /\ ~(w < 72)
    <3>1. ~(w \in 48..71)
      BY <1>1, <2>4
    <3> QED
      BY <2>4, <3>1 DEF Mode
  <2> QED
    BY <2>2, <2>3, <2>4
<1>3. header = IF Mode(s) = "narrow" THEN 2 ELSE 1
  BY DEF HeaderLines
<1>4. /\ rows = Max({0, h - header - FooterLines})
      /\ detail = IF Mode(s) = "tiny" THEN rows ELSE Max({0, rows - 2})
      /\ top = header + IF Mode(s) = "tiny" THEN 0 ELSE 1
  BY DEF BodyHeight, DetailHeight, Top
<1>5. /\ Mode(s) = "tiny" => DetailLeft(s) = 0 /\ DetailWidth(s) = w
      /\ Mode(s) = "narrow" => DetailLeft(s) = 1 /\ DetailWidth(s) = w - 2
      /\ Mode(s) = "split" => DetailLeft(s) = left + 2 /\ DetailWidth(s) = w - left - 3
  BY DEF DetailLeft, DetailWidth
<1> HIDE DEF w, h, left, rows, header, detail, top, Measured
<1>6. CASE Mode(s) = "tiny"
  <2>1. header = 1
    BY <1>3, <1>6
  <2>2. top = 1 /\ detail = rows
    BY <1>4, <1>6, <2>1
  <2> QED
    BY <1>1, <1>5, <1>6, <2>1, <2>2 DEF w, h, left, rows, header, detail, top, Measured
<1>7. CASE Mode(s) # "tiny"
  <2> DEFINE below == h - header - FooterLines
  <2>1. w >= 48 /\ h >= 10 /\ (Mode(s) = "narrow" <=> w < 72) /\ Mode(s) \in {"narrow", "split"}
    BY <1>1, <1>2, <1>7
  <2>2. header \in {1, 2} /\ FooterLines = 1
    BY <1>3 DEF FooterLines
  <2>3. below = h - header - 1 /\ below \in Int /\ below >= 7
    BY <1>1, <2>1, <2>2
  <2>4. rows = below
    <3>1. rows = Max({0, below})
      BY <1>4
    <3> HIDE DEF below
    <3>2. Max({0, below}) = IF 0 >= below THEN 0 ELSE below
      BY <2>3, OfTwo
    <3> QED
      BY <2>3, <3>1, <3>2
  <2> HIDE DEF below
  <2>5. detail = rows - 2
    <3>1. rows - 2 \in Int /\ rows - 2 >= 5
      BY <2>3, <2>4
    <3>2. Max({0, rows - 2}) = IF 0 >= rows - 2 THEN 0 ELSE rows - 2
      BY <3>1, OfTwo
    <3>3. detail = Max({0, rows - 2})
      BY <1>4, <1>7
    <3>4. ~(0 >= rows - 2)
      BY <3>1
    <3> QED
      BY <3>2, <3>3, <3>4
  <2>6. CASE Mode(s) = "narrow"
    <3>1. header = 2
      BY <1>3, <2>6
    <3>2. top = 3
      BY <1>4, <1>7, <3>1
    <3>3. w < 72
      BY <2>1, <2>6
    <3>4. rows = h - 3 /\ rows >= 7
      BY <1>1, <2>1, <2>3, <2>4, <3>1
    <3> QED
      BY <1>1, <1>5, <2>5, <2>6, <3>1, <3>2, <3>3, <3>4
      DEF w, h, left, rows, header, detail, top, Measured
  <2>7. CASE Mode(s) = "split"
    <3>1. header = 1
      BY <1>3, <2>7
    <3>2. top = 2
      BY <1>4, <1>7, <3>1
    <3>3. ~(w < 72)
      BY <2>1, <2>7
    <3>4. rows = h - 2 /\ rows >= 8
      BY <1>1, <2>1, <2>3, <2>4, <3>1
    <3> QED
      BY <1>1, <1>5, <2>5, <2>7, <3>1, <3>2, <3>3, <3>4
      DEF w, h, left, rows, header, detail, top, Measured
  <2> QED
    BY <2>1, <2>6, <2>7
<1> QED
  BY <1>6, <1>7 DEF w, h, left, rows, header, detail, top, Measured

\* What is drawn in a cell of the panel, by its column and row there.
DrawnDetail(x, row) ==
  LET line  == scroll + row
      node  == line - TreeLine(DetailWidth(size))
      cells == TabCells(DetailWidth(size))
  IN  IF line = TabsLine(DetailWidth(size))
      THEN IF x + 1 \in DOMAIN cells /\ cells[x + 1] # 0
           THEN Target("panel", cells[x + 1]) ELSE Nothing
      ELSE IF node \in 0..(Cardinality(drawn.nodes) - 1)
           THEN Target("node", node) ELSE Nothing

\* The tab row is missed at a row of the panel: a line above it wraps, and it is
\* at this line, or looked for there.
MissedAt(row) == /\ Wrapped(DetailWidth(size)) > 0
                 /\ scroll + row \in {4, TabsLine(DetailWidth(size))}

\* A click on the detail panel is for what is drawn there.
LEMMA DetailHits ==
  ASSUME Inv, ~showModels, count > 0, NEW x \in Int, NEW row \in Int, ~MissedAt(row)
  PROVE  DetailAt(x, row, DetailWidth(size)) = DrawnDetail(x, row)
<1> DEFINE width == DetailWidth(size)
           node == (scroll + row) - TreeLine(drawn.key[4])
           tabs == PanelTabAt(width, x)
           cells == TabCells(width)
<1>1. node = (scroll + row) - TreeLine(width)
  <2>1. drawn.key = <<panel, cursor, Body, width>>
    BY DEF Inv, CacheInv
  <2>2. drawn.key[4] = width
    BY <2>1
  <2> QED
    BY <2>2
<1>2. DetailAt(x, row, width) =
        IF scroll + row = 4
        THEN IF tabs = {} THEN Nothing ELSE Target("panel", CHOOSE p \in tabs : TRUE)
        ELSE IF node \in 0..(Cardinality(drawn.nodes) - 1) THEN Target("node", node)
        ELSE Nothing
  BY DEF DetailAt
<1>3. DrawnDetail(x, row) =
        IF scroll + row = TabsLine(width)
        THEN IF x + 1 \in DOMAIN cells /\ cells[x + 1] # 0
             THEN Target("panel", cells[x + 1]) ELSE Nothing
        ELSE IF node \in 0..(Cardinality(drawn.nodes) - 1) THEN Target("node", node)
        ELSE Nothing
  BY <1>1 DEF DrawnDetail
<1>4. IF x + 1 \in DOMAIN cells /\ cells[x + 1] # 0
      THEN tabs = {cells[x + 1]} ELSE tabs = {}
  BY TabsHit
<1>5. scroll + row = 4 <=> scroll + row = TabsLine(width)
  <2>1. Wrapped(width) \in Nat
    BY WrappedType
  <2>2. CASE Wrapped(width) = 0
    BY <2>2 DEF TabsLine
  <2>3. CASE Wrapped(width) > 0
    BY <2>3 DEF MissedAt
  <2> QED
    BY <2>1, <2>2, <2>3
<1> HIDE DEF width, node, tabs, cells
<1>6. tabs = {cells[x + 1]} => tabs # {} /\ (CHOOSE p \in tabs : TRUE) = cells[x + 1]
  OBVIOUS
<1>7. DetailAt(x, row, width) = DrawnDetail(x, row)
  BY <1>2, <1>3, <1>4, <1>5, <1>6
<1> QED
  BY <1>7 DEF width

\* The request of a row of the list: two rows are for each.
LEMMA RequestHits ==
  ASSUME Inv, NEW row \in Int, NEW height \in Int
  PROVE  LET listed == Listed(height, selected, count)
             entry == 1 + ((row - 1) \div 2)
         IN  RequestAt(row, height) =
               IF row > 0 /\ entry \in DOMAIN listed
               THEN Target("request", listed[entry]) ELSE Nothing
<1> DEFINE listed == Listed(height, selected, count)
           entry == 1 + ((row - 1) \div 2)
           offset == (row - 1) \div 2
           start == ListStart(height, selected, count)
           index == (start + offset) + 1
           most == Min({ListRows(height), count - start})
<1>1. count \in Nat
  BY ViewerAssumption DEF Inv, ViewInv
<1>2. ListRows(height) \in Int /\ start \in Nat
  BY ListTypes
<1>3. offset \in Int /\ (row >= 1 => offset >= 0)
  OBVIOUS
<1>4. listed = [k \in 1..most |-> start + k]
  BY DEF Listed
<1>5. RequestAt(row, height) =
        IF row >= 1 /\ offset < ListRows(height) /\ index =< count
        THEN Target("request", index) ELSE Nothing
  BY DEF RequestAt
<1>6. entry = 1 + offset
  OBVIOUS
<1> HIDE DEF listed, entry, offset, start
<1>7. count - start \in Int
  BY <1>1, <1>2
<1>8. most = IF ListRows(height) <= count - start THEN ListRows(height) ELSE count - start
  <2> DEFINE room == ListRows(height)
             left == count - start
  <2>1. room \in Int /\ left \in Int
    BY <1>2, <1>7
  <2> HIDE DEF room, left
  <2>2. Min({room, left}) = IF room <= left THEN room ELSE left
    BY <2>1, OfTwo
  <2> QED
    BY <2>2 DEF room, left
<1>9. most \in Int /\ \A k \in Int : k <= most <=> k <= ListRows(height) /\ k <= count - start
  <2> HIDE DEF most
  <2> QED
    BY <1>1, <1>2, <1>7, <1>8
<1> HIDE DEF most
<1>10. DOMAIN listed = 1..most /\ \A k \in 1..most : listed[k] = start + k
  BY <1>4
<1>11. row >= 1 /\ offset < ListRows(height) /\ index =< count
         <=> row > 0 /\ entry \in 1..most
  BY <1>1, <1>2, <1>3, <1>6, <1>9
<1>12. entry \in 1..most => listed[entry] = index
  <2>1. start + entry = index
    BY <1>2, <1>3, <1>6
  <2> QED
    BY <1>10, <2>1
<1> HIDE DEF index
<1>13. RequestAt(row, height) =
         IF row > 0 /\ entry \in DOMAIN listed
         THEN Target("request", listed[entry]) ELSE Nothing
  BY <1>5, <1>10, <1>11, <1>12
<1> QED
  BY <1>13 DEF listed, entry, offset

\* A click hits what is drawn in its cell.
LEMMA CellHits ==
  ASSUME Inv, NEW c \in Cells, ~MissedAt(c[2] - Top(size))
  PROVE  ClickedAt(c[1], c[2]) = DrawnAt(c[1], c[2])
<1> DEFINE x == c[1]
           y == c[2]
           w == size.width
           h == size.height
           left == LeftOuter(size)
           rows == BodyHeight(size, FALSE)
           header == HeaderLines(size, FALSE)
           detail == DetailHeight(size, FALSE)
           top == Top(size)
           from == DetailLeft(size)
           width == DetailWidth(size)
           mode == Mode(size)
<1>1. CASE showModels \/ count = 0
  BY <1>1 DEF ClickedAt, DrawnAt
<1>2. CASE ~showModels /\ ~(count = 0)
  <2>1. /\ size \in Sizes /\ showModels = FALSE /\ count > 0
    BY <1>2, ViewerAssumption DEF Inv, ViewInv
  <2>2. /\ w \in Nat /\ h \in Nat /\ left \in Int /\ rows \in Nat
        /\ \/ /\ mode = "tiny" /\ header = 1 /\ top = 1 /\ detail = rows
              /\ from = 0 /\ width = w
           \/ /\ mode = "narrow" /\ header = 2 /\ top = 3 /\ detail = rows - 2
              /\ w < 72 /\ rows = h - 3 /\ rows >= 7 /\ from = 1 /\ width = w - 2
           \/ /\ mode = "split" /\ header = 1 /\ top = 2 /\ detail = rows - 2
              /\ ~(w < 72) /\ rows = h - 2 /\ rows >= 8
              /\ from = left + 2 /\ width = w - left - 3
    <3>1. Measured(size)
      BY <2>1, Measures
    <3> QED
      BY <3>1, Zenon DEF Measured
  <2>3. x \in Int /\ y \in Int
    <3>1. x \in Columns /\ y \in 0..(h - 1)
      BY DEF Cells
    <3>2. Columns \subseteq Nat
      BY ViewerAssumption
    <3> HIDE DEF x, y, h
    <3> QED
      BY <2>2, <3>1, <3>2
  <2> DEFINE entry == 1 + ((y - top - 1) \div 2)
             listed == Listed(detail, selected, count)
             shownAt == IF y > top /\ entry \in DOMAIN listed
                        THEN Target("request", listed[entry]) ELSE Nothing
  <2>4. DrawnAt(x, y) =
          IF y \notin top..(top + detail - 1) THEN Nothing
          ELSE IF x \in (IF mode = "split" THEN 1..(left - 2) ELSE {}) THEN shownAt
          ELSE IF mode = "split" /\ x \notin from..(from + width - 1) THEN Nothing
          ELSE DrawnDetail(x - from, y - top)
    BY <1>2, <2>1 DEF DrawnAt, DrawnDetail, Rows, ListColumns, DetailColumns, PanelHeight
  <2>5. ClickedAt(x, y) =
          IF y - header \notin 0..(rows - 1) THEN Nothing
          ELSE IF mode = "tiny" THEN DetailAt(x, y - header, w)
          ELSE IF y - header \in {0, rows - 1} THEN Nothing
          ELSE IF w < 72 THEN DetailAt(x - 1, y - header - 1, w - 2)
          ELSE IF x \in 1..(left - 2) THEN RequestAt(y - header - 1, rows - 2)
          ELSE IF x \in (left + 2)..(w - 2)
               THEN DetailAt(x - (left + 2), y - header - 1, w - left - 1 - 2)
          ELSE Nothing
    BY <1>2, <2>1 DEF ClickedAt
  <2>6. ~MissedAt(y - top)
    OBVIOUS
  <2>7. from \in Int /\ top \in Int /\ detail \in Int
    <3> HIDE DEF w, h, left, rows, header, detail, top, from, width, mode
    <3> QED
      BY <2>2
  <2>8. DetailAt(x - from, y - top, width) = DrawnDetail(x - from, y - top)
    <3>1. x - from \in Int /\ y - top \in Int
      <4> HIDE DEF x, y, from, top
      <4> QED
        BY <2>3, <2>7
    <3> QED
      BY <1>2, <2>1, <2>6, <3>1, DetailHits
  <2>9. RequestAt(y - top, detail) = shownAt
    <3>1. y - top \in Int
      <4> HIDE DEF y, top
      <4> QED
        BY <2>3, <2>7
    <3> DEFINE row == y - top
    <3>2. RequestAt(row, detail) =
            IF row > 0 /\ 1 + ((row - 1) \div 2) \in DOMAIN listed
            THEN Target("request", listed[1 + ((row - 1) \div 2)]) ELSE Nothing
      <4> HIDE DEF row, detail
      <4> QED
        BY <2>7, <3>1, RequestHits DEF row
    <3>3. (row > 0 <=> y > top) /\ 1 + ((row - 1) \div 2) = entry
      <4> HIDE DEF y, top
      <4> QED
        BY <2>3, <2>7
    <3> HIDE DEF row, entry, listed, y, top, detail
    <3>4. RequestAt(row, detail) = IF y > top /\ entry \in DOMAIN listed
                                   THEN Target("request", listed[entry]) ELSE Nothing
      BY <3>2, <3>3
    <3> QED
      BY <3>4 DEF row
  <2> HIDE DEF x, y, w, h, left, rows, header, detail, top, from, width, mode, shownAt, listed, entry
  <2>10. ClickedAt(x, y) = DrawnAt(x, y)
    <3>1. CASE mode = "tiny"
      <4>1. header = 1 /\ top = 1 /\ detail = rows /\ from = 0 /\ width = w
        BY <2>2, <3>1
      <4>2. /\ y - header = y - top /\ x = x - from
            /\ y \in top..(top + detail - 1) <=> y - header \in 0..(rows - 1)
        BY <2>2, <2>3, <4>1
      <4>3. ClickedAt(x, y) = IF y \notin top..(top + detail - 1) THEN Nothing
                              ELSE DetailAt(x - from, y - top, width)
        BY <2>5, <3>1, <4>1, <4>2
      <4>4. DrawnAt(x, y) = IF y \notin top..(top + detail - 1) THEN Nothing
                            ELSE DrawnDetail(x - from, y - top)
        BY <2>4, <3>1
      <4> QED
        BY <2>8, <4>3, <4>4
    <3>2. CASE mode = "narrow"
      <4>1. /\ header = 2 /\ top = 3 /\ detail = rows - 2 /\ w < 72 /\ rows >= 7
            /\ from = 1 /\ width = w - 2
        BY <2>2, <3>2
      <4>2. /\ y - header - 1 = y - top
            /\ y \in top..(top + detail - 1)
                 <=> y - header \in 0..(rows - 1) /\ y - header \notin {0, rows - 1}
        BY <2>2, <2>3, <4>1
      <4>3. ClickedAt(x, y) = IF y \notin top..(top + detail - 1) THEN Nothing
                              ELSE DetailAt(x - from, y - top, width)
        BY <2>5, <3>2, <4>1, <4>2
      <4>4. DrawnAt(x, y) = IF y \notin top..(top + detail - 1) THEN Nothing
                            ELSE DrawnDetail(x - from, y - top)
        BY <2>4, <3>2
      <4> QED
        BY <2>8, <4>3, <4>4
    <3>3. CASE mode = "split"
      <4>1. /\ header = 1 /\ top = 2 /\ detail = rows - 2 /\ ~(w < 72) /\ rows >= 8
            /\ from = left + 2 /\ width = w - left - 3
        BY <2>2, <3>3
      <4>2. /\ y - header - 1 = y - top
            /\ y \in top..(top + detail - 1)
                 <=> y - header \in 0..(rows - 1) /\ y - header \notin {0, rows - 1}
        BY <2>2, <2>3, <4>1
      <4>3. /\ w - left - 1 - 2 = width
            /\ x \in from..(from + width - 1) <=> x \in (left + 2)..(w - 2)
        BY <2>2, <2>3, <4>1
      <4>4. ClickedAt(x, y) = IF y \notin top..(top + detail - 1) THEN Nothing
                              ELSE IF x \in 1..(left - 2) THEN RequestAt(y - top, detail)
                              ELSE IF x \in from..(from + width - 1)
                                   THEN DetailAt(x - from, y - top, width)
                              ELSE Nothing
        BY <2>5, <3>3, <4>1, <4>2, <4>3
      <4>5. DrawnAt(x, y) = IF y \notin top..(top + detail - 1) THEN Nothing
                            ELSE IF x \in 1..(left - 2) THEN shownAt
                            ELSE IF x \in from..(from + width - 1)
                                 THEN DrawnDetail(x - from, y - top)
                            ELSE Nothing
        BY <2>4, <3>3
      <4> QED
        BY <2>8, <2>9, <4>4, <4>5
    <3> QED
      BY <2>2, <3>1, <3>2, <3>3
  <2> QED
    BY <2>10 DEF x, y
<1> QED
  BY <1>1, <1>2

\* On every terminal, whatever its size, and at every scroll position a click is
\* for the request, the panel or the node that is drawn under the pointer, and for
\* nothing where none is drawn, but for the tabs of a panel so narrow that the
\* lines above them wrap.
THEOREM ClicksHitWhatIsDrawn == Spec => []ClickHitsWhatIsDrawn
<1>1. Inv => ClickHitsWhatIsDrawn
  <2> SUFFICES ASSUME Inv, NEW c \in Cells, ~MissedAt(c[2] - Top(size))
               PROVE  ClickedAt(c[1], c[2]) = DrawnAt(c[1], c[2])
    BY DEF ClickHitsWhatIsDrawn, MissedAt
  <2> QED
    BY CellHits
<1> QED
  BY <1>1, InitInv, NextInv, PTL DEF Spec

=============================================================================
