-------------------------- MODULE BlockTreeProofs --------------------------
(* Facts about the tree of blocks and the order of candidates in BestChain. *)
EXTENDS BestChain, FiniteSetTheorems, WellFoundedInduction, TLAPS

\* Some member of a set of sets of blocks has no other member below it.
LEMMA MinimalSet ==
    ASSUME NEW F \in SUBSET (SUBSET Block), F # {}
    PROVE  \E A \in F : \A B \in F : B \subseteq A => B = A
<1>1. F \subseteq FiniteSubsetsOf(Block)
  BY TreeAssumption, FS_Subset DEF FiniteSubsetsOf
<1>2. PICK A \in F : \A B \in F : ~(<<B, A>> \in StrictSubsetOrdering(Block))
  BY <1>1, FS_StrictSubsetOrderingWellFounded, WFMin
<1> QED
  BY <1>2, Zenon DEF StrictSubsetOrdering

----------------------------------------------------------------------------
(* Ancestors *)

\* The ancestors of a block are blocks, have it, and have their parents.
LEMMA AncestorsClosed ==
    ASSUME NEW b \in Block
    PROVE  /\ Ancestors[b] \subseteq Block
           /\ b \in Ancestors[b]
           /\ \A c \in Ancestors[b] \ {Genesis} : Parent[c] \in Ancestors[b]
  BY TreeAssumption DEF Ancestors

\* They are in every set that is like this.
LEMMA AncestorsLeast ==
    ASSUME NEW b \in Block, NEW S \in SUBSET Block, b \in S,
           \A c \in S \ {Genesis} : Parent[c] \in S
    PROVE  Ancestors[b] \subseteq S
  BY DEF Ancestors

\* Ancestors of an ancestor are ancestors.
LEMMA AncestorsTransitive ==
    ASSUME NEW b \in Block, NEW a \in Ancestors[b]
    PROVE  Ancestors[a] \subseteq Ancestors[b]
  BY AncestorsClosed, AncestorsLeast

\* A child adds itself to the ancestors of its parent.
LEMMA AncestorsOfChild ==
    ASSUME NEW b \in Block \ {Genesis}
    PROVE  /\ Parent[b] \in Block
           /\ Ancestors[b] = {b} \cup Ancestors[Parent[b]]
<1>1. Parent[b] \in Block
  BY TreeAssumption
<1>2. Parent[b] \in Ancestors[b]
  BY AncestorsClosed
<1>3. Ancestors[Parent[b]] \subseteq Ancestors[b]
  BY <1>2, AncestorsTransitive
<1> DEFINE S == {b} \cup Ancestors[Parent[b]]
<1>4. S \in SUBSET Block /\ b \in S
  BY <1>1, AncestorsClosed
<1>5. \A c \in S \ {Genesis} : Parent[c] \in S
  BY <1>1, AncestorsClosed
<1>6. Ancestors[b] \subseteq S
  <2> HIDE DEF S
  <2> QED
    BY <1>4, <1>5, AncestorsLeast
<1>7. b \in Ancestors[b]
  BY AncestorsClosed
<1>8. Ancestors[b] = S
  BY <1>3, <1>6, <1>7
<1> QED
  BY <1>1, <1>8

\* The genesis block is its only ancestor.
LEMMA AncestorsOfGenesis == Ancestors[Genesis] = {Genesis}
<1>1. Genesis \in Block
  BY TreeAssumption
<1>2. Ancestors[Genesis] \subseteq {Genesis}
  BY <1>1, AncestorsLeast, Zenon
<1> QED
  BY <1>1, <1>2, AncestorsClosed

\* An ancestor is lower and has less work.
LEMMA AncestorsLower ==
    ASSUME NEW b \in Block, NEW a \in Ancestors[b], a # b
    PROVE  /\ Height[a] < Height[b]
           /\ ChainWork[a] < ChainWork[b]
<1> DEFINE S == {c \in Block : c = b \/ (Height[c] < Height[b] /\ ChainWork[c] < ChainWork[b])}
<1>1. S \in SUBSET Block /\ b \in S
  OBVIOUS
<1>2. \A c \in S \ {Genesis} : Parent[c] \in S
  BY TreeAssumption
<1>3. Ancestors[b] \subseteq S
  BY <1>1, <1>2, AncestorsLeast, Zenon
<1> QED
  BY <1>3

\* Every other ancestor is the parent of one.
LEMMA AncestorsLinked ==
    ASSUME NEW b \in Block, NEW a \in Ancestors[b], a # b
    PROVE  \E c \in Ancestors[b] \ {Genesis} : Parent[c] = a
<1> DEFINE S == {b} \cup {Parent[c] : c \in Ancestors[b] \ {Genesis}}
<1>1. S \subseteq Ancestors[b]
  BY AncestorsClosed
<1>2. S \in SUBSET Block /\ b \in S
  BY <1>1, AncestorsClosed
<1>3. \A c \in S \ {Genesis} : Parent[c] \in S
  BY <1>1
<1>4. Ancestors[b] \subseteq S
  <2> HIDE DEF S
  <2> QED
    BY <1>2, <1>3, AncestorsLeast
<1> QED
  BY <1>4

\* There is one at each height.
LEMMA AncestorsUnique ==
    ASSUME NEW b \in Block, NEW a \in Ancestors[b], NEW c \in Ancestors[b],
           Height[a] = Height[c]
    PROVE  a = c
<1> DEFINE S == {d \in Ancestors[b] : \A e \in Ancestors[b] : Height[e] = Height[d] => e = d}
<1>1. S \in SUBSET Block
  BY AncestorsClosed
<1>2. b \in S
  <2>1. \A e \in Ancestors[b] : e # b => Height[e] < Height[b]
    BY AncestorsLower
  <2>2. \A e \in Ancestors[b] : Height[e] \in Nat
    BY AncestorsClosed, TreeAssumption
  <2> QED
    BY <2>1, <2>2, AncestorsClosed
<1>3. ASSUME NEW d \in S \ {Genesis}
      PROVE  Parent[d] \in S
  <2>1. d \in Block /\ Parent[d] \in Ancestors[b]
    BY AncestorsClosed
  <2>2. ASSUME NEW e \in Ancestors[b], Height[e] = Height[Parent[d]]
        PROVE  e = Parent[d]
    <3>1. Height[e] < Height[b]
      <4>1. Height[d] = Height[Parent[d]] + 1 /\ Height[Parent[d]] \in Nat
        BY <2>1, TreeAssumption
      <4>2. d = b \/ Height[d] < Height[b]
        BY AncestorsLower
      <4>3. Height[b] \in Nat /\ Height[d] \in Nat
        BY <2>1, TreeAssumption
      <4> QED
        BY <2>2, <4>1, <4>2, <4>3
    <3>2. e # b
      BY <3>1, TreeAssumption
    <3>3. PICK f \in Ancestors[b] \ {Genesis} : Parent[f] = e
      BY <3>2, AncestorsLinked
    <3>4. f \in Block
      BY AncestorsClosed
    <3>5. Height[f] = Height[d]
      BY <3>3, <3>4, <2>1, <2>2, TreeAssumption
    <3> QED
      BY <3>3, <3>5
  <2> QED
    BY <2>1, <2>2
<1>4. Ancestors[b] \subseteq S
  <2> HIDE DEF S
  <2> QED
    BY <1>1, <1>2, <1>3, AncestorsLeast
<1> QED
  BY <1>4

\* Of two ancestors the lower is an ancestor of the higher.
LEMMA AncestorsLinear ==
    ASSUME NEW b \in Block, NEW a \in Ancestors[b], NEW c \in Ancestors[b],
           Height[a] <= Height[c]
    PROVE  a \in Ancestors[c]
<1> DEFINE S == {d \in Ancestors[b] : Height[a] <= Height[d] => a \in Ancestors[d]}
<1>1. S \in SUBSET Block /\ b \in S
  BY AncestorsClosed
<1>2. ASSUME NEW d \in S \ {Genesis}
      PROVE  Parent[d] \in S
  <2>1. d \in Block /\ Parent[d] \in Ancestors[b] /\ a \in Block
    BY AncestorsClosed
  <2>2. ASSUME Height[a] <= Height[Parent[d]]
        PROVE  a \in Ancestors[Parent[d]]
    <3>1. Height[a] < Height[d]
      BY <2>1, <2>2, TreeAssumption
    <3>2. a \in Ancestors[d] /\ a # d
      BY <2>1, <3>1, TreeAssumption
    <3> QED
      BY <2>1, <3>2, AncestorsOfChild
  <2> QED
    BY <2>1, <2>2
<1>3. Ancestors[b] \subseteq S
  BY <1>1, <1>2, AncestorsLeast, Zenon
<1> QED
  BY <1>3

\* The genesis block is an ancestor of every block.
LEMMA GenesisIsAncestor ==
    ASSUME NEW b \in Block
    PROVE  Genesis \in Ancestors[b]
<1> SUFFICES ASSUME Genesis \notin Ancestors[b]
             PROVE  FALSE
  OBVIOUS
<1> DEFINE F == {Ancestors[a] : a \in Ancestors[b]}
<1>1. F \in SUBSET (SUBSET Block) /\ F # {}
  BY AncestorsClosed
<1>2. PICK A \in F : \A B \in F : B \subseteq A => B = A
  BY <1>1, MinimalSet, Zenon
<1>3. PICK a \in Ancestors[b] : Ancestors[a] = A
  BY <1>2
<1>4. a \in Block \ {Genesis} /\ Parent[a] \in Ancestors[b]
  BY AncestorsClosed
<1>5. Ancestors[Parent[a]] = Ancestors[a]
  BY <1>2, <1>3, <1>4, AncestorsOfChild
<1>6. Parent[a] \in Block /\ a \in Ancestors[Parent[a]]
  BY <1>4, <1>5, AncestorsClosed
<1>7. Height[Parent[a]] < Height[a] /\ Height[a] \in Nat /\ Height[Parent[a]] \in Nat
  BY <1>4, <1>6, TreeAssumption
<1>8. a # Parent[a]
  BY <1>7
<1>9. Height[a] < Height[Parent[a]]
  BY <1>6, <1>8, AncestorsLower
<1> QED
  BY <1>7, <1>9

\* The block after a on the way to b.
LEMMA NextOnTheWay ==
    ASSUME NEW b \in Block, NEW a \in Ancestors[b], a # b
    PROVE  \E c \in Ancestors[b] : /\ c \in Block \ {Genesis}
                                   /\ Parent[c] = a
                                   /\ Ancestors[c] = {c} \cup Ancestors[a]
                                   /\ Height[c] = Height[a] + 1
                                   /\ \A d \in Ancestors[b] : Height[d] = Height[a] + 1 => d = c
<1>1. PICK c \in Ancestors[b] \ {Genesis} : Parent[c] = a
  BY AncestorsLinked
<1>2. c \in Block
  BY AncestorsClosed
<1>3. Height[c] = Height[a] + 1
  BY <1>1, <1>2, TreeAssumption
<1>4. \A d \in Ancestors[b] : Height[d] = Height[a] + 1 => d = c
  BY <1>3, AncestorsUnique
<1> QED
  BY <1>1, <1>2, <1>3, <1>4, AncestorsOfChild

----------------------------------------------------------------------------
(* The order of candidates *)

\* It is strict and total.
LEMMA OrderIsStrict ==
    ASSUME NEW s \in [Block -> Nat], NEW a \in Block, NEW b \in Block
    PROVE  /\ ~SortsBefore(s, a, a)
           /\ SortsBefore(s, a, b) => ~SortsBefore(s, b, a)
           /\ ~SortsBefore(s, a, b) /\ ~SortsBefore(s, b, a) => a = b
<1>1. /\ ChainWork[a] \in Nat /\ s[a] \in Nat /\ Address[a] \in Nat
      /\ ChainWork[b] \in Nat /\ s[b] \in Nat /\ Address[b] \in Nat
      /\ Address[a] = Address[b] => a = b
  BY TreeAssumption, EntryAssumption
<1> QED
  BY <1>1 DEF SortsBefore

\* It is transitive.
LEMMA OrderIsTransitive ==
    ASSUME NEW s \in [Block -> Nat], NEW a \in Block, NEW b \in Block, NEW c \in Block,
           SortsBefore(s, a, b), SortsBefore(s, b, c)
    PROVE  SortsBefore(s, a, c)
<1>1. /\ ChainWork[a] \in Nat /\ s[a] \in Nat /\ Address[a] \in Nat
      /\ ChainWork[b] \in Nat /\ s[b] \in Nat /\ Address[b] \in Nat
      /\ ChainWork[c] \in Nat /\ s[c] \in Nat /\ Address[c] \in Nat
  BY TreeAssumption, EntryAssumption
<1> QED
  BY <1>1 DEF SortsBefore

\* What is no worse than something no worse than a third is no worse than it.
LEMMA OrderIsNegativelyTransitive ==
    ASSUME NEW s \in [Block -> Nat], NEW a \in Block, NEW b \in Block, NEW c \in Block,
           ~SortsBefore(s, a, b), ~SortsBefore(s, b, c)
    PROVE  ~SortsBefore(s, a, c)
<1>1. b = c \/ SortsBefore(s, c, b)
  BY OrderIsStrict
<1>2. a = b \/ SortsBefore(s, b, a)
  BY OrderIsStrict
<1>3. c = a \/ SortsBefore(s, c, a)
  BY <1>1, <1>2, OrderIsTransitive
<1> QED
  BY <1>3, OrderIsStrict

\* A block is better than those below it.
LEMMA AncestorsWorse ==
    ASSUME NEW s \in [Block -> Nat], NEW b \in Block, NEW a \in Ancestors[b]
    PROVE  /\ ~SortsBefore(s, b, a)
           /\ a # b => SortsBefore(s, a, b)
<1>1. a \in Block
  BY AncestorsClosed
<1>2. a # b => SortsBefore(s, a, b)
  BY AncestorsLower DEF SortsBefore
<1> QED
  BY <1>1, <1>2, OrderIsStrict

\* Some member of a set of blocks is best.
LEMMA BestExists ==
    ASSUME NEW s \in [Block -> Nat], NEW C \in SUBSET Block, C # {}
    PROVE  \E c \in C : \A d \in C : ~SortsBefore(s, c, d)
<1> DEFINE Above(c) == {d \in Block : SortsBefore(s, c, d)}
           F == {Above(c) : c \in C}
<1>1. F \in SUBSET (SUBSET Block) /\ F # {}
  OBVIOUS
<1>2. PICK A \in F : \A B \in F : B \subseteq A => B = A
  <2> HIDE DEF F
  <2> QED
    BY <1>1, MinimalSet
<1>3. PICK c \in C : Above(c) = A
  OBVIOUS
<1>4. ASSUME NEW d \in C, SortsBefore(s, c, d)
      PROVE  FALSE
  <2>1. Above(d) \subseteq Above(c)
    BY <1>4, OrderIsTransitive
  <2>2. Above(d) = Above(c)
    <3>1. Above(d) \in F
      OBVIOUS
    <3> HIDE DEF F, Above
    <3> QED
      BY <1>2, <1>3, <2>1, <3>1
  <2>3. d \in Above(d)
    BY <1>4, <2>2
  <2> QED
    BY <2>3, OrderIsStrict
<1> QED
  BY <1>4

----------------------------------------------------------------------------
(* FindMostWorkChain *)

\* It finds the best candidate that has no unusable block on the way.
LEMMA FoundIsBest ==
    ASSUME seq \in [Block -> Nat], cand \subseteq Block
    PROVE  \/ /\ FindMostWorkChain = Nil
              /\ \A c \in cand : Hopeless(c)
           \/ /\ FindMostWorkChain \in cand
              /\ ~Hopeless(FindMostWorkChain)
              /\ \A c \in cand : ~Hopeless(c) => ~Worse(FindMostWorkChain, c)
<1> DEFINE good == {c \in cand : ~Hopeless(c)}
<1>1. CASE good = {}
  BY <1>1 DEF FindMostWorkChain
<1>2. CASE good # {}
  <2>1. \E c \in good : \A d \in good : ~Worse(c, d)
    <3> HIDE DEF good
    <3>1. good \in SUBSET Block
      BY DEF good
    <3> QED
      BY <1>2, <3>1, BestExists DEF Worse
  <2>2. FindMostWorkChain = CHOOSE c \in good : \A d \in good : ~Worse(c, d)
    BY <1>2 DEF FindMostWorkChain
  <2>3. /\ FindMostWorkChain \in good
        /\ \A d \in good : ~Worse(FindMostWorkChain, d)
    <3> HIDE DEF good
    <3> QED
      BY <2>1, <2>2
  <2> QED
    BY <2>3
<1> QED
  BY <1>1, <1>2

\* The block at which it gives a candidate up is below all that it removes.
LEMMA RemovedAboveBlocker ==
    ASSUME NEW c \in Block, tip \in Block, Hopeless(c)
    PROVE  /\ Blocker(c) \in Branch(c) /\ Unusable(Blocker(c))
           /\ \A d \in Removed(c) : d \in Branch(c) /\ Blocker(c) \in Ancestors[d]
<1>1. Branch(c) \subseteq Ancestors[c] /\ Ancestors[c] \subseteq Block
  BY AncestorsClosed DEF Branch
<1> DEFINE U == {a \in Branch(c) : Unusable(a)}
           F == {Block \ Ancestors[a] : a \in U}
<1>2. U # {} /\ U \subseteq Ancestors[c] /\ U \subseteq Block
  BY <1>1 DEF Hopeless
<1>3. F \in SUBSET (SUBSET Block) /\ F # {}
  BY <1>2, Zenon
<1>4. PICK A \in F : \A B \in F : B \subseteq A => B = A
  <2> HIDE DEF F
  <2> QED
    BY <1>3, MinimalSet
<1>5. PICK a \in U : A = Block \ Ancestors[a]
  OBVIOUS
<1>6. ASSUME NEW e \in U
      PROVE  Height[e] <= Height[a]
  <2>0. e \in Ancestors[c] /\ a \in Ancestors[c] /\ e \in Block /\ a \in Block
    BY <1>2
  <2>1. Height[e] \in Nat /\ Height[a] \in Nat
    BY <2>0, TreeAssumption
  <2>2. SUFFICES ASSUME Height[a] < Height[e] PROVE FALSE
    BY <2>1
  <2>3. a \in Ancestors[e]
    BY <2>0, <2>1, <2>2, AncestorsLinear
  <2>4. Ancestors[a] \subseteq Ancestors[e]
    BY <2>0, <2>3, AncestorsTransitive
  <2>5. (Block \ Ancestors[e]) \subseteq (Block \ Ancestors[a])
    BY <2>4
  <2>6. Block \ Ancestors[e] = Block \ Ancestors[a]
    <3>1. Block \ Ancestors[e] \in F
      OBVIOUS
    <3> HIDE DEF F
    <3> QED
      BY <1>4, <1>5, <2>5, <3>1
  <2>7. e \in Ancestors[a]
    BY <2>0, <2>6, AncestorsClosed
  <2>8. e = a \/ Height[e] < Height[a]
    BY <2>0, <2>7, AncestorsLower
  <2> QED
    BY <2>1, <2>2, <2>8
<1>7. /\ Blocker(c) \in Branch(c) /\ Unusable(Blocker(c))
  <2>1. \E x \in Branch(c) : /\ Unusable(x)
                             /\ \A e \in Branch(c) : Unusable(e) => Height[e] <= Height[x]
    BY <1>6
  <2> QED
    BY <2>1 DEF Blocker
<1>8. ASSUME NEW d \in Removed(c)
      PROVE  d \in Branch(c) /\ Blocker(c) \in Ancestors[d]
  <2>1. d \in Branch(c) /\ Height[d] >= Height[Blocker(c)]
    BY DEF Removed
  <2>2. d \in Ancestors[c] /\ Blocker(c) \in Ancestors[c]
    BY <1>1, <1>7, <2>1
  <2>3. Height[d] \in Nat /\ Height[Blocker(c)] \in Nat
    BY <1>1, <2>2, TreeAssumption
  <2> QED
    BY <2>1, <2>2, <2>3, AncestorsLinear
<1> QED
  BY <1>7, <1>8

============================================================================
