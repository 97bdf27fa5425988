-------------------------- MODULE BestChainSteps ---------------------------
(* What the steps of BestChain do, for any tree of blocks, any number of    *)
(* threads and any of the failures, and that they keep the types, the locks,*)
(* the validity of the chain, the entries and pindexMostWork in order.      *)
EXTENDS BlockTreeProofs

----------------------------------------------------------------------------
(* What the steps do, in the terms the proofs need *)

\* At most one thread holds cs_main, and it holds the mutex too.
LEMMA OneThread ==
    ASSUME TypeOK, LocksInv, NEW t \in Thread
    PROVE  /\ pc[t] \in Locked => /\ csMain = t /\ mutex = t
                                  /\ \A u \in Thread : pc[u] \in Active => u = t
           /\ csMain = Nil => \A u \in Thread : pc[u] \notin Locked
  BY OthersAssumption DEF LocksInv, Locked, Active

\* A stored chain of valid blocks is not failed and not given up.
LEMMA SoundIsUsable ==
    ASSUME TypeOK, OnlyValid, EntriesInv, NEW b \in Block, AllValid(b)
    PROVE  /\ b \notin failed
           /\ \A c \in cand : Hopeless(c) => b \notin Removed(c)
           /\ Ancestors[b] \subseteq data => ~Hopeless(b)
<1>1. \A a \in Ancestors[b] : a \in Block /\ AllValid(a)
  BY AncestorsClosed, AncestorsTransitive DEF AllValid
<1>2. \A a \in Ancestors[b] : a \notin failed
  BY <1>1 DEF OnlyValid, AllValid
<1>3. b \in Ancestors[b]
  BY AncestorsClosed
<1>4. ASSUME NEW c \in cand, Hopeless(c), b \in Removed(c)
      PROVE  FALSE
  <2>1. c \in Block /\ tip \in Block /\ Ancestors[c] \subseteq data
    BY DEF TypeOK, EntriesInv
  <2>2. Blocker(c) \in Branch(c) /\ Unusable(Blocker(c)) /\ Blocker(c) \in Ancestors[b]
    BY <1>4, <2>1, RemovedAboveBlocker
  <2>3. Blocker(c) \in data
    BY <2>1, <2>2 DEF Branch
  <2> QED
    BY <1>2, <2>2, <2>3 DEF Unusable
<1>5. Ancestors[b] \subseteq data => ~Hopeless(b)
  BY <1>2 DEF Hopeless, Branch, Unusable
<1> QED
  BY <1>2, <1>3, <1>4, <1>5

\* The next block that ConnectTip takes.
LEMMA NextBlockIsChild ==
    ASSUME TypeOK, OnlyValid, EntriesInv, TargetInv, NEW t \in Thread,
           pc[t] = "step", tip \in Ancestors[most] \ {most}
    PROVE  /\ most \in Block
           /\ NextBlock \in Block \ {Genesis} /\ NextBlock \in Ancestors[most]
           /\ NextBlock \in data
           /\ Parent[NextBlock] = tip
           /\ Ancestors[NextBlock] = {NextBlock} \cup Ancestors[tip]
<1>1. most \in Block /\ most \in linked
  BY DEF TypeOK, TargetInv
<1>2. /\ NextBlock \in Ancestors[most] /\ NextBlock \in Block \ {Genesis}
      /\ Parent[NextBlock] = tip
      /\ Ancestors[NextBlock] = {NextBlock} \cup Ancestors[tip]
  <2>1. PICK c \in Ancestors[most] :
            /\ c \in Block \ {Genesis} /\ Parent[c] = tip
            /\ Ancestors[c] = {c} \cup Ancestors[tip]
            /\ Height[c] = Height[tip] + 1
            /\ \A d \in Ancestors[most] : Height[d] = Height[tip] + 1 => d = c
    <3>1. tip \in Ancestors[most] /\ tip # most
      OBVIOUS
    <3> QED
      BY ONLY <1>1, <3>1, NextOnTheWay, TreeAssumption
  <2>2. NextBlock = c
    BY <2>1 DEF NextBlock
  <2> QED
    BY <2>1, <2>2
<1>3. NextBlock \in data
  BY <1>1, <1>2 DEF EntriesInv
<1> QED
  BY <1>1, <1>2, <1>3

\* ConnectTip makes a sound child of the tip the new tip.
LEMMA ConnectTipFacts ==
    ASSUME TypeOK, OnlyValid, EntriesInv, TargetInv, NEW t \in Thread, ConnectTip(t)
    PROVE  /\ most \in Block /\ tip' \in Block \ {Genesis}
           /\ Parent[tip'] = tip
           /\ Ancestors[tip'] = {tip'} \cup Ancestors[tip]
           /\ tip' \in Ancestors[most]
           /\ Sound(tip')
           /\ trace' = Append(trace, tip')
           /\ {c \in cand : ~Worse(c, tip')} \subseteq cand' /\ cand' \subseteq cand
           /\ pc' = [pc EXCEPT ![t] = "stepped"] \/ pc' = [pc EXCEPT ![t] = "step"]
<1>1. pc[t] = "step" /\ tip \in Ancestors[most] \ {most}
  BY DEF ConnectTip
<1>2. tip' = NextBlock /\ Verdict[NextBlock] # "badConnect"
  BY DEF ConnectTip
<1>3. /\ most \in Block
      /\ NextBlock \in Block \ {Genesis} /\ NextBlock \in Ancestors[most]
      /\ NextBlock \in data /\ Parent[NextBlock] = tip
      /\ Ancestors[NextBlock] = {NextBlock} \cup Ancestors[tip]
  BY <1>1, NextBlockIsChild
<1>4. Verdict[NextBlock] = "valid"
  BY <1>2, <1>3 DEF EntriesInv
<1>5. Sound(NextBlock)
  BY <1>3, <1>4 DEF OnlyValid, Sound
<1>6. /\ trace' = Append(trace, NextBlock)
      /\ cand' \in {Pruned(NextBlock), Pruned(NextBlock) \cup Shielded(NextBlock)}
      /\ pc' = [pc EXCEPT ![t] = "stepped"] \/ pc' = [pc EXCEPT ![t] = "step"]
  BY Zenon DEF ConnectTip
<1>7. {c \in cand : ~Worse(c, NextBlock)} \subseteq cand' /\ cand' \subseteq cand
  BY ONLY <1>6, Zenon DEF Pruned, Shielded, Misplaced
<1> QED
  BY <1>2, <1>3, <1>5, <1>6, <1>7

\* Erasing a block takes no other candidate away, unless it is a misplaced one.
LEMMA ErasuresFacts ==
    ASSUME NEW b, cand' \in Erasures(b)
    PROVE  /\ cand' \subseteq cand
           /\ \A c \in cand \ cand' : c = b \/ c \in Misplaced
<1>1. \/ cand' = cand \/ cand' = cand \ {b}
      \/ cand' = cand \ {c \in Misplaced : Address[c] >= Address[b]}
  BY DEF Erasures
<1> QED
  BY <1>1

\* DisconnectTip never meets the genesis block.
LEMMA DisconnectTipFacts ==
    ASSUME TypeOK, TargetInv, NEW t \in Thread, DisconnectTip(t)
    PROVE  /\ most \in Block /\ tip \in Block \ {Genesis}
           /\ tip' = Parent[tip] /\ tip' \in Block
           /\ Ancestors[tip] = {tip} \cup Ancestors[tip']
<1>1. most \in Block /\ tip \in Block /\ tip \notin Ancestors[most] /\ tip' = Parent[tip]
  BY DEF TypeOK, TargetInv, DisconnectTip
<1>2. tip # Genesis
  BY <1>1, GenesisIsAncestor
<1> QED
  BY <1>1, <1>2, AncestorsOfChild

\* What a turn of the inner loop chooses and removes.
LEMMA ChooseFacts ==
    ASSUME TypeOK, OnlyValid, EntriesInv, NEW t \in Thread, ActivateBestChain_choose(t)
    PROVE  /\ unlinked' = unlinked
           /\ \E R \in SUBSET Block :
                 /\ cand' = cand \ R
                 /\ failed' = failed \cup R
                 /\ \A d \in R : ~AllValid(d)
           /\ most' \in cand \cup {most, Nil}
           /\ most # Nil => most' = most
           /\ most = Nil => \A c \in cand : ~Hopeless(c) => most' # Nil /\ ~Worse(most', c)
           /\ \/ most' \in {Nil, tip} /\ pc' = [pc EXCEPT ![t] = "leave"]
              \/ most' \notin {Nil, tip} /\ pc' = [pc EXCEPT ![t] = "step"]
<1> DEFINE found == IF most = Nil THEN FindMostWorkChain ELSE most
           past  == IF most = Nil THEN Skipped(found) ELSE {}
           lost  == {c \in past : Blocker(c) \notin failed}
           R     == UNION {Removed(c) : c \in past}
<1>1. /\ most' = found
      /\ cand' = cand \ R
      /\ failed' = failed \cup UNION {Removed(c) : c \in past \ lost}
      /\ unlinked' = unlinked \cup UNION {Removed(c) \ {Blocker(c)} : c \in lost}
      /\ IF found \in {Nil, tip} THEN pc' = [pc EXCEPT ![t] = "leave"]
                                 ELSE pc' = [pc EXCEPT ![t] = "step"]
  BY DEF ActivateBestChain_choose
<1>2. past \subseteq cand /\ \A c \in past : Hopeless(c)
  BY DEF Skipped
<1>3. tip \in Block /\ cand \subseteq Block /\ seq \in [Block -> Nat]
  BY DEF TypeOK
<1>4. \A c \in past : /\ Blocker(c) \in Branch(c) /\ Unusable(Blocker(c))
                      /\ \A d \in Removed(c) : d \in Branch(c) /\ Blocker(c) \in Ancestors[d]
  BY <1>2, <1>3, RemovedAboveBlocker
<1>5. \A c \in past : Blocker(c) \in failed
  <2>1. \A c \in past : Branch(c) \subseteq data
    BY <1>2 DEF EntriesInv, Branch
  <2> QED
    BY <1>4, <2>1 DEF Unusable
<1>6. lost = {}
  BY <1>5
<1>7. unlinked' = unlinked /\ failed' = failed \cup R
  BY <1>1, <1>6
<1>8. R \in SUBSET Block
  <2>1. \A c \in past : Removed(c) \subseteq Block
    BY <1>2, <1>3, AncestorsClosed DEF Removed, Branch
  <2> QED
    BY <2>1
<1>9. \A d \in R : ~AllValid(d)
  <2>1. ASSUME NEW c \in past, NEW d \in Removed(c)
        PROVE  ~AllValid(d)
    <3>1. d \in Block /\ Blocker(c) \in Ancestors[d] /\ Blocker(c) \in failed
      BY <1>4, <1>5, <1>8
    <3>2. \E a \in Ancestors[Blocker(c)] : Verdict[a] # "valid"
      BY <3>1 DEF OnlyValid
    <3> QED
      BY <3>1, <3>2, AncestorsTransitive DEF AllValid
  <2> QED
    BY <2>1
<1>10. /\ most = Nil => found = Nil \/ found \in cand
       /\ most = Nil => \A c \in cand : ~Hopeless(c) => found # Nil /\ ~Worse(found, c)
  <2> SUFFICES ASSUME most = Nil
               PROVE  /\ found = Nil \/ found \in cand
                      /\ \A c \in cand : ~Hopeless(c) => found # Nil /\ ~Worse(found, c)
    OBVIOUS
  <2>1. found = FindMostWorkChain
    OBVIOUS
  <2>2. Nil \notin cand
    BY <1>3, OthersAssumption
  <2> HIDE DEF found
  <2> QED
    BY <1>3, <2>1, <2>2, FoundIsBest
<1> HIDE DEF R
<1>11. /\ most' \in cand \cup {most, Nil}
       /\ most # Nil => most' = most
  BY <1>1, <1>10
<1>12. \/ most' \in {Nil, tip} /\ pc' = [pc EXCEPT ![t] = "leave"]
       \/ most' \notin {Nil, tip} /\ pc' = [pc EXCEPT ![t] = "step"]
  BY <1>1
<1> QED
  BY <1>1, <1>7, <1>8, <1>9, <1>10, <1>11, <1>12

\* The genesis block is stored.
LEMMA GenesisIsStored ==
    ASSUME TypeOK, OnlyValid
    PROVE  Genesis \in data
  BY GenesisIsAncestor DEF TypeOK, OnlyValid, Sound

\* A block that is stored has passed the checks before ConnectBlock.
LEMMA StoredIsChecked ==
    ASSUME TypeOK, OnlyValid, EntriesInv, NEW t \in Thread, NEW b \in Block,
           ProcessNewBlock_stored(t, b)
    PROVE  /\ b \in Block \ {Genesis} /\ b \notin data
           /\ Verdict[b] \in {"valid", "badConnect"}
<1>1. b \notin data /\ Verdict[b] # "badContext" /\ Verdict[b] # "badCheck" /\ HeaderAccepted(b)
  BY DEF ProcessNewBlock_stored, Enters
<1>2. b # Genesis
  BY <1>1, GenesisIsStored
<1>3. Verdict[b] # "badHeader"
  BY <1>1, <1>2 DEF HeaderAccepted, EntriesInv
<1> QED
  BY <1>1, <1>2, <1>3, EntryAssumption DEF Verdicts

\* What is linked when a block is stored, and that nothing else is: the blocks
\* that waited for it are just those whose chains it completes.
LEMMA StoredFacts ==
    ASSUME TypeOK, OnlyValid, EntriesInv, NEW t \in Thread, NEW b \in Block,
           ProcessNewBlock_stored(t, b)
    PROVE  /\ EntriesInv'
           /\ nextSeq' \in Nat /\ seq' \in [Block -> Nat]
           /\ unlinked' \subseteq Block
           /\ \E D \in SUBSET Block :
                 /\ D \cap linked = {}
                 /\ linked' = linked \cup D
                 /\ cand' = cand \cup {d \in D : ~SortsBefore(seq', d, tip)}
                 /\ \A c \in Block \ D : seq'[c] = seq[c]
<1>1. b \in Block \ {Genesis} /\ b \notin data /\ Verdict[b] \in {"valid", "badConnect"}
  BY StoredIsChecked
<1>2. /\ index' = index \cup {b} /\ data' = data \cup {b} /\ failed' = failed /\ tip' = tip
      /\ ReceivedBlockTransactions(b) /\ Verdict[b] # "badHeader"
  BY <1>1 DEF ProcessNewBlock_stored
<1>3. /\ Parent[b] \in Block /\ Ancestors[b] = {b} \cup Ancestors[Parent[b]]
      /\ b \in Ancestors[b]
  BY <1>1, AncestorsOfChild, AncestorsClosed
<1>4. /\ index \subseteq Block /\ data \subseteq Block /\ linked \subseteq Block
      /\ cand \subseteq Block /\ unlinked \subseteq Block /\ seq \in [Block -> Nat]
      /\ nextSeq \in Nat /\ tip \in Block
  BY DEF TypeOK
<1>5. linked \subseteq data
  BY <1>4, AncestorsClosed DEF EntriesInv
<1>6. \A d \in Block : Ancestors[d] \subseteq Block /\ d \in Ancestors[d]
  BY AncestorsClosed
<1>7. CASE Parent[b] \in linked
  <2> DEFINE D == Joins(b)
  <2>1. PICK s \in Numbers(D) :
            /\ seq' = [c \in Block |-> IF c \in D THEN s[c] ELSE seq[c]]
            /\ nextSeq' = nextSeq + Cardinality(D)
            /\ linked' = linked \cup D
            /\ unlinked' = unlinked \ D
            /\ cand' = cand \cup {d \in D :
                  ~SortsBefore([c \in Block |-> IF c \in D THEN s[c] ELSE seq[c]], d, tip)}
    BY <1>2, <1>7 DEF ReceivedBlockTransactions
  <2>2. D \in SUBSET Block /\ b \in D
    BY <1>4 DEF Joins
  <2>3. \A d \in D : d = b \/ (/\ d \in unlinked /\ b \in Ancestors[d]
                                /\ Ancestors[d] \ Ancestors[b] \subseteq unlinked)
    BY DEF Joins
  <2>4. nextSeq' \in Nat /\ Cardinality(D) \in Nat
    <3>1. IsFiniteSet(D)
      BY <2>2, TreeAssumption, FS_Subset
    <3>2. Cardinality(D) \in Nat
      BY <3>1, FS_CardinalityType
    <3> QED
      BY <1>4, <2>1, <3>2
  <2>5. seq' \in [Block -> Nat] /\ \A c \in Block \ D : seq'[c] = seq[c]
    <3>1. s \in [D -> nextSeq..(nextSeq + Cardinality(D) - 1)]
      BY DEF Numbers
    <3>2. \A c \in D : s[c] \in Nat
      BY <1>4, <2>4, <3>1
    <3> HIDE DEF D
    <3> QED
      BY <1>4, <2>1, <3>2
  <2>6. D \cap linked = {}
    BY <1>1, <1>5, <2>3 DEF EntriesInv
  <2>7. Ancestors[b] \subseteq data'
    BY <1>2, <1>3, <1>7 DEF EntriesInv
  <2>8. \A d \in D : Ancestors[d] \subseteq data'
    <3>1. \A d \in D : Ancestors[d] \ Ancestors[b] \subseteq data'
      BY <1>2, <2>3 DEF EntriesInv
    <3> QED
      BY <2>7, <3>1
  <2>9. ASSUME NEW d \in Block, AllValid(d), Ancestors[d] \subseteq data'
        PROVE  d \in linked'
    <3>1. CASE Ancestors[d] \subseteq data
      BY <2>1, <2>9, <3>1, Zenon DEF EntriesInv, Sound, AllValid
    <3>2. CASE b \in Ancestors[d]
      <4>1. SUFFICES ASSUME d # b PROVE d \in Joins(b)
        BY <2>1, <2>2
      <4>2. ASSUME NEW a \in Ancestors[d] \ Ancestors[b]
            PROVE  a \in unlinked
        <5>1. a \in Block /\ AllValid(a)
          BY <1>6, <2>9, AncestorsTransitive DEF AllValid
        <5>2. a \in data
          BY <1>2, <1>3, <2>9
        <5>3. b \in Ancestors[a]
          <6>1. Height[a] \in Nat /\ Height[b] \in Nat
            BY <5>1, TreeAssumption
          <6>2. Height[b] <= Height[a] \/ Height[a] <= Height[b]
            BY <6>1
          <6>3. ~(Height[a] <= Height[b])
            BY <2>9, <3>2, AncestorsLinear
          <6> QED
            BY <2>9, <3>2, <6>2, <6>3, AncestorsLinear
        <5>4. a \notin linked
          BY <1>1, <5>3 DEF EntriesInv
        <5> QED
          BY <5>1, <5>2, <5>4 DEF EntriesInv
      <4>3. d \notin Ancestors[b]
        <5>1. d \in Ancestors[b] => Height[d] < Height[b]
          BY <4>1, AncestorsLower, Zenon
        <5>2. Height[b] < Height[d]
          BY <3>2, <4>1, AncestorsLower, Zenon
        <5> QED
          BY <5>1, <5>2, TreeAssumption
      <4>4. d \in unlinked
        BY <1>6, <4>2, <4>3, Zenon
      <4> QED
        BY <3>2, <4>2, <4>4 DEF Joins
    <3> QED
      BY <1>2, <2>9, <3>1, <3>2
  <2>10. cand' = cand \cup {d \in D : ~SortsBefore(seq', d, tip)}
    BY <2>1
  <2> HIDE DEF D
  <2>11. EntriesInv'
    <3>1. \A c \in index' : Verdict[c] # "badHeader"
      BY <1>2 DEF EntriesInv
    <3>2. \A c \in data' : Verdict[c] \in {"valid", "badConnect"}
      BY <1>1, <1>2 DEF EntriesInv
    <3>3. cand' \subseteq linked'
      BY <2>1, <2>10, Zenon DEF EntriesInv
    <3>4. \A c \in linked' : Ancestors[c] \subseteq data'
      BY <1>2, <2>1, <2>8, Zenon DEF EntriesInv
    <3>5. unlinked' \subseteq data' \ linked'
      BY <1>2, <2>1 DEF EntriesInv
    <3>6. \A c \in data' : AllValid(c) => c \in linked' \cup unlinked'
      BY <1>2, <2>1, <2>2 DEF EntriesInv
    <3>7. \A c \in Block : Sound(c)' => c \in linked'
      BY <2>9 DEF Sound, AllValid
    <3> QED
      BY <3>1, <3>2, <3>3, <3>4, <3>5, <3>6, <3>7 DEF EntriesInv, AllValid
  <2> QED
    BY <1>4, <2>1, <2>2, <2>4, <2>5, <2>6, <2>10, <2>11, Zenon
<1>8. CASE Parent[b] \notin linked
  <2>1. /\ unlinked' = IF Parent[b] \in failed THEN unlinked ELSE unlinked \cup {b}
        /\ linked' = linked /\ seq' = seq /\ nextSeq' = nextSeq /\ cand' = cand
    BY <1>2, <1>8 DEF ReceivedBlockTransactions
  <2>2. ASSUME NEW d \in Block, AllValid(d), Ancestors[d] \subseteq data'
        PROVE  d \in linked'
    <3>1. CASE Ancestors[d] \subseteq data
      BY <2>1, <2>2, <3>1, Zenon DEF EntriesInv, Sound, AllValid
    <3>2. CASE b \in Ancestors[d]
      <4>1. Ancestors[b] \subseteq Ancestors[d]
        BY <2>2, <3>2, AncestorsTransitive
      <4>2. Ancestors[Parent[b]] \subseteq data
        <5>1. b \notin Ancestors[Parent[b]]
          <6>1. b \in Ancestors[Parent[b]] => b = Parent[b] \/ Height[b] < Height[Parent[b]]
            BY <1>3, AncestorsLower
          <6>2. Height[b] = Height[Parent[b]] + 1 /\ Height[Parent[b]] \in Nat
            BY <1>1, <1>3, TreeAssumption
          <6> QED
            BY <6>1, <6>2
        <5> QED
          BY <1>2, <1>3, <2>2, <4>1, <5>1
      <4>3. AllValid(Parent[b])
        BY <1>3, <2>2, <4>1 DEF AllValid
      <4>4. Parent[b] \in linked
        BY <1>3, <4>2, <4>3 DEF EntriesInv, Sound, AllValid
      <4> QED
        BY <1>8, <4>4
    <3> QED
      BY <1>2, <2>2, <3>1, <3>2
  <2>3. ASSUME AllValid(b)
        PROVE  Parent[b] \notin failed
    <3>1. AllValid(Parent[b])
      BY <1>3, <2>3 DEF AllValid
    <3> QED
      BY <1>3, <3>1, SoundIsUsable
  <2>4. EntriesInv'
    <3>1. \A c \in index' : Verdict[c] # "badHeader"
      BY <1>2 DEF EntriesInv
    <3>2. \A c \in data' : Verdict[c] \in {"valid", "badConnect"}
      BY <1>1, <1>2 DEF EntriesInv
    <3>3. cand' \subseteq linked'
      BY <2>1 DEF EntriesInv
    <3>4. \A c \in linked' : Ancestors[c] \subseteq data'
      BY <1>2, <2>1 DEF EntriesInv
    <3>5. unlinked' \subseteq data' \ linked'
      BY <1>1, <1>2, <1>5, <2>1 DEF EntriesInv
    <3>6. \A c \in data' : AllValid(c) => c \in linked' \cup unlinked'
      BY <1>2, <2>1, <2>3 DEF EntriesInv
    <3>7. \A c \in Block : Sound(c)' => c \in linked'
      BY <2>2 DEF Sound, AllValid
    <3> QED
      BY <3>1, <3>2, <3>3, <3>4, <3>5, <3>6, <3>7 DEF EntriesInv, AllValid
  <2>5. /\ {} \in SUBSET Block /\ {} \cap linked = {} /\ linked' = linked \cup {}
        /\ cand' = cand \cup {d \in {} : ~SortsBefore(seq', d, tip)}
        /\ \A c \in Block \ {} : seq'[c] = seq[c]
    BY <2>1
  <2>6. unlinked' \subseteq Block
    BY <1>4, <2>1
  <2> QED
    BY <1>4, <2>1, <2>4, <2>5, <2>6, Zenon
<1> QED
  BY <1>7, <1>8

\* ReceivedBlockTransactions numbers what it links from nBlockSequenceId up.
LEMMA StoredNumbers ==
    ASSUME TypeOK, NEW t \in Thread, NEW b \in Block, ProcessNewBlock_stored(t, b)
    PROVE  nextSeq' >= nextSeq /\ \A c \in linked' \ linked : seq'[c] >= nextSeq
<1>1. /\ linked \subseteq Block /\ unlinked \subseteq Block
      /\ seq \in [Block -> Nat] /\ nextSeq \in Nat
  BY DEF TypeOK
<1>2. ReceivedBlockTransactions(b)
  BY DEF ProcessNewBlock_stored
<1>3. CASE Parent[b] \in linked
  <2> DEFINE D == Joins(b)
  <2>1. PICK s \in Numbers(D) :
            /\ seq' = [c \in Block |-> IF c \in D THEN s[c] ELSE seq[c]]
            /\ nextSeq' = nextSeq + Cardinality(D)
            /\ linked' = linked \cup D
    BY <1>2, <1>3 DEF ReceivedBlockTransactions
  <2>2. D \subseteq Block
    BY <1>1 DEF Joins
  <2>3. Cardinality(D) \in Nat
    <3>1. IsFiniteSet(D)
      BY <2>2, TreeAssumption, FS_Subset
    <3> QED
      BY <3>1, FS_CardinalityType
  <2>4. s \in [D -> nextSeq..(nextSeq + Cardinality(D) - 1)]
    BY DEF Numbers
  <2> HIDE DEF D
  <2>5. nextSeq' >= nextSeq
    BY <1>1, <2>1, <2>3
  <2>6. ASSUME NEW c \in linked' \ linked PROVE seq'[c] >= nextSeq
    <3>1. c \in D /\ seq'[c] = s[c]
      BY <2>1, <2>2
    <3> QED
      BY <1>1, <2>3, <2>4, <3>1
  <2> QED
    BY <2>5, <2>6
<1>4. CASE Parent[b] \notin linked
  <2>1. linked' = linked /\ nextSeq' = nextSeq
    BY <1>2, <1>4 DEF ReceivedBlockTransactions
  <2> QED
    BY <1>1, <2>1
<1> QED
  BY <1>3, <1>4

----------------------------------------------------------------------------
(* Types and locks *)

\* The last of the collected events is about a block.
LEMMA LastIsBlock ==
    ASSUME NEW q \in Seq(Block), q # <<>>
    PROVE  q[Len(q)] \in Block /\ Len(q) \in Nat \ {0}
  OBVIOUS

\* What ConnectTip does to connectTrace.
LEMMA Appended ==
    ASSUME NEW q \in Seq(Block), NEW b \in Block
    PROVE  /\ Append(q, b) # <<>> /\ Len(Append(q, b)) = Len(q) + 1
           /\ Append(q, b)[Len(Append(q, b))] = b
           /\ \A i \in 1..Len(q) : Append(q, b)[i] = q[i]
           /\ Len(q) \in Nat
  OBVIOUS

\* Every step keeps the types.
LEMMA TypeStep ==
    ASSUME TypeOK, OnlyValid, LocksInv, EntriesInv, TargetInv, [Next]_vars
    PROVE  TypeOK'
<1>1. ASSUME NEW t \in Thread, NEW b \in Block, ProcessNewBlock_known(t, b)
      PROVE  TypeOK'
  BY <1>1 DEF TypeOK, ProcessNewBlock_known, entries, locals
<1>2. ASSUME NEW t \in Thread, NEW b \in Block, ProcessNewBlock_invalid(t, b)
      PROVE  TypeOK'
  <2>1. Descendants(b) \subseteq Block
    BY DEF TypeOK, Descendants
  <2> QED
    BY <1>2, <2>1 DEF TypeOK, ProcessNewBlock_invalid, locals
<1>3. ASSUME NEW t \in Thread, NEW b \in Block, ProcessNewBlock_unwritten(t, b)
      PROVE  TypeOK'
  BY <1>3 DEF TypeOK, ProcessNewBlock_unwritten, entries, locals
<1>4. ASSUME NEW t \in Thread, NEW b \in Block, ProcessNewBlock_stored(t, b)
      PROVE  TypeOK'
  <2>1. /\ nextSeq' \in Nat /\ seq' \in [Block -> Nat] /\ unlinked' \subseteq Block
        /\ linked' \subseteq Block /\ cand' \subseteq Block
    BY <1>4, StoredFacts, Zenon DEF TypeOK
  <2> QED
    BY <1>4, <2>1, Zenon DEF TypeOK, ProcessNewBlock_stored, locals
<1>5. ASSUME NEW t \in Thread, ActivateBestChain_enter(t)
      PROVE  TypeOK'
  BY <1>5 DEF TypeOK, ActivateBestChain_enter, entries, locals
<1>6. ASSUME NEW t \in Thread, ActivateBestChain_lock(t)
      PROVE  TypeOK'
  BY <1>6, Zenon DEF TypeOK, ActivateBestChain_lock, entries, locals
<1>7. ASSUME NEW t \in Thread, ActivateBestChain_choose(t)
      PROVE  TypeOK'
  <2>1. /\ unlinked' \subseteq Block /\ cand' \subseteq Block /\ failed' \subseteq Block
        /\ most' \in Block \cup {Nil}
        /\ pc' = [pc EXCEPT ![t] = "leave"] \/ pc' = [pc EXCEPT ![t] = "step"]
    BY <1>7, ChooseFacts, Zenon DEF TypeOK
  <2>2. old' \in {old, tip}
    BY <1>7 DEF ActivateBestChain_choose
  <2> QED
    BY <1>7, <2>1, <2>2, Zenon DEF TypeOK, ActivateBestChain_choose
<1>8. ASSUME NEW t \in Thread, DisconnectTip(t)
      PROVE  TypeOK'
  <2>1. tip' \in Block /\ told' \in Block
    BY <1>8, DisconnectTipFacts, Zenon DEF TypeOK, DisconnectTip
  <2>2. UNCHANGED <<entries, csMain, mutex, pc, locals, ready, interrupted, broken>>
    BY <1>8 DEF DisconnectTip
  <2> QED
    BY <2>1, <2>2 DEF TypeOK, entries, locals
<1>9. ASSUME NEW t \in Thread, ConnectTip(t)
      PROVE  TypeOK'
  <2>1. /\ tip' \in Block /\ trace' = Append(trace, tip') /\ cand' \subseteq cand
        /\ pc' = [pc EXCEPT ![t] = "stepped"] \/ pc' = [pc EXCEPT ![t] = "step"]
    BY <1>9, ConnectTipFacts, Zenon
  <2>2. trace' \in Seq(Block)
    BY <2>1 DEF TypeOK
  <2> QED
    BY <1>9, <2>1, <2>2, Zenon DEF TypeOK, ConnectTip
<1>10. ASSUME NEW t \in Thread, ConnectTip_invalid(t)
       PROVE  TypeOK'
  <2>1. NextBlock \in Block
    BY <1>10, NextBlockIsChild, Zenon DEF ConnectTip_invalid
  <2>2. Descendants(NextBlock) \subseteq Block
    BY <2>1, Zenon DEF TypeOK, Descendants
  <2>3. cand' \subseteq cand
    BY <1>10, ErasuresFacts, Zenon DEF ConnectTip_invalid
  <2> QED
    BY <1>10, <2>2, <2>3, Zenon DEF TypeOK, ConnectTip_invalid
<1>11. ASSUME NEW t \in Thread, SystemError(t)
       PROVE  TypeOK'
  <2>1. trace' = <<>> /\ trace' \in Seq(Block)
    BY <1>11 DEF SystemError
  <2> QED
    BY <1>11, <2>1, Zenon DEF TypeOK, SystemError, entries
<1>12. ASSUME NEW t \in Thread, ActivateBestChain_stepped(t)
       PROVE  TypeOK'
  <2>1. told' \in Block
    BY <1>12, LastIsBlock DEF TypeOK, ActivateBestChain_stepped
  <2>2. trace' = <<>> /\ trace' \in Seq(Block)
    BY <1>12 DEF ActivateBestChain_stepped
  <2> QED
    BY <1>12, <2>1, <2>2, Zenon DEF TypeOK, ActivateBestChain_stepped, entries
<1>13. ASSUME NEW t \in Thread, ActivateBestChain_unlock(t)
       PROVE  TypeOK'
  BY <1>13, Zenon DEF TypeOK, ActivateBestChain_unlock, entries, locals
<1>14. ASSUME NEW t \in Thread, ActivateBestChain_again(t)
       PROVE  TypeOK'
  BY <1>14, Zenon DEF TypeOK, ActivateBestChain_again, entries, locals
<1>15. ASSUME NEW t \in Thread, Reload(t)
       PROVE  TypeOK'
  <2>1. seq' \in [Block -> Nat] /\ nextSeq' \in Nat
    BY <1>15, Zenon DEF Reload
  <2>2. linked' \subseteq Block /\ unlinked' \subseteq Block /\ failed' \subseteq Block /\ cand' \subseteq Block
    BY <1>15, Zenon DEF TypeOK, Reload
  <2> QED
    BY <1>15, <2>1, <2>2, Zenon DEF TypeOK, Reload, locals
<1>16. ASSUME Interrupt
       PROVE  TypeOK'
  BY <1>16, Zenon DEF TypeOK, Interrupt, entries, locals
<1>17. CASE UNCHANGED vars
  BY <1>17, Zenon DEF TypeOK, vars, entries, locals
<1> QED
  BY <1>1, <1>2, <1>3, <1>4, <1>5, <1>6, <1>7, <1>8, <1>9, <1>10, <1>11,
     <1>12, <1>13, <1>14, <1>15, <1>16, <1>17 DEF Next, ProcessNewBlock,
     ActivateBestChain

\* Every step keeps the discipline of the two locks.
LEMMA LocksStep ==
    ASSUME TypeOK, OnlyValid, LocksInv, EntriesInv, TargetInv, [Next]_vars
    PROVE  LocksInv'
<1>1. ASSUME NEW t \in Thread, NEW b \in Block, ProcessNewBlock_known(t, b)
      PROVE  LocksInv'
  BY <1>1, OthersAssumption, Zenon DEF TypeOK, LocksInv, Locked, Active, ProcessNewBlock_known, Enters
<1>2. ASSUME NEW t \in Thread, NEW b \in Block, ProcessNewBlock_invalid(t, b)
      PROVE  LocksInv'
  BY <1>2, OthersAssumption, Zenon DEF TypeOK, LocksInv, Locked, Active, ProcessNewBlock_invalid
<1>3. ASSUME NEW t \in Thread, NEW b \in Block, ProcessNewBlock_unwritten(t, b)
      PROVE  LocksInv'
  BY <1>3, OthersAssumption, Zenon DEF TypeOK, LocksInv, Locked, Active, ProcessNewBlock_unwritten
<1>4. ASSUME NEW t \in Thread, NEW b \in Block, ProcessNewBlock_stored(t, b)
      PROVE  LocksInv'
  BY <1>4, OthersAssumption, Zenon DEF TypeOK, LocksInv, Locked, Active, ProcessNewBlock_stored, Enters
<1>5. ASSUME NEW t \in Thread, ActivateBestChain_enter(t)
      PROVE  LocksInv'
  BY <1>5, OthersAssumption DEF TypeOK, LocksInv, Locked, Active, ActivateBestChain_enter
<1>6. ASSUME NEW t \in Thread, ActivateBestChain_lock(t)
      PROVE  LocksInv'
  BY <1>6, OthersAssumption DEF TypeOK, LocksInv, Locked, Active, ActivateBestChain_lock
<1>7. ASSUME NEW t \in Thread, ActivateBestChain_choose(t)
      PROVE  LocksInv'
  <2>1. /\ pc[t] = "choose" /\ csMain' = csMain /\ mutex' = mutex
        /\ pc' = [pc EXCEPT ![t] = "leave"] \/ pc' = [pc EXCEPT ![t] = "step"]
    BY <1>7 DEF ActivateBestChain_choose
  <2> QED
    BY <2>1 DEF TypeOK, LocksInv, Locked, Active
<1>8. ASSUME NEW t \in Thread, DisconnectTip(t)
      PROVE  LocksInv'
  BY <1>8, OthersAssumption DEF TypeOK, LocksInv, Locked, Active, DisconnectTip
<1>9. ASSUME NEW t \in Thread, ConnectTip(t)
      PROVE  LocksInv'
  <2>1. /\ pc[t] = "step" /\ csMain' = csMain /\ mutex' = mutex
        /\ pc' = [pc EXCEPT ![t] = "stepped"] \/ pc' = [pc EXCEPT ![t] = "step"]
    BY <1>9, Zenon DEF ConnectTip
  <2> QED
    BY <2>1 DEF TypeOK, LocksInv, Locked, Active
<1>10. ASSUME NEW t \in Thread, ConnectTip_invalid(t)
       PROVE  LocksInv'
  BY <1>10, OthersAssumption, Zenon DEF TypeOK, LocksInv, Locked, Active, ConnectTip_invalid
<1>11. ASSUME NEW t \in Thread, SystemError(t)
       PROVE  LocksInv'
  BY <1>11, OthersAssumption, Zenon DEF TypeOK, LocksInv, Locked, Active, SystemError
<1>12. ASSUME NEW t \in Thread, ActivateBestChain_stepped(t)
       PROVE  LocksInv'
  BY <1>12, OthersAssumption DEF TypeOK, LocksInv, Locked, Active, ActivateBestChain_stepped
<1>13. ASSUME NEW t \in Thread, ActivateBestChain_unlock(t)
       PROVE  LocksInv'
  <2>1. /\ pc[t] = "leave" /\ csMain' = Nil
        /\ \A u \in Thread \ {t} : pc'[u] = pc[u]
        /\ \/ pc'[t] = "released" /\ mutex' = mutex
           \/ pc'[t] = "idle" /\ mutex' = Nil
    BY <1>13 DEF TypeOK, ActivateBestChain_unlock
  <2>2. \A u \in Thread : /\ pc[u] \in Locked <=> csMain = u
                          /\ pc[u] \in Active <=> mutex = u
    BY Zenon DEF LocksInv
  <2> QED
    BY ONLY <2>1, <2>2, OthersAssumption, t \in Thread DEF LocksInv, Locked, Active
<1>14. ASSUME NEW t \in Thread, ActivateBestChain_again(t)
       PROVE  LocksInv'
  <2>1. /\ pc[t] = "released" /\ csMain' = csMain
        /\ \A u \in Thread \ {t} : pc'[u] = pc[u]
        /\ \/ pc'[t] = "unlocked" /\ mutex' = mutex
           \/ pc'[t] = "idle" /\ mutex' = Nil
    BY <1>14 DEF TypeOK, ActivateBestChain_again
  <2>2. \A u \in Thread : /\ pc[u] \in Locked <=> csMain = u
                          /\ pc[u] \in Active <=> mutex = u
    BY Zenon DEF LocksInv
  <2> QED
    BY ONLY <2>1, <2>2, OthersAssumption, t \in Thread DEF LocksInv, Locked, Active
<1>15. ASSUME NEW t \in Thread, Reload(t)
       PROVE  LocksInv'
  <2>1. /\ pc[t] = "idle" /\ pc' = [pc EXCEPT ![t] = "accepted"]
        /\ csMain' = csMain /\ mutex' = mutex
    BY <1>15, Zenon DEF Reload
  <2> QED
    BY <2>1, OthersAssumption DEF TypeOK, LocksInv, Locked, Active
<1>16. ASSUME Interrupt
       PROVE  LocksInv'
  BY <1>16, OthersAssumption DEF TypeOK, LocksInv, Locked, Active, Interrupt
<1>17. CASE UNCHANGED vars
  BY <1>17 DEF LocksInv, vars, entries, locals
<1> QED
  BY <1>1, <1>2, <1>3, <1>4, <1>5, <1>6, <1>7, <1>8, <1>9, <1>10, <1>11,
     <1>12, <1>13, <1>14, <1>15, <1>16, <1>17 DEF Next, ProcessNewBlock,
     ActivateBestChain

----------------------------------------------------------------------------
(* Only valid blocks *)

\* Every step keeps invalid blocks off the chain and valid ones unmarked.
LEMMA ValidStep ==
    ASSUME TypeOK, OnlyValid, LocksInv, EntriesInv, TargetInv, [Next]_vars
    PROVE  OnlyValid'
<1>1. ASSUME NEW t \in Thread, NEW b \in Block, ProcessNewBlock_known(t, b)
      PROVE  OnlyValid'
  <2>1. data' = data /\ failed' = failed /\ tip' = tip
    BY <1>1 DEF ProcessNewBlock_known, entries
  <2> QED
    BY <2>1, Zenon DEF OnlyValid, Sound
<1>2. ASSUME NEW t \in Thread, NEW b \in Block, ProcessNewBlock_invalid(t, b)
      PROVE  OnlyValid'
  <2>1. data' = data /\ tip' = tip /\ failed' = failed \cup Descendants(b)
    BY <1>2 DEF ProcessNewBlock_invalid
  <2>2. \A d \in Descendants(b) : b \in Ancestors[d]
    BY DEF Descendants
  <2>3. Verdict[b] # "valid"
    BY <1>2 DEF ProcessNewBlock_invalid
  <2> QED
    BY <2>1, <2>2, <2>3, Zenon DEF OnlyValid, Sound
<1>3. ASSUME NEW t \in Thread, NEW b \in Block, ProcessNewBlock_unwritten(t, b)
      PROVE  OnlyValid'
  <2>1. data' = data /\ failed' = failed /\ tip' = tip
    BY <1>3 DEF ProcessNewBlock_unwritten, entries
  <2> QED
    BY <2>1 DEF OnlyValid, Sound
<1>4. ASSUME NEW t \in Thread, NEW b \in Block, ProcessNewBlock_stored(t, b)
      PROVE  OnlyValid'
  <2>1. data' = data \cup {b} /\ failed' = failed /\ tip' = tip
    BY <1>4 DEF ProcessNewBlock_stored
  <2> QED
    BY <2>1, Zenon DEF OnlyValid, Sound
<1>5. ASSUME NEW t \in Thread, ActivateBestChain_enter(t)
      PROVE  OnlyValid'
  <2>1. data' = data /\ failed' = failed /\ tip' = tip
    BY <1>5 DEF ActivateBestChain_enter, entries
  <2> QED
    BY <2>1 DEF OnlyValid, Sound
<1>6. ASSUME NEW t \in Thread, ActivateBestChain_lock(t)
      PROVE  OnlyValid'
  <2>1. data' = data /\ failed' = failed /\ tip' = tip
    BY <1>6 DEF ActivateBestChain_lock, entries
  <2> QED
    BY <2>1 DEF OnlyValid, Sound
<1>7. ASSUME NEW t \in Thread, ActivateBestChain_choose(t)
      PROVE  OnlyValid'
  <2>1. data' = data /\ tip' = tip
    BY <1>7 DEF ActivateBestChain_choose
  <2>2. \A d \in failed' : d \in failed \/ ~AllValid(d)
    BY <1>7, ChooseFacts
  <2> QED
    BY <2>1, <2>2 DEF OnlyValid, Sound, AllValid
<1>8. ASSUME NEW t \in Thread, DisconnectTip(t)
      PROVE  OnlyValid'
  <2>1. data' = data /\ failed' = failed
    BY <1>8, Zenon DEF DisconnectTip, entries
  <2>2. Ancestors[tip'] \subseteq Ancestors[tip]
    BY <1>8, DisconnectTipFacts
  <2> QED
    BY <2>1, <2>2 DEF OnlyValid, Sound
<1>9. ASSUME NEW t \in Thread, ConnectTip(t)
      PROVE  OnlyValid'
  <2>1. data' = data /\ failed' = failed
    BY <1>9 DEF ConnectTip
  <2>2. Sound(tip')
    BY <1>9, ConnectTipFacts
  <2> QED
    BY <2>1, <2>2, Zenon DEF OnlyValid, Sound
<1>10. ASSUME NEW t \in Thread, ConnectTip_invalid(t)
       PROVE  OnlyValid'
  <2>1. /\ data' = data /\ tip' = tip /\ failed' = failed \cup Descendants(NextBlock)
        /\ Verdict[NextBlock] # "valid"
    BY <1>10 DEF ConnectTip_invalid
  <2>2. \A d \in Descendants(NextBlock) : NextBlock \in Ancestors[d]
    BY DEF Descendants
  <2> QED
    BY <2>1, <2>2 DEF OnlyValid, Sound
<1>11. ASSUME NEW t \in Thread, SystemError(t)
       PROVE  OnlyValid'
  <2>1. data' = data /\ failed' = failed /\ tip' = tip
    BY <1>11 DEF SystemError, entries
  <2> QED
    BY <2>1 DEF OnlyValid, Sound
<1>12. ASSUME NEW t \in Thread, ActivateBestChain_stepped(t)
       PROVE  OnlyValid'
  <2>1. data' = data /\ failed' = failed /\ tip' = tip
    BY <1>12 DEF ActivateBestChain_stepped, entries
  <2> QED
    BY <2>1 DEF OnlyValid, Sound
<1>13. ASSUME NEW t \in Thread, ActivateBestChain_unlock(t)
       PROVE  OnlyValid'
  <2>1. data' = data /\ failed' = failed /\ tip' = tip
    BY <1>13 DEF ActivateBestChain_unlock, entries
  <2> QED
    BY <2>1 DEF OnlyValid, Sound
<1>14. ASSUME NEW t \in Thread, ActivateBestChain_again(t)
       PROVE  OnlyValid'
  <2>1. data' = data /\ failed' = failed /\ tip' = tip
    BY <1>14 DEF ActivateBestChain_again, entries
  <2> QED
    BY <2>1 DEF OnlyValid, Sound
<1>15. ASSUME NEW t \in Thread, Reload(t)
       PROVE  OnlyValid'
  <2>1. /\ data' = data /\ tip' = tip
        /\ failed' = {d \in index : Ancestors[d] \cap failed # {}}
    BY <1>15, Zenon DEF Reload
  <2>2. ASSUME NEW d \in failed'
        PROVE  \E a \in Ancestors[d] : Verdict[a] # "valid"
    <3>1. PICK c \in Ancestors[d] : c \in failed
      BY <2>1
    <3>2. d \in Block
      BY <2>1, Zenon DEF TypeOK
    <3>3. Ancestors[c] \subseteq Ancestors[d]
      BY <3>1, <3>2, AncestorsTransitive
    <3> QED
      BY <3>1, <3>3 DEF OnlyValid
  <2> QED
    BY <2>1, <2>2, Zenon DEF OnlyValid, Sound
<1>16. ASSUME Interrupt
       PROVE  OnlyValid'
  <2>1. data' = data /\ failed' = failed /\ tip' = tip
    BY <1>16 DEF Interrupt, entries
  <2> QED
    BY <2>1 DEF OnlyValid, Sound
<1>17. CASE UNCHANGED vars
  BY <1>17, Zenon DEF OnlyValid, Sound, vars, entries
<1> QED
  BY <1>1, <1>2, <1>3, <1>4, <1>5, <1>6, <1>7, <1>8, <1>9, <1>10, <1>11,
     <1>12, <1>13, <1>14, <1>15, <1>16, <1>17 DEF Next, ProcessNewBlock,
     ActivateBestChain

\* EntriesInv survives steps that only take candidates away.
LEMMA EntriesKept ==
    ASSUME EntriesInv, index' = index, data' = data, linked' = linked,
           unlinked' = unlinked, cand' \subseteq cand
    PROVE  EntriesInv'
  BY Zenon DEF EntriesInv, Sound, AllValid

\* Every step keeps the entries in order.
LEMMA EntriesStep ==
    ASSUME TypeOK, OnlyValid, LocksInv, EntriesInv, TargetInv, [Next]_vars
    PROVE  EntriesInv'
<1>1. ASSUME NEW t \in Thread, NEW b \in Block, ProcessNewBlock_known(t, b)
      PROVE  EntriesInv'
  BY <1>1, EntriesKept DEF ProcessNewBlock_known, entries
<1>2. ASSUME NEW t \in Thread, NEW b \in Block, ProcessNewBlock_invalid(t, b)
      PROVE  EntriesInv'
  <2>1. /\ index' = index \cup {b} /\ data' = data /\ linked' = linked
        /\ unlinked' = unlinked /\ cand' \subseteq cand /\ Verdict[b] # "badHeader"
    BY <1>2 DEF ProcessNewBlock_invalid
  <2> QED
    BY <2>1, Zenon DEF EntriesInv, Sound, AllValid
<1>3. ASSUME NEW t \in Thread, NEW b \in Block, ProcessNewBlock_unwritten(t, b)
      PROVE  EntriesInv'
  <2>1. /\ index' = index \cup {b} /\ data' = data /\ linked' = linked
        /\ unlinked' = unlinked /\ cand' = cand
    BY <1>3 DEF ProcessNewBlock_unwritten
  <2>2. Verdict[b] # "badHeader"
    BY <1>3, EntryAssumption, Zenon DEF ProcessNewBlock_unwritten, Enters, HeaderAccepted, EntriesInv
  <2> QED
    BY <2>1, <2>2, Zenon DEF EntriesInv, Sound, AllValid
<1>4. ASSUME NEW t \in Thread, NEW b \in Block, ProcessNewBlock_stored(t, b)
      PROVE  EntriesInv'
  BY <1>4, StoredFacts
<1>5. ASSUME NEW t \in Thread, ActivateBestChain_enter(t)
      PROVE  EntriesInv'
  BY <1>5, EntriesKept DEF ActivateBestChain_enter, entries
<1>6. ASSUME NEW t \in Thread, ActivateBestChain_lock(t)
      PROVE  EntriesInv'
  BY <1>6, EntriesKept DEF ActivateBestChain_lock, entries
<1>7. ASSUME NEW t \in Thread, ActivateBestChain_choose(t)
      PROVE  EntriesInv'
  <2>1. unlinked' = unlinked /\ cand' \subseteq cand
    BY <1>7, ChooseFacts
  <2> QED
    BY <1>7, <2>1, EntriesKept, Zenon DEF ActivateBestChain_choose
<1>8. ASSUME NEW t \in Thread, DisconnectTip(t)
      PROVE  EntriesInv'
  BY <1>8, EntriesKept, Zenon DEF DisconnectTip, entries
<1>9. ASSUME NEW t \in Thread, ConnectTip(t)
      PROVE  EntriesInv'
  <2>1. cand' \subseteq cand
    BY <1>9, ConnectTipFacts, Zenon
  <2> QED
    BY <1>9, <2>1, EntriesKept, Zenon DEF ConnectTip
<1>10. ASSUME NEW t \in Thread, ConnectTip_invalid(t)
       PROVE  EntriesInv'
  <2>1. cand' \subseteq cand
    BY <1>10, ErasuresFacts, Zenon DEF ConnectTip_invalid
  <2> QED
    BY <1>10, <2>1, EntriesKept, Zenon DEF ConnectTip_invalid
<1>11. ASSUME NEW t \in Thread, SystemError(t)
       PROVE  EntriesInv'
  BY <1>11, EntriesKept DEF SystemError, entries
<1>12. ASSUME NEW t \in Thread, ActivateBestChain_stepped(t)
       PROVE  EntriesInv'
  BY <1>12, EntriesKept DEF ActivateBestChain_stepped, entries
<1>13. ASSUME NEW t \in Thread, ActivateBestChain_unlock(t)
       PROVE  EntriesInv'
  BY <1>13, EntriesKept DEF ActivateBestChain_unlock, entries
<1>14. ASSUME NEW t \in Thread, ActivateBestChain_again(t)
       PROVE  EntriesInv'
  BY <1>14, EntriesKept DEF ActivateBestChain_again, entries
<1>15. ASSUME NEW t \in Thread, Reload(t)
       PROVE  EntriesInv'
  <2> DEFINE whole == {d \in data : Ancestors[d] \subseteq data}
  <2>1. /\ index' = index /\ data' = data /\ linked' = whole
        /\ unlinked' = {d \in data \ {Genesis} : Parent[d] \notin whole}
        /\ cand' \subseteq whole
    BY <1>15, Zenon DEF Reload
  <2>2. data \subseteq Block
    BY DEF TypeOK
  <2>3. ASSUME NEW d \in data
        PROVE  d \in whole <=> d \notin unlinked'
    <3>1. CASE d = Genesis
      BY <2>1, <3>1, AncestorsOfGenesis
    <3>2. CASE d # Genesis
      <4>1. /\ Parent[d] \in Block /\ Ancestors[d] = {d} \cup Ancestors[Parent[d]]
            /\ Parent[d] \in Ancestors[Parent[d]]
        BY <2>2, <3>2, AncestorsOfChild, AncestorsClosed
      <4> QED
        BY <2>1, <3>2, <4>1
    <3> QED
      BY <3>1, <3>2
  <2>4. \A d \in Block : Sound(d)' => d \in whole
    BY <2>1, AncestorsClosed, Zenon DEF Sound
  <2>5. unlinked' \subseteq data
    BY <2>1
  <2>6. \A d \in whole : d \in data /\ Ancestors[d] \subseteq data
    OBVIOUS
  <2> HIDE DEF whole
  <2>7. unlinked' \subseteq data \ whole /\ \A d \in data : d \in whole \cup unlinked'
    BY <2>3, <2>5
  <2> QED
    BY <2>1, <2>4, <2>6, <2>7, Zenon DEF EntriesInv
<1>16. ASSUME Interrupt
       PROVE  EntriesInv'
  BY <1>16, EntriesKept DEF Interrupt, entries
<1>17. CASE UNCHANGED vars
  BY <1>17, EntriesKept, Zenon DEF vars, entries
<1> QED
  BY <1>1, <1>2, <1>3, <1>4, <1>5, <1>6, <1>7, <1>8, <1>9, <1>10, <1>11,
     <1>12, <1>13, <1>14, <1>15, <1>16, <1>17 DEF Next, ProcessNewBlock,
     ActivateBestChain

----------------------------------------------------------------------------
(* pindexMostWork *)

\* Every step keeps pindexMostWork on a stored chain through the tip.
LEMMA TargetStep ==
    ASSUME TypeOK, OnlyValid, LocksInv, EntriesInv, TargetInv, [Next]_vars
    PROVE  TargetInv'
<1>1. ASSUME NEW t \in Thread, NEW b \in Block, ProcessNewBlock_known(t, b)
      PROVE  TargetInv'
  <2>1. /\ pc[t] = "idle" /\ data \subseteq data' /\ linked \subseteq linked'
        /\ most' = most /\ start' = start /\ tip' = tip /\ mutex' = mutex
        /\ pc' = [pc EXCEPT ![t] = "accepted"] \/ pc' = pc
    BY <1>1, Zenon DEF ProcessNewBlock_known, Enters, entries, locals
  <2> QED
    BY <2>1, Zenon DEF TypeOK, TargetInv, Locked, Active, Sound
<1>2. ASSUME NEW t \in Thread, NEW b \in Block, ProcessNewBlock_invalid(t, b)
      PROVE  TargetInv'
  <2>1. /\ pc[t] = "idle" /\ data \subseteq data' /\ linked \subseteq linked'
        /\ most' = most /\ start' = start /\ tip' = tip /\ mutex' = mutex
        /\ pc' = [pc EXCEPT ![t] = "accepted"] \/ pc' = pc
    BY <1>2, Zenon DEF ProcessNewBlock_invalid, Enters, entries, locals
  <2> QED
    BY <2>1, Zenon DEF TypeOK, TargetInv, Locked, Active, Sound
<1>3. ASSUME NEW t \in Thread, NEW b \in Block, ProcessNewBlock_unwritten(t, b)
      PROVE  TargetInv'
  <2>1. /\ pc[t] = "idle" /\ data \subseteq data' /\ linked \subseteq linked'
        /\ most' = most /\ start' = start /\ tip' = tip /\ mutex' = mutex
        /\ pc' = [pc EXCEPT ![t] = "accepted"] \/ pc' = pc
    BY <1>3, Zenon DEF ProcessNewBlock_unwritten, Enters, entries, locals
  <2> QED
    BY <2>1, Zenon DEF TypeOK, TargetInv, Locked, Active, Sound
<1>4. ASSUME NEW t \in Thread, NEW b \in Block, ProcessNewBlock_stored(t, b)
      PROVE  TargetInv'
  <2>1. linked \subseteq linked'
    BY <1>4, StoredFacts
  <2>2. /\ pc[t] = "idle" /\ data \subseteq data'
        /\ most' = most /\ start' = start /\ tip' = tip /\ mutex' = mutex
        /\ pc' = [pc EXCEPT ![t] = "accepted"]
    BY <1>4 DEF ProcessNewBlock_stored, Enters, locals
  <2> QED
    BY <2>1, <2>2, Zenon DEF TypeOK, TargetInv, Locked, Active, Sound
<1>5. ASSUME NEW t \in Thread, ActivateBestChain_enter(t)
      PROVE  TargetInv'
  BY <1>5, Zenon DEF TypeOK, TargetInv, Locked, Active, Sound, ActivateBestChain_enter, entries
<1>6. ASSUME NEW t \in Thread, ActivateBestChain_lock(t)
      PROVE  TargetInv'
  <2>1. Sound(tip) /\ tip \in Block
    BY Zenon DEF OnlyValid, TypeOK
  <2> QED
    BY <1>6, <2>1, OneThread, Zenon DEF TypeOK, TargetInv, Locked, Active, Sound, ActivateBestChain_lock, entries
<1>7. ASSUME NEW t \in Thread, ActivateBestChain_choose(t)
      PROVE  TargetInv'
  <2>1. /\ data' = data /\ linked' = linked /\ tip' = tip /\ start' = start /\ mutex' = mutex
        /\ pc[t] = "choose"
    BY <1>7, Zenon DEF ActivateBestChain_choose
  <2>2. most' \in cand \cup {most, Nil}
    BY <1>7, ChooseFacts
  <2>3. most' # Nil => most' \in linked'
    BY <2>1, <2>2, Zenon DEF EntriesInv, TargetInv
  <2>4. \/ most' \in {Nil, tip} /\ pc' = [pc EXCEPT ![t] = "leave"]
        \/ most' \notin {Nil, tip} /\ pc' = [pc EXCEPT ![t] = "step"]
    BY <1>7, ChooseFacts
  <2>5. \A u \in Thread \ {t} : pc[u] \notin Active
    BY <2>1, OneThread DEF Locked
  <2>6. tip \in Ancestors[tip]
    BY AncestorsClosed, Zenon DEF TypeOK
  <2>7. mutex = t
    BY <2>1, OneThread DEF Locked
  <2> QED
    BY <2>1, <2>3, <2>4, <2>5, <2>6, <2>7, OthersAssumption, Zenon DEF TypeOK, TargetInv, Locked, Active, Sound
<1>8. ASSUME NEW t \in Thread, DisconnectTip(t)
      PROVE  TargetInv'
  <2>1. \A u \in Thread \ {t} : pc[u] \notin Active
    BY <1>8, OneThread, Zenon DEF Locked, DisconnectTip
  <2> QED
    BY <1>8, <2>1, Zenon DEF TypeOK, TargetInv, Locked, Active, Sound, DisconnectTip, entries, locals
<1>9. ASSUME NEW t \in Thread, ConnectTip(t)
      PROVE  TargetInv'
  <2>1. \A u \in Thread \ {t} : pc[u] \notin Active
    BY <1>9, OneThread, Zenon DEF Locked, ConnectTip
  <2>2. /\ tip' \in Ancestors[most]
        /\ pc' = [pc EXCEPT ![t] = "stepped"] \/ pc' = [pc EXCEPT ![t] = "step"]
    BY <1>9, ConnectTipFacts, Zenon
  <2>3. /\ data' = data /\ linked' = linked /\ most' = most /\ start' = start /\ mutex' = mutex
        /\ pc[t] = "step"
    BY <1>9, Zenon DEF ConnectTip
  <2> QED
    BY <2>1, <2>2, <2>3, Zenon DEF TypeOK, TargetInv, Locked, Active, Sound
<1>10. ASSUME NEW t \in Thread, ConnectTip_invalid(t)
       PROVE  TargetInv'
  <2>1. \A u \in Thread \ {t} : pc[u] \notin Active
    BY <1>10, OneThread, Zenon DEF Locked, ConnectTip_invalid
  <2> QED
    BY <1>10, <2>1, Zenon DEF TypeOK, TargetInv, Locked, Active, Sound, ConnectTip_invalid
<1>11. ASSUME NEW t \in Thread, SystemError(t)
       PROVE  TargetInv'
  <2>1. \A u \in Thread \ {t} : pc[u] \notin Active
    <3>1. pc[t] \in Active
      BY <1>11 DEF SystemError, Active, Locked
    <3> QED
      BY <3>1, OthersAssumption, Zenon DEF LocksInv
  <2> QED
    BY <1>11, <2>1, Zenon DEF TypeOK, TargetInv, Locked, Active, Sound, SystemError, entries
<1>12. ASSUME NEW t \in Thread, ActivateBestChain_stepped(t)
       PROVE  TargetInv'
  <2>1. tip = most => tip \in Ancestors[most]
    BY AncestorsClosed, Zenon DEF TypeOK
  <2> QED
    BY <1>12, <2>1, Zenon DEF TypeOK, TargetInv, Locked, Active, Sound, ActivateBestChain_stepped, entries
<1>13. ASSUME NEW t \in Thread, ActivateBestChain_unlock(t)
       PROVE  TargetInv'
  <2>1. \A u \in Thread \ {t} : pc[u] \notin Active
    BY <1>13, OneThread DEF Locked, ActivateBestChain_unlock
  <2> QED
    <3>1. /\ pc[t] = "leave" /\ linked' = linked /\ tip' = tip
          /\ \A u \in Thread \ {t} : pc'[u] = pc[u]
          /\ pc'[t] \in {"idle", "released"}
          /\ pc'[t] # "idle" => most' = most /\ mutex' = mutex
          /\ pc'[t] = "idle" => most' = Nil
      BY <1>13 DEF TypeOK, ActivateBestChain_unlock, entries
    <3>2. mutex = Nil => most = Nil
      BY Zenon DEF TargetInv
    <3>3. /\ most # Nil => most \in linked
          /\ pc[t] \in Active \ {"step"} /\ most # Nil => tip \in Ancestors[most]
      BY Zenon DEF TargetInv
    <3> QED
      BY ONLY <2>1, <3>1, <3>2, <3>3 DEF TargetInv, Locked, Active
<1>14. ASSUME NEW t \in Thread, ActivateBestChain_again(t)
       PROVE  TargetInv'
  <2>1. \A u \in Thread \ {t} : pc[u] \notin Active
    BY <1>14 DEF LocksInv, Active, ActivateBestChain_again
  <2> QED
    <3>1. /\ pc[t] = "released" /\ linked' = linked /\ tip' = tip
          /\ \A u \in Thread \ {t} : pc'[u] = pc[u]
          /\ pc'[t] \in {"idle", "unlocked"}
          /\ pc'[t] # "idle" => most' = most /\ mutex' = mutex
          /\ pc'[t] = "idle" => most' = Nil
      BY <1>14 DEF TypeOK, ActivateBestChain_again, entries
    <3>2. mutex = Nil => most = Nil
      BY Zenon DEF TargetInv
    <3>3. /\ most # Nil => most \in linked
          /\ pc[t] \in Active \ {"step"} /\ most # Nil => tip \in Ancestors[most]
      BY Zenon DEF TargetInv
    <3> QED
      BY ONLY <2>1, <3>1, <3>2, <3>3 DEF TargetInv, Locked, Active
<1>15. ASSUME NEW t \in Thread, Reload(t)
       PROVE  TargetInv'
  <2>1. mutex = Nil
    BY <1>15, Zenon DEF Reload, LocksInv, Active, Locked, TypeOK
  <2>2. /\ most' = most /\ mutex' = mutex /\ pc' = [pc EXCEPT ![t] = "accepted"]
        /\ \A u \in Thread : pc[u] = "idle"
    BY <1>15, Zenon DEF Reload, locals
  <2> QED
    BY <2>1, <2>2, Zenon DEF TypeOK, TargetInv, Active, Locked
<1>16. ASSUME Interrupt
       PROVE  TargetInv'
  BY <1>16, Zenon DEF TypeOK, TargetInv, Locked, Active, Sound, Interrupt, entries, locals
<1>17. CASE UNCHANGED vars
  BY <1>17, Zenon DEF TargetInv, Sound, Locked, Active, vars, entries, locals
<1> QED
  BY <1>1, <1>2, <1>3, <1>4, <1>5, <1>6, <1>7, <1>8, <1>9, <1>10, <1>11,
     <1>12, <1>13, <1>14, <1>15, <1>16, <1>17, Zenon DEF Next, ProcessNewBlock,
     ActivateBestChain

============================================================================
