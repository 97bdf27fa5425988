------------------------- MODULE BestChainProgress -------------------------
(* That the steps of BestChain keep what can still be chosen among the      *)
(* candidates, and the collected events in line with the tip.               *)
EXTENDS BestChainSteps

----------------------------------------------------------------------------
(* Progress *)

\* The tip is linked and has not failed, and the same goes for starting_tip.
LEMMA TipIsLinked ==
    ASSUME TypeOK, OnlyValid, EntriesInv, NEW b \in Block, Sound(b)
    PROVE  b \in linked \ failed
  BY SoundIsUsable DEF EntriesInv, Sound, AllValid

\* While a thread chooses, starting_tip is one of the candidates it has.
LEMMA StartIsCandidate ==
    ASSUME TypeOK, OnlyValid, LocksInv, EntriesInv, TargetInv, ProgressInv, ~broken,
           NEW t \in Thread, pc[t] = "choose"
    PROVE  start \in cand /\ ~Hopeless(start)
<1>1. start \in Block /\ Sound(start) /\ csMain # Nil
  BY OneThread, OthersAssumption DEF TargetInv, Locked
<1>2. start \in linked \ failed
  BY <1>1, TipIsLinked
<1>3. ~Worse(start, start)
  BY <1>1, OrderIsStrict DEF Worse, TypeOK
<1>4. start \in cand
  BY <1>1, <1>2, <1>3 DEF ProgressInv
<1> QED
  BY <1>1, <1>4, SoundIsUsable DEF Sound, AllValid

\* A step that takes no candidate in and leaves the order and the locks alone.
LEMMA LoadedKept ==
    ASSUME LoadedInv, cand' \subseteq cand, seq' = seq, nextSeq' = nextSeq,
           broken' = broken, csMain' = csMain, start' = start,
           csMain = Nil => tip' = tip
    PROVE  LoadedInv'
  BY Zenon DEF LoadedInv, Worse

\* Every step keeps a tip that was loaded no better than the chain.
LEMMA LoadedStep ==
    ASSUME TypeOK, OnlyValid, LocksInv, EntriesInv, TargetInv, LoadedInv, ProgressInv,
           [Next]_vars
    PROVE  LoadedInv'
<1>1. ASSUME NEW t \in Thread, NEW b \in Block,
             \/ ProcessNewBlock_known(t, b) \/ ProcessNewBlock_invalid(t, b)
             \/ ProcessNewBlock_unwritten(t, b)
      PROVE  LoadedInv'
  BY <1>1, LoadedKept, Zenon
  DEF ProcessNewBlock_known, ProcessNewBlock_invalid, ProcessNewBlock_unwritten,
      entries, locals
<1>2. ASSUME NEW t \in Thread, NEW b \in Block, ProcessNewBlock_stored(t, b)
      PROVE  LoadedInv'
  <2>1. PICK D \in SUBSET Block :
            /\ D \cap linked = {}
            /\ linked' = linked \cup D
            /\ cand' = cand \cup {d \in D : ~SortsBefore(seq', d, tip)}
            /\ \A c \in Block \ D : seq'[c] = seq[c]
    BY <1>2, StoredFacts
  <2>2. /\ csMain = Nil /\ csMain' = Nil /\ tip' = tip /\ broken' = broken
        /\ tip \in linked /\ cand \subseteq linked /\ linked \subseteq Block
    <3>1. tip \in Block /\ Sound(tip)
      BY Zenon DEF TypeOK, OnlyValid
    <3>2. tip \in linked
      BY <3>1, TipIsLinked
    <3> QED
      BY <1>2, <3>2, Zenon DEF ProcessNewBlock_stored, Enters, EntriesInv, TypeOK
  <2>3. nextSeq' > 0 /\ \A d \in D : seq'[d] # 0
    <3>1. /\ nextSeq \in Nat /\ nextSeq' \in Nat /\ nextSeq > 0
          /\ seq' \in [Block -> Nat]
      BY <1>2, StoredFacts DEF TypeOK, LoadedInv
    <3>2. nextSeq' >= nextSeq /\ \A d \in linked' \ linked : seq'[d] >= nextSeq
      BY <1>2, StoredNumbers
    <3>3. \A d \in D : seq'[d] >= nextSeq
      BY <2>1, <3>2
    <3> QED
      BY <3>1, <3>2, <3>3
  <2>4. ASSUME NEW s \in cand', seq'[s] = 0, ~broken
        PROVE  ~SortsBefore(seq', tip, s)
    <3>1. s \in cand
      BY <2>1, <2>3, <2>4
    <3>2. seq'[s] = seq[s] /\ seq'[tip] = seq[tip]
      BY <2>1, <2>2, <3>1, Zenon
    <3>3. ~SortsBefore(seq, tip, s)
      BY <2>2, <2>4, <3>1, <3>2 DEF LoadedInv, Worse
    <3> QED
      BY <3>2, <3>3, Zenon DEF SortsBefore
  <2> QED
    BY <2>2, <2>3, <2>4, Zenon DEF LoadedInv, Worse
<1>3. ASSUME NEW t \in Thread, ActivateBestChain_lock(t)
      PROVE  LoadedInv'
  <2>1. /\ csMain = Nil /\ start' = tip /\ cand' = cand /\ seq' = seq
        /\ nextSeq' = nextSeq /\ broken' = broken /\ csMain' = t
    BY <1>3 DEF ActivateBestChain_lock, entries
  <2> QED
    BY <2>1, OthersAssumption, Zenon DEF LoadedInv, Worse
<1>4. ASSUME NEW t \in Thread, ActivateBestChain_choose(t)
      PROVE  LoadedInv'
  <2>1. cand' \subseteq cand
    BY <1>4, ChooseFacts, Zenon
  <2> QED
    BY <1>4, <2>1, LoadedKept, Zenon DEF ActivateBestChain_choose
<1>5. ASSUME NEW t \in Thread, DisconnectTip(t) \/ ConnectTip(t) \/ ConnectTip_invalid(t)
      PROVE  LoadedInv'
  <2>1. pc[t] = "step"
    BY <1>5, Zenon DEF DisconnectTip, ConnectTip, ConnectTip_invalid
  <2>2. csMain # Nil
    BY <2>1, OneThread, OthersAssumption DEF Locked
  <2>3. cand' \subseteq cand
    BY <1>5, ConnectTipFacts, ErasuresFacts, Zenon
    DEF DisconnectTip, ConnectTip_invalid, entries
  <2>4. /\ seq' = seq /\ nextSeq' = nextSeq /\ broken' = broken
        /\ csMain' = csMain /\ start' = start
    BY <1>5, Zenon DEF DisconnectTip, ConnectTip, ConnectTip_invalid, entries, locals
  <2> QED
    BY <2>2, <2>3, <2>4, LoadedKept
<1>6. ASSUME NEW t \in Thread, SystemError(t)
      PROVE  LoadedInv'
  BY <1>6 DEF SystemError, LoadedInv, entries
<1>7. ASSUME NEW t \in Thread, ActivateBestChain_unlock(t)
      PROVE  LoadedInv'
  <2> SUFFICES ASSUME ~broken PROVE LoadedInv'
    BY <1>7 DEF ActivateBestChain_unlock, LoadedInv, entries
  <2>1. /\ pc[t] = "leave" /\ csMain' = Nil /\ tip' = tip /\ cand' = cand
        /\ seq' = seq /\ nextSeq' = nextSeq
    BY <1>7 DEF ActivateBestChain_unlock, entries
  <2>2. csMain # Nil /\ start \in Block
    BY <2>1, OneThread, OthersAssumption, Zenon DEF Locked, TargetInv
  <2>3. /\ tip \in Block /\ cand \subseteq Block /\ seq \in [Block -> Nat]
    BY DEF TypeOK
  <2>4. ~SortsBefore(seq, tip, start)
    BY <2>1, Zenon DEF ProgressInv, Worse
  <2>5. ASSUME NEW s \in cand, seq[s] = 0
        PROVE  ~SortsBefore(seq, tip, s)
    <3>1. ~SortsBefore(seq, start, s)
      BY <2>2, <2>5 DEF LoadedInv, Worse
    <3> QED
      BY <2>2, <2>3, <2>4, <3>1, OrderIsNegativelyTransitive
  <2> QED
    BY <2>1, <2>5, Zenon DEF LoadedInv, Worse
<1>8. ASSUME NEW t \in Thread,
             \/ ActivateBestChain_enter(t) \/ ActivateBestChain_stepped(t)
             \/ ActivateBestChain_again(t)
      PROVE  LoadedInv'
  BY <1>8, LoadedKept, Zenon
  DEF ActivateBestChain_enter, ActivateBestChain_stepped, ActivateBestChain_again,
      entries
<1>9. ASSUME NEW t \in Thread, Reload(t)
      PROVE  LoadedInv'
  <2>1. csMain = Nil /\ csMain' = Nil /\ tip' = tip
    BY <1>9, Zenon DEF Reload, LocksInv, Locked, TypeOK
  <2>2. nextSeq' > 0
    <3>1. nextSeq' = 2
      BY <1>9, Zenon DEF Reload
    <3> QED
      BY <3>1
  <2>3. /\ seq' = [b \in Block |-> IF b \in Ancestors[tip] THEN 0 ELSE 1]
        /\ cand' \subseteq data
    BY <1>9, Zenon DEF Reload
  <2>4. /\ seq' \in [Block -> Nat] /\ tip \in Block /\ data \subseteq Block
    BY <2>3 DEF TypeOK
  <2>5. ASSUME NEW s \in cand', seq'[s] = 0
        PROVE  ~SortsBefore(seq', tip, s)
    <3>1. s \in Ancestors[tip]
      BY <2>3, <2>4, <2>5
    <3> QED
      BY <2>4, <3>1, AncestorsWorse
  <2> QED
    BY <2>1, <2>2, <2>5, Zenon DEF LoadedInv, Worse
<1>10. CASE Interrupt \/ UNCHANGED vars
  BY <1>10, LoadedKept, Zenon DEF Interrupt, vars, entries, locals
<1> QED
  BY <1>1, <1>2, <1>3, <1>4, <1>5, <1>6, <1>7, <1>8, <1>9, <1>10, Zenon
  DEF Next, ProcessNewBlock, ActivateBestChain

\* Every step keeps what is no worse within reach.
LEMMA ProgressStep ==
    ASSUME TypeOK, OnlyValid, LocksInv, EntriesInv, TargetInv, LoadedInv, ProgressInv,
           [Next]_vars
    PROVE  ProgressInv'
<1>1. ASSUME NEW t \in Thread, NEW b \in Block, ProcessNewBlock_known(t, b)
      PROVE  ProgressInv'
  <2>1. /\ csMain = Nil /\ csMain' = Nil /\ pc[t] = "idle"
        /\ linked' = linked /\ tip' = tip /\ seq' = seq /\ broken' = broken
        /\ failed' = failed /\ cand' = cand
        /\ pc' = [pc EXCEPT ![t] = "accepted"] \/ pc' = pc
    BY <1>1 DEF ProcessNewBlock_known, Enters, entries, locals
  <2>2. \A u \in Thread : pc'[u] \notin Locked
    BY <2>1, OneThread DEF TypeOK, Locked
  <2> QED
    BY <2>1, <2>2 DEF ProgressInv, Worse, Locked
<1>2. ASSUME NEW t \in Thread, NEW b \in Block, ProcessNewBlock_invalid(t, b)
      PROVE  ProgressInv'
  <2>1. /\ csMain = Nil /\ csMain' = Nil /\ pc' = pc
        /\ linked' = linked /\ tip' = tip /\ seq' = seq /\ broken' = broken
        /\ failed' = failed \cup Descendants(b) /\ cand' = cand \ {b}
    BY <1>2 DEF ProcessNewBlock_invalid, Enters, locals
  <2>2. \A u \in Thread : pc'[u] \notin Locked
    BY <2>1, OneThread
  <2>3. b \in Descendants(b)
    BY AncestorsClosed DEF Descendants
  <2> QED
    BY <2>1, <2>2, <2>3 DEF ProgressInv, Worse, Locked
<1>3. ASSUME NEW t \in Thread, NEW b \in Block, ProcessNewBlock_unwritten(t, b)
      PROVE  ProgressInv'
  <2>1. /\ csMain = Nil /\ csMain' = Nil /\ pc[t] = "idle"
        /\ linked' = linked /\ tip' = tip /\ seq' = seq /\ broken' = broken
        /\ failed' = failed /\ cand' = cand
        /\ pc' = [pc EXCEPT ![t] = "accepted"] \/ pc' = pc
    BY <1>3 DEF ProcessNewBlock_unwritten, Enters, entries, locals
  <2>2. \A u \in Thread : pc'[u] \notin Locked
    BY <2>1, OneThread DEF TypeOK, Locked
  <2> QED
    BY <2>1, <2>2 DEF ProgressInv, Worse, Locked
<1>4. ASSUME NEW t \in Thread, NEW b \in Block, ProcessNewBlock_stored(t, b)
      PROVE  ProgressInv'
  <2>1. /\ csMain = Nil /\ csMain' = Nil /\ pc[t] = "idle"
        /\ tip' = tip /\ broken' = broken /\ failed' = failed
        /\ pc' = [pc EXCEPT ![t] = "accepted"]
    BY <1>4 DEF ProcessNewBlock_stored, Enters
  <2>2. \A u \in Thread : pc'[u] \notin Locked
    BY <2>1, OneThread DEF TypeOK, Locked
  <2>3. PICK D \in SUBSET Block :
                 /\ D \cap linked = {}
                 /\ linked' = linked \cup D
                 /\ cand' = cand \cup {d \in D : ~SortsBefore(seq', d, tip)}
                 /\ \A c \in Block \ D : seq'[c] = seq[c]
    BY <1>4, StoredFacts
  <2>4. tip \in linked /\ tip \in Block /\ linked \subseteq Block
    BY TipIsLinked DEF TypeOK, OnlyValid
  <2>5. \A x \in linked : SortsBefore(seq', x, tip) <=> SortsBefore(seq, x, tip)
    <3>1. \A x \in linked : seq'[x] = seq[x]
      BY <2>3, <2>4
    <3> QED
      BY <2>4, <3>1 DEF SortsBefore
  <2>6. ASSUME ~broken, NEW x \in linked' \ failed', ~SortsBefore(seq', x, tip)
        PROVE  x \in cand'
    BY <2>1, <2>3, <2>5, <2>6 DEF ProgressInv, Worse
  <2> QED
    BY <2>1, <2>2, <2>6 DEF ProgressInv, Worse, Locked
<1>5. ASSUME NEW t \in Thread, ActivateBestChain_enter(t)
      PROVE  ProgressInv'
  <2>1. /\ mutex = Nil /\ csMain' = csMain
        /\ linked' = linked /\ seq' = seq /\ broken' = broken /\ tip' = tip
        /\ failed' = failed /\ cand' = cand /\ start' = start
        /\ pc' = [pc EXCEPT ![t] = "unlocked"]
    BY <1>5 DEF ActivateBestChain_enter, entries
  <2>2. \A u \in Thread : pc[u] \notin Locked
    BY <2>1, OthersAssumption DEF LocksInv, Active
  <2>3. \A u \in Thread : pc'[u] \notin Locked
    BY <2>1, <2>2 DEF Locked, TypeOK
  <2> QED
    BY <2>1, <2>3 DEF ProgressInv, Worse, Locked
<1>6. ASSUME NEW t \in Thread, ActivateBestChain_lock(t)
      PROVE  ProgressInv'
  <2>1. /\ csMain = Nil /\ pc[t] = "unlocked" /\ csMain' = t /\ start' = tip /\ tip' = tip
        /\ cand' = cand /\ linked' = linked /\ failed' = failed /\ seq' = seq
        /\ most' = most /\ broken' = broken
        /\ pc' = [pc EXCEPT ![t] = "choose"]
    BY <1>6 DEF ActivateBestChain_lock, entries
  <2>2. \A u \in Thread \ {t} : pc'[u] \notin Locked
    BY <2>1, OneThread DEF TypeOK
  <2>3. tip \in Block /\ seq \in [Block -> Nat]
    BY DEF TypeOK
  <2>4. ~Worse(tip, tip)
    BY <2>3, OrderIsStrict DEF Worse
  <2>5. most # Nil => ~Worse(most, tip)
    BY <2>1, <2>3, AncestorsWorse, Zenon DEF Worse, TargetInv, TypeOK, Active
  <2> QED
    BY <2>1, <2>2, <2>4, <2>5, OthersAssumption DEF ProgressInv, Worse, Locked, TypeOK
<1>7. ASSUME NEW t \in Thread, ActivateBestChain_choose(t)
      PROVE  ProgressInv'
  <2> SUFFICES ASSUME ~broken PROVE ProgressInv'
    BY <1>7 DEF ProgressInv, ActivateBestChain_choose
  <2>1. /\ pc[t] = "choose" /\ csMain' = csMain /\ start' = start /\ tip' = tip
        /\ linked' = linked /\ seq' = seq /\ broken' = broken
    BY <1>7 DEF ActivateBestChain_choose
  <2>2. \A u \in Thread \ {t} : pc[u] \notin Locked
    BY <2>1, OneThread DEF Locked, Active
  <2>3. csMain # Nil
    BY <2>1, OneThread, OthersAssumption DEF Locked
  <2>4. ~Worse(start, tip) /\ (most # Nil => ~Worse(most, start))
    BY <2>1 DEF ProgressInv
  <2>5. start \in cand /\ ~Hopeless(start)
    BY <2>1, StartIsCandidate
  <2>6. \A x \in linked' \ failed' : ~Worse(x, start) /\ ~Worse(x, tip) => x \in cand'
    <3>1. PICK R \in SUBSET Block : cand' = cand \ R /\ failed' = failed \cup R
      BY <1>7, ChooseFacts
    <3> QED
      BY <2>1, <2>3, <3>1 DEF ProgressInv
  <2>7. most' # Nil /\ ~Worse(most', start)
    <3>1. CASE most = Nil
      BY <1>7, <2>5, <3>1, ChooseFacts
    <3>2. CASE most # Nil
      BY <1>7, <2>4, <3>2, ChooseFacts
    <3> QED
      BY <3>1, <3>2
  <2>8. \/ most' = tip /\ pc' = [pc EXCEPT ![t] = "leave"]
        \/ pc' = [pc EXCEPT ![t] = "step"]
    BY <1>7, <2>7, ChooseFacts
  <2> QED
    BY <2>1, <2>2, <2>3, <2>4, <2>6, <2>7, <2>8, Zenon DEF ProgressInv, Worse, Locked, TypeOK
<1>8. ASSUME NEW t \in Thread, DisconnectTip(t)
      PROVE  ProgressInv'
  <2> SUFFICES ASSUME ~broken PROVE ProgressInv'
    BY <1>8 DEF ProgressInv, DisconnectTip
  <2>1. /\ pc[t] = "step" /\ csMain' = csMain /\ start' = start /\ most' = most
        /\ linked' = linked /\ seq' = seq /\ broken' = broken /\ pc' = pc
        /\ cand' = cand /\ failed' = failed /\ tip \notin Ancestors[most]
    BY <1>8 DEF DisconnectTip, entries, locals
  <2>2. \A u \in Thread \ {t} : pc[u] \notin Locked
    BY <2>1, OneThread DEF Locked, Active
  <2>3. /\ csMain # Nil /\ start \in Block /\ seq \in [Block -> Nat]
        /\ linked \subseteq Block
    BY <2>1, OneThread, OthersAssumption DEF Locked, TargetInv, TypeOK
  <2>4. tip \in Block /\ tip' \in Block /\ tip' \in Ancestors[tip]
    BY <1>8, DisconnectTipFacts, AncestorsClosed
  <2>5. ~Worse(start, tip)
    BY <2>1 DEF ProgressInv
  <2>6. ~Worse(start, tip')
    BY <2>3, <2>4, <2>5, AncestorsWorse, OrderIsNegativelyTransitive DEF Worse
  <2>7. ASSUME NEW x \in linked \ failed, ~Worse(x, start)
        PROVE  x \in cand
    <3>1. ~Worse(x, tip)
      BY <2>3, <2>4, <2>5, <2>7, OrderIsNegativelyTransitive DEF Worse
    <3> QED
      BY <2>3, <2>7, <3>1 DEF ProgressInv
  <2>8. most # Nil => ~Worse(most, start)
    BY <2>1 DEF ProgressInv
  <2> QED
    BY <2>1, <2>2, <2>3, <2>6, <2>7, <2>8 DEF ProgressInv, Worse, Locked
<1>9. ASSUME NEW t \in Thread, ConnectTip(t)
      PROVE  ProgressInv'
  <2> SUFFICES ASSUME ~broken PROVE ProgressInv'
    BY <1>9, Zenon DEF ProgressInv, ConnectTip
  <2>1. /\ pc[t] = "step" /\ csMain' = csMain /\ start' = start /\ most' = most
        /\ linked' = linked /\ seq' = seq /\ broken' = broken /\ failed' = failed
    BY <1>9 DEF ConnectTip
  <2>2. \A u \in Thread \ {t} : pc[u] \notin Locked
    BY <2>1, OneThread DEF Locked, Active
  <2>3. /\ csMain # Nil /\ start \in Block /\ seq \in [Block -> Nat]
        /\ linked \subseteq Block /\ tip \in Block
    BY <2>1, OneThread, OthersAssumption, Zenon DEF Locked, TargetInv, TypeOK
  <2>4. /\ tip' \in Block /\ Ancestors[tip'] = {tip'} \cup Ancestors[tip]
        /\ tip' \in Ancestors[most]
        /\ {c \in cand : ~Worse(c, tip')} \subseteq cand'
        /\ pc' = [pc EXCEPT ![t] = "stepped"] \/ pc' = [pc EXCEPT ![t] = "step"]
    BY <1>9, ConnectTipFacts, Zenon
  <2>5. ~Worse(tip', tip)
    BY <2>3, <2>4, AncestorsClosed, AncestorsWorse DEF Worse
  <2>6. ASSUME NEW x \in linked \ failed, ~Worse(x, start), ~Worse(x, tip')
        PROVE  x \in cand'
    <3>1. ~Worse(x, tip)
      BY <2>3, <2>4, <2>5, <2>6, OrderIsNegativelyTransitive DEF Worse
    <3>2. x \in cand
      BY <2>3, <2>6, <3>1 DEF ProgressInv
    <3> QED
      BY <2>4, <2>6, <3>2
  <2>7. most # Nil => ~Worse(most, start)
    BY <2>1 DEF ProgressInv
  <2> QED
    BY <2>1, <2>2, <2>3, <2>4, <2>6, <2>7, Zenon DEF ProgressInv, Worse, Locked, TypeOK
<1>10. ASSUME NEW t \in Thread, ConnectTip_invalid(t)
       PROVE  ProgressInv'
  <2> SUFFICES ASSUME ~broken PROVE ProgressInv'
    BY <1>10, Zenon DEF ProgressInv, ConnectTip_invalid
  <2>1. /\ pc[t] = "step" /\ csMain' = csMain /\ start' = start /\ most' = Nil
        /\ linked' = linked /\ seq' = seq /\ broken' = broken /\ tip' = tip
        /\ failed' = failed \cup Descendants(NextBlock) /\ cand' \in Erasures(NextBlock)
        /\ pc' = [pc EXCEPT ![t] = "stepped"]
    BY <1>10, Zenon DEF ConnectTip_invalid
  <2>2. \A u \in Thread \ {t} : pc[u] \notin Locked
    BY <2>1, OneThread DEF Locked, Active
  <2>3. csMain # Nil
    BY <2>1, OneThread, OthersAssumption DEF Locked
  <2>4. NextBlock \in Block
    BY <1>10, NextBlockIsChild DEF ConnectTip_invalid
  <2>5. NextBlock \in Descendants(NextBlock)
    BY <2>4, AncestorsClosed DEF Descendants
  <2>6. ASSUME NEW x \in linked' \ failed', ~Worse(x, start), ~Worse(x, tip)
        PROVE  x \in cand'
    <3>1. x \in cand /\ x # NextBlock
      BY <2>1, <2>3, <2>5, <2>6 DEF ProgressInv
    <3>2. x \notin Misplaced
      <4> SUFFICES ASSUME x \in Misplaced PROVE FALSE
        OBVIOUS
      <4>1. PICK s \in cand : seq[x] = 1 /\ seq[s] = 0 /\ ChainWork[s] = ChainWork[x]
        BY DEF Misplaced
      <4>2. /\ start \in Block /\ x \in Block /\ s \in Block /\ seq \in [Block -> Nat]
        BY <2>1, <3>1, Zenon DEF TargetInv, Locked, TypeOK
      <4>3. ~SortsBefore(seq, x, start) /\ ~SortsBefore(seq, start, s)
        BY <2>3, <2>6, <4>1 DEF LoadedInv, Worse
      <4>4. ~SortsBefore(seq, x, s)
        BY <4>2, <4>3, OrderIsNegativelyTransitive
      <4> QED
        BY <4>1, <4>4 DEF SortsBefore
    <3> QED
      BY <2>1, <3>1, <3>2, ErasuresFacts, Zenon
  <2> QED
    BY <2>1, <2>2, <2>3, <2>6, Zenon DEF ProgressInv, Worse, Locked, TypeOK
<1>11. ASSUME NEW t \in Thread, SystemError(t)
       PROVE  ProgressInv'
  BY <1>11, Zenon DEF SystemError, ProgressInv
<1>12. ASSUME NEW t \in Thread, ActivateBestChain_stepped(t)
       PROVE  ProgressInv'
  <2> SUFFICES ASSUME ~broken PROVE ProgressInv'
    BY <1>12, Zenon DEF ProgressInv, ActivateBestChain_stepped
  <2>1. /\ pc[t] \in {"step", "stepped"} /\ csMain' = csMain /\ start' = start /\ most' = most
        /\ linked' = linked /\ seq' = seq /\ broken' = broken /\ tip' = tip
        /\ failed' = failed /\ cand' = cand /\ worked' = TRUE
        /\ pc' = [pc EXCEPT ![t] = IF Worse(tip, start) THEN "choose" ELSE "leave"]
    BY <1>12 DEF ActivateBestChain_stepped, entries
  <2>2. \A u \in Thread \ {t} : pc[u] \notin Locked
    BY <2>1, OneThread DEF Locked, Active
  <2>3. csMain # Nil /\ start \in Block /\ seq \in [Block -> Nat] /\ tip \in Block
    BY <2>1, OneThread, OthersAssumption, Zenon DEF Locked, TargetInv, TypeOK
  <2>4. Worse(tip, start) => ~Worse(start, tip)
    BY <2>3, OrderIsStrict DEF Worse
  <2>5. most # Nil => ~Worse(most, start)
    BY <2>1, Zenon DEF ProgressInv
  <2> QED
    BY <2>1, <2>2, <2>3, <2>4, <2>5, Zenon DEF ProgressInv, Worse, Locked, TypeOK
<1>13. ASSUME NEW t \in Thread, ActivateBestChain_unlock(t)
       PROVE  ProgressInv'
  <2> SUFFICES ASSUME ~broken PROVE ProgressInv'
    BY <1>13, Zenon DEF ProgressInv, ActivateBestChain_unlock
  <2>1. /\ pc[t] = "leave" /\ csMain' = Nil
        /\ linked' = linked /\ seq' = seq /\ broken' = broken /\ tip' = tip
        /\ failed' = failed /\ cand' = cand
        /\ pc' = [pc EXCEPT ![t] = "released"] \/ pc' = [pc EXCEPT ![t] = "idle"]
    BY <1>13 DEF ActivateBestChain_unlock, entries
  <2>2. \A u \in Thread \ {t} : pc[u] \notin Locked
    BY <2>1, OneThread DEF Locked, Active
  <2>3. /\ csMain # Nil /\ start \in Block /\ seq \in [Block -> Nat] /\ tip \in Block
        /\ linked \subseteq Block
    BY <2>1, OneThread, OthersAssumption, Zenon DEF Locked, TargetInv, TypeOK
  <2>4. ~Worse(tip, start)
    BY <2>1 DEF ProgressInv
  <2>5. ASSUME NEW x \in linked \ failed, ~Worse(x, tip)
        PROVE  x \in cand
    <3>1. ~Worse(x, start)
      BY <2>3, <2>4, <2>5, OrderIsNegativelyTransitive DEF Worse
    <3> QED
      BY <2>3, <2>5, <3>1 DEF ProgressInv
  <2>6. \A u \in Thread : pc'[u] \notin Locked
    BY <2>1, <2>2 DEF Locked, TypeOK
  <2> QED
    BY <2>1, <2>5, <2>6, Zenon DEF ProgressInv, Worse, Locked
<1>14. ASSUME NEW t \in Thread, ActivateBestChain_again(t)
       PROVE  ProgressInv'
  <2>1. /\ pc[t] = "released" /\ csMain' = csMain
        /\ linked' = linked /\ seq' = seq /\ broken' = broken /\ tip' = tip
        /\ failed' = failed /\ cand' = cand /\ start' = start
        /\ pc' = [pc EXCEPT ![t] = "unlocked"] \/ pc' = [pc EXCEPT ![t] = "idle"]
    BY <1>14 DEF ActivateBestChain_again, entries
  <2>2. \A u \in Thread \ {t} : pc[u] \notin Locked
    BY <2>1 DEF LocksInv, Active
  <2>3. \A u \in Thread : pc'[u] \notin Locked
    <3>1. \A u \in Thread : pc'[u] = IF u = t THEN pc'[t] ELSE pc[u]
      BY <2>1 DEF TypeOK
    <3>2. pc'[t] \in {"unlocked", "idle"}
      BY <2>1 DEF TypeOK
    <3>3. pc'[t] \notin Locked
      BY <3>2 DEF Locked
    <3> QED BY <2>2, <3>1, <3>3, Zenon
  <2> QED
    BY <2>1, <2>3, Zenon DEF ProgressInv, Worse, Locked
<1>15. ASSUME NEW t \in Thread, Reload(t)
       PROVE  ProgressInv'
  <2>1. /\ csMain' = csMain /\ tip' = tip /\ broken' = broken
        /\ \A u \in Thread : pc[u] = "idle"
        /\ pc' = [pc EXCEPT ![t] = "accepted"]
    BY <1>15, Zenon DEF Reload
  <2>2. csMain = Nil
    BY <2>1 DEF LocksInv, Locked, TypeOK
  <2>3. \A u \in Thread : pc'[u] \notin Locked
    BY <2>1 DEF Locked, TypeOK
  <2>4. \A x \in linked' \ failed' : ~SortsBefore(seq', x, tip) => x \in cand'
    <3>1. {x \in linked' \ failed' : ~SortsBefore(seq', x, tip)} \subseteq cand'
      BY <1>15, Zenon DEF Reload
    <3> QED
      BY <3>1
  <2> QED
    BY <2>1, <2>2, <2>3, <2>4, Zenon DEF ProgressInv, Worse, Locked
<1>16. ASSUME Interrupt
       PROVE  ProgressInv'
  BY <1>16, Zenon DEF TypeOK, ProgressInv, Worse, Interrupt, entries, locals
<1>17. CASE UNCHANGED vars
  BY <1>17, Zenon DEF ProgressInv, Worse, vars, entries, locals
<1> QED
  BY <1>1, <1>2, <1>3, <1>4, <1>5, <1>6, <1>7, <1>8, <1>9, <1>10, <1>11,
     <1>12, <1>13, <1>14, <1>15, <1>16, <1>17 DEF Next, ProcessNewBlock,
     ActivateBestChain

----------------------------------------------------------------------------
(* Events *)

\* Without a step in progress, a listener knows the tip.
LEMMA NothingToTell ==
    ASSUME TypeOK, LocksInv, TraceInv, ~broken,
           \A t \in Thread : pc[t] \notin {"step", "stepped"}
    PROVE  trace = <<>> /\ told = tip
  BY DEF TraceInv, ListenerFollows

\* Every step keeps a listener in step with the chain.
LEMMA TraceStep ==
    ASSUME TypeOK, OnlyValid, LocksInv, EntriesInv, TargetInv, TraceInv, [Next]_vars
    PROVE  TraceInv'
<1>1. ASSUME NEW t \in Thread, NEW b \in Block, ProcessNewBlock_known(t, b)
      PROVE  TraceInv'
  <2> SUFFICES ASSUME ~broken PROVE TraceInv'
    BY <1>1, Zenon DEF TraceInv, ListenerFollows, ProcessNewBlock_known
  <2>1. \A u \in Thread : pc[u] \notin {"step", "stepped"}
    BY <1>1, OneThread DEF ProcessNewBlock_known, Enters, Locked
  <2>2. trace' = trace /\ told' = told /\ tip' = tip /\ broken' = broken
    BY <1>1 DEF ProcessNewBlock_known, locals
  <2> QED
    BY <2>1, <2>2, NothingToTell DEF TraceInv, ListenerFollows
<1>2. ASSUME NEW t \in Thread, NEW b \in Block, ProcessNewBlock_invalid(t, b)
      PROVE  TraceInv'
  <2> SUFFICES ASSUME ~broken PROVE TraceInv'
    BY <1>2, Zenon DEF TraceInv, ListenerFollows, ProcessNewBlock_invalid
  <2>1. \A u \in Thread : pc[u] \notin {"step", "stepped"}
    BY <1>2, OneThread DEF ProcessNewBlock_invalid, Enters, Locked
  <2>2. trace' = trace /\ told' = told /\ tip' = tip /\ broken' = broken
    BY <1>2 DEF ProcessNewBlock_invalid, locals
  <2> QED
    BY <2>1, <2>2, NothingToTell DEF TraceInv, ListenerFollows
<1>3. ASSUME NEW t \in Thread, NEW b \in Block, ProcessNewBlock_unwritten(t, b)
      PROVE  TraceInv'
  <2> SUFFICES ASSUME ~broken PROVE TraceInv'
    BY <1>3, Zenon DEF TraceInv, ListenerFollows, ProcessNewBlock_unwritten
  <2>1. \A u \in Thread : pc[u] \notin {"step", "stepped"}
    BY <1>3, OneThread DEF ProcessNewBlock_unwritten, Enters, Locked
  <2>2. trace' = trace /\ told' = told /\ tip' = tip /\ broken' = broken
    BY <1>3 DEF ProcessNewBlock_unwritten, locals
  <2> QED
    BY <2>1, <2>2, NothingToTell DEF TraceInv, ListenerFollows
<1>4. ASSUME NEW t \in Thread, NEW b \in Block, ProcessNewBlock_stored(t, b)
      PROVE  TraceInv'
  <2> SUFFICES ASSUME ~broken PROVE TraceInv'
    BY <1>4, Zenon DEF TraceInv, ListenerFollows, ProcessNewBlock_stored
  <2>1. \A u \in Thread : pc[u] \notin {"step", "stepped"}
    BY <1>4, OneThread DEF ProcessNewBlock_stored, Enters, Locked
  <2>2. trace' = trace /\ told' = told /\ tip' = tip /\ broken' = broken
    BY <1>4 DEF ProcessNewBlock_stored, locals
  <2> QED
    BY <2>1, <2>2, NothingToTell DEF TraceInv, ListenerFollows
<1>5. ASSUME NEW t \in Thread, ActivateBestChain_enter(t)
      PROVE  TraceInv'
  <2> SUFFICES ASSUME ~broken PROVE TraceInv'
    BY <1>5, Zenon DEF TraceInv, ListenerFollows, ActivateBestChain_enter
  <2>1. \A u \in Thread : pc[u] \notin {"step", "stepped"}
    BY <1>5, OthersAssumption DEF ActivateBestChain_enter, LocksInv, Locked, Active
  <2>2. trace' = trace /\ told' = told /\ tip' = tip /\ broken' = broken
    BY <1>5 DEF ActivateBestChain_enter, locals
  <2> QED
    BY <2>1, <2>2, NothingToTell, Zenon DEF TraceInv, ListenerFollows
<1>6. ASSUME NEW t \in Thread, ActivateBestChain_lock(t)
      PROVE  TraceInv'
  <2> SUFFICES ASSUME ~broken PROVE TraceInv'
    BY <1>6, Zenon DEF TraceInv, ListenerFollows, ActivateBestChain_lock
  <2>1. \A u \in Thread : pc[u] \notin {"step", "stepped"}
    BY <1>6, OneThread DEF ActivateBestChain_lock, Enters, Locked
  <2>2. trace' = trace /\ told' = told /\ tip' = tip /\ broken' = broken
    BY <1>6 DEF ActivateBestChain_lock, locals
  <2> QED
    BY <2>1, <2>2, NothingToTell, Zenon DEF TraceInv, ListenerFollows
<1>7. ASSUME NEW t \in Thread, ActivateBestChain_choose(t)
      PROVE  TraceInv'
  <2> SUFFICES ASSUME ~broken PROVE TraceInv'
    BY <1>7, Zenon DEF TraceInv, ListenerFollows, ActivateBestChain_choose
  <2>1. \A u \in Thread : pc[u] \notin {"step", "stepped"}
    BY <1>7, OneThread, Zenon DEF ActivateBestChain_choose, Locked, Active
  <2>2. trace' = trace /\ told' = told /\ tip' = tip /\ broken' = broken
    BY <1>7 DEF ActivateBestChain_choose, locals
  <2> QED
    BY <2>1, <2>2, NothingToTell, Zenon DEF TraceInv, ListenerFollows
<1>8. ASSUME NEW t \in Thread, DisconnectTip(t)
      PROVE  TraceInv'
  <2> SUFFICES ASSUME ~broken PROVE TraceInv'
    BY <1>8, Zenon DEF TraceInv, ListenerFollows, DisconnectTip
  <2>1. most # Nil /\ tip \notin Ancestors[most]
    BY <1>8, Zenon DEF DisconnectTip, TargetInv
  <2>2. trace = <<>>
    BY <2>1 DEF TraceInv
  <2> QED
    BY <1>8, <2>2, Zenon DEF TraceInv, ListenerFollows, DisconnectTip, locals
<1>9. ASSUME NEW t \in Thread, ConnectTip(t)
      PROVE  TraceInv'
  <2> SUFFICES ASSUME ~broken PROVE TraceInv'
    BY <1>9, Zenon DEF TraceInv, ListenerFollows, ConnectTip
  <2>1. /\ pc[t] = "step" /\ csMain' = csMain /\ told' = told /\ most' = most
        /\ broken' = broken
    BY <1>9, Zenon DEF ConnectTip
  <2>2. /\ tip' \in Block /\ Parent[tip'] = tip /\ tip' \in Ancestors[most]
        /\ trace' = Append(trace, tip')
        /\ pc' = [pc EXCEPT ![t] = "stepped"] \/ pc' = [pc EXCEPT ![t] = "step"]
    BY <1>9, ConnectTipFacts, Zenon
  <2>3. csMain' # Nil /\ pc'[t] \in {"step", "stepped"}
    BY <2>1, <2>2, OneThread, OthersAssumption, Zenon DEF Locked, TypeOK
  <2>4. /\ trace' # <<>> /\ Len(trace') = Len(trace) + 1
        /\ trace'[Len(trace')] = tip'
        /\ \A i \in 1..Len(trace) : trace'[i] = trace[i]
        /\ Len(trace) \in Nat
    <3>1. trace \in Seq(Block)
      BY DEF TypeOK
    <3> QED
      BY ONLY <2>2, <3>1, Appended, Zenon
  <2>5. Parent[trace'[1]] = told'
    <3>1. CASE trace = <<>>
      <4>1. told = tip
        BY <3>1, Zenon DEF TraceInv, ListenerFollows
      <4>2. Len(trace') = 1
        BY ONLY <2>4, <3>1
      <4> QED
        BY ONLY <2>1, <2>2, <2>4, <4>1, <4>2
    <3>2. CASE trace # <<>>
      <4>1. Parent[trace[1]] = told
        BY <3>2 DEF TraceInv, ListenerFollows
      <4>2. 1 \in 1..Len(trace)
        BY <3>2 DEF TypeOK
      <4> QED
        BY ONLY <2>1, <2>4, <4>1, <4>2
    <3> QED
      BY <3>1, <3>2
  <2>6. \A i \in 1..(Len(trace') - 1) : Parent[trace'[i + 1]] = trace'[i]
    <3>1. SUFFICES ASSUME NEW i \in 1..Len(trace)
                   PROVE  Parent[trace'[i + 1]] = trace[i]
      BY <2>4
    <3>2. trace # <<>>
      BY DEF TypeOK
    <3>3. CASE i = Len(trace)
      BY <2>2, <2>4, <3>2, <3>3 DEF TraceInv, ListenerFollows
    <3>4. CASE i # Len(trace)
      BY <2>4, <3>2, <3>4 DEF TraceInv, ListenerFollows
    <3> QED
      BY <3>3, <3>4
  <2> QED
    BY <2>1, <2>2, <2>3, <2>4, <2>5, <2>6, Zenon DEF TraceInv, ListenerFollows
<1>10. ASSUME NEW t \in Thread, ConnectTip_invalid(t)
       PROVE  TraceInv'
  <2>1. /\ told' = told /\ tip' = tip /\ trace' = trace /\ csMain' = csMain
        /\ most' = Nil /\ broken' = broken /\ pc' = [pc EXCEPT ![t] = "stepped"]
    BY <1>10, Zenon DEF ConnectTip_invalid
  <2> QED
    BY <2>1, Zenon DEF TraceInv, ListenerFollows, TypeOK
<1>11. ASSUME NEW t \in Thread, SystemError(t)
       PROVE  TraceInv'
  BY <1>11, Zenon DEF SystemError, TraceInv, ListenerFollows
<1>12. ASSUME NEW t \in Thread, ActivateBestChain_stepped(t)
       PROVE  TraceInv'
  BY <1>12, Zenon DEF ActivateBestChain_stepped, TraceInv, ListenerFollows
<1>13. ASSUME NEW t \in Thread, ActivateBestChain_unlock(t)
       PROVE  TraceInv'
  <2> SUFFICES ASSUME ~broken PROVE TraceInv'
    BY <1>13, Zenon DEF TraceInv, ListenerFollows, ActivateBestChain_unlock
  <2>1. \A u \in Thread : pc[u] \notin {"step", "stepped"}
    BY <1>13, OneThread DEF ActivateBestChain_unlock, Locked, Active
  <2>2. trace' = trace /\ told' = told /\ tip' = tip /\ broken' = broken
    BY <1>13 DEF ActivateBestChain_unlock, locals
  <2> QED
    BY <2>1, <2>2, NothingToTell DEF TraceInv, ListenerFollows
<1>14. ASSUME NEW t \in Thread, ActivateBestChain_again(t)
       PROVE  TraceInv'
  <2> SUFFICES ASSUME ~broken PROVE TraceInv'
    BY <1>14, Zenon DEF TraceInv, ListenerFollows, ActivateBestChain_again
  <2>1. \A u \in Thread : pc[u] \notin {"step", "stepped"}
    BY <1>14 DEF ActivateBestChain_again, LocksInv, Locked, Active
  <2>2. trace' = trace /\ told' = told /\ tip' = tip /\ broken' = broken
    BY <1>14 DEF ActivateBestChain_again, locals
  <2> QED
    BY <2>1, <2>2, NothingToTell DEF TraceInv, ListenerFollows
<1>15. ASSUME NEW t \in Thread, Reload(t)
       PROVE  TraceInv'
  <2> SUFFICES ASSUME ~broken PROVE TraceInv'
    BY <1>15, Zenon DEF TraceInv, ListenerFollows, Reload
  <2>1. \A u \in Thread : pc[u] \notin {"step", "stepped"}
    BY <1>15, Zenon DEF Reload
  <2>2. trace' = trace /\ told' = told /\ tip' = tip /\ broken' = broken
    BY <1>15, Zenon DEF Reload, locals
  <2> QED
    BY <2>1, <2>2, NothingToTell DEF TraceInv, ListenerFollows
<1>16. ASSUME Interrupt
       PROVE  TraceInv'
  BY <1>16, Zenon DEF Interrupt, TraceInv, ListenerFollows, locals
<1>17. CASE UNCHANGED vars
  BY <1>17, Zenon DEF TraceInv, ListenerFollows, vars, locals
<1> QED
  BY <1>1, <1>2, <1>3, <1>4, <1>5, <1>6, <1>7, <1>8, <1>9, <1>10, <1>11,
     <1>12, <1>13, <1>14, <1>15, <1>16, <1>17 DEF Next, ProcessNewBlock,
     ActivateBestChain

============================================================================
