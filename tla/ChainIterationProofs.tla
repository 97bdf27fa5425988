------------------------ MODULE ChainIterationProofs ------------------------
(* Proofs about loops over a chain that other threads change, for any tree of *)
(* blocks and any numbers of threads and loops.                               *)
EXTENDS ChainIteration, BestChainProofs

\* A chain has a block at every height up to that of its tip.
LEMMA HeightReached ==
    ASSUME NEW b \in Block, NEW h \in Nat, h <= Height[b]
    PROVE  \E a \in Ancestors[b] : Height[a] = h
<1> SUFFICES ASSUME \A a \in Ancestors[b] : Height[a] # h
             PROVE  FALSE
  OBVIOUS
<1> DEFINE S == {c \in Ancestors[b] : Height[c] > h}
<1>1. /\ Ancestors[b] \subseteq Block /\ b \in Ancestors[b]
      /\ \A c \in Ancestors[b] \ {Genesis} : Parent[c] \in Ancestors[b]
  BY AncestorsClosed
<1>2. S \in SUBSET Block /\ b \in S
  BY <1>1, TreeAssumption
<1>3. ASSUME NEW c \in S \ {Genesis}
      PROVE  Parent[c] \in S
  <2>1. Parent[c] \in Ancestors[b] /\ Height[c] = Height[Parent[c]] + 1 /\ Height[c] > h
    BY <1>1, <1>3, TreeAssumption
  <2>2. Height[Parent[c]] \in Nat /\ Height[Parent[c]] # h
    BY <1>1, <2>1, TreeAssumption
  <2> QED
    BY <2>1, <2>2
<1>4. Ancestors[b] \subseteq S
  <2> HIDE DEF S
  <2> QED
    BY <1>2, <1>3, AncestorsLeast
<1>5. Genesis \in S
  BY <1>4, GenesisIsAncestor
<1> QED
  BY <1>5, TreeAssumption

\* How a step of the manager moves the chain that others can see.
Moves ==
    ~broken' =>
        /\ ~broken
        /\ \/ csMain' = Nil /\ csMain = Nil /\ tip' = tip
           \/ csMain' # Nil /\ csMain # Nil /\ start' = start
           \/ csMain' # Nil /\ csMain = Nil /\ start' = tip
           \/ csMain' = Nil /\ csMain # Nil /\ tip' = tip /\ ~Worse(tip, start)

\* The chain that others can see never gets worse.
LEMMA MovesForward ==
    ASSUME IndInv, [Next]_vars
    PROVE  Moves
<1>1. ASSUME NEW t \in Thread, NEW b \in Block, ProcessNewBlock_known(t, b)
      PROVE  Moves
  <2>1. csMain' = csMain /\ tip' = tip /\ start' = start /\ broken' = broken
    BY <1>1 DEF ProcessNewBlock_known, locals
  <2> QED
    BY <2>1 DEF Moves
<1>2. ASSUME NEW t \in Thread, NEW b \in Block, ProcessNewBlock_invalid(t, b)
      PROVE  Moves
  <2>1. csMain' = csMain /\ tip' = tip /\ start' = start /\ broken' = broken
    BY <1>2 DEF ProcessNewBlock_invalid, locals
  <2> QED
    BY <2>1 DEF Moves
<1>3. ASSUME NEW t \in Thread, NEW b \in Block, ProcessNewBlock_unwritten(t, b)
      PROVE  Moves
  <2>1. csMain' = csMain /\ tip' = tip /\ start' = start /\ broken' = broken
    BY <1>3 DEF ProcessNewBlock_unwritten, locals
  <2> QED
    BY <2>1 DEF Moves
<1>4. ASSUME NEW t \in Thread, NEW b \in Block, ProcessNewBlock_stored(t, b)
      PROVE  Moves
  <2>1. csMain' = csMain /\ tip' = tip /\ start' = start /\ broken' = broken
    BY <1>4 DEF ProcessNewBlock_stored, locals
  <2> QED
    BY <2>1 DEF Moves
<1>5. ASSUME NEW t \in Thread, ActivateBestChain_enter(t)
      PROVE  Moves
  <2>1. csMain' = csMain /\ tip' = tip /\ start' = start /\ broken' = broken
    BY <1>5 DEF ActivateBestChain_enter, locals
  <2> QED
    BY <2>1 DEF Moves
<1>6. ASSUME NEW t \in Thread, ActivateBestChain_lock(t)
      PROVE  Moves
  BY <1>6, OthersAssumption DEF ActivateBestChain_lock, Moves
<1>7. ASSUME NEW t \in Thread, ActivateBestChain_choose(t)
      PROVE  Moves
  <2>1. csMain' = csMain /\ tip' = tip /\ start' = start /\ broken' = broken
    BY <1>7 DEF ActivateBestChain_choose, locals
  <2> QED
    BY <2>1 DEF Moves
<1>8. ASSUME NEW t \in Thread, DisconnectTip(t)
      PROVE  Moves
  <2>1. csMain' = csMain /\ start' = start /\ broken' = broken
    BY <1>8 DEF DisconnectTip, locals
  <2>2. csMain # Nil
    BY <1>8, OneThread, OthersAssumption DEF DisconnectTip, IndInv, Locked
  <2> QED
    BY <2>1, <2>2 DEF Moves
<1>9. ASSUME NEW t \in Thread, ConnectTip(t)
      PROVE  Moves
  <2>1. csMain' = csMain /\ start' = start /\ broken' = broken
    BY <1>9 DEF ConnectTip, locals
  <2>2. csMain # Nil
    BY <1>9, OneThread, OthersAssumption DEF ConnectTip, IndInv, Locked
  <2> QED
    BY <2>1, <2>2 DEF Moves
<1>10. ASSUME NEW t \in Thread, ConnectTip_invalid(t)
       PROVE  Moves
  <2>1. csMain' = csMain /\ tip' = tip /\ start' = start /\ broken' = broken
    BY <1>10 DEF ConnectTip_invalid, locals
  <2> QED
    BY <2>1 DEF Moves
<1>11. ASSUME NEW t \in Thread, SystemError(t)
       PROVE  Moves
  BY <1>11 DEF SystemError, Moves
<1>12. ASSUME NEW t \in Thread, ActivateBestChain_stepped(t)
       PROVE  Moves
  <2>1. csMain' = csMain /\ tip' = tip /\ start' = start /\ broken' = broken
    BY <1>12 DEF ActivateBestChain_stepped, locals
  <2> QED
    BY <2>1 DEF Moves
<1>13. ASSUME NEW t \in Thread, ActivateBestChain_unlock(t)
       PROVE  Moves
  <2>1. csMain' = Nil /\ tip' = tip /\ broken' = broken /\ pc[t] = "leave"
    BY <1>13 DEF ActivateBestChain_unlock
  <2>2. csMain # Nil
    BY <2>1, OneThread, OthersAssumption DEF IndInv, Locked
  <2>3. ~broken => ~Worse(tip, start)
    BY <2>1 DEF IndInv, ProgressInv
  <2> QED
    BY <2>1, <2>2, <2>3 DEF Moves
<1>14. ASSUME NEW t \in Thread, ActivateBestChain_again(t)
       PROVE  Moves
  <2>1. csMain' = csMain /\ tip' = tip /\ start' = start /\ broken' = broken
    BY <1>14 DEF ActivateBestChain_again, locals
  <2> QED
    BY <2>1 DEF Moves
<1>15. ASSUME NEW t \in Thread, Reload(t)
       PROVE  Moves
  <2>1. csMain' = csMain /\ tip' = tip /\ start' = start /\ broken' = broken
    BY <1>15 DEF Reload, locals
  <2> QED
    BY <2>1 DEF Moves
<1>16. ASSUME Interrupt
       PROVE  Moves
  <2>1. csMain' = csMain /\ tip' = tip /\ start' = start /\ broken' = broken
    BY <1>16 DEF Interrupt, locals
  <2> QED
    BY <2>1 DEF Moves
<1>17. CASE UNCHANGED vars
  BY <1>17 DEF Moves, vars, locals
<1> QED
  BY <1>1, <1>2, <1>3, <1>4, <1>5, <1>6, <1>7, <1>8, <1>9, <1>10, <1>11,
     <1>12, <1>13, <1>14, <1>15, <1>16, <1>17 DEF Next, ProcessNewBlock,
     ActivateBestChain

----------------------------------------------------------------------------
(* The invariant *)

\* Before any loop the invariant holds.
LEMMA IterationInitHolds ==
    IterationInit => IterationInv
<1> SUFFICES ASSUME IterationInit PROVE IterationInv
  OBVIOUS
<1>1. Init /\ Genesis \in Block
  BY TreeAssumption DEF IterationInit
<1>2. IndInv /\ TypeOK
  BY <1>1, InitIsInd DEF IndInv
<1>3. \A r \in Reader : got[r] = <<>> /\ got[r] \in Seq(Block)
  BY DEF IterationInit
<1>4. IterationTypeOK
  BY <1>1, <1>2, <1>3 DEF IterationInit, IterationTypeOK
<1>5. LoopsInv
  BY DEF IterationInit, LoopsInv
<1>6. HeightsInv
  BY DEF IterationInit, HeightsInv
<1> QED
  BY <1>2, <1>4, <1>5, <1>6 DEF IterationInv

\* Steps of the manager.
LEMMA ChangesKept ==
    ASSUME IterationInv, Chain_changes
    PROVE  IterationInv'
<1>1. /\ Next /\ at' = at /\ max' = max /\ got' = got /\ state' = state /\ seen' = seen
      /\ moved' = [r \in Reader |-> moved[r]
                    \/ (state[r] = "running" /\ tip \notin Ancestors[tip'])]
  BY DEF Chain_changes
<1>2. IndInv' /\ TypeOK' /\ IndInv /\ TypeOK
  BY <1>1, StepIsInd DEF IterationInv, IndInv
<1>3. IterationTypeOK'
  BY <1>1, <1>2 DEF IterationInv, IterationTypeOK
<1>4. LoopsInv'
  <2> SUFFICES ASSUME NEW r \in Reader
               PROVE  /\ state[r] = "idle" => ~moved'[r]
                      /\ ~moved'[r] => ~moved[r]
                      /\ state[r] = "running" /\ ~moved'[r] => seen[r] \in Ancestors[tip']
    BY <1>1, Zenon DEF IterationInv, LoopsInv
  <2>1. moved'[r] = (moved[r] \/ (state[r] = "running" /\ tip \notin Ancestors[tip']))
    BY <1>1
  <2>2. state[r] = "idle" => ~moved[r]
    BY DEF IterationInv, LoopsInv
  <2>3. ASSUME state[r] = "running", ~moved'[r]
        PROVE  seen[r] \in Ancestors[tip']
    <3>1. seen[r] \in Ancestors[tip] /\ tip \in Ancestors[tip']
      BY <2>1, <2>3, Zenon DEF IterationInv, LoopsInv
    <3>2. tip' \in Block
      BY <1>2 DEF TypeOK
    <3> QED
      BY <3>1, <3>2, AncestorsTransitive
  <2> QED
    BY <2>1, <2>2, <2>3, Zenon
<1>5. HeightsInv'
  <2> SUFFICES ASSUME \A b \in Block : ChainWork[b] = Height[b], ~broken',
                      NEW r \in Reader
               PROVE  /\ state[r] # "thrown"
                      /\ state[r] = "running" =>
                            max[r] <= Height[IF csMain' = Nil THEN tip' ELSE start']
    BY <1>1, Zenon DEF HeightsInv
  <2>1. Moves
    BY <1>1, <1>2, MovesForward
  <2>2. /\ ~broken /\ state[r] # "thrown"
        /\ state[r] = "running" => max[r] <= Height[IF csMain = Nil THEN tip ELSE start]
    BY <2>1 DEF Moves, IterationInv, HeightsInv
  <2>3. CASE csMain' = Nil /\ csMain # Nil /\ tip' = tip /\ ~Worse(tip, start)
    <3>1. start \in Block /\ tip \in Block
      <4>1. csMain \in Thread /\ pc[csMain] \in Locked
        BY <1>2, <2>3, Zenon DEF TypeOK, IndInv, LocksInv
      <4> QED
        BY <1>2, <4>1, Zenon DEF TypeOK, IndInv, TargetInv
    <3>2. Height[tip] >= Height[start] /\ Height[tip] \in Nat /\ Height[start] \in Nat
      BY <2>3, <3>1, TreeAssumption DEF Worse, SortsBefore
    <3>3. max[r] \in Nat
      BY DEF IterationInv, IterationTypeOK
    <3> QED
      BY <2>2, <2>3, <3>2, <3>3
  <2> QED
    BY <2>1, <2>2, <2>3 DEF Moves
<1> QED
  BY <1>2, <1>3, <1>4, <1>5 DEF IterationInv

\* Steps of a loop leave the manager alone.
LEMMA ManagerUntouched ==
    ASSUME IndInv, UNCHANGED vars
    PROVE  IndInv' /\ TypeOK'
  BY StepIsInd DEF IndInv

\* Making an iterator keeps it.
LEMMA IteratorKept ==
    ASSUME IterationInv, NEW r \in Reader, Chain_iterator(r)
    PROVE  IterationInv'
<1>1. /\ state[r] = "idle" /\ csMain = Nil /\ UNCHANGED vars
      /\ state' = [state EXCEPT ![r] = "running"]
      /\ max' = [max EXCEPT ![r] = Height[tip]]
      /\ seen' = [seen EXCEPT ![r] = tip]
      /\ at' = at /\ got' = got /\ moved' = moved
  BY DEF Chain_iterator, getHeight
<1>2. IndInv' /\ TypeOK'
  BY <1>1, ManagerUntouched DEF IterationInv
<1>3. tip' = tip /\ csMain' = Nil /\ broken' = broken /\ tip \in Block /\ Height[tip] \in Nat
  BY <1>1, TreeAssumption DEF vars, IterationInv, IndInv, TypeOK
<1>4. IterationTypeOK'
  BY <1>1, <1>2, <1>3 DEF IterationInv, IterationTypeOK
<1>5. LoopsInv'
  <2> SUFFICES ASSUME NEW u \in Reader
               PROVE  LoopsInv!(u)'
    BY Zenon DEF LoopsInv
  <2>1. CASE u # r
    BY <1>1, <1>3, <2>1, Zenon DEF IterationInv, IterationTypeOK, LoopsInv
  <2>2. CASE u = r
    <3>1. at[r] = 0 /\ got[r] = <<>> /\ ~moved[r] /\ tip \in Ancestors[tip]
      BY <1>1, <1>3, AncestorsClosed, Zenon DEF IterationInv, LoopsInv
    <3>2. /\ state'[r] = "running" /\ max'[r] = Height[tip] /\ seen'[r] = tip
      BY <1>1 DEF IterationInv, IterationTypeOK
    <3> QED
      <4>1. /\ at'[r] = 0 /\ got'[r] = <<>> /\ ~moved'[r] /\ tip \in Ancestors[tip]
        BY <1>1, <3>1, Zenon
      <4> QED
        BY ONLY <1>3, <2>2, <3>2, <4>1
  <2> QED
    BY <2>1, <2>2, Zenon
<1>6. HeightsInv'
  BY <1>1, <1>3 DEF IterationInv, IterationTypeOK, HeightsInv
<1> QED
  BY <1>2, <1>4, <1>5, <1>6 DEF IterationInv

\* The positions of a list one longer are its old positions and the new one.
LEMMA Positions ==
    ASSUME NEW n \in Nat, NEW i \in 1..(n + 1)
    PROVE  (i \in 1..n \/ i = n + 1) /\ (n + 1) - 1 = n
  OBVIOUS

\* next() keeps it, whether it returns or throws.
LEMMA NextKept ==
    ASSUME IterationInv, NEW r \in Reader, ChainIterator_next(r)
    PROVE  IterationInv'
<1>1. /\ state[r] = "running" /\ at[r] <= max[r] /\ csMain = Nil /\ UNCHANGED vars
      /\ at' = [at EXCEPT ![r] = @ + 1]
      /\ max' = max /\ seen' = seen /\ moved' = moved
  BY DEF ChainIterator_next, hasNext
<1>2. IndInv' /\ TypeOK'
  BY <1>1, ManagerUntouched DEF IterationInv
<1>3. /\ tip' = tip /\ csMain' = Nil /\ broken' = broken /\ tip \in Block
      /\ Height[tip] \in Nat /\ Ancestors[tip] \subseteq Block
  <2>1. tip' = tip /\ csMain' = csMain /\ broken' = broken
    BY <1>1, Zenon DEF vars
  <2>2. tip \in Block
    BY DEF IterationInv, IndInv, TypeOK
  <2> QED
    BY <1>1, <2>1, <2>2, TreeAssumption, AncestorsClosed
<1>4. /\ at[r] \in Nat /\ max[r] \in Nat /\ at'[r] = at[r] + 1 /\ got[r] \in Seq(Block)
      /\ seen[r] \in Block /\ max[r] = Height[seen[r]]
      /\ \A u \in Reader : u # r => at'[u] = at[u]
  BY <1>1, Zenon DEF IterationInv, IterationTypeOK, LoopsInv
<1>5. \/ /\ \A b \in Ancestors[tip] : Height[b] # at[r]
         /\ state' = [state EXCEPT ![r] = "thrown"] /\ got' = got
      \/ /\ \E b \in Ancestors[tip] : /\ Height[b] = at[r]
                                      /\ got' = [got EXCEPT ![r] = Append(@, b)]
         /\ state' = state
  BY Zenon DEF ChainIterator_next, getByHeight
<1>6. IterationTypeOK'
  <2>1. at \in [Reader -> Nat] /\ at' \in [Reader -> Nat]
    BY <1>1 DEF IterationInv, IterationTypeOK
  <2>2. state' \in [Reader -> {"idle", "running", "done", "thrown"}]
    BY <1>5, Zenon DEF IterationInv, IterationTypeOK
  <2>3. got' \in [Reader -> Seq(Block)]
    <3>1. got \in [Reader -> Seq(Block)]
      BY DEF IterationInv, IterationTypeOK
    <3>2. \A b \in Ancestors[tip] : Append(got[r], b) \in Seq(Block)
      BY <1>3, <1>4
    <3> QED
      BY <1>5, <3>1, <3>2, Zenon
  <2> QED
    BY <1>1, <1>2, <2>1, <2>2, <2>3 DEF IterationInv, IterationTypeOK
<1>7. LoopsInv'
  <2> SUFFICES ASSUME NEW u \in Reader
               PROVE  LoopsInv!(u)'
    BY DEF LoopsInv
  <2>1. CASE u # r
    <3>1. /\ state'[u] = state[u] /\ got'[u] = got[u] /\ at'[u] = at[u] /\ max'[u] = max[u]
          /\ seen'[u] = seen[u] /\ moved'[u] = moved[u]
      BY <1>1, <1>4, <1>5, <2>1, Zenon DEF IterationInv, IterationTypeOK
    <3>2. LoopsInv!(u)
      BY Zenon DEF IterationInv, LoopsInv
    <3> QED
      BY ONLY <1>3, <3>1, <3>2, Zenon
  <2>2. CASE u = r /\ state' = [state EXCEPT ![r] = "thrown"]
    BY <1>1, <2>2 DEF IterationInv, IterationTypeOK
  <2>3. CASE u = r /\ state' = state
    <3>1. PICK b \in Ancestors[tip] : Height[b] = at[r] /\ got' = [got EXCEPT ![r] = Append(@, b)]
      BY <1>1, <1>5, <2>3, Zenon DEF IterationInv, IterationTypeOK
    <3>2. /\ got'[r] = Append(got[r], b) /\ b \in Block
          /\ Len(got'[r]) = Len(got[r]) + 1 /\ got'[r][Len(got[r]) + 1] = b
          /\ \A i \in 1..Len(got[r]) : got'[r][i] = got[r][i]
      <4>1. got'[r] = Append(got[r], b)
        BY <3>1, Zenon DEF IterationInv, IterationTypeOK
      <4>2. b \in Block
        BY <1>3, Zenon
      <4> QED
        BY ONLY <1>4, <4>1, <4>2
    <3>3. ASSUME ~moved[r]
          PROVE  /\ Len(got'[r]) = at'[r] /\ seen[r] \in Ancestors[tip]
                 /\ \A i \in 1..at'[r] :
                       got'[r][i] \in Ancestors[seen[r]] /\ Height[got'[r][i]] = i - 1
      <4>1. /\ Len(got[r]) = at[r] /\ seen[r] \in Ancestors[tip]
            /\ \A i \in 1..at[r] :
                  got[r][i] \in Ancestors[seen[r]] /\ Height[got[r][i]] = i - 1
        BY <1>1, <3>3, Zenon DEF IterationInv, LoopsInv
      <4>2. b \in Ancestors[seen[r]]
        BY <1>1, <1>3, <1>4, <3>1, <4>1, AncestorsLinear, Zenon
      <4>3. ASSUME NEW i \in 1..at'[r]
            PROVE  got'[r][i] \in Ancestors[seen[r]] /\ Height[got'[r][i]] = i - 1
        <5>1. CASE i \in 1..at[r]
          BY ONLY <3>2, <4>1, <5>1, Zenon
        <5>2. at[r] \in Nat /\ i \in 1..(at[r] + 1)
          BY ONLY <1>4, <4>3
        <5>3. (i \in 1..at[r] \/ i = at[r] + 1) /\ (at[r] + 1) - 1 = at[r]
          BY ONLY <5>2, Positions
        <5>4. CASE i = at[r] + 1
          <6>1. got'[r][at[r] + 1] = b /\ Height[b] = at[r]
            BY ONLY <3>1, <3>2, <4>1, Zenon
          <6> QED
            BY ONLY <4>2, <5>3, <5>4, <6>1, Zenon
        <5> QED
          BY ONLY <5>1, <5>3, <5>4, Zenon
      <4> QED
        BY ONLY <1>4, <3>2, <4>1, <4>3, Zenon
    <3>4. /\ state'[r] = "running" /\ max'[r] = Height[seen'[r]] /\ at'[r] <= max'[r] + 1
          /\ seen'[r] = seen[r] /\ moved'[r] = moved[r]
      BY ONLY <1>1, <1>4, <2>3
    <3> QED
      BY ONLY <1>3, <2>3, <3>3, <3>4, Zenon
  <2> QED
    BY <1>5, <2>1, <2>2, <2>3, Zenon
<1>8. HeightsInv'
  <2> SUFFICES ASSUME \A b \in Block : ChainWork[b] = Height[b], ~broken,
                      NEW u \in Reader
               PROVE  /\ state'[u] # "thrown"
                      /\ state'[u] = "running" => max[u] <= Height[tip]
    BY <1>1, <1>3, Zenon DEF HeightsInv
  <2>1. /\ state[u] # "thrown" /\ (state[u] = "running" => max[u] <= Height[tip])
        /\ max[r] <= Height[tip]
    BY <1>1, Zenon DEF IterationInv, HeightsInv
  <2>2. \E b \in Ancestors[tip] : Height[b] = at[r]
    <3>1. at[r] \in Nat /\ at[r] <= Height[tip]
      <4>1. at[r] <= max[r]
        BY <1>1, Zenon
      <4> QED
        BY ONLY <1>3, <1>4, <2>1, <4>1
    <3> QED
      BY ONLY <1>3, <3>1, HeightReached
  <2>3. state' = state
    BY <1>5, <2>2, Zenon
  <2> QED
    BY <2>1, <2>3
<1> QED
  BY <1>2, <1>6, <1>7, <1>8 DEF IterationInv

\* The last hasNext() keeps it.
LEMMA EndsKept ==
    ASSUME IterationInv, NEW r \in Reader, ChainIterator_ends(r)
    PROVE  IterationInv'
<1>1. /\ state[r] = "running" /\ ~(at[r] <= max[r]) /\ UNCHANGED vars
      /\ state' = [state EXCEPT ![r] = "done"]
      /\ at' = at /\ max' = max /\ got' = got /\ seen' = seen /\ moved' = moved
  BY Zenon DEF ChainIterator_ends, hasNext
<1>2. IndInv' /\ TypeOK'
  BY <1>1, ManagerUntouched, Zenon DEF IterationInv
<1>3. tip' = tip /\ csMain' = csMain /\ start' = start /\ broken' = broken
  BY <1>1 DEF vars, locals
<1>4. IterationTypeOK'
  BY <1>1, <1>2 DEF IterationInv, IterationTypeOK
<1>5. LoopsInv'
  <2> SUFFICES ASSUME NEW u \in Reader
               PROVE  LoopsInv!(u)'
    BY DEF LoopsInv
  <2>1. CASE u # r
    BY <1>1, <1>3, <2>1, Zenon DEF IterationInv, IterationTypeOK, LoopsInv
  <2>2. CASE u = r
    <3>1. state'[r] = "done" /\ at[r] \in Nat /\ max[r] \in Nat
      BY <1>1 DEF IterationInv, IterationTypeOK
    <3>2. at[r] = Height[seen[r]] + 1
      BY <1>1, <3>1 DEF IterationInv, LoopsInv
    <3>3. ~moved[r] =>
              /\ Len(got[r]) = at[r]
              /\ \A i \in 1..at[r] :
                    got[r][i] \in Ancestors[seen[r]] /\ Height[got[r][i]] = i - 1
      BY <1>1, Zenon DEF IterationInv, LoopsInv
    <3> QED
      BY <1>1, <2>2, <3>1, <3>2, <3>3, Zenon
  <2> QED
    BY <2>1, <2>2, Zenon
<1>6. HeightsInv'
  BY <1>1, <1>3, Zenon DEF IterationInv, IterationTypeOK, HeightsInv
<1> QED
  BY <1>2, <1>4, <1>5, <1>6 DEF IterationInv

\* So it holds always.
LEMMA IterationInductive ==
    IterationSpec => []IterationInv
<1>1. IterationInv /\ [IterationNext]_allVars => IterationInv'
  <2> SUFFICES ASSUME IterationInv, [IterationNext]_allVars PROVE IterationInv'
    OBVIOUS
  <2>1. CASE UNCHANGED allVars
    <3>1. UNCHANGED vars /\ UNCHANGED iterators
      BY <2>1 DEF allVars
    <3>2. IndInv' /\ TypeOK'
      BY <3>1, ManagerUntouched DEF IterationInv
    <3>3. tip' = tip /\ csMain' = csMain /\ start' = start /\ broken' = broken
      BY <3>1 DEF vars, locals
    <3>4. IterationTypeOK'
      BY <3>1, <3>2 DEF iterators, IterationInv, IterationTypeOK
    <3>5. LoopsInv'
      BY <3>1, <3>3, Zenon DEF iterators, IterationInv, LoopsInv
    <3>6. HeightsInv'
      BY <3>1, <3>3, Zenon DEF iterators, IterationInv, HeightsInv
    <3> QED
      BY <3>2, <3>4, <3>5, <3>6 DEF IterationInv
  <2>2. CASE IterationNext
    BY <2>2, ChangesKept, IteratorKept, NextKept, EndsKept DEF IterationNext, Iterate
  <2> QED
    BY <2>1, <2>2
<1> QED
  BY <1>1, IterationInitHolds, PTL DEF IterationSpec

----------------------------------------------------------------------------
(* Theorems *)

\* Loops only read, by the shape of their actions: the theorems about BestChain
\* hold beside them too (Chain, ChainIterator).
LEMMA ReadersOnlyRead ==
    IterationSpec => Spec
<1>1. IterationInit => Init
  BY DEF IterationInit
<1>2. [IterationNext]_allVars => [Next]_vars
  BY Zenon DEF IterationNext, Iterate, Chain_changes, Chain_iterator,
         ChainIterator_next, ChainIterator_ends, allVars
<1> QED
  BY <1>1, <1>2, PTL DEF IterationSpec, Spec

\* The height, the entries and the state of every loop keep their types, and so
\* does the manager beside them (iterator(), hasNext(), next()).
THEOREM IterationTypes ==
    IterationSpec => []IterationTypeOK
<1>1. IterationInv => IterationTypeOK
  BY DEF IterationInv
<1> QED
  BY <1>1, IterationInductive, PTL

\* Beside any number of loops, the active chain is valid, the best one is active
\* when all calls have returned, and the block index passes its own check
\* until a reload (ProcessNewBlock, ActivateBestChain, CheckBlockIndex).
THEOREM ChainIsRightForReaders ==
    ASSUME "reload" \notin Failures
    PROVE  IterationSpec => [](OnlyValid /\ BestWhenIdle /\ CheckBlockIndex)
<1> QED
  BY ReadersOnlyRead, ActiveChainIsValid, BestChainIsActive,
     IndexPassesItsCheck, PTL

\* A loop over a Chain under which no block was disconnected returns exactly the
\* chain that was active when it began, whatever other threads connect
\* meanwhile (iterator(), hasNext(), next()).
THEOREM LoopsSeeTheirChain ==
    IterationSpec => []SnapshotUnlessReorganized
<1>1. IterationInv => SnapshotUnlessReorganized
  <2> SUFFICES ASSUME IterationInv, NEW r \in Reader, state[r] = "done", ~moved[r]
               PROVE  /\ {got[r][i] : i \in DOMAIN got[r]} = Ancestors[seen[r]]
                      /\ \A i \in DOMAIN got[r] : Height[got[r][i]] = i - 1
    BY DEF SnapshotUnlessReorganized
  <2>1. /\ seen[r] \in Block /\ got[r] \in Seq(Block) /\ Height[seen[r]] \in Nat
        /\ at[r] = Height[seen[r]] + 1 /\ DOMAIN got[r] = 1..at[r]
        /\ \A i \in 1..at[r] :
              got[r][i] \in Ancestors[seen[r]] /\ Height[got[r][i]] = i - 1
    <3>1. seen[r] \in Block /\ got[r] \in Seq(Block) /\ at[r] \in Nat
      BY DEF IterationInv, IterationTypeOK
    <3>2. Height[seen[r]] \in Nat
      BY <3>1, TreeAssumption
    <3>3. LoopsInv!(r)
      BY Zenon DEF IterationInv, LoopsInv
    <3>4. DOMAIN got[r] = 1..Len(got[r])
      BY <3>1
    <3>5. state[r] = "done" /\ ~moved[r]
      OBVIOUS
    <3> QED
      BY ONLY <3>1, <3>2, <3>3, <3>4, <3>5, Zenon
  <2>2. ASSUME NEW a \in Ancestors[seen[r]]
        PROVE  \E i \in 1..at[r] : got[r][i] = a
    <3>1. Height[a] \in Nat /\ Height[a] <= Height[seen[r]]
      <4>1. a \in Block /\ Height[a] \in Nat
        BY <2>1, <2>2, AncestorsClosed, TreeAssumption, Zenon
      <4>2. a # seen[r] => Height[a] < Height[seen[r]]
        BY <2>1, <2>2, AncestorsLower, Zenon
      <4> QED
        BY <2>1, <4>1, <4>2
    <3>2. Height[a] + 1 \in 1..at[r] /\ Height[got[r][Height[a] + 1]] = Height[a]
      <4>1. Height[a] + 1 \in 1..at[r] /\ (Height[a] + 1) - 1 = Height[a]
        BY ONLY <2>1, <3>1
      <4> QED
        BY ONLY <2>1, <4>1, Zenon
    <3>3. got[r][Height[a] + 1] = a
      BY <2>1, <2>2, <3>2, AncestorsUnique, Zenon
    <3> QED
      BY <3>2, <3>3
  <2>3. {got[r][i] : i \in DOMAIN got[r]} \subseteq Ancestors[seen[r]]
    BY <2>1, Zenon
  <2>4. Ancestors[seen[r]] \subseteq {got[r][i] : i \in DOMAIN got[r]}
    BY <2>1, <2>2, Zenon
  <2> QED
    BY <2>1, <2>3, <2>4, Zenon
<1> QED
  BY <1>1, IterationInductive, PTL

\* Where all blocks have the same work, next() finds an entry at every height up
\* to the one read when the loop began, through any reorganization, unless a
\* system error stops one half way (next(), ActivateBestChain).
THEOREM LoopsDoNotThrow ==
    IterationSpec => []EqualWorkNeverThrows
<1>1. IterationInv => EqualWorkNeverThrows
  BY DEF IterationInv, HeightsInv, EqualWorkNeverThrows
<1> QED
  BY <1>1, IterationInductive, PTL

\* The chain that can be seen now, or was seen last, has no less work than the
\* one a loop began with.
WorkInv ==
    ~broken => \A r \in Reader : state[r] # "idle" =>
        ChainWork[seen[r]] <= ChainWork[IF csMain = Nil THEN tip ELSE start]

\* Steps of the manager keep it.
LEMMA ChangesKeepWork ==
    ASSUME IterationInv, WorkInv, Chain_changes
    PROVE  WorkInv'
<1>1. Next /\ state' = state /\ seen' = seen
  BY DEF Chain_changes
<1>2. IndInv /\ TypeOK /\ Moves
  BY <1>1, MovesForward DEF IterationInv, IndInv
<1> SUFFICES ASSUME ~broken', NEW r \in Reader, state[r] # "idle"
             PROVE  ChainWork[seen[r]]
                       <= ChainWork[IF csMain' = Nil THEN tip' ELSE start']
  BY <1>1 DEF WorkInv
<1>3. ~broken /\ ChainWork[seen[r]] <= ChainWork[IF csMain = Nil THEN tip ELSE start]
  BY <1>2 DEF Moves, WorkInv
<1>4. CASE csMain' = Nil /\ csMain # Nil /\ tip' = tip /\ ~Worse(tip, start)
  <2>1. start \in Block /\ tip \in Block /\ seen[r] \in Block
    <3>1. csMain \in Thread /\ pc[csMain] \in Locked
      BY <1>2, <1>4, Zenon DEF TypeOK, IndInv, LocksInv
    <3> QED
      BY <1>2, <3>1, Zenon DEF TypeOK, IndInv, TargetInv, IterationInv, IterationTypeOK
  <2>2. /\ ChainWork[start] \in Nat /\ ChainWork[tip] \in Nat /\ ChainWork[seen[r]] \in Nat
    BY <2>1, TreeAssumption, Zenon
  <2>3. ChainWork[start] <= ChainWork[tip]
    BY <1>4, <2>2 DEF Worse, SortsBefore
  <2> QED
    BY <1>3, <1>4, <2>2, <2>3
<1> QED
  BY <1>2, <1>3, <1>4 DEF Moves

\* What is seen never has less work than what was seen before: whatever
\* ProcessBlock does after a loop has begun, and however long after, the tip
\* that getTip() or another loop finds has at least the work of the tip that
\* loop began with, until a system error stops a reorganization half way
\* (iterator(), ActivateBestChain).
THEOREM SeenWorkNeverFalls ==
    IterationSpec =>
        [](~broken => \A r \in Reader : state[r] # "idle" /\ csMain = Nil =>
              ChainWork[seen[r]] <= ChainWork[tip])
<1>1. IterationInit => WorkInv
  BY DEF IterationInit, WorkInv
<1>2. IterationInv /\ WorkInv /\ [IterationNext]_allVars => WorkInv'
  <2> SUFFICES ASSUME IterationInv, WorkInv, [IterationNext]_allVars PROVE WorkInv'
    OBVIOUS
  <2>1. CASE Chain_changes
    BY <2>1, ChangesKeepWork
  <2>2. ASSUME UNCHANGED vars, UNCHANGED seen,
               \A r \in Reader : state'[r] # "idle" => state[r] # "idle"
        PROVE  WorkInv'
    <3>1. tip' = tip /\ csMain' = csMain /\ start' = start /\ broken' = broken
      BY <2>2 DEF vars, locals
    <3> QED
      BY <2>2, <3>1 DEF WorkInv
  <2>3. ASSUME NEW r \in Reader, Iterate(r) PROVE WorkInv'
    <3>1. UNCHANGED vars /\ UNCHANGED seen /\ state[r] = "running"
      BY <2>3 DEF Iterate, ChainIterator_next, ChainIterator_ends
    <3>2. \A u \in Reader : u # r => state'[u] = state[u]
      BY <2>3 DEF Iterate, ChainIterator_next, ChainIterator_ends, IterationInv,
                  IterationTypeOK
    <3> QED
      BY <2>2, <3>1, <3>2
  <2>4. ASSUME NEW r \in Reader, Chain_iterator(r) PROVE WorkInv'
    <3>1. /\ csMain = Nil /\ tip' = tip /\ csMain' = csMain /\ start' = start
          /\ broken' = broken
          /\ state' = [state EXCEPT ![r] = "running"] /\ seen' = [seen EXCEPT ![r] = tip]
      BY <2>4 DEF Chain_iterator, vars, locals
    <3>2. seen'[r] = tip /\ \A u \in Reader \ {r} : seen'[u] = seen[u] /\ state'[u] = state[u]
      BY <3>1 DEF IterationInv, IterationTypeOK
    <3>3. ChainWork[tip] \in Nat
      BY TreeAssumption, Zenon DEF IterationInv, IterationTypeOK, TypeOK
    <3>4. ChainWork[tip] <= ChainWork[tip]
      BY <3>3
    <3> QED
      BY <3>1, <3>2, <3>4 DEF WorkInv
  <2>5. CASE UNCHANGED allVars
    BY <2>2, <2>5 DEF allVars, iterators
  <2> QED
    BY <2>1, <2>3, <2>4, <2>5 DEF IterationNext
<1>3. WorkInv => (~broken => \A r \in Reader : state[r] # "idle" /\ csMain = Nil =>
                     ChainWork[seen[r]] <= ChainWork[tip])
  BY Zenon DEF WorkInv
<1> QED
  BY <1>1, <1>2, <1>3, IterationInductive, PTL DEF IterationSpec

============================================================================
