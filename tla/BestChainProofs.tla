-------------------------- MODULE BestChainProofs --------------------------
(* Proofs about the specification in BestChain, for any tree of blocks, any *)
(* number of threads and any of the failures.                               *)
EXTENDS BestChainProgress

----------------------------------------------------------------------------
(* What is still to be activated *)

\* Every step keeps a thread for what is better than the tip.
LEMMA PendingStep ==
    ASSUME TypeOK, OnlyValid, LocksInv, EntriesInv, TargetInv, ProgressInv, PendingInv, [Next]_vars
    PROVE  PendingInv'
<1>1. ASSUME NEW t \in Thread, NEW b \in Block, ProcessNewBlock_known(t, b)
      PROVE  PendingInv'
  <2>1. pc'[t] = "accepted"
    BY <1>1 DEF ProcessNewBlock_known, TypeOK
  <2> QED
    BY <2>1 DEF PendingInv
<1>2. ASSUME NEW t \in Thread, NEW b \in Block, ProcessNewBlock_invalid(t, b)
      PROVE  PendingInv'
  <2>1. /\ data' = data /\ seq' = seq /\ tip' = tip /\ mutex' = mutex /\ most' = most
        /\ broken' = broken /\ interrupted' = interrupted
        /\ \A u \in Thread : pc[u] = "accepted" => pc'[u] = "accepted"
    BY <1>2 DEF ProcessNewBlock_invalid, entries, locals, TypeOK
  <2> QED
    BY <2>1 DEF PendingInv, Worse, Sound
<1>3. ASSUME NEW t \in Thread, NEW b \in Block, ProcessNewBlock_unwritten(t, b)
      PROVE  PendingInv'
  <2>1. /\ data' = data /\ seq' = seq /\ tip' = tip /\ mutex' = mutex /\ most' = most
        /\ broken' = broken /\ interrupted' = interrupted
        /\ \A u \in Thread : pc[u] = "accepted" => pc'[u] = "accepted"
    BY <1>3 DEF ProcessNewBlock_unwritten, entries, locals, TypeOK
  <2> QED
    BY <2>1 DEF PendingInv, Worse, Sound
<1>4. ASSUME NEW t \in Thread, NEW b \in Block, ProcessNewBlock_stored(t, b)
      PROVE  PendingInv'
  <2>1. pc'[t] = "accepted"
    BY <1>4 DEF ProcessNewBlock_stored, TypeOK
  <2> QED
    BY <2>1 DEF PendingInv
<1>5. ASSUME NEW t \in Thread, ActivateBestChain_enter(t)
      PROVE  PendingInv'
  <2>1. mutex' = t /\ most' = Nil
    BY <1>5, OneThread DEF ActivateBestChain_enter, Locked
  <2> QED
    BY <2>1 DEF PendingInv
<1>6. ASSUME NEW t \in Thread, ActivateBestChain_lock(t)
      PROVE  PendingInv'
  <2>1. /\ data' = data /\ seq' = seq /\ tip' = tip /\ mutex' = mutex /\ most' = most
        /\ broken' = broken /\ interrupted' = interrupted
        /\ \A u \in Thread : pc[u] = "accepted" => pc'[u] = "accepted"
    BY <1>6 DEF ActivateBestChain_lock, entries, locals, TypeOK
  <2> QED
    BY <2>1 DEF PendingInv, Worse, Sound
<1>7. ASSUME NEW t \in Thread, ActivateBestChain_choose(t)
      PROVE  PendingInv'
  <2> SUFFICES ASSUME ~broken, ~interrupted PROVE PendingInv'
    BY <1>7 DEF PendingInv, ActivateBestChain_choose
  <2>1. /\ pc[t] = "choose" /\ tip' = tip /\ data' = data /\ seq' = seq
        /\ mutex' = mutex /\ interrupted' = interrupted /\ broken' = broken
        /\ \A u \in Thread : pc[u] = "accepted" => pc'[u] = "accepted"
    BY <1>7 DEF ActivateBestChain_choose, TypeOK
  <2>2. CASE most # Nil
    <3>1. most' = most
      BY <1>7, <2>2, ChooseFacts
    <3> QED
      BY <2>1, <3>1 DEF PendingInv, Worse, Sound
  <2>3. CASE most = Nil
    <3>1. ASSUME NEW c \in data, Sound(c), Worse(tip, c)
          PROVE  mutex = t /\ ~Worse(most', c)
      <4>1. /\ c \in Block /\ tip \in Block /\ start \in Block /\ seq \in [Block -> Nat]
            /\ csMain # Nil /\ mutex = t /\ cand \subseteq Block
        BY <2>1, OneThread, OthersAssumption DEF Locked, TargetInv, TypeOK
      <4>2. c \in linked \ failed /\ ~Hopeless(c)
        BY <3>1, <4>1, TipIsLinked, SoundIsUsable DEF Sound, AllValid
      <4>3. ~Worse(c, tip)
        BY <3>1, <4>1, OrderIsStrict DEF Worse
      <4>4. CASE ~Worse(c, start)
        <5>1. c \in cand
          BY <4>1, <4>2, <4>3, <4>4 DEF ProgressInv
        <5> QED
          BY <1>7, <2>3, <4>1, <4>2, <5>1, ChooseFacts
      <4>5. CASE Worse(c, start)
        <5>1. most' # Nil /\ ~Worse(most', start)
          BY <1>7, <2>1, <2>3, StartIsCandidate, ChooseFacts
        <5>2. most' \in Block
          BY <1>7, <2>3, <4>1, <5>1, ChooseFacts
        <5> QED
          BY <4>1, <4>5, <5>1, <5>2, OrderIsTransitive DEF Worse
      <4> QED
        BY <4>4, <4>5
    <3> QED
      BY <2>1, <3>1 DEF PendingInv, Worse, Sound
  <2> QED
    BY <2>2, <2>3
<1>8. ASSUME NEW t \in Thread, DisconnectTip(t)
      PROVE  PendingInv'
  <2> SUFFICES ASSUME ~broken, ~interrupted PROVE PendingInv'
    BY <1>8 DEF PendingInv, DisconnectTip
  <2>1. /\ pc[t] = "step" /\ data' = data /\ seq' = seq /\ mutex' = mutex /\ most' = most
        /\ interrupted' = interrupted /\ broken' = broken /\ pc' = pc
        /\ tip \notin Ancestors[most]
    BY <1>8 DEF DisconnectTip, entries, locals
  <2>2. ASSUME NEW c \in data, Sound(c), Worse(tip', c)
        PROVE  \E u \in Thread : \/ pc[u] = "accepted"
                                 \/ mutex = u /\ (most = Nil \/ ~Worse(most, c))
    <3>1. CASE Worse(tip, c)
      BY <2>2, <3>1 DEF PendingInv
    <3>2. CASE ~Worse(tip, c)
      <4>1. /\ c \in Block /\ tip \in Block /\ start \in Block /\ seq \in [Block -> Nat]
            /\ mutex = t /\ most \in Block
        BY <2>1, OneThread DEF Locked, TargetInv, TypeOK
      <4>2. ~Worse(start, tip) /\ ~Worse(most, start)
        BY <2>1, <4>1, OthersAssumption DEF ProgressInv
      <4>3. ~Worse(start, c)
        BY <3>2, <4>1, <4>2, OrderIsNegativelyTransitive DEF Worse
      <4>4. ~Worse(most, c)
        BY <4>1, <4>2, <4>3, OrderIsNegativelyTransitive DEF Worse
      <4> QED
        BY <4>1, <4>4
    <3> QED
      BY <3>1, <3>2
  <2> QED
    BY <2>1, <2>2 DEF PendingInv, Worse, Sound
<1>9. ASSUME NEW t \in Thread, ConnectTip(t)
      PROVE  PendingInv'
  <2> SUFFICES ASSUME ~broken, ~interrupted PROVE PendingInv'
    BY <1>9 DEF PendingInv, ConnectTip
  <2>1. /\ data' = data /\ seq' = seq /\ mutex' = mutex /\ most' = most
        /\ interrupted' = interrupted /\ broken' = broken
        /\ \A u \in Thread : pc[u] = "accepted" => pc'[u] = "accepted"
    BY <1>9 DEF ConnectTip, TypeOK
  <2>2. /\ tip \in Block /\ tip' \in Block /\ seq \in [Block -> Nat]
        /\ tip \in Ancestors[tip']
    BY <1>9, ConnectTipFacts, AncestorsClosed DEF TypeOK
  <2>3. ~Worse(tip', tip)
    BY <2>2, AncestorsWorse DEF Worse
  <2>4. \A c \in data : Worse(tip', c) => Worse(tip, c)
    BY <2>2, <2>3, OrderIsNegativelyTransitive DEF Worse, TypeOK
  <2> QED
    BY <2>1, <2>4 DEF PendingInv, Worse, Sound
<1>10. ASSUME NEW t \in Thread, ConnectTip_invalid(t)
       PROVE  PendingInv'
  <2>1. mutex' = t /\ most' = Nil
    BY <1>10, OneThread DEF ConnectTip_invalid, Locked
  <2> QED
    BY <2>1 DEF PendingInv
<1>11. ASSUME NEW t \in Thread, SystemError(t)
       PROVE  PendingInv'
  BY <1>11 DEF SystemError, PendingInv
<1>12. ASSUME NEW t \in Thread, ActivateBestChain_stepped(t)
       PROVE  PendingInv'
  <2>1. /\ data' = data /\ seq' = seq /\ tip' = tip /\ mutex' = mutex /\ most' = most
        /\ broken' = broken /\ interrupted' = interrupted
        /\ \A u \in Thread : pc[u] = "accepted" => pc'[u] = "accepted"
    BY <1>12 DEF ActivateBestChain_stepped, entries, locals, TypeOK
  <2> QED
    BY <2>1 DEF PendingInv, Worse, Sound
<1>13. ASSUME NEW t \in Thread, ActivateBestChain_unlock(t)
       PROVE  PendingInv'
  <2>1. CASE worked
    <3>1. /\ data' = data /\ seq' = seq /\ tip' = tip /\ mutex' = mutex /\ most' = most
          /\ broken' = broken /\ interrupted' = interrupted
          /\ \A u \in Thread : pc[u] = "accepted" => pc'[u] = "accepted"
      BY <1>13, <2>1 DEF ActivateBestChain_unlock, entries, TypeOK
    <3> QED
      BY <3>1 DEF PendingInv, Worse, Sound
  <2>2. CASE ~worked
    <3>1. /\ data' = data /\ seq' = seq /\ tip' = tip
          /\ broken' = broken /\ interrupted' = interrupted
          /\ \A u \in Thread : pc[u] = "accepted" => pc'[u] = "accepted"
      BY <1>13, <2>2 DEF ActivateBestChain_unlock, entries, TypeOK
    <3>2. ~broken => most = tip /\ most # Nil
      BY <1>13, <2>2, OthersAssumption DEF ActivateBestChain_unlock, ProgressInv, TypeOK
    <3> QED
      BY <3>1, <3>2, Zenon DEF PendingInv, Worse, Sound
  <2> QED
    BY <2>1, <2>2
<1>14. ASSUME NEW t \in Thread, ActivateBestChain_again(t)
       PROVE  PendingInv'
  <2>1. /\ data' = data /\ seq' = seq /\ tip' = tip
        /\ broken' = broken /\ interrupted' = interrupted
        /\ \A u \in Thread : pc[u] = "accepted" => pc'[u] = "accepted"
    BY <1>14 DEF ActivateBestChain_again, entries, TypeOK
  <2>2. CASE Done
    <3>1. ~interrupted => most = tip /\ most # Nil
      BY <2>2, OthersAssumption DEF Done, TypeOK
    <3> QED
      BY <2>1, <3>1, Zenon DEF PendingInv, Worse, Sound
  <2>3. CASE ~Done
    <3>1. mutex' = mutex /\ most' = most
      BY <1>14, <2>3 DEF ActivateBestChain_again
    <3> QED
      BY <2>1, <3>1, Zenon DEF PendingInv, Worse, Sound
  <2> QED
    BY <2>2, <2>3
<1>15. ASSUME NEW t \in Thread, Reload(t)
       PROVE  PendingInv'
  <2>1. pc'[t] = "accepted"
    BY <1>15, Zenon DEF Reload, TypeOK
  <2> QED
    BY <2>1 DEF PendingInv
<1>16. ASSUME Interrupt
       PROVE  PendingInv'
  BY <1>16 DEF Interrupt, PendingInv
<1>17. CASE UNCHANGED vars
  BY <1>17, Zenon DEF PendingInv, Worse, Sound, vars, entries, locals
<1> QED
  BY <1>1, <1>2, <1>3, <1>4, <1>5, <1>6, <1>7, <1>8, <1>9, <1>10, <1>11,
     <1>12, <1>13, <1>14, <1>15, <1>16, <1>17 DEF Next, ProcessNewBlock,
     ActivateBestChain

----------------------------------------------------------------------------
(* The block index *)

\* A header that is added, or known and good, extends a chain of the index that
\* has no failed block (AcceptBlockHeader).
LEMMA HeaderExtendsIndex ==
    ASSUME TypeOK, OnlyValid, IndexInv, NEW b \in Block, HeaderAccepted(b),
           b \notin data
    PROVE  /\ b # Genesis /\ b \notin failed
           /\ Parent[b] \in index \ failed
           /\ Ancestors[b] = {b} \cup Ancestors[Parent[b]]
           /\ Ancestors[b] \subseteq index \cup {b}
           /\ Ancestors[b] \cap failed = {}
<1>1. b # Genesis
  BY GenesisIsStored
<1>2. /\ Parent[b] \in Block /\ Ancestors[b] = {b} \cup Ancestors[Parent[b]]
      /\ b \in Ancestors[b] /\ Parent[b] \in Ancestors[b]
  BY <1>1, AncestorsOfChild, AncestorsClosed
<1>3. CASE b \in index \ failed
  <2>1. Ancestors[b] \subseteq index /\ Ancestors[b] \cap failed = {}
    BY <1>3 DEF IndexInv
  <2> QED
    BY <1>1, <1>2, <1>3, <2>1
<1>4. CASE b \notin index /\ Parent[b] \in index \ failed
  <2>1. /\ Ancestors[Parent[b]] \subseteq index
        /\ Ancestors[Parent[b]] \cap failed = {} /\ b \notin failed
    BY <1>4 DEF IndexInv
  <2> QED
    BY <1>1, <1>2, <1>4, <2>1
<1> QED
  BY <1>1, <1>3, <1>4 DEF HeaderAccepted

\* What the index says of failures when b joins it.
LEMMA HeaderKeepsIndex ==
    ASSUME TypeOK, OnlyValid, IndexInv, NEW b \in Block, HeaderAccepted(b),
           b \notin data
    PROVE  /\ \A c \in index \cup {b} : Ancestors[c] \subseteq index \cup {b}
           /\ \A c \in index \cup {b} : Ancestors[c] \cap failed # {} => c \in failed
<1>1. Ancestors[b] \subseteq index \cup {b} /\ Ancestors[b] \cap failed = {}
  BY HeaderExtendsIndex
<1> QED
  BY <1>1 DEF IndexInv

\* Marking a block and what is above it keeps failures closed upwards
\* (SetBlockFailureFlags).
LEMMA MarkingKeepsIndex ==
    ASSUME TypeOK, IndexInv, NEW b \in Block,
           b \in linked \/ Verdict[b] = "badContext",
           \A c \in index \cup {b} : Ancestors[c] \cap failed # {} => c \in failed
    PROVE  /\ failed \cup Descendants(b) \subseteq index \cup {b}
           /\ \A c \in index \cup {b} :
                 Ancestors[c] \cap (failed \cup Descendants(b)) # {} =>
                    c \in failed \cup Descendants(b)
           /\ \A c \in failed \cup Descendants(b) :
                 \E a \in Ancestors[c] \cap (failed \cup Descendants(b)) :
                    a \in linked \/ Verdict[a] = "badContext"
<1> DEFINE F == failed \cup Descendants(b)
<1>1. /\ Descendants(b) = {d \in index \cup {b} : b \in Ancestors[d]}
      /\ index \cup {b} \subseteq Block
  BY DEF Descendants, TypeOK
<1>2. b \in Ancestors[b]
  BY AncestorsClosed
<1>3. b \in Descendants(b)
  BY <1>1, <1>2
<1>4. F \subseteq index \cup {b}
  BY <1>1 DEF IndexInv
<1>5. ASSUME NEW c \in index \cup {b}, NEW a \in Ancestors[c], a \in F
      PROVE  c \in F
  <2>1. CASE a \in failed
    BY <1>5, <2>1
  <2>2. CASE a \in Descendants(b)
    <3>1. Ancestors[a] \subseteq Ancestors[c] /\ b \in Ancestors[a]
      BY <1>1, <1>5, <2>2, AncestorsTransitive
    <3> QED
      BY <1>1, <1>5, <3>1
  <2> QED
    BY <1>5, <2>1, <2>2
<1>6. ASSUME NEW c \in F
      PROVE  \E a \in Ancestors[c] \cap F : a \in linked \/ Verdict[a] = "badContext"
  <2>1. CASE c \in failed
    BY <2>1 DEF IndexInv
  <2>2. CASE c \in Descendants(b)
    BY <1>1, <1>3, <2>2
  <2> QED
    BY <1>6, <2>1, <2>2
<1> QED
  BY <1>4, <1>5, <1>6

\* A step that leaves the index alone.
LEMMA IndexKept ==
    ASSUME IndexInv, index' = index, data' = data, linked' = linked,
           failed' = failed, unlinked' = unlinked
    PROVE  IndexInv'
  BY DEF IndexInv

\* Storing a block links everything that is complete with it: what waited for
\* it was in m_blocks_unlinked, because a block with data that is neither linked
\* nor waiting is above a failed one, and this block is not
\* (ReceivedBlockTransactions).
LEMMA StoredKeepsIndex ==
    ASSUME TypeOK, OnlyValid, EntriesInv, IndexInv, NEW t \in Thread,
           NEW b \in Block, ProcessNewBlock_stored(t, b)
    PROVE  IndexInv'
<1>1. /\ b \in Block \ {Genesis} /\ b \notin data
      /\ Verdict[b] \in {"valid", "badConnect"}
  BY StoredIsChecked
<1>2. /\ index' = index \cup {b} /\ data' = data \cup {b} /\ failed' = failed
      /\ ReceivedBlockTransactions(b) /\ HeaderAccepted(b)
  BY DEF ProcessNewBlock_stored, Enters
<1>3. /\ b \notin failed /\ Parent[b] \in index \ failed
      /\ Ancestors[b] = {b} \cup Ancestors[Parent[b]]
      /\ Ancestors[b] \cap failed = {}
  BY <1>1, <1>2, HeaderExtendsIndex
<1>4. /\ \A c \in index' : Ancestors[c] \subseteq index'
      /\ \A c \in index' : Ancestors[c] \cap failed' # {} => c \in failed'
  BY <1>1, <1>2, HeaderKeepsIndex
<1>5. data' \subseteq index' /\ failed' \subseteq index'
  BY <1>2 DEF IndexInv
<1>6. \A c \in Block : Ancestors[c] \subseteq Block /\ c \in Ancestors[c]
  BY AncestorsClosed
<1>7. index \subseteq Block /\ data \subseteq Block
  BY DEF TypeOK
<1>8. CASE Parent[b] \in linked
  <2>1. linked' = linked \cup Joins(b) /\ unlinked' = unlinked \ Joins(b)
    BY <1>2, <1>8, Zenon DEF ReceivedBlockTransactions, EntriesInv
  <2>2. \A c \in failed' : \E a \in Ancestors[c] \cap failed' :
           a \in linked' \/ Verdict[a] = "badContext"
    BY <1>2, <2>1, Zenon DEF IndexInv
  <2>3. b \in Joins(b)
    BY DEF Joins
  <2>4. data' \ (linked' \cup failed') \subseteq unlinked'
    BY <1>2, <2>1, <2>3 DEF IndexInv
  <2>5. ASSUME NEW d \in Block, Ancestors[d] \subseteq data'
        PROVE  d \in linked'
    <3>1. CASE Ancestors[d] \subseteq data
      BY <2>1, <3>1 DEF IndexInv
    <3>2. CASE b \in Ancestors[d] /\ d # b
      <4>1. ASSUME NEW a \in Ancestors[d] \ Ancestors[b]
            PROVE  a \in unlinked
        <5>1. a \in Block /\ a # b /\ a \in data
          BY <1>2, <1>3, <1>6, <2>5, <4>1
        <5>2. b \in Ancestors[a]
          <6>1. Height[a] \in Nat /\ Height[b] \in Nat
            BY <5>1, TreeAssumption
          <6>2. Height[b] <= Height[a] \/ Height[a] <= Height[b]
            BY <6>1
          <6>3. ~(Height[a] <= Height[b])
            BY <3>2, <4>1, AncestorsLinear
          <6> QED
            BY <3>2, <4>1, <6>2, <6>3, AncestorsLinear
        <5>3. a \notin linked
          BY <1>1, <5>2 DEF EntriesInv
        <5>4. a \notin failed
          <6> SUFFICES ASSUME a \in failed PROVE FALSE
            OBVIOUS
          <6>1. PICK f \in Ancestors[a] \cap failed :
                   f \in linked \/ Verdict[f] = "badContext"
            BY DEF IndexInv
          <6>2. f \in data' /\ f \in Block /\ f \in Ancestors[d]
            BY <1>6, <2>5, <4>1, <5>1, <6>1, AncestorsTransitive
          <6>3. f \in linked
            BY <1>1, <1>2, <6>1, <6>2, Zenon DEF EntriesInv
          <6>4. f \in Ancestors[b]
            <7>1. Height[f] \in Nat /\ Height[b] \in Nat
              BY <6>2, TreeAssumption
            <7>2. Height[b] <= Height[f] \/ Height[f] <= Height[b]
              BY <7>1
            <7>3. Height[b] <= Height[f] => b \in Ancestors[f]
              BY <3>2, <6>2, AncestorsLinear
            <7>4. b \notin Ancestors[f]
              BY <1>1, <6>3 DEF EntriesInv
            <7> QED
              BY <3>2, <6>2, <7>2, <7>3, <7>4, AncestorsLinear
          <6> QED
            BY <1>3, <6>1, <6>4
        <5> QED
          BY <5>1, <5>3, <5>4 DEF IndexInv
      <4>2. d \notin Ancestors[b]
        <5>1. d \in Ancestors[b] => Height[d] < Height[b]
          BY <3>2, AncestorsLower
        <5>2. Height[b] < Height[d]
          BY <3>2, AncestorsLower
        <5> QED
          BY <5>1, <5>2, TreeAssumption
      <4>3. d \in unlinked
        BY <1>6, <4>1, <4>2
      <4> QED
        BY <2>1, <3>2, <4>1, <4>3 DEF Joins
    <3> QED
      BY <1>2, <2>1, <2>3, <2>5, <3>1, <3>2
  <2> QED
    BY <1>4, <1>5, <2>2, <2>4, <2>5 DEF IndexInv
<1>9. CASE Parent[b] \notin linked
  <2>1. linked' = linked /\ unlinked' = unlinked \cup {b}
    BY <1>2, <1>3, <1>9, Zenon DEF ReceivedBlockTransactions
  <2>2. \A c \in failed' : \E a \in Ancestors[c] \cap failed' :
           a \in linked' \/ Verdict[a] = "badContext"
    BY <1>2, <2>1, Zenon DEF IndexInv
  <2>3. data' \ (linked' \cup failed') \subseteq unlinked'
    BY <1>2, <2>1, Zenon DEF IndexInv
  <2>4. ASSUME NEW d \in Block, Ancestors[d] \subseteq data'
        PROVE  d \in linked'
    <3>1. b \notin Ancestors[d]
      <4> SUFFICES ASSUME b \in Ancestors[d] PROVE FALSE
        OBVIOUS
      <4>1. Ancestors[b] \subseteq data'
        BY <2>4, AncestorsTransitive
      <4>2. Parent[b] \in Block /\ b \notin Ancestors[Parent[b]]
        <5>1. Parent[b] \in Block
          BY <1>3, <1>7
        <5>2. Height[b] = Height[Parent[b]] + 1 /\ Height[Parent[b]] \in Nat
          BY <1>1, <5>1, TreeAssumption
        <5>3. b \in Ancestors[Parent[b]] /\ b # Parent[b] => Height[b] < Height[Parent[b]]
          BY <5>1, AncestorsLower
        <5> QED
          BY <5>1, <5>2, <5>3
      <4>3. Ancestors[Parent[b]] \subseteq data
        BY <1>2, <1>3, <4>1, <4>2, Zenon
      <4> QED
        BY <1>9, <4>2, <4>3 DEF IndexInv
    <3>2. Ancestors[d] \subseteq data
      BY <1>2, <2>4, <3>1
    <3> QED
      BY <2>1, <3>2 DEF IndexInv
  <2> QED
    BY <1>4, <1>5, <2>2, <2>3, <2>4 DEF IndexInv
<1> QED
  BY <1>8, <1>9

\* A manager that is made again finds the links and the failures as they were
\* (LoadBlockIndex).
LEMMA ReloadKeepsIndex ==
    ASSUME TypeOK, OnlyValid, EntriesInv, IndexInv, NEW t \in Thread, Reload(t)
    PROVE  IndexInv' /\ linked' = linked /\ failed' = failed
<1>1. /\ index' = index /\ data' = data
      /\ linked' = {b \in data : Ancestors[b] \subseteq data}
      /\ failed' = {b \in index : Ancestors[b] \cap failed # {}}
      /\ unlinked' = {b \in data \ {Genesis} :
                         Parent[b] \notin {c \in data : Ancestors[c] \subseteq data}}
  BY Zenon DEF Reload
<1>2. /\ index \subseteq Block /\ data \subseteq Block /\ linked \subseteq Block
      /\ \A b \in Block : b \in Ancestors[b]
  BY AncestorsClosed DEF TypeOK
<1>3. linked' = linked
  <2>1. ASSUME NEW b \in linked PROVE b \in linked'
    BY <1>1, <1>2, Zenon DEF EntriesInv
  <2>2. ASSUME NEW b \in linked' PROVE b \in linked
    BY <1>1, <1>2, Zenon DEF IndexInv
  <2> QED
    BY <2>1, <2>2, Zenon
<1>4. failed' = failed
  BY <1>1, <1>2, Zenon DEF IndexInv
<1>5. data' \ (linked' \cup failed') \subseteq unlinked'
  <2> SUFFICES ASSUME NEW b \in data, b \notin linked
               PROVE  b \in unlinked'
    BY <1>1, <1>3
  <2>1. b \in Block /\ b # Genesis
    <3>1. b \in Block
      BY <1>2, Zenon
    <3>2. b = Genesis => Ancestors[b] \subseteq data
      BY ONLY <3>1, AncestorsOfGenesis, b \in data
    <3> QED
      BY <3>1, <3>2, Zenon DEF IndexInv
  <2>2. Ancestors[b] = {b} \cup Ancestors[Parent[b]] /\ Parent[b] \in Block
    BY <2>1, AncestorsOfChild
  <2>3. ~(Ancestors[Parent[b]] \subseteq data)
    BY <2>1, <2>2 DEF IndexInv
  <2> QED
    BY <1>1, <2>1, <2>3, Zenon
<1>6. IndexInv'
  <2>0. index' = index /\ data' = data
    BY <1>1
  <2>1. /\ data' \subseteq index' /\ failed' \subseteq index'
        /\ \A b \in index' : Ancestors[b] \subseteq index'
        /\ \A b \in index' : Ancestors[b] \cap failed' # {} => b \in failed'
        /\ \A b \in failed' : \E a \in Ancestors[b] \cap failed' :
              a \in linked' \/ Verdict[a] = "badContext"
        /\ \A b \in Block : Ancestors[b] \subseteq data' => b \in linked'
    BY <1>3, <1>4, <2>0 DEF IndexInv
  <2> QED
    BY <1>5, <2>1 DEF IndexInv
<1> QED
  BY <1>3, <1>4, <1>6

\* FindMostWorkChain marks nothing that was not marked: what it gives up is above
\* a failed block, and failures are closed upwards.
LEMMA ChooseMarksNothing ==
    ASSUME TypeOK, OnlyValid, EntriesInv, IndexInv, NEW t \in Thread,
           ActivateBestChain_choose(t)
    PROVE  failed' = failed
<1> DEFINE found == IF most = Nil THEN FindMostWorkChain ELSE most
           past  == IF most = Nil THEN Skipped(found) ELSE {}
           lost  == {c \in past : Blocker(c) \notin failed}
<1>1. failed' = failed \cup UNION {Removed(c) : c \in past \ lost}
  BY Zenon DEF ActivateBestChain_choose
<1>2. past \subseteq cand /\ \A c \in past : Hopeless(c)
  BY DEF Skipped
<1>3. tip \in Block /\ cand \subseteq Block
  BY DEF TypeOK
<1>4. ASSUME NEW c \in past \ lost, NEW d \in Removed(c)
      PROVE  d \in failed
  <2>1. c \in cand /\ c \in Block /\ Hopeless(c) /\ Blocker(c) \in failed
    BY <1>2, <1>3
  <2>2. d \in Branch(c) /\ Blocker(c) \in Ancestors[d]
    BY <1>3, <2>1, RemovedAboveBlocker, Zenon
  <2>3. d \in index
    BY <2>1, <2>2, Zenon DEF EntriesInv, IndexInv, Branch
  <2> QED
    BY <2>1, <2>2, <2>3, Zenon DEF IndexInv
<1> HIDE DEF past, lost
<1> QED
  BY <1>1, <1>4

\* Every step keeps the index in order, whatever fails.
LEMMA IndexStep ==
    ASSUME TypeOK, OnlyValid, EntriesInv, TargetInv, IndexInv, [Next]_vars
    PROVE  IndexInv'
<1>1. ASSUME NEW t \in Thread, NEW b \in Block, ProcessNewBlock_known(t, b)
      PROVE  IndexInv'
  BY <1>1, IndexKept DEF ProcessNewBlock_known, entries
<1>2. ASSUME NEW t \in Thread, NEW b \in Block, ProcessNewBlock_invalid(t, b)
      PROVE  IndexInv'
  <2>1. /\ index' = index \cup {b} /\ failed' = failed \cup Descendants(b)
        /\ data' = data /\ linked' = linked /\ unlinked' = unlinked
        /\ HeaderAccepted(b) /\ b \notin data /\ Verdict[b] = "badContext"
        /\ index' \in SUBSET Block
    BY <1>2, Zenon DEF ProcessNewBlock_invalid, Enters, TypeOK
  <2>2. /\ \A c \in index' : Ancestors[c] \subseteq index'
        /\ \A c \in index' : Ancestors[c] \cap failed # {} => c \in failed
    BY <2>1, HeaderKeepsIndex, Zenon
  <2>3. /\ failed' \subseteq index'
        /\ \A c \in index' : Ancestors[c] \cap failed' # {} => c \in failed'
        /\ \A c \in failed' : \E a \in Ancestors[c] \cap failed' :
              a \in linked' \/ Verdict[a] = "badContext"
    <3>1. \A c \in index \cup {b} : Ancestors[c] \cap failed # {} => c \in failed
      BY <2>1, <2>2, Zenon
    <3> QED
      <4>1. /\ failed \cup Descendants(b) \subseteq index \cup {b}
            /\ \A c \in index \cup {b} :
                  Ancestors[c] \cap (failed \cup Descendants(b)) # {} =>
                     c \in failed \cup Descendants(b)
            /\ \A c \in failed \cup Descendants(b) :
                  \E a \in Ancestors[c] \cap (failed \cup Descendants(b)) :
                     a \in linked \/ Verdict[a] = "badContext"
        BY <2>1, <3>1, MarkingKeepsIndex, Zenon
      <4> QED
        BY ONLY <2>1, <4>1
  <2>4. /\ data' \subseteq index' /\ data' \ (linked' \cup failed') \subseteq unlinked'
        /\ \A c \in Block : Ancestors[c] \subseteq data' => c \in linked'
    BY <2>1, Zenon DEF IndexInv
  <2> QED
    BY <2>2, <2>3, <2>4, Zenon DEF IndexInv
<1>3. ASSUME NEW t \in Thread, NEW b \in Block, ProcessNewBlock_unwritten(t, b)
      PROVE  IndexInv'
  <2>1. /\ index' = index \cup {b} /\ failed' = failed
        /\ data' = data /\ linked' = linked /\ unlinked' = unlinked
        /\ HeaderAccepted(b) /\ b \notin data
    BY <1>3 DEF ProcessNewBlock_unwritten, Enters
  <2>2. /\ \A c \in index' : Ancestors[c] \subseteq index'
        /\ \A c \in index' : Ancestors[c] \cap failed # {} => c \in failed
    BY <2>1, HeaderKeepsIndex, Zenon
  <2> QED
    BY <2>1, <2>2, Zenon DEF IndexInv
<1>4. ASSUME NEW t \in Thread, NEW b \in Block, ProcessNewBlock_stored(t, b)
      PROVE  IndexInv'
  BY <1>4, StoredKeepsIndex
<1>5. ASSUME NEW t \in Thread, ActivateBestChain_enter(t)
      PROVE  IndexInv'
  BY <1>5, IndexKept DEF ActivateBestChain_enter, entries
<1>6. ASSUME NEW t \in Thread, ActivateBestChain_lock(t)
      PROVE  IndexInv'
  BY <1>6, IndexKept DEF ActivateBestChain_lock, entries
<1>7. ASSUME NEW t \in Thread, ActivateBestChain_choose(t)
      PROVE  IndexInv'
  <2>1. index' = index /\ data' = data /\ linked' = linked
    BY <1>7 DEF ActivateBestChain_choose
  <2>2. failed' = failed /\ unlinked' = unlinked
    BY <1>7, ChooseMarksNothing, ChooseFacts
  <2> QED
    BY <2>1, <2>2, IndexKept
<1>8. ASSUME NEW t \in Thread, DisconnectTip(t)
      PROVE  IndexInv'
  BY <1>8, IndexKept, Zenon DEF DisconnectTip, entries
<1>9. ASSUME NEW t \in Thread, ConnectTip(t)
      PROVE  IndexInv'
  BY <1>9, IndexKept, Zenon DEF ConnectTip
<1>10. ASSUME NEW t \in Thread, ConnectTip_invalid(t)
       PROVE  IndexInv'
  <2>1. /\ failed' = failed \cup Descendants(NextBlock) /\ index' = index
        /\ data' = data /\ linked' = linked /\ unlinked' = unlinked
    BY <1>10, Zenon DEF ConnectTip_invalid
  <2>2. /\ NextBlock \in Block /\ NextBlock \in data
        /\ Ancestors[NextBlock] = {NextBlock} \cup Ancestors[tip]
    BY <1>10, NextBlockIsChild, Zenon DEF ConnectTip_invalid
  <2>3. NextBlock \in linked
    <3>1. Ancestors[tip] \subseteq data
      BY Zenon DEF OnlyValid, Sound
    <3>2. Ancestors[NextBlock] \subseteq data
      BY ONLY <2>2, <3>1
    <3> QED
      BY <2>2, <3>2, Zenon DEF IndexInv
  <2>4. index = index \cup {NextBlock} /\ index \in SUBSET Block
    BY <2>2, Zenon DEF IndexInv, TypeOK
  <2>5. /\ failed' \subseteq index'
        /\ \A c \in index' : Ancestors[c] \cap failed' # {} => c \in failed'
        /\ \A c \in failed' : \E a \in Ancestors[c] \cap failed' :
              a \in linked' \/ Verdict[a] = "badContext"
    <3>1. \A c \in index \cup {NextBlock} :
             Ancestors[c] \cap failed # {} => c \in failed
      BY <2>4, Zenon DEF IndexInv
    <3> QED
      <4>1. /\ failed \cup Descendants(NextBlock) \subseteq index \cup {NextBlock}
            /\ \A c \in index \cup {NextBlock} :
                  Ancestors[c] \cap (failed \cup Descendants(NextBlock)) # {} =>
                     c \in failed \cup Descendants(NextBlock)
            /\ \A c \in failed \cup Descendants(NextBlock) :
                  \E a \in Ancestors[c] \cap (failed \cup Descendants(NextBlock)) :
                     a \in linked \/ Verdict[a] = "badContext"
        BY <2>2, <2>3, <3>1, MarkingKeepsIndex, Zenon
      <4> QED
        BY ONLY <2>1, <2>4, <4>1
  <2>6. /\ data' \subseteq index' /\ data' \ (linked' \cup failed') \subseteq unlinked'
        /\ \A c \in index' : Ancestors[c] \subseteq index'
        /\ \A c \in Block : Ancestors[c] \subseteq data' => c \in linked'
    BY <2>1 DEF IndexInv
  <2> QED
    BY <2>5, <2>6, Zenon DEF IndexInv
<1>11. ASSUME NEW t \in Thread, SystemError(t)
       PROVE  IndexInv'
  BY <1>11, IndexKept DEF SystemError, entries
<1>12. ASSUME NEW t \in Thread, ActivateBestChain_stepped(t)
       PROVE  IndexInv'
  BY <1>12, IndexKept DEF ActivateBestChain_stepped, entries
<1>13. ASSUME NEW t \in Thread, ActivateBestChain_unlock(t)
       PROVE  IndexInv'
  BY <1>13, IndexKept DEF ActivateBestChain_unlock, entries
<1>14. ASSUME NEW t \in Thread, ActivateBestChain_again(t)
       PROVE  IndexInv'
  BY <1>14, IndexKept DEF ActivateBestChain_again, entries
<1>15. ASSUME NEW t \in Thread, Reload(t)
       PROVE  IndexInv'
  BY <1>15, ReloadKeepsIndex
<1>16. ASSUME Interrupt
       PROVE  IndexInv'
  BY <1>16, IndexKept DEF Interrupt, entries
<1>17. CASE UNCHANGED vars
  BY <1>17, IndexKept DEF vars, entries
<1> QED
  BY <1>1, <1>2, <1>3, <1>4, <1>5, <1>6, <1>7, <1>8, <1>9, <1>10, <1>11,
     <1>12, <1>13, <1>14, <1>15, <1>16, <1>17, Zenon DEF Next, ProcessNewBlock,
     ActivateBestChain

----------------------------------------------------------------------------
(* Candidates *)

\* A step that adds no candidate and leaves the tip and the order alone.
LEMMA CandidatesKept ==
    ASSUME CandidatesInv, cand' \subseteq cand, seq' = seq, tip' = tip
    PROVE  CandidatesInv'
  BY DEF CandidatesInv, Worse

\* Every step leaves no candidate that is worse than the tip, as long as the
\* manager is not made again (Reload says why that leaves some).
LEMMA CandidatesStep ==
    ASSUME "reload" \notin Failures,
           TypeOK, OnlyValid, EntriesInv, TargetInv, LoadedInv, CandidatesInv,
           [Next]_vars
    PROVE  CandidatesInv'
<1>1. ASSUME NEW t \in Thread, NEW b \in Block,
             \/ ProcessNewBlock_known(t, b) \/ ProcessNewBlock_invalid(t, b)
             \/ ProcessNewBlock_unwritten(t, b)
      PROVE  CandidatesInv'
  BY <1>1, CandidatesKept, Zenon
  DEF ProcessNewBlock_known, ProcessNewBlock_invalid, ProcessNewBlock_unwritten,
      entries
<1>2. ASSUME NEW t \in Thread, NEW b \in Block, ProcessNewBlock_stored(t, b)
      PROVE  CandidatesInv'
  <2>1. PICK D \in SUBSET Block :
            /\ D \cap linked = {}
            /\ linked' = linked \cup D
            /\ cand' = cand \cup {d \in D : ~SortsBefore(seq', d, tip)}
            /\ \A c \in Block \ D : seq'[c] = seq[c]
    BY <1>2, StoredFacts
  <2>2. tip' = tip /\ tip \in linked /\ cand \subseteq linked /\ linked \subseteq Block
    <3>1. tip \in Block /\ Sound(tip)
      BY Zenon DEF TypeOK, OnlyValid
    <3>2. tip \in linked
      BY <3>1, TipIsLinked
    <3> QED
      BY <1>2, <3>2, Zenon DEF ProcessNewBlock_stored, EntriesInv, TypeOK
  <2>3. ASSUME NEW c \in cand PROVE ~SortsBefore(seq', c, tip)
    <3>1. seq'[c] = seq[c] /\ seq'[tip] = seq[tip]
      BY <2>1, <2>2, Zenon
    <3> QED
      BY <3>1, Zenon DEF CandidatesInv, Worse, SortsBefore
  <2>4. ASSUME NEW c \in Block PROVE seq'[c] > 0
    <3>1. CASE c \in D
      <4>1. seq'[c] >= nextSeq
        BY <1>2, <2>1, <3>1, StoredNumbers
      <4>2. nextSeq > 0 /\ nextSeq \in Nat /\ seq'[c] \in Nat
        BY <1>2, StoredFacts DEF LoadedInv, TypeOK
      <4> QED
        BY <4>1, <4>2
    <3>2. CASE c \notin D
      BY <2>1, <3>2 DEF CandidatesInv
    <3> QED
      BY <3>1, <3>2
  <2> QED
    BY <2>1, <2>2, <2>3, <2>4 DEF CandidatesInv, Worse
<1>3. ASSUME NEW t \in Thread, ActivateBestChain_choose(t)
      PROVE  CandidatesInv'
  <2>1. cand' \subseteq cand
    BY <1>3, ChooseFacts
  <2>2. seq' = seq /\ tip' = tip
    BY <1>3 DEF ActivateBestChain_choose
  <2> QED
    BY <2>1, <2>2, CandidatesKept
<1>4. ASSUME NEW t \in Thread, DisconnectTip(t)
      PROVE  CandidatesInv'
  <2>1. /\ tip \in Block /\ tip' \in Block /\ tip' \in Ancestors[tip]
        /\ cand' = cand /\ cand \subseteq Block /\ seq' = seq /\ seq \in [Block -> Nat]
    BY <1>4, DisconnectTipFacts, AncestorsClosed, Zenon DEF DisconnectTip, entries, TypeOK
  <2>2. ~SortsBefore(seq, tip, tip')
    BY <2>1, AncestorsWorse
  <2>3. ASSUME NEW c \in cand PROVE ~SortsBefore(seq, c, tip')
    <3>1. c \in Block /\ ~SortsBefore(seq, c, tip)
      BY <2>1 DEF CandidatesInv, Worse
    <3> QED
      BY <2>1, <2>2, <3>1, OrderIsNegativelyTransitive
  <2> QED
    BY <2>1, <2>3 DEF CandidatesInv, Worse
<1>5. ASSUME NEW t \in Thread, ConnectTip(t)
      PROVE  CandidatesInv'
  <2>1. /\ tip' = NextBlock /\ seq' = seq
        /\ cand' \in {Pruned(NextBlock), Pruned(NextBlock) \cup Shielded(NextBlock)}
    BY <1>5, Zenon DEF ConnectTip
  <2>2. Shielded(NextBlock) = {}
    <3>1. \A s \in cand : seq[s] > 0
      BY DEF CandidatesInv, TypeOK
    <3> QED
      BY <3>1 DEF Shielded, Misplaced
  <2>3. cand' = {c \in cand : ~Worse(c, tip')}
    BY <2>1, <2>2 DEF Pruned
  <2> QED
    BY <2>1, <2>3 DEF CandidatesInv, Worse
<1>6. ASSUME NEW t \in Thread, ConnectTip_invalid(t)
      PROVE  CandidatesInv'
  <2>1. cand' \subseteq cand /\ seq' = seq /\ tip' = tip
    BY <1>6, ErasuresFacts, Zenon DEF ConnectTip_invalid
  <2> QED
    BY <2>1, CandidatesKept
<1>7. ASSUME NEW t \in Thread,
             \/ ActivateBestChain_enter(t) \/ ActivateBestChain_lock(t)
             \/ SystemError(t) \/ ActivateBestChain_stepped(t)
             \/ ActivateBestChain_unlock(t) \/ ActivateBestChain_again(t)
      PROVE  CandidatesInv'
  <2>1. cand' = cand /\ seq' = seq /\ tip' = tip
    BY <1>7, Zenon
    DEF ActivateBestChain_enter, ActivateBestChain_lock, SystemError,
        ActivateBestChain_stepped, ActivateBestChain_unlock,
        ActivateBestChain_again, entries
  <2> QED
    BY <2>1, CandidatesKept
<1>8. ASSUME NEW t \in Thread PROVE ~Reload(t)
  BY Zenon DEF Reload
<1>9. CASE Interrupt \/ UNCHANGED vars
  BY <1>9, CandidatesKept, Zenon DEF Interrupt, vars, entries
<1> QED
  BY <1>1, <1>2, <1>3, <1>4, <1>5, <1>6, <1>7, <1>8, <1>9
  DEF Next, ProcessNewBlock, ActivateBestChain

----------------------------------------------------------------------------
(* Theorems *)

\* The state after LoadGenesisBlock satisfies the invariant.
LEMMA InitIsInd ==
    Init => IndInv
<1> SUFFICES ASSUME Init PROVE IndInv
  OBVIOUS
<1>1. /\ Ancestors[Genesis] = {Genesis} /\ Genesis \in Block /\ Verdict[Genesis] = "valid"
      /\ \A b \in Block : b \in Ancestors[b]
  BY AncestorsOfGenesis, AncestorsClosed, TreeAssumption, EntryAssumption, Zenon
<1>2. TypeOK
  <2>1. seq \in [Block -> Nat] /\ nextSeq \in Nat
    BY DEF Init
  <2>2. trace \in Seq(Block)
    BY DEF Init
  <2>3. pc \in [Thread -> {"idle"}]
    BY DEF Init
  <2> QED
    BY <1>1, <2>1, <2>2, <2>3, Zenon DEF Init, TypeOK
<1>3. OnlyValid
  BY <1>1 DEF Init, OnlyValid, Sound
<1>4. LocksInv
  BY OthersAssumption DEF Init, LocksInv, Locked, Active
<1>5. EntriesInv
  BY <1>1, Zenon DEF Init, EntriesInv, Sound
<1>6. TargetInv
  BY Zenon DEF Init, TargetInv, Locked, Active
<1>7. ProgressInv
  BY Zenon DEF Init, ProgressInv
<1>8. TraceInv
  BY Zenon DEF Init, TraceInv, ListenerFollows
<1>9. PendingInv
  <2>1. ~Worse(Genesis, Genesis)
    BY <1>1, <1>2, OrderIsStrict, Zenon DEF Worse, TypeOK
  <2> QED
    BY <2>1 DEF Init, PendingInv
<1>10. LoadedInv
  <2>1. nextSeq > 0 /\ seq[Genesis] # 0
    BY <1>1 DEF Init
  <2>2. cand = {Genesis}
    BY DEF Init
  <2> QED
    BY <2>1, <2>2, Zenon DEF LoadedInv
<1> QED
  BY <1>2, <1>3, <1>4, <1>5, <1>6, <1>7, <1>8, <1>9, <1>10 DEF IndInv

\* Every step keeps the invariant.
LEMMA StepIsInd ==
    IndInv /\ [Next]_vars => IndInv'
<1> SUFFICES ASSUME IndInv, [Next]_vars PROVE IndInv'
  OBVIOUS
<1>1. /\ TypeOK /\ OnlyValid /\ LocksInv /\ EntriesInv /\ TargetInv
      /\ LoadedInv /\ ProgressInv /\ TraceInv /\ PendingInv
  BY DEF IndInv
<1>2. TypeOK' /\ LocksInv'
  BY <1>1, TypeStep, LocksStep
<1>3. OnlyValid' /\ EntriesInv' /\ TargetInv'
  BY <1>1, ValidStep, EntriesStep, TargetStep
<1>4. LoadedInv' /\ ProgressInv' /\ TraceInv' /\ PendingInv'
  BY <1>1, LoadedStep, ProgressStep, TraceStep, PendingStep
<1> QED
  BY <1>2, <1>3, <1>4 DEF IndInv

\* So it holds always.
LEMMA Inductive ==
    Spec => []IndInv
  BY InitIsInd, StepIsInd, PTL DEF Spec

\* The variables of the chain state keep their types: the tip is a block of the
\* tree also after any number of blocks were disconnected (DisconnectTip).
THEOREM ChainTypes ==
    Spec => []TypeOK
<1>1. IndInv => TypeOK
  BY DEF IndInv
<1> QED
  BY <1>1, Inductive, PTL

\* For any tree of blocks and any number of threads, the active chain consists
\* of stored valid blocks, and only what descends from an invalid block is
\* marked as failed (ConnectTip, InvalidBlockFound, FindMostWorkChain).
THEOREM ActiveChainIsValid ==
    Spec => []OnlyValid
<1>1. IndInv => OnlyValid
  BY DEF IndInv
<1> QED
  BY <1>1, Inductive, PTL

\* A listener that applies BlockConnected and BlockDisconnected in the order of
\* the calls has the active chain whenever cs_main is free (ActivateBestChain,
\* ConnectTip, DisconnectTip).
THEOREM ListenersFollow ==
    Spec => []ListenerFollows
<1>1. IndInv => ListenerFollows
  BY DEF IndInv, TraceInv, ListenerFollows
<1> QED
  BY <1>1, Inductive, PTL

\* The block index is in order at every moment, also while cs_main is held,
\* after a system error and after a reload: failures reach everything above
\* them, and a block is linked exactly when it is stored with all its ancestors
\* (AcceptBlock, ReceivedBlockTransactions, SetBlockFailureFlags,
\* LoadBlockIndex).
THEOREM IndexIsInOrder ==
    Spec => []IndexInv
<1>1. Init => IndexInv
  BY AncestorsOfGenesis, AncestorsClosed, Zenon DEF Init, IndexInv
<1>2. IndInv /\ IndexInv /\ [Next]_vars => IndexInv'
  BY IndexStep DEF IndInv
<1> QED
  BY <1>1, <1>2, Inductive, PTL DEF Spec

\* What CheckBlockIndex asserts holds whenever cs_main is free and there was no
\* system error, for any tree of blocks in any order of arrival, until the
\* manager is made again.
THEOREM IndexPassesItsCheck ==
    ASSUME "reload" \notin Failures
    PROVE  Spec => []CheckBlockIndex
<1>1. Init => CandidatesInv
  <2> SUFFICES ASSUME Init PROVE CandidatesInv
    OBVIOUS
  <2>1. /\ seq \in [Block -> Nat] /\ tip \in Block /\ cand = {tip}
        /\ \A b \in Block : seq[b] > 0
    BY TreeAssumption DEF Init
  <2> QED
    BY <2>1, OrderIsStrict DEF CandidatesInv, Worse
<1>2. IndInv /\ CandidatesInv /\ [Next]_vars => CandidatesInv'
  BY CandidatesStep DEF IndInv
<1>3. IndInv /\ IndexInv /\ CandidatesInv => CheckBlockIndex
  <2> SUFFICES ASSUME IndInv, IndexInv, CandidatesInv, csMain = Nil, ~broken,
                      NEW b \in index
               PROVE  CheckBlockIndex!2!(b)
    BY Zenon DEF CheckBlockIndex
  <2>1. b \in Block /\ b \in Ancestors[b]
    BY AncestorsClosed, Zenon DEF IndInv, TypeOK
  <2>2. b \in linked <=> Ancestors[b] \subseteq data
    BY <2>1, Zenon DEF IndInv, EntriesInv, IndexInv
  <2>3. b \in failed <=> Ancestors[b] \cap failed # {}
    BY <2>1, Zenon DEF IndexInv
  <2>4. (~Worse(b, tip) /\ b \in linked /\ b \notin failed) => b \in cand
    BY Zenon DEF IndInv, ProgressInv
  <2>5. (Worse(b, tip) \/ b \notin linked) => b \notin cand
    BY Zenon DEF IndInv, EntriesInv, CandidatesInv
  <2>6. (b \in data /\ b \notin linked /\ b \notin failed) => b \in unlinked
    BY Zenon DEF IndexInv
  <2>7. (b \notin data \/ b \in linked) => b \notin unlinked
    BY Zenon DEF IndInv, EntriesInv
  <2> QED
    BY <2>2, <2>3, <2>4, <2>5, <2>6, <2>7, Zenon
<1>4. Spec => []CandidatesInv
  BY <1>1, <1>2, Inductive, PTL DEF Spec
<1> QED
  BY <1>3, <1>4, Inductive, IndexIsInOrder, PTL

\* When all calls have returned, no stored chain of valid blocks is better than
\* the active one (FindMostWorkChain, PruneBlockIndexCandidates,
\* ReceivedBlockTransactions, the loops of ActivateBestChain).
THEOREM BestChainIsActive ==
    Spec => []BestWhenIdle
<1>1. IndInv => BestWhenIdle
  <2> SUFFICES ASSUME IndInv, \A t \in Thread : pc[t] = "idle", ~interrupted, ~broken,
                      NEW b \in data, Sound(b), Worse(tip, b)
               PROVE  FALSE
    BY DEF BestWhenIdle
  <2>1. \A t \in Thread : mutex # t
    BY DEF IndInv, LocksInv, Active, Locked
  <2> QED
    BY <2>1 DEF IndInv, PendingInv
<1> QED
  BY <1>1, Inductive, PTL

\* "We absolutely may not unlock cs_main until we've made forward progress": no
\* activation leaves the chain worse than it was, whatever it finds to be
\* invalid on its way (the inner loop of ActivateBestChain).
THEOREM UnlocksWithProgress ==
    Spec => WorkNeverFalls
<1>1. IndInv /\ [Next]_vars =>
        [csMain # Nil /\ csMain' = Nil /\ ~broken' => ~Worse(tip, start)]_vars
  <2> SUFFICES ASSUME IndInv, Next, csMain # Nil, csMain' = Nil, ~broken'
               PROVE  ~Worse(tip, start)
    OBVIOUS
  <2>1. ASSUME NEW t \in Thread PROVE ~ProcessNewBlock(t)
    BY Zenon DEF ProcessNewBlock, ProcessNewBlock_known, ProcessNewBlock_invalid,
       ProcessNewBlock_unwritten, ProcessNewBlock_stored, Enters
  <2>2. ASSUME NEW t \in Thread PROVE ~ActivateBestChain_enter(t) /\ ~ActivateBestChain_lock(t)
    BY Zenon DEF ActivateBestChain_enter, ActivateBestChain_lock
  <2>3. ASSUME NEW t \in Thread PROVE ~ActivateBestChain_choose(t)
    BY Zenon DEF ActivateBestChain_choose
  <2>4. ASSUME NEW t \in Thread
        PROVE  ~DisconnectTip(t) /\ ~ConnectTip(t) /\ ~ConnectTip_invalid(t)
    BY Zenon DEF DisconnectTip, ConnectTip, ConnectTip_invalid
  <2>5. ASSUME NEW t \in Thread PROVE ~SystemError(t)
    BY DEF SystemError
  <2>6. ASSUME NEW t \in Thread
        PROVE  ~ActivateBestChain_stepped(t) /\ ~ActivateBestChain_again(t)
    BY DEF ActivateBestChain_stepped, ActivateBestChain_again
  <2>7. ASSUME NEW t \in Thread PROVE ~Reload(t)
    BY Zenon DEF Reload
  <2>8. ~Interrupt
    BY DEF Interrupt
  <2>9. PICK t \in Thread : ActivateBestChain_unlock(t)
    BY <2>1, <2>2, <2>3, <2>4, <2>5, <2>6, <2>7, <2>8 DEF Next, ActivateBestChain
  <2> QED
    BY <2>9, Zenon DEF ActivateBestChain_unlock, IndInv, ProgressInv
<1> QED
  BY <1>1, Inductive, PTL DEF Spec, WorkNeverFalls

\* A candidate that LoadChainTip has left behind, worse than the tip it loaded,
\* is never what an activation goes for, however often the chain was interrupted,
\* closed and loaded before (LoadChainTip, FindMostWorkChain).
THEOREM LeftBehindIsNotChosen ==
    Spec => [](~broken => \A t \in Thread :
                 pc[t] \in {"choose", "step", "stepped"} => most \notin Misplaced)
<1>1. ASSUME IndInv, ~broken, NEW t \in Thread,
             pc[t] \in {"choose", "step", "stepped"}, most \in Misplaced
      PROVE  FALSE
  <2>1. PICK s \in cand : seq[most] = 1 /\ seq[s] = 0 /\ ChainWork[s] = ChainWork[most]
    BY <1>1 DEF Misplaced
  <2>2. /\ most \in cand /\ most # Nil /\ pc[t] \in Locked
        /\ most \in Block /\ s \in Block /\ seq \in [Block -> Nat]
    BY <1>1, OthersAssumption DEF Misplaced, IndInv, TypeOK, Locked
  <2>3. csMain # Nil /\ start \in Block
    BY <1>1, <2>2, OneThread, OthersAssumption, Zenon DEF IndInv, TargetInv
  <2>4. ~SortsBefore(seq, most, start)
    BY <1>1, <2>2, Zenon DEF IndInv, ProgressInv, Worse
  <2>5. ~SortsBefore(seq, start, s)
    BY <1>1, <2>1, <2>3, Zenon DEF IndInv, LoadedInv, Worse
  <2>6. ~SortsBefore(seq, most, s)
    BY <2>2, <2>3, <2>4, <2>5, OrderIsNegativelyTransitive
  <2> QED
    BY <2>1, <2>6 DEF SortsBefore
<1>2. IndInv => (~broken => \A t \in Thread :
                   pc[t] \in {"choose", "step", "stepped"} => most \notin Misplaced)
  BY <1>1
<1> QED
  BY <1>2, Inductive, PTL

\* Only the thread that has m_chainstate_mutex moves the tip or tells a
\* listener of it, and only while it has cs_main too.  So the tip does not
\* move between two turns of the outer loop of ActivateBestChain, which
\* compares the tip it left with pindexMostWork after cs_main was free
\* (ActivateBestChain, ConnectTip, DisconnectTip).
THEOREM OwnerMovesTip ==
    Spec => [][tip' # tip \/ told' # told =>
                 \E t \in Thread : csMain = t /\ mutex = t]_vars
<1>1. IndInv /\ [Next]_vars =>
        [tip' # tip \/ told' # told => \E t \in Thread : csMain = t /\ mutex = t]_vars
  <2> SUFFICES ASSUME IndInv, Next, tip' # tip \/ told' # told
               PROVE  \E t \in Thread : csMain = t /\ mutex = t
    OBVIOUS
  <2>1. \A t \in Thread : ~ProcessNewBlock(t) /\ ~Reload(t)
    BY Zenon DEF ProcessNewBlock, ProcessNewBlock_known, ProcessNewBlock_invalid,
       ProcessNewBlock_unwritten, ProcessNewBlock_stored, Reload
  <2>2. \A t \in Thread :
           /\ ~ActivateBestChain_enter(t) /\ ~ActivateBestChain_lock(t)
           /\ ~ActivateBestChain_choose(t) /\ ~ConnectTip_invalid(t)
           /\ ~SystemError(t) /\ ~ActivateBestChain_unlock(t)
           /\ ~ActivateBestChain_again(t)
    BY Zenon DEF ActivateBestChain_enter, ActivateBestChain_lock, ActivateBestChain_choose,
       ConnectTip_invalid, SystemError, ActivateBestChain_unlock,
       ActivateBestChain_again
  <2>3. ~Interrupt
    BY DEF Interrupt
  <2>4. PICK t \in Thread :
           DisconnectTip(t) \/ ConnectTip(t) \/ ActivateBestChain_stepped(t)
    BY <2>1, <2>2, <2>3, Zenon DEF Next, ActivateBestChain
  <2>5. pc[t] \in {"step", "stepped"}
    BY <2>4, Zenon DEF DisconnectTip, ConnectTip, ActivateBestChain_stepped
  <2>6. csMain = t /\ mutex = t
    BY <2>5 DEF IndInv, LocksInv, Locked, Active
  <2> QED
    BY <2>6
<1> QED
  BY <1>1, Inductive, PTL DEF Spec

\* What the manager has learned of blocks it does not forget, also not by
\* closing and loading: headers, stored blocks, links and failures only
\* become more (AcceptBlock, SetBlockFailureFlags, LoadBlockIndex).
THEOREM FindingsStay ==
    Spec => [][/\ index \subseteq index' /\ data \subseteq data'
               /\ linked \subseteq linked' /\ failed \subseteq failed']_vars
<1> DEFINE Kept == /\ index \subseteq index' /\ data \subseteq data'
                   /\ linked \subseteq linked' /\ failed \subseteq failed'
<1>1. IndInv /\ IndexInv /\ [Next]_vars => [Kept]_vars
  <2> SUFFICES ASSUME IndInv, IndexInv, Next PROVE Kept
    OBVIOUS
  <2>1. ASSUME NEW t \in Thread, NEW b \in Block,
               \/ ProcessNewBlock_known(t, b) \/ ProcessNewBlock_invalid(t, b)
               \/ ProcessNewBlock_unwritten(t, b)
        PROVE  Kept
    BY <2>1, Zenon
    DEF ProcessNewBlock_known, ProcessNewBlock_invalid, ProcessNewBlock_unwritten, entries
  <2>2. ASSUME NEW t \in Thread, NEW b \in Block, ProcessNewBlock_stored(t, b)
        PROVE  Kept
    BY <2>2, Zenon DEF ProcessNewBlock_stored, ReceivedBlockTransactions
  <2>3. ASSUME NEW t \in Thread, ActivateBestChain_choose(t) PROVE Kept
    BY <2>3, Zenon DEF ActivateBestChain_choose
  <2>4. ASSUME NEW t \in Thread, ConnectTip(t) \/ ConnectTip_invalid(t) PROVE Kept
    BY <2>4, Zenon DEF ConnectTip, ConnectTip_invalid
  <2>5. ASSUME NEW t \in Thread,
               \/ ActivateBestChain_enter(t) \/ ActivateBestChain_lock(t)
               \/ DisconnectTip(t) \/ SystemError(t) \/ ActivateBestChain_stepped(t)
               \/ ActivateBestChain_unlock(t) \/ ActivateBestChain_again(t)
        PROVE  Kept
    BY <2>5, Zenon
    DEF ActivateBestChain_enter, ActivateBestChain_lock, DisconnectTip, SystemError,
        ActivateBestChain_stepped, ActivateBestChain_unlock,
        ActivateBestChain_again, entries
  <2>6. ASSUME NEW t \in Thread, Reload(t) PROVE Kept
    <3>1. /\ index' = index /\ data' = data
          /\ linked' = {b \in data : Ancestors[b] \subseteq data}
          /\ failed' = {b \in index : Ancestors[b] \cap failed # {}}
      BY <2>6, Zenon DEF Reload
    <3>2. failed \subseteq index /\ \A b \in failed : b \in Ancestors[b]
      BY AncestorsClosed, Zenon DEF IndexInv, IndInv, TypeOK
    <3>3. \A b \in linked : b \in data /\ Ancestors[b] \subseteq data
      BY AncestorsClosed, Zenon DEF IndInv, TypeOK, EntriesInv
    <3> QED
      BY <3>1, <3>2, <3>3
  <2>7. ASSUME Interrupt PROVE Kept
    BY <2>7 DEF Interrupt, entries
  <2> QED
    BY <2>1, <2>2, <2>3, <2>4, <2>5, <2>6, <2>7, Zenon
    DEF Next, ProcessNewBlock, ActivateBestChain
<1> QED
  BY <1>1, Inductive, IndexIsInOrder, PTL DEF Spec

============================================================================
