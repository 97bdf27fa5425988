----------------------------- MODULE BestChain -----------------------------
(***************************************************************************)
(* The active chain behind ChainstateManager.ProcessBlock and Chain: how   *)
(* ProcessNewBlock stores a block and ActivateBestChain moves the tip, on  *)
(* several threads, through forks, invalid blocks, failures of the disk,   *)
(* interrupts and a manager that is closed and made again.                 *)
(*                                                                         *)
(* The blocks that will ever be seen form a constant tree.  cs_main is held *)
(* over one action, or over all actions from ActivateBestChain_lock to     *)
(* ActivateBestChain_unlock; between those, callbacks see every tip.       *)
(***************************************************************************)
EXTENDS Integers, Sequences, FiniteSets

CONSTANTS
    Block,
    Genesis,
    Parent,      \* pprev
    Height,      \* nHeight
    ChainWork,   \* nChainWork
    Address,     \* where the entry of a block is in memory
    Verdict,     \* which check, if any, a block does not pass
    Thread,
    Nil,
    Failures     \* what else may happen: see Failure

Verdicts == {"valid", "badCheck", "badHeader", "badContext", "badConnect"}

\* "write": a block cannot be written.  "disk": a block cannot be connected
\* or disconnected.  "interrupt": Context.interrupt().  "reload": the manager
\* is closed and made again.
Failure == {"write", "disk", "interrupt", "reload"}

ASSUME TreeAssumption ==
    /\ Genesis \in Block
    /\ IsFiniteSet(Block)
    /\ Parent \in [Block \ {Genesis} -> Block]
    /\ Height \in [Block -> Nat]
    /\ Height[Genesis] = 0
    /\ ChainWork \in [Block -> Nat]
    /\ \A b \in Block \ {Genesis} :
          /\ Height[b] = Height[Parent[b]] + 1
          /\ ChainWork[b] > ChainWork[Parent[b]]

ASSUME EntryAssumption ==
    /\ Address \in [Block -> Nat]
    /\ \A a, b \in Block : Address[a] = Address[b] => a = b
    /\ Verdict \in [Block -> Verdicts]
    /\ Verdict[Genesis] = "valid"

ASSUME OthersAssumption ==
    /\ Nil \notin Block
    /\ Nil \notin Thread
    /\ Failures \subseteq Failure

\* A block and what is below it: the least set with the block that has the
\* parents of its members.
Ancestors ==
    [b \in Block |-> {a \in Block : \A S \in SUBSET Block :
        (b \in S /\ \A c \in S \ {Genesis} : Parent[c] \in S) => a \in S}]

VARIABLES
    index,        \* the blocks that have an entry
    data,         \* BLOCK_HAVE_DATA
    linked,       \* HaveNumChainTxs(): they and all ancestors had data
    failed,       \* BLOCK_FAILED_MASK
    seq,          \* nSequenceId
    nextSeq,      \* nBlockSequenceId
    cand,         \* setBlockIndexCandidates
    unlinked,     \* the second halves of m_blocks_unlinked
    tip,          \* m_chain
    told,         \* the tip after the events a listener has received
    csMain,       \* who holds cs_main
    mutex,        \* who holds m_chainstate_mutex
    pc,           \* where each thread is in ProcessNewBlock
    most,         \* pindexMostWork  (of the thread that has the mutex)
    start,        \* starting_tip
    old,          \* pindexOldTip
    worked,       \* blocks_connected
    trace,        \* connectTrace
    ready,        \* the Java manager exists
    interrupted,  \* m_interrupt
    broken        \* a system error was reported

entries == <<index, data, linked, failed, seq, nextSeq, cand, unlinked>>
locals  == <<most, start, old, worked, trace>>
vars    == <<entries, tip, told, csMain, mutex, pc, locals, ready, interrupted,
             broken>>

TypeOK ==
    /\ index \subseteq Block /\ data \subseteq Block /\ linked \subseteq Block
    /\ failed \subseteq Block /\ cand \subseteq Block /\ unlinked \subseteq Block
    /\ seq \in [Block -> Nat] /\ nextSeq \in Nat
    /\ tip \in Block /\ told \in Block
    /\ csMain \in Thread \cup {Nil} /\ mutex \in Thread \cup {Nil}
    /\ pc \in [Thread -> {"idle", "accepted", "unlocked", "choose", "step",
                          "stepped", "leave", "released"}]
    /\ most \in Block \cup {Nil} /\ start \in Block \cup {Nil}
    /\ old \in Block \cup {Nil} /\ trace \in Seq(Block)
    /\ worked \in BOOLEAN /\ ready \in BOOLEAN
    /\ interrupted \in BOOLEAN /\ broken \in BOOLEAN

\* A new manager on an empty directory has connected the genesis block.
Init ==
    /\ index = {Genesis} /\ data = {Genesis} /\ linked = {Genesis}
    /\ failed = {} /\ cand = {Genesis} /\ unlinked = {}
    /\ seq = [b \in Block |-> IF b = Genesis THEN 2 ELSE 1]
    /\ nextSeq = 3
    /\ tip = Genesis /\ told = Genesis
    /\ csMain = Nil /\ mutex = Nil
    /\ pc = [t \in Thread |-> "idle"]
    /\ most = Nil /\ start = Nil /\ old = Nil /\ worked = FALSE /\ trace = <<>>
    /\ ready = TRUE /\ interrupted = FALSE /\ broken = FALSE

----------------------------------------------------------------------------
(* The block index *)

\* CBlockIndexWorkComparator, with sequence numbers s.
SortsBefore(s, a, b) ==
    \/ ChainWork[a] < ChainWork[b]
    \/ /\ ChainWork[a] = ChainWork[b]
       /\ \/ s[a] > s[b]
          \/ s[a] = s[b] /\ Address[a] > Address[b]

Worse(a, b) == SortsBefore(seq, a, b)

\* AcceptBlockHeader: the block is known and good, or can be added.
HeaderAccepted(b) ==
    \/ b = Genesis
    \/ b \in index \ failed
    \/ b \notin index /\ Parent[b] \in index \ failed /\ Verdict[b] # "badHeader"

\* What SetBlockFailureFlags marks, with the block itself.
Descendants(b) == {d \in index \cup {b} : b \in Ancestors[d]}

\* Only the block itself.
Joins_one(b) == {b}

\* The block and what has waited for it: ReceivedBlockTransactions follows
\* m_blocks_unlinked upwards.
Joins(b) ==
    {b} \cup {d \in unlinked : b \in Ancestors[d]
                            /\ Ancestors[d] \ Ancestors[b] \subseteq unlinked}

\* The queue numbers blocks from the lowest up; the order of siblings is that
\* of the map.
Numbers(D) ==
    {s \in [D -> nextSeq..(nextSeq + Cardinality(D) - 1)] :
        \A c, d \in D : /\ s[c] = s[d] => c = d
                        /\ Height[c] < Height[d] => s[c] < s[d]}

\* The numbers count down.
ReceivedBlockTransactions_down(b) ==
    \/ /\ Parent[b] \in linked
       /\ LET D == Joins(b) IN
          \E s \in Numbers(D) :
             LET all == [c \in Block |-> IF c \in D THEN s[c] ELSE seq[c]] IN
             /\ seq' = all
             /\ nextSeq' = nextSeq - Cardinality(D)
             /\ linked' = linked \cup D
             /\ unlinked' = unlinked \ D
             /\ cand' = cand \cup {d \in D : ~SortsBefore(all, d, tip)}
    \/ /\ Parent[b] \notin linked
       /\ unlinked' = IF Parent[b] \in failed THEN unlinked ELSE unlinked \cup {b}
       /\ UNCHANGED <<linked, seq, nextSeq, cand>>

ReceivedBlockTransactions(b) ==
    \/ /\ Parent[b] \in linked
       /\ LET D == Joins(b) IN
          \E s \in Numbers(D) :
             LET all == [c \in Block |-> IF c \in D THEN s[c] ELSE seq[c]] IN
             /\ seq' = all
             /\ nextSeq' = nextSeq + Cardinality(D)
             /\ linked' = linked \cup D
             /\ unlinked' = unlinked \ D
             /\ cand' = cand \cup {d \in D : ~SortsBefore(all, d, tip)}
    \/ /\ Parent[b] \notin linked
       /\ unlinked' = IF Parent[b] \in failed THEN unlinked ELSE unlinked \cup {b}
       /\ UNCHANGED <<linked, seq, nextSeq, cand>>

----------------------------------------------------------------------------
(* ProcessNewBlock.  A call that is refused by CheckBlock, by the header, or *)
(* because the block is known to be invalid changes nothing.                 *)

\* A thread calls with a block whose header is accepted.
Enters(t, b) ==
    /\ pc[t] = "idle" /\ ready
    /\ csMain = Nil
    /\ Verdict[b] # "badCheck" /\ HeaderAccepted(b)

ProcessNewBlock_known(t, b) ==
    /\ Enters(t, b) /\ b \in data
    /\ pc' = [pc EXCEPT ![t] = "accepted"]
    /\ UNCHANGED <<entries, tip, told, csMain, mutex, locals, ready, interrupted,
                   broken>>

\* ContextualCheckBlock refuses the block after its header was added.
ProcessNewBlock_invalid(t, b) ==
    /\ Enters(t, b) /\ b \notin data /\ Verdict[b] = "badContext"
    /\ index' = index \cup {b}
    /\ failed' = failed \cup Descendants(b)
    /\ cand' = cand \ {b}
    /\ UNCHANGED <<data, linked, seq, nextSeq, unlinked, tip, told, csMain, mutex,
                   pc, locals, ready, interrupted, broken>>

\* WriteBlock fails: the header stays.
ProcessNewBlock_unwritten(t, b) ==
    /\ "write" \in Failures
    /\ Enters(t, b) /\ b \notin data /\ Verdict[b] # "badContext"
    /\ index' = index \cup {b}
    /\ UNCHANGED <<data, linked, failed, seq, nextSeq, cand, unlinked, tip, told,
                   csMain, mutex, pc, locals, ready, interrupted, broken>>

ProcessNewBlock_stored(t, b) ==
    /\ Enters(t, b) /\ b \notin data /\ Verdict[b] # "badContext"
    /\ index' = index \cup {b}
    /\ data' = data \cup {b}
    /\ ReceivedBlockTransactions(b)
    /\ pc' = [pc EXCEPT ![t] = "accepted"]
    /\ UNCHANGED <<failed, tip, told, csMain, mutex, locals, ready, interrupted,
                   broken>>

----------------------------------------------------------------------------
(* ActivateBestChain *)

ActivateBestChain_enter(t) ==
    /\ pc[t] = "accepted"
    /\ mutex = Nil
    /\ mutex' = t
    /\ most' = Nil
    /\ pc' = [pc EXCEPT ![t] = "unlocked"]
    /\ UNCHANGED <<entries, tip, told, csMain, start, old, worked, trace, ready,
                   interrupted, broken>>

ActivateBestChain_lock(t) ==
    /\ pc[t] = "unlocked"
    /\ csMain = Nil
    /\ csMain' = t
    /\ start' = tip
    /\ worked' = FALSE
    /\ pc' = [pc EXCEPT ![t] = "choose"]
    /\ UNCHANGED <<entries, tip, told, mutex, most, old, trace, ready, interrupted,
                   broken>>

\* A block off the active chain that FindMostWorkChain cannot go through.
Unusable(a) == a \in failed \/ a \notin data

\* What is above the active chain on the way to a candidate.
Branch(c) == Ancestors[c] \ Ancestors[tip]

Hopeless(c) == \E a \in Branch(c) : Unusable(a)

\* The block at which FindMostWorkChain gives a candidate up, and what it then
\* removes with the candidate.
Blocker(c) ==
    CHOOSE a \in Branch(c) : /\ Unusable(a)
                             /\ \A e \in Branch(c) : Unusable(e) => Height[e] <= Height[a]

Removed(c) == {d \in Branch(c) : Height[d] >= Height[Blocker(c)]}

FindMostWorkChain ==
    LET good == {c \in cand : ~Hopeless(c)} IN
    IF good = {} THEN Nil
    ELSE CHOOSE c \in good : \A d \in good : ~Worse(c, d)

\* The candidates it looks at before it finds that one.
Skipped(found) == {c \in cand : Hopeless(c) /\ (found = Nil \/ Worse(found, c))}

\* One turn of the inner loop up to the call of ActivateBestChainStep.
ActivateBestChain_choose(t) ==
    /\ pc[t] = "choose"
    /\ LET found == IF most = Nil THEN FindMostWorkChain ELSE most
           past  == IF most = Nil THEN Skipped(found) ELSE {}
           lost  == {c \in past : Blocker(c) \notin failed}
       IN /\ most' = found
          /\ cand' = cand \ UNION {Removed(c) : c \in past}
          /\ failed' = failed \cup UNION {Removed(c) : c \in past \ lost}
          /\ unlinked' = unlinked \cup UNION {Removed(c) \ {Blocker(c)} : c \in lost}
          /\ IF found \in {Nil, tip}
             THEN pc' = [pc EXCEPT ![t] = "leave"] /\ UNCHANGED old
             ELSE pc' = [pc EXCEPT ![t] = "step"] /\ old' = tip
    /\ UNCHANGED <<index, data, linked, seq, nextSeq, tip, told, csMain, mutex,
                   start, worked, trace, ready, interrupted, broken>>

\* Without the event.
DisconnectTip_silent(t) ==
    /\ pc[t] = "step"
    /\ tip \notin Ancestors[most]
    /\ tip' = Parent[tip]
    /\ UNCHANGED <<entries, told, csMain, mutex, pc, locals, ready, interrupted,
                   broken>>

DisconnectTip(t) ==
    /\ pc[t] = "step"
    /\ tip \notin Ancestors[most]
    /\ tip' = Parent[tip]
    /\ told' = Parent[tip]
    /\ UNCHANGED <<entries, csMain, mutex, pc, locals, ready, interrupted, broken>>

\* The next block on the way to pindexMostWork.
NextBlock ==
    CHOOSE b \in Ancestors[most] : Height[b] = Height[tip] + 1

\* Candidates that LoadChainTip has left behind (see Reload): in the ordered set
\* they lie between two entries of the tip it loaded, which they are worse than.
Misplaced ==
    {c \in cand : seq[c] = 1 /\ \E s \in cand : seq[s] = 0 /\ ChainWork[s] = ChainWork[c]}

\* PruneBlockIndexCandidates, once b is the tip.
Pruned(b) == {c \in cand : ~Worse(c, b)}

\* It stops at the first entry that is not worse than b.  Where that is the
\* older entry of a tip that was loaded, it leaves what comes after it.
Shielded(b) == {c \in Misplaced : \E s \in cand : seq[s] = 0 /\ ~Worse(s, b)}

\* What can be left when b is erased by value: the search for a misplaced block
\* may turn off too early, or take the range from the older entry on.
Erasures(b) ==
    IF b \in Misplaced
    THEN {cand, cand \ {b}, cand \ {c \in Misplaced : Address[c] >= Address[b]}}
    ELSE {cand \ {b}}

\* The result of ConnectBlock is not looked at.
ConnectTip_unchecked(t) ==
    /\ pc[t] = "step"
    /\ tip \in Ancestors[most] \ {most}
    /\ LET b == NextBlock IN
       /\ tip' = b
       /\ trace' = Append(trace, b)
       /\ cand' \in {Pruned(b), Pruned(b) \cup Shielded(b)}
       /\ pc' = [pc EXCEPT ![t] =
                    IF ChainWork[b] > ChainWork[old] THEN "stepped" ELSE "step"]
    /\ UNCHANGED <<index, data, linked, failed, seq, nextSeq, unlinked, told,
                   csMain, mutex, most, start, old, worked, ready, interrupted,
                   broken>>

\* ConnectBlock accepts.  The step is over once there is more work than before.
ConnectTip(t) ==
    /\ pc[t] = "step"
    /\ tip \in Ancestors[most] \ {most}
    /\ LET b == NextBlock IN
       /\ Verdict[b] # "badConnect"
       /\ tip' = b
       /\ trace' = Append(trace, b)
       /\ cand' \in {Pruned(b), Pruned(b) \cup Shielded(b)}
       /\ pc' = [pc EXCEPT ![t] =
                    IF ChainWork[b] > ChainWork[old] THEN "stepped" ELSE "step"]
    /\ UNCHANGED <<index, data, linked, failed, seq, nextSeq, unlinked, told,
                   csMain, mutex, most, start, old, worked, ready, interrupted,
                   broken>>

\* The block that was refused stays as it was.
ConnectTip_unmarked(t) ==
    /\ pc[t] = "step"
    /\ tip \in Ancestors[most] \ {most}
    /\ Verdict[NextBlock] = "badConnect"
    /\ most' = Nil
    /\ pc' = [pc EXCEPT ![t] = "stepped"]
    /\ UNCHANGED <<entries, tip, told, csMain, mutex, start, old, worked, trace,
                   ready, interrupted, broken>>

\* ConnectBlock refuses.  The second InvalidChainFound marks descendants of
\* a block above this one, which the first has marked.
ConnectTip_invalid(t) ==
    /\ pc[t] = "step"
    /\ tip \in Ancestors[most] \ {most}
    /\ LET b == NextBlock IN
       /\ Verdict[b] = "badConnect"
       /\ failed' = failed \cup Descendants(b)
       /\ cand' \in Erasures(b)
    /\ most' = Nil
    /\ pc' = [pc EXCEPT ![t] = "stepped"]
    /\ UNCHANGED <<index, data, linked, seq, nextSeq, unlinked, tip, told, csMain,
                   mutex, start, old, worked, trace, ready, interrupted, broken>>

\* The outer loop is left after one turn.
Done_always == TRUE

\* The condition of the outer loop.  Only the owner of the mutex moves the tip,
\* so pindexNewTip is the tip.
Done == interrupted \/ tip = most

\* A block cannot be read, or the state not be flushed, in a step or at the end:
\* ActivateBestChain returns false.  The events of an unfinished step are lost.
SystemError(t) ==
    /\ "disk" \in Failures
    /\ \/ pc[t] = "step" /\ tip # most
       \/ pc[t] = "released" /\ Done
    /\ broken' = TRUE
    /\ trace' = <<>> /\ start' = Nil /\ old' = Nil /\ worked' = FALSE
    /\ most' = Nil /\ csMain' = Nil /\ mutex' = Nil
    /\ pc' = [pc EXCEPT ![t] = "idle"]
    /\ UNCHANGED <<entries, tip, told, ready, interrupted>>

\* The inner loop is left after one step.
ActivateBestChain_stepped_once(t) ==
    /\ \/ pc[t] = "stepped"
       \/ pc[t] = "step" /\ tip = most
    /\ worked' = TRUE
    /\ told' = IF trace = <<>> THEN told ELSE trace[Len(trace)]
    /\ trace' = <<>>
    /\ old' = Nil
    /\ pc' = [pc EXCEPT ![t] = "leave"]
    /\ UNCHANGED <<entries, tip, csMain, mutex, most, start, ready, interrupted,
                   broken>>

\* ActivateBestChainStep has returned: the events of the connected blocks, and
\* the condition of the inner loop.
ActivateBestChain_stepped(t) ==
    /\ \/ pc[t] = "stepped"
       \/ pc[t] = "step" /\ tip = most
    /\ worked' = TRUE
    /\ told' = IF trace = <<>> THEN told ELSE trace[Len(trace)]
    /\ trace' = <<>>
    /\ old' = Nil
    /\ pc' = [pc EXCEPT ![t] = IF Worse(tip, start) THEN "choose" ELSE "leave"]
    /\ UNCHANGED <<entries, tip, csMain, mutex, most, start, ready, interrupted,
                   broken>>

\* cs_main is released.  With nothing done, the call returns at once.
ActivateBestChain_unlock(t) ==
    /\ pc[t] = "leave"
    /\ csMain' = Nil
    /\ start' = Nil
    /\ worked' = FALSE
    /\ IF worked
       THEN pc' = [pc EXCEPT ![t] = "released"] /\ UNCHANGED <<mutex, most, ready>>
       ELSE /\ pc' = [pc EXCEPT ![t] = "idle"]
            /\ mutex' = Nil /\ most' = Nil /\ ready' = TRUE
    /\ UNCHANGED <<entries, tip, told, old, trace, interrupted, broken>>

ActivateBestChain_again(t) ==
    /\ pc[t] = "released"
    /\ IF Done
       THEN /\ pc' = [pc EXCEPT ![t] = "idle"]
            /\ mutex' = Nil /\ most' = Nil /\ ready' = TRUE
       ELSE pc' = [pc EXCEPT ![t] = "unlocked"] /\ UNCHANGED <<mutex, most, ready>>
    /\ UNCHANGED <<entries, tip, told, csMain, start, old, worked, trace,
                   interrupted, broken>>

----------------------------------------------------------------------------
(* The context and the life of the manager *)

Interrupt ==
    /\ "interrupt" \in Failures
    /\ ~interrupted
    /\ interrupted' = TRUE
    /\ UNCHANGED <<entries, tip, told, csMain, mutex, pc, locals, ready, broken>>

\* close() writes the index and the tip to disk, a new manager, with a new context
\* if the old one was interrupted, loads them: LoadBlockIndex, LoadChainTip, then
\* ActivateBestChain.  LoadChainTip lowers the numbers of blocks that are in the
\* ordered set of candidates and then erases the tip from it.  Where a candidate
\* with the work of the tip lies above it in the search tree, and by its address
\* after it, the search misses the tip, which gets a second entry; the pruning that
\* follows stops at the first one and leaves the candidates between the two.
\* What close() writes after a system error is not modelled.
Reload(t) ==
    /\ "reload" \in Failures
    /\ \A u \in Thread : pc[u] = "idle"
    /\ ready /\ ~broken
    /\ LET whole == {b \in data : Ancestors[b] \subseteq data}
           bad   == {b \in index : Ancestors[b] \cap failed # {}}
           s     == [b \in Block |-> IF b \in Ancestors[tip] THEN 0 ELSE 1]
           after == {b \in whole \ bad : /\ ChainWork[b] = ChainWork[tip]
                                         /\ Address[b] < Address[tip]}
       IN /\ linked' = whole
          /\ unlinked' = {b \in data \ {Genesis} : Parent[b] \notin whole}
          /\ failed' = bad
          /\ seq' = s
          /\ \E missed \in {{}, after} :
                cand' = {b \in whole \ bad : ~SortsBefore(s, b, tip)} \cup missed
    /\ nextSeq' = 2
    /\ ready' = FALSE /\ interrupted' = FALSE
    /\ pc' = [pc EXCEPT ![t] = "accepted"]
    /\ UNCHANGED <<index, data, tip, told, csMain, mutex, locals, broken>>

----------------------------------------------------------------------------

ProcessNewBlock(t) ==
    \E b \in Block : \/ ProcessNewBlock_known(t, b)
                     \/ ProcessNewBlock_invalid(t, b)
                     \/ ProcessNewBlock_unwritten(t, b)
                     \/ ProcessNewBlock_stored(t, b)

ActivateBestChain(t) ==
    \/ ActivateBestChain_enter(t)
    \/ ActivateBestChain_lock(t)
    \/ ActivateBestChain_choose(t)
    \/ DisconnectTip(t)
    \/ ConnectTip(t)
    \/ ConnectTip_invalid(t)
    \/ SystemError(t)
    \/ ActivateBestChain_stepped(t)
    \/ ActivateBestChain_unlock(t)
    \/ ActivateBestChain_again(t)

Next ==
    \/ \E t \in Thread : ProcessNewBlock(t) \/ ActivateBestChain(t) \/ Reload(t)
    \/ Interrupt

Spec == Init /\ [][Next]_vars

\* A thread that is inside ActivateBestChain and can go on does go on.  No
\* call has to be made, and nobody has to win a lock that others take too.
FairSpec == Spec /\ \A t \in Thread : WF_vars(ActivateBestChain(t))

----------------------------------------------------------------------------
(* Properties *)

\* A block that is stored with all its ancestors, none of which breaks a rule.
Sound(b) == Ancestors[b] \subseteq data /\ \A a \in Ancestors[b] : Verdict[a] = "valid"

\* The active chain consists of stored valid blocks, also in the middle of a
\* reorganization, and only what descends from an invalid block is marked as
\* failed (ConnectTip, InvalidBlockFound, SetBlockFailureFlags).
OnlyValid ==
    /\ Sound(tip)
    /\ \A b \in failed : \E a \in Ancestors[b] : Verdict[a] # "valid"

\* What a listener was told by BlockConnected and BlockDisconnected, followed
\* by what connectTrace still holds, is the active chain; so it is the active
\* chain whenever another thread can look (DisconnectTip, ConnectTip,
\* ActivateBestChain).
ListenerFollows ==
    ~broken =>
        IF trace = <<>> THEN told = tip
        ELSE /\ csMain # Nil
             /\ Parent[trace[1]] = told
             /\ trace[Len(trace)] = tip
             /\ \A i \in 1..(Len(trace) - 1) : Parent[trace[i + 1]] = trace[i]

\* What CheckBlockIndex asserts of candidates, links and failures, whenever
\* cs_main is free.
CheckBlockIndex ==
    csMain = Nil /\ ~broken => \A b \in index :
        /\ b \in linked <=> Ancestors[b] \subseteq data
        /\ b \in failed <=> Ancestors[b] \cap failed # {}
        /\ (~Worse(b, tip) /\ b \in linked /\ b \notin failed) => b \in cand
        /\ (Worse(b, tip) \/ b \notin linked) => b \notin cand
        /\ (b \in data /\ b \notin linked /\ b \notin failed) => b \in unlinked
        /\ (b \notin data \/ b \in linked) => b \notin unlinked

\* When no call is in progress, no stored chain of valid blocks is better than
\* the active one, whatever blocks arrived in whatever order on however many
\* threads (FindMostWorkChain, PruneBlockIndexCandidates, ActivateBestChain).
BestWhenIdle ==
    (\A t \in Thread : pc[t] = "idle") /\ ~interrupted /\ ~broken =>
        \A b \in data : Sound(b) => ~Worse(tip, b)

\* "We absolutely may not unlock cs_main until we've made forward progress":
\* between two moments in which others can look, the chain never gets worse
\* (the two exits of the inner loop of ActivateBestChain).
WorkNeverFalls ==
    [][csMain # Nil /\ csMain' = Nil /\ ~broken' => ~Worse(tip, start)]_vars

\* An activation ends, whatever it meets: the inner loop of ActivateBestChain
\* does not choose a chain again that it has found to be invalid.
ActivationEnds == \A t \in Thread : (mutex = t) ~> (mutex # t)

\* A stored chain of valid blocks becomes active, or is beaten, unless there is
\* an interrupt or a system error; the call that does it need not be the one
\* that brought the block.
BlocksGetActive ==
    \A b \in Block : (b \in data /\ Sound(b)) ~>
                        (interrupted \/ broken \/ ~Worse(tip, b))

----------------------------------------------------------------------------
(* Inductive invariant *)

Locked == {"choose", "step", "stepped", "leave"}
Active == Locked \cup {"unlocked", "released"}

LocksInv ==
    \A t \in Thread : /\ pc[t] \in Locked <=> csMain = t
                      /\ pc[t] \in Active <=> mutex = t

AllValid(b) == \A a \in Ancestors[b] : Verdict[a] = "valid"

\* What is stored can be told by its links; a chain without invalid blocks is
\* linked, or waits in m_blocks_unlinked.
EntriesInv ==
    /\ \A b \in index : Verdict[b] # "badHeader"
    /\ \A b \in data : Verdict[b] \in {"valid", "badConnect"}
    /\ cand \subseteq linked
    /\ \A b \in linked : Ancestors[b] \subseteq data
    /\ unlinked \subseteq data \ linked
    /\ \A b \in data : AllValid(b) => b \in linked \cup unlinked
    /\ \A b \in Block : Sound(b) => b \in linked

\* What pindexMostWork is, where a thread has one.
TargetInv ==
    /\ most # Nil => most \in linked
    /\ mutex = Nil => most = Nil
    /\ \A t \in Thread :
          /\ pc[t] = "step" => most # Nil
          /\ pc[t] \in Active \ {"step"} /\ most # Nil => tip \in Ancestors[most]
          /\ pc[t] \in Locked => start \in Block /\ Sound(start)

\* While cs_main is held, everything that is no worse than the tip before and
\* the tip now can still be chosen.
ProgressInv ==
    ~broken =>
    /\ csMain = Nil =>
          \A b \in linked \ failed : ~Worse(b, tip) => b \in cand
    /\ csMain # Nil =>
          \A b \in linked \ failed : ~Worse(b, start) /\ ~Worse(b, tip) => b \in cand
    /\ \A t \in Thread :
          /\ pc[t] \in {"choose", "step", "stepped"} /\ most # Nil => ~Worse(most, start)
          /\ pc[t] = "choose" => ~Worse(start, tip)
          /\ pc[t] = "step" /\ tip \notin Ancestors[most] => ~Worse(start, tip)
          /\ pc[t] = "leave" => ~Worse(tip, start) /\ (worked \/ most = tip)

\* A tip that was loaded, as long as it is a candidate, is no better than the tip
\* whenever cs_main is free; so what is misplaced below it is not missed.
LoadedInv ==
    /\ nextSeq > 0
    /\ ~broken => \A s \in cand : seq[s] = 0 =>
          /\ csMain = Nil => ~Worse(tip, s)
          /\ csMain # Nil => ~Worse(start, s)

TraceInv ==
    ~broken =>
    /\ ListenerFollows
    /\ trace # <<>> => /\ \E t \in Thread : pc[t] \in {"step", "stepped"}
                       /\ most # Nil => tip \in Ancestors[most]

\* A better chain waits for a thread that will look for it.
PendingInv ==
    ~broken /\ ~interrupted =>
        \A b \in data : Sound(b) /\ Worse(tip, b) =>
            \E t \in Thread : \/ pc[t] = "accepted"
                              \/ /\ mutex = t
                                 /\ most = Nil \/ ~Worse(most, b)

\* The index by itself, also while cs_main is held and after a system error: it
\* has the ancestors of its members, failures reach everything above them and
\* begin at a block that was refused before it was stored or after it was
\* linked, and what has data is linked, waits, or is failed.
IndexInv ==
    /\ data \subseteq index /\ failed \subseteq index
    /\ \A b \in index : Ancestors[b] \subseteq index
    /\ \A b \in index : Ancestors[b] \cap failed # {} => b \in failed
    /\ \A b \in failed : \E a \in Ancestors[b] \cap failed :
          a \in linked \/ Verdict[a] = "badContext"
    /\ \A b \in Block : Ancestors[b] \subseteq data => b \in linked
    /\ data \ (linked \cup failed) \subseteq unlinked

\* No block has been loaded, and no candidate is worse than the tip.
CandidatesInv ==
    /\ \A b \in Block : seq[b] > 0
    /\ \A c \in cand : ~Worse(c, tip)

IndInv ==
    /\ TypeOK /\ OnlyValid /\ LocksInv /\ EntriesInv /\ TargetInv
    /\ LoadedInv /\ ProgressInv /\ TraceInv /\ PendingInv

============================================================================
