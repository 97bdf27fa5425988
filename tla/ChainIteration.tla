--------------------------- MODULE ChainIteration --------------------------
(***************************************************************************)
(* for (BlockTreeEntry entry : chain) in some threads, while others call   *)
(* ProcessBlock on the same manager.  Every native read of the chain takes *)
(* cs_main.                                                                *)
(***************************************************************************)
EXTENDS BestChain

CONSTANT Reader

VARIABLES
    at,        \* currentHeight of each reader's ChainIterator
    max,       \* maxHeight
    got,       \* the entries its next() has returned
    state,     \* whether its loop runs, has ended, or has thrown
    seen,      \* the tip when the iterator was made
    moved      \* a block was disconnected since then

iterators == <<at, max, got, state, seen, moved>>
allVars   == <<vars, iterators>>

IterationTypeOK ==
    /\ TypeOK
    /\ at \in [Reader -> Nat] /\ max \in [Reader -> Nat]
    /\ got \in [Reader -> Seq(Block)]
    /\ state \in [Reader -> {"idle", "running", "done", "thrown"}]
    /\ seen \in [Reader -> Block]
    /\ moved \in [Reader -> BOOLEAN]

IterationInit ==
    /\ Init
    /\ at = [r \in Reader |-> 0]
    /\ max = [r \in Reader |-> 0]
    /\ got = [r \in Reader |-> <<>>]
    /\ state = [r \in Reader |-> "idle"]
    /\ seen = [r \in Reader |-> Genesis]
    /\ moved = [r \in Reader |-> FALSE]

\* btck_chain_get_height and btck_chain_get_by_height: the entry, or none.
getHeight == Height[tip]
getByHeight(h) == {b \in Ancestors[tip] : Height[b] = h}

\* The height is taken for a count.
Chain_iterator_count(r) ==
    /\ state[r] = "idle" /\ csMain = Nil /\ ready
    /\ state' = [state EXCEPT ![r] = "running"]
    /\ max' = [max EXCEPT ![r] = getHeight - 1]
    /\ seen' = [seen EXCEPT ![r] = tip]
    /\ UNCHANGED <<vars, at, got, moved>>

\* The loop asks for an iterator.
Chain_iterator(r) ==
    /\ state[r] = "idle" /\ csMain = Nil /\ ready
    /\ state' = [state EXCEPT ![r] = "running"]
    /\ max' = [max EXCEPT ![r] = getHeight]
    /\ seen' = [seen EXCEPT ![r] = tip]
    /\ UNCHANGED <<vars, at, got, moved>>

\* The last height is left out.
hasNext_short(r) == at[r] < max[r]

hasNext(r) == at[r] <= max[r]

\* Waits for an entry instead of throwing.
ChainIterator_next_stays(r) ==
    /\ state[r] = "running" /\ hasNext(r) /\ csMain = Nil
    /\ getByHeight(at[r]) # {}
    /\ at' = [at EXCEPT ![r] = @ + 1]
    /\ \E b \in getByHeight(at[r]) : got' = [got EXCEPT ![r] = Append(@, b)]
    /\ UNCHANGED <<vars, max, seen, moved, state>>

\* next(): the height is advanced before the entry is known to exist.  Where
\* there is none the constructor of BlockTreeEntry throws.
ChainIterator_next(r) ==
    /\ state[r] = "running" /\ hasNext(r) /\ csMain = Nil
    /\ at' = [at EXCEPT ![r] = @ + 1]
    /\ IF getByHeight(at[r]) = {}
       THEN state' = [state EXCEPT ![r] = "thrown"] /\ UNCHANGED got
       ELSE /\ \E b \in getByHeight(at[r]) : got' = [got EXCEPT ![r] = Append(@, b)]
            /\ UNCHANGED state
    /\ UNCHANGED <<vars, max, seen, moved>>

\* hasNext() answers no.
ChainIterator_ends(r) ==
    /\ state[r] = "running" /\ ~hasNext(r)
    /\ state' = [state EXCEPT ![r] = "done"]
    /\ UNCHANGED <<vars, at, max, got, seen, moved>>

\* The manager works on.  It is not closed under a running loop.
Chain_changes ==
    /\ Next
    /\ ready /\ ~ready' => \A r \in Reader : state[r] # "running"
    /\ moved' = [r \in Reader |-> moved[r]
                    \/ (state[r] = "running" /\ tip \notin Ancestors[tip'])]
    /\ UNCHANGED <<at, max, got, state, seen>>

Iterate(r) == ChainIterator_next(r) \/ ChainIterator_ends(r)

IterationNext == Chain_changes \/ \E r \in Reader : Chain_iterator(r) \/ Iterate(r)

\* A loop that can go on does go on.
IterationSpec ==
    /\ IterationInit /\ [][IterationNext]_allVars
    /\ \A r \in Reader : WF_allVars(Iterate(r))

----------------------------------------------------------------------------
(* Properties *)

\* A loop under which no block was disconnected has returned the chain that was
\* active when it began, from the genesis block to that tip, however many
\* blocks were connected meanwhile (iterator(), hasNext(), next()).
SnapshotUnlessReorganized ==
    \A r \in Reader : state[r] = "done" /\ ~moved[r] =>
        /\ {got[r][i] : i \in DOMAIN got[r]} = Ancestors[seen[r]]
        /\ \A i \in DOMAIN got[r] : Height[got[r][i]] = i - 1

\* maxHeight is read once and used later.  Where all blocks have the same work
\* the chain is never seen lower than that again, so no reorganization makes
\* next() throw; only a system error in the middle of one does (next(),
\* ActivateBestChain).
EqualWorkNeverThrows ==
    (\A b \in Block : ChainWork[b] = Height[b]) /\ ~broken =>
        \A r \in Reader : state[r] # "thrown"

\* A loop ends, with or without an exception, once the other threads leave
\* cs_main to it (hasNext() against a maxHeight that does not move).
IterationEnds ==
    <>[](\A t \in Thread : pc[t] = "idle") =>
        \A r \in Reader : (state[r] = "running") ~> (state[r] # "running")

----------------------------------------------------------------------------
(* Inductive invariant *)

\* What a loop has returned so far, and that the chain it began with is still
\* below the tip unless a block was disconnected.
LoopsInv ==
    \A r \in Reader :
        /\ state[r] = "idle" => at[r] = 0 /\ got[r] = <<>> /\ ~moved[r]
        /\ state[r] = "running" => max[r] = Height[seen[r]] /\ at[r] <= max[r] + 1
        /\ state[r] \in {"running", "done"} /\ ~moved[r] =>
              /\ Len(got[r]) = at[r]
              /\ \A i \in 1..at[r] :
                    got[r][i] \in Ancestors[seen[r]] /\ Height[got[r][i]] = i - 1
              /\ state[r] = "running" => seen[r] \in Ancestors[tip]
              /\ state[r] = "done" => at[r] = Height[seen[r]] + 1

\* No chain that is seen, or was seen last, is lower than a running loop needs.
HeightsInv ==
    (\A b \in Block : ChainWork[b] = Height[b]) /\ ~broken =>
        \A r \in Reader :
            /\ state[r] # "thrown"
            /\ state[r] = "running" =>
                  max[r] <= Height[IF csMain = Nil THEN tip ELSE start]

IterationInv == IndInv /\ IterationTypeOK /\ LoopsInv /\ HeightsInv

============================================================================
