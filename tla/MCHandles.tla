----------------------------- MODULE MCHandles -----------------------------
(***************************************************************************)
(* Small instances of Handles.  Objects and handles are numbers, used in   *)
(* the order of their creation (InOrder): their names mean nothing, so     *)
(* every behaviour is the renaming of one that does this.                  *)
(***************************************************************************)
EXTENDS Handles, Naturals

InOrder ==
    /\ \A m, n \in Wrapper :
          m < n /\ class[m] = "none" => class[n] = "none"
    /\ \A g, h \in Handle : g < h /\ keeps[g] = {} => keeps[h] = {}

\* One object of each class on the path to undo data and blocks, and one block:
\* a second one is made and checked, and not followed further.
OnePath ==
    \A c \in {"ChainstateManager", "Chain", "BlockTreeEntry", "Block",
             "BlockHash", "Coin", "TransactionOutput"} :
        \A m, n \in Wrapper : class[m] = c /\ class[n] = c => m = n

\* Transactions and a chainstate manager have nothing to do with each other:
\* an object of the one is followed alone or with one of the other.
OneWorld ==
    \A m, n \in Wrapper :
        /\ class[m] = "Transaction" /\ class[n] = "Transaction"
        /\ \E w \in Wrapper : class[w] = "ChainstateManager"
        => m = n

Wrappers4 == 1..4
Wrappers5 == 1..5
Wrappers6 == 1..6
Wrappers7 == 1..7
Handles2 == 1..2
Handles3 == 1..3

\* Blocks and their transactions.
TransactionClasses ==
    {"Block", "BlockHash", "Transaction", "TransactionInput",
     "TransactionOutPoint", "TransactionOutput", "Txid", "ScriptPubkey"}

\* What a chainstate manager gives access to: entries, hashes, blocks, and undo
\* data down to the output of a spent coin.
ChainClasses ==
    {"ChainstateManager", "Chain", "BlockTreeEntry", "BlockHash", "Block",
     "BlockSpentOutputs", "TransactionSpentOutputs", "Coin",
     "TransactionOutput"}

\* What a client that breaks the rules of SoundClient gets to see.
CarelessClasses ==
    {"Transaction", "ChainstateManager", "Chain", "BlockTreeEntry",
     "BlockSpentOutputs", "TransactionSpentOutputs"}

\* What a client may close without harm.
SafeCloses ==
    (AllClasses \X BOOLEAN)
      \ ({<<"BlockHash", FALSE>>} \cup ({"TransactionSpentOutputs"} \X BOOLEAN))

SafeFailures == {"Block", "readBlock", "readBlockSpentOutputs"}

ClosesHashViews == SafeCloses \cup {<<"BlockHash", FALSE>>}

EveryClose == AllClasses \X BOOLEAN

EveryFailure == Fallible

NoClasses == {}

SpentOutputsOnly == {"TransactionSpentOutputs"}
=============================================================================
