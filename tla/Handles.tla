------------------------------ MODULE Handles ------------------------------
(***************************************************************************)
(* The lifetimes of the objects of the binding: Java wrappers (Blocks.java, *)
(* Transactions.java, KernelData.java, and the chainstate manager and its  *)
(* views in Chainstate.java) over the C++ memory of bitcoinkernel.cpp.     *)
(*                                                                         *)
(* Native memory is a set of regions.  A handle h, allocated by a create,  *)
(* read or copy function, has a cell <<h, "cell">> that the matching       *)
(* destroy function frees.  btck_Block, btck_BlockSpentOutputs and         *)
(* btck_Transaction cells are shared_ptrs: what they share is a body       *)
(* <<h, "body">> (CBlock, CBlockUndo; also the block index of a chainstate *)
(* manager) or a transaction <<h, "tx">> (CTransaction), named after the   *)
(* handle it was first allocated for and alive while any live handle keeps *)
(* it.  A view is a pointer into the region of another object.             *)
(*                                                                         *)
(* A Java method is one step.  A method that throws changes nothing here.  *)
(***************************************************************************)
EXTENDS FiniteSets

CONSTANTS
    Wrapper,        \* Java objects the client may create
    Handle,         \* native allocations there is room for
    Nil,            \* not a handle: where NULL and the zero address point
    Thread,         \* client threads
    Classes,        \* the wrapper classes the client works with
    Closes,         \* <<class, ownsMemory>> of the objects the client closes
    MayFail,        \* the operations whose native call may return null
    AliasedCopies,  \* classes whose copies the client keeps using as views
    ReuseUnchecked  \* does the client call methods that do not check for
                    \* a closed object on closed objects?

AllClasses ==
    {"Block", "BlockHash", "BlockSpentOutputs", "BlockTreeEntry", "Chain",
     "ChainstateManager", "Coin", "ScriptPubkey", "Transaction",
     "TransactionInput", "TransactionOutPoint", "TransactionOutput",
     "TransactionSpentOutputs", "Txid"}

Fallible ==
    {"Block", "ChainstateManager", "Transaction", "readBlock",
     "readBlockSpentOutputs"}

ASSUME ClientAssumption ==
    /\ Nil \notin Handle
    /\ Classes \subseteq AllClasses
    /\ Closes \subseteq AllClasses \X BOOLEAN
    /\ MayFail \subseteq Fallible
    /\ AliasedCopies \subseteq AllClasses
    /\ ReuseUnchecked \in BOOLEAN

Region == (Handle \cup {Nil}) \X {"cell", "body", "tx"}

NoRegion == <<Nil, "cell">>

VARIABLES
    class,   \* class of each Java object, "none" before it exists
    seg,     \* its field inner: the constant NULL, a zero address, a pointer
    owns,    \* its field ownsMemory
    at, to,  \* region inner points to, and region the views of it point to
    root,    \* the object whose lifetime it depends on: itself for an owner
    arena,   \* {the thread confined to} while its arena is open, else {}
    live,    \* handles allocated and not destroyed
    keeps,   \* regions each handle keeps alive; {} before it is allocated
    fault    \* has native code been given memory that is not there?

vars == <<class, seg, owns, at, to, root, arena, live, keeps, fault>>

TypeOK ==
    /\ class \in [Wrapper -> Classes \cup {"none"}]
    /\ seg \in [Wrapper -> {"NULL", "zero", "pointer"}]
    /\ owns \in [Wrapper -> BOOLEAN]
    /\ at \in [Wrapper -> Region]
    /\ to \in [Wrapper -> Region]
    /\ root \in [Wrapper -> Wrapper]
    /\ arena \in [Wrapper -> SUBSET Thread]
    /\ live \subseteq Handle
    /\ keeps \in [Handle -> SUBSET Region]
    /\ fault \in BOOLEAN

Init ==
    /\ class = [w \in Wrapper |-> "none"]
    /\ seg = [w \in Wrapper |-> "NULL"]
    /\ owns = [w \in Wrapper |-> FALSE]
    /\ at = [w \in Wrapper |-> NoRegion]
    /\ to = [w \in Wrapper |-> NoRegion]
    /\ root = [w \in Wrapper |-> w]
    /\ arena = [w \in Wrapper |-> {}]
    /\ live = {}
    /\ keeps = [h \in Handle |-> {}]
    /\ fault = FALSE

----------------------------------------------------------------------------
(* Native memory. *)

Alive(r) == \E h \in live : r \in keeps[h]

\* A downcall reads the object inner points to and what it shares.
Backed(w) == seg[w] = "pointer" /\ Alive(at[w]) /\ Alive(to[w])

\* Handle<C, CPP>::create and ::copy: a new cell.
Fresh(h) == keeps[h] = {}

Allocate(h, regions) ==
    /\ live' = live \cup {h}
    /\ keeps' = [keeps EXCEPT ![h] = regions]

----------------------------------------------------------------------------
(* Java objects. *)

\* What the test at the head of a method finds: isNull(inner), or
\* inner == MemorySegment.NULL, which is the identity of Java objects and
\* does not hold of the zero address a downcall returns.
Rejects(w, check) ==
    \/ check = "isNull" /\ seg[w] # "pointer"
    \/ check = "identity" /\ seg[w] = "NULL"

\* A call of a method on w that does not throw at once.  The client keeps
\* the object a view depends on open while it uses the view, and calls a
\* method without a check on a closed object only if ReuseUnchecked.
Calls(w, c, check) ==
    /\ ~fault
    /\ class[w] = c
    /\ ~Rejects(w, check)
    /\ seg[w] = "pointer" => seg[root[w]] # "NULL"
    /\ seg[w] # "pointer" => check # "none" \/ ReuseUnchecked

\* The fields of the new object n.
Becomes(n, c, s, o, a, b, r, ar) ==
    /\ class[n] = "none"
    /\ c \in Classes
    /\ class' = [class EXCEPT ![n] = c]
    /\ seg' = [seg EXCEPT ![n] = s]
    /\ owns' = [owns EXCEPT ![n] = o]
    /\ at' = [at EXCEPT ![n] = a]
    /\ to' = [to EXCEPT ![n] = b]
    /\ root' = [root EXCEPT ![n] = r]
    /\ arena' = [arena EXCEPT ![n] = ar]

\* A method of w that only reads w and the objects args.
Reads(w, c, check, args) ==
    /\ Calls(w, c, check)
    /\ fault' = \E x \in {w} \cup args : ~Backed(x)
    /\ UNCHANGED <<class, seg, owns, at, to, root, arena, live, keeps>>

\* A getter that wraps a pointer into the memory of w.
GetsView(w, c, check, args, n, d) ==
    /\ Calls(w, c, check)
    /\ Becomes(n, d, "pointer", FALSE, to[w],
               IF d = "Transaction" THEN <<to[w][1], "tx">> ELSE to[w],
               root[w], {})
    /\ fault' = \E x \in {w} \cup args : ~Backed(x)
    /\ UNCHANGED <<live, keeps>>

\* A method of w that returns the owner n of a new allocation.
Derives(w, c, check, args, n, d, h, regions, b) ==
    /\ Calls(w, c, check)
    /\ Fresh(h)
    /\ Allocate(h, regions)
    /\ Becomes(n, d, "pointer", TRUE, <<h, "cell">>, b, n, {})
    /\ fault' = \E x \in {w} \cup args : ~Backed(x)

\* copy() of an object that is all in its cell.
Copies(w, c, check, n, h) ==
    Derives(w, c, check, {}, n, c, h, {<<h, "cell">>}, <<h, "cell">>)

\* Mutant: the copy points to what the original shares without sharing it.
CopiesShared_unshared(w, c, check, n, h) ==
    Derives(w, c, check, {}, n, c, h, {<<h, "cell">>}, to[w])

\* copy() of an object whose cell is a shared_ptr.
CopiesShared(w, c, check, n, h) ==
    Derives(w, c, check, {}, n, c, h, {<<h, "cell">>, to[w]}, to[w])

\* A constructor whose native create function succeeds.  A constructor
\* that takes bytes puts them in an arena confined to its thread.
Creates(n, c, h, regions, b, ar) ==
    /\ ~fault
    /\ Fresh(h)
    /\ Allocate(h, regions)
    /\ Becomes(n, c, "pointer", TRUE, <<h, "cell">>, b, n, ar)
    /\ UNCHANGED fault

\* An object around the zero address of a native call that failed.
Hollow(n, c, ar) ==
    /\ ~fault
    /\ Becomes(n, c, "zero", TRUE, NoRegion, NoRegion, n, ar)
    /\ UNCHANGED <<live, keeps>>

\* Destroying is an error unless inner is the cell of a live handle.  C++
\* lets the null pointer be deleted; only the destroy function of the
\* chainstate manager reads it first.
BadDestroy(w) ==
    \/ seg[w] = "pointer" /\ ~\E h \in live : at[w] = <<h, "cell">>
    \/ seg[w] = "zero" /\ class[w] = "ChainstateManager"

\* Mutant: inner is not reset after the destroy function.
ClosesWith_noReset(t, w, c, destroys, final) ==
    /\ ~fault
    /\ class[w] = c
    /\ <<c, owns[w]>> \in Closes
    /\ live' = IF destroys /\ seg[w] = "pointer"
               THEN {h \in live : at[w] # <<h, "cell">>} ELSE live
    /\ fault' = (destroys /\ BadDestroy(w))
    /\ arena' = [arena EXCEPT ![w] = @ \ {t}]
    /\ UNCHANGED <<class, seg, owns, at, to, root, keeps>>

\* Mutant: inner is set to Java's null.
ClosesWith_null(t, w, c, destroys, final) ==
    /\ ~fault
    /\ class[w] = c
    /\ <<c, owns[w]>> \in Closes
    /\ live' = IF destroys /\ seg[w] = "pointer"
               THEN {h \in live : at[w] # <<h, "cell">>} ELSE live
    /\ fault' = (destroys /\ BadDestroy(w))
    /\ seg' = IF destroys /\ ~final THEN [seg EXCEPT ![w] = "null"] ELSE seg
    /\ arena' = [arena EXCEPT ![w] = @ \ {t}]
    /\ UNCHANGED <<class, owns, at, to, root, keeps>>

\* Mutant: the arena is not closed.
ClosesWith_noArena(t, w, c, destroys, final) ==
    /\ ~fault
    /\ class[w] = c
    /\ <<c, owns[w]>> \in Closes
    /\ live' = IF destroys /\ seg[w] = "pointer"
               THEN {h \in live : at[w] # <<h, "cell">>} ELSE live
    /\ fault' = (destroys /\ BadDestroy(w))
    /\ seg' = IF destroys /\ ~final THEN [seg EXCEPT ![w] = "NULL"] ELSE seg
    /\ UNCHANGED <<class, owns, at, to, root, arena, keeps>>

\* close() by thread t.  If destroys, the test in front of the destroy
\* function, holds, the native object goes and inner becomes NULL (unless
\* the field is final).  The arena is closed in any case, which throws when
\* t is not the thread it is confined to or when it is closed already.
ClosesWith(t, w, c, destroys, final) ==
    /\ ~fault
    /\ class[w] = c
    /\ <<c, owns[w]>> \in Closes
    /\ live' = IF destroys /\ seg[w] = "pointer"
               THEN {h \in live : at[w] # <<h, "cell">>} ELSE live
    /\ fault' = (destroys /\ BadDestroy(w))
    /\ seg' = IF destroys /\ ~final THEN [seg EXCEPT ![w] = "NULL"] ELSE seg
    /\ arena' = [arena EXCEPT ![w] = @ \ {t}]
    /\ UNCHANGED <<class, owns, at, to, root, keeps>>

\* Mutant: the test on ownsMemory is dropped.
IfOwner_anyone(w) == seg[w] # "NULL"

\* The usual test: inner != MemorySegment.NULL && ownsMemory.
IfOwner(w) == seg[w] # "NULL" /\ owns[w]

\* The test of classes that have no ownsMemory or do not look at it.
IfOpen(w) == seg[w] # "NULL"

----------------------------------------------------------------------------
(* Blocks.java *)

BlockRegions(h) == {<<h, "cell">>, <<h, "body">>, <<h, "tx">>}

\* When the bytes are not a block, isNull finds it: the constructor closes
\* the arena and throws.
Block_fromBytes(t, n, h) ==
    \/ Creates(n, "Block", h, BlockRegions(h), <<h, "body">>, {t})
    \/ "Block" \in MayFail /\ UNCHANGED vars

\* The validation interface callbacks wrap the copy they are given.
Block_fromCallback(n, h) ==
    Creates(n, "Block", h, BlockRegions(h), <<h, "body">>, {})

\* Mutant: the hash is a pointer into the block.
Block_getHash_inside(w, n, h) ==
    /\ Calls(w, "Block", "isNull")
    /\ Becomes(n, "BlockHash", "pointer", TRUE, to[w], to[w], n, {})
    /\ fault' = ~Backed(w)
    /\ UNCHANGED <<live, keeps>>

Block_getHash(w, n, h) ==
    Derives(w, "Block", "isNull", {}, n, "BlockHash", h, {<<h, "cell">>},
            <<h, "cell">>)

Block_countTransaction(w) == Reads(w, "Block", "none", {})

Block_getTransaction(w, n) ==
    GetsView(w, "Block", "isNull", {}, n, "Transaction")

Block_toBytes(w) == Reads(w, "Block", "isNull", {})

Block_close(t, w) == ClosesWith(t, w, "Block", IfOpen(w), FALSE)

BlockHash_fromBytes(t, n, h) ==
    Creates(n, "BlockHash", h, {<<h, "cell">>}, <<h, "cell">>, {t})

BlockHash_toBytes(w) == Reads(w, "BlockHash", "isNull", {})

BlockHash_equals(w, m) ==
    /\ Calls(m, "BlockHash", "isNull")
    /\ Reads(w, "BlockHash", "isNull", {m})

\* Mutant: the copy is made and the pointer it was made from is wrapped.
BlockHash_copy_original(w, n, h) ==
    /\ Calls(w, "BlockHash", "isNull")
    /\ Fresh(h)
    /\ Allocate(h, {<<h, "cell">>})
    /\ Becomes(n, "BlockHash", "pointer", TRUE, at[w], to[w], n, {})
    /\ fault' = ~Backed(w)

BlockHash_copy(w, n, h) == Copies(w, "BlockHash", "isNull", n, h)

\* close() does not look at ownsMemory.
BlockHash_close(t, w) == ClosesWith(t, w, "BlockHash", IfOpen(w), FALSE)

BlockTreeEntry_getPrevious(w, n) ==
    GetsView(w, "BlockTreeEntry", "none", {}, n, "BlockTreeEntry")

BlockTreeEntry_getHeight(w) == Reads(w, "BlockTreeEntry", "none", {})

BlockTreeEntry_getBlockHash(w, n) ==
    GetsView(w, "BlockTreeEntry", "none", {}, n, "BlockHash")

BlockSpentOutputs_count(w) == Reads(w, "BlockSpentOutputs", "isNull", {})

BlockSpentOutputs_getTransactionSpentOutputs(w, n) ==
    GetsView(w, "BlockSpentOutputs", "isNull", {}, n,
             "TransactionSpentOutputs")

BlockSpentOutputs_copy(w, n, h) ==
    CopiesShared(w, "BlockSpentOutputs", "isNull", n, h)

BlockSpentOutputs_close(t, w) ==
    ClosesWith(t, w, "BlockSpentOutputs", IfOwner(w), FALSE)

----------------------------------------------------------------------------
(* Transactions.java *)

\* The test for a failed create is by identity, so it never holds: bytes
\* that are not a transaction give an object around the zero address.
Transaction_fromBytes(t, n, h) ==
    \/ Creates(n, "Transaction", h, {<<h, "cell">>, <<h, "tx">>},
               <<h, "tx">>, {t})
    \/ /\ "Transaction" \in MayFail
       /\ Hollow(n, "Transaction", {t})
       /\ UNCHANGED fault

Transaction_copy(w, n, h) ==
    CopiesShared(w, "Transaction", "identity", n, h)

\* countInputs and countOutputs
Transaction_count(w) == Reads(w, "Transaction", "none", {})

Transaction_getInput(w, n) ==
    GetsView(w, "Transaction", "none", {}, n, "TransactionInput")

Transaction_getOutput(w, n) ==
    GetsView(w, "Transaction", "none", {}, n, "TransactionOutput")

Transaction_getTxid(w, n) ==
    GetsView(w, "Transaction", "none", {}, n, "Txid")

Transaction_close(t, w) ==
    ClosesWith(t, w, "Transaction", IfOwner(w), FALSE)

TransactionInput_copy(w, n, h) ==
    Copies(w, "TransactionInput", "identity", n, h)

TransactionInput_getOutPoint(w, n) ==
    GetsView(w, "TransactionInput", "identity", {}, n, "TransactionOutPoint")

TransactionInput_close(t, w) ==
    ClosesWith(t, w, "TransactionInput", IfOwner(w), FALSE)

TransactionOutPoint_copy(w, n, h) ==
    Copies(w, "TransactionOutPoint", "identity", n, h)

TransactionOutPoint_getIndex(w) ==
    Reads(w, "TransactionOutPoint", "identity", {})

TransactionOutPoint_getTxid(w, n) ==
    GetsView(w, "TransactionOutPoint", "identity", {}, n, "Txid")

TransactionOutPoint_close(t, w) ==
    ClosesWith(t, w, "TransactionOutPoint", IfOwner(w), FALSE)

\* The constructor does not check that the script is open.
TransactionOutput_fromScript(w, n, h) ==
    Derives(w, "ScriptPubkey", "none", {}, n, "TransactionOutput", h,
            {<<h, "cell">>}, <<h, "cell">>)

TransactionOutput_copy(w, n, h) ==
    Copies(w, "TransactionOutput", "identity", n, h)

TransactionOutput_getAmount(w) ==
    Reads(w, "TransactionOutput", "identity", {})

TransactionOutput_getScriptPubKey(w, n) ==
    GetsView(w, "TransactionOutput", "identity", {}, n, "ScriptPubkey")

TransactionOutput_close(t, w) ==
    ClosesWith(t, w, "TransactionOutput", IfOwner(w), FALSE)

\* getConfirmationHeight and isCoinbase
Coin_read(w) == Reads(w, "Coin", "identity", {})

Coin_getOutput(w, n) ==
    GetsView(w, "Coin", "identity", {}, n, "TransactionOutput")

Coin_copy(w, n, h) == Copies(w, "Coin", "identity", n, h)

Coin_close(t, w) == ClosesWith(t, w, "Coin", IfOwner(w), FALSE)

Txid_copy(w, n, h) == Copies(w, "Txid", "identity", n, h)

Txid_toBytes(w) == Reads(w, "Txid", "identity", {})

Txid_equals(w, m) ==
    /\ Calls(m, "Txid", "identity")
    /\ Reads(w, "Txid", "identity", {m})

Txid_close(t, w) == ClosesWith(t, w, "Txid", IfOwner(w), FALSE)

TransactionSpentOutputs_count(w) ==
    Reads(w, "TransactionSpentOutputs", "none", {})

TransactionSpentOutputs_getCoin(w, n) ==
    GetsView(w, "TransactionSpentOutputs", "none", {}, n, "Coin")

\* copy() allocates a copy and then wraps the pointer it copied from, as
\* an owner.
TransactionSpentOutputs_copy(w, n, h) ==
    /\ Calls(w, "TransactionSpentOutputs", "none")
    /\ Fresh(h)
    /\ Allocate(h, {<<h, "cell">>})
    /\ Becomes(n, "TransactionSpentOutputs", "pointer", TRUE, at[w], to[w],
               IF "TransactionSpentOutputs" \in AliasedCopies
               THEN root[w] ELSE n, {})
    /\ fault' = ~Backed(w)

\* close() does not look at ownsMemory and leaves inner as it is.
TransactionSpentOutputs_close(t, w) ==
    ClosesWith(t, w, "TransactionSpentOutputs", IfOpen(w), TRUE)

----------------------------------------------------------------------------
(* KernelData.java *)

ScriptPubkey_fromBytes(t, n, h) ==
    Creates(n, "ScriptPubkey", h, {<<h, "cell">>}, <<h, "cell">>, {t})

\* The script and the transaction are checked, the spent outputs are not.
ScriptPubkey_verify(w, m, spent) ==
    /\ Calls(m, "Transaction", "identity")
    /\ \A x \in spent : Calls(x, "TransactionOutput", "none")
    /\ Reads(w, "ScriptPubkey", "identity", {m} \cup spent)

ScriptPubkey_toBytes(w) == Reads(w, "ScriptPubkey", "identity", {})

ScriptPubkey_copy(w, n, h) == Copies(w, "ScriptPubkey", "identity", n, h)

ScriptPubkey_close(t, w) ==
    ClosesWith(t, w, "ScriptPubkey", IfOwner(w), FALSE)

----------------------------------------------------------------------------
(* Chainstate.java *)

ChainstateManager_new(n, h) ==
    \/ Creates(n, "ChainstateManager", h, {<<h, "cell">>, <<h, "body">>},
               <<h, "body">>, {})
    \/ /\ "ChainstateManager" \in MayFail
       /\ Hollow(n, "ChainstateManager", {})
       /\ UNCHANGED fault

ChainstateManager_ProcessBlock(w, m) ==
    /\ Calls(m, "Block", "isNull")
    /\ Reads(w, "ChainstateManager", "identity", {m})

ChainstateManager_getChain(w, n) ==
    GetsView(w, "ChainstateManager", "identity", {}, n, "Chain")

\* An unknown hash makes the constructor of BlockTreeEntry throw.
ChainstateManager_getBlockTreeEntry(w, m, n) ==
    /\ Calls(m, "BlockHash", "isNull")
    /\ GetsView(w, "ChainstateManager", "identity", {m}, n, "BlockTreeEntry")

\* The test for a failed read is by identity: the client gets a Block
\* around the zero address instead of null.
ChainstateManager_readBlock(w, m, n, h) ==
    /\ Calls(m, "BlockTreeEntry", "none")
    /\ \/ Derives(w, "ChainstateManager", "identity", {m}, n, "Block", h,
                  BlockRegions(h), <<h, "body">>)
       \/ /\ "readBlock" \in MayFail
          /\ Calls(w, "ChainstateManager", "identity")
          /\ Hollow(n, "Block", {})
          /\ fault' = (~Backed(w) \/ ~Backed(m))

\* Here the constructor of BlockSpentOutputs throws when the read fails.
ChainstateManager_readBlockSpentOutputs(w, m, n, h) ==
    /\ Calls(m, "BlockTreeEntry", "none")
    /\ \/ Derives(w, "ChainstateManager", "identity", {m}, n,
                  "BlockSpentOutputs", h, {<<h, "cell">>, <<h, "body">>},
                  <<h, "body">>)
       \/ /\ "readBlockSpentOutputs" \in MayFail
          /\ Reads(w, "ChainstateManager", "identity", {m})

ChainstateManager_close(t, w) ==
    ClosesWith(t, w, "ChainstateManager", IfOpen(w), FALSE)

Chain_getHeight(w) == Reads(w, "Chain", "none", {})

Chain_getByHeight(w, n) ==
    GetsView(w, "Chain", "none", {}, n, "BlockTreeEntry")

Chain_contains(w, m) ==
    /\ Calls(m, "BlockTreeEntry", "none")
    /\ Reads(w, "Chain", "none", {m})

----------------------------------------------------------------------------
(* The whole client. *)

BlocksNext ==
    \/ \E t \in Thread, n \in Wrapper, h \in Handle :
          Block_fromBytes(t, n, h) \/ BlockHash_fromBytes(t, n, h)
    \/ \E n \in Wrapper, h \in Handle : Block_fromCallback(n, h)
    \/ \E w, n \in Wrapper, h \in Handle :
          \/ Block_getHash(w, n, h)
          \/ BlockHash_copy(w, n, h)
          \/ BlockSpentOutputs_copy(w, n, h)
    \/ \E w, n \in Wrapper :
          \/ Block_getTransaction(w, n)
          \/ BlockHash_equals(w, n)
          \/ BlockTreeEntry_getPrevious(w, n)
          \/ BlockTreeEntry_getBlockHash(w, n)
          \/ BlockSpentOutputs_getTransactionSpentOutputs(w, n)
    \/ \E w \in Wrapper :
          \/ Block_countTransaction(w)
          \/ Block_toBytes(w)
          \/ BlockHash_toBytes(w)
          \/ BlockTreeEntry_getHeight(w)
          \/ BlockSpentOutputs_count(w)
    \/ \E t \in Thread, w \in Wrapper :
          \/ Block_close(t, w)
          \/ BlockHash_close(t, w)
          \/ BlockSpentOutputs_close(t, w)

TransactionsNext ==
    \/ \E t \in Thread, n \in Wrapper, h \in Handle :
          Transaction_fromBytes(t, n, h)
    \/ \E w, n \in Wrapper, h \in Handle :
          \/ Transaction_copy(w, n, h)
          \/ TransactionInput_copy(w, n, h)
          \/ TransactionOutPoint_copy(w, n, h)
          \/ TransactionOutput_fromScript(w, n, h)
          \/ TransactionOutput_copy(w, n, h)
          \/ Coin_copy(w, n, h)
          \/ Txid_copy(w, n, h)
          \/ TransactionSpentOutputs_copy(w, n, h)
    \/ \E w, n \in Wrapper :
          \/ Transaction_getInput(w, n)
          \/ Transaction_getOutput(w, n)
          \/ Transaction_getTxid(w, n)
          \/ TransactionInput_getOutPoint(w, n)
          \/ TransactionOutPoint_getTxid(w, n)
          \/ TransactionOutput_getScriptPubKey(w, n)
          \/ Coin_getOutput(w, n)
          \/ Txid_equals(w, n)
          \/ TransactionSpentOutputs_getCoin(w, n)
    \/ \E w \in Wrapper :
          \/ Transaction_count(w)
          \/ TransactionOutPoint_getIndex(w)
          \/ TransactionOutput_getAmount(w)
          \/ Coin_read(w)
          \/ Txid_toBytes(w)
          \/ TransactionSpentOutputs_count(w)
    \/ \E t \in Thread, w \in Wrapper :
          \/ Transaction_close(t, w)
          \/ TransactionInput_close(t, w)
          \/ TransactionOutPoint_close(t, w)
          \/ TransactionOutput_close(t, w)
          \/ Coin_close(t, w)
          \/ Txid_close(t, w)
          \/ TransactionSpentOutputs_close(t, w)

KernelDataNext ==
    \/ \E t \in Thread, n \in Wrapper, h \in Handle :
          ScriptPubkey_fromBytes(t, n, h)
    \/ \E w, m \in Wrapper : \E spent \in SUBSET Wrapper :
          ScriptPubkey_verify(w, m, spent)
    \/ \E w \in Wrapper : ScriptPubkey_toBytes(w)
    \/ \E w, n \in Wrapper, h \in Handle : ScriptPubkey_copy(w, n, h)
    \/ \E t \in Thread, w \in Wrapper : ScriptPubkey_close(t, w)

ChainstateNext ==
    \/ \E n \in Wrapper, h \in Handle : ChainstateManager_new(n, h)
    \/ \E w, m, n \in Wrapper :
          ChainstateManager_getBlockTreeEntry(w, m, n)
    \/ \E w, m, n \in Wrapper, h \in Handle :
          \/ ChainstateManager_readBlock(w, m, n, h)
          \/ ChainstateManager_readBlockSpentOutputs(w, m, n, h)
    \/ \E w, n \in Wrapper :
          \/ ChainstateManager_ProcessBlock(w, n)
          \/ ChainstateManager_getChain(w, n)
          \/ Chain_getByHeight(w, n)
          \/ Chain_contains(w, n)
    \/ \E w \in Wrapper : Chain_getHeight(w)
    \/ \E t \in Thread, w \in Wrapper : ChainstateManager_close(t, w)

Next == BlocksNext \/ TransactionsNext \/ KernelDataNext \/ ChainstateNext

Spec == Init /\ [][Next]_vars

----------------------------------------------------------------------------
(* Properties. *)

\* README.md: "Memory-safe with proper resource management".  No method
\* hands native code a null, dangling or interior pointer where it needs a
\* live object, and none destroys what is not a live handle.
MemorySafe == ~fault

\* w is the one object that is to destroy the handle h.
Holds(w, h) ==
    /\ class[w] # "none"
    /\ owns[w]
    /\ seg[w] = "pointer"
    /\ at[w] = <<h, "cell">>

\* Objects created from bytes, read or copied own their native memory: an
\* open owner has a live handle that no other open owner has.  (Copies of
\* TransactionSpentOutputs are left out: copy() wraps the original.)
OwnersAreUnique ==
    \A w \in Wrapper :
        /\ class[w] \notin {"none", "TransactionSpentOutputs"}
        /\ owns[w]
        /\ seg[w] = "pointer"
        => \E h \in live : /\ Holds(w, h)
                          /\ \A v \in Wrapper : Holds(v, h) => v = w

\* No native allocation is lost: whatever order objects were copied and
\* closed in, every live handle still has an open owner to close it.
NoOrphans == \A h \in live : \E w \in Wrapper : Holds(w, h)

\* Closing an object takes nothing from objects rooted in another open one:
\* a copy of a transaction outlives its block, and the views into the copy
\* outlive both the block and the transaction it was copied from.
CloseIsLocal ==
    [][\A w \in Wrapper :
          /\ Backed(w)
          /\ seg'[w] = "pointer"
          /\ seg[root[w]] = "pointer"
          /\ seg'[root[w]] = "pointer"
          => Backed(w)']_vars

\* When every object is closed by the thread that made it, its arena goes
\* with its native memory: close() never leaves one of the two behind.
ArenaFollowsObject ==
    \A w \in Wrapper : seg[w] = "NULL" => arena[w] = {}

----------------------------------------------------------------------------
(* The inductive invariants. *)

Owner(w) ==
    /\ class[w] \notin {"none", "TransactionSpentOutputs"}
    /\ owns[w]
    /\ seg[w] = "pointer"

\* Why owners are unique whatever the client does.  A handle is destroyed
\* through a pointer to its cell, only an owner has one, and where close()
\* does not look at ownsMemory the views of the class point into a body.
OwnersInv ==
    /\ \A w \in Wrapper :
          /\ class[w] = "none" => seg[w] = "NULL"
          /\ class[w] \in {"Block", "ChainstateManager"} => owns[w]
          /\ Owner(w) => at[w][1] \in live /\ at[w][2] = "cell"
          /\ class[w] = "BlockSpentOutputs" => to[w][2] = "body"
          /\ class[w] = "TransactionSpentOutputs" =>
                at[w][2] = "body" /\ to[w][2] = "body"
    /\ \A v, w \in Wrapper :
          Owner(v) /\ Owner(w) /\ at[v][1] = at[w][1] => v = w
    /\ \A h \in live : keeps[h] # {}
    /\ ~fault => \A w \in Wrapper :
          /\ class[w] = "ChainstateManager" /\ seg[w] = "pointer" =>
                to[w][2] = "body"
          /\ class[w] \in {"Chain", "BlockTreeEntry"} => to[w][2] = "body"
          /\ class[w] = "BlockHash" /\ ~owns[w] => at[w][2] = "body"

\* A client for which the binding is memory safe: it closes no view of a
\* block hash and no TransactionSpentOutputs, takes a copy of the latter for
\* the view it is, creates objects only from well-formed data where the
\* constructor does not find the failure, and leaves closed objects alone.
SoundClient ==
    /\ <<"BlockHash", FALSE>> \notin Closes
    /\ \A o \in BOOLEAN : <<"TransactionSpentOutputs", o>> \notin Closes
    /\ "TransactionSpentOutputs" \in AliasedCopies
    /\ MayFail \subseteq {"Block", "readBlock", "readBlockSpentOutputs"}
    /\ ~ReuseUnchecked

IsRoot(w) == seg[w] = "pointer" /\ root[w] = w

\* An object that has not been created is NULL, and so is what depends on it.
Created ==
    \A w \in Wrapper :
        seg[w] # "NULL" => class[w] # "none" /\ class[root[w]] # "none"

\* An open root is the owner of a live cell that no other open root has.
RootsOwn ==
    /\ \A w \in Wrapper :
          IsRoot(w) => /\ owns[w]
                       /\ at[w][1] \in live
                       /\ at[w][2] = "cell"
    /\ \A v, w \in Wrapper :
          IsRoot(v) /\ IsRoot(w) /\ at[v][1] = at[w][1] => v = w

\* While its root is open, what an object points to is kept by the handle
\* of the root.
ViewsAreKept ==
    \A w \in Wrapper :
        seg[w] = "pointer" =>
            /\ root[root[w]] = root[w]
            /\ seg[root[w]] # "zero"
            /\ seg[root[w]] = "pointer" =>
                  {at[w], to[w]} \subseteq keeps[at[root[w]][1]]

\* An object that says it owns memory depends on no other, and Blocks and
\* chainstate managers always own theirs.
OwnersAreRoots ==
    \A w \in Wrapper :
        \/ class[w] = "none"
        \/ owns[w] /\ root[w] = w
        \/ class[w] = "TransactionSpentOutputs"
        \/ ~owns[w] /\ class[w] \notin {"Block", "ChainstateManager"}

\* A block keeps its transactions, and undo data is never a cell.
BodiesAreKept ==
    \A w \in Wrapper :
        /\ class[w] = "Block" /\ seg[w] = "pointer" =>
              <<to[w][1], "tx">> \in keeps[at[w][1]]
        /\ class[w] = "BlockSpentOutputs" => to[w][2] = "body"
        /\ class[w] = "TransactionSpentOutputs" => at[w][2] = "body" /\ to[w][2] = "body"

\* Every open object is an owner of a live handle or points to what such a
\* handle keeps alive.
MemoryInOrder ==
    /\ Created
    /\ RootsOwn
    /\ ViewsAreKept
    /\ OwnersAreRoots
    /\ BodiesAreKept
    /\ \A h \in live : keeps[h] # {}

\* A client that takes a copy of a TransactionSpentOutputs for the view it is
\* can do nothing else wrong in silence: up to the first call that gives
\* native code memory that is not there, all memory is in order.
InOrderUntilFault == ~fault => MemoryInOrder

\* Only a Block is ever around the zero address.
OnlyBlocksHollow ==
    \A w \in Wrapper : seg[w] = "zero" => class[w] = "Block"

\* Why the binding is memory safe for a sound client: memory is in order and
\* an object whose inner is not a pointer is refused by its own methods.
OwnershipInv == MemoryInOrder /\ OnlyBlocksHollow /\ ~fault
=============================================================================
