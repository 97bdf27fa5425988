--------------------------- MODULE HandlesProofs ---------------------------
(***************************************************************************)
(* What holds of the objects of the binding for any number of objects,     *)
(* handles and threads.  Every method is an instance of one of six schemes *)
(* (a call that only reads, a new view, a new owner, an object around the  *)
(* zero address, a close, and the copy of a TransactionSpentOutputs), so   *)
(* that is shown once, method by method, and every invariant is then       *)
(* preserved by one lemma per scheme.                                      *)
(*                                                                         *)
(* Of any client at all: owners are unique.  Of any client that takes      *)
(* copies of TransactionSpentOutputs for views: memory is in order up to   *)
(* the first fault.  Of a sound client: there is no fault.                 *)
(***************************************************************************)
EXTENDS Handles, TLAPS

\* The invariant that needs nothing of the client.
Base == TypeOK /\ OwnersInv

\* The arguments of the tests at the heads of methods (isNull, comparison
\* with MemorySegment.NULL, none).
Check == {"isNull", "identity", "none"}

\* A test by identity is never made on a Block, the class whose objects a
\* sound client can find hollow.
Guarded(c, check) ==
    c \in AllClasses /\ check \in Check /\ (check = "identity" => c # "Block")

\* A method got past the test it makes of x.
Called(x) ==
    \E c \in AllClasses, check \in Check : Guarded(c, check) /\ Calls(x, c, check)

\* The objects whose memory native code works on.
Uses(xs) ==
    /\ xs \in SUBSET Wrapper
    /\ \A x \in xs : Called(x)
    /\ ~fault
    /\ fault' = \E x \in xs : ~Backed(x)

\* The class a getter is called on and the class it returns.
Getters ==
    {<<"Block", "Transaction">>,
     <<"BlockSpentOutputs", "TransactionSpentOutputs">>,
     <<"BlockTreeEntry", "BlockHash">>,
     <<"BlockTreeEntry", "BlockTreeEntry">>,
     <<"Chain", "BlockTreeEntry">>,
     <<"ChainstateManager", "BlockTreeEntry">>,
     <<"ChainstateManager", "Chain">>,
     <<"Coin", "TransactionOutput">>,
     <<"Transaction", "TransactionInput">>,
     <<"Transaction", "TransactionOutput">>,
     <<"Transaction", "Txid">>,
     <<"TransactionInput", "TransactionOutPoint">>,
     <<"TransactionOutPoint", "Txid">>,
     <<"TransactionOutput", "ScriptPubkey">>,
     <<"TransactionSpentOutputs", "Coin">>}

ReadScheme ==
    /\ \E xs \in SUBSET Wrapper : Uses(xs)
    /\ UNCHANGED <<class, seg, owns, at, to, root, arena, live, keeps>>

Viewed(w, d) == IF d = "Transaction" THEN <<to[w][1], "tx">> ELSE to[w]

ViewScheme ==
    \E w, n \in Wrapper, xs \in SUBSET Wrapper, c, d \in AllClasses :
        /\ <<c, d>> \in Getters
        /\ class[w] = c
        /\ w \in xs
        /\ Uses(xs)
        /\ Becomes(n, d, "pointer", FALSE, to[w], Viewed(w, d), root[w], {})
        /\ UNCHANGED <<live, keeps>>

\* What a new owner of class c has in its memory.
Furnished(c, h, regions, b) ==
    /\ c \in AllClasses \ {"TransactionSpentOutputs"}
    /\ b \in Region
    /\ regions \in SUBSET Region
    /\ {<<h, "cell">>, b} \subseteq regions
    /\ c = "Block" => <<b[1], "tx">> \in regions
    /\ c \in {"BlockSpentOutputs", "ChainstateManager"} => b[2] = "body"

OwnerScheme ==
    \E n \in Wrapper, h \in Handle, c \in AllClasses,
       regions \in SUBSET Region, b \in Region, ar \in SUBSET Thread :
        /\ Furnished(c, h, regions, b)
        /\ c \notin {"Chain", "BlockTreeEntry"}
        /\ \E xs \in SUBSET Wrapper : Uses(xs)
        /\ Fresh(h)
        /\ Allocate(h, regions)
        /\ Becomes(n, c, "pointer", TRUE, <<h, "cell">>, b, n, ar)

HollowScheme ==
    \E n \in Wrapper, ar \in SUBSET Thread,
       c \in {"Block"} \cup ({"Transaction", "ChainstateManager"} \cap MayFail) :
        /\ \E xs \in SUBSET Wrapper : Uses(xs)
        /\ Hollow(n, c, ar)

CloseScheme ==
    \E t \in Thread, w \in Wrapper, c \in AllClasses, destroys \in BOOLEAN :
        /\ destroys => seg[w] # "NULL"
        /\ c \notin {"Block", "BlockHash", "ChainstateManager",
                     "TransactionSpentOutputs"}
             => (destroys => owns[w])
        /\ ClosesWith(t, w, c, destroys, c = "TransactionSpentOutputs")

CopyScheme ==
    \E w, n \in Wrapper, h \in Handle : TransactionSpentOutputs_copy(w, n, h)

Scheme ==
    \/ ReadScheme
    \/ ViewScheme
    \/ OwnerScheme
    \/ HollowScheme
    \/ CloseScheme
    \/ CopyScheme
    \/ UNCHANGED vars

----------------------------------------------------------------------------
(* The operators of Handles that methods are made of are schemes. *)

\* "none" is not the name of a class.
LEMMA NoneIsNoClass == "none" \notin Classes /\ "none" \notin AllClasses
  BY ClientAssumption DEF AllClasses

\* The regions of a new handle.
LEMMA RegionsOfHandle ==
    ASSUME NEW h \in Handle
    PROVE  /\ <<h, "cell">> \in Region /\ <<h, "body">> \in Region
           /\ <<h, "tx">> \in Region
  BY DEF Region

\* An argument that a method tests is one of the objects called.
LEMMA CallsIsCalled ==
    ASSUME NEW x, NEW c, NEW check, Guarded(c, check), Calls(x, c, check)
    PROVE  Called(x) /\ class[x] = c /\ ~fault
  BY DEF Called, Guarded, Calls

\* The objects whose memory a method of w with arguments args works on.
LEMMA UsesArguments ==
    ASSUME NEW w \in Wrapper, NEW c, NEW check, Guarded(c, check),
           Calls(w, c, check),
           NEW args \in SUBSET Wrapper, \A x \in args : Called(x),
           fault' = \E x \in {w} \cup args : ~Backed(x)
    PROVE  Uses({w} \cup args)
  <1>1. Called(w) /\ ~fault
    BY CallsIsCalled
  <1>2. {w} \cup args \in SUBSET Wrapper
    OBVIOUS
  <1> QED BY <1>1, <1>2 DEF Uses

\* A constructor works on no other object.
LEMMA UsesNothing ==
    ASSUME TypeOK, ~fault, UNCHANGED fault
    PROVE  \E xs \in SUBSET Wrapper : Uses(xs)
  <1>1. fault' = FALSE
    BY DEF TypeOK
  <1>2. {} \in SUBSET Wrapper /\ \A x \in {} : Called(x)
    OBVIOUS
  <1>3. (\E x \in {} : ~Backed(x)) = FALSE
    OBVIOUS
  <1>4. Uses({})
    BY <1>1, <1>2, <1>3, Zenon DEF Uses
  <1> QED BY <1>2, <1>4

\* Reads
LEMMA ReadsIsScheme ==
    ASSUME NEW w \in Wrapper, NEW c, NEW check, Guarded(c, check),
           NEW args \in SUBSET Wrapper, \A x \in args : Called(x),
           Reads(w, c, check, args)
    PROVE  Scheme
  <1>1. Uses({w} \cup args)
    BY UsesArguments DEF Reads
  <1>2. {w} \cup args \in SUBSET Wrapper
    OBVIOUS
  <1>3. ReadScheme
    BY <1>1, <1>2 DEF Reads, ReadScheme
  <1> QED BY <1>3 DEF Scheme

\* A method of w that takes no other object.
LEMMA ReadsAlone ==
    ASSUME NEW w \in Wrapper, NEW c, NEW check,
           Guarded(c, check), Reads(w, c, check, {})
    PROVE  Scheme
  <1>1. {} \in SUBSET Wrapper /\ \A x \in {} : Called(x)
    OBVIOUS
  <1> QED BY <1>1, ReadsIsScheme

\* GetsView
LEMMA GetsViewIsScheme ==
    ASSUME NEW w \in Wrapper, NEW c, NEW check, Guarded(c, check),
           NEW args \in SUBSET Wrapper, \A x \in args : Called(x),
           NEW n \in Wrapper, NEW d, <<c, d>> \in Getters,
           GetsView(w, c, check, args, n, d)
    PROVE  Scheme
  <1>1. Calls(w, c, check) /\ class[w] = c
    BY DEF GetsView, Calls
  <1>2. Uses({w} \cup args)
    BY <1>1, UsesArguments DEF GetsView
  <1>3. {w} \cup args \in SUBSET Wrapper /\ w \in {w} \cup args
    OBVIOUS
  <1>4. c \in AllClasses /\ d \in AllClasses
    BY DEF Getters, AllClasses
  <1>5. Becomes(n, d, "pointer", FALSE, to[w], Viewed(w, d), root[w], {})
    BY Zenon DEF GetsView, Viewed
  <1>6. UNCHANGED <<live, keeps>>
    BY DEF GetsView
  <1>7. ViewScheme
    BY <1>1, <1>2, <1>3, <1>4, <1>5, <1>6, Zenon DEF ViewScheme
  <1> QED BY <1>7 DEF Scheme

\* A getter of w that takes no other object.
LEMMA GetsViewAlone ==
    ASSUME NEW w \in Wrapper, NEW c, NEW check, Guarded(c, check),
           NEW n \in Wrapper, NEW d, <<c, d>> \in Getters,
           GetsView(w, c, check, {}, n, d)
    PROVE  Scheme
  <1>1. {} \in SUBSET Wrapper /\ \A x \in {} : Called(x)
    OBVIOUS
  <1> QED BY <1>1, GetsViewIsScheme

\* A new owner.
LEMMA OwnerIsScheme ==
    ASSUME NEW n \in Wrapper, NEW c, NEW h \in Handle, NEW regions, NEW b,
           NEW ar \in SUBSET Thread,
           Furnished(c, h, regions, b),
           c \notin {"Chain", "BlockTreeEntry"},
           \E xs \in SUBSET Wrapper : Uses(xs),
           Fresh(h),
           Allocate(h, regions),
           Becomes(n, c, "pointer", TRUE, <<h, "cell">>, b, n, ar)
    PROVE  Scheme
  <1>1. c \in AllClasses /\ b \in Region /\ regions \in SUBSET Region
    BY DEF Furnished
  <1>2. OwnerScheme
    BY <1>1, Zenon DEF OwnerScheme
  <1> QED BY <1>2 DEF Scheme

\* Derives
LEMMA DerivesIsScheme ==
    ASSUME NEW w \in Wrapper, NEW c, NEW check, Guarded(c, check),
           NEW args \in SUBSET Wrapper, \A x \in args : Called(x),
           NEW n \in Wrapper, NEW d, NEW h \in Handle, NEW regions, NEW b,
           Furnished(d, h, regions, b),
           d \notin {"Chain", "BlockTreeEntry"},
           Derives(w, c, check, args, n, d, h, regions, b)
    PROVE  Scheme
  <1>1. Uses({w} \cup args) /\ {w} \cup args \in SUBSET Wrapper
    BY UsesArguments DEF Derives
  <1>2. \E xs \in SUBSET Wrapper : Uses(xs)
    BY <1>1
  <1>3. {} \in SUBSET Thread
    OBVIOUS
  <1>4. /\ Fresh(h) /\ Allocate(h, regions)
        /\ Becomes(n, d, "pointer", TRUE, <<h, "cell">>, b, n, {})
    BY Zenon DEF Derives
  <1> QED BY <1>2, <1>3, <1>4, OwnerIsScheme, Zenon

\* The classes whose objects are all in their cell.
CellClasses ==
    {"BlockHash", "TransactionInput", "TransactionOutPoint",
     "TransactionOutput", "Coin", "Txid", "ScriptPubkey"}

\* What such an object has.
LEMMA CellFurnished ==
    ASSUME NEW c \in CellClasses, NEW h \in Handle
    PROVE  /\ Furnished(c, h, {<<h, "cell">>}, <<h, "cell">>)
           /\ c \notin {"Chain", "BlockTreeEntry"}
  <1>1. /\ <<h, "cell">> \in Region
        /\ c \in AllClasses \ {"TransactionSpentOutputs"}
        /\ c \notin {"Block", "BlockSpentOutputs", "ChainstateManager"}
        /\ c \notin {"Chain", "BlockTreeEntry"}
    BY RegionsOfHandle, Zenon DEF CellClasses, AllClasses
  <1> QED BY <1>1 DEF Furnished

\* A method of w that returns an owner of a single new cell.
LEMMA DerivesCell ==
    ASSUME NEW w \in Wrapper, NEW c, NEW check, Guarded(c, check),
           NEW n \in Wrapper, NEW d \in CellClasses, NEW h \in Handle,
           Derives(w, c, check, {}, n, d, h, {<<h, "cell">>}, <<h, "cell">>)
    PROVE  Scheme
  <1>1. {} \in SUBSET Wrapper /\ \A x \in {} : Called(x)
    OBVIOUS
  <1> QED BY <1>1, CellFurnished, DerivesIsScheme

\* Copies
LEMMA CopiesIsScheme ==
    ASSUME NEW w \in Wrapper, NEW c \in CellClasses, NEW check,
           Guarded(c, check), NEW n \in Wrapper, NEW h \in Handle,
           Copies(w, c, check, n, h)
    PROVE  Scheme
  BY DerivesCell DEF Copies

\* CopiesShared
LEMMA CopiesSharedIsScheme ==
    ASSUME Base, NEW w \in Wrapper,
           NEW c \in {"Transaction", "BlockSpentOutputs"}, NEW check,
           Guarded(c, check), NEW n \in Wrapper, NEW h \in Handle,
           CopiesShared(w, c, check, n, h)
    PROVE  Scheme
  <1>1. Derives(w, c, check, {}, n, c, h, {<<h, "cell">>, to[w]}, to[w])
    BY DEF CopiesShared
  <1>2. to[w] \in Region /\ <<h, "cell">> \in Region
    BY RegionsOfHandle, Zenon DEF Base, TypeOK
  <1>3. class[w] = c
    BY <1>1 DEF Derives, Calls
  <1>4. c = "BlockSpentOutputs" => to[w][2] = "body"
    BY <1>3 DEF Base, OwnersInv
  <1>5. /\ c \in AllClasses \ {"TransactionSpentOutputs"}
        /\ c # "Block" /\ c # "ChainstateManager"
        /\ c \notin {"Chain", "BlockTreeEntry"}
    BY DEF AllClasses
  <1>6. Furnished(c, h, {<<h, "cell">>, to[w]}, to[w])
    BY <1>2, <1>4, <1>5 DEF Furnished
  <1>7. {} \in SUBSET Wrapper /\ \A x \in {} : Called(x)
    OBVIOUS
  <1> QED BY <1>1, <1>5, <1>6, <1>7, DerivesIsScheme

\* Creates
LEMMA CreatesIsScheme ==
    ASSUME TypeOK, NEW n \in Wrapper, NEW c, NEW h \in Handle, NEW regions,
           NEW b, NEW ar \in SUBSET Thread,
           Furnished(c, h, regions, b),
           c \notin {"Chain", "BlockTreeEntry"},
           Creates(n, c, h, regions, b, ar)
    PROVE  Scheme
  <1>1. \E xs \in SUBSET Wrapper : Uses(xs)
    BY UsesNothing DEF Creates
  <1>2. /\ Fresh(h) /\ Allocate(h, regions)
        /\ Becomes(n, c, "pointer", TRUE, <<h, "cell">>, b, n, ar)
    BY Zenon DEF Creates
  <1> QED BY <1>1, <1>2, OwnerIsScheme, Zenon

\* A constructor of an object that is all in its cell.
LEMMA CreatesCell ==
    ASSUME TypeOK, NEW n \in Wrapper, NEW c \in CellClasses, NEW h \in Handle,
           NEW t \in Thread,
           Creates(n, c, h, {<<h, "cell">>}, <<h, "cell">>, {t})
    PROVE  Scheme
  <1>1. {t} \in SUBSET Thread
    OBVIOUS
  <1> QED BY <1>1, CellFurnished, CreatesIsScheme

\* What a block has.
LEMMA BlockFurnished ==
    ASSUME NEW h \in Handle
    PROVE  Furnished("Block", h, BlockRegions(h), <<h, "body">>)
  <1>1. /\ BlockRegions(h) \in SUBSET Region /\ <<h, "body">> \in Region
        /\ {<<h, "cell">>, <<h, "body">>} \subseteq BlockRegions(h)
        /\ << <<h, "body">>[1], "tx">> \in BlockRegions(h)
    BY RegionsOfHandle DEF BlockRegions
  <1> QED BY <1>1 DEF Furnished, AllClasses

\* A Block from bytes or from a callback.
LEMMA CreatesBlock ==
    ASSUME TypeOK, NEW n \in Wrapper, NEW h \in Handle,
           NEW ar \in SUBSET Thread,
           Creates(n, "Block", h, BlockRegions(h), <<h, "body">>, ar)
    PROVE  Scheme
  BY BlockFurnished, CreatesIsScheme

\* What the owner of a cell and of one region of its own has.
LEMMA PairFurnished ==
    ASSUME NEW h \in Handle, NEW c, NEW part,
           \/ c = "Transaction" /\ part = "tx"
           \/ c \in {"BlockSpentOutputs", "ChainstateManager"} /\ part = "body"
    PROVE  /\ Furnished(c, h, {<<h, "cell">>, <<h, part>>}, <<h, part>>)
           /\ c \notin {"Chain", "BlockTreeEntry"}
  <1>1. /\ <<h, "cell">> \in Region /\ <<h, part>> \in Region
        /\ c \in AllClasses \ {"TransactionSpentOutputs"}
        /\ c # "Block" /\ c \notin {"Chain", "BlockTreeEntry"}
    BY RegionsOfHandle, Zenon DEF AllClasses
  <1>2. c \in {"BlockSpentOutputs", "ChainstateManager"} =>
           <<h, part>>[2] = "body"
    OBVIOUS
  <1> QED BY <1>1, <1>2 DEF Furnished

\* An object around the zero address.
LEMMA HollowIsScheme ==
    ASSUME TypeOK, NEW n \in Wrapper, NEW ar \in SUBSET Thread,
           NEW c \in {"Transaction", "ChainstateManager"} \cap MayFail,
           Hollow(n, c, ar), UNCHANGED fault
    PROVE  Scheme
  <1>1. \E xs \in SUBSET Wrapper : Uses(xs)
    BY UsesNothing DEF Hollow
  <1>2. HollowScheme
    BY <1>1 DEF HollowScheme
  <1> QED BY <1>2 DEF Scheme

\* close() of a class that looks at ownsMemory.
LEMMA OwnerCloses ==
    ASSUME TypeOK, NEW t \in Thread, NEW w \in Wrapper,
           NEW c \in AllClasses \ {"TransactionSpentOutputs"},
           ClosesWith(t, w, c, IfOwner(w), FALSE)
    PROVE  Scheme
  <1>1. IfOwner(w) \in BOOLEAN /\ (IfOwner(w) => seg[w] # "NULL" /\ owns[w])
    BY DEF IfOwner, TypeOK
  <1>2. (c = "TransactionSpentOutputs") = FALSE
    OBVIOUS
  <1>3. CloseScheme
    BY <1>1, <1>2, Zenon DEF CloseScheme
  <1> QED BY <1>3 DEF Scheme

\* close() of a class that does not.
LEMMA OpenCloses ==
    ASSUME NEW t \in Thread, NEW w \in Wrapper,
           NEW c \in {"Block", "BlockHash", "ChainstateManager",
                      "TransactionSpentOutputs"},
           ClosesWith(t, w, c, IfOpen(w), c = "TransactionSpentOutputs")
    PROVE  Scheme
  <1>1. IfOpen(w) \in BOOLEAN /\ (IfOpen(w) => seg[w] # "NULL")
    BY DEF IfOpen
  <1>2. c \in AllClasses
    BY DEF AllClasses
  <1>3. CloseScheme
    BY <1>1, <1>2 DEF CloseScheme
  <1> QED BY <1>3 DEF Scheme

----------------------------------------------------------------------------
(* One step per method. *)

\* The methods of Blocks.java
LEMMA BlocksFollow ==
    ASSUME Base, BlocksNext
    PROVE  Scheme
  <1>1. ASSUME NEW t \in Thread, NEW n \in Wrapper, NEW h \in Handle,
               Block_fromBytes(t, n, h)
        PROVE  Scheme
    <2>1. CASE Creates(n, "Block", h, BlockRegions(h), <<h, "body">>, {t})
      <3>1. {t} \in SUBSET Thread
        OBVIOUS
      <3> QED BY <2>1, <3>1, CreatesBlock DEF Base
    <2>2. CASE UNCHANGED vars
      BY <2>2 DEF Scheme
    <2> QED BY <1>1, <2>1, <2>2 DEF Block_fromBytes
  <1>2. ASSUME NEW t \in Thread, NEW n \in Wrapper, NEW h \in Handle,
               BlockHash_fromBytes(t, n, h)
        PROVE  Scheme
    BY <1>2, CreatesCell DEF Base, BlockHash_fromBytes, CellClasses
  <1>3. ASSUME NEW n \in Wrapper, NEW h \in Handle,
               Block_fromCallback(n, h)
        PROVE  Scheme
    BY <1>3, CreatesBlock DEF Base, Block_fromCallback
  <1>4. ASSUME NEW w \in Wrapper, NEW n \in Wrapper, NEW h \in Handle,
               Block_getHash(w, n, h)
        PROVE  Scheme
    BY <1>4, DerivesCell, Zenon
      DEF Block_getHash, Guarded, Check, AllClasses, CellClasses
  <1>5. ASSUME NEW w \in Wrapper, NEW n \in Wrapper, NEW h \in Handle,
               BlockHash_copy(w, n, h)
        PROVE  Scheme
    BY <1>5, CopiesIsScheme
       DEF BlockHash_copy, Guarded, Check, AllClasses, CellClasses
  <1>6. ASSUME NEW w \in Wrapper, NEW n \in Wrapper, NEW h \in Handle,
               BlockSpentOutputs_copy(w, n, h)
        PROVE  Scheme
    BY <1>6, CopiesSharedIsScheme
       DEF BlockSpentOutputs_copy, Guarded, Check, AllClasses
  <1>7. ASSUME NEW w \in Wrapper, NEW n \in Wrapper,
               Block_getTransaction(w, n)
        PROVE  Scheme
    BY <1>7, GetsViewAlone
       DEF Block_getTransaction, Guarded, Check, AllClasses, Getters
  <1>8. ASSUME NEW w \in Wrapper, NEW m \in Wrapper,
               BlockHash_equals(w, m)
        PROVE  Scheme
    <2>1. Called(m)
      BY <1>8, CallsIsCalled DEF BlockHash_equals, Guarded, Check, AllClasses
    <2> QED BY <1>8, <2>1, ReadsIsScheme
              DEF BlockHash_equals, Guarded, Check, AllClasses
  <1>9. ASSUME NEW w \in Wrapper, NEW n \in Wrapper,
               BlockTreeEntry_getPrevious(w, n)
        PROVE  Scheme
    BY <1>9, GetsViewAlone
       DEF BlockTreeEntry_getPrevious, Guarded, Check, AllClasses, Getters
  <1>10. ASSUME NEW w \in Wrapper, NEW n \in Wrapper,
               BlockTreeEntry_getBlockHash(w, n)
        PROVE  Scheme
    BY <1>10, GetsViewAlone
       DEF BlockTreeEntry_getBlockHash, Guarded, Check, AllClasses, Getters
  <1>11. ASSUME NEW w \in Wrapper, NEW n \in Wrapper,
               BlockSpentOutputs_getTransactionSpentOutputs(w, n)
        PROVE  Scheme
    BY <1>11, GetsViewAlone
       DEF BlockSpentOutputs_getTransactionSpentOutputs, Guarded, Check, AllClasses, Getters
  <1>12. ASSUME NEW w \in Wrapper,
               Block_countTransaction(w)
        PROVE  Scheme
    BY <1>12, ReadsAlone DEF Block_countTransaction, Guarded, Check, AllClasses
  <1>13. ASSUME NEW w \in Wrapper,
               Block_toBytes(w)
        PROVE  Scheme
    BY <1>13, ReadsAlone DEF Block_toBytes, Guarded, Check, AllClasses
  <1>14. ASSUME NEW w \in Wrapper,
               BlockHash_toBytes(w)
        PROVE  Scheme
    BY <1>14, ReadsAlone DEF BlockHash_toBytes, Guarded, Check, AllClasses
  <1>15. ASSUME NEW w \in Wrapper,
               BlockTreeEntry_getHeight(w)
        PROVE  Scheme
    BY <1>15, ReadsAlone
       DEF BlockTreeEntry_getHeight, Guarded, Check, AllClasses
  <1>16. ASSUME NEW w \in Wrapper,
               BlockSpentOutputs_count(w)
        PROVE  Scheme
    BY <1>16, ReadsAlone
       DEF BlockSpentOutputs_count, Guarded, Check, AllClasses
  <1>17. ASSUME NEW t \in Thread, NEW w \in Wrapper,
               Block_close(t, w)
        PROVE  Scheme
    <2>1. ("Block" = "TransactionSpentOutputs") = FALSE
      OBVIOUS
    <2>2. ClosesWith(t, w, "Block", IfOpen(w),
                     "Block" = "TransactionSpentOutputs")
      BY <1>17, <2>1, Zenon DEF Block_close
    <2> QED BY <2>2, OpenCloses
  <1>18. ASSUME NEW t \in Thread, NEW w \in Wrapper,
               BlockHash_close(t, w)
        PROVE  Scheme
    <2>1. ("BlockHash" = "TransactionSpentOutputs") = FALSE
      OBVIOUS
    <2>2. ClosesWith(t, w, "BlockHash", IfOpen(w),
                     "BlockHash" = "TransactionSpentOutputs")
      BY <1>18, <2>1, Zenon DEF BlockHash_close
    <2> QED BY <2>2, OpenCloses
  <1>19. ASSUME NEW t \in Thread, NEW w \in Wrapper,
               BlockSpentOutputs_close(t, w)
        PROVE  Scheme
    BY <1>19, OwnerCloses, Zenon DEF Base, BlockSpentOutputs_close, AllClasses
  <1> QED
    BY <1>1, <1>2, <1>3, <1>4, <1>5, <1>6, <1>7, <1>8, <1>9, <1>10, <1>11,
       <1>12, <1>13, <1>14, <1>15, <1>16, <1>17, <1>18, <1>19
       DEF BlocksNext

\* The methods of Transactions.java
LEMMA TransactionsFollow ==
    ASSUME Base, TransactionsNext
    PROVE  Scheme
  <1>1. ASSUME NEW t \in Thread, NEW n \in Wrapper, NEW h \in Handle,
               Transaction_fromBytes(t, n, h)
        PROVE  Scheme
    <2>1. {t} \in SUBSET Thread
      OBVIOUS
    <2>2. CASE Creates(n, "Transaction", h, {<<h, "cell">>, <<h, "tx">>},
                       <<h, "tx">>, {t})
      BY <2>1, <2>2, PairFurnished, CreatesIsScheme DEF Base
    <2>3. CASE /\ "Transaction" \in MayFail /\ Hollow(n, "Transaction", {t})
               /\ UNCHANGED fault
      BY <2>1, <2>3, HollowIsScheme DEF Base
    <2> QED BY <1>1, <2>2, <2>3 DEF Transaction_fromBytes
  <1>2. ASSUME NEW w \in Wrapper, NEW n \in Wrapper, NEW h \in Handle,
               Transaction_copy(w, n, h)
        PROVE  Scheme
    BY <1>2, CopiesSharedIsScheme
       DEF Transaction_copy, Guarded, Check, AllClasses
  <1>3. ASSUME NEW w \in Wrapper, NEW n \in Wrapper, NEW h \in Handle,
               TransactionInput_copy(w, n, h)
        PROVE  Scheme
    BY <1>3, CopiesIsScheme
       DEF TransactionInput_copy, Guarded, Check, AllClasses, CellClasses
  <1>4. ASSUME NEW w \in Wrapper, NEW n \in Wrapper, NEW h \in Handle,
               TransactionOutPoint_copy(w, n, h)
        PROVE  Scheme
    BY <1>4, CopiesIsScheme
       DEF TransactionOutPoint_copy, Guarded, Check, AllClasses, CellClasses
  <1>5. ASSUME NEW w \in Wrapper, NEW n \in Wrapper, NEW h \in Handle,
               TransactionOutput_fromScript(w, n, h)
        PROVE  Scheme
    BY <1>5, DerivesCell, Zenon
      DEF TransactionOutput_fromScript, Guarded, Check, AllClasses, CellClasses
  <1>6. ASSUME NEW w \in Wrapper, NEW n \in Wrapper, NEW h \in Handle,
               TransactionOutput_copy(w, n, h)
        PROVE  Scheme
    BY <1>6, CopiesIsScheme
       DEF TransactionOutput_copy, Guarded, Check, AllClasses, CellClasses
  <1>7. ASSUME NEW w \in Wrapper, NEW n \in Wrapper, NEW h \in Handle,
               Coin_copy(w, n, h)
        PROVE  Scheme
    BY <1>7, CopiesIsScheme
       DEF Coin_copy, Guarded, Check, AllClasses, CellClasses
  <1>8. ASSUME NEW w \in Wrapper, NEW n \in Wrapper, NEW h \in Handle,
               Txid_copy(w, n, h)
        PROVE  Scheme
    BY <1>8, CopiesIsScheme
       DEF Txid_copy, Guarded, Check, AllClasses, CellClasses
  <1>9. ASSUME NEW w \in Wrapper, NEW n \in Wrapper, NEW h \in Handle,
               TransactionSpentOutputs_copy(w, n, h)
        PROVE  Scheme
    BY <1>9 DEF Scheme, CopyScheme
  <1>10. ASSUME NEW w \in Wrapper, NEW n \in Wrapper,
               Transaction_getInput(w, n)
        PROVE  Scheme
    BY <1>10, GetsViewAlone
       DEF Transaction_getInput, Guarded, Check, AllClasses, Getters
  <1>11. ASSUME NEW w \in Wrapper, NEW n \in Wrapper,
               Transaction_getOutput(w, n)
        PROVE  Scheme
    BY <1>11, GetsViewAlone
       DEF Transaction_getOutput, Guarded, Check, AllClasses, Getters
  <1>12. ASSUME NEW w \in Wrapper, NEW n \in Wrapper,
               Transaction_getTxid(w, n)
        PROVE  Scheme
    BY <1>12, GetsViewAlone
       DEF Transaction_getTxid, Guarded, Check, AllClasses, Getters
  <1>13. ASSUME NEW w \in Wrapper, NEW n \in Wrapper,
               TransactionInput_getOutPoint(w, n)
        PROVE  Scheme
    BY <1>13, GetsViewAlone
       DEF TransactionInput_getOutPoint, Guarded, Check, AllClasses, Getters
  <1>14. ASSUME NEW w \in Wrapper, NEW n \in Wrapper,
               TransactionOutPoint_getTxid(w, n)
        PROVE  Scheme
    BY <1>14, GetsViewAlone
       DEF TransactionOutPoint_getTxid, Guarded, Check, AllClasses, Getters
  <1>15. ASSUME NEW w \in Wrapper, NEW n \in Wrapper,
               TransactionOutput_getScriptPubKey(w, n)
        PROVE  Scheme
    BY <1>15, GetsViewAlone
       DEF TransactionOutput_getScriptPubKey, Guarded, Check, AllClasses, Getters
  <1>16. ASSUME NEW w \in Wrapper, NEW n \in Wrapper,
               Coin_getOutput(w, n)
        PROVE  Scheme
    BY <1>16, GetsViewAlone
       DEF Coin_getOutput, Guarded, Check, AllClasses, Getters
  <1>17. ASSUME NEW w \in Wrapper, NEW m \in Wrapper,
               Txid_equals(w, m)
        PROVE  Scheme
    <2>1. Called(m)
      BY <1>17, CallsIsCalled DEF Txid_equals, Guarded, Check, AllClasses
    <2> QED BY <1>17, <2>1, ReadsIsScheme
              DEF Txid_equals, Guarded, Check, AllClasses
  <1>18. ASSUME NEW w \in Wrapper, NEW n \in Wrapper,
               TransactionSpentOutputs_getCoin(w, n)
        PROVE  Scheme
    BY <1>18, GetsViewAlone
       DEF TransactionSpentOutputs_getCoin, Guarded, Check, AllClasses, Getters
  <1>19. ASSUME NEW w \in Wrapper,
               Transaction_count(w)
        PROVE  Scheme
    BY <1>19, ReadsAlone DEF Transaction_count, Guarded, Check, AllClasses
  <1>20. ASSUME NEW w \in Wrapper,
               TransactionOutPoint_getIndex(w)
        PROVE  Scheme
    BY <1>20, ReadsAlone
       DEF TransactionOutPoint_getIndex, Guarded, Check, AllClasses
  <1>21. ASSUME NEW w \in Wrapper,
               TransactionOutput_getAmount(w)
        PROVE  Scheme
    BY <1>21, ReadsAlone
       DEF TransactionOutput_getAmount, Guarded, Check, AllClasses
  <1>22. ASSUME NEW w \in Wrapper,
               Coin_read(w)
        PROVE  Scheme
    BY <1>22, ReadsAlone DEF Coin_read, Guarded, Check, AllClasses
  <1>23. ASSUME NEW w \in Wrapper,
               Txid_toBytes(w)
        PROVE  Scheme
    BY <1>23, ReadsAlone DEF Txid_toBytes, Guarded, Check, AllClasses
  <1>24. ASSUME NEW w \in Wrapper,
               TransactionSpentOutputs_count(w)
        PROVE  Scheme
    BY <1>24, ReadsAlone
       DEF TransactionSpentOutputs_count, Guarded, Check, AllClasses
  <1>25. ASSUME NEW t \in Thread, NEW w \in Wrapper,
               Transaction_close(t, w)
        PROVE  Scheme
    BY <1>25, OwnerCloses, Zenon DEF Base, Transaction_close, AllClasses
  <1>26. ASSUME NEW t \in Thread, NEW w \in Wrapper,
               TransactionInput_close(t, w)
        PROVE  Scheme
    BY <1>26, OwnerCloses, Zenon DEF Base, TransactionInput_close, AllClasses
  <1>27. ASSUME NEW t \in Thread, NEW w \in Wrapper,
               TransactionOutPoint_close(t, w)
        PROVE  Scheme
    BY <1>27, OwnerCloses, Zenon DEF Base, TransactionOutPoint_close, AllClasses
  <1>28. ASSUME NEW t \in Thread, NEW w \in Wrapper,
               TransactionOutput_close(t, w)
        PROVE  Scheme
    BY <1>28, OwnerCloses, Zenon DEF Base, TransactionOutput_close, AllClasses
  <1>29. ASSUME NEW t \in Thread, NEW w \in Wrapper,
               Coin_close(t, w)
        PROVE  Scheme
    BY <1>29, OwnerCloses, Zenon DEF Base, Coin_close, AllClasses
  <1>30. ASSUME NEW t \in Thread, NEW w \in Wrapper,
               Txid_close(t, w)
        PROVE  Scheme
    BY <1>30, OwnerCloses, Zenon DEF Base, Txid_close, AllClasses
  <1>31. ASSUME NEW t \in Thread, NEW w \in Wrapper,
               TransactionSpentOutputs_close(t, w)
        PROVE  Scheme
    <2>1. ("TransactionSpentOutputs" = "TransactionSpentOutputs") = TRUE
      OBVIOUS
    <2>2. ClosesWith(t, w, "TransactionSpentOutputs", IfOpen(w),
                     "TransactionSpentOutputs" = "TransactionSpentOutputs")
      BY <1>31, <2>1, Zenon DEF TransactionSpentOutputs_close
    <2> QED BY <2>2, OpenCloses
  <1> QED
    BY <1>1, <1>2, <1>3, <1>4, <1>5, <1>6, <1>7, <1>8, <1>9, <1>10, <1>11,
       <1>12, <1>13, <1>14, <1>15, <1>16, <1>17, <1>18, <1>19, <1>20,
       <1>21, <1>22, <1>23, <1>24, <1>25, <1>26, <1>27, <1>28, <1>29,
       <1>30, <1>31
       DEF TransactionsNext

\* The methods of KernelData.java
LEMMA KernelDataFollows ==
    ASSUME Base, KernelDataNext
    PROVE  Scheme
  <1>1. ASSUME NEW t \in Thread, NEW n \in Wrapper, NEW h \in Handle,
               ScriptPubkey_fromBytes(t, n, h)
        PROVE  Scheme
    BY <1>1, CreatesCell DEF Base, ScriptPubkey_fromBytes, CellClasses
  <1>2. ASSUME NEW w \in Wrapper, NEW m \in Wrapper, NEW spent \in SUBSET Wrapper,
               ScriptPubkey_verify(w, m, spent)
        PROVE  Scheme
    <2>1. /\ Calls(m, "Transaction", "identity")
          /\ \A x \in spent : Calls(x, "TransactionOutput", "none")
          /\ Reads(w, "ScriptPubkey", "identity", {m} \cup spent)
      BY <1>2 DEF ScriptPubkey_verify
    <2>2. Called(m)
      BY <2>1, CallsIsCalled DEF Guarded, Check, AllClasses
    <2>3. \A x \in spent : Called(x)
      BY <2>1, CallsIsCalled DEF Guarded, Check, AllClasses
    <2>4. {m} \cup spent \in SUBSET Wrapper
      OBVIOUS
    <2> QED BY <2>1, <2>2, <2>3, <2>4, ReadsIsScheme
              DEF Guarded, Check, AllClasses
  <1>3. ASSUME NEW w \in Wrapper,
               ScriptPubkey_toBytes(w)
        PROVE  Scheme
    BY <1>3, ReadsAlone DEF ScriptPubkey_toBytes, Guarded, Check, AllClasses
  <1>4. ASSUME NEW w \in Wrapper, NEW n \in Wrapper, NEW h \in Handle,
               ScriptPubkey_copy(w, n, h)
        PROVE  Scheme
    BY <1>4, CopiesIsScheme
       DEF ScriptPubkey_copy, Guarded, Check, AllClasses, CellClasses
  <1>5. ASSUME NEW t \in Thread, NEW w \in Wrapper,
               ScriptPubkey_close(t, w)
        PROVE  Scheme
    BY <1>5, OwnerCloses, Zenon DEF Base, ScriptPubkey_close, AllClasses
  <1> QED
    BY <1>1, <1>2, <1>3, <1>4, <1>5
       DEF KernelDataNext

\* The methods of Chainstate.java
LEMMA ChainstateFollows ==
    ASSUME Base, ChainstateNext
    PROVE  Scheme
  <1>1. ASSUME NEW n \in Wrapper, NEW h \in Handle,
               ChainstateManager_new(n, h)
        PROVE  Scheme
    <2>1. {} \in SUBSET Thread
      OBVIOUS
    <2>2. CASE Creates(n, "ChainstateManager", h,
                       {<<h, "cell">>, <<h, "body">>}, <<h, "body">>, {})
      BY <2>1, <2>2, PairFurnished, CreatesIsScheme DEF Base
    <2>3. CASE /\ "ChainstateManager" \in MayFail
               /\ Hollow(n, "ChainstateManager", {})
               /\ UNCHANGED fault
      BY <2>1, <2>3, HollowIsScheme DEF Base
    <2> QED BY <1>1, <2>2, <2>3 DEF ChainstateManager_new
  <1>2. ASSUME NEW w \in Wrapper, NEW m \in Wrapper, NEW n \in Wrapper,
               ChainstateManager_getBlockTreeEntry(w, m, n)
        PROVE  Scheme
    <2>1. Called(m)
      BY <1>2, CallsIsCalled
         DEF ChainstateManager_getBlockTreeEntry, Guarded, Check, AllClasses
    <2> QED
      BY <1>2, <2>1, GetsViewIsScheme
         DEF ChainstateManager_getBlockTreeEntry, Guarded, Check, AllClasses,
             Getters
  <1>3. ASSUME NEW w \in Wrapper, NEW m \in Wrapper, NEW n \in Wrapper, NEW h \in Handle,
               ChainstateManager_readBlock(w, m, n, h)
        PROVE  Scheme
    <2>1. Calls(m, "BlockTreeEntry", "none")
      BY <1>3 DEF ChainstateManager_readBlock
    <2>2. Called(m) /\ {m} \in SUBSET Wrapper
      BY <2>1, CallsIsCalled DEF Guarded, Check, AllClasses
    <2>3. CASE Derives(w, "ChainstateManager", "identity", {m}, n, "Block", h,
                       BlockRegions(h), <<h, "body">>)
      BY <2>2, <2>3, BlockFurnished, DerivesIsScheme
         DEF Guarded, Check, AllClasses
    <2>4. CASE /\ Calls(w, "ChainstateManager", "identity")
               /\ Hollow(n, "Block", {})
               /\ fault' = (~Backed(w) \/ ~Backed(m))
      <3>1. fault' = \E x \in {w} \cup {m} : ~Backed(x)
        BY <2>4, Zenon
      <3>2. Uses({w} \cup {m}) /\ {w} \cup {m} \in SUBSET Wrapper
        BY <2>2, <2>4, <3>1, UsesArguments, Zenon DEF Guarded, Check, AllClasses
      <3>3. {} \in SUBSET Thread
        OBVIOUS
      <3>4. HollowScheme
        BY <2>4, <3>2, <3>3 DEF HollowScheme
      <3> QED BY <3>4 DEF Scheme
    <2> QED BY <1>3, <2>3, <2>4 DEF ChainstateManager_readBlock
  <1>4. ASSUME NEW w \in Wrapper, NEW m \in Wrapper, NEW n \in Wrapper, NEW h \in Handle,
               ChainstateManager_readBlockSpentOutputs(w, m, n, h)
        PROVE  Scheme
    <2>1. Calls(m, "BlockTreeEntry", "none")
      BY <1>4 DEF ChainstateManager_readBlockSpentOutputs
    <2>2. Called(m) /\ {m} \in SUBSET Wrapper
      BY <2>1, CallsIsCalled DEF Guarded, Check, AllClasses
    <2>3. CASE Derives(w, "ChainstateManager", "identity", {m}, n,
                       "BlockSpentOutputs", h, {<<h, "cell">>, <<h, "body">>},
                       <<h, "body">>)
      BY <2>2, <2>3, PairFurnished, DerivesIsScheme
         DEF Guarded, Check, AllClasses
    <2>4. CASE Reads(w, "ChainstateManager", "identity", {m})
      BY <2>2, <2>4, ReadsIsScheme DEF Guarded, Check, AllClasses
    <2> QED
      BY <1>4, <2>3, <2>4 DEF ChainstateManager_readBlockSpentOutputs
  <1>5. ASSUME NEW w \in Wrapper, NEW m \in Wrapper,
               ChainstateManager_ProcessBlock(w, m)
        PROVE  Scheme
    <2>1. Called(m)
      BY <1>5, CallsIsCalled
         DEF ChainstateManager_ProcessBlock, Guarded, Check, AllClasses
    <2> QED
      BY <1>5, <2>1, ReadsIsScheme
         DEF ChainstateManager_ProcessBlock, Guarded, Check, AllClasses
  <1>6. ASSUME NEW w \in Wrapper, NEW n \in Wrapper,
               ChainstateManager_getChain(w, n)
        PROVE  Scheme
    BY <1>6, GetsViewAlone
       DEF ChainstateManager_getChain, Guarded, Check, AllClasses, Getters
  <1>7. ASSUME NEW w \in Wrapper, NEW n \in Wrapper,
               Chain_getByHeight(w, n)
        PROVE  Scheme
    BY <1>7, GetsViewAlone
       DEF Chain_getByHeight, Guarded, Check, AllClasses, Getters
  <1>8. ASSUME NEW w \in Wrapper, NEW m \in Wrapper,
               Chain_contains(w, m)
        PROVE  Scheme
    <2>1. Called(m)
      BY <1>8, CallsIsCalled DEF Chain_contains, Guarded, Check, AllClasses
    <2> QED BY <1>8, <2>1, ReadsIsScheme
              DEF Chain_contains, Guarded, Check, AllClasses
  <1>9. ASSUME NEW w \in Wrapper,
               Chain_getHeight(w)
        PROVE  Scheme
    BY <1>9, ReadsAlone DEF Chain_getHeight, Guarded, Check, AllClasses
  <1>10. ASSUME NEW t \in Thread, NEW w \in Wrapper,
               ChainstateManager_close(t, w)
        PROVE  Scheme
    <2>1. ("ChainstateManager" = "TransactionSpentOutputs") = FALSE
      OBVIOUS
    <2>2. ClosesWith(t, w, "ChainstateManager", IfOpen(w),
                     "ChainstateManager" = "TransactionSpentOutputs")
      BY <1>10, <2>1, Zenon DEF ChainstateManager_close
    <2> QED BY <2>2, OpenCloses
  <1> QED
    BY <1>1, <1>2, <1>3, <1>4, <1>5, <1>6, <1>7, <1>8, <1>9, <1>10
       DEF ChainstateNext

\* Every step of the client is an instance of a scheme.
LEMMA EveryStepFollows ==
    ASSUME Base, [Next]_vars
    PROVE  Scheme
  BY BlocksFollow, TransactionsFollow, KernelDataFollows, ChainstateFollows
     DEF Next, Scheme

----------------------------------------------------------------------------
(* Any client: types, and the uniqueness of owners. *)

\* n is a new object with the fields given, and the others are as before.
IsNew(n, c, s, o, a, b, r, ar) ==
    /\ class[n] = "none" /\ c \in Classes /\ c # "none"
    /\ class'[n] = c /\ seg'[n] = s /\ owns'[n] = o /\ at'[n] = a
    /\ to'[n] = b /\ root'[n] = r /\ arena'[n] = ar
    /\ \A w \in Wrapper \ {n} :
          /\ class'[w] = class[w] /\ seg'[w] = seg[w]
          /\ owns'[w] = owns[w] /\ at'[w] = at[w] /\ to'[w] = to[w]
          /\ root'[w] = root[w] /\ arena'[w] = arena[w]

\* A new object has the fields it is given; the others keep theirs.
LEMMA BecomesFacts ==
    ASSUME TypeOK, NEW n \in Wrapper, NEW c, NEW s, NEW o, NEW a, NEW b,
           NEW r, NEW ar, Becomes(n, c, s, o, a, b, r, ar)
    PROVE  IsNew(n, c, s, o, a, b, r, ar)
  BY NoneIsNoClass DEF Becomes, TypeOK, IsNew

\* Types are kept by a new object.
LEMMA BecomesTypes ==
    ASSUME TypeOK, NEW n \in Wrapper, NEW c,
           NEW s \in {"NULL", "zero", "pointer"}, NEW o \in BOOLEAN,
           NEW a \in Region, NEW b \in Region, NEW r \in Wrapper,
           NEW ar \in SUBSET Thread, Becomes(n, c, s, o, a, b, r, ar),
           live' \subseteq Handle, keeps' \in [Handle -> SUBSET Region],
           fault' \in BOOLEAN
    PROVE  TypeOK'
  BY DEF Becomes, TypeOK

\* Getting past the tests, a method can still find that memory is not there.
LEMMA UsesFacts ==
    ASSUME TypeOK, NEW xs, Uses(xs)
    PROVE  /\ ~fault /\ fault' \in BOOLEAN
           /\ ~fault' => \A x \in xs : Backed(x) /\ seg[x] = "pointer"
  BY DEF Uses, Backed

\* What the conjuncts of OwnersInv say of one object, and of one object while
\* there has been no fault.
OwnersInvOf(w) ==
    /\ class[w] = "none" => seg[w] = "NULL"
    /\ class[w] \in {"Block", "ChainstateManager"} => owns[w]
    /\ Owner(w) => at[w][1] \in live /\ at[w][2] = "cell"
    /\ class[w] = "BlockSpentOutputs" => to[w][2] = "body"
    /\ class[w] = "TransactionSpentOutputs" =>
          at[w][2] = "body" /\ to[w][2] = "body"

BodiesOf(w) ==
    /\ class[w] = "ChainstateManager" /\ seg[w] = "pointer" =>
          to[w][2] = "body"
    /\ class[w] \in {"Chain", "BlockTreeEntry"} => to[w][2] = "body"
    /\ class[w] = "BlockHash" /\ ~owns[w] => at[w][2] = "body"

LEMMA OwnersInvByObject ==
    OwnersInv <=> /\ \A w \in Wrapper : OwnersInvOf(w)
                  /\ \A v, w \in Wrapper :
                        Owner(v) /\ Owner(w) /\ at[v][1] = at[w][1] => v = w
                  /\ \A h \in live : keeps[h] # {}
                  /\ ~fault => \A w \in Wrapper : BodiesOf(w)
  BY DEF OwnersInv, OwnersInvOf, BodiesOf

\* The same after a step.
LEMMA OwnersInvByObjectNext ==
    ASSUME \A w \in Wrapper : OwnersInvOf(w)',
           \A v, w \in Wrapper :
              Owner(v)' /\ Owner(w)' /\ at'[v][1] = at'[w][1] => v = w,
           \A h \in live' : keeps'[h] # {},
           ~fault' => \A w \in Wrapper : BodiesOf(w)'
    PROVE  OwnersInv'
  <1>1. \A w \in Wrapper :
           /\ class'[w] = "none" => seg'[w] = "NULL"
           /\ class'[w] \in {"Block", "ChainstateManager"} => owns'[w]
           /\ Owner(w)' => at'[w][1] \in live' /\ at'[w][2] = "cell"
           /\ class'[w] = "BlockSpentOutputs" => to'[w][2] = "body"
           /\ class'[w] = "TransactionSpentOutputs" =>
                 at'[w][2] = "body" /\ to'[w][2] = "body"
    BY Zenon DEF OwnersInvOf
  <1>2. ~fault' => \A w \in Wrapper :
           /\ class'[w] = "ChainstateManager" /\ seg'[w] = "pointer" =>
                 to'[w][2] = "body"
           /\ class'[w] \in {"Chain", "BlockTreeEntry"} => to'[w][2] = "body"
           /\ class'[w] = "BlockHash" /\ ~owns'[w] => at'[w][2] = "body"
    BY Zenon DEF BodiesOf
  <1> QED BY <1>1, <1>2, Zenon DEF OwnersInv

\* What is true of an object stays true while its fields stay.
LEMMA ObjectStays ==
    ASSUME NEW w, class'[w] = class[w], seg'[w] = seg[w], owns'[w] = owns[w],
           at'[w] = at[w], to'[w] = to[w]
    PROVE  /\ Owner(w)' <=> Owner(w)
           /\ OwnersInvOf(w) /\ live \subseteq live' => OwnersInvOf(w)'
           /\ BodiesOf(w) => BodiesOf(w)'
  <1>1. Owner(w)' <=> Owner(w)
    BY Zenon DEF Owner
  <1>2. OwnersInvOf(w) /\ live \subseteq live' => OwnersInvOf(w)'
    BY <1>1, Zenon DEF OwnersInvOf
  <1>3. BodiesOf(w) => BodiesOf(w)'
    BY Zenon DEF BodiesOf
  <1> QED BY <1>1, <1>2, <1>3

\* A step that changes no object and no native memory.
LEMMA UntouchedBase ==
    ASSUME Base, fault' \in BOOLEAN, fault => fault',
           UNCHANGED <<class, seg, owns, at, to, root, arena, live, keeps>>
    PROVE  Base'
  <1>1. TypeOK'
    BY DEF Base, TypeOK
  <1>2. OwnersInv'
    BY Zenon DEF Base, OwnersInv, Owner
  <1> QED BY <1>1, <1>2 DEF Base

\* A new object that is not an owner, and perhaps a new handle.
LEMMA NonOwnerBase ==
    ASSUME Base, NEW n \in Wrapper, NEW c, NEW s, NEW o, NEW a, NEW b, NEW r,
           NEW ar, Becomes(n, c, s, o, a, b, r, ar), TypeOK', ~fault,
           o => s = "zero" \/ c = "TransactionSpentOutputs",
           ~o => c \notin {"Block", "ChainstateManager"},
           c = "BlockSpentOutputs" => b[2] = "body",
           c = "TransactionSpentOutputs" => a[2] = "body" /\ b[2] = "body",
           ~fault' => /\ c \in {"Chain", "BlockTreeEntry"} => b[2] = "body"
                      /\ c = "ChainstateManager" => s # "pointer"
                      /\ c = "BlockHash" => a[2] = "body",
           live \subseteq live', \A h \in live' : keeps'[h] # {}
    PROVE  Base'
  <1>0. TypeOK
    BY DEF Base
  <1>new. IsNew(n, c, s, o, a, b, r, ar)
    BY <1>0, BecomesFacts
  <1>1. /\ c # "none" /\ class'[n] = c /\ seg'[n] = s /\ owns'[n] = o
        /\ at'[n] = a /\ to'[n] = b
    BY <1>new DEF IsNew
  <1>2. \A w \in Wrapper \ {n} :
           /\ class'[w] = class[w] /\ seg'[w] = seg[w] /\ owns'[w] = owns[w]
           /\ at'[w] = at[w] /\ to'[w] = to[w]
    BY <1>new, Zenon DEF IsNew
  <1>3. /\ \A w \in Wrapper : OwnersInvOf(w) /\ BodiesOf(w)
        /\ \A v, w \in Wrapper :
              Owner(v) /\ Owner(w) /\ at[v][1] = at[w][1] => v = w
    BY OwnersInvByObject DEF Base
  <1>4. ~Owner(n)'
    BY <1>1 DEF Owner
  <1>5. ASSUME NEW w \in Wrapper \ {n}
        PROVE  /\ Owner(w)' => Owner(w)
               /\ OwnersInvOf(w)' /\ BodiesOf(w)'
    <2>1. /\ class'[w] = class[w] /\ seg'[w] = seg[w] /\ owns'[w] = owns[w]
          /\ at'[w] = at[w] /\ to'[w] = to[w]
      BY <1>2, Zenon
    <2>2. OwnersInvOf(w) /\ BodiesOf(w)
      BY <1>3, Zenon
    <2> QED BY <2>1, <2>2, ObjectStays, Zenon
  <1>6. OwnersInvOf(n)'
    BY <1>1, <1>4 DEF OwnersInvOf
  <1>7. \A w \in Wrapper : OwnersInvOf(w)'
    BY <1>5, <1>6, Zenon
  <1>8. ASSUME NEW v \in Wrapper, NEW w \in Wrapper, Owner(v)', Owner(w)',
               at'[v][1] = at'[w][1]
        PROVE  v = w
    <2>1. v # n /\ w # n
      BY <1>4, <1>8, Zenon
    <2>2. Owner(v) /\ Owner(w) /\ at'[v] = at[v] /\ at'[w] = at[w]
      BY <1>2, <1>5, <1>8, <2>1, Zenon
    <2> QED BY <1>3, <1>8, <2>2, Zenon
  <1>9. ~fault' => BodiesOf(n)'
    BY <1>1 DEF BodiesOf
  <1>10. ~fault' => \A w \in Wrapper : BodiesOf(w)'
    BY <1>5, <1>9, Zenon
  <1>11. OwnersInv'
    BY <1>7, <1>8, <1>10, OwnersInvByObjectNext, Zenon
  <1> QED BY <1>11 DEF Base

\* A new owner of a new handle.
LEMMA OwnerBase ==
    ASSUME Base, OwnerScheme
    PROVE  Base'
  <1>1. PICK n \in Wrapper, h \in Handle, c \in AllClasses,
             regions \in SUBSET Region, b \in Region, ar \in SUBSET Thread :
           /\ Furnished(c, h, regions, b)
           /\ c \notin {"Chain", "BlockTreeEntry"}
           /\ \E xs \in SUBSET Wrapper : Uses(xs)
           /\ Fresh(h)
           /\ Allocate(h, regions)
           /\ Becomes(n, c, "pointer", TRUE, <<h, "cell">>, b, n, ar)
    BY Zenon DEF OwnerScheme
  <1>2. TypeOK /\ OwnersInv
    BY DEF Base
  <1>3. ~fault /\ fault' \in BOOLEAN
    BY <1>1, <1>2, UsesFacts
  <1>4. h \notin live
    BY <1>1, <1>2, Zenon DEF Fresh, OwnersInv
  <1>5. live' = live \cup {h} /\ live' \subseteq Handle
    BY <1>1, <1>2 DEF Allocate, TypeOK
  <1>6. keeps' \in [Handle -> SUBSET Region] /\ keeps'[h] = regions
    BY <1>1, <1>2 DEF Allocate, TypeOK
  <1>7. \A g \in live : keeps'[g] = keeps[g]
    BY <1>1, <1>2, <1>4 DEF Allocate, TypeOK
  <1>8. TypeOK'
    BY <1>1, <1>2, <1>3, <1>5, <1>6, BecomesTypes, RegionsOfHandle, Zenon
  <1>0. Becomes(n, c, "pointer", TRUE, <<h, "cell">>, b, n, ar)
    BY <1>1, Zenon
  <1>new. IsNew(n, c, "pointer", TRUE, <<h, "cell">>, b, n, ar)
    BY <1>0, <1>2, BecomesFacts, Zenon
  <1>9. /\ c # "none" /\ class'[n] = c /\ seg'[n] = "pointer"
        /\ owns'[n] = TRUE /\ at'[n] = <<h, "cell">> /\ to'[n] = b
    BY <1>new, Zenon DEF IsNew
  <1>10. \A w \in Wrapper \ {n} :
           /\ class'[w] = class[w] /\ seg'[w] = seg[w] /\ owns'[w] = owns[w]
           /\ at'[w] = at[w] /\ to'[w] = to[w]
    BY <1>new, Zenon DEF IsNew
  <1>11. /\ \A w \in Wrapper : OwnersInvOf(w) /\ BodiesOf(w)
         /\ \A v, w \in Wrapper :
               Owner(v) /\ Owner(w) /\ at[v][1] = at[w][1] => v = w
         /\ \A g \in live : keeps[g] # {}
    BY <1>2, <1>3, OwnersInvByObject
  <1>12. ASSUME NEW w \in Wrapper \ {n}
         PROVE  /\ Owner(w)' => Owner(w) /\ at[w][1] \in live
                /\ OwnersInvOf(w)' /\ BodiesOf(w)'
    <2>1. /\ class'[w] = class[w] /\ seg'[w] = seg[w] /\ owns'[w] = owns[w]
          /\ at'[w] = at[w] /\ to'[w] = to[w]
      BY <1>10
    <2>2. OwnersInvOf(w) /\ BodiesOf(w) /\ live \subseteq live'
      BY <1>5, <1>11
    <2>3. /\ Owner(w)' => Owner(w)
          /\ OwnersInvOf(w)' /\ BodiesOf(w)'
      BY <2>1, <2>2, ObjectStays
    <2> QED BY <2>2, <2>3, Zenon DEF OwnersInvOf
  <1>13. /\ c # "TransactionSpentOutputs"
         /\ c \in {"BlockSpentOutputs", "ChainstateManager"} => b[2] = "body"
         /\ regions # {}
    BY <1>1 DEF Furnished
  <1>14. at'[n][1] = h /\ at'[n][2] = "cell"
    BY <1>9
  <1>15. OwnersInvOf(n)' /\ BodiesOf(n)'
    BY <1>1, <1>5, <1>9, <1>13, <1>14, Zenon DEF OwnersInvOf, BodiesOf
  <1>16. \A w \in Wrapper : OwnersInvOf(w)' /\ BodiesOf(w)'
    BY <1>12, <1>15, Zenon
  <1>17. ASSUME NEW w \in Wrapper \ {n}, Owner(w)'
         PROVE  Owner(w) /\ at'[w] = at[w] /\ at'[w][1] # h
    BY <1>4, <1>10, <1>12, <1>17, Zenon
  <1>18. ASSUME NEW v \in Wrapper, NEW w \in Wrapper, Owner(v)', Owner(w)',
                at'[v][1] = at'[w][1]
         PROVE  v = w
    <2>1. CASE v # n /\ w # n
      <3>1. Owner(v) /\ Owner(w) /\ at'[v] = at[v] /\ at'[w] = at[w]
        BY <1>17, <1>18, <2>1
      <3> QED BY <1>11, <1>18, <3>1, Zenon
    <2>2. CASE v = n \/ w = n
      BY <1>14, <1>17, <1>18, <2>2
    <2> QED BY <2>1, <2>2
  <1>19. \A g \in live' : keeps'[g] # {}
    BY <1>5, <1>6, <1>7, <1>11, <1>13
  <1>20. OwnersInv'
    BY <1>16, <1>18, <1>19, OwnersInvByObjectNext, Zenon
  <1> QED BY <1>8, <1>20 DEF Base

\* A getter.
LEMMA ViewBase ==
    ASSUME Base, ViewScheme
    PROVE  Base'
  <1>1. PICK w \in Wrapper, n \in Wrapper, xs \in SUBSET Wrapper,
             c \in AllClasses, d \in AllClasses :
           /\ <<c, d>> \in Getters
           /\ class[w] = c
           /\ w \in xs
           /\ Uses(xs)
           /\ Becomes(n, d, "pointer", FALSE, to[w], Viewed(w, d), root[w], {})
           /\ UNCHANGED <<live, keeps>>
    BY Zenon DEF ViewScheme
  <1>2. TypeOK /\ OwnersInv
    BY DEF Base
  <1>3. /\ ~fault /\ fault' \in BOOLEAN
        /\ ~fault' => seg[w] = "pointer"
    BY <1>1, <1>2, UsesFacts, Zenon
  <1>4. /\ to[w] \in Region /\ root[w] \in Wrapper /\ {} \in SUBSET Thread
        /\ Viewed(w, d) \in Region
    BY <1>2 DEF TypeOK, Viewed, Region
  <1>5. live' \subseteq Handle /\ keeps' \in [Handle -> SUBSET Region]
    BY <1>1, <1>2 DEF TypeOK
  <1>6. TypeOK'
    BY <1>1, <1>2, <1>3, <1>4, <1>5, BecomesTypes, Zenon
  <1>7. OwnersInvOf(w) /\ BodiesOf(w) /\ \A h \in live : keeps[h] # {}
    BY <1>2, <1>3, OwnersInvByObject
  <1>8. /\ d \notin {"Block", "ChainstateManager", "BlockSpentOutputs"}
        /\ d = "TransactionSpentOutputs" => c = "BlockSpentOutputs"
        /\ d \in {"Chain", "BlockTreeEntry", "BlockHash"} =>
              c \in {"Chain", "BlockTreeEntry", "ChainstateManager"}
    BY <1>1 DEF Getters
  <1>9. d # "Transaction" => Viewed(w, d) = to[w]
    BY DEF Viewed
  <1>10. d = "TransactionSpentOutputs" =>
            to[w][2] = "body" /\ Viewed(w, d)[2] = "body"
    BY <1>1, <1>7, <1>8, <1>9, Zenon DEF OwnersInvOf
  <1>11. ~fault' /\ d \in {"Chain", "BlockTreeEntry", "BlockHash"} =>
            to[w][2] = "body" /\ Viewed(w, d)[2] = "body"
    BY <1>1, <1>3, <1>7, <1>8, <1>9, Zenon DEF BodiesOf
  <1>12. live \subseteq live' /\ \A h \in live' : keeps'[h] # {}
    BY <1>1, <1>7, Zenon
  <1> QED
    BY <1>1, <1>3, <1>6, <1>8, <1>10, <1>11, <1>12, NonOwnerBase, Zenon

\* An object around the zero address.
LEMMA HollowBase ==
    ASSUME Base, HollowScheme
    PROVE  Base'
  <1>1. PICK n \in Wrapper, ar \in SUBSET Thread,
             c \in {"Block", "Transaction", "ChainstateManager"} :
           /\ \E xs \in SUBSET Wrapper : Uses(xs)
           /\ Hollow(n, c, ar)
    BY DEF HollowScheme
  <1>2. TypeOK /\ OwnersInv
    BY DEF Base
  <1>3. ~fault /\ fault' \in BOOLEAN
    BY <1>1, <1>2, UsesFacts
  <1>4. /\ Becomes(n, c, "zero", TRUE, NoRegion, NoRegion, n, ar)
        /\ UNCHANGED <<live, keeps>>
    BY <1>1, Zenon DEF Hollow
  <1>5. NoRegion \in Region
    BY DEF NoRegion, Region
  <1>6. TypeOK'
    <2>1. live' \subseteq Handle /\ keeps' \in [Handle -> SUBSET Region]
      BY <1>2, <1>4 DEF TypeOK
    <2> QED BY <1>2, <1>3, <1>4, <1>5, <2>1, BecomesTypes, Zenon
  <1>7. live \subseteq live' /\ \A h \in live' : keeps'[h] # {}
    BY <1>2, <1>4, Zenon DEF OwnersInv
  <1> QED
    BY <1>3, <1>4, <1>6, <1>7, NonOwnerBase, Zenon

\* TransactionSpentOutputs.copy(): the handle of the copy is lost, and the
\* object that says it owns memory has no handle.
LEMMA CopyBase ==
    ASSUME Base, CopyScheme
    PROVE  Base'
  <1>1. PICK w \in Wrapper, n \in Wrapper, h \in Handle :
           TransactionSpentOutputs_copy(w, n, h)
    BY DEF CopyScheme
  <1>2. TypeOK /\ OwnersInv
    BY DEF Base
  <1>3. PICK r \in {root[w], n} :
           Becomes(n, "TransactionSpentOutputs", "pointer", TRUE, at[w], to[w],
                   r, {})
    BY <1>1, Zenon DEF TransactionSpentOutputs_copy
  <1>4. /\ class[w] = "TransactionSpentOutputs" /\ ~fault
        /\ fault' \in BOOLEAN
    BY <1>1, Zenon DEF TransactionSpentOutputs_copy, Calls
  <1>5. at[w][2] = "body" /\ to[w][2] = "body"
    BY <1>2, <1>4, Zenon DEF OwnersInv
  <1>6. /\ live \subseteq live' /\ live' \subseteq Handle
        /\ keeps' \in [Handle -> SUBSET Region]
        /\ \A g \in live' : keeps'[g] # {}
    <2>1. live' = live \cup {h} /\ keeps' = [keeps EXCEPT ![h] = {<<h, "cell">>}]
      BY <1>1, Zenon DEF TransactionSpentOutputs_copy, Allocate
    <2>2. live \subseteq Handle /\ keeps \in [Handle -> SUBSET Region]
      BY <1>2 DEF TypeOK
    <2>3. {<<h, "cell">>} \in SUBSET Region
      BY RegionsOfHandle, Zenon
    <2>4. keeps' \in [Handle -> SUBSET Region]
      BY <2>1, <2>2, <2>3, Zenon
    <2>5. keeps'[h] = {<<h, "cell">>} /\ \A g \in Handle \ {h} : keeps'[g] = keeps[g]
      BY <2>1, <2>2
    <2>6. \A g \in live : keeps[g] # {}
      BY <1>2 DEF OwnersInv
    <2> QED BY <2>1, <2>2, <2>4, <2>5, <2>6, Zenon
  <1>7. /\ at[w] \in Region /\ to[w] \in Region /\ r \in Wrapper
        /\ {} \in SUBSET Thread
    BY <1>2 DEF TypeOK
  <1>8. TypeOK'
    BY <1>2, <1>3, <1>4, <1>6, <1>7, BecomesTypes, Zenon
  <1> QED
    BY <1>3, <1>4, <1>5, <1>6, <1>8, NonOwnerBase, Zenon

\* close(): a handle goes only through a pointer to its cell, and then it is
\* the handle of an owner, whose inner is reset.
LEMMA CloseBase ==
    ASSUME Base, CloseScheme
    PROVE  Base'
  <1>1. PICK t \in Thread, w \in Wrapper, c \in AllClasses, destroys \in BOOLEAN :
           /\ destroys => seg[w] # "NULL"
           /\ c \notin {"Block", "BlockHash", "ChainstateManager",
                        "TransactionSpentOutputs"}
                => (destroys => owns[w])
           /\ ClosesWith(t, w, c, destroys, c = "TransactionSpentOutputs")
    BY Zenon DEF CloseScheme
  <1>2. TypeOK /\ OwnersInv
    BY DEF Base
  <1>3. /\ ~fault /\ class[w] = c /\ fault' \in BOOLEAN
        /\ arena' \in [Wrapper -> SUBSET Thread]
        /\ UNCHANGED <<class, owns, at, to, root, keeps>>
    BY <1>1, <1>2 DEF ClosesWith, TypeOK, BadDestroy
  <1>4. live' = IF destroys /\ seg[w] = "pointer"
                THEN {h \in live : at[w] # <<h, "cell">>} ELSE live
    BY <1>1 DEF ClosesWith
  <1>5. seg' = IF destroys /\ c # "TransactionSpentOutputs"
               THEN [seg EXCEPT ![w] = "NULL"] ELSE seg
    BY <1>1 DEF ClosesWith
  <1>6. seg' \in [Wrapper -> {"NULL", "zero", "pointer"}] /\ live' \subseteq live
    BY <1>2, <1>4, <1>5 DEF TypeOK
  <1>7. TypeOK'
    BY <1>2, <1>3, <1>6 DEF TypeOK
  <1>8. /\ \A v \in Wrapper : OwnersInvOf(v) /\ BodiesOf(v)
        /\ \A u, v \in Wrapper :
              Owner(u) /\ Owner(v) /\ at[u][1] = at[v][1] => u = v
        /\ \A g \in live : keeps[g] # {}
    BY <1>2, <1>3, OwnersInvByObject
  <1>9. \A v \in Wrapper : seg'[v] = seg[v] \/ (v = w /\ seg'[v] = "NULL")
    BY <1>2, <1>5 DEF TypeOK
  <1>10. \A v \in Wrapper : Owner(v)' => Owner(v)
    BY <1>3, <1>9 DEF Owner
  <1>11. ASSUME NEW v \in Wrapper, Owner(v)' PROVE at[v][1] \in live'
    <2>1. Owner(v) /\ at[v][1] \in live /\ at[v][2] = "cell"
      BY <1>8, <1>10, <1>11 DEF OwnersInvOf
    <2>2. CASE ~(destroys /\ seg[w] = "pointer")
      BY <1>4, <2>1, <2>2
    <2>3. CASE destroys /\ seg[w] = "pointer" /\ at[w] # <<at[v][1], "cell">>
      BY <1>4, <2>1, <2>3
    <2>4. CASE destroys /\ seg[w] = "pointer" /\ at[w] = <<at[v][1], "cell">>
      <3>1. at[w][1] = at[v][1] /\ at[w][2] = "cell"
        BY <2>4
      <3>2. c # "TransactionSpentOutputs"
        BY <1>3, <1>8, <3>1, Zenon DEF OwnersInvOf
      <3>3. owns[w]
        BY <1>1, <1>3, <1>8, <2>4, <3>1, <3>2, Zenon DEF OwnersInvOf, BodiesOf
      <3>4. Owner(w)
        BY <1>3, <2>4, <3>2, <3>3, NoneIsNoClass DEF Owner
      <3>5. v = w
        BY <1>8, <2>1, <3>1, <3>4, Zenon
      <3>6. seg'[w] = "NULL"
        BY <1>2, <1>5, <2>4, <3>2 DEF TypeOK
      <3> QED BY <1>11, <3>5, <3>6 DEF Owner
    <2> QED BY <2>2, <2>3, <2>4, Zenon
  <1>12. ASSUME NEW v \in Wrapper PROVE OwnersInvOf(v)' /\ BodiesOf(v)'
    <2>1. OwnersInvOf(v)'
      BY <1>3, <1>8, <1>9, <1>10, <1>11, Zenon DEF OwnersInvOf
    <2>2. BodiesOf(v)'
      BY <1>3, <1>8, <1>9, Zenon DEF BodiesOf
    <2> QED BY <2>1, <2>2
  <1>13. \A u, v \in Wrapper :
            (Owner(u) /\ Owner(v))' /\ at'[u][1] = at'[v][1] => u = v
    BY <1>3, <1>8, <1>10, Zenon
  <1>14. \A g \in live' : keeps'[g] # {}
    BY <1>3, <1>6, <1>8, Zenon
  <1>15. OwnersInv'
    BY <1>12, <1>13, <1>14, Zenon DEF OwnersInv, OwnersInvOf, BodiesOf
  <1> QED BY <1>7, <1>15 DEF Base

\* Every step.
LEMMA BaseStep ==
    ASSUME Base, [Next]_vars
    PROVE  Base'
  <1>1. CASE ReadScheme
    <2>1. fault' \in BOOLEAN /\ ~fault
      BY <1>1, UsesFacts DEF ReadScheme, Base
    <2> QED BY <1>1, <2>1, UntouchedBase DEF ReadScheme
  <1>2. CASE UNCHANGED vars
    <2>1. fault' \in BOOLEAN /\ (fault => fault')
      BY <1>2 DEF vars, Base, TypeOK
    <2> QED BY <1>2, <2>1, UntouchedBase DEF vars
  <1> QED
    BY <1>1, <1>2, EveryStepFollows, ViewBase, OwnerBase, HollowBase,
       CloseBase, CopyBase DEF Scheme

\* Initially there is no object.
LEMMA BaseInit == Init => Base
  <1> SUFFICES ASSUME Init PROVE Base
    OBVIOUS
  <1>1. NoRegion \in Region
    BY DEF NoRegion, Region
  <1>2. TypeOK
    BY <1>1, Zenon DEF Init, TypeOK
  <1>3. OwnersInv
    BY DEF Init, OwnersInv, Owner
  <1> QED BY <1>2, <1>3 DEF Base

\* OwnersInv, and the types of all fields, hold whatever the client does: no
\* order of constructors, getters, copies and closes, no failure of a native
\* call and no use of a closed object breaks them.
THEOREM OwnersAreInvariant == Spec => [](TypeOK /\ OwnersInv)
  <1>1. Base /\ [Next]_vars => Base'
    BY BaseStep
  <1>2. Base <=> TypeOK /\ OwnersInv
    BY DEF Base
  <1> QED BY <1>1, <1>2, BaseInit, PTL DEF Spec

\* Every field of every object stays in its type, whatever the client does.
THEOREM TypesHold == Spec => []TypeOK
  BY OwnersAreInvariant, PTL

\* Every open owner has a live handle of its own, whatever the client does:
\* no handle is ever destroyed by one object under another that owns it.
THEOREM OwnerUniqueness == Spec => []OwnersAreUnique
  <1>1. TypeOK /\ OwnersInv => OwnersAreUnique
    <2> SUFFICES ASSUME TypeOK, OwnersInv, NEW w \in Wrapper,
                        class[w] \notin {"none", "TransactionSpentOutputs"},
                        owns[w], seg[w] = "pointer"
                 PROVE  \E h \in live :
                           /\ Holds(w, h)
                           /\ \A v \in Wrapper : Holds(v, h) => v = w
      BY DEF OwnersAreUnique
    <2>1. Owner(w)
      BY DEF Owner
    <2>2. at[w] = <<at[w][1], "cell">> /\ at[w][1] \in live
      <3>1. at[w][1] \in live /\ at[w][2] = "cell"
        BY <2>1, Zenon DEF OwnersInv
      <3>2. at[w] \in Region
        BY DEF TypeOK
      <3> QED BY <3>1, <3>2 DEF Region
    <2>3. Holds(w, at[w][1])
      BY <2>2, Zenon DEF Holds
    <2>4. ASSUME NEW v \in Wrapper, Holds(v, at[w][1])
          PROVE  v = w
      <3>1. at[v] = <<at[w][1], "cell">> /\ class[v] # "none" /\ owns[v]
        BY <2>4 DEF Holds
      <3>2. class[v] # "TransactionSpentOutputs"
        <4>1. at[v][2] = "cell"
          BY <3>1
        <4> QED BY <4>1, Zenon DEF OwnersInv
      <3>3. Owner(v) /\ at[v][1] = at[w][1]
        BY <2>4, <3>1, <3>2 DEF Owner, Holds
      <3> QED BY <2>1, <3>3, Zenon DEF OwnersInv
    <2> QED BY <2>2, <2>3, <2>4
  <1> QED BY <1>1, OwnersAreInvariant, PTL

----------------------------------------------------------------------------
(* Any client: what close() leaves behind. *)

\* What a close changes.
HasClosed(t, w, c, destroys) ==
    /\ class[w] = c
    /\ destroys => seg[w] # "NULL"
    /\ c \notin {"Block", "BlockHash", "ChainstateManager",
                 "TransactionSpentOutputs"}
         => (destroys => owns[w])
    /\ ~fault /\ fault' = (destroys /\ BadDestroy(w))
    /\ <<c, owns[w]>> \in Closes
    /\ live' = IF destroys /\ seg[w] = "pointer"
               THEN {h \in live : at[w] # <<h, "cell">>} ELSE live
    /\ destroys /\ c # "TransactionSpentOutputs" => seg'[w] = "NULL"
    /\ ~destroys \/ c = "TransactionSpentOutputs" => seg' = seg
    /\ \A v \in Wrapper \ {w} :
          seg'[v] = seg[v] /\ arena'[v] = arena[v]
    /\ arena'[w] = arena[w] \ {t}
    /\ UNCHANGED <<class, owns, at, to, root, keeps>>

\* Every close() is of this form.
LEMMA ClosesFacts ==
    ASSUME TypeOK, CloseScheme
    PROVE  \E t \in Thread, w \in Wrapper, c \in AllClasses, destroys \in BOOLEAN :
              HasClosed(t, w, c, destroys)
  <1>1. PICK t \in Thread, w \in Wrapper, c \in AllClasses, destroys \in BOOLEAN :
           /\ destroys => seg[w] # "NULL"
           /\ c \notin {"Block", "BlockHash", "ChainstateManager",
                        "TransactionSpentOutputs"}
                => (destroys => owns[w])
           /\ ClosesWith(t, w, c, destroys, c = "TransactionSpentOutputs")
    BY DEF CloseScheme
  <1>2. /\ class[w] = c /\ ~fault /\ fault' = (destroys /\ BadDestroy(w))
        /\ <<c, owns[w]>> \in Closes
        /\ live' = IF destroys /\ seg[w] = "pointer"
                   THEN {h \in live : at[w] # <<h, "cell">>} ELSE live
        /\ UNCHANGED <<class, owns, at, to, root, keeps>>
    BY <1>1, Zenon DEF ClosesWith
  <1>3. /\ seg' = IF destroys /\ c # "TransactionSpentOutputs"
                  THEN [seg EXCEPT ![w] = "NULL"] ELSE seg
        /\ arena' = [arena EXCEPT ![w] = arena[w] \ {t}]
    BY <1>1, Zenon DEF ClosesWith
  <1>4. /\ destroys /\ c # "TransactionSpentOutputs" => seg'[w] = "NULL"
        /\ ~destroys \/ c = "TransactionSpentOutputs" => seg' = seg
        /\ \A v \in Wrapper \ {w} : seg'[v] = seg[v]
    BY <1>3 DEF TypeOK
  <1>5. /\ \A v \in Wrapper \ {w} : arena'[v] = arena[v]
        /\ arena'[w] = arena[w] \ {t}
    BY <1>3 DEF TypeOK
  <1>6. HasClosed(t, w, c, destroys)
    BY <1>1, <1>2, <1>4, <1>5, Zenon DEF HasClosed
  <1> QED BY <1>6

\* What a step that is not a close does to the objects there are: nothing.
\* A new object is open; a new handle is the new object's, except when a
\* TransactionSpentOutputs is copied.
Adds ==
    /\ \A w \in Wrapper : class[w] # "none" =>
          /\ class'[w] = class[w] /\ seg'[w] = seg[w] /\ owns'[w] = owns[w]
          /\ at'[w] = at[w] /\ to'[w] = to[w] /\ root'[w] = root[w]
          /\ arena'[w] = arena[w]
    /\ \A w \in Wrapper : class[w] = "none" =>
          \/ seg'[w] # "NULL"
          \/ seg'[w] = seg[w] /\ arena'[w] = arena[w] /\ class'[w] = "none"
    /\ live \subseteq live'
    /\ \A h \in live : keeps'[h] = keeps[h]
    /\ \A h \in live' \ live :
          \/ "TransactionSpentOutputs" \in Classes
          \/ \E w \in Wrapper : Holds(w, h)'

\* A new object.
LEMMA BecomesAdds ==
    ASSUME TypeOK, NEW n \in Wrapper, NEW c, NEW s, NEW o, NEW a, NEW b,
           NEW r, NEW ar, Becomes(n, c, s, o, a, b, r, ar),
           s # "NULL", live \subseteq live',
           \A h \in live : keeps'[h] = keeps[h],
           \A h \in live' \ live :
              \/ c = "TransactionSpentOutputs"
              \/ o /\ s = "pointer" /\ a = <<h, "cell">>
    PROVE  Adds
  <1>new. IsNew(n, c, s, o, a, b, r, ar)
    BY BecomesFacts, Zenon
  <1>1. /\ class[n] = "none" /\ c \in Classes /\ c # "none"
        /\ class'[n] = c /\ seg'[n] = s /\ owns'[n] = o /\ at'[n] = a
    BY <1>new, Zenon DEF IsNew
  <1>2. \A w \in Wrapper \ {n} :
           /\ class'[w] = class[w] /\ seg'[w] = seg[w] /\ owns'[w] = owns[w]
           /\ at'[w] = at[w] /\ to'[w] = to[w] /\ root'[w] = root[w]
           /\ arena'[w] = arena[w]
    BY <1>new, Zenon DEF IsNew
  <1>3. ASSUME NEW h \in live' \ live, c # "TransactionSpentOutputs"
        PROVE  Holds(n, h)'
    <2>1. o /\ s = "pointer" /\ a = <<h, "cell">>
      BY <1>3
    <2> QED BY <1>1, <2>1, Zenon DEF Holds
  <1>4. ASSUME NEW w \in Wrapper, class[w] # "none"
        PROVE  /\ class'[w] = class[w] /\ seg'[w] = seg[w]
               /\ owns'[w] = owns[w] /\ at'[w] = at[w] /\ to'[w] = to[w]
               /\ root'[w] = root[w] /\ arena'[w] = arena[w]
    <2>1. w # n
      BY <1>1, <1>4, Zenon
    <2> QED BY <1>2, <2>1, Zenon
  <1>5. ASSUME NEW w \in Wrapper, class[w] = "none"
        PROVE  \/ seg'[w] # "NULL"
               \/ seg'[w] = seg[w] /\ arena'[w] = arena[w] /\ class'[w] = "none"
    BY <1>1, <1>2, <1>5, Zenon
  <1> QED BY <1>1, <1>3, <1>4, <1>5, Zenon DEF Adds

\* A new handle leaves the others as they are.
LEMMA AllocateKeeps ==
    ASSUME Base, NEW h \in Handle, NEW regions, Fresh(h), Allocate(h, regions)
    PROVE  /\ live \subseteq live' /\ live' \ live = {h}
           /\ \A g \in live : keeps'[g] = keeps[g]
  <1>1. h \notin live
    BY Zenon DEF Base, OwnersInv, Fresh
  <1> QED BY <1>1 DEF Allocate, Base, TypeOK

\* Every step that is not a close.
LEMMA OthersAdd ==
    ASSUME Base,
           \/ ReadScheme
           \/ ViewScheme
           \/ OwnerScheme
           \/ HollowScheme
           \/ CopyScheme
           \/ UNCHANGED vars
    PROVE  Adds
  <1>0. TypeOK
    BY DEF Base
  <1>1. CASE ReadScheme
    <2>1. UNCHANGED <<class, seg, owns, at, to, root, arena, live, keeps>>
      BY <1>1 DEF ReadScheme
    <2> QED BY <2>1 DEF Adds
  <1>2. CASE UNCHANGED vars
    <2>1. UNCHANGED <<class, seg, owns, at, to, root, arena, live, keeps>>
      BY <1>2 DEF vars
    <2> QED BY <2>1 DEF Adds
  <1>3. CASE ViewScheme
    <2>1. PICK w \in Wrapper, n \in Wrapper, d \in AllClasses :
             /\ Becomes(n, d, "pointer", FALSE, to[w], Viewed(w, d), root[w], {})
             /\ UNCHANGED <<live, keeps>>
      BY <1>3, Zenon DEF ViewScheme
    <2>2. /\ live \subseteq live' /\ live' \ live = {}
          /\ \A h \in live : keeps'[h] = keeps[h]
      BY <2>1
    <2> QED BY <1>0, <2>1, <2>2, BecomesAdds, Zenon
  <1>4. CASE OwnerScheme
    <2>1. PICK n \in Wrapper, h \in Handle, c \in AllClasses,
               regions \in SUBSET Region, b \in Region, ar \in SUBSET Thread :
             /\ Fresh(h)
             /\ Allocate(h, regions)
             /\ Becomes(n, c, "pointer", TRUE, <<h, "cell">>, b, n, ar)
      BY <1>4, ZenonT(20) DEF OwnerScheme
    <2>2. /\ live \subseteq live' /\ live' \ live = {h}
          /\ \A g \in live : keeps'[g] = keeps[g]
      BY <2>1, AllocateKeeps, Zenon
    <2>3. Becomes(n, c, "pointer", TRUE, <<h, "cell">>, b, n, ar)
      BY <2>1, Zenon
    <2>4. \A g \in live' \ live :
             \/ c = "TransactionSpentOutputs"
             \/ TRUE /\ "pointer" = "pointer" /\ <<h, "cell">> = <<g, "cell">>
      BY <2>2
    <2> QED BY <1>0, <2>2, <2>3, <2>4, BecomesAdds, Zenon
  <1>5. CASE HollowScheme
    <2>1. PICK n \in Wrapper, c \in AllClasses, ar \in SUBSET Thread :
             /\ Becomes(n, c, "zero", TRUE, NoRegion, NoRegion, n, ar)
             /\ UNCHANGED <<live, keeps>>
      BY <1>5, Zenon DEF HollowScheme, Hollow, AllClasses
    <2>2. /\ live \subseteq live' /\ live' \ live = {}
          /\ \A h \in live : keeps'[h] = keeps[h]
      BY <2>1
    <2> QED BY <1>0, <2>1, <2>2, BecomesAdds, Zenon
  <1>6. CASE CopyScheme
    <2>1. PICK w \in Wrapper, n \in Wrapper, h \in Handle :
             TransactionSpentOutputs_copy(w, n, h)
      BY <1>6 DEF CopyScheme
    <2>2. PICK r :
             Becomes(n, "TransactionSpentOutputs", "pointer", TRUE, at[w], to[w],
                     r, {})
      BY <2>1, Zenon DEF TransactionSpentOutputs_copy
    <2>3. Fresh(h) /\ Allocate(h, {<<h, "cell">>})
      BY <2>1 DEF TransactionSpentOutputs_copy
    <2>4. live \subseteq live' /\ \A g \in live : keeps'[g] = keeps[g]
      BY <2>3, AllocateKeeps
    <2> QED BY <1>0, <2>2, <2>4, BecomesAdds, Zenon
  <1> QED BY <1>1, <1>2, <1>3, <1>4, <1>5, <1>6

\* A step adds to what there is or is a close.
LEMMA AddsOrCloses ==
    ASSUME Base, [Next]_vars
    PROVE  Adds \/ CloseScheme
  <1>1. Scheme
    BY EveryStepFollows
  <1> QED BY <1>1, OthersAdd DEF Scheme

\* No native allocation is lost, whatever the client does, as long as there
\* is no TransactionSpentOutputs to copy: every live handle has an open
\* object that will destroy it when it is closed.
THEOREM NothingIsOrphaned ==
    ASSUME "TransactionSpentOutputs" \notin Classes
    PROVE  Spec => []NoOrphans
  <1>1. Init => NoOrphans
    BY DEF Init, NoOrphans
  <1>2. ASSUME TypeOK, OwnersInv, NoOrphans, [Next]_vars
        PROVE  NoOrphans'
    <2>1. Base
      BY <1>2 DEF Base
    <2>2. CASE Adds
      <3> SUFFICES ASSUME NEW h \in live' PROVE \E w \in Wrapper : Holds(w, h)'
        BY DEF NoOrphans
      <3>1. CASE h \notin live
        BY <2>2, <3>1 DEF Adds
      <3>2. CASE h \in live
        <4>1. PICK w \in Wrapper : Holds(w, h)
          BY <1>2, <3>2 DEF NoOrphans
        <4>2. Holds(w, h)'
          BY <2>2, <4>1, Zenon DEF Adds, Holds
        <4> QED BY <4>2
      <3> QED BY <3>1, <3>2
    <2>3. CASE CloseScheme
      <3>0. PICK t \in Thread, w \in Wrapper, c \in AllClasses, destroys \in BOOLEAN :
               HasClosed(t, w, c, destroys)
        BY <1>2, <2>3, ClosesFacts
      <3>1. /\ class[w] = c
            /\ live' = IF destroys /\ seg[w] = "pointer"
                       THEN {h \in live : at[w] # <<h, "cell">>} ELSE live
            /\ ~destroys \/ c = "TransactionSpentOutputs" => seg' = seg
            /\ \A v \in Wrapper \ {w} : seg'[v] = seg[v]
            /\ UNCHANGED <<class, owns, at, to, root, keeps>>
        BY <3>0, Zenon DEF HasClosed
      <3> SUFFICES ASSUME NEW h \in live' PROVE \E v \in Wrapper : Holds(v, h)'
        BY DEF NoOrphans
      <3>2. h \in live
        BY <3>1
      <3>3. PICK v \in Wrapper : Holds(v, h)
        BY <1>2, <3>2 DEF NoOrphans
      <3>4. CASE seg'[v] = seg[v]
        BY <3>1, <3>3, <3>4 DEF Holds
      <3>5. CASE seg'[v] # seg[v]
        <4>1. v = w /\ destroys
          BY <3>1, <3>5
        <4>2. seg[w] = "pointer" /\ at[w] = <<h, "cell">>
          BY <3>3, <4>1 DEF Holds
        <4> QED BY <3>1, <4>1, <4>2
      <3> QED BY <3>4, <3>5
    <2> QED BY <1>2, <2>1, <2>2, <2>3, AddsOrCloses
  <1>3. TypeOK /\ OwnersInv /\ NoOrphans /\ [Next]_vars => NoOrphans'
    BY <1>2
  <1> QED BY <1>1, <1>3, OwnersAreInvariant, PTL DEF Spec

\* With a single client thread the arena of an object goes with its native
\* memory, whatever else the client does.
THEOREM ArenasFollowObjects ==
    ASSUME \A s, t \in Thread : s = t
    PROVE  Spec => []ArenaFollowsObject
  <1>1. Init => ArenaFollowsObject
    BY DEF Init, ArenaFollowsObject
  <1>2. ASSUME TypeOK, OwnersInv, ArenaFollowsObject, [Next]_vars
        PROVE  ArenaFollowsObject'
    <2>1. Base
      BY <1>2 DEF Base
    <2>2. CASE Adds
      BY <1>2, <2>2, Zenon DEF Adds, ArenaFollowsObject
    <2>3. CASE CloseScheme
      <3>0. PICK t \in Thread, w \in Wrapper, c \in AllClasses, destroys \in BOOLEAN :
               HasClosed(t, w, c, destroys)
        BY <1>2, <2>3, ClosesFacts
      <3>1. /\ \A v \in Wrapper \ {w} :
                  seg'[v] = seg[v] /\ arena'[v] = arena[v]
            /\ arena'[w] = arena[w] \ {t}
        BY <3>0, Zenon DEF HasClosed
      <3>2. arena[w] \subseteq Thread
        BY <1>2 DEF TypeOK
      <3>3. arena'[w] = {}
        BY <3>1, <3>2, Zenon
      <3> QED BY <1>2, <3>1, <3>3, Zenon DEF ArenaFollowsObject
    <2> QED BY <1>2, <2>1, <2>2, <2>3, AddsOrCloses
  <1>3. TypeOK /\ OwnersInv /\ ArenaFollowsObject /\ [Next]_vars
           => ArenaFollowsObject'
    BY <1>2
  <1> QED BY <1>1, <1>3, OwnersAreInvariant, PTL DEF Spec

----------------------------------------------------------------------------
(* A client that takes copies of TransactionSpentOutputs for views: memory is
   in order up to the first fault. *)

Ordered == TypeOK /\ MemoryInOrder

\* An object native code works on without a fault is open, and so is the
\* object it depends on, whose handle keeps what it points to.
LEMMA UsedIsKept ==
    ASSUME Ordered, NEW xs, Uses(xs), ~fault', NEW w \in xs
    PROVE  /\ w \in Wrapper
           /\ seg[w] = "pointer"
           /\ IsRoot(root[w])
           /\ {at[w], to[w]} \subseteq keeps[at[root[w]][1]]
  <1>1. w \in Wrapper /\ Called(w)
    BY DEF Uses
  <1>2. seg[w] = "pointer"
    BY UsesFacts DEF Ordered
  <1>3. seg[root[w]] # "NULL"
    BY <1>1, <1>2, Zenon DEF Called, Calls
  <1>4. IsRoot(root[w])
    BY <1>1, <1>2, <1>3 DEF Ordered, MemoryInOrder, ViewsAreKept, TypeOK, IsRoot
  <1> QED
    BY <1>1, <1>2, <1>4, Zenon DEF Ordered, MemoryInOrder, ViewsAreKept, IsRoot

\* A new object leaves the blocks and the undo data of the others as they are.
LEMMA BodiesAdded ==
    ASSUME Ordered, NEW n \in Wrapper, NEW c, NEW s, NEW o, NEW a, NEW b,
           NEW r, NEW ar, Becomes(n, c, s, o, a, b, r, ar),
           \A h \in live : keeps'[h] = keeps[h],
           c = "Block" /\ s = "pointer" => <<b[1], "tx">> \in keeps'[a[1]],
           c = "BlockSpentOutputs" => b[2] = "body",
           c = "TransactionSpentOutputs" => a[2] = "body" /\ b[2] = "body"
    PROVE  BodiesAreKept'
  <1>1. TypeOK
    BY Zenon DEF Ordered
  <1>new. IsNew(n, c, s, o, a, b, r, ar)
    BY <1>1, BecomesFacts, Zenon
  <1>2. /\ class'[n] = c /\ seg'[n] = s /\ at'[n] = a /\ to'[n] = b
    BY <1>new, Zenon DEF IsNew
  <1>3. ASSUME NEW w \in Wrapper \ {n}
        PROVE  /\ class'[w] = "Block" /\ seg'[w] = "pointer" =>
                     <<to'[w][1], "tx">> \in keeps'[at'[w][1]]
               /\ class'[w] = "BlockSpentOutputs" => to'[w][2] = "body"
               /\ class'[w] = "TransactionSpentOutputs" =>
                     at'[w][2] = "body" /\ to'[w][2] = "body"
    <2>1. /\ class'[w] = class[w] /\ seg'[w] = seg[w]
          /\ at'[w] = at[w] /\ to'[w] = to[w]
      BY <1>new, Zenon DEF IsNew
    <2>2. class[w] = "Block" /\ seg[w] = "pointer" => at[w][1] \in live
      BY Zenon DEF Ordered, MemoryInOrder, OwnersAreRoots, RootsOwn, IsRoot
    <2>3. /\ class[w] = "Block" /\ seg[w] = "pointer" =>
               <<to[w][1], "tx">> \in keeps[at[w][1]]
          /\ class[w] = "BlockSpentOutputs" => to[w][2] = "body"
          /\ class[w] = "TransactionSpentOutputs" =>
               at[w][2] = "body" /\ to[w][2] = "body"
      BY Zenon DEF Ordered, MemoryInOrder, BodiesAreKept
    <2> QED BY <2>1, <2>2, <2>3, Zenon
  <1> QED BY <1>2, <1>3, Zenon DEF BodiesAreKept

\* No object becomes a root, and the handles of the roots stay.
LEMMA RootsStay ==
    ASSUME Ordered,
           \A w \in Wrapper : IsRoot(w)' =>
              /\ IsRoot(w) /\ at'[w] = at[w] /\ owns'[w] = owns[w]
              /\ at[w][1] \in live => at[w][1] \in live'
    PROVE  RootsOwn'
  <1>1. RootsOwn
    BY DEF Ordered, MemoryInOrder
  <1>2. ASSUME NEW w \in Wrapper, IsRoot(w)'
        PROVE  owns'[w] /\ at'[w][1] \in live' /\ at'[w][2] = "cell"
    <2>1. IsRoot(w) /\ at'[w] = at[w] /\ owns'[w] = owns[w]
      BY <1>2
    <2>2. owns[w] /\ at[w][1] \in live /\ at[w][2] = "cell"
      BY <1>1, <2>1, Zenon DEF RootsOwn
    <2> QED BY <1>2, <2>1, <2>2, Zenon
  <1>3. ASSUME NEW v \in Wrapper, NEW w \in Wrapper,
               IsRoot(v)', IsRoot(w)', at'[v][1] = at'[w][1]
        PROVE  v = w
    <2>1. IsRoot(v) /\ IsRoot(w) /\ at[v][1] = at[w][1]
      BY <1>3
    <2> QED BY <1>1, <2>1, Zenon DEF RootsOwn
  <1> QED BY <1>2, <1>3, Zenon DEF RootsOwn

\* Nothing that is open depends on an object that is not yet made.
LEMMA NewBeside ==
    ASSUME Ordered, NEW n \in Wrapper, NEW c, NEW s, NEW o, NEW a, NEW b,
           NEW r, NEW ar, Becomes(n, c, s, o, a, b, r, ar)
    PROVE  /\ IsNew(n, c, s, o, a, b, r, ar)
           /\ seg[n] = "NULL"
           /\ \A w \in Wrapper :
                 seg[w] # "NULL" => w # n /\ root[w] \in Wrapper \ {n}
  <1>1. TypeOK /\ Created
    BY Zenon DEF Ordered, MemoryInOrder
  <1>2. IsNew(n, c, s, o, a, b, r, ar)
    BY <1>1, BecomesFacts
  <1>3. class[n] = "none"
    BY <1>2, Zenon DEF IsNew
  <1>4. \A w \in Wrapper : root[w] \in Wrapper
    BY <1>1 DEF TypeOK
  <1>5. \A w \in Wrapper : seg[w] # "NULL" => w # n /\ root[w] # n
    BY <1>1, <1>3, Zenon DEF Created
  <1> QED BY <1>2, <1>4, <1>5, Zenon

\* A new object that depends on itself or on an object that is made.
LEMMA CreatedStays ==
    ASSUME Ordered, NEW n \in Wrapper, NEW c, NEW s, NEW o, NEW a, NEW b,
           NEW r \in Wrapper, NEW ar, Becomes(n, c, s, o, a, b, r, ar),
           r = n \/ class[r] # "none"
    PROVE  Created'
  <1>1. /\ IsNew(n, c, s, o, a, b, r, ar)
        /\ \A w \in Wrapper :
              seg[w] # "NULL" => w # n /\ root[w] \in Wrapper \ {n}
    BY NewBeside, Zenon
  <1>2. /\ class[n] = "none" /\ c # "none" /\ class'[n] = c /\ root'[n] = r
        /\ \A w \in Wrapper \ {n} :
              class'[w] = class[w] /\ seg'[w] = seg[w] /\ root'[w] = root[w]
    BY <1>1, Zenon DEF IsNew
  <1>3. Created
    BY Zenon DEF Ordered, MemoryInOrder
  <1> SUFFICES ASSUME NEW w \in Wrapper, seg'[w] # "NULL"
               PROVE  class'[w] # "none" /\ class'[root'[w]] # "none"
    BY Zenon DEF Created
  <1>4. CASE w = n
    <2>1. class'[r] # "none"
      BY <1>2, Zenon
    <2> QED BY <1>2, <1>4, <2>1, Zenon
  <1>5. CASE w # n
    <2>1. seg[w] # "NULL" /\ class'[w] = class[w] /\ root'[w] = root[w]
      BY <1>2, <1>5, Zenon
    <2>2. root[w] \in Wrapper \ {n}
      BY <1>1, <2>1, Zenon
    <2>3. class'[root[w]] = class[root[w]]
      BY <1>2, <2>2, Zenon
    <2>4. class[w] # "none" /\ class[root[w]] # "none"
      BY <1>3, <2>1, Zenon DEF Created
    <2> QED BY <2>1, <2>3, <2>4, Zenon
  <1> QED BY <1>4, <1>5, Zenon

\* What open objects point to stays kept beside a new object for which this
\* is so as well.
LEMMA ViewsStay ==
    ASSUME Ordered, NEW n \in Wrapper, NEW c, NEW s, NEW o, NEW a, NEW b,
           NEW r \in Wrapper, NEW ar, Becomes(n, c, s, o, a, b, r, ar),
           \A h \in live : keeps'[h] = keeps[h],
           s = "pointer" =>
              /\ root'[r] = r /\ seg'[r] # "zero"
              /\ seg'[r] = "pointer" => {a, b} \subseteq keeps'[at'[r][1]]
    PROVE  ViewsAreKept'
  <1>1. /\ IsNew(n, c, s, o, a, b, r, ar)
        /\ \A w \in Wrapper :
              seg[w] # "NULL" => w # n /\ root[w] \in Wrapper \ {n}
    BY NewBeside, Zenon
  <1>2. /\ seg'[n] = s /\ root'[n] = r /\ at'[n] = a /\ to'[n] = b
        /\ \A w \in Wrapper \ {n} :
              /\ seg'[w] = seg[w] /\ root'[w] = root[w]
              /\ at'[w] = at[w] /\ to'[w] = to[w]
    BY <1>1, Zenon DEF IsNew
  <1>3. ViewsAreKept /\ RootsOwn
    BY Zenon DEF Ordered, MemoryInOrder
  <1> SUFFICES ASSUME NEW w \in Wrapper, seg'[w] = "pointer"
               PROVE  /\ root'[root'[w]] = root'[w]
                      /\ seg'[root'[w]] # "zero"
                      /\ seg'[root'[w]] = "pointer" =>
                           {at'[w], to'[w]} \subseteq keeps'[at'[root'[w]][1]]
    BY Zenon DEF ViewsAreKept
  <1>4. CASE w = n
    <2>1. /\ s = "pointer" /\ root'[w] = r /\ at'[w] = a /\ to'[w] = b
      BY <1>2, <1>4, Zenon
    <2> QED BY <2>1, Zenon
  <1>5. CASE w # n
    <2>1. /\ seg[w] = "pointer" /\ root'[w] = root[w]
          /\ at'[w] = at[w] /\ to'[w] = to[w]
      BY <1>2, <1>5, Zenon
    <2>2. root[w] \in Wrapper \ {n}
      BY <1>1, <2>1, Zenon
    <2>3. /\ seg'[root[w]] = seg[root[w]] /\ root'[root[w]] = root[root[w]]
          /\ at'[root[w]] = at[root[w]]
      BY <1>2, <2>2, Zenon
    <2>4. /\ root[root[w]] = root[w] /\ seg[root[w]] # "zero"
          /\ seg[root[w]] = "pointer" =>
                {at[w], to[w]} \subseteq keeps[at[root[w]][1]]
      BY <1>3, <2>1, Zenon DEF ViewsAreKept
    <2>5. seg[root[w]] = "pointer" => at[root[w]][1] \in live
      BY <1>3, <2>2, <2>4, Zenon DEF RootsOwn, IsRoot
    <2>6. seg[root[w]] = "pointer" =>
             keeps'[at[root[w]][1]] = keeps[at[root[w]][1]]
      BY <2>5, Zenon
    <2>7. at'[root'[w]][1] = at[root[w]][1]
      BY ONLY <2>1, <2>3, Zenon
    <2>8. /\ root'[root'[w]] = root'[w] /\ seg'[root'[w]] = seg[root[w]]
          /\ seg'[root'[w]] # "zero"
      BY ONLY <2>1, <2>3, <2>4, Zenon
    <2>9. seg'[root'[w]] = "pointer" =>
             {at'[w], to'[w]} \subseteq keeps'[at'[root'[w]][1]]
      BY ONLY <2>1, <2>4, <2>6, <2>7, <2>8
    <2> QED BY <2>8, <2>9, Zenon
  <1> QED BY <1>4, <1>5, Zenon

\* A new object says that it owns memory only if it is its own root, unless it
\* is a copy of a TransactionSpentOutputs.
LEMMA OwnersStay ==
    ASSUME Ordered, NEW n \in Wrapper, NEW c, NEW s, NEW o, NEW a, NEW b,
           NEW r, NEW ar, Becomes(n, c, s, o, a, b, r, ar),
           \/ c = "TransactionSpentOutputs"
           \/ o /\ r = n
           \/ ~o /\ c \notin {"Block", "ChainstateManager"}
    PROVE  OwnersAreRoots'
  <1>1. IsNew(n, c, s, o, a, b, r, ar)
    BY NewBeside, Zenon
  <1>2. /\ class'[n] = c /\ owns'[n] = o /\ root'[n] = r
        /\ \A w \in Wrapper \ {n} :
              class'[w] = class[w] /\ owns'[w] = owns[w] /\ root'[w] = root[w]
    BY <1>1, Zenon DEF IsNew
  <1>3. OwnersAreRoots
    BY Zenon DEF Ordered, MemoryInOrder
  <1> SUFFICES ASSUME NEW w \in Wrapper
               PROVE  \/ class'[w] = "none"
                      \/ owns'[w] /\ root'[w] = w
                      \/ class'[w] = "TransactionSpentOutputs"
                      \/ ~owns'[w] /\ class'[w] \notin {"Block", "ChainstateManager"}
    BY Zenon DEF OwnersAreRoots
  <1>4. CASE w = n
    BY <1>2, <1>4, Zenon
  <1>5. CASE w # n
    <2>1. class'[w] = class[w] /\ owns'[w] = owns[w] /\ root'[w] = root[w]
      BY <1>2, <1>5, Zenon
    <2> QED BY <1>3, <2>1, Zenon DEF OwnersAreRoots
  <1> QED BY <1>4, <1>5, Zenon

\* A new object that points into memory its root keeps alive: the result of
\* a getter, or of TransactionSpentOutputs.copy() seen as a view.
LEMMA ViewAdded ==
    ASSUME Ordered, NEW r \in Wrapper, IsRoot(r),
           NEW n \in Wrapper, NEW c, NEW o \in BOOLEAN,
           NEW a \in Region, NEW b \in Region,
           {a, b} \subseteq keeps[at[r][1]],
           c \notin {"Block", "BlockSpentOutputs", "ChainstateManager"},
           o => c = "TransactionSpentOutputs",
           c = "TransactionSpentOutputs" => a[2] = "body" /\ b[2] = "body",
           Becomes(n, c, "pointer", o, a, b, r, {}),
           live \subseteq live', live' \subseteq Handle,
           keeps' \in [Handle -> SUBSET Region],
           \A h \in live : keeps'[h] = keeps[h],
           \A h \in live' : keeps'[h] # {},
           TypeOK'
    PROVE  MemoryInOrder'
  <1>1. /\ IsNew(n, c, "pointer", o, a, b, r, {})
        /\ seg[n] = "NULL"
    BY NewBeside, Zenon
  <1>2. /\ seg'[n] = "pointer" /\ root'[n] = r
        /\ \A w \in Wrapper \ {n} :
              /\ seg'[w] = seg[w] /\ root'[w] = root[w]
              /\ at'[w] = at[w] /\ owns'[w] = owns[w]
    BY <1>1, Zenon DEF IsNew
  <1>3. seg[r] = "pointer" /\ root[r] = r /\ r # n /\ class[r] # "none"
    BY <1>1, Zenon DEF IsRoot, Ordered, MemoryInOrder, Created
  <1>4. at[r][1] \in live
    BY <1>3, Zenon DEF IsRoot, Ordered, MemoryInOrder, RootsOwn
  <1>5. seg'[r] = "pointer" /\ root'[r] = r /\ at'[r] = at[r]
    BY <1>2, <1>3, Zenon
  <1>6. RootsOwn'
    <2>1. \A w \in Wrapper : IsRoot(w)' =>
             IsRoot(w) /\ at'[w] = at[w] /\ owns'[w] = owns[w]
      BY <1>2, <1>3, Zenon DEF IsRoot
    <2> QED BY <2>1, RootsStay, Zenon
  <1>7. Created'
    BY <1>3, CreatedStays, Zenon
  <1>8. {a, b} \subseteq keeps'[at'[r][1]]
    BY <1>4, <1>5, Zenon
  <1>9. ViewsAreKept'
    BY <1>5, <1>8, ViewsStay, Zenon
  <1>10. OwnersAreRoots'
    BY OwnersStay, Zenon
  <1>11. BodiesAreKept'
    BY BodiesAdded, Zenon
  <1> QED
    BY <1>6, <1>7, <1>9, <1>10, <1>11, Zenon DEF MemoryInOrder

\* A new object that owns a new handle: the result of a constructor that
\* takes bytes, of a read from disk, or of a copy.
LEMMA OwnerAdded ==
    ASSUME Ordered, NEW n \in Wrapper, NEW c, NEW h \in Handle,
           NEW regions \in SUBSET Region, NEW b \in Region,
           NEW ar \in SUBSET Thread,
           c # "TransactionSpentOutputs",
           {<<h, "cell">>, b} \subseteq regions,
           c = "Block" => <<b[1], "tx">> \in regions,
           c = "BlockSpentOutputs" => b[2] = "body",
           Fresh(h),
           Allocate(h, regions),
           Becomes(n, c, "pointer", TRUE, <<h, "cell">>, b, n, ar),
           TypeOK'
    PROVE  MemoryInOrder'
  <1>1. /\ IsNew(n, c, "pointer", TRUE, <<h, "cell">>, b, n, ar)
        /\ seg[n] = "NULL"
    BY NewBeside, Zenon
  <1>2. h \notin live
    BY DEF Ordered, MemoryInOrder, Fresh
  <1>3. /\ live' = live \cup {h} /\ keeps'[h] = regions
        /\ \A g \in live : keeps'[g] = keeps[g]
    BY <1>2, Zenon DEF Allocate, Ordered, TypeOK
  <1>4. /\ seg'[n] = "pointer" /\ root'[n] = n /\ at'[n] = <<h, "cell">>
        /\ owns'[n] = TRUE
        /\ \A w \in Wrapper \ {n} :
              /\ seg'[w] = seg[w] /\ root'[w] = root[w]
              /\ at'[w] = at[w] /\ owns'[w] = owns[w]
    BY <1>1, Zenon DEF IsNew
  <1>5. at'[n][1] = h /\ at'[n][2] = "cell" /\ <<h, "cell">>[1] = h
    BY <1>4
  <1>6. \A w \in Wrapper \ {n} : IsRoot(w)' <=> IsRoot(w)
    BY <1>4 DEF IsRoot
  <1>7. RootsOwn'
    <2>1. RootsOwn
      BY Zenon DEF Ordered, MemoryInOrder
    <2>2. ASSUME NEW w \in Wrapper \ {n}, IsRoot(w)'
          PROVE  /\ owns'[w] /\ at'[w] = at[w] /\ at[w][1] \in live
                 /\ at[w][2] = "cell" /\ IsRoot(w)
      BY <1>4, <1>6, <2>1, <2>2, Zenon DEF RootsOwn
    <2>3. ASSUME NEW w \in Wrapper, IsRoot(w)'
          PROVE  owns'[w] /\ at'[w][1] \in live' /\ at'[w][2] = "cell"
      <3>1. CASE w = n
        BY ONLY <1>3, <1>4, <1>5, <3>1
      <3>2. CASE w # n
        <4>1. /\ owns'[w] /\ at'[w] = at[w] /\ at[w][1] \in live
              /\ at[w][2] = "cell"
          BY <2>2, <2>3, <3>2
        <4> QED
          BY ONLY <1>3, <4>1
      <3> QED
        BY <3>1, <3>2, Zenon
    <2>4. ASSUME NEW v \in Wrapper, NEW w \in Wrapper, IsRoot(v)', IsRoot(w)',
                 at'[v][1] = at'[w][1]
          PROVE  v = w
      <3>1. CASE v # n /\ w # n
        <4>1. IsRoot(v) /\ IsRoot(w) /\ at[v][1] = at[w][1]
          BY <2>2, <2>4, <3>1
        <4> QED BY <2>1, <4>1, Zenon DEF RootsOwn
      <3>2. CASE v = n \/ w = n
        BY <1>2, <1>5, <2>2, <2>4, <3>2
      <3> QED BY <3>1, <3>2
    <2> QED BY <2>3, <2>4, Zenon DEF RootsOwn
  <1>8. Created'
    BY CreatedStays, Zenon
  <1>9. ViewsAreKept'
    <2>1. {<<h, "cell">>, b} \subseteq keeps'[at'[n][1]]
      BY <1>3, <1>5
    <2>2. seg'[n] # "zero"
      BY <1>4
    <2> QED BY <1>3, <1>4, <2>1, <2>2, ViewsStay, Zenon
  <1>10. OwnersAreRoots'
    BY OwnersStay, Zenon
  <1>11. BodiesAreKept'
    BY <1>3, <1>5, BodiesAdded, Zenon
  <1>12. \A g \in live' : keeps'[g] # {}
    BY <1>3 DEF Ordered, MemoryInOrder
  <1> QED
    BY <1>7, <1>8, <1>9, <1>10, <1>11, <1>12, Zenon DEF MemoryInOrder

\* An object around the zero address: a block that is not on disk, bytes that
\* are not a transaction, a chainstate that cannot be loaded.
LEMMA HollowAdded ==
    ASSUME Ordered, NEW n \in Wrapper, NEW ar,
           NEW c \in {"Block", "Transaction", "ChainstateManager"},
           Hollow(n, c, ar), TypeOK'
    PROVE  MemoryInOrder'
  <1>1. /\ Becomes(n, c, "zero", TRUE, NoRegion, NoRegion, n, ar)
        /\ live' = live /\ keeps' = keeps
    BY Zenon DEF Hollow
  <1>2. IsNew(n, c, "zero", TRUE, NoRegion, NoRegion, n, ar)
    BY <1>1, NewBeside, Zenon
  <1>3. /\ seg'[n] = "zero"
        /\ \A w \in Wrapper \ {n} :
              /\ seg'[w] = seg[w] /\ root'[w] = root[w]
              /\ at'[w] = at[w] /\ owns'[w] = owns[w]
    BY <1>2, Zenon DEF IsNew
  <1>4. RootsOwn'
    <2>1. \A w \in Wrapper : IsRoot(w)' =>
             IsRoot(w) /\ at'[w] = at[w] /\ owns'[w] = owns[w]
      BY <1>3, Zenon DEF IsRoot
    <2> QED BY <1>1, <2>1, RootsStay, Zenon
  <1>5. Created'
    BY <1>1, CreatedStays, Zenon
  <1>6. c # "TransactionSpentOutputs" /\ c # "BlockSpentOutputs" /\ "zero" # "pointer"
    OBVIOUS
  <1>7. \A h \in live : keeps'[h] = keeps[h]
    BY <1>1
  <1>8. ViewsAreKept'
    BY <1>1, <1>6, <1>7, ViewsStay, Zenon
  <1>9. OwnersAreRoots'
    BY <1>1, OwnersStay, Zenon
  <1>10. BodiesAreKept'
    BY <1>1, <1>6, <1>7, BodiesAdded, Zenon
  <1>11. \A h \in live' : keeps'[h] # {}
    BY <1>1, Zenon DEF Ordered, MemoryInOrder
  <1> QED
    BY <1>4, <1>5, <1>8, <1>9, <1>10, <1>11, Zenon DEF MemoryInOrder

\* A step that changes no object and no native memory.
LEMMA UntouchedOrdered ==
    ASSUME Ordered, UNCHANGED <<class, seg, owns, at, to, root, live, keeps>>
    PROVE  MemoryInOrder'
  <1>1. Created' /\ OwnersAreRoots' /\ BodiesAreKept'
    BY Zenon DEF Ordered, MemoryInOrder, Created, OwnersAreRoots, BodiesAreKept
  <1>2. RootsOwn' /\ ViewsAreKept'
    BY Zenon DEF Ordered, MemoryInOrder, RootsOwn, ViewsAreKept, IsRoot
  <1>3. \A h \in live' : keeps'[h] # {}
    BY Zenon DEF Ordered, MemoryInOrder
  <1> QED BY <1>1, <1>2, <1>3, Zenon DEF MemoryInOrder

\* A getter.
LEMMA ViewOrdered ==
    ASSUME Ordered, TypeOK', ~fault', ViewScheme
    PROVE  MemoryInOrder'
  <1>1. PICK w \in Wrapper, n \in Wrapper, xs \in SUBSET Wrapper,
             c \in AllClasses, d \in AllClasses :
           /\ <<c, d>> \in Getters
           /\ class[w] = c
           /\ w \in xs
           /\ Uses(xs)
           /\ Becomes(n, d, "pointer", FALSE, to[w], Viewed(w, d), root[w], {})
           /\ UNCHANGED <<live, keeps>>
    BY Zenon DEF ViewScheme
  <1>2. /\ seg[w] = "pointer" /\ IsRoot(root[w])
        /\ {at[w], to[w]} \subseteq keeps[at[root[w]][1]]
    BY <1>1, UsedIsKept, Zenon
  <1>3. /\ d \notin {"Block", "BlockSpentOutputs", "ChainstateManager"}
        /\ d = "Transaction" => c = "Block"
        /\ d = "TransactionSpentOutputs" => c = "BlockSpentOutputs"
    BY <1>1, Zenon DEF Getters
  <1>4. to[w] \in Region /\ root[w] \in Wrapper /\ Viewed(w, d) \in Region
    BY Zenon DEF Ordered, TypeOK, Viewed, Region
  <1>5. Viewed(w, d) \in keeps[at[root[w]][1]]
    <2>1. CASE d = "Transaction"
      <3>1. class[w] = "Block"
        BY <1>1, <1>3, <2>1, Zenon
      <3>2. root[w] = w
        BY <3>1 DEF Ordered, MemoryInOrder, OwnersAreRoots
      <3> QED
        BY <1>2, <2>1, <3>1, <3>2, Zenon DEF Ordered, MemoryInOrder, BodiesAreKept, Viewed
    <2>2. CASE d # "Transaction"
      BY <1>2, <2>2 DEF Viewed
    <2> QED BY <2>1, <2>2, Zenon
  <1>6. d = "TransactionSpentOutputs" =>
           to[w][2] = "body" /\ Viewed(w, d)[2] = "body"
    BY <1>1, <1>3, Zenon DEF Ordered, MemoryInOrder, BodiesAreKept, Viewed
  <1>7. /\ live \subseteq live' /\ live' \subseteq Handle
        /\ keeps' \in [Handle -> SUBSET Region]
        /\ \A h \in live : keeps'[h] = keeps[h]
        /\ \A h \in live' : keeps'[h] # {}
    BY <1>1, Zenon DEF Ordered, TypeOK, MemoryInOrder
  <1>8. Becomes(n, d, "pointer", FALSE, to[w], Viewed(w, d), root[w], {})
    BY <1>1, Zenon
  <1>9. {to[w], Viewed(w, d)} \subseteq keeps[at[root[w]][1]]
    BY <1>2, <1>5, Zenon
  <1> QED
    BY <1>2, <1>3, <1>4, <1>6, <1>7, <1>8, <1>9, ViewAdded, Zenon

\* A constructor, a read from disk or a copy.
LEMMA OwnerOrdered ==
    ASSUME Ordered, TypeOK', OwnerScheme
    PROVE  MemoryInOrder'
  <1>1. PICK n \in Wrapper, h \in Handle, c \in AllClasses,
             regions \in SUBSET Region, b \in Region, ar \in SUBSET Thread :
           /\ Furnished(c, h, regions, b)
           /\ c \notin {"Chain", "BlockTreeEntry"}
           /\ \E xs \in SUBSET Wrapper : Uses(xs)
           /\ Fresh(h)
           /\ Allocate(h, regions)
           /\ Becomes(n, c, "pointer", TRUE, <<h, "cell">>, b, n, ar)
    BY Zenon DEF OwnerScheme
  <1>2. /\ c # "TransactionSpentOutputs"
        /\ {<<h, "cell">>, b} \subseteq regions
        /\ c = "Block" => <<b[1], "tx">> \in regions
        /\ c = "BlockSpentOutputs" => b[2] = "body"
    BY <1>1 DEF Furnished
  <1> QED BY <1>1, <1>2, OwnerAdded, Zenon

\* TransactionSpentOutputs.copy(), for a client that takes the result for a
\* view: the copy in native memory is lost, but nothing dangles.
LEMMA CopyOrdered ==
    ASSUME "TransactionSpentOutputs" \in AliasedCopies, Ordered, TypeOK',
           ~fault', CopyScheme
    PROVE  MemoryInOrder'
  <1>1. PICK w \in Wrapper, n \in Wrapper, h \in Handle :
           TransactionSpentOutputs_copy(w, n, h)
    BY DEF CopyScheme
  <1>2. /\ Calls(w, "TransactionSpentOutputs", "none")
        /\ Backed(w)
        /\ Fresh(h)
        /\ Allocate(h, {<<h, "cell">>})
    BY <1>1, Zenon DEF TransactionSpentOutputs_copy
  <1>0. PICK o \in BOOLEAN, c \in {"TransactionSpentOutputs"} :
           Becomes(n, c, "pointer", o, at[w], to[w], root[w], {})
    BY <1>1, Zenon DEF TransactionSpentOutputs_copy
  <1>11. /\ c \notin {"Block", "BlockSpentOutputs", "ChainstateManager"}
         /\ o => c = "TransactionSpentOutputs"
    OBVIOUS
  <1>3. class[w] = "TransactionSpentOutputs" /\ seg[w] = "pointer"
    BY <1>2 DEF Calls, Backed
  <1>4. seg[root[w]] # "NULL"
    BY <1>2, <1>3 DEF Calls
  <1>5. IsRoot(root[w])
    BY <1>3, <1>4, Zenon DEF Ordered, MemoryInOrder, ViewsAreKept, TypeOK, IsRoot
  <1>6. {at[w], to[w]} \subseteq keeps[at[root[w]][1]]
    BY <1>3, <1>5, Zenon DEF Ordered, MemoryInOrder, ViewsAreKept, IsRoot
  <1>7. at[w] \in Region /\ to[w] \in Region /\ root[w] \in Wrapper
    BY Zenon DEF Ordered, TypeOK
  <1>8. at[w][2] = "body" /\ to[w][2] = "body"
    BY <1>3, Zenon DEF Ordered, MemoryInOrder, BodiesAreKept
  <1>9. h \notin live
    BY <1>2 DEF Fresh, Ordered, MemoryInOrder
  <1>10. /\ live \subseteq live' /\ live' \subseteq Handle
         /\ keeps' \in [Handle -> SUBSET Region]
         /\ \A g \in live : keeps'[g] = keeps[g]
         /\ \A g \in live' : keeps'[g] # {}
    BY <1>2, <1>9, Zenon DEF Allocate, Ordered, TypeOK, MemoryInOrder
  <1> QED
    BY <1>0, <1>5, <1>6, <1>7, <1>8, <1>10, <1>11, ViewAdded, Zenon

\* close(): an owner takes its handle with it and nothing else, because no
\* other open root has the handle; what is not an owner destroys nothing.
LEMMA CloseOrdered ==
    ASSUME Ordered, OwnersInv, TypeOK', ~fault', CloseScheme
    PROVE  MemoryInOrder'
  <1>0. TypeOK
    BY DEF Ordered
  <1>c. PICK t \in Thread, w \in Wrapper, c \in AllClasses, destroys \in BOOLEAN :
           HasClosed(t, w, c, destroys)
    BY <1>0, ClosesFacts
  <1>1. /\ class[w] = c
        /\ destroys => seg[w] # "NULL"
        /\ c \notin {"Block", "BlockHash", "ChainstateManager",
                     "TransactionSpentOutputs"}
             => (destroys => owns[w])
        /\ ~fault /\ fault' = (destroys /\ BadDestroy(w))
        /\ <<c, owns[w]>> \in Closes
        /\ live' = IF destroys /\ seg[w] = "pointer"
                   THEN {h \in live : at[w] # <<h, "cell">>} ELSE live
        /\ destroys /\ c # "TransactionSpentOutputs" => seg'[w] = "NULL"
        /\ ~destroys \/ c = "TransactionSpentOutputs" => seg' = seg
        /\ \A v \in Wrapper \ {w} :
              seg'[v] = seg[v] /\ arena'[v] = arena[v]
        /\ arena'[w] = arena[w] \ {t}
        /\ UNCHANGED <<class, owns, at, to, root, keeps>>
    BY <1>c, Zenon DEF HasClosed
  <1>2. /\ OwnersInvOf(w) /\ BodiesOf(w)
    BY <1>1, OwnersInvByObject, Zenon
  <1>3. CASE destroys /\ seg[w] = "pointer"
    <2>1. \E h \in live : at[w] = <<h, "cell">>
      BY <1>1, <1>3, Zenon DEF BadDestroy
    <2>2. at[w] = <<at[w][1], "cell">> /\ at[w][1] \in live /\ at[w][2] = "cell"
      BY <2>1
    <2>3. c # "TransactionSpentOutputs" /\ owns[w]
      BY <1>1, <1>2, <1>3, <2>2, Zenon DEF OwnersInvOf, BodiesOf
    <2>4. IsRoot(w)
      BY <1>1, <1>3, <2>3, NoneIsNoClass, Zenon
        DEF Ordered, MemoryInOrder, OwnersAreRoots, IsRoot
    <2>5. live' = live \ {at[w][1]}
      <3>1. live' = {h \in live : at[w] # <<h, "cell">>}
        BY <1>1, <1>3, Zenon
      <3> QED BY <2>2, <3>1
    <2>6. seg'[w] = "NULL"
      BY <1>1, <1>3, <2>3, Zenon
    <2>7. RootsOwn'
      <3>1. \A v \in Wrapper : IsRoot(v)' => v # w
        BY <2>6 DEF IsRoot
      <3>2. \A v \in Wrapper : IsRoot(v)' =>
               IsRoot(v) /\ at'[v] = at[v] /\ owns'[v] = owns[v]
        <4>1. /\ \A v \in Wrapper \ {w} : seg'[v] = seg[v]
              /\ at' = at /\ owns' = owns /\ root' = root
          BY <1>1, Zenon
        <4> QED BY <3>1, <4>1, Zenon DEF IsRoot
      <3>3. \A v \in Wrapper : IsRoot(v) /\ v # w => at[v][1] # at[w][1]
        BY <2>4, Zenon DEF Ordered, MemoryInOrder, RootsOwn
      <3> QED BY <2>5, <3>1, <3>2, <3>3, RootsStay, Zenon
    <2>8. Created' /\ OwnersAreRoots'
      BY <1>1, <2>6, Zenon DEF Ordered, MemoryInOrder, Created, OwnersAreRoots
    <2>9. BodiesAreKept'
      BY <1>1, <2>6, Zenon DEF Ordered, MemoryInOrder, BodiesAreKept
    <2>10. ViewsAreKept'
      BY <1>1, <2>6, Zenon DEF Ordered, TypeOK, MemoryInOrder, ViewsAreKept
    <2>11. \A g \in live' : keeps'[g] # {}
      BY <1>1, <2>5, Zenon DEF Ordered, MemoryInOrder
    <2> QED
      BY <2>7, <2>8, <2>9, <2>10, <2>11, Zenon DEF MemoryInOrder
  <1>4. CASE seg' = seg /\ ~(destroys /\ seg[w] = "pointer")
    <2>1. UNCHANGED <<class, seg, owns, at, to, root, live, keeps>>
      BY <1>1, <1>4, Zenon
    <2> QED BY <2>1, UntouchedOrdered
  <1>5. CASE destroys /\ seg[w] # "pointer" /\ seg'[w] = "NULL"
    <2>1. live' = live
      BY <1>1, <1>5, Zenon
    <2>2. RootsOwn'
      <3>1. \A v \in Wrapper : IsRoot(v)' =>
               IsRoot(v) /\ at'[v] = at[v] /\ owns'[v] = owns[v]
        BY <1>1, <1>5, Zenon DEF IsRoot
      <3> QED BY <2>1, <3>1, RootsStay, Zenon
    <2>3. Created' /\ OwnersAreRoots'
      BY <1>1, <1>5, Zenon DEF Ordered, MemoryInOrder, Created, OwnersAreRoots
    <2>4. BodiesAreKept'
      BY <1>1, <1>5, Zenon DEF Ordered, MemoryInOrder, BodiesAreKept
    <2>5. ViewsAreKept'
      BY <1>1, <1>5, Zenon DEF Ordered, TypeOK, MemoryInOrder, ViewsAreKept
    <2>6. \A g \in live' : keeps'[g] # {}
      BY <1>1, <2>1, Zenon DEF Ordered, MemoryInOrder
    <2> QED
      BY <2>2, <2>3, <2>4, <2>5, <2>6 DEF MemoryInOrder
  <1> QED BY <1>1, <1>3, <1>4, <1>5, Zenon

\* A fault is for good.
LEMMA FaultStays ==
    ASSUME Base, [Next]_vars, fault
    PROVE  fault'
  <1>1. Scheme
    BY EveryStepFollows
  <1>2. ~ReadScheme /\ ~ViewScheme /\ ~OwnerScheme /\ ~HollowScheme
    BY Zenon DEF ReadScheme, ViewScheme, OwnerScheme, HollowScheme, Uses
  <1>3. ~CloseScheme /\ ~CopyScheme
    BY Zenon DEF CloseScheme, ClosesWith, CopyScheme, TransactionSpentOutputs_copy,
           Calls
  <1> QED BY <1>1, <1>2, <1>3, Zenon DEF Scheme, vars

\* A step without a fault.
LEMMA OrderedStep ==
    ASSUME "TransactionSpentOutputs" \in AliasedCopies,
           Base, MemoryInOrder, [Next]_vars, ~fault'
    PROVE  MemoryInOrder'
  <1>1. Ordered /\ OwnersInv /\ TypeOK'
    BY BaseStep DEF Ordered, Base
  <1>2. Scheme
    BY EveryStepFollows
  <1>3. CASE ReadScheme
    BY <1>1, <1>3, UntouchedOrdered DEF ReadScheme
  <1>4. CASE UNCHANGED vars
    BY <1>1, <1>4, UntouchedOrdered DEF vars
  <1>5. CASE HollowScheme
    BY <1>1, <1>5, HollowAdded DEF HollowScheme
  <1>6. CASE ViewScheme
    BY <1>1, <1>6, ViewOrdered
  <1>7. CASE OwnerScheme
    BY <1>1, <1>7, OwnerOrdered
  <1>8. CASE CloseScheme
    BY <1>1, <1>8, CloseOrdered
  <1>9. CASE CopyScheme
    BY <1>1, <1>9, CopyOrdered
  <1> QED
    BY <1>2, <1>3, <1>4, <1>5, <1>6, <1>7, <1>8, <1>9, Zenon DEF Scheme

\* Initially.
LEMMA OrderedInit == Init => MemoryInOrder
  <1> SUFFICES ASSUME Init PROVE MemoryInOrder
    OBVIOUS
  <1>1. live = {} /\ \A w \in Wrapper : seg[w] = "NULL" /\ class[w] = "none"
    BY DEF Init
  <1>2. Created /\ RootsOwn
    BY ONLY <1>1, Zenon DEF Created, RootsOwn, IsRoot
  <1>3. ViewsAreKept /\ OwnersAreRoots
    BY ONLY <1>1, Zenon DEF ViewsAreKept, OwnersAreRoots
  <1>4. BodiesAreKept
    BY ONLY <1>1, Zenon DEF BodiesAreKept
  <1> QED
    BY <1>1, <1>2, <1>3, <1>4, Zenon DEF MemoryInOrder

\* A client that takes the copy of a TransactionSpentOutputs for the view it
\* is may close anything in any order, use closed objects and feed the
\* constructors anything: up to the first call that gives native code memory
\* that is not there, every open object owns or depends on a live handle.
THEOREM OrderUntilFault ==
    ASSUME "TransactionSpentOutputs" \in AliasedCopies
    PROVE  Spec => []InOrderUntilFault
  <1>1. Init => InOrderUntilFault
    BY OrderedInit DEF InOrderUntilFault
  <1>2. TypeOK /\ OwnersInv /\ InOrderUntilFault /\ [Next]_vars
           => InOrderUntilFault'
    <2> SUFFICES ASSUME TypeOK, OwnersInv, InOrderUntilFault, [Next]_vars, ~fault'
                 PROVE  MemoryInOrder'
      BY DEF InOrderUntilFault
    <2>1. Base
      BY DEF Base
    <2>2. ~fault
      BY <2>1, FaultStays
    <2> QED BY <2>1, <2>2, OrderedStep DEF InOrderUntilFault
  <1> QED BY <1>1, <1>2, OwnersAreInvariant, PTL DEF Spec

\* For the same client: an object whose root stays open keeps its memory
\* through every close of another object, the faulty ones included.
THEOREM ClosingIsLocal ==
    ASSUME "TransactionSpentOutputs" \in AliasedCopies
    PROVE  Spec => CloseIsLocal
  <1> DEFINE Local == \A w \in Wrapper :
                        /\ Backed(w)
                        /\ seg'[w] = "pointer"
                        /\ seg[root[w]] = "pointer"
                        /\ seg'[root[w]] = "pointer"
                        => Backed(w)'
  <1>1. (TypeOK /\ OwnersInv /\ InOrderUntilFault)'
          /\ TypeOK /\ OwnersInv /\ InOrderUntilFault /\ [Next]_vars
          => [Local]_vars
    <2> SUFFICES ASSUME TypeOK', OwnersInv', InOrderUntilFault',
                        TypeOK, OwnersInv, InOrderUntilFault,
                        [Next]_vars, NEW w \in Wrapper, Backed(w),
                        seg'[w] = "pointer", seg[root[w]] = "pointer",
                        seg'[root[w]] = "pointer"
                 PROVE  Backed(w)'
      OBVIOUS
    <2>1. Base /\ seg[w] = "pointer" /\ class[w] # "none"
      BY Zenon DEF Base, Backed, OwnersInv
    <2>2. CASE Adds
      BY <2>1, <2>2, Zenon DEF Adds, Backed, Alive
    <2>3. CASE CloseScheme /\ fault'
      <3>0. PICK t \in Thread, v \in Wrapper, c \in AllClasses, destroys \in BOOLEAN :
               HasClosed(t, v, c, destroys)
        BY <2>3, ClosesFacts, Zenon
      <3>1. /\ fault' = (destroys /\ BadDestroy(v))
            /\ live' = IF destroys /\ seg[v] = "pointer"
                       THEN {h \in live : at[v] # <<h, "cell">>} ELSE live
            /\ UNCHANGED <<class, owns, at, to, root, keeps>>
        BY <3>0, Zenon DEF HasClosed
      <3>2. live' = live
        BY <2>3, <3>1, Zenon DEF BadDestroy
      <3> QED BY <3>1, <3>2, Zenon DEF Backed, Alive
    <2>4. CASE CloseScheme /\ ~fault'
      <3>0. PICK t \in Thread, v \in Wrapper, c \in AllClasses, destroys \in BOOLEAN :
               HasClosed(t, v, c, destroys)
        BY <2>4, ClosesFacts, Zenon
      <3>1. root'[w] = root[w]
        BY <3>0, Zenon DEF HasClosed
      <3>2. MemoryInOrder'
        BY <2>4, Zenon DEF InOrderUntilFault
      <3>3. root'[w] \in Wrapper /\ IsRoot(root[w])'
        BY <3>1, <3>2, Zenon DEF MemoryInOrder, ViewsAreKept, IsRoot, TypeOK
      <3>4. at'[root'[w]][1] \in live'
        BY <3>1, <3>2, <3>3, Zenon DEF MemoryInOrder, RootsOwn
      <3>5. {at'[w], to'[w]} \subseteq keeps'[at'[root'[w]][1]]
        BY <3>1, <3>2, Zenon DEF MemoryInOrder, ViewsAreKept
      <3> QED BY <3>4, <3>5, Zenon DEF Backed, Alive
    <2> QED BY <2>1, <2>2, <2>3, <2>4, AddsOrCloses, Zenon
  <1> QED
    BY <1>1, OwnersAreInvariant, OrderUntilFault, PTL DEF Spec, CloseIsLocal

----------------------------------------------------------------------------
(* A sound client. *)

\* A method called by a sound client has live memory to work on.
LEMMA CalledIsBacked ==
    ASSUME SoundClient, Ordered, OnlyBlocksHollow, NEW w \in Wrapper, Called(w)
    PROVE  Backed(w)
  <1>1. seg[w] = "pointer" /\ seg[root[w]] # "NULL"
    BY DEF Called, Guarded, Calls, Rejects, SoundClient, OnlyBlocksHollow,
           Ordered, TypeOK, Check
  <1>2. IsRoot(root[w])
    BY <1>1, Zenon DEF Ordered, MemoryInOrder, ViewsAreKept, TypeOK, IsRoot
  <1>3. {at[w], to[w]} \subseteq keeps[at[root[w]][1]]
    BY <1>1, <1>2, Zenon DEF Ordered, MemoryInOrder, ViewsAreKept, IsRoot
  <1>4. root[w] \in Wrapper /\ at[root[w]][1] \in live
    BY <1>2, Zenon DEF Ordered, MemoryInOrder, RootsOwn, TypeOK
  <1> QED
    BY <1>1, <1>3, <1>4, Zenon DEF Backed, Alive

\* Nor does it destroy what is not a live handle.
LEMMA SoundCloses ==
    ASSUME SoundClient, Ordered, OnlyBlocksHollow, CloseScheme
    PROVE  fault' = FALSE
  <1>0. PICK t \in Thread, w \in Wrapper, c \in AllClasses, destroys \in BOOLEAN :
           HasClosed(t, w, c, destroys)
    BY ClosesFacts DEF Ordered
  <1>1. /\ class[w] = c
        /\ c \notin {"Block", "BlockHash", "ChainstateManager",
                     "TransactionSpentOutputs"}
             => (destroys => owns[w])
        /\ fault' = (destroys /\ BadDestroy(w))
        /\ <<c, owns[w]>> \in Closes
    BY <1>0, Zenon DEF HasClosed
  <1>2. CASE ~destroys
    BY <1>1, <1>2
  <1>3. CASE destroys
    <2>1. c # "TransactionSpentOutputs" /\ owns[w] \in BOOLEAN
      BY <1>1 DEF SoundClient, Ordered, TypeOK
    <2>2. owns[w]
      <3>1. CASE c = "BlockHash"
        BY <1>1, <2>1, <3>1, Zenon DEF SoundClient
      <3>2. CASE c # "BlockHash"
        BY <1>1, <1>3, <2>1, <3>2, NoneIsNoClass, Zenon
           DEF Ordered, MemoryInOrder, OwnersAreRoots
      <3> QED BY <3>1, <3>2
    <2>3. root[w] = w
      BY <1>1, <2>1, <2>2, NoneIsNoClass, Zenon
         DEF Ordered, MemoryInOrder, OwnersAreRoots
    <2>4. seg[w] = "pointer" =>
             at[w] = <<at[w][1], "cell">> /\ at[w][1] \in live
      <3>1. seg[w] = "pointer" => at[w][1] \in live /\ at[w][2] = "cell"
        BY <2>3, Zenon DEF Ordered, MemoryInOrder, RootsOwn, IsRoot
      <3>2. at[w] \in Region
        BY DEF Ordered, TypeOK
      <3> QED BY <3>1, <3>2 DEF Region
    <2>5. seg[w] = "zero" => class[w] # "ChainstateManager"
      BY Zenon DEF OnlyBlocksHollow
    <2>6. ~BadDestroy(w)
      BY <2>4, <2>5 DEF BadDestroy
    <2> QED BY <1>1, <1>3, <2>6, Zenon
  <1> QED BY <1>2, <1>3, Zenon

\* So no step of it is a fault.
LEMMA SoundStepHasNoFault ==
    ASSUME SoundClient, Base, OwnershipInv, [Next]_vars
    PROVE  ~fault'
  <1>1. Ordered /\ OnlyBlocksHollow /\ ~fault
    BY DEF Ordered, OwnershipInv, Base
  <1>2. ASSUME NEW xs \in SUBSET Wrapper, Uses(xs) PROVE ~fault'
    BY <1>1, <1>2, CalledIsBacked DEF Uses
  <1>3. Scheme
    BY EveryStepFollows
  <1>4. CASE ReadScheme \/ ViewScheme \/ OwnerScheme \/ HollowScheme
    BY <1>2, <1>4, Zenon DEF ReadScheme, ViewScheme, OwnerScheme, HollowScheme
  <1>5. CASE CloseScheme
    BY <1>1, <1>5, SoundCloses
  <1>6. CASE CopyScheme
    <2>1. PICK w \in Wrapper, n \in Wrapper, h \in Handle :
             TransactionSpentOutputs_copy(w, n, h)
      BY <1>6 DEF CopyScheme
    <2>2. /\ Calls(w, "TransactionSpentOutputs", "none")
          /\ fault' = ~Backed(w)
      BY <2>1, Zenon DEF TransactionSpentOutputs_copy
    <2>3. Called(w)
      BY <2>2, CallsIsCalled DEF Guarded, Check, AllClasses
    <2> QED BY <1>1, <2>2, <2>3, CalledIsBacked, Zenon
  <1>7. CASE UNCHANGED vars
    BY <1>1, <1>7 DEF vars
  <1> QED BY <1>3, <1>4, <1>5, <1>6, <1>7 DEF Scheme

\* A sound client is given no other hollow object than a block.
LEMMA SoundStepIsNotHollow ==
    ASSUME SoundClient, Base, OnlyBlocksHollow, [Next]_vars
    PROVE  OnlyBlocksHollow'
  <1>1. Scheme /\ TypeOK
    BY EveryStepFollows DEF Base
  <1>2. CASE CloseScheme
    <2>0. PICK t \in Thread, w \in Wrapper, c \in AllClasses, destroys \in BOOLEAN :
             HasClosed(t, w, c, destroys)
      BY <1>1, <1>2, ClosesFacts
    <2>1. /\ destroys /\ c # "TransactionSpentOutputs" => seg'[w] = "NULL"
          /\ ~destroys \/ c = "TransactionSpentOutputs" => seg' = seg
          /\ \A v \in Wrapper \ {w} : seg'[v] = seg[v]
          /\ UNCHANGED class
      BY <2>0, Zenon DEF HasClosed
    <2> QED BY <2>1 DEF OnlyBlocksHollow
  <1>3. CASE HollowScheme
    <2>1. PICK n \in Wrapper, ar \in SUBSET Thread : Hollow(n, "Block", ar)
      BY <1>3 DEF HollowScheme, SoundClient
    <2>2. PICK o : Becomes(n, "Block", "zero", o, NoRegion, NoRegion, n, ar)
      BY <2>1, Zenon DEF Hollow
    <2>3. IsNew(n, "Block", "zero", o, NoRegion, NoRegion, n, ar)
      BY <1>1, <2>2, BecomesFacts
    <2> QED BY <2>3, Zenon DEF IsNew, OnlyBlocksHollow
  <1>4. ASSUME NEW n \in Wrapper, NEW c, NEW o, NEW a, NEW b, NEW r, NEW ar,
               Becomes(n, c, "pointer", o, a, b, r, ar)
        PROVE  OnlyBlocksHollow'
    <2>1. IsNew(n, c, "pointer", o, a, b, r, ar)
      BY <1>1, <1>4, BecomesFacts
    <2> QED BY <2>1, Zenon DEF IsNew, OnlyBlocksHollow
  <1>5. CASE ViewScheme
    BY <1>4, <1>5, Zenon DEF ViewScheme
  <1>6. CASE OwnerScheme
    BY <1>4, <1>6, Zenon DEF OwnerScheme
  <1>7. CASE CopyScheme
    BY <1>4, <1>7, Zenon DEF CopyScheme, TransactionSpentOutputs_copy
  <1>8. CASE ReadScheme \/ UNCHANGED vars
    BY <1>8 DEF ReadScheme, vars, OnlyBlocksHollow
  <1> QED BY <1>1, <1>2, <1>3, <1>5, <1>6, <1>7, <1>8 DEF Scheme

\* OwnershipInv holds of every state of a program whose client is sound.
THEOREM OwnershipIsInvariant ==
    ASSUME SoundClient
    PROVE  Spec => []OwnershipInv
  <1>1. Init => OwnershipInv
    BY OrderedInit DEF Init, OwnershipInv, OnlyBlocksHollow
  <1>2. TypeOK /\ OwnersInv /\ OwnershipInv /\ [Next]_vars => OwnershipInv'
    <2> SUFFICES ASSUME TypeOK, OwnersInv, OwnershipInv, [Next]_vars
                 PROVE  OwnershipInv'
      OBVIOUS
    <2>1. Base /\ "TransactionSpentOutputs" \in AliasedCopies
      BY DEF Base, SoundClient
    <2>2. ~fault'
      BY <2>1, SoundStepHasNoFault
    <2>3. MemoryInOrder'
      BY <2>1, <2>2, OrderedStep DEF OwnershipInv
    <2>4. OnlyBlocksHollow'
      BY <2>1, SoundStepIsNotHollow DEF OwnershipInv
    <2> QED BY <2>2, <2>3, <2>4 DEF OwnershipInv
  <1> QED BY <1>1, <1>2, OwnersAreInvariant, PTL DEF Spec

\* Memory safety: no method called by a sound client, on any thread and in
\* any order, gives native code memory that is not there.
THEOREM MemorySafety ==
    ASSUME SoundClient
    PROVE  Spec => []MemorySafe
  <1>1. OwnershipInv => MemorySafe
    BY DEF OwnershipInv, MemorySafe
  <1> QED BY <1>1, OwnershipIsInvariant, PTL
=============================================================================
