--------------------------- MODULE ContextProofs ---------------------------
(* Proofs about the specification in Context, for any sets of objects. *)
EXTENDS Context, FiniteSetTheorems, TLAPS

CountInv == TypeOK /\ RefsExact /\ SharersKnown

----------------------------------------------------------------------------
(* Counting the holders *)

\* The holders of a context can be counted.
LEMMA HoldersFinite ==
    ASSUME NEW x \in Ctx
    PROVE  /\ IsFiniteSet(Holders(x))
           /\ Cardinality(Holders(x)) \in Nat
<1>1. Holders(x) \in SUBSET Native
  BY DEF Holders, Native, Derived
<1>2. IsFiniteSet(Holders(x))
  BY <1>1, FiniteAssumption, FS_Subset
<1> QED
  BY <1>2, FS_CardinalityType

\* A step that moves no share.
LEMMA CountKept ==
    ASSUME CountInv, ~fault, UNCHANGED refs,
           \A y \in Ctx : Holders(y)' = Holders(y)
    PROVE  RefsExact'
  BY DEF CountInv, RefsExact

\* A step in which d takes a share of x.
LEMMA CountUp ==
    ASSUME CountInv, ~fault, NEW x \in Ctx, NEW d, Shares(x),
           d \notin Holders(x),
           Holders(x)' = Holders(x) \cup {d},
           \A y \in Ctx \ {x} : Holders(y)' = Holders(y)
    PROVE  RefsExact' /\ refs' \in [Ctx -> Nat]
<1>1. refs \in [Ctx -> Nat] /\ \A y \in Ctx : refs[y] = Cardinality(Holders(y))
  BY DEF CountInv, TypeOK, RefsExact
<1>2. refs' \in [Ctx -> Nat]
  BY <1>1 DEF Shares
<1>3. Cardinality(Holders(x) \cup {d}) = Cardinality(Holders(x)) + 1
  BY HoldersFinite, FS_AddElement, Zenon
<1>4. refs'[x] = Cardinality(Holders(x)')
  BY <1>1, <1>3 DEF Shares
<1>5. \A y \in Ctx \ {x} : refs'[y] = Cardinality(Holders(y)')
  BY <1>1 DEF Shares
<1> QED
  BY <1>2, <1>4, <1>5 DEF RefsExact

\* A step in which d gives up its share of x.
LEMMA CountDown ==
    ASSUME CountInv, ~fault, NEW x \in Ctx, NEW d, Releases(x),
           d \in Holders(x),
           Holders(x)' = Holders(x) \ {d},
           \A y \in Ctx \ {x} : Holders(y)' = Holders(y)
    PROVE  RefsExact' /\ refs' \in [Ctx -> Nat]
<1>1. refs \in [Ctx -> Nat] /\ \A y \in Ctx : refs[y] = Cardinality(Holders(y))
  BY DEF CountInv, TypeOK, RefsExact
<1>2. /\ IsFiniteSet(Holders(x) \ {d})
      /\ Cardinality(Holders(x) \ {d}) = Cardinality(Holders(x)) - 1
  BY HoldersFinite, FS_RemoveElement
<1>3. Cardinality(Holders(x) \ {d}) \in Nat
  BY <1>2, FS_CardinalityType
<1>4. refs[x] - 1 \in Nat
  BY <1>1, <1>2, <1>3
<1>5. refs' \in [Ctx -> Nat]
  BY <1>1, <1>4 DEF Releases
<1>6. refs'[x] = Cardinality(Holders(x)')
  BY <1>1, <1>2 DEF Releases
<1>7. \A y \in Ctx \ {x} : refs'[y] = Cardinality(Holders(y)')
  BY <1>1 DEF Releases
<1> QED
  BY <1>5, <1>6, <1>7 DEF RefsExact

\* What an object that takes or loses the pointer does to the holders.
LEMMA HolderAdded ==
    ASSUME TypeOK, NEW x \in Ctx, NEW d \in Ctx \cup Derived,
           inner[d] # "pointer", Becomes(d, "pointer"),
           d \in Ctx => d = x /\ UNCHANGED of,
           d \in Derived => of' = [of EXCEPT ![d] = x]
    PROVE  /\ d \notin Holders(x)
           /\ Holders(x)' = Holders(x) \cup {d}
           /\ \A y \in Ctx \ {x} : Holders(y)' = Holders(y)
  BY ObjectsAssumption DEF TypeOK, Becomes, Holders, Native, Derived

\* Closing a holder (close() of a context, options or manager) takes it and
\* nothing else from the holders of its context.
LEMMA HolderRemoved ==
    ASSUME TypeOK, NEW x \in Ctx, NEW d \in Ctx \cup Derived,
           inner[d] = "pointer", Becomes(d, "NULL"), UNCHANGED of,
           d \in Ctx => d = x,
           d \in Derived => of[d] = x
    PROVE  /\ d \in Holders(x)
           /\ Holders(x)' = Holders(x) \ {d}
           /\ \A y \in Ctx \ {x} : Holders(y)' = Holders(y)
  BY ObjectsAssumption DEF TypeOK, Becomes, Holders, Native, Derived

\* Steps on objects that hold nothing leave all holders alone.
LEMMA HoldersKept ==
    ASSUME TypeOK, UNCHANGED of,
           \/ UNCHANGED inner
           \/ \E d \in Native, seg \in {"none", "NULL", "zero", "pointer"} :
                 /\ Becomes(d, seg)
                 /\ d \in Options \/ (inner[d] # "pointer" /\ seg # "pointer")
    PROVE  \A y \in Ctx : Holders(y)' = Holders(y)
  BY ObjectsAssumption DEF TypeOK, Becomes, Holders, Native, Derived

----------------------------------------------------------------------------
(* Every step keeps the count *)

\* Every step keeps the count of every context exact.
LEMMA CountStep ==
    ASSUME CountInv, [Next]_vars
    PROVE  CountInv'
<1> USE DEF CountInv
<1>1. ASSUME NEW m \in Manager, Manager_new(m) \/ Manager_close(m)
      PROVE  CountInv'
  <2>1. TypeOK'
    BY <1>1 DEF TypeOK, Manager_new, Manager_close, nativeVars
  <2>2. RefsExact'
    BY <1>1, HoldersKept, CountKept DEF Manager_new, Manager_close, nativeVars
  <2> QED
    BY <1>1, <2>1, <2>2 DEF SharersKnown, Manager_new, Manager_close, nativeVars
<1>2. ASSUME NEW o \in Options, ContextOptions_new(o) \/ ContextOptions_close(o)
      PROVE  CountInv'
  <2>1. TypeOK'
    BY <1>2 DEF TypeOK, ContextOptions_new, ContextOptions_close, Becomes,
                Native, nativeVars
  <2>2. /\ o \in Native /\ ~fault /\ UNCHANGED <<of, refs, fault>>
        /\ Becomes(o, "pointer") \/ Becomes(o, "NULL")
    BY <1>2 DEF ContextOptions_new, ContextOptions_close, Native, nativeVars
  <2>3. RefsExact'
    BY <2>2, HoldersKept, CountKept
  <2> QED
    BY <2>1, <2>2, <2>3, ObjectsAssumption
    DEF TypeOK, SharersKnown, Becomes, Native, Derived
<1>3. ASSUME NEW o \in Options, NEW s \in Slot, NEW m \in Manager,
             ContextOptions_set(o, s, m)
      PROVE  CountInv'
  <2>1. TypeOK'
    BY <1>3 DEF TypeOK, ContextOptions_set, javaVars
  <2>2. RefsExact'
    BY <1>3, HoldersKept, CountKept DEF ContextOptions_set, javaVars
  <2> QED
    BY <1>3, <2>1, <2>2 DEF SharersKnown, ContextOptions_set, javaVars
<1>4. ASSUME NEW x \in Ctx, NEW o \in Options \cup {Nil}, Context_new(x, o)
      PROVE  CountInv'
  <2>1. ~fault /\ x \in Native /\ inner[x] = "none" /\ UNCHANGED <<of, fault>>
    BY <1>4 DEF Context_new, Native
  <2>2. CASE Becomes(x, "pointer") /\ Shares(x)
    <3>1. RefsExact' /\ refs' \in [Ctx -> Nat]
      BY <2>1, <2>2, HolderAdded, CountUp, ObjectsAssumption
    <3>2. NoCallbacks \in [Slot -> Manager \cup {Nil}]
      BY DEF NoCallbacks
    <3>3. callbacks' \in [Options \cup Ctx -> [Slot -> Manager \cup {Nil}]]
      BY <1>4, <3>2, Zenon DEF TypeOK, Context_new
    <3>4. TypeOK'
      BY <1>4, <2>2, <3>1, <3>3 DEF TypeOK, Context_new, Becomes, Native
    <3> QED
      BY <2>1, <2>2, <3>1, <3>4, ObjectsAssumption
      DEF TypeOK, SharersKnown, Becomes, Native, Derived
  <2>3. CASE Becomes(x, "zero") /\ UNCHANGED <<callbacks, refs>>
    <3>1. RefsExact'
      BY <2>1, <2>3, HoldersKept, CountKept
    <3>2. TypeOK'
      BY <1>4, <2>3 DEF TypeOK, Context_new, Becomes, Native
    <3> QED
      BY <2>1, <2>3, <3>1, <3>2, ObjectsAssumption
      DEF TypeOK, SharersKnown, Becomes, Native, Derived
  <2> QED
    BY <1>4, <2>2, <2>3 DEF Context_new
<1>5. ASSUME NEW x \in Ctx, Context_interrupt(x)
      PROVE  CountInv'
  <2>1. TypeOK'
    BY <1>5 DEF TypeOK, Context_interrupt, javaVars, nativeVars
  <2>2. RefsExact'
    BY <1>5, HoldersKept, CountKept DEF Context_interrupt, javaVars, nativeVars
  <2> QED
    BY <1>5, <2>1, <2>2 DEF SharersKnown, Context_interrupt, javaVars, nativeVars
<1>6. ASSUME NEW x \in Ctx, Context_close(x)
      PROVE  CountInv'
  <2>1. /\ ~fault /\ x \in Native /\ Becomes(x, "NULL") /\ UNCHANGED <<of, fault>>
        /\ UNCHANGED <<arena, confined, callbacks, busy>>
    BY <1>6 DEF Context_close, Native
  <2>2. RefsExact' /\ refs' \in [Ctx -> Nat]
    <3>1. CASE inner[x] = "pointer"
      BY <1>6, <2>1, <3>1, HolderRemoved, CountDown, ObjectsAssumption
      DEF Context_close
    <3>2. CASE inner[x] # "pointer"
      BY <1>6, <2>1, <3>2, HoldersKept, CountKept DEF Context_close, TypeOK
    <3> QED
      BY <3>1, <3>2
  <2> QED
    BY <2>1, <2>2, ObjectsAssumption
    DEF TypeOK, SharersKnown, Becomes, Native, Derived
<1>7. ASSUME NEW t \in Thread, NEW p \in ChainOpts, NEW x \in Ctx,
             ChainstateManagerOptions_new(t, p, x)
      PROVE  CountInv'
  <2>1. /\ ~fault /\ p \in Native /\ p \in Derived /\ inner[p] = "none"
        /\ UNCHANGED <<arena, callbacks, busy>>
        /\ confined' \in [ChainOpts -> SUBSET Thread]
    BY <1>7 DEF ChainstateManagerOptions_new, Native, Derived, TypeOK
  <2>2. CASE /\ Becomes(p, "pointer") /\ Shares(x)
             /\ fault' = (inner[x] # "pointer" \/ Gone(x))
             /\ of' = [of EXCEPT ![p] = x]
    <3>1. RefsExact' /\ refs' \in [Ctx -> Nat]
      BY <2>1, <2>2, HolderAdded, CountUp, ObjectsAssumption, Zenon DEF Derived
    <3> QED
      BY <2>1, <2>2, <3>1, ObjectsAssumption
      DEF TypeOK, SharersKnown, Becomes, Native, Derived
  <2>3. CASE Becomes(p, "zero") /\ UNCHANGED <<of, refs, fault>>
    <3>1. RefsExact'
      BY <2>1, <2>3, HoldersKept, CountKept
    <3> QED
      BY <2>1, <2>3, <3>1, ObjectsAssumption
      DEF TypeOK, SharersKnown, Becomes, Native, Derived
  <2> QED
    BY <1>7, <2>2, <2>3 DEF ChainstateManagerOptions_new
<1>8. ASSUME NEW p \in ChainOpts, ChainstateManagerOptions_set(p)
      PROVE  CountInv'
  <2>1. TypeOK'
    BY <1>8 DEF TypeOK, ChainstateManagerOptions_set, javaVars, nativeVars
  <2>2. RefsExact'
    BY <1>8, HoldersKept, CountKept
    DEF ChainstateManagerOptions_set, javaVars, nativeVars
  <2> QED
    BY <1>8, <2>1, <2>2
    DEF SharersKnown, ChainstateManagerOptions_set, javaVars, nativeVars
<1>9. ASSUME NEW t \in Thread, NEW p \in ChainOpts,
             ChainstateManagerOptions_close(t, p)
      PROVE  CountInv'
  <2>1. /\ ~fault /\ p \in Native /\ p \in Derived /\ Becomes(p, "NULL")
        /\ UNCHANGED <<arena, callbacks, of, busy, fault>>
        /\ confined' \in [ChainOpts -> SUBSET Thread]
    BY <1>9 DEF ChainstateManagerOptions_close, Native, Derived, TypeOK
  <2>2. RefsExact' /\ refs' \in [Ctx -> Nat]
    <3>1. CASE inner[p] = "pointer"
      <4>1. of[p] \in Ctx /\ Releases(of[p])
        BY <1>9, <2>1, <3>1 DEF SharersKnown, ChainstateManagerOptions_close
      <4> QED
        BY <2>1, <3>1, <4>1, HolderRemoved, CountDown, ObjectsAssumption
        DEF Derived
    <3>2. CASE inner[p] # "pointer"
      BY <1>9, <2>1, <3>2, HoldersKept, CountKept
      DEF ChainstateManagerOptions_close, TypeOK
    <3> QED
      BY <3>1, <3>2
  <2> QED
    BY <2>1, <2>2, ObjectsAssumption
    DEF TypeOK, SharersKnown, Becomes, Native, Derived
<1>10. ASSUME NEW m \in Chainman, NEW p \in ChainOpts,
              ChainstateManager_new(m, p)
       PROVE  CountInv'
  <2>1. /\ ~fault /\ m \in Native /\ m \in Derived /\ p \in Derived
        /\ inner[m] = "none" /\ UNCHANGED <<arena, confined, callbacks, busy>>
    BY <1>10 DEF ChainstateManager_new, Native, Derived
  <2>2. CASE inner[p] # "pointer" \/ Gone(of[p])
    <3>1. fault' = TRUE /\ UNCHANGED <<inner, of, refs>>
      BY <1>10, <2>2 DEF ChainstateManager_new
    <3> QED
      BY <2>1, <3>1 DEF TypeOK, RefsExact, SharersKnown
  <2>3. CASE ~(inner[p] # "pointer" \/ Gone(of[p]))
    <3>1. of[p] \in Ctx
      BY <2>1, <2>3 DEF TypeOK, Gone
    <3>2. fault' \in BOOLEAN
      BY <1>10, <2>3, Zenon DEF ChainstateManager_new, MayNotify, UpcallFails
    <3>3. CASE /\ Becomes(m, "pointer") /\ Shares(of[p])
               /\ of' = [of EXCEPT ![m] = of[p]]
      <4>1. RefsExact' /\ refs' \in [Ctx -> Nat]
        BY <2>1, <3>1, <3>3, HolderAdded, CountUp, ObjectsAssumption, Zenon DEF Derived
      <4> QED
        BY <2>1, <3>1, <3>2, <3>3, <4>1, ObjectsAssumption
        DEF TypeOK, SharersKnown, Becomes, Native, Derived
    <3>4. CASE Becomes(m, "zero") /\ UNCHANGED <<of, refs>>
      <4>1. RefsExact'
        BY <2>1, <3>4, HoldersKept, CountKept
      <4> QED
        BY <2>1, <3>2, <3>4, <4>1, ObjectsAssumption
        DEF TypeOK, SharersKnown, Becomes, Native, Derived
    <3> QED
      BY <1>10, <2>3, <3>3, <3>4 DEF ChainstateManager_new
  <2> QED
    BY <2>2, <2>3
<1>11. ASSUME NEW t \in Thread, NEW m \in Chainman,
              ChainstateManager_begin(t, m)
       PROVE  CountInv'
  <2>1. TypeOK'
    BY <1>11 DEF TypeOK, ChainstateManager_begin, javaVars, nativeVars
  <2>2. RefsExact'
    BY <1>11, HoldersKept, CountKept
    DEF ChainstateManager_begin, javaVars, nativeVars
  <2> QED
    BY <1>11, <2>1, <2>2
    DEF SharersKnown, ChainstateManager_begin, javaVars, nativeVars
<1>12. ASSUME NEW t \in Thread, NEW e \in Events, Notify(t, e)
       PROVE  CountInv'
  <2>1. fault' \in BOOLEAN
    BY <1>12 DEF Notify
  <2>2. TypeOK'
    BY <1>12, <2>1 DEF TypeOK, Notify, javaVars, nativeVars
  <2>3. RefsExact'
    BY <1>12, HoldersKept, CountKept DEF Notify, javaVars, nativeVars
  <2> QED
    BY <1>12, <2>2, <2>3 DEF SharersKnown, Notify, javaVars, nativeVars
<1>13. ASSUME NEW t \in Thread, ChainstateManager_end(t)
       PROVE  CountInv'
  <2>1. TypeOK'
    BY <1>13 DEF TypeOK, ChainstateManager_end, javaVars, nativeVars
  <2>2. RefsExact'
    BY <1>13, HoldersKept, CountKept
    DEF ChainstateManager_end, javaVars, nativeVars
  <2> QED
    BY <1>13, <2>1, <2>2
    DEF SharersKnown, ChainstateManager_end, javaVars, nativeVars
<1>14. ASSUME NEW m \in Chainman, ChainstateManager_close(m)
       PROVE  CountInv'
  <2>1. /\ ~fault /\ m \in Native /\ m \in Derived /\ Becomes(m, "NULL")
        /\ inner[m] \in {"zero", "pointer"}
        /\ UNCHANGED <<arena, confined, callbacks, of, busy>>
    BY <1>14 DEF ChainstateManager_close, Native, Derived
  <2>2. CASE inner[m] = "zero" \/ Gone(of[m])
    <3>1. fault' = TRUE /\ UNCHANGED refs
      BY <1>14, <2>2, Zenon DEF ChainstateManager_close
    <3> QED
      BY <2>1, <3>1 DEF TypeOK, RefsExact, SharersKnown, Becomes
  <2>3. CASE ~(inner[m] = "zero" \/ Gone(of[m]))
    <3>1. of[m] \in Ctx /\ inner[m] = "pointer" /\ Releases(of[m])
      BY <1>14, <2>1, <2>3 DEF TypeOK, Gone, ChainstateManager_close
    <3>2. fault' \in BOOLEAN
      BY <1>14, <2>3, Zenon DEF ChainstateManager_close, MayNotify, UpcallFails
    <3>3. RefsExact' /\ refs' \in [Ctx -> Nat]
      BY <2>1, <3>1, HolderRemoved, CountDown, ObjectsAssumption, Zenon DEF Derived
    <3> QED
      BY <2>1, <3>2, <3>3 DEF TypeOK, SharersKnown, Becomes, Native, Derived
  <2> QED
    BY <2>2, <2>3
<1>15. CASE UNCHANGED vars
  <2>1. \A y \in Ctx : Holders(y)' = Holders(y)
    BY <1>15 DEF vars, javaVars, nativeVars, Holders
  <2> QED
    BY <1>15, <2>1
    DEF vars, javaVars, nativeVars, TypeOK, RefsExact, SharersKnown
<1> QED
  BY <1>1, <1>2, <1>3, <1>4, <1>5, <1>6, <1>7, <1>8, <1>9, <1>10, <1>11,
     <1>12, <1>13, <1>14, <1>15 DEF Next

\* At first nothing is held.
LEMMA CountInit ==
    ASSUME Init
    PROVE  CountInv
<1>1. TypeOK
  BY Zenon DEF Init, TypeOK, NoCallbacks
<1>2. ASSUME NEW x \in Ctx
      PROVE  Holders(x) = {}
  BY DEF Init, Holders, Native, Derived
<1>3. RefsExact
  BY <1>2, FS_EmptySet DEF Init, RefsExact
<1> QED
  BY <1>1, <1>3 DEF Init, CountInv, SharersKnown, Native, Derived

\* The counts stay exact whatever the client does.
LEMMA CountIsInvariant == Spec => []CountInv
<1>1. Init => CountInv
  BY CountInit
<1>2. CountInv /\ [Next]_vars => CountInv'
  BY CountStep
<1> QED
  BY <1>1, <1>2, PTL DEF Spec

\* Every object, count and callback stays in its type, whatever the client
\* does and whatever fails.
THEOREM ContextTypes == Spec => []TypeOK
<1>1. CountInv => TypeOK
  BY DEF CountInv
<1> QED
  BY <1>1, CountIsInvariant, PTL

\* Whatever the client does, fails or closes in whatever order, the use
\* count of every native context is the number of objects that hold it.
THEOREM SharesAreCounted == Spec => []RefsExact
<1>1. CountInv => RefsExact
  BY DEF CountInv
<1> QED
  BY <1>1, CountIsInvariant, PTL

----------------------------------------------------------------------------
(* A client without mistakes *)

\* A context with an open holder exists, so nothing that is open points to a
\* destroyed one.
LEMMA HeldContext ==
    ASSUME CountInv, ~fault
    PROVE  /\ \A x \in Ctx : inner[x] = "pointer" => refs[x] > 0
           /\ \A d \in Derived : inner[d] = "pointer" =>
                 of[d] \in Ctx /\ refs[of[d]] > 0
<1>1. ASSUME NEW x \in Ctx, NEW d \in Holders(x)
      PROVE  refs[x] > 0
  <2>1. Holders(x) # {}
    BY <1>1
  <2>2. Cardinality(Holders(x)) # 0
    BY <2>1, HoldersFinite, FS_EmptySet
  <2> QED
    BY <2>2, HoldersFinite DEF CountInv, RefsExact
<1>2. ASSUME NEW x \in Ctx, inner[x] = "pointer"
      PROVE  refs[x] > 0
  <2>1. x \in Holders(x)
    BY <1>2 DEF Holders
  <2> QED
    BY <1>1, <2>1
<1>3. ASSUME NEW d \in Derived, inner[d] = "pointer"
      PROVE  of[d] \in Ctx /\ refs[of[d]] > 0
  <2>1. of[d] \in Ctx
    BY <1>3 DEF CountInv, SharersKnown
  <2>2. d \in Holders(of[d])
    BY <1>3 DEF Holders
  <2> QED
    BY <1>1, <2>1, <2>2
<1> QED
  BY <1>2, <1>3

\* For a sound client, an event of a context that exists reaches an open stub.
LEMMA UpcallsWork ==
    ASSUME SoundClient, TypeOK, CallableIsOpen,
           NEW x \in Ctx, refs[x] > 0, NEW e \in Events
    PROVE  ~UpcallFails(x, e)
<1>1. SlotOf(e) \in Slot /\ e # "text"
  BY DEF SlotOf, Slot, SoundClient
<1>2. callbacks[x][SlotOf(e)] \in Manager \cup {Nil}
  BY <1>1 DEF TypeOK
<1>3. CASE callbacks[x][SlotOf(e)] # Nil
  <2>1. Callable(callbacks[x][SlotOf(e)])
    BY <1>1 DEF Callable
  <2> QED
    BY <1>1, <1>2, <1>3, <2>1 DEF CallableIsOpen, UpcallFails
<1> QED
  BY <1>3 DEF UpcallFails

\* No stub comes into reach, and no arena is closed.
LEMMA CallableKept ==
    ASSUME CallableIsOpen, UNCHANGED <<arena, callbacks>>,
           \A o \in Options : inner'[o] = "pointer" =>
              inner[o] = "pointer" \/ callbacks[o] = NoCallbacks,
           \A x \in Ctx : refs'[x] > 0 => refs[x] > 0
    PROVE  CallableIsOpen'
<1> SUFFICES ASSUME NEW m \in Manager, Callable(m)'
             PROVE  arena[m] = "open"
  BY DEF CallableIsOpen
<1>1. Nil \notin Manager
  BY ObjectsAssumption
<1>2. Callable(m)
  BY <1>1 DEF Callable, NoCallbacks
<1> QED
  BY <1>2 DEF CallableIsOpen

\* The rest of the sound invariant when no object is closed or fails.
LEMMA BusyKept ==
    ASSUME TypeOK, BusyIsOpen, NothingFailed, UNCHANGED busy,
           NEW d \in Native, inner[d] = "none" \/ d \notin Chainman,
           NEW seg \in {"pointer", "NULL"}, Becomes(d, seg)
    PROVE  BusyIsOpen' /\ NothingFailed'
<1>1. \A t \in Thread : busy[t] # Nil => busy[t] \in Native
  BY DEF TypeOK, Native
<1>2. \A t \in Thread : busy[t] # Nil => busy[t] # d
  BY DEF BusyIsOpen, TypeOK
<1> QED
  BY <1>1, <1>2 DEF TypeOK, BusyIsOpen, NothingFailed, Becomes

\* Every step of a sound client keeps it safe.
LEMMA SoundStep ==
    ASSUME SoundClient, CountInv, CountInv', SoundInv, [Next]_vars
    PROVE  SoundInv'
<1> USE DEF SoundInv, NativeSafe
<1>0. /\ TypeOK
      /\ \A x \in Ctx : inner[x] = "pointer" => refs[x] > 0
      /\ \A d \in Derived : inner[d] = "pointer" =>
            of[d] \in Ctx /\ refs[of[d]] > 0 /\ ~Gone(of[d])
  BY HeldContext, ObjectsAssumption DEF CountInv, Gone, Native
<1>a. \A d : Usable(d) => inner[d] = "pointer"
  BY DEF Usable, SoundClient
<1>b. ASSUME NEW x \in Ctx, inner[x] = "pointer"
      PROVE  refs[x] > 0 /\ ~Gone(x)
  <2>1. refs[x] > 0 /\ refs[x] \in Nat
    BY <1>0, <1>b DEF TypeOK
  <2>2. x # Nil
    BY ObjectsAssumption DEF Native
  <2> QED
    BY <2>1, <2>2 DEF Gone
<1>1. ASSUME NEW m \in Manager, Manager_new(m) \/ Manager_close(m)
      PROVE  SoundInv'
  <2>1. /\ ~fault' /\ UNCHANGED <<inner, callbacks, refs, busy>>
    BY <1>1 DEF Manager_new, Manager_close, nativeVars
  <2>2. CallableIsOpen'
    <3> SUFFICES ASSUME NEW k \in Manager, Callable(k)'
                 PROVE  arena'[k] = "open"
      BY DEF CallableIsOpen
    <3>1. Callable(k) /\ arena[k] = "open"
      BY <2>1, Zenon DEF Callable, CallableIsOpen
    <3> QED
      BY <1>0, <1>1, <3>1 DEF Manager_new, Manager_close, SoundClient, TypeOK
  <2> QED
    BY <2>1, <2>2 DEF BusyIsOpen, NothingFailed, NewOptionsAreEmpty
<1>2. ASSUME NEW o \in Options, ContextOptions_new(o) \/ ContextOptions_close(o)
      PROVE  SoundInv'
  <2>1. /\ ~fault' /\ UNCHANGED <<arena, callbacks, refs, busy>>
        /\ o \in Native /\ o \notin Chainman
        /\ (inner[o] = "none" /\ Becomes(o, "pointer")) \/ Becomes(o, "NULL")
    BY <1>2, ObjectsAssumption
    DEF ContextOptions_new, ContextOptions_close, nativeVars, Native, Derived
  <2>2. CallableIsOpen'
    BY <1>0, <2>1, CallableKept DEF TypeOK, Becomes, NewOptionsAreEmpty, Native
  <2>3. BusyIsOpen' /\ NothingFailed'
    BY <1>0, <2>1, BusyKept, Zenon
  <2> QED
    BY <1>0, <2>1, <2>2, <2>3 DEF TypeOK, Becomes, NewOptionsAreEmpty, Native
<1>3. ASSUME NEW o \in Options, NEW s \in Slot, NEW m \in Manager,
             ContextOptions_set(o, s, m)
      PROVE  SoundInv'
  <2>1. /\ ~fault' /\ UNCHANGED <<inner, arena, refs, busy>>
        /\ inner[o] = "pointer" /\ arena[m] = "open"
        /\ callbacks' = [callbacks EXCEPT ![o] = [@ EXCEPT ![s] = m]]
    BY <1>3 DEF ContextOptions_set, javaVars
  <2>2. CallableIsOpen'
    <3> SUFFICES ASSUME NEW k \in Manager, Callable(k)', k # m
                 PROVE  arena[k] = "open"
      BY <2>1 DEF CallableIsOpen
    <3>1. Callable(k)
      BY <1>0, <2>1, ObjectsAssumption DEF TypeOK, Callable
    <3> QED
      BY <3>1 DEF CallableIsOpen
  <2> QED
    BY <1>0, <2>1, <2>2
    DEF TypeOK, BusyIsOpen, NothingFailed, NewOptionsAreEmpty
<1>4. ASSUME NEW x \in Ctx, NEW o \in Options \cup {Nil}, Context_new(x, o)
      PROVE  SoundInv'
  <2>1. /\ ~fault' /\ UNCHANGED <<arena, busy>> /\ x \in Native
        /\ x \notin Chainman /\ x \notin Options
        /\ Becomes(x, "pointer") /\ Shares(x)
        /\ callbacks' = [callbacks EXCEPT ![x] =
              IF o # Nil /\ inner[o] = "pointer" THEN callbacks[o]
                                                 ELSE NoCallbacks]
    BY <1>4, ObjectsAssumption DEF Context_new, SoundClient, Native, Derived
  <2>2. CallableIsOpen'
    <3> SUFFICES ASSUME NEW k \in Manager, Callable(k)'
                 PROVE  Callable(k)
      BY <2>1 DEF CallableIsOpen
    <3>1. \A s \in Slot : NoCallbacks[s] # k
      BY ObjectsAssumption DEF NoCallbacks
    <3>2. CASE \E d \in Options, s \in Slot :
                  inner'[d] = "pointer" /\ callbacks'[d][s] = k
      BY <1>0, <2>1, <3>2, Zenon DEF TypeOK, Callable, Becomes, Native
    <3>3. CASE \E y \in Ctx, s \in Slot : refs'[y] > 0 /\ callbacks'[y][s] = k
      <4>1. PICK y \in Ctx, s \in Slot : refs'[y] > 0 /\ callbacks'[y][s] = k
        BY <3>3
      <4>2. CASE y = x
        BY <1>0, <2>1, <3>1, <4>1, <4>2, Zenon DEF TypeOK, Callable
      <4>3. CASE y # x
        BY <1>0, <2>1, <4>1, <4>3, Zenon DEF TypeOK, Callable, Shares
      <4> QED
        BY <4>2, <4>3
    <3> QED
      BY <3>2, <3>3 DEF Callable
  <2>3. BusyIsOpen' /\ NothingFailed'
    BY <1>0, <2>1, BusyKept
  <2> QED
    BY <1>0, <2>1, <2>2, <2>3 DEF TypeOK, Becomes, NewOptionsAreEmpty, Native
<1>5. ASSUME NEW x \in Ctx, Context_interrupt(x)
      PROVE  SoundInv'
  <2>1. inner[x] = "pointer" /\ ~Gone(x)
    <3>1. inner[x] # "zero" /\ Passes(x)
      BY <1>5 DEF Context_interrupt, NothingFailed, Native
    <3>2. inner[x] = "pointer"
      BY <3>1 DEF Passes
    <3> QED
      BY <1>b, <3>2
  <2>2. ~fault' /\ UNCHANGED <<inner, arena, callbacks, refs, busy>>
    BY <1>5, <2>1, Zenon DEF Context_interrupt, javaVars, nativeVars
  <2> QED
    BY <2>2, Zenon DEF CallableIsOpen, Callable, BusyIsOpen, NothingFailed,
                NewOptionsAreEmpty
<1>6. ASSUME NEW x \in Ctx, Context_close(x)
      PROVE  SoundInv'
  <2>1. /\ ~fault' /\ UNCHANGED <<arena, callbacks, busy>>
        /\ x \in Native /\ x \notin Chainman /\ x \notin Options
        /\ Becomes(x, "NULL") /\ Releases(x)
    BY <1>6, ObjectsAssumption
    DEF Context_close, Native, Derived, NothingFailed
  <2>2. CallableIsOpen'
    BY <1>0, <2>1, CallableKept DEF TypeOK, Becomes, Releases, Native
  <2>3. BusyIsOpen' /\ NothingFailed'
    BY <1>0, <2>1, BusyKept, Zenon
  <2> QED
    BY <1>0, <2>1, <2>2, <2>3 DEF TypeOK, Becomes, NewOptionsAreEmpty, Native
<1>7. ASSUME NEW t \in Thread, NEW p \in ChainOpts, NEW x \in Ctx,
             ChainstateManagerOptions_new(t, p, x)
      PROVE  SoundInv'
  <2>1. inner[x] = "pointer" /\ refs[x] > 0 /\ ~Gone(x)
    <3>1. Usable(x)
      BY <1>7 DEF ChainstateManagerOptions_new
    <3>2. inner[x] = "pointer"
      BY <1>a, <3>1
    <3> QED
      BY <1>b, <3>2
  <2>2. /\ ~fault' /\ UNCHANGED <<arena, callbacks, busy>>
        /\ p \in Native /\ p \notin Chainman /\ p \notin Options
        /\ Becomes(p, "pointer") /\ Shares(x)
    BY <1>7, <2>1, ObjectsAssumption, Zenon
    DEF ChainstateManagerOptions_new, Native, Derived, SoundClient
  <2>3. CallableIsOpen'
    BY <1>0, <2>1, <2>2, CallableKept DEF TypeOK, Becomes, Shares, Native
  <2>4. BusyIsOpen' /\ NothingFailed'
    BY <1>0, <2>2, BusyKept, Zenon
  <2> QED
    BY <1>0, <2>2, <2>3, <2>4 DEF TypeOK, Becomes, NewOptionsAreEmpty, Native
<1>8. ASSUME NEW p \in ChainOpts, ChainstateManagerOptions_set(p)
      PROVE  SoundInv'
  <2>1. ~fault' /\ UNCHANGED <<inner, arena, callbacks, refs, busy>>
    BY <1>8, Zenon DEF ChainstateManagerOptions_set, NothingFailed, Native, javaVars,
                nativeVars
  <2> QED
    BY <2>1, Zenon DEF CallableIsOpen, Callable, BusyIsOpen, NothingFailed,
                NewOptionsAreEmpty
<1>9. ASSUME NEW t \in Thread, NEW p \in ChainOpts,
             ChainstateManagerOptions_close(t, p)
      PROVE  SoundInv'
  <2>1. /\ ~fault' /\ UNCHANGED <<arena, callbacks, busy>>
        /\ p \in Native /\ p \in Derived /\ p \notin Chainman /\ p \notin Options
        /\ Becomes(p, "NULL")
        /\ (inner[p] = "pointer" /\ Releases(of[p])) \/ UNCHANGED refs
    BY <1>9, ObjectsAssumption, Zenon
    DEF ChainstateManagerOptions_close, Native, Derived
  <2>2. \A y \in Ctx : refs'[y] > 0 => refs[y] > 0
    BY <1>0, <2>1 DEF TypeOK, Releases
  <2>3. CallableIsOpen'
    BY <1>0, <2>1, <2>2, CallableKept DEF TypeOK, Becomes, Native
  <2>4. BusyIsOpen' /\ NothingFailed'
    BY <1>0, <2>1, BusyKept, Zenon
  <2> QED
    BY <1>0, <2>1, <2>3, <2>4 DEF TypeOK, Becomes, NewOptionsAreEmpty, Native
<1>10. ASSUME NEW m \in Chainman, NEW p \in ChainOpts,
              ChainstateManager_new(m, p)
       PROVE  SoundInv'
  <2>1. /\ inner[p] = "pointer" /\ p \in Derived
        /\ of[p] \in Ctx /\ refs[of[p]] > 0 /\ ~Gone(of[p])
    BY <1>0, <1>10, <1>a DEF ChainstateManager_new, Derived
  <2>2. /\ MayNotify(of[p]) /\ UNCHANGED <<arena, callbacks, busy>>
        /\ m \in Native /\ m \notin Options /\ inner[m] = "none"
        /\ Becomes(m, "pointer") /\ Shares(of[p])
    BY <1>10, <2>1, ObjectsAssumption
    DEF ChainstateManager_new, Native, Derived, SoundClient
  <2>3. ~fault'
    BY <1>0, <2>1, <2>2, UpcallsWork, Zenon DEF MayNotify
  <2>4. CallableIsOpen'
    BY <1>0, <2>1, <2>2, CallableKept DEF TypeOK, Becomes, Shares, Native
  <2>5. BusyIsOpen' /\ NothingFailed'
    BY <1>0, <2>2, BusyKept, Zenon
  <2> QED
    BY <1>0, <2>2, <2>3, <2>4, <2>5
    DEF TypeOK, Becomes, NewOptionsAreEmpty, Native
<1>11. ASSUME NEW t \in Thread, NEW m \in Chainman,
              ChainstateManager_begin(t, m)
       PROVE  SoundInv'
  <2>1. /\ inner[m] = "pointer" /\ ~fault'
        /\ busy' = [busy EXCEPT ![t] = m]
        /\ UNCHANGED <<inner, arena, callbacks, refs>>
    <3>1. /\ inner[m] = "pointer" \/ inner[m] = "zero"
          /\ fault' = (inner[m] = "zero")
      BY <1>11, Zenon DEF ChainstateManager_begin, Passes
    <3>2. inner[m] # "zero"
      BY DEF NothingFailed, Native, Derived
    <3>3. busy' = [busy EXCEPT ![t] = m] /\ UNCHANGED <<inner, arena, callbacks, refs>>
      BY <1>11, Zenon DEF ChainstateManager_begin, javaVars, nativeVars
    <3> QED BY <3>1, <3>2, <3>3, Zenon
  <2> QED
    BY <1>0, <2>1, ZenonT(30) DEF TypeOK, CallableIsOpen, Callable, BusyIsOpen,
                      NothingFailed, NewOptionsAreEmpty
<1>12. ASSUME NEW t \in Thread, NEW e \in Events, Notify(t, e)
       PROVE  SoundInv'
  <2>1. /\ inner[busy[t]] = "pointer"
        /\ of[busy[t]] \in Ctx /\ refs[of[busy[t]]] > 0 /\ ~Gone(of[busy[t]])
    BY <1>0, <1>12 DEF Notify, BusyIsOpen, TypeOK, Derived
  <2>2. ~UpcallFails(of[busy[t]], e)
    BY <1>0, <2>1, UpcallsWork, Zenon
  <2>3. ~fault' /\ UNCHANGED <<inner, arena, callbacks, refs, busy>>
    BY <1>12, <2>1, <2>2, Zenon DEF Notify, javaVars, nativeVars
  <2> QED
    BY <2>3, Zenon DEF CallableIsOpen, Callable, BusyIsOpen, NothingFailed,
                NewOptionsAreEmpty
<1>13. ASSUME NEW t \in Thread, ChainstateManager_end(t)
       PROVE  SoundInv'
  <2>1. inner[busy[t]] = "pointer" /\ ~Gone(of[busy[t]])
    BY <1>0, <1>13 DEF ChainstateManager_end, BusyIsOpen, TypeOK, Derived
  <2>2. /\ ~fault' /\ busy' = [busy EXCEPT ![t] = Nil]
        /\ UNCHANGED <<inner, arena, callbacks, refs>>
    BY <1>13, <2>1, Zenon DEF ChainstateManager_end, javaVars, nativeVars
  <2> QED
    BY <1>0, <2>2 DEF TypeOK, CallableIsOpen, Callable, BusyIsOpen,
                      NothingFailed, NewOptionsAreEmpty
<1>14. ASSUME NEW m \in Chainman, ChainstateManager_close(m)
       PROVE  SoundInv'
  <2>1. /\ m \in Native /\ m \in Derived /\ m \notin Options
        /\ inner[m] = "pointer" /\ \A t \in Thread : busy[t] # m
        /\ UNCHANGED <<arena, callbacks, busy>> /\ Becomes(m, "NULL")
    BY <1>14, ObjectsAssumption, Zenon
    DEF ChainstateManager_close, Native, Derived, NothingFailed, SoundClient
  <2>2. MayNotify(of[m]) /\ Releases(of[m])
    BY <1>0, <1>14, <2>1, Zenon DEF ChainstateManager_close
  <2>3. ~fault'
    BY <1>0, <2>1, <2>2, UpcallsWork, Zenon DEF MayNotify
  <2>4. CallableIsOpen'
    BY <1>0, <2>1, <2>2, CallableKept DEF TypeOK, Becomes, Releases, Native
  <2> QED
    BY <1>0, <2>1, <2>3, <2>4, Zenon
    DEF TypeOK, Becomes, BusyIsOpen, NothingFailed, NewOptionsAreEmpty, Native
<1>15. CASE UNCHANGED vars
  BY <1>15, Zenon DEF vars, javaVars, nativeVars, CallableIsOpen, Callable,
               BusyIsOpen, NothingFailed, NewOptionsAreEmpty
<1> QED
  BY <1>1, <1>2, <1>3, <1>4, <1>5, <1>6, <1>7, <1>8, <1>9, <1>10, <1>11,
     <1>12, <1>13, <1>14, <1>15, Zenon DEF Next

\* A client that closes no manager of notifications early and no chainstate
\* manager in use, and passes on only open objects, is safe from native
\* faults in every order of closing, on any number of threads, and what a
\* chainstate manager calls back is there (when nothing fails to be made and
\* no event has a text).
LEMMA SoundClients ==
    ASSUME SoundClient
    PROVE  Spec => [](NativeSafe /\ StubsStayOpen)
<1>1. Init => CountInv /\ SoundInv
  <2> SUFFICES ASSUME Init
               PROVE  CountInv /\ SoundInv
    OBVIOUS
  <2>1. CallableIsOpen
    BY ObjectsAssumption
    DEF Init, CallableIsOpen, Callable, Native, NoCallbacks
  <2> QED
    BY CountInit, <2>1, Zenon
    DEF Init, SoundInv, NativeSafe, BusyIsOpen, NothingFailed,
        NewOptionsAreEmpty, Native
<1>2. CountInv /\ SoundInv /\ [Next]_vars => CountInv' /\ SoundInv'
  BY CountStep, SoundStep
<1>3. CountInv /\ SoundInv => NativeSafe /\ StubsStayOpen
  <2> SUFFICES ASSUME CountInv, SoundInv, NEW m \in Chainman, NEW s \in Slot,
                      inner[m] = "pointer", callbacks[of[m]][s] # Nil
               PROVE  arena[callbacks[of[m]][s]] = "open"
    BY DEF SoundInv, StubsStayOpen
  <2>1. of[m] \in Ctx /\ refs[of[m]] > 0
    BY HeldContext DEF SoundInv, NativeSafe, Derived
  <2>2. callbacks[of[m]][s] \in Manager
    BY <2>1 DEF CountInv, TypeOK
  <2>3. Callable(callbacks[of[m]][s])
    BY <2>1 DEF Callable
  <2> QED
    BY <2>2, <2>3 DEF SoundInv, CallableIsOpen
<1> QED
  BY <1>1, <1>2, <1>3, PTL DEF Spec

\* A client who closes no manager of notifications early, no chainstate
\* manager under a call, and uses nothing that is closed, sees no native code
\* use memory or a stub that is gone, in whatever order its threads close what
\* they made, and also where one closes chainstate manager options that
\* another has made.
THEOREM SoundClientsAreSafe ==
    ASSUME SoundClient
    PROVE  Spec => []NativeSafe
<1> QED
  BY SoundClients, PTL

\* The stubs a chainstate manager may call stay open for that client, also
\* after the options and the Java Context they came with are closed.
THEOREM StubsOutliveTheirUse ==
    ASSUME SoundClient
    PROVE  Spec => []StubsStayOpen
<1> QED
  BY SoundClients, PTL

----------------------------------------------------------------------------
(* Callbacks of a context *)

\* No object goes back to not having been made.
LEMMA MadeStaysMade ==
    ASSUME TypeOK, [Next]_vars, NEW d \in Native, inner[d] # "none"
    PROVE  inner'[d] # "none"
<1>1. \A c \in Native, s \in {"NULL", "zero", "pointer"} :
         Becomes(c, s) => inner'[d] # "none"
  BY DEF TypeOK, Becomes
<1>2. CASE UNCHANGED vars
  BY <1>2 DEF vars, javaVars
<1>3. CASE Next
  BY <1>1, <1>3, Zenon
  DEF Next, Manager_new, Manager_close, ContextOptions_new,
      ContextOptions_close, ContextOptions_set, Context_new, Context_interrupt,
      Context_close, ChainstateManagerOptions_new,
      ChainstateManagerOptions_set, ChainstateManagerOptions_close,
      ChainstateManager_new, ChainstateManager_begin, Notify,
      ChainstateManager_end, ChainstateManager_close, javaVars, Native, Derived
<1> QED
  BY <1>2, <1>3

\* What takes a share takes it of a context that was made.
LEMMA SharedIsMadeStep ==
    ASSUME CountInv, SharedIsMade, [Next]_vars
    PROVE  SharedIsMade'
<1> SUFFICES ASSUME ~fault', NEW d \in Derived, inner'[d] = "pointer"
             PROVE  of'[d] \in Ctx /\ inner'[of'[d]] # "none"
  BY DEF SharedIsMade
<1>1. ~fault
  BY Zenon DEF Next, Manager_new, Manager_close, ContextOptions_new,
      ContextOptions_close, ContextOptions_set, Context_new, Context_interrupt,
      Context_close, ChainstateManagerOptions_new,
      ChainstateManagerOptions_set, ChainstateManagerOptions_close,
      ChainstateManager_new, ChainstateManager_begin, Notify,
      ChainstateManager_end, ChainstateManager_close, vars
<1>2. TypeOK
  BY DEF CountInv
<1>3. /\ of'[d] = of[d] /\ inner[d] = "pointer" => inner'[of'[d]] # "none"
      /\ \A x \in Ctx : inner[x] # "none" => inner'[x] # "none"
  BY <1>1, <1>2, MadeStaysMade DEF SharedIsMade, Native
<1>4. ASSUME UNCHANGED of, inner'[d] = inner[d]
      PROVE  of'[d] \in Ctx /\ inner'[of'[d]] # "none"
  BY <1>1, <1>3, <1>4 DEF SharedIsMade
<1>5. ASSUME UNCHANGED of, NEW c \in Native, NEW s, Becomes(c, s),
             c \notin Derived \/ s # "pointer"
      PROVE  of'[d] \in Ctx /\ inner'[of'[d]] # "none"
  <2>1. inner'[d] = inner[d] \/ (c = d /\ inner'[d] = s)
    BY <1>2, <1>5 DEF Becomes, TypeOK, Native, Derived
  <2> QED
    BY <1>4, <1>5, <2>1
<1>6. ASSUME NEW c \in Derived, NEW x \in Ctx, inner[x] # "none",
             Becomes(c, "pointer"), of' = [of EXCEPT ![c] = x]
      PROVE  of'[d] \in Ctx /\ inner'[of'[d]] # "none"
  <2>1. CASE c = d
    BY <1>2, <1>3, <1>6, <2>1 DEF TypeOK
  <2>2. CASE c # d
    <3>1. inner[d] = "pointer" /\ of'[d] = of[d]
      BY <1>2, <1>6, <2>2 DEF Becomes, TypeOK, Native, Derived
    <3> QED
      BY <1>1, <1>3, <3>1, Zenon DEF SharedIsMade
  <2> QED
    BY <2>1, <2>2
<1>7. CASE UNCHANGED vars
  BY <1>4, <1>7 DEF vars, javaVars, nativeVars
<1>8. ASSUME NEW m \in Manager, Manager_new(m) \/ Manager_close(m)
      PROVE  of'[d] \in Ctx /\ inner'[of'[d]] # "none"
  BY <1>4, <1>8 DEF Manager_new, Manager_close, nativeVars
<1>9. ASSUME NEW o \in Options, ContextOptions_new(o) \/ ContextOptions_close(o)
      PROVE  of'[d] \in Ctx /\ inner'[of'[d]] # "none"
  <2>1. o \in Native /\ o \notin Derived
    BY ObjectsAssumption DEF Native
  <2> QED
    BY <1>5, <1>9, <2>1 DEF ContextOptions_new, ContextOptions_close, nativeVars
<1>10. ASSUME NEW o \in Options, NEW s \in Slot, NEW m \in Manager,
              ContextOptions_set(o, s, m)
       PROVE  of'[d] \in Ctx /\ inner'[of'[d]] # "none"
  BY <1>4, <1>10 DEF ContextOptions_set, javaVars
<1>11. ASSUME NEW x \in Ctx, NEW o \in Options \cup {Nil}, Context_new(x, o)
       PROVE  of'[d] \in Ctx /\ inner'[of'[d]] # "none"
  <2>1. x \in Native /\ x \notin Derived
    BY ObjectsAssumption DEF Native
  <2> QED
    BY <1>5, <1>11, <2>1 DEF Context_new
<1>12. ASSUME NEW x \in Ctx, Context_interrupt(x) \/ Context_close(x)
       PROVE  of'[d] \in Ctx /\ inner'[of'[d]] # "none"
  <2>1. x \in Native
    BY DEF Native
  <2> QED
    BY <1>4, <1>5, <1>12, <2>1, Zenon
    DEF Context_interrupt, Context_close, javaVars, nativeVars
<1>13. ASSUME NEW t \in Thread, NEW p \in ChainOpts, NEW x \in Ctx,
              ChainstateManagerOptions_new(t, p, x)
       PROVE  of'[d] \in Ctx /\ inner'[of'[d]] # "none"
  <2>1. p \in Native /\ p \in Derived
    BY DEF Native, Derived
  <2> QED
    BY <1>5, <1>6, <1>13, <2>1, Zenon DEF ChainstateManagerOptions_new
<1>14. ASSUME NEW p \in ChainOpts, ChainstateManagerOptions_set(p)
       PROVE  of'[d] \in Ctx /\ inner'[of'[d]] # "none"
  BY <1>4, <1>14 DEF ChainstateManagerOptions_set, javaVars, nativeVars
<1>15. ASSUME NEW t \in Thread, NEW p \in ChainOpts,
              ChainstateManagerOptions_close(t, p)
       PROVE  of'[d] \in Ctx /\ inner'[of'[d]] # "none"
  <2>1. p \in Native
    BY DEF Native, Derived
  <2> QED
    BY <1>5, <1>15, <2>1 DEF ChainstateManagerOptions_close
<1>16. ASSUME NEW m \in Chainman, NEW p \in ChainOpts,
              ChainstateManager_new(m, p)
       PROVE  of'[d] \in Ctx /\ inner'[of'[d]] # "none"
  <2>1. m \in Native /\ m \in Derived /\ p \in Derived
    BY DEF Native, Derived
  <2>2. inner[p] = "pointer"
    BY <1>16 DEF ChainstateManager_new
  <2>3. of[p] \in Ctx /\ inner[of[p]] # "none"
    BY <1>1, <2>1, <2>2, Zenon DEF SharedIsMade
  <2> QED
    BY <1>5, <1>6, <1>16, <2>1, <2>3 DEF ChainstateManager_new
<1>17. ASSUME NEW t \in Thread,
              \/ \E m \in Chainman : ChainstateManager_begin(t, m)
              \/ \E e \in Events : Notify(t, e)
              \/ ChainstateManager_end(t)
       PROVE  of'[d] \in Ctx /\ inner'[of'[d]] # "none"
  BY <1>4, <1>17, Zenon
  DEF ChainstateManager_begin, Notify, ChainstateManager_end, javaVars,
      nativeVars
<1>18. ASSUME NEW m \in Chainman, ChainstateManager_close(m)
       PROVE  of'[d] \in Ctx /\ inner'[of'[d]] # "none"
  <2>1. m \in Native
    BY DEF Native, Derived
  <2> QED
    BY <1>5, <1>18, <2>1, Zenon DEF ChainstateManager_close
<1> QED
  BY <1>7, <1>8, <1>9, <1>10, <1>11, <1>12, <1>13, <1>14, <1>15, <1>16,
     <1>17, <1>18, Zenon
  DEF Next

\* A context that was not made yet has no share, so that its callbacks are
\* set when it is made and at no later time.
LEMMA CallbacksKept ==
    ASSUME CountInv, SharedIsMade, [Next]_vars,
           NEW x \in Ctx, refs[x] > 0
    PROVE  callbacks'[x] = callbacks[x]
<1>1. ASSUME ~fault PROVE inner[x] # "none"
  <2>1. refs[x] = Cardinality(Holders(x))
    BY <1>1 DEF CountInv, RefsExact
  <2>2. Holders(x) # {}
    BY <2>1, FS_EmptySet
  <2>3. PICK d : d \in Holders(x)
    BY <2>2
  <2>4. CASE d \in Derived
    BY <1>1, <2>3, <2>4, ObjectsAssumption, Zenon DEF Holders, SharedIsMade
  <2>5. CASE d = x
    BY <2>3, <2>5, ObjectsAssumption DEF Holders, Derived
  <2> QED
    BY <2>3, <2>4, <2>5 DEF Holders
<1>2. ASSUME NEW o \in Options, NEW s \in Slot, NEW m \in Manager,
             ContextOptions_set(o, s, m)
      PROVE  callbacks'[x] = callbacks[x]
  <2>1. o # x /\ x \in Options \cup Ctx
    BY ObjectsAssumption
  <2> QED
    BY <1>2, <2>1 DEF ContextOptions_set, CountInv, TypeOK
<1>3. ASSUME NEW y \in Ctx, NEW o \in Options \cup {Nil}, Context_new(y, o)
      PROVE  callbacks'[x] = callbacks[x]
  <2>1. y # x
    BY <1>1, <1>3 DEF Context_new
  <2> QED
    BY <1>3, <2>1 DEF Context_new, CountInv, TypeOK
<1>4. CASE UNCHANGED callbacks
  BY <1>4
<1> QED
  BY <1>2, <1>3, <1>4, Zenon
  DEF Next, Manager_new, Manager_close, ContextOptions_new,
      ContextOptions_close, Context_interrupt, Context_close,
      ChainstateManagerOptions_new, ChainstateManagerOptions_set,
      ChainstateManagerOptions_close, ChainstateManager_new,
      ChainstateManager_begin, Notify, ChainstateManager_end,
      ChainstateManager_close, vars, nativeVars

\* While a native context exists its callbacks never change, whatever is set
\* on the options it was made from, and whatever else the client does.
THEOREM CallbacksAreKept == Spec => ContextKeepsCallbacks
<1>1. Init => SharedIsMade
  BY DEF Init, SharedIsMade, Native, Derived
<1>2. CountInv /\ SharedIsMade /\ [Next]_vars => SharedIsMade'
  BY SharedIsMadeStep
<1>3. CountInv /\ SharedIsMade /\ [Next]_vars =>
         [\A x \in Ctx : refs[x] > 0 => callbacks'[x] = callbacks[x]]_vars
  BY CallbacksKept
<1>4. Spec => []SharedIsMade
  BY <1>1, <1>2, CountIsInvariant, PTL DEF Spec
<1> QED
  BY <1>3, <1>4, CountIsInvariant, PTL DEF Spec, ContextKeepsCallbacks

----------------------------------------------------------------------------
(* The arena of chainstate manager options *)

ArenaInv == TypeOK /\ OneThreadConfines /\ ArenaFollowsOptions

\* A step of another object leaves the options and their arenas alone.
LEMMA ArenaUntouched ==
    ASSUME ArenaInv, UNCHANGED confined,
           \A p \in ChainOpts : inner'[p] = inner[p]
    PROVE  OneThreadConfines' /\ ArenaFollowsOptions'
  BY DEF ArenaInv, OneThreadConfines, ArenaFollowsOptions

LEMMA ArenaStep ==
    ASSUME "closesElsewhere" \notin Careless, ArenaInv, [Next]_vars
    PROVE  OneThreadConfines' /\ ArenaFollowsOptions'
<1> USE DEF ArenaInv
<1>1. ASSUME UNCHANGED confined, UNCHANGED inner
      PROVE  OneThreadConfines' /\ ArenaFollowsOptions'
  BY <1>1, ArenaUntouched
<1>2. ASSUME UNCHANGED confined, NEW d \in Native, d \notin ChainOpts,
             NEW s, Becomes(d, s)
      PROVE  OneThreadConfines' /\ ArenaFollowsOptions'
  <2>1. \A p \in ChainOpts : inner'[p] = inner[p]
    BY <1>2 DEF TypeOK, Becomes, Native, Derived
  <2> QED
    BY <1>2, <2>1, ArenaUntouched
<1>3. ASSUME NEW d \in Options \cup Ctx \cup Chainman
      PROVE  d \in Native /\ d \notin ChainOpts
  BY ObjectsAssumption DEF Native, Derived
<1>4. ASSUME NEW t \in Thread, NEW p \in ChainOpts, NEW x \in Ctx,
             ChainstateManagerOptions_new(t, p, x)
      PROVE  OneThreadConfines' /\ ArenaFollowsOptions'
  <2>1. PICK s \in {"zero", "pointer"} : Becomes(p, s)
    BY <1>4 DEF ChainstateManagerOptions_new
  <2>2. p \in Native
    BY DEF Native, Derived
  <2>3. /\ inner'[p] = s /\ confined'[p] = {t}
        /\ \A q \in ChainOpts \ {p} :
              inner'[q] = inner[q] /\ confined'[q] = confined[q]
    BY <1>4, <2>1, <2>2, Zenon
    DEF TypeOK, Becomes, ChainstateManagerOptions_new, Native, Derived
  <2> QED
    BY <2>3 DEF OneThreadConfines, ArenaFollowsOptions
<1>5. ASSUME NEW t \in Thread, NEW p \in ChainOpts,
             ChainstateManagerOptions_close(t, p)
      PROVE  OneThreadConfines' /\ ArenaFollowsOptions'
  <2>1. confined[p] = {t}
    BY <1>5, Zenon DEF ChainstateManagerOptions_close, OneThreadConfines
  <2>2. p \in Native
    BY DEF Native, Derived
  <2>3. /\ inner'[p] = "NULL" /\ confined'[p] = {}
        /\ \A q \in ChainOpts \ {p} :
              inner'[q] = inner[q] /\ confined'[q] = confined[q]
    BY <1>5, <2>1, <2>2, Zenon
    DEF TypeOK, Becomes, ChainstateManagerOptions_close, Native, Derived
  <2> QED
    BY <2>3, Zenon DEF OneThreadConfines, ArenaFollowsOptions
<1>6. ASSUME NEW x \in Ctx, NEW o \in Options \cup {Nil}, Context_new(x, o)
      PROVE  OneThreadConfines' /\ ArenaFollowsOptions'
  BY <1>2, <1>3, <1>6 DEF Context_new
<1>7. ASSUME NEW m \in Chainman, NEW p \in ChainOpts,
             ChainstateManager_new(m, p)
      PROVE  OneThreadConfines' /\ ArenaFollowsOptions'
  BY <1>1, <1>2, <1>3, <1>7 DEF ChainstateManager_new
<1>8. ASSUME NEW m \in Chainman, ChainstateManager_close(m)
      PROVE  OneThreadConfines' /\ ArenaFollowsOptions'
  BY <1>2, <1>3, <1>8, Zenon DEF ChainstateManager_close
<1>9. ASSUME NEW x \in Ctx, Context_close(x)
      PROVE  OneThreadConfines' /\ ArenaFollowsOptions'
  BY <1>2, <1>3, <1>9 DEF Context_close
<1>10. ASSUME NEW o \in Options, ContextOptions_new(o) \/ ContextOptions_close(o)
       PROVE  OneThreadConfines' /\ ArenaFollowsOptions'
  BY <1>2, <1>3, <1>10 DEF ContextOptions_new, ContextOptions_close
<1> QED
  BY <1>1, <1>4, <1>5, <1>6, <1>7, <1>8, <1>9, <1>10, Zenon
  DEF Next, Manager_new, Manager_close, ContextOptions_set, Context_interrupt,
      ChainstateManagerOptions_set, ChainstateManager_begin, Notify,
      ChainstateManager_end, vars, javaVars

\* As long as chainstate manager options are closed by the thread that made
\* them, their confined arena goes with their native memory, whatever other
\* mistakes the client makes and whatever fails to be made.
THEOREM ArenasFollowOptions ==
    ASSUME "closesElsewhere" \notin Careless
    PROVE  Spec => []ArenaFollowsOptions
<1>1. Init => OneThreadConfines /\ ArenaFollowsOptions
  BY DEF Init, OneThreadConfines, ArenaFollowsOptions, Native, Derived
<1>2. TypeOK /\ OneThreadConfines /\ ArenaFollowsOptions /\ [Next]_vars
      => OneThreadConfines' /\ ArenaFollowsOptions'
  BY ArenaStep DEF ArenaInv
<1> QED
  BY <1>1, <1>2, ContextTypes, PTL DEF Spec

----------------------------------------------------------------------------
(* Calls in progress *)

\* Nothing but the close of a chainstate manager takes it from a thread that
\* is inside it.
LEMMA BusyStep ==
    ASSUME "closesBusy" \notin Careless, TypeOK, [Next]_vars,
           ~fault => BusyIsOpen
    PROVE  ~fault' => BusyIsOpen'
<1> SUFFICES ASSUME ~fault', NEW t \in Thread, busy'[t] # Nil
             PROVE  inner'[busy'[t]] = "pointer"
  BY Zenon DEF BusyIsOpen
<1>1. ~fault
  BY Zenon DEF Next, Manager_new, Manager_close, ContextOptions_new,
         ContextOptions_close, ContextOptions_set, Context_new,
         Context_interrupt, Context_close, ChainstateManagerOptions_new,
         ChainstateManagerOptions_set, ChainstateManagerOptions_close,
         ChainstateManager_new, ChainstateManager_begin, Notify,
         ChainstateManager_end, ChainstateManager_close, vars
<1>2. \A u \in Thread : busy[u] # Nil => inner[busy[u]] = "pointer"
  BY <1>1 DEF BusyIsOpen
<1>3. busy[t] \in Chainman \cup {Nil}
  BY Zenon DEF TypeOK
<1>4. ASSUME UNCHANGED <<inner, busy>> PROVE inner'[busy'[t]] = "pointer"
  BY <1>2, <1>4, Zenon
<1>5. ASSUME NEW c \in Native, NEW s, Becomes(c, s), UNCHANGED busy,
             inner[c] = "none" \/ busy[t] # c
      PROVE  inner'[busy'[t]] = "pointer"
  <2>1. busy[t] \in Native /\ busy[t] # c
    BY <1>2, <1>3, <1>5, Zenon DEF Native
  <2>2. inner'[busy[t]] = inner[busy[t]]
    BY <1>5, <2>1 DEF Becomes, TypeOK
  <2> QED
    BY <1>2, <1>5, <2>2
<1>6. ASSUME NEW o \in Options, ContextOptions_new(o) \/ ContextOptions_close(o)
      PROVE  inner'[busy'[t]] = "pointer"
  <2>1. o \in Native /\ busy[t] # o
    BY <1>3, ObjectsAssumption, Zenon DEF Native, Derived
  <2> QED
    BY <1>5, <1>6, <2>1, Zenon DEF ContextOptions_new, ContextOptions_close
<1>7. ASSUME NEW x \in Ctx, NEW o, Context_new(x, o) \/ Context_close(x)
      PROVE  inner'[busy'[t]] = "pointer"
  <2>1. x \in Native /\ busy[t] # x
    BY <1>3, ObjectsAssumption DEF Native, Derived
  <2> QED
    BY <1>5, <1>7, <2>1 DEF Context_new, Context_close
<1>8. ASSUME NEW p \in ChainOpts, NEW u, NEW x,
             \/ ChainstateManagerOptions_new(u, p, x)
             \/ ChainstateManagerOptions_close(u, p)
      PROVE  inner'[busy'[t]] = "pointer"
  <2>1. p \in Native /\ busy[t] # p
    BY <1>3, ObjectsAssumption DEF Native, Derived
  <2> QED
    BY <1>5, <1>8, <2>1, Zenon
    DEF ChainstateManagerOptions_new, ChainstateManagerOptions_close
<1>9. ASSUME NEW m \in Chainman, NEW p, ChainstateManager_new(m, p)
      PROVE  inner'[busy'[t]] = "pointer"
  BY <1>4, <1>5, <1>9, Zenon DEF ChainstateManager_new, Native
<1>10. ASSUME NEW m \in Chainman, ChainstateManager_close(m)
       PROVE  inner'[busy'[t]] = "pointer"
  <2>1. m \in Native /\ busy[t] # m
    BY <1>10, Zenon DEF ChainstateManager_close, Native
  <2> QED
    BY <1>5, <1>10, <2>1, Zenon DEF ChainstateManager_close
<1>11. ASSUME NEW u \in Thread, NEW m \in Chainman, ChainstateManager_begin(u, m)
       PROVE  inner'[busy'[t]] = "pointer"
  <2>1. inner[m] = "pointer" /\ UNCHANGED inner /\ busy' = [busy EXCEPT ![u] = m]
    BY <1>11, Zenon DEF ChainstateManager_begin, Passes, javaVars
  <2> QED
    BY <1>2, <2>1 DEF TypeOK
<1>12. ASSUME NEW u \in Thread, ChainstateManager_end(u)
       PROVE  inner'[busy'[t]] = "pointer"
  <2>1. UNCHANGED inner /\ busy' = [busy EXCEPT ![u] = Nil]
    BY <1>12, Zenon DEF ChainstateManager_end, javaVars
  <2> QED
    BY <1>2, <2>1, Zenon DEF TypeOK
<1> QED
  BY <1>4, <1>6, <1>7, <1>8, <1>9, <1>10, <1>11, <1>12, Zenon
  DEF Next, Manager_new, Manager_close, ContextOptions_set, Context_interrupt,
      ChainstateManagerOptions_set, Notify, vars, javaVars

\* A thread inside ProcessBlock or ImportBlocks holds what it works with: as
\* long as no other thread closes the ChainstateManager under it, the manager
\* and the native context it shares exist, although other threads close the
\* Context, the options and the managers of notifications, use closed objects
\* or fail to make new ones.
THEOREM CallsHoldTheirContext ==
    ASSUME "closesBusy" \notin Careless
    PROVE  Spec => [](~fault => \A t \in Thread : busy[t] # Nil =>
                        inner[busy[t]] = "pointer" /\ ~Gone(of[busy[t]]))
<1>1. Init => (~fault => BusyIsOpen)
  BY DEF Init, BusyIsOpen
<1>2. TypeOK /\ (~fault => BusyIsOpen) /\ [Next]_vars => (~fault => BusyIsOpen)'
  BY BusyStep
<1>3. CountInv /\ (~fault => BusyIsOpen) =>
         (~fault => \A t \in Thread : busy[t] # Nil =>
             inner[busy[t]] = "pointer" /\ ~Gone(of[busy[t]]))
  <2> SUFFICES ASSUME CountInv, BusyIsOpen, ~fault, NEW t \in Thread, busy[t] # Nil
               PROVE  inner[busy[t]] = "pointer" /\ ~Gone(of[busy[t]])
    BY Zenon
  <2>1. inner[busy[t]] = "pointer"
    BY DEF BusyIsOpen
  <2>2. busy[t] \in Derived
    BY DEF CountInv, TypeOK, Derived
  <2>3. of[busy[t]] \in Ctx /\ refs[of[busy[t]]] > 0
    BY <2>1, <2>2, HeldContext, Zenon
  <2>4. of[busy[t]] # Nil
    BY <2>3, ObjectsAssumption, Zenon DEF Native
  <2>5. refs[of[busy[t]]] # 0
    BY ONLY <2>3
  <2> QED
    BY <2>1, <2>4, <2>5, Zenon DEF Gone
<1> QED
  BY <1>1, <1>2, <1>3, ContextTypes, CountIsInvariant, PTL DEF Spec
=============================================================================
