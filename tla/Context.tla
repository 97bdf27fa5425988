------------------------------ MODULE Context ------------------------------
(***************************************************************************)
(* The kernel context and what is built from it: ContextManager.java,      *)
(* NotificationsManager.java and the options and manager of                *)
(* Chainstate.java.                                                        *)
(*                                                                         *)
(* The native Context made for the Java object x is a shared_ptr held by   *)
(* the handle of x and by every chainstate manager and options object      *)
(* built from x; refs[x] is its count.  It has a copy of the callback      *)
(* structs of the options, whose function pointers are upcall stubs: they  *)
(* work while the arena of the Java manager they come from is open.        *)
(*                                                                         *)
(* ProcessBlock and ImportBlocks are downcalls that notify from inside, so *)
(* other threads act between their beginning, the callbacks and their end. *)
(***************************************************************************)
EXTENDS Integers, FiniteSets

CONSTANTS
    Thread,
    Notifier,   \* KernelNotificationManager
    Validator,  \* ValidationInterfaceManager
    Options,    \* ContextOptions
    Ctx,        \* Context
    ChainOpts,  \* ChainstateManagerOptions
    Chainman,   \* ChainstateManager
    Nil,        \* no object
    MayFail,    \* the native create functions that may return null
    Events,     \* what the kernel notifies of in the run
    Careless    \* what the client does that the binding cannot bear

Slot == {"notifications", "validation"}

\* blockTip, headerTip and warningUnset; progress, warningSet, flushError
\* and fatalError, which have a text; the four validation callbacks.
AllEvents == {"plain", "text", "validation"}

SlotOf(e) == IF e = "validation" THEN "validation" ELSE "notifications"

Manager == Notifier \cup Validator

ManagerOf(s) == IF s = "validation" THEN Validator ELSE Notifier

Mistakes ==
    {"closesManagerEarly", "closesBusy", "closesElsewhere", "usesUnusable"}

Native == Options \cup Ctx \cup ChainOpts \cup Chainman

Derived == ChainOpts \cup Chainman

ASSUME ObjectsAssumption ==
    /\ Nil \notin Manager \cup Native \cup Thread
    /\ Options \cap (Ctx \cup Derived) = {}
    /\ Ctx \cap Derived = {}
    /\ ChainOpts \cap Chainman = {}

ASSUME FiniteAssumption == IsFiniteSet(Native)

ASSUME ChoicesAssumption ==
    /\ MayFail \subseteq {"context", "chainOpts", "chainman"}
    /\ Events \subseteq AllEvents
    /\ Careless \subseteq Mistakes

VARIABLES
    inner,      \* field inner of each object, "none" before it exists
    arena,      \* shared arena of each manager
    confined,   \* {the thread confined to} while the arena of chainstate
                \* manager options is open, else {}
    callbacks,  \* native: whose stubs an options object or context calls
    of,         \* native: the context an object shares
    refs,       \* native: use count of each context
    busy,       \* the chainstate manager whose native code a thread is in
    fault       \* has native code used memory or a stub that is gone, or
                \* has an exception left an upcall?

javaVars == <<inner, arena, confined>>
nativeVars == <<callbacks, of, refs>>
vars == <<javaVars, nativeVars, busy, fault>>

TypeOK ==
    /\ inner \in [Native -> {"none", "NULL", "zero", "pointer"}]
    /\ arena \in [Manager -> {"none", "open", "closed"}]
    /\ confined \in [ChainOpts -> SUBSET Thread]
    /\ callbacks \in [Options \cup Ctx -> [Slot -> Manager \cup {Nil}]]
    /\ of \in [Derived -> Ctx \cup {Nil}]
    /\ refs \in [Ctx -> Nat]
    /\ busy \in [Thread -> Chainman \cup {Nil}]
    /\ fault \in BOOLEAN

NoCallbacks == [s \in Slot |-> Nil]

Init ==
    /\ inner = [d \in Native |-> "none"]
    /\ arena = [m \in Manager |-> "none"]
    /\ confined = [p \in ChainOpts |-> {}]
    /\ callbacks = [d \in Options \cup Ctx |-> NoCallbacks]
    /\ of = [d \in Derived |-> Nil]
    /\ refs = [x \in Ctx |-> 0]
    /\ busy = [t \in Thread |-> Nil]
    /\ fault = FALSE

----------------------------------------------------------------------------
(* Helpers *)

\* The client passes on objects that failed or are closed only by mistake.
Usable(d) == inner[d] = "pointer" \/ "usesUnusable" \in Careless

\* Mutant: a closed object is used like an open one.
Passes_unchecked(d) == inner[d] # "none"

\* The test inner == MemorySegment.NULL lets the zero address pass.
Passes(d) == inner[d] = "pointer" \/ (inner[d] = "zero" /\ Usable(d))

\* Mutant: only the options, not the contexts made from them.
Callable_options(m) ==
    \E o \in Options, s \in Slot : inner[o] = "pointer" /\ callbacks[o][s] = m

\* A native object that exists has the stubs of m.
Callable(m) ==
    \/ \E o \in Options, s \in Slot : inner[o] = "pointer" /\ callbacks[o][s] = m
    \/ \E x \in Ctx, s \in Slot : refs[x] > 0 /\ callbacks[x][s] = m

\* The native context x is read: it must still exist.
Gone(x) == x = Nil \/ refs[x] = 0

\* An upcall of the context x for the event e fails: its stub is freed, or
\* it throws.  A text comes with its length; the segment made of the two
\* ends before the terminator that getString(0) looks for.
UpcallFails(x, e) ==
    LET m == callbacks[x][SlotOf(e)]
    IN  m # Nil /\ (arena[m] # "open" \/ e = "text")

\* Native code that may notify of some of the events, or of none.
MayNotify(x) == fault' \in {FALSE} \cup {UpcallFails(x, e) : e \in Events}

Shares(x) == refs' = [refs EXCEPT ![x] = @ + 1]
Releases(x) == refs' = [refs EXCEPT ![x] = @ - 1]

Becomes(d, segment) == inner' = [inner EXCEPT ![d] = segment]

----------------------------------------------------------------------------
(* NotificationsManager.java *)

Manager_new(m) ==
    /\ ~fault
    /\ arena[m] = "none"
    /\ arena' = [arena EXCEPT ![m] = "open"]
    /\ UNCHANGED <<inner, confined, nativeVars, busy, fault>>

\* Closing the shared arena frees the stubs at once; a second close throws.
Manager_close(m) ==
    /\ ~fault
    /\ arena[m] = "open"
    /\ Callable(m) => "closesManagerEarly" \in Careless
    /\ arena' = [arena EXCEPT ![m] = "closed"]
    /\ UNCHANGED <<inner, confined, nativeVars, busy, fault>>

----------------------------------------------------------------------------
(* ContextManager.java *)

ContextOptions_new(o) ==
    /\ ~fault
    /\ inner[o] = "none"
    /\ Becomes(o, "pointer")
    /\ UNCHANGED <<arena, confined, nativeVars, busy, fault>>

\* Mutant: the callbacks the contexts share with o change in place.
ContextOptions_set_inPlace(o, s, m) ==
    /\ ~fault
    /\ m \in ManagerOf(s)
    /\ inner[o] = "pointer"
    /\ arena[m] = "open"
    /\ callbacks' = [d \in Options \cup Ctx |->
          IF callbacks[d] = callbacks[o] THEN [callbacks[d] EXCEPT ![s] = m]
                                         ELSE callbacks[d]]
    /\ UNCHANGED <<javaVars, of, refs, busy, fault>>

\* setNotifications and setValidationInterface copy the struct, which lies
\* in the arena of m.
ContextOptions_set(o, s, m) ==
    /\ ~fault
    /\ m \in ManagerOf(s)
    /\ inner[o] = "pointer"
    /\ arena[m] = "open"
    /\ callbacks' = [callbacks EXCEPT ![o] = [@ EXCEPT ![s] = m]]
    /\ UNCHANGED <<javaVars, of, refs, busy, fault>>

ContextOptions_close(o) ==
    /\ ~fault
    /\ inner[o] = "pointer"
    /\ Becomes(o, "NULL")
    /\ UNCHANGED <<arena, confined, nativeVars, busy, fault>>

\* Null options, which is what closed options are, give the default context.
\* A context that fails its sanity check is null, which the test by identity
\* does not find.
Context_new(x, o) ==
    /\ ~fault
    /\ inner[x] = "none"
    /\ o # Nil => inner[o] # "none" /\ Usable(o)
    /\ \/ /\ Becomes(x, "pointer")
          /\ Shares(x)
          /\ callbacks' = [callbacks EXCEPT ![x] =
                IF o # Nil /\ inner[o] = "pointer" THEN callbacks[o]
                                                   ELSE NoCallbacks]
       \/ /\ "context" \in MayFail
          /\ Becomes(x, "zero")
          /\ UNCHANGED <<callbacks, refs>>
    /\ UNCHANGED <<arena, confined, of, busy, fault>>

Context_interrupt(x) ==
    /\ ~fault
    /\ Passes(x)
    /\ fault' = (inner[x] = "zero" \/ Gone(x))
    /\ UNCHANGED <<javaVars, nativeVars, busy>>

\* Mutant: the field is not set to NULL.
Context_close_noReset(x) ==
    /\ ~fault
    /\ inner[x] \in {"zero", "pointer"}
    /\ IF inner[x] = "pointer" THEN Releases(x) ELSE UNCHANGED refs
    /\ UNCHANGED <<javaVars, callbacks, of, busy, fault>>

\* Destroying the null of a context that could not be made does nothing.
Context_close(x) ==
    /\ ~fault
    /\ inner[x] \in {"zero", "pointer"}
    /\ Becomes(x, "NULL")
    /\ IF inner[x] = "pointer" THEN Releases(x) ELSE UNCHANGED refs
    /\ UNCHANGED <<arena, confined, callbacks, of, busy, fault>>

----------------------------------------------------------------------------
(* Chainstate.java *)

\* When the directories cannot be made the result is null, which is not
\* found.  Otherwise the context is read; nothing checks that it is open.
ChainstateManagerOptions_new(t, p, x) ==
    /\ ~fault
    /\ inner[p] = "none"
    /\ inner[x] # "none" /\ Usable(x)
    /\ confined' = [confined EXCEPT ![p] = {t}]
    /\ \/ /\ Becomes(p, "pointer")
          /\ fault' = (inner[x] # "pointer" \/ Gone(x))
          /\ of' = [of EXCEPT ![p] = x]
          /\ Shares(x)
       \/ /\ "chainOpts" \in MayFail
          /\ Becomes(p, "zero")
          /\ UNCHANGED <<of, refs, fault>>
    /\ UNCHANGED <<arena, callbacks, busy>>

\* setWorkerThreads, updateBlockTreeDbInMemory, updateChainstateDbInMemory
\* and, when it does not refuse, setWipeDbs
ChainstateManagerOptions_set(p) ==
    /\ ~fault
    /\ Passes(p)
    /\ fault' = (inner[p] = "zero")
    /\ UNCHANGED <<javaVars, nativeVars, busy>>

\* Mutant: the share of the context is not given up.
ChainstateManagerOptions_close_keeps(t, p) ==
    /\ ~fault
    /\ inner[p] # "none"
    /\ t \notin confined[p] => "closesElsewhere" \in Careless
    /\ Becomes(p, "NULL")
    /\ confined' = [confined EXCEPT ![p] = @ \ {t}]
    /\ UNCHANGED <<arena, nativeVars, busy, fault>>

\* Mutant: the arena is left open.
ChainstateManagerOptions_close_noArena(t, p) ==
    /\ ~fault
    /\ inner[p] # "none"
    /\ t \notin confined[p] => "closesElsewhere" \in Careless
    /\ Becomes(p, "NULL")
    /\ IF inner[p] = "pointer" THEN Releases(of[p]) ELSE UNCHANGED refs
    /\ UNCHANGED <<arena, confined, callbacks, of, busy, fault>>

\* The arena is closed in any case, which throws when t is not its thread or
\* when it is closed already.
ChainstateManagerOptions_close(t, p) ==
    /\ ~fault
    /\ inner[p] # "none"
    /\ t \notin confined[p] => "closesElsewhere" \in Careless
    /\ Becomes(p, "NULL")
    /\ confined' = [confined EXCEPT ![p] = @ \ {t}]
    /\ IF inner[p] = "pointer" THEN Releases(of[p]) ELSE UNCHANGED refs
    /\ UNCHANGED <<arena, callbacks, of, busy, fault>>

\* Mutant: the manager keeps the context without counting its share.
ChainstateManager_new_uncounted(m, p) ==
    /\ ~fault
    /\ inner[m] = "none"
    /\ inner[p] # "none" /\ Usable(p)
    /\ IF inner[p] # "pointer" \/ Gone(of[p])
       THEN fault' = TRUE /\ UNCHANGED <<inner, of>>
       ELSE /\ MayNotify(of[p])
            /\ Becomes(m, "pointer")
            /\ of' = [of EXCEPT ![m] = of[p]]
    /\ UNCHANGED <<arena, confined, callbacks, refs, busy>>

\* Null options are read.  Loading the chainstate notifies, also when it
\* ends in failure and so in null, which is not found.
ChainstateManager_new(m, p) ==
    /\ ~fault
    /\ inner[m] = "none"
    /\ inner[p] # "none" /\ Usable(p)
    /\ IF inner[p] # "pointer" \/ Gone(of[p])
       THEN /\ fault' = TRUE
            /\ UNCHANGED <<inner, of, refs>>
       ELSE /\ MayNotify(of[p])
            /\ \/ /\ Becomes(m, "pointer")
                  /\ of' = [of EXCEPT ![m] = of[p]]
                  /\ Shares(of[p])
               \/ /\ "chainman" \in MayFail
                  /\ Becomes(m, "zero")
                  /\ UNCHANGED <<of, refs>>
    /\ UNCHANGED <<arena, confined, callbacks, busy>>

\* ProcessBlock and ImportBlocks: thread t goes into native code.
ChainstateManager_begin(t, m) ==
    /\ ~fault
    /\ busy[t] = Nil
    /\ Passes(m)
    /\ busy' = [busy EXCEPT ![t] = m]
    /\ fault' = (inner[m] = "zero")
    /\ UNCHANGED <<javaVars, nativeVars>>

\* The native code thread t is in makes an upcall.
Notify(t, e) ==
    /\ ~fault
    /\ busy[t] # Nil
    /\ e \in Events
    /\ fault' = \/ inner[busy[t]] # "pointer"
                \/ Gone(of[busy[t]])
                \/ UpcallFails(of[busy[t]], e)
    /\ UNCHANGED <<javaVars, nativeVars, busy>>

\* It returns, having used the manager to the end.
ChainstateManager_end(t) ==
    /\ ~fault
    /\ busy[t] # Nil
    /\ busy' = [busy EXCEPT ![t] = Nil]
    /\ fault' = (inner[busy[t]] # "pointer" \/ Gone(of[busy[t]]))
    /\ UNCHANGED <<javaVars, nativeVars>>

\* The destroy function flushes, which may notify, before the object goes.
\* It reads the null of a manager that could not be made.
ChainstateManager_close(m) ==
    /\ ~fault
    /\ inner[m] \in {"zero", "pointer"}
    /\ (\E t \in Thread : busy[t] = m) => "closesBusy" \in Careless
    /\ Becomes(m, "NULL")
    /\ IF inner[m] = "zero" \/ Gone(of[m])
       THEN /\ fault' = TRUE
            /\ UNCHANGED refs
       ELSE /\ MayNotify(of[m])
            /\ Releases(of[m])
    /\ UNCHANGED <<arena, confined, callbacks, of, busy>>

Next ==
    \/ \E m \in Manager : Manager_new(m) \/ Manager_close(m)
    \/ \E o \in Options : ContextOptions_new(o) \/ ContextOptions_close(o)
    \/ \E o \in Options, s \in Slot, m \in Manager : ContextOptions_set(o, s, m)
    \/ \E x \in Ctx, o \in Options \cup {Nil} : Context_new(x, o)
    \/ \E x \in Ctx : Context_interrupt(x) \/ Context_close(x)
    \/ \E t \in Thread, p \in ChainOpts, x \in Ctx :
          ChainstateManagerOptions_new(t, p, x)
    \/ \E p \in ChainOpts : ChainstateManagerOptions_set(p)
    \/ \E t \in Thread, p \in ChainOpts : ChainstateManagerOptions_close(t, p)
    \/ \E m \in Chainman, p \in ChainOpts : ChainstateManager_new(m, p)
    \/ \E t \in Thread, m \in Chainman : ChainstateManager_begin(t, m)
    \/ \E t \in Thread, e \in Events : Notify(t, e)
    \/ \E t \in Thread : ChainstateManager_end(t)
    \/ \E m \in Chainman : ChainstateManager_close(m)

Spec == Init /\ [][Next]_vars

----------------------------------------------------------------------------
(* Properties *)

Holders(x) ==
    {d \in Derived : inner[d] = "pointer" /\ of[d] = x}
        \cup {y \in {x} : inner[y] = "pointer"}

\* Whatever order the objects are closed in, and by which threads, the use
\* count of a native context is the number of Java objects that hold it: it
\* does not go while ChainMan or the options need it (the shared_ptr members
\* of both), and it goes with the last of them.
RefsExact ==
    ~fault => \A x \in Ctx : refs[x] = Cardinality(Holders(x))

\* A client without the mistakes, when nothing fails and no event has a
\* text, sees no native code use memory or a stub that is gone, and no
\* exception in an upcall.
NativeSafe == ~fault

\* When a manager of notifications is closed only after the options and
\* contexts it was given to, the stubs a chainstate manager may call work:
\* also after the options and the Java Context are closed.
StubsStayOpen ==
    \A m \in Chainman, s \in Slot :
        inner[m] = "pointer" /\ callbacks[of[m]][s] # Nil =>
            arena[callbacks[of[m]][s]] = "open"

\* What options are given later does not reach the contexts made from them
\* (Context takes m_notifications over; a setter makes a new object).
ContextKeepsCallbacks ==
    [][\A x \in Ctx : refs[x] > 0 => callbacks'[x] = callbacks[x]]_vars

\* Closing chainstate manager options on the thread that made them closes
\* their arena, and the two never part.
ArenaFollowsOptions ==
    \A p \in ChainOpts : confined[p] = {} <=> inner[p] \in {"none", "NULL"}

----------------------------------------------------------------------------
(* Inductive invariants *)

\* The client of the run named sound, who may also close chainstate manager
\* options on another thread than the one that made them.
SoundClient ==
    Careless \subseteq {"closesElsewhere"} /\ MayFail = {} /\ "text" \notin Events

\* What holds a share knows whose.
SharersKnown ==
    ~fault => \A d \in Derived : inner[d] = "pointer" => of[d] \in Ctx

\* What holds a share of a context got it from a Context that was made.
SharedIsMade ==
    ~fault => \A d \in Derived :
                 inner[d] = "pointer" => of[d] \in Ctx /\ inner[of[d]] # "none"

\* The arena of chainstate manager options belongs to one thread.
OneThreadConfines ==
    \A p \in ChainOpts : confined[p] = {} \/ \E t \in Thread : confined[p] = {t}

\* Every stub that a native object has works.
CallableIsOpen == \A m \in Manager : Callable(m) => arena[m] = "open"

\* A call in progress is into a manager that is open.
BusyIsOpen == \A t \in Thread : busy[t] # Nil => inner[busy[t]] = "pointer"

NothingFailed == \A d \in Native : inner[d] # "zero"

NewOptionsAreEmpty ==
    \A o \in Options : inner[o] = "none" => callbacks[o] = NoCallbacks

SoundInv ==
    /\ NativeSafe
    /\ CallableIsOpen
    /\ BusyIsOpen
    /\ NothingFailed
    /\ NewOptionsAreEmpty
=============================================================================
