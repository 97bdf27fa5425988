------------------------------- MODULE Kernel -------------------------------
(***************************************************************************)
(* The facade BitcoinKernel.java: a constructor that builds options, two   *)
(* managers of notifications, a context and a chainstate manager one after *)
(* the other, and a close() that closes two of them.  Each kernel has one  *)
(* object of every class of module Context; the pair names it.             *)
(***************************************************************************)
EXTENDS Integers, FiniteSets

CONSTANTS
    Kernel,     \* the BitcoinKernel objects
    Thread,
    Nil,
    MayFail,    \* as in Context
    Events      \* as in Context

Each(part) == Kernel \X {part}

VARIABLES
    pc,         \* what the constructor or close() of each kernel does next
    maker,      \* the thread that runs the constructor of each kernel
    inner, arena, confined, callbacks, of, refs, busy, fault

\* The constructor passes objects on without looking at them.  Nothing
\* stops a client from closing a kernel that another thread works with;
\* this one waits.
C == INSTANCE Context WITH
        Notifier <- Each("notifications"), Validator <- Each("validation"),
        Options <- Each("options"), Ctx <- Each("context"),
        ChainOpts <- Each("chainOpts"), Chainman <- Each("chainman"),
        Careless <- {"usesUnusable"}

PartName == {"notifications", "validation", "options", "context", "chainOpts",
             "chainman"}

ASSUME KernelAssumption ==
    /\ Nil \notin Thread \cup Kernel \cup (Kernel \X PartName)
    /\ MayFail \subseteq {"context", "chainOpts", "chainman"}
    /\ Events \subseteq C!AllEvents

parts == <<inner, arena, confined, callbacks, of, refs, busy, fault>>

vars == <<pc, maker, parts>>

Steps == {"notifications", "setNotifications", "validation", "setValidation",
          "context", "chainOpts", "chainman"}

TypeOK ==
    /\ pc \in [Kernel -> {"none", "open", "closing", "closed"} \cup Steps]
    /\ maker \in [Kernel -> Thread \cup {Nil}]
    /\ C!TypeOK

Init ==
    /\ pc = [k \in Kernel |-> "none"]
    /\ maker = [k \in Kernel |-> Nil]
    /\ C!Init

\* Thread t is inside a constructor.
Constructing(t) == \E k \in Kernel : maker[k] = t /\ pc[k] \in Steps

Goes(k, from, to) == pc[k] = from /\ pc' = [pc EXCEPT ![k] = to]

----------------------------------------------------------------------------
(* The constructor *)

\* The chain parameters, which nothing else here refers to, and the options
\* they are set in.
BitcoinKernel_new(t, k) ==
    /\ Goes(k, "none", "notifications")
    /\ busy[t] = Nil
    /\ ~Constructing(t)
    /\ maker' = [maker EXCEPT ![k] = t]
    /\ C!ContextOptions_new(<<k, "options">>)

\* new KernelNotificationManager and new ValidationInterfaceManager
Constructs_manager(k) ==
    /\ \/ /\ Goes(k, "notifications", "setNotifications")
          /\ C!Manager_new(<<k, "notifications">>)
       \/ /\ Goes(k, "validation", "setValidation")
          /\ C!Manager_new(<<k, "validation">>)
    /\ UNCHANGED maker

\* Mutant: the validation interface is made but not set.
Constructs_set_once(k) ==
    /\ \/ /\ Goes(k, "setNotifications", "validation")
          /\ C!ContextOptions_set(<<k, "options">>, "notifications",
                                  <<k, "notifications">>)
       \/ /\ Goes(k, "setValidation", "context")
          /\ UNCHANGED parts
    /\ UNCHANGED maker

\* contextOptions.setNotifications and setValidationInterface
Constructs_set(k) ==
    /\ \/ /\ Goes(k, "setNotifications", "validation")
          /\ C!ContextOptions_set(<<k, "options">>, "notifications",
                                  <<k, "notifications">>)
       \/ /\ Goes(k, "setValidation", "context")
          /\ C!ContextOptions_set(<<k, "options">>, "validation",
                                  <<k, "validation">>)
    /\ UNCHANGED maker

Constructs_context(k) ==
    /\ Goes(k, "context", "chainOpts")
    /\ C!Context_new(<<k, "context">>, <<k, "options">>)
    /\ UNCHANGED maker

Constructs_options(k) ==
    /\ Goes(k, "chainOpts", "chainman")
    /\ C!ChainstateManagerOptions_new(maker[k], <<k, "chainOpts">>,
                                      <<k, "context">>)
    /\ UNCHANGED maker

Constructs_chainman(k) ==
    /\ Goes(k, "chainman", "open")
    /\ C!ChainstateManager_new(<<k, "chainman">>, <<k, "chainOpts">>)
    /\ UNCHANGED maker

----------------------------------------------------------------------------
(* Calls through getChainstateManager() and getContext() *)

Built(k) == pc[k] \notin Steps \cup {"none"}

Calls(t, k) ==
    /\ Built(k)
    /\ ~Constructing(t)
    /\ C!ChainstateManager_begin(t, <<k, "chainman">>)
    /\ UNCHANGED <<pc, maker>>

Upcalls(t, e) ==
    /\ C!Notify(t, e)
    /\ UNCHANGED <<pc, maker>>

Returns(t) ==
    /\ C!ChainstateManager_end(t)
    /\ UNCHANGED <<pc, maker>>

Interrupts(k) ==
    /\ Built(k)
    /\ C!Context_interrupt(<<k, "context">>)
    /\ UNCHANGED <<pc, maker>>

\* The client may close what it got from the kernel, before close() does.
Client_closes(k) ==
    /\ Built(k)
    /\ C!ChainstateManager_close(<<k, "chainman">>) \/ C!Context_close(<<k, "context">>)
    /\ UNCHANGED <<pc, maker>>

----------------------------------------------------------------------------
(* close() *)

\* A second close of either object does nothing.
Closes_chainman(k) ==
    /\ Goes(k, "open", "closing")
    /\ IF inner[<<k, "chainman">>] = "NULL"
       THEN ~fault /\ UNCHANGED parts
       ELSE C!ChainstateManager_close(<<k, "chainman">>)
    /\ UNCHANGED maker

Closes_context(k) ==
    /\ Goes(k, "closing", "closed")
    /\ IF inner[<<k, "context">>] = "NULL"
       THEN ~fault /\ UNCHANGED parts
       ELSE C!Context_close(<<k, "context">>)
    /\ UNCHANGED maker

Next ==
    \/ \E t \in Thread, k \in Kernel : BitcoinKernel_new(t, k) \/ Calls(t, k)
    \/ \E k \in Kernel :
          \/ Constructs_manager(k) \/ Constructs_set(k) \/ Constructs_context(k)
          \/ Constructs_options(k) \/ Constructs_chainman(k)
          \/ Interrupts(k) \/ Client_closes(k)
          \/ Closes_chainman(k) \/ Closes_context(k)
    \/ \E t \in Thread, e \in Events : Upcalls(t, e)
    \/ \E t \in Thread : Returns(t)

Spec == Init /\ [][Next]_vars

----------------------------------------------------------------------------
(* Properties *)

\* No thread that uses a kernel the way its API allows ends in a native fault,
\* however several kernels are built, used, closed and closed again.
KernelSafe == ~fault

\* A thread inside a kernel is heard by the logger of that kernel: both
\* structs of callbacks are its own, and the stubs work as long as it is in,
\* although the constructor keeps no reference to the managers.
EventsReachLogger ==
    \A t \in Thread, k \in Kernel, s \in C!Slot :
        busy[t] = <<k, "chainman">> =>
            /\ callbacks[<<k, "context">>][s] = <<k, s>>
            /\ arena[<<k, s>>] = "open"

StateOf(k) ==
    IF pc[k] = "none" THEN "none"
    ELSE IF pc[k] \in Steps THEN "building"
    ELSE IF inner[<<k, "chainman">>] = "pointer" THEN "open"
    ELSE "closed"

InsideOf(t) == IF busy[t] = Nil THEN Nil ELSE busy[t][1]

Service == INSTANCE KernelService WITH
              state <- [k \in Kernel |-> StateOf(k)],
              inside <- [t \in Thread |-> InsideOf(t)]

\* The facade implements the service: it is open from the end of the
\* constructor to the first close of the chainstate manager, by whomever,
\* and never again.
ImplementsService == Service!Spec

\* "@throws KernelTypes.KernelException If initialization fails": a kernel
\* whose constructor returned has a chainstate manager.
FailureIsReported ==
    \A k \in Kernel : pc[k] = "open" /\ ~fault => inner[<<k, "chainman">>] # "zero"

\* "Memory-safe with proper resource management using AutoCloseable": when
\* close() has returned the native context is released.
CloseReleases ==
    \A k \in Kernel : pc[k] = "closed" => refs[<<k, "context">>] = 0

\* "logger The logger for kernel events": an event, whichever it is, goes to
\* the logger and does not end the process.
EveryEventIsLogged ==
    \A t \in Thread, e \in Events :
        busy[t] # Nil => ~C!UpcallFails(of[busy[t]], e)

----------------------------------------------------------------------------
(* Inductive invariant *)

\* The constructor has not come to the context.
Early == {"none"} \cup (Steps \ {"chainOpts", "chainman"})

Share(d) == IF inner[d] = "pointer" THEN 1 ELSE 0

\* What the constructor of k has made so far and close() has left, and the
\* shares of the context.
PartsInv(k) ==
    /\ inner[<<k, "options">>] = IF pc[k] = "none" THEN "none" ELSE "pointer"
    /\ arena[<<k, "notifications">>] =
          IF pc[k] \in {"none", "notifications"} THEN "none" ELSE "open"
    /\ arena[<<k, "validation">>] =
          IF pc[k] \in Early \ {"setValidation", "context"} THEN "none" ELSE "open"
    /\ pc[k] \notin {"none", "notifications", "setNotifications"} =>
          callbacks[<<k, "options">>]["notifications"] = <<k, "notifications">>
    /\ pc[k] \notin Early \ {"context"} =>
          callbacks[<<k, "options">>]["validation"] = <<k, "validation">>
    /\ inner[<<k, "context">>] = "none" <=> pc[k] \in Early
    /\ pc[k] \in {"chainOpts", "chainman"} => inner[<<k, "context">>] # "NULL"
    /\ inner[<<k, "chainOpts">>] = "none" <=> pc[k] \in Early \cup {"chainOpts"}
    /\ inner[<<k, "chainOpts">>] # "NULL"
    /\ inner[<<k, "chainman">>] = "none" <=> ~Built(k)
    /\ refs[<<k, "context">>] = Share(<<k, "context">>) + Share(<<k, "chainOpts">>)
                                                       + Share(<<k, "chainman">>)
    /\ \A part \in {"chainOpts", "chainman"} :
          inner[<<k, part>>] = "pointer" => of[<<k, part>>] = <<k, "context">>
    /\ refs[<<k, "context">>] > 0 =>
          \A s \in C!Slot : callbacks[<<k, "context">>][s] = <<k, s>>

\* A thread that is in native code is in an open kernel.
InsideInv ==
    \A t \in Thread : busy[t] # Nil =>
        \E k \in Kernel : busy[t] = <<k, "chainman">> /\ inner[busy[t]] = "pointer"

\* Where an object could not be made, only up to the fault that follows.
KernelInv ==
    /\ TypeOK
    /\ \A k \in Kernel : pc[k] \in Steps => maker[k] \in Thread
    /\ ~fault \/ MayFail = {} => InsideInv /\ \A k \in Kernel : PartsInv(k)
    /\ MayFail = {} => \A d \in C!Native : inner[d] # "zero"
    /\ MayFail = {} /\ "text" \notin Events => ~fault
=============================================================================
