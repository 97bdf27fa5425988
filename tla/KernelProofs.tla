---------------------------- MODULE KernelProofs ----------------------------
(* Proofs about the specification in Kernel, for any number of kernels and *)
(* threads.                                                                *)
EXTENDS Kernel, TLAPS

----------------------------------------------------------------------------
(* The parts of a kernel *)

InnerName == {"options", "context", "chainOpts", "chainman"}

LEMMA Names ==
    /\ "options" \in InnerName /\ "context" \in InnerName
    /\ "chainOpts" \in InnerName /\ "chainman" \in InnerName
  BY DEF InnerName

\* Which sets of module Context the parts of a kernel are in.
LEMMA PartsOfKernel ==
    ASSUME NEW k \in Kernel
    PROVE  /\ <<k, "notifications">> \in C!Manager
           /\ <<k, "notifications">> \in C!ManagerOf("notifications")
           /\ <<k, "validation">> \in C!Manager
           /\ <<k, "validation">> \in C!ManagerOf("validation")
           /\ <<k, "options">> \in Each("options")
           /\ <<k, "context">> \in Each("context")
           /\ <<k, "chainOpts">> \in Each("chainOpts")
           /\ <<k, "chainman">> \in Each("chainman")
           /\ <<k, "chainOpts">> \in C!Derived
           /\ <<k, "chainman">> \in C!Derived
           /\ \A part \in InnerName : <<k, part>> \in C!Native
           /\ \A part \in PartName : <<k, part>> # Nil
  BY KernelAssumption
  DEF Each, C!Manager, C!ManagerOf, C!Derived, C!Native, InnerName, PartName

\* Two parts are the same only when kernel and name are.
LEMMA PartsDiffer ==
    ASSUME NEW k, NEW l, NEW a, NEW b, k # l \/ a # b
    PROVE  <<k, a>> # <<l, b>>
  OBVIOUS

\* An assignment to the field inner of one part.
LEMMA BecomesAt ==
    ASSUME TypeOK, NEW k \in Kernel, NEW part \in InnerName, NEW s,
           C!Becomes(<<k, part>>, s)
    PROVE  /\ inner'[<<k, part>>] = s
           /\ \A l \in Kernel, a \in InnerName :
                 l # k \/ a # part => inner'[<<l, a>>] = inner[<<l, a>>]
           /\ \A d \in C!Native : inner'[d] \in {inner[d], s}
           /\ s \in {"none", "NULL", "zero", "pointer"} =>
                 inner' \in [C!Native -> {"none", "NULL", "zero", "pointer"}]
<1>1. inner \in [C!Native -> {"none", "NULL", "zero", "pointer"}]
  BY DEF TypeOK, C!TypeOK
<1>2. inner' = [inner EXCEPT ![<<k, part>>] = s]
  BY DEF C!Becomes
<1>3. /\ <<k, part>> \in C!Native
      /\ \A l \in Kernel, a \in InnerName : <<l, a>> \in C!Native
  BY PartsOfKernel, Zenon
<1>4. \A l \in Kernel, a \in InnerName :
         l # k \/ a # part => <<l, a>> # <<k, part>>
  BY PartsDiffer
<1> QED
  BY <1>1, <1>2, <1>3, <1>4

\* The use count of a context.
LEMMA CountAt ==
    ASSUME TypeOK, NEW k \in Kernel
    PROVE  /\ refs[<<k, "context">>] \in Nat
           /\ C!Shares(<<k, "context">>) =>
                 /\ refs' \in [Each("context") -> Nat]
                 /\ refs'[<<k, "context">>] = refs[<<k, "context">>] + 1
                 /\ \A l \in Kernel \ {k} :
                       refs'[<<l, "context">>] = refs[<<l, "context">>]
           /\ C!Releases(<<k, "context">>) /\ refs[<<k, "context">>] > 0 =>
                 /\ refs' \in [Each("context") -> Nat]
                 /\ refs'[<<k, "context">>] = refs[<<k, "context">>] - 1
                 /\ \A l \in Kernel \ {k} :
                       refs'[<<l, "context">>] = refs[<<l, "context">>]
<1>1. refs \in [Each("context") -> Nat]
  BY DEF TypeOK, C!TypeOK
<1>2. /\ \A l \in Kernel : <<l, "context">> \in Each("context")
      /\ \A l \in Kernel \ {k} : <<l, "context">> # <<k, "context">>
  BY PartsOfKernel, PartsDiffer, Zenon
<1>3. refs[<<k, "context">>] \in Nat
  BY <1>1, <1>2
<1>4. ASSUME NEW n \in Nat, refs' = [refs EXCEPT ![<<k, "context">>] = n]
      PROVE  /\ refs' \in [Each("context") -> Nat]
             /\ refs'[<<k, "context">>] = n
             /\ \A l \in Kernel \ {k} :
                   refs'[<<l, "context">>] = refs[<<l, "context">>]
  BY <1>1, <1>2, <1>4
<1>5. ASSUME C!Shares(<<k, "context">>)
      PROVE  refs' = [refs EXCEPT ![<<k, "context">>] = refs[<<k, "context">>] + 1]
  BY <1>5 DEF C!Shares
<1>6. ASSUME C!Releases(<<k, "context">>)
      PROVE  refs' = [refs EXCEPT ![<<k, "context">>] = refs[<<k, "context">>] - 1]
  BY <1>6 DEF C!Releases
<1>7. /\ refs[<<k, "context">>] + 1 \in Nat
      /\ refs[<<k, "context">>] > 0 => refs[<<k, "context">>] - 1 \in Nat
  BY <1>3
<1> QED
  BY <1>3, <1>4, <1>5, <1>6, <1>7

\* The shares of the context of k.
LEMMA SharesOf ==
    ASSUME NEW k \in Kernel, PartsInv(k)
    PROVE  refs[<<k, "context">>] = Share(<<k, "context">>)
              + Share(<<k, "chainOpts">>) + Share(<<k, "chainman">>)
  BY DEF PartsInv

LEMMA ShareCases ==
    ASSUME NEW d
    PROVE  /\ Share(d) \in {0, 1}
           /\ Share(d) = 1 <=> inner[d] = "pointer"
  BY DEF Share

\* Whoever has a share keeps the context.
LEMMA ShareCounts ==
    ASSUME NEW k \in Kernel, PartsInv(k),
           NEW part \in {"context", "chainOpts", "chainman"},
           inner[<<k, part>>] = "pointer"
    PROVE  refs[<<k, "context">>] > 0
<1>1. /\ Share(<<k, "context">>) \in {0, 1} /\ Share(<<k, "chainOpts">>) \in {0, 1}
      /\ Share(<<k, "chainman">>) \in {0, 1} /\ Share(<<k, part>>) = 1
  BY ShareCases
<1> QED
  BY <1>1, SharesOf

\* Nothing of l changes.
Untouched(l) ==
    /\ pc'[l] = pc[l] /\ maker'[l] = maker[l]
    /\ \A part \in InnerName : inner'[<<l, part>>] = inner[<<l, part>>]
    /\ \A s \in C!Slot : arena'[<<l, s>>] = arena[<<l, s>>]
    /\ callbacks'[<<l, "options">>] = callbacks[<<l, "options">>]
    /\ callbacks'[<<l, "context">>] = callbacks[<<l, "context">>]
    /\ of'[<<l, "chainOpts">>] = of[<<l, "chainOpts">>]
    /\ of'[<<l, "chainman">>] = of[<<l, "chainman">>]
    /\ refs'[<<l, "context">>] = refs[<<l, "context">>]

LEMMA UntouchedParts ==
    ASSUME NEW l \in Kernel, PartsInv(l), Untouched(l)
    PROVE  PartsInv(l)'
<1>1. /\ pc'[l] = pc[l]
      /\ inner'[<<l, "options">>] = inner[<<l, "options">>]
      /\ inner'[<<l, "context">>] = inner[<<l, "context">>]
      /\ inner'[<<l, "chainOpts">>] = inner[<<l, "chainOpts">>]
      /\ inner'[<<l, "chainman">>] = inner[<<l, "chainman">>]
      /\ arena'[<<l, "notifications">>] = arena[<<l, "notifications">>]
      /\ arena'[<<l, "validation">>] = arena[<<l, "validation">>]
      /\ callbacks'[<<l, "options">>] = callbacks[<<l, "options">>]
      /\ callbacks'[<<l, "context">>] = callbacks[<<l, "context">>]
      /\ of'[<<l, "chainOpts">>] = of[<<l, "chainOpts">>]
      /\ of'[<<l, "chainman">>] = of[<<l, "chainman">>]
      /\ refs'[<<l, "context">>] = refs[<<l, "context">>]
  BY DEF Untouched, InnerName, C!Slot
<1> QED
  BY <1>1 DEF PartsInv, Share, Built

\* What a step of one kernel has to show.
LEMMA StepOfKernel ==
    ASSUME KernelInv, NEW k \in Kernel, ~fault, TypeOK',
           \A l \in Kernel \ {k} : Untouched(l),
           pc'[k] \in Steps => maker'[k] \in Thread,
           ~fault' \/ MayFail = {} => InsideInv' /\ PartsInv(k)',
           MayFail = {} => \A d \in C!Native : inner'[d] # "zero",
           MayFail = {} /\ "text" \notin Events => ~fault'
    PROVE  KernelInv'
<1>1. \A l \in Kernel \ {k} : PartsInv(l)'
  BY UntouchedParts DEF KernelInv
<1>2. \A l \in Kernel : pc'[l] \in Steps => maker'[l] \in Thread
  BY Zenon DEF KernelInv, Untouched
<1> QED
  BY <1>1, <1>2 DEF KernelInv

\* Threads stay where they are, in managers that stay open.
LEMMA InsideKept ==
    ASSUME InsideInv, UNCHANGED busy,
           \A l \in Kernel : inner[<<l, "chainman">>] = "pointer" =>
              inner'[<<l, "chainman">>] = "pointer" \/ \A t \in Thread : busy[t] # <<l, "chainman">>
    PROVE  InsideInv'
  BY DEF InsideInv

----------------------------------------------------------------------------
(* The constructor *)

\* The step of a constructor, for the places it goes through.
LEMMA GoesAt ==
    ASSUME TypeOK, NEW k \in Kernel, NEW from, NEW to, Goes(k, from, to),
           to \in {"none", "open", "closing", "closed"} \cup Steps
    PROVE  /\ pc[k] = from /\ pc'[k] = to
           /\ \A l \in Kernel \ {k} : pc'[l] = pc[l]
           /\ pc' \in [Kernel -> {"none", "open", "closing", "closed"} \cup Steps]
  BY DEF TypeOK, Goes

\* The options are made.
LEMMA NewStep ==
    ASSUME KernelInv, NEW t \in Thread, NEW k \in Kernel, BitcoinKernel_new(t, k)
    PROVE  KernelInv'
<1>1. TypeOK /\ C!TypeOK
  BY DEF KernelInv, TypeOK
<1>2. /\ Goes(k, "none", "notifications") /\ maker' = [maker EXCEPT ![k] = t]
      /\ ~fault /\ C!Becomes(<<k, "options">>, "pointer")
      /\ UNCHANGED <<arena, confined, callbacks, of, refs, busy, fault>>
  BY DEF BitcoinKernel_new, C!ContextOptions_new, C!nativeVars
<1>3. InsideInv /\ PartsInv(k)
  BY <1>2 DEF KernelInv
<1>4. /\ pc[k] = "none" /\ pc'[k] = "notifications"
      /\ \A l \in Kernel \ {k} : pc'[l] = pc[l]
      /\ pc' \in [Kernel -> {"none", "open", "closing", "closed"} \cup Steps]
  BY <1>1, <1>2, GoesAt DEF Steps
<1>5. /\ inner'[<<k, "options">>] = "pointer"
      /\ \A l \in Kernel, a \in InnerName :
            l # k \/ a # "options" => inner'[<<l, a>>] = inner[<<l, a>>]
      /\ \A d \in C!Native : inner'[d] \in {inner[d], "pointer"}
      /\ inner' \in [C!Native -> {"none", "NULL", "zero", "pointer"}]
  <2>1. C!Becomes(<<k, "options">>, "pointer")
    BY <1>2
  <2>2. "options" \in InnerName
    BY Names
  <2> QED
    BY <1>1, <2>1, <2>2, BecomesAt
<1>6. /\ maker' \in [Kernel -> Thread \cup {Nil}] /\ maker'[k] = t
      /\ \A l \in Kernel \ {k} : maker'[l] = maker[l]
  BY <1>1, <1>2 DEF TypeOK
<1>7. TypeOK'
  BY <1>1, <1>2, <1>4, <1>5, <1>6 DEF TypeOK, C!TypeOK
<1>8. \A l \in Kernel \ {k} : Untouched(l)
  BY <1>2, <1>4, <1>5, <1>6 DEF Untouched
<1>9. InsideInv'
  BY <1>2, <1>3, <1>5, InsideKept, Zenon DEF InnerName
<1>10. PartsInv(k)'
  <2>1. /\ inner'[<<k, "context">>] = inner[<<k, "context">>]
        /\ inner'[<<k, "chainOpts">>] = inner[<<k, "chainOpts">>]
        /\ inner'[<<k, "chainman">>] = inner[<<k, "chainman">>]
    BY <1>5 DEF InnerName
  <2> QED
    BY <1>2, <1>3, <1>4, <1>5, <2>1 DEF PartsInv, Share, Built, Early, Steps
<1>11. MayFail = {} => \A d \in C!Native : inner'[d] # "zero"
  BY <1>5 DEF KernelInv
<1> QED
  BY <1>2, <1>6, <1>7, <1>8, <1>9, <1>10, <1>11, StepOfKernel DEF KernelInv

\* The two managers are made.
LEMMA ManagerStep ==
    ASSUME KernelInv, NEW k \in Kernel, Constructs_manager(k)
    PROVE  KernelInv'
<1>1. TypeOK /\ C!TypeOK
  BY DEF KernelInv, TypeOK
<1>2. PICK s \in C!Slot :
         /\ \/ s = "notifications" /\ Goes(k, "notifications", "setNotifications")
            \/ s = "validation" /\ Goes(k, "validation", "setValidation")
         /\ C!Manager_new(<<k, s>>)
  BY DEF Constructs_manager, C!Slot
<1>3. /\ ~fault /\ arena' = [arena EXCEPT ![<<k, s>>] = "open"]
      /\ UNCHANGED <<maker, inner, confined, callbacks, of, refs, busy, fault>>
  BY <1>2 DEF Constructs_manager, C!Manager_new, C!nativeVars
<1>4. InsideInv /\ PartsInv(k)
  BY <1>3 DEF KernelInv
<1>5. /\ \/ /\ s = "notifications"
            /\ pc[k] = "notifications" /\ pc'[k] = "setNotifications"
         \/ /\ s = "validation"
            /\ pc[k] = "validation" /\ pc'[k] = "setValidation"
      /\ \A l \in Kernel \ {k} : pc'[l] = pc[l]
      /\ pc' \in [Kernel -> {"none", "open", "closing", "closed"} \cup Steps]
  BY <1>1, <1>2, GoesAt DEF Steps
<1>6. /\ arena' \in [C!Manager -> {"none", "open", "closed"}]
      /\ arena'[<<k, s>>] = "open"
      /\ \A l \in Kernel, r \in C!Slot :
            l # k \/ r # s => arena'[<<l, r>>] = arena[<<l, r>>]
  <2>1. \A l \in Kernel, r \in C!Slot : <<l, r>> \in C!Manager
    BY PartsOfKernel, Zenon DEF C!Slot
  <2>2. \A l \in Kernel, r \in C!Slot : l # k \/ r # s => <<l, r>> # <<k, s>>
    BY PartsDiffer
  <2> QED
    BY <1>1, <1>3, <2>1, <2>2 DEF C!TypeOK
<1>7. TypeOK'
  BY <1>1, <1>3, <1>5, <1>6 DEF TypeOK, C!TypeOK
<1>8. \A l \in Kernel \ {k} : Untouched(l)
  BY <1>3, <1>5, <1>6 DEF Untouched
<1>9. InsideInv'
  BY <1>3, <1>4, InsideKept
<1>10. PartsInv(k)'
  <2>1. CASE s = "notifications"
    <3>1. arena'[<<k, "validation">>] = arena[<<k, "validation">>]
      BY <1>6, <2>1 DEF C!Slot
    <3> QED
      BY <1>3, <1>4, <1>5, <1>6, <2>1, <3>1, ZenonT(30)
      DEF PartsInv, Share, Built, Early, Steps
  <2>2. CASE s = "validation"
    <3>1. arena'[<<k, "notifications">>] = arena[<<k, "notifications">>]
      BY <1>6, <2>2 DEF C!Slot
    <3> QED
      BY <1>3, <1>4, <1>5, <1>6, <2>2, <3>1, ZenonT(30)
      DEF PartsInv, Share, Built, Early, Steps
  <2> QED
    BY <2>1, <2>2 DEF C!Slot
<1>11. pc'[k] \in Steps => maker'[k] \in Thread
  BY <1>3, <1>5 DEF KernelInv, Steps
<1> QED
  BY <1>3, <1>7, <1>8, <1>9, <1>10, <1>11, StepOfKernel DEF KernelInv

\* The two managers are set in the options.
LEMMA SetStep ==
    ASSUME KernelInv, NEW k \in Kernel, Constructs_set(k)
    PROVE  KernelInv'
<1> DEFINE o == <<k, "options">>
<1>1. TypeOK /\ C!TypeOK
  BY DEF KernelInv, TypeOK
<1>2. PICK s \in C!Slot :
         /\ \/ s = "notifications" /\ Goes(k, "setNotifications", "validation")
            \/ s = "validation" /\ Goes(k, "setValidation", "context")
         /\ C!ContextOptions_set(o, s, <<k, s>>)
  BY DEF Constructs_set, C!Slot
<1>3. /\ ~fault /\ callbacks' = [callbacks EXCEPT ![o] = [@ EXCEPT ![s] = <<k, s>>]]
      /\ UNCHANGED <<maker, inner, arena, confined, of, refs, busy, fault>>
  BY <1>2 DEF Constructs_set, C!ContextOptions_set, C!javaVars
<1>4. InsideInv /\ PartsInv(k)
  BY <1>3 DEF KernelInv
<1>5. /\ \/ /\ s = "notifications"
            /\ pc[k] = "setNotifications" /\ pc'[k] = "validation"
         \/ /\ s = "validation"
            /\ pc[k] = "setValidation" /\ pc'[k] = "context"
      /\ \A l \in Kernel \ {k} : pc'[l] = pc[l]
      /\ pc' \in [Kernel -> {"none", "open", "closing", "closed"} \cup Steps]
  BY <1>1, <1>2, GoesAt DEF Steps
<1>6. /\ \A l \in Kernel : /\ <<l, "options">> \in Each("options") \cup Each("context")
                           /\ <<l, "context">> \in Each("options") \cup Each("context")
      /\ \A r \in C!Slot : <<k, r>> \in C!Manager
  BY PartsOfKernel, Zenon DEF C!Slot
<1>7. callbacks' \in [Each("options") \cup Each("context") ->
                         [C!Slot -> C!Manager \cup {Nil}]]
  BY <1>1, <1>3, <1>6, Zenon DEF C!TypeOK
<1>8. /\ callbacks'[o][s] = <<k, s>>
      /\ \A r \in C!Slot : r # s => callbacks'[o][r] = callbacks[o][r]
      /\ \A l \in Kernel : callbacks'[<<l, "context">>] = callbacks[<<l, "context">>]
      /\ \A l \in Kernel \ {k} :
            callbacks'[<<l, "options">>] = callbacks[<<l, "options">>]
  <2>1. /\ \A l \in Kernel : <<l, "context">> # o
        /\ \A l \in Kernel \ {k} : <<l, "options">> # o
    BY PartsDiffer
  <2>2. callbacks[o] \in [C!Slot -> C!Manager \cup {Nil}]
    BY <1>1, <1>6, Zenon DEF C!TypeOK
  <2>3. callbacks'[o] = [callbacks[o] EXCEPT ![s] = <<k, s>>]
    BY <1>1, <1>3, <1>6, Zenon DEF C!TypeOK
  <2> HIDE DEF o
  <2> QED
    BY <1>1, <1>3, <1>6, <2>1, <2>2, <2>3 DEF C!TypeOK
<1>9. TypeOK'
  BY <1>1, <1>3, <1>5, <1>7, Zenon DEF TypeOK, C!TypeOK
<1>10. \A l \in Kernel \ {k} : Untouched(l)
  BY <1>3, <1>5, <1>8 DEF Untouched
<1>11. InsideInv'
  BY <1>3, <1>4, InsideKept
<1>12. PartsInv(k)'
  <2>0. /\ UNCHANGED <<inner, arena, of, refs>>
        /\ callbacks'[<<k, "context">>] = callbacks[<<k, "context">>]
        /\ callbacks'[<<k, "options">>][s] = <<k, s>>
    BY <1>3, <1>8, Zenon
  <2>1. CASE s = "notifications"
    <3>1. pc[k] = "setNotifications" /\ pc'[k] = "validation"
      BY <1>5, <2>1
    <3> QED
      BY ONLY <1>4, <2>0, <2>1, <3>1, ZenonT(30)
      DEF PartsInv, Share, Built, Early, Steps
  <2>2. CASE s = "validation"
    <3>1. callbacks'[o]["notifications"] = callbacks[o]["notifications"]
      BY <1>8, <2>2 DEF C!Slot
    <3>2. pc[k] = "setValidation" /\ pc'[k] = "context"
      BY <1>5, <2>2
    <3> QED
      BY ONLY <1>4, <2>0, <2>2, <3>1, <3>2, ZenonT(30)
      DEF PartsInv, Share, Built, Early, Steps
  <2> QED
    BY <2>1, <2>2 DEF C!Slot
<1>13. pc'[k] \in Steps => maker'[k] \in Thread
  BY <1>3, <1>5 DEF KernelInv, Steps
<1> QED
  BY <1>3, <1>9, <1>10, <1>11, <1>12, <1>13, StepOfKernel DEF KernelInv

\* The context is made, or cannot be made.
LEMMA ContextStep ==
    ASSUME KernelInv, NEW k \in Kernel, Constructs_context(k)
    PROVE  KernelInv'
<1> DEFINE x == <<k, "context">>
           o == <<k, "options">>
<1>1. TypeOK /\ C!TypeOK
  BY DEF KernelInv, TypeOK
<1>2. /\ Goes(k, "context", "chainOpts") /\ ~fault
      /\ \/ /\ C!Becomes(x, "pointer") /\ C!Shares(x)
            /\ callbacks' = [callbacks EXCEPT ![x] =
                  IF o # Nil /\ inner[o] = "pointer" THEN callbacks[o]
                                                     ELSE C!NoCallbacks]
         \/ /\ "context" \in MayFail
            /\ C!Becomes(x, "zero")
            /\ UNCHANGED <<callbacks, refs>>
      /\ UNCHANGED <<maker, arena, confined, of, busy, fault>>
  BY DEF Constructs_context, C!Context_new
<1>3. InsideInv /\ PartsInv(k)
  BY <1>2 DEF KernelInv
<1>4. /\ pc[k] = "context" /\ pc'[k] = "chainOpts"
      /\ \A l \in Kernel \ {k} : pc'[l] = pc[l]
      /\ pc' \in [Kernel -> {"none", "open", "closing", "closed"} \cup Steps]
  BY <1>1, <1>2, GoesAt DEF Steps
<1>5. /\ inner[o] = "pointer" /\ inner[x] = "none"
      /\ inner[<<k, "chainOpts">>] = "none" /\ inner[<<k, "chainman">>] = "none"
      /\ refs[x] = 0
      /\ callbacks[o]["notifications"] = <<k, "notifications">>
      /\ callbacks[o]["validation"] = <<k, "validation">>
  BY <1>3, <1>4 DEF PartsInv, Share, Built, Early, Steps
<1>6. /\ x \in Each("context") /\ o # Nil /\ o # x
      /\ \A l \in Kernel : /\ <<l, "context">> \in Each("context")
                           /\ <<l, "options">> \in Each("options")
                           /\ <<l, "options">> # x
      /\ \A l \in Kernel \ {k} : <<l, "context">> # x
  BY PartsOfKernel, PartsDiffer, Zenon DEF PartName
<1>7. PICK s \in {"pointer", "zero"} :
         /\ C!Becomes(x, s)
         /\ s = "pointer" => C!Shares(x)
                             /\ callbacks' = [callbacks EXCEPT ![x] = callbacks[o]]
         /\ s = "zero" => MayFail # {} /\ UNCHANGED <<callbacks, refs>>
  BY <1>2, <1>5, <1>6
<1>8. /\ inner'[x] = s
      /\ \A l \in Kernel, a \in InnerName :
            l # k \/ a # "context" => inner'[<<l, a>>] = inner[<<l, a>>]
      /\ \A d \in C!Native : inner'[d] \in {inner[d], s}
      /\ inner' \in [C!Native -> {"none", "NULL", "zero", "pointer"}]
  <2>1. C!Becomes(<<k, "context">>, s)
    BY <1>7
  <2>2. "context" \in InnerName
    BY Names
  <2>3. s \in {"none", "NULL", "zero", "pointer"}
    OBVIOUS
  <2> QED
    BY <1>1, <2>1, <2>2, <2>3, BecomesAt
<1>9. /\ refs' \in [Each("context") -> Nat]
      /\ refs'[x] = IF s = "pointer" THEN 1 ELSE 0
      /\ \A l \in Kernel \ {k} : refs'[<<l, "context">>] = refs[<<l, "context">>]
  <2>1. CASE s = "pointer"
    <3>1. C!Shares(<<k, "context">>)
      BY <1>7, <2>1
    <3>2. 0 + 1 = 1 /\ refs[<<k, "context">>] = 0
      BY <1>5
    <3> QED
      BY <1>1, <2>1, <3>1, <3>2, CountAt, Zenon
  <2>2. CASE s = "zero"
    BY <1>1, <1>5, <1>7, <2>2 DEF C!TypeOK
  <2> QED
    BY <2>1, <2>2
<1>10. /\ callbacks' \in [Each("options") \cup Each("context") ->
                             [C!Slot -> C!Manager \cup {Nil}]]
       /\ s = "pointer" => callbacks'[x] = callbacks[o]
       /\ \A l \in Kernel : callbacks'[<<l, "options">>] = callbacks[<<l, "options">>]
       /\ \A l \in Kernel \ {k} :
             callbacks'[<<l, "context">>] = callbacks[<<l, "context">>]
  BY <1>1, <1>6, <1>7, Zenon DEF C!TypeOK
<1>11. TypeOK'
  BY <1>1, <1>2, <1>4, <1>8, <1>9, <1>10 DEF TypeOK, C!TypeOK
<1>12. \A l \in Kernel \ {k} : Untouched(l)
  BY <1>2, <1>4, <1>8, <1>9, <1>10, Zenon DEF Untouched
<1>13. InsideInv'
  BY <1>2, <1>3, <1>8, Names, InsideKept
<1>14. PartsInv(k)'
  <2>1. /\ inner'[o] = inner[o]
        /\ inner'[<<k, "chainOpts">>] = inner[<<k, "chainOpts">>]
        /\ inner'[<<k, "chainman">>] = inner[<<k, "chainman">>]
        /\ callbacks'[o] = callbacks[o]
    BY <1>8, <1>10, Names
  <2>2. refs'[x] > 0 => \A r \in C!Slot : callbacks'[x][r] = <<k, r>>
    <3>1. refs'[x] > 0 => callbacks'[x] = callbacks[o]
      BY <1>7, <1>9, <1>10
    <3> QED
      BY <1>5, <3>1 DEF C!Slot
  <2>3. refs'[x] = Share(x)' + Share(<<k, "chainOpts">>)' + Share(<<k, "chainman">>)'
    BY <1>5, <1>8, <1>9, <2>1 DEF Share
  <2> QED
    BY <1>2, <1>3, <1>4, <1>5, <1>7, <1>8, <2>1, <2>2, <2>3, ZenonT(30)
   DEF PartsInv, Built, Early, Steps
<1>15. MayFail = {} => \A d \in C!Native : inner'[d] # "zero"
  BY <1>7, <1>8 DEF KernelInv
<1>16. pc'[k] \in Steps => maker'[k] \in Thread
  BY <1>2, <1>4 DEF KernelInv, Steps
<1> QED
  BY <1>2, <1>11, <1>12, <1>13, <1>14, <1>15, <1>16, StepOfKernel DEF KernelInv

\* The chainstate manager options are made, by the thread of the constructor,
\* or cannot be made.
LEMMA OptionsStep ==
    ASSUME KernelInv, NEW k \in Kernel, Constructs_options(k)
    PROVE  KernelInv'
<1> DEFINE x == <<k, "context">>
           p == <<k, "chainOpts">>
<1>1. TypeOK /\ C!TypeOK
  BY DEF KernelInv, TypeOK
<1>2. /\ Goes(k, "chainOpts", "chainman") /\ ~fault
      /\ confined' = [confined EXCEPT ![p] = {maker[k]}]
      /\ \/ /\ C!Becomes(p, "pointer") /\ C!Shares(x)
            /\ fault' = (inner[x] # "pointer" \/ C!Gone(x))
            /\ of' = [of EXCEPT ![p] = x]
         \/ /\ "chainOpts" \in MayFail
            /\ C!Becomes(p, "zero")
            /\ UNCHANGED <<of, refs, fault>>
      /\ UNCHANGED <<maker, arena, callbacks, busy>>
  BY DEF Constructs_options, C!ChainstateManagerOptions_new
<1>3. InsideInv /\ PartsInv(k)
  BY <1>2 DEF KernelInv
<1>4. /\ pc[k] = "chainOpts" /\ pc'[k] = "chainman"
      /\ \A l \in Kernel \ {k} : pc'[l] = pc[l]
      /\ pc' \in [Kernel -> {"none", "open", "closing", "closed"} \cup Steps]
  BY <1>1, <1>2, GoesAt DEF Steps
<1>5. /\ inner[x] \in {"zero", "pointer"} /\ inner[p] = "none"
      /\ inner[<<k, "chainman">>] = "none"
      /\ refs[x] = IF inner[x] = "pointer" THEN 1 ELSE 0
      /\ maker[k] \in Thread
  <2>1. inner[x] \in {"none", "NULL", "zero", "pointer"}
    BY <1>1, PartsOfKernel, Names, Zenon DEF C!TypeOK
  <2>2. maker[k] \in Thread
    BY <1>4, Zenon DEF KernelInv, Steps
  <2> QED
    <3>1. /\ inner[x] # "none" /\ inner[x] # "NULL" /\ inner[p] = "none"
          /\ inner[<<k, "chainman">>] = "none"
      BY ONLY <1>3, <1>4, Zenon DEF PartsInv, Built, Early, Steps
    <3>2. refs[x] = Share(x) + Share(p) + Share(<<k, "chainman">>)
      BY <1>3, SharesOf
    <3> QED
      BY ONLY <2>1, <2>2, <3>1, <3>2 DEF Share
<1>6. /\ x \in Each("context") /\ x # Nil /\ p \in Each("chainOpts") /\ p \in C!Derived
      /\ \A l \in Kernel : /\ <<l, "context">> \in Each("context")
                           /\ <<l, "chainOpts">> \in C!Derived
                           /\ <<l, "chainman">> \in C!Derived
                           /\ <<l, "chainman">> # p
      /\ \A l \in Kernel \ {k} : <<l, "context">> # x /\ <<l, "chainOpts">> # p
  BY PartsOfKernel, PartsDiffer, Zenon DEF PartName
<1>7. PICK s \in {"pointer", "zero"} :
         /\ C!Becomes(p, s)
         /\ s = "pointer" => /\ C!Shares(x)
                             /\ of' = [of EXCEPT ![p] = x]
                             /\ fault' = (inner[x] # "pointer")
         /\ s = "zero" => MayFail # {} /\ UNCHANGED <<of, refs, fault>>
  <2>1. C!Gone(x) => inner[x] # "pointer"
    BY <1>5, <1>6 DEF C!Gone
  <2>2. CASE /\ C!Becomes(p, "pointer") /\ C!Shares(x)
             /\ fault' = (inner[x] # "pointer" \/ C!Gone(x))
             /\ of' = [of EXCEPT ![p] = x]
    BY ONLY <2>1, <2>2
  <2>3. CASE /\ "chainOpts" \in MayFail
             /\ C!Becomes(p, "zero")
             /\ UNCHANGED <<of, refs, fault>>
    BY ONLY <2>3
  <2> QED
    BY <1>2, <2>2, <2>3, Zenon
<1>8. /\ inner'[p] = s
      /\ \A l \in Kernel, a \in InnerName :
            l # k \/ a # "chainOpts" => inner'[<<l, a>>] = inner[<<l, a>>]
      /\ \A d \in C!Native : inner'[d] \in {inner[d], s}
      /\ inner' \in [C!Native -> {"none", "NULL", "zero", "pointer"}]
  <2>1. C!Becomes(<<k, "chainOpts">>, s)
    BY <1>7
  <2>2. "chainOpts" \in InnerName
    BY Names
  <2>3. s \in {"none", "NULL", "zero", "pointer"}
    OBVIOUS
  <2> QED
    BY <1>1, <2>1, <2>2, <2>3, BecomesAt
<1>9. /\ refs' \in [Each("context") -> Nat]
      /\ refs'[x] = IF s = "pointer" THEN refs[x] + 1 ELSE refs[x]
      /\ \A l \in Kernel \ {k} : refs'[<<l, "context">>] = refs[<<l, "context">>]
  <2>1. CASE s = "pointer"
    BY <1>1, <1>7, <2>1, CountAt, Zenon
  <2>2. CASE s = "zero"
    BY <1>1, <1>7, <2>2 DEF C!TypeOK
  <2> QED
    BY <2>1, <2>2
<1>10. /\ of' \in [C!Derived -> Each("context") \cup {Nil}]
       /\ s = "pointer" => of'[p] = x
       /\ \A l \in Kernel : of'[<<l, "chainman">>] = of[<<l, "chainman">>]
       /\ \A l \in Kernel \ {k} : of'[<<l, "chainOpts">>] = of[<<l, "chainOpts">>]
  BY <1>1, <1>6, <1>7, Zenon DEF C!TypeOK
<1>11. confined' \in [Each("chainOpts") -> SUBSET Thread] /\ fault' \in BOOLEAN
  BY <1>1, <1>2, <1>5, <1>7, Zenon DEF C!TypeOK
<1>12. TypeOK'
  BY <1>1, <1>2, <1>4, <1>8, <1>9, <1>10, <1>11, Zenon DEF TypeOK, C!TypeOK
<1>13. \A l \in Kernel \ {k} : Untouched(l)
  BY <1>2, <1>4, <1>8, <1>9, <1>10, Zenon DEF Untouched
<1>14. InsideInv'
  BY <1>2, <1>3, <1>8, Names, InsideKept, Zenon
<1>15. MayFail = {} => s = "pointer" /\ inner[x] = "pointer"
  <2>1. x \in C!Native
    BY PartsOfKernel, Names, Zenon
  <2> QED
    BY <1>5, <1>7, <2>1, Zenon DEF KernelInv
<1>16. ~fault' \/ MayFail = {} => s = "zero" \/ inner[x] = "pointer"
  BY <1>7, <1>15, Zenon
<1>17. ~fault' \/ MayFail = {} => PartsInv(k)'
  <2> SUFFICES ASSUME s = "zero" \/ inner[x] = "pointer" PROVE PartsInv(k)'
    BY <1>16
  <2>1. /\ inner'[<<k, "options">>] = inner[<<k, "options">>]
        /\ inner'[x] = inner[x]
        /\ inner'[<<k, "chainman">>] = inner[<<k, "chainman">>]
    BY <1>8, Names
  <2>2. refs'[x] > 0 => refs[x] > 0
    BY <1>5, <1>9
  <2>3. refs'[x] > 0 => \A r \in C!Slot : callbacks'[x][r] = <<k, r>>
    BY <1>2, <1>3, <2>2, Zenon DEF PartsInv
  <2>4. refs'[x] = Share(x)' + Share(p)' + Share(<<k, "chainman">>)'
    BY <1>5, <1>8, <1>9, <2>1 DEF Share
  <2> QED
    BY <1>2, <1>3, <1>4, <1>5, <1>8, <1>10, <2>1, <2>3, <2>4, Zenon
   DEF PartsInv, Built, Early, Steps
<1>18. MayFail = {} => (\A d \in C!Native : inner'[d] # "zero") /\ ~fault'
  BY <1>7, <1>8, <1>15, Zenon DEF KernelInv
<1>19. pc'[k] \in Steps => maker'[k] \in Thread
  BY <1>2, <1>4, Zenon DEF KernelInv, Steps
<1> QED
  BY <1>2, <1>12, <1>13, <1>14, <1>17, <1>18, <1>19, StepOfKernel

\* While a native context of a kernel exists, the stubs it calls are open.
LEMMA StubsOpen ==
    ASSUME NEW k \in Kernel, PartsInv(k), refs[<<k, "context">>] > 0
    PROVE  \A s \in C!Slot : /\ callbacks[<<k, "context">>][s] = <<k, s>>
                             /\ arena[<<k, s>>] = "open"
<1>1. pc[k] \notin Early
  <2> SUFFICES ASSUME pc[k] \in Early PROVE refs[<<k, "context">>] = 0
    OBVIOUS
  <2>1. /\ inner[<<k, "context">>] = "none" /\ inner[<<k, "chainOpts">>] = "none"
        /\ inner[<<k, "chainman">>] = "none"
    BY DEF PartsInv, Early, Built, Steps
  <2> QED
    BY <2>1, SharesOf DEF Share
<1>2. /\ arena[<<k, "notifications">>] = "open"
      /\ arena[<<k, "validation">>] = "open"
  BY <1>1 DEF PartsInv, Early, Steps
<1> QED
  BY <1>2, Zenon DEF PartsInv, C!Slot

\* So an upcall fails only for an event with a text.
LEMMA UpcallsWork ==
    ASSUME NEW k \in Kernel, PartsInv(k), refs[<<k, "context">>] > 0,
           "text" \notin Events, NEW e \in Events
    PROVE  ~C!UpcallFails(<<k, "context">>, e)
<1>1. C!SlotOf(e) \in C!Slot
  BY DEF C!SlotOf, C!Slot
<1>2. /\ callbacks[<<k, "context">>][C!SlotOf(e)] = <<k, C!SlotOf(e)>>
      /\ arena[<<k, C!SlotOf(e)>>] = "open"
  BY <1>1, StubsOpen
<1> QED
  BY <1>2 DEF C!UpcallFails

LEMMA Notifies ==
    ASSUME NEW k \in Kernel, PartsInv(k), refs[<<k, "context">>] > 0,
           C!MayNotify(<<k, "context">>)
    PROVE  fault' \in BOOLEAN /\ ("text" \notin Events => ~fault')
<1>1. fault' \in BOOLEAN
  BY Zenon DEF C!MayNotify, C!UpcallFails
<1>2. "text" \notin Events => ~fault'
  BY UpcallsWork, Zenon DEF C!MayNotify
<1> QED
  BY <1>1, <1>2

\* The chainstate manager is made, or cannot be made.
LEMMA ChainmanStep ==
    ASSUME KernelInv, NEW k \in Kernel, Constructs_chainman(k)
    PROVE  KernelInv'
<1> DEFINE x == <<k, "context">>
           p == <<k, "chainOpts">>
           m == <<k, "chainman">>
<1>1. TypeOK /\ C!TypeOK
  BY DEF KernelInv, TypeOK
<1>2. /\ Goes(k, "chainman", "open") /\ ~fault
      /\ IF inner[p] # "pointer" \/ C!Gone(of[p])
         THEN fault' = TRUE /\ UNCHANGED <<inner, of, refs>>
         ELSE /\ C!MayNotify(of[p])
              /\ \/ /\ C!Becomes(m, "pointer")
                    /\ of' = [of EXCEPT ![m] = of[p]]
                    /\ C!Shares(of[p])
                 \/ /\ "chainman" \in MayFail
                    /\ C!Becomes(m, "zero")
                    /\ UNCHANGED <<of, refs>>
      /\ UNCHANGED <<maker, arena, confined, callbacks, busy>>
  BY DEF Constructs_chainman, C!ChainstateManager_new
<1>3. InsideInv /\ PartsInv(k)
  BY <1>2 DEF KernelInv
<1>4. /\ pc[k] = "chainman" /\ pc'[k] = "open"
      /\ \A l \in Kernel \ {k} : pc'[l] = pc[l]
      /\ pc' \in [Kernel -> {"none", "open", "closing", "closed"} \cup Steps]
  BY <1>1, <1>2, GoesAt
<1>5. /\ inner[p] \in {"zero", "pointer"} /\ inner[m] = "none"
      /\ refs[x] = Share(x) + Share(p)
      /\ inner[p] = "pointer" => of[p] = x /\ refs[x] > 0
  <2>1. inner[p] \in {"none", "NULL", "zero", "pointer"}
    BY <1>1, PartsOfKernel, Names, Zenon DEF C!TypeOK
  <2>2. /\ inner[p] # "none" /\ inner[p] # "NULL" /\ inner[m] = "none"
        /\ inner[p] = "pointer" => of[p] = x
    BY <1>3, <1>4 DEF PartsInv, Built, Early, Steps
  <2>3. refs[x] = Share(x) + Share(p)
    <3>1. Share(m) = 0 /\ Share(x) \in {0, 1} /\ Share(p) \in {0, 1}
      BY <2>2 DEF Share
    <3> QED
      BY <1>3, <3>1, SharesOf
  <2>4. inner[p] = "pointer" => refs[x] > 0
    BY <1>3, ShareCounts, Zenon
  <2> QED
    BY <2>1, <2>2, <2>3, <2>4
<1>6. /\ x \in Each("context") /\ x # Nil /\ m \in C!Derived
      /\ p \in C!Native /\ m \in C!Native
      /\ \A l \in Kernel : /\ <<l, "chainOpts">> \in C!Derived
                           /\ <<l, "chainman">> \in C!Derived
                           /\ <<l, "chainOpts">> # m
      /\ \A l \in Kernel \ {k} : <<l, "chainman">> # m
  BY PartsOfKernel, PartsDiffer, Names, Zenon DEF PartName
<1>7. pc'[k] \notin Steps
  BY <1>4 DEF Steps
<1>8. CASE inner[p] = "zero"
  <2>1. fault' = TRUE /\ UNCHANGED <<inner, of, refs>> /\ MayFail # {}
    BY <1>2, <1>6, <1>8 DEF KernelInv
  <2>2. TypeOK'
    BY <1>1, <1>2, <1>4, <2>1, Zenon DEF TypeOK, C!TypeOK
  <2>3. \A l \in Kernel \ {k} : Untouched(l)
    BY <1>2, <1>4, <2>1 DEF Untouched
  <2> QED
    BY <1>2, <1>7, <2>1, <2>2, <2>3, StepOfKernel
<1>9. CASE inner[p] = "pointer"
  <2>1. C!MayNotify(x)
    BY <1>2, <1>5, <1>6, <1>9 DEF C!Gone
  <2>2. PICK s \in {"pointer", "zero"} :
           /\ C!Becomes(m, s)
           /\ s = "pointer" => C!Shares(x) /\ of' = [of EXCEPT ![m] = x]
           /\ s = "zero" => MayFail # {} /\ UNCHANGED <<of, refs>>
    BY <1>2, <1>5, <1>6, <1>9 DEF C!Gone
  <2>3. fault' \in BOOLEAN /\ ("text" \notin Events => ~fault')
    BY <1>3, <1>5, <1>9, <2>1, Notifies
  <2>4. /\ inner'[m] = s
        /\ \A l \in Kernel, a \in InnerName :
              l # k \/ a # "chainman" => inner'[<<l, a>>] = inner[<<l, a>>]
        /\ \A d \in C!Native : inner'[d] \in {inner[d], s}
        /\ inner' \in [C!Native -> {"none", "NULL", "zero", "pointer"}]
    <3>1. C!Becomes(<<k, "chainman">>, s)
      BY <2>2
    <3>2. "chainman" \in InnerName
      BY Names
    <3>3. s \in {"none", "NULL", "zero", "pointer"}
      OBVIOUS
    <3> QED
      BY <1>1, <3>1, <3>2, <3>3, BecomesAt
  <2>5. /\ refs' \in [Each("context") -> Nat]
        /\ refs'[x] = IF s = "pointer" THEN refs[x] + 1 ELSE refs[x]
        /\ \A l \in Kernel \ {k} : refs'[<<l, "context">>] = refs[<<l, "context">>]
    <3>1. CASE s = "pointer"
      BY <1>1, <2>2, <3>1, CountAt, Zenon
    <3>2. CASE s = "zero"
      BY <1>1, <2>2, <3>2 DEF C!TypeOK
    <3> QED
      BY <3>1, <3>2
  <2>6. /\ of' \in [C!Derived -> Each("context") \cup {Nil}]
        /\ s = "pointer" => of'[m] = x
        /\ \A l \in Kernel : of'[<<l, "chainOpts">>] = of[<<l, "chainOpts">>]
        /\ \A l \in Kernel \ {k} : of'[<<l, "chainman">>] = of[<<l, "chainman">>]
    BY <1>1, <1>6, <2>2, Zenon DEF C!TypeOK
  <2>7. TypeOK'
    BY <1>1, <1>2, <1>4, <2>3, <2>4, <2>5, <2>6, Zenon DEF TypeOK, C!TypeOK
  <2>8. \A l \in Kernel \ {k} : Untouched(l)
    BY <1>2, <1>4, <2>4, <2>5, <2>6, Zenon DEF Untouched
  <2>9. InsideInv'
    <3>1. \A l \in Kernel : inner[<<l, "chainman">>] = "pointer" =>
             inner'[<<l, "chainman">>] = "pointer"
      BY <1>5, <2>4, Names, Zenon
    <3> QED
      BY <1>2, <1>3, <3>1, InsideKept
  <2>10. PartsInv(k)'
    <3>1. /\ inner'[<<k, "options">>] = inner[<<k, "options">>]
          /\ inner'[x] = inner[x] /\ inner'[p] = inner[p]
          /\ of'[p] = of[p]
      BY <2>4, <2>6, Names, Zenon
    <3>2. refs'[x] > 0 => \A r \in C!Slot : callbacks'[x][r] = <<k, r>>
      BY <1>2, <1>3, <1>5, <1>9, Zenon DEF PartsInv
    <3>3. refs'[x] = Share(x)' + Share(p)' + Share(m)'
      BY ONLY <1>5, <2>4, <2>5, <3>1 DEF Share
    <3> QED
      BY <1>2, <1>3, <1>4, <1>5, <2>4, <2>6, <3>1, <3>2, <3>3, Zenon
     DEF PartsInv, Built, Early, Steps
  <2>11. MayFail = {} => \A d \in C!Native : inner'[d] # "zero"
    BY <2>2, <2>4, Zenon DEF KernelInv
  <2> QED
    BY <1>2, <1>7, <2>3, <2>7, <2>8, <2>9, <2>10, <2>11, StepOfKernel
<1> QED
  BY <1>5, <1>8, <1>9

----------------------------------------------------------------------------
(* Calls *)

\* A step of a thread that goes in or out of native code, or is in it.
LEMMA StepOfThread ==
    ASSUME KernelInv, ~fault,
           UNCHANGED <<pc, maker, inner, arena, confined, callbacks, of, refs>>,
           busy' \in [Thread -> Each("chainman") \cup {Nil}], fault' \in BOOLEAN,
           ~fault' \/ MayFail = {} => InsideInv',
           MayFail = {} /\ "text" \notin Events => ~fault'
    PROVE  KernelInv'
<1>1. TypeOK'
  BY DEF KernelInv, TypeOK, C!TypeOK
<1>2. \A k \in Kernel : PartsInv(k)'
  <2>1. \A k \in Kernel : PartsInv(k) /\ Untouched(k)
    BY Zenon DEF KernelInv, Untouched
  <2> QED
    BY <2>1, UntouchedParts
<1> QED
  BY <1>1, <1>2, Zenon DEF KernelInv

\* An object that is not null is there, when all can be made.
LEMMA NothingZero ==
    ASSUME KernelInv, MayFail = {}, NEW k \in Kernel, NEW part \in InnerName
    PROVE  inner[<<k, part>>] # "zero"
<1>1. <<k, part>> \in C!Native
  BY PartsOfKernel, Zenon
<1> QED
  BY <1>1 DEF KernelInv

\* A manager that is open has its context.
LEMMA OpenHasContext ==
    ASSUME TypeOK, NEW k \in Kernel, PartsInv(k), inner[<<k, "chainman">>] = "pointer"
    PROVE  /\ of[<<k, "chainman">>] = <<k, "context">>
           /\ refs[<<k, "context">>] > 0
           /\ ~C!Gone(<<k, "context">>)
<1>1. <<k, "context">> # Nil
  BY PartsOfKernel, Zenon DEF PartName
<1>2. of[<<k, "chainman">>] = <<k, "context">> /\ refs[<<k, "context">>] > 0
  BY ShareCounts, Zenon DEF PartsInv
<1> QED
  BY <1>1, <1>2 DEF C!Gone

\* Where a thread in native code is.
LEMMA WhereThreadIs ==
    ASSUME KernelInv, ~fault, NEW t \in Thread, busy[t] # Nil
    PROVE  \E k \in Kernel :
              /\ busy[t] = <<k, "chainman">> /\ inner[busy[t]] = "pointer"
              /\ PartsInv(k) /\ of[busy[t]] = <<k, "context">>
              /\ refs[<<k, "context">>] > 0 /\ ~C!Gone(of[busy[t]])
<1>1. PICK k \in Kernel : busy[t] = <<k, "chainman">> /\ inner[busy[t]] = "pointer"
  BY DEF KernelInv, InsideInv
<1>2. PartsInv(k) /\ TypeOK /\ inner[<<k, "chainman">>] = "pointer"
  BY <1>1 DEF KernelInv
<1> QED
  BY <1>1, <1>2, OpenHasContext

LEMMA CallStep ==
    ASSUME KernelInv, NEW t \in Thread, NEW k \in Kernel, Calls(t, k)
    PROVE  KernelInv'
<1> DEFINE m == <<k, "chainman">>
<1>1. /\ ~fault /\ C!Passes(m)
      /\ busy' = [busy EXCEPT ![t] = m] /\ fault' = (inner[m] = "zero")
      /\ UNCHANGED <<pc, maker, inner, arena, confined, callbacks, of, refs>>
  BY DEF Calls, C!ChainstateManager_begin, C!javaVars, C!nativeVars
<1>2. inner[m] \in {"zero", "pointer"} /\ m \in Each("chainman")
  BY <1>1, PartsOfKernel, Zenon DEF C!Passes
<1>3. MayFail = {} => inner[m] = "pointer"
  BY <1>2, NothingZero, Names
<1>4. busy \in [Thread -> Each("chainman") \cup {Nil}]
  BY DEF KernelInv, TypeOK, C!TypeOK
<1>5. busy' \in [Thread -> Each("chainman") \cup {Nil}] /\ fault' \in BOOLEAN
  BY <1>1, <1>2, <1>4, Zenon
<1>6. ~fault' \/ MayFail = {} => InsideInv'
  BY <1>1, <1>2, <1>3, <1>4, Zenon DEF KernelInv, InsideInv
<1> QED
  BY <1>1, <1>3, <1>5, <1>6, StepOfThread, Zenon

LEMMA UpcallStep ==
    ASSUME KernelInv, NEW t \in Thread, NEW e \in Events, Upcalls(t, e)
    PROVE  KernelInv'
<1>1. /\ ~fault /\ busy[t] # Nil
      /\ fault' = \/ inner[busy[t]] # "pointer" \/ C!Gone(of[busy[t]])
                  \/ C!UpcallFails(of[busy[t]], e)
      /\ UNCHANGED <<pc, maker, inner, arena, confined, callbacks, of, refs, busy>>
  BY Zenon DEF Upcalls, C!Notify, C!javaVars, C!nativeVars
<1>2. PICK k \in Kernel :
         /\ busy[t] = <<k, "chainman">> /\ inner[busy[t]] = "pointer"
         /\ PartsInv(k) /\ of[busy[t]] = <<k, "context">>
         /\ refs[<<k, "context">>] > 0 /\ ~C!Gone(of[busy[t]])
  BY <1>1, WhereThreadIs, Zenon
<1>3. fault' \in BOOLEAN
  BY <1>1, <1>2, Zenon DEF C!UpcallFails
<1>4. "text" \notin Events => ~fault'
  BY <1>1, <1>2, UpcallsWork, Zenon
<1>5. busy' \in [Thread -> Each("chainman") \cup {Nil}]
  BY <1>1 DEF KernelInv, TypeOK, C!TypeOK
<1>6. InsideInv'
  BY <1>1, Zenon DEF KernelInv, InsideInv
<1> QED
  BY <1>1, <1>3, <1>4, <1>5, <1>6, StepOfThread, Zenon

LEMMA ReturnStep ==
    ASSUME KernelInv, NEW t \in Thread, Returns(t)
    PROVE  KernelInv'
<1>1. /\ ~fault /\ busy[t] # Nil /\ busy' = [busy EXCEPT ![t] = Nil]
      /\ fault' = (inner[busy[t]] # "pointer" \/ C!Gone(of[busy[t]]))
      /\ UNCHANGED <<pc, maker, inner, arena, confined, callbacks, of, refs>>
  BY Zenon DEF Returns, C!ChainstateManager_end, C!javaVars, C!nativeVars
<1>2. fault' = FALSE
  BY <1>1, WhereThreadIs, Zenon
<1>3. busy \in [Thread -> Each("chainman") \cup {Nil}]
  BY DEF KernelInv, TypeOK, C!TypeOK
<1>4. busy' \in [Thread -> Each("chainman") \cup {Nil}]
  BY <1>1, <1>3
<1>5. InsideInv'
  BY <1>1, <1>3, Zenon DEF KernelInv, InsideInv
<1> QED
  BY <1>1, <1>2, <1>4, <1>5, StepOfThread, Zenon

LEMMA InterruptStep ==
    ASSUME KernelInv, NEW k \in Kernel, Interrupts(k)
    PROVE  KernelInv'
<1> DEFINE x == <<k, "context">>
<1>1. /\ ~fault /\ C!Passes(x) /\ fault' = (inner[x] = "zero" \/ C!Gone(x))
      /\ UNCHANGED <<pc, maker, inner, arena, confined, callbacks, of, refs, busy>>
  BY Zenon DEF Interrupts, C!Context_interrupt, C!javaVars, C!nativeVars
<1>2. inner[x] \in {"zero", "pointer"} /\ x # Nil
  BY <1>1, PartsOfKernel, Zenon DEF C!Passes, PartName
<1>3. inner[x] = "pointer" => ~C!Gone(x)
  <2>1. PartsInv(k)
    BY <1>1, Zenon DEF KernelInv
  <2>2. inner[x] = "pointer" => refs[x] > 0
    BY <2>1, ShareCounts, Zenon
  <2> QED
    BY <1>2, <2>2 DEF C!Gone
<1>4. MayFail = {} => ~fault'
  BY <1>1, <1>2, <1>3, NothingZero, Names, Zenon
<1>5. busy' \in [Thread -> Each("chainman") \cup {Nil}] /\ fault' \in BOOLEAN
  BY <1>1 DEF KernelInv, TypeOK, C!TypeOK
<1>6. InsideInv'
  BY <1>1, Zenon DEF KernelInv, InsideInv
<1> QED
  BY <1>1, <1>4, <1>5, <1>6, StepOfThread, Zenon

----------------------------------------------------------------------------
(* Closing, by the client or by close() *)

\* A kernel that is built stays so; nothing happens to the others.
StaysBuilt(k) ==
    /\ Built(k) /\ pc'[k] \notin Steps \cup {"none"}
    /\ pc' \in [Kernel -> {"none", "open", "closing", "closed"} \cup Steps]
    /\ \A l \in Kernel \ {k} : pc'[l] = pc[l]
    /\ UNCHANGED maker

\* What is left to show for the parts of a kernel that stays built.
LEMMA BuiltParts ==
    ASSUME NEW k \in Kernel, PartsInv(k),
           pc[k] \notin Steps \cup {"none"} \cup Early,
           pc'[k] \notin Steps \cup {"none"} \cup Early,
           UNCHANGED <<arena, callbacks, of>>,
           inner'[<<k, "options">>] = inner[<<k, "options">>],
           inner'[<<k, "chainOpts">>] = inner[<<k, "chainOpts">>],
           inner'[<<k, "context">>] \in {inner[<<k, "context">>], "NULL"},
           inner'[<<k, "chainman">>] \in {inner[<<k, "chainman">>], "NULL"},
           refs'[<<k, "context">>] = Share(<<k, "context">>)'
              + Share(<<k, "chainOpts">>)' + Share(<<k, "chainman">>)',
           refs'[<<k, "context">>] > 0 =>
              \A r \in C!Slot : callbacks'[<<k, "context">>][r] = <<k, r>>
    PROVE  PartsInv(k)'
<1>1. /\ pc[k] \notin {"none", "notifications", "setNotifications"}
      /\ pc'[k] \notin {"none", "notifications", "setNotifications"}
      /\ pc[k] \notin {"chainOpts", "chainman"} /\ pc'[k] \notin {"chainOpts", "chainman"}
  BY DEF Steps
<1>2. /\ inner'[<<k, "options">>] = "pointer"
      /\ arena'[<<k, "notifications">>] = "open" /\ arena'[<<k, "validation">>] = "open"
      /\ callbacks'[<<k, "options">>]["notifications"] = <<k, "notifications">>
      /\ callbacks'[<<k, "options">>]["validation"] = <<k, "validation">>
  BY <1>1, Zenon DEF PartsInv
<1>3. /\ inner'[<<k, "context">>] # "none" /\ inner'[<<k, "chainOpts">>] # "none"
      /\ inner'[<<k, "chainOpts">>] # "NULL" /\ inner'[<<k, "chainman">>] # "none"
  BY <1>1, Zenon DEF PartsInv, Built
<1>4. \A part \in {"chainOpts", "chainman"} :
         inner'[<<k, part>>] = "pointer" => of'[<<k, part>>] = <<k, "context">>
  BY Zenon DEF PartsInv
<1> QED
  BY <1>1, <1>2, <1>3, <1>4, Zenon DEF PartsInv, Built

\* A second close.
LEMMA NothingToClose ==
    ASSUME KernelInv, NEW k \in Kernel, StaysBuilt(k), ~fault, UNCHANGED parts
    PROVE  KernelInv'
<1>1. UNCHANGED <<inner, arena, confined, callbacks, of, refs, busy, fault, maker>>
  BY DEF parts, StaysBuilt
<1>2. TypeOK'
  BY <1>1 DEF KernelInv, TypeOK, C!TypeOK, StaysBuilt
<1>3. \A l \in Kernel \ {k} : Untouched(l)
  BY <1>1 DEF Untouched, StaysBuilt
<1>4. InsideInv' /\ PartsInv(k)'
  <2>1. InsideInv /\ PartsInv(k)
    BY DEF KernelInv
  <2>2. InsideInv'
    BY <1>1, <2>1, Zenon DEF InsideInv
  <2> QED
    BY <1>1, <2>1, <2>2, Zenon DEF PartsInv, StaysBuilt, Built, Share, Early, Steps
<1>5. pc'[k] \notin Steps
  BY DEF StaysBuilt
<1> QED
  BY <1>1, <1>2, <1>3, <1>4, <1>5, StepOfKernel, Zenon DEF KernelInv

LEMMA ContextCloses ==
    ASSUME KernelInv, NEW k \in Kernel, StaysBuilt(k),
           C!Context_close(<<k, "context">>)
    PROVE  KernelInv'
<1> DEFINE x == <<k, "context">>
<1>1. TypeOK /\ C!TypeOK
  BY DEF KernelInv, TypeOK
<1>2. /\ ~fault /\ inner[x] \in {"zero", "pointer"} /\ C!Becomes(x, "NULL")
      /\ IF inner[x] = "pointer" THEN C!Releases(x) ELSE UNCHANGED refs
      /\ UNCHANGED <<maker, arena, confined, callbacks, of, busy, fault>>
  BY DEF C!Context_close, StaysBuilt
<1>3. InsideInv /\ PartsInv(k)
  BY <1>2 DEF KernelInv
<1>4. /\ inner'[x] = "NULL"
      /\ \A l \in Kernel, a \in InnerName :
            l # k \/ a # "context" => inner'[<<l, a>>] = inner[<<l, a>>]
      /\ \A d \in C!Native : inner'[d] \in {inner[d], "NULL"}
      /\ inner' \in [C!Native -> {"none", "NULL", "zero", "pointer"}]
  <2>1. C!Becomes(<<k, "context">>, "NULL")
    BY <1>2, Zenon
  <2>2. "context" \in InnerName
    BY Names
  <2>3. k \in Kernel
    OBVIOUS
  <2> QED
    BY ONLY <1>1, <2>1, <2>2, <2>3, BecomesAt
<1>5. /\ refs' \in [Each("context") -> Nat]
      /\ refs'[x] = refs[x] - Share(x)
      /\ \A l \in Kernel \ {k} : refs'[<<l, "context">>] = refs[<<l, "context">>]
  <2>1. CASE inner[x] = "pointer"
    <3>1. C!Releases(x) /\ refs[x] > 0
      BY <1>2, <1>3, <2>1, ShareCounts, Zenon
    <3> QED
      BY <1>1, <2>1, <3>1, CountAt, Zenon DEF Share
  <2>2. CASE inner[x] = "zero"
    <3>1. refs[x] \in Nat
      BY <1>1, CountAt, Zenon
    <3> QED
      BY <1>1, <1>2, <2>2, <3>1 DEF C!TypeOK, Share
  <2> QED
    BY <1>2, <2>1, <2>2, Zenon
<1>6. TypeOK'
  BY <1>1, <1>2, <1>4, <1>5, Zenon DEF TypeOK, C!TypeOK, StaysBuilt
<1>7. \A l \in Kernel \ {k} : Untouched(l)
  BY <1>2, <1>4, <1>5, Zenon DEF Untouched, StaysBuilt
<1>8. InsideInv'
  BY <1>2, <1>3, <1>4, Names, InsideKept, Zenon
<1>9. PartsInv(k)'
  <2>1. /\ inner'[<<k, "options">>] = inner[<<k, "options">>]
        /\ inner'[<<k, "chainOpts">>] = inner[<<k, "chainOpts">>]
        /\ inner'[<<k, "chainman">>] = inner[<<k, "chainman">>]
    BY <1>4, Names
  <2>2. refs'[x] = Share(x)' + Share(<<k, "chainOpts">>)' + Share(<<k, "chainman">>)'
    <3>1. /\ Share(x)' = 0 /\ Share(<<k, "chainOpts">>)' = Share(<<k, "chainOpts">>)
          /\ Share(<<k, "chainman">>)' = Share(<<k, "chainman">>)
      BY <1>4, <2>1 DEF Share
    <3>2. /\ Share(x) \in {0, 1} /\ Share(<<k, "chainOpts">>) \in {0, 1}
          /\ Share(<<k, "chainman">>) \in {0, 1}
      BY ShareCases
    <3>3. refs[x] = Share(x) + Share(<<k, "chainOpts">>) + Share(<<k, "chainman">>)
      BY <1>3, SharesOf
    <3>4. refs'[x] = refs[x] - Share(x)
      BY <1>5
    <3> QED
      BY <3>1, <3>2, <3>3, <3>4
  <2>3. refs'[x] > 0 => \A r \in C!Slot : callbacks'[x][r] = <<k, r>>
    <3>1. refs[x] \in Nat /\ Share(x) \in {0, 1}
      BY <1>1, CountAt, Zenon DEF Share
    <3>2. refs'[x] = refs[x] - Share(x)
      BY <1>5
    <3>3. refs'[x] > 0 => refs[x] > 0
      BY <3>1, <3>2
    <3> QED
      BY <1>2, <1>3, <3>3, Zenon DEF PartsInv
  <2>4. /\ pc[k] \notin Steps \cup {"none"} \cup Early
        /\ pc'[k] \notin Steps \cup {"none"} \cup Early
    BY DEF StaysBuilt, Built, Early
  <2> QED
    BY <1>2, <1>3, <1>4, <2>1, <2>2, <2>3, <2>4, BuiltParts, Zenon
<1>10. MayFail = {} => \A d \in C!Native : inner'[d] # "zero"
  BY <1>4, Zenon DEF KernelInv
<1>11. pc'[k] \notin Steps
  BY DEF StaysBuilt
<1> QED
  BY <1>2, <1>6, <1>7, <1>8, <1>9, <1>10, <1>11, StepOfKernel, Zenon DEF KernelInv

\* The guard that nobody is in the manager keeps the threads outside.
LEMMA ChainmanCloses ==
    ASSUME KernelInv, NEW k \in Kernel, StaysBuilt(k),
           C!ChainstateManager_close(<<k, "chainman">>)
    PROVE  KernelInv'
<1> DEFINE x == <<k, "context">>
           m == <<k, "chainman">>
<1>1. TypeOK /\ C!TypeOK
  BY DEF KernelInv, TypeOK
<1>2. /\ ~fault /\ inner[m] \in {"zero", "pointer"} /\ C!Becomes(m, "NULL")
      /\ \A t \in Thread : busy[t] # m
      /\ IF inner[m] = "zero" \/ C!Gone(of[m])
         THEN fault' = TRUE /\ UNCHANGED refs
         ELSE C!MayNotify(of[m]) /\ C!Releases(of[m])
      /\ UNCHANGED <<maker, arena, confined, callbacks, of, busy>>
  BY Zenon DEF C!ChainstateManager_close, StaysBuilt
<1>3. InsideInv /\ PartsInv(k)
  BY <1>2, Zenon DEF KernelInv
<1>4. /\ inner'[m] = "NULL"
      /\ \A l \in Kernel, a \in InnerName :
            l # k \/ a # "chainman" => inner'[<<l, a>>] = inner[<<l, a>>]
      /\ \A d \in C!Native : inner'[d] \in {inner[d], "NULL"}
      /\ inner' \in [C!Native -> {"none", "NULL", "zero", "pointer"}]
  <2>1. C!Becomes(<<k, "chainman">>, "NULL")
    BY <1>2, Zenon
  <2>2. "chainman" \in InnerName
    BY Names
  <2> QED
    BY <1>1, <2>1, <2>2, BecomesAt
<1>5. /\ refs' \in [Each("context") -> Nat] /\ refs[x] \in Nat
      /\ refs'[x] = refs[x] - Share(m)
      /\ \A l \in Kernel \ {k} : refs'[<<l, "context">>] = refs[<<l, "context">>]
      /\ fault' \in BOOLEAN
      /\ MayFail = {} /\ "text" \notin Events => ~fault'
  <2>1. refs[x] \in Nat
    BY <1>1, CountAt, Zenon
  <2>2. CASE inner[m] = "pointer"
    <3>1. of[m] = x /\ refs[x] > 0 /\ ~C!Gone(x)
      BY <1>1, <1>3, <2>2, OpenHasContext
    <3>2. C!MayNotify(x) /\ C!Releases(x)
      BY <1>2, <2>2, <3>1
    <3>3. fault' \in BOOLEAN /\ ("text" \notin Events => ~fault')
      BY <1>3, <3>1, <3>2, Notifies
    <3>4. Share(m) = 1
      BY <2>2 DEF Share
    <3> QED
      BY <1>1, <2>1, <3>1, <3>2, <3>3, <3>4, CountAt, Zenon
  <2>3. CASE inner[m] = "zero"
    <3>1. fault' = TRUE /\ UNCHANGED refs /\ MayFail # {}
      BY <1>2, <2>3, NothingZero, Names, Zenon
    <3>2. refs[x] = refs[x] - Share(m)
      BY <2>1, <2>3 DEF Share
    <3> QED
      BY <1>1, <2>1, <3>1, <3>2 DEF C!TypeOK
  <2> QED
    BY <1>2, <2>2, <2>3, Zenon
<1>6. TypeOK'
  BY <1>1, <1>2, <1>4, <1>5, Zenon DEF TypeOK, C!TypeOK, StaysBuilt
<1>7. \A l \in Kernel \ {k} : Untouched(l)
  BY <1>2, <1>4, <1>5, Zenon DEF Untouched, StaysBuilt
<1>8. InsideInv'
  <2>1. \A l \in Kernel : inner[<<l, "chainman">>] = "pointer" =>
           inner'[<<l, "chainman">>] = "pointer" \/ \A t \in Thread : busy[t] # <<l, "chainman">>
    BY <1>2, <1>4, Names, Zenon
  <2> QED
    BY <1>2, <1>3, <2>1, InsideKept, Zenon
<1>9. PartsInv(k)'
  <2>1. /\ inner'[<<k, "options">>] = inner[<<k, "options">>]
        /\ inner'[<<k, "chainOpts">>] = inner[<<k, "chainOpts">>]
        /\ inner'[x] = inner[x]
    BY <1>4, Names, Zenon
  <2>2. refs'[x] = Share(x)' + Share(<<k, "chainOpts">>)' + Share(m)'
    <3>1. /\ Share(m)' = 0 /\ Share(<<k, "chainOpts">>)' = Share(<<k, "chainOpts">>)
          /\ Share(x)' = Share(x)
      BY <1>4, <2>1 DEF Share
    <3>2. /\ Share(x) \in {0, 1} /\ Share(<<k, "chainOpts">>) \in {0, 1}
          /\ Share(m) \in {0, 1}
      BY ShareCases
    <3>3. refs[x] = Share(x) + Share(<<k, "chainOpts">>) + Share(<<k, "chainman">>)
      BY <1>3, SharesOf
    <3>4. refs'[x] = refs[x] - Share(m)
      BY <1>5
    <3> QED
      BY ONLY <3>1, <3>2, <3>3, <3>4
  <2>3. refs'[x] > 0 => \A r \in C!Slot : callbacks'[x][r] = <<k, r>>
    <3>1. Share(m) \in {0, 1}
      BY DEF Share
    <3>2. refs[x] \in Nat /\ refs'[x] = refs[x] - Share(m)
      BY <1>5, Zenon
    <3>3. refs'[x] > 0 => refs[x] > 0
      BY <3>1, <3>2
    <3> QED
      BY <1>2, <1>3, <3>3, Zenon DEF PartsInv
  <2>4. /\ pc[k] \notin Steps \cup {"none"} \cup Early
        /\ pc'[k] \notin Steps \cup {"none"} \cup Early
    BY DEF StaysBuilt, Built, Early
  <2> QED
    BY <1>2, <1>3, <1>4, <2>1, <2>2, <2>3, <2>4, BuiltParts, Zenon
<1>10. MayFail = {} => \A d \in C!Native : inner'[d] # "zero"
  BY <1>4, Zenon DEF KernelInv
<1>11. pc'[k] \notin Steps
  BY DEF StaysBuilt
<1> QED
  BY <1>2, <1>5, <1>6, <1>7, <1>8, <1>9, <1>10, <1>11, StepOfKernel, Zenon

\* The client or close() closes one of the two, or finds it closed.
LEMMA HowItCloses ==
    ASSUME KernelInv, NEW k \in Kernel,
           Client_closes(k) \/ Closes_chainman(k) \/ Closes_context(k)
    PROVE  /\ StaysBuilt(k)
           /\ \/ C!ChainstateManager_close(<<k, "chainman">>)
              \/ C!Context_close(<<k, "context">>)
              \/ ~fault /\ UNCHANGED parts
<1>1. TypeOK
  BY Zenon DEF KernelInv
<1>2. StaysBuilt(k)
  <2>1. CASE Client_closes(k)
    BY <1>1, <2>1 DEF Client_closes, StaysBuilt, TypeOK, Built
  <2>2. CASE Closes_chainman(k)
    <3>1. Goes(k, "open", "closing") /\ UNCHANGED maker
      BY <2>2 DEF Closes_chainman
    <3>2. pc[k] = "open" /\ pc'[k] = "closing"
          /\ (\A l \in Kernel \ {k} : pc'[l] = pc[l])
          /\ pc' \in [Kernel -> {"none", "open", "closing", "closed"} \cup Steps]
      BY <1>1, <3>1, GoesAt
    <3> QED
      BY <3>1, <3>2 DEF StaysBuilt, Built, Steps
  <2>3. CASE Closes_context(k)
    <3>1. Goes(k, "closing", "closed") /\ UNCHANGED maker
      BY <2>3 DEF Closes_context
    <3>2. pc[k] = "closing" /\ pc'[k] = "closed"
          /\ (\A l \in Kernel \ {k} : pc'[l] = pc[l])
          /\ pc' \in [Kernel -> {"none", "open", "closing", "closed"} \cup Steps]
      BY <1>1, <3>1, GoesAt
    <3> QED
      BY <3>1, <3>2 DEF StaysBuilt, Built, Steps
  <2> QED
    BY <2>1, <2>2, <2>3
<1>3. \/ C!ChainstateManager_close(<<k, "chainman">>)
      \/ C!Context_close(<<k, "context">>)
      \/ ~fault /\ UNCHANGED parts
  BY DEF Client_closes, Closes_chainman, Closes_context
<1> QED
  BY <1>2, <1>3

LEMMA CloseSteps ==
    ASSUME KernelInv, NEW k \in Kernel,
           Client_closes(k) \/ Closes_chainman(k) \/ Closes_context(k)
    PROVE  KernelInv'
  BY HowItCloses, ChainmanCloses, ContextCloses, NothingToClose, Zenon

----------------------------------------------------------------------------
(* The invariant *)

LEMMA KernelInit ==
    Init => KernelInv
<1> SUFFICES ASSUME Init PROVE KernelInv
  OBVIOUS
<1>1. /\ pc = [k \in Kernel |-> "none"] /\ maker = [k \in Kernel |-> Nil]
      /\ inner = [d \in C!Native |-> "none"]
      /\ arena = [m \in C!Manager |-> "none"]
      /\ confined = [p \in Each("chainOpts") |-> {}]
      /\ callbacks = [d \in Each("options") \cup Each("context") |-> C!NoCallbacks]
      /\ of = [d \in C!Derived |-> Nil]
      /\ refs = [x \in Each("context") |-> 0]
      /\ busy = [t \in Thread |-> Nil]
      /\ fault = FALSE
  BY DEF Init, C!Init
<1>2. C!NoCallbacks \in [C!Slot -> C!Manager \cup {Nil}]
  BY DEF C!NoCallbacks
<1>3. TypeOK
  BY <1>1, <1>2, Zenon DEF TypeOK, C!TypeOK
<1>4. ASSUME NEW k \in Kernel PROVE PartsInv(k)
  <2>1. /\ pc[k] = "none"
        /\ inner[<<k, "options">>] = "none" /\ inner[<<k, "context">>] = "none"
        /\ inner[<<k, "chainOpts">>] = "none" /\ inner[<<k, "chainman">>] = "none"
        /\ arena[<<k, "notifications">>] = "none"
        /\ arena[<<k, "validation">>] = "none"
        /\ refs[<<k, "context">>] = 0
    BY <1>1, PartsOfKernel, Names, Zenon
  <2> QED
    BY ONLY <2>1 DEF PartsInv, Share, Built, Early, Steps
<1>5. InsideInv
  BY <1>1 DEF InsideInv
<1>6. \A k \in Kernel : pc[k] \notin Steps
  BY <1>1 DEF Steps
<1> QED
  BY <1>1, <1>3, <1>4, <1>5, <1>6 DEF KernelInv

LEMMA KernelStep ==
    ASSUME KernelInv, [Next]_vars
    PROVE  KernelInv'
<1>1. CASE Next
  <2>1. ASSUME NEW t \in Thread, NEW k \in Kernel, BitcoinKernel_new(t, k) \/ Calls(t, k)
        PROVE  KernelInv'
    BY <2>1, NewStep, CallStep
  <2>2. ASSUME NEW k \in Kernel,
               \/ Constructs_manager(k) \/ Constructs_set(k) \/ Constructs_context(k)
               \/ Constructs_options(k) \/ Constructs_chainman(k)
        PROVE  KernelInv'
    BY <2>2, ManagerStep, SetStep, ContextStep, OptionsStep, ChainmanStep
  <2>3. ASSUME NEW k \in Kernel,
               \/ Interrupts(k) \/ Client_closes(k)
               \/ Closes_chainman(k) \/ Closes_context(k)
        PROVE  KernelInv'
    BY <2>3, InterruptStep, CloseSteps
  <2>4. ASSUME NEW t \in Thread, NEW e \in Events, Upcalls(t, e)
        PROVE  KernelInv'
    BY <2>4, UpcallStep
  <2>5. ASSUME NEW t \in Thread, Returns(t)
        PROVE  KernelInv'
    BY <2>5, ReturnStep
  <2> QED
    BY <1>1, <2>1, <2>2, <2>3, <2>4, <2>5 DEF Next
<1>2. CASE UNCHANGED vars
  <2>1. UNCHANGED <<pc, maker, inner, arena, confined, callbacks, of, refs, busy, fault>>
    BY <1>2 DEF vars, parts
  <2>2. TypeOK'
    BY <2>1, Zenon DEF KernelInv, TypeOK, C!TypeOK
  <2>3. ASSUME NEW k \in Kernel, PartsInv(k) PROVE PartsInv(k)'
    <3>1. Untouched(k)
      BY <2>1 DEF Untouched
    <3> QED
      BY <2>3, <3>1, UntouchedParts
  <2>4. InsideInv => InsideInv'
    BY <2>1 DEF InsideInv
  <2> QED
    BY <2>1, <2>2, <2>3, <2>4 DEF KernelInv
<1> QED
  BY <1>1, <1>2

----------------------------------------------------------------------------
(* Theorems *)

\* At every step of any number of constructors, calls, callbacks and close()
\* the fields, arenas, callbacks and shares of each BitcoinKernel are those
\* its place in the code calls for, and a thread in native code is in a
\* chainstate manager that exists: up to the fault that follows when the
\* native side could not make an object, and always when it makes them all.
THEOREM KernelInvariant ==
    Spec => []KernelInv
<1>1. KernelInv /\ [Next]_vars => KernelInv'
  BY KernelStep
<1> QED
  BY KernelInit, <1>1, PTL DEF Spec

\* The constructor, the calls, the callbacks and close() of BitcoinKernel keep
\* all fields and native objects in their types, whatever fails and however
\* clients close what they were given.
THEOREM KernelTypes ==
    Spec => []TypeOK
<1>1. KernelInv => TypeOK
  BY DEF KernelInv
<1> QED
  BY KernelInvariant, <1>1, PTL

\* For any number of BitcoinKernel objects and threads there is no native
\* fault, when every object can be made and no event has a text: the managers
\* of notifications the constructor drops stay open, and closing the
\* chainstate manager and the context in close(), before it or twice leaves
\* no thread in freed memory.
THEOREM KernelsAreSafe ==
    ASSUME MayFail = {}, "text" \notin Events
    PROVE  Spec => []KernelSafe
<1>1. KernelInv => KernelSafe
  BY DEF KernelInv, KernelSafe
<1> QED
  BY KernelInvariant, <1>1, PTL

\* When every object can be made, a thread inside a kernel always finds the
\* callbacks of that kernel behind the context, and their stubs open, also
\* after another thread has closed the Java Context.
THEOREM EventsAreHeard ==
    ASSUME MayFail = {}
    PROVE  Spec => []EventsReachLogger
<1>1. KernelInv => EventsReachLogger
  <2> SUFFICES ASSUME KernelInv, NEW t \in Thread, NEW k \in Kernel, NEW s \in C!Slot,
                      busy[t] = <<k, "chainman">>
               PROVE  /\ callbacks[<<k, "context">>][s] = <<k, s>>
                      /\ arena[<<k, s>>] = "open"
    BY Zenon DEF EventsReachLogger
  <2>1. TypeOK /\ InsideInv /\ PartsInv(k)
    BY DEF KernelInv
  <2>2. busy[t] # Nil
    BY PartsOfKernel, Zenon DEF PartName
  <2>3. inner[<<k, "chainman">>] = "pointer"
    BY <2>1, <2>2 DEF InsideInv
  <2>4. refs[<<k, "context">>] > 0
    BY <2>1, <2>3, OpenHasContext
  <2> QED
    BY <2>1, <2>4, StubsOpen
<1> QED
  BY KernelInvariant, <1>1, PTL

----------------------------------------------------------------------------
(* The facade implements the service *)

\* A kernel moves, for the abstract specification.
LEMMA ServiceMoves ==
    ASSUME NEW k \in Kernel, NEW from, NEW to, UNCHANGED busy,
           StateOf(k) = from, StateOf(k)' = to,
           \A l \in Kernel \ {k} : StateOf(l)' = StateOf(l)
    PROVE  Service!Moves(k, from, to)
<1>1. \A t \in Thread : InsideOf(t)' = InsideOf(t)
  BY DEF InsideOf
<1> QED
  BY <1>1, Zenon DEF Service!Moves

LEMMA ServiceStutters ==
    ASSUME UNCHANGED busy, \A k \in Kernel : StateOf(k)' = StateOf(k)
    PROVE  UNCHANGED Service!vars
<1>1. \A t \in Thread : InsideOf(t)' = InsideOf(t)
  BY DEF InsideOf
<1> QED
  BY <1>1 DEF Service!vars

\* What the state of a kernel depends on.
LEMMA SameState ==
    ASSUME NEW l,
           \/ pc[l] \in Steps /\ pc'[l] \in Steps
           \/ /\ inner'[<<l, "chainman">>] = inner[<<l, "chainman">>]
              /\ \/ pc'[l] = pc[l]
                 \/ Built(l) /\ pc'[l] \notin Steps \cup {"none"}
    PROVE  StateOf(l)' = StateOf(l)
  BY DEF StateOf, Built, Steps

\* Which other kernels an assignment to inner leaves as they are.
LEMMA OthersStay ==
    ASSUME TypeOK, NEW k \in Kernel, NEW part \in InnerName, NEW s,
           C!Becomes(<<k, part>>, s),
           \A l \in Kernel \ {k} : pc'[l] = pc[l]
    PROVE  \A l \in Kernel \ {k} : StateOf(l)' = StateOf(l)
<1>1. \A l \in Kernel \ {k} : inner'[<<l, "chainman">>] = inner[<<l, "chainman">>]
  <2>1. \A l \in Kernel, a \in InnerName :
           l # k \/ a # part => inner'[<<l, a>>] = inner[<<l, a>>]
    BY BecomesAt, Zenon
  <2> QED
    BY <2>1, Names, Zenon
<1> QED
  BY <1>1, SameState, Zenon

LEMMA NewBegins ==
    ASSUME KernelInv, NEW t \in Thread, NEW k \in Kernel, BitcoinKernel_new(t, k)
    PROVE  Service!Begin(k)
<1>1. TypeOK
  BY DEF KernelInv
<1>2. /\ Goes(k, "none", "notifications") /\ C!Becomes(<<k, "options">>, "pointer")
      /\ UNCHANGED busy
  BY DEF BitcoinKernel_new, C!ContextOptions_new
<1>3. /\ pc[k] = "none" /\ pc'[k] = "notifications"
      /\ \A l \in Kernel \ {k} : pc'[l] = pc[l]
  BY <1>1, <1>2, GoesAt DEF Steps
<1>4. StateOf(k) = "none" /\ StateOf(k)' = "building"
  BY <1>3 DEF StateOf, Steps
<1>5. \A l \in Kernel \ {k} : StateOf(l)' = StateOf(l)
  BY <1>1, <1>2, <1>3, OthersStay, Names, Zenon
<1> QED
  BY <1>2, <1>4, <1>5, ServiceMoves DEF Service!Begin

\* Nothing of the constructor between its first and last step shows.
LEMMA ConstructorStutters ==
    ASSUME KernelInv, NEW k \in Kernel,
           \/ Constructs_manager(k) \/ Constructs_set(k) \/ Constructs_context(k)
           \/ Constructs_options(k)
    PROVE  UNCHANGED Service!vars
<1>1. TypeOK
  BY Zenon DEF KernelInv
<1>2. PICK from \in Steps, to \in Steps : Goes(k, from, to)
  BY DEF Constructs_manager, Constructs_set, Constructs_context, Constructs_options,
         Steps
<1>3. /\ pc[k] \in Steps /\ pc'[k] \in Steps
      /\ \A l \in Kernel \ {k} : pc'[l] = pc[l]
  BY <1>1, <1>2, GoesAt
<1>4. UNCHANGED busy
  BY Zenon DEF Constructs_manager, Constructs_set, Constructs_context, Constructs_options,
         C!Manager_new, C!ContextOptions_set, C!Context_new,
         C!ChainstateManagerOptions_new
<1>5. \/ UNCHANGED inner
      \/ \E part \in InnerName, s \in {"pointer", "zero"} : C!Becomes(<<k, part>>, s)
  BY Names, Zenon
  DEF Constructs_manager, Constructs_set, Constructs_context, Constructs_options,
      C!Manager_new, C!ContextOptions_set, C!Context_new,
      C!ChainstateManagerOptions_new, C!javaVars
<1>6. \A l \in Kernel \ {k} : StateOf(l)' = StateOf(l)
  <2>1. CASE UNCHANGED inner
    BY <1>3, <2>1, SameState, Zenon
  <2>2. CASE \E part \in InnerName, s \in {"pointer", "zero"} : C!Becomes(<<k, part>>, s)
    BY <1>1, <1>3, <2>2, OthersStay, Zenon
  <2> QED
    BY <1>5, <2>1, <2>2, Zenon
<1>7. StateOf(k)' = StateOf(k)
  BY <1>3, SameState, Zenon
<1> QED
  BY <1>4, <1>6, <1>7, ServiceStutters

LEMMA ChainmanOpens ==
    ASSUME KernelInv, MayFail = {}, NEW k \in Kernel, Constructs_chainman(k)
    PROVE  Service!Open(k)
<1> DEFINE p == <<k, "chainOpts">>
           m == <<k, "chainman">>
<1>1. TypeOK
  BY DEF KernelInv
<1>2. /\ Goes(k, "chainman", "open") /\ ~fault /\ inner[p] # "none" /\ UNCHANGED busy
      /\ inner[p] # "pointer" \/ C!Gone(of[p]) \/ C!Becomes(m, "pointer")
  BY DEF Constructs_chainman, C!ChainstateManager_new
<1>3. /\ pc[k] = "chainman" /\ pc'[k] = "open"
      /\ \A l \in Kernel \ {k} : pc'[l] = pc[l]
  BY <1>1, <1>2, GoesAt
<1>4. inner[p] = "pointer"
  <2>1. inner[p] \in {"none", "NULL", "zero", "pointer"}
    BY <1>1, PartsOfKernel, Names, Zenon DEF TypeOK, C!TypeOK
  <2>2. inner[p] # "zero"
    BY NothingZero, Names
  <2>3. inner[p] # "NULL"
    <3>1. PartsInv(k)
      BY <1>2 DEF KernelInv
    <3> QED
      BY <3>1, Zenon DEF PartsInv
  <2> QED
    BY <1>2, <2>1, <2>2, <2>3
<1>5. ~C!Gone(of[p])
  <2>1. PartsInv(k) /\ <<k, "context">> # Nil
    BY <1>2, PartsOfKernel, Zenon DEF KernelInv, PartName
  <2>2. of[p] = <<k, "context">> /\ refs[<<k, "context">>] > 0
    BY <1>4, <2>1, ShareCounts, Zenon DEF PartsInv
  <2> QED
    BY <2>1, <2>2 DEF C!Gone
<1>6. C!Becomes(m, "pointer")
  BY <1>2, <1>4, <1>5, Zenon
<1>7. inner'[m] = "pointer"
  <2>1. "chainman" \in InnerName /\ C!Becomes(<<k, "chainman">>, "pointer")
    BY <1>6, Names
  <2>2. k \in Kernel
    OBVIOUS
  <2> QED
    BY ONLY <1>1, <2>1, <2>2, BecomesAt
<1>8. StateOf(k) = "building" /\ StateOf(k)' = "open"
  BY <1>3, <1>7 DEF StateOf, Steps
<1>9. \A l \in Kernel \ {k} : StateOf(l)' = StateOf(l)
  BY <1>1, <1>3, <1>6, OthersStay, Names, Zenon
<1> QED
  BY <1>2, <1>8, <1>9, ServiceMoves DEF Service!Open

LEMMA CallEnters ==
    ASSUME KernelInv, MayFail = {}, NEW t \in Thread, NEW k \in Kernel, Calls(t, k)
    PROVE  Service!Enter(t, k)
<1> DEFINE m == <<k, "chainman">>
<1>1. /\ Built(k) /\ busy[t] = Nil /\ C!Passes(m)
      /\ busy' = [busy EXCEPT ![t] = m] /\ UNCHANGED <<pc, inner>>
  BY Zenon DEF Calls, C!ChainstateManager_begin, C!javaVars
<1>2. inner[m] = "pointer"
  BY <1>1, NothingZero, Names, Zenon DEF C!Passes
<1>3. StateOf(k) = "open" /\ \A l \in Kernel : StateOf(l)' = StateOf(l)
  BY <1>1, <1>2, Zenon DEF StateOf, Built
<1>4. busy \in [Thread -> Each("chainman") \cup {Nil}] /\ m # Nil
  BY PartsOfKernel, Zenon DEF KernelInv, TypeOK, C!TypeOK, PartName
<1>5. busy'[t] = m /\ \A u \in Thread \ {t} : busy'[u] = busy[u]
  BY <1>1, <1>4
<1>6. /\ InsideOf(t) = Nil /\ InsideOf(t)' = k
      /\ \A u \in Thread \ {t} : InsideOf(u)' = InsideOf(u)
  BY <1>1, <1>4, <1>5 DEF InsideOf
<1> QED
  BY <1>3, <1>6, Zenon DEF Service!Enter

LEMMA ReturnLeaves ==
    ASSUME KernelInv, NEW t \in Thread, Returns(t)
    PROVE  Service!Leave(t)
<1>1. /\ ~fault /\ busy[t] # Nil /\ busy' = [busy EXCEPT ![t] = Nil]
      /\ UNCHANGED <<pc, inner>>
  BY Zenon DEF Returns, C!ChainstateManager_end, C!javaVars
<1>2. PICK k \in Kernel : busy[t] = <<k, "chainman">>
  BY <1>1, WhereThreadIs, Zenon
<1>3. \A l \in Kernel : StateOf(l)' = StateOf(l)
  BY <1>1 DEF StateOf
<1>4. busy \in [Thread -> Each("chainman") \cup {Nil}]
  BY DEF KernelInv, TypeOK, C!TypeOK
<1>5. busy'[t] = Nil /\ \A u \in Thread \ {t} : busy'[u] = busy[u]
  BY <1>1, <1>4
<1>6. k # Nil
  BY KernelAssumption
<1>7. InsideOf(t) # Nil
  BY <1>1, <1>2, <1>6 DEF InsideOf
<1>8. InsideOf(t)' = Nil /\ \A u \in Thread \ {t} : InsideOf(u)' = InsideOf(u)
  BY <1>5, Zenon DEF InsideOf
<1>9. [u \in Thread |-> InsideOf(u)'] =
         [[u \in Thread |-> InsideOf(u)] EXCEPT ![t] = Nil]
  BY <1>8, Zenon
<1>10. [l \in Kernel |-> StateOf(l)'] = [l \in Kernel |-> StateOf(l)]
  BY <1>3
<1> QED
  BY <1>7, <1>9, <1>10 DEF Service!Leave

\* Whoever closes the chainstate manager closes the kernel.
LEMMA ChainmanClosesService ==
    ASSUME KernelInv, MayFail = {}, NEW k \in Kernel, StaysBuilt(k),
           C!ChainstateManager_close(<<k, "chainman">>)
    PROVE  Service!Close(k)
<1> DEFINE m == <<k, "chainman">>
<1>1. TypeOK
  BY DEF KernelInv
<1>2. /\ ~fault /\ inner[m] \in {"zero", "pointer"} /\ C!Becomes(m, "NULL")
      /\ \A t \in Thread : busy[t] # m
      /\ UNCHANGED busy
  BY Zenon DEF C!ChainstateManager_close
<1>3. inner[m] = "pointer" /\ inner'[m] = "NULL"
  <2>1. inner[m] # "zero"
    BY NothingZero, Names
  <2>2. inner'[m] = "NULL"
    <3>1. C!Becomes(<<k, "chainman">>, "NULL")
      BY <1>2, Zenon
    <3>2. /\ <<k, "chainman">> \in C!Native
          /\ inner \in [C!Native -> {"none", "NULL", "zero", "pointer"}]
      BY <1>1, PartsOfKernel, Names, Zenon DEF TypeOK, C!TypeOK
    <3> QED
      BY <3>1, <3>2 DEF C!Becomes
  <2> QED
    BY <1>2, <2>1, <2>2, Zenon
<1>4. StateOf(k) = "open" /\ StateOf(k)' = "closed"
  BY <1>3, Zenon DEF StateOf, StaysBuilt, Built
<1>5. \A l \in Kernel \ {k} : StateOf(l)' = StateOf(l)
  BY <1>1, <1>2, OthersStay, Names, Zenon DEF StaysBuilt
<1>6. ASSUME NEW t \in Thread PROVE InsideOf(t) # k
  <2>1. CASE busy[t] = Nil
    BY <2>1, KernelAssumption DEF InsideOf
  <2>2. CASE busy[t] # Nil
    <3>1. PICK l \in Kernel : busy[t] = <<l, "chainman">>
      BY <1>2, <2>2, WhereThreadIs, Zenon
    <3> QED
      BY <1>2, <2>2, <3>1 DEF InsideOf
  <2> QED
    BY <2>1, <2>2
<1>7. Service!Moves(k, "open", "closed")
  BY <1>2, <1>4, <1>5, ServiceMoves
<1> QED
  BY <1>6, <1>7 DEF Service!Close

\* The Java Context may be closed, or both closed again, unnoticed.
LEMMA OtherClosesStutter ==
    ASSUME KernelInv, NEW k \in Kernel, StaysBuilt(k),
           C!Context_close(<<k, "context">>) \/ UNCHANGED parts
    PROVE  UNCHANGED Service!vars
<1>1. TypeOK
  BY DEF KernelInv
<1>2. UNCHANGED busy
  BY DEF C!Context_close, parts
<1>3. \A l \in Kernel : inner'[<<l, "chainman">>] = inner[<<l, "chainman">>]
  <2>1. CASE C!Context_close(<<k, "context">>)
    <3>1. C!Becomes(<<k, "context">>, "NULL")
      BY <2>1 DEF C!Context_close
    <3> QED
      BY <1>1, <3>1, BecomesAt, Names
  <2>2. CASE UNCHANGED parts
    BY <2>2 DEF parts
  <2> QED
    BY <2>1, <2>2, Zenon
<1>4. \A l \in Kernel : StateOf(l)' = StateOf(l)
  BY <1>3, SameState, Zenon DEF StaysBuilt
<1> QED
  BY <1>2, <1>4, ServiceStutters

LEMMA ServiceStep ==
    ASSUME KernelInv, MayFail = {}, [Next]_vars
    PROVE  [Service!Next]_(Service!vars)
<1> DEFINE Goal == Service!Next \/ UNCHANGED Service!vars
<1>1. ASSUME NEW t \in Thread, NEW k \in Kernel, BitcoinKernel_new(t, k) PROVE Goal
  BY <1>1, NewBegins DEF Service!Next
<1>2. ASSUME NEW t \in Thread, NEW k \in Kernel, Calls(t, k) PROVE Goal
  BY <1>2, CallEnters DEF Service!Next
<1>3. ASSUME NEW k \in Kernel,
             \/ Constructs_manager(k) \/ Constructs_set(k) \/ Constructs_context(k)
             \/ Constructs_options(k)
      PROVE  Goal
  BY <1>3, ConstructorStutters
<1>4. ASSUME NEW k \in Kernel, Constructs_chainman(k) PROVE Goal
  BY <1>4, ChainmanOpens DEF Service!Next
<1>5. ASSUME NEW k \in Kernel, Interrupts(k) PROVE Goal
  <2>1. UNCHANGED <<pc, inner, busy>>
    BY <1>5 DEF Interrupts, C!Context_interrupt, C!javaVars
  <2>2. \A l \in Kernel : StateOf(l)' = StateOf(l)
    BY <2>1, SameState
  <2> QED
    BY <2>1, <2>2, ServiceStutters
<1>6. ASSUME NEW k \in Kernel,
             Client_closes(k) \/ Closes_chainman(k) \/ Closes_context(k)
      PROVE  Goal
  <2>1. /\ StaysBuilt(k)
        /\ \/ C!ChainstateManager_close(<<k, "chainman">>)
           \/ C!Context_close(<<k, "context">>)
           \/ ~fault /\ UNCHANGED parts
    BY <1>6, HowItCloses
  <2>2. CASE C!ChainstateManager_close(<<k, "chainman">>)
    BY <2>1, <2>2, ChainmanClosesService DEF Service!Next
  <2>3. CASE C!Context_close(<<k, "context">>) \/ UNCHANGED parts
    BY <2>1, <2>3, OtherClosesStutter
  <2> QED
    BY <2>1, <2>2, <2>3
<1>7. ASSUME NEW t \in Thread, NEW e \in Events, Upcalls(t, e) PROVE Goal
  <2>1. UNCHANGED <<pc, inner, busy>>
    BY <1>7 DEF Upcalls, C!Notify, C!javaVars
  <2>2. \A l \in Kernel : StateOf(l)' = StateOf(l)
    BY <2>1, SameState
  <2> QED
    BY <2>1, <2>2, ServiceStutters
<1>8. ASSUME NEW t \in Thread, Returns(t) PROVE Goal
  BY <1>8, ReturnLeaves DEF Service!Next
<1>9. CASE UNCHANGED vars
  <2>1. UNCHANGED <<pc, inner, busy>>
    BY <1>9 DEF vars, parts
  <2>2. \A l \in Kernel : StateOf(l)' = StateOf(l)
    BY <2>1, SameState, Zenon
  <2> QED
    BY <2>1, <2>2, ServiceStutters
<1> QED
  BY <1>1, <1>2, <1>3, <1>4, <1>5, <1>6, <1>7, <1>8, <1>9 DEF Next

LEMMA ServiceInit ==
    Init => Service!Init
<1> SUFFICES ASSUME Init PROVE Service!Init
  OBVIOUS
<1>1. \A k \in Kernel : StateOf(k) = "none"
  BY DEF Init, StateOf
<1>2. \A t \in Thread : InsideOf(t) = Nil
  BY DEF Init, C!Init, InsideOf
<1> QED
  BY <1>1, <1>2 DEF Service!Init

\* When every object can be made, BitcoinKernel is the service its client
\* relies on, step by step: a kernel is open from the return of the
\* constructor until its chainstate manager is closed, by close() or by the
\* client, with no thread inside, and it never opens again.  This holds also
\* where an event with a text ends in a fault.
THEOREM FacadeImplementsService ==
    ASSUME MayFail = {}
    PROVE  Spec => ImplementsService
<1>1. KernelInv /\ [Next]_vars => [Service!Next]_(Service!vars)
  BY ServiceStep
<1> QED
  BY KernelInvariant, ServiceInit, <1>1, PTL DEF Spec, ImplementsService, Service!Spec

----------------------------------------------------------------------------
(* The facade is a client of the context *)

\* The managers that a step of a constructor makes or sets.
LEMMA ManagersOfSlots ==
    ASSUME NEW k \in Kernel, NEW s \in C!Slot
    PROVE  <<k, s>> \in C!Manager
  BY PartsOfKernel, Zenon DEF C!Slot

LEMMA ClientStep ==
    ASSUME KernelInv, [Next]_vars
    PROVE  [C!Next]_(C!vars)
<1> DEFINE Goal == C!Next \/ UNCHANGED C!vars
<1>1. ASSUME NEW t \in Thread, NEW k \in Kernel, BitcoinKernel_new(t, k) PROVE Goal
  BY <1>1, PartsOfKernel, Zenon DEF BitcoinKernel_new, C!Next
<1>2. ASSUME NEW t \in Thread, NEW k \in Kernel, Calls(t, k) PROVE Goal
  BY <1>2, PartsOfKernel, Zenon DEF Calls, C!Next
<1>3. ASSUME NEW k \in Kernel, Constructs_manager(k) PROVE Goal
  BY <1>3, PartsOfKernel, Zenon DEF Constructs_manager, C!Next
<1>4. ASSUME NEW k \in Kernel, Constructs_set(k) PROVE Goal
  <2>1. \E s \in C!Slot : C!ContextOptions_set(<<k, "options">>, s, <<k, s>>)
    BY <1>4 DEF Constructs_set, C!Slot
  <2> QED
    BY <2>1, PartsOfKernel, ManagersOfSlots, Zenon DEF C!Next
<1>5. ASSUME NEW k \in Kernel, Constructs_context(k) PROVE Goal
  BY <1>5, PartsOfKernel, Zenon DEF Constructs_context, C!Next
<1>6. ASSUME NEW k \in Kernel, Constructs_options(k) PROVE Goal
  <2>1. maker[k] \in Thread
    BY <1>6 DEF KernelInv, Constructs_options, Goes, Steps
  <2> QED
    BY <1>6, <2>1, PartsOfKernel, Zenon DEF Constructs_options, C!Next
<1>7. ASSUME NEW k \in Kernel, Constructs_chainman(k) PROVE Goal
  BY <1>7, PartsOfKernel, Zenon DEF Constructs_chainman, C!Next
<1>8. ASSUME NEW k \in Kernel, Interrupts(k) PROVE Goal
  BY <1>8, PartsOfKernel, Zenon DEF Interrupts, C!Next
<1>9. ASSUME NEW k \in Kernel,
             Client_closes(k) \/ Closes_chainman(k) \/ Closes_context(k)
      PROVE  Goal
  <2>1. \/ C!ChainstateManager_close(<<k, "chainman">>)
        \/ C!Context_close(<<k, "context">>)
        \/ UNCHANGED parts
    BY <1>9, HowItCloses
  <2>2. UNCHANGED parts => UNCHANGED C!vars
    BY DEF parts, C!vars, C!javaVars, C!nativeVars
  <2> QED
    BY <2>1, <2>2, PartsOfKernel, Zenon DEF C!Next
<1>10. ASSUME NEW t \in Thread, NEW e \in Events, Upcalls(t, e) PROVE Goal
  BY <1>10 DEF Upcalls, C!Next
<1>11. ASSUME NEW t \in Thread, Returns(t) PROVE Goal
  BY <1>11 DEF Returns, C!Next
<1>12. CASE UNCHANGED vars
  BY <1>12 DEF vars, parts, C!vars, C!javaVars, C!nativeVars
<1> QED
  BY <1>1, <1>2, <1>3, <1>4, <1>5, <1>6, <1>7, <1>8, <1>9, <1>10, <1>11, <1>12
  DEF Next

\* What any number of BitcoinKernel objects do to the context, its options,
\* its managers and the chainstate managers is what module Context lets a
\* client do whose one mistake is to use objects that could not be made.
THEOREM FacadeIsAClient ==
    Spec => C!Spec
<1>1. KernelInv /\ [Next]_vars => [C!Next]_(C!vars)
  BY ClientStep
<1>2. Init => C!Init
  BY DEF Init
<1> QED
  BY KernelInvariant, <1>1, <1>2, PTL DEF Spec, C!Spec

----------------------------------------------------------------------------
(* What close() leaves *)

\* What close() has passed is closed.
ClosedInv ==
    \A k \in Kernel :
        /\ pc[k] \in {"closing", "closed"} => inner[<<k, "chainman">>] = "NULL"
        /\ pc[k] = "closed" => inner[<<k, "context">>] = "NULL"

\* A field that is NULL is not assigned again.
LEMMA NullStaysNull ==
    ASSUME C!TypeOK, [C!Next]_(C!vars), NEW d \in C!Native, inner[d] = "NULL"
    PROVE  inner'[d] = "NULL"
<1>1. \A s : \A c \in C!Native :
          C!Becomes(c, s) /\ (s = "NULL" \/ inner[c] # "NULL") => inner'[d] = "NULL"
  BY DEF C!TypeOK, C!Becomes
<1>2. CASE UNCHANGED C!vars
  BY <1>2 DEF C!vars, C!javaVars
<1>3. CASE UNCHANGED inner
  BY <1>3
<1>4. ASSUME NEW o \in Each("options"), C!ContextOptions_new(o) \/ C!ContextOptions_close(o)
      PROVE  inner'[d] = "NULL"
  BY <1>1, <1>4, Zenon DEF C!ContextOptions_new, C!ContextOptions_close, C!Native
<1>5. ASSUME NEW x \in Each("context"), NEW o, C!Context_new(x, o) \/ C!Context_close(x)
      PROVE  inner'[d] = "NULL"
  BY <1>1, <1>5, Zenon DEF C!Context_new, C!Context_close, C!Native
<1>6. ASSUME NEW p \in Each("chainOpts"), NEW t, NEW x,
             \/ C!ChainstateManagerOptions_new(t, p, x)
             \/ C!ChainstateManagerOptions_close(t, p)
      PROVE  inner'[d] = "NULL"
  BY <1>1, <1>6, Zenon
  DEF C!ChainstateManagerOptions_new, C!ChainstateManagerOptions_close, C!Native
<1>7. ASSUME NEW m \in Each("chainman"), NEW p, C!ChainstateManager_new(m, p)
      PROVE  inner'[d] = "NULL"
  BY <1>1, <1>7 DEF C!ChainstateManager_new, C!Native
<1>8. ASSUME NEW m \in Each("chainman"), C!ChainstateManager_close(m)
      PROVE  inner'[d] = "NULL"
  BY <1>1, <1>8, Zenon DEF C!ChainstateManager_close, C!Native
<1> QED
  BY <1>2, <1>3, <1>4, <1>5, <1>6, <1>7, <1>8, Zenon
  DEF C!Next, C!Manager_new, C!Manager_close, C!ContextOptions_set,
      C!Context_interrupt, C!ChainstateManagerOptions_set,
      C!ChainstateManager_begin, C!Notify, C!ChainstateManager_end, C!javaVars

\* Only close() takes a kernel to where it is closing or closed.
LEMMA WhoCloses ==
    ASSUME KernelInv, [Next]_vars, NEW k \in Kernel
    PROVE  \/ pc'[k] = pc[k]
           \/ pc'[k] \notin {"closing", "closed"}
           \/ pc'[k] = "closing" /\ Closes_chainman(k)
           \/ pc'[k] = "closed" /\ pc[k] = "closing" /\ Closes_context(k)
<1>1. TypeOK
  BY DEF KernelInv
<1> DEFINE Goal == \/ pc'[k] = pc[k]
                   \/ pc'[k] \notin {"closing", "closed"}
                   \/ pc'[k] = "closing" /\ Closes_chainman(k)
                   \/ pc'[k] = "closed" /\ pc[k] = "closing" /\ Closes_context(k)
<1>2. ASSUME NEW l \in Kernel, NEW from,
             NEW to \in {"none", "open"} \cup Steps, Goes(l, from, to)
      PROVE  Goal
  BY <1>1, <1>2 DEF Goes, TypeOK, Steps
<1>3. ASSUME NEW l \in Kernel,
             \/ \E t \in Thread : BitcoinKernel_new(t, l)
             \/ Constructs_manager(l) \/ Constructs_set(l) \/ Constructs_context(l)
             \/ Constructs_options(l) \/ Constructs_chainman(l)
      PROVE  Goal
  <2>1. \E from, to \in {"none", "open"} \cup Steps : Goes(l, from, to)
    BY <1>3, Zenon
    DEF BitcoinKernel_new, Constructs_manager, Constructs_set, Constructs_context,
        Constructs_options, Constructs_chainman, Steps
  <2> QED
    BY <1>2, <2>1, Zenon
<1>4. ASSUME NEW l \in Kernel, Closes_chainman(l) PROVE Goal
  BY <1>1, <1>4, Zenon DEF Closes_chainman, Goes, TypeOK
<1>5. ASSUME NEW l \in Kernel, Closes_context(l) PROVE Goal
  BY <1>1, <1>5, Zenon DEF Closes_context, Goes, TypeOK
<1>6. CASE UNCHANGED pc
  BY <1>6
<1> QED
  BY <1>3, <1>4, <1>5, <1>6, Zenon
  DEF Next, Calls, Upcalls, Returns, Interrupts, Client_closes, vars

LEMMA ClosedStep ==
    ASSUME KernelInv, ClosedInv, [Next]_vars
    PROVE  ClosedInv'
<1> SUFFICES ASSUME NEW k \in Kernel
             PROVE  /\ pc'[k] \in {"closing", "closed"} =>
                          inner'[<<k, "chainman">>] = "NULL"
                    /\ pc'[k] = "closed" => inner'[<<k, "context">>] = "NULL"
  BY Zenon DEF ClosedInv
<1>1. TypeOK /\ C!TypeOK
  BY DEF KernelInv, TypeOK
<1>2. \A part \in InnerName :
         inner[<<k, part>>] = "NULL" => inner'[<<k, part>>] = "NULL"
  <2>1. \A part \in InnerName : <<k, part>> \in C!Native
    BY PartsOfKernel, Zenon
  <2> QED
    BY <1>1, <2>1, ClientStep, NullStaysNull, Zenon
<1>3. CASE pc'[k] = pc[k] \/ pc'[k] \notin {"closing", "closed"}
  BY <1>2, <1>3, Names DEF ClosedInv
<1>4. CASE pc'[k] = "closing" /\ Closes_chainman(k)
  <2>1. inner'[<<k, "chainman">>] = "NULL"
    <3>1. CASE inner[<<k, "chainman">>] = "NULL"
      BY <1>2, <3>1, Names, Zenon
    <3>2. CASE inner[<<k, "chainman">>] # "NULL"
      <4>1. C!Becomes(<<k, "chainman">>, "NULL")
        BY <1>4, <3>2, Zenon DEF Closes_chainman, C!ChainstateManager_close
      <4>2. "chainman" \in InnerName
        BY Names
      <4> QED
        BY <1>1, <4>1, <4>2, BecomesAt
    <3> QED
      BY <3>1, <3>2
  <2> QED
    BY <1>4, <2>1, Zenon
<1>5. CASE pc'[k] = "closed" /\ pc[k] = "closing" /\ Closes_context(k)
  <2>1. inner'[<<k, "chainman">>] = "NULL"
    BY <1>2, <1>5, Names, Zenon DEF ClosedInv
  <2>2. inner'[<<k, "context">>] = "NULL"
    <3>1. CASE inner[<<k, "context">>] = "NULL"
      BY <1>2, <3>1, Names, Zenon
    <3>2. CASE inner[<<k, "context">>] # "NULL"
      <4>1. C!Becomes(<<k, "context">>, "NULL")
        BY <1>5, <3>2 DEF Closes_context, C!Context_close
      <4>2. "context" \in InnerName
        BY Names
      <4> QED
        BY <1>1, <4>1, <4>2, BecomesAt
    <3> QED
      BY <3>1, <3>2
  <2> QED
    BY <1>5, <2>1, <2>2, Zenon
<1> QED
  BY <1>3, <1>4, <1>5, WhoCloses, Zenon

\* When every object can be made, the native context of a BitcoinKernel is
\* never released: close() and the client give up the shares of the Context
\* and of the ChainstateManager, and exactly the share of the
\* ChainstateManagerOptions remains, which the constructor keeps in a local
\* variable and nobody closes.
THEOREM OptionsKeepContext ==
    ASSUME MayFail = {}
    PROVE  Spec => [](\A k \in Kernel :
                        /\ Built(k) => refs[<<k, "context">>] > 0
                        /\ pc[k] = "closed" => refs[<<k, "context">>] = 1)
<1>1. Init => ClosedInv
  BY DEF Init, ClosedInv
<1>2. KernelInv /\ ClosedInv /\ [Next]_vars => ClosedInv'
  BY ClosedStep
<1>3. KernelInv /\ ClosedInv =>
         \A k \in Kernel :
            /\ Built(k) => refs[<<k, "context">>] > 0
            /\ pc[k] = "closed" => refs[<<k, "context">>] = 1
  <2> SUFFICES ASSUME KernelInv, ClosedInv, NEW k \in Kernel
               PROVE  /\ Built(k) => refs[<<k, "context">>] > 0
                      /\ pc[k] = "closed" => refs[<<k, "context">>] = 1
    BY Zenon
  <2>1. PartsInv(k)
    BY DEF KernelInv
  <2>2. CASE Built(k)
    <3>1. inner[<<k, "chainOpts">>] \notin {"none", "NULL"}
      BY <2>1, <2>2, Zenon DEF PartsInv, Built, Early, Steps
    <3>2. inner[<<k, "chainOpts">>] # "zero"
      BY NothingZero, Names, Zenon
    <3>3. inner[<<k, "chainOpts">>] \in {"none", "NULL", "zero", "pointer"}
      BY PartsOfKernel, Names, Zenon DEF KernelInv, TypeOK, C!TypeOK
    <3>4. inner[<<k, "chainOpts">>] = "pointer"
      BY <3>1, <3>2, <3>3
    <3>5. refs[<<k, "context">>] > 0
      BY <2>1, <3>4, ShareCounts, Zenon
    <3>6. pc[k] = "closed" => refs[<<k, "context">>] = 1
      <4>1. pc[k] = "closed" => /\ inner[<<k, "chainman">>] = "NULL"
                                /\ inner[<<k, "context">>] = "NULL"
        BY DEF ClosedInv
      <4> QED
        BY <2>1, <3>4, <4>1, SharesOf DEF Share
    <3> QED
      BY <3>5, <3>6
  <2>3. CASE ~Built(k)
    BY <2>3 DEF Built, Steps
  <2> QED
    BY <2>2, <2>3
<1> QED
  BY KernelInvariant, <1>1, <1>2, <1>3, PTL DEF Spec
=============================================================================
