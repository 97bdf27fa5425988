--------------------------- MODULE KernelService ---------------------------
(***************************************************************************)
(* What a BitcoinKernel promises its client: it is built once, any thread  *)
(* may be inside it while it is open, and it is closed once and for all,   *)
(* with nobody inside.                                                     *)
(***************************************************************************)
CONSTANTS Kernel, Thread, Nil

VARIABLES state, inside

vars == <<state, inside>>

Init ==
    /\ state = [k \in Kernel |-> "none"]
    /\ inside = [t \in Thread |-> Nil]

Moves(k, from, to) ==
    /\ state[k] = from
    /\ state' = [state EXCEPT ![k] = to]
    /\ UNCHANGED inside

Begin(k) == Moves(k, "none", "building")

Open(k) == Moves(k, "building", "open")

Enter(t, k) ==
    /\ state[k] = "open"
    /\ inside[t] = Nil
    /\ inside' = [inside EXCEPT ![t] = k]
    /\ UNCHANGED state

Leave(t) ==
    /\ inside[t] # Nil
    /\ inside' = [inside EXCEPT ![t] = Nil]
    /\ UNCHANGED state

Close(k) ==
    /\ \A t \in Thread : inside[t] # k
    /\ Moves(k, "open", "closed")

Next ==
    \/ \E k \in Kernel : Begin(k) \/ Open(k) \/ Close(k)
    \/ \E t \in Thread : Leave(t) \/ \E k \in Kernel : Enter(t, k)

Spec == Init /\ [][Next]_vars
=============================================================================
