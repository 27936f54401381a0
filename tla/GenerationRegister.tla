------------------------- MODULE GenerationRegister -------------------------
(***************************************************************************)
(* What the generation manager promises its callers: one register names    *)
(* the active generation, a reader holds the value the register had when   *)
(* it pinned, and a generation that is active or held is never given up.   *)
(* Once given up, it is never active again.                                *)
(***************************************************************************)
CONSTANTS Generations, Threads, None

VARIABLES
    active,   \* the value of the register
    held,     \* for every thread, the generation it holds
    retired   \* the generations that were given up

vars == <<active, held, retired>>

Init ==
    /\ active \in Generations \union {None}
    /\ held = [t \in Threads |-> None]
    /\ retired = {}

Publish(g) ==
    /\ g \notin retired
    /\ active' = g
    /\ UNCHANGED <<held, retired>>

Pin(t) ==
    /\ held[t] = None /\ active # None
    /\ held' = [held EXCEPT ![t] = active]
    /\ UNCHANGED <<active, retired>>

Unpin(t) ==
    /\ held' = [held EXCEPT ![t] = None]
    /\ UNCHANGED <<active, retired>>

Retire(g) ==
    /\ g # active
    /\ \A t \in Threads : held[t] # g
    /\ retired' = retired \union {g}
    /\ UNCHANGED <<active, held>>

Restart ==
    /\ held' = [t \in Threads |-> None]
    /\ UNCHANGED <<active, retired>>

Next ==
    \/ \E g \in Generations : Publish(g) \/ Retire(g)
    \/ \E t \in Threads : Pin(t) \/ Unpin(t)
    \/ Restart

Spec == Init /\ [][Next]_vars
=============================================================================
