-------------------------------- MODULE Lane --------------------------------
(***************************************************************************)
(* What an admission lane promises: at most Concurrency tasks run at once, *)
(* at most MaxItems wait, and nobody runs who was not admitted.            *)
(***************************************************************************)
EXTENDS Naturals, FiniteSets

CONSTANTS Tasks, Concurrency, MaxItems

VARIABLES waiting, running

vars == <<waiting, running>>

Init == waiting = {} /\ running = {}

Empty == waiting = {} /\ running = {}

Enter(t) == t \notin waiting \union running /\ Cardinality(waiting) < MaxItems

Admit(t) == Enter(t) /\ waiting' = waiting \union {t} /\ UNCHANGED running

\* A task that finds a free slot and nobody ahead of it does not wait.
AdmitAndStart(t) ==
    /\ Enter(t) /\ Cardinality(running) < Concurrency
    /\ running' = running \union {t}
    /\ UNCHANGED waiting

Start(t) ==
    /\ t \in waiting /\ Cardinality(running) < Concurrency
    /\ waiting' = waiting \ {t}
    /\ running' = running \union {t}

Leave(t) == t \in waiting /\ waiting' = waiting \ {t} /\ UNCHANGED running

Finish(t) == t \in running /\ running' = running \ {t} /\ UNCHANGED waiting

Next == \E t \in Tasks : Admit(t) \/ AdmitAndStart(t) \/ Start(t) \/ Leave(t) \/ Finish(t)

Spec == Init /\ [][Next]_vars
=============================================================================
