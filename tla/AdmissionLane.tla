---------------------------- MODULE AdmissionLane ----------------------------
(***************************************************************************)
(* cortex_harness/storage/admission.py: a BoundedLane, with its queue      *)
(* budgets, its semaphore and its idle event, and the asyncio semaphore    *)
(* under it.                                                               *)
(*                                                                         *)
(* The tasks of one event loop interleave only where one of them is        *)
(* suspended.  The sections under the lane's lock hold no await, so the    *)
(* lock is always free when it is asked for and is no suspension point:    *)
(* the suspension points of run are the semaphore and the operation.       *)
(***************************************************************************)
EXTENDS Integers, Sequences, FiniteSetsExt

CONSTANTS
    Tasks,
    Bytes,         \* the estimated size of a task's request
    Concurrency, MaxItems, MaxBytes   \* LaneLimits

ASSUME LaneConstants ==
    /\ IsFiniteSet(Tasks) /\ Bytes \in [Tasks -> Nat]
    /\ Concurrency \in Nat \ {0} /\ MaxItems \in Nat /\ MaxBytes \in Nat

VARIABLES
    stage,         \* where in run each task is
    queuedItems, queuedBytes, active, idle,   \* the lane's accounting
    value,         \* the semaphore's counter
    waiters,       \* and its queue of futures, by the task that awaits them
    draining       \* the owner sends no more work

accountVars == <<queuedItems, queuedBytes, active, idle>>
semaphoreVars == <<value, waiters>>
vars == <<stage, accountVars, semaphoreVars, draining>>

\* "granted": the future has its result, the task has not been resumed yet.
\* "expired": the deadline had passed before the semaphore was asked.
Waiting == {"waiting", "granted", "expired"}
Stages == Waiting \union {"out", "running"}
In(stages) == {t \in Tasks : stage[t] \in stages}

Init ==
    /\ stage = [t \in Tasks |-> "out"]
    /\ queuedItems = 0 /\ queuedBytes = 0 /\ active = 0 /\ idle = TRUE
    /\ value = Concurrency /\ waiters = <<>>
    /\ draining = FALSE

-----------------------------------------------------------------------------
(* asyncio.Semaphore                                                        *)

\* Newcomers queue behind a granted waiter even when the counter is positive.
Locked == value = 0 \/ waiters # <<>>

\* The first n pending futures of the queue ws get their result.
Granted(ws, n) ==
    LET pending == {i \in DOMAIN ws : stage[ws[i]] = "waiting"}
    IN  {ws[i] : i \in {k \in pending : Cardinality({j \in pending : j < k}) < n}}

\* The queue ws without the first future of task t.
Remove(ws, t) ==
    LET at == {i \in DOMAIN ws : ws[i] = t}
        first == CHOOSE p \in at : \A i \in at : p <= i
    IN  IF at = {} THEN ws
        ELSE [i \in 1 .. Len(ws) - 1 |-> ws[IF i < first THEN i ELSE i + 1]]

\* Task t goes to stage s, the queue becomes ws, v slots are free, and up to n
\* of the waiters are woken.
Wake(t, s, ws, v, n) ==
    LET woken == Granted(ws, n)
    IN  /\ stage' = [u \in Tasks |-> IF u = t THEN s
                                     ELSE IF u \in woken THEN "granted" ELSE stage[u]]
        /\ waiters' = ws
        /\ value' = v - Cardinality(woken)

-----------------------------------------------------------------------------
(* run                                                                      *)

Admissible(t) ==
    /\ queuedItems < MaxItems
    /\ queuedBytes + Bytes[t] <= MaxBytes

Enqueue(t) ==
    /\ queuedItems' = queuedItems + 1
    /\ queuedBytes' = queuedBytes + Bytes[t]
    /\ idle' = FALSE
    /\ UNCHANGED active

\* Mutant of Dequeue: the bytes are not given back.
DequeueItem(t) == queuedItems' = queuedItems - 1 /\ UNCHANGED queuedBytes

Dequeue(t) ==
    /\ queuedItems' = queuedItems - 1
    /\ queuedBytes' = queuedBytes - Bytes[t]

\* Mutant of RunAtOnce: with a slot free the budgets are not looked at.
RunAtOnceUnchecked(t) ==
    /\ stage[t] = "out" /\ ~draining
    /\ ~Locked
    /\ Wake(t, "running", waiters, value - 1, 0)
    /\ active' = active + 1 /\ idle' = FALSE
    /\ UNCHANGED <<queuedItems, queuedBytes, draining>>

\* A free slot: the task is queued and started without being suspended.
RunAtOnce(t) ==
    /\ stage[t] = "out" /\ ~draining /\ Admissible(t)
    /\ ~Locked
    /\ Wake(t, "running", waiters, value - 1, 0)
    /\ active' = active + 1 /\ idle' = FALSE
    /\ UNCHANGED <<queuedItems, queuedBytes, draining>>

RunQueued(t) ==
    /\ stage[t] = "out" /\ ~draining /\ Admissible(t)
    /\ Locked
    /\ Enqueue(t)
    /\ Wake(t, "waiting", Append(waiters, t), value, 0)
    /\ UNCHANGED draining

\* wait_for with no time left times out without asking the semaphore.
RunExpired(t) ==
    /\ stage[t] = "out" /\ ~draining /\ Admissible(t)
    /\ Enqueue(t)
    /\ Wake(t, "expired", waiters, value, 0)
    /\ UNCHANGED draining

Start(t) ==
    /\ stage[t] = "granted"
    /\ Wake(t, "running", Remove(waiters, t), value, value)
    /\ Dequeue(t)
    /\ active' = active + 1
    /\ UNCHANGED <<idle, draining>>

\* Mutant of Leave: the idle event is not set.
LeaveUnannounced(t) ==
    /\ stage[t] \in Waiting
    /\ LET free == value + (IF stage[t] = "granted" THEN 1 ELSE 0)
       IN  Wake(t, "out", Remove(waiters, t), free, free)
    /\ Dequeue(t)
    /\ UNCHANGED <<idle, active, draining>>

\* The task is cancelled, or its deadline passes, before it is resumed: a slot
\* it had been granted goes back and on to the next waiter.
Leave(t) ==
    /\ stage[t] \in Waiting
    /\ LET free == value + (IF stage[t] = "granted" THEN 1 ELSE 0)
       IN  Wake(t, "out", Remove(waiters, t), free, free)
    /\ Dequeue(t)
    /\ idle' = (active = 0 /\ queuedItems' = 0)
    /\ UNCHANGED <<active, draining>>

\* Mutants of Finish: the queue is forgotten in the idle test; nobody is woken.
FinishIdle(t) ==
    /\ stage[t] = "running"
    /\ active' = active - 1
    /\ idle' = (active' = 0)
    /\ Wake(t, "out", waiters, value + 1, 1)
    /\ UNCHANGED <<queuedItems, queuedBytes, draining>>
FinishSilently(t) ==
    /\ stage[t] = "running"
    /\ active' = active - 1
    /\ idle' = (active' = 0 /\ queuedItems = 0)
    /\ Wake(t, "out", waiters, value + 1, 0)
    /\ UNCHANGED <<queuedItems, queuedBytes, draining>>

\* The operation returns, raises or is cancelled.
Finish(t) ==
    /\ stage[t] = "running"
    /\ active' = active - 1
    /\ idle' = (active' = 0 /\ queuedItems = 0)
    /\ Wake(t, "out", waiters, value + 1, 1)
    /\ UNCHANGED <<queuedItems, queuedBytes, draining>>

\* The owner's close: no new work, then wait_idle.
Drain ==
    /\ draining' = TRUE
    /\ UNCHANGED <<stage, accountVars, semaphoreVars>>

Next ==
    \/ \E t \in Tasks : \/ RunAtOnce(t) \/ RunQueued(t) \/ RunExpired(t)
                        \/ Start(t) \/ Leave(t) \/ Finish(t)
    \/ Drain

Spec == Init /\ [][Next]_vars

\* A granted or an expired task is in the loop's ready queue, and every
\* operation ends: the gateway's are store calls that return.
Fairness ==
    \A t \in Tasks : /\ WF_vars(Start(t))
                     /\ WF_vars(Finish(t))
                     /\ WF_vars(stage[t] = "expired" /\ Leave(t))

FairSpec == Spec /\ Fairness

-----------------------------------------------------------------------------
(* Properties                                                               *)

\* The accounting, the semaphore and its queue have their types.
TypeOK ==
    /\ stage \in [Tasks -> Stages]
    /\ queuedItems \in 0 .. MaxItems /\ queuedBytes \in 0 .. MaxBytes
    /\ active \in 0 .. Concurrency /\ idle \in BOOLEAN
    /\ value \in 0 .. Concurrency /\ waiters \in Seq(Tasks)
    /\ draining \in BOOLEAN

\* The size of all the requests of a set of tasks.
Total(S) == MapThenSumSet(LAMBDA t : Bytes[t], S)

\* The lane's counters, updated at five places, count the tasks that are
\* really there, whatever the order of grants, deadlines and cancellations; and
\* no slot is lost or doubled: a cancelled or timed-out task that had been
\* granted its slot gives it back exactly once.  (The types are
\* checked along.)
CountsAreExact ==
    /\ TypeOK
    /\ queuedItems = Cardinality(In(Waiting))
    /\ queuedBytes = Total(In(Waiting))
    /\ active = Cardinality(In({"running"}))
    /\ value + Cardinality(In({"granted", "running"})) = Concurrency

\* What close relies on when it waits for the idle event before it releases
\* the stores: the event is set exactly when nobody waits and nobody runs.
IdleMeansEmpty == idle <=> In({"out"}) = Tasks

\* The lane keeps the promises of Lane.
LaneOf ==
    INSTANCE Lane WITH waiting <- In(Waiting), running <- In({"running"})

ImplementsLane == LaneOf!Spec

\* A task that waits is started or leaves, however many others keep coming:
\* no slot stays free while somebody waits for it, and nobody is overtaken.
WaiterIsServed == \A t \in Tasks : stage[t] = "waiting" ~> stage[t] # "waiting"

\* A drain ends: once no more work is sent, the idle event is set.
DrainEnds == draining ~> idle
=============================================================================
