---------------------------- MODULE StoreGateway ----------------------------
(***************************************************************************)
(* cortex_harness/storage/gateway.py: the StoreGateway that owns one       *)
(* target.  Tasks of its event loop pass an admission lane and hand their  *)
(* store call to a thread of the lane's executor; queries and readiness    *)
(* probes hold a pin of the active generation meanwhile, publications and  *)
(* retirements call the generation manager from the thread.                *)
(*                                                                         *)
(* A thread cannot be stopped: a task that is cancelled during its store   *)
(* call waits for the call to end before it gives up its pin and its slot. *)
(* It waits only once, so a second cancellation ends the task and leaves   *)
(* the call running.                                                       *)
(*                                                                         *)
(* The lanes are used through what Lane promises, which AdmissionLane is   *)
(* shown to keep.                                                          *)
(***************************************************************************)
EXTENDS Generations, FiniteSets

CONSTANTS
    Queries, Probers, Publishers, Retirers,   \* the tasks, by what they call
    Slots,         \* the concurrency of each lane and of its executor
    MaxItems,      \* the queue budget of each lane
    MaxCancels     \* how often each task may be cancelled during its store call

LaneNames == {"read", "write", "control"}

ASSUME GatewayConstants ==
    /\ Threads = Queries \union Probers \union Publishers \union Retirers
    /\ Slots \in [LaneNames -> Nat \ {0}] /\ Slots["write"] = 1
    /\ MaxItems \in Nat \ {0} /\ MaxCancels \in [Threads -> Nat]

VARIABLES
    lifecycle,    \* OwnerLifecycleState
    owned,        \* the leases and the executors exist
    idleSeen,     \* the lanes a close has found idle so far
    task,         \* where each task is
    target,       \* the generation its store call is about
    op,           \* the store call in the executor
    outcome,      \* how the store call ended
    found,        \* what a failed publication finds when it reads the pointer
    cancels,      \* cancellations during the store call
    activeGen, probeGen, probeError   \* what health() reports from

taskVars == <<task, target, op, outcome, found, cancels>>
healthVars == <<activeGen, probeGen, probeError>>
gatewayVars == <<lifecycle, owned, idleSeen, taskVars, healthVars>>
allVars == <<vars, gatewayVars>>

Readers == Queries \union Probers
LaneName(t) == CASE t \in Queries -> "read"
                 [] t \in Publishers -> "write"
                 [] OTHER -> "control"
Members(l) == {t \in Threads : LaneName(t) = l}

LaneOf(l) ==
    INSTANCE Lane WITH
        Tasks <- Members(l), Concurrency <- Slots[l],
        waiting <- {t \in Members(l) : task[t] = "waiting"},
        running <- {t \in Members(l) : task[t] = "running"}

TaskTo(t, s) == task' = [task EXCEPT ![t] = s]
OpTo(t, s) == op' = [op EXCEPT ![t] = s]
\* The task has ended and so has its store call.
Forget(t) ==
    /\ target' = [target EXCEPT ![t] = None]
    /\ outcome' = [outcome EXCEPT ![t] = "none"]
    /\ cancels' = [cancels EXCEPT ![t] = 0]
End(t) == TaskTo(t, "out") /\ OpTo(t, "none") /\ Forget(t)

Busy(l) == {t \in Members(l) : op[t] = "running"}

GatewayInit ==
    /\ Init
    /\ lifecycle = "STARTING" /\ owned = FALSE /\ idleSeen = {}
    /\ task = [t \in Threads |-> "out"]
    /\ target = [t \in Threads |-> None]
    /\ op = [t \in Threads |-> "none"]
    /\ outcome = [t \in Threads |-> "none"]
    /\ found = [t \in Threads |-> None]
    /\ cancels = [t \in Threads |-> 0]
    /\ activeGen = None /\ probeGen = None /\ probeError = FALSE

-----------------------------------------------------------------------------
(* Lifecycle                                                                *)

\* start: leases, executors, recover; a pointer that cannot be loaded unwinds
\* everything.
Start ==
    /\ lifecycle = "STARTING"
    /\ Recover
    /\ IF pointer \in incompatible
       THEN lifecycle' = "STOPPED" /\ UNCHANGED <<owned, activeGen>>
       ELSE lifecycle' = "READY" /\ owned' = TRUE /\ activeGen' = pointer
    /\ UNCHANGED <<idleSeen, taskVars, probeGen, probeError>>

BeginDrain ==
    /\ lifecycle = "READY"
    /\ lifecycle' = "DRAINING"
    /\ UNCHANGED <<vars, owned, idleSeen, taskVars, healthVars>>

\* close waits for the lanes together, each until it is idle once.
LaneIdle(l) ==
    /\ lifecycle = "DRAINING" /\ LaneOf(l)!Empty
    /\ idleSeen' = idleSeen \union {l}
    /\ UNCHANGED <<vars, lifecycle, owned, taskVars, healthVars>>

\* It raises after its timeout, and may be called again.
CloseTimesOut ==
    /\ lifecycle = "DRAINING" /\ idleSeen # LaneNames
    /\ idleSeen' = {}
    /\ UNCHANGED <<vars, lifecycle, owned, taskVars, healthVars>>

CloseDrained ==
    /\ lifecycle = "DRAINING" /\ idleSeen = LaneNames
    /\ lifecycle' = "closing"
    /\ UNCHANGED <<vars, owned, idleSeen, taskVars, healthVars>>

\* Mutant of CloseRelease: shutdown does not wait for the calls under way.
CloseReleaseAtOnce ==
    /\ lifecycle = "closing"
    /\ lifecycle' = "STOPPED" /\ owned' = FALSE
    /\ UNCHANGED <<vars, idleSeen, taskVars, healthVars>>

\* executor.shutdown(wait, cancel_futures), then the leases: calls that have
\* not begun are dropped, and their tasks see them cancelled.
CloseRelease ==
    /\ lifecycle = "closing"
    /\ \A t \in Threads : op[t] # "running"
    /\ lifecycle' = "STOPPED" /\ owned' = FALSE
    /\ op' = [t \in Threads |-> IF op[t] # "submitted" THEN op[t]
                                ELSE IF task[t] = "running" THEN "ended" ELSE "none"]
    /\ outcome' = [t \in Threads |-> IF op[t] = "submitted" THEN "raised" ELSE outcome[t]]
    /\ UNCHANGED <<vars, idleSeen, task, target, found, cancels, healthVars>>

\* The process ends, or is killed, and a new one starts.
Reopen ==
    /\ Restart
    /\ lifecycle' = "STARTING" /\ owned' = FALSE /\ idleSeen' = {}
    /\ task' = [t \in Threads |-> "out"]
    /\ target' = [t \in Threads |-> None]
    /\ op' = [t \in Threads |-> "none"]
    /\ outcome' = [t \in Threads |-> "none"]
    /\ found' = [t \in Threads |-> None]
    /\ cancels' = [t \in Threads |-> 0]
    /\ activeGen' = None /\ probeGen' = None /\ probeError' = FALSE

-----------------------------------------------------------------------------
(* Admission                                                                *)

\* Callers keep the publication and the retirement of a generation apart: no
\* other call that changes g is under way.
Settled(g) ==
    \A u \in Publishers \union Retirers : target[u] = g => task[u] = "out" /\ op[u] = "none"

\* Only retire is accepted whatever the lifecycle.
Submit(t, g) ==
    /\ task[t] = "out" /\ op[t] = "none"
    /\ t \in Retirers \/ lifecycle = "READY"
    /\ t \in Readers \/ Settled(g)
    /\ TaskTo(t, "waiting") /\ LaneOf(LaneName(t))!Admit(t)
    /\ target' = [target EXCEPT ![t] = IF t \in Readers THEN None ELSE g]
    /\ UNCHANGED <<vars, lifecycle, owned, idleSeen, op, outcome, found, cancels, healthVars>>

\* The slot is granted; a reader pins before anything else can happen.
BeginRead(t) ==
    /\ t \in Readers /\ task[t] = "waiting" /\ owned
    /\ Pin(t)
    /\ TaskTo(t, "running") /\ LaneOf(LaneName(t))!Start(t)
    /\ OpTo(t, "submitted")
    /\ target' = [target EXCEPT ![t] = Loaded]
    /\ UNCHANGED <<lifecycle, owned, idleSeen, outcome, found, cancels, healthVars>>

BeginCall(t) ==
    /\ t \in Publishers \union Retirers /\ task[t] = "waiting" /\ owned
    /\ TaskTo(t, "running") /\ LaneOf(LaneName(t))!Start(t)
    /\ OpTo(t, "submitted")
    /\ UNCHANGED <<vars, lifecycle, owned, idleSeen, target, outcome, found, cancels, healthVars>>

\* There is no generation to pin, or no executor: the task ends at once.  A
\* probe that fails so is an error of the probe.
BeginRaises(t) ==
    /\ t \notin Publishers /\ task[t] = "waiting"
    /\ \/ ~owned
       \/ t \in Readers /\ (LoadRaises \/ Loaded = None)
    /\ End(t)
    /\ IF t \in Probers THEN probeGen' = None /\ probeError' = TRUE
                        ELSE UNCHANGED <<probeGen, probeError>>
    /\ UNCHANGED <<vars, lifecycle, owned, idleSeen, found, activeGen>>

WorkerTakes(t) ==
    /\ op[t] = "submitted"
    /\ Cardinality(Busy(LaneName(t))) < Slots[LaneName(t)]
    /\ OpTo(t, "running")
    /\ UNCHANGED <<vars, lifecycle, owned, idleSeen, task, target, outcome, found, cancels,
                   healthVars>>

-----------------------------------------------------------------------------
(* In the thread                                                            *)

\* The call ends with outcome o; nobody waits for the call of a task that has
\* ended before it.
OpEnds(t, o) ==
    /\ IF task[t] = "out"
       THEN End(t)
       ELSE /\ OpTo(t, IF task[t] = "running" THEN "ended" ELSE "none")
            /\ outcome' = [outcome EXCEPT ![t] = o]
            /\ UNCHANGED <<task, target, cancels>>
    /\ UNCHANGED <<lifecycle, owned, idleSeen, found, healthVars>>

ReadEnds(t) ==
    /\ t \in Readers /\ op[t] = "running"
    /\ \E o \in {"ok", "raised"} : OpEnds(t, o)
    /\ UNCHANGED vars

InThread(t) == op[t] = "running" /\ UNCHANGED gatewayVars

PublishRuns(t) ==
    /\ t \in Publishers
    /\ InThread(t)
    /\ \/ PublishValidate(t, target[t])
       \/ PublishFence(t) /\ Gen(t) \notin retired
       \/ PublishRecord(t)

PublishEnds(t) ==
    /\ t \in Publishers /\ op[t] = "running"
    /\ \/ At(t, "idle") /\ UNCHANGED vars /\ OpEnds(t, "raised")
       \/ /\ \/ PublishRaises(t) \/ PublishRefused(t)
             \/ PublishFence(t) /\ Gen(t) \in retired
          /\ OpEnds(t, "raised")
       \/ /\ PublishSelect(t)
          /\ OpEnds(t, IF cache' = Gen(t) THEN "ok" ELSE "raised")

RetireRuns(t) ==
    /\ t \in Retirers
    /\ InThread(t)
    /\ \/ RetireFence(t, target[t]) /\ call' # call
       \/ RetireRemove(t)

RetireEnds(t) ==
    /\ t \in Retirers /\ op[t] = "running"
    /\ \/ At(t, "idle") /\ LoadActive
       \/ At(t, "idle") /\ LoadRaises /\ UNCHANGED vars
       \/ RetireFence(t, target[t]) /\ call' = call
       \/ RetireEnd(t)
    /\ OpEnds(t, "ok")

-----------------------------------------------------------------------------
(* Back on the loop                                                         *)

LeaveLane(t) == End(t) /\ LaneOf(LaneName(t))!Finish(t)

\* refresh_readiness stores what the probe found, whatever has happened since.
ReadReturns(t) ==
    /\ t \in Readers /\ task[t] = "running" /\ op[t] = "ended"
    /\ Unpin(t)
    /\ LeaveLane(t)
    /\ IF t \in Probers /\ cancels[t] = 0
       THEN /\ probeGen' = IF outcome[t] = "ok" THEN target[t] ELSE None
            /\ probeError' = (outcome[t] # "ok")
       ELSE UNCHANGED <<probeGen, probeError>>
    /\ UNCHANGED <<lifecycle, owned, idleSeen, found, activeGen>>

RetireReturns(t) ==
    /\ t \in Retirers /\ task[t] = "running" /\ op[t] = "ended"
    /\ LeaveLane(t)
    /\ UNCHANGED <<vars, lifecycle, owned, idleSeen, found, healthVars>>

PublishReturns(t) ==
    /\ t \in Publishers /\ task[t] = "running" /\ op[t] = "ended"
    /\ outcome[t] = "ok" /\ cancels[t] = 0
    /\ LeaveLane(t)
    /\ activeGen' = target[t] /\ probeGen' = target[t] /\ probeError' = FALSE
    /\ UNCHANGED <<vars, lifecycle, owned, idleSeen, found>>

\* Mutant of PublishFails: the error is passed on and nothing is read again.
PublishFailsUnreconciled(t) ==
    /\ t \in Publishers /\ task[t] = "running" /\ op[t] = "ended"
    /\ outcome[t] # "ok" \/ cancels[t] > 0
    /\ LeaveLane(t)
    /\ UNCHANGED <<vars, lifecycle, owned, idleSeen, found, healthVars>>

\* Any failure: the lane is left, and the pointer is read again in a thread.
PublishFails(t) ==
    /\ t \in Publishers /\ task[t] = "running" /\ op[t] = "ended"
    /\ outcome[t] # "ok" \/ cancels[t] > 0
    /\ TaskTo(t, "reconciling") /\ LaneOf("write")!Finish(t)
    /\ OpTo(t, "none")
    /\ UNCHANGED <<vars, lifecycle, owned, idleSeen, target, outcome, found, cancels, healthVars>>

ReconcileReads(t) ==
    /\ task[t] = "reconciling" /\ owned
    /\ Recover
    /\ found' = [found EXCEPT ![t] = IF pointer \in incompatible THEN "raised" ELSE pointer]
    /\ TaskTo(t, "reconciled")
    /\ UNCHANGED <<lifecycle, owned, idleSeen, target, op, outcome, cancels, healthVars>>

\* The executors are gone.
ReconcileRaises(t) ==
    /\ task[t] = "reconciling" /\ ~owned
    /\ found' = [found EXCEPT ![t] = "raised"]
    /\ TaskTo(t, "reconciled")
    /\ UNCHANGED <<vars, lifecycle, owned, idleSeen, target, op, outcome, cancels, healthVars>>

\* Mutant of ReconcileReturns: what was found is not stored.
ReconcileReturnsUnstored(t) ==
    /\ task[t] = "reconciled"
    /\ IF op[t] = "none" THEN End(t)
       ELSE TaskTo(t, "out") /\ UNCHANGED <<target, op, outcome, cancels>>
    /\ found' = [found EXCEPT ![t] = None]
    /\ UNCHANGED <<vars, lifecycle, owned, idleSeen, healthVars>>

ReconcileReturns(t) ==
    /\ task[t] = "reconciled"
    /\ IF op[t] = "none" THEN End(t)
       ELSE TaskTo(t, "out") /\ UNCHANGED <<target, op, outcome, cancels>>
    /\ IF found[t] = "raised"
       THEN activeGen' = None /\ probeGen' = None /\ probeError' = TRUE
       ELSE /\ activeGen' = found[t]
            /\ IF found[t] = target[t]
               THEN /\ probeGen' = IF cancels[t] > 0 THEN target[t] ELSE None
                    /\ probeError' = (cancels[t] = 0)
               ELSE UNCHANGED <<probeGen, probeError>>
    /\ found' = [found EXCEPT ![t] = None]
    /\ UNCHANGED <<vars, lifecycle, owned, idleSeen>>

-----------------------------------------------------------------------------
(* Cancellation and deadlines                                               *)

\* A publication that is cancelled in the queue reconciles too.
CancelWaiting(t) ==
    /\ task[t] = "waiting"
    /\ IF t \in Publishers
       THEN /\ TaskTo(t, "reconciling")
            /\ cancels' = [cancels EXCEPT ![t] = 1]
            /\ UNCHANGED <<target, op, outcome>>
       ELSE End(t)
    /\ LaneOf(LaneName(t))!Leave(t)
    /\ UNCHANGED <<vars, lifecycle, owned, idleSeen, found, healthVars>>

\* Mutant of CancelRunning: the call is not shielded, the task ends at once.
CancelRunningUnshielded(t) ==
    /\ task[t] = "running" /\ op[t] # "ended"
    /\ cancels[t] = 0 /\ MaxCancels[t] > 0
    /\ cancels' = [cancels EXCEPT ![t] = 1]
    /\ IF t \in Readers THEN Unpin(t) ELSE UNCHANGED vars
    /\ TaskTo(t, IF t \in Publishers THEN "reconciling" ELSE "out")
    /\ LaneOf(LaneName(t))!Finish(t)
    /\ UNCHANGED <<lifecycle, owned, idleSeen, target, op, outcome, found, healthVars>>

\* _run_sync shields the call and waits for it again.
CancelRunning(t) ==
    /\ task[t] = "running" /\ op[t] # "ended"
    /\ cancels[t] = 0 /\ MaxCancels[t] > 0
    /\ cancels' = [cancels EXCEPT ![t] = 1]
    /\ UNCHANGED <<vars, lifecycle, owned, idleSeen, task, target, op, outcome, found, healthVars>>

\* Cancelled while it waits: the task ends, the call goes on.
CancelAgain(t) ==
    /\ task[t] = "running" /\ op[t] # "ended"
    /\ cancels[t] \in 1 .. MaxCancels[t] - 1
    /\ cancels' = [cancels EXCEPT ![t] = @ + 1]
    /\ IF t \in Readers THEN Unpin(t) ELSE UNCHANGED vars
    /\ TaskTo(t, IF t \in Publishers THEN "reconciling" ELSE "out")
    /\ LaneOf(LaneName(t))!Finish(t)
    /\ UNCHANGED <<lifecycle, owned, idleSeen, target, op, outcome, found, healthVars>>

-----------------------------------------------------------------------------
\* Staging, and the fence an operator may set, do not pass the gateway.
Beside ==
    /\ \E g \in Generations : Allocate(g) \/ FillStores(g) \/ MarkIncompatible(g)
    /\ UNCHANGED gatewayVars

TaskStep(t) ==
    \/ \E g \in Generations : Submit(t, g)
    \/ BeginRead(t) \/ BeginCall(t) \/ BeginRaises(t) \/ WorkerTakes(t)
    \/ ReadEnds(t) \/ PublishRuns(t) \/ PublishEnds(t) \/ RetireRuns(t) \/ RetireEnds(t)
    \/ ReadReturns(t) \/ RetireReturns(t) \/ PublishReturns(t) \/ PublishFails(t)
    \/ ReconcileReads(t) \/ ReconcileRaises(t) \/ ReconcileReturns(t)
    \/ CancelWaiting(t) \/ CancelRunning(t) \/ CancelAgain(t)

GatewayNext ==
    \/ Start \/ BeginDrain \/ CloseTimesOut \/ CloseDrained \/ CloseRelease \/ Reopen
    \/ \E l \in LaneNames : LaneIdle(l)
    \/ Beside
    \/ \E t \in Threads : TaskStep(t)

GatewaySpec == GatewayInit /\ [][GatewayNext]_allVars

-----------------------------------------------------------------------------
(* Properties                                                               *)

TaskStages == {"out", "waiting", "running", "reconciling", "reconciled"}

\* The state of the gateway has its type.
GatewayTypeOK ==
    /\ TypeOK
    /\ lifecycle \in {"STARTING", "READY", "DRAINING", "closing", "STOPPED"}
    /\ owned \in BOOLEAN /\ idleSeen \subseteq LaneNames
    /\ task \in [Threads -> TaskStages]
    /\ target \in [Threads -> Generations \union {None}]
    /\ op \in [Threads -> {"none", "submitted", "running", "ended"}]
    /\ outcome \in [Threads -> {"none", "ok", "raised"}]
    /\ found \in [Threads -> Generations \union {None, "raised"}]
    /\ \A t \in Threads : cancels[t] \in 0 .. MaxCancels[t] + 1
    /\ {activeGen, probeGen} \subseteq Generations \union {None}
    /\ probeError \in BOOLEAN

\* _run_sync keeps "the lane and any generation pin until the real operation
\* returns": a store call never reads a generation that is being removed, unless
\* its task was cancelled again while it waited for the call to return.
ReadsAreWholeUnlessCancelledTwice ==
    \A t \in Readers :
       op[t] = "running" /\ cancels[t] < 2 => "stores" \in disk[target[t]]

\* No store call runs without the leases: whatever has been cancelled, close
\* and a failed start release them after the last call.  (The types are
\* checked along.)
LeaseCoversCalls ==
    GatewayTypeOK /\ \A t \in Threads : op[t] = "running" => owned

NothingPublishing == \A p \in Publishers : task[p] = "out" /\ op[p] = "none"

\* When a publication has failed, "Re-read the authoritative pointer": with no
\* publication under way, the generation health() reports is the one on disk.
HealthNamesPointer ==
    lifecycle = "READY" /\ NothingPublishing => activeGen \in {pointer, None}
=============================================================================
