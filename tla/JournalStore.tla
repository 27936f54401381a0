---------------------------- MODULE JournalStore ----------------------------
(***************************************************************************)
(* The durable store of the graph-write journal: class SQLiteJournal of    *)
(* code-tiny/tools/graph/journal/sqlite_store.py.                          *)
(*                                                                         *)
(* Every operation of the class is one SQLite transaction (BEGIN IMMEDIATE *)
(* ... COMMIT, rolled back on an exception), so every operation is one     *)
(* action here.  An operation that raises leaves the tables as they were   *)
(* and is a disabled action.  The clients are left open: Next lets anyone  *)
(* call any operation with any fencing token, at any moment.  What holds   *)
(* of this specification holds whatever the analyzers and consumers do.    *)
(*                                                                         *)
(* Time is not a number.  A lease is live until LeaseExpires, a retry is   *)
(* not due until BackoffElapses; both may happen at any moment, which      *)
(* covers every clock, lease length and backoff.  Renewing a live lease    *)
(* keeps it live, so renew_lease is a stuttering step.                     *)
(***************************************************************************)
EXTENDS Naturals, FiniteSets

CONSTANTS
    Runs,         \* run ids (a hash of the run metadata)
    Jobs,         \* job ids (a hash of the run, operation, sequence, payload)
    Barriers,     \* <<run id, barrier name>> pairs
    Tokens,       \* fencing tokens a claim can draw
    NoToken,      \* the NULL fencing token
    ScopeOf,      \* run -> (project, scope, physical target, parser)
    LegacyRuns,   \* runs keyed by a superseded target-identity format
    RunOf,        \* job -> its run
    Sequence,     \* job -> its sequence number
    Ledger,       \* job -> the manifest its rows enter: "node", "edge", "none"
    BarrierRun,   \* barrier -> its run
    Requires,     \* job -> barriers that must drain before it may be claimed
    Produces,     \* job -> barriers that wait for it
    MaxAttempts,  \* BatchSpec.max_attempts
    MaxBatches    \* JournalLimits.max_batches_per_run

\* (RunStatus.FAILED is declared too; no operation ever writes it.)
RunStatus == {"open", "draining", "drained", "blocked", "dead_lettered",
              "quarantined"}
BatchStatus == {"pending", "leased", "reconciling", "retry_wait", "done",
                "blocked", "dead_letter"}
BarrierStatus == {"open", "produced", "drained"}
Absent == "absent"   \* no row in the table

\* What the manifest ledger holds for a batch: nothing (no identities, or not
\* enqueued yet), at least one identity of its own, only identities another
\* batch staged with the same payload, or a conflicting or invalid identity.
Disposition == {"none", "unique", "duplicate", "rejected"}

ASSUME StoreConstants ==
    /\ IsFiniteSet(Jobs)
    /\ NoToken \notin Tokens
    /\ LegacyRuns \subseteq Runs
    /\ Ledger \in [Jobs -> {"node", "edge", "none"}]
    /\ RunOf \in [Jobs -> Runs]
    /\ Sequence \in [Jobs -> Nat]
    /\ BarrierRun \in [Barriers -> Runs]
    /\ Requires \in [Jobs -> SUBSET Barriers]
    /\ Produces \in [Jobs -> SUBSET Barriers]
    /\ \A j \in Jobs : \A b \in Requires[j] \cup Produces[j] :
            BarrierRun[b] = RunOf[j]
    /\ \A j \in Jobs : Requires[j] \cap Produces[j] = {}
    /\ MaxAttempts \in Nat \ {0}
    /\ MaxBatches \in Nat \ {0}

VARIABLES
    runStatus,  \* run -> status
    complete,   \* run -> the producers-complete marker is stored
    audit,      \* run -> the endpoint audit is sealed
    status,     \* job -> status
    attempt,    \* job -> attempt
    token,      \* job -> fencing_token
    live,       \* job -> lease_until > now
    due,        \* job -> next_attempt_at is NULL or has passed
    manifest,   \* job -> disposition of its manifest rows
    barrier,    \* barrier -> status
    produced,   \* barrier -> produced_count
    drained     \* barrier -> drained_count

runVars == <<runStatus, complete, audit>>
leaseVars == <<attempt, token, live, due>>
barrierVars == <<barrier, produced, drained>>
storeVars == <<runVars, status, leaseVars, manifest, barrierVars>>

JobsOf(r) == {j \in Jobs : RunOf[j] = r}
BarriersOf(r) == {b \in Barriers : BarrierRun[b] = r}
Active(r) == runStatus[r] \in {"open", "draining"}

-----------------------------------------------------------------------------
(* Runs.                                                                    *)

\* Mutants of Quarantine: it blocks acknowledged batches too; it leaves the
\* batches that are out on a lease alone.
QuarantineAll(Q) ==
    LET fenced == {j \in Jobs : RunOf[j] \in Q /\ status[j] # Absent}
    IN  /\ status' = [j \in Jobs |-> IF j \in fenced THEN "blocked" ELSE status[j]]
        /\ token' = [j \in Jobs |-> IF j \in fenced THEN NoToken ELSE token[j]]
        /\ live' = [j \in Jobs |-> IF j \in fenced THEN FALSE ELSE live[j]]
QuarantineQueued(Q) ==
    /\ status' = [j \in Jobs |->
                    IF RunOf[j] \in Q /\ status[j] \in {"pending", "retry_wait"}
                    THEN "blocked" ELSE status[j]]
    /\ UNCHANGED <<token, live>>

\* The rows that change when the runs in Q are fenced off for good.
Quarantine(Q) ==
    LET fenced == {j \in Jobs : RunOf[j] \in Q /\ status[j] \notin {Absent, "done"}}
    IN  /\ status' = [j \in Jobs |-> IF j \in fenced THEN "blocked" ELSE status[j]]
        /\ token' = [j \in Jobs |-> IF j \in fenced THEN NoToken ELSE token[j]]
        /\ live' = [j \in Jobs |-> IF j \in fenced THEN FALSE ELSE live[j]]

\* open_run of an unknown run.  (Opening a known run only records an event.)
OpenRun(r) ==
    LET superseded == {q \in Runs : ScopeOf[q] = ScopeOf[r] /\ Active(q)}
    IN  /\ runStatus[r] = Absent
        /\ runStatus' = [q \in Runs |->
                            IF q = r THEN "open"
                            ELSE IF q \in superseded THEN "quarantined"
                            ELSE runStatus[q]]
        /\ Quarantine(superseded)
        /\ UNCHANGED <<complete, audit, attempt, due, manifest, barrierVars>>

QuarantineLegacyTargets ==
    LET legacy == {q \in LegacyRuns : Active(q)}
    IN  /\ legacy # {}
        /\ runStatus' = [q \in Runs |-> IF q \in legacy THEN "quarantined"
                                        ELSE runStatus[q]]
        /\ Quarantine(legacy)
        /\ UNCHANGED <<complete, audit, attempt, due, manifest, barrierVars>>

-----------------------------------------------------------------------------
(* Production: batches, barriers, producers.                                *)

\* The dispositions _stage_manifests_locked can find for a batch's rows.
Dispositions(j) ==
    IF Ledger[j] = "none" THEN {"none"}
    ELSE {"unique"} \cup
         {m \in {"duplicate"} :
            \E k \in JobsOf(RunOf[j]) : manifest[k] = "unique" /\ Ledger[k] = Ledger[j]}

\* Mutant of Enqueueable: the producers-complete marker is not looked at.
EnqueueableLate(j) ==
    /\ status[j] = Absent
    /\ runStatus[RunOf[j]] = "open"
    /\ Cardinality({k \in JobsOf(RunOf[j]) : status[k] # Absent}) < MaxBatches

\* The checks enqueue_batch makes before it writes.  (An enqueued job id is
\* returned as it is, and only while the producers are not complete.)
Enqueueable(j) ==
    /\ ~complete[RunOf[j]]
    /\ status[j] = Absent
    /\ runStatus[RunOf[j]] = "open"
    /\ Cardinality({k \in JobsOf(RunOf[j]) : status[k] # Absent}) < MaxBatches

EnqueueBatch(j) ==
    /\ Enqueueable(j)
    /\ \A b \in Produces[j] : barrier[b] \in {Absent, "open"}
    /\ \E m \in Dispositions(j) : manifest' = [manifest EXCEPT ![j] = m]
    /\ status' = [status EXCEPT ![j] = "pending"]
    /\ barrier' = [b \in Barriers |-> IF b \in Produces[j] THEN "open" ELSE barrier[b]]
    /\ produced' = [b \in Barriers |-> IF b \in Produces[j] THEN produced[b] + 1
                                       ELSE produced[b]]
    /\ UNCHANGED <<runVars, leaseVars, drained>>

\* Mutant of EnqueueRejected: the barriers count the rejected batch.
EnqueueRejectedCounted(j) ==
    /\ Enqueueable(j)
    /\ Ledger[j] # "none"
    /\ manifest' = [manifest EXCEPT ![j] = "rejected"]
    /\ status' = [status EXCEPT ![j] = "blocked"]
    /\ runStatus' = [runStatus EXCEPT ![RunOf[j]] = "blocked"]
    /\ produced' = [b \in Barriers |-> IF b \in Produces[j] THEN produced[b] + 1
                                       ELSE produced[b]]
    /\ UNCHANGED <<complete, audit, leaseVars, barrier, drained>>

\* Conflicting or invalid identities: the batch is stored blocked, counted by
\* no barrier, and blocks its run; the transaction commits, the call raises.
EnqueueRejected(j) ==
    /\ Enqueueable(j)
    /\ Ledger[j] # "none"
    /\ manifest' = [manifest EXCEPT ![j] = "rejected"]
    /\ status' = [status EXCEPT ![j] = "blocked"]
    /\ runStatus' = [runStatus EXCEPT ![RunOf[j]] = "blocked"]
    /\ UNCHANGED <<complete, audit, leaseVars, barrierVars>>

OpenBarrier(b) ==
    /\ runStatus[BarrierRun[b]] = "open"
    /\ barrier[b] = Absent
    /\ barrier' = [barrier EXCEPT ![b] = "open"]
    /\ UNCHANGED <<runVars, status, leaseVars, manifest, produced, drained>>

CloseBarrier(b) ==
    /\ barrier[b] \in {"open", "produced"}
    /\ runStatus[BarrierRun[b]] = "open"
    /\ barrier' = [barrier EXCEPT ![b] = IF drained[b] = produced[b] THEN "drained"
                                         ELSE "produced"]
    /\ UNCHANGED <<runVars, status, leaseVars, manifest, produced, drained>>

CompleteProducers(r) ==
    /\ runStatus[r] = "open"
    /\ \A j \in JobsOf(r) : manifest[j] # "rejected"
    /\ ~complete[r]
    /\ complete' = [complete EXCEPT ![r] = TRUE]
    /\ UNCHANGED <<runStatus, audit, status, leaseVars, manifest, barrierVars>>

\* _validate_endpoint_audit_boundary_locked: producers complete, the run not
\* quarantined, nothing rejected, every node identity acknowledged.
AuditBoundary(r) ==
    /\ complete[r]
    /\ runStatus[r] # "quarantined"
    /\ \A j \in JobsOf(r) : manifest[j] # "rejected"
    /\ \A j \in JobsOf(r) : Ledger[j] = "node" /\ manifest[j] = "unique"
                                => status[j] = "done"

SealEndpointAudit(r) ==
    /\ AuditBoundary(r)
    /\ ~audit[r]
    /\ audit' = [audit EXCEPT ![r] = TRUE]
    /\ UNCHANGED <<runStatus, complete, status, leaseVars, manifest, barrierVars>>

\* Mutant of Refreshed: the barriers are not looked at.
RefreshedByBatches(r, s) ==
    IF s = "draining" /\ \A j \in JobsOf(r) : status'[j] \in {Absent, "done"}
    THEN "drained" ELSE s

\* _refresh_run_status_locked, on the rows the transaction leaves behind.
Refreshed(r, s) ==
    IF /\ s = "draining"
       /\ \A j \in JobsOf(r) : status'[j] \in {Absent, "done"}
       /\ \A b \in BarriersOf(r) : barrier'[b] \in {Absent, "drained"}
    THEN "drained" ELSE s

\* Closing a draining or drained run again only refreshes it.
CloseRunProduction(r) ==
    /\ runStatus[r] \in {"open", "draining", "drained"}
    /\ UNCHANGED <<complete, audit, status, leaseVars, manifest, barrierVars>>
    /\ runStatus' = [runStatus EXCEPT ![r] = IF @ = "drained" THEN @
                                             ELSE Refreshed(r, "draining")]

-----------------------------------------------------------------------------
(* Leases.                                                                  *)

\* _recover_expired_leases_locked: the outcome of an expired lease is unknown,
\* so its batch goes to reconciliation and its token is cleared.
Expired == {j \in Jobs : status[j] \in {"leased", "reconciling"}
                            /\ token[j] # NoToken /\ ~live[j]}
RecoveredStatus == [j \in Jobs |-> IF j \in Expired THEN "reconciling" ELSE status[j]]
RecoveredToken == [j \in Jobs |-> IF j \in Expired THEN NoToken ELSE token[j]]

RecoverExpiredLeases ==
    /\ Expired # {}
    /\ status' = RecoveredStatus
    /\ token' = RecoveredToken
    /\ UNCHANGED <<runVars, attempt, live, due, manifest, barrierVars>>

\* A new process takes over every lease of the run, live or not.
RecoverRunLeasesAsAmbiguous(r) ==
    LET taken == {j \in JobsOf(r) : status[j] \in {"leased", "reconciling"}}
    IN  /\ status' = [j \in Jobs |-> IF j \in taken THEN "reconciling" ELSE status[j]]
        /\ token' = [j \in Jobs |-> IF j \in taken THEN NoToken ELSE token[j]]
        /\ live' = [j \in Jobs |-> IF j \in taken THEN FALSE ELSE live[j]]
        /\ UNCHANGED <<runVars, attempt, due, manifest, barrierVars>>

\* Mutant of Executable: a closed barrier counts as drained.
ExecutableOnceProduced(j) ==
    /\ status[j] \in {"pending", "retry_wait"}
    /\ due[j]
    /\ Active(RunOf[j])
    /\ \A b \in Requires[j] : barrier[b] \in {"produced", "drained"}

\* A claim recovers expired leases first, in the same transaction.
Executable(j) ==
    /\ status[j] \in {"pending", "retry_wait"}
    /\ due[j]
    /\ Active(RunOf[j])
    /\ \A b \in Requires[j] : barrier[b] = "drained"

ClaimJob(j, t) ==
    /\ Executable(j)
    /\ status' = [RecoveredStatus EXCEPT ![j] = "leased"]
    /\ token' = [RecoveredToken EXCEPT ![j] = t]
    /\ live' = [live EXCEPT ![j] = TRUE]
    /\ attempt' = [attempt EXCEPT ![j] = @ + 1]
    /\ UNCHANGED <<runVars, due, manifest, barrierVars>>

ClaimBatch(r, t) ==
    \E j \in JobsOf(r) :
        /\ \A k \in JobsOf(r) : Executable(k) => Sequence[j] <= Sequence[k]
        /\ ClaimJob(j, t)

\* Ambiguous work is claimed for readback only: it stays reconciling.
Reconcilable(j) ==
    /\ RecoveredStatus[j] = "reconciling"
    /\ RecoveredToken[j] = NoToken
    /\ due[j]
    /\ Active(RunOf[j])

ClaimReconcilingJob(j, t) ==
    /\ Reconcilable(j)
    /\ status' = RecoveredStatus
    /\ token' = [RecoveredToken EXCEPT ![j] = t]
    /\ live' = [live EXCEPT ![j] = TRUE]
    /\ UNCHANGED <<runVars, attempt, due, manifest, barrierVars>>

ClaimReconciling(r, t) ==
    \E j \in JobsOf(r) :
        /\ \A k \in JobsOf(r) : Reconcilable(k) => Sequence[j] <= Sequence[k]
        /\ ClaimReconcilingJob(j, t)

-----------------------------------------------------------------------------
(* What the holder of a lease reports.                                      *)

OwnedLease(j, t) == status[j] = "leased" /\ token[j] = t /\ live[j]
OwnedTransition(j, t) ==
    status[j] \in {"leased", "reconciling"} /\ token[j] = t /\ live[j]

\* Batch j leaves its lease for status s.
Settle(j, s) ==
    /\ status' = [status EXCEPT ![j] = s]
    /\ token' = [token EXCEPT ![j] = NoToken]
    /\ live' = [live EXCEPT ![j] = FALSE]

\* Mutant of AckBatch: the run's status is not refreshed.
AckBatchUnrefreshed(j, t) ==
    /\ OwnedTransition(j, t)
    /\ \A b \in Produces[j] : barrier[b] # Absent
    /\ Settle(j, "done")
    /\ drained' = [b \in Barriers |-> IF b \in Produces[j] THEN drained[b] + 1
                                      ELSE drained[b]]
    /\ barrier' = [b \in Barriers |->
                     IF b \in Produces[j] /\ barrier[b] # "open"
                                          /\ drained[b] + 1 = produced[b]
                     THEN "drained" ELSE barrier[b]]
    /\ UNCHANGED <<runVars, attempt, due, manifest, produced>>

AckBatch(j, t) ==
    /\ OwnedTransition(j, t)
    /\ \A b \in Produces[j] : barrier[b] # Absent
    /\ Settle(j, "done")
    /\ drained' = [b \in Barriers |-> IF b \in Produces[j] THEN drained[b] + 1
                                      ELSE drained[b]]
    /\ barrier' = [b \in Barriers |->
                     IF b \in Produces[j] /\ barrier[b] # "open"
                                          /\ drained[b] + 1 = produced[b]
                     THEN "drained" ELSE barrier[b]]
    /\ runStatus' = [runStatus EXCEPT ![RunOf[j]] = Refreshed(RunOf[j], @)]
    /\ UNCHANGED <<complete, audit, attempt, due, manifest, produced>>

\* The holder does not know whether its mutation was applied.  The token and
\* the lease stay in place until they expire or are taken over.
MarkReconciling(j, t) ==
    /\ OwnedLease(j, t)
    /\ status' = [status EXCEPT ![j] = "reconciling"]
    /\ UNCHANGED <<runVars, leaseVars, manifest, barrierVars>>

\* Mutant of ScheduleRetry: one retry too many.
ScheduleRetryOnceMore(j, t, now) ==
    LET exhausted == attempt[j] > MaxAttempts
    IN  /\ OwnedTransition(j, t)
        /\ Settle(j, IF exhausted THEN "dead_letter" ELSE "retry_wait")
        /\ due' = [due EXCEPT ![j] = exhausted \/ now]
        /\ runStatus' = [runStatus EXCEPT ![RunOf[j]] =
                            IF exhausted THEN "dead_lettered" ELSE @]
        /\ UNCHANGED <<complete, audit, attempt, manifest, barrierVars>>

\* retry_at is now or in the future.
ScheduleRetry(j, t, now) ==
    LET exhausted == attempt[j] >= MaxAttempts
    IN  /\ OwnedTransition(j, t)
        /\ Settle(j, IF exhausted THEN "dead_letter" ELSE "retry_wait")
        /\ due' = [due EXCEPT ![j] = exhausted \/ now]
        /\ runStatus' = [runStatus EXCEPT ![RunOf[j]] =
                            IF exhausted THEN "dead_lettered" ELSE @]
        /\ UNCHANGED <<complete, audit, attempt, manifest, barrierVars>>

\* Mutant of ScheduleReconciliationRetry: the run does not show the dead letter.
ScheduleReconciliationRetrySilent(j, t) ==
    LET exhausted == attempt[j] + 1 >= MaxAttempts
    IN  /\ OwnedTransition(j, t)
        /\ status[j] = "reconciling"
        /\ Settle(j, IF exhausted THEN "dead_letter" ELSE "reconciling")
        /\ attempt' = [attempt EXCEPT ![j] = @ + 1]
        /\ due' = [due EXCEPT ![j] = exhausted]
        /\ UNCHANGED <<runVars, manifest, barrierVars>>

\* A readback failed: it counts as an attempt and the batch stays ambiguous.
ScheduleReconciliationRetry(j, t) ==
    LET exhausted == attempt[j] + 1 >= MaxAttempts
    IN  /\ OwnedTransition(j, t)
        /\ status[j] = "reconciling"
        /\ Settle(j, IF exhausted THEN "dead_letter" ELSE "reconciling")
        /\ attempt' = [attempt EXCEPT ![j] = @ + 1]
        /\ due' = [due EXCEPT ![j] = exhausted]
        /\ runStatus' = [runStatus EXCEPT ![RunOf[j]] =
                            IF exhausted THEN "dead_lettered" ELSE @]
        /\ UNCHANGED <<complete, audit, manifest, barrierVars>>

BlockBatch(j, t) ==
    /\ OwnedTransition(j, t)
    /\ Settle(j, "blocked")
    /\ runStatus' = [runStatus EXCEPT ![RunOf[j]] = "blocked"]
    /\ UNCHANGED <<complete, audit, attempt, due, manifest, barrierVars>>

-----------------------------------------------------------------------------
(* The clock.                                                               *)

LeaseExpires(j) ==
    /\ live[j]
    /\ live' = [live EXCEPT ![j] = FALSE]
    /\ UNCHANGED <<runVars, status, attempt, token, due, manifest, barrierVars>>

BackoffElapses(j) ==
    /\ ~due[j]
    /\ due' = [due EXCEPT ![j] = TRUE]
    /\ UNCHANGED <<runVars, status, attempt, token, live, manifest, barrierVars>>

-----------------------------------------------------------------------------
Init ==
    /\ runStatus = [r \in Runs |-> Absent]
    /\ complete = [r \in Runs |-> FALSE]
    /\ audit = [r \in Runs |-> FALSE]
    /\ status = [j \in Jobs |-> Absent]
    /\ attempt = [j \in Jobs |-> 0]
    /\ token = [j \in Jobs |-> NoToken]
    /\ live = [j \in Jobs |-> FALSE]
    /\ due = [j \in Jobs |-> TRUE]
    /\ manifest = [j \in Jobs |-> "none"]
    /\ barrier = [b \in Barriers |-> Absent]
    /\ produced = [b \in Barriers |-> 0]
    /\ drained = [b \in Barriers |-> 0]

RunStep(r) ==
    \/ OpenRun(r)
    \/ CompleteProducers(r)
    \/ SealEndpointAudit(r)
    \/ CloseRunProduction(r)
    \/ RecoverRunLeasesAsAmbiguous(r)

BatchStep(j) ==
    \/ EnqueueBatch(j)
    \/ EnqueueRejected(j)
    \/ LeaseExpires(j)
    \/ BackoffElapses(j)

LeaseStep(j, t) ==
    \/ ClaimJob(j, t)
    \/ ClaimReconcilingJob(j, t)
    \/ AckBatch(j, t)
    \/ MarkReconciling(j, t)
    \/ \E now \in BOOLEAN : ScheduleRetry(j, t, now)
    \/ ScheduleReconciliationRetry(j, t)
    \/ BlockBatch(j, t)

Next ==
    \/ \E r \in Runs : RunStep(r)
    \/ \E j \in Jobs : BatchStep(j)
    \/ \E b \in Barriers : OpenBarrier(b) \/ CloseBarrier(b)
    \/ \E j \in Jobs, t \in Tokens : LeaseStep(j, t)
    \/ \E r \in Runs, t \in Tokens : ClaimBatch(r, t) \/ ClaimReconciling(r, t)
    \/ QuarantineLegacyTargets
    \/ RecoverExpiredLeases

Spec == Init /\ [][Next]_storeVars

-----------------------------------------------------------------------------
(* Properties.                                                              *)

\* The tables hold values of their column types.
TypeOK ==
    /\ runStatus \in [Runs -> RunStatus \cup {Absent}]
    /\ complete \in [Runs -> BOOLEAN]
    /\ audit \in [Runs -> BOOLEAN]
    /\ status \in [Jobs -> BatchStatus \cup {Absent}]
    /\ attempt \in [Jobs -> Nat]
    /\ token \in [Jobs -> Tokens \cup {NoToken}]
    /\ live \in [Jobs -> BOOLEAN]
    /\ due \in [Jobs -> BOOLEAN]
    /\ manifest \in [Jobs -> Disposition]
    /\ barrier \in [Barriers -> BarrierStatus \cup {Absent}]
    /\ produced \in [Barriers -> Nat]
    /\ drained \in [Barriers -> Nat]

\* The batches a barrier waits for, and those of them that are acknowledged.
Awaited(b) == {j \in Jobs : b \in Produces[j] /\ status[j] # Absent
                                /\ manifest[j] # "rejected"}
Acknowledged(b) == {j \in Awaited(b) : status[j] = "done"}

\* The two counters of a barrier, kept by enqueue_batch and ack_batch one
\* increment at a time, always agree with the batches table: retries, lost
\* leases, rejected manifests and quarantines never make them drift.
BarrierLedger ==
    \A b \in Barriers : /\ produced[b] = Cardinality(Awaited(b))
                        /\ drained[b] = Cardinality(Acknowledged(b))

\* A drained barrier really has nothing left to wait for.
DrainedBarriersAreSettled ==
    \A b \in Barriers : barrier[b] = "drained" => Awaited(b) = Acknowledged(b)

\* The node-first guarantee: once a batch has been handed out for execution,
\* every batch that produces one of its required barriers is acknowledged, and
\* none can be added behind it.
NodesBeforeEdges ==
    \A j \in Jobs : attempt[j] > 0 =>
        \A b \in Requires[j] : barrier[b] = "drained" /\ Awaited(b) = Acknowledged(b)

\* The publication gate (finalize_journal_from_env publishes only a DRAINED
\* run): a drained run has no batch that is not done and no barrier waiting.
DrainedRunsAreComplete ==
    \A r \in Runs : runStatus[r] = "drained" =>
        /\ \A j \in JobsOf(r) : status[j] \in {Absent, "done"}
        /\ \A b \in BarriersOf(r) : barrier[b] \in {Absent, "drained"}

\* A batch that will never be executed again shows in the status of its run:
\* no run with a blocked or dead-lettered batch looks active or drained.
FailuresAreVisible ==
    \A j \in Jobs : status[j] \in {"blocked", "dead_letter"} =>
        runStatus[RunOf[j]] \in {"blocked", "dead_lettered", "quarantined"}

\* Opening a run fences every other active run of its scope off, so two
\* incompatible runs never hand out work against one graph target.
OneActiveRunPerScope ==
    \A q, r \in Runs : q # r /\ ScopeOf[q] = ScopeOf[r] => ~(Active(q) /\ Active(r))

\* Nothing of a quarantined run can be claimed, acknowledged or retried.
QuarantineFences ==
    \A j \in Jobs : runStatus[RunOf[j]] = "quarantined" =>
        status[j] \in {Absent, "done", "blocked"} /\ token[j] = NoToken

\* max_attempts bounds the executions of a batch.  The stored counter passes
\* it by one only in a dead letter, when the readback after the last permitted
\* execution fails.
AttemptBudget ==
    \A j \in Jobs :
        /\ attempt[j] <= MaxAttempts + 1
        /\ attempt[j] > MaxAttempts => status[j] = "dead_letter"
        /\ status[j] = "retry_wait" => attempt[j] < MaxAttempts

\* A sealed endpoint audit is never stale: outside quarantine,
\* endpoint_audit_status finds the boundary it was sealed on intact.
SealedAuditsHold ==
    \A r \in Runs : audit[r] /\ runStatus[r] # "quarantined" => AuditBoundary(r)

\* The step keeps what is settled.
KeepsSettled ==
    /\ \A j \in Jobs : /\ status[j] # Absent => status'[j] # Absent
                       /\ status[j] = "done" => status'[j] = "done"
    /\ \A b \in Barriers : barrier[b] = "drained" => barrier'[b] = "drained"
    /\ \A r \in Runs : audit[r] => audit'[r]
    /\ \A r \in Runs : runStatus[r] \in {"drained", "quarantined"}
                         => runStatus'[r] = runStatus[r]
    /\ \A r \in Runs : runStatus[r] # Absent /\ ~Active(r) => ~Active(r)'

\* Staged and acknowledged work, drained barriers, seals and finished runs are
\* final: no operation of the store takes any of them back.
NothingIsTakenBack == [][KeepsSettled]_storeVars

-----------------------------------------------------------------------------
(* What the safety properties rest on, step by step.                        *)

\* Only a batch whose outcome is open carries a token.
Fenced == \A j \in Jobs : token[j] # NoToken => status[j] \in {"leased", "reconciling"}

\* Exactly the batches that have been handed out have a positive attempt.
AttemptsCountClaims ==
    \A j \in Jobs :
        /\ status[j] \in {Absent, "pending"} => attempt[j] = 0
        /\ status[j] \notin {Absent, "pending", "blocked"} => attempt[j] > 0

\* A batch with rejected identities is stored blocked and stays blocked.
RejectedStayBlocked == \A j \in Jobs : manifest[j] = "rejected" => status[j] = "blocked"

\* Batches belong to runs that were opened.
OpenedBeforeEnqueued == \A j \in Jobs : status[j] # Absent => runStatus[RunOf[j]] # Absent

\* The inductive invariant of the store.
StoreInv ==
    /\ TypeOK
    /\ Fenced
    /\ AttemptsCountClaims
    /\ RejectedStayBlocked
    /\ OpenedBeforeEnqueued
    /\ OneActiveRunPerScope
    /\ QuarantineFences
    /\ FailuresAreVisible
    /\ DrainedRunsAreComplete
    /\ BarrierLedger
    /\ DrainedBarriersAreSettled
    /\ NodesBeforeEdges
    /\ AttemptBudget
    /\ SealedAuditsHold

=============================================================================
