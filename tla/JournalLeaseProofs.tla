------------------------ MODULE JournalLeaseProofs -------------------------
(***************************************************************************)
(* The inductive invariant StoreInv of JournalStore holds in an empty      *)
(* journal and is preserved by the operations on leases: the clock, the    *)
(* claims, the recoveries, and what the holder of a lease reports.         *)
(***************************************************************************)
EXTENDS JournalStore, FiniteSetTheorems, TLAPS

-----------------------------------------------------------------------------
(* The initial state.                                                       *)

\* An empty journal satisfies every part of the invariant.
LEMMA InitStoreInv == Init => StoreInv
<1> SUFFICES ASSUME Init PROVE StoreInv
  OBVIOUS
<1> USE DEF Init
<1>1. TypeOK
  BY DEF TypeOK, RunStatus, BatchStatus, BarrierStatus, Disposition
<1>2. Fenced /\ AttemptsCountClaims /\ RejectedStayBlocked /\ OpenedBeforeEnqueued
  BY DEF Fenced, AttemptsCountClaims, RejectedStayBlocked, OpenedBeforeEnqueued, Absent
<1>3. /\ OneActiveRunPerScope /\ QuarantineFences
      /\ FailuresAreVisible /\ DrainedRunsAreComplete
  BY DEF OneActiveRunPerScope, QuarantineFences, FailuresAreVisible,
         DrainedRunsAreComplete, Active, Absent
<1>4. \A b \in Barriers : Awaited(b) = {} /\ Acknowledged(b) = {}
  BY DEF Awaited, Acknowledged
<1>5. BarrierLedger /\ DrainedBarriersAreSettled
  BY <1>4, FS_EmptySet, Zenon DEF BarrierLedger, DrainedBarriersAreSettled, Absent
<1>6. NodesBeforeEdges /\ AttemptBudget /\ SealedAuditsHold
  BY StoreConstants DEF NodesBeforeEdges, AttemptBudget, SealedAuditsHold
<1> QED
  BY <1>1, <1>2, <1>3, <1>5, <1>6 DEF StoreInv

-----------------------------------------------------------------------------
(* Facts about barriers that several operations need.                       *)

\* The sets a barrier counts are finite, and acknowledged batches are awaited.
LEMMA CountedSetsAreFinite ==
    ASSUME NEW b \in Barriers
    PROVE  /\ IsFiniteSet(Awaited(b)) /\ IsFiniteSet(Acknowledged(b))
           /\ Acknowledged(b) \subseteq Awaited(b)
<1>1. Awaited(b) \subseteq Jobs /\ Acknowledged(b) \subseteq Awaited(b)
  BY DEF Awaited, Acknowledged
<1> QED
  BY <1>1, FS_Subset, StoreConstants

\* When the counters of a barrier agree, nothing it awaits is outstanding.
LEMMA EqualCountsMeanSettled ==
    ASSUME NEW b \in Barriers,
           Cardinality(Awaited(b)) = Cardinality(Acknowledged(b))
    PROVE  Awaited(b) = Acknowledged(b)
<1>1. IsFiniteSet(Awaited(b)) /\ Acknowledged(b) \subseteq Awaited(b)
  BY CountedSetsAreFinite
<1> QED
  BY <1>1, FS_Subset

\* A step that enqueues nothing and acknowledges nothing, and touches no
\* manifest, leaves what every barrier counts as it was.
LEMMA BarrierFrame ==
    ASSUME UNCHANGED manifest,
           \A j \in Jobs : /\ (status'[j] = Absent) <=> (status[j] = Absent)
                           /\ (status'[j] = "done") <=> (status[j] = "done")
    PROVE  \A b \in Barriers : /\ Awaited(b)' = Awaited(b)
                               /\ Acknowledged(b)' = Acknowledged(b)
BY DEF Awaited, Acknowledged

\* If such a step leaves the counters alone too, the ledger stays right.
LEMMA LedgerFrame ==
    ASSUME BarrierLedger, UNCHANGED <<manifest, produced, drained>>,
           \A j \in Jobs : /\ (status'[j] = Absent) <=> (status[j] = Absent)
                           /\ (status'[j] = "done") <=> (status[j] = "done")
    PROVE  BarrierLedger'
BY BarrierFrame DEF BarrierLedger

-----------------------------------------------------------------------------
(* What the holder of a lease reports: acknowledgement.                     *)

\* A batch with an owner is within its attempt budget, was not rejected, and
\* belongs to a run that is neither quarantined nor drained.
LEMMA OwnedBatch ==
    ASSUME StoreInv, NEW j \in Jobs, NEW t \in Tokens, OwnedTransition(j, t)
    PROVE  /\ status[j] \in {"leased", "reconciling"}
           /\ attempt[j] \in Nat /\ attempt[j] > 0 /\ attempt[j] <= MaxAttempts
           /\ manifest[j] # "rejected"
           /\ runStatus[RunOf[j]] \notin {"quarantined", "drained", Absent}
<1> USE DEF StoreInv, OwnedTransition
<1>1. attempt[j] \in Nat /\ attempt[j] > 0 /\ attempt[j] <= MaxAttempts
  BY StoreConstants DEF TypeOK, AttemptsCountClaims, AttemptBudget, Absent
<1>2. manifest[j] # "rejected"
  BY DEF RejectedStayBlocked
<1>3. runStatus[RunOf[j]] \notin {"quarantined", "drained", Absent}
  BY StoreConstants
     DEF QuarantineFences, DrainedRunsAreComplete, OpenedBeforeEnqueued, JobsOf, Absent
<1> QED
  BY <1>1, <1>2, <1>3


\* ack_batch: one more acknowledged batch for each barrier it produces, which
\* drains a closed barrier when it was the last; the run drains with its last.
LEMMA AckBatchPreserves ==
    ASSUME StoreInv, NEW j \in Jobs, NEW t \in Tokens, AckBatch(j, t)
    PROVE  StoreInv'
<1> USE DEF StoreInv
<1>1. /\ status[j] \in {"leased", "reconciling"} /\ attempt[j] > 0
      /\ attempt[j] \in Nat /\ attempt[j] <= MaxAttempts
      /\ manifest[j] # "rejected"
      /\ runStatus[RunOf[j]] \notin {"quarantined", "drained", Absent}
  BY OwnedBatch DEF AckBatch
<1>2. /\ UNCHANGED <<complete, audit, attempt, due, manifest, produced>>
      /\ status' = [status EXCEPT ![j] = "done"]
      /\ token' = [token EXCEPT ![j] = NoToken]
      /\ live' = [live EXCEPT ![j] = FALSE]
      /\ runStatus' = [runStatus EXCEPT ![RunOf[j]] =
                            Refreshed(RunOf[j], runStatus[RunOf[j]])]
  BY DEF AckBatch, Settle
<1>3. status'[j] = "done" /\ \A k \in Jobs \ {j} : status'[k] = status[k]
  BY <1>2 DEF TypeOK
<1>4. token'[j] = NoToken /\ \A k \in Jobs \ {j} : token'[k] = token[k]
  BY <1>2 DEF TypeOK
<1>5. \A b \in Barriers :
        /\ drained'[b] = IF b \in Produces[j] THEN drained[b] + 1 ELSE drained[b]
        /\ barrier'[b] = IF /\ b \in Produces[j] /\ barrier[b] # "open"
                            /\ drained[b] + 1 = produced[b]
                         THEN "drained" ELSE barrier[b]
  BY DEF AckBatch
<1>6. Refreshed(RunOf[j], runStatus[RunOf[j]]) \in {runStatus[RunOf[j]], "drained"}
  BY DEF Refreshed
<1>7. TypeOK'
  BY StoreConstants, <1>2, <1>6 DEF AckBatch, TypeOK, BatchStatus, RunStatus, BarrierStatus
<1>8. \A r \in Runs :
        \/ runStatus'[r] = runStatus[r]
        \/ /\ r = RunOf[j] /\ runStatus[r] = "draining" /\ runStatus'[r] = "drained"
           /\ \A k \in JobsOf(r) : status'[k] \in {Absent, "done"}
           /\ \A b \in BarriersOf(r) : barrier'[b] \in {Absent, "drained"}
  BY <1>2 DEF TypeOK, Refreshed
<1>9. Fenced' /\ AttemptsCountClaims' /\ RejectedStayBlocked' /\ AttemptBudget'
  BY <1>1, <1>2, <1>3, <1>4
     DEF Fenced, AttemptsCountClaims, RejectedStayBlocked, AttemptBudget, Absent
<1>10. OpenedBeforeEnqueued' /\ OneActiveRunPerScope'
  BY StoreConstants, <1>1, <1>3, <1>8
     DEF OpenedBeforeEnqueued, OneActiveRunPerScope, Active, Absent
<1>11. QuarantineFences' /\ FailuresAreVisible'
  BY StoreConstants, <1>3, <1>4, <1>8 DEF QuarantineFences, FailuresAreVisible
<1>12. DrainedRunsAreComplete'
  BY <1>1, <1>3, <1>5, <1>8 DEF DrainedRunsAreComplete, JobsOf, BarriersOf
<1>13. SealedAuditsHold'
  BY <1>2, <1>3, <1>8 DEF SealedAuditsHold, AuditBoundary, JobsOf
<1>14. \A b \in Barriers :
        /\ Awaited(b)' = Awaited(b)
        /\ b \notin Produces[j] => Acknowledged(b)' = Acknowledged(b)
        /\ b \in Produces[j] => /\ Acknowledged(b)' = Acknowledged(b) \cup {j}
                                /\ j \in Awaited(b) /\ j \notin Acknowledged(b)
  BY <1>1, <1>2, <1>3 DEF Awaited, Acknowledged, Absent
<1>15. BarrierLedger'
  <2> SUFFICES ASSUME NEW b \in Barriers
               PROVE  /\ produced'[b] = Cardinality(Awaited(b)')
                      /\ drained'[b] = Cardinality(Acknowledged(b)')
    BY DEF BarrierLedger
  <2>1. produced'[b] = Cardinality(Awaited(b)')
    BY <1>2, <1>14 DEF BarrierLedger
  <2>2. CASE b \notin Produces[j]
    BY <2>1, <2>2, <1>5, <1>14 DEF BarrierLedger
  <2>3. CASE b \in Produces[j]
    <3>1. Cardinality(Acknowledged(b) \cup {j}) = Cardinality(Acknowledged(b)) + 1
      BY <2>3, <1>14, CountedSetsAreFinite, FS_AddElement, Zenon
    <3> QED
      BY <2>1, <2>3, <3>1, <1>5, <1>14, Zenon DEF BarrierLedger
  <2> QED
    BY <2>2, <2>3
<1>16. DrainedBarriersAreSettled'
  <2> SUFFICES ASSUME NEW b \in Barriers, barrier'[b] = "drained"
               PROVE  Awaited(b)' = Acknowledged(b)'
    BY DEF DrainedBarriersAreSettled
  <2>1. CASE barrier[b] = "drained"
    BY <2>1, <1>14 DEF DrainedBarriersAreSettled
  <2>2. CASE barrier[b] # "drained"
    <3>1. b \in Produces[j] /\ drained[b] + 1 = produced[b]
      BY <2>2, <1>5
    <3>2. Cardinality(Awaited(b)') = Cardinality(Acknowledged(b)')
      BY <3>1, <1>2, <1>5, <1>15 DEF BarrierLedger
    <3>3. IsFiniteSet(Awaited(b)) /\ Acknowledged(b) \subseteq Awaited(b)
      BY CountedSetsAreFinite
    <3> QED
      BY <3>1, <3>2, <3>3, <1>14, FS_Subset
  <2> QED
    BY <2>1, <2>2
<1>17. NodesBeforeEdges'
  BY StoreConstants, <1>2, <1>5, <1>16 DEF NodesBeforeEdges, DrainedBarriersAreSettled
<1> QED
  BY <1>7, <1>9, <1>10, <1>11, <1>12, <1>13, <1>15, <1>16, <1>17

-----------------------------------------------------------------------------
(* Leases.                                                                  *)

\* A step that at most turns open outcomes into ambiguous ones, and changes
\* neither runs, attempts, manifests nor barriers, preserves the invariant.
LEMMA LeaseFrame ==
    ASSUME StoreInv, TypeOK', Fenced',
           UNCHANGED <<runVars, attempt, manifest, barrierVars>>,
           \A j \in Jobs : \/ status'[j] = status[j]
                           \/ /\ status[j] \in {"leased", "reconciling"}
                              /\ status'[j] = "reconciling"
    PROVE  StoreInv'
<1> USE DEF StoreInv, runVars, barrierVars
<1>1. AttemptsCountClaims' /\ RejectedStayBlocked' /\ OpenedBeforeEnqueued'
  BY StoreConstants
     DEF AttemptsCountClaims, RejectedStayBlocked, OpenedBeforeEnqueued, Absent
<1>2. OneActiveRunPerScope'
  BY DEF OneActiveRunPerScope, Active
<1>3. QuarantineFences'
  BY StoreConstants DEF QuarantineFences, Fenced, Absent
<1>4. FailuresAreVisible' /\ DrainedRunsAreComplete'
  BY DEF FailuresAreVisible, DrainedRunsAreComplete, JobsOf, BarriersOf, Absent
<1>5. \A j \in Jobs : /\ (status'[j] = Absent) <=> (status[j] = Absent)
                      /\ (status'[j] = "done") <=> (status[j] = "done")
  BY DEF Absent
<1>6. BarrierLedger'
  BY <1>5, LedgerFrame
<1>7. \A b \in Barriers : Awaited(b)' = Awaited(b) /\ Acknowledged(b)' = Acknowledged(b)
  BY <1>5, BarrierFrame
<1>8. DrainedBarriersAreSettled' /\ NodesBeforeEdges'
  BY <1>7, StoreConstants DEF DrainedBarriersAreSettled, NodesBeforeEdges
<1>9. AttemptBudget'
  BY DEF AttemptBudget
<1>10. SealedAuditsHold'
  BY DEF SealedAuditsHold, AuditBoundary, JobsOf
<1> QED
  BY <1>1, <1>2, <1>3, <1>4, <1>6, <1>8, <1>9, <1>10

\* The clock: expiring leases and elapsing backoffs.
LEMMA ClockPreserves ==
    ASSUME StoreInv, NEW j \in Jobs, LeaseExpires(j) \/ BackoffElapses(j)
    PROVE  StoreInv'
<1> USE DEF LeaseExpires, BackoffElapses
<1>1. TypeOK' /\ Fenced'
  BY Zenon DEF StoreInv, TypeOK, Fenced, runVars, barrierVars
<1> QED
  BY <1>1, LeaseFrame DEF runVars, barrierVars

\* recover_expired_leases makes expired leases ambiguous.
LEMMA RecoverExpiredLeasesPreserves ==
    ASSUME StoreInv, RecoverExpiredLeases
    PROVE  StoreInv'
<1> USE DEF RecoverExpiredLeases, RecoveredStatus, RecoveredToken, Expired
<1>1. TypeOK'
  BY DEF StoreInv, TypeOK, BatchStatus, runVars, barrierVars
<1>2. Fenced'
  BY DEF StoreInv, Fenced
<1> QED
  BY <1>1, <1>2, LeaseFrame DEF runVars, barrierVars

\* recover_run_leases_as_ambiguous takes over live leases too.
LEMMA RecoverRunLeasesPreserves ==
    ASSUME StoreInv, NEW r \in Runs, RecoverRunLeasesAsAmbiguous(r)
    PROVE  StoreInv'
<1> USE DEF RecoverRunLeasesAsAmbiguous
<1>1. TypeOK'
  BY Zenon DEF StoreInv, TypeOK, BatchStatus, runVars, barrierVars
<1>2. Fenced'
  BY DEF StoreInv, Fenced
<1> QED
  BY <1>1, <1>2, LeaseFrame DEF runVars, barrierVars, JobsOf

\* mark_reconciling keeps the lease and forgets the outcome.
LEMMA MarkReconcilingPreserves ==
    ASSUME StoreInv, NEW j \in Jobs, NEW t \in Tokens, MarkReconciling(j, t)
    PROVE  StoreInv'
<1>1. TypeOK'
  BY DEF MarkReconciling, leaseVars, StoreInv, TypeOK, BatchStatus, runVars, barrierVars
<1>2. Fenced'
  BY DEF MarkReconciling, OwnedLease, leaseVars, StoreInv, TypeOK, Fenced
<1>3. \A k \in Jobs : \/ status'[k] = status[k]
                    \/ /\ status[k] \in {"leased", "reconciling"}
                       /\ status'[k] = "reconciling"
  BY DEF MarkReconciling, OwnedLease, StoreInv, TypeOK
<1> QED
  BY <1>1, <1>2, <1>3, LeaseFrame DEF MarkReconciling, leaseVars, runVars, barrierVars

\* claim_reconciling and claim_reconciling_job hand ambiguous work out for readback.
LEMMA ClaimReconcilingJobPreserves ==
    ASSUME StoreInv, NEW j \in Jobs, NEW t \in Tokens, ClaimReconcilingJob(j, t)
    PROVE  StoreInv'
<1> USE DEF ClaimReconcilingJob, Reconcilable, RecoveredStatus, RecoveredToken, Expired
<1>1. TypeOK'
  BY DEF StoreInv, TypeOK, BatchStatus, runVars, barrierVars
<1>2. Fenced'
  BY DEF StoreInv, TypeOK, Fenced
<1> QED
  BY <1>1, <1>2, LeaseFrame DEF runVars, barrierVars

\* claim_batch and claim_job hand an executable batch out.
LEMMA ClaimJobPreserves ==
    ASSUME StoreInv, NEW j \in Jobs, NEW t \in Tokens, ClaimJob(j, t)
    PROVE  StoreInv'
<1> USE DEF StoreInv
<1>1. TypeOK'
  BY DEF ClaimJob, RecoveredStatus, RecoveredToken, TypeOK, BatchStatus, runVars, barrierVars
<1>2. /\ status[j] \in {"pending", "retry_wait"} /\ status'[j] = "leased"
      /\ \A k \in Jobs \ {j} : \/ status'[k] = status[k]
                               \/ /\ status[k] \in {"leased", "reconciling"}
                                  /\ status'[k] = "reconciling"
  BY DEF ClaimJob, Executable, RecoveredStatus, Expired, TypeOK
<1>3. /\ attempt'[j] = attempt[j] + 1 /\ \A k \in Jobs \ {j} : attempt'[k] = attempt[k]
      /\ UNCHANGED <<runStatus, complete, audit, due, manifest, barrier, produced, drained>>
      /\ Active(RunOf[j]) /\ \A b \in Requires[j] : barrier[b] = "drained"
  BY DEF ClaimJob, Executable, TypeOK, runVars, barrierVars
<1>4. Fenced'
  BY DEF ClaimJob, RecoveredStatus, RecoveredToken, Expired, TypeOK, Fenced
<1>5. AttemptsCountClaims' /\ AttemptBudget'
  <2>1. attempt[j] \in Nat /\ attempt[j] < MaxAttempts
    BY StoreConstants, <1>2 DEF TypeOK, AttemptsCountClaims, AttemptBudget
  <2>2. AttemptsCountClaims'
    BY StoreConstants, <1>2, <1>3, <2>1 DEF TypeOK, AttemptsCountClaims, Absent
  <2>3. AttemptBudget'
    BY StoreConstants, <1>2, <1>3, <2>1 DEF TypeOK, AttemptBudget
  <2> QED
    BY <2>2, <2>3
<1>6. RejectedStayBlocked' /\ OpenedBeforeEnqueued'
  BY <1>2, <1>3 DEF RejectedStayBlocked, OpenedBeforeEnqueued, Absent
<1>7. OneActiveRunPerScope'
  BY <1>3 DEF OneActiveRunPerScope, Active
<1>8. QuarantineFences' /\ FailuresAreVisible'
  BY <1>2, <1>3, <1>4 DEF QuarantineFences, FailuresAreVisible, Fenced, Active, Absent
<1>9. DrainedRunsAreComplete'
  BY <1>2, <1>3 DEF DrainedRunsAreComplete, JobsOf, BarriersOf, Active, Absent
<1>10. \A k \in Jobs : /\ (status'[k] = Absent) <=> (status[k] = Absent)
                       /\ (status'[k] = "done") <=> (status[k] = "done")
  BY <1>2 DEF Absent
<1>11. BarrierLedger'
  BY <1>3, <1>10, LedgerFrame
<1>12. \A b \in Barriers : Awaited(b)' = Awaited(b) /\ Acknowledged(b)' = Acknowledged(b)
  BY <1>3, <1>10, BarrierFrame
<1>13. DrainedBarriersAreSettled'
  BY <1>3, <1>12 DEF DrainedBarriersAreSettled
<1>14. NodesBeforeEdges'
  BY StoreConstants, <1>3, <1>12 DEF NodesBeforeEdges, DrainedBarriersAreSettled
<1>15. SealedAuditsHold'
  BY <1>2, <1>3 DEF SealedAuditsHold, AuditBoundary, JobsOf
<1> QED
  BY <1>1, <1>4, <1>5, <1>6, <1>7, <1>8, <1>9, <1>11, <1>13, <1>14, <1>15

-----------------------------------------------------------------------------
(* What the holder of a lease reports when it gives up.                     *)

\* A batch that leaves its lease without being acknowledged: the invariant is
\* preserved if a batch that is given up shows in the status of its run.
LEMMA GiveUpFrame ==
    ASSUME StoreInv, TypeOK', AttemptBudget',
           NEW j \in Jobs, NEW t \in Tokens, OwnedTransition(j, t),
           NEW s \in {"retry_wait", "reconciling", "blocked", "dead_letter"},
           Settle(j, s),
           NEW x, runStatus' = [runStatus EXCEPT ![RunOf[j]] = x],
           x = runStatus[RunOf[j]] \/ x \in {"blocked", "dead_lettered"},
           s \in {"blocked", "dead_letter"} => x \in {"blocked", "dead_lettered"},
           \A k \in Jobs \ {j} : attempt'[k] = attempt[k],
           attempt'[j] > 0,
           UNCHANGED <<complete, audit, manifest, barrierVars>>
    PROVE  StoreInv'
<1> USE DEF StoreInv, barrierVars
<1>1. /\ status[j] \in {"leased", "reconciling"} /\ attempt[j] > 0
      /\ manifest[j] # "rejected"
      /\ runStatus[RunOf[j]] \notin {"quarantined", "drained", Absent}
  BY OwnedBatch
<1>2. status'[j] = s /\ \A k \in Jobs \ {j} : status'[k] = status[k]
  BY DEF Settle, TypeOK
<1>3. token'[j] = NoToken /\ \A k \in Jobs \ {j} : token'[k] = token[k]
  BY DEF Settle, TypeOK
<1>4. \A r \in Runs : \/ runStatus'[r] = runStatus[r]
                      \/ /\ r = RunOf[j] /\ runStatus'[r] \in {"blocked", "dead_lettered"}
  BY DEF TypeOK
<1>5. runStatus'[RunOf[j]] = x
  BY DEF TypeOK
<1>6. Fenced'
  BY <1>2, <1>3 DEF Fenced
<1>7. AttemptsCountClaims' /\ RejectedStayBlocked'
  BY <1>1, <1>2 DEF AttemptsCountClaims, RejectedStayBlocked, Absent
<1>8. OpenedBeforeEnqueued' /\ OneActiveRunPerScope'
  BY <1>1, <1>2, <1>4 DEF OpenedBeforeEnqueued, OneActiveRunPerScope, Active, Absent
<1>9. QuarantineFences'
  BY <1>1, <1>2, <1>3, <1>4 DEF QuarantineFences
<1>10. FailuresAreVisible'
  BY <1>2, <1>4, <1>5 DEF FailuresAreVisible
<1>11. DrainedRunsAreComplete'
  BY <1>1, <1>2, <1>4 DEF DrainedRunsAreComplete, JobsOf, BarriersOf
<1>12. \A k \in Jobs : /\ (status'[k] = Absent) <=> (status[k] = Absent)
                       /\ (status'[k] = "done") <=> (status[k] = "done")
  BY <1>1, <1>2 DEF Absent
<1>13. BarrierLedger'
  BY <1>12, LedgerFrame
<1>14. \A b \in Barriers : Awaited(b)' = Awaited(b) /\ Acknowledged(b)' = Acknowledged(b)
  BY <1>12, BarrierFrame
<1>15. DrainedBarriersAreSettled' /\ NodesBeforeEdges'
  <2>1. DrainedBarriersAreSettled'
    BY <1>14 DEF DrainedBarriersAreSettled
  <2>2. NodesBeforeEdges'
    BY StoreConstants, <1>1, <1>14 DEF NodesBeforeEdges
  <2> QED
    BY <2>1, <2>2
<1>16. SealedAuditsHold'
  BY <1>1, <1>4, <1>12 DEF SealedAuditsHold, AuditBoundary, JobsOf
<1> QED
  BY <1>6, <1>7, <1>8, <1>9, <1>10, <1>11, <1>13, <1>15, <1>16

\* schedule_retry: back to the queue, or a dead letter once the budget is spent.
LEMMA ScheduleRetryPreserves ==
    ASSUME StoreInv, NEW j \in Jobs, NEW t \in Tokens, NEW now \in BOOLEAN,
           ScheduleRetry(j, t, now)
    PROVE  StoreInv'
<1> DEFINE exhausted == attempt[j] >= MaxAttempts
           s == IF exhausted THEN "dead_letter" ELSE "retry_wait"
           x == IF exhausted THEN "dead_lettered" ELSE runStatus[RunOf[j]]
<1>1. /\ OwnedTransition(j, t) /\ Settle(j, s)
      /\ runStatus' = [runStatus EXCEPT ![RunOf[j]] = x]
      /\ UNCHANGED <<complete, audit, attempt, manifest, barrierVars>>
  BY DEF ScheduleRetry
<1>2. TypeOK'
  <2>1. due' = [due EXCEPT ![j] = exhausted \/ now] /\ due \in [Jobs -> BOOLEAN]
    BY DEF ScheduleRetry, StoreInv, TypeOK
  <2>2. due' \in [Jobs -> BOOLEAN]
    BY <2>1, Zenon
  <2> QED
    BY <1>1, <2>2, StoreConstants, Zenon
       DEF StoreInv, TypeOK, Settle, BatchStatus, RunStatus, barrierVars
<1>3. attempt[j] \in Nat /\ attempt[j] > 0 /\ attempt[j] <= MaxAttempts
  BY <1>1, OwnedBatch
<1>4. AttemptBudget'
  BY <1>1, <1>3, StoreConstants DEF StoreInv, TypeOK, AttemptBudget, Settle
<1> QED
  BY <1>1, <1>2, <1>3, <1>4, GiveUpFrame, ZenonT(30)

\* schedule_reconciliation_retry: still ambiguous, or a dead letter.
LEMMA ScheduleReconciliationRetryPreserves ==
    ASSUME StoreInv, NEW j \in Jobs, NEW t \in Tokens,
           ScheduleReconciliationRetry(j, t)
    PROVE  StoreInv'
<1> DEFINE exhausted == attempt[j] + 1 >= MaxAttempts
           s == IF exhausted THEN "dead_letter" ELSE "reconciling"
           x == IF exhausted THEN "dead_lettered" ELSE runStatus[RunOf[j]]
<1>1. /\ OwnedTransition(j, t) /\ Settle(j, s)
      /\ runStatus' = [runStatus EXCEPT ![RunOf[j]] = x]
      /\ attempt' = [attempt EXCEPT ![j] = attempt[j] + 1]
      /\ UNCHANGED <<complete, audit, manifest, barrierVars>>
  BY DEF ScheduleReconciliationRetry
<1>2. TypeOK'
  <2>1. exhausted \in BOOLEAN
    OBVIOUS
  <2>2. due' = [due EXCEPT ![j] = exhausted] /\ due \in [Jobs -> BOOLEAN]
    BY DEF ScheduleReconciliationRetry, StoreInv, TypeOK
  <2>3. due' \in [Jobs -> BOOLEAN]
    <3> HIDE DEF exhausted
    <3> QED
      BY <2>1, <2>2, Zenon
  <2>4. attempt' \in [Jobs -> Nat]
    BY <1>1 DEF StoreInv, TypeOK
  <2> QED
    BY <1>1, <2>3, <2>4, StoreConstants
       DEF StoreInv, TypeOK, Settle, BatchStatus, RunStatus, barrierVars
<1>3. attempt[j] \in Nat /\ attempt[j] > 0 /\ attempt[j] <= MaxAttempts
  BY <1>1, OwnedBatch
<1>4. attempt'[j] = attempt[j] + 1 /\ \A k \in Jobs \ {j} : attempt'[k] = attempt[k]
  BY <1>1 DEF StoreInv, TypeOK
<1>5. AttemptBudget'
  BY <1>1, <1>3, <1>4, StoreConstants DEF StoreInv, TypeOK, AttemptBudget, Settle
<1>6. attempt'[j] > 0
  BY <1>3, <1>4
<1> QED
  BY <1>1, <1>2, <1>4, <1>5, <1>6, GiveUpFrame, ZenonT(30)

\* block_batch: the batch and its run are blocked.
LEMMA BlockBatchPreserves ==
    ASSUME StoreInv, NEW j \in Jobs, NEW t \in Tokens, BlockBatch(j, t)
    PROVE  StoreInv'
<1>1. /\ OwnedTransition(j, t) /\ Settle(j, "blocked")
      /\ runStatus' = [runStatus EXCEPT ![RunOf[j]] = "blocked"]
      /\ UNCHANGED <<complete, audit, attempt, due, manifest, barrierVars>>
  BY DEF BlockBatch
<1>2. TypeOK'
  BY <1>1, StoreConstants, Zenon
     DEF StoreInv, TypeOK, Settle, BatchStatus, RunStatus, barrierVars
<1>3. attempt[j] \in Nat /\ attempt[j] > 0 /\ attempt[j] <= MaxAttempts
  BY <1>1, OwnedBatch
<1>4. AttemptBudget'
  BY <1>1, <1>3, StoreConstants DEF StoreInv, TypeOK, AttemptBudget, Settle
<1> QED
  BY <1>1, <1>2, <1>3, <1>4, GiveUpFrame, Zenon

=============================================================================
