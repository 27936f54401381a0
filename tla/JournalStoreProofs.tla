------------------------ MODULE JournalStoreProofs -------------------------
(***************************************************************************)
(* The safety properties of JournalStore hold for every set of runs,       *)
(* batches, barriers and tokens.  StoreInv is the inductive invariant;     *)
(* JournalLeaseProofs shows that the operations on the lease of a batch    *)
(* preserve it, and this module those that produce batches, open and close *)
(* barriers and the production of a run, and those that fence runs off.    *)
(***************************************************************************)
EXTENDS JournalLeaseProofs

-----------------------------------------------------------------------------
(* Production.                                                              *)

\* enqueue_batch: a new pending batch, counted by the barriers it produces.
LEMMA EnqueueBatchPreserves ==
    ASSUME StoreInv, NEW j \in Jobs, EnqueueBatch(j)
    PROVE  StoreInv'
<1> USE DEF StoreInv, runVars, leaseVars
<1>1. PICK m \in Dispositions(j) : manifest' = [manifest EXCEPT ![j] = m]
  BY Zenon DEF EnqueueBatch
<1>2. m \in Disposition /\ m # "rejected"
  BY DEF Dispositions, Disposition
<1>3. /\ ~complete[RunOf[j]] /\ runStatus[RunOf[j]] = "open" /\ status[j] = Absent
      /\ status' = [status EXCEPT ![j] = "pending"]
      /\ UNCHANGED <<runStatus, complete, audit, attempt, token, live, due, drained>>
  BY DEF EnqueueBatch, Enqueueable
<1>4. \A b \in Barriers :
        /\ b \in Produces[j] => /\ barrier[b] \in {Absent, "open"}
                                /\ barrier'[b] = "open"
                                /\ produced'[b] = produced[b] + 1
        /\ b \notin Produces[j] => barrier'[b] = barrier[b] /\ produced'[b] = produced[b]
  BY DEF EnqueueBatch
<1>5. TypeOK'
  BY <1>1, <1>2, <1>3 DEF EnqueueBatch, TypeOK, BatchStatus, BarrierStatus
<1>6. /\ status'[j] = "pending" /\ manifest'[j] = m
      /\ \A k \in Jobs \ {j} : status'[k] = status[k] /\ manifest'[k] = manifest[k]
  BY <1>1, <1>3 DEF TypeOK
<1>7. Fenced' /\ AttemptsCountClaims' /\ RejectedStayBlocked' /\ AttemptBudget'
  BY <1>2, <1>3, <1>6
     DEF Fenced, AttemptsCountClaims, RejectedStayBlocked, AttemptBudget, TypeOK, Absent
<1>8. OpenedBeforeEnqueued' /\ OneActiveRunPerScope'
  BY <1>3, <1>6 DEF OpenedBeforeEnqueued, OneActiveRunPerScope, Active, Absent
<1>9. QuarantineFences' /\ FailuresAreVisible'
  BY <1>3, <1>6 DEF QuarantineFences, FailuresAreVisible
<1>10. DrainedRunsAreComplete'
  BY StoreConstants, <1>3, <1>4, <1>6 DEF DrainedRunsAreComplete, JobsOf, BarriersOf
<1>11. SealedAuditsHold'
  BY <1>3, <1>6 DEF SealedAuditsHold, AuditBoundary, JobsOf
<1>12. \A b \in Barriers :
        /\ Acknowledged(b)' = Acknowledged(b)
        /\ b \notin Produces[j] => Awaited(b)' = Awaited(b)
        /\ b \in Produces[j] => Awaited(b)' = Awaited(b) \cup {j} /\ j \notin Awaited(b)
  BY <1>2, <1>3, <1>6 DEF Awaited, Acknowledged, Absent
<1>13. BarrierLedger'
  <2> SUFFICES ASSUME NEW b \in Barriers
               PROVE  /\ produced'[b] = Cardinality(Awaited(b)')
                      /\ drained'[b] = Cardinality(Acknowledged(b)')
    BY DEF BarrierLedger
  <2>1. drained'[b] = Cardinality(Acknowledged(b)')
    BY <1>3, <1>12 DEF BarrierLedger
  <2>2. CASE b \notin Produces[j]
    BY <2>1, <2>2, <1>4, <1>12 DEF BarrierLedger
  <2>3. CASE b \in Produces[j]
    <3>1. Cardinality(Awaited(b) \cup {j}) = Cardinality(Awaited(b)) + 1
      BY <2>3, <1>12, CountedSetsAreFinite, FS_AddElement, Zenon
    <3> QED
      BY <2>1, <2>3, <3>1, <1>4, <1>12, Zenon DEF BarrierLedger
  <2> QED
    BY <2>2, <2>3
<1>14. \A b \in Barriers : barrier'[b] = "drained" =>
            barrier[b] = "drained" /\ Awaited(b)' = Acknowledged(b)'
  BY <1>4, <1>12 DEF DrainedBarriersAreSettled
<1>15. DrainedBarriersAreSettled'
  BY <1>14 DEF DrainedBarriersAreSettled
<1>16. NodesBeforeEdges'
  <2>1. \A b \in Barriers : barrier[b] = "drained" => barrier'[b] = "drained"
    BY <1>4 DEF Absent
  <2> QED
    BY StoreConstants, <2>1, <1>3, <1>14 DEF NodesBeforeEdges
<1> QED
  BY <1>5, <1>7, <1>8, <1>9, <1>10, <1>11, <1>13, <1>15, <1>16

\* enqueue_batch with conflicting identities: stored blocked, counted nowhere.
LEMMA EnqueueRejectedPreserves ==
    ASSUME StoreInv, NEW j \in Jobs, EnqueueRejected(j)
    PROVE  StoreInv'
<1> USE DEF StoreInv, leaseVars, barrierVars
<1>1. /\ ~complete[RunOf[j]] /\ runStatus[RunOf[j]] = "open" /\ status[j] = Absent
      /\ status' = [status EXCEPT ![j] = "blocked"]
      /\ manifest' = [manifest EXCEPT ![j] = "rejected"]
      /\ runStatus' = [runStatus EXCEPT ![RunOf[j]] = "blocked"]
      /\ UNCHANGED <<complete, audit, attempt, token, live, due>>
      /\ UNCHANGED <<barrier, produced, drained>>
  BY DEF EnqueueRejected, Enqueueable
<1>2. TypeOK'
  BY <1>1, Zenon DEF TypeOK, BatchStatus, RunStatus, Disposition
<1>3. /\ status'[j] = "blocked" /\ manifest'[j] = "rejected"
      /\ \A k \in Jobs \ {j} : status'[k] = status[k] /\ manifest'[k] = manifest[k]
  BY <1>1 DEF TypeOK
<1>4. /\ runStatus'[RunOf[j]] = "blocked"
      /\ \A r \in Runs \ {RunOf[j]} : runStatus'[r] = runStatus[r]
  BY StoreConstants, <1>1 DEF TypeOK
<1>5. Fenced' /\ AttemptsCountClaims' /\ RejectedStayBlocked' /\ AttemptBudget'
  BY <1>1, <1>3
     DEF Fenced, AttemptsCountClaims, RejectedStayBlocked, AttemptBudget, TypeOK, Absent
<1>6. OpenedBeforeEnqueued' /\ OneActiveRunPerScope'
  BY <1>1, <1>3, <1>4 DEF OpenedBeforeEnqueued, OneActiveRunPerScope, Active, Absent
<1>7. QuarantineFences' /\ FailuresAreVisible' /\ DrainedRunsAreComplete'
  BY <1>1, <1>3, <1>4
     DEF QuarantineFences, FailuresAreVisible, DrainedRunsAreComplete, JobsOf, BarriersOf
<1>8. SealedAuditsHold'
  BY <1>1, <1>3, <1>4 DEF SealedAuditsHold, AuditBoundary, JobsOf
<1>9. \A b \in Barriers : Awaited(b)' = Awaited(b) /\ Acknowledged(b)' = Acknowledged(b)
  BY <1>1, <1>3 DEF Awaited, Acknowledged, Absent
<1>10. BarrierLedger' /\ DrainedBarriersAreSettled' /\ NodesBeforeEdges'
  BY StoreConstants, <1>1, <1>9
     DEF BarrierLedger, DrainedBarriersAreSettled, NodesBeforeEdges
<1> QED
  BY <1>2, <1>5, <1>6, <1>7, <1>8, <1>10

\* open_barrier and close_barrier: a barrier is drained only when its counters
\* agree, and a drained one is not reopened.
LEMMA BarrierStepPreserves ==
    ASSUME StoreInv, NEW b \in Barriers, OpenBarrier(b) \/ CloseBarrier(b)
    PROVE  StoreInv'
<1> USE DEF StoreInv, runVars, leaseVars
<1>1. /\ runStatus[BarrierRun[b]] = "open" /\ barrier[b] # "drained"
      /\ UNCHANGED <<runStatus, complete, audit, status, attempt, token, live, due>>
      /\ UNCHANGED <<manifest, produced, drained>>
  BY DEF OpenBarrier, CloseBarrier, Absent
<1>2. /\ \A c \in Barriers \ {b} : barrier'[c] = barrier[c]
      /\ barrier'[b] = "drained" => drained[b] = produced[b]
  BY DEF OpenBarrier, CloseBarrier, TypeOK
<1>3. TypeOK'
  BY <1>1 DEF OpenBarrier, CloseBarrier, TypeOK, BarrierStatus
<1>4. Fenced' /\ AttemptsCountClaims' /\ RejectedStayBlocked' /\ AttemptBudget'
  BY <1>1 DEF Fenced, AttemptsCountClaims, RejectedStayBlocked, AttemptBudget
<1>5. /\ OpenedBeforeEnqueued' /\ OneActiveRunPerScope' /\ QuarantineFences'
      /\ FailuresAreVisible'
  BY <1>1 DEF OpenedBeforeEnqueued, OneActiveRunPerScope, Active, QuarantineFences,
              FailuresAreVisible
<1>6. DrainedRunsAreComplete'
  BY <1>1, <1>2 DEF DrainedRunsAreComplete, JobsOf, BarriersOf
<1>7. SealedAuditsHold'
  BY <1>1 DEF SealedAuditsHold, AuditBoundary, JobsOf
<1>8. \A c \in Barriers : Awaited(c)' = Awaited(c) /\ Acknowledged(c)' = Acknowledged(c)
  BY <1>1, BarrierFrame
<1>9. BarrierLedger'
  BY <1>1, <1>8 DEF BarrierLedger
<1>10. barrier'[b] = "drained" => Awaited(b) = Acknowledged(b)
  BY <1>2, EqualCountsMeanSettled DEF BarrierLedger
<1>11. DrainedBarriersAreSettled'
  BY <1>2, <1>8, <1>10 DEF DrainedBarriersAreSettled
<1>12. NodesBeforeEdges'
  BY StoreConstants, <1>1, <1>2, <1>8 DEF NodesBeforeEdges
<1> QED
  BY <1>3, <1>4, <1>5, <1>6, <1>7, <1>9, <1>11, <1>12

\* complete_producers and seal_endpoint_audit each set one marker.
LEMMA MarkerPreserves ==
    ASSUME StoreInv, NEW r \in Runs, CompleteProducers(r) \/ SealEndpointAudit(r)
    PROVE  StoreInv'
<1> USE DEF StoreInv, leaseVars, barrierVars
<1>1. /\ UNCHANGED <<runStatus, status, attempt, token, live, due>>
      /\ UNCHANGED <<manifest, barrier, produced, drained>>
  BY DEF CompleteProducers, SealEndpointAudit
<1>2. TypeOK'
  BY <1>1, Zenon DEF CompleteProducers, SealEndpointAudit, TypeOK
<1>3. Fenced' /\ AttemptsCountClaims' /\ RejectedStayBlocked' /\ AttemptBudget'
  BY <1>1 DEF Fenced, AttemptsCountClaims, RejectedStayBlocked, AttemptBudget
<1>4. /\ OpenedBeforeEnqueued' /\ OneActiveRunPerScope' /\ QuarantineFences'
      /\ FailuresAreVisible' /\ DrainedRunsAreComplete'
  BY <1>1 DEF OpenedBeforeEnqueued, OneActiveRunPerScope, Active, QuarantineFences,
              FailuresAreVisible, DrainedRunsAreComplete, JobsOf, BarriersOf
<1>5. \A b \in Barriers : Awaited(b)' = Awaited(b) /\ Acknowledged(b)' = Acknowledged(b)
  BY <1>1, BarrierFrame
<1>6. BarrierLedger' /\ DrainedBarriersAreSettled' /\ NodesBeforeEdges'
  <2>1. BarrierLedger'
    BY <1>1, <1>5 DEF BarrierLedger
  <2>2. DrainedBarriersAreSettled'
    BY <1>1, <1>5 DEF DrainedBarriersAreSettled
  <2>3. NodesBeforeEdges'
    BY StoreConstants, <1>1, <1>5 DEF NodesBeforeEdges
  <2> QED
    BY <2>1, <2>2, <2>3
<1>7. SealedAuditsHold'
  <2>1. CASE CompleteProducers(r)
    BY <2>1, <1>1
       DEF CompleteProducers, SealedAuditsHold, AuditBoundary, JobsOf, TypeOK
  <2>2. CASE SealEndpointAudit(r)
    BY <2>2, <1>1 DEF SealEndpointAudit, SealedAuditsHold, AuditBoundary, JobsOf, TypeOK
  <2> QED
    BY <2>1, <2>2
<1> QED
  BY <1>2, <1>3, <1>4, <1>6, <1>7

\* close_run_production: the run starts draining, or is drained at once.
LEMMA CloseRunProductionPreserves ==
    ASSUME StoreInv, NEW r \in Runs, CloseRunProduction(r)
    PROVE  StoreInv'
<1> USE DEF StoreInv, leaseVars, barrierVars
<1>1. /\ UNCHANGED <<complete, audit, status, attempt, token, live, due>>
      /\ UNCHANGED <<manifest, barrier, produced, drained>>
  BY DEF CloseRunProduction
<1>2. \A q \in Runs :
        \/ runStatus'[q] = runStatus[q]
        \/ /\ q = r /\ Active(q) /\ runStatus'[q] = "draining"
        \/ /\ q = r /\ Active(q) /\ runStatus'[q] = "drained"
           /\ \A k \in JobsOf(q) : status'[k] \in {Absent, "done"}
           /\ \A b \in BarriersOf(q) : barrier'[b] \in {Absent, "drained"}
  BY DEF CloseRunProduction, Refreshed, TypeOK, Active
<1>3. TypeOK'
  BY <1>1 DEF CloseRunProduction, Refreshed, TypeOK, RunStatus
<1>4. Fenced' /\ AttemptsCountClaims' /\ RejectedStayBlocked' /\ AttemptBudget'
  BY <1>1 DEF Fenced, AttemptsCountClaims, RejectedStayBlocked, AttemptBudget
<1>5. OpenedBeforeEnqueued' /\ OneActiveRunPerScope'
  BY StoreConstants, <1>1, <1>2
     DEF OpenedBeforeEnqueued, OneActiveRunPerScope, Active, Absent
<1>6. QuarantineFences' /\ FailuresAreVisible'
  <2>1. QuarantineFences'
    BY StoreConstants, <1>1, <1>2 DEF QuarantineFences, Active
  <2>2. FailuresAreVisible'
    BY StoreConstants, <1>1, <1>2 DEF FailuresAreVisible, Active
  <2> QED
    BY <2>1, <2>2
<1>7. DrainedRunsAreComplete'
  BY <1>1, <1>2, SMT, Z3 DEF DrainedRunsAreComplete, JobsOf, BarriersOf
<1>8. \A b \in Barriers : Awaited(b)' = Awaited(b) /\ Acknowledged(b)' = Acknowledged(b)
  BY <1>1, BarrierFrame
<1>9. BarrierLedger' /\ DrainedBarriersAreSettled' /\ NodesBeforeEdges'
  BY StoreConstants, <1>1, <1>8
     DEF BarrierLedger, DrainedBarriersAreSettled, NodesBeforeEdges
<1>10. SealedAuditsHold'
  BY <1>1, <1>2 DEF SealedAuditsHold, AuditBoundary, JobsOf, Active
<1> QED
  BY <1>3, <1>4, <1>5, <1>6, <1>7, <1>9, <1>10

-----------------------------------------------------------------------------
(* Runs.                                                                    *)

\* Fencing a set of active runs off, and at most opening a new run besides.
LEMMA QuarantineFrame ==
    ASSUME StoreInv, TypeOK', OneActiveRunPerScope',
           NEW Q \in SUBSET Runs, Quarantine(Q),
           \A q \in Q : Active(q) /\ runStatus'[q] = "quarantined",
           \A q \in Runs \ Q : \/ runStatus'[q] = runStatus[q]
                               \/ runStatus[q] = Absent /\ runStatus'[q] = "open",
           UNCHANGED <<complete, audit, attempt, due, manifest, barrierVars>>
    PROVE  StoreInv'
<1> USE DEF StoreInv, barrierVars
<1>1. \A j \in Jobs : RunOf[j] \in Q =>
        /\ status[j] \notin {"blocked", "dead_letter"}
        /\ status'[j] = IF status[j] \in {Absent, "done"} THEN status[j] ELSE "blocked"
        /\ token'[j] = NoToken
  BY DEF Quarantine, Active, FailuresAreVisible, Fenced, Absent
<1>2. \A j \in Jobs : RunOf[j] \notin Q => status'[j] = status[j] /\ token'[j] = token[j]
  BY DEF Quarantine
<1>3. \A j \in Jobs : /\ (status'[j] = Absent) <=> (status[j] = Absent)
                      /\ (status'[j] = "done") <=> (status[j] = "done")
  BY <1>1, <1>2 DEF Absent
<1>4. Fenced' /\ RejectedStayBlocked'
  BY <1>1, <1>2 DEF Fenced, RejectedStayBlocked
<1>5. AttemptsCountClaims' /\ AttemptBudget'
  BY <1>1, <1>2 DEF AttemptsCountClaims, AttemptBudget, Absent
<1>6. OpenedBeforeEnqueued'
  BY StoreConstants, <1>3 DEF OpenedBeforeEnqueued, Absent
<1>7. QuarantineFences'
  BY StoreConstants, <1>1, <1>2 DEF QuarantineFences
<1>8. FailuresAreVisible'
  BY StoreConstants, <1>1, <1>2 DEF FailuresAreVisible, OpenedBeforeEnqueued, Absent
<1>9. DrainedRunsAreComplete'
  BY <1>2, <1>3 DEF DrainedRunsAreComplete, JobsOf, BarriersOf
<1>10. BarrierLedger'
  BY <1>3, LedgerFrame
<1>11. \A b \in Barriers : Awaited(b)' = Awaited(b) /\ Acknowledged(b)' = Acknowledged(b)
  BY <1>3, BarrierFrame
<1>12. DrainedBarriersAreSettled' /\ NodesBeforeEdges'
  <2>1. DrainedBarriersAreSettled'
    BY <1>11 DEF DrainedBarriersAreSettled
  <2>2. NodesBeforeEdges'
    BY StoreConstants, <1>11 DEF NodesBeforeEdges
  <2> QED
    BY <2>1, <2>2
<1>13. SealedAuditsHold'
  BY <1>3 DEF SealedAuditsHold, AuditBoundary, JobsOf, Absent
<1> QED
  BY <1>4, <1>5, <1>6, <1>7, <1>8, <1>9, <1>10, <1>12, <1>13

\* open_run fences the other active runs of the scope off.
LEMMA OpenRunPreserves ==
    ASSUME StoreInv, NEW r \in Runs, OpenRun(r)
    PROVE  StoreInv'
<1> DEFINE Q == {q \in Runs : ScopeOf[q] = ScopeOf[r] /\ Active(q)}
<1> USE DEF StoreInv
<1>1. /\ runStatus[r] = Absent /\ Quarantine(Q)
      /\ UNCHANGED <<complete, audit, attempt, due, manifest, barrierVars>>
      /\ runStatus' = [q \in Runs |-> IF q = r THEN "open"
                                      ELSE IF q \in Q THEN "quarantined"
                                      ELSE runStatus[q]]
  BY DEF OpenRun
<1>2. r \notin Q
  BY <1>1 DEF Active, Absent
<1>3. TypeOK'
  BY <1>1, StoreConstants, Zenon
     DEF TypeOK, Quarantine, RunStatus, BatchStatus, barrierVars
<1>4. OneActiveRunPerScope'
  BY <1>1 DEF OneActiveRunPerScope, Active
<1>5. /\ \A q \in Q : Active(q) /\ runStatus'[q] = "quarantined"
      /\ \A q \in Runs \ Q : \/ runStatus'[q] = runStatus[q]
                             \/ runStatus[q] = Absent /\ runStatus'[q] = "open"
  BY <1>1, <1>2
<1>6. Q \in SUBSET Runs
  OBVIOUS
<1> HIDE DEF Q, StoreInv
<1> QED
  BY <1>1, <1>3, <1>4, <1>5, <1>6, QuarantineFrame

\* quarantine_legacy_targets fences the active runs with old target keys off.
LEMMA QuarantineLegacyTargetsPreserves ==
    ASSUME StoreInv, QuarantineLegacyTargets
    PROVE  StoreInv'
<1> DEFINE Q == {q \in LegacyRuns : Active(q)}
<1> USE DEF StoreInv
<1>1. /\ Quarantine(Q)
      /\ UNCHANGED <<complete, audit, attempt, due, manifest, barrierVars>>
      /\ runStatus' = [q \in Runs |-> IF q \in Q THEN "quarantined" ELSE runStatus[q]]
  BY DEF QuarantineLegacyTargets
<1>2. TypeOK'
  BY <1>1, StoreConstants, Zenon
     DEF TypeOK, Quarantine, RunStatus, BatchStatus, barrierVars
<1>3. OneActiveRunPerScope'
  BY <1>1 DEF OneActiveRunPerScope, Active
<1>4. Q \in SUBSET Runs
  BY StoreConstants
<1>5. /\ \A q \in Q : Active(q) /\ runStatus'[q] = "quarantined"
      /\ \A q \in Runs \ Q : runStatus'[q] = runStatus[q]
  BY <1>1, <1>4
<1> HIDE DEF Q, StoreInv
<1> QED
  BY <1>1, <1>2, <1>3, <1>4, <1>5, QuarantineFrame

-----------------------------------------------------------------------------
(* The theorems.                                                            *)

\* Every operation preserves the invariant.
LEMMA NextPreserves ==
    ASSUME StoreInv, Next
    PROVE  StoreInv'
<1>1. ASSUME NEW r \in Runs, RunStep(r) PROVE StoreInv'
  BY <1>1, OpenRunPreserves, MarkerPreserves, CloseRunProductionPreserves,
     RecoverRunLeasesPreserves DEF RunStep
<1>2. ASSUME NEW j \in Jobs, BatchStep(j) PROVE StoreInv'
  BY <1>2, EnqueueBatchPreserves, EnqueueRejectedPreserves, ClockPreserves DEF BatchStep
<1>3. ASSUME NEW j \in Jobs, NEW t \in Tokens, LeaseStep(j, t) PROVE StoreInv'
  BY <1>3, ClaimJobPreserves, ClaimReconcilingJobPreserves, AckBatchPreserves,
     MarkReconcilingPreserves, ScheduleRetryPreserves,
     ScheduleReconciliationRetryPreserves, BlockBatchPreserves DEF LeaseStep
<1>4. ASSUME NEW r \in Runs, NEW t \in Tokens, ClaimBatch(r, t) \/ ClaimReconciling(r, t)
      PROVE StoreInv'
  BY <1>4, ClaimJobPreserves, ClaimReconcilingJobPreserves
     DEF ClaimBatch, ClaimReconciling, JobsOf
<1> QED
  BY <1>1, <1>2, <1>3, <1>4, BarrierStepPreserves, QuarantineLegacyTargetsPreserves,
     RecoverExpiredLeasesPreserves DEF Next

\* So does a step that touches no table.
LEMMA StutterPreserves ==
    ASSUME StoreInv, UNCHANGED storeVars
    PROVE  StoreInv'
<1>1. TypeOK' <=> TypeOK
  BY DEF storeVars, runVars, leaseVars, barrierVars, TypeOK
<1>2. Fenced' <=> Fenced
  BY DEF storeVars, runVars, leaseVars, barrierVars, Fenced
<1>3. UNCHANGED <<runVars, attempt, manifest, barrierVars>> /\ UNCHANGED status
  BY DEF storeVars, leaseVars
<1> QED
  BY <1>1, <1>2, <1>3, LeaseFrame DEF StoreInv

\* The conjunction of all safety properties is an invariant of the journal.
THEOREM StoreInvariant == Spec => []StoreInv
<1>1. Init => StoreInv
  BY InitStoreInv
<1>2. StoreInv /\ [Next]_storeVars => StoreInv'
  BY NextPreserves, StutterPreserves
<1> QED
  BY <1>1, <1>2, PTL DEF Spec

\* The tables of the journal always hold values of their column types.
THEOREM TypeCorrect == Spec => []TypeOK
<1>1. StoreInv => TypeOK
  BY DEF StoreInv
<1> QED
  BY <1>1, StoreInvariant, PTL

\* The counters ack_batch and enqueue_batch keep never drift from the batches
\* table, and a drained barrier has nothing outstanding.
THEOREM BarriersAreExact == Spec => [](BarrierLedger /\ DrainedBarriersAreSettled)
<1>1. StoreInv => BarrierLedger /\ DrainedBarriersAreSettled
  BY DEF StoreInv
<1> QED
  BY <1>1, StoreInvariant, PTL

\* No edge batch is handed out before the node batches it depends on are acknowledged.
THEOREM NodeFirst == Spec => []NodesBeforeEdges
<1>1. StoreInv => NodesBeforeEdges
  BY DEF StoreInv
<1> QED
  BY <1>1, StoreInvariant, PTL

\* A run that finalize_journal_from_env publishes has nothing left to write.
THEOREM PublicationGate == Spec => []DrainedRunsAreComplete
<1>1. StoreInv => DrainedRunsAreComplete
  BY DEF StoreInv
<1> QED
  BY <1>1, StoreInvariant, PTL

\* A blocked or dead-lettered batch shows in the status of its run.
THEOREM NoSilentFailure == Spec => []FailuresAreVisible
<1>1. StoreInv => FailuresAreVisible
  BY DEF StoreInv
<1> QED
  BY <1>1, StoreInvariant, PTL

\* One active run per scope, and nothing of a quarantined run can be claimed.
THEOREM ScopeFencing == Spec => [](OneActiveRunPerScope /\ QuarantineFences)
<1>1. StoreInv => OneActiveRunPerScope /\ QuarantineFences
  BY DEF StoreInv
<1> QED
  BY <1>1, StoreInvariant, PTL

\* No batch is executed more than max_attempts times.
THEOREM BoundedAttempts == Spec => []AttemptBudget
<1>1. StoreInv => AttemptBudget
  BY DEF StoreInv
<1> QED
  BY <1>1, StoreInvariant, PTL

\* A sealed endpoint audit stays valid until its run is quarantined.
THEOREM AuditsStayValid == Spec => []SealedAuditsHold
<1>1. StoreInv => SealedAuditsHold
  BY DEF StoreInv
<1> QED
  BY <1>1, StoreInvariant, PTL

\* No transaction of the store takes back a staged or acknowledged batch, a
\* drained barrier, a sealed audit or the end of a run.
LEMMA TransactionKeepsSettled ==
    ASSUME StoreInv, Next PROVE KeepsSettled
<1>0. TypeOK
  BY DEF StoreInv
<1> USE StoreConstants, <1>0
    DEF TypeOK, KeepsSettled, Active, Absent, runVars, leaseVars, barrierVars
<1>1. ASSUME NEW r \in Runs, OpenRun(r) PROVE KeepsSettled
  BY <1>1 DEF OpenRun, Quarantine
<1>2. CASE QuarantineLegacyTargets
  BY <1>2 DEF QuarantineLegacyTargets, Quarantine
<1>3. ASSUME NEW r \in Runs, CompleteProducers(r) PROVE KeepsSettled
  BY <1>3 DEF CompleteProducers
<1>4. ASSUME NEW r \in Runs, SealEndpointAudit(r) PROVE KeepsSettled
  BY <1>4 DEF SealEndpointAudit
<1>5. ASSUME NEW r \in Runs, CloseRunProduction(r) PROVE KeepsSettled
  BY <1>5 DEF CloseRunProduction, Refreshed
<1>6. ASSUME NEW j \in Jobs, EnqueueBatch(j) PROVE KeepsSettled
  BY <1>6 DEF EnqueueBatch, Enqueueable
<1>7. ASSUME NEW j \in Jobs, EnqueueRejected(j) PROVE KeepsSettled
  BY <1>7 DEF EnqueueRejected, Enqueueable
<1>8. ASSUME NEW b \in Barriers, OpenBarrier(b) PROVE KeepsSettled
  BY <1>8 DEF OpenBarrier
<1>9. ASSUME NEW b \in Barriers, CloseBarrier(b) PROVE KeepsSettled
  BY <1>9 DEF CloseBarrier
<1>10. ASSUME NEW j \in Jobs, LeaseExpires(j) \/ BackoffElapses(j) PROVE KeepsSettled
  BY <1>10 DEF LeaseExpires, BackoffElapses
<1>11. CASE RecoverExpiredLeases
  BY <1>11 DEF RecoverExpiredLeases, RecoveredStatus, Expired
<1>12. ASSUME NEW r \in Runs, RecoverRunLeasesAsAmbiguous(r) PROVE KeepsSettled
  BY <1>12 DEF RecoverRunLeasesAsAmbiguous
<1>13. ASSUME NEW j \in Jobs, NEW t \in Tokens, ClaimJob(j, t) PROVE KeepsSettled
  BY <1>13 DEF ClaimJob, Executable, RecoveredStatus, Expired
<1>14. ASSUME NEW j \in Jobs, NEW t \in Tokens, ClaimReconcilingJob(j, t)
       PROVE  KeepsSettled
  BY <1>14 DEF ClaimReconcilingJob, RecoveredStatus, Expired
<1>15. ASSUME NEW j \in Jobs, NEW t \in Tokens, MarkReconciling(j, t)
       PROVE  KeepsSettled
  BY <1>15 DEF MarkReconciling, OwnedLease
<1>16. ASSUME NEW j \in Jobs, NEW t \in Tokens, OwnedTransition(j, t)
       PROVE  /\ status[j] \in {"leased", "reconciling"}
              /\ runStatus[RunOf[j]] \notin {"quarantined", "drained", Absent}
  BY <1>16, OwnedBatch
<1>17. ASSUME NEW j \in Jobs, NEW t \in Tokens, AckBatch(j, t) PROVE KeepsSettled
  BY <1>16, <1>17 DEF AckBatch, Settle, Refreshed
<1>18. ASSUME NEW j \in Jobs, NEW t \in Tokens, NEW now \in BOOLEAN,
              ScheduleRetry(j, t, now)
       PROVE  KeepsSettled
  BY <1>16, <1>18 DEF ScheduleRetry, Settle
<1>19. ASSUME NEW j \in Jobs, NEW t \in Tokens, ScheduleReconciliationRetry(j, t)
       PROVE  KeepsSettled
  BY <1>16, <1>19 DEF ScheduleReconciliationRetry, Settle
<1>20. ASSUME NEW j \in Jobs, NEW t \in Tokens, BlockBatch(j, t) PROVE KeepsSettled
  BY <1>16, <1>20 DEF BlockBatch, Settle
<1> HIDE <1>0 DEF TypeOK, KeepsSettled, Active, Absent
<1> QED
  BY <1>1, <1>2, <1>3, <1>4, <1>5, <1>6, <1>7, <1>8, <1>9, <1>10, <1>11, <1>12,
     <1>13, <1>14, <1>15, <1>17, <1>18, <1>19, <1>20
     DEF Next, RunStep, BatchStep, LeaseStep, ClaimBatch, ClaimReconciling, JobsOf

\* What a transaction of the store may never do: take back anything settled.
THEOREM SettledIsFinal == Spec => NothingIsTakenBack
<1>1. StoreInv /\ [Next]_storeVars => [KeepsSettled]_storeVars
  BY TransactionKeepsSettled
<1> QED
  BY <1>1, StoreInvariant, PTL DEF Spec, NothingIsTakenBack

=============================================================================
