----------------------- MODULE NodeFirstStepProofs -------------------------
(***************************************************************************)
(* What the steps of NodeFirstSync do to the journal, its workers and the  *)
(* progress of the analyzer: the sync uses the journal only through its    *)
(* operations, a staged batch stays staged, and a step that moves no       *)
(* marker and takes the analyzer to no new batch preserves NodeFirstInv.   *)
(***************************************************************************)
EXTENDS NodeFirstSync, JournalWorkersProofs

\* The first n batches of the analyzer are in the journal.
Staged(n) == \A i \in 1 .. n : status[Order[i]] # Absent

\* What the analyzer has passed is staged, and the marker stands for all of it.
StagedSoFar ==
    /\ stage = "barriers" => next = 1
    /\ stage = "enqueue" => Staged(next - 1)
    /\ stage \in {"close", "write"} => next <= Len(Order) /\ Staged(next)
    /\ complete[Run] => Staged(Len(Order))

NodeFirstInv ==
    /\ StoreInv /\ WorkerInv
    /\ StagedSoFar /\ SealMeansStaged /\ PublishedIsWhole

-----------------------------------------------------------------------------
(* What a step of the sync does to the journal and to the workers.          *)

\* An operation of the producers' side of the store, or none.
Production ==
    \/ \E r \in Runs : \/ OpenRun(r) \/ CompleteProducers(r)
                       \/ SealEndpointAudit(r) \/ CloseRunProduction(r)
    \/ \E j \in Jobs : EnqueueBatch(j) \/ EnqueueRejected(j)
    \/ \E b \in Barriers : OpenBarrier(b) \/ CloseBarrier(b)
    \/ UNCHANGED storeVars

\* No marker of the run is set.
Unmarking == UNCHANGED <<complete, audit>>

\* The batches are batches of the run, and the two processes are workers.
LEMMA SnapshotTypes ==
    /\ Run \in Runs /\ Len(Order) \in Nat
    /\ \A i \in 1 .. Len(Order) : Order[i] \in Jobs /\ Order[i] \in JobsOf(Run)
    /\ NodePhase \in Barriers /\ EndpointAudit \in Barriers
    /\ Analyzer \in Workers /\ Consumer \in Workers
BY SyncConstants, WorkerConstants DEF JobsOf, BarriersOf

\* The batch in hand is a batch.
LEMMA CurrentIsJob ==
    ASSUME NodeFirstTypeOK, next <= Len(Order)
    PROVE  Current \in Jobs
BY SnapshotTypes DEF NodeFirstTypeOK, Current

\* A production operation is a transaction of the store that acknowledges
\* nothing.
LEMMA ProductionIsTransaction ==
    ASSUME TypeOK, Production
    PROVE  [Next]_storeVars /\ Unacknowledging
<1>1. [Next]_storeVars
  BY DEF Production, Next, RunStep, BatchStep
<1>2. CASE UNCHANGED storeVars
  BY <1>2 DEF Unacknowledging, storeVars, leaseVars
<1>3. Unacknowledging
  BY <1>2, ProducersDoNotAcknowledge DEF Production
<1> QED
  BY <1>1, <1>3

\* Only complete_producers and seal_endpoint_audit set a marker.
LEMMA MarkersFrame ==
    /\ \A r \in Runs : OpenRun(r) \/ CloseRunProduction(r) => Unmarking
    /\ \A j \in Jobs : EnqueueBatch(j) \/ EnqueueRejected(j) => Unmarking
    /\ \A b \in Barriers : OpenBarrier(b) \/ CloseBarrier(b) => Unmarking
    /\ UNCHANGED storeVars => Unmarking
BY DEF Unmarking, OpenRun, CloseRunProduction, EnqueueBatch, EnqueueRejected, OpenBarrier,
       CloseBarrier, storeVars, runVars

\* A worker sets none.
LEMMA WorkersSetNoMarker ==
    /\ \A w \in Workers : Work(w) => Unmarking
    /\ Clock \/ Graph => Unmarking
<1> USE DEF Unmarking, storeVars, runVars
<1>1. ASSUME NEW w \in Workers, Report(w) PROVE Unmarking
  BY <1>1 DEF Report, ReadbackFails, AckFound, RetryMissing, BlockUnreadable, AckExecuted,
     BlockShort, MarkAmbiguous, LoseLease, ScheduleReconciliationRetry, AckBatch,
     ScheduleRetry, BlockBatch, MarkReconciling
<1>2. ASSUME NEW w \in Workers, Claim(w) PROVE Unmarking
  BY <1>2 DEF Claim, ClaimForReadback, ClaimForExecution, ClaimReconcilingJob, ClaimJob,
     NothingAmbiguous, Finish, EmptyClaim, RecoverExpiredLeases
<1>3. ASSUME NEW w \in Workers, NEW r \in Runs, Start(w, r) PROVE Unmarking
  BY <1>3 DEF Start, RecoverRunLeasesAsAmbiguous
<1>4. ASSUME NEW w \in Workers, Readback(w) \/ Submit(w) PROVE Unmarking
  BY <1>4 DEF Readback, Submit
<1>5. Clock \/ Graph => Unmarking
  BY Zenon DEF Clock, LeaseRunsOut, LeaseExpires, RetryFallsDue, BackoffElapses, Graph, Land, Lose
<1> HIDE DEF Unmarking, storeVars, runVars
<1> QED
  BY <1>1, <1>2, <1>3, <1>4, <1>5 DEF Work

\* A process that stops or raises lets go of its ticket, whatever production
\* operation it did; a production operation alone leaves the workers alone.
Stops(w) == Production /\ Exit(w) /\ UNCHANGED <<graphVars, faults>>

\* Every step of the sync is one of these: production, a stop, a step of the
\* workers' own specification, or the death of the whole sync.
LEMMA StepKinds ==
    ASSUME NodeFirstInv, NodeFirstNext
    PROVE  \/ Production /\ Quiet
           \/ \E w \in Workers : Stops(w)
           \/ SysNext
           \/ Die
<1>1. NodeFirstTypeOK
  BY DEF NodeFirstInv, SealMeansStaged
<1>2. UNCHANGED vars => Production /\ Quiet
  BY DEF vars, Production, Quiet
<1>3. CASE BeginSync \/ StartAnalyzer \/ ReleaseEdges
  BY <1>2, <1>3, SnapshotTypes
     DEF BeginSync, StartAnalyzer, ReleaseEdges, Idle, SysNext, Work
<1>4. CASE Judge \/ FinalizeRaises \/ Advance \/ AuditNotReady
  BY <1>2, <1>4 DEF Judge, FinalizeRaises, Advance, AuditNotReady, Idle
<1>5. CASE Finalize \/ OpenTheRun \/ CompleteNodes \/ SealAudit \/ Supersede
  BY <1>5, SnapshotTypes
     DEF Finalize, OpenTheRun, CompleteNodes, SealAudit, Supersede, Production
<1>6. CASE OpenBarriers
  BY <1>2, <1>6, SnapshotTypes DEF OpenBarriers, Idle, Production
<1>7. CASE Enqueue
  BY <1>1, <1>7, CurrentIsJob DEF Enqueue, Production
<1>8. CASE CloseOwnBarriers
  <2>1. Own(Current) \subseteq Barriers
    <3>1. next <= Len(Order)
      BY <1>8 DEF CloseOwnBarriers, NodeFirstInv, StagedSoFar
    <3> QED
      BY <1>1, <3>1, CurrentIsJob, StoreConstants DEF Own
  <2> QED
    BY <1>8, <2>1 DEF CloseOwnBarriers, Production
<1>9. CASE CloseAudit
  BY <1>9, SnapshotTypes DEF CloseAudit, Production
<1>10. CASE EnqueueConflict
  <2>1. EnqueueRejected(Current) /\ Current \in Jobs /\ Exit(Analyzer)
        /\ UNCHANGED <<graphVars, faults>>
    BY <1>1, <1>10, CurrentIsJob DEF EnqueueConflict
  <2> QED
    BY <2>1, SnapshotTypes DEF Stops, Production
<1>11. CASE CloseNodes
  <2>1. Production /\ Exit(Analyzer) /\ UNCHANGED <<graphVars, faults>>
    BY <1>11, SnapshotTypes DEF CloseNodes, Production
  <2> QED
    BY <2>1, SnapshotTypes DEF Stops
<1>12. CASE AnalyzerRaises \/ AuditRaises
  BY <1>12, SnapshotTypes DEF AnalyzerRaises, AuditRaises, Raise, Stops, Production
<1>13. CASE WriteCurrent
  <2>1. Current \in Jobs
    BY <1>1, <1>13, CurrentIsJob DEF WriteCurrent, NodeFirstInv, StagedSoFar
  <2> QED
    BY <1>13, <2>1, SnapshotTypes DEF WriteCurrent, SysNext, Work, Claim
<1>14. CASE Drain \/ DrainReturns
  BY <1>14, SnapshotTypes DEF Drain, DrainReturns, SysNext, Work, Claim
<1>15. CASE \E w \in Workers : HandleTicket(w)
  BY <1>15 DEF HandleTicket, SysNext, Work
<1>16. CASE (Clock \/ Graph) /\ UNCHANGED syncVars
  BY <1>16 DEF SysNext
<1> QED
  BY <1>3, <1>4, <1>5, <1>6, <1>7, <1>8, <1>9, <1>10, <1>11, <1>12, <1>13, <1>14, <1>15,
     <1>16, Zenon DEF NodeFirstNext, SyncStep

\* No step loses a receipt.
LEMMA ReceiptsStay ==
    ASSUME NodeFirstInv, NodeFirstNext
    PROVE  receipts \subseteq receipts'
<1>1. CASE Production /\ Quiet
  BY <1>1 DEF Quiet, graphVars
<1>2. CASE \E w \in Workers : Stops(w)
  BY <1>2 DEF Stops, graphVars
<1>3. CASE Die
  BY <1>3 DEF Die, graphVars
<1>4. CASE Graph
  BY <1>4 DEF Graph, Land, Lose
<1>5. CASE SysNext /\ ~Graph
  BY <1>5, Zenon DEF SysNext, Produce, Clock, LeaseRunsOut, RetryFallsDue, Work, Claim, Report,
     Start, Crash, ClaimForReadback, ClaimForExecution, NothingAmbiguous, Finish, Readback,
     Submit, ReadbackFails, AckFound, RetryMissing, BlockUnreadable, AckExecuted,
     BlockShort, MarkAmbiguous, LoseLease, graphVars
<1> QED
  BY <1>1, <1>2, <1>3, <1>4, <1>5, StepKinds

\* Every step of the sync is a transaction of the store or none, and keeps the
\* invariants of the store and of the workers.
LEMMA StepKeepsJournal ==
    ASSUME NodeFirstInv, NodeFirstNext
    PROVE  [Next]_storeVars /\ StoreInv' /\ WorkerInv'
<1>1. TypeOK /\ HoldsTicket /\ SysTypeOK
  BY DEF NodeFirstInv, StoreInv, WorkerInv
<1>2. ASSUME [Next]_storeVars PROVE StoreInv'
  BY <1>2, NextPreserves, StutterPreserves DEF NodeFirstInv
<1>3. CASE SysNext
  BY <1>1, <1>3, StepIsTransaction, SystemInduction DEF NodeFirstInv
<1>4. CASE Production /\ Quiet
  <2>1. [Next]_storeVars /\ Unacknowledging
    BY <1>1, <1>4, ProductionIsTransaction
  <2>2. SysTypeOK'
    BY <1>1, <1>4 DEF Quiet, SysTypeOK, workerVars, graphVars
  <2>3. WorkerInv'
    BY <1>4, <2>1, <2>2, WorkerFrame
       DEF NodeFirstInv, Unacknowledging, Quiet, workerVars
  <2> QED
    BY <1>2, <2>1, <2>3
<1>5. ASSUME NEW w \in Workers, Stops(w)
      PROVE  [Next]_storeVars /\ StoreInv' /\ WorkerInv'
  <2>1. [Next]_storeVars /\ Unacknowledging
    BY <1>1, <1>5, ProductionIsTransaction DEF Stops
  <2>2. Exit(w) /\ UNCHANGED <<graphVars, faults>>
    BY <1>5 DEF Stops
  <2>3. SysTypeOK'
    BY <1>1, <2>2, DropsTicket DEF SysTypeOK, graphVars
  <2>4. WorkerInv'
    BY <1>1, <2>1, <2>2, <2>3, DropsTicket, WorkerFrame DEF NodeFirstInv, Unacknowledging
  <2> QED
    BY <1>2, <2>1, <2>4
<1>6. CASE Die
  <2>1. UNCHANGED storeVars /\ UNCHANGED graphVars /\ UNCHANGED nth
    BY <1>6 DEF Die
  <2>2. /\ pc' = [w \in Workers |-> "down"] /\ ticket' = [w \in Workers |-> NoJob]
        /\ serves' = [w \in Workers |-> NoRun] /\ faults' = faults + 1
    BY <1>6 DEF Die
  <2>3. SysTypeOK'
    BY <1>1, <2>1, <2>2 DEF SysTypeOK, Places, graphVars
  <2>4. status' = status /\ attempt' = attempt
    BY <2>1 DEF storeVars, leaseVars
  <2>5. \A v \in Workers : pc'[v] \notin Busy
    BY <2>2 DEF Busy
  <2>6. WorkerInv'
    BY <2>1, <2>3, <2>4, <2>5, WorkerFrame DEF NodeFirstInv
  <2> QED
    BY <1>2, <2>1, <2>6
<1> QED
  BY <1>3, <1>4, <1>5, <1>6, StepKinds

-----------------------------------------------------------------------------
(* The progress of the sync.                                                *)

\* What is staged, acknowledged or landed stays so.
LEMMA ProgressStays ==
    ASSUME NodeFirstInv, NodeFirstNext
    PROVE  \A i \in 1 .. Len(Order) :
              /\ status[Order[i]] # Absent => status'[Order[i]] # Absent
              /\ status[Order[i]] = "done" => status'[Order[i]] = "done"
              /\ Order[i] \in receipts => Order[i] \in receipts'
<1>1. CASE UNCHANGED storeVars
  BY <1>1, ReceiptsStay DEF storeVars
<1>2. CASE Next
  <2>1. KeepsSettled
    BY <1>2, TransactionKeepsSettled DEF NodeFirstInv
  <2> QED
    BY <2>1, ReceiptsStay, SnapshotTypes DEF KeepsSettled
<1> QED
  BY <1>1, <1>2, StepKeepsJournal

\* So the batches the analyzer has passed stay staged.
LEMMA StagedStays ==
    ASSUME NodeFirstInv, NodeFirstNext, NEW n \in Int, n <= Len(Order), Staged(n)
    PROVE  Staged(n)'
BY ProgressStays, SnapshotTypes DEF Staged

\* The stages in which the sync has no batch in hand.
Resting == Stages \ {"barriers", "enqueue", "close", "write", "published"}

\* Steps that set no marker, and leave the analyzer where it is or end its part.
LEMMA SyncFrame ==
    ASSUME NodeFirstInv, NodeFirstNext, Unmarking, NodeFirstTypeOK',
           stage' \in Resting \/ (stage' = stage /\ next' = next)
    PROVE  NodeFirstInv'
<1>1. StoreInv' /\ WorkerInv'
  BY StepKeepsJournal
<1>2. NodeFirstTypeOK
  BY DEF NodeFirstInv, SealMeansStaged
<1>3. StagedSoFar'
  <2>1. next \in Nat /\ next - 1 <= Len(Order)
    BY <1>2, SnapshotTypes DEF NodeFirstTypeOK
  <2>2. CASE stage' \in Resting
    BY <2>2, StagedStays, SnapshotTypes DEF NodeFirstInv, StagedSoFar, Unmarking, Resting
  <2>3. CASE stage' = stage /\ next' = next
    <3>1. Staged(next - 1) => Staged(next - 1)'
      BY <2>1, <2>3, StagedStays DEF Staged
    <3>2. next <= Len(Order) /\ Staged(next) => Staged(next)'
      BY <2>1, <2>3, StagedStays DEF Staged
    <3>3. Staged(Len(Order)) => Staged(Len(Order))'
      BY SnapshotTypes, StagedStays
    <3> QED
      BY <2>3, <3>1, <3>2, <3>3 DEF NodeFirstInv, StagedSoFar, Unmarking
  <2> QED
    BY <2>2, <2>3
<1>4. SealMeansStaged'
  BY ProgressStays DEF NodeFirstInv, SealMeansStaged, Unmarking, IsNode
<1>5. PublishedIsWhole'
  BY ProgressStays DEF NodeFirstInv, PublishedIsWhole, Resting
<1> QED
  BY <1>1, <1>3, <1>4, <1>5 DEF NodeFirstInv

\* Most steps are of that kind.
LEMMA RestPreserves ==
    ASSUME NodeFirstInv, NodeFirstNext,
           \/ BeginSync \/ Judge \/ FinalizeRaises \/ OpenTheRun \/ EnqueueConflict
           \/ WriteCurrent \/ CloseNodes \/ ReleaseEdges \/ AnalyzerRaises
           \/ AuditNotReady \/ CloseAudit \/ AuditRaises \/ Drain \/ DrainReturns
           \/ \E w \in Workers : HandleTicket(w)
           \/ Die \/ Supersede
           \/ (Clock \/ Graph) /\ UNCHANGED syncVars
    PROVE  NodeFirstInv'
<1>1. NodeFirstTypeOK
  BY DEF NodeFirstInv, SealMeansStaged
<1>2. UNCHANGED vars => Unmarking
  BY MarkersFrame DEF vars
<1>3. CASE BeginSync
  <2>1. Unmarking
    BY <1>2, <1>3, SnapshotTypes, WorkersSetNoMarker DEF BeginSync, Idle, Work
  <2> QED
    BY <1>1, <1>3, <2>1, SyncFrame DEF BeginSync, To, NodeFirstTypeOK, Stages, Resting
<1>4. CASE Judge \/ FinalizeRaises
  <2>1. Unmarking
    BY <1>2, <1>4 DEF Judge, FinalizeRaises, Idle
  <2> QED
    BY <1>1, <1>4, <2>1, SyncFrame
       DEF Judge, FinalizeRaises, To, NodeFirstTypeOK, Stages, Resting
<1>5. CASE OpenTheRun
  <2>1. Unmarking
    BY <1>5, SnapshotTypes, MarkersFrame DEF OpenTheRun
  <2> QED
    BY <1>1, <1>5, <2>1, SyncFrame DEF OpenTheRun, To, NodeFirstTypeOK, Stages, Resting
<1>6. CASE EnqueueConflict
  <2>1. Unmarking
    BY <1>1, <1>6, CurrentIsJob, MarkersFrame DEF EnqueueConflict
  <2> QED
    BY <1>1, <1>6, <2>1, SyncFrame DEF EnqueueConflict, To, NodeFirstTypeOK, Stages, Resting
<1>7. CASE WriteCurrent
  <2>1. Unmarking
    <3>1. Current \in Jobs
      BY <1>1, <1>7, CurrentIsJob DEF WriteCurrent, NodeFirstInv, StagedSoFar
    <3> QED
      BY <1>7, <3>1, SnapshotTypes, WorkersSetNoMarker DEF WriteCurrent, Work, Claim
  <2> QED
    BY <1>1, <1>7, <2>1, SyncFrame DEF WriteCurrent, To, NodeFirstTypeOK
<1>8. CASE CloseNodes
  <2>1. Unmarking
    BY <1>8, SnapshotTypes, MarkersFrame DEF CloseNodes
  <2> QED
    BY <1>1, <1>8, <2>1, SyncFrame DEF CloseNodes, To, NodeFirstTypeOK, Stages, Resting
<1>9. CASE ReleaseEdges
  <2>1. Unmarking
    BY <1>9, SnapshotTypes, WorkersSetNoMarker DEF ReleaseEdges, Work
  <2> QED
    BY <1>1, <1>9, <2>1, SyncFrame DEF ReleaseEdges, NodeFirstTypeOK, Stages, Resting
<1>10. CASE AnalyzerRaises \/ AuditRaises
  <2>1. Unmarking
    BY <1>10, MarkersFrame, Zenon DEF AnalyzerRaises, AuditRaises, Raise
  <2> QED
    BY <1>1, <1>10, <2>1, SyncFrame
       DEF AnalyzerRaises, AuditRaises, Raise, To, NodeFirstTypeOK, Stages, Resting
<1>11. CASE AuditNotReady \/ CloseAudit
  <2>1. Unmarking
    BY <1>2, <1>11, SnapshotTypes, MarkersFrame DEF AuditNotReady, CloseAudit, Idle
  <2> QED
    BY <1>1, <1>11, <2>1, SyncFrame DEF AuditNotReady, CloseAudit, AuditReturns, NodeFirstTypeOK
<1>12. CASE Drain
  <2>1. Unmarking
    BY <1>12, SnapshotTypes, WorkersSetNoMarker DEF Drain, Work, Claim
  <2> QED
    BY <1>1, <1>12, <2>1, SyncFrame DEF Drain, syncVars, NodeFirstTypeOK
<1>13. CASE DrainReturns
  <2>1. Unmarking
    BY <1>13, SnapshotTypes, WorkersSetNoMarker DEF DrainReturns, Work, Claim
  <2> QED
    BY <1>1, <1>13, <2>1, SyncFrame DEF DrainReturns, To, NodeFirstTypeOK, Stages, Resting
<1>14. CASE \E w \in Workers : HandleTicket(w)
  <2>1. Unmarking
    BY <1>14, WorkersSetNoMarker DEF HandleTicket, Work
  <2> QED
    BY <1>1, <1>14, <2>1, SyncFrame DEF HandleTicket, To, NodeFirstTypeOK, Stages, Resting
<1>15. CASE Die
  <2>1. Unmarking
    BY <1>15, MarkersFrame DEF Die
  <2> QED
    BY <1>1, <1>15, <2>1, SyncFrame DEF Die, To, NodeFirstTypeOK, Stages, Resting
<1>16. CASE Supersede
  <2>1. Unmarking
    BY <1>16, MarkersFrame DEF Supersede
  <2> QED
    BY <1>1, <1>16, <2>1, SyncFrame DEF Supersede, syncVars, NodeFirstTypeOK
<1>17. CASE (Clock \/ Graph) /\ UNCHANGED syncVars
  <2>1. Unmarking
    BY <1>17, WorkersSetNoMarker
  <2> QED
    BY <1>1, <1>17, <2>1, SyncFrame DEF syncVars, NodeFirstTypeOK
<1> QED
  BY <1>3, <1>4, <1>5, <1>6, <1>7, <1>8, <1>9, <1>10, <1>11, <1>12, <1>13, <1>14, <1>15,
     <1>16, <1>17
=============================================================================
