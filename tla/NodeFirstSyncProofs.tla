------------------------ MODULE NodeFirstSyncProofs ------------------------
(***************************************************************************)
(* Proofs about NodeFirstSync for any snapshot, any order of its batches,  *)
(* any number of attempts, deaths and runs that supersede it: the sync     *)
(* uses the journal only through its operations, seals the endpoint audit  *)
(* only over a whole snapshot, and publishes nothing less.                 *)
(*                                                                         *)
(* The argument follows the analyzer through its batches: what it has      *)
(* passed is staged, a staged batch stays staged, and so the               *)
(* producers-complete marker stands for all of them, in whichever attempt  *)
(* it was set.                                                             *)
(***************************************************************************)
EXTENDS NodeFirstStepProofs

-----------------------------------------------------------------------------
(* The analyzer and the seal of the endpoint audit.                         *)

\* The analyzer takes its batches in hand one after the other, each of them
\* staged before it is left.
LEMMA AnalyzerPreserves ==
    ASSUME NodeFirstInv, NodeFirstNext,
           StartAnalyzer \/ OpenBarriers \/ Enqueue \/ CloseOwnBarriers \/ Advance
    PROVE  NodeFirstInv'
<1>1. StoreInv' /\ WorkerInv'
  BY StepKeepsJournal
<1>2. NodeFirstTypeOK /\ next \in Nat /\ next - 1 <= Len(Order)
  BY SnapshotTypes DEF NodeFirstInv, SealMeansStaged, NodeFirstTypeOK
<1>3. Unmarking
  <2>1. UNCHANGED vars => Unmarking
    BY MarkersFrame DEF vars
  <2>2. CASE StartAnalyzer
    BY <2>2, SnapshotTypes, WorkersSetNoMarker DEF StartAnalyzer, Work
  <2>3. CASE OpenBarriers
    BY <2>1, <2>3, SnapshotTypes, MarkersFrame DEF OpenBarriers, Idle
  <2>4. CASE Enqueue
    BY <1>2, <2>4, CurrentIsJob, MarkersFrame DEF Enqueue
  <2>5. CASE CloseOwnBarriers
    <3>1. Own(Current) \subseteq Barriers
      BY <1>2, <2>5, CurrentIsJob, StoreConstants
         DEF CloseOwnBarriers, NodeFirstInv, StagedSoFar, Own
    <3> QED
      BY <2>5, <3>1, MarkersFrame DEF CloseOwnBarriers
  <2>6. CASE Advance
    BY <2>1, <2>6 DEF Advance, Idle
  <2> QED
    BY <2>2, <2>3, <2>4, <2>5, <2>6
<1>4. SealMeansStaged' /\ PublishedIsWhole'
  <2>1. NodeFirstTypeOK' /\ stage' # "published"
    <3>1. CASE Advance
      BY <1>2, <3>1, SnapshotTypes
         DEF Advance, NodeFirstTypeOK, Stages, NodeFirstInv, StagedSoFar
    <3>2. CASE ~Advance
      BY <1>2, <3>2, SnapshotTypes DEF StartAnalyzer, OpenBarriers, Enqueue, CloseOwnBarriers,
         To, NodeFirstTypeOK, Stages
    <3> QED
      BY <3>1, <3>2
  <2> QED
    BY <1>3, <2>1, ProgressStays
       DEF NodeFirstInv, SealMeansStaged, PublishedIsWhole, Unmarking, IsNode
<1>5. complete'[Run] => Staged(Len(Order))'
  BY <1>3, StagedStays, SnapshotTypes DEF NodeFirstInv, StagedSoFar, Unmarking
<1>6. CASE StartAnalyzer
  BY <1>1, <1>4, <1>5, <1>6 DEF NodeFirstInv, StagedSoFar, StartAnalyzer
<1>7. CASE OpenBarriers
  <2>1. next = 1 /\ next' = 1 /\ stage' \in {"barriers", "enqueue"}
    BY <1>7 DEF OpenBarriers, To, NodeFirstInv, StagedSoFar
  <2>2. Staged(next - 1)'
    BY <2>1 DEF Staged
  <2> QED
    BY <1>1, <1>4, <1>5, <2>1, <2>2 DEF NodeFirstInv, StagedSoFar
<1>8. CASE Enqueue
  <2>1. stage = "enqueue" /\ next <= Len(Order) /\ stage' = "close" /\ next' = next
    BY <1>8 DEF Enqueue, To
  <2>2. Current \in Jobs /\ status'[Current] # Absent
    <3>1. Current \in Jobs
      BY <1>2, <2>1, CurrentIsJob
    <3>2. CASE EnqueueBatch(Current)
      BY <3>1, <3>2 DEF EnqueueBatch, NodeFirstInv, StoreInv, TypeOK, Absent
    <3>3. CASE status[Current] # Absent /\ UNCHANGED storeVars
      BY <3>1, <3>3 DEF storeVars
    <3> QED
      BY <1>8, <3>1, <3>2, <3>3 DEF Enqueue
  <2>3. \A i \in 1 .. next - 1 : status'[Order[i]] # Absent
    BY <1>2, <2>1, StagedStays DEF NodeFirstInv, StagedSoFar, Staged
  <2>4. Staged(next)'
    BY <1>2, <2>1, <2>2, <2>3 DEF Staged, Current
  <2> QED
    BY <1>1, <1>4, <1>5, <2>1, <2>4 DEF NodeFirstInv, StagedSoFar
<1>9. CASE CloseOwnBarriers
  <2>1. stage = "close" /\ stage' = "write" /\ next' = next
    BY <1>9 DEF CloseOwnBarriers, To
  <2>2. next <= Len(Order) /\ Staged(next)'
    BY <1>2, <2>1, StagedStays DEF NodeFirstInv, StagedSoFar, Staged
  <2> QED
    BY <1>1, <1>4, <1>5, <2>1, <2>2 DEF NodeFirstInv, StagedSoFar
<1>10. CASE Advance
  <2>1. stage = "write" /\ stage' = "enqueue" /\ next' = next + 1
    BY <1>10 DEF Advance
  <2>2. \A i \in 1 .. next : status'[Order[i]] # Absent
    BY <1>2, <2>1, StagedStays DEF NodeFirstInv, StagedSoFar, Staged
  <2>3. Staged(next - 1)'
    BY <1>2, <2>1, <2>2 DEF Staged
  <2> QED
    BY <1>1, <1>4, <1>5, <2>1, <2>3 DEF NodeFirstInv, StagedSoFar
<1> QED
  BY <1>6, <1>7, <1>8, <1>9, <1>10

\* The marker is set behind the last batch.
LEMMA CompleteNodesPreserves ==
    ASSUME NodeFirstInv, NodeFirstNext, CompleteNodes
    PROVE  NodeFirstInv'
<1>1. StoreInv' /\ WorkerInv'
  BY StepKeepsJournal
<1>2. NodeFirstTypeOK /\ next = Len(Order) + 1 /\ stage = "enqueue"
  BY SnapshotTypes DEF NodeFirstInv, SealMeansStaged, NodeFirstTypeOK, CompleteNodes
<1>3. audit' = audit /\ stage' = "closeNodes" /\ UNCHANGED <<next, audits>>
  BY DEF CompleteNodes, CompleteProducers, To, storeVars, runVars
<1>4. StagedSoFar'
  <2>1. Staged(Len(Order))'
    BY <1>2, StagedStays, SnapshotTypes DEF NodeFirstInv, StagedSoFar
  <2> QED
    BY <1>3, <2>1 DEF StagedSoFar
<1>5. SealMeansStaged' /\ PublishedIsWhole'
  BY <1>2, <1>3, ProgressStays
     DEF NodeFirstInv, SealMeansStaged, PublishedIsWhole, IsNode, NodeFirstTypeOK, Stages
<1> QED
  BY <1>1, <1>4, <1>5 DEF NodeFirstInv

\* The audit is sealed over a complete snapshot whose node barrier is drained.
LEMMA SealAuditPreserves ==
    ASSUME NodeFirstInv, NodeFirstNext, SealAudit
    PROVE  NodeFirstInv'
<1>1. StoreInv' /\ WorkerInv'
  BY StepKeepsJournal
<1>2. /\ barrier[NodePhase] = "drained" /\ AuditBoundary(Run)
      /\ UNCHANGED <<stage, next, audits, complete>>
  BY DEF SealAudit, SealEndpointAudit, syncVars
<1>3. NodeFirstTypeOK'
  BY <1>2 DEF NodeFirstInv, SealMeansStaged, NodeFirstTypeOK
<1>4. ASSUME NEW i \in 1 .. Len(Order)
      PROVE  /\ status[Order[i]] # Absent
             /\ IsNode(Order[i]) => Order[i] \in receipts
  <2>1. Order[i] \in Jobs /\ Order[i] \in JobsOf(Run)
    BY SnapshotTypes
  <2>2. status[Order[i]] # Absent /\ manifest[Order[i]] # "rejected"
    BY <1>2, <2>1 DEF AuditBoundary, NodeFirstInv, StagedSoFar, Staged
  <2>3. Awaited(NodePhase) = Acknowledged(NodePhase)
    BY <1>2, SnapshotTypes DEF NodeFirstInv, StoreInv, DrainedBarriersAreSettled
  <2>4. IsNode(Order[i]) => status[Order[i]] = "done"
    BY <2>1, <2>2, <2>3 DEF IsNode, Awaited, Acknowledged
  <2> QED
    BY <2>1, <2>2, <2>4 DEF NodeFirstInv, WorkerInv, AcknowledgedIsApplied
<1>5. SealMeansStaged'
  BY <1>3, <1>4, ProgressStays DEF SealMeansStaged, IsNode
<1>6. StagedSoFar'
  <2>1. next \in Nat /\ next - 1 <= Len(Order)
    BY SnapshotTypes DEF NodeFirstInv, SealMeansStaged, NodeFirstTypeOK
  <2>2. stage \in {"recover", "edges"}
    BY DEF SealAudit, Draining
  <2> QED
    BY <1>2, <2>2, StagedStays, SnapshotTypes DEF NodeFirstInv, StagedSoFar
<1>7. PublishedIsWhole'
  BY <1>2, ProgressStays DEF NodeFirstInv, PublishedIsWhole
<1> QED
  BY <1>1, <1>5, <1>6, <1>7 DEF NodeFirstInv

\* A drained run whose producers are complete is the whole snapshot.
LEMMA FinalizePreserves ==
    ASSUME NodeFirstInv, NodeFirstNext, Finalize
    PROVE  NodeFirstInv'
<1>1. StoreInv' /\ WorkerInv'
  BY StepKeepsJournal
<1>2. /\ complete[Run] /\ UNCHANGED <<next, audits>>
      /\ stage' = IF runStatus'[Run] = "drained" THEN "published"
                  ELSE IF stage = "refinalize" THEN "open" ELSE "idle"
  BY DEF Finalize, To
<1>3. Unmarking
  BY SnapshotTypes, MarkersFrame DEF Finalize
<1>4. NodeFirstTypeOK'
  BY <1>2 DEF NodeFirstInv, SealMeansStaged, NodeFirstTypeOK, Stages
<1>5. Staged(Len(Order))'
  BY <1>2, StagedStays, SnapshotTypes DEF NodeFirstInv, StagedSoFar
<1>6. StagedSoFar'
  BY <1>2, <1>5 DEF StagedSoFar
<1>7. SealMeansStaged'
  BY <1>3, <1>4, ProgressStays DEF NodeFirstInv, SealMeansStaged, IsNode, Unmarking
<1>8. PublishedIsWhole'
  <2> SUFFICES ASSUME runStatus'[Run] = "drained", NEW i \in 1 .. Len(Order)
               PROVE  status'[Order[i]] = "done" /\ Order[i] \in receipts'
    BY <1>2 DEF PublishedIsWhole
  <2>1. Order[i] \in Jobs /\ Order[i] \in JobsOf(Run)
    BY SnapshotTypes
  <2>2. status'[Order[i]] \in {Absent, "done"}
    BY <1>1, <2>1, SnapshotTypes DEF StoreInv, DrainedRunsAreComplete, JobsOf
  <2>3. status'[Order[i]] = "done"
    BY <1>5, <2>2 DEF Staged
  <2> QED
    BY <1>1, <2>1, <2>3 DEF WorkerInv, AcknowledgedIsApplied
<1> QED
  BY <1>1, <1>6, <1>7, <1>8 DEF NodeFirstInv

\* The invariant holds of a sync that has not begun, and every step keeps it.
LEMMA SyncInduction ==
    /\ NodeFirstInit => NodeFirstInv
    /\ NodeFirstInv /\ [NodeFirstNext]_allVars => NodeFirstInv'
<1>1. NodeFirstInit => NodeFirstInv
  <2> SUFFICES ASSUME NodeFirstInit PROVE NodeFirstInv
    OBVIOUS
  <2>1. StoreInv /\ WorkerInv
    BY SystemInduction DEF NodeFirstInit
  <2>2. stage = "idle" /\ next = 1 /\ audits = "due" /\ ~complete[Run] /\ ~audit[Run]
    BY SnapshotTypes DEF NodeFirstInit, SysInit, Init
  <2> QED
    BY <2>1, <2>2, SnapshotTypes
       DEF NodeFirstInv, StagedSoFar, SealMeansStaged, NodeFirstTypeOK, Stages, PublishedIsWhole
<1>2. ASSUME NodeFirstInv, NodeFirstNext PROVE NodeFirstInv'
  BY <1>2, RestPreserves, AnalyzerPreserves, CompleteNodesPreserves, SealAuditPreserves,
     FinalizePreserves, Zenon DEF NodeFirstNext, SyncStep
<1>3. ASSUME NodeFirstInv, UNCHANGED allVars PROVE NodeFirstInv'
  <2>1. UNCHANGED vars /\ UNCHANGED syncVars
    BY <1>3 DEF allVars
  <2>2. StoreInv' /\ WorkerInv'
    BY <1>3, <2>1, SystemInduction DEF NodeFirstInv
  <2>3. UNCHANGED <<status, complete, audit, receipts, stage, next, audits>>
    BY <2>1 DEF vars, storeVars, runVars, graphVars, syncVars
  <2>4. StagedSoFar'
    BY <1>3, <2>3 DEF NodeFirstInv, StagedSoFar, Staged
  <2>5. SealMeansStaged' /\ PublishedIsWhole'
    BY <1>3, <2>3 DEF NodeFirstInv, SealMeansStaged, NodeFirstTypeOK, PublishedIsWhole, IsNode
  <2> QED
    BY <2>2, <2>4, <2>5 DEF NodeFirstInv
<1> QED
  BY <1>1, <1>2, <1>3

-----------------------------------------------------------------------------
(* Theorems.                                                                *)

\* Whatever attempts, deaths and superseding runs come, what the analyzer has
\* passed is staged and the markers of the run stand for the whole snapshot.
THEOREM SyncInvariant == NodeFirstSpec => []NodeFirstInv
BY SyncInduction, PTL DEF NodeFirstSpec

\* A sync publishes only a whole snapshot: every batch its analyzer emits is
\* acknowledged and in the graph.
THEOREM OnlyWholeIsPublished == NodeFirstSpec => []PublishedIsWhole
<1>1. NodeFirstInv => PublishedIsWhole
  BY DEF NodeFirstInv
<1> QED
  BY <1>1, SyncInvariant, PTL

\* A sealed endpoint audit is evidence about the whole snapshot: every batch is
\* staged and every node batch has landed.
THEOREM SealedMeansStaged == NodeFirstSpec => []SealMeansStaged
<1>1. NodeFirstInv => SealMeansStaged
  BY DEF NodeFirstInv
<1> QED
  BY <1>1, SyncInvariant, PTL

\* With the analyzer, the consumer and the deaths of both in one system, still
\* no edge is sent or lands before the nodes it depends on.
THEOREM SyncLandsNodesFirst == NodeFirstSpec => []EdgesLandAfterNodes
<1>1. NodeFirstInv => EdgesLandAfterNodes
  BY ClaimsComeAfterReceipts DEF NodeFirstInv
<1> QED
  BY <1>1, SyncInvariant, PTL

\* The sync implements the journal: each of its steps is one transaction of
\* the store or none.
THEOREM SyncImplementsStore == NodeFirstSpec => Spec
<1>1. NodeFirstInit => Init
  BY DEF NodeFirstInit, SysInit
<1>2. NodeFirstInv /\ [NodeFirstNext]_allVars => [Next]_storeVars
  <2>1. UNCHANGED allVars => UNCHANGED storeVars
    BY DEF allVars, vars
  <2> QED
    BY <2>1, StepKeepsJournal
<1> QED
  BY <1>1, <1>2, SyncInvariant, PTL DEF NodeFirstSpec, Spec

=============================================================================
