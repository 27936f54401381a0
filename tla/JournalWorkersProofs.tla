------------------------ MODULE JournalWorkersProofs ------------------------
(***************************************************************************)
(* Proofs about JournalWorkers for any number of workers, batches, runs    *)
(* and faults: the workers use the journal only through its operations     *)
(* (so every theorem of JournalStoreProofs holds of them), they            *)
(* acknowledge only what has landed, and no edge lands before its nodes.   *)
(***************************************************************************)
EXTENDS JournalWorkers, JournalStoreProofs

-----------------------------------------------------------------------------
(* What the operations of the store do to attempts and acknowledgements.    *)

\* No batch becomes acknowledged, and what was handed out stays handed out.
Unacknowledging ==
    \A j \in Jobs : /\ status'[j] = "done" => status[j] = "done"
                    /\ attempt[j] > 0 => attempt'[j] > 0

\* Only ack_batch acknowledges: producing, the clock and recovery do not.
LEMMA ProducersDoNotAcknowledge ==
    ASSUME TypeOK
    PROVE  /\ \A r \in Runs : OpenRun(r) \/ CompleteProducers(r) \/ SealEndpointAudit(r)
                                \/ CloseRunProduction(r) \/ RecoverRunLeasesAsAmbiguous(r)
                                => Unacknowledging
           /\ \A j \in Jobs : EnqueueBatch(j) \/ EnqueueRejected(j) \/ LeaseExpires(j)
                                \/ BackoffElapses(j) => Unacknowledging
           /\ \A b \in Barriers : OpenBarrier(b) \/ CloseBarrier(b) => Unacknowledging
           /\ QuarantineLegacyTargets \/ RecoverExpiredLeases => Unacknowledging
<1> USE DEF TypeOK, Unacknowledging, runVars, leaseVars, barrierVars
<1>1. ASSUME NEW r \in Runs, OpenRun(r) PROVE Unacknowledging
  BY <1>1 DEF OpenRun, Quarantine
<1>2. ASSUME NEW r \in Runs, CompleteProducers(r) PROVE Unacknowledging
  BY <1>2 DEF CompleteProducers
<1>3. ASSUME NEW r \in Runs, SealEndpointAudit(r) PROVE Unacknowledging
  BY <1>3 DEF SealEndpointAudit
<1>4. ASSUME NEW r \in Runs, CloseRunProduction(r) PROVE Unacknowledging
  BY <1>4 DEF CloseRunProduction
<1>5. ASSUME NEW r \in Runs, RecoverRunLeasesAsAmbiguous(r) PROVE Unacknowledging
  BY <1>5 DEF RecoverRunLeasesAsAmbiguous
<1>6. ASSUME NEW j \in Jobs, EnqueueBatch(j) PROVE Unacknowledging
  BY <1>6 DEF EnqueueBatch
<1>7. ASSUME NEW j \in Jobs, EnqueueRejected(j) PROVE Unacknowledging
  BY <1>7 DEF EnqueueRejected
<1>8. ASSUME NEW j \in Jobs, LeaseExpires(j) PROVE Unacknowledging
  BY <1>8 DEF LeaseExpires
<1>9. ASSUME NEW j \in Jobs, BackoffElapses(j) PROVE Unacknowledging
  BY <1>9 DEF BackoffElapses
<1>10. ASSUME NEW b \in Barriers, OpenBarrier(b) PROVE Unacknowledging
  BY <1>10 DEF OpenBarrier
<1>11. ASSUME NEW b \in Barriers, CloseBarrier(b) PROVE Unacknowledging
  BY <1>11 DEF CloseBarrier
<1>12. CASE QuarantineLegacyTargets
  BY <1>12 DEF QuarantineLegacyTargets, Quarantine
<1>13. CASE RecoverExpiredLeases
  BY <1>13 DEF RecoverExpiredLeases, RecoveredStatus
<1> HIDE DEF TypeOK, Unacknowledging, runVars, leaseVars, barrierVars
<1> QED
  BY <1>1, <1>2, <1>3, <1>4, <1>5, <1>6, <1>7, <1>8, <1>9, <1>10, <1>11, <1>12, <1>13

\* Neither do claims and failures.
LEMMA ClaimsDoNotAcknowledge ==
    ASSUME TypeOK, NEW j \in Jobs, NEW t \in Tokens
    PROVE  \/ ClaimJob(j, t)
           \/ ClaimReconcilingJob(j, t)
           \/ MarkReconciling(j, t)
           \/ ScheduleRetry(j, t, TRUE)
           \/ ScheduleReconciliationRetry(j, t)
           \/ BlockBatch(j, t)
           => Unacknowledging
<1> USE DEF TypeOK, Unacknowledging, runVars, leaseVars, barrierVars, Settle
<1>1. ASSUME ClaimJob(j, t) PROVE Unacknowledging
  BY <1>1 DEF ClaimJob, RecoveredStatus
<1>2. ASSUME ClaimReconcilingJob(j, t) PROVE Unacknowledging
  BY <1>2 DEF ClaimReconcilingJob, RecoveredStatus
<1>3. ASSUME MarkReconciling(j, t) PROVE Unacknowledging
  BY <1>3 DEF MarkReconciling
<1>4. ASSUME ScheduleRetry(j, t, TRUE) PROVE Unacknowledging
  BY <1>4 DEF ScheduleRetry
<1>5. ASSUME ScheduleReconciliationRetry(j, t) PROVE Unacknowledging
  BY <1>5 DEF ScheduleReconciliationRetry
<1>6. ASSUME BlockBatch(j, t) PROVE Unacknowledging
  BY <1>6 DEF BlockBatch
<1> HIDE DEF TypeOK, Unacknowledging, runVars, leaseVars, barrierVars, Settle
<1> QED
  BY <1>1, <1>2, <1>3, <1>4, <1>5, <1>6, Zenon

\* ack_batch acknowledges the one batch it is called for.
LEMMA AckAcknowledgesOne ==
    ASSUME TypeOK, NEW j \in Jobs, NEW t \in Tokens, AckBatch(j, t)
    PROVE  /\ \A k \in Jobs : status'[k] = "done" => k = j \/ status[k] = "done"
           /\ attempt' = attempt
BY DEF TypeOK, AckBatch, Settle

-----------------------------------------------------------------------------
(* Every step of the system is one transaction of the store, or none.       *)

\* A report of a worker is a transaction under that worker's token.
LEMMA ReportIsTransaction ==
    ASSUME HoldsTicket, NEW w \in Workers, Report(w)
    PROVE  [Next]_storeVars
<1> USE DEF HoldsTicket, Busy, Workers
<1>1. ASSUME NEW j \in Jobs, LeaseStep(j, w) PROVE Next
  BY <1>1 DEF Next
<1>2. CASE ReadbackFails(w)
  BY <1>1, <1>2 DEF ReadbackFails, LeaseStep
<1>3. CASE AckFound(w)
  BY <1>1, <1>3 DEF AckFound, LeaseStep
<1>4. CASE RetryMissing(w)
  BY <1>1, <1>4, Zenon DEF RetryMissing, LeaseStep
<1>5. CASE BlockUnreadable(w)
  BY <1>1, <1>5 DEF BlockUnreadable, LeaseStep
<1>6. CASE AckExecuted(w)
  BY <1>1, <1>6 DEF AckExecuted, LeaseStep
<1>7. CASE BlockShort(w)
  BY <1>1, <1>7 DEF BlockShort, LeaseStep
<1>8. CASE MarkAmbiguous(w)
  BY <1>1, <1>8 DEF MarkAmbiguous, LeaseStep
<1>9. CASE LoseLease(w)
  BY <1>9 DEF LoseLease
<1> QED
  BY <1>2, <1>3, <1>4, <1>5, <1>6, <1>7, <1>8, <1>9 DEF Report

\* So is everything else the system does.
LEMMA StepIsTransaction ==
    ASSUME HoldsTicket, [SysNext]_vars
    PROVE  [Next]_storeVars
<1>1. CASE UNCHANGED vars
  BY <1>1 DEF vars
<1>2. CASE Produce
  BY <1>2 DEF Produce, Emit, Next, RunStep, BatchStep
<1>3. CASE Clock
  BY <1>3 DEF Clock, LeaseRunsOut, RetryFallsDue, Next, BatchStep
<1>4. CASE Graph
  BY <1>4 DEF Graph, Land, Lose
<1>5. ASSUME NEW w \in Workers, NEW r \in Runs, Start(w, r) PROVE Next
  BY <1>5 DEF Start, Next, RunStep
<1>6. ASSUME NEW w \in Workers, Claim(w) PROVE [Next]_storeVars
  <2>1. ASSUME NEW j \in Jobs, ClaimForReadback(w, j) \/ ClaimForExecution(w, j)
        PROVE  Next
    BY <2>1 DEF ClaimForReadback, ClaimForExecution, Workers, Next, LeaseStep
  <2>2. CASE NothingAmbiguous(w) \/ Finish(w)
    BY <2>2 DEF NothingAmbiguous, Finish, EmptyClaim, Next
  <2> QED
    BY <1>6, <2>1, <2>2 DEF Claim
<1>7. ASSUME NEW w \in Workers, Readback(w) \/ Submit(w) \/ Crash(w)
      PROVE  UNCHANGED storeVars
  BY <1>7 DEF Readback, Submit, Crash
<1> QED
  BY <1>1, <1>2, <1>3, <1>4, <1>5, <1>6, <1>7, ReportIsTransaction DEF SysNext, Work

-----------------------------------------------------------------------------
(* The invariant of the workers.                                            *)

\* A step that leaves the graph alone, acknowledges only what has a receipt,
\* and in which a worker at most drops its ticket.
LEMMA WorkerFrame ==
    ASSUME WorkerInv, SysTypeOK',
           \A k \in Jobs : /\ status'[k] = "done" => status[k] = "done" \/ k \in receipts
                           /\ attempt[k] > 0 => attempt'[k] > 0,
           \A v \in Workers : \/ pc'[v] = pc[v] /\ ticket'[v] = ticket[v]
                              \/ pc'[v] \notin Busy,
           UNCHANGED graphVars
    PROVE  WorkerInv'
<1> USE DEF WorkerInv, graphVars, Busy
<1>1. HoldsTicket' /\ HasEvidence'
  BY DEF HoldsTicket, HasEvidence
<1>2. ClaimedFirst'
  BY DEF ClaimedFirst, HoldsTicket, SysTypeOK
<1>3. AcknowledgedIsApplied'
  BY DEF AcknowledgedIsApplied
<1> QED
  BY <1>1, <1>2, <1>3

\* The worker drops its ticket and stops, or goes for the next one.
LEMMA DropsTicket ==
    ASSUME SysTypeOK, NEW w \in Workers, Exit(w) \/ NextTicket(w)
    PROVE  /\ \A v \in Workers : \/ pc'[v] = pc[v] /\ ticket'[v] = ticket[v]
                                 \/ pc'[v] \notin Busy
           /\ pc' \in [Workers -> Places] /\ ticket' \in [Workers -> Jobs \cup {NoJob}]
           /\ serves' \in [Workers -> Runs \cup {NoRun}] /\ nth' \in [Workers -> Nat]
<1>1. CASE Exit(w)
  BY <1>1 DEF SysTypeOK, Exit, Busy, Places
<1>2. CASE NextTicket(w)
  BY <1>2 DEF SysTypeOK, NextTicket, Busy, Places
<1> QED
  BY <1>1, <1>2

\* Producers and the clock do not touch the workers.
LEMMA EnvironmentPreserves ==
    ASSUME TypeOK, WorkerInv, Produce \/ Clock
    PROVE  WorkerInv'
<1>1. Unacknowledging
  BY ProducersDoNotAcknowledge DEF Produce, Emit, Clock, LeaseRunsOut, RetryFallsDue
<1>2. UNCHANGED <<workerVars, graphVars>> /\ (faults' = faults \/ faults' = faults + 1)
  BY DEF Produce, Clock, LeaseRunsOut, RetryFallsDue
<1>3. SysTypeOK'
  BY <1>2 DEF WorkerInv, SysTypeOK, workerVars, graphVars
<1> QED
  BY <1>1, <1>2, <1>3, WorkerFrame DEF Unacknowledging, workerVars

\* What a worker reports: an acknowledgement needs evidence, and the rest
\* acknowledges nothing.
LEMMA ReportPreserves ==
    ASSUME TypeOK, WorkerInv, NEW w \in Workers, Report(w)
    PROVE  WorkerInv'
<1> USE DEF WorkerInv
<1>1. (Exit(w) \/ NextTicket(w)) /\ UNCHANGED graphVars /\ UNCHANGED faults
  BY Zenon DEF Report, ReadbackFails, AckFound, RetryMissing, BlockUnreadable, AckExecuted,
         BlockShort, MarkAmbiguous, LoseLease
<1>2. SysTypeOK'
  BY <1>1, DropsTicket DEF SysTypeOK, graphVars
<1>3. \A k \in Jobs : /\ status'[k] = "done" => status[k] = "done" \/ k \in receipts
                      /\ attempt[k] > 0 => attempt'[k] > 0
  <2> USE DEF HoldsTicket, Busy, Workers
  <2>1. ASSUME Unacknowledging
        PROVE \A k \in Jobs : /\ status'[k] = "done" => status[k] = "done" \/ k \in receipts
                              /\ attempt[k] > 0 => attempt'[k] > 0
    BY <2>1 DEF Unacknowledging
  <2>2. CASE ReadbackFails(w)
    BY <2>1, <2>2, ClaimsDoNotAcknowledge, Zenon DEF ReadbackFails
  <2>3. CASE RetryMissing(w)
    BY <2>1, <2>3, ClaimsDoNotAcknowledge, Zenon DEF RetryMissing
  <2>4. CASE BlockUnreadable(w)
    BY <2>1, <2>4, ClaimsDoNotAcknowledge, Zenon DEF BlockUnreadable
  <2>5. CASE BlockShort(w)
    BY <2>1, <2>5, ClaimsDoNotAcknowledge, Zenon DEF BlockShort
  <2>6. CASE MarkAmbiguous(w)
    BY <2>1, <2>6, ClaimsDoNotAcknowledge, Zenon DEF MarkAmbiguous
  <2>7. CASE LoseLease(w)
    BY <2>7 DEF LoseLease, storeVars, leaseVars
  <2>8. CASE AckFound(w)
    <3>1. ticket[w] \in Jobs /\ ticket[w] \in receipts /\ AckBatch(ticket[w], w)
      BY <2>8 DEF AckFound, HasEvidence
    <3> QED
      BY <3>1, AckAcknowledgesOne
  <2>9. CASE AckExecuted(w)
    <3>1. ticket[w] \in Jobs /\ ticket[w] \in receipts /\ AckBatch(ticket[w], w)
      BY <2>9 DEF AckExecuted, HasEvidence
    <3> QED
      BY <3>1, AckAcknowledgesOne
  <2> QED
    BY <2>2, <2>3, <2>4, <2>5, <2>6, <2>7, <2>8, <2>9 DEF Report
<1> QED
  BY <1>1, <1>2, <1>3, DropsTicket, WorkerFrame

\* Starting, polling in vain, finishing and dying.
LEMMA IdlingPreserves ==
    ASSUME TypeOK, WorkerInv, NEW w \in Workers,
           \/ \E r \in Runs : Start(w, r)
           \/ NothingAmbiguous(w)
           \/ Finish(w)
           \/ Crash(w)
    PROVE  WorkerInv'
<1> USE DEF WorkerInv
<1>1. Unacknowledging
  <2>1. CASE UNCHANGED storeVars
    BY <2>1 DEF Unacknowledging, storeVars, leaseVars
  <2> QED
    BY <2>1, ProducersDoNotAcknowledge
       DEF Start, NothingAmbiguous, Finish, Crash, EmptyClaim
<1>2. UNCHANGED graphVars /\ (faults' = faults \/ faults' = faults + 1)
  BY DEF Start, NothingAmbiguous, Finish, Crash
<1>3. /\ \A v \in Workers : \/ pc'[v] = pc[v] /\ ticket'[v] = ticket[v]
                            \/ pc'[v] \notin Busy
      /\ pc' \in [Workers -> Places] /\ ticket' \in [Workers -> Jobs \cup {NoJob}]
      /\ serves' \in [Workers -> Runs \cup {NoRun}] /\ nth' \in [Workers -> Nat]
  <2>1. CASE \E r \in Runs : Start(w, r)
    BY <2>1 DEF Start, SysTypeOK, Busy, Places
  <2>2. CASE NothingAmbiguous(w)
    BY <2>2 DEF NothingAmbiguous, Goto, SysTypeOK, Busy, Places
  <2>3. CASE Finish(w) \/ Crash(w)
    BY <2>3, DropsTicket DEF Finish, Crash
  <2> QED
    BY <2>1, <2>2, <2>3
<1>4. SysTypeOK'
  BY <1>2, <1>3 DEF SysTypeOK, graphVars
<1> QED
  BY <1>1, <1>2, <1>3, <1>4, WorkerFrame DEF Unacknowledging

\* Claiming a batch: for execution it is handed out, for readback it was.
LEMMA ClaimPreserves ==
    ASSUME TypeOK, TypeOK', WorkerInv, NEW w \in Workers, NEW j \in Jobs,
           ClaimForReadback(w, j) \/ ClaimForExecution(w, j)
    PROVE  WorkerInv'
<1> USE DEF WorkerInv
<1>1. Unacknowledging
  BY ClaimsDoNotAcknowledge, Zenon DEF ClaimForReadback, ClaimForExecution, Workers
<1>2. PICK place \in {"reading", "claimed"} :
            Take(w, j, place) /\ UNCHANGED <<graphVars, faults>>
  BY DEF ClaimForReadback, ClaimForExecution
<1>3. place = "claimed" => attempt'[j] > 0
  <2>1. pc'[w] = place
    BY <1>2 DEF Take, SysTypeOK
  <2>2. ClaimForReadback(w, j) => pc'[w] = "reading"
    BY DEF ClaimForReadback, Take, SysTypeOK
  <2>3. ClaimForExecution(w, j) => attempt'[j] > 0
    <3>1. ClaimForExecution(w, j) => attempt' = [attempt EXCEPT ![j] = @ + 1]
      BY DEF ClaimForExecution, ClaimJob
    <3>2. attempt \in [Jobs -> Nat]
      BY DEF TypeOK
    <3> QED
      BY <3>1, <3>2
  <2> QED
    BY <2>1, <2>2, <2>3
<1>4. SysTypeOK'
  <2>1. attempt'[j] \in Nat
    BY DEF TypeOK
  <2> QED
    BY <1>2, <2>1 DEF Take, SysTypeOK, Places, graphVars
<1>5. /\ pc'[w] = place /\ ticket'[w] = j
      /\ \A v \in Workers \ {w} : pc'[v] = pc[v] /\ ticket'[v] = ticket[v]
  BY <1>2 DEF Take, SysTypeOK
<1>6. HoldsTicket' /\ HasEvidence'
  <2>1. receipts' = receipts
    BY <1>2 DEF graphVars
  <2>2. HoldsTicket'
    BY <1>5 DEF HoldsTicket, Busy
  <2>3. HasEvidence'
    BY <1>5, <2>1 DEF HasEvidence
  <2> QED
    BY <2>2, <2>3
<1>7. ClaimedFirst'
  BY <1>1, <1>2, <1>3, <1>5
     DEF ClaimedFirst, HoldsTicket, Busy, Unacknowledging, SysTypeOK, graphVars
<1>8. AcknowledgedIsApplied'
  BY <1>1, <1>2 DEF AcknowledgedIsApplied, Unacknowledging, graphVars
<1> QED
  BY <1>4, <1>6, <1>7, <1>8

\* Reading a receipt and submitting a mutation: no transaction of the store.
LEMMA GraphCallPreserves ==
    ASSUME WorkerInv, NEW w \in Workers, Readback(w) \/ Submit(w)
    PROVE  WorkerInv'
<1> USE DEF WorkerInv
<1>1. status' = status /\ attempt' = attempt
  BY DEF Readback, Submit, storeVars, leaseVars
<1>2. CASE Readback(w)
  <2>1. /\ pc'[w] = IF ticket[w] \in receipts THEN "found" ELSE "missing"
        /\ \A v \in Workers \ {w} : pc'[v] = pc[v]
        /\ pc[w] = "reading" /\ UNCHANGED <<serves, ticket, nth, faults>>
        /\ UNCHANGED graphVars
    BY <1>2 DEF Readback, Goto, SysTypeOK
  <2>2. SysTypeOK'
    BY <1>2, <2>1 DEF Readback, Goto, SysTypeOK, Places, graphVars
  <2> QED
    BY <1>1, <2>1, <2>2
       DEF HoldsTicket, HasEvidence, ClaimedFirst, AcknowledgedIsApplied, Busy, graphVars
<1>3. CASE Submit(w)
  <2>1. /\ pc[w] = "claimed" /\ pc'[w] = "sent"
        /\ \A v \in Workers \ {w} : pc'[v] = pc[v]
        /\ UNCHANGED <<serves, ticket, nth, receipts, rows, faults>>
        /\ inflight' = inflight \cup {<<ticket[w], nth[w]>>}
    BY <1>3 DEF Submit, Goto, SysTypeOK
  <2>2. ticket[w] \in Jobs /\ attempt[ticket[w]] > 0
    BY <2>1 DEF HoldsTicket, ClaimedFirst, Busy
  <2>3. SysTypeOK'
    BY <1>3, <2>1, <2>2 DEF Submit, Goto, SysTypeOK, Places
  <2>4. HoldsTicket' /\ HasEvidence' /\ AcknowledgedIsApplied'
    BY <1>1, <2>1, ZenonT(30) DEF HoldsTicket, HasEvidence, AcknowledgedIsApplied, Busy
  <2>5. ClaimedFirst'
    <3>1. ClaimedFirst /\ rows' = rows /\ ticket' = ticket
      BY <2>1
    <3>2. \A v \in Workers :
             pc'[v] \in {"claimed", "sent", "answered"} => attempt'[ticket'[v]] > 0
      BY <1>1, <2>1, <2>2, <3>1 DEF ClaimedFirst
    <3>3. \A m \in inflight' : attempt'[m[1]] > 0
      BY <1>1, <2>1, <2>2, <3>1 DEF ClaimedFirst
    <3>4. \A k \in rows' : attempt'[k] > 0
      BY <1>1, <3>1 DEF ClaimedFirst
    <3> QED
      BY <3>2, <3>3, <3>4 DEF ClaimedFirst
  <2> QED
    BY <2>3, <2>4, <2>5
<1> QED
  BY <1>2, <1>3

\* The graph applies a mutation or loses it.
LEMMA GraphPreserves ==
    ASSUME WorkerInv, Graph
    PROVE  WorkerInv'
<1> USE WorkerConstants DEF WorkerInv
<1>1. PICK m \in inflight : Land(m[1], m[2]) \/ Lose(m[1], m[2])
  BY DEF Graph
<1>2. m[1] \in Jobs /\ attempt[m[1]] > 0
  BY DEF SysTypeOK, ClaimedFirst
<1>3. /\ status' = status /\ attempt' = attempt
      /\ UNCHANGED <<serves, ticket, nth, faults>> /\ inflight' \subseteq inflight
  BY <1>1 DEF Land, Lose, storeVars, leaseVars, workerVars
<1>4. CASE Lose(m[1], m[2])
  <2>1. UNCHANGED <<pc, receipts, rows>>
    BY <1>4 DEF Lose, workerVars
  <2> QED
    BY <1>3, <2>1
       DEF SysTypeOK, HoldsTicket, HasEvidence, ClaimedFirst, AcknowledgedIsApplied
<1>5. CASE Land(m[1], m[2])
  <2>1. /\ receipts' = IF m[1] \in ShortJobs THEN receipts ELSE receipts \cup {m[1]}
        /\ rows' \subseteq rows \cup {m[1]}
        /\ pc' \in [Workers -> Places]
        /\ \A v \in Workers : \/ pc'[v] = pc[v]
                              \/ pc[v] = "sent" /\ pc'[v] = "answered" /\ ticket[v] = m[1]
    BY <1>5 DEF Land, SysTypeOK, Places
  <2>2. SysTypeOK'
    BY <1>2, <1>3, <2>1 DEF SysTypeOK
  <2>3. HoldsTicket' /\ HasEvidence' /\ AcknowledgedIsApplied'
    BY <1>3, <2>1 DEF HoldsTicket, HasEvidence, AcknowledgedIsApplied, Busy
  <2>4. ClaimedFirst'
    BY <1>2, <1>3, <2>1 DEF ClaimedFirst
  <2> QED
    BY <2>2, <2>3, <2>4
<1> QED
  BY <1>1, <1>4, <1>5

-----------------------------------------------------------------------------
(* The theorems.                                                            *)

\* Both invariants hold when nothing has happened, and every step keeps them.
LEMMA SystemInduction ==
    /\ SysInit => StoreInv /\ WorkerInv
    /\ StoreInv /\ WorkerInv /\ [SysNext]_vars => StoreInv' /\ WorkerInv'
<1>1. SysInit => StoreInv /\ WorkerInv
  <2>1. SUFFICES ASSUME SysInit PROVE StoreInv /\ WorkerInv
    OBVIOUS
  <2>2. StoreInv
    BY <2>1, InitStoreInv DEF SysInit
  <2>3. SysTypeOK
    BY <2>1, WorkerConstants DEF SysInit, SysTypeOK, Places
  <2>4. HoldsTicket /\ HasEvidence /\ ClaimedFirst
    BY <2>1 DEF SysInit, HoldsTicket, HasEvidence, ClaimedFirst, Busy
  <2>5. AcknowledgedIsApplied
    BY <2>1 DEF SysInit, Init, AcknowledgedIsApplied, Absent
  <2> QED
    BY <2>2, <2>3, <2>4, <2>5 DEF WorkerInv
<1>2. ASSUME StoreInv, WorkerInv, [SysNext]_vars PROVE StoreInv' /\ WorkerInv'
  <2>1. StoreInv' /\ TypeOK /\ TypeOK'
    <3>1. StoreInv'
      BY <1>2, StepIsTransaction, NextPreserves, StutterPreserves DEF WorkerInv
    <3> QED
      BY <1>2, <3>1 DEF StoreInv
  <2>2. CASE UNCHANGED vars
    <3>1. /\ UNCHANGED <<status, attempt, pc, serves, ticket, nth, faults>>
          /\ UNCHANGED graphVars
      BY <2>2 DEF vars, storeVars, leaseVars, workerVars
    <3>2. SysTypeOK'
      BY <1>2, <3>1 DEF WorkerInv, SysTypeOK, graphVars
    <3> QED
      BY <1>2, <2>1, <3>1, <3>2, WorkerFrame
  <2>3. CASE Produce \/ Clock
    BY <1>2, <2>1, <2>3, EnvironmentPreserves
  <2>4. CASE Graph
    BY <1>2, <2>1, <2>4, GraphPreserves
  <2>5. ASSUME NEW w \in Workers, Work(w) \/ Crash(w) PROVE WorkerInv'
    BY <1>2, <2>1, <2>5, IdlingPreserves, ClaimPreserves, GraphCallPreserves,
       ReportPreserves DEF Work, Claim
  <2> QED
    BY <1>2, <2>1, <2>2, <2>3, <2>4, <2>5 DEF SysNext
<1> QED
  BY <1>1, <1>2

\* The invariants of the store and of the workers hold of the whole system.
THEOREM SystemInvariant == SysSpec => [](StoreInv /\ WorkerInv)
BY SystemInduction, PTL DEF SysSpec

\* The workers implement the journal: whatever they do, crash and lose, each
\* of their steps is one transaction of the store or none.
THEOREM WorkersImplementStore == SysSpec => Spec
<1>1. SysInit => Init
  BY DEF SysInit
<1>2. StoreInv /\ WorkerInv /\ [SysNext]_vars => [Next]_storeVars
  BY StepIsTransaction DEF WorkerInv
<1> QED
  BY <1>1, <1>2, SystemInvariant, PTL DEF SysSpec, Spec

\* A batch is acknowledged only when its mutation has landed in the graph.
THEOREM AckOnEvidence == SysSpec => []AcknowledgedIsApplied
<1>1. WorkerInv => AcknowledgedIsApplied
  BY DEF WorkerInv
<1> QED
  BY <1>1, SystemInvariant, PTL

\* The invariants give the order of the mutations: a claimed batch found its
\* barriers drained, what they await is acknowledged, and so has landed.
LEMMA ClaimsComeAfterReceipts ==
    ASSUME StoreInv, WorkerInv
    PROVE  EdgesLandAfterNodes
<1> SUFFICES ASSUME NEW j \in rows \cup {m[1] : m \in inflight},
                    NEW b \in Requires[j],
                    NEW k \in Awaited(b)
             PROVE  k \in receipts
  BY DEF EdgesLandAfterNodes
<1>1. j \in Jobs /\ attempt[j] > 0
  BY DEF WorkerInv, SysTypeOK, ClaimedFirst
<1>2. k \in Acknowledged(b)
  BY <1>1 DEF StoreInv, NodesBeforeEdges
<1> QED
  BY <1>2 DEF Acknowledged, Awaited, WorkerInv, AcknowledgedIsApplied

\* No mutation is sent, or lands, before everything it depends on has landed.
THEOREM NodesLandFirst == SysSpec => []EdgesLandAfterNodes
BY ClaimsComeAfterReceipts, SystemInvariant, PTL

=============================================================================
