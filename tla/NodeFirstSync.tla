---------------------------- MODULE NodeFirstSync ----------------------------
(***************************************************************************)
(* One node-first ingestion (the C++ lane) from the sync that starts it to *)
(* the publication of its run, over as many attempts as it takes:          *)
(*                                                                         *)
(*   - the parser loop of tools/sync/incremental_sync.py, which drains the *)
(*     journal first, decides whether the run can be finalized without     *)
(*     parsing, runs the analyzer if not, and finalizes the run;           *)
(*   - the analyzer's runtime (journal/runtime.py): open the run and its   *)
(*     two phase barriers, stage the batches in the order the parser emits *)
(*     them, write the node batches, close node production;                *)
(*   - the consumer (journal/consumer.py): seal the endpoint audit when    *)
(*     the nodes are drained, then drain the edges.                        *)
(*                                                                         *)
(* The three run one after the other in one sync, and every transaction of *)
(* the store is a step of its own, so a sync may die between any two.  The *)
(* analyzer is deterministic: an attempt at the same snapshot emits the    *)
(* same batches in the same order, and so the same job ids.                *)
(***************************************************************************)
EXTENDS JournalWorkers, Sequences

CONSTANTS
    Run,            \* the run of this snapshot
    Order,          \* the batches in the order the analyzer emits them
    NodePhase,      \* NODE_PHASE_BARRIER
    EndpointAudit,  \* ENDPOINT_AUDIT_BARRIER
    Analyzer, Consumer

ASSUME SyncConstants ==
    /\ Run \in Runs
    /\ Order \in Seq(JobsOf(Run))
    /\ {NodePhase, EndpointAudit} \subseteq BarriersOf(Run)
    /\ Analyzer \in Analyzers
    /\ Consumer \in Workers \ Analyzers
    /\ \A j \in Jobs : NodePhase \in Produces[j]
                        <=> ~({NodePhase, EndpointAudit} \subseteq Requires[j])

VARIABLES
    stage,   \* where the sync is
    next,    \* index in Order of the batch the analyzer prepares
    audits   \* which of drain's two calls of the endpoint audit has run

syncVars == <<stage, next, audits>>
allVars == <<vars, syncVars>>

Stages == {"idle", "recover", "judge", "refinalize", "open", "start", "barriers",
           "enqueue", "close", "write", "complete", "closeNodes", "release",
           "edges", "finalize", "published"}

Current == Order[next]
IsNode(j) == NodePhase \in Produces[j]
Own(j) == Produces[j] \ {NodePhase}

\* The sync moves to stage s, and nothing else of it changes.
To(s) == stage' = s /\ UNCHANGED <<next, audits>>
\* A step of the sync that leaves the workers and the graph alone, and one that
\* does not even touch the journal.
Quiet == UNCHANGED <<workerVars, graphVars, faults>>
Idle == UNCHANGED vars
\* An exception ends the process and with it the attempt.
Raise(w) == Exit(w) /\ UNCHANGED <<storeVars, graphVars, faults>> /\ To("idle")

-----------------------------------------------------------------------------
(* The parser loop.                                                         *)

\* resume_journal does nothing for a run that was never opened.
BeginSync ==
    /\ stage = "idle"
    /\ \/ /\ runStatus[Run] = Absent
          /\ Idle
          /\ To("open")
       \/ /\ Start(Consumer, Run)
          /\ stage' = "recover"
          /\ audits' = "due"
          /\ UNCHANGED next

\* conservation_summary: every identity is classified, none is rejected, and
\* every unique one is acknowledged.
Conserved ==
    /\ runStatus[Run] # "quarantined"
    /\ \A j \in JobsOf(Run) : /\ manifest[j] # "rejected"
                              /\ manifest[j] = "unique" => status[j] = "done"

\* _node_first_recovery_can_finalize
CanFinalize ==
    /\ \A j \in JobsOf(Run) : status[j] \in {Absent, "done"}
    /\ \E j \in JobsOf(Run) : status[j] # Absent
    /\ audit[Run] /\ complete[Run] /\ Conserved

\* status_summary checks the seal, and raises when it does not hold any more.
Judge ==
    /\ stage = "judge"
    /\ Idle
    /\ To(IF audit[Run] /\ ~AuditBoundary(Run) THEN "idle"
          ELSE IF CanFinalize THEN "refinalize" ELSE "open")

\* finalize_journal_from_env, after recovery and after a successful analyzer.
\* Only a drained run is published.
Finalize ==
    /\ stage \in {"refinalize", "finalize"}
    /\ audit[Run] /\ complete[Run] /\ Conserved
    /\ CloseRunProduction(Run)
    /\ To(IF runStatus'[Run] = "drained" THEN "published"
          ELSE IF stage = "refinalize" THEN "open" ELSE "idle")
    /\ Quiet

FinalizeRaises ==
    /\ stage \in {"refinalize", "finalize"}
    /\ \/ ~(audit[Run] /\ complete[Run] /\ Conserved)
       \/ runStatus[Run] \notin {"open", "draining", "drained"}
    /\ Idle
    /\ To("idle")

-----------------------------------------------------------------------------
(* The analyzer.                                                            *)

\* GraphWriteJournalRuntime.__init__: open_run, take the leases over, and open
\* the two barriers, which only an open run allows.
OpenTheRun ==
    /\ stage = "open"
    /\ \/ OpenRun(Run)
       \/ runStatus[Run] \notin {Absent, "quarantined"} /\ UNCHANGED storeVars
    /\ To("start")
    /\ Quiet

StartAnalyzer ==
    /\ stage = "start"
    /\ Start(Analyzer, Run)
    /\ stage' = "barriers"
    /\ next' = 1
    /\ UNCHANGED audits

OpenBarriers ==
    /\ stage = "barriers"
    /\ runStatus[Run] = "open"
    /\ \/ OpenBarrier(NodePhase) /\ To("barriers") /\ Quiet
       \/ barrier[NodePhase] # Absent /\ OpenBarrier(EndpointAudit)
            /\ To("enqueue") /\ Quiet
       \/ barrier[NodePhase] # Absent /\ barrier[EndpointAudit] # Absent
            /\ Idle /\ To("enqueue")

\* Mutant of Enqueue: a batch of an earlier attempt is not recognised.
EnqueueOnce ==
    /\ stage = "enqueue"
    /\ next <= Len(Order)
    /\ EnqueueBatch(Current)
    /\ To("close")
    /\ Quiet

\* prepare: stage the batch (a batch of an earlier attempt is returned as it
\* is), close its own barrier, write it if it is a node batch.
Enqueue ==
    /\ stage = "enqueue"
    /\ next <= Len(Order)
    /\ \/ EnqueueBatch(Current)
       \/ status[Current] # Absent /\ ~complete[Run] /\ UNCHANGED storeVars
    /\ To("close")
    /\ Quiet

EnqueueConflict ==
    /\ stage = "enqueue"
    /\ next <= Len(Order)
    /\ EnqueueRejected(Current)
    /\ Exit(Analyzer)
    /\ To("idle")
    /\ UNCHANGED <<graphVars, faults>>

CloseOwnBarriers ==
    /\ stage = "close"
    /\ \/ \E b \in Own(Current) : CloseBarrier(b)
       \/ (\A b \in Own(Current) : barrier[b] = "drained") /\ UNCHANGED storeVars
    /\ To("write")
    /\ Quiet

\* Mutant of Advance: a batch is skipped.
AdvanceByTwo ==
    /\ stage = "write"
    /\ pc[Analyzer] = "loop"
    /\ status[Current] = "done" \/ ~IsNode(Current)
    /\ Idle
    /\ stage' = "enqueue"
    /\ next' = next + 2
    /\ UNCHANGED audits

\* The batch is done, or is an edge batch, which prepare defers.
Advance ==
    /\ stage = "write"
    /\ pc[Analyzer] = "loop"
    /\ status[Current] = "done" \/ ~IsNode(Current)
    /\ Idle
    /\ stage' = "enqueue"
    /\ next' = next + 1
    /\ UNCHANGED audits

WriteCurrent ==
    /\ stage = "write"
    /\ IsNode(Current)
    /\ ClaimForExecution(Analyzer, Current) \/ ClaimForReadback(Analyzer, Current)
    /\ To("write")

\* Mutant of CompleteNodes: the last batch has not been emitted yet.
CompleteNodesEarly ==
    /\ stage = "enqueue"
    /\ next >= Len(Order)
    /\ CompleteProducers(Run) \/ (complete[Run] /\ UNCHANGED storeVars)
    /\ runStatus[Run] = "open"
    /\ To("closeNodes")
    /\ Quiet

\* close_node_production, two transactions, and the end of the emissions.
CompleteNodes ==
    /\ stage = "enqueue"
    /\ next > Len(Order)
    /\ CompleteProducers(Run) \/ (complete[Run] /\ UNCHANGED storeVars)
    /\ runStatus[Run] = "open"
    /\ To("closeNodes")
    /\ Quiet

CloseNodes ==
    /\ stage = "closeNodes"
    /\ CloseBarrier(NodePhase) \/ (barrier[NodePhase] = "drained" /\ UNCHANGED storeVars)
    /\ To(IF barrier'[NodePhase] = "drained" THEN "release" ELSE "idle")
    /\ Exit(Analyzer)
    /\ UNCHANGED <<graphVars, faults>>

\* resume_journal again, now from inside the analyzer.
ReleaseEdges ==
    /\ stage = "release"
    /\ Start(Consumer, Run)
    /\ stage' = "edges"
    /\ audits' = "due"
    /\ UNCHANGED next

\* The guards of open_run, prepare, claim_job and close_barrier that fail.
AnalyzerRaises ==
    /\ \/ stage = "open" /\ runStatus[Run] = "quarantined"
       \/ stage \in {"barriers", "close", "closeNodes"} /\ runStatus[Run] # "open"
       \/ stage = "enqueue" /\ next > Len(Order) /\ runStatus[Run] # "open"
       \/ /\ stage = "enqueue"
          /\ next <= Len(Order)
          /\ complete[Run] \/ (status[Current] = Absent /\ ~Enqueueable(Current))
       \/ /\ stage = "write"
          /\ pc[Analyzer] = "loop"
          /\ IsNode(Current)
          /\ status[Current] # "done"
          /\ ~Executable(Current) /\ ~Reconcilable(Current)
    /\ Raise(Analyzer)

-----------------------------------------------------------------------------
(* The consumer: drain with its two endpoint audits.                        *)

Draining == stage \in {"recover", "edges"}
AuditCalled ==
    \/ pc[Consumer] = "loop" /\ audits = "due"
    \/ /\ pc[Consumer] = "polled"
       /\ audits = "ran"
       /\ \A j \in JobsOf(Run) : ~Executable(j)
AuditReturns == audits' = (IF audits = "due" THEN "ran" ELSE "last") /\ UNCHANGED <<stage, next>>
\* The endpoints are the rows of the node batches, and each is there once.
EndpointsPresent == Awaited(NodePhase) \subseteq rows

\* _seal_endpoint_audit_if_ready.  The seal and the closing of the barrier are
\* two transactions; the second alone is what a sealed run gets.
AuditNotReady ==
    /\ Draining /\ AuditCalled
    /\ ~audit[Run] /\ barrier[NodePhase] # "drained"
    /\ Idle
    /\ AuditReturns

SealAudit ==
    /\ Draining /\ AuditCalled
    /\ ~audit[Run] /\ barrier[NodePhase] = "drained"
    /\ EndpointsPresent
    /\ SealEndpointAudit(Run)
    /\ UNCHANGED syncVars
    /\ Quiet

CloseAudit ==
    /\ Draining /\ AuditCalled
    /\ audit[Run] /\ AuditBoundary(Run)
    /\ CloseBarrier(EndpointAudit)
          \/ (barrier[EndpointAudit] = "drained" /\ UNCHANGED storeVars)
    /\ AuditReturns
    /\ Quiet

AuditRaises ==
    /\ Draining /\ AuditCalled
    /\ \/ /\ ~audit[Run] /\ barrier[NodePhase] = "drained"
          /\ ~EndpointsPresent \/ ~AuditBoundary(Run)
       \/ /\ audit[Run]
          /\ \/ ~AuditBoundary(Run)
             \/ barrier[EndpointAudit] # "drained" /\ runStatus[Run] # "open"
    /\ Raise(Consumer)

Drain ==
    /\ Draining
    /\ \/ /\ audits # "due"
          /\ (\E j \in Jobs : ClaimForReadback(Consumer, j)) \/ NothingAmbiguous(Consumer)
          /\ UNCHANGED syncVars
       \/ /\ \E j \in Jobs : ClaimForExecution(Consumer, j)
          /\ audits' = "ran"
          /\ UNCHANGED <<stage, next>>

DrainReturns ==
    /\ Draining
    /\ audits = "last"
    /\ Finish(Consumer)
    /\ To(IF stage = "recover" THEN "judge" ELSE "finalize")

-----------------------------------------------------------------------------
\* Whoever holds a ticket goes on with it; an error ends the attempt.
HandleTicket(w) ==
    /\ Readback(w) \/ Submit(w) \/ Report(w)
    /\ To(IF pc'[w] = "down" THEN "idle" ELSE stage)

\* The sync dies, and its analyzer with it.
Die ==
    /\ stage \notin {"idle", "published"}
    /\ faults < MaxFaults
    /\ faults' = faults + 1
    /\ pc' = [w \in Workers |-> "down"]
    /\ ticket' = [w \in Workers |-> NoJob]
    /\ serves' = [w \in Workers |-> NoRun]
    /\ To("idle")
    /\ UNCHANGED <<storeVars, nth, graphVars>>

\* A sync of another snapshot opens its run.
Supersede ==
    /\ \E r \in Runs \ {Run} : OpenRun(r)
    /\ Quiet
    /\ UNCHANGED syncVars

NodeFirstInit == SysInit /\ stage = "idle" /\ next = 1 /\ audits = "due"

SyncStep ==
    \/ BeginSync \/ Judge \/ Finalize \/ FinalizeRaises
    \/ OpenTheRun \/ StartAnalyzer \/ OpenBarriers \/ Enqueue \/ EnqueueConflict
    \/ CloseOwnBarriers \/ Advance \/ WriteCurrent \/ CompleteNodes \/ CloseNodes
    \/ ReleaseEdges \/ AnalyzerRaises
    \/ AuditNotReady \/ SealAudit \/ CloseAudit \/ AuditRaises
    \/ Drain \/ DrainReturns
    \/ \E w \in Workers : HandleTicket(w)

NodeFirstNext ==
    \/ SyncStep
    \/ Die
    \/ Supersede
    \/ (Clock \/ Graph) /\ UNCHANGED syncVars

NodeFirstSpec == NodeFirstInit /\ [][NodeFirstNext]_allVars

\* The sync runs, and is run again after it failed; leases and backoffs run
\* out; the graph settles what it was sent.
FairNodeFirstSpec ==
    /\ NodeFirstSpec
    /\ WF_allVars(SyncStep)
    /\ WF_allVars(Clock /\ UNCHANGED syncVars)
    /\ WF_allVars(Graph /\ UNCHANGED syncVars)

-----------------------------------------------------------------------------
(* Properties.                                                              *)

\* The sync's own variables have their types.
NodeFirstTypeOK ==
    /\ stage \in Stages
    /\ next \in 1 .. Len(Order) + 1
    /\ audits \in {"due", "ran", "last"}

\* A sync publishes only a whole snapshot: every batch the analyzer emits for
\* it, not just those the journal knows of, is acknowledged and in the graph,
\* however many attempts it took and wherever they were cut off.
PublishedIsWhole ==
    stage = "published" =>
        \A i \in 1 .. Len(Order) : status[Order[i]] = "done" /\ Order[i] \in receipts

\* The endpoint audit is evidence about the whole snapshot: once it is sealed
\* every batch of the analyzer is staged, and its nodes are in the graph.
\* (The types are checked along.)
SealMeansStaged ==
    /\ NodeFirstTypeOK
    /\ audit[Run] => \A i \in 1 .. Len(Order) :
                       /\ status[Order[i]] # Absent
                       /\ IsNode(Order[i]) => Order[i] \in receipts

Settled == runStatus[Run] # Absent /\ ~Active(Run)
\* Producers complete, node barrier open: the state between the two
\* transactions of close_node_production.
CutOff == complete[Run] /\ barrier[NodePhase] = "open"

\* Recovery converges (phase-04c: "the next compatible attempt continues from
\* durable pending/ambiguous work"): if syncs die finitely often, the run is
\* published or given up.
RecoveryConverges == <>Settled

\* A cleanup that was given up and acknowledged on its retry has landed late,
\* and deleted rows written since.
ClearedLate == \E j \in Jobs : IsNode(j) /\ status[j] = "done" /\ j \notin rows
Stranded == stage = "idle" /\ (CutOff \/ ClearedLate)

\* Only two things keep recovery from converging: a death between the two
\* transactions of close_node_production, and a file cleanup that lands after
\* its retry was acknowledged, so that the endpoint audit misses its nodes.
RecoveryConvergesUnlessStranded == <>(Settled \/ Stranded)

=============================================================================
