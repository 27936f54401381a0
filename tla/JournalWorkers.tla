--------------------------- MODULE JournalWorkers ---------------------------
(***************************************************************************)
(* The processes that use the journal, and the graph they write to:        *)
(* GraphWriteJournalConsumer (journal/consumer.py), the analyzers'         *)
(* GraphWriteJournalRuntime driven by LanguageCodeWriter.write_batches     *)
(* (journal/runtime.py, writer/language_writer.py), and the receipts that  *)
(* journal/guard.py adds to every mutation.                                *)
(*                                                                         *)
(* A worker claims a batch in one transaction of the store, talks to the   *)
(* graph outside of any transaction, and reports in another one.  Between  *)
(* two of these steps its lease may expire, another worker may take the    *)
(* batch over, its run may be quarantined, or the process may die.  A      *)
(* mutation has a life of its own once it is sent: it may land after its   *)
(* sender gave up or died, or never.                                       *)
(*                                                                         *)
(* A worker holds one claim at a time, so the token it draws is named      *)
(* after it.  Every claim for execution increments the batch's attempt,    *)
(* so <<batch, attempt>> names one submitted mutation.                     *)
(***************************************************************************)
EXTENDS JournalStore

CONSTANTS
    Analyzers,   \* workers that claim their own batches; the others consume
    NoJob, NoRun,
    ShortJobs,   \* batches whose mutation touches fewer rows than expected
    Follows,     \* batch -> batches its analyzer awaits before emitting it
    Clears,      \* batch -> batches whose rows it deletes (a file cleanup)
    MaxFaults    \* bound on process deaths and leases lost under a live holder

Workers == Tokens

ASSUME WorkerConstants ==
    /\ Analyzers \subseteq Workers
    /\ NoJob \notin Jobs
    /\ NoRun \notin Runs
    /\ ShortJobs \subseteq Jobs
    /\ Follows \in [Jobs -> SUBSET Jobs]
    /\ Clears \in [Jobs -> SUBSET Jobs]
    /\ MaxFaults \in Nat

VARIABLES
    pc,        \* worker -> where it is
    serves,    \* worker -> the run it works on
    ticket,    \* worker -> the batch it claimed
    nth,       \* worker -> the attempt it claimed it for
    inflight,  \* <<batch, attempt>>: mutations sent and not yet settled
    receipts,  \* batches with a receipt of the expected row count
    rows,      \* batches whose rows are in the graph
    faults     \* process deaths, and leases lost under a live holder, so far

workerVars == <<pc, serves, ticket, nth>>
graphVars == <<inflight, receipts, rows>>
vars == <<storeVars, workerVars, graphVars, faults>>

Places == {"down", "loop", "polled", "reading", "found", "missing", "claimed",
           "sent", "answered"}

-----------------------------------------------------------------------------
(* Moves of a worker.                                                       *)

Goto(w, place) ==
    /\ pc' = [pc EXCEPT ![w] = place]
    /\ UNCHANGED <<serves, ticket, nth>>

Take(w, j, place) ==
    /\ pc' = [pc EXCEPT ![w] = place]
    /\ ticket' = [ticket EXCEPT ![w] = j]
    /\ nth' = [nth EXCEPT ![w] = attempt'[j]]
    /\ UNCHANGED serves

\* The ticket is settled and the worker looks for more work.
NextTicket(w) ==
    /\ pc' = [pc EXCEPT ![w] = "loop"]
    /\ ticket' = [ticket EXCEPT ![w] = NoJob]
    /\ UNCHANGED <<serves, nth>>

\* An exception, the end of the work, or the death of the process.
Exit(w) ==
    /\ pc' = [pc EXCEPT ![w] = "down"]
    /\ ticket' = [ticket EXCEPT ![w] = NoJob]
    /\ serves' = [serves EXCEPT ![w] = NoRun]
    /\ UNCHANGED nth

-----------------------------------------------------------------------------
(* Production, as in the store, and the clock.                              *)

\* write_batches awaits one batch before it prepares the next.
Emit(j) ==
    /\ \A k \in Follows[j] : status[k] = "done"
    /\ EnqueueBatch(j) \/ EnqueueRejected(j)

Produce ==
    /\ \/ \E r \in Runs : OpenRun(r) \/ CompleteProducers(r)
                            \/ SealEndpointAudit(r) \/ CloseRunProduction(r)
       \/ \E j \in Jobs : Emit(j)
       \/ \E b \in Barriers : OpenBarrier(b) \/ CloseBarrier(b)
       \/ QuarantineLegacyTargets
    /\ UNCHANGED <<workerVars, graphVars, faults>>

\* An analyzer renews its lease while a graph call runs, and the consumer counts
\* on a lease that outlasts the call.  That it runs out under its holder is a
\* fault; a lease nobody holds any more just runs out.
Held(j) == \E w \in Workers : ticket[w] = j /\ token[j] = w

LeaseRunsOut(j) ==
    /\ LeaseExpires(j)
    /\ Held(j) => faults < MaxFaults
    /\ faults' = IF Held(j) THEN faults + 1 ELSE faults
    /\ UNCHANGED <<workerVars, graphVars>>

RetryFallsDue(j) ==
    /\ BackoffElapses(j)
    /\ UNCHANGED <<workerVars, graphVars, faults>>

-----------------------------------------------------------------------------
(* Start, claim, stop.                                                      *)

\* Mutants of Start: interrupted leases go back to the queue without readback;
\* draining runs are not resumed.
StartRequeues(w, r) ==
    /\ pc[w] = "down"
    /\ runStatus[r] # Absent
    /\ status' = [j \in Jobs |-> IF j \in JobsOf(r) /\ status[j] = "leased"
                                 THEN "pending" ELSE status[j]]
    /\ pc' = [pc EXCEPT ![w] = "loop"]
    /\ serves' = [serves EXCEPT ![w] = r]
    /\ UNCHANGED <<runVars, leaseVars, manifest, barrierVars>>
    /\ UNCHANGED <<ticket, nth, graphVars, faults>>
StartOnOpenRuns(w, r) ==
    /\ pc[w] = "down"
    /\ runStatus[r] = "open"
    /\ RecoverRunLeasesAsAmbiguous(r)
    /\ pc' = [pc EXCEPT ![w] = "loop"]
    /\ serves' = [serves EXCEPT ![w] = r]
    /\ UNCHANGED <<ticket, nth, graphVars, faults>>

\* Both constructors take over every lease of the run, live or not.
Start(w, r) ==
    /\ pc[w] = "down"
    /\ runStatus[r] # Absent
    /\ RecoverRunLeasesAsAmbiguous(r)
    /\ pc' = [pc EXCEPT ![w] = "loop"]
    /\ serves' = [serves EXCEPT ![w] = r]
    /\ UNCHANGED <<ticket, nth, graphVars, faults>>

\* claim_reconciling hands out the first ambiguous batch of the run, claim_batch
\* the first executable one.  An analyzer claims the very batch it prepared
\* (claim_reconciling_job, claim_job).
ClaimForReadback(w, j) ==
    /\ pc[w] = "loop"
    /\ RunOf[j] = serves[w]
    /\ w \notin Analyzers =>
          \A k \in JobsOf(serves[w]) : Reconcilable(k) => Sequence[j] <= Sequence[k]
    /\ ClaimReconcilingJob(j, w)
    /\ Take(w, j, "reading")
    /\ UNCHANGED <<graphVars, faults>>

ClaimForExecution(w, j) ==
    /\ pc[w] = IF w \in Analyzers THEN "loop" ELSE "polled"
    /\ RunOf[j] = serves[w]
    /\ w \notin Analyzers =>
          \A k \in JobsOf(serves[w]) : Executable(k) => Sequence[j] <= Sequence[k]
    /\ ClaimJob(j, w)
    /\ Take(w, j, "claimed")
    /\ UNCHANGED <<graphVars, faults>>

\* A claim that comes back empty has still recovered every expired lease.
EmptyClaim == RecoverExpiredLeases \/ (Expired = {} /\ UNCHANGED storeVars)

\* drain asks for ambiguous work first, for executable work second.
NothingAmbiguous(w) ==
    /\ pc[w] = "loop"
    /\ w \notin Analyzers
    /\ \A j \in JobsOf(serves[w]) : ~Reconcilable(j)
    /\ EmptyClaim
    /\ Goto(w, "polled")
    /\ UNCHANGED <<graphVars, faults>>

\* drain returns.  An analyzer stops when it has nothing left to write or
\* cannot claim the batch it needs.
Finish(w) ==
    /\ IF w \in Analyzers THEN pc[w] = "loop"
       ELSE pc[w] = "polled" /\ \A j \in JobsOf(serves[w]) : ~Executable(j)
    /\ EmptyClaim
    /\ Exit(w)
    /\ UNCHANGED <<graphVars, faults>>

Crash(w) ==
    /\ pc[w] # "down"
    /\ faults < MaxFaults
    /\ faults' = faults + 1
    /\ Exit(w)
    /\ UNCHANGED <<storeVars, graphVars>>

-----------------------------------------------------------------------------
(* Reconciling a batch whose outcome is unknown (_reconcile_one,            *)
(* resolve_reconciliation, defer_reconciliation_error).                     *)

Readback(w) ==
    /\ pc[w] = "reading"
    /\ Goto(w, IF ticket[w] \in receipts THEN "found" ELSE "missing")
    /\ UNCHANGED <<storeVars, graphVars, faults>>

ReadbackFails(w) ==
    /\ pc[w] = "reading"
    /\ ScheduleReconciliationRetry(ticket[w], w)
    /\ Exit(w)
    /\ UNCHANGED <<graphVars, faults>>

AckFound(w) ==
    /\ pc[w] = "found"
    /\ AckBatch(ticket[w], w)
    /\ NextTicket(w)
    /\ UNCHANGED <<graphVars, faults>>

RetryMissing(w) ==
    /\ pc[w] = "missing"
    /\ ScheduleRetry(ticket[w], w, TRUE)
    /\ NextTicket(w)
    /\ UNCHANGED <<graphVars, faults>>

\* The artifact or the descriptor does not load, or the readback answers with
\* a permanent error or more than one receipt.
BlockUnreadable(w) ==
    /\ pc[w] = "reading" \/ (pc[w] = "claimed" /\ w \notin Analyzers)
    /\ BlockBatch(ticket[w], w)
    /\ Exit(w)
    /\ UNCHANGED <<graphVars, faults>>

-----------------------------------------------------------------------------
(* Executing a batch (_execute_one, write_batches).  Nothing looks at the   *)
(* lease between the claim and the submission.                              *)

Submit(w) ==
    /\ pc[w] = "claimed"
    /\ inflight' = inflight \cup {<<ticket[w], nth[w]>>}
    /\ Goto(w, "sent")
    /\ UNCHANGED <<storeVars, receipts, rows, faults>>

\* The graph commits the rows and the receipt of a mutation in one
\* transaction; the sender, if it still waits, learns the count.
Land(j, n) ==
    /\ <<j, n>> \in inflight
    /\ inflight' = inflight \ {<<j, n>>}
    /\ receipts' = IF j \in ShortJobs THEN receipts ELSE receipts \cup {j}
    /\ rows' = (rows \ Clears[j]) \cup {j}
    /\ pc' = [w \in Workers |-> IF pc[w] = "sent" /\ ticket[w] = j /\ nth[w] = n
                                THEN "answered" ELSE pc[w]]
    /\ UNCHANGED <<storeVars, serves, ticket, nth, faults>>

Lose(j, n) ==
    /\ <<j, n>> \in inflight
    /\ inflight' = inflight \ {<<j, n>>}
    /\ UNCHANGED <<storeVars, workerVars, receipts, rows, faults>>

\* Mutant of AckExecuted: the row count is not compared.
AckUncounted(w) ==
    /\ pc[w] = "answered"
    /\ AckBatch(ticket[w], w)
    /\ NextTicket(w)
    /\ UNCHANGED <<graphVars, faults>>

AckExecuted(w) ==
    /\ pc[w] = "answered"
    /\ ticket[w] \notin ShortJobs
    /\ AckBatch(ticket[w], w)
    /\ NextTicket(w)
    /\ UNCHANGED <<graphVars, faults>>

BlockShort(w) ==
    /\ pc[w] = "answered"
    /\ ticket[w] \in ShortJobs
    /\ BlockBatch(ticket[w], w)
    /\ Exit(w)
    /\ UNCHANGED <<graphVars, faults>>

\* A timeout or an error before the answer: the outcome is unknown.
MarkAmbiguous(w) ==
    /\ pc[w] \in {"claimed", "sent", "answered"}
    /\ MarkReconciling(ticket[w], w)
    /\ Exit(w)
    /\ UNCHANGED <<graphVars, faults>>

\* StaleFenceError: the batch is not the worker's any more.
LoseLease(w) ==
    /\ ticket[w] # NoJob
    /\ ~OwnedTransition(ticket[w], w)
    /\ Exit(w)
    /\ UNCHANGED <<storeVars, graphVars, faults>>

-----------------------------------------------------------------------------
SysInit ==
    /\ Init
    /\ pc = [w \in Workers |-> "down"]
    /\ serves = [w \in Workers |-> NoRun]
    /\ ticket = [w \in Workers |-> NoJob]
    /\ nth = [w \in Workers |-> 0]
    /\ inflight = {}
    /\ receipts = {}
    /\ rows = {}
    /\ faults = 0

Claim(w) ==
    \/ \E j \in Jobs : ClaimForReadback(w, j) \/ ClaimForExecution(w, j)
    \/ NothingAmbiguous(w)
    \/ Finish(w)

Report(w) ==
    \/ ReadbackFails(w)
    \/ AckFound(w)
    \/ RetryMissing(w)
    \/ BlockUnreadable(w)
    \/ AckExecuted(w)
    \/ BlockShort(w)
    \/ MarkAmbiguous(w)
    \/ LoseLease(w)

\* What a worker does of its own accord.
Work(w) ==
    \/ \E r \in Runs : Start(w, r)
    \/ Claim(w)
    \/ Readback(w)
    \/ Submit(w)
    \/ Report(w)

Clock == \E j \in Jobs : LeaseRunsOut(j) \/ RetryFallsDue(j)
Graph == \E m \in inflight : Land(m[1], m[2]) \/ Lose(m[1], m[2])

SysNext ==
    \/ Produce
    \/ Clock
    \/ Graph
    \/ \E w \in Workers : Work(w) \/ Crash(w)

SysSpec == SysInit /\ [][SysNext]_vars

\* A worker that can move does, and starts again after it stopped (the next
\* sync runs the journal's consumer first); leases and backoffs run out; the
\* graph settles what it was sent.  Nobody has to produce.
FairSpec ==
    /\ SysSpec
    /\ \A w \in Workers : WF_vars(Work(w))
    /\ \A j \in Jobs : WF_vars(LeaseRunsOut(j)) /\ WF_vars(RetryFallsDue(j))
    /\ WF_vars(Graph)

-----------------------------------------------------------------------------
(* Properties.                                                              *)

\* The program counters, claims and graph contents have their types.
SysTypeOK ==
    /\ pc \in [Workers -> Places]
    /\ serves \in [Workers -> Runs \cup {NoRun}]
    /\ ticket \in [Workers -> Jobs \cup {NoJob}]
    /\ nth \in [Workers -> Nat]
    /\ inflight \subseteq Jobs \X Nat
    /\ receipts \subseteq Jobs
    /\ rows \subseteq Jobs
    /\ faults \in Nat

\* ACK only on graph evidence (phase-04e: "SQLite ACK occurs only after a graph
\* receipt or exact readback proves the mutation"): whoever acknowledges a
\* batch, after whatever crashes and takeovers, its mutation has landed.
AcknowledgedIsApplied == \A j \in Jobs : status[j] = "done" => j \in receipts

\* Node-first in the graph itself, not just in the journal: when a mutation is
\* sent or has landed, everything its barriers wait for has landed before,
\* although mutations of dead and overtaken workers land at any time.
EdgesLandAfterNodes ==
    \A j \in rows \cup {m[1] : m \in inflight} :
        \A b \in Requires[j] : Awaited(b) \subseteq receipts

\* Every executable batch is eventually settled, or its run is given up, if
\* only finitely many workers die or are held up.
WorkSettles ==
    \A j \in Jobs :
        /\ status[j] \in {"pending", "leased", "reconciling", "retry_wait"}
        /\ \A b \in Requires[j] : barrier[b] = "drained"
        ~> \/ status[j] \in {"done", "blocked", "dead_letter"}
           \/ ~Active(RunOf[j])

\* A run whose production is closed, and whose barriers are all closed, gets
\* out of "draining" (finalize_journal_from_env waits for that).
DrainingRunsFinish ==
    \A r \in Runs :
        /\ runStatus[r] = "draining"
        /\ \A b \in BarriersOf(r) : barrier[b] \in {"produced", "drained"}
        ~> ~Active(r)

-----------------------------------------------------------------------------
(* What the safety properties rest on, step by step.                        *)

\* A worker that is past a claim knows which batch it claimed.
Busy == {"reading", "found", "missing", "claimed", "sent", "answered"}
HoldsTicket == \A w \in Workers : pc[w] \in Busy => ticket[w] \in Jobs

\* A worker acknowledges on evidence: it has seen the receipt, or the answer.
HasEvidence ==
    \A w \in Workers :
        /\ pc[w] = "found" => ticket[w] \in receipts
        /\ pc[w] = "answered" => ticket[w] \in receipts \cup ShortJobs

\* Whatever is about to be sent, under way or in the graph was claimed.
ClaimedFirst ==
    /\ \A w \in Workers : pc[w] \in {"claimed", "sent", "answered"} => attempt[ticket[w]] > 0
    /\ \A m \in inflight : attempt[m[1]] > 0
    /\ \A j \in rows : attempt[j] > 0

\* The inductive invariant of the workers, over that of the store.
WorkerInv ==
    /\ SysTypeOK
    /\ HoldsTicket
    /\ HasEvidence
    /\ ClaimedFirst
    /\ AcknowledgedIsApplied

=============================================================================
