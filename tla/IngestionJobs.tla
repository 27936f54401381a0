---------------------------- MODULE IngestionJobs ----------------------------
(***************************************************************************)
(* The ingestion jobs of cortex_harness/storage/gateway.py: submission,    *)
(* transitions and cancellation change a table in memory under _job_lock;  *)
(* each call then persists the whole table before it returns.  A restart   *)
(* rebuilds the table from the file and the active manifest.               *)
(*                                                                         *)
(* A job is named by its idempotency key, which is bound to one job for    *)
(* good, and its generation by the job.  The driver that carries a job out *)
(* is not part of the repository: it begins a store operation only after   *)
(* the call that announces it has returned.                                *)
(***************************************************************************)
EXTENDS Naturals, FiniteSets

CONSTANTS
    Keys,
    Callers,          \* concurrent calls of the job API
    Absent,
    MaxQueueItems     \* limits.write.max_queue_items

Terminal == {"COMPLETED", "FAILED", "CANCELLED", "AMBIGUOUS", "SUPERSEDED"}
Live == {"QUEUED", "PREPARING", "WRITING", "VALIDATING", "PUBLISHING"}
States == Live \union Terminal

ASSUME JobConstants ==
    MaxQueueItems \in Nat \ {0} /\ Absent \notin States \union Keys

VARIABLES
    jobs,        \* _jobs
    file,        \* ingestion-jobs.json
    accepting,   \* _accepting_jobs
    executors,   \* the executors exist
    caller,      \* what each call is doing
    active,      \* the job whose generation the active manifest names
    allowed,     \* the state whose announcement the job's driver has seen return
    acked,       \* the jobs whose own submit_ingest has returned
    wrote, published   \* the jobs whose store operation, publication has begun

tableVars == <<jobs, file>>
ownerVars == <<accepting, executors>>
driverVars == <<active, allowed, acked, wrote, published>>
jobVars == <<tableVars, ownerVars, caller, driverVars>>

\* _JOB_TRANSITIONS
Transitions ==
    [QUEUED |-> {"PREPARING", "WRITING", "CANCELLED", "FAILED", "SUPERSEDED"},
     PREPARING |-> {"WRITING", "CANCELLED", "FAILED", "SUPERSEDED"},
     WRITING |-> {"VALIDATING", "CANCELLED", "FAILED", "AMBIGUOUS"},
     VALIDATING |-> {"PUBLISHING", "CANCELLED", "FAILED", "AMBIGUOUS"},
     PUBLISHING |-> {"COMPLETED", "FAILED", "AMBIGUOUS"}]

NoCall == [at |-> "idle", does |-> Absent, key |-> Absent, snap |-> Absent]
CallerAt(c, stage) == caller[c].at = stage
Return(c) == caller' = [caller EXCEPT ![c] = NoCall]
\* The table is changed; what is left of the call is to persist it.
Mutate(c, what, k, s) ==
    /\ CallerAt(c, "idle") /\ accepting
    /\ jobs' = [jobs EXCEPT ![k] = s]
    /\ caller' = [caller EXCEPT ![c] =
                    [at |-> "mutated", does |-> what, key |-> k, snap |-> Absent]]
    /\ allowed' = IF what = "update" THEN [allowed EXCEPT ![k] = Absent] ELSE allowed
    /\ UNCHANGED <<file, ownerVars, active, acked, wrote, published>>

JobInit ==
    /\ jobs = [k \in Keys |-> Absent] /\ file = jobs
    /\ accepting = TRUE /\ executors = TRUE
    /\ caller = [c \in Callers |-> NoCall]
    /\ active = Absent
    /\ allowed = [k \in Keys |-> Absent]
    /\ acked = {} /\ wrote = {} /\ published = {}

-----------------------------------------------------------------------------
(* The calls                                                                *)

LiveJobs == {k \in Keys : jobs[k] \in Live}

\* With a key that is known the job is returned as it is, and nothing changes.
SubmitIngest(c, k) ==
    /\ jobs[k] = Absent
    /\ Cardinality(LiveJobs) < MaxQueueItems
    /\ Mutate(c, "submit", k, "QUEUED")

\* One driver per job, which announces what it is about to do and reports
\* what it has done.
UpdateJob(c, k, s) ==
    /\ jobs[k] # Absent
    /\ s = jobs[k] \/ (jobs[k] \in Live /\ s \in Transitions[jobs[k]])
    /\ \A d \in Callers : caller[d].does = "update" => caller[d].key # k
    /\ s = "VALIDATING" => k \in wrote
    /\ s = "COMPLETED" => k \in published
    /\ Mutate(c, "update", k, s)

\* Mutant of CancelIngest: a job that is being written is cancelled too.
CancelIngestWriting(c, k) ==
    /\ jobs[k] \in Live
    /\ Mutate(c, "cancel", k,
              IF jobs[k] \in {"QUEUED", "PREPARING", "WRITING"}
              THEN "CANCELLED" ELSE jobs[k])

CancelIngest(c, k) ==
    /\ jobs[k] \in Live
    /\ Mutate(c, "cancel", k,
              IF jobs[k] \in {"QUEUED", "PREPARING"} THEN "CANCELLED" ELSE jobs[k])

-----------------------------------------------------------------------------
(* _persist_jobs: the table is copied under the persist lock, which is held *)
(* until the file has been replaced.                                        *)

PersistLocked == \E c \in Callers : CallerAt(c, "persisting")

\* Mutants of PersistBegin: the table is copied before the lock is taken; a call
\* that finds somebody persisting leaves it to them.
PersistBeginUnlocked(c) ==
    /\ CallerAt(c, "mutated") /\ executors
    /\ caller' = [caller EXCEPT ![c].at = "persisting", ![c].snap = jobs]
    /\ UNCHANGED <<tableVars, ownerVars, driverVars>>
PersistBeginCoalesced(c) ==
    /\ CallerAt(c, "mutated") /\ executors
    /\ IF PersistLocked
       THEN Return(c) /\ acked' = acked \union {caller[c].key}
       ELSE /\ caller' = [caller EXCEPT ![c].at = "persisting", ![c].snap = jobs]
            /\ UNCHANGED acked
    /\ UNCHANGED <<tableVars, ownerVars, active, allowed, wrote, published>>

PersistBegin(c) ==
    /\ CallerAt(c, "mutated") /\ executors /\ ~PersistLocked
    /\ caller' = [caller EXCEPT ![c].at = "persisting", ![c].snap = jobs]
    /\ UNCHANGED <<tableVars, ownerVars, driverVars>>

\* The file is replaced and the call returns.
PersistEnd(c) ==
    LET k == caller[c].key
    IN  /\ CallerAt(c, "persisting")
        /\ file' = caller[c].snap
        /\ acked' = IF caller[c].does = "submit" THEN acked \union {k} ELSE acked
        /\ allowed' = IF caller[c].does = "update"
                      THEN [allowed EXCEPT ![k] = caller[c].snap[k]] ELSE allowed
        /\ Return(c)
        /\ UNCHANGED <<jobs, ownerVars, active, wrote, published>>

\* The control lane is full or gone, the call is cancelled, or the file cannot
\* be written; the error may also come after the replacement, from the fsync of
\* the directory.
PersistRaises(c) ==
    /\ \/ CallerAt(c, "mutated") /\ UNCHANGED file
       \/ CallerAt(c, "persisting") /\ file' \in {file, caller[c].snap}
    /\ Return(c)
    /\ UNCHANGED <<jobs, ownerVars, driverVars>>

-----------------------------------------------------------------------------
(* The driver                                                               *)

WriteStores(k) ==
    /\ accepting /\ allowed[k] = "WRITING"
    /\ wrote' = wrote \union {k}
    /\ UNCHANGED <<tableVars, ownerVars, caller, active, allowed, acked, published>>

\* A publication that was admitted lands before the lanes are idle.
Publish(k) ==
    /\ executors /\ allowed[k] = "PUBLISHING" /\ k \notin published
    /\ active' = k
    /\ published' = published \union {k}
    /\ UNCHANGED <<tableVars, ownerVars, caller, allowed, acked, wrote>>

-----------------------------------------------------------------------------
(* The owner                                                                *)

BeginDrain ==
    /\ accepting
    /\ accepting' = FALSE
    /\ UNCHANGED <<tableVars, executors, caller, driverVars>>

\* close persists the table a last time; a failure does not stop it.
Close ==
    /\ ~accepting /\ executors /\ ~PersistLocked
    /\ \/ file' = jobs
       \/ UNCHANGED file
    /\ executors' = FALSE
    /\ UNCHANGED <<jobs, accepting, caller, driverVars>>

\* Mutant of Recovered: an interrupted write is tried again.
RecoveredRequeued(k) ==
    IF file[k] \in {"PREPARING", "WRITING"} THEN "QUEUED" ELSE file[k]

Recovered(k) ==
    CASE file[k] = "PREPARING" -> "QUEUED"
      [] file[k] = "PUBLISHING" -> IF active = k THEN "COMPLETED" ELSE "AMBIGUOUS"
      [] file[k] \in {"WRITING", "VALIDATING"} -> "AMBIGUOUS"
      [] OTHER -> file[k]

\* The owner is killed, or has stopped, and a new one loads the jobs.
RestartOwner ==
    /\ jobs' = [k \in Keys |-> Recovered(k)]
    /\ file' = jobs'
    /\ accepting' = TRUE /\ executors' = TRUE
    /\ caller' = [c \in Callers |-> NoCall]
    /\ allowed' = [k \in Keys |-> Absent]
    /\ UNCHANGED <<active, acked, wrote, published>>

JobNext ==
    \/ \E c \in Callers : \/ \E k \in Keys : \/ SubmitIngest(c, k)
                                             \/ \E s \in States : UpdateJob(c, k, s)
                                             \/ CancelIngest(c, k)
                          \/ PersistBegin(c) \/ PersistEnd(c)
                          \/ PersistRaises(c)
    \/ \E k \in Keys : WriteStores(k) \/ Publish(k)
    \/ BeginDrain \/ Close \/ RestartOwner

JobSpec == JobInit /\ [][JobNext]_jobVars

-----------------------------------------------------------------------------
(* Properties                                                               *)

Tables == [Keys -> States \union {Absent}]
Operations == {"submit", "update", "cancel"}

\* The table, the file, the calls and the driver's state have their types.
JobTypeOK ==
    /\ {jobs, file} \subseteq Tables
    /\ {accepting, executors} \subseteq BOOLEAN
    /\ caller \in [Callers -> {NoCall}
                       \union [at : {"mutated"}, does : Operations, key : Keys, snap : {Absent}]
                       \union [at : {"persisting"}, does : Operations, key : Keys,
                               snap : Tables]]
    /\ active \in Keys \union {Absent}
    /\ allowed \in Tables
    /\ acked \subseteq Keys /\ wrote \subseteq Keys /\ published \subseteq Keys

\* What the table says of a job agrees with what was done in the stores, also
\* after _load_jobs has reconciled it, wherever the owner was killed between
\* memory, file and store: a job that is queued has no store operation behind it,
\* and one that is completed has been published.  (The types are checked along.)
TableIsTrue ==
    /\ JobTypeOK
    /\ \A k \in Keys :
          /\ jobs[k] \in {"QUEUED", "PREPARING"} => k \notin wrote
          /\ "COMPLETED" \in {jobs[k], file[k]} => k \in published

\* A terminal state in the file is final: no late snapshot of another call
\* overwrites it with an earlier state of the table.
TerminalIsFinal ==
    [][\A k \in Keys : file[k] \in Terminal => file'[k] = file[k]]_jobVars

\* No store operation begins for a job that cancel_ingest, or a restart, has
\* ended: "synchronous store calls are not falsely reported as cancelled".
EndedNeverWrites ==
    [][\A k \in wrote' \ wrote : jobs[k] \notin Terminal]_jobVars

\* submit_ingest persists before it returns a new job: a restart finds every job
\* it has returned so.
AckedIsKept == \A k \in acked : jobs[k] # Absent
=============================================================================
