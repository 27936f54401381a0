------------------------------ MODULE Retention ------------------------------
(***************************************************************************)
(* The payload files of the journal and what removes them: create_artifact *)
(* and enqueue_batch against purge_run and cleanup_orphan_artifacts        *)
(* (sqlite_store.py, artifacts.py).                                        *)
(*                                                                         *)
(* A file is written before the row that refers to it, and removed before  *)
(* the row is deleted.  Whoever opens the journal verifies every file that *)
(* a row refers to, and is refused if one is missing.  A sync and the      *)
(* maintenance commands hold the project lock while they run.              *)
(***************************************************************************)
EXTENDS Naturals, FiniteSets

CONSTANTS
    Runs, Payloads,   \* a file is named by its run and the hash of its payload
    Analyzers,        \* analyzer processes
    Nil

ASSUME RetentionConstants ==
    Nil \notin Analyzers \union {"keeper"} /\ "keeper" \notin Analyzers

VARIABLES
    run,              \* the state of a run's row
    purging,          \* the runs with a run_purge_started event
    fenced,           \* the runs with a batch that carries a fencing token
    row, stored,      \* the table artifacts; the artifact files
    aged,             \* the files older than the cutoff
    analyzer,         \* what each analyzer is about to enqueue, and verified
    keeper,           \* the maintenance command
    lock              \* holder of the project lock

retentionVars == <<run, purging, fenced, row, stored, aged, analyzer, keeper, lock>>

Artifacts == Runs \X Payloads
Of(r) == {x \in Artifacts : x[1] = r}

\* open includes draining; failed is blocked, dead_lettered, quarantined or failed.
Ended == {"drained", "failed"}

Away == [at |-> "away", x |-> Nil]
NoKeeper == [at |-> "away", todo |-> {}, r |-> Nil]

RetentionInit ==
    /\ run = [r \in Runs |-> "none"]
    /\ purging = {} /\ fenced = {} /\ row = {} /\ stored = {} /\ aged = {}
    /\ analyzer = [a \in Analyzers |-> Away]
    /\ keeper = NoKeeper
    /\ lock = Nil

-----------------------------------------------------------------------------
(* Opening the journal                                                      *)

\* verify_referenced_artifacts, which overlooks the runs being purged.
Verified == \A x \in row : x[1] \notin purging => x \in stored

-----------------------------------------------------------------------------
(* An analyzer                                                              *)

\* A sync takes the lock and starts an analyzer, which opens the journal and a
\* run.
StartAnalyzer(a, r) ==
    /\ analyzer[a] = Away /\ lock = Nil /\ Verified
    /\ lock' = a
    /\ analyzer' = [analyzer EXCEPT ![a] = [at |-> "running", x |-> Nil]]
    /\ run' = [run EXCEPT ![r] = IF @ = "none" THEN "open" ELSE @]
    /\ UNCHANGED <<purging, fenced, row, stored, aged, keeper>>

\* write_jsonl keeps a file that is already there, and its age.
CreateArtifact(a, x) ==
    /\ analyzer[a].at = "running" /\ run[x[1]] \in {"open", "drained"}
    /\ stored' = stored \union {x}
    /\ analyzer' = [analyzer EXCEPT ![a] = [at |-> "created", x |-> x]]
    /\ UNCHANGED <<run, purging, fenced, row, aged, keeper, lock>>

\* enqueue_batch verifies the file, then opens its transaction.
VerifyArtifact(a) ==
    /\ analyzer[a].at = "created"
    /\ analyzer' = [analyzer EXCEPT ![a].at =
                      IF analyzer[a].x \in stored THEN "verified" ELSE "running"]
    /\ UNCHANGED <<run, purging, fenced, row, stored, aged, keeper, lock>>

EnqueueBatch(a) ==
    /\ analyzer[a].at = "verified"
    /\ row' = IF run[analyzer[a].x[1]] = "open" THEN row \union {analyzer[a].x} ELSE row
    /\ analyzer' = [analyzer EXCEPT ![a] = [at |-> "running", x |-> Nil]]
    /\ UNCHANGED <<run, purging, fenced, stored, aged, keeper, lock>>

\* The analyzer ends or dies, and its sync with it.
StopAnalyzer(a) ==
    /\ analyzer[a] # Away
    /\ analyzer' = [analyzer EXCEPT ![a] = Away]
    /\ lock' = IF lock = a THEN Nil ELSE lock
    /\ UNCHANGED <<run, purging, fenced, row, stored, aged, keeper>>

\* A claim fences a batch of an open run; a report or the expiry clears it.
ClaimBatch(a, r) ==
    /\ analyzer[a].at = "running" /\ run[r] = "open" /\ row \intersect Of(r) # {}
    /\ fenced' = fenced \union {r}
    /\ UNCHANGED <<run, purging, row, stored, aged, analyzer, keeper, lock>>

LeaseEnds(r) ==
    /\ r \in fenced
    /\ fenced' = fenced \ {r}
    /\ UNCHANGED <<run, purging, row, stored, aged, analyzer, keeper, lock>>

\* A run drains, or fails with leases outstanding: see JournalStore.
EndRun(r, s) ==
    /\ run[r] = "open"
    /\ s = "drained" => r \notin fenced
    /\ run' = [run EXCEPT ![r] = s]
    /\ UNCHANGED <<purging, fenced, row, stored, aged, analyzer, keeper, lock>>

FileAges(x) ==
    /\ x \in stored \ aged
    /\ aged' = aged \union {x}
    /\ UNCHANGED <<run, purging, fenced, row, stored, analyzer, keeper, lock>>

-----------------------------------------------------------------------------
(* Maintenance                                                              *)

Remove(x) ==
    /\ x \in keeper.todo
    /\ stored' = stored \ {x} /\ aged' = aged \ {x}
    /\ keeper' = [keeper EXCEPT !.todo = @ \ {x}]
    /\ UNCHANGED <<run, purging, fenced, row, analyzer, lock>>

\* Mutant of PurgeRun: the event is left to the last transaction.
PurgeRunUnmarked(r) ==
    /\ keeper.at = "away" /\ lock = Nil /\ Verified
    /\ run[r] \in Ended /\ r \notin fenced
    /\ lock' = "keeper"
    /\ keeper' = [at |-> "purging", todo |-> row \intersect Of(r), r |-> r]
    /\ UNCHANGED <<run, purging, fenced, row, stored, aged, analyzer>>

\* Mutant of PurgeRun: the fenced batches are not counted.
PurgeRunFenced(r) ==
    /\ keeper.at = "away" /\ lock = Nil /\ Verified
    /\ run[r] \in Ended
    /\ lock' = "keeper"
    /\ purging' = purging \union {r}
    /\ keeper' = [at |-> "purging", todo |-> row \intersect Of(r), r |-> r]
    /\ UNCHANGED <<run, fenced, row, stored, aged, analyzer>>

\* `dev journal purge`, once the retention time is over: the first transaction
\* adds the event.
PurgeRun(r) ==
    /\ keeper.at = "away" /\ lock = Nil /\ Verified
    /\ run[r] \in Ended /\ r \notin fenced
    /\ lock' = "keeper"
    /\ purging' = purging \union {r}
    /\ keeper' = [at |-> "purging", todo |-> row \intersect Of(r), r |-> r]
    /\ UNCHANGED <<run, fenced, row, stored, aged, analyzer>>

\* In the last, the run is deleted, and what refers to it by cascade.
PurgeRows ==
    /\ keeper.at = "purging" /\ keeper.todo = {}
    /\ run' = [run EXCEPT ![keeper.r] = "none"]
    /\ row' = row \ Of(keeper.r)
    /\ purging' = purging \ {keeper.r}
    /\ keeper' = NoKeeper /\ lock' = Nil
    /\ UNCHANGED <<fenced, stored, aged, analyzer>>

\* The references are read, and then the aged files without one removed.
CleanupOrphans ==
    /\ keeper.at = "away" /\ lock = Nil /\ Verified
    /\ lock' = "keeper"
    /\ keeper' = [at |-> "cleaning", todo |-> aged \ row, r |-> Nil]
    /\ UNCHANGED <<run, purging, fenced, row, stored, aged, analyzer>>

\* The command is done, is killed, or fails to remove a file.
StopKeeper ==
    /\ keeper.at # "away"
    /\ keeper' = NoKeeper /\ lock' = Nil
    /\ UNCHANGED <<run, purging, fenced, row, stored, aged, analyzer>>

RetentionNext ==
    \/ \E a \in Analyzers :
          \/ \E r \in Runs : StartAnalyzer(a, r)
          \/ \E x \in Artifacts : CreateArtifact(a, x)
          \/ \E r \in Runs : ClaimBatch(a, r)
          \/ VerifyArtifact(a) \/ EnqueueBatch(a) \/ StopAnalyzer(a)
    \/ \E r \in Runs : LeaseEnds(r) \/ PurgeRun(r) \/ \E s \in Ended : EndRun(r, s)
    \/ \E x \in Artifacts : FileAges(x) \/ Remove(x)
    \/ PurgeRows \/ CleanupOrphans \/ StopKeeper

RetentionSpec == RetentionInit /\ [][RetentionNext]_retentionVars

-----------------------------------------------------------------------------
(* Properties                                                               *)

\* The tables, the files and the processes have their types.
RetentionTypeOK ==
    /\ run \in [Runs -> {"none", "open"} \union Ended]
    /\ purging \subseteq Runs /\ fenced \subseteq Runs
    /\ row \subseteq Artifacts /\ aged \subseteq stored /\ stored \subseteq Artifacts
    /\ analyzer \in [Analyzers -> {Away, [at |-> "running", x |-> Nil]}
                                   \union [at : {"created", "verified"}, x : Artifacts]]
    /\ keeper \in {NoKeeper} \union [at : {"purging"}, todo : SUBSET Artifacts, r : Runs]
                            \union [at : {"cleaning"}, todo : SUBSET Artifacts, r : {Nil}]
    /\ lock \in Analyzers \union {"keeper", Nil}

\* A purge or a cleanup, cut off wherever, never leaves a journal that the next
\* process is refused to open: a file that a row refers to is there, unless its
\* run is marked as being purged.  cleanup_orphan_artifacts read the references
\* before it started, and analyzers take up old files.  (The types are
\* checked along.)
JournalOpens == RetentionTypeOK /\ Verified

\* The purge marker, which makes the journal overlook missing payloads, is only
\* ever on a run that cannot execute again: it has ended and none of its batches
\* is leased.  This holds after a cut-off purge too, whatever syncs come after it.
OnlyEndedRunsArePurged == \A r \in purging : run[r] \in Ended /\ r \notin fenced
=============================================================================
