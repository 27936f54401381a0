-------------------------- MODULE StateFilesProofs --------------------------
(***************************************************************************)
(* Proofs about three kinds of files that a process leaves to its          *)
(* successors: the artifacts of the journal, the owner's job file and the  *)
(* state of a sync.                                                        *)
(*                                                                         *)
(* Retention, for any runs, payloads and analyzers: what the journal       *)
(* refers to is on disk whatever the maintenance commands remove and       *)
(* wherever they are killed.                                               *)
(*                                                                         *)
(* IngestionJobs, for any number of jobs and calls.  A job has three       *)
(* records: in the file, in the copy a call is about to write, and in the  *)
(* table.  Each follows the one before it, and because copies are taken    *)
(* one at a time no write of the file turns it back.                       *)
(*                                                                         *)
(* SyncState, for any files and versions and any number of failed          *)
(* attempts.  While a sync runs, each file is still to be cleaned, or      *)
(* clean and still to be written, or as the inventory has it, or edited    *)
(* since and about to be noticed; and whatever the graph holds is a file   *)
(* of an inventory that the state file, or the running sync, remembers.    *)
(***************************************************************************)
EXTENDS Retention, IngestionJobs, SyncState, TLAPS

-----------------------------------------------------------------------------
(* The retention of the journal.                                            *)

\* The project lock keeps the analyzers and the maintenance commands apart.
OneAtATime ==
    /\ \A a \in Analyzers : analyzer[a].at # "away" => lock = a
    /\ keeper.at # "away" => lock = "keeper"

\* What an analyzer is about to enqueue is there.
InHandIsFiled ==
    \A a \in Analyzers :
       analyzer[a].at \in {"created", "verified"} => analyzer[a].x \in stored

\* What a command is about to remove belongs to a run marked as being purged, or
\* is not referred to.
RemovalIsCovered ==
    /\ keeper.at = "purging" =>
          keeper.r \in purging /\ keeper.todo \subseteq Of(keeper.r)
    /\ keeper.at = "cleaning" => keeper.todo \intersect row = {}

RetentionInv ==
    /\ RetentionTypeOK /\ Verified
    /\ OneAtATime /\ InHandIsFiled /\ RemovalIsCovered
    /\ OnlyEndedRunsArePurged

-----------------------------------------------------------------------------
\* The analyzers and the maintenance command are where their types say.
LEMMA ProcessTypes ==
    ASSUME RetentionTypeOK
    PROVE  /\ \A a \in Analyzers :
                 /\ analyzer[a].at \in {"away", "running", "created", "verified"}
                 /\ analyzer[a].at = "away" <=> analyzer[a] = Away
                 /\ analyzer[a].at \in {"created", "verified"} =>
                       analyzer[a].x \in Artifacts
           /\ keeper.at \in {"away", "purging", "cleaning"}
           /\ keeper.at = "away" <=> keeper = NoKeeper
           /\ keeper.at # "purging" \/ keeper.r \in Runs
           /\ keeper.todo \subseteq Artifacts
<1>1. ASSUME NEW a \in Analyzers
      PROVE  /\ analyzer[a].at \in {"away", "running", "created", "verified"}
             /\ analyzer[a].at = "away" <=> analyzer[a] = Away
             /\ analyzer[a].at \in {"created", "verified"} =>
                   analyzer[a].x \in Artifacts
  BY DEF RetentionTypeOK, Away
<1>2. /\ keeper.at \in {"away", "purging", "cleaning"}
      /\ keeper.at = "away" <=> keeper = NoKeeper
      /\ keeper.at # "purging" \/ keeper.r \in Runs
      /\ keeper.todo \subseteq Artifacts
  BY DEF RetentionTypeOK, NoKeeper
<1> QED
  BY <1>1, <1>2

\* An empty journal is well kept.
LEMMA InitRetentionInv == RetentionInit => RetentionInv
BY DEF RetentionInit, RetentionInv, RetentionTypeOK, Verified, OneAtATime, InHandIsFiled,
   RemovalIsCovered, OnlyEndedRunsArePurged, Away, NoKeeper

\* An analyzer works under the lock, so no command is removing anything.
LEMMA AnalyzerPreserves ==
    ASSUME RetentionInv, NEW a \in Analyzers,
           \/ \E r \in Runs : StartAnalyzer(a, r)
           \/ \E x \in Artifacts : CreateArtifact(a, x)
           \/ VerifyArtifact(a) \/ EnqueueBatch(a) \/ StopAnalyzer(a)
    PROVE  RetentionInv'
<1>1. CASE \E r \in Runs : StartAnalyzer(a, r)
  <2>1. PICK r \in Runs : StartAnalyzer(a, r)
    BY <1>1
  <2>2. RetentionTypeOK'
    BY <2>1 DEF RetentionInv, RetentionTypeOK, StartAnalyzer, Ended
  <2>3. OneAtATime' /\ InHandIsFiled'
    BY <2>1, RetentionConstants
       DEF RetentionInv, RetentionTypeOK, OneAtATime, InHandIsFiled,
           StartAnalyzer
  <2>4. Verified' /\ RemovalIsCovered' /\ OnlyEndedRunsArePurged'
    BY <2>1
       DEF RetentionInv, RetentionTypeOK, Verified, RemovalIsCovered,
           OnlyEndedRunsArePurged, StartAnalyzer, Ended
  <2> QED
    BY <2>2, <2>3, <2>4 DEF RetentionInv
<1>2. CASE \E x \in Artifacts : CreateArtifact(a, x)
  <2>1. PICK x \in Artifacts : CreateArtifact(a, x)
    BY <1>2
  <2>2. RetentionTypeOK'
    BY <2>1 DEF RetentionInv, RetentionTypeOK, CreateArtifact
  <2>3. OneAtATime' /\ InHandIsFiled'
    BY <2>1 DEF RetentionInv, RetentionTypeOK, OneAtATime, InHandIsFiled, CreateArtifact
  <2>4. Verified' /\ RemovalIsCovered' /\ OnlyEndedRunsArePurged'
    BY <2>1
       DEF RetentionInv, Verified, RemovalIsCovered, OnlyEndedRunsArePurged,
           CreateArtifact
  <2> QED
    BY <2>2, <2>3, <2>4 DEF RetentionInv
<1>3. CASE VerifyArtifact(a)
  <2>1. analyzer' = [analyzer EXCEPT ![a] = [at |-> "verified", x |-> analyzer[a].x]]
        /\ analyzer[a].at = "created"
        /\ UNCHANGED <<run, purging, fenced, row, stored, aged, keeper, lock>>
    <3>1. analyzer[a].at = "created" /\ analyzer[a].x \in stored
      BY <1>3 DEF RetentionInv, InHandIsFiled, VerifyArtifact
    <3>2. analyzer[a] \in [at : {"created", "verified"}, x : Artifacts]
      BY <3>1, SMT, Z3 DEF RetentionInv, RetentionTypeOK, Away
    <3>3. [analyzer[a] EXCEPT !.at = "verified"] = [at |-> "verified", x |-> analyzer[a].x]
      BY <3>2
    <3> QED
      BY <1>3, <3>1, <3>3, Zenon DEF VerifyArtifact
  <2>2. RetentionTypeOK'
    BY <2>1, ProcessTypes DEF RetentionInv, RetentionTypeOK
  <2>3. OneAtATime' /\ InHandIsFiled'
    BY <2>1 DEF RetentionInv, RetentionTypeOK, OneAtATime, InHandIsFiled
  <2>4. Verified' /\ RemovalIsCovered' /\ OnlyEndedRunsArePurged'
    BY <2>1 DEF RetentionInv, Verified, RemovalIsCovered, OnlyEndedRunsArePurged
  <2> QED
    BY <2>2, <2>3, <2>4 DEF RetentionInv
<1>4. CASE EnqueueBatch(a)
  <2>1. /\ analyzer[a].x \in stored /\ analyzer[a].x \in Artifacts
        /\ keeper.at = "away"
    BY <1>4, ProcessTypes, RetentionConstants
       DEF RetentionInv, InHandIsFiled, OneAtATime,
           EnqueueBatch
  <2>2. RetentionTypeOK'
    BY <1>4, <2>1 DEF RetentionInv, RetentionTypeOK, EnqueueBatch
  <2>3. OneAtATime' /\ InHandIsFiled'
    BY <1>4 DEF RetentionInv, RetentionTypeOK, OneAtATime, InHandIsFiled, EnqueueBatch
  <2>4. Verified' /\ RemovalIsCovered' /\ OnlyEndedRunsArePurged'
    BY <1>4, <2>1
       DEF RetentionInv, Verified, RemovalIsCovered, OnlyEndedRunsArePurged,
           EnqueueBatch
  <2> QED
    BY <2>2, <2>3, <2>4 DEF RetentionInv
<1>5. CASE StopAnalyzer(a)
  <2>1. lock = a /\ lock' = Nil /\ analyzer' = [analyzer EXCEPT ![a] = Away]
    BY <1>5, ProcessTypes DEF RetentionInv, OneAtATime, StopAnalyzer
  <2>2. RetentionTypeOK'
    BY <1>5 DEF RetentionInv, RetentionTypeOK, StopAnalyzer
  <2>3. OneAtATime' /\ InHandIsFiled'
    BY <1>5, <2>1, RetentionConstants
       DEF RetentionInv, RetentionTypeOK, OneAtATime, InHandIsFiled,
           StopAnalyzer, Away
  <2>4. Verified' /\ RemovalIsCovered' /\ OnlyEndedRunsArePurged'
    BY <1>5
       DEF RetentionInv, Verified, RemovalIsCovered, OnlyEndedRunsArePurged,
           StopAnalyzer
  <2> QED
    BY <2>2, <2>3, <2>4 DEF RetentionInv
<1> QED
  BY <1>1, <1>2, <1>3, <1>4, <1>5

\* Leases, the end of runs and the age of files.
LEMMA RunPreserves ==
    ASSUME RetentionInv,
           \/ \E a \in Analyzers, r \in Runs : ClaimBatch(a, r)
           \/ \E r \in Runs : LeaseEnds(r) \/ \E s \in Ended : EndRun(r, s)
           \/ \E x \in Artifacts : FileAges(x)
           \/ UNCHANGED retentionVars
    PROVE  RetentionInv'
<1>1. UNCHANGED <<purging, row, stored, analyzer, keeper, lock>>
  BY DEF ClaimBatch, LeaseEnds, EndRun, FileAges, retentionVars
<1>2. RetentionTypeOK'
  BY <1>1
     DEF RetentionInv, RetentionTypeOK, ClaimBatch, LeaseEnds, EndRun,
         FileAges, retentionVars
<1>3. OneAtATime' /\ InHandIsFiled' /\ Verified' /\ RemovalIsCovered'
  BY <1>1 DEF RetentionInv, OneAtATime, InHandIsFiled, Verified, RemovalIsCovered
<1>4. OnlyEndedRunsArePurged'
  BY DEF RetentionInv, RetentionTypeOK, OnlyEndedRunsArePurged, ClaimBatch,
     LeaseEnds, EndRun, FileAges, Ended, retentionVars
<1> QED
  BY <1>2, <1>3, <1>4 DEF RetentionInv

\* A purge marks its run before it removes a file, and a cleanup removes what
\* nothing refers to while nobody can enqueue.
LEMMA KeeperPreserves ==
    ASSUME RetentionInv,
           \/ \E r \in Runs : PurgeRun(r)
           \/ \E x \in Artifacts : Remove(x)
           \/ PurgeRows \/ CleanupOrphans \/ StopKeeper
    PROVE  RetentionInv'
<1>1. \A a \in Analyzers : analyzer[a].at = "away"
  BY ProcessTypes, RetentionConstants
     DEF RetentionInv, OneAtATime, PurgeRun, Remove,
         PurgeRows, CleanupOrphans, StopKeeper, NoKeeper
<1>2. UNCHANGED <<fenced, analyzer>> /\ lock' \in {Nil, "keeper"}
  BY ProcessTypes
     DEF RetentionInv, OneAtATime, PurgeRun, Remove, PurgeRows,
         CleanupOrphans, StopKeeper, NoKeeper
<1>3. InHandIsFiled'
  BY <1>1, <1>2 DEF InHandIsFiled
<1>4. ASSUME NEW r \in Runs, PurgeRun(r) PROVE RetentionInv'
  <2>1. RetentionTypeOK' /\ OneAtATime'
    BY <1>1, <1>4 DEF RetentionInv, RetentionTypeOK, OneAtATime, PurgeRun
  <2>2. Verified' /\ RemovalIsCovered' /\ OnlyEndedRunsArePurged'
    BY <1>4
       DEF RetentionInv, Verified, RemovalIsCovered, OnlyEndedRunsArePurged,
           PurgeRun
  <2> QED
    BY <1>3, <2>1, <2>2 DEF RetentionInv
<1>5. ASSUME NEW x \in Artifacts, Remove(x) PROVE RetentionInv'
  <2>1. keeper.at \in {"purging", "cleaning"}
    BY <1>5, ProcessTypes DEF RetentionInv, Remove, NoKeeper
  <2>2. /\ keeper'.at = keeper.at /\ keeper'.r = keeper.r /\ keeper'.todo \subseteq keeper.todo
        /\ RetentionTypeOK'
    BY <1>5, <2>1 DEF RetentionInv, RetentionTypeOK, Remove, NoKeeper
  <2>3. OneAtATime'
    BY <1>5, <2>2 DEF RetentionInv, OneAtATime, Remove
  <2>4. Verified'
    BY <1>5, <2>1 DEF RetentionInv, Verified, RemovalIsCovered, Remove, Of
  <2>5. RemovalIsCovered' /\ OnlyEndedRunsArePurged'
    BY <1>5, <2>2
       DEF RetentionInv, RemovalIsCovered, OnlyEndedRunsArePurged, Remove
  <2> QED
    BY <1>3, <2>2, <2>3, <2>4, <2>5 DEF RetentionInv
<1>6. CASE PurgeRows
  <2>1. keeper.r \in Runs /\ keeper'.at = "away"
    BY <1>6, ProcessTypes DEF RetentionInv, PurgeRows, NoKeeper
  <2>2. RetentionTypeOK' /\ OneAtATime'
    BY <1>1, <1>6, <2>1 DEF RetentionInv, RetentionTypeOK, OneAtATime, PurgeRows
  <2>3. Verified' /\ RemovalIsCovered' /\ OnlyEndedRunsArePurged'
    BY <1>6, <2>1 DEF RetentionInv, RetentionTypeOK, Verified, RemovalIsCovered,
                      OnlyEndedRunsArePurged, PurgeRows, Of
  <2> QED
    BY <1>3, <2>2, <2>3 DEF RetentionInv
<1>7. CASE CleanupOrphans
  <2>1. RetentionTypeOK' /\ OneAtATime'
    BY <1>1, <1>7 DEF RetentionInv, RetentionTypeOK, OneAtATime, CleanupOrphans
  <2>2. Verified' /\ RemovalIsCovered' /\ OnlyEndedRunsArePurged'
    BY <1>7
       DEF RetentionInv, Verified, RemovalIsCovered, OnlyEndedRunsArePurged,
           CleanupOrphans
  <2> QED
    BY <1>3, <2>1, <2>2 DEF RetentionInv
<1>8. CASE StopKeeper
  <2>1. keeper'.at = "away"
    BY <1>8 DEF StopKeeper, NoKeeper
  <2>2. RetentionTypeOK' /\ OneAtATime'
    BY <1>1, <1>8, <2>1 DEF RetentionInv, RetentionTypeOK, OneAtATime, StopKeeper
  <2>3. Verified' /\ RemovalIsCovered' /\ OnlyEndedRunsArePurged'
    BY <1>8, <2>1
       DEF RetentionInv, Verified, RemovalIsCovered, OnlyEndedRunsArePurged,
           StopKeeper
  <2> QED
    BY <1>3, <2>2, <2>3 DEF RetentionInv
<1> QED
  BY <1>4, <1>5, <1>6, <1>7, <1>8

\* RetentionInv is inductive, however analyzers, leases and the commands of
\* retention.py interleave.
THEOREM RetentionInduction == RetentionSpec => []RetentionInv
<1>1. RetentionInv /\ [RetentionNext]_retentionVars => RetentionInv'
  BY AnalyzerPreserves, RunPreserves, KeeperPreserves DEF RetentionNext
<1> QED
  BY <1>1, InitRetentionInv, PTL DEF RetentionSpec

\* The journal opens: every artifact a stored batch refers to is there, unless
\* its run is marked as being purged.
THEOREM JournalAlwaysOpens == RetentionSpec => []JournalOpens
<1>1. RetentionInv => JournalOpens
  BY DEF RetentionInv, JournalOpens
<1> QED
  BY <1>1, RetentionInduction, PTL

\* purge_run takes rows and files of runs that have ended only.
THEOREM OnlyEndedRunsGo == RetentionSpec => []OnlyEndedRunsArePurged
<1>1. RetentionInv => OnlyEndedRunsArePurged
  BY DEF RetentionInv
<1> QED
  BY <1>1, RetentionInduction, PTL

-----------------------------------------------------------------------------
(* The jobs.                                                                *)

\* No store operation has begun; one may be about to.
Early == {Absent, "QUEUED", "PREPARING"}
Begun == {"WRITING", "VALIDATING", "PUBLISHING"}

\* A record that may replace an older one of the same job.
Follows(old, new) ==
    /\ old # Absent => new # Absent
    /\ old \in Terminal => new = old
    /\ old \notin Early => new \notin Early

\* The file is not ahead of the table, and what the driver does not ahead of it.
JobIsSound(k) ==
    /\ Follows(file[k], jobs[k])
    /\ jobs[k] = "COMPLETED" => k \in published
    /\ active = k => k \in published
    /\ k \in acked => file[k] # Absent
    /\ k \in wrote => file[k] \notin Early
    /\ allowed[k] \in Begun => jobs[k] = allowed[k] /\ file[k] \notin Early

\* The copy of a call lies between the file and the table, and what its driver
\* will be told of the job is still true.
CopyIsSound(c) ==
    LET k == caller[c].key
        snap == caller[c].snap
    IN  /\ CallerAt(c, "mutated") => jobs[k] # Absent
        /\ CallerAt(c, "persisting") =>
              /\ snap[k] # Absent
              /\ \A l \in Keys : Follows(file[l], snap[l]) /\ Follows(snap[l], jobs[l])
              /\ caller[c].does = "update" /\ snap[k] \in Begun => jobs[k] = snap[k]

OnePersists == \A c, d \in Callers : CallerAt(c, "persisting") /\ CallerAt(d, "persisting") => c = d

JobInv ==
    /\ JobTypeOK
    /\ \A k \in Keys : JobIsSound(k)
    /\ \A c \in Callers : CopyIsSound(c)
    /\ OnePersists

-----------------------------------------------------------------------------
\* Following is reflexive and transitive.
LEMMA FollowsIsOrder ==
    /\ \A s : Follows(s, s)
    /\ \A r, s, t : Follows(r, s) /\ Follows(s, t) => Follows(r, t)
BY DEF Follows

\* A call is idle, or works on a job.
LEMMA CallerType ==
    ASSUME JobTypeOK, NEW c \in Callers
    PROVE  /\ caller[c].at \in {"idle", "mutated", "persisting"}
           /\ caller[c].at # "idle" => caller[c].key \in Keys /\ caller[c].does \in Operations
           /\ caller[c].at = "persisting" => caller[c].snap \in Tables
BY DEF JobTypeOK, NoCall

\* An owner that starts without a file has no jobs.
LEMMA InitJobInv == JobInit => JobInv
<1> SUFFICES ASSUME JobInit PROVE JobInv
  OBVIOUS
<1>1. JobTypeOK
  BY DEF JobInit, JobTypeOK, Tables
<1>2. (\A c \in Callers : CopyIsSound(c)) /\ OnePersists
  BY DEF JobInit, CopyIsSound, OnePersists, CallerAt, NoCall
<1>3. \A k \in Keys : JobIsSound(k)
  BY JobConstants DEF JobInit, JobIsSound, Follows, Early, Begun, States, Live, Terminal
<1> QED
  BY <1>1, <1>2, <1>3 DEF JobInv

\* The states the calls may give a job follow the one it has.
LEMMA CallsFollow ==
    ASSUME JobTypeOK, NEW c \in Callers, NEW k \in Keys, NEW s \in States,
           UpdateJob(c, k, s)
    PROVE  Follows(jobs[k], s)
BY JobConstants DEF JobTypeOK, UpdateJob, Transitions, Follows, Early, Live, Terminal, States

\* A call changes one job in the table; the file and the copies stay behind.
LEMMA MutatePreserves ==
    ASSUME JobInv, NEW c \in Callers, NEW k \in Keys, NEW what \in Operations, NEW s \in States,
           Mutate(c, what, k, s), Follows(jobs[k], s),
           s = "COMPLETED" => k \in published,
           what # "update" => (jobs[k] \in Begun => s = jobs[k]),
           what = "update" =>
              \A d \in Callers : caller[d].does = "update" => caller[d].key # k
    PROVE  JobInv'
<1>1. /\ jobs' = [jobs EXCEPT ![k] = s] /\ jobs \in Tables
      /\ caller' = [caller EXCEPT
                      ![c] = [at |-> "mutated", does |-> what, key |-> k, snap |-> Absent]]
      /\ allowed' = (IF what = "update" THEN [allowed EXCEPT ![k] = Absent] ELSE allowed)
      /\ UNCHANGED <<file, accepting, executors, active, acked, wrote, published>>
  BY DEF JobInv, JobTypeOK, Mutate, ownerVars
<1>2. JobTypeOK'
  BY <1>1 DEF JobInv, JobTypeOK, Tables
<1>3. \A l \in Keys : Follows(jobs[l], jobs'[l])
  BY <1>1, FollowsIsOrder DEF Tables
<1>4. ASSUME NEW l \in Keys PROVE JobIsSound(l)'
  <2>1. Follows(file[l], jobs'[l])
    BY <1>3, FollowsIsOrder DEF JobInv, JobIsSound
  <2>2. allowed'[l] \in Begun => jobs'[l] = allowed'[l] /\ file[l] \notin Early
    <3>1. CASE what = "update" /\ l = k
      BY <1>1, <3>1, JobConstants DEF JobInv, JobTypeOK, Tables, Begun, States, Live
    <3>2. CASE ~(what = "update" /\ l = k)
      <4>1. allowed'[l] = allowed[l]
        BY <1>1, <3>2 DEF JobInv, JobTypeOK, Tables
      <4>2. jobs[l] \in Begun => jobs'[l] = jobs[l]
        BY <1>1, <3>2 DEF Tables
      <4> QED
        BY <4>1, <4>2 DEF JobInv, JobIsSound
    <3> QED
      BY <3>1, <3>2
  <2>3. jobs'[l] = "COMPLETED" => l \in published
    BY <1>1 DEF JobInv, JobIsSound, Tables
  <2> QED
    BY <1>1, <2>1, <2>2, <2>3 DEF JobInv, JobIsSound
<1>5. ASSUME NEW d \in Callers PROVE CopyIsSound(d)'
  <2>1. CASE d = c
    BY <1>1, <2>1, JobConstants DEF JobInv, JobTypeOK, Tables, CopyIsSound, CallerAt
  <2>2. CASE d # c
    <3>1. caller'[d] = caller[d]
      BY <1>1, <2>2 DEF JobInv, JobTypeOK
    <3>2. \A l \in Keys : jobs[l] # Absent => jobs'[l] # Absent
      BY <1>3 DEF Follows
    <3>3. CallerAt(d, "mutated") => jobs'[caller[d].key] # Absent
      BY <3>2, CallerType DEF JobInv, CopyIsSound, CallerAt
    <3>4. ASSUME CallerAt(d, "persisting"), NEW l \in Keys PROVE Follows(caller[d].snap[l], jobs'[l])
      BY <1>3, <3>4, FollowsIsOrder DEF JobInv, CopyIsSound
    <3>5. ASSUME CallerAt(d, "persisting"), caller[d].does = "update",
                 caller[d].snap[caller[d].key] \in Begun
          PROVE  jobs'[caller[d].key] = caller[d].snap[caller[d].key]
      BY <1>1, <3>5, CallerType DEF JobInv, CopyIsSound, CallerAt, Tables
    <3> QED
      BY <1>1, <3>1, <3>3, <3>4, <3>5 DEF JobInv, CopyIsSound, CallerAt
  <2> QED
    BY <2>1, <2>2
<1>6. OnePersists'
  BY <1>1 DEF JobInv, JobTypeOK, OnePersists, CallerAt
<1> QED
  BY <1>2, <1>4, <1>5, <1>6 DEF JobInv

\* The three calls that change the table.
LEMMA CallPreserves ==
    ASSUME JobInv, NEW c \in Callers, NEW k \in Keys,
           \/ SubmitIngest(c, k)
           \/ \E s \in States : UpdateJob(c, k, s)
           \/ CancelIngest(c, k)
    PROVE  JobInv'
<1>1. CASE SubmitIngest(c, k)
  <2>1. Follows(jobs[k], "QUEUED") /\ jobs[k] \notin Begun
    BY <1>1, JobConstants DEF SubmitIngest, Follows, Early, Begun, States, Live, Terminal
  <2> QED
    BY <1>1, <2>1, MutatePreserves DEF SubmitIngest, Operations, States, Live
<1>2. ASSUME NEW s \in States, UpdateJob(c, k, s) PROVE JobInv'
  BY <1>2, CallsFollow, MutatePreserves DEF JobInv, UpdateJob, Operations
<1>3. CASE CancelIngest(c, k)
  <2> DEFINE s == IF jobs[k] \in {"QUEUED", "PREPARING"} THEN "CANCELLED" ELSE jobs[k]
  <2>1. s \in States /\ Follows(jobs[k], s) /\ (jobs[k] \in Begun => s = jobs[k])
    BY <1>3, JobConstants DEF CancelIngest, Follows, Early, Begun, States, Live, Terminal
  <2>2. s # "COMPLETED"
    BY <1>3 DEF CancelIngest, Live
  <2> QED
    BY <1>3, <2>1, <2>2, MutatePreserves DEF CancelIngest, Operations
<1> QED
  BY <1>1, <1>2, <1>3

\* A copy is taken when no other is under way.
LEMMA PersistBeginPreserves ==
    ASSUME JobInv, NEW c \in Callers, PersistBegin(c)
    PROVE  JobInv'
<1>1. /\ caller[c].at = "mutated" /\ caller[c].key \in Keys /\ caller[c].does \in Operations
      /\ \A d \in Callers : caller[d].at # "persisting"
      /\ UNCHANGED <<jobs, file, accepting, executors, active, allowed, acked, wrote, published>>
  BY CallerType
     DEF JobInv, PersistBegin, PersistLocked, CallerAt, tableVars, ownerVars, driverVars
<1>2. caller' = [caller EXCEPT ![c] = [at |-> "persisting", does |-> caller[c].does,
                                       key |-> caller[c].key, snap |-> jobs]]
  <2>1. PICK r \in [at : {"mutated"}, does : Operations, key : Keys, snap : {Absent}] :
           r = caller[c]
    BY <1>1 DEF JobInv, JobTypeOK, NoCall
  <2>2. PICK t \in Tables : t = jobs
    BY DEF JobInv, JobTypeOK
  <2>3. PICK q : q = [r EXCEPT !.at = "persisting", !.snap = t]
    OBVIOUS
  <2>4. q = [at |-> "persisting", does |-> r.does, key |-> r.key, snap |-> t]
    BY <2>3, Zenon
  <2> QED
    BY <2>1, <2>2, <2>3, <2>4, Zenon DEF PersistBegin
<1>3. JobTypeOK'
  BY <1>1, <1>2 DEF JobInv, JobTypeOK
<1>4. \A k \in Keys : JobIsSound(k)'
  BY <1>1 DEF JobInv, JobIsSound
<1>5. ASSUME NEW d \in Callers PROVE CopyIsSound(d)'
  <2>1. CASE d = c
    BY <1>1, <1>2, <2>1, FollowsIsOrder DEF JobInv, JobTypeOK, JobIsSound, CopyIsSound, CallerAt
  <2>2. CASE d # c
    BY <1>1, <1>2, <2>2 DEF JobInv, JobTypeOK, CopyIsSound, CallerAt
  <2> QED
    BY <2>1, <2>2
<1>6. OnePersists'
  BY <1>1, <1>2 DEF JobInv, JobTypeOK, OnePersists, CallerAt
<1> QED
  BY <1>3, <1>4, <1>5, <1>6 DEF JobInv

\* The file takes a copy over, and the call returns or raises.
LEMMA PersistEndPreserves ==
    ASSUME JobInv, NEW c \in Callers, PersistEnd(c) \/ PersistRaises(c)
    PROVE  JobInv'
<1> DEFINE key == caller[c].key
           snap == caller[c].snap
<1>1. /\ caller' = [caller EXCEPT ![c] = NoCall] /\ key \in Keys
      /\ UNCHANGED <<jobs, accepting, executors, active, wrote, published>>
      /\ file' = file \/ (file' = snap /\ CallerAt(c, "persisting") /\ snap \in Tables)
  BY CallerType DEF JobInv, PersistEnd, PersistRaises, Return, CallerAt, ownerVars, driverVars
<1>2. \/ UNCHANGED <<allowed, acked>>
      \/ /\ CallerAt(c, "persisting") /\ file' = snap /\ snap \in Tables /\ key \in Keys
         /\ acked' = acked \/ acked' = acked \union {key}
         /\ \/ allowed' = allowed
            \/ caller[c].does = "update" /\ allowed' = [allowed EXCEPT ![key] = snap[key]]
  BY CallerType DEF JobInv, PersistEnd, PersistRaises, CallerAt, driverVars
<1>3. \A k \in Keys : Follows(file[k], file'[k]) /\ Follows(file'[k], jobs[k])
  BY <1>1, FollowsIsOrder DEF JobInv, JobIsSound, CopyIsSound
<1>4. JobTypeOK'
  BY <1>1, <1>2 DEF JobInv, JobTypeOK, Tables
<1>5. ASSUME NEW k \in Keys PROVE JobIsSound(k)'
  <2>1. (k \in acked => file'[k] # Absent) /\ (k \in wrote => file'[k] \notin Early)
    BY <1>3 DEF JobInv, JobIsSound, Follows
  <2>2. k \in acked' => file'[k] # Absent
    BY <1>2, <2>1 DEF JobInv, CopyIsSound
  <2>3. CASE allowed'[k] = allowed[k]
    BY <1>1, <1>3, <2>1, <2>2, <2>3 DEF JobInv, JobIsSound, Follows
  <2>4. CASE allowed'[k] # allowed[k]
    <3>1. k = key /\ allowed'[k] = snap[k] /\ file' = snap /\ CallerAt(c, "persisting")
          /\ caller[c].does = "update"
      BY <1>2, <2>4 DEF JobInv, JobTypeOK, Tables
    <3>2. snap[k] \in Begun => jobs[k] = snap[k] /\ snap[k] \notin Early
      BY <3>1, JobConstants DEF JobInv, CopyIsSound, Begun, Early, States, Live
    <3> QED
      BY <1>1, <1>3, <2>1, <2>2, <3>1, <3>2 DEF JobInv, JobIsSound
  <2> QED
    BY <2>3, <2>4
<1>6. ASSUME NEW d \in Callers PROVE CopyIsSound(d)'
  <2>1. CASE d = c
    BY <1>1, <2>1 DEF JobInv, JobTypeOK, CopyIsSound, CallerAt, NoCall
  <2>2. CASE d # c
    BY <1>1, <2>2 DEF JobInv, JobTypeOK, OnePersists, CopyIsSound, CallerAt
  <2> QED
    BY <2>1, <2>2
<1>7. OnePersists'
  BY <1>1, Zenon DEF JobInv, JobTypeOK, OnePersists, CallerAt, NoCall
<1> QED
  BY <1>4, <1>5, <1>6, <1>7 DEF JobInv

\* The driver begins what it was allowed to, and the owner drains.
LEMMA DriverPreserves ==
    ASSUME JobInv,
           \/ \E k \in Keys : WriteStores(k) \/ Publish(k)
           \/ BeginDrain \/ UNCHANGED jobVars
    PROVE  JobInv'
<1> USE DEF tableVars, ownerVars, driverVars
<1>1. /\ UNCHANGED <<jobs, file, caller, allowed, acked>>
      /\ published \subseteq published'
  BY DEF WriteStores, Publish, BeginDrain, jobVars
<1>2. JobTypeOK'
  BY Zenon DEF JobInv, JobTypeOK, WriteStores, Publish, BeginDrain, jobVars
<1>3. \A k \in Keys : k \in wrote' => file[k] \notin Early
  BY DEF JobInv, JobIsSound, WriteStores, Publish, BeginDrain, jobVars, Begun
<1>4. \A k \in Keys : active' = k => k \in published'
  BY DEF JobInv, JobIsSound, WriteStores, Publish, BeginDrain, jobVars
<1>5. \A k \in Keys : JobIsSound(k)'
  BY <1>1, <1>3, <1>4 DEF JobInv, JobIsSound
<1>6. (\A c \in Callers : CopyIsSound(c)') /\ OnePersists'
  BY <1>1 DEF JobInv, CopyIsSound, OnePersists, CallerAt
<1> QED
  BY <1>2, <1>5, <1>6 DEF JobInv

\* The last persist of a close, when no copy is under way.
LEMMA ClosePreserves ==
    ASSUME JobInv, Close
    PROVE  JobInv'
<1>1. /\ UNCHANGED <<jobs, accepting, caller, active, allowed, acked, wrote, published>>
      /\ executors' = FALSE
      /\ file' = jobs \/ file' = file
      /\ \A c \in Callers : ~CallerAt(c, "persisting")
  BY DEF Close, PersistLocked, driverVars
<1>2. JobTypeOK'
  BY <1>1, Zenon DEF JobInv, JobTypeOK
<1>3. \A k \in Keys : Follows(file[k], file'[k]) /\ Follows(file'[k], jobs[k])
  BY <1>1, FollowsIsOrder DEF JobInv, JobIsSound
<1>4. \A k \in Keys : JobIsSound(k)'
  BY <1>1, <1>3 DEF JobInv, JobIsSound, Follows
<1>5. (\A c \in Callers : CopyIsSound(c)') /\ OnePersists'
  BY <1>1 DEF JobInv, CopyIsSound, OnePersists, CallerAt
<1> QED
  BY <1>2, <1>4, <1>5 DEF JobInv

\* What _load_jobs makes of a job follows its record, and it says of no job that
\* it is complete unless it has been published.
LEMMA RecoveredFollows ==
    ASSUME JobInv, NEW k \in Keys
    PROVE  /\ Recovered(k) \in States \union {Absent}
           /\ Follows(file[k], Recovered(k))
           /\ Recovered(k) = "COMPLETED" => k \in published
<1>1. file[k] \in States \union {Absent}
  BY DEF JobInv, JobTypeOK, Tables
<1>2. /\ Recovered(k) \in States \union {Absent}
      /\ Follows(file[k], Recovered(k))
  BY <1>1, JobConstants DEF Recovered, Follows, Early, States, Live, Terminal
<1>3. Recovered(k) = "COMPLETED" => file[k] = "COMPLETED" \/ active = k
  BY <1>1, JobConstants DEF Recovered, States, Live, Terminal
<1> QED
  BY <1>2, <1>3 DEF JobInv, JobIsSound, Follows, Terminal

\* An owner that starts anew reads the file, and no call is left.
LEMMA RestartOwnerPreserves ==
    ASSUME JobInv, RestartOwner
    PROVE  JobInv'
<1>1. /\ jobs' = [k \in Keys |-> Recovered(k)] /\ file' = jobs'
      /\ caller' = [c \in Callers |-> NoCall] /\ allowed' = [k \in Keys |-> Absent]
      /\ UNCHANGED <<active, acked, wrote, published>>
  BY DEF RestartOwner
<1>2. JobTypeOK'
  BY <1>1, RecoveredFollows DEF JobInv, JobTypeOK, Tables, RestartOwner
<1>3. ASSUME NEW k \in Keys PROVE JobIsSound(k)'
  <2>1. jobs'[k] = Recovered(k) /\ file'[k] = Recovered(k) /\ allowed'[k] = Absent
    BY <1>1
  <2>2. Absent \notin Begun
    BY JobConstants DEF Begun, States, Live
  <2> QED
    BY <1>1, <2>1, <2>2, RecoveredFollows, FollowsIsOrder DEF JobInv, JobIsSound, Follows
<1>4. (\A c \in Callers : CopyIsSound(c)') /\ OnePersists'
  BY <1>1 DEF CopyIsSound, OnePersists, CallerAt, NoCall
<1> QED
  BY <1>2, <1>3, <1>4 DEF JobInv

\* JobInv is inductive, however the calls interleave and wherever the owner dies.
THEOREM JobInduction == JobSpec => []JobInv
<1>1. JobInv /\ [JobNext]_jobVars => JobInv'
  BY CallPreserves, PersistBeginPreserves, PersistEndPreserves, DriverPreserves,
     ClosePreserves, RestartOwnerPreserves DEF JobNext
<1> QED
  BY <1>1, InitJobInv, PTL DEF JobSpec

-----------------------------------------------------------------------------
(* What the job table promises                                              *)

\* A queued job has no store operation behind it and a completed one has been
\* published, wherever the owner was killed between memory, file and store.
THEOREM TableStaysTrue == JobSpec => []TableIsTrue
<1>1. JobInv => TableIsTrue
  BY JobConstants
     DEF JobInv, JobIsSound, TableIsTrue, Follows, Early, States, Live, Terminal
<1> QED
  BY <1>1, JobInduction, PTL

\* A job that submit_ingest has returned is not lost by a restart.
THEOREM AckedJobsAreKept == JobSpec => []AckedIsKept
<1>1. JobInv => AckedIsKept
  BY DEF JobInv, JobTypeOK, JobIsSound, Follows, AckedIsKept
<1> QED
  BY <1>1, JobInduction, PTL

\* No write of the file, late or after a restart, takes a terminal state back.
THEOREM TerminalStaysFinal == JobSpec => TerminalIsFinal
<1>1. ASSUME JobInv, [JobNext]_jobVars, NEW k \in Keys, file[k] \in Terminal
      PROVE  file'[k] = file[k]
  <2>1. CASE UNCHANGED file
    BY <2>1
  <2>2. ASSUME NEW c \in Callers, PersistEnd(c) \/ PersistRaises(c) PROVE file'[k] = file[k]
    BY <1>1, <2>2 DEF JobInv, CopyIsSound, Follows, PersistEnd, PersistRaises
  <2>3. CASE Close
    BY <1>1, <2>3 DEF JobInv, JobIsSound, Follows, Close
  <2>4. CASE RestartOwner
    BY <1>1, <2>4, RecoveredFollows DEF Follows, RestartOwner
  <2> QED
    BY <1>1, <2>1, <2>2, <2>3, <2>4, Zenon
       DEF JobNext, SubmitIngest, UpdateJob, CancelIngest, Mutate, PersistBegin, WriteStores,
           Publish, BeginDrain, jobVars, tableVars
<1>2. JobInv /\ [JobNext]_jobVars =>
        [\A k \in Keys : file[k] \in Terminal => file'[k] = file[k]]_jobVars
  BY <1>1
<1> QED
  BY <1>2, JobInduction, PTL DEF JobSpec, TerminalIsFinal

\* No store operation begins for a job that has been cancelled or given up.
THEOREM EndedJobsNeverWrite == JobSpec => EndedNeverWrites
<1>1. ASSUME JobInv, [JobNext]_jobVars, NEW k \in wrote' \ wrote PROVE jobs[k] \notin Terminal
  <2>1. k \in Keys /\ allowed[k] = "WRITING"
    BY <1>1, Zenon
       DEF JobNext, SubmitIngest, UpdateJob, CancelIngest, Mutate, PersistBegin,
           PersistEnd, PersistRaises, WriteStores, Publish, BeginDrain, Close, RestartOwner,
           jobVars, driverVars
  <2> QED
    BY <1>1, <2>1 DEF JobInv, JobIsSound, Begun, Terminal
<1>2. JobInv /\ [JobNext]_jobVars =>
        [\A k \in wrote' \ wrote : jobs[k] \notin Terminal]_jobVars
  BY <1>1
<1> QED
  BY <1>2, JobInduction, PTL DEF JobSpec, EndedNeverWrites

-----------------------------------------------------------------------------
(* The baseline.                                                            *)

\* The files that an earlier attempt may have written, as far as is on record.
Known == UNION {Present(i) : i \in Retained}

InHand(f) ==
    \/ f \in sync.toClean
    \/ f \in sync.toWrite /\ graph[f] = {}
    \/ f \notin sync.toWrite /\ graph[f] = Expected(sync.inv, f)
    \/ f \notin sync.toWrite /\ f \in edited \intersect sync.verify

\* What a sync has to do fits its inventory and what it will check at the end.
PlanIsSound ==
    sync.at = "scanning" =>
       /\ sync.toWrite \subseteq Present(sync.inv) \intersect sync.verify
       /\ sync.toClean \intersect Present(sync.inv) \subseteq sync.toWrite
       /\ \A f \in Files \ edited : src[f] = sync.inv[f]

\* A sync that started from a dirty state takes care of all that is on record,
\* and one whose records are whole of every file there is.
ReplayIsSound ==
    sync.at = "scanning" /\ dirty =>
       sync.verify = Files /\ \A f \in Known \union Present(sync.inv) : InHand(f)
ScanIsSound ==
    sync.at = "scanning" /\ ~strayed => sync.publish /\ \A f \in Files : InHand(f)

BaselineMatches ==
    sync.at = "idle" /\ ~strayed /\ ~dirty =>
       \A f \in Files : graph[f] = IF base = Missing THEN {} ELSE Expected(base, f)

GraphIsKnown ==
    ~strayed => \A f \in Files : graph[f] # {} =>
       f \in Known \/ (sync.at = "scanning" /\ f \in Present(sync.inv))

SyncInv ==
    /\ SyncTypeOK
    /\ ~dirty => pending = {}
    /\ PlanIsSound /\ ReplayIsSound /\ ScanIsSound
    /\ BaselineMatches /\ GraphIsKnown

-----------------------------------------------------------------------------
\* What is on record are files.
LEMMA KnownFiles ==
    /\ Known = {f \in Files : \E i \in Retained : i[f] # Missing}
    /\ Known \subseteq Files
BY DEF Known, Present

\* What is on record changes only with the state file.
LEMMA KnownFrame == UNCHANGED <<base, dirty, pending>> => Known' = Known
BY DEF Known, Retained, Present

\* A running sync has an inventory, and a plan for some of the files.
LEMMA SyncType ==
    ASSUME SyncTypeOK
    PROVE  /\ sync.at \in {"idle", "scanning"}
           /\ sync.at = "idle" => sync = NoSync
           /\ sync.at = "scanning" =>
                 /\ sync.inv \in Inventories /\ sync.inv # Missing /\ sync.publish \in BOOLEAN
                 /\ sync.verify \subseteq Files
                 /\ sync.toClean \subseteq Files /\ sync.toWrite \subseteq Files
<1>1. CASE sync = NoSync
  BY <1>1 DEF NoSync
<1>2. CASE sync # NoSync
  BY <1>2, SyncConstants DEF SyncTypeOK
<1> QED
  BY <1>1, <1>2

\* Before the first sync there is nothing to remember.
LEMMA InitSyncInv == SyncInit => SyncInv
<1> SUFFICES ASSUME SyncInit PROVE SyncInv
  OBVIOUS
<1>1. SyncTypeOK
  BY Zenon DEF SyncInit, SyncTypeOK
<1>2. PlanIsSound /\ ReplayIsSound /\ ScanIsSound /\ BaselineMatches /\ GraphIsKnown
  BY DEF SyncInit, PlanIsSound, ReplayIsSound, ScanIsSound, BaselineMatches,
     GraphIsKnown, NoSync
<1> QED
  BY <1>1, <1>2 DEF SyncInit, SyncInv

-----------------------------------------------------------------------------
(* The invariant, action by action.                                         *)

\* What a sync plans when it starts covers what its mode promises.
LEMMA StartPreserves ==
    ASSUME SyncInv, NEW full \in BOOLEAN, NEW graphOnly \in BOOLEAN, Start(full, graphOnly)
    PROVE  SyncInv'
<1> DEFINE changed == ChangedPaths(full)
           deleted == DeletedPaths(full)
<1>1. /\ sync.at = "idle"
      /\ sync'.at = "scanning" /\ sync'.inv = src /\ sync'.toWrite = changed
      /\ sync'.verify = (IF FullScan(full) \/ dirty THEN Files ELSE changed)
      /\ sync'.toClean = (IF Incremental(full) THEN changed \union deleted ELSE {})
      /\ graphOnly \/ sync'.publish
      /\ edited' = {}
      /\ ~strayed' => ~strayed /\ ~graphOnly /\ (base # Missing => Incremental(full))
      /\ UNCHANGED <<src, graph, base, dirty, pending>>
  BY Zenon DEF Start
<1>2. /\ changed \subseteq Present(src)
      /\ deleted \intersect Present(src) = {} /\ deleted \subseteq Files
  <2>1. deleted \in {{}, Known \ Present(src)}
    BY DEF DeletedPaths, Known
  <2> QED
    BY <2>1, KnownFiles DEF ChangedPaths, Present
<1>3. SyncTypeOK'
  <2>1. sync' \in [at : {"scanning"}, inv : Inventories, verify : SUBSET Files,
                   toClean : SUBSET Files, toWrite : SUBSET Files, publish : BOOLEAN]
    BY <1>2 DEF SyncInv, SyncTypeOK, Start, Present
  <2> QED
    BY <1>1, <2>1 DEF SyncInv, SyncTypeOK, Start
<1>4. PlanIsSound'
  BY <1>1, <1>2 DEF PlanIsSound, Present, ChangedPaths
<1>5. ReplayIsSound'
  <2>1. ASSUME dirty PROVE deleted = Known \ Present(src) /\ changed = Present(src)
    BY <2>1 DEF Known, DeletedPaths, ChangedPaths
  <2> QED
    BY <1>1, <2>1, KnownFrame DEF ReplayIsSound, InHand, Incremental
<1>6. ASSUME ~strayed', NEW f \in Files PROVE InHand(f)'
  <2>1. CASE dirty
    <3>1. sync'.toClean = Known \union Present(src) /\ sync'.toWrite = Present(src)
      BY <1>1, <2>1 DEF Known, DeletedPaths, ChangedPaths, Incremental
    <3>2. f \notin sync'.toClean => graph[f] = {} /\ src[f] = Missing
      BY <1>1, <1>6, <3>1 DEF SyncInv, GraphIsKnown, Present
    <3> QED
      BY <1>1, <3>1, <3>2 DEF InHand, Expected, Present
  <2>2. CASE ~dirty /\ base = Missing
    <3>1. graph[f] = {} /\ sync'.toWrite = Present(src)
      BY <1>1, <1>6, <2>2 DEF SyncInv, BaselineMatches, ChangedPaths, FullScan
    <3> QED
      BY <1>1, <3>1 DEF InHand, Expected, Present
  <2>3. CASE ~dirty /\ base # Missing
    <3>1. ~FullScan(full) /\ base \in Inventories /\ Retained = {base}
      BY <1>1, <1>6, <2>3 DEF SyncInv, SyncTypeOK, Incremental, Retained
    <3>2. /\ sync'.toClean = changed \union (Present(base) \ Present(src))
          /\ changed = {g \in Present(src) : src[g] # base[g]}
      BY <1>1, <2>3, <3>1 DEF DeletedPaths, ChangedPaths, Incremental
    <3>3. f \notin sync'.toClean => f \notin changed /\ src[f] = base[f]
      BY <3>2 DEF Present
    <3>4. graph[f] = Expected(base, f)
      BY <1>1, <1>6, <2>3 DEF SyncInv, BaselineMatches
    <3> QED
      BY <1>1, <3>3, <3>4 DEF InHand, Expected
  <2> QED
    BY <2>1, <2>2, <2>3
<1>7. ScanIsSound' /\ BaselineMatches'
  BY <1>1, <1>6 DEF ScanIsSound, BaselineMatches
<1>8. GraphIsKnown'
  BY <1>1, KnownFrame DEF SyncInv, GraphIsKnown
<1> QED
  BY <1>1, <1>3, <1>4, <1>5, <1>7, <1>8 DEF SyncInv

\* A file is cleaned, or written as the sources have it now.
LEMMA RewritePreserves ==
    ASSUME SyncInv, NEW f \in Files, Clean(f) \/ Write(f)
    PROVE  SyncInv'
<1>1. sync.at = "scanning"
  BY SyncType DEF SyncInv, Clean, Write, NoSync
<1>2. /\ sync'.at = "scanning" /\ sync'.inv = sync.inv /\ sync'.verify = sync.verify
      /\ sync'.publish = sync.publish
      /\ \/ /\ f \in sync.toClean /\ graph' = [graph EXCEPT ![f] = {}]
            /\ sync'.toClean = sync.toClean \ {f} /\ sync'.toWrite = sync.toWrite
         \/ /\ f \in sync.toWrite \ sync.toClean
            /\ graph' = [graph EXCEPT ![f] = @ \union ({src[f]} \ {Missing})]
            /\ sync'.toWrite = sync.toWrite \ {f} /\ sync'.toClean = sync.toClean
      /\ UNCHANGED <<src, base, dirty, pending, edited, strayed>> /\ Known' = Known
  BY <1>1, SyncType, KnownFrame
     DEF SyncInv, SyncTypeOK, Clean, Write, NoSync
<1>3. SyncTypeOK'
  <2>1. sync' \in [at : {"scanning"}, inv : Inventories, verify : SUBSET Files,
                   toClean : SUBSET Files, toWrite : SUBSET Files, publish : BOOLEAN]
    BY <1>1 DEF SyncInv, SyncTypeOK, Clean, Write, NoSync
  <2>2. graph' \in [Files -> SUBSET Versions]
    BY <1>2 DEF SyncInv, SyncTypeOK, Inventories
  <2> QED
    BY <1>2, <2>1, <2>2 DEF SyncInv, SyncTypeOK
<1>4. PlanIsSound'
  BY <1>1, <1>2 DEF SyncInv, PlanIsSound, Present
<1>5. ASSUME NEW g \in Files, InHand(g) PROVE InHand(g)'
  <2>1. CASE g # f
    BY <1>2, <1>5, <2>1 DEF SyncInv, SyncTypeOK, InHand, Expected
  <2>2. CASE g = f /\ f \in sync.toClean
    BY <1>1, <1>2, <2>2
       DEF SyncInv, SyncTypeOK, PlanIsSound, InHand, Expected, Present
  <2>3. CASE g = f /\ f \in sync.toWrite \ sync.toClean
    <3>1. graph[f] = {}
      BY <1>5, <2>3 DEF InHand
    <3>2. graph'[f] = {src[f]} \ {Missing} /\ f \in sync.verify
      BY <1>1, <1>2, <2>3, <3>1 DEF SyncInv, SyncTypeOK, PlanIsSound
    <3>3. f \notin edited => src[f] = sync.inv[f]
      BY <1>1 DEF SyncInv, PlanIsSound
    <3> QED
      BY <1>2, <2>3, <3>2, <3>3 DEF InHand, Expected
  <2> QED
    BY <1>2, <2>1, <2>2, <2>3
<1>6. ReplayIsSound'
  BY <1>1, <1>2, <1>5, KnownFiles DEF SyncInv, ReplayIsSound, Present
<1>7. ScanIsSound'
  BY <1>1, <1>2, <1>5 DEF SyncInv, ScanIsSound
<1>8. BaselineMatches' /\ GraphIsKnown'
  <2>1. \A g \in Files \ {f} : graph'[g] = graph[g]
    BY <1>2 DEF SyncInv, SyncTypeOK
  <2>2. graph'[f] # {} => f \in sync.toWrite
    BY <1>2 DEF SyncInv, SyncTypeOK
  <2> QED
    BY <1>1, <1>2, <2>1, <2>2, Zenon DEF SyncInv, PlanIsSound, BaselineMatches, GraphIsKnown
<1> QED
  BY <1>2, <1>3, <1>4, <1>6, <1>7, <1>8 DEF SyncInv

\* With nothing left to do and nothing edited, what is in hand is scanned.
LEMMA FinishedIsScanned ==
    ASSUME SyncInv, Finish, NEW f \in Files, InHand(f), sync.verify = Files \/ ~strayed
    PROVE  graph[f] = Expected(sync.inv, f)
BY DEF Finish, Unchanged, InHand

\* A good end publishes the inventory as the baseline.
LEMMA FinishPreserves ==
    ASSUME SyncInv, Finish
    PROVE  SyncInv'
<1>1. /\ sync.at = "scanning" /\ sync.inv \in Inventories /\ sync.inv # Missing
      /\ sync' = NoSync /\ edited' = {} /\ UNCHANGED <<src, graph, strayed>>
  BY SyncType DEF SyncInv, Finish, End
<1>2. sync'.at = "idle"
  BY <1>1 DEF NoSync
<1>3. \/ sync.publish /\ base' = sync.inv /\ dirty' = FALSE /\ pending' = {}
      \/ ~sync.publish /\ UNCHANGED <<base, dirty, pending>>
  BY DEF Finish, MarkClean
<1>4. SyncTypeOK' /\ (~dirty' => pending' = {})
  BY <1>1, <1>3, Zenon DEF SyncInv, SyncTypeOK
<1>5. ASSUME ~strayed
      PROVE  base' = sync.inv /\ \A f \in Files : graph[f] = Expected(sync.inv, f)
  BY <1>1, <1>3, <1>5, FinishedIsScanned DEF SyncInv, ScanIsSound
<1>6. BaselineMatches'
  BY <1>1, <1>5 DEF BaselineMatches, Expected
<1>7. GraphIsKnown'
  <2> SUFFICES ASSUME ~strayed, NEW f \in Files, graph[f] # {} PROVE f \in Known'
    BY <1>1 DEF GraphIsKnown
  <2>1. base' \in Retained' /\ base'[f] # Missing
    BY <1>1, <1>5 DEF Retained, Expected
  <2> QED
    BY <2>1 DEF Known, Present
<1> QED
  BY <1>2, <1>4, <1>6, <1>7 DEF SyncInv, PlanIsSound, ReplayIsSound, ScanIsSound

\* A sync that raises leaves its inventory on record; one that is killed, or
\* cannot write it, leaves the graph ahead of the record.
LEMMA FailurePreserves ==
    ASSUME SyncInv, Raise \/ Kill
    PROVE  SyncInv'
<1>1. /\ sync.at = "scanning" /\ sync.inv \in Inventories
      /\ sync' = NoSync /\ edited' = {} /\ UNCHANGED <<src, graph, base>>
  BY SyncType DEF SyncInv, Raise, MarkDirty, Kill, End
<1>2. sync'.at = "idle"
  BY <1>1 DEF NoSync
<1>3. \/ strayed' = TRUE /\ UNCHANGED pending /\ (dirty' = TRUE \/ UNCHANGED dirty)
      \/ UNCHANGED strayed /\ dirty' = TRUE /\ pending' = pending \union {sync.inv}
  BY DEF Raise, MarkDirty, Kill
<1>4. SyncTypeOK' /\ (~dirty' => pending' = {})
  BY <1>1, <1>3, Zenon DEF SyncInv, SyncTypeOK
<1>5. BaselineMatches'
  BY <1>3 DEF BaselineMatches
<1>6. GraphIsKnown'
  <2> SUFFICES ASSUME ~strayed', NEW f \in Files, graph[f] # {} PROVE f \in Known'
    BY <1>1 DEF GraphIsKnown
  <2>1. ~strayed /\ dirty' = TRUE /\ pending' = pending \union {sync.inv}
    BY <1>3
  <2>2. Retained' = pending \union {sync.inv} \union ({base} \ {Missing})
    BY <1>1, <2>1 DEF Retained
  <2>3. f \in Known => \E i \in pending \union ({base} \ {Missing}) : f \in Present(i)
    BY DEF SyncInv, Known, Retained
  <2>4. f \in Known \/ f \in Present(sync.inv)
    BY <2>1 DEF SyncInv, GraphIsKnown
  <2> QED
    BY <2>2, <2>3, <2>4 DEF Known
<1> QED
  BY <1>2, <1>4, <1>5, <1>6 DEF SyncInv, PlanIsSound, ReplayIsSound, ScanIsSound

\* An edit during a sync is remembered for its end.
LEMMA EditPreserves ==
    ASSUME SyncInv, NEW f \in Files, NEW v \in Versions \union {Missing}, Edit(f, v)
    PROVE  SyncInv'
<1>1. /\ UNCHANGED <<graph, base, dirty, pending, sync, strayed>> /\ Known' = Known
      /\ src' = [src EXCEPT ![f] = v]
      /\ sync.at = "scanning" => edited' = edited \union {f}
      /\ edited \subseteq edited'
  BY KnownFrame DEF Edit
<1>2. SyncTypeOK'
  BY <1>1 DEF SyncInv, SyncTypeOK, Edit, Inventories
<1>3. \A g \in Files : InHand(g) => InHand(g)'
  BY <1>1 DEF InHand, Expected
<1>4. PlanIsSound'
  BY <1>1 DEF SyncInv, SyncTypeOK, PlanIsSound, Present, Inventories
<1>5. ReplayIsSound' /\ ScanIsSound'
  BY <1>1, <1>3, KnownFiles DEF SyncInv, ReplayIsSound, ScanIsSound, Present
<1>6. BaselineMatches' /\ GraphIsKnown'
  BY <1>1 DEF SyncInv, BaselineMatches, GraphIsKnown, Expected, Present
<1> QED
  BY <1>1, <1>2, <1>4, <1>5, <1>6 DEF SyncInv

\* A step of something else changes nothing of it.
LEMMA StutterPreserves ==
    ASSUME SyncInv, UNCHANGED syncVars
    PROVE  SyncInv'
BY KnownFrame
   DEF syncVars, SyncInv, SyncTypeOK, PlanIsSound, ReplayIsSound, ScanIsSound,
       BaselineMatches, GraphIsKnown, InHand, Expected, Present

\* SyncInv is inductive, wherever syncs fail or are killed and files are edited.
THEOREM SyncInduction == SyncSpec => []SyncInv
<1>1. SyncInv /\ [SyncNext]_syncVars => SyncInv'
  BY StartPreserves, RewritePreserves, FinishPreserves, FailurePreserves, EditPreserves,
     StutterPreserves DEF SyncNext
<1> QED
  BY <1>1, InitSyncInv, PTL DEF SyncSpec

\* While the state is clean, no sync runs and none has strayed, the graph holds
\* what the baseline names: the decision not to scan a file is sound.
THEOREM BaselineIsScanned == SyncSpec => []BaselineIsScannedUnlessStrayed
<1>1. SyncInv => BaselineIsScannedUnlessStrayed
  BY DEF SyncInv, BaselineMatches, BaselineIsScannedUnlessStrayed
<1> QED
  BY <1>1, SyncInduction, PTL

\* A dirty state becomes clean only with everything on record replayed, also when
\* earlier syncs were killed.
THEOREM DirtyStateIsReplayed == SyncSpec => DirtyIsReplayed
<1>1. ASSUME SyncInv, [SyncNext]_syncVars, dirty, ~dirty',
             NEW f \in UNION {Present(i) : i \in Retained \union {base'}}
      PROVE  graph'[f] = Expected(base', f)
  <2>1. Finish /\ sync.publish /\ base' = sync.inv /\ UNCHANGED graph /\ sync.at = "scanning"
    BY <1>1, Zenon
       DEF SyncNext, syncVars, Start, Clean, Write, Finish,
           MarkClean, Raise, MarkDirty, Kill, Edit
  <2>2. f \in Known \union Present(sync.inv) /\ f \in Files
    BY <2>1, KnownFiles DEF Known, Present
  <2>3. graph[f] = Expected(sync.inv, f)
    BY <1>1, <2>1, <2>2, FinishedIsScanned DEF SyncInv, ReplayIsSound
  <2> QED
    BY <2>1, <2>3 DEF Expected
<1>2. SyncInv /\ [SyncNext]_syncVars =>
        [dirty /\ ~dirty' =>
           \A f \in UNION {Present(i) : i \in Retained \union {base'}} :
              graph'[f] = Expected(base', f)]_syncVars
  BY <1>1
<1> QED
  BY <1>2, SyncInduction, PTL DEF SyncSpec, DirtyIsReplayed

=============================================================================
