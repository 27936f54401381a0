------------------------------ MODULE LinkStore ------------------------------
(***************************************************************************)
(* link-tiny: one `dev sync link` worker at a time (sync-link.lock) writes *)
(* the links between documents and code, and link_mcp answers queries.     *)
(*                                                                         *)
(* The links are kept twice: links.jsonl, an append-only log in which the  *)
(* last record of a link counts, and links.db, the SQLite view the queries *)
(* read.  The worker takes its decisions from the log (link_engine.py) and *)
(* updates both under the store lock (link_store.py).                      *)
(*                                                                         *)
(* The log is abstracted to the last record of each link, which is all     *)
(* anybody takes from it, and to whether its last line is cut.  An         *)
(* exception out of a write (a full disk, a locked database) ends the      *)
(* worker as a kill does.                                                  *)
(***************************************************************************)
EXTENDS Naturals, FiniteSets

CONSTANTS
    Links,         \* link identities: record_key
    SourceHashes,  \* the hashes of a link's ends; one stands for the two
    Unknown,       \* the hash of a file the sync baselines do not have
    Readers,       \* queries of link_mcp
    NoRecord

Hashes == SourceHashes \union {Unknown}
Records == [ver : Hashes, status : {"active", "stale"}]
View == [Links -> Records \union {NoRecord}]

ASSUME LinkConstants == NoRecord \notin Records \union View

VARIABLES
    log, torn,     \* links.jsonl; is its last line cut?
    db,            \* links.db; NoRecord when there is no such file
    counted,       \* does state.json count active links?
    worker, reader,
    cut            \* what kills and late queries may have left behind

linkVars == <<log, torn, db, counted, worker, reader, cut>>

Rec(v, s) == [ver |-> v, status |-> s]
IsActive(m, l) == m[l] # NoRecord /\ m[l].status = "active"
Empty == [l \in Links |-> NoRecord]

\* The two ends of a link in the graphs: gone, or there with their hashes, and
\* matched or not.
Gone == [ver |-> NoRecord, match |-> FALSE]
Ends == {Gone} \union [ver : Hashes, match : BOOLEAN]

WorkerStages == {"begun", "staling", "staled", "adding", "compacting", "saving"}
\* The stages in which the worker holds the store lock.
Locked == worker.at \in {"staling", "adding", "compacting"}

NoWorker == [at |-> "idle", reconcile |-> FALSE, collapsed |-> FALSE, oversized |-> FALSE,
             fresh |-> Empty, stale |-> Empty, new |-> Empty, written |-> {}]

LinkInit ==
    /\ log = Empty
    /\ torn = FALSE /\ db = NoRecord /\ counted = FALSE
    /\ worker = NoWorker
    /\ reader = [r \in Readers |-> NoRecord]
    /\ cut = {}

-----------------------------------------------------------------------------
(* The worker: build_links                                                  *)

\* A hash that is not known, on either side, is no change.
Changed(old, new) == old # Unknown /\ new # Unknown /\ old # new
Drifted(fresh, l) == fresh[l] = Gone \/ Changed(log[l].ver, fresh[l].ver)

\* The copies mark_stale will append, and the delta that is new.
StaleCopies(fresh, all) ==
    [l \in Links |-> IF IsActive(log, l) /\ (all \/ Drifted(fresh, l))
                     THEN Rec(log[l].ver, "stale") ELSE NoRecord]

NewRecords(fresh, all) ==
    [l \in Links |->
       LET r == Rec(fresh[l].ver, "active")
       IN  IF fresh[l].match /\ (all \/ log[l] # r) THEN r ELSE NoRecord]

\* The graphs and the log are read.  A read that finds no symbol at all is
\* refused when state.json counts active links.  A log that is too large is not
\* read when everything is superseded anyway.
Begin(fresh, collapsed, reconcile, oversized) ==
    /\ worker.at = "idle"
    /\ collapsed => /\ fresh = [l \in Links |-> Gone]
                    /\ reconcile \/ ~counted
    /\ oversized => reconcile /\ log # Empty
    /\ worker' = [at |-> "begun", reconcile |-> reconcile, collapsed |-> collapsed,
                  oversized |-> oversized, fresh |-> fresh, written |-> {},
                  stale |-> IF oversized THEN Empty ELSE StaleCopies(fresh, reconcile),
                  new |-> NewRecords(fresh, reconcile)]
    /\ UNCHANGED <<log, torn, db, counted, reader, cut>>

\* append_links takes the lock; with nothing to append it is not called.
Enter(from, to, records, next) ==
    /\ worker.at = from
    /\ worker' = [worker EXCEPT !.at = IF records = Empty THEN next ELSE to]
    /\ UNCHANGED <<log, torn, db, counted, reader, cut>>

EnterStale == Enter("begun", "staling", worker.stale, "staled")
EnterNew == ~worker.oversized /\ Enter("staled", "adding", worker.new, "saving")

\* Mutant of AppendLine: a record written behind a cut line cannot be decoded.
AppendLineOntoTail(l, r) ==
    /\ log' = IF torn THEN log ELSE [log EXCEPT ![l] = r]
    /\ torn' = FALSE

\* One line is appended, on a line of its own even behind a cut one.
AppendLine(l, r) ==
    /\ log' = [log EXCEPT ![l] = r]
    /\ torn' = FALSE

Append(stage, records) ==
    /\ worker.at = stage
    /\ \E l \in Links \ worker.written :
          /\ records[l] # NoRecord
          /\ AppendLine(l, records[l])
          /\ worker' = [worker EXCEPT !.written = @ \union {l}]
    /\ UNCHANGED <<db, counted, reader, cut>>

AppendStale == Append("staling", worker.stale)
AppendNew == Append("adding", worker.new)

\* _upsert_records_to_sqlite, one transaction; it creates the database.
Upserted(records) ==
    [l \in Links |-> IF records[l] # NoRecord THEN records[l]
                     ELSE IF db = NoRecord THEN NoRecord ELSE db[l]]

Upsert(stage, records, next) ==
    /\ worker.at = stage
    /\ \A l \in Links : records[l] # NoRecord => l \in worker.written
    /\ db' = Upserted(records)
    /\ worker' = [worker EXCEPT !.at = next, !.written = {}]
    /\ UNCHANGED <<log, torn, counted, reader, cut>>

UpsertStale == Upsert("staling", worker.stale, "staled")
UpsertNew == Upsert("adding", worker.new, "saving")

\* compact_store_on_reconcile: the log is replaced, then the database's rows.
CompactLog ==
    /\ worker.at = "staled" /\ worker.oversized
    /\ log' = worker.new /\ torn' = FALSE
    /\ worker' = [worker EXCEPT !.at = "compacting"]
    /\ UNCHANGED <<db, counted, reader, cut>>

\* Mutant of CompactDb: the old rows are not deleted first.
CompactDbUpserts ==
    /\ worker.at = "compacting"
    /\ db' = Upserted(worker.new)
    /\ cut' = cut \ {"view"}
    /\ worker' = [worker EXCEPT !.at = "saving"]
    /\ UNCHANGED <<log, torn, counted, reader>>

CompactDb ==
    /\ worker.at = "compacting"
    /\ db' = worker.new
    /\ cut' = cut \ {"view"}
    /\ worker' = [worker EXCEPT !.at = "saving"]
    /\ UNCHANGED <<log, torn, counted, reader>>

\* Mutant of SaveState: only this run's records are counted.
SaveStateNewOnly ==
    /\ worker.at = "saving"
    /\ counted' = \E l \in Links : IsActive(worker.new, l)
    /\ worker' = NoWorker
    /\ cut' = cut \ {"count"}
    /\ UNCHANGED <<log, torn, db, reader>>

SaveState ==
    /\ worker.at = "saving"
    /\ counted' = \E l \in Links : IsActive(log, l)
    /\ worker' = NoWorker
    /\ cut' = cut \ {"count"}
    /\ UNCHANGED <<log, torn, db, reader>>

\* The worker is killed; a line it was writing stays cut, and a database it was
\* creating stays empty.
KillWorker ==
    /\ worker.at # "idle"
    /\ worker' = NoWorker
    /\ cut' = cut \union (IF Locked THEN {"view"} ELSE {})
                 \union (IF worker.at # "begun" THEN {"count"} ELSE {})
    /\ torn' \in IF worker.at \in {"staling", "adding"} THEN {torn, TRUE} ELSE {torn}
    /\ db' \in IF db = NoRecord /\ Locked THEN {NoRecord, Empty} ELSE {db}
    /\ UNCHANGED <<log, counted, reader>>

-----------------------------------------------------------------------------
(* A query: _ensure_sqlite_synced builds a database that is not there from  *)
(* the log, which it reads before it takes the lock.                        *)

QueryReadsLog(r) ==
    /\ reader[r] = NoRecord /\ db = NoRecord /\ log # Empty
    /\ reader' = [reader EXCEPT ![r] = log]
    /\ UNCHANGED <<log, torn, db, counted, worker, cut>>

QueryBuildsDb(r) ==
    /\ reader[r] # NoRecord /\ ~Locked
    /\ db' = reader[r]
    /\ cut' = IF reader[r] = log THEN cut \ {"view"} ELSE cut \union {"view"}
    /\ reader' = [reader EXCEPT ![r] = NoRecord]
    /\ UNCHANGED <<log, torn, counted, worker>>

LinkNext ==
    \/ \E f \in [Links -> Ends], c, a, o \in BOOLEAN : Begin(f, c, a, o)
    \/ EnterStale \/ AppendStale \/ UpsertStale
    \/ EnterNew \/ AppendNew \/ UpsertNew
    \/ CompactLog \/ CompactDb
    \/ SaveState \/ KillWorker
    \/ \E r \in Readers : QueryReadsLog(r) \/ QueryBuildsDb(r)

LinkSpec == LinkInit /\ [][LinkNext]_linkVars

-----------------------------------------------------------------------------
(* Properties                                                               *)

\* The files, the worker and the queries have their types.
LinkTypeOK ==
    /\ log \in View /\ torn \in BOOLEAN
    /\ db \in View \union {NoRecord} /\ counted \in BOOLEAN
    /\ worker \in {NoWorker} \union
                 [at : WorkerStages, reconcile : BOOLEAN, collapsed : BOOLEAN, oversized : BOOLEAN,
                  fresh : [Links -> Ends], stale : View, new : View, written : SUBSET Links]
    /\ reader \in [Readers -> View \union {NoRecord}]
    /\ cut \subseteq {"view", "count"}

\* "A link's latest record is stale when" an end is gone or has changed: a
\* worker that gets as far as state.json has brought the log up to date with
\* what it read, wherever the workers before it were killed.
FinishedLogIsSettled ==
    worker.at = "saving" =>
       \A l \in Links :
          /\ worker.fresh[l].match => log[l] = Rec(worker.fresh[l].ver, "active")
          /\ IsActive(log, l) => /\ worker.fresh[l] # Gone
                                 /\ ~Changed(log[l].ver, worker.fresh[l].ver)

\* "Records are appended to links.jsonl and upserted into the co-located
\* links.db in the same lock scope": whenever nobody holds the lock, the view
\* the queries read shows the last record of each link.  It holds until a worker
\* is killed inside that scope, or a first query builds the view from a log it
\* read too early; and again from the next compaction on.  (The
\* types are checked along.)
ViewFollowsLogUnlessCut ==
    /\ LinkTypeOK
    /\ ~Locked /\ db # NoRecord /\ "view" \notin cut => db = log

\* "A collapsed symbol read must not stale-mark a non-empty link set."  The guard
\* counts on state.json, so it holds until a worker is killed between its first
\* append and state.json, and again once a worker has got that far.
CollapseStalesNothingUnlessCut ==
    [][worker.collapsed /\ ~worker.reconcile /\ "count" \notin cut =>
         \A l \in Links : IsActive(log, l) => log'[l] = log[l]]_linkVars
=============================================================================
