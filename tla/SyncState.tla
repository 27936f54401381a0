------------------------------ MODULE SyncState ------------------------------
(***************************************************************************)
(* The baseline of the incremental sync: incremental_sync._run_incremental *)
(* around its analyzers, incremental_sync_state.py, source_inventory.py.   *)
(*                                                                         *)
(* A sync takes an inventory of the source files, compares it with the     *)
(* inventory of the last good sync, lets the analyzers rewrite in the      *)
(* graph what has changed, and publishes the new inventory as the baseline *)
(* if the sources are still what they were.  A sync that raises leaves the *)
(* state dirty, with its inventory, and the next one replays everything.   *)
(*                                                                         *)
(* One sync runs at a time (ProjectRunLock); people edit at any moment.    *)
(* The graph is abstracted to the versions of a file it holds facts of:    *)
(* one if all is well, two when a rewrite did not remove the old ones.     *)
(***************************************************************************)
EXTENDS Naturals, FiniteSets

CONSTANTS
    Files, Versions,
    Missing        \* no such file; no such inventory

Inventories == [Files -> Versions \union {Missing}]

ASSUME SyncConstants == Missing \notin Versions \union Inventories

VARIABLES
    src,                    \* the source tree
    graph,                  \* the versions of each file the graph holds
    base, dirty, pending,   \* inventory_path, dirty, dirty_inventory_paths
    sync,                   \* the running sync
    edited,                 \* the files edited since its inventory was taken
    strayed                 \* has the graph been written behind the state file's back?

syncVars == <<src, graph, base, dirty, pending, sync, edited, strayed>>

Present(inv) == {f \in Files : inv[f] # Missing}

NoSync == [at |-> "idle", inv |-> Missing, verify |-> {}, toClean |-> {}, toWrite |-> {},
           publish |-> FALSE]

SyncInit ==
    /\ src \in Inventories
    /\ graph = [f \in Files |-> {}]
    /\ base = Missing /\ dirty = FALSE /\ pending = {}
    /\ sync = NoSync /\ edited = {} /\ strayed = FALSE

-----------------------------------------------------------------------------
(* What a sync has to do                                                    *)

\* The inventories that say which files an earlier attempt may have written.
Retained == (IF dirty THEN pending ELSE {}) \union ({base} \ {Missing})

FullScan(full) == full \/ base = Missing

ChangedPaths(full) ==
    IF FullScan(full) \/ dirty THEN Present(src)
    ELSE {f \in Present(src) : src[f] # base[f]}

\* Mutant of DeletedPaths: the inventories of failed attempts are not consulted.
DeletedPathsFromBaseline(full) ==
    IF base = Missing \/ (full /\ ~dirty) THEN {} ELSE Present(base) \ Present(src)

DeletedPaths(full) ==
    IF FullScan(full) /\ ~dirty THEN {}
    ELSE (UNION {Present(i) : i \in Retained}) \ Present(src)

\* Only an analyzer that runs incrementally removes what the graph holds.
Incremental(full) == ~FullScan(full) \/ dirty

\* What is checked for edits afterwards.  Without changes that may be as little
\* as nothing, and the baseline is published in every mode.
Start(full, graphOnly) ==
    /\ sync.at = "idle"
    /\ graphOnly => full
    /\ dirty => Retained # {} \/ full
    /\ LET changed == ChangedPaths(full)
           deleted == DeletedPaths(full)
           nothing == changed = {} /\ deleted = {} /\ ~dirty
       IN  sync' = [at |-> "scanning", inv |-> src,
                    verify |-> IF FullScan(full) \/ dirty THEN Files ELSE changed,
                    toClean |-> IF Incremental(full)
                                THEN changed \union deleted ELSE {},
                    toWrite |-> changed,
                    publish |-> nothing \/ ~graphOnly]
    /\ edited' = {}
    /\ strayed' = (strayed \/ graphOnly \/ (base # Missing /\ ~Incremental(full)))
    /\ UNCHANGED <<src, graph, base, dirty, pending>>

-----------------------------------------------------------------------------
(* The analyzers                                                            *)

\* The facts of a file are removed; then it is read, and written.
Clean(f) ==
    /\ f \in sync.toClean
    /\ graph' = [graph EXCEPT ![f] = {}]
    /\ sync' = [sync EXCEPT !.toClean = @ \ {f}]
    /\ UNCHANGED <<src, base, dirty, pending, edited, strayed>>

Write(f) ==
    /\ f \in sync.toWrite \ sync.toClean
    /\ graph' = [graph EXCEPT ![f] = @ \union ({src[f]} \ {Missing})]
    /\ sync' = [sync EXCEPT !.toWrite = @ \ {f}]
    /\ UNCHANGED <<src, base, dirty, pending, edited, strayed>>

-----------------------------------------------------------------------------
(* The end of a sync                                                        *)

\* Mutant of Unchanged: only the contents are compared.
UnchangedByContent ==
    /\ \A f \in sync.verify : src[f] = sync.inv[f]
    /\ Present(src) = Present(sync.inv)

\* Whatever was touched counts as changed, even if it reads as before: the
\* entries compared have the modification time in them.
Unchanged ==
    /\ edited \intersect sync.verify = {}
    /\ Present(src) = Present(sync.inv)

End == sync' = NoSync /\ edited' = {}

MarkClean ==
    /\ base' = sync.inv
    /\ dirty' = FALSE
    /\ pending' = {}

Finish ==
    /\ sync.at = "scanning" /\ sync.toClean = {} /\ sync.toWrite = {}
    /\ Unchanged
    /\ IF sync.publish THEN MarkClean ELSE UNCHANGED <<base, dirty, pending>>
    /\ End
    /\ UNCHANGED <<src, graph, strayed>>

\* Any exception once the inventory is taken, an analyzer's included: the others
\* go on, and the sync raises at its end.  The inventory may fail to be written.
MarkDirty ==
    /\ dirty' = TRUE
    /\ \/ pending' = pending \union {sync.inv} /\ UNCHANGED strayed
       \/ strayed' = TRUE /\ UNCHANGED pending
    /\ UNCHANGED base

Raise ==
    /\ sync.at = "scanning"
    /\ MarkDirty
    /\ End
    /\ UNCHANGED <<src, graph>>

\* A killed process, and an interrupt from the keyboard, which is no Exception.
Kill ==
    /\ sync.at = "scanning"
    /\ strayed' = TRUE
    /\ End
    /\ UNCHANGED <<src, graph, base, dirty, pending>>

\* Somebody saves, creates or deletes a file, or checks another version out.
Edit(f, v) ==
    /\ sync.at = "idle" => src[f] # v
    /\ src' = [src EXCEPT ![f] = v]
    /\ edited' = IF sync.at = "idle" THEN edited ELSE edited \union {f}
    /\ UNCHANGED <<graph, base, dirty, pending, sync, strayed>>

SyncNext ==
    \/ \E full, graphOnly \in BOOLEAN : Start(full, graphOnly)
    \/ \E f \in Files : Clean(f) \/ Write(f)
    \/ Finish \/ Raise \/ Kill
    \/ \E f \in Files, v \in Versions \union {Missing} : Edit(f, v)

SyncSpec == SyncInit /\ [][SyncNext]_syncVars

-----------------------------------------------------------------------------
(* Properties                                                               *)

\* The state file, the sources, the graph and the sync have their types.
SyncTypeOK ==
    /\ src \in Inventories
    /\ graph \in [Files -> SUBSET Versions]
    /\ base \in Inventories \union {Missing} /\ dirty \in BOOLEAN
    /\ pending \subseteq Inventories
    /\ sync \in {NoSync} \union [at : {"scanning"}, inv : Inventories, verify : SUBSET Files,
                                 toClean : SUBSET Files, toWrite : SUBSET Files,
                                 publish : BOOLEAN]
    /\ edited \subseteq Files /\ strayed \in BOOLEAN

\* What the graph holds when it has been brought to an inventory.
Expected(inv, f) == {inv[f]} \ {Missing}

\* "SHA-256 inventory represents the last successfully scanned content": while no
\* sync runs and the state is clean, the graph holds for each file the version
\* the baseline names, and nothing else.  Every later decision not to scan a
\* file rests on that.  It holds until a sync is killed, scans a known tree in
\* full (which removes nothing), writes the graph only, or fails and cannot
\* write its inventory.  (The types are checked along.)
BaselineIsScannedUnlessStrayed ==
    /\ SyncTypeOK
    /\ sync.at = "idle" /\ ~dirty /\ base # Missing /\ ~strayed =>
          \A f \in Files : graph[f] = Expected(base, f)

\* "A prior dirty state can never become clean through an empty Git diff alone;
\* it must replay/verify the pending inventory transition": when dirty is
\* cleared, each file of the sources, of the baseline and of every failed
\* attempt on record is in the graph as it is in the new baseline.
DirtyIsReplayed ==
    [][dirty /\ ~dirty' =>
         \A f \in UNION {Present(i) : i \in Retained \union {base'}} :
            graph'[f] = Expected(base', f)]_syncVars
=============================================================================
