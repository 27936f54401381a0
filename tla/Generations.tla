----------------------------- MODULE Generations -----------------------------
(***************************************************************************)
(* cortex_harness/storage/generation.py: the GenerationManager of one      *)
(* physical target, called by several threads of one process.              *)
(*                                                                         *)
(* A generation is a directory with a record and a graph/vector pair.  A   *)
(* pointer file names the active one; tombstones and markers fence the     *)
(* retired and the incompatible ones.  These files survive a kill of the   *)
(* process; the cached selection, the reference counts and the set of      *)
(* retirements in progress do not.                                         *)
(*                                                                         *)
(* A section under _publication_lock is one step.  What the code does      *)
(* between two sections, on purpose outside the lock, is a step of its     *)
(* own: validation, the generation record, the removal of a directory.     *)
(***************************************************************************)
EXTENDS Integers

CONSTANTS
    Generations,
    Threads,        \* the threads that call the manager, one call at a time
    None,
    DirSyncFails    \* may the fsync of a directory fail after os.replace?

Unloaded == "unloaded"   \* _active_cache_loaded is False

ASSUME GenerationConstants ==
    /\ None \notin Generations /\ Unloaded \notin Generations \union {None}
    /\ DirSyncFails \in BOOLEAN

VARIABLES
    pointer,        \* active-generation.json
    disk,           \* what the directory of a generation holds
    retired,        \* retired-generations/: the tombstones
    incompatible,   \* generation-compatibility/: the markers
    cache,          \* _active_cache with _active_cache_loaded
    references,     \* _references
    retiring,       \* _retiring
    call            \* what each thread is doing, and on which generation

durableVars == <<pointer, disk, retired, incompatible>>
memoryVars == <<cache, references, retiring>>
vars == <<durableVars, memoryVars, call>>

Idle == [at |-> "idle", gen |-> None]
Stages == {"validated", "fenced", "recorded", "pinned", "removing"}

\* A fresh target, or one that a former process left with generation g active.
Init ==
    /\ pointer \in Generations \union {None}
    /\ disk = [g \in Generations |->
                 IF g = pointer THEN {"record", "stores"} ELSE {}]
    /\ retired = {} /\ incompatible = {} /\ retiring = {}
    /\ cache = Unloaded
    /\ references = [g \in Generations |-> 0]
    /\ call = [t \in Threads |-> Idle]

At(t, stage) == call[t].at = stage
Gen(t) == call[t].gen
Go(t, stage, g) == call' = [call EXCEPT ![t] = [at |-> stage, gen |-> g]]
\* The call returns, or raises.
Done(t) == call' = [call EXCEPT ![t] = Idle]

\* _write_generation_record creates the directory when it is missing.
WriteRecord(g) == disk' = [disk EXCEPT ![g] = @ \union {"record"}]

-----------------------------------------------------------------------------
(* Staging.                                                                 *)

Allocate(g) ==
    /\ WriteRecord(g)
    /\ UNCHANGED <<pointer, retired, incompatible, memoryVars, call>>

\* The backends fill the pair of an allocated generation.
FillStores(g) ==
    /\ "record" \in disk[g] /\ g # pointer
    /\ disk' = [disk EXCEPT ![g] = @ \union {"stores"}]
    /\ UNCHANGED <<pointer, retired, incompatible, memoryVars, call>>

-----------------------------------------------------------------------------
(* _load_active_unlocked: the cached selection, or the one on disk.  It     *)
(* raises, and loads nothing, when that one is fenced as incompatible.      *)

LoadRaises == cache = Unloaded /\ pointer \in incompatible
Loaded == IF cache = Unloaded THEN pointer ELSE cache

\* load_active; also a pin that finds no active generation, and a retirement
\* that is refused: all they leave behind is the cached selection.
LoadActive ==
    /\ ~LoadRaises
    /\ cache' = Loaded
    /\ UNCHANGED <<durableVars, references, retiring, call>>

Recover ==
    /\ cache' = IF pointer \in incompatible THEN Unloaded ELSE pointer
    /\ UNCHANGED <<durableVars, references, retiring, call>>

-----------------------------------------------------------------------------
(* publish                                                                  *)

\* The caller's validation opens the candidate's stores.
PublishValidate(t, g) ==
    /\ At(t, "idle")
    /\ g \notin incompatible /\ "stores" \in disk[g]
    /\ Go(t, "validated", g)
    /\ UNCHANGED <<durableVars, memoryVars>>

PublishFence(t) ==
    /\ At(t, "validated")
    /\ IF Gen(t) \in retired THEN Done(t) ELSE Go(t, "fenced", Gen(t))
    /\ UNCHANGED <<durableVars, memoryVars>>

PublishRecord(t) ==
    /\ At(t, "fenced")
    /\ WriteRecord(Gen(t))
    /\ Go(t, "recorded", Gen(t))
    /\ UNCHANGED <<pointer, retired, incompatible, memoryVars>>

\* The record or the temporary pointer file cannot be written.
PublishRaises(t) ==
    /\ At(t, "fenced") \/ At(t, "recorded")
    /\ Done(t)
    /\ UNCHANGED <<durableVars, memoryVars>>

CanSelect(g) ==
    /\ g \notin retiring
    /\ g \notin retired
    /\ "record" \in disk[g]
    /\ g \notin incompatible

\* Mutant of PublishSelect: the cached selection is not renewed.
PublishSelectUncached(t) ==
    /\ At(t, "recorded")
    /\ CanSelect(Gen(t))
    /\ pointer' = Gen(t)
    /\ Done(t)
    /\ UNCHANGED <<disk, retired, incompatible, memoryVars>>

\* _write_active_manifest_unlocked: os.replace is visible before the fsync of
\* the directory, and when that raises the cached selection is not set.
PublishSelect(t) ==
    /\ At(t, "recorded")
    /\ CanSelect(Gen(t))
    /\ pointer' = Gen(t)
    /\ \/ cache' = Gen(t)
       \/ DirSyncFails /\ UNCHANGED cache
    /\ Done(t)
    /\ UNCHANGED <<disk, retired, incompatible, references, retiring>>

PublishRefused(t) ==
    /\ At(t, "recorded")
    /\ ~CanSelect(Gen(t))
    /\ Done(t)
    /\ UNCHANGED <<durableVars, memoryVars>>

-----------------------------------------------------------------------------
(* pin_active                                                               *)

Pin(t) ==
    /\ At(t, "idle")
    /\ ~LoadRaises /\ Loaded # None
    /\ cache' = Loaded
    /\ references' = [references EXCEPT ![Loaded] = @ + 1]
    /\ Go(t, "pinned", Loaded)
    /\ UNCHANGED <<durableVars, retiring>>

Unpin(t) ==
    /\ At(t, "pinned")
    /\ references' = [references EXCEPT ![Gen(t)] = IF @ <= 1 THEN 0 ELSE @ - 1]
    /\ Done(t)
    /\ UNCHANGED <<durableVars, cache, retiring>>

-----------------------------------------------------------------------------
(* retire and mark_incompatible                                             *)

\* Mutant of MayRetire: the readers are not looked at.
MayRetireReferenced(g) == ~LoadRaises /\ Loaded # g /\ g \notin retiring

MayRetire(g) ==
    /\ ~LoadRaises
    /\ Loaded # g
    /\ references[g] = 0
    /\ g \notin retiring

\* The tombstone is written first; when the fsync of its directory raises,
\* the retirement ends there.
RetireFence(t, g) ==
    /\ At(t, "idle")
    /\ MayRetire(g)
    /\ cache' = Loaded
    /\ retired' = retired \union {g}
    /\ \/ retiring' = retiring \union {g} /\ Go(t, "removing", g)
       \/ DirSyncFails /\ UNCHANGED <<retiring, call>>
    /\ UNCHANGED <<pointer, disk, incompatible, references>>

\* shutil.rmtree removes the entries one by one.
RetireRemove(t) ==
    /\ At(t, "removing")
    /\ \E e \in disk[Gen(t)] :
          disk' = [disk EXCEPT ![Gen(t)] = @ \ {e}]
    /\ UNCHANGED <<pointer, retired, incompatible, memoryVars, call>>

\* It ends when nothing is left, or before that with an error: an entry cannot
\* be removed, or a publication has put a record back into the directory.
RetireEnd(t) ==
    /\ At(t, "removing")
    /\ retiring' = retiring \ {Gen(t)}
    /\ Done(t)
    /\ UNCHANGED <<durableVars, cache, references>>

\* Mutant of MarkIncompatible: the cached selection survives the fence.
MarkIncompatibleUncached(g) ==
    /\ incompatible' = incompatible \union {g}
    /\ UNCHANGED <<pointer, disk, retired, memoryVars, call>>

MarkIncompatible(g) ==
    /\ incompatible' = incompatible \union {g}
    /\ \/ cache' = IF cache = g THEN Unloaded ELSE cache
       \/ DirSyncFails /\ UNCHANGED cache
    /\ UNCHANGED <<pointer, disk, retired, references, retiring, call>>

-----------------------------------------------------------------------------
\* The process is killed and started again.
Restart ==
    /\ cache' = Unloaded
    /\ references' = [g \in Generations |-> 0]
    /\ retiring' = {}
    /\ call' = [t \in Threads |-> Idle]
    /\ UNCHANGED durableVars

Step(t) ==
    \/ \E g \in Generations : PublishValidate(t, g) \/ RetireFence(t, g)
    \/ PublishFence(t) \/ PublishRecord(t) \/ PublishRaises(t)
    \/ PublishSelect(t) \/ PublishRefused(t)
    \/ Pin(t) \/ Unpin(t)
    \/ RetireRemove(t) \/ RetireEnd(t)

Next ==
    \/ \E g \in Generations : Allocate(g) \/ FillStores(g) \/ MarkIncompatible(g)
    \/ LoadActive \/ Recover \/ Restart
    \/ \E t \in Threads : Step(t)

Spec == Init /\ [][Next]_vars

-----------------------------------------------------------------------------
(* Properties                                                               *)

\* The files of the target and the state of the manager have their types.
TypeOK ==
    /\ pointer \in Generations \union {None}
    /\ disk \in [Generations -> SUBSET {"record", "stores"}]
    /\ retired \subseteq Generations
    /\ incompatible \subseteq Generations
    /\ cache \in Generations \union {None, Unloaded}
    /\ references \in [Generations -> Nat]
    /\ retiring \subseteq Generations
    /\ call \in [Threads -> {Idle} \union [at : Stages, gen : Generations]]

\* What a reader holds keeps its stores, and what the pointer names its stores
\* and its record: no interleaving of pins, publications and retirements lets
\* retire remove them, also after a kill, and although publish writes the record
\* outside the lock.  (The types are checked along.)
SelectedIsWhole ==
    /\ TypeOK
    /\ \A t \in Threads : At(t, "pinned") => "stores" \in disk[Gen(t)]
    /\ pointer # None => {"record", "stores"} \subseteq disk[pointer]

\* retire "Remove[s] a non-active generation": what the pointer names has no
\* tombstone, so a retired generation never comes back either.
RetiredIsNotActive == pointer \notin retired

\* A generation that mark_incompatible has fenced is not handed to a new
\* reader, although readers select from the cache and never look at the marker.
FencedIsNotPinned ==
    [][\A t \in Threads :
         ~At(t, "pinned") /\ At(t, "pinned")' => Gen(t)' \notin incompatible]_vars

\* The manager implements the register: every selection, pin and retirement
\* takes effect at one instant, on the pointer on disk, and survives a kill.
Register ==
    INSTANCE GenerationRegister WITH
        active <- pointer,
        held <- [t \in Threads |-> IF At(t, "pinned") THEN Gen(t) ELSE None]

ImplementsRegister == Register!Spec
=============================================================================
