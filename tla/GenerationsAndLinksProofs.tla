--------------------- MODULE GenerationsAndLinksProofs ----------------------
(***************************************************************************)
(* Proofs about what readers see while another process replaces it: the    *)
(* stores of a generation, and the links of a workspace.                   *)
(*                                                                         *)
(* Generations, for any generations and any threads, on targets whose      *)
(* directory fsyncs succeed: after one that fails the cached selection is  *)
(* not the pointer, and retire asks the cache.  The invariant rests on two *)
(* facts that no single section of the code states.  A tombstone is for    *)
(* good, and is what orders a removal with everything else: a generation   *)
(* without one still has the stores its publication has validated.  And    *)
(* the reference counts are exact, so the retirement that finds none races *)
(* with no reader.                                                         *)
(*                                                                         *)
(* LinkStore, for any links, hashes and queries and any number of killed   *)
(* workers: the log is settled when a worker saves its state, the view     *)
(* follows the log, and the guard against a collapsed read works, as long  *)
(* as no kill is on record that excuses it.                                *)
(***************************************************************************)
EXTENDS Generations, LinkStore, TLAPS

-----------------------------------------------------------------------------
(* The generations.                                                         *)

Pinning(g) == {t \in Threads : At(t, "pinned") /\ Gen(t) = g}

\* The cached selection is the one on disk, and it is not fenced.
CacheIsPointer == cache # Unloaded => cache = pointer /\ cache \notin incompatible

PointerIsWhole ==
    /\ pointer \notin retired
    /\ pointer # None => {"record", "stores"} \subseteq disk[pointer]

\* n is the number of elements of S: they can be numbered from 1 to n.
Counts(n, S) ==
    \E f \in [1 .. n -> S] : /\ \A t \in S : \E i \in 1 .. n : f[i] = t
                            /\ \A i, j \in 1 .. n : f[i] = f[j] => i = j

ReferencesAreExact == \A g \in Generations : Counts(references[g], Pinning(g))

\* What a call still has to do fits the files: a removal has its tombstone, a
\* pinned generation has none, and what was validated is whole or has one.
CallIsCovered(t) ==
    /\ At(t, "removing") => Gen(t) \in retired
    /\ At(t, "pinned") => Gen(t) \notin retired /\ "stores" \in disk[Gen(t)]
    /\ call[t].at \in {"validated", "fenced", "recorded"} =>
          Gen(t) \in retired \/ "stores" \in disk[Gen(t)]

ManagerInv ==
    /\ TypeOK
    /\ CacheIsPointer
    /\ PointerIsWhole
    /\ ReferencesAreExact
    /\ \A t \in Threads : CallIsCovered(t)

-----------------------------------------------------------------------------
\* A call that is under way is about a generation, and an idle one about none.
LEMMA CallType ==
    ASSUME TypeOK, NEW t \in Threads
    PROVE  /\ call[t].at # "idle" => call[t].gen \in Generations
           /\ call[t].at = "idle" => call[t] = Idle
           /\ call[t].at \in Stages \union {"idle"}
BY DEF TypeOK, Stages, Idle

\* Only the empty set counts 0.
LEMMA CountNone ==
    ASSUME NEW S
    PROVE  Counts(0, S) <=> S = {}
<1>1. Counts(0, {})
  <2>1. [i \in 1 .. 0 |-> 0] \in [1 .. 0 -> {}]
    OBVIOUS
  <2> QED
    BY <2>1, Zenon DEF Counts
<1> QED
  BY <1>1, Zenon DEF Counts

\* One element more counts one more: what _references gains with a reader.
LEMMA CountMore ==
    ASSUME NEW n \in Nat, NEW S, Counts(n, S), NEW t, t \notin S
    PROVE  Counts(n + 1, S \union {t})
<1>1. PICK f \in [1 .. n -> S] : /\ \A u \in S : \E i \in 1 .. n : f[i] = u
                                /\ \A i, j \in 1 .. n : f[i] = f[j] => i = j
  BY DEF Counts
<1> DEFINE h == [i \in 1 .. n + 1 |-> IF i = n + 1 THEN t ELSE f[i]]
<1>2. h \in [1 .. n + 1 -> S \union {t}]
  OBVIOUS
<1>3. \A u \in S \union {t} : \E i \in 1 .. n + 1 : h[i] = u
  BY <1>1
<1>4. \A i, j \in 1 .. n + 1 : h[i] = h[j] => i = j
  BY <1>1
<1> HIDE DEF h
<1> QED
  BY <1>2, <1>3, <1>4, Zenon DEF Counts

\* One element less counts one less: what _references loses with a reader.
LEMMA CountLess ==
    ASSUME NEW n \in Nat, NEW S, Counts(n, S), NEW t \in S
    PROVE  n - 1 \in Nat /\ Counts(n - 1, S \ {t})
<1>1. PICK f \in [1 .. n -> S] : /\ \A u \in S : \E i \in 1 .. n : f[i] = u
                                /\ \A i, j \in 1 .. n : f[i] = f[j] => i = j
  BY DEF Counts
<1>2. PICK k \in 1 .. n : f[k] = t
  BY <1>1
<1> DEFINE h == [i \in 1 .. n - 1 |-> IF i = k THEN f[n] ELSE f[i]]
<1>3. h \in [1 .. n - 1 -> S \ {t}]
  BY <1>1, <1>2
<1>4. \A u \in S \ {t} : \E i \in 1 .. n - 1 : h[i] = u
  BY <1>1, <1>2
<1>5. \A i, j \in 1 .. n - 1 : h[i] = h[j] => i = j
  BY <1>1, <1>2
<1>6. n - 1 \in Nat
  BY <1>2
<1> HIDE DEF h
<1> QED
  BY <1>3, <1>4, <1>5, <1>6, Zenon DEF Counts

\* A generation without references has no reader.
LEMMA UnreferencedIsUnread ==
    ASSUME ReferencesAreExact, NEW g \in Generations, references[g] = 0,
           NEW t \in Threads, At(t, "pinned")
    PROVE  Gen(t) # g
<1>1. Pinning(g) = {}
  BY CountNone DEF ReferencesAreExact
<1> QED
  BY <1>1 DEF Pinning

\* A step after which the same threads hold the same generations keeps the
\* counts exact, if it leaves them alone.
LEMMA CountsFrame ==
    ASSUME ReferencesAreExact, UNCHANGED references,
           \A t \in Threads : /\ At(t, "pinned")' <=> At(t, "pinned")
                              /\ At(t, "pinned") => Gen(t)' = Gen(t)
    PROVE  ReferencesAreExact'
<1>1. \A g \in Generations : Pinning(g)' = Pinning(g)
  BY DEF Pinning
<1> QED
  BY <1>1 DEF ReferencesAreExact

\* A thread that goes from one stage to another, neither of them pinned.
LEMMA GoFrame ==
    ASSUME TypeOK, ReferencesAreExact, UNCHANGED references,
           NEW t \in Threads, ~At(t, "pinned"),
           NEW c, c.at # "pinned", call' = [call EXCEPT ![t] = c]
    PROVE  ReferencesAreExact'
BY CountsFrame DEF TypeOK, At, Gen

\* Pinning counts the thread once.
LEMMA PinCounts ==
    ASSUME TypeOK, ReferencesAreExact, CacheIsPointer, NEW t \in Threads, Pin(t)
    PROVE  ReferencesAreExact' /\ Loaded = pointer /\ pointer \in Generations
<1>1. Loaded = pointer /\ pointer \in Generations
  BY DEF Pin, Loaded, CacheIsPointer, TypeOK
<1>2. PICK p \in Generations : p = pointer
  BY <1>1
<1>3. call' = [call EXCEPT ![t] = [at |-> "pinned", gen |-> p]] /\ call[t].at = "idle"
  BY <1>1, <1>2 DEF Pin, Go, At
<1>4. Pinning(p)' = Pinning(p) \union {t} /\ t \notin Pinning(p)
  BY <1>3 DEF At, Gen, Pinning, TypeOK
<1>5. \A g \in Generations \ {p} : Pinning(g)' = Pinning(g)
  BY <1>3 DEF At, Gen, Pinning, TypeOK
<1>6. Counts(references[p] + 1, Pinning(p)')
  BY <1>4, CountMore DEF ReferencesAreExact, TypeOK
<1>7. references' = [references EXCEPT ![p] = @ + 1]
  BY <1>1, <1>2 DEF Pin
<1> QED
  BY <1>1, <1>5, <1>6, <1>7 DEF ReferencesAreExact, TypeOK

\* Unpinning takes it off once; the counter never runs below zero.
LEMMA UnpinCounts ==
    ASSUME TypeOK, ReferencesAreExact, NEW t \in Threads, Unpin(t)
    PROVE  ReferencesAreExact' /\ references' \in [Generations -> Nat]
<1>1. PICK h \in Generations : h = Gen(t)
  BY CallType DEF Unpin, At, Gen
<1>2. call' = [call EXCEPT ![t] = Idle] /\ call[t].at = "pinned" /\ call[t].gen = h
  BY <1>1 DEF Unpin, Done, At, Gen
<1>3. Pinning(h)' = Pinning(h) \ {t} /\ t \in Pinning(h)
  BY <1>2 DEF Idle, At, Gen, Pinning, TypeOK
<1>4. \A g \in Generations \ {h} : Pinning(g)' = Pinning(g)
  BY <1>2 DEF Idle, At, Gen, Pinning, TypeOK
<1>5. references[h] - 1 \in Nat /\ Counts(references[h] - 1, Pinning(h)')
  BY <1>3, CountLess DEF ReferencesAreExact, TypeOK
<1>6. references' = [references EXCEPT ![h] = @ - 1]
  <2>1. references' = [references EXCEPT ![h] = IF @ <= 1 THEN 0 ELSE @ - 1]
    BY <1>1 DEF Unpin
  <2>2. references[h] - 1 = IF references[h] <= 1 THEN 0 ELSE references[h] - 1
    BY <1>5 DEF TypeOK
  <2> QED
    BY <2>1, <2>2, Zenon
<1> QED
  BY <1>4, <1>5, <1>6 DEF ReferencesAreExact, TypeOK

-----------------------------------------------------------------------------
(* The invariant, action by action.                                         *)

\* A fresh target, or one that a former process left, satisfies it.
LEMMA InitManagerInv == Init => ManagerInv
<1> SUFFICES ASSUME Init PROVE ManagerInv
  OBVIOUS
<1>1. TypeOK /\ CacheIsPointer /\ PointerIsWhole
  BY DEF Init, TypeOK, CacheIsPointer, PointerIsWhole, Idle
<1>2. ReferencesAreExact
  <2>1. \A g \in Generations : Pinning(g) = {}
    BY DEF Init, Pinning, At, Idle
  <2> QED
    BY <2>1, CountNone DEF Init, ReferencesAreExact
<1>3. \A t \in Threads : CallIsCovered(t)
  BY DEF Init, CallIsCovered, At, Idle
<1> QED
  BY <1>1, <1>2, <1>3 DEF ManagerInv

\* A step outside the calls that only adds to directories or loads the cache.
LEMMA BesidePreserves ==
    ASSUME ~DirSyncFails, ManagerInv,
           \/ \E g \in Generations : Allocate(g) \/ FillStores(g) \/ MarkIncompatible(g)
           \/ LoadActive \/ Recover
           \/ UNCHANGED vars
    PROVE  ManagerInv'
<1> USE DEF durableVars, memoryVars
<1>1. ReferencesAreExact' /\ UNCHANGED <<pointer, retired, call>>
  <2>1. UNCHANGED <<pointer, retired, references, call>>
    BY DEF Allocate, FillStores, MarkIncompatible, LoadActive, Recover, vars
  <2> QED
    BY <2>1, CountsFrame DEF ManagerInv, At, Gen
<1>2. disk' \in [Generations -> SUBSET {"record", "stores"}]
      /\ \A g \in Generations : disk[g] \subseteq disk'[g]
  BY DEF ManagerInv, TypeOK, Allocate, WriteRecord, FillStores, MarkIncompatible,
         LoadActive, Recover, vars
<1>3. TypeOK'
  BY <1>1, <1>2 DEF ManagerInv, TypeOK, Allocate, FillStores, MarkIncompatible,
                    LoadActive, Recover, Loaded, vars
<1>4. CacheIsPointer'
  BY <1>1 DEF ManagerInv, TypeOK, CacheIsPointer, Allocate, FillStores,
              MarkIncompatible, LoadActive, LoadRaises, Recover, Loaded, vars
<1>5. PointerIsWhole'
  BY <1>1, <1>2 DEF ManagerInv, TypeOK, PointerIsWhole
<1>6. \A t \in Threads : CallIsCovered(t)'
  BY <1>1, <1>2, CallType DEF ManagerInv, CallIsCovered, At, Gen
<1> QED
  BY <1>1, <1>3, <1>4, <1>5, <1>6 DEF ManagerInv

\* A kill leaves the files, on which the rest of the invariant then rests.
LEMMA RestartPreserves ==
    ASSUME ManagerInv, Restart
    PROVE  ManagerInv'
<1>1. TypeOK' /\ CacheIsPointer' /\ PointerIsWhole'
  BY DEF ManagerInv, TypeOK, CacheIsPointer, PointerIsWhole, Restart, durableVars, Idle
<1>2. ReferencesAreExact'
  <2>1. \A g \in Generations : Pinning(g)' = {}
    BY DEF Restart, Pinning, At, Idle
  <2> QED
    BY <2>1, CountNone DEF Restart, ReferencesAreExact
<1>3. \A t \in Threads : CallIsCovered(t)'
  BY DEF Restart, CallIsCovered, At, Idle
<1> QED
  BY <1>1, <1>2, <1>3 DEF ManagerInv

\* The sections of publish.  What lies between validation and selection is
\* covered by the tombstone that the last section looks for.
LEMMA PublishPreserves ==
    ASSUME ~DirSyncFails, ManagerInv, NEW t \in Threads,
           \/ \E g \in Generations : PublishValidate(t, g)
           \/ PublishFence(t) \/ PublishRecord(t) \/ PublishRaises(t)
           \/ PublishSelect(t) \/ PublishRefused(t)
    PROVE  ManagerInv'
<1> USE DEF durableVars, memoryVars
<1>1. PICK c : /\ call' = [call EXCEPT ![t] = c]
               /\ c \in {Idle} \union [at : {"validated", "fenced", "recorded"}, gen : Generations]
               /\ c # Idle => c.gen \in retired \/ "stores" \in disk[c.gen]
               /\ c # Idle => c.gen \in Generations
  <2>1. CASE \E g \in Generations : PublishValidate(t, g)
    <3>1. PICK g \in Generations : PublishValidate(t, g)
      BY <2>1
    <3>2. call' = [call EXCEPT ![t] = [at |-> "validated", gen |-> g]] /\ "stores" \in disk[g]
      BY <3>1 DEF PublishValidate, Go
    <3> WITNESS [at |-> "validated", gen |-> g]
    <3> QED
      BY <3>2
  <2>2. CASE PublishFence(t) \/ PublishRecord(t)
    <3>1. /\ Gen(t) \in Generations
          /\ Gen(t) \in retired \/ "stores" \in disk[Gen(t)]
      BY <2>2, CallType DEF ManagerInv, CallIsCovered, PublishFence, PublishRecord, At, Gen
    <3> QED
      BY <2>2, <3>1 DEF PublishFence, PublishRecord, Go, Done
  <2>3. CASE PublishRaises(t) \/ PublishSelect(t) \/ PublishRefused(t)
    BY <2>3 DEF PublishRaises, PublishSelect, PublishRefused, Done
  <2> QED
    BY <2>1, <2>2, <2>3
<1>2. ~At(t, "pinned") /\ UNCHANGED <<retired, incompatible, references, retiring>>
  BY DEF PublishValidate, PublishFence, PublishRecord, PublishRaises, PublishSelect,
         PublishRefused, At
<1>3. disk' \in [Generations -> SUBSET {"record", "stores"}]
      /\ \A g \in Generations : disk[g] \subseteq disk'[g]
  BY DEF ManagerInv, TypeOK, PublishValidate, PublishFence, PublishRecord, WriteRecord,
         PublishRaises, PublishSelect, PublishRefused
<1>4. \/ UNCHANGED <<pointer, cache>>
      \/ /\ pointer' = Gen(t) /\ cache' = Gen(t) /\ Gen(t) \in Generations
         /\ Gen(t) \notin retired \union incompatible
         /\ {"record", "stores"} \subseteq disk[Gen(t)]
  <2>1. CASE PublishSelect(t)
    BY <2>1, CallType DEF ManagerInv, CallIsCovered, PublishSelect, CanSelect, At, Gen
  <2> QED
    BY <2>1 DEF PublishValidate, PublishFence, PublishRecord, PublishRaises, PublishRefused
<1>5. TypeOK'
  BY <1>1, <1>2, <1>3, <1>4 DEF ManagerInv, TypeOK, Stages
<1>6. CacheIsPointer' /\ PointerIsWhole'
  BY <1>2, <1>3, <1>4 DEF ManagerInv, TypeOK, CacheIsPointer, PointerIsWhole
<1>7. ReferencesAreExact'
  BY <1>1, <1>2, GoFrame, Zenon DEF ManagerInv, Idle
<1>8. \A u \in Threads : CallIsCovered(u)'
  BY <1>1, <1>2, <1>3, CallType DEF ManagerInv, TypeOK, CallIsCovered, At, Gen, Idle
<1> QED
  BY <1>5, <1>6, <1>7, <1>8 DEF ManagerInv

\* A reader takes the pointer, which has no tombstone, and gives it back.
LEMMA PinPreserves ==
    ASSUME ManagerInv, NEW t \in Threads, Pin(t) \/ Unpin(t)
    PROVE  ManagerInv'
<1> USE DEF durableVars
<1>1. CASE Pin(t)
  <2>1. /\ ReferencesAreExact' /\ pointer \in Generations
        /\ cache' = pointer /\ call' = [call EXCEPT ![t] = [at |-> "pinned", gen |-> pointer]]
        /\ references' = [references EXCEPT ![pointer] = @ + 1]
        /\ UNCHANGED <<pointer, disk, retired, incompatible, retiring>>
    BY <1>1, PinCounts, Zenon DEF ManagerInv, Pin, Go
  <2>2. TypeOK'
    BY <2>1 DEF ManagerInv, TypeOK, Stages
  <2>3. CacheIsPointer' /\ PointerIsWhole'
    BY <1>1, <2>1 DEF ManagerInv, CacheIsPointer, PointerIsWhole, Pin, LoadRaises
  <2>4. \A u \in Threads : CallIsCovered(u)'
    BY <2>1, GenerationConstants
       DEF ManagerInv, TypeOK, CallIsCovered, PointerIsWhole, At, Gen
  <2> QED
    BY <2>1, <2>2, <2>3, <2>4 DEF ManagerInv
<1>2. CASE Unpin(t)
  <2>1. /\ ReferencesAreExact' /\ references' \in [Generations -> Nat]
        /\ call' = [call EXCEPT ![t] = Idle]
        /\ UNCHANGED <<pointer, disk, retired, incompatible, cache, retiring>>
    BY <1>2, UnpinCounts, Zenon DEF ManagerInv, Unpin, Done
  <2>2. TypeOK' /\ CacheIsPointer' /\ PointerIsWhole'
    BY <2>1 DEF ManagerInv, TypeOK, CacheIsPointer, PointerIsWhole
  <2>3. \A u \in Threads : CallIsCovered(u)'
    BY <2>1 DEF ManagerInv, TypeOK, CallIsCovered, At, Gen, Idle
  <2> QED
    BY <2>1, <2>2, <2>3 DEF ManagerInv
<1> QED
  BY <1>1, <1>2

\* A retirement fences what is neither selected nor held, and then removes only
\* what is fenced.
LEMMA RetirePreserves ==
    ASSUME ~DirSyncFails, ManagerInv, NEW t \in Threads,
           \/ \E g \in Generations : RetireFence(t, g)
           \/ RetireRemove(t) \/ RetireEnd(t)
    PROVE  ManagerInv'
<1> USE DEF durableVars, memoryVars
<1>1. ASSUME NEW g \in Generations, RetireFence(t, g) PROVE ManagerInv'
  <2>1. /\ Loaded = pointer /\ g # pointer
        /\ call' = [call EXCEPT ![t] = [at |-> "removing", gen |-> g]]
        /\ cache' = pointer /\ pointer \notin incompatible
        /\ retired' = retired \union {g} /\ retiring' = retiring \union {g}
        /\ UNCHANGED <<pointer, disk, incompatible, references>>
    BY <1>1 DEF ManagerInv, CacheIsPointer, RetireFence, MayRetire, LoadRaises, Loaded, Go
  <2>2. \A u \in Threads : At(u, "pinned") => Gen(u) # g
    BY <1>1, UnreferencedIsUnread DEF ManagerInv, RetireFence, MayRetire
  <2>3. TypeOK' /\ CacheIsPointer' /\ PointerIsWhole'
    BY <2>1 DEF ManagerInv, TypeOK, CacheIsPointer, PointerIsWhole, Stages
  <2>4. ReferencesAreExact'
    BY <1>1, <2>1, GoFrame, Zenon DEF ManagerInv, RetireFence, At
  <2>5. \A u \in Threads : CallIsCovered(u)'
    BY <2>1, <2>2 DEF ManagerInv, TypeOK, CallIsCovered, At, Gen
  <2> QED
    BY <2>3, <2>4, <2>5 DEF ManagerInv
<1>2. CASE RetireRemove(t)
  <2>1. /\ Gen(t) \in retired /\ Gen(t) \in Generations
        /\ UNCHANGED <<pointer, retired, incompatible, cache, references, retiring, call>>
    BY <1>2, CallType DEF ManagerInv, CallIsCovered, RetireRemove, At, Gen
  <2>2. /\ disk' \in [Generations -> SUBSET {"record", "stores"}]
        /\ \A g \in Generations \ {Gen(t)} : disk'[g] = disk[g]
    BY <1>2, <2>1 DEF ManagerInv, TypeOK, RetireRemove
  <2>3. TypeOK' /\ CacheIsPointer' /\ PointerIsWhole'
    BY <2>1, <2>2 DEF ManagerInv, TypeOK, CacheIsPointer, PointerIsWhole
  <2>4. ReferencesAreExact'
    BY <2>1, CountsFrame DEF ManagerInv, At, Gen
  <2>5. \A u \in Threads : CallIsCovered(u)'
    BY <2>1, <2>2, CallType DEF ManagerInv, CallIsCovered, At, Gen
  <2> QED
    BY <2>3, <2>4, <2>5 DEF ManagerInv
<1>3. CASE RetireEnd(t)
  <2>1. /\ call' = [call EXCEPT ![t] = Idle] /\ ~At(t, "pinned")
        /\ retiring' \subseteq retiring
        /\ UNCHANGED <<pointer, disk, retired, incompatible, cache, references>>
    BY <1>3 DEF RetireEnd, Done, At
  <2>2. TypeOK' /\ CacheIsPointer' /\ PointerIsWhole'
    BY <2>1 DEF ManagerInv, TypeOK, CacheIsPointer, PointerIsWhole
  <2>3. ReferencesAreExact'
    BY <2>1, GoFrame, Zenon DEF ManagerInv, Idle
  <2>4. \A u \in Threads : CallIsCovered(u)'
    BY <2>1 DEF ManagerInv, TypeOK, CallIsCovered, At, Gen, Idle
  <2> QED
    BY <2>2, <2>3, <2>4 DEF ManagerInv
<1> QED
  BY <1>1, <1>2, <1>3

\* The invariant is inductive.
THEOREM ManagerInduction ==
    ASSUME ~DirSyncFails
    PROVE  Spec => []ManagerInv
<1>1. ManagerInv /\ [Next]_vars => ManagerInv'
  BY BesidePreserves, RestartPreserves, PublishPreserves, PinPreserves, RetirePreserves
     DEF Next, Step
<1> QED
  BY <1>1, InitManagerInv, PTL DEF Spec

-----------------------------------------------------------------------------
(* What the manager promises                                                *)

\* What a reader holds keeps its stores, and the pointer names a generation with
\* record and stores, whatever is published, retired and killed at the same time.
THEOREM SelectionStaysWhole ==
    ASSUME ~DirSyncFails
    PROVE  Spec => []SelectedIsWhole
<1>1. ManagerInv => SelectedIsWhole
  BY DEF ManagerInv, SelectedIsWhole, PointerIsWhole, CallIsCovered
<1> QED
  BY <1>1, ManagerInduction, PTL

\* The active generation is never one that retire has given up.
THEOREM ActiveIsNotRetired ==
    ASSUME ~DirSyncFails
    PROVE  Spec => []RetiredIsNotActive
<1>1. ManagerInv => RetiredIsNotActive
  BY DEF ManagerInv, PointerIsWhole, RetiredIsNotActive
<1> QED
  BY <1>1, ManagerInduction, PTL

\* Every thread that is not pinned before a step and is after it has pinned the
\* pointer in that step.
LEMMA OnlyPinPins ==
    ASSUME ~DirSyncFails, ManagerInv, [Next]_vars,
           NEW t \in Threads, ~At(t, "pinned"), At(t, "pinned")'
    PROVE  Pin(t)
<1>1. call' # call /\ ~Restart
  BY DEF At, Restart, Idle
<1>2. PICK u \in Threads : Step(u)
  BY <1>1 DEF Next, Allocate, FillStores, MarkIncompatible, LoadActive, Recover, vars
<1>3. CASE Pin(u)
  BY <1>3, Zenon DEF ManagerInv, TypeOK, Pin, Go, At
<1>4. CASE ~Pin(u)
  <2>1. CASE \E g \in Generations : PublishValidate(u, g)
    BY <2>1 DEF ManagerInv, TypeOK, PublishValidate, Go, At
  <2>2. CASE \E g \in Generations : RetireFence(u, g)
    BY <1>1, <2>2 DEF ManagerInv, TypeOK, RetireFence, Go, At
  <2>3. CASE RetireRemove(u)
    BY <1>1, <2>3 DEF RetireRemove
  <2>4. CASE PublishFence(u) \/ PublishRecord(u)
    BY <2>4 DEF ManagerInv, TypeOK, PublishFence, PublishRecord, Go, Done, Idle, At
  <2>5. CASE PublishRaises(u) \/ PublishSelect(u) \/ PublishRefused(u)
               \/ Unpin(u) \/ RetireEnd(u)
    BY <2>5 DEF ManagerInv, TypeOK, PublishRaises, PublishSelect, PublishRefused, Unpin,
                RetireEnd, Done, Idle, At
  <2> QED
    BY <1>2, <1>4, <2>1, <2>2, <2>3, <2>4, <2>5 DEF Step
<1> QED
  BY <1>3, <1>4

\* A generation fenced by mark_incompatible is given to no new reader, although
\* pin_active selects from the cache.
THEOREM FencedIsNeverPinned ==
    ASSUME ~DirSyncFails
    PROVE  Spec => FencedIsNotPinned
<1>1. ASSUME ManagerInv, [Next]_vars, NEW t \in Threads, ~At(t, "pinned"), At(t, "pinned")'
      PROVE  Gen(t)' \notin incompatible
  <2>1. Pin(t)
    BY <1>1, OnlyPinPins
  <2>2. Gen(t)' = pointer /\ pointer \notin incompatible
    BY <1>1, <2>1, PinCounts, Zenon
       DEF ManagerInv, TypeOK, CacheIsPointer, Pin, LoadRaises, Go, Gen
  <2> QED
    BY <2>2
<1>2. ManagerInv /\ [Next]_vars =>
        [\A t \in Threads :
           ~At(t, "pinned") /\ At(t, "pinned")' => Gen(t)' \notin incompatible]_vars
  BY <1>1
<1> QED
  BY <1>2, ManagerInduction, PTL DEF Spec, FencedIsNotPinned

-----------------------------------------------------------------------------
(* The manager implements the register.                                     *)

Held == [t \in Threads |-> IF At(t, "pinned") THEN Gen(t) ELSE None]

\* A step of one thread that neither was nor becomes a reader.
LEMMA NotHolding ==
    ASSUME TypeOK, NEW t \in Threads, ~At(t, "pinned"),
           NEW c, c.at # "pinned", call' = [call EXCEPT ![t] = c]
    PROVE  Held' = Held
BY DEF Held, TypeOK, At, Gen

\* The sections of publish do nothing to the register, up to the one that
\* selects.
LEMMA PublishImplements ==
    ASSUME ManagerInv, NEW t \in Threads,
           \/ \E g \in Generations : PublishValidate(t, g)
           \/ PublishFence(t) \/ PublishRecord(t) \/ PublishRaises(t)
           \/ PublishSelect(t) \/ PublishRefused(t)
    PROVE  \/ UNCHANGED <<pointer, Held, retired>>
           \/ \E g \in Generations : Register!Publish(g)
<1> USE DEF durableVars
<1>1. ~At(t, "pinned") /\ UNCHANGED retired
  BY DEF PublishValidate, PublishFence, PublishRecord, PublishRaises, PublishSelect,
         PublishRefused, At
<1>2. Held' = Held
  <2>1. ASSUME NEW g \in Generations, PublishValidate(t, g) PROVE Held' = Held
    BY <1>1, <2>1, NotHolding, Zenon DEF ManagerInv, PublishValidate, Go
  <2>2. CASE PublishFence(t) \/ PublishRecord(t)
    BY <1>1, <2>2, NotHolding, Zenon
       DEF ManagerInv, PublishFence, PublishRecord, Go, Done, Idle
  <2>3. CASE PublishRaises(t) \/ PublishSelect(t) \/ PublishRefused(t)
    BY <1>1, <2>3, NotHolding, Zenon
       DEF ManagerInv, PublishRaises, PublishSelect, PublishRefused, Done, Idle
  <2> QED
    BY <2>1, <2>2, <2>3
<1>3. CASE PublishSelect(t)
  <2>1. Gen(t) \in Generations
    BY <1>3, CallType DEF ManagerInv, PublishSelect, At, Gen
  <2>2. Register!Publish(Gen(t))
    BY <1>1, <1>2, <1>3 DEF PublishSelect, CanSelect, Register!Publish, Held
  <2> QED
    BY <2>1, <2>2
<1> QED
  BY <1>1, <1>2, <1>3
     DEF PublishValidate, PublishFence, PublishRecord, PublishRaises, PublishRefused

\* A reader takes the value of the register, and gives it back.
LEMMA PinImplements ==
    ASSUME ManagerInv, NEW t \in Threads, Pin(t) \/ Unpin(t)
    PROVE  Register!Pin(t) \/ Register!Unpin(t)
<1> USE DEF durableVars
<1>1. CASE Pin(t)
  <2>1. Loaded = pointer /\ pointer \in Generations
    BY <1>1, PinCounts DEF ManagerInv
  <2>2. Held' = [Held EXCEPT ![t] = pointer] /\ Held[t] = None
    BY <1>1, <2>1, Zenon DEF ManagerInv, TypeOK, Held, Pin, Go, At, Gen
  <2> QED
    BY <1>1, <2>1, <2>2, GenerationConstants DEF Register!Pin, Pin, Held
<1>2. CASE Unpin(t)
  <2>1. Held' = [Held EXCEPT ![t] = None]
    BY <1>2, Zenon DEF ManagerInv, TypeOK, Held, Unpin, Done, Idle, At, Gen
  <2> QED
    BY <1>2, <2>1 DEF Register!Unpin, Unpin, Held
<1> QED
  BY <1>1, <1>2

\* A retirement takes effect with its tombstone: the cache it asks is the
\* register, and the counts it asks are the readers.
LEMMA RetireImplements ==
    ASSUME ~DirSyncFails, ManagerInv, NEW t \in Threads,
           \/ \E g \in Generations : RetireFence(t, g)
           \/ RetireRemove(t) \/ RetireEnd(t)
    PROVE  \/ UNCHANGED <<pointer, Held, retired>>
           \/ \E g \in Generations : Register!Retire(g)
<1> USE DEF durableVars
<1>1. ASSUME NEW g \in Generations, RetireFence(t, g) PROVE Register!Retire(g)
  <2>1. g # pointer
    BY <1>1 DEF ManagerInv, CacheIsPointer, RetireFence, MayRetire, Loaded
  <2>2. \A u \in Threads : Held[u] # g
    BY <1>1, UnreferencedIsUnread, GenerationConstants
       DEF ManagerInv, RetireFence, MayRetire, Held
  <2>3. Held' = Held
    BY <1>1, NotHolding DEF ManagerInv, RetireFence, Go, At
  <2> QED
    BY <1>1, <2>1, <2>2, <2>3 DEF RetireFence, Register!Retire, Held
<1>2. CASE RetireRemove(t)
  BY <1>2 DEF RetireRemove, Held, At, Gen
<1>3. CASE RetireEnd(t)
  BY <1>3, NotHolding, Zenon DEF ManagerInv, RetireEnd, Done, Idle, At
<1> QED
  BY <1>1, <1>2, <1>3

\* The manager implements the register: each selection, pin and retirement takes
\* effect in one of its steps, on the pointer, and a kill only drops the pins.
THEOREM ManagerImplementsRegister ==
    ASSUME ~DirSyncFails
    PROVE  Spec => ImplementsRegister
<1>1. Init => Register!Init
  BY DEF Init, Register!Init, At, Idle
<1>2. ASSUME ManagerInv, [Next]_vars
      PROVE  Register!Next \/ UNCHANGED <<pointer, Held, retired>>
  <2>1. CASE UNCHANGED vars
    BY <2>1 DEF vars, durableVars, Held, At, Gen
  <2>2. CASE \/ \E g \in Generations : Allocate(g) \/ FillStores(g) \/ MarkIncompatible(g)
             \/ LoadActive \/ Recover
    BY <2>2 DEF Allocate, FillStores, MarkIncompatible, LoadActive, Recover, durableVars,
                Held, At, Gen
  <2>3. CASE Restart
    BY <2>3 DEF Restart, durableVars, Idle, At, Gen, Register!Next, Register!Restart
  <2>4. ASSUME NEW t \in Threads, Step(t)
        PROVE  Register!Next \/ UNCHANGED <<pointer, Held, retired>>
    BY <1>2, <2>4, PublishImplements, PinImplements, RetireImplements
       DEF Step, Register!Next
  <2> QED
    BY <1>2, <2>1, <2>2, <2>3, <2>4 DEF Next
<1>3. ManagerInv /\ [Next]_vars => [Register!Next]_(Register!vars)
  BY <1>2 DEF Register!vars, Held
<1> QED
  BY <1>1, <1>3, ManagerInduction, PTL DEF Spec, ImplementsRegister, Register!Spec

-----------------------------------------------------------------------------
(* The links.                                                               *)

Row(l) == IF db = NoRecord THEN NoRecord ELSE db[l]
Fresh(l) == Rec(worker.fresh[l].ver, "active")
NothingActive == \A l \in Links : ~IsActive(log, l)

\* What a worker has planned fits what it read.
LinkPlanIsSound ==
    worker.at # "idle" =>
       /\ worker.oversized => worker.reconcile /\ worker.stale = Empty
       /\ worker.collapsed => worker.fresh = [l \in Links |-> Gone]
       /\ worker.at \in {"staling", "adding"} => ~worker.oversized
       /\ worker.at = "compacting" => worker.oversized
       /\ worker.at \in {"begun", "staled"} => worker.written = {}
       /\ \A l \in Links :
             /\ worker.stale[l] # NoRecord => worker.stale[l].status = "stale"
             /\ worker.new[l] # NoRecord => worker.fresh[l].match /\ worker.new[l] = Fresh(l)
             /\ worker.fresh[l].match =>
                   worker.new[l] # NoRecord \/ (~worker.reconcile /\ log[l] = Fresh(l))

\* How far the log has come: what is still to be marked stale, then nothing
\* active that the graphs do not bear out.
LogIsOnTheWay ==
    /\ worker.at \in {"begun", "staling"} /\ ~worker.oversized => \A l \in Links :
          \/ /\ worker.stale[l] = NoRecord /\ l \notin worker.written
             /\ IsActive(log, l) => ~worker.reconcile /\ ~Drifted(worker.fresh, l)
          \/ worker.stale[l] # NoRecord /\ l \in worker.written /\ log[l] = worker.stale[l]
          \/ /\ worker.stale[l] # NoRecord /\ l \notin worker.written
             /\ IsActive(log, l) /\ (worker.reconcile \/ Drifted(worker.fresh, l))
    /\ worker.at \in {"staled", "adding"} /\ ~worker.oversized => \A l \in Links :
          /\ IsActive(log, l) => ~Drifted(worker.fresh, l)
          /\ l \in worker.written => worker.new[l] # NoRecord /\ log[l] = worker.new[l]
    /\ worker.at = "compacting" => log = worker.new

\* How far the view has come: behind by what was appended under the lock.
ViewIsOnTheWay ==
    "view" \notin cut =>
       /\ ~Locked => \A l \in Links : Row(l) = log[l]
       /\ worker.at \in {"staling", "adding"} =>
             \A l \in Links \ worker.written : Row(l) = log[l]

\* state.json counts the active links, so the guard knows when there are none.
CountIsSound ==
    "count" \notin cut =>
       /\ worker.at \in {"idle", "begun"} => counted \/ NothingActive
       /\ worker.at # "idle" /\ worker.collapsed /\ ~worker.reconcile => NothingActive

LinkInv ==
    /\ LinkTypeOK
    /\ LinkPlanIsSound /\ LogIsOnTheWay /\ FinishedLogIsSettled
    /\ ViewIsOnTheWay /\ CountIsSound

-----------------------------------------------------------------------------
\* A worker is idle or has read the graphs and made its plan.
LEMMA WorkerType ==
    ASSUME LinkTypeOK
    PROVE  /\ worker.at \in WorkerStages \union {"idle"}
           /\ worker.at = "idle" => worker = NoWorker
           /\ worker.at # "idle" =>
                 worker \in [at : WorkerStages, reconcile : BOOLEAN, collapsed : BOOLEAN,
                             oversized : BOOLEAN, fresh : [Links -> Ends], stale : View,
                             new : View, written : SUBSET Links]
BY DEF LinkTypeOK, NoWorker, WorkerStages

\* The end of a link that is matched is there.
LEMMA MatchedIsThere ==
    ASSUME NEW e \in Ends, e.match
    PROVE  e # Gone /\ e.ver \in Hashes
BY DEF Ends, Gone

\* A store without files is settled.
LEMMA InitLinkInv == LinkInit => LinkInv
<1> SUFFICES ASSUME LinkInit PROVE LinkInv
  OBVIOUS
<1>1. worker.at = "idle" /\ worker = NoWorker
  BY DEF LinkInit, NoWorker
<1>2. Empty \in View
  BY DEF Empty, View
<1>3. LinkTypeOK
  BY <1>2, Zenon DEF LinkInit, LinkTypeOK
<1>4. LinkPlanIsSound /\ LogIsOnTheWay /\ FinishedLogIsSettled
  BY <1>1 DEF LinkPlanIsSound, LogIsOnTheWay, FinishedLogIsSettled
<1>5. ViewIsOnTheWay /\ CountIsSound
  BY <1>1 DEF LinkInit, ViewIsOnTheWay, CountIsSound, Row, NothingActive, IsActive, Empty
<1> QED
  BY <1>3, <1>4, <1>5 DEF LinkInv

\* What a worker plans is right for the log as it reads it.
LEMMA BeginPreserves ==
    ASSUME LinkInv, NEW f \in [Links -> Ends], NEW c \in BOOLEAN, NEW a \in BOOLEAN,
           NEW o \in BOOLEAN, Begin(f, c, a, o)
    PROVE  LinkInv'
<1> DEFINE stale == IF o THEN Empty ELSE StaleCopies(f, a)
           new == NewRecords(f, a)
<1>1. /\ worker.at = "idle"
      /\ worker' = [at |-> "begun", reconcile |-> a, collapsed |-> c, oversized |-> o,
                    fresh |-> f, written |-> {}, stale |-> stale, new |-> new]
      /\ c => f = [l \in Links |-> Gone] /\ (a \/ ~counted)
      /\ o => a
      /\ UNCHANGED <<log, torn, db, counted, reader, cut>>
  BY DEF Begin
<1>2. ASSUME NEW l \in Links
      PROVE  /\ new[l] = IF f[l].match /\ (a \/ log[l] # Rec(f[l].ver, "active"))
                         THEN Rec(f[l].ver, "active") ELSE NoRecord
             /\ new[l] \in Records \union {NoRecord}
  <2>1. f[l].match => Rec(f[l].ver, "active") \in Records
    BY MatchedIsThere DEF Rec, Records
  <2> QED
    BY <2>1 DEF NewRecords
<1>3. ASSUME NEW l \in Links, ~o
      PROVE  /\ stale[l] = IF IsActive(log, l) /\ (a \/ Drifted(f, l))
                           THEN Rec(log[l].ver, "stale") ELSE NoRecord
             /\ stale[l] \in Records \union {NoRecord}
  <2>1. IsActive(log, l) => Rec(log[l].ver, "stale") \in Records
    BY DEF LinkInv, LinkTypeOK, View, IsActive, Rec, Records
  <2> QED
    BY <1>3, <2>1 DEF StaleCopies
<1>4. stale \in View /\ new \in View
  BY <1>2, <1>3 DEF View, Empty, StaleCopies, NewRecords
<1>5. LinkTypeOK'
  BY <1>1, <1>4, Zenon DEF LinkInv, LinkTypeOK, WorkerStages
<1>6. LinkPlanIsSound'
  <2>1. ASSUME NEW l \in Links
        PROVE  /\ stale[l] # NoRecord => stale[l].status = "stale"
               /\ new[l] # NoRecord => f[l].match /\ new[l] = Rec(f[l].ver, "active")
               /\ f[l].match => new[l] # NoRecord \/ (~a /\ log[l] = Rec(f[l].ver, "active"))
    <3>1. stale[l] # NoRecord => stale[l].status = "stale"
      <4>1. CASE o
        BY <4>1 DEF Empty
      <4>2. CASE ~o
        BY <4>2 DEF StaleCopies, Rec
      <4> QED
        BY <4>1, <4>2
    <3>2. f[l].match => Rec(f[l].ver, "active") # NoRecord
      BY MatchedIsThere, LinkConstants DEF Rec, Records
    <3> QED
      BY <1>2, <3>1, <3>2
  <2> QED
    BY <1>1, <2>1, Zenon DEF LinkPlanIsSound, Fresh
<1>7. LogIsOnTheWay' /\ FinishedLogIsSettled'
  <2>1. ASSUME NEW l \in Links, ~o
        PROVE  \/ stale[l] = NoRecord /\ (IsActive(log, l) => ~a /\ ~Drifted(f, l))
               \/ stale[l] # NoRecord /\ IsActive(log, l) /\ (a \/ Drifted(f, l))
    <3>1. IsActive(log, l) => Rec(log[l].ver, "stale") # NoRecord
      BY LinkConstants DEF LinkInv, LinkTypeOK, View, IsActive, Rec, Records
    <3> QED
      BY <1>3, <2>1, <3>1
  <2> QED
    BY <1>1, <2>1 DEF LogIsOnTheWay, FinishedLogIsSettled, IsActive, Drifted
<1>8. ViewIsOnTheWay'
  BY <1>1 DEF LinkInv, ViewIsOnTheWay, Row, Locked
<1>9. CountIsSound'
  BY <1>1 DEF LinkInv, CountIsSound, NothingActive, IsActive
<1> QED
  BY <1>5, <1>6, <1>7, <1>8, <1>9 DEF LinkInv

\* Taking the lock changes no file; a plan that appends nothing passes on.
LEMMA EnterStalePreserves ==
    ASSUME LinkInv, EnterStale PROVE LinkInv'
<1>1. PICK next \in {"staling", "staled"} :
        /\ worker.at = "begun" /\ worker' = [worker EXCEPT !.at = next]
        /\ next = "staled" <=> worker.stale = Empty
        /\ UNCHANGED <<log, torn, db, counted, reader, cut>>
  BY DEF EnterStale, Enter
<1>2. /\ worker'.at = next /\ worker'.written = {}
      /\ worker'.reconcile = worker.reconcile /\ worker'.collapsed = worker.collapsed
      /\ worker'.oversized = worker.oversized /\ worker'.fresh = worker.fresh
      /\ worker'.stale = worker.stale /\ worker'.new = worker.new
  BY <1>1, WorkerType DEF LinkInv, LinkPlanIsSound
<1>3. LinkTypeOK'
  BY <1>1, WorkerType DEF LinkInv, LinkTypeOK, WorkerStages
<1>4. LinkPlanIsSound'
  BY <1>1, <1>2 DEF LinkInv, LinkPlanIsSound, Fresh
<1>5. LogIsOnTheWay' /\ FinishedLogIsSettled'
  BY <1>1, <1>2 DEF LinkInv, LogIsOnTheWay, FinishedLogIsSettled, IsActive, Drifted, Empty,
     LinkPlanIsSound
<1>6. ViewIsOnTheWay' /\ CountIsSound'
  BY <1>1, <1>2 DEF LinkInv, ViewIsOnTheWay, CountIsSound, Row, Locked, NothingActive, IsActive
<1> QED
  BY <1>3, <1>4, <1>5, <1>6 DEF LinkInv

\* The worker turns from the stale records to the new ones.
LEMMA EnterNewPreserves ==
    ASSUME LinkInv, EnterNew PROVE LinkInv'
<1>1. PICK next \in {"adding", "saving"} :
        /\ worker.at = "staled" /\ worker' = [worker EXCEPT !.at = next]
        /\ ~worker.oversized
        /\ next = "saving" <=> worker.new = Empty
        /\ UNCHANGED <<log, torn, db, counted, reader, cut>>
  BY DEF EnterNew, Enter
<1>2. /\ worker'.at = next /\ worker'.written = worker.written
      /\ worker'.reconcile = worker.reconcile /\ worker'.collapsed = worker.collapsed
      /\ worker'.oversized = worker.oversized /\ worker'.fresh = worker.fresh
      /\ worker'.stale = worker.stale /\ worker'.new = worker.new
  BY <1>1, WorkerType DEF LinkInv
<1>3. LinkTypeOK'
  BY <1>1, WorkerType DEF LinkInv, LinkTypeOK, WorkerStages
<1>4. LinkPlanIsSound'
  BY <1>1, <1>2 DEF LinkInv, LinkPlanIsSound, Fresh
<1>5. LogIsOnTheWay'
  BY <1>1, <1>2 DEF LinkInv, LogIsOnTheWay, IsActive, Drifted
<1>6. FinishedLogIsSettled'
  BY <1>1, <1>2 DEF LinkInv, LogIsOnTheWay, FinishedLogIsSettled, IsActive, Drifted, Empty,
     LinkPlanIsSound, Fresh
<1>7. ViewIsOnTheWay' /\ CountIsSound'
  BY <1>1, <1>2 DEF LinkInv, ViewIsOnTheWay, CountIsSound, Row, Locked, NothingActive, IsActive
<1> QED
  BY <1>3, <1>4, <1>5, <1>6, <1>7 DEF LinkInv

\* A line is appended for a link the plan has one for.
LEMMA AppendStalePreserves ==
    ASSUME LinkInv, AppendStale PROVE LinkInv'
<1>1. PICK k \in Links \ worker.written :
        /\ worker.at = "staling" /\ worker.stale[k] # NoRecord
        /\ log' = [log EXCEPT ![k] = worker.stale[k]] /\ torn' = FALSE
        /\ worker' = [worker EXCEPT !.written = @ \union {k}]
        /\ UNCHANGED <<db, counted, reader, cut>>
  BY Zenon DEF AppendStale, Append, AppendLine
<1>2. /\ worker'.at = "staling" /\ worker'.written = worker.written \union {k}
      /\ worker'.reconcile = worker.reconcile /\ worker'.collapsed = worker.collapsed
      /\ worker'.oversized = worker.oversized /\ worker'.fresh = worker.fresh
      /\ worker'.stale = worker.stale /\ worker'.new = worker.new
  BY <1>1, WorkerType DEF LinkInv
<1>3. /\ ~worker.oversized /\ IsActive(log, k)
      /\ worker.reconcile \/ Drifted(worker.fresh, k)
      /\ worker.stale[k].status = "stale"
  BY <1>1 DEF LinkInv, LogIsOnTheWay, LinkPlanIsSound
<1>4. /\ log'[k] = worker.stale[k]
      /\ \A l \in Links : l # k => log'[l] = log[l]
  BY <1>1 DEF LinkInv, LinkTypeOK, View
<1>5. LinkTypeOK'
  <2>1. log' \in View
    BY <1>1, WorkerType DEF LinkInv, LinkTypeOK, View
  <2> QED
    BY <1>1, <2>1, WorkerType, Zenon DEF LinkInv, LinkTypeOK
<1>6. LinkPlanIsSound'
  <2>1. worker.fresh[k].match => worker.new[k] # NoRecord
    <3>1. ASSUME worker.fresh[k].match, worker.new[k] = NoRecord PROVE FALSE
      <4>1. worker.fresh[k] \in Ends
        BY <1>1, WorkerType DEF LinkInv
      <4>2. ~worker.reconcile /\ log[k] = Fresh(k)
        BY <1>1, <3>1 DEF LinkInv, LinkPlanIsSound
      <4> QED
        BY <1>3, <3>1, <4>1, <4>2, MatchedIsThere DEF Drifted, Changed, Fresh, Rec
    <3> QED
      BY <3>1
  <2> QED
    BY <1>1, <1>2, <1>4, <2>1 DEF LinkInv, LinkPlanIsSound, Fresh
<1>7. LogIsOnTheWay' /\ FinishedLogIsSettled'
  BY <1>1, <1>2, <1>4 DEF LinkInv, LogIsOnTheWay, FinishedLogIsSettled, IsActive, Drifted
<1>8. ViewIsOnTheWay'
  BY <1>1, <1>2, <1>4 DEF LinkInv, ViewIsOnTheWay, Row, Locked
<1>9. CountIsSound'
  BY <1>1, <1>2, <1>3 DEF LinkInv, CountIsSound, NothingActive
<1> QED
  BY <1>5, <1>6, <1>7, <1>8, <1>9 DEF LinkInv

\* A line of append_links brings its link to where the plan wants it.
LEMMA AppendNewPreserves ==
    ASSUME LinkInv, AppendNew PROVE LinkInv'
<1>1. PICK k \in Links \ worker.written :
        /\ worker.at = "adding" /\ worker.new[k] # NoRecord
        /\ log' = [log EXCEPT ![k] = worker.new[k]] /\ torn' = FALSE
        /\ worker' = [worker EXCEPT !.written = @ \union {k}]
        /\ UNCHANGED <<db, counted, reader, cut>>
  BY Zenon DEF AppendNew, Append, AppendLine
<1>2. /\ worker'.at = "adding" /\ worker'.written = worker.written \union {k}
      /\ worker'.reconcile = worker.reconcile /\ worker'.collapsed = worker.collapsed
      /\ worker'.oversized = worker.oversized /\ worker'.fresh = worker.fresh
      /\ worker'.stale = worker.stale /\ worker'.new = worker.new
  BY <1>1, WorkerType DEF LinkInv
<1>3. /\ ~worker.oversized
      /\ worker.fresh[k].match /\ worker.new[k] = Fresh(k)
  BY <1>1 DEF LinkInv, LinkPlanIsSound
<1>4. /\ log'[k] = worker.new[k]
      /\ \A l \in Links : l # k => log'[l] = log[l]
  BY <1>1 DEF LinkInv, LinkTypeOK, View
<1>5. LinkTypeOK'
  <2>1. log' \in View
    BY <1>1, WorkerType DEF LinkInv, LinkTypeOK, View
  <2> QED
    BY <1>1, <2>1, WorkerType, Zenon DEF LinkInv, LinkTypeOK
<1>6. LinkPlanIsSound'
  BY <1>1, <1>2, <1>4 DEF LinkInv, LinkPlanIsSound, Fresh
<1>7. LogIsOnTheWay' /\ FinishedLogIsSettled'
  <2>1. log'[k].ver = worker.fresh[k].ver /\ worker.fresh[k] # Gone
    BY <1>1, <1>3, <1>4, WorkerType, MatchedIsThere DEF LinkInv, Fresh, Rec
  <2> QED
    BY <1>1, <1>2, <1>4, <2>1
       DEF LinkInv, LogIsOnTheWay, FinishedLogIsSettled, IsActive, Drifted, Changed
<1>8. ViewIsOnTheWay'
  BY <1>1, <1>2, <1>4 DEF LinkInv, ViewIsOnTheWay, Row, Locked
<1>9. CountIsSound'
  <2>1. ~worker.collapsed
    BY <1>1, <1>3 DEF LinkInv, LinkPlanIsSound, Gone
  <2> QED
    BY <1>1, <1>2, <2>1 DEF LinkInv, CountIsSound
<1> QED
  BY <1>5, <1>6, <1>7, <1>8, <1>9 DEF LinkInv

\* The upsert at the end of the lock scope brings the view up to the log.
LEMMA UpsertStalePreserves ==
    ASSUME LinkInv, UpsertStale PROVE LinkInv'
<1>1. /\ worker.at = "staling"
      /\ \A l \in Links : worker.stale[l] # NoRecord => l \in worker.written
      /\ db' = Upserted(worker.stale)
      /\ worker' = [worker EXCEPT !.at = "staled", !.written = {}]
      /\ UNCHANGED <<log, torn, counted, reader, cut>>
  BY DEF UpsertStale, Upsert
<1>2. /\ worker'.at = "staled" /\ worker'.written = {}
      /\ worker'.reconcile = worker.reconcile /\ worker'.collapsed = worker.collapsed
      /\ worker'.oversized = worker.oversized /\ worker'.fresh = worker.fresh
      /\ worker'.stale = worker.stale /\ worker'.new = worker.new
  BY <1>1, WorkerType DEF LinkInv
<1>3. /\ ~worker.oversized
      /\ \A l \in Links : worker.stale[l] # NoRecord => worker.stale[l].status = "stale"
  BY <1>1 DEF LinkInv, LinkPlanIsSound
<1>4. db' \in View /\ db' # NoRecord
  <2>1. worker.stale \in View
    BY <1>1, WorkerType DEF LinkInv
  <2>2. db' \in View
    BY <1>1, <2>1 DEF LinkInv, LinkTypeOK, View, Upserted
  <2> QED
    BY <2>2, LinkConstants
<1>5. LinkTypeOK'
  BY <1>1, <1>4, WorkerType, Zenon DEF LinkInv, LinkTypeOK, WorkerStages
<1>6. LinkPlanIsSound'
  BY <1>1, <1>2 DEF LinkInv, LinkPlanIsSound, Fresh
<1>7. LogIsOnTheWay' /\ FinishedLogIsSettled'
  BY <1>1, <1>2, <1>3 DEF LinkInv, LogIsOnTheWay, FinishedLogIsSettled, IsActive, Drifted
<1>8. ViewIsOnTheWay'
  <2>1. ASSUME NEW l \in Links, "view" \notin cut
        PROVE  db'[l] = log[l]
    <3>1. db'[l] = IF worker.stale[l] # NoRecord THEN worker.stale[l] ELSE Row(l)
      BY <1>1 DEF Upserted, Row
    <3>2. worker.stale[l] # NoRecord => log[l] = worker.stale[l]
      BY <1>1, <1>3 DEF LinkInv, LogIsOnTheWay
    <3>3. worker.stale[l] = NoRecord => l \notin worker.written
      BY <1>1, <1>3 DEF LinkInv, LogIsOnTheWay
    <3> QED
      BY <1>1, <2>1, <3>1, <3>2, <3>3 DEF LinkInv, ViewIsOnTheWay
  <2> QED
    BY <1>1, <1>2, <1>4, <2>1 DEF ViewIsOnTheWay, Row
<1>9. CountIsSound'
  BY <1>1, <1>2 DEF LinkInv, CountIsSound, NothingActive, IsActive
<1> QED
  BY <1>5, <1>6, <1>7, <1>8, <1>9 DEF LinkInv

\* The upsert after append_links brings the view to where the log is.
LEMMA UpsertNewPreserves ==
    ASSUME LinkInv, UpsertNew PROVE LinkInv'
<1>1. /\ worker.at = "adding"
      /\ \A l \in Links : worker.new[l] # NoRecord => l \in worker.written
      /\ db' = Upserted(worker.new)
      /\ worker' = [worker EXCEPT !.at = "saving", !.written = {}]
      /\ UNCHANGED <<log, torn, counted, reader, cut>>
  BY DEF UpsertNew, Upsert
<1>2. /\ worker'.at = "saving" /\ worker'.written = {}
      /\ worker'.reconcile = worker.reconcile /\ worker'.collapsed = worker.collapsed
      /\ worker'.oversized = worker.oversized /\ worker'.fresh = worker.fresh
      /\ worker'.stale = worker.stale /\ worker'.new = worker.new
  BY <1>1, WorkerType DEF LinkInv
<1>3. ~worker.oversized
  BY <1>1 DEF LinkInv, LinkPlanIsSound
<1>4. db' \in View /\ db' # NoRecord
  <2>1. worker.new \in View
    BY <1>1, WorkerType DEF LinkInv
  <2>2. db' \in View
    BY <1>1, <2>1 DEF LinkInv, LinkTypeOK, View, Upserted
  <2> QED
    BY <2>2, LinkConstants
<1>5. LinkTypeOK'
  BY <1>1, <1>4, WorkerType, Zenon DEF LinkInv, LinkTypeOK, WorkerStages
<1>6. LinkPlanIsSound'
  BY <1>1, <1>2 DEF LinkInv, LinkPlanIsSound, Fresh
<1>7. LogIsOnTheWay'
  BY <1>1, <1>2 DEF LinkInv, LogIsOnTheWay
<1>8. FinishedLogIsSettled'
  <2>1. ASSUME NEW l \in Links
        PROVE  /\ worker.fresh[l].match => log[l] = Fresh(l)
               /\ IsActive(log, l) => ~Drifted(worker.fresh, l)
    BY <1>1, <1>3 DEF LinkInv, LinkPlanIsSound, LogIsOnTheWay
  <2> QED
    BY <1>1, <1>2, <2>1 DEF FinishedLogIsSettled, Fresh, Drifted, IsActive
<1>9. ViewIsOnTheWay'
  <2>1. ASSUME NEW l \in Links, "view" \notin cut
        PROVE  db'[l] = log[l]
    <3>1. db'[l] = IF worker.new[l] # NoRecord THEN worker.new[l] ELSE Row(l)
      BY <1>1 DEF Upserted, Row
    <3>2. l \in worker.written => worker.new[l] # NoRecord /\ log[l] = worker.new[l]
      BY <1>1, <1>3 DEF LinkInv, LogIsOnTheWay
    <3> QED
      BY <1>1, <2>1, <3>1, <3>2 DEF LinkInv, ViewIsOnTheWay
  <2> QED
    BY <1>1, <1>2, <1>4, <2>1 DEF ViewIsOnTheWay, Row
<1>10. CountIsSound'
  BY <1>1, <1>2 DEF LinkInv, CountIsSound, NothingActive, IsActive
<1> QED
  BY <1>5, <1>6, <1>7, <1>8, <1>9, <1>10 DEF LinkInv

\* A compaction leaves exactly the new records, in the log and then in the view.
LEMMA CompactLogPreserves ==
    ASSUME LinkInv, CompactLog PROVE LinkInv'
<1>1. /\ worker.at = "staled" /\ worker.oversized /\ worker.reconcile
      /\ log' = worker.new /\ torn' = FALSE
      /\ worker' = [worker EXCEPT !.at = "compacting"]
      /\ UNCHANGED <<db, counted, reader, cut>>
  BY DEF CompactLog, LinkInv, LinkPlanIsSound
<1>2. /\ worker'.at = "compacting" /\ worker'.written = worker.written
      /\ worker'.reconcile = worker.reconcile /\ worker'.collapsed = worker.collapsed
      /\ worker'.oversized = worker.oversized /\ worker'.fresh = worker.fresh
      /\ worker'.stale = worker.stale /\ worker'.new = worker.new
  BY <1>1, WorkerType, Zenon DEF LinkInv
<1>3. LinkTypeOK'
  BY <1>1, WorkerType, Zenon DEF LinkInv, LinkTypeOK, WorkerStages
<1>4. LinkPlanIsSound'
  BY <1>1, <1>2 DEF LinkInv, LinkPlanIsSound, Fresh
<1>5. LogIsOnTheWay' /\ FinishedLogIsSettled'
  BY <1>1, <1>2 DEF LogIsOnTheWay, FinishedLogIsSettled
<1>6. ViewIsOnTheWay' /\ CountIsSound'
  BY <1>1, <1>2 DEF ViewIsOnTheWay, CountIsSound, Locked
<1> QED
  BY <1>3, <1>4, <1>5, <1>6 DEF LinkInv

\* The database rebuilt after a compaction is the log.
LEMMA CompactDbPreserves ==
    ASSUME LinkInv, CompactDb PROVE LinkInv'
<1>1. /\ worker.at = "compacting" /\ worker.oversized /\ worker.reconcile
      /\ log = worker.new /\ db' = log /\ cut' = cut \ {"view"}
      /\ worker' = [worker EXCEPT !.at = "saving"]
      /\ UNCHANGED <<log, torn, counted, reader>>
  BY DEF CompactDb, LinkInv, LinkPlanIsSound, LogIsOnTheWay
<1>2. /\ worker'.at = "saving" /\ worker'.written = worker.written
      /\ worker'.reconcile = worker.reconcile /\ worker'.collapsed = worker.collapsed
      /\ worker'.oversized = worker.oversized /\ worker'.fresh = worker.fresh
      /\ worker'.stale = worker.stale /\ worker'.new = worker.new
  BY <1>1, WorkerType, Zenon DEF LinkInv
<1>3. LinkTypeOK'
  BY <1>1, WorkerType DEF LinkInv, LinkTypeOK, WorkerStages
<1>4. LinkPlanIsSound'
  BY <1>1, <1>2 DEF LinkInv, LinkPlanIsSound, Fresh
<1>5. LogIsOnTheWay'
  BY <1>1, <1>2 DEF LogIsOnTheWay
<1>6. FinishedLogIsSettled'
  <2>1. ASSUME NEW l \in Links
        PROVE  /\ worker.fresh[l].match => log[l] = Rec(worker.fresh[l].ver, "active")
               /\ IsActive(log, l) => worker.fresh[l].match /\ log[l].ver = worker.fresh[l].ver
    <3>1. worker.fresh[l].match => worker.new[l] # NoRecord
      BY <1>1 DEF LinkInv, LinkPlanIsSound
    <3>2. worker.new[l] # NoRecord => worker.fresh[l].match /\ worker.new[l] = Fresh(l)
      BY <1>1 DEF LinkInv, LinkPlanIsSound
    <3> QED
      BY <1>1, <3>1, <3>2 DEF Fresh, Rec, IsActive
  <2>2. \A l \in Links : worker.fresh[l] \in Ends
    BY <1>1, WorkerType DEF LinkInv
  <2> QED
    BY <1>1, <1>2, <2>1, <2>2, MatchedIsThere DEF FinishedLogIsSettled, Changed, IsActive
<1>7. ViewIsOnTheWay'
  <2>1. db' # NoRecord
    BY <1>1, LinkConstants DEF LinkInv, LinkTypeOK
  <2> QED
    BY <1>1, <1>2, <2>1 DEF ViewIsOnTheWay, Row
<1>8. CountIsSound'
  BY <1>1, <1>2 DEF CountIsSound
<1> QED
  BY <1>3, <1>4, <1>5, <1>6, <1>7, <1>8 DEF LinkInv

\* state.json is written from the whole log.
LEMMA SaveStatePreserves ==
    ASSUME LinkInv, SaveState PROVE LinkInv'
<1>1. /\ worker.at = "saving" /\ worker' = NoWorker /\ worker'.at = "idle"
      /\ counted' = (\E l \in Links : IsActive(log, l)) /\ cut' = cut \ {"count"}
      /\ UNCHANGED <<log, torn, db, reader>>
  BY DEF SaveState, NoWorker
<1>2. LinkTypeOK'
  BY <1>1 DEF LinkInv, LinkTypeOK
<1>3. LinkPlanIsSound' /\ LogIsOnTheWay' /\ FinishedLogIsSettled'
  BY <1>1 DEF LinkPlanIsSound, LogIsOnTheWay, FinishedLogIsSettled
<1>4. ViewIsOnTheWay'
  BY <1>1 DEF LinkInv, ViewIsOnTheWay, Locked, Row
<1>5. CountIsSound'
  BY <1>1 DEF CountIsSound, NothingActive, IsActive
<1> QED
  BY <1>2, <1>3, <1>4, <1>5 DEF LinkInv

\* A kill between the first append and the view, or state.json, is on record.
LEMMA KillPreserves ==
    ASSUME LinkInv, KillWorker PROVE LinkInv'
<1>1. /\ worker.at # "idle" /\ worker' = NoWorker /\ worker'.at = "idle"
      /\ UNCHANGED <<log, counted, reader>>
      /\ cut' \subseteq {"view", "count"} /\ cut \subseteq cut'
      /\ Locked => "view" \in cut'
      /\ worker.at # "begun" => "count" \in cut'
      /\ ~Locked => db' = db
  BY DEF KillWorker, NoWorker, LinkInv, LinkTypeOK
<1>2. LinkTypeOK'
  <2>1. torn' \in BOOLEAN /\ db' \in View \union {NoRecord}
    BY Zenon DEF KillWorker, LinkInv, LinkTypeOK, Empty, View
  <2> QED
    BY <1>1, <2>1 DEF LinkInv, LinkTypeOK
<1>3. LinkPlanIsSound' /\ LogIsOnTheWay' /\ FinishedLogIsSettled'
  BY <1>1 DEF LinkPlanIsSound, LogIsOnTheWay, FinishedLogIsSettled
<1>4. ViewIsOnTheWay'
  BY <1>1 DEF LinkInv, ViewIsOnTheWay, Row
<1>5. CountIsSound'
  BY <1>1 DEF LinkInv, CountIsSound, NothingActive, IsActive
<1> QED
  BY <1>2, <1>3, <1>4, <1>5 DEF LinkInv

\* A first query builds the view from the log, or is on record as late.
LEMMA QueryPreserves ==
    ASSUME LinkInv, NEW r \in Readers, QueryReadsLog(r) \/ QueryBuildsDb(r)
    PROVE  LinkInv'
<1>1. UNCHANGED <<log, torn, counted, worker>> /\ cut' \ {"view"} = cut \ {"view"}
  BY DEF QueryReadsLog, QueryBuildsDb
<1>2. LinkTypeOK'
  BY Zenon DEF LinkInv, LinkTypeOK, QueryReadsLog, QueryBuildsDb
<1>3. LinkPlanIsSound' /\ LogIsOnTheWay' /\ FinishedLogIsSettled'
  BY <1>1, Zenon
     DEF LinkInv, LinkPlanIsSound, LogIsOnTheWay, FinishedLogIsSettled, Fresh, IsActive,
         Drifted
<1>4. ViewIsOnTheWay'
  <2>1. CASE QueryReadsLog(r)
    BY <2>1 DEF QueryReadsLog, LinkInv, ViewIsOnTheWay, Row, Locked
  <2>2. CASE QueryBuildsDb(r)
    BY <2>2 DEF QueryBuildsDb, ViewIsOnTheWay, Row, Locked
  <2> QED
    BY <2>1, <2>2
<1>5. CountIsSound'
  BY <1>1 DEF LinkInv, CountIsSound, NothingActive, IsActive
<1> QED
  BY <1>2, <1>3, <1>4, <1>5 DEF LinkInv

-----------------------------------------------------------------------------
\* LinkInv is inductive: however the workers and the queries interleave, and
\* wherever build_links is killed, log, view and state.json are on their way.
THEOREM LinkInduction == LinkSpec => []LinkInv
<1>1. LinkInv /\ [LinkNext]_linkVars => LinkInv'
  <2> SUFFICES ASSUME LinkInv, [LinkNext]_linkVars PROVE LinkInv'
    OBVIOUS
  <2>1. ASSUME NEW f \in [Links -> Ends], NEW c \in BOOLEAN, NEW a \in BOOLEAN,
               NEW o \in BOOLEAN, Begin(f, c, a, o)
        PROVE  LinkInv'
    BY <2>1, BeginPreserves
  <2>2. CASE EnterStale \/ AppendStale \/ UpsertStale
    BY <2>2, EnterStalePreserves, AppendStalePreserves, UpsertStalePreserves
  <2>3. CASE EnterNew \/ AppendNew \/ UpsertNew
    BY <2>3, EnterNewPreserves, AppendNewPreserves, UpsertNewPreserves
  <2>4. CASE CompactLog \/ CompactDb
    BY <2>4, CompactLogPreserves, CompactDbPreserves
  <2>5. CASE SaveState \/ KillWorker
    BY <2>5, SaveStatePreserves, KillPreserves
  <2>6. ASSUME NEW r \in Readers, QueryReadsLog(r) \/ QueryBuildsDb(r)
        PROVE  LinkInv'
    BY <2>6, QueryPreserves
  <2>7. CASE UNCHANGED linkVars
    <3>1. LinkTypeOK' /\ LinkPlanIsSound'
      BY <2>7 DEF linkVars, LinkInv, LinkTypeOK, LinkPlanIsSound, Fresh
    <3>2. LogIsOnTheWay' /\ FinishedLogIsSettled'
      BY <2>7, Zenon DEF linkVars, LinkInv, LogIsOnTheWay, FinishedLogIsSettled, IsActive, Drifted
    <3>3. ViewIsOnTheWay' /\ CountIsSound'
      BY <2>7 DEF linkVars, LinkInv, ViewIsOnTheWay, CountIsSound, Row, NothingActive, IsActive, Locked
    <3> QED
      BY <3>1, <3>2, <3>3 DEF LinkInv
  <2> QED
    BY <2>1, <2>2, <2>3, <2>4, <2>5, <2>6, <2>7 DEF LinkNext
<1> QED
  BY <1>1, InitLinkInv, PTL DEF LinkSpec

\* A worker that gets as far as state.json has settled the log against what it
\* read: every matched link has its record, and none is active that drifted.
THEOREM FinishedLogStaysSettled == LinkSpec => []FinishedLogIsSettled
<1>1. LinkInv => FinishedLogIsSettled
  BY DEF LinkInv
<1> QED
  BY <1>1, LinkInduction, PTL

\* Whenever nobody holds the lock, links.db shows the last record of each link,
\* unless a kill inside the lock scope or a late first query came between.
THEOREM ViewFollowsLog == LinkSpec => []ViewFollowsLogUnlessCut
<1>1. LinkInv => ViewFollowsLogUnlessCut
  <2> SUFFICES ASSUME LinkInv, ~Locked, db # NoRecord, "view" \notin cut PROVE db = log
    BY DEF LinkInv, ViewFollowsLogUnlessCut
  <2>1. \A l \in Links : db[l] = log[l]
    BY DEF LinkInv, ViewIsOnTheWay, Row
  <2> QED
    BY <2>1 DEF LinkInv, LinkTypeOK, View
<1> QED
  BY <1>1, LinkInduction, PTL

\* A collapsed read that was let through stales no active link, unless a worker
\* was killed before it wrote the count its guard reads.
THEOREM CollapseStalesNothing == LinkSpec => CollapseStalesNothingUnlessCut
<1>1. LinkInv /\ [LinkNext]_linkVars =>
        [worker.collapsed /\ ~worker.reconcile /\ "count" \notin cut =>
           \A l \in Links : IsActive(log, l) => log'[l] = log[l]]_linkVars
  <2> SUFFICES ASSUME LinkInv, worker.collapsed, ~worker.reconcile, "count" \notin cut
               PROVE  \A l \in Links : ~IsActive(log, l)
    OBVIOUS
  <2>1. worker.at # "idle"
    BY WorkerType DEF LinkInv, NoWorker
  <2> QED
    BY <2>1 DEF LinkInv, CountIsSound, NothingActive
<1> QED
  BY <1>1, LinkInduction, PTL DEF LinkSpec, CollapseStalesNothingUnlessCut

=============================================================================
