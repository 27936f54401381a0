------------------------- MODULE AdmissionLaneProofs -------------------------
(***************************************************************************)
(* Proofs about AdmissionLane: the lane's counters and its semaphore count *)
(* what is there, the idle event tells the truth, and the lane keeps what  *)
(* Lane promises, for any number of tasks, request sizes and limits.       *)
(*                                                                         *)
(* The byte budget is a sum over a set, a recursive function.  What it     *)
(* computes is proved by induction, which here takes the form of a         *)
(* smallest counterexample.                                                *)
(***************************************************************************)
EXTENDS AdmissionLane, FiniteSetTheorems, WellFoundedInduction, TLAPS

-----------------------------------------------------------------------------
(* Smallest counterexamples.                                                *)

\* A set of natural numbers that is not empty has a least element.
LEMMA LeastNatural ==
  ASSUME NEW N, N \in SUBSET Nat, N # {}
  PROVE  \E n \in N : \A m \in N : n <= m
<1> DEFINE R == OpToRel(<, Nat)
<1>1. IsWellFoundedOn(R, Nat)
  BY NatLessThanWellFounded
<1>2. \A m, n \in Nat : m < n => <<m, n>> \in R
  BY DEF R, OpToRel
<1> HIDE DEF R
<1>3. PICK n \in N : \A m \in N : ~ (<<m, n>> \in R)
  BY <1>1, WFMin, Zenon
<1>4. ASSUME NEW m \in N PROVE n <= m
  <2>1. m \in Nat /\ n \in Nat
    OBVIOUS
  <2>2. ~ (m < n)
    BY <2>1, <1>2, <1>3, Zenon
  <2> QED
    BY <2>1, <2>2
<1> QED
  BY <1>4

\* Among some subsets of a finite set there is one that contains no other.
LEMMA SmallestSubset ==
  ASSUME NEW S, IsFiniteSet(S), NEW X, X \in SUBSET (SUBSET S), X # {}
  PROVE  \E s \in X : \A u \in X : u \subseteq s => u = s
<1> DEFINE N == {n \in Nat : \E s \in X : Cardinality(s) = n}
<1>1. \A s \in X : IsFiniteSet(s) /\ Cardinality(s) \in Nat
  BY FS_Subset, FS_CardinalityType
<1>2. PICK n \in N : \A m \in N : n <= m
  <2>1. N # {}
    BY <1>1
  <2> QED
    BY <2>1, LeastNatural, Zenon
<1>3. PICK s \in X : Cardinality(s) = n
  BY <1>2
<1>4. ASSUME NEW u \in X, u \subseteq s PROVE u = s
  <2>1. Cardinality(u) \in N
    BY <1>1
  <2>2. Cardinality(u) <= Cardinality(s) /\ (Cardinality(s) = Cardinality(u) => s = u)
    BY <1>1, <1>4, FS_Subset
  <2> QED
    BY <2>1, <2>2, <1>1, <1>2, <1>3
<1> QED
  BY <1>4

-----------------------------------------------------------------------------
(* The sum of the sizes of the requests of a set of tasks.                  *)

One(s) == CHOOSE t \in s : TRUE
\* f adds up the sizes over every subset of S, one task after the other.
Sums(f, S) ==
    f = [s \in SUBSET S |-> IF s = {} THEN 0 ELSE Bytes[One(s)] + f[s \ {One(s)}]]

\* The fold of the library is such an f.
LEMMA TotalIsSum ==
  ASSUME NEW S
  PROVE  Total(S) = (CHOOSE f : Sums(f, S))[S]
BY DEF Total, MapThenSumSet, MapThenFoldSet, Sums, One

\* What such a function says of one set.
LEMMA SumsStep ==
  ASSUME NEW S, NEW f, Sums(f, S), NEW s \in SUBSET S
  PROVE  /\ s = {} => f[s] = 0
         /\ s # {} => /\ One(s) \in s
                      /\ s \ {One(s)} \in SUBSET S
                      /\ f[s] = Bytes[One(s)] + f[s \ {One(s)}]
<1>1. f[s] = IF s = {} THEN 0 ELSE Bytes[One(s)] + f[s \ {One(s)}]
  BY Zenon DEF Sums
<1>2. s # {} => One(s) \in s
  BY DEF One
<1> QED
  BY <1>1, <1>2

\* Two of them agree where both are defined.
LEMMA SumsAgree ==
  ASSUME NEW S, IsFiniteSet(S), NEW f, Sums(f, S),
         NEW U \in SUBSET S, NEW g, Sums(g, U)
  PROVE  \A s \in SUBSET U : f[s] = g[s]
<1> DEFINE Bad == {s \in SUBSET U : f[s] # g[s]}
<1>1. SUFFICES ASSUME Bad # {} PROVE FALSE
  OBVIOUS
<1>2. PICK s \in Bad : \A u \in Bad : u \subseteq s => u = s
  <2>1. Bad \in SUBSET (SUBSET S)
    OBVIOUS
  <2> HIDE DEF Bad
  <2> QED
    BY <1>1, <2>1, SmallestSubset
<1>3. s # {}
  BY <1>2, SumsStep, Zenon
<1>4. /\ One(s) \in s
      /\ f[s] = Bytes[One(s)] + f[s \ {One(s)}]
      /\ g[s] = Bytes[One(s)] + g[s \ {One(s)}]
  BY <1>2, <1>3, SumsStep
<1>5. s \ {One(s)} \in SUBSET U /\ s \ {One(s)} \notin Bad
  BY <1>2, <1>4
<1> QED
  BY <1>2, <1>4, <1>5

\* And there is one for every finite set.
LEMMA SumsExist ==
  ASSUME NEW S, IsFiniteSet(S)
  PROVE  Sums(CHOOSE f : Sums(f, S), S)
<1> DEFINE G(u) == CHOOSE f : Sums(f, u)
           Bad == {u \in SUBSET S : ~ Sums(G(u), u)}
<1>1. SUFFICES ASSUME Bad # {} PROVE FALSE
  OBVIOUS
<1>2. PICK u \in Bad : \A v \in Bad : v \subseteq u => v = u
  <2>1. Bad \in SUBSET (SUBSET S)
    OBVIOUS
  <2> HIDE DEF Bad
  <2> QED
    BY <1>1, <2>1, SmallestSubset
<1>3. \A v \in SUBSET u : v # u => Sums(G(v), v)
  BY <1>2
<1> DEFINE Rest(s) == s \ {One(s)}
           h == [s \in SUBSET u |-> IF s = {} THEN 0 ELSE Bytes[One(s)] + G(Rest(s))[Rest(s)]]
<1> HIDE DEF G
<1>4. ASSUME NEW s \in SUBSET u, s # {} PROVE h[Rest(s)] = G(Rest(s))[Rest(s)]
  <2>1. One(s) \in s
    BY <1>4 DEF One
  <2> DEFINE v == Rest(s)
  <2>2. v \in SUBSET u /\ v # u /\ v \in SUBSET S /\ IsFiniteSet(v)
    <3>1. v \in SUBSET u /\ v # u /\ v \in SUBSET S
      BY <2>1
    <3> QED
      BY <3>1, FS_Subset
  <2>3. Sums(G(v), v)
    BY <1>3, <2>2
  <2> HIDE DEF v
  <2>4. v = {} => h[v] = G(v)[v]
    BY <2>2, <2>3, SumsStep
  <2>5. ASSUME v # {} PROVE h[v] = G(v)[v]
    <3>1. One(v) \in v /\ G(v)[v] = Bytes[One(v)] + G(v)[Rest(v)]
      BY <2>3, <2>5, SumsStep
    <3> DEFINE w == Rest(v)
    <3>2. w \in SUBSET u /\ w # u /\ w \in SUBSET v
      BY <2>2, <3>1
    <3>3. h[v] = Bytes[One(v)] + G(w)[w] /\ G(v)[v] = Bytes[One(v)] + G(v)[w]
      BY <2>2, <2>5, <3>1
    <3> HIDE DEF w, h
    <3>4. Sums(G(w), w)
      BY <1>3, <3>2
    <3>5. G(v)[w] = G(w)[w]
      BY <2>2, <2>3, <3>2, <3>4, SumsAgree
    <3> QED
      BY <3>3, <3>5
  <2> HIDE DEF h
  <2> QED
    BY <2>4, <2>5 DEF v
<1>5. Sums(h, u)
  BY <1>4, Zenon DEF Sums
<1>6. Sums(G(u), u)
  BY <1>5 DEF G
<1> QED
  BY <1>2, <1>6

\* The total of a set is the size of one of its requests and the total of the
\* others.
LEMMA TotalStep ==
  ASSUME NEW S, IsFiniteSet(S)
  PROVE  /\ S = {} => Total(S) = 0
         /\ S # {} => One(S) \in S /\ Total(S) = Bytes[One(S)] + Total(S \ {One(S)})
<1> DEFINE G(u) == CHOOSE f : Sums(f, u)
           R == S \ {One(S)}
<1>1. Sums(G(S), S) /\ Total(S) = G(S)[S]
  BY SumsExist, TotalIsSum
<1>2. IsFiniteSet(R) /\ R \in SUBSET S
  BY FS_Subset
<1>3. Sums(G(R), R) /\ Total(R) = G(R)[R]
  BY <1>2, SumsExist, TotalIsSum, Zenon
<1> HIDE DEF G, R
<1>4. G(S)[R] = G(R)[R]
  BY <1>1, <1>2, <1>3, SumsAgree
<1>5. S # {} => One(S) \in S /\ G(S)[S] = Bytes[One(S)] + G(S)[R]
  BY <1>1, SumsStep DEF R
<1>6. S = {} => G(S)[S] = 0
  BY <1>1, SumsStep, Zenon
<1> QED
  BY <1>1, <1>3, <1>4, <1>5, <1>6 DEF R

\* A total is a natural number.
LEMMA TotalIsNat ==
  ASSUME NEW S \in SUBSET Tasks
  PROVE  Total(S) \in Nat
<1> DEFINE Bad == {s \in SUBSET Tasks : Total(s) \notin Nat}
<1>1. SUFFICES ASSUME Bad # {} PROVE FALSE
  OBVIOUS
<1>2. PICK s \in Bad : \A u \in Bad : u \subseteq s => u = s
  <2>1. Bad \in SUBSET (SUBSET Tasks)
    OBVIOUS
  <2> HIDE DEF Bad
  <2> QED
    BY <1>1, <2>1, SmallestSubset, LaneConstants
<1>3. IsFiniteSet(s)
  BY <1>2, FS_Subset, LaneConstants
<1>4. s # {}
  <2>1. s = {} => Total(s) = 0
    BY <1>3, TotalStep, Zenon
  <2> QED
    BY <1>2, <2>1
<1>5. One(s) \in s /\ Total(s) = Bytes[One(s)] + Total(s \ {One(s)})
  BY <1>3, <1>4, TotalStep
<1>6. Total(s \ {One(s)}) \in Nat
  BY <1>2, <1>5
<1>7. Bytes[One(s)] \in Nat
  BY <1>2, <1>5, LaneConstants
<1> QED
  BY <1>2, <1>5, <1>6, <1>7

\* Whichever task is taken out of a set, the total shrinks by its size: the
\* order in which the sizes were added up does not matter.
LEMMA TotalWithout ==
  ASSUME NEW S \in SUBSET Tasks, NEW t \in S
  PROVE  Total(S \ {t}) = Total(S) - Bytes[t]
<1> DEFINE Differs(s, u) == Total(s) # Bytes[u] + Total(s \ {u})
           Bad == {s \in SUBSET Tasks : \E u \in s : Differs(s, u)}
<1>1. ASSUME Bad # {} PROVE FALSE
  <2>1. PICK s \in Bad : \A r \in Bad : r \subseteq s => r = s
    <3>1. Bad \in SUBSET (SUBSET Tasks)
      OBVIOUS
    <3> HIDE DEF Bad
    <3> QED
      BY <1>1, <3>1, SmallestSubset, LaneConstants
  <2>2. PICK u \in s : Differs(s, u)
    BY <2>1
  <2> DEFINE x == One(s)
  <2>3. x \in s /\ Total(s) = Bytes[x] + Total(s \ {x})
    <3>1. IsFiniteSet(s)
      BY <2>1, FS_Subset, LaneConstants
    <3> QED
      BY <2>2, <3>1, TotalStep
  <2> HIDE DEF x
  <2>4. x # u
    BY <2>2, <2>3
  <2>5. \A y, z \in s : y # z => Total(s \ {y}) = Bytes[z] + Total((s \ {y}) \ {z})
    <3>1. ASSUME NEW y \in s, NEW z \in s, y # z
          PROVE  Total(s \ {y}) = Bytes[z] + Total((s \ {y}) \ {z})
      <4>1. /\ s \ {y} \in SUBSET Tasks /\ z \in s \ {y}
            /\ s \ {y} \subseteq s /\ s \ {y} # s
        BY <2>1, <3>1
      <4>2. s \ {y} \notin Bad
        BY <2>1, <4>1
      <4> QED
        BY <4>1, <4>2, Zenon
    <3> QED
      BY <3>1
  <2>6. (s \ {x}) \ {u} = (s \ {u}) \ {x}
    OBVIOUS
  <2> DEFINE rest == Total((s \ {u}) \ {x})
  <2>7. Total(s \ {x}) = Bytes[u] + rest /\ Total(s \ {u}) = Bytes[x] + rest
    BY <2>2, <2>3, <2>4, <2>5, <2>6
  <2>8. rest \in Nat /\ Bytes[u] \in Nat /\ Bytes[x] \in Nat
    <3>1. (s \ {u}) \ {x} \in SUBSET Tasks /\ u \in Tasks /\ x \in Tasks
      BY <2>1, <2>3
    <3> QED
      BY <3>1, TotalIsNat, LaneConstants
  <2> HIDE DEF rest
  <2> QED
    BY <2>2, <2>3, <2>7, <2>8
<1>2. Total(S) = Bytes[t] + Total(S \ {t})
  BY <1>1, Zenon
<1>3. Total(S \ {t}) \in Nat /\ Bytes[t] \in Nat
  BY TotalIsNat, LaneConstants
<1> QED
  BY <1>2, <1>3

\* And it grows by the size of a task that is added.
LEMMA TotalWith ==
  ASSUME NEW S \in SUBSET Tasks, NEW t \in Tasks \ S
  PROVE  Total(S \union {t}) = Total(S) + Bytes[t]
<1> DEFINE U == S \union {t}
<1>1. U \in SUBSET Tasks /\ t \in U /\ U \ {t} = S
  OBVIOUS
<1> HIDE DEF U
<1>2. Total(S) = Total(U) - Bytes[t]
  BY <1>1, TotalWithout
<1>3. Total(U) \in Nat /\ Bytes[t] \in Nat
  BY <1>1, TotalIsNat, LaneConstants
<1> QED
  BY <1>2, <1>3 DEF U

-----------------------------------------------------------------------------
(* The semaphore's queue.                                                   *)

\* A set of positions that is not empty has a last one.
LEMMA GreatestNatural ==
  ASSUME NEW N, N \in SUBSET Nat, N # {}, NEW b \in Nat, \A n \in N : n <= b
  PROVE  \E n \in N : \A m \in N : m <= n
<1> DEFINE Bounds == {c \in Nat : \A n \in N : n <= c}
<1>1. PICK c \in Bounds : \A d \in Bounds : c <= d
  <2>1. Bounds \in SUBSET Nat /\ Bounds # {}
    OBVIOUS
  <2> HIDE DEF Bounds
  <2> QED
    BY <2>1, LeastNatural, Zenon
<1>2. c \in Nat /\ \A n \in N : n <= c
  BY <1>1
<1>3. c \in N
  <2>1. SUFFICES ASSUME c \notin N PROVE FALSE
    OBVIOUS
  <2>2. \A n \in N : n \in Nat /\ n <= c - 1
    BY <1>2, <2>1
  <2>3. c - 1 \in Bounds
    <3>1. PICK n \in N : TRUE
      BY Zenon
    <3>2. c - 1 \in Nat
      BY <1>2, <2>2, <3>1
    <3> QED
      BY <2>2, <3>2
  <2> QED
    BY <1>1, <1>2, <2>3
<1> QED
  BY <1>2, <1>3

\* Wake-ups go to at most n tasks, and only to tasks that wait for one.
LEMMA GrantedIsBounded ==
  ASSUME NEW ws \in Seq(Tasks), NEW n \in Nat
  PROVE  /\ Granted(ws, n) \in SUBSET In({"waiting"})
         /\ IsFiniteSet(Granted(ws, n))
         /\ Cardinality(Granted(ws, n)) \in 0 .. n
         /\ \A t \in Granted(ws, n) : \E i \in DOMAIN ws : ws[i] = t
<1> DEFINE pending == {i \in DOMAIN ws : stage[ws[i]] = "waiting"}
           Before(k) == {j \in pending : j < k}
           A == {k \in pending : Cardinality(Before(k)) < n}
           W == {ws[i] : i \in A}
<1>1. Granted(ws, n) = W
  BY DEF Granted
<1>2. pending \in SUBSET (1 .. Len(ws)) /\ A \in SUBSET pending /\ Len(ws) \in Nat
  OBVIOUS
<1>3. W \in SUBSET In({"waiting"}) /\ \A t \in W : \E i \in DOMAIN ws : ws[i] = t
  <2> HIDE DEF A
  <2> QED
    BY <1>2 DEF In
<1>4. IsFiniteSet(pending)
  <2>1. IsFiniteSet(1 .. Len(ws))
    BY <1>2, FS_Interval
  <2> QED
    BY <1>2, <2>1, FS_Subset
<1>5. IsFiniteSet(A) /\ Cardinality(A) \in Nat
  BY <1>2, <1>4, FS_Subset, FS_CardinalityType, Zenon
<1>6. Cardinality(A) <= n
  <2>1. CASE A = {}
    <3> HIDE DEF A
    <3> QED
      BY <2>1, FS_EmptySet
  <2>2. CASE A # {}
    <3>1. PICK m \in A : \A k \in A : k <= m
      <4>1. A \in SUBSET Nat /\ \A k \in A : k <= Len(ws)
        BY <1>2
      <4> HIDE DEF A
      <4> QED
        BY <1>2, <2>2, <4>1, GreatestNatural, Zenon
    <3> DEFINE B == Before(m)
    <3>2. B \in SUBSET pending /\ Cardinality(B) < n
      BY <3>1
    <3>3. A \subseteq B \union {m}
      <4>1. \A k \in A : k \in pending /\ k \in Nat /\ k <= m /\ m \in Nat
        BY <1>2, <3>1
      <4>2. \A k \in pending : k < m => k \in B
        OBVIOUS
      <4> HIDE DEF A, B, pending
      <4>3. \A k \in A : k = m \/ k < m
        BY <4>1
      <4> QED
        BY <4>1, <4>2, <4>3
    <3> HIDE DEF A, B, pending
    <3>4. IsFiniteSet(B) /\ Cardinality(B) \in Nat
      BY <1>4, <3>2, FS_Subset, FS_CardinalityType
    <3>5. IsFiniteSet(B \union {m}) /\ Cardinality(B \union {m}) <= Cardinality(B) + 1
      <4>1. /\ IsFiniteSet(B \union {m})
            /\ Cardinality(B \union {m})
               = IF m \in B THEN Cardinality(B) ELSE Cardinality(B) + 1
        BY <3>4, FS_AddElement
      <4> QED
        BY <3>4, <4>1
    <3>6. Cardinality(A) <= Cardinality(B \union {m}) /\ Cardinality(B \union {m}) \in Nat
      BY <3>3, <3>5, FS_Subset, FS_CardinalityType
    <3> QED
      BY <1>5, <3>2, <3>4, <3>5, <3>6
  <2> QED
    BY <2>1, <2>2
<1>7. IsFiniteSet(W) /\ Cardinality(W) <= Cardinality(A)
  <2> DEFINE f == [i \in A |-> ws[i]]
  <2>1. f \in Surjection(A, W)
    BY Zenon DEF Surjection
  <2> HIDE DEF f, A, W
  <2> QED
    BY <1>5, <2>1, FS_Surjection
<1>8. Cardinality(W) \in Nat
  BY <1>7, FS_CardinalityType
<1> HIDE DEF W, A
<1> QED
  BY <1>1, <1>3, <1>5, <1>6, <1>7, <1>8

\* Every future of the queue is there once.
Once(ws) == \A i, j \in DOMAIN ws : ws[i] = ws[j] => i = j

\* Taking a task's future out of the queue leaves the others, once each.
LEMMA RemoveOnce ==
  ASSUME NEW ws \in Seq(Tasks), Once(ws), NEW t
  PROVE  LET r == Remove(ws, t)
         IN  /\ r \in Seq(Tasks) /\ Once(r)
             /\ \A i \in DOMAIN r : r[i] # t /\ \E k \in DOMAIN ws : ws[k] = r[i]
<1> DEFINE at == {i \in DOMAIN ws : ws[i] = t}
           first == CHOOSE p \in at : \A i \in at : p <= i
           r == [i \in 1 .. Len(ws) - 1 |-> ws[IF i < first THEN i ELSE i + 1]]
<1>1. CASE at = {}
  <2>1. Remove(ws, t) = ws
    BY <1>1 DEF Remove
  <2> QED
    BY <1>1, <2>1
<1>2. CASE at # {}
  <2>1. Remove(ws, t) = r
    BY <1>2 DEF Remove
  <2>2. first \in at
    <3>1. at \in SUBSET Nat
      OBVIOUS
    <3> HIDE DEF at
    <3> QED
      BY <1>2, <3>1, LeastNatural, Zenon
  <2>3. first \in 1 .. Len(ws) /\ ws[first] = t /\ Len(ws) \in Nat
    BY <2>2
  <2> HIDE DEF first
  <2>4. \A i \in 1 .. Len(ws) - 1 :
           LET k == IF i < first THEN i ELSE i + 1
           IN  k \in DOMAIN ws /\ k # first /\ r[i] = ws[k]
    BY <2>3
  <2>5. r \in Seq(Tasks) /\ DOMAIN r = 1 .. Len(ws) - 1
    BY <2>3, <2>4
  <2> HIDE DEF r
  <2>6. Once(r)
    <3>1. ASSUME NEW i \in DOMAIN r, NEW j \in DOMAIN r, r[i] = r[j]
          PROVE  i = j
      <4> DEFINE k == IF i < first THEN i ELSE i + 1
                 l == IF j < first THEN j ELSE j + 1
      <4>1. k \in DOMAIN ws /\ l \in DOMAIN ws /\ ws[k] = ws[l]
        BY <2>4, <2>5, <3>1
      <4>2. k = l
        BY <4>1 DEF Once
      <4>3. i \in Int /\ j \in Int /\ first \in Int
        BY <2>3, <2>5
      <4> QED
        BY <4>2, <4>3
    <3> QED
      BY <3>1 DEF Once
  <2>7. \A i \in DOMAIN r : r[i] # t /\ \E k \in DOMAIN ws : ws[k] = r[i]
    BY <2>3, <2>4, <2>5 DEF Once
  <2> QED
    BY <2>1, <2>5, <2>6, <2>7
<1> QED
  BY <1>1, <1>2

-----------------------------------------------------------------------------
(* What a step of the semaphore moves.                                      *)

Slots == {"granted", "running"}

\* The subsets of the tasks are finite, and so are their parts.
LEMMA TasksAreFinite ==
  ASSUME NEW S \in SUBSET Tasks
  PROVE  /\ IsFiniteSet(S) /\ Cardinality(S) \in Nat
         /\ Cardinality(S) = 0 <=> S = {}
         /\ \A U \in SUBSET S : Cardinality(U) <= Cardinality(S)
         /\ \A t \in S : Cardinality(S \ {t}) = Cardinality(S) - 1
         /\ \A t \in Tasks \ S : Cardinality(S \union {t}) = Cardinality(S) + 1
<1>1. IsFiniteSet(S)
  BY FS_Subset, LaneConstants
<1>2. Cardinality(S) \in Nat
  BY <1>1, FS_CardinalityType
<1>3. Cardinality(S) = 0 <=> S = {}
  BY <1>1, FS_EmptySet
<1>4. \A U \in SUBSET S : Cardinality(U) <= Cardinality(S)
  BY <1>1, FS_Subset
<1>5. \A t \in S : Cardinality(S \ {t}) = Cardinality(S) - 1
  BY <1>1, FS_RemoveElement
<1>6. \A t \in Tasks \ S : Cardinality(S \union {t}) = Cardinality(S) + 1
  BY <1>1, FS_AddElement
<1> QED
  BY <1>1, <1>2, <1>3, <1>4, <1>5, <1>6

\* Every task but t stays where it is or passes from waiting to granted.
LEMMA WakeMoves ==
  ASSUME TypeOK, NEW t \in Tasks, NEW s \in Stages, NEW ws \in Seq(Tasks),
         NEW v, NEW n \in Nat, Wake(t, s, ws, v, n)
  PROVE  /\ stage' \in [Tasks -> Stages] /\ stage'[t] = s
         /\ \A u \in Tasks \ {t} : \/ stage'[u] = stage[u] /\ u \notin Granted(ws, n)
                                   \/ /\ stage[u] = "waiting" /\ stage'[u] = "granted"
                                      /\ u \in Granted(ws, n)
<1> DEFINE W == Granted(ws, n)
<1>1. W \in SUBSET In({"waiting"})
  BY GrantedIsBounded
<1>2. stage' = [u \in Tasks |-> IF u = t THEN s
                               ELSE IF u \in W THEN "granted" ELSE stage[u]]
  BY DEF Wake
<1> HIDE DEF W
<1>3. \A u \in W : stage[u] = "waiting"
  BY <1>1 DEF In
<1>4. "granted" \in Stages /\ \A u \in Tasks : stage[u] \in Stages
  BY DEF TypeOK, Stages, Waiting
<1> QED
  BY <1>2, <1>3, <1>4 DEF W

\* The slots that are free and the tasks that have one: whoever is woken takes
\* a slot from the free ones, and there are enough of them.
LEMMA WakeCounts ==
  ASSUME TypeOK, NEW t \in Tasks, NEW s \in Stages, NEW ws \in Seq(Tasks),
         NEW v \in Nat, NEW n \in 0 .. v, Wake(t, s, ws, v, n), t \notin Granted(ws, n)
  PROVE  /\ value' \in Nat
         /\ value' + Cardinality(In(Slots)')
            = v + Cardinality(In(Slots) \ {t}) + (IF s \in Slots THEN 1 ELSE 0)
<1> DEFINE W == Granted(ws, n)
           H == In(Slots) \ {t}
<1>1. /\ W \in SUBSET Tasks /\ H \in SUBSET Tasks /\ W \in SUBSET In({"waiting"})
      /\ IsFiniteSet(W) /\ Cardinality(W) \in 0 .. n
  <2>1. /\ W \in SUBSET In({"waiting"})
        /\ IsFiniteSet(W) /\ Cardinality(W) \in 0 .. n
    BY GrantedIsBounded
  <2>2. In({"waiting"}) \in SUBSET Tasks /\ H \in SUBSET Tasks
    BY DEF In
  <2> HIDE DEF W, H
  <2> QED
    BY <2>1, <2>2
<1>2. value' = v - Cardinality(W)
  BY DEF Wake
<1>3. W \intersect H = {}
  <2>1. \A u \in W : stage[u] = "waiting"
    BY <1>1 DEF In
  <2>2. \A u \in H : stage[u] # "waiting"
    BY DEF In, Slots
  <2> HIDE DEF W, H
  <2> QED
    BY <2>1, <2>2
<1>4. t \notin W \union H /\ t \notin W
  OBVIOUS
<1>5. In(Slots)' = IF s \in Slots THEN (W \union H) \union {t} ELSE W \union H
  <2>1. /\ stage'[t] = s
        /\ \A u \in Tasks \ {t} : \/ stage'[u] = stage[u] /\ u \notin W
                                  \/ /\ stage[u] = "waiting" /\ stage'[u] = "granted"
                                     /\ u \in W
    BY WakeMoves
  <2>3. \A u \in Tasks \ {t} : u \in H <=> stage[u] \in Slots
    BY DEF In
  <2>4. "waiting" \notin Slots /\ "granted" \in Slots
    BY DEF Slots
  <2>2. In(Slots)' = {u \in Tasks : stage'[u] \in Slots}
    BY DEF In, Slots
  <2> HIDE DEF W, H
  <2>5. \A u \in Tasks \ {t} : u \in W \union H <=> stage'[u] \in Slots
    BY <2>1, <2>3, <2>4
  <2> QED
    BY <1>1, <1>4, <2>1, <2>2, <2>5
<1> HIDE DEF W, H
<1>6. Cardinality(W \union H) = Cardinality(W) + Cardinality(H)
  <2>1. IsFiniteSet(W) /\ IsFiniteSet(H) /\ Cardinality(W) \in Nat /\ Cardinality(H) \in Nat
    BY <1>1, TasksAreFinite
  <2>2. Cardinality(W \union H) = Cardinality(W) + Cardinality(H) - Cardinality(W \intersect H)
    BY <2>1, FS_Union
  <2>3. Cardinality(W \intersect H) = 0
    BY <1>3, FS_EmptySet, Zenon
  <2> QED
    BY <2>1, <2>2, <2>3
<1>7. Cardinality((W \union H) \union {t}) = Cardinality(W \union H) + 1
  BY <1>1, <1>4, TasksAreFinite, Zenon
<1>8. Cardinality(H) \in Nat
  BY <1>1, TasksAreFinite
<1>9. value' \in Nat
  BY <1>1, <1>2
<1>10. value' + Cardinality(In(Slots)')
       = v + Cardinality(H) + (IF s \in Slots THEN 1 ELSE 0)
  BY <1>1, <1>2, <1>5, <1>6, <1>7, <1>8
<1> QED
  BY <1>9, <1>10 DEF H

-----------------------------------------------------------------------------
(* The inductive invariant.                                                 *)

Queued == {"waiting", "granted"}

\* The semaphore's queue holds one future for each task in it, and only those
\* of tasks that wait or have been granted a slot they have not taken yet.
QueueInv ==
    /\ Once(waiters)
    /\ \A i \in DOMAIN waiters : stage[waiters[i]] \in Queued

LaneInv == CountsAreExact /\ IdleMeansEmpty /\ QueueInv

\* A step leaves the semaphore, its queue and the tasks' stages in order.
SemaphoreKept ==
    /\ stage' \in [Tasks -> Stages]
    /\ waiters' \in Seq(Tasks) /\ QueueInv'
    /\ value' \in 0 .. Concurrency
    /\ value' + Cardinality(In(Slots)') = Concurrency
    /\ Cardinality(In({"running"})') \in 0 .. Concurrency

\* The semaphore's part of a step, when the free slots it starts from account
\* for the slot that t had and for the one that it takes.
LEMMA WakeKeeps ==
  ASSUME LaneInv, NEW t \in Tasks, NEW s \in Stages, NEW ws \in Seq(Tasks),
         NEW v \in Nat, NEW n \in 0 .. v, Wake(t, s, ws, v, n), t \notin Granted(ws, n),
         v = value + (IF stage[t] \in Slots THEN 1 ELSE 0) - (IF s \in Slots THEN 1 ELSE 0),
         Once(ws),
         \A i \in DOMAIN ws : IF ws[i] = t THEN s \in Queued ELSE stage[ws[i]] \in Queued
  PROVE  /\ SemaphoreKept /\ stage'[t] = s
         /\ \A u \in Tasks \ {t} : /\ u \in In(Waiting)' <=> u \in In(Waiting)
                                   /\ u \in In({"running"})' <=> u \in In({"running"})
<1>1. TypeOK /\ value + Cardinality(In(Slots)) = Concurrency
  BY DEF LaneInv, CountsAreExact, Slots
<1>2. value \in Nat /\ Concurrency \in Nat
  BY <1>1, LaneConstants DEF TypeOK
<1>3. /\ stage' \in [Tasks -> Stages] /\ stage'[t] = s
      /\ \A u \in Tasks \ {t} : \/ stage'[u] = stage[u]
                                \/ stage[u] = "waiting" /\ stage'[u] = "granted"
  BY <1>1, WakeMoves
<1>4. waiters' = ws
  BY DEF Wake
<1>5. QueueInv'
  <2>1. \A i \in DOMAIN ws : ws[i] \in Tasks
    OBVIOUS
  <2>2. \A i \in DOMAIN ws : stage'[ws[i]] \in Queued
    BY <1>3, <2>1 DEF Queued
  <2> QED
    BY <1>4, <2>2 DEF QueueInv, Once, Queued
<1>6. /\ value' \in Nat
      /\ value' + Cardinality(In(Slots)')
         = v + Cardinality(In(Slots) \ {t}) + (IF s \in Slots THEN 1 ELSE 0)
  BY <1>1, WakeCounts, Zenon
<1>7. Cardinality(In(Slots) \ {t})
      = Cardinality(In(Slots)) - (IF stage[t] \in Slots THEN 1 ELSE 0)
  <2>1. In(Slots) \in SUBSET Tasks /\ (t \in In(Slots) <=> stage[t] \in Slots)
    BY DEF In
  <2>2. t \notin In(Slots) => In(Slots) \ {t} = In(Slots)
    OBVIOUS
  <2> QED
    BY <2>1, <2>2, TasksAreFinite
<1>8. Cardinality(In(Slots)) \in Nat /\ Cardinality(In(Slots)') \in Nat
  <2>1. In(Slots) \in SUBSET Tasks /\ In(Slots)' \in SUBSET Tasks
    BY DEF In
  <2> QED
    BY <2>1, TasksAreFinite
<1>9. value' + Cardinality(In(Slots)') = Concurrency
  BY <1>1, <1>2, <1>6, <1>7, <1>8
<1>10. Cardinality(In({"running"})') <= Cardinality(In(Slots)')
       /\ Cardinality(In({"running"})') \in Nat
  <2>1. In(Slots)' \in SUBSET Tasks /\ In({"running"})' \in SUBSET In(Slots)'
    BY DEF In, Slots
  <2> QED
    BY <2>1, TasksAreFinite
<1>11. value' \in 0 .. Concurrency /\ Cardinality(In({"running"})') \in 0 .. Concurrency
  BY <1>2, <1>6, <1>8, <1>9, <1>10
<1>12. \A u \in Tasks \ {t} : /\ u \in In(Waiting)' <=> u \in In(Waiting)
                              /\ u \in In({"running"})' <=> u \in In({"running"})
  BY <1>3 DEF In, Waiting
<1> QED
  BY <1>3, <1>4, <1>5, <1>9, <1>11, <1>12 DEF SemaphoreKept

\* A task enters the lane.  Nobody gets a slot for it: without a free slot it
\* waits, and with one it takes its own.
LEMMA EntryMoves ==
  ASSUME LaneInv, NEW t \in Tasks,
         RunAtOnce(t) \/ RunQueued(t) \/ RunExpired(t)
  PROVE  /\ SemaphoreKept /\ t \notin In(Waiting) /\ t \notin In({"running"})
         /\ RunAtOnce(t) => /\ In(Waiting)' = In(Waiting)
                            /\ In({"running"})' = In({"running"}) \union {t}
         /\ RunQueued(t) \/ RunExpired(t) => /\ In(Waiting)' = In(Waiting) \union {t}
                                             /\ In({"running"})' = In({"running"})
<1>1. stage[t] = "out"
  BY DEF RunAtOnce, RunQueued, RunExpired
<1>2. /\ t \notin In(Waiting) /\ t \notin In({"running"}) /\ t \notin In({"waiting"})
      /\ stage[t] \notin Slots /\ stage[t] \notin Queued
  BY <1>1 DEF In, Waiting, Slots, Queued
<1>3. /\ value \in Nat /\ waiters \in Seq(Tasks) /\ Once(waiters)
      /\ \A i \in DOMAIN waiters : stage[waiters[i]] \in Queued
  BY LaneConstants DEF LaneInv, CountsAreExact, TypeOK, QueueInv
<1>4. \A i \in DOMAIN waiters : waiters[i] # t
  BY <1>2, <1>3
<1>5. \A ws \in Seq(Tasks) : t \notin Granted(ws, 0)
  BY <1>2, GrantedIsBounded
<1>6. /\ "running" \in Stages /\ "waiting" \in Stages /\ "expired" \in Stages
      /\ "running" \in Slots /\ "waiting" \notin Slots /\ "expired" \notin Slots
      /\ "waiting" \in Queued
      /\ "running" \notin Waiting /\ "waiting" \in Waiting /\ "expired" \in Waiting
  BY DEF Stages, Slots, Queued, Waiting
<1> DEFINE Moved(s) == /\ SemaphoreKept /\ stage'[t] = s
                       /\ \A u \in Tasks \ {t} :
                             /\ u \in In(Waiting)' <=> u \in In(Waiting)
                             /\ u \in In({"running"})' <=> u \in In({"running"})
<1>7. ASSUME RunAtOnce(t) PROVE Moved("running")
  <2>1. value # 0 /\ Wake(t, "running", waiters, value - 1, 0)
    BY <1>7 DEF RunAtOnce, Locked
  <2>2. value - 1 \in Nat /\ 0 \in 0 .. value - 1
    BY <1>3, <2>1
  <2>3. value - 1 = value + (IF stage[t] \in Slots THEN 1 ELSE 0)
                    - (IF "running" \in Slots THEN 1 ELSE 0)
    BY <1>2, <1>3, <1>6
  <2> QED
    BY <1>3, <1>4, <1>5, <1>6, <2>1, <2>2, <2>3, WakeKeeps
<1>8. value = value + (IF stage[t] \in Slots THEN 1 ELSE 0) - 0 /\ 0 \in 0 .. value
  BY <1>2, <1>3
<1>9. ASSUME RunQueued(t) PROVE Moved("waiting")
  <2> DEFINE ws == Append(waiters, t)
  <2>1. Wake(t, "waiting", ws, value, 0)
    BY <1>9 DEF RunQueued
  <2>2. /\ ws \in Seq(Tasks) /\ DOMAIN ws = 1 .. Len(waiters) + 1 /\ Len(waiters) \in Nat
        /\ \A i \in DOMAIN ws : ws[i] = IF i = Len(waiters) + 1 THEN t ELSE waiters[i]
        /\ DOMAIN waiters = 1 .. Len(waiters)
    BY <1>3
  <2> HIDE DEF ws
  <2>3. Once(ws)
    BY <1>3, <1>4, <2>2 DEF Once
  <2>4. \A i \in DOMAIN ws : IF ws[i] = t THEN "waiting" \in Queued
                                          ELSE stage[ws[i]] \in Queued
    BY <1>3, <1>6, <2>2
  <2> QED
    BY <1>3, <1>5, <1>6, <1>8, <2>1, <2>2, <2>3, <2>4, WakeKeeps
<1>10. ASSUME RunExpired(t) PROVE Moved("expired")
  <2>1. Wake(t, "expired", waiters, value, 0)
    BY <1>10 DEF RunExpired
  <2> QED
    BY <1>3, <1>4, <1>5, <1>6, <1>8, <2>1, WakeKeeps
<1>11. ASSUME NEW s, Moved(s), s \in Waiting \/ s = "running"
       PROVE  /\ In(Waiting)' = IF s \in Waiting THEN In(Waiting) \union {t} ELSE In(Waiting)
              /\ In({"running"})' = IF s \in Waiting THEN In({"running"})
                                    ELSE In({"running"}) \union {t}
  BY <1>2, <1>11 DEF In, Waiting
<1> HIDE DEF Moved
<1>12. SemaphoreKept
  BY <1>7, <1>9, <1>10 DEF Moved
<1> QED
  BY <1>2, <1>6, <1>7, <1>9, <1>10, <1>11, <1>12

\* A task that waits is taken out of the semaphore's queue: it starts in the
\* slot it was granted, or it leaves and gives that slot back.
LEMMA QueueMoves ==
  ASSUME LaneInv, NEW t \in Tasks, Start(t) \/ Leave(t)
  PROVE  /\ SemaphoreKept /\ t \in In(Waiting) /\ t \notin In({"running"})
         /\ In(Waiting)' = In(Waiting) \ {t}
         /\ Start(t) => In({"running"})' = In({"running"}) \union {t}
         /\ Leave(t) => In({"running"})' = In({"running"})
         /\ Start(t) => stage[t] = "granted"
<1> DEFINE ws == Remove(waiters, t)
<1>1. /\ value \in Nat /\ waiters \in Seq(Tasks) /\ Once(waiters)
      /\ \A i \in DOMAIN waiters : stage[waiters[i]] \in Queued
      /\ stage[t] \in Stages
  BY LaneConstants DEF LaneInv, CountsAreExact, TypeOK, QueueInv
<1>2. /\ ws \in Seq(Tasks) /\ Once(ws)
      /\ \A i \in DOMAIN ws : ws[i] # t /\ \E k \in DOMAIN waiters : waiters[k] = ws[i]
  BY <1>1, RemoveOnce
<1> HIDE DEF ws
<1>3. \A i \in DOMAIN ws : ws[i] # t /\ stage[ws[i]] \in Queued
  BY <1>1, <1>2
<1>4. \A n \in Nat : t \notin Granted(ws, n)
  BY <1>2, <1>3, GrantedIsBounded
<1>5. /\ "running" \in Stages /\ "running" \in Slots /\ "out" \in Stages /\ "out" \notin Slots
      /\ "running" \notin Waiting /\ "out" \notin Waiting
      /\ \A s \in Waiting : s \in Slots <=> s = "granted"
      /\ "granted" \in Waiting
  BY DEF Stages, Slots, Waiting
<1>6. stage[t] \in Waiting /\ (Start(t) => stage[t] = "granted")
  BY <1>5 DEF Start, Leave
<1>7. t \in In(Waiting) /\ t \notin In({"running"})
  BY <1>5, <1>6 DEF In
<1> DEFINE Moved(s) == /\ SemaphoreKept /\ stage'[t] = s
                       /\ \A u \in Tasks \ {t} :
                             /\ u \in In(Waiting)' <=> u \in In(Waiting)
                             /\ u \in In({"running"})' <=> u \in In({"running"})
<1>8. ASSUME Start(t) PROVE Moved("running")
  <2>1. Wake(t, "running", ws, value, value)
    BY <1>8 DEF Start, ws
  <2>2. value \in 0 .. value
    BY <1>1
  <2>3. value = value + (IF stage[t] \in Slots THEN 1 ELSE 0)
                - (IF "running" \in Slots THEN 1 ELSE 0)
    BY <1>1, <1>5, <1>6, <1>8
  <2> QED
    BY <1>1, <1>2, <1>3, <1>4, <1>5, <2>1, <2>2, <2>3, WakeKeeps
<1>9. ASSUME Leave(t) PROVE Moved("out")
  <2> DEFINE free == value + (IF stage[t] = "granted" THEN 1 ELSE 0)
  <2>1. Wake(t, "out", ws, free, free)
    BY <1>9 DEF Leave, ws
  <2>2. free \in Nat /\ free \in 0 .. free
    BY <1>1
  <2>3. free = value + (IF stage[t] \in Slots THEN 1 ELSE 0)
               - (IF "out" \in Slots THEN 1 ELSE 0)
    BY <1>1, <1>5, <1>6
  <2> HIDE DEF free
  <2> QED
    BY <1>2, <1>3, <1>4, <1>5, <2>1, <2>2, <2>3, WakeKeeps
<1>10. ASSUME NEW s, Moved(s), s = "out" \/ s = "running"
       PROVE  /\ In(Waiting)' = In(Waiting) \ {t}
              /\ In({"running"})' = IF s = "out" THEN In({"running"})
                                    ELSE In({"running"}) \union {t}
  BY <1>5, <1>7, <1>10 DEF In, Waiting
<1> HIDE DEF Moved
<1>11. SemaphoreKept
  BY <1>8, <1>9 DEF Moved
<1> QED
  BY <1>6, <1>7, <1>8, <1>9, <1>10, <1>11

\* An operation that ends gives its slot to the first waiter.
LEMMA FinishMoves ==
  ASSUME LaneInv, NEW t \in Tasks, Finish(t)
  PROVE  /\ SemaphoreKept /\ t \in In({"running"})
         /\ In(Waiting)' = In(Waiting)
         /\ In({"running"})' = In({"running"}) \ {t}
<1>1. /\ value \in Nat /\ waiters \in Seq(Tasks) /\ Once(waiters)
      /\ \A i \in DOMAIN waiters : stage[waiters[i]] \in Queued
  BY LaneConstants DEF LaneInv, CountsAreExact, TypeOK, QueueInv
<1>2. stage[t] = "running" /\ Wake(t, "out", waiters, value + 1, 1)
  BY DEF Finish
<1>3. /\ "running" \in Slots /\ "running" \notin Queued /\ "out" \in Stages
      /\ "out" \notin Slots /\ "out" \notin Waiting /\ "running" \notin Waiting
  BY DEF Stages, Slots, Waiting, Queued
<1>4. t \in In({"running"}) /\ t \notin In(Waiting) /\ t \notin In({"waiting"})
  BY <1>2, <1>3 DEF In
<1>5. \A i \in DOMAIN waiters : waiters[i] # t
  BY <1>1, <1>2, <1>3
<1>6. t \notin Granted(waiters, 1)
  BY <1>1, <1>4, GrantedIsBounded
<1>7. value + 1 \in Nat /\ 1 \in 0 .. value + 1
  BY <1>1
<1>8. value + 1 = value + (IF stage[t] \in Slots THEN 1 ELSE 0)
                  - (IF "out" \in Slots THEN 1 ELSE 0)
  BY <1>1, <1>2, <1>3
<1>9. /\ SemaphoreKept /\ stage'[t] = "out"
      /\ \A u \in Tasks \ {t} : /\ u \in In(Waiting)' <=> u \in In(Waiting)
                                /\ u \in In({"running"})' <=> u \in In({"running"})
  BY <1>1, <1>2, <1>3, <1>5, <1>6, <1>7, <1>8, WakeKeeps
<1>10. In(Waiting)' = In(Waiting) /\ In({"running"})' = In({"running"}) \ {t}
  BY <1>3, <1>4, <1>9 DEF In, Waiting
<1> QED
  BY <1>4, <1>9, <1>10

-----------------------------------------------------------------------------
(* The counters and the idle event.                                         *)

\* A step whose counters fit the tasks it moved, and whose idle event fits its
\* counters, keeps the invariant.
LEMMA CountersKept ==
  ASSUME SemaphoreKept,
         queuedItems' = Cardinality(In(Waiting)'), queuedItems' <= MaxItems,
         queuedBytes' = Total(In(Waiting)'), queuedBytes' <= MaxBytes,
         active' = Cardinality(In({"running"})'),
         idle' = (active' = 0 /\ queuedItems' = 0),
         draining' \in BOOLEAN
  PROVE  LaneInv'
<1>1. In(Waiting)' \in SUBSET Tasks /\ In({"running"})' \in SUBSET Tasks
  BY DEF In
<1>2. queuedItems' \in 0 .. MaxItems
  <2>1. Cardinality(In(Waiting)') \in Nat
    BY <1>1, TasksAreFinite
  <2> QED
    BY <2>1, LaneConstants
<1>3. queuedBytes' \in 0 .. MaxBytes
  <2>1. Total(In(Waiting)') \in Nat
    BY <1>1, TotalIsNat
  <2> QED
    BY <2>1, LaneConstants
<1>4. CountsAreExact'
  <2>1. TypeOK'
    BY <1>2, <1>3 DEF TypeOK, SemaphoreKept
  <2>2. value' + Cardinality(In({"granted", "running"})') = Concurrency
    BY DEF SemaphoreKept, Slots
  <2> QED
    BY <2>1, <2>2 DEF CountsAreExact
<1>5. IdleMeansEmpty'
  <2>1. stage' \in [Tasks -> Stages]
    BY DEF SemaphoreKept
  <2>2. In({"out"})' = Tasks <=> In(Waiting)' = {} /\ In({"running"})' = {}
    BY <2>1 DEF In, Stages, Waiting
  <2>3. /\ active' = 0 <=> In({"running"})' = {}
        /\ queuedItems' = 0 <=> In(Waiting)' = {}
    BY <1>1, TasksAreFinite
  <2> QED
    BY <2>2, <2>3, Zenon DEF IdleMeansEmpty
<1> QED
  BY <1>4, <1>5 DEF LaneInv, SemaphoreKept

\* Entering the lane keeps the invariant: a task that starts at once is not
\* counted as queued, one that waits is, and the lane is idle no more.
LEMMA EntryPreserves ==
  ASSUME LaneInv, NEW t \in Tasks,
         RunAtOnce(t) \/ RunQueued(t) \/ RunExpired(t)
  PROVE  LaneInv'
<1> DEFINE W == In(Waiting)
           R == In({"running"})
<1>1. /\ W \in SUBSET Tasks /\ R \in SUBSET Tasks
      /\ queuedItems = Cardinality(W) /\ queuedBytes = Total(W) /\ active = Cardinality(R)
  BY DEF LaneInv, CountsAreExact, In
<1>2. /\ queuedItems \in Nat /\ queuedBytes \in Nat /\ active \in Nat
      /\ draining \in BOOLEAN /\ Bytes[t] \in Nat
      /\ MaxItems \in Nat /\ MaxBytes \in Nat
  BY LaneConstants DEF LaneInv, CountsAreExact, TypeOK
<1>3. SemaphoreKept /\ t \in Tasks \ W /\ t \in Tasks \ R
  BY EntryMoves
<1>4. /\ Cardinality(W \union {t}) = Cardinality(W) + 1
      /\ Cardinality(R \union {t}) = Cardinality(R) + 1
      /\ Total(W \union {t}) = Total(W) + Bytes[t]
  BY <1>1, <1>3, TasksAreFinite, TotalWith
<1>5. /\ queuedItems < MaxItems /\ queuedBytes + Bytes[t] <= MaxBytes
      /\ draining' = draining /\ idle' = FALSE
  BY DEF RunAtOnce, RunQueued, RunExpired, Admissible, Enqueue
<1>6. ASSUME RunAtOnce(t) PROVE LaneInv'
  <2>1. In(Waiting)' = W /\ In({"running"})' = R \union {t}
    BY <1>6, EntryMoves
  <2>2. queuedItems' = queuedItems /\ queuedBytes' = queuedBytes /\ active' = active + 1
    BY <1>6 DEF RunAtOnce
  <2> HIDE DEF W, R
  <2>3. /\ queuedItems' = Cardinality(In(Waiting)') /\ queuedItems' <= MaxItems
        /\ queuedBytes' = Total(In(Waiting)') /\ queuedBytes' <= MaxBytes
        /\ active' = Cardinality(In({"running"})') /\ active' # 0
    BY <1>1, <1>2, <1>4, <1>5, <2>1, <2>2
  <2>4. idle' = (active' = 0 /\ queuedItems' = 0) /\ draining' \in BOOLEAN
    BY <1>2, <1>5, <2>3, Zenon
  <2> QED
    BY <1>3, <2>3, <2>4, CountersKept
<1>7. ASSUME RunQueued(t) \/ RunExpired(t) PROVE LaneInv'
  <2>1. In(Waiting)' = W \union {t} /\ In({"running"})' = R
    BY <1>7, EntryMoves
  <2>2. /\ queuedItems' = queuedItems + 1 /\ queuedBytes' = queuedBytes + Bytes[t]
        /\ active' = active
    BY <1>7 DEF RunQueued, RunExpired, Enqueue
  <2> HIDE DEF W, R
  <2>3. /\ queuedItems' = Cardinality(In(Waiting)') /\ queuedItems' <= MaxItems
        /\ queuedBytes' = Total(In(Waiting)') /\ queuedBytes' <= MaxBytes
        /\ active' = Cardinality(In({"running"})') /\ queuedItems' # 0
    BY <1>1, <1>2, <1>4, <1>5, <2>1, <2>2
  <2>4. idle' = (active' = 0 /\ queuedItems' = 0) /\ draining' \in BOOLEAN
    BY <1>2, <1>5, <2>3, Zenon
  <2> QED
    BY <1>3, <2>3, <2>4, CountersKept
<1> QED
  BY <1>6, <1>7

\* So does leaving the queue, to start or for good.
LEMMA QueuePreserves ==
  ASSUME LaneInv, NEW t \in Tasks, Start(t) \/ Leave(t)
  PROVE  LaneInv'
<1> DEFINE W == In(Waiting)
           R == In({"running"})
<1>1. /\ W \in SUBSET Tasks /\ R \in SUBSET Tasks
      /\ queuedItems = Cardinality(W) /\ queuedBytes = Total(W) /\ active = Cardinality(R)
  BY DEF LaneInv, CountsAreExact, In
<1>2. /\ queuedItems \in 0 .. MaxItems /\ queuedBytes \in 0 .. MaxBytes /\ active \in Nat
      /\ draining \in BOOLEAN /\ Bytes[t] \in Nat
      /\ MaxItems \in Nat /\ MaxBytes \in Nat
  BY LaneConstants DEF LaneInv, CountsAreExact, TypeOK
<1>3. SemaphoreKept /\ t \in W /\ t \in Tasks \ R /\ In(Waiting)' = W \ {t}
  BY QueueMoves
<1>4. /\ Cardinality(W \ {t}) = Cardinality(W) - 1
      /\ Cardinality(R \union {t}) = Cardinality(R) + 1
      /\ Total(W \ {t}) = Total(W) - Bytes[t]
  BY <1>1, <1>3, TasksAreFinite, TotalWithout
<1>5. /\ queuedItems' = queuedItems - 1 /\ queuedBytes' = queuedBytes - Bytes[t]
      /\ draining' = draining
  BY DEF Start, Leave, Dequeue
<1>6. /\ queuedItems' = Cardinality(In(Waiting)') /\ queuedItems' <= MaxItems
      /\ queuedBytes' = Total(In(Waiting)') /\ queuedBytes' <= MaxBytes
      /\ draining' \in BOOLEAN
  <2> HIDE DEF W, R
  <2> QED
    BY <1>1, <1>2, <1>3, <1>4, <1>5
<1>7. ASSUME Start(t) PROVE LaneInv'
  <2>1. In({"running"})' = R \union {t}
    BY <1>7, QueueMoves
  <2>2. active' = active + 1 /\ idle' = idle
    BY <1>7 DEF Start
  <2>3. idle = FALSE
    <3>1. In({"out"}) # Tasks
      BY <1>3 DEF In, Waiting
    <3>2. idle \in BOOLEAN
      BY DEF LaneInv, CountsAreExact, TypeOK
    <3> QED
      BY <3>1, <3>2 DEF LaneInv, IdleMeansEmpty
  <2> HIDE DEF W, R
  <2>4. active' = Cardinality(In({"running"})') /\ active' # 0
    BY <1>1, <1>2, <1>4, <2>1, <2>2
  <2>5. idle' = (active' = 0 /\ queuedItems' = 0)
    BY <2>2, <2>3, <2>4, Zenon
  <2> QED
    BY <1>3, <1>6, <2>4, <2>5, CountersKept
<1>8. ASSUME Leave(t) PROVE LaneInv'
  <2>1. In({"running"})' = R
    BY <1>8, QueueMoves
  <2>2. active' = active /\ idle' = (active' = 0 /\ queuedItems' = 0)
    BY <1>8 DEF Leave
  <2>3. active' = Cardinality(In({"running"})')
    BY <1>1, <2>1, <2>2
  <2> QED
    BY <1>3, <1>6, <2>2, <2>3, CountersKept
<1> QED
  BY <1>7, <1>8

\* And the end of an operation.
LEMMA FinishPreserves ==
  ASSUME LaneInv, NEW t \in Tasks, Finish(t)
  PROVE  LaneInv'
<1> DEFINE R == In({"running"})
<1>1. /\ R \in SUBSET Tasks
      /\ queuedItems = Cardinality(In(Waiting)) /\ queuedBytes = Total(In(Waiting))
      /\ active = Cardinality(R)
  BY DEF LaneInv, CountsAreExact, In
<1>2. /\ queuedItems <= MaxItems /\ queuedBytes <= MaxBytes /\ draining \in BOOLEAN
  BY LaneConstants DEF LaneInv, CountsAreExact, TypeOK
<1>3. /\ SemaphoreKept /\ t \in R
      /\ In(Waiting)' = In(Waiting) /\ In({"running"})' = R \ {t}
  BY FinishMoves
<1>4. /\ queuedItems' = queuedItems /\ queuedBytes' = queuedBytes /\ draining' = draining
      /\ active' = active - 1 /\ idle' = (active' = 0 /\ queuedItems' = 0)
  BY DEF Finish
<1> HIDE DEF R
<1>5. active' = Cardinality(In({"running"})')
  BY <1>1, <1>3, <1>4, TasksAreFinite
<1> QED
  BY <1>1, <1>2, <1>3, <1>4, <1>5, CountersKept

\* In the initial state nobody is in the lane and every slot is free.
LEMMA LaneInvInit == Init => LaneInv
<1> SUFFICES ASSUME Init PROVE LaneInv
  OBVIOUS
<1>1. /\ stage = [t \in Tasks |-> "out"]
      /\ queuedItems = 0 /\ queuedBytes = 0 /\ active = 0 /\ idle = TRUE
      /\ value = Concurrency /\ waiters = <<>> /\ draining = FALSE
  BY DEF Init
<1>2. TypeOK
  <2>1. /\ queuedItems \in 0 .. MaxItems /\ queuedBytes \in 0 .. MaxBytes
        /\ active \in 0 .. Concurrency /\ value \in 0 .. Concurrency
    BY <1>1, LaneConstants
  <2>2. stage \in [Tasks -> Stages] /\ waiters \in Seq(Tasks)
    BY <1>1 DEF Stages
  <2>3. idle \in BOOLEAN /\ draining \in BOOLEAN
    BY <1>1, Zenon
  <2> QED
    BY <2>1, <2>2, <2>3 DEF TypeOK
<1>3. /\ In(Waiting) = {} /\ In({"running"}) = {} /\ In({"granted", "running"}) = {}
      /\ In({"out"}) = Tasks
  BY <1>1 DEF In, Waiting
<1>4. Cardinality({}) = 0 /\ IsFiniteSet({})
  BY FS_EmptySet
<1>5. Total({}) = 0
  BY <1>4, TotalStep
<1>6. CountsAreExact
  <2>1. value + 0 = Concurrency
    BY <1>1, LaneConstants
  <2> QED
    BY <1>1, <1>2, <1>3, <1>4, <1>5, <2>1, Zenon DEF CountsAreExact
<1>7. IdleMeansEmpty
  BY <1>1, <1>3 DEF IdleMeansEmpty
<1>8. QueueInv
  BY <1>1 DEF QueueInv, Once
<1> QED
  BY <1>6, <1>7, <1>8 DEF LaneInv

\* A step that changes nothing but the drain keeps the invariant.
LEMMA DrainPreserves ==
  ASSUME LaneInv, UNCHANGED <<stage, accountVars, semaphoreVars>>, draining' \in BOOLEAN
  PROVE  LaneInv'
<1>1. UNCHANGED <<stage, queuedItems, queuedBytes, active, idle, value, waiters>>
  BY DEF accountVars, semaphoreVars
<1>2. In(Waiting)' = In(Waiting) /\ In({"running"})' = In({"running"})
      /\ In({"granted", "running"})' = In({"granted", "running"})
      /\ In({"out"})' = In({"out"})
  BY <1>1 DEF In, Waiting
<1>3. TypeOK'
  BY <1>1 DEF LaneInv, CountsAreExact, TypeOK
<1>4. CountsAreExact'
  BY <1>1, <1>2, <1>3 DEF LaneInv, CountsAreExact
<1>5. IdleMeansEmpty'
  BY <1>1, <1>2 DEF LaneInv, IdleMeansEmpty
<1>6. QueueInv'
  BY <1>1 DEF LaneInv, QueueInv, Once, Queued
<1> QED
  BY <1>4, <1>5, <1>6 DEF LaneInv

\* Every step keeps the invariant.
LEMMA LaneInvNext == LaneInv /\ [Next]_vars => LaneInv'
<1> SUFFICES ASSUME LaneInv, [Next]_vars PROVE LaneInv'
  OBVIOUS
<1>1. CASE Drain
  BY <1>1, DrainPreserves DEF Drain
<1>2. CASE UNCHANGED vars
  <2>1. draining \in BOOLEAN
    BY DEF LaneInv, CountsAreExact, TypeOK
  <2> QED
    BY <1>2, <2>1, DrainPreserves DEF vars
<1>3. ASSUME NEW t \in Tasks, RunAtOnce(t) \/ RunQueued(t) \/ RunExpired(t)
      PROVE  LaneInv'
  BY <1>3, EntryPreserves
<1>4. ASSUME NEW t \in Tasks, Start(t) \/ Leave(t) PROVE LaneInv'
  BY <1>4, QueuePreserves
<1>5. ASSUME NEW t \in Tasks, Finish(t) PROVE LaneInv'
  BY <1>5, FinishPreserves
<1> QED
  BY <1>1, <1>2, <1>3, <1>4, <1>5 DEF Next

\* The lane's counters count the tasks that wait and that run, the byte budget
\* is the sum of the sizes of the requests that wait, and no slot of the
\* semaphore is lost or doubled, whatever the order of grants, deadlines and
\* cancellations in run.
THEOREM LaneCounts == Spec => []CountsAreExact
<1>1. LaneInv => CountsAreExact
  BY DEF LaneInv
<1> QED
  BY <1>1, LaneInvInit, LaneInvNext, PTL DEF Spec

\* The idle event that close waits for is set exactly when the lane is empty.
THEOREM LaneIdle == Spec => []IdleMeansEmpty
<1>1. LaneInv => IdleMeansEmpty
  BY DEF LaneInv
<1> QED
  BY <1>1, LaneInvInit, LaneInvNext, PTL DEF Spec

-----------------------------------------------------------------------------
(* The lane implements Lane.                                                *)

\* Lane counts as the lane does.
LEMMA LaneCardinality == \A S : LaneOf!Cardinality(S) = Cardinality(S)
BY DEF LaneOf!Cardinality, Cardinality

\* Every step of the lane is a step of Lane or changes nothing there.  A slot
\* that was free, or that was granted, is room for the task that starts.
LEMMA LaneStep == LaneInv /\ [Next]_vars => [LaneOf!Next]_(LaneOf!vars)
<1> DEFINE W == In(Waiting)
           R == In({"running"})
<1> SUFFICES ASSUME LaneInv, [Next]_vars
             PROVE  LaneOf!Next \/ (W' = W /\ R' = R)
  BY DEF LaneOf!vars
<1>1. CASE Drain \/ UNCHANGED vars
  <2>1. stage' = stage
    BY <1>1 DEF Drain, vars
  <2> QED
    BY <2>1 DEF In, Waiting
<1>2. /\ queuedItems = Cardinality(W) /\ value \in Nat /\ Concurrency \in Nat
      /\ value + Cardinality(In(Slots)) = Concurrency
  BY LaneConstants DEF LaneInv, CountsAreExact, TypeOK, Slots
<1>3. /\ In(Slots) \in SUBSET Tasks /\ R \in SUBSET In(Slots)
      /\ Cardinality(In(Slots)) \in Nat /\ Cardinality(R) \in Nat
      /\ Cardinality(R) <= Cardinality(In(Slots))
  <2>1. In(Slots) \in SUBSET Tasks /\ R \in SUBSET In(Slots) /\ R \in SUBSET Tasks
    BY DEF In, Slots
  <2> QED
    BY <2>1, TasksAreFinite
<1>4. ASSUME NEW t \in Tasks, RunAtOnce(t) PROVE LaneOf!Next
  <2>1. /\ t \notin W \union R /\ W' = W /\ R' = R \union {t}
    BY <1>4, EntryMoves
  <2>2. queuedItems < MaxItems /\ value # 0
    BY <1>4 DEF RunAtOnce, Admissible, Locked
  <2>3. Cardinality(R) < Concurrency
    BY <1>2, <1>3, <2>2
  <2>4. LaneOf!AdmitAndStart(t)
    BY <1>2, <2>1, <2>2, <2>3, LaneCardinality DEF LaneOf!AdmitAndStart, LaneOf!Enter
  <2> QED
    BY <2>4 DEF LaneOf!Next
<1>5. ASSUME NEW t \in Tasks, RunQueued(t) \/ RunExpired(t) PROVE LaneOf!Next
  <2>1. /\ t \notin W \union R /\ W' = W \union {t} /\ R' = R
    BY <1>5, EntryMoves
  <2>2. queuedItems < MaxItems
    BY <1>5 DEF RunQueued, RunExpired, Admissible
  <2>3. LaneOf!Admit(t)
    BY <1>2, <2>1, <2>2, LaneCardinality DEF LaneOf!Admit, LaneOf!Enter
  <2> QED
    BY <2>3 DEF LaneOf!Next
<1>6. ASSUME NEW t \in Tasks, Start(t) PROVE LaneOf!Next
  <2>1. t \in W /\ W' = W \ {t} /\ R' = R \union {t} /\ stage[t] = "granted"
    BY <1>6, QueueMoves
  <2>2. Cardinality(R) < Concurrency
    <3>1. t \in In(Slots) /\ R \in SUBSET (In(Slots) \ {t}) /\ In(Slots) \ {t} \in SUBSET Tasks
      BY <2>1 DEF In, Slots
    <3>2. /\ Cardinality(R) <= Cardinality(In(Slots) \ {t})
          /\ Cardinality(In(Slots) \ {t}) = Cardinality(In(Slots)) - 1
      BY <1>3, <3>1, TasksAreFinite
    <3> QED
      BY <1>2, <1>3, <3>2
  <2>3. LaneOf!Start(t)
    BY <2>1, <2>2, LaneCardinality DEF LaneOf!Start
  <2> QED
    BY <2>3 DEF LaneOf!Next
<1>7. ASSUME NEW t \in Tasks, Leave(t) PROVE LaneOf!Next
  <2>1. t \in W /\ W' = W \ {t} /\ R' = R
    BY <1>7, QueueMoves
  <2>2. LaneOf!Leave(t)
    BY <2>1 DEF LaneOf!Leave
  <2> QED
    BY <2>2 DEF LaneOf!Next
<1>8. ASSUME NEW t \in Tasks, Finish(t) PROVE LaneOf!Next
  <2>1. t \in R /\ W' = W /\ R' = R \ {t}
    BY <1>8, FinishMoves
  <2>2. LaneOf!Finish(t)
    BY <2>1 DEF LaneOf!Finish
  <2> QED
    BY <2>2 DEF LaneOf!Next
<1> QED
  BY <1>1, <1>4, <1>5, <1>6, <1>7, <1>8 DEF Next

\* The lane keeps the promises of Lane: never more tasks run than the lane's
\* concurrency, never more wait than its item budget, and a task runs only
\* after it was admitted.
THEOREM LaneRefinement == Spec => ImplementsLane
<1>1. Init => LaneOf!Init
  BY DEF Init, LaneOf!Init, In, Waiting
<1> QED
  BY <1>1, LaneInvInit, LaneInvNext, LaneStep, PTL DEF Spec, ImplementsLane, LaneOf!Spec
=============================================================================
