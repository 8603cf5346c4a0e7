---------------------- MODULE CollectionSchedulerProofs ----------------------
(***************************************************************************)
(* What the collection scheduler guarantees for every set of batches,      *)
(* limit, threshold and sharing of cache keys: its permits are never       *)
(* leaked, lost or exceeded, a cache key never has two live executions,    *)
(* tasks that share one agree on how it ended, and the whole implements    *)
(* TaskContract.                                                           *)
(***************************************************************************)
EXTENDS CollectionScheduler, FiniteSetTheorems, SequenceTheorems, TLAPS

-----------------------------------------------------------------------------
(* Facts about sequences without repetition. *)

NoRepeat(s) == \A i, j \in DOMAIN s : s[i] = s[j] => i = j

\* The first k entries of a sequence without repetition are k elements.
LEMMA PrefixCount ==
  ASSUME NEW S, NEW s \in Seq(S), NoRepeat(s), NEW k \in 0..Len(s)
  PROVE  /\ IsFiniteSet(Front(s, k))
         /\ Cardinality(Front(s, k)) = k
<1> DEFINE f == [i \in 1..k |-> s[i]]
<1>1. DOMAIN s = 1..Len(s) /\ Len(s) \in Nat
  BY LenProperties
<1>2. f \in Bijection(1..k, Front(s, k))
  <2>1. f \in [1..k -> Front(s, k)]
    BY DEF Front
  <2>2. \A i, j \in 1..k : f[i] = f[j] => i = j
    BY <1>1 DEF NoRepeat
  <2>3. \A w \in Front(s, k) : \E i \in 1..k : f[i] = w
    BY DEF Front
  <2>4. QED
    BY <2>1, <2>2, <2>3 DEF Bijection, Injection, Surjection, IsInjective
<1>3. ExistsBijection(1..k, Front(s, k))
  BY <1>2 DEF ExistsBijection
<1>4. k \in Nat
  BY <1>1
<1>5. IsFiniteSet(Front(s, k))
  BY <1>3, <1>4, FS_NatBijection
<1>6. Cardinality(Front(s, k)) = k
  BY <1>3, <1>4, FS_CountingElements
<1>7. QED
  BY <1>5, <1>6

\* What follows the first k entries has the other entries' number.
LEMMA SuffixLength ==
  \A m, k \in Nat :
    k <= m => (IF k + 1 <= m THEN m - (k + 1) + 1 ELSE 0) = m - k
OBVIOUS

\* What follows the first k entries keeps the rest, still without repetition.
LEMMA SuffixFacts ==
  ASSUME NEW S, NEW s \in Seq(S), NoRepeat(s), NEW k \in 0..Len(s),
         NEW rest, rest = Rest(s, k)
  PROVE  /\ rest \in Seq(S)
         /\ Len(rest) = Len(s) - k
         /\ NoRepeat(rest)
         /\ Elements(rest) = Elements(s) \ Front(s, k)
<1>1. DOMAIN s = 1..Len(s) /\ Len(s) \in Nat /\ k \in Nat /\ k <= Len(s)
  BY LenProperties
<1>2. /\ rest \in Seq(S)
      /\ Len(rest) = Len(s) - k
      /\ \A i \in 1..(Len(s) - k) : rest[i] = s[k + i]
  <2>1. k + 1 \in Int /\ Len(s) \in Int
    BY <1>1
  <2>2. \A i \in (k + 1)..Len(s) : s[i] \in S
    BY <1>1, ElementOfSeq
  <2>3. /\ SubSeq(s, k + 1, Len(s)) \in Seq(S)
        /\ Len(SubSeq(s, k + 1, Len(s))) =
             IF k + 1 <= Len(s) THEN Len(s) - (k + 1) + 1 ELSE 0
        /\ \A i \in 1..(Len(s) - (k + 1) + 1) :
             SubSeq(s, k + 1, Len(s))[i] = s[(k + 1) + i - 1]
    BY <2>1, <2>2, SubSeqProperties
  <2>4. /\ rest \in Seq(S)
        /\ Len(rest) = IF k + 1 <= Len(s) THEN Len(s) - (k + 1) + 1 ELSE 0
        /\ \A i \in 1..(Len(s) - (k + 1) + 1) : rest[i] = s[(k + 1) + i - 1]
    BY <2>3, Zenon DEF Rest
  <2>5. Len(rest) = Len(s) - k
    <3>1. (IF k + 1 <= Len(s) THEN Len(s) - (k + 1) + 1 ELSE 0) = Len(s) - k
      BY <1>1, SuffixLength, Zenon
    <3>2. QED
      BY <2>4, <3>1, Zenon
  <2>6. ASSUME NEW i \in 1..(Len(s) - k) PROVE rest[i] = s[k + i]
    <3>1. i \in 1..(Len(s) - (k + 1) + 1)
      BY <1>1
    <3>2. rest[i] = s[(k + 1) + i - 1]
      BY <2>4, <3>1, Zenon
    <3>3. (k + 1) + i - 1 = k + i
      BY <1>1
    <3>4. QED
      BY <3>2, <3>3, Zenon
  <2>7. QED
    BY <2>4, <2>5, <2>6, Zenon
<1>3. DOMAIN rest = 1..(Len(s) - k)
  BY <1>2, LenProperties
<1>4. NoRepeat(rest)
  <2>1. ASSUME NEW i \in DOMAIN rest, NEW j \in DOMAIN rest, rest[i] = rest[j]
        PROVE  i = j
    <3>1. i \in 1..(Len(s) - k) /\ j \in 1..(Len(s) - k)
      BY <1>3
    <3>2. s[k + i] = s[k + j]
      BY <1>2, <2>1, <3>1
    <3>3. k + i \in DOMAIN s /\ k + j \in DOMAIN s
      BY <1>1, <3>1
    <3>4. k + i = k + j
      BY <3>2, <3>3, Zenon DEF NoRepeat
    <3>5. QED
      BY <1>1, <3>1, <3>4
  <2>2. QED
    BY <2>1, Zenon DEF NoRepeat
<1>5. Elements(rest) = Elements(s) \ Front(s, k)
  <2>1. ASSUME NEW x \in Elements(rest)
        PROVE  x \in Elements(s) \ Front(s, k)
    <3>1. PICK i \in 1..(Len(s) - k) : x = s[k + i]
      BY <1>2, <1>3 DEF Elements
    <3>2. k + i \in 1..Len(s) /\ k + i \notin 1..k
      BY <1>1
    <3>3. x \in Elements(s)
      BY <1>1, <3>1, <3>2 DEF Elements
    <3>4. ASSUME NEW j \in 1..k, x = s[j] PROVE FALSE
      <4>1. j \in DOMAIN s /\ k + i \in DOMAIN s
        BY <1>1, <3>2
      <4>2. j = k + i
        BY <3>1, <3>4, <4>1, Zenon DEF NoRepeat
      <4>3. QED
        BY <3>2, <4>2
    <3>5. QED
      BY <3>3, <3>4 DEF Front
  <2>2. ASSUME NEW x \in Elements(s) \ Front(s, k)
        PROVE  x \in Elements(rest)
    <3>1. PICK i \in 1..Len(s) : x = s[i] /\ i \notin 1..k
      BY <1>1 DEF Elements, Front
    <3>2. i - k \in 1..(Len(s) - k) /\ k + (i - k) = i
      BY <1>1, <3>1
    <3>3. QED
      BY <1>2, <1>3, <3>1, <3>2 DEF Elements
  <2>3. QED
    BY <2>1, <2>2
<1>6. QED
  BY <1>2, <1>4, <1>5

\* Two sequences without repetition and without a common element, joined.
LEMMA JoinFacts ==
  ASSUME NEW S, NEW p \in Seq(S), NEW q \in Seq(S), NoRepeat(p), NoRepeat(q),
         Elements(p) \cap Elements(q) = {},
         NEW c \in Seq(S), Len(c) = Len(p) + Len(q),
         \A i \in 1..(Len(p) + Len(q)) :
           c[i] = IF i <= Len(p) THEN p[i] ELSE q[i - Len(p)]
  PROVE  /\ NoRepeat(c)
         /\ Elements(c) = Elements(p) \cup Elements(q)
<1>1. /\ DOMAIN p = 1..Len(p) /\ Len(p) \in Nat
      /\ DOMAIN q = 1..Len(q) /\ Len(q) \in Nat
  BY LenProperties
<1>2. /\ Len(c) = Len(p) + Len(q)
      /\ \A i \in 1..(Len(p) + Len(q)) :
           c[i] = IF i <= Len(p) THEN p[i] ELSE q[i - Len(p)]
  OBVIOUS
<1>3. DOMAIN c = 1..(Len(p) + Len(q))
  BY <1>2, LenProperties
<1>4. ASSUME NEW i \in DOMAIN c
      PROVE  \/ i \in DOMAIN p /\ c[i] = p[i]
             \/ i - Len(p) \in DOMAIN q /\ c[i] = q[i - Len(p)]
                /\ i = Len(p) + (i - Len(p))
  <2>1. i \in 1..(Len(p) + Len(q))
    BY <1>3
  <2>2. CASE i <= Len(p)
    <3>1. i \in 1..Len(p)
      BY <1>1, <2>1, <2>2
    <3>2. QED
      BY <1>1, <1>2, <2>1, <2>2, <3>1, Zenon
  <2>3. CASE ~(i <= Len(p))
    <3>1. i - Len(p) \in 1..Len(q) /\ i = Len(p) + (i - Len(p))
      BY <1>1, <2>1, <2>3
    <3>2. QED
      BY <1>1, <1>2, <2>1, <2>3, <3>1, Zenon
  <2>4. QED
    BY <2>2, <2>3
<1>5. ASSUME NEW i \in DOMAIN p PROVE i \in DOMAIN c /\ c[i] = p[i]
  <2>1. i \in 1..(Len(p) + Len(q)) /\ i <= Len(p)
    BY <1>1
  <2>2. QED
    BY <1>2, <1>3, <2>1, Zenon
<1>6. ASSUME NEW i \in DOMAIN q PROVE Len(p) + i \in DOMAIN c /\ c[Len(p) + i] = q[i]
  <2>1. /\ Len(p) + i \in 1..(Len(p) + Len(q))
        /\ ~(Len(p) + i <= Len(p))
        /\ (Len(p) + i) - Len(p) = i
    BY <1>1
  <2>2. c[Len(p) + i] = q[(Len(p) + i) - Len(p)]
    BY <1>2, <2>1, Zenon
  <2>3. QED
    BY <1>3, <2>1, <2>2, Zenon
<1>7. NoRepeat(c)
  <2>1. ASSUME NEW i \in DOMAIN c, NEW j \in DOMAIN c, c[i] = c[j]
        PROVE  i = j
    <3>1. \A x \in DOMAIN p, y \in DOMAIN q : p[x] # q[y]
      BY DEF Elements
    <3>2. CASE /\ i \in DOMAIN p /\ c[i] = p[i]
               /\ j \in DOMAIN p /\ c[j] = p[j]
      BY <2>1, <3>2, Zenon DEF NoRepeat
    <3>3. CASE /\ i - Len(p) \in DOMAIN q /\ c[i] = q[i - Len(p)]
               /\ j - Len(p) \in DOMAIN q /\ c[j] = q[j - Len(p)]
               /\ i = Len(p) + (i - Len(p)) /\ j = Len(p) + (j - Len(p))
      <4>1. i - Len(p) = j - Len(p)
        BY <2>1, <3>3, Zenon DEF NoRepeat
      <4>2. QED
        BY <3>3, <4>1, Zenon
    <3>4. QED
      BY <1>4, <2>1, <3>1, <3>2, <3>3, ZenonT(40)
  <2>2. QED
    BY <2>1, Zenon DEF NoRepeat
<1>8. Elements(c) = Elements(p) \cup Elements(q)
  BY <1>4, <1>5, <1>6 DEF Elements
<1>9. QED
  BY <1>7, <1>8

\* Length and entries of two sequences joined.
LEMMA ConcatFacts ==
  ASSUME NEW S, NEW p \in Seq(S), NEW q \in Seq(S), NoRepeat(p), NoRepeat(q),
         Elements(p) \cap Elements(q) = {}
  PROVE  /\ p \o q \in Seq(S)
         /\ NoRepeat(p \o q)
         /\ Elements(p \o q) = Elements(p) \cup Elements(q)
<1>1. /\ p \o q \in Seq(S)
      /\ Len(p \o q) = Len(p) + Len(q)
      /\ \A i \in 1..(Len(p) + Len(q)) :
           (p \o q)[i] = IF i <= Len(p) THEN p[i] ELSE q[i - Len(p)]
  BY ConcatProperties, Zenon
<1>2. QED
  BY <1>1, JoinFacts, ZenonT(60)

-----------------------------------------------------------------------------
(* Permits and queue agree with the phases. *)

Holding(ph) == {t \in Tasks : ph[t] \in {"granted", "executing"}}
Waiting(ph) == {t \in Tasks : ph[t] = "waiting"}

Consistent(ph, n, q) ==
  /\ ph \in [Tasks -> Phases]
  /\ q \in Seq(Tasks)
  /\ n = Cardinality(Holding(ph))
  /\ NoRepeat(q)
  /\ Elements(q) = Waiting(ph)

\* The permits in use are a natural number.
LEMMA HoldingFinite ==
  ASSUME NEW ph
  PROVE  IsFiniteSet(Holding(ph)) /\ Cardinality(Holding(ph)) \in Nat
<1>1. Holding(ph) \in SUBSET Tasks
  BY DEF Holding
<1>2. IsFiniteSet(Holding(ph))
  BY <1>1, FS_Subset, BatchAssumption
<1>3. QED
  BY <1>2, FS_CardinalityType

\* Granting k waiters that leave the front of the queue keeps the agreement.
LEMMA WakeKeeps ==
  ASSUME NEW ph, NEW n, NEW q, Consistent(ph, n, q), NEW k \in 0..Len(q),
         NEW ph2 \in [Tasks -> Phases],
         \A u \in Tasks : ph2[u] = IF u \in Front(q, k) THEN "granted" ELSE ph[u]
  PROVE  Consistent(ph2, n + k, Rest(q, k))
<1> DEFINE W == Front(q, k)
<1>a. k \in Nat /\ n \in Nat
  BY HoldingFinite, LenProperties DEF Consistent
<1>1. /\ q \in Seq(Tasks) /\ NoRepeat(q) /\ Elements(q) = Waiting(ph)
      /\ n = Cardinality(Holding(ph))
  BY DEF Consistent
<1>2. IsFiniteSet(W) /\ Cardinality(W) = k
  BY <1>1, PrefixCount
<1>3. W \subseteq Waiting(ph)
  <2>1. DOMAIN q = 1..Len(q) /\ Len(q) \in Nat
    BY <1>1, LenProperties
  <2>2. W \subseteq Elements(q)
    BY <2>1 DEF Elements, Front
  <2>3. QED
    BY <1>1, <2>2
<1> HIDE DEF W
<1>4. Holding(ph2) = Holding(ph) \cup W
  BY <1>3 DEF Holding, Waiting, W
<1>5. Holding(ph) \cap W = {}
  BY <1>3 DEF Holding, Waiting
<1>6. Cardinality(Holding(ph2)) = n + k
  <2>1. Cardinality({}) = 0
    BY FS_EmptySet
  <2>2. Cardinality(Holding(ph) \cup W) =
          Cardinality(Holding(ph)) + Cardinality(W) - Cardinality(Holding(ph) \cap W)
    BY <1>2, HoldingFinite, FS_Union
  <2>3. Cardinality(Holding(ph) \cap W) = 0
    BY <1>5, <2>1, Zenon
  <2>4. Cardinality(Holding(ph2)) = n + k - 0
    BY <1>1, <1>2, <1>4, <2>2, <2>3, Zenon
  <2>5. QED
    BY <1>a, <2>4
<1>7. Waiting(ph2) = Waiting(ph) \ W
  BY <1>3 DEF Waiting, W
<1>8. /\ Rest(q, k) \in Seq(Tasks)
      /\ NoRepeat(Rest(q, k))
      /\ Elements(Rest(q, k)) = Elements(q) \ W
  BY <1>1, SuffixFacts, Zenon DEF W
<1>9. QED
  BY <1>1, <1>6, <1>7, <1>8, Zenon DEF Consistent

\* A function on 1..m is a sequence of length m.
LEMMA FunctionIsSeq ==
  ASSUME NEW S, NEW m \in Nat, NEW f \in [1..m -> S]
  PROVE  f \in Seq(S) /\ Len(f) = m /\ DOMAIN f = 1..m
<1>1. f \in Seq(S)
  <2>1. f \in UNION {[1..i -> S] : i \in Nat}
    OBVIOUS
  <2>2. QED
    BY <2>1, SeqDef, Zenon
<1>2. Len(f) \in Nat /\ DOMAIN f = 1..Len(f)
  BY <1>1, LenProperties
<1>3. DOMAIN f = 1..m
  OBVIOUS
<1>4. 1..Len(f) = 1..m
  BY <1>2, <1>3
<1>5. Len(f) = m
  BY <1>2, <1>4
<1>6. QED
  BY <1>1, <1>3, <1>5

\* Starting the tasks of a line, the first k with a permit and the others at
\* the end of the queue, keeps the agreement.
LEMMA StartKeeps ==
  ASSUME NEW ph, NEW n, NEW q, Consistent(ph, n, q),
         NEW R \in SUBSET Tasks, \A t \in R : ph[t] = "remaining",
         NEW m \in Nat, NEW line \in [1..m -> R], NoRepeat(line),
         NEW k \in 0..m,
         NEW ph2 \in [Tasks -> Phases],
         \A t \in Tasks :
           \/ t \in Front(line, k) /\ ph2[t] = "granted"
           \/ t \in Elements(line) \ Front(line, k) /\ ph2[t] = "waiting"
           \/ t \notin Elements(line) /\ ph[t] = "remaining" /\ ph2[t] = "completed"
           \/ t \notin Elements(line) /\ ph2[t] = ph[t]
  PROVE  Consistent(ph2, n + k, q \o Rest(line, k))
<1> DEFINE G == Front(line, k)
           L == Elements(line) \ G
<1>a. k \in Nat /\ n \in Nat
  BY HoldingFinite DEF Consistent
<1>1. /\ q \in Seq(Tasks) /\ NoRepeat(q) /\ Elements(q) = Waiting(ph)
      /\ n = Cardinality(Holding(ph))
  BY DEF Consistent
<1>2. line \in Seq(Tasks) /\ Len(line) = m /\ DOMAIN line = 1..m
  <2>1. line \in [1..m -> Tasks]
    OBVIOUS
  <2>2. QED
    BY <2>1, FunctionIsSeq
<1>3. IsFiniteSet(G) /\ Cardinality(G) = k
  BY <1>2, PrefixCount
<1>4. Elements(line) \subseteq R /\ G \subseteq Elements(line)
  BY <1>2 DEF Elements, Front
<1>5. /\ Rest(line, k) \in Seq(Tasks)
      /\ NoRepeat(Rest(line, k))
      /\ Elements(Rest(line, k)) = L
  BY <1>2, SuffixFacts, Zenon
<1> HIDE DEF G, L
<1>6. Holding(ph2) = Holding(ph) \cup G /\ Holding(ph) \cap G = {}
  BY <1>4 DEF Holding, L, G
<1>7. Cardinality(Holding(ph2)) = n + k
  <2>1. Cardinality({}) = 0
    BY FS_EmptySet
  <2>2. Cardinality(Holding(ph) \cup G) =
          Cardinality(Holding(ph)) + Cardinality(G) - Cardinality(Holding(ph) \cap G)
    BY <1>3, HoldingFinite, FS_Union
  <2>3. Cardinality(Holding(ph) \cap G) = 0
    BY <1>6, <2>1, Zenon
  <2>4. Cardinality(Holding(ph2)) = n + k - 0
    BY <1>1, <1>3, <1>6, <2>2, <2>3, Zenon
  <2>5. QED
    BY <1>a, <2>4
<1>8. Waiting(ph2) = Waiting(ph) \cup L /\ Waiting(ph) \cap L = {}
  BY <1>4 DEF Waiting, L, G
<1>9. /\ q \o Rest(line, k) \in Seq(Tasks)
      /\ NoRepeat(q \o Rest(line, k))
      /\ Elements(q \o Rest(line, k)) = Waiting(ph) \cup L
  <2>1. Elements(q) \cap Elements(Rest(line, k)) = {}
    BY <1>1, <1>5, <1>8, Zenon
  <2>2. QED
    <3>1. /\ q \o Rest(line, k) \in Seq(Tasks)
          /\ NoRepeat(q \o Rest(line, k))
          /\ Elements(q \o Rest(line, k)) = Elements(q) \cup Elements(Rest(line, k))
      BY <1>1, <1>5, <2>1, ConcatFacts, SMT
    <3>2. QED
      BY <1>1, <1>5, <3>1, Zenon
<1>10. QED
  BY <1>7, <1>8, <1>9, Zenon DEF Consistent

-----------------------------------------------------------------------------
(* The inductive invariant of the permits. *)

PermitInv ==
  /\ Consistent(phase, permits, waiters)
  /\ permits <= MaximumConcurrency
  /\ NoLostWakeup

\* Woken is a number of waiters, and wakes them all unless it fills the limit.
LEMMA WokenFacts ==
  ASSUME NEW q \in Seq(Tasks), NEW n \in Int, NEW limit \in Nat
  PROVE  /\ Woken(q, n, limit) \in 0..Len(q)
         /\ n <= limit => n + Woken(q, n, limit) <= limit
         /\ n > limit => Woken(q, n, limit) = 0
         /\ Woken(q, n, limit) < Len(q) => n + Woken(q, n, limit) >= limit
<1>1. Len(q) \in Nat
  BY LenProperties
<1>2. QED
  BY <1>1 DEF Woken, Least, Spare

\* What is left of a queue after k of its entries.
LEMMA RestEmpty ==
  ASSUME NEW S, NEW q \in Seq(S), NoRepeat(q), NEW k \in 0..Len(q), Rest(q, k) # <<>>
  PROVE  k < Len(q)
<1>1. Len(q) \in Nat /\ k \in Nat
  BY LenProperties
<1>2. Rest(q, k) \in Seq(S) /\ Len(Rest(q, k)) = Len(q) - k
  BY SuffixFacts, Zenon
<1>3. Len(Rest(q, k)) # 0
  BY <1>2, EmptySeq
<1>4. QED
  BY <1>1, <1>2, <1>3

\* Tasks the loop dispatches are listed once: the order is strict.
LEMMA DispatchedFacts ==
  ASSUME NEW R \in SUBSET Tasks, NEW m \in Nat, NEW line \in Dispatched(R, m)
  PROVE  line \in [1..m -> R] /\ NoRepeat(line)
<1>1. /\ line \in [1..m -> R]
      /\ \A i, j \in 1..m : i < j => Before(line[i], line[j])
  BY DEF Dispatched
<1>2. \A t \in Tasks : ~Before(t, t)
  BY BatchAssumption DEF Before
<1>3. ASSUME NEW i \in 1..m, NEW j \in 1..m, line[i] = line[j], i # j
      PROVE  FALSE
  <2>1. line[i] \in Tasks
    BY <1>1
  <2>2. i < j \/ j < i
    BY <1>3
  <2>3. QED
    BY <1>1, <1>2, <1>3, <2>1, <2>2
<1>4. QED
  BY <1>1, <1>3 DEF NoRepeat

-----------------------------------------------------------------------------
(* What one iteration does to the tasks. *)

\* A task is skipped because of a dependency: the recursive function of SkipPass has a
\* value, namely the least set closed under its equation.
LEMMA SkipCause ==
  ASSUME NEW rest \in SUBSET Tasks, NEW ph, NEW res, NEW t \in SkipPass(rest, ph, res)
  PROVE  /\ t \in rest
         /\ \E d \in Deps[t] : \/ ph[d] = "completed" /\ res[d] # "success"
                               \/ d \in SkipPass(rest, ph, res)
<1> DEFINE skips[u \in Tasks] ==
             /\ u \in rest
             /\ \E d \in Deps[u] :
                  \/ ph[d] = "completed" /\ res[d] # "success"
                  \/ Position[d] < Position[u] /\ skips[d]
           Cause(X, u) ==
             /\ u \in rest
             /\ \E d \in Deps[u] :
                  \/ ph[d] = "completed" /\ res[d] # "success"
                  \/ Position[d] < Position[u] /\ d \in X
           Closed(X) == \A u \in Tasks : Cause(X, u) => u \in X
           least == {u \in Tasks : \A X \in SUBSET Tasks : Closed(X) => u \in X}
           f == [u \in Tasks |-> u \in least]
<1>1. SkipPass(rest, ph, res) = {u \in rest : skips[u]}
  BY Zenon DEF SkipPass
<1>2. \A X, Y \in SUBSET Tasks, u \in Tasks : X \subseteq Y /\ Cause(X, u) => Cause(Y, u)
  BY Zenon
<1>3. least \in SUBSET Tasks /\ Closed(least)
  <2> HIDE DEF Cause
  <2>1. ASSUME NEW u \in Tasks, Cause(least, u), NEW X \in SUBSET Tasks, Closed(X)
        PROVE  u \in X
    <3>1. least \subseteq X
      BY <2>1, Zenon
    <3>2. Cause(X, u)
      BY <1>2, <2>1, <3>1, Zenon
    <3>3. QED
      BY <2>1, <3>2, Zenon
  <2>2. QED
    BY <2>1, Zenon
<1>4. \A u \in least : Cause(least, u)
  <2> DEFINE smaller == {u \in least : Cause(least, u)}
  <2>1. smaller \in SUBSET Tasks /\ smaller \subseteq least
    BY Zenon
  <2>2. Closed(smaller)
    <3> HIDE DEF Cause, least
    <3>1. ASSUME NEW u \in Tasks, Cause(smaller, u) PROVE u \in smaller
      <4>1. Cause(least, u)
        BY <1>2, <1>3, <2>1, <3>1, Zenon
      <4>2. QED
        BY <1>3, <4>1, Zenon
    <3>2. QED
      BY <3>1, Zenon
  <2>3. least \subseteq smaller
    <3> HIDE DEF Cause, smaller
    <3>1. QED
      BY <2>1, <2>2, Zenon
  <2>4. QED
    BY <2>3, Zenon
<1>5. f = [u \in Tasks |-> /\ u \in rest
                           /\ \E d \in Deps[u] :
                                \/ ph[d] = "completed" /\ res[d] # "success"
                                \/ Position[d] < Position[u] /\ f[d]]
  <2>1. ASSUME NEW u \in Tasks
        PROVE  (u \in least) <=> /\ u \in rest
                                 /\ \E d \in Deps[u] :
                                     \/ ph[d] = "completed" /\ res[d] # "success"
                                     \/ Position[d] < Position[u] /\ f[d]
    <3>1. \A d \in Deps[u] : d \in Tasks /\ (f[d] <=> d \in least)
      BY DependencyAssumption, Zenon
    <3>2. (u \in least) <=> Cause(least, u)
      BY <1>3, <1>4, Zenon
    <3> HIDE DEF least, f
    <3>3. QED
      BY <3>1, <3>2, Zenon
  <2> DEFINE g == [u \in Tasks |-> /\ u \in rest
                                  /\ \E d \in Deps[u] :
                                       \/ ph[d] = "completed" /\ res[d] # "success"
                                       \/ Position[d] < Position[u] /\ f[d]]
  <2>2. \A u \in Tasks : f[u] = g[u]
    <3>1. ASSUME NEW u \in Tasks PROVE f[u] = g[u]
      <4>1. f[u] = (u \in least)
        BY Zenon
      <4> HIDE DEF f, least
      <4>2. g[u] = (/\ u \in rest
                    /\ \E d \in Deps[u] :
                        \/ ph[d] = "completed" /\ res[d] # "success"
                        \/ Position[d] < Position[u] /\ f[d])
        BY Zenon
      <4>3. QED
        BY <2>1, <4>1, <4>2, SMT
    <3>2. QED
      BY <3>1, Zenon
  <2>3. f = g
    <3>1. f = [u \in Tasks |-> f[u]] /\ g = [u \in Tasks |-> g[u]]
      BY Zenon
    <3> HIDE DEF f, g
    <3>2. QED
      BY <2>2, <3>1
  <2>4. QED
    BY <2>3, Zenon
<1>6. skips = [u \in Tasks |-> /\ u \in rest
                               /\ \E d \in Deps[u] :
                                    \/ ph[d] = "completed" /\ res[d] # "success"
                                    \/ Position[d] < Position[u] /\ skips[d]]
  <2> HIDE DEF f
  <2>1. QED
    BY <1>5, Zenon DEF skips
<1> HIDE DEF skips
<1>7. t \in rest /\ skips[t]
  BY <1>1, Zenon
<1>8. \A u \in Tasks : skips[u] <=> /\ u \in rest
                                    /\ \E d \in Deps[u] :
                                         \/ ph[d] = "completed" /\ res[d] # "success"
                                         \/ Position[d] < Position[u] /\ skips[d]
  BY <1>6, Zenon
<1>9. PICK d \in Deps[t] : \/ ph[d] = "completed" /\ res[d] # "success"
                           \/ skips[d]
  BY <1>7, <1>8, Zenon
<1>10. d \in Tasks
  BY <1>7, DependencyAssumption
<1>11. QED
  BY <1>1, <1>7, <1>8, <1>9, <1>10, Zenon

\* A task moves in an iteration from phases ph and results res: it is started behind its
\* dependencies, skipped because of one, or cancelled by the signal.
Started(t, ph, res) ==
  /\ phase'[t] \in {"waiting", "granted"} /\ result'[t] = res[t]
  /\ \A d \in Deps[t] : ph[d] = "completed" /\ res[d] = "success"
Skipped(t) ==
  /\ phase'[t] = "completed" /\ result'[t] = "skipped"
  /\ \E d \in Deps[t] : phase'[d] = "completed" /\ result'[d] # "success"
Cancelled(t) ==
  /\ phase'[t] = "completed" /\ result'[t] = "cancelled"
  /\ IsAborted(RunOf[t])
Moved(ph, res) ==
  \A t \in Tasks :
    \/ phase'[t] = ph[t] /\ result'[t] = res[t]
    \/ ph[t] = "remaining" /\ (Started(t, ph, res) \/ Skipped(t) \/ Cancelled(t))

\* Waiters that are granted a permit; the other tasks keep their phase.
Woke(u, ph) == ph[u] = phase[u] \/ (phase[u] = "waiting" /\ ph[u] = "granted")

\* What one iteration keeps of permits and queue, for any phases, permits and
\* queue it starts from.
LEMMA IterateKeeps ==
  ASSUME NEW r \in Runs, NEW ph, NEW res \in [Tasks -> Statuses \cup {"none"}],
         NEW n, NEW q, NEW limit \in 0..MaximumConcurrency,
         Consistent(ph, n, q), n <= MaximumConcurrency,
         q # <<>> => n >= limit,
         runState \in [Runs -> RunStates],
         Iterate(r, ph, res, n, q, limit)
  PROVE  /\ Consistent(phase', permits', waiters')
         /\ permits' <= MaximumConcurrency
         /\ waiters' # <<>> => permits' >= limit
         /\ result' \in [Tasks -> Statuses \cup {"none"}]
         /\ runState' \in [Runs -> RunStates]
         /\ \A t \in Tasks : phase'[t] = "executing" <=> ph[t] = "executing"
         /\ Moved(ph, res)
         /\ \A t \in Tasks : ph[t] # "granted" /\ phase'[t] = "granted" => permits' <= limit
         /\ n <= limit => permits' <= limit
<1> DEFINE rest == {t \in TasksOf(r) : ph[t] = "remaining"}
           skipped == SkipPass(rest, ph, res)
           cancelled == IF IsAborted(r) THEN rest \ skipped ELSE {}
           ready == {t \in rest \ (skipped \cup cancelled) :
                       \A d \in Deps[t] : ph[d] = "completed" /\ res[d] = "success"}
           active == {t \in TasksOf(r) : ph[t] \in ActivePhases}
           m == Least(Spare(limit, Cardinality(active)), Cardinality(ready))
           k == Least(Spare(limit, n), m)
<1>1. /\ n \in Nat /\ limit \in Nat /\ MaximumConcurrency \in Nat
      /\ ph \in [Tasks -> Phases] /\ q \in Seq(Tasks)
  BY HoldingFinite, ConcurrencyAssumption DEF Consistent
<1>2. /\ Cardinality(active) \in Nat
      /\ Cardinality(ready) \in Nat
      /\ ready \in SUBSET Tasks
  <2>1. active \in SUBSET Tasks /\ ready \in SUBSET Tasks
    BY DEF TasksOf
  <2>2. IsFiniteSet(active) /\ IsFiniteSet(ready)
    BY <2>1, FS_Subset, BatchAssumption
  <2>3. QED
    BY <2>1, <2>2, FS_CardinalityType
<1>3. m \in Nat /\ k \in 0..m /\ n + k <= MaximumConcurrency
  <2> HIDE DEF active, ready
  <2>1. Spare(limit, Cardinality(active)) \in Nat /\ Spare(limit, n) \in Nat
    BY <1>1, <1>2 DEF Spare
  <2>2. m \in Nat
    BY <1>2, <2>1 DEF Least
  <2> HIDE DEF m
  <2>3. QED
    BY <1>1, <2>1, <2>2 DEF Least, Spare
<1>4. PICK line \in Dispatched(ready, m) :
        /\ phase' = [t \in Tasks |->
                       IF t \in skipped \cup cancelled THEN "completed"
                       ELSE IF t \in Front(line, k) THEN "granted"
                       ELSE IF t \in Elements(line) THEN "waiting"
                       ELSE ph[t]]
        /\ result' = [t \in Tasks |-> IF t \in skipped THEN "skipped"
                                      ELSE IF t \in cancelled THEN "cancelled"
                                      ELSE res[t]]
        /\ permits' = n + k
        /\ waiters' = q \o Rest(line, k)
        /\ runState' = [runState EXCEPT ![r] =
             IF active \cup Elements(line) # {} THEN "running"
             ELSE IF rest \ (skipped \cup cancelled \cup Elements(line)) # {}
             THEN "failed" ELSE "finished"]
  BY Zenon DEF Iterate
<1>5. /\ skipped \subseteq rest
      /\ cancelled \subseteq rest
      /\ ready \subseteq rest \ (skipped \cup cancelled)
  <2>1. skipped \subseteq rest
    BY Zenon DEF SkipPass
  <2>2. QED
    BY <2>1
<1>6. \A t \in rest : t \in Tasks /\ ph[t] = "remaining"
  BY DEF TasksOf
<1> HIDE DEF rest, skipped, cancelled, ready, active, m, k
<1>7. line \in [1..m -> ready] /\ NoRepeat(line)
  BY <1>2, <1>3, <1>4, DispatchedFacts
<1>8. Elements(line) \subseteq ready /\ Front(line, k) \subseteq Elements(line)
  BY <1>3, <1>7 DEF Elements, Front
<1>9. phase' \in [Tasks -> Phases]
  BY <1>1, <1>4 DEF Phases
<1>10. \A t \in Tasks :
         \/ t \in Front(line, k) /\ phase'[t] = "granted"
         \/ t \in Elements(line) \ Front(line, k) /\ phase'[t] = "waiting"
         \/ t \notin Elements(line) /\ ph[t] = "remaining" /\ phase'[t] = "completed"
         \/ t \notin Elements(line) /\ phase'[t] = ph[t]
  BY <1>4, <1>5, <1>6, <1>8
<1>11. \A t \in ready : ph[t] = "remaining"
  BY <1>5, <1>6
<1>12. Consistent(phase', n + k, q \o Rest(line, k))
  BY <1>2, <1>3, <1>7, <1>9, <1>10, <1>11, StartKeeps
<1>13. ASSUME waiters' # <<>> PROVE permits' >= limit
  <2>1. CASE q # <<>>
    BY <1>1, <1>3, <1>4, <2>1
  <2>2. CASE q = <<>>
    <3>1. line \in Seq(ready) /\ Len(line) = m
      BY <1>3, <1>7, FunctionIsSeq
    <3>2. Rest(line, k) \in Seq(ready)
      BY <1>3, <1>7, <3>1, SuffixFacts, Zenon
    <3>3. waiters' = Rest(line, k)
      BY <1>4, <2>2, <3>2, ConcatEmptySeq, Zenon
    <3>4. k < m
      BY <1>3, <1>7, <1>13, <3>1, <3>3, RestEmpty, Zenon
    <3>5. QED
      BY <1>1, <1>3, <1>4, <3>4 DEF k, Least, Spare
  <2>3. QED
    BY <2>1, <2>2
<1>14. result' \in [Tasks -> Statuses \cup {"none"}]
  BY <1>4 DEF Statuses
<1>15. runState' \in [Runs -> RunStates]
  BY <1>4 DEF RunStates
<1>16. \A t \in Tasks : phase'[t] = "executing" <=> ph[t] = "executing"
  BY <1>8, <1>10, <1>11
<1>17. Moved(ph, res)
  <2>1. ASSUME NEW t \in skipped PROVE Skipped(t)
    <3>1. \A u \in skipped : phase'[u] = "completed" /\ result'[u] = "skipped"
      BY <1>4, <1>5, <1>6
    <3>2. rest \in SUBSET Tasks
      BY DEF rest, TasksOf
    <3>3. PICK d \in Deps[t] : \/ ph[d] = "completed" /\ res[d] # "success"
                              \/ d \in skipped
      BY <3>2, SkipCause DEF skipped
    <3>4. d \in Tasks /\ t \in Tasks
      BY <1>5, <1>6, DependencyAssumption
    <3>5. CASE d \in skipped
      BY <3>1, <3>5 DEF Skipped
    <3>6. CASE ph[d] = "completed" /\ res[d] # "success" /\ d \notin skipped
      <4>1. d \notin rest
        BY <1>6, <3>6
      <4>2. phase'[d] = "completed" /\ result'[d] = res[d]
        BY <1>4, <1>5, <1>8, <3>4, <3>6, <4>1
      <4>3. QED
        BY <3>1, <3>6, <4>2 DEF Skipped
    <3>7. QED
      BY <3>3, <3>5, <3>6
  <2>2. ASSUME NEW t \in cancelled \ skipped PROVE Cancelled(t)
    <3>1. t \in Tasks /\ RunOf[t] = r /\ IsAborted(r)
      BY <1>5 DEF cancelled, rest, TasksOf
    <3>2. QED
      BY <1>4, <3>1 DEF Cancelled
  <2>3. ASSUME NEW t \in Elements(line) PROVE Started(t, ph, res)
    <3>1. t \in ready /\ t \in Tasks /\ t \notin skipped \cup cancelled
      BY <1>5, <1>6, <1>8
    <3>2. phase'[t] \in {"waiting", "granted"} /\ result'[t] = res[t]
      BY <1>4, <3>1
    <3>3. QED
      BY <3>1, <3>2 DEF Started, ready
  <2>4. \A t \in Tasks : t \notin skipped \cup cancelled \cup Elements(line) =>
                         phase'[t] = ph[t] /\ result'[t] = res[t]
    BY <1>4, <1>8
  <2>5. QED
    BY <1>5, <1>6, <1>8, <2>1, <2>2, <2>3, <2>4 DEF Moved
<1>18. n <= limit => permits' <= limit
  BY <1>1, <1>3, <1>4 DEF k, Least, Spare
<1>19. ASSUME NEW t \in Tasks, ph[t] # "granted", phase'[t] = "granted"
       PROVE  permits' <= limit
  <2>1. t \in Front(line, k)
    BY <1>10, <1>19
  <2>2. k # 0
    BY <1>3, <2>1 DEF Front
  <2>3. n < limit
    BY <1>1, <1>3, <2>2 DEF k, Least, Spare
  <2>4. QED
    BY <1>1, <1>18, <2>3
<1>20. QED
  BY <1>3, <1>4, <1>12, <1>13, <1>14, <1>15, <1>16, <1>17, <1>18, <1>19

\* A task that holds a permit gives it back.
LEMMA ReleaseKeeps ==
  ASSUME TypeOK, PermitInv, NEW t \in Tasks,
         phase[t] \in {"granted", "executing"},
         NEW p \in {"joined", "returned"},
         Release(t, p), control' = control
  PROVE  /\ PermitInv'
         /\ phase'[t] = p
         /\ \A u \in Tasks \ {t} : phase'[u] = "executing" <=> phase[u] = "executing"
         /\ \A u \in Tasks \ {t} : Woke(u, phase')
         /\ \A u \in Tasks : phase[u] # "granted" /\ phase'[u] = "granted" =>
                              permits' <= control.current
<1> DEFINE k == Woken(waiters, permits - 1, control.current)
           ph == [phase EXCEPT ![t] = p]
<1>1. /\ permits \in Nat /\ waiters \in Seq(Tasks) /\ NoRepeat(waiters)
      /\ permits = Cardinality(Holding(phase))
      /\ Elements(waiters) = Waiting(phase)
      /\ phase \in [Tasks -> Phases]
      /\ permits <= MaximumConcurrency
  BY HoldingFinite DEF PermitInv, Consistent
<1>2. /\ control.current \in Nat /\ control.current <= MaximumConcurrency
      /\ MaximumConcurrency \in Nat
  BY ConcurrencyAssumption DEF TypeOK
<1>3. ph \in [Tasks -> Phases]
  BY <1>1 DEF Phases
<1>4. Consistent(ph, permits - 1, waiters)
  <2>1. Holding(ph) = Holding(phase) \ {t} /\ t \in Holding(phase)
    BY <1>1 DEF Holding
  <2>2. Cardinality(Holding(phase) \ {t}) = Cardinality(Holding(phase)) - 1
    BY <2>1, HoldingFinite, FS_RemoveElement
  <2>3. Waiting(ph) = Waiting(phase)
    BY <1>1 DEF Waiting
  <2>4. permits - 1 = Cardinality(Holding(ph))
    BY <1>1, <2>1, <2>2
  <2>5. QED
    BY <1>1, <1>3, <2>3, <2>4, Zenon DEF Consistent
<1>5. /\ k \in 0..Len(waiters)
      /\ permits - 1 <= control.current => permits - 1 + k <= control.current
      /\ permits - 1 > control.current => k = 0
      /\ k < Len(waiters) => permits - 1 + k >= control.current
  BY <1>1, <1>2, WokenFacts
<1>6. /\ permits' = permits - 1 + k
      /\ waiters' = Rest(waiters, k)
      /\ phase' = [u \in Tasks |-> IF u = t THEN p
                                   ELSE IF u \in Front(waiters, k) THEN "granted"
                                   ELSE phase[u]]
  BY Zenon DEF Release
<1> HIDE DEF k, ph
<1>7. t \notin Front(waiters, k)
  <2>1. Front(waiters, k) \subseteq Elements(waiters)
    <3>1. DOMAIN waiters = 1..Len(waiters) /\ Len(waiters) \in Nat
      BY <1>1, LenProperties
    <3>2. QED
      BY <1>5, <3>1 DEF Front, Elements
  <2>2. QED
    BY <1>1, <2>1 DEF Waiting
<1>8. /\ phase' \in [Tasks -> Phases]
      /\ \A u \in Tasks : phase'[u] = IF u \in Front(waiters, k) THEN "granted" ELSE ph[u]
  BY <1>1, <1>6, <1>7 DEF ph, Phases
<1>9. Consistent(phase', permits', waiters')
  BY <1>4, <1>5, <1>6, <1>8, WakeKeeps
<1>10. permits' <= MaximumConcurrency
  BY <1>1, <1>2, <1>5, <1>6
<1>11. NoLostWakeup'
  <2>1. ASSUME waiters' # <<>> PROVE permits' >= control.current
    <3>1. k < Len(waiters)
      BY <1>1, <1>5, <1>6, <2>1, RestEmpty
    <3>2. QED
      BY <1>5, <1>6, <3>1
  <2>2. QED
    BY <2>1 DEF NoLostWakeup
<1>12. Front(waiters, k) \subseteq Waiting(phase)
  <2>1. DOMAIN waiters = 1..Len(waiters) /\ Len(waiters) \in Nat
    BY <1>1, LenProperties
  <2>2. QED
    BY <1>1, <1>5, <2>1 DEF Front, Elements
<1>13. \A u \in Tasks \ {t} : phase'[u] = "executing" <=> phase[u] = "executing"
  BY <1>6, <1>12 DEF Waiting
<1>14. ASSUME NEW u \in Tasks \ {t} PROVE Woke(u, phase')
  <2>1. phase'[u] = IF u \in Front(waiters, k) THEN "granted" ELSE phase[u]
    BY <1>6
  <2>2. u \in Front(waiters, k) => phase[u] = "waiting"
    BY <1>12 DEF Waiting
  <2>3. QED
    BY <2>1, <2>2, Zenon DEF Woke
<1>15. ASSUME NEW u \in Tasks, phase[u] # "granted", phase'[u] = "granted"
       PROVE  permits' <= control.current
  <2>1. u \in Front(waiters, k)
    BY <1>6, <1>15
  <2>2. k # 0
    BY <1>5, <2>1 DEF Front
  <2>3. QED
    BY <1>1, <1>2, <1>5, <1>6, <2>2
<1>16. QED
  BY <1>6, <1>9, <1>10, <1>11, <1>13, <1>14, <1>15 DEF PermitInv

Controls == [current : MinimumConcurrency..MaximumConcurrency, pressured : Nat,
             stable : Nat, reductions : Nat, recoveries : Nat]

\* What a result does to the limit: a recovery restores the maximum, and
\* without one the limit does not rise.
LEMMA ObservedFacts ==
  ASSUME TypeOK, NEW t \in Tasks
  PROVE  /\ Observed(t) \in Controls
         /\ Recovered(t) => Observed(t).current = MaximumConcurrency
         /\ ~Recovered(t) => Observed(t).current <= control.current
<1> DEFINE o == Observed(t)
<1>1. /\ control \in Controls
      /\ MinimumConcurrency \in Nat /\ MaximumConcurrency \in Nat
      /\ MinimumConcurrency <= MaximumConcurrency
  BY ConcurrencyAssumption DEF TypeOK, Controls
<1>2. \/ o = control
      \/ o = [control EXCEPT !.current = MinimumConcurrency, !.pressured = 0,
                             !.stable = 0, !.reductions = @ + 1]
      \/ o = [control EXCEPT !.pressured = @ + 1, !.stable = 0]
      \/ o = [control EXCEPT !.pressured = 0, !.stable = 0]
      \/ o = [control EXCEPT !.pressured = 0, !.stable = @ + 1]
      \/ o = [control EXCEPT !.current = MaximumConcurrency, !.pressured = 0,
                             !.stable = 0, !.recoveries = @ + 1]
  BY Zenon DEF Observed, AfterPressure, AfterCalm
<1>3. /\ control.current \in MinimumConcurrency..MaximumConcurrency
      /\ control.pressured + 1 \in Nat /\ control.stable + 1 \in Nat
      /\ control.reductions + 1 \in Nat /\ control.recoveries + 1 \in Nat
      /\ control.recoveries \in Nat
      /\ MinimumConcurrency \in MinimumConcurrency..MaximumConcurrency
      /\ MaximumConcurrency \in MinimumConcurrency..MaximumConcurrency
  BY <1>1 DEF Controls
<1> HIDE DEF o
<1>4. control.current <= control.current /\ MinimumConcurrency <= control.current
  BY <1>1, <1>3
<1>5. /\ o \in Controls
      /\ \/ o.recoveries = control.recoveries /\ o.current <= control.current
         \/ o.recoveries = control.recoveries + 1 /\ o.current = MaximumConcurrency
  <2>1. CASE o = control
    BY <1>1, <1>4, <2>1, Zenon
  <2>2. CASE o = [control EXCEPT !.current = MinimumConcurrency, !.pressured = 0,
                                !.stable = 0, !.reductions = @ + 1]
    <3>1. o \in Controls
      BY <1>1, <1>3, <2>2 DEF Controls
    <3>2. o.recoveries = control.recoveries /\ o.current = MinimumConcurrency
      BY <1>1, <2>2 DEF Controls
    <3>3. QED
      BY <1>4, <3>1, <3>2, Zenon
  <2>3. CASE o = [control EXCEPT !.pressured = @ + 1, !.stable = 0]
    <3>1. o \in Controls
      BY <1>1, <1>3, <2>3 DEF Controls
    <3>2. o.recoveries = control.recoveries /\ o.current = control.current
      BY <1>1, <2>3 DEF Controls
    <3>3. QED
      BY <1>4, <3>1, <3>2, Zenon
  <2>4. CASE o = [control EXCEPT !.pressured = 0, !.stable = 0]
    <3>1. o \in Controls
      BY <1>1, <1>3, <2>4 DEF Controls
    <3>2. o.recoveries = control.recoveries /\ o.current = control.current
      BY <1>1, <2>4 DEF Controls
    <3>3. QED
      BY <1>4, <3>1, <3>2, Zenon
  <2>5. CASE o = [control EXCEPT !.pressured = 0, !.stable = @ + 1]
    <3>1. o \in Controls
      BY <1>1, <1>3, <2>5 DEF Controls
    <3>2. o.recoveries = control.recoveries /\ o.current = control.current
      BY <1>1, <2>5 DEF Controls
    <3>3. QED
      BY <1>4, <3>1, <3>2, Zenon
  <2>6. CASE o = [control EXCEPT !.current = MaximumConcurrency, !.pressured = 0,
                                !.stable = 0, !.recoveries = @ + 1]
    <3>1. o \in Controls
      BY <1>1, <1>3, <2>6 DEF Controls
    <3>2. o.recoveries = control.recoveries + 1 /\ o.current = MaximumConcurrency
      BY <1>1, <2>6 DEF Controls
    <3>3. QED
      BY <1>4, <3>1, <3>2, Zenon
  <2>7. QED
    BY <1>2, <2>1, <2>2, <2>3, <2>4, <2>5, <2>6
<1>6. Recovered(t) <=> o.recoveries > control.recoveries
  BY DEF Recovered, o
<1>7. QED
  BY <1>3, <1>5, <1>6 DEF o

\* The loop takes a settled task.
LEMMA TakeKeeps ==
  ASSUME TypeOK, PermitInv, NEW r \in Runs, NEW t \in Tasks, Take(r, t)
  PROVE  /\ PermitInv'
         /\ result' \in [Tasks -> Statuses \cup {"none"}]
         /\ runState' \in [Runs -> RunStates]
         /\ control' = Observed(t)
         /\ \A u \in Tasks : phase'[u] = "executing" <=> phase[u] = "executing"
         /\ \E ph \in [Tasks -> Phases] :
              /\ ph[t] = "completed" /\ (\A u \in Tasks \ {t} : Woke(u, ph))
              /\ Moved(ph, result)
         /\ \A u \in Tasks : phase[u] # "granted" /\ phase'[u] = "granted" =>
                              permits' <= control'.current
<1> DEFINE k == IF Recovered(t) THEN Woken(waiters, permits, control'.current) ELSE 0
           ph == [u \in Tasks |-> IF u = t THEN "completed"
                                 ELSE IF u \in Front(waiters, k) THEN "granted"
                                 ELSE phase[u]]
           ph1 == [phase EXCEPT ![t] = "completed"]
<1>1. /\ permits \in Nat /\ waiters \in Seq(Tasks) /\ NoRepeat(waiters)
      /\ permits = Cardinality(Holding(phase))
      /\ Elements(waiters) = Waiting(phase)
      /\ phase \in [Tasks -> Phases]
      /\ permits <= MaximumConcurrency
      /\ Len(waiters) \in Nat /\ DOMAIN waiters = 1..Len(waiters)
  BY HoldingFinite, LenProperties DEF PermitInv, Consistent
<1>2. /\ control' = Observed(t)
      /\ phase[t] = "returned"
      /\ Iterate(r, ph, result, permits + k, Rest(waiters, k), control'.current)
  BY Zenon DEF Take
<1>3. /\ control'.current \in 0..MaximumConcurrency
      /\ control'.current \in Nat /\ control.current \in Nat
      /\ MaximumConcurrency \in Nat
      /\ Recovered(t) => control'.current = MaximumConcurrency
      /\ ~Recovered(t) => control'.current <= control.current
  BY <1>2, ObservedFacts, ConcurrencyAssumption DEF TypeOK, Controls
<1>4. /\ k \in 0..Len(waiters)
      /\ permits + k <= MaximumConcurrency
      /\ k < Len(waiters) => permits + k >= control'.current
      /\ k # 0 => permits + k <= control'.current
  <2>1. CASE Recovered(t)
    <3>1. k = Woken(waiters, permits, control'.current)
      BY <2>1
    <3>2. /\ k \in 0..Len(waiters)
          /\ permits <= control'.current => permits + k <= control'.current
          /\ k < Len(waiters) => permits + k >= control'.current
      BY <1>1, <1>3, <3>1, WokenFacts
    <3>3. QED
      BY <1>1, <1>3, <2>1, <3>2
  <2>2. CASE ~Recovered(t)
    <3>1. k = 0
      BY <2>2
    <3>2. 0 < Len(waiters) => permits >= control.current
      <4>1. 0 < Len(waiters) => waiters # <<>>
        BY EmptySeq
      <4>2. QED
        BY <4>1 DEF PermitInv, NoLostWakeup
    <3>3. QED
      BY <1>1, <1>3, <2>2, <3>1, <3>2
  <2>3. QED
    BY <2>1, <2>2
<1>5. ph1 \in [Tasks -> Phases] /\ Consistent(ph1, permits, waiters)
  <2>1. ph1 \in [Tasks -> Phases]
    BY <1>1 DEF Phases
  <2>2. Holding(ph1) = Holding(phase) /\ Waiting(ph1) = Waiting(phase)
    BY <1>1, <1>2 DEF Holding, Waiting
  <2>3. QED
    BY <1>1, <2>1, <2>2 DEF Consistent
<1>6. Front(waiters, k) \subseteq Waiting(phase)
  BY <1>1, <1>4 DEF Front, Elements
<1> HIDE DEF k
<1>7. /\ ph \in [Tasks -> Phases]
      /\ \A u \in Tasks : ph[u] = IF u \in Front(waiters, k) THEN "granted" ELSE ph1[u]
  BY <1>1, <1>2, <1>6 DEF Phases, Waiting
<1>8. /\ \A u \in Tasks : ph[u] = "executing" <=> phase[u] = "executing"
      /\ ph[t] = "completed"
  BY <1>1, <1>2, <1>6 DEF Waiting
<1>a. ASSUME NEW u \in Tasks \ {t} PROVE Woke(u, ph)
  <2>1. ph[u] = IF u \in Front(waiters, k) THEN "granted" ELSE phase[u]
    BY <1>1
  <2>2. u \in Front(waiters, k) => phase[u] = "waiting"
    BY <1>6 DEF Waiting
  <2>3. QED
    BY <2>1, <2>2, Zenon DEF Woke
<1> HIDE DEF ph, ph1
<1>9. Consistent(ph, permits + k, Rest(waiters, k))
  BY <1>4, <1>5, <1>7, WakeKeeps
<1>10. Rest(waiters, k) # <<>> => permits + k >= control'.current
  BY <1>1, <1>4, RestEmpty
<1>11. /\ Consistent(phase', permits', waiters')
       /\ permits' <= MaximumConcurrency
       /\ waiters' # <<>> => permits' >= control'.current
       /\ result' \in [Tasks -> Statuses \cup {"none"}]
       /\ runState' \in [Runs -> RunStates]
       /\ \A u \in Tasks : phase'[u] = "executing" <=> ph[u] = "executing"
       /\ Moved(ph, result)
       /\ \A u \in Tasks : ph[u] # "granted" /\ phase'[u] = "granted" =>
                            permits' <= control'.current
       /\ permits + k <= control'.current => permits' <= control'.current
  <2>1. /\ result \in [Tasks -> Statuses \cup {"none"}]
        /\ runState \in [Runs -> RunStates]
    BY DEF TypeOK
  <2>2. QED
    BY <1>2, <1>3, <1>4, <1>9, <1>10, <2>1, IterateKeeps
<1>12. ASSUME NEW u \in Tasks, phase[u] # "granted", phase'[u] = "granted"
       PROVE  permits' <= control'.current
  <2>1. CASE ph[u] = "granted"
    <3>1. u \in Front(waiters, k)
      BY <1>7, <1>12, <2>1 DEF ph1
    <3>2. k # 0
      BY <1>4, <3>1 DEF Front
    <3>3. QED
      BY <1>4, <1>11, <3>2
  <2>2. CASE ph[u] # "granted"
    BY <1>11, <1>12, <2>2
  <2>3. QED
    BY <2>1, <2>2
<1>13. QED
  BY <1>2, <1>7, <1>8, <1>a, <1>11, <1>12 DEF PermitInv, NoLostWakeup

-----------------------------------------------------------------------------
(* The invariant of every step. *)

\* A live execution is the one the cache shows under its key.
CacheInv ==
  \A t \in Tasks :
    /\ execution[t] = "pending" => phase[t] = "executing"
    /\ CacheKey[t] \in Keys /\ (phase[t] = "executing" \/ execution[t] \in Fulfilled)
         => cache[CacheKey[t]] = t

IInv == TypeOK /\ PermitInv /\ CacheInv

\* Steps that leave executions and cache alone.
LEMMA CacheKept ==
  ASSUME CacheInv, UNCHANGED <<execution, cache>>,
         \A u \in Tasks : phase'[u] = "executing" <=> phase[u] = "executing"
  PROVE  CacheInv'
BY DEF CacheInv

\* A step that changes neither permits, queue nor who holds or waits.
LEMMA PermitKept ==
  ASSUME TypeOK, PermitInv, UNCHANGED <<permits, waiters, control>>,
         phase' \in [Tasks -> Phases],
         Holding(phase') = Holding(phase), Waiting(phase') = Waiting(phase)
  PROVE  PermitInv'
BY DEF PermitInv, Consistent, NoLostWakeup

\* The inductive invariant holds before the first batch.
LEMMA InitInv == Init => IInv
<1> SUFFICES ASSUME Init PROVE IInv
  OBVIOUS
<1>1. TypeOK
  <2>1. control \in [current : MinimumConcurrency..MaximumConcurrency, pressured : Nat,
                    stable : Nat, reductions : Nat, recoveries : Nat]
    <3>1. MaximumConcurrency \in MinimumConcurrency..MaximumConcurrency
      BY ConcurrencyAssumption
    <3>2. QED
      BY <3>1 DEF Init
  <2>2. waiters \in Seq(Tasks)
    BY DEF Init
  <2>3. /\ runState \in [Runs -> RunStates]
        /\ phase \in [Tasks -> Phases]
        /\ result \in [Tasks -> Statuses \cup {"none"}]
        /\ execution \in [Tasks -> Outcomes \cup {"none", "pending"}]
        /\ source \in [Tasks -> Tasks \cup {NoTask}]
        /\ cache \in [Keys -> Tasks \cup {NoTask}]
    BY DEF Init, RunStates, Phases, Statuses
  <2>4. permits \in Int /\ aborted \in BOOLEAN
    <3>1. permits = 0 /\ aborted = FALSE
      BY Zenon DEF Init
    <3>2. 0 \in Int
      OBVIOUS
    <3>3. QED
      BY <3>1, <3>2, Zenon
  <2>5. QED
    BY <2>1, <2>2, <2>3, <2>4, Zenon DEF TypeOK
<1>2. PermitInv
  <2>1. Holding(phase) = {} /\ Waiting(phase) = {}
    BY DEF Init, Holding, Waiting
  <2>2. Cardinality({}) = 0
    BY FS_EmptySet
  <2>3. DOMAIN waiters = {}
    <3>1. waiters = <<>>
      BY DEF Init
    <3>2. Len(waiters) = 0
      BY <3>1, EmptySeq, Zenon
    <3>3. DOMAIN waiters = 1..Len(waiters)
      <4>1. waiters \in Seq(Tasks)
        BY <1>1 DEF TypeOK
      <4>2. QED
        BY <4>1, LenProperties
    <3>4. QED
      BY <3>2, <3>3, SMT
  <2>4. NoRepeat(waiters) /\ Elements(waiters) = {}
    BY <2>3 DEF NoRepeat, Elements
  <2>5. /\ phase \in [Tasks -> Phases] /\ waiters \in Seq(Tasks)
    BY <1>1 DEF TypeOK
  <2>6. permits = 0 /\ waiters = <<>> /\ 0 <= MaximumConcurrency
    BY ConcurrencyAssumption DEF Init
  <2>7. QED
    BY <2>1, <2>2, <2>4, <2>5, <2>6 DEF PermitInv, Consistent, NoLostWakeup
<1>3. CacheInv
  BY DEF Init, CacheInv, Fulfilled
<1>4. QED
  BY <1>1, <1>2, <1>3 DEF IInv

\* Every step keeps the inductive invariant, whichever batch takes it.
LEMMA NextInv == IInv /\ [Next]_vars => IInv'
<1> SUFFICES ASSUME IInv, [Next]_vars PROVE IInv'
  OBVIOUS
<1>0. /\ TypeOK /\ PermitInv /\ CacheInv
      /\ control \in Controls /\ MaximumConcurrency \in Nat
  BY ConcurrencyAssumption DEF IInv, TypeOK, Controls
<1>a. ASSUME PermitInv'
      PROVE  /\ phase' \in [Tasks -> Phases] /\ waiters' \in Seq(Tasks)
             /\ permits' \in Int
  BY <1>a, HoldingFinite DEF PermitInv, Consistent
<1>1. ASSUME NEW r \in Runs, Call(r) PROVE IInv'
  <2>1. /\ Iterate(r, phase, result, permits, waiters, control.current)
        /\ UNCHANGED <<execution, source, cache, control, aborted>>
    BY <1>1 DEF Call
  <2>2. /\ Consistent(phase, permits, waiters) /\ permits <= MaximumConcurrency
        /\ waiters # <<>> => permits >= control.current
        /\ control.current \in 0..MaximumConcurrency
        /\ result \in [Tasks -> Statuses \cup {"none"}]
        /\ runState \in [Runs -> RunStates]
    BY <1>0, ConcurrencyAssumption DEF PermitInv, NoLostWakeup, TypeOK, Controls
  <2>3. /\ Consistent(phase', permits', waiters')
        /\ permits' <= MaximumConcurrency
        /\ waiters' # <<>> => permits' >= control.current
        /\ result' \in [Tasks -> Statuses \cup {"none"}]
        /\ runState' \in [Runs -> RunStates]
        /\ \A t \in Tasks : phase'[t] = "executing" <=> phase[t] = "executing"
    BY <2>1, <2>2, IterateKeeps
  <2>4. PermitInv'
    BY <2>1, <2>3 DEF PermitInv, NoLostWakeup
  <2>5. TypeOK'
    BY <1>0, <1>a, <2>1, <2>3, <2>4 DEF TypeOK
  <2>6. CacheInv'
    BY <1>0, <2>1, <2>3, CacheKept
  <2>7. QED
    BY <2>4, <2>5, <2>6 DEF IInv
<1>2. ASSUME NEW t \in Tasks, BeginCancelled(t) PROVE IInv'
  <2>1. /\ PermitInv' /\ phase'[t] = "returned"
        /\ \A u \in Tasks \ {t} : phase'[u] = "executing" <=> phase[u] = "executing"
    BY <1>0, <1>2, ReleaseKeeps DEF BeginCancelled
  <2>2. TypeOK'
    BY <1>0, <1>2, <1>a, <2>1 DEF TypeOK, BeginCancelled, Statuses
  <2>3. CacheInv'
    BY <1>0, <1>2, <2>1, CacheKept DEF BeginCancelled
  <2>4. QED
    BY <2>1, <2>2, <2>3 DEF IInv
<1>3. ASSUME NEW t \in Tasks, BeginJoined(t) PROVE IInv'
  <2>1. /\ PermitInv' /\ phase'[t] = "joined"
        /\ \A u \in Tasks \ {t} : phase'[u] = "executing" <=> phase[u] = "executing"
    BY <1>0, <1>3, ReleaseKeeps DEF BeginJoined
  <2>2. TypeOK'
    BY <1>0, <1>3, <1>a, <2>1 DEF TypeOK, BeginJoined
  <2>3. CacheInv'
    BY <1>0, <1>3, <2>1, CacheKept DEF BeginJoined
  <2>4. QED
    BY <2>1, <2>2, <2>3 DEF IInv
<1>4. ASSUME NEW t \in Tasks, BeginOwner(t) PROVE IInv'
  <2>1. /\ phase[t] = "granted" /\ phase' = [phase EXCEPT ![t] = "executing"]
        /\ CacheKey[t] \in Keys => cache[CacheKey[t]] = NoTask
        /\ cache' = [k \in Keys |-> IF k = CacheKey[t] THEN t ELSE cache[k]]
        /\ execution' = [execution EXCEPT ![t] = "pending"]
        /\ source' = [source EXCEPT ![t] = t]
        /\ UNCHANGED <<runState, result, permits, waiters, control, aborted>>
    BY <1>4 DEF BeginOwner
  <2>2. PermitInv'
    <3>1. phase' \in [Tasks -> Phases]
      BY <1>0, <2>1 DEF TypeOK, Phases
    <3>2. Holding(phase') = Holding(phase) /\ Waiting(phase') = Waiting(phase)
      BY <1>0, <2>1 DEF TypeOK, Holding, Waiting
    <3>3. QED
      BY <1>0, <2>1, <3>1, <3>2, PermitKept
  <2>3. TypeOK'
    BY <1>0, <1>a, <2>1, <2>2 DEF TypeOK
  <2>4. CacheInv'
    <3>1. \A u \in Tasks : u # NoTask
      BY BatchAssumption
    <3>2. ASSUME NEW u \in Tasks
          PROVE  /\ execution'[u] = "pending" => phase'[u] = "executing"
                 /\ CacheKey[u] \in Keys
                    /\ (phase'[u] = "executing" \/ execution'[u] \in Fulfilled)
                      => cache'[CacheKey[u]] = u
      <4>1. CASE u = t
        BY <1>0, <2>1, <4>1 DEF TypeOK
      <4>2. CASE u # t
        BY <1>0, <2>1, <3>1, <4>2 DEF TypeOK, CacheInv
      <4>3. QED
        BY <4>1, <4>2
    <3>3. QED
      BY <3>2, Zenon DEF CacheInv
  <2>5. QED
    BY <2>2, <2>3, <2>4 DEF IInv
<1>5. ASSUME NEW t \in Tasks, NEW o \in Outcomes, Settle(t, o) PROVE IInv'
  <2>1. /\ execution[t] = "pending" /\ execution' = [execution EXCEPT ![t] = o]
        /\ UNCHANGED <<runState, phase, result, source, cache, permits, waiters,
                       control, aborted>>
    BY <1>5 DEF Settle
  <2>2. PermitInv'
    BY <1>0, <2>1 DEF PermitInv, NoLostWakeup
  <2>3. TypeOK'
    BY <1>0, <2>1 DEF TypeOK
  <2>4. CacheInv'
    <3>1. o # "pending"
      BY DEF Outcomes, Fulfilled, Rejected
    <3>2. QED
      BY <1>0, <2>1, <3>1 DEF TypeOK, CacheInv
  <2>5. QED
    BY <2>2, <2>3, <2>4 DEF IInv
<1>6. ASSUME NEW t \in Tasks, ReturnOwner(t) PROVE IInv'
  <2>1. /\ phase[t] = "executing" /\ execution[t] \in Outcomes
        /\ Release(t, "returned")
        /\ result' = [result EXCEPT ![t] = StatusOf(t)]
        /\ cache' = [k \in Keys |-> IF k = CacheKey[t] /\ execution[t] \in Rejected
                                    THEN NoTask ELSE cache[k]]
        /\ UNCHANGED <<runState, execution, source, control, aborted>>
    BY <1>6 DEF ReturnOwner
  <2>2. /\ PermitInv' /\ phase'[t] = "returned"
        /\ \A u \in Tasks \ {t} : phase'[u] = "executing" <=> phase[u] = "executing"
    BY <1>0, <2>1, ReleaseKeeps
  <2>3. StatusOf(t) \in Statuses
    BY DEF StatusOf, Statuses
  <2>4. TypeOK'
    BY <1>0, <1>a, <2>1, <2>2, <2>3 DEF TypeOK
  <2>5. CacheInv'
    <3>1. \A x \in Outcomes : x # "pending" /\ (x \in Rejected => x \notin Fulfilled)
      BY DEF Outcomes, Fulfilled, Rejected
    <3>2. ASSUME NEW u \in Tasks
          PROVE  /\ execution'[u] = "pending" => phase'[u] = "executing"
                 /\ CacheKey[u] \in Keys
                    /\ (phase'[u] = "executing" \/ execution'[u] \in Fulfilled)
                      => cache'[CacheKey[u]] = u
      <4>1. CASE u = t
        BY <1>0, <2>1, <2>2, <3>1, <4>1 DEF CacheInv
      <4>2. CASE u # t
        BY <1>0, <2>1, <2>2, <4>2 DEF CacheInv
      <4>3. QED
        BY <4>1, <4>2
    <3>3. QED
      BY <3>2, Zenon DEF CacheInv
  <2>6. QED
    BY <2>2, <2>4, <2>5 DEF IInv
<1>7. ASSUME NEW t \in Tasks, ReturnJoined(t) PROVE IInv'
  <2>1. /\ phase[t] = "joined" /\ phase' = [phase EXCEPT ![t] = "returned"]
        /\ result' = [result EXCEPT ![t] = StatusOf(t)]
        /\ UNCHANGED <<runState, execution, source, cache, permits, waiters, control,
                       aborted>>
    BY <1>7 DEF ReturnJoined
  <2>2. PermitInv'
    <3>1. phase' \in [Tasks -> Phases]
      BY <1>0, <2>1 DEF TypeOK, Phases
    <3>2. Holding(phase') = Holding(phase) /\ Waiting(phase') = Waiting(phase)
      BY <1>0, <2>1 DEF TypeOK, Holding, Waiting
    <3>3. QED
      BY <1>0, <2>1, <3>1, <3>2, PermitKept
  <2>3. StatusOf(t) \in Statuses
    BY DEF StatusOf, Statuses
  <2>4. TypeOK'
    BY <1>0, <1>a, <2>1, <2>2, <2>3 DEF TypeOK
  <2>5. CacheInv'
    <3>1. \A u \in Tasks : phase'[u] = "executing" <=> phase[u] = "executing"
      BY <1>0, <2>1 DEF TypeOK
    <3>2. QED
      BY <1>0, <2>1, <3>1, CacheKept
  <2>6. QED
    BY <2>2, <2>4, <2>5 DEF IInv
<1>8. ASSUME NEW r \in Runs, NEW t \in Tasks, Take(r, t) PROVE IInv'
  <2>1. UNCHANGED <<execution, source, cache, aborted>>
    BY <1>8 DEF Take
  <2>2. /\ PermitInv'
        /\ result' \in [Tasks -> Statuses \cup {"none"}]
        /\ runState' \in [Runs -> RunStates]
        /\ control' = Observed(t)
        /\ \A u \in Tasks : phase'[u] = "executing" <=> phase[u] = "executing"
    BY <1>0, <1>8, TakeKeeps
  <2>3. control' \in Controls
    BY <1>0, <2>2, ObservedFacts
  <2>4. TypeOK'
    BY <1>0, <1>a, <2>1, <2>2, <2>3 DEF TypeOK, Controls
  <2>5. CacheInv'
    BY <1>0, <2>1, <2>2, CacheKept
  <2>6. QED
    BY <2>2, <2>4, <2>5 DEF IInv
<1>9. CASE Abort
  BY <1>0, <1>9 DEF Abort, IInv, TypeOK, PermitInv, NoLostWakeup, CacheInv
<1>10. CASE UNCHANGED vars
  BY <1>0, <1>10 DEF vars, IInv, TypeOK, PermitInv, NoLostWakeup, CacheInv
<1>11. QED
  BY <1>1, <1>2, <1>3, <1>4, <1>5, <1>6, <1>7, <1>8, <1>9, <1>10 DEF Next, Terminated

\* The inductive invariant holds throughout.
LEMMA Invariance == Spec => []IInv
BY InitInv, NextInv, PTL DEF Spec

\* Every variable keeps its type, in particular the limit stays between the
\* configured minimum and maximum whatever results are observed.
THEOREM TypeCorrect == Spec => []TypeOK
<1>1. IInv => TypeOK
  BY DEF IInv
<1>2. QED
  BY <1>1, Invariance, PTL

\* activeExecutions is exactly the number of tasks that hold a permit, and the
\* configured maximum is never exceeded, across any number of runs.
THEOREM PermitsExact == Spec => []PermitLedger
<1>1. IInv => PermitLedger
  <2>1. Holding(phase) = Holders
    BY DEF Holding, Holders, InPhase
  <2>2. QED
    BY <2>1 DEF IInv, PermitInv, Consistent, PermitLedger
<1>2. QED
  BY <1>1, Invariance, PTL

\* A waiting task always finds every permit of the limit taken.
THEOREM WakeupsKept == Spec => []NoLostWakeup
<1>1. IInv => NoLostWakeup
  BY DEF IInv, PermitInv
<1>2. QED
  BY <1>1, Invariance, PTL

\* permitWaiters lists each waiting task exactly once.
THEOREM QueueCorrect == Spec => []QueueExact
<1>1. IInv => QueueExact
  BY DEF IInv, PermitInv, Consistent, QueueExact, NoRepeat, Waiting, InPhase
<1>2. QED
  BY <1>1, Invariance, PTL

\* A cache key never has two executions that are pending or fulfilled.
THEOREM OneFlightPerKey == Spec => []SingleFlight
<1>1. IInv => SingleFlight
  <2> SUFFICES ASSUME IInv, NEW t \in Tasks, NEW u \in Tasks, Live(t), Live(u),
                      CacheKey[t] = CacheKey[u], CacheKey[t] \in Keys
               PROVE  t = u
    BY DEF SingleFlight
  <2>1. \A x \in {t, u} : cache[CacheKey[x]] = x
    BY DEF IInv, CacheInv, Live
  <2>2. QED
    BY <2>1
<1>2. QED
  BY <1>1, Invariance, PTL

\* One step.
LEMMA GrantStep == IInv /\ [Next]_vars => [GrantInLimit]_vars
<1> SUFFICES ASSUME IInv, Next PROVE GrantInLimit
  BY DEF vars
<1>1. TypeOK /\ PermitInv
  BY DEF IInv
<1> SUFFICES ASSUME NEW u \in Tasks, phase[u] # "granted", phase'[u] = "granted"
             PROVE  permits' <= control'.current
  BY DEF GrantInLimit, Granted
<1>2. ASSUME NEW r \in Runs, Call(r) PROVE permits' <= control'.current
  <2>1. /\ Consistent(phase, permits, waiters) /\ permits <= MaximumConcurrency
        /\ waiters # <<>> => permits >= control.current
        /\ control.current \in 0..MaximumConcurrency
        /\ result \in [Tasks -> Statuses \cup {"none"}]
        /\ runState \in [Runs -> RunStates]
    BY <1>1, ConcurrencyAssumption DEF PermitInv, NoLostWakeup, TypeOK
  <2>2. Iterate(r, phase, result, permits, waiters, control.current) /\ control' = control
    BY <1>2 DEF Call
  <2>3. permits' <= control.current
    BY <2>1, <2>2, IterateKeeps
  <2>4. QED
    BY <2>2, <2>3
<1>3. ASSUME NEW t \in Tasks, BeginCancelled(t) \/ BeginJoined(t) \/ ReturnOwner(t)
      PROVE  permits' <= control'.current
  <2>1. control' = control /\ phase[t] \in {"granted", "executing"}
    BY <1>3 DEF BeginCancelled, BeginJoined, ReturnOwner
  <2>2. Release(t, "returned") \/ Release(t, "joined")
    BY <1>3 DEF BeginCancelled, BeginJoined, ReturnOwner
  <2>3. permits' <= control.current
    BY <1>1, <2>1, <2>2, ReleaseKeeps
  <2>4. QED
    BY <2>1, <2>3
<1>4. ASSUME NEW r \in Runs, NEW t \in Tasks, Take(r, t) PROVE permits' <= control'.current
  BY <1>1, <1>4, TakeKeeps
<1>5. ASSUME NEW t \in Tasks, BeginOwner(t) \/ ReturnJoined(t) PROVE FALSE
  BY <1>1, <1>5 DEF BeginOwner, ReturnJoined, TypeOK
<1>6. ASSUME \/ \E t \in Tasks, o \in Outcomes : Settle(t, o)
             \/ Abort \/ Terminated
      PROVE  FALSE
  BY <1>6 DEF Settle, Abort, Terminated, vars
<1>7. QED
  BY <1>2, <1>3, <1>4, <1>5, <1>6 DEF Next

\* No step grants a permit beyond the limit it leaves in force: neither
\* acquirePermit in the loop, nor a release, nor the wake-up of a recovery.
THEOREM GrantsBounded == Spec => GrantsWithinLimit
<1>1. QED
  BY Invariance, GrantStep, PTL DEF Spec, GrantsWithinLimit

-----------------------------------------------------------------------------
(* What the mapping rests on: a task that is under way has dependencies     *)
(* that succeeded, and one that is over has a result.                       *)

Succeeded(d) == phase[d] = "completed" /\ result[d] = "success"
OrderInv ==
  \A t \in Tasks :
    /\ phase[t] \notin {"remaining", "completed"} => \A d \in Deps[t] : Succeeded(d)
    /\ phase[t] \in {"returned", "completed"} => result[t] \in Statuses

RInv == IInv /\ OrderInv

LEMMA DepsAreTasks == ASSUME NEW t \in Tasks, NEW d \in Deps[t] PROVE d \in Tasks
BY DependencyAssumption

\* A step that moves one task and wakes waiters keeps OrderInv.
LEMMA OneMoved ==
  ASSUME OrderInv, NEW t \in Tasks, phase[t] \notin {"remaining", "completed"},
         phase'[t] \notin {"remaining", "completed"},
         \A u \in Tasks \ {t} : Woke(u, phase') /\ result'[u] = result[u],
         phase'[t] = "returned" => result'[t] \in Statuses
  PROVE  OrderInv'
<1>1. \A d \in Tasks : Succeeded(d) => phase'[d] = "completed" /\ result'[d] = "success"
  BY DEF Succeeded, Woke
<1>2. ASSUME NEW u \in Tasks
      PROVE  /\ phase'[u] \notin {"remaining", "completed"} =>
                  \A d \in Deps[u] : phase'[d] = "completed" /\ result'[d] = "success"
             /\ phase'[u] \in {"returned", "completed"} => result'[u] \in Statuses
  <2>1. CASE u = t
    BY <1>1, <2>1, DepsAreTasks DEF OrderInv
  <2>2. CASE u # t
    BY <1>1, <2>2, DepsAreTasks DEF OrderInv, Woke
  <2>3. QED
    BY <2>1, <2>2
<1>3. QED
  BY <1>2 DEF OrderInv, Succeeded

\* An iteration keeps OrderInv, from phases that agree with it.
LEMMA MovedOrder ==
  ASSUME NEW ph,
         \A u \in Tasks :
           /\ ph[u] \notin {"remaining", "completed"} =>
                \A d \in Deps[u] : ph[d] = "completed" /\ result[d] = "success"
           /\ ph[u] \in {"returned", "completed"} => result[u] \in Statuses,
         Moved(ph, result)
  PROVE  OrderInv'
<1>1. \A d \in Tasks :
        ph[d] = "completed" => phase'[d] = "completed" /\ result'[d] = result[d]
  BY DEF Moved
<1>2. ASSUME NEW u \in Tasks
      PROVE  /\ phase'[u] \notin {"remaining", "completed"} =>
                  \A d \in Deps[u] : phase'[d] = "completed" /\ result'[d] = "success"
             /\ phase'[u] \in {"returned", "completed"} => result'[u] \in Statuses
  <2>1. CASE phase'[u] = ph[u] /\ result'[u] = result[u]
    BY <1>1, <2>1, DepsAreTasks
  <2>2. CASE Started(u, ph, result)
    BY <1>1, <2>2, DepsAreTasks DEF Started
  <2>3. CASE Skipped(u) \/ Cancelled(u)
    BY <2>3 DEF Skipped, Cancelled, Statuses
  <2>4. QED
    BY <2>1, <2>2, <2>3 DEF Moved
<1>3. QED
  BY <1>2 DEF OrderInv, Succeeded

-----------------------------------------------------------------------------
(* Steps of the scheduler as steps of the contract. *)

\* What a task of the contract may do in a turn.
TaskTurn(t) ==
  \/ TaskState'[t] = TaskState[t]
  \/ Contract!Start(t)
  \/ Contract!Finish(t)
  \/ Contract!Skip(t)
  \/ Contract!Cancel(t)

LEMMA TurnOfTasks ==
  ASSUME TypeOK', OrderInv', aborted' = aborted, \A t \in Tasks : TaskTurn(t)
  PROVE  Contract!Next
<1>1. TaskState' \in [Tasks -> Contract!Settled \cup {"pending", "running"}]
  BY DEF TypeOK, Phases, OrderInv, TaskState, Contract!Settled, Statuses
<1>2. Contract!Turn
  BY <1>1 DEF Contract!Turn, TaskTurn
<1>3. QED
  BY <1>2 DEF Contract!Next

\* What TaskState says of one task.
LEMMA StateOf ==
  ASSUME NEW t \in Tasks
  PROVE  /\ phase[t] \in {"remaining", "waiting", "granted"} => TaskState[t] = "pending"
         /\ phase[t] \in {"executing", "joined"} => TaskState[t] = "running"
         /\ phase[t] \in {"returned", "completed"} => TaskState[t] = result[t]
         /\ phase'[t] \in {"remaining", "waiting", "granted"} => TaskState'[t] = "pending"
         /\ phase'[t] \in {"executing", "joined"} => TaskState'[t] = "running"
         /\ phase'[t] \in {"returned", "completed"} => TaskState'[t] = result'[t]
BY DEF TaskState

\* Waking a waiter is not seen.
LEMMA WokeTurn ==
  ASSUME TypeOK, NEW u \in Tasks, Woke(u, phase'), result'[u] = result[u]
  PROVE  TaskTurn(u)
<1>1. phase[u] \in Phases
  BY DEF TypeOK
<1>2. TaskState'[u] = TaskState[u]
  BY <1>1, StateOf DEF Woke, Phases
<1>3. QED
  BY <1>2 DEF TaskTurn

\* An iteration is a turn, after the loop has taken a task and waiters were woken.
LEMMA MovedTurn ==
  ASSUME TypeOK, OrderInv, OrderInv', aborted' = aborted,
         NEW ph \in [Tasks -> Phases], Moved(ph, result), NEW t,
         \A u \in Tasks \ {t} : Woke(u, ph),
         t \in Tasks => phase[t] = "returned" /\ ph[t] = "completed",
         NEW u \in Tasks
  PROVE  TaskTurn(u)
<1>1. phase[u] \in Phases /\ ph[u] \in Phases
  BY DEF TypeOK
<1>2. CASE phase'[u] = ph[u] /\ result'[u] = result[u]
  <2>1. CASE u = t
    <3>1. TaskState'[u] = TaskState[u]
      BY <1>2, <2>1, StateOf
    <3>2. QED
      BY <3>1 DEF TaskTurn
  <2>2. CASE u # t
    <3>1. Woke(u, phase')
      BY <1>2, <2>2 DEF Woke
    <3>2. QED
      BY <1>2, <3>1, WokeTurn
  <2>3. QED
    BY <2>1, <2>2
<1>3. ASSUME ph[u] = "remaining" PROVE phase[u] = "remaining" /\ TaskState[u] = "pending"
  <2>1. phase[u] = "remaining"
    BY <1>3 DEF Woke
  <2>2. QED
    BY <2>1, StateOf
<1>4. CASE ph[u] = "remaining" /\ Started(u, ph, result)
  <2>1. TaskState'[u] = TaskState[u]
    BY <1>3, <1>4, StateOf DEF Started
  <2>2. QED
    BY <2>1 DEF TaskTurn
<1>5. CASE ph[u] = "remaining" /\ Skipped(u)
  <2>1. TaskState[u] = "pending" /\ TaskState'[u] = "skipped"
    BY <1>3, <1>5, StateOf DEF Skipped
  <2>2. PICK d \in Deps[u] : phase'[d] = "completed" /\ result'[d] # "success"
    BY <1>5 DEF Skipped
  <2>3. d \in Tasks
    BY DepsAreTasks
  <2>4. TaskState'[d] \in Contract!Unsuccessful
    <3>1. TaskState'[d] = result'[d]
      BY <2>2, <2>3, StateOf
    <3>2. result'[d] \in Statuses
      BY <2>2, <2>3 DEF OrderInv
    <3>3. QED
      BY <2>2, <3>1, <3>2 DEF Contract!Unsuccessful, Contract!Settled, Statuses
  <2>5. QED
    BY <2>1, <2>4 DEF TaskTurn, Contract!Skip
<1>6. CASE ph[u] = "remaining" /\ Cancelled(u)
  <2>1. TaskState[u] = "pending" /\ TaskState'[u] = "cancelled"
    BY <1>3, <1>6, StateOf DEF Cancelled
  <2>2. QED
    BY <1>6, <2>1 DEF TaskTurn, Contract!Cancel, Cancelled, IsAborted
<1>7. QED
  BY <1>2, <1>4, <1>5, <1>6 DEF Moved

\* One task of a turn starts or finishes while waiters are woken.
LEMMA OneTurn ==
  ASSUME TypeOK, TypeOK', OrderInv', aborted' = aborted, NEW t \in Tasks, TaskTurn(t),
         \A u \in Tasks \ {t} : Woke(u, phase') /\ result'[u] = result[u]
  PROVE  Contract!Next
<1>1. \A u \in Tasks : TaskTurn(u)
  BY WokeTurn
<1>2. QED
  BY <1>1, TurnOfTasks

-----------------------------------------------------------------------------
(* The whole. *)

LEMMA RInit == Init => RInv /\ Contract!Init
<1> SUFFICES ASSUME Init PROVE RInv /\ Contract!Init
  OBVIOUS
<1>1. OrderInv
  BY DEF Init, OrderInv
<1>2. Contract!Init
  BY DEF Init, Contract!Init, TaskState
<1>3. QED
  BY <1>1, <1>2, InitInv DEF RInv

\* A task that goes from its permit to a promise, after its dependencies.
LEMMA BeginTurn ==
  ASSUME OrderInv, NEW t \in Tasks, phase[t] = "granted", ~IsAborted(RunOf[t]),
         phase'[t] \in {"executing", "joined"}
  PROVE  TaskTurn(t)
<1>1. TaskState[t] = "pending" /\ TaskState'[t] = "running"
  BY StateOf
<1>2. ASSUME NEW d \in Deps[t] PROVE TaskState[d] = "success"
  <2>1. Succeeded(d)
    BY DEF OrderInv
  <2>2. QED
    BY <2>1, DepsAreTasks, StateOf DEF Succeeded
<1>3. QED
  BY <1>1, <1>2 DEF TaskTurn, Contract!Start, IsAborted

\* A task that was waiting for an execution has the result of it.
LEMMA ReturnTurn ==
  ASSUME NEW t \in Tasks, phase[t] \in {"executing", "joined"}, phase'[t] = "returned",
         result'[t] = StatusOf(t)
  PROVE  TaskTurn(t) /\ result'[t] \in Statuses
<1>1. TaskState[t] = "running" /\ TaskState'[t] = StatusOf(t)
  BY StateOf
<1>2. QED
  BY <1>1 DEF TaskTurn, Contract!Finish, StatusOf, IsAborted, Statuses

LEMMA RNext == RInv /\ [Next]_vars => RInv' /\ [Contract!Next]_<<TaskState, aborted>>
<1> SUFFICES ASSUME RInv, [Next]_vars
             PROVE  RInv' /\ [Contract!Next]_<<TaskState, aborted>>
  OBVIOUS
<1>1. /\ IInv' /\ TypeOK' /\ TypeOK /\ PermitInv /\ OrderInv
      /\ control.current \in 0..MaximumConcurrency /\ control.current \in Nat
      /\ MaximumConcurrency \in Nat
  <2>1. IInv'
    BY NextInv DEF RInv
  <2>2. TypeOK' /\ TypeOK /\ PermitInv /\ OrderInv
    BY <2>1 DEF RInv, IInv
  <2>3. QED
    BY <2>1, <2>2, ConcurrencyAssumption DEF TypeOK
<1>2. ASSUME NEW t \in Tasks, BeginCancelled(t)
      PROVE  OrderInv' /\ Contract!Next
  <2>1. /\ phase'[t] = "returned" /\ \A u \in Tasks \ {t} : Woke(u, phase')
    BY <1>1, <1>2, ReleaseKeeps DEF BeginCancelled
  <2>2. /\ phase[t] = "granted" /\ IsAborted(RunOf[t]) /\ aborted' = aborted
        /\ result' = [result EXCEPT ![t] = "cancelled"]
    BY <1>2 DEF BeginCancelled
  <2>3. result'[t] = "cancelled" /\ \A u \in Tasks \ {t} : result'[u] = result[u]
    BY <1>1, <2>2 DEF TypeOK
  <2>4. OrderInv'
    BY <1>1, <2>1, <2>2, <2>3, OneMoved DEF Statuses
  <2>5. TaskState[t] = "pending" /\ TaskState'[t] = "cancelled"
    BY <2>1, <2>2, <2>3, StateOf
  <2>6. TaskTurn(t)
    BY <2>2, <2>5 DEF TaskTurn, Contract!Cancel, IsAborted
  <2>7. QED
    BY <1>1, <2>1, <2>2, <2>3, <2>4, <2>6, OneTurn
<1>3. ASSUME NEW t \in Tasks, BeginJoined(t)
      PROVE  OrderInv' /\ Contract!Next
  <2>1. /\ phase'[t] = "joined" /\ \A u \in Tasks \ {t} : Woke(u, phase')
    BY <1>1, <1>3, ReleaseKeeps DEF BeginJoined
  <2>2. /\ phase[t] = "granted" /\ ~IsAborted(RunOf[t]) /\ aborted' = aborted
        /\ result' = result
    BY <1>3 DEF BeginJoined
  <2>3. OrderInv'
    BY <1>1, <2>1, <2>2, OneMoved
  <2>4. TaskTurn(t)
    BY <1>1, <2>1, <2>2, BeginTurn
  <2>5. QED
    BY <1>1, <2>1, <2>2, <2>3, <2>4, OneTurn
<1>4. ASSUME NEW t \in Tasks, BeginOwner(t)
      PROVE  OrderInv' /\ Contract!Next
  <2>1. /\ phase[t] = "granted" /\ ~IsAborted(RunOf[t]) /\ aborted' = aborted
        /\ phase' = [phase EXCEPT ![t] = "executing"] /\ result' = result
    BY <1>4 DEF BeginOwner
  <2>2. /\ phase'[t] = "executing" /\ \A u \in Tasks \ {t} : Woke(u, phase')
    BY <1>1, <2>1 DEF TypeOK, Woke
  <2>3. OrderInv'
    BY <1>1, <2>1, <2>2, OneMoved
  <2>4. TaskTurn(t)
    BY <1>1, <2>1, <2>2, BeginTurn
  <2>5. QED
    BY <1>1, <2>1, <2>2, <2>3, <2>4, OneTurn
<1>5. ASSUME NEW t \in Tasks, ReturnOwner(t) \/ ReturnJoined(t)
      PROVE  OrderInv' /\ Contract!Next
  <2>1. /\ phase[t] \in {"executing", "joined"} /\ aborted' = aborted
        /\ result' = [result EXCEPT ![t] = StatusOf(t)]
    BY <1>5 DEF ReturnOwner, ReturnJoined
  <2>2. /\ phase'[t] = "returned" /\ \A u \in Tasks \ {t} : Woke(u, phase')
    <3>1. CASE ReturnOwner(t)
      BY <1>1, <3>1, ReleaseKeeps DEF ReturnOwner
    <3>2. CASE ReturnJoined(t)
      BY <1>1, <3>2 DEF ReturnJoined, TypeOK, Woke
    <3>3. QED
      BY <1>5, <3>1, <3>2
  <2>3. result'[t] = StatusOf(t) /\ \A u \in Tasks \ {t} : result'[u] = result[u]
    BY <1>1, <2>1 DEF TypeOK
  <2>4. TaskTurn(t) /\ result'[t] \in Statuses
    BY <2>1, <2>2, <2>3, ReturnTurn
  <2>5. OrderInv'
    BY <1>1, <2>1, <2>2, <2>3, <2>4, OneMoved
  <2>6. QED
    BY <1>1, <2>1, <2>2, <2>3, <2>4, <2>5, OneTurn
<1>6. ASSUME NEW r \in Runs, Call(r)
      PROVE  OrderInv' /\ Contract!Next
  <2>1. Iterate(r, phase, result, permits, waiters, control.current) /\ aborted' = aborted
    BY <1>6 DEF Call
  <2>2. Moved(phase, result)
    BY <1>1, <2>1, IterateKeeps DEF PermitInv, NoLostWakeup, TypeOK
  <2>3. OrderInv'
    BY <1>1, <2>2, MovedOrder DEF OrderInv, Succeeded
  <2>4. \A u \in Tasks : TaskTurn(u)
    <3>1. NoTask \notin Tasks
      BY BatchAssumption
    <3>2. \A u \in Tasks \ {NoTask} : Woke(u, phase)
      BY DEF Woke
    <3>3. phase \in [Tasks -> Phases]
      BY <1>1 DEF TypeOK
    <3>4. QED
      BY <1>1, <2>1, <2>2, <2>3, <3>1, <3>2, <3>3, MovedTurn
  <2>5. QED
    BY <1>1, <2>1, <2>3, <2>4, TurnOfTasks
<1>7. ASSUME NEW r \in Runs, NEW t \in Tasks, Take(r, t)
      PROVE  OrderInv' /\ Contract!Next
  <2>1. phase[t] = "returned" /\ aborted' = aborted
    BY <1>7 DEF Take
  <2>2. PICK ph \in [Tasks -> Phases] :
          /\ ph[t] = "completed" /\ (\A u \in Tasks \ {t} : Woke(u, ph))
          /\ Moved(ph, result)
    BY <1>1, <1>7, TakeKeeps
  <2>3. \A d \in Tasks : Succeeded(d) => ph[d] = "completed" /\ result[d] = "success"
    BY <2>1, <2>2 DEF Succeeded, Woke
  <2>4. \A u \in Tasks :
          /\ ph[u] \notin {"remaining", "completed"} =>
               \A d \in Deps[u] : ph[d] = "completed" /\ result[d] = "success"
          /\ ph[u] \in {"returned", "completed"} => result[u] \in Statuses
    <3>1. ASSUME NEW u \in Tasks
          PROVE  /\ ph[u] \notin {"remaining", "completed"} =>
                      \A d \in Deps[u] : Succeeded(d)
                 /\ ph[u] \in {"returned", "completed"} => result[u] \in Statuses
      <4>1. CASE u = t
        BY <1>1, <2>1, <2>2, <4>1 DEF OrderInv
      <4>2. CASE u # t
        BY <1>1, <2>2, <4>2 DEF OrderInv, Woke
      <4>3. QED
        BY <4>1, <4>2
    <3>2. QED
      BY <2>3, <3>1, DepsAreTasks
  <2>5. OrderInv'
    BY <2>2, <2>4, MovedOrder
  <2>6. \A u \in Tasks : TaskTurn(u)
    BY <1>1, <2>1, <2>2, <2>5, MovedTurn
  <2>7. QED
    BY <1>1, <2>1, <2>5, <2>6, TurnOfTasks
<1>8. CASE Abort
  <2>1. aborted' = TRUE /\ phase' = phase /\ result' = result
    BY <1>8 DEF Abort
  <2>2. TaskState' = TaskState
    BY <2>1 DEF TaskState
  <2>3. OrderInv'
    BY <1>1, <2>1 DEF OrderInv, Succeeded
  <2>4. QED
    BY <1>1, <2>1, <2>2, <2>3 DEF RInv, Contract!Next, Contract!Abort
<1>9. CASE UNCHANGED <<phase, result, aborted>>
  <2>1. TaskState' = TaskState
    BY <1>9 DEF TaskState
  <2>2. QED
    BY <1>1, <1>9, <2>1 DEF RInv, OrderInv, Succeeded
<1>10. (\E t \in Tasks, o \in Outcomes : Settle(t, o)) \/ Terminated \/ UNCHANGED vars =>
         UNCHANGED <<phase, result, aborted>>
  BY DEF Settle, Terminated, vars
<1>11. QED
  BY <1>1, <1>2, <1>3, <1>4, <1>5, <1>6, <1>7, <1>8, <1>9, <1>10 DEF Next, RInv

\* run() keeps its contract, whatever permits, queues and shared executions do: a task
\* runs after its dependencies, is settled once, and is skipped or cancelled for cause.
THEOREM Implementation == Spec => ContractSpec
<1>1. RInv /\ [Next]_vars => [Contract!Next]_<<TaskState, aborted>>
  BY RNext
<1>2. QED
  BY <1>1, RInit, RNext, PTL DEF Spec, ContractSpec, Contract!Spec

\* No task of a batch is under way before all of its dependencies have succeeded.
THEOREM DependenciesFirst == Spec => []OrderInv
<1>1. RInv => OrderInv
  BY DEF RInv
<1>2. QED
  BY <1>1, RInit, RNext, PTL DEF Spec

-----------------------------------------------------------------------------
(* What tasks that share one execution agree on. *)

Early == {"remaining", "waiting", "granted"}
Over == {"returned", "completed"}

\* An execution that is shared belongs to the task that started it, and a
\* result says how it ended.
Sourced(t) ==
  LET u == source[t]
  IN u # NoTask =>
       /\ source[u] = u
       /\ phase[u] \in {"executing"} \cup Over
       /\ phase[u] \in Over => result[u] # "none"
       /\ result[t] # "none" =>
            /\ phase[t] \in Over
            /\ phase[u] \in Over
            /\ execution[u] \in Outcomes
            /\ result[t] = "success" <=> execution[u] \in Fulfilled

ShareInv ==
  \A t \in Tasks :
    /\ phase[t] \in Early => source[t] = NoTask /\ result[t] = "none"
    /\ phase[t] = "executing" => source[t] = t
    /\ CacheKey[t] \in Keys /\ cache[CacheKey[t]] # NoTask =>
         source[cache[CacheKey[t]]] = cache[CacheKey[t]]
    /\ Sourced(t)

-----------------------------------------------------------------------------
(* The steps of tasks that share. *)

\* What the loop and a cancelled task do to a task.
Loop(t) ==
  \/ phase'[t] = phase[t] /\ result'[t] = result[t]
  \/ phase[t] \in Early /\ phase'[t] \in Early /\ result'[t] = result[t]
  \/ phase[t] \in Early /\ phase'[t] \in Over
  \/ phase[t] \in Over /\ phase'[t] \in Over /\ result'[t] = result[t]

LEMMA LoopKeeps ==
  ASSUME TypeOK, ShareInv, UNCHANGED <<execution, source, cache>>,
         \A t \in Tasks : Loop(t)
  PROVE  ShareInv'
<1>1. \A t \in Tasks : source[t] # NoTask => source[t] \in Tasks
  BY DEF TypeOK
<1>2. ASSUME NEW t \in Tasks PROVE Sourced(t)'
  <2>1. CASE source[t] = NoTask
    BY <2>1 DEF Sourced
  <2>2. CASE source[t] # NoTask
    <3> DEFINE u == source[t]
    <3>1. /\ u \in Tasks /\ Sourced(t) /\ phase[t] \notin Early /\ phase[u] \notin Early
          /\ Loop(t) /\ Loop(u)
      BY <1>1, <2>2 DEF ShareInv, Sourced, Early, Over
    <3>2. QED
      BY <2>2, <3>1 DEF Sourced, Loop, Early, Over
  <2>3. QED
    BY <2>1, <2>2
<1>3. QED
  BY <1>2 DEF ShareInv, Loop, Early, Over

\* A waiter that is woken.
LEMMA WokeLoop ==
  ASSUME NEW t \in Tasks, Woke(t, phase'), result'[t] = result[t]
  PROVE  Loop(t)
BY DEF Woke, Loop, Early

LEMMA MovedLoop ==
  ASSUME TypeOK, NEW ph, Moved(ph, result), NEW t,
         \A u \in Tasks \ {t} : Woke(u, ph),
         t \in Tasks => phase[t] = "returned" /\ ph[t] = "completed"
  PROVE  \A u \in Tasks : Loop(u)
BY DEF Woke, Loop, Early, Over, Moved, Started, Skipped, Cancelled

-----------------------------------------------------------------------------
(* Steps of executeTask: one task changes, waiters may be woken. *)

LEMMA OneShares ==
  ASSUME TypeOK, ShareInv, NEW t \in Tasks, phase[t] \notin Over,
         \A u \in Tasks \ {t} : /\ Woke(u, phase') /\ result'[u] = result[u]
                                /\ source'[u] = source[u] /\ execution'[u] = execution[u],
         phase'[t] \notin Early, phase'[t] = "executing" => source'[t] = t,
         source[t] = t => /\ source'[t] = t
                          /\ phase'[t] \in {"executing"} \cup Over
                          /\ phase'[t] \in Over => result'[t] # "none",
         \A k \in Keys : \/ cache'[k] = NoTask \/ cache'[k] = cache[k]
                         \/ cache'[k] = t /\ source'[t] = t,
         Sourced(t)'
  PROVE  ShareInv'
<1>1. /\ \A u \in Tasks : source[u] # NoTask => source[u] \in Tasks
      /\ \A k \in Keys : cache[k] # NoTask => cache[k] \in Tasks
  BY DEF TypeOK
<1>2. ASSUME NEW u \in Tasks \ {t} PROVE Sourced(u)'
  <2> DEFINE s == source[u]
  <2>1. CASE s = NoTask
    BY <2>1 DEF Sourced
  <2>2. CASE s = t
    <3>1. Sourced(u) /\ source[t] = t /\ result[u] = "none"
      <4>1. Sourced(u)
        BY DEF ShareInv
      <4>2. QED
        BY <2>2, <4>1, BatchAssumption DEF Sourced
    <3>2. QED
      BY <2>2, <3>1 DEF Sourced
  <2>3. CASE s # NoTask /\ s # t
    <3>1. s \in Tasks \ {t} /\ Sourced(u)
      BY <1>1, <2>3 DEF ShareInv
    <3>2. phase[s] \in {"executing"} \cup Over
      BY <2>3, <3>1 DEF Sourced
    <3>3. /\ phase'[s] = phase[s] /\ result'[s] = result[s] /\ source'[s] = source[s]
          /\ execution'[s] = execution[s]
      BY <3>1, <3>2 DEF Woke, Over
    <3>4. /\ result'[u] = result[u] /\ source'[u] = source[u]
          /\ phase[u] \in Over => phase'[u] \in Over
      BY DEF Woke, Over
    <3>5. QED
      BY <2>3, <3>1, <3>3, <3>4 DEF Sourced
  <2>4. QED
    BY <2>1, <2>2, <2>3
<1>3. ASSUME NEW u \in Tasks, CacheKey[u] \in Keys, cache'[CacheKey[u]] # NoTask
      PROVE  source'[cache'[CacheKey[u]]] = cache'[CacheKey[u]]
  <2> DEFINE c == cache[CacheKey[u]]
  <2>1. CASE cache'[CacheKey[u]] = t /\ source'[t] = t
    BY <2>1
  <2>2. CASE cache'[CacheKey[u]] = c
    <3>1. c \in Tasks /\ source[c] = c
      BY <1>1, <1>3, <2>2 DEF ShareInv
    <3>2. QED
      BY <2>2, <3>1
  <2>3. QED
    BY <1>3, <2>1, <2>2
<1>4. ASSUME NEW u \in Tasks \ {t}
      PROVE  /\ phase'[u] \in Early => source'[u] = NoTask /\ result'[u] = "none"
             /\ phase'[u] = "executing" => source'[u] = u
  BY DEF ShareInv, Woke, Early
<1>5. QED
  BY <1>2, <1>3, <1>4 DEF ShareInv

-----------------------------------------------------------------------------
(* The whole. *)

LEMMA ShareInit == Init => ShareInv
BY DEF Init, ShareInv, Sourced, Early

LEMMA ShareNext == IInv /\ ShareInv /\ [Next]_vars => ShareInv'
<1> SUFFICES ASSUME IInv, ShareInv, [Next]_vars PROVE ShareInv'
  OBVIOUS
<1>1. TypeOK /\ PermitInv
  BY DEF IInv
<1>2. ASSUME NEW r \in Runs, Call(r) PROVE ShareInv'
  <2>1. /\ Consistent(phase, permits, waiters) /\ permits <= MaximumConcurrency
        /\ waiters # <<>> => permits >= control.current
        /\ control.current \in 0..MaximumConcurrency
        /\ result \in [Tasks -> Statuses \cup {"none"}]
        /\ runState \in [Runs -> RunStates]
    BY <1>1, ConcurrencyAssumption DEF PermitInv, NoLostWakeup, TypeOK
  <2>2. /\ Iterate(r, phase, result, permits, waiters, control.current)
        /\ UNCHANGED <<execution, source, cache>>
    BY <1>2 DEF Call
  <2>3. Moved(phase, result)
    BY <2>1, <2>2, IterateKeeps
  <2>4. \A u \in Tasks : Loop(u)
    BY <2>3 DEF Moved, Started, Skipped, Cancelled, Loop, Early, Over
  <2>5. QED
    BY <1>1, <2>2, <2>4, LoopKeeps
<1>3. ASSUME NEW r \in Runs, NEW t \in Tasks, Take(r, t) PROVE ShareInv'
  <2>1. phase[t] = "returned" /\ UNCHANGED <<execution, source, cache>>
    BY <1>3 DEF Take
  <2>2. PICK ph \in [Tasks -> Phases] :
          /\ ph[t] = "completed" /\ (\A u \in Tasks \ {t} : Woke(u, ph))
          /\ Moved(ph, result)
    BY <1>1, <1>3, TakeKeeps
  <2>3. \A u \in Tasks : Loop(u)
    BY <1>1, <2>1, <2>2, MovedLoop
  <2>4. QED
    BY <1>1, <2>1, <2>3, LoopKeeps
<1>4. ASSUME NEW t \in Tasks, BeginCancelled(t) PROVE ShareInv'
  <2>1. /\ phase[t] = "granted" /\ UNCHANGED <<execution, source, cache>>
        /\ result' = [result EXCEPT ![t] = "cancelled"]
    BY <1>4 DEF BeginCancelled
  <2>2. phase'[t] = "returned" /\ \A u \in Tasks \ {t} : Woke(u, phase')
    BY <1>1, <1>4, ReleaseKeeps DEF BeginCancelled
  <2>3. \A u \in Tasks \ {t} : result'[u] = result[u]
    BY <1>1, <2>1 DEF TypeOK
  <2>4. \A u \in Tasks : Loop(u)
    BY <2>1, <2>2, <2>3, WokeLoop DEF Loop, Early, Over
  <2>5. QED
    BY <1>1, <2>1, <2>4, LoopKeeps
<1>5. ASSUME NEW t \in Tasks, BeginJoined(t) PROVE ShareInv'
  <2> DEFINE c == cache[CacheKey[t]]
  <2>1. /\ phase[t] = "granted" /\ CacheKey[t] \in Keys /\ c # NoTask
        /\ source' = [source EXCEPT ![t] = c] /\ UNCHANGED <<result, execution, cache>>
    BY <1>5 DEF BeginJoined
  <2>2. phase'[t] = "joined" /\ \A u \in Tasks \ {t} : Woke(u, phase')
    BY <1>1, <1>5, ReleaseKeeps DEF BeginJoined
  <2>3. /\ source[t] = NoTask /\ result[t] = "none" /\ c \in Tasks /\ source[c] = c
        /\ Sourced(c)
    BY <1>1, <2>1 DEF ShareInv, TypeOK, Early
  <2>4. /\ c # t /\ phase[c] \in {"executing"} \cup Over
        /\ phase[c] \in Over => result[c] # "none"
    BY <2>1, <2>3 DEF Sourced
  <2>5. source'[t] = c /\ \A u \in Tasks \ {t} : source'[u] = source[u]
    BY <1>1, <2>1 DEF TypeOK
  <2> HIDE DEF c
  <2>6. Sourced(t)'
    BY <2>1, <2>2, <2>3, <2>4, <2>5 DEF Sourced, Woke, Over
  <2>7. QED
    BY <1>1, <2>1, <2>2, <2>3, <2>5, <2>6, OneShares, BatchAssumption DEF Early, Over
<1>6. ASSUME NEW t \in Tasks, BeginOwner(t) PROVE ShareInv'
  <2>1. /\ phase[t] = "granted" /\ phase' = [phase EXCEPT ![t] = "executing"]
        /\ source' = [source EXCEPT ![t] = t] /\ result' = result
        /\ execution' = [execution EXCEPT ![t] = "pending"]
        /\ cache' = [k \in Keys |-> IF k = CacheKey[t] THEN t ELSE cache[k]]
    BY <1>6 DEF BeginOwner
  <2>2. /\ phase'[t] = "executing" /\ source'[t] = t /\ result'[t] = "none"
        /\ \A u \in Tasks \ {t} : /\ phase'[u] = phase[u] /\ source'[u] = source[u]
                                  /\ execution'[u] = execution[u]
    BY <1>1, <2>1 DEF TypeOK, ShareInv, Early
  <2>3. Sourced(t)'
    BY <2>2 DEF Sourced, Over
  <2>4. \A k \in Keys : cache'[k] = t \/ cache'[k] = cache[k]
    BY <2>1
  <2>5. QED
    BY <1>1, <2>1, <2>2, <2>3, <2>4, OneShares DEF Early, Over, Woke
<1>7. ASSUME NEW t \in Tasks, NEW o \in Outcomes, Settle(t, o) PROVE ShareInv'
  <2>1. /\ execution[t] = "pending" /\ execution' = [execution EXCEPT ![t] = o]
        /\ UNCHANGED <<phase, result, source, cache>>
    BY <1>7 DEF Settle
  <2>2. \A u \in Tasks : execution[u] \in Outcomes => execution'[u] = execution[u]
    BY <1>1, <2>1 DEF TypeOK, Outcomes, Fulfilled, Rejected
  <2>3. ASSUME NEW u \in Tasks PROVE Sourced(u)'
    <3>1. Sourced(u) /\ (source[u] # NoTask => source[u] \in Tasks)
      BY <1>1 DEF ShareInv, TypeOK
    <3>2. QED
      BY <2>1, <2>2, <3>1 DEF Sourced
  <2>4. QED
    BY <2>1, <2>3 DEF ShareInv
<1>8. ASSUME NEW t \in Tasks, ReturnOwner(t) PROVE ShareInv'
  <2>1. /\ phase[t] = "executing" /\ execution[t] \in Outcomes
        /\ result' = [result EXCEPT ![t] = StatusOf(t)] /\ UNCHANGED <<execution, source>>
        /\ \A k \in Keys : cache'[k] = NoTask \/ cache'[k] = cache[k]
    BY <1>8 DEF ReturnOwner
  <2>2. phase'[t] = "returned" /\ \A u \in Tasks \ {t} : Woke(u, phase')
    BY <1>1, <1>8, ReleaseKeeps DEF ReturnOwner
  <2>3. /\ source[t] = t /\ result'[t] = StatusOf(t)
        /\ \A u \in Tasks \ {t} : result'[u] = result[u]
    BY <1>1, <2>1 DEF TypeOK, ShareInv
  <2>4. result'[t] # "none" /\ (result'[t] = "success" <=> execution[t] \in Fulfilled)
    BY <2>3 DEF StatusOf
  <2>5. Sourced(t)'
    BY <2>1, <2>2, <2>3, <2>4 DEF Sourced, Over
  <2>6. QED
    BY <1>1, <2>1, <2>2, <2>3, <2>4, <2>5, OneShares DEF Early, Over
<1>9. ASSUME NEW t \in Tasks, ReturnJoined(t) PROVE ShareInv'
  <2> DEFINE u == source[t]
  <2>1. /\ phase[t] = "joined" /\ phase[u] \in Over
        /\ phase' = [phase EXCEPT ![t] = "returned"]
        /\ result' = [result EXCEPT ![t] = StatusOf(t)]
        /\ UNCHANGED <<execution, source, cache>>
    BY <1>9 DEF ReturnJoined, Over
  <2>2. u # t
    BY <2>1 DEF Over
  <2>3. /\ phase'[t] = "returned" /\ result'[t] = StatusOf(t)
        /\ \A v \in Tasks \ {t} : phase'[v] = phase[v] /\ result'[v] = result[v]
    BY <1>1, <2>1 DEF TypeOK
  <2>4. result'[t] = "success" <=> execution[u] \in Fulfilled
    BY <2>3 DEF StatusOf
  <2>5. u # NoTask => /\ u \in Tasks /\ source[u] = u /\ result[u] # "none"
                      /\ execution[u] \in Outcomes
    <3>1. ASSUME u # NoTask PROVE u \in Tasks /\ Sourced(t) /\ Sourced(u)
      BY <1>1, <3>1 DEF TypeOK, ShareInv
    <3>2. QED
      BY <2>1, <3>1 DEF Sourced
  <2>6. Sourced(t)'
    BY <2>1, <2>2, <2>3, <2>4, <2>5 DEF Sourced, Over
  <2>7. QED
    BY <1>1, <2>1, <2>2, <2>3, <2>6, OneShares DEF Early, Over, Woke
<1>10. UNCHANGED <<phase, result, execution, source, cache>> => ShareInv'
  BY DEF ShareInv, Sourced
<1>11. Abort \/ Terminated \/ UNCHANGED vars =>
         UNCHANGED <<phase, result, execution, source, cache>>
  BY DEF Abort, Terminated, vars
<1>12. QED
  BY <1>2, <1>3, <1>4, <1>5, <1>6, <1>7, <1>8, <1>9, <1>10, <1>11 DEF Next

\* A task that took its result from an execution of another task, in its own run or in
\* another, succeeds exactly when that task did, whichever of them the signal reached.
THEOREM SharersCorrect == Spec => []SharersAgree
<1>1. IInv /\ ShareInv => SharersAgree
  <2> SUFFICES ASSUME IInv, ShareInv, NEW t \in Tasks, source[t] # NoTask,
                      result[t] # "none"
               PROVE  result[t] = "success" <=> result[source[t]] = "success"
    BY DEF SharersAgree
  <2>1. source[t] \in Tasks /\ Sourced(t) /\ Sourced(source[t])
    BY DEF IInv, TypeOK, ShareInv
  <2>2. QED
    BY <2>1 DEF Sourced
<1>2. Spec => [](IInv /\ ShareInv)
  BY InitInv, NextInv, ShareInit, ShareNext, PTL DEF Spec
<1>3. QED
  BY <1>1, <1>2, PTL
=============================================================================
