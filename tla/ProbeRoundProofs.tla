--------------------------- MODULE ProbeRoundProofs ---------------------------
(***************************************************************************)
(* What the plan of a probe round and its tasks guarantee for every tree of *)
(* paths, every decision that passed validation, every budget, and every   *)
(* size of batch, scheduler and permit pool.                               *)
(***************************************************************************)
EXTENDS ProbeRound, SequenceTheorems, FiniteSetTheorems, FunctionTheorems,
        WellFoundedInduction, TLAPS

-----------------------------------------------------------------------------
(* Sums over sequences, which are recursive functions.                     *)

Less == {p \in Nat \X Nat : p[1] < p[2]}

\* A nonempty set of naturals has a first element.
LEMMA FirstOf ==
  ASSUME NEW T \in SUBSET Nat, T # {}
  PROVE  \E x \in T : \A y \in T : x <= y
<1>1. IsWellFoundedOn(Less, Nat)
  BY NatLessThanWellFounded DEF OpToRel, Less
<1>2. \E x \in T : \A y \in T : ~(<<y, x>> \in Less)
  BY <1>1, WFMin, Zenon
<1>3. PICK x \in T : \A y \in T : <<y, x>> \notin Less
  BY <1>2
<1>4. ASSUME NEW y \in T PROVE x <= y
  <2>1. ~(y < x)
    BY <1>3 DEF Less
  <2>2. QED
    BY <2>1
<1>5. QED
  BY <1>4

\* A property of 0 that is handed on from each number to the next holds of all.
LEMMA Upwards ==
  ASSUME NEW n \in Nat, NEW Good, 0 \in Good,
         \A k \in 1..n : k - 1 \in Good => k \in Good
  PROVE  \A k \in 0..n : k \in Good
<1> DEFINE Bad == {k \in 0..n : k \notin Good}
<1>1. SUFFICES ASSUME Bad # {} PROVE FALSE
  OBVIOUS
<1>2. Bad \in SUBSET Nat
  OBVIOUS
<1>3. PICK k \in Bad : \A j \in Bad : k <= j
  BY <1>1, <1>2, FirstOf
<1>4. k \in 1..n /\ k - 1 \in 0..n
  BY <1>3
<1>5. k - 1 \notin Bad
  BY <1>3, <1>4
<1>6. QED
  BY <1>3, <1>4, <1>5

\* The results of m steps, each from the one before.
Stages(m, X, x0, step) ==
  {g \in [0..m -> X] : g[0] = x0 /\ \A k \in 1..m : g[k] = step[<<k, g[k - 1]>>]}

LEMMA StagesExist ==
  ASSUME NEW m \in Nat, NEW X, NEW x0 \in X, NEW step \in [(1..m) \X X -> X]
  PROVE  Stages(m, X, x0, step) # {}
<1> DEFINE Steps(g, l) == g[0] = x0 /\ \A k \in 1..l : g[k] = step[<<k, g[k - 1]>>]
           Good == {l \in 0..m : \E g \in [0..l -> X] : Steps(g, l)}
<1>1. 0 \in Good
  <2> DEFINE g == [k \in 0..0 |-> x0]
  <2>1. Steps(g, 0) /\ g \in [0..0 -> X]
    OBVIOUS
  <2> HIDE DEF Steps, g
  <2>2. QED
    BY <2>1
<1>2. ASSUME NEW l \in 1..m, l - 1 \in Good PROVE l \in Good
  <2>1. PICK g \in [0..l - 1 -> X] : Steps(g, l - 1)
    BY <1>2
  <2> DEFINE last == step[<<l, g[l - 1]>>]
             h == [k \in 0..l |-> IF k = l THEN last ELSE g[k]]
  <2>2. last \in X
    <3>1. l - 1 \in 0..l - 1
      OBVIOUS
    <3>2. <<l, g[l - 1]>> \in (1..m) \X X
      BY <3>1
    <3>3. QED
      BY <3>2
  <2>3. h \in [0..l -> X] /\ h[l] = last /\ \A k \in 0..l - 1 : h[k] = g[k]
    BY <2>2
  <2> HIDE DEF h
  <2>4. Steps(h, l)
    <3>1. h[0] = x0
      BY <2>1, <2>3
    <3>2. ASSUME NEW k \in 1..l PROVE h[k] = step[<<k, h[k - 1]>>]
      <4>1. h[k - 1] = g[k - 1]
        BY <2>3
      <4>2. CASE k = l
        BY <2>3, <4>1, <4>2
      <4>3. CASE k \in 1..l - 1
        <5>1. g[k] = step[<<k, g[k - 1]>>]
          BY <2>1, <4>3
        <5>2. h[k] = g[k]
          BY <2>3, <4>3
        <5>3. QED
          BY <4>1, <5>1, <5>2
      <4>4. QED
        BY <4>2, <4>3
    <3>3. QED
      BY <3>1, <3>2
  <2> HIDE DEF Steps
  <2>5. QED
    BY SMTT(30), <2>3, <2>4
<1> HIDE DEF Good
<1>3. \A k \in 0..m : k \in Good
  BY <1>1, <1>2, Upwards
<1>4. m \in Good
  BY <1>3
<1>5. QED
  BY <1>4 DEF Good, Stages

\* The partial sums of n numbers.
Sums(n, summand) ==
  {g \in [0..n -> Nat] : g[0] = 0 /\ \A k \in 1..n : g[k] = g[k - 1] + summand[k]}

LEMMA SumsExist ==
  ASSUME NEW n \in Nat, NEW summand \in [1..n -> Nat]
  PROVE  Sums(n, summand) # {}
<1> DEFINE step == [s \in (1..n) \X Nat |-> s[2] + summand[s[1]]]
<1>1. step \in [(1..n) \X Nat -> Nat]
  OBVIOUS
<1>2. \A k \in 1..n : \A x \in Nat : step[<<k, x>>] = x + summand[k]
  OBVIOUS
<1> HIDE DEF step
<1>3. PICK g \in Stages(n, Nat, 0, step) : TRUE
  BY <1>1, StagesExist
<1>4. g \in Sums(n, summand)
  <2>1. g \in [0..n -> Nat] /\ g[0] = 0 /\ \A k \in 1..n : g[k] = step[<<k, g[k - 1]>>]
    BY <1>3 DEF Stages
  <2>2. \A k \in 1..n : g[k - 1] \in Nat
    <3>1. \A k \in 1..n : k - 1 \in 0..n
      OBVIOUS
    <3>2. QED
      BY <2>1, <3>1
  <2>3. QED
    BY <1>2, <2>1, <2>2 DEF Sums
<1>5. QED
  BY <1>4

\* TotalBytes is the last of the partial sums of its requests.
LEMMA TotalIsSum ==
  ASSUME NEW S, NEW s \in Seq(S), \A r \in S : r.bytes \in Nat
  PROVE  \E g \in [0..Len(s) -> Nat] :
           /\ g[0] = 0
           /\ \A k \in 1..Len(s) : g[k] = g[k - 1] + s[k].bytes
           /\ TotalBytes(s) = g[Len(s)]
<1> DEFINE n == Len(s)
           summand == [k \in 1..n |-> s[k].bytes]
           Equation(f) ==
             f = [k \in 0..Len(s) |-> IF k = 0 THEN 0 ELSE f[k - 1] + s[k].bytes]
           f0 == CHOOSE f : Equation(f)
<1>1. n \in Nat /\ \A k \in 1..n : s[k] \in S
  BY LenProperties
<1>2. summand \in [1..n -> Nat]
  BY <1>1
<1>3. PICK g \in [0..n -> Nat] : g[0] = 0 /\ \A k \in 1..n : g[k] = g[k - 1] + s[k].bytes
  <2>1. \A k \in 1..n : summand[k] = s[k].bytes
    OBVIOUS
  <2> HIDE DEF summand, n
  <2>2. Sums(n, summand) # {}
    BY <1>1, <1>2, SumsExist
  <2>3. QED
    BY <2>1, <2>2 DEF Sums
<1>4. Equation(g)
  <2>1. ASSUME NEW k \in 0..n PROVE g[k] = IF k = 0 THEN 0 ELSE g[k - 1] + s[k].bytes
    <3>1. CASE k = 0
      BY <1>3, <3>1
    <3>2. CASE k \in 1..n
      <4> HIDE DEF n
      <4>1. k # 0
        BY <3>2
      <4>2. QED
        BY <1>3, <3>2, <4>1
    <3>3. QED
      BY <1>1, <3>1, <3>2
  <2>2. g = [k \in 0..n |-> g[k]]
    BY <1>3
  <2>3. QED
    BY <2>1, <2>2
<1>5. Equation(f0)
  <2> HIDE DEF Equation
  <2>1. QED
    BY <1>4, Zenon
<1>6. TotalBytes(s) = f0[Len(s)]
  BY Zenon DEF TotalBytes
<1> HIDE DEF f0, summand
<1>7. \A k \in 0..n : f0[k] = IF k = 0 THEN 0 ELSE f0[k - 1] + s[k].bytes
  BY <1>5
<1>8. \A k \in 0..n : f0[k] = g[k]
  <2> DEFINE Good == {k \in 0..n : f0[k] = g[k]}
  <2> HIDE DEF n, Equation
  <2>1. 0 \in Good
    <3>1. 0 \in 0..n
      BY <1>1
    <3>2. f0[0] = 0
      BY <1>7, <3>1
    <3>3. QED
      BY <1>3, <3>1, <3>2
  <2>2. ASSUME NEW k \in 1..n, k - 1 \in Good PROVE k \in Good
    <3>1. k \in 0..n /\ k # 0
      BY <1>1
    <3>2. f0[k] = f0[k - 1] + s[k].bytes
      BY <1>7, <3>1
    <3>3. g[k] = g[k - 1] + s[k].bytes
      BY <1>3
    <3>4. QED
      BY <2>2, <3>1, <3>2, <3>3
  <2> HIDE DEF Good
  <2>3. \A k \in 0..n : k \in Good
    BY <1>1, <2>1, <2>2, Upwards
  <2>4. QED
    BY <2>3 DEF Good
<1>9. QED
  BY <1>1, <1>3, <1>6, <1>8

\* One more request adds its bytes.
LEMMA TotalOfAppended ==
  ASSUME NEW S, NEW s \in Seq(S), \A r \in S : r.bytes \in Nat, NEW x \in S
  PROVE  /\ TotalBytes(s) \in Nat
         /\ TotalBytes(Append(s, x)) = TotalBytes(s) + x.bytes
<1> DEFINE t == Append(s, x)
           n == Len(s)
<1>1. n \in Nat
  BY LenProperties
<1>2. /\ t \in Seq(S) /\ Len(t) = n + 1
      /\ \A k \in 1..n : t[k] = s[k]
      /\ t[n + 1] = x
  BY AppendProperties
<1> HIDE DEF t, n
<1>3. PICK g \in [0..n -> Nat] :
        /\ g[0] = 0
        /\ \A k \in 1..n : g[k] = g[k - 1] + s[k].bytes
        /\ TotalBytes(s) = g[n]
  BY TotalIsSum DEF n
<1>4. PICK h \in [0..n + 1 -> Nat] :
        /\ h[0] = 0
        /\ \A k \in 1..n + 1 : h[k] = h[k - 1] + t[k].bytes
        /\ TotalBytes(t) = h[n + 1]
  BY <1>2, TotalIsSum
<1>5. \A k \in 0..n : g[k] = h[k]
  <2> DEFINE Good == {k \in 0..n : g[k] = h[k]}
  <2>1. 0 \in Good
    BY <1>1, <1>3, <1>4
  <2>2. ASSUME NEW k \in 1..n, k - 1 \in Good PROVE k \in Good
    <3>1. h[k] = h[k - 1] + s[k].bytes
      <4>1. k \in 1..n + 1
        BY <1>1
      <4>2. t[k] = s[k]
        BY <1>2
      <4>3. QED
        BY <1>4, <4>1, <4>2
    <3>2. QED
      BY <1>3, <2>2, <3>1
  <2> HIDE DEF Good
  <2>3. \A k \in 0..n : k \in Good
    BY <1>1, <2>1, <2>2, Upwards
  <2>4. QED
    BY <2>3 DEF Good
<1>6. h[n + 1] = h[n] + x.bytes
  BY <1>1, <1>2, <1>4
<1>7. g[n] = h[n] /\ g[n] \in Nat
  BY <1>1, <1>5
<1>8. QED
  BY <1>3, <1>4, <1>6, <1>7 DEF t

LEMMA TotalOfNone == TotalBytes(<< >>) = 0
<1> DEFINE none == << >>
           S == {}
<1>1. none \in Seq(S) /\ Len(none) = 0
  BY EmptySeq
<1>2. \A r \in S : r.bytes \in Nat
  OBVIOUS
<1> HIDE DEF none, S
<1>3. \E g \in [0..Len(none) -> Nat] :
        /\ g[0] = 0
        /\ \A k \in 1..Len(none) : g[k] = g[k - 1] + none[k].bytes
        /\ TotalBytes(none) = g[Len(none)]
  BY <1>1, <1>2, TotalIsSum
<1>4. TotalBytes(none) = 0
  BY <1>1, <1>3
<1>5. QED
  BY <1>4 DEF none

-----------------------------------------------------------------------------
(* Paths. *)

LEMMA PrefixFacts ==
  ASSUME NEW s, NEW t, s \in Seq(Range(s)), t \in Seq(Range(t))
  PROVE  /\ Len(s) \in Nat /\ Len(t) \in Nat
         /\ IsPrefix(s, t) <=> Len(s) <= Len(t) /\ \A i \in 1..Len(s) : s[i] = t[i]
<1> DEFINE S == Range(s) \cup Range(t)
           n == Len(s)
           a == SubSeq(s, 1, n)
           b == SubSeq(t, 1, n)
<1>1. s \in Seq(S) /\ t \in Seq(S)
  BY SeqMonotonic
<1> HIDE DEF S
<1>2. n \in Nat /\ Len(t) \in Nat
  BY <1>1, LenProperties
<1>3. ASSUME n <= Len(t)
      PROVE  a = b <=> \A i \in 1..n : s[i] = t[i]
  <2>1. \A i \in 1..n : s[i] \in S /\ t[i] \in S
    BY <1>1, <1>2, <1>3, ElementOfSeq
  <2>2. a \in Seq(S) /\ Len(a) = n /\ \A i \in 1..n : a[i] = s[i]
    <3> HIDE DEF a, n
    <3>1. /\ a \in Seq(S)
          /\ Len(a) = IF 1 <= n THEN n - 1 + 1 ELSE 0
          /\ \A i \in 1..n - 1 + 1 : a[i] = s[1 + i - 1]
      BY <1>2, <2>1, SubSeqProperties DEF a
    <3>2. QED
      BY <1>2, <3>1
  <2>3. b \in Seq(S) /\ Len(b) = n /\ \A i \in 1..n : b[i] = t[i]
    <3> HIDE DEF b, n
    <3>1. /\ b \in Seq(S)
          /\ Len(b) = IF 1 <= n THEN n - 1 + 1 ELSE 0
          /\ \A i \in 1..n - 1 + 1 : b[i] = t[1 + i - 1]
      BY <1>2, <2>1, SubSeqProperties DEF b
    <3>2. QED
      BY <1>2, <3>1
  <2> HIDE DEF a, b, n
  <2>4. ASSUME \A i \in 1..n : s[i] = t[i] PROVE a = b
    <3>1. \A i \in 1..Len(a) : a[i] = b[i]
      BY <2>2, <2>3, <2>4
    <3>2. QED
      BY <2>2, <2>3, <3>1, SeqEqual
  <2>5. QED
    BY <2>2, <2>3, <2>4
<1>4. QED
  BY <1>2, <1>3 DEF IsPrefix

LEMMA PrefixTransitive ==
  ASSUME NEW s \in Paths, NEW t \in Paths, NEW u \in Paths,
         IsPrefix(s, t), IsPrefix(t, u)
  PROVE  IsPrefix(s, u) /\ Len(s) <= Len(t) /\ Len(t) <= Len(u)
         /\ {Len(s), Len(t), Len(u)} \subseteq Nat
<1>1. s \in Seq(Range(s)) /\ t \in Seq(Range(t)) /\ u \in Seq(Range(u))
  BY RoundAssumption
<1>2. Len(s) \in Nat /\ Len(t) \in Nat /\ Len(u) \in Nat
  BY <1>1, PrefixFacts
<1>3. /\ Len(s) <= Len(t) /\ \A i \in 1..Len(s) : s[i] = t[i]
      /\ Len(t) <= Len(u) /\ \A i \in 1..Len(t) : t[i] = u[i]
  BY <1>1, PrefixFacts
<1>4. Len(s) <= Len(u) /\ \A i \in 1..Len(s) : s[i] = u[i]
  BY <1>2, <1>3
<1>5. QED
  BY <1>1, <1>2, <1>3, <1>4, PrefixFacts

LEMMA PrefixReflexive ==
  ASSUME NEW s \in Paths
  PROVE  IsPrefix(s, s)
BY RoundAssumption, PrefixFacts

\* Two directories above one path are above one another.
LEMMA PrefixComparable ==
  ASSUME NEW s \in Paths, NEW t \in Paths, NEW u \in Paths,
         IsPrefix(s, u), IsPrefix(t, u)
  PROVE  IsPrefix(s, t) \/ IsPrefix(t, s)
<1>1. s \in Seq(Range(s)) /\ t \in Seq(Range(t)) /\ u \in Seq(Range(u))
  BY RoundAssumption
<1>2. Len(s) \in Nat /\ Len(t) \in Nat /\ Len(u) \in Nat
  BY <1>1, PrefixFacts
<1>3. /\ \A i \in 1..Len(s) : s[i] = u[i]
      /\ \A i \in 1..Len(t) : t[i] = u[i]
  BY <1>1, PrefixFacts
<1>4. CASE Len(s) <= Len(t)
  <2>1. \A i \in 1..Len(s) : s[i] = t[i]
    BY <1>2, <1>3, <1>4
  <2>2. QED
    BY <1>1, <1>4, <2>1, PrefixFacts
<1>5. CASE Len(t) <= Len(s)
  <2>1. \A i \in 1..Len(t) : t[i] = s[i]
    BY <1>2, <1>3, <1>5
  <2>2. QED
    BY <1>1, <1>5, <2>1, PrefixFacts
<1>6. QED
  BY <1>2, <1>4, <1>5

-----------------------------------------------------------------------------
(* Coverage. *)

Excepted(a, r) ==
  \/ GovernorKey(r) = GovernorKey(a) /\ a.depth < r.depth
  \/ r.kind = "log" /\ a.object # r.object
  \/ Cut(a)
  \/ Barred(a.object, r)

\* An ancestor that goes deep enough has all that its descendant has in range.
LEMMA DeepEnough ==
  ASSUME NEW s \in Paths, NEW t \in Paths, NEW d \in Nat, NEW e \in Nat, NEW least \in {0, 1},
         IsPrefix(s, t), d >= Len(t) - Len(s) + e
  PROVE  Within(t, least, e) \subseteq Within(s, least, d)
<1> SUFFICES ASSUME NEW q \in Paths, IsPrefix(t, q), Len(q) - Len(t) \in least..e
             PROVE  IsPrefix(s, q) /\ Len(q) - Len(s) \in least..d
  BY DEF Within
<1>1. /\ IsPrefix(s, q) /\ Len(s) <= Len(t) /\ Len(t) <= Len(q)
      /\ {Len(s), Len(t), Len(q)} \subseteq Nat
  BY PrefixTransitive
<1> DEFINE x == Len(s)
           y == Len(t)
           z == Len(q)
<1>2. /\ x \in Nat /\ y \in Nat /\ z \in Nat /\ x <= y /\ y <= z
      /\ z - y >= least /\ z - y <= e /\ d >= y - x + e
  BY <1>1
<1> HIDE DEF x, y, z
<1>3. z - x \in least..d
  BY <1>2
<1>4. QED
  BY <1>1, <1>3 DEF x, z

\* Its walk gets there, too, unless it is stopped before it comes to the
\* descendant.
LEMMA WalkedFromAbove ==
  ASSUME NEW s \in Paths, NEW r, r.object \in Paths, NEW d \in Nat, NEW e \in Nat,
         NEW least \in {0, 1},
         IsPrefix(s, r.object), d >= Len(r.object) - Len(s) + e, ~Barred(s, r)
  PROVE  Walked(r.object, least, e) \subseteq Walked(s, least, d)
<1> DEFINE t == r.object
<1>1. SUFFICES ASSUME NEW q \in Walked(t, least, e), NEW m \in Paths,
                      IsPrefix(s, m), IsPrefix(m, q)
               PROVE  (m \in Mounts => m = s \/ m = q) /\ (m \in Links => m = q)
  BY DeepEnough DEF Walked
<1>2. /\ q \in Paths /\ t \in Paths /\ IsPrefix(t, q)
      /\ \A n \in Paths :
           IsPrefix(t, n) /\ IsPrefix(n, q) =>
             (n \in Mounts => n = t \/ n = q) /\ (n \in Links => n = q)
  BY DEF Walked, Within
<1>3. IsPrefix(m, t) \/ IsPrefix(t, m)
  BY <1>1, <1>2, PrefixComparable
<1>4. CASE IsPrefix(m, t)
  <2>1. (m \in Mounts => m = s) /\ (m \in Links => m = t)
    BY <1>1, <1>4 DEF Barred
  <2>2. t \in Links => t = q
    BY <1>2, PrefixReflexive
  <2>3. QED
    BY <2>1, <2>2
<1>5. CASE IsPrefix(t, m)
  <2>1. (m \in Mounts => m = t \/ m = q) /\ (m \in Links => m = q)
    BY <1>1, <1>2, <1>5
  <2>2. t \in Mounts => t = s
    <3>1. IsPrefix(t, t)
      BY <1>2, PrefixReflexive
    <3>2. QED
      BY <1>2, <3>1 DEF Barred
  <2>3. QED
    BY <2>1, <2>2
<1>6. QED
  BY <1>3, <1>4, <1>5

\* The same of scans: a directory is pruned in both, or on the way.
LEMMA ScannedFromAbove ==
  ASSUME NEW s \in Paths, NEW r, r.object \in Paths, NEW d \in Nat, NEW e \in Nat,
         IsPrefix(s, r.object), d >= Len(r.object) - Len(s) + e, ~Barred(s, r),
         r.kind # "search"
  PROVE  Scanned(r.object, e) \subseteq Scanned(s, d)
<1> DEFINE t == r.object
<1>1. Walked(t, 0, e) \subseteq Walked(s, 0, d)
  BY WalkedFromAbove
<1>2. SUFFICES ASSUME NEW q \in Scanned(t, e), NEW m \in Pruned,
                      IsPrefix(s, m), IsPrefix(m, q)
               PROVE  FALSE
  BY <1>1 DEF Scanned
<1>3. q \in Paths /\ IsPrefix(t, q) /\ m \in Paths
  BY RoundAssumption DEF Scanned, Walked, Within
<1>4. ~IsPrefix(t, m)
  BY <1>2 DEF Scanned
<1>5. IsPrefix(m, t)
  BY <1>2, <1>3, <1>4, PrefixComparable
<1>6. m # t
  BY <1>4, <1>5
<1>7. QED
  BY <1>2, <1>3, <1>5, <1>6 DEF Barred

LEMMA FoundKept ==
  ASSUME NEW a, WellFormed(a), NEW r, WellFormed(r), Covers(a, r), ~Excepted(a, r)
  PROVE  Found(r) \subseteq Found(a)
<1>1. a.depth \in Nat /\ r.depth \in Nat /\ a.kind \in Kinds /\ r.kind \in Kinds
  BY DEF WellFormed
<1>2. a.kind = r.kind
  BY DEF Covers, GovernorKey
<1>3. CASE GovernorKey(a) = GovernorKey(r)
  <2>1. a.object = r.object /\ (r.kind = "search" => a.depth = r.depth)
    BY <1>2, <1>3 DEF GovernorKey
  <2>2. CASE r.kind = "listing"
    <3>1. r.depth <= a.depth
      BY <1>1, <1>3 DEF Excepted
    <3>2. 0..r.depth \subseteq 0..a.depth
      BY <1>1, <3>1
    <3>3. Scanned(r.object, r.depth) \subseteq Scanned(r.object, a.depth)
      BY <3>2 DEF Scanned, Walked, Within
    <3>4. QED
      BY <1>2, <2>1, <2>2, <3>3 DEF Found
  <2>3. CASE r.kind = "search"
    BY <1>2, <2>1, <2>3 DEF Found
  <2>4. CASE r.kind = "log"
    BY <1>2, <2>1, <2>4 DEF Found
  <2>5. CASE r.kind \in {"stat", "process"}
    BY <1>2, <2>1, <2>5 DEF Found
  <2>6. QED
    BY <1>1, <2>2, <2>3, <2>4, <2>5 DEF Kinds
<1>4. CASE /\ IsPrefix(a.object, r.object) /\ HasDepth(r)
           /\ a.depth >= Len(r.object) - Len(a.object) + r.depth
  <2>1. a.object \in Paths /\ r.object \in Paths
    BY <1>2, <1>4 DEF WellFormed, HasDepth, OnDisk
  <2>2. ~Barred(a.object, r)
    BY DEF Excepted
  <2>3. CASE r.kind = "listing"
    <3>1. Scanned(r.object, r.depth) \subseteq Scanned(a.object, a.depth)
      BY <1>1, <1>4, <2>1, <2>2, <2>3, ScannedFromAbove
    <3>2. QED
      BY <1>2, <2>3, <3>1 DEF Found
  <2>4. CASE r.kind = "search"
    <3>1. Walked(r.object, 1, r.depth) \subseteq Walked(a.object, 1, a.depth)
      BY <1>1, <1>4, <2>1, <2>2, WalkedFromAbove
    <3>2. QED
      BY <1>2, <2>4, <3>1 DEF Found
  <2>5. QED
    BY <1>4, <2>3, <2>4 DEF HasDepth
<1>5. CASE r.kind = "log"
  <2>1. a.object = r.object
    BY <1>5 DEF Excepted
  <2>2. QED
    BY <1>2, <1>5, <2>1 DEF Found
<1>6. QED
  BY <1>3, <1>4, <1>5 DEF Covers

LEMMA CoverageKept ==
  ASSUME NEW a, WellFormed(a), NEW r, WellFormed(r), Covers(a, r), ~Excepted(a, r)
  PROVE  Seen(r) \subseteq Seen(a)
<1>1. Found(r) \subseteq Found(a)
  BY FoundKept
<1>2. Seen(a) = Found(a)
  BY DEF Seen, Excepted
<1>3. Seen(r) \subseteq Found(r)
  BY DEF Seen
<1>4. QED
  BY <1>1, <1>2, <1>3

-----------------------------------------------------------------------------
(* The inductive invariant: what each entry of the audit says of the plan.  *)

Statuses == {"accepted", "deduplicated", "rejected"}
Entries(R) == [request : R, status : Statuses, canonical : R]
Plans(R) == [requests : Seq(R), bytes : Nat, audit : Seq(Entries(R))]

Justified(a, p) ==
  /\ a.status = "deduplicated" => Covers(a.canonical, a.request)
  /\ a.status = "rejected" =>
       \/ Len(p.requests) = MaxRequests
       \/ p.bytes + a.request.bytes > MaxTotalBytes

Sound(p, R) ==
  /\ p \in Plans(R)
  /\ Len(p.requests) <= MaxRequests
  /\ p.bytes = TotalBytes(p.requests)
  /\ \A i \in DOMAIN p.audit : Justified(p.audit[i], p)

PlanInv ==
  /\ decision \in Decisions
  /\ left \subseteq DOMAIN decision
  /\ Sound(plan, Range(decision))

LEMMA DecisionFacts ==
  ASSUME decision \in Decisions
  PROVE  /\ \A r \in Range(decision) : WellFormed(r) /\ r.bytes \in Nat
         /\ \A i \in DOMAIN decision : decision[i] \in Range(decision)
BY RequestAssumption DEF WellFormed, Range

\* An entry more, and the plan it is about.
LEMMA EntryAdded ==
  ASSUME NEW R, NEW p, Sound(p, R), NEW a \in Entries(R),
         NEW q \in Plans(R), q.audit = Append(p.audit, a),
         Len(q.requests) <= MaxRequests, q.bytes = TotalBytes(q.requests),
         Len(p.requests) <= Len(q.requests), p.bytes <= q.bytes,
         \A r \in R : r.bytes \in Nat,
         Justified(a, q)
  PROVE  Sound(q, R)
<1>1. /\ p.audit \in Seq(Entries(R)) /\ Len(p.audit) \in Nat
      /\ DOMAIN p.audit = 1..Len(p.audit)
      /\ p.requests \in Seq(R) /\ q.requests \in Seq(R)
      /\ p.bytes \in Nat /\ q.bytes \in Nat
      /\ Len(p.requests) \in Nat /\ Len(q.requests) \in Nat
  BY LenProperties DEF Sound, Plans
<1>2. /\ q.audit \in Seq(Entries(R)) /\ Len(q.audit) = Len(p.audit) + 1
      /\ \A i \in 1..Len(p.audit) : q.audit[i] = p.audit[i]
      /\ q.audit[Len(p.audit) + 1] = a
  BY <1>1, AppendProperties
<1>3. DOMAIN q.audit = 1..Len(p.audit) + 1
  BY <1>2, LenProperties
<1>4. ASSUME NEW i \in DOMAIN q.audit PROVE Justified(q.audit[i], q)
  <2>1. CASE i = Len(p.audit) + 1
    BY <1>2, <2>1
  <2>2. CASE i \in 1..Len(p.audit)
    <3> DEFINE e == p.audit[i]
    <3>1. Justified(e, p) /\ q.audit[i] = e /\ e.request.bytes \in Nat
      <4>1. e \in Entries(R)
        BY <1>1, <2>2, ElementOfSeq
      <4>2. e.request \in R
        BY <4>1 DEF Entries
      <4>3. Justified(e, p)
        BY <1>1, <2>2 DEF Sound
      <4>4. QED
        BY <1>2, <2>2, <4>2, <4>3
    <3> HIDE DEF e
    <3>2. MaxRequests \in Nat /\ MaxTotalBytes \in Nat
      BY RoundAssumption
    <3>3. Justified(e, q)
      <4>1. Len(p.requests) = MaxRequests => Len(q.requests) = MaxRequests
        BY <1>1, <3>2
      <4>2. p.bytes + e.request.bytes > MaxTotalBytes =>
              q.bytes + e.request.bytes > MaxTotalBytes
        BY <1>1, <3>1, <3>2
      <4>3. QED
        BY <3>1, <4>1, <4>2 DEF Justified
    <3>4. QED
      BY <3>1, <3>3
  <2>3. QED
    BY <1>1, <1>3, <2>1, <2>2
<1>5. QED
  BY <1>4 DEF Sound

\* A turn of the loop keeps the plan sound.
LEMMA TurnSound ==
  ASSUME NEW R, NEW p, Sound(p, R), NEW r \in R, \A x \in R : x.bytes \in Nat
  PROVE  Sound(Considered(p, r), R)
<1>1. /\ p \in Plans(R) /\ p.requests \in Seq(R) /\ p.bytes \in Nat
      /\ p.audit \in Seq(Entries(R)) /\ Len(p.requests) \in Nat
      /\ Len(p.requests) <= MaxRequests /\ p.bytes = TotalBytes(p.requests)
  BY LenProperties DEF Sound, Plans
<1>2. MaxRequests \in Nat /\ MaxTotalBytes \in Nat /\ r.bytes \in Nat
  BY RoundAssumption
<1>3. ASSUME NEW status \in Statuses, NEW c \in R
      PROVE  LET a == [request |-> r, status |-> status, canonical |-> c]
                 q == Audited(p, r, status, c)
             IN  /\ a \in Entries(R)
                 /\ q = [requests |-> p.requests, bytes |-> p.bytes,
                         audit |-> Append(p.audit, a)]
                 /\ q \in Plans(R)
  <2> DEFINE a == [request |-> r, status |-> status, canonical |-> c]
             q == Audited(p, r, status, c)
  <2>1. a \in Entries(R)
    BY DEF Entries
  <2> HIDE DEF a
  <2>2. Append(p.audit, a) \in Seq(Entries(R))
    BY <1>1, <2>1, AppendProperties
  <2>3. q = [p EXCEPT !.audit = Append(p.audit, a)]
    BY DEF Audited, a
  <2>4. p = [requests |-> p.requests, bytes |-> p.bytes, audit |-> p.audit]
    BY <1>1 DEF Plans
  <2> HIDE DEF q
  <2>5. q = [requests |-> p.requests, bytes |-> p.bytes, audit |-> Append(p.audit, a)]
    BY <2>3, <2>4
  <2>6. q \in Plans(R)
    BY <1>1, <2>2, <2>5 DEF Plans
  <2>7. QED
    BY <2>1, <2>5, <2>6 DEF a, q
<1>4. CASE Coverers(p, r) # {}
  <2> DEFINE c == Canonical(p, r)
             a == [request |-> r, status |-> "deduplicated", canonical |-> c]
             q == Audited(p, r, "deduplicated", c)
  <2>1. c \in R /\ Covers(c, r)
    <3> DEFINE C == Coverers(p, r)
               i == CHOOSE x \in C : \A j \in C : x <= j
    <3>1. DOMAIN p.requests = 1..Len(p.requests)
      BY <1>1, LenProperties
    <3>2. C \in SUBSET Nat
      BY <1>1, <3>1 DEF Coverers
    <3>3. \E x \in C : \A j \in C : x <= j
      <4> HIDE DEF C
      <4>1. C # {}
        BY <1>4 DEF C
      <4>2. QED
        BY <3>2, <4>1, FirstOf
    <3>4. i \in C
      <4> HIDE DEF C
      <4>1. QED
        BY <3>3, Zenon
    <3>5. c = p.requests[i]
      BY DEF Canonical
    <3> HIDE DEF i, c
    <3>6. i \in 1..Len(p.requests) /\ Covers(p.requests[i], r)
      BY <3>1, <3>4 DEF Coverers
    <3>7. p.requests[i] \in R
      BY <1>1, <3>6, ElementOfSeq
    <3>8. QED
      BY <3>5, <3>6, <3>7
  <2>2. Considered(p, r) = q
    BY <1>4 DEF Considered
  <2> HIDE DEF c
  <2>3. a \in Entries(R) /\ q \in Plans(R)
        /\ q = [requests |-> p.requests, bytes |-> p.bytes, audit |-> Append(p.audit, a)]
    BY <1>3, <2>1 DEF Statuses
  <2>4. Justified(a, q)
    BY <2>1 DEF Justified
  <2> HIDE DEF a, q
  <2>5. Sound(q, R)
    <3>1. q.requests = p.requests /\ q.bytes = p.bytes /\ q.audit = Append(p.audit, a)
      BY <2>3
    <3>2. QED
      BY <1>1, <2>3, <2>4, <3>1, EntryAdded
  <2>6. QED
    BY <2>2, <2>5
<1>5. CASE Coverers(p, r) = {} /\ OverBudget(p, r)
  <2> DEFINE a == [request |-> r, status |-> "rejected", canonical |-> r]
             q == Audited(p, r, "rejected", r)
  <2>1. Considered(p, r) = q
    BY <1>5 DEF Considered
  <2>2. a \in Entries(R) /\ q \in Plans(R)
        /\ q = [requests |-> p.requests, bytes |-> p.bytes, audit |-> Append(p.audit, a)]
    BY <1>3 DEF Statuses
  <2>3. a.request = r /\ a.status = "rejected"
    OBVIOUS
  <2> HIDE DEF a, q
  <2>4. q.requests = p.requests /\ q.bytes = p.bytes /\ q.audit = Append(p.audit, a)
    BY <2>2
  <2>5. Justified(a, q)
    <3>1. Len(p.requests) = MaxRequests \/ p.bytes + r.bytes > MaxTotalBytes
      BY <1>1, <1>2, <1>5 DEF OverBudget
    <3>2. QED
      BY <2>3, <2>4, <3>1 DEF Justified
  <2>6. Sound(q, R)
    BY <1>1, <2>2, <2>4, <2>5, EntryAdded
  <2>7. QED
    BY <2>1, <2>6
<1>6. CASE Coverers(p, r) = {} /\ ~OverBudget(p, r)
  <2> DEFINE a == [request |-> r, status |-> "accepted", canonical |-> r]
             o == Audited(p, r, "accepted", r)
             q == Accepted(p, r)
  <2>1. Considered(p, r) = q
    BY <1>6 DEF Considered
  <2>2. a \in Entries(R)
        /\ o = [requests |-> p.requests, bytes |-> p.bytes, audit |-> Append(p.audit, a)]
    BY <1>3 DEF Statuses
  <2>3. q = [o EXCEPT !.requests = Append(o.requests, r), !.bytes = o.bytes + r.bytes]
    BY DEF Accepted
  <2>4. a.status = "accepted"
    OBVIOUS
  <2> HIDE DEF a, o, q
  <2>5. q = [requests |-> Append(p.requests, r), bytes |-> p.bytes + r.bytes,
             audit |-> Append(p.audit, a)]
    BY <2>2, <2>3
  <2>6. /\ Append(p.requests, r) \in Seq(R)
        /\ Len(Append(p.requests, r)) = Len(p.requests) + 1
        /\ Append(p.audit, a) \in Seq(Entries(R))
    BY <1>1, <2>2, AppendProperties
  <2>7. p.bytes + r.bytes \in Nat /\ p.bytes <= p.bytes + r.bytes
    BY <1>1, <1>2
  <2>8. q \in Plans(R)
    BY <2>5, <2>6, <2>7 DEF Plans
  <2>9. /\ q.requests = Append(p.requests, r) /\ q.bytes = p.bytes + r.bytes
        /\ q.audit = Append(p.audit, a)
    BY <2>5
  <2>10. TotalBytes(Append(p.requests, r)) = p.bytes + r.bytes
    BY <1>1, TotalOfAppended
  <2>11. Len(p.requests) + 1 <= MaxRequests
    BY <1>1, <1>2, <1>6 DEF OverBudget
  <2>12. Justified(a, q)
    BY <2>4 DEF Justified
  <2>13. Sound(q, R)
    <3>1. Len(p.requests) <= Len(q.requests) /\ Len(q.requests) <= MaxRequests
      BY <1>1, <2>6, <2>9, <2>11
    <3>2. QED
      BY <2>2, <2>7, <2>8, <2>9, <2>10, <2>12, <3>1, EntryAdded
  <2>14. QED
    BY <2>1, <2>13
<1>7. QED
  BY <1>4, <1>5, <1>6

LEMMA PlanInit == Init => PlanInv
<1> SUFFICES ASSUME Init PROVE PlanInv
  OBVIOUS
<1> DEFINE R == Range(decision)
           p == [requests |-> << >>, bytes |-> 0, audit |-> << >>]
<1>1. decision \in Decisions /\ left \subseteq DOMAIN decision /\ plan = p
  BY DEF Init
<1>2. /\ << >> \in Seq(R) /\ << >> \in Seq(Entries(R)) /\ Len(<< >>) = 0
      /\ DOMAIN << >> = {}
  BY EmptySeq
<1>3. MaxRequests \in Nat
  BY RoundAssumption
<1>4. p \in Plans(R)
  BY <1>2 DEF Plans
<1>5. p.requests = << >> /\ p.bytes = 0 /\ p.audit = << >>
  OBVIOUS
<1> HIDE DEF p
<1>6. Sound(p, R)
  BY <1>2, <1>3, <1>4, <1>5, TotalOfNone DEF Sound
<1>7. QED
  BY <1>1, <1>6 DEF PlanInv

LEMMA PlanStep == PlanInv /\ [Next]_vars => PlanInv'
<1> SUFFICES ASSUME PlanInv, [Next]_vars PROVE PlanInv'
  OBVIOUS
<1>1. CASE Compile
  <2>1. CASE UNCHANGED <<plan, left>>
    BY <1>1, <2>1 DEF Compile, PlanInv
  <2>2. ASSUME NEW i \in left, plan' = Considered(plan, decision[i]), left' = left \ {i}
        PROVE  PlanInv'
    <3>1. decision' = decision
      BY <1>1 DEF Compile
    <3>2. decision[i] \in Range(decision) /\ \A x \in Range(decision) : x.bytes \in Nat
      BY DecisionFacts DEF PlanInv
    <3>3. Sound(Considered(plan, decision[i]), Range(decision))
      BY <3>2, TurnSound DEF PlanInv
    <3>4. left' \subseteq DOMAIN decision'
      BY <2>2, <3>1 DEF PlanInv
    <3>5. QED
      BY <2>2, <3>1, <3>3, <3>4 DEF PlanInv
  <2>3. QED
    BY <1>1, <2>1, <2>2 DEF Compile
<1>2. CASE UNCHANGED <<decision, left, plan>>
  BY <1>2 DEF PlanInv
<1>3. QED
  BY <1>1, <1>2 DEF Next, Schedule, Settle, Expire, Terminated, vars

LEMMA PlanInvariant == Spec => []PlanInv
<1>1. Spec => Init /\ [][Next]_vars
  BY DEF Spec
<1>2. QED
  BY <1>1, PlanInit, PlanStep, PTL

\* An entry of the audit, with what the invariant says of it.
LEMMA AuditFacts ==
  ASSUME PlanInv, NEW a \in Range(plan.audit)
  PROVE  /\ a \in Entries(Range(decision)) /\ Justified(a, plan)
         /\ WellFormed(a.request) /\ WellFormed(a.canonical)
<1>1. PICK i \in DOMAIN plan.audit : a = plan.audit[i]
  BY DEF Range
<1>2. plan.audit \in Seq(Entries(Range(decision)))
  BY DEF PlanInv, Sound, Plans
<1>3. a \in Entries(Range(decision))
  <2> DEFINE E == Entries(Range(decision))
  <2> HIDE DEF E
  <2>1. i \in 1..Len(plan.audit)
    BY <1>2, LenProperties
  <2>2. QED
    BY <1>1, <1>2, <2>1, ElementOfSeq
<1>4. a.request \in Range(decision) /\ a.canonical \in Range(decision)
  BY <1>3 DEF Entries
<1>5. QED
  BY <1>1, <1>3, <1>4, DecisionFacts DEF PlanInv, Sound

\* A request is merged away only into one that finds all it would have found, apart
\* from the same path listed less deep, logs below a path, an output that is cut,
\* and another file system, a link or a pruned directory on the way: covers()
\* compares depths in the right direction, and loses nothing but by what it does
\* not compare, for any paths, depths and limits.
THEOREM Coverage == Spec => []MergedCovered
<1>1. PlanInv => MergedCovered
  <2> SUFFICES ASSUME PlanInv, NEW a \in Merged, Lost(a)
               PROVE  Excepted(a.canonical, a.request)
    BY DEF MergedCovered, Excepted
  <2>1. a \in Range(plan.audit) /\ a.status = "deduplicated"
    BY DEF Merged
  <2>2. /\ Covers(a.canonical, a.request)
        /\ WellFormed(a.request) /\ WellFormed(a.canonical)
    BY <2>1, AuditFacts DEF Justified
  <2>3. QED
    BY <2>2, CoverageKept DEF Lost
<1>2. QED
  BY <1>1, PlanInvariant, PTL

\* A request is rejected for the budget only if it does not fit beside those the
\* plan ends up with: what was merged away is not charged, and nothing is taken
\* from the plan again.
THEOREM Budget == Spec => []BudgetHonest
<1>1. PlanInv => BudgetHonest
  <2> SUFFICES ASSUME PlanInv, NEW a \in Range(plan.audit), a.status = "rejected"
               PROVE  \/ Len(plan.requests) = MaxRequests
                      \/ TotalBytes(plan.requests) + a.request.bytes > MaxTotalBytes
    BY DEF BudgetHonest
  <2>1. Justified(a, plan)
    BY AuditFacts
  <2>2. plan.bytes = TotalBytes(plan.requests)
    BY DEF PlanInv, Sound
  <2>3. QED
    BY <2>1, <2>2 DEF Justified
<1>2. QED
  BY <1>1, PlanInvariant, PTL

-----------------------------------------------------------------------------
(* Sequences that InOrder and Filtered make of sets of positions.          *)

LEMMA AsSequence ==
  ASSUME NEW S, NEW n \in Nat, NEW f \in [1..n -> S]
  PROVE  f \in Seq(S) /\ Len(f) = n
OBVIOUS

\* The ways to list the members of a set of numbers upwards, m at a time.
Listings(P, m) ==
  {f \in [1..m -> P] : \A i, j \in 1..m : i < j => f[i] < f[j]}

LEMMA ListingExists ==
  ASSUME NEW n \in Nat
  PROVE  \A P \in SUBSET (1..n) :
           \E m \in 0..n : \E f \in Listings(P, m) : \A p \in P : \E k \in 1..m : f[k] = p
<1> DEFINE Listed(P, m) == \E f \in Listings(P, m) : \A p \in P : \E k \in 1..m : f[k] = p
           Good == {k \in 0..n : \A P \in SUBSET (1..k) : \E m \in 0..k : Listed(P, m)}
<1>1. 0 \in Good
  <2>1. ASSUME NEW P \in SUBSET (1..0) PROVE Listed(P, 0)
    <3> DEFINE f == [i \in 1..0 |-> 0]
    <3>1. P = {} /\ 1..0 = {}
      OBVIOUS
    <3>2. f \in Listings(P, 0)
      BY <3>1 DEF Listings
    <3>3. QED
      BY <3>1, <3>2
  <2> HIDE DEF Listed
  <2>2. QED
    BY <2>1
<1>2. ASSUME NEW k \in 1..n, k - 1 \in Good PROVE k \in Good
  <2> SUFFICES ASSUME NEW P \in SUBSET (1..k) PROVE \E m \in 0..k : Listed(P, m)
    OBVIOUS
  <2> DEFINE Q == P \ {k}
  <2>1. Q \in SUBSET (1..k - 1)
    OBVIOUS
  <2>2. PICK m \in 0..k - 1 : Listed(Q, m)
    BY <1>2, <2>1
  <2>3. PICK f \in Listings(Q, m) : \A p \in Q : \E i \in 1..m : f[i] = p
    BY <2>2
  <2>4. f \in [1..m -> Q] /\ \A i, j \in 1..m : i < j => f[i] < f[j]
    BY <2>3 DEF Listings
  <2>5. CASE k \notin P
    <3>1. Q = P
      BY <2>5
    <3> HIDE DEF Listed, Q
    <3>2. QED
      BY <2>2, <3>1
  <2>6. CASE k \in P
    <3> DEFINE g == [i \in 1..m + 1 |-> IF i = m + 1 THEN k ELSE f[i]]
    <3>1. \A i \in 1..m : g[i] = f[i] /\ f[i] \in Q /\ i \in 1..m + 1
      BY <2>4
    <3>2. g[m + 1] = k
      OBVIOUS
    <3>3. g \in [1..m + 1 -> P]
      BY <2>4, <2>6
    <3> HIDE DEF g
    <3>4. ASSUME NEW i \in 1..m + 1, NEW j \in 1..m + 1, i < j PROVE g[i] < g[j]
      <4>1. i \in 1..m
        BY <3>4
      <4>2. CASE j = m + 1
        <5>1. f[i] \in 1..k - 1
          BY <2>1, <3>1, <4>1
        <5>2. QED
          BY <3>1, <3>2, <4>1, <4>2, <5>1
      <4>3. CASE j \in 1..m
        BY <2>4, <3>1, <3>4, <4>1, <4>3
      <4>4. QED
        BY <4>2, <4>3
    <3>5. g \in Listings(P, m + 1)
      BY <3>3, <3>4 DEF Listings
    <3>6. ASSUME NEW p \in P PROVE \E i \in 1..m + 1 : g[i] = p
      <4>1. CASE p = k
        BY <3>2, <4>1
      <4>2. CASE p \in Q
        BY <2>3, <3>1, <4>2
      <4>3. QED
        BY <4>1, <4>2
    <3>7. Listed(P, m + 1)
      BY <3>5, <3>6
    <3>8. m + 1 \in 0..k
      OBVIOUS
    <3> HIDE DEF Listed
    <3>9. QED
      BY <3>7, <3>8
  <2>7. QED
    BY <2>5, <2>6
<1> HIDE DEF Good
<1>3. n \in Good
  BY <1>1, <1>2, Upwards
<1>4. QED
  BY <1>3 DEF Good

LEMMA ListingApart ==
  ASSUME NEW n \in Nat, NEW P \in SUBSET (1..n), NEW l \in Nat, NEW g \in Listings(P, l)
  PROVE  g \in [1..l -> P] /\ \A i, j \in 1..l : g[i] = g[j] => i = j
<1>1. g \in [1..l -> P] /\ \A i, j \in 1..l : i < j => g[i] < g[j]
  BY DEF Listings
<1>2. ASSUME NEW i \in 1..l, NEW j \in 1..l, g[i] = g[j] PROVE i = j
  <2>1. g[i] \in 1..n /\ g[j] \in 1..n
    BY <1>1
  <2>2. CASE i < j
    BY <1>1, <1>2, <2>1, <2>2
  <2>3. CASE j < i
    BY <1>1, <1>2, <2>1, <2>3
  <2>4. QED
    BY <2>2, <2>3
<1>3. QED
  BY <1>1, <1>2

\* InOrder lists each member of a set of positions once.
LEMMA InOrderFacts ==
  ASSUME NEW n \in Nat, NEW P \in SUBSET (1..n)
  PROVE  /\ IsFiniteSet(P) /\ Cardinality(P) \in Nat
         /\ InOrder(P) \in [1..Cardinality(P) -> P]
         /\ \A i, j \in 1..Cardinality(P) : InOrder(P)[i] = InOrder(P)[j] => i = j
         /\ \A p \in P : \E i \in 1..Cardinality(P) : InOrder(P)[i] = p
<1> DEFINE c == Cardinality(P)
<1>1. IsFiniteSet(P) /\ c \in Nat
  BY FS_BoundedSetOfNaturals, FS_CardinalityType
<1>2. PICK m \in 0..n : \E f \in Listings(P, m) : \A p \in P : \E k \in 1..m : f[k] = p
  BY ListingExists
<1>3. PICK f \in Listings(P, m) : \A p \in P : \E k \in 1..m : f[k] = p
  BY <1>2
<1>4. \A l \in Nat : \A g \in Listings(P, l) :
        g \in [1..l -> P] /\ \A i, j \in 1..l : g[i] = g[j] => i = j
  BY ListingApart
<1>5. c = m
  <2>1. f \in [1..m -> P] /\ \A i, j \in 1..m : f[i] = f[j] => i = j
    BY <1>4
  <2>2. f \in Bijection(1..m, P)
    BY <1>3, <2>1 DEF Bijection, Injection, Surjection, IsInjective
  <2>3. ExistsBijection(1..m, P)
    BY <2>2 DEF ExistsBijection
  <2>4. QED
    BY <2>3, FS_CountingElements
<1> DEFINE h == InOrder(P)
<1>6. h \in Listings(P, c)
  <2>1. h = CHOOSE g \in [1..c -> P] : \A i, j \in 1..c : i < j => g[i] < g[j]
    BY DEF InOrder
  <2>2. \E g \in [1..c -> P] : \A i, j \in 1..c : i < j => g[i] < g[j]
    BY <1>5 DEF Listings
  <2> HIDE DEF h, c
  <2>3. h \in [1..c -> P] /\ \A i, j \in 1..c : i < j => h[i] < h[j]
    BY <2>1, <2>2
  <2>4. QED
    BY <2>3 DEF Listings
<1>7. h \in Injection(1..c, P)
  <2> HIDE DEF h, c
  <2>1. h \in [1..c -> P] /\ \A i, j \in 1..c : h[i] = h[j] => i = j
    BY <1>1, <1>4, <1>6
  <2>2. QED
    BY <2>1 DEF Injection, IsInjective
<1>8. h \in Surjection(1..c, P)
  <2> HIDE DEF h
  <2>1. Cardinality(1..c) = c
    BY <1>1, FS_Interval
  <2>2. QED
    BY <1>1, <1>7, <2>1, FS_Injection
<1>9. QED
  <2> HIDE DEF h, c
  <2>1. \A p \in P : \E i \in 1..c : h[i] = p
    BY <1>8 DEF Surjection
  <2>2. h \in [1..c -> P] /\ \A i, j \in 1..c : h[i] = h[j] => i = j
    BY <1>1, <1>4, <1>6
  <2>3. QED
    BY <1>1, <2>1, <2>2 DEF h, c

\* How the members of t are taken from the positions P of s, each once.
Positions(s, P, t) ==
  {at \in [1..Len(t) -> P] :
     /\ \A k \in 1..Len(t) : t[k] = s[at[k]]
     /\ \A i, j \in 1..Len(t) : at[i] = at[j] => i = j
     /\ \A p \in P : \E k \in 1..Len(t) : at[k] = p}

\* A filter keeps the members at the positions given, each once.
LEMMA FilteredFacts ==
  ASSUME NEW R, NEW s \in Seq(R), NEW P \in SUBSET DOMAIN s
  PROVE  Filtered(s, P) \in Seq(R) /\ Positions(s, P, Filtered(s, P)) # {}
<1> DEFINE at == InOrder(P)
           c == Cardinality(P)
           t == Filtered(s, P)
<1>1. Len(s) \in Nat /\ DOMAIN s = 1..Len(s) /\ \A i \in 1..Len(s) : s[i] \in R
  BY LenProperties, ElementOfSeq
<1>2. /\ c \in Nat /\ at \in [1..c -> P]
      /\ \A i, j \in 1..c : at[i] = at[j] => i = j
      /\ \A p \in P : \E i \in 1..c : at[i] = p
  BY <1>1, InOrderFacts
<1> HIDE DEF at, c
<1>3. t = [k \in 1..c |-> s[at[k]]]
  BY <1>2 DEF Filtered, at
<1> HIDE DEF t
<1>4. \A k \in 1..c : at[k] \in P /\ at[k] \in 1..Len(s)
  BY <1>1, <1>2
<1>5. t \in [1..c -> R] /\ \A k \in 1..c : t[k] = s[at[k]]
  BY <1>1, <1>3, <1>4
<1>6. t \in Seq(R) /\ Len(t) = c
  BY <1>2, <1>5, AsSequence
<1>7. at \in Positions(s, P, t)
  BY <1>2, <1>5, <1>6 DEF Positions
<1>8. QED
  BY <1>6, <1>7 DEF t

-----------------------------------------------------------------------------
(* Chunks. *)

LEMMA Division ==
  ASSUME NEW n \in Nat, NEW B \in Nat \ {0}
  PROVE  n \div B \in Nat /\ (n \div B) * B <= n /\ n < (n \div B) * B + B
OBVIOUS

LEMMA ProductOrder ==
  ASSUME NEW x \in Nat, NEW y \in Nat, NEW B \in Nat \ {0}
  PROVE  /\ x * B \in Nat /\ (x + 1) * B = x * B + B
         /\ x < y => x * B + B <= y * B
OBVIOUS

Chunks(s) == (Len(s) + BatchSize - 1) \div BatchSize
Chunk(s, b) == SubSeq(s, (b - 1) * BatchSize + 1, Min({b * BatchSize, Len(s)}))

LEMMA MinOfTwo ==
  ASSUME NEW x \in Nat, NEW y \in Nat
  PROVE  Min({x, y}) = IF x <= y THEN x ELSE y
<1> DEFINE m == IF x <= y THEN x ELSE y
           T == {x, y}
<1>1. m \in T /\ \A z \in T : m <= z
  OBVIOUS
<1>2. \A v \in T : (\A z \in T : v <= z) => v = m
  OBVIOUS
<1>3. Min(T) = CHOOSE v \in T : \A z \in T : v <= z
  BY DEF Min
<1> HIDE DEF m, T
<1>4. Min(T) = m
  BY <1>1, <1>2, <1>3, Zenon
<1>5. QED
  BY <1>4 DEF m, T

\* A chunk is a part of the sequence that is neither empty nor too long.
LEMMA ChunkFacts ==
  ASSUME NEW R, NEW s \in Seq(R), NEW b \in 1..Chunks(s)
  PROVE  /\ Chunk(s, b) \in Seq(R)
         /\ Len(Chunk(s, b)) \in 1..BatchSize
         /\ Len(Chunk(s, b)) = IF b * BatchSize <= Len(s) THEN BatchSize
                              ELSE Len(s) - (b - 1) * BatchSize
         /\ \A k \in 1..Len(Chunk(s, b)) :
              /\ (b - 1) * BatchSize + k \in 1..Len(s)
              /\ Chunk(s, b)[k] = s[(b - 1) * BatchSize + k]
<1> DEFINE n == Len(s)
           B == BatchSize
           q == Chunks(s)
           x == (b - 1) * B
           last == IF b * B <= n THEN b * B ELSE n
<1>1. n \in Nat /\ \A i \in 1..n : s[i] \in R
  BY LenProperties, ElementOfSeq
<1>2. B \in Nat \ {0}
  BY RoundAssumption
<1>3. q \in Nat /\ q * B <= n + B - 1
  <2>1. n + B - 1 \in Nat /\ q = (n + B - 1) \div B
    BY <1>1, <1>2 DEF Chunks
  <2> HIDE DEF n, B, q
  <2>2. QED
    BY <1>2, <2>1, Division
<1>4. b \in Nat /\ b - 1 \in Nat /\ b - 1 < q
  BY <1>3
<1>5. x \in Nat /\ b * B = x + B /\ x + B <= q * B
  <2> HIDE DEF B, q
  <2>1. x \in Nat /\ ((b - 1) + 1) * B = x + B /\ x + B <= q * B
    BY <1>2, <1>3, <1>4, ProductOrder
  <2>2. (b - 1) + 1 = b
    BY <1>4
  <2>3. QED
    BY <2>1, <2>2
<1>6. Chunk(s, b) = SubSeq(s, x + 1, last)
  <2>1. b * B \in Nat
    BY <1>2, <1>5
  <2>2. Min({b * B, n}) = last
    BY <1>1, <2>1, MinOfTwo
  <2>3. QED
    BY <2>2 DEF Chunk
<1> DEFINE c == Chunk(s, b)
<1> HIDE DEF n, B, q, x, c
<1>7. last \in x + 1..n /\ last - x <= B
  <2>1. x < n
    BY <1>1, <1>2, <1>3, <1>5
  <2>2. QED
    BY <1>1, <1>2, <1>5, <2>1
<1> HIDE DEF last
<1>8. /\ c \in Seq(R)
      /\ Len(c) = last - x
      /\ \A i \in 1..last - x : c[i] = s[x + i]
  <2>1. x + 1 \in Int /\ last \in Int /\ \A i \in x + 1..last : s[i] \in R
    BY <1>1, <1>5, <1>7
  <2> DEFINE y == x + 1
  <2>2. /\ SubSeq(s, y, last) \in Seq(R)
        /\ Len(SubSeq(s, y, last)) = IF y <= last THEN last - y + 1 ELSE 0
        /\ \A i \in 1..last - y + 1 : SubSeq(s, y, last)[i] = s[y + i - 1]
    <3> HIDE DEF y
    <3>1. QED
      BY <2>1, SubSeqProperties DEF y
  <2>3. c = SubSeq(s, y, last)
    BY <1>6 DEF c
  <2>4. last - y + 1 = last - x /\ y <= last /\ \A i \in 1..last - x : y + i - 1 = x + i
    BY <1>5, <1>7
  <2> HIDE DEF y
  <2>5. QED
    BY <2>2, <2>3, <2>4
<1>9. \A k \in 1..Len(c) : x + k \in 1..n
  BY <1>1, <1>5, <1>7, <1>8
<1>10. QED
  <2>1. Len(c) \in 1..B
    BY <1>2, <1>5, <1>7, <1>8
  <2>2. Len(c) = IF b * B <= n THEN B ELSE n - x
    BY <1>2, <1>5, <1>8 DEF last
  <2>3. QED
    BY <1>8, <1>9, <2>1, <2>2 DEF c, x, n, B

\* Each position is in a chunk.
LEMMA ChunkOf ==
  ASSUME NEW R, NEW s \in Seq(R), NEW p \in 1..Len(s)
  PROVE  \E b \in 1..Chunks(s) : \E k \in 1..Len(Chunk(s, b)) : Chunk(s, b)[k] = s[p]
<1> DEFINE n == Len(s)
           B == BatchSize
           q == Chunks(s)
           d == (p - 1) \div B
           b == d + 1
           k == p - d * B
           c == Chunk(s, b)
<1>1. n \in Nat /\ B \in Nat \ {0} /\ p - 1 \in Nat
  BY LenProperties, RoundAssumption
<1>2. d \in Nat /\ d * B <= p - 1 /\ p - 1 < d * B + B
  <2> HIDE DEF B
  <2>1. QED
    BY <1>1, Division
<1>3. q \in Nat /\ n + B - 1 < q * B + B
  <2>1. n + B - 1 \in Nat /\ q = (n + B - 1) \div B
    BY <1>1 DEF Chunks
  <2> HIDE DEF n, B, q
  <2>2. QED
    BY <1>1, <2>1, Division
<1>4. d * B \in Nat /\ k \in 1..B
  <2> HIDE DEF d, B
  <2>1. d * B \in Nat
    BY <1>1, <1>2, ProductOrder
  <2>2. QED
    BY <1>1, <1>2, <2>1
<1>5. b \in 1..q
  <2> HIDE DEF d, B, q, n
  <2>1. d < q
    <3>1. ~(d < q) => q * B <= d * B
      <4>1. q < d => q * B + B <= d * B
        BY <1>1, <1>2, <1>3, ProductOrder
      <4>2. q * B \in Nat
        BY <1>1, <1>3, ProductOrder
      <4>3. QED
        BY <1>1, <1>2, <1>3, <1>4, <4>1, <4>2
    <3>2. q * B \in Nat
      BY <1>1, <1>3, ProductOrder
    <3>3. p <= n
      BY <1>1 DEF n
    <3>4. QED
      BY <1>1, <1>2, <1>3, <1>4, <3>1, <3>2, <3>3
  <2>2. QED
    BY <1>2, <1>3, <2>1
<1>6. /\ Len(c) \in 1..B /\ b - 1 = d
      /\ Len(c) = IF b * B <= n THEN B ELSE n - d * B
      /\ \A i \in 1..Len(c) : c[i] = s[d * B + i]
  <2>1. b - 1 = d
    BY <1>2
  <2> HIDE DEF b, d
  <2>2. QED
    BY <1>5, <2>1, ChunkFacts
<1>7. k <= Len(c)
  <2> HIDE DEF c, b, d, B
  <2>1. QED
    BY <1>1, <1>4, <1>6
<1>8. k \in 1..Len(c) /\ d * B + k = p
  <2> HIDE DEF d, b, B, c
  <2>1. QED
    BY <1>1, <1>4, <1>6, <1>7
<1>9. c[k] = s[p]
  BY <1>6, <1>8
<1>10. QED
  <2> HIDE DEF b, c, k
  <2>1. QED
    BY <1>5, <1>8, <1>9 DEF c

\* A position is in one chunk only.
LEMMA ChunkApart ==
  ASSUME NEW b \in Nat \ {0}, NEW c \in Nat \ {0},
         NEW k \in 1..BatchSize, NEW l \in 1..BatchSize,
         (b - 1) * BatchSize + k = (c - 1) * BatchSize + l
  PROVE  b = c /\ k = l
<1> DEFINE B == BatchSize
           x == b - 1
           y == c - 1
<1>1. B \in Nat \ {0} /\ x \in Nat /\ y \in Nat /\ x * B + k = y * B + l
  BY RoundAssumption
<1> HIDE DEF B, x, y
<1>2. x * B \in Nat /\ y * B \in Nat
  BY <1>1, ProductOrder
<1>3. (x < y => x * B + B <= y * B) /\ (y < x => y * B + B <= x * B)
  BY <1>1, ProductOrder
<1>4. k \in 1..B /\ l \in 1..B
  BY DEF B
<1>5. ~(x < y) /\ ~(y < x)
  BY <1>1, <1>2, <1>3, <1>4
<1>6. x = y
  BY <1>1, <1>5
<1>7. k = l
  BY <1>1, <1>2, <1>4, <1>6
<1>8. QED
  BY <1>6, <1>7 DEF x, y

-----------------------------------------------------------------------------
(* The definitions of the tasks.                                           *)

Defined == Batches \o Singles

StatRequests == Filtered(plan.requests, Stats)
Batched == {plan.requests[i].id : i \in Stats}
Alone == {i \in DOMAIN plan.requests : plan.requests[i].id \notin Batched}
SingleRequests == Filtered(plan.requests, Alone)

Fresh(R) == {t \in [requests : Seq(R), disk : BOOLEAN, phase : {"remaining"},
                    outcome : {"none"}, owner : {0}] : Len(t.requests) # 0}

\* A batch is a chunk of the requests for metadata, a single the rest of the plan.
LEMMA DefinedShape ==
  ASSUME NEW R, plan.requests \in Seq(R)
  PROVE  /\ StatRequests \in Seq(R) /\ SingleRequests \in Seq(R)
         /\ Defined \in Seq(Fresh(R))
         /\ Chunks(StatRequests) \in Nat
         /\ Len(Defined) = Chunks(StatRequests) + Len(SingleRequests)
         /\ \A b \in 1..Chunks(StatRequests) : Defined[b].requests = Chunk(StatRequests, b)
         /\ \A i \in 1..Len(SingleRequests) :
              Defined[Chunks(StatRequests) + i].requests = <<SingleRequests[i]>>
<1> DEFINE s == StatRequests
           t == SingleRequests
           m == Chunks(s)
           l == Len(t)
<1>1. s \in Seq(R) /\ t \in Seq(R)
  BY FilteredFacts DEF StatRequests, SingleRequests, Stats, Alone
<1>2. l \in Nat /\ DOMAIN t = 1..l /\ \A i \in 1..l : t[i] \in R
  BY <1>1, LenProperties, ElementOfSeq
<1>3. m \in Nat
  <2>1. Len(s) + BatchSize - 1 \in Nat /\ BatchSize \in Nat \ {0}
    BY <1>1, LenProperties, RoundAssumption
  <2>2. QED
    BY <2>1, Division DEF Chunks
<1>4. /\ Batches = [b \in 1..m |-> Task(Chunk(s, b), TRUE)]
      /\ Singles = [i \in 1..l |-> Task(<<t[i]>>, OnDisk(t[i]))]
  BY <1>2 DEF Batches, Singles, Chunks, Chunk, StatRequests, SingleRequests, Batched, Alone
<1> HIDE DEF s, t, m, l
<1>5. ASSUME NEW q \in Seq(R), Len(q) # 0, NEW d \in BOOLEAN
      PROVE  Task(q, d) \in Fresh(R) /\ Task(q, d).requests = q
  BY <1>5 DEF Task, Fresh
<1>6. \A b \in 1..m : Batches[b] \in Fresh(R) /\ Batches[b].requests = Chunk(s, b)
  <2> SUFFICES ASSUME NEW b \in 1..m
               PROVE  Batches[b] \in Fresh(R) /\ Batches[b].requests = Chunk(s, b)
    OBVIOUS
  <2>1. Chunk(s, b) \in Seq(R) /\ Len(Chunk(s, b)) # 0
    <3>1. Len(Chunk(s, b)) \in 1..BatchSize /\ Chunk(s, b) \in Seq(R)
      BY <1>1, ChunkFacts DEF m
    <3>2. QED
      BY <3>1
  <2>2. QED
    BY <1>4, <1>5, <2>1
<1>7. \A i \in 1..l : Singles[i] \in Fresh(R) /\ Singles[i].requests = <<t[i]>>
  <2> SUFFICES ASSUME NEW i \in 1..l
               PROVE  Singles[i] \in Fresh(R) /\ Singles[i].requests = <<t[i]>>
    OBVIOUS
  <2>1. <<t[i]>> \in Seq(R) /\ Len(<<t[i]>>) # 0 /\ OnDisk(t[i]) \in BOOLEAN
    BY <1>2 DEF OnDisk
  <2>2. QED
    BY <1>4, <1>5, <2>1
<1>8. Batches \in Seq(Fresh(R)) /\ Len(Batches) = m
  <2>1. Batches \in [1..m -> Fresh(R)]
    BY <1>4, <1>6
  <2>2. QED
    BY <1>3, <2>1, AsSequence
<1>9. Singles \in Seq(Fresh(R)) /\ Len(Singles) = l
  <2>1. Singles \in [1..l -> Fresh(R)]
    BY <1>4, <1>7
  <2>2. QED
    BY <1>2, <2>1, AsSequence
<1>10. /\ Defined \in Seq(Fresh(R)) /\ Len(Defined) = m + l
       /\ \A i \in 1..m + l : Defined[i] = IF i <= m THEN Batches[i] ELSE Singles[i - m]
  BY <1>8, <1>9, ConcatProperties DEF Defined
<1>11. \A b \in 1..m : Defined[b] = Batches[b]
  BY <1>2, <1>3, <1>10
<1>12. \A i \in 1..l : Defined[m + i] = Singles[i]
  <2>1. \A i \in 1..l : m + i \in 1..m + l /\ ~(m + i <= m) /\ (m + i) - m = i
    BY <1>2, <1>3
  <2>2. QED
    BY <1>10, <2>1
<1>13. QED
  BY <1>1, <1>3, <1>6, <1>7, <1>10, <1>11, <1>12 DEF s, t, m, l

\* Where the requests of the tasks come from.
LEMMA Origins ==
  ASSUME NEW R, plan.requests \in Seq(R)
  PROVE  /\ Positions(plan.requests, Stats, StatRequests) # {}
         /\ Positions(plan.requests, Alone, SingleRequests) # {}
BY FilteredFacts DEF Stats, Alone, StatRequests, SingleRequests

\* Every request of the plan is a request of a task, by its id.
LEMMA Handled ==
  ASSUME NEW R, plan.requests \in Seq(R), NEW p \in DOMAIN plan.requests
  PROVE  \E i \in 1..Len(Defined) : \E k \in 1..Len(Defined[i].requests) :
           Defined[i].requests[k].id = plan.requests[p].id
<1> DEFINE s == StatRequests
           t == SingleRequests
           m == Chunks(s)
<1>1. /\ s \in Seq(R) /\ t \in Seq(R) /\ m \in Nat
      /\ Len(Defined) = m + Len(t)
      /\ \A b \in 1..m : Defined[b].requests = Chunk(s, b)
      /\ \A i \in 1..Len(t) : Defined[m + i].requests = <<t[i]>>
  BY DefinedShape
<1>2. Len(t) \in Nat
  BY <1>1, LenProperties
<1>3. PICK at \in Positions(plan.requests, Stats, s) : TRUE
  BY Origins
<1>4. PICK to \in Positions(plan.requests, Alone, t) : TRUE
  BY Origins
<1> HIDE DEF s, t, m
<1>5. CASE plan.requests[p].id \in Batched
  <2>1. PICK q \in Stats : plan.requests[q].id = plan.requests[p].id
    BY <1>5 DEF Batched
  <2>2. PICK x \in 1..Len(s) : s[x].id = plan.requests[p].id
    BY <1>3, <2>1 DEF Positions
  <2>3. PICK b \in 1..m : \E k \in 1..Len(Chunk(s, b)) : Chunk(s, b)[k] = s[x]
    BY <1>1, <2>2, ChunkOf DEF m
  <2>4. b \in 1..Len(Defined)
    BY <1>1, <1>2, <2>3
  <2>5. QED
    BY <1>1, <2>2, <2>3, <2>4
<1>6. CASE plan.requests[p].id \notin Batched
  <2>1. PICK x \in 1..Len(t) : t[x] = plan.requests[p]
    <3>1. p \in Alone
      BY <1>6 DEF Alone
    <3>2. PICK x \in 1..Len(t) : to[x] = p
      BY <1>4, <3>1 DEF Positions
    <3>3. t[x] = plan.requests[p]
      BY <1>4, <3>2 DEF Positions
    <3>4. QED
      BY <3>3
  <2>2. m + x \in 1..Len(Defined)
    BY <1>1, <1>2
  <2>3. Defined[m + x].requests = <<plan.requests[p]>>
    BY <1>1, <2>1
  <2>4. 1 \in 1..Len(Defined[m + x].requests)
        /\ Defined[m + x].requests[1].id = plan.requests[p].id
    BY <2>3
  <2>5. QED
    BY <2>2, <2>4
<1>7. QED
  BY <1>5, <1>6

\* If the ids of the plan differ, no two places of the tasks have one id.
LEMMA HandledOnce ==
  ASSUME NEW R, plan.requests \in Seq(R), Distinct,
         NEW i \in 1..Len(Defined), NEW k \in 1..Len(Defined[i].requests),
         NEW j \in 1..Len(Defined), NEW l \in 1..Len(Defined[j].requests),
         Defined[i].requests[k].id = Defined[j].requests[l].id
  PROVE  i = j /\ k = l
<1> DEFINE s == StatRequests
           t == SingleRequests
           m == Chunks(s)
           Stat(b, x) == s[(b - 1) * BatchSize + x]
<1>1. /\ s \in Seq(R) /\ t \in Seq(R) /\ m \in Nat
      /\ Len(Defined) = m + Len(t)
      /\ \A b \in 1..m : Defined[b].requests = Chunk(s, b)
      /\ \A x \in 1..Len(t) : Defined[m + x].requests = <<t[x]>>
  BY DefinedShape
<1>2. Len(t) \in Nat
  BY <1>1, LenProperties
<1>3. PICK at \in Positions(plan.requests, Stats, s) : TRUE
  BY Origins
<1>4. PICK to \in Positions(plan.requests, Alone, t) : TRUE
  BY Origins
<1> HIDE DEF s, t, m
<1>5. ASSUME NEW b \in 1..m, NEW x \in 1..Len(Defined[b].requests)
      PROVE  /\ (b - 1) * BatchSize + x \in 1..Len(s)
             /\ Defined[b].requests[x] = s[(b - 1) * BatchSize + x]
             /\ x \in 1..BatchSize
  <2>1. /\ Len(Chunk(s, b)) \in 1..BatchSize
        /\ \A y \in 1..Len(Chunk(s, b)) :
             /\ (b - 1) * BatchSize + y \in 1..Len(s)
             /\ Chunk(s, b)[y] = s[(b - 1) * BatchSize + y]
    BY <1>1, ChunkFacts DEF m
  <2>2. Defined[b].requests = Chunk(s, b)
    BY <1>1
  <2>3. x \in 1..BatchSize
    <3>1. BatchSize \in Nat
      BY RoundAssumption
    <3>2. QED
      BY <2>1, <2>2, <3>1
  <2>4. QED
    BY <2>1, <2>2, <2>3
<1>6. ASSUME NEW x \in 1..Len(s), NEW y \in 1..Len(s), s[x].id = s[y].id PROVE x = y
  <2>1. /\ at[x] \in Stats /\ s[x] = plan.requests[at[x]]
        /\ at[y] \in Stats /\ s[y] = plan.requests[at[y]]
    BY <1>3 DEF Positions
  <2>2. at[x] = at[y]
    BY <1>6, <2>1 DEF Distinct, Stats
  <2>3. QED
    BY <1>3, <2>2 DEF Positions
<1>7. ASSUME NEW x \in 1..Len(t), NEW y \in 1..Len(t), t[x].id = t[y].id PROVE x = y
  <2>1. /\ to[x] \in Alone /\ t[x] = plan.requests[to[x]]
        /\ to[y] \in Alone /\ t[y] = plan.requests[to[y]]
    BY <1>4 DEF Positions
  <2>2. to[x] = to[y]
    BY <1>7, <2>1 DEF Distinct, Alone
  <2>3. QED
    BY <1>4, <2>2 DEF Positions
<1>8. ASSUME NEW x \in 1..Len(s), NEW y \in 1..Len(t) PROVE s[x].id # t[y].id
  <2>1. s[x].id \in Batched
    <3>1. at[x] \in Stats /\ s[x] = plan.requests[at[x]]
      BY <1>3 DEF Positions
    <3>2. QED
      BY <3>1 DEF Batched
  <2>2. t[y].id \notin Batched
    BY <1>4 DEF Positions, Alone
  <2>3. QED
    BY <2>1, <2>2
<1>9. ASSUME NEW a \in 1..Len(Defined), a \notin 1..m, NEW x \in 1..Len(Defined[a].requests)
      PROVE  a - m \in 1..Len(t) /\ x = 1 /\ Defined[a].requests[x] = t[a - m]
  <2>1. a - m \in 1..Len(t) /\ m + (a - m) = a
    BY <1>1, <1>2, <1>9
  <2>2. Defined[a].requests = <<t[a - m]>>
    BY <1>1, <2>1
  <2>3. x = 1
    BY <2>2
  <2>4. QED
    BY <2>1, <2>2, <2>3
<1>10. CASE i \in 1..m /\ j \in 1..m
  <2> DEFINE x == (i - 1) * BatchSize + k
             y == (j - 1) * BatchSize + l
  <2>1. /\ x \in 1..Len(s) /\ Defined[i].requests[k] = s[x] /\ k \in 1..BatchSize
        /\ y \in 1..Len(s) /\ Defined[j].requests[l] = s[y] /\ l \in 1..BatchSize
    BY <1>5, <1>10
  <2>2. x = y
    <3> HIDE DEF x, y
    <3>1. QED
      BY <1>6, <2>1
  <2>3. i \in Nat \ {0} /\ j \in Nat \ {0}
    BY <1>1, <1>10
  <2>4. (i - 1) * BatchSize + k = (j - 1) * BatchSize + l /\ k \in 1..BatchSize
        /\ l \in 1..BatchSize
    BY <2>1, <2>2
  <2> HIDE DEF x, y
  <2>5. i = j /\ k = l
    BY ONLY <2>3, <2>4, ChunkApart
  <2>6. QED
    BY <2>5
<1>11. CASE i \in 1..m /\ j \notin 1..m
  <2>1. \E x \in 1..Len(s) : Defined[i].requests[k] = s[x]
    BY <1>5, <1>11
  <2>2. \E y \in 1..Len(t) : Defined[j].requests[l] = t[y]
    BY <1>9, <1>11
  <2>3. QED
    BY <1>8, <2>1, <2>2
<1>12. CASE i \notin 1..m /\ j \in 1..m
  <2>1. \E x \in 1..Len(s) : Defined[j].requests[l] = s[x]
    BY <1>5, <1>12
  <2>2. \E y \in 1..Len(t) : Defined[i].requests[k] = t[y]
    BY <1>9, <1>12
  <2>3. QED
    BY <1>8, <2>1, <2>2
<1>13. CASE i \notin 1..m /\ j \notin 1..m
  <2>1. i - m \in 1..Len(t) /\ j - m \in 1..Len(t) /\ t[i - m].id = t[j - m].id /\ k = 1 /\ l = 1
    BY <1>9, <1>13
  <2>2. i - m = j - m
    BY <1>7, <2>1
  <2>3. QED
    BY <1>1, <2>1, <2>2
<1>14. QED
  BY <1>10, <1>11, <1>12, <1>13

\* If each task reports its requests and the ids of the plan differ, each request
\* has one result.
LEMMA AllReported ==
  ASSUME NEW R, plan.requests \in Seq(R), Distinct,
         DOMAIN tasks = 1..Len(Defined),
         \A i \in 1..Len(Defined) : Reported(tasks[i]) = Defined[i].requests
  PROVE  Answered
<1> DEFINE q == plan.requests
           n == Len(Defined)
<1>1. DOMAIN q = 1..Len(q)
  BY LenProperties
<1>2. \A i \in 1..n : DOMAIN Defined[i].requests = 1..Len(Defined[i].requests)
  <2> SUFFICES ASSUME NEW i \in 1..n PROVE DOMAIN Defined[i].requests = 1..Len(Defined[i].requests)
    OBVIOUS
  <2>1. Defined[i] \in Fresh(R)
    BY DefinedShape, ElementOfSeq
  <2>2. Defined[i].requests \in Seq(R)
    BY <2>1 DEF Fresh
  <2>3. QED
    BY <2>2, LenProperties
<1>3. SUFFICES ASSUME NEW id \in Range(Ids(q))
               PROVE  Cardinality(ResultsOf(id)) = Cardinality({p \in DOMAIN q : q[p].id = id})
  BY DEF Answered
<1>4. PICK p \in DOMAIN q : q[p].id = id
  BY <1>3 DEF Range, Ids
<1>5. {o \in DOMAIN q : q[o].id = id} = {p}
  BY <1>4 DEF Distinct
<1>6. PICK i \in 1..n : \E k \in 1..Len(Defined[i].requests) : Defined[i].requests[k].id = id
  BY <1>4, Handled
<1>7. PICK k \in 1..Len(Defined[i].requests) : Defined[i].requests[k].id = id
  BY <1>6
<1> DEFINE At(j) == {j} \X {l \in DOMAIN Reported(tasks[j]) : Reported(tasks[j])[l].id = id}
<1>8. ResultsOf(id) = UNION {At(j) : j \in 1..n}
  BY DEF ResultsOf
<1> HIDE DEF q, n
<1>9. ASSUME NEW j \in 1..n, NEW x
      PROVE  x \in At(j) <=> j = i /\ x = <<i, k>>
  <2>1. At(j) = {j} \X {l \in 1..Len(Defined[j].requests) : Defined[j].requests[l].id = id}
    BY <1>2 DEF n
  <2>2. ASSUME NEW l \in 1..Len(Defined[j].requests), Defined[j].requests[l].id = id
        PROVE  j = i /\ l = k
    <3>1. i \in 1..Len(Defined) /\ j \in 1..Len(Defined)
      BY <1>6 DEF n
    <3>2. /\ k \in 1..Len(Defined[i].requests) /\ l \in 1..Len(Defined[j].requests)
          /\ Defined[i].requests[k].id = Defined[j].requests[l].id
      BY <1>7, <2>2
    <3>3. plan.requests \in Seq(R) /\ Distinct
      OBVIOUS
    <3>4. QED
      BY ONLY <3>1, <3>2, <3>3, HandledOnce
  <2>3. x \in At(j) <=> \E l \in 1..Len(Defined[j].requests) :
                          x = <<j, l>> /\ Defined[j].requests[l].id = id
    <3> DEFINE own == {l \in 1..Len(Defined[j].requests) : Defined[j].requests[l].id = id}
    <3>1. At(j) = {j} \X own
      BY <2>1
    <3>2. \A l : l \in own <=> l \in 1..Len(Defined[j].requests) /\ Defined[j].requests[l].id = id
      OBVIOUS
    <3> HIDE DEF At, own
    <3>3. x \in {j} \X own <=> \E l \in own : x = <<j, l>>
      OBVIOUS
    <3>4. QED
      BY <3>1, <3>2, <3>3
  <2> HIDE DEF At
  <2>4. QED
    BY <1>7, <2>2, <2>3
<1>10. ResultsOf(id) = {<<i, k>>}
  <2> HIDE DEF At
  <2>1. \A x : x \in ResultsOf(id) <=> \E j \in 1..n : x \in At(j)
    BY <1>8
  <2>2. \A x : x \in ResultsOf(id) <=> x = <<i, k>>
    BY <1>6, <1>9, <2>1
  <2>3. QED
    BY <2>2
<1>11. QED
  BY <1>5, <1>10, FS_Singleton

-----------------------------------------------------------------------------
(* The scheduler: what holds of its tasks and of the line for the disk.    *)

Phases == {"remaining", "queued", "executing", "joined", "done"}
Outcomes == {"none", "value", "error", "cancelled"}
Records(n, R) ==
  [requests : Seq(R), disk : BOOLEAN, phase : Phases, outcome : Outcomes, owner : 0..n]

\* Task i of the definitions ts as it stands: its requests are its own, it has an
\* outcome once it is done, and what has a value got it from a task with its key.
Healthy(t, i, ts) ==
  /\ t.requests = ts[i].requests
  /\ t.phase = "done" <=> t.outcome # "none"
  /\ t.phase \in {"queued", "executing", "joined"} \/ t.outcome = "value" => t.owner # 0
  /\ t.owner # 0 => CacheKey(ts[t.owner]) = CacheKey(ts[i])

\* Those in line wait for the disk, each at one place.
InLine(waiters, T) ==
  /\ \A k \in 1..Len(waiters) : T[waiters[k]].phase = "queued"
  /\ \A k, l \in 1..Len(waiters) : waiters[k] = waiters[l] => k = l

States(ts, R) ==
  {st \in [tasks : [1..Len(ts) -> Records(Len(ts), R)], line : Seq(1..Len(ts))] :
     /\ \A i \in 1..Len(ts) : Healthy(st.tasks[i], i, ts)
     /\ InLine(st.line, st.tasks)}

LEMMA StateFacts ==
  ASSUME NEW R, NEW ts, NEW st \in States(ts, R)
  PROVE  /\ st = [tasks |-> st.tasks, line |-> st.line]
         /\ st.tasks \in [1..Len(ts) -> Records(Len(ts), R)]
         /\ DOMAIN st.tasks = 1..Len(ts)
         /\ st.line \in Seq(1..Len(ts))
         /\ \A i \in 1..Len(ts) : Healthy(st.tasks[i], i, ts) /\ st.tasks[i] \in Records(Len(ts), R)
         /\ InLine(st.line, st.tasks)
BY DEF States

\* Tasks may change as long as they stay healthy and those in line wait.
LEMMA Replaced ==
  ASSUME NEW R, NEW ts, NEW T \in [1..Len(ts) -> Records(Len(ts), R)],
         NEW waiters \in Seq(1..Len(ts)),
         \A i \in 1..Len(ts) : Healthy(T[i], i, ts), InLine(waiters, T)
  PROVE  [tasks |-> T, line |-> waiters] \in States(ts, R)
BY DEF States

\* One task that is not in line changes.
LEMMA Updated ==
  ASSUME NEW R, NEW ts, NEW st \in States(ts, R), NEW i \in 1..Len(ts),
         st.tasks[i].phase # "queued",
         NEW t \in Records(Len(ts), R), Healthy(t, i, ts)
  PROVE  /\ [tasks |-> [st.tasks EXCEPT ![i] = t], line |-> st.line] \in States(ts, R)
         /\ t.phase = "queued" =>
              [tasks |-> [st.tasks EXCEPT ![i] = t], line |-> Append(st.line, i)] \in States(ts, R)
<1> DEFINE T == [st.tasks EXCEPT ![i] = t]
           w == st.line
           v == Append(w, i)
<1>1. /\ st.tasks \in [1..Len(ts) -> Records(Len(ts), R)] /\ w \in Seq(1..Len(ts))
      /\ \A j \in 1..Len(ts) : Healthy(st.tasks[j], j, ts)
      /\ InLine(w, st.tasks)
  BY StateFacts
<1>2. /\ T \in [1..Len(ts) -> Records(Len(ts), R)]
      /\ T[i] = t /\ \A j \in 1..Len(ts) : j # i => T[j] = st.tasks[j]
  BY <1>1
<1> HIDE DEF T, w
<1>3. \A j \in 1..Len(ts) : Healthy(T[j], j, ts)
  BY <1>1, <1>2
<1>4. Len(w) \in Nat /\ \A k \in 1..Len(w) : w[k] \in 1..Len(ts) /\ w[k] # i
  <2>1. \A k \in 1..Len(w) : w[k] \in 1..Len(ts)
    BY <1>1, ElementOfSeq
  <2>2. QED
    BY <1>1, <2>1, LenProperties DEF InLine
<1>5. InLine(w, T)
  BY <1>1, <1>2, <1>4 DEF InLine
<1>6. ASSUME t.phase = "queued" PROVE v \in Seq(1..Len(ts)) /\ InLine(v, T)
  <2>1. /\ v \in Seq(1..Len(ts)) /\ Len(v) = Len(w) + 1
        /\ \A k \in 1..Len(w) : v[k] = w[k]
        /\ v[Len(w) + 1] = i
    BY <1>1, AppendProperties
  <2> HIDE DEF v
  <2>2. ASSUME NEW k \in 1..Len(w) + 1 PROVE k = Len(w) + 1 \/ k \in 1..Len(w)
    BY <1>4
  <2>3. \A k \in 1..Len(v) : T[v[k]].phase = "queued"
    BY <1>2, <1>5, <1>6, <2>1, <2>2 DEF InLine
  <2>4. ASSUME NEW k \in 1..Len(v), NEW l \in 1..Len(v), v[k] = v[l] PROVE k = l
    <3>1. CASE k \in 1..Len(w) /\ l \in 1..Len(w)
      BY <1>5, <2>1, <2>4, <3>1 DEF InLine
    <3>2. CASE k = Len(w) + 1 /\ l \in 1..Len(w)
      BY <1>4, <2>1, <2>4, <3>2
    <3>3. CASE k \in 1..Len(w) /\ l = Len(w) + 1
      BY <1>4, <2>1, <2>4, <3>3
    <3>4. QED
      BY <2>1, <2>2, <3>1, <3>2, <3>3
  <2>5. QED
    BY <2>1, <2>3, <2>4 DEF InLine
<1> HIDE DEF v
<1>7. QED
  BY <1>1, <1>2, <1>3, <1>5, <1>6, Replaced DEF T, w, v

\* What an update of one task does to a state.
LEMMA FieldUpdates ==
  ASSUME NEW T, NEW w, NEW st, st = [tasks |-> T, line |-> w], NEW i \in DOMAIN T, NEW x
  PROVE  /\ [st EXCEPT !.tasks[i].owner = x]
              = [tasks |-> [T EXCEPT ![i] = [T[i] EXCEPT !.owner = x]], line |-> w]
         /\ [st EXCEPT !.tasks[i].outcome = x]
              = [tasks |-> [T EXCEPT ![i] = [T[i] EXCEPT !.outcome = x]], line |-> w]
         /\ [st EXCEPT !.tasks[i].phase = x]
              = [tasks |-> [T EXCEPT ![i] = [T[i] EXCEPT !.phase = x]], line |-> w]
OBVIOUS

\* The record of a task that joins another.
LEMMA JoinedRecord ==
  ASSUME NEW n, NEW R, NEW r \in Records(n, R), NEW phase, NEW owner, NEW outcome
  PROVE  [[[r EXCEPT !.owner = owner] EXCEPT !.outcome = outcome] EXCEPT !.phase = phase]
           = [requests |-> r.requests, disk |-> r.disk, phase |-> phase,
              outcome |-> outcome, owner |-> owner]
<1> DEFINE r1 == [r EXCEPT !.owner = owner]
           r2 == [r1 EXCEPT !.outcome = outcome]
<1>1. r = [requests |-> r.requests, disk |-> r.disk, phase |-> r.phase,
           outcome |-> r.outcome, owner |-> r.owner]
  BY DEF Records
<1>2. r1 = [requests |-> r.requests, disk |-> r.disk, phase |-> r.phase,
            outcome |-> r.outcome, owner |-> owner]
  BY <1>1
<1> HIDE DEF r1
<1>3. r2 = [requests |-> r.requests, disk |-> r.disk, phase |-> r.phase,
            outcome |-> outcome, owner |-> owner]
  BY <1>2
<1> HIDE DEF r2
<1>4. [r2 EXCEPT !.phase = phase] = [requests |-> r.requests, disk |-> r.disk, phase |-> phase,
                                     outcome |-> outcome, owner |-> owner]
  BY <1>3
<1>5. QED
  BY <1>4 DEF r2, r1

\* A task that remains may begin to execute, or wait for the disk.
LEMMA AcquiredKept ==
  ASSUME NEW R, NEW ts, NEW st \in States(ts, R), NEW i \in 1..Len(ts),
         st.tasks[i].phase = "remaining"
  PROVE  LET own == [st EXCEPT !.tasks[i].owner = i]
         IN  /\ Acquired(own, i) \in States(ts, R)
             /\ [own EXCEPT !.tasks[i].phase = "executing"] \in States(ts, R)
<1> DEFINE T == st.tasks
           r == T[i]
           own == [st EXCEPT !.tasks[i].owner = i]
           t(phase) == [requests |-> r.requests, disk |-> r.disk, phase |-> phase,
                        outcome |-> r.outcome, owner |-> i]
           U(phase) == [T EXCEPT ![i] = t(phase)]
<1>1. /\ st = [tasks |-> T, line |-> st.line] /\ DOMAIN T = 1..Len(ts)
      /\ r \in Records(Len(ts), R) /\ Healthy(r, i, ts)
  BY StateFacts
<1>2. /\ i \in 0..Len(ts) /\ i # 0
      /\ r = [requests |-> r.requests, disk |-> r.disk, phase |-> "remaining",
              outcome |-> r.outcome, owner |-> r.owner]
  BY <1>1 DEF Records
<1>3. \A phase \in {"queued", "executing"} :
        t(phase) \in Records(Len(ts), R) /\ Healthy(t(phase), i, ts) /\ t(phase).phase = phase
  BY <1>1, <1>2 DEF Records, Phases, Healthy
<1> DEFINE V == [T EXCEPT ![i] = [r EXCEPT !.owner = i]]
           rest(phase) == [V EXCEPT ![i] = [V[i] EXCEPT !.phase = phase]]
<1>4. own = [tasks |-> V, line |-> st.line] /\ i \in DOMAIN V
  BY <1>1, FieldUpdates
<1>5. \A phase \in {"queued", "executing"} : rest(phase) = U(phase)
  <2>1. V[i] = t("remaining") /\ \A x : [V EXCEPT ![i] = x] = [T EXCEPT ![i] = x]
    BY <1>1, <1>2
  <2>2. \A phase \in {"queued", "executing"} : [V[i] EXCEPT !.phase = phase] = t(phase)
    BY <2>1
  <2> HIDE DEF t, V
  <2>3. QED
    BY <2>1, <2>2
<1> HIDE DEF own, V
<1>6. [own EXCEPT !.tasks[i].phase = "executing"] = [tasks |-> U("executing"), line |-> st.line]
  <2>1. [own EXCEPT !.tasks[i].phase = "executing"] = [tasks |-> rest("executing"), line |-> st.line]
    BY <1>4, FieldUpdates
  <2> HIDE DEF rest, U
  <2>2. QED
    BY <1>5, <2>1
<1>7. [own EXCEPT !.tasks[i].phase = "queued", !.line = Append(own.line, i)]
        = [tasks |-> U("queued"), line |-> Append(st.line, i)]
  <2> DEFINE v == Append(own.line, i)
  <2>1. [own EXCEPT !.tasks[i].phase = "queued", !.line = v] = [tasks |-> rest("queued"), line |-> v]
    <3> DEFINE once == [own EXCEPT !.tasks[i].phase = "queued"]
    <3>1. [own EXCEPT !.tasks[i].phase = "queued", !.line = v] = [once EXCEPT !.line = v]
      OBVIOUS
    <3>2. once = [tasks |-> rest("queued"), line |-> st.line]
      BY <1>4, FieldUpdates
    <3> HIDE DEF once, rest, v
    <3>3. QED
      BY <3>1, <3>2
  <2>2. v = Append(st.line, i)
    BY <1>4
  <2> HIDE DEF rest, U
  <2>3. QED
    BY <1>5, <2>1, <2>2
<1>8. T[i].phase # "queued"
  OBVIOUS
<1>9. \A phase \in {"queued", "executing"} :
        /\ [tasks |-> U(phase), line |-> st.line] \in States(ts, R)
        /\ phase = "queued" => [tasks |-> U(phase), line |-> Append(st.line, i)] \in States(ts, R)
  <2> HIDE DEF t
  <2>1. QED
    BY <1>3, <1>8, Updated
<1> HIDE DEF U
<1>10. QED
  BY <1>6, <1>7, <1>9 DEF Acquired, own

\* A task joins an execution under its own key, pending or with a value.
LEMMA BegunKept ==
  ASSUME NEW R, NEW ts, NEW st \in States(ts, R), NEW i \in 1..Len(ts),
         st.tasks[i].phase = "remaining"
  PROVE  Begun(st, i) \in States(ts, R)
<1>1. CASE Cached(st, i) = {}
  BY <1>1, AcquiredKept DEF Begun
<1>2. CASE Cached(st, i) # {}
  <2> DEFINE T == st.tasks
             r == T[i]
             j == CHOOSE j \in Cached(st, i) : TRUE
             phase == IF T[j].phase = "done" THEN "done" ELSE "joined"
             t == [requests |-> r.requests, disk |-> r.disk, phase |-> phase,
                   outcome |-> T[j].outcome, owner |-> j]
  <2>1. j \in Cached(st, i)
    BY <1>2
  <2>2. Begun(st, i) = [st EXCEPT !.tasks[i].owner = j,
                                  !.tasks[i].outcome = T[j].outcome,
                                  !.tasks[i].phase = phase]
    BY <1>2 DEF Begun
  <2> HIDE DEF j
  <2>3. /\ st = [tasks |-> T, line |-> st.line] /\ DOMAIN T = 1..Len(ts)
        /\ r \in Records(Len(ts), R) /\ Healthy(r, i, ts)
        /\ \A k \in 1..Len(ts) : T[k] \in Records(Len(ts), R) /\ Healthy(T[k], k, ts)
    BY StateFacts
  <2>4. /\ j \in 1..Len(ts) /\ CacheKey(T[j]) = CacheKey(T[i])
        /\ T[j].phase \in {"queued", "executing"} \/ T[j].outcome = "value"
    BY <2>1, <2>3 DEF Cached
  <2>5. CacheKey(ts[j]) = CacheKey(ts[i])
    BY <2>3, <2>4 DEF CacheKey, Healthy
  <2>6. t \in Records(Len(ts), R)
    BY <2>3, <2>4 DEF Records, Phases
  <2>7. Healthy(t, i, ts)
    <3>1. T[j].phase = "done" <=> T[j].outcome # "none"
      BY <2>3, <2>4 DEF Healthy
    <3>2. phase = "done" <=> T[j].outcome # "none"
      BY <3>1
    <3>3. j # 0
      BY <2>4
    <3>4. r.requests = ts[i].requests
      BY <2>3 DEF Healthy
    <3> HIDE DEF phase, r
    <3>5. QED
      BY <2>5, <3>2, <3>3, <3>4 DEF Healthy
  <2>8. [st EXCEPT !.tasks[i].owner = j, !.tasks[i].outcome = T[j].outcome,
                   !.tasks[i].phase = phase]
          = [tasks |-> [T EXCEPT ![i] = t], line |-> st.line]
    <3> DEFINE o == T[j].outcome
               r1 == [r EXCEPT !.owner = j]
               r2 == [r1 EXCEPT !.outcome = o]
               r3 == [r2 EXCEPT !.phase = phase]
               U(x) == [T EXCEPT ![i] = x]
               s1 == [st EXCEPT !.tasks[i].owner = j]
               s2 == [s1 EXCEPT !.tasks[i].outcome = o]
               s3 == [s2 EXCEPT !.tasks[i].phase = phase]
    <3> HIDE DEF o, phase
    <3>1. [st EXCEPT !.tasks[i].owner = j, !.tasks[i].outcome = o, !.tasks[i].phase = phase] = s3
      OBVIOUS
    <3>2. s1 = [tasks |-> U(r1), line |-> st.line]
      BY <2>3, FieldUpdates
    <3>3. \A x : i \in DOMAIN U(x) /\ U(x)[i] = x /\ \A y : [U(x) EXCEPT ![i] = y] = U(y)
      BY <2>3
    <3> HIDE DEF s1, r1, U
    <3>4. s2 = [tasks |-> U(r2), line |-> st.line]
      <4>1. s2 = [tasks |-> [U(r1) EXCEPT ![i] = [U(r1)[i] EXCEPT !.outcome = o]], line |-> st.line]
        BY <3>2, <3>3, FieldUpdates
      <4>2. QED
        BY <3>3, <4>1
    <3> HIDE DEF s2, r2
    <3>5. s3 = [tasks |-> U(r3), line |-> st.line]
      <4>1. s3 = [tasks |-> [U(r2) EXCEPT ![i] = [U(r2)[i] EXCEPT !.phase = phase]], line |-> st.line]
        BY <3>3, <3>4, FieldUpdates
      <4>2. QED
        BY <3>3, <4>1
    <3> HIDE DEF s3
    <3>6. r3 = t
      <4>1. r3 = [requests |-> r.requests, disk |-> r.disk, phase |-> phase,
                  outcome |-> o, owner |-> j]
        <5>1. r \in Records(Len(ts), R)
          BY <2>3
        <5>2. r3 = [[[r EXCEPT !.owner = j] EXCEPT !.outcome = o] EXCEPT !.phase = phase]
          BY DEF r2, r1
        <5> HIDE DEF r, r3
        <5>3. [[[r EXCEPT !.owner = j] EXCEPT !.outcome = o] EXCEPT !.phase = phase]
                = [requests |-> r.requests, disk |-> r.disk, phase |-> phase,
                   outcome |-> o, owner |-> j]
          BY <5>1, JoinedRecord, Zenon
        <5>4. QED
          BY <5>2, <5>3
      <4>2. QED
        BY <4>1 DEF o
    <3> HIDE DEF r3, t
    <3>7. QED
      BY <3>1, <3>5, <3>6 DEF U, o
  <2>9. T[i].phase # "queued"
    OBVIOUS
  <2> HIDE DEF t, phase
  <2>10. [tasks |-> [T EXCEPT ![i] = t], line |-> st.line] \in States(ts, R)
    BY <2>6, <2>7, <2>9, Updated
  <2>11. QED
    BY <2>2, <2>8, <2>10
<1>3. QED
  BY <1>1, <1>2

LEMMA TurnKept ==
  ASSUME NEW R, NEW ts, NEW st \in States(ts, R), NEW i \in 1..Len(ts), NEW disk
  PROVE  Turn(st, i, disk) \in States(ts, R)
BY BegunKept DEF Turn, Dispatched

\* One step of the loop of run(): task k of those off the disk, then of those on it.
Stepped(k, n, s) == IF k <= n THEN Turn(s, k, FALSE) ELSE Turn(s, k - n, TRUE)

\* A pass leaves the tasks healthy, whether it dispatches or cancels.
LEMMA PassKept ==
  ASSUME NEW R, NEW ts, Len(ts) \in Nat, NEW st \in States(ts, R)
  PROVE  Pass(st) \in States(ts, R)
<1> DEFINE n == Len(st.tasks)
           X == States(ts, R)
<1>1. n = Len(ts) /\ n \in Nat
  <2>1. st.tasks \in [1..Len(ts) -> Records(Len(ts), R)]
    BY StateFacts
  <2>2. QED
    BY <2>1, AsSequence
<1>2. CASE expired
  <2> DEFINE T == [i \in DOMAIN st.tasks |->
                     IF st.tasks[i].phase = "remaining"
                     THEN [st.tasks[i] EXCEPT !.phase = "done", !.outcome = "cancelled"]
                     ELSE st.tasks[i]]
  <2>1. Pass(st) = [st EXCEPT !.tasks = T]
    BY <1>2 DEF Pass
  <2>2. /\ st = [tasks |-> st.tasks, line |-> st.line] /\ DOMAIN st.tasks = 1..Len(ts)
        /\ st.line \in Seq(1..Len(ts))
        /\ \A i \in 1..Len(ts) : Healthy(st.tasks[i], i, ts) /\ st.tasks[i] \in Records(Len(ts), R)
        /\ InLine(st.line, st.tasks)
    BY StateFacts
  <2>3. \A i \in 1..Len(ts) : /\ T[i] \in Records(Len(ts), R) /\ Healthy(T[i], i, ts)
                              /\ st.tasks[i].phase = "queued" => T[i] = st.tasks[i]
    <3> SUFFICES ASSUME NEW i \in 1..Len(ts)
                 PROVE  /\ T[i] \in Records(Len(ts), R) /\ Healthy(T[i], i, ts)
                        /\ st.tasks[i].phase = "queued" => T[i] = st.tasks[i]
      OBVIOUS
    <3>1. CASE st.tasks[i].phase # "remaining"
      BY <2>2, <3>1
    <3>2. CASE st.tasks[i].phase = "remaining"
      <4> DEFINE r == st.tasks[i]
      <4>1. r \in Records(Len(ts), R) /\ Healthy(r, i, ts)
        BY <2>2
      <4>2. T[i] = [r EXCEPT !.phase = "done", !.outcome = "cancelled"]
        BY <2>2, <3>2
      <4> HIDE DEF r, T
      <4>3. T[i] = [requests |-> r.requests, disk |-> r.disk, phase |-> "done",
                    outcome |-> "cancelled", owner |-> r.owner]
        BY <4>1, <4>2 DEF Records
      <4>4. T[i] \in Records(Len(ts), R)
        BY <4>1, <4>3 DEF Records, Phases, Outcomes
      <4>5. Healthy(T[i], i, ts)
        BY <4>1, <4>3 DEF Healthy
      <4>6. QED
        BY <3>2, <4>4, <4>5 DEF r
    <3>3. QED
      BY <3>1, <3>2
  <2>4. T \in [1..Len(ts) -> Records(Len(ts), R)]
    <3>1. DOMAIN T = 1..Len(ts) /\ T = [i \in DOMAIN T |-> T[i]]
      BY <2>2
    <3> HIDE DEF T
    <3>2. QED
      BY <2>3, <3>1
  <2> HIDE DEF T
  <2>5. InLine(st.line, T)
    <3>1. \A k \in 1..Len(st.line) : st.line[k] \in 1..Len(ts)
      BY <2>2, ElementOfSeq
    <3>2. QED
      BY <2>2, <2>3, <3>1 DEF InLine
  <2>6. [tasks |-> T, line |-> st.line] \in States(ts, R)
    BY <2>2, <2>3, <2>4, <2>5, Replaced
  <2>7. [st EXCEPT !.tasks = T] = [tasks |-> T, line |-> st.line]
    BY <2>2
  <2>8. QED
    BY <2>1, <2>6, <2>7
<1>3. CASE ~expired
  <2> DEFINE Equation(f) ==
               f = [k \in 0..2 * Len(st.tasks) |->
                      IF k = 0 THEN st
                      ELSE CHOOSE now \in {IF k <= Len(st.tasks) THEN Turn(s, k, FALSE)
                                             ELSE Turn(s, k - Len(st.tasks), TRUE) :
                                             s \in {f[k - 1]}} : TRUE]
             f0 == CHOOSE f : Equation(f)
             step == [a \in (1..2 * n) \X X |-> Stepped(a[1], n, a[2])]
  <2>1. Pass(st) = f0[2 * n]
    BY <1>3, Zenon DEF Pass
  <2>2. \A k \in 1..2 * n : \A s \in X : Stepped(k, n, s) \in X
    <3> SUFFICES ASSUME NEW k \in 1..2 * n, NEW s \in X PROVE Stepped(k, n, s) \in X
      OBVIOUS
    <3> HIDE DEF n
    <3>1. CASE k <= n
      <4>1. k \in 1..Len(ts)
        BY <1>1, <3>1
      <4>2. QED
        BY <3>1, <4>1, TurnKept DEF Stepped
    <3>2. CASE ~(k <= n)
      <4>1. k - n \in 1..Len(ts)
        BY <1>1, <3>2
      <4>2. QED
        BY <3>2, <4>1, TurnKept DEF Stepped
    <3>3. QED
      BY <3>1, <3>2
  <2>3. /\ step \in [(1..2 * n) \X X -> X]
        /\ \A k \in 1..2 * n : \A s \in X : step[<<k, s>>] = Stepped(k, n, s)
    <3> HIDE DEF n, X
    <3>1. QED
      BY <2>2
  <2>4. \A f : Equation(f) <=>
          f = [k \in 0..2 * n |-> IF k = 0 THEN st ELSE Stepped(k, n, f[k - 1])]
    <3>1. \A k, s : (CHOOSE now \in {IF k <= Len(st.tasks) THEN Turn(x, k, FALSE)
                                      ELSE Turn(x, k - Len(st.tasks), TRUE) : x \in {s}} : TRUE)
                     = Stepped(k, n, s)
      <4> SUFFICES ASSUME NEW k, NEW s
                   PROVE  (CHOOSE now \in {IF k <= Len(st.tasks) THEN Turn(x, k, FALSE)
                                      ELSE Turn(x, k - Len(st.tasks), TRUE) : x \in {s}} : TRUE)
                           = Stepped(k, n, s)
        OBVIOUS
      <4>1. {IF k <= Len(st.tasks) THEN Turn(x, k, FALSE)
                                   ELSE Turn(x, k - Len(st.tasks), TRUE) : x \in {s}}
              = {Stepped(k, n, s)}
        BY DEF Stepped
      <4>2. QED
        BY <4>1
    <3>2. QED
      BY <3>1, Zenon
  <2> HIDE DEF Equation, step, n, X
  <2>5. PICK g \in Stages(2 * n, X, st, step) : TRUE
    <3>1. 2 * n \in Nat /\ st \in X
      BY <1>1 DEF X
    <3>2. QED
      BY <2>3, <3>1, StagesExist
  <2>6. Equation(g)
    <3>1. /\ g \in [0..2 * n -> X] /\ g[0] = st
          /\ \A k \in 1..2 * n : g[k] = step[<<k, g[k - 1]>>]
      BY <2>5 DEF Stages
    <3>2. ASSUME NEW k \in 0..2 * n
          PROVE  g[k] = IF k = 0 THEN st ELSE Stepped(k, n, g[k - 1])
      <4>1. CASE k = 0
        BY <3>1, <4>1
      <4>2. CASE k # 0
        <5>1. k \in 1..2 * n /\ k - 1 \in 0..2 * n
          BY <1>1, <4>2
        <5>2. QED
          BY <2>3, <3>1, <4>2, <5>1
      <4>3. QED
        BY <4>1, <4>2
    <3>3. g = [k \in 0..2 * n |-> g[k]]
      BY <3>1
    <3>4. g = [k \in 0..2 * n |-> IF k = 0 THEN st ELSE Stepped(k, n, g[k - 1])]
      BY <3>2, <3>3
    <3>5. QED
      BY <2>4, <3>4
  <2>7. Equation(f0)
    BY <2>6, Zenon
  <2> HIDE DEF f0
  <2>8. \A k \in 0..2 * n : f0[k] = IF k = 0 THEN st ELSE Stepped(k, n, f0[k - 1])
    <3>1. f0 = [k \in 0..2 * n |-> IF k = 0 THEN st ELSE Stepped(k, n, f0[k - 1])]
      BY <2>4, <2>7
    <3>2. QED
      BY <3>1, Zenon
  <2> DEFINE Good == {k \in 0..2 * n : f0[k] \in X}
  <2>9. 0 \in Good
    BY <1>1, <2>8 DEF X
  <2>10. ASSUME NEW k \in 1..2 * n, k - 1 \in Good PROVE k \in Good
    <3>1. k \in 0..2 * n /\ k # 0
      BY <1>1
    <3>2. f0[k] = Stepped(k, n, f0[k - 1])
      BY <2>8, <3>1
    <3>3. QED
      BY <2>2, <2>10, <3>1, <3>2
  <2> HIDE DEF Good
  <2>11. 2 * n \in Nat
    BY <1>1
  <2>12. \A k \in 0..2 * n : k \in Good
    <3> DEFINE m == 2 * n
    <3> HIDE DEF m
    <3>1. \A k \in 0..m : k \in Good
      BY <2>9, <2>10, <2>11, Upwards DEF m
    <3>2. QED
      BY <3>1 DEF m
  <2>13. f0[2 * n] \in X
    BY <2>11, <2>12 DEF Good
  <2>14. QED
    BY <2>1, <2>13 DEF X
<1>4. QED
  BY <1>2, <1>3

\* A permit of the disk that is handed on goes to a task that waits for it.
LEMMA HandedKept ==
  ASSUME NEW R, NEW ts, NEW st \in States(ts, R), NEW i \in 1..Len(ts)
  PROVE  Handed(st, i) \in States(ts, R)
<1>1. CASE ~(st.tasks[i].disk /\ st.line # << >>)
  BY <1>1 DEF Handed
<1>2. CASE st.tasks[i].disk /\ st.line # << >>
  <2> DEFINE T == st.tasks
             w == st.line
             h == Head(w)
             v == Tail(w)
             r == T[h]
             t == [requests |-> r.requests, disk |-> r.disk, phase |-> "executing",
                   outcome |-> r.outcome, owner |-> r.owner]
             U == [T EXCEPT ![h] = t]
  <2>1. /\ st = [tasks |-> T, line |-> w] /\ DOMAIN T = 1..Len(ts)
        /\ T \in [1..Len(ts) -> Records(Len(ts), R)]
        /\ w \in Seq(1..Len(ts)) /\ InLine(w, T)
        /\ \A j \in 1..Len(ts) : Healthy(T[j], j, ts) /\ T[j] \in Records(Len(ts), R)
    BY StateFacts
  <2>2. /\ Len(w) \in Nat \ {0} /\ h = w[1] /\ h \in 1..Len(ts)
        /\ v \in Seq(1..Len(ts)) /\ Len(v) = Len(w) - 1
        /\ \A k \in 1..Len(v) : v[k] = w[k + 1]
    <3> HIDE DEF w
    <3>1. w # << >>
      BY <1>2 DEF w
    <3>2. Len(w) \in Nat \ {0}
      BY <2>1, <3>1, EmptySeq
    <3>3. Head(w) = w[1]
      BY <2>1, <3>1
    <3>4. QED
      BY <2>1, <3>1, <3>2, <3>3, HeadTailProperties
  <2>3. r \in Records(Len(ts), R) /\ Healthy(r, h, ts) /\ r.phase = "queued"
    <3>1. r.phase = "queued"
      BY <2>1, <2>2 DEF InLine
    <3>2. QED
      BY <2>1, <2>2, <3>1
  <2> HIDE DEF r
  <2>4. t \in Records(Len(ts), R) /\ Healthy(t, h, ts)
    BY <2>3 DEF Records, Phases, Healthy
  <2>5. Handed(st, i) = [tasks |-> U, line |-> v]
    <3> DEFINE once == [st EXCEPT !.tasks[h].phase = "executing"]
    <3>1. Handed(st, i) = [once EXCEPT !.line = v]
      BY <1>2 DEF Handed
    <3>2. once = [tasks |-> [T EXCEPT ![h] = [T[h] EXCEPT !.phase = "executing"]], line |-> w]
      <4>1. h \in DOMAIN T /\ st = [tasks |-> T, line |-> w]
        BY <2>1, <2>2
      <4> HIDE DEF h, T, w, t, U
      <4>2. [st EXCEPT !.tasks[h].phase = "executing"]
              = [tasks |-> [T EXCEPT ![h] = [T[h] EXCEPT !.phase = "executing"]], line |-> w]
        BY <4>1, FieldUpdates
      <4>3. QED
        BY <4>2
    <3>3. [T[h] EXCEPT !.phase = "executing"] = t
      <4>1. r = [requests |-> r.requests, disk |-> r.disk, phase |-> r.phase,
                 outcome |-> r.outcome, owner |-> r.owner]
        BY <2>3 DEF Records
      <4>2. [r EXCEPT !.phase = "executing"] = t
        BY <4>1
      <4>3. QED
        BY <4>2 DEF r
    <3> HIDE DEF once, h, v, t
    <3>4. QED
      BY <3>1, <3>2, <3>3
  <2> HIDE DEF t
  <2>6. /\ U \in [1..Len(ts) -> Records(Len(ts), R)]
        /\ U[h] = t /\ \A j \in 1..Len(ts) : j # h => U[j] = T[j]
    BY <2>1, <2>2, <2>4
  <2> HIDE DEF U, T, h, w, v
  <2>7. \A j \in 1..Len(ts) : Healthy(U[j], j, ts)
    BY <2>1, <2>4, <2>6
  <2>8. ASSUME NEW k \in 1..Len(v)
        PROVE  v[k] = w[k + 1] /\ k + 1 \in 1..Len(w) /\ v[k] # h /\ v[k] \in 1..Len(ts)
    <3>1. k + 1 \in 1..Len(w) /\ k + 1 # 1 /\ 1 \in 1..Len(w)
      BY <2>2
    <3>2. v[k] = w[k + 1] /\ w[k + 1] # w[1]
      BY <2>1, <2>2, <3>1 DEF InLine
    <3>3. v[k] \in 1..Len(ts)
      BY <2>2, ElementOfSeq
    <3>4. QED
      BY <2>2, <3>1, <3>2, <3>3
  <2>9. InLine(v, U)
    <3>1. ASSUME NEW k \in 1..Len(v) PROVE U[v[k]].phase = "queued"
      <4>1. U[v[k]] = T[w[k + 1]]
        BY <2>6, <2>8
      <4>2. QED
        BY <2>1, <2>8, <4>1 DEF InLine
    <3>2. ASSUME NEW k \in 1..Len(v), NEW l \in 1..Len(v), v[k] = v[l] PROVE k = l
      <4>1. k + 1 = l + 1
        BY <2>1, <2>8, <3>2 DEF InLine
      <4>2. QED
        BY <2>2, <4>1
    <3>3. QED
      BY <3>1, <3>2 DEF InLine
  <2>10. QED
    BY <2>2, <2>5, <2>6, <2>7, <2>9, Replaced
<1>3. QED
  BY <1>1, <1>2

\* A task that ends, and those that joined it, get its outcome.
LEMMA SettledKept ==
  ASSUME NEW R, NEW ts, NEW st \in States(ts, R), NEW i \in 1..Len(ts),
         NEW outcome \in {"value", "error"}
  PROVE  Settled(st, i, outcome) \in States(ts, R)
<1> DEFINE T == [j \in DOMAIN st.tasks |->
                   IF st.tasks[j].phase \in {"executing", "joined"} /\ st.tasks[j].owner = i
                   THEN [st.tasks[j] EXCEPT !.phase = "done", !.outcome = outcome]
                   ELSE st.tasks[j]]
<1>1. Settled(st, i, outcome) = [st EXCEPT !.tasks = T]
  BY DEF Settled
<1>2. /\ st = [tasks |-> st.tasks, line |-> st.line] /\ DOMAIN st.tasks = 1..Len(ts)
      /\ st.line \in Seq(1..Len(ts))
      /\ \A j \in 1..Len(ts) : Healthy(st.tasks[j], j, ts) /\ st.tasks[j] \in Records(Len(ts), R)
      /\ InLine(st.line, st.tasks)
  BY StateFacts
<1>3. \A j \in 1..Len(ts) : /\ T[j] \in Records(Len(ts), R) /\ Healthy(T[j], j, ts)
                            /\ st.tasks[j].phase = "queued" => T[j] = st.tasks[j]
  <2> SUFFICES ASSUME NEW j \in 1..Len(ts)
               PROVE  /\ T[j] \in Records(Len(ts), R) /\ Healthy(T[j], j, ts)
                      /\ st.tasks[j].phase = "queued" => T[j] = st.tasks[j]
    OBVIOUS
  <2>1. CASE ~(st.tasks[j].phase \in {"executing", "joined"} /\ st.tasks[j].owner = i)
    BY <1>2, <2>1
  <2>2. CASE st.tasks[j].phase \in {"executing", "joined"} /\ st.tasks[j].owner = i
    <3> DEFINE r == st.tasks[j]
    <3>1. r \in Records(Len(ts), R) /\ Healthy(r, j, ts) /\ r.phase \in {"executing", "joined"}
      BY <1>2, <2>2
    <3>2. T[j] = [r EXCEPT !.phase = "done", !.outcome = outcome]
      BY <1>2, <2>2
    <3> HIDE DEF r, T
    <3>3. T[j] = [requests |-> r.requests, disk |-> r.disk, phase |-> "done",
                  outcome |-> outcome, owner |-> r.owner]
      BY <3>1, <3>2 DEF Records
    <3>4. T[j] \in Records(Len(ts), R)
      BY <3>1, <3>3 DEF Records, Phases, Outcomes
    <3>5. Healthy(T[j], j, ts)
      BY <3>1, <3>3 DEF Healthy
    <3>6. QED
      BY <3>1, <3>4, <3>5 DEF r
  <2>3. QED
    BY <2>1, <2>2
<1>4. T \in [1..Len(ts) -> Records(Len(ts), R)]
  <2>1. DOMAIN T = 1..Len(ts) /\ T = [j \in DOMAIN T |-> T[j]]
    BY <1>2
  <2> HIDE DEF T
  <2>2. QED
    BY <1>3, <2>1
<1> HIDE DEF T
<1>5. InLine(st.line, T)
  <2>1. \A k \in 1..Len(st.line) : st.line[k] \in 1..Len(ts)
    BY <1>2, ElementOfSeq
  <2>2. QED
    BY <1>2, <1>3, <2>1 DEF InLine
<1>6. [tasks |-> T, line |-> st.line] \in States(ts, R)
  BY <1>2, <1>3, <1>4, <1>5, Replaced
<1>7. [st EXCEPT !.tasks = T] = [tasks |-> T, line |-> st.line]
  BY <1>2
<1>8. QED
  BY <1>1, <1>6, <1>7

\* What is defined begins with no outcome, no owner and nobody in line.
LEMMA FreshState ==
  ASSUME NEW R, NEW ts \in Seq(Fresh(R))
  PROVE  [tasks |-> ts, line |-> << >>] \in States(ts, R)
<1>1. /\ Len(ts) \in Nat /\ ts \in [1..Len(ts) -> Fresh(R)]
      /\ << >> \in Seq(1..Len(ts)) /\ Len(<< >>) = 0
  BY LenProperties, EmptySeq
<1>2. \A i \in 1..Len(ts) : ts[i] \in Records(Len(ts), R) /\ Healthy(ts[i], i, ts)
  <2> SUFFICES ASSUME NEW i \in 1..Len(ts)
               PROVE  ts[i] \in Records(Len(ts), R) /\ Healthy(ts[i], i, ts)
    OBVIOUS
  <2> DEFINE r == ts[i]
  <2>1. /\ r \in [requests : Seq(R), disk : BOOLEAN, phase : {"remaining"},
                  outcome : {"none"}, owner : {0}]
    BY <1>1 DEF Fresh
  <2>2. 0 \in 0..Len(ts)
    BY <1>1
  <2> HIDE DEF r
  <2>3. r \in Records(Len(ts), R)
    BY <2>1, <2>2 DEF Records, Phases, Outcomes
  <2>4. r.phase = "remaining" /\ r.outcome = "none" /\ r.owner = 0
    BY <2>1
  <2>5. r.requests = ts[i].requests
    BY DEF r
  <2>6. Healthy(r, i, ts)
    BY <2>4, <2>5 DEF Healthy
  <2>7. QED
    BY <2>3, <2>6 DEF r
<1>3. ts \in [1..Len(ts) -> Records(Len(ts), R)]
  BY <1>1, <1>2
<1>4. InLine(<< >>, ts)
  BY <1>1 DEF InLine
<1>5. QED
  BY <1>1, <1>2, <1>3, <1>4, Replaced

-----------------------------------------------------------------------------
(* The inductive invariant of the scheduler, and the theorem.              *)

TaskInv ==
  /\ pc \in {"running", "done"} =>
       [tasks |-> tasks, line |-> line] \in States(Defined, Range(decision))
  /\ pc = "done" => \A i \in DOMAIN tasks : tasks[i].phase = "done"
  /\ pc = "thrown" =>
       \E i, j \in 1..Len(Defined) : i # j /\ TaskId(Defined[i]) = TaskId(Defined[j])

LEMMA ContinueKept ==
  ASSUME NEW R, NEW ts, Len(ts) \in Nat, NEW st \in States(ts, R), Continue(st)
  PROVE  /\ [tasks |-> tasks', line |-> line'] \in States(ts, R)
         /\ pc' \in {"running", "done"}
         /\ pc' = "done" => \A i \in DOMAIN tasks' : tasks'[i].phase = "done"
<1> DEFINE now == Pass(st)
<1>1. now \in States(ts, R)
  BY PassKept
<1>2. /\ tasks' = now.tasks /\ line' = now.line
      /\ pc' = IF \A i \in DOMAIN now.tasks : now.tasks[i].phase = "done"
               THEN "done" ELSE "running"
  BY DEF Continue
<1> HIDE DEF now
<1>3. [tasks |-> now.tasks, line |-> now.line] \in States(ts, R)
  BY <1>1, StateFacts
<1>4. QED
  BY <1>2, <1>3

LEMMA DefinedStays ==
  ASSUME plan' = plan
  PROVE  Defined' = Defined
BY DEF Defined, Batches, Singles, Stats

LEMMA TaskStep == PlanInv /\ TaskInv /\ [Next]_vars => TaskInv'
<1> SUFFICES ASSUME PlanInv, TaskInv, [Next]_vars PROVE TaskInv'
  OBVIOUS
<1> DEFINE R == Range(decision)
           ts == Defined
<1>1. plan.requests \in Seq(R)
  BY DEF PlanInv, Sound, Plans
<1>2. ts \in Seq(Fresh(R)) /\ Len(ts) \in Nat /\ DOMAIN ts = 1..Len(ts)
  <2>1. ts \in Seq(Fresh(R))
    BY <1>1, DefinedShape
  <2> HIDE DEF ts, R
  <2>2. QED
    BY <2>1, LenProperties
<1> HIDE DEF ts, R
<1>3. CASE Compile
  BY <1>3 DEF Compile, TaskInv
<1>4. ASSUME plan' = plan, decision' = decision, pc' \in {"running", "done"},
             [tasks |-> tasks', line |-> line'] \in States(ts, R),
             pc' = "done" => \A i \in DOMAIN tasks' : tasks'[i].phase = "done"
      PROVE  TaskInv'
  <2>1. Defined' = ts /\ Range(decision)' = R
    BY <1>4, DefinedStays DEF ts, R
  <2>2. ([tasks |-> tasks, line |-> line] \in States(Defined, Range(decision)))'
    BY <1>4, <2>1
  <2>3. pc' # "thrown"
    BY <1>4
  <2>4. QED
    BY <1>4, <2>2, <2>3 DEF TaskInv
<1>5. CASE Schedule
  <2>1. plan' = plan /\ decision' = decision
    BY <1>5 DEF Schedule
  <2>2. CASE \E i, j \in DOMAIN ts : i # j /\ TaskId(ts[i]) = TaskId(ts[j])
    <3>1. pc' = "thrown"
      BY <1>5, <2>2 DEF Schedule, ts, Defined
    <3>2. Defined' = ts
      BY <2>1, DefinedStays DEF ts
    <3>3. QED
      BY <1>2, <2>2, <3>1, <3>2 DEF TaskInv
  <2>3. CASE ~\E i, j \in DOMAIN ts : i # j /\ TaskId(ts[i]) = TaskId(ts[j])
    <3> DEFINE st == [tasks |-> ts, line |-> << >>]
    <3>1. Continue(st)
      BY <1>5, <2>3 DEF Schedule, ts, Defined
    <3>2. st \in States(ts, R)
      BY <1>2, FreshState
    <3> HIDE DEF st
    <3>3. QED
      BY <1>2, <1>4, <2>1, <3>1, <3>2, ContinueKept
  <2>4. QED
    BY <2>2, <2>3
<1>6. ASSUME NEW i \in 1..MaxRequests, NEW outcome \in {"value", "error"}, Settle(i, outcome)
      PROVE  TaskInv'
  <2> DEFINE st == [tasks |-> tasks, line |-> line]
             settled == Settled(st, i, outcome)
             handed == Handed(settled, i)
  <2>1. /\ plan' = plan /\ decision' = decision /\ pc = "running" /\ i \in DOMAIN tasks
        /\ Continue(handed)
    BY <1>6 DEF Settle
  <2>2. st \in States(ts, R)
    BY <2>1 DEF TaskInv, ts, R
  <2>3. i \in 1..Len(ts)
    BY <2>1, <2>2 DEF States
  <2> HIDE DEF st
  <2>4. settled \in States(ts, R)
    BY <2>2, <2>3, SettledKept
  <2> HIDE DEF settled
  <2>5. handed \in States(ts, R)
    BY <2>3, <2>4, HandedKept
  <2> HIDE DEF handed
  <2>6. QED
    BY <1>2, <1>4, <2>1, <2>5, ContinueKept
<1>7. CASE UNCHANGED <<pc, decision, plan, tasks, line>>
  <2>1. Defined' = Defined
    BY <1>7, DefinedStays
  <2>2. QED
    BY <1>7, <2>1 DEF TaskInv
<1>8. QED
  BY <1>3, <1>5, <1>6, <1>7 DEF Next, Expire, Terminated, vars

LEMMA TaskInvariant == Spec => []TaskInv
<1>1. Spec => Init /\ [][Next]_vars
  BY DEF Spec
<1>2. Init => TaskInv
  BY DEF Init, TaskInv
<1>3. QED
  BY <1>1, <1>2, PlanInvariant, TaskStep, PTL

\* When nobody shares an execution, what has a value has its own.
LEMMA DoneReports ==
  ASSUME PlanInv, TaskInv, pc = "done", ~Sharing
  PROVE  /\ DOMAIN tasks = 1..Len(Defined)
         /\ \A i \in 1..Len(Defined) : Reported(tasks[i]) = Defined[i].requests
<1> DEFINE R == Range(decision)
           ts == Defined
           st == [tasks |-> tasks, line |-> line]
<1>1. st \in States(ts, R)
  BY DEF TaskInv
<1>2. /\ DOMAIN tasks = 1..Len(ts)
      /\ \A i \in 1..Len(ts) : Healthy(tasks[i], i, ts) /\ tasks[i] \in Records(Len(ts), R)
  <2>1. st.tasks = tasks
    OBVIOUS
  <2> HIDE DEF st, R, ts
  <2>2. QED
    BY <1>1, <2>1, StateFacts
<1> HIDE DEF st, R, ts
<1>3. ASSUME NEW i \in 1..Len(ts) PROVE Reported(tasks[i]) = ts[i].requests
  <2>1. tasks[i].requests = ts[i].requests /\ tasks[i].outcome # "none"
    <3>1. tasks[i].phase = "done"
      BY <1>2 DEF TaskInv
    <3>2. QED
      BY <1>2, <3>1 DEF Healthy
  <2>2. CASE tasks[i].outcome = "value"
    <3> DEFINE j == tasks[i].owner
    <3>1. j \in 1..Len(ts) /\ CacheKey(ts[j]) = CacheKey(ts[i])
      <4>1. j # 0 /\ CacheKey(ts[j]) = CacheKey(ts[i])
        BY <1>2, <2>2 DEF Healthy
      <4>2. j \in 0..Len(ts)
        BY <1>2 DEF Records
      <4> HIDE DEF j
      <4>3. QED
        BY <4>1, <4>2
    <3> HIDE DEF j
    <3>2. CacheKey(tasks[j]) = CacheKey(tasks[i])
      <4>1. tasks[j].requests = ts[j].requests
        BY <1>2, <3>1 DEF Healthy
      <4>2. QED
        BY <2>1, <3>1, <4>1 DEF CacheKey
    <3>3. j = i
      BY <1>2, <3>1, <3>2 DEF Sharing
    <3>4. QED
      BY <2>1, <2>2, <3>3 DEF Reported, j
  <2>3. CASE tasks[i].outcome # "value"
    BY <2>1, <2>3 DEF Reported
  <2>4. QED
    BY <2>2, <2>3
<1>4. QED
  BY <1>2, <1>3 DEF ts

\* Two tasks of one id have a request of one id.
LEMMA ThrownRepeats ==
  ASSUME PlanInv, TaskInv, pc = "thrown"
  PROVE  ~Distinct
<1> DEFINE R == Range(decision)
<1>1. plan.requests \in Seq(R)
  BY DEF PlanInv, Sound, Plans
<1>2. PICK i \in 1..Len(Defined), j \in 1..Len(Defined) :
             i # j /\ TaskId(Defined[i]) = TaskId(Defined[j])
  BY DEF TaskInv
<1>3. ASSUME NEW k \in 1..Len(Defined)
      PROVE  /\ 1 \in 1..Len(Defined[k].requests)
             /\ DOMAIN Defined[k].requests = 1..Len(Defined[k].requests)
  <2>1. Defined[k] \in Fresh(R)
    BY <1>1, DefinedShape, ElementOfSeq
  <2>2. Defined[k].requests \in Seq(R) /\ Len(Defined[k].requests) # 0
    BY <2>1 DEF Fresh
  <2>3. QED
    BY <2>2, LenProperties
<1>4. Ids(Defined[i].requests) = Ids(Defined[j].requests)
  BY <1>2 DEF TaskId
<1>5. Ids(Defined[i].requests)[1] = Defined[i].requests[1].id
      /\ Ids(Defined[j].requests)[1] = Defined[j].requests[1].id
  BY <1>3 DEF Ids
<1>6. Defined[i].requests[1].id = Defined[j].requests[1].id
  BY <1>4, <1>5
<1> HIDE DEF R
<1>7. QED
  BY <1>1, <1>2, <1>3, <1>6, HandledOnce

\* Whatever fails, joins or is cut off by the deadline, each request of a plan
\* whose ids differ has exactly one result once the round is over, provided no two
\* tasks have one key of execution: the batches and the singles divide the plan
\* between them, and every task ends with an outcome.  The round throws for tasks
\* of one id only, which differing ids rule out.
THEOREM Reply == Spec => []RequestsAnswered
<1>1. PlanInv /\ TaskInv => RequestsAnswered
  <2> SUFFICES ASSUME PlanInv, TaskInv PROVE RequestsAnswered
    OBVIOUS
  <2>1. ASSUME pc = "done", Distinct, ~Sharing PROVE Answered
    <3>1. plan.requests \in Seq(Range(decision))
      BY DEF PlanInv, Sound, Plans
    <3>2. QED
      BY <2>1, <3>1, DoneReports, AllReported
  <2>2. QED
    BY <2>1, ThrownRepeats DEF RequestsAnswered
<1>2. QED
  BY <1>1, PlanInvariant, TaskInvariant, PTL

=============================================================================
