------------------------ MODULE BatchIsolationProofs ------------------------
(***************************************************************************)
(* What isolating the objects of a batch guarantees for a batch of any     *)
(* size, any answers of the host and any number of objects that change     *)
(* while it runs.                                                          *)
(***************************************************************************)
EXTENDS BatchIsolation, SequenceTheorems, FiniteSetTheorems, WellFoundedInduction,
        TLAPS

-----------------------------------------------------------------------------
(* Recursive functions on the naturals.                                    *)

Less == {p \in Nat \X Nat : p[1] < p[2]}

\* A nonempty set of naturals has a first element.
LEMMA FirstOf ==
  ASSUME NEW T \in SUBSET Nat, T # {}
  PROVE  \E x \in T : \A y \in T : x <= y
<1>1. IsWellFoundedOn(Less, Nat)
  BY NatLessThanWellFounded DEF OpToRel, Less
<1>2. \E x \in T : \A y \in T : ~(<<y, x>> \in Less)
  BY <1>1, WFMin, Zenon
<1>3. PICK x \in T : \A y \in T : <<y, x>> \notin Less
  BY <1>2
<1>4. ASSUME NEW y \in T PROVE x <= y
  <2>1. ~(y < x)
    BY <1>3 DEF Less
  <2>2. QED
    BY <2>1
<1>5. QED
  BY <1>4

\* A property of 0 that is handed on from each number to the next holds of all.
LEMMA Upwards ==
  ASSUME NEW n \in Nat, NEW Good, 0 \in Good,
         \A k \in 1..n : k - 1 \in Good => k \in Good
  PROVE  \A k \in 0..n : k \in Good
<1> DEFINE Bad == {k \in 0..n : k \notin Good}
<1>1. SUFFICES ASSUME Bad # {} PROVE FALSE
  OBVIOUS
<1>2. Bad \in SUBSET Nat
  OBVIOUS
<1>3. PICK k \in Bad : \A j \in Bad : k <= j
  BY <1>1, <1>2, FirstOf
<1>4. k \in 1..n /\ k - 1 \in 0..n
  BY <1>3
<1>5. k - 1 \notin Bad
  BY <1>3, <1>4
<1>6. QED
  BY <1>3, <1>4, <1>5

\* The results that a loop of n turns may have, turn by turn.
Results(n, S, start, turn) ==
  {g \in [0..n -> S] : g[0] = start /\ \A k \in 1..n : g[k] = turn[k][g[k - 1]]}

LEMMA Iteration ==
  ASSUME NEW n \in Nat, NEW S, NEW start \in S, NEW turn \in [1..n -> [S -> S]]
  PROVE  Results(n, S, start, turn) # {}
<1> DEFINE Run(g, m) == g[0] = start /\ \A k \in 1..m : g[k] = turn[k][g[k - 1]]
           Good == {m \in 0..n : \E g \in [0..m -> S] : Run(g, m)}
<1>1. 0 \in Good
  <2> DEFINE g == [k \in 0..0 |-> start]
  <2>1. Run(g, 0) /\ g \in [0..0 -> S]
    OBVIOUS
  <2> HIDE DEF Run, g
  <2>2. QED
    BY <2>1
<1>2. ASSUME NEW m \in 1..n, m - 1 \in Good PROVE m \in Good
  <2>1. PICK g \in [0..m - 1 -> S] : Run(g, m - 1)
    BY <1>2
  <2> DEFINE next == turn[m][g[m - 1]]
             h == [k \in 0..m |-> IF k = m THEN next ELSE g[k]]
  <2>2. next \in S /\ h \in [0..m -> S]
    OBVIOUS
  <2>3. Run(h, m)
    <3>1. h[0] = start
      BY <2>1
    <3>2. ASSUME NEW k \in 1..m PROVE h[k] = turn[k][h[k - 1]]
      <4>1. h[k - 1] = g[k - 1]
        OBVIOUS
      <4>2. CASE k = m
        <5>1. h[k] = turn[m][g[m - 1]]
          BY <4>2
        <5>2. QED
          BY <4>1, <4>2, <5>1
      <4>3. CASE k # m
        <5>1. h[k] = g[k] /\ k \in 1..m - 1
          BY <4>3
        <5>2. g[k] = turn[k][g[k - 1]]
          BY <2>1, <5>1
        <5>3. QED
          BY <4>1, <5>1, <5>2
      <4>4. QED
        BY <4>2, <4>3
    <3>3. QED
      BY <3>1, <3>2
  <2> HIDE DEF Run, h
  <2>4. QED
    BY <2>2, <2>3
<1>3. n \in Good
  <2> HIDE DEF Good
  <2>1. \A k \in 0..n : k \in Good
    BY <1>1, <1>2, Upwards
  <2>2. QED
    BY <2>1
<1>4. QED
  BY <1>3 DEF Results

-----------------------------------------------------------------------------
(* Batches.                                                                *)

\* A batch of at most m objects, none of them twice.
Batch(b, m) ==
  /\ b \in Seq(Objects)
  /\ b # << >>
  /\ Len(b) <= m
  /\ \A i, j \in DOMAIN b : b[i] = b[j] => i = j

\* Batches that share no object.
Apart(list) ==
  \A i, j \in DOMAIN list : i # j => Range(list[i]) \cap Range(list[j]) = {}

Batches(list, m) ==
  /\ list \in Seq(Seq(Objects))
  /\ \A i \in DOMAIN list : Batch(list[i], m)
  /\ Apart(list)

Objectset(list) == {o \in Objects : \E i \in DOMAIN list : o \in Range(list[i])}

LEMMA BatchFacts ==
  ASSUME NEW m \in Nat, NEW b, Batch(b, m)
  PROVE  /\ Len(b) \in 1..m
         /\ DOMAIN b = 1..Len(b)
         /\ Range(b) \subseteq Objects
         /\ Range(b) = {b[k] : k \in 1..Len(b)}
<1>1. b \in Seq(Objects) /\ b # << >> /\ Len(b) <= m
  BY DEF Batch
<1>2. Len(b) \in Nat /\ DOMAIN b = 1..Len(b) /\ b \in [1..Len(b) -> Objects]
  BY <1>1, LenProperties
<1>3. Len(b) # 0
  BY <1>1, EmptySeq
<1>4. QED
  BY <1>1, <1>2, <1>3 DEF Range

\* The loop that collects the missing objects.
LEMMA MissingFacts ==
  ASSUME NEW m \in Nat, NEW b, Batch(b, m)
  PROVE  /\ Missing(b) = << >> \/ Batch(Missing(b), Len(b))
         /\ Range(Missing(b)) = Range(b) \ Found(b)
<1> DEFINE n == Len(b)
           S == Seq(Objects)
           turn == [k \in 1..n |-> [s \in S |->
                     IF b[k] \in Found(b) THEN s ELSE Append(s, b[k])]]
<1>1. n \in Nat /\ n \in 1..m /\ DOMAIN b = 1..n
      /\ (\A k \in 1..n : b[k] \in Objects) /\ << >> \in S
      /\ (\A i, j \in 1..n : b[i] = b[j] => i = j)
  <2>1. b \in [1..n -> Objects]
    BY LenProperties DEF Batch
  <2>2. QED
    BY <2>1, BatchFacts, EmptySeq DEF Batch
<1>2. turn \in [1..n -> [S -> S]]
  <2>1. ASSUME NEW k \in 1..n, NEW s \in S
        PROVE  (IF b[k] \in Found(b) THEN s ELSE Append(s, b[k])) \in S
    BY <1>1, AppendProperties
  <2> HIDE DEF S
  <2>2. QED
    BY <2>1
<1>3. PICK g \in [0..n -> S] :
        g[0] = << >> /\ \A k \in 1..n : g[k] = turn[k][g[k - 1]]
  <2> HIDE DEF n, S, turn
  <2>1. Results(n, S, << >>, turn) # {}
    BY <1>1, <1>2, Iteration
  <2>2. QED
    BY <2>1 DEF Results
<1>4. \A k \in 1..n : g[k] = IF b[k] \in Found(b) THEN g[k - 1]
                             ELSE Append(g[k - 1], b[k])
  <2>1. ASSUME NEW k \in 1..n PROVE g[k - 1] \in S
    BY <1>1
  <2> HIDE DEF S
  <2>2. QED
    BY <1>3, <2>1
<1> DEFINE Equation(f) ==
             f = [k \in 0..Len(b) |->
                   IF k = 0 THEN << >>
                   ELSE IF b[k] \in Found(b) THEN f[k - 1]
                   ELSE Append(f[k - 1], b[k])]
           f0 == CHOOSE f : Equation(f)
<1>5. Missing(b) = f0[Len(b)]
  BY Zenon DEF Missing
<1>6. Equation(g)
  <2>1. ASSUME NEW k \in 0..n
        PROVE  g[k] = IF k = 0 THEN << >>
                      ELSE IF b[k] \in Found(b) THEN g[k - 1]
                      ELSE Append(g[k - 1], b[k])
    <3>1. CASE k = 0
      BY <1>3, <3>1
    <3>2. CASE k \in 1..n
      <4> HIDE DEF S, turn, n
      <4>1. k # 0
        BY <3>2
      <4>2. QED
        BY <1>4, <3>2, <4>1
    <3>3. QED
      BY <1>1, <3>1, <3>2
  <2> HIDE DEF S
  <2>2. g = [k \in 0..n |-> g[k]]
    BY <1>3
  <2>3. QED
    BY <2>1, <2>2
<1>7. Equation(f0)
  <2> HIDE DEF Equation
  <2>1. QED
    BY <1>6, Zenon
<1> HIDE DEF f0, turn
<1>8. f0[0] = << >> /\ \A k \in 1..n : f0[k] = IF b[k] \in Found(b) THEN f0[k - 1]
                                              ELSE Append(f0[k - 1], b[k])
  <2>1. ASSUME NEW k \in 0..n
        PROVE  f0[k] = IF k = 0 THEN << >>
                       ELSE IF b[k] \in Found(b) THEN f0[k - 1]
                       ELSE Append(f0[k - 1], b[k])
    BY <1>7
  <2>2. QED
    BY <1>1, <2>1
<1> HIDE DEF Equation
<1> DEFINE Fine(k) ==
             /\ f0[k] \in S
             /\ Len(f0[k]) <= k
             /\ Range(f0[k]) = {b[i] : i \in 1..k} \ Found(b)
             /\ \A i, j \in DOMAIN f0[k] : f0[k][i] = f0[k][j] => i = j
           Good == {k \in 0..n : Fine(k)}
<1>9. 0 \in Good
  <2>1. Len(<< >>) = 0 /\ << >> \in S /\ DOMAIN << >> = {}
    BY EmptySeq
  <2>2. Range(<< >>) = {}
    BY <2>1 DEF Range
  <2>3. {b[i] : i \in 1..0} = {}
    OBVIOUS
  <2> HIDE DEF S
  <2>4. Fine(0)
    BY <1>8, <2>1, <2>2, <2>3
  <2>5. QED
    BY <1>1, <2>4
<1>10. ASSUME NEW k \in 1..n, k - 1 \in Good PROVE k \in Good
  <2> DEFINE s == f0[k - 1]
  <2>1. Fine(k - 1) /\ s \in S /\ Len(s) \in Nat /\ DOMAIN s = 1..Len(s) /\ Len(s) <= k - 1
    BY <1>10, LenProperties
  <2>2. b[k] \in Objects /\ {b[i] : i \in 1..k} = {b[i] : i \in 1..k - 1} \cup {b[k]}
    BY <1>1
  <2>3. CASE b[k] \in Found(b)
    <3>1. f0[k] = s
      BY <1>8, <2>3
    <3>2. {b[i] : i \in 1..k} \ Found(b) = {b[i] : i \in 1..k - 1} \ Found(b)
      BY <2>2, <2>3
    <3> HIDE DEF S
    <3>3. f0[k] \in S /\ Len(f0[k]) <= k
      BY <2>1, <3>1
    <3>4. Range(f0[k]) = {b[i] : i \in 1..k} \ Found(b)
      BY <2>1, <3>1, <3>2
    <3>5. \A i, j \in DOMAIN f0[k] : f0[k][i] = f0[k][j] => i = j
      BY <2>1, <3>1
    <3> HIDE DEF s
    <3>6. Fine(k)
      BY <3>3, <3>4, <3>5
    <3>7. QED
      BY <3>6
  <2>4. CASE b[k] \notin Found(b)
    <3> DEFINE t == Append(s, b[k])
    <3>1. f0[k] = t
      BY <1>8, <2>4
    <3>2. /\ t \in S /\ Len(t) = Len(s) + 1
          /\ \A i \in 1..Len(s) : t[i] = s[i]
          /\ t[Len(s) + 1] = b[k]
      BY <2>1, <2>2, AppendProperties
    <3>3. DOMAIN t = 1..Len(s) + 1
      BY <3>2, LenProperties
    <3> HIDE DEF t, S
    <3>4. Range(t) = Range(s) \cup {b[k]}
      <4>1. \A i \in 1..Len(s) : t[i] \in Range(s)
        BY <2>1, <3>2 DEF Range
      <4>2. Range(t) \subseteq Range(s) \cup {b[k]}
        BY SMTT(30), <2>1, <3>2, <3>3, <4>1 DEF Range
      <4>3. Range(s) \subseteq Range(t)
        BY <2>1, <3>2, <3>3 DEF Range
      <4>4. b[k] \in Range(t)
        BY <2>1, <3>2, <3>3 DEF Range
      <4>5. QED
        BY <4>2, <4>3, <4>4
    <3>5. Range(t) = {b[i] : i \in 1..k} \ Found(b)
      BY <2>1, <2>2, <2>4, <3>4
    <3>6. b[k] \notin Range(s)
      <4>1. \A i \in 1..k - 1 : b[i] # b[k]
        BY <1>1
      <4>2. QED
        BY <2>1, <4>1
    <3>7. ASSUME NEW i \in DOMAIN t, NEW j \in DOMAIN t, t[i] = t[j] PROVE i = j
      <4>1. \A x \in 1..Len(s) : t[x] \in Range(s)
        BY <2>1, <3>2 DEF Range
      <4>2. QED
        <5>1. CASE i \in 1..Len(s) /\ j \in 1..Len(s)
          BY <2>1, <3>2, <3>7, <5>1
        <5>2. CASE i = Len(s) + 1 /\ j \in 1..Len(s)
          BY <3>2, <3>6, <3>7, <4>1, <5>2
        <5>3. CASE j = Len(s) + 1 /\ i \in 1..Len(s)
          BY <3>2, <3>6, <3>7, <4>1, <5>3
        <5>4. QED
          BY <2>1, <3>3, <5>1, <5>2, <5>3
    <3>8. Fine(k)
      BY <2>1, <3>1, <3>2, <3>5, <3>7
    <3>9. QED
      BY <3>8
  <2>5. QED
    BY <2>3, <2>4
<1>11. Fine(n)
  <2> HIDE DEF Good
  <2>1. \A k \in 0..n : k \in Good
    BY <1>1, <1>9, <1>10, Upwards
  <2>2. n \in Good
    BY <1>1, <2>1
  <2> USE DEF Good
  <2> HIDE DEF Fine
  <2>3. QED
    BY <2>2
<1>12. Range(b) = {b[i] : i \in 1..n}
  BY BatchFacts
<1>13. QED
  BY <1>5, <1>11, <1>12 DEF Batch

\* The list of at most two batches.
LEMMA TwoBatches ==
  ASSUME NEW m \in Nat, NEW a, Batch(a, m), NEW b, Batch(b, m),
         Range(a) \cap Range(b) = {}
  PROVE  /\ Batches(<<a, b>>, m)
         /\ Objectset(<<a, b>>) = Range(a) \cup Range(b)
<1> DEFINE two == <<a, b>>
<1>1. a \in Seq(Objects) /\ b \in Seq(Objects)
  BY DEF Batch
<1> HIDE DEF Objects
<1>2. two \in Seq(Seq(Objects)) /\ DOMAIN two = {1, 2} /\ two[1] = a /\ two[2] = b
  BY <1>1
<1> HIDE DEF two
<1>3. Batches(two, m)
  <2>1. \A i \in DOMAIN two : Batch(two[i], m)
    BY <1>2
  <2>2. ASSUME NEW i \in DOMAIN two, NEW j \in DOMAIN two, i # j
        PROVE  Range(two[i]) \cap Range(two[j]) = {}
    BY <1>2, <2>2
  <2>3. QED
    BY <1>2, <2>1, <2>2 DEF Batches, Apart
<1>4. Objectset(two) = Range(a) \cup Range(b)
  <2>1. Range(a) \subseteq Objects /\ Range(b) \subseteq Objects
    BY BatchFacts
  <2>2. QED
    BY <1>2, <2>1 DEF Objectset
<1>5. QED
  BY <1>3, <1>4 DEF two

LEMMA OneBatch ==
  ASSUME NEW m \in Nat, NEW a, Batch(a, m)
  PROVE  Batches(<<a>>, m) /\ Objectset(<<a>>) = Range(a) /\ Len(<<a>>) = 1
<1> DEFINE one == <<a>>
<1>1. a \in Seq(Objects)
  BY DEF Batch
<1> HIDE DEF Objects
<1>2. one \in Seq(Seq(Objects)) /\ DOMAIN one = {1} /\ one[1] = a /\ Len(one) = 1
  BY <1>1
<1> HIDE DEF one
<1>3. Range(a) \subseteq Objects
  BY BatchFacts
<1>4. QED
  <2>1. Batches(one, m)
    BY <1>2 DEF Batches, Apart
  <2>2. Objectset(one) = Range(a)
    BY <1>2, <1>3 DEF Objectset
  <2>3. QED
    BY <1>2, <2>1, <2>2 DEF one

LEMMA NoBatch ==
  ASSUME NEW m \in Nat
  PROVE  Batches(<< >>, m) /\ Objectset(<< >>) = {} /\ Len(<< >>) = 0
<1>1. << >> \in Seq(Seq(Objects)) /\ Len(<< >>) = 0 /\ DOMAIN << >> = {}
  BY EmptySeq
<1>2. QED
  BY <1>1 DEF Batches, Apart, Objectset

\* The halves of several objects are batches, and share them out between them.
LEMMA HalvesFacts ==
  ASSUME NEW m \in Nat, NEW b, Batch(b, m), Len(b) > 1
  PROVE  /\ Batches(Halves(b), (Len(b) + 1) \div 2)
         /\ Objectset(Halves(b)) = Range(b)
         /\ Len(Halves(b)) = 2
         /\ (Len(b) + 1) \div 2 <= Len(b)
<1> DEFINE n == Len(b)
           middle == (n + 1) \div 2
           first == SubSeq(b, 1, middle)
           second == SubSeq(b, middle + 1, n)
<1>1. /\ n \in Nat /\ n > 1 /\ DOMAIN b = 1..n
      /\ Range(b) = {b[k] : k \in 1..n}
      /\ \A k \in 1..n : b[k] \in Objects
      /\ \A i, j \in 1..n : b[i] = b[j] => i = j
  <2>1. b \in [1..n -> Objects]
    BY LenProperties DEF Batch
  <2>2. QED
    BY <2>1, BatchFacts DEF Batch
<1>2. middle \in 1..n - 1 /\ n - middle \in 1..middle
  BY <1>1
<1> HIDE DEF n, middle, Objects
<1>3. /\ first \in Seq(Objects) /\ Len(first) = middle
      /\ \A i \in 1..middle : first[i] = b[i]
  <2>1. \A i \in 1..middle : b[i] \in Objects
    BY <1>1, <1>2
  <2> HIDE DEF first
  <2>2. first \in Seq(Objects) /\ Len(first) = IF 1 <= middle THEN middle - 1 + 1 ELSE 0
    BY <1>1, <1>2, <2>1, SubSeqProperties DEF first
  <2>3. \A i \in 1..middle - 1 + 1 : first[i] = b[1 + i - 1]
    BY <1>1, <1>2, <2>1, SubSeqProperties DEF first
  <2>4. QED
    BY <1>1, <1>2, <2>2, <2>3
<1>4. /\ second \in Seq(Objects) /\ Len(second) = n - middle
      /\ \A i \in 1..n - middle : second[i] = b[middle + i]
  <2>1. \A i \in middle + 1..n : b[i] \in Objects
    BY <1>1, <1>2
  <2> HIDE DEF second
  <2>2. second \in Seq(Objects)
        /\ Len(second) = IF middle + 1 <= n THEN n - (middle + 1) + 1 ELSE 0
    BY <1>1, <1>2, <2>1, SubSeqProperties DEF second
  <2>3. \A i \in 1..n - (middle + 1) + 1 : second[i] = b[middle + 1 + i - 1]
    BY <1>1, <1>2, <2>1, SubSeqProperties DEF second
  <2>4. ASSUME NEW i \in 1..n - middle PROVE second[i] = b[middle + i]
    <3>1. middle + 1 + i - 1 = middle + i /\ i \in 1..n - (middle + 1) + 1
      BY <1>1, <1>2
    <3>2. QED
      BY <2>3, <3>1
  <2>5. QED
    BY <1>1, <1>2, <2>2, <2>4
<1> HIDE DEF first, second
<1>5. DOMAIN first = 1..middle /\ DOMAIN second = 1..n - middle
  BY <1>3, <1>4, LenProperties
<1>6. first # << >> /\ second # << >>
  BY <1>2, <1>3, <1>4, EmptySeq
<1>7. Batch(first, middle)
  <2>1. \A i, j \in DOMAIN first : first[i] = first[j] => i = j
    BY <1>1, <1>2, <1>3, <1>5
  <2>2. QED
    BY <1>2, <1>3, <1>6, <2>1 DEF Batch
<1>8. Batch(second, middle)
  <2>1. \A i, j \in DOMAIN second : second[i] = second[j] => i = j
    BY <1>1, <1>2, <1>4, <1>5
  <2>2. QED
    BY <1>2, <1>4, <1>6, <2>1 DEF Batch
<1>9. Range(first) \cap Range(second) = {}
  <2>1. ASSUME NEW i \in DOMAIN first, NEW j \in DOMAIN second PROVE first[i] # second[j]
    BY <1>1, <1>2, <1>3, <1>4, <1>5
  <2>2. QED
    BY <2>1 DEF Range
<1>10. Range(first) \cup Range(second) = Range(b)
  <2>1. ASSUME NEW k \in 1..n PROVE b[k] \in Range(first) \cup Range(second)
    <3>1. CASE k <= middle
      BY <1>2, <1>3, <1>5, <3>1 DEF Range
    <3>2. CASE k > middle
      <4>1. k - middle \in DOMAIN second /\ second[k - middle] = b[k]
        BY <1>1, <1>2, <1>4, <1>5, <3>2
      <4>2. QED
        BY <4>1 DEF Range
    <3>3. QED
      BY <1>1, <1>2, <3>1, <3>2
  <2>2. \A i \in DOMAIN first : first[i] \in Range(b)
    BY <1>1, <1>2, <1>3, <1>5
  <2>3. \A i \in DOMAIN second : second[i] \in Range(b)
    BY <1>1, <1>2, <1>4, <1>5
  <2>4. Range(first) \subseteq Range(b) /\ Range(second) \subseteq Range(b)
    BY <2>2, <2>3 DEF Range
  <2>5. Range(b) \subseteq Range(first) \cup Range(second)
    BY <1>1, <2>1
  <2>6. QED
    BY <2>4, <2>5
<1>11. Halves(b) = <<first, second>>
  BY DEF Halves, first, second, middle, n
<1>12. Len(<<first, second>>) = 2
  OBVIOUS
<1>13. middle \in Nat
  BY <1>1, <1>2
<1>14. Batches(<<first, second>>, middle)
       /\ Objectset(<<first, second>>) = Range(first) \cup Range(second)
  BY ONLY <1>7, <1>8, <1>9, <1>13, TwoBatches
<1>15. middle <= n
  BY <1>1, <1>2
<1>16. QED
  BY <1>10, <1>11, <1>12, <1>14, <1>15 DEF n, middle

-----------------------------------------------------------------------------
(* The list of batches to come.                                            *)

LEMMA LargerBatches ==
  ASSUME NEW m \in Nat, NEW n \in Nat, m <= n, NEW list, Batches(list, m)
  PROVE  Batches(list, n)
<1>1. ASSUME NEW b, Batch(b, m) PROVE Batch(b, n)
  <2>1. Len(b) \in 1..m
    BY <1>1, BatchFacts
  <2>2. QED
    BY <1>1, <2>1 DEF Batch
<1>2. QED
  BY <1>1 DEF Batches

\* The first batch gives way to batches of its own objects.
LEMMA HeadReplaced ==
  ASSUME NEW m \in Nat, NEW list, Batches(list, m), list # << >>,
         NEW more, Batches(more, m), Objectset(more) \subseteq Range(Head(list))
  PROVE  /\ Batches(more \o Tail(list), m)
         /\ Len(more \o Tail(list)) = Len(more) + Len(list) - 1
         /\ \A i \in DOMAIN (more \o Tail(list)) :
              \/ i \in DOMAIN more /\ (more \o Tail(list))[i] = more[i]
              \/ /\ i - Len(more) + 1 \in DOMAIN list \ {1}
                 /\ (more \o Tail(list))[i] = list[i - Len(more) + 1]
         /\ \A o \in Objects :
              o \in Objectset(more \o Tail(list)) <=>
                o \in Objectset(more) \/ o \in Objectset(list) \ Range(Head(list))
<1> DEFINE S == Seq(Objects)
           rest == Tail(list)
           whole == more \o rest
           a == Len(more)
           z == Len(list)
<1>1. /\ list \in Seq(S) /\ z \in Nat \ {0} /\ DOMAIN list = 1..z
      /\ more \in Seq(S) /\ a \in Nat /\ DOMAIN more = 1..a
  BY LenProperties, EmptySeq DEF Batches
<1> HIDE DEF S
<1>2. /\ rest \in Seq(S) /\ Len(rest) = z - 1
      /\ \A i \in 1..z - 1 : rest[i] = list[i + 1]
  BY <1>1, HeadTailProperties
<1>3. Head(list) = list[1]
  BY <1>1
<1> HIDE DEF rest
<1>4. /\ whole \in Seq(S) /\ Len(whole) = a + (z - 1)
      /\ \A i \in 1..a + (z - 1) :
           whole[i] = IF i <= a THEN more[i] ELSE rest[i - a]
  <2> HIDE DEF whole
  <2>1. /\ whole \in Seq(S)
        /\ Len(whole) = Len(more) + Len(rest)
        /\ \A i \in 1..Len(more) + Len(rest) :
             whole[i] = IF i <= Len(more) THEN more[i] ELSE rest[i - Len(more)]
    BY <1>1, <1>2, ConcatProperties DEF whole
  <2>2. QED
    BY <1>2, <2>1
<1>5. DOMAIN whole = 1..a + (z - 1)
  BY <1>1, <1>4, LenProperties
<1> HIDE DEF whole, a, z
<1>6. ASSUME NEW i \in DOMAIN whole
      PROVE  \/ i \in DOMAIN more /\ whole[i] = more[i]
             \/ /\ i > a
                /\ i - a + 1 \in DOMAIN list \ {1}
                /\ whole[i] = list[i - a + 1]
  <2>1. CASE i <= a
    BY <1>1, <1>4, <1>5, <2>1
  <2>2. CASE i > a
    <3>1. i - a \in 1..z - 1
      BY <1>1, <1>5, <2>2
    <3>2. whole[i] = rest[i - a]
      BY <1>1, <1>4, <1>5, <2>2
    <3>3. rest[i - a] = list[i - a + 1]
      BY <1>2, <3>1
    <3>4. i - a + 1 \in DOMAIN list \ {1}
      BY <1>1, <3>1
    <3>5. QED
      BY <2>2, <3>2, <3>3, <3>4
  <2>3. QED
    BY <1>1, <1>5, <2>1, <2>2
<1>7. \A i \in DOMAIN more : Range(more[i]) \subseteq Range(list[1])
  <2>1. \A i \in DOMAIN more : Range(more[i]) \subseteq Objects
    BY BatchFacts DEF Batches
  <2>2. QED
    BY <1>3, <2>1 DEF Objectset
<1>8. \A j \in DOMAIN list \ {1} : Range(list[j]) \cap Range(list[1]) = {}
  <2>1. 1 \in DOMAIN list
    BY <1>1
  <2>2. QED
    BY <2>1 DEF Batches, Apart
<1>9. \A i \in DOMAIN whole : Batch(whole[i], m)
  BY <1>6 DEF Batches
<1>10. ASSUME NEW i \in DOMAIN whole, NEW j \in DOMAIN whole, i # j
       PROVE  Range(whole[i]) \cap Range(whole[j]) = {}
  <2>0. i \in Int /\ j \in Int /\ a \in Int
    BY <1>1, <1>5
  <2>1. CASE i \in DOMAIN more /\ whole[i] = more[i] /\ j \in DOMAIN more /\ whole[j] = more[j]
    BY <1>10, <2>1 DEF Batches, Apart
  <2>2. CASE /\ i \in DOMAIN more /\ whole[i] = more[i]
             /\ j - a + 1 \in DOMAIN list \ {1} /\ whole[j] = list[j - a + 1]
    <3>1. Range(more[i]) \subseteq Range(list[1])
      BY <1>7, <2>2
    <3>2. Range(list[j - a + 1]) \cap Range(list[1]) = {}
      BY <1>8, <2>2
    <3>3. QED
      BY <2>2, <3>1, <3>2
  <2>3. CASE /\ j \in DOMAIN more /\ whole[j] = more[j]
             /\ i - a + 1 \in DOMAIN list \ {1} /\ whole[i] = list[i - a + 1]
    <3>1. Range(more[j]) \subseteq Range(list[1])
      BY <1>7, <2>3
    <3>2. Range(list[i - a + 1]) \cap Range(list[1]) = {}
      BY <1>8, <2>3
    <3>3. QED
      BY <2>3, <3>1, <3>2
  <2>4. CASE /\ i - a + 1 \in DOMAIN list /\ whole[i] = list[i - a + 1]
             /\ j - a + 1 \in DOMAIN list /\ whole[j] = list[j - a + 1]
    <3>1. i - a + 1 # j - a + 1
      BY <1>10, <2>0
    <3>2. QED
      BY <2>4, <3>1 DEF Batches, Apart
  <2>5. QED
    BY <1>6, <2>1, <2>2, <2>3, <2>4
<1>11. ASSUME NEW o \in Objects
       PROVE  o \in Objectset(whole) <=>
                o \in Objectset(more) \/ o \in Objectset(list) \ Range(list[1])
  <2>1. ASSUME o \in Objectset(whole)
        PROVE  o \in Objectset(more) \/ o \in Objectset(list) \ Range(list[1])
    <3>1. PICK i \in DOMAIN whole : o \in Range(whole[i])
      BY <2>1 DEF Objectset
    <3>2. CASE i \in DOMAIN more /\ whole[i] = more[i]
      BY <3>1, <3>2 DEF Objectset
    <3>3. CASE i - a + 1 \in DOMAIN list \ {1} /\ whole[i] = list[i - a + 1]
      <4>1. Range(list[i - a + 1]) \cap Range(list[1]) = {}
        BY <1>8, <3>3
      <4>2. QED
        BY <3>1, <3>3, <4>1 DEF Objectset
    <3>4. QED
      BY <1>6, <3>2, <3>3
  <2>2. ASSUME o \in Objectset(more) PROVE o \in Objectset(whole)
    <3>1. PICK i \in DOMAIN more : o \in Range(more[i])
      BY <2>2 DEF Objectset
    <3>2. i \in DOMAIN whole /\ whole[i] = more[i]
      BY <1>1, <1>4, <1>5
    <3>3. QED
      BY <3>1, <3>2 DEF Objectset
  <2>3. ASSUME o \in Objectset(list) \ Range(list[1]) PROVE o \in Objectset(whole)
    <3>1. PICK j \in DOMAIN list : o \in Range(list[j])
      BY <2>3 DEF Objectset
    <3>2. j # 1
      BY <2>3, <3>1
    <3> DEFINE i == j - 1 + a
    <3>3. i \in DOMAIN whole /\ i > a /\ i - a = j - 1 /\ j - 1 \in 1..z - 1
      BY <1>1, <1>5, <3>2
    <3>4. whole[i] = rest[j - 1]
      BY <1>1, <1>4, <1>5, <3>3
    <3>5. rest[j - 1] = list[j]
      BY <1>1, <1>2, <3>3
    <3>6. o \in Range(whole[i])
      BY <3>1, <3>4, <3>5
    <3>7. QED
      BY <3>3, <3>6 DEF Objectset
  <2>4. QED
    BY <2>1, <2>2, <2>3
<1>12. Batches(whole, m)
  BY <1>4, <1>9, <1>10 DEF Batches, Apart, S
<1>13. Len(whole) = a + z - 1
  BY <1>1, <1>4
<1>14. QED
  BY <1>3, <1>6, <1>11, <1>12, <1>13 DEF whole, rest, a, z

-----------------------------------------------------------------------------
(* The inductive invariant.                                                *)

States == {"none", "found", "failed"}

\* The objects without a result are those of the batches to come.
BatchInv ==
  /\ mode \in {"collector", "governed"}
  /\ remote \in [Objects -> Remotes]
  /\ fits \in Objects
  /\ prefix \in BOOLEAN
  /\ expired \in BOOLEAN
  /\ commands \in Nat
  /\ vanished \in Nat
  /\ Batches(todo, N)
  /\ outcome \in [Objects -> States]
  /\ \A o \in Objects : outcome[o] = "none" <=> o \in Objectset(todo)

More(b) == IF Len(b) > 1 THEN FollowUp(b) ELSE << >>

LEMMA HeadIsBatch ==
  ASSUME BatchInv, todo # << >>
  PROVE  /\ Batch(Head(todo), N)
         /\ 1 \in DOMAIN todo /\ Head(todo) = todo[1]
         /\ Len(todo) \in Nat \ {0} /\ DOMAIN todo = 1..Len(todo)
<1>1. todo \in Seq(Seq(Objects)) /\ N \in Nat
  BY BatchAssumption DEF BatchInv, Batches
<1> HIDE DEF Objects
<1>2. Len(todo) \in Nat \ {0} /\ DOMAIN todo = 1..Len(todo) /\ Head(todo) = todo[1]
  BY <1>1, EmptySeq, LenProperties
<1>3. 1 \in DOMAIN todo
  BY <1>2
<1>4. QED
  BY <1>2, <1>3 DEF BatchInv, Batches

\* The calls that follow a command are for the objects it gave no result for.
LEMMA MoreFacts ==
  ASSUME NEW b, Batch(b, N)
  PROVE  /\ Batches(More(b), Len(b))
         /\ Objectset(More(b)) = {o \in Range(b) : Known(o, b) = "none"}
<1>1. N \in Nat /\ Len(b) \in 1..N /\ Range(b) \subseteq Objects
  BY BatchAssumption, BatchFacts
<1>2. CASE Len(b) = 1
  <2>1. More(b) = << >>
    BY <1>2 DEF More
  <2>2. \A o \in Range(b) : Known(o, b) \in {"found", "failed"}
    BY <1>2 DEF Known
  <2>3. {o \in Range(b) : Known(o, b) = "none"} = {}
    BY <2>2
  <2>4. QED
    BY <1>1, <2>1, <2>3, NoBatch
<1>3. CASE Len(b) > 1
  <2>1. More(b) = FollowUp(b)
    BY <1>3 DEF More
  <2>2. \A o \in Range(b) :
          Known(o, b) = "none" <=> ~(Successful(Status(b)) /\ o \in Found(b))
    BY <1>3 DEF Known
  <2>3. /\ Batches(Halves(b), Len(b)) /\ Objectset(Halves(b)) = Range(b)
    <3>1. (Len(b) + 1) \div 2 \in Nat
      BY <1>1
    <3>2. QED
      BY <1>1, <1>3, <3>1, HalvesFacts, LargerBatches
  <2>4. CASE ~Successful(Status(b))
    <3>1. FollowUp(b) = Halves(b)
      BY <2>4 DEF FollowUp
    <3>2. {o \in Range(b) : Known(o, b) = "none"} = Range(b)
      BY <2>2, <2>4
    <3>3. QED
      BY <2>1, <2>3, <3>1, <3>2
  <2>5. CASE Successful(Status(b)) /\ Missing(b) = << >>
    <3>1. FollowUp(b) = << >>
      BY <2>5 DEF FollowUp
    <3>2. Range(b) \ Found(b) = {}
      <4>1. DOMAIN << >> = {}
        BY EmptySeq
      <4>2. Range(<< >>) = {}
        BY <4>1 DEF Range
      <4>3. QED
        BY <1>1, <2>5, <4>2, MissingFacts
    <3>3. {o \in Range(b) : Known(o, b) = "none"} = {}
      BY <2>2, <2>5, <3>2
    <3>4. QED
      BY <1>1, <2>1, <3>1, <3>3, NoBatch
  <2>6. CASE /\ Successful(Status(b)) /\ Missing(b) # << >>
             /\ mode = "collector" /\ Found(b) = {}
    <3>1. FollowUp(b) = Halves(b)
      BY <2>6 DEF FollowUp
    <3>2. {o \in Range(b) : Known(o, b) = "none"} = Range(b)
      BY <2>2, <2>6
    <3>3. QED
      BY <2>1, <2>3, <3>1, <3>2
  <2>7. CASE /\ Successful(Status(b)) /\ Missing(b) # << >>
             /\ ~(mode = "collector" /\ Found(b) = {})
    <3>1. FollowUp(b) = <<Missing(b)>>
      BY <2>7 DEF FollowUp
    <3>2. Batch(Missing(b), Len(b)) /\ Range(Missing(b)) = Range(b) \ Found(b)
      BY <1>1, <2>7, MissingFacts
    <3>3. Batches(<<Missing(b)>>, Len(b)) /\ Objectset(<<Missing(b)>>) = Range(Missing(b))
      BY <1>1, <3>2, OneBatch
    <3>4. {o \in Range(b) : Known(o, b) = "none"} = Range(b) \ Found(b)
      BY <2>2, <2>7
    <3>5. QED
      BY <2>1, <3>1, <3>2, <3>3, <3>4
  <2>8. QED
    BY <2>4, <2>5, <2>6, <2>7
<1>4. Len(b) = 1 \/ Len(b) > 1
  <2> DEFINE l == Len(b)
  <2>1. l \in 1..N
    BY <1>1
  <2> HIDE DEF l
  <2>2. l = 1 \/ l > 1
    BY <1>1, <2>1
  <2>3. QED
    BY <2>2 DEF l
<1>5. QED
  BY <1>2, <1>3, <1>4, Zenon

\* What the list holds after a command, and what it held before.
LEMMA CommandFacts ==
  ASSUME BatchInv, Command
  PROVE  LET b == Head(todo)
         IN  /\ Batches(todo', N)
             /\ Len(todo') = Len(More(b)) + Len(todo) - 1
             /\ \A i \in DOMAIN todo' :
                  \/ i \in DOMAIN More(b) /\ todo'[i] = More(b)[i]
                  \/ /\ i - Len(More(b)) + 1 \in DOMAIN todo \ {1}
                     /\ todo'[i] = todo[i - Len(More(b)) + 1]
             /\ \A o \in Objects :
                  o \in Objectset(todo') <=>
                    \/ o \in Range(b) /\ Known(o, b) = "none"
                    \/ o \in Objectset(todo) \ Range(b)
<1> DEFINE b == Head(todo)
           more == More(b)
           rest == Tail(todo)
<1>1. todo # << >> /\ todo' = more \o rest
  BY DEF Command, More
<1>2. N \in Nat /\ Batch(b, N) /\ Batches(todo, N)
  BY <1>1, BatchAssumption, HeadIsBatch DEF BatchInv
<1>3. Len(b) \in 1..N
  BY <1>2, BatchFacts
<1>4. Batches(more, N) /\ Objectset(more) = {o \in Range(b) : Known(o, b) = "none"}
  <2>1. Len(b) \in Nat /\ Len(b) <= N
    BY <1>2, <1>3
  <2>2. QED
    BY <1>2, <2>1, MoreFacts, LargerBatches
<1>5. Objectset(more) \subseteq Range(b)
  BY <1>4
<1> HIDE DEF more
<1>6. /\ Batches(more \o rest, N)
      /\ Len(more \o rest) = Len(more) + Len(todo) - 1
      /\ \A i \in DOMAIN (more \o rest) :
           \/ i \in DOMAIN more /\ (more \o rest)[i] = more[i]
           \/ /\ i - Len(more) + 1 \in DOMAIN todo \ {1}
              /\ (more \o rest)[i] = todo[i - Len(more) + 1]
      /\ \A o \in Objects :
           o \in Objectset(more \o rest) <=>
             o \in Objectset(more) \/ o \in Objectset(todo) \ Range(b)
  BY <1>1, <1>2, <1>4, <1>5, HeadReplaced
<1>7. \A o \in Objects :
        o \in Objectset(more) <=> o \in Range(b) /\ Known(o, b) = "none"
  BY <1>4
<1> HIDE DEF rest, b
<1>8. QED
  BY <1>1, <1>6, <1>7 DEF b, more

LEMMA BatchInit == Init => BatchInv
<1> SUFFICES ASSUME Init PROVE BatchInv
  OBVIOUS
<1>1. N \in Nat \ {0}
  BY BatchAssumption
<1> DEFINE whole == [i \in Objects |-> i]
<1>2. /\ whole \in Seq(Objects) /\ Len(whole) = N /\ DOMAIN whole = Objects
      /\ \A i \in Objects : whole[i] = i
  BY <1>1 DEF Objects
<1> HIDE DEF whole
<1>3. whole # << >>
  BY <1>1, <1>2, EmptySeq
<1>4. Batch(whole, N)
  BY <1>1, <1>2, <1>3 DEF Batch
<1>5. Range(whole) = Objects
  BY <1>2 DEF Range
<1>6. Batches(<<whole>>, N) /\ Objectset(<<whole>>) = Objects
  BY <1>1, <1>4, <1>5, OneBatch
<1>7. todo = <<whole>>
  BY DEF Init, whole
<1>8. mode \in {"collector", "governed"}
  BY BatchAssumption DEF Init
<1>9. /\ outcome \in [Objects -> States]
      /\ \A o \in Objects : outcome[o] = "none"
  BY DEF Init, States
<1>10. \A o \in Objects : outcome[o] = "none" <=> o \in Objectset(todo)
  BY <1>6, <1>7, <1>9
<1>11. /\ remote \in [Objects -> Remotes] /\ fits \in Objects /\ prefix \in BOOLEAN
       /\ expired \in BOOLEAN /\ commands \in Nat /\ vanished \in Nat
  BY DEF Init
<1>12. QED
  BY <1>6, <1>7, <1>8, <1>9, <1>10, <1>11 DEF BatchInv

LEMMA BatchStep == BatchInv /\ [Next]_vars => BatchInv'
<1> SUFFICES ASSUME BatchInv, [Next]_vars PROVE BatchInv'
  OBVIOUS
<1>1. CASE Command
  <2> DEFINE b == Head(todo)
  <2>1. outcome' = [o \in Objects |-> IF o \in Range(b) THEN Known(o, b) ELSE outcome[o]]
    BY <1>1 DEF Command
  <2>2. \A o \in Range(b) : Known(o, b) \in States
    BY DEF Known, States
  <2>3. outcome' \in [Objects -> States]
    BY <2>1, <2>2 DEF BatchInv
  <2>4. /\ Batches(todo', N)
        /\ \A o \in Objects :
             o \in Objectset(todo') <=>
               \/ o \in Range(b) /\ Known(o, b) = "none"
               \/ o \in Objectset(todo) \ Range(b)
    BY <1>1, CommandFacts
  <2>5. \A o \in Objects : outcome'[o] = "none" <=> o \in Objectset(todo')
    BY <2>1, <2>4 DEF BatchInv
  <2>6. commands' \in Nat
    BY <1>1, BatchAssumption DEF Command, BatchInv, Enough
  <2>7. UNCHANGED <<mode, remote, fits, prefix, expired, vanished>>
    BY <1>1 DEF Command
  <2>8. Objectset(todo') = Objectset(todo)'
    BY DEF Objectset, Objects
  <2> HIDE DEF b
  <2>9. QED
    BY <2>3, <2>4, <2>5, <2>6, <2>7 DEF BatchInv, Batches, Batch, Apart, Objectset, Objects, Range
<1>2. CASE Expire
  BY <1>2 DEF Expire, BatchInv, Batches, Batch, Apart, Objectset, Objects
<1>3. ASSUME NEW o \in Objects, Vanish(o) PROVE BatchInv'
  <2>1. remote' \in [Objects -> Remotes]
    BY <1>3 DEF Vanish, BatchInv, Remotes
  <2>2. vanished' \in Nat
    BY <1>3 DEF Vanish, BatchInv
  <2>3. UNCHANGED <<mode, fits, prefix, todo, outcome, commands, expired>>
    BY <1>3 DEF Vanish
  <2>4. QED
    BY <2>1, <2>2, <2>3 DEF BatchInv, Batches, Batch, Apart, Objectset, Objects
<1>4. CASE UNCHANGED vars
  BY <1>4 DEF vars, BatchInv, Batches, Batch, Apart, Objectset, Objects
<1>5. QED
  BY <1>1, <1>2, <1>3, <1>4 DEF Next

LEMMA BatchInvariant == Spec => []BatchInv
<1>1. Spec => Init /\ [][Next]_vars
  BY DEF Spec
<1>2. QED
  BY <1>1, BatchInit, BatchStep, PTL

-----------------------------------------------------------------------------
(* Every object once.                                                      *)

\* An object without a result waits in one batch of the list, and one with a
\* result in none: splitBatch and the loop over the missing objects share a batch
\* out, whatever the command reported.
THEOREM Accounting == Spec => []EachObjectOnce
<1>1. BatchInv => EachObjectOnce
  <2> SUFFICES ASSUME BatchInv, NEW o \in Objects
               PROVE  Cardinality({i \in DOMAIN todo : o \in Range(todo[i])})
                        = (IF outcome[o] = "none" THEN 1 ELSE 0)
    BY DEF EachObjectOnce
  <2> DEFINE waiting == {i \in DOMAIN todo : o \in Range(todo[i])}
  <2>1. CASE outcome[o] = "none"
    <3>1. PICK i \in DOMAIN todo : o \in Range(todo[i])
      BY <2>1 DEF BatchInv, Objectset
    <3>2. ASSUME NEW j \in waiting PROVE j = i
      BY <3>1 DEF BatchInv, Batches, Apart
    <3>3. waiting = {i}
      BY <3>1, <3>2
    <3>4. Cardinality({i}) = 1
      BY FS_Singleton
    <3>5. QED
      BY <2>1, <3>3, <3>4
  <2>2. CASE outcome[o] # "none"
    <3>1. waiting = {}
      BY <2>2 DEF BatchInv, Objectset
    <3>2. QED
      BY <2>2, <3>1, FS_EmptySet
  <2>3. QED
    BY <2>1, <2>2
<1>2. QED
  BY <1>1, BatchInvariant, PTL

-----------------------------------------------------------------------------
(* Isolation.                                                              *)

\* Without an abort, an object is given up only alone and not present.
FailedInv ==
  ~expired => \A o \in Objects : outcome[o] = "failed" => remote[o] # "present"

\* A command for one object that is present finds it: its output alone fits.
LEMMA PresentIsFound ==
  ASSUME BatchInv, ~expired, NEW b, Batch(b, N), NEW o \in Range(b),
         remote[o] = "present"
  PROVE  Known(o, b) # "failed"
<1>1. N \in Nat /\ Len(b) \in 1..N /\ DOMAIN b = 1..Len(b)
  BY BatchAssumption, BatchFacts
<1>2. CASE Len(b) > 1
  BY <1>2 DEF Known
<1>3. CASE Len(b) = 1
  <2>1. Range(b) = {o}
    <3>1. DOMAIN b = {1}
      BY <1>1, <1>3
    <3>2. QED
      BY <3>1 DEF Range
  <2>2. Len(b) <= fits
    BY <1>3 DEF BatchInv, Objects
  <2>3. Status(b) = "success"
    <3>1. ~\E x \in Range(b) : remote[x] = "breaking"
      BY <2>1
    <3>2. ~(Len(b) > fits)
      BY <1>3, <2>2 DEF BatchInv, Objects
    <3>3. QED
      BY <3>1, <3>2, Zenon DEF Status
  <2>4. o \in Found(b)
    BY <2>2 DEF Found
  <2>5. QED
    BY <1>3, <2>3, <2>4 DEF Known, Successful
<1>4. QED
  BY <1>1, <1>2, <1>3

LEMMA FailedStep == BatchInv /\ FailedInv /\ [Next]_vars => FailedInv'
<1> SUFFICES ASSUME BatchInv, FailedInv, [Next]_vars, ~expired', NEW o \in Objects,
                    outcome'[o] = "failed", remote'[o] = "present"
             PROVE  FALSE
  BY DEF FailedInv, Objects
<1>1. CASE Command
  <2> DEFINE b == Head(todo)
  <2>1. ~expired /\ remote' = remote
    BY <1>1 DEF Command
  <2>2. outcome'[o] = IF o \in Range(b) THEN Known(o, b) ELSE outcome[o]
    BY <1>1 DEF Command
  <2>3. todo # << >>
    BY <1>1 DEF Command
  <2>4. Batch(b, N)
    BY <2>3, HeadIsBatch
  <2> HIDE DEF b
  <2>5. o \notin Range(b)
    BY <2>1, <2>2, <2>4, PresentIsFound
  <2>6. QED
    BY <2>1, <2>2, <2>5 DEF FailedInv
<1>2. CASE Expire
  BY <1>2 DEF Expire
<1>3. ASSUME NEW p \in Objects, Vanish(p) PROVE FALSE
  <2>1. outcome' = outcome /\ expired' = expired
    BY <1>3 DEF Vanish
  <2>2. PICK r \in {"absent", "breaking"} : remote' = [remote EXCEPT ![p] = r]
    BY <1>3 DEF Vanish
  <2>3. remote[o] = "present"
    BY <2>2 DEF BatchInv
  <2>4. QED
    BY <2>1, <2>3 DEF FailedInv
<1>4. CASE UNCHANGED vars
  BY <1>4 DEF vars, FailedInv
<1>5. QED
  BY <1>1, <1>2, <1>3, <1>4 DEF Next

\* When all is done without an abort, every object that is present was found:
\* a batch that fails or is cut is asked for in smaller parts until the object
\* that fails is alone, and alone its failure is its own.
THEOREM Isolation == Spec => []Isolated
<1>1. Init => FailedInv
  BY DEF Init, FailedInv
<1>2. BatchInv /\ FailedInv => Isolated
  <2> SUFFICES ASSUME BatchInv, FailedInv, todo = << >>, ~expired,
                      NEW o \in Objects, remote[o] = "present"
               PROVE  outcome[o] = "found"
    BY DEF Isolated
  <2>1. DOMAIN << >> = {}
    BY EmptySeq
  <2>2. outcome[o] # "none"
    BY <2>1 DEF BatchInv, Objectset
  <2>3. outcome[o] # "failed"
    BY DEF FailedInv
  <2>4. outcome[o] \in States
    BY DEF BatchInv
  <2>5. QED
    BY <2>2, <2>3, <2>4 DEF States
<1>3. Spec => []BatchInv
  BY BatchInvariant
<1>4. Spec => Init /\ [][Next]_vars
  BY DEF Spec
<1>5. QED
  BY <1>1, <1>2, <1>3, <1>4, FailedStep, PTL

-----------------------------------------------------------------------------
(* The price of one failing object.                                        *)

LEMMA PowerFacts ==
  /\ Power \in [0..N -> Nat]
  /\ Power[0] = 1
  /\ \A k \in 1..N : Power[k] = 2 * Power[k - 1]
<1> DEFINE turn == [k \in 1..N |-> [x \in Nat |-> 2 * x]]
           Equation(f) == f = [k \in 0..N |-> IF k = 0 THEN 1 ELSE 2 * f[k - 1]]
<1>1. N \in Nat
  BY BatchAssumption
<1>2. turn \in [1..N -> [Nat -> Nat]]
  OBVIOUS
<1>3. PICK g \in [0..N -> Nat] : g[0] = 1 /\ \A k \in 1..N : g[k] = turn[k][g[k - 1]]
  <2> HIDE DEF turn
  <2>1. Results(N, Nat, 1, turn) # {}
    BY <1>1, <1>2, Iteration
  <2>2. QED
    BY <2>1 DEF Results
<1>4. Equation(g)
  <2>1. ASSUME NEW k \in 0..N PROVE g[k] = IF k = 0 THEN 1 ELSE 2 * g[k - 1]
    <3>1. CASE k = 0
      BY <1>3, <3>1
    <3>2. CASE k \in 1..N
      <4>1. g[k - 1] \in Nat
        BY <1>1, <3>2
      <4>2. g[k] = 2 * g[k - 1]
        BY <1>3, <3>2, <4>1
      <4> HIDE DEF turn
      <4>3. k # 0
        BY <1>1, <3>2
      <4>4. QED
        BY <4>2, <4>3
    <3>3. QED
      BY <1>1, <3>1, <3>2
  <2>2. g = [k \in 0..N |-> g[k]]
    BY <1>3
  <2>3. QED
    BY <2>1, <2>2
<1>5. Power = CHOOSE f : Equation(f)
  BY Zenon DEF Power
<1>6. Equation(Power)
  <2> HIDE DEF Equation
  <2>1. QED
    BY <1>4, <1>5, Zenon
<1> HIDE DEF turn
<1>7. /\ DOMAIN Power = 0..N
      /\ \A k \in 0..N : Power[k] = IF k = 0 THEN 1 ELSE 2 * Power[k - 1]
  BY <1>6
<1>8. Power[0] = 1 /\ \A k \in 1..N : Power[k] = 2 * Power[k - 1]
  <2>1. 0 \in 0..N
    BY <1>1
  <2>2. \A k \in 1..N : k \in 0..N /\ k # 0
    BY <1>1
  <2>3. QED
    BY <1>7, <2>1, <2>2
<1>9. \A k \in 0..N : Power[k] \in Nat
  <2> DEFINE Good == {k \in 0..N : Power[k] \in Nat}
  <2>1. 0 \in Good
    BY <1>1, <1>8
  <2>2. \A k \in 1..N : k - 1 \in Good => k \in Good
    BY <1>1, <1>8
  <2> HIDE DEF Good
  <2>3. \A k \in 0..N : k \in Good
    BY <1>1, <2>1, <2>2, Upwards
  <2>4. QED
    BY <2>3 DEF Good
<1>10. Power = [k \in 0..N |-> Power[k]]
  BY <1>6
<1>11. QED
  BY <1>8, <1>9, <1>10

\* So many halvings as Depth leave one object of the whole batch.
LEMMA DepthFacts == Depth \in 0..N /\ Power[Depth] >= N
<1> DEFINE Enlarged == {k \in 0..N : Power[k] >= k + 1}
           Deep == {k \in 0..N : Power[k] >= N}
<1>1. N \in Nat
  BY BatchAssumption
<1>2. 0 \in Enlarged
  BY <1>1, PowerFacts
<1>3. \A k \in 1..N : k - 1 \in Enlarged => k \in Enlarged
  BY <1>1, PowerFacts
<1> HIDE DEF Enlarged
<1>4. \A k \in 0..N : k \in Enlarged
  BY <1>1, <1>2, <1>3, Upwards
<1>5. N \in Deep
  <2>1. Power[N] >= N + 1 /\ Power[N] \in Nat
    BY <1>1, <1>4, PowerFacts DEF Enlarged
  <2>2. QED
    BY <1>1, <2>1
<1>6. PICK d \in Deep : \A e \in Deep : d <= e
  <2>1. Deep \in SUBSET Nat /\ Deep # {}
    BY <1>1, <1>5
  <2> HIDE DEF Deep
  <2>2. QED
    BY <2>1, FirstOf
<1>7. ASSUME NEW e \in 0..d - 1 PROVE Power[e] < N
  <2>1. d \in 0..N
    BY <1>6
  <2>2. e \in 0..N /\ ~(d <= e)
    BY <1>1, <2>1
  <2>3. Power[e] \in Nat
    BY <2>2, PowerFacts
  <2>4. e \notin Deep
    BY <1>6, <2>2
  <2>5. QED
    BY <1>1, <2>2, <2>3, <2>4
<1>8. \E x \in 0..N : Power[x] >= N /\ \A e \in 0..x - 1 : Power[e] < N
  BY <1>6, <1>7
<1>9. QED
  BY <1>8, Zenon DEF Depth

\* At most one object fails, nothing changes under way and output fits.
Calm ==
  /\ vanished = 0 /\ ~expired /\ fits = N
  /\ \A o, p \in Objects : remote[o] = "breaking" /\ remote[p] = "breaking" => o = p
  /\ \A o \in Objects : remote[o] # "absent"

Breaks(b) == \E o \in Range(b) : remote[o] = "breaking"

\* With d halvings to go, the list and twice d are what remains to be paid.
Payable ==
  \E d \in 0..Depth :
    /\ commands + Len(todo) + 2 * d <= 1 + 2 * Depth
    /\ \A i \in DOMAIN todo : Breaks(todo[i]) => Len(todo[i]) <= Power[d]

CostInv == Calm => Payable

LEMMA CostInit == BatchInv /\ Init => CostInv
<1> SUFFICES ASSUME BatchInv, Init, Calm PROVE CostInv
  BY DEF CostInv
<1>1. N \in Nat /\ Depth \in 0..N /\ Power[Depth] >= N /\ Power[Depth] \in Nat
  BY BatchAssumption, DepthFacts, PowerFacts
<1>2. Len(todo) = 1 /\ commands = 0
  BY DEF Init
<1>3. ASSUME NEW i \in DOMAIN todo PROVE Len(todo[i]) <= Power[Depth]
  <2>1. Batch(todo[i], N)
    BY DEF BatchInv, Batches
  <2>2. Len(todo[i]) \in 1..N
    BY <1>1, <2>1, BatchFacts
  <2>3. QED
    BY <1>1, <2>2
<1>4. Depth \in 0..Depth /\ commands + Len(todo) + 2 * Depth <= 1 + 2 * Depth
  BY <1>1, <1>2
<1>5. QED
  BY <1>3, <1>4 DEF CostInv, Payable

\* A batch without the failing object is done with one command.
LEMMA CalmBatch ==
  ASSUME BatchInv, Calm, NEW b, Batch(b, N), ~Breaks(b)
  PROVE  More(b) = << >>
<1>1. N \in Nat /\ Len(b) \in 1..N /\ Range(b) \subseteq Objects
  BY BatchAssumption, BatchFacts
<1>2. Len(b) <= fits /\ ~(Len(b) > fits)
  BY <1>1 DEF Calm
<1>3. Status(b) = "success"
  BY <1>2, Zenon DEF Status, Calm, Breaks
<1>4. \A o \in Range(b) : remote[o] = "present"
  <2>1. \A o \in Range(b) : remote[o] \in Remotes
    BY <1>1 DEF BatchInv
  <2>2. QED
    BY <1>1, <2>1 DEF Calm, Breaks, Remotes
<1>5. Found(b) = Range(b)
  BY <1>2, <1>4 DEF Found
<1>6. Range(Missing(b)) = {} /\ (Missing(b) = << >> \/ Batch(Missing(b), Len(b)))
  BY <1>1, <1>5, MissingFacts
<1>7. Missing(b) = << >>
  <2> SUFFICES ASSUME Batch(Missing(b), Len(b)) PROVE FALSE
    BY <1>6
  <2>1. Len(Missing(b)) \in 1..Len(b) /\ DOMAIN Missing(b) = 1..Len(Missing(b))
    BY <1>1, BatchFacts
  <2>2. 1 \in DOMAIN Missing(b)
    BY <1>1, <2>1
  <2>3. Missing(b)[1] \in Range(Missing(b))
    BY <2>2 DEF Range
  <2>4. QED
    BY <1>6, <2>3
<1>8. QED
  BY <1>3, <1>7 DEF More, FollowUp, Successful

\* A batch with the failing object is halved, or was that object alone.
LEMMA BrokenBatch ==
  ASSUME BatchInv, Calm, NEW b, Batch(b, N), Breaks(b)
  PROVE  More(b) = IF Len(b) > 1 THEN Halves(b) ELSE << >>
<1>1. Status(b) = "failed"
  BY Zenon DEF Status, Calm, Breaks
<1>2. ~Successful(Status(b))
  BY <1>1 DEF Successful
<1>3. QED
  BY <1>2 DEF More, FollowUp

\* Only one batch of the list can hold the failing object.
LEMMA OneBreaks ==
  ASSUME BatchInv, Calm, NEW i \in DOMAIN todo, NEW j \in DOMAIN todo,
         Breaks(todo[i]), Breaks(todo[j])
  PROVE  i = j
<1>1. PICK o \in Range(todo[i]) : remote[o] = "breaking"
  BY DEF Breaks
<1>2. PICK p \in Range(todo[j]) : remote[p] = "breaking"
  BY DEF Breaks
<1>3. N \in Nat /\ Batch(todo[i], N) /\ Batch(todo[j], N)
  BY BatchAssumption DEF BatchInv, Batches
<1>4. o \in Objects /\ p \in Objects
  BY <1>3, BatchFacts
<1>5. o = p
  BY <1>1, <1>2, <1>4 DEF Calm
<1>6. QED
  BY <1>5 DEF BatchInv, Batches, Apart

LEMMA CommandCost ==
  ASSUME BatchInv, CostInv, Command, Calm
  PROVE  \E d \in 0..Depth :
           /\ commands' + Len(todo') + 2 * d <= 1 + 2 * Depth
           /\ \A i \in DOMAIN todo' : Breaks(todo'[i]) => Len(todo'[i]) <= Power[d]
<1> DEFINE b == Head(todo)
           more == More(b)
<1>1. todo # << >>
  BY DEF Command
<1>2. /\ Batch(b, N) /\ 1 \in DOMAIN todo /\ b = todo[1]
      /\ Len(todo) \in Nat \ {0} /\ DOMAIN todo = 1..Len(todo)
  BY <1>1, HeadIsBatch
<1>3. /\ Len(todo') = Len(more) + Len(todo) - 1
      /\ \A i \in DOMAIN todo' :
           \/ i \in DOMAIN more /\ todo'[i] = more[i]
           \/ /\ i - Len(more) + 1 \in DOMAIN todo \ {1}
              /\ todo'[i] = todo[i - Len(more) + 1]
  BY CommandFacts
<1>4. /\ N \in Nat /\ Len(b) \in 1..N /\ Depth \in 0..N
      /\ commands \in Nat
      /\ \A k \in 0..N : Power[k] \in Nat
  BY <1>2, BatchAssumption, BatchFacts, DepthFacts, PowerFacts DEF BatchInv
<1>5. commands' \in Nat /\ commands' <= commands + 1
  <2>1. commands' = IF commands < 2 * N THEN commands + 1 ELSE 2 * N
    BY DEF Command, Enough
  <2>2. QED
    BY <1>4, <2>1
<1>6. PICK d \in 0..Depth :
        /\ commands + Len(todo) + 2 * d <= 1 + 2 * Depth
        /\ \A i \in DOMAIN todo : Breaks(todo[i]) => Len(todo[i]) <= Power[d]
  BY DEF CostInv, Payable
<1>7. CASE ~Breaks(b)
  <2>1. more = << >>
    BY <1>2, <1>7, CalmBatch
  <2>2. Len(more) = 0 /\ DOMAIN more = {}
    BY <2>1, EmptySeq
  <2> HIDE DEF b, more
  <2>3. commands' + Len(todo') + 2 * d <= 1 + 2 * Depth
    BY SMTT(30), <1>2, <1>3, <1>4, <1>5, <1>6, <2>2
  <2>4. \A i \in DOMAIN todo' : Breaks(todo'[i]) => Len(todo'[i]) <= Power[d]
    <3>1. ASSUME NEW i \in DOMAIN todo' PROVE \E j \in DOMAIN todo : todo'[i] = todo[j]
      BY <1>3, <2>2
    <3>2. QED
      BY <1>6, <3>1
  <2>5. QED
    BY <2>3, <2>4
<1>8. CASE Breaks(b) /\ Len(b) = 1
  <2>1. more = << >>
    <3>1. more = IF Len(b) > 1 THEN Halves(b) ELSE << >>
      BY <1>2, <1>8, BrokenBatch
    <3>2. ~(Len(b) > 1)
      BY <1>8
    <3>3. QED
      BY <3>1, <3>2, Zenon
  <2>2. Len(more) = 0 /\ DOMAIN more = {}
    BY <2>1, EmptySeq
  <2> HIDE DEF more
  <2>3. commands' + Len(todo') + 2 * d <= 1 + 2 * Depth
    BY <1>2, <1>3, <1>4, <1>5, <1>6, <2>2
  <2>4. ASSUME NEW i \in DOMAIN todo' PROVE ~Breaks(todo'[i])
    <3>1. PICK j \in DOMAIN todo \ {1} : todo'[i] = todo[j]
      BY <1>3, <2>2
    <3>2. ~Breaks(todo[j])
      BY <1>2, <1>8, <3>1, OneBreaks
    <3>3. QED
      BY <3>1, <3>2
  <2>5. QED
    BY <2>3, <2>4
<1>9. CASE Breaks(b) /\ Len(b) > 1
  <2> DEFINE middle == (Len(b) + 1) \div 2
  <2>1. more = Halves(b)
    BY <1>2, <1>9, BrokenBatch
  <2>2. Batches(more, middle) /\ Len(more) = 2
    BY <1>2, <1>4, <1>9, <2>1, HalvesFacts
  <2>3. Len(b) <= Power[d]
    BY <1>2, <1>6, <1>9
  <2>4. d \in 1..N
    <3>1. d # 0
      BY <1>4, <1>9, <2>3, PowerFacts
    <3>2. QED
      BY <1>4, <3>1
  <2>5. middle \in Nat /\ middle <= Power[d - 1]
    <3>1. Power[d] = 2 * Power[d - 1] /\ Power[d - 1] \in Nat
      BY <1>4, <2>4, PowerFacts
    <3> DEFINE l == Len(b)
               p == Power[d - 1]
    <3>2. l \in Nat /\ p \in Nat /\ l <= 2 * p
      BY <1>4, <2>3, <3>1
    <3> HIDE DEF l, p
    <3>3. (l + 1) \div 2 \in Nat /\ (l + 1) \div 2 <= p
      BY <3>2
    <3>4. QED
      BY <3>3 DEF l, p
  <2> HIDE DEF b, more, middle
  <2>6. commands' + Len(todo') + 2 * (d - 1) <= 1 + 2 * Depth
    BY <1>2, <1>3, <1>4, <1>5, <1>6, <2>2, <2>4
  <2>7. ASSUME NEW i \in DOMAIN todo', Breaks(todo'[i]) PROVE Len(todo'[i]) <= Power[d - 1]
    <3>1. CASE i \in DOMAIN more /\ todo'[i] = more[i]
      <4>1. Batch(more[i], middle)
        BY <2>2, <3>1 DEF Batches
      <4>2. Len(more[i]) \in 1..middle
        BY <2>5, <4>1, BatchFacts
      <4>3. Power[d - 1] \in Nat
        BY <1>4, <2>4
      <4>4. QED
        BY <2>5, <3>1, <4>2, <4>3
    <3>2. CASE \E j \in DOMAIN todo \ {1} : todo'[i] = todo[j]
      <4>1. PICK j \in DOMAIN todo \ {1} : todo'[i] = todo[j]
        BY <3>2
      <4>2. ~Breaks(todo[j])
        BY <1>2, <1>9, <4>1, OneBreaks
      <4>3. QED
        BY <2>7, <4>1, <4>2
    <3>3. QED
      BY <1>3, <3>1, <3>2
  <2>8. d - 1 \in 0..Depth
    BY <1>4, <2>4
  <2>9. QED
    BY <2>6, <2>7, <2>8
<1>10. Len(b) = 1 \/ Len(b) > 1
  <2> DEFINE l == Len(b)
  <2>1. l \in 1..N
    BY <1>4
  <2> HIDE DEF l
  <2>2. l = 1 \/ l > 1
    BY <1>4, <2>1
  <2>3. QED
    BY <2>2 DEF l
<1>11. QED
  BY <1>7, <1>8, <1>9, <1>10, Zenon

LEMMA CostStep == BatchInv /\ CostInv /\ [Next]_vars => CostInv'
<1> SUFFICES ASSUME BatchInv, CostInv, [Next]_vars, Calm' PROVE Payable'
  BY DEF CostInv
<1>1. CASE Command
  <2>1. UNCHANGED <<remote, fits, expired, vanished>>
    BY <1>1 DEF Command
  <2>2. Calm
    BY <2>1 DEF Calm, Objects
  <2>3. PICK d \in 0..Depth :
          /\ commands' + Len(todo') + 2 * d <= 1 + 2 * Depth
          /\ \A i \in DOMAIN todo' : Breaks(todo'[i]) => Len(todo'[i]) <= Power[d]
    BY <1>1, <2>2, CommandCost
  <2>4. QED
    BY <2>1, <2>3 DEF Payable, Breaks
<1>2. CASE Expire
  BY <1>2 DEF Expire, Calm
<1>3. ASSUME NEW o \in Objects, Vanish(o) PROVE FALSE
  <2>1. vanished' = vanished + 1 /\ vanished' = 0 /\ vanished \in Nat
    BY <1>3 DEF Vanish, Calm, BatchInv
  <2>2. QED
    BY <2>1
<1>4. CASE UNCHANGED vars
  <2>1. Calm
    BY <1>4 DEF vars, Calm, Objects
  <2>2. QED
    BY <1>4, <2>1 DEF vars, CostInv, Payable, Breaks
<1>5. QED
  BY <1>1, <1>2, <1>3, <1>4 DEF Next

LEMMA PairCount ==
  ASSUME NEW o, NEW p, o # p
  PROVE  Cardinality({o} \cup {p}) = 2
<1>1. IsFiniteSet({o}) /\ Cardinality({o}) = 1
  BY FS_Singleton
<1>2. p \notin {o}
  OBVIOUS
<1>3. Cardinality({o} \cup {p}) = Cardinality({o}) + 1
  BY <1>1, <1>2, FS_AddElement
<1>4. QED
  BY <1>1, <1>3

\* One object that breaks its batch costs two commands for each halving, for any
\* size of the batch: each halving leaves the object in a half of at most half the
\* size, and the other half is done with one command.
THEOREM Logarithmic == Spec => []FewRetries
<1>1. BatchInv /\ CostInv => FewRetries
  <2> DEFINE broken == {o \in Objects : remote[o] = "breaking"}
  <2> SUFFICES ASSUME BatchInv, CostInv,
                      vanished = 0, ~expired, fits = N, Cardinality(broken) <= 1,
                      \A o \in Objects : remote[o] # "absent"
               PROVE  commands <= 1 + 2 * Depth
    BY DEF FewRetries
  <2>1. N \in Nat /\ Depth \in Nat
    BY BatchAssumption, DepthFacts
  <2>2. IsFiniteSet(broken)
    <3>1. IsFiniteSet(Objects)
      BY <2>1, FS_Interval DEF Objects
    <3>2. broken \in SUBSET Objects
      OBVIOUS
    <3>3. QED
      BY <3>1, <3>2, FS_Subset
  <2>3. \A o, p \in Objects : o \in broken /\ p \in broken => o = p
    <3> SUFFICES ASSUME NEW o \in broken, NEW p \in broken, o # p PROVE FALSE
      OBVIOUS
    <3>2. Cardinality({o} \cup {p}) = 2
      BY PairCount
    <3>3. {o} \cup {p} \in SUBSET broken
      OBVIOUS
    <3> HIDE DEF broken
    <3>4. Cardinality({o} \cup {p}) <= Cardinality(broken)
      BY <2>2, <3>3, FS_Subset
    <3>5. Cardinality(broken) \in Nat
      BY <2>2, FS_CardinalityType
    <3>6. QED
      BY <3>2, <3>4, <3>5
  <2>4. Calm
    BY <2>3 DEF Calm
  <2>5. PICK d \in 0..Depth : commands + Len(todo) + 2 * d <= 1 + 2 * Depth
    BY <2>4 DEF CostInv, Payable
  <2>6. commands \in Nat /\ Len(todo) \in Nat
    BY LenProperties DEF BatchInv, Batches
  <2>7. QED
    BY <2>1, <2>5, <2>6
<1>2. Init => BatchInv /\ CostInv
  BY BatchInit, CostInit
<1>3. Spec => []BatchInv
  BY BatchInvariant
<1>4. Spec => Init /\ [][Next]_vars
  BY DEF Spec
<1>5. QED
  BY <1>1, <1>2, <1>3, <1>4, CostStep, PTL
=============================================================================
