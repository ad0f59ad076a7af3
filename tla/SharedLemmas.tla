---------------------------- MODULE SharedLemmas ----------------------------
(***************************************************************************)
(* Facts without variables that the proofs of several components rest on.  *)
(*                                                                         *)
(* First, numbers.  SetInduction is induction over the naturals in a form  *)
(* that needs no operator parameter: it speaks of a set of numbers, and is *)
(* derived from the well-foundedness of finite sets.  The rest says what   *)
(* rounded division does, for blocks and chunks of any size, and what a    *)
(* running sum is.                                                         *)
(*                                                                         *)
(* Then an IFD from its tags to its reader, for every builder and tag      *)
(* list: the three computations of its layout agree; build_image_tags      *)
(* lists sorted, distinct codes; no two of the numbers write_ifd and the   *)
(* patches write overlap; and a reader of a file that holds a chain of     *)
(* whole IFDs finds every block where the arrays say.                      *)
(*                                                                         *)
(* Last, the cache of blocks and of chunks, for every limit it can be given *)
(* (the only constants these lemmas have): what a lookup and an insertion   *)
(* do to it.                                                               *)
(***************************************************************************)
EXTENDS TiffFile, LruCache, TLAPS, FiniteSetTheorems, SequenceTheorems, WellFoundedInduction

\* A set of naturals with 0 that is closed under successor holds every natural.
LEMMA SetInduction ==
  ASSUME NEW S, 0 \in S, \A n \in Nat : n \in S => n + 1 \in S
  PROVE  \A n \in Nat : n \in S
<1> DEFINE T == {n \in Nat : n \notin S}
           Q == {0..m : m \in T}
<1> SUFFICES ASSUME T # {} PROVE FALSE
  OBVIOUS
<1>1. Q \subseteq FiniteSubsetsOf(Nat)
  <2> SUFFICES ASSUME NEW m \in T PROVE 0..m \in FiniteSubsetsOf(Nat)
    OBVIOUS
  <2>1. IsFiniteSet(0..m)
    BY FS_Interval
  <2> QED BY <2>1 DEF FiniteSubsetsOf
<1>2. PICK x \in Q : \A y \in Q : <<y, x>> \notin StrictSubsetOrdering(Nat)
  <2>1. Q # {}
    OBVIOUS
  <2>2. IsWellFoundedOn(StrictSubsetOrdering(Nat), FiniteSubsetsOf(Nat))
    BY FS_StrictSubsetOrderingWellFounded
  <2> QED BY ONLY <1>1, <2>1, <2>2, WFMin
<1>3. PICK m \in T : x = 0..m
  BY <1>2
<1>4. m - 1 \in T
  <2>1. m # 0
    BY DEF T
  <2> QED BY <2>1
<1>5. 0..(m - 1) \subseteq 0..m /\ 0..(m - 1) # 0..m
  <2>1. m \in 0..m /\ m \notin 0..(m - 1)
    OBVIOUS
  <2>2. 0..(m - 1) \subseteq 0..m
    OBVIOUS
  <2> QED BY <2>1, <2>2
<1>6. <<0..(m - 1), 0..m>> \in StrictSubsetOrdering(Nat)
  <2>1. 0..(m - 1) \in SUBSET Nat /\ 0..m \in SUBSET Nat
    OBVIOUS
  <2> QED BY <1>5, <2>1 DEF StrictSubsetOrdering
<1>7. 0..(m - 1) \in Q
  BY <1>4
<1> QED BY <1>2, <1>3, <1>6, <1>7

(***************************************************************************)
(* In a finite set of numbers each has a rank of its own, and every rank   *)
(* up to their number is taken.                                            *)
(***************************************************************************)
LEMMA Ranks ==
  ASSUME NEW S, IsFiniteSet(S), S \subseteq Nat
  PROVE  /\ Cardinality(S) \in Nat
         /\ \A x \in S : Cardinality({y \in S : y <= x}) \in 1..Cardinality(S)
         /\ \A a, b \in S :
              Cardinality({y \in S : y <= a}) = Cardinality({y \in S : y <= b}) => a = b
         /\ \A k \in 1..Cardinality(S) : \E x \in S : Cardinality({y \in S : y <= x}) = k
<1> DEFINE below(x) == {y \in S : y <= x}
           At(x) == Cardinality(below(x))
           N == Cardinality(S)
<1>3. N \in Nat
  BY FS_CardinalityType
<1>4. ASSUME NEW x \in S PROVE IsFiniteSet(below(x)) /\ At(x) \in 1..N
  <2>1. below(x) \subseteq S /\ x \in below(x)
    OBVIOUS
  <2>2. IsFiniteSet(below(x)) /\ Cardinality(below(x)) \in Nat
        /\ Cardinality(below(x)) <= N
    <3> HIDE DEF below
    <3> QED BY <2>1, FS_Subset, FS_CardinalityType
  <2>3. Cardinality(below(x)) # 0
    <3> HIDE DEF below
    <3> QED BY <2>1, <2>2, FS_EmptySet
  <2> HIDE DEF below
  <2> QED BY <1>3, <2>2, <2>3
<1>5. ASSUME NEW a \in S, NEW b \in S, a < b PROVE At(a) < At(b)
  <2>0. a \in Nat /\ b \in Nat /\ \A x \in S : x \in Nat
    OBVIOUS
  <2>1. below(a) \subseteq below(b) /\ b \in below(b) /\ b \notin below(a)
    <3>1. (\A x \in S : x <= a => x <= b) /\ b <= b /\ ~(b <= a)
      BY <1>5, <2>0
    <3> QED BY <3>1
  <2>2. Cardinality(below(a)) <= Cardinality(below(b))
        /\ Cardinality(below(a)) # Cardinality(below(b))
    <3> HIDE DEF below
    <3> QED BY <1>4, <2>1, FS_Subset
  <2> HIDE DEF below
  <2> QED BY <1>3, <1>4, <2>2
<1> DEFINE rank == [x \in S |-> At(x)]
<1> HIDE DEF N, below
<1>6. \A a, b \in S : At(a) = At(b) => a = b
  <2> SUFFICES ASSUME NEW a \in S, NEW b \in S, At(a) = At(b) PROVE a = b
    OBVIOUS
  <2>1. a < b \/ b < a \/ a = b
    OBVIOUS
  <2>2. At(a) \in Int /\ At(b) \in Int
    BY <1>3, <1>4
  <2> HIDE DEF At
  <2> QED BY <1>5, <2>1, <2>2
<1>7. rank \in Injection(S, 1..N)
  <2>1. rank \in [S -> 1..N] /\ \A x \in S : rank[x] = At(x)
    BY <1>4
  <2> HIDE DEF rank, At
  <2> QED BY <1>6, <2>1 DEF Injection, IsInjective
<1>8. rank \in Surjection(S, 1..N)
  <2>1. IsFiniteSet(1..N) /\ Cardinality(1..N) = N
    BY <1>3, FS_Interval
  <2> HIDE DEF rank
  <2>2. Cardinality(S) = Cardinality(1..N)
    BY <2>1 DEF N
  <2> QED BY <1>7, <2>1, <2>2, FS_Injection
<1>9. \A k \in 1..N : \E x \in S : At(x) = k
  <2>1. \A x \in S : rank[x] = At(x)
    OBVIOUS
  <2> HIDE DEF rank, At
  <2> QED BY <1>8, <2>1 DEF Surjection
<1> HIDE DEF At
<1>10. \A x \in S : At(x) \in 1..N
  BY <1>4
<1> QED BY <1>3, <1>6, <1>9, <1>10 DEF N, At, below

----------------------------------------------------------------------------
\* What \div returns for naturals.
LEMMA Quotient ==
  \A x \in Nat, b \in Nat \ {0} :
    /\ x \div b \in Nat
    /\ (x \div b) * b <= x
    /\ x < (x \div b) * b + b
  OBVIOUS

\* Distinct multiples of b are at least b apart.
LEMMA Multiples ==
  ASSUME NEW j \in Int, NEW k \in Int, NEW b \in Nat, j < k
  PROVE  j * b + b <= k * b
<1>1. (k - j - 1) * b >= 0
  <2>1. k - j - 1 >= 0
    OBVIOUS
  <2> QED BY <2>1
<1>2. (k - j - 1) * b = k * b - j * b - b
  OBVIOUS
<1>3. k * b \in Int /\ j * b \in Int
  OBVIOUS
<1> QED BY <1>1, <1>2, <1>3

\* The quotient is the one multiple it lies above.
LEMMA QuotientIs ==
  ASSUME NEW x \in Nat, NEW b \in Nat \ {0}, NEW k \in Nat, k * b <= x, x < k * b + b
  PROVE  x \div b = k
<1> DEFINE q == x \div b
<1>1. q \in Nat /\ q * b <= x /\ x < q * b + b
  BY Quotient
<1> HIDE DEF q
<1>2. q * b \in Nat /\ k * b \in Nat
  BY <1>1
<1>3. ~(q < k)
  <2> SUFFICES ASSUME q < k PROVE FALSE
    OBVIOUS
  <2>1. q * b + b <= k * b
    BY <1>1, Multiples
  <2> QED BY <1>1, <1>2, <2>1
<1>4. ~(k < q)
  <2> SUFFICES ASSUME k < q PROVE FALSE
    OBVIOUS
  <2>1. k * b + b <= q * b
    BY <1>1, Multiples
  <2> QED BY <1>1, <1>2, <2>1
<1> QED BY <1>1, <1>3, <1>4 DEF q

\* Division by b does not change the order of two dividends.
LEMMA QuotientGrows ==
  ASSUME NEW x \in Nat, NEW y \in Nat, NEW b \in Nat \ {0}, x <= y
  PROVE  x \div b <= y \div b
<1> DEFINE p == x \div b
           q == y \div b
<1>1. p \in Nat /\ p * b <= x /\ q \in Nat /\ y < q * b + b
  BY Quotient
<1> HIDE DEF p, q
<1>2. p * b \in Nat /\ q * b \in Nat
  BY <1>1
<1>3. ~(q < p)
  <2> SUFFICES ASSUME q < p PROVE FALSE
    OBVIOUS
  <2>1. q * b + b <= p * b
    BY <1>1, Multiples
  <2> QED BY <1>1, <1>2, <2>1
<1> QED BY <1>1, <1>3 DEF p, q

\* Division that rounds up counts the blocks that begin before y.
LEMMA RoundedUpCounts ==
  ASSUME NEW y \in Nat, NEW b \in Nat \ {0}, NEW k \in Nat
  PROVE  k < (y + b - 1) \div b <=> k * b < y
<1> DEFINE q == (y + b - 1) \div b
<1>0. y + b - 1 \in Nat
  OBVIOUS
<1>1. q \in Nat /\ q * b <= y + b - 1 /\ y + b - 1 < q * b + b
  BY <1>0, Quotient
<1> HIDE DEF q
<1>2. q * b \in Nat /\ k * b \in Nat
  BY <1>1
<1>3. ASSUME k < q PROVE k * b < y
  <2>1. k * b + b <= q * b
    BY <1>1, <1>3, Multiples
  <2> QED BY <1>1, <1>2, <2>1
<1>4. ASSUME ~(k < q) PROVE ~(k * b < y)
  <2>1. q * b <= k * b
    <3>1. CASE q = k
      BY <1>2, <3>1
    <3>2. CASE q < k
      <4>1. q * b + b <= k * b
        BY <1>1, <3>2, Multiples
      <4> QED BY <1>2, <4>1
    <3> QED BY <1>1, <1>4, <3>1, <3>2
  <2> QED BY <1>1, <1>2, <2>1
<1> QED BY <1>3, <1>4 DEF q

\* What is left when x is divided by b.
LEMMA RemainderIs ==
  ASSUME NEW x \in Nat, NEW b \in Nat \ {0}, NEW k \in Nat, NEW r \in Nat, r < b, x = k * b + r
  PROVE  x \div b = k /\ x % b = r
<1>1. k * b \in Nat
  OBVIOUS
<1>2. x \div b = k
  BY <1>1, QuotientIs
<1>3. x % b = x - (x \div b) * b
  BY <1>2
<1> QED BY <1>1, <1>2, <1>3

\* Rounding up counts at least one.
LEMMA DivCeilType ==
  ASSUME NEW a \in Nat \ {0}, NEW b \in Nat \ {0}
  PROVE  DivCeil(a, b) \in Nat \ {0}
<1>1. a + b - 1 \in Nat /\ 1 * b <= a + b - 1
  OBVIOUS
<1>2. 0 < (a + b - 1) \div b
  BY RoundedUpCounts
<1>3. (a + b - 1) \div b \in Nat
  BY <1>1, Quotient
<1> QED BY <1>2, <1>3 DEF DivCeil

----------------------------------------------------------------------------
(***************************************************************************)
(* A running sum, as recursive functions compute it: f[0] = base, and each *)
(* f[i] adds part[i] to f[i - 1].                                          *)
(***************************************************************************)
Sums(f, n, base, part) ==
  f = [i \in 0..n |-> IF i = 0 THEN base ELSE f[i - 1] + part[i]]

\* Running sums exist, however many parts are summed.
LEMMA RunningSum ==
  ASSUME NEW n \in Nat, NEW base \in Nat, NEW part \in [1..n -> Nat]
  PROVE  \E f : Sums(f, n, base, part)
<1> DEFINE Upto(k, f) == /\ f \in [0..k -> Nat] /\ f[0] = base
                         /\ \A i \in 1..k : i <= n => f[i] = f[i - 1] + part[i]
           S == {k \in Nat : \E f : Upto(k, f)}
<1>1. 0 \in S
  <2> DEFINE f == [i \in 0..0 |-> base]
  <2>1. Upto(0, f)
    OBVIOUS
  <2> QED BY <2>1
<1>2. \A k \in Nat : k \in S => k + 1 \in S
  <2> SUFFICES ASSUME NEW k \in Nat, k \in S
               PROVE  k + 1 \in S
    OBVIOUS
  <2>0. PICK f : Upto(k, f)
    OBVIOUS
  <2> DEFINE last == IF k + 1 <= n THEN part[k + 1] ELSE 0
             g == [i \in 0..(k + 1) |-> IF i <= k THEN f[i] ELSE f[k] + last]
  <2>1. last \in Nat
    OBVIOUS
  <2>2. g \in [0..(k + 1) -> Nat] /\ g[0] = base
    <3> HIDE DEF last
    <3> QED BY <2>0, <2>1
  <2>3. ASSUME NEW i \in 1..(k + 1), i <= n PROVE g[i] = g[i - 1] + part[i]
    <3>1. CASE i <= k
      <4>1. i \in 1..k /\ i \in 0..(k + 1) /\ i - 1 \in 0..(k + 1) /\ i - 1 <= k
        BY <3>1
      <4>2. g[i] = f[i] /\ g[i - 1] = f[i - 1]
        BY <3>1, <4>1
      <4> QED BY <4>1, <4>2, <2>3, <2>0
    <3>2. CASE i = k + 1
      <4>1. g[i] = f[k] + last /\ g[i - 1] = f[k]
        BY <3>2
      <4>2. last = part[i]
        BY <3>2, <2>3
      <4> QED BY <4>1, <4>2
    <3> QED BY <3>1, <3>2
  <2>4. Upto(k + 1, g)
    BY <2>2, <2>3
  <2>5. k + 1 \in Nat
    OBVIOUS
  <2> HIDE DEF g, Upto
  <2> QED BY <2>4, <2>5
<1>3. PICK f : Upto(n, f)
  <2> HIDE DEF S
  <2>1. n \in S
    BY <1>1, <1>2, SetInduction
  <2> QED BY <2>1 DEF S
<1>4. f = [i \in 0..n |-> IF i = 0 THEN base ELSE f[i - 1] + part[i]]
  <2>1. \A i \in 0..n : f[i] = IF i = 0 THEN base ELSE f[i - 1] + part[i]
    BY <1>3
  <2>2. f = [i \in 0..n |-> f[i]]
    BY <1>3
  <2> QED BY <2>1, <2>2
<1> HIDE DEF Upto, S
<1> QED BY <1>4 DEF Sums

\* Running sums are naturals that start at the base and never shrink.
LEMMA RunningSumType ==
  ASSUME NEW n \in Nat, NEW base \in Nat, NEW part \in [1..n -> Nat], NEW f,
         Sums(f, n, base, part)
  PROVE  /\ f \in [0..n -> Nat] /\ f[0] = base
         /\ \A i, j \in 0..n : i <= j => f[i] <= f[j]
<1>1. \A i \in 0..n : f[i] = IF i = 0 THEN base ELSE f[i - 1] + part[i]
  BY DEF Sums
<1>2. f = [i \in 0..n |-> f[i]]
  BY DEF Sums
<1>3. \A i \in 1..n : i - 1 \in 0..n /\ part[i] \in Nat /\ f[i] = f[i - 1] + part[i]
  BY <1>1
<1> DEFINE S == {k \in Nat : k <= n => /\ f[k] \in Nat
                                       /\ \A i \in 0..k : f[i] \in Nat /\ f[i] <= f[k]}
<1>4. 0 \in S
  BY <1>1
<1>5. \A k \in Nat : k \in S => k + 1 \in S
  <2> SUFFICES ASSUME NEW k \in Nat, k \in S, k + 1 <= n
               PROVE  /\ f[k + 1] \in Nat
                      /\ \A i \in 0..(k + 1) : f[i] \in Nat /\ f[i] <= f[k + 1]
    BY SMTT(30)
  <2>1. k + 1 \in 1..n /\ f[k + 1] = f[k] + part[k + 1] /\ part[k + 1] \in Nat
    BY <1>3
  <2>2. f[k] \in Nat /\ \A i \in 0..k : f[i] \in Nat /\ f[i] <= f[k]
    OBVIOUS
  <2>3. \A i \in 0..(k + 1) : i \in 0..k \/ i = k + 1
    OBVIOUS
  <2> QED BY <2>1, <2>2, <2>3
<1>6. \A k \in Nat : k \in S
  <2> HIDE DEF S
  <2> QED BY <1>4, <1>5, SetInduction
<1>7. \A j \in 0..n : f[j] \in Nat /\ \A i \in 0..j : f[i] <= f[j]
  BY <1>6
<1>8. f \in [0..n -> Nat]
  BY <1>2, <1>7
<1> QED BY <1>1, <1>7, <1>8

\* Sums of the same parts differ by their bases.
LEMMA RunningSumsShift ==
  ASSUME NEW n \in Nat, NEW base \in Nat, NEW part \in [1..n -> Nat], NEW f, NEW g,
         Sums(f, n, base, part), Sums(g, n, 0, part)
  PROVE  \A i \in 0..n : f[i] = base + g[i]
<1>1. f \in [0..n -> Nat] /\ g \in [0..n -> Nat]
  BY RunningSumType
<1>2. /\ \A i \in 0..n : f[i] = IF i = 0 THEN base ELSE f[i - 1] + part[i]
      /\ \A i \in 0..n : g[i] = IF i = 0 THEN 0 ELSE g[i - 1] + part[i]
  BY DEF Sums
<1> DEFINE S == {k \in Nat : k <= n => f[k] = base + g[k]}
<1>3. 0 \in S
  BY <1>1, <1>2
<1>4. \A k \in Nat : k \in S => k + 1 \in S
  <2> SUFFICES ASSUME NEW k \in Nat, k \in S, k + 1 <= n
               PROVE  f[k + 1] = base + g[k + 1]
    OBVIOUS
  <2>1. k + 1 \in 1..n /\ k \in 0..n /\ f[k] = base + g[k]
    OBVIOUS
  <2>2. f[k + 1] = f[k] + part[k + 1] /\ g[k + 1] = g[k] + part[k + 1]
    <3>1. k + 1 \in 0..n /\ k + 1 # 0 /\ (k + 1) - 1 = k
      BY <2>1
    <3> QED BY <1>2, <3>1
  <2>3. f[k] \in Nat /\ g[k] \in Nat /\ part[k + 1] \in Nat
    BY <1>1, <1>2, <2>1
  <2> QED BY <2>1, <2>2, <2>3
<1>5. \A k \in Nat : k \in S
  <2> HIDE DEF S
  <2> QED BY <1>3, <1>4, SetInduction
<1> QED BY <1>5

\* The parts determine their running sums.
LEMMA RunningSumUnique ==
  ASSUME NEW n \in Nat, NEW part \in [1..n -> Nat], NEW f, NEW g,
         Sums(f, n, 0, part), Sums(g, n, 0, part)
  PROVE  f = g
<1>1. \A i \in 0..n : f[i] = 0 + g[i]
  BY RunningSumsShift
<1>2. \A i \in 0..n : f[i] = g[i]
  <2>1. g \in [0..n -> Nat]
    BY RunningSumType
  <2> QED BY <1>1, <2>1
<1>3. f = [i \in 0..n |-> f[i]] /\ g = [i \in 0..n |-> g[i]]
  BY DEF Sums
<1> QED BY <1>2, <1>3

----------------------------------------------------------------------------
\* Bytes tag i adds to the deferred area.
Part(tags, big, i) == IF Deferred(tags[i], big) THEN tags[i].len ELSE 0

\* What each of the tags adds.
Parts(tags, big) == [i \in 1..Len(tags) |-> Part(tags, big, i)]

\* A tag takes a natural number of bytes of the deferred area.
LEMMA PartType ==
  ASSUME NEW tags \in Seq(Tag), NEW big, NEW i \in 1..Len(tags)
  PROVE  Part(tags, big, i) \in Nat /\ tags[i] \in Tag
<1>1. tags[i] \in Tag
  OBVIOUS
<1>2. tags[i].len \in Nat
  BY <1>1 DEF Tag
<1> QED BY <1>1, <1>2 DEF Part

\* DeferredLen is the running sum of the parts.
LEMMA DeferredLenSums ==
  ASSUME NEW tags \in Seq(Tag), NEW big
  PROVE  /\ Len(tags) \in Nat /\ Parts(tags, big) \in [1..Len(tags) -> Nat]
         /\ Sums(DeferredLen(tags, big), Len(tags), 0, Parts(tags, big))
<1> DEFINE n == Len(tags)
           parts == [i \in 1..n |-> Part(tags, big, i)]
<1>0. parts = Parts(tags, big)
  BY DEF Parts
<1>1. n \in Nat /\ parts \in [1..n -> Nat]
  BY PartType
<1>2. ASSUME NEW f
      PROVE  Sums(f, n, 0, parts)
               <=> f = [i \in 0..Len(tags) |->
                         IF i = 0 THEN 0
                         ELSE f[i - 1] + IF Deferred(tags[i], big) THEN tags[i].len ELSE 0]
  <2> DEFINE left  == [i \in 0..n |-> IF i = 0 THEN 0 ELSE f[i - 1] + parts[i]]
             right == [i \in 0..n |-> IF i = 0 THEN 0
                         ELSE f[i - 1] + IF Deferred(tags[i], big) THEN tags[i].len ELSE 0]
  <2>1. \A i \in 0..n : i # 0 => i \in 1..n
    BY <1>1
  <2>2. \A i \in 1..n : parts[i] = IF Deferred(tags[i], big) THEN tags[i].len ELSE 0
    BY DEF Part
  <2>3. left = right
    BY <2>1, <2>2
  <2> HIDE DEF left, right
  <2>4. Sums(f, n, 0, parts) <=> f = left
    BY DEF Sums, left
  <2>5. Sums(f, n, 0, parts) <=> f = right
    BY <2>3, <2>4
  <2> QED BY <2>5 DEF right
<1> HIDE DEF n, parts
<1>3. PICK f : Sums(f, n, 0, parts)
  BY <1>1, RunningSum
<1>4. \E sum : sum = [i \in 0..Len(tags) |->
             IF i = 0 THEN 0
             ELSE sum[i - 1] + IF Deferred(tags[i], big) THEN tags[i].len ELSE 0]
  BY <1>2, <1>3
<1>5. DeferredLen(tags, big) = [i \in 0..Len(tags) |->
             IF i = 0 THEN 0
             ELSE DeferredLen(tags, big)[i - 1]
                    + IF Deferred(tags[i], big) THEN tags[i].len ELSE 0]
  BY <1>4 DEF DeferredLen
<1>6. Sums(DeferredLen(tags, big), n, 0, parts)
  BY <1>2, <1>5
<1> QED BY <1>0, <1>1, <1>6 DEF n

\* The deferred area grows by the part of each tag.
LEMMA DeferredLenType ==
  ASSUME NEW tags \in Seq(Tag), NEW big
  PROVE  /\ DeferredLen(tags, big) \in [0..Len(tags) -> Nat]
         /\ DeferredLen(tags, big)[0] = 0
         /\ \A n \in 1..Len(tags) :
              DeferredLen(tags, big)[n] = DeferredLen(tags, big)[n - 1] + Part(tags, big, n)
         /\ \A m, n \in 0..Len(tags) :
              m <= n => DeferredLen(tags, big)[m] <= DeferredLen(tags, big)[n]
<1> DEFINE D == DeferredLen(tags, big)
           N == Len(tags)
           parts == Parts(tags, big)
<1>1. N \in Nat /\ parts \in [1..N -> Nat] /\ Sums(D, N, 0, parts)
  BY DeferredLenSums
<1>2. \A n \in 1..N : parts[n] = Part(tags, big, n) /\ n \in 0..N /\ n # 0
  BY DEF Parts
<1> HIDE DEF D, N, parts
<1>3. /\ D \in [0..N -> Nat] /\ D[0] = 0
      /\ \A m, n \in 0..N : m <= n => D[m] <= D[n]
  BY <1>1, RunningSumType
<1>4. \A n \in 0..N : D[n] = IF n = 0 THEN 0 ELSE D[n - 1] + parts[n]
  BY <1>1 DEF Sums
<1>5. \A n \in 1..N : D[n] = D[n - 1] + Part(tags, big, n)
  BY <1>2, <1>4
<1> QED BY <1>3, <1>5 DEF D, N

----------------------------------------------------------------------------
\* The sizes of the pieces of an IFD and of a header are positive.
LEMMA SizesType ==
  ASSUME NEW big \in BOOLEAN
  PROVE  /\ CountSize(big) \in Nat \ {0} /\ EntrySize(big) \in Nat \ {0}
         /\ NextPtrSize(big) \in Nat \ {0} /\ ValueField(big) \in Nat
         /\ Width(big) \in Nat \ {0} /\ HeaderLen(big) \in Nat \ {0}
BY DEF CountSize, EntrySize, NextPtrSize, ValueField, Width, ElementWidth, HeaderLen

\* So is the room that n entries take.
LEMMA TimesEntrySize ==
  ASSUME NEW big \in BOOLEAN, NEW n \in Nat
  PROVE  n * EntrySize(big) \in Nat
BY DEF EntrySize

\* Every place in an IFD that write_ifd or a patch writes lies at or after its start.
LEMMA PlacesType ==
  ASSUME NEW tags \in Seq(Tag), NEW big \in BOOLEAN, NEW off \in Nat
  PROVE  /\ NextPtrOffset(off, tags, big) \in Nat /\ NextPtrOffset(off, tags, big) >= off
         /\ DeferredStart(off, tags, big) \in Nat /\ DeferredStart(off, tags, big) >= off
         /\ IfdEnd(off, tags, big) \in Nat /\ IfdEnd(off, tags, big) >= off
         /\ \A i \in DOMAIN tags :
              /\ EntryOffset(off, big, i) \in Nat /\ EntryOffset(off, big, i) >= off
              /\ DeferredOffset(off, tags, big, i) \in Nat
              /\ DeferredOffset(off, tags, big, i) >= off
<1>1. Len(tags) \in Nat /\ Len(tags) * EntrySize(big) \in Nat
  BY TimesEntrySize
<1>2. NextPtrOffset(off, tags, big) \in Nat /\ NextPtrOffset(off, tags, big) >= off
  BY <1>1, SizesType DEF NextPtrOffset
<1>3. DeferredStart(off, tags, big) \in Nat /\ DeferredStart(off, tags, big) >= off
  BY SMTT(30), <1>1, SizesType DEF DeferredStart
<1>4. \A n \in 0..Len(tags) : DeferredLen(tags, big)[n] \in Nat
  BY DeferredLenType
<1>5. IfdEnd(off, tags, big) \in Nat /\ IfdEnd(off, tags, big) >= off
  BY <1>1, <1>3, <1>4 DEF IfdEnd
<1>6. ASSUME NEW i \in DOMAIN tags
      PROVE  /\ EntryOffset(off, big, i) \in Nat /\ EntryOffset(off, big, i) >= off
             /\ DeferredOffset(off, tags, big, i) \in Nat
             /\ DeferredOffset(off, tags, big, i) >= off
  <2>1. i \in 1..Len(tags) /\ i - 1 \in 0..Len(tags) /\ i - 1 \in Nat
    BY <1>6
  <2>2. (i - 1) * EntrySize(big) \in Nat
    BY <2>1, TimesEntrySize
  <2>3. DeferredLen(tags, big)[i - 1] \in Nat
    BY <1>4, <2>1
  <2>4. EntryOffset(off, big, i) \in Nat /\ EntryOffset(off, big, i) >= off
    <3>1. CountSize(big) \in Nat
      BY SizesType
    <3> QED BY <2>2, <3>1 DEF EntryOffset
  <2>5. DeferredOffset(off, tags, big, i) \in Nat /\ DeferredOffset(off, tags, big, i) >= off
    BY <1>3, <2>3 DEF DeferredOffset
  <2> QED BY <2>4, <2>5
<1> QED BY <1>2, <1>3, <1>5, <1>6

(***************************************************************************)
(* estimate_ifd_size is exact: it is the number of bytes write_ifd emits,  *)
(* for every tag list, in either variant and wherever the IFD starts.      *)
(***************************************************************************)
THEOREM EstimateIsExact ==
  ASSUME NEW tags \in Seq(Tag), NEW big \in BOOLEAN, NEW off \in Nat
  PROVE  IfdEnd(off, tags, big) = off + EstimateIfdSize(big, tags)
<1>1. Len(tags) \in Nat /\ Len(tags) * EntrySize(big) \in Nat
  BY TimesEntrySize
<1>2. DeferredLen(tags, big)[Len(tags)] \in Nat
  BY DeferredLenType
<1>3. CountSize(big) \in Nat /\ NextPtrSize(big) \in Nat
  BY SizesType
<1> DEFINE entries == Len(tags) * EntrySize(big)
           deferred == DeferredLen(tags, big)[Len(tags)]
<1>4. IfdEnd(off, tags, big) = off + CountSize(big) + entries + NextPtrSize(big) + deferred
  BY DEF IfdEnd, DeferredStart
<1>5. EstimateIfdSize(big, tags) = CountSize(big) + entries + NextPtrSize(big) + deferred
  BY DEF EstimateIfdSize
<1>6. entries \in Nat /\ deferred \in Nat
  BY <1>1, <1>2
<1> HIDE DEF entries, deferred
<1> QED BY <1>3, <1>4, <1>5, <1>6

\* estimate_ifd_size is a natural number, and the room the IFD takes.
LEMMA EstimateType ==
  ASSUME NEW tags \in Seq(Tag), NEW isBig \in BOOLEAN
  PROVE  /\ EstimateIfdSize(isBig, tags) \in Nat
         /\ IfdEnd(0, tags, isBig) = EstimateIfdSize(isBig, tags)
<1>1. EstimateIfdSize(isBig, tags) \in Nat
  <2>1. Len(tags) \in Nat /\ Len(tags) * EntrySize(isBig) \in Nat
    BY TimesEntrySize
  <2>2. DeferredLen(tags, isBig)[Len(tags)] \in Nat
    BY DeferredLenType
  <2>3. CountSize(isBig) \in Nat /\ NextPtrSize(isBig) \in Nat
    BY SizesType
  <2> QED BY <2>1, <2>2, <2>3 DEF EstimateIfdSize
<1>2. IfdEnd(0, tags, isBig) = 0 + EstimateIfdSize(isBig, tags)
  BY EstimateIsExact
<1> QED BY <1>1, <1>2

\* An IFD ends as far behind its start wherever it lies.
LEMMA IfdEndShift ==
  ASSUME NEW tags \in Seq(Tag), NEW isBig \in BOOLEAN, NEW off \in Nat
  PROVE  IfdEnd(off, tags, isBig) = off + IfdEnd(0, tags, isBig) /\ IfdEnd(0, tags, isBig) \in Nat
<1>1. /\ IfdEnd(off, tags, isBig) = off + EstimateIfdSize(isBig, tags)
      /\ IfdEnd(0, tags, isBig) = 0 + EstimateIfdSize(isBig, tags)
  BY EstimateIsExact
<1>2. IfdEnd(0, tags, isBig) \in Nat
  BY PlacesType
<1>3. EstimateIfdSize(isBig, tags) \in Nat
  <2>1. Len(tags) * EntrySize(isBig) \in Nat
    BY TimesEntrySize
  <2>2. DeferredLen(tags, isBig)[Len(tags)] \in Nat
    BY DeferredLenType
  <2> QED BY SMTT(30), <2>1, <2>2, SizesType DEF EstimateIfdSize
<1> QED BY <1>1, <1>2, <1>3

\* An IFD takes at least one byte.
LEMMA IfdEndPositive ==
  ASSUME NEW tags \in Seq(Tag), NEW big \in BOOLEAN
  PROVE  IfdEnd(0, tags, big) - 1 \in Nat
<1>1. Len(tags) * EntrySize(big) \in Nat
  BY TimesEntrySize
<1>2. DeferredLen(tags, big)[Len(tags)] \in Nat
  BY DeferredLenType
<1>3. CountSize(big) \in Nat \ {0} /\ NextPtrSize(big) \in Nat
  BY SizesType
<1> QED BY <1>1, <1>2, <1>3 DEF IfdEnd, DeferredStart

(***************************************************************************)
(* The deferred values write_ifd lays out lie behind the next-IFD pointer, *)
(* inside the IFD, one after the other without overlap.                    *)
(***************************************************************************)
THEOREM DeferredValuesDisjoint ==
  ASSUME NEW tags \in Seq(Tag), NEW big \in BOOLEAN, NEW off \in Nat,
         NEW i \in DOMAIN tags, Deferred(tags[i], big)
  PROVE  /\ DeferredOffset(off, tags, big, i) >= DeferredStart(off, tags, big)
         /\ DeferredOffset(off, tags, big, i) + tags[i].len <= IfdEnd(off, tags, big)
         /\ \A j \in DOMAIN tags : i < j =>
              DeferredOffset(off, tags, big, i) + tags[i].len
                <= DeferredOffset(off, tags, big, j)
<1> DEFINE D == DeferredLen(tags, big)
<1>1. i \in 1..Len(tags) /\ i - 1 \in 0..Len(tags) /\ i \in 0..Len(tags)
  OBVIOUS
<1>2. D[i] = D[i - 1] + tags[i].len /\ tags[i].len \in Nat
  BY <1>1, DeferredLenType, PartType DEF Part
<1>3. \A n \in 0..Len(tags) : D[n] \in Nat
  BY DeferredLenType
<1>4. DeferredStart(off, tags, big) \in Nat
  BY PlacesType
<1>5. D[i] <= D[Len(tags)]
  BY <1>1, DeferredLenType
<1>6. ASSUME NEW j \in DOMAIN tags, i < j PROVE D[i] <= D[j - 1]
  <2>1. j - 1 \in 0..Len(tags) /\ i <= j - 1
    BY <1>6
  <2> QED BY <1>1, <2>1, DeferredLenType
<1>7. \A j \in DOMAIN tags : j - 1 \in 0..Len(tags)
  OBVIOUS
<1> DEFINE start == DeferredStart(off, tags, big)
<1>8. \A k \in DOMAIN tags : DeferredOffset(off, tags, big, k) = start + D[k - 1]
  BY DEF DeferredOffset
<1>9. IfdEnd(off, tags, big) = start + D[Len(tags)]
  BY DEF IfdEnd
<1>10. start \in Nat /\ D[i - 1] \in Nat /\ D[i] \in Nat /\ D[Len(tags)] \in Nat
  <2>1. Len(tags) \in 0..Len(tags)
    OBVIOUS
  <2> QED BY <1>1, <1>3, <1>4, <2>1
<1> HIDE DEF D, start
<1>11. DeferredOffset(off, tags, big, i) >= start
  BY <1>8, <1>10
<1>12. start + D[i - 1] + tags[i].len = start + D[i]
  BY <1>2, <1>10
<1>13. DeferredOffset(off, tags, big, i) + tags[i].len <= IfdEnd(off, tags, big)
  BY <1>5, <1>8, <1>9, <1>10, <1>12
<1>14. ASSUME NEW j \in DOMAIN tags, i < j
       PROVE  DeferredOffset(off, tags, big, i) + tags[i].len
                <= DeferredOffset(off, tags, big, j)
  <2>1. D[j - 1] \in Nat /\ D[i] <= D[j - 1]
    BY <1>3, <1>6, <1>7, <1>14
  <2> QED BY <1>8, <1>10, <1>12, <1>14, <2>1, SMTT(30)
<1> QED BY <1>11, <1>13, <1>14 DEF start

----------------------------------------------------------------------------
Fields == [off : Nat, len : Nat \ {0}, val : [num : Int]]

\* A number put at a place of the file is a well-formed extent.
LEMMA FieldType ==
  ASSUME NEW off \in Nat, NEW len \in Nat \ {0}, NEW n \in Int
  PROVE  Field(off, len, n) \in Fields
BY DEF Field, Fields

\* The elements of an array follow its start.
LEMMA ElementPlace ==
  ASSUME NEW off \in Nat, NEW big \in BOOLEAN, NEW j \in Nat \ {0}
  PROVE  off + (j - 1) * Width(big) \in Nat /\ off + (j - 1) * Width(big) >= off
<1>1. (j - 1) * Width(big) \in Nat
  BY DEF Width, ElementWidth
<1> QED BY <1>1

\* write_ifd leaves nothing but numbers, at typed places.
LEMMA IfdFieldsType ==
  ASSUME NEW tags \in Seq(Tag), NEW big \in BOOLEAN, NEW off \in Nat
  PROVE  IfdFields(off, tags, big) \subseteq Fields
<1> DEFINE entry(i) == EntryOffset(off, big, i)
           data(i)  == DeferredOffset(off, tags, big, i)
<1>1. \A i \in DOMAIN tags : entry(i) \in Nat /\ data(i) \in Nat
  BY PlacesType
<1>2. /\ CountSize(big) \in Nat \ {0} /\ NextPtrSize(big) \in Nat \ {0}
      /\ Width(big) \in Nat \ {0} /\ ValueField(big) \in Nat
  BY SizesType
<1>3. NextPtrOffset(off, tags, big) \in Nat
  BY PlacesType
<1>4. \A i \in DOMAIN tags : tags[i].code \in Nat /\ tags[i].len \in Nat
  <2>1. \A i \in DOMAIN tags : tags[i] \in Tag
    OBVIOUS
  <2> QED BY <2>1 DEF Tag
<1>5. \A i \in DOMAIN tags : tags[i].len \div Width(big) \in Int
  BY <1>4 DEF Width, ElementWidth
<1>6. {Field(off, CountSize(big), Len(tags)),
       Field(NextPtrOffset(off, tags, big), NextPtrSize(big), 0)} \subseteq Fields
  <2>1. Field(off, CountSize(big), Len(tags)) \in Fields
    BY <1>2, FieldType
  <2>2. Field(NextPtrOffset(off, tags, big), NextPtrSize(big), 0) \in Fields
    BY <1>2, <1>3, FieldType
  <2> QED BY <2>1, <2>2
<1>7. \A i \in DOMAIN tags : Field(entry(i), 2, tags[i].code) \in Fields
  BY <1>1, <1>4, FieldType
<1>8. \A i \in DOMAIN tags :
        Field(entry(i) + ValueField(big), Width(big), data(i)) \in Fields
  BY <1>1, <1>2, FieldType
<1>9. \A i \in DOMAIN tags :
        Field(entry(i) + 4, Width(big), tags[i].len \div Width(big)) \in Fields
  BY <1>1, <1>2, <1>5, FieldType
<1>10. ASSUME NEW at \in Nat, NEW n \in Int
       PROVE  ArrayFields(at, n, big) \subseteq Fields
  <2> SUFFICES ASSUME NEW j \in 1..n
               PROVE  Field(at + (j - 1) * Width(big), Width(big), 0) \in Fields
    BY DEF ArrayFields
  <2>1. at + (j - 1) * Width(big) \in Nat
    BY ElementPlace
  <2> QED BY <1>2, <2>1, FieldType
<1>11. \A i \in DOMAIN tags :
         /\ ArrayFields(data(i), tags[i].len \div Width(big), big) \subseteq Fields
         /\ ArrayFields(entry(i) + ValueField(big), tags[i].len \div Width(big), big)
              \subseteq Fields
  BY <1>1, <1>2, <1>5, <1>10
<1> QED BY <1>6, <1>7, <1>8, <1>9, <1>11 DEF IfdFields

\* Patches go to the IFD they patch, never in front of it.
LEMMA PatchPlaces ==
  ASSUME NEW tags \in Seq(Tag), NEW big \in BOOLEAN, NEW off \in Nat, NEW code
  PROVE  /\ \A a \in FindTagValueOffset(off, tags, big, code) : a \in Nat /\ a >= off
         /\ \A a \in DeferredDataOffset(off, tags, big, code) : a \in Nat /\ a >= off
<1>1. IndexOf(tags, code) \subseteq DOMAIN tags
  BY DEF IndexOf
<1>2. \A i \in IndexOf(tags, code) :
        DeferredOffset(off, tags, big, i) \in Nat /\ DeferredOffset(off, tags, big, i) >= off
  BY <1>1, PlacesType
<1>3. \A i \in IndexOf(tags, code) :
        /\ EntryOffset(off, big, i) + ValueField(big) \in Nat
        /\ EntryOffset(off, big, i) + ValueField(big) >= off
  <2>1. ValueField(big) \in Nat
    BY SizesType
  <2>2. \A i \in IndexOf(tags, code) :
          EntryOffset(off, big, i) \in Nat /\ EntryOffset(off, big, i) >= off
    BY <1>1, PlacesType
  <2> QED BY <2>1, <2>2
<1>4. \A a \in DeferredDataOffset(off, tags, big, code) : a \in Nat /\ a >= off
  BY <1>2 DEF DeferredDataOffset
<1>5. \A a \in FindTagValueOffset(off, tags, big, code) : a \in Nat /\ a >= off
  BY <1>2, <1>3 DEF FindTagValueOffset, DeferredOffset
<1> QED BY <1>4, <1>5

----------------------------------------------------------------------------
(***************************************************************************)
(* Sorting by code is a reordering: c names the tag at each place.         *)
(***************************************************************************)
SortsBy(c, tags) ==
  /\ c \in [1..Len(tags) -> 1..Len(tags)]
  /\ \A i \in 1..Len(tags) : \E k \in 1..Len(tags) : c[k] = i
  /\ \A k, m \in 1..Len(tags) : k < m => Precedes(tags, c[k], c[m])
  /\ SortedByCode(tags) = [k \in 1..Len(tags) |-> tags[c[k]]]

\* Precedes is a strict total order on the tags of a list.
LEMMA PrecedesOrders ==
  ASSUME NEW tags \in Seq(Tag)
  PROVE  /\ \A i \in 1..Len(tags) : ~Precedes(tags, i, i)
         /\ \A i, j \in 1..Len(tags) : i # j => Precedes(tags, i, j) \/ Precedes(tags, j, i)
         /\ \A i, j, k \in 1..Len(tags) :
              Precedes(tags, i, j) /\ Precedes(tags, j, k) => Precedes(tags, i, k)
<1>1. \A i \in 1..Len(tags) : tags[i].code \in Nat
  <2>1. \A i \in 1..Len(tags) : tags[i] \in Tag
    OBVIOUS
  <2> QED BY <2>1 DEF Tag
<1> QED BY <1>1 DEF Precedes

\* Every tag has a rank of its own, and ranks follow the order of the sort.
LEMMA RanksDiffer ==
  ASSUME NEW tags \in Seq(Tag)
  PROVE  /\ \A i \in 1..Len(tags) : RankOf(tags, i) \in 1..Len(tags)
         /\ \A i, j \in 1..Len(tags) :
              Precedes(tags, i, j) => RankOf(tags, i) < RankOf(tags, j)
<1> DEFINE D == 1..Len(tags)
           below(i) == {j \in D : Precedes(tags, j, i)}
<1>1. DOMAIN tags = D /\ IsFiniteSet(D) /\ Cardinality(D) = Len(tags) /\ Len(tags) \in Nat
  BY FS_Interval
<1>2. \A i \in D : RankOf(tags, i) = 1 + Cardinality(below(i))
  BY <1>1 DEF RankOf
<1>3. \A i \in D : IsFiniteSet(below(i)) /\ Cardinality(below(i)) \in Nat
  BY <1>1, FS_Subset, FS_CardinalityType
<1>4. \A i \in D : i \notin below(i)
  BY PrecedesOrders
<1>5. ASSUME NEW i \in D PROVE RankOf(tags, i) \in D
  <2>1. below(i) \in SUBSET D /\ below(i) # D
    BY <1>4
  <2>2. Cardinality(below(i)) <= Len(tags) /\ Cardinality(below(i)) # Len(tags)
    <3> HIDE DEF below
    <3>1. /\ Cardinality(below(i)) <= Cardinality(D)
          /\ Cardinality(below(i)) = Cardinality(D) => below(i) = D
      BY ONLY <1>1, <2>1, FS_Subset
    <3> QED BY <1>1, <2>1, <3>1
  <2>3. Cardinality(below(i)) \in Nat /\ RankOf(tags, i) = 1 + Cardinality(below(i))
    BY <1>2, <1>3
  <2> HIDE DEF below
  <2> QED BY <1>1, <2>2, <2>3
<1>6. ASSUME NEW i \in D, NEW j \in D, Precedes(tags, i, j)
      PROVE  RankOf(tags, i) < RankOf(tags, j)
  <2>1. below(i) \in SUBSET below(j) /\ i \in below(j)
    BY <1>6, PrecedesOrders
  <2>2. below(i) # below(j)
    BY <1>4, <2>1
  <2>3. Cardinality(below(i)) <= Cardinality(below(j))
        /\ Cardinality(below(i)) # Cardinality(below(j))
    BY <1>3, <2>1, <2>2, FS_Subset
  <2> HIDE DEF below
  <2> QED BY <1>2, <1>3, <2>3
<1> QED BY <1>5, <1>6

\* sort_by_key only reorders: some bijection of the positions does what it does.
LEMMA SortingReorders ==
  ASSUME NEW tags \in Seq(Tag)
  PROVE  \E c : SortsBy(c, tags)
<1> DEFINE D == 1..Len(tags)
           rank == [i \in D |-> RankOf(tags, i)]
           c == [k \in D |-> CHOOSE i \in D : RankOf(tags, i) = k]
<1>1. rank \in [D -> D] /\ \A i \in D : rank[i] = RankOf(tags, i)
  BY RanksDiffer
<1>2. rank \in Injection(D, D)
  <2>1. ASSUME NEW i \in D, NEW j \in D, rank[i] = rank[j] PROVE i = j
    <3>1. i # j => RankOf(tags, i) < RankOf(tags, j) \/ RankOf(tags, j) < RankOf(tags, i)
      BY PrecedesOrders, RanksDiffer
    <3>2. RankOf(tags, i) = RankOf(tags, j) /\ RankOf(tags, i) \in Int
      BY <1>1, <2>1, RanksDiffer
    <3> QED BY <3>1, <3>2
  <2> HIDE DEF rank
  <2> QED BY <1>1, <2>1 DEF Injection, IsInjective
<1>3. rank \in Surjection(D, D)
  <2> HIDE DEF rank
  <2> QED BY <1>2, FS_Injection, FS_Interval
<1>4. \A k \in D : \E i \in D : RankOf(tags, i) = k
  <2> HIDE DEF rank
  <2> QED BY <1>1, <1>3 DEF Surjection
<1>5. \A k \in D : c[k] \in D /\ RankOf(tags, c[k]) = k
  BY <1>4
<1>6. c \in [D -> D]
  BY <1>5
<1>7. \A i \in D : c[RankOf(tags, i)] = i
  <2>1. \A i, j \in D : RankOf(tags, i) = RankOf(tags, j) => i = j
    <3> HIDE DEF rank
    <3> QED BY <1>1, <1>2 DEF Injection, IsInjective
  <2> HIDE DEF c
  <2> QED BY <1>5, <2>1, RanksDiffer
<1>8. SortedByCode(tags) = [k \in D |-> tags[c[k]]]
  <2>1. DOMAIN tags = D
    OBVIOUS
  <2> QED BY <2>1 DEF SortedByCode
<1> HIDE DEF c
<1>9. ASSUME NEW k \in D, NEW m \in D, k < m PROVE Precedes(tags, c[k], c[m])
  <2>1. c[k] # c[m] /\ ~Precedes(tags, c[m], c[k])
    BY <1>5, <1>9, RanksDiffer
  <2> QED BY <1>5, <2>1, PrecedesOrders
<1>10. SortsBy(c, tags)
  BY <1>6, <1>7, <1>8, <1>9, RanksDiffer DEF SortsBy
<1> QED BY <1>10

----------------------------------------------------------------------------
DistinctCodes(s) == \A i, j \in 1..Len(s) : s[i].code = s[j].code => i = j
TagSet(s) == {s[i] : i \in 1..Len(s)}
Codes(s) == {s[i].code : i \in 1..Len(s)}

\* Tag lists without a common code join to one without a repeated code.
LEMMA JoinedTags ==
  ASSUME NEW s \in Seq(Tag), NEW t \in Seq(Tag), DistinctCodes(s), DistinctCodes(t),
         Codes(s) \cap Codes(t) = {}
  PROVE  /\ s \o t \in Seq(Tag) /\ DistinctCodes(s \o t)
         /\ TagSet(s \o t) = TagSet(s) \cup TagSet(t)
         /\ Codes(s \o t) = Codes(s) \cup Codes(t)
<1> DEFINE u == s \o t
           m == Len(s)
           n == Len(t)
<1>1. u \in Seq(Tag) /\ Len(u) = m + n /\ m \in Nat /\ n \in Nat
      /\ \A i \in 1..m : u[i] = s[i]
  OBVIOUS
<1>2. \A j \in 1..n : m + j \in 1..(m + n) /\ u[m + j] = t[j]
  OBVIOUS
<1> HIDE DEF u
<1>3. \A i \in 1..Len(u) : (i \in 1..m /\ u[i] = s[i])
                          \/ \E j \in 1..n : i = m + j /\ u[i] = t[j]
  <2> SUFFICES ASSUME NEW i \in 1..Len(u), ~(i \in 1..m)
               PROVE  \E j \in 1..n : i = m + j /\ u[i] = t[j]
    BY <1>1
  <2>1. i - m \in 1..n /\ i = m + (i - m)
    BY <1>1
  <2>2. u[m + (i - m)] = t[i - m]
    BY <1>2, <2>1
  <2> QED BY <2>1, <2>2
<1>4. \A i \in 1..m : i \in 1..Len(u)
  BY <1>1
<1>5. TagSet(u) = TagSet(s) \cup TagSet(t)
  <2>1. TagSet(u) \subseteq TagSet(s) \cup TagSet(t)
    BY <1>3 DEF TagSet
  <2>2. TagSet(s) \subseteq TagSet(u)
    BY <1>1, <1>4 DEF TagSet
  <2>3. TagSet(t) \subseteq TagSet(u)
    BY <1>1, <1>2 DEF TagSet
  <2> QED BY <2>1, <2>2, <2>3
<1>6. Codes(u) = Codes(s) \cup Codes(t)
  <2>1. Codes(u) \subseteq Codes(s) \cup Codes(t)
    BY <1>3 DEF Codes
  <2>2. Codes(s) \subseteq Codes(u)
    BY <1>1, <1>4 DEF Codes
  <2>3. Codes(t) \subseteq Codes(u)
    BY <1>1, <1>2 DEF Codes
  <2> QED BY <2>1, <2>2, <2>3
<1>7. DistinctCodes(u)
  <2> SUFFICES ASSUME NEW i \in 1..Len(u), NEW j \in 1..Len(u), u[i].code = u[j].code
               PROVE  i = j
    BY DEF DistinctCodes
  <2>1. \A k \in 1..m, l \in 1..n : s[k].code # t[l].code
    BY DEF Codes
  <2>2. CASE i \in 1..m /\ u[i] = s[i]
    <3>1. j \in 1..m /\ u[j] = s[j]
      BY <1>3, <2>1, <2>2
    <3> QED BY <2>2, <3>1 DEF DistinctCodes
  <2>3. CASE \E k \in 1..n : i = m + k /\ u[i] = t[k]
    <3>1. \E l \in 1..n : j = m + l /\ u[j] = t[l]
      BY <1>3, <2>1, <2>3
    <3> QED BY <2>3, <3>1 DEF DistinctCodes
  <2> QED BY <1>3, <2>2, <2>3
<1> QED BY <1>1, <1>5, <1>6, <1>7 DEF u

\* The facts that follow a list of tags through its assembly, for one tag,
LEMMA OneTag ==
  ASSUME NEW tag \in Tag
  PROVE  /\ <<tag>> \in Seq(Tag) /\ DistinctCodes(<<tag>>)
         /\ TagSet(<<tag>>) = {tag} /\ Codes(<<tag>>) = {tag.code}
BY DEF DistinctCodes, TagSet, Codes

\* for no tag,
LEMMA NoTag ==
  /\ <<>> \in Seq(Tag) /\ DistinctCodes(<<>>) /\ TagSet(<<>>) = {} /\ Codes(<<>>) = {}
BY DEF DistinctCodes, TagSet, Codes

\* and for two tags of different codes.
LEMMA TwoTags ==
  ASSUME NEW s \in Tag, NEW t \in Tag, s.code # t.code
  PROVE  /\ <<s, t>> \in Seq(Tag) /\ DistinctCodes(<<s, t>>)
         /\ TagSet(<<s, t>>) = {s, t} /\ Codes(<<s, t>>) = {s.code, t.code}
<1>1. <<s, t>> \in Seq(Tag) /\ Len(<<s, t>>) = 2 /\ <<s, t>>[1] = s /\ <<s, t>>[2] = t
  OBVIOUS
<1>2. 1..2 = {1, 2}
  OBVIOUS
<1> QED BY <1>1, <1>2 DEF DistinctCodes, TagSet, Codes

\* Sorting keeps the tags; if no code is repeated the codes increase strictly.
LEMMA SortedFacts ==
  ASSUME NEW tags \in Seq(Tag), DistinctCodes(tags)
  PROVE  LET sorted == SortedByCode(tags)
         IN /\ sorted \in Seq(Tag) /\ Len(sorted) = Len(tags)
            /\ TagSet(sorted) = TagSet(tags)
            /\ \A k, m \in 1..Len(sorted) : k < m => sorted[k].code < sorted[m].code
<1> DEFINE sorted == SortedByCode(tags)
<1>1. PICK c : SortsBy(c, tags)
  BY SortingReorders
<1>2. /\ c \in [1..Len(tags) -> 1..Len(tags)]
      /\ \A i \in 1..Len(tags) : \E k \in 1..Len(tags) : c[k] = i
      /\ \A k, m \in 1..Len(tags) : k < m => Precedes(tags, c[k], c[m])
      /\ sorted = [k \in 1..Len(tags) |-> tags[c[k]]]
  BY <1>1 DEF SortsBy
<1> HIDE DEF sorted
<1>3. \A k \in 1..Len(tags) : tags[c[k]] \in Tag
  BY <1>2
<1>4. sorted \in Seq(Tag) /\ Len(sorted) = Len(tags)
  BY <1>2, <1>3
<1>5. TagSet(sorted) = TagSet(tags)
  BY <1>2, <1>4 DEF TagSet
<1>6. ASSUME NEW k \in 1..Len(tags), NEW m \in 1..Len(tags), k < m
      PROVE  sorted[k].code < sorted[m].code
  <2>1. Precedes(tags, c[k], c[m])
    BY <1>2, <1>6
  <2>2. ~Precedes(tags, c[m], c[k]) /\ c[k] # c[m]
    BY <1>2, <2>1, PrecedesOrders
  <2>3. tags[c[k]].code # tags[c[m]].code
    <3>1. c[k] \in 1..Len(tags) /\ c[m] \in 1..Len(tags)
      BY <1>2
    <3> QED BY <2>2, <3>1 DEF DistinctCodes
  <2>4. sorted[k] = tags[c[k]] /\ sorted[m] = tags[c[m]]
    BY <1>2
  <2> QED BY <2>1, <2>3, <2>4 DEF Precedes
<1> QED BY <1>4, <1>5, <1>6 DEF sorted

\* A builder that validates has at least one block.
LEMMA BlockCounts ==
  ASSUME NEW b \in Builder, Validate(b)
  PROVE  CheckedBlockCount(b) \in Nat \ {0}
<1>1. b.height \in Nat /\ b.width \in Nat /\ b.spp \in Nat /\ b.blockHeight \in Nat
      /\ b.blockWidth \in Nat
  BY DEF Builder
<1>2. b.height > 0 /\ b.width > 0 /\ b.spp > 0 /\ b.blockHeight > 0
      /\ (b.layout # "strips" => b.blockWidth > 0)
  BY DEF Validate, CheckedLayout
<1>3. ASSUME NEW x \in Nat \ {0}, NEW y \in Nat \ {0} PROVE DivCeil(x, y) \in Nat \ {0}
  <2>1. x + y - 1 \in Nat
    OBVIOUS
  <2>2. (x + y - 1) \div y \in Nat
    BY <2>1, Quotient
  <2>3. 0 < (x + y - 1) \div y
    <3>1. 0 * y < x
      OBVIOUS
    <3> QED BY <3>1, RoundedUpCounts
  <2> QED BY <2>2, <2>3 DEF DivCeil
<1>4. ASSUME NEW x \in Nat \ {0}, NEW y \in Nat \ {0} PROVE x * y \in Nat \ {0}
  OBVIOUS
<1>5. BlocksPerPlane(b) \in Nat \ {0}
  <2>1. CASE b.layout = "strips"
    BY <1>1, <1>2, <1>3, <2>1 DEF BlocksPerPlane
  <2>2. CASE b.layout # "strips"
    <3>1. DivCeil(b.width, b.blockWidth) \in Nat \ {0} /\ DivCeil(b.height, b.blockHeight) \in Nat \ {0}
      <4>1. {b.width, b.height, b.blockWidth, b.blockHeight} \subseteq Nat \ {0}
        BY <1>1, <1>2, <2>2
      <4> QED BY <1>3, <4>1
    <3> QED BY <1>4, <2>2, <3>1 DEF BlocksPerPlane
  <2> QED BY <2>1, <2>2
<1> QED BY <1>1, <1>2, <1>4, <1>5 DEF CheckedBlockCount

SixTags(b) ==
  <<[code |-> TagImageWidth, len |-> 4], [code |-> TagImageLength, len |-> 4],
    [code |-> TagBitsPerSample, len |-> 2 * b.spp], [code |-> TagCompression, len |-> 2],
    [code |-> TagPhotometric, len |-> 2], [code |-> TagSamplesPerPixel, len |-> 2]>>

\* The tags build_image_tags always writes have distinct codes.
LEMMA SixTagsFacts ==
  ASSUME NEW b \in Builder
  PROVE  /\ SixTags(b) \in Seq(Tag) /\ DistinctCodes(SixTags(b))
         /\ Codes(SixTags(b)) = {256, 257, 258, 259, 262, 277}
<1>1. b.spp \in Nat
  BY DEF Builder
<1>2. 1..6 = {1, 2, 3, 4, 5, 6}
  OBVIOUS
<1> DEFINE s == SixTags(b)
<1>3. s \in Seq(Tag) /\ Len(s) = 6
  BY <1>1 DEF SixTags, Tag, TagImageWidth, TagImageLength, TagBitsPerSample, TagCompression,
     TagPhotometric, TagSamplesPerPixel
<1>4. s[1].code = 256 /\ s[2].code = 257 /\ s[3].code = 258 /\ s[4].code = 259
      /\ s[5].code = 262 /\ s[6].code = 277
  BY DEF SixTags, TagImageWidth, TagImageLength, TagBitsPerSample, TagCompression,
     TagPhotometric, TagSamplesPerPixel
<1> HIDE DEF s
<1>5. DistinctCodes(s)
  BY SMTT(30), <1>2, <1>3, <1>4 DEF DistinctCodes
<1>6. Codes(s) = {256, 257, 258, 259, 262, 277}
  BY <1>2, <1>3, <1>4 DEF Codes
<1> QED BY <1>3, <1>5, <1>6 DEF s

\* The tag list before it is sorted.
ListedTags(b, big) ==
  When(b.overview, [code |-> TagNewSubfileType, len |-> 4]) \o SixTags(b)
    \o When(b.planar, [code |-> TagPlanarConfig, len |-> 2])
    \o <<[code |-> TagSampleFormat, len |-> 2 * b.spp]>> \o LayoutTags(b)
    \o <<[code |-> OffsetsTagCode(b), len |-> CheckedBlockCount(b) * ElementWidth(big)],
         [code |-> ByteCountsTagCode(b), len |-> CheckedBlockCount(b) * ElementWidth(big)]>>
    \o b.extra

BlockArrayTags(b, big) ==
  {[code |-> OffsetsTagCode(b), len |-> CheckedBlockCount(b) * ElementWidth(big)],
   [code |-> ByteCountsTagCode(b), len |-> CheckedBlockCount(b) * ElementWidth(big)]}

\* Nothing build_image_tags lists repeats a code, the caller's tags included.
LEMMA ListedTagsFacts ==
  ASSUME NEW b \in Builder, Validate(b), NEW big \in BOOLEAN
  PROVE  LET tags == ListedTags(b, big)
         IN /\ tags \in Seq(Tag) /\ DistinctCodes(tags)
            /\ BlockArrayTags(b, big) \subseteq TagSet(tags)
            /\ Codes(tags) \cap {TagStripOffsets, TagTileOffsets} = {OffsetsTagCode(b)}
            /\ Codes(tags) \cap {TagStripByteCounts, TagTileByteCounts} = {ByteCountsTagCode(b)}
            /\ Codes(tags) \subseteq Managed \cup Codes(b.extra)
<1>0. /\ b.spp \in Nat /\ b.extra \in Seq(Tag) /\ b.overview \in BOOLEAN /\ b.planar \in BOOLEAN
      /\ CheckedBlockCount(b) * ElementWidth(big) \in Nat
  BY BlockCounts DEF Builder, ElementWidth
<1> DEFINE p1 == When(b.overview, [code |-> TagNewSubfileType, len |-> 4])
           p2 == SixTags(b)
           p3 == When(b.planar, [code |-> TagPlanarConfig, len |-> 2])
           p4 == <<[code |-> TagSampleFormat, len |-> 2 * b.spp]>>
           p5 == LayoutTags(b)
           o == [code |-> OffsetsTagCode(b), len |-> CheckedBlockCount(b) * ElementWidth(big)]
           c == [code |-> ByteCountsTagCode(b), len |-> CheckedBlockCount(b) * ElementWidth(big)]
           p6 == <<o, c>>
           q2 == p1 \o p2
           q3 == q2 \o p3
           q4 == q3 \o p4
           q5 == q4 \o p5
           q6 == q5 \o p6
<1>1. p1 \in Seq(Tag) /\ DistinctCodes(p1) /\ Codes(p1) \subseteq {254}
  <2>1. [code |-> TagNewSubfileType, len |-> 4] \in Tag
        /\ [code |-> TagNewSubfileType, len |-> 4].code = 254
    BY DEF Tag, TagNewSubfileType
  <2> QED BY <2>1, OneTag, NoTag DEF When
<1>2. p2 \in Seq(Tag) /\ DistinctCodes(p2) /\ Codes(p2) = {256, 257, 258, 259, 262, 277}
  BY SixTagsFacts
<1>3. p3 \in Seq(Tag) /\ DistinctCodes(p3) /\ Codes(p3) \subseteq {284}
  <2>1. [code |-> TagPlanarConfig, len |-> 2] \in Tag
        /\ [code |-> TagPlanarConfig, len |-> 2].code = 284
    BY DEF Tag, TagPlanarConfig
  <2> QED BY <2>1, OneTag, NoTag DEF When
<1>4. p4 \in Seq(Tag) /\ DistinctCodes(p4) /\ Codes(p4) = {339}
  <2>1. [code |-> TagSampleFormat, len |-> 2 * b.spp] \in Tag
        /\ [code |-> TagSampleFormat, len |-> 2 * b.spp].code = 339
    BY <1>0 DEF Tag, TagSampleFormat
  <2> QED BY <2>1, OneTag
<1>5. p5 \in Seq(Tag) /\ DistinctCodes(p5) /\ Codes(p5) \subseteq {278, 322, 323}
  <2>1. [code |-> TagRowsPerStrip, len |-> 4] \in Tag
        /\ [code |-> TagRowsPerStrip, len |-> 4].code = 278
    BY DEF Tag, TagRowsPerStrip
  <2>2. /\ [code |-> TagTileWidth, len |-> 4] \in Tag /\ [code |-> TagTileLength, len |-> 4] \in Tag
        /\ [code |-> TagTileWidth, len |-> 4].code = 322
        /\ [code |-> TagTileLength, len |-> 4].code = 323
    BY DEF Tag, TagTileWidth, TagTileLength
  <2>3. CASE b.layout = "strips"
    BY <2>1, <2>3, OneTag DEF LayoutTags
  <2>4. CASE b.layout # "strips"
    <3>1. p5 = <<[code |-> TagTileWidth, len |-> 4], [code |-> TagTileLength, len |-> 4]>>
      BY <2>4 DEF LayoutTags
    <3> HIDE DEF p5
    <3> QED BY <2>2, <3>1, TwoTags
  <2> QED BY <2>3, <2>4
<1>6. /\ o \in Tag /\ c \in Tag /\ o.code # c.code
      /\ \/ o.code = 273 /\ c.code = 279
         \/ o.code = 324 /\ c.code = 325
  BY <1>0 DEF Tag, OffsetsTagCode, ByteCountsTagCode, TagStripOffsets, TagStripByteCounts,
     TagTileOffsets, TagTileByteCounts
<1>7. o.code = OffsetsTagCode(b) /\ c.code = ByteCountsTagCode(b)
  OBVIOUS
<1>8. /\ p6 \in Seq(Tag) /\ DistinctCodes(p6) /\ TagSet(p6) = {o, c}
      /\ Codes(p6) = {o.code, c.code}
  <2> HIDE DEF o, c
  <2> QED BY <1>6, TwoTags
<1>9. /\ b.extra \in Seq(Tag) /\ DistinctCodes(b.extra) /\ Codes(b.extra) \cap Managed = {}
  BY <1>0 DEF Validate, ValidateExtraTags, DistinctCodes, Codes
<1>10. ListedTags(b, big) = q6 \o b.extra /\ BlockArrayTags(b, big) = {o, c}
  BY DEF ListedTags, BlockArrayTags
<1> HIDE DEF p1, p2, p3, p4, p5, p6, o, c
<1>11. q2 \in Seq(Tag) /\ DistinctCodes(q2) /\ Codes(q2) = Codes(p1) \cup Codes(p2)
  <2>1. Codes(p1) \cap Codes(p2) = {}
    BY <1>1, <1>2
  <2> QED BY <1>1, <1>2, <2>1, JoinedTags
<1> HIDE DEF q2
<1>12. q3 \in Seq(Tag) /\ DistinctCodes(q3) /\ Codes(q3) = Codes(q2) \cup Codes(p3)
  <2>1. Codes(q2) \cap Codes(p3) = {}
    BY <1>1, <1>2, <1>3, <1>11
  <2> QED BY <1>3, <1>11, <2>1, JoinedTags
<1> HIDE DEF q3
<1>13. q4 \in Seq(Tag) /\ DistinctCodes(q4) /\ Codes(q4) = Codes(q3) \cup Codes(p4)
  <2>1. Codes(q3) \cap Codes(p4) = {}
    BY <1>1, <1>2, <1>3, <1>4, <1>11, <1>12
  <2> QED BY <1>4, <1>12, <2>1, JoinedTags
<1>low. Codes(q4) \subseteq {254, 256, 257, 258, 259, 262, 277, 284, 339}
  BY <1>1, <1>2, <1>3, <1>4, <1>11, <1>12, <1>13
<1> HIDE DEF q4
<1>14. q5 \in Seq(Tag) /\ DistinctCodes(q5) /\ Codes(q5) = Codes(q4) \cup Codes(p5)
  <2>1. Codes(q4) \cap Codes(p5) = {}
    BY <1>low, <1>5
  <2> QED BY <1>5, <1>13, <2>1, JoinedTags
<1> HIDE DEF q5
<1>15. Codes(q5) \subseteq {254, 256, 257, 258, 259, 262, 277, 278, 284, 322, 323, 339}
  BY <1>low, <1>5, <1>14
<1>16. /\ q6 \in Seq(Tag) /\ DistinctCodes(q6) /\ Codes(q6) = Codes(q5) \cup {o.code, c.code}
       /\ {o, c} \subseteq TagSet(q6)
  <2>1. Codes(q5) \cap Codes(p6) = {}
    BY <1>6, <1>8, <1>15
  <2>2. q6 \in Seq(Tag) /\ DistinctCodes(q6) /\ Codes(q6) = Codes(q5) \cup Codes(p6)
        /\ TagSet(q6) = TagSet(q5) \cup TagSet(p6)
    BY <1>8, <1>14, <2>1, JoinedTags
  <2> QED BY <1>8, <2>2
<1> HIDE DEF q6
<1>17. Codes(q6) \subseteq Managed
  BY <1>6, <1>15, <1>16 DEF Managed, TagNewSubfileType, TagImageWidth, TagImageLength,
     TagBitsPerSample, TagCompression, TagPhotometric, TagStripOffsets, TagSamplesPerPixel,
     TagRowsPerStrip, TagStripByteCounts, TagPlanarConfig, TagTileWidth, TagTileLength,
     TagTileOffsets, TagTileByteCounts, TagSampleFormat
<1>18. /\ q6 \o b.extra \in Seq(Tag) /\ DistinctCodes(q6 \o b.extra)
       /\ Codes(q6 \o b.extra) = Codes(q6) \cup Codes(b.extra)
       /\ TagSet(q6 \o b.extra) = TagSet(q6) \cup TagSet(b.extra)
  <2>1. Codes(q6) \cap Codes(b.extra) = {}
    BY <1>9, <1>17
  <2> QED BY <1>9, <1>16, <2>1, JoinedTags
<1>19. {TagStripOffsets, TagTileOffsets, TagStripByteCounts, TagTileByteCounts} \subseteq Managed
  BY DEF Managed
<1>array. \A x \in {273, 324, 279, 325} :
        x \in Codes(ListedTags(b, big)) <=> x \in {o.code, c.code}
  <2>1. {273, 324, 279, 325} \subseteq Managed
    BY <1>19 DEF TagStripOffsets, TagTileOffsets, TagStripByteCounts, TagTileByteCounts
  <2>2. \A x \in {273, 324, 279, 325} : x \notin Codes(q5) /\ x \notin Codes(b.extra)
    BY <1>9, <1>15, <2>1
  <2> QED BY <1>10, <1>16, <1>18, <2>2
<1>20. Codes(ListedTags(b, big)) \cap {TagStripOffsets, TagTileOffsets} = {OffsetsTagCode(b)}
  BY <1>6, <1>7, <1>array DEF TagStripOffsets, TagTileOffsets
<1>21. Codes(ListedTags(b, big)) \cap {TagStripByteCounts, TagTileByteCounts} = {ByteCountsTagCode(b)}
  BY <1>6, <1>7, <1>array DEF TagStripByteCounts, TagTileByteCounts
<1>22. Codes(ListedTags(b, big)) \subseteq Managed \cup Codes(b.extra)
  BY <1>10, <1>17, <1>18
<1> QED BY <1>10, <1>16, <1>18, <1>20, <1>21, <1>22

(***************************************************************************)
(* build_image_tags lists strictly increasing codes for every builder that *)
(* validates, and exactly one array of block offsets and one of counts.    *)
(***************************************************************************)
THEOREM BuiltTags ==
  ASSUME NEW b \in Builder, Validate(b), NEW big \in BOOLEAN
  PROVE  LET tags == BuildTags(b, big)
         IN /\ tags \in Seq(Tag) /\ TagsSorted(tags) /\ DistinctCodes(tags)
            /\ BlockArrayTags(b, big) \subseteq TagSet(tags)
            /\ Codes(tags) \cap {TagStripOffsets, TagTileOffsets} = {OffsetsTagCode(b)}
            /\ Codes(tags) \cap {TagStripByteCounts, TagTileByteCounts} = {ByteCountsTagCode(b)}
            /\ Codes(tags) \subseteq Managed \cup Codes(b.extra)
<1> DEFINE listed == ListedTags(b, big)
           tags == BuildTags(b, big)
<1>1. tags = SortedByCode(listed)
  BY DEF BuildTags, ListedTags, SixTags
<1>2. /\ listed \in Seq(Tag) /\ DistinctCodes(listed)
      /\ BlockArrayTags(b, big) \subseteq TagSet(listed)
      /\ Codes(listed) \cap {TagStripOffsets, TagTileOffsets} = {OffsetsTagCode(b)}
      /\ Codes(listed) \cap {TagStripByteCounts, TagTileByteCounts} = {ByteCountsTagCode(b)}
      /\ Codes(listed) \subseteq Managed \cup Codes(b.extra)
  BY ListedTagsFacts
<1> HIDE DEF listed, tags
<1>3. /\ tags \in Seq(Tag) /\ TagSet(tags) = TagSet(listed)
      /\ \A k, m \in 1..Len(tags) : k < m => tags[k].code < tags[m].code
  BY <1>1, <1>2, SortedFacts
<1>4. TagsSorted(tags)
  BY <1>3 DEF TagsSorted
<1>5. DistinctCodes(tags)
  <2>1. \A k \in 1..Len(tags) : tags[k].code \in Nat
    <3>1. \A k \in 1..Len(tags) : tags[k] \in Tag
      BY <1>3
    <3> QED BY <3>1 DEF Tag
  <2> QED BY <1>3, <2>1 DEF DistinctCodes
<1>6. Codes(tags) = Codes(listed)
  <2>1. \A s : Codes(s) = {t.code : t \in TagSet(s)}
    BY DEF Codes, TagSet
  <2> QED BY <1>3, <2>1
<1> QED BY <1>2, <1>3, <1>4, <1>5, <1>6 DEF tags

(***************************************************************************)
(* The tag of an array that is patched: there is exactly one, and its      *)
(* length tells how many elements it has, so that a lone element is inline *)
(* and more than one are deferred.                                         *)
(***************************************************************************)
ArrayIndex(tags, code) == CHOOSE o \in DOMAIN tags : tags[o].code = code

\* An array listed among distinct codes is found under its own, and nothing else is.
LEMMA ArrayFound ==
  ASSUME NEW tags \in Seq(Tag), DistinctCodes(tags), NEW isBig \in BOOLEAN, NEW code,
         NEW n \in Nat \ {0}, [code |-> code, len |-> n * ElementWidth(isBig)] \in TagSet(tags)
  PROVE  LET o == ArrayIndex(tags, code)
         IN /\ o \in DOMAIN tags /\ tags[o].code = code /\ IndexOf(tags, code) = {o}
            /\ tags[o].len \div Width(isBig) = n
            /\ Deferred(tags[o], isBig) <=> n # 1
            /\ n * Width(isBig) <= InlineMax(isBig) <=> ~Deferred(tags[o], isBig)
<1> DEFINE o == ArrayIndex(tags, code)
           t == [code |-> code, len |-> n * ElementWidth(isBig)]
<1> HIDE DEF t
<1>4. PICK k \in 1..Len(tags) : tags[k] = t
  BY DEF TagSet, t
<1>5. DOMAIN tags = 1..Len(tags)
  OBVIOUS
<1>6. t.code = code /\ t.len = n * ElementWidth(isBig)
  BY DEF t
<1>7. o \in DOMAIN tags /\ tags[o].code = code
  BY <1>4, <1>5, <1>6 DEF ArrayIndex
<1>8. \A j \in DOMAIN tags : tags[j].code = code => j = o
  BY <1>5, <1>7 DEF DistinctCodes
<1>9. tags[o] = t
  BY <1>4, <1>5, <1>6, <1>8
<1>10. IndexOf(tags, code) = {o}
  BY <1>7, <1>8 DEF IndexOf
<1>11. /\ (n * ElementWidth(isBig)) \div Width(isBig) = n
       /\ Deferred(t, isBig) <=> n # 1
       /\ n * Width(isBig) <= InlineMax(isBig) <=> ~Deferred(t, isBig)
  <2>1. CASE isBig
    BY <1>6, <2>1 DEF Width, ElementWidth, Deferred, InlineMax
  <2>2. CASE ~isBig
    BY <1>6, <2>2 DEF Width, ElementWidth, Deferred, InlineMax
  <2> QED BY <2>1, <2>2
<1> QED BY <1>6, <1>7, <1>9, <1>10, <1>11

\* The offset array and the count array of an image are found in its tags, with one
\* element a block.
LEMMA BlockArrayIndex ==
  ASSUME NEW b \in Builder, Validate(b), NEW isBig \in BOOLEAN,
         NEW code \in {OffsetsTagCode(b), ByteCountsTagCode(b)}
  PROVE  LET tags == BuildTags(b, isBig)
             o == ArrayIndex(tags, code)
             n == CheckedBlockCount(b)
         IN /\ o \in DOMAIN tags /\ tags[o].code = code /\ IndexOf(tags, code) = {o}
            /\ tags[o].len \div Width(isBig) = n /\ code \in OffsetArrayCodes
            /\ Deferred(tags[o], isBig) <=> n # 1
            /\ n * Width(isBig) <= InlineMax(isBig) <=> ~Deferred(tags[o], isBig)
<1> DEFINE tags == BuildTags(b, isBig)
           n == CheckedBlockCount(b)
<1>1. /\ tags \in Seq(Tag) /\ DistinctCodes(tags) /\ BlockArrayTags(b, isBig) \subseteq TagSet(tags)
  BY BuiltTags
<1>2. n \in Nat \ {0}
  BY BlockCounts
<1>3. [code |-> code, len |-> n * ElementWidth(isBig)] \in TagSet(tags)
  BY <1>1 DEF BlockArrayTags
<1>4. code \in OffsetArrayCodes
  BY DEF OffsetArrayCodes, OffsetsTagCode, ByteCountsTagCode
<1> HIDE DEF tags, n
<1> QED BY <1>1, <1>2, <1>3, <1>4, ArrayFound DEF tags, n

----------------------------------------------------------------------------
(***************************************************************************)
(* The numbers of an IFD, each in a slot of its own: the entry count, the  *)
(* pointer to the next IFD, the code of each tag, the place of a deferred  *)
(* value, and the length and the elements of an array that is patched.     *)
(***************************************************************************)
Slots(tags, big) ==
  {s \in [kind : {"count", "next", "code", "data", "elems", "elem"}, i : Nat, j : Nat] :
     \/ s.kind \in {"count", "next"} /\ s.i = 0 /\ s.j = 0
     \/ s.kind = "code" /\ s.i \in DOMAIN tags /\ s.j = 0
     \/ s.kind = "data" /\ s.i \in DOMAIN tags /\ s.j = 0 /\ Deferred(tags[s.i], big)
     \/ s.kind = "elems" /\ s.i \in DOMAIN tags /\ s.j = 0 /\ tags[s.i].code \in OffsetArrayCodes
     \/ /\ s.kind = "elem" /\ s.i \in DOMAIN tags /\ tags[s.i].code \in OffsetArrayCodes
        /\ s.j \in 1..(tags[s.i].len \div Width(big))}

Slot(kind, i, j) == [kind |-> kind, i |-> i, j |-> j]

ValueOffset(off, tags, big, i) ==
  IF Deferred(tags[i], big) THEN DeferredOffset(off, tags, big, i)
  ELSE EntryOffset(off, big, i) + ValueField(big)

SlotOff(off, tags, big, s) ==
  IF s.kind = "count" THEN off
  ELSE IF s.kind = "next" THEN NextPtrOffset(off, tags, big)
  ELSE IF s.kind = "code" THEN EntryOffset(off, big, s.i)
  ELSE IF s.kind = "elems" THEN EntryOffset(off, big, s.i) + 4
  ELSE IF s.kind = "data" THEN EntryOffset(off, big, s.i) + ValueField(big)
  ELSE ValueOffset(off, tags, big, s.i) + (s.j - 1) * Width(big)

SlotLen(big, s) ==
  IF s.kind = "count" THEN CountSize(big)
  ELSE IF s.kind = "next" THEN NextPtrSize(big)
  ELSE IF s.kind = "code" THEN 2 ELSE Width(big)

\* What write_ifd puts there.
SlotStart(off, tags, big, s) ==
  IF s.kind = "count" THEN Len(tags)
  ELSE IF s.kind = "code" THEN tags[s.i].code
  ELSE IF s.kind = "elems" THEN tags[s.i].len \div Width(big)
  ELSE IF s.kind = "data" THEN DeferredOffset(off, tags, big, s.i)
  ELSE 0

SlotField(off, tags, big, s, v) == Field(SlotOff(off, tags, big, s), SlotLen(big, s), v)

Apart(off1, len1, off2, len2) == off1 + len1 <= off2 \/ off2 + len2 <= off1

(***************************************************************************)
(* An IFD is a row of regions: the count, the entries, the pointer to the  *)
(* next IFD, the deferred values.                                          *)
(***************************************************************************)
Region(tags, big, s) ==
  IF s.kind = "count" THEN 0
  ELSE IF s.kind = "next" THEN Len(tags) + 1
  ELSE IF s.kind = "elem" /\ Deferred(tags[s.i], big) THEN Len(tags) + 1 + s.i
  ELSE s.i

RegionOff(off, tags, big, r) ==
  IF r = 0 THEN off
  ELSE IF r <= Len(tags) THEN EntryOffset(off, big, r)
  ELSE IF r = Len(tags) + 1 THEN NextPtrOffset(off, tags, big)
  ELSE DeferredOffset(off, tags, big, r - (Len(tags) + 1))

RegionEnd(off, tags, big, r) ==
  IF r = 0 THEN off + CountSize(big)
  ELSE IF r <= Len(tags) THEN EntryOffset(off, big, r) + EntrySize(big)
  ELSE IF r = Len(tags) + 1 THEN NextPtrOffset(off, tags, big) + NextPtrSize(big)
  ELSE DeferredOffset(off, tags, big, r - (Len(tags) + 1)) + tags[r - (Len(tags) + 1)].len

IsRegion(tags, big, r) ==
  /\ r \in 0..(2 * Len(tags) + 1)
  /\ r > Len(tags) + 1 => Deferred(tags[r - (Len(tags) + 1)], big)

\* Entries lie one behind the other between the count and the next pointer.
LEMMA EntryPlaces ==
  ASSUME NEW tags \in Seq(Tag), NEW big \in BOOLEAN, NEW off \in Nat
  PROVE  /\ \A i \in 1..Len(tags) : /\ EntryOffset(off, big, i) \in Nat
                                    /\ off + CountSize(big) <= EntryOffset(off, big, i)
                                    /\ EntryOffset(off, big, i) + EntrySize(big)
                                         <= NextPtrOffset(off, tags, big)
         /\ \A i, j \in 1..Len(tags) :
              i < j => EntryOffset(off, big, i) + EntrySize(big) <= EntryOffset(off, big, j)
         /\ NextPtrOffset(off, tags, big) \in Nat
         /\ off + CountSize(big) <= NextPtrOffset(off, tags, big)
         /\ NextPtrOffset(off, tags, big) + NextPtrSize(big) = DeferredStart(off, tags, big)
<1>1. Len(tags) \in Nat
  OBVIOUS
<1>2. CASE big
  BY <1>1, <1>2 DEF EntryOffset, NextPtrOffset, DeferredStart, CountSize, EntrySize, NextPtrSize
<1>3. CASE ~big
  BY <1>1, <1>3 DEF EntryOffset, NextPtrOffset, DeferredStart, CountSize, EntrySize, NextPtrSize
<1> QED BY <1>2, <1>3

\* The regions of an IFD lie in their order, within the IFD, and apart.
LEMMA RegionsInOrder ==
  ASSUME NEW tags \in Seq(Tag), NEW big \in BOOLEAN, NEW off \in Nat,
         NEW p, NEW q, IsRegion(tags, big, p), IsRegion(tags, big, q)
  PROVE  /\ RegionOff(off, tags, big, p) \in Nat /\ RegionEnd(off, tags, big, p) \in Nat
         /\ off <= RegionOff(off, tags, big, p)
         /\ RegionEnd(off, tags, big, p) <= IfdEnd(off, tags, big)
         /\ p < q => RegionEnd(off, tags, big, p) <= RegionOff(off, tags, big, q)
<1> DEFINE N == Len(tags)
           next == NextPtrOffset(off, tags, big)
           start == DeferredStart(off, tags, big)
           end == IfdEnd(off, tags, big)
           entry(i) == EntryOffset(off, big, i)
           data(i) == DeferredOffset(off, tags, big, i)
           deferred == {i \in 1..N : Deferred(tags[i], big)}
<1>1. /\ N \in Nat /\ p \in 0..(2 * N + 1) /\ q \in 0..(2 * N + 1)
      /\ (p > N + 1 => p - (N + 1) \in deferred) /\ (q > N + 1 => q - (N + 1) \in deferred)
  BY DEF IsRegion
<1>2. /\ CountSize(big) \in Nat /\ EntrySize(big) \in Nat /\ NextPtrSize(big) \in Nat
  BY SizesType
<1>3. /\ \A i \in 1..N : entry(i) \in Nat /\ off + CountSize(big) <= entry(i)
                         /\ entry(i) + EntrySize(big) <= next
      /\ \A i, j \in 1..N : i < j => entry(i) + EntrySize(big) <= entry(j)
      /\ next \in Nat /\ off + CountSize(big) <= next /\ next + NextPtrSize(big) = start
  BY EntryPlaces
<1>4. /\ start \in Nat /\ end \in Nat /\ start <= end
  <2>1. DeferredLen(tags, big)[Len(tags)] \in Nat
    BY DeferredLenType
  <2>2. start \in Nat
    BY PlacesType
  <2>3. end = start + DeferredLen(tags, big)[Len(tags)]
    BY DEF IfdEnd
  <2> QED BY <2>1, <2>2, <2>3
<1>5. \A i \in deferred : /\ data(i) \in Nat /\ start <= data(i)
                          /\ tags[i].len \in Nat /\ data(i) + tags[i].len <= end
  <2>1. \A i \in deferred : data(i) \in Nat /\ tags[i].len \in Nat
    <3>1. \A i \in deferred : tags[i] \in Tag /\ i \in DOMAIN tags
      OBVIOUS
    <3> QED BY <3>1, PlacesType DEF Tag
  <2> QED BY <2>1, <1>4, DeferredValuesDisjoint
<1>6. \A i, j \in deferred : i < j => data(i) + tags[i].len <= data(j)
  BY DeferredValuesDisjoint
<1>7. /\ RegionOff(off, tags, big, p) =
           IF p = 0 THEN off ELSE IF p <= N THEN entry(p) ELSE IF p = N + 1 THEN next
           ELSE data(p - (N + 1))
      /\ RegionEnd(off, tags, big, p) =
           IF p = 0 THEN off + CountSize(big) ELSE IF p <= N THEN entry(p) + EntrySize(big)
           ELSE IF p = N + 1 THEN next + NextPtrSize(big)
           ELSE data(p - (N + 1)) + tags[p - (N + 1)].len
      /\ RegionOff(off, tags, big, q) =
           IF q = 0 THEN off ELSE IF q <= N THEN entry(q) ELSE IF q = N + 1 THEN next
           ELSE data(q - (N + 1))
  BY DEF RegionOff, RegionEnd
<1> HIDE DEF N, next, start, end, entry, data, deferred
<1> DEFINE d == p - (N + 1)
           e == q - (N + 1)
<1>8. CASE p = 0
  <2>1. off + CountSize(big) <= end
    BY <1>2, <1>3, <1>4
  <2>2. p < q => off + CountSize(big) <= RegionOff(off, tags, big, q)
    BY <1>1, <1>2, <1>3, <1>5, <1>7, <1>8
  <2> QED BY <1>2, <1>7, <1>8, <2>1, <2>2 DEF end
<1>9. CASE p # 0 /\ p <= N
  <2>1. p \in 1..N
    BY <1>1, <1>9
  <2>2. entry(p) + EntrySize(big) <= end /\ off <= entry(p)
    BY <1>2, <1>3, <1>4, <2>1
  <2>3. p < q => entry(p) + EntrySize(big) <= RegionOff(off, tags, big, q)
    BY <1>1, <1>2, <1>3, <1>5, <1>7, <1>9, <2>1
  <2> QED BY <1>2, <1>3, <1>7, <1>9, <2>1, <2>2, <2>3 DEF end
<1>10. CASE p = N + 1
  <2>1. p # 0 /\ ~(p <= N)
    BY <1>1, <1>10
  <2>2. p < q => next + NextPtrSize(big) <= RegionOff(off, tags, big, q)
    <3> SUFFICES ASSUME p < q PROVE next + NextPtrSize(big) <= RegionOff(off, tags, big, q)
      OBVIOUS
    <3>1. /\ q # 0 /\ ~(q <= N) /\ q # N + 1 /\ e \in deferred
      BY <1>1, <1>10
    <3>2. RegionOff(off, tags, big, q) = data(e) /\ start <= data(e)
      BY <1>5, <1>7, <3>1
    <3> QED BY <1>2, <1>3, <1>5, <3>1, <3>2
  <2> QED BY <1>2, <1>3, <1>4, <1>7, <1>10, <2>1, <2>2 DEF end
<1>11. CASE p > N + 1
  <2>1. p # 0 /\ ~(p <= N) /\ p # N + 1 /\ d \in deferred
    BY <1>1, <1>11
  <2>2. p < q => e \in deferred /\ d < e /\ q # 0 /\ ~(q <= N) /\ q # N + 1
    BY <1>1, <1>11
  <2>3. p < q => data(d) + tags[d].len <= RegionOff(off, tags, big, q)
    BY <1>6, <1>7, <2>1, <2>2
  <2>4. RegionOff(off, tags, big, p) = data(d) /\ RegionEnd(off, tags, big, p) = data(d) + tags[d].len
    BY <1>7, <2>1
  <2>5. off <= data(d)
    BY <1>2, <1>3, <1>5, <2>1
  <2> HIDE DEF d
  <2> QED BY <1>2, <1>3, <1>5, <2>1, <2>3, <2>4, <2>5 DEF end
<1> QED BY <1>1, <1>8, <1>9, <1>10, <1>11

\* The tag and the element a slot names exist.
LEMMA SlotType ==
  ASSUME NEW tags \in Seq(Tag), NEW big \in BOOLEAN, NEW s \in Slots(tags, big)
  PROVE  /\ s.i \in Nat /\ s.j \in Nat
         /\ s.kind \notin {"count", "next"} =>
              s.i \in 1..Len(tags) /\ tags[s.i].len \in Nat /\ tags[s.i].code \in Nat
         /\ s.kind = "elem" =>
              /\ s.j \in 1..(tags[s.i].len \div Width(big))
              /\ s.j * Width(big) <= tags[s.i].len
              /\ ~Deferred(tags[s.i], big) => s.j = 1
<1>1. \A i \in 1..Len(tags) : tags[i].len \in Nat /\ tags[i].code \in Nat
  <2>1. \A i \in 1..Len(tags) : tags[i] \in Tag
    OBVIOUS
  <2> QED BY <2>1 DEF Tag
<1>2. s.i \in Nat /\ s.j \in Nat /\ (s.kind \notin {"count", "next"} => s.i \in 1..Len(tags))
      /\ (s.kind = "elem" => s.j \in 1..(tags[s.i].len \div Width(big)))
  BY DEF Slots
<1>3. ASSUME s.kind = "elem"
      PROVE  s.j * Width(big) <= tags[s.i].len /\ (~Deferred(tags[s.i], big) => s.j = 1)
  <2>1. s.i \in 1..Len(tags) /\ s.j \in 1..(tags[s.i].len \div Width(big))
    BY <1>2, <1>3
  <2> DEFINE n == tags[s.i].len
             q == n \div Width(big)
  <2>2. n \in Nat
    BY <1>1, <2>1
  <2>3. CASE big
    BY <2>1, <2>2, <2>3 DEF Width, ElementWidth, Deferred, InlineMax
  <2>4. CASE ~big
    BY <2>1, <2>2, <2>4 DEF Width, ElementWidth, Deferred, InlineMax
  <2> QED BY <2>3, <2>4
<1> QED BY <1>1, <1>2, <1>3

\* Elements are counted from one.
LEMMA ElementSlot ==
  ASSUME NEW tags, NEW isBig, NEW s \in Slots(tags, isBig), s.kind = "elem"
  PROVE  s.j \in Nat \ {0} /\ s.j \in 1..(tags[s.i].len \div Width(isBig)) /\ s.i \in DOMAIN tags
<1>1. s.j \in Nat /\ s.j \in 1..(tags[s.i].len \div Width(isBig)) /\ s.i \in DOMAIN tags
  BY DEF Slots
<1>2. s.j # 0
  BY <1>1
<1> QED BY <1>1, <1>2

\* The j-th of the elements of an array lies within the array.
LEMMA ElementFits ==
  ASSUME NEW data \in Nat, NEW j \in Nat \ {0}, NEW n \in Nat, NEW w \in {4, 8}, j * w <= n
  PROVE  /\ data + (j - 1) * w \in Nat
         /\ data <= data + (j - 1) * w
         /\ data + (j - 1) * w + w <= data + n
<1>1. CASE w = 4
  BY <1>1
<1>2. CASE w = 8
  BY <1>2
<1> QED BY <1>1, <1>2

\* A slot lies within its region.
LEMMA SlotInRegion ==
  ASSUME NEW tags \in Seq(Tag), NEW big \in BOOLEAN, NEW off \in Nat, NEW s \in Slots(tags, big)
  PROVE  LET r == Region(tags, big, s)
         IN /\ IsRegion(tags, big, r)
            /\ SlotOff(off, tags, big, s) \in Nat /\ SlotLen(big, s) \in Nat \ {0}
            /\ RegionOff(off, tags, big, r) <= SlotOff(off, tags, big, s)
            /\ SlotOff(off, tags, big, s) + SlotLen(big, s) <= RegionEnd(off, tags, big, r)
<1> DEFINE N == Len(tags)
           r == Region(tags, big, s)
<1>1. N \in Nat /\ (s.kind \notin {"count", "next"} => s.i \in 1..N /\ tags[s.i].len \in Nat)
  BY SlotType
<1>2. SlotLen(big, s) \in Nat \ {0}
  BY SizesType DEF SlotLen
<1>3. CASE s.kind = "count"
  <2>1. r = 0 /\ SlotOff(off, tags, big, s) = off /\ SlotLen(big, s) = CountSize(big)
    BY <1>3 DEF Region, SlotOff, SlotLen
  <2> QED BY <1>1, <1>2, <2>1 DEF IsRegion, RegionOff, RegionEnd
<1>4. CASE s.kind = "next"
  <2>1. r = N + 1 /\ SlotOff(off, tags, big, s) = NextPtrOffset(off, tags, big)
        /\ SlotLen(big, s) = NextPtrSize(big)
    BY <1>4 DEF Region, SlotOff, SlotLen
  <2>2. NextPtrOffset(off, tags, big) \in Nat
    BY EntryPlaces
  <2> QED BY <1>1, <1>2, <2>1, <2>2 DEF IsRegion, RegionOff, RegionEnd
<1>5. CASE s.kind = "elem" /\ Deferred(tags[s.i], big)
  <2> DEFINE data == DeferredOffset(off, tags, big, s.i)
  <2>1. r = N + 1 + s.i /\ SlotOff(off, tags, big, s) = data + (s.j - 1) * Width(big)
        /\ SlotLen(big, s) = Width(big)
    BY <1>5 DEF Region, SlotOff, SlotLen, ValueOffset
  <2>2. /\ s.j \in Nat \ {0} /\ s.j * Width(big) <= tags[s.i].len /\ data \in Nat
        /\ s.i \in 1..N /\ tags[s.i].len \in Nat
    <3>1. s.i \in DOMAIN tags /\ s.i \in 1..N /\ tags[s.i].len \in Nat
      BY <1>1, <1>5
    <3>2. data \in Nat
      BY <3>1, PlacesType
    <3>3. s.j \in 1..(tags[s.i].len \div Width(big)) /\ s.j * Width(big) <= tags[s.i].len
      BY <1>5, SlotType
    <3>4. s.j \in Nat \ {0}
      <4>1. s.j \in Nat
        BY SlotType
      <4>2. s.j # 0
        BY <3>3
      <4> QED BY <4>1, <4>2
    <3> QED BY <3>1, <3>2, <3>3, <3>4
  <2>3. RegionOff(off, tags, big, r) = data /\ RegionEnd(off, tags, big, r) = data + tags[s.i].len
    <3>1. r - (N + 1) = s.i /\ r # 0 /\ ~(r <= N) /\ r # N + 1
      BY <1>1, <2>1, <2>2
    <3> QED BY <3>1 DEF RegionOff, RegionEnd
  <2>4. IsRegion(tags, big, r)
    BY <1>1, <1>5, <2>1, <2>2 DEF IsRegion
  <2> HIDE DEF data, r
  <2>5. Width(big) \in {4, 8}
    BY DEF Width, ElementWidth
  <2>6. data + (s.j - 1) * Width(big) \in Nat
        /\ data <= data + (s.j - 1) * Width(big)
        /\ data + (s.j - 1) * Width(big) + Width(big) <= data + tags[s.i].len
    BY <2>2, <2>5, ElementFits
  <2> QED BY <1>2, <2>1, <2>3, <2>4, <2>6 DEF r
<1>6. CASE /\ s.kind \in {"code", "data", "elems", "elem"}
           /\ ~(s.kind = "elem" /\ Deferred(tags[s.i], big))
  <2> DEFINE entry == EntryOffset(off, big, s.i)
  <2>1. r = s.i /\ s.i \in 1..N /\ IsRegion(tags, big, r) /\ entry \in Nat
    <3>1. s.i \in 1..N
      BY <1>1, <1>6
    <3>2. r = s.i
      BY <1>6 DEF Region
    <3>3. entry \in Nat
      BY <3>1, EntryPlaces
    <3> QED BY <1>1, <3>1, <3>2, <3>3 DEF IsRegion
  <2>2. RegionOff(off, tags, big, r) = entry /\ RegionEnd(off, tags, big, r) = entry + EntrySize(big)
    BY <2>1 DEF RegionOff, RegionEnd
  <2>3. /\ SlotOff(off, tags, big, s) =
             IF s.kind = "code" THEN entry ELSE IF s.kind = "elems" THEN entry + 4
             ELSE entry + ValueField(big)
        /\ SlotLen(big, s) = IF s.kind = "code" THEN 2 ELSE Width(big)
    <3>1. s.kind = "elem" => s.j = 1
      BY <1>6, SlotType
    <3>2. (1 - 1) * Width(big) = 0 /\ ValueField(big) \in Nat
      BY DEF Width, ElementWidth, ValueField
    <3> QED BY <1>6, <2>1, <3>1, <3>2 DEF SlotOff, SlotLen, ValueOffset
  <2> HIDE DEF entry
  <2> QED BY <2>1, <2>2, <2>3, <1>2 DEF Width, ElementWidth, ValueField, EntrySize
<1> QED BY <1>3, <1>4, <1>5, <1>6 DEF Slots

(***************************************************************************)
(* No two numbers of an IFD that a reader looks up, or that finish()       *)
(* patches, share a byte: a patch of one element of a block array leaves   *)
(* every other number of the IFD alone, inline or deferred.                *)
(***************************************************************************)
THEOREM SlotsApart ==
  ASSUME NEW tags \in Seq(Tag), NEW big \in BOOLEAN, NEW off \in Nat,
         NEW s \in Slots(tags, big), NEW t \in Slots(tags, big), s # t
  PROVE  Apart(SlotOff(off, tags, big, s), SlotLen(big, s), SlotOff(off, tags, big, t), SlotLen(big, t))
<1> DEFINE p == Region(tags, big, s)
           q == Region(tags, big, t)
           so == SlotOff(off, tags, big, s)
           to == SlotOff(off, tags, big, t)
<1>1. /\ IsRegion(tags, big, p) /\ IsRegion(tags, big, q)
      /\ so \in Nat /\ to \in Nat /\ SlotLen(big, s) \in Nat /\ SlotLen(big, t) \in Nat
      /\ RegionOff(off, tags, big, p) <= so /\ so + SlotLen(big, s) <= RegionEnd(off, tags, big, p)
      /\ RegionOff(off, tags, big, q) <= to /\ to + SlotLen(big, t) <= RegionEnd(off, tags, big, q)
  BY SlotInRegion
<1>2. /\ RegionOff(off, tags, big, p) \in Nat /\ RegionEnd(off, tags, big, p) \in Nat
      /\ RegionOff(off, tags, big, q) \in Nat /\ RegionEnd(off, tags, big, q) \in Nat
      /\ p < q => RegionEnd(off, tags, big, p) <= RegionOff(off, tags, big, q)
      /\ q < p => RegionEnd(off, tags, big, q) <= RegionOff(off, tags, big, p)
  BY <1>1, RegionsInOrder
<1>3. p \in Int /\ q \in Int
  BY <1>1 DEF IsRegion
<1>4. CASE p # q
  <2> HIDE DEF p, q, so, to
  <2>1. p < q \/ q < p
    BY <1>3, <1>4
  <2> QED BY <1>1, <1>2, <2>1 DEF Apart, so, to
<1>5. CASE p = q
  <2>1. CASE s.kind \in {"count", "next"}
    <3>1. t.kind = s.kind /\ t.i = 0 /\ t.j = 0 /\ s.i = 0 /\ s.j = 0
      BY <1>5, <2>1, SlotType DEF Region, Slots
    <3>2. s = t
      BY <3>1 DEF Slots
    <3> QED BY <3>2
  <2>2. CASE s.kind = "elem" /\ Deferred(tags[s.i], big)
    <3>1. t.kind = "elem" /\ t.i = s.i
      BY <1>5, <2>2, SlotType DEF Region, Slots
    <3>2. s.j # t.j
      BY <2>2, <3>1 DEF Slots
    <3> DEFINE data == DeferredOffset(off, tags, big, s.i)
    <3>3. /\ so = data + (s.j - 1) * Width(big) /\ to = data + (t.j - 1) * Width(big)
          /\ SlotLen(big, s) = Width(big) /\ SlotLen(big, t) = Width(big)
      BY <2>2, <3>1 DEF SlotOff, SlotLen, ValueOffset
    <3>4. data \in Nat /\ s.j \in Nat /\ t.j \in Nat
      <4>1. s.i \in 1..Len(tags)
        BY <2>2, SlotType
      <4>2. s.i \in DOMAIN tags
        BY <4>1
      <4> QED BY <4>2, SlotType, PlacesType
    <3> HIDE DEF data, so, to
    <3>5. CASE big
      BY <3>2, <3>3, <3>4, <3>5 DEF Width, ElementWidth, Apart, so, to
    <3>6. CASE ~big
      BY SMTT(30), <3>2, <3>3, <3>4, <3>6 DEF Width, ElementWidth, Apart, so, to
    <3> QED BY <3>5, <3>6
  <2>3. CASE /\ s.kind \in {"code", "data", "elems", "elem"}
             /\ ~(s.kind = "elem" /\ Deferred(tags[s.i], big))
    <3>1. /\ t.i = s.i /\ t.kind \in {"code", "data", "elems", "elem"}
          /\ ~(t.kind = "elem" /\ Deferred(tags[s.i], big))
      <4>1. s.i \in 1..Len(tags) /\ p = s.i /\ Len(tags) \in Nat
        BY <2>3, SlotType DEF Region
      <4>2. t.kind \in {"count", "next", "code", "data", "elems", "elem"}
        BY DEF Slots
      <4>3. t.kind # "count" /\ t.kind # "next"
        BY <1>5, <4>1 DEF Region
      <4>4. t.i \in 1..Len(tags)
        BY <4>3, SlotType
      <4>5. ~(t.kind = "elem" /\ Deferred(tags[t.i], big))
        BY <1>5, <4>1, <4>3, <4>4 DEF Region
      <4>6. t.i = s.i
        BY <1>5, <4>1, <4>3, <4>4, <4>5 DEF Region
      <4> QED BY <4>2, <4>3, <4>5, <4>6
    <3> DEFINE entry == EntryOffset(off, big, s.i)
    <3>2. /\ s.kind = "elem" => s.j = 1 /\ ~Deferred(tags[s.i], big)
          /\ t.kind = "elem" => t.j = 1 /\ ~Deferred(tags[s.i], big)
          /\ s.kind = "data" => Deferred(tags[s.i], big)
          /\ t.kind = "data" => Deferred(tags[s.i], big)
          /\ s.kind # "elem" => s.j = 0
          /\ t.kind # "elem" => t.j = 0
      BY <2>3, <3>1, SlotType DEF Slots
    <3>3. s.kind # t.kind
      BY <3>1, <3>2 DEF Slots
    <3>4. entry \in Nat
      BY <2>3, SlotType, EntryPlaces
    <3>5. (1 - 1) * Width(big) = 0
      BY DEF Width, ElementWidth
    <3>6. ValueField(big) \in Nat
      BY DEF ValueField
    <3>7. so = IF s.kind = "code" THEN entry ELSE IF s.kind = "elems" THEN entry + 4
               ELSE entry + ValueField(big)
      BY <2>3, <3>2, <3>4, <3>5, <3>6 DEF SlotOff, ValueOffset
    <3>8. to = IF t.kind = "code" THEN entry ELSE IF t.kind = "elems" THEN entry + 4
               ELSE entry + ValueField(big)
      BY <3>1, <3>2, <3>4, <3>5, <3>6 DEF SlotOff, ValueOffset
    <3>9. /\ SlotLen(big, s) = IF s.kind = "code" THEN 2 ELSE Width(big)
          /\ SlotLen(big, t) = IF t.kind = "code" THEN 2 ELSE Width(big)
      BY <2>3, <3>1 DEF SlotLen
    <3> HIDE DEF entry, so, to
    <3>10. ~(s.kind \in {"data", "elem"} /\ t.kind \in {"data", "elem"})
      BY <3>2, <3>3
    <3> QED BY <2>3, <3>1, <3>3, <3>4, <3>7, <3>8, <3>9, <3>10
            DEF Width, ElementWidth, ValueField, Apart, so, to
  <2> QED BY <2>1, <2>2, <2>3 DEF Slots
<1> QED BY <1>4, <1>5

----------------------------------------------------------------------------
(***************************************************************************)
(* The reader, on a file whose extents do not overlap: it reads what was   *)
(* put where it looks, and nothing else.                                   *)
(***************************************************************************)
Solid(f) ==
  /\ \A e \in f : e.off \in Nat /\ e.len \in Nat \ {0}
  /\ \A d, e \in f : d # e => Apart(d.off, d.len, e.off, e.len)

IsNumber(e) == DOMAIN e.val = {"num"}

\* A single field is solid.
LEMMA FieldSolid ==
  ASSUME NEW w, w.off \in Nat, w.len \in Nat \ {0}
  PROVE  Solid({w})
BY DEF Solid

\* An empty file holds nothing that could overlap.
LEMMA NothingSolid == Solid({})
BY DEF Solid

\* The parts of a number in the file.
LEMMA FieldIs ==
  ASSUME NEW off, NEW len, NEW v
  PROVE  LET e == Field(off, len, v)
         IN e.off = off /\ e.len = len /\ IsNumber(e) /\ e.val.num = v
BY DEF Field, IsNumber

\* Two extents at one place are one.
LEMMA SamePlace ==
  ASSUME NEW f, Solid(f), NEW d \in f, NEW e \in f, d.off = e.off, d.len = e.len
  PROVE  d = e
BY DEF Solid, Apart

\* Where a number was left, a reader finds it and no other.
LEMMA NumsAre ==
  ASSUME NEW f, Solid(f), NEW off, NEW len, NEW v, Field(off, len, v) \in f
  PROVE  Nums(f, off, len) = {v}
<1> DEFINE e == Field(off, len, v)
<1>1. e \in f /\ e.off = off /\ e.len = len /\ DOMAIN e.val = {"num"} /\ e.val.num = v
  BY FieldIs DEF IsNumber
<1> HIDE DEF e
<1>2. \A x \in f : x.off = off /\ x.len = len => x = e
  BY <1>1, SamePlace
<1> QED BY <1>1, <1>2 DEF Nums

\* Where a block was left, a reader finds it and no other.
LEMMA PayloadsAre ==
  ASSUME NEW f, Solid(f), NEW e \in f, ~IsNumber(e)
  PROVE  Payloads(f, e.off, e.len) = {e.val}
<1>1. \A x \in f : x.off = e.off /\ x.len = e.len => x = e
  BY SamePlace
<1> QED BY <1>1 DEF Payloads, IsNumber

\* A reader finds no number where none starts.
LEMMA NoNums ==
  ASSUME NEW f, NEW off, NEW len, \A e \in f : e.off # off
  PROVE  Nums(f, off, len) = {}
BY DEF Nums

\* Bytes apart from a write outlive it.
LEMMA OverwriteKeeps ==
  ASSUME NEW f, NEW off, NEW n, NEW fields, NEW e \in f, Apart(e.off, e.len, off, n)
  PROVE  e \in Overwrite(f, off, n, fields)
BY DEF Overwrite, Untouched, Apart

\* After a write, no two things in the file overlap still.
LEMMA OverwriteSolid ==
  ASSUME NEW f, Solid(f), NEW off \in Nat, NEW n \in Nat, NEW fields, Solid(fields),
         \A e \in fields : off <= e.off /\ e.off + e.len <= off + n
  PROVE  Solid(Overwrite(f, off, n, fields))
<1> DEFINE g == Overwrite(f, off, n, fields)
<1>1. \A e \in g : e \in fields \/ (e \in f /\ Apart(e.off, e.len, off, n))
  BY DEF Overwrite, Untouched, Apart
<1>2. \A e \in g : e.off \in Nat /\ e.len \in Nat \ {0}
  BY <1>1 DEF Solid
<1>3. ASSUME NEW d \in g, NEW e \in g, d # e
      PROVE  Apart(d.off, d.len, e.off, e.len)
  <2>1. CASE d \in fields /\ e \in fields
    BY <1>3, <2>1 DEF Solid
  <2>2. CASE d \in f /\ e \in f
    BY <1>3, <2>2 DEF Solid
  <2>3. CASE d \in fields /\ Apart(e.off, e.len, off, n)
    BY <1>2, <2>3 DEF Apart
  <2>4. CASE e \in fields /\ Apart(d.off, d.len, off, n)
    BY <1>2, <2>4 DEF Apart
  <2> QED BY <1>1, <2>1, <2>2, <2>3, <2>4
<1> HIDE DEF g
<1> QED BY <1>2, <1>3 DEF Solid, g

\* A reader that finds exactly one value takes it,
LEMMA TheOneIs ==
  ASSUME NEW v, NEW default
  PROVE  TheOne({v}, default) = v
<1>1. Cardinality({v}) = 1
  BY FS_Singleton
<1>2. (CHOOSE x \in {v} : TRUE) = v
  OBVIOUS
<1> QED BY <1>1, <1>2 DEF TheOne

\* and one that finds none falls back.
LEMMA TheOneOfNone ==
  ASSUME NEW default
  PROVE  TheOne({}, default) = default
<1>1. Cardinality({}) = 0
  BY FS_EmptySet
<1> QED BY <1>1 DEF TheOne

----------------------------------------------------------------------------
(***************************************************************************)
(* write_ifd fills the slots of the IFD and nothing else.                  *)
(***************************************************************************)
LEMMA IfdFieldsAre ==
  ASSUME NEW tags \in Seq(Tag), NEW big \in BOOLEAN, NEW off \in Nat
  PROVE  IfdFields(off, tags, big)
           = {SlotField(off, tags, big, s, SlotStart(off, tags, big, s)) : s \in Slots(tags, big)}
<1> DEFINE elems(i) == tags[i].len \div Width(big)
           entry(i) == EntryOffset(off, big, i)
           data(i)  == DeferredOffset(off, tags, big, i)
           deferred == {i \in DOMAIN tags : Deferred(tags[i], big)}
           arrays   == {i \in DOMAIN tags : tags[i].code \in OffsetArrayCodes}
           F(s) == SlotField(off, tags, big, s, SlotStart(off, tags, big, s))
           S(kind) == {s \in Slots(tags, big) : s.kind = kind}
<1>1. DOMAIN tags \subseteq Nat
  OBVIOUS
<1>2. \A i \in DOMAIN tags : elems(i) \in Int
  <2>1. \A i \in DOMAIN tags : tags[i].len \in Nat
    <3>1. \A i \in DOMAIN tags : tags[i] \in Tag
      OBVIOUS
    <3> QED BY <3>1 DEF Tag
  <2> QED BY <2>1 DEF Width, ElementWidth
<1>3. \A i \in DOMAIN tags : 1..elems(i) \subseteq Nat
  BY <1>2
<1>c. S("count") = {Slot("count", 0, 0)}
  BY DEF Slots, Slot
<1>n. S("next") = {Slot("next", 0, 0)}
  BY DEF Slots, Slot
<1>d. S("code") = {Slot("code", i, 0) : i \in DOMAIN tags}
  BY <1>1 DEF Slots, Slot
<1>p. S("data") = {Slot("data", i, 0) : i \in deferred}
  BY <1>1 DEF Slots, Slot
<1>e. S("elems") = {Slot("elems", i, 0) : i \in arrays}
  BY <1>1 DEF Slots, Slot
<1>v. S("elem") = UNION {{Slot("elem", i, j) : j \in 1..elems(i)} : i \in arrays}
  BY <1>1, <1>3 DEF Slots, Slot
<1>4. Slots(tags, big) = S("count") \cup S("next") \cup S("code") \cup S("data")
                          \cup S("elems") \cup S("elem")
  BY DEF Slots
<1>5. {F(s) : s \in S("count")} = {Field(off, CountSize(big), Len(tags))}
  BY <1>c DEF SlotField, SlotOff, SlotLen, SlotStart, Slot
<1>6. {F(s) : s \in S("next")} = {Field(NextPtrOffset(off, tags, big), NextPtrSize(big), 0)}
  BY <1>n DEF SlotField, SlotOff, SlotLen, SlotStart, Slot
<1>7. {F(s) : s \in S("code")} = {Field(entry(i), 2, tags[i].code) : i \in DOMAIN tags}
  <2>1. \A i \in DOMAIN tags : F(Slot("code", i, 0)) = Field(entry(i), 2, tags[i].code)
    BY DEF SlotField, SlotOff, SlotLen, SlotStart, Slot
  <2> HIDE DEF F, entry
  <2> QED BY <1>d, <2>1
<1>8. {F(s) : s \in S("data")} =
        {Field(entry(i) + ValueField(big), Width(big), data(i)) : i \in deferred}
  <2>1. \A i \in DOMAIN tags :
          F(Slot("data", i, 0)) = Field(entry(i) + ValueField(big), Width(big), data(i))
    BY DEF SlotField, SlotOff, SlotLen, SlotStart, Slot
  <2> HIDE DEF F, entry, data
  <2> QED BY <1>p, <2>1
<1>9. {F(s) : s \in S("elems")} = {Field(entry(i) + 4, Width(big), elems(i)) : i \in arrays}
  <2>1. \A i \in DOMAIN tags : F(Slot("elems", i, 0)) = Field(entry(i) + 4, Width(big), elems(i))
    BY DEF SlotField, SlotOff, SlotLen, SlotStart, Slot
  <2> HIDE DEF F, entry, elems
  <2> QED BY <1>e, <2>1
<1>10. {F(s) : s \in S("elem")}
         = (UNION {ArrayFields(data(i), elems(i), big) : i \in arrays \cap deferred})
           \cup (UNION {ArrayFields(entry(i) + ValueField(big), elems(i), big) :
                          i \in arrays \ deferred})
  <2>1. \A i \in arrays, j \in Nat :
          F(Slot("elem", i, j)) =
            Field((IF i \in deferred THEN data(i) ELSE entry(i) + ValueField(big))
                    + (j - 1) * Width(big), Width(big), 0)
    BY DEF SlotField, SlotOff, SlotLen, SlotStart, Slot, ValueOffset
  <2> DEFINE at(i) == IF i \in deferred THEN data(i) ELSE entry(i) + ValueField(big)
  <2>2. \A i \in arrays : {F(Slot("elem", i, j)) : j \in 1..elems(i)} = ArrayFields(at(i), elems(i), big)
    <3>1. \A i \in arrays : 1..elems(i) \subseteq Nat
      BY <1>3
    <3> HIDE DEF F, entry, data, elems, arrays, deferred
    <3> QED BY <2>1, <3>1 DEF ArrayFields
  <2>3. {F(s) : s \in S("elem")} = UNION {{F(Slot("elem", i, j)) : j \in 1..elems(i)} : i \in arrays}
    <3> HIDE DEF F, elems, arrays
    <3> QED BY <1>v
  <2>4. {F(s) : s \in S("elem")} = UNION {ArrayFields(at(i), elems(i), big) : i \in arrays}
    <3> HIDE DEF F, elems, arrays, at
    <3> QED BY <2>2, <2>3
  <2> HIDE DEF F, entry, data, elems, arrays, deferred
  <2> QED BY <2>4
<1>11. {F(s) : s \in Slots(tags, big)} =
         {F(s) : s \in S("count")} \cup {F(s) : s \in S("next")} \cup {F(s) : s \in S("code")}
         \cup {F(s) : s \in S("data")} \cup {F(s) : s \in S("elems")} \cup {F(s) : s \in S("elem")}
  <2> HIDE DEF F, S
  <2> QED BY <1>4
<1> HIDE DEF S
<1> QED BY <1>5, <1>6, <1>7, <1>8, <1>9, <1>10, <1>11 DEF IfdFields

\* A slot lies within its IFD.
LEMMA SlotPlace ==
  ASSUME NEW tags \in Seq(Tag), NEW isBig \in BOOLEAN, NEW off \in Nat, NEW s \in Slots(tags, isBig)
  PROVE  /\ SlotOff(off, tags, isBig, s) \in Nat /\ SlotLen(isBig, s) \in Nat \ {0}
         /\ off <= SlotOff(off, tags, isBig, s)
         /\ SlotOff(off, tags, isBig, s) + SlotLen(isBig, s) <= IfdEnd(off, tags, isBig)
<1> DEFINE r == Region(tags, isBig, s)
           so == SlotOff(off, tags, isBig, s)
           sl == SlotLen(isBig, s)
<1>1. /\ IsRegion(tags, isBig, r) /\ so \in Nat /\ sl \in Nat \ {0}
      /\ RegionOff(off, tags, isBig, r) <= so /\ so + sl <= RegionEnd(off, tags, isBig, r)
  BY SlotInRegion
<1>2. /\ RegionOff(off, tags, isBig, r) \in Nat /\ RegionEnd(off, tags, isBig, r) \in Nat
      /\ off <= RegionOff(off, tags, isBig, r)
      /\ RegionEnd(off, tags, isBig, r) <= IfdEnd(off, tags, isBig)
  BY <1>1, RegionsInOrder
<1>3. IfdEnd(off, tags, isBig) \in Nat
  BY PlacesType
<1> HIDE DEF so, sl, r
<1> QED BY <1>1, <1>2, <1>3 DEF so, sl

\* No number write_ifd writes overlaps another, or leaves the IFD.
LEMMA IfdFieldsSolid ==
  ASSUME NEW tags \in Seq(Tag), NEW big \in BOOLEAN, NEW off \in Nat
  PROVE  /\ Solid(IfdFields(off, tags, big))
         /\ \A e \in IfdFields(off, tags, big) :
              off <= e.off /\ e.off + e.len <= IfdEnd(off, tags, big)
<1> DEFINE F(s) == SlotField(off, tags, big, s, SlotStart(off, tags, big, s))
           so(s) == SlotOff(off, tags, big, s)
           sl(s) == SlotLen(big, s)
<1>1. \A s : F(s).off = so(s) /\ F(s).len = sl(s)
  BY FieldIs DEF SlotField
<1>2. ASSUME NEW s \in Slots(tags, big)
      PROVE  /\ so(s) \in Nat /\ sl(s) \in Nat \ {0} /\ off <= so(s)
             /\ so(s) + sl(s) <= IfdEnd(off, tags, big)
  BY SlotPlace
<1>3. \A s, t \in Slots(tags, big) : s # t => Apart(so(s), sl(s), so(t), sl(t))
  BY SlotsApart
<1>4. IfdFields(off, tags, big) = {F(s) : s \in Slots(tags, big)}
  BY IfdFieldsAre
<1> HIDE DEF F, so, sl
<1>5. ASSUME NEW d \in IfdFields(off, tags, big), NEW e \in IfdFields(off, tags, big), d # e
      PROVE  Apart(d.off, d.len, e.off, e.len)
  <2>1. PICK s \in Slots(tags, big) : d = F(s)
    BY <1>4
  <2>2. PICK t \in Slots(tags, big) : e = F(t)
    BY <1>4
  <2> QED BY <1>1, <1>3, <1>5, <2>1, <2>2
<1>6. \A e \in IfdFields(off, tags, big) :
        /\ e.off \in Nat /\ e.len \in Nat \ {0} /\ off <= e.off
        /\ e.off + e.len <= IfdEnd(off, tags, big)
  BY <1>1, <1>2, <1>4
<1> QED BY <1>5, <1>6 DEF Solid

----------------------------------------------------------------------------
\* The slots of an IFD at off hold these values.
HoldsIfd(f, off, tags, big, val) ==
  \A s \in Slots(tags, big) : SlotField(off, tags, big, s, val[s]) \in f

\* All but the next pointer and the arrays hold what write_ifd put there.
Patched(off, tags, big, val) ==
  \A s \in Slots(tags, big) :
    s.kind \notin {"next", "elem"} => val[s] = SlotStart(off, tags, big, s)

\* What a slot of a whole IFD holds is what a reader finds there.
LEMMA SlotReads ==
  ASSUME NEW f, Solid(f), NEW tags \in Seq(Tag), NEW big \in BOOLEAN, NEW off \in Nat,
         NEW val, HoldsIfd(f, off, tags, big, val), NEW s \in Slots(tags, big)
  PROVE  Nums(f, SlotOff(off, tags, big, s), SlotLen(big, s)) = {val[s]}
<1>1. Field(SlotOff(off, tags, big, s), SlotLen(big, s), val[s]) \in f
  BY DEF HoldsIfd, SlotField
<1> QED BY <1>1, NumsAre

\* A reader finds the number of entries
LEMMA ReadsCount ==
  ASSUME NEW f, Solid(f), NEW tags \in Seq(Tag), NEW big \in BOOLEAN, NEW off \in Nat,
         NEW val, HoldsIfd(f, off, tags, big, val), Patched(off, tags, big, val)
  PROVE  EntryCount(f, off, big) = {Len(tags)}
<1> DEFINE s == Slot("count", 0, 0)
<1>1. s \in Slots(tags, big)
  BY DEF Slots, Slot
<1>2. val[s] = Len(tags) /\ SlotOff(off, tags, big, s) = off /\ SlotLen(big, s) = CountSize(big)
  BY <1>1 DEF Patched, SlotStart, SlotOff, SlotLen, Slot
<1> QED BY <1>1, <1>2, SlotReads DEF EntryCount

\* and the pointer to the next IFD.
LEMMA ReadsNext ==
  ASSUME NEW f, Solid(f), NEW tags \in Seq(Tag), NEW big \in BOOLEAN, NEW off \in Nat,
         NEW val, HoldsIfd(f, off, tags, big, val), Patched(off, tags, big, val)
  PROVE  NextIfd(f, off, big) = {val[Slot("next", 0, 0)]}
<1> DEFINE s == Slot("next", 0, 0)
<1>1. s \in Slots(tags, big)
  BY DEF Slots, Slot
<1>2. SlotOff(off, tags, big, s) = NextPtrOffset(off, tags, big) /\ SlotLen(big, s) = NextPtrSize(big)
  BY DEF SlotOff, SlotLen, Slot
<1>3. Nums(f, off + CountSize(big) + Len(tags) * EntrySize(big), NextPtrSize(big)) = {val[s]}
  BY <1>1, <1>2, SlotReads DEF NextPtrOffset
<1> HIDE DEF s
<1> QED BY <1>3, ReadsCount DEF NextIfd, s

\* The one entry with the code of a block array.
LEMMA ReadsEntry ==
  ASSUME NEW f, Solid(f), NEW tags \in Seq(Tag), NEW big \in BOOLEAN, NEW off \in Nat,
         NEW val, HoldsIfd(f, off, tags, big, val), Patched(off, tags, big, val),
         NEW codes, NEW o \in DOMAIN tags, \A i \in DOMAIN tags : tags[i].code \in codes <=> i = o
  PROVE  Entries(f, off, big, codes) = {EntryOffset(off, big, o)}
<1>1. ASSUME NEW i \in DOMAIN tags PROVE Nums(f, EntryOffset(off, big, i), 2) = {tags[i].code}
  <2> DEFINE s == Slot("code", i, 0)
  <2>1. s \in Slots(tags, big)
    BY DEF Slots, Slot
  <2>2. /\ val[s] = tags[i].code /\ SlotOff(off, tags, big, s) = EntryOffset(off, big, i)
        /\ SlotLen(big, s) = 2
    BY <2>1 DEF Patched, SlotStart, SlotOff, SlotLen, Slot
  <2> QED BY <2>1, <2>2, SlotReads
<1>2. DOMAIN tags = 1..Len(tags)
  OBVIOUS
<1>3. \A i, j \in DOMAIN tags : EntryOffset(off, big, i) = EntryOffset(off, big, j) => i = j
  <2>1. CASE big
    BY <1>2, <2>1 DEF EntryOffset, EntrySize, CountSize
  <2>2. CASE ~big
    BY <1>2, <2>2 DEF EntryOffset, EntrySize, CountSize
  <2> QED BY <2>1, <2>2
<1>4. \A i \in DOMAIN tags : Nums(f, EntryOffset(off, big, i), 2) \cap codes # {} <=> i = o
  BY <1>1
<1>5. {entry \in {EntryOffset(off, big, i) : i \in 1..Len(tags)} : Nums(f, entry, 2) \cap codes # {}}
        = {EntryOffset(off, big, o)}
  BY <1>2, <1>4
<1> QED BY <1>5, ReadsCount DEF Entries

(***************************************************************************)
(* The reader finds the block array of an IFD, inline or deferred.         *)
(***************************************************************************)
LEMMA ReadsArray ==
  ASSUME NEW f, Solid(f), NEW tags \in Seq(Tag), NEW big \in BOOLEAN, NEW off \in Nat,
         NEW val, HoldsIfd(f, off, tags, big, val), Patched(off, tags, big, val),
         NEW codes, NEW o \in DOMAIN tags, \A i \in DOMAIN tags : tags[i].code \in codes <=> i = o,
         tags[o].code \in OffsetArrayCodes, NEW n \in Nat,
         tags[o].len \div Width(big) = n, n * Width(big) <= InlineMax(big) <=> ~Deferred(tags[o], big)
  PROVE  BlockArrays(f, off, big, codes) = {[j \in 1..n |-> {val[Slot("elem", o, j)]}]}
<1> DEFINE entry == EntryOffset(off, big, o)
           at == ValueOffset(off, tags, big, o)
<1>1. Entries(f, off, big, codes) = {entry}
  BY ReadsEntry
<1>2. Nums(f, entry + 4, Width(big)) = {n}
  <2> DEFINE s == Slot("elems", o, 0)
  <2>1. s \in Slots(tags, big)
    BY DEF Slots, Slot
  <2>2. val[s] = n /\ SlotOff(off, tags, big, s) = entry + 4 /\ SlotLen(big, s) = Width(big)
    BY <2>1 DEF Patched, SlotStart, SlotOff, SlotLen, Slot
  <2> QED BY <2>1, <2>2, SlotReads
<1>3. ArrayAt(f, entry, big, n) = {at}
  <2>1. CASE ~Deferred(tags[o], big)
    BY <2>1 DEF ArrayAt, ValueOffset
  <2>2. CASE Deferred(tags[o], big)
    <3> DEFINE s == Slot("data", o, 0)
    <3>1. s \in Slots(tags, big)
      BY <2>2 DEF Slots, Slot
    <3>2. /\ val[s] = at /\ SlotOff(off, tags, big, s) = entry + ValueField(big)
          /\ SlotLen(big, s) = Width(big)
      BY <2>2, <3>1 DEF Patched, SlotStart, SlotOff, SlotLen, Slot, ValueOffset
    <3>3. Nums(f, entry + ValueField(big), Width(big)) = {at}
      BY <3>1, <3>2, SlotReads
    <3> QED BY <2>2, <3>3 DEF ArrayAt
  <2> QED BY <2>1, <2>2
<1>4. ASSUME NEW j \in 1..n
      PROVE  Nums(f, at + (j - 1) * Width(big), Width(big)) = {val[Slot("elem", o, j)]}
  <2> DEFINE s == Slot("elem", o, j)
  <2>1. s \in Slots(tags, big)
    BY DEF Slots, Slot
  <2>2. SlotOff(off, tags, big, s) = at + (j - 1) * Width(big) /\ SlotLen(big, s) = Width(big)
    BY DEF SlotOff, SlotLen, Slot
  <2> QED BY <2>1, <2>2, SlotReads
<1> HIDE DEF entry, at
<1>5. [j \in 1..n |-> Nums(f, at + (j - 1) * Width(big), Width(big))]
        = [j \in 1..n |-> {val[Slot("elem", o, j)]}]
  BY <1>4
<1> DEFINE G(a, m) == [j \in 1..m |-> Nums(f, a + (j - 1) * Width(big), Width(big))]
           A(e, m) == {G(a, m) : a \in ArrayAt(f, e, big, m)}
<1>6. A(entry, n) = {[j \in 1..n |-> {val[Slot("elem", o, j)]}]}
  <2>1. G(at, n) = [j \in 1..n |-> {val[Slot("elem", o, j)]}]
    BY <1>5
  <2> HIDE DEF G
  <2>2. A(entry, n) = {G(at, n)}
    BY <1>3
  <2> QED BY <2>1, <2>2
<1>7. BlockArrays(f, off, big, codes) =
        UNION {UNION {A(e, m) : m \in Nums(f, e + 4, Width(big))} : e \in Entries(f, off, big, codes)}
  BY DEF BlockArrays
<1> HIDE DEF A
<1> QED BY <1>1, <1>2, <1>6, <1>7

(***************************************************************************)
(* One image: the reader gets each block from where the two arrays say.    *)
(***************************************************************************)
FetchedBlock(f, offs, counts) ==
  TheOne({ReadBlock(f, off, count) : off \in offs, count \in counts}, Damaged)

\* A block whose offset and byte count were found is read from there.
LEMMA ReadsFetched ==
  ASSUME NEW f, NEW off, NEW count
  PROVE  FetchedBlock(f, {off}, {count}) = ReadBlock(f, off, count)
<1> DEFINE found == {ReadBlock(f, u, v) : u \in {off}, v \in {count}}
<1>1. found = {ReadBlock(f, off, count)}
  OBVIOUS
<1>2. FetchedBlock(f, {off}, {count}) = TheOne(found, Damaged)
  BY DEF FetchedBlock
<1> HIDE DEF found
<1> QED BY <1>1, <1>2, TheOneIs

\* The reader finds the two block arrays offs and counts of an IFD.
FindsArrays(f, ifd, big, offs, counts) ==
  /\ BlockArrays(f, ifd, big, {TagStripOffsets, TagTileOffsets}) = {offs}
  /\ BlockArrays(f, ifd, big, {TagStripByteCounts, TagTileByteCounts}) = {counts}

FetchedImage(f, offs, counts) == [b \in DOMAIN offs |-> FetchedBlock(f, offs[b], counts[b])]

\* An IFD whose two arrays are found gives the image they describe.
LEMMA ReadsIfd ==
  ASSUME NEW f, NEW off, NEW big, NEW o, NEW c, DOMAIN c = DOMAIN o, FindsArrays(f, off, big, o, c)
  PROVE  ReadIfd(f, off, big) = FetchedImage(f, o, c)
<1> DEFINE read(x, y) == [b \in DOMAIN x |-> FetchedBlock(f, x[b], IF b \in DOMAIN y THEN y[b] ELSE {})]
           os == BlockArrays(f, off, big, {TagStripOffsets, TagTileOffsets})
           cs == BlockArrays(f, off, big, {TagStripByteCounts, TagTileByteCounts})
           found == {read(x, y) : x \in os, y \in cs}
<1>1. ReadIfd(f, off, big) = TheOne(found, <<Damaged>>)
  BY DEF ReadIfd, FetchedBlock
<1>2. os = {o} /\ cs = {c}
  BY DEF FindsArrays
<1>3. read(o, c) = FetchedImage(f, o, c)
  BY DEF FetchedImage
<1> HIDE DEF read, os, cs
<1>4. found = {read(o, c)}
  BY <1>2
<1> HIDE DEF found
<1>5. TheOne({read(o, c)}, <<Damaged>>) = read(o, c)
  BY TheOneIs
<1> QED BY <1>1, <1>3, <1>4, <1>5

(***************************************************************************)
(* The chain: the reader follows the pointers through the IFDs at at[1],   *)
(* at[2], ... up to the zero one, and meets no other.                      *)
(***************************************************************************)
THEOREM ReadsChain ==
  ASSUME NEW f, NEW header, NEW big, NEW max \in Nat, NEW m \in 0..max,
         NEW at \in [1..m -> Nat \ {0}],
         FirstIfd(f, header, big) = {IF m = 0 THEN 0 ELSE at[1]},
         \A k \in 1..m : NextIfd(f, at[k], big) = {IF k < m THEN at[k + 1] ELSE 0}
  PROVE  ReadChain(f, header, big, max) = [k \in 1..m |-> ReadIfd(f, at[k], big)]
<1> DEFINE K == 1..(max + 1)
           step(p, k) == IF k = 1 THEN FirstIfd(f, header, big)
                         ELSE UNION {NextIfd(f, q, big) : q \in p[k - 1] \ {0}}
           ptr == CHOOSE p : p = [k \in K |-> step(p, k)]
           g == [k \in K |-> IF k <= m THEN {at[k]} ELSE IF k = m + 1 THEN {0} ELSE {}]
<1>1. m \in Nat /\ m <= max /\ max + 1 \in Nat
  OBVIOUS
<1>2. \A k \in K : g[k] = step(g, k)
  <2> SUFFICES ASSUME NEW k \in K PROVE g[k] = step(g, k)
    OBVIOUS
  <2>1. CASE k = 1
    <3>1. g[1] = IF 1 <= m THEN {at[1]} ELSE {0}
      BY <1>1
    <3>2. FirstIfd(f, header, big) = IF 1 <= m THEN {at[1]} ELSE {0}
      BY <1>1
    <3> HIDE DEF g
    <3> QED BY <2>1, <3>1, <3>2
  <2>2. CASE k # 1
    <3> DEFINE j == k - 1
    <3>1. j \in K /\ j \in Nat \ {0} /\ k = j + 1
      BY <2>2
    <3>2. CASE j <= m
      <4>1. j \in 1..m /\ g[j] = {at[j]} /\ at[j] # 0
        BY <3>1, <3>2
      <4>2. NextIfd(f, at[j], big) = {IF j < m THEN at[j + 1] ELSE 0}
        BY <4>1
      <4>3. g[k] = {IF j < m THEN at[j + 1] ELSE 0}
        BY <1>1, <3>1, <3>2
      <4>4. step(g, k) = UNION {NextIfd(f, q, big) : q \in g[j] \ {0}}
        BY <2>2
      <4> HIDE DEF g, step, j
      <4>5. g[j] \ {0} = {at[j]}
        BY <4>1
      <4> QED BY <4>2, <4>3, <4>4, <4>5
    <3>3. CASE ~(j <= m)
      <4>1. g[k] = {} /\ g[j] \ {0} = {}
        BY <1>1, <3>1, <3>3
      <4>2. step(g, k) = UNION {NextIfd(f, q, big) : q \in g[j] \ {0}}
        BY <2>2
      <4> HIDE DEF g, step, j
      <4> QED BY <4>1, <4>2
    <3> QED BY <3>2, <3>3
  <2> QED BY <2>1, <2>2
<1>3. g = [k \in K |-> step(g, k)]
  <2>1. g = [k \in K |-> g[k]]
    OBVIOUS
  <2> HIDE DEF g, step, K
  <2> QED BY <1>2, <2>1
<1>4. ptr = [k \in K |-> step(ptr, k)]
  <2>1. \E p : p = [k \in K |-> step(p, k)]
    BY <1>3
  <2> HIDE DEF g, step, K
  <2> QED BY <2>1
<1>5. \A k \in K : ptr[k] = g[k]
  <2> DEFINE S == {n \in Nat : n + 1 \in K => ptr[n + 1] = g[n + 1]}
  <2> HIDE DEF ptr, g
  <2>1. \A k \in K : ptr[k] = step(ptr, k)
    <3> HIDE DEF step, K
    <3> QED BY <1>4
  <2>2. 0 \in S
    <3>1. 1 \in K /\ 0 + 1 = 1
      BY <1>1
    <3>2. step(ptr, 1) = step(g, 1)
      OBVIOUS
    <3> HIDE DEF step, K
    <3> QED BY <1>2, <2>1, <3>1, <3>2
  <2>3. ASSUME NEW n \in Nat, n \in S PROVE n + 1 \in S
    <3> SUFFICES ASSUME n + 2 \in K PROVE ptr[n + 2] = g[n + 2]
      OBVIOUS
    <3>1. n + 1 \in K /\ ptr[n + 1] = g[n + 1] /\ n + 2 # 1 /\ (n + 2) - 1 = n + 1
      BY <2>3
    <3>2. step(ptr, n + 2) = step(g, n + 2)
      BY <3>1
    <3> HIDE DEF step
    <3> QED BY <1>2, <2>1, <3>2
  <2>4. \A n \in Nat : n \in S
    <3> HIDE DEF S
    <3> QED BY <2>2, <2>3, SetInduction
  <2>5. \A k \in K : k - 1 \in Nat /\ (k - 1) + 1 = k
    OBVIOUS
  <2> QED BY <2>4, <2>5
<1> DEFINE length == Cardinality({k \in 1..max : ptr[k] \notin {{}, {0}}})
           tail == IF ptr[length + 1] = {0} THEN <<>> ELSE <<<<Damaged>>>>
           image(k) == TheOne({ReadIfd(f, p, big) : p \in ptr[k]}, <<Damaged>>)
<1>6. ReadChain(f, header, big, max) = [k \in 1..length |-> image(k)] \o tail
  BY DEF ReadChain
<1> HIDE DEF ptr
<1>7. length = m
  <2>1. {k \in 1..max : ptr[k] \notin {{}, {0}}} = 1..m
    <3>1. ASSUME NEW k \in 1..max PROVE ptr[k] \notin {{}, {0}} <=> k \in 1..m
      <4>1. k \in K /\ ptr[k] = g[k]
        <5>1. k \in K
          OBVIOUS
        <5> HIDE DEF g, K
        <5> QED BY <1>5, <5>1
      <4>2. CASE k <= m
        <5>1. k \in 1..m /\ at[k] # 0 /\ g[k] = {at[k]}
          BY <4>1, <4>2
        <5> QED BY <4>1, <5>1
      <4>3. CASE ~(k <= m)
        <5>1. k \notin 1..m /\ g[k] \in {{}, {0}}
          BY <4>1, <4>3
        <5> QED BY <4>1, <5>1
      <4> QED BY <4>2, <4>3
    <3> HIDE DEF g
    <3> QED BY <1>1, <3>1
  <2>2. Cardinality(1..m) = m
    BY <1>1, FS_Interval
  <2> QED BY <2>1, <2>2
<1>8. tail = <<>>
  <2>1. ptr[m + 1] = {0}
    <3>1. m + 1 \in K /\ g[m + 1] = {0}
      BY <1>1
    <3> HIDE DEF g, K
    <3> QED BY <1>5, <3>1
  <2> QED BY <1>7, <2>1
<1>9. \A k \in 1..m : image(k) = ReadIfd(f, at[k], big)
  <2> SUFFICES ASSUME NEW k \in 1..m PROVE image(k) = ReadIfd(f, at[k], big)
    OBVIOUS
  <2>1. k \in K /\ g[k] = {at[k]}
    BY <1>1
  <2>2. ptr[k] = {at[k]}
    BY <1>5, <2>1
  <2> DEFINE read == {ReadIfd(f, p, big) : p \in ptr[k]}
  <2>3. read = {ReadIfd(f, at[k], big)}
    BY <2>2
  <2> HIDE DEF read
  <2>4. TheOne(read, <<Damaged>>) = ReadIfd(f, at[k], big)
    BY <2>3, TheOneIs
  <2> QED BY <2>4 DEF read
<1> HIDE DEF length, tail, image, g
<1>10. [k \in 1..length |-> image(k)] = [k \in 1..m |-> ReadIfd(f, at[k], big)]
  BY <1>7, <1>9
<1> DEFINE chain == [k \in 1..m |-> ReadIfd(f, at[k], big)]
<1>11. chain \o <<>> = chain
  <2>1. chain \in Seq({ReadIfd(f, at[k], big) : k \in 1..m})
    BY <1>1
  <2> HIDE DEF chain
  <2> QED BY <2>1
<1> QED BY <1>6, <1>8, <1>10, <1>11

\* A chain that ends in the header holds no image.
LEMMA ReadsEmpty ==
  ASSUME NEW f, NEW header, NEW big, NEW max \in Nat, FirstIfd(f, header, big) = {0}
  PROVE  ReadChain(f, header, big, max) = <<>>
<1>1. PICK m \in 0..max : m = 0
  OBVIOUS
<1>2. [k \in 1..m |-> 1] \in [1..m -> Nat \ {0}]
  OBVIOUS
<1>3. PICK at : at \in [1..m -> Nat \ {0}]
  BY <1>2
<1>4. /\ FirstIfd(f, header, big) = {IF m = 0 THEN 0 ELSE at[1]}
      /\ \A k \in 1..m : NextIfd(f, at[k], big) = {IF k < m THEN at[k + 1] ELSE 0}
  BY <1>1
<1>5. ReadChain(f, header, big, max) = [k \in 1..m |-> ReadIfd(f, at[k], big)]
  BY <1>3, <1>4, ReadsChain
<1> QED BY <1>1, <1>5

\* The header that was written names the variant it chose.
LEMMA ReadsHeader ==
  ASSUME NEW f, Solid(f), NEW header, NEW isBig \in BOOLEAN,
         Field(header, 4, IF isBig THEN BigVersion ELSE ClassicVersion) \in f,
         isBig => Field(header + 4, 4, 8) \in f
  PROVE  IsBig(f, header) = {isBig}
<1>1. Nums(f, header, 4) = {IF isBig THEN BigVersion ELSE ClassicVersion}
  BY NumsAre
<1>2. isBig => Nums(f, header + 4, 4) = {8}
  BY NumsAre
<1> QED BY <1>1, <1>2 DEF IsBig, BigVersion, ClassicVersion

\* A file with a header is read along its chain, one without holds nothing.
LEMMA ReadsFile ==
  ASSUME NEW f, NEW header, NEW big \in BOOLEAN, NEW max, IsBig(f, header) = {big}
  PROVE  ReadFile(f, header, max) = ReadChain(f, header, big, max)
<1> DEFINE found == {ReadChain(f, header, x, max) : x \in IsBig(f, header)}
<1>1. found = {ReadChain(f, header, big, max)}
  OBVIOUS
<1>2. ReadFile(f, header, max) = TheOne(found, <<>>)
  BY DEF ReadFile
<1> HIDE DEF found
<1> QED BY <1>1, <1>2, TheOneIs

\* Without a magic number in the header there is nothing to read.
LEMMA ReadsNoFile ==
  ASSUME NEW f, NEW header, NEW max, IsBig(f, header) = {}
  PROVE  ReadFile(f, header, max) = <<>>
<1> DEFINE found == {ReadChain(f, header, x, max) : x \in IsBig(f, header)}
<1>1. found = {}
  OBVIOUS
<1>2. ReadFile(f, header, max) = TheOne(found, <<>>)
  BY DEF ReadFile
<1> HIDE DEF found
<1> QED BY <1>1, <1>2, TheOneOfNone

----------------------------------------------------------------------------
(***************************************************************************)
(* The cache.                                                              *)
(***************************************************************************)

\* E is a set of entries, and Caches(E) the caches that hold no others.
Sized(E)  == \A e \in E : e.size \in Nat
Caches(E) == [entries : Seq(E), bytes : Nat]

----------------------------------------------------------------------------
\* SizeTo satisfies its recursion, and is a natural number.
LEMMA SizeToSum ==
  ASSUME NEW E, Sized(E), NEW s \in Seq(E)
  PROVE  /\ SizeTo(s, 0) = 0
         /\ \A n \in 1..Len(s) : SizeTo(s, n) = SizeTo(s, n - 1) + s[n].size
         /\ \A n \in 0..Len(s) : SizeTo(s, n) \in Nat
<1> DEFINE N == Len(s)
           IsSum(k, f) == /\ f \in [0..k -> Nat] /\ f[0] = 0
                          /\ \A n \in 1..k : f[n] = f[n - 1] + s[n].size
           S == {k \in Nat : k <= N => \E f : IsSum(k, f)}
<1>0. N \in Nat /\ \A n \in 1..N : s[n].size \in Nat
  BY DEF Sized
<1>1. 0 \in S
  <2>1. IsSum(0, [n \in 0..0 |-> 0])
    OBVIOUS
  <2> QED BY <2>1
<1>2. ASSUME NEW k \in Nat, k + 1 <= N, NEW f, IsSum(k, f)
      PROVE  \E g : IsSum(k + 1, g)
  <2> DEFINE last == s[k + 1].size
             g == [n \in 0..(k + 1) |-> IF n <= k THEN f[n] ELSE f[k] + last]
  <2>1. last \in Nat
    BY <1>0, <1>2
  <2>2. g \in [0..(k + 1) -> Nat] /\ g[0] = 0
    <3> HIDE DEF last
    <3> QED BY <1>2, <2>1
  <2>3. ASSUME NEW n \in 1..(k + 1) PROVE g[n] = g[n - 1] + s[n].size
    <3>1. CASE n <= k
      <4>1. n \in 1..k /\ n \in 0..(k + 1) /\ n - 1 \in 0..(k + 1) /\ n - 1 <= k
        BY <3>1
      <4>2. g[n] = f[n] /\ g[n - 1] = f[n - 1]
        BY <3>1, <4>1
      <4> QED BY <4>1, <4>2, <1>2
    <3>2. CASE n = k + 1
      <4>1. g[n] = f[k] + last /\ g[n - 1] = f[k]
        BY <3>2
      <4> QED BY <3>2, <4>1
    <3> QED BY <3>1, <3>2
  <2>4. IsSum(k + 1, g)
    BY <2>2, <2>3
  <2> HIDE DEF g, IsSum
  <2> QED BY <2>4
<1>3. PICK f : IsSum(N, f)
  <2> HIDE DEF IsSum
  <2>1. \A k \in Nat : k \in S => k + 1 \in S
    BY <1>0, <1>2
  <2> HIDE DEF S
  <2>2. N \in S
    BY <1>0, <1>1, <2>1, SetInduction
  <2> QED BY <1>0, <2>2 DEF S
<1>4. f = [n \in 0..N |-> IF n = 0 THEN 0 ELSE f[n - 1] + s[n].size]
  <2>1. \A n \in 0..N : f[n] = IF n = 0 THEN 0 ELSE f[n - 1] + s[n].size
    BY <1>0, <1>3
  <2>2. f = [n \in 0..N |-> f[n]]
    BY <1>3
  <2> QED BY <2>1, <2>2
<1> DEFINE sum == CHOOSE h : h = [n \in 0..Len(s) |->
                              IF n = 0 THEN 0 ELSE h[n - 1] + s[n].size]
<1>5. sum = [n \in 0..N |-> IF n = 0 THEN 0 ELSE sum[n - 1] + s[n].size]
  <2> HIDE DEF IsSum
  <2> QED BY <1>4
<1>6. \A n : SizeTo(s, n) = sum[n]
  BY DEF SizeTo
<1> HIDE DEF sum, IsSum
<1>7. \A n \in 0..N : sum[n] = IF n = 0 THEN 0 ELSE sum[n - 1] + s[n].size
  BY <1>5
<1>8. sum[0] = 0 /\ \A n \in 1..N : sum[n] = sum[n - 1] + s[n].size
  BY <1>0, <1>7
<1>9. \A n \in 0..N : sum[n] \in Nat
  <2> DEFINE T == {n \in Nat : n <= N => sum[n] \in Nat}
  <2>1. 0 \in T
    BY <1>8
  <2>2. ASSUME NEW n \in Nat, n \in T, n + 1 <= N PROVE sum[n + 1] \in Nat
    <3>1. sum[n + 1] = sum[n] + s[n + 1].size /\ sum[n] \in Nat /\ s[n + 1].size \in Nat
      BY <1>0, <1>8, <2>2
    <3> QED BY <3>1
  <2>3. \A n \in Nat : n \in T => n + 1 \in T
    BY <2>2
  <2>4. \A n \in Nat : n \in T
    <3> HIDE DEF T
    <3> QED BY <2>1, <2>3, SetInduction
  <2> QED BY <2>4
<1> QED BY <1>6, <1>8, <1>9

LEMMA SizeIsNat ==
  ASSUME NEW E, Sized(E), NEW s \in Seq(E)
  PROVE  Size(s) \in Nat /\ SizeTo(s, Len(s)) = Size(s)
BY SizeToSum DEF Size

\* Where two lists agree over a stretch of entries, their sizes grow alike.
Alike(s, m, a, t, k, b) == a - m = b - k /\ \A i \in 1..(a - m) : s[m + i] = t[k + i]

LEMMA SizeShift ==
  ASSUME NEW E, Sized(E), NEW s \in Seq(E), NEW t \in Seq(E),
         NEW m \in 0..Len(s), NEW a \in m..Len(s),
         NEW k \in 0..Len(t), NEW b \in k..Len(t),
         Alike(s, m, a, t, k, b)
  PROVE  SizeTo(s, a) - SizeTo(s, m) = SizeTo(t, b) - SizeTo(t, k)
<1> DEFINE d == a - m
           S == {i \in Nat : i <= d =>
                   SizeTo(s, m + i) - SizeTo(s, m) = SizeTo(t, k + i) - SizeTo(t, k)}
<1>0. /\ Len(s) \in Nat /\ Len(t) \in Nat /\ d \in Nat /\ m \in Nat /\ k \in Nat
      /\ m + d = a /\ k + d = b /\ a <= Len(s) /\ b <= Len(t)
  BY DEF Alike
<1>1. SizeTo(s, m) \in Nat /\ SizeTo(t, k) \in Nat
  BY SizeToSum
<1>7. \A n \in 1..Len(s) :
        SizeTo(s, n) = SizeTo(s, n - 1) + s[n].size /\ SizeTo(s, n - 1) \in Nat
  BY <1>0, SizeToSum
<1>8. \A n \in 1..Len(t) :
        SizeTo(t, n) = SizeTo(t, n - 1) + t[n].size /\ SizeTo(t, n - 1) \in Nat
  BY <1>0, SizeToSum
<1> HIDE DEF d
<1>2. 0 \in S
  BY <1>0, <1>1
<1>3. ASSUME NEW i \in Nat, i \in S, i + 1 <= d
      PROVE  SizeTo(s, m + (i + 1)) - SizeTo(s, m) = SizeTo(t, k + (i + 1)) - SizeTo(t, k)
  <2> DEFINE x == m + (i + 1)
             y == k + (i + 1)
  <2>1. x \in 1..Len(s) /\ y \in 1..Len(t) /\ x - 1 = m + i /\ y - 1 = k + i
    BY <1>0, <1>3
  <2>2. s[x] = t[y]
    <3>1. i + 1 \in 1..(a - m)
      BY <1>0, <1>3 DEF d
    <3> QED BY <3>1 DEF Alike
  <2>3. SizeTo(s, x - 1) - SizeTo(s, m) = SizeTo(t, y - 1) - SizeTo(t, k)
    BY <1>0, <1>3, <2>1
  <2> HIDE DEF x, y
  <2>4. SizeTo(s, x) = SizeTo(s, x - 1) + s[x].size /\ SizeTo(s, x - 1) \in Nat
    BY <1>7, <2>1
  <2>5. SizeTo(t, y) = SizeTo(t, y - 1) + t[y].size /\ SizeTo(t, y - 1) \in Nat
    BY <1>8, <2>1
  <2>6. s[x].size \in Nat
    BY <2>1 DEF Sized
  <2>7. SizeTo(s, x) - SizeTo(s, m) = SizeTo(t, y) - SizeTo(t, k)
    <3>1. s[x].size = t[y].size
      BY <2>2
    <3> DEFINE w == s[x].size
               p == SizeTo(s, x - 1)
               q == SizeTo(t, y - 1)
               g == SizeTo(s, m)
               h == SizeTo(t, k)
    <3>2. SizeTo(s, x) = p + w /\ SizeTo(t, y) = q + w /\ p - g = q - h
      BY <2>3, <2>4, <2>5, <3>1
    <3>3. w \in Nat /\ p \in Nat /\ q \in Nat
      BY <2>4, <2>5, <2>6
    <3>4. g \in Nat /\ h \in Nat
      BY <1>1
    <3>5. p - g = q - h
      BY <3>2
    <3> HIDE DEF w, p, q, g, h, S
    <3>6. (p + w) - g = (q + w) - h
      BY ONLY <3>3, <3>4, <3>5
    <3>7. SizeTo(s, x) = p + w /\ SizeTo(t, y) = q + w
      BY <3>2
    <3>8. SizeTo(s, x) - g = SizeTo(t, y) - h
      BY ONLY <3>6, <3>7
    <3> QED BY ONLY <3>8 DEF g, h
  <2> QED BY <2>7 DEF x, y
<1>4. \A i \in Nat : i \in S => i + 1 \in S
  BY <1>3
<1>5. \A i \in Nat : i \in S
  <2> HIDE DEF S
  <2> QED BY <1>2, <1>4, SetInduction
<1>6. d \in S
  BY <1>0, <1>5
<1> QED BY <1>0, <1>6

\* What an append gives.
LEMMA AppendedIs ==
  ASSUME NEW E, NEW u \in Seq(E), NEW e \in E, NEW t, t = Append(u, e)
  PROVE  /\ t \in Seq(E) /\ Len(u) \in Nat /\ Len(t) = Len(u) + 1 /\ DOMAIN t = 1..(Len(u) + 1)
         /\ t[Len(u) + 1] = e /\ \A i \in 1..Len(u) : t[i] = u[i]
BY AppendProperties

\* An entry taken out, and the other entries in its place.
LEMMA RemoveAtIs ==
  ASSUME NEW E, NEW s \in Seq(E), NEW n \in 1..Len(s)
  PROVE  /\ RemoveAt(s, n) \in Seq(E)
         /\ Len(RemoveAt(s, n)) = Len(s) - 1
         /\ \A i \in 1..(n - 1) : RemoveAt(s, n)[i] = s[i]
         /\ \A i \in n..(Len(s) - 1) : RemoveAt(s, n)[i] = s[i + 1]
<1> DEFINE u == SubSeq(s, 1, n - 1)
           v == SubSeq(s, n + 1, Len(s))
<1>0. Len(s) \in Nat
  OBVIOUS
<1>1. u \in Seq(E) /\ Len(u) = n - 1 /\ \A i \in 1..(n - 1) : u[i] = s[i]
  BY <1>0
<1>2. v \in Seq(E) /\ Len(v) = Len(s) - n /\ \A i \in 1..(Len(s) - n) : v[i] = s[n + i]
  BY <1>0
<1> HIDE DEF u, v
<1>3. /\ u \o v \in Seq(E)
      /\ Len(u \o v) = Len(s) - 1
      /\ \A i \in 1..(Len(s) - 1) :
           (u \o v)[i] = IF i <= n - 1 THEN u[i] ELSE v[i - (n - 1)]
  <2>1. /\ u \o v \in Seq(E) /\ Len(u \o v) = Len(u) + Len(v)
        /\ \A i \in 1..(Len(u) + Len(v)) :
             (u \o v)[i] = IF i <= Len(u) THEN u[i] ELSE v[i - Len(u)]
    BY <1>1, <1>2, ConcatProperties
  <2>2. Len(u) + Len(v) = Len(s) - 1 /\ Len(u) = n - 1
    BY <1>0, <1>1, <1>2
  <2> QED BY ONLY <2>1, <2>2
<1>4. \A i \in n..(Len(s) - 1) : (u \o v)[i] = s[i + 1]
  <2> SUFFICES ASSUME NEW i \in n..(Len(s) - 1) PROVE (u \o v)[i] = s[i + 1]
    OBVIOUS
  <2>1. i - (n - 1) \in 1..(Len(s) - n) /\ n + (i - (n - 1)) = i + 1
    BY <1>0
  <2>2. v[i - (n - 1)] = s[i + 1]
    BY <1>2, <2>1
  <2>3. i \in 1..(Len(s) - 1) /\ ~(i <= n - 1)
    BY <1>0
  <2> QED BY <1>3, <2>2, <2>3
<1>5. \A i \in 1..(n - 1) : (u \o v)[i] = s[i]
  BY <1>0, <1>1, <1>3
<1> QED BY <1>3, <1>4, <1>5 DEF RemoveAt, u, v

LEMMA SizeRemoveAt ==
  ASSUME NEW E, Sized(E), NEW s \in Seq(E), NEW n \in 1..Len(s)
  PROVE  Size(RemoveAt(s, n)) = Size(s) - s[n].size
<1> DEFINE t == RemoveAt(s, n)
<1>0. Len(s) \in Nat /\ t \in Seq(E) /\ Len(t) = Len(s) - 1
  BY RemoveAtIs
<1>1. /\ \A i \in 1..(n - 1) : t[i] = s[i]
      /\ \A i \in n..(Len(s) - 1) : t[i] = s[i + 1]
  BY RemoveAtIs
<1> HIDE DEF t
<1>2. SizeTo(s, n - 1) = SizeTo(t, n - 1)
  <2>1. SizeTo(s, 0) = 0 /\ SizeTo(t, 0) = 0
    BY <1>0, SizeToSum
  <2>2. Alike(s, 0, n - 1, t, 0, n - 1)
    BY <1>1 DEF Alike
  <2>3. 0 \in 0..Len(s) /\ 0 \in 0..Len(t) /\ n - 1 \in 0..Len(s) /\ n - 1 \in 0..Len(t)
    BY <1>0
  <2>4. SizeTo(s, n - 1) - SizeTo(s, 0) = SizeTo(t, n - 1) - SizeTo(t, 0)
    BY <1>0, <2>2, <2>3, SizeShift
  <2>5. SizeTo(s, n - 1) \in Nat /\ SizeTo(t, n - 1) \in Nat
    BY <1>0, SizeToSum
  <2> QED BY <2>1, <2>4, <2>5
<1>3. SizeTo(s, Len(s)) - SizeTo(s, n) = SizeTo(t, Len(t)) - SizeTo(t, n - 1)
  <2>1. /\ n \in 0..Len(s) /\ Len(s) \in n..Len(s)
        /\ n - 1 \in 0..Len(t) /\ Len(t) \in (n - 1)..Len(t)
    BY <1>0
  <2>2. Alike(s, n, Len(s), t, n - 1, Len(t))
    <3> SUFFICES ASSUME NEW i \in 1..(Len(s) - n) PROVE s[n + i] = t[(n - 1) + i]
      BY <1>0 DEF Alike
    <3>1. (n - 1) + i \in n..(Len(s) - 1) /\ ((n - 1) + i) + 1 = n + i
      BY <1>0
    <3> QED BY <1>1, <3>1
  <2> QED BY <1>0, <2>1, <2>2, SizeShift
<1>4. SizeTo(s, n) = SizeTo(s, n - 1) + s[n].size
  BY <1>0, SizeToSum
<1>5. /\ SizeTo(s, n - 1) \in Nat /\ SizeTo(t, n - 1) \in Nat /\ s[n].size \in Nat
      /\ SizeTo(s, Len(s)) \in Nat /\ SizeTo(t, Len(t)) \in Nat
  BY <1>0, SizeToSum DEF Sized
<1>6. SizeTo(t, Len(t)) = SizeTo(s, Len(s)) - s[n].size
  BY ONLY <1>2, <1>3, <1>4, <1>5, SMTT(30)
<1> QED BY <1>6 DEF Size, t

LEMMA SizeAppend ==
  ASSUME NEW E, Sized(E), NEW s \in Seq(E), NEW e \in E
  PROVE  Size(Append(s, e)) = Size(s) + e.size
<1> DEFINE t == Append(s, e)
<1>0. /\ Len(s) \in Nat /\ t \in Seq(E) /\ Len(t) = Len(s) + 1
      /\ t[Len(s) + 1] = e /\ \A i \in 1..Len(s) : t[i] = s[i]
  BY AppendProperties
<1> HIDE DEF t
<1>1. SizeTo(t, Len(s)) = SizeTo(s, Len(s))
  <2>1. SizeTo(s, 0) = 0 /\ SizeTo(t, 0) = 0
    BY <1>0, SizeToSum
  <2>2. /\ 0 \in 0..Len(s) /\ Len(s) \in 0..Len(s)
        /\ 0 \in 0..Len(t) /\ Len(s) \in 0..Len(t)
        /\ Alike(s, 0, Len(s), t, 0, Len(s))
    BY <1>0 DEF Alike
  <2>3. SizeTo(s, Len(s)) - SizeTo(s, 0) = SizeTo(t, Len(s)) - SizeTo(t, 0)
    BY <1>0, <2>2, SizeShift
  <2>4. SizeTo(s, Len(s)) \in Nat /\ SizeTo(t, Len(s)) \in Nat
    BY <1>0, <2>2, SizeToSum
  <2> QED BY <2>1, <2>3, <2>4
<1>2. SizeTo(t, Len(t)) = SizeTo(t, Len(t) - 1) + t[Len(t)].size
  BY <1>0, SizeToSum
<1>3. Len(t) - 1 = Len(s)
  BY <1>0
<1>4. Size(t) = Size(s) + e.size
  BY <1>0, <1>1, <1>2, <1>3 DEF Size
<1> QED BY <1>4 DEF t

\* The entries left when the first n are dropped.
LEMMA DroppedIs ==
  ASSUME NEW E, Sized(E), NEW s \in Seq(E), NEW n \in 0..Len(s)
  PROVE  /\ SubSeq(s, n + 1, Len(s)) \in Seq(E)
         /\ Len(SubSeq(s, n + 1, Len(s))) = Len(s) - n
         /\ \A i \in 1..(Len(s) - n) : SubSeq(s, n + 1, Len(s))[i] = s[n + i]
         /\ Size(SubSeq(s, n + 1, Len(s))) = Size(s) - SizeTo(s, n)
<1> DEFINE t == SubSeq(s, n + 1, Len(s))
           d == Len(s) - n
<1>0. Len(s) \in Nat /\ n \in Nat /\ d \in Nat /\ n + d = Len(s) /\ d - 0 = d
  OBVIOUS
<1>1. t \in Seq(E) /\ Len(t) = d /\ \A i \in 1..d : t[i] = s[n + i]
  <2>1. \A i \in (n + 1)..Len(s) : s[i] \in E
    BY <1>0
  <2>2. Len(t) = IF n + 1 <= Len(s) THEN Len(s) - (n + 1) + 1 ELSE 0
    BY <1>0, <2>1, SubSeqProperties
  <2>3. t \in Seq(E) /\ \A i \in 1..(Len(s) - (n + 1) + 1) : t[i] = s[(n + 1) + i - 1]
    BY <1>0, <2>1, SubSeqProperties
  <2>4. \A i \in 1..d : i \in 1..(Len(s) - (n + 1) + 1) /\ (n + 1) + i - 1 = n + i
    BY <1>0
  <2> HIDE DEF t, d
  <2>5. \A i \in 1..d : t[i] = s[n + i]
    BY <2>3, <2>4
  <2>6. Len(t) = d
    BY <1>0, <2>2
  <2> QED BY <2>3, <2>5, <2>6
<1>2. Len(s) - n = d
  OBVIOUS
<1> HIDE DEF t, d
<1>5. SizeTo(s, Len(s)) - SizeTo(s, n) = SizeTo(t, d) - SizeTo(t, 0)
  <2>1. Alike(s, n, Len(s), t, 0, d)
    BY <1>0, <1>1, <1>2 DEF Alike
  <2>2. Len(s) \in n..Len(s) /\ 0 \in 0..Len(t) /\ d \in 0..Len(t)
    BY <1>0, <1>1, <1>2
  <2> QED BY <1>1, <2>1, <2>2, SizeShift
<1>3. SizeTo(t, 0) = 0 /\ SizeTo(t, Len(t)) \in Nat
  BY <1>0, <1>1, SizeToSum
<1>4. Size(t) = Size(s) - SizeTo(s, n)
  BY <1>0, <1>1, <1>5, <1>3 DEF Size
<1> QED BY <1>1, <1>4 DEF t, d
----------------------------------------------------------------------------
\* No key is held twice; and a list keeps that which takes each entry from another
\* list, at a place of its own.
Unique(s) == \A m, n \in DOMAIN s : s[m].key = s[n].key => m = n

Drawn(t, p, s) ==
  /\ p \in [1..Len(t) -> 1..Len(s)]
  /\ \A i \in 1..Len(t) : t[i] = s[p[i]]
  /\ \A i, j \in 1..Len(t) : p[i] = p[j] => i = j

LEMMA UniqueKept ==
  ASSUME NEW E, NEW s \in Seq(E), NEW t \in Seq(E), Unique(s), NEW p, Drawn(t, p, s)
  PROVE  Unique(t)
<1> SUFFICES ASSUME NEW i \in 1..Len(t), NEW j \in 1..Len(t), t[i].key = t[j].key
             PROVE  i = j
  BY DEF Unique
<1>1. p[i] \in DOMAIN s /\ p[j] \in DOMAIN s /\ s[p[i]].key = s[p[j]].key
  BY DEF Drawn
<1> QED BY <1>1 DEF Unique, Drawn

LEMMA UniqueRemoved ==
  ASSUME NEW E, NEW s \in Seq(E), Unique(s), NEW n \in 1..Len(s)
  PROVE  Unique(RemoveAt(s, n))
<1> DEFINE t == RemoveAt(s, n)
           p == [i \in 1..Len(t) |-> IF i < n THEN i ELSE i + 1]
<1>1. /\ Len(s) \in Nat /\ t \in Seq(E) /\ Len(t) = Len(s) - 1
      /\ \A i \in 1..(n - 1) : t[i] = s[i]
      /\ \A i \in n..(Len(s) - 1) : t[i] = s[i + 1]
  <2>1. Len(s) \in Nat
    OBVIOUS
  <2> QED BY <2>1, RemoveAtIs
<1> HIDE DEF t
<1>2. p \in [1..Len(t) -> 1..Len(s)]
  BY <1>1
<1>3. \A i \in 1..Len(t) : t[i] = s[p[i]]
  BY <1>1
<1>4. \A i, j \in 1..Len(t) : p[i] = p[j] => i = j
  BY <1>1
<1>5. Drawn(t, p, s)
  BY <1>2, <1>3, <1>4 DEF Drawn
<1> HIDE DEF p
<1>6. Unique(t)
  BY <1>1, <1>5, UniqueKept
<1> QED BY <1>6 DEF t

LEMMA UniqueDropped ==
  ASSUME NEW E, Sized(E), NEW s \in Seq(E), Unique(s), NEW n \in 0..Len(s)
  PROVE  Unique(SubSeq(s, n + 1, Len(s)))
<1> DEFINE t == SubSeq(s, n + 1, Len(s))
           p == [i \in 1..Len(t) |-> n + i]
<1>1. /\ Len(s) \in Nat /\ t \in Seq(E) /\ Len(t) = Len(s) - n
      /\ \A i \in 1..(Len(s) - n) : t[i] = s[n + i]
  BY DroppedIs
<1> HIDE DEF t
<1>2. p \in [1..Len(t) -> 1..Len(s)]
  BY <1>1
<1>3. \A i \in 1..Len(t) : t[i] = s[p[i]]
  BY <1>1
<1>4. \A i, j \in 1..Len(t) : p[i] = p[j] => i = j
  BY <1>1
<1>5. Drawn(t, p, s)
  BY <1>2, <1>3, <1>4 DEF Drawn
<1> HIDE DEF p
<1>6. Unique(t)
  BY <1>1, <1>5, UniqueKept
<1> QED BY <1>6 DEF t

LEMMA UniqueAppended ==
  ASSUME NEW E, NEW s \in Seq(E), Unique(s), NEW e \in E,
         \A n \in 1..Len(s) : s[n].key # e.key
  PROVE  Unique(Append(s, e))
<1> DEFINE t == Append(s, e)
<1>1. /\ Len(s) \in Nat /\ t \in Seq(E) /\ Len(t) = Len(s) + 1
      /\ t[Len(s) + 1] = e /\ \A i \in 1..Len(s) : t[i] = s[i]
  BY AppendProperties
<1> HIDE DEF t
<1> SUFFICES ASSUME NEW i \in 1..Len(t), NEW j \in 1..Len(t), t[i].key = t[j].key
             PROVE  i = j
  BY <1>1 DEF Unique, t
<1>2. \A n \in 1..Len(t) : n \in 1..Len(s) \/ n = Len(s) + 1
  BY <1>1
<1>3. CASE i \in 1..Len(s) /\ j \in 1..Len(s)
  BY <1>1, <1>3 DEF Unique
<1>4. CASE i = Len(s) + 1 /\ j = Len(s) + 1
  BY <1>4
<1>5. CASE i \in 1..Len(s) /\ j = Len(s) + 1
  BY <1>1, <1>5
<1>6. CASE i = Len(s) + 1 /\ j \in 1..Len(s)
  BY <1>1, <1>6
<1> QED BY <1>2, <1>3, <1>4, <1>5, <1>6

\* The key of an entry that is taken out is left nowhere.
LEMMA RemovedKey ==
  ASSUME NEW E, NEW s \in Seq(E), Unique(s), NEW n \in 1..Len(s)
  PROVE  \A i \in 1..Len(RemoveAt(s, n)) : RemoveAt(s, n)[i].key # s[n].key
<1> DEFINE u == RemoveAt(s, n)
<1>1. /\ Len(s) \in Nat /\ Len(u) = Len(s) - 1
      /\ \A i \in 1..(n - 1) : u[i] = s[i]
      /\ \A i \in n..(Len(s) - 1) : u[i] = s[i + 1]
  <2>1. Len(s) \in Nat
    OBVIOUS
  <2> QED BY <2>1, RemoveAtIs
<1> HIDE DEF u
<1>2. ASSUME NEW i \in 1..Len(u) PROVE u[i].key # s[n].key
  <2>1. CASE i < n
    <3>1. u[i] = s[i] /\ i \in DOMAIN s /\ n \in DOMAIN s
      BY <1>1, <2>1
    <3> QED BY <2>1, <3>1 DEF Unique
  <2>2. CASE i >= n
    <3>1. u[i] = s[i + 1] /\ i + 1 \in DOMAIN s /\ n \in DOMAIN s
      BY <1>1, <2>2
    <3> QED BY <2>2, <3>1 DEF Unique
  <2> QED BY <1>1, <2>1, <2>2
<1> QED BY <1>2 DEF u

----------------------------------------------------------------------------
(***************************************************************************)
(* The limits an operation keeps, in the parts the proofs handle: those of *)
(* WithinLimits, and the cap on the entries.                               *)
(***************************************************************************)
LEMMA LimitsInParts ==
  ASSUME NEW E, NEW c \in Caches(E)
  PROVE  WithinLimits(c) <=> /\ c.bytes = Size(c.entries) /\ c.bytes <= MaxBytes
                             /\ Len(c.entries) <= MaxSlots /\ Unique(c.entries)
BY DEF WithinLimits, Unique

\* The position under which a key is found.
LEMMA LookupFinds ==
  ASSUME NEW E, NEW c \in Caches(E), NEW key, Lookup(c, key) # {}
  PROVE  /\ (CHOOSE n \in Lookup(c, key) : TRUE) \in 1..Len(c.entries)
         /\ c.entries[CHOOSE n \in Lookup(c, key) : TRUE].key = key
<1>1. (CHOOSE n \in Lookup(c, key) : TRUE) \in Lookup(c, key)
  OBVIOUS
<1>2. DOMAIN c.entries = 1..Len(c.entries)
  BY DEF Caches
<1> QED BY <1>1, <1>2 DEF Lookup

LEMMA PromotedKeeps ==
  ASSUME NEW E, Sized(E), NEW c \in Caches(E), NEW key
  PROVE  /\ Promoted(c, key) \in Caches(E)
         /\ WithinLimits(c) => WithinLimits(Promoted(c, key))
<1>1. CASE Hits(c, key) = {}
  BY <1>1 DEF Promoted
<1>2. CASE Hits(c, key) # {}
  <2> DEFINE s == c.entries
             n == CHOOSE n \in Lookup(c, key) : TRUE
             u == RemoveAt(s, n)
             t == Append(u, s[n])
  <2>1. Lookup(c, key) # {}
    BY <1>2 DEF Hits
  <2>2. s \in Seq(E) /\ c.bytes \in Nat /\ n \in 1..Len(s)
    BY <2>1, LookupFinds DEF Caches
  <2>3. Promoted(c, key) = [c EXCEPT !.entries = t]
    BY <1>2 DEF Promoted
  <2> HIDE DEF s, n
  <2>4. /\ u \in Seq(E) /\ Len(u) = Len(s) - 1 /\ Size(u) = Size(s) - s[n].size
        /\ Unique(s) => Unique(u)
    BY <2>2, RemoveAtIs, SizeRemoveAt, UniqueRemoved
  <2>5. s[n] \in E /\ s[n].size \in Nat /\ Len(s) \in Nat
    BY <2>2 DEF Sized
  <2>6. Unique(s) => \A i \in 1..Len(u) : u[i].key # s[n].key
    BY <2>2, RemovedKey
  <2> HIDE DEF u
  <2>7. /\ t \in Seq(E) /\ Len(t) = Len(s)
        /\ Size(t) = Size(u) + s[n].size
    BY <2>4, <2>5, SizeAppend, AppendProperties
  <2>8. Unique(s) => Unique(t)
    BY <2>4, <2>5, <2>6, UniqueAppended
  <2>9. Size(s) \in Nat
    BY <2>2, <2>5, SizeToSum DEF Size
  <2>10. Size(t) = Size(s)
    BY <2>4, <2>5, <2>7, <2>9
  <2> HIDE DEF t
  <2>11. /\ Promoted(c, key) \in Caches(E)
         /\ Promoted(c, key).entries = t /\ Promoted(c, key).bytes = c.bytes
    BY <2>2, <2>3, <2>7 DEF Caches
  <2> QED BY <2>7, <2>8, <2>10, <2>11, LimitsInParts DEF s
<1> QED BY <1>1, <1>2

Holds(c, key) == \E n \in 1..Len(c.entries) : c.entries[n].key = key

LEMMA PoppedKeeps ==
  ASSUME NEW E, Sized(E), NEW c \in Caches(E), NEW key
  PROVE  /\ Popped(c, key) \in Caches(E)
         /\ WithinLimits(c) => WithinLimits(Popped(c, key)) /\ ~Holds(Popped(c, key), key)
<1> DEFINE s == c.entries
<1>0. s \in Seq(E) /\ c.bytes \in Nat /\ Len(s) \in Nat /\ DOMAIN s = 1..Len(s)
  BY DEF Caches
<1>1. CASE Lookup(c, key) = {}
  BY <1>0, <1>1 DEF Popped, Holds, Lookup
<1>2. CASE Lookup(c, key) # {}
  <2> DEFINE n == CHOOSE n \in Lookup(c, key) : TRUE
             u == RemoveAt(s, n)
             b == SaturatingSub(c.bytes, s[n].size)
  <2>1. n \in 1..Len(s) /\ s[n].key = key
    BY <1>2, LookupFinds
  <2>2. Popped(c, key) = [entries |-> u, bytes |-> b]
    BY <1>2 DEF Popped, Without
  <2> HIDE DEF s, n
  <2>3. /\ u \in Seq(E) /\ Len(u) = Len(s) - 1 /\ Size(u) = Size(s) - s[n].size
        /\ Unique(s) => Unique(u)
    BY <1>0, <2>1, RemoveAtIs, SizeRemoveAt, UniqueRemoved
  <2>4. Unique(s) => \A i \in 1..Len(u) : u[i].key # key
    BY <1>0, <2>1, RemovedKey
  <2>5. s[n].size \in Nat /\ Size(s) \in Nat /\ Size(u) \in Nat
    BY <1>0, <2>1, <2>3, SizeToSum DEF Sized, Size
  <2> HIDE DEF u
  <2>6. b \in Nat /\ b <= c.bytes /\ (c.bytes = Size(s) => b = Size(u))
    BY <1>0, <2>3, <2>5 DEF SaturatingSub
  <2> HIDE DEF b
  <2>7. /\ Popped(c, key) \in Caches(E)
        /\ Popped(c, key).entries = u /\ Popped(c, key).bytes = b
    BY <2>2, <2>3, <2>6 DEF Caches
  <2>8. ASSUME WithinLimits(c) PROVE ~Holds(Popped(c, key), key)
    <3>1. Unique(s)
      BY <2>8, LimitsInParts DEF s
    <3> QED BY <2>4, <2>7, <3>1 DEF Holds
  <2>9. ASSUME WithinLimits(c) PROVE WithinLimits(Popped(c, key))
    <3>1. c.bytes = Size(s) /\ c.bytes <= MaxBytes /\ Len(s) <= MaxSlots /\ Unique(s)
      BY <2>9, LimitsInParts DEF s
    <3>2. b = Size(u) /\ b <= MaxBytes /\ Len(u) <= MaxSlots /\ Unique(u)
      BY <1>0, <2>3, <2>6, <3>1, CacheAssumption
    <3> QED BY <2>7, <3>2, LimitsInParts
  <2> QED BY <2>7, <2>8, <2>9
<1> QED BY <1>1, <1>2

\* Evicting drops as few entries from the old end as make the room asked for.
LEMMA EvictedIs ==
  ASSUME NEW E, NEW c \in Caches(E), NEW room
  PROVE  \E k \in 0..Len(c.entries) :
           /\ EvictedTo(c, room) = PoppedLru(c, k)
           /\ PoppedLru(c, k).bytes <= room \/ k = Len(c.entries)
           /\ \A m \in 0..(k - 1) : ~(PoppedLru(c, m).bytes <= room)
<1> DEFINE s == c.entries
           Enough(n) == PoppedLru(c, n).bytes <= room \/ n = Len(s)
           Least(n) == Enough(n) /\ \A m \in 0..(n - 1) : ~Enough(m)
           k == CHOOSE n \in 0..Len(s) : Least(n)
<1>0. Len(s) \in Nat
  BY DEF Caches
<1>1. \E n \in 0..Len(s) : Least(n)
  <2> DEFINE S == {n \in Nat : n <= Len(s) => \A m \in 0..n : ~Enough(m)}
  <2> SUFFICES ASSUME \A n \in 0..Len(s) : ~Least(n) PROVE FALSE
    OBVIOUS
  <2>0. Enough(Len(s))
    OBVIOUS
  <2> HIDE DEF Enough
  <2>1. 0 \in S
    <3>1. \A m \in 0..(0 - 1) : ~Enough(m)
      OBVIOUS
    <3>2. ~Least(0)
      BY <1>0
    <3>3. ~Enough(0)
      BY <3>1, <3>2
    <3>4. \A m \in 0..0 : m = 0
      OBVIOUS
    <3> QED BY <3>3, <3>4
  <2>2. ASSUME NEW n \in Nat, n \in S, n + 1 <= Len(s), NEW m \in 0..(n + 1)
        PROVE  ~Enough(m)
    <3>1. \A i \in 0..n : ~Enough(i)
      BY <1>0, <2>2
    <3>2. ~Least(n + 1)
      BY <1>0, <2>2
    <3>3. (n + 1) - 1 = n
      BY <2>2
    <3>4. ~Enough(n + 1)
      BY <3>1, <3>2, <3>3
    <3>5. m \in 0..n \/ m = n + 1
      BY <2>2
    <3> QED BY <3>1, <3>4, <3>5
  <2>3. \A n \in Nat : n \in S => n + 1 \in S
    BY <2>2
  <2>4. \A n \in Nat : n \in S
    <3> HIDE DEF S
    <3> QED BY <2>1, <2>3, SetInduction
  <2>5. Len(s) \in S /\ Len(s) \in 0..Len(s)
    BY <1>0, <2>4
  <2> QED BY <2>0, <2>5
<1>2. k \in 0..Len(s) /\ Least(k)
  <2> HIDE DEF Least
  <2> QED BY <1>1
<1>3. EvictedTo(c, room) = PoppedLru(c, k)
  BY DEF EvictedTo
<1> HIDE DEF k, s
<1> QED BY <1>2, <1>3 DEF s

\* Evicting makes the room asked for, and keeps no entry that was not held.
LEMMA EvictedKeeps ==
  ASSUME NEW E, Sized(E), NEW c \in Caches(E), NEW room \in Nat
  PROVE  /\ EvictedTo(c, room) \in Caches(E)
         /\ WithinLimits(c) => /\ WithinLimits(EvictedTo(c, room))
                               /\ EvictedTo(c, room).bytes <= room
         /\ \A key : Holds(EvictedTo(c, room), key) => Holds(c, key)
<1> DEFINE s == c.entries
<1>0. s \in Seq(E) /\ c.bytes \in Nat /\ Len(s) \in Nat
  BY DEF Caches
<1>2. PICK k \in 0..Len(s) : /\ EvictedTo(c, room) = PoppedLru(c, k)
                             /\ PoppedLru(c, k).bytes <= room \/ k = Len(s)
  BY EvictedIs
<1> DEFINE u == SubSeq(s, k + 1, Len(s))
           b == SaturatingSub(c.bytes, SizeTo(s, k))
<1>3. EvictedTo(c, room) = [entries |-> u, bytes |-> b]
  BY <1>2 DEF PoppedLru
<1>12. b <= room \/ k = Len(s)
  BY <1>2 DEF PoppedLru
<1> HIDE DEF s
<1>5. /\ u \in Seq(E) /\ Len(u) = Len(s) - k /\ Size(u) = Size(s) - SizeTo(s, k)
      /\ Unique(s) => Unique(u)
      /\ \A i \in 1..(Len(s) - k) : u[i] = s[k + i]
  BY <1>0, <1>2, DroppedIs, UniqueDropped
<1> HIDE DEF u
<1>6. SizeTo(s, k) \in Nat /\ Size(s) \in Nat /\ Size(u) \in Nat /\ SizeTo(s, Len(s)) = Size(s)
  BY <1>0, <1>2, <1>5, SizeToSum, SizeIsNat
<1>7. b \in Nat /\ b <= c.bytes /\ (c.bytes = Size(s) => b = Size(u))
  BY <1>0, <1>5, <1>6 DEF SaturatingSub
<1>8. c.bytes = Size(s) => b <= room
  BY <1>0, <1>2, <1>12, <1>6 DEF SaturatingSub
<1> HIDE DEF b
<1>9. /\ EvictedTo(c, room) \in Caches(E)
      /\ EvictedTo(c, room).entries = u /\ EvictedTo(c, room).bytes = b
  BY <1>3, <1>5, <1>7 DEF Caches
<1>10. ASSUME WithinLimits(c)
       PROVE  WithinLimits(EvictedTo(c, room)) /\ EvictedTo(c, room).bytes <= room
  <2>1. c.bytes = Size(s) /\ c.bytes <= MaxBytes /\ Len(s) <= MaxSlots /\ Unique(s)
    BY <1>10, LimitsInParts DEF s
  <2>2. b = Size(u) /\ b <= MaxBytes /\ Len(u) <= MaxSlots /\ Unique(u)
    BY <1>0, <1>2, <1>5, <1>7, <2>1, CacheAssumption
  <2> QED BY <1>8, <1>9, <2>1, <2>2, LimitsInParts
<1>11. ASSUME NEW key, Holds(EvictedTo(c, room), key) PROVE Holds(c, key)
  <2>1. PICK i \in 1..Len(u) : u[i].key = key
    BY <1>9, <1>11 DEF Holds
  <2>2. k + i \in 1..Len(s) /\ s[k + i].key = key
    BY <1>0, <1>2, <1>5, <2>1
  <2> QED BY <2>2 DEF Holds, s
<1> QED BY <1>9, <1>10, <1>11

\* A push of a new key into a cache with room for it.
LEMMA PushedKeeps ==
  ASSUME NEW E, Sized(E), NEW c \in Caches(E), NEW e \in E
  PROVE  /\ Pushed(c, e) \in Caches(E)
         /\ /\ WithinLimits(c) /\ Enabled /\ ~Holds(c, e.key)
            /\ c.bytes + e.size <= MaxBytes
            => WithinLimits(Pushed(c, e))
<1> DEFINE s == c.entries
           full == Len(s) = MaxEntries
           kept == IF full THEN Tail(s) ELSE s
           dropped == IF full THEN s[1].size ELSE 0
           t == Append(kept, e)
           b == SaturatingSub(c.bytes + e.size, dropped)
<1>0. /\ s \in Seq(E) /\ c.bytes \in Nat /\ Len(s) \in Nat /\ e.size \in Nat
      /\ MaxEntries \in Nat /\ MaxEntries > 0
  BY CacheAssumption DEF Caches, Sized, MaxEntries
<1>1. Pushed(c, e) = [entries |-> t, bytes |-> b]
  BY DEF Pushed
<1>2. kept = SubSeq(s, (IF full THEN 1 ELSE 0) + 1, Len(s))
  <2>1. CASE full
    BY <1>0, <2>1, TailIsSubSeq
  <2>2. CASE ~full
    BY <1>0, <2>2, SubSeqFull
  <2> QED BY <2>1, <2>2
<1> DEFINE n == IF full THEN 1 ELSE 0
<1>3. n \in 0..Len(s) /\ dropped \in Nat /\ dropped = SizeTo(s, n)
  <2>1. CASE full
    <3>1. 1 \in 1..Len(s) /\ 1 - 1 = 0
      BY <1>0, <2>1
    <3>2. SizeTo(s, 1) = SizeTo(s, 0) + s[1].size /\ SizeTo(s, 0) = 0 /\ s[1].size \in Nat
      BY <1>0, <3>1, SizeToSum DEF Sized
    <3> QED BY <2>1, <3>1, <3>2
  <2>2. CASE ~full
    BY <1>0, <2>2, SizeToSum
  <2> QED BY <2>1, <2>2
<1>4. full => n = 1
  OBVIOUS
<1>5. ~full => n = 0
  OBVIOUS
<1>6. kept = SubSeq(s, n + 1, Len(s))
  BY <1>2
<1> HIDE DEF kept, dropped, n, s
<1>7. /\ kept \in Seq(E) /\ Len(kept) = Len(s) - n /\ Size(kept) = Size(s) - dropped
      /\ \A i \in 1..(Len(s) - n) : kept[i] = s[n + i]
      /\ Unique(s) => Unique(kept)
  BY <1>0, <1>3, <1>6, DroppedIs, UniqueDropped
<1>8. /\ t \in Seq(E) /\ Len(t) = Len(kept) + 1 /\ Size(t) = Size(kept) + e.size
  BY <1>7, AppendProperties, SizeAppend
<1>9. Size(s) \in Nat /\ Size(kept) \in Nat
  BY <1>0, <1>7, SizeIsNat
<1> HIDE DEF t
<1>10. b \in Nat /\ b <= c.bytes + e.size /\ (c.bytes = Size(s) => b = Size(t))
  <2>1. b = IF c.bytes + e.size >= dropped THEN (c.bytes + e.size) - dropped ELSE 0
    BY DEF SaturatingSub
  <2>2. b \in Nat /\ b <= c.bytes + e.size
    BY <1>0, <1>3, <2>1
  <2>3. Size(t) = (Size(s) - dropped) + e.size /\ Size(s) - dropped \in Nat
    BY <1>7, <1>8, <1>9
  <2>4. Size(s) + e.size >= dropped /\ (Size(s) + e.size) - dropped = (Size(s) - dropped) + e.size
    BY <1>0, <1>3, <1>9, <2>3
  <2> QED BY <2>1, <2>2, <2>3, <2>4
<1> HIDE DEF b
<1>11. /\ Pushed(c, e) \in Caches(E)
       /\ Pushed(c, e).entries = t /\ Pushed(c, e).bytes = b
  BY <1>1, <1>8, <1>10 DEF Caches
<1>12. ASSUME WithinLimits(c), Enabled, ~Holds(c, e.key), c.bytes + e.size <= MaxBytes
       PROVE  WithinLimits(Pushed(c, e))
  <2>1. c.bytes = Size(s) /\ Len(s) <= MaxSlots /\ Unique(s)
    BY <1>12, LimitsInParts DEF s
  <2>2. MaxEntries = MaxSlots
    BY <1>12, CacheAssumption DEF MaxEntries, Enabled
  <2>3. Len(t) <= MaxSlots
    BY <1>0, <1>3, <1>4, <1>5, <1>7, <1>8, <2>1, <2>2, CacheAssumption
  <2>4. \A i \in 1..Len(kept) : kept[i].key # e.key
    <3> SUFFICES ASSUME NEW i \in 1..Len(kept) PROVE kept[i].key # e.key
      OBVIOUS
    <3>1. n + i \in 1..Len(s) /\ kept[i] = s[n + i]
      BY <1>0, <1>3, <1>7
    <3> QED BY <1>12, <3>1 DEF Holds, s
  <2>5. Unique(t)
    BY <1>7, <2>1, <2>4, UniqueAppended DEF t
  <2>6. b = Size(t) /\ b <= MaxBytes
    BY <1>0, <1>10, <1>12, <2>1, CacheAssumption
  <2> QED BY <1>11, <2>3, <2>5, <2>6, LimitsInParts
<1> QED BY <1>11, <1>12

(***************************************************************************)
(* BlockCache::insert: the cache holds no entry but those it held and the  *)
(* one inserted, and stays within its limits whatever the size.            *)
(***************************************************************************)
THEOREM InsertedKeeps ==
  ASSUME NEW E, Sized(E), NEW c \in Caches(E),
         NEW key, NEW value, NEW size \in Nat, Entry(key, value, size) \in E
  PROVE  /\ Inserted(c, key, value, size) \in Caches(E)
         /\ WithinLimits(c) => WithinLimits(Inserted(c, key, value, size))
<1> DEFINE popped == Popped(c, key)
           e == Entry(key, value, size)
           room == MaxBytes - size
           evicted == EvictedTo(popped, room)
<1>1. /\ popped \in Caches(E)
      /\ WithinLimits(c) => WithinLimits(popped) /\ ~Holds(popped, key)
  BY PoppedKeeps
<1>2. e \in E /\ e.key = key /\ e.size = size
  BY DEF Entry
<1>3. CASE ~Enabled \/ size > MaxBytes
  BY <1>1, <1>3 DEF Inserted
<1>4. CASE Enabled /\ ~(size > MaxBytes)
  <2>1. room \in Nat /\ room + size = MaxBytes
    BY <1>4, CacheAssumption
  <2>2. Inserted(c, key, value, size) = Pushed(evicted, e)
    BY <1>4 DEF Inserted
  <2> HIDE DEF popped, e, room
  <2>3. /\ evicted \in Caches(E)
        /\ WithinLimits(popped) => WithinLimits(evicted) /\ evicted.bytes <= room
        /\ Holds(evicted, key) => Holds(popped, key)
    BY <1>1, <2>1, EvictedKeeps
  <2> HIDE DEF evicted
  <2>4. evicted.bytes \in Nat
    BY <2>3 DEF Caches
  <2>5. evicted.bytes <= room => evicted.bytes + e.size <= MaxBytes
    BY <1>2, <2>1, <2>4
  <2>6. Pushed(evicted, e) \in Caches(E)
    BY <1>2, <2>3, PushedKeeps
  <2>7. WithinLimits(c) => WithinLimits(Pushed(evicted, e))
    BY <1>1, <1>2, <1>4, <2>3, <2>5, PushedKeeps
  <2> QED BY <2>2, <2>6, <2>7
<1> QED BY <1>3, <1>4

LEMMA EmptyKeeps ==
  ASSUME NEW E, Sized(E)
  PROVE  EmptyCache \in Caches(E) /\ WithinLimits(EmptyCache)
<1>1. <<>> \in Seq(E) /\ Len(<<>>) = 0
  OBVIOUS
<1>2. SizeTo(<<>>, 0) = 0
  BY <1>1, SizeToSum
<1>3. Size(<<>>) = 0
  BY <1>1, <1>2 DEF Size
<1>4. EmptyCache \in Caches(E) /\ EmptyCache.entries = <<>> /\ EmptyCache.bytes = 0
  BY <1>1 DEF EmptyCache, Caches
<1>5. Unique(<<>>)
  BY DEF Unique
<1> QED BY <1>1, <1>3, <1>4, <1>5, CacheAssumption, LimitsInParts

\* What get returns was inserted.
LEMMA HitsHeld ==
  ASSUME NEW E, NEW c \in Caches(E), NEW key, NEW hit \in Hits(c, key)
  PROVE  hit \in E /\ hit.key = key
<1>1. PICK n \in DOMAIN c.entries : hit = c.entries[n] /\ hit.key = key
  BY DEF Hits, Lookup
<1>2. c.entries \in Seq(E)
  BY DEF Caches
<1> QED BY <1>1, <1>2
----------------------------------------------------------------------------
\* A full cache drops its oldest entry for the one pushed.
LEMMA PushedIs ==
  ASSUME NEW E, NEW c \in Caches(E), NEW e
  PROVE  Pushed(c, e).entries =
           Append(SubSeq(c.entries, (IF Len(c.entries) = MaxEntries THEN 1 ELSE 0) + 1,
                         Len(c.entries)), e)
<1> DEFINE s == c.entries
           kept == IF Len(s) = MaxEntries THEN Tail(s) ELSE s
<1>0. s \in Seq(E) /\ Len(s) \in Nat /\ MaxEntries \in Nat /\ MaxEntries > 0
  BY CacheAssumption DEF Caches, MaxEntries
<1>1. Pushed(c, e).entries = Append(kept, e)
  BY DEF Pushed
<1>2. kept = SubSeq(s, (IF Len(s) = MaxEntries THEN 1 ELSE 0) + 1, Len(s))
  <2> HIDE DEF s
  <2>1. CASE Len(s) = MaxEntries
    BY <1>0, <2>1, TailIsSubSeq
  <2>2. CASE ~(Len(s) = MaxEntries)
    BY <1>0, <2>2, SubSeqFull
  <2> QED BY <2>1, <2>2
<1> QED BY <1>1, <1>2

\* Dropping k entries and then d is dropping k + d.
LEMMA DroppedTwice ==
  ASSUME NEW E, Sized(E), NEW s \in Seq(E), NEW k \in 0..Len(s), NEW d \in 0..(Len(s) - k),
         NEW u, u = SubSeq(s, k + 1, Len(s))
  PROVE  SubSeq(u, d + 1, Len(u)) = SubSeq(s, (k + d) + 1, Len(s))
<1>0. Len(s) \in Nat /\ k \in Nat /\ d \in Nat /\ k + d \in 0..Len(s)
  OBVIOUS
<1>1. /\ u \in Seq(E) /\ Len(u) = Len(s) - k /\ \A i \in 1..(Len(s) - k) : u[i] = s[k + i]
  BY DroppedIs
<1>2. d \in 0..Len(u)
  BY <1>0, <1>1
<1> DEFINE v == SubSeq(u, d + 1, Len(u))
           w == SubSeq(s, (k + d) + 1, Len(s))
<1>3. v \in Seq(E) /\ Len(v) = Len(u) - d /\ \A i \in 1..(Len(u) - d) : v[i] = u[d + i]
  BY <1>1, <1>2, DroppedIs
<1>4. w \in Seq(E) /\ Len(w) = Len(s) - (k + d) /\ \A i \in 1..(Len(s) - (k + d)) : w[i] = s[(k + d) + i]
  BY <1>0, DroppedIs
<1> HIDE DEF v, w
<1> DEFINE n == Len(s) - (k + d)
<1>5. Len(v) = n /\ Len(w) = n /\ n \in Nat
  BY <1>0, <1>1, <1>3, <1>4
<1>6. ASSUME NEW i \in 1..n PROVE v[i] = w[i]
  <2>1. i \in 1..(Len(u) - d) /\ d + i \in 1..(Len(s) - k) /\ k + (d + i) = (k + d) + i
    <3> DEFINE l == Len(s)
    <3>1. l \in Nat /\ Len(u) = l - k /\ i \in 1..(l - (k + d)) /\ d \in Nat /\ k \in Nat
      BY <1>0, <1>1
    <3> HIDE DEF l
    <3> QED BY ONLY <3>1 DEF l
  <2>2. v[i] = u[d + i] /\ u[d + i] = s[k + (d + i)]
    BY <1>1, <1>3, <2>1
  <2>3. w[i] = s[(k + d) + i]
    BY <1>4
  <2> QED BY <2>1, <2>2, <2>3
<1> HIDE DEF n
<1>7. v = w
  <2>1. v = [i \in 1..n |-> v[i]] /\ w = [i \in 1..n |-> w[i]]
    BY <1>3, <1>4, <1>5
  <2> QED BY <1>6, <2>1
<1> QED BY <1>7 DEF v, w

\* t is s after the d oldest entries left for e, and the last of them had to.
Evicted(s, d, e, t) ==
  /\ t = Append(SubSeq(s, d + 1, Len(s)), e)
  /\ d > 0 => Len(t) = MaxEntries \/ Size(s) - SizeTo(s, d - 1) > MaxBytes - e.size

Fits(s, size) == Size(s) <= MaxBytes - size /\ Len(s) < MaxEntries

(***************************************************************************)
(* What an insertion drops of the other entries: the oldest ones, none as  *)
(* long as there is room, and the last of them because there was not.      *)
(***************************************************************************)
LEMMA InsertedIs ==
  ASSUME NEW E, Sized(E), NEW c \in Caches(E), WithinLimits(c), Enabled,
         NEW key, NEW value, NEW size \in 0..MaxBytes, Entry(key, value, size) \in E,
         NEW q, q = Popped(c, key).entries, NEW new, new = Inserted(c, key, value, size).entries
  PROVE  \E d \in 0..Len(q) : /\ Evicted(q, d, Entry(key, value, size), new)
                              /\ Fits(q, size) => d = 0
<1> DEFINE p == Popped(c, key)
           e == Entry(key, value, size)
           room == MaxBytes - size
           evicted == EvictedTo(p, room)
           u == evicted.entries
<1>1. /\ p \in Caches(E) /\ WithinLimits(p)
      /\ q \in Seq(E) /\ Len(q) \in Nat /\ p.bytes = Size(q) /\ q = p.entries
  <2>1. p \in Caches(E) /\ WithinLimits(p)
    BY PoppedKeeps
  <2> HIDE DEF p
  <2> QED BY <2>1, LimitsInParts DEF Caches, p
<1>2. room \in Nat /\ size \in Nat /\ ~(size > MaxBytes)
  BY CacheAssumption
<1>3. Inserted(c, key, value, size) = Pushed(evicted, e)
  BY <1>2 DEF Inserted
<1>4. e \in E /\ e.size = size
  BY DEF Entry
<1> HIDE DEF p, e
<1>5. evicted \in Caches(E)
  BY <1>1, <1>2, EvictedKeeps
<1>6. PICK k \in 0..Len(q) :
        /\ evicted = PoppedLru(p, k)
        /\ \A m \in 0..(k - 1) : ~(PoppedLru(p, m).bytes <= room)
  BY <1>1, EvictedIs
<1>7. u = SubSeq(q, k + 1, Len(q))
  BY <1>1, <1>6 DEF PoppedLru
<1>8. u \in Seq(E) /\ Len(u) = Len(q) - k /\ Len(u) \in Nat
  <2> HIDE DEF u
  <2>1. u \in Seq(E) /\ Len(u) = Len(q) - k
    BY <1>1, <1>7, DroppedIs
  <2> QED BY <2>1
<1> HIDE DEF evicted
<1> DEFINE full == Len(u) = MaxEntries
           h == IF full THEN 1 ELSE 0
           d == k + h
<1>9. MaxEntries \in Nat /\ MaxEntries > 0 /\ h \in 0..Len(u) /\ h \in 0..(Len(q) - k)
  BY <1>8, CacheAssumption DEF MaxEntries
<1>10. new = Append(SubSeq(u, h + 1, Len(u)), e)
  BY <1>3, <1>5, PushedIs
<1> HIDE DEF u
<1>11. SubSeq(u, h + 1, Len(u)) = SubSeq(q, d + 1, Len(q))
  BY <1>1, <1>6, <1>7, <1>9, DroppedTwice
<1>12. d \in 0..Len(q) /\ new = Append(SubSeq(q, d + 1, Len(q)), e)
  <2> HIDE DEF h
  <2>1. d \in 0..Len(q)
    BY <1>1, <1>6, <1>9
  <2> QED BY <1>10, <1>11, <2>1
<1>13. \A m \in 0..Len(q) : PoppedLru(p, m).bytes = Size(q) - SizeTo(q, m) /\ SizeTo(q, m) \in Nat
  <2> SUFFICES ASSUME NEW m \in 0..Len(q)
               PROVE  PoppedLru(p, m).bytes = Size(q) - SizeTo(q, m) /\ SizeTo(q, m) \in Nat
    OBVIOUS
  <2> DEFINE w == SubSeq(q, m + 1, Len(q))
  <2>1. PoppedLru(p, m).bytes = SaturatingSub(Size(q), SizeTo(q, m))
    BY <1>1 DEF PoppedLru
  <2>2. w \in Seq(E) /\ Size(w) = Size(q) - SizeTo(q, m)
    BY <1>1, DroppedIs
  <2> HIDE DEF w
  <2>3. Size(w) \in Nat /\ Size(q) \in Nat /\ SizeTo(q, m) \in Nat
    BY <1>1, <2>2, SizeIsNat, SizeToSum
  <2> QED BY <2>1, <2>2, <2>3 DEF SaturatingSub
<1>14. Len(new) = Len(u) - h + 1
  <2>1. SubSeq(u, h + 1, Len(u)) \in Seq(E) /\ Len(SubSeq(u, h + 1, Len(u))) = Len(u) - h
    BY <1>8, <1>9, DroppedIs
  <2> HIDE DEF h
  <2> QED BY <1>4, <1>10, <2>1, AppendProperties
<1>15. ASSUME d > 0 PROVE Len(new) = MaxEntries \/ Size(q) - SizeTo(q, d - 1) > room
  <2>1. CASE full
    BY <1>8, <1>9, <1>14, <2>1
  <2>2. CASE ~full
    <3>1. d = k /\ k - 1 \in 0..(k - 1) /\ k - 1 \in 0..Len(q)
      BY <1>1, <1>6, <1>15, <2>2
    <3>2. ~(PoppedLru(p, k - 1).bytes <= room)
      BY <1>6, <3>1
    <3>3. PoppedLru(p, k - 1).bytes = Size(q) - SizeTo(q, k - 1) /\ SizeTo(q, k - 1) \in Nat
      BY <1>13, <3>1
    <3>4. Size(q) \in Nat
      BY <1>1, SizeIsNat
    <3> HIDE DEF room, d, h, full
    <3> QED BY <1>2, <3>1, <3>2, <3>3, <3>4
  <2> QED BY <2>1, <2>2
<1>16. ASSUME Size(q) <= room, Len(q) < MaxEntries PROVE d = 0
  <2>1. k = 0
    <3> SUFFICES ASSUME k # 0 PROVE FALSE
      BY <1>6
    <3>1. 0 \in 0..(k - 1) /\ 0 \in 0..Len(q)
      BY <1>1, <1>6
    <3>2. SizeTo(q, 0) = 0 /\ Size(q) \in Nat
      BY <1>1, SizeToSum, SizeIsNat
    <3>3. PoppedLru(p, 0).bytes = Size(q)
      BY <1>13, <3>1, <3>2
    <3> QED BY <1>6, <1>16, <3>1, <3>3
  <2>2. ~full
    BY <1>1, <1>8, <1>9, <1>16, <2>1
  <2> QED BY <2>1, <2>2
<1>17. Fits(q, size) => d = 0
  BY <1>16 DEF Fits
<1> HIDE DEF d
<1>18. Evicted(q, d, e, new)
  BY <1>4, <1>12, <1>15 DEF Evicted
<1> QED BY <1>12, <1>17, <1>18 DEF e
----------------------------------------------------------------------------
(***************************************************************************)
(* The order of the entries is the order of their last uses, which older   *)
(* relates; a list drawn from another in order keeps what they share.      *)
(***************************************************************************)
Ordered(s, older) ==
  \A m, n \in 1..Len(s) : <<s[m].key, s[n].key>> \in older <=> m < n

InOrder(t, p, s) == Drawn(t, p, s) /\ \A i, j \in 1..Len(t) : i < j <=> p[i] < p[j]

LEMMA RemovedInOrder ==
  ASSUME NEW E, NEW s \in Seq(E), NEW n \in 1..Len(s)
  PROVE  \E p : InOrder(RemoveAt(s, n), p, s)
<1> DEFINE t == RemoveAt(s, n)
           p == [i \in 1..Len(t) |-> IF i < n THEN i ELSE i + 1]
<1>1. /\ Len(s) \in Nat /\ t \in Seq(E) /\ Len(t) = Len(s) - 1
      /\ \A i \in 1..(n - 1) : t[i] = s[i]
      /\ \A i \in n..(Len(s) - 1) : t[i] = s[i + 1]
  <2>1. Len(s) \in Nat
    OBVIOUS
  <2> QED BY <2>1, RemoveAtIs
<1> HIDE DEF t
<1>2. p \in [1..Len(t) -> 1..Len(s)]
  BY <1>1
<1>3. \A i \in 1..Len(t) : t[i] = s[p[i]]
  BY <1>1
<1>4. \A i, j \in 1..Len(t) : (p[i] = p[j] => i = j) /\ (i < j <=> p[i] < p[j])
  BY <1>1
<1>5. InOrder(t, p, s)
  BY <1>2, <1>3, <1>4 DEF Drawn, InOrder
<1> HIDE DEF p
<1> QED BY <1>5 DEF t

LEMMA DroppedInOrder ==
  ASSUME NEW E, Sized(E), NEW s \in Seq(E), NEW n \in 0..Len(s)
  PROVE  \E p : InOrder(SubSeq(s, n + 1, Len(s)), p, s)
<1> DEFINE t == SubSeq(s, n + 1, Len(s))
           p == [i \in 1..Len(t) |-> n + i]
<1>1. /\ Len(s) \in Nat /\ t \in Seq(E) /\ Len(t) = Len(s) - n
      /\ \A i \in 1..(Len(s) - n) : t[i] = s[n + i]
  BY DroppedIs
<1> HIDE DEF t
<1>2. p \in [1..Len(t) -> 1..Len(s)]
  BY <1>1
<1>3. \A i \in 1..Len(t) : t[i] = s[p[i]]
  BY <1>1
<1>4. \A i, j \in 1..Len(t) : (p[i] = p[j] => i = j) /\ (i < j <=> p[i] < p[j])
  BY <1>1
<1>5. InOrder(t, p, s)
  BY <1>2, <1>3, <1>4 DEF Drawn, InOrder
<1> HIDE DEF p
<1> QED BY <1>5 DEF t

\* An entry appended to a list drawn in order is used last.
LEMMA AppendOrders ==
  ASSUME NEW E, NEW s \in Seq(E), NEW older, Ordered(s, older),
         NEW u \in Seq(E), NEW p, InOrder(u, p, s), NEW e \in E, NEW t, t = Append(u, e),
         NEW others, NEW latest, \A i \in 1..Len(u) : u[i].key \in others \ latest,
         e.key \in latest \ others
  PROVE  Ordered(t, (older \cap (others \X others)) \cup (others \X latest))
<1> DEFINE last == Len(u) + 1
           new == (older \cap (others \X others)) \cup (others \X latest)
<1>1. /\ Len(u) \in Nat /\ Len(t) = last /\ t[last] = e /\ \A i \in 1..Len(u) : t[i] = u[i]
  BY AppendProperties
<1>2. \A i \in 1..Len(u) : t[i].key \in others /\ t[i].key \notin latest
  BY <1>1
<1>3. e.key \notin others /\ e.key \in latest
  OBVIOUS
<1>4. \A i \in 1..Len(t) : i \in 1..Len(u) \/ i = last
  BY <1>1
<1>5. ASSUME NEW m \in 1..Len(u), NEW n \in 1..Len(u)
      PROVE  <<t[m].key, t[n].key>> \in new <=> m < n
  <2>1. <<t[m].key, t[n].key>> \in new <=> <<t[m].key, t[n].key>> \in older
    BY <1>2
  <2>2. p[m] \in 1..Len(s) /\ p[n] \in 1..Len(s) /\ t[m] = s[p[m]] /\ t[n] = s[p[n]]
    BY <1>1 DEF InOrder, Drawn
  <2>3. <<t[m].key, t[n].key>> \in older <=> p[m] < p[n]
    BY <2>2 DEF Ordered
  <2> QED BY <2>1, <2>3 DEF InOrder
<1>6. ASSUME NEW m \in 1..Len(u) PROVE <<t[m].key, t[last].key>> \in new /\ m < last
  <2>1. <<t[m].key, t[last].key>> \in others \X latest
    BY <1>1, <1>2, <1>3
  <2>2. m < last
    BY <1>1
  <2> QED BY <2>1, <2>2
<1>7. ASSUME NEW n \in 1..Len(t) PROVE ~(<<t[last].key, t[n].key>> \in new) /\ ~(last < n)
  BY <1>1, <1>3
<1> HIDE DEF new, last
<1>8. Ordered(t, new)
  BY <1>4, <1>5, <1>6, <1>7 DEF Ordered
<1> QED BY <1>8 DEF new
----------------------------------------------------------------------------
(***************************************************************************)
(* The three ends of an insertion, when an entry's key tells its size: a   *)
(* new key is refused, a key that was held is replaced and nothing else    *)
(* goes, or a new key goes in and just enough of the oldest entries go.    *)
(***************************************************************************)
TurnedAway(s, t) == t = s
Replaced(s, n, e, t) == t = Append(RemoveAt(s, n), e)

LEMMA InsertedEnds ==
  ASSUME NEW E, Sized(E), NEW c \in Caches(E), WithinLimits(c),
         NEW key, NEW value, NEW size \in Nat \ {0}, Entry(key, value, size) \in E,
         \A e \in E : e.key = key => e.size = size,
         NEW new, new = Inserted(c, key, value, size).entries
  PROVE  \/ Lookup(c, key) = {} /\ TurnedAway(c.entries, new)
         \/ \E n \in Lookup(c, key) : Replaced(c.entries, n, Entry(key, value, size), new)
         \/ /\ Lookup(c, key) = {}
            /\ \E d \in 0..Len(c.entries) : Evicted(c.entries, d, Entry(key, value, size), new)
<1> DEFINE s == c.entries
           e == Entry(key, value, size)
           q == Popped(c, key).entries
<1>0. /\ s \in Seq(E) /\ Len(s) \in Nat /\ c.bytes = Size(s) /\ c.bytes <= MaxBytes
      /\ Len(s) <= MaxSlots /\ Unique(s) /\ Size(s) \in Nat
  <2>1. s \in Seq(E) /\ Len(s) \in Nat
    BY DEF Caches
  <2> HIDE DEF s
  <2>2. Size(s) \in Nat
    BY <2>1, SizeIsNat
  <2> QED BY <2>1, <2>2, LimitsInParts DEF s
<1>1. e.size = size /\ e.key = key
  BY DEF Entry
<1>5. ASSUME Enabled, size \in 0..MaxBytes
      PROVE  \E d \in 0..Len(q) : Evicted(q, d, e, new) /\ (Fits(q, size) => d = 0)
  <2> HIDE DEF s, q
  <2>1. q = Popped(c, key).entries
    BY DEF q
  <2> QED BY <1>5, <2>1, InsertedIs
<1>2. CASE Lookup(c, key) = {} /\ (~Enabled \/ size > MaxBytes)
  BY <1>2 DEF Inserted, Popped, TurnedAway
<1>3. CASE Lookup(c, key) = {} /\ ~(~Enabled \/ size > MaxBytes)
  <2>1. q = s
    BY <1>3 DEF Popped
  <2>2. size \in 0..MaxBytes /\ Enabled
    BY <1>3, CacheAssumption
  <2>4. \E d \in 0..Len(s) : Evicted(s, d, e, new)
    <3> HIDE DEF q, s, e
    <3> QED BY <1>5, <2>1, <2>2
  <2> QED BY <1>3, <2>4
<1>4. CASE Lookup(c, key) # {}
  <2> DEFINE n == CHOOSE n \in Lookup(c, key) : TRUE
  <2>1. n \in 1..Len(s) /\ s[n].key = key /\ n \in Lookup(c, key)
    BY <1>4, LookupFinds
  <2>2. q = RemoveAt(s, n)
    BY <1>4 DEF Popped, Without
  <2> HIDE DEF n, s, q
  <2>3. q \in Seq(E) /\ Len(q) = Len(s) - 1 /\ Size(q) = Size(s) - s[n].size
    BY <1>0, <2>1, <2>2, RemoveAtIs, SizeRemoveAt
  <2>4. s[n].size = size
    BY <1>0, <2>1
  <2>5. Size(q) \in Nat /\ Len(q) \in Nat
    BY <2>3, SizeIsNat
  <2>6. size <= MaxBytes /\ Size(q) <= MaxBytes - size /\ MaxBytes > 0
    BY <1>0, <2>3, <2>4, <2>5, CacheAssumption
  <2>7. MaxSlots > 0 /\ MaxEntries = MaxSlots /\ Len(q) < MaxEntries
    BY <1>0, <2>1, <2>3, <2>5, CacheAssumption DEF MaxEntries
  <2>8. Enabled /\ size \in 0..MaxBytes
    BY <2>6, <2>7, CacheAssumption DEF Enabled
  <2>10. PICK d \in 0..Len(q) : Evicted(q, d, e, new) /\ (Fits(q, size) => d = 0)
    <3> HIDE DEF e
    <3> QED BY <1>5, <2>8
  <2>11. d = 0 /\ SubSeq(q, 1, Len(q)) = q
    BY <2>3, <2>5, <2>6, <2>7, <2>10, SubSeqFull DEF Fits
  <2>12. new = Append(q, e)
    <3> HIDE DEF e
    <3> QED BY <2>10, <2>11 DEF Evicted
  <2>13. Replaced(s, n, e, new)
    BY <2>2, <2>12 DEF Replaced
  <2> QED BY <2>1, <2>13 DEF s
<1> QED BY <1>2, <1>3, <1>4
=============================================================================
