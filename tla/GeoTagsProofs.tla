---------------------------- MODULE GeoTagsProofs ----------------------------
(***************************************************************************)
(* GeoTags for every setting: whatever metadata the setters are given, in     *)
(* whatever order and however often, for every image size and overview level. *)
(*                                                                         *)
(* The proof goes from the inside out.  A directory that serialize accepts is *)
(* parsed back key by key (RoundTrip), because every value lies in its        *)
(* parameters where its entry says (FlatPlaces).  A system as a whole and an  *)
(* EPSG code are read back from the keys that say them (CrsReads, EpsgReads), *)
(* a transform from the tags of the builder that was given it (ModelReads),   *)
(* and an overview's from those of the builder made for it (OverviewGiven).   *)
(* Last, GeoInv: the builder is what its calls made of it, in that the latest *)
(* call of each kind is what it keeps, and the tags are those of the builder. *)
(*                                                                         *)
(* Of the constants only the assumptions of the modules below are used.       *)
(***************************************************************************)
EXTENDS GeoTags, SharedLemmas

----------------------------------------------------------------------------
(***************************************************************************)
(* Sequences laid end to end: each of them lies in the result behind those *)
(* before it.                                                              *)
(***************************************************************************)
FlatStep(ss, f, i) == IF i = 1 THEN ss[i] ELSE f[i - 1] \o ss[i]
IsFlat(ss, n, f) == f = [i \in 1..n |-> f[i]] /\ \A i \in 1..n : f[i] = FlatStep(ss, f, i)

LEMMA FlatExists ==
  ASSUME NEW V, NEW ss \in Seq(Seq(V)), NEW n \in 0..Len(ss)
  PROVE  \E f \in [1..n -> Seq(V)] : IsFlat(ss, n, f)
<1> DEFINE N == Len(ss)
           S == {k \in Nat : k <= N => \E f \in [1..k -> Seq(V)] : IsFlat(ss, k, f)}
<1>0. N \in Nat /\ \A i \in 1..N : ss[i] \in Seq(V)
  OBVIOUS
<1> HIDE DEF N
<1>1. 0 \in S
  <2>1. <<>> \in [1..0 -> Seq(V)] /\ <<>> = [i \in 1..0 |-> <<>>[i]] /\ 1..0 = {}
    OBVIOUS
  <2>2. IsFlat(ss, 0, <<>>)
    BY <2>1 DEF IsFlat
  <2> QED BY <2>1, <2>2
<1>2. ASSUME NEW k \in Nat, k \in S PROVE k + 1 \in S
  <2> SUFFICES ASSUME k + 1 <= N PROVE \E f \in [1..(k + 1) -> Seq(V)] : IsFlat(ss, k + 1, f)
    OBVIOUS
  <2>1. PICK f \in [1..k -> Seq(V)] : IsFlat(ss, k, f)
    BY <1>0, <1>2
  <2>2. ss[k + 1] \in Seq(V)
    BY <1>0
  <2> DEFINE last == IF k = 0 THEN ss[1] ELSE f[k] \o ss[k + 1]
             g == [i \in 1..(k + 1) |-> IF i = k + 1 THEN last ELSE f[i]]
  <2>3. last \in Seq(V)
    <3>1. CASE k = 0
      BY <2>2, <3>1
    <3>2. CASE k # 0
      <4>1. f[k] \in Seq(V)
        BY <3>2
      <4> QED BY <2>2, <3>2, <4>1
    <3> QED BY <3>1, <3>2
  <2>4. g \in [1..(k + 1) -> Seq(V)]
    <3> HIDE DEF last
    <3> QED BY <2>3
  <2>5. \A i \in 1..(k + 1) : g[i] = FlatStep(ss, g, i)
    <3> SUFFICES ASSUME NEW i \in 1..(k + 1) PROVE g[i] = FlatStep(ss, g, i)
      OBVIOUS
    <3>1. CASE i = k + 1
      <4>1. k # 0 => g[k] = f[k]
        OBVIOUS
      <4>2. g[i] = last
        BY <3>1
      <4> HIDE DEF g
      <4> QED BY <3>1, <4>1, <4>2 DEF FlatStep
    <3>2. CASE i # k + 1
      <4>0. i \in 1..k
        BY <3>2
      <4>1. i \in 1..k /\ f[i] = FlatStep(ss, f, i)
        BY <2>1, <4>0 DEF IsFlat
      <4>2. i # 1 => i - 1 \in 1..k /\ g[i - 1] = f[i - 1]
        BY <4>1
      <4>3. g[i] = f[i]
        BY <3>2
      <4> HIDE DEF g
      <4> QED BY <4>1, <4>2, <4>3 DEF FlatStep
    <3> QED BY <3>1, <3>2
  <2>6. IsFlat(ss, k + 1, g)
    <3>1. g = [i \in 1..(k + 1) |-> g[i]]
      OBVIOUS
    <3> HIDE DEF g
    <3> QED BY <2>5, <3>1 DEF IsFlat
  <2> HIDE DEF g
  <2> QED BY <2>4, <2>6
<1>3. n \in Nat /\ n \in S
  <2> HIDE DEF S
  <2>1. \A k \in Nat : k \in S
    BY <1>1, <1>2, SetInduction
  <2> QED BY <1>0, <2>1
<1> QED BY <1>0, <1>3 DEF N

LEMMA FlatIsUnique ==
  ASSUME NEW ss, NEW m \in Nat, NEW n \in Nat, NEW f, NEW g,
         IsFlat(ss, m, f), IsFlat(ss, n, g), m <= n
  PROVE  \A i \in 1..m : f[i] = g[i]
<1> DEFINE S == {k \in Nat : k \in 1..m => f[k] = g[k]}
<1>1. 0 \in S
  OBVIOUS
<1>2. ASSUME NEW k \in Nat, k \in S PROVE k + 1 \in S
  <2> SUFFICES ASSUME k + 1 \in 1..m PROVE f[k + 1] = g[k + 1]
    OBVIOUS
  <2>0. k + 1 \in 1..m /\ k + 1 \in 1..n
    OBVIOUS
  <2>1. f[k + 1] = FlatStep(ss, f, k + 1) /\ g[k + 1] = FlatStep(ss, g, k + 1)
    BY <2>0 DEF IsFlat
  <2>3. k # 0 => f[k] = g[k]
    BY <1>2
  <2>4. FlatStep(ss, f, k + 1) = FlatStep(ss, g, k + 1)
    <3>1. k + 1 = 1 <=> k = 0
      OBVIOUS
    <3>2. k + 1 - 1 = k
      OBVIOUS
    <3> QED BY <2>3, <3>1, <3>2 DEF FlatStep
  <2> QED BY <2>1, <2>4
<1>3. \A k \in Nat : k \in S
  <2> HIDE DEF S
  <2> QED BY <1>1, <1>2, SetInduction
<1> QED BY <1>3

\* The first n of the sequences, laid end to end.
FlatTo(ss, n) == FlattenSeq(SubSeq(ss, 1, n))

LEMMA FlatToIs ==
  ASSUME NEW V, NEW ss \in Seq(Seq(V))
  PROVE  /\ FlatTo(ss, 0) = <<>>
         /\ \A n \in 1..Len(ss) : FlatTo(ss, n) = FlatTo(ss, n - 1) \o ss[n]
         /\ \A n \in 0..Len(ss) : FlatTo(ss, n) \in Seq(V)
         /\ FlatTo(ss, Len(ss)) = FlattenSeq(ss)
<1> DEFINE N == Len(ss)
<1>0. N \in Nat /\ \A i \in 1..N : ss[i] \in Seq(V)
  OBVIOUS
<1>1. PICK f : f \in [1..N -> Seq(V)] /\ IsFlat(ss, N, f)
  BY <1>0, FlatExists
<1>2. ASSUME NEW n \in 1..N PROVE FlatTo(ss, n) = f[n]
  <2> DEFINE p == SubSeq(ss, 1, n)
             R(h) == h = [i \in 1..Len(p) |-> IF i = 1 THEN p[i] ELSE h[i - 1] \o p[i]]
  <2>1. Len(p) = n /\ Len(p) # 0 /\ \A i \in 1..n : p[i] = ss[i]
    BY <1>0
  <2>2. \A h : R(h) <=> IsFlat(ss, n, h)
    <3> SUFFICES ASSUME NEW h PROVE R(h) <=> IsFlat(ss, n, h)
      OBVIOUS
    <3>1. R(h) <=> h = [i \in 1..n |-> FlatStep(ss, h, i)]
      BY <2>1 DEF FlatStep
    <3> HIDE DEF R
    <3> QED BY <3>1 DEF IsFlat
  <2>3. FlatTo(ss, n) = (CHOOSE h : R(h))[n]
    <3>1. FlatTo(ss, n) = (CHOOSE h : R(h))[Len(p)]
      BY <2>1 DEF FlatTo, FlattenSeq
    <3> QED BY <2>1, <3>1
  <2>4. \E h : R(h)
    <3>1. n \in 0..Len(ss)
      BY <1>0
    <3> HIDE DEF R, p
    <3> QED BY <2>2, <3>1, FlatExists
  <2>5. R(CHOOSE h : R(h))
    <3> HIDE DEF R
    <3> QED BY <2>4
  <2>6. IsFlat(ss, n, CHOOSE h : R(h))
    <3> HIDE DEF R, p
    <3> QED BY <2>2, <2>5
  <2>7. \E g : IsFlat(ss, n, g) /\ FlatTo(ss, n) = g[n]
    <3> HIDE DEF R, p
    <3> QED BY <2>3, <2>6
  <2>8. PICK g : IsFlat(ss, n, g) /\ FlatTo(ss, n) = g[n]
    BY <2>7
  <2>9. n \in Nat /\ n <= N /\ n \in 1..n
    BY <1>0
  <2> HIDE DEF R, p, N
  <2>10. \A i \in 1..n : g[i] = f[i]
    <3>1. N \in Nat
      BY <1>0
    <3>2. n <= N /\ n \in Nat
      BY <2>9
    <3>3. IsFlat(ss, N, f)
      BY <1>1
    <3>4. IsFlat(ss, n, g)
      BY <2>8
    <3> QED BY ONLY <3>1, <3>2, <3>3, <3>4, FlatIsUnique
  <2> QED BY <2>8, <2>9, <2>10
<1>3. FlatTo(ss, 0) = <<>>
  <2>1. SubSeq(ss, 1, 0) = <<>>
    BY <1>0
  <2> QED BY <2>1 DEF FlatTo, FlattenSeq
<1>4. \A n \in 1..N : FlatTo(ss, n) = FlatTo(ss, n - 1) \o ss[n]
  <2> SUFFICES ASSUME NEW n \in 1..N PROVE FlatTo(ss, n) = FlatTo(ss, n - 1) \o ss[n]
    OBVIOUS
  <2>1. f[n] = IF n = 1 THEN ss[n] ELSE f[n - 1] \o ss[n]
    BY <1>1 DEF IsFlat, FlatStep
  <2>2. CASE n = 1
    <3>1. FlatTo(ss, n) = ss[n] /\ FlatTo(ss, n - 1) = <<>> /\ ss[n] \in Seq(V)
      BY <1>0, <1>2, <1>3, <2>1, <2>2
    <3> QED BY <3>1, ConcatEmptySeq
  <2>3. CASE n # 1
    <3>1. n - 1 \in 1..N
      BY <1>0, <2>3
    <3>2. FlatTo(ss, n - 1) = f[n - 1] /\ FlatTo(ss, n) = f[n]
      BY <1>2, <3>1
    <3> QED BY <2>1, <2>3, <3>2
  <2> QED BY <2>2, <2>3
<1>5. \A n \in 0..N : FlatTo(ss, n) \in Seq(V)
  <2>1. \A n \in 0..N : n = 0 \/ n \in 1..N
    BY <1>0
  <2>2. <<>> \in Seq(V)
    OBVIOUS
  <2> QED BY <1>1, <1>2, <1>3, <2>1, <2>2
<1>6. FlatTo(ss, N) = FlattenSeq(ss)
  <2>1. SubSeq(ss, 1, N) = ss
    BY <1>0
  <2> QED BY <2>1 DEF FlatTo
<1> QED BY <1>3, <1>4, <1>5, <1>6

LEMMA FlatPlaces ==
  ASSUME NEW V, NEW ss \in Seq(Seq(V)), NEW n \in 1..Len(ss)
  PROVE  /\ FlattenSeq(ss) \in Seq(V)
         /\ Len(FlatTo(ss, n - 1)) \in Nat
         /\ Len(FlatTo(ss, n - 1)) + Len(ss[n]) <= Len(FlattenSeq(ss))
         /\ \A k \in 1..Len(ss[n]) : FlattenSeq(ss)[Len(FlatTo(ss, n - 1)) + k] = ss[n][k]
<1> DEFINE N == Len(ss)
           start == Len(FlatTo(ss, n - 1))
           e == ss[n]
           LiesIn(t) == start + Len(e) <= Len(t) /\ \A k \in 1..Len(e) : t[start + k] = e[k]
           S == {m \in Nat : n + m <= N => LiesIn(FlatTo(ss, n + m))}
<1>0. N \in Nat /\ n \in Nat /\ n - 1 \in 0..N /\ e \in Seq(V) /\ Len(e) \in Nat
  OBVIOUS
<1>1. /\ \A i \in 1..N : FlatTo(ss, i) = FlatTo(ss, i - 1) \o ss[i]
      /\ \A i \in 0..N : FlatTo(ss, i) \in Seq(V)
      /\ FlatTo(ss, N) = FlattenSeq(ss)
  BY FlatToIs
<1>2. start \in Nat
  BY <1>0, <1>1
<1>3. 0 \in S
  <2>1. FlatTo(ss, n) = FlatTo(ss, n - 1) \o e /\ FlatTo(ss, n - 1) \in Seq(V)
    BY <1>0, <1>1
  <2> DEFINE u == FlatTo(ss, n - 1)
  <2> HIDE DEF u, e
  <2>2. LiesIn(u \o e)
    <3>1. u \in Seq(V) /\ Len(u) = start
      BY <2>1 DEF u
    <3> HIDE DEF start
    <3> QED BY <1>0, <3>1
  <2>3. LiesIn(FlatTo(ss, n))
    BY <2>1, <2>2 DEF u
  <2> QED BY <1>0, <2>3
<1>4. ASSUME NEW m \in Nat, m \in S PROVE m + 1 \in S
  <2> HIDE DEF LiesIn
  <2> SUFFICES ASSUME n + (m + 1) <= N PROVE LiesIn(FlatTo(ss, n + (m + 1)))
    OBVIOUS
  <2> DEFINE u == FlatTo(ss, n + m)
             v == ss[n + (m + 1)]
  <2>1. /\ n + m \in 0..N /\ n + m <= N /\ n + (m + 1) \in 1..N
        /\ n + (m + 1) - 1 = n + m
    BY <1>0
  <2>2. u \in Seq(V) /\ v \in Seq(V) /\ FlatTo(ss, n + (m + 1)) = u \o v
    <3>1. u \in Seq(V) /\ v \in Seq(V)
      BY <1>0, <1>1, <2>1
    <3> DEFINE i == n + (m + 1)
    <3>2. FlatTo(ss, i) = FlatTo(ss, i - 1) \o ss[i]
      <4>1. i \in 1..N
        BY <2>1
      <4> HIDE DEF i
      <4> QED BY <1>1, <4>1
    <3>3. i - 1 = n + m
      BY <2>1
    <3> QED BY <3>1, <3>2, <3>3
  <2>3. LiesIn(u)
    BY <1>4, <2>1
  <2> HIDE DEF u, v, e, start
  <2>4. LiesIn(u \o v)
    <3>1. /\ Len(u \o v) = Len(u) + Len(v) /\ Len(u) \in Nat /\ Len(v) \in Nat
          /\ \A i \in 1..Len(u) : (u \o v)[i] = u[i]
      BY <2>2
    <3>2. start + Len(e) <= Len(u) /\ \A k \in 1..Len(e) : u[start + k] = e[k]
      BY <2>3 DEF LiesIn
    <3>3. \A k \in 1..Len(e) : start + k \in 1..Len(u)
      BY <1>0, <1>2, <3>1, <3>2
    <3> DEFINE w == u \o v
    <3> HIDE DEF w
    <3>4. LiesIn(w)
      BY <1>0, <1>2, <3>1, <3>2, <3>3 DEF LiesIn, w
    <3> QED BY <3>4 DEF w
  <2> QED BY <2>2, <2>4
<1>5. LiesIn(FlatTo(ss, N))
  <2> HIDE DEF S, LiesIn
  <2>1. \A m \in Nat : m \in S
    BY <1>3, <1>4, SetInduction
  <2>2. N - n \in Nat /\ n + (N - n) = N /\ n + (N - n) <= N
    BY <1>0
  <2>3. N - n \in S
    BY <2>1, <2>2
  <2> QED BY <2>2, <2>3 DEF S
<1>6. FlattenSeq(ss) \in Seq(V)
  BY <1>0, <1>1
<1> HIDE DEF start, e
<1>7. LiesIn(FlattenSeq(ss))
  BY <1>1, <1>5
<1> QED BY <1>2, <1>6, <1>7 DEF start, e

----------------------------------------------------------------------------
(***************************************************************************)
(* The directory of the keys, written and read.                            *)
(***************************************************************************)
IsKeys(keys) ==
  /\ keys = [id \in DOMAIN keys |-> keys[id]]
  /\ DOMAIN keys \subseteq Nat /\ IsFiniteSet(DOMAIN keys)
  /\ \A id \in DOMAIN keys : keys[id] \in KeyValue

LEMMA ValueShape ==
  ASSUME NEW v \in KeyValue
  PROVE  /\ v.type \in {"short", "double", "ascii"} /\ v.of \in Seq(Doubles)
         /\ v.type = "short" => v = Short(v.of[1]) /\ v.of[1] \in Nat
         /\ v.type = "double" => v = Double(v.of)
         /\ v.type = "ascii" => v = Ascii(v.of) /\ v.of \in Seq(Nat)
<1>1. v.type \in {"short", "double", "ascii"} /\ v.of \in Seq(Doubles)
      /\ v = [type |-> v.type, of |-> v.of]
  BY DEF KeyValue
<1>2. v.type = "short" => v.of = <<v.of[1]>> /\ v.of[1] \in Nat
  <2>1. v.type = "short" => Len(v.of) = 1 /\ v.of[1] \in Nat
    BY DEF KeyValue
  <2> QED BY <1>1, <2>1
<1>3. v.type = "ascii" => v.of \in Seq(Nat)
  BY DEF KeyValue, Text
<1> QED BY <1>1, <1>2, <1>3 DEF Short, Double, Ascii

LEMMA SortedIs ==
  ASSUME NEW keys, IsKeys(keys)
  PROVE  LET ids == Sorted(keys) IN
         /\ ids \in Seq(DOMAIN keys) /\ Len(ids) \in Nat
         /\ DOMAIN ids = 1..Len(ids)
         /\ \A i \in 1..Len(ids) : ids[i] \in DOMAIN keys
         /\ \A i, j \in 1..Len(ids) : ids[i] = ids[j] => i = j
         /\ \A id \in DOMAIN keys : \E i \in 1..Len(ids) : ids[i] = id
<1> DEFINE D == DOMAIN keys
           N == Cardinality(D)
           At(id) == Cardinality({other \in D : other <= id})
           ids == Sorted(keys)
<1>1. /\ N \in Nat
      /\ \A id \in D : At(id) \in 1..N
      /\ \A a, b \in D : At(a) = At(b) => a = b
      /\ \A k \in 1..N : \E id \in D : At(id) = k
  <2>1. IsFiniteSet(D) /\ D \subseteq Nat
    BY DEF IsKeys
  <2> HIDE DEF D
  <2>2. /\ Cardinality(D) \in Nat
        /\ \A x \in D : Cardinality({y \in D : y <= x}) \in 1..Cardinality(D)
        /\ \A a, b \in D :
             Cardinality({y \in D : y <= a}) = Cardinality({y \in D : y <= b}) => a = b
        /\ \A k \in 1..Cardinality(D) : \E x \in D : Cardinality({y \in D : y <= x}) = k
    BY ONLY <2>1, Ranks
  <2> QED BY <2>2
<1>2. ids = [i \in 1..N |-> CHOOSE id \in D : At(id) = i]
  BY DEF Sorted, Rank
<1> HIDE DEF D, N, At, ids
<1>3. \A i \in 1..N : ids[i] \in D /\ At(ids[i]) = i
  BY <1>1, <1>2
<1>4. ids \in Seq(D) /\ Len(ids) = N /\ DOMAIN ids = 1..N
  <2>1. ids \in [1..N -> D]
    BY <1>2, <1>3
  <2> QED BY <1>1, <2>1
<1>5. \A id \in D : \E i \in 1..N : ids[i] = id
  <2> SUFFICES ASSUME NEW id \in D PROVE \E i \in 1..N : ids[i] = id
    OBVIOUS
  <2>1. At(id) \in 1..N
    BY <1>1
  <2>2. ids[At(id)] = id
    BY <1>1, <1>3, <2>1
  <2> QED BY <2>1, <2>2
<1>6. \A i, j \in 1..N : ids[i] = ids[j] => i = j
  BY <1>3
<1> QED BY <1>1, <1>3, <1>4, <1>5, <1>6 DEF D, ids

\* Sequences of one length lie at its multiples.
LEMMA FlatEven ==
  ASSUME NEW V, NEW ss \in Seq(Seq(V)), \A i \in 1..Len(ss) : Len(ss[i]) = 4
  PROVE  \A n \in 0..Len(ss) : Len(FlatTo(ss, n)) = 4 * n
<1> DEFINE S == {n \in Nat : n <= Len(ss) => Len(FlatTo(ss, n)) = 4 * n}
<1>0. Len(ss) \in Nat /\ \A i \in 1..Len(ss) : ss[i] \in Seq(V)
  OBVIOUS
<1>1. 0 \in S
  <2>1. FlatTo(ss, 0) = <<>> /\ Len(<<>>) = 0
    BY FlatToIs
  <2> QED BY <2>1
<1>2. ASSUME NEW n \in Nat, n \in S PROVE n + 1 \in S
  <2> SUFFICES ASSUME n + 1 <= Len(ss) PROVE Len(FlatTo(ss, n + 1)) = 4 * (n + 1)
    OBVIOUS
  <2>1. n + 1 \in 1..Len(ss) /\ n \in 0..Len(ss) /\ (n + 1) - 1 = n
    BY <1>0
  <2>2. FlatTo(ss, n) \in Seq(V) /\ Len(FlatTo(ss, n)) = 4 * n
    <3>1. n <= Len(ss)
      BY <1>0, <2>1
    <3>2. Len(FlatTo(ss, n)) = 4 * n
      BY <1>2, <3>1
    <3>3. FlatTo(ss, n) \in Seq(V)
      BY <2>1, FlatToIs
    <3> QED BY <3>2, <3>3
  <2>3. FlatTo(ss, n + 1) = FlatTo(ss, n) \o ss[n + 1]
    <3> DEFINE m == n + 1
    <3>1. m \in 1..Len(ss) /\ m - 1 = n
      BY <2>1
    <3> HIDE DEF m
    <3>2. FlatTo(ss, m) = FlatTo(ss, m - 1) \o ss[m]
      BY <3>1, FlatToIs
    <3> QED BY <3>1, <3>2 DEF m
  <2>4. ss[n + 1] \in Seq(V) /\ Len(ss[n + 1]) = 4
    BY <1>0, <2>1
  <2>5. Len(FlatTo(ss, n) \o ss[n + 1]) = Len(FlatTo(ss, n)) + Len(ss[n + 1])
    <3> DEFINE u == FlatTo(ss, n)
               v == ss[n + 1]
    <3>1. u \in Seq(V) /\ v \in Seq(V)
      BY <2>2, <2>4
    <3> HIDE DEF u, v
    <3>2. Len(u \o v) = Len(u) + Len(v)
      BY <3>1
    <3> QED BY <3>2 DEF u, v
  <2> QED BY <2>2, <2>3, <2>4, <2>5
<1>3. \A n \in Nat : n \in S
  <2> HIDE DEF S
  <2> QED BY <1>1, <1>2, SetInduction
<1> QED BY <1>0, <1>3

\* What each key adds to the parameters of a type, and where they begin.
Pieces(keys, ids, type) ==
  [i \in DOMAIN ids |-> IF keys[ids[i]].type = type THEN Stored(keys[ids[i]]) ELSE <<>>]

LEMMA PiecesAre ==
  ASSUME NEW keys, IsKeys(keys), NEW type, NEW V,
         \A id \in DOMAIN keys : keys[id].type = type => Stored(keys[id]) \in Seq(V)
  PROVE  LET ids == Sorted(keys)
             ps == Pieces(keys, ids, type)
         IN /\ ps \in Seq(Seq(V)) /\ Len(ps) = Len(ids)
            /\ Params(keys, ids, type) = FlattenSeq(ps)
            /\ \A i \in 1..Len(ids) : keys[ids[i]].type = type =>
                 /\ ps[i] = Stored(keys[ids[i]])
                 /\ StartOf(keys, ids, i) = Len(FlatTo(ps, i - 1))
<1> DEFINE ids == Sorted(keys)
           N == Len(ids)
           ps == Pieces(keys, ids, type)
<1>1. /\ ids \in Seq(DOMAIN keys) /\ N \in Nat /\ DOMAIN ids = 1..N
      /\ \A i \in 1..N : ids[i] \in DOMAIN keys
  BY SortedIs
<1> HIDE DEF ids, N
<1>2. ps \in Seq(Seq(V)) /\ Len(ps) = N /\ \A i \in 1..N :
        ps[i] = IF keys[ids[i]].type = type THEN Stored(keys[ids[i]]) ELSE <<>>
  <2>1. \A i \in 1..N :
          (IF keys[ids[i]].type = type THEN Stored(keys[ids[i]]) ELSE <<>>) \in Seq(V)
    <3>1. <<>> \in Seq(V)
      OBVIOUS
    <3> QED BY <1>1, <3>1
  <2> DEFINE f(i) == IF keys[ids[i]].type = type THEN Stored(keys[ids[i]]) ELSE <<>>
  <2>2. ps = [i \in 1..N |-> f(i)]
    BY <1>1 DEF Pieces
  <2>3. \A i \in 1..N : f(i) \in Seq(V)
    BY <2>1
  <2> HIDE DEF f, ps
  <2>4. ps \in [1..N -> Seq(V)]
    BY <2>2, <2>3
  <2>5. ps \in Seq(Seq(V)) /\ Len(ps) = N
    BY <1>1, <2>4
  <2>6. \A i \in 1..N : ps[i] = f(i)
    BY <2>2
  <2> QED BY <2>5, <2>6 DEF f
<1>3. Params(keys, ids, type) = FlattenSeq(ps)
  BY DEF Params, Pieces
<1>4. ASSUME NEW i \in 1..N, keys[ids[i]].type = type
      PROVE  StartOf(keys, ids, i) = Len(FlatTo(ps, i - 1))
  <2> DEFINE sub == SubSeq(ids, 1, i - 1)
  <2>1. /\ i - 1 \in Nat /\ i - 1 <= N /\ DOMAIN sub = 1..(i - 1)
        /\ \A j \in 1..(i - 1) : sub[j] = ids[j] /\ j \in 1..N
    <3>1. i \in Nat /\ 1 <= i /\ i <= N
      BY <1>1
    <3> QED BY <1>1, <3>1 DEF N
  <2>2. SubSeq(ps, 1, i - 1) = [j \in 1..(i - 1) |-> ps[j]]
    <3> HIDE DEF ps
    <3> QED BY <1>2, <2>1
  <2>3. [j \in DOMAIN sub |-> IF keys[sub[j]].type = type THEN Stored(keys[sub[j]]) ELSE <<>>]
          = [j \in 1..(i - 1) |-> ps[j]]
    <3> HIDE DEF ps, sub
    <3> QED BY <1>2, <2>1
  <2>4. Params(keys, sub, type) = FlattenSeq(SubSeq(ps, 1, i - 1))
    <3> HIDE DEF ps, sub
    <3> QED BY <2>2, <2>3 DEF Params
  <2> QED BY <1>4, <2>4 DEF StartOf, FlatTo
<1>5. Len(ps) = Len(ids)
  BY <1>2 DEF N
<1> HIDE DEF ps
<1>6. \A i \in 1..N : keys[ids[i]].type = type => ps[i] = Stored(keys[ids[i]])
  BY <1>2
<1> QED BY <1>2, <1>3, <1>4, <1>5, <1>6 DEF ids, N, ps

LEMMA MaxIs ==
  ASSUME NEW S, S \subseteq Int, NEW m \in S, \A x \in S : x <= m
  PROVE  Max(S) = m
<1>1. \A y \in S : m >= y
  OBVIOUS
<1>2. \A z \in S : (\A y \in S : z >= y) => z = m
  <2> SUFFICES ASSUME NEW z \in S, \A y \in S : z >= y PROVE z = m
    OBVIOUS
  <2>1. z >= m /\ z <= m /\ z \in Int /\ m \in Int
    OBVIOUS
  <2> QED BY <2>1
<1> QED BY <1>1, <1>2 DEF Max

LEMMA MinIs ==
  ASSUME NEW S, S \subseteq Int, NEW m \in S, \A x \in S : m <= x
  PROVE  Min(S) = m
<1>1. \A z \in S : (\A y \in S : z <= y) => z = m
  <2> SUFFICES ASSUME NEW z \in S, \A y \in S : z <= y PROVE z = m
    OBVIOUS
  <2>1. z >= m /\ z <= m /\ z \in Int /\ m \in Int
    OBVIOUS
  <2> QED BY <2>1
<1> QED BY <1>1 DEF Min

LEMMA TextLosesPipe ==
  ASSUME NEW V, NEW text \in Seq(V), Pipe \in V, \A i \in 1..Len(text) : text[i] # Pipe
  PROVE  TrimmedEnd(Append(text, Pipe), Pipe) = text
<1> DEFINE n == Len(text)
           t == Append(text, Pipe)
<1>1. /\ n \in Nat /\ t \in Seq(V) /\ Len(t) = n + 1 /\ DOMAIN t = 1..(n + 1)
      /\ t[n + 1] = Pipe /\ \A i \in 1..n : t[i] = text[i]
  OBVIOUS
<1> HIDE DEF t
<1>2. {0} \cup {i \in DOMAIN t : t[i] # Pipe} = 0..n
  <2>1. \A i \in 1..(n + 1) : t[i] # Pipe <=> i # n + 1
    BY <1>1
  <2> QED BY <1>1, <2>1
<1>3. Max(0..n) = n
  <2>1. 0..n \subseteq Int /\ n \in 0..n /\ \A x \in 0..n : x <= n
    BY <1>1
  <2> QED BY <2>1, MaxIs
<1>4. SubSeq(t, 1, n) = text
  <2>1. SubSeq(t, 1, n) \in Seq(V) /\ Len(SubSeq(t, 1, n)) = n
        /\ \A i \in 1..n : SubSeq(t, 1, n)[i] = t[i]
    BY <1>1
  <2> QED BY <1>1, <2>1, SeqEqual
<1> QED BY <1>2, <1>3, <1>4 DEF TrimmedEnd, t

LEMMA FoundAgain ==
  ASSUME NEW V, NEW t \in Seq(V), NEW e \in Seq(V), NEW s \in Nat,
         s + Len(e) <= Len(t), \A k \in 1..Len(e) : t[s + k] = e[k]
  PROVE  SubSeq(t, s + 1, s + Len(e)) = e
<1> DEFINE u == SubSeq(t, s + 1, s + Len(e))
<1>0. Len(e) \in Nat /\ Len(t) \in Nat
  OBVIOUS
<1>1. u \in Seq(V) /\ Len(u) = Len(e) /\ \A k \in 1..Len(e) : u[k] = t[s + k]
  BY <1>0
<1> QED BY <1>1, SeqEqual

LEMMA EntryReads ==
  ASSUME NEW keys, IsKeys(keys), NEW ids, ids = Sorted(keys),
         \A n \in DOMAIN ids : ValueFits(keys, ids, n),
         NEW i \in 1..Len(ids)
  PROVE  LET v == keys[ids[i]]
             e == EntryOf(keys, ids, i)
         IN /\ e \in Seq(Nat) /\ Len(e) = 4 /\ e[1] = ids[i]
            /\ ParsedValue(e[2], e[3], e[4], Params(keys, ids, "double"),
                           Params(keys, ids, "ascii"))
                 = IF v = Double(<<>>) THEN None ELSE Some(AsRead(v))
<1> DEFINE v == keys[ids[i]]
           e == EntryOf(keys, ids, i)
           doubles == Params(keys, ids, "double")
           text == Params(keys, ids, "ascii")
           R == 0..127
<1>1. /\ ids \in Seq(DOMAIN keys) /\ DOMAIN ids = 1..Len(ids) /\ Len(ids) \in Nat
      /\ \A id \in DOMAIN keys : \E j \in 1..Len(ids) : ids[j] = id
      /\ ids[i] \in DOMAIN keys /\ ids[i] \in Nat /\ v \in KeyValue
  <2>1. /\ ids \in Seq(DOMAIN keys) /\ DOMAIN ids = 1..Len(ids) /\ Len(ids) \in Nat
        /\ \A id \in DOMAIN keys : \E j \in 1..Len(ids) : ids[j] = id
        /\ \A j \in 1..Len(ids) : ids[j] \in DOMAIN keys
    BY SortedIs
  <2>2. ids[i] \in DOMAIN keys
    BY <2>1
  <2> QED BY <2>1, <2>2 DEF IsKeys
<1>2. /\ \A id \in DOMAIN keys : keys[id].type = "ascii" =>
           Stored(keys[id]) \in Seq(R) /\ keys[id].of \in Seq(R)
           /\ \A k \in 1..Len(keys[id].of) : keys[id].of[k] # Pipe
      /\ \A id \in DOMAIN keys : keys[id].type = "double" => Stored(keys[id]) \in Seq(Doubles)
  <2> SUFFICES ASSUME NEW id \in DOMAIN keys
               PROVE  /\ keys[id].type = "ascii" =>
                           Stored(keys[id]) \in Seq(R) /\ keys[id].of \in Seq(R)
                           /\ \A k \in 1..Len(keys[id].of) : keys[id].of[k] # Pipe
                      /\ keys[id].type = "double" => Stored(keys[id]) \in Seq(Doubles)
    OBVIOUS
  <2>1. PICK j \in 1..Len(ids) : ids[j] = id
    BY <1>1
  <2>2. keys[id] \in KeyValue
    BY DEF IsKeys
  <2>3. keys[id].of \in Seq(Doubles) /\ (keys[id].type = "ascii" => keys[id].of \in Seq(Nat))
    BY <2>2, ValueShape
  <2>4. ASSUME keys[id].type = "ascii"
        PROVE  /\ keys[id].of \in Seq(R) /\ Stored(keys[id]) \in Seq(R)
               /\ \A k \in 1..Len(keys[id].of) : keys[id].of[k] # Pipe
    <3> DEFINE t == keys[id].of
    <3>1. t \in Seq(Nat)
      BY <2>3, <2>4
    <3>2. IsAscii(t) /\ \A c \in Range(t) : c # Pipe
      BY <1>1, <2>1, <2>4 DEF ValueFits
    <3> HIDE DEF t
    <3>3. DOMAIN t = 1..Len(t) /\ Len(t) \in Nat /\ \A k \in 1..Len(t) : t[k] \in Nat
      BY <3>1
    <3>4. \A k \in 1..Len(t) : t[k] # Pipe
      BY <3>2, <3>3 DEF Range
    <3>5. t \in Seq(R)
      <4>1. \A k \in 1..Len(t) : t[k] < 128
        BY <3>2, <3>3 DEF IsAscii
      <4>2. \A k \in 1..Len(t) : t[k] \in R
        <5>1. \A x \in Nat : x < 128 => x \in R
          OBVIOUS
        <5> HIDE DEF R
        <5> QED BY <3>3, <4>1, <5>1
      <4>3. t = [k \in 1..Len(t) |-> t[k]]
        BY <3>1
      <4> DEFINE m == Len(t)
      <4> HIDE DEF m, R
      <4>4. t \in [1..m -> R] /\ m \in Nat
        BY <3>3, <4>2, <4>3 DEF m
      <4> QED BY <4>4
    <3>6. Append(t, Pipe) \in Seq(R)
      <4>1. Pipe \in R
        BY DEF Pipe
      <4> HIDE DEF R
      <4> QED BY <3>5, <4>1
    <3> QED BY <2>4, <3>4, <3>5, <3>6 DEF t, Stored
  <2>5. keys[id].type = "double" => Stored(keys[id]) \in Seq(Doubles)
    BY <2>3 DEF Stored
  <2> QED BY <2>4, <2>5
<1> HIDE DEF R
<1>3. CASE v.type = "short"
  <2>1. v = Short(v.of[1]) /\ v.of[1] \in Nat
    BY <1>1, <1>3, ValueShape
  <2>2. e = <<ids[i], Inline, 1, v.of[1]>>
    BY <1>3 DEF EntryOf
  <2>3. e \in Seq(Nat) /\ Len(e) = 4 /\ e[1] = ids[i] /\ e[2] = Inline /\ e[3] = 1
        /\ e[4] = v.of[1]
    <3>1. Inline \in Nat /\ 1 \in Nat
      BY DEF Inline
    <3> DEFINE x == v.of[1]
               y == ids[i]
    <3>2. x \in Nat /\ y \in Nat
      BY <1>1, <2>1
    <3> HIDE DEF e, x, y
    <3>3. e = <<y, Inline, 1, x>>
      BY <2>2 DEF x, y
    <3> QED BY <3>1, <3>2, <3>3 DEF x, y
  <2>4. ParsedValue(e[2], e[3], e[4], doubles, text) = Some(Short(v.of[1]))
    <3> HIDE DEF e, doubles, text
    <3> QED BY <2>3 DEF ParsedValue
  <2>5. v # Double(<<>>) /\ AsRead(v) = v
    <3>1. Double(<<>>).type = "double"
      BY DEF Double
    <3> QED BY <1>3, <3>1 DEF AsRead
  <2> HIDE DEF v, e, doubles, text
  <2> QED BY <2>1, <2>3, <2>4, <2>5 DEF v, e, doubles, text
<1>4. ASSUME NEW type, NEW V, v.type = type, type \in {"double", "ascii"},
             \A id \in DOMAIN keys : keys[id].type = type => Stored(keys[id]) \in Seq(V)
      PROVE  LET p == Params(keys, ids, type)
                 s == StartOf(keys, ids, i)
             IN /\ e = <<ids[i], IF type = "double" THEN GeoDoubleParams ELSE GeoAsciiParams,
                         Len(Stored(v)), s>>
                /\ s \in Nat /\ Stored(v) \in Seq(V) /\ p \in Seq(V)
                /\ s + Len(Stored(v)) <= Len(p)
                /\ \A k \in 1..Len(Stored(v)) : p[s + k] = Stored(v)[k]
  <2> DEFINE ps == Pieces(keys, ids, type)
  <2>1. /\ ps \in Seq(Seq(V)) /\ Len(ps) = Len(ids)
        /\ Params(keys, ids, type) = FlattenSeq(ps)
        /\ ps[i] = Stored(v) /\ StartOf(keys, ids, i) = Len(FlatTo(ps, i - 1))
    BY <1>4, PiecesAre
  <2>2. Stored(v) \in Seq(V)
    BY <1>1, <1>4
  <2>3. e = <<ids[i], IF type = "double" THEN GeoDoubleParams ELSE GeoAsciiParams,
              Len(Stored(v)), StartOf(keys, ids, i)>>
    BY <1>4 DEF EntryOf
  <2>5. i \in 1..Len(ps)
    BY <2>1
  <2> HIDE DEF ps, v, e
  <2>4. /\ FlattenSeq(ps) \in Seq(V)
        /\ Len(FlatTo(ps, i - 1)) \in Nat
        /\ Len(FlatTo(ps, i - 1)) + Len(ps[i]) <= Len(FlattenSeq(ps))
        /\ \A k \in 1..Len(ps[i]) : FlattenSeq(ps)[Len(FlatTo(ps, i - 1)) + k] = ps[i][k]
    BY ONLY <2>1, <2>5, FlatPlaces
  <2> QED BY <2>1, <2>2, <2>3, <2>4
<1>5. CASE v.type = "double"
  <2> DEFINE s == StartOf(keys, ids, i)
             w == Stored(v)
  <2>1. v = Double(v.of) /\ v.of \in Seq(Doubles) /\ w = v.of
    BY <1>1, <1>5, ValueShape DEF Stored
  <2>2. /\ e = <<ids[i], GeoDoubleParams, Len(w), s>>
        /\ s \in Nat /\ w \in Seq(Doubles) /\ doubles \in Seq(Doubles)
        /\ s + Len(w) <= Len(doubles)
        /\ \A k \in 1..Len(w) : doubles[s + k] = w[k]
    <3>1. \A id \in DOMAIN keys : keys[id].type = "double" => Stored(keys[id]) \in Seq(Doubles)
      BY <1>2
    <3> HIDE DEF e, v
    <3> QED BY <1>4, <1>5, <3>1
  <2>3. SubSeq(doubles, s + 1, s + Len(w)) = w
    <3> HIDE DEF doubles, s, w
    <3> QED BY <2>2, FoundAgain
  <2>4. e \in Seq(Nat) /\ Len(e) = 4 /\ e[1] = ids[i] /\ e[2] = GeoDoubleParams
        /\ e[3] = Len(w) /\ e[4] = s
    <3>1. Len(w) \in Nat /\ GeoDoubleParams \in Nat /\ ids[i] \in Nat
      BY <1>1, <2>2 DEF GeoDoubleParams
    <3> DEFINE y == ids[i]
               l == Len(w)
    <3>2. y \in Nat /\ l \in Nat /\ e = <<y, GeoDoubleParams, l, s>>
      BY <2>2, <3>1
    <3> HIDE DEF y, l, e, w, s
    <3> QED BY <2>2, <3>1, <3>2 DEF y, l
  <2>5. ParsedValue(e[2], e[3], e[4], doubles, text)
          = IF Len(w) = 0 THEN None ELSE Some(Double(w))
    <3>1. Len(w) \in Nat
      BY <2>2
    <3> DEFINE l == Len(w)
               found == SubSeq(doubles, s + 1, s + l)
    <3>2. /\ ParsedValue(GeoDoubleParams, l, s, doubles, text)
               = IF l > 0 /\ s + l <= Len(doubles) THEN Some(Double(found)) ELSE None
          /\ l > 0 <=> l # 0
      <4>1. GeoDoubleParams # Inline /\ GeoDoubleParams # GeoAsciiParams
        BY DEF Inline, GeoDoubleParams, GeoAsciiParams
      <4>2. l > 0 <=> l # 0
        BY <3>1
      <4> HIDE DEF l, found, doubles, text, s
      <4> QED BY <4>1, <4>2 DEF ParsedValue, found
    <3>3. s + l <= Len(doubles) /\ found = w
      BY <2>2, <2>3
    <3> HIDE DEF e, doubles, text, w, s, found
    <3> QED BY <2>4, <3>2, <3>3
  <2>6. v = Double(<<>>) <=> Len(w) = 0
    <3>1. Double(<<>>).of = <<>>
      BY DEF Double
    <3>2. v = Double(<<>>) => Len(w) = 0
      BY <2>1, <3>1
    <3>3. Len(w) = 0 => w = <<>>
      <4> HIDE DEF w
      <4> QED BY <2>2, EmptySeq
    <3> QED BY <2>1, <3>2, <3>3
  <2>7. AsRead(v) = v
    BY <1>5 DEF AsRead
  <2> HIDE DEF v, e, doubles, text, w
  <2> QED BY <2>1, <2>4, <2>5, <2>6, <2>7 DEF v, e, doubles, text
<1>6. CASE v.type = "ascii"
  <2> DEFINE s == StartOf(keys, ids, i)
             w == Stored(v)
  <2>1. v = Ascii(v.of) /\ v.of \in Seq(R) /\ w = Append(v.of, Pipe)
        /\ \A k \in 1..Len(v.of) : v.of[k] # Pipe
    BY <1>1, <1>2, <1>6, ValueShape DEF Stored
  <2>2. /\ e = <<ids[i], GeoAsciiParams, Len(w), s>>
        /\ s \in Nat /\ w \in Seq(R) /\ text \in Seq(R)
        /\ s + Len(w) <= Len(text)
        /\ \A k \in 1..Len(w) : text[s + k] = w[k]
    <3>1. \A id \in DOMAIN keys : keys[id].type = "ascii" => Stored(keys[id]) \in Seq(R)
      BY <1>2
    <3> HIDE DEF e, v
    <3> QED BY <1>4, <1>6, <3>1
  <2>3. SubSeq(text, s + 1, s + Len(w)) = w
    <3> HIDE DEF text, s, w
    <3> QED BY <2>2, FoundAgain
  <2>4. Len(w) \in Nat /\ Len(w) > 0 /\ w[Len(w)] = Pipe
    <3> DEFINE u == v.of
    <3> HIDE DEF u
    <3>1. u \in Seq(R) /\ w = Append(u, Pipe)
      BY <2>1 DEF u
    <3> HIDE DEF w
    <3> QED BY <3>1
  <2>5. e \in Seq(Nat) /\ Len(e) = 4 /\ e[1] = ids[i] /\ e[2] = GeoAsciiParams
        /\ e[3] = Len(w) /\ e[4] = s
    <3>1. Len(w) \in Nat /\ GeoAsciiParams \in Nat /\ ids[i] \in Nat
      BY <1>1, <2>4 DEF GeoAsciiParams
    <3> DEFINE y == ids[i]
               l == Len(w)
    <3>2. y \in Nat /\ l \in Nat /\ e = <<y, GeoAsciiParams, l, s>>
      BY <2>2, <3>1
    <3> HIDE DEF y, l, e, w, s
    <3> QED BY <2>2, <3>1, <3>2 DEF y, l
  <2>6. text[s + Len(w)] = Pipe
    BY <2>2, <2>4
  <2>7. TrimmedEnd(w, Pipe) = v.of
    <3> DEFINE u == v.of
    <3>1. u \in Seq(R) /\ w = Append(u, Pipe) /\ \A k \in 1..Len(u) : u[k] # Pipe
      BY <2>1
    <3>2. Pipe \in R
      BY DEF R, Pipe
    <3> HIDE DEF u, w
    <3>3. TrimmedEnd(Append(u, Pipe), Pipe) = u
      BY <3>1, <3>2, TextLosesPipe
    <3> QED BY <3>1, <3>3 DEF u
  <2>8. ParsedValue(e[2], e[3], e[4], doubles, text) = Some(Ascii(TrimmedEnd(v.of, Nul)))
    <3> DEFINE l == Len(w)
               found == SubSeq(text, s + 1, s + l)
    <3>1. /\ l > 0 /\ s + l <= Len(text) /\ text[s + l] = Pipe
          /\ TrimmedEnd(found, Pipe) = v.of
      BY <2>2, <2>3, <2>4, <2>6, <2>7
    <3>2. ParsedValue(GeoAsciiParams, l, s, doubles, text)
            = Some(Ascii(TrimmedEnd(TrimmedEnd(found, Pipe), Nul)))
      <4>1. GeoAsciiParams # Inline /\ GeoAsciiParams # GeoDoubleParams
        BY DEF Inline, GeoDoubleParams, GeoAsciiParams
      <4> HIDE DEF l, found, doubles, text, s, v
      <4> QED BY <3>1, <4>1 DEF ParsedValue, found
    <3> HIDE DEF e, doubles, text, w, s, v, found
    <3> QED BY <2>5, <3>1, <3>2
  <2>9. v # Double(<<>>) /\ AsRead(v) = Ascii(TrimmedEnd(v.of, Nul))
    <3>1. Double(<<>>).type = "double"
      BY DEF Double
    <3> QED BY <1>6, <3>1 DEF AsRead
  <2> HIDE DEF v, e, doubles, text, w
  <2> QED BY <2>5, <2>8, <2>9 DEF v, e, doubles, text
<1> QED BY <1>1, <1>3, <1>5, <1>6, ValueShape

\* Does the directory hold a key set to no doubles at all?
HoldsNothing(keys) == \E id \in DOMAIN keys : keys[id] = Double(<<>>)

(***************************************************************************)
(* What parse finds in the tags serialize made: every key as AsRead says,  *)
(* or nothing where a key holds no doubles.                                *)
(***************************************************************************)
THEOREM RoundTrip ==
  ASSUME NEW directory, IsKeys(directory.keys), Serialize(directory) # None
  PROVE  LET keys == directory.keys
             read == Parse(Serialize(directory)[1])
         IN /\ HoldsNothing(keys) => read = None
            /\ ~HoldsNothing(keys) =>
                 read # None /\ read[1].keys = [id \in DOMAIN keys |-> AsRead(keys[id])]
<1> DEFINE keys == directory.keys
           ids == Sorted(keys)
           N == Len(ids)
           minor == IF RequiresGeoTiff11(keys) THEN 1 ELSE directory.minor
           es == [i \in DOMAIN ids |-> EntryOf(keys, ids, i)]
           d == <<1, 1, minor, N>> \o FlattenSeq(es)
           doubles == Params(keys, ids, "double")
           text == Params(keys, ids, "ascii")
           t == [directory |-> d, doubles |-> doubles, text |-> text]
           Id(i) == d[4 * i + 1]
           Value(i) == ParsedValue(d[4 * i + 2], d[4 * i + 3], d[4 * i + 4], doubles, text)
<1>1. /\ directory.minor \in {0, 1}
      /\ \A i \in DOMAIN ids : ValueFits(keys, ids, i)
      /\ Serialize(directory) = Some(t)
  BY DEF Serialize, None, Some
<1>2. Serialize(directory)[1] = t /\ minor \in {0, 1}
  BY <1>1 DEF Some
<1>3. /\ ids \in Seq(DOMAIN keys) /\ N \in Nat /\ DOMAIN ids = 1..N
      /\ \A i \in 1..N : ids[i] \in DOMAIN keys
      /\ \A i, j \in 1..N : ids[i] = ids[j] => i = j
      /\ \A id \in DOMAIN keys : \E i \in 1..N : ids[i] = id
  BY SortedIs
<1>4. \A i \in 1..N : /\ es[i] \in Seq(Nat) /\ Len(es[i]) = 4 /\ es[i][1] = ids[i]
                      /\ ParsedValue(es[i][2], es[i][3], es[i][4], doubles, text)
                           = IF keys[ids[i]] = Double(<<>>) THEN None
                             ELSE Some(AsRead(keys[ids[i]]))
  <2> SUFFICES ASSUME NEW i \in 1..N
               PROVE  /\ es[i] \in Seq(Nat) /\ Len(es[i]) = 4 /\ es[i][1] = ids[i]
                      /\ ParsedValue(es[i][2], es[i][3], es[i][4], doubles, text)
                           = IF keys[ids[i]] = Double(<<>>) THEN None
                             ELSE Some(AsRead(keys[ids[i]]))
    OBVIOUS
  <2>1. es[i] = EntryOf(keys, ids, i)
    BY <1>3
  <2>3. /\ IsKeys(keys) /\ ids = Sorted(keys) /\ i \in 1..Len(ids)
        /\ doubles = Params(keys, ids, "double") /\ text = Params(keys, ids, "ascii")
    OBVIOUS
  <2> HIDE DEF keys, ids, N, minor, es, d, doubles, text, t
  <2>2. /\ EntryOf(keys, ids, i) \in Seq(Nat) /\ Len(EntryOf(keys, ids, i)) = 4
        /\ EntryOf(keys, ids, i)[1] = ids[i]
        /\ ParsedValue(EntryOf(keys, ids, i)[2], EntryOf(keys, ids, i)[3],
                       EntryOf(keys, ids, i)[4], doubles, text)
                           = IF keys[ids[i]] = Double(<<>>) THEN None
                             ELSE Some(AsRead(keys[ids[i]]))
    BY <1>1, <2>3, EntryReads
  <2> QED BY <2>1, <2>2
<1>5. es \in Seq(Seq(Nat)) /\ Len(es) = N
  <2>1. es = [i \in 1..N |-> es[i]]
    BY <1>3
  <2> HIDE DEF es, N
  <2>2. es \in [1..N -> Seq(Nat)]
    BY <1>4, <2>1
  <2>3. N \in Nat
    BY <1>3
  <2> QED BY <2>2, <2>3
<1> HIDE DEF es
<1>20. N \in Nat
  BY <1>3
<1>6. /\ FlattenSeq(es) \in Seq(Nat) /\ Len(FlattenSeq(es)) = 4 * N
      /\ \A i \in 1..N, k \in 1..4 : FlattenSeq(es)[4 * (i - 1) + k] = es[i][k]
  <2> HIDE DEF N
  <2>1. \A n \in 0..N : Len(FlatTo(es, n)) = 4 * n
    BY <1>4, <1>5, FlatEven
  <2>2. FlattenSeq(es) \in Seq(Nat) /\ Len(FlattenSeq(es)) = 4 * N
    <3>1. N \in 0..N
      BY <1>20
    <3>2. FlatTo(es, N) = FlattenSeq(es) /\ FlatTo(es, N) \in Seq(Nat)
      BY <1>5, <3>1, FlatToIs
    <3> QED BY <2>1, <3>1, <3>2
  <2>3. ASSUME NEW i \in 1..N, NEW k \in 1..4
        PROVE  FlattenSeq(es)[4 * (i - 1) + k] = es[i][k]
    <3>1. i - 1 \in 0..N /\ i \in 1..Len(es) /\ Len(es[i]) = 4
      BY <1>20, <1>4, <1>5
    <3>2. Len(FlatTo(es, i - 1)) = 4 * (i - 1)
      BY <2>1, <3>1
    <3>3. \A m \in 1..Len(es[i]) : FlattenSeq(es)[Len(FlatTo(es, i - 1)) + m] = es[i][m]
      BY ONLY <1>5, <3>1, FlatPlaces
    <3> QED BY <3>1, <3>2, <3>3
  <2> QED BY <2>2, <2>3
<1>7. /\ Len(d) = 4 + 4 * N /\ d[1] = 1 /\ d[2] = 1 /\ d[3] = minor /\ d[4] = N
      /\ \A i \in 1..N, k \in 1..4 : d[4 * i + k] = es[i][k]
  <2> DEFINE head == <<1, 1, minor, N>>
             tail == FlattenSeq(es)
  <2>1. head \in Seq(Nat) /\ Len(head) = 4 /\ head[1] = 1 /\ head[2] = 1 /\ head[3] = minor
        /\ head[4] = N
    <3> HIDE DEF minor, N
    <3> QED BY <1>2, <1>3
  <2>2. tail \in Seq(Nat) /\ Len(tail) = 4 * N
    BY <1>6
  <2> HIDE DEF head, tail
  <2>3. /\ Len(head \o tail) = 4 + 4 * N
        /\ \A j \in 1..4 : (head \o tail)[j] = head[j]
        /\ \A j \in 1..(4 * N) : (head \o tail)[4 + j] = tail[j]
    <3> HIDE DEF N
    <3>1. /\ Len(head \o tail) = Len(head) + Len(tail)
          /\ \A j \in 1..Len(head) : (head \o tail)[j] = head[j]
          /\ \A j \in 1..Len(tail) : (head \o tail)[Len(head) + j] = tail[j]
      <4>1. head \in Seq(Nat) /\ tail \in Seq(Nat)
        BY <2>1, <2>2
      <4> QED BY ONLY <4>1
    <3> QED BY <1>20, <2>1, <2>2, <3>1
  <2>4. \A i \in 1..N, k \in 1..4 : d[4 * i + k] = es[i][k]
    <3> SUFFICES ASSUME NEW i \in 1..N, NEW k \in 1..4 PROVE d[4 * i + k] = es[i][k]
      OBVIOUS
    <3> HIDE DEF N
    <3>1. 4 * (i - 1) + k \in 1..(4 * N) /\ 4 + (4 * (i - 1) + k) = 4 * i + k
      BY <1>3
    <3>2. (head \o tail)[4 + (4 * (i - 1) + k)] = tail[4 * (i - 1) + k]
      BY <2>3, <3>1
    <3>3. (head \o tail)[4 * i + k] = tail[4 * (i - 1) + k]
      BY <3>1, <3>2
    <3> QED BY <1>6, <3>3 DEF head, tail
  <2>5. d = head \o tail
    BY DEF head, tail
  <2> HIDE DEF d
  <2>6. d[1] = head[1] /\ d[2] = head[2] /\ d[3] = head[3] /\ d[4] = head[4]
    BY <2>3, <2>5
  <2> QED BY <2>1, <2>3, <2>4, <2>5, <2>6
<1>8. /\ \A i \in 1..N : Id(i) = ids[i]
      /\ \A i \in 1..N : Value(i) = IF keys[ids[i]] = Double(<<>>) THEN None
                                    ELSE Some(AsRead(keys[ids[i]]))
  <2> SUFFICES ASSUME NEW i \in 1..N
               PROVE  /\ Id(i) = ids[i]
                      /\ Value(i) = IF keys[ids[i]] = Double(<<>>) THEN None
                                    ELSE Some(AsRead(keys[ids[i]]))
    OBVIOUS
  <2> HIDE DEF d
  <2>1. d[4 * i + 1] = es[i][1] /\ d[4 * i + 2] = es[i][2] /\ d[4 * i + 3] = es[i][3]
        /\ d[4 * i + 4] = es[i][4]
    BY <1>7
  <2> QED BY <1>4, <2>1
<1>9. IsAscii(text)
  <2> DEFINE R == 0..127
  <2>1. \A id \in DOMAIN keys : keys[id].type = "ascii" => Stored(keys[id]) \in Seq(R)
    <3> SUFFICES ASSUME NEW id \in DOMAIN keys, keys[id].type = "ascii"
                 PROVE  Stored(keys[id]) \in Seq(R)
      OBVIOUS
    <3> DEFINE u == keys[id].of
    <3>1. PICK i \in 1..N : ids[i] = id
      BY <1>3
    <3>2. IsAscii(u)
      BY <1>1, <1>3, <3>1 DEF ValueFits
    <3>3. u \in Seq(Nat)
      BY ValueShape DEF IsKeys
    <3>4. Stored(keys[id]) = Append(u, Pipe)
      BY DEF Stored
    <3> HIDE DEF u
    <3>5. Append(u, Pipe) \in Seq(R)
      <4>1. \A x \in Nat : x < 128 => x \in R
        OBVIOUS
      <4>2. Pipe \in R
        BY DEF Pipe
      <4> HIDE DEF R
      <4>3. DOMAIN u = 1..Len(u) /\ Len(u) \in Nat /\ (\A k \in 1..Len(u) : u[k] \in Nat)
            /\ u = [k \in 1..Len(u) |-> u[k]]
        BY <3>3
      <4>4. \A k \in 1..Len(u) : u[k] \in R
        BY <3>2, <4>1, <4>3 DEF IsAscii
      <4> DEFINE m == Len(u)
      <4> HIDE DEF m
      <4>5. u \in [1..m -> R] /\ m \in Nat
        BY <4>3, <4>4 DEF m
      <4>6. u \in Seq(R)
        BY <4>5
      <4> QED BY <4>2, <4>6
    <3> QED BY <3>4, <3>5
  <2> DEFINE ps == Pieces(keys, ids, "ascii")
  <2>2. ps \in Seq(Seq(R)) /\ text = FlattenSeq(ps)
    <3>1. IsKeys(keys)
      OBVIOUS
    <3> HIDE DEF R, keys
    <3> QED BY ONLY <2>1, <3>1, PiecesAre
  <2>3. text \in Seq(R)
    <3> HIDE DEF R, ps, text
    <3>1. FlatTo(ps, Len(ps)) \in Seq(R) /\ FlatTo(ps, Len(ps)) = FlattenSeq(ps)
      <4>1. Len(ps) \in 0..Len(ps)
        BY <2>2
      <4> QED BY <2>2, <4>1, FlatToIs
    <3> QED BY <2>2, <3>1
  <2>4. \A x \in R : x < 128
    OBVIOUS
  <2> HIDE DEF text, R
  <2>5. \A k \in DOMAIN text : text[k] \in R
    BY <2>3
  <2> QED BY <2>4, <2>5 DEF IsAscii
<1>10. 1..d[4] = 1..N
  BY <1>7
<1>11. ~(\E i, j \in 1..N : i < j /\ Id(i) = Id(j))
  <2>1. \A i \in 1..N : Id(i) = ids[i]
    BY <1>8
  <2>2. \A i, j \in 1..N : ids[i] = ids[j] => i = j
    BY <1>3
  <2>3. \A i, j \in 1..N : i < j => i # j
    BY <1>20
  <2> HIDE DEF Id, N, ids
  <2> QED BY <2>1, <2>2, <2>3
<1>12. Parse(t) = IF \E i \in 1..N : Value(i) = None THEN None
                  ELSE Some([minor |-> d[3],
                             keys |-> [id \in {Id(i) : i \in 1..N} |->
                                         Value(CHOOSE i \in 1..N : Id(i) = id)[1]]])
  <2>0. t.directory = d /\ t.doubles = doubles /\ t.text = text
    OBVIOUS
  <2>1. ~(Len(d) < 4) /\ d[1] = 1 /\ d[2] = 1 /\ d[3] \in {0, 1} /\ Len(d) = 4 + 4 * d[4]
    <3> HIDE DEF d, N, minor
    <3> QED BY <1>2, <1>20, <1>7
  <2> DEFINE found(D) == Some([minor |-> d[3],
                               keys |-> [id \in {Id(i) : i \in D} |->
                                           Value(CHOOSE i \in D : Id(i) = id)[1]]])
  <2>2. Parse(t) = IF \/ Len(d) < 4
                      \/ d[1] # 1 \/ d[2] # 1 \/ d[3] \notin {0, 1} \/ Len(d) # 4 + 4 * d[4]
                      \/ ~IsAscii(text)
                      \/ \E i, j \in 1..d[4] : i < j /\ Id(i) = Id(j)
                      \/ \E i \in 1..d[4] : Value(i) = None
                   THEN None ELSE found(1..d[4])
    <3> HIDE DEF d, doubles, text, t
    <3> QED BY <2>0 DEF Parse
  <2> HIDE DEF d, doubles, text, t, N, Id, Value, found
  <2>3. Parse(t) = IF \E i \in 1..N : Value(i) = None THEN None ELSE found(1..N)
    BY <1>9, <1>10, <1>11, <2>1, <2>2
  <2> QED BY <2>3 DEF found
<1> HIDE DEF Id, Value, d, t
<1>13. \A i \in 1..N : Value(i) = None <=> keys[ids[i]] = Double(<<>>)
  BY <1>8 DEF None, Some
<1>14. CASE HoldsNothing(keys)
  <2>1. \E i \in 1..N : Value(i) = None
    BY <1>3, <1>13, <1>14 DEF HoldsNothing
  <2> QED BY <1>2, <1>12, <1>14, <2>1
<1>15. CASE ~HoldsNothing(keys)
  <2>1. \A i \in 1..N : Value(i) # None /\ Value(i) = Some(AsRead(keys[ids[i]]))
    BY <1>3, <1>8, <1>13, <1>15 DEF HoldsNothing
  <2> DEFINE at(id) == CHOOSE i \in 1..N : Id(i) = id
             found == [id \in {Id(i) : i \in 1..N} |-> Value(at(id))[1]]
  <2>2. {Id(i) : i \in 1..N} = DOMAIN keys
    <3>1. \A i \in 1..N : Id(i) = ids[i]
      BY <1>8
    <3>2. /\ \A i \in 1..N : ids[i] \in DOMAIN keys
          /\ \A id \in DOMAIN keys : \E i \in 1..N : ids[i] = id
      BY <1>3
    <3> HIDE DEF keys, ids, N
    <3> QED BY <3>1, <3>2
  <2>3. ASSUME NEW id \in DOMAIN keys PROVE Value(at(id))[1] = AsRead(keys[id])
    <3>1. \E i \in 1..N : Id(i) = id
      BY <1>3, <1>8
    <3>2. at(id) \in 1..N /\ Id(at(id)) = id
      <4> HIDE DEF N
      <4> QED BY <3>1
    <3> HIDE DEF at
    <3>3. Value(at(id)) = Some(AsRead(keys[id]))
      BY <1>8, <2>1, <3>2
    <3> QED BY <3>3 DEF Some
  <2>4. found = [id \in DOMAIN keys |-> AsRead(keys[id])]
    <3> HIDE DEF at, keys, N
    <3> QED BY <2>2, <2>3
  <2>5. Parse(t) = Some([minor |-> d[3], keys |-> found])
    BY <1>12, <2>1
  <2> HIDE DEF found
  <2>6. Parse(t) # None /\ Parse(t)[1].keys = found
    BY <2>5 DEF None, Some
  <2> QED BY <1>2, <1>15, <2>4, <2>6
<1> QED BY <1>14, <1>15

----------------------------------------------------------------------------
(***************************************************************************)
(* What the setters make of the keys.                                      *)
(***************************************************************************)
LEMMA ValueTypes ==
  /\ \A code \in Nat : Short(code) \in KeyValue
  /\ \A text \in Text : Ascii(text) \in KeyValue
<1>1. Nat \subseteq Doubles
  BY DEF Doubles
<1>2. ASSUME NEW code \in Nat PROVE Short(code) \in KeyValue
  <2>1. <<code>> \in Seq(Doubles) /\ Len(<<code>>) = 1 /\ <<code>>[1] = code
    BY <1>1
  <2> DEFINE of == <<code>>
  <2> HIDE DEF of
  <2>2. [type |-> "short", of |-> of] \in KeyValue
    BY <2>1 DEF KeyValue, of
  <2> QED BY <2>2 DEF Short, of
<1>3. ASSUME NEW text \in Text PROVE Ascii(text) \in KeyValue
  <2>1. text \in Seq(Doubles)
    BY <1>1, SeqMonotonic DEF Text
  <2> QED BY <2>1 DEF KeyValue, Ascii
<1> QED BY <1>2, <1>3

LEMMA KeySet ==
  ASSUME NEW keys, IsKeys(keys), NEW id \in Nat, NEW value \in KeyValue
  PROVE  IsKeys(SetKey(keys, id, value))
<1>1. DOMAIN SetKey(keys, id, value) = DOMAIN keys \cup {id}
  BY DEF SetKey
<1>2. IsFiniteSet(DOMAIN keys \cup {id})
  BY FS_AddElement DEF IsKeys
<1>3. \A other \in DOMAIN keys \cup {id} : SetKey(keys, id, value)[other] \in KeyValue
  BY DEF SetKey, IsKeys
<1>4. SetKey(keys, id, value) = [other \in DOMAIN SetKey(keys, id, value) |->
                                   SetKey(keys, id, value)[other]]
  BY DEF SetKey
<1> QED BY <1>1, <1>2, <1>3, <1>4 DEF IsKeys

LEMMA KeyRemoved ==
  ASSUME NEW keys, IsKeys(keys), NEW id
  PROVE  IsKeys(RemoveKey(keys, id))
<1>1. DOMAIN RemoveKey(keys, id) = DOMAIN keys \ {id}
  BY DEF RemoveKey
<1>2. IsFiniteSet(DOMAIN keys \ {id})
  BY FS_RemoveElement DEF IsKeys
<1>3. RemoveKey(keys, id) = [other \in DOMAIN RemoveKey(keys, id) |-> RemoveKey(keys, id)[other]]
  BY DEF RemoveKey
<1>4. \A other \in DOMAIN keys \ {id} : RemoveKey(keys, id)[other] \in KeyValue
  BY DEF RemoveKey, IsKeys
<1> QED BY <1>1, <1>2, <1>3, <1>4 DEF IsKeys

LEMMA OptionIs ==
  ASSUME NEW S, NEW option \in Option(S), option # None
  PROVE  option = Some(option[1]) /\ option[1] \in S
<1>1. option \in Seq(S) /\ Len(option) <= 1 /\ Len(option) \in Nat
  BY DEF Option
<1>2. Len(option) # 0
  BY <1>1, EmptySeq DEF None
<1>3. Len(option) = 1
  <2> DEFINE l == Len(option)
  <2>1. l \in Nat /\ l <= 1 /\ l # 0
    BY <1>1, <1>2
  <2> HIDE DEF l
  <2>2. l = 1
    BY <2>1
  <2> QED BY <2>2 DEF l
<1> QED BY <1>1, <1>3 DEF Some

\* The parts of a coordinate reference system, of the types they have.
LEMMA CrsParts ==
  ASSUME NEW crs \in CrsInfo
  PROVE  /\ crs.model \in Nat /\ crs.raster \in Nat
         /\ crs = [model |-> crs.model, raster |-> crs.raster,
                   horizontal |-> crs.horizontal, vertical |-> crs.vertical]
         /\ crs.horizontal # None =>
              LET h == crs.horizontal[1] IN
              /\ h = [projected |-> h.projected, geodetic |-> h.geodetic,
                      projCitation |-> h.projCitation, geodCitation |-> h.geodCitation]
              /\ h.projected \in Option(Nat) /\ h.geodetic \in Option(Nat)
              /\ h.projCitation \in Option(Text) /\ h.geodCitation \in Option(Text)
         /\ crs.vertical # None =>
              LET v == crs.vertical[1] IN
              /\ v = [epsg |-> v.epsg, datum |-> v.datum, units |-> v.units,
                      citation |-> v.citation]
              /\ v.epsg \in Option(Nat) /\ v.datum \in Option(Nat) /\ v.units \in Option(Nat)
              /\ v.citation \in Option(Text)
<1> DEFINE H == [projected : Option(Nat), geodetic : Option(Nat),
                 projCitation : Option(Text), geodCitation : Option(Text)]
           V == [epsg : Option(Nat), datum : Option(Nat), units : Option(Nat),
                 citation : Option(Text)]
<1>1. crs \in [model : Nat, raster : Nat, horizontal : Option(H), vertical : Option(V)]
  BY DEF CrsInfo
<1> HIDE DEF H, V
<1>2. /\ crs.model \in Nat /\ crs.raster \in Nat
      /\ crs.horizontal \in Option(H) /\ crs.vertical \in Option(V)
      /\ crs = [model |-> crs.model, raster |-> crs.raster,
                horizontal |-> crs.horizontal, vertical |-> crs.vertical]
  BY <1>1
<1>3. crs.horizontal # None => crs.horizontal[1] \in H
  BY <1>2, OptionIs
<1>4. crs.vertical # None => crs.vertical[1] \in V
  BY <1>2, OptionIs
<1>5. \A h \in H : /\ h = [projected |-> h.projected, geodetic |-> h.geodetic,
                           projCitation |-> h.projCitation, geodCitation |-> h.geodCitation]
                   /\ h.projected \in Option(Nat) /\ h.geodetic \in Option(Nat)
                   /\ h.projCitation \in Option(Text) /\ h.geodCitation \in Option(Text)
  BY DEF H
<1>6. \A v \in V : /\ v = [epsg |-> v.epsg, datum |-> v.datum, units |-> v.units,
                           citation |-> v.citation]
                   /\ v.epsg \in Option(Nat) /\ v.datum \in Option(Nat)
                   /\ v.units \in Option(Nat) /\ v.citation \in Option(Text)
  BY DEF V
<1> QED BY <1>2, <1>3, <1>4, <1>5, <1>6

LEMMA ShortOption ==
  ASSUME NEW option \in Option(Nat)
  PROVE  /\ (OptionalShort(option) = None) = (option = None)
         /\ option # None => /\ OptionalShort(option) = Some(Short(option[1]))
                             /\ OptionalShort(option)[1] = Short(option[1])
                             /\ OptionalShort(option)[1] \in KeyValue
                             /\ option = Some(option[1])
<1>1. option # None => option[1] \in Nat /\ option = Some(option[1])
  BY OptionIs
<1> QED BY <1>1, ValueTypes DEF OptionalShort, Some, None

LEMMA AsciiOption ==
  ASSUME NEW option \in Option(Text)
  PROVE  /\ (OptionalAscii(option) = None) = (option = None)
         /\ option # None => /\ OptionalAscii(option) = Some(Ascii(option[1]))
                             /\ OptionalAscii(option)[1] = Ascii(option[1])
                             /\ OptionalAscii(option)[1] \in KeyValue
                             /\ option = Some(option[1]) /\ option[1] \in Text
<1>1. option # None => option[1] \in Text /\ option = Some(option[1])
  BY OptionIs
<1> QED BY <1>1, ValueTypes DEF OptionalAscii, Some, None

LEMMA NoOption ==
  OptionalShort(None) = None /\ OptionalAscii(None) = None
BY DEF OptionalShort, OptionalAscii, None

LEMMA GivenParts ==
  ASSUME NEW crs \in CrsInfo
  PROVE  LET h == GivenHorizontal(crs)
             v == GivenVertical(crs)
         IN /\ h = [projected |-> h.projected, geodetic |-> h.geodetic,
                    projCitation |-> h.projCitation, geodCitation |-> h.geodCitation]
            /\ h.projected \in Option(Nat) /\ h.geodetic \in Option(Nat)
            /\ h.projCitation \in Option(Text) /\ h.geodCitation \in Option(Text)
            /\ v = [epsg |-> v.epsg, datum |-> v.datum, units |-> v.units,
                    citation |-> v.citation]
            /\ v.epsg \in Option(Nat) /\ v.datum \in Option(Nat) /\ v.units \in Option(Nat)
            /\ v.citation \in Option(Text)
            /\ crs.vertical = None => /\ v.epsg = None /\ v.datum = None /\ v.units = None
                                      /\ v.citation = None
<1>1. \A S : None \in Option(S)
  <2>1. \A S : <<>> \in Seq(S) /\ Len(<<>>) <= 1
    OBVIOUS
  <2> QED BY <2>1 DEF Option, None
<1>2. \A id : GetShort(<<>>, id) = None /\ GetAscii(<<>>, id) = None
  BY DEF GetShort, GetAscii, GetOf, None
<1>3. Horizontal(<<>>) = [projected |-> None, geodetic |-> None,
                          projCitation |-> None, geodCitation |-> None]
  BY <1>2 DEF Horizontal
<1>4. Vertical(<<>>) = [epsg |-> None, datum |-> None, units |-> None, citation |-> None]
  BY <1>2 DEF Vertical
<1> DEFINE h == GivenHorizontal(crs)
           v == GivenVertical(crs)
<1>5. /\ h = [projected |-> h.projected, geodetic |-> h.geodetic,
              projCitation |-> h.projCitation, geodCitation |-> h.geodCitation]
      /\ h.projected \in Option(Nat) /\ h.geodetic \in Option(Nat)
      /\ h.projCitation \in Option(Text) /\ h.geodCitation \in Option(Text)
  <2>1. CASE crs.horizontal = None
    <3>1. h = [projected |-> None, geodetic |-> None,
               projCitation |-> None, geodCitation |-> None]
      BY <1>3, <2>1 DEF GivenHorizontal
    <3> HIDE DEF h
    <3> QED BY <1>1, <3>1
  <2>2. CASE crs.horizontal # None
    <3>1. h = crs.horizontal[1]
      BY <2>2 DEF GivenHorizontal
    <3> HIDE DEF h
    <3> QED BY <2>2, <3>1, CrsParts
  <2> QED BY <2>1, <2>2
<1>6. /\ v = [epsg |-> v.epsg, datum |-> v.datum, units |-> v.units,
              citation |-> v.citation]
      /\ v.epsg \in Option(Nat) /\ v.datum \in Option(Nat) /\ v.units \in Option(Nat)
      /\ v.citation \in Option(Text)
      /\ crs.vertical = None => /\ v.epsg = None /\ v.datum = None /\ v.units = None
                                /\ v.citation = None
  <2>1. CASE crs.vertical = None
    <3>1. v = [epsg |-> None, datum |-> None, units |-> None, citation |-> None]
      BY <1>4, <2>1 DEF GivenVertical
    <3> HIDE DEF v
    <3> QED BY <1>1, <3>1
  <2>2. CASE crs.vertical # None
    <3>1. v = crs.vertical[1]
      BY <2>2 DEF GivenVertical
    <3> HIDE DEF v
    <3> QED BY <2>2, <3>1, CrsParts
  <2> QED BY <2>1, <2>2
<1> HIDE DEF h, v
<1> QED BY <1>5, <1>6 DEF h, v

NonZeroKey(code) == IF code = 0 THEN None ELSE Some(Short(code))

LEMMA ManagedKeys ==
  ASSUME NEW crs \in CrsInfo
  PROVE  LET h == GivenHorizontal(crs)
             v == GivenVertical(crs)
             m == KeysOfCrs(crs)
         IN /\ DOMAIN m = CrsKeys
            /\ m[GtModelType] = NonZeroKey(crs.model)
            /\ m[GtRasterType] = NonZeroKey(crs.raster)
            /\ m[ProjectedCrsType] = OptionalShort(h.projected)
            /\ m[GeodeticCrsType] = OptionalShort(h.geodetic)
            /\ m[ProjCitation] = OptionalAscii(h.projCitation)
            /\ m[GeodeticCitation] = OptionalAscii(h.geodCitation)
            /\ m[VerticalCsType] = OptionalShort(v.epsg)
            /\ m[VerticalDatum] = OptionalShort(v.datum)
            /\ m[VerticalUnits] = OptionalShort(v.units)
            /\ m[VerticalCitation] = OptionalAscii(v.citation)
<1> DEFINE m == KeysOfCrs(crs)
<1>1. \A id : GetShort(<<>>, id) = None /\ GetAscii(<<>>, id) = None
  BY DEF GetShort, GetAscii, GetOf, None
<1>2. Horizontal(<<>>) = [projected |-> None, geodetic |-> None,
                          projCitation |-> None, geodCitation |-> None]
  BY <1>1 DEF Horizontal
<1>3. Vertical(<<>>) = [epsg |-> None, datum |-> None, units |-> None, citation |-> None]
  BY <1>1 DEF Vertical
<1> DEFINE hp(f) == IF crs.horizontal = None THEN None ELSE crs.horizontal[1][f]
           vp(f) == IF crs.vertical = None THEN None ELSE crs.vertical[1][f]
<1>4. /\ DOMAIN m = CrsKeys
      /\ m[GtModelType] = NonZeroKey(crs.model)
      /\ m[GtRasterType] = NonZeroKey(crs.raster)
      /\ m[ProjectedCrsType] = OptionalShort(hp("projected"))
      /\ m[GeodeticCrsType] = OptionalShort(hp("geodetic"))
      /\ m[ProjCitation] = OptionalAscii(hp("projCitation"))
      /\ m[GeodeticCitation] = OptionalAscii(hp("geodCitation"))
      /\ m[VerticalCsType] = OptionalShort(vp("epsg"))
      /\ m[VerticalDatum] = OptionalShort(vp("datum"))
      /\ m[VerticalUnits] = OptionalShort(vp("units"))
      /\ m[VerticalCitation] = OptionalAscii(vp("citation"))
  BY DEF KeysOfCrs, NonZeroKey, CrsKeys, GtModelType, GtRasterType, ProjectedCrsType,
         GeodeticCrsType, ProjCitation, GeodeticCitation, VerticalCsType, VerticalDatum,
         VerticalUnits, VerticalCitation
<1> HIDE DEF m
<1> QED BY <1>2, <1>3, <1>4 DEF GivenHorizontal, GivenVertical, m

LEMMA ManagedValues ==
  ASSUME NEW crs \in CrsInfo, NEW id \in CrsKeys, KeysOfCrs(crs)[id] # None
  PROVE  KeysOfCrs(crs)[id][1] \in KeyValue
<1> DEFINE m == KeysOfCrs(crs)
           h == GivenHorizontal(crs)
           v == GivenVertical(crs)
<1>1. /\ m[GtModelType] = NonZeroKey(crs.model)
      /\ m[GtRasterType] = NonZeroKey(crs.raster)
      /\ m[ProjectedCrsType] = OptionalShort(h.projected)
      /\ m[GeodeticCrsType] = OptionalShort(h.geodetic)
      /\ m[ProjCitation] = OptionalAscii(h.projCitation)
      /\ m[GeodeticCitation] = OptionalAscii(h.geodCitation)
      /\ m[VerticalCsType] = OptionalShort(v.epsg)
      /\ m[VerticalDatum] = OptionalShort(v.datum)
      /\ m[VerticalUnits] = OptionalShort(v.units)
      /\ m[VerticalCitation] = OptionalAscii(v.citation)
  BY ManagedKeys
<1>2. /\ h.projected \in Option(Nat) /\ h.geodetic \in Option(Nat)
      /\ h.projCitation \in Option(Text) /\ h.geodCitation \in Option(Text)
      /\ v.epsg \in Option(Nat) /\ v.datum \in Option(Nat) /\ v.units \in Option(Nat)
      /\ v.citation \in Option(Text) /\ crs.model \in Nat /\ crs.raster \in Nat
  BY GivenParts, CrsParts
<1> HIDE DEF m, h, v
<1>3. \A option \in Option(Nat) :
        OptionalShort(option) # None => OptionalShort(option)[1] \in KeyValue
  BY ShortOption
<1>4. \A option \in Option(Text) :
        OptionalAscii(option) # None => OptionalAscii(option)[1] \in KeyValue
  BY AsciiOption
<1>5. \A code \in Nat : NonZeroKey(code) # None => NonZeroKey(code)[1] \in KeyValue
  BY ValueTypes DEF NonZeroKey, Some
<1>6. m[id] # None => m[id][1] \in KeyValue
  BY <1>1, <1>2, <1>3, <1>4, <1>5 DEF CrsKeys
<1> QED BY <1>6 DEF m

LEMMA CrsKeysFinite == CrsKeys \subseteq Nat /\ IsFiniteSet(CrsKeys)
<1> DEFINE last == 5000
<1>1. last \in Nat /\ \A id \in CrsKeys : id \in Nat /\ id <= last
  BY DEF CrsKeys, GtModelType, GtRasterType, ProjectedCrsType,
         GeodeticCrsType, ProjCitation, GeodeticCitation, VerticalCsType, VerticalDatum,
         VerticalUnits, VerticalCitation
<1> HIDE DEF last
<1>2. IsFiniteSet(0..last)
  BY <1>1, FS_Interval
<1>3. CrsKeys \in SUBSET (0..last) /\ CrsKeys \subseteq Nat
  BY <1>1
<1> QED BY <1>2, <1>3, FS_Subset

\* Do the keys say of a coordinate reference system what it says, and no more?
SaysCrs(keys, crs) ==
  \A id \in CrsKeys :
    /\ id \in DOMAIN keys <=> KeysOfCrs(crs)[id] # None
    /\ id \in DOMAIN keys => keys[id] = KeysOfCrs(crs)[id][1]

LEMMA CrsApplied ==
  ASSUME NEW keys, IsKeys(keys), NEW crs \in CrsInfo
  PROVE  IsKeys(ApplyToGeoKeys(crs, keys)) /\ SaysCrs(ApplyToGeoKeys(crs, keys), crs)
<1> DEFINE m == KeysOfCrs(crs)
           kept == DOMAIN keys \ CrsKeys
           set == {id \in CrsKeys : m[id] # None}
           after == [id \in kept \cup set |-> IF id \in set THEN m[id][1] ELSE keys[id]]
<1>1. ApplyToGeoKeys(crs, keys) = after
  BY ManagedKeys DEF ApplyToGeoKeys
<1>2. IsFiniteSet(kept) /\ IsFiniteSet(set) /\ kept \subseteq Nat /\ set \subseteq Nat
  <2>1. kept \subseteq DOMAIN keys /\ set \subseteq CrsKeys
    OBVIOUS
  <2> HIDE DEF kept, set
  <2> QED BY <2>1, CrsKeysFinite, FS_Subset DEF IsKeys
<1>3. \A id \in set : m[id][1] \in KeyValue
  BY ManagedValues
<1>4. \A id \in kept : keys[id] \in KeyValue
  BY DEF IsKeys
<1>5. SaysCrs(after, crs)
  <2>1. \A id \in CrsKeys : id \in DOMAIN after <=> m[id] # None
    OBVIOUS
  <2>2. \A id \in CrsKeys : id \in DOMAIN after => after[id] = m[id][1]
    OBVIOUS
  <2> HIDE DEF after
  <2> QED BY <2>1, <2>2 DEF SaysCrs
<1> HIDE DEF kept, set, m
<1>6. IsFiniteSet(kept \cup set)
  BY <1>2, FS_Union
<1>7. IsKeys(after)
  <2>1. DOMAIN after = kept \cup set /\ \A id \in kept \cup set : after[id] \in KeyValue
    BY <1>3, <1>4
  <2>2. after = [id \in DOMAIN after |-> after[id]]
    OBVIOUS
  <2> HIDE DEF after
  <2> QED BY <1>2, <1>6, <2>1, <2>2 DEF IsKeys
<1> QED BY <1>1, <1>5, <1>7

----------------------------------------------------------------------------
(***************************************************************************)
(* What is read of the keys.                                               *)
(***************************************************************************)
ReadKeys(keys) == [id \in DOMAIN keys |-> AsRead(keys[id])]

LEMMA ShortsAsRead ==
  ASSUME NEW keys, NEW id
  PROVE  GetShort(ReadKeys(keys), id) = GetShort(keys, id)
<1>1. ASSUME id \in DOMAIN keys
      PROVE  AsRead(keys[id]).type = keys[id].type
             /\ (keys[id].type = "short" => AsRead(keys[id]) = keys[id])
  BY DEF AsRead, Ascii
<1>2. DOMAIN ReadKeys(keys) = DOMAIN keys
      /\ (id \in DOMAIN keys => ReadKeys(keys)[id] = AsRead(keys[id]))
  BY DEF ReadKeys
<1>3. GetOf("short", ReadKeys(keys), id) = GetOf("short", keys, id)
  BY <1>1, <1>2 DEF GetOf
<1> QED BY <1>3 DEF GetShort

LEMMA ShortRead ==
  ASSUME NEW keys, NEW id, NEW option,
         option # None => option = Some(option[1]),
         id \in DOMAIN keys <=> option # None,
         id \in DOMAIN keys => keys[id] = Short(option[1])
  PROVE  GetShort(ReadKeys(keys), id) = option
<1>1. GetShort(ReadKeys(keys), id) = GetShort(keys, id)
  BY ShortsAsRead
<1>2. CASE option = None
  <2>1. GetOf("short", keys, id) = None
    BY <1>2 DEF GetOf
  <2> QED BY <1>1, <1>2, <2>1 DEF GetShort
<1>3. CASE option # None
  <2>1. GetOf("short", keys, id) = Some(<<option[1]>>)
    BY <1>3 DEF GetOf, Short
  <2>2. Some(<<option[1]>>) # None /\ Some(<<option[1]>>)[1] = <<option[1]>>
    BY DEF Some, None
  <2>3. GetShort(keys, id) = <<option[1]>>
    BY <2>1, <2>2 DEF GetShort
  <2> QED BY <1>1, <1>3, <2>3 DEF Some
<1> QED BY <1>2, <1>3

LEMMA AsciiRead ==
  ASSUME NEW keys, NEW id, NEW option,
         id \in DOMAIN keys <=> option # None,
         id \in DOMAIN keys => keys[id] = Ascii(option[1])
  PROVE  GetAscii(ReadKeys(keys), id) = TextAsRead(option)
<1>1. DOMAIN ReadKeys(keys) = DOMAIN keys
      /\ (id \in DOMAIN keys => ReadKeys(keys)[id] = AsRead(keys[id]))
  BY DEF ReadKeys
<1>2. CASE option = None
  <2>1. GetOf("ascii", ReadKeys(keys), id) = None
    BY <1>1, <1>2 DEF GetOf
  <2> QED BY <1>2, <2>1 DEF GetAscii, TextAsRead
<1>3. CASE option # None
  <2>1. ReadKeys(keys)[id] = Ascii(TrimmedEnd(option[1], Nul))
    BY <1>1, <1>3 DEF AsRead, Ascii
  <2>2. GetOf("ascii", ReadKeys(keys), id) = Some(TrimmedEnd(option[1], Nul))
    BY <1>1, <1>3, <2>1 DEF GetOf, Ascii
  <2> QED BY <1>3, <2>2 DEF GetAscii, TextAsRead
<1> QED BY <1>2, <1>3

LEMMA AnyPresent ==
  ASSUME NEW a, NEW b, NEW c, NEW d
  PROVE  /\ IsPresent([projected |-> a, geodetic |-> b, projCitation |-> c, geodCitation |-> d])
              <=> a # None \/ b # None \/ c # None \/ d # None
         /\ IsPresent([epsg |-> a, datum |-> b, units |-> c, citation |-> d])
              <=> a # None \/ b # None \/ c # None \/ d # None
<1> DEFINE h == [projected |-> a, geodetic |-> b, projCitation |-> c, geodCitation |-> d]
           v == [epsg |-> a, datum |-> b, units |-> c, citation |-> d]
<1>1. /\ DOMAIN h = {"projected", "geodetic", "projCitation", "geodCitation"}
      /\ h["projected"] = a /\ h["geodetic"] = b /\ h["projCitation"] = c
      /\ h["geodCitation"] = d
  OBVIOUS
<1>2. /\ DOMAIN v = {"epsg", "datum", "units", "citation"}
      /\ v["epsg"] = a /\ v["datum"] = b /\ v["units"] = c /\ v["citation"] = d
  OBVIOUS
<1> HIDE DEF h, v
<1>3. IsPresent(h) <=> a # None \/ b # None \/ c # None \/ d # None
  BY <1>1 DEF IsPresent
<1>4. IsPresent(v) <=> a # None \/ b # None \/ c # None \/ d # None
  BY <1>2 DEF IsPresent
<1> QED BY <1>3, <1>4 DEF h, v

(***************************************************************************)
(* A system applied as a whole is read as a whole.                         *)
(***************************************************************************)
LEMMA CrsReads ==
  ASSUME NEW crs \in CrsInfo, NEW keys, SaysCrs(keys, crs)
  PROVE  CrsFromGeoKeys(ReadKeys(keys)) = CrsAsRead(crs)
<1> DEFINE read == ReadKeys(keys)
           m == KeysOfCrs(crs)
           h == GivenHorizontal(crs)
           v == GivenVertical(crs)
<1>1. /\ m[GtModelType] = NonZeroKey(crs.model)
      /\ m[GtRasterType] = NonZeroKey(crs.raster)
      /\ m[ProjectedCrsType] = OptionalShort(h.projected)
      /\ m[GeodeticCrsType] = OptionalShort(h.geodetic)
      /\ m[ProjCitation] = OptionalAscii(h.projCitation)
      /\ m[GeodeticCitation] = OptionalAscii(h.geodCitation)
      /\ m[VerticalCsType] = OptionalShort(v.epsg)
      /\ m[VerticalDatum] = OptionalShort(v.datum)
      /\ m[VerticalUnits] = OptionalShort(v.units)
      /\ m[VerticalCitation] = OptionalAscii(v.citation)
  BY ManagedKeys
<1>2. /\ h = [projected |-> h.projected, geodetic |-> h.geodetic,
              projCitation |-> h.projCitation, geodCitation |-> h.geodCitation]
      /\ h.projected \in Option(Nat) /\ h.geodetic \in Option(Nat)
      /\ h.projCitation \in Option(Text) /\ h.geodCitation \in Option(Text)
      /\ v = [epsg |-> v.epsg, datum |-> v.datum, units |-> v.units,
              citation |-> v.citation]
      /\ v.epsg \in Option(Nat) /\ v.datum \in Option(Nat) /\ v.units \in Option(Nat)
      /\ v.citation \in Option(Text)
      /\ crs.vertical = None => v.epsg = None /\ v.datum = None /\ v.units = None
                                /\ v.citation = None
  BY GivenParts
<1>3. /\ crs.model \in Nat /\ crs.raster \in Nat
      /\ crs = [model |-> crs.model, raster |-> crs.raster,
                horizontal |-> crs.horizontal, vertical |-> crs.vertical]
  BY CrsParts
<1>4. ASSUME NEW id \in CrsKeys, NEW option \in Option(Nat), m[id] = OptionalShort(option)
      PROVE  GetShort(read, id) = option
  <2>1. /\ id \in DOMAIN keys <=> option # None
        /\ id \in DOMAIN keys => keys[id] = Short(option[1])
        /\ option # None => option = Some(option[1])
    BY <1>4, ShortOption DEF SaysCrs
  <2> QED BY <2>1, ShortRead
<1>5. ASSUME NEW id \in CrsKeys, NEW option \in Option(Text), m[id] = OptionalAscii(option)
      PROVE  GetAscii(read, id) = TextAsRead(option)
  <2>1. /\ id \in DOMAIN keys <=> option # None
        /\ id \in DOMAIN keys => keys[id] = Ascii(option[1])
    BY <1>5, AsciiOption DEF SaysCrs
  <2> QED BY <2>1, AsciiRead
<1>6. ASSUME NEW id \in CrsKeys, NEW code \in Nat, m[id] = NonZeroKey(code), NEW default
      PROVE  OrElse(GetShort(read, id), default) = IF code = 0 THEN default ELSE code
  <2> DEFINE option == IF code = 0 THEN None ELSE Some(code)
  <2>1. /\ id \in DOMAIN keys <=> option # None
        /\ id \in DOMAIN keys => keys[id] = Short(option[1])
        /\ option # None => option = Some(option[1])
    BY <1>6 DEF SaysCrs, NonZeroKey, Some, None
  <2>2. GetShort(read, id) = option
    BY <2>1, ShortRead
  <2> QED BY <2>2 DEF OrElse, Some, None
<1> HIDE DEF m, h, v, read
<1>7. /\ OrElse(GetShort(read, GtModelType), 0) = crs.model
      /\ OrElse(GetShort(read, GtRasterType), 1)
           = IF crs.raster = 0 THEN PixelIsArea ELSE crs.raster
  <2>1. GtModelType \in CrsKeys /\ GtRasterType \in CrsKeys
    BY DEF CrsKeys
  <2>2. OrElse(GetShort(read, GtModelType), 0) = IF crs.model = 0 THEN 0 ELSE crs.model
    BY <1>1, <1>3, <1>6, <2>1
  <2>3. OrElse(GetShort(read, GtRasterType), 1) = IF crs.raster = 0 THEN 1 ELSE crs.raster
    BY <1>1, <1>3, <1>6, <2>1
  <2> QED BY <2>2, <2>3 DEF PixelIsArea
<1> DEFINE hr == [projected |-> h.projected, geodetic |-> h.geodetic,
                  projCitation |-> TextAsRead(h.projCitation),
                  geodCitation |-> TextAsRead(h.geodCitation)]
           vr == [epsg |-> v.epsg, datum |-> v.datum, units |-> v.units,
                  citation |-> TextAsRead(v.citation)]
<1>8. Horizontal(read) = hr
  <2>1. /\ ProjectedCrsType \in CrsKeys /\ GeodeticCrsType \in CrsKeys
        /\ ProjCitation \in CrsKeys /\ GeodeticCitation \in CrsKeys
    BY DEF CrsKeys
  <2> QED BY <1>1, <1>2, <1>4, <1>5, <2>1 DEF Horizontal
<1>9. Vertical(read) = vr
  <2>1. /\ VerticalCsType \in CrsKeys /\ VerticalDatum \in CrsKeys
        /\ VerticalUnits \in CrsKeys /\ VerticalCitation \in CrsKeys
    BY DEF CrsKeys
  <2> QED BY <1>1, <1>2, <1>4, <1>5, <2>1 DEF Vertical
<1>11. [h EXCEPT !.projCitation = TextAsRead(@), !.geodCitation = TextAsRead(@)] = hr
  <2> DEFINE a == h.projected
             b == h.geodetic
             c == h.projCitation
             d == h.geodCitation
             e == TextAsRead(c)
             f == TextAsRead(d)
             w == [projected |-> a, geodetic |-> b, projCitation |-> c, geodCitation |-> d]
  <2>1. h = w
    BY <1>2
  <2>2. [w EXCEPT !.projCitation = e, !.geodCitation = f]
          = [projected |-> a, geodetic |-> b, projCitation |-> e, geodCitation |-> f]
    <3> HIDE DEF a, b, c, d, e, f
    <3>1. [w EXCEPT !.projCitation = e]
            = [projected |-> a, geodetic |-> b, projCitation |-> e, geodCitation |-> d]
      OBVIOUS
    <3>2. [[projected |-> a, geodetic |-> b, projCitation |-> e, geodCitation |-> d]
             EXCEPT !.geodCitation = f]
            = [projected |-> a, geodetic |-> b, projCitation |-> e, geodCitation |-> f]
      OBVIOUS
    <3> QED BY <3>1, <3>2, Zenon
  <2> HIDE DEF w, e, f
  <2>3. [h EXCEPT !.projCitation = e, !.geodCitation = f] = hr
    BY <2>1, <2>2 DEF e, f
  <2> QED BY <2>3 DEF e, f
<1>12. [v EXCEPT !.citation = TextAsRead(@)] = vr
  <2>1. \A a, b, c, d, e :
          [[epsg |-> a, datum |-> b, units |-> c, citation |-> d] EXCEPT !.citation = e]
            = [epsg |-> a, datum |-> b, units |-> c, citation |-> e]
    OBVIOUS
  <2> DEFINE e == TextAsRead(v.citation)
             w == [epsg |-> v.epsg, datum |-> v.datum, units |-> v.units,
                   citation |-> v.citation]
  <2>2. v = w
    BY <1>2
  <2>3. [w EXCEPT !.citation = e] = vr
    <3> HIDE DEF e
    <3>1. [w EXCEPT !.citation = e]
            = [epsg |-> v.epsg, datum |-> v.datum, units |-> v.units, citation |-> e]
      BY <2>1
    <3> QED BY <3>1 DEF e
  <2> HIDE DEF w, e, vr
  <2>4. [v EXCEPT !.citation = e] = vr
    BY <2>2, <2>3
  <2> QED BY <2>4 DEF e
<1> HIDE DEF hr, vr
<1>14. CrsFromGeoKeys(read)
         = [model |-> crs.model,
            raster |-> IF crs.raster = 0 THEN PixelIsArea ELSE crs.raster,
            horizontal |-> IF crs.model # 0 \/ IsPresent(hr) THEN Some(hr) ELSE None,
            vertical |-> IF IsPresent(vr) THEN Some(vr) ELSE None]
  BY <1>7, <1>8, <1>9 DEF CrsFromGeoKeys
<1>15. CrsAsRead(crs)
         = [model |-> crs.model,
            raster |-> IF crs.raster = 0 THEN PixelIsArea ELSE crs.raster,
            horizontal |-> IF crs.model # 0 \/ IsPresent(hr) THEN Some(hr) ELSE None,
            vertical |-> IF IsPresent(vr) THEN Some(vr) ELSE None]
  BY <1>11, <1>12 DEF CrsAsRead, h, v
<1> QED BY <1>14, <1>15 DEF read

\* One code, and no other in its place.
SaysEpsg(keys, code) ==
  \E id \in {ProjectedCrsType, GeodeticCrsType} :
    /\ id \in DOMAIN keys /\ keys[id] = Short(code)
    /\ {ProjectedCrsType, GeodeticCrsType} \cap DOMAIN keys = {id}

LEMMA EpsgReads ==
  ASSUME NEW keys, NEW code, SaysEpsg(keys, code)
  PROVE  Epsg(CrsFromGeoKeys(ReadKeys(keys))) = Some(code)
<1> DEFINE read == ReadKeys(keys)
           crs == CrsFromGeoKeys(read)
           p == GetShort(read, ProjectedCrsType)
           g == GetShort(read, GeodeticCrsType)
<1>1. PICK id \in {ProjectedCrsType, GeodeticCrsType} :
        /\ id \in DOMAIN keys /\ keys[id] = Short(code)
        /\ {ProjectedCrsType, GeodeticCrsType} \cap DOMAIN keys = {id}
  BY DEF SaysEpsg
<1>2. p = IF id = ProjectedCrsType THEN Some(code) ELSE None
  <2> DEFINE option == IF id = ProjectedCrsType THEN Some(code) ELSE None
  <2>1. /\ ProjectedCrsType \in DOMAIN keys <=> option # None
        /\ ProjectedCrsType \in DOMAIN keys => keys[ProjectedCrsType] = Short(option[1])
        /\ option # None => option = Some(option[1])
    BY <1>1 DEF Some, None
  <2> QED BY <2>1, ShortRead
<1>3. g = IF id = GeodeticCrsType THEN Some(code) ELSE None
  <2> DEFINE option == IF id = GeodeticCrsType THEN Some(code) ELSE None
  <2>1. /\ GeodeticCrsType \in DOMAIN keys <=> option # None
        /\ GeodeticCrsType \in DOMAIN keys => keys[GeodeticCrsType] = Short(option[1])
        /\ option # None => option = Some(option[1])
    BY <1>1 DEF Some, None
  <2> QED BY <2>1, ShortRead
<1>4. ProjectedCrsType # GeodeticCrsType
  BY DEF ProjectedCrsType, GeodeticCrsType
<1>5. (p = Some(code) /\ g = None) \/ (p = None /\ g = Some(code))
  BY <1>1, <1>2, <1>3, <1>4
<1>6. Some(code) # None
  BY DEF Some, None
<1>7. /\ IsPresent(Horizontal(read))
      /\ Horizontal(read).projected = p /\ Horizontal(read).geodetic = g
  <2>1. Horizontal(read) = [projected |-> p, geodetic |-> g,
                            projCitation |-> GetAscii(read, ProjCitation),
                            geodCitation |-> GetAscii(read, GeodeticCitation)]
    BY DEF Horizontal
  <2> DEFINE c == GetAscii(read, ProjCitation)
             d == GetAscii(read, GeodeticCitation)
  <2> HIDE DEF p, g, read, c, d
  <2>2. Horizontal(read) = [projected |-> p, geodetic |-> g, projCitation |-> c,
                            geodCitation |-> d]
    BY <2>1 DEF c, d
  <2>3. IsPresent(Horizontal(read)) <=> p # None \/ g # None \/ c # None \/ d # None
    <3>1. IsPresent([projected |-> p, geodetic |-> g, projCitation |-> c, geodCitation |-> d])
            <=> p # None \/ g # None \/ c # None \/ d # None
      BY ONLY AnyPresent
    <3> QED BY <2>2, <3>1
  <2> QED BY <1>5, <1>6, <2>2, <2>3
<1>8. crs.horizontal = Some(Horizontal(read))
  BY <1>7 DEF CrsFromGeoKeys
<1> HIDE DEF p, g, crs, read
<1>9. PrimaryHorizontalEpsg(crs) = Some(code)
  <2>1. Some(Horizontal(read)) # None /\ Some(Horizontal(read))[1] = Horizontal(read)
    BY DEF Some, None
  <2> QED BY <1>5, <1>6, <1>7, <1>8, <2>1 DEF PrimaryHorizontalEpsg, FirstOf
<1>10. Epsg(crs) = Some(code)
  BY <1>6, <1>9 DEF Epsg, FirstOf
<1> QED BY <1>10 DEF crs, read

----------------------------------------------------------------------------
(***************************************************************************)
(* The transform, from the builder to the tags and back.                   *)
(***************************************************************************)

\* A transform of whole numbers.
IsExact(t) ==
  /\ t = Affine(t.originX, t.pixelWidth, t.skewX, t.originY, t.skewY, t.pixelHeight)
  /\ t.originX \in Int /\ t.pixelWidth \in Int /\ t.skewX \in Int
  /\ t.originY \in Int /\ t.skewY \in Int /\ t.pixelHeight \in Int

LEMMA AffineFields ==
  ASSUME NEW a, NEW b, NEW c, NEW d, NEW e, NEW f
  PROVE  LET t == Affine(a, b, c, d, e, f) IN
         /\ t.originX = a /\ t.pixelWidth = b /\ t.skewX = c
         /\ t.originY = d /\ t.skewY = e /\ t.pixelHeight = f
BY DEF Affine

LEMMA AffineIsExact ==
  ASSUME NEW a \in Int, NEW b \in Int, NEW c \in Int, NEW d \in Int, NEW e \in Int, NEW f \in Int
  PROVE  IsExact(Affine(a, b, c, d, e, f))
BY AffineFields DEF IsExact

LEMMA FiniteIsInt ==
  \A x \in Doubles : (IsFinite(x) <=> x \in Int)
BY NotFiniteAssumption DEF Doubles, IsFinite

LEMMA TransformShape ==
  ASSUME NEW t \in Transform
  PROVE  /\ t = Affine(t.originX, t.pixelWidth, t.skewX, t.originY, t.skewY, t.pixelHeight)
         /\ AllFinite(t) => IsExact(t)
<1>1. /\ t = Affine(t.originX, t.pixelWidth, t.skewX, t.originY, t.skewY, t.pixelHeight)
      /\ t.originX \in Doubles /\ t.pixelWidth \in Doubles /\ t.skewX \in Doubles
      /\ t.originY \in Doubles /\ t.skewY \in Doubles /\ t.pixelHeight \in Doubles
  BY DEF Transform, Affine
<1>2. {"originX", "pixelWidth", "skewX", "originY", "skewY", "pixelHeight"} \subseteq DOMAIN t
  BY DEF Transform
<1>3. AllFinite(t) => /\ IsFinite(t.originX) /\ IsFinite(t.pixelWidth) /\ IsFinite(t.skewX)
                      /\ IsFinite(t.originY) /\ IsFinite(t.skewY) /\ IsFinite(t.pixelHeight)
  BY <1>2 DEF AllFinite
<1> QED BY <1>1, <1>3, FiniteIsInt DEF IsExact

LEMMA FiniteList ==
  ASSUME NEW n \in Nat, NEW v \in [1..n -> Doubles], AllFinite(v)
  PROVE  \A i \in 1..n : v[i] \in Int
BY FiniteIsInt DEF AllFinite

LEMMA MatrixIsExact ==
  ASSUME NEW m \in [1..16 -> Doubles], AllFinite(m)
  PROVE  IsExact(FromTransformationMatrix(m))
<1>1. \A i \in 1..16 : m[i] \in Int
  BY FiniteList
<1>2. m[4] \in Int /\ m[1] \in Int /\ m[2] \in Int /\ m[8] \in Int /\ m[5] \in Int
      /\ m[6] \in Int
  BY <1>1
<1> QED BY <1>2, AffineIsExact DEF FromTransformationMatrix

LEMMA HalfIsInt ==
  ASSUME NEW pixels \in Int, NEW raster, NEW scale \in Int
  PROVE  InMap(pixels, raster, scale) \in Int
<1>1. pixels * scale \in Int /\ scale \div 2 \in Int
  OBVIOUS
<1>2. (IF raster = PixelIsPoint THEN scale \div 2 ELSE 0) \in Int
  BY <1>1
<1> QED BY <1>1, <1>2 DEF InMap

\* What the builder says of the transform.
GivenTransform(b) ==
  IF b.matrix # None THEN Some(FromTransformationMatrix(b.matrix[1]))
  ELSE IF b.affine # None THEN b.affine
  ELSE IF b.scale = None \/ b.tiepoint = None THEN None
  ELSE IF b.isOrigin
  THEN Some(Affine(b.tiepoint[1][4], b.scale[1][1], 0, b.tiepoint[1][5], 0, -b.scale[1][2]))
  ELSE Some(FromTiepointAndScale(b.tiepoint[1], b.scale[1], CurrentRasterType(b)))

Holding(option, S) == option # None => option = Some(option[1]) /\ option[1] \in S

IsBuilder(b) ==
  /\ b = [geokeys |-> b.geokeys, scale |-> b.scale, tiepoint |-> b.tiepoint,
          isOrigin |-> b.isOrigin, affine |-> b.affine, matrix |-> b.matrix]
  /\ b.geokeys = [minor |-> 1, keys |-> b.geokeys.keys] /\ IsKeys(b.geokeys.keys)
  /\ Holding(b.scale, [1..3 -> Doubles]) /\ Holding(b.tiepoint, [1..6 -> Doubles])
  /\ b.isOrigin \in BOOLEAN
  /\ Holding(b.affine, Transform) /\ Holding(b.matrix, [1..16 -> Doubles])
  /\ b.affine # None => IsNorthUp(b.affine[1])
  /\ b.affine # None => b.matrix = None /\ b.scale = None /\ b.tiepoint = None
  /\ b.matrix # None => b.scale = None /\ b.tiepoint = None

KeysWritten(b) == IF WritesKeys(b) THEN Serialize(b.geokeys) ELSE None

LEMMA TagsAre ==
  ASSUME NEW b
  PROVE  LET As(m, s, t) ==
               [matrix |-> m, scale |-> s, tiepoint |-> t, keys |-> KeysWritten(b)]
             r == CurrentRasterType(b)
         IN ExtraTags(b) =
              IF b.matrix # None THEN As(b.matrix, None, None)
              ELSE IF b.affine # None
              THEN As(None, Some(ScaleOf(b.affine[1])), Some(TiepointOf(b.affine[1], r)))
              ELSE As(None, b.scale, IF b.tiepoint # None /\ b.isOrigin
                                        THEN Some(OriginTiepoint(b)) ELSE b.tiepoint)
<1>1. \A m, s, t, k, k2 :
        [[matrix |-> m, scale |-> s, tiepoint |-> t, keys |-> k] EXCEPT !.keys = k2]
          = [matrix |-> m, scale |-> s, tiepoint |-> t, keys |-> k2]
  OBVIOUS
<1>2. \A m : [NoTags EXCEPT !.matrix = m]
               = [matrix |-> m, scale |-> None, tiepoint |-> None, keys |-> None]
  BY DEF NoTags
<1>3. \A s, t : [NoTags EXCEPT !.scale = s, !.tiepoint = t]
                  = [matrix |-> None, scale |-> s, tiepoint |-> t, keys |-> None]
  <2> SUFFICES ASSUME NEW s, NEW t
               PROVE  [NoTags EXCEPT !.scale = s, !.tiepoint = t]
                        = [matrix |-> None, scale |-> s, tiepoint |-> t, keys |-> None]
    OBVIOUS
  <2>1. [NoTags EXCEPT !.scale = s]
          = [matrix |-> None, scale |-> s, tiepoint |-> None, keys |-> None]
    BY DEF NoTags
  <2>2. [[matrix |-> None, scale |-> s, tiepoint |-> None, keys |-> None] EXCEPT !.tiepoint = t]
          = [matrix |-> None, scale |-> s, tiepoint |-> t, keys |-> None]
    OBVIOUS
  <2> QED BY <2>1, <2>2, Zenon
<1>4. ExtraTags(b) = [ModelTags(b) EXCEPT !.keys = KeysWritten(b)]
  BY DEF ExtraTags, KeysWritten
<1>5. CASE b.matrix # None
  <2>1. ModelTags(b) = [matrix |-> b.matrix, scale |-> None, tiepoint |-> None, keys |-> None]
    BY <1>2, <1>5 DEF ModelTags
  <2> QED BY <1>1, <1>4, <1>5, <2>1
<1>6. CASE b.matrix = None /\ b.affine # None
  <2> DEFINE s == Some(ScaleOf(b.affine[1]))
             t == Some(TiepointOf(b.affine[1], CurrentRasterType(b)))
  <2>1. ModelTags(b) = [NoTags EXCEPT !.scale = s, !.tiepoint = t]
    BY <1>6 DEF ModelTags
  <2> HIDE DEF s, t
  <2>2. ModelTags(b) = [matrix |-> None, scale |-> s, tiepoint |-> t, keys |-> None]
    BY <1>3, <2>1
  <2>3. ExtraTags(b) = [matrix |-> None, scale |-> s, tiepoint |-> t, keys |-> KeysWritten(b)]
    BY <1>1, <1>4, <2>2
  <2> QED BY <1>6, <2>3 DEF s, t
<1>7. CASE b.matrix = None /\ b.affine = None
  <2> DEFINE t == IF b.tiepoint # None /\ b.isOrigin THEN Some(OriginTiepoint(b))
                  ELSE b.tiepoint
  <2>1. ModelTags(b) = [NoTags EXCEPT !.scale = b.scale, !.tiepoint = t]
    BY <1>7 DEF ModelTags
  <2> HIDE DEF t
  <2>2. ModelTags(b) = [matrix |-> None, scale |-> b.scale, tiepoint |-> t, keys |-> None]
    BY <1>3, <2>1
  <2>3. ExtraTags(b) = [matrix |-> None, scale |-> b.scale, tiepoint |-> t,
                        keys |-> KeysWritten(b)]
    BY <1>1, <1>4, <2>2
  <2> QED BY <1>7, <2>3 DEF t
<1> QED BY <1>5, <1>6, <1>7

LEMMA NorthUpReads ==
  ASSUME NEW t, IsExact(t), IsNorthUp(t), NEW raster,
         NEW s, s[1] = t.pixelWidth, s[2] = -t.pixelHeight
  PROVE  /\ FromTiepointAndScale(TiepointOf(t, raster), s, raster) = t
         /\ AllFinite(TiepointOf(t, raster))
<1> DEFINE dx == InMap(0, raster, t.pixelWidth)
           dy == InMap(0, raster, -t.pixelHeight)
           p == TiepointOf(t, raster)
<1>1. /\ t = Affine(t.originX, t.pixelWidth, t.skewX, t.originY, t.skewY, t.pixelHeight)
      /\ t.originX \in Int /\ t.pixelWidth \in Int
      /\ t.originY \in Int /\ t.pixelHeight \in Int /\ t.skewX = 0 /\ t.skewY = 0
  BY DEF IsExact, IsNorthUp
<1>2. dx \in Int /\ dy \in Int
  BY <1>1, HalfIsInt
<1> DEFINE x == t.originX + dx
           y == t.originY - dy
<1>3. p = <<0, 0, 0, x, y, 0>>
  BY DEF TiepointOf
<1>4. x \in Int /\ y \in Int /\ x - dx = t.originX /\ y + dy = t.originY
  <2> HIDE DEF dx, dy
  <2> QED BY <1>1, <1>2
<1> HIDE DEF x, y, p
<1>5. p[1] = 0 /\ p[2] = 0 /\ p[4] = x /\ p[5] = y
  BY <1>3
<1>6. AllFinite(p)
  <2>1. \A i \in DOMAIN p : p[i] \in Int
    BY <1>3, <1>4
  <2>2. \A v \in Int : IsFinite(v)
    BY NotFiniteAssumption DEF IsFinite
  <2> QED BY <2>1, <2>2 DEF AllFinite
<1>7. FromTiepointAndScale(p, s, raster)
        = Affine(x - dx, t.pixelWidth, 0, y + dy, 0, -(-t.pixelHeight))
  BY <1>5 DEF FromTiepointAndScale
<1>8. -(-t.pixelHeight) = t.pixelHeight
  BY <1>1
<1>9. FromTiepointAndScale(p, s, raster) = t
  <2> HIDE DEF dx, dy
  <2> QED BY <1>1, <1>4, <1>7, <1>8
<1> QED BY <1>6, <1>9 DEF p

(***************************************************************************)
(* The tags of a valid builder hold a valid model, and it is read as the   *)
(* transform the builder was given.                                        *)
(***************************************************************************)
LEMMA ModelReads ==
  ASSUME NEW b, IsBuilder(b), ValidGeoreferencing(b), NEW crs, crs.raster = CurrentRasterType(b)
  PROVE  LET read == ExtraTags(b) IN
         /\ ValidModel(read) /\ TransformOf(read, crs) = GivenTransform(b)
         /\ read.keys = KeysWritten(b)
         /\ ~WritesGeoreferencing(b) =>
              read.matrix = None /\ read.tiepoint = None /\ read.scale = None
         /\ GivenTransform(b) # None =>
              /\ GivenTransform(b) = Some(GivenTransform(b)[1])
              /\ IsExact(GivenTransform(b)[1]) /\ IsInvertible(GivenTransform(b)[1])
<1> DEFINE read == ExtraTags(b)
           r == CurrentRasterType(b)
           g == GivenTransform(b)
           Goal == /\ ValidModel(read) /\ TransformOf(read, crs) = g
                   /\ read.keys = KeysWritten(b)
                   /\ ~WritesGeoreferencing(b) =>
                        read.matrix = None /\ read.tiepoint = None /\ read.scale = None
                   /\ g # None => g = Some(g[1]) /\ IsExact(g[1]) /\ IsInvertible(g[1])
<1>1. Some(1) # None /\ \A x : Some(x) # None /\ Some(x)[1] = x
  BY DEF Some, None
<1>2. \A v \in Int : IsFinite(v)
  BY NotFiniteAssumption DEF IsFinite
<1>3. ASSUME b.matrix # None PROVE Goal
  <2> DEFINE m == b.matrix[1]
  <2>1. /\ b.matrix = Some(m) /\ m \in [1..16 -> Doubles]
        /\ AllFinite(m) /\ IsInvertible(FromTransformationMatrix(m))
    BY <1>3 DEF IsBuilder, Holding, ValidGeoreferencing, ValidWithoutTiepoint
  <2>2. read = [matrix |-> b.matrix, scale |-> None, tiepoint |-> None, keys |-> KeysWritten(b)]
    BY <1>3, TagsAre
  <2>3. g = Some(FromTransformationMatrix(m))
    BY <1>3 DEF GivenTransform
  <2>4. IsExact(FromTransformationMatrix(m))
    BY <2>1, MatrixIsExact
  <2> HIDE DEF read, g
  <2>5. read.matrix = b.matrix /\ read.scale = None /\ read.tiepoint = None
        /\ read.keys = KeysWritten(b)
    BY <2>2
  <2>6. ValidModel(read)
    BY <2>1, <2>5 DEF ValidModel
  <2>7. TransformOf(read, crs) = g
    BY <1>3, <2>3, <2>5 DEF TransformOf
  <2>8. WritesGeoreferencing(b)
    BY <1>3 DEF WritesGeoreferencing
  <2> QED BY <1>1, <2>1, <2>3, <2>4, <2>5, <2>6, <2>7, <2>8
<1>4. ASSUME b.affine # None PROVE Goal
  <2> DEFINE t == b.affine[1]
             s == ScaleOf(t)
             p == TiepointOf(t, r)
  <2>1. /\ b.affine = Some(t) /\ t \in Transform /\ b.matrix = None
        /\ AllFinite(t) /\ IsInvertible(t) /\ IsNorthUp(t)
    BY <1>4 DEF IsBuilder, Holding, ValidGeoreferencing, ValidWithoutTiepoint
  <2>2. read = [matrix |-> None, scale |-> Some(s), tiepoint |-> Some(p),
                keys |-> KeysWritten(b)]
    BY <1>4, <2>1, TagsAre
  <2>3. g = Some(t)
    BY <1>4, <2>1 DEF GivenTransform
  <2>4. IsExact(t)
    BY <2>1, TransformShape
  <2>5. /\ t.pixelWidth \in Int /\ t.pixelHeight \in Int
        /\ t.pixelWidth > 0 /\ -t.pixelHeight > 0 /\ -t.pixelHeight \in Int
    BY <2>1, <2>4 DEF IsExact, IsNorthUp
  <2> HIDE DEF t
  <2>6. s[1] = t.pixelWidth /\ s[2] = -t.pixelHeight /\ s[3] = 0 /\ DOMAIN s = 1..3
    BY DEF ScaleOf
  <2>7. FromTiepointAndScale(p, s, r) = t /\ AllFinite(p)
    BY <2>1, <2>4, <2>6, NorthUpReads
  <2>8. AllFinite(s) /\ s[1] > 0 /\ s[2] > 0 /\ s[3] >= 0
    <3>1. \A i \in 1..3 : s[i] \in Int
      BY <2>5, <2>6
    <3> HIDE DEF s
    <3> QED BY <1>2, <2>5, <2>6, <3>1 DEF AllFinite
  <2> HIDE DEF read, g, s, p
  <2>9. read.matrix = None /\ read.scale = Some(s) /\ read.tiepoint = Some(p)
        /\ read.keys = KeysWritten(b)
    BY <2>2
  <2>10. ValidModel(read)
    BY <1>1, <2>7, <2>8, <2>9 DEF ValidModel
  <2>11. TransformOf(read, crs) = g
    BY <1>1, <2>3, <2>7, <2>9 DEF TransformOf
  <2>12. WritesGeoreferencing(b)
    BY <1>4 DEF WritesGeoreferencing
  <2> QED BY <1>1, <2>1, <2>3, <2>4, <2>9, <2>10, <2>11, <2>12
<1>5. ASSUME b.matrix = None, b.affine = None PROVE Goal
  <2> DEFINE s == b.scale[1]
             p == b.tiepoint[1]
             at == IF b.tiepoint # None /\ b.isOrigin THEN Some(OriginTiepoint(b))
                   ELSE b.tiepoint
  <2>1. /\ b.scale # None => /\ b.tiepoint # None
                             /\ b.scale = Some(s) /\ s \in [1..3 -> Doubles]
                             /\ AllFinite(s) /\ s[1] > 0 /\ s[2] > 0 /\ s[3] >= 0
        /\ b.tiepoint # None => /\ b.tiepoint = Some(p) /\ p \in [1..6 -> Doubles]
                                /\ AllFinite(p)
    BY DEF IsBuilder, Holding, ValidGeoreferencing, ValidWithoutTiepoint
  <2>2. read = [matrix |-> None, scale |-> b.scale, tiepoint |-> at, keys |-> KeysWritten(b)]
    BY <1>5, TagsAre
  <2> HIDE DEF s, p
  <2>3. /\ b.scale # None => s[1] \in Int /\ s[2] \in Int /\ -s[2] \in Int
        /\ b.tiepoint # None => \A i \in 1..6 : p[i] \in Int
    <3>1. ASSUME b.scale # None PROVE s[1] \in Int /\ s[2] \in Int /\ -s[2] \in Int
      <4>1. s \in [1..3 -> Doubles] /\ AllFinite(s)
        BY <2>1, <3>1
      <4>2. \A i \in 1..3 : s[i] \in Int
        BY <4>1, FiniteList
      <4> QED BY <4>2
    <3>2. ASSUME b.tiepoint # None PROVE \A i \in 1..6 : p[i] \in Int
      <4>1. p \in [1..6 -> Doubles] /\ AllFinite(p)
        BY <2>1, <3>2
      <4> QED BY <4>1, FiniteList
    <3> QED BY <3>1, <3>2
  <2> HIDE DEF read, at
  <2>4. read.matrix = None /\ read.scale = b.scale /\ read.tiepoint = at
        /\ read.keys = KeysWritten(b)
    BY <2>2
  <2>5. ASSUME b.scale = None PROVE Goal
    <3>1. g = None
      BY <1>5, <2>5 DEF GivenTransform
    <3>2. at = b.tiepoint
      BY <2>1, <2>5 DEF at, OriginTiepoint, p
    <3> HIDE DEF g
    <3>3. ValidModel(read)
      BY <2>1, <2>4, <2>5, <3>2 DEF ValidModel, p
    <3>4. TransformOf(read, crs) = None
      BY <2>4, <2>5 DEF TransformOf
    <3>5. ~WritesGeoreferencing(b) => b.tiepoint = None
      BY DEF WritesGeoreferencing
    <3> QED BY <2>4, <2>5, <3>1, <3>2, <3>3, <3>4, <3>5
  <2>6. ASSUME b.scale # None, b.isOrigin PROVE Goal
    <3> DEFINE t == Affine(p[4], s[1], 0, p[5], 0, -s[2])
    <3>1. g = Some(t)
      BY <1>5, <2>1, <2>6 DEF GivenTransform, p, s
    <3>2. IsExact(t)
      <4>1. p[4] \in Int /\ p[5] \in Int /\ s[1] \in Int /\ -s[2] \in Int /\ 0 \in Int
        BY <2>1, <2>3, <2>6
      <4> QED BY <4>1, AffineIsExact
    <3>3. /\ t.pixelWidth = s[1] /\ t.pixelHeight = -s[2] /\ t.skewX = 0 /\ t.skewY = 0
          /\ t.originX = p[4] /\ t.originY = p[5]
      BY AffineFields
    <3>4. IsNorthUp(t)
      BY <1>2, <2>1, <2>3, <2>6, <3>3 DEF IsNorthUp
    <3>5. at = Some(TiepointOf(t, r))
      BY <2>1, <2>6, <3>4 DEF at, OriginTiepoint, FromOriginAndPixelSize, p, s
    <3> HIDE DEF g, t
    <3>6. s[2] = -t.pixelHeight
      BY <2>3, <2>6, <3>3
    <3>7. FromTiepointAndScale(TiepointOf(t, r), s, r) = t /\ AllFinite(TiepointOf(t, r))
      BY <3>2, <3>3, <3>4, <3>6, NorthUpReads
    <3>8. IsInvertible(t)
      <4>1. \A x, y \in Int : x > 0 /\ y > 0 => (x * (-y)) - 0 * 0 # 0
        OBVIOUS
      <4> QED BY <2>1, <2>3, <2>6, <3>3, <4>1 DEF IsInvertible, Determinant
    <3>9. ValidModel(read)
      BY <1>1, <2>1, <2>4, <2>6, <3>5, <3>7 DEF ValidModel, s
    <3>10. TransformOf(read, crs) = g
      BY <1>1, <2>1, <2>4, <2>6, <3>1, <3>5, <3>7 DEF TransformOf, s
    <3>11. WritesGeoreferencing(b)
      BY <2>6 DEF WritesGeoreferencing
    <3> QED BY <1>1, <2>4, <3>1, <3>2, <3>8, <3>9, <3>10, <3>11
  <2>7. ASSUME b.scale # None, ~b.isOrigin PROVE Goal
    <3> DEFINE t == FromTiepointAndScale(p, s, r)
    <3>1. g = Some(t)
      BY <1>5, <2>1, <2>7 DEF GivenTransform, p, s
    <3>2. at = b.tiepoint
      BY <2>7 DEF at
    <3> DEFINE dx == InMap(p[1], r, s[1])
               dy == InMap(p[2], r, s[2])
    <3>3. dx \in Int /\ dy \in Int /\ p[4] \in Int /\ p[5] \in Int
      BY <2>1, <2>3, <2>7, HalfIsInt
    <3>4. t = Affine(p[4] - dx, s[1], 0, p[5] + dy, 0, -s[2])
      BY DEF FromTiepointAndScale
    <3> HIDE DEF t, dx, dy, g
    <3>5. IsExact(t)
      <4>1. p[4] - dx \in Int /\ p[5] + dy \in Int /\ s[1] \in Int /\ -s[2] \in Int /\ 0 \in Int
        BY <2>3, <2>7, <3>3
      <4> QED BY <3>4, <4>1, AffineIsExact
    <3>6. t.pixelWidth = s[1] /\ t.pixelHeight = -s[2] /\ t.skewX = 0 /\ t.skewY = 0
      BY <3>4, AffineFields
    <3>7. IsInvertible(t)
      <4>1. \A x, y \in Int : x > 0 /\ y > 0 => (x * (-y)) - 0 * 0 # 0
        OBVIOUS
      <4> QED BY <2>1, <2>3, <2>7, <3>6, <4>1 DEF IsInvertible, Determinant
    <3>8. ValidModel(read)
      BY <1>1, <2>1, <2>4, <2>7, <3>2 DEF ValidModel, s, p
    <3>9. TransformOf(read, crs) = g
      BY <1>1, <2>1, <2>4, <2>7, <3>1, <3>2 DEF TransformOf, s, p, t
    <3>10. WritesGeoreferencing(b)
      BY <2>7 DEF WritesGeoreferencing
    <3> QED BY <1>1, <2>4, <3>1, <3>5, <3>7, <3>8, <3>9, <3>10
  <2> HIDE DEF Goal
  <2> QED BY <2>5, <2>6, <2>7
<1> QED BY <1>3, <1>4, <1>5

----------------------------------------------------------------------------
(***************************************************************************)
(* A pixel's corner goes to the map and back.                              *)
(***************************************************************************)
LEMMA ExactDivision ==
  ASSUME NEW c \in Int, NEW d \in Int, d > 0
  PROVE  (c * d) \div d = c
<1>1. c * d = d * c /\ c * d \in Int
  OBVIOUS
<1>2. c * d = d * ((c * d) \div d) + ((c * d) % d)
      /\ (c * d) \div d \in Int /\ (c * d) % d \in 0..(d - 1)
  BY <1>1
<1> DEFINE q == (c * d) \div d
           r == (c * d) % d
<1>3. q \in Int /\ r \in Int /\ 0 <= r /\ r < d /\ d * c = d * q + r
  BY <1>1, <1>2
<1> HIDE DEF q, r
<1>4. d * (c - q) = r /\ c - q \in Int
  BY <1>3
<1>5. c - q <= 0
  <2>1. \A x \in Int : x >= 1 => d * x >= d
    OBVIOUS
  <2> QED BY <1>3, <1>4, <2>1
<1>6. c - q >= 0
  <2>1. \A x \in Int : x <= -1 => d * x <= -d
    OBVIOUS
  <2> QED BY <1>3, <1>4, <2>1
<1>7. c = q
  BY <1>3, <1>5, <1>6
<1> QED BY <1>7 DEF q

LEMMA PixelRoundTrip ==
  ASSUME NEW t, IsExact(t), IsInvertible(t), NEW col \in Int, NEW row \in Int
  PROVE  LET at == PixelToGeo(t, col, row) IN GeoToPixel(t, at[1], at[2]) = <<col, row>>
<1> DEFINE x == t.originX + col * t.pixelWidth + row * t.skewX
           y == t.originY + col * t.skewY + row * t.pixelHeight
           D == Determinant(t)
           dx == x - t.originX
           dy == y - t.originY
           over(n) == IF D > 0 THEN n \div D ELSE (-n) \div (-D)
<1>1. /\ t.originX \in Int /\ t.pixelWidth \in Int /\ t.skewX \in Int
      /\ t.originY \in Int /\ t.skewY \in Int /\ t.pixelHeight \in Int
  BY DEF IsExact
<1>2. /\ D = (t.pixelWidth * t.pixelHeight) - (t.skewX * t.skewY)
      /\ D \in Int /\ D # 0
  BY <1>1 DEF IsInvertible, Determinant
<1>3. /\ dx = col * t.pixelWidth + row * t.skewX
      /\ dy = col * t.skewY + row * t.pixelHeight
  <2>1. /\ col * t.pixelWidth \in Int /\ row * t.skewX \in Int
        /\ col * t.skewY \in Int /\ row * t.pixelHeight \in Int
    BY <1>1
  <2>2. \A o, a, b \in Int : (o + a + b) - o = a + b
    OBVIOUS
  <2> QED BY <1>1, <2>1, <2>2
<1>4. \A a, b, c, d, m, n \in Int :
        /\ (d * (m * a + n * c)) - (c * (m * b + n * d)) = m * ((a * d) - (c * b))
        /\ (a * (m * b + n * d)) - (b * (m * a + n * c)) = n * ((a * d) - (c * b))
  OBVIOUS
<1>5. /\ (t.pixelHeight * dx) - (t.skewX * dy) = col * D
      /\ (t.pixelWidth * dy) - (t.skewY * dx) = row * D
  <2> HIDE DEF dx, dy, D
  <2> QED BY <1>1, <1>2, <1>3, <1>4
<1>6. \A c \in Int : over(c * D) = c
  <2> SUFFICES ASSUME NEW c \in Int PROVE over(c * D) = c
    OBVIOUS
  <2> HIDE DEF D
  <2>1. CASE D > 0
    BY <1>2, <2>1, ExactDivision
  <2>2. CASE ~(D > 0)
    <3>1. -D \in Int /\ -D > 0 /\ -(c * D) = c * (-D)
      BY <1>2, <2>2
    <3>2. (c * (-D)) \div (-D) = c
      BY <3>1, ExactDivision
    <3> QED BY <2>2, <3>1, <3>2
  <2> QED BY <2>1, <2>2
<1>7. GeoToPixel(t, x, y) = <<over((t.pixelHeight * dx) - (t.skewX * dy)),
                              over((t.pixelWidth * dy) - (t.skewY * dx))>>
  BY DEF GeoToPixel
<1>8. GeoToPixel(t, x, y) = <<col, row>>
  <2> HIDE DEF over, D, dx, dy, x, y
  <2> QED BY <1>5, <1>6, <1>7
<1>9. PixelToGeo(t, col, row) = <<x, y>>
  BY DEF PixelToGeo
<1> HIDE DEF x, y
<1>10. PixelToGeo(t, col, row)[1] = x /\ PixelToGeo(t, col, row)[2] = y
  BY <1>9
<1> QED BY <1>8, <1>10

----------------------------------------------------------------------------
(***************************************************************************)
(* Overviews.                                                              *)
(***************************************************************************)
LEMMA ScaledIsExact ==
  ASSUME NEW t, IsExact(t), NEW factor \in Nat \ {0}
  PROVE  LET s == ScaledForOverview(t, factor) IN
         /\ IsExact(s)
         /\ s = Affine(t.originX, t.pixelWidth * factor, t.skewX * factor,
                       t.originY, t.skewY * factor, t.pixelHeight * factor)
         /\ factor = 1 => s = t
         /\ IsNorthUp(t) => IsNorthUp(s)
         /\ \A col, row \in Int :
              PixelToGeo(s, col, row) = PixelToGeo(t, col * factor, row * factor)
<1> DEFINE s == ScaledForOverview(t, factor)
<1>1. /\ t.originX \in Int /\ t.pixelWidth \in Int /\ t.skewX \in Int
      /\ t.originY \in Int /\ t.skewY \in Int /\ t.pixelHeight \in Int
      /\ t = Affine(t.originX, t.pixelWidth, t.skewX, t.originY, t.skewY, t.pixelHeight)
  BY DEF IsExact
<1>2. /\ t.pixelWidth * factor \in Int /\ t.skewX * factor \in Int
      /\ t.skewY * factor \in Int /\ t.pixelHeight * factor \in Int
  BY <1>1
<1>3. s = Affine(t.originX, t.pixelWidth * factor, t.skewX * factor,
                 t.originY, t.skewY * factor, t.pixelHeight * factor)
  BY DEF ScaledForOverview
<1>4. IsExact(s)
  <2>1. IsExact(Affine(t.originX, t.pixelWidth * factor, t.skewX * factor,
                       t.originY, t.skewY * factor, t.pixelHeight * factor))
    BY <1>1, <1>2, AffineIsExact
  <2> HIDE DEF s
  <2> QED BY <1>3, <2>1
<1> HIDE DEF s
<1>5. /\ s.originX = t.originX /\ s.pixelWidth = t.pixelWidth * factor
      /\ s.skewX = t.skewX * factor /\ s.originY = t.originY
      /\ s.skewY = t.skewY * factor /\ s.pixelHeight = t.pixelHeight * factor
  BY <1>3, AffineFields
<1>6. factor = 1 => s = t
  <2>1. \A x \in Int : x * 1 = x
    OBVIOUS
  <2> QED BY <1>1, <1>3, <2>1
<1>7. IsNorthUp(t) => IsNorthUp(s)
  <2>1. \A x \in Int : (x > 0 => x * factor > 0) /\ (x < 0 => x * factor < 0)
    OBVIOUS
  <2>2. \A x \in Int : IsFinite(x)
    BY NotFiniteAssumption DEF IsFinite
  <2>3. t.skewX = 0 /\ t.skewY = 0 => s.skewX = 0 /\ s.skewY = 0
    BY <1>5
  <2> QED BY <1>1, <1>2, <1>5, <2>1, <2>2, <2>3 DEF IsNorthUp
<1>8. ASSUME NEW col \in Int, NEW row \in Int
      PROVE  PixelToGeo(s, col, row) = PixelToGeo(t, col * factor, row * factor)
  <2>1. \A a \in Int : col * (a * factor) = (col * factor) * a
                       /\ row * (a * factor) = (row * factor) * a
    OBVIOUS
  <2> QED BY <1>1, <1>5, <2>1 DEF PixelToGeo
<1> QED BY <1>3, <1>4, <1>6, <1>7, <1>8 DEF s

LEMMA MatrixScales ==
  ASSUME NEW m \in [1..16 -> Doubles], AllFinite(m), NEW factor \in Nat \ {0}
  PROVE  /\ ScaledMatrix(m, factor) \in [1..16 -> Doubles]
         /\ FromTransformationMatrix(ScaledMatrix(m, factor))
              = ScaledForOverview(FromTransformationMatrix(m), factor)
<1> DEFINE n == ScaledMatrix(m, factor)
<1>1. \A i \in 1..16 : m[i] \in Int /\ m[i] * factor \in Int
  <2>1. \A i \in 1..16 : m[i] \in Int
    BY FiniteList
  <2> QED BY <2>1
<1>2. n \in [1..16 -> Doubles]
  BY <1>1 DEF ScaledMatrix, Doubles
<1>3. /\ n[1] = m[1] * factor /\ n[2] = m[2] * factor /\ n[4] = m[4]
      /\ n[5] = m[5] * factor /\ n[6] = m[6] * factor /\ n[8] = m[8]
  <2>1. /\ (1 - 1) % 4 = 0 /\ (2 - 1) % 4 = 1 /\ (4 - 1) % 4 = 3
        /\ (5 - 1) % 4 = 0 /\ (6 - 1) % 4 = 1 /\ (8 - 1) % 4 = 3
    OBVIOUS
  <2>2. \A i \in 1..16 : n[i] = IF (i - 1) % 4 \in {0, 1} THEN m[i] * factor ELSE m[i]
    BY DEF ScaledMatrix
  <2> HIDE DEF n
  <2> QED BY <2>1, <2>2
<1> HIDE DEF n
<1>4. ScaledForOverview(FromTransformationMatrix(m), factor)
        = Affine(m[4], m[1] * factor, m[2] * factor, m[8], m[5] * factor, m[6] * factor)
  BY AffineFields DEF ScaledForOverview, FromTransformationMatrix
<1>5. FromTransformationMatrix(n) = ScaledForOverview(FromTransformationMatrix(m), factor)
  BY <1>3, <1>4 DEF FromTransformationMatrix
<1> QED BY <1>2, <1>5 DEF n

BuilderFields == {"geokeys", "scale", "tiepoint", "isOrigin", "affine", "matrix"}
Shaped(b) == b = [geokeys |-> b.geokeys, scale |-> b.scale, tiepoint |-> b.tiepoint,
                  isOrigin |-> b.isOrigin, affine |-> b.affine, matrix |-> b.matrix]

LEMMA ShapedIs ==
  ASSUME NEW b
  PROVE  Shaped(b) <=> b = [field \in BuilderFields |-> b[field]]
<1>1. Shaped(b) => b = [field \in BuilderFields |-> b[field]]
  BY DEF Shaped, BuilderFields
<1>2. b = [field \in BuilderFields |-> b[field]] => Shaped(b)
  BY DEF Shaped, BuilderFields
<1> QED BY <1>1, <1>2

LEMMA NewIsShaped ==
  /\ Shaped(NewBuilder) /\ NewBuilder.geokeys = NewDirectory
  /\ NewBuilder.scale = None /\ NewBuilder.tiepoint = None /\ NewBuilder.isOrigin = FALSE
  /\ NewBuilder.affine = None /\ NewBuilder.matrix = None
BY DEF NewBuilder, Shaped

WithAffine(keys, x) == [NewBuilder EXCEPT !.geokeys = keys, !.affine = x]
WithMatrix(keys, x) == [NewBuilder EXCEPT !.geokeys = keys, !.matrix = x]

LEMMA WholeSet ==
  ASSUME NEW keys, NEW x, NEW c
  PROVE  /\ c = WithAffine(keys, x) =>
              /\ Shaped(c) /\ c.geokeys = keys /\ c.scale = None /\ c.tiepoint = None
              /\ c.isOrigin \in BOOLEAN /\ c.affine = x /\ c.matrix = None
         /\ c = WithMatrix(keys, x) =>
              /\ Shaped(c) /\ c.geokeys = keys /\ c.scale = None /\ c.tiepoint = None
              /\ c.isOrigin \in BOOLEAN /\ c.affine = None /\ c.matrix = x
<1>0. NewBuilder = [field \in BuilderFields |-> NewBuilder[field]]
  BY NewIsShaped, ShapedIs
<1>1. c = WithAffine(keys, x) =>
        /\ c = [field \in BuilderFields |-> c[field]]
        /\ c.geokeys = keys /\ c.scale = NewBuilder.scale
        /\ c.tiepoint = NewBuilder.tiepoint /\ c.isOrigin = NewBuilder.isOrigin
        /\ c.affine = x /\ c.matrix = NewBuilder.matrix
  BY <1>0 DEF BuilderFields, WithAffine
<1>2. c = WithMatrix(keys, x) =>
        /\ c = [field \in BuilderFields |-> c[field]]
        /\ c.geokeys = keys /\ c.scale = NewBuilder.scale
        /\ c.tiepoint = NewBuilder.tiepoint /\ c.isOrigin = NewBuilder.isOrigin
        /\ c.affine = NewBuilder.affine /\ c.matrix = x
  BY <1>0 DEF BuilderFields, WithMatrix
<1>3. NewBuilder.isOrigin \in BOOLEAN
  BY DEF NewBuilder
<1> QED BY <1>1, <1>2, <1>3, NewIsShaped, ShapedIs

\* A builder with a whole transform and nothing else.
LEMMA WholeBuilder ==
  ASSUME NEW b, IsBuilder(b)
  PROVE  /\ \A t \in Transform : IsNorthUp(t) =>
              LET o == [NewBuilder EXCEPT !.geokeys = b.geokeys, !.affine = Some(t)] IN
              /\ IsBuilder(o) /\ o.geokeys = b.geokeys /\ GivenTransform(o) = Some(t)
              /\ o.matrix = None /\ o.affine = Some(t) /\ o.scale = None /\ o.tiepoint = None
         /\ \A m \in [1..16 -> Doubles] :
              LET o == [NewBuilder EXCEPT !.geokeys = b.geokeys, !.matrix = Some(m)] IN
              /\ IsBuilder(o) /\ o.geokeys = b.geokeys
              /\ GivenTransform(o) = Some(FromTransformationMatrix(m))
              /\ o.matrix = Some(m) /\ o.affine = None /\ o.scale = None /\ o.tiepoint = None
<1>0. \A x : Some(x) # None /\ Some(x)[1] = x
  BY DEF Some, None
<1>1. ASSUME NEW t \in Transform, IsNorthUp(t)
      PROVE  LET o == [NewBuilder EXCEPT !.geokeys = b.geokeys, !.affine = Some(t)] IN
             /\ IsBuilder(o) /\ o.geokeys = b.geokeys /\ GivenTransform(o) = Some(t)
             /\ o.matrix = None /\ o.affine = Some(t) /\ o.scale = None /\ o.tiepoint = None
  <2> DEFINE o == [NewBuilder EXCEPT !.geokeys = b.geokeys, !.affine = Some(t)]
  <2>2. /\ Shaped(o)
        /\ o.geokeys = b.geokeys /\ o.scale = None /\ o.tiepoint = None /\ o.isOrigin \in BOOLEAN
        /\ o.affine = Some(t) /\ o.matrix = None
    <3>1. o = WithAffine(b.geokeys, Some(t))
      BY DEF WithAffine
    <3> HIDE DEF o
    <3> QED BY <3>1, WholeSet
  <2> HIDE DEF o
  <2>3. IsBuilder(o)
    BY <1>0, <1>1, <2>2 DEF IsBuilder, Holding, Shaped
  <2>4. GivenTransform(o) = Some(t)
    BY <1>0, <2>2 DEF GivenTransform
  <2> QED BY <2>2, <2>3, <2>4 DEF o
<1>2. ASSUME NEW m \in [1..16 -> Doubles]
      PROVE  LET o == [NewBuilder EXCEPT !.geokeys = b.geokeys, !.matrix = Some(m)] IN
             /\ IsBuilder(o) /\ o.geokeys = b.geokeys
             /\ GivenTransform(o) = Some(FromTransformationMatrix(m))
             /\ o.matrix = Some(m) /\ o.affine = None /\ o.scale = None /\ o.tiepoint = None
  <2> DEFINE o == [NewBuilder EXCEPT !.geokeys = b.geokeys, !.matrix = Some(m)]
  <2>2. /\ Shaped(o)
        /\ o.geokeys = b.geokeys /\ o.scale = None /\ o.tiepoint = None /\ o.isOrigin \in BOOLEAN
        /\ o.affine = None /\ o.matrix = Some(m)
    <3>1. o = WithMatrix(b.geokeys, Some(m))
      BY DEF WithMatrix
    <3> HIDE DEF o
    <3> QED BY <3>1, WholeSet
  <2> HIDE DEF o
  <2>3. IsBuilder(o)
    BY <1>0, <2>2 DEF IsBuilder, Holding, Shaped
  <2>4. GivenTransform(o) = Some(FromTransformationMatrix(m))
    BY <1>0, <2>2 DEF GivenTransform
  <2> QED BY <2>2, <2>3, <2>4 DEF o
<1> QED BY <1>1, <1>2

LEMMA ExactIsTransform ==
  ASSUME NEW t, IsExact(t) PROVE t \in Transform
<1>1. /\ t.originX \in Doubles /\ t.pixelWidth \in Doubles /\ t.skewX \in Doubles
      /\ t.originY \in Doubles /\ t.skewY \in Doubles /\ t.pixelHeight \in Doubles
  BY DEF IsExact, Doubles
<1>2. t = [originX |-> t.originX, pixelWidth |-> t.pixelWidth, skewX |-> t.skewX,
           originY |-> t.originY, skewY |-> t.skewY, pixelHeight |-> t.pixelHeight]
  BY DEF IsExact, Affine
<1> QED BY <1>1, <1>2 DEF Transform

(***************************************************************************)
(* An overview has the transform of its base image, with larger pixels.    *)
(***************************************************************************)
LEMMA OverviewGiven ==
  ASSUME NEW b, IsBuilder(b), ValidGeoreferencing(b), NEW factor \in Nat \ {0}
  PROVE  LET o == WithOverviewGeoreferencing(b, factor)
             g == GivenTransform(b)
         IN /\ IsBuilder(o) /\ o.geokeys = b.geokeys
            /\ g = None => GivenTransform(o) = None
            /\ g # None => GivenTransform(o) = Some(ScaledForOverview(g[1], factor))
<1> DEFINE o == WithOverviewGeoreferencing(b, factor)
           g == GivenTransform(b)
           Goal == /\ IsBuilder(o) /\ o.geokeys = b.geokeys
                   /\ g = None => GivenTransform(o) = None
                   /\ g # None => GivenTransform(o) = Some(ScaledForOverview(g[1], factor))
<1>0. \A x : Some(x) # None /\ Some(x)[1] = x
  BY DEF Some, None
<1>1. g # None => g = Some(g[1]) /\ IsExact(g[1])
  <2> DEFINE crs == [raster |-> CurrentRasterType(b)]
  <2>1. crs.raster = CurrentRasterType(b)
    OBVIOUS
  <2> HIDE DEF crs
  <2> QED BY <2>1, ModelReads
<1>2. CASE factor = 1
  <2>1. o = b
    BY <1>2 DEF WithOverviewGeoreferencing
  <2>2. g # None => ScaledForOverview(g[1], factor) = g[1]
    BY <1>1, <1>2, ScaledIsExact
  <2> HIDE DEF o, g
  <2>3. GivenTransform(o) = g
    BY <2>1 DEF g
  <2> QED BY <1>1, <2>1, <2>2, <2>3 DEF o, g
<1>3. CASE factor # 1 /\ b.matrix # None
  <2> DEFINE m == b.matrix[1]
  <2>1. b.matrix = Some(m) /\ m \in [1..16 -> Doubles] /\ AllFinite(m)
    BY <1>3 DEF IsBuilder, Holding, ValidGeoreferencing, ValidWithoutTiepoint
  <2>2. o = [NewBuilder EXCEPT !.geokeys = b.geokeys, !.matrix = Some(ScaledMatrix(m, factor))]
    BY <1>3 DEF WithOverviewGeoreferencing, SetMatrix
  <2>3. g = Some(FromTransformationMatrix(m))
    BY <1>3 DEF GivenTransform
  <2> HIDE DEF o, g, m
  <2>4. /\ IsBuilder(o) /\ o.geokeys = b.geokeys
        /\ GivenTransform(o) = Some(FromTransformationMatrix(ScaledMatrix(m, factor)))
    <3>1. ScaledMatrix(m, factor) \in [1..16 -> Doubles]
      BY <2>1, MatrixScales
    <3> QED BY <2>2, <3>1, WholeBuilder
  <2>5. FromTransformationMatrix(ScaledMatrix(m, factor)) = ScaledForOverview(g[1], factor)
    BY <1>0, <2>1, <2>3, MatrixScales
  <2> QED BY <1>0, <2>3, <2>4, <2>5 DEF o, g
<1>4. ASSUME NEW t, IsExact(t), IsNorthUp(t), g = Some(t), o = OverviewOf(b, t, factor)
      PROVE  Goal
  <2> DEFINE s == ScaledForOverview(t, factor)
  <2>1. s \in Transform /\ IsNorthUp(s)
    BY <1>4, ScaledIsExact, ExactIsTransform
  <2>2. o = [NewBuilder EXCEPT !.geokeys = b.geokeys, !.affine = Some(s)]
    BY <1>4 DEF OverviewOf
  <2> HIDE DEF o, g, s
  <2>3. IsBuilder(o) /\ o.geokeys = b.geokeys /\ GivenTransform(o) = Some(s)
    BY <2>1, <2>2, WholeBuilder
  <2> QED BY <1>0, <1>4, <2>3 DEF s
<1>5. CASE factor # 1 /\ b.matrix = None /\ b.affine # None
  <2> DEFINE t == b.affine[1]
  <2>1. b.affine = Some(t) /\ IsNorthUp(t)
    BY <1>5 DEF IsBuilder, Holding
  <2>2. g = Some(t)
    BY <1>5, <2>1 DEF GivenTransform
  <2>3. IsExact(t)
    BY <1>0, <1>1, <2>2
  <2>4. o = OverviewOf(b, t, factor)
    BY <1>5 DEF WithOverviewGeoreferencing
  <2> HIDE DEF o, g, t
  <2> QED BY <1>4, <2>1, <2>2, <2>3, <2>4 DEF o, g
<1>6. CASE factor # 1 /\ b.matrix = None /\ b.affine = None
           /\ b.tiepoint # None /\ b.scale # None
  <2> DEFINE at == b.tiepoint[1]
             size == b.scale[1]
             t == IF b.isOrigin
                  THEN FromOriginAndPixelSize(at[4], at[5], size[1], -size[2])
                  ELSE FromTiepointAndScale(at, size, CurrentRasterType(b))
  <2>1. g = Some(t)
    BY <1>6 DEF GivenTransform, FromOriginAndPixelSize
  <2>2. IsExact(t)
    BY <1>0, <1>1, <2>1
  <2>3. /\ size \in [1..3 -> Doubles] /\ AllFinite(size) /\ size[1] > 0 /\ size[2] > 0
    BY <1>6 DEF IsBuilder, Holding, ValidGeoreferencing, ValidWithoutTiepoint
  <2>4. IsNorthUp(t)
    <3>1. t.pixelWidth = size[1] /\ t.pixelHeight = -size[2] /\ t.skewX = 0 /\ t.skewY = 0
      BY AffineFields DEF FromOriginAndPixelSize, FromTiepointAndScale
    <3> HIDE DEF size, t
    <3>2. \A i \in 1..3 : size[i] \in Int
      BY <2>3, FiniteList
    <3>3. size[1] \in Int /\ size[2] \in Int /\ -size[2] \in Int /\ -size[2] < 0
      BY <2>3, <3>2
    <3>4. \A x \in Int : IsFinite(x)
      BY NotFiniteAssumption DEF IsFinite
    <3> QED BY <2>3, <3>1, <3>3, <3>4 DEF IsNorthUp
  <2>5. o = OverviewOf(b, t, factor)
    <3>1. o = OverviewFromParts(b, factor)
      BY <1>6 DEF WithOverviewGeoreferencing
    <3> HIDE DEF o
    <3> QED BY <3>1 DEF OverviewFromParts, OverviewFromTiepoint
  <2> HIDE DEF o, g, t
  <2> QED BY <1>4, <2>1, <2>2, <2>4, <2>5 DEF o, g
<1>7. CASE factor # 1 /\ b.matrix = None /\ b.affine = None
           /\ (b.tiepoint = None \/ b.scale = None)
  <2>1. b.scale = None
    BY <1>7 DEF ValidGeoreferencing
  <2>2. o = b
    BY <1>7, <2>1 DEF WithOverviewGeoreferencing
  <2>3. g = None
    BY <1>7, <2>1 DEF GivenTransform
  <2> HIDE DEF o, g
  <2>4. GivenTransform(o) = g
    BY <2>2 DEF g
  <2> QED BY <2>2, <2>3, <2>4 DEF o, g
<1> QED BY <1>2, <1>3, <1>5, <1>6, <1>7

----------------------------------------------------------------------------
(***************************************************************************)
(* The setters.                                                            *)
(***************************************************************************)
SameModel(b, c) ==
  /\ c.scale = b.scale /\ c.tiepoint = b.tiepoint /\ c.isOrigin = b.isOrigin
  /\ c.affine = b.affine /\ c.matrix = b.matrix

\* The transform a builder was given as a whole.
Whole(b) ==
  IF b.matrix # None THEN Some(FromTransformationMatrix(b.matrix[1])) ELSE b.affine

WithKeys(b, keys) == [b EXCEPT !.geokeys.keys = keys]

LEMMA KeysReplaced ==
  ASSUME NEW b, IsBuilder(b), NEW keys, IsKeys(keys), NEW c, c = WithKeys(b, keys)
  PROVE  IsBuilder(c) /\ SameModel(b, c) /\ c.geokeys.keys = keys
<1>1. Shaped(b) /\ b.geokeys = [minor |-> 1, keys |-> b.geokeys.keys]
  BY DEF IsBuilder, Shaped
<1>2. /\ Shaped(c) /\ c.geokeys = [b.geokeys EXCEPT !.keys = keys] /\ SameModel(b, c)
  BY <1>1 DEF WithKeys, Shaped, SameModel
<1>3. c.geokeys = [minor |-> 1, keys |-> keys] /\ c.geokeys.keys = keys
  BY <1>1, <1>2
<1> QED BY <1>2, <1>3 DEF IsBuilder, Shaped, SameModel

LEMMA PartsSet ==
  ASSUME NEW b, IsBuilder(b), NEW c
  PROVE  /\ \A x : c = SetScale(b, x) =>
              /\ Shaped(c) /\ c.geokeys = b.geokeys /\ c.tiepoint = b.tiepoint
              /\ c.scale = Some(<<x[1], x[2], 0>>)
              /\ c.isOrigin = b.isOrigin /\ c.affine = None /\ c.matrix = None
         /\ \A x : c = SetOrigin(b, x) =>
              /\ Shaped(c) /\ c.geokeys = b.geokeys /\ c.scale = b.scale
              /\ c.tiepoint = Some(<<0, 0, 0, x[1], x[2], 0>>)
              /\ c.isOrigin /\ c.isOrigin \in BOOLEAN /\ c.affine = None /\ c.matrix = None
         /\ \A x : c = SetTiepoint(b, x) =>
              /\ Shaped(c) /\ c.geokeys = b.geokeys /\ c.scale = b.scale
              /\ c.tiepoint = Some(x)
              /\ ~c.isOrigin /\ c.isOrigin \in BOOLEAN /\ c.affine = None /\ c.matrix = None
<1>0. b = [field \in BuilderFields |-> b[field]]
  BY ShapedIs DEF IsBuilder, Shaped
<1>1. ASSUME NEW x, c = SetScale(b, x)
      PROVE  /\ Shaped(c) /\ c.geokeys = b.geokeys /\ c.tiepoint = b.tiepoint
             /\ c.scale = Some(<<x[1], x[2], 0>>)
             /\ c.isOrigin = b.isOrigin /\ c.affine = None /\ c.matrix = None
  <2> DEFINE s == Some(<<x[1], x[2], 0>>)
             n == None
  <2>1. c = [b EXCEPT !.scale = s, !.affine = n, !.matrix = n]
    BY <1>1 DEF SetScale
  <2> HIDE DEF s, n
  <2>2. /\ c = [field \in BuilderFields |-> c[field]]
        /\ c.geokeys = b.geokeys /\ c.tiepoint = b.tiepoint /\ c.scale = s
        /\ c.isOrigin = b.isOrigin /\ c.affine = n /\ c.matrix = n
    BY <1>0, <2>1 DEF BuilderFields
  <2> QED BY <2>2, ShapedIs DEF s, n
<1>2. ASSUME NEW x, c = SetOrigin(b, x)
      PROVE  /\ Shaped(c) /\ c.geokeys = b.geokeys /\ c.scale = b.scale
             /\ c.tiepoint = Some(<<0, 0, 0, x[1], x[2], 0>>)
             /\ c.isOrigin /\ c.isOrigin \in BOOLEAN /\ c.affine = None /\ c.matrix = None
  <2> DEFINE s == Some(<<0, 0, 0, x[1], x[2], 0>>)
             n == None
             yes == TRUE
  <2>1. c = [b EXCEPT !.tiepoint = s, !.isOrigin = yes, !.affine = n, !.matrix = n]
    BY <1>2 DEF SetOrigin
  <2>2. yes \in BOOLEAN /\ yes
    OBVIOUS
  <2> HIDE DEF s, n, yes
  <2>3. /\ c = [field \in BuilderFields |-> c[field]]
        /\ c.geokeys = b.geokeys /\ c.scale = b.scale /\ c.tiepoint = s
        /\ c.isOrigin = yes /\ c.affine = n /\ c.matrix = n
    BY <1>0, <2>1 DEF BuilderFields
  <2> QED BY <2>2, <2>3, ShapedIs DEF s, n
<1>3. ASSUME NEW x, c = SetTiepoint(b, x)
      PROVE  /\ Shaped(c) /\ c.geokeys = b.geokeys /\ c.scale = b.scale
             /\ c.tiepoint = Some(x)
             /\ ~c.isOrigin /\ c.isOrigin \in BOOLEAN /\ c.affine = None /\ c.matrix = None
  <2> DEFINE s == Some(x)
             n == None
             no == FALSE
  <2>1. c = [b EXCEPT !.tiepoint = s, !.isOrigin = no, !.affine = n, !.matrix = n]
    BY <1>3 DEF SetTiepoint
  <2>2. no \in BOOLEAN /\ ~no
    OBVIOUS
  <2> HIDE DEF s, n, no
  <2>3. /\ c = [field \in BuilderFields |-> c[field]]
        /\ c.geokeys = b.geokeys /\ c.scale = b.scale /\ c.tiepoint = s
        /\ c.isOrigin = no /\ c.affine = n /\ c.matrix = n
    BY <1>0, <2>1 DEF BuilderFields
  <2> QED BY <2>2, <2>3, ShapedIs DEF s, n
<1> QED BY <1>1, <1>2, <1>3

\* The setters of a part undo a transform given as a whole.
LEMMA PartsKeep ==
  ASSUME NEW b, IsBuilder(b), NEW c
  PROVE  /\ \A x \in Doubles \X Doubles : c = SetScale(b, x) =>
              IsBuilder(c) /\ c.geokeys = b.geokeys /\ Whole(c) = None
         /\ \A x \in Doubles \X Doubles : c = SetOrigin(b, x) =>
              IsBuilder(c) /\ c.geokeys = b.geokeys /\ Whole(c) = None
         /\ \A x \in [1..6 -> Doubles] : c = SetTiepoint(b, x) =>
              IsBuilder(c) /\ c.geokeys = b.geokeys /\ Whole(c) = None
<1>0. \A x : Some(x) # None /\ Some(x)[1] = x
  BY DEF Some, None
<1>a. 0 \in Doubles
  BY DEF Doubles
<1>b. b.isOrigin \in BOOLEAN /\ Holding(b.scale, [1..3 -> Doubles])
      /\ Holding(b.tiepoint, [1..6 -> Doubles])
      /\ b.geokeys = [minor |-> 1, keys |-> b.geokeys.keys] /\ IsKeys(b.geokeys.keys)
  BY DEF IsBuilder
<1>1. ASSUME NEW x \in Doubles \X Doubles, c = SetScale(b, x)
      PROVE  IsBuilder(c) /\ c.geokeys = b.geokeys /\ Whole(c) = None
  <2> DEFINE s == <<x[1], x[2], 0>>
  <2>1. s \in [1..3 -> Doubles]
    BY <1>a
  <2>2. /\ Shaped(c) /\ c.geokeys = b.geokeys /\ c.tiepoint = b.tiepoint /\ c.scale = Some(s)
        /\ c.isOrigin = b.isOrigin /\ c.affine = None /\ c.matrix = None
    BY <1>1, PartsSet
  <2> HIDE DEF s
  <2>3. Holding(c.scale, [1..3 -> Doubles])
    BY <1>0, <2>1, <2>2 DEF Holding
  <2> QED BY <1>b, <2>2, <2>3 DEF IsBuilder, Shaped, Whole, Holding
<1>2. ASSUME NEW x \in Doubles \X Doubles, c = SetOrigin(b, x)
      PROVE  IsBuilder(c) /\ c.geokeys = b.geokeys /\ Whole(c) = None
  <2> DEFINE s == <<0, 0, 0, x[1], x[2], 0>>
  <2>1. s \in [1..6 -> Doubles]
    BY <1>a
  <2>2. /\ Shaped(c) /\ c.geokeys = b.geokeys /\ c.scale = b.scale /\ c.tiepoint = Some(s)
        /\ c.isOrigin \in BOOLEAN /\ c.affine = None /\ c.matrix = None
    BY <1>2, PartsSet
  <2> HIDE DEF s
  <2>3. Holding(c.tiepoint, [1..6 -> Doubles])
    BY <1>0, <2>1, <2>2 DEF Holding
  <2> QED BY <1>b, <2>2, <2>3 DEF IsBuilder, Shaped, Whole, Holding
<1>3. ASSUME NEW x \in [1..6 -> Doubles], c = SetTiepoint(b, x)
      PROVE  IsBuilder(c) /\ c.geokeys = b.geokeys /\ Whole(c) = None
  <2>1. /\ Shaped(c) /\ c.geokeys = b.geokeys /\ c.scale = b.scale /\ c.tiepoint = Some(x)
        /\ c.isOrigin \in BOOLEAN /\ c.affine = None /\ c.matrix = None
    BY <1>3, PartsSet
  <2>2. Holding(c.tiepoint, [1..6 -> Doubles])
    BY <1>0, <2>1 DEF Holding
  <2> QED BY <1>b, <2>1, <2>2 DEF IsBuilder, Shaped, Whole, Holding
<1> QED BY <1>1, <1>2, <1>3

LEMMA MatrixOfTransform ==
  ASSUME NEW t \in Transform
  PROVE  /\ ToTransformationMatrix(t) \in [1..16 -> Doubles]
         /\ FromTransformationMatrix(ToTransformationMatrix(t)) = t
<1> DEFINE m == ToTransformationMatrix(t)
<1>1. /\ t.originX \in Doubles /\ t.pixelWidth \in Doubles /\ t.skewX \in Doubles
      /\ t.originY \in Doubles /\ t.skewY \in Doubles /\ t.pixelHeight \in Doubles
  BY DEF Transform
<1>2. 0 \in Doubles /\ 1 \in Doubles
  BY DEF Doubles
<1>3. m \in [1..16 -> Doubles]
  BY <1>1, <1>2 DEF ToTransformationMatrix
<1>4. m[4] = t.originX /\ m[1] = t.pixelWidth /\ m[2] = t.skewX
      /\ m[8] = t.originY /\ m[5] = t.skewY /\ m[6] = t.pixelHeight
  BY DEF ToTransformationMatrix
<1> HIDE DEF m
<1>5. FromTransformationMatrix(m)
        = Affine(t.originX, t.pixelWidth, t.skewX, t.originY, t.skewY, t.pixelHeight)
  BY <1>4 DEF FromTransformationMatrix
<1> QED BY <1>3, <1>5, TransformShape DEF m

LEMMA WholesKeep ==
  ASSUME NEW b, IsBuilder(b), NEW c
  PROVE  /\ \A t \in Transform : c = SetTransform(b, t) =>
              /\ IsBuilder(c) /\ c.geokeys = b.geokeys /\ Whole(c) = Some(t)
              /\ c.scale = None /\ c.tiepoint = None
         /\ \A m \in [1..16 -> Doubles] : c = SetMatrix(b, m) =>
              /\ IsBuilder(c) /\ c.geokeys = b.geokeys
              /\ Whole(c) = Some(FromTransformationMatrix(m))
              /\ c.scale = None /\ c.tiepoint = None
<1>0. \A x : Some(x) # None /\ Some(x)[1] = x
  BY DEF Some, None
<1>1. ASSUME NEW m \in [1..16 -> Doubles], c = SetMatrix(b, m)
      PROVE  /\ IsBuilder(c) /\ c.geokeys = b.geokeys
             /\ Whole(c) = Some(FromTransformationMatrix(m))
             /\ c.scale = None /\ c.tiepoint = None
  <2>1. /\ IsBuilder(c) /\ c.geokeys = b.geokeys /\ c.matrix = Some(m)
        /\ c.scale = None /\ c.tiepoint = None
    BY <1>1, WholeBuilder DEF SetMatrix
  <2> QED BY <1>0, <2>1 DEF Whole
<1>2. ASSUME NEW t \in Transform, c = SetTransform(b, t)
      PROVE  /\ IsBuilder(c) /\ c.geokeys = b.geokeys /\ Whole(c) = Some(t)
             /\ c.scale = None /\ c.tiepoint = None
  <2>1. CASE IsNorthUp(t)
    <3>1. /\ IsBuilder(c) /\ c.geokeys = b.geokeys /\ c.matrix = None /\ c.affine = Some(t)
          /\ c.scale = None /\ c.tiepoint = None
      BY <1>2, <2>1, WholeBuilder DEF SetTransform
    <3> QED BY <3>1 DEF Whole
  <2>2. CASE ~IsNorthUp(t)
    <3>1. c = SetMatrix(b, ToTransformationMatrix(t))
      BY <1>2, <2>2 DEF SetTransform
    <3>2. /\ IsBuilder(c) /\ c.geokeys = b.geokeys
          /\ Whole(c) = Some(FromTransformationMatrix(ToTransformationMatrix(t)))
          /\ c.scale = None /\ c.tiepoint = None
      <4> DEFINE m == ToTransformationMatrix(t)
      <4>1. m \in [1..16 -> Doubles]
        BY MatrixOfTransform
      <4>2. c = SetMatrix(b, m)
        BY <3>1
      <4> HIDE DEF m
      <4>3. /\ IsBuilder(c) /\ c.geokeys = b.geokeys /\ c.matrix = Some(m)
            /\ c.scale = None /\ c.tiepoint = None
        BY <4>1, <4>2, WholeBuilder DEF SetMatrix
      <4> QED BY <1>0, <4>3 DEF Whole, m
    <3> QED BY <3>2, MatrixOfTransform
  <2> QED BY <2>1, <2>2
<1> QED BY <1>1, <1>2

Rekeyed(b, c) == IsBuilder(c) /\ SameModel(b, c)

LEMMA KeyChanged ==
  ASSUME NEW b, IsBuilder(b), NEW id \in Nat
  PROVE  /\ \A value \in KeyValue : LET c == WithKey(b, id, value) IN
              Rekeyed(b, c) /\ c.geokeys.keys = SetKey(b.geokeys.keys, id, value)
         /\ LET c == WithoutKey(b, id) IN
              Rekeyed(b, c) /\ c.geokeys.keys = RemoveKey(b.geokeys.keys, id)
<1>0. IsKeys(b.geokeys.keys)
  BY DEF IsBuilder
<1>1. ASSUME NEW value \in KeyValue
      PROVE  LET c == WithKey(b, id, value) IN
             Rekeyed(b, c) /\ c.geokeys.keys = SetKey(b.geokeys.keys, id, value)
  <2> DEFINE c == WithKey(b, id, value)
             keys == SetKey(b.geokeys.keys, id, value)
  <2>1. c = WithKeys(b, keys)
    BY DEF WithKey, WithKeys
  <2>2. IsKeys(keys)
    BY <1>0, KeySet
  <2> HIDE DEF c, keys
  <2> QED BY <2>1, <2>2, KeysReplaced DEF Rekeyed, c, keys
<1>2. LET c == WithoutKey(b, id) IN
      Rekeyed(b, c) /\ c.geokeys.keys = RemoveKey(b.geokeys.keys, id)
  <2> DEFINE c == WithoutKey(b, id)
             keys == RemoveKey(b.geokeys.keys, id)
  <2>1. c = WithKeys(b, keys)
    BY DEF WithoutKey, WithKeys
  <2>2. IsKeys(keys)
    BY <1>0, KeyRemoved
  <2> HIDE DEF c, keys
  <2> QED BY <2>1, <2>2, KeysReplaced DEF Rekeyed, c, keys
<1> QED BY <1>1, <1>2

LEMMA RekeyedAgain ==
  ASSUME NEW b, NEW c, NEW d, Rekeyed(b, c), Rekeyed(c, d)
  PROVE  Rekeyed(b, d)
BY DEF Rekeyed, SameModel

LEMMA EpsgKeys ==
  ASSUME NEW keys, NEW code, NEW model,
         NEW id \in {ProjectedCrsType, GeodeticCrsType},
         NEW absent \in {ProjectedCrsType, GeodeticCrsType}, absent # id
  PROVE  /\ SaysEpsg(RemoveKey(SetKey(SetKey(keys, GtModelType, model), id, Short(code)),
                               absent), code)
         /\ SaysEpsg(SetKey(RemoveKey(SetKey(keys, GtModelType, model), absent),
                            id, Short(code)), code)
<1> DEFINE a == SetKey(keys, GtModelType, model)
           value == Short(code)
<1>1. {ProjectedCrsType, GeodeticCrsType} = {id, absent} /\ id # absent
  BY DEF ProjectedCrsType, GeodeticCrsType
<1> HIDE DEF a, value
<1>2. LET k == RemoveKey(SetKey(a, id, value), absent) IN
      id \in DOMAIN k /\ k[id] = value /\ {id, absent} \cap DOMAIN k = {id}
  BY <1>1 DEF RemoveKey, SetKey
<1>3. LET k == SetKey(RemoveKey(a, absent), id, value) IN
      id \in DOMAIN k /\ k[id] = value /\ {id, absent} \cap DOMAIN k = {id}
  BY <1>1 DEF RemoveKey, SetKey
<1> QED BY <1>1, <1>2, <1>3 DEF SaysEpsg, a, value

LEMMA KeyIds ==
  /\ GtModelType \in Nat /\ GtRasterType \in Nat /\ ProjectedCrsType \in Nat
  /\ GeodeticCrsType \in Nat /\ VerticalCsType \in Nat /\ VerticalDatum \in Nat
  /\ VerticalUnits \in Nat /\ VerticalCitation \in Nat
  /\ {GtModelType, GtRasterType, VerticalCsType, VerticalDatum, VerticalUnits,
      VerticalCitation} \cap {ProjectedCrsType, GeodeticCrsType} = {}
  /\ ProjectedCrsType # GeodeticCrsType
BY DEF GtModelType, GtRasterType, ProjectedCrsType, GeodeticCrsType, VerticalCsType,
       VerticalDatum, VerticalUnits, VerticalCitation

LEMMA EpsgSet ==
  ASSUME NEW b, IsBuilder(b), NEW code \in Nat
  PROVE  /\ Rekeyed(b, SetProjectedEpsg(b, code))
         /\ SaysEpsg(SetProjectedEpsg(b, code).geokeys.keys, code)
         /\ \A model \in Nat :
              /\ Rekeyed(b, SetGeodeticEpsg(b, model, code))
              /\ SaysEpsg(SetGeodeticEpsg(b, model, code).geokeys.keys, code)
         /\ Rekeyed(b, SetEpsg(b, code))
         /\ SaysEpsg(SetEpsg(b, code).geokeys.keys, code)
<1>1. /\ Rekeyed(b, SetProjectedEpsg(b, code))
      /\ SaysEpsg(SetProjectedEpsg(b, code).geokeys.keys, code)
  <2> DEFINE c == WithKey(b, GtModelType, Short(Projected))
             d == WithKey(c, ProjectedCrsType, Short(code))
             e == WithoutKey(d, GeodeticCrsType)
  <2>0. Short(Projected) \in KeyValue /\ Short(code) \in KeyValue
    BY ValueTypes DEF Projected
  <2>1. Rekeyed(b, c) /\ c.geokeys.keys = SetKey(b.geokeys.keys, GtModelType, Short(Projected))
    BY <2>0, KeyIds, KeyChanged
  <2>e. SetProjectedEpsg(b, code) = e
    BY DEF SetProjectedEpsg
  <2> HIDE DEF c
  <2>2. Rekeyed(c, d) /\ d.geokeys.keys = SetKey(c.geokeys.keys, ProjectedCrsType, Short(code))
    <3>1. IsBuilder(c)
      BY <2>1 DEF Rekeyed
    <3> QED BY <2>0, <3>1, KeyIds, KeyChanged
  <2> HIDE DEF d
  <2>3. Rekeyed(d, e) /\ e.geokeys.keys = RemoveKey(d.geokeys.keys, GeodeticCrsType)
    <3>1. IsBuilder(d)
      BY <2>2 DEF Rekeyed
    <3> QED BY <3>1, KeyIds, KeyChanged
  <2> HIDE DEF e
  <2>4. Rekeyed(b, e)
    BY <2>1, <2>2, <2>3, RekeyedAgain
  <2>5. SaysEpsg(e.geokeys.keys, code)
    <3>1. /\ ProjectedCrsType \in {ProjectedCrsType, GeodeticCrsType}
          /\ GeodeticCrsType \in {ProjectedCrsType, GeodeticCrsType}
          /\ ProjectedCrsType # GeodeticCrsType
      BY KeyIds
    <3> QED BY <2>1, <2>2, <2>3, <3>1, EpsgKeys
  <2> QED BY <2>e, <2>4, <2>5
<1>2. ASSUME NEW model \in Nat
      PROVE  /\ Rekeyed(b, SetGeodeticEpsg(b, model, code))
             /\ SaysEpsg(SetGeodeticEpsg(b, model, code).geokeys.keys, code)
  <2> DEFINE c == WithKey(b, GtModelType, Short(model))
             d == WithoutKey(c, ProjectedCrsType)
             e == WithKey(d, GeodeticCrsType, Short(code))
  <2>0. Short(model) \in KeyValue /\ Short(code) \in KeyValue
    BY ValueTypes
  <2>1. Rekeyed(b, c) /\ c.geokeys.keys = SetKey(b.geokeys.keys, GtModelType, Short(model))
    BY <2>0, KeyIds, KeyChanged
  <2>e. SetGeodeticEpsg(b, model, code) = e
    BY DEF SetGeodeticEpsg
  <2> HIDE DEF c
  <2>2. Rekeyed(c, d) /\ d.geokeys.keys = RemoveKey(c.geokeys.keys, ProjectedCrsType)
    <3>1. IsBuilder(c)
      BY <2>1 DEF Rekeyed
    <3> QED BY <3>1, KeyIds, KeyChanged
  <2> HIDE DEF d
  <2>3. Rekeyed(d, e) /\ e.geokeys.keys = SetKey(d.geokeys.keys, GeodeticCrsType, Short(code))
    <3>1. IsBuilder(d)
      BY <2>2 DEF Rekeyed
    <3> QED BY <2>0, <3>1, KeyIds, KeyChanged
  <2> HIDE DEF e
  <2>4. Rekeyed(b, e)
    BY <2>1, <2>2, <2>3, RekeyedAgain
  <2>5. SaysEpsg(e.geokeys.keys, code)
    <3> DEFINE keys == b.geokeys.keys
               m == Short(model)
    <3>1. /\ ProjectedCrsType \in {ProjectedCrsType, GeodeticCrsType}
          /\ GeodeticCrsType \in {ProjectedCrsType, GeodeticCrsType}
          /\ ProjectedCrsType # GeodeticCrsType
      BY KeyIds
    <3>2. e.geokeys.keys = SetKey(RemoveKey(SetKey(keys, GtModelType, m), ProjectedCrsType),
                                  GeodeticCrsType, Short(code))
      BY <2>1, <2>2, <2>3
    <3> HIDE DEF keys, m
    <3>3. SaysEpsg(SetKey(RemoveKey(SetKey(keys, GtModelType, m), ProjectedCrsType),
                          GeodeticCrsType, Short(code)), code)
      BY <3>1, EpsgKeys
    <3> QED BY <3>2, <3>3
  <2> QED BY <2>e, <2>4, <2>5
<1>3. \/ SetEpsg(b, code) = SetProjectedEpsg(b, code)
      \/ SetEpsg(b, code) = SetGeodeticEpsg(b, Geographic, code)
      \/ SetEpsg(b, code) = SetGeodeticEpsg(b, Geocentric, code)
  <2> DEFINE guessed == IF code = 4978 THEN Geocentric
                        ELSE IF code \in 4000..4999 THEN Geographic ELSE Projected
             model == OrElse(GetShort(b.geokeys.keys, GtModelType), guessed)
             projected == SetProjectedEpsg(b, code)
             geographic == SetGeodeticEpsg(b, Geographic, code)
             geocentric == SetGeodeticEpsg(b, Geocentric, code)
             set == SetEpsg(b, code)
  <2>1. set = IF model = Projected THEN projected
              ELSE IF model = Geographic THEN geographic ELSE geocentric
    BY DEF SetEpsg
  <2> HIDE DEF guessed, model, projected, geographic, geocentric, set
  <2>2. set = projected \/ set = geographic \/ set = geocentric
    BY <2>1
  <2> QED BY <2>2 DEF set, projected, geographic, geocentric
<1>4. Geographic \in Nat /\ Geocentric \in Nat
  BY DEF Geographic, Geocentric
<1> DEFINE c == SetEpsg(b, code)
<1>5. Rekeyed(b, c) /\ SaysEpsg(c.geokeys.keys, code)
  <2>1. CASE c = SetProjectedEpsg(b, code)
    BY <1>1, <2>1
  <2>2. CASE c = SetGeodeticEpsg(b, Geographic, code)
    BY <1>2, <1>4, <2>2
  <2>3. CASE c = SetGeodeticEpsg(b, Geocentric, code)
    BY <1>2, <1>4, <2>3
  <2> QED BY <1>3, <2>1, <2>2, <2>3
<1> HIDE DEF c
<1> QED BY <1>1, <1>2, <1>5 DEF c

LEMMA CrsSet ==
  ASSUME NEW b, IsBuilder(b), NEW crs \in CrsInfo
  PROVE  Rekeyed(b, SetCrs(b, crs)) /\ SaysCrs(SetCrs(b, crs).geokeys.keys, crs)
<1> DEFINE c == SetCrs(b, crs)
           keys == ApplyToGeoKeys(crs, b.geokeys.keys)
<1>1. c = WithKeys(b, keys)
  BY DEF SetCrs, WithKeys
<1>2. IsKeys(keys) /\ SaysCrs(keys, crs)
  BY CrsApplied DEF IsBuilder
<1> HIDE DEF c, keys
<1> QED BY <1>1, <1>2, KeysReplaced DEF Rekeyed, c

\* The other keys leave the EPSG code alone.
LEMMA EpsgStays ==
  ASSUME NEW keys, NEW code, SaysEpsg(keys, code), NEW value,
         NEW id, id \notin {ProjectedCrsType, GeodeticCrsType}
  PROVE  SaysEpsg(SetKey(keys, id, value), code)
<1> DEFINE k == SetKey(keys, id, value)
           types == {ProjectedCrsType, GeodeticCrsType}
<1>1. /\ DOMAIN k = DOMAIN keys \cup {id}
      /\ \A other \in DOMAIN keys : other # id => k[other] = keys[other]
  BY DEF SetKey
<1>2. PICK type \in types : type \in DOMAIN keys /\ keys[type] = Short(code)
                            /\ types \cap DOMAIN keys = {type}
  BY DEF SaysEpsg
<1> HIDE DEF k
<1>3. type \in DOMAIN k /\ k[type] = Short(code) /\ types \cap DOMAIN k = {type}
  BY <1>1, <1>2
<1> QED BY <1>3 DEF SaysEpsg, k

----------------------------------------------------------------------------
(***************************************************************************)
(* The inductive invariant: the builder is what its calls made of it, the    *)
(* tags are those of the builder, and what was opened is what the tags say.   *)
(***************************************************************************)
Latest(list, names, from) ==
  Max({0} \cup {i \in DOMAIN list : i > from /\ list[i].set \in names})
LastIn(list, i, names) == \A j \in DOMAIN list : j > i => list[j].set \notin names

SetsPlace == {"origin", "tiepoint"}
LastWhole(list) == Latest(list, SetsWhole, 0)
LastScale(list) == Latest(list, {"pixel_scale"}, LastWhole(list))
LastPlace(list) == Latest(list, SetsPlace, LastWhole(list))

\* What the calls gave as a whole: they are not undone by a part.
WholeKept(b, list) ==
  LET whole == LastWhole(list)
      to == list[whole].to
  IN /\ whole \in 0 .. Len(list)
     /\ Whole(b) = IF LastScale(list) # 0 \/ LastPlace(list) # 0 \/ whole = 0 THEN None
                   ELSE IF list[whole].set = "transform" THEN Some(to)
                   ELSE Some(FromTransformationMatrix(to))

ScaleKept(b, list) ==
  LET scale == LastScale(list)
      to == list[scale].to
  IN /\ scale \in 0 .. Len(list)
     /\ b.scale = IF scale = 0 THEN None ELSE Some(<<to[1], to[2], 0>>)

PlaceKept(b, list) ==
  LET place == LastPlace(list)
      to == list[place].to
  IN /\ place \in 0 .. Len(list)
     /\ place = 0 => b.tiepoint = None
     /\ place # 0 /\ list[place].set = "origin" =>
          b.isOrigin /\ b.tiepoint = Some(<<0, 0, 0, to[1], to[2], 0>>)
     /\ place # 0 /\ list[place].set # "origin" => ~b.isOrigin /\ b.tiepoint = Some(to)

CrsKept(b, list) ==
  \A i \in DOMAIN list : list[i].set = "crs" =>
    /\ list[i].to \in CrsInfo
    /\ LastIn(list, i, SetsAnyKey) => SaysCrs(b.geokeys.keys, list[i].to)

EpsgKept(b, list) ==
  \A i \in DOMAIN list : list[i].set \in SetsEpsg /\ LastIn(list, i, SetsCrsKeys) =>
    SaysEpsg(b.geokeys.keys, list[i].to)

\* The builder is what the calls made of it.
Kept(b, list) ==
  /\ WholeKept(b, list) /\ ScaleKept(b, list) /\ PlaceKept(b, list)
  /\ CrsKept(b, list) /\ EpsgKept(b, list)

IsWritten ==
  LET reduced == WithOverviewGeoreferencing(builder, overview.level) IN
  /\ overview.level \in Levels \cup {1}
  /\ BuildsTags(builder) /\ BuildsTags(reduced)
  /\ tags = ExtraTags(builder) /\ overview.tags = ExtraTags(reduced)

GeoInv ==
  /\ Len(calls) \in Nat /\ calls = [i \in 1 .. Len(calls) |-> calls[i]]
  /\ IsBuilder(builder) /\ Kept(builder, calls)
  /\ phase \in {"written", "opened"} => IsWritten
  /\ phase = "opened" =>
       opened = IF Refused(tags) = "no" THEN Opened(tags) ELSE [status |-> Refused(tags)]

\* Appending a call.
IsLonger(list, more, call) ==
  /\ Len(list) \in Nat /\ DOMAIN list = 1..Len(list)
  /\ Len(more) = Len(list) + 1 /\ DOMAIN more = 1..Len(more)
  /\ more = [i \in 1..Len(more) |-> more[i]]
  /\ more[Len(more)] = call /\ \A i \in DOMAIN list : more[i] = list[i]

LEMMA AppendIsLonger ==
  ASSUME NEW list, Len(list) \in Nat, list = [i \in 1..Len(list) |-> list[i]], NEW call
  PROVE  IsLonger(list, Append(list, call), call)
<1> DEFINE n == Len(list)
           S == {list[i] : i \in 1..n} \cup {call}
           more == Append(list, call)
<1>1. list \in Seq(S)
  <2>1. \A i \in 1..n : list[i] \in S
    OBVIOUS
  <2> HIDE DEF S
  <2>2. list \in [1..n -> S]
    BY <2>1
  <2> HIDE DEF n
  <2> QED BY <2>2 DEF n
<1>2. call \in S
  OBVIOUS
<1> HIDE DEF S
<1>3. more \in Seq(S) /\ Len(more) = n + 1 /\ more[n + 1] = call
      /\ \A i \in 1..n : more[i] = list[i]
  BY <1>1, <1>2
<1>4. DOMAIN list = 1..n
  BY <1>1
<1> HIDE DEF more
<1>5. DOMAIN more = 1..Len(more) /\ more = [i \in 1..Len(more) |-> more[i]]
  BY <1>3
<1> QED BY <1>3, <1>4, <1>5 DEF IsLonger, more

LEMMA LatestMoves ==
  ASSUME NEW list, NEW more, NEW call, IsLonger(list, more, call),
         NEW names, NEW from \in Nat
  PROVE  /\ call.set \in names /\ from <= Len(list) => Latest(more, names, from) = Len(more)
         /\ call.set \notin names => Latest(more, names, from) = Latest(list, names, from)
         /\ from = Len(more) => Latest(more, names, from) = 0
<1> DEFINE n == Len(list)
           Found(l) == {0} \cup {i \in DOMAIN l : i > from /\ l[i].set \in names}
<1>0. /\ n \in Nat /\ DOMAIN list = 1..n /\ Len(more) = n + 1 /\ DOMAIN more = 1..(n + 1)
      /\ more[n + 1] = call /\ \A i \in 1..n : more[i] = list[i]
  BY DEF IsLonger
<1>1. ASSUME call.set \in names, from <= n
      PROVE  Max(Found(more)) = n + 1
  <2>1. Found(more) \subseteq Int /\ n + 1 \in Found(more) /\ \A x \in Found(more) : x <= n + 1
    BY <1>0, <1>1
  <2> HIDE DEF Found, n
  <2> QED BY <2>1, MaxIs
<1>2. ASSUME call.set \notin names
      PROVE  Found(more) = Found(list)
  BY <1>0, <1>2
<1>3. ASSUME from = n + 1
      PROVE  Max(Found(more)) = 0
  <2>1. Found(more) = {0}
    BY <1>0, <1>3
  <2> HIDE DEF Found
  <2>2. {0} \subseteq Int /\ 0 \in {0} /\ \A x \in {0} : x <= 0
    OBVIOUS
  <2>3. Max({0}) = 0
    BY <2>2, MaxIs
  <2> QED BY <2>1, <2>3
<1>4. Latest(more, names, from) = Max(Found(more)) /\ Latest(list, names, from) = Max(Found(list))
  BY DEF Latest
<1> HIDE DEF Found
<1> QED BY <1>0, <1>1, <1>2, <1>3, <1>4

LEMMA LastsMove ==
  ASSUME NEW list, NEW more, NEW call, IsLonger(list, more, call),
         LastWhole(list) \in 0..Len(list)
  PROVE  /\ call.set \in SetsWhole =>
              /\ LastWhole(more) = Len(more) /\ LastScale(more) = 0 /\ LastPlace(more) = 0
         /\ call.set \notin SetsWhole =>
              /\ LastWhole(more) = LastWhole(list)
              /\ LastScale(more) = IF call.set = "pixel_scale" THEN Len(more)
                                   ELSE LastScale(list)
              /\ LastPlace(more) = IF call.set \in SetsPlace THEN Len(more)
                                   ELSE LastPlace(list)
<1>0. Len(list) \in Nat /\ Len(more) = Len(list) + 1
  BY DEF IsLonger
<1>1. 0 \in Nat /\ LastWhole(list) \in Nat /\ 0 <= Len(list) /\ LastWhole(list) <= Len(list)
      /\ Len(more) \in Nat
  BY <1>0
<1>2. /\ call.set \in SetsWhole => LastWhole(more) = Len(more)
      /\ call.set \notin SetsWhole => LastWhole(more) = LastWhole(list)
  BY <1>1, LatestMoves DEF LastWhole
<1>3. call.set \in SetsWhole => LastScale(more) = 0 /\ LastPlace(more) = 0
  BY <1>1, <1>2, LatestMoves DEF LastScale, LastPlace
<1>4. ASSUME call.set \notin SetsWhole
      PROVE  /\ LastScale(more) = IF call.set = "pixel_scale" THEN Len(more)
                                  ELSE LastScale(list)
             /\ LastPlace(more) = IF call.set \in SetsPlace THEN Len(more)
                                  ELSE LastPlace(list)
  <2> DEFINE whole == LastWhole(list)
  <2>1. /\ LastScale(more) = Latest(more, {"pixel_scale"}, whole)
        /\ LastScale(list) = Latest(list, {"pixel_scale"}, whole)
        /\ LastPlace(more) = Latest(more, SetsPlace, whole)
        /\ LastPlace(list) = Latest(list, SetsPlace, whole)
    BY <1>2, <1>4 DEF LastScale, LastPlace
  <2> HIDE DEF whole
  <2>2. whole \in Nat /\ whole <= Len(list)
    BY <1>1 DEF whole
  <2>3. call.set = "pixel_scale" <=> call.set \in {"pixel_scale"}
    OBVIOUS
  <2>4. /\ call.set \in {"pixel_scale"} => LastScale(more) = Len(more)
        /\ call.set \notin {"pixel_scale"} => LastScale(more) = LastScale(list)
    BY <2>1, <2>2, LatestMoves
  <2>5. /\ call.set \in SetsPlace => LastPlace(more) = Len(more)
        /\ call.set \notin SetsPlace => LastPlace(more) = LastPlace(list)
    BY <2>1, <2>2, LatestMoves
  <2> QED BY <2>3, <2>4, <2>5
<1> QED BY <1>2, <1>3, <1>4

ModelKept(b, list) == WholeKept(b, list) /\ ScaleKept(b, list) /\ PlaceKept(b, list)

LEMMA ModelStays ==
  ASSUME NEW list, NEW more, NEW call, IsLonger(list, more, call),
         NEW b, NEW c, SameModel(b, c), ModelKept(b, list),
         call.set \notin SetsWhole, call.set # "pixel_scale", call.set \notin SetsPlace
  PROVE  ModelKept(c, more)
<1>0. /\ Len(list) \in Nat /\ Len(more) = Len(list) + 1 /\ DOMAIN list = 1..Len(list)
      /\ \A i \in 1..Len(list) : more[i] = list[i]
  BY DEF IsLonger
<1>1. /\ LastWhole(list) \in 0..Len(list) /\ LastScale(list) \in 0..Len(list)
      /\ LastPlace(list) \in 0..Len(list)
  BY DEF ModelKept, WholeKept, ScaleKept, PlaceKept
<1>2. /\ LastWhole(more) = LastWhole(list) /\ LastScale(more) = LastScale(list)
      /\ LastPlace(more) = LastPlace(list)
  BY <1>1, LastsMove
<1>3. /\ LastWhole(list) # 0 => more[LastWhole(list)] = list[LastWhole(list)]
      /\ LastScale(list) # 0 => more[LastScale(list)] = list[LastScale(list)]
      /\ LastPlace(list) # 0 => more[LastPlace(list)] = list[LastPlace(list)]
  BY <1>0, <1>1
<1>4. /\ LastWhole(list) \in 0..Len(more) /\ LastScale(list) \in 0..Len(more)
      /\ LastPlace(list) \in 0..Len(more)
  BY <1>0, <1>1
<1>5. Whole(c) = Whole(b)
  BY DEF Whole, SameModel
<1>6. WholeKept(c, more)
  BY <1>2, <1>3, <1>4, <1>5 DEF ModelKept, WholeKept
<1>7. ScaleKept(c, more)
  BY <1>2, <1>3, <1>4 DEF ModelKept, ScaleKept, SameModel
<1>8. PlaceKept(c, more)
  BY <1>2, <1>3, <1>4 DEF ModelKept, PlaceKept, SameModel
<1> QED BY <1>6, <1>7, <1>8 DEF ModelKept

LEMMA WholeMoves ==
  ASSUME NEW list, NEW more, NEW call, IsLonger(list, more, call),
         NEW b, NEW c, ModelKept(b, list), c.scale = None, c.tiepoint = None,
         call.set \in SetsWhole,
         Whole(c) = IF call.set = "transform" THEN Some(call.to)
                    ELSE Some(FromTransformationMatrix(call.to))
  PROVE  ModelKept(c, more)
<1>0. Len(list) \in Nat /\ Len(more) = Len(list) + 1 /\ more[Len(more)] = call
  BY DEF IsLonger
<1>1. LastWhole(list) \in 0..Len(list)
  BY DEF ModelKept, WholeKept
<1>2. LastWhole(more) = Len(more) /\ LastScale(more) = 0 /\ LastPlace(more) = 0
  BY <1>1, LastsMove
<1>3. Len(more) # 0 /\ Len(more) \in 0..Len(more) /\ 0 \in 0..Len(more)
  BY <1>0
<1>4. WholeKept(c, more)
  BY <1>0, <1>2, <1>3 DEF WholeKept
<1>5. ScaleKept(c, more)
  BY <1>2, <1>3 DEF ScaleKept
<1>6. PlaceKept(c, more)
  BY <1>2, <1>3 DEF PlaceKept
<1> QED BY <1>4, <1>5, <1>6 DEF ModelKept

LEMMA ScaleMoves ==
  ASSUME NEW list, NEW more, NEW call, IsLonger(list, more, call), call.set = "pixel_scale",
         NEW b, NEW c, ModelKept(b, list), Whole(c) = None,
         c.scale = Some(<<call.to[1], call.to[2], 0>>),
         c.tiepoint = b.tiepoint, c.isOrigin = b.isOrigin
  PROVE  ModelKept(c, more)
<1>0. /\ Len(list) \in Nat /\ Len(more) = Len(list) + 1 /\ DOMAIN list = 1..Len(list)
      /\ more[Len(more)] = call /\ \A i \in 1..Len(list) : more[i] = list[i]
  BY DEF IsLonger
<1>1. LastWhole(list) \in 0..Len(list) /\ LastPlace(list) \in 0..Len(list)
  BY DEF ModelKept, WholeKept, PlaceKept
<1>2. call.set \notin SetsWhole /\ call.set \notin SetsPlace
  BY DEF SetsWhole, SetsPlace
<1>3. /\ LastWhole(more) = LastWhole(list) /\ LastScale(more) = Len(more)
      /\ LastPlace(more) = LastPlace(list)
  BY <1>1, <1>2, LastsMove
<1>4. /\ LastPlace(list) # 0 => more[LastPlace(list)] = list[LastPlace(list)]
      /\ LastWhole(list) \in 0..Len(more) /\ LastPlace(list) \in 0..Len(more)
      /\ Len(more) \in 0..Len(more) /\ Len(more) # 0
  BY <1>0, <1>1
<1>5. WholeKept(c, more)
  BY <1>3, <1>4 DEF WholeKept
<1>6. ScaleKept(c, more)
  BY <1>0, <1>3, <1>4 DEF ScaleKept
<1>7. PlaceKept(c, more)
  BY <1>3, <1>4 DEF ModelKept, PlaceKept
<1> QED BY <1>5, <1>6, <1>7 DEF ModelKept

LEMMA PlaceMoves ==
  ASSUME NEW list, NEW more, NEW call, IsLonger(list, more, call), call.set \in SetsPlace,
         NEW b, NEW c, ModelKept(b, list), Whole(c) = None, c.scale = b.scale,
         call.set = "origin" =>
           c.isOrigin /\ c.tiepoint = Some(<<0, 0, 0, call.to[1], call.to[2], 0>>),
         call.set # "origin" => ~c.isOrigin /\ c.tiepoint = Some(call.to)
  PROVE  ModelKept(c, more)
<1>0. /\ Len(list) \in Nat /\ Len(more) = Len(list) + 1 /\ DOMAIN list = 1..Len(list)
      /\ more[Len(more)] = call /\ \A i \in 1..Len(list) : more[i] = list[i]
  BY DEF IsLonger
<1>1. LastWhole(list) \in 0..Len(list) /\ LastScale(list) \in 0..Len(list)
  BY DEF ModelKept, WholeKept, ScaleKept
<1>2. call.set \notin SetsWhole /\ call.set # "pixel_scale"
  BY DEF SetsWhole, SetsPlace
<1>3. /\ LastWhole(more) = LastWhole(list) /\ LastScale(more) = LastScale(list)
      /\ LastPlace(more) = Len(more)
  BY <1>1, <1>2, LastsMove
<1>4. /\ LastScale(list) # 0 => more[LastScale(list)] = list[LastScale(list)]
      /\ LastWhole(list) \in 0..Len(more) /\ LastScale(list) \in 0..Len(more)
      /\ Len(more) \in 0..Len(more) /\ Len(more) # 0
  BY <1>0, <1>1
<1>5. WholeKept(c, more)
  BY <1>3, <1>4 DEF WholeKept
<1>6. ScaleKept(c, more)
  BY <1>3, <1>4 DEF ModelKept, ScaleKept
<1>7. PlaceKept(c, more)
  BY <1>0, <1>3, <1>4 DEF PlaceKept
<1> QED BY <1>5, <1>6, <1>7 DEF ModelKept

LEMMA CrsStays ==
  ASSUME NEW list, NEW more, NEW call, IsLonger(list, more, call),
         NEW b, NEW c, CrsKept(b, list),
         call.set \notin SetsAnyKey => c.geokeys.keys = b.geokeys.keys,
         call.set = "crs" => call.to \in CrsInfo /\ SaysCrs(c.geokeys.keys, call.to)
  PROVE  CrsKept(c, more)
<1>0. /\ Len(list) \in Nat /\ Len(more) = Len(list) + 1 /\ DOMAIN list = 1..Len(list)
      /\ DOMAIN more = 1..Len(more)
      /\ more[Len(more)] = call /\ \A i \in 1..Len(list) : more[i] = list[i]
  BY DEF IsLonger
<1> SUFFICES ASSUME NEW i \in DOMAIN more, more[i].set = "crs"
             PROVE  /\ more[i].to \in CrsInfo
                    /\ LastIn(more, i, SetsAnyKey) => SaysCrs(c.geokeys.keys, more[i].to)
  BY DEF CrsKept
<1>1. CASE i = Len(more)
  BY <1>0, <1>1
<1>2. CASE i # Len(more)
  <2>1. i \in DOMAIN list /\ more[i] = list[i] /\ i < Len(more) /\ Len(more) \in DOMAIN more
    BY <1>0, <1>2
  <2>2. LastIn(more, i, SetsAnyKey) => LastIn(list, i, SetsAnyKey) /\ call.set \notin SetsAnyKey
    BY <1>0, <2>1 DEF LastIn
  <2> QED BY <2>1, <2>2 DEF CrsKept
<1> QED BY <1>1, <1>2

LEMMA EpsgKeptOn ==
  ASSUME NEW list, NEW more, NEW call, IsLonger(list, more, call),
         NEW b, NEW c, EpsgKept(b, list),
         call.set \notin SetsCrsKeys =>
           \A code : SaysEpsg(b.geokeys.keys, code) => SaysEpsg(c.geokeys.keys, code),
         call.set \in SetsEpsg => SaysEpsg(c.geokeys.keys, call.to)
  PROVE  EpsgKept(c, more)
<1>0. /\ Len(list) \in Nat /\ Len(more) = Len(list) + 1 /\ DOMAIN list = 1..Len(list)
      /\ DOMAIN more = 1..Len(more)
      /\ more[Len(more)] = call /\ \A i \in 1..Len(list) : more[i] = list[i]
  BY DEF IsLonger
<1> SUFFICES ASSUME NEW i \in DOMAIN more, more[i].set \in SetsEpsg,
                    LastIn(more, i, SetsCrsKeys)
             PROVE  SaysEpsg(c.geokeys.keys, more[i].to)
  BY DEF EpsgKept
<1>1. CASE i = Len(more)
  BY <1>0, <1>1
<1>2. CASE i # Len(more)
  <2>1. i \in DOMAIN list /\ more[i] = list[i] /\ i < Len(more) /\ Len(more) \in DOMAIN more
    BY <1>0, <1>2
  <2>2. LastIn(list, i, SetsCrsKeys) /\ call.set \notin SetsCrsKeys
    BY <1>0, <2>1 DEF LastIn
  <2> QED BY <2>1, <2>2 DEF EpsgKept
<1> QED BY <1>1, <1>2

Calls(name, value) ==
  /\ phase = "building" /\ calls' = Append(calls, [set |-> name, to |-> value])
  /\ phase' = phase

LEMMA CallStep ==
  ASSUME GeoInv, NEW name, NEW value, Calls(name, value), IsBuilder(builder'),
         ModelKept(builder, calls) => ModelKept(builder', calls'),
         CrsKept(builder', calls'), EpsgKept(builder', calls')
  PROVE  GeoInv'
<1>1. IsLonger(calls, calls', [set |-> name, to |-> value])
  BY AppendIsLonger DEF GeoInv, Calls
<1>2. Len(calls') \in Nat /\ calls' = [i \in 1..Len(calls') |-> calls'[i]]
  BY <1>1 DEF IsLonger
<1>3. Kept(builder', calls')
  BY DEF GeoInv, Kept, ModelKept
<1>4. phase' = "building"
  BY DEF Calls
<1> QED BY <1>2, <1>3, <1>4 DEF GeoInv

LEMMA KeyStep ==
  ASSUME GeoInv, NEW name \in SetsAnyKey, NEW value, Calls(name, value),
         Rekeyed(builder, builder'),
         name = "crs" => value \in CrsInfo /\ SaysCrs(builder'.geokeys.keys, value),
         name \in SetsEpsg => SaysEpsg(builder'.geokeys.keys, value),
         name \notin SetsCrsKeys =>
           \A code : SaysEpsg(builder.geokeys.keys, code) => SaysEpsg(builder'.geokeys.keys, code)
  PROVE  GeoInv'
<1> DEFINE call == [set |-> name, to |-> value]
<1>1. IsLonger(calls, calls', call)
  BY AppendIsLonger DEF GeoInv, Calls
<1>2. call.set = name /\ call.to = value
  OBVIOUS
<1>3. name \notin SetsWhole /\ name # "pixel_scale" /\ name \notin SetsPlace
  BY DEF SetsWhole, SetsPlace, SetsAnyKey, SetsCrsKeys, SetsEpsg
<1>4. IsBuilder(builder') /\ SameModel(builder, builder')
  BY DEF Rekeyed
<1>5. CrsKept(builder, calls) /\ EpsgKept(builder, calls)
  BY DEF GeoInv, Kept
<1> HIDE DEF call
<1>6. ModelKept(builder, calls) => ModelKept(builder', calls')
  BY <1>1, <1>2, <1>3, <1>4, ModelStays
<1>7. CrsKept(builder', calls')
  BY <1>1, <1>2, <1>5, CrsStays
<1>8. EpsgKept(builder', calls')
  BY <1>1, <1>2, <1>5, EpsgKeptOn
<1> QED BY <1>4, <1>6, <1>7, <1>8, CallStep

LEMMA ModelStep ==
  ASSUME GeoInv, NEW name, name \notin SetsAnyKey, NEW value, Calls(name, value),
         IsBuilder(builder'), builder'.geokeys = builder.geokeys,
         ModelKept(builder, calls) => ModelKept(builder', calls')
  PROVE  GeoInv'
<1> DEFINE call == [set |-> name, to |-> value]
<1>1. IsLonger(calls, calls', call)
  BY AppendIsLonger DEF GeoInv, Calls
<1>2. call.set = name /\ call.to = value
  OBVIOUS
<1>3. name # "crs" /\ name \notin SetsEpsg
  BY DEF SetsAnyKey, SetsCrsKeys, SetsEpsg
<1>4. CrsKept(builder, calls) /\ EpsgKept(builder, calls)
  BY DEF GeoInv, Kept
<1> HIDE DEF call
<1>5. CrsKept(builder', calls')
  BY <1>1, <1>2, <1>3, <1>4, CrsStays
<1>6. EpsgKept(builder', calls')
  BY <1>1, <1>2, <1>3, <1>4, EpsgKeptOn
<1> QED BY <1>5, <1>6, CallStep

LEMMA GeoInit == Init => GeoInv
<1> SUFFICES ASSUME Init PROVE GeoInv
  OBVIOUS
<1>1. builder = NewBuilder /\ calls = <<>> /\ phase = "building"
  BY DEF Init
<1>2. Len(calls) = 0 /\ DOMAIN calls = {} /\ calls = [i \in 1..Len(calls) |-> calls[i]]
  BY <1>1
<1>3. IsBuilder(builder)
  <2>1. /\ NewDirectory = [minor |-> 1, keys |-> NewDirectory.keys]
        /\ NewDirectory.keys = [id \in {} |-> None]
    BY DEF NewDirectory
  <2> DEFINE keys == NewDirectory.keys
  <2>2. DOMAIN keys = {} /\ keys = [id \in DOMAIN keys |-> keys[id]]
    BY <2>1
  <2>3. IsFiniteSet({})
    BY FS_EmptySet
  <2> HIDE DEF keys
  <2>4. IsKeys(keys)
    BY <2>2, <2>3 DEF IsKeys
  <2>5. NewBuilder.isOrigin \in BOOLEAN
    BY DEF NewBuilder
  <2> QED BY <1>1, <2>1, <2>4, <2>5, NewIsShaped DEF IsBuilder, Shaped, Holding, keys
<1>4. LastWhole(calls) = 0 /\ LastScale(calls) = 0 /\ LastPlace(calls) = 0
  <2>1. ASSUME NEW names, NEW from PROVE Latest(calls, names, from) = 0
    <3>1. {0} \cup {i \in DOMAIN calls : i > from /\ calls[i].set \in names} = {0}
      BY <1>2
    <3>2. {0} \subseteq Int /\ 0 \in {0} /\ \A x \in {0} : x <= 0
      OBVIOUS
    <3>3. Max({0}) = 0
      BY <3>2, MaxIs
    <3> QED BY <3>1, <3>3 DEF Latest
  <2> QED BY <2>1 DEF LastWhole, LastScale, LastPlace
<1>5. Kept(builder, calls)
  <2>1. builder.scale = None /\ builder.tiepoint = None /\ Whole(builder) = None
    BY <1>1, NewIsShaped DEF Whole
  <2>2. WholeKept(builder, calls) /\ ScaleKept(builder, calls) /\ PlaceKept(builder, calls)
    BY <1>2, <1>4, <2>1 DEF WholeKept, ScaleKept, PlaceKept
  <2>3. CrsKept(builder, calls) /\ EpsgKept(builder, calls)
    BY <1>2 DEF CrsKept, EpsgKept
  <2> QED BY <2>2, <2>3 DEF Kept
<1> QED BY <1>1, <1>2, <1>3, <1>5 DEF GeoInv

LEMMA KeyCalls ==
  ASSUME GeoInv,
         \/ CallEpsg \/ CallProjected \/ CallGeographic \/ CallGeocentric \/ CallCrs
         \/ CallModelType \/ CallRasterType \/ CallVertical \/ CallVerticalCitation
         \/ CallGeoKey
  PROVE  GeoInv'
<1>0. IsBuilder(builder)
  BY DEF GeoInv
<1>a. /\ EpsgCodes \subseteq Nat /\ ModelTypes \subseteq Nat /\ RasterTypes \subseteq Nat
      /\ VerticalCodes \subseteq Nat /\ Citations \subseteq Text /\ CrsInfos \subseteq CrsInfo
      /\ KeyValues \subseteq [id : Nat, value : KeyValue]
  BY GeoAssumption
<1>b. /\ SetsEpsg \subseteq SetsAnyKey /\ SetsCrsKeys \subseteq SetsAnyKey
      /\ SetsEpsg \subseteq SetsCrsKeys /\ "crs" \in SetsCrsKeys /\ "geokey" \in SetsCrsKeys
      /\ "crs" \notin SetsEpsg /\ "geokey" \notin SetsEpsg /\ "geokey" # "crs"
      /\ \A name \in {"model_type", "raster_type", "vertical"} :
           name \in SetsAnyKey /\ name # "crs" /\ name \notin SetsEpsg
  BY DEF SetsEpsg, SetsCrsKeys, SetsAnyKey
<1>c. ASSUME NEW name \in SetsEpsg, NEW code \in Nat, Calls(name, code),
             Rekeyed(builder, builder'), SaysEpsg(builder'.geokeys.keys, code)
      PROVE  GeoInv'
  BY <1>b, <1>c, KeyStep
<1>d. ASSUME NEW name \in {"model_type", "raster_type", "vertical"}, NEW value, Calls(name, value),
             NEW id \in {GtModelType, GtRasterType, VerticalCsType, VerticalDatum,
                         VerticalUnits, VerticalCitation},
             NEW key \in KeyValue, builder' = WithKey(builder, id, key)
      PROVE  GeoInv'
  <2>1. id \in Nat /\ id \notin {ProjectedCrsType, GeodeticCrsType}
    BY KeyIds
  <2>2. /\ Rekeyed(builder, builder')
        /\ builder'.geokeys.keys = SetKey(builder.geokeys.keys, id, key)
    BY <1>0, <1>d, <2>1, KeyChanged
  <2>3. \A code : SaysEpsg(builder.geokeys.keys, code) => SaysEpsg(builder'.geokeys.keys, code)
    BY <2>1, <2>2, EpsgStays
  <2> QED BY <1>b, <1>d, <2>2, <2>3, KeyStep
<1>1. CASE CallEpsg
  <2>1. PICK code \in EpsgCodes : Set("epsg", code, SetEpsg(builder, code))
    BY <1>1 DEF CallEpsg
  <2>2. Calls("epsg", code) /\ builder' = SetEpsg(builder, code)
    BY <2>1 DEF Set, Calls
  <2>3. "epsg" \in SetsEpsg /\ code \in Nat
    BY <1>a DEF SetsEpsg
  <2> QED BY <1>0, <1>c, <2>2, <2>3, EpsgSet
<1>2. CASE CallProjected
  <2>1. PICK code \in EpsgCodes :
          Set("projected_epsg", code, SetProjectedEpsg(builder, code))
    BY <1>2 DEF CallProjected
  <2>2. Calls("projected_epsg", code) /\ builder' = SetProjectedEpsg(builder, code)
    BY <2>1 DEF Set, Calls
  <2>3. "projected_epsg" \in SetsEpsg /\ code \in Nat
    BY <1>a DEF SetsEpsg
  <2> QED BY <1>0, <1>c, <2>2, <2>3, EpsgSet
<1>3. CASE CallGeographic
  <2>1. PICK code \in EpsgCodes :
          Set("geographic_epsg", code, SetGeodeticEpsg(builder, Geographic, code))
    BY <1>3 DEF CallGeographic
  <2>2. Calls("geographic_epsg", code) /\ builder' = SetGeodeticEpsg(builder, Geographic, code)
    BY <2>1 DEF Set, Calls
  <2>3. "geographic_epsg" \in SetsEpsg /\ code \in Nat /\ Geographic \in Nat
    BY <1>a DEF SetsEpsg, Geographic
  <2> QED BY <1>0, <1>c, <2>2, <2>3, EpsgSet
<1>4. CASE CallGeocentric
  <2>1. PICK code \in EpsgCodes :
          Set("geocentric_epsg", code, SetGeodeticEpsg(builder, Geocentric, code))
    BY <1>4 DEF CallGeocentric
  <2>2. Calls("geocentric_epsg", code) /\ builder' = SetGeodeticEpsg(builder, Geocentric, code)
    BY <2>1 DEF Set, Calls
  <2>3. "geocentric_epsg" \in SetsEpsg /\ code \in Nat /\ Geocentric \in Nat
    BY <1>a DEF SetsEpsg, Geocentric
  <2> QED BY <1>0, <1>c, <2>2, <2>3, EpsgSet
<1>5. CASE CallCrs
  <2>1. PICK crs \in CrsInfos : Set("crs", crs, SetCrs(builder, crs))
    BY <1>5 DEF CallCrs
  <2>2. Calls("crs", crs) /\ builder' = SetCrs(builder, crs) /\ crs \in CrsInfo
    BY <1>a, <2>1 DEF Set, Calls
  <2>3. Rekeyed(builder, builder') /\ SaysCrs(builder'.geokeys.keys, crs)
    BY <1>0, <2>2, CrsSet
  <2> QED BY <1>b, <2>2, <2>3, KeyStep
<1>6. CASE CallModelType
  <2>1. PICK m \in ModelTypes : Set("model_type", m, WithKey(builder, GtModelType, Short(m)))
    BY <1>6 DEF CallModelType
  <2>2. Calls("model_type", m) /\ builder' = WithKey(builder, GtModelType, Short(m))
    BY <2>1 DEF Set, Calls
  <2>3. Short(m) \in KeyValue
    BY <1>a, ValueTypes
  <2> QED BY <1>d, <2>2, <2>3
<1>7. CASE CallRasterType
  <2>1. PICK r \in RasterTypes : Set("raster_type", r, WithKey(builder, GtRasterType, Short(r)))
    BY <1>7 DEF CallRasterType
  <2>2. Calls("raster_type", r) /\ builder' = WithKey(builder, GtRasterType, Short(r))
    BY <2>1 DEF Set, Calls
  <2>3. Short(r) \in KeyValue
    BY <1>a, ValueTypes
  <2> QED BY <1>d, <2>2, <2>3
<1>8. CASE CallVertical
  <2>1. PICK id \in {VerticalCsType, VerticalDatum, VerticalUnits}, code \in VerticalCodes :
          Set("vertical", code, WithKey(builder, id, Short(code)))
    BY <1>8 DEF CallVertical
  <2>2. Calls("vertical", code) /\ builder' = WithKey(builder, id, Short(code))
    BY <2>1 DEF Set, Calls
  <2>3. Short(code) \in KeyValue
    BY <1>a, ValueTypes
  <2> QED BY <1>d, <2>2, <2>3
<1>9. CASE CallVerticalCitation
  <2>1. PICK text \in Citations :
          Set("vertical", text, WithKey(builder, VerticalCitation, Ascii(text)))
    BY <1>9 DEF CallVerticalCitation
  <2>2. Calls("vertical", text) /\ builder' = WithKey(builder, VerticalCitation, Ascii(text))
    BY <2>1 DEF Set, Calls
  <2>3. Ascii(text) \in KeyValue
    BY <1>a, ValueTypes
  <2> QED BY <1>d, <2>2, <2>3
<1>10. CASE CallGeoKey
  <2>1. PICK key \in KeyValues : SetKeyTo(key.id, key.value)
    BY <1>10 DEF CallGeoKey
  <2> DEFINE value == [id |-> key.id, value |-> key.value]
  <2>2. Calls("geokey", value) /\ builder' = WithKey(builder, key.id, key.value)
    BY <2>1 DEF SetKeyTo, Set, Calls
  <2> HIDE DEF value
  <2>3. key.id \in Nat /\ key.value \in KeyValue
    BY <1>a
  <2>4. Rekeyed(builder, builder')
    BY <1>0, <2>2, <2>3, KeyChanged
  <2> QED BY <1>b, <2>2, <2>4, KeyStep
<1> QED BY <1>1, <1>2, <1>3, <1>4, <1>5, <1>6, <1>7, <1>8, <1>9, <1>10

LEMMA ModelCalls ==
  ASSUME GeoInv,
         CallScale \/ CallOrigin \/ CallTiepoint \/ CallTransform \/ CallMatrix
  PROVE  GeoInv'
<1>0. IsBuilder(builder)
  BY DEF GeoInv
<1>a. /\ Scales \subseteq Doubles \X Doubles /\ Origins \subseteq Doubles \X Doubles
      /\ Tiepoints \subseteq [1..6 -> Doubles] /\ Matrices \subseteq [1..16 -> Doubles]
      /\ Transforms \subseteq Transform
  BY GeoAssumption
<1>b. /\ \A name \in SetsPlace \cup SetsWhole \cup {"pixel_scale"} : name \notin SetsAnyKey
      /\ "origin" \in SetsPlace /\ "tiepoint" \in SetsPlace /\ "tiepoint" # "origin"
      /\ "transform" \in SetsWhole /\ "transformation_matrix" \in SetsWhole
      /\ "transformation_matrix" # "transform"
  BY DEF SetsPlace, SetsWhole, SetsAnyKey, SetsCrsKeys, SetsEpsg
<1>c. ASSUME NEW name, NEW value, Calls(name, value)
      PROVE  IsLonger(calls, calls', [set |-> name, to |-> value])
  BY <1>c, AppendIsLonger DEF GeoInv, Calls
<1>d. \A name, value : LET call == [set |-> name, to |-> value] IN
        call.set = name /\ call.to = value
  OBVIOUS
<1>1. CASE CallScale
  <2>1. PICK s \in Scales : Set("pixel_scale", s, SetScale(builder, s))
    BY <1>1 DEF CallScale
  <2> DEFINE call == [set |-> "pixel_scale", to |-> s]
  <2>2. Calls("pixel_scale", s) /\ builder' = SetScale(builder, s) /\ s \in Doubles \X Doubles
    BY <1>a, <2>1 DEF Set, Calls
  <2>3. IsBuilder(builder') /\ builder'.geokeys = builder.geokeys /\ Whole(builder') = None
    BY <1>0, <2>2, PartsKeep
  <2>4. /\ builder'.scale = Some(<<s[1], s[2], 0>>) /\ builder'.tiepoint = builder.tiepoint
        /\ builder'.isOrigin = builder.isOrigin
    BY <1>0, <2>2, PartsSet
  <2>5. call.set = "pixel_scale" /\ call.to = s /\ IsLonger(calls, calls', call)
    BY <1>c, <2>2
  <2> HIDE DEF call
  <2>6. ModelKept(builder, calls) => ModelKept(builder', calls')
    BY <2>3, <2>4, <2>5, ScaleMoves
  <2> QED BY <1>b, <2>2, <2>3, <2>6, ModelStep
<1>2. CASE CallOrigin
  <2>1. PICK o \in Origins : Set("origin", o, SetOrigin(builder, o))
    BY <1>2 DEF CallOrigin
  <2> DEFINE call == [set |-> "origin", to |-> o]
  <2>2. Calls("origin", o) /\ builder' = SetOrigin(builder, o) /\ o \in Doubles \X Doubles
    BY <1>a, <2>1 DEF Set, Calls
  <2>3. IsBuilder(builder') /\ builder'.geokeys = builder.geokeys /\ Whole(builder') = None
    BY <1>0, <2>2, PartsKeep
  <2>4. /\ builder'.scale = builder.scale /\ builder'.isOrigin
        /\ builder'.tiepoint = Some(<<0, 0, 0, o[1], o[2], 0>>)
    BY <1>0, <2>2, PartsSet
  <2>5. call.set = "origin" /\ call.to = o /\ IsLonger(calls, calls', call)
    BY <1>c, <2>2
  <2> HIDE DEF call
  <2>6. ModelKept(builder, calls) => ModelKept(builder', calls')
    BY <1>b, <2>3, <2>4, <2>5, PlaceMoves
  <2> QED BY <1>b, <2>2, <2>3, <2>6, ModelStep
<1>3. CASE CallTiepoint
  <2>1. PICK t \in Tiepoints : Set("tiepoint", t, SetTiepoint(builder, t))
    BY <1>3 DEF CallTiepoint
  <2> DEFINE call == [set |-> "tiepoint", to |-> t]
  <2>2. Calls("tiepoint", t) /\ builder' = SetTiepoint(builder, t) /\ t \in [1..6 -> Doubles]
    BY <1>a, <2>1 DEF Set, Calls
  <2>3. IsBuilder(builder') /\ builder'.geokeys = builder.geokeys /\ Whole(builder') = None
    BY <1>0, <2>2, PartsKeep
  <2>4. /\ builder'.scale = builder.scale /\ ~builder'.isOrigin
        /\ builder'.tiepoint = Some(t)
    BY <1>0, <2>2, PartsSet
  <2>5. call.set = "tiepoint" /\ call.to = t /\ IsLonger(calls, calls', call)
    BY <1>c, <2>2
  <2> HIDE DEF call
  <2>6. ModelKept(builder, calls) => ModelKept(builder', calls')
    BY <1>b, <2>3, <2>4, <2>5, PlaceMoves
  <2> QED BY <1>b, <2>2, <2>3, <2>6, ModelStep
<1>4. CASE CallTransform
  <2>1. PICK t \in Transforms : Set("transform", t, SetTransform(builder, t))
    BY <1>4 DEF CallTransform
  <2> DEFINE call == [set |-> "transform", to |-> t]
  <2>2. Calls("transform", t) /\ builder' = SetTransform(builder, t) /\ t \in Transform
    BY <1>a, <2>1 DEF Set, Calls
  <2>3. /\ IsBuilder(builder') /\ builder'.geokeys = builder.geokeys
        /\ Whole(builder') = Some(t) /\ builder'.scale = None /\ builder'.tiepoint = None
    BY <1>0, <2>2, WholesKeep
  <2>4. call.set = "transform" /\ call.to = t /\ IsLonger(calls, calls', call)
    BY <1>c, <2>2
  <2> HIDE DEF call
  <2>5. ModelKept(builder, calls) => ModelKept(builder', calls')
    BY <1>b, <2>3, <2>4, WholeMoves
  <2> QED BY <1>b, <2>2, <2>3, <2>5, ModelStep
<1>5. CASE CallMatrix
  <2>1. PICK m \in Matrices : Set("transformation_matrix", m, SetMatrix(builder, m))
    BY <1>5 DEF CallMatrix
  <2> DEFINE call == [set |-> "transformation_matrix", to |-> m]
  <2>2. /\ Calls("transformation_matrix", m) /\ builder' = SetMatrix(builder, m)
        /\ m \in [1..16 -> Doubles]
    BY <1>a, <2>1 DEF Set, Calls
  <2>3. /\ IsBuilder(builder') /\ builder'.geokeys = builder.geokeys
        /\ Whole(builder') = Some(FromTransformationMatrix(m))
        /\ builder'.scale = None /\ builder'.tiepoint = None
    BY <1>0, <2>2, WholesKeep
  <2>4. call.set = "transformation_matrix" /\ call.to = m /\ IsLonger(calls, calls', call)
    BY <1>c, <2>2
  <2> HIDE DEF call
  <2>5. ModelKept(builder, calls) => ModelKept(builder', calls')
    BY <1>b, <2>3, <2>4, WholeMoves
  <2> QED BY <1>b, <2>2, <2>3, <2>5, ModelStep
<1> QED BY <1>1, <1>2, <1>3, <1>4, <1>5

LEMMA WriteStep ==
  ASSUME GeoInv, Write PROVE GeoInv'
<1>1. /\ Len(calls) \in Nat /\ calls = [i \in 1..Len(calls) |-> calls[i]]
      /\ IsBuilder(builder) /\ Kept(builder, calls)
  BY DEF GeoInv
<1>2. builder' = builder /\ calls' = calls
  BY DEF Write
<1>3. PICK level \in Levels \cup {1} :
        LET reduced == WithOverviewGeoreferencing(builder, level) IN
        IF BuildsTags(builder) /\ BuildsTags(reduced)
        THEN /\ phase' = "written"
             /\ tags' = ExtraTags(builder)
             /\ overview' = [level |-> level, tags |-> ExtraTags(reduced)]
        ELSE phase' = "refused" /\ UNCHANGED <<tags, overview>>
  BY DEF Write
<1>4. CASE BuildsTags(builder) /\ BuildsTags(WithOverviewGeoreferencing(builder, level))
  <2> DEFINE reduced == WithOverviewGeoreferencing(builder, level)
  <2>1. /\ phase' = "written" /\ tags' = ExtraTags(builder)
        /\ overview' = [level |-> level, tags |-> ExtraTags(reduced)]
        /\ BuildsTags(builder) /\ BuildsTags(reduced)
    BY <1>3, <1>4
  <2>2. overview'.level = level /\ overview'.tags = ExtraTags(reduced)
    BY <2>1
  <2>3. reduced = WithOverviewGeoreferencing(builder', overview'.level)
    BY <1>2, <2>2
  <2> HIDE DEF reduced
  <2>4. IsWritten'
    BY <1>2, <2>1, <2>2, <2>3 DEF IsWritten
  <2>5. phase' # "opened"
    BY <2>1
  <2> QED BY <1>1, <1>2, <2>4, <2>5 DEF GeoInv
<1>5. CASE ~(BuildsTags(builder) /\ BuildsTags(WithOverviewGeoreferencing(builder, level)))
  <2>1. phase' = "refused"
    BY <1>3, <1>5
  <2> QED BY <1>1, <1>2, <2>1 DEF GeoInv
<1> QED BY <1>4, <1>5

LEMMA OpenStep ==
  ASSUME GeoInv, Open PROVE GeoInv'
<1>1. /\ Len(calls) \in Nat /\ calls = [i \in 1..Len(calls) |-> calls[i]]
      /\ IsBuilder(builder) /\ Kept(builder, calls) /\ IsWritten
  BY DEF GeoInv, Open
<1>2. builder' = builder /\ calls' = calls /\ tags' = tags /\ overview' = overview
  BY DEF Open
<1>3. IsWritten'
  BY <1>1, <1>2 DEF IsWritten
<1>4. opened' = IF Refused(tags') = "no" THEN Opened(tags') ELSE [status |-> Refused(tags')]
  BY <1>2 DEF Open
<1> QED BY <1>1, <1>2, <1>3, <1>4 DEF GeoInv

(***************************************************************************)
(* In every state the builder is what its calls made of it, the tags of the  *)
(* base image and of the overview are those of the builder, and what was      *)
(* opened is what the tags of the base image say.                            *)
(***************************************************************************)
THEOREM GeoInvariant == Spec => []GeoInv
<1>1. Init => GeoInv
  BY GeoInit
<1>2. GeoInv /\ [Next]_vars => GeoInv'
  <2> SUFFICES ASSUME GeoInv, [Next]_vars PROVE GeoInv'
    OBVIOUS
  <2>1. CASE UNCHANGED vars
    BY <2>1 DEF GeoInv, IsWritten, vars
  <2>2. CASE Next
    BY <2>2, KeyCalls, ModelCalls, WriteStep, OpenStep DEF Next
  <2> QED BY <2>1, <2>2
<1> QED BY <1>1, <1>2, PTL DEF Spec

----------------------------------------------------------------------------
(***************************************************************************)
(* What is read back.                                                      *)
(***************************************************************************)
\* What a written file is opened as.
LEMMA WrittenReads ==
  ASSUME GeoInv, phase = "opened"
  PROVE  LET read == CrsFromGeoKeys(ReadKeys(Keys)) IN
         /\ read.raster = CurrentRasterType(builder)
         /\ ~WritesKeys(builder) => opened.status = "not a GeoTIFF"
         /\ WritesKeys(builder) /\ HoldsNothing(Keys) => opened.status = "bad directory"
         /\ WritesKeys(builder) /\ ~HoldsNothing(Keys) =>
              /\ opened.status = "open" /\ opened.keys = ReadKeys(Keys)
              /\ opened.crs = read /\ opened.epsg = Epsg(read)
              /\ opened.transform = GivenTransform(builder)
              /\ opened.transform # None =>
                   opened.bounds = Some(Bounds(opened.transform[1], ImageWidth, ImageHeight))
<1> DEFINE crs == CrsFromGeoKeys(ReadKeys(Keys))
<1>1. /\ IsBuilder(builder) /\ BuildsTags(builder) /\ tags = ExtraTags(builder)
      /\ opened = IF Refused(tags) = "no" THEN Opened(tags) ELSE [status |-> Refused(tags)]
  BY DEF GeoInv, IsWritten
<1>2. crs.raster = CurrentRasterType(builder)
  <2>1. crs.raster = OrElse(GetShort(ReadKeys(Keys), GtRasterType), 1)
    BY DEF CrsFromGeoKeys
  <2>2. GetShort(ReadKeys(Keys), GtRasterType) = GetShort(Keys, GtRasterType)
    BY ShortsAsRead
  <2> QED BY <2>1, <2>2 DEF CurrentRasterType, Keys, PixelIsArea
<1>3. ValidGeoreferencing(builder) /\ (WritesKeys(builder) => Serialize(builder.geokeys) # None)
  BY <1>1 DEF BuildsTags
<1> HIDE DEF crs
<1>4. /\ ValidModel(tags) /\ TransformOf(tags, crs) = GivenTransform(builder)
      /\ tags.keys = KeysWritten(builder)
      /\ ~WritesGeoreferencing(builder) =>
           tags.matrix = None /\ tags.tiepoint = None /\ tags.scale = None
  BY <1>1, <1>2, <1>3, ModelReads
<1>5. ASSUME ~WritesKeys(builder)
      PROVE  opened.status = "not a GeoTIFF"
  <2>1. tags.keys = None /\ tags.matrix = None /\ tags.scale = None
    BY <1>4, <1>5 DEF WritesKeys, KeysWritten
  <2>2. Refused(tags) = "not a GeoTIFF"
    BY <2>1 DEF Refused, HasMetadata
  <2> QED BY <1>1, <2>2
<1>6. ASSUME WritesKeys(builder)
      PROVE  /\ HasMetadata(tags)
             /\ ParsedDirectory(tags) = Parse(Serialize(builder.geokeys)[1])
             /\ HoldsNothing(Keys) => ParsedDirectory(tags) = None
             /\ ~HoldsNothing(Keys) => /\ ParsedDirectory(tags) # None
                                       /\ ParsedDirectory(tags)[1].keys = ReadKeys(Keys)
  <2>1. tags.keys = Serialize(builder.geokeys) /\ Serialize(builder.geokeys) # None
    BY <1>3, <1>4, <1>6 DEF KeysWritten
  <2>2. IsKeys(builder.geokeys.keys)
    BY <1>1 DEF IsBuilder
  <2> DEFINE read == Parse(Serialize(builder.geokeys)[1])
  <2>3. /\ HoldsNothing(Keys) => read = None
        /\ ~HoldsNothing(Keys) => read # None /\ read[1].keys = ReadKeys(Keys)
    BY <2>1, <2>2, RoundTrip DEF Keys, ReadKeys
  <2>4. ParsedDirectory(tags) = read
    BY <2>1 DEF ParsedDirectory
  <2> HIDE DEF read
  <2>5. HasMetadata(tags)
    BY <2>1 DEF HasMetadata
  <2> QED BY <2>3, <2>4, <2>5 DEF read
<1>7. ASSUME WritesKeys(builder), HoldsNothing(Keys)
      PROVE  opened.status = "bad directory"
  <2>1. Refused(tags) = "bad directory"
    BY <1>6, <1>7 DEF Refused
  <2> QED BY <1>1, <2>1
<1>8. ASSUME WritesKeys(builder), ~HoldsNothing(Keys)
      PROVE  /\ opened.status = "open" /\ opened.keys = ReadKeys(Keys)
             /\ opened.crs = crs /\ opened.epsg = Epsg(crs)
             /\ opened.transform = GivenTransform(builder)
             /\ opened.transform # None =>
                  opened.bounds = Some(Bounds(opened.transform[1], ImageWidth, ImageHeight))
  <2>1. Refused(tags) = "no"
    BY <1>4, <1>6, <1>8 DEF Refused
  <2>2. opened = Opened(tags)
    BY <1>1, <2>1
  <2>3. ParsedDirectory(tags)[1].keys = ReadKeys(Keys)
    BY <1>6, <1>8
  <2> DEFINE keys == ReadKeys(Keys)
             transform == GivenTransform(builder)
  <2>4. Opened(tags) =
          [status |-> "open", keys |-> keys, crs |-> crs, epsg |-> Epsg(crs),
           transform |-> transform,
           bounds |-> IF transform = None THEN None
                      ELSE Some(Bounds(transform[1], ImageWidth, ImageHeight))]
    <3>1. CrsFromGeoKeys(ParsedDirectory(tags)[1].keys) = crs
      BY <2>3 DEF crs
    <3>2. TransformOf(tags, crs) = transform
      BY <1>4
    <3> DEFINE parsed == ParsedDirectory(tags)[1].keys
    <3>3. Opened(tags) =
            [status |-> "open", keys |-> parsed, crs |-> CrsFromGeoKeys(parsed),
             epsg |-> Epsg(CrsFromGeoKeys(parsed)),
             transform |-> TransformOf(tags, CrsFromGeoKeys(parsed)),
             bounds |-> IF TransformOf(tags, CrsFromGeoKeys(parsed)) = None THEN None
                        ELSE Some(Bounds(TransformOf(tags, CrsFromGeoKeys(parsed))[1],
                                         ImageWidth, ImageHeight))]
      BY DEF Opened
    <3>4. parsed = keys /\ CrsFromGeoKeys(parsed) = crs
      BY <2>3, <3>1
    <3> HIDE DEF keys, transform, parsed
    <3> QED BY <3>2, <3>3, <3>4
  <2> HIDE DEF keys, transform
  <2>5. /\ opened.status = "open" /\ opened.keys = keys /\ opened.crs = crs
        /\ opened.epsg = Epsg(crs) /\ opened.transform = transform
        /\ opened.bounds = IF transform = None THEN None
                           ELSE Some(Bounds(transform[1], ImageWidth, ImageHeight))
    BY <2>2, <2>4
  <2> QED BY <2>5 DEF keys, transform
<1> QED BY <1>2, <1>5, <1>7, <1>8 DEF crs

LEMMA OpenReads ==
  ASSUME GeoInv, IsOpen
  PROVE  LET read == CrsFromGeoKeys(ReadKeys(Keys)) IN
         /\ WritesKeys(builder) /\ opened.keys = ReadKeys(Keys)
         /\ opened.crs = read /\ opened.epsg = Epsg(read)
         /\ read.raster = CurrentRasterType(builder)
         /\ opened.transform = GivenTransform(builder)
         /\ opened.transform # None =>
              opened.bounds = Some(Bounds(opened.transform[1], ImageWidth, ImageHeight))
<1>1. opened.status = "open" /\ phase = "opened"
  BY DEF IsOpen
<1>2. "open" # "not a GeoTIFF" /\ "open" # "bad directory"
  OBVIOUS
<1>3. WritesKeys(builder) /\ ~HoldsNothing(Keys)
  BY <1>1, <1>2, WrittenReads
<1> QED BY <1>1, <1>3, WrittenReads

LEMMA AcceptedInv == GeoInv => AcceptedOpens
<1> SUFFICES ASSUME GeoInv, phase = "opened"
             PROVE  \/ opened.status = "open"
                    \/ opened.status = "not a GeoTIFF" /\ ~WritesKeys(builder)
                    \/ opened.status = "bad directory" /\ HoldsNothing(Keys)
  BY DEF AcceptedOpens, HoldsNothing
<1> QED BY WrittenReads

LEMMA AskedIsGiven ==
  ASSUME GeoInv PROVE Asked = GivenTransform(builder)
<1> DEFINE whole == LastWhole(calls)
           scale == LastScale(calls)
           at == LastPlace(calls)
           To(i) == calls[i].to
           size == <<To(scale)[1], To(scale)[2], 0>>
           corner == <<0, 0, 0, To(at)[1], To(at)[2], 0>>
<1>0. \A x : Some(x) # None /\ Some(x)[1] = x
  BY DEF Some, None
<1>1. Asked =
        IF scale = 0 /\ at = 0
        THEN IF whole = 0 THEN None
             ELSE IF calls[whole].set = "transform" THEN Some(To(whole))
             ELSE Some(FromTransformationMatrix(To(whole)))
        ELSE IF scale = 0 \/ at = 0 THEN None
        ELSE IF calls[at].set = "origin"
        THEN Some(Affine(To(at)[1], To(scale)[1], 0, To(at)[2], 0, -To(scale)[2]))
        ELSE Some(FromTiepointAndScale(To(at), To(scale), CurrentRasterType(builder)))
  BY DEF Asked, LastWhole, LastScale, LastPlace, SetsPlace, Latest
<1>2. /\ Whole(builder) = IF scale # 0 \/ at # 0 \/ whole = 0 THEN None
                          ELSE IF calls[whole].set = "transform" THEN Some(To(whole))
                          ELSE Some(FromTransformationMatrix(To(whole)))
      /\ builder.scale = IF scale = 0 THEN None ELSE Some(size)
      /\ at = 0 => builder.tiepoint = None
      /\ at # 0 /\ calls[at].set = "origin" =>
           builder.isOrigin /\ builder.tiepoint = Some(corner)
      /\ at # 0 /\ calls[at].set # "origin" =>
           ~builder.isOrigin /\ builder.tiepoint = Some(To(at))
  BY DEF GeoInv, Kept, WholeKept, ScaleKept, PlaceKept
<1>3. /\ size[1] = To(scale)[1] /\ size[2] = To(scale)[2]
      /\ corner[4] = To(at)[1] /\ corner[5] = To(at)[2]
  OBVIOUS
<1>4. Whole(builder) # None => GivenTransform(builder) = Whole(builder)
  BY DEF Whole, GivenTransform
<1>5. Whole(builder) = None => builder.matrix = None /\ builder.affine = None
  BY <1>0 DEF Whole
<1>a. FromTiepointAndScale(To(at), size, CurrentRasterType(builder))
        = FromTiepointAndScale(To(at), To(scale), CurrentRasterType(builder))
  <2>1. ASSUME NEW s, NEW p, NEW r, s[1] = p[1], s[2] = p[2], NEW q
        PROVE  FromTiepointAndScale(q, s, r) = FromTiepointAndScale(q, p, r)
    BY <2>1 DEF FromTiepointAndScale
  <2> HIDE DEF size, corner, To
  <2> QED BY <1>3, <2>1
<1> HIDE DEF whole, scale, at, To, size, corner
<1>6. CASE scale = 0 /\ at = 0
  <2>1. CASE whole = 0
    BY <1>1, <1>2, <1>5, <1>6, <2>1 DEF GivenTransform
  <2>2. CASE whole # 0
    BY <1>0, <1>1, <1>2, <1>4, <1>6, <2>2
  <2> QED BY <2>1, <2>2
<1>7. CASE scale = 0 /\ at # 0
  BY <1>1, <1>2, <1>5, <1>7 DEF GivenTransform
<1>8. CASE scale # 0 /\ at = 0
  BY <1>1, <1>2, <1>5, <1>8 DEF GivenTransform
<1>9. CASE scale # 0 /\ at # 0
  <2>1. builder.matrix = None /\ builder.affine = None /\ builder.scale = Some(size)
    BY <1>2, <1>5, <1>9
  <2>2. CASE calls[at].set = "origin"
    <3>1. builder.isOrigin /\ builder.tiepoint = Some(corner)
      BY <1>2, <1>9, <2>2
    <3>2. builder.scale[1] = size /\ builder.tiepoint[1] = corner
      BY <1>0, <2>1, <3>1
    <3>3. GivenTransform(builder)
            = Some(Affine(corner[4], size[1], 0, corner[5], 0, -size[2]))
      BY <1>0, <2>1, <3>1, <3>2 DEF GivenTransform
    <3> QED BY <1>1, <1>3, <1>9, <2>2, <3>3
  <2>3. CASE calls[at].set # "origin"
    <3>1. ~builder.isOrigin /\ builder.tiepoint = Some(To(at))
      BY <1>2, <1>9, <2>3
    <3>2. builder.scale[1] = size /\ builder.tiepoint[1] = To(at)
      BY <1>0, <2>1, <3>1
    <3>3. GivenTransform(builder)
            = Some(FromTiepointAndScale(To(at), size, CurrentRasterType(builder)))
      BY <1>0, <2>1, <3>1, <3>2 DEF GivenTransform
    <3> QED BY <1>1, <1>a, <1>9, <2>3, <3>3
  <2> QED BY <2>2, <2>3
<1> QED BY <1>6, <1>7, <1>8, <1>9

LEMMA TransformInv == GeoInv => TransformReadsBack
<1> SUFFICES ASSUME GeoInv, IsOpen
             PROVE  /\ opened.transform = Asked
                    /\ opened.transform # None =>
                         \A t \in {opened.transform[1]},
                            col \in 0..ImageWidth, row \in 0..ImageHeight :
                           LET at == PixelToGeo(t, col, row) IN
                           GeoToPixel(t, at[1], at[2]) = <<col, row>>
  BY DEF TransformReadsBack
<1>1. opened.transform = GivenTransform(builder)
  BY OpenReads
<1>2. opened.transform = Asked
  BY <1>1, AskedIsGiven
<1>3. opened.transform # None =>
        IsExact(opened.transform[1]) /\ IsInvertible(opened.transform[1])
  <2> DEFINE crs == [raster |-> CurrentRasterType(builder)]
  <2>1. crs.raster = CurrentRasterType(builder)
    OBVIOUS
  <2> HIDE DEF crs
  <2>2. IsBuilder(builder) /\ ValidGeoreferencing(builder)
    BY DEF GeoInv, IsOpen, IsWritten, BuildsTags
  <2> QED BY <1>1, <2>1, <2>2, ModelReads
<1>4. ASSUME opened.transform # None, NEW t \in {opened.transform[1]},
             NEW col \in 0..ImageWidth, NEW row \in 0..ImageHeight
      PROVE  LET at == PixelToGeo(t, col, row) IN GeoToPixel(t, at[1], at[2]) = <<col, row>>
  <2>1. IsExact(t) /\ IsInvertible(t) /\ col \in Int /\ row \in Int
    BY <1>3, <1>4
  <2> QED BY <2>1, PixelRoundTrip
<1> QED BY <1>2, <1>4

LEMMA CrsInv == GeoInv => CrsReadsBack
<1> SUFFICES ASSUME GeoInv, IsOpen
             PROVE  /\ opened.keys = [id \in DOMAIN Keys |-> AsRead(Keys[id])]
                    /\ \A i \in DOMAIN calls :
                         /\ calls[i].set = "crs" /\ LastOf(i, SetsAnyKey)
                              => opened.crs = CrsAsRead(calls[i].to)
                         /\ calls[i].set \in SetsEpsg /\ LastOf(i, SetsCrsKeys)
                              => opened.epsg = Some(calls[i].to)
  BY DEF CrsReadsBack
<1> DEFINE crs == CrsFromGeoKeys(ReadKeys(Keys))
<1>1. opened.keys = ReadKeys(Keys) /\ opened.crs = crs /\ opened.epsg = Epsg(crs)
  BY OpenReads
<1>2. CrsKept(builder, calls) /\ EpsgKept(builder, calls)
  BY DEF GeoInv, Kept
<1>3. ASSUME NEW i \in DOMAIN calls, calls[i].set = "crs", LastOf(i, SetsAnyKey)
      PROVE  opened.crs = CrsAsRead(calls[i].to)
  <2>1. calls[i].to \in CrsInfo /\ SaysCrs(Keys, calls[i].to)
    BY <1>2, <1>3 DEF CrsKept, LastOf, LastIn, Keys
  <2> QED BY <1>1, <2>1, CrsReads
<1>4. ASSUME NEW i \in DOMAIN calls, calls[i].set \in SetsEpsg, LastOf(i, SetsCrsKeys)
      PROVE  opened.epsg = Some(calls[i].to)
  <2>1. SaysEpsg(Keys, calls[i].to)
    BY <1>2, <1>4 DEF EpsgKept, LastOf, LastIn, Keys
  <2> QED BY <1>1, <2>1, EpsgReads
<1> QED BY <1>1, <1>3, <1>4 DEF ReadKeys

\* The corners of a sheared rectangle, in one coordinate.
Four(a, x, y) == {a, a + x, a + y, a + (x + y)}

LEMMA FourHasEnds ==
  ASSUME NEW a \in Int, NEW x \in Int, NEW y \in Int
  PROVE  /\ Min(Four(a, x, y)) \in Four(a, x, y) /\ Max(Four(a, x, y)) \in Four(a, x, y)
         /\ \A e \in Four(a, x, y) : Min(Four(a, x, y)) <= e /\ e <= Max(Four(a, x, y))
<1> DEFINE S == Four(a, x, y)
<1>1. S \subseteq Int
  BY DEF Four
<1>2. /\ \E m \in S : \A e \in S : m <= e
      /\ \E m \in S : \A e \in S : e <= m
  BY DEF Four
<1> HIDE DEF S
<1>3. PICK low \in S : \A e \in S : low <= e
  BY <1>2
<1>4. PICK high \in S : \A e \in S : e <= high
  BY <1>2
<1>5. Min(S) = low /\ Max(S) = high
  BY <1>1, <1>3, <1>4, MinIs, MaxIs
<1> QED BY <1>3, <1>4, <1>5 DEF S

\* Longer the same way.
Extends(x, z) == (0 <= x /\ x <= z) \/ (z <= x /\ x <= 0)

LEMMA FourWidens ==
  ASSUME NEW a \in Int, NEW x \in Int, NEW y \in Int, NEW z \in Int, NEW w \in Int,
         Extends(x, z), Extends(y, w)
  PROVE  /\ Min(Four(a, z, w)) <= Min(Four(a, x, y))
         /\ Max(Four(a, x, y)) <= Max(Four(a, z, w))
<1>1. \A e \in Four(a, x, y) : /\ \E f \in Four(a, z, w) : f <= e
                               /\ \E f \in Four(a, z, w) : e <= f
  BY DEF Four, Extends
<1>2. Four(a, x, y) \subseteq Int /\ Four(a, z, w) \subseteq Int
  BY DEF Four
<1>3. PICK low \in Four(a, z, w) : low <= Min(Four(a, x, y))
  BY <1>1, FourHasEnds
<1>4. PICK high \in Four(a, z, w) : Max(Four(a, x, y)) <= high
  BY <1>1, FourHasEnds
<1>5. Min(Four(a, z, w)) <= low /\ high <= Max(Four(a, z, w))
  BY FourHasEnds
<1>6. /\ Min(Four(a, x, y)) \in Int /\ Max(Four(a, x, y)) \in Int
      /\ Min(Four(a, z, w)) \in Int /\ Max(Four(a, z, w)) \in Int
      /\ low \in Int /\ high \in Int
  BY <1>2, FourHasEnds
<1> QED BY <1>3, <1>4, <1>5, <1>6

LEMMA BoundsAre ==
  ASSUME NEW t, IsExact(t), NEW width \in Nat, NEW height \in Nat
  PROVE  LET x == Four(t.originX, width * t.pixelWidth, height * t.skewX)
             y == Four(t.originY, width * t.skewY, height * t.pixelHeight)
         IN Bounds(t, width, height) = <<Min(x), Min(y), Max(x), Max(y)>>
<1> DEFINE corners == {PixelToGeo(t, 0, 0), PixelToGeo(t, width, 0),
                       PixelToGeo(t, 0, height), PixelToGeo(t, width, height)}
           x == Four(t.originX, width * t.pixelWidth, height * t.skewX)
           y == Four(t.originY, width * t.skewY, height * t.pixelHeight)
<1>1. /\ t.originX \in Int /\ t.pixelWidth \in Int /\ t.skewX \in Int
      /\ t.originY \in Int /\ t.skewY \in Int /\ t.pixelHeight \in Int
  BY DEF IsExact
<1>2. \A c, r \in Int : PixelToGeo(t, c, r) =
        <<t.originX + c * t.pixelWidth + r * t.skewX, t.originY + c * t.skewY + r * t.pixelHeight>>
  BY DEF PixelToGeo
<1> DEFINE p == PixelToGeo(t, 0, 0)
           q == PixelToGeo(t, width, 0)
           r == PixelToGeo(t, 0, height)
           s == PixelToGeo(t, width, height)
<1>3. /\ p[1] = t.originX /\ q[1] = t.originX + width * t.pixelWidth
      /\ r[1] = t.originX + height * t.skewX
      /\ s[1] = t.originX + (width * t.pixelWidth + height * t.skewX)
      /\ p[2] = t.originY /\ q[2] = t.originY + width * t.skewY
      /\ r[2] = t.originY + height * t.pixelHeight
      /\ s[2] = t.originY + (width * t.skewY + height * t.pixelHeight)
  <2>1. /\ p = <<t.originX + 0 * t.pixelWidth + 0 * t.skewX,
                 t.originY + 0 * t.skewY + 0 * t.pixelHeight>>
        /\ q = <<t.originX + width * t.pixelWidth + 0 * t.skewX,
                 t.originY + width * t.skewY + 0 * t.pixelHeight>>
        /\ r = <<t.originX + 0 * t.pixelWidth + height * t.skewX,
                 t.originY + 0 * t.skewY + height * t.pixelHeight>>
        /\ s = <<t.originX + width * t.pixelWidth + height * t.skewX,
                 t.originY + width * t.skewY + height * t.pixelHeight>>
    BY <1>2
  <2>2. /\ width * t.pixelWidth \in Int /\ height * t.skewX \in Int
        /\ width * t.skewY \in Int /\ height * t.pixelHeight \in Int
    BY <1>1
  <2>3. \A e \in Int : 0 * e = 0
    OBVIOUS
  <2> HIDE DEF p, q, r, s
  <2> QED BY <1>1, <2>1, <2>2, <2>3
<1> HIDE DEF p, q, r, s
<1>4. corners = {p, q, r, s}
  BY DEF p, q, r, s
<1> HIDE DEF corners
<1>5. {c[1] : c \in corners} = x /\ {c[2] : c \in corners} = y
  BY <1>3, <1>4 DEF Four
<1>6. Bounds(t, width, height)
        = <<Min({c[1] : c \in corners}), Min({c[2] : c \in corners}),
            Max({c[1] : c \in corners}), Max({c[2] : c \in corners})>>
  BY DEF Bounds, corners
<1> HIDE DEF x, y
<1> QED BY <1>5, <1>6 DEF x, y

LEMMA BoundsWiden ==
  ASSUME NEW t, IsExact(t), NEW width \in Nat, NEW height \in Nat,
         NEW wide \in Nat, NEW high \in Nat, width <= wide, height <= high
  PROVE  LET inner == Bounds(t, width, height)
             outer == Bounds(t, wide, high)
         IN /\ outer[1] <= inner[1] /\ outer[2] <= inner[2]
            /\ inner[3] <= outer[3] /\ inner[4] <= outer[4]
<1> DEFINE X(w, h) == Four(t.originX, w * t.pixelWidth, h * t.skewX)
           Y(w, h) == Four(t.originY, w * t.skewY, h * t.pixelHeight)
<1>1. /\ t.originX \in Int /\ t.pixelWidth \in Int /\ t.skewX \in Int
      /\ t.originY \in Int /\ t.skewY \in Int /\ t.pixelHeight \in Int
  BY DEF IsExact
<1>2. ASSUME NEW n \in Nat, NEW m \in Nat, n <= m, NEW e \in Int
      PROVE  n * e \in Int /\ m * e \in Int /\ Extends(n * e, m * e)
  <2>1. n * e \in Int /\ m * e \in Int
    OBVIOUS
  <2>2. PICK d \in Nat : m = n + d
    <3>1. m - n \in Nat /\ m = n + (m - n)
      BY <1>2
    <3> QED BY <3>1
  <2>3. m * e = n * e + d * e
    BY <2>2
  <2>4. (e >= 0 => n * e >= 0 /\ d * e >= 0) /\ (e <= 0 => n * e <= 0 /\ d * e <= 0)
    OBVIOUS
  <2>5. d * e \in Int
    OBVIOUS
  <2> QED BY <2>1, <2>3, <2>4, <2>5 DEF Extends
<1>3. /\ Min(X(wide, high)) <= Min(X(width, height))
      /\ Max(X(width, height)) <= Max(X(wide, high))
  BY <1>1, <1>2, FourWidens
<1>4. /\ Min(Y(wide, high)) <= Min(Y(width, height))
      /\ Max(Y(width, height)) <= Max(Y(wide, high))
  BY <1>1, <1>2, FourWidens
<1>5. /\ Bounds(t, width, height) = <<Min(X(width, height)), Min(Y(width, height)),
                                      Max(X(width, height)), Max(Y(width, height))>>
      /\ Bounds(t, wide, high) = <<Min(X(wide, high)), Min(Y(wide, high)),
                                   Max(X(wide, high)), Max(Y(wide, high))>>
  BY BoundsAre
<1> HIDE DEF X, Y
<1> QED BY <1>3, <1>4, <1>5

LEMMA OverviewInv == GeoInv => OverviewCovers
<1> SUFFICES ASSUME GeoInv, IsOpen
             PROVE  OverviewCovers
  BY DEF OverviewCovers
<1> DEFINE level == overview.level
           o == WithOverviewGeoreferencing(builder, level)
           g == GivenTransform(builder)
           t == g[1]
           s == ScaledForOverview(t, level)
           reduced == TransformOf(overview.tags, opened.crs)
           CeilDiv(n) == (n + level - 1) \div level
<1>0. \A x : Some(x) # None /\ Some(x)[1] = x
  BY DEF Some, None
<1>1. /\ IsBuilder(builder) /\ level \in Nat \ {0}
      /\ ValidGeoreferencing(builder) /\ ValidGeoreferencing(o)
      /\ overview.tags = ExtraTags(o)
  BY GeoAssumption DEF GeoInv, IsOpen, IsWritten, BuildsTags
<1>2. ImageWidth \in Nat /\ ImageHeight \in Nat
  BY GeoAssumption
<1>3. /\ opened.transform = g /\ opened.crs.raster = CurrentRasterType(builder)
      /\ g # None => opened.bounds = Some(Bounds(t, ImageWidth, ImageHeight))
  BY OpenReads
<1>4. /\ IsBuilder(o) /\ o.geokeys = builder.geokeys
      /\ g = None => GivenTransform(o) = None
      /\ g # None => GivenTransform(o) = Some(s)
  BY <1>1, OverviewGiven
<1>5. reduced = GivenTransform(o)
  <2>1. opened.crs.raster = CurrentRasterType(o)
    BY <1>3, <1>4 DEF CurrentRasterType
  <2> HIDE DEF o
  <2> QED BY <1>1, <1>4, <2>1, ModelReads
<1> HIDE DEF o, g, reduced, level
<1>6. (reduced = None) = (opened.transform = None)
  BY <1>0, <1>3, <1>4, <1>5
<1>7. ASSUME opened.transform # None
      PROVE  /\ \A col \in 0..ImageWidth, row \in 0..ImageHeight :
                  PixelToGeo(reduced[1], col, row)
                    = PixelToGeo(opened.transform[1], col * level, row * level)
             /\ LET inner == opened.bounds[1]
                    outer == Bounds(reduced[1], CeilDiv(ImageWidth), CeilDiv(ImageHeight))
                IN /\ outer[1] <= inner[1] /\ outer[2] <= inner[2]
                   /\ inner[3] <= outer[3] /\ inner[4] <= outer[4]
  <2>1. opened.transform[1] = t /\ reduced[1] = s /\ g # None
        /\ opened.bounds[1] = Bounds(t, ImageWidth, ImageHeight)
    BY <1>0, <1>3, <1>4, <1>5, <1>7
  <2>2. IsExact(t)
    <3> DEFINE crs == [raster |-> CurrentRasterType(builder)]
    <3>1. crs.raster = CurrentRasterType(builder)
      OBVIOUS
    <3> HIDE DEF crs
    <3> QED BY <1>1, <2>1, <3>1, ModelReads DEF g
  <2> HIDE DEF t, s
  <2>3. /\ IsExact(s)
        /\ \A col, row \in Int :
             PixelToGeo(s, col, row) = PixelToGeo(t, col * level, row * level)
    BY <1>1, <2>2, ScaledIsExact DEF s
  <2> DEFINE w == CeilDiv(ImageWidth)
             h == CeilDiv(ImageHeight)
  <2>4. ASSUME NEW n \in Nat
        PROVE  CeilDiv(n) \in Nat /\ CeilDiv(n) * level \in Nat /\ n <= CeilDiv(n) * level
    <3>1. n + level - 1 \in Nat
      BY <1>1
    <3>2. CeilDiv(n) \in Nat
      BY <1>1, <3>1, Quotient
    <3>3. ~(CeilDiv(n) * level < n)
      <4>1. ~(CeilDiv(n) < CeilDiv(n))
        BY <3>2
      <4> QED BY <1>1, <3>2, <4>1, RoundedUpCounts
    <3> HIDE DEF CeilDiv
    <3>4. CeilDiv(n) * level \in Nat
      BY <1>1, <3>2
    <3> QED BY <3>2, <3>3, <3>4
  <2>5. /\ w \in Nat /\ w * level \in Nat /\ ImageWidth <= w * level
        /\ h \in Nat /\ h * level \in Nat /\ ImageHeight <= h * level
    BY <1>2, <2>4
  <2> HIDE DEF CeilDiv, w, h
  <2>6. Bounds(s, w, h) = Bounds(t, w * level, h * level)
    <3>1. \A c, r \in Int : PixelToGeo(s, c, r) = PixelToGeo(t, c * level, r * level)
      BY <2>3
    <3>2. 0 * level = 0 /\ 0 \in Int /\ w \in Int /\ h \in Int
      BY <1>1, <2>5
    <3>3. /\ PixelToGeo(s, 0, 0) = PixelToGeo(t, 0, 0)
          /\ PixelToGeo(s, w, 0) = PixelToGeo(t, w * level, 0)
          /\ PixelToGeo(s, 0, h) = PixelToGeo(t, 0, h * level)
          /\ PixelToGeo(s, w, h) = PixelToGeo(t, w * level, h * level)
      BY <3>1, <3>2
    <3> QED BY <3>3 DEF Bounds
  <2>7. LET inner == Bounds(t, ImageWidth, ImageHeight)
            outer == Bounds(t, w * level, h * level)
        IN /\ outer[1] <= inner[1] /\ outer[2] <= inner[2]
           /\ inner[3] <= outer[3] /\ inner[4] <= outer[4]
    BY <1>2, <2>2, <2>5, BoundsWiden
  <2>8. \A col \in 0..ImageWidth, row \in 0..ImageHeight :
          PixelToGeo(s, col, row) = PixelToGeo(t, col * level, row * level)
    BY <1>2, <2>3
  <2> QED BY <2>1, <2>6, <2>7, <2>8 DEF w, h
<1> QED BY <1>6, <1>7 DEF OverviewCovers, level, reduced, CeilDiv

(***************************************************************************)
(* Metadata the builder accepts makes a file the reader opens, in any order   *)
(* of the setters (`validate_georeferencing`, `GeoKeyDirectory::serialize`    *)
(* and `parse`), but for a plain TIFF and a key set to no doubles at all.     *)
(***************************************************************************)
THEOREM AcceptedFilesOpen == Spec => []AcceptedOpens
BY GeoInvariant, AcceptedInv, PTL

(***************************************************************************)
(* The transform of an opened file is the one the setters say, whatever their *)
(* order, and it takes the corners of the pixels to the map and back.         *)
(***************************************************************************)
THEOREM TransformSurvives == Spec => []TransformReadsBack
BY GeoInvariant, TransformInv, PTL

(***************************************************************************)
(* Every key is read as it was set last, a coordinate reference system as a   *)
(* whole, and the EPSG code is the last one set.                              *)
(***************************************************************************)
THEOREM CrsSurvives == Spec => []CrsReadsBack
BY GeoInvariant, CrsInv, PTL

(***************************************************************************)
(* An overview has the transform of the base image with pixels `level` times  *)
(* as large, and covers it, for every level and size                          *)
(* (`with_overview_georeferencing`).                                         *)
(***************************************************************************)
THEOREM OverviewsCover == Spec => []OverviewCovers
BY GeoInvariant, OverviewInv, PTL
=============================================================================
