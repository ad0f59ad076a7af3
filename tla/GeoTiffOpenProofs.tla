-------------------------- MODULE GeoTiffOpenProofs --------------------------
(***************************************************************************)
(* What opening a file promises, in every directory graph: for chains and  *)
(* trees of any size, pointers that meet, dangle or run in circles, and    *)
(* any limits.  No IFD is read twice and the budgets are kept; a file that *)
(* opens is known with all the levels its chain and its SubIFD tree hold;  *)
(* and a file is refused only for the cause its error names.               *)
(***************************************************************************)
EXTENDS GeoTiffOpen, TLAPS, FiniteSetTheorems, SequenceTheorems

\* Induction over the naturals, see there.
Shared == INSTANCE SharedLemmas WITH MaxBytes <- 0, MaxSlots <- 0

----------------------------------------------------------------------------
(***************************************************************************)
(* Sums over finite sets.  The fold takes the members in an order nobody   *)
(* knows; what it computes does not depend on it.                          *)
(***************************************************************************)
Picked(s) == CHOOSE x \in s : TRUE

SumStep(f, iter, s) == IF s = {} THEN 0 ELSE f[Picked(s)] + iter[s \ {Picked(s)}]

\* The function the fold evaluates, for the parts of a set.
PartSums(f, S) == CHOOSE iter : iter = [s \in SUBSET S |-> SumStep(f, iter, s)]

\* The sum is the fold's value for the whole set.
LEMMA SumDef ==
  ASSUME NEW f, NEW S
  PROVE  SumFunctionOnSet(f, S) = PartSums(f, S)[S]
BY DEF SumFunctionOnSet, FoldFunctionOnSet, MapThenFoldSet, PartSums, SumStep, Picked

\* A part of a finite set without one of its members.
LEMMA PartLess ==
  ASSUME NEW S, IsFiniteSet(S), NEW s \in SUBSET S, NEW x \in s
  PROVE  /\ IsFiniteSet(s) /\ Cardinality(s) \in Nat \ {0}
         /\ s \ {x} \in SUBSET S /\ Cardinality(s \ {x}) = Cardinality(s) - 1
<1>1. IsFiniteSet(s)
  BY FS_Subset
<1>2. Cardinality(s \ {x}) = Cardinality(s) - 1 /\ IsFiniteSet(s \ {x})
  BY <1>1, FS_RemoveElement
<1>3. Cardinality(s) \in Nat /\ Cardinality(s \ {x}) \in Nat
  BY <1>1, <1>2, FS_CardinalityType
<1> QED BY <1>1, <1>2, <1>3

\* The fold satisfies its recursion.
LEMMA PartSumsIs ==
  ASSUME NEW f, NEW S, IsFiniteSet(S)
  PROVE  \A s \in SUBSET S : PartSums(f, S)[s] = SumStep(f, PartSums(f, S), s)
<1> DEFINE D(n) == {s \in SUBSET S : Cardinality(s) <= n}
           Upto(n, h) == /\ h = [s \in D(n) |-> h[s]]
                         /\ \A s \in D(n) : h[s] = SumStep(f, h, s)
           Q == {n \in Nat : \E h : Upto(n, h)}
           Fixed(h) == h = [s \in SUBSET S |-> SumStep(f, h, s)]
<1>1. \A s \in SUBSET S : s # {} => /\ Picked(s) \in s /\ Cardinality(s) \in Nat \ {0}
                                    /\ s \ {Picked(s)} \in SUBSET S
                                    /\ Cardinality(s \ {Picked(s)}) = Cardinality(s) - 1
  <2> SUFFICES ASSUME NEW s \in SUBSET S, s # {}
               PROVE  /\ Picked(s) \in s /\ Cardinality(s) \in Nat \ {0}
                      /\ s \ {Picked(s)} \in SUBSET S
                      /\ Cardinality(s \ {Picked(s)}) = Cardinality(s) - 1
    OBVIOUS
  <2>1. Picked(s) \in s
    BY DEF Picked
  <2> QED BY <2>1, PartLess
<1>2. Cardinality({}) = 0 /\ Cardinality(S) \in Nat /\ \A s \in SUBSET S : Cardinality(s) <= Cardinality(S)
  BY FS_EmptySet, FS_CardinalityType, FS_Subset
<1>3. \A s \in D(0) : s = {}
  <2> SUFFICES ASSUME NEW s \in SUBSET S, Cardinality(s) <= 0, s # {} PROVE FALSE
    OBVIOUS
  <2>1. Cardinality(s) \in Nat \ {0}
    BY <1>1
  <2> QED BY <2>1
<1>4. 0 \in Q
  <2> DEFINE h == [s \in D(0) |-> 0]
  <2>1. Upto(0, h)
    BY <1>3 DEF SumStep
  <2> QED BY <2>1
<1>5. ASSUME NEW n \in Nat, NEW h, Upto(n, h) PROVE \E g : Upto(n + 1, g)
  <2> DEFINE g == [s \in D(n + 1) |-> SumStep(f, h, s)]
  <2>1. \A s \in SUBSET S : s # {} /\ s \in D(n + 1) => s \ {Picked(s)} \in D(n)
    BY <1>1
  <2>2. \A s \in D(n) : s \in D(n + 1) /\ g[s] = h[s]
    <3>1. \A s \in D(n) : s \in D(n + 1)
      <4> SUFFICES ASSUME NEW s \in D(n) PROVE s \in D(n + 1)
        OBVIOUS
      <4>1. Cardinality(s) \in Nat /\ Cardinality(s) <= n
        BY FS_Subset, FS_CardinalityType
      <4> QED BY <4>1
    <3> QED BY <1>5, <3>1
  <2>3. ASSUME NEW s \in D(n + 1) PROVE g[s] = SumStep(f, g, s)
    <3>1. CASE s = {}
      BY <3>1 DEF SumStep
    <3>2. CASE s # {}
      <4>1. g[s \ {Picked(s)}] = h[s \ {Picked(s)}]
        BY <2>1, <2>2, <3>2
      <4> QED BY <3>2, <4>1 DEF SumStep
    <3> QED BY <3>1, <3>2
  <2>4. g = [s \in D(n + 1) |-> g[s]]
    OBVIOUS
  <2>5. Upto(n + 1, g)
    BY <2>3, <2>4
  <2> HIDE DEF Upto, g
  <2> QED BY <2>5
<1>6. PICK h : Upto(Cardinality(S), h)
  <2> HIDE DEF Upto
  <2>1. \A n \in Nat : n \in Q => n + 1 \in Q
    BY <1>5
  <2> HIDE DEF Q
  <2>2. Cardinality(S) \in Q
    BY <1>2, <1>4, <2>1, Shared!SetInduction
  <2> QED BY <2>2 DEF Q
<1>7. Fixed(h)
  <2>1. D(Cardinality(S)) = SUBSET S
    BY <1>2
  <2> QED BY <1>6, <2>1
<1>8. Fixed(PartSums(f, S))
  <2>1. PartSums(f, S) = CHOOSE iter : Fixed(iter)
    BY DEF PartSums
  <2> HIDE DEF Fixed
  <2> QED BY <1>7, <2>1
<1> QED BY <1>8

\* Taking any one of the members first gives the same sum, which is a natural number.
LEMMA PartSumsAdd ==
  ASSUME NEW f, NEW S, IsFiniteSet(S), \A x \in S : f[x] \in Nat
  PROVE  \A s \in SUBSET S :
           /\ PartSums(f, S)[s] \in Nat
           /\ \A x \in s : PartSums(f, S)[s] = f[x] + PartSums(f, S)[s \ {x}]
<1> DEFINE h == PartSums(f, S)
           OK(s) == h[s] \in Nat /\ \A x \in s : h[s] = f[x] + h[s \ {x}]
           Q == {n \in Nat : \A s \in SUBSET S : Cardinality(s) <= n => OK(s)}
<1>1. \A s \in SUBSET S : h[s] = SumStep(f, h, s)
  BY PartSumsIs
<1>2. ASSUME NEW s \in SUBSET S, NEW x \in s
      PROVE  /\ Cardinality(s) \in Nat \ {0} /\ s \ {x} \in SUBSET S
             /\ Cardinality(s \ {x}) = Cardinality(s) - 1
  BY PartLess
<1>3. \A s \in SUBSET S : s # {} => Picked(s) \in s
  BY DEF Picked
<1>4. OK({})
  BY <1>1 DEF SumStep
<1> HIDE DEF h
<1>5. 0 \in Q
  <2> SUFFICES ASSUME NEW s \in SUBSET S, Cardinality(s) <= 0, s # {} PROVE FALSE
    BY <1>4
  <2>1. PICK x \in s : TRUE
    OBVIOUS
  <2>2. Cardinality(s) \in Nat \ {0}
    BY <1>2, <2>1
  <2> QED BY <2>2
<1>6. ASSUME NEW n \in Nat, n \in Q, NEW s \in SUBSET S, Cardinality(s) <= n + 1
      PROVE  OK(s)
  <2> SUFFICES ASSUME s # {} PROVE OK(s)
    BY <1>4
  <2> DEFINE c == Picked(s)
             r == s \ {c}
  <2>1. c \in s /\ r \in SUBSET S /\ Cardinality(r) <= n /\ h[s] = f[c] + h[r]
    <3>1. c \in s /\ h[s] = f[c] + h[r]
      BY <1>1, <1>3 DEF SumStep
    <3> QED BY <1>2, <1>6, <3>1
  <2>2. OK(r)
    BY <1>6, <2>1
  <2>3. h[s] \in Nat
    BY <2>1, <2>2
  <2>4. ASSUME NEW x \in s PROVE h[s] = f[x] + h[s \ {x}]
    <3> DEFINE t == s \ {x}
    <3>1. CASE x = c
      BY <2>1, <3>1
    <3>2. CASE x # c
      <4>1. x \in r /\ c \in t
        BY <2>1, <3>2
      <4>2. t \in SUBSET S /\ Cardinality(t) <= n
        BY <1>2, <1>6
      <4>3. h[r] = f[x] + h[r \ {x}]
        BY <2>2, <4>1
      <4>4. OK(t)
        BY <1>6, <4>2
      <4>5. h[t] = f[c] + h[t \ {c}]
        BY <4>1, <4>4
      <4>6. r \ {x} = t \ {c}
        OBVIOUS
      <4>7. f[x] \in Nat /\ f[c] \in Nat /\ h[r \ {x}] \in Nat
        <5>1. r \ {x} \in SUBSET S /\ Cardinality(r \ {x}) <= n
          BY <1>2, <2>1, <4>1
        <5>2. OK(r \ {x})
          BY <1>6, <5>1
        <5> QED BY <2>1, <5>2
      <4>8. h[s] = f[c] + h[r] /\ h[t \ {c}] = h[r \ {x}]
        BY <2>1, <4>6
      <4> HIDE DEF t, r, c
      <4>9. h[s] = f[x] + h[t]
        BY ONLY <4>3, <4>5, <4>7, <4>8
      <4> QED BY <4>9 DEF t
    <3> QED BY <3>1, <3>2
  <2> QED BY <2>3, <2>4
<1>7. \A n \in Nat : n \in Q => n + 1 \in Q
  <2> HIDE DEF OK
  <2> QED BY <1>6
<1>8. ASSUME NEW s \in SUBSET S PROVE OK(s)
  <2> HIDE DEF OK
  <2>1. Cardinality(s) \in Nat
    BY FS_Subset, FS_CardinalityType
  <2>2. Cardinality(s) \in Q
    <3> HIDE DEF Q
    <3> QED BY <1>5, <1>7, <2>1, Shared!SetInduction
  <2> QED BY <2>1, <2>2
<1> QED BY <1>8 DEF h

\* A sum depends on the values of its members alone.
LEMMA PartSumsSame ==
  ASSUME NEW f, NEW g, NEW T, IsFiniteSet(T), NEW S \in SUBSET T, \A x \in S : f[x] = g[x]
  PROVE  \A s \in SUBSET S : PartSums(f, S)[s] = PartSums(g, T)[s]
<1> DEFINE h == PartSums(f, S)
           k == PartSums(g, T)
           Q == {n \in Nat : \A s \in SUBSET S : Cardinality(s) <= n => h[s] = k[s]}
<1>1. IsFiniteSet(S)
  BY FS_Subset
<1>2. \A s \in SUBSET S : h[s] = SumStep(f, h, s) /\ k[s] = SumStep(g, k, s)
  <2>1. \A s \in SUBSET S : h[s] = SumStep(f, h, s)
    BY <1>1, PartSumsIs
  <2>2. \A s \in SUBSET T : k[s] = SumStep(g, k, s)
    BY PartSumsIs
  <2>3. SUBSET S \subseteq SUBSET T
    OBVIOUS
  <2> QED BY <2>1, <2>2, <2>3
<1>3. ASSUME NEW s \in SUBSET S, s # {}
      PROVE  /\ Picked(s) \in s /\ Cardinality(s) \in Nat \ {0} /\ s \ {Picked(s)} \in SUBSET S
             /\ Cardinality(s \ {Picked(s)}) = Cardinality(s) - 1
  <2>1. Picked(s) \in s
    BY <1>3 DEF Picked
  <2> QED BY <1>1, <2>1, PartLess
<1>4. h[{}] = k[{}]
  BY <1>2 DEF SumStep
<1> HIDE DEF h, k
<1>5. 0 \in Q
  <2> SUFFICES ASSUME NEW s \in SUBSET S, Cardinality(s) <= 0, s # {} PROVE FALSE
    BY <1>4
  <2>1. Cardinality(s) \in Nat \ {0}
    BY <1>3
  <2> QED BY <2>1
<1>6. ASSUME NEW n \in Nat, n \in Q, NEW s \in SUBSET S, Cardinality(s) <= n + 1
      PROVE  h[s] = k[s]
  <2> SUFFICES ASSUME s # {} PROVE h[s] = k[s]
    BY <1>4
  <2>1. /\ Picked(s) \in s /\ s \ {Picked(s)} \in SUBSET S
        /\ Cardinality(s \ {Picked(s)}) <= n
    BY <1>3, <1>6
  <2>2. h[s \ {Picked(s)}] = k[s \ {Picked(s)}]
    BY <1>6, <2>1
  <2>3. f[Picked(s)] = g[Picked(s)]
    BY <2>1
  <2> QED BY <1>2, <2>2, <2>3 DEF SumStep
<1>7. \A n \in Nat : n \in Q => n + 1 \in Q
  BY <1>6
<1>8. ASSUME NEW s \in SUBSET S PROVE h[s] = k[s]
  <2>1. Cardinality(s) \in Nat
    BY <1>1, FS_Subset, FS_CardinalityType
  <2>2. Cardinality(s) \in Q
    <3> HIDE DEF Q
    <3> QED BY <1>5, <1>7, <2>1, Shared!SetInduction
  <2> QED BY <2>1, <2>2
<1> QED BY <1>8 DEF h, k

\* Functions that agree on a finite set have the same sum over it.
LEMMA SumSame ==
  ASSUME NEW f, NEW g, NEW S, IsFiniteSet(S), \A x \in S : f[x] = g[x]
  PROVE  SumFunctionOnSet(f, S) = SumFunctionOnSet(g, S)
<1>1. PartSums(f, S)[S] = PartSums(g, S)[S]
  BY PartSumsSame
<1> QED BY <1>1, SumDef

(***************************************************************************)
(* The sum over a finite set of naturals is one, it is nothing for the     *)
(* empty set, and a member adds its value.                                 *)
(***************************************************************************)
LEMMA SumAdds ==
  ASSUME NEW f, NEW S, IsFiniteSet(S), \A x \in S : f[x] \in Nat
  PROVE  /\ SumFunctionOnSet(f, S) \in Nat
         /\ S = {} => SumFunctionOnSet(f, S) = 0
         /\ \A x \in S : SumFunctionOnSet(f, S) = f[x] + SumFunctionOnSet(f, S \ {x})
<1>1. /\ PartSums(f, S)[S] \in Nat
      /\ \A x \in S : PartSums(f, S)[S] = f[x] + PartSums(f, S)[S \ {x}]
  BY PartSumsAdd
<1>2. ASSUME NEW x \in S PROVE SumFunctionOnSet(f, S \ {x}) = PartSums(f, S)[S \ {x}]
  <2>1. S \ {x} \in SUBSET S
    OBVIOUS
  <2>2. PartSums(f, S \ {x})[S \ {x}] = PartSums(f, S)[S \ {x}]
    BY <2>1, PartSumsSame
  <2> QED BY <2>2, SumDef
<1>3. S = {} => PartSums(f, S)[S] = 0
  BY PartSumsIs DEF SumStep
<1> QED BY <1>1, <1>2, <1>3, SumDef

\* A larger set of naturals has no smaller sum.
LEMMA SumGrows ==
  ASSUME NEW f, NEW T, IsFiniteSet(T), \A x \in T : f[x] \in Nat, NEW S \in SUBSET T
  PROVE  SumFunctionOnSet(f, S) <= SumFunctionOnSet(f, T)
<1> DEFINE h == PartSums(f, T)
           Q == {n \in Nat : \A s \in SUBSET T :
                   Cardinality(s) <= n /\ S \subseteq s => h[S] <= h[s]}
<1>1. \A s \in SUBSET T : h[s] \in Nat /\ \A x \in s : h[s] = f[x] + h[s \ {x}]
  BY PartSumsAdd
<1>2. ASSUME NEW s \in SUBSET T, NEW x \in s
      PROVE  /\ Cardinality(s) \in Nat \ {0} /\ s \ {x} \in SUBSET T
             /\ Cardinality(s \ {x}) = Cardinality(s) - 1
  BY PartLess
<1>3. SumFunctionOnSet(f, S) = h[S] /\ SumFunctionOnSet(f, T) = h[T]
  <2>1. PartSums(f, S)[S] = h[S]
    BY PartSumsSame
  <2> QED BY <2>1, SumDef
<1> HIDE DEF h
<1>4. 0 \in Q
  <2> SUFFICES ASSUME NEW s \in SUBSET T, Cardinality(s) <= 0, S \subseteq s PROVE h[S] <= h[s]
    OBVIOUS
  <2>1. s = {}
    <3> SUFFICES ASSUME NEW x \in s PROVE FALSE
      OBVIOUS
    <3>1. Cardinality(s) \in Nat \ {0}
      BY <1>2
    <3> QED BY <3>1
  <2>2. S = s
    BY <2>1
  <2> QED BY <1>1, <2>2
<1>5. ASSUME NEW n \in Nat, n \in Q, NEW s \in SUBSET T, Cardinality(s) <= n + 1, S \subseteq s
      PROVE  h[S] <= h[s]
  <2>1. CASE s = S
    BY <1>1, <2>1
  <2>2. CASE s # S
    <3>1. PICK x \in s : x \notin S
      BY <1>5, <2>2
    <3>2. s \ {x} \in SUBSET T /\ Cardinality(s \ {x}) <= n /\ S \subseteq s \ {x}
      BY <1>2, <1>5, <3>1
    <3>3. h[S] <= h[s \ {x}]
      BY <1>5, <3>2
    <3>4. h[s] = f[x] + h[s \ {x}] /\ f[x] \in Nat /\ h[s \ {x}] \in Nat /\ h[S] \in Nat
      BY <1>1, <3>2
    <3> QED BY ONLY <3>3, <3>4
  <2> QED BY <2>1, <2>2
<1>6. \A n \in Nat : n \in Q => n + 1 \in Q
  BY <1>5
<1>7. Cardinality(T) \in Nat
  BY FS_CardinalityType
<1>8. Cardinality(T) \in Q
  <2> HIDE DEF Q
  <2> QED BY <1>4, <1>6, <1>7, Shared!SetInduction
<1>9. h[S] <= h[T]
  BY <1>7, <1>8
<1> QED BY <1>3, <1>9
\* A new member adds its value.
LEMMA SumInsert ==
  ASSUME NEW f, NEW S, IsFiniteSet(S), NEW x, x \notin S, \A y \in S \cup {x} : f[y] \in Nat
  PROVE  SumFunctionOnSet(f, S \cup {x}) = SumFunctionOnSet(f, S) + f[x]
<1>1. IsFiniteSet(S \cup {x}) /\ (S \cup {x}) \ {x} = S
  BY FS_AddElement
<1>2. SumFunctionOnSet(f, S \cup {x}) = f[x] + SumFunctionOnSet(f, S)
  BY <1>1, SumAdds
<1>3. SumFunctionOnSet(f, S) \in Nat
  BY SumAdds
<1> QED BY <1>2, <1>3

\* What a part of a set sums up to, and one member more, is no more than the sum of all.
LEMMA SumAtLeast ==
  ASSUME NEW f, NEW g, NEW T, IsFiniteSet(T), \A y \in T : f[y] \in Nat,
         NEW S \in SUBSET T, NEW x \in T \ S, \A y \in S : g[y] = f[y]
  PROVE  SumFunctionOnSet(g, S) + f[x] <= SumFunctionOnSet(f, T)
<1>1. IsFiniteSet(S)
  BY FS_Subset
<1>2. SumFunctionOnSet(g, S) = SumFunctionOnSet(f, S)
  BY <1>1, SumSame
<1>3. SumFunctionOnSet(f, S \cup {x}) = SumFunctionOnSet(f, S) + f[x]
  BY <1>1, SumInsert
<1>4. S \cup {x} \in SUBSET T
  OBVIOUS
<1>5. SumFunctionOnSet(f, S \cup {x}) <= SumFunctionOnSet(f, T)
  BY <1>4, SumGrows
<1> QED BY <1>2, <1>3, <1>5

----------------------------------------------------------------------------
Node == [offset : Nat, depth : Nat]

\* Nodes of the stack, none of them twice.
Distinct(nodes) ==
  \A i, j \in 1..Len(nodes) : nodes[i].offset = nodes[j].offset => i = j

----------------------------------------------------------------------------
\* PushedTo satisfies its recursion.
LEMMA PushedToIs ==
  ASSUME NEW subs \in Seq(Nat), NEW depth \in Nat, NEW known
  PROVE  /\ PushedTo(subs, depth, known, 0) = <<>>
         /\ \A m \in 1..Len(subs) :
              PushedTo(subs, depth, known, m) =
                IF Len(subs) - m + 1 \in Unseen(subs, known)
                THEN Append(PushedTo(subs, depth, known, m - 1),
                            [offset |-> subs[Len(subs) - m + 1], depth |-> depth])
                ELSE PushedTo(subs, depth, known, m - 1)
<1> DEFINE N == Len(subs)
           Grown(x, m) == IF N - m + 1 \in Unseen(subs, known)
                          THEN Append(x, [offset |-> subs[N - m + 1], depth |-> depth])
                          ELSE x
           IsStack(k, f) == /\ f = [m \in 0..k |-> f[m]] /\ f[0] = <<>>
                            /\ \A m \in 1..k : f[m] = Grown(f[m - 1], m)
           S == {k \in Nat : \E f : IsStack(k, f)}
           IsFixed(h) == h = [m \in 0..N |-> IF m = 0 THEN <<>> ELSE Grown(h[m - 1], m)]
<1>0. N \in Nat
  OBVIOUS
<1> DEFINE pushed == CHOOSE h : IsFixed(h)
<1>1. \A n : PushedTo(subs, depth, known, n) = pushed[n]
  BY DEF PushedTo
<1> HIDE DEF Grown
<1>2. 0 \in S
  <2>1. IsStack(0, [m \in 0..0 |-> <<>>])
    OBVIOUS
  <2> QED BY <2>1
<1>3. ASSUME NEW k \in Nat, NEW f, IsStack(k, f)
      PROVE  \E g : IsStack(k + 1, g)
  <2> DEFINE top == Grown(f[k], k + 1)
             g == [m \in 0..(k + 1) |-> IF m <= k THEN f[m] ELSE top]
  <2> HIDE DEF top
  <2>1. g[0] = <<>> /\ g = [m \in 0..(k + 1) |-> g[m]]
    BY <1>3
  <2>2. ASSUME NEW m \in 1..(k + 1) PROVE g[m] = Grown(g[m - 1], m)
    <3>1. CASE m <= k
      <4>1. m \in 1..k /\ m \in 0..(k + 1) /\ m - 1 \in 0..(k + 1) /\ m - 1 <= k
        BY <3>1
      <4>2. g[m] = f[m] /\ g[m - 1] = f[m - 1]
        BY <3>1, <4>1
      <4> QED BY <4>1, <4>2, <1>3
    <3>2. CASE m = k + 1
      <4>1. g[m] = top /\ g[m - 1] = f[k]
        BY <3>2
      <4> QED BY <3>2, <4>1 DEF top
    <3> QED BY <3>1, <3>2
  <2>3. IsStack(k + 1, g)
    BY <2>1, <2>2
  <2> HIDE DEF g, IsStack
  <2> QED BY <2>3
<1>4. PICK f : IsStack(N, f)
  <2> HIDE DEF IsStack
  <2>1. \A k \in Nat : k \in S => k + 1 \in S
    BY <1>3
  <2> HIDE DEF S
  <2>2. N \in S
    BY <1>0, <1>2, <2>1, Shared!SetInduction
  <2> QED BY <2>2 DEF S
<1>5. IsFixed(f)
  <2>1. \A m \in 0..N : f[m] = IF m = 0 THEN <<>> ELSE Grown(f[m - 1], m)
    BY <1>0, <1>4
  <2>2. f = [m \in 0..N |-> f[m]]
    BY <1>4
  <2> QED BY <2>1, <2>2
<1>6. IsFixed(pushed)
  <2> HIDE DEF IsFixed, IsStack
  <2> QED BY <1>5
<1> HIDE DEF pushed
<1>7. pushed[0] = <<>> /\ \A m \in 1..N : pushed[m] = Grown(pushed[m - 1], m)
  <2>1. \A m \in 0..N : pushed[m] = IF m = 0 THEN <<>> ELSE Grown(pushed[m - 1], m)
    BY <1>6
  <2> QED BY <1>0, <2>1
<1> QED BY <1>1, <1>7 DEF Grown

(***************************************************************************)
(* push_subifd_offsets: what is pushed are pointers not seen before, each  *)
(* once, and no more than there are.                                       *)
(***************************************************************************)
LEMMA PushedNodes ==
  ASSUME NEW subs \in Seq(Nat), NEW depth \in Nat, NEW known
  PROVE  /\ Pushed(subs, depth, known) \in Seq(Node)
         /\ Len(Pushed(subs, depth, known)) <= Len(subs)
         /\ Distinct(Pushed(subs, depth, known))
         /\ \A i \in 1..Len(Pushed(subs, depth, known)) :
              /\ Pushed(subs, depth, known)[i].offset \notin known
              /\ Pushed(subs, depth, known)[i].offset \in Range(subs)
              /\ Pushed(subs, depth, known)[i].depth = depth
<1> DEFINE N == Len(subs)
           new == Unseen(subs, known)
           P(m) == PushedTo(subs, depth, known, m)
           From(m, x) == x.depth = depth /\ \E k \in new : k > N - m /\ x.offset = subs[k]
           OK(m) == /\ P(m) \in Seq(Node) /\ Len(P(m)) <= m /\ Distinct(P(m))
                    /\ \A i \in 1..Len(P(m)) : From(m, P(m)[i])
           S == {m \in Nat : m <= N => OK(m)}
<1>0. /\ N \in Nat /\ DOMAIN subs = 1..N
      /\ \A k \in new : k \in 1..N /\ subs[k] \notin known /\ subs[k] \in Nat
                        /\ \A j \in 1..N : j > k => subs[j] # subs[k]
  BY DEF Unseen
<1>1. P(0) = <<>>
  BY PushedToIs
<1>2. \A m \in 1..N :
        P(m) = IF N - m + 1 \in new
               THEN Append(P(m - 1), [offset |-> subs[N - m + 1], depth |-> depth]) ELSE P(m - 1)
  BY PushedToIs
<1> HIDE DEF P, N, new
<1>3. 0 \in S
  <2>1. P(0) \in Seq(Node) /\ Len(P(0)) = 0
    <3>1. <<>> \in Seq(Node) /\ Len(<<>>) = 0
      BY EmptySeq
    <3> QED BY <1>1, <3>1
  <2>2. Distinct(P(0))
    BY <2>1 DEF Distinct
  <2> HIDE DEF From
  <2> QED BY <2>1, <2>2
<1>4. ASSUME NEW m \in Nat, m + 1 <= N, OK(m) PROVE OK(m + 1)
  <2> DEFINE at == N - m
  <2>1. m + 1 \in 1..N /\ N - (m + 1) + 1 = at /\ (m + 1) - 1 = m /\ at \in Int
    BY <1>0, <1>4
  <2>2. \A x : From(m, x) => From(m + 1, x)
    BY <1>0
  <2>3. CASE at \notin new
    <3>1. P(m + 1) = P(m)
      BY <1>2, <2>1, <2>3
    <3>2. Len(P(m)) <= m + 1
      BY <1>4
    <3> HIDE DEF From
    <3> QED BY <1>4, <2>2, <3>1, <3>2
  <2>4. CASE at \in new
    <3> DEFINE e == [offset |-> subs[at], depth |-> depth]
               u == P(m)
               v == P(m + 1)
    <3>1. v = Append(u, e)
      BY <1>2, <2>1, <2>4
    <3>2. e \in Node /\ e.offset = subs[at] /\ e.depth = depth
      BY <1>0, <2>4 DEF Node
    <3>3. /\ u \in Seq(Node) /\ Len(u) \in Nat /\ Len(u) <= m /\ Distinct(u)
          /\ \A i \in 1..Len(u) : From(m, u[i])
      BY <1>4
    <3> HIDE DEF e, u, v, From
    <3>4. /\ v \in Seq(Node) /\ Len(v) = Len(u) + 1 /\ v[Len(v)] = e
          /\ \A i \in 1..Len(u) : v[i] = u[i]
      BY <3>1, <3>2, <3>3
    <3>5. From(m + 1, e)
      <4>1. at > N - (m + 1)
        BY <1>0
      <4> QED BY <2>4, <3>2, <4>1 DEF From
    <3>6. \A i \in 1..Len(v) : From(m + 1, v[i])
      <4> SUFFICES ASSUME NEW i \in 1..Len(v) PROVE From(m + 1, v[i])
        OBVIOUS
      <4>1. i = Len(v) \/ i \in 1..Len(u)
        BY <3>3, <3>4
      <4> QED BY <2>2, <3>3, <3>4, <3>5, <4>1
    <3>7. \A i \in 1..Len(u) : u[i].offset # e.offset
      <4> SUFFICES ASSUME NEW i \in 1..Len(u) PROVE u[i].offset # e.offset
        OBVIOUS
      <4>1. PICK k \in new : k > N - m /\ u[i].offset = subs[k]
        BY <3>3 DEF From
      <4>2. k \in 1..N /\ k > at
        BY <1>0, <4>1
      <4> QED BY <1>0, <2>4, <3>2, <4>1, <4>2
    <3>8. Distinct(v)
      <4> SUFFICES ASSUME NEW i \in 1..Len(v), NEW j \in 1..Len(v), v[i].offset = v[j].offset
                   PROVE  i = j
        BY DEF Distinct
      <4>1. (i = Len(v) \/ i \in 1..Len(u)) /\ (j = Len(v) \/ j \in 1..Len(u))
        BY <3>3, <3>4
      <4> QED BY <3>3, <3>4, <3>7, <4>1 DEF Distinct
    <3>9. Len(v) <= m + 1
      BY <3>3, <3>4
    <3> QED BY <3>4, <3>6, <3>8, <3>9 DEF v
  <2> QED BY <2>3, <2>4
<1>5. OK(N)
  <2> HIDE DEF OK
  <2>1. \A m \in Nat : m \in S => m + 1 \in S
    BY <1>0, <1>4
  <2> HIDE DEF S
  <2>2. N \in S
    BY <1>0, <1>3, <2>1, Shared!SetInduction
  <2> QED BY <1>0, <2>2 DEF S
<1>6. \A i \in 1..Len(P(N)) :
        P(N)[i].offset \notin known /\ P(N)[i].offset \in Range(subs) /\ P(N)[i].depth = depth
  <2> SUFFICES ASSUME NEW i \in 1..Len(P(N))
               PROVE  /\ P(N)[i].offset \notin known /\ P(N)[i].offset \in Range(subs)
                      /\ P(N)[i].depth = depth
    OBVIOUS
  <2>1. PICK k \in new : P(N)[i].offset = subs[k] /\ P(N)[i].depth = depth
    BY <1>5
  <2> QED BY <1>0, <2>1 DEF Range
<1> QED BY <1>5, <1>6 DEF Pushed, P, N

----------------------------------------------------------------------------
(***************************************************************************)
(* The traversal, with stack p, nodes read s, v visits counted, offsets k  *)
(* seen, and the offsets c of the chain's images, which it must not read.  *)
(***************************************************************************)
Work(p, s, v, k, c) ==
  /\ p \in Seq(Node) /\ s \in Seq(Nat) /\ v \in Nat
  /\ v <= MaxNodes /\ Len(s) + Len(p) <= v
  /\ Distinct(p)
  /\ \A i, j \in 1..Len(s) : s[i] = s[j] => i = j
  /\ \A i \in 1..Len(p) : p[i].offset \in k /\ p[i].offset \notin c
  /\ \A j \in 1..Len(s) : s[j] \in k /\ s[j] \notin c
  /\ \A i \in 1..Len(p), j \in 1..Len(s) : p[i].offset # s[j]

\* Before the overviews are looked for there is nothing to visit.
LEMMA NoWork ==
  ASSUME NEW k, NEW c
  PROVE  Work(<<>>, <<>>, 0, k, c)
<1>1. /\ <<>> \in Seq(Node) /\ <<>> \in Seq(Nat) /\ Len(<<>>) = 0 /\ MaxNodes \in Nat
  BY BudgetsAssumption
<1> QED BY <1>1 DEF Work, Distinct

\* Pushing the pointers of an IFD: the new ones are seen, the others pushed by no one twice.
LEMMA PushKeeps ==
  ASSUME NEW p, NEW s, NEW v, NEW k, NEW c, Work(p, s, v, k, c), c \subseteq k,
         NEW subs \in Seq(Nat), NEW depth \in Nat, v + Len(subs) <= MaxNodes
  PROVE  Work(p \o Pushed(subs, depth, k), s, v + Len(subs), k \cup Range(subs), c)
<1> DEFINE q == Pushed(subs, depth, k)
           r == p \o q
           known == k \cup Range(subs)
           more == v + Len(subs)
<1>1. /\ q \in Seq(Node) /\ Len(q) <= Len(subs) /\ Distinct(q)
      /\ \A i \in 1..Len(q) : q[i].offset \notin k /\ q[i].offset \in known
  BY PushedNodes
<1>2. /\ p \in Seq(Node) /\ s \in Seq(Nat) /\ v \in Nat /\ Len(s) + Len(p) <= v
      /\ Len(subs) \in Nat /\ Distinct(p)
      /\ \A i, j \in 1..Len(s) : s[i] = s[j] => i = j
      /\ \A i \in 1..Len(p) : p[i].offset \in k /\ p[i].offset \notin c
      /\ \A j \in 1..Len(s) : s[j] \in k /\ s[j] \notin c
      /\ \A i \in 1..Len(p), j \in 1..Len(s) : p[i].offset # s[j]
  BY DEF Work
<1> HIDE DEF q
<1>3. /\ r \in Seq(Node) /\ Len(r) = Len(p) + Len(q)
      /\ \A i \in 1..(Len(p) + Len(q)) : r[i] = IF i <= Len(p) THEN p[i] ELSE q[i - Len(p)]
  BY <1>1, <1>2, ConcatProperties
<1>4. Len(p) \in Nat /\ Len(q) \in Nat /\ Len(s) \in Nat
  BY <1>1, <1>2
<1> HIDE DEF r
<1>5. ASSUME NEW i \in 1..Len(r)
      PROVE  \/ i \in 1..Len(p) /\ r[i] = p[i]
             \/ \E j \in 1..Len(q) : i = Len(p) + j /\ r[i] = q[j]
  <2>1. CASE i <= Len(p)
    BY <1>3, <1>4, <2>1
  <2>2. CASE ~(i <= Len(p))
    <3>1. i - Len(p) \in 1..Len(q) /\ i = Len(p) + (i - Len(p))
      BY <1>3, <1>4, <2>2
    <3>2. r[i] = q[i - Len(p)]
      BY <1>3, <2>2
    <3> QED BY <3>1, <3>2
  <2> QED BY <2>1, <2>2
<1>6. Distinct(r)
  <2> SUFFICES ASSUME NEW i \in 1..Len(r), NEW j \in 1..Len(r), r[i].offset = r[j].offset
               PROVE  i = j
    BY DEF Distinct
  <2>1. \/ i \in 1..Len(p) /\ r[i] = p[i]
        \/ \E h \in 1..Len(q) : i = Len(p) + h /\ r[i] = q[h]
    BY <1>5
  <2>2. \/ j \in 1..Len(p) /\ r[j] = p[j]
        \/ \E h \in 1..Len(q) : j = Len(p) + h /\ r[j] = q[h]
    BY <1>5
  <2>3. \A h \in 1..Len(p), g \in 1..Len(q) : p[h].offset # q[g].offset
    BY <1>1, <1>2
  <2>4. CASE i \in 1..Len(p) /\ r[i] = p[i]
    <3>1. j \in 1..Len(p) /\ r[j] = p[j]
      BY <2>2, <2>3, <2>4
    <3> QED BY <1>2, <2>4, <3>1 DEF Distinct
  <2>5. CASE \E h \in 1..Len(q) : i = Len(p) + h /\ r[i] = q[h]
    <3>1. \E h \in 1..Len(q) : j = Len(p) + h /\ r[j] = q[h]
      BY <2>2, <2>3, <2>5
    <3> QED BY <1>1, <2>5, <3>1 DEF Distinct
  <2> QED BY <2>1, <2>4, <2>5
<1>7. \A i \in 1..Len(r) : r[i].offset \in known /\ r[i].offset \notin c
  BY <1>1, <1>2, <1>5
<1>8. \A i \in 1..Len(r), j \in 1..Len(s) : r[i].offset # s[j]
  BY <1>1, <1>2, <1>5
<1>9. Len(s) + Len(r) <= more /\ more \in Nat
  BY <1>1, <1>2, <1>3, <1>4
<1>10. \A j \in 1..Len(s) : s[j] \in known /\ s[j] \notin c
  BY <1>2
<1> HIDE DEF known, more
<1>11. more <= MaxNodes
  BY DEF more
<1>12. Work(r, s, more, known, c)
  BY <1>2, <1>3, <1>6, <1>7, <1>8, <1>9, <1>10, <1>11 DEF Work
<1> QED BY <1>12 DEF r, q, known, more

\* Reading the node on top of the stack.
LEMMA PopKeeps ==
  ASSUME NEW p, NEW s, NEW v, NEW k, NEW c, Work(p, s, v, k, c), p # <<>>
  PROVE  /\ Last(p) \in Node
         /\ Work(Front(p), Append(s, Last(p).offset), v, k, c)
<1> DEFINE n == Len(p)
           top == p[n].offset
           rest == SubSeq(p, 1, n - 1)
           t == Append(s, top)
<1>1. /\ p \in Seq(Node) /\ s \in Seq(Nat) /\ v \in Nat /\ v <= MaxNodes
      /\ Len(s) + n <= v /\ Distinct(p)
      /\ \A i, j \in 1..Len(s) : s[i] = s[j] => i = j
      /\ \A i \in 1..n : p[i].offset \in k /\ p[i].offset \notin c
      /\ \A j \in 1..Len(s) : s[j] \in k /\ s[j] \notin c
      /\ \A i \in 1..n, j \in 1..Len(s) : p[i].offset # s[j]
  BY DEF Work
<1>2. n \in Nat \ {0} /\ n \in 1..n /\ Len(s) \in Nat
  BY <1>1, EmptySeq
<1>3. p[n] \in Node /\ top \in Nat
  <2>1. p[n] \in Node
    <3>1. p \in Seq(Node) /\ n \in 1..Len(p)
      BY <1>1, <1>2
    <3> QED BY ONLY <3>1, ElementOfSeq
  <2> QED BY <2>1 DEF Node
<1>4. rest \in Seq(Node) /\ Len(rest) = n - 1 /\ \A i \in 1..(n - 1) : rest[i] = p[i]
  <2>1. p \in Seq(Node) /\ n = Len(p) /\ n \in Nat \ {0}
    BY <1>1, <1>2
  <2> HIDE DEF n
  <2>2. \A i \in 1..(n - 1) : p[i] \in Node
    <3> SUFFICES ASSUME NEW i \in 1..(n - 1) PROVE p[i] \in Node
      OBVIOUS
    <3>1. i \in 1..Len(p)
      BY ONLY <2>1
    <3> QED BY ONLY <2>1, <3>1, ElementOfSeq
  <2>3. n - 1 \in Nat
    BY ONLY <2>1
  <2>4. /\ SubSeq(p, 1, n - 1) \in Seq(Node)
        /\ Len(SubSeq(p, 1, n - 1)) = n - 1
        /\ \A i \in 1..(n - 1) : SubSeq(p, 1, n - 1)[i] = p[i]
    BY <2>1, <2>2, <2>3
  <2> QED BY <2>4
<1>5. Last(p) = p[n] /\ Front(p) = rest
  BY DEF Last, Front
<1> HIDE DEF n, top, rest
<1>6. /\ t \in Seq(Nat) /\ Len(t) = Len(s) + 1 /\ t[Len(s) + 1] = top
      /\ \A j \in 1..Len(s) : t[j] = s[j]
  BY <1>1, <1>2, <1>3
<1> HIDE DEF t
<1>7. \A j \in 1..Len(t) : j = Len(s) + 1 \/ j \in 1..Len(s)
  BY <1>2, <1>6
<1>8. top \in k /\ top \notin c /\ \A j \in 1..Len(s) : top # s[j]
  BY <1>1, <1>2 DEF top
<1>9. \A i \in 1..(n - 1) : i \in 1..n /\ rest[i].offset # top
  <2> SUFFICES ASSUME NEW i \in 1..(n - 1) PROVE i \in 1..n /\ rest[i].offset # top
    OBVIOUS
  <2>1. i \in 1..n /\ i # n
    BY <1>2
  <2>2. p[i].offset # p[n].offset
    <3>1. \A a, b \in 1..n : p[a].offset = p[b].offset => a = b
      BY <1>1 DEF Distinct, n
    <3> QED BY <1>2, <2>1, <3>1
  <2> QED BY <1>4, <2>1, <2>2 DEF top
<1>10. \A i, j \in 1..Len(t) : t[i] = t[j] => i = j
  BY <1>1, <1>6, <1>7, <1>8
<1>11. \A j \in 1..Len(t) : t[j] \in k /\ t[j] \notin c
  BY <1>1, <1>6, <1>7, <1>8
<1>12. Distinct(rest)
  BY <1>1, <1>4, <1>9 DEF Distinct, n
<1>13. \A i \in 1..(n - 1) : rest[i].offset \in k /\ rest[i].offset \notin c
  BY <1>1, <1>4, <1>9
<1>14. \A i \in 1..(n - 1), j \in 1..Len(t) : rest[i].offset # t[j]
  <2> SUFFICES ASSUME NEW i \in 1..(n - 1), NEW j \in 1..Len(t)
               PROVE  rest[i].offset # t[j]
    OBVIOUS
  <2>1. i \in 1..n /\ rest[i].offset # top /\ rest[i].offset = p[i].offset
    BY <1>4, <1>9
  <2>2. CASE j = Len(s) + 1
    BY <1>6, <2>1, <2>2
  <2>3. CASE j \in 1..Len(s)
    <3>1. t[j] = s[j]
      BY <1>6, <2>3
    <3>2. p[i].offset # s[j]
      BY <1>1, <2>1, <2>3
    <3> QED BY <2>1, <3>1, <3>2
  <2> QED BY <1>7, <2>2, <2>3
<1>15. Len(t) + Len(rest) <= v
  BY <1>1, <1>2, <1>4, <1>6
<1>16. Work(rest, t, v, k, c)
  BY <1>1, <1>4, <1>6, <1>10, <1>11, <1>12, <1>13, <1>14, <1>15 DEF Work
<1> QED BY <1>3, <1>5, <1>16 DEF t, top

----------------------------------------------------------------------------
(***************************************************************************)
(* The inductive invariant.  Before the overviews are looked for there is  *)
(* no work, and from then on the base image is one of the chain.           *)
(***************************************************************************)
ChainOK ==
  /\ file \in Files
  /\ chain \in Seq(DOMAIN Ifds) /\ IsInjective(chain) /\ Len(chain) <= MaxIfds

PhaseOK ==
  /\ phase \in {"chain", "overviews", "subifds", "done", "failed"}
  /\ phase = "chain" => base = 0
  /\ phase \in {"chain", "overviews"} => pending = <<>> /\ subReads = <<>> /\ visited = 0
  /\ phase \in {"overviews", "subifds"} => base \in DOMAIN chain
  /\ phase = "subifds" => SeenInChain \subseteq seen

OpenInv == ChainOK /\ PhaseOK /\ Work(pending, subReads, visited, seen, SeenInChain)

\* The SubIFDs tag of an IFD of the file is a list of offsets.
LEMMA IfdFacts ==
  ASSUME file \in Files, NEW o \in DOMAIN Ifds
  PROVE  Ifds[o].subs \in Seq(Nat)
<1>1. IsIfd(Ifds[o])
  BY FilesAssumption DEF Ifds
<1> QED BY <1>1 DEF IsIfd

\* A set of naturals has a least element, so that the first image of a kind is one of the chain.
LEMMA FirstIsOne ==
  ASSUME NEW S \in SUBSET Nat, S # {}
  PROVE  FirstOf(S) \in S
<1> DEFINE Q == {n \in Nat : \A m \in S : m > n}
<1>1. \E i \in S : \A j \in S : i <= j
  <2> SUFFICES ASSUME \A i \in S : \E j \in S : ~(i <= j) PROVE FALSE
    OBVIOUS
  <2>1. 0 \in Q
    <3> SUFFICES ASSUME NEW m \in S PROVE m > 0
      OBVIOUS
    <3>1. PICK j \in S : ~(m <= j)
      OBVIOUS
    <3> QED BY <3>1
  <2>2. ASSUME NEW n \in Nat, n \in Q PROVE n + 1 \in Q
    <3> SUFFICES ASSUME NEW m \in S PROVE m > n + 1
      OBVIOUS
    <3>1. PICK j \in S : ~(m <= j)
      OBVIOUS
    <3>2. j > n
      BY <2>2
    <3> QED BY <3>1, <3>2
  <2>3. \A n \in Nat : n \in Q
    <3> HIDE DEF Q
    <3> QED BY <2>1, <2>2, Shared!SetInduction
  <2>4. PICK m \in S : TRUE
    OBVIOUS
  <2>5. m \in Q
    BY <2>3
  <2> QED BY <2>4, <2>5
<1> QED BY <1>1 DEF FirstOf

\* The first image with georeferencing is one of the chain.
LEMMA MetadataIsOne ==
  ASSUME chain \in Seq(DOMAIN Ifds), Georeferenced # {}
  PROVE  Metadata \in DOMAIN chain
<1> DEFINE S == IF WithGeo("keys") # {} THEN WithGeo("keys") ELSE WithGeo("model")
<1>1. S # {} /\ S \subseteq DOMAIN chain
  BY DEF Georeferenced, WithGeo
<1>2. Metadata = FirstOf(S)
  BY DEF Metadata
<1> HIDE DEF S
<1>3. S \in SUBSET Nat
  <2>1. DOMAIN chain \subseteq Nat
    OBVIOUS
  <2> QED BY <1>1, <2>1
<1> QED BY <1>1, <1>2, <1>3, FirstIsOne

\* find_base_ifd_index finds an image of the chain.
LEMMA BaseIsOne ==
  ASSUME chain \in Seq(DOMAIN Ifds), Georeferenced # {}
  PROVE  BaseIndex \in DOMAIN chain
<1>1. DOMAIN chain \subseteq Nat /\ DOMAIN chain = 1..Len(chain) /\ Len(chain) \in Nat
  OBVIOUS
<1>2. Metadata \in DOMAIN chain
  BY MetadataIsOne
<1> DEFINE full == {i \in (Metadata + 1)..Len(chain) : ~Reduced(At(i))}
<1>3. full \in SUBSET Nat /\ full \subseteq DOMAIN chain
  BY <1>1, <1>2
<1> HIDE DEF full
<1>4. full # {} => FirstOf(full) \in full
  BY <1>3, FirstIsOne
<1>5. BaseIndex = Metadata \/ (full # {} /\ BaseIndex = FirstOf(full))
  BY DEF BaseIndex, full
<1> QED BY <1>2, <1>3, <1>4, <1>5

\* Nothing is done yet when opening starts.
LEMMA InitInv == Init => OpenInv
<1> SUFFICES ASSUME Init PROVE OpenInv
  OBVIOUS
<1>1. Work(pending, subReads, visited, seen, SeenInChain)
  BY NoWork DEF Init
<1>2. ChainOK
  <2>1. <<>> \in Seq(DOMAIN Ifds) /\ Len(<<>>) = 0 /\ DOMAIN <<>> = {} /\ MaxIfds \in Nat
    BY BudgetsAssumption
  <2> QED BY <2>1 DEF Init, ChainOK, IsInjective
<1> QED BY <1>1, <1>2 DEF Init, OpenInv, PhaseOK

\* An IFD joins the chain only within the limit and if it is not there yet.
LEMMA FollowKeeps == OpenInv /\ FollowChain => OpenInv'
<1> SUFFICES ASSUME OpenInv, FollowChain PROVE OpenInv'
  OBVIOUS
<1>1. /\ phase = "chain" /\ ChainRefusal = "none" /\ chain' = Append(chain, offset)
      /\ UNCHANGED <<file, phase, base, pending, visited, subReads, seen>>
  BY DEF FollowChain
<1>2. /\ chain \in Seq(DOMAIN Ifds) /\ IsInjective(chain)
  BY DEF OpenInv, ChainOK
<1>3. ~(Len(chain) >= MaxIfds) /\ offset \notin Range(chain) /\ offset \in DOMAIN Ifds
  <2>1. ReadRefusal(offset, usage) = "none" => offset \in DOMAIN Ifds
    BY DEF ReadRefusal
  <2> QED BY <1>1, <2>1 DEF ChainRefusal
<1>4. /\ chain' \in Seq(DOMAIN Ifds) /\ Len(chain') = Len(chain) + 1
      /\ chain'[Len(chain) + 1] = offset /\ \A i \in 1..Len(chain) : chain'[i] = chain[i]
  BY <1>1, <1>2, <1>3
<1>5. Len(chain) \in Nat /\ MaxIfds \in Nat /\ DOMAIN chain = 1..Len(chain)
      /\ DOMAIN chain' = 1..(Len(chain) + 1)
  BY <1>2, <1>4, BudgetsAssumption
<1>6. IsInjective(chain)'
  <2> SUFFICES ASSUME NEW i \in DOMAIN chain', NEW j \in DOMAIN chain', chain'[i] = chain'[j]
               PROVE  i = j
    BY DEF IsInjective
  <2>1. (i = Len(chain) + 1 \/ i \in 1..Len(chain)) /\ (j = Len(chain) + 1 \/ j \in 1..Len(chain))
    BY <1>5
  <2>2. \A k \in 1..Len(chain) : chain[k] # offset
    BY <1>3, <1>5 DEF Range
  <2>3. \A a, b \in 1..Len(chain) : chain[a] = chain[b] => a = b
    BY <1>2, <1>5 DEF IsInjective
  <2> QED BY <1>4, <2>1, <2>2, <2>3
<1>7. ChainOK'
  <2>1. Len(chain') <= MaxIfds
    BY <1>3, <1>4, <1>5
  <2>2. Ifds' = Ifds /\ file' \in Files
    BY <1>1 DEF Ifds, OpenInv, ChainOK
  <2> QED BY <1>4, <1>6, <2>1, <2>2 DEF ChainOK
<1>8. pending' = <<>> /\ subReads' = <<>> /\ visited' = 0 /\ base' = 0
  BY <1>1 DEF OpenInv, PhaseOK
<1>9. Work(pending, subReads, visited, seen, SeenInChain)'
  BY <1>8, NoWork
<1>10. PhaseOK'
  BY <1>1, <1>8 DEF PhaseOK
<1> QED BY <1>7, <1>9, <1>10 DEF OpenInv

\* Who is an overview of the chain depends on the file, the chain and the base image.
LEMMA InChainKeeps ==
  ASSUME UNCHANGED <<file, chain, base>>
  PROVE  Ifds' = Ifds /\ SeenInChain' = SeenInChain
BY SMTT(30) DEF Ifds, SeenInChain, InChain, IsOverview, At, Metadata, FirstOf, WithGeo

\* A step that leaves chain, base and traversal alone only has the phase to account for.
LEMMA PhaseKeeps ==
  ASSUME OpenInv, UNCHANGED <<file, chain, base, pending, visited, subReads, seen>>, PhaseOK'
  PROVE  OpenInv'
<1>1. Ifds' = Ifds /\ SeenInChain' = SeenInChain
  BY InChainKeeps
<1>2. ChainOK'
  BY <1>1 DEF OpenInv, ChainOK
<1>3. Work(pending, subReads, visited, seen, SeenInChain)'
  BY <1>1 DEF OpenInv
<1> QED BY <1>2, <1>3 DEF OpenInv

\* A refusal leaves all that was read as it is.
LEMMA FailKeeps ==
  ASSUME OpenInv, NEW e, Fail(e)
  PROVE  OpenInv'
<1>1. phase' = "failed" /\ UNCHANGED <<file, chain, base, pending, visited, subReads, seen>>
  BY DEF Fail
<1>2. PhaseOK'
  BY <1>1 DEF PhaseOK
<1> QED BY <1>1, <1>2, PhaseKeeps

\* Sorting touches the list of overviews alone.
LEMMA SortKeeps == OpenInv /\ SortOverviews => OpenInv'
<1> SUFFICES ASSUME OpenInv, SortOverviews PROVE OpenInv'
  OBVIOUS
<1>1. phase' = "done" /\ UNCHANGED <<file, chain, base, pending, visited, subReads, seen>>
  BY DEF SortOverviews
<1>2. PhaseOK'
  BY <1>1 DEF PhaseOK
<1> QED BY <1>1, <1>2, PhaseKeeps

\* The base image is one of the chain.
LEMMA ChooseKeeps == OpenInv /\ ChooseBase => OpenInv'
<1> SUFFICES ASSUME OpenInv, ChooseBase PROVE OpenInv'
  OBVIOUS
<1>1. /\ phase = "chain" /\ Georeferenced # {} /\ phase' = "overviews" /\ base' = BaseIndex
      /\ UNCHANGED <<file, chain, pending, visited, subReads, seen>>
  BY DEF ChooseBase
<1>2. pending' = <<>> /\ subReads' = <<>> /\ visited' = 0
  BY <1>1 DEF OpenInv, PhaseOK
<1>3. ChainOK'
  <2>1. Ifds' = Ifds
    BY <1>1 DEF Ifds
  <2> QED BY <1>1, <2>1 DEF OpenInv, ChainOK
<1>4. base' \in DOMAIN chain'
  BY <1>1, BaseIsOne DEF OpenInv, ChainOK
<1>5. PhaseOK'
  BY <1>1, <1>2, <1>4 DEF PhaseOK
<1>6. Work(pending, subReads, visited, seen, SeenInChain)'
  BY <1>2, NoWork
<1> QED BY <1>3, <1>5, <1>6 DEF OpenInv

\* The traversal starts with the SubIFDs of the base image.
LEMMA CollectKeeps == OpenInv /\ CollectChain => OpenInv'
<1> SUFFICES ASSUME OpenInv, CollectChain PROVE OpenInv'
  OBVIOUS
<1> DEFINE subs == At(base).subs
<1>1. /\ phase = "overviews" /\ PushRefusal(subs, 1) = "none"
      /\ PushSubIfds(subs, 1, SeenInChain) /\ phase' = "subifds"
      /\ UNCHANGED <<file, chain, base, subReads>>
  BY DEF CollectChain
<1>2. pending = <<>> /\ subReads = <<>> /\ visited = 0 /\ base \in DOMAIN chain
  BY <1>1 DEF OpenInv, PhaseOK
<1>3. subs \in Seq(Nat)
  <2>1. chain[base] \in DOMAIN Ifds /\ file \in Files
    BY <1>2 DEF OpenInv, ChainOK
  <2> QED BY <2>1, IfdFacts DEF At
<1> HIDE DEF subs
<1>4. visited + Len(subs) <= MaxNodes
  <2>1. ~(visited + Len(subs) > MaxNodes)
    BY <1>1 DEF PushRefusal
  <2> QED BY <1>2, <1>3, <2>1, BudgetsAssumption
<1>5. /\ pending' = <<>> \o Pushed(subs, 1, SeenInChain)
      /\ seen' = SeenInChain \cup Range(subs) /\ visited' = visited + Len(subs)
  BY <1>1, <1>2 DEF PushSubIfds
<1>6. Work(pending', subReads, visited', seen', SeenInChain)
  <2>1. Work(<<>>, <<>>, 0, SeenInChain, SeenInChain)
    BY NoWork
  <2> QED BY <1>2, <1>3, <1>4, <1>5, <2>1, PushKeeps
<1>7. Ifds' = Ifds /\ SeenInChain' = SeenInChain
  BY <1>1, InChainKeeps
<1>8. ChainOK'
  BY <1>1, <1>7 DEF OpenInv, ChainOK
<1>9. Work(pending, subReads, visited, seen, SeenInChain)'
  BY <1>1, <1>6, <1>7
<1>10. PhaseOK'
  BY <1>1, <1>2, <1>5, <1>7 DEF PhaseOK
<1> QED BY <1>8, <1>9, <1>10 DEF OpenInv

\* One visit reads the node on top and pushes what it points to.
LEMMA VisitKeeps == OpenInv /\ VisitSubIfd => OpenInv'
<1> SUFFICES ASSUME OpenInv, VisitSubIfd PROVE OpenInv'
  OBVIOUS
<1> DEFINE top == Last(pending)
           subs == Ifds[top.offset].subs
           rest == Front(pending)
           done == Append(subReads, top.offset)
<1>1. /\ phase = "subifds" /\ pending # <<>> /\ VisitRefusal(top) = "none"
      /\ PushSubIfds(subs, top.depth + 1, seen) /\ subReads' = done
      /\ UNCHANGED <<file, phase, chain, base>>
  BY DEF VisitSubIfd
<1>2. Work(pending, subReads, visited, seen, SeenInChain) /\ SeenInChain \subseteq seen
  BY <1>1 DEF OpenInv, PhaseOK
<1>3. top \in Node /\ Work(rest, done, visited, seen, SeenInChain)
  BY <1>1, <1>2, PopKeeps
<1>4. top.offset \in DOMAIN Ifds /\ PushRefusal(subs, top.depth + 1) = "none"
  <2>1. ReadRefusal(top.offset, 0) = "none" => top.offset \in DOMAIN Ifds
    BY DEF ReadRefusal
  <2> HIDE DEF top
  <2> QED BY <1>1, <2>1 DEF VisitRefusal
<1>5. /\ pending' = rest \o Pushed(subs, top.depth + 1, seen)
      /\ seen' = seen \cup Range(subs) /\ visited' = visited + Len(subs)
  BY <1>1 DEF PushSubIfds
<1>6. subs \in Seq(Nat) /\ top.depth + 1 \in Nat
  BY <1>3, <1>4, IfdFacts DEF Node, OpenInv, ChainOK
<1> HIDE DEF top, subs, rest, done
<1>7. visited + Len(subs) <= MaxNodes
  <2>1. ~(visited + Len(subs) > MaxNodes)
    BY <1>4 DEF PushRefusal
  <2>2. visited \in Nat /\ Len(subs) \in Nat
    BY <1>2, <1>6 DEF Work
  <2> QED BY <2>1, <2>2, BudgetsAssumption
<1>8. Work(pending', done, visited', seen', SeenInChain)
  BY <1>2, <1>3, <1>5, <1>6, <1>7, PushKeeps
<1>9. Ifds' = Ifds /\ SeenInChain' = SeenInChain
  BY <1>1, InChainKeeps
<1>10. ChainOK'
  BY <1>1, <1>9 DEF OpenInv, ChainOK
<1>11. Work(pending, subReads, visited, seen, SeenInChain)'
  BY <1>1, <1>8, <1>9
<1>12. PhaseOK'
  BY <1>1, <1>2, <1>5, <1>9 DEF OpenInv, PhaseOK
<1> QED BY <1>10, <1>11, <1>12 DEF OpenInv

\* Every step keeps the invariant.
LEMMA NextInv == OpenInv /\ [Next]_vars => OpenInv'
<1> SUFFICES ASSUME OpenInv, [Next]_vars PROVE OpenInv'
  OBVIOUS
<1>1. CASE FollowChain
  BY <1>1, FollowKeeps
<1>2. CASE ChainFails \/ NotGeoTiff \/ CollectFails \/ VisitFails
  BY <1>2, FailKeeps DEF ChainFails, NotGeoTiff, CollectFails, VisitFails
<1>3. CASE ChooseBase
  BY <1>3, ChooseKeeps
<1>4. CASE CollectChain
  BY <1>4, CollectKeeps
<1>5. CASE VisitSubIfd
  BY <1>5, VisitKeeps
<1>6. CASE SortOverviews
  BY <1>6, SortKeeps
<1>7. CASE UNCHANGED vars
  <2>1. UNCHANGED <<file, phase, chain, base, pending, visited, subReads, seen>>
    BY <1>7 DEF vars
  <2>2. SeenInChain' = SeenInChain
    BY <2>1 DEF SeenInChain, InChain, IsOverview, At, Metadata, FirstOf, WithGeo, Ifds
  <2>3. PhaseOK'
    BY <2>1, <2>2 DEF OpenInv, PhaseOK
  <2> QED BY <2>1, <2>3, PhaseKeeps
<1> QED BY <1>1, <1>2, <1>3, <1>4, <1>5, <1>6, <1>7 DEF Next

(***************************************************************************)
(* The invariant holds: what is on the stack or was read is seen, once,    *)
(* and no image of the chain is among it.                                  *)
(***************************************************************************)
THEOREM OpenInvariant == Spec => []OpenInv
<1>1. Init => OpenInv
  BY InitInv
<1>2. OpenInv /\ [Next]_vars => OpenInv'
  BY NextInv
<1> QED BY <1>1, <1>2, PTL DEF Spec

(***************************************************************************)
(* collect_overviews and parse_ifd_chain_with_budgets: in every directory  *)
(* graph no IFD is read twice, and the budgets bound what is read.         *)
(***************************************************************************)
THEOREM WorkStaysBounded == Spec => []WorkBounded
<1>1. OpenInv => WorkBounded
  <2> SUFFICES ASSUME OpenInv PROVE WorkBounded
    OBVIOUS
  <2>1. /\ subReads \in Seq(Nat) /\ pending \in Seq(Node) /\ visited \in Nat
        /\ visited <= MaxNodes /\ Len(subReads) + Len(pending) <= visited
        /\ \A i, j \in 1..Len(subReads) : subReads[i] = subReads[j] => i = j
        /\ \A j \in 1..Len(subReads) : subReads[j] \notin SeenInChain
    BY DEF OpenInv, Work
  <2>2. DOMAIN subReads = 1..Len(subReads)
    BY <2>1
  <2>3. IsInjective(subReads) /\ Range(subReads) \cap SeenInChain = {}
    BY <2>1, <2>2 DEF IsInjective, Range
  <2>4. Len(subReads) + Len(pending) <= MaxNodes
    <3>1. Len(subReads) \in Nat /\ Len(pending) \in Nat /\ MaxNodes \in Nat
      BY <2>1, BudgetsAssumption
    <3> QED BY <2>1, <3>1
  <2> QED BY <2>3, <2>4 DEF WorkBounded, OpenInv, ChainOK
<1> QED BY <1>1, OpenInvariant, PTL

----------------------------------------------------------------------------
\* A strict total order on the members of a set.
Orders(order, S) ==
  /\ \A x \in S : <<x, x>> \notin order
  /\ \A x, y \in S : x # y => <<x, y>> \in order \/ <<y, x>> \in order
  /\ \A x, y, z \in S : <<x, y>> \in order /\ <<y, z>> \in order => <<x, z>> \in order

(***************************************************************************)
(* A sorted list holds every member of the set once, in the order.         *)
(***************************************************************************)
LEMMA OrderedLists ==
  ASSUME NEW S, IsFiniteSet(S), NEW order, Orders(order, S)
  PROVE  LET n == Cardinality(S)
             list == Ordered(S, order)
         IN /\ n \in Nat /\ list \in [1..n -> S]
            /\ \A x \in S : \E k \in 1..n : list[k] = x
            /\ \A j, k \in 1..n : j < k => <<list[j], list[k]>> \in order
<1> DEFINE n == Cardinality(S)
           list == Ordered(S, order)
           below(x) == {y \in S : <<y, x>> \in order}
           rank == [x \in S |-> Cardinality(below(x)) + 1]
<1>1. n \in Nat
  BY FS_CardinalityType
<1>2. ASSUME NEW x \in S
      PROVE  IsFiniteSet(below(x)) /\ Cardinality(below(x)) \in Nat /\ Cardinality(below(x)) < n
  <2>1. below(x) \in SUBSET S /\ below(x) # S
    BY DEF Orders
  <2> HIDE DEF below
  <2>2. /\ IsFiniteSet(below(x)) /\ Cardinality(below(x)) <= n
        /\ n = Cardinality(below(x)) => S = below(x)
    BY ONLY <2>1, FS_Subset, IsFiniteSet(S)
  <2>3. Cardinality(below(x)) \in Nat
    BY <2>2, FS_CardinalityType
  <2> QED BY <1>1, <2>1, <2>2, <2>3
<1>3. ASSUME NEW x \in S, NEW y \in S, <<x, y>> \in order
      PROVE  Cardinality(below(x)) < Cardinality(below(y))
  <2>1. below(x) \in SUBSET below(y) /\ below(x) # below(y)
    BY <1>3 DEF Orders
  <2>2. /\ IsFiniteSet(below(y)) /\ Cardinality(below(x)) \in Nat
        /\ Cardinality(below(y)) \in Nat
    BY <1>2
  <2> HIDE DEF below
  <2>3. /\ Cardinality(below(x)) <= Cardinality(below(y))
        /\ Cardinality(below(y)) = Cardinality(below(x)) => below(y) = below(x)
    BY ONLY <2>1, <2>2, FS_Subset
  <2> QED BY <2>1, <2>2, <2>3
<1> HIDE DEF below
<1>4. /\ rank \in [S -> 1..n] /\ \A x \in S : rank[x] = Cardinality(below(x)) + 1
  BY <1>1, <1>2
<1> HIDE DEF rank
<1>5. \A x, y \in S : rank[x] = rank[y] => x = y
  <2> SUFFICES ASSUME NEW x \in S, NEW y \in S, rank[x] = rank[y], x # y PROVE FALSE
    OBVIOUS
  <2>1. <<x, y>> \in order \/ <<y, x>> \in order
    BY DEF Orders
  <2>2. Cardinality(below(x)) < Cardinality(below(y)) \/ Cardinality(below(y)) < Cardinality(below(x))
    BY <1>3, <2>1
  <2> QED BY <1>2, <1>4, <2>2
<1>6. rank \in Surjection(S, 1..n)
  <2>1. rank \in Injection(S, 1..n)
    BY <1>4, <1>5 DEF Injection, IsInjective
  <2>2. IsFiniteSet(1..n) /\ Cardinality(1..n) = n
    BY <1>1, FS_Interval
  <2> HIDE DEF n
  <2>3. Cardinality(S) = n
    BY DEF n
  <2> QED BY <2>1, <2>2, <2>3, FS_Injection
<1>7. ASSUME NEW k \in 1..n
      PROVE  list[k] \in S /\ rank[list[k]] = k
  <2>1. \E x \in S : rank[x] = k
    BY <1>6 DEF Surjection
  <2>2. \A x \in S : rank[x] = k <=> Cardinality(below(x)) = k - 1
    BY <1>1, <1>2, <1>4
  <2>3. list[k] = CHOOSE x \in S : Cardinality(below(x)) = k - 1
    BY DEF Ordered, below
  <2> HIDE DEF list
  <2> QED BY <2>1, <2>2, <2>3
<1>8. list \in [1..n -> S]
  BY <1>7 DEF Ordered
<1> HIDE DEF list, n
<1>9. \A x \in S : \E k \in 1..n : list[k] = x
  <2> SUFFICES ASSUME NEW x \in S PROVE \E k \in 1..n : list[k] = x
    OBVIOUS
  <2>1. rank[x] \in 1..n
    BY <1>4
  <2>2. list[rank[x]] = x
    BY <1>5, <1>7, <2>1
  <2> QED BY <2>1, <2>2
<1>10. ASSUME NEW j \in 1..n, NEW k \in 1..n, j < k PROVE <<list[j], list[k]>> \in order
  <2>1. list[j] \in S /\ list[k] \in S /\ rank[list[j]] = j /\ rank[list[k]] = k
    BY <1>7
  <2>2. ~(<<list[k], list[j]>> \in order) /\ list[j] # list[k]
    <3>1. ASSUME <<list[k], list[j]>> \in order PROVE FALSE
      <4>1. Cardinality(below(list[k])) < Cardinality(below(list[j]))
        BY <1>3, <2>1, <3>1
      <4> QED BY <1>2, <1>4, <1>10, <2>1, <4>1
    <3> QED BY <1>10, <2>1, <3>1
  <2> QED BY <2>1, <2>2 DEF Orders
<1> QED BY <1>1, <1>8, <1>9, <1>10 DEF list, n

----------------------------------------------------------------------------
\* A set of places in a list has a last one.
LEMMA LastPlace ==
  ASSUME NEW n \in Nat, NEW K \in SUBSET (1..n), K # {}
  PROVE  \E k \in K : \A j \in K : j <= k
<1> DEFINE Q == {m \in Nat : \A L \in SUBSET (1..m) : L # {} => \E k \in L : \A j \in L : j <= k}
<1>1. 0 \in Q
  <2>1. \A L \in SUBSET (1..0) : L = {}
    OBVIOUS
  <2> QED BY <2>1
<1>2. ASSUME NEW m \in Nat, m \in Q PROVE m + 1 \in Q
  <2> SUFFICES ASSUME NEW L \in SUBSET (1..(m + 1)), L # {}
               PROVE  \E k \in L : \A j \in L : j <= k
    OBVIOUS
  <2>1. CASE m + 1 \in L
    BY <2>1
  <2>2. CASE m + 1 \notin L
    <3>1. L \in SUBSET (1..m)
      BY <2>2
    <3> QED BY <1>2, <3>1
  <2> QED BY <2>1, <2>2
<1> HIDE DEF Q
<1>3. n \in Q
  BY <1>1, <1>2, Shared!SetInduction
<1> QED BY <1>3 DEF Q

\* The offsets on a stack of nodes.
Offsets(nodes) == {nodes[i].offset : i \in 1..Len(nodes)}

\* push_subifd_offsets passes over no pointer it has not seen.
LEMMA PushedAll ==
  ASSUME NEW subs \in Seq(Nat), NEW depth \in Nat, NEW known
  PROVE  Range(subs) \ known \subseteq Offsets(Pushed(subs, depth, known))
<1> SUFFICES ASSUME NEW o \in Range(subs), o \notin known
             PROVE  o \in Offsets(Pushed(subs, depth, known))
  OBVIOUS
<1> DEFINE N == Len(subs)
           new == Unseen(subs, known)
           P(m) == PushedTo(subs, depth, known, m)
           Has(m, k) == \E i \in 1..Len(P(m)) : P(m)[i].offset = subs[k]
           OK(m) == P(m) \in Seq(Node) /\ \A k \in new : k > N - m => Has(m, k)
           S == {m \in Nat : m <= N => OK(m)}
<1>0. N \in Nat /\ DOMAIN subs = 1..N /\ \A k \in new : k \in 1..N /\ subs[k] \in Nat
  BY DEF Unseen
<1>1. P(0) = <<>>
  BY PushedToIs
<1>2. \A m \in 1..N :
        P(m) = IF N - m + 1 \in new
               THEN Append(P(m - 1), [offset |-> subs[N - m + 1], depth |-> depth]) ELSE P(m - 1)
  BY PushedToIs
<1>7. PICK k \in new : subs[k] = o
  <2> DEFINE K == {j \in 1..N : subs[j] = o}
  <2>1. K # {} /\ K \in SUBSET (1..N)
    BY <1>0 DEF Range
  <2>2. PICK k \in K : \A j \in K : j <= k
    <3> HIDE DEF K, N
    <3> QED BY <1>0, <2>1, LastPlace
  <2>3. k \in DOMAIN subs /\ subs[k] = o /\ \A j \in DOMAIN subs : j > k => subs[j] # o
    BY <1>0, <2>2
  <2> QED BY <2>3 DEF Unseen
<1> HIDE DEF P, N, new
<1>3. 0 \in S
  <2>1. P(0) \in Seq(Node)
    BY <1>1, EmptySeq
  <2> QED BY <1>0, <2>1
<1>4. ASSUME NEW m \in Nat, m + 1 <= N, OK(m) PROVE OK(m + 1)
  <2> DEFINE at == N - m
  <2>1. m + 1 \in 1..N /\ N - (m + 1) + 1 = at /\ (m + 1) - 1 = m /\ at \in Int
    BY <1>0, <1>4
  <2>2. \A j \in new : j > N - (m + 1) => j = at \/ j > N - m
    BY <1>0
  <2>3. CASE at \notin new
    <3>1. P(m + 1) = P(m)
      BY <1>2, <2>1, <2>3
    <3>2. \A j \in new : j > N - (m + 1) => Has(m, j)
      BY <1>4, <2>2, <2>3
    <3> QED BY <1>4, <3>1, <3>2
  <2>4. CASE at \in new
    <3> DEFINE e == [offset |-> subs[at], depth |-> depth]
               u == P(m)
               v == P(m + 1)
    <3>1. v = Append(u, e)
      BY <1>2, <2>1, <2>4
    <3>2. e \in Node /\ e.offset = subs[at]
      BY <1>0, <2>4 DEF Node
    <3>3. u \in Seq(Node) /\ Len(u) \in Nat /\ \A j \in new : j > N - m => Has(m, j)
      BY <1>4
    <3> HIDE DEF e
    <3>4. /\ v \in Seq(Node) /\ Len(v) = Len(u) + 1 /\ v[Len(u) + 1] = e
          /\ \A i \in 1..Len(u) : v[i] = u[i]
      <4> HIDE DEF u, v
      <4> QED BY <3>1, <3>2, <3>3
    <3> SUFFICES ASSUME NEW j \in new, j > N - (m + 1)
                 PROVE  \E i \in 1..Len(v) : v[i].offset = subs[j]
      BY <3>4
    <3>5. CASE j = at
      <4>1. Len(u) + 1 \in 1..Len(v)
        BY <3>3, <3>4
      <4> QED BY <3>2, <3>4, <3>5, <4>1
    <3>6. CASE j > N - m
      <4>1. PICK i \in 1..Len(u) : u[i].offset = subs[j]
        BY <3>3, <3>6
      <4>2. i \in 1..Len(v) /\ v[i] = u[i]
        BY <3>3, <3>4
      <4> QED BY <4>1, <4>2
    <3> QED BY <2>2, <3>5, <3>6
  <2> QED BY <2>3, <2>4
<1>5. OK(N)
  <2> HIDE DEF OK
  <2>1. \A m \in Nat : m \in S => m + 1 \in S
    BY <1>0, <1>4
  <2> HIDE DEF S
  <2>2. N \in S
    BY <1>0, <1>3, <2>1, Shared!SetInduction
  <2> QED BY <1>0, <2>2 DEF S
<1>6. Has(N, k)
  BY <1>0, <1>5
<1>8. o \in Offsets(P(N))
  BY <1>6, <1>7 DEF Offsets
<1> QED BY <1>8 DEF Pushed, P, N

----------------------------------------------------------------------------
(***************************************************************************)
(* What OnChain and InTree mean: a pointer is on the chain if it is in     *)
(* every set that follows the chain, and in the tree if it is in every set *)
(* that follows the SubIFDs from the base image.                           *)
(***************************************************************************)
FollowsChain(S) ==
  file.first \in S /\ \A q \in S \cap DOMAIN Ifds : Ifds[q].next \in S

\* OnChain by the sets that follow the chain.
LEMMA OnChainIs ==
  OnChain = {p \in Pointers : \A S \in SUBSET Pointers : FollowsChain(S) => p \in S}
BY DEF OnChain, Reachable, FollowsChain

FollowsTree(S) ==
  /\ chain[base] \in S
  /\ \A q \in (S \cap DOMAIN Ifds) \ (SeenInChain \ {chain[base]}) : Range(Ifds[q].subs) \subseteq S

\* InTree by the sets that follow the tree.
LEMMA InTreeIs ==
  InTree = {p \in Pointers : \A S \in SUBSET Pointers : FollowsTree(S) => p \in S} \ SeenInChain
BY DEF InTree, Reachable, FollowsTree

----------------------------------------------------------------------------
\* The offsets on two stacks put together.
LEMMA OffsetsJoin ==
  ASSUME NEW p \in Seq(Node), NEW q \in Seq(Node)
  PROVE  Offsets(p \o q) = Offsets(p) \cup Offsets(q)
<1> DEFINE r == p \o q
<1>1. /\ Len(p) \in Nat /\ Len(q) \in Nat /\ Len(r) = Len(p) + Len(q)
      /\ \A i \in 1..(Len(p) + Len(q)) : r[i] = IF i <= Len(p) THEN p[i] ELSE q[i - Len(p)]
  BY ConcatProperties
<1> HIDE DEF r
<1>2. ASSUME NEW i \in 1..Len(r) PROVE r[i].offset \in Offsets(p) \cup Offsets(q)
  <2>1. CASE i <= Len(p)
    <3>1. i \in 1..Len(p) /\ r[i] = p[i]
      BY <1>1, <2>1
    <3> QED BY <3>1 DEF Offsets
  <2>2. CASE ~(i <= Len(p))
    <3>1. i - Len(p) \in 1..Len(q) /\ r[i] = q[i - Len(p)]
      BY <1>1, <2>2
    <3> QED BY <3>1 DEF Offsets
  <2> QED BY <2>1, <2>2
<1>3. ASSUME NEW i \in 1..Len(p) PROVE p[i].offset \in Offsets(r)
  <2>1. i \in 1..Len(r) /\ r[i] = p[i]
    BY <1>1
  <2> QED BY <2>1 DEF Offsets
<1>4. ASSUME NEW i \in 1..Len(q) PROVE q[i].offset \in Offsets(r)
  <2>1. Len(p) + i \in 1..Len(r) /\ ~(Len(p) + i <= Len(p)) /\ (Len(p) + i) - Len(p) = i
    BY <1>1
  <2>2. r[Len(p) + i] = q[i]
    BY <1>1, <2>1
  <2> QED BY <2>1, <2>2 DEF Offsets
<1>5. Offsets(r) \subseteq Offsets(p) \cup Offsets(q)
  BY <1>2 DEF Offsets
<1>6. Offsets(p) \subseteq Offsets(r) /\ Offsets(q) \subseteq Offsets(r)
  BY <1>3, <1>4 DEF Offsets
<1> QED BY <1>5, <1>6 DEF r

\* Popping a stack.
LEMMA OffsetsPop ==
  ASSUME NEW p \in Seq(Node), p # <<>>
  PROVE  Offsets(p) = Offsets(Front(p)) \cup {Last(p).offset} /\ Front(p) \in Seq(Node)
<1> DEFINE n == Len(p)
           f == Front(p)
<1>1. n \in Nat \ {0}
  BY EmptySeq
<1>2. \A i \in 1..(n - 1) : p[i] \in Node
  BY <1>1
<1>3. /\ SubSeq(p, 1, n - 1) \in Seq(Node) /\ Len(SubSeq(p, 1, n - 1)) = n - 1
      /\ \A i \in 1..(n - 1) : SubSeq(p, 1, n - 1)[i] = p[i]
  <2>1. p \in Seq(Node) /\ n = Len(p) /\ n \in Nat \ {0} /\ n - 1 \in Nat
    BY <1>1
  <2> HIDE DEF n
  <2> QED BY <1>2, <2>1
<1>4. f \in Seq(Node) /\ Len(f) = n - 1 /\ (\A i \in 1..(n - 1) : f[i] = p[i]) /\ Last(p) = p[n]
  BY <1>3 DEF Front, Last
<1> HIDE DEF f, n
<1>5. \A i \in 1..n : i = n \/ i \in 1..(n - 1)
  BY <1>1
<1>6. n \in 1..n /\ \A i \in 1..(n - 1) : i \in 1..n
  BY <1>1
<1>7. Offsets(p) = {p[i].offset : i \in 1..n}
  BY DEF Offsets, n
<1>8. Offsets(f) = {p[i].offset : i \in 1..(n - 1)}
  BY <1>4 DEF Offsets
<1>9. Offsets(p) = Offsets(f) \cup {p[n].offset}
  BY <1>5, <1>6, <1>7, <1>8
<1> QED BY <1>4, <1>9 DEF f

\* What push_subifd_offsets puts on the stack: the pointers not seen before.
LEMMA OffsetsPushed ==
  ASSUME NEW subs \in Seq(Nat), NEW depth \in Nat, NEW known
  PROVE  Offsets(Pushed(subs, depth, known)) = Range(subs) \ known
<1>1. \A i \in 1..Len(Pushed(subs, depth, known)) :
        /\ Pushed(subs, depth, known)[i].offset \notin known
        /\ Pushed(subs, depth, known)[i].offset \in Range(subs)
  BY PushedNodes
<1>2. Range(subs) \ known \subseteq Offsets(Pushed(subs, depth, known))
  BY PushedAll
<1>3. Offsets(Pushed(subs, depth, known)) \subseteq Range(subs) \ known
  BY <1>1 DEF Offsets
<1> QED BY <1>2, <1>3

\* A sequence with one more element.
LEMMA RangeAppend ==
  ASSUME NEW T, NEW s \in Seq(T), NEW e \in T
  PROVE  /\ Range(Append(s, e)) = Range(s) \cup {e}
         /\ Append(s, e) \in Seq(T)
         /\ DOMAIN Append(s, e) = 1..(Len(s) + 1) /\ DOMAIN s = 1..Len(s) /\ Len(s) \in Nat
         /\ Append(s, e)[Len(s) + 1] = e /\ \A i \in 1..Len(s) : Append(s, e)[i] = s[i]
<1> DEFINE t == Append(s, e)
<1>1. /\ t \in Seq(T) /\ DOMAIN t = 1..(Len(s) + 1) /\ DOMAIN s = 1..Len(s) /\ Len(s) \in Nat
      /\ t[Len(s) + 1] = e /\ \A i \in 1..Len(s) : t[i] = s[i]
  OBVIOUS
<1> HIDE DEF t
<1>2. \A i \in 1..(Len(s) + 1) : i = Len(s) + 1 \/ i \in 1..Len(s)
  BY <1>1
<1>3. Len(s) + 1 \in 1..(Len(s) + 1) /\ \A i \in 1..Len(s) : i \in 1..(Len(s) + 1)
  BY <1>1
<1>4. Range(t) = Range(s) \cup {e}
  BY <1>1, <1>2, <1>3 DEF Range
<1> QED BY <1>1, <1>4 DEF t

----------------------------------------------------------------------------
(***************************************************************************)
(* What opening has found so far.  The chain follows its pointers from the *)
(* first; the base image is the one find_base_ifd_index chooses; whatever  *)
(* is on the stack or was read is in the tree; what has been seen is in    *)
(* the chain, on the stack or read, and nothing the base image or an IFD   *)
(* that was read points to is unseen; and the list of overviews is that of *)
(* the chain and of the SubIFDs read, each once.                           *)
(***************************************************************************)
ChainLinked ==
  /\ offset = IF chain = <<>> THEN file.first ELSE Ifds[chain[Len(chain)]].next
  /\ chain # <<>> => chain[1] = file.first
  /\ \A k \in 1..Len(chain) : k # 1 => chain[k] = Ifds[chain[k - 1]].next
  /\ phase \in {"overviews", "subifds", "done"} => offset = 0

BaseChosen ==
  /\ phase \in {"overviews", "subifds", "done"} => base # 0
  /\ base # 0 => base \in DOMAIN chain /\ Georeferenced # {} /\ base = BaseIndex

OnlyTree ==
  base # 0 => Offsets(pending) \subseteq InTree /\ Range(subReads) \subseteq InTree \cap DOMAIN Ifds

AllSeen ==
  phase \in {"subifds", "done"} =>
    /\ seen = SeenInChain \cup Offsets(pending) \cup Range(subReads)
    /\ Range(At(base).subs) \subseteq seen
    /\ \A o \in Range(subReads) : Range(Ifds[o].subs) \subseteq seen

Overviews == Range(subReads) \cup {chain[i] : i \in DOMAIN chain \ {base, Metadata}}

Listed ==
  /\ phase \in {"subifds", "done"} =>
       /\ overviews \in Seq([index : Nat, offset : DOMAIN Ifds])
       /\ {overviews[i].offset : i \in DOMAIN overviews} = {o \in Overviews : IsOverview(Ifds[o])}
       /\ \A i, j \in DOMAIN overviews : overviews[i].offset = overviews[j].offset => i = j
  /\ phase = "done" =>
       /\ pending = <<>>
       /\ \A i, j \in DOMAIN overviews : i < j => ~Before(overviews[j], overviews[i])

FoundInv == OpenInv /\ ChainLinked /\ BaseChosen /\ OnlyTree /\ AllSeen /\ Listed

----------------------------------------------------------------------------
\* The base image depends on the file and its chain alone.
LEMMA ChainSame ==
  ASSUME UNCHANGED <<file, chain>>
  PROVE  /\ Ifds' = Ifds /\ Metadata' = Metadata /\ Georeferenced' = Georeferenced
         /\ BaseIndex' = BaseIndex
<1>1. Ifds' = Ifds
  BY DEF Ifds
<1>3. WithGeo("keys")' = WithGeo("keys") /\ WithGeo("model")' = WithGeo("model")
  BY <1>1 DEF WithGeo, At
<1>4. Metadata' = Metadata
  BY <1>3 DEF Metadata, FirstOf
<1>5. Georeferenced' = Georeferenced
  BY <1>3 DEF Georeferenced
<1>6. BaseIndex' = BaseIndex
  BY <1>1, <1>4 DEF BaseIndex, FirstOf, Reduced, At
<1> QED BY <1>1, <1>4, <1>5, <1>6

\* A step that leaves file, chain and base alone changes nothing that is said of them.
LEMMA FileSame ==
  ASSUME UNCHANGED <<file, chain, base>>
  PROVE  /\ SeenInChain' = SeenInChain /\ InTree' = InTree /\ At(base)' = At(base)
         /\ \A d : IsOverview(d)' = IsOverview(d)
<1>1. Ifds' = Ifds /\ SeenInChain' = SeenInChain
  BY InChainKeeps
<1>2. Pointers' = Pointers
  BY <1>1 DEF Pointers
<1>3. InTree' = InTree
  BY <1>1, <1>2 DEF InTree, Reachable
<1>4. At(base)' = At(base)
  BY <1>1 DEF At
<1>5. \A d : IsOverview(d)' = IsOverview(d)
  BY <1>1 DEF IsOverview
<1> QED BY <1>1, <1>3, <1>4, <1>5

----------------------------------------------------------------------------
\* At first nothing has been found.
LEMMA InitFound == Init => FoundInv
<1> SUFFICES ASSUME Init PROVE FoundInv
  OBVIOUS
<1>1. OpenInv
  BY InitInv
<1>2. ChainLinked
  <2>1. chain = <<>> /\ Len(chain) = 0 /\ offset = file.first /\ phase = "chain"
    BY DEF Init
  <2> QED BY <2>1 DEF ChainLinked
<1> QED BY <1>1, <1>2 DEF Init, FoundInv, BaseChosen, OnlyTree, AllSeen, Listed

\* The chain stays linked: the IFD that joins it is the one the last one points to.
LEMMA FollowFound == FoundInv /\ FollowChain => FoundInv'
<1> SUFFICES ASSUME FoundInv, FollowChain PROVE FoundInv'
  OBVIOUS
<1>1. /\ phase = "chain" /\ phase' = "chain" /\ base' = base /\ file' = file
      /\ chain' = Append(chain, offset) /\ offset' = Ifds[offset].next
  BY DEF FollowChain
<1>2. OpenInv /\ OpenInv'
  BY FollowKeeps DEF FoundInv
<1>3. base' = 0
  BY <1>1, <1>2 DEF OpenInv, PhaseOK
<1>4. Ifds' = Ifds
  BY <1>1 DEF Ifds
<1>5. chain \in Seq(DOMAIN Ifds) /\ offset \in DOMAIN Ifds
  <2>1. ReadRefusal(offset, usage) = "none" => offset \in DOMAIN Ifds
    BY DEF ReadRefusal
  <2>2. ReadRefusal(offset, usage) = "none"
    BY DEF FollowChain, ChainRefusal
  <2> QED BY <1>2, <2>1, <2>2 DEF OpenInv, ChainOK
<1>6. /\ Len(chain) \in Nat /\ Len(chain') = Len(chain) + 1 /\ chain' # <<>>
      /\ chain'[Len(chain) + 1] = offset /\ \A i \in 1..Len(chain) : chain'[i] = chain[i]
  BY <1>1, <1>5
<1>7. ChainLinked'
  <2>1. offset' = Ifds'[chain'[Len(chain')]].next
    BY <1>1, <1>4, <1>6
  <2>2. chain'[1] = file.first
    <3>1. CASE chain = <<>>
      BY <1>6, <3>1 DEF FoundInv, ChainLinked
    <3>2. CASE chain # <<>>
      <4>1. 1 \in 1..Len(chain) /\ chain[1] = file.first
        BY <1>5, <1>6, <3>2, EmptySeq DEF FoundInv, ChainLinked
      <4> QED BY <1>6, <4>1
    <3> QED BY <3>1, <3>2
  <2>3. ASSUME NEW k \in 1..Len(chain'), k # 1
        PROVE  chain'[k] = Ifds[chain'[k - 1]].next
    <3>1. k - 1 \in 1..Len(chain) /\ chain'[k - 1] = chain[k - 1]
      BY <1>6, <2>3
    <3>2. CASE k \in 1..Len(chain)
      BY <1>6, <2>3, <3>1, <3>2 DEF FoundInv, ChainLinked
    <3>3. CASE k = Len(chain) + 1
      <4>1. k - 1 = Len(chain) /\ chain # <<>>
        BY <1>6, <3>1, <3>3
      <4>2. offset = Ifds[chain[Len(chain)]].next
        BY <4>1 DEF FoundInv, ChainLinked
      <4> QED BY <1>6, <3>1, <3>3, <4>1, <4>2
    <3> QED BY <1>6, <3>2, <3>3
  <2> QED BY <1>1, <1>4, <1>6, <2>1, <2>2, <2>3 DEF ChainLinked
<1> QED BY <1>1, <1>2, <1>3, <1>7 DEF FoundInv, BaseChosen, OnlyTree, AllSeen, Listed

\* A step that finds nothing keeps what was found.
LEMMA NothingFound ==
  ASSUME FoundInv, OpenInv', phase' = phase \/ phase' = "failed",
         UNCHANGED <<file, chain, base, offset, pending, subReads, seen, overviews>>
  PROVE  FoundInv'
<1>1. Ifds' = Ifds /\ Metadata' = Metadata /\ Georeferenced' = Georeferenced
      /\ BaseIndex' = BaseIndex
  BY ChainSame
<1>2. /\ SeenInChain' = SeenInChain /\ InTree' = InTree /\ At(base)' = At(base)
      /\ \A d : IsOverview(d)' = IsOverview(d)
  BY FileSame
<1>3. ChainLinked'
  BY <1>1 DEF FoundInv, ChainLinked
<1>4. BaseChosen'
  BY <1>1 DEF FoundInv, BaseChosen
<1>5. OnlyTree'
  BY <1>1, <1>2 DEF FoundInv, OnlyTree, Offsets
<1>6. AllSeen'
  BY <1>1, <1>2 DEF FoundInv, AllSeen, Offsets
<1>7. Overviews' = Overviews
  BY <1>1 DEF Overviews
<1>8. {o \in Overviews : IsOverview(Ifds[o])}' = {o \in Overviews : IsOverview(Ifds[o])}
  BY <1>1, <1>2, <1>7
<1>9. Listed'
  BY <1>1, <1>8 DEF FoundInv, Listed, Before
<1> QED BY <1>3, <1>4, <1>5, <1>6, <1>9 DEF FoundInv

\* A refusal finds nothing more.
LEMMA FailFound == ASSUME FoundInv, NEW e, Fail(e) PROVE FoundInv'
<1>1. OpenInv'
  BY FailKeeps DEF FoundInv
<1>2. phase' = "failed"
      /\ UNCHANGED <<file, chain, base, offset, pending, subReads, seen, overviews>>
  BY DEF Fail
<1> QED BY <1>1, <1>2, NothingFound

\* The base image is the one find_base_ifd_index chooses of the finished chain.
LEMMA ChooseFound == FoundInv /\ ChooseBase => FoundInv'
<1> SUFFICES ASSUME FoundInv, ChooseBase PROVE FoundInv'
  OBVIOUS
<1>1. /\ phase = "chain" /\ offset = 0 /\ Georeferenced # {}
      /\ phase' = "overviews" /\ base' = BaseIndex
      /\ UNCHANGED <<file, chain, offset, pending, subReads>>
  BY DEF ChooseBase
<1>2. OpenInv /\ OpenInv' /\ pending = <<>> /\ subReads = <<>>
  BY <1>1, ChooseKeeps DEF FoundInv, OpenInv, PhaseOK
<1>3. Ifds' = Ifds /\ Georeferenced' = Georeferenced /\ BaseIndex' = BaseIndex
  BY <1>1, ChainSame
<1>4. ChainLinked'
  BY <1>1, <1>3 DEF FoundInv, ChainLinked
<1>5. BaseChosen'
  <2>1. base' \in DOMAIN chain' /\ DOMAIN chain' = 1..Len(chain')
    BY <1>1, <1>2 DEF OpenInv, PhaseOK, ChainOK
  <2>2. base' # 0
    BY <2>1
  <2> QED BY <1>1, <1>3, <2>1, <2>2 DEF BaseChosen
<1>6. Offsets(pending') = {} /\ Range(subReads') = {}
  <2>1. Len(pending') = 0 /\ DOMAIN subReads' = {}
    BY <1>1, <1>2
  <2> QED BY <2>1 DEF Offsets, Range
<1>7. OnlyTree'
  BY <1>6 DEF OnlyTree, Offsets
<1> QED BY <1>1, <1>2, <1>4, <1>5, <1>7 DEF FoundInv, AllSeen, Listed

----------------------------------------------------------------------------
\* The SubIFDs of the base image are in its tree, and so are those of every IFD of the tree.
LEMMA TreeGrows ==
  ASSUME file \in Files, chain \in Seq(DOMAIN Ifds), base \in DOMAIN chain
  PROVE  /\ Range(At(base).subs) \ SeenInChain \subseteq InTree
         /\ \A q \in InTree \cap DOMAIN Ifds : Range(Ifds[q].subs) \ SeenInChain \subseteq InTree
<1> DEFINE b == chain[base]
<1>1. b \in DOMAIN Ifds /\ At(base) = Ifds[b]
  BY DEF At
<1>2. \A q \in DOMAIN Ifds : q \in Pointers /\ Range(Ifds[q].subs) \subseteq Pointers
  BY DEF Pointers
<1>3. InTree = {p \in Pointers : \A S \in SUBSET Pointers : FollowsTree(S) => p \in S} \ SeenInChain
  BY InTreeIs
<1>4. ASSUME NEW q \in DOMAIN Ifds, q = b \/ q \in InTree
      PROVE  Range(Ifds[q].subs) \ SeenInChain \subseteq InTree
  <2> SUFFICES ASSUME NEW S \in SUBSET Pointers, FollowsTree(S)
               PROVE  Range(Ifds[q].subs) \subseteq S
    BY <1>2, <1>3
  <2>1. q \in S
    BY <1>3, <1>4 DEF FollowsTree
  <2>2. q \notin SeenInChain \ {b}
    BY <1>3, <1>4
  <2> QED BY <2>1, <2>2 DEF FollowsTree
<1>5. Range(Ifds[b].subs) \ SeenInChain \subseteq InTree
  BY <1>1, <1>4
<1> QED BY <1>1, <1>4, <1>5

----------------------------------------------------------------------------
\* The overviews of the chain are listed in its order, and the SubIFDs of the base image seen.
LEMMA CollectFound == FoundInv /\ CollectChain => FoundInv'
<1> SUFFICES ASSUME FoundInv, CollectChain PROVE FoundInv'
  OBVIOUS
<1> DEFINE subs == At(base).subs
           less == {p \in InChain \X InChain : p[1] < p[2]}
           found == Ordered(InChain, less)
           n == Cardinality(InChain)
<1>1. /\ phase = "overviews" /\ phase' = "subifds" /\ PushSubIfds(subs, 1, SeenInChain)
      /\ UNCHANGED <<file, chain, base, offset, subReads>>
      /\ overviews' = [k \in DOMAIN found |-> [index |-> found[k], offset |-> chain[found[k]]]]
  BY DEF CollectChain
<1>2. /\ OpenInv /\ OpenInv' /\ pending = <<>> /\ subReads = <<>> /\ base \in DOMAIN chain
      /\ file \in Files /\ chain \in Seq(DOMAIN Ifds) /\ IsInjective(chain)
  BY <1>1, CollectKeeps DEF FoundInv, OpenInv, PhaseOK, ChainOK
<1>3. /\ Ifds' = Ifds /\ Metadata' = Metadata /\ Georeferenced' = Georeferenced
      /\ BaseIndex' = BaseIndex
  BY <1>1, ChainSame
<1>4. /\ SeenInChain' = SeenInChain /\ InTree' = InTree /\ At(base)' = At(base)
      /\ \A d : IsOverview(d)' = IsOverview(d)
  BY <1>1, FileSame
<1>5. subs \in Seq(Nat)
  <2>1. chain[base] \in DOMAIN Ifds
    BY <1>2
  <2> QED BY <1>2, <2>1, IfdFacts DEF At
<1>6. Offsets(pending') = Range(subs) \ SeenInChain
  <2>1. Pushed(subs, 1, SeenInChain) \in Seq(Node)
    BY <1>5, PushedNodes
  <2>2. pending' = <<>> \o Pushed(subs, 1, SeenInChain)
    BY <1>1, <1>2 DEF PushSubIfds
  <2>3. pending' = Pushed(subs, 1, SeenInChain)
    BY <2>1, <2>2
  <2> QED BY <1>5, <2>3, OffsetsPushed
<1>7. seen' = SeenInChain \cup Range(subs)
  BY <1>1 DEF PushSubIfds
<1>8. Range(subReads') = {}
  BY <1>1, <1>2 DEF Range
<1>9. ChainLinked'
  BY <1>1, <1>3 DEF FoundInv, ChainLinked
<1>10. BaseChosen'
  BY <1>1, <1>3 DEF FoundInv, BaseChosen
<1>11. OnlyTree'
  <2>1. Range(subs) \ SeenInChain \subseteq InTree
    BY <1>2, TreeGrows
  <2> QED BY <1>4, <1>6, <1>8, <2>1 DEF OnlyTree, Offsets
<1>12. AllSeen'
  <2>1. \A o \in Range(subReads') : FALSE
    BY <1>8
  <2>2. seen' = SeenInChain \cup Offsets(pending') \cup Range(subReads')
    BY <1>6, <1>7, <1>8
  <2> QED BY <1>4, <1>7, <2>1, <2>2 DEF AllSeen, Offsets
<1>13. InChain \in SUBSET (1..Len(chain)) /\ IsFiniteSet(InChain)
  <2>1. InChain \in SUBSET (1..Len(chain)) /\ Len(chain) \in Nat
    BY <1>2 DEF InChain
  <2>2. IsFiniteSet(1..Len(chain))
    BY <2>1, FS_Interval
  <2> QED BY ONLY <2>1, <2>2, FS_Subset
<1>14. Orders(less, InChain)
  <2>1. InChain \subseteq Nat
    BY <1>2, <1>13
  <2>2. \A x, y \in InChain : <<x, y>> \in less <=> x < y
    OBVIOUS
  <2> HIDE DEF less
  <2> QED BY <2>1, <2>2 DEF Orders
<1>15. /\ n \in Nat /\ found \in [1..n -> InChain]
       /\ \A x \in InChain : \E k \in 1..n : found[k] = x
       /\ \A j, k \in 1..n : j < k => <<found[j], found[k]>> \in less
  <2> HIDE DEF less
  <2> QED BY <1>13, <1>14, OrderedLists
<1>16. \A j, k \in 1..n : found[j] = found[k] => j = k
  <2> SUFFICES ASSUME NEW j \in 1..n, NEW k \in 1..n, found[j] = found[k], j # k PROVE FALSE
    OBVIOUS
  <2> HIDE DEF less, found, n
  <2>1. <<found[j], found[k]>> \in less \/ <<found[k], found[j]>> \in less
    BY <1>15
  <2>2. found[j] \in InChain /\ found[k] \in InChain
    BY <1>15
  <2> QED BY <1>14, <2>1, <2>2 DEF Orders
<1> HIDE DEF found, n, less
<1>22. \A k \in 1..n : found[k] \in InChain /\ InChain \subseteq 1..Len(chain)
  BY <1>13, <1>15
<1>23. Len(chain) \in Nat /\ DOMAIN chain = 1..Len(chain)
      /\ \A i \in 1..Len(chain) : i \in Nat /\ chain[i] \in DOMAIN Ifds
  BY <1>2
<1>24. DOMAIN found = 1..n
  BY <1>15
<1>17. /\ DOMAIN overviews' = 1..n
       /\ \A k \in 1..n : /\ overviews'[k] = [index |-> found[k], offset |-> chain[found[k]]]
                          /\ found[k] \in DOMAIN chain /\ found[k] \in Nat
                          /\ chain[found[k]] \in DOMAIN Ifds
  BY <1>1, <1>22, <1>23, <1>24
<1>18. overviews' \in Seq([index : Nat, offset : DOMAIN Ifds])
  <2>1. overviews' = [k \in 1..n |-> [index |-> found[k], offset |-> chain[found[k]]]]
    BY <1>1, <1>15
  <2> QED BY <1>15, <1>17, <2>1
<1>19. {overviews'[i].offset : i \in DOMAIN overviews'} = {o \in Overviews : IsOverview(Ifds[o])}'
  <2>1. Overviews' = {chain[i] : i \in DOMAIN chain \ {base, Metadata}}
    BY <1>1, <1>3, <1>8 DEF Overviews
  <2>2. {o \in Overviews : IsOverview(Ifds[o])}' = {chain[i] : i \in InChain}
    <3>1. {o \in Overviews : IsOverview(Ifds[o])}' = {o \in Overviews' : IsOverview(Ifds[o])}
      BY <1>3, <1>4
    <3>2. InChain = {i \in DOMAIN chain \ {base, Metadata} : IsOverview(Ifds[chain[i]])}
      BY DEF InChain, At
    <3> QED BY <2>1, <3>1, <3>2
  <2>3. {overviews'[i].offset : i \in DOMAIN overviews'} = {chain[found[k]] : k \in 1..n}
    BY <1>17
  <2>4. {chain[found[k]] : k \in 1..n} = {chain[i] : i \in InChain}
    BY <1>15
  <2> QED BY <2>2, <2>3, <2>4
<1>20. ASSUME NEW i \in DOMAIN overviews', NEW j \in DOMAIN overviews',
              overviews'[i].offset = overviews'[j].offset
       PROVE  i = j
  <2>1. chain[found[i]] = chain[found[j]] /\ i \in 1..n /\ j \in 1..n
    BY <1>17, <1>20
  <2>2. found[i] = found[j]
    BY <1>2, <1>17, <2>1 DEF IsInjective
  <2> QED BY <1>16, <2>1, <2>2
<1>21. Listed'
  BY <1>1, <1>3, <1>18, <1>19, <1>20 DEF Listed
<1> QED BY <1>2, <1>9, <1>10, <1>11, <1>12, <1>21 DEF FoundInv

\* The IFD read is of the tree and new, so that it is listed once if it is an overview.
LEMMA VisitFound == FoundInv /\ VisitSubIfd => FoundInv'
<1> SUFFICES ASSUME FoundInv, VisitSubIfd PROVE FoundInv'
  OBVIOUS
<1> DEFINE top == Last(pending)
           o == top.offset
           subs == Ifds[o].subs
           rest == Front(pending)
           row == [index |-> 0, offset |-> o]
<1>1. /\ phase = "subifds" /\ phase' = "subifds" /\ pending # <<>> /\ VisitRefusal(top) = "none"
      /\ PushSubIfds(subs, top.depth + 1, seen) /\ subReads' = Append(subReads, o)
      /\ UNCHANGED <<file, chain, base, offset>>
      /\ overviews' = IF IsOverview(Ifds[o]) THEN Append(overviews, row) ELSE overviews
  BY DEF VisitSubIfd
<1>2. /\ OpenInv /\ OpenInv' /\ base \in DOMAIN chain /\ base # 0
      /\ file \in Files /\ chain \in Seq(DOMAIN Ifds)
      /\ Work(pending, subReads, visited, seen, SeenInChain)
  BY <1>1, VisitKeeps DEF FoundInv, OpenInv, PhaseOK, ChainOK, BaseChosen
<1>3. /\ Ifds' = Ifds /\ Metadata' = Metadata /\ Georeferenced' = Georeferenced
      /\ BaseIndex' = BaseIndex
  BY <1>1, ChainSame
<1>4. /\ SeenInChain' = SeenInChain /\ InTree' = InTree /\ At(base)' = At(base)
      /\ \A d : IsOverview(d)' = IsOverview(d)
  BY <1>1, FileSame
<1>5. /\ Offsets(pending) = Offsets(rest) \cup {o} /\ rest \in Seq(Node)
      /\ top \in Node /\ o \in Nat
  <2>1. pending \in Seq(Node) /\ top \in Node
    BY <1>1, <1>2, PopKeeps DEF Work
  <2> QED BY <1>1, <2>1, OffsetsPop DEF Node
<1>6. o \in DOMAIN Ifds
  <2>1. ReadRefusal(o, 0) = "none" => o \in DOMAIN Ifds
    BY DEF ReadRefusal
  <2> HIDE DEF top
  <2> QED BY <1>1, <2>1 DEF VisitRefusal
<1>7. subs \in Seq(Nat) /\ top.depth + 1 \in Nat
  BY <1>2, <1>5, <1>6, IfdFacts DEF Node
<1>8. /\ pending' = rest \o Pushed(subs, top.depth + 1, seen) /\ seen' = seen \cup Range(subs)
  BY <1>1 DEF PushSubIfds
<1>9. o \notin SeenInChain /\ o \notin Range(subReads) /\ subReads \in Seq(Nat)
  <2>1. Len(pending) \in 1..Len(pending) /\ DOMAIN subReads = 1..Len(subReads)
    BY <1>1, <1>2, EmptySeq DEF Work
  <2> QED BY <1>2, <2>1 DEF Work, Range, Last
<1> HIDE DEF top, o, subs, rest
<1>10. Offsets(pending') = Offsets(rest) \cup (Range(subs) \ seen)
  <2>1. Pushed(subs, top.depth + 1, seen) \in Seq(Node)
    BY <1>7, PushedNodes
  <2>2. Offsets(pending') = Offsets(rest) \cup Offsets(Pushed(subs, top.depth + 1, seen))
    BY <1>5, <1>8, <2>1, OffsetsJoin
  <2> QED BY <1>7, <2>2, OffsetsPushed
<1>11. Range(subReads') = Range(subReads) \cup {o}
  BY <1>1, <1>5, <1>9, RangeAppend
<1>12. /\ Offsets(pending) \subseteq InTree /\ Range(subReads) \subseteq InTree \cap DOMAIN Ifds
       /\ seen = SeenInChain \cup Offsets(pending) \cup Range(subReads)
       /\ Range(At(base).subs) \subseteq seen
       /\ \A q \in Range(subReads) : Range(Ifds[q].subs) \subseteq seen
  BY <1>1, <1>2 DEF FoundInv, OnlyTree, AllSeen
<1>13. ChainLinked'
  BY <1>1, <1>3 DEF FoundInv, ChainLinked
<1>14. BaseChosen'
  BY <1>1, <1>3 DEF FoundInv, BaseChosen
<1>15. OnlyTree'
  <2>1. Range(subs) \ SeenInChain \subseteq InTree
    BY <1>2, <1>5, <1>6, <1>12, TreeGrows DEF subs
  <2>2. Offsets(pending') \subseteq InTree
    BY <1>5, <1>10, <1>12, <2>1
  <2>3. Range(subReads') \subseteq InTree \cap DOMAIN Ifds
    BY <1>5, <1>6, <1>11, <1>12
  <2> QED BY <1>3, <1>4, <2>2, <2>3 DEF OnlyTree, Offsets
<1>16. AllSeen'
  <2>1. seen' = SeenInChain \cup Offsets(pending') \cup Range(subReads')
    BY <1>5, <1>8, <1>10, <1>11, <1>12
  <2>2. \A q \in Range(subReads') : Range(Ifds[q].subs) \subseteq seen'
    BY <1>8, <1>11, <1>12 DEF subs
  <2>3. Range(At(base).subs) \subseteq seen'
    BY <1>8, <1>12
  <2> QED BY <1>3, <1>4, <2>1, <2>2, <2>3 DEF AllSeen, Offsets
<1> DEFINE Row == [index : Nat, offset : DOMAIN Ifds]
<1>17. /\ overviews \in Seq(Row)
       /\ {overviews[i].offset : i \in DOMAIN overviews} = {p \in Overviews : IsOverview(Ifds[p])}
       /\ \A i, j \in DOMAIN overviews : overviews[i].offset = overviews[j].offset => i = j
  BY <1>1 DEF FoundInv, Listed
<1>18. Overviews' = Overviews \cup {o}
  BY <1>1, <1>3, <1>11 DEF Overviews
<1>19. {p \in Overviews : IsOverview(Ifds[p])}' =
         {p \in Overviews \cup {o} : IsOverview(Ifds[p])}
  BY <1>3, <1>4, <1>18
<1>20. CASE ~IsOverview(Ifds[o])
  <2>1. overviews' = overviews
    BY <1>1, <1>20
  <2>2. {p \in Overviews : IsOverview(Ifds[p])}' = {p \in Overviews : IsOverview(Ifds[p])}
    BY <1>19, <1>20
  <2>3. Listed'
    <3>1. (overviews \in Seq([index : Nat, offset : DOMAIN Ifds]))'
      BY <1>3, <1>17, <2>1
    <3>2. {overviews[i].offset : i \in DOMAIN overviews}' = {p \in Overviews : IsOverview(Ifds[p])}'
      BY <1>17, <2>1, <2>2
    <3>3. \A i, j \in DOMAIN overviews' : overviews'[i].offset = overviews'[j].offset => i = j
      BY <1>17, <2>1
    <3>4. phase' # "done"
      BY <1>1
    <3> QED BY <3>1, <3>2, <3>3, <3>4 DEF Listed
  <2> QED BY <1>2, <1>13, <1>14, <1>15, <1>16, <2>3 DEF FoundInv
<1>21. CASE IsOverview(Ifds[o])
  <2>1. overviews' = Append(overviews, row) /\ row \in Row /\ row.offset = o
    BY <1>1, <1>6, <1>21
  <2> HIDE DEF row, Row
  <2>2. /\ overviews' \in Seq(Row)
        /\ DOMAIN overviews' = 1..(Len(overviews) + 1)
        /\ DOMAIN overviews = 1..Len(overviews) /\ Len(overviews) \in Nat
        /\ overviews'[Len(overviews) + 1] = row
        /\ \A i \in 1..Len(overviews) : overviews'[i] = overviews[i]
    BY ONLY <1>17, <2>1, RangeAppend
  <2>3. \A i \in DOMAIN overviews' : i = Len(overviews) + 1 \/ i \in DOMAIN overviews
    BY <2>2
  <2>4. Len(overviews) + 1 \in DOMAIN overviews' /\ \A i \in DOMAIN overviews : i \in DOMAIN overviews'
    BY <2>2
  <2>5. \A i \in DOMAIN overviews : overviews[i].offset # o
    <3>1. o \notin {p \in Overviews : IsOverview(Ifds[p])}
      <4>1. ASSUME NEW i \in DOMAIN chain \ {base, Metadata}, chain[i] = o PROVE FALSE
        <5>1. i \in InChain
          BY <1>21, <4>1 DEF InChain, At
        <5> QED BY <1>9, <4>1, <5>1 DEF SeenInChain
      <4> QED BY <1>9, <4>1 DEF Overviews
    <3> QED BY <1>17, <3>1
  <2>6. {overviews'[i].offset : i \in DOMAIN overviews'} =
          {overviews[i].offset : i \in DOMAIN overviews} \cup {o}
    BY <2>1, <2>2, <2>3, <2>4
  <2>7. {overviews'[i].offset : i \in DOMAIN overviews'} = {p \in Overviews : IsOverview(Ifds[p])}'
    BY <1>17, <1>19, <1>21, <2>6
  <2>8. ASSUME NEW i \in DOMAIN overviews', NEW j \in DOMAIN overviews',
               overviews'[i].offset = overviews'[j].offset
        PROVE  i = j
    <3>1. CASE i \in DOMAIN overviews /\ j \in DOMAIN overviews
      BY <1>17, <2>2, <2>8, <3>1
    <3>2. CASE i = Len(overviews) + 1 /\ j \in DOMAIN overviews
      BY <2>1, <2>2, <2>5, <2>8, <3>2
    <3>3. CASE i \in DOMAIN overviews /\ j = Len(overviews) + 1
      BY <2>1, <2>2, <2>5, <2>8, <3>3
    <3> QED BY <2>3, <3>1, <3>2, <3>3
  <2>9. Listed'
    BY <1>1, <1>3, <2>2, <2>7, <2>8 DEF Listed, Row
  <2> QED BY <1>2, <1>13, <1>14, <1>15, <1>16, <2>9 DEF FoundInv
<1> QED BY <1>20, <1>21

----------------------------------------------------------------------------
(***************************************************************************)
(* overviews.sort_by is a stable sort: Before, and of the overviews it     *)
(* does not tell apart the one found first, is a strict total order.       *)
(***************************************************************************)
Sorts(places, width, height, index, before, earlier) ==
  /\ places \in SUBSET Nat
  /\ \A i \in places : width[i] \in Nat /\ height[i] \in Nat /\ index[i] \in Nat
  /\ \A i, j \in places :
       <<i, j>> \in before <=>
         \/ width[i] > width[j]
         \/ width[i] = width[j] /\ \/ height[i] > height[j]
                                   \/ height[i] = height[j] /\ index[i] < index[j]
  /\ \A i, j \in places :
       <<i, j>> \in earlier <=> <<i, j>> \in before \/ (<<j, i>> \notin before /\ i < j)

\* The order of the sort is one: no two overviews come before each other, none is left out.
LEMMA SortOrders ==
  ASSUME NEW places, NEW width, NEW height, NEW index, NEW earlier, NEW before,
         Sorts(places, width, height, index, before, earlier)
  PROVE  /\ Orders(earlier, places)
         /\ \A i, j \in places : <<i, j>> \in earlier => <<j, i>> \notin before
<1> DEFINE Lex(i, j) ==
             \/ width[i] > width[j]
             \/ width[i] = width[j] /\ height[i] > height[j]
             \/ width[i] = width[j] /\ height[i] = height[j] /\ index[i] < index[j]
             \/ width[i] = width[j] /\ height[i] = height[j] /\ index[i] = index[j] /\ i < j
<1>1. ASSUME NEW i \in places, NEW j \in places
      PROVE  (<<i, j>> \in earlier <=> Lex(i, j)) /\ (Lex(i, j) => <<j, i>> \notin before)
  <2>1. /\ width[i] \in Nat /\ height[i] \in Nat /\ index[i] \in Nat /\ i \in Nat
        /\ width[j] \in Nat /\ height[j] \in Nat /\ index[j] \in Nat /\ j \in Nat
    BY DEF Sorts
  <2>2. <<i, j>> \in before <=>
          \/ width[i] > width[j]
          \/ width[i] = width[j] /\ \/ height[i] > height[j]
                                    \/ height[i] = height[j] /\ index[i] < index[j]
    BY DEF Sorts
  <2>3. <<j, i>> \in before <=>
          \/ width[j] > width[i]
          \/ width[j] = width[i] /\ \/ height[j] > height[i]
                                    \/ height[j] = height[i] /\ index[j] < index[i]
    BY DEF Sorts
  <2>4. <<i, j>> \in earlier <=> <<i, j>> \in before \/ (<<j, i>> \notin before /\ i < j)
    BY DEF Sorts
  <2> QED BY ONLY <2>1, <2>2, <2>3, <2>4
<1>2. ASSUME NEW i \in places, NEW j \in places, i # j PROVE Lex(i, j) \/ Lex(j, i)
  <2>1. /\ width[i] \in Nat /\ height[i] \in Nat /\ index[i] \in Nat /\ i \in Nat
        /\ width[j] \in Nat /\ height[j] \in Nat /\ index[j] \in Nat /\ j \in Nat
    BY DEF Sorts
  <2> QED BY ONLY <1>2, <2>1
<1>3. ASSUME NEW i \in places, NEW j \in places, NEW k \in places, Lex(i, j), Lex(j, k)
      PROVE  Lex(i, k)
  <2>1. /\ width[i] \in Nat /\ height[i] \in Nat /\ index[i] \in Nat /\ i \in Nat
        /\ width[j] \in Nat /\ height[j] \in Nat /\ index[j] \in Nat /\ j \in Nat
        /\ width[k] \in Nat /\ height[k] \in Nat /\ index[k] \in Nat /\ k \in Nat
    BY DEF Sorts
  <2> QED BY ONLY <1>3, <2>1
<1>4. \A i \in places : ~Lex(i, i)
  BY DEF Sorts
<1> HIDE DEF Lex
<1> QED BY <1>1, <1>2, <1>3, <1>4 DEF Orders

\* Sorting lists the same overviews, large ones first.
LEMMA SortFound == FoundInv /\ SortOverviews => FoundInv'
<1> SUFFICES ASSUME FoundInv, SortOverviews PROVE FoundInv'
  OBVIOUS
<1> DEFINE places == DOMAIN overviews
           earlier == {p \in places \X places :
                         \/ Before(overviews[p[1]], overviews[p[2]])
                         \/ ~Before(overviews[p[2]], overviews[p[1]]) /\ p[1] < p[2]}
           order == Ordered(places, earlier)
           n == Cardinality(places)
           Row == [index : Nat, offset : DOMAIN Ifds]
<1>1. /\ phase = "subifds" /\ pending = <<>> /\ phase' = "done"
      /\ overviews' = [k \in DOMAIN order |-> overviews[order[k]]]
      /\ UNCHANGED <<file, chain, offset, base, seen, pending, subReads>>
  BY DEF SortOverviews
<1>2. OpenInv /\ OpenInv' /\ file \in Files
  BY SortKeeps DEF FoundInv, OpenInv, ChainOK
<1>3. /\ Ifds' = Ifds /\ Metadata' = Metadata /\ Georeferenced' = Georeferenced
      /\ BaseIndex' = BaseIndex
  BY <1>1, ChainSame
<1>4. /\ SeenInChain' = SeenInChain /\ InTree' = InTree /\ At(base)' = At(base)
      /\ \A d : IsOverview(d)' = IsOverview(d)
  BY <1>1, FileSame
<1>5. /\ overviews \in Seq(Row)
      /\ {overviews[i].offset : i \in places} = {p \in Overviews : IsOverview(Ifds[p])}
      /\ \A i, j \in places : overviews[i].offset = overviews[j].offset => i = j
  BY <1>1 DEF FoundInv, Listed
<1>6. /\ places = 1..Len(overviews) /\ Len(overviews) \in Nat /\ places \in SUBSET Nat
      /\ \A i \in places : overviews[i] \in Row
  <2>1. overviews \in Seq(Row)
    BY <1>5
  <2> HIDE DEF Row
  <2> QED BY ONLY <2>1
<1>7. IsFiniteSet(places)
  <2> HIDE DEF places
  <2> QED BY <1>6, FS_Interval
<1> DEFINE width == [i \in places |-> Ifds[overviews[i].offset].width]
           height == [i \in places |-> Ifds[overviews[i].offset].height]
           index == [i \in places |-> overviews[i].index]
           before == {p \in places \X places : Before(overviews[p[1]], overviews[p[2]])}
<1>8. \A i \in places : width[i] \in Nat /\ height[i] \in Nat /\ index[i] \in Nat
  <2> SUFFICES ASSUME NEW i \in places
               PROVE  /\ Ifds[overviews[i].offset].width \in Nat
                      /\ Ifds[overviews[i].offset].height \in Nat
                      /\ overviews[i].index \in Nat
    OBVIOUS
  <2>1. overviews[i].index \in Nat /\ overviews[i].offset \in DOMAIN Ifds
    BY <1>6
  <2>2. IsIfd(Ifds[overviews[i].offset])
    BY <1>2, <2>1, FilesAssumption DEF Ifds
  <2> QED BY <2>1, <2>2 DEF IsIfd
<1>9. \A i, j \in places : <<i, j>> \in before <=> Before(overviews[i], overviews[j])
  OBVIOUS
<1>10. \A i, j \in places :
         <<i, j>> \in before <=>
           \/ width[i] > width[j]
           \/ width[i] = width[j] /\ \/ height[i] > height[j]
                                     \/ height[i] = height[j] /\ index[i] < index[j]
  <2> HIDE DEF before, places
  <2> QED BY <1>9 DEF Before
<1>11. \A i, j \in places :
         <<i, j>> \in earlier <=> <<i, j>> \in before \/ (<<j, i>> \notin before /\ i < j)
  OBVIOUS
<1> HIDE DEF width, height, index, before, earlier, places
<1>12. /\ Orders(earlier, places)
       /\ \A i, j \in places : <<i, j>> \in earlier => <<j, i>> \notin before
  <2>1. places \in SUBSET Nat
    BY <1>6
  <2>2. Sorts(places, width, height, index, before, earlier)
    BY ONLY <1>8, <1>10, <1>11, <2>1 DEF Sorts
  <2> QED BY ONLY <2>2, SortOrders
<1>13. /\ n \in Nat /\ order \in [1..n -> places]
       /\ \A x \in places : \E k \in 1..n : order[k] = x
       /\ \A j, k \in 1..n : j < k => <<order[j], order[k]>> \in earlier
  BY <1>7, <1>12, OrderedLists
<1>14. \A j, k \in 1..n : order[j] = order[k] => j = k
  <2> SUFFICES ASSUME NEW j \in 1..n, NEW k \in 1..n, order[j] = order[k], j # k PROVE FALSE
    OBVIOUS
  <2> HIDE DEF order, n
  <2>1. <<order[j], order[k]>> \in earlier \/ <<order[k], order[j]>> \in earlier
    BY <1>13
  <2>2. order[j] \in places /\ order[k] \in places
    BY <1>13
  <2> QED BY <1>12, <2>1, <2>2 DEF Orders
<1> HIDE DEF order, n
<1>15. DOMAIN order = 1..n
  BY <1>13
<1>16. /\ overviews' = [k \in 1..n |-> overviews[order[k]]] /\ DOMAIN overviews' = 1..n
       /\ \A k \in 1..n : order[k] \in places /\ overviews'[k] = overviews[order[k]]
  BY <1>1, <1>13, <1>15
<1>17. overviews' \in Seq(Row)
  <2> HIDE DEF Row
  <2>1. \A k \in 1..n : overviews[order[k]] \in Row
    BY <1>6, <1>16
  <2> QED BY <1>13, <1>16, <2>1
<1>18. {overviews'[k].offset : k \in DOMAIN overviews'} = {overviews[i].offset : i \in places}
  <2>1. {overviews'[k].offset : k \in DOMAIN overviews'} = {overviews[order[k]].offset : k \in 1..n}
    BY <1>16
  <2> QED BY <1>13, <1>16, <2>1
<1>19. {o \in Overviews : IsOverview(Ifds[o])}' = {o \in Overviews : IsOverview(Ifds[o])}
  <2>1. Overviews' = Overviews
    BY <1>1, <1>3 DEF Overviews
  <2> QED BY <1>3, <1>4, <2>1
<1>20. \A i, j \in DOMAIN overviews' : overviews'[i].offset = overviews'[j].offset => i = j
  BY <1>5, <1>14, <1>16
<1>21. ASSUME NEW i \in 1..n, NEW j \in 1..n, i < j
       PROVE  ~Before(overviews'[j], overviews'[i])
  <2>1. <<order[j], order[i]>> \notin before /\ order[i] \in places /\ order[j] \in places
    BY <1>12, <1>13, <1>16, <1>21
  <2>2. ~Before(overviews[order[j]], overviews[order[i]])
    BY <1>9, <2>1
  <2> QED BY <1>16, <2>2
<1>22. \A i, j \in DOMAIN overviews' : i < j => ~Before(overviews[j], overviews[i])'
  BY <1>3, <1>16, <1>21 DEF Before
<1>23. Listed'
  <2>1. {overviews[i].offset : i \in DOMAIN overviews}' = {o \in Overviews : IsOverview(Ifds[o])}'
    BY <1>5, <1>18, <1>19
  <2>2. (overviews \in Seq([index : Nat, offset : DOMAIN Ifds]))'
    BY <1>3, <1>17
  <2>3. pending' = <<>>
    BY <1>1
  <2> QED BY <1>20, <1>22, <2>1, <2>2, <2>3 DEF Listed
<1>24. ChainLinked'
  BY <1>1, <1>3 DEF FoundInv, ChainLinked
<1>25. BaseChosen'
  BY <1>1, <1>3 DEF FoundInv, BaseChosen
<1>26. OnlyTree'
  BY <1>1, <1>3, <1>4 DEF FoundInv, OnlyTree, Offsets
<1>27. AllSeen'
  BY <1>1, <1>3, <1>4 DEF FoundInv, AllSeen, Offsets
<1> QED BY <1>2, <1>23, <1>24, <1>25, <1>26, <1>27 DEF FoundInv

(***************************************************************************)
(* What opening has found so far is right in every reachable state.        *)
(***************************************************************************)
THEOREM FoundInvariant == Spec => []FoundInv
<1>1. Init => FoundInv
  BY InitFound
<1>2. FoundInv /\ [Next]_vars => FoundInv'
  <2> SUFFICES ASSUME FoundInv, [Next]_vars PROVE FoundInv'
    OBVIOUS
  <2>1. CASE FollowChain
    BY <2>1, FollowFound
  <2>2. CASE ChainFails \/ NotGeoTiff \/ CollectFails \/ VisitFails
    BY <2>2, FailFound DEF ChainFails, NotGeoTiff, CollectFails, VisitFails
  <2>3. CASE ChooseBase
    BY <2>3, ChooseFound
  <2>4. CASE CollectChain
    BY <2>4, CollectFound
  <2>5. CASE VisitSubIfd
    BY <2>5, VisitFound
  <2>6. CASE SortOverviews
    BY <2>6, SortFound
  <2>7. CASE UNCHANGED vars
    <3>1. OpenInv'
      BY <2>7, NextInv DEF FoundInv
    <3>2. UNCHANGED <<file, phase, chain, base, offset, pending, subReads, seen, overviews>>
      BY <2>7 DEF vars
    <3> QED BY <3>1, <3>2, NothingFound
  <2> QED BY <2>1, <2>2, <2>3, <2>4, <2>5, <2>6, <2>7 DEF Next
<1> QED BY <1>1, <1>2, PTL DEF Spec

----------------------------------------------------------------------------
\* find_base_ifd_index settles for a reduced image only if no other follows.
LEMMA BaseIsFull ==
  ASSUME chain \in Seq(DOMAIN Ifds), Georeferenced # {}, base = BaseIndex, Reduced(At(base))
  PROVE  \A i \in Metadata..Len(chain) : Reduced(At(i))
<1> DEFINE full == {i \in (Metadata + 1)..Len(chain) : ~Reduced(At(i))}
<1>1. Metadata \in 1..Len(chain) /\ Len(chain) \in Nat
  BY MetadataIsOne
<1>2. full \in SUBSET Nat
  BY <1>1
<1>3. BaseIndex = IF ~Reduced(At(Metadata)) \/ full = {} THEN Metadata ELSE FirstOf(full)
  BY DEF BaseIndex
<1>4. full # {} => FirstOf(full) \in full
  <2> HIDE DEF full
  <2> QED BY <1>2, FirstIsOne
<1>5. Reduced(At(Metadata)) /\ full = {}
  BY <1>3, <1>4
<1>6. ASSUME NEW i \in Metadata..Len(chain) PROVE Reduced(At(i))
  <2>1. i = Metadata \/ i \in (Metadata + 1)..Len(chain)
    BY <1>1
  <2> QED BY <1>5, <2>1
<1> QED BY <1>6

(***************************************************************************)
(* All of the chain that has been read is on it, and so is what comes      *)
(* next.                                                                   *)
(***************************************************************************)
LEMMA ReadIsOnChain ==
  ASSUME file \in Files, chain \in Seq(DOMAIN Ifds), ChainLinked
  PROVE  Range(chain) \cup {offset} \subseteq OnChain
<1> DEFINE n == Len(chain)
<1>1. /\ n \in Nat /\ DOMAIN chain = 1..n /\ \A k \in 1..n : chain[k] \in DOMAIN Ifds
      /\ n = 0 => chain = <<>>
  BY EmptySeq
<1>2. /\ offset = IF n = 0 THEN file.first ELSE Ifds[chain[n]].next
      /\ n # 0 => chain[1] = file.first
      /\ \A k \in 1..n : k # 1 => chain[k] = Ifds[chain[k - 1]].next
  BY <1>1 DEF ChainLinked
<1> HIDE DEF n
<1>3. Range(chain) = {chain[k] : k \in 1..n}
  BY <1>1 DEF Range
<1>4. Range(chain) \cup {offset} \subseteq Pointers
  <2>1. offset \in Pointers
    <3>1. n # 0 => chain[n] \in DOMAIN Ifds
      BY <1>1
    <3> QED BY <1>2, <3>1 DEF Pointers
  <2> QED BY <1>1, <1>3, <2>1 DEF Pointers
<1>5. ASSUME NEW S \in SUBSET Pointers, FollowsChain(S)
      PROVE  Range(chain) \cup {offset} \subseteq S
  <2> DEFINE Q == {m \in Nat : m + 1 \in 1..n => chain[m + 1] \in S}
  <2>1. 0 \in Q
    BY <1>1, <1>2, <1>5 DEF FollowsChain
  <2>2. ASSUME NEW m \in Nat, m \in Q PROVE m + 1 \in Q
    <3> SUFFICES ASSUME (m + 1) + 1 \in 1..n PROVE chain[(m + 1) + 1] \in S
      OBVIOUS
    <3>1. m + 1 \in 1..n /\ (m + 1) + 1 # 1 /\ ((m + 1) + 1) - 1 = m + 1
      BY <1>1
    <3>2. chain[m + 1] \in S \cap DOMAIN Ifds
      BY <1>1, <2>2, <3>1
    <3>3. chain[(m + 1) + 1] = Ifds[chain[m + 1]].next
      BY <1>2, <3>1
    <3> QED BY <1>5, <3>2, <3>3 DEF FollowsChain
  <2>3. \A m \in Nat : m \in Q
    <3> HIDE DEF Q
    <3> QED BY <2>1, <2>2, Shared!SetInduction
  <2>4. ASSUME NEW k \in 1..n PROVE chain[k] \in S
    <3>1. k - 1 \in Nat /\ (k - 1) + 1 = k
      BY <1>1
    <3> QED BY <2>3, <3>1
  <2>5. offset \in S
    <3>1. CASE n = 0
      BY <1>2, <1>5, <3>1 DEF FollowsChain
    <3>2. CASE n # 0
      <4>1. n \in 1..n
        BY <1>1, <3>2
      <4> QED BY <1>1, <1>2, <1>5, <2>4, <3>2, <4>1 DEF FollowsChain
    <3> QED BY <3>1, <3>2
  <2> QED BY <1>3, <2>4, <2>5
<1> QED BY <1>4, <1>5, OnChainIs

(***************************************************************************)
(* Where the chain ends, or comes back to itself, there is nothing else on *)
(* it.                                                                     *)
(***************************************************************************)
LEMMA NoMoreOnChain ==
  ASSUME file \in Files, chain \in Seq(DOMAIN Ifds), ChainLinked,
         NEW T \in SUBSET Pointers, Range(chain) \cup {offset} \subseteq T,
         T \cap DOMAIN Ifds = Range(chain)
  PROVE  OnChain \subseteq T
<1> DEFINE n == Len(chain)
<1>1. /\ n \in Nat /\ DOMAIN chain = 1..n /\ \A k \in 1..n : chain[k] \in DOMAIN Ifds
      /\ n = 0 => chain = <<>>
  BY EmptySeq
<1>2. /\ offset = IF n = 0 THEN file.first ELSE Ifds[chain[n]].next
      /\ n # 0 => chain[1] = file.first
      /\ \A k \in 1..n : k # 1 => chain[k] = Ifds[chain[k - 1]].next
  BY <1>1 DEF ChainLinked
<1> HIDE DEF n
<1>3. Range(chain) = {chain[k] : k \in 1..n}
  BY <1>1 DEF Range
<1>4. file.first \in T
  <2>1. n # 0 => 1 \in 1..n
    BY <1>1
  <2> QED BY <1>2, <1>3, <2>1
<1>5. ASSUME NEW q \in T \cap DOMAIN Ifds PROVE Ifds[q].next \in T
  <2>1. PICK k \in 1..n : q = chain[k]
    BY <1>3
  <2>2. CASE k = n
    <3>1. n # 0
      BY <1>1, <2>1, <2>2
    <3> QED BY <1>2, <2>1, <2>2, <3>1
  <2>3. CASE k # n
    <3>1. k + 1 \in 1..n /\ k + 1 # 1 /\ (k + 1) - 1 = k
      BY <1>1, <2>3
    <3>2. chain[k + 1] = Ifds[q].next
      BY <1>2, <2>1, <3>1
    <3> QED BY <1>3, <3>1, <3>2
  <2> QED BY <2>2, <2>3
<1>6. FollowsChain(T)
  BY <1>4, <1>5 DEF FollowsChain
<1> QED BY <1>6, OnChainIs

\* A chain that was followed to its end holds all that is on it.
LEMMA ChainIsAll ==
  ASSUME file \in Files, chain \in Seq(DOMAIN Ifds), ChainLinked, offset = 0
  PROVE  OnChain = Range(chain) \cup {0}
<1> DEFINE T == Range(chain) \cup {0}
<1>1. 0 \notin DOMAIN Ifds
  BY FilesAssumption DEF Ifds
<1>2. Range(chain) \subseteq DOMAIN Ifds
  BY DEF Range
<1>3. T \in SUBSET Pointers /\ T \cap DOMAIN Ifds = Range(chain)
  BY <1>1, <1>2 DEF Pointers
<1> HIDE DEF T
<1>4. Range(chain) \cup {offset} \subseteq T
  BY DEF T
<1>5. OnChain \subseteq T
  BY <1>3, <1>4, NoMoreOnChain
<1> QED BY <1>5, ReadIsOnChain DEF T

(***************************************************************************)
(* A traversal that has nothing left to visit has read all of the tree.    *)
(***************************************************************************)
LEMMA TreeIsAll ==
  ASSUME chain \in Seq(DOMAIN Ifds), base \in DOMAIN chain, base # 0, phase = "done",
         OnlyTree, AllSeen, Offsets(pending) = {}
  PROVE  InTree = Range(subReads)
<1>1. /\ seen = SeenInChain \cup Range(subReads) /\ Range(At(base).subs) \subseteq seen
      /\ \A o \in Range(subReads) : Range(Ifds[o].subs) \subseteq seen
  BY DEF AllSeen
<1>2. Range(subReads) \subseteq InTree \cap DOMAIN Ifds
  BY DEF OnlyTree
<1>3. chain[base] \in SeenInChain /\ SeenInChain \subseteq DOMAIN Ifds
  BY DEF SeenInChain, InChain
<1>4. seen \in SUBSET Pointers
  BY <1>1, <1>2, <1>3 DEF Pointers
<1>5. FollowsTree(seen)
  BY <1>1, <1>3 DEF FollowsTree, At
<1>6. InTree \subseteq seen \ SeenInChain
  BY <1>4, <1>5, InTreeIs
<1> QED BY <1>1, <1>2, <1>6

(***************************************************************************)
(* GeoTiffFile::from_tiff and collect_overviews: in every directory graph, *)
(* however its pointers run, what is opened is all that can be reached.    *)
(***************************************************************************)
THEOREM OpeningFindsAll == Spec => []Discovered
<1>1. FoundInv => Discovered
  <2> SUFFICES ASSUME FoundInv, phase = "done" PROVE Discovered
    BY DEF Discovered
  <2>1. /\ file \in Files /\ chain \in Seq(DOMAIN Ifds) /\ ChainLinked /\ offset = 0
        /\ base \in DOMAIN chain /\ base # 0 /\ Georeferenced # {} /\ base = BaseIndex
        /\ OnlyTree /\ AllSeen /\ Listed /\ pending = <<>>
    BY DEF FoundInv, OpenInv, ChainOK, ChainLinked, BaseChosen, Listed
  <2>2. chain # <<>> /\ Offsets(pending) = {}
    BY <2>1 DEF Offsets
  <2>3. OnChain = Range(chain) \cup {0}
    BY <2>1, <2>2, ChainIsAll
  <2>4. Reduced(At(base)) => \A i \in Metadata..Len(chain) : Reduced(At(i))
    BY <2>1, BaseIsFull
  <2>5. InTree = Range(subReads)
    BY <2>1, <2>2, TreeIsAll
  <2>6. /\ {overviews[i].offset : i \in DOMAIN overviews} = {o \in Overviews : IsOverview(Ifds[o])}
        /\ \A i, j \in DOMAIN overviews : overviews[i].offset = overviews[j].offset => i = j
        /\ \A i, j \in DOMAIN overviews : i < j => ~Before(overviews[j], overviews[i])
        /\ DOMAIN overviews \subseteq Nat
    <3>1. overviews \in Seq([index : Nat, offset : DOMAIN Ifds])
      BY <2>1 DEF Listed
    <3>2. DOMAIN overviews = 1..Len(overviews) /\ Len(overviews) \in Nat
      BY <3>1
    <3> QED BY <2>1, <3>2 DEF Listed
  <2>7. Overviews = InTree \cup {chain[i] : i \in DOMAIN chain \ {base, Metadata}}
    BY <2>5 DEF Overviews
  <2>8. \A i, j \in DOMAIN overviews : i < j =>
          overviews[i].offset # overviews[j].offset /\ ~Before(overviews[j], overviews[i])
    BY <2>6
  <2>9. {overviews[i].offset : i \in DOMAIN overviews} =
          {o \in InTree \cup {chain[i] : i \in DOMAIN chain \ {base, Metadata}} :
             IsOverview(Ifds[o])}
    BY <2>6, <2>7
  <2> QED BY <2>3, <2>4, <2>8, <2>9 DEF Discovered
<1> QED BY <1>1, FoundInvariant, PTL

----------------------------------------------------------------------------
(***************************************************************************)
(* What has been counted so far, and how the nodes on the stack were       *)
(* reached: from the base image, by IFDs that have been read, in as many   *)
(* steps as the node is deep.                                              *)
(***************************************************************************)
ValueBytes == [o \in DOMAIN Ifds |-> Total(Ifds[o].values)]
SubCounts == [o \in DOMAIN Ifds |-> Len(Ifds[o].subs)]

Counted ==
  /\ usage = SumFunctionOnSet(ValueBytes, Range(chain))
  /\ phase \in {"subifds", "done"} =>
       visited = SumFunctionOnSet(SubCounts, {chain[base]} \cup Range(subReads))

IsPath(path, d, o, read) ==
  /\ path \in [1..d -> InTree] /\ IsInjective(path) /\ path[d] = o
  /\ path[1] \in Range(At(base).subs)
  /\ \A i \in 2..d : path[i] \in Range(Ifds[path[i - 1]].subs)
  /\ \A i \in 1..(d - 1) : path[i] \in read

Paths ==
  phase = "subifds" =>
    \A i \in 1..Len(pending) :
      /\ pending[i].depth \in 1..MaxDepth
      /\ \E path : IsPath(path, pending[i].depth, pending[i].offset, Range(subReads))

CauseInv == FoundInv /\ Counted /\ Paths /\ RefusedForCause

\* What is counted of an IFD is a natural number, and there are finitely many.
LEMMA CountFacts ==
  ASSUME file \in Files
  PROVE  /\ IsFiniteSet(DOMAIN Ifds) /\ 0 \notin DOMAIN Ifds
         /\ \A o \in DOMAIN Ifds : Total(Ifds[o].values) \in Nat /\ Len(Ifds[o].subs) \in Nat
<1>1. /\ IsFiniteSet(DOMAIN Ifds) /\ 0 \notin DOMAIN Ifds
      /\ \A o \in DOMAIN Ifds : Ifds[o].values \in Seq(Nat) /\ Ifds[o].subs \in Seq(Nat)
  BY FilesAssumption DEF Ifds, IsIfd
<1>2. ASSUME NEW values \in Seq(Nat) PROVE Total(values) \in Nat
  <2>1. /\ DOMAIN values = 1..Len(values) /\ Len(values) \in Nat
        /\ \A i \in DOMAIN values : values[i] \in Nat
    OBVIOUS
  <2>2. IsFiniteSet(DOMAIN values)
    BY <2>1, FS_Interval
  <2>3. SumFunctionOnSet(values, DOMAIN values) \in Nat
    BY <2>1, <2>2, SumAdds
  <2> QED BY <2>3 DEF Total, SumFunction
<1> QED BY <1>1, <1>2

\* The causes of a refusal lie in the file, its chain and the base image.
LEMMA CauseSame ==
  ASSUME UNCHANGED <<file, chain, base>>
  PROVE  \A e : Cause(e)' = Cause(e)
<1>1. Ifds' = Ifds /\ InTree' = InTree /\ At(base)' = At(base) /\ file' = file
  BY ChainSame, FileSame
<1>2. OnChain' = OnChain
  <2>1. Pointers' = Pointers
    BY <1>1 DEF Pointers
  <2> QED BY <1>1, <2>1 DEF OnChain, Reachable
<1>3. \A o : Oversized(o)' = Oversized(o)
  BY <1>1 DEF Oversized
<1>4. \A tree : Deep(tree)' = Deep(tree)
  BY <1>1 DEF Deep
<1> QED BY <1>1, <1>2, <1>3, <1>4 DEF Cause

\* A refusal whose cause is there.
LEMMA FailsForCause ==
  ASSUME CauseInv, NEW e \in Errors \ {"none"}, Cause(e), Fail(e)
  PROVE  CauseInv'
<1>1. /\ phase' = "failed" /\ error' = e /\ UNCHANGED <<file, chain, base, usage>>
  BY DEF Fail
<1>2. FoundInv'
  BY FailFound DEF CauseInv
<1>3. Counted'
  <2>1. ValueBytes' = ValueBytes
    BY <1>1 DEF ValueBytes, Ifds
  <2> QED BY <1>1, <2>1 DEF CauseInv, Counted
<1>4. Cause(e)'
  BY <1>1, CauseSame
<1>5. RefusedForCause'
  BY <1>1, <1>4 DEF RefusedForCause, Errors
<1> QED BY <1>1, <1>2, <1>3, <1>5 DEF CauseInv, Paths

\* Finitely many offsets can be on the chain.
LEMMA ChainFinite ==
  ASSUME file \in Files
  PROVE  IsFiniteSet(OnChain)
<1> DEFINE next == [o \in DOMAIN Ifds |-> Ifds[o].next]
           nexts == {Ifds[o].next : o \in DOMAIN Ifds}
           T == nexts \cup {file.first}
<1>1. next \in Surjection(DOMAIN Ifds, nexts)
  BY DEF Surjection
<1>2. IsFiniteSet(nexts)
  <2> HIDE DEF next, nexts
  <2> QED BY <1>1, CountFacts, FS_Surjection
<1>3. IsFiniteSet(T)
  <2> HIDE DEF nexts
  <2> QED BY <1>2, FS_AddElement
<1>4. T \in SUBSET Pointers /\ FollowsChain(T)
  BY DEF Pointers, FollowsChain
<1>5. OnChain \in SUBSET T
  BY <1>4, OnChainIs
<1> HIDE DEF T
<1> QED BY <1>3, <1>5, FS_Subset

\* parse_ifd_chain_with_budgets refuses a file for what is on its chain.
LEMMA ChainFailsForCause == CauseInv /\ ChainFails => CauseInv'
<1> SUFFICES ASSUME CauseInv, ChainFails PROVE CauseInv'
  OBVIOUS
<1>1. /\ phase = "chain" /\ offset # 0 /\ ChainRefusal # "none" /\ Fail(ChainRefusal)
  BY DEF ChainFails
<1>2. /\ base = 0 /\ file \in Files /\ chain \in Seq(DOMAIN Ifds) /\ IsInjective(chain)
      /\ ChainLinked /\ usage = SumFunctionOnSet(ValueBytes, Range(chain))
  BY <1>1 DEF CauseInv, FoundInv, OpenInv, ChainOK, PhaseOK, Counted
<1>3. /\ Range(chain) \cup {offset} \subseteq OnChain \ {0} /\ Range(chain) \subseteq DOMAIN Ifds
  <2>1. Range(chain) \subseteq DOMAIN Ifds
    BY <1>2 DEF Range
  <2> QED BY <1>1, <1>2, <2>1, ReadIsOnChain, CountFacts
<1>4. offset \in Range(chain) => 0 \notin OnChain
  <2> SUFFICES ASSUME offset \in Range(chain) PROVE 0 \notin OnChain
    OBVIOUS
  <2> DEFINE T == Range(chain)
  <2>1. T \in SUBSET Pointers /\ T \cap DOMAIN Ifds = T /\ T \cup {offset} \subseteq T
    BY <1>3 DEF Pointers
  <2>2. OnChain \subseteq T
    BY <1>2, <2>1, NoMoreOnChain
  <2> QED BY <1>2, <1>3, <2>2, CountFacts
<1> DEFINE found == OnChain \ {0}
<1>5. found = IF base = 0 THEN OnChain \ {0} ELSE InTree
  BY <1>2
<1>6. CASE Len(chain) >= MaxIfds
  <2>1. ChainRefusal = "ifds"
    BY <1>6 DEF ChainRefusal
  <2>2. Cardinality(found) > MaxIfds \/ 0 \notin OnChain
    <3> SUFFICES ASSUME offset \notin Range(chain) PROVE Cardinality(found) > MaxIfds
      BY <1>4
    <3> DEFINE n == Len(chain)
    <3>1. n \in Nat /\ chain \in Surjection(1..n, Range(chain)) /\ chain \in Injection(1..n, Range(chain))
      BY <1>2 DEF Surjection, Injection, Range
    <3>2. IsFiniteSet(1..n) /\ Cardinality(1..n) = n
      BY <3>1, FS_Interval
    <3> HIDE DEF n
    <3>3. IsFiniteSet(Range(chain)) /\ Cardinality(Range(chain)) = n
      BY <3>1, <3>2, FS_Surjection
    <3>4. /\ IsFiniteSet(Range(chain) \cup {offset})
          /\ Cardinality(Range(chain) \cup {offset}) = n + 1
      BY <3>3, FS_AddElement
    <3>5. IsFiniteSet(found)
      <4>1. found \in SUBSET OnChain /\ IsFiniteSet(OnChain)
        BY <1>2, ChainFinite
      <4> HIDE DEF found
      <4> QED BY <4>1, FS_Subset
    <3>6. Range(chain) \cup {offset} \in SUBSET found
      BY <1>3
    <3> HIDE DEF found
    <3>7. n + 1 <= Cardinality(found) /\ Cardinality(found) \in Nat
      BY <3>4, <3>5, <3>6, FS_Subset, FS_CardinalityType
    <3> QED BY <1>6, <3>1, <3>7, BudgetsAssumption DEF n
  <2>3. Cause("ifds")
    BY <2>2 DEF Cause
  <2> QED BY <1>1, <2>1, <2>3, FailsForCause DEF Errors
<1>7. CASE ~(Len(chain) >= MaxIfds) /\ offset \in Range(chain)
  <2>1. ChainRefusal = "loop"
    BY <1>7 DEF ChainRefusal
  <2>2. Cause("loop")
    BY <1>4, <1>7 DEF Cause
  <2> QED BY <1>1, <2>1, <2>2, FailsForCause DEF Errors
<1>8. CASE ~(Len(chain) >= MaxIfds) /\ offset \notin Range(chain) /\ offset \notin DOMAIN Ifds
  <2>1. ChainRefusal = "unreadable"
    BY <1>8 DEF ChainRefusal, ReadRefusal
  <2>2. Cause("unreadable")
    BY <1>3, <1>5, <1>8 DEF Cause
  <2> QED BY <1>1, <2>1, <2>2, FailsForCause DEF Errors
<1>9. CASE ~(Len(chain) >= MaxIfds) /\ offset \notin Range(chain) /\ offset \in DOMAIN Ifds
  <2>1. /\ ChainRefusal = "budget"
        /\ \/ Len(Ifds[offset].values) > MaxEntries
           \/ \E n \in Range(Ifds[offset].values) : n > MaxTagBytes
           \/ usage + Total(Ifds[offset].values) > MaxMetadataBytes
    BY <1>1, <1>9 DEF ChainRefusal, ReadRefusal
  <2> DEFINE T == found \cap DOMAIN Ifds
             f == [o \in T |-> Total(Ifds[o].values)]
  <2>2. offset \in T /\ Range(chain) \in SUBSET T
    BY <1>3, <1>9
  <2>3. CASE ~(usage + Total(Ifds[offset].values) > MaxMetadataBytes)
    <3>1. Oversized(offset)
      BY <2>1, <2>3 DEF Oversized
    <3>2. \E o \in T : Oversized(o)
      BY <2>2, <3>1
    <3>3. Cause("budget")
      BY <1>5, <3>2 DEF Cause
    <3> QED BY <1>1, <2>1, <3>3, FailsForCause DEF Errors
  <2>4. CASE usage + Total(Ifds[offset].values) > MaxMetadataBytes
    <3>1. IsFiniteSet(T)
      <4>1. T \in SUBSET DOMAIN Ifds /\ IsFiniteSet(DOMAIN Ifds)
        BY <1>2, CountFacts
      <4> HIDE DEF T
      <4> QED BY <4>1, FS_Subset
    <3>2. (\A o \in T : f[o] \in Nat) /\ f[offset] = Total(Ifds[offset].values)
      BY <1>2, <2>2, CountFacts
    <3>3. \A o \in Range(chain) : ValueBytes[o] = f[o]
      BY <1>3, <2>2 DEF ValueBytes
    <3>4. DOMAIN f = T
      OBVIOUS
    <3> HIDE DEF f, T
    <3>5. offset \in T \ Range(chain)
      BY <1>9, <2>2
    <3>6. SumFunctionOnSet(ValueBytes, Range(chain)) + f[offset] <= SumFunctionOnSet(f, T)
      BY ONLY <2>2, <3>1, <3>2, <3>3, <3>5, SumAtLeast
    <3>7. SumFunctionOnSet(f, T) \in Nat
      BY <3>1, <3>2, SumAdds
    <3>8. MaxMetadataBytes < SumFunction(f)
      <4>1. usage \in Nat
        <5>1. IsFiniteSet(Range(chain)) /\ \A o \in Range(chain) : ValueBytes[o] \in Nat
          BY <2>2, <3>1, <3>2, <3>3, FS_Subset
        <5> QED BY <1>2, <5>1, SumAdds
      <4>2. usage + f[offset] <= SumFunctionOnSet(f, T) /\ SumFunction(f) = SumFunctionOnSet(f, T)
        BY <1>2, <3>4, <3>6 DEF SumFunction
      <4>3. MaxMetadataBytes \in Nat /\ f[offset] \in Nat
        BY <2>2, <3>2, BudgetsAssumption
      <4> QED BY <2>4, <3>2, <3>7, <4>1, <4>2, <4>3
    <3>9. Cause("budget")
      BY <1>2, <1>5, <3>8 DEF Cause, f, T
    <3> QED BY <1>1, <2>1, <3>9, FailsForCause DEF Errors
  <2> QED BY <2>3, <2>4
<1> QED BY <1>6, <1>7, <1>8, <1>9

\* GeoTiffFile::from_tiff refuses a file that has no georeferencing on its chain.
LEMMA NotGeoForCause == CauseInv /\ NotGeoTiff => CauseInv'
<1> SUFFICES ASSUME CauseInv, NotGeoTiff PROVE CauseInv'
  OBVIOUS
<1>1. phase = "chain" /\ offset = 0 /\ Georeferenced = {} /\ Fail("not a GeoTIFF")
  BY DEF NotGeoTiff
<1>2. file \in Files /\ chain \in Seq(DOMAIN Ifds) /\ ChainLinked
  BY DEF CauseInv, FoundInv, OpenInv, ChainOK
<1>3. OnChain \ {0} \subseteq Range(chain)
  BY <1>1, <1>2, ChainIsAll
<1>4. ASSUME NEW o \in Range(chain) PROVE Ifds[o].geo = "none"
  <2>1. PICK k \in DOMAIN chain : chain[k] = o
    BY DEF Range
  <2>2. Ifds[o].geo # "keys" /\ Ifds[o].geo # "model"
    BY <1>1, <2>1 DEF Georeferenced, WithGeo, At
  <2>3. o \in DOMAIN Ifds
    BY <1>2, <2>1
  <2>4. IsIfd(Ifds[o])
    BY <1>2, <2>3, FilesAssumption DEF Ifds
  <2> QED BY <2>2, <2>4 DEF IsIfd
<1>5. Cause("not a GeoTIFF")
  BY <1>3, <1>4 DEF Cause
<1> QED BY <1>1, <1>5, FailsForCause DEF Errors

----------------------------------------------------------------------------
\* The node on top of the stack is of the tree, and has not been read.
LEMMA TopFacts ==
  ASSUME FoundInv, phase = "subifds", pending # <<>>
  PROVE  /\ Len(pending) \in 1..Len(pending) /\ Last(pending) = pending[Len(pending)]
         /\ Last(pending) \in Node /\ Last(pending).offset \in InTree
         /\ Last(pending).offset \in seen /\ Last(pending).offset \notin Range(subReads)
         /\ Last(pending).offset # chain[base] /\ chain[base] \in DOMAIN Ifds
         /\ base # 0 /\ base \in DOMAIN chain /\ file \in Files /\ chain \in Seq(DOMAIN Ifds)
         /\ Range(subReads) \subseteq InTree \cap DOMAIN Ifds /\ Range(subReads) \subseteq seen
<1>1. /\ Work(pending, subReads, visited, seen, SeenInChain) /\ base \in DOMAIN chain
      /\ chain \in Seq(DOMAIN Ifds) /\ base # 0 /\ file \in Files
  BY DEF FoundInv, OpenInv, ChainOK, PhaseOK, BaseChosen
<1>2. Len(pending) \in 1..Len(pending) /\ Last(pending) = pending[Len(pending)]
  BY <1>1, EmptySeq DEF Work, Last
<1>3. Last(pending) \in Node
  BY <1>1, PopKeeps
<1>4. Last(pending).offset \in seen /\ Last(pending).offset \notin SeenInChain
  BY <1>1, <1>2 DEF Work
<1>5. Last(pending).offset \notin Range(subReads)
  <2>1. DOMAIN subReads = 1..Len(subReads)
    BY <1>1 DEF Work
  <2> QED BY <1>1, <1>2, <2>1 DEF Work, Range
<1>6. Last(pending).offset \in Offsets(pending)
  BY <1>2 DEF Offsets
<1>7. /\ Offsets(pending) \subseteq InTree /\ Range(subReads) \subseteq InTree \cap DOMAIN Ifds
      /\ Range(subReads) \subseteq seen
  BY <1>1 DEF FoundInv, OnlyTree, AllSeen
<1>8. chain[base] \in SeenInChain /\ chain[base] \in DOMAIN Ifds
  BY <1>1 DEF SeenInChain
<1> QED BY <1>1, <1>2, <1>3, <1>4, <1>5, <1>6, <1>7, <1>8

----------------------------------------------------------------------------
\* A path may be said to have passed more IFDs that were read.
LEMMA PathKeeps ==
  ASSUME NEW path, NEW d, NEW o, NEW read, NEW more, IsPath(path, d, o, read), read \subseteq more
  PROVE  IsPath(path, d, o, more)
BY DEF IsPath

\* A pointer of the base image is a path of one step.
LEMMA PathStarts ==
  ASSUME NEW o \in InTree, o \in Range(At(base).subs), NEW read
  PROVE  \E path : IsPath(path, 1, o, read)
<1> DEFINE path == [i \in 1..1 |-> o]
<1>1. path \in [1..1 -> InTree] /\ IsInjective(path) /\ path[1] = o
  BY DEF IsInjective
<1>2. 2..1 = {} /\ 1..(1 - 1) = {}
  OBVIOUS
<1>3. IsPath(path, 1, o, read)
  BY <1>1, <1>2 DEF IsPath
<1> QED BY <1>3

\* A new pointer of the IFD a path leads to makes it one step longer.
LEMMA PathGrows ==
  ASSUME NEW path, NEW d \in Nat \ {0}, NEW o, NEW read, IsPath(path, d, o, read),
         NEW p \in InTree, p \in Range(Ifds[o].subs), p \notin read, p # o
  PROVE  \E longer : IsPath(longer, d + 1, p, read \cup {o})
<1> DEFINE q == [i \in 1..(d + 1) |-> IF i <= d THEN path[i] ELSE p]
<1>1. /\ path \in [1..d -> InTree] /\ IsInjective(path) /\ path[d] = o
      /\ path[1] \in Range(At(base).subs)
      /\ \A i \in 2..d : path[i] \in Range(Ifds[path[i - 1]].subs)
      /\ \A i \in 1..(d - 1) : path[i] \in read
  BY DEF IsPath
<1>2. \A i \in 1..d : path[i] \in read \cup {o}
  <2> SUFFICES ASSUME NEW i \in 1..d PROVE path[i] \in read \cup {o}
    OBVIOUS
  <2>1. i = d \/ i \in 1..(d - 1)
    OBVIOUS
  <2> QED BY <1>1, <2>1
<1>3. /\ q \in [1..(d + 1) -> InTree] /\ q[d + 1] = p /\ \A i \in 1..d : q[i] = path[i]
  BY <1>1
<1> HIDE DEF q
<1>4. \A i \in 1..(d + 1) : i = d + 1 \/ i \in 1..d
  OBVIOUS
<1>5. IsInjective(q)
  <2> SUFFICES ASSUME NEW i \in 1..(d + 1), NEW j \in 1..(d + 1), q[i] = q[j] PROVE i = j
    BY <1>3 DEF IsInjective
  <2>1. \A k \in 1..d : q[k] # p
    BY <1>2, <1>3
  <2>2. \A k, l \in 1..d : path[k] = path[l] => k = l
    BY <1>1 DEF IsInjective
  <2> QED BY <1>3, <1>4, <2>1, <2>2
<1>6. q[1] \in Range(At(base).subs)
  BY <1>1, <1>3
<1>7. ASSUME NEW i \in 2..(d + 1) PROVE q[i] \in Range(Ifds[q[i - 1]].subs)
  <2>1. i - 1 \in 1..d /\ q[i - 1] = path[i - 1]
    BY <1>3
  <2>2. CASE i = d + 1
    <3>1. i - 1 = d
      BY <2>2
    <3> QED BY <1>1, <1>3, <2>1, <2>2, <3>1
  <2>3. CASE i \in 2..d
    BY <1>1, <1>3, <2>1, <2>3
  <2> QED BY <2>2, <2>3
<1>8. \A i \in 1..((d + 1) - 1) : q[i] \in read \cup {o}
  BY <1>2, <1>3
<1>9. IsPath(q, d + 1, p, read \cup {o})
  BY <1>3, <1>5, <1>6, <1>7, <1>8 DEF IsPath
<1> QED BY <1>9

\* Paths are made of the file, its chain and the base image.
LEMMA PathSame ==
  ASSUME UNCHANGED <<file, chain, base>>
  PROVE  \A path, d, o, read : IsPath(path, d, o, read)' = IsPath(path, d, o, read)
<1>1. Ifds' = Ifds /\ InTree' = InTree /\ At(base)' = At(base)
  BY ChainSame, FileSame
<1> QED BY <1>1 DEF IsPath

----------------------------------------------------------------------------
\* collect_overview_ifds refuses a base image for how many SubIFDs it has.
LEMMA CollectFailsForCause == CauseInv /\ CollectFails => CauseInv'
<1> SUFFICES ASSUME CauseInv, CollectFails PROVE CauseInv'
  OBVIOUS
<1> DEFINE b == chain[base]
           subs == At(base).subs
<1>1. /\ phase = "overviews" /\ PushRefusal(subs, 1) # "none" /\ Fail(PushRefusal(subs, 1))
  BY DEF CollectFails
<1>2. /\ visited = 0 /\ base \in DOMAIN chain /\ base # 0 /\ file \in Files
      /\ chain \in Seq(DOMAIN Ifds)
  BY <1>1 DEF CauseInv, FoundInv, OpenInv, ChainOK, PhaseOK, BaseChosen
<1>3. b \in DOMAIN Ifds /\ subs = Ifds[b].subs
  BY <1>2 DEF At
<1>4. Len(subs) \in Nat /\ IsFiniteSet(DOMAIN Ifds)
  BY <1>2, <1>3, CountFacts
<1>5. PushRefusal(subs, 1) = "nodes" /\ Len(subs) > MaxNodes
  <2>1. ~(1 > MaxDepth)
    BY BudgetsAssumption
  <2> QED BY <1>1, <1>2, <1>4, <2>1 DEF PushRefusal
<1> DEFINE T == {b} \cup (InTree \cap DOMAIN Ifds)
           f == [o \in T |-> Len(Ifds[o].subs)]
<1>6. /\ IsFiniteSet(T) /\ (\A o \in T : f[o] \in Nat) /\ b \in T /\ f[b] = Len(subs)
      /\ DOMAIN f = T
  <2>1. T \in SUBSET DOMAIN Ifds
    BY <1>3
  <2>2. IsFiniteSet(T)
    <3> HIDE DEF T
    <3> QED BY <1>4, <2>1, FS_Subset
  <2> QED BY <1>2, <1>3, <2>1, <2>2, CountFacts
<1>7. Len(subs) <= SumFunction(f)
  <2> HIDE DEF f, T, subs
  <2>1. SumFunctionOnSet(f, T) = f[b] + SumFunctionOnSet(f, T \ {b})
    BY <1>6, SumAdds
  <2>2. IsFiniteSet(T \ {b}) /\ \A o \in T \ {b} : f[o] \in Nat
    BY <1>6, FS_RemoveElement
  <2>3. SumFunctionOnSet(f, T \ {b}) \in Nat
    BY <2>2, SumAdds
  <2> QED BY <1>4, <1>6, <2>1, <2>3 DEF SumFunction
<1>8. MaxNodes < SumFunction(f)
  <2>1. SumFunction(f) \in Nat
    <3> HIDE DEF f, T
    <3> QED BY <1>6, SumAdds DEF SumFunction
  <2> HIDE DEF f
  <2> QED BY <1>4, <1>5, <1>7, <2>1, BudgetsAssumption
<1>9. Cause("nodes")
  BY <1>2, <1>8 DEF Cause
<1> QED BY <1>1, <1>5, <1>9, FailsForCause DEF Errors

\* collect_subifd_overviews refuses a file for what is in its tree.
LEMMA VisitFailsForCause == CauseInv /\ VisitFails => CauseInv'
<1> SUFFICES ASSUME CauseInv, VisitFails PROVE CauseInv'
  OBVIOUS
<1> DEFINE top == Last(pending)
           o == top.offset
           subs == Ifds[o].subs
<1>1. /\ phase = "subifds" /\ pending # <<>> /\ VisitRefusal(top) # "none"
      /\ Fail(VisitRefusal(top))
  BY DEF VisitFails
<1>2. /\ Len(pending) \in 1..Len(pending) /\ top = pending[Len(pending)]
      /\ top \in Node /\ o \in InTree /\ o \notin Range(subReads) /\ o # chain[base]
      /\ chain[base] \in DOMAIN Ifds /\ base # 0 /\ base \in DOMAIN chain /\ file \in Files
      /\ Range(subReads) \subseteq InTree \cap DOMAIN Ifds
  BY <1>1, TopFacts DEF CauseInv
<1>3. /\ visited = SumFunctionOnSet(SubCounts, {chain[base]} \cup Range(subReads))
      /\ top.depth \in 1..MaxDepth
      /\ \E path : IsPath(path, top.depth, o, Range(subReads))
  BY <1>1, <1>2 DEF CauseInv, Counted, Paths
<1> HIDE DEF top, o
<1>4. VisitRefusal(top) =
        IF ReadRefusal(o, 0) # "none" THEN ReadRefusal(o, 0) ELSE PushRefusal(subs, top.depth + 1)
  BY DEF VisitRefusal, o
<1>5. CASE o \notin DOMAIN Ifds
  <2>1. VisitRefusal(top) = "unreadable"
    BY <1>4, <1>5 DEF ReadRefusal
  <2>2. Cause("unreadable")
    BY <1>2, <1>5 DEF Cause
  <2> QED BY <1>1, <2>1, <2>2, FailsForCause DEF Errors
<1>6. CASE o \in DOMAIN Ifds /\ ReadRefusal(o, 0) # "none"
  <2>1. VisitRefusal(top) = "budget"
    BY <1>4, <1>6 DEF ReadRefusal
  <2>2. Oversized(o)
    <3>1. Total(Ifds[o].values) \in Nat
      BY <1>2, <1>6, CountFacts
    <3> QED BY <1>6, <3>1 DEF ReadRefusal, Oversized
  <2>3. Cause("budget")
    BY <1>2, <1>6, <2>2 DEF Cause
  <2> QED BY <1>1, <2>1, <2>3, FailsForCause DEF Errors
<1>7. CASE o \in DOMAIN Ifds /\ ReadRefusal(o, 0) = "none"
  <2>1. VisitRefusal(top) = PushRefusal(subs, top.depth + 1)
    BY <1>4, <1>7
  <2>2. CASE subs # <<>> /\ top.depth + 1 > MaxDepth
    <3>1. VisitRefusal(top) = "depth"
      BY <2>1, <2>2 DEF PushRefusal
    <3>2. top.depth = MaxDepth
      BY <1>3, <2>2, BudgetsAssumption
    <3>3. PICK path : IsPath(path, MaxDepth, o, Range(subReads))
      BY <1>3, <3>2
    <3>4. path \in [1..MaxDepth -> InTree \cap DOMAIN Ifds]
      <4>1. \A i \in 1..MaxDepth : path[i] \in InTree \cap DOMAIN Ifds
        <5> SUFFICES ASSUME NEW i \in 1..MaxDepth PROVE path[i] \in InTree \cap DOMAIN Ifds
          OBVIOUS
        <5>1. i = MaxDepth \/ i \in 1..(MaxDepth - 1)
          BY BudgetsAssumption
        <5> QED BY <1>2, <1>7, <3>3, <5>1 DEF IsPath
      <4> QED BY <3>3, <4>1 DEF IsPath
    <3>5. Deep(InTree)
      BY <2>2, <3>3, <3>4 DEF Deep, IsPath
    <3>6. Cause("depth")
      BY <1>2, <3>5 DEF Cause
    <3> QED BY <1>1, <3>1, <3>6, FailsForCause DEF Errors
  <2>3. CASE ~(subs # <<>> /\ top.depth + 1 > MaxDepth)
    <3>1. VisitRefusal(top) = "nodes" /\ visited + Len(subs) > MaxNodes
      BY <1>1, <2>1, <2>3 DEF PushRefusal
    <3> DEFINE T == {chain[base]} \cup (InTree \cap DOMAIN Ifds)
               S == {chain[base]} \cup Range(subReads)
               f == [p \in T |-> Len(Ifds[p].subs)]
    <3>2. T \in SUBSET DOMAIN Ifds /\ S \in SUBSET T /\ o \in T \ S
      BY <1>2, <1>7
    <3>3. IsFiniteSet(T)
      <4>1. IsFiniteSet(DOMAIN Ifds)
        BY <1>2, CountFacts
      <4> HIDE DEF T
      <4> QED BY <3>2, <4>1, FS_Subset
    <3>4. /\ \A p \in T : f[p] \in Nat
          /\ f[o] = Len(subs) /\ DOMAIN f = T
          /\ \A p \in S : SubCounts[p] = f[p]
      BY <1>2, <3>2, CountFacts DEF SubCounts
    <3> HIDE DEF f, T, S
    <3>5. SumFunctionOnSet(SubCounts, S) + f[o] <= SumFunctionOnSet(f, T)
      BY ONLY <3>2, <3>3, <3>4, SumAtLeast
    <3>6. SumFunctionOnSet(f, T) \in Nat /\ SumFunction(f) = SumFunctionOnSet(f, T)
      BY <3>3, <3>4, SumAdds DEF SumFunction
    <3>7. visited = SumFunctionOnSet(SubCounts, S) /\ visited \in Nat
      <4>1. visited \in Nat
        BY DEF CauseInv, FoundInv, OpenInv, Work
      <4> QED BY <1>3, <4>1 DEF S
    <3>8. MaxNodes < SumFunction(f)
      <4>1. f[o] \in Nat /\ MaxNodes \in Nat
        BY <3>2, <3>4, BudgetsAssumption
      <4> QED BY <3>1, <3>4, <3>5, <3>6, <3>7, <4>1
    <3>9. Cause("nodes")
      BY <1>2, <3>8 DEF Cause, f, T
    <3> QED BY <1>1, <3>1, <3>9, FailsForCause DEF Errors
  <2> QED BY <2>2, <2>3
<1> QED BY <1>5, <1>6, <1>7

----------------------------------------------------------------------------
\* At first nothing is counted.
LEMMA InitCause == Init => CauseInv
<1> SUFFICES ASSUME Init PROVE CauseInv
  OBVIOUS
<1>1. FoundInv
  BY InitFound
<1>2. chain = <<>> /\ usage = 0 /\ phase = "chain"
  BY DEF Init
<1>3. Range(chain) = {}
  BY <1>2 DEF Range
<1>4. SumFunctionOnSet(ValueBytes, {}) = 0
  <2>1. IsFiniteSet({}) /\ \A x \in {} : ValueBytes[x] \in Nat
    BY FS_EmptySet
  <2> QED BY <2>1, SumAdds
<1> QED BY <1>1, <1>2, <1>3, <1>4 DEF CauseInv, Counted, Paths, RefusedForCause

\* The value bytes of an IFD are counted as it joins the chain.
LEMMA FollowCounts == CauseInv /\ FollowChain => CauseInv'
<1> SUFFICES ASSUME CauseInv, FollowChain PROVE CauseInv'
  OBVIOUS
<1>1. /\ phase = "chain" /\ phase' = "chain" /\ file' = file /\ ChainRefusal = "none"
      /\ chain' = Append(chain, offset) /\ usage' = usage + Total(Ifds[offset].values)
  BY DEF FollowChain
<1>2. FoundInv' /\ file \in Files /\ chain \in Seq(DOMAIN Ifds)
  BY FollowFound DEF CauseInv, FoundInv, OpenInv, ChainOK
<1>3. offset \in DOMAIN Ifds /\ offset \notin Range(chain)
  <2>1. ReadRefusal(offset, usage) = "none" => offset \in DOMAIN Ifds
    BY DEF ReadRefusal
  <2> QED BY <1>1, <2>1 DEF ChainRefusal
<1>4. Range(chain') = Range(chain) \cup {offset}
  BY <1>1, <1>2, <1>3, RangeAppend
<1>5. ValueBytes' = ValueBytes
  BY <1>1 DEF ValueBytes, Ifds
<1>6. /\ IsFiniteSet(Range(chain)) /\ ValueBytes[offset] = Total(Ifds[offset].values)
      /\ \A o \in Range(chain) \cup {offset} : ValueBytes[o] \in Nat
  <2>1. Range(chain) \in SUBSET DOMAIN Ifds
    BY <1>2 DEF Range
  <2>2. IsFiniteSet(DOMAIN Ifds) /\ \A o \in DOMAIN Ifds : ValueBytes[o] \in Nat
    BY <1>2, CountFacts DEF ValueBytes
  <2>3. IsFiniteSet(Range(chain))
    BY ONLY <2>1, <2>2, FS_Subset
  <2> QED BY <1>3, <2>1, <2>2, <2>3 DEF ValueBytes
<1>7. SumFunctionOnSet(ValueBytes, Range(chain) \cup {offset}) =
        SumFunctionOnSet(ValueBytes, Range(chain)) + ValueBytes[offset]
  BY <1>3, <1>6, SumInsert
<1>8. Counted'
  BY <1>1, <1>4, <1>5, <1>6, <1>7 DEF CauseInv, Counted
<1> QED BY <1>1, <1>2, <1>8 DEF CauseInv, Paths, RefusedForCause

\* A step that neither reads nor pushes leaves the counts alone.
LEMMA NothingCounted ==
  ASSUME CauseInv, FoundInv', phase' \in {"overviews", "done"},
         UNCHANGED <<file, chain, usage>>,
         phase' = "done" => phase = "subifds" /\ UNCHANGED <<base, visited, subReads>>
  PROVE  CauseInv'
<1>1. ValueBytes' = ValueBytes /\ SubCounts' = SubCounts
  BY DEF ValueBytes, SubCounts, Ifds
<1>2. Counted'
  BY <1>1 DEF CauseInv, Counted
<1> QED BY <1>2 DEF CauseInv, Paths, RefusedForCause

\* The SubIFDs of the base image are one step away from it.
LEMMA CollectCounts == CauseInv /\ CollectChain => CauseInv'
<1> SUFFICES ASSUME CauseInv, CollectChain PROVE CauseInv'
  OBVIOUS
<1> DEFINE b == chain[base]
           subs == At(base).subs
           push == Pushed(subs, 1, SeenInChain)
<1>1. /\ phase = "overviews" /\ phase' = "subifds" /\ PushSubIfds(subs, 1, SeenInChain)
      /\ UNCHANGED <<file, chain, base, usage, subReads>>
  BY DEF CollectChain
<1>2. /\ FoundInv' /\ pending = <<>> /\ subReads = <<>> /\ visited = 0 /\ base \in DOMAIN chain
      /\ base # 0 /\ file \in Files /\ chain \in Seq(DOMAIN Ifds)
  BY <1>1, CollectFound DEF CauseInv, FoundInv, OpenInv, ChainOK, PhaseOK, BaseChosen
<1>3. b \in DOMAIN Ifds /\ subs = Ifds[b].subs /\ subs \in Seq(Nat)
  BY <1>2, IfdFacts DEF At
<1>4. /\ push \in Seq(Node)
      /\ \A i \in 1..Len(push) : /\ push[i].depth = 1 /\ push[i].offset \in Range(subs)
  <2> HIDE DEF subs
  <2>1. subs \in Seq(Nat) /\ 1 \in Nat
    BY <1>3
  <2> QED BY ONLY <2>1, PushedNodes
<1>5. pending' = push /\ visited' = Len(subs)
  <2>1. pending' = <<>> \o push /\ visited' = 0 + Len(subs)
    BY <1>1, <1>2 DEF PushSubIfds
  <2>2. Len(subs) \in Nat
    BY <1>3
  <2> HIDE DEF push, subs
  <2> QED BY <1>4, <2>1, <2>2
<1>6. ValueBytes' = ValueBytes /\ SubCounts' = SubCounts
  BY <1>1 DEF ValueBytes, SubCounts, Ifds
<1>7. Counted'
  <2>1. Range(subReads') = {}
    BY <1>1, <1>2 DEF Range
  <2>2. SumFunctionOnSet(SubCounts, {b}) = Len(subs)
    <3>1. IsFiniteSet({}) /\ SubCounts[b] = Len(subs) /\ Len(subs) \in Nat
      BY <1>2, <1>3, CountFacts, FS_EmptySet DEF SubCounts
    <3>2. SumFunctionOnSet(SubCounts, {} \cup {b}) = SumFunctionOnSet(SubCounts, {}) + SubCounts[b]
      BY <3>1, SumInsert
    <3>3. SumFunctionOnSet(SubCounts, {}) = 0
      BY <3>1, SumAdds
    <3>4. {} \cup {b} = {b}
      OBVIOUS
    <3> QED BY <3>1, <3>2, <3>3, <3>4
  <2>3. {chain[base]}' \cup Range(subReads') = {b}
    BY <1>1, <2>1
  <2> QED BY <1>1, <1>5, <1>6, <2>2, <2>3 DEF CauseInv, Counted
<1>8. Paths'
  <2> SUFFICES ASSUME NEW i \in 1..Len(pending')
               PROVE  /\ pending'[i].depth \in 1..MaxDepth
                      /\ (\E path : IsPath(path, pending[i].depth, pending[i].offset, Range(subReads)))'
    BY DEF Paths
  <2>1. pending'[i].depth = 1 /\ pending'[i].offset \in Range(subs)
    BY <1>4, <1>5
  <2>2. pending'[i].offset \in InTree
    <3>1. Offsets(pending') \subseteq InTree'
      BY <1>1, <1>2 DEF FoundInv, OnlyTree, Offsets
    <3> QED BY <1>1, <3>1, FileSame DEF Offsets
  <2>3. PICK o : o = pending'[i].offset
    OBVIOUS
  <2>4. PICK path : IsPath(path, 1, o, Range(subReads))
    BY <2>1, <2>2, <2>3, PathStarts
  <2>5. IsPath(path, 1, o, Range(subReads))'
    BY <1>1, <2>4, PathSame
  <2> QED BY <2>1, <2>3, <2>5, BudgetsAssumption
<1> QED BY <1>1, <1>2, <1>7, <1>8 DEF CauseInv, RefusedForCause

\* The IFD that is read is counted, and its pointers are one step further away.
LEMMA VisitCounts == CauseInv /\ VisitSubIfd => CauseInv'
<1> SUFFICES ASSUME CauseInv, VisitSubIfd PROVE CauseInv'
  OBVIOUS
<1> DEFINE top == Last(pending)
           o == top.offset
           d == top.depth
           subs == Ifds[o].subs
           rest == Front(pending)
           push == Pushed(subs, d + 1, seen)
           S == {chain[base]} \cup Range(subReads)
<1>1. /\ phase = "subifds" /\ phase' = "subifds" /\ pending # <<>> /\ VisitRefusal(top) = "none"
      /\ pending' = rest \o push /\ visited' = visited + Len(subs)
      /\ subReads' = Append(subReads, o) /\ UNCHANGED <<file, chain, base, usage>>
  BY DEF VisitSubIfd, PushSubIfds
<1>2. /\ FoundInv' /\ Len(pending) \in 1..Len(pending) /\ top = pending[Len(pending)]
      /\ top \in Node /\ o \in InTree /\ o \in seen /\ o \notin Range(subReads) /\ o # chain[base]
      /\ chain[base] \in DOMAIN Ifds /\ base # 0 /\ file \in Files
      /\ Range(subReads) \subseteq InTree \cap DOMAIN Ifds /\ Range(subReads) \subseteq seen
  BY <1>1, TopFacts, VisitFound DEF CauseInv
<1>3. /\ visited = SumFunctionOnSet(SubCounts, S) /\ d \in 1..MaxDepth
      /\ \E path : IsPath(path, d, o, Range(subReads))
  BY <1>1, <1>2 DEF CauseInv, Counted, Paths
<1>4. o \in DOMAIN Ifds /\ PushRefusal(subs, d + 1) = "none"
  <2>1. ReadRefusal(o, 0) = "none" => o \in DOMAIN Ifds
    BY DEF ReadRefusal
  <2> HIDE DEF top
  <2> QED BY <1>1, <2>1 DEF VisitRefusal
<1>5. subs \in Seq(Nat) /\ d + 1 \in Nat /\ d \in Nat \ {0} /\ o \in Nat
  BY <1>2, <1>3, <1>4, IfdFacts, BudgetsAssumption DEF Node
<1>6. /\ push \in Seq(Node) /\ Len(push) <= Len(subs)
      /\ \A i \in 1..Len(push) : /\ push[i].depth = d + 1 /\ push[i].offset \in Range(subs)
                                 /\ push[i].offset \notin seen
  <2> HIDE DEF o, d, subs
  <2>1. subs \in Seq(Nat) /\ d + 1 \in Nat
    BY <1>5
  <2> QED BY ONLY <2>1, PushedNodes
<1>7. /\ rest \in Seq(Node) /\ Len(rest) = Len(pending) - 1
      /\ \A i \in 1..Len(rest) : i \in 1..Len(pending) /\ rest[i] = pending[i]
  <2> DEFINE n == Len(pending)
  <2>1. pending \in Seq(Node) /\ n \in Nat \ {0} /\ \A i \in 1..(n - 1) : pending[i] \in Node
    BY <1>2 DEF CauseInv, FoundInv, OpenInv, Work
  <2>2. /\ SubSeq(pending, 1, n - 1) \in Seq(Node) /\ Len(SubSeq(pending, 1, n - 1)) = n - 1
        /\ \A i \in 1..(n - 1) : SubSeq(pending, 1, n - 1)[i] = pending[i]
    <3>1. n = Len(pending) /\ n - 1 \in Nat
      BY <2>1
    <3> HIDE DEF n
    <3> QED BY <2>1, <3>1
  <2> QED BY <2>1, <2>2 DEF Front
<1>8. Range(subReads') = Range(subReads) \cup {o}
  <2>1. subReads \in Seq(Nat)
    BY DEF CauseInv, FoundInv, OpenInv, Work
  <2>2. o \in Nat /\ subReads' = Append(subReads, o)
    BY <1>1, <1>5
  <2> HIDE DEF o
  <2>3. Range(Append(subReads, o)) = Range(subReads) \cup {o}
    BY ONLY <2>1, <2>2, RangeAppend
  <2> QED BY ONLY <2>2, <2>3
<1>9. ValueBytes' = ValueBytes /\ SubCounts' = SubCounts
  BY <1>1 DEF ValueBytes, SubCounts, Ifds
<1> HIDE DEF top, o, d, subs, rest, push
<1>10. Counted'
  <2>1. S \in SUBSET DOMAIN Ifds /\ IsFiniteSet(DOMAIN Ifds) /\ o \notin S
    BY <1>2, CountFacts
  <2>2. IsFiniteSet(S)
    <3> HIDE DEF S
    <3> QED BY <2>1, FS_Subset
  <2>3. SubCounts[o] = Len(subs) /\ \A p \in S \cup {o} : SubCounts[p] \in Nat
    BY <1>2, <1>4, <2>1, CountFacts DEF SubCounts, subs
  <2> HIDE DEF S
  <2>4. SumFunctionOnSet(SubCounts, S \cup {o}) = SumFunctionOnSet(SubCounts, S) + SubCounts[o]
    BY <2>1, <2>2, <2>3, SumInsert
  <2>5. {chain[base]}' \cup Range(subReads') = S \cup {o}
    BY <1>1, <1>8 DEF S
  <2>6. visited' = SumFunctionOnSet(SubCounts, S \cup {o})
    BY <1>1, <1>3, <2>3, <2>4
  <2> QED BY <1>1, <1>9, <2>5, <2>6 DEF CauseInv, Counted
<1>11. /\ Len(pending') = Len(rest) + Len(push)
       /\ \A i \in 1..(Len(rest) + Len(push)) :
            pending'[i] = IF i <= Len(rest) THEN rest[i] ELSE push[i - Len(rest)]
  BY <1>1, <1>6, <1>7, ConcatProperties
<1>12. Len(rest) \in Nat /\ Len(push) \in Nat
  BY <1>6, <1>7
<1>13. ASSUME NEW i \in 1..Len(pending')
       PROVE  /\ pending'[i].depth \in 1..MaxDepth
              /\ \E path : IsPath(path, pending'[i].depth, pending'[i].offset,
                                  Range(subReads) \cup {o})
  <2>1. CASE i <= Len(rest)
    <3>1. pending'[i] = pending[i] /\ i \in 1..Len(pending)
      BY <1>7, <1>11, <1>12, <2>1
    <3>2. /\ pending[i].depth \in 1..MaxDepth
          /\ \E path : IsPath(path, pending[i].depth, pending[i].offset, Range(subReads))
      BY <1>1, <3>1 DEF CauseInv, Paths
    <3>3. \E path : IsPath(path, pending[i].depth, pending[i].offset, Range(subReads) \cup {o})
      BY <3>2, PathKeeps
    <3> QED BY <3>1, <3>2, <3>3
  <2>2. CASE ~(i <= Len(rest))
    <3> DEFINE j == i - Len(rest)
    <3>1. j \in 1..Len(push) /\ pending'[i] = push[j]
      BY <1>11, <1>12, <2>2
    <3>2. /\ push[j].depth = d + 1 /\ push[j].offset \in Range(subs)
          /\ push[j].offset \notin seen
      BY <1>6, <3>1
    <3>3. d + 1 \in 1..MaxDepth
      <4>1. subs # <<>>
        BY <3>2 DEF Range
      <4>2. ~(d + 1 > MaxDepth)
        BY <1>4, <4>1 DEF PushRefusal
      <4> QED BY <1>5, <4>2, BudgetsAssumption
    <3>4. push[j].offset \in InTree
      <4>1. Offsets(pending') \subseteq InTree'
        BY <1>1, <1>2 DEF FoundInv, OnlyTree, Offsets
      <4>2. pending'[i].offset \in Offsets(pending')
        BY DEF Offsets
      <4> QED BY <1>1, <3>1, <4>1, <4>2, FileSame
    <3>5. push[j].offset \notin Range(subReads) /\ push[j].offset # o
      BY <1>2, <3>2
    <3>6. PICK p : p = push[j].offset
      OBVIOUS
    <3>7. PICK path : IsPath(path, d, o, Range(subReads))
      BY <1>3
    <3>8. \E longer : IsPath(longer, d + 1, p, Range(subReads) \cup {o})
      <4>1. p \in InTree /\ p \in Range(Ifds[o].subs) /\ p \notin Range(subReads) /\ p # o
        BY <3>2, <3>4, <3>5, <3>6 DEF subs
      <4> QED BY ONLY <1>5, <3>7, <4>1, PathGrows
    <3> QED BY <3>1, <3>2, <3>3, <3>6, <3>8
  <2> QED BY <2>1, <2>2
<1>14. Paths'
  <2> SUFFICES ASSUME NEW i \in 1..Len(pending')
               PROVE  /\ pending'[i].depth \in 1..MaxDepth
                      /\ (\E path : IsPath(path, pending[i].depth, pending[i].offset, Range(subReads)))'
    BY DEF Paths
  <2>1. PICK e, p, read : e = pending'[i].depth /\ p = pending'[i].offset /\ read = Range(subReads')
    OBVIOUS
  <2>2. e \in 1..MaxDepth /\ \E path : IsPath(path, e, p, read)
    BY <1>8, <1>13, <2>1
  <2>3. PICK path : IsPath(path, e, p, read)
    BY <2>2
  <2>4. IsPath(path, e, p, read)'
    BY <1>1, <2>3, PathSame
  <2> QED BY <2>1, <2>2, <2>4
<1> QED BY <1>1, <1>2, <1>10, <1>14 DEF CauseInv, RefusedForCause

(***************************************************************************)
(* The counts are those of the IFDs read, and the nodes on the stack lie   *)
(* on paths of the tree.                                                   *)
(***************************************************************************)
THEOREM CauseInvariant == Spec => []CauseInv
<1>1. Init => CauseInv
  BY InitCause
<1>2. CauseInv /\ [Next]_vars => CauseInv'
  <2> SUFFICES ASSUME CauseInv, [Next]_vars PROVE CauseInv'
    OBVIOUS
  <2>1. CASE FollowChain
    BY <2>1, FollowCounts
  <2>2. CASE ChainFails
    BY <2>2, ChainFailsForCause
  <2>3. CASE NotGeoTiff
    BY <2>3, NotGeoForCause
  <2>4. CASE ChooseBase
    <3>1. FoundInv' /\ phase' = "overviews" /\ UNCHANGED <<file, chain, usage>>
      BY <2>4, ChooseFound DEF ChooseBase, CauseInv
    <3> QED BY <3>1, NothingCounted
  <2>5. CASE CollectChain
    BY <2>5, CollectCounts
  <2>6. CASE CollectFails
    BY <2>6, CollectFailsForCause
  <2>7. CASE VisitSubIfd
    BY <2>7, VisitCounts
  <2>8. CASE VisitFails
    BY <2>8, VisitFailsForCause
  <2>9. CASE SortOverviews
    <3>1. /\ FoundInv' /\ phase = "subifds" /\ phase' = "done"
          /\ UNCHANGED <<file, chain, usage, base, visited, subReads>>
      BY <2>9, SortFound DEF SortOverviews, CauseInv
    <3> QED BY <3>1, NothingCounted
  <2>10. CASE UNCHANGED vars
    <3>1. UNCHANGED <<file, phase, error, chain, base, offset, usage, pending, visited, subReads,
                      seen, overviews>>
      BY <2>10 DEF vars
    <3>2. FoundInv'
      <4>1. OpenInv'
        BY <2>10, NextInv DEF CauseInv, FoundInv
      <4> QED BY <3>1, <4>1, NothingFound DEF CauseInv
    <3>3. ValueBytes' = ValueBytes /\ SubCounts' = SubCounts
      BY <3>1 DEF ValueBytes, SubCounts, Ifds
    <3>4. Counted'
      BY <3>1, <3>3 DEF CauseInv, Counted
    <3>5. Paths'
      <4>1. \A path, d, o, read : IsPath(path, d, o, read)' = IsPath(path, d, o, read)
        BY <3>1, PathSame
      <4>2. PICK p, read : p = pending /\ read = Range(subReads)
        OBVIOUS
      <4>3. p = pending' /\ read = Range(subReads')
        BY <3>1, <4>2
      <4> QED BY <3>1, <4>1, <4>2, <4>3 DEF CauseInv, Paths
    <3>6. RefusedForCause'
      <4>1. \A e : Cause(e)' = Cause(e)
        BY <3>1, CauseSame
      <4>2. PICK e : e = error
        OBVIOUS
      <4>3. e = error'
        BY <3>1, <4>2
      <4> QED BY <3>1, <4>1, <4>2, <4>3 DEF CauseInv, RefusedForCause, Errors
    <3> QED BY <3>2, <3>4, <3>5, <3>6 DEF CauseInv
  <2> QED BY <2>1, <2>2, <2>3, <2>4, <2>5, <2>6, <2>7, <2>8, <2>9, <2>10 DEF Next
<1> QED BY <1>1, <1>2, PTL DEF Spec

(***************************************************************************)
(* Whatever a file is refused for is true of it, in every directory graph  *)
(* and whatever the limits.                                                *)
(***************************************************************************)
THEOREM RefusalsHaveCause == Spec => []RefusedForCause
<1>1. CauseInv => RefusedForCause
  BY DEF CauseInv
<1> QED BY <1>1, CauseInvariant, PTL
=============================================================================
