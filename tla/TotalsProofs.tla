----------------------------- MODULE TotalsProofs ------------------------------
(***************************************************************************)
(* What Total computes, for every sequence of natural numbers: nothing for *)
(* the empty one, the number itself for a single one, and of two sequences *)
(* put together the sum of both.  The library's induction theorems cannot  *)
(* be used (they take an operator as a parameter); in their place stands   *)
(* the least counterexample, which exists because the naturals are well    *)
(* ordered (NatLessThanWellFounded and WFMin of WellFoundedInduction).     *)
(***************************************************************************)
EXTENDS Totals, SequenceTheorems, FunctionTheorems, FiniteSetTheorems,
        WellFoundedInduction, TLAPS

(* The function that Total defines, and what it must be up to n.           *)
Sums(w) == CHOOSE sum : sum = [i \in 0 .. Len(w) |-> IF i = 0 THEN 0 ELSE sum[i - 1] + w[i]]

SumsTo(w, n, g) ==
  /\ g \in [0 .. n -> Nat]
  /\ g[0] = 0
  /\ \A i \in 1 .. n : g[i] = g[i - 1] + w[i]

(* A set of naturals with an element has a least one.                      *)
LEMMA LeastNatural ==
  ASSUME NEW S, S \subseteq Nat, S # {}
  PROVE  \E m \in S : \A k \in S : m <= k
<1>1. \E m \in S : \A k \in S : ~ (<<k, m>> \in OpToRel(<, Nat))
  BY NatLessThanWellFounded, WFMin
<1>2. ASSUME NEW m \in S, NEW k \in S, ~ (<<k, m>> \in OpToRel(<, Nat))
      PROVE  m <= k
  <2>1. m \in Nat /\ k \in Nat
    OBVIOUS
  <2>2. ~ (k < m)
    BY <1>2, <2>1 DEF OpToRel
  <2> QED
    BY <2>1, <2>2
<1> QED
  BY <1>1, <1>2

(* There is such a function, and only one: the least index at which it     *)
(* could not be extended, or two of them differ, is not 0.                 *)
LEMMA SumsExist ==
  ASSUME NEW w \in Seq(Nat)
  PROVE  \E g : SumsTo(w, Len(w), g)
<1> DEFINE bad == {n \in 0 .. Len(w) : ~ \E g : SumsTo(w, n, g)}
<1>1. ASSUME bad # {} PROVE FALSE
  <2>1. PICK n \in bad : \A k \in bad : n <= k
    <3>1. bad \subseteq Nat
      OBVIOUS
    <3> QED
      BY <1>1, <3>1, LeastNatural
  <2>2. n # 0
    <3>1. SumsTo(w, 0, [i \in 0 .. 0 |-> 0])
      BY DEF SumsTo
    <3> QED
      BY <2>1, <3>1
  <2>3. n \in 1 .. Len(w) /\ n - 1 \in 0 .. Len(w) /\ n - 1 < n
    BY <2>1, <2>2
  <2>4. PICK g : SumsTo(w, n - 1, g)
    <3>1. ~ (n <= n - 1)
      BY <2>3
    <3>2. n - 1 \notin bad
      BY <2>1, <3>1, Zenon
    <3> QED
      BY <2>3, <3>2
  <2> DEFINE h == [i \in 0 .. n |-> IF i = n THEN g[n - 1] + w[n] ELSE g[i]]
  <2>5. SumsTo(w, n, h)
    <3>1. w[n] \in Nat /\ g[n - 1] \in Nat
      BY <2>3, <2>4 DEF SumsTo
    <3>2. h \in [0 .. n -> Nat]
      BY <2>3, <2>4, <3>1 DEF SumsTo
    <3>3. h[0] = 0
      BY <2>3, <2>4 DEF SumsTo
    <3>4. ASSUME NEW i \in 1 .. n PROVE h[i] = h[i - 1] + w[i]
      BY <2>3, <2>4 DEF SumsTo
    <3> QED
      BY <3>2, <3>3, <3>4 DEF SumsTo
  <2> QED
    BY <2>1, <2>5
<1>2. Len(w) \in Nat
  OBVIOUS
<1> QED
  BY <1>1, <1>2

LEMMA SumsUnique ==
  ASSUME NEW w \in Seq(Nat), NEW g, NEW h, SumsTo(w, Len(w), g), SumsTo(w, Len(w), h)
  PROVE  g = h
<1> DEFINE bad == {n \in 0 .. Len(w) : g[n] # h[n]}
<1>1. ASSUME bad # {} PROVE FALSE
  <2>1. PICK n \in bad : \A k \in bad : n <= k
    <3>1. bad \subseteq Nat
      OBVIOUS
    <3> QED
      BY <1>1, <3>1, LeastNatural
  <2>2. n # 0
    BY <2>1 DEF SumsTo
  <2>3. n \in 1 .. Len(w) /\ n - 1 \in 0 .. Len(w) /\ n - 1 < n
    BY <2>1, <2>2
  <2>4. g[n - 1] = h[n - 1]
    BY <2>1, <2>3
  <2> QED
    BY <2>1, <2>3, <2>4 DEF SumsTo
<1> QED
  BY <1>1 DEF SumsTo

(* The recursive definition is it.                                         *)
LEMMA SumsCorrect ==
  ASSUME NEW w \in Seq(Nat)
  PROVE  SumsTo(w, Len(w), Sums(w)) /\ Total(w) = Sums(w)[Len(w)]
<1>1. PICK g : SumsTo(w, Len(w), g)
  BY SumsExist
<1>2. Len(w) \in Nat
  OBVIOUS
<1>3. g = [i \in 0 .. Len(w) |-> IF i = 0 THEN 0 ELSE g[i - 1] + w[i]]
  BY <1>1, <1>2 DEF SumsTo
<1>4. Sums(w) = [i \in 0 .. Len(w) |-> IF i = 0 THEN 0 ELSE Sums(w)[i - 1] + w[i]]
  BY <1>3 DEF Sums
<1> DEFINE s == Sums(w)
<1>5. \A n \in 0 .. Len(w) : s[n] = g[n]
  <2> DEFINE bad == {n \in 0 .. Len(w) : s[n] # g[n]}
  <2>1. ASSUME bad # {} PROVE FALSE
    <3>1. PICK n \in bad : \A k \in bad : n <= k
      <4>1. bad \subseteq Nat
        OBVIOUS
      <4> QED
        BY <2>1, <4>1, LeastNatural
    <3>2. n # 0
      BY <1>1, <1>4, <1>2, <3>1 DEF SumsTo
    <3>3. n \in 1 .. Len(w) /\ n - 1 \in 0 .. Len(w) /\ n - 1 < n
      BY <3>1, <3>2
    <3>4. s[n - 1] = g[n - 1]
      BY <3>1, <3>3
    <3>5. s[n] = s[n - 1] + w[n]
      BY <1>4, <3>3
    <3> QED
      BY <1>1, <3>1, <3>3, <3>4, <3>5 DEF SumsTo
  <2> QED
    BY <2>1
<1>6. Sums(w) = g
  <2>1. DOMAIN Sums(w) = 0 .. Len(w)
    BY <1>4
  <2> QED
    BY <1>1, <1>4, <1>5, <2>1 DEF SumsTo
<1> QED
  BY <1>1, <1>6 DEF Total, Sums

(* The four facts the recorders' proofs use.                               *)
LEMMA TotalEmpty == Total(<<>>) = 0
<1>1. <<>> \in Seq(Nat) /\ Len(<<>>) = 0
  OBVIOUS
<1> QED
  BY <1>1, SumsCorrect DEF SumsTo

LEMMA TotalNat ==
  ASSUME NEW w \in Seq(Nat)
  PROVE  Total(w) \in Nat
BY SumsCorrect DEF SumsTo

LEMMA TotalIs ==
  ASSUME NEW w \in Seq(Nat), NEW g, SumsTo(w, Len(w), g)
  PROVE  Total(w) = g[Len(w)]
BY SumsCorrect, SumsUnique

LEMMA TotalSingle ==
  ASSUME NEW e \in Nat
  PROVE  Total(<<e>>) = e
<1>1. <<e>> \in Seq(Nat) /\ Len(<<e>>) = 1 /\ <<e>>[1] = e
  OBVIOUS
<1>2. SumsTo(<<e>>, 1, Sums(<<e>>)) /\ Total(<<e>>) = Sums(<<e>>)[1]
  BY <1>1, SumsCorrect
<1> QED
  BY <1>1, <1>2 DEF SumsTo

LEMMA TotalConcat ==
  ASSUME NEW u \in Seq(Nat), NEW v \in Seq(Nat)
  PROVE  Total(u \o v) = Total(u) + Total(v)
<1> DEFINE m == Len(u)
           n == Len(v)
           w == u \o v
           f == Sums(u)
           g == Sums(v)
           h == [i \in 0 .. m + n |-> IF i <= m THEN f[i] ELSE f[m] + g[i - m]]
<1>1. /\ m \in Nat /\ n \in Nat /\ w \in Seq(Nat) /\ Len(w) = m + n
      /\ \A i \in 1 .. m : w[i] = u[i]
      /\ \A i \in m + 1 .. m + n : w[i] = v[i - m]
      /\ \A i \in 1 .. m + n : w[i] \in Nat
  OBVIOUS
<1>2. SumsTo(u, m, f) /\ Total(u) = f[m] /\ SumsTo(v, n, g) /\ Total(v) = g[n]
  BY SumsCorrect
<1> HIDE DEF m, n, w, f, g
<1>3. f[m] \in Nat /\ g[0] = 0 /\ g[n] \in Nat
  BY <1>1, <1>2 DEF SumsTo
<1>4. SumsTo(w, m + n, h)
  <2>1. ASSUME NEW i \in 0 .. m + n PROVE h[i] \in Nat
    <3>1. CASE i <= m
      BY <1>1, <1>2, <3>1 DEF SumsTo
    <3>2. CASE ~ (i <= m)
      <4>1. i - m \in 0 .. n
        BY <1>1, <3>2
      <4>2. g[i - m] \in Nat
        BY <1>2, <4>1 DEF SumsTo
      <4>3. h[i] = f[m] + g[i - m]
        BY <3>2
      <4> QED
        BY <1>3, <4>2, <4>3
    <3> QED
      BY <3>1, <3>2
  <2>2. h[0] = 0
    BY <1>1, <1>2 DEF SumsTo
  <2>3. ASSUME NEW i \in 1 .. m + n PROVE h[i] = h[i - 1] + w[i]
    <3>1. CASE i <= m
      <4>1. i \in 1 .. m /\ i - 1 \in 0 .. m + n /\ i - 1 <= m
        BY <1>1, <3>1
      <4> QED
        BY <1>1, <1>2, <4>1 DEF SumsTo
    <3>2. CASE ~ (i <= m)
      <4>1. /\ i \in m + 1 .. m + n /\ i - m \in 1 .. n /\ i - 1 \in 0 .. m + n
            /\ i - 1 - m = i - m - 1 /\ i - m - 1 \in 0 .. n
        BY <1>1, <3>2
      <4>2. w[i] = v[i - m] /\ w[i] \in Nat
        BY <1>1, <4>1
      <4>3. g[i - m] = g[i - m - 1] + w[i] /\ g[i - m - 1] \in Nat
        BY <1>2, <4>1, <4>2 DEF SumsTo
      <4>4. h[i] = f[m] + g[i - m]
        BY <3>2
      <4>5. h[i - 1] = f[m] + g[i - m - 1]
        <5>1. CASE i - 1 = m
          <6>1. i - m - 1 = 0 /\ h[i - 1] = f[m]
            BY <1>1, <4>1, <5>1
          <6> QED
            BY <1>3, <6>1
        <5>2. CASE i - 1 # m
          BY <1>1, <3>2, <4>1, <5>2
        <5> QED
          BY <5>1, <5>2
      <4>6. \A a, b, c \in Nat : a + (b + c) = (a + b) + c
        OBVIOUS
      <4>7. f[m] + (g[i - m - 1] + w[i]) = (f[m] + g[i - m - 1]) + w[i]
        BY <1>3, <4>2, <4>3, <4>6
      <4> HIDE DEF h
      <4> QED
        BY <4>3, <4>4, <4>5, <4>7
    <3> QED
      BY <3>1, <3>2
  <2> QED
    BY <2>1, <2>2, <2>3 DEF SumsTo
<1>5. Total(w) = h[m + n]
  BY <1>1, <1>4, TotalIs
<1>6. h[m + n] = f[m] + g[n]
  BY <1>1, <1>3
<1> QED
  BY <1>2, <1>5, <1>6 DEF w

--------------------------------------------------------------------------------
(***************************************************************************)
(* Adding up a property of the elements of a sequence, and counting the    *)
(* elements that belong to a set: both are additive too.                   *)
(***************************************************************************)
Mapped(f, s) == [i \in DOMAIN s |-> f[s[i]]]
Marked(M, s) == {i \in DOMAIN s : s[i] \in M}

LEMMA MappedIsNat ==
  ASSUME NEW S, NEW f \in [S -> Nat], NEW s \in Seq(S)
  PROVE  Mapped(f, s) \in Seq(Nat) /\ Len(Mapped(f, s)) = Len(s)
<1>1. Len(s) \in Nat /\ DOMAIN s = 1 .. Len(s) /\ \A i \in 1 .. Len(s) : s[i] \in S
  OBVIOUS
<1>2. Mapped(f, s) \in [1 .. Len(s) -> Nat]
  BY <1>1 DEF Mapped
<1>3. Mapped(f, s) \in Seq(Nat)
  BY <1>1, <1>2, SeqDef
<1> QED
  BY <1>1, <1>2, <1>3

LEMMA MappedEmpty ==
  ASSUME NEW f
  PROVE  Total(Mapped(f, <<>>)) = 0
<1>1. Mapped(f, <<>>) = <<>>
  BY DEF Mapped
<1> QED
  BY <1>1, TotalEmpty

LEMMA MappedSingle ==
  ASSUME NEW S, NEW f \in [S -> Nat], NEW e \in S
  PROVE  Total(Mapped(f, <<e>>)) = f[e]
<1>1. Mapped(f, <<e>>) = <<f[e]>>
  BY DEF Mapped
<1> QED
  BY <1>1, TotalSingle

LEMMA MappedConcat ==
  ASSUME NEW S, NEW f \in [S -> Nat], NEW s \in Seq(S), NEW t \in Seq(S)
  PROVE  Total(Mapped(f, s \o t)) = Total(Mapped(f, s)) + Total(Mapped(f, t))
<1> DEFINE u == Mapped(f, s)
           v == Mapped(f, t)
           w == Mapped(f, s \o t)
<1>1. /\ s \o t \in Seq(S) /\ Len(s \o t) = Len(s) + Len(t)
      /\ \A i \in 1 .. Len(s) + Len(t) : (s \o t)[i] = IF i <= Len(s) THEN s[i] ELSE t[i - Len(s)]
  BY ConcatProperties
<1>2. /\ u \in Seq(Nat) /\ v \in Seq(Nat) /\ w \in Seq(Nat)
      /\ Len(u) = Len(s) /\ Len(v) = Len(t) /\ Len(w) = Len(s) + Len(t)
  BY <1>1, MappedIsNat
<1>3. /\ \A i \in 1 .. Len(s) : u[i] = f[s[i]]
      /\ \A i \in 1 .. Len(t) : v[i] = f[t[i]]
      /\ \A i \in 1 .. Len(s) + Len(t) : w[i] = f[(s \o t)[i]]
  BY <1>1 DEF Mapped
<1> HIDE DEF u, v, w
<1>4. u \o v = w
  <2>1. /\ u \o v \in Seq(Nat) /\ Len(u \o v) = Len(s) + Len(t)
        /\ \A i \in 1 .. Len(s) + Len(t) : (u \o v)[i] = IF i <= Len(s) THEN u[i] ELSE v[i - Len(s)]
    BY <1>2, ConcatProperties
  <2>2. ASSUME NEW i \in 1 .. Len(s) + Len(t) PROVE (u \o v)[i] = w[i]
    <3>1. CASE i <= Len(s)
      <4>1. i \in 1 .. Len(s)
        BY <3>1
      <4>2. (u \o v)[i] = u[i] /\ (s \o t)[i] = s[i]
        BY <1>1, <2>1, <3>1
      <4>3. u[i] = f[s[i]] /\ w[i] = f[(s \o t)[i]]
        BY <1>3, <4>1
      <4> QED
        BY <4>2, <4>3
    <3>2. CASE ~ (i <= Len(s))
      <4>1. i - Len(s) \in 1 .. Len(t)
        BY <3>2
      <4>2. (u \o v)[i] = v[i - Len(s)] /\ (s \o t)[i] = t[i - Len(s)]
        BY <1>1, <1>2, <2>1, <3>2
      <4>3. v[i - Len(s)] = f[t[i - Len(s)]] /\ w[i] = f[(s \o t)[i]]
        BY <1>3, <4>1
      <4> QED
        BY <4>2, <4>3
    <3> QED
      BY <3>1, <3>2
  <2> QED
    BY <1>2, <2>1, <2>2, SeqEqual
<1>5. Total(u \o v) = Total(u) + Total(v)
  BY <1>2, TotalConcat
<1> QED
  BY <1>4, <1>5 DEF u, v, w

LEMMA MarkedFinite ==
  ASSUME NEW S, NEW M, NEW s \in Seq(S)
  PROVE  IsFiniteSet(Marked(M, s)) /\ Cardinality(Marked(M, s)) \in Nat
<1>1. IsFiniteSet(1 .. Len(s)) /\ Marked(M, s) \in SUBSET (1 .. Len(s))
  BY FS_Interval DEF Marked
<1>2. IsFiniteSet(Marked(M, s))
  BY <1>1, FS_Subset
<1> QED
  BY <1>2, FS_CardinalityType

LEMMA MarkedEmpty ==
  ASSUME NEW M
  PROVE  Cardinality(Marked(M, <<>>)) = 0
<1>1. Marked(M, <<>>) = {}
  BY DEF Marked
<1> QED
  BY <1>1, FS_EmptySet

LEMMA MarkedSingle ==
  ASSUME NEW M, NEW e
  PROVE  Cardinality(Marked(M, <<e>>)) = IF e \in M THEN 1 ELSE 0
<1>1. Marked(M, <<e>>) = IF e \in M THEN {1} ELSE {}
  BY DEF Marked
<1> QED
  BY <1>1, FS_EmptySet, FS_Singleton

LEMMA MarkedConcat ==
  ASSUME NEW S, NEW M, NEW s \in Seq(S), NEW t \in Seq(S)
  PROVE  Cardinality(Marked(M, s \o t)) = Cardinality(Marked(M, s)) + Cardinality(Marked(M, t))
<1> DEFINE m == Len(s)
           A == Marked(M, s)
           B == Marked(M, t)
           C == {i \in m + 1 .. m + Len(t) : t[i - m] \in M}
           shift == [i \in B |-> i + m]
<1>1. /\ s \o t \in Seq(S) /\ DOMAIN (s \o t) = 1 .. m + Len(t)
      /\ \A i \in 1 .. m + Len(t) : (s \o t)[i] = IF i <= m THEN s[i] ELSE t[i - m]
      /\ m \in Nat /\ Len(t) \in Nat /\ DOMAIN s = 1 .. m /\ DOMAIN t = 1 .. Len(t)
  BY ConcatProperties
<1>2. /\ IsFiniteSet(A) /\ Cardinality(A) \in Nat /\ IsFiniteSet(B) /\ Cardinality(B) \in Nat
  BY MarkedFinite
<1>3. A \subseteq 1 .. m /\ B \subseteq 1 .. Len(t)
  BY <1>1 DEF Marked
<1>4. Marked(M, s \o t) = A \cup C
  <2>1. ASSUME NEW i \in 1 .. m PROVE i \in Marked(M, s \o t) <=> i \in A
    BY <1>1, <2>1 DEF Marked
  <2>2. ASSUME NEW i \in m + 1 .. m + Len(t) PROVE i \in Marked(M, s \o t) <=> i \in C
    <3>1. i \in 1 .. m + Len(t) /\ ~ (i <= m)
      BY <1>1
    <3>2. (s \o t)[i] = t[i - m]
      BY <1>1, <3>1
    <3> QED
      BY <1>1, <3>1, <3>2 DEF Marked
  <2>3. Marked(M, s \o t) \subseteq 1 .. m + Len(t)
    BY <1>1 DEF Marked
  <2>4. \A i \in 1 .. m + Len(t) : i \in 1 .. m \/ i \in m + 1 .. m + Len(t)
    BY <1>1
  <2>5. \A i \in 1 .. m : i \notin C /\ i \in 1 .. m + Len(t)
    BY <1>1
  <2>6. \A i \in m + 1 .. m + Len(t) : i \notin A /\ i \in 1 .. m + Len(t)
    BY <1>1, <1>3
  <2>7. C \subseteq m + 1 .. m + Len(t)
    OBVIOUS
  <2> HIDE DEF A, C
  <2> QED
    BY <1>3, <2>1, <2>2, <2>3, <2>4, <2>5, <2>6, <2>7
<1>5. A \cap C = {}
  BY <1>1, <1>3
<1>6. shift \in Bijection(B, C)
  <2>1. ASSUME NEW i \in B PROVE shift[i] \in C
    <3>1. i \in 1 .. Len(t) /\ t[i] \in M
      BY <1>1 DEF Marked
    <3>2. i + m \in m + 1 .. m + Len(t) /\ (i + m) - m = i
      BY <1>1, <3>1
    <3> QED
      BY <3>1, <3>2
  <2>2. \A i, j \in B : shift[i] = shift[j] => i = j
    BY <1>1, <1>3
  <2>3. ASSUME NEW j \in C PROVE \E i \in B : shift[i] = j
    <3>1. j - m \in 1 .. Len(t) /\ (j - m) + m = j /\ t[j - m] \in M
      BY <1>1
    <3>2. j - m \in B
      BY <1>1, <3>1 DEF Marked
    <3> QED
      BY <3>1, <3>2
  <2>4. shift \in [B -> C]
    BY <2>1
  <2> HIDE DEF shift, C, B
  <2> QED
    BY <2>2, <2>3, <2>4, Fun_IsBij
<1>7. IsFiniteSet(C) /\ Cardinality(C) = Cardinality(B)
  <2> HIDE DEF B, C, shift
  <2> QED
    BY <1>2, <1>6, FS_Bijection DEF ExistsBijection
<1>8. Cardinality(A \cup C) = Cardinality(A) + Cardinality(C) - Cardinality({})
  <2> HIDE DEF A, C
  <2> QED
    BY <1>2, <1>5, <1>7, FS_Union
<1> QED
  <2> HIDE DEF A, B, C
  <2> QED
    BY <1>2, <1>4, <1>7, <1>8, FS_EmptySet DEF A, B
================================================================================
