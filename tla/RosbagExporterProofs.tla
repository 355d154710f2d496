-------------------------- MODULE RosbagExporterProofs --------------------------
(***************************************************************************)
(* Proofs about the bag that the export writes, for any directory and any  *)
(* dataset: what is put in place can be read back through its index or its *)
(* metadata, and holds every exported row, in order and once.              *)
(*                                                                         *)
(* The argument has four parts.  Filtering, flattening and prefixes of     *)
(* sequences.  The writer: after every message, the records and the open   *)
(* chunk hold the messages put in so far, and every chunk on disk is       *)
(* indexed and described.  The LiDAR frames: the points of the frames that *)
(* are done, and of the open one, are those of the rows read so far.  And  *)
(* the export: the streams before the current one are in the bag, those    *)
(* after it are not, and of the current one what its rows so far have made.*)
(***************************************************************************)
EXTENDS ViewerProofs

--------------------------------------------------------------------------------
(***************************************************************************)
(* Sequences of anything.                                                  *)
(***************************************************************************)
IsSeq(s) == s \in Seq(Range(s))
Distinct(s) == \A i, j \in 1 .. Len(s) : s[i] = s[j] => i = j

LEMMA SeqTyped ==
  ASSUME NEW R, NEW s \in Seq(R)
  PROVE  IsSeq(s) /\ Range(s) \subseteq R
<1>1. Len(s) \in Nat /\ DOMAIN s = 1 .. Len(s) /\ \A i \in 1 .. Len(s) : s[i] \in R
  OBVIOUS
<1>2. s = [i \in 1 .. Len(s) |-> s[i]]
  BY <1>1
<1>3. \A i \in 1 .. Len(s) : s[i] \in Range(s)
  BY <1>1 DEF Range
<1>4. s \in [1 .. Len(s) -> Range(s)]
  BY <1>2, <1>3
<1>5. Range(s) \subseteq R
  BY <1>1 DEF Range
<1> QED
  BY <1>1, <1>4, <1>5 DEF IsSeq

LEMMA SeqFacts ==
  ASSUME NEW s, IsSeq(s)
  PROVE  /\ Len(s) \in Nat /\ DOMAIN s = 1 .. Len(s) /\ s = [i \in 1 .. Len(s) |-> s[i]]
         /\ \A i \in 1 .. Len(s) : s[i] \in Range(s)
         /\ \A x \in Range(s) : \E i \in 1 .. Len(s) : s[i] = x
         /\ (s = <<>>) <=> (Len(s) = 0)
<1>1. s \in Seq(Range(s))
  BY DEF IsSeq
<1>2. Len(s) \in Nat /\ DOMAIN s = 1 .. Len(s) /\ (s = <<>>) <=> (Len(s) = 0)
  BY <1>1
<1>3. s = [i \in 1 .. Len(s) |-> s[i]] /\ \A i \in 1 .. Len(s) : s[i] \in Range(s)
  BY <1>1
<1>4. \A x \in Range(s) : \E i \in 1 .. Len(s) : s[i] = x
  BY <1>2 DEF Range
<1> QED
  BY <1>2, <1>3, <1>4

LEMMA FunSeq ==
  ASSUME NEW s, NEW n \in Nat, s = [i \in 1 .. n |-> s[i]]
  PROVE  IsSeq(s) /\ Len(s) = n
<1>1. DOMAIN s = 1 .. n
  OBVIOUS
<1>2. s \in [1 .. n -> Range(s)]
  BY <1>1 DEF Range
<1>3. s \in Seq(Range(s))
  BY <1>2
<1> QED
  BY <1>1, <1>3 DEF IsSeq

LEMMA SameElements ==
  ASSUME NEW s, NEW t, IsSeq(s), IsSeq(t), Len(s) = Len(t), \A i \in 1 .. Len(s) : s[i] = t[i]
  PROVE  s = t
<1>0. Len(s) = Len(t)
  OBVIOUS
<1>1. s = [i \in 1 .. Len(s) |-> s[i]] /\ t = [i \in 1 .. Len(s) |-> t[i]]
  BY <1>0, SeqFacts, Zenon
<1>2. [i \in 1 .. Len(s) |-> s[i]] = [i \in 1 .. Len(s) |-> t[i]]
  OBVIOUS
<1> QED
  BY <1>1, <1>2, Zenon

LEMMA EmptyFacts == IsSeq(<<>>) /\ Len(<<>>) = 0 /\ Range(<<>>) = {} /\ Distinct(<<>>)
<1>1. <<>> \in Seq({}) /\ Len(<<>>) = 0
  OBVIOUS
<1>2. IsSeq(<<>>) /\ Range(<<>>) = {}
  <2>1. DOMAIN <<>> = {} /\ <<>> \in Seq(Range(<<>>))
    OBVIOUS
  <2> QED
    BY <2>1 DEF IsSeq, Range
<1>3. 1 .. Len(<<>>) = {}
  BY <1>1
<1> QED
  BY <1>1, <1>2, <1>3 DEF Distinct

LEMMA AppendFacts ==
  ASSUME NEW s, IsSeq(s), NEW e
  PROVE  /\ IsSeq(Append(s, e)) /\ Len(Append(s, e)) = Len(s) + 1 /\ Append(s, e)[Len(s) + 1] = e
         /\ \A i \in 1 .. Len(s) : Append(s, e)[i] = s[i]
         /\ Range(Append(s, e)) = Range(s) \cup {e} /\ Append(s, e) # <<>>
<1> DEFINE R == Range(s) \cup {e}
           t == Append(s, e)
<1>1. s \in Seq(R) /\ e \in R /\ Len(s) \in Nat
  <2>1. s \in Seq(Range(s))
    BY DEF IsSeq
  <2> QED
    BY <2>1, SeqFacts
<1> HIDE DEF R
<1>2. t \in Seq(R) /\ Len(t) = Len(s) + 1 /\ t[Len(s) + 1] = e /\ \A i \in 1 .. Len(s) : t[i] = s[i]
  BY <1>1
<1>3. IsSeq(t)
  BY <1>2, SeqTyped, Zenon
<1> HIDE DEF t
<1>4. Range(t) = Range(s) \cup {e}
  <2>1. DOMAIN t = 1 .. Len(s) + 1 /\ DOMAIN s = 1 .. Len(s)
    BY <1>2, <1>3, SeqFacts
  <2>2. 1 .. Len(s) + 1 = (1 .. Len(s)) \cup {Len(s) + 1}
    BY <1>1
  <2> QED
    BY <1>2, <2>1, <2>2 DEF Range
<1>5. t # <<>>
  BY <1>1, <1>2, EmptyFacts
<1> QED
  BY <1>2, <1>3, <1>4, <1>5 DEF t

LEMMA ConcatFacts ==
  ASSUME NEW s, NEW t, IsSeq(s), IsSeq(t)
  PROVE  /\ IsSeq(s \o t) /\ Len(s \o t) = Len(s) + Len(t)
         /\ \A i \in 1 .. Len(s) : (s \o t)[i] = s[i]
         /\ \A i \in 1 .. Len(t) : (s \o t)[Len(s) + i] = t[i]
         /\ Range(s \o t) = Range(s) \cup Range(t)
<1> DEFINE R == Range(s) \cup Range(t)
           u == s \o t
<1>1. s \in Seq(R) /\ t \in Seq(R) /\ Len(s) \in Nat /\ Len(t) \in Nat
  <2>1. s \in Seq(Range(s)) /\ t \in Seq(Range(t))
    BY DEF IsSeq
  <2> QED
    BY <2>1, SeqFacts
<1> HIDE DEF R
<1>2. u \in Seq(R) /\ Len(u) = Len(s) + Len(t) /\ \A i \in 1 .. Len(s) : u[i] = s[i]
  BY <1>1
<1>3. \A i \in 1 .. Len(t) : u[Len(s) + i] = t[i]
  BY <1>1
<1>4. IsSeq(u)
  BY <1>2, SeqTyped, Zenon
<1> HIDE DEF u
<1>5. Range(u) = Range(s) \cup Range(t)
  <2>1. DOMAIN u = 1 .. Len(s) + Len(t) /\ DOMAIN s = 1 .. Len(s) /\ DOMAIN t = 1 .. Len(t)
    BY <1>2, <1>4, SeqFacts
  <2>2. Range(u) \subseteq Range(s) \cup Range(t)
    <3> SUFFICES ASSUME NEW i \in 1 .. Len(s) + Len(t) PROVE u[i] \in Range(s) \cup Range(t)
      BY <2>1 DEF Range
    <3>1. CASE i \in 1 .. Len(s)
      BY <1>2, <2>1, <3>1 DEF Range
    <3>2. CASE i \notin 1 .. Len(s)
      <4>1. i - Len(s) \in 1 .. Len(t) /\ Len(s) + (i - Len(s)) = i
        BY <1>1, <3>2
      <4>2. u[i] = t[i - Len(s)]
        BY <1>3, <4>1
      <4> QED
        BY <2>1, <4>1, <4>2 DEF Range
    <3> QED
      BY <3>1, <3>2
  <2>3. \A i \in 1 .. Len(s) : s[i] \in Range(u)
    <3>1. \A i \in 1 .. Len(s) : i \in 1 .. Len(s) + Len(t)
      BY <1>1
    <3> QED
      BY <1>2, <2>1, <3>1 DEF Range
  <2>4. \A i \in 1 .. Len(t) : t[i] \in Range(u)
    <3>1. \A i \in 1 .. Len(t) : Len(s) + i \in 1 .. Len(s) + Len(t)
      BY <1>1
    <3> QED
      BY <1>3, <2>1, <3>1 DEF Range
  <2> QED
    BY <2>1, <2>2, <2>3, <2>4, Zenon DEF Range
<1> QED
  BY <1>2, <1>3, <1>4, <1>5 DEF u

LEMMA ConcatEmpty ==
  ASSUME NEW s, IsSeq(s)
  PROVE  s \o <<>> = s /\ <<>> \o s = s
<1>1. s \in Seq(Range(s)) /\ <<>> \in Seq(Range(s))
  BY DEF IsSeq
<1> QED
  BY <1>1

LEMMA ConcatAssoc ==
  ASSUME NEW s, NEW t, NEW u, IsSeq(s), IsSeq(t), IsSeq(u)
  PROVE  (s \o t) \o u = s \o (t \o u)
<1> DEFINE a == (s \o t) \o u
           b == s \o (t \o u)
           l == Len(s)
           m == Len(t)
           n == Len(u)
<1>1. l \in Nat /\ m \in Nat /\ n \in Nat
  BY SeqFacts
<1>2. IsSeq(s \o t) /\ IsSeq(t \o u) /\ Len(s \o t) = l + m /\ Len(t \o u) = m + n
  BY ConcatFacts
<1>3. IsSeq(a) /\ IsSeq(b) /\ Len(a) = l + m + n /\ Len(b) = l + (m + n)
  BY <1>2, ConcatFacts
<1>4. ASSUME NEW i \in 1 .. l PROVE a[i] = b[i]
  <2>1. i \in 1 .. Len(s \o t) /\ (s \o t)[i] = s[i]
    BY <1>1, <1>2, ConcatFacts
  <2> QED
    BY <1>2, <2>1, ConcatFacts
<1>5. ASSUME NEW i \in 1 .. m PROVE a[l + i] = b[l + i]
  <2>1. l + i \in 1 .. Len(s \o t) /\ (s \o t)[l + i] = t[i] /\ i \in 1 .. Len(t \o u) /\ (t \o u)[i] = t[i]
    BY <1>1, <1>2, ConcatFacts
  <2>2. a[l + i] = (s \o t)[l + i]
    BY <1>2, <2>1, ConcatFacts
  <2>3. b[l + i] = (t \o u)[i]
    BY <1>2, <2>1, ConcatFacts
  <2> QED
    BY <2>1, <2>2, <2>3
<1>6. ASSUME NEW i \in 1 .. n PROVE a[l + m + i] = b[l + m + i]
  <2>1. a[l + m + i] = u[i]
    BY <1>2, ConcatFacts
  <2>2. m + i \in 1 .. Len(t \o u) /\ (t \o u)[m + i] = u[i] /\ l + m + i = l + (m + i)
    BY <1>1, <1>2, ConcatFacts
  <2>3. b[l + (m + i)] = (t \o u)[m + i]
    BY <1>2, <2>2, ConcatFacts
  <2> QED
    BY <2>1, <2>2, <2>3
<1> HIDE DEF a, b, l, m, n
<1>7. \A i \in 1 .. Len(a) : a[i] = b[i]
  <2> SUFFICES ASSUME NEW i \in 1 .. l + m + n PROVE a[i] = b[i]
    BY <1>3
  <2>1. CASE i \in 1 .. l
    BY <1>4, <2>1
  <2>2. CASE i \in l + 1 .. l + m
    <3>1. i - l \in 1 .. m /\ l + (i - l) = i
      BY <1>1, <2>2
    <3> QED
      BY <1>5, <3>1
  <2>3. CASE i \in l + m + 1 .. l + m + n
    <3>1. i - (l + m) \in 1 .. n /\ l + m + (i - (l + m)) = i
      BY <1>1, <2>3
    <3> QED
      BY <1>6, <3>1
  <2> QED
    BY <1>1, <2>1, <2>2, <2>3
<1>8. Len(a) = Len(b)
  BY <1>1, <1>3
<1>9. a = b
  BY <1>3, <1>7, <1>8, SameElements
<1> QED
  BY <1>9 DEF a, b

LEMMA AppendIs ==
  ASSUME NEW s, IsSeq(s), NEW e
  PROVE  IsSeq(<<e>>) /\ Len(<<e>>) = 1 /\ Range(<<e>>) = {e} /\ Append(s, e) = s \o <<e>>
<1>1. <<e>> \in Seq({e}) /\ Len(<<e>>) = 1 /\ <<e>>[1] = e
  OBVIOUS
<1>2. IsSeq(<<e>>) /\ Len(s) \in Nat
  BY <1>1, SeqTyped, SeqFacts, Zenon
<1>3. Range(<<e>>) = {e}
  BY <1>1, <1>2, SeqFacts DEF Range
<1>4. \A i \in 1 .. Len(s) + 1 : Append(s, e)[i] = (s \o <<e>>)[i]
  <2> SUFFICES ASSUME NEW i \in 1 .. Len(s) + 1 PROVE Append(s, e)[i] = (s \o <<e>>)[i]
    OBVIOUS
  <2>1. CASE i \in 1 .. Len(s)
    BY <1>2, <2>1, AppendFacts, ConcatFacts
  <2>2. CASE i = Len(s) + 1
    <3>1. 1 \in 1 .. Len(<<e>>)
      BY <1>1
    <3>2. (s \o <<e>>)[Len(s) + 1] = <<e>>[1]
      BY <1>2, <3>1, ConcatFacts
    <3> QED
      BY <1>1, <2>2, <3>2, AppendFacts
  <2> QED
    BY <1>2, <2>1, <2>2
<1>5. /\ IsSeq(Append(s, e)) /\ IsSeq(s \o <<e>>) /\ Len(Append(s, e)) = Len(s) + 1 /\ Len(s \o <<e>>) = Len(s) + 1
  BY <1>1, <1>2, AppendFacts, ConcatFacts
<1>6. Append(s, e) = s \o <<e>>
  <2> DEFINE a == Append(s, e)
             b == s \o <<e>>
  <2>1. IsSeq(a) /\ IsSeq(b) /\ Len(a) = Len(b) /\ \A i \in 1 .. Len(a) : a[i] = b[i]
    BY <1>4, <1>5
  <2> HIDE DEF a, b
  <2>2. a = b
    BY <2>1, SameElements
  <2> QED
    BY <2>2 DEF a, b
<1> QED
  BY <1>1, <1>2, <1>3, <1>6

LEMMA ConcatAppend ==
  ASSUME NEW s, NEW t, IsSeq(s), IsSeq(t), NEW e
  PROVE  s \o Append(t, e) = Append(s \o t, e)
<1>1. IsSeq(<<e>>) /\ IsSeq(s \o t)
  BY AppendIs, ConcatFacts
<1>2. Append(t, e) = t \o <<e>> /\ Append(s \o t, e) = (s \o t) \o <<e>>
  BY <1>1, AppendIs, Zenon
<1> QED
  BY <1>1, <1>2, ConcatAssoc

(* The first k elements.                                                   *)
LEMMA PrefixFacts ==
  ASSUME NEW s, IsSeq(s)
  PROVE  /\ SubSeq(s, 1, 0) = <<>> /\ SubSeq(s, 1, Len(s)) = s
         /\ \A k \in 0 .. Len(s) : /\ IsSeq(SubSeq(s, 1, k)) /\ Len(SubSeq(s, 1, k)) = k
                                   /\ \A i \in 1 .. k : SubSeq(s, 1, k)[i] = s[i]
                                   /\ Range(SubSeq(s, 1, k)) \subseteq Range(s)
         /\ \A k \in 1 .. Len(s) : SubSeq(s, 1, k) = Append(SubSeq(s, 1, k - 1), s[k])
<1> DEFINE R == Range(s)
<1>1. s \in Seq(R) /\ Len(s) \in Nat
  BY SeqFacts DEF IsSeq
<1> HIDE DEF R
<1>2. SubSeq(s, 1, 0) = <<>> /\ SubSeq(s, 1, Len(s)) = s
  BY <1>1
<1>3. ASSUME NEW k \in 0 .. Len(s)
      PROVE  /\ IsSeq(SubSeq(s, 1, k)) /\ Len(SubSeq(s, 1, k)) = k
             /\ \A i \in 1 .. k : SubSeq(s, 1, k)[i] = s[i]
             /\ Range(SubSeq(s, 1, k)) \subseteq Range(s)
  <2>1. SubSeq(s, 1, k) \in Seq(R) /\ Len(SubSeq(s, 1, k)) = k /\ \A i \in 1 .. k : SubSeq(s, 1, k)[i] = s[i]
    BY <1>1
  <2> QED
    BY <2>1, SeqTyped, Zenon DEF R
<1>4. ASSUME NEW k \in 1 .. Len(s) PROVE SubSeq(s, 1, k) = Append(SubSeq(s, 1, k - 1), s[k])
  BY <1>1
<1> QED
  BY <1>2, <1>3, <1>4

--------------------------------------------------------------------------------
(***************************************************************************)
(* The entries with one of the values in a field.                          *)
(***************************************************************************)
WhereStep(kept, e, field, values) == IF e[field] \in values THEN Append(kept, e) ELSE kept

(* The entries are taken one after the other.                              *)
WhereUpTo(g, field, values, items, S) ==
  IF S = {} THEN <<>> ELSE WhereStep(g[S \ {Max(S)}], items[Max(S)], field, values)
LEMMA WhereExists ==
  ASSUME NEW field, NEW values, NEW items, NEW n \in Nat
  PROVE  \E g : g = [S \in SUBSET (1 .. n) |-> WhereUpTo(g, field, values, items, S)]
<1> DEFINE Has(k) == \E g : g = [S \in SUBSET (1 .. k) |-> WhereUpTo(g, field, values, items, S)]
           bad == {k \in Nat : ~ Has(k)}
<1>1. Has(0)
  <2> DEFINE g == [S \in SUBSET (1 .. 0) |-> <<>>]
  <2>1. g = [S \in SUBSET (1 .. 0) |-> WhereUpTo(g, field, values, items, S)]
    BY DEF WhereUpTo
  <2> QED
    BY <2>1, Zenon
<1>2. ASSUME NEW k \in Nat, Has(k) PROVE Has(k + 1)
  <2>1. PICK g : g = [S \in SUBSET (1 .. k) |-> WhereUpTo(g, field, values, items, S)]
    BY <1>2
  <2> DEFINE h == [S \in SUBSET (1 .. k + 1) |-> WhereUpTo(g, field, values, items, S)]
  <2>2. ASSUME NEW S \in SUBSET (1 .. k + 1)
        PROVE  WhereUpTo(h, field, values, items, S) = WhereUpTo(g, field, values, items, S)
    <3>1. CASE S = {}
      BY <3>1 DEF WhereUpTo
    <3>2. CASE S # {}
      <4>1. S \ {Max(S)} \in SUBSET (1 .. k) /\ S \ {Max(S)} \in SUBSET (1 .. k + 1)
        BY <3>2, WithoutMax, Zenon
      <4>2. h[S \ {Max(S)}] = WhereUpTo(g, field, values, items, S \ {Max(S)})
        BY <4>1
      <4>3. g[S \ {Max(S)}] = WhereUpTo(g, field, values, items, S \ {Max(S)})
        BY <2>1, <4>1
      <4> HIDE DEF h
      <4> QED
        BY <4>2, <4>3 DEF WhereUpTo
    <3> QED
      BY <3>1, <3>2
  <2>3. h = [S \in SUBSET (1 .. k + 1) |-> WhereUpTo(h, field, values, items, S)]
    BY <2>2, Zenon
  <2> QED
    BY <2>3, Zenon
<1> HIDE DEF Has
<1>3. ASSUME bad # {} PROVE FALSE
  <2>1. PICK k \in bad : \A x \in bad : k <= x
    BY <1>3, LeastNatural, Zenon
  <2>2. k # 0 /\ k \in Nat
    BY <1>1, <2>1
  <2>3. k - 1 \in Nat /\ Has(k - 1)
    BY <2>1, <2>2
  <2>4. Has(k - 1 + 1)
    BY <1>2, <2>3
  <2> QED
    BY <2>1, <2>2, <2>4
<1> QED
  BY <1>3, Zenon DEF Has

LEMMA WhereSteps ==
  ASSUME NEW field, NEW values, NEW items, IsSeq(items)
  PROVE  \E it : /\ it[0] = <<>>
                 /\ \A k \in 1 .. Len(items) : it[k] = WhereStep(it[k - 1], items[k], field, values)
                 /\ Where(items, field, values) = it[Len(items)]
<1> DEFINE n == Len(items)
           iter == CHOOSE g : g = [S \in SUBSET (1 .. n) |-> WhereUpTo(g, field, values, items, S)]
           it == [k \in 0 .. n |-> iter[1 .. k]]
<1>1. n \in Nat /\ DOMAIN items = 1 .. n
  BY SeqFacts
<1>2. iter = [S \in SUBSET (1 .. n) |-> WhereUpTo(iter, field, values, items, S)]
  BY <1>1, WhereExists
<1>3. Where(items, field, values) = iter[1 .. n]
  BY <1>1, Zenon DEF Where, FoldLeft, MapThenFoldSet, WhereUpTo, WhereStep
<1> HIDE DEF iter
<1>4. it[0] = <<>>
  <2>1. 1 .. 0 = {} /\ 0 \in 0 .. n
    BY <1>1
  <2>2. iter[{}] = WhereUpTo(iter, field, values, items, {})
    BY <1>2
  <2> QED
    BY <2>1, <2>2 DEF WhereUpTo
<1>5. ASSUME NEW k \in 1 .. n PROVE it[k] = WhereStep(it[k - 1], items[k], field, values)
  <2>1. k - 1 \in 0 .. n /\ k \in 0 .. n /\ k - 1 \in Nat /\ k - 1 + 1 = k
    BY <1>1
  <2>2. 1 .. k # {} /\ Max(1 .. k) = k /\ (1 .. k) \ {k} = 1 .. k - 1
    <3>1. 1 .. k - 1 + 1 # {} /\ Max(1 .. k - 1 + 1) = k - 1 + 1 /\ (1 .. k - 1 + 1) \ {k - 1 + 1} = 1 .. k - 1
      BY <2>1, MaxOfSegment, Zenon
    <3> QED
      BY <2>1, <3>1
  <2>3. iter[1 .. k] = WhereUpTo(iter, field, values, items, 1 .. k)
    <3>1. 1 .. k \in SUBSET (1 .. n)
      BY <1>1, <2>1
    <3> HIDE DEF n
    <3> QED
      BY <1>2, <3>1
  <2>4. iter[1 .. k] = WhereStep(iter[1 .. k - 1], items[k], field, values)
    BY <2>2, <2>3, Zenon DEF WhereUpTo
  <2>5. it[k] = iter[1 .. k] /\ it[k - 1] = iter[1 .. k - 1]
    BY <2>1
  <2> HIDE DEF it
  <2> QED
    BY <2>4, <2>5
<1>6. it[n] = iter[1 .. n]
  BY <1>1
<1> HIDE DEF it
<1> QED
  BY <1>3, <1>4, <1>5, <1>6

LEMMA WhereEmpty ==
  ASSUME NEW field, NEW values
  PROVE  Where(<<>>, field, values) = <<>>
BY EmptyFacts, WhereSteps

LEMMA WhereAppend ==
  ASSUME NEW items, IsSeq(items), NEW e, NEW field, NEW values
  PROVE  Where(Append(items, e), field, values) = WhereStep(Where(items, field, values), e, field, values)
<1> DEFINE more == Append(items, e)
           n == Len(items)
<1>1. n \in Nat /\ IsSeq(more) /\ Len(more) = n + 1 /\ more[n + 1] = e /\ \A k \in 1 .. n : more[k] = items[k]
  BY AppendFacts, SeqFacts
<1> HIDE DEF more
<1>2. PICK it : /\ it[0] = <<>> /\ \A k \in 1 .. n : it[k] = WhereStep(it[k - 1], items[k], field, values)
                /\ Where(items, field, values) = it[n]
  BY WhereSteps
<1> HIDE DEF n
<1>3. PICK on : /\ on[0] = <<>> /\ \A k \in 1 .. n + 1 : on[k] = WhereStep(on[k - 1], more[k], field, values)
                /\ Where(more, field, values) = on[n + 1]
  <2>1. \E on : /\ on[0] = <<>> /\ \A k \in 1 .. Len(more) : on[k] = WhereStep(on[k - 1], more[k], field, values)
                /\ Where(more, field, values) = on[Len(more)]
    <3>1. IsSeq(more)
      BY <1>1
    <3> QED
      BY <3>1, WhereSteps
  <2>2. Len(more) = n + 1
    BY <1>1
  <2> QED
    BY <2>1, <2>2, Zenon
<1> DEFINE bad == {k \in 0 .. n : on[k] # it[k]}
<1>4. ASSUME bad # {} PROVE FALSE
  <2>0. bad \subseteq Nat
    BY <1>1
  <2>1. PICK k \in bad : \A x \in bad : k <= x
    BY <1>4, <2>0, LeastNatural, Zenon
  <2>2. k # 0
    BY <1>2, <1>3, <2>1
  <2>3. k - 1 \in 0 .. n /\ k \in 1 .. n /\ k \in 1 .. n + 1 /\ ~(k <= k - 1)
    BY <1>1, <2>1, <2>2
  <2>4. on[k - 1] = it[k - 1]
    BY <2>1, <2>3
  <2>5. on[k] = it[k]
    BY <1>1, <1>2, <1>3, <2>3, <2>4
  <2> QED
    BY <2>1, <2>5
<1>5. on[n] = it[n]
  BY <1>1, <1>4
<1>6. n + 1 \in 1 .. n + 1 /\ n + 1 - 1 = n
  BY <1>1
<1>7. on[n + 1] = WhereStep(on[n], more[n + 1], field, values)
  <2>1. ASSUME NEW k \in 1 .. n + 1, k = n + 1 PROVE on[k] = WhereStep(on[n], more[k], field, values)
    <3>1. k - 1 = n
      BY <1>1, <2>1
    <3>2. on[k] = WhereStep(on[k - 1], more[k], field, values)
      BY <1>3
    <3> QED
      BY <3>1, <3>2
  <2> QED
    BY <1>6, <2>1
<1> QED
  BY <1>1, <1>2, <1>3, <1>5, <1>7 DEF more

LEMMA WhereIs ==
  ASSUME NEW items, IsSeq(items), NEW field, NEW values
  PROVE  /\ IsSeq(Where(items, field, values))
         /\ Range(Where(items, field, values)) = {e \in Range(items) : e[field] \in values}
         /\ Distinct(items) => Distinct(Where(items, field, values))
<1> DEFINE n == Len(items)
           to(k) == SubSeq(items, 1, k)
           W(k) == Where(to(k), field, values)
           good(k) == /\ IsSeq(W(k)) /\ Range(W(k)) = {e \in Range(to(k)) : e[field] \in values}
                      /\ Distinct(items) => Distinct(W(k))
           bad == {k \in 0 .. n : ~ good(k)}
<1>1. n \in Nat
  BY SeqFacts
<1>2. good(0)
  <2>1. to(0) = <<>>
    BY PrefixFacts
  <2>2. W(0) = <<>>
    BY <2>1, WhereEmpty, Zenon
  <2> HIDE DEF to, W
  <2> QED
    BY <2>1, <2>2, EmptyFacts
<1>3. ASSUME NEW k \in 1 .. n, good(k - 1) PROVE good(k)
  <2>1. k - 1 \in 0 .. n /\ k \in 0 .. n
    BY <1>1
  <2>2. IsSeq(to(k - 1)) /\ to(k) = Append(to(k - 1), items[k]) /\ Len(to(k - 1)) = k - 1
        /\ \A i \in 1 .. k - 1 : to(k - 1)[i] = items[i]
    BY <2>1, PrefixFacts
  <2> HIDE DEF to
  <2>3. W(k) = WhereStep(W(k - 1), items[k], field, values)
    BY <2>2, WhereAppend
  <2>4. Range(to(k)) = Range(to(k - 1)) \cup {items[k]}
    BY <2>2, AppendFacts
  <2>5. Distinct(items) => items[k] \notin Range(to(k - 1))
    <3> SUFFICES ASSUME Distinct(items), items[k] \in Range(to(k - 1)) PROVE FALSE
      OBVIOUS
    <3>1. PICK i \in 1 .. k - 1 : to(k - 1)[i] = items[k]
      BY <2>2, SeqFacts
    <3>2. items[i] = items[k] /\ i \in 1 .. n /\ i # k
      BY <1>1, <2>2, <3>1
    <3> QED
      BY <3>2 DEF Distinct
  <2>6. CASE items[k][field] \notin values
    <3>1. W(k) = W(k - 1)
      BY <2>3, <2>6 DEF WhereStep
    <3> HIDE DEF W
    <3> QED
      BY <1>3, <2>4, <2>6, <3>1
  <2>7. CASE items[k][field] \in values
    <3>1. W(k) = Append(W(k - 1), items[k])
      BY <2>3, <2>7 DEF WhereStep
    <3>2. IsSeq(W(k - 1)) /\ Range(W(k - 1)) = {e \in Range(to(k - 1)) : e[field] \in values}
          /\ (Distinct(items) => Distinct(W(k - 1)))
      BY <1>3
    <3> HIDE DEF W
    <3>3. IsSeq(W(k)) /\ Range(W(k)) = Range(W(k - 1)) \cup {items[k]} /\ Len(W(k)) = Len(W(k - 1)) + 1
          /\ W(k)[Len(W(k - 1)) + 1] = items[k] /\ \A i \in 1 .. Len(W(k - 1)) : W(k)[i] = W(k - 1)[i]
      BY <3>1, <3>2, AppendFacts
    <3>4. Range(W(k)) = {e \in Range(to(k)) : e[field] \in values}
      BY <2>4, <2>7, <3>2, <3>3
    <3>5. Distinct(items) => Distinct(W(k))
      <4> SUFFICES ASSUME Distinct(items), NEW i \in 1 .. Len(W(k)), NEW j \in 1 .. Len(W(k)), W(k)[i] = W(k)[j]
                   PROVE  i = j
        BY DEF Distinct
      <4> DEFINE l == Len(W(k - 1))
      <4>1. l \in Nat /\ \A h \in 1 .. l : W(k - 1)[h] \in Range(W(k - 1))
        BY <3>2, SeqFacts
      <4>2. items[k] \notin Range(W(k - 1))
        BY <2>5, <3>2
      <4>3. CASE i \in 1 .. l /\ j \in 1 .. l
        BY <3>2, <3>3, <4>3 DEF Distinct
      <4>4. CASE i \in 1 .. l /\ j = l + 1
        BY <3>3, <4>1, <4>2, <4>4
      <4>5. CASE i = l + 1 /\ j \in 1 .. l
        BY <3>3, <4>1, <4>2, <4>5
      <4> QED
        BY <3>3, <4>1, <4>3, <4>4, <4>5
    <3> QED
      BY <3>3, <3>4, <3>5
  <2> QED
    BY <2>6, <2>7
<1> HIDE DEF good
<1>4. ASSUME bad # {} PROVE FALSE
  <2>0. bad \subseteq Nat
    BY <1>1
  <2>1. PICK k \in bad : \A x \in bad : k <= x
    BY <1>4, <2>0, LeastNatural, Zenon
  <2>2. k # 0
    BY <1>2, <2>1
  <2>3. k - 1 \in 0 .. n /\ k \in 1 .. n /\ ~(k <= k - 1)
    BY <1>1, <2>1, <2>2
  <2> QED
    BY <1>3, <2>1, <2>3
<1>5. good(n)
  BY <1>1, <1>4
<1>6. to(n) = items
  BY PrefixFacts
<1> QED
  BY <1>5, <1>6, Zenon DEF good

LEMMA WhereConcat ==
  ASSUME NEW s, NEW t, IsSeq(s), IsSeq(t), NEW field, NEW values
  PROVE  Where(s \o t, field, values) = Where(s, field, values) \o Where(t, field, values)
<1> DEFINE n == Len(t)
           to(k) == SubSeq(t, 1, k)
           W(u) == Where(u, field, values)
           good(k) == W(s \o to(k)) = W(s) \o W(to(k))
           bad == {k \in 0 .. n : ~ good(k)}
<1>1. n \in Nat
  BY SeqFacts
<1>2. good(0)
  <2>1. to(0) = <<>>
    BY PrefixFacts
  <2>2. s \o to(0) = s
    BY <2>1, ConcatEmpty, Zenon
  <2>3. W(to(0)) = <<>>
    BY <2>1, WhereEmpty, Zenon
  <2>4. IsSeq(W(s))
    BY WhereIs
  <2>5. W(s) \o W(to(0)) = W(s)
    BY <2>3, <2>4, ConcatEmpty, Zenon
  <2> QED
    BY <2>2, <2>5, Zenon
<1>3. ASSUME NEW k \in 1 .. n, good(k - 1) PROVE good(k)
  <2>1. k - 1 \in 0 .. n /\ k \in 0 .. n
    BY <1>1
  <2>2. IsSeq(to(k - 1)) /\ to(k) = Append(to(k - 1), t[k])
    BY <2>1, PrefixFacts
  <2> HIDE DEF to
  <2>3. s \o to(k) = Append(s \o to(k - 1), t[k]) /\ IsSeq(s \o to(k - 1))
    BY <2>2, ConcatAppend, ConcatFacts
  <2>4. W(s \o to(k)) = WhereStep(W(s \o to(k - 1)), t[k], field, values)
    BY <2>3, WhereAppend
  <2>5. W(to(k)) = WhereStep(W(to(k - 1)), t[k], field, values) /\ IsSeq(W(to(k - 1))) /\ IsSeq(W(s))
    BY <2>2, WhereAppend, WhereIs
  <2> HIDE DEF W
  <2>6. CASE t[k][field] \in values
    <3>1. W(s \o to(k)) = Append(W(s) \o W(to(k - 1)), t[k]) /\ W(to(k)) = Append(W(to(k - 1)), t[k])
      BY <1>3, <2>4, <2>5, <2>6, Zenon DEF WhereStep
    <3>2. W(s) \o Append(W(to(k - 1)), t[k]) = Append(W(s) \o W(to(k - 1)), t[k])
      BY <2>5, ConcatAppend
    <3> QED
      BY <3>1, <3>2, Zenon
  <2>7. CASE t[k][field] \notin values
    BY <1>3, <2>4, <2>5, <2>7 DEF WhereStep
  <2> QED
    BY <2>6, <2>7
<1> HIDE DEF good
<1>4. ASSUME bad # {} PROVE FALSE
  <2>0. bad \subseteq Nat
    BY <1>1
  <2>1. PICK k \in bad : \A x \in bad : k <= x
    BY <1>4, <2>0, LeastNatural, Zenon
  <2>2. k # 0
    BY <1>2, <2>1
  <2>3. k - 1 \in 0 .. n /\ k \in 1 .. n /\ ~(k <= k - 1)
    BY <1>1, <2>1, <2>2
  <2> QED
    BY <1>3, <2>1, <2>3
<1>5. good(n)
  BY <1>1, <1>4
<1>6. to(n) = t
  BY PrefixFacts
<1> QED
  BY <1>5, <1>6, Zenon DEF good

(* All of the entries have one of the values, or none.                     *)
LEMMA WhereAllNone ==
  ASSUME NEW t, IsSeq(t), NEW field, NEW values
  PROVE  /\ (\A e \in Range(t) : e[field] \in values) => Where(t, field, values) = t
         /\ (\A e \in Range(t) : e[field] \notin values) => Where(t, field, values) = <<>>
<1> DEFINE n == Len(t)
           to(k) == SubSeq(t, 1, k)
           W(k) == Where(to(k), field, values)
           good(k) == /\ (\A e \in Range(t) : e[field] \in values) => W(k) = to(k)
                      /\ (\A e \in Range(t) : e[field] \notin values) => W(k) = <<>>
           bad == {k \in 0 .. n : ~ good(k)}
<1>1. n \in Nat /\ \A k \in 1 .. n : t[k] \in Range(t)
  BY SeqFacts
<1>2. good(0)
  BY PrefixFacts, WhereEmpty, Zenon
<1>3. ASSUME NEW k \in 1 .. n, good(k - 1) PROVE good(k)
  <2>1. k - 1 \in 0 .. n /\ k \in 0 .. n
    BY <1>1
  <2>2. IsSeq(to(k - 1)) /\ to(k) = Append(to(k - 1), t[k])
    BY <2>1, PrefixFacts
  <2> HIDE DEF to
  <2>3. W(k) = WhereStep(W(k - 1), t[k], field, values)
    BY <2>2, WhereAppend
  <2> HIDE DEF W
  <2> QED
    BY <1>1, <1>3, <2>2, <2>3 DEF WhereStep
<1> HIDE DEF good
<1>4. ASSUME bad # {} PROVE FALSE
  <2>0. bad \subseteq Nat
    BY <1>1
  <2>1. PICK k \in bad : \A x \in bad : k <= x
    BY <1>4, <2>0, LeastNatural, Zenon
  <2>2. k # 0
    BY <1>2, <2>1
  <2>3. k - 1 \in 0 .. n /\ k \in 1 .. n /\ ~(k <= k - 1)
    BY <1>1, <2>1, <2>2
  <2> QED
    BY <1>3, <2>1, <2>3
<1>5. good(n)
  BY <1>1, <1>4
<1>6. to(n) = t
  BY PrefixFacts
<1> QED
  BY <1>5, <1>6, Zenon DEF good
--------------------------------------------------------------------------------
(***************************************************************************)
(* The sequences of a sequence, one after the other.                       *)
(***************************************************************************)
(* What holds at 0 and is passed on holds up to n.                         *)
LEMMA Upward ==
  ASSUME NEW n \in Nat, NEW S, 0 \in S, \A k \in 1 .. n : k - 1 \in S => k \in S
  PROVE  \A k \in 0 .. n : k \in S
<1> DEFINE bad == {k \in 0 .. n : k \notin S}
<1>1. ASSUME bad # {} PROVE FALSE
  <2>0. bad \subseteq Nat
    OBVIOUS
  <2>1. PICK k \in bad : \A x \in bad : k <= x
    BY <1>1, <2>0, LeastNatural, Zenon
  <2>2. k # 0 /\ k \in Nat /\ k \in 0 .. n /\ k \notin S
    BY <2>1
  <2>3. k - 1 \in 0 .. n /\ k \in 1 .. n /\ ~(k <= k - 1)
    BY <2>2
  <2>4. k - 1 \in S
    BY <2>1, <2>3
  <2> QED
    BY <2>2, <2>3, <2>4
<1> QED
  BY <1>1

IsSeqs(s) == IsSeq(s) /\ \A i \in 1 .. Len(s) : IsSeq(s[i])

LEMMA AppendSeqs ==
  ASSUME NEW s, IsSeqs(s), NEW t, IsSeq(t)
  PROVE  IsSeqs(Append(s, t))
<1> DEFINE more == Append(s, t)
<1>1. /\ IsSeq(more) /\ Len(more) = Len(s) + 1 /\ more[Len(s) + 1] = t
      /\ \A i \in 1 .. Len(s) : more[i] = s[i]
  BY AppendFacts DEF IsSeqs
<1>2. Len(s) \in Nat
  BY SeqFacts DEF IsSeqs
<1> HIDE DEF more
<1>3. \A i \in 1 .. Len(s) + 1 : i = Len(s) + 1 \/ i \in 1 .. Len(s)
  BY <1>2
<1>4. \A i \in 1 .. Len(more) : IsSeq(more[i])
  BY <1>1, <1>3 DEF IsSeqs
<1>5. IsSeqs(more)
  BY <1>1, <1>4 DEF IsSeqs
<1> QED
  BY <1>5 DEF more

LEMMA PrefixSeqs ==
  ASSUME NEW s, IsSeqs(s), NEW k \in 0 .. Len(s)
  PROVE  IsSeqs(SubSeq(s, 1, k))
<1> DEFINE to == SubSeq(s, 1, k)
<1>1. IsSeq(to) /\ Len(to) = k /\ \A i \in 1 .. k : to[i] = s[i]
  BY PrefixFacts DEF IsSeqs
<1>2. \A i \in 1 .. k : i \in 1 .. Len(s)
  BY SeqFacts DEF IsSeqs
<1> HIDE DEF to
<1>3. IsSeqs(to)
  BY <1>1, <1>2 DEF IsSeqs
<1> QED
  BY <1>3 DEF to

LEMMA ConcatSeqs ==
  ASSUME NEW s, NEW t, IsSeqs(s), IsSeqs(t)
  PROVE  IsSeqs(s \o t)
<1> DEFINE u == s \o t
<1>1. /\ IsSeq(u) /\ Len(u) = Len(s) + Len(t) /\ \A i \in 1 .. Len(s) : u[i] = s[i]
      /\ \A i \in 1 .. Len(t) : u[Len(s) + i] = t[i]
  BY ConcatFacts DEF IsSeqs
<1>2. Len(s) \in Nat /\ Len(t) \in Nat
  BY SeqFacts DEF IsSeqs
<1> HIDE DEF u
<1>3. ASSUME NEW i \in 1 .. Len(u), i \notin 1 .. Len(s) PROVE IsSeq(u[i])
  <2>1. i - Len(s) \in 1 .. Len(t) /\ Len(s) + (i - Len(s)) = i
    BY <1>1, <1>2, <1>3
  <2>2. u[i] = t[i - Len(s)]
    BY <1>1, <2>1
  <2> QED
    BY <2>1, <2>2 DEF IsSeqs
<1>4. \A i \in 1 .. Len(u) : IsSeq(u[i])
  BY <1>1, <1>3 DEF IsSeqs
<1>5. IsSeqs(u)
  BY <1>1, <1>4 DEF IsSeqs
<1> QED
  BY <1>5 DEF u

FlatUpTo(g, seqs, i) == IF i = 1 THEN seqs[i] ELSE g[i - 1] \o seqs[i]
LEMMA FlatExists ==
  ASSUME NEW seqs, NEW n \in Nat
  PROVE  \E g : g = [i \in 1 .. n |-> FlatUpTo(g, seqs, i)]
<1> DEFINE Has(k) == \E g : g = [i \in 1 .. k |-> FlatUpTo(g, seqs, i)]
           S == {k \in 0 .. n : Has(k)}
<1>1. Has(0)
  <2> DEFINE g == [i \in 1 .. 0 |-> <<>>]
  <2>1. g = [i \in 1 .. 0 |-> FlatUpTo(g, seqs, i)]
    OBVIOUS
  <2> QED
    BY <2>1
<1>2. ASSUME NEW k \in 1 .. n, Has(k - 1) PROVE Has(k)
  <2>1. PICK g : g = [i \in 1 .. k - 1 |-> FlatUpTo(g, seqs, i)]
    BY <1>2
  <2> DEFINE h == [i \in 1 .. k |-> FlatUpTo(g, seqs, i)]
  <2>2. ASSUME NEW i \in 1 .. k PROVE FlatUpTo(h, seqs, i) = FlatUpTo(g, seqs, i)
    <3>1. CASE i = 1
      BY <3>1 DEF FlatUpTo
    <3>2. CASE i # 1
      <4>1. i - 1 \in 1 .. k - 1 /\ i - 1 \in 1 .. k
        BY <3>2
      <4>2. h[i - 1] = FlatUpTo(g, seqs, i - 1)
        BY <4>1
      <4>3. g[i - 1] = FlatUpTo(g, seqs, i - 1)
        BY <2>1, <4>1
      <4> HIDE DEF h
      <4> QED
        BY <3>2, <4>2, <4>3 DEF FlatUpTo
    <3> QED
      BY <3>1, <3>2
  <2>3. h = [i \in 1 .. k |-> FlatUpTo(h, seqs, i)]
    BY <2>2
  <2> QED
    BY <2>3, Zenon
<1> HIDE DEF Has
<1>3. 0 \in S /\ \A k \in 1 .. n : k - 1 \in S => k \in S
  BY <1>1, <1>2
<1> HIDE DEF S
<1>4. n \in S
  BY <1>3, Upward
<1>5. Has(n)
  BY <1>4 DEF S
<1> QED
  BY <1>5 DEF Has

LEMMA FlatSteps ==
  ASSUME NEW seqs, IsSeqs(seqs)
  PROVE  \E it : /\ it[0] = <<>>
                 /\ \A k \in 1 .. Len(seqs) : it[k] = it[k - 1] \o seqs[k]
                 /\ FlattenSeq(seqs) = it[Len(seqs)]
<1> DEFINE n == Len(seqs)
           iter == CHOOSE g : g = [i \in 1 .. n |-> FlatUpTo(g, seqs, i)]
           it == [k \in 0 .. n |-> IF k = 0 THEN <<>> ELSE iter[k]]
<1>1. n \in Nat /\ (seqs = <<>> <=> n = 0) /\ \A k \in 1 .. n : IsSeq(seqs[k])
  BY SeqFacts DEF IsSeqs
<1>2. iter = [i \in 1 .. n |-> FlatUpTo(iter, seqs, i)]
  BY <1>1, FlatExists
<1>3. FlattenSeq(seqs) = IF n = 0 THEN seqs ELSE iter[n]
  BY Zenon DEF FlattenSeq, FlatUpTo
<1> HIDE DEF iter
<1>4. it[0] = <<>>
  BY <1>1
<1>5. ASSUME NEW k \in 1 .. n PROVE it[k] = it[k - 1] \o seqs[k]
  <2>1. k - 1 \in 0 .. n /\ k \in 0 .. n /\ k # 0 /\ (k = 1 <=> k - 1 = 0)
    BY <1>1
  <2>2. iter[k] = FlatUpTo(iter, seqs, k)
    <3> HIDE DEF n
    <3> QED
      BY <1>2, Zenon
  <2>3. it[k] = iter[k] /\ it[k - 1] = IF k - 1 = 0 THEN <<>> ELSE iter[k - 1]
    BY <2>1
  <2> HIDE DEF it
  <2>4. <<>> \o seqs[k] = seqs[k]
    BY <1>1, ConcatEmpty
  <2> QED
    BY <2>1, <2>2, <2>3, <2>4, Zenon DEF FlatUpTo
<1>6. FlattenSeq(seqs) = it[n]
  BY <1>1, <1>3
<1> HIDE DEF it
<1> QED
  BY <1>4, <1>5, <1>6, Zenon

LEMMA FlatEmpty == FlattenSeq(<<>>) = <<>> /\ IsSeqs(<<>>)
<1>1. IsSeqs(<<>>)
  <2>1. 1 .. 0 = {}
    OBVIOUS
  <2> QED
    BY <2>1, EmptyFacts DEF IsSeqs
<1> QED
  BY <1>1, EmptyFacts, FlatSteps, Zenon

LEMMA FlatAppend ==
  ASSUME NEW seqs, IsSeqs(seqs), NEW t, IsSeq(t)
  PROVE  FlattenSeq(Append(seqs, t)) = FlattenSeq(seqs) \o t
<1> DEFINE more == Append(seqs, t)
           n == Len(seqs)
<1>1. n \in Nat /\ Len(more) = n + 1 /\ more[n + 1] = t /\ \A k \in 1 .. n : more[k] = seqs[k]
  BY AppendFacts, SeqFacts DEF IsSeqs
<1>2. IsSeqs(more)
  BY AppendSeqs
<1> HIDE DEF more
<1>3. PICK it : /\ it[0] = <<>> /\ \A k \in 1 .. n : it[k] = it[k - 1] \o seqs[k]
                /\ FlattenSeq(seqs) = it[n]
  BY FlatSteps, Zenon
<1> HIDE DEF n
<1>4. PICK on : /\ on[0] = <<>> /\ \A k \in 1 .. n + 1 : on[k] = on[k - 1] \o more[k]
                /\ FlattenSeq(more) = on[n + 1]
  <2>1. PICK on : /\ on[0] = <<>> /\ \A k \in 1 .. Len(more) : on[k] = on[k - 1] \o more[k]
                  /\ FlattenSeq(more) = on[Len(more)]
    BY <1>2, FlatSteps, Zenon
  <2> QED
    BY <1>1, <2>1, Zenon
<1> DEFINE S == {k \in 0 .. n : on[k] = it[k]}
<1>5. \A k \in 1 .. n : k - 1 \in S => k \in S
  <2> SUFFICES ASSUME NEW k \in 1 .. n, k - 1 \in S PROVE k \in S
    OBVIOUS
  <2>1. k \in 0 .. n /\ k \in 1 .. n + 1
    BY <1>1
  <2>2. on[k - 1] = it[k - 1]
    OBVIOUS
  <2>3. on[k] = on[k - 1] \o seqs[k]
    BY <1>1, <1>4, <2>1, Zenon
  <2>4. it[k] = it[k - 1] \o seqs[k]
    BY <1>3, Zenon
  <2> QED
    BY <2>1, <2>2, <2>3, <2>4, Zenon
<1>6. 0 \in S
  BY <1>1, <1>3, <1>4
<1> HIDE DEF S
<1>7. n \in S
  <2>1. n \in Nat /\ n \in 0 .. n
    BY <1>1
  <2>2. \A k \in 0 .. n : k \in S
    BY <1>5, <1>6, <2>1, Upward
  <2> QED
    BY <2>1, <2>2
<1>8. on[n] = it[n]
  BY <1>7 DEF S
<1>9. on[n + 1] = on[n] \o more[n + 1]
  <2>1. ASSUME NEW k \in 1 .. n + 1, k = n + 1 PROVE on[k] = on[n] \o more[k]
    <3>1. k - 1 = n
      BY <1>1, <2>1
    <3>2. on[k] = on[k - 1] \o more[k]
      BY <1>4, Zenon
    <3> QED
      BY <3>1, <3>2, Zenon
  <2>2. n + 1 \in 1 .. n + 1
    BY <1>1
  <2> QED
    BY <2>1, <2>2, Zenon
<1> QED
  BY <1>1, <1>3, <1>4, <1>8, <1>9 DEF more

(* One more of them.                                                       *)
LEMMA FlatPrefix ==
  ASSUME NEW seqs, IsSeqs(seqs), NEW k \in 1 .. Len(seqs)
  PROVE  /\ k - 1 \in 0 .. Len(seqs) /\ k \in 0 .. Len(seqs) /\ IsSeqs(SubSeq(seqs, 1, k - 1))
         /\ SubSeq(seqs, 1, k) = Append(SubSeq(seqs, 1, k - 1), seqs[k]) /\ IsSeq(seqs[k])
         /\ FlattenSeq(SubSeq(seqs, 1, k)) = FlattenSeq(SubSeq(seqs, 1, k - 1)) \o seqs[k]
<1>1. Len(seqs) \in Nat /\ IsSeq(seqs) /\ IsSeq(seqs[k])
  BY SeqFacts DEF IsSeqs
<1>2. k - 1 \in 0 .. Len(seqs) /\ k \in 0 .. Len(seqs)
  BY <1>1
<1>3. IsSeqs(SubSeq(seqs, 1, k - 1)) /\ SubSeq(seqs, 1, k) = Append(SubSeq(seqs, 1, k - 1), seqs[k])
  BY <1>1, <1>2, PrefixFacts, PrefixSeqs, Zenon
<1> QED
  BY <1>1, <1>2, <1>3, FlatAppend, Zenon

LEMMA FlatIs ==
  ASSUME NEW seqs, IsSeqs(seqs)
  PROVE  /\ IsSeq(FlattenSeq(seqs))
         /\ Range(FlattenSeq(seqs)) = UNION {Range(seqs[i]) : i \in 1 .. Len(seqs)}
         /\ (\A i \in 1 .. Len(seqs) : seqs[i] = <<>>) => FlattenSeq(seqs) = <<>>
<1> DEFINE n == Len(seqs)
           F(k) == FlattenSeq(SubSeq(seqs, 1, k))
           good(k) == /\ IsSeq(F(k)) /\ Range(F(k)) = UNION {Range(seqs[i]) : i \in 1 .. k}
                      /\ (\A i \in 1 .. n : seqs[i] = <<>>) => F(k) = <<>>
           S == {k \in 0 .. n : good(k)}
<1>1. n \in Nat /\ IsSeq(seqs)
  BY SeqFacts DEF IsSeqs
<1>2. good(0)
  <2>1. F(0) = <<>>
    BY <1>1, PrefixFacts, FlatEmpty, Zenon
  <2>2. 1 .. 0 = {}
    OBVIOUS
  <2> HIDE DEF F
  <2> QED
    BY <2>1, <2>2, EmptyFacts
<1>3. ASSUME NEW k \in 1 .. n, good(k - 1) PROVE good(k)
  <2>1. F(k) = F(k - 1) \o seqs[k] /\ IsSeq(seqs[k])
    BY FlatPrefix, Zenon
  <2>2. 1 .. k = (1 .. k - 1) \cup {k}
    BY <1>1
  <2> HIDE DEF F, n
  <2>3. IsSeq(F(k)) /\ Range(F(k)) = Range(F(k - 1)) \cup Range(seqs[k])
    BY <1>3, <2>1, ConcatFacts
  <2>4. Range(F(k)) = UNION {Range(seqs[i]) : i \in 1 .. k}
    BY <1>3, <2>2, <2>3
  <2>5. (\A i \in 1 .. n : seqs[i] = <<>>) => F(k) = <<>>
    BY <1>3, <2>1, EmptyFacts, ConcatEmpty
  <2> QED
    BY <2>3, <2>4, <2>5
<1> HIDE DEF good
<1>4. 0 \in S /\ \A k \in 1 .. n : k - 1 \in S => k \in S
  BY <1>1, <1>2, <1>3
<1>5. F(n) = FlattenSeq(seqs)
  BY <1>1, PrefixFacts, Zenon
<1> HIDE DEF S, n
<1>6. good(n)
  <2>1. n \in S
    BY <1>1, <1>4, Upward
  <2> QED
    BY <2>1 DEF S
<1> QED
  BY <1>5, <1>6 DEF good, n

LEMMA FlatConcat ==
  ASSUME NEW s, NEW t, IsSeqs(s), IsSeqs(t)
  PROVE  FlattenSeq(s \o t) = FlattenSeq(s) \o FlattenSeq(t)
<1> DEFINE n == Len(t)
           to(k) == SubSeq(t, 1, k)
           F(u) == FlattenSeq(u)
           good(k) == F(s \o to(k)) = F(s) \o F(to(k))
           S == {k \in 0 .. n : good(k)}
<1>1. n \in Nat /\ IsSeq(t) /\ IsSeq(s) /\ IsSeq(F(s))
  BY SeqFacts, FlatIs DEF IsSeqs
<1>2. good(0)
  <2>1. to(0) = <<>>
    BY <1>1, PrefixFacts
  <2>2. s \o to(0) = s
    BY <1>1, <2>1, ConcatEmpty, Zenon
  <2>3. F(to(0)) = <<>>
    BY <2>1, FlatEmpty, Zenon
  <2>4. F(s) \o F(to(0)) = F(s)
    BY <1>1, <2>3, ConcatEmpty, Zenon
  <2> QED
    BY <2>2, <2>4, Zenon
<1>3. ASSUME NEW k \in 1 .. n, good(k - 1) PROVE good(k)
  <2>1. IsSeqs(to(k - 1)) /\ to(k) = Append(to(k - 1), t[k]) /\ IsSeq(t[k])
    BY FlatPrefix, Zenon
  <2>0. F(to(k)) = F(to(k - 1)) \o t[k]
    BY FlatPrefix, Zenon
  <2> HIDE DEF to
  <2>2. s \o to(k) = Append(s \o to(k - 1), t[k]) /\ IsSeqs(s \o to(k - 1))
    BY <1>1, <2>1, ConcatAppend, ConcatSeqs DEF IsSeqs
  <2>3. F(s \o to(k)) = F(s \o to(k - 1)) \o t[k]
    BY <2>1, <2>2, FlatAppend, Zenon
  <2>4. IsSeq(F(to(k - 1)))
    BY <2>1, FlatIs
  <2>5. (F(s) \o F(to(k - 1))) \o t[k] = F(s) \o (F(to(k - 1)) \o t[k])
    <3> DEFINE a == F(s)
               b == F(to(k - 1))
               c == t[k]
    <3>1. IsSeq(a) /\ IsSeq(b) /\ IsSeq(c)
      BY <1>1, <2>1, <2>4
    <3> HIDE DEF a, b, c
    <3>2. (a \o b) \o c = a \o (b \o c)
      BY <3>1, ConcatAssoc
    <3> QED
      BY <3>2, Zenon DEF a, b, c
  <2> HIDE DEF F
  <2> QED
    BY <1>3, <2>0, <2>3, <2>5, Zenon
<1> HIDE DEF good
<1>4. 0 \in S /\ \A k \in 1 .. n : k - 1 \in S => k \in S
  BY <1>1, <1>2, <1>3
<1>5. to(n) = t
  BY <1>1, PrefixFacts
<1> HIDE DEF S, n
<1>6. good(n)
  <2>1. n \in S
    BY <1>1, <1>4, Upward
  <2> QED
    BY <2>1 DEF S
<1> QED
  BY <1>5, <1>6, Zenon DEF good

--------------------------------------------------------------------------------
(***************************************************************************)
(* Sequences without repetition, and the times of their entries.           *)
(***************************************************************************)
LEMMA Glue ==
  ASSUME NEW u, NEW s, NEW t, IsSeq(u), IsSeq(s), IsSeq(t), Len(u) = Len(s) + Len(t),
         \A i \in 1 .. Len(s) : u[i] = s[i], \A i \in 1 .. Len(t) : u[Len(s) + i] = t[i]
  PROVE  u = s \o t
<1> DEFINE v == s \o t
<1>1. /\ IsSeq(v) /\ Len(v) = Len(s) + Len(t) /\ \A i \in 1 .. Len(s) : v[i] = s[i]
      /\ \A i \in 1 .. Len(t) : v[Len(s) + i] = t[i]
  BY ConcatFacts
<1>2. Len(s) \in Nat /\ Len(t) \in Nat
  BY SeqFacts
<1> HIDE DEF v
<1>3. ASSUME NEW i \in 1 .. Len(u), i \notin 1 .. Len(s) PROVE u[i] = v[i]
  <2>1. i - Len(s) \in 1 .. Len(t) /\ Len(s) + (i - Len(s)) = i
    BY <1>2, <1>3
  <2>2. u[Len(s) + (i - Len(s))] = t[i - Len(s)] /\ v[Len(s) + (i - Len(s))] = t[i - Len(s)]
    BY <1>1, <2>1
  <2> QED
    BY <2>1, <2>2
<1>4. \A i \in 1 .. Len(u) : u[i] = v[i]
  BY <1>1, <1>3
<1>5. Len(u) = Len(v)
  BY <1>1
<1>6. u = v
  BY <1>1, <1>4, <1>5, SameElements
<1> QED
  BY <1>6 DEF v

LEMMA DistinctCount ==
  ASSUME NEW s, IsSeq(s), Distinct(s)
  PROVE  IsFiniteSet(Range(s)) /\ Cardinality(Range(s)) = Len(s)
<1>1. /\ Len(s) \in Nat /\ s = [i \in 1 .. Len(s) |-> s[i]] /\ \A i \in 1 .. Len(s) : s[i] \in Range(s)
      /\ \A x \in Range(s) : \E i \in 1 .. Len(s) : s[i] = x
  BY SeqFacts
<1>2. s \in [1 .. Len(s) -> Range(s)]
  BY <1>1
<1>3. \A i, j \in 1 .. Len(s) : s[i] = s[j] => i = j
  BY DEF Distinct
<1>4. s \in Bijection(1 .. Len(s), Range(s))
  BY <1>1, <1>2, <1>3, Fun_IsBij
<1>5. ExistsBijection(1 .. Len(s), Range(s))
  BY <1>4 DEF ExistsBijection
<1> QED
  BY <1>1, <1>5, FS_NatBijection, FS_CountingElements

LEMMA DistinctAppend ==
  ASSUME NEW s, IsSeq(s), Distinct(s), NEW e, e \notin Range(s)
  PROVE  Distinct(Append(s, e))
<1> DEFINE t == Append(s, e)
           l == Len(s)
<1>1. Len(t) = l + 1 /\ t[l + 1] = e /\ \A i \in 1 .. l : t[i] = s[i]
  BY AppendFacts
<1>2. l \in Nat /\ \A i \in 1 .. l : s[i] \in Range(s)
  BY SeqFacts
<1>3. \A i, j \in 1 .. l : s[i] = s[j] => i = j
  BY DEF Distinct
<1> HIDE DEF t, l
<1>4. \A i \in 1 .. l + 1 : i \in 1 .. l \/ i = l + 1
  BY <1>2
<1>5. \A i, j \in 1 .. Len(t) : t[i] = t[j] => i = j
  <2> SUFFICES ASSUME NEW i \in 1 .. Len(t), NEW j \in 1 .. Len(t), t[i] = t[j] PROVE i = j
    OBVIOUS
  <2>1. CASE i \in 1 .. l /\ j \in 1 .. l
    BY <1>1, <1>3, <2>1
  <2>2. CASE i \in 1 .. l /\ j = l + 1
    BY <1>1, <1>2, <2>2
  <2>3. CASE i = l + 1 /\ j \in 1 .. l
    BY <1>1, <1>2, <2>3
  <2> QED
    BY <1>1, <1>4, <2>1, <2>2, <2>3
<1>6. Distinct(t)
  BY <1>5 DEF Distinct
<1> QED
  BY <1>6 DEF t

LEMMA DistinctConcat ==
  ASSUME NEW s, NEW t, IsSeq(s), IsSeq(t), Distinct(s), Distinct(t), Range(s) \cap Range(t) = {}
  PROVE  Distinct(s \o t)
<1> DEFINE u == s \o t
           l == Len(s)
           m == Len(t)
<1>1. Len(u) = l + m /\ (\A i \in 1 .. l : u[i] = s[i]) /\ \A i \in 1 .. m : u[l + i] = t[i]
  BY ConcatFacts
<1>2. l \in Nat /\ m \in Nat /\ (\A i \in 1 .. l : s[i] \in Range(s)) /\ \A i \in 1 .. m : t[i] \in Range(t)
  BY SeqFacts
<1>3. (\A i, j \in 1 .. l : s[i] = s[j] => i = j) /\ \A i, j \in 1 .. m : t[i] = t[j] => i = j
  BY DEF Distinct
<1> HIDE DEF u, l, m
<1>4. ASSUME NEW i \in 1 .. l + m, i \notin 1 .. l PROVE i - l \in 1 .. m /\ u[i] = t[i - l]
  <2>1. i - l \in 1 .. m /\ l + (i - l) = i
    BY <1>2, <1>4
  <2>2. u[l + (i - l)] = t[i - l]
    BY <1>1, <2>1
  <2> QED
    BY <2>1, <2>2
<1>5. \A i, j \in 1 .. Len(u) : u[i] = u[j] => i = j
  <2> SUFFICES ASSUME NEW i \in 1 .. l + m, NEW j \in 1 .. l + m, u[i] = u[j] PROVE i = j
    BY <1>1
  <2>1. CASE i \in 1 .. l /\ j \in 1 .. l
    BY <1>1, <1>3, <2>1
  <2>2. CASE i \in 1 .. l /\ j \notin 1 .. l
    BY <1>1, <1>2, <1>4, <2>2, Zenon
  <2>3. CASE i \notin 1 .. l /\ j \in 1 .. l
    BY <1>1, <1>2, <1>4, <2>3
  <2>4. CASE i \notin 1 .. l /\ j \notin 1 .. l
    <3>1. i - l = j - l
      BY <1>3, <1>4, <2>4
    <3> QED
      BY <1>2, <3>1
  <2> QED
    BY <2>1, <2>2, <2>3, <2>4
<1>6. Distinct(u)
  BY <1>5 DEF Distinct
<1> QED
  BY <1>6 DEF u

(* Some entry is the first in time, and some the last.                     *)
LEMMA TimesBounded ==
  ASSUME NEW s, IsSeq(s), \A i \in 1 .. Len(s) : s[i].at \in Int, NEW i \in 1 .. Len(s)
  PROVE  Min(TimesAt(s)) <= s[i].at /\ s[i].at <= Max(TimesAt(s))
<1> DEFINE n == Len(s)
           T(k) == {s[j].at : j \in 1 .. k}
           good(k) == /\ k = 0 \/ \E x \in T(k) : \A y \in T(k) : x <= y
                      /\ k = 0 \/ \E x \in T(k) : \A y \in T(k) : x >= y
           S == {k \in 0 .. n : good(k)}
<1>1. n \in Nat /\ TimesAt(s) = T(n) /\ n # 0
  BY SeqFacts DEF TimesAt
<1>2. ASSUME NEW k \in 1 .. n, good(k - 1) PROVE good(k)
  <2>1. T(k) = T(k - 1) \cup {s[k].at}
    <3>1. 1 .. k = (1 .. k - 1) \cup {k}
      BY <1>1
    <3> QED
      BY <3>1
  <2>2. T(k - 1) \subseteq Int /\ s[k].at \in Int
    BY <1>1
  <2>3. k - 1 = 0 => T(k - 1) = {}
    OBVIOUS
  <2> DEFINE t == s[k].at
  <2>0. T(k) = T(k - 1) \cup {t} /\ t \in Int /\ T(k - 1) \subseteq Int /\ (k - 1 = 0 => T(k - 1) = {})
    BY <2>1, <2>2, <2>3
  <2> HIDE DEF T, t
  <2>4. k = 0 \/ \E x \in T(k) : \A y \in T(k) : x <= y
    <3>1. CASE k - 1 = 0
      <4>1. T(k) = {t}
        BY <2>0, <3>1
      <4>2. t <= t /\ t >= t
        BY <2>0
      <4>3. t \in T(k) /\ \A y \in T(k) : y = t
        BY <4>1
      <4> QED
        BY <4>2, <4>3
    <3>2. CASE k - 1 # 0
      <4>1. PICK x \in T(k - 1) : \A y \in T(k - 1) : x <= y
        BY <1>2, <3>2
      <4>2. CASE x <= t
        BY <2>0, <4>1, <4>2
      <4>3. CASE ~(x <= t)
        <5>1. \A y \in T(k - 1) : t <= y
          BY <2>0, <4>1, <4>3
        <5> QED
          <6>1. t \in T(k) /\ \A y \in T(k) : y = t \/ y \in T(k - 1)
            BY <2>0
          <6>2. t <= t /\ t >= t
            BY <2>0
          <6> QED
            BY <5>1, <6>1, <6>2
      <4> QED
        BY <4>2, <4>3
    <3> QED
      BY <3>1, <3>2
  <2>5. k = 0 \/ \E x \in T(k) : \A y \in T(k) : x >= y
    <3>1. CASE k - 1 = 0
      <4>1. T(k) = {t}
        BY <2>0, <3>1
      <4>2. t <= t /\ t >= t
        BY <2>0
      <4>3. t \in T(k) /\ \A y \in T(k) : y = t
        BY <4>1
      <4> QED
        BY <4>2, <4>3
    <3>2. CASE k - 1 # 0
      <4>1. PICK x \in T(k - 1) : \A y \in T(k - 1) : x >= y
        BY <1>2, <3>2
      <4>2. CASE x >= t
        BY <2>0, <4>1, <4>2
      <4>3. CASE ~(x >= t)
        <5>1. \A y \in T(k - 1) : t >= y
          BY <2>0, <4>1, <4>3
        <5> QED
          <6>1. t \in T(k) /\ \A y \in T(k) : y = t \/ y \in T(k - 1)
            BY <2>0
          <6>2. t <= t /\ t >= t
            BY <2>0
          <6> QED
            BY <5>1, <6>1, <6>2
      <4> QED
        BY <4>2, <4>3
    <3> QED
      BY <3>1, <3>2
  <2> QED
    BY <2>4, <2>5
<1>3. good(0)
  OBVIOUS
<1>4. s[i].at \in T(n)
  OBVIOUS
<1> HIDE DEF good, n
<1>5. 0 \in S /\ \A k \in 1 .. n : k - 1 \in S => k \in S
  BY <1>1, <1>2, <1>3
<1> HIDE DEF S
<1>6. good(n)
  <2>0. n \in Nat /\ n \in 0 .. n
    BY <1>1
  <2>1. \A k \in 0 .. n : k \in S
    BY <1>5, <2>0, Upward, Zenon
  <2> QED
    BY <2>0, <2>1 DEF S
<1>7. (\E x \in T(n) : \A y \in T(n) : x <= y) /\ \E x \in T(n) : \A y \in T(n) : x >= y
  BY <1>1, <1>6 DEF good
<1> DEFINE times == T(n)
<1> HIDE DEF times
<1>8. (\A y \in times : Min(times) <= y) /\ \A y \in times : Max(times) >= y
  BY <1>7, Zenon DEF Min, Max, times
<1>9. Min(times) <= s[i].at /\ Max(times) >= s[i].at
  BY <1>4, <1>8 DEF times
<1>10. T(n) \subseteq Int /\ Max(times) \in T(n)
  BY <1>7, Zenon DEF n, Max, times
<1> QED
  BY <1>1, <1>4, <1>9, <1>10 DEF times

--------------------------------------------------------------------------------
(***************************************************************************)
(* A chunk, and the index records that follow it.                          *)
(***************************************************************************)
LEMMA HoldsAppend ==
  ASSUME NEW chunk, IsSeq(chunk), NEW e
  PROVE  /\ e.kind # "message" => Holds(Append(chunk, e)) = Holds(chunk)
         /\ e.kind = "message" => Holds(Append(chunk, e)) =
                                    Holds(chunk) \cup {[topic |-> e.topic, at |-> e.at, offset |-> Len(chunk)]}
         /\ \A x \in Holds(chunk) : x.offset # Len(chunk)
<1> DEFINE more == Append(chunk, e)
           l == Len(chunk)
           at(c, i) == [topic |-> c[i].topic, at |-> c[i].at, offset |-> i - 1]
           is(c) == {j \in DOMAIN c : c[j].kind = "message"}
<1>1. Len(more) = l + 1 /\ more[l + 1] = e /\ (\A i \in 1 .. l : more[i] = chunk[i]) /\ IsSeq(more)
  BY AppendFacts
<1>2. l \in Nat /\ DOMAIN chunk = 1 .. l /\ DOMAIN more = 1 .. l + 1
  BY <1>1, SeqFacts
<1>3. Holds(chunk) = {at(chunk, i) : i \in is(chunk)} /\ Holds(more) = {at(more, i) : i \in is(more)}
  BY DEF Holds
<1> HIDE DEF more, l
<1>4. \A i \in 1 .. l : at(more, i) = at(chunk, i)
  BY <1>1
<1>5. is(more) = IF e.kind = "message" THEN is(chunk) \cup {l + 1} ELSE is(chunk)
  <2>1. 1 .. l + 1 = (1 .. l) \cup {l + 1}
    BY <1>2
  <2> QED
    BY <1>1, <1>2, <2>1
<1>6. at(more, l + 1) = [topic |-> e.topic, at |-> e.at, offset |-> l]
  BY <1>1, <1>2
<1>7. is(chunk) \subseteq 1 .. l
  BY <1>2
<1>8. \A x \in Holds(chunk) : x.offset # l
  <2> SUFFICES ASSUME NEW i \in 1 .. l PROVE at(chunk, i).offset # l
    BY <1>3, <1>7
  <2>1. at(chunk, i).offset = i - 1
    OBVIOUS
  <2> QED
    BY <1>2, <2>1
<1> HIDE DEF at, is
<1>9. e.kind # "message" => Holds(more) = Holds(chunk)
  BY <1>3, <1>4, <1>5, <1>7
<1>10. e.kind = "message" => Holds(more) = Holds(chunk) \cup {[topic |-> e.topic, at |-> e.at, offset |-> l]}
  BY <1>3, <1>4, <1>5, <1>6, <1>7
<1> QED
  BY <1>8, <1>9, <1>10 DEF more, l

(* The index of a chunk that is being filled lists its messages.           *)
ChunkOk(chunk, index, T) ==
  /\ IsSeq(chunk) /\ IsSeq(index) /\ Distinct(index) /\ Range(index) = Holds(chunk)
  /\ index = <<>> => chunk = <<>>
  /\ \A x \in Holds(chunk) : x.topic \in T /\ x.at \in Int

SameOrOpened(chunk, known) == known = chunk \/ \E e : e.kind # "message" /\ known = Append(chunk, e)
LEMMA ChunkGrows ==
  ASSUME NEW chunk, NEW index, NEW T, ChunkOk(chunk, index, T), NEW m, m.kind = "message", m.topic \in T, m.at \in Int,
         NEW known, SameOrOpened(chunk, known)
  PROVE  /\ ChunkOk(Append(known, m), Append(index, [topic |-> m.topic, at |-> m.at, offset |-> Len(known)]), T)
         /\ \A x \in Holds(Append(known, m)) : x \in Holds(chunk) \/ x.topic = m.topic
<1> DEFINE entry == [topic |-> m.topic, at |-> m.at, offset |-> Len(known)]
<1>1. /\ IsSeq(chunk) /\ IsSeq(index) /\ Distinct(index) /\ Range(index) = Holds(chunk)
      /\ \A x \in Holds(chunk) : x.topic \in T /\ x.at \in Int
  BY DEF ChunkOk
<1>2. IsSeq(known) /\ Holds(known) = Holds(chunk)
  <2>1. ASSUME NEW e, e.kind # "message"
        PROVE  IsSeq(Append(chunk, e)) /\ Holds(Append(chunk, e)) = Holds(chunk)
    <3>1. Holds(Append(chunk, e)) = Holds(chunk)
      BY <1>1, <2>1, HoldsAppend
    <3> QED
      BY <1>1, <3>1, AppendFacts
  <2> QED
    BY <1>1, <2>1, Zenon DEF SameOrOpened
<1>3. entry.topic = m.topic /\ entry.at = m.at /\ entry.offset = Len(known)
  OBVIOUS
<1>4. Holds(Append(known, m)) = Holds(chunk) \cup {entry} /\ \A x \in Holds(chunk) : x.offset # Len(known)
  BY <1>2, HoldsAppend
<1>5. IsSeq(Append(known, m))
  BY <1>2, AppendFacts
<1> HIDE DEF entry
<1>6. entry \notin Range(index)
  BY <1>1, <1>3, <1>4
<1>7. /\ IsSeq(Append(index, entry)) /\ Range(Append(index, entry)) = Range(index) \cup {entry}
      /\ Append(index, entry) # <<>> /\ Distinct(Append(index, entry))
  BY <1>1, <1>6, AppendFacts, DistinctAppend
<1>8. ChunkOk(Append(known, m), Append(index, entry), T)
  BY <1>1, <1>3, <1>4, <1>5, <1>7 DEF ChunkOk
<1>9. \A x \in Holds(Append(known, m)) : x \in Holds(chunk) \/ x.topic = m.topic
  BY <1>3, <1>4
<1> QED
  BY <1>8, <1>9 DEF entry

Entries(records) == FlattenSeq([j \in 1 .. Len(records) |-> records[j].entries])
AllIndex(records) ==
  IsSeq(records) /\ \A j \in 1 .. Len(records) : records[j].kind = "index" /\ IsSeq(records[j].entries)

LEMMA EntriesAppend ==
  ASSUME NEW records, AllIndex(records)
  PROVE  /\ IsSeq(Entries(records)) /\ Entries(<<>>) = <<>>
         /\ \A e : e.kind = "index" /\ IsSeq(e.entries)
                     => /\ AllIndex(Append(records, e))
                        /\ Entries(Append(records, e)) = Entries(records) \o e.entries
<1> DEFINE n == Len(records)
           lists == [j \in 1 .. n |-> records[j].entries]
<1>1. n \in Nat /\ IsSeq(records) /\ \A j \in 1 .. n : records[j].kind = "index" /\ IsSeq(records[j].entries)
  BY SeqFacts DEF AllIndex
<1>2. IsSeq(lists) /\ Len(lists) = n
  <2>1. lists = [j \in 1 .. n |-> lists[j]]
    OBVIOUS
  <2> HIDE DEF n, lists
  <2> QED
    BY <1>1, <2>1, FunSeq
<1>3. IsSeqs(lists)
  <2>1. \A j \in 1 .. n : lists[j] = records[j].entries
    OBVIOUS
  <2> HIDE DEF n, lists
  <2> QED
    BY <1>1, <1>2, <2>1 DEF IsSeqs
<1>4. Entries(records) = FlattenSeq(lists)
  BY DEF Entries
<1>5. Entries(<<>>) = <<>>
  <2> DEFINE none == [j \in 1 .. Len(<<>>) |-> <<>>[j].entries]
  <2>1. none = <<>>
    <3>1. 1 .. Len(<<>>) = {}
      BY EmptyFacts
    <3>2. DOMAIN none = {}
      BY <3>1
    <3>3. none = [j \in 1 .. 0 |-> none[j]]
      BY <3>2
    <3> HIDE DEF none
    <3>4. IsSeq(none) /\ Len(none) = 0
      BY <3>3, FunSeq, Zenon
    <3> QED
      BY <3>4, SeqFacts
  <2> HIDE DEF none
  <2>2. Entries(<<>>) = FlattenSeq(none)
    BY DEF Entries, none
  <2> QED
    BY <2>1, <2>2, FlatEmpty
<1>6. ASSUME NEW e, e.kind = "index", IsSeq(e.entries)
      PROVE  /\ AllIndex(Append(records, e))
             /\ Entries(Append(records, e)) = Entries(records) \o e.entries
  <2> DEFINE more == Append(records, e)
             all == [j \in 1 .. Len(more) |-> more[j].entries]
             last == Append(lists, e.entries)
  <2>1. Len(more) = n + 1 /\ more[n + 1] = e /\ (\A i \in 1 .. n : more[i] = records[i]) /\ IsSeq(more)
    BY <1>1, AppendFacts
  <2> HIDE DEF more
  <2>2. \A i \in 1 .. n + 1 : i \in 1 .. n \/ i = n + 1
    BY <1>1
  <2>3. AllIndex(more)
    BY <1>1, <1>6, <2>1, <2>2 DEF AllIndex
  <2>4. IsSeq(all) /\ Len(all) = n + 1
    <3>1. all = [j \in 1 .. n + 1 |-> all[j]] /\ n + 1 \in Nat
      BY <1>1, <2>1
    <3> HIDE DEF all
    <3> QED
      BY <3>1, FunSeq
  <2>5. IsSeq(last) /\ Len(last) = n + 1 /\ last[n + 1] = e.entries /\ \A i \in 1 .. n : last[i] = lists[i]
    BY <1>2, AppendFacts
  <2>6. \A i \in 1 .. Len(all) : all[i] = last[i]
    <3>1. \A i \in 1 .. n : all[i] = last[i]
      BY <1>1, <2>1, <2>2, <2>5
    <3>2. all[n + 1] = last[n + 1]
      BY <1>1, <2>1, <2>5
    <3> QED
      BY <2>2, <2>4, <3>1, <3>2, Zenon
  <2>7. all = last
    <3> HIDE DEF all, last
    <3>1. Len(all) = Len(last)
      BY <2>4, <2>5
    <3> QED
      BY <2>4, <2>5, <2>6, <3>1, SameElements
  <2>8. FlattenSeq(last) = FlattenSeq(lists) \o e.entries
    BY <1>3, <1>6, FlatAppend, Zenon
  <2>9. Entries(more) = FlattenSeq(all)
    BY DEF Entries
  <2> HIDE DEF all, last
  <2> QED
    BY <1>4, <2>3, <2>7, <2>8, <2>9, Zenon DEF more
<1> QED
  BY <1>3, <1>4, <1>5, <1>6, FlatIs

(* The index records written behind a chunk list what its index lists.     *)
LEMMA IndexRecordsAre ==
  ASSUME NEW b, IsSeq(b.index), Distinct(b.index), IsSeq(b.topics), Distinct(b.topics),
         \A e \in Range(b.index) : e.topic \in Range(b.topics)
  PROVE  /\ AllIndex(IndexRecords(b)) /\ Distinct(Entries(IndexRecords(b)))
         /\ Range(Entries(IndexRecords(b))) = Range(b.index)
<1> DEFINE n == Len(b.topics)
           seqs == [i \in DOMAIN b.topics |-> IndexRecord(b, b.topics[i])]
           R(k) == FlattenSeq(SubSeq(seqs, 1, k))
           before(k) == {b.topics[j] : j \in 1 .. k}
           good(k) == /\ AllIndex(R(k)) /\ Distinct(Entries(R(k)))
                      /\ Range(Entries(R(k))) = {e \in Range(b.index) : e.topic \in before(k)}
           S == {k \in 0 .. n : good(k)}
           O(t) == OfTopic(b.index, t)
           rec(t) == [kind |-> "index", topic |-> t, entries |-> O(t)]
<1>1. /\ n \in Nat /\ DOMAIN b.topics = 1 .. n /\ \A x \in Range(b.topics) : \E j \in 1 .. n : b.topics[j] = x
      /\ \A i, j \in 1 .. n : b.topics[i] = b.topics[j] => i = j
  BY SeqFacts DEF Distinct
<1>2. ASSUME NEW t
      PROVE  /\ IsSeq(O(t)) /\ Distinct(O(t)) /\ Range(O(t)) = {e \in Range(b.index) : e.topic = t}
             /\ O(t) = <<>> => IndexRecord(b, t) = <<>>
             /\ O(t) # <<>> => IndexRecord(b, t) = <<rec(t)>>
  <2>1. /\ IsSeq(O(t)) /\ Distinct(O(t)) /\ Range(O(t)) = {e \in Range(b.index) : e["topic"] \in {t}}
    BY WhereIs DEF OfTopic
  <2> QED
    BY <2>1 DEF IndexRecord
<1> HIDE DEF O
<1>3. ASSUME NEW t PROVE IsSeq(IndexRecord(b, t))
  <2>1. IsSeq(<<rec(t)>>) /\ IsSeq(<<>>)
    BY EmptyFacts, AppendIs
  <2> QED
    BY <1>2, <2>1
<1>4. IsSeqs(seqs) /\ Len(seqs) = n /\ \A k \in 1 .. n : seqs[k] = IndexRecord(b, b.topics[k])
  <2>1. seqs = [k \in 1 .. n |-> seqs[k]] /\ \A k \in 1 .. n : seqs[k] = IndexRecord(b, b.topics[k])
    BY <1>1
  <2> HIDE DEF seqs, n
  <2>2. IsSeq(seqs) /\ Len(seqs) = n
    BY <1>1, <2>1, FunSeq
  <2> QED
    BY <1>3, <2>1, <2>2, Zenon DEF IsSeqs
<1>5. IndexRecords(b) = FlattenSeq(seqs)
  BY DEF IndexRecords
<1> HIDE DEF seqs, n
<1>6. good(0)
  <2>1. R(0) = <<>>
    BY <1>4, PrefixFacts, FlatEmpty, Zenon DEF IsSeqs
  <2>2. AllIndex(<<>>)
    <3>1. 1 .. Len(<<>>) = {}
      BY EmptyFacts
    <3> QED
      BY <3>1, EmptyFacts DEF AllIndex
  <2>3. Entries(<<>>) = <<>>
    BY <2>2, EntriesAppend
  <2>4. before(0) = {}
    OBVIOUS
  <2> HIDE DEF R, before
  <2> QED
    BY <2>1, <2>2, <2>3, <2>4, EmptyFacts
<1>7. ASSUME NEW k \in 1 .. n, good(k - 1) PROVE good(k)
  <2> DEFINE t == b.topics[k]
             r == R(k - 1)
             q == R(k)
             o == O(t)
  <2>1. q = r \o seqs[k] /\ IsSeq(seqs[k]) /\ seqs[k] = IndexRecord(b, t)
    BY <1>4, FlatPrefix, Zenon
  <2>2. before(k) = before(k - 1) \cup {t} /\ t \notin before(k - 1)
    <3>1. 1 .. k = (1 .. k - 1) \cup {k} /\ \A j \in 1 .. k - 1 : j \in 1 .. n /\ j # k
      BY <1>1
    <3> QED
      BY <1>1, <3>1
  <2>3. AllIndex(r) /\ Distinct(Entries(r)) /\ Range(Entries(r)) = {e \in Range(b.index) : e.topic \in before(k - 1)}
    BY <1>7
  <2>4. IsSeq(o) /\ Distinct(o) /\ Range(o) = {e \in Range(b.index) : e.topic = t}
    BY <1>2
  <2>5. CASE o = <<>>
    <3>1. IndexRecord(b, t) = <<>> /\ IsSeq(r)
      BY <1>2, <2>3, <2>5 DEF AllIndex
    <3>2. q = r
      <4> HIDE DEF q, r
      <4> QED
        BY <2>1, <3>1, ConcatEmpty
    <3>3. {e \in Range(b.index) : e.topic = t} = {}
      BY <2>4, <2>5, EmptyFacts
    <3> HIDE DEF q, r, t, before
    <3>4. Range(Entries(q)) = {e \in Range(b.index) : e.topic \in before(k)}
      BY <2>2, <2>3, <3>2, <3>3
    <3> QED
      BY <2>3, <3>2, <3>4 DEF q
  <2>6. CASE o # <<>>
    <3>1. IndexRecord(b, t) = <<rec(t)>> /\ IsSeq(r)
      BY <1>2, <2>3, <2>6 DEF AllIndex
    <3>2. rec(t).kind = "index" /\ rec(t).entries = o
      OBVIOUS
    <3> HIDE DEF rec
    <3>3. q = Append(r, rec(t))
      <4> HIDE DEF q, r
      <4> QED
        BY <2>1, <3>1, AppendIs
    <3>4. AllIndex(q) /\ Entries(q) = Entries(r) \o o
      <4> HIDE DEF q, r, o
      <4> QED
        BY <2>3, <2>4, <3>2, <3>3, EntriesAppend, Zenon
    <3>5. IsSeq(Entries(r))
      BY <2>3, EntriesAppend
    <3> DEFINE f == Entries(r)
    <3>6. Range(f) \cap Range(o) = {}
      <4> HIDE DEF before, o, t
      <4> QED
        BY <2>2, <2>3, <2>4
    <3>7. Distinct(f \o o) /\ Range(f \o o) = Range(f) \cup Range(o)
      <4> HIDE DEF f, o
      <4> QED
        BY <2>3, <2>4, <3>5, <3>6, ConcatFacts, DistinctConcat DEF f
    <3>8. Range(f) \cup Range(o) = {e \in Range(b.index) : e.topic \in before(k)}
      <4> HIDE DEF before, o, t
      <4> QED
        BY <2>2, <2>3, <2>4
    <3> HIDE DEF before, r, o
    <3> QED
      BY <3>4, <3>7, <3>8, Zenon
  <2> QED
    BY <2>5, <2>6
<1> HIDE DEF good
<1>8. 0 \in S /\ \A k \in 1 .. n : k - 1 \in S => k \in S
  BY <1>1, <1>6, <1>7
<1> HIDE DEF S
<1>9. good(n)
  <2>1. n \in S
    BY <1>1, <1>8, Upward
  <2> QED
    BY <2>1 DEF S
<1>10. R(n) = IndexRecords(b)
  BY <1>4, <1>5, PrefixFacts, Zenon DEF IsSeqs
<1>11. \A e \in Range(b.index) : e.topic \in before(n)
  BY <1>1
<1> HIDE DEF before
<1> QED
  BY <1>9, <1>10, <1>11, Zenon DEF good

--------------------------------------------------------------------------------
(***************************************************************************)
(* The records of a ROS1 bag.                                              *)
(***************************************************************************)
EntriesAfter(records, k, n) == FlattenSeq([j \in 1 .. n |-> records[k + j].entries])
Connects(chunk, t) == \E i \in DOMAIN chunk : chunk[i].kind = "connection" /\ chunk[i].topic = t

(* What a chunk record promises, and goes on promising.                    *)
Indexed(b, k, n) ==
  /\ EndsIndex(b, k, n)
  /\ IsSeq(EntriesAfter(b.records, k, n)) /\ Distinct(EntriesAfter(b.records, k, n))
  /\ Range(EntriesAfter(b.records, k, n)) = Holds(b.records[k].data)
RecordOk(b, k, T) ==
  /\ IsSeq(b.records[k].data)
  /\ \E n \in Nat : Indexed(b, k, n)
  /\ \E i \in DOMAIN b.chunks : Described(b, k, b.chunks[i])
  /\ \A x \in Holds(b.records[k].data) : x.topic \in T /\ DeclaredBefore(b, k, x.topic)

LEMMA IndexIs ==
  ASSUME NEW b, IsSeq(b.records), NEW k \in 1 .. Len(b.records), NEW n \in Nat, EndsIndex(b, k, n)
  PROVE  IndexOf(b, k) = EntriesAfter(b.records, k, n)
<1> DEFINE l == Len(b.records)
           size == CHOOSE m \in 0 .. l : EndsIndex(b, k, m)
<1>1. l \in Nat
  BY SeqFacts
<1>2. n \in 0 .. l
  BY <1>1 DEF EndsIndex
<1>3. size \in 0 .. l /\ EndsIndex(b, k, size)
  BY <1>2
<1>4. IndexOf(b, k) = EntriesAfter(b.records, k, size)
  BY DEF IndexOf, EntriesAfter
<1> HIDE DEF size
<1>5. size = n
  <2>0. size \in Nat /\ n \in Nat /\ k \in Nat
    BY <1>1, <1>2, <1>3
  <2>1. ASSUME NEW p \in Nat, NEW q \in Nat, EndsIndex(b, k, p), EndsIndex(b, k, q), p < q PROVE FALSE
    <3>1. k + p < l /\ k + p + 1 \in k + 1 .. k + q
      BY <1>1, <2>0, <2>1 DEF EndsIndex
    <3>2. b.records[k + p + 1].kind = "index"
      BY <2>1, <3>1 DEF EndsIndex
    <3> QED
      BY <2>1, <3>1, <3>2 DEF EndsIndex
  <2>2. ~(size < n) /\ ~(n < size)
    BY <1>3, <2>0, <2>1
  <2> QED
    BY <2>0, <2>2
<1> QED
  BY <1>4, <1>5

(* Records added behind, not beginning with an index record, change        *)
(* nothing for a chunk.                                                    *)
LEMMA RecordStays ==
  ASSUME NEW b, NEW c, NEW more, NEW T, IsSeq(b.records), IsSeq(more), c.records = b.records \o more,
         more # <<>> => more[1].kind # "index",
         \A i \in DOMAIN b.chunks : i \in DOMAIN c.chunks /\ c.chunks[i] = b.chunks[i],
         NEW k \in ChunkAt(b), RecordOk(b, k, T)
  PROVE  k \in ChunkAt(c) /\ c.records[k] = b.records[k] /\ RecordOk(c, k, T)
<1> DEFINE l == Len(b.records)
<1>1. /\ l \in Nat /\ Len(more) \in Nat /\ Len(c.records) = l + Len(more)
      /\ DOMAIN b.records = 1 .. l /\ DOMAIN c.records = 1 .. l + Len(more)
      /\ \A i \in 1 .. l : c.records[i] = b.records[i]
      /\ \A i \in 1 .. Len(more) : c.records[l + i] = more[i]
      /\ (more = <<>> <=> Len(more) = 0)
  BY ConcatFacts, SeqFacts
<1>2. \A j \in ChunkAt(b) : j \in ChunkAt(c) /\ j \in 1 .. l /\ c.records[j] = b.records[j]
  BY <1>1 DEF ChunkAt
<1>3. k \in 1 .. l /\ k \in ChunkAt(c) /\ c.records[k] = b.records[k]
  BY <1>2
<1> HIDE DEF l
<1>4. \E n \in Nat : Indexed(c, k, n)
  <2>1. PICK n \in Nat : Indexed(b, k, n)
    BY DEF RecordOk
  <2>2. /\ k + n <= l /\ \A j \in k + 1 .. k + n : b.records[j].kind = "index"
        /\ k + n < l => b.records[k + n + 1].kind # "index"
    BY <2>1 DEF Indexed, EndsIndex, l
  <2>3. \A j \in k + 1 .. k + n : j \in 1 .. l
    BY <1>1, <1>3, <2>2
  <2>4. EndsIndex(c, k, n)
    <3>1. k + n <= Len(c.records) /\ \A j \in k + 1 .. k + n : c.records[j].kind = "index"
      BY <1>1, <1>3, <2>2, <2>3
    <3>2. k + n < Len(c.records) => c.records[k + n + 1].kind # "index"
      <4>1. CASE k + n < l
        <5>1. k + n + 1 \in 1 .. l
          BY <1>1, <1>3, <4>1
        <5> QED
          BY <1>1, <2>2, <4>1, <5>1
      <4>2. CASE k + n = l /\ k + n < Len(c.records)
        <5>1. 1 \in 1 .. Len(more) /\ more # <<>>
          BY <1>1, <4>2
        <5>2. c.records[l + 1] = more[1]
          BY <1>1, <5>1, Zenon
        <5> QED
          BY <4>2, <5>1, <5>2, Zenon
      <4>3. k + n < l \/ k + n = l
        BY <1>1, <1>3, <2>2
      <4> QED
        BY <4>1, <4>2, <4>3, Zenon
    <3> QED
      BY <3>1, <3>2, Zenon DEF EndsIndex
  <2>5. EntriesAfter(c.records, k, n) = EntriesAfter(b.records, k, n)
    <3>1. \A j \in 1 .. n : k + j \in 1 .. l
      BY <1>1, <1>3, <2>2
    <3>2. [j \in 1 .. n |-> c.records[k + j].entries] = [j \in 1 .. n |-> b.records[k + j].entries]
      BY <1>1, <3>1
    <3> QED
      BY <3>2, Zenon DEF EntriesAfter
  <2> QED
    BY <1>3, <2>1, <2>4, <2>5 DEF Indexed
<1>5. \E i \in DOMAIN c.chunks : Described(c, k, c.chunks[i])
  <2>1. PICK i \in DOMAIN b.chunks : Described(b, k, b.chunks[i])
    BY DEF RecordOk
  <2>2. i \in DOMAIN c.chunks /\ c.chunks[i] = b.chunks[i]
    OBVIOUS
  <2>3. Described(c, k, b.chunks[i])
    BY <1>3, <2>1 DEF Described
  <2> QED
    BY <2>2, <2>3
<1>6. \A t : DeclaredBefore(b, k, t) => DeclaredBefore(c, k, t)
  BY <1>2 DEF DeclaredBefore
<1> QED
  BY <1>3, <1>4, <1>5, <1>6 DEF RecordOk

(* The bag while messages are written.                                     *)
Ros1Ok(b, T) ==
  /\ DOMAIN b = DOMAIN NewBag(<<>>) /\ b.topics = T
  /\ IsSeq(b.records) /\ IsSeq(b.chunks) /\ \A k \in 1 .. Len(b.records) : b.records[k].kind \in {"chunk", "index"}
  /\ ChunkOk(b.chunk, b.index, Range(T)) /\ \A k \in ChunkAt(b) : RecordOk(b, k, Range(T))
  /\ \A x \in Holds(b.chunk) : x.topic \in b.embedded
  /\ \A t \in b.embedded : Connects(b.chunk, t) \/ \E l \in ChunkAt(b) : Connects(b.records[l].data, t)

(* The record that a flushed chunk becomes.                                *)
LEMMA CountsAre ==
  ASSUME NEW index, IsSeq(index), Distinct(index), NEW t
  PROVE  Len(OfTopic(index, t)) = Cardinality({e \in Range(index) : e.topic = t})
<1>1. /\ IsSeq(OfTopic(index, t)) /\ Distinct(OfTopic(index, t))
      /\ Range(OfTopic(index, t)) = {e \in Range(index) : e["topic"] \in {t}}
  BY WhereIs DEF OfTopic
<1>2. {e \in Range(index) : e["topic"] \in {t}} = {e \in Range(index) : e.topic = t}
  OBVIOUS
<1> QED
  BY <1>1, <1>2, DistinctCount, Zenon

LEMMA FlushRecords ==
  ASSUME NEW b, NEW T, IsSeq(T), Distinct(T), Ros1Ok(b, T), b.index # <<>>
  PROVE  LET c    == FlushChunk(b)
             data == [kind |-> "chunk", data |-> b.chunk]
         IN  /\ DOMAIN c = DOMAIN b /\ c.topics = b.topics /\ c.embedded = b.embedded /\ c.count = b.count
             /\ c.chunk = <<>> /\ c.index = <<>> /\ AllIndex(IndexRecords(b))
             /\ c.records = b.records \o (<<data>> \o IndexRecords(b))
             /\ c.records = b.records \o <<data>> \o IndexRecords(b)
             /\ \E info : c.chunks = Append(b.chunks, info) /\ Described(c, Len(b.records) + 1, info)
             /\ RecordOk(c, Len(b.records) + 1, Range(T)) /\ Len(b.records) + 1 \in ChunkAt(c)
             /\ c.records[Len(b.records) + 1] = data
<1> DEFINE c == FlushChunk(b)
           data == [kind |-> "chunk", data |-> b.chunk]
           irs == IndexRecords(b)
           k == Len(b.records) + 1
           info == [position |-> k, start |-> Min(TimesAt(b.index)), end |-> Max(TimesAt(b.index)),
                    counts |-> CountsOf(b.index)]
<1>1. /\ DOMAIN b = DOMAIN NewBag(<<>>) /\ b.topics = T
      /\ IsSeq(b.records) /\ IsSeq(b.chunks) /\ ChunkOk(b.chunk, b.index, Range(T))
      /\ \A x \in Holds(b.chunk) : x.topic \in b.embedded
      /\ \A t \in b.embedded : Connects(b.chunk, t) \/ \E l \in ChunkAt(b) : Connects(b.records[l].data, t)
  BY DEF Ros1Ok
<1>2. /\ IsSeq(b.index) /\ Distinct(b.index) /\ Range(b.index) = Holds(b.chunk) /\ IsSeq(b.chunk)
      /\ \A x \in Range(b.index) : x.topic \in Range(T) /\ x.at \in Int
  BY <1>1 DEF ChunkOk
<1>3. /\ DOMAIN c = DOMAIN b /\ c.topics = b.topics /\ c.embedded = b.embedded /\ c.count = b.count
      /\ c.chunk = <<>> /\ c.index = <<>> /\ c.chunks = Append(b.chunks, info)
      /\ c.records = b.records \o <<data>> \o irs
  <2>1. {"embedded", "chunk", "index", "count", "records", "chunks", "topics"} \subseteq DOMAIN b
    BY <1>1 DEF NewBag
  <2> HIDE DEF info, irs, data
  <2>2. c = [b EXCEPT !.records = b.records \o <<data>> \o irs, !.chunks = Append(b.chunks, info),
                      !.chunk = <<>>, !.index = <<>>]
    BY DEF FlushChunk, info, irs, data
  <2> HIDE DEF c
  <2> QED
    BY <2>1, <2>2
<1>4. AllIndex(irs) /\ Distinct(Entries(irs)) /\ Range(Entries(irs)) = Holds(b.chunk) /\ IsSeq(Entries(irs))
  BY <1>1, <1>2, IndexRecordsAre, EntriesAppend
<1>5. /\ k \in Nat /\ Len(irs) \in Nat /\ Len(c.records) = k + Len(irs) /\ c.records[k] = data
      /\ \A i \in 1 .. Len(b.records) : c.records[i] = b.records[i]
      /\ \A i \in 1 .. Len(irs) : c.records[k + i] = irs[i]
      /\ c.records = b.records \o (<<data>> \o irs) /\ DOMAIN c.records = 1 .. k + Len(irs)
  <2> HIDE DEF data, irs, c
  <2>1. IsSeq(<<data>>) /\ Len(<<data>>) = 1 /\ <<data>>[1] = data /\ IsSeq(irs) /\ IsSeq(b.records)
    BY <1>1, <1>4, AppendIs DEF AllIndex
  <2>2. Len(b.records) \in Nat /\ Len(irs) \in Nat
    BY <2>1, SeqFacts
  <2> DEFINE first == b.records \o <<data>>
  <2>3. /\ IsSeq(first) /\ Len(first) = k /\ (\A i \in 1 .. Len(b.records) : first[i] = b.records[i])
        /\ first[k] = data
    <3>1. 1 \in 1 .. Len(<<data>>)
      BY <2>1
    <3>2. first[Len(b.records) + 1] = <<data>>[1]
      BY <2>1, <3>1, ConcatFacts
    <3> QED
      BY <2>1, <3>2, ConcatFacts
  <2>4. c.records = first \o irs
    BY <1>3
  <2>5. first \o irs = b.records \o (<<data>> \o irs)
    <3> DEFINE one == <<data>>
               old == b.records
    <3>1. IsSeq(one) /\ IsSeq(old) /\ IsSeq(irs)
      BY <2>1
    <3> HIDE DEF one, old
    <3>2. (old \o one) \o irs = old \o (one \o irs)
      BY <3>1, ConcatAssoc
    <3> QED
      BY <3>2, Zenon DEF one, old
  <2> DEFINE l == Len(first)
  <2>9. l = k
    BY <2>3
  <2> HIDE DEF first
  <2>6. /\ IsSeq(c.records) /\ Len(c.records) = k + Len(irs) /\ (\A i \in 1 .. k : c.records[i] = first[i])
        /\ \A i \in 1 .. Len(irs) : c.records[k + i] = irs[i]
    <3>1. /\ IsSeq(first \o irs) /\ Len(first \o irs) = l + Len(irs)
          /\ (\A i \in 1 .. l : (first \o irs)[i] = first[i])
          /\ \A i \in 1 .. Len(irs) : (first \o irs)[l + i] = irs[i]
      BY <2>1, <2>3, ConcatFacts
    <3> HIDE DEF l, k
    <3> QED
      BY <2>4, <2>9, <3>1, Zenon
  <2>7. DOMAIN c.records = 1 .. k + Len(irs)
    BY <2>6, SeqFacts
  <2>8. k \in Nat /\ k \in 1 .. k /\ \A i \in 1 .. Len(b.records) : i \in 1 .. k
    BY <2>2
  <2> QED
    BY <2>2, <2>3, <2>4, <2>5, <2>6, <2>7, <2>8, Zenon
<1>6. k \in ChunkAt(c) /\ c.records[k].data = b.chunk
  <2>1. k \in 1 .. k + Len(irs)
    BY <1>5
  <2>2. data.kind = "chunk" /\ data.data = b.chunk
    OBVIOUS
  <2> HIDE DEF data, c, k
  <2> QED
    BY <1>5, <2>1, <2>2, Zenon DEF ChunkAt
<1>7. Indexed(c, k, Len(irs))
  <2>1. \A j \in 1 .. Len(irs) : irs[j].kind = "index"
    BY <1>4 DEF AllIndex
  <2> HIDE DEF c, irs, k
  <2>2. EndsIndex(c, k, Len(irs))
    <3>1. \A j \in k + 1 .. k + Len(irs) : j - k \in 1 .. Len(irs) /\ k + (j - k) = j
      BY <1>5
    <3>2. \A j \in k + 1 .. k + Len(irs) : c.records[j] = irs[j - k]
      BY <1>5, <3>1, Zenon
    <3>3. k + Len(irs) <= Len(c.records) /\ ~(k + Len(irs) < Len(c.records))
      BY <1>5
    <3> QED
      BY <2>1, <3>1, <3>2, <3>3 DEF EndsIndex
  <2>3. EntriesAfter(c.records, k, Len(irs)) = Entries(irs)
    <3>1. [j \in 1 .. Len(irs) |-> c.records[k + j].entries] = [j \in 1 .. Len(irs) |-> irs[j].entries]
      BY <1>5, Zenon
    <3> QED
      BY <3>1 DEF EntriesAfter, Entries
  <2> QED
    BY <1>4, <1>6, <2>2, <2>3 DEF Indexed
<1>8. Described(c, k, info)
  <2>1. \A x \in Holds(b.chunk) : Min(TimesAt(b.index)) <= x.at /\ x.at <= Max(TimesAt(b.index))
    <3> SUFFICES ASSUME NEW x \in Range(b.index) PROVE Min(TimesAt(b.index)) <= x.at /\ x.at <= Max(TimesAt(b.index))
      BY <1>2
    <3>1. PICK i \in 1 .. Len(b.index) : b.index[i] = x
      BY <1>2, SeqFacts
    <3>2. \A j \in 1 .. Len(b.index) : b.index[j].at \in Int
      BY <1>2, SeqFacts
    <3> QED
      BY <1>2, <3>1, <3>2, TimesBounded
  <2>2. ASSUME NEW t \in DOMAIN CountsOf(b.index)
        PROVE  CountsOf(b.index)[t] = Cardinality({x \in Holds(b.chunk) : x.topic = t})
    <3>1. CountsOf(b.index)[t] = Len(OfTopic(b.index, t))
      BY <2>2 DEF CountsOf
    <3> QED
      BY <1>2, <3>1, CountsAre
  <2>3. info.position = k /\ info.start = Min(TimesAt(b.index)) /\ info.end = Max(TimesAt(b.index))
        /\ info.counts = CountsOf(b.index)
    OBVIOUS
  <2> HIDE DEF info, k, c
  <2> QED
    BY <1>6, <2>1, <2>2, <2>3 DEF Described
<1>9. \E i \in DOMAIN c.chunks : Described(c, k, c.chunks[i])
  <2> HIDE DEF info
  <2>1. Len(b.chunks) + 1 \in DOMAIN Append(b.chunks, info) /\ Append(b.chunks, info)[Len(b.chunks) + 1] = info
    <3>1. /\ IsSeq(Append(b.chunks, info)) /\ Len(Append(b.chunks, info)) = Len(b.chunks) + 1
          /\ Append(b.chunks, info)[Len(b.chunks) + 1] = info
      BY <1>1, AppendFacts
    <3>2. DOMAIN Append(b.chunks, info) = 1 .. Len(b.chunks) + 1 /\ Len(b.chunks) \in Nat
      BY <1>1, <3>1, SeqFacts
    <3> QED
      BY <3>1, <3>2
  <2> HIDE DEF c, k
  <2> QED
    BY <1>3, <1>8, <2>1, Zenon
<1>10. ASSUME NEW x \in Holds(b.chunk) PROVE x.topic \in Range(T) /\ DeclaredBefore(c, k, x.topic)
  <2> DEFINE t == x.topic
  <2>1. t \in Range(T) /\ t \in b.embedded
    BY <1>1, <1>2
  <2>2. CASE Connects(b.chunk, t)
    <3> HIDE DEF c, k
    <3>1. k <= k
      BY <1>5
    <3> QED
      BY <1>6, <2>1, <2>2, <3>1 DEF DeclaredBefore, Connects
  <2>3. CASE \E l \in ChunkAt(b) : Connects(b.records[l].data, t)
    <3>1. PICK l \in ChunkAt(b) : Connects(b.records[l].data, t)
      BY <2>3
    <3>2. l \in 1 .. Len(b.records) /\ b.records[l].kind = "chunk" /\ Len(b.records) \in Nat
      BY <1>1, SeqFacts DEF ChunkAt
    <3>3. l <= k /\ l \in 1 .. k + Len(irs)
      BY <1>5, <3>2
    <3> HIDE DEF c, k, irs
    <3>4. l \in ChunkAt(c) /\ c.records[l] = b.records[l]
      BY <1>5, <3>2, <3>3, Zenon DEF ChunkAt
    <3> QED
      BY <2>1, <3>1, <3>3, <3>4 DEF DeclaredBefore, Connects
  <2> QED
    BY <1>1, <2>1, <2>2, <2>3
<1>11. RecordOk(c, k, Range(T))
  <2> HIDE DEF c, k
  <2> QED
    BY <1>2, <1>5, <1>6, <1>7, <1>9, <1>10 DEF RecordOk
<1> HIDE DEF c, data, irs, info
<1>12. \E i : c.chunks = Append(b.chunks, i) /\ Described(c, k, i)
  BY <1>3, <1>8
<1> QED
  BY <1>3, <1>4, <1>5, <1>6, <1>11, <1>12, Zenon DEF c, data, irs

--------------------------------------------------------------------------------
(***************************************************************************)
(* The messages of the bag, in the records and in the open chunk.          *)
(***************************************************************************)
Payload(r) == IF r.kind = "chunk" THEN MessagesOf(r.data) ELSE <<>>
Payloads(records) == [k \in DOMAIN records |-> Payload(records[k])]
Carries(records) == IsSeq(records) /\ \A k \in 1 .. Len(records) : IsSeq(Payload(records[k]))
Carried(records) == FlattenSeq(Payloads(records))

LEMMA PayloadsAre ==
  ASSUME NEW s, Carries(s)
  PROVE  /\ IsSeqs(Payloads(s)) /\ Len(Payloads(s)) = Len(s) /\ IsSeq(Carried(s))
         /\ \A k \in 1 .. Len(s) : Payloads(s)[k] = Payload(s[k])
         /\ (\A k \in 1 .. Len(s) : s[k].kind # "chunk") => Carried(s) = <<>>
<1> DEFINE p == Payloads(s)
<1>1. IsSeq(s) /\ Len(s) \in Nat /\ DOMAIN s = 1 .. Len(s) /\ \A k \in 1 .. Len(s) : IsSeq(Payload(s[k]))
  BY SeqFacts DEF Carries
<1>2. p = [k \in 1 .. Len(s) |-> p[k]] /\ \A k \in 1 .. Len(s) : p[k] = Payload(s[k])
  BY <1>1 DEF Payloads
<1> HIDE DEF p
<1>3. IsSeq(p) /\ Len(p) = Len(s)
  BY <1>1, <1>2, FunSeq
<1>4. IsSeqs(p)
  BY <1>1, <1>2, <1>3 DEF IsSeqs
<1>5. IsSeq(FlattenSeq(p)) /\ ((\A k \in 1 .. Len(p) : p[k] = <<>>) => FlattenSeq(p) = <<>>)
  BY <1>4, FlatIs
<1>6. (\A k \in 1 .. Len(s) : s[k].kind # "chunk") => \A k \in 1 .. Len(p) : p[k] = <<>>
  BY <1>2, <1>3 DEF Payload
<1> QED
  BY <1>2, <1>3, <1>4, <1>5, <1>6, Zenon DEF p, Carried

LEMMA CarriedConcat ==
  ASSUME NEW s, NEW t, Carries(s), Carries(t)
  PROVE  Carries(s \o t) /\ Carried(s \o t) = Carried(s) \o Carried(t)
<1> DEFINE u == s \o t
<1>1. /\ IsSeq(s) /\ IsSeq(t) /\ (\A k \in 1 .. Len(s) : IsSeq(Payload(s[k])))
      /\ \A k \in 1 .. Len(t) : IsSeq(Payload(t[k]))
  BY DEF Carries
<1>2. Len(s) \in Nat /\ Len(t) \in Nat
  BY <1>1, SeqFacts
<1>3. /\ IsSeq(u) /\ Len(u) = Len(s) + Len(t) /\ (\A i \in 1 .. Len(s) : u[i] = s[i])
      /\ \A i \in 1 .. Len(t) : u[Len(s) + i] = t[i]
  BY <1>1, ConcatFacts
<1> HIDE DEF u
<1>4. Carries(u)
  <2> SUFFICES ASSUME NEW k \in 1 .. Len(u) PROVE IsSeq(Payload(u[k]))
    BY <1>3 DEF Carries
  <2>1. CASE k \in 1 .. Len(s)
    BY <1>1, <1>3, <2>1
  <2>2. CASE k \notin 1 .. Len(s)
    <3>1. k - Len(s) \in 1 .. Len(t) /\ Len(s) + (k - Len(s)) = k
      BY <1>2, <1>3, <2>2
    <3>2. u[k] = t[k - Len(s)]
      BY <1>3, <3>1
    <3> QED
      BY <1>1, <3>1, <3>2
  <2> QED
    BY <2>1, <2>2
<1>5. Payloads(u) = Payloads(s) \o Payloads(t)
  <2> DEFINE a == Payloads(s)
             b == Payloads(t)
             c == Payloads(u)
  <2>1. IsSeq(a) /\ IsSeq(b) /\ IsSeq(c) /\ Len(a) = Len(s) /\ Len(b) = Len(t) /\ Len(c) = Len(u)
    BY <1>4, PayloadsAre DEF IsSeqs
  <2>2. /\ \A k \in 1 .. Len(s) : a[k] = Payload(s[k])
        /\ \A k \in 1 .. Len(t) : b[k] = Payload(t[k])
        /\ \A k \in 1 .. Len(u) : c[k] = Payload(u[k])
    BY <1>4, PayloadsAre
  <2> HIDE DEF a, b, c
  <2>3. \A i \in 1 .. Len(a) : c[i] = a[i]
    <3>1. \A i \in 1 .. Len(s) : i \in 1 .. Len(u)
      BY <1>2, <1>3
    <3> QED
      BY <1>3, <2>1, <2>2, <3>1
  <2>4. \A i \in 1 .. Len(b) : c[Len(a) + i] = b[i]
    <3>1. \A i \in 1 .. Len(t) : Len(s) + i \in 1 .. Len(u)
      BY <1>2, <1>3
    <3> QED
      BY <1>3, <2>1, <2>2, <3>1
  <2>5. Len(c) = Len(a) + Len(b)
    BY <1>3, <2>1
  <2>6. c = a \o b
    BY <2>1, <2>3, <2>4, <2>5, Glue, Zenon
  <2> QED
    BY <2>6 DEF a, b, c
<1>6. FlattenSeq(Payloads(s) \o Payloads(t)) = FlattenSeq(Payloads(s)) \o FlattenSeq(Payloads(t))
  BY PayloadsAre, FlatConcat
<1> QED
  BY <1>4, <1>5, <1>6 DEF u, Carried

LEMMA MessagesOfAre ==
  ASSUME NEW chunk, IsSeq(chunk)
  PROVE  /\ IsSeq(MessagesOf(chunk)) /\ MessagesOf(<<>>) = <<>>
         /\ \A e : MessagesOf(Append(chunk, e)) =
                     IF e.kind = "message" THEN Append(MessagesOf(chunk), e) ELSE MessagesOf(chunk)
<1>1. IsSeq(MessagesOf(chunk)) /\ MessagesOf(<<>>) = <<>>
  BY WhereIs, WhereEmpty DEF MessagesOf
<1>2. ASSUME NEW e
      PROVE  MessagesOf(Append(chunk, e)) =
               IF e.kind = "message" THEN Append(MessagesOf(chunk), e) ELSE MessagesOf(chunk)
  <2>1. MessagesOf(Append(chunk, e)) = WhereStep(MessagesOf(chunk), e, "kind", {"message"})
    BY WhereAppend DEF MessagesOf
  <2> QED
    BY <2>1 DEF WhereStep
<1> QED
  BY <1>1, <1>2

Ros1Held(b) == Carried(b.records) \o MessagesOf(b.chunk)

LEMMA Ros1Carries ==
  ASSUME NEW b, NEW T, Ros1Ok(b, T)
  PROVE  /\ Carries(b.records) /\ IsSeq(Carried(b.records)) /\ IsSeq(MessagesOf(b.chunk)) /\ IsSeq(Ros1Held(b))
         /\ Len(b.records) \in Nat /\ DOMAIN b.records = 1 .. Len(b.records) /\ IsSeq(b.records) /\ IsSeq(b.chunk)
         /\ ChunkAt(b) \subseteq 1 .. Len(b.records)
<1>1. /\ IsSeq(b.records) /\ IsSeq(b.chunk) /\ \A k \in ChunkAt(b) : IsSeq(b.records[k].data)
  BY DEF Ros1Ok, ChunkOk, RecordOk
<1>2. Len(b.records) \in Nat /\ DOMAIN b.records = 1 .. Len(b.records)
  BY <1>1, SeqFacts
<1>3. ASSUME NEW k \in 1 .. Len(b.records) PROVE IsSeq(Payload(b.records[k]))
  <2>1. CASE b.records[k].kind = "chunk"
    <3>1. IsSeq(b.records[k].data)
      BY <1>1, <1>2, <2>1 DEF ChunkAt
    <3> QED
      BY <2>1, <3>1, MessagesOfAre DEF Payload
  <2>2. CASE b.records[k].kind # "chunk"
    BY <2>2, EmptyFacts DEF Payload
  <2> QED
    BY <2>1, <2>2
<1>4. Carries(b.records)
  BY <1>1, <1>3 DEF Carries
<1>5. IsSeq(Carried(b.records)) /\ IsSeq(MessagesOf(b.chunk))
  BY <1>1, <1>4, PayloadsAre, MessagesOfAre
<1> QED
  BY <1>1, <1>2, <1>4, <1>5, ConcatFacts DEF Ros1Held, ChunkAt

LEMMA NothingOpen == \A T : ChunkOk(<<>>, <<>>, T) /\ Holds(<<>>) = {}
<1>1. Holds(<<>>) = {}
  <2>1. DOMAIN <<>> = {}
    OBVIOUS
  <2> QED
    BY <2>1 DEF Holds
<1> QED
  BY <1>1, EmptyFacts, Zenon DEF ChunkOk

(* A flush loses no message.                                               *)
LEMMA FlushKeeps ==
  ASSUME NEW b, NEW T, IsSeq(T), Distinct(T), Ros1Ok(b, T)
  PROVE  /\ Ros1Ok(FlushChunk(b), T) /\ Ros1Held(FlushChunk(b)) = Ros1Held(b) /\ FlushChunk(b).count = b.count
         /\ FlushChunk(b).chunk = <<>>
<1>1. CASE b.index = <<>>
  BY <1>1 DEF FlushChunk, Ros1Ok, ChunkOk
<1>2. CASE b.index # <<>>
  <2> DEFINE c == FlushChunk(b)
             data == [kind |-> "chunk", data |-> b.chunk]
             irs == IndexRecords(b)
             more == <<data>> \o irs
             k == Len(b.records) + 1
  <2>1. /\ DOMAIN c = DOMAIN b /\ c.topics = b.topics /\ c.embedded = b.embedded /\ c.count = b.count
        /\ c.chunk = <<>> /\ c.index = <<>> /\ AllIndex(irs) /\ c.records = b.records \o more
        /\ (\E info : c.chunks = Append(b.chunks, info))
        /\ RecordOk(c, k, Range(T)) /\ k \in ChunkAt(c) /\ c.records[k] = data
    BY <1>2, FlushRecords, Zenon
  <2>2. data.kind = "chunk" /\ data.data = b.chunk
    OBVIOUS
  <2>3. /\ DOMAIN b = DOMAIN NewBag(<<>>) /\ b.topics = T
        /\ IsSeq(b.records) /\ IsSeq(b.chunks) /\ IsSeq(b.chunk)
        /\ (\A i \in 1 .. Len(b.records) : b.records[i].kind \in {"chunk", "index"})
        /\ (\A i \in ChunkAt(b) : RecordOk(b, i, Range(T)))
        /\ (\A x \in Holds(b.chunk) : x.topic \in b.embedded)
        /\ (\A t \in b.embedded : Connects(b.chunk, t) \/ \E l \in ChunkAt(b) : Connects(b.records[l].data, t))
    BY DEF Ros1Ok, ChunkOk
  <2> HIDE DEF c, data, irs, k
  <2>4. /\ IsSeq(<<data>>) /\ Len(<<data>>) = 1 /\ <<data>>[1] = data /\ IsSeq(irs) /\ Len(irs) \in Nat
        /\ Len(b.records) \in Nat
    BY <2>1, <2>3, AppendIs, SeqFacts, Zenon DEF AllIndex
  <2>5. /\ IsSeq(more) /\ Len(more) = 1 + Len(irs) /\ more[1] = data
        /\ \A i \in 1 .. Len(irs) : more[1 + i] = irs[i]
    <3> DEFINE one == <<data>>
    <3>1. IsSeq(one) /\ Len(one) = 1 /\ one[1] = data
      BY <2>4
    <3>3. more = one \o irs
      BY DEF one
    <3> HIDE DEF one
    <3> DEFINE m == one \o irs
    <3>2. /\ IsSeq(m) /\ Len(m) = Len(one) + Len(irs) /\ (\A i \in 1 .. Len(one) : m[i] = one[i])
          /\ \A i \in 1 .. Len(irs) : m[Len(one) + i] = irs[i]
      <4>1. IsSeq(irs) /\ IsSeq(one)
        BY <2>4, <3>1
      <4> QED
        BY <4>1, ConcatFacts
    <3> HIDE DEF m
    <3>4. m = more
      BY <3>3 DEF m
    <3> HIDE DEF more
    <3>5. 1 \in 1 .. Len(one)
      BY <3>1
    <3>6. more[1] = one[1]
      BY <3>2, <3>4, <3>5
    <3> QED
      BY <3>1, <3>2, <3>4, <3>6
  <2>6. \A i \in 1 .. Len(more) : more[i].kind \in {"chunk", "index"}
    <3> SUFFICES ASSUME NEW i \in 1 .. Len(more) PROVE more[i].kind \in {"chunk", "index"}
      OBVIOUS
    <3>1. CASE i = 1
      BY <2>2, <2>5, <3>1
    <3>2. CASE i # 1
      <4>1. i - 1 \in 1 .. Len(irs) /\ 1 + (i - 1) = i
        BY <2>4, <2>5, <3>2
      <4>2. more[i] = irs[i - 1]
        BY <2>5, <4>1
      <4> QED
        BY <2>1, <4>1, <4>2 DEF AllIndex
    <3> QED
      BY <3>1, <3>2
  <2> HIDE DEF more
  <2>7. /\ IsSeq(c.records) /\ Len(c.records) = Len(b.records) + Len(more) /\ Len(more) \in Nat
        /\ (\A i \in 1 .. Len(b.records) : c.records[i] = b.records[i])
        /\ \A i \in 1 .. Len(more) : c.records[Len(b.records) + i] = more[i]
    <3> DEFINE s == b.records
               u == c.records
    <3>1. IsSeq(s) /\ u = s \o more
      BY <2>1, <2>3
    <3> HIDE DEF s, u
    <3>2. /\ IsSeq(u) /\ Len(u) = Len(s) + Len(more) /\ Len(more) \in Nat
          /\ (\A i \in 1 .. Len(s) : u[i] = s[i])
          /\ \A i \in 1 .. Len(more) : u[Len(s) + i] = more[i]
      <4>1. IsSeq(more) /\ IsSeq(s) /\ u = s \o more
        BY <2>5, <3>1
      <4>2. Len(more) \in Nat
        BY <4>1, SeqFacts
      <4> QED
        BY <4>1, <4>2, ConcatFacts
    <3> QED
      BY <3>2 DEF s, u
  <2>8. DOMAIN c.records = 1 .. Len(b.records) + Len(more)
    BY <2>7, SeqFacts
  <2>9. ASSUME NEW i \in 1 .. Len(c.records), i \notin 1 .. Len(b.records)
        PROVE  i - Len(b.records) \in 1 .. Len(more) /\ c.records[i] = more[i - Len(b.records)]
    <3>1. i - Len(b.records) \in 1 .. Len(more) /\ Len(b.records) + (i - Len(b.records)) = i
      BY <2>4, <2>7, <2>9
    <3> QED
      BY <2>7, <3>1, Zenon
  <2>10. \A i \in 1 .. Len(c.records) : c.records[i].kind \in {"chunk", "index"}
    BY <2>3, <2>6, <2>7, <2>9, Zenon
  <2>11. ASSUME NEW i \in ChunkAt(c) PROVE i \in ChunkAt(b) \/ i = k
    <3>1. i \in 1 .. Len(c.records) /\ c.records[i].kind = "chunk"
      BY <2>7, <2>8 DEF ChunkAt
    <3>2. CASE i \in 1 .. Len(b.records)
      BY <2>3, <2>7, <3>1, <3>2, SeqFacts, Zenon DEF ChunkAt
    <3>3. CASE i \notin 1 .. Len(b.records)
      <4> DEFINE j == i - Len(b.records)
      <4>1. j \in 1 .. Len(more) /\ c.records[i] = more[j]
        BY <2>9, <3>1, <3>3
      <4>2. CASE j = 1
        BY <2>4, <3>1, <4>2 DEF k
      <4>3. CASE j # 1
        <5>1. j - 1 \in 1 .. Len(irs) /\ 1 + (j - 1) = j
          BY <2>4, <2>5, <4>1, <4>3
        <5>2. more[j] = irs[j - 1]
          BY <2>5, <5>1, Zenon
        <5>3. irs[j - 1].kind = "index"
          BY <2>1, <5>1 DEF AllIndex
        <5> QED
          BY <3>1, <4>1, <5>2, <5>3
      <4> QED
        BY <4>2, <4>3
    <3> QED
      BY <3>2, <3>3
  <2>12. IsSeq(c.chunks) /\ \A i \in DOMAIN b.chunks : i \in DOMAIN c.chunks /\ c.chunks[i] = b.chunks[i]
    <3>1. PICK info : c.chunks = Append(b.chunks, info)
      BY <2>1
    <3>2. /\ IsSeq(c.chunks) /\ Len(c.chunks) = Len(b.chunks) + 1 /\ Len(b.chunks) \in Nat
          /\ \A i \in 1 .. Len(b.chunks) : c.chunks[i] = b.chunks[i]
      BY <2>3, <3>1, AppendFacts, SeqFacts
    <3>3. DOMAIN c.chunks = 1 .. Len(b.chunks) + 1 /\ DOMAIN b.chunks = 1 .. Len(b.chunks)
      BY <2>3, <3>2, SeqFacts
    <3> QED
      BY <3>2, <3>3
  <2>13. \A i \in ChunkAt(b) : i \in ChunkAt(c) /\ c.records[i] = b.records[i] /\ RecordOk(c, i, Range(T))
    <3>1. more # <<>> => more[1].kind # "index"
      BY <2>2, <2>5
    <3> QED
      BY <2>1, <2>3, <2>5, <2>12, <3>1, RecordStays, Zenon
  <2>14. \A i \in ChunkAt(c) : RecordOk(c, i, Range(T))
    BY <2>1, <2>11, <2>13
  <2>15. \A t \in c.embedded : \E l \in ChunkAt(c) : Connects(c.records[l].data, t)
    <3> SUFFICES ASSUME NEW t \in b.embedded PROVE \E l \in ChunkAt(c) : Connects(c.records[l].data, t)
      BY <2>1, Zenon
    <3>1. CASE Connects(b.chunk, t)
      BY <2>1, <2>2, <3>1, Zenon
    <3>2. CASE \E l \in ChunkAt(b) : Connects(b.records[l].data, t)
      BY <2>13, <3>2
    <3> QED
      BY <2>3, <3>1, <3>2
  <2>16. Ros1Ok(c, T)
    BY <2>1, <2>3, <2>7, <2>10, <2>12, <2>14, <2>15, NothingOpen, Zenon DEF Ros1Ok
  <2>17. Carried(more) = MessagesOf(b.chunk) /\ Carries(more)
    <3>1. MessagesOf(b.chunk) = Payload(data) /\ IsSeq(Payload(data))
      BY <2>2, <2>3, MessagesOfAre DEF Payload
    <3> DEFINE one == <<data>>
    <3>2. IsSeq(one) /\ Len(one) = 1 /\ one[1] = data /\ DOMAIN one = 1 .. 1
      BY <2>4
    <3>3. more = one \o irs
      BY DEF more
    <3> HIDE DEF one
    <3>4. Carries(one)
      BY <3>1, <3>2 DEF Carries
    <3>5. Carries(irs) /\ Carried(irs) = <<>>
      <4>1. \A i \in 1 .. Len(irs) : irs[i].kind # "chunk"
        BY <2>1 DEF AllIndex
      <4>2. Carries(irs)
        BY <2>4, <4>1, EmptyFacts DEF Carries, Payload
      <4> QED
        BY <4>1, <4>2, PayloadsAre
    <3>6. Carried(one) = Payload(data)
      <4> DEFINE m == Payload(data)
                 p == Payloads(one)
                 a == Append(<<>>, m)
      <4>1. IsSeq(p) /\ Len(p) = 1 /\ p[1] = m
        BY <3>2, <3>4, PayloadsAre DEF IsSeqs
      <4> HIDE DEF m
      <4>2. IsSeq(a) /\ Len(a) = 1 /\ a[1] = m
        <5> DEFINE z == <<>>
        <5>1. IsSeq(z) /\ Len(z) = 0
          BY EmptyFacts
        <5>2. a = Append(z, m)
          OBVIOUS
        <5> HIDE DEF z, a
        <5>3. IsSeq(a) /\ Len(a) = Len(z) + 1 /\ a[Len(z) + 1] = m
          BY <5>1, <5>2, AppendFacts, Zenon
        <5>4. Len(z) + 1 = 1
          BY <5>1
        <5> QED
          BY <5>3, <5>4
      <4> USE DEF m
      <4>3. FlattenSeq(a) = <<>> \o m
        BY <3>1, FlatEmpty, FlatAppend, Zenon
      <4>4. <<>> \o m = m
        BY <3>1, ConcatEmpty
      <4> HIDE DEF p, a, m
      <4>5. p = a
        BY <4>1, <4>2, SameElements
      <4> QED
        BY <4>3, <4>4, <4>5 DEF Carried, p, m
    <3>7. Carried(more) = Carried(one) \o Carried(irs) /\ Carries(more)
      BY <3>3, <3>4, <3>5, CarriedConcat, Zenon
    <3>8. Payload(data) \o <<>> = Payload(data)
      BY <3>1, ConcatEmpty
    <3> QED
      BY <3>1, <3>5, <3>6, <3>7, <3>8
  <2>18. Ros1Held(c) = Ros1Held(b)
    <3>1. Carries(b.records) /\ IsSeq(Carried(b.records)) /\ IsSeq(MessagesOf(b.chunk))
      BY Ros1Carries
    <3>2. Carried(c.records) = Carried(b.records) \o MessagesOf(b.chunk)
      BY <2>1, <2>17, <3>1, CarriedConcat
    <3>3. MessagesOf(c.chunk) = <<>>
      BY <2>1, <2>3, MessagesOfAre
    <3>4. IsSeq(Carried(b.records) \o MessagesOf(b.chunk))
      BY <3>1, ConcatFacts
    <3> QED
      BY <3>2, <3>3, <3>4, ConcatEmpty DEF Ros1Held
  <2> QED
    BY <2>1, <2>16, <2>18 DEF c
<1> QED
  BY <1>1, <1>2
--------------------------------------------------------------------------------
(***************************************************************************)
(* A message that enters a bag.                                            *)
(***************************************************************************)
MessageOk(m, T) == m.kind = "message" /\ m.topic \in Range(T) /\ m.at \in Int

LEMMA ConnectsAppend ==
  ASSUME NEW chunk, IsSeq(chunk), NEW e, NEW t
  PROVE  /\ Connects(chunk, t) => Connects(Append(chunk, e), t)
         /\ e.kind = "connection" /\ e.topic = t => Connects(Append(chunk, e), t)
<1> DEFINE c == Append(chunk, e)
<1>1. /\ IsSeq(c) /\ Len(c) = Len(chunk) + 1 /\ c[Len(chunk) + 1] = e /\ Len(chunk) \in Nat
      /\ DOMAIN chunk = 1 .. Len(chunk) /\ \A i \in 1 .. Len(chunk) : c[i] = chunk[i]
  BY AppendFacts, SeqFacts
<1> HIDE DEF c
<1>2. DOMAIN c = 1 .. Len(chunk) + 1
  BY <1>1, SeqFacts
<1>3. Connects(chunk, t) => Connects(c, t)
  <2> SUFFICES ASSUME NEW i \in DOMAIN chunk, chunk[i].kind = "connection", chunk[i].topic = t PROVE Connects(c, t)
    BY DEF Connects
  <2>1. i \in DOMAIN c /\ c[i] = chunk[i]
    BY <1>1, <1>2
  <2> QED
    BY <2>1 DEF Connects
<1>4. e.kind = "connection" /\ e.topic = t => Connects(c, t)
  <2>1. Len(chunk) + 1 \in DOMAIN c
    BY <1>1, <1>2
  <2> QED
    BY <1>1, <2>1 DEF Connects
<1> QED
  BY <1>3, <1>4 DEF c

(* The records stay what they are when only the open chunk grows.          *)
LEMMA SameRecords ==
  ASSUME NEW b, NEW c, NEW T, IsSeq(b.records), c.records = b.records, c.chunks = b.chunks,
         NEW k \in ChunkAt(b), RecordOk(b, k, T)
  PROVE  k \in ChunkAt(c) /\ RecordOk(c, k, T)
<1> DEFINE more == <<>>
<1>1. IsSeq(more) /\ c.records = b.records \o more /\ (more # <<>> => more[1].kind # "index")
  BY EmptyFacts, ConcatEmpty
<1> HIDE DEF more
<1>2. \A i \in DOMAIN b.chunks : i \in DOMAIN c.chunks /\ c.chunks[i] = b.chunks[i]
  OBVIOUS
<1> QED
  BY <1>1, <1>2, RecordStays, Zenon

LEMMA Ros1MessageKeeps ==
  ASSUME NEW b, NEW T, IsSeq(T), Distinct(T), Ros1Ok(b, T), NEW m, MessageOk(m, T)
  PROVE  Ros1Ok(Ros1Message(b, m), T) /\ Ros1Held(Ros1Message(b, m)) = Append(Ros1Held(b), m)
<1> DEFINE connection == [kind |-> "connection", topic |-> m.topic]
           known == IF m.topic \in b.embedded THEN b.chunk ELSE Append(b.chunk, connection)
           entry == [topic |-> m.topic, at |-> m.at, offset |-> Len(known)]
           next  == [b EXCEPT
                       !.embedded = @ \cup {m.topic},
                       !.chunk    = Append(known, m),
                       !.index    = Append(@, entry),
                       !.count    = @ + 1]
<1>1. Ros1Message(b, m) = IF Len(next.chunk) >= ChunkTarget THEN FlushChunk(next) ELSE next
  BY DEF Ros1Message
<1>2. /\ DOMAIN b = DOMAIN NewBag(<<>>) /\ b.topics = T
      /\ IsSeq(b.records) /\ IsSeq(b.chunks) /\ IsSeq(b.chunk)
      /\ (\A i \in 1 .. Len(b.records) : b.records[i].kind \in {"chunk", "index"})
      /\ ChunkOk(b.chunk, b.index, Range(T))
      /\ (\A i \in ChunkAt(b) : RecordOk(b, i, Range(T)))
      /\ (\A x \in Holds(b.chunk) : x.topic \in b.embedded)
      /\ (\A t \in b.embedded : Connects(b.chunk, t) \/ \E l \in ChunkAt(b) : Connects(b.records[l].data, t))
  BY DEF Ros1Ok, ChunkOk
<1>3. {"embedded", "chunk", "index", "count", "records", "chunks", "topics"} \subseteq DOMAIN b
  BY <1>2 DEF NewBag
<1>4. m.kind = "message" /\ m.topic \in Range(T) /\ m.at \in Int
  BY DEF MessageOk
<1>5. connection.kind = "connection" /\ connection.topic = m.topic
  OBVIOUS
<1> HIDE DEF connection
<1>6. known = b.chunk \/ \E e : e.kind # "message" /\ known = Append(b.chunk, e)
  <2>1. "connection" # "message"
    OBVIOUS
  <2> QED
    BY <1>5, <2>1
<1>7. IsSeq(known) /\ MessagesOf(known) = MessagesOf(b.chunk)
  BY <1>2, <1>6, AppendFacts, MessagesOfAre
<1>8. ASSUME NEW t, t \in b.embedded \/ t = m.topic
      PROVE  Connects(known, t) \/ \E l \in ChunkAt(b) : Connects(b.records[l].data, t)
  <2>1. Connects(b.chunk, t) => Connects(known, t)
    BY <1>2, ConnectsAppend
  <2>2. CASE t \in b.embedded
    BY <1>2, <2>1, <2>2
  <2>3. CASE t \notin b.embedded
    BY <1>2, <1>5, <1>8, <2>3, ConnectsAppend
  <2> QED
    BY <2>2, <2>3
<1> HIDE DEF known
<1>9. /\ DOMAIN next = DOMAIN b /\ next.topics = b.topics /\ next.records = b.records /\ next.chunks = b.chunks
      /\ next.embedded = b.embedded \cup {m.topic} /\ next.chunk = Append(known, m)
      /\ next.index = Append(b.index, entry)
  BY <1>3
<1>10. /\ ChunkOk(Append(known, m), Append(b.index, entry), Range(T))
       /\ \A x \in Holds(Append(known, m)) : x \in Holds(b.chunk) \/ x.topic = m.topic
  <2> DEFINE ch == b.chunk
             ix == b.index
             R == Range(T)
  <2>1. /\ ChunkOk(ch, ix, R) /\ m.kind = "message" /\ m.topic \in R /\ m.at \in Int
        /\ SameOrOpened(ch, known)
    BY <1>2, <1>4, <1>6 DEF SameOrOpened
  <2> HIDE DEF ch, ix, R
  <2>2. /\ ChunkOk(Append(known, m), Append(ix, entry), R)
        /\ \A x \in Holds(Append(known, m)) : x \in Holds(ch) \/ x.topic = m.topic
    BY <2>1, ChunkGrows
  <2> QED
    BY <2>2 DEF ch, ix, R
<1> HIDE DEF next, entry
<1>11. Ros1Ok(next, T)
  <2>1. \A k \in ChunkAt(b) : k \in ChunkAt(next) /\ RecordOk(next, k, Range(T))
    BY <1>2, <1>9, SameRecords, Zenon
  <2>2. ChunkAt(next) = ChunkAt(b)
    BY <1>9 DEF ChunkAt
  <2>3. \A x \in Holds(next.chunk) : x.topic \in next.embedded
    BY <1>2, <1>9, <1>10
  <2>4. ASSUME NEW t \in next.embedded
        PROVE  Connects(next.chunk, t) \/ \E l \in ChunkAt(next) : Connects(next.records[l].data, t)
    <3>1. Connects(known, t) \/ \E l \in ChunkAt(b) : Connects(b.records[l].data, t)
      BY <1>8, <1>9
    <3>2. Connects(known, t) => Connects(next.chunk, t)
      BY <1>7, <1>9, ConnectsAppend
    <3> QED
      BY <1>9, <2>2, <3>1, <3>2
  <2>5. ChunkOk(next.chunk, next.index, Range(T))
    BY <1>9, <1>10
  <2>6. /\ DOMAIN next = DOMAIN NewBag(<<>>) /\ next.topics = T /\ IsSeq(next.records) /\ IsSeq(next.chunks)
        /\ \A k \in 1 .. Len(next.records) : next.records[k].kind \in {"chunk", "index"}
    BY <1>2, <1>9
  <2>7. \A k \in ChunkAt(next) : RecordOk(next, k, Range(T))
    BY <2>1, <2>2
  <2> QED
    BY <2>3, <2>4, <2>5, <2>6, <2>7 DEF Ros1Ok
<1>12. Ros1Held(next) = Append(Ros1Held(b), m)
  <2>1. IsSeq(Carried(b.records)) /\ IsSeq(MessagesOf(b.chunk))
    BY Ros1Carries
  <2>2. MessagesOf(next.chunk) = Append(MessagesOf(b.chunk), m)
    BY <1>4, <1>7, <1>9, MessagesOfAre
  <2>3. Carried(next.records) = Carried(b.records)
    BY <1>9
  <2>4. Ros1Held(next) = Carried(b.records) \o Append(MessagesOf(b.chunk), m)
    BY <2>2, <2>3 DEF Ros1Held
  <2> QED
    BY <2>1, <2>4, ConcatAppend DEF Ros1Held
<1>13. CASE Len(next.chunk) >= ChunkTarget
  <2>1. Ros1Ok(FlushChunk(next), T) /\ Ros1Held(FlushChunk(next)) = Ros1Held(next)
    BY <1>11, FlushKeeps
  <2> QED
    BY <1>1, <1>12, <1>13, <2>1
<1>14. CASE ~ (Len(next.chunk) >= ChunkTarget)
  BY <1>1, <1>11, <1>12, <1>14
<1> QED
  BY <1>13, <1>14

(* The bag of either format.                                               *)
Ros2Ok(b, T) ==
  /\ DOMAIN b = DOMAIN NewBag(<<>>) /\ b.topics = T /\ IsSeq(b.records) /\ b.count = Len(b.records)
  /\ \A i \in 1 .. Len(b.records) : b.records[i].topic \in Range(T) /\ b.records[i].at \in Int
BagOk(format, b, T) == IF format = "ros1" THEN Ros1Ok(b, T) ELSE Ros2Ok(b, T)
BagHeld(format, b)  == IF format = "ros1" THEN Ros1Held(b) ELSE b.records

LEMMA NewBagIs ==
  ASSUME NEW format, NEW T
  PROVE  BagOk(format, NewBag(T), T) /\ BagHeld(format, NewBag(T)) = <<>>
<1> DEFINE b == NewBag(T)
           z == <<>>
<1>1. /\ DOMAIN b = DOMAIN NewBag(<<>>) /\ b.topics = T /\ b.records = z /\ b.chunk = z /\ b.embedded = {}
      /\ b.index = z /\ b.chunks = z /\ b.count = 0
  BY DEF NewBag
<1>2. IsSeq(z) /\ Len(z) = 0 /\ DOMAIN z = {} /\ ChunkOk(z, z, Range(T)) /\ Holds(z) = {}
  BY EmptyFacts, NothingOpen
<1>3. MessagesOf(z) = z
  BY EmptyFacts, MessagesOfAre
<1> HIDE DEF b
<1>4. 1 .. 0 = {}
  OBVIOUS
<1> HIDE DEF z
<1>5. Ros1Ok(b, T)
  <2>1. ChunkAt(b) = {}
    BY <1>1, <1>2 DEF ChunkAt
  <2> QED
    BY <1>1, <1>2, <1>4, <2>1 DEF Ros1Ok
<1>6. Ros2Ok(b, T)
  BY <1>1, <1>2, <1>4 DEF Ros2Ok
<1>7. Ros1Held(b) = z
  <2>1. Carries(z)
    BY <1>2, <1>4 DEF Carries
  <2>2. Carried(z) = <<>>
    BY <1>2, <1>4, <2>1, PayloadsAre
  <2> QED
    BY <1>1, <1>2, <1>3, <2>2, ConcatEmpty DEF Ros1Held, z
<1> QED
  BY <1>1, <1>5, <1>6, <1>7 DEF BagOk, BagHeld, b, z

LEMMA PutKeeps ==
  ASSUME NEW b, NEW T, IsSeq(T), Distinct(T), BagOk(request.format, b, T), NEW m, MessageOk(m, T)
  PROVE  /\ BagOk(request.format, Put(b, m), T)
         /\ BagHeld(request.format, Put(b, m)) = Append(BagHeld(request.format, b), m)
<1>1. CASE request.format = "ros1"
  BY <1>1, Ros1MessageKeeps DEF BagOk, BagHeld, Put
<1>2. CASE request.format # "ros1"
  <2> DEFINE c == Ros2Message(b, m)
             s == b.records
  <2>1. /\ DOMAIN b = DOMAIN NewBag(<<>>) /\ b.topics = T /\ IsSeq(s) /\ b.count = Len(s)
        /\ \A i \in 1 .. Len(s) : s[i].topic \in Range(T) /\ s[i].at \in Int
    BY <1>2 DEF BagOk, Ros2Ok
  <2>2. {"records", "count", "topics"} \subseteq DOMAIN b
    BY <2>1 DEF NewBag
  <2>3. DOMAIN c = DOMAIN b /\ c.topics = b.topics /\ c.records = Append(b.records, m) /\ c.count = b.count + 1
    BY <2>2 DEF Ros2Message
  <2> DEFINE u == c.records
  <2>4. u = Append(s, m)
    BY <2>3
  <2> HIDE DEF c, s, u
  <2>5. IsSeq(u) /\ Len(u) = Len(s) + 1 /\ u[Len(s) + 1] = m /\ Len(s) \in Nat /\ \A i \in 1 .. Len(s) : u[i] = s[i]
    BY <2>1, <2>4, AppendFacts, SeqFacts
  <2>6. ASSUME NEW i \in 1 .. Len(u) PROVE u[i].topic \in Range(T) /\ u[i].at \in Int
    <3>1. CASE i \in 1 .. Len(s)
      BY <2>1, <2>5, <3>1
    <3>2. CASE i \notin 1 .. Len(s)
      <4>1. i = Len(s) + 1
        BY <2>5, <3>2
      <4> QED
        BY <2>5, <4>1 DEF MessageOk
    <3> QED
      BY <3>1, <3>2
  <2>7. Ros2Ok(c, T)
    BY <2>1, <2>3, <2>5, <2>6 DEF Ros2Ok, u
  <2> QED
    BY <1>2, <2>3, <2>7 DEF BagOk, BagHeld, Put, c
<1> QED
  BY <1>1, <1>2

LEMMA BagSeq ==
  ASSUME NEW format, NEW b, NEW T, BagOk(format, b, T)
  PROVE  IsSeq(BagHeld(format, b)) /\ b.topics = T
BY Ros1Carries DEF BagOk, BagHeld, Ros1Ok, Ros2Ok

LEMMA PutAllKeeps ==
  ASSUME NEW b, NEW T, IsSeq(T), Distinct(T), BagOk(request.format, b, T), NEW s, IsSeq(s),
         \A i \in 1 .. Len(s) : MessageOk(s[i], T)
  PROVE  /\ BagOk(request.format, PutAll(b, s), T)
         /\ BagHeld(request.format, PutAll(b, s)) = BagHeld(request.format, b) \o s
<1> DEFINE n == Len(s)
           held(c) == BagHeld(request.format, c)
<1>1. PICK it : /\ it[0] = b /\ \A k \in 1 .. n : it[k] = Put(it[k - 1], s[k])
                /\ PutAll(b, s) = it[n]
  <2>1. s \in Seq(Range(s))
    BY DEF IsSeq
  <2> QED
    BY <2>1, FilledSteps
<1>2. n \in Nat /\ IsSeq(held(b))
  BY SeqFacts, BagSeq
<1>3. /\ SubSeq(s, 1, 0) = <<>> /\ SubSeq(s, 1, n) = s
      /\ \A k \in 0 .. n : IsSeq(SubSeq(s, 1, k))
      /\ \A k \in 1 .. n : SubSeq(s, 1, k) = Append(SubSeq(s, 1, k - 1), s[k])
  BY PrefixFacts
<1>4. \A k \in 1 .. n : MessageOk(s[k], T)
  OBVIOUS
<1> HIDE DEF n, held
<1> DEFINE good == {k \in 0 .. n : BagOk(request.format, it[k], T) /\ held(it[k]) = held(b) \o SubSeq(s, 1, k)}
<1>5. 0 \in good
  <2>1. held(b) \o SubSeq(s, 1, 0) = held(b)
    BY <1>2, <1>3, ConcatEmpty, Zenon
  <2>2. 0 \in 0 .. n
    BY <1>2
  <2> QED
    BY <1>1, <2>1, <2>2
<1>6. ASSUME NEW k \in 1 .. n, k - 1 \in good PROVE k \in good
  <2>1. k - 1 \in 0 .. n /\ k \in 0 .. n
    BY <1>2
  <2>2. BagOk(request.format, it[k], T) /\ held(it[k]) = Append(held(it[k - 1]), s[k])
    BY <1>1, <1>4, <1>6, PutKeeps, Zenon DEF held
  <2>3. held(it[k]) = Append(held(b) \o SubSeq(s, 1, k - 1), s[k])
    BY <1>6, <2>2, Zenon
  <2>4. held(b) \o Append(SubSeq(s, 1, k - 1), s[k]) = Append(held(b) \o SubSeq(s, 1, k - 1), s[k])
    BY <1>2, <1>3, <2>1, ConcatAppend
  <2> QED
    BY <1>3, <2>1, <2>2, <2>3, <2>4, Zenon
<1> HIDE DEF good
<1>7. \A k \in 0 .. n : k \in good
  BY <1>2, <1>5, <1>6, Upward, Zenon
<1>8. n \in good
  BY <1>2, <1>7
<1> QED
  BY <1>1, <1>3, <1>8, Zenon DEF good, held
(***************************************************************************)
(* The bag that is closed.                                                 *)
(***************************************************************************)
(* What is written behind the chunks of a ROS1 bag.                        *)
Connections(topics) == [i \in DOMAIN topics |-> [kind |-> "connection", topic |-> topics[i]]]
ChunkInfos(chunks)  == [i \in DOMAIN chunks |-> [kind |-> "chunkInfo", chunk |-> chunks[i]]]
LEMMA TailIs ==
  ASSUME NEW T, IsSeq(T), T # <<>>, NEW chunks, IsSeq(chunks)
  PROVE  LET more == Connections(T) \o ChunkInfos(chunks)
         IN  /\ IsSeq(more) /\ Len(T) <= Len(more) /\ Len(T) \in Nat /\ Len(T) >= 1
             /\ \A i \in 1 .. Len(T) : more[i].kind = "connection" /\ more[i].topic = T[i]
             /\ \A i \in 1 .. Len(more) : i \notin 1 .. Len(T) => more[i].kind = "chunkInfo"
             /\ Carries(more) /\ Carried(more) = <<>>
             /\ IsSeq(Connections(T)) /\ IsSeq(ChunkInfos(chunks))
<1> DEFINE s == Connections(T)
           t == ChunkInfos(chunks)
           more == s \o t
<1>1. /\ Len(T) \in Nat /\ DOMAIN T = 1 .. Len(T) /\ Len(T) # 0
      /\ Len(chunks) \in Nat /\ DOMAIN chunks = 1 .. Len(chunks)
  BY SeqFacts
<1>2. IsSeq(s) /\ Len(s) = Len(T) /\ \A i \in 1 .. Len(T) : s[i].kind = "connection" /\ s[i].topic = T[i]
  <2>1. s = [i \in 1 .. Len(T) |-> s[i]]
    BY <1>1 DEF Connections
  <2>2. \A i \in 1 .. Len(T) : s[i].kind = "connection" /\ s[i].topic = T[i]
    BY <1>1 DEF Connections
  <2> HIDE DEF s
  <2> QED
    BY <1>1, <2>1, <2>2, FunSeq, Zenon
<1>3. IsSeq(t) /\ \A i \in 1 .. Len(t) : t[i].kind = "chunkInfo"
  <2>1. t = [i \in 1 .. Len(chunks) |-> t[i]]
    BY <1>1 DEF ChunkInfos
  <2>2. \A i \in 1 .. Len(chunks) : t[i].kind = "chunkInfo"
    BY <1>1 DEF ChunkInfos
  <2> HIDE DEF t
  <2>3. IsSeq(t) /\ Len(t) = Len(chunks)
    BY <1>1, <2>1, FunSeq
  <2> QED
    BY <2>2, <2>3
<1> HIDE DEF s, t
<1>4. /\ IsSeq(more) /\ Len(more) = Len(s) + Len(t) /\ Len(t) \in Nat
      /\ (\A i \in 1 .. Len(s) : more[i] = s[i])
      /\ \A i \in 1 .. Len(t) : more[Len(s) + i] = t[i]
  <2>1. IsSeq(s) /\ IsSeq(t)
    BY <1>2, <1>3
  <2>2. Len(t) \in Nat
    BY <2>1, SeqFacts
  <2> QED
    BY <2>1, <2>2, ConcatFacts
<1> HIDE DEF more
<1>5. ASSUME NEW i \in 1 .. Len(more), i \notin 1 .. Len(T) PROVE more[i].kind = "chunkInfo"
  <2>1. i - Len(s) \in 1 .. Len(t) /\ Len(s) + (i - Len(s)) = i
    BY <1>1, <1>2, <1>4, <1>5
  <2>2. more[i] = t[i - Len(s)]
    BY <1>4, <2>1
  <2> QED
    BY <1>3, <2>1, <2>2
<1>6. \A i \in 1 .. Len(T) : more[i].kind = "connection" /\ more[i].topic = T[i]
  BY <1>2, <1>4
<1>7. \A i \in 1 .. Len(more) : more[i].kind # "chunk"
  BY <1>5, <1>6
<1>8. Carries(more)
  BY <1>4, <1>7, EmptyFacts DEF Carries, Payload
<1>9. Carried(more) = <<>>
  BY <1>7, <1>8, PayloadsAre
<1>10. Len(T) <= Len(more) /\ Len(T) >= 1
  BY <1>1, <1>2, <1>4
<1> QED
  BY <1>1, <1>2, <1>3, <1>4, <1>5, <1>6, <1>8, <1>9, <1>10 DEF more, s, t

LEMMA Ros1FinishedIs ==
  ASSUME NEW b, NEW T, IsSeq(T), Distinct(T), T # <<>>, Ros1Ok(b, T)
  PROVE  /\ Ros1Indexed(Ros1Finished(b)) /\ Carries(Ros1Finished(b).records)
         /\ Carried(Ros1Finished(b).records) = Ros1Held(b)
<1> DEFINE f == FlushChunk(b)
           s == f.records
           c == Ros1Finished(b)
           u == c.records
           more == Connections(T) \o ChunkInfos(f.chunks)
<1>1. Ros1Ok(f, T) /\ Ros1Held(f) = Ros1Held(b) /\ f.chunk = <<>>
  BY FlushKeeps
<1>2. /\ DOMAIN f = DOMAIN NewBag(<<>>) /\ f.topics = T /\ IsSeq(s) /\ IsSeq(f.chunks)
      /\ (\A k \in 1 .. Len(s) : s[k].kind \in {"chunk", "index"})
      /\ \A k \in ChunkAt(f) : RecordOk(f, k, Range(T))
  BY <1>1 DEF Ros1Ok
<1>3. /\ c.topics = T /\ c.chunks = f.chunks /\ c.indexAt = Len(s) + 1
      /\ u = (s \o Connections(T)) \o ChunkInfos(f.chunks)
  <2>1. {"records", "indexAt", "topics", "chunks"} \subseteq DOMAIN f
    BY <1>2 DEF NewBag
  <2>2. c = [f EXCEPT !.records = @ \o Connections(f.topics) \o ChunkInfos(f.chunks), !.indexAt = Len(f.records) + 1]
    BY DEF Ros1Finished, Connections, ChunkInfos
  <2> HIDE DEF f, c
  <2> QED
    BY <1>2, <2>1, <2>2
<1>4. /\ IsSeq(more) /\ Len(T) <= Len(more) /\ Len(T) \in Nat /\ Len(T) >= 1
      /\ (\A i \in 1 .. Len(T) : more[i].kind = "connection" /\ more[i].topic = T[i])
      /\ (\A i \in 1 .. Len(more) : i \notin 1 .. Len(T) => more[i].kind = "chunkInfo")
      /\ Carries(more) /\ Carried(more) = <<>>
      /\ IsSeq(Connections(T)) /\ IsSeq(ChunkInfos(f.chunks))
  BY <1>2, TailIs
<1> HIDE DEF c, f
<1>5. u = s \o more
  <2> DEFINE A == Connections(T)
             B == ChunkInfos(f.chunks)
  <2>1. IsSeq(s) /\ IsSeq(A) /\ IsSeq(B) /\ u = (s \o A) \o B
    BY <1>2, <1>3, <1>4
  <2> HIDE DEF A, B, s, u
  <2>2. u = s \o (A \o B)
    BY <2>1, ConcatAssoc
  <2> QED
    BY <2>2 DEF A, B
<1> HIDE DEF more
<1>6. u = c.records /\ s = f.records
  OBVIOUS
<1> HIDE DEF u, s
<1>7. /\ IsSeq(u) /\ Len(u) = Len(s) + Len(more) /\ Len(s) \in Nat /\ Len(more) \in Nat
      /\ (\A i \in 1 .. Len(s) : u[i] = s[i])
      /\ \A i \in 1 .. Len(more) : u[Len(s) + i] = more[i]
  <2>1. IsSeq(more) /\ IsSeq(s)
    BY <1>2, <1>4
  <2>2. Len(s) \in Nat /\ Len(more) \in Nat
    BY <2>1, SeqFacts
  <2> QED
    BY <1>5, <2>1, <2>2, ConcatFacts
<1>8. DOMAIN u = 1 .. Len(s) + Len(more)
  BY <1>7, SeqFacts
<1>9. ASSUME NEW k \in 1 .. Len(u), k \notin 1 .. Len(s)
      PROVE  k - Len(s) \in 1 .. Len(more) /\ u[k] = more[k - Len(s)]
  <2>1. k - Len(s) \in 1 .. Len(more) /\ Len(s) + (k - Len(s)) = k
    BY <1>7, <1>9
  <2> QED
    BY <1>7, <2>1
<1>10. \A k \in 1 .. Len(u) : k \notin 1 .. Len(s) => u[k].kind # "chunk"
  BY <1>4, <1>9, Zenon
<1>11. \A k \in ChunkAt(c) : k \in ChunkAt(f)
  <2>1. \A k \in ChunkAt(c) : k \in 1 .. Len(u) /\ u[k].kind = "chunk"
    BY <1>6, <1>7, <1>8 DEF ChunkAt
  <2>2. DOMAIN s = 1 .. Len(s)
    BY <1>2, SeqFacts
  <2> QED
    BY <1>6, <1>7, <1>10, <2>1, <2>2 DEF ChunkAt
<1>12. ASSUME NEW k \in ChunkAt(c) PROVE RecordOk(c, k, Range(T))
  <2>1. more # <<>> => more[1].kind # "index"
    <3>1. 1 \in 1 .. Len(T)
      BY <1>4
    <3> QED
      BY <1>4, <3>1
  <2>2. \A i \in DOMAIN f.chunks : i \in DOMAIN c.chunks /\ c.chunks[i] = f.chunks[i]
    BY <1>3
  <2>3. k \in ChunkAt(f) /\ RecordOk(f, k, Range(T))
    BY <1>2, <1>11
  <2>4. IsSeq(f.records) /\ IsSeq(more) /\ c.records = f.records \o more
    BY <1>2, <1>4, <1>5, <1>6, Zenon
  <2> QED
    BY <2>1, <2>2, <2>3, <2>4, RecordStays, Zenon
<1>13. ASSUME NEW k \in ChunkAt(c)
       PROVE  /\ Range(IndexOf(c, k)) = Holds(c.records[k].data)
              /\ Len(IndexOf(c, k)) = Cardinality(Holds(c.records[k].data))
              /\ \E i \in DOMAIN c.chunks : Described(c, k, c.chunks[i])
              /\ \A m \in Holds(c.records[k].data) :
                   m.topic \in Range(c.topics) /\ DeclaredBefore(c, k, m.topic)
  <2>1. RecordOk(c, k, Range(T))
    BY <1>12
  <2>2. PICK n \in Nat : Indexed(c, k, n)
    BY <2>1 DEF RecordOk
  <2> DEFINE es == EntriesAfter(c.records, k, n)
  <2>3. EndsIndex(c, k, n) /\ IsSeq(es) /\ Distinct(es) /\ Range(es) = Holds(c.records[k].data)
    BY <2>2 DEF Indexed
  <2>4. IndexOf(c, k) = es
    <3>1. k \in 1 .. Len(c.records)
      BY <1>6, <1>7, <1>8 DEF ChunkAt
    <3> QED
      BY <1>6, <1>7, <2>3, <3>1, IndexIs
  <2> HIDE DEF es
  <2>5. Len(es) = Cardinality(Range(es))
    BY <2>3, DistinctCount
  <2> QED
    BY <1>3, <2>1, <2>3, <2>4, <2>5 DEF RecordOk
<1>14. c.indexAt > 0 /\ u[c.indexAt].kind = "connection"
  <2>1. 1 \in 1 .. Len(T) /\ 1 \in 1 .. Len(more)
    BY <1>4, <1>7
  <2>2. u[Len(s) + 1] = more[1]
    BY <1>7, <2>1
  <2>3. more[1].kind = "connection"
    BY <1>4, <2>1
  <2>4. c.indexAt = Len(s) + 1 /\ Len(s) + 1 > 0
    BY <1>3, <1>7
  <2> QED
    BY <2>2, <2>3, <2>4
<1>15. \A k \in c.indexAt .. Len(u) : k \in 1 .. Len(u) /\ k \notin 1 .. Len(s) /\ u[k].kind # "chunk"
  <2>1. \A k \in c.indexAt .. Len(u) : k \in 1 .. Len(u) /\ k \notin 1 .. Len(s)
    BY <1>3, <1>7
  <2> QED
    BY <1>10, <2>1
<1>16. {u[k].topic : k \in {j \in c.indexAt .. Len(u) : u[j].kind = "connection"}} = Range(T)
  <2>1. ASSUME NEW k \in c.indexAt .. Len(u), u[k].kind = "connection" PROVE u[k].topic \in Range(T)
    <3>1. k - Len(s) \in 1 .. Len(more) /\ u[k] = more[k - Len(s)]
      BY <1>9, <1>15
    <3>2. k - Len(s) \in 1 .. Len(T)
      BY <1>4, <2>1, <3>1, Zenon
    <3>3. u[k].topic = T[k - Len(s)]
      BY <1>4, <3>1, <3>2
    <3> QED
      BY <3>2, <3>3, SeqFacts
  <2>2. ASSUME NEW t \in Range(T) PROVE \E k \in c.indexAt .. Len(u) : u[k].kind = "connection" /\ u[k].topic = t
    <3>1. PICK i \in 1 .. Len(T) : T[i] = t
      BY SeqFacts
    <3>2. i \in 1 .. Len(more) /\ Len(s) + i \in c.indexAt .. Len(u)
      BY <1>3, <1>4, <1>7
    <3>3. u[Len(s) + i].kind = "connection" /\ u[Len(s) + i].topic = t
      BY <1>4, <1>7, <3>1, <3>2
    <3> QED
      BY <3>2, <3>3
  <2> QED
    BY <2>1, <2>2
<1>17. Ros1Indexed(c)
  <2>1. c.records = u
    BY <1>6
  <2> QED
    BY <1>3, <1>13, <1>14, <1>15, <1>16, <2>1, Zenon DEF Ros1Indexed
<1>18. Carries(u) /\ Carried(u) = Ros1Held(b)
  <2>1. Carries(s) /\ IsSeq(Carried(s))
    BY <1>1, <1>6, Ros1Carries
  <2>2. Carries(u) /\ Carried(u) = Carried(s) \o Carried(more)
    BY <1>4, <1>5, <2>1, CarriedConcat, Zenon
  <2>3. Carried(u) = Carried(s)
    BY <1>4, <2>1, <2>2, ConcatEmpty
  <2>4. Ros1Held(f) = Carried(s) \o MessagesOf(<<>>)
    BY <1>1, <1>6, Zenon DEF Ros1Held
  <2>5. MessagesOf(<<>>) = <<>>
    BY EmptyFacts, MessagesOfAre
  <2>6. Ros1Held(f) = Carried(s)
    BY <2>1, <2>4, <2>5, ConcatEmpty, Zenon
  <2> QED
    BY <1>1, <2>2, <2>3, <2>6
<1> QED
  BY <1>6, <1>17, <1>18 DEF c

LEMMA FinishedIs ==
  ASSUME NEW b, NEW T, IsSeq(T), Distinct(T), T # <<>>, BagOk(request.format, b, T), request.format \in {"ros1", "ros2"}
  PROVE  /\ Written(Finished(b)) = BagHeld(request.format, b)
         /\ request.format = "ros1" => Ros1Indexed(Finished(b))
         /\ request.format # "ros1" => Ros2Described(Finished(b))
<1>1. CASE request.format = "ros1"
  <2> DEFINE c == Ros1Finished(b)
  <2>1. Ros1Indexed(c) /\ Carries(c.records) /\ Carried(c.records) = Ros1Held(b)
    BY <1>1, Ros1FinishedIs DEF BagOk
  <2>2. Finished(b) = c
    BY <1>1 DEF Finished
  <2> HIDE DEF c
  <2>3. Written(c) = Carried(c.records)
    BY <1>1 DEF Written, Carried, Payloads, Payload
  <2> QED
    BY <1>1, <2>1, <2>2, <2>3 DEF BagHeld
<1>2. CASE request.format # "ros1"
  <2> DEFINE c == Ros2Finished(b)
             s == b.records
             info == [count |-> b.count, start |-> Min(TimesAt(b.records)),
                      end |-> Max(TimesAt(b.records)), counts |-> CountsOf(b.records)]
  <2>1. /\ DOMAIN b = DOMAIN NewBag(<<>>) /\ b.topics = T /\ IsSeq(s) /\ b.count = Len(s)
        /\ \A i \in 1 .. Len(s) : s[i].topic \in Range(T) /\ s[i].at \in Int
    BY <1>2 DEF BagOk, Ros2Ok
  <2>2. {"records", "topics", "metadata"} \subseteq DOMAIN b
    BY <2>1 DEF NewBag
  <2>3. c.records = s /\ c.topics = T /\ c.metadata = <<info>>
    BY <2>1, <2>2 DEF Ros2Finished
  <2>4. /\ info.count = Len(s) /\ info.start = Min(TimesAt(s)) /\ info.end = Max(TimesAt(s))
        /\ DOMAIN info.counts = {s[i].topic : i \in DOMAIN s}
    BY <2>1 DEF CountsOf
  <2> HIDE DEF c, s, info
  <2>5. info \in Range(c.metadata)
    BY <2>3, EmptyFacts, AppendIs
  <2>6. DOMAIN s = 1 .. Len(s)
    BY <2>1, SeqFacts
  <2>7. \A i \in DOMAIN s : info.start <= s[i].at /\ s[i].at <= info.end
    BY <2>1, <2>4, <2>6, TimesBounded
  <2>8. Ros2Described(c)
    BY <2>1, <2>3, <2>4, <2>5, <2>6, <2>7 DEF Ros2Described
  <2>9. Finished(b) = c
    BY <1>2 DEF Finished, c
  <2> QED
    BY <1>2, <2>3, <2>8, <2>9 DEF BagHeld, Written, s
<1> QED
  BY <1>1, <1>2
--------------------------------------------------------------------------------
(***************************************************************************)
(* The positions are timed by an anchor.                                   *)
(***************************************************************************)
AnchorStep(kept, a) ==
  IF kept = <<>> \/ a.elapsed - Last(kept).elapsed >= AnchorGap THEN Append(kept, a) ELSE kept

(* The samples are taken one after the other.                              *)
AnchorUpTo(g, items, S) ==
  IF S = {} THEN <<>> ELSE AnchorStep(g[S \ {Max(S)}], items[Max(S)])
LEMMA AnchorExists ==
  ASSUME NEW items, NEW n \in Nat
  PROVE  \E g : g = [S \in SUBSET (1 .. n) |-> AnchorUpTo(g, items, S)]
<1> DEFINE Has(k) == \E g : g = [S \in SUBSET (1 .. k) |-> AnchorUpTo(g, items, S)]
           bad == {k \in Nat : ~ Has(k)}
<1>1. Has(0)
  <2> DEFINE g == [S \in SUBSET (1 .. 0) |-> <<>>]
  <2>1. g = [S \in SUBSET (1 .. 0) |-> AnchorUpTo(g, items, S)]
    BY DEF AnchorUpTo
  <2> QED
    BY <2>1, Zenon
<1>2. ASSUME NEW k \in Nat, Has(k) PROVE Has(k + 1)
  <2>1. PICK g : g = [S \in SUBSET (1 .. k) |-> AnchorUpTo(g, items, S)]
    BY <1>2
  <2> DEFINE h == [S \in SUBSET (1 .. k + 1) |-> AnchorUpTo(g, items, S)]
  <2>2. ASSUME NEW S \in SUBSET (1 .. k + 1) PROVE AnchorUpTo(h, items, S) = AnchorUpTo(g, items, S)
    <3>1. CASE S = {}
      BY <3>1 DEF AnchorUpTo
    <3>2. CASE S # {}
      <4>1. S \ {Max(S)} \in SUBSET (1 .. k) /\ S \ {Max(S)} \in SUBSET (1 .. k + 1)
        BY <3>2, WithoutMax, Zenon
      <4>2. h[S \ {Max(S)}] = AnchorUpTo(g, items, S \ {Max(S)})
        BY <4>1
      <4>3. g[S \ {Max(S)}] = AnchorUpTo(g, items, S \ {Max(S)})
        BY <2>1, <4>1
      <4> HIDE DEF h
      <4> QED
        BY <4>2, <4>3 DEF AnchorUpTo
    <3> QED
      BY <3>1, <3>2
  <2>3. h = [S \in SUBSET (1 .. k + 1) |-> AnchorUpTo(h, items, S)]
    BY <2>2, Zenon
  <2> QED
    BY <2>3, Zenon
<1> HIDE DEF Has
<1>3. ASSUME bad # {} PROVE FALSE
  <2>1. PICK k \in bad : \A x \in bad : k <= x
    BY <1>3, LeastNatural, Zenon
  <2>2. k # 0 /\ k \in Nat
    BY <1>1, <2>1
  <2>3. k - 1 \in Nat /\ Has(k - 1)
    BY <2>1, <2>2
  <2>4. Has(k - 1 + 1)
    BY <1>2, <2>3
  <2> QED
    BY <2>1, <2>2, <2>4
<1> QED
  BY <1>3, Zenon DEF Has

LEMMA AnchorSteps ==
  ASSUME NEW items, IsSeq(items)
  PROVE  \E it : /\ it[0] = <<>>
                 /\ \A k \in 1 .. Len(items) : it[k] = AnchorStep(it[k - 1], items[k])
                 /\ AnchorsOf(items) = it[Len(items)]
<1> DEFINE n == Len(items)
           iter == CHOOSE g : g = [S \in SUBSET (1 .. n) |-> AnchorUpTo(g, items, S)]
           it == [k \in 0 .. n |-> iter[1 .. k]]
<1>1. n \in Nat /\ DOMAIN items = 1 .. n
  BY SeqFacts
<1>2. iter = [S \in SUBSET (1 .. n) |-> AnchorUpTo(iter, items, S)]
  BY <1>1, AnchorExists
<1>3. AnchorsOf(items) = iter[1 .. n]
  BY <1>1, Zenon DEF AnchorsOf, FoldLeft, MapThenFoldSet, AnchorUpTo, AnchorStep
<1> HIDE DEF iter
<1>4. it[0] = <<>>
  <2>1. 1 .. 0 = {} /\ 0 \in 0 .. n
    BY <1>1
  <2>2. iter[{}] = AnchorUpTo(iter, items, {})
    BY <1>2
  <2> QED
    BY <2>1, <2>2 DEF AnchorUpTo
<1>5. ASSUME NEW k \in 1 .. n PROVE it[k] = AnchorStep(it[k - 1], items[k])
  <2>1. k - 1 \in 0 .. n /\ k \in 0 .. n /\ k - 1 \in Nat /\ k - 1 + 1 = k
    BY <1>1
  <2>2. 1 .. k # {} /\ Max(1 .. k) = k /\ (1 .. k) \ {k} = 1 .. k - 1
    <3>1. 1 .. k - 1 + 1 # {} /\ Max(1 .. k - 1 + 1) = k - 1 + 1 /\ (1 .. k - 1 + 1) \ {k - 1 + 1} = 1 .. k - 1
      BY <2>1, MaxOfSegment, Zenon
    <3> QED
      BY <2>1, <3>1
  <2>3. iter[1 .. k] = AnchorUpTo(iter, items, 1 .. k)
    <3>1. 1 .. k \in SUBSET (1 .. n)
      BY <1>1, <2>1
    <3> HIDE DEF n
    <3> QED
      BY <1>2, <3>1
  <2>4. iter[1 .. k] = AnchorStep(iter[1 .. k - 1], items[k])
    BY <2>2, <2>3, Zenon DEF AnchorUpTo
  <2>5. it[k] = iter[1 .. k] /\ it[k - 1] = iter[1 .. k - 1]
    BY <2>1
  <2> HIDE DEF it
  <2> QED
    BY <2>4, <2>5
<1>6. it[n] = iter[1 .. n]
  BY <1>1
<1> HIDE DEF it
<1> QED
  BY <1>3, <1>4, <1>5, <1>6

LEMMA AnchorsAre ==
  ASSUME NEW samples, IsSeq(samples), samples # <<>>
  PROVE  /\ IsSeq(AnchorsOf(samples)) /\ AnchorsOf(samples) # <<>>
         /\ Range(AnchorsOf(samples)) \subseteq Range(samples)
<1> DEFINE n == Len(samples)
<1>1. PICK it : /\ it[0] = <<>> /\ \A k \in 1 .. n : it[k] = AnchorStep(it[k - 1], samples[k])
                /\ AnchorsOf(samples) = it[n]
  BY AnchorSteps
<1>2. n \in Nat /\ n # 0 /\ \A k \in 1 .. n : samples[k] \in Range(samples)
  BY SeqFacts
<1> HIDE DEF n
<1> DEFINE good == {k \in 0 .. n : /\ IsSeq(it[k]) /\ Range(it[k]) \subseteq Range(samples)
                                   /\ k # 0 => it[k] # <<>>}
<1>3. 0 \in good
  <2>1. 0 \in 0 .. n
    BY <1>2
  <2> QED
    BY <1>1, <2>1, EmptyFacts
<1>4. ASSUME NEW k \in 1 .. n, k - 1 \in good PROVE k \in good
  <2>1. k \in 0 .. n /\ samples[k] \in Range(samples)
    BY <1>2
  <2>2. IsSeq(it[k - 1]) /\ Range(it[k - 1]) \subseteq Range(samples)
    BY <1>4
  <2> DEFINE old == it[k - 1]
             new == Append(old, samples[k])
  <2>3. it[k] = new \/ (old # <<>> /\ it[k] = old)
    BY <1>1, Zenon DEF AnchorStep
  <2>4. IsSeq(new) /\ Range(new) \subseteq Range(samples) /\ new # <<>>
    BY <2>1, <2>2, AppendFacts
  <2> HIDE DEF old, new
  <2>5. IsSeq(it[k]) /\ Range(it[k]) \subseteq Range(samples) /\ it[k] # <<>>
    BY <2>2, <2>3, <2>4 DEF old
  <2> QED
    BY <2>1, <2>5
<1> HIDE DEF good
<1>5. \A k \in 0 .. n : k \in good
  BY <1>2, <1>3, <1>4, Upward
<1>6. n \in good
  BY <1>2, <1>5
<1> QED
  BY <1>1, <1>2, <1>6 DEF good

LEMMA NearestIs ==
  ASSUME NEW anchors, IsSeq(anchors), anchors # <<>>, NEW t
  PROVE  Nearest(anchors, t) \in Range(anchors)
<1> DEFINE n == Len(anchors)
           after == {i \in DOMAIN anchors : anchors[i].elapsed >= t}
           next  == Min(after)
<1>1. n \in Nat /\ n # 0 /\ DOMAIN anchors = 1 .. n /\ \A i \in 1 .. n : anchors[i] \in Range(anchors)
  BY SeqFacts
<1>2. Nearest(anchors, t) \in {Last(anchors), anchors[next - 1], anchors[next]}
  BY DEF Nearest
<1>3. Last(anchors) \in Range(anchors)
  <2>1. n \in 1 .. n
    BY <1>1
  <2> QED
    BY <1>1, <2>1 DEF Last
<1>4. CASE after = {}
  BY <1>3, <1>4 DEF Nearest
<1>5. CASE after # {}
  <2>1. after \subseteq 1 .. n
    BY <1>1
  <2> HIDE DEF after, n
  <2>2. \E k \in after : \A z \in after : k <= z
    <3>1. after \subseteq Nat
      BY <1>1, <2>1
    <3> QED
      BY <1>5, <3>1, LeastNatural, Zenon
  <2>3. next \in after
    BY <2>2 DEF Min
  <2>5. Nearest(anchors, t) = anchors[next] \/ (next > 1 /\ Nearest(anchors, t) = anchors[next - 1])
    BY <1>5 DEF Nearest, after
  <2> HIDE DEF next
  <2>6. next \in 1 .. n
    BY <2>1, <2>3
  <2>4. next > 1 => next - 1 \in 1 .. n
    BY <1>1, <2>6
  <2> QED
    BY <1>1, <2>4, <2>5, <2>6
<1> QED
  BY <1>4, <1>5

(* A position or a quality report gets a time.                             *)
LEMMA StampIs ==
  ASSUME NEW d \in Directories, GnssAccepted(d), NEW s \in {"position", "quality"}, NEW i \in 1 .. Len(RowsOf(d, s))
  PROVE  StampOf(d, RowsOf(d, s)[i].elapsed) \in Int
<1> DEFINE samples == d.gnss.anchors
           t == RowsOf(d, s)[i].elapsed
           a == Nearest(Anchors(d), t)
           P == d.gnss.positions
           Q == d.gnss.quality
           A == [elapsed : Nat, stamp : Nat]
           E == [elapsed : Nat]
<1>1. samples \in Seq(A) /\ P \in Seq(E) /\ Q \in Seq(E)
  BY DirectoriesAssumption
<1>2. RowsOf(d, s) = P \/ RowsOf(d, s) = Q
  BY DEF RowsOf
<1>3. RowsOf(d, s) # <<>> /\ RowsOf(d, s)[i] \in E
  <2> DEFINE rs == RowsOf(d, s)
  <2>1. rs \in Seq(E) /\ i \in 1 .. Len(rs)
    BY <1>1, <1>2
  <2> HIDE DEF rs, E
  <2>2. rs # <<>> /\ rs[i] \in E
    BY <2>1
  <2> QED
    BY <2>2 DEF rs
<1>4. GnssRows(d) # <<>>
  <2>1. GnssRows(d) = P \o Q
    BY DEF GnssRows
  <2> HIDE DEF P, Q
  <2>2. Len(P) # 0 \/ Len(Q) # 0
    BY <1>1, <1>2, <1>3
  <2>3. Len(P \o Q) # 0
    BY <1>1, <2>2
  <2> QED
    BY <2>1, <2>3
<1>5. samples # <<>> /\ IsSeq(samples) /\ Range(samples) \subseteq A
  <2>1. samples # <<>>
    BY <1>4 DEF GnssAccepted
  <2> HIDE DEF samples, A
  <2> QED
    BY <1>1, <2>1, SeqTyped
<1>6. Anchors(d) = AnchorsOf(samples)
  BY DEF Anchors
<1>7. IsSeq(Anchors(d)) /\ Anchors(d) # <<>> /\ Range(Anchors(d)) \subseteq Range(samples)
  BY <1>5, <1>6, AnchorsAre
<1>8. a \in Range(Anchors(d))
  BY <1>7, NearestIs
<1>9. a \in A
  BY <1>5, <1>7, <1>8
<1>10. StampOf(d, t) = a.stamp + t - a.elapsed
  BY DEF StampOf
<1>11. t \in Nat
  BY <1>3
<1> HIDE DEF a, t
<1>12. a.stamp + t - a.elapsed \in Int
  BY <1>9, <1>11
<1> QED
  BY <1>10, <1>12 DEF t

(***************************************************************************)
(* The topics of the streams, and the messages of the rows.                *)
(***************************************************************************)
LEMMA OneIs == \A a : IsSeq(<<a>>) /\ Len(<<a>>) = 1 /\ Range(<<a>>) = {a}
<1>1. \A a : Range(<<a>>) = {a} /\ <<a>> \in Seq({a})
  BY DEF Range
<1> QED
  BY <1>1 DEF IsSeq
LEMMA TwoIs ==
  ASSUME NEW a, NEW b
  PROVE  IsSeq(<<a, b>>) /\ Len(<<a, b>>) = 2 /\ Range(<<a, b>>) = {a, b} /\ (a # b => Distinct(<<a, b>>))
<1> DEFINE q == <<a, b>>
<1>1. Range(q) = {a, b} /\ q \in Seq({a, b}) /\ Len(q) = 2
  BY DEF Range
<1>2. q[1] = a /\ q[2] = b
  OBVIOUS
<1> HIDE DEF q
<1>3. a # b => Distinct(q)
  BY <1>1, <1>2 DEF Distinct
<1> QED
  BY <1>1, <1>3 DEF IsSeq, q
LEMMA ThreeIs ==
  ASSUME NEW a, NEW b, NEW c
  PROVE  /\ IsSeq(<<a, b, c>>) /\ Len(<<a, b, c>>) = 3 /\ Range(<<a, b, c>>) = {a, b, c}
         /\ a # b /\ a # c /\ b # c => Distinct(<<a, b, c>>)
<1> DEFINE q == <<a, b, c>>
<1>1. Range(q) = {a, b, c} /\ q \in Seq({a, b, c}) /\ Len(q) = 3
  BY DEF Range
<1>2. q[1] = a /\ q[2] = b /\ q[3] = c
  OBVIOUS
<1> HIDE DEF q
<1>3. a # b /\ a # c /\ b # c => Distinct(q)
  BY <1>1, <1>2 DEF Distinct
<1> QED
  BY <1>1, <1>3 DEF IsSeq, q

LEMMA StreamTopics ==
  ASSUME NEW s
  PROVE  /\ IsSeq(TopicsOf(s)) /\ Distinct(TopicsOf(s)) /\ TopicsOf(s) # <<>>
         /\ \A t \in Range(TopicsOf(s)) : t[1] = s
<1> DEFINE A == <<s, "image">>
           B == <<s, "exposure">>
           C == <<s, "points">>
           D == <<s, "fix">>
           E == <<s, "receiver">>
           F == <<s, "recording">>
           G == <<s, "data">>
<1>1. /\ A # B /\ D # E /\ D # F /\ E # F
      /\ A[1] = s /\ B[1] = s /\ C[1] = s /\ D[1] = s /\ E[1] = s /\ F[1] = s /\ G[1] = s
  OBVIOUS
<1>2. TopicsOf(s) \in {<<A, B>>, <<C>>, <<D, E, F>>, <<G>>}
  BY Zenon DEF TopicsOf
<1> HIDE DEF A, B, C, D, E, F, G
<1>3. CASE TopicsOf(s) = <<A, B>>
  <2> DEFINE q == <<A, B>>
  <2>1. IsSeq(q) /\ Distinct(q) /\ Len(q) = 2 /\ Range(q) = {A, B}
    BY <1>1, TwoIs
  <2> HIDE DEF q
  <2>2. q # <<>>
    <3>1. IsSeq(q) /\ Len(q) # 0
      BY <2>1
    <3> QED
      BY <3>1, SeqFacts
  <2> QED
    BY <1>1, <1>3, <2>1, <2>2 DEF q
<1>4. ASSUME NEW x \in {C, G}, TopicsOf(s) = <<x>>
      PROVE  /\ IsSeq(TopicsOf(s)) /\ Distinct(TopicsOf(s)) /\ TopicsOf(s) # <<>>
             /\ \A t \in Range(TopicsOf(s)) : t[1] = s
  <2> DEFINE q == <<x>>
  <2>1. IsSeq(q) /\ Len(q) = 1 /\ Range(q) = {x}
    BY OneIs
  <2> HIDE DEF q
  <2>2. q # <<>> /\ Distinct(q)
    BY <2>1, SeqFacts DEF Distinct
  <2> QED
    BY <1>1, <1>4, <2>1, <2>2 DEF q
<1>5. CASE TopicsOf(s) = <<D, E, F>>
  <2> DEFINE q == <<D, E, F>>
  <2>1. IsSeq(q) /\ Distinct(q) /\ Len(q) = 3 /\ Range(q) = {D, E, F}
    BY <1>1, ThreeIs
  <2> HIDE DEF q
  <2>2. q # <<>>
    BY <2>1, SeqFacts
  <2> QED
    BY <1>1, <1>5, <2>1, <2>2 DEF q
<1> QED
  BY <1>2, <1>3, <1>4, <1>5

LEMMA TopicsAre ==
  ASSUME NEW d
  PROVE  /\ IsSeq(Topics(d)) /\ Distinct(Topics(d)) /\ Topics(d) # <<>>
         /\ \A k \in 1 .. 10 : Exports(d, Order[k]) => Range(TopicsOf(Order[k])) \subseteq Range(Topics(d))
<1> DEFINE part(k) == IF Exports(d, Order[k]) THEN TopicsOf(Order[k]) ELSE <<>>
           seqs == [k \in 1 .. 10 |-> part(k)]
           all(k) == FlattenSeq(SubSeq(seqs, 1, k))
<1>1. Topics(d) = FlattenSeq(seqs)
  BY OrderIs DEF Topics
<1>2. \A k \in 1 .. 10 : /\ IsSeq(part(k)) /\ Distinct(part(k)) /\ \A t \in Range(part(k)) : t[1] = Order[k]
  BY StreamTopics, EmptyFacts
<1>3. \A k \in 1 .. 10 : Exports(d, Order[k]) => part(k) = TopicsOf(Order[k])
  OBVIOUS
<1>4. \A i, k \in 1 .. 10 : Order[i] = Order[k] => i = k
  BY DEF Order
<1> HIDE DEF part
<1>5. \A k \in 1 .. 10 : seqs[k] = part(k)
  OBVIOUS
<1>6. IsSeqs(seqs) /\ Len(seqs) = 10
  <2>1. seqs = [k \in 1 .. 10 |-> seqs[k]]
    OBVIOUS
  <2> HIDE DEF seqs
  <2>2. 10 \in Nat
    OBVIOUS
  <2>3. IsSeq(seqs) /\ Len(seqs) = 10
    BY <2>1, <2>2, FunSeq, Zenon
  <2> QED
    BY <1>2, <1>5, <2>3 DEF IsSeqs
<1> HIDE DEF seqs
<1>7. all(0) = <<>> /\ all(10) = Topics(d)
  <2>1. SubSeq(seqs, 1, 0) = <<>> /\ SubSeq(seqs, 1, 10) = seqs
    BY <1>6, PrefixFacts DEF IsSeqs
  <2> QED
    BY <1>1, <2>1, FlatEmpty, Zenon
<1>8. ASSUME NEW k \in 1 .. 10
      PROVE  all(k) = all(k - 1) \o part(k)
  <2>1. k \in 1 .. Len(seqs) /\ seqs[k] = part(k)
    BY <1>5, <1>6
  <2>2. all(k) = all(k - 1) \o seqs[k]
    BY <1>6, <2>1, FlatPrefix, Zenon
  <2> QED
    BY <2>1, <2>2
<1> HIDE DEF all
<1> DEFINE good == {k \in 0 .. 10 : /\ IsSeq(all(k)) /\ Distinct(all(k))
                                    /\ \A t \in Range(all(k)) : \E i \in 1 .. k : t[1] = Order[i]}
<1>9. 0 \in good
  BY <1>7, EmptyFacts
<1>10. ASSUME NEW k \in 1 .. 10, k - 1 \in good PROVE k \in good
  <2> DEFINE a == all(k - 1)
             p == part(k)
             c == all(k)
  <2>1. /\ IsSeq(a) /\ Distinct(a) /\ (\A t \in Range(a) : \E i \in 1 .. k - 1 : t[1] = Order[i])
        /\ IsSeq(p) /\ Distinct(p) /\ (\A t \in Range(p) : t[1] = Order[k]) /\ c = a \o p
    BY <1>2, <1>8, <1>10, Zenon
  <2> HIDE DEF a, p, c
  <2>2. Range(a) \cap Range(p) = {}
    <3> SUFFICES ASSUME NEW t \in Range(a), t \in Range(p) PROVE FALSE
      OBVIOUS
    <3>1. PICK i \in 1 .. k - 1 : t[1] = Order[i]
      BY <2>1
    <3>2. i \in 1 .. 10 /\ i # k
      OBVIOUS
    <3> QED
      BY <1>4, <2>1, <3>1, <3>2, Zenon
  <2>3. IsSeq(c) /\ Distinct(c) /\ Range(c) = Range(a) \cup Range(p)
    BY <2>1, <2>2, ConcatFacts, DistinctConcat
  <2>4. \A t \in Range(c) : \E i \in 1 .. k : t[1] = Order[i]
    BY <2>1, <2>3
  <2>5. k \in 0 .. 10
    OBVIOUS
  <2> QED
    BY <2>3, <2>4, <2>5 DEF c
<1> HIDE DEF good
<1>11. \A k \in 0 .. 10 : k \in good
  <2>1. 10 \in Nat
    OBVIOUS
  <2> QED
    BY <1>9, <1>10, <2>1, Upward
<1>12. IsSeq(Topics(d)) /\ Distinct(Topics(d))
  BY <1>7, <1>11 DEF good
<1>13. ASSUME NEW k \in 1 .. 10 PROVE Range(part(k)) \subseteq Range(Topics(d))
  BY <1>1, <1>5, <1>6, FlatIs, Zenon
<1>14. \A k \in 1 .. 10 : Exports(d, Order[k]) => Range(TopicsOf(Order[k])) \subseteq Range(Topics(d))
  BY <1>3, <1>13
<1>15. Topics(d) # <<>>
  <2>1. Exports(d, Order[5])
    BY OrderIs DEF Exports, Imus, Cams
  <2>2. TopicsOf(Order[5]) # <<>> /\ IsSeq(TopicsOf(Order[5]))
    BY StreamTopics
  <2>3. \E t : t \in Range(TopicsOf(Order[5]))
    <3>1. 1 \in 1 .. Len(TopicsOf(Order[5]))
      BY <2>2, SeqFacts
    <3> QED
      BY <2>2, <3>1, SeqFacts
  <2> QED
    BY <1>14, <2>1, <2>3, EmptyFacts
<1> QED
  BY <1>12, <1>14, <1>15

LEMMA RowMessages ==
  ASSUME NEW d \in Directories, GnssAccepted(d), NEW s \in Range(Order), s # "lidar", NEW i \in 1 .. Len(RowsOf(d, s))
  PROVE  /\ IsSeq(Messages(d, s, i))
         /\ \A m \in Range(Messages(d, s, i)) : MessageOk(m, TopicsOf(s))
<1> DEFINE r == RowsOf(d, s)[i]
           msg(topic, at) == Message(<<s, topic>>, at, i)
           time == IF s \in {"position", "quality"} THEN StampOf(d, r.elapsed) ELSE r.at
           topics == Range(TopicsOf(s))
<1>1. time \in Int
  <2>1. CASE s \in {"position", "quality"}
    BY <2>1, StampIs
  <2>2. CASE s \notin {"position", "quality"}
    <3>1. RowsOf(d, s) = Rows(d, s) /\ s \in Files
      BY <2>2 DEF RowsOf, Order, Range, Files, Cams, Sensors
    <3>2. Rows(d, s) \in Seq(IndexRows)
      <4>1. d.rows[s] \in Seq(IndexRows)
        BY <3>1, DirectoriesAssumption
      <4> QED
        BY <4>1 DEF Rows
    <3>3. r \in IndexRows
      <4> HIDE DEF r
      <4> QED
        BY <3>1, <3>2 DEF r
    <3> QED
      BY <2>2, <3>3 DEF IndexRows
  <2> QED
    BY <2>1, <2>2
<1>2. ASSUME NEW name, <<s, name>> \in topics PROVE MessageOk(msg(name, time), TopicsOf(s))
  BY <1>1, <1>2 DEF MessageOk, Message
<1>3. CASE s \in Cams
  <2>1. Messages(d, s, i) = <<msg("image", time), msg("exposure", time)>>
    BY <1>3 DEF Messages, Cams
  <2>2. <<s, "image">> \in topics /\ <<s, "exposure">> \in topics
    <3>1. TopicsOf(s) = <<<<s, "image">>, <<s, "exposure">>>>
      <4>1. s # "lidar" /\ s # "position"
        BY <1>3 DEF Cams
      <4> QED
        BY <1>3, <4>1, Zenon DEF TopicsOf
    <3> QED
      BY <3>1, OneIs, TwoIs, ThreeIs
  <2> HIDE DEF msg, time
  <2> QED
    BY <1>2, <2>1, <2>2, OneIs, TwoIs, ThreeIs
<1>4. CASE s = "position"
  <2>1. Messages(d, s, i) = <<msg("fix", time), msg("receiver", time), msg("recording", time)>>
    BY <1>4 DEF Messages, Cams
  <2>2. <<s, "fix">> \in topics /\ <<s, "receiver">> \in topics /\ <<s, "recording">> \in topics
    <3>1. TopicsOf(s) = <<<<s, "fix">>, <<s, "receiver">>, <<s, "recording">>>>
      BY <1>4 DEF TopicsOf, Cams
    <3> QED
      BY <3>1, OneIs, TwoIs, ThreeIs
  <2> HIDE DEF msg, time
  <2> QED
    BY <1>2, <2>1, <2>2, OneIs, TwoIs, ThreeIs
<1>5. CASE s \notin Cams /\ s # "position"
  <2>1. Messages(d, s, i) = <<msg("data", time)>>
    BY <1>5 DEF Messages
  <2>2. <<s, "data">> \in topics
    <3>1. TopicsOf(s) = <<<<s, "data">>>>
      BY <1>5 DEF TopicsOf
    <3> QED
      BY <3>1, OneIs, TwoIs, ThreeIs
  <2> HIDE DEF msg, time
  <2> QED
    BY <1>2, <2>1, <2>2, OneIs, TwoIs, ThreeIs
<1> QED
  BY <1>3, <1>4, <1>5
--------------------------------------------------------------------------------
(***************************************************************************)
(* The LiDAR frames keep the points, and keep to their window.             *)
(***************************************************************************)
FrameOk(frame) ==
  /\ frame.active => /\ frame.points # <<>> /\ frame.start <= Head(frame.points)
                     /\ Last(frame.points) < frame.start + Period
  /\ ~frame.active => frame.points = <<>>
PointLists(frames) == [i \in 1 .. Len(frames) |-> frames[i].points]
(* The points that have been collected, with those of the open frame.      *)
Got(s) == FlattenSeq(PointLists(s.done)) \o s.frame.points
CollectedOk(s) ==
  /\ s \in [frame : Frames, done : Seq(Frames), fits : BOOLEAN]
  /\ FrameOk(s.frame) /\ \A i \in 1 .. Len(s.done) : s.done[i].active /\ FrameOk(s.done[i])

LEMMA PointsAre ==
  ASSUME NEW frames \in Seq(Frames)
  PROVE  /\ IsSeqs(PointLists(frames)) /\ IsSeq(FlattenSeq(PointLists(frames))) /\ Len(PointLists(frames)) = Len(frames)
         /\ \A f \in Frames : PointLists(Append(frames, f)) = Append(PointLists(frames), f.points) /\ IsSeq(f.points)
<1> DEFINE n == Len(frames)
           p == PointLists(frames)
<1>1. n \in Nat /\ \A i \in 1 .. n : frames[i] \in Frames
  OBVIOUS
<1>2. \A f \in Frames : IsSeq(f.points)
  BY SeqTyped DEF Frames
<1>3. \A i \in 1 .. n : p[i] = frames[i].points
  BY DEF PointLists
<1>4. IsSeq(p) /\ Len(p) = n
  <2>1. p = [i \in 1 .. n |-> p[i]]
    BY DEF PointLists
  <2> HIDE DEF p, n
  <2> QED
    BY <1>1, <2>1, FunSeq
<1>5. IsSeqs(p)
  BY <1>1, <1>2, <1>3, <1>4 DEF IsSeqs
<1>6. ASSUME NEW f \in Frames PROVE PointLists(Append(frames, f)) = Append(p, f.points)
  <2> DEFINE more == Append(frames, f)
             q == PointLists(more)
             e == f.points
             u == Append(p, e)
  <2>1. Len(more) = n + 1 /\ more[n + 1] = f /\ \A i \in 1 .. n : more[i] = frames[i]
    <3>1. IsSeq(frames)
      BY SeqTyped
    <3> QED
      BY <3>1, AppendFacts
  <2>2. \A i \in 1 .. n + 1 : q[i] = more[i].points
    BY <2>1 DEF PointLists
  <2>3. IsSeq(q) /\ Len(q) = n + 1
    <3>1. q = [i \in 1 .. n + 1 |-> q[i]]
      BY <2>1 DEF PointLists
    <3>2. n + 1 \in Nat
      BY <1>1
    <3> HIDE DEF q
    <3> QED
      BY <3>1, <3>2, FunSeq, Zenon
  <2> HIDE DEF p, q, n, e, more
  <2>4. IsSeq(u) /\ Len(u) = n + 1 /\ u[n + 1] = e /\ \A i \in 1 .. n : u[i] = p[i]
    BY <1>4, AppendFacts
  <2> HIDE DEF u
  <2>5. ASSUME NEW i \in 1 .. Len(q) PROVE q[i] = u[i]
    <3>1. i \in 1 .. n + 1
      BY <2>3
    <3>2. CASE i = n + 1
      BY <2>1, <2>2, <2>4, <3>1, <3>2 DEF e
    <3>3. CASE i # n + 1
      <4>1. i \in 1 .. n
        BY <1>1, <3>1, <3>3
      <4> QED
        BY <1>3, <2>1, <2>2, <2>4, <3>1, <4>1
    <3> QED
      BY <3>2, <3>3
  <2>6. q = u
    BY <2>3, <2>4, <2>5, SameElements
  <2> QED
    BY <2>6 DEF q, u, more, e, p
<1> QED
  BY <1>2, <1>4, <1>5, <1>6, FlatIs

LEMMA Windows ==
  ASSUME NEW gap \in Int, NEW P \in Nat, P > 0
  PROVE  (gap \div P) * P \in Int /\ (gap \div P) * P <= gap /\ gap < (gap \div P) * P + P
<1>1. gap \div P \in Int
  OBVIOUS
<1>2. (gap \div P) * P \in Int
  BY <1>1
<1>3. (gap \div P) * P <= gap
  OBVIOUS
<1>4. gap < (gap \div P) * P + P
  OBVIOUS
<1> QED
  BY <1>2, <1>3, <1>4

LEMMA WindowOf ==
  ASSUME NEW start \in Int, NEW t \in Int, t >= start
  PROVE  LET w == start + ((t - start) \div Period) * Period
         IN  w \in Int /\ w <= t /\ t < w + Period
<1> DEFINE gap == t - start
           z == (gap \div Period) * Period
<1>1. Period \in Nat /\ Period > 0
  BY ExporterAssumption
<1>2. gap \in Int /\ t = start + gap
  OBVIOUS
<1> HIDE DEF gap
<1>3. z \in Int /\ z <= gap /\ gap < z + Period
  BY <1>1, <1>2, Windows
<1> HIDE DEF z
<1>4. start + z \in Int /\ start + z <= t /\ t < start + z + Period
  BY <1>1, <1>2, <1>3
<1> QED
  BY <1>4 DEF z, gap

LEMMA FrameFromOk ==
  ASSUME NEW start \in Int, NEW t \in Int, start <= t, t < start + Period
  PROVE  FrameFrom(start, t) \in Frames /\ FrameOk(FrameFrom(start, t)) /\ FrameFrom(start, t).points = <<t>>
         /\ FrameFrom(start, t).active
<1> DEFINE f == FrameFrom(start, t)
<1>1. f \in Frames /\ f.points = <<t>> /\ f.start = start /\ f.active = TRUE
  BY DEF FrameFrom, Frames
<1>2. <<t>> # <<>> /\ Head(<<t>>) = t /\ Last(<<t>>) = t
  BY DEF Last
<1> HIDE DEF f
<1>3. FrameOk(f)
  BY <1>1, <1>2 DEF FrameOk
<1> QED
  BY <1>1, <1>3 DEF f

LEMMA AddPointKeeps ==
  ASSUME NEW s, CollectedOk(s), NEW t \in Int
  PROVE  /\ CollectedOk(AddPoint(s, t))
         /\ StartsBefore(s.frame, {t}) => Got(AddPoint(s, t)) = Append(Got(s), t)
<1> DEFINE old == s.frame
           done == s.done
           ps == old.points
           flat == FlattenSeq(PointLists(done))
<1>1. /\ old \in Frames /\ done \in Seq(Frames) /\ s.fits \in BOOLEAN
      /\ old.active \in BOOLEAN /\ old.start \in Int /\ ps \in Seq(Int)
      /\ s = [frame |-> old, done |-> done, fits |-> s.fits]
      /\ FrameOk(old) /\ \A i \in 1 .. Len(done) : done[i].active /\ FrameOk(done[i])
  BY DEF CollectedOk, Frames
<1>2. Period \in Nat /\ Period > 0
  BY ExporterAssumption
<1>3. IsSeq(ps) /\ IsSeq(flat) /\ IsSeqs(PointLists(done))
  BY <1>1, SeqTyped, PointsAre
<1>4. Got(s) = flat \o ps
  BY DEF Got
<1>5. flat \o Append(ps, t) = Append(flat \o ps, t)
  <2>1. IsSeq(flat) /\ IsSeq(ps)
    BY <1>3
  <2> HIDE DEF flat, ps
  <2> QED
    BY <2>1, ConcatAppend
<1> DEFINE one == <<t>>
<1>6. IsSeq(one) /\ \A u : IsSeq(u) => u \o one = Append(u, t)
  BY AppendIs, OneIs
<1>7. old.active => /\ ps # <<>> /\ old.start <= Head(ps) /\ Last(ps) < old.start + Period
                    /\ Head(ps) \in Int
  BY <1>1 DEF FrameOk
<1>0. s \in [frame : Frames, done : Seq(Frames), fits : BOOLEAN] /\ s.frame = old /\ s.done = done
  BY DEF CollectedOk
<1>8. old.active /\ StartsBefore(old, {t}) => Head(ps) <= t
  BY DEF StartsBefore
<1> HIDE DEF old, done, ps, flat
<1>9. CASE ~old.active \/ t < old.start
  <2> DEFINE f == FrameFrom(t, t)
             next == [frame |-> f, done |-> done, fits |-> s.fits]
  <2>1. AddPoint(s, t) = next
    BY <1>1, <1>9 DEF AddPoint, old
  <2>2. f \in Frames /\ FrameOk(f) /\ f.points = one
    <3>1. t <= t /\ t < t + Period
      BY <1>2
    <3> QED
      BY <3>1, FrameFromOk
  <2> HIDE DEF f
  <2>3. next.frame = f /\ next.done = done /\ next \in [frame : Frames, done : Seq(Frames), fits : BOOLEAN]
    BY <1>1, <2>2
  <2> HIDE DEF next, one
  <2>4. CollectedOk(next)
    BY <1>1, <2>2, <2>3 DEF CollectedOk
  <2>5. ASSUME StartsBefore(old, {t}) PROVE Got(next) = Append(Got(s), t)
    <3>1. ~old.active
      BY <1>1, <1>7, <1>8, <1>9, <2>5
    <3>2. ps = <<>>
      BY <1>1, <3>1 DEF FrameOk, ps
    <3>3. flat \o ps = flat
      BY <1>3, <3>2, ConcatEmpty
    <3>4. Got(next) = flat \o one
      BY <2>2, <2>3, Zenon DEF Got, flat
    <3> QED
      BY <1>3, <1>4, <1>6, <3>3, <3>4
  <2> QED
    BY <2>1, <2>4, <2>5 DEF old
<1>10. CASE old.active /\ t >= old.start + Period
  <2> DEFINE start == old.start + ((t - old.start) \div Period) * Period
             f == FrameFrom(start, t)
             more == Append(done, old)
             next == [frame |-> f, done |-> more, fits |-> s.fits]
  <2>1. t >= old.start /\ ~(t < old.start)
    BY <1>1, <1>2, <1>10
  <2>2. start \in Int /\ start <= t /\ t < start + Period
    BY <1>1, <2>1, WindowOf, Zenon
  <2>3. AddPoint(s, t) = next
    <3>1. AddPoint(s, t) = [s EXCEPT !.done = Append(@, s.frame), !.frame = FrameFrom(start, t)]
      BY <1>10, <2>1 DEF AddPoint, old
    <3> HIDE DEF start
    <3> QED
      BY <1>1, <3>1, Zenon DEF old, done
  <2> HIDE DEF start
  <2>4. f \in Frames /\ FrameOk(f) /\ f.points = one
    BY <2>2, FrameFromOk
  <2> HIDE DEF f
  <2>5. more \in Seq(Frames) /\ \A i \in 1 .. Len(more) : more[i].active /\ FrameOk(more[i])
    <3>1. more \in Seq(Frames) /\ Len(more) = Len(done) + 1 /\ Len(done) \in Nat
      BY <1>1
    <3>2. \A i \in 1 .. Len(more) : more[i] = IF i = Len(done) + 1 THEN old ELSE done[i]
      BY <1>1
    <3>3. \A i \in 1 .. Len(more) : i # Len(done) + 1 => i \in 1 .. Len(done)
      BY <3>1
    <3> HIDE DEF more
    <3> QED
      BY <1>1, <1>10, <3>1, <3>2, <3>3
  <2>6. FlattenSeq(PointLists(more)) = flat \o ps
    <3>1. PointLists(more) = Append(PointLists(done), old.points)
      BY <1>1, PointsAre
    <3> QED
      BY <1>3, <3>1, FlatAppend, Zenon DEF flat, ps
  <2> HIDE DEF more
  <2>7. next.frame = f /\ next.done = more /\ next \in [frame : Frames, done : Seq(Frames), fits : BOOLEAN]
    BY <1>1, <2>4, <2>5
  <2> HIDE DEF next, one
  <2>8. CollectedOk(next)
    BY <1>1, <2>4, <2>5, <2>7 DEF CollectedOk
  <2>9. Got(next) = (flat \o ps) \o one
    BY <2>4, <2>6, <2>7, Zenon DEF Got
  <2>10. IsSeq(flat \o ps)
    BY <1>3, ConcatFacts
  <2> QED
    BY <1>4, <1>6, <2>3, <2>8, <2>9, <2>10, Zenon
<1>11. CASE old.active /\ ~(t < old.start) /\ ~(t >= old.start + Period) /\ t < Head(ps)
  <2> DEFINE next == [frame |-> old, done |-> done, fits |-> FALSE]
  <2>1. AddPoint(s, t) = next
    <3>1. AddPoint(s, t) = [s EXCEPT !.fits = FALSE]
      BY <1>11 DEF AddPoint, old, ps
    <3> QED
      BY <1>0, <3>1, Zenon
  <2>2. CollectedOk(next)
    BY <1>1 DEF CollectedOk
  <2>3. ~StartsBefore(old, {t})
    BY <1>7, <1>8, <1>11
  <2> QED
    BY <2>1, <2>2, <2>3 DEF old
<1>12. CASE old.active /\ ~(t < old.start) /\ ~(t >= old.start + Period) /\ ~(t < Head(ps))
  <2> DEFINE more == Append(ps, t)
             f == [active |-> old.active, start |-> old.start, points |-> more]
             next == [frame |-> f, done |-> done, fits |-> s.fits]
  <2>1. AddPoint(s, t) = next
    <3>1. AddPoint(s, t) = [s EXCEPT !.frame.points = Append(@, t)]
      BY <1>12 DEF AddPoint, old, ps
    <3>2. [s.frame EXCEPT !.points = Append(@, t)] = f
      <4>1. old \in Frames
        BY <1>1
      <4>2. [old EXCEPT !.points = Append(@, t)] = f
        BY <4>1 DEF Frames, ps
      <4> QED
        BY <1>0, <4>2
    <3>3. AddPoint(s, t) = [s EXCEPT !.frame = f]
      BY <3>1, <3>2, Zenon
    <3> HIDE DEF f
    <3> QED
      BY <1>0, <3>3
  <2>2. more \in Seq(Int) /\ more # <<>> /\ Head(more) = Head(ps) /\ Last(more) = t
    <3>1. ps \in Seq(Int) /\ ps # <<>>
      BY <1>1, <1>7, <1>12
    <3>2. more \in Seq(Int) /\ Len(more) = Len(ps) + 1 /\ Len(ps) \in Nat /\ Len(ps) > 0
      BY <3>1
    <3>3. more[Len(ps) + 1] = t /\ more[1] = ps[1]
      BY <3>1, <3>2
    <3> HIDE DEF more
    <3>4. more # <<>>
      BY <3>2
    <3>5. Head(more) = more[1] /\ Head(ps) = ps[1] /\ Last(more) = more[Len(more)]
      BY <3>1, <3>2, <3>4 DEF Last
    <3> QED
      BY <3>2, <3>3, <3>4, <3>5
  <2> HIDE DEF more
  <2>3. f \in Frames /\ f.active = old.active /\ f.start = old.start /\ f.points = more
    BY <1>1, <2>2 DEF Frames
  <2> HIDE DEF f
  <2>4. t < old.start + Period
    BY <1>1, <1>2, <1>12
  <2>5. FrameOk(f)
    BY <1>7, <1>12, <2>2, <2>3, <2>4 DEF FrameOk
  <2>6. next.frame = f /\ next.done = done /\ next \in [frame : Frames, done : Seq(Frames), fits : BOOLEAN]
    BY <1>1, <2>3
  <2> HIDE DEF next
  <2>7. CollectedOk(next)
    BY <1>1, <2>3, <2>5, <2>6 DEF CollectedOk
  <2>8. Got(next) = flat \o more
    BY <2>3, <2>6, Zenon DEF Got, flat
  <2> QED
    BY <1>4, <1>5, <2>1, <2>7, <2>8 DEF more
<1> QED
  BY <1>9, <1>10, <1>11, <1>12
LEMMA AccumulatedKeeps ==
  ASSUME NEW frame \in Frames, FrameOk(frame), NEW r \in IndexRows
  PROVE  /\ CollectedOk(Accumulated(frame, r))
         /\ /\ \A k, l \in DOMAIN PointTimes(r) : k <= l => PointTimes(r)[k] <= PointTimes(r)[l]
            /\ StartsBefore(frame, Range(PointTimes(r)))
            => Got(Accumulated(frame, r)) = frame.points \o PointTimes(r)
<1> DEFINE times == PointTimes(r)
           n == Len(times)
           base == [frame |-> frame, done |-> <<>>, fits |-> TRUE]
           ps == frame.points
           ordered == /\ \A k, l \in DOMAIN times : k <= l => times[k] <= times[l]
                      /\ StartsBefore(frame, Range(times))
<1>1. times \in Seq(Int) /\ n \in Nat /\ DOMAIN times = 1 .. n /\ \A k \in 1 .. n : times[k] \in Int
  BY PointTimesTyped
<1>2. PICK it : /\ it[0] = base /\ \A k \in 1 .. n : it[k] = AddPoint(it[k - 1], times[k])
                /\ Accumulated(frame, r) = it[n]
  <2>1. Accumulated(frame, r) = AddAll(base, times)
    BY DEF Accumulated, AddAll
  <2>0. times \in Seq(Int)
    BY <1>1
  <2> HIDE DEF base, times, n
  <2>2. \E it : /\ it[0] = base /\ \A k \in 1 .. Len(times) : it[k] = AddPoint(it[k - 1], times[k])
                /\ AddAll(base, times) = it[Len(times)]
    BY <2>0, AddedSteps
  <2> QED
    BY <2>1, <2>2 DEF n
<1>3. base.frame = frame /\ base.done = <<>> /\ CollectedOk(base)
  <2>1. base.frame = frame /\ base.done = <<>> /\ base \in [frame : Frames, done : Seq(Frames), fits : BOOLEAN]
    OBVIOUS
  <2>2. \A i \in 1 .. Len(<<>>) : FALSE
    BY EmptyFacts
  <2> HIDE DEF base
  <2> QED
    BY <2>1, <2>2 DEF CollectedOk
<1>4. IsSeq(times) /\ IsSeq(ps)
  <2>1. ps \in Seq(Int)
    BY DEF Frames
  <2> QED
    BY <1>1, <2>1, SeqTyped
<1>5. Got(base) = ps
  <2>1. PointLists(<<>>) = <<>>
    <3>1. Len(PointLists(<<>>)) = Len(<<>>) /\ IsSeqs(PointLists(<<>>))
      <4>1. <<>> \in Seq(Frames)
        OBVIOUS
      <4> QED
        BY <4>1, PointsAre, Zenon
    <3> QED
      BY <3>1, EmptyFacts, SeqFacts DEF IsSeqs
  <2>2. Got(base) = <<>> \o ps
    BY <1>3, <2>1, FlatEmpty, Zenon DEF Got
  <2> QED
    BY <1>4, <2>2, ConcatEmpty
<1>6. /\ SubSeq(times, 1, 0) = <<>> /\ SubSeq(times, 1, n) = times
      /\ (\A k \in 0 .. n : IsSeq(SubSeq(times, 1, k)))
      /\ \A k \in 1 .. n : SubSeq(times, 1, k) = Append(SubSeq(times, 1, k - 1), times[k])
  BY <1>4, PrefixFacts
<1> HIDE DEF times, base, n, ps
<1> DEFINE rest(k) == {times[j] : j \in k + 1 .. n}
           prefix(k) == SubSeq(times, 1, k)
           good == {k \in 0 .. n : /\ CollectedOk(it[k])
                                   /\ ordered => /\ StartsBefore(it[k].frame, rest(k))
                                                 /\ Got(it[k]) = ps \o prefix(k)}
<1>7. 0 \in good
  <2>1. 0 \in 0 .. n /\ ps \o prefix(0) = ps
    <3>1. prefix(0) = <<>>
      BY <1>6
    <3>2. ps \o <<>> = ps
      BY <1>4, ConcatEmpty
    <3>3. 0 \in 0 .. n
      BY <1>1
    <3> HIDE DEF prefix
    <3> QED
      BY <3>1, <3>2, <3>3, Zenon
  <2>2. rest(0) \subseteq Range(times)
    BY <1>1 DEF Range
  <2>3. ordered => StartsBefore(frame, rest(0))
    BY <2>2 DEF StartsBefore
  <2> HIDE DEF rest, prefix, ordered
  <2> QED
    BY <1>2, <1>3, <1>5, <2>1, <2>3
<1>8. ASSUME NEW k \in 1 .. n, k - 1 \in good PROVE k \in good
  <2>1. k - 1 \in 0 .. n /\ k \in 0 .. n /\ k - 1 + 1 = k /\ k \in Int
    BY <1>1
  <2>2. /\ it[k] = AddPoint(it[k - 1], times[k]) /\ times[k] \in Int /\ CollectedOk(it[k - 1])
        /\ ordered => StartsBefore(it[k - 1].frame, rest(k - 1)) /\ Got(it[k - 1]) = ps \o prefix(k - 1)
    BY <1>1, <1>2, <1>8, Zenon
  <2>3. rest(k - 1) = rest(k) \cup {times[k]}
    <3>1. k .. n = (k + 1 .. n) \cup {k}
      BY <1>1
    <3> QED
      BY <2>1, <3>1
  <2>4. rest(k) \in SUBSET Int /\ (ordered => \A x \in rest(k) : times[k] <= x)
    <3>1. \A j \in k + 1 .. n : j \in 1 .. n /\ k <= j
      BY <1>1
    <3>2. \A j \in k + 1 .. n : times[j] \in Int /\ (ordered => times[k] <= times[j])
      BY <1>1, <3>1, Zenon
    <3> QED
      BY <3>2
  <2>5. ps \o Append(prefix(k - 1), times[k]) = Append(ps \o prefix(k - 1), times[k])
    BY <1>4, <1>6, <2>1, ConcatAppend
  <2>6. prefix(k) = Append(prefix(k - 1), times[k])
    BY <1>6
  <2> HIDE DEF rest, prefix, ordered
  <2>7. /\ CollectedOk(it[k])
        /\ StartsBefore(it[k - 1].frame, {times[k]}) => Got(it[k]) = Append(Got(it[k - 1]), times[k])
    BY <2>2, AddPointKeeps, Zenon
  <2>8. ASSUME ordered PROVE StartsBefore(it[k].frame, rest(k)) /\ Got(it[k]) = ps \o prefix(k)
    <3>1. StartsBefore(it[k - 1].frame, {times[k]})
      BY <2>2, <2>3, <2>8 DEF StartsBefore
    <3>2. Collecting(it[k - 1])
      BY <2>2 DEF CollectedOk, FrameOk, Collecting
    <3>3. StartsBefore(AddPoint(it[k - 1], times[k]).frame, rest(k))
      BY <2>2, <2>3, <2>4, <2>8, <3>2, AddPointCollects, Zenon
    <3> QED
      BY <2>2, <2>5, <2>6, <2>7, <2>8, <3>1, <3>3, Zenon
  <2> QED
    BY <2>1, <2>7, <2>8
<1> HIDE DEF good
<1>9. \A k \in 0 .. n : k \in good
  BY <1>1, <1>7, <1>8, Upward, Zenon
<1>10. n \in good
  BY <1>1, <1>9
<1> HIDE DEF ordered
<1>11. CollectedOk(it[n]) /\ (ordered => Got(it[n]) = ps \o times)
  BY <1>6, <1>10, Zenon DEF good
<1> QED
  BY <1>2, <1>11 DEF times, ordered, ps

(***************************************************************************)
(* The clouds of a bag.                                                    *)
(***************************************************************************)
CloudOk(c) ==
  /\ MessageOk(c, TopicsOf("lidar")) /\ IsSeq(c.of) /\ Last(c.of) - c.at < Period
AllClouds(s) == IsSeq(s) /\ \A i \in 1 .. Len(s) : CloudOk(s[i])
Ofs(s) == [i \in 1 .. Len(s) |-> s[i].of]

LEMMA CloudIs ==
  ASSUME NEW f \in Frames, f.active, FrameOk(f)
  PROVE  CloudOk(Cloud(f)) /\ Cloud(f).of = f.points
<1> DEFINE ps == f.points
           c == Cloud(f)
<1>1. ps \in Seq(Int) /\ f.start \in Int /\ ps # <<>> /\ f.start <= Head(ps) /\ Last(ps) < f.start + Period
  BY DEF Frames, FrameOk
<1>2. c.kind = "message" /\ c.topic = <<"lidar", "points">> /\ c.at = Head(ps) /\ c.of = ps
  BY DEF Cloud, Message
<1>3. <<"lidar", "points">> \in Range(TopicsOf("lidar"))
  <2>1. TopicsOf("lidar") = <<<<"lidar", "points">>>>
    BY DEF TopicsOf, Cams
  <2> QED
    BY <2>1, OneIs
<1> HIDE DEF ps, c
<1>4. Head(ps) \in Int /\ Last(ps) \in Int /\ Period \in Nat
  BY <1>1, ExporterAssumption DEF Last
<1>5. Last(ps) - Head(ps) < Period
  BY <1>1, <1>4
<1>6. IsSeq(ps)
  BY <1>1, SeqTyped
<1> QED
  BY <1>2, <1>3, <1>4, <1>5, <1>6 DEF CloudOk, MessageOk, c, ps

LEMMA OfsAre ==
  ASSUME NEW s, AllClouds(s)
  PROVE  /\ IsSeqs(Ofs(s)) /\ Len(Ofs(s)) = Len(s) /\ PointsOf(s) = FlattenSeq(Ofs(s)) /\ IsSeq(PointsOf(s))
         /\ \A i \in 1 .. Len(s) : Ofs(s)[i] = s[i].of
<1> DEFINE n == Len(s)
           o == Ofs(s)
<1>1. n \in Nat /\ DOMAIN s = 1 .. n /\ \A i \in 1 .. n : IsSeq(s[i].of)
  BY SeqFacts DEF AllClouds, CloudOk
<1>2. \A i \in 1 .. n : o[i] = s[i].of
  BY DEF Ofs
<1>3. IsSeq(o) /\ Len(o) = n
  <2>1. o = [i \in 1 .. n |-> o[i]]
    BY DEF Ofs
  <2> HIDE DEF o, n
  <2> QED
    BY <1>1, <2>1, FunSeq
<1>4. IsSeqs(o)
  BY <1>1, <1>2, <1>3 DEF IsSeqs
<1>5. PointsOf(s) = FlattenSeq(o)
  BY <1>1 DEF PointsOf, Ofs
<1> QED
  BY <1>2, <1>3, <1>4, <1>5, FlatIs

LEMMA PointsConcat ==
  ASSUME NEW s, NEW t, AllClouds(s), AllClouds(t)
  PROVE  AllClouds(s \o t) /\ PointsOf(s \o t) = PointsOf(s) \o PointsOf(t)
<1> DEFINE u == s \o t
<1>1. IsSeq(s) /\ IsSeq(t) /\ (\A i \in 1 .. Len(s) : CloudOk(s[i])) /\ \A i \in 1 .. Len(t) : CloudOk(t[i])
  BY DEF AllClouds
<1>2. Len(s) \in Nat /\ Len(t) \in Nat
  BY <1>1, SeqFacts
<1>3. /\ IsSeq(u) /\ Len(u) = Len(s) + Len(t) /\ (\A i \in 1 .. Len(s) : u[i] = s[i])
      /\ \A i \in 1 .. Len(t) : u[Len(s) + i] = t[i]
  BY <1>1, ConcatFacts
<1> HIDE DEF u
<1>4. AllClouds(u)
  <2> SUFFICES ASSUME NEW k \in 1 .. Len(u) PROVE CloudOk(u[k])
    BY <1>3 DEF AllClouds
  <2>1. CASE k \in 1 .. Len(s)
    BY <1>1, <1>3, <2>1
  <2>2. CASE k \notin 1 .. Len(s)
    <3>1. k - Len(s) \in 1 .. Len(t) /\ Len(s) + (k - Len(s)) = k
      BY <1>2, <1>3, <2>2
    <3>2. u[k] = t[k - Len(s)]
      BY <1>3, <3>1
    <3> QED
      BY <1>1, <3>1, <3>2
  <2> QED
    BY <2>1, <2>2
<1>5. Ofs(u) = Ofs(s) \o Ofs(t)
  <2> DEFINE a == Ofs(s)
             b == Ofs(t)
             c == Ofs(u)
  <2>1. IsSeq(a) /\ IsSeq(b) /\ IsSeq(c) /\ Len(a) = Len(s) /\ Len(b) = Len(t) /\ Len(c) = Len(u)
    BY <1>4, OfsAre DEF IsSeqs
  <2>2. /\ \A k \in 1 .. Len(s) : a[k] = s[k].of
        /\ \A k \in 1 .. Len(t) : b[k] = t[k].of
        /\ \A k \in 1 .. Len(u) : c[k] = u[k].of
    BY <1>4, OfsAre
  <2> HIDE DEF a, b, c
  <2>3. \A i \in 1 .. Len(a) : c[i] = a[i]
    <3>1. \A i \in 1 .. Len(s) : i \in 1 .. Len(u)
      BY <1>2, <1>3
    <3> QED
      BY <1>3, <2>1, <2>2, <3>1
  <2>4. \A i \in 1 .. Len(b) : c[Len(a) + i] = b[i]
    <3>1. \A i \in 1 .. Len(t) : Len(s) + i \in 1 .. Len(u)
      BY <1>2, <1>3
    <3> QED
      BY <1>3, <2>1, <2>2, <3>1
  <2>5. Len(c) = Len(a) + Len(b)
    BY <1>3, <2>1
  <2>6. c = a \o b
    BY <2>1, <2>3, <2>4, <2>5, Glue, Zenon
  <2> QED
    BY <2>6 DEF a, b, c
<1>6. FlattenSeq(Ofs(s) \o Ofs(t)) = FlattenSeq(Ofs(s)) \o FlattenSeq(Ofs(t))
  BY OfsAre, FlatConcat
<1>7. PointsOf(s) = FlattenSeq(Ofs(s)) /\ PointsOf(t) = FlattenSeq(Ofs(t)) /\ PointsOf(u) = FlattenSeq(Ofs(u))
  BY <1>4, OfsAre
<1> QED
  BY <1>4, <1>5, <1>6, <1>7 DEF u

LEMMA CloudsAre ==
  ASSUME NEW s, CollectedOk(s)
  PROVE  AllClouds(Clouds(s.done)) /\ PointsOf(Clouds(s.done)) = FlattenSeq(PointLists(s.done))
<1> DEFINE done == s.done
           n == Len(done)
           c == Clouds(done)
<1>1. done \in Seq(Frames) /\ \A i \in 1 .. n : done[i].active /\ FrameOk(done[i])
  BY DEF CollectedOk
<1>2. n \in Nat /\ DOMAIN done = 1 .. n /\ \A i \in 1 .. n : done[i] \in Frames
  BY <1>1
<1>3. \A i \in 1 .. n : c[i] = Cloud(done[i])
  BY <1>2 DEF Clouds
<1>4. IsSeq(c) /\ Len(c) = n
  <2>1. c = [i \in 1 .. n |-> c[i]]
    BY <1>2 DEF Clouds
  <2> HIDE DEF c, n
  <2> QED
    BY <1>2, <2>1, FunSeq
<1> HIDE DEF c, done
<1>5. \A i \in 1 .. n : CloudOk(c[i]) /\ c[i].of = done[i].points
  BY <1>1, <1>2, <1>3, CloudIs
<1>6. AllClouds(c)
  BY <1>4, <1>5 DEF AllClouds
<1>7. Ofs(c) = PointLists(done)
  BY <1>4, <1>5 DEF Ofs, PointLists
<1>8. PointsOf(c) = FlattenSeq(Ofs(c))
  BY <1>6, OfsAre
<1> QED
  BY <1>6, <1>7, <1>8 DEF c, done
(***************************************************************************)
(* The clouds that are in the bag before a row, and the frame that is open.*)
(***************************************************************************)
AllTimes(d) == [j \in DOMAIN Rows(d, "lidar") |-> PointTimes(Rows(d, "lidar")[j])]
LidarSoFar(clouds, frame, d, row) ==
  /\ AllClouds(clouds) /\ FrameOk(frame) /\ frame \in Frames
  /\ PointsInOrder(d) => /\ StartsBefore(frame, Ahead(d, row))
                         /\ PointsOf(clouds) \o frame.points = FlattenSeq(SubSeq(AllTimes(d), 1, row - 1))

LEMMA NoClouds == AllClouds(<<>>) /\ PointsOf(<<>>) = <<>>
<1>1. AllClouds(<<>>)
  BY EmptyFacts DEF AllClouds
<1>2. IsSeqs(Ofs(<<>>)) /\ Len(Ofs(<<>>)) = 0 /\ PointsOf(<<>>) = FlattenSeq(Ofs(<<>>))
  BY <1>1, OfsAre, EmptyFacts
<1>3. Ofs(<<>>) = <<>>
  BY <1>2, SeqFacts DEF IsSeqs
<1> QED
  BY <1>1, <1>2, <1>3, FlatEmpty

LEMMA TimesAre ==
  ASSUME NEW d \in Directories
  PROVE  /\ IsSeqs(AllTimes(d)) /\ Len(AllTimes(d)) = Len(Rows(d, "lidar")) /\ AllPoints(d) = FlattenSeq(AllTimes(d))
         /\ \A i \in 1 .. Len(Rows(d, "lidar")) : /\ AllTimes(d)[i] = PointTimes(Rows(d, "lidar")[i])
                                                  /\ IsSeq(PointTimes(Rows(d, "lidar")[i]))
                                                  /\ Rows(d, "lidar")[i] \in IndexRows
         /\ Len(Rows(d, "lidar")) \in Nat /\ DOMAIN Rows(d, "lidar") = 1 .. Len(Rows(d, "lidar"))
<1> DEFINE rows == Rows(d, "lidar")
           n == Len(rows)
           ts == AllTimes(d)
<1>1. n \in Nat /\ DOMAIN rows = 1 .. n /\ \A i \in 1 .. n : rows[i] \in IndexRows
  <2>1. "lidar" \in Files
    BY DEF Files, Sensors
  <2> QED
    BY <2>1, RowsTyped
<1>2. \A i \in 1 .. n : ts[i] = PointTimes(rows[i])
  BY <1>1 DEF AllTimes
<1>3. \A i \in 1 .. n : IsSeq(PointTimes(rows[i]))
  BY <1>1, PointTimesTyped, SeqTyped
<1>4. IsSeq(ts) /\ Len(ts) = n
  <2>1. ts = [i \in 1 .. n |-> ts[i]]
    BY <1>1 DEF AllTimes
  <2> HIDE DEF ts, n
  <2> QED
    BY <1>1, <2>1, FunSeq
<1>5. AllPoints(d) = FlattenSeq(ts)
  BY DEF AllPoints, AllTimes
<1> QED
  BY <1>1, <1>2, <1>3, <1>4, <1>5 DEF IsSeqs

LEMMA LidarStart == \A d : LidarSoFar(<<>>, NoFrame, d, 1)
<1> SUFFICES ASSUME NEW d PROVE LidarSoFar(<<>>, NoFrame, d, 1)
  OBVIOUS
<1> DEFINE none == <<>>
<1>1. NoFrame \in Frames /\ ~NoFrame.active /\ NoFrame.points = none
  BY DEF NoFrame, Frames
<1>2. AllClouds(none) /\ PointsOf(none) = none /\ none \o none = none
  BY NoClouds, EmptyFacts, ConcatEmpty
<1>3. FlattenSeq(SubSeq(AllTimes(d), 1, 1 - 1)) = none
  <2>1. SubSeq(AllTimes(d), 1, 1 - 1) = <<>>
    OBVIOUS
  <2> QED
    BY <2>1, FlatEmpty, Zenon
<1> HIDE DEF none
<1>4. FrameOk(NoFrame) /\ StartsBefore(NoFrame, Ahead(d, 1))
  BY <1>1 DEF FrameOk, StartsBefore, none
<1>5. LidarSoFar(none, NoFrame, d, 1)
  BY <1>1, <1>2, <1>3, <1>4 DEF LidarSoFar
<1> QED
  BY <1>5 DEF none

LEMMA LidarRowKeeps ==
  ASSUME NEW d \in Directories, NEW i \in 1 .. Len(Rows(d, "lidar")), NEW clouds, NEW frame,
         LidarSoFar(clouds, frame, d, i)
  PROVE  LET a == Accumulated(frame, Rows(d, "lidar")[i])
         IN  AllClouds(Clouds(a.done)) /\ LidarSoFar(clouds \o Clouds(a.done), a.frame, d, i + 1)
<1> DEFINE r == Rows(d, "lidar")[i]
           a == Accumulated(frame, r)
           new == Clouds(a.done)
           times == PointTimes(r)
           ts == AllTimes(d)
           ps == frame.points
           qs == a.frame.points
           old == PointsOf(clouds)
           flat == FlattenSeq(PointLists(a.done))
<1>1. AllClouds(clouds) /\ FrameOk(frame) /\ frame \in Frames /\ ps \in Seq(Int)
  BY DEF LidarSoFar, Frames
<1>2. r \in IndexRows /\ IsSeqs(ts) /\ Len(ts) = Len(Rows(d, "lidar")) /\ ts[i] = times /\ IsSeq(times)
      /\ DOMAIN Rows(d, "lidar") = 1 .. Len(Rows(d, "lidar")) /\ Len(Rows(d, "lidar")) \in Nat
  BY TimesAre
<1>3. CollectedOk(a)
  BY <1>1, <1>2, AccumulatedKeeps
<1>4. a.frame \in Frames /\ FrameOk(a.frame) /\ a.done \in Seq(Frames) /\ qs \in Seq(Int)
  BY <1>3 DEF CollectedOk, Frames
<1>5. AllClouds(new) /\ PointsOf(new) = flat
  BY <1>3, CloudsAre
<1>6. AllClouds(clouds \o new) /\ PointsOf(clouds \o new) = old \o flat
  BY <1>1, <1>5, PointsConcat, Zenon
<1>7. ASSUME PointsInOrder(d)
      PROVE  /\ StartsBefore(a.frame, Ahead(d, i + 1))
             /\ PointsOf(clouds \o new) \o qs = FlattenSeq(SubSeq(ts, 1, i + 1 - 1))
  <2>1. StartsBefore(frame, Ahead(d, i)) /\ old \o ps = FlattenSeq(SubSeq(ts, 1, i - 1))
    BY <1>7 DEF LidarSoFar
  <2>2. StartsBefore(a.frame, Ahead(d, i + 1))
    <3>1. frame.active => frame.points # <<>>
      BY <1>1 DEF FrameOk
    <3> QED
      BY <1>1, <1>2, <1>7, <2>1, <3>1, FrameStep
  <2>3. \A k, l \in DOMAIN times : k <= l => times[k] <= times[l]
    <3>1. i \in DOMAIN Rows(d, "lidar")
      BY <1>2
    <3> QED
      BY <1>7, <3>1 DEF PointsInOrder
  <2>4. StartsBefore(frame, Range(times))
    <3>1. Range(times) \subseteq Ahead(d, i)
      <4>1. i \in {k \in DOMAIN Rows(d, "lidar") : k >= i}
        BY <1>2
      <4> QED
        BY <4>1 DEF Ahead
    <3> QED
      BY <2>1, <3>1 DEF StartsBefore
  <2>5. Got(a) = ps \o times
    BY <1>1, <1>2, <2>3, <2>4, AccumulatedKeeps, Zenon
  <2>6. Got(a) = flat \o qs
    BY DEF Got
  <2>7. IsSeq(old) /\ IsSeq(ps) /\ IsSeq(qs) /\ IsSeq(flat) /\ IsSeq(times)
    BY <1>1, <1>2, <1>4, OfsAre, PointsAre, SeqTyped
  <2>8. FlattenSeq(SubSeq(ts, 1, i)) = FlattenSeq(SubSeq(ts, 1, i - 1)) \o times
    BY <1>2, FlatPrefix, Zenon
  <2> HIDE DEF old, ps, qs, flat, times, ts
  <2>9. (old \o flat) \o qs = old \o (flat \o qs)
    BY <2>7, ConcatAssoc
  <2>11. (old \o ps) \o times = old \o (ps \o times)
    <3>1. IsSeq(old) /\ IsSeq(ps) /\ IsSeq(times)
      BY <2>7
    <3> QED
      BY <3>1, ConcatAssoc
  <2>10. i + 1 - 1 = i
    OBVIOUS
  <2> QED
    BY <1>6, <2>1, <2>2, <2>5, <2>6, <2>8, <2>9, <2>10, <2>11, Zenon
<1> HIDE DEF new, a
<1>8. LidarSoFar(clouds \o new, a.frame, d, i + 1)
  <2> DEFINE all == clouds \o new
             f == a.frame
  <2>1. AllClouds(all) /\ f \in Frames /\ FrameOk(f)
    BY <1>4, <1>6
  <2>2. PointsInOrder(d) => /\ StartsBefore(f, Ahead(d, i + 1))
                            /\ PointsOf(all) \o f.points = FlattenSeq(SubSeq(AllTimes(d), 1, i + 1 - 1))
    BY <1>7
  <2> HIDE DEF all, f
  <2>3. LidarSoFar(all, f, d, i + 1)
    BY <2>1, <2>2 DEF LidarSoFar
  <2> QED
    BY <2>3 DEF all, f
<1> QED
  BY <1>5, <1>8 DEF new, a

(* The frame that is left at the end of the stream is written as well.     *)
LEMMA LidarEnd ==
  ASSUME NEW d \in Directories, NEW clouds, NEW frame, LidarSoFar(clouds, frame, d, Len(Rows(d, "lidar")) + 1)
  PROVE  LET last == IF frame.active THEN <<Cloud(frame)>> ELSE <<>>
         IN  /\ AllClouds(last) /\ AllClouds(clouds \o last)
             /\ PointsInOrder(d) => PointsOf(clouds \o last) = AllPoints(d)
<1> DEFINE last == IF frame.active THEN <<Cloud(frame)>> ELSE <<>>
           n == Len(Rows(d, "lidar"))
           ts == AllTimes(d)
           ps == frame.points
           c == Cloud(frame)
<1>1. AllClouds(clouds) /\ FrameOk(frame) /\ frame \in Frames
  BY DEF LidarSoFar
<1>2. AllClouds(last) /\ PointsOf(last) = ps
  <2>1. CASE frame.active
    <3>1. CloudOk(c) /\ c.of = ps
      BY <1>1, <2>1, CloudIs
    <3> DEFINE one == <<c>>
    <3>2. last = one /\ IsSeq(one) /\ Len(one) = 1
      BY <2>1, OneIs
    <3>3. one[1] = c
      OBVIOUS
    <3> HIDE DEF c, one, ps
    <3>4. AllClouds(one)
      BY <3>1, <3>2, <3>3 DEF AllClouds
    <3>5. IsSeqs(Ofs(one)) /\ Len(Ofs(one)) = 1 /\ PointsOf(one) = FlattenSeq(Ofs(one)) /\ Ofs(one)[1] = ps
      <4>1. 1 \in 1 .. Len(one)
        BY <3>2
      <4> QED
        BY <3>1, <3>2, <3>3, <3>4, <4>1, OfsAre
    <3>6. IsSeq(ps)
      BY <3>1 DEF CloudOk
    <3>7. Ofs(one) = <<ps>>
      <4> DEFINE q == <<ps>>
      <4>1. IsSeq(q) /\ Len(q) = 1 /\ q[1] = ps
        BY OneIs
      <4> HIDE DEF q
      <4>2. Ofs(one) = q
        BY <3>5, <4>1, SameElements DEF IsSeqs
      <4> QED
        BY <4>2 DEF q
    <3>8. FlattenSeq(<<ps>>) = ps
      <4>1. <<ps>> = Append(<<>>, ps)
        OBVIOUS
      <4>2. FlattenSeq(Append(<<>>, ps)) = <<>> \o ps
        BY <3>6, FlatEmpty, FlatAppend, Zenon
      <4> QED
        BY <3>6, <4>1, <4>2, ConcatEmpty
    <3> QED
      BY <3>2, <3>4, <3>5, <3>7, <3>8
  <2>2. CASE ~frame.active
    <3>1. ps = <<>>
      BY <1>1, <2>2 DEF FrameOk
    <3> QED
      BY <2>2, <3>1, NoClouds
  <2> QED
    BY <2>1, <2>2
<1> HIDE DEF last
<1>3. AllClouds(clouds \o last) /\ PointsOf(clouds \o last) = PointsOf(clouds) \o ps
  BY <1>1, <1>2, PointsConcat, Zenon
<1>4. ASSUME PointsInOrder(d) PROVE PointsOf(clouds \o last) = AllPoints(d)
  <2>1. PointsOf(clouds) \o ps = FlattenSeq(SubSeq(ts, 1, n + 1 - 1))
    BY <1>4 DEF LidarSoFar
  <2>2. IsSeqs(ts) /\ Len(ts) = n /\ AllPoints(d) = FlattenSeq(ts) /\ n \in Nat
    BY TimesAre
  <2>3. SubSeq(ts, 1, n) = ts
    BY <2>2, PrefixFacts DEF IsSeqs
  <2> HIDE DEF n, ts, ps
  <2>4. n + 1 - 1 = n
    BY <2>2
  <2> QED
    BY <1>3, <2>1, <2>2, <2>3, <2>4, Zenon
<1> QED
  BY <1>2, <1>3, <1>4 DEF last

--------------------------------------------------------------------------------
(***************************************************************************)
(* The export, step by step.                                               *)
(***************************************************************************)
\* The messages of a stream among those of the bag, and those of its rows.
Found(held, s)    == Where(held, "topic", Range(TopicsOf(s)))
AllMessages(d, s) == [i \in 1 .. Len(RowsOf(d, s)) |-> Messages(d, s, i)]

\* A stream that has been written, and one whose rows before the given one have.
StreamDone(found, d, s) ==
  IF s = "lidar" THEN AllClouds(found) /\ (PointsInOrder(d) => PointsOf(found) = AllPoints(d))
  ELSE found = FlattenSeq(AllMessages(d, s))
StreamSoFar(found, d, s, row, frame) ==
  IF s = "lidar" THEN LidarSoFar(found, frame, d, row)
  ELSE ~ frame.active /\ found = FlattenSeq(SubSeq(AllMessages(d, s), 1, row - 1))

\* The streams before the current one are in the bag, those after it are not,
\* and of the current one what its rows so far have made.
Progress(held, d, stream, row, frame) ==
  /\ stream \in 1 .. 10 /\ ~ Exports(d, Order[stream]) => ~ frame.active
  /\ \A k \in 1 .. 10 : Exports(d, Order[k]) =>
       /\ k < stream => StreamDone(Found(held, Order[k]), d, Order[k])
       /\ k = stream => /\ row <= Len(RowsOf(d, Order[k])) + 1
                        /\ StreamSoFar(Found(held, Order[k]), d, Order[k], row, frame)
       /\ k > stream => Found(held, Order[k]) = <<>>

Filling ==
  export.pc \in {"rows", "finish"} =>
    /\ GnssAccepted(dataset) /\ BagOk(request.format, bag, Topics(dataset))
    /\ Progress(BagHeld(request.format, bag), dataset, export.stream, export.row, export.frame)
\* What is promised of a bag that is put in place.
Complete ==
  /\ IF request.format = "ros1" THEN Ros1Indexed(bag) ELSE Ros2Described(bag)
  /\ \A i \in DOMAIN Order : Exports(dataset, Order[i]) => HoldsStream(bag, dataset, Order[i])
Filled ==
  disk.temporary = "new" \/ disk.output = "new" => Complete /\ export.pc \notin {"check", "rows", "finish"}
BagInv == Filling /\ Filled

(* Two streams have no topic in common.                                    *)
LEMMA StreamsApart ==
  ASSUME NEW k \in 1 .. 10, NEW l \in 1 .. 10, k # l
  PROVE  Range(TopicsOf(Order[k])) \cap Range(TopicsOf(Order[l])) = {}
<1>1. Order[k] # Order[l]
  BY DEF Order
<1> QED
  BY <1>1, StreamTopics

(* Messages of one stream are found there and in no other.                 *)
LEMMA FoundAfter ==
  ASSUME NEW held, IsSeq(held), NEW more, IsSeq(more), NEW l \in 1 .. 10,
         \A m \in Range(more) : m.topic \in Range(TopicsOf(Order[l]))
  PROVE  /\ Found(held \o more, Order[l]) = Found(held, Order[l]) \o more
         /\ \A k \in 1 .. 10 : k # l => Found(held \o more, Order[k]) = Found(held, Order[k])
<1>1. ASSUME NEW k \in 1 .. 10
      PROVE  /\ Found(held \o more, Order[k]) = Found(held, Order[k]) \o Found(more, Order[k])
             /\ IsSeq(Found(held, Order[k]))
  BY WhereConcat, WhereIs DEF Found
<1>2. Found(more, Order[l]) = more
  BY WhereAllNone DEF Found
<1>3. ASSUME NEW k \in 1 .. 10, k # l PROVE Found(more, Order[k]) = <<>>
  <2>1. \A m \in Range(more) : m.topic \notin Range(TopicsOf(Order[k]))
    BY <1>3, StreamsApart
  <2> QED
    BY <2>1, WhereAllNone DEF Found
<1>4. ASSUME NEW k \in 1 .. 10, k # l PROVE Found(held \o more, Order[k]) = Found(held, Order[k])
  BY <1>1, <1>3, <1>4, ConcatEmpty, Zenon
<1> QED
  BY <1>1, <1>2, <1>4, Zenon

LEMMA RowsCount ==
  ASSUME NEW d \in Directories, NEW s \in Range(Order)
  PROVE  Len(RowsOf(d, s)) \in Nat
<1>1. CASE s = "position"
  <2>1. RowsOf(d, s) = d.gnss.positions
    BY <1>1 DEF RowsOf
  <2>2. d.gnss.positions \in Seq([elapsed : Nat])
    BY DirectoriesAssumption
  <2> QED
    BY <2>1, <2>2
<1>2. CASE s = "quality"
  <2>1. RowsOf(d, s) = d.gnss.quality
    BY <1>2 DEF RowsOf
  <2>2. d.gnss.quality \in Seq([elapsed : Nat])
    BY DirectoriesAssumption
  <2> QED
    BY <2>1, <2>2
<1>3. CASE s # "position" /\ s # "quality"
  <2>1. RowsOf(d, s) = Rows(d, s) /\ s \in Files
    BY <1>3, OrderIs DEF Order, Range, Files, Cams, Sensors
  <2> QED
    BY <2>1, RowsTyped
<1> QED
  BY <1>1, <1>2, <1>3

LEMMA MessagesTyped ==
  ASSUME NEW d \in Directories, GnssAccepted(d), NEW s \in Range(Order), s # "lidar"
  PROVE  /\ IsSeqs(AllMessages(d, s)) /\ Len(AllMessages(d, s)) = Len(RowsOf(d, s))
         /\ \A i \in 1 .. Len(RowsOf(d, s)) : AllMessages(d, s)[i] = Messages(d, s, i)
<1> DEFINE all == AllMessages(d, s)
           n == Len(RowsOf(d, s))
<1>1. n \in Nat
  BY RowsCount
<1>2. all = [i \in 1 .. n |-> Messages(d, s, i)]
  BY DEF AllMessages
<1> HIDE DEF all, n
<1>3. all = [i \in 1 .. n |-> all[i]] /\ \A i \in 1 .. n : all[i] = Messages(d, s, i)
  BY <1>2
<1>4. IsSeq(all) /\ Len(all) = n
  BY <1>1, <1>3, FunSeq
<1>5. \A i \in 1 .. n : IsSeq(Messages(d, s, i))
  BY RowMessages DEF n
<1> QED
  BY <1>3, <1>4, <1>5 DEF all, n, IsSeqs

LEMMA NotLidar ==
  ASSUME NEW found, NEW d, NEW s, s # "lidar", NEW row, NEW frame, StreamSoFar(found, d, s, row, frame)
  PROVE  ~ frame.active /\ found = FlattenSeq(SubSeq(AllMessages(d, s), 1, row - 1))
BY DEF StreamSoFar

LEMMA StreamStarts ==
  ASSUME NEW d \in Directories, NEW s \in Range(Order)
  PROVE  1 <= Len(RowsOf(d, s)) + 1 /\ StreamSoFar(<<>>, d, s, 1, NoFrame)
<1>1. Len(RowsOf(d, s)) \in Nat
  BY RowsCount
<1>2. 1 <= Len(RowsOf(d, s)) + 1
  <2> DEFINE n == Len(RowsOf(d, s))
  <2>1. n \in Nat
    BY <1>1
  <2> HIDE DEF n
  <2>2. 1 <= n + 1
    BY <2>1
  <2> QED
    BY <2>2 DEF n
<1>3. CASE s = "lidar"
  BY <1>2, <1>3, LidarStart DEF StreamSoFar
<1>4. CASE s # "lidar"
  <2>1. AllMessages(d, s) = [i \in 1 .. Len(RowsOf(d, s)) |-> Messages(d, s, i)]
    BY DEF AllMessages
  <2> DEFINE all == AllMessages(d, s)
             n == Len(RowsOf(d, s))
  <2>2. n \in Nat /\ all = [i \in 1 .. n |-> all[i]]
    BY <1>1, <2>1
  <2> HIDE DEF all, n
  <2>3. SubSeq(all, 1, 0) = <<>>
    BY <2>2, FunSeq, PrefixFacts
  <2>4. FlattenSeq(SubSeq(all, 1, 1 - 1)) = <<>>
    <3>1. 1 - 1 = 0
      OBVIOUS
    <3> QED
      BY <2>3, <3>1, FlatEmpty, Zenon
  <2>5. ~ NoFrame.active
    BY DEF NoFrame
  <2> QED
    BY <1>2, <1>4, <2>4, <2>5 DEF StreamSoFar, all
<1> QED
  BY <1>3, <1>4

(* The first stream begins; a row of a stream is written; a stream ends.   *)
LEMMA ProgressStarts ==
  ASSUME NEW d \in Directories
  PROVE  Progress(<<>>, d, 1, 1, NoFrame)
<1>1. \A k \in 1 .. 10 : Found(<<>>, Order[k]) = <<>>
  BY WhereEmpty DEF Found
<1>2. \A k \in 1 .. 10 : k = 1 => 1 <= Len(RowsOf(d, Order[k])) + 1 /\ StreamSoFar(<<>>, d, Order[k], 1, NoFrame)
  BY OrderIs, StreamStarts
<1>3. ~ NoFrame.active
  BY DEF NoFrame
<1>4. \A k \in 1 .. 10 : ~(k < 1)
  OBVIOUS
<1> QED
  BY <1>1, <1>2, <1>3, <1>4 DEF Progress

LEMMA ProgressRow ==
  ASSUME NEW d, NEW held, IsSeq(held), NEW stream \in 1 .. 10, NEW row, NEW frame,
         Progress(held, d, stream, row, frame), Exports(d, Order[stream]),
         NEW more, IsSeq(more), \A m \in Range(more) : m.topic \in Range(TopicsOf(Order[stream])),
         NEW next, next <= Len(RowsOf(d, Order[stream])) + 1, NEW open,
         StreamSoFar(Found(held, Order[stream]) \o more, d, Order[stream], next, open)
  PROVE  Progress(held \o more, d, stream, next, open)
<1> SUFFICES ASSUME NEW k \in 1 .. 10, Exports(d, Order[k])
             PROVE  /\ k < stream => StreamDone(Found(held \o more, Order[k]), d, Order[k])
                    /\ k = stream => /\ next <= Len(RowsOf(d, Order[k])) + 1
                                     /\ StreamSoFar(Found(held \o more, Order[k]), d, Order[k], next, open)
                    /\ k > stream => Found(held \o more, Order[k]) = <<>>
  BY DEF Progress
<1>1. CASE k = stream
  <2>1. Found(held \o more, Order[stream]) = Found(held, Order[stream]) \o more
    BY FoundAfter, Zenon
  <2> QED
    BY <1>1, <2>1
<1>2. CASE k # stream
  <2>1. Found(held \o more, Order[k]) = Found(held, Order[k])
    BY <1>2, FoundAfter, Zenon
  <2> QED
    BY <1>2, <2>1, Zenon DEF Progress
<1> QED
  BY <1>1, <1>2

LEMMA ProgressStream ==
  ASSUME NEW d \in Directories, NEW held, IsSeq(held), NEW stream \in 1 .. 10, NEW row, NEW frame,
         Progress(held, d, stream, row, frame), NEW more, IsSeq(more),
         ~ Exports(d, Order[stream]) => more = <<>>,
         Exports(d, Order[stream]) => /\ \A m \in Range(more) : m.topic \in Range(TopicsOf(Order[stream]))
                                      /\ StreamDone(Found(held, Order[stream]) \o more, d, Order[stream])
  PROVE  Progress(held \o more, d, stream + 1, 1, NoFrame)
<1>1. ASSUME NEW k \in 1 .. 10, k # stream PROVE Found(held \o more, Order[k]) = Found(held, Order[k])
  <2>1. CASE Exports(d, Order[stream])
    BY <1>1, <2>1, FoundAfter, Zenon
  <2>2. CASE ~ Exports(d, Order[stream])
    BY <2>2, ConcatEmpty
  <2> QED
    BY <2>1, <2>2
<1>2. ~ NoFrame.active
  BY DEF NoFrame
<1> SUFFICES ASSUME NEW k \in 1 .. 10, Exports(d, Order[k])
             PROVE  /\ k < stream + 1 => StreamDone(Found(held \o more, Order[k]), d, Order[k])
                    /\ k = stream + 1 => /\ 1 <= Len(RowsOf(d, Order[k])) + 1
                                         /\ StreamSoFar(Found(held \o more, Order[k]), d, Order[k], 1, NoFrame)
                    /\ k > stream + 1 => Found(held \o more, Order[k]) = <<>>
  BY <1>2 DEF Progress
<1>3. CASE k < stream
  <2>1. Found(held \o more, Order[k]) = Found(held, Order[k])
    BY <1>1, <1>3
  <2> QED
    BY <1>3, <2>1 DEF Progress
<1>4. CASE k = stream
  <2>1. Found(held \o more, Order[stream]) = Found(held, Order[stream]) \o more
    BY <1>4, FoundAfter, Zenon
  <2> QED
    BY <1>4, <2>1
<1>5. CASE k > stream
  <2>1. Found(held \o more, Order[k]) = <<>>
    BY <1>1, <1>5 DEF Progress
  <2>2. Order[k] \in Range(Order)
    BY OrderIs
  <2>3. 1 <= Len(RowsOf(d, Order[k])) + 1 /\ StreamSoFar(<<>>, d, Order[k], 1, NoFrame)
    BY <2>2, StreamStarts
  <2> QED
    BY <1>5, <2>1, <2>3
<1> QED
  BY <1>3, <1>4, <1>5

(* A step that leaves the bag alone and is not filling it afterwards.      *)
LEMMA BagStays ==
  ASSUME BagInv, UNCHANGED <<dataset, request, bag>>, export'.pc \notin {"check", "rows", "finish"},
         disk'.temporary = "new" \/ disk'.output = "new" => disk.temporary = "new" \/ disk.output = "new"
  PROVE  BagInv'
<1>1. disk'.temporary = "new" \/ disk'.output = "new" => Complete
  BY DEF BagInv, Filled
<1>2. Complete => Complete'
  BY Zenon DEF Complete, HoldsStream, Written, Ros1Indexed, Ros2Described
<1> QED
  BY <1>1, <1>2 DEF BagInv, Filling, Filled

LEMMA BagSame ==
  ASSUME BagInv, UNCHANGED <<dataset, request, bag, disk, export>>
  PROVE  BagInv'
<1>1. Complete => Complete'
  BY Zenon DEF Complete, HoldsStream, Written, Ros1Indexed, Ros2Described
<1> QED
  BY <1>1 DEF BagInv, Filling, Filled

LEMMA BagFails ==
  ASSUME BagInv, ExportInv, UNCHANGED <<dataset, request, bag, disk>>, NEW why, Fail(why)
  PROVE  BagInv'
<1>1. export'.pc = "cleanUp"
  BY FailTo DEF ExportInv, Fields
<1> QED
  BY <1>1, BagStays

(* While the bag is filled.                                                *)
LEMMA WhileFilling ==
  ASSUME ReadersInv, BagInv, export.pc \in {"rows", "finish"}
  PROVE  /\ disk.temporary # "new" /\ disk.output # "new" /\ dataset \in Directories /\ GnssAccepted(dataset)
         /\ IsSeq(Topics(dataset)) /\ Distinct(Topics(dataset)) /\ Topics(dataset) # <<>>
         /\ BagOk(request.format, bag, Topics(dataset)) /\ IsSeq(BagHeld(request.format, bag))
         /\ Progress(BagHeld(request.format, bag), dataset, export.stream, export.row, export.frame)
<1>1. BagOk(request.format, bag, Topics(dataset)) /\ GnssAccepted(dataset)
      /\ Progress(BagHeld(request.format, bag), dataset, export.stream, export.row, export.frame)
  BY DEF BagInv, Filling
<1>2. disk.temporary # "new" /\ disk.output # "new"
  BY DEF BagInv, Filled
<1>3. dataset \in Directories
  BY DEF ReadersInv, Reached
<1> QED
  BY <1>1, <1>2, <1>3, TopicsAre, BagSeq

LEMMA CheckFills ==
  ASSUME ReadersInv, ExportInv, BagInv, Check
  PROVE  BagInv'
<1>1. /\ export.pc = "check" /\ UNCHANGED <<dataset, request>> /\ dataset \in Directories /\ export = NoExport
      /\ disk.output # "new"
  BY DEF Check, ReadersInv, Reached, BagInv, Filled
<1>2. CASE (Fail("output") \/ Fail("dataset") \/ Fail("cancelled")) /\ UNCHANGED <<disk, bag>>
  BY <1>1, <1>2, BagFails
<1>3. CASE /\ SecondPassAccepted(dataset) /\ export' = [export EXCEPT !.pc = "rows"]
           /\ disk' = [disk EXCEPT !.temporary = "partial"] /\ bag' = NewBag(Topics(dataset))
  <2>1. /\ export'.pc = "rows" /\ export'.stream = 1 /\ export'.row = 1 /\ export'.frame = NoFrame
    BY <1>1, <1>3 DEF NoExport
  <2>2. disk'.temporary = "partial" /\ disk'.output = disk.output
    BY <1>3 DEF ExportInv, Fields, Disks
  <2>3. GnssAccepted(dataset)
    BY <1>3 DEF SecondPassAccepted
  <2>4. BagOk(request.format, bag', Topics(dataset)) /\ BagHeld(request.format, bag') = <<>>
    BY <1>3, NewBagIs
  <2>5. Progress(<<>>, dataset, 1, 1, NoFrame)
    BY <1>1, ProgressStarts
  <2> QED
    BY <1>1, <2>1, <2>2, <2>3, <2>4, <2>5 DEF BagInv, Filling, Filled
<1> QED
  BY <1>2, <1>3 DEF Check

(* What a row adds, once the progress it makes is known.                   *)
LEMMA RowFills ==
  ASSUME ReadersInv, ExportInv, BagInv, export.pc = "rows", export.stream \in 1 .. 10,
         UNCHANGED <<dataset, request, disk>>, Exports(dataset, Order[export.stream]),
         NEW more, IsSeq(more), \A m \in Range(more) : MessageOk(m, TopicsOf(Order[export.stream])),
         bag' = PutAll(bag, more),
         export'.pc # "rows" => export'.pc = "cleanUp",
         export'.stream = export.stream,
         export'.row <= Len(RowsOf(dataset, Order[export.stream])) + 1,
         StreamSoFar(Found(BagHeld(request.format, bag), Order[export.stream]) \o more, dataset,
                     Order[export.stream], export'.row, export'.frame)
  PROVE  BagInv'
<1> DEFINE held == BagHeld(request.format, bag)
           T == Topics(dataset)
<1>1. /\ disk.temporary # "new" /\ disk.output # "new" /\ GnssAccepted(dataset)
      /\ IsSeq(T) /\ Distinct(T) /\ BagOk(request.format, bag, T) /\ IsSeq(held)
      /\ Progress(held, dataset, export.stream, export.row, export.frame)
  BY WhileFilling
<1>2. \A m \in Range(more) : MessageOk(m, T) /\ m.topic \in Range(TopicsOf(Order[export.stream]))
  <2>1. Range(TopicsOf(Order[export.stream])) \subseteq Range(T)
    BY TopicsAre, Zenon
  <2> QED
    BY <2>1 DEF MessageOk
<1>3. \A i \in 1 .. Len(more) : MessageOk(more[i], T)
  BY <1>2, SeqFacts
<1> HIDE DEF T
<1>4. BagOk(request.format, bag', T) /\ BagHeld(request.format, bag') = held \o more
  BY <1>1, <1>3, PutAllKeeps, Zenon
<1> HIDE DEF held
<1>5. Progress(held \o more, dataset, export.stream, export'.row, export'.frame)
  BY <1>1, <1>2, ProgressRow, Zenon DEF held
<1> QED
  BY <1>1, <1>4, <1>5 DEF BagInv, Filling, Filled, T

LEMMA WriteRowFills ==
  ASSUME ReadersInv, ExportInv, BagInv, NEW s, NEW i, WriteRow(s, i)
  PROVE  BagInv'
<1> DEFINE more == Messages(dataset, s, i)
           held == BagHeld(request.format, bag)
           all == AllMessages(dataset, s)
           n == Len(RowsOf(dataset, s))
<1>1. /\ export.pc = "rows" /\ export.stream \in 1 .. 10 /\ s = Order[export.stream] /\ s # "lidar"
      /\ i = export.row /\ i \in Nat \ {0} /\ Exports(dataset, s) /\ i <= n
      /\ UNCHANGED <<dataset, request, disk>> /\ dataset \in Directories /\ bag' = PutAll(bag, more)
  BY OrderIs DEF WriteRow, IsCurrentRow, ReadersInv, Reached
<1>2. /\ export'.stream = export.stream /\ export'.row = i + 1 /\ export'.frame = export.frame
      /\ export'.pc \in {"rows", "cleanUp"}
  BY <1>1 DEF WriteRow, Continue, ExportInv, Fields, NoExport
<1>3. s \in Range(Order) /\ GnssAccepted(dataset) /\ n \in Nat /\ i \in 1 .. n
  <2>1. s \in Range(Order)
    BY <1>1, OrderIs
  <2>2. n \in Nat
    BY <1>1, <2>1, RowsCount
  <2>3. GnssAccepted(dataset)
    BY <1>1, WhileFilling
  <2> HIDE DEF n
  <2> QED
    BY <1>1, <2>1, <2>2, <2>3
<1>4. IsSeq(more) /\ \A m \in Range(more) : MessageOk(m, TopicsOf(s))
  BY <1>1, <1>3, RowMessages
<1>5. IsSeqs(all) /\ Len(all) = n /\ all[i] = more
  BY <1>1, <1>3, MessagesTyped
<1>6. ~ export.frame.active /\ Found(held, s) = FlattenSeq(SubSeq(all, 1, i - 1))
  BY <1>1, WhileFilling, Zenon DEF Progress, StreamSoFar
<1> HIDE DEF more, held, all, n
<1>7. FlattenSeq(SubSeq(all, 1, i + 1 - 1)) = Found(held, s) \o more
  <2>1. i + 1 - 1 = i
    BY <1>3
  <2>2. i \in 1 .. Len(all)
    BY <1>3, <1>5
  <2>3. FlattenSeq(SubSeq(all, 1, i)) = FlattenSeq(SubSeq(all, 1, i - 1)) \o all[i]
    BY <1>5, <2>2, FlatPrefix, Zenon
  <2> QED
    BY <1>5, <1>6, <2>1, <2>3
<1>8. StreamSoFar(Found(held, s) \o more, dataset, s, export'.row, export'.frame)
  BY <1>1, <1>2, <1>6, <1>7 DEF StreamSoFar, all
<1>9. export'.row <= n + 1
  BY <1>2, <1>3
<1> QED
  BY <1>1, <1>2, <1>4, <1>8, <1>9, RowFills DEF more, held, n

LEMMA WriteLidarRowFills ==
  ASSUME ReadersInv, ExportInv, BagInv, NEW i, WriteLidarRow(i)
  PROVE  BagInv'
<1> DEFINE rows == Rows(dataset, "lidar")
           n == Len(rows)
           a == Accumulated(export.frame, rows[i])
           more == Clouds(a.done)
           held == BagHeld(request.format, bag)
           found == Found(held, "lidar")
<1>1. /\ export.pc = "rows" /\ export.stream \in 1 .. 10 /\ "lidar" = Order[export.stream]
      /\ i = export.row /\ i \in Nat \ {0} /\ Exports(dataset, "lidar") /\ RowsOf(dataset, "lidar") = rows /\ i <= n
      /\ UNCHANGED <<dataset, request, disk>> /\ dataset \in Directories /\ bag' = PutAll(bag, more)
  BY OrderIs DEF WriteLidarRow, IsCurrentRow, ReadersInv, Reached
<1>2. Continue([export EXCEPT !.row = @ + 1, !.sequence = @ + Len(a.done), !.frame = a.frame,
                              !.previous = rows[i].at])
  BY DEF WriteLidarRow
<1>3. n \in Nat /\ i \in 1 .. n
  <2>1. n \in Nat
    BY <1>1, TimesAre
  <2> HIDE DEF n
  <2> QED
    BY <1>1, <2>1
<1>4. LidarSoFar(found, export.frame, dataset, i)
  BY <1>1, WhileFilling, Zenon DEF Progress, StreamSoFar
<1>5. AllClouds(more) /\ LidarSoFar(found \o more, a.frame, dataset, i + 1)
  BY <1>1, <1>3, <1>4, LidarRowKeeps
<1> HIDE DEF a
<1>6. /\ export'.stream = export.stream /\ export'.row = i + 1 /\ export'.frame = a.frame
      /\ export'.pc \in {"rows", "cleanUp"}
  BY <1>1, <1>2 DEF Continue, ExportInv, Fields, NoExport
<1> HIDE DEF more, held, found, n, rows
<1>7. IsSeq(more) /\ \A m \in Range(more) : MessageOk(m, TopicsOf("lidar"))
  <2>1. \A k \in 1 .. Len(more) : MessageOk(more[k], TopicsOf("lidar"))
    BY <1>5 DEF AllClouds, CloudOk
  <2> QED
    BY <1>5, <2>1, SeqFacts DEF AllClouds
<1>8. StreamSoFar(found \o more, dataset, "lidar", export'.row, export'.frame)
  BY <1>5, <1>6 DEF StreamSoFar
<1>9. export'.row <= n + 1
  BY <1>3, <1>6
<1> QED
  BY <1>1, <1>6, <1>7, <1>8, <1>9, RowFills DEF more, held, found, n, rows

LEMMA EndStreamFills ==
  ASSUME ReadersInv, ExportInv, BagInv, EndStream
  PROVE  BagInv'
<1> DEFINE s == Order[export.stream]
           held == BagHeld(request.format, bag)
           T == Topics(dataset)
           row == export.row
           frame == export.frame
           more == IF frame.active THEN <<Cloud(frame)>> ELSE <<>>
           n == Len(RowsOf(dataset, s))
<1>1. /\ export.pc = "rows" /\ export.stream \in 1 .. 10 /\ dataset \in Directories
      /\ UNCHANGED <<dataset, request, disk>> /\ export.row \in Nat /\ s \in Range(Order)
      /\ (Exports(dataset, s) => export.row > n)
  BY OrderIs DEF EndStream, ReadersInv, Reached
<1>2. CASE cancelled
  <2>1. Fail("cancelled") /\ UNCHANGED bag
    BY <1>2 DEF EndStream
  <2> QED
    BY <1>1, <2>1, BagFails
<1>3. CASE ~cancelled
  <2>1. /\ bag' = IF frame.active THEN Put(bag, Cloud(frame)) ELSE bag
        /\ export' = [NoExport EXCEPT !.pc = IF export.stream = Len(Order) THEN "finish" ELSE "rows",
                                      !.stream = export.stream + 1]
    BY <1>3 DEF EndStream
  <2>2. /\ export'.pc \in {"finish", "rows"} /\ export'.stream = export.stream + 1
        /\ export'.row = 1 /\ export'.frame = NoFrame
    BY <2>1 DEF NoExport
  <2>3. /\ disk.temporary # "new" /\ disk.output # "new" /\ GnssAccepted(dataset)
        /\ IsSeq(T) /\ Distinct(T) /\ BagOk(request.format, bag, T) /\ IsSeq(held)
        /\ Progress(held, dataset, export.stream, export.row, frame)
    BY <1>1, WhileFilling
  <2>4. n \in Nat
    BY <1>1, RowsCount
  <2> HIDE DEF n
  <2>5. ASSUME Exports(dataset, s) PROVE row = n + 1 /\ StreamSoFar(Found(held, s), dataset, s, row, frame)
    <3>1. row <= n + 1 /\ StreamSoFar(Found(held, s), dataset, s, row, frame)
      BY <1>1, <2>3, <2>5, Zenon DEF Progress, n
    <3>2. row > n
      BY <1>1, <2>5
    <3>3. row = n + 1
      BY <1>1, <2>4, <3>1, <3>2
    <3> QED
      BY <3>1, <3>3
  <2> DEFINE Adds == /\ IsSeq(more) /\ (~ Exports(dataset, s) => more = <<>>)
                     /\ Exports(dataset, s) => /\ \A m \in Range(more) : MessageOk(m, TopicsOf(s))
                                               /\ StreamDone(Found(held, s) \o more, dataset, s)
  <2> HIDE DEF row, frame, held, s
  <2>6. ASSUME Exports(dataset, s), s = "lidar" PROVE Adds
    <3>1. n = Len(Rows(dataset, "lidar"))
      BY <2>6, OrderIs DEF n
    <3>2. LidarSoFar(Found(held, s), frame, dataset, Len(Rows(dataset, "lidar")) + 1)
      <4>1. LidarSoFar(Found(held, s), frame, dataset, row)
        BY <2>5, <2>6 DEF StreamSoFar
      <4> QED
        BY <2>5, <2>6, <3>1, <4>1
    <3>3. /\ AllClouds(more) /\ AllClouds(Found(held, s) \o more)
          /\ PointsInOrder(dataset) => PointsOf(Found(held, s) \o more) = AllPoints(dataset)
      BY <1>1, <3>2, LidarEnd
    <3> HIDE DEF more
    <3>4. StreamDone(Found(held, s) \o more, dataset, s)
      BY <2>6, <3>3 DEF StreamDone
    <3>5. IsSeq(more) /\ \A m \in Range(more) : MessageOk(m, TopicsOf(s))
      <4>1. \A k \in 1 .. Len(more) : MessageOk(more[k], TopicsOf(s))
        BY <2>6, <3>3 DEF AllClouds, CloudOk
      <4> QED
        BY <3>3, <4>1, SeqFacts DEF AllClouds
    <3> QED
      BY <2>6, <3>4, <3>5 DEF Adds
  <2>7. ASSUME Exports(dataset, s), s # "lidar" PROVE Adds
    <3>1. ~ frame.active /\ Found(held, s) = FlattenSeq(SubSeq(AllMessages(dataset, s), 1, row - 1))
      <4>1. StreamSoFar(Found(held, s), dataset, s, row, frame)
        BY <2>5, <2>7
      <4> QED
        BY <2>7, <4>1, NotLidar
    <3>2. IsSeqs(AllMessages(dataset, s)) /\ Len(AllMessages(dataset, s)) = n
      BY <1>1, <2>3, <2>7, MessagesTyped DEF n
    <3>3. row - 1 = n
      BY <2>4, <2>5, <2>7
    <3>4. Found(held, s) = FlattenSeq(AllMessages(dataset, s))
      <4>1. SubSeq(AllMessages(dataset, s), 1, n) = AllMessages(dataset, s)
        BY <3>2, PrefixFacts DEF IsSeqs
      <4> QED
        BY <3>1, <3>3, <4>1, Zenon
    <3>5. more = <<>> /\ IsSeq(<<>>) /\ Range(<<>>) = {}
      BY <3>1, EmptyFacts
    <3>6. IsSeq(Found(held, s))
      BY <2>3, WhereIs DEF Found
    <3> HIDE DEF more
    <3>7. Found(held, s) \o more = Found(held, s)
      BY <3>5, <3>6, ConcatEmpty
    <3>8. StreamDone(Found(held, s) \o more, dataset, s)
      BY <2>7, <3>4, <3>7 DEF StreamDone
    <3> QED
      BY <2>7, <3>5, <3>8 DEF Adds
  <2>8. ASSUME ~ Exports(dataset, s) PROVE Adds
    <3>1. ~ frame.active
      <4>1. Progress(held, dataset, export.stream, export.row, frame) /\ ~ Exports(dataset, Order[export.stream])
        BY <2>3, <2>8 DEF s
      <4> QED
        BY <1>1, <4>1, Zenon DEF Progress
    <3>2. more = <<>> /\ IsSeq(<<>>)
      BY <3>1, EmptyFacts
    <3> HIDE DEF more
    <3> QED
      BY <2>8, <3>2 DEF Adds
  <2>9. Adds
    BY <2>6, <2>7, <2>8
  <2>10. Progress(held \o more, dataset, export.stream + 1, 1, NoFrame)
    <3>1. \A m, t : MessageOk(m, t) => m.topic \in Range(t)
      BY DEF MessageOk
    <3> HIDE DEF more
    <3> QED
      BY <1>1, <2>3, <2>9, <3>1, ProgressStream, Zenon DEF Adds, s
  <2>11. BagOk(request.format, bag', T) /\ BagHeld(request.format, bag') = held \o more
    <3>1. CASE frame.active
      <4>1. more = <<Cloud(frame)>> /\ bag' = Put(bag, Cloud(frame))
        BY <2>1, <3>1 DEF frame
      <4>2. Exports(dataset, s) /\ MessageOk(Cloud(frame), TopicsOf(s))
        <5>1. more # <<>> /\ Cloud(frame) \in Range(more)
          BY <4>1, OneIs
        <5> HIDE DEF more
        <5> QED
          BY <2>9, <5>1 DEF Adds
      <4>3. MessageOk(Cloud(frame), T)
        <5>1. Range(TopicsOf(s)) \subseteq Range(T)
          BY <1>1, <4>2, TopicsAre, Zenon DEF s
        <5> QED
          BY <4>2, <5>1 DEF MessageOk
      <4> HIDE DEF more, T
      <4>4. BagOk(request.format, bag', T) /\ BagHeld(request.format, bag') = Append(held, Cloud(frame))
        BY <2>3, <4>1, <4>3, PutKeeps DEF held
      <4> QED
        BY <2>3, <4>1, <4>4, AppendIs
    <3>2. CASE ~ frame.active
      <4>1. more = <<>> /\ bag' = bag
        BY <2>1, <3>2 DEF frame
      <4> HIDE DEF more, T
      <4> QED
        BY <2>3, <4>1, ConcatEmpty DEF held
    <3> QED
      BY <3>1, <3>2
  <2> HIDE DEF more
  <2> QED
    BY <1>1, <2>2, <2>3, <2>10, <2>11 DEF BagInv, Filling, Filled
<1> QED
  BY <1>2, <1>3

LEMMA FinishFills ==
  ASSUME ReadersInv, ExportInv, BagInv, FinishBag
  PROVE  BagInv'
<1> DEFINE held == BagHeld(request.format, bag)
           T == Topics(dataset)
<1>1. /\ export.pc = "finish" /\ UNCHANGED <<dataset, request>> /\ export.stream = 11 /\ dataset \in Directories
      /\ request.format \in {"ros1", "ros2"}
  BY OrderIs DEF FinishBag, ReadersInv, Reached, ExportInv, Fields, Requests
<1>2. CASE bag.count = 0
  <2>1. Fail("dataset") /\ UNCHANGED <<disk, bag>>
    BY <1>2 DEF FinishBag
  <2> QED
    BY <1>1, <2>1, BagFails
<1>3. CASE bag.count # 0
  <2>1. /\ bag' = Finished(bag)
        /\ \/ Fail("cancelled")
           \/ export' = [export EXCEPT !.pc = IF disk.output = "none" THEN "replace" ELSE "setAside"]
    BY <1>3 DEF FinishBag
  <2>2. export'.pc \in {"cleanUp", "replace", "setAside"}
    BY <2>1, Zenon DEF Fail, ExportInv, Fields, NoExport
  <2>3. /\ IsSeq(T) /\ Distinct(T) /\ T # <<>> /\ BagOk(request.format, bag, T) /\ IsSeq(held)
        /\ Progress(held, dataset, export.stream, export.row, export.frame) /\ GnssAccepted(dataset)
    BY <1>1, WhileFilling
  <2> HIDE DEF T
  <2>4. /\ Written(Finished(bag)) = held
        /\ request.format = "ros1" => Ros1Indexed(Finished(bag))
        /\ request.format # "ros1" => Ros2Described(Finished(bag))
    BY <1>1, <2>3, FinishedIs
  <2> HIDE DEF held
  <2>5. ASSUME NEW k \in 1 .. 10, Exports(dataset, Order[k]) PROVE HoldsStream(Finished(bag), dataset, Order[k])
    <3> DEFINE s == Order[k]
               found == Found(held, s)
    <3>1. StreamDone(found, dataset, s)
      <4>1. k < export.stream
        BY <1>1
      <4> QED
        BY <2>3, <2>5, <4>1, Zenon DEF Progress
    <3>2. found = Where(Written(Finished(bag)), "topic", Range(TopicsOf(s)))
      BY <2>4 DEF Found
    <3> HIDE DEF s, found
    <3>3. CASE s = "lidar"
      <4>1. AllClouds(found) /\ (PointsInOrder(dataset) => PointsOf(found) = AllPoints(dataset))
        BY <3>1, <3>3 DEF StreamDone
      <4>2. \A i \in DOMAIN found : Last(found[i].of) - found[i].at < Period
        BY <4>1, SeqFacts DEF AllClouds, CloudOk
      <4> QED
        BY <3>2, <3>3, <4>1, <4>2 DEF HoldsStream, s
    <3>4. CASE s # "lidar"
      BY <3>1, <3>2, <3>4 DEF StreamDone, HoldsStream, AllMessages, s
    <3> QED
      BY <3>3, <3>4
  <2>6. Complete'
    <3>1. \A i \in DOMAIN Order : Exports(dataset, Order[i]) => HoldsStream(bag', dataset, Order[i])
      BY <2>1, <2>5, OrderIs
    <3>2. IF request.format = "ros1" THEN Ros1Indexed(bag') ELSE Ros2Described(bag')
      BY <2>1, <2>4
    <3>3. \A i \in DOMAIN Order : HoldsStream(bag', dataset, Order[i]) => HoldsStream(bag, dataset, Order[i])'
      BY <1>1, Zenon DEF HoldsStream, Written
    <3> QED
      BY <1>1, <3>1, <3>2, <3>3 DEF Complete, Ros1Indexed, Ros2Described
  <2> QED
    BY <2>2, <2>6 DEF BagInv, Filling, Filled
<1> QED
  BY <1>2, <1>3

LEMMA SwapLeavesBag ==
  ASSUME ExportInv, BagInv, SetAside \/ Replace \/ ReplaceFails \/ DropBackup \/ CleanUp \/ DiskFails \/ Killed
  PROVE  BagInv'
<1>1. UNCHANGED <<dataset, request, bag>>
  BY DEF SetAside, Replace, ReplaceFails, DropBackup, CleanUp, DiskFails, Killed
<1>2. export'.pc \notin {"check", "rows", "finish"}
  <2>1. CASE ReplaceFails \/ DiskFails
    BY <2>1, FailTo DEF ReplaceFails, DiskFails, ExportInv, Fields
  <2>2. CASE SetAside \/ Replace \/ DropBackup \/ CleanUp \/ Killed
    <3>1. \E p \in {"replace", "done", "drop", "killed"} : export' = [export EXCEPT !.pc = p]
      BY <2>2 DEF SetAside, Replace, DropBackup, CleanUp, Killed
    <3> QED
      BY <3>1 DEF ExportInv, Fields, NoExport
  <2> QED
    BY <2>1, <2>2
<1>3. disk'.temporary = "new" \/ disk'.output = "new" => disk.temporary = "new" \/ disk.output = "new"
  <2>1. disk \in Disks /\ (export.pc = "replace" => disk.temporary = "new")
    BY DEF ExportInv, Fields, BetweenRenames
  <2> QED
    BY <2>1, Zenon DEF SetAside, Replace, ReplaceFails, DropBackup, CleanUp, DiskFails, Killed, Disks
<1> QED
  BY <1>1, <1>2, <1>3, BagStays

(* A bag that is put in place can be read back through its index or its    *)
(* metadata and holds every exported row of the dataset, in order and once, *)
(* whatever the dataset and wherever the export failed, was cancelled or   *)
(* was killed before.                                                      *)
THEOREM BagCorrect == ReadersSpec => []BagHoldsTheDataset
<1>1. ReadersInit => BagInv
  <2> SUFFICES ASSUME ReadersInit PROVE BagInv
    OBVIOUS
  <2>1. PICK r \in Requests : Called(r)
    BY DEF ReadersInit, ExportInit
  <2>2. disk = [output |-> r.found, temporary |-> "none", backup |-> "none"] /\ export = NoExport
    BY <2>1 DEF Called
  <2>3. disk.temporary # "new" /\ disk.output # "new" /\ export.pc = "check"
    BY <2>2 DEF NoExport, Requests
  <2> QED
    BY <2>3 DEF BagInv, Filling, Filled
<1>2. BagInv /\ ReadersInv /\ ExportInv /\ [ReadersNext]_readersVars => BagInv'
  <2> SUFFICES ASSUME BagInv, ReadersInv, ExportInv, [ReadersNext]_readersVars PROVE BagInv'
    OBVIOUS
  <2>1. CASE ValidateStage \/ CancelValidation \/ PressCancel \/ UNCHANGED readersVars
    <3>1. UNCHANGED <<dataset, request, bag, disk, export>>
      BY <2>1 DEF readersVars, exportVars, PressCancel, ValidateStage, CancelValidation
    <3> QED
      BY <3>1, BagSame
  <2>2. CASE Exporting
    <3>1. CASE \E s \in Range(Order), i \in {export.row} : RefuseRow(s, i)
      <4>1. Fail("dataset") /\ UNCHANGED <<dataset, request, disk, bag>>
        BY <3>1 DEF RefuseRow
      <4> QED
        BY <4>1, BagFails
    <3>2. CASE \E s \in Range(Order), i \in {export.row} : WriteRow(s, i)
      BY <3>2, WriteRowFills
    <3> QED
      BY <2>2, <3>1, <3>2, WriteLidarRowFills, CheckFills, EndStreamFills, FinishFills, SwapLeavesBag DEF Exporting
  <2>3. CASE DiskFails \/ Killed
    BY <2>3, SwapLeavesBag
  <2> QED
    BY <2>1, <2>2, <2>3 DEF ReadersNext, ExportNext
<1>3. BagInv => BagHoldsTheDataset
  BY DEF BagInv, Filled, Complete, BagHoldsTheDataset
<1> QED
  BY <1>1, <1>2, <1>3, ReadersCorrect, ExportCorrect, PTL DEF ReadersSpec
================================================================================
