--------------------------- MODULE ReorderProofs ---------------------------
(***************************************************************************)
(* Proofs about the reorder administration, for every max_samples, every   *)
(* set of gaps, both modes and both settings of late_ack_mode.             *)
(*                                                                         *)
(* The first half is about the operators Reorder is built from: what is    *)
(* left of a chain without its gap markers, how intervals and chains are   *)
(* linked, split and counted, and what delete_last_sample, the insertion   *)
(* of a sample and the coalescing of what a gap touches make of a tree.    *)
(* The recursive functions among them (Samples, Joined) are dealt with by  *)
(* induction on how far they are unfolded: Upward.                         *)
(*                                                                         *)
(* The second half sorts the outcomes of nn_reorder_rsample and            *)
(* nn_reorder_gap into three kinds, an arrival that is ignored, one that   *)
(* is stored (Keeps) and one that lets delivery go on (HandsOver), and     *)
(* derives from them the inductive invariant Inv, that nothing is passed   *)
(* over (Covered), and that Reorder implements SampleBuffer.               *)
(***************************************************************************)
EXTENDS Reorder, TLAPS, FiniteSetTheorems, SequenceTheorems, WellFoundedInduction

----------------------------------------------------------------------------
\* Numbers

\* A nonempty set of naturals has a lowest member (well-foundedness of <).
LEMMA LeastMember ==
    ASSUME NEW S \in SUBSET Nat, S # {}
    PROVE  \E m \in S : \A x \in S : m <= x
<1>1. PICK m \in S : \A y \in S : ~(<<y, m>> \in OpToRel(<, Nat))
  BY NatLessThanWellFounded, WFMin
<1>2. \A y \in S : ~(y < m)
  BY <1>1 DEF OpToRel
<1> QED BY <1>2

\* Induction up to n: what holds of 0 and passes from each number to the next.
LEMMA Upward ==
    ASSUME NEW n \in Nat, NEW S, 0 \in S, \A i \in 0..n - 1 : i \in S => i + 1 \in S
    PROVE  0..n \subseteq S
<1> DEFINE Rest == {i \in 0..n : i \notin S}
<1>1. CASE Rest # {}
  <2>1. Rest \in SUBSET Nat
    OBVIOUS
  <2>2. PICK m \in Rest : \A x \in Rest : m <= x
    <3> HIDE DEF Rest
    <3> QED BY <1>1, <2>1, LeastMember
  <2>3. m \in 1..n /\ m \notin S
    OBVIOUS
  <2>4. m - 1 \in 0..n - 1 /\ ~(m <= m - 1)
    BY <2>3
  <2>5. m - 1 \in S
    BY <2>2, <2>4
  <2> QED BY <2>3, <2>4, <2>5
<1> QED BY <1>1

----------------------------------------------------------------------------
\* The samples of a chain

\* the function that Samples defines recursively
UpTo(c, f) ==
    f = [i \in 0..Len(c) |->
           IF i = 0 THEN <<>>
           ELSE IF c[i] = GAP THEN f[i - 1] ELSE Append(f[i - 1], c[i])]

\* It exists.
LEMMA UpToExists == ASSUME NEW c, Len(c) \in Nat PROVE \E f : UpTo(c, f)
<1> DEFINE Step(f, i) == IF i = 0 THEN <<>>
                         ELSE IF c[i] = GAP THEN f[i - 1] ELSE Append(f[i - 1], c[i])
           Defined == {n \in 0..Len(c) : \E f : f = [i \in 0..n |-> Step(f, i)]}
<1>1. 0 \in Defined
  <2> DEFINE f0 == [j \in 0..0 |-> <<>>]
  <2>1. f0 = [i \in 0..0 |-> Step(f0, i)]
    OBVIOUS
  <2>2. (\E f : f = [i \in 0..0 |-> Step(f, i)]) /\ 0 \in 0..Len(c)
    <3> HIDE DEF f0, Step
    <3> QED BY <2>1
  <2> QED BY <2>2
<1>2. ASSUME NEW n \in 0..Len(c) - 1, n \in Defined PROVE n + 1 \in Defined
  <2>1. PICK f : f = [i \in 0..n |-> Step(f, i)]
    BY <1>2
  <2> DEFINE g == [i \in 0..n + 1 |-> Step(f, i)]
  <2>2. \A i \in 0..n : g[i] = f[i]
    <3>1. \A i \in 0..n : f[i] = Step(f, i)
      BY <2>1
    <3> QED BY <3>1
  <2>3. \A i \in 0..n + 1 : i # 0 => i - 1 \in 0..n
    OBVIOUS
  <2>4. ASSUME NEW i \in 0..n + 1 PROVE Step(g, i) = Step(f, i)
    <3> HIDE DEF g
    <3> QED BY <2>2, <2>3
  <2>5. g = [i \in 0..n + 1 |-> Step(g, i)]
    <3> HIDE DEF Step
    <3> QED BY <2>4
  <2>6. n + 1 \in 0..Len(c)
    OBVIOUS
  <2> QED BY <2>5, <2>6
<1>3. 0..Len(c) \subseteq Defined
  <2> HIDE DEF Defined
  <2> QED BY <1>1, <1>2, Upward
<1>4. \E f : f = [i \in 0..Len(c) |-> Step(f, i)]
  BY <1>3
<1> QED BY <1>4 DEF UpTo

\* Samples is its last value.
LEMMA SamplesIsUpTo ==
    ASSUME NEW c, Len(c) \in Nat
    PROVE  \E f : UpTo(c, f) /\ Samples(c) = f[Len(c)]
<1>1. Samples(c) = (CHOOSE f : UpTo(c, f))[Len(c)]
  BY DEF Samples, UpTo
<1> QED BY <1>1, UpToExists

\* the samples of a chain ascend; so do the elements of a sequence
Ascends(c) ==
    \A i, j \in 1..Len(c) : i < j /\ c[i] # GAP /\ c[j] # GAP => c[i] < c[j]
Ordered(q) == \A i, j \in DOMAIN q : i < j => q[i] < q[j]

\* Samples leaves out the gap markers and nothing else, and keeps the order.
LEMMA SamplesOfChain ==
    ASSUME NEW c \in Seq(Seqs \cup {GAP}), Ascends(c)
    PROVE  /\ Samples(c) \in Seq(Seqs) /\ Ordered(Samples(c))
           /\ ToSet(Samples(c)) = ToSet(c) \ {GAP}
<1>1. Len(c) \in Nat /\ DOMAIN c = 1..Len(c) /\ \A i \in 1..Len(c) : c[i] \in Seqs \cup {GAP}
  OBVIOUS
<1>2. PICK f : UpTo(c, f) /\ Samples(c) = f[Len(c)]
  BY <1>1, SamplesIsUpTo
<1> DEFINE Right(i) == /\ f[i] \in Seq(Seqs) /\ Ordered(f[i])
                       /\ ToSet(f[i]) = {c[j] : j \in 1..i} \ {GAP}
           Good == {i \in 0..Len(c) : Right(i)}
<1>3. f[0] = <<>> /\ \A i \in 1..Len(c) :
         f[i] = IF c[i] = GAP THEN f[i - 1] ELSE Append(f[i - 1], c[i])
  <2>1. f = [i \in 0..Len(c) |->
              IF i = 0 THEN <<>>
              ELSE IF c[i] = GAP THEN f[i - 1] ELSE Append(f[i - 1], c[i])]
    BY <1>2 DEF UpTo
  <2>2. ASSUME NEW i \in 0..Len(c)
        PROVE  f[i] = IF i = 0 THEN <<>>
                      ELSE IF c[i] = GAP THEN f[i - 1] ELSE Append(f[i - 1], c[i])
    BY <2>1
  <2>3. 0 \in 0..Len(c) /\ \A i \in 1..Len(c) : i \in 0..Len(c) /\ i # 0
    BY <1>1
  <2> QED BY <2>2, <2>3
<1>4. 0 \in Good
  <2>1. f[0] \in Seq(Seqs) /\ Ordered(f[0])
    BY <1>3 DEF Ordered
  <2>2. ToSet(f[0]) = {} /\ 1..0 = {}
    BY <1>3 DEF ToSet
  <2> QED BY <1>1, <2>1, <2>2
<1>5. ASSUME NEW i \in 0..Len(c) - 1, i \in Good PROVE i + 1 \in Good
  <2>1. i + 1 \in 1..Len(c) /\ i \in 0..Len(c) /\ i + 1 \in 0..Len(c)
    BY <1>1
  <2>2. f[i + 1] = IF c[i + 1] = GAP THEN f[i] ELSE Append(f[i], c[i + 1])
    BY <1>3, <2>1
  <2>3. f[i] \in Seq(Seqs) /\ Ordered(f[i]) /\ ToSet(f[i]) = {c[j] : j \in 1..i} \ {GAP}
    BY <1>5
  <2>4. {c[j] : j \in 1..i + 1} = {c[j] : j \in 1..i} \cup {c[i + 1]}
    BY <2>1
  <2>5. CASE c[i + 1] = GAP
    <3>1. Right(i + 1)
      BY <2>2, <2>3, <2>4, <2>5
    <3> QED BY <2>1, <3>1
  <2>6. CASE c[i + 1] # GAP
    <3> DEFINE q == f[i]
               x == c[i + 1]
    <3>1. q \in Seq(Seqs) /\ x \in Seqs /\ f[i + 1] = Append(q, x) /\ Len(q) \in Nat
      BY <1>1, <2>1, <2>2, <2>3, <2>6
    <3>2. \A k \in 1..Len(q) : q[k] < x
      <4> SUFFICES ASSUME NEW k \in 1..Len(q) PROVE q[k] < x
        OBVIOUS
      <4>1. q[k] \in {c[j] : j \in 1..i} \ {GAP}
        <5>1. q[k] \in ToSet(q)
          BY <3>1 DEF ToSet
        <5> QED BY <2>3, <5>1
      <4>2. PICK j \in 1..i : q[k] = c[j] /\ c[j] # GAP
        BY <4>1
      <4>3. j \in 1..Len(c) /\ j < i + 1
        BY <1>1
      <4> QED BY <2>1, <2>6, <4>2, <4>3 DEF Ascends
    <3> HIDE DEF q, x
    <3>3. Append(q, x) \in Seq(Seqs) /\ Len(Append(q, x)) = Len(q) + 1
          /\ Append(q, x)[Len(q) + 1] = x /\ \A k \in 1..Len(q) : Append(q, x)[k] = q[k]
      BY <3>1
    <3>4. Ordered(Append(q, x))
      BY <2>3, <3>1, <3>2, <3>3 DEF Ordered, q
    <3>5. ToSet(Append(q, x)) = ToSet(q) \cup {x}
      <4> DEFINE r == Append(q, x)
      <4>1. ToSet(q) = {q[k] : k \in 1..Len(q)} /\ ToSet(r) = {r[k] : k \in 1..Len(q) + 1}
        BY <3>1, <3>3 DEF ToSet
      <4>2. 1..Len(q) + 1 = (1..Len(q)) \cup {Len(q) + 1}
        BY <3>1
      <4> HIDE DEF r
      <4>3. ToSet(r) = {r[k] : k \in 1..Len(q)} \cup {r[Len(q) + 1]}
        BY <4>1, <4>2
      <4>4. r[Len(q) + 1] = x /\ \A k \in 1..Len(q) : r[k] = q[k]
        BY <3>3 DEF r
      <4>5. {r[k] : k \in 1..Len(q)} = {q[k] : k \in 1..Len(q)}
        BY <4>4
      <4>6. ToSet(r) = ToSet(q) \cup {x}
        BY <4>1, <4>3, <4>4, <4>5
      <4> QED BY <4>6 DEF r
    <3>6. Right(i + 1)
      BY <2>3, <2>4, <2>6, <3>1, <3>3, <3>4, <3>5 DEF q, x
    <3> QED BY <2>1, <3>6
  <2> QED BY <2>5, <2>6
<1>6. 0..Len(c) \subseteq Good
  <2> HIDE DEF Good
  <2> QED BY <1>1, <1>4, <1>5, Upward
<1>7. Right(Len(c))
  <2>1. Len(c) \in Good
    <3> HIDE DEF Good
    <3> QED BY <1>1, <1>6
  <2> HIDE DEF Right
  <2> QED BY <2>1
<1>8. {c[j] : j \in 1..Len(c)} = ToSet(c)
  BY <1>1 DEF ToSet
<1> QED BY <1>2, <1>7, <1>8

----------------------------------------------------------------------------
\* Sequences that ascend

\* The first k elements of such a sequence are k numbers.
LEMMA OrderedPrefix ==
    ASSUME NEW q \in Seq(Nat), Ordered(q), NEW k \in 0..Len(q)
    PROVE  /\ IsFiniteSet({q[j] : j \in 1..k})
           /\ Cardinality({q[j] : j \in 1..k}) = k
<1> DEFINE f == [j \in 1..k |-> q[j]]
           T == {q[j] : j \in 1..k}
<1>1. k \in Nat /\ \A j \in 1..k : j \in 1..Len(q) /\ j \in DOMAIN q /\ q[j] \in Nat
  OBVIOUS
<1>2. f \in Bijection(1..k, T)
  <2>1. f \in [1..k -> T] /\ \A t \in T : \E j \in 1..k : f[j] = t
    OBVIOUS
  <2>2. ASSUME NEW a \in 1..k, NEW b \in 1..k, f[a] = f[b] PROVE a = b
    <3>1. q[a] = q[b] /\ q[a] \in Nat /\ a \in DOMAIN q /\ b \in DOMAIN q
      BY <1>1, <2>2
    <3>2. ~(a < b) /\ ~(b < a)
      BY <1>1, <3>1 DEF Ordered
    <3> QED BY <3>2
  <2> HIDE DEF f, T
  <2> QED BY <2>1, <2>2 DEF Bijection, Injection, Surjection, IsInjective
<1>3. ExistsBijection(1..k, T)
  BY <1>2 DEF ExistsBijection
<1> HIDE DEF T
<1>4. Cardinality(T) = k /\ IsFiniteSet(T)
  BY <1>1, <1>3, FS_CountingElements, FS_NatBijection
<1> QED BY <1>4 DEF T

\* It is what Sorted makes of its elements.
LEMMA SortedElements ==
    ASSUME NEW q \in Seq(Nat), Ordered(q)
    PROVE  Buffer!Sorted(ToSet(q)) = q
<1> DEFINE S == ToSet(q)
           Below(s) == {t \in S : t < s}
<1>1. Len(q) \in Nat /\ DOMAIN q = 1..Len(q) /\ \A i \in 1..Len(q) : q[i] \in Nat
  OBVIOUS
<1>2. S = {q[j] : j \in 1..Len(q)}
  BY <1>1 DEF ToSet
<1>3. Cardinality(S) = Len(q)
  <2>1. Len(q) \in 0..Len(q)
    BY <1>1
  <2> HIDE DEF S
  <2> QED BY <1>2, <2>1, OrderedPrefix
<1>4. ASSUME NEW i \in 1..Len(q) PROVE Cardinality(Below(q[i])) = i - 1
  <2>1. Below(q[i]) = {q[j] : j \in 1..i - 1}
    <3>1. ASSUME NEW j \in 1..Len(q) PROVE q[j] < q[i] <=> j < i
      <4>1. j \in DOMAIN q /\ i \in DOMAIN q /\ q[i] \in Nat /\ q[j] \in Nat
        BY <1>1
      <4>2. (j < i => q[j] < q[i]) /\ (i < j => q[i] < q[j]) /\ (i = j => q[i] = q[j])
        BY <4>1 DEF Ordered
      <4> QED BY <4>1, <4>2
    <3>2. \A j \in 1..i - 1 : j \in 1..Len(q) /\ j < i
      BY <1>1
    <3>3. \A j \in 1..Len(q) : j < i => j \in 1..i - 1
      BY <1>1
    <3> HIDE DEF S
    <3> QED BY <1>2, <3>1, <3>2, <3>3
  <2>2. i - 1 \in 0..Len(q)
    BY <1>1
  <2> QED BY <2>1, <2>2, OrderedPrefix
<1>5. \A X : Buffer!Cardinality(X) = Cardinality(X)
  BY DEF Cardinality, Buffer!Cardinality
<1>6. ASSUME NEW i \in 1..Len(q)
      PROVE  (CHOOSE s \in S : Buffer!Cardinality(Below(s)) = i - 1) = q[i]
  <2>1. q[i] \in S /\ Buffer!Cardinality(Below(q[i])) = i - 1
    BY <1>2, <1>4, <1>5
  <2>2. ASSUME NEW s \in S, Buffer!Cardinality(Below(s)) = i - 1 PROVE s = q[i]
    <3>1. PICK k \in 1..Len(q) : s = q[k]
      BY <1>2
    <3>2. k - 1 = i - 1
      <4> HIDE DEF S, Below
      <4> QED BY <1>4, <1>5, <2>2, <3>1
    <3> QED BY <1>1, <3>1, <3>2
  <2> HIDE DEF S, Below
  <2> QED BY <2>1, <2>2
<1>7. Buffer!Sorted(S)
        = [i \in 1..Len(q) |-> CHOOSE s \in S : Buffer!Cardinality(Below(s)) = i - 1]
  BY <1>3, <1>5 DEF Buffer!Sorted
<1>8. Buffer!Sorted(S) = [i \in 1..Len(q) |-> q[i]]
  <2> HIDE DEF S, Below
  <2> QED BY <1>6, <1>7
<1> QED BY <1>1, <1>8

----------------------------------------------------------------------------
\* Chains

\* c is the chain of an interval [l, h): it has no more elements than the interval has
\* numbers, its samples ascend and leave room for the elements before and behind them
Placed(c, l, h) ==
    /\ c \in Seq(Seqs \cup {GAP}) /\ Len(c) > 0 /\ l + Len(c) <= h
    /\ \A i \in 1..Len(c) : c[i] # GAP => l + i - 1 <= c[i] /\ c[i] + Len(c) - i < h
    /\ Ascends(c)

\* c is exactly the samples of [l, h)
Whole(c, l, h) == Len(c) = h - l /\ GAP \notin ToSet(c)

\* A sample is the chain of an interval of its own, and a gap marker that of any interval.
LEMMA PlacedOne ==
    /\ \A s \in Seqs : Placed(<<s>>, s, s + 1) /\ Whole(<<s>>, s, s + 1)
    /\ \A a, b \in Int : a < b => Placed(<<GAP>>, a, b)
    /\ \A e : Len(<<e>>) = 1 /\ ToSet(<<e>>) = {e}
<1>1. \A e : Len(<<e>>) = 1 /\ DOMAIN <<e>> = 1..1 /\ <<e>>[1] = e
  OBVIOUS
<1>2. \A e : ToSet(<<e>>) = {e}
  BY <1>1 DEF ToSet
<1>3. ASSUME NEW s \in Seqs PROVE Placed(<<s>>, s, s + 1) /\ Whole(<<s>>, s, s + 1)
  <2>1. s \in Int /\ s # GAP /\ <<s>> \in Seq(Seqs \cup {GAP})
    BY ReorderAssumption DEF Seqs, GAP
  <2>2. Ascends(<<s>>)
    BY <1>1 DEF Ascends
  <2>3. Whole(<<s>>, s, s + 1)
    BY <1>1, <1>2, <2>1 DEF Whole
  <2> QED BY <1>1, <2>1, <2>2, <2>3 DEF Placed
<1>4. ASSUME NEW a \in Int, NEW b \in Int, a < b PROVE Placed(<<GAP>>, a, b)
  <2>1. Ascends(<<GAP>>) /\ <<GAP>> \in Seq(Seqs \cup {GAP})
    BY <1>1 DEF Ascends
  <2> QED BY <1>1, <1>4, <2>1 DEF Placed
<1> QED BY <1>1, <1>2, <1>3, <1>4

\* The samples of a chain are numbers of its interval.
LEMMA PlacedMembers ==
    ASSUME NEW c, NEW l \in Int, NEW h \in Int, Placed(c, l, h)
    PROVE  /\ ToSet(c) \subseteq Seqs \cup {GAP}
           /\ \A x \in ToSet(c) : x # GAP => x \in Seqs /\ l <= x /\ x < h
<1>1. Len(c) \in Nat /\ DOMAIN c = 1..Len(c) /\ \A i \in 1..Len(c) : c[i] \in Seqs \cup {GAP}
  BY DEF Placed
<1>2. ASSUME NEW x \in ToSet(c)
      PROVE  x \in Seqs \cup {GAP} /\ (x # GAP => x \in Seqs /\ l <= x /\ x < h)
  <2>1. PICK i \in 1..Len(c) : x = c[i]
    BY <1>1 DEF ToSet
  <2>2. CASE x # GAP
    <3>1. x \in Seqs /\ x \in Int /\ i \in Int
      BY <1>1, <2>1, <2>2, ReorderAssumption DEF Seqs
    <3>2. l + i - 1 <= x /\ x + Len(c) - i < h
      BY <2>1, <2>2 DEF Placed
    <3> QED BY <1>1, <3>1, <3>2
  <2> QED BY <1>1, <2>1, <2>2
<1> QED BY <1>2

\* A whole chain has all of them.
LEMMA WholeMembers ==
    ASSUME NEW c, NEW l \in Int, NEW h \in Int, Placed(c, l, h), Whole(c, l, h)
    PROVE  ToSet(c) = l..h - 1
<1>1. Len(c) \in Nat /\ DOMAIN c = 1..Len(c) /\ \A i \in 1..Len(c) : c[i] \in Seqs \cup {GAP}
  BY DEF Placed
<1>2. ASSUME NEW i \in 1..Len(c) PROVE c[i] = l + i - 1
  <2>1. c[i] # GAP
    BY <1>1 DEF Whole, ToSet
  <2>2. c[i] \in Int
    BY <1>1, <2>1, ReorderAssumption DEF Seqs
  <2>3. l + i - 1 <= c[i] /\ c[i] + Len(c) - i < h /\ Len(c) = h - l
    BY <2>1 DEF Placed, Whole
  <2> QED BY <1>1, <2>2, <2>3
<1>3. ASSUME NEW x \in l..h - 1 PROVE x \in ToSet(c)
  <2>1. x - l + 1 \in 1..Len(c)
    BY DEF Whole
  <2>2. c[x - l + 1] = x
    BY <1>2, <2>1
  <2> QED BY <1>1, <2>1, <2>2 DEF ToSet
<1>4. ASSUME NEW x \in ToSet(c) PROVE x \in l..h - 1
  <2>1. PICK i \in 1..Len(c) : x = c[i]
    BY <1>1 DEF ToSet
  <2> QED BY <1>1, <1>2, <2>1 DEF Whole
<1> QED BY <1>3, <1>4

\* A chain remains one of a wider interval.
LEMMA PlacedWider ==
    ASSUME NEW c, NEW l \in Int, NEW h \in Int, Placed(c, l, h),
           NEW k \in Int, k <= l, NEW n \in Int, h <= n
    PROVE  Placed(c, k, n)
<1>1. Len(c) \in Nat /\ \A i \in 1..Len(c) : c[i] \in Int
  BY ReorderAssumption DEF Placed, Seqs, GAP
<1>2. k + Len(c) <= n
  BY <1>1 DEF Placed
<1>3. ASSUME NEW i \in 1..Len(c), c[i] # GAP
      PROVE  k + i - 1 <= c[i] /\ c[i] + Len(c) - i < n
  <2>1. l + i - 1 <= c[i] /\ c[i] + Len(c) - i < h
    BY <1>3 DEF Placed
  <2> QED BY <1>1, <2>1
<1> QED BY <1>2, <1>3 DEF Placed

\* Chains are linked where their intervals follow each other.
LEMMA PlacedLinked ==
    ASSUME NEW c, NEW l \in Int, NEW h \in Int, Placed(c, l, h),
           NEW d, NEW m \in Int, NEW n \in Int, Placed(d, m, n), h <= m
    PROVE  /\ Placed(c \o d, l, n)
           /\ Len(c \o d) = Len(c) + Len(d) /\ ToSet(c \o d) = ToSet(c) \cup ToSet(d)
           /\ Whole(c, l, h) /\ Whole(d, m, n) /\ h = m => Whole(c \o d, l, n)
<1>1. /\ c \in Seq(Seqs \cup {GAP}) /\ d \in Seq(Seqs \cup {GAP})
      /\ Len(c) \in Nat /\ Len(d) \in Nat
      /\ DOMAIN c = 1..Len(c) /\ DOMAIN d = 1..Len(d)
      /\ Len(c) > 0 /\ Len(d) > 0 /\ l + Len(c) <= h /\ m + Len(d) <= n
  BY DEF Placed
<1> DEFINE e == c \o d
<1>2. /\ e \in Seq(Seqs \cup {GAP}) /\ Len(e) = Len(c) + Len(d) /\ DOMAIN e = 1..Len(c) + Len(d)
      /\ \A i \in 1..Len(c) : e[i] = c[i]
      /\ \A i \in 1..Len(d) : e[Len(c) + i] = d[i]
  BY <1>1
<1> HIDE DEF e
<1>3. \A i \in 1..Len(e) : i \in 1..Len(c) \/ \E j \in 1..Len(d) : i = Len(c) + j
  <2> SUFFICES ASSUME NEW i \in 1..Len(e), i \notin 1..Len(c)
               PROVE  \E j \in 1..Len(d) : i = Len(c) + j
    OBVIOUS
  <2>1. i - Len(c) \in 1..Len(d) /\ i = Len(c) + (i - Len(c))
    BY <1>1, <1>2
  <2> QED BY <2>1
<1>4. ToSet(e) = ToSet(c) \cup ToSet(d)
  <2>1. \A i \in 1..Len(d) : Len(c) + i \in 1..Len(e)
    BY <1>1, <1>2
  <2>2. \A i \in 1..Len(c) : i \in 1..Len(e)
    BY <1>1, <1>2
  <2>3. ToSet(e) = {e[i] : i \in 1..Len(e)} /\ ToSet(c) = {c[i] : i \in 1..Len(c)}
        /\ ToSet(d) = {d[i] : i \in 1..Len(d)}
    BY <1>1, <1>2 DEF ToSet
  <2>4. ASSUME NEW x \in ToSet(e) PROVE x \in ToSet(c) \cup ToSet(d)
    <3>1. PICK i \in 1..Len(e) : x = e[i]
      BY <2>3
    <3> QED BY <1>2, <1>3, <2>3, <3>1
  <2>5. \A i \in 1..Len(c) : c[i] \in ToSet(e)
    BY <1>2, <2>2, <2>3
  <2>6. \A i \in 1..Len(d) : d[i] \in ToSet(e)
    BY <1>2, <2>1, <2>3
  <2> QED BY <2>3, <2>4, <2>5, <2>6
<1>5. \A i \in 1..Len(c) : c[i] \in Int
  BY <1>1, ReorderAssumption DEF Seqs, GAP
<1>6. \A i \in 1..Len(d) : d[i] \in Int
  BY <1>1, ReorderAssumption DEF Seqs, GAP
<1>7. ASSUME NEW i \in 1..Len(e), e[i] # GAP
      PROVE  l + i - 1 <= e[i] /\ e[i] + Len(e) - i < n
  <2>1. CASE i \in 1..Len(c)
    <3>1. l + i - 1 <= c[i] /\ c[i] + Len(c) - i < h /\ c[i] \in Int
      BY <1>2, <1>5, <1>7, <2>1 DEF Placed
    <3>2. e[i] = c[i] /\ Len(e) = Len(c) + Len(d) /\ i \in Int
      BY <1>1, <1>2, <2>1
    <3>3. Len(c) \in Nat /\ Len(d) \in Nat /\ h + Len(d) <= n /\ h \in Int /\ n \in Int /\ l \in Int
      BY <1>1
    <3> DEFINE x == c[i]
               p == Len(c)
               q == Len(d)
    <3>4. x \in Int /\ p \in Int /\ q \in Int /\ x + p - i < h /\ h + q <= n
      BY <3>1, <3>3
    <3>5. x + (p + q) - i < n
      <4> HIDE DEF x, p, q
      <4> QED BY <3>2, <3>3, <3>4
    <3> QED BY <3>1, <3>2, <3>5
  <2>2. ASSUME NEW j \in 1..Len(d), i = Len(c) + j PROVE l + i - 1 <= e[i] /\ e[i] + Len(e) - i < n
    <3>1. e[i] = d[j] /\ d[j] # GAP /\ d[j] \in Int
      BY <1>2, <1>6, <1>7, <2>2
    <3>2. m + j - 1 <= d[j] /\ d[j] + Len(d) - j < n
      BY <3>1 DEF Placed
    <3>3. Len(c) \in Nat /\ Len(d) \in Nat /\ l + Len(c) <= h /\ j \in Int
      BY <1>1
    <3>4. l + (Len(c) + j) - 1 <= d[j]
      BY <3>1, <3>2, <3>3
    <3>5. d[j] + (Len(c) + Len(d)) - (Len(c) + j) < n
      BY <3>1, <3>2, <3>3
    <3> QED BY <1>2, <2>2, <3>1, <3>4, <3>5
  <2> QED BY <1>3, <2>1, <2>2
<1>8. Ascends(e)
  <2> SUFFICES ASSUME NEW i \in 1..Len(e), NEW j \in 1..Len(e), i < j, e[i] # GAP, e[j] # GAP
               PROVE  e[i] < e[j]
    BY DEF Ascends
  <2>1. CASE j \in 1..Len(c)
    <3>1. i \in 1..Len(c)
      BY <1>1, <2>1
    <3> QED BY <1>2, <2>1, <3>1 DEF Placed, Ascends
  <2>2. ASSUME NEW k \in 1..Len(d), j = Len(c) + k, i \in 1..Len(c) PROVE e[i] < e[j]
    <3>1. e[i] = c[i] /\ e[j] = d[k] /\ c[i] \in Int /\ d[k] \in Int
      BY <1>2, <1>5, <1>6, <2>2
    <3>2. c[i] + Len(c) - i < h /\ m + k - 1 <= d[k]
      BY <2>2, <3>1 DEF Placed
    <3>3. i \in Int /\ k \in Int /\ 1 <= k /\ i <= Len(c) /\ Len(c) \in Nat
      BY <1>1, <2>2
    <3> DEFINE x == c[i]
               y == d[k]
               p == Len(c)
    <3>4. x \in Int /\ y \in Int /\ p \in Int /\ x + p - i < h /\ m + k - 1 <= y /\ i <= p
      BY <3>1, <3>2, <3>3
    <3>5. x < y
      <4> HIDE DEF x, y, p
      <4> QED BY <3>3, <3>4
    <3> QED BY <3>1, <3>5
  <2>3. ASSUME NEW k \in 1..Len(d), j = Len(c) + k, NEW x \in 1..Len(d), i = Len(c) + x
        PROVE  e[i] < e[j]
    <3>1. e[i] = d[x] /\ e[j] = d[k] /\ x < k
      BY <1>1, <1>2, <2>3
    <3> QED BY <3>1 DEF Placed, Ascends
  <2> QED BY <1>3, <2>1, <2>2, <2>3
<1>9. Placed(e, l, n)
  <2>1. Len(e) > 0 /\ l + Len(e) <= n
    BY <1>1, <1>2
  <2> QED BY <1>2, <1>7, <1>8, <2>1 DEF Placed
<1>10. Whole(c, l, h) /\ Whole(d, m, n) /\ h = m => Whole(e, l, n)
  BY <1>1, <1>2, <1>4 DEF Whole
<1> QED BY <1>2, <1>4, <1>9, <1>10 DEF e

\* The last element goes: a chain of an interval that is one shorter.
LEMMA PlacedFront ==
    ASSUME NEW c, NEW l \in Int, NEW h \in Int, Placed(c, l, h), Len(c) # 1
    PROVE  /\ Placed(Front(c), l, h - 1) /\ Len(Front(c)) = Len(c) - 1
           /\ ToSet(c) = ToSet(Front(c)) \cup {c[Len(c)]}
           /\ c[Len(c)] # GAP => \A x \in ToSet(Front(c)) : x # GAP => x < c[Len(c)]
           /\ Whole(c, l, h) => Whole(Front(c), l, h - 1)
<1>1. /\ c \in Seq(Seqs \cup {GAP}) /\ Len(c) \in Nat /\ Len(c) > 1
      /\ DOMAIN c = 1..Len(c) /\ l + Len(c) <= h
  <2>1. c \in Seq(Seqs \cup {GAP}) /\ Len(c) > 0 /\ l + Len(c) <= h
    BY DEF Placed
  <2>2. Len(c) \in Nat /\ DOMAIN c = 1..Len(c)
    BY <2>1
  <2> QED BY <2>1, <2>2
<1> DEFINE f == Front(c)
<1>2. /\ f \in Seq(Seqs \cup {GAP}) /\ Len(f) = Len(c) - 1
      /\ \A i \in 1..Len(c) - 1 : f[i] = c[i]
  <2>1. f = SubSeq(c, 1, Len(c) - 1)
    BY DEF Front
  <2>2. 1 \in 1..Len(c) /\ Len(c) - 1 \in 1..Len(c)
    BY <1>1
  <2> QED BY <1>1, <2>1, <2>2, SubSeqProperties
<1>3. DOMAIN f = 1..Len(c) - 1 /\ \A i \in 1..Len(c) - 1 : i \in 1..Len(c)
  BY <1>1, <1>2
<1> HIDE DEF f
<1>4. 1..Len(c) = (1..Len(c) - 1) \cup {Len(c)}
  BY <1>1
<1>5. ToSet(c) = ToSet(f) \cup {c[Len(c)]}
  <2>1. ToSet(c) = {c[i] : i \in 1..Len(c)} /\ ToSet(f) = {f[i] : i \in 1..Len(c) - 1}
    BY <1>1, <1>3 DEF ToSet
  <2>2. ToSet(f) = {c[i] : i \in 1..Len(c) - 1}
    BY <1>2, <2>1
  <2> QED BY <1>4, <2>1, <2>2
<1>6. \A i \in 1..Len(c) : c[i] \in Int
  BY <1>1, ReorderAssumption DEF Seqs, GAP
<1>7. Ascends(f)
  BY <1>2, <1>3 DEF Placed, Ascends
<1>8. ASSUME NEW i \in 1..Len(f), f[i] # GAP
      PROVE  l + i - 1 <= f[i] /\ f[i] + Len(f) - i < h - 1
  <2>1. i \in 1..Len(c) /\ f[i] = c[i]
    BY <1>2, <1>3, <1>8
  <2>2. l + i - 1 <= c[i] /\ c[i] + Len(c) - i < h
    BY <1>8, <2>1 DEF Placed
  <2> QED BY <1>1, <1>2, <1>6, <2>1, <2>2
<1>9. Placed(f, l, h - 1)
  BY <1>1, <1>2, <1>7, <1>8 DEF Placed
<1>10. ASSUME c[Len(c)] # GAP, NEW x \in ToSet(f), x # GAP PROVE x < c[Len(c)]
  <2>1. PICK i \in 1..Len(c) - 1 : x = c[i]
    BY <1>2, <1>3 DEF ToSet
  <2>2. i \in 1..Len(c) /\ Len(c) \in 1..Len(c) /\ i < Len(c)
    BY <1>1
  <2> QED BY <1>10, <2>1, <2>2 DEF Placed, Ascends
<1>11. Whole(c, l, h) => Whole(f, l, h - 1)
  BY <1>1, <1>2, <1>5 DEF Whole
<1> QED BY <1>2, <1>5, <1>9, <1>10, <1>11 DEF f

----------------------------------------------------------------------------
\* Trees of intervals

Interval(v) ==
    /\ v \in [min : Seqs, maxp1 : 2..MaxSeq + 1, chain : Seq(Seqs \cup {GAP})]
    /\ Placed(v.chain, v.min, v.maxp1)

Apart(t) == \A v, w \in t : v # w => v.maxp1 < w.min \/ w.maxp1 < v.min

Tree(t) == IsFiniteSet(t) /\ (\A v \in t : Interval(v)) /\ Apart(t)

ElementsOf(t) == UNION {{v.min} \X DOMAIN v.chain : v \in t}
Size(t) == Cardinality(ElementsOf(t))

\* What the definition of an interval says of its fields.
LEMMA IntervalFacts ==
    ASSUME NEW v, Interval(v)
    PROVE  /\ v.min \in Int /\ v.min >= 1 /\ v.maxp1 \in Int /\ v.min < v.maxp1
           /\ v.min <= MaxSeq /\ v.maxp1 <= MaxSeq + 1 /\ MaxSeq \in Nat /\ v.min # NoIv
           /\ v.chain \in Seq(Seqs \cup {GAP}) /\ Len(v.chain) \in Nat /\ Len(v.chain) >= 1
           /\ DOMAIN v.chain = 1..Len(v.chain) /\ v.min + Len(v.chain) <= v.maxp1
           /\ v = [min |-> v.min, maxp1 |-> v.maxp1, chain |-> v.chain]
<1>1. /\ v.min \in 1..MaxSeq /\ v.maxp1 \in 2..MaxSeq + 1 /\ MaxSeq \in Nat
      /\ v.chain \in Seq(Seqs \cup {GAP})
      /\ v = [min |-> v.min, maxp1 |-> v.maxp1, chain |-> v.chain]
  BY ReorderAssumption DEF Interval, Seqs
<1>2. Len(v.chain) > 0 /\ v.min + Len(v.chain) <= v.maxp1
  BY DEF Interval, Placed
<1>3. Len(v.chain) \in Nat /\ DOMAIN v.chain = 1..Len(v.chain)
  BY <1>1
<1> QED BY <1>1, <1>2, <1>3 DEF NoIv

\* What makes an interval.
LEMMA IntervalOf ==
    ASSUME NEW l \in Seqs, NEW h \in 2..MaxSeq + 1, NEW c, Placed(c, l, h)
    PROVE  Interval([min |-> l, maxp1 |-> h, chain |-> c])
BY DEF Interval, Placed

\* Of two intervals of a tree one lies before the other.
LEMMA TreeOrder ==
    ASSUME NEW t, Tree(t), NEW v \in t, NEW w \in t, v.min <= w.min
    PROVE  v = w \/ v.maxp1 < w.min
<1>1. Interval(v) /\ Interval(w)
  BY DEF Tree
<1>2. v.min \in Int /\ v.maxp1 \in Int /\ v.min < v.maxp1
  BY <1>1, IntervalFacts
<1>3. w.min \in Int /\ w.maxp1 \in Int /\ w.min < w.maxp1
  BY <1>1, IntervalFacts
<1>4. v # w => v.maxp1 < w.min \/ w.maxp1 < v.min
  BY DEF Tree, Apart
<1> QED BY <1>2, <1>3, <1>4

\* So an interval is known by where it begins.
LEMMA TreeNode ==
    ASSUME NEW t, Tree(t), NEW v \in t
    PROVE  /\ \A w \in t : w.min = v.min => w = v
           /\ (CHOOSE w \in t : w.min = v.min) = v
<1>1. ASSUME NEW w \in t, w.min = v.min PROVE w = v
  <2>1. Interval(v) /\ Interval(w)
    BY DEF Tree
  <2>2. v.min \in Int /\ v.maxp1 \in Int /\ v.min < v.maxp1
    BY <2>1, IntervalFacts
  <2> QED BY <1>1, <2>2, TreeOrder
<1> QED BY <1>1

\* A subset of a tree is one.
LEMMA SubTree == ASSUME NEW t, Tree(t), NEW u \in SUBSET t PROVE Tree(u)
<1>1. IsFiniteSet(u)
  BY FS_Subset DEF Tree
<1> QED BY <1>1 DEF Tree, Apart

\* It has a first interval ...
LEMMA FirstOfTree ==
    ASSUME NEW t, Tree(t), t # {}
    PROVE  \E v \in t : \A w \in t : v.min <= w.min /\ (w # v => v.maxp1 < w.min)
<1> DEFINE M == {v.min : v \in t}
<1>1. ASSUME NEW v \in t PROVE v.min \in Nat
  BY IntervalFacts DEF Tree
<1>2. M \in SUBSET Nat /\ M # {}
  BY <1>1
<1>3. PICK m \in M : \A x \in M : m <= x
  <2> HIDE DEF M
  <2> QED BY <1>2, LeastMember
<1>4. PICK v \in t : v.min = m
  OBVIOUS
<1>5. \A w \in t : v.min <= w.min
  BY <1>3, <1>4
<1> QED BY <1>5, TreeOrder

\* ... and a last one.
LEMMA LastOfTree ==
    ASSUME NEW t, Tree(t), t # {}
    PROVE  /\ LastIv(t) \in t
           /\ \A w \in t : w.min <= LastIv(t).min /\ (w # LastIv(t) => w.maxp1 < LastIv(t).min)
           /\ MaxOf(t) = LastIv(t).min
<1> DEFINE M == {MaxSeq - v.min : v \in t}
<1>1. ASSUME NEW v \in t PROVE MaxSeq - v.min \in Nat /\ v.min \in Int /\ MaxSeq \in Int
  <2>1. Interval(v)
    BY DEF Tree
  <2> QED BY <2>1, IntervalFacts
<1>2. M \in SUBSET Nat /\ M # {}
  BY <1>1
<1>3. PICK m \in M : \A x \in M : m <= x
  <2> HIDE DEF M
  <2> QED BY <1>2, LeastMember
<1>4. PICK v \in t : MaxSeq - v.min = m
  OBVIOUS
<1>5. ASSUME NEW w \in t PROVE w.min <= v.min
  <2>1. MaxSeq - v.min <= MaxSeq - w.min
    BY <1>3, <1>4
  <2> QED BY <1>1, <2>1
<1>6. LastIv(t) \in t /\ \A w \in t : w.min <= LastIv(t).min
  BY <1>5 DEF LastIv
<1> QED BY <1>6, TreeOrder DEF MaxOf

\* An interval is the last one if all others begin before it.
LEMMA LastIs ==
    ASSUME NEW t, Tree(t), NEW v \in t, \A w \in t : w.min <= v.min
    PROVE  LastIv(t) = v /\ MaxOf(t) = v.min
<1>1. LastIv(t) \in t /\ v.min <= LastIv(t).min /\ MaxOf(t) = LastIv(t).min
      /\ LastIv(t).min <= v.min
  BY LastOfTree
<1>2. Interval(v) /\ Interval(LastIv(t))
  BY <1>1 DEF Tree
<1>3. v.min \in Int /\ v.maxp1 \in Int /\ v.min < v.maxp1
  BY <1>2, IntervalFacts
<1>4. LastIv(t).min \in Int
  BY <1>2, IntervalFacts
<1>5. LastIv(t) = v
  BY <1>1, <1>3, <1>4, TreeOrder
<1> QED BY <1>1, <1>5

\* MaxOf names an interval unless there is none.
LEMMA MaxOfSome ==
    ASSUME NEW t, Tree(t)
    PROVE  MaxOf(t) = NoIv <=> t = {}
<1>1. CASE t # {}
  <2>1. LastIv(t) \in t /\ MaxOf(t) = LastIv(t).min
    BY <1>1, LastOfTree
  <2>2. LastIv(t).min # NoIv
    BY <2>1, IntervalFacts DEF Tree
  <2> QED BY <1>1, <2>1, <2>2
<1> QED BY <1>1 DEF MaxOf

----------------------------------------------------------------------------
\* The number of chain elements in a tree

\* It is finite.
LEMMA FiniteElements ==
    ASSUME NEW t, Tree(t)
    PROVE  IsFiniteSet(ElementsOf(t)) /\ Size(t) \in Nat
<1>1. IsFiniteSet(Seqs \X (1..MaxSeq))
  <2>1. IsFiniteSet(1..MaxSeq)
    BY ReorderAssumption, FS_Interval
  <2> QED BY <2>1, FS_Product DEF Seqs
<1>2. ElementsOf(t) \subseteq Seqs \X (1..MaxSeq)
  <2> SUFFICES ASSUME NEW v \in t, NEW i \in DOMAIN v.chain
               PROVE  <<v.min, i>> \in Seqs \X (1..MaxSeq)
    BY DEF ElementsOf
  <2>1. Interval(v)
    BY DEF Tree
  <2>2. i \in 1..MaxSeq /\ v.min \in Seqs
    BY <2>1, IntervalFacts DEF Seqs
  <2> QED BY <2>2
<1>3. IsFiniteSet(ElementsOf(t))
  BY <1>1, <1>2, FS_Subset
<1> QED BY <1>3, FS_CardinalityType DEF Size

\* There are none in an empty tree.
LEMMA SizeEmpty == Size({}) = 0
<1>1. ElementsOf({}) = {}
  BY DEF ElementsOf
<1> QED BY <1>1, FS_EmptySet DEF Size

\* An interval adds its chain.
LEMMA SizeAdd ==
    ASSUME NEW t, NEW v, Tree(t \cup {v}), v \notin t
    PROVE  Size(t \cup {v}) = Size(t) + Len(v.chain) /\ Size(t) \in Nat
<1> DEFINE own == {v.min} \X DOMAIN v.chain
<1>1. Tree(t) /\ Interval(v)
  <2>1. t \in SUBSET (t \cup {v})
    OBVIOUS
  <2>2. Tree(t)
    BY <2>1, SubTree
  <2> QED BY <2>2 DEF Tree
<1>2. IsFiniteSet(ElementsOf(t)) /\ Size(t) \in Nat
  BY <1>1, FiniteElements
<1>3. Len(v.chain) \in Nat /\ DOMAIN v.chain = 1..Len(v.chain)
  BY <1>1, IntervalFacts
<1>4. IsFiniteSet(own) /\ Cardinality(own) = Len(v.chain)
  <2>1. IsFiniteSet(1..Len(v.chain)) /\ Cardinality(1..Len(v.chain)) = Len(v.chain)
    BY <1>3, FS_Interval
  <2>2. IsFiniteSet({v.min}) /\ Cardinality({v.min}) = 1
    BY FS_Singleton
  <2> DEFINE n == Len(v.chain)
             one == {v.min}
             to == 1..n
  <2>3. IsFiniteSet(one \X to) /\ Cardinality(one \X to) = Cardinality(one) * Cardinality(to)
    <3> HIDE DEF one, to
    <3> QED BY <2>1, <2>2, FS_Product DEF one, to
  <2>4. own = one \X to
    BY <1>3
  <2>5. n \in Nat
    BY <1>3
  <2>6. Cardinality(one) = 1 /\ Cardinality(to) = n
    BY <2>1, <2>2
  <2>7. Cardinality(own) = n
    <3> HIDE DEF one, to, n, own
    <3>1. Cardinality(own) = 1 * n
      BY <2>3, <2>4, <2>6
    <3> QED BY <3>1, <2>5
  <2>8. IsFiniteSet(own)
    <3> HIDE DEF one, to, n, own
    <3> QED BY <2>3, <2>4
  <2> QED BY <2>7, <2>8
<1>5. ElementsOf(t \cup {v}) = ElementsOf(t) \cup own
  BY DEF ElementsOf
<1>6. ElementsOf(t) \cap own = {}
  <2> SUFFICES ASSUME NEW e \in ElementsOf(t), e \in own PROVE FALSE
    OBVIOUS
  <2>1. PICK w \in t : e \in {w.min} \X DOMAIN w.chain
    BY DEF ElementsOf
  <2>2. w.min = v.min
    BY <2>1
  <2>3. v \in t \cup {v} /\ w \in t \cup {v}
    OBVIOUS
  <2>4. \A x \in t \cup {v} : x.min = v.min => x = v
    BY <2>3, TreeNode
  <2>5. w = v
    BY <2>2, <2>3, <2>4
  <2> QED BY <2>5
<1>7. Cardinality(ElementsOf(t) \cup own)
        = Cardinality(ElementsOf(t)) + Cardinality(own) - Cardinality(ElementsOf(t) \cap own)
  <2> HIDE DEF own
  <2> QED BY <1>2, <1>4, FS_Union
<1>8. Cardinality({}) = 0
  BY FS_EmptySet
<1> HIDE DEF own
<1>9. Cardinality(ElementsOf(t) \cup own) = Size(t) + Len(v.chain) - 0
  BY <1>4, <1>6, <1>7, <1>8 DEF Size
<1>10. Size(t \cup {v}) = Cardinality(ElementsOf(t) \cup own)
  BY <1>5 DEF Size
<1> QED BY <1>2, <1>3, <1>9, <1>10

\* Taking an interval out takes its chain away.
LEMMA SizeRemove ==
    ASSUME NEW t, Tree(t), NEW v \in t
    PROVE  Size(t) = Size(t \ {v}) + Len(v.chain) /\ Size(t \ {v}) \in Nat
<1>1. (t \ {v}) \cup {v} = t /\ v \notin t \ {v}
  OBVIOUS
<1> QED BY <1>1, SizeAdd

\* There are no more elements than numbers in the intervals: a tree that lies beyond the
\* first number leaves room for another sample if there is room for all.
LEMMA SizeBound ==
    ASSUME NEW t, Tree(t), \A v \in t : v.min > 1
    PROVE  Size(t) <= MaxSeq - 1
<1> DEFINE f == [e \in ElementsOf(t) |-> e[1] + e[2] - 1]
<1>1. ASSUME NEW e \in ElementsOf(t)
      PROVE  \E v \in t : /\ e = <<v.min, e[2]>> /\ e[2] \in 1..Len(v.chain)
                          /\ Interval(v)
  BY IntervalFacts DEF ElementsOf, Tree
<1>2. ASSUME NEW e \in ElementsOf(t) PROVE f[e] \in 2..MaxSeq
  <2>1. PICK v \in t : e = <<v.min, e[2]>> /\ e[2] \in 1..Len(v.chain) /\ Interval(v)
    BY <1>1
  <2>2. v.min > 1
    OBVIOUS
  <2>3. e[1] = v.min
    BY <2>1
  <2> QED BY <2>1, <2>2, <2>3, IntervalFacts
<1>3. ASSUME NEW e \in ElementsOf(t), NEW g \in ElementsOf(t), f[e] = f[g] PROVE e = g
  <2>1. PICK v \in t : e = <<v.min, e[2]>> /\ e[2] \in 1..Len(v.chain) /\ Interval(v)
    BY <1>1
  <2>2. PICK w \in t : g = <<w.min, g[2]>> /\ g[2] \in 1..Len(w.chain) /\ Interval(w)
    BY <1>1
  <2>3. v.min + e[2] - 1 = w.min + g[2] - 1
    <3>1. e[1] = v.min /\ g[1] = w.min
      BY <2>1, <2>2
    <3> QED BY <1>3, <3>1
  <2>4. /\ v.min \in Int /\ v.maxp1 \in Int /\ v.min + e[2] - 1 < v.maxp1
        /\ e[2] \in Int /\ e[2] >= 1
    BY <2>1, IntervalFacts
  <2>5. /\ w.min \in Int /\ w.maxp1 \in Int /\ w.min + g[2] - 1 < w.maxp1
        /\ g[2] \in Int /\ g[2] >= 1
    BY <2>2, IntervalFacts
  <2>6. v = w
    <3>1. ~(v.maxp1 < w.min) /\ ~(w.maxp1 < v.min)
      BY <2>3, <2>4, <2>5
    <3> QED BY <3>1 DEF Tree, Apart
  <2>7. e[2] = g[2]
    BY <2>3, <2>4, <2>5, <2>6
  <2> QED BY <2>1, <2>2, <2>6, <2>7
<1>4. IsFiniteSet(2..MaxSeq) /\ Cardinality(2..MaxSeq) = MaxSeq - 1
  <2>1. MaxSeq \in Int /\ MaxSeq >= 1
    BY ReorderAssumption
  <2> QED BY <2>1, FS_Interval
<1>5. f \in Injection(ElementsOf(t), 2..MaxSeq)
  <2>1. f \in [ElementsOf(t) -> 2..MaxSeq]
    BY <1>2
  <2>2. DOMAIN f = ElementsOf(t)
    OBVIOUS
  <2> HIDE DEF f
  <2> QED BY <1>3, <2>1, <2>2 DEF Injection, IsInjective
<1> HIDE DEF f
<1>6. Cardinality(ElementsOf(t)) <= Cardinality(2..MaxSeq)
  BY <1>4, <1>5, FS_Injection
<1> QED BY <1>4, <1>6 DEF Size

----------------------------------------------------------------------------
\* Joining intervals

\* the function that Joined defines recursively
JoinsUpTo(T, f) ==
    f = [S \in (SUBSET T) \ {{}} |->
           LET last == LastIv(S) IN
           IF S = {last} THEN last ELSE Append2(f[S \ {last}], last)]

\* Without its last interval a set of intervals is smaller and precedes it.
LEMMA WithoutLast ==
    ASSUME NEW T, Tree(T), NEW S \in (SUBSET T) \ {{}}
    PROVE  /\ Tree(S) /\ LastIv(S) \in S /\ IsFiniteSet(S) /\ Cardinality(S) \in Nat
           /\ IsFiniteSet(S \ {LastIv(S)})
           /\ Cardinality(S \ {LastIv(S)}) = Cardinality(S) - 1
           /\ \A w \in S \ {LastIv(S)} : w.maxp1 < LastIv(S).min
           /\ S # {LastIv(S)} => S \ {LastIv(S)} \in (SUBSET T) \ {{}}
<1>1. Tree(S) /\ S # {}
  BY SubTree
<1>2. LastIv(S) \in S /\ \A w \in S : w # LastIv(S) => w.maxp1 < LastIv(S).min
  BY <1>1, LastOfTree
<1>3. IsFiniteSet(S)
  BY <1>1 DEF Tree
<1>4. Cardinality(S) \in Nat /\ IsFiniteSet(S \ {LastIv(S)})
      /\ Cardinality(S \ {LastIv(S)}) = Cardinality(S) - 1
  BY <1>2, <1>3, FS_CardinalityType, FS_RemoveElement
<1> QED BY <1>1, <1>2, <1>3, <1>4

\* The recursive function of Joined exists.
LEMMA JoinsUpToExists == ASSUME NEW T, Tree(T) PROVE \E f : JoinsUpTo(T, f)
<1> DEFINE Step(f, S) == LET last == LastIv(S) IN
                         IF S = {last} THEN last ELSE Append2(f[S \ {last}], last)
           Sets(n) == {S \in (SUBSET T) \ {{}} : Cardinality(S) <= n}
           Defined == {n \in 0..Cardinality(T) : \E f : f = [S \in Sets(n) |-> Step(f, S)]}
<1>1. Cardinality(T) \in Nat /\ IsFiniteSet(T)
  BY FS_CardinalityType DEF Tree
<1>2. ASSUME NEW S \in (SUBSET T) \ {{}}
      PROVE  /\ Cardinality(S) \in Nat /\ Cardinality(S) <= Cardinality(T)
             /\ Cardinality(S) # 0
  BY <1>1, FS_Subset, FS_EmptySet, FS_CardinalityType
<1>3. 0 \in Defined
  <2> DEFINE f0 == [S \in {} |-> S]
  <2>1. Sets(0) = {}
    BY <1>2
  <2>2. f0 = [S \in {} |-> Step(f0, S)]
    OBVIOUS
  <2>3. \E f : f = [S \in Sets(0) |-> Step(f, S)]
    <3> HIDE DEF f0, Step, Sets
    <3> QED BY <2>1, <2>2
  <2> HIDE DEF Step, Sets, f0
  <2> QED BY <1>1, <2>3
<1>4. ASSUME NEW n \in 0..Cardinality(T) - 1, n \in Defined PROVE n + 1 \in Defined
  <2>1. PICK f : f = [S \in Sets(n) |-> Step(f, S)]
    BY <1>4
  <2> DEFINE g == [S \in Sets(n + 1) |-> Step(f, S)]
  <2>2. Sets(n) \subseteq Sets(n + 1) /\ n \in Int
    BY <1>1, <1>2
  <2>3. \A S \in Sets(n) : g[S] = f[S]
    <3>1. \A S \in Sets(n) : f[S] = Step(f, S)
      BY <2>1
    <3> HIDE DEF Sets, Step
    <3> QED BY <2>2, <3>1
  <2>4. ASSUME NEW S \in Sets(n + 1), S # {LastIv(S)} PROVE S \ {LastIv(S)} \in Sets(n)
    <3>1. S \in (SUBSET T) \ {{}} /\ Cardinality(S) <= n + 1
      OBVIOUS
    <3>2. S \ {LastIv(S)} \in (SUBSET T) \ {{}} /\ Cardinality(S \ {LastIv(S)}) = Cardinality(S) - 1
      BY <2>4, <3>1, WithoutLast
    <3> QED BY <1>2, <2>2, <3>1, <3>2
  <2>5. ASSUME NEW S \in Sets(n + 1) PROVE Step(g, S) = Step(f, S)
    <3> HIDE DEF g, Sets
    <3> QED BY <2>3, <2>4
  <2>6. g = [S \in Sets(n + 1) |-> Step(g, S)]
    <3> HIDE DEF Step, Sets
    <3> QED BY <2>5
  <2>7. n + 1 \in 0..Cardinality(T)
    BY <1>1
  <2>8. \E h : h = [S \in Sets(n + 1) |-> Step(h, S)]
    <3> HIDE DEF g, Step, Sets
    <3> QED BY <2>6
  <2> QED BY <2>7, <2>8
<1>5. Cardinality(T) \in Defined
  <2> HIDE DEF Defined
  <2>1. 0..Cardinality(T) \subseteq Defined
    BY <1>1, <1>3, <1>4, Upward
  <2> QED BY <1>1, <2>1
<1>6. Sets(Cardinality(T)) = (SUBSET T) \ {{}}
  BY <1>2
<1>7. \E f : f = [S \in (SUBSET T) \ {{}} |-> Step(f, S)]
  <2>1. \E f : f = [S \in Sets(Cardinality(T)) |-> Step(f, S)]
    BY <1>5
  <2> HIDE DEF Step, Sets
  <2> QED BY <1>6, <2>1
<1> QED BY <1>7 DEF JoinsUpTo

\* Linking two intervals of which the second begins at or after the end of the first.
LEMMA AppendIntervals ==
    ASSUME NEW v, Interval(v), NEW w, Interval(w), v.maxp1 <= w.min
    PROVE  LET a == Append2(v, w) IN
           /\ Interval(a) /\ a.min = v.min /\ a.maxp1 = w.maxp1 /\ a.chain = v.chain \o w.chain
           /\ Len(a.chain) = Len(v.chain) + Len(w.chain)
           /\ ToSet(a.chain) = ToSet(v.chain) \cup ToSet(w.chain)
           /\ /\ Whole(v.chain, v.min, v.maxp1) /\ Whole(w.chain, w.min, w.maxp1)
              /\ v.maxp1 = w.min
              => Whole(a.chain, a.min, a.maxp1)
<1>1. /\ Placed(v.chain, v.min, v.maxp1) /\ Placed(w.chain, w.min, w.maxp1)
      /\ v.min \in Seqs /\ w.maxp1 \in 2..MaxSeq + 1
  BY DEF Interval
<1>2. v.min \in Int /\ v.maxp1 \in Int /\ w.min \in Int /\ w.maxp1 \in Int
  BY IntervalFacts
<1> DEFINE c == v.chain \o w.chain
<1>3. /\ Placed(c, v.min, w.maxp1) /\ Len(c) = Len(v.chain) + Len(w.chain)
      /\ ToSet(c) = ToSet(v.chain) \cup ToSet(w.chain)
      /\ Whole(v.chain, v.min, v.maxp1) /\ Whole(w.chain, w.min, w.maxp1) /\ v.maxp1 = w.min
         => Whole(c, v.min, w.maxp1)
  BY <1>1, <1>2, PlacedLinked
<1> HIDE DEF c
<1>4. Interval([min |-> v.min, maxp1 |-> w.maxp1, chain |-> c])
  BY <1>1, <1>3, IntervalOf
<1>5. Append2(v, w) = [min |-> v.min, maxp1 |-> w.maxp1, chain |-> c]
  BY DEF Append2, c
<1>6. c = v.chain \o w.chain
  BY DEF c
<1> DEFINE a == Append2(v, w)
<1>7. Interval(a) /\ a.min = v.min /\ a.maxp1 = w.maxp1 /\ a.chain = c
  BY <1>4, <1>5
<1> HIDE DEF a
<1>8. /\ a.chain = v.chain \o w.chain /\ Len(a.chain) = Len(v.chain) + Len(w.chain)
      /\ ToSet(a.chain) = ToSet(v.chain) \cup ToSet(w.chain)
  BY <1>3, <1>6, <1>7
<1>9. Whole(v.chain, v.min, v.maxp1) /\ Whole(w.chain, w.min, w.maxp1) /\ v.maxp1 = w.min
         => Whole(a.chain, a.min, a.maxp1)
  BY <1>3, <1>7
<1> QED BY <1>7, <1>8, <1>9 DEF a

\* The join of a tree spans it and has the chains of all its intervals.
LEMMA JoinedTree ==
    ASSUME NEW T, Tree(T), T # {}
    PROVE  LET j == Joined(T) IN
           /\ Interval(j)
           /\ \E v \in T : j.min = v.min /\ \A w \in T : v.min <= w.min
           /\ j.maxp1 = LastIv(T).maxp1
           /\ Len(j.chain) = Size(T)
           /\ ToSet(j.chain) = UNION {ToSet(v.chain) : v \in T}
<1> DEFINE Right(f, S) ==
             /\ Interval(f[S])
             /\ \E v \in S : f[S].min = v.min /\ \A w \in S : v.min <= w.min
             /\ f[S].maxp1 = LastIv(S).maxp1
             /\ Len(f[S].chain) = Size(S)
             /\ ToSet(f[S].chain) = UNION {ToSet(v.chain) : v \in S}
<1>1. Joined(T) = (CHOOSE f : JoinsUpTo(T, f))[T]
  BY DEF Joined, JoinsUpTo
<1>2. PICK f : JoinsUpTo(T, f) /\ Joined(T) = f[T]
  BY <1>1, JoinsUpToExists
<1> DEFINE Good == {n \in 0..Cardinality(T) :
                      \A S \in (SUBSET T) \ {{}} : Cardinality(S) = n => Right(f, S)}
<1>3. Cardinality(T) \in Nat /\ IsFiniteSet(T)
  BY FS_CardinalityType DEF Tree
<1>4. 0 \in Good
  <2>1. \A S \in (SUBSET T) \ {{}} : Cardinality(S) # 0
    BY <1>3, FS_Subset, FS_EmptySet
  <2> HIDE DEF Right
  <2> QED BY <1>3, <2>1
<1>5. ASSUME NEW n \in 0..Cardinality(T) - 1, n \in Good PROVE n + 1 \in Good
  <2> SUFFICES ASSUME NEW S \in (SUBSET T) \ {{}}, Cardinality(S) = n + 1 PROVE Right(f, S)
    BY <1>3
  <2> DEFINE l == LastIv(S)
             R == S \ {l}
  <2>1. /\ Tree(S) /\ l \in S /\ IsFiniteSet(S) /\ IsFiniteSet(R) /\ Cardinality(R) = n
        /\ \A w \in R : w.maxp1 < l.min
        /\ S # {l} => R \in (SUBSET T) \ {{}}
    <3>1. Cardinality(S) - 1 = n
      BY <1>3
    <3> QED BY <3>1, WithoutLast
  <2>2. f[S] = IF S = {l} THEN l ELSE Append2(f[R], l)
    BY <1>2 DEF JoinsUpTo
  <2>3. Interval(l) /\ Size(S) = Size(R) + Len(l.chain) /\ Size(R) \in Nat
    <3> HIDE DEF l
    <3> QED BY <2>1, SizeRemove DEF Tree
  <2>4. Len(l.chain) \in Nat /\ l.min \in Int /\ l.maxp1 \in Int
    BY <2>3, IntervalFacts
  <2>5. CASE S = {l}
    <3>1. R = {} /\ f[S] = l
      BY <2>2, <2>5
    <3>2. Size(R) = 0
      BY <3>1, SizeEmpty
    <3> HIDE DEF l, R
    <3>3. UNION {ToSet(v.chain) : v \in S} = ToSet(l.chain)
      BY <2>5
    <3>4. f[S].maxp1 = LastIv(S).maxp1
      BY <3>1 DEF l
    <3>5. \E v \in S : f[S].min = v.min /\ \A w \in S : v.min <= w.min
      BY <2>1, <2>4, <2>5, <3>1
    <3> QED BY <2>3, <2>4, <3>1, <3>2, <3>3, <3>4, <3>5
  <2>6. CASE S # {l}
    <3>1. Right(f, R)
      BY <1>5, <2>1, <2>6
    <3> DEFINE r == f[R]
    <3>2. Tree(R) /\ R # {}
      BY <2>1, <2>6, SubTree
    <3>3. r.maxp1 <= l.min
      <4>1. LastIv(R) \in R
        BY <3>2, LastOfTree
      <4>2. LastIv(R).maxp1 < l.min /\ r.maxp1 = LastIv(R).maxp1
        BY <2>1, <3>1, <4>1
      <4>3. r.maxp1 \in Int
        BY <3>1, IntervalFacts
      <4> HIDE DEF l, R, r
      <4> QED BY <2>4, <4>2, <4>3
    <3>4. f[S] = Append2(r, l)
      BY <2>2, <2>6
    <3>4a. Interval(r)
      BY <3>1
    <3> HIDE DEF l, r
    <3>5. /\ Interval(f[S]) /\ f[S].min = r.min /\ f[S].maxp1 = l.maxp1
          /\ Len(f[S].chain) = Len(r.chain) + Len(l.chain)
          /\ ToSet(f[S].chain) = ToSet(r.chain) \cup ToSet(l.chain)
      <4>1. /\ Interval(Append2(r, l)) /\ Append2(r, l).min = r.min
            /\ Append2(r, l).maxp1 = l.maxp1
            /\ Len(Append2(r, l).chain) = Len(r.chain) + Len(l.chain)
            /\ ToSet(Append2(r, l).chain) = ToSet(r.chain) \cup ToSet(l.chain)
        BY <2>3, <3>3, <3>4a, AppendIntervals
      <4> QED BY <3>4, <4>1
    <3>6. \E v \in S : f[S].min = v.min /\ \A w \in S : v.min <= w.min
      <4>1. PICK v \in R : r.min = v.min /\ \A w \in R : v.min <= w.min
        BY <3>1 DEF r
      <4>2. v.min <= l.min
        <5>1. Interval(v) /\ v.maxp1 < l.min
          BY <2>1, <3>2 DEF Tree
        <5>2. v.min \in Int /\ v.maxp1 \in Int /\ v.min < v.maxp1
          BY <5>1, IntervalFacts
        <5> QED BY <2>4, <5>1, <5>2
      <4>3. \A w \in S : w \in R \/ w = l
        OBVIOUS
      <4> QED BY <3>5, <4>1, <4>2, <4>3
    <3>7. UNION {ToSet(v.chain) : v \in S} = (UNION {ToSet(v.chain) : v \in R}) \cup ToSet(l.chain)
      BY <2>1
    <3>8. Len(r.chain) = Size(R) /\ ToSet(r.chain) = UNION {ToSet(v.chain) : v \in R}
      BY <3>1 DEF r
    <3>9. f[S].maxp1 = LastIv(S).maxp1
      BY <3>5 DEF l
    <3> HIDE DEF R
    <3> QED BY <2>3, <3>5, <3>6, <3>7, <3>8, <3>9
  <2> QED BY <2>5, <2>6
<1>6. Cardinality(T) \in Good
  <2> HIDE DEF Good
  <2>1. 0..Cardinality(T) \subseteq Good
    BY <1>3, <1>4, <1>5, Upward
  <2> QED BY <1>3, <2>1
<1>7. Right(f, T)
  <2>1. T \in (SUBSET T) \ {{}}
    OBVIOUS
  <2> HIDE DEF Right
  <2> QED BY <1>6, <2>1
<1> QED BY <1>2, <1>7

----------------------------------------------------------------------------
\* Changing a tree

Numbers(t) == UNION {v.min..v.maxp1 - 1 : v \in t}
SamplesOf(t) == (UNION {ToSet(v.chain) : v \in t}) \ {GAP}
AllWhole(t) == \A v \in t : Whole(v.chain, v.min, v.maxp1)

\* The samples of a tree are numbers of its intervals; if its chains are whole they are
\* all of them.
LEMMA SamplesAreNumbers ==
    ASSUME NEW t, Tree(t)
    PROVE  /\ SamplesOf(t) \subseteq Numbers(t) /\ Numbers(t) \subseteq Seqs
           /\ AllWhole(t) => SamplesOf(t) = Numbers(t)
<1>1. ASSUME NEW v \in t
      PROVE  /\ Interval(v) /\ v.min \in Int /\ v.maxp1 \in Int
             /\ Placed(v.chain, v.min, v.maxp1)
             /\ v.min..v.maxp1 - 1 \subseteq Seqs
  <2>1. Interval(v)
    BY DEF Tree
  <2>2. v.min..v.maxp1 - 1 \subseteq Seqs
    BY <2>1, IntervalFacts DEF Seqs
  <2> QED BY <2>1, <2>2, IntervalFacts DEF Interval
<1>2. Numbers(t) \subseteq Seqs
  BY <1>1 DEF Numbers
<1>3. ASSUME NEW v \in t, NEW x \in ToSet(v.chain), x # GAP PROVE x \in v.min..v.maxp1 - 1
  <2>1. x \in Seqs /\ v.min <= x /\ x < v.maxp1
    BY <1>1, <1>3, PlacedMembers
  <2>2. x \in Int
    BY <2>1 DEF Seqs
  <2> QED BY <1>1, <2>1, <2>2
<1>4. SamplesOf(t) \subseteq Numbers(t)
  BY <1>3 DEF SamplesOf, Numbers
<1>5. ASSUME AllWhole(t), NEW v \in t PROVE v.min..v.maxp1 - 1 \subseteq SamplesOf(t)
  <2>1. ToSet(v.chain) = v.min..v.maxp1 - 1 /\ GAP \notin ToSet(v.chain)
    BY <1>1, <1>5, WholeMembers DEF AllWhole, Whole
  <2> QED BY <2>1 DEF SamplesOf
<1>6. AllWhole(t) => Numbers(t) \subseteq SamplesOf(t)
  BY <1>5 DEF Numbers
<1> QED BY <1>2, <1>4, <1>6

\* An interval that is apart from all others makes a larger tree.
LEMMA TreeAdd ==
    ASSUME NEW t, Tree(t), NEW v, Interval(v),
           \A w \in t : w.maxp1 < v.min \/ v.maxp1 < w.min
    PROVE  Tree(t \cup {v}) /\ v \notin t /\ Size(t \cup {v}) = Size(t) + Len(v.chain)
<1>1. v.min \in Int /\ v.maxp1 \in Int /\ v.min < v.maxp1
  BY IntervalFacts
<1>2. v \notin t
  BY <1>1
<1>3. IsFiniteSet(t \cup {v})
  BY FS_AddElement DEF Tree
<1>4. Apart(t \cup {v})
  BY DEF Tree, Apart
<1>5. Tree(t \cup {v})
  BY <1>3, <1>4 DEF Tree
<1> QED BY <1>2, <1>5, SizeAdd

\* A tree has the elements of one part and of the other.
LEMMA SizeSplit ==
    ASSUME NEW t, Tree(t), NEW u \in SUBSET t
    PROVE  /\ Size(t) = Size(t \ u) + Size(u) /\ Size(u) \in Nat /\ Size(t \ u) \in Nat
           /\ Tree(u) /\ Tree(t \ u)
<1>1. Tree(u) /\ Tree(t \ u)
  BY SubTree
<1>2. /\ IsFiniteSet(ElementsOf(u)) /\ Size(u) \in Nat
      /\ IsFiniteSet(ElementsOf(t \ u)) /\ Size(t \ u) \in Nat
  BY <1>1, FiniteElements
<1>3. ElementsOf(t) = ElementsOf(t \ u) \cup ElementsOf(u)
  BY DEF ElementsOf
<1>4. ElementsOf(t \ u) \cap ElementsOf(u) = {}
  <2> SUFFICES ASSUME NEW e \in ElementsOf(t \ u), e \in ElementsOf(u) PROVE FALSE
    OBVIOUS
  <2>1. PICK v \in t \ u : e \in {v.min} \X DOMAIN v.chain
    BY DEF ElementsOf
  <2>2. PICK w \in u : e \in {w.min} \X DOMAIN w.chain
    BY DEF ElementsOf
  <2>3. v.min = w.min
    BY <2>1, <2>2
  <2> QED BY <2>3, TreeNode
<1>5. Cardinality({}) = 0
  BY FS_EmptySet
<1>6. Cardinality(ElementsOf(t \ u) \cup ElementsOf(u))
        = Cardinality(ElementsOf(t \ u)) + Cardinality(ElementsOf(u))
            - Cardinality(ElementsOf(t \ u) \cap ElementsOf(u))
  BY <1>2, FS_Union
<1>7. Cardinality(ElementsOf(t \ u) \cup ElementsOf(u)) = Size(t \ u) + Size(u) - 0
  BY <1>4, <1>5, <1>6 DEF Size
<1>8. Size(t) = Size(t \ u) + Size(u) - 0
  BY <1>3, <1>7 DEF Size
<1> QED BY <1>1, <1>2, <1>8

\* u is what is left of t when there was no room: if anything goes it follows all that
\* stays, and it goes from the end of the last interval.
Trimmed(t, u) ==
    /\ Tree(u)
    /\ \A n \in Int : (\A v \in t : n < v.min) => \A v \in u : n < v.min
    /\ SamplesOf(u) \subseteq SamplesOf(t) /\ Numbers(u) \subseteq Numbers(t)
    /\ \A s \in SamplesOf(t) \ SamplesOf(u) : \A x \in SamplesOf(u) : x < s
    /\ \A s \in Numbers(t) \ Numbers(u) :
          /\ \A x \in Numbers(u) : x < s
          /\ LastIv(t).min <= s /\ s < LastIv(t).maxp1
          /\ Len(LastIv(t).chain) # 1 => s = LastIv(t).maxp1 - 1
    /\ AllWhole(t) => AllWhole(u)

\* delete_last_sample trims the tree by one element.
LEMMA DeleteLastTrims ==
    ASSUME NEW t, Tree(t), t # {}
    PROVE  LET d == DeleteLast(t, MaxOf(t)) IN
           Trimmed(t, d.tree) /\ d.max = MaxOf(d.tree) /\ Size(d.tree) = Size(t) - 1
<1> DEFINE l == LastIv(t)
           rest == t \ {l}
           d == DeleteLast(t, MaxOf(t))
<1>1. /\ l \in t /\ MaxOf(t) = l.min /\ \A w \in rest : w.min <= l.min /\ w.maxp1 < l.min
      /\ (CHOOSE v \in t : v.min = MaxOf(t)) = l /\ Interval(l)
  <2>1. /\ l \in t /\ MaxOf(t) = l.min
        /\ \A w \in t : w.min <= l.min /\ (w # l => w.maxp1 < l.min)
    BY LastOfTree
  <2> HIDE DEF l
  <2>2. (CHOOSE v \in t : v.min = l.min) = l
    BY <2>1, TreeNode
  <2> QED BY <2>1, <2>2 DEF Tree
<1>2. d = IF Len(l.chain) = 1
          THEN [tree |-> rest, max |-> MaxOf(rest)]
          ELSE [tree |-> rest \cup {[min |-> l.min, maxp1 |-> l.maxp1 - 1, chain |-> Front(l.chain)]},
                max  |-> MaxOf(t)]
  BY <1>1 DEF DeleteLast
<1>3. /\ l.min \in Int /\ l.maxp1 \in Int /\ l.min < l.maxp1 /\ Len(l.chain) \in Nat
      /\ Len(l.chain) >= 1 /\ Placed(l.chain, l.min, l.maxp1)
      /\ l = [min |-> l.min, maxp1 |-> l.maxp1, chain |-> l.chain]
      /\ l.min \in Seqs /\ l.maxp1 <= MaxSeq + 1 /\ MaxSeq \in Nat
      /\ l.min + Len(l.chain) <= l.maxp1
  BY <1>1, IntervalFacts DEF Interval
<1>4. Tree(rest) /\ Size(t) = Size(rest) + Len(l.chain) /\ Size(rest) \in Nat
  <2> HIDE DEF l
  <2> QED BY <1>1, SubTree, SizeRemove
<1>5. t = rest \cup {l}
  BY <1>1
<1> HIDE DEF d, l, rest
<1>6. SamplesOf(t) = SamplesOf(rest) \cup (ToSet(l.chain) \ {GAP})
  BY <1>5 DEF SamplesOf
<1>7. Numbers(t) = Numbers(rest) \cup (l.min..l.maxp1 - 1)
  BY <1>5 DEF Numbers
<1>8. ASSUME NEW x \in Numbers(rest) PROVE x \in Int /\ x < l.min
  <2>1. PICK w \in rest : x \in w.min..w.maxp1 - 1
    BY DEF Numbers
  <2>2. w.maxp1 < l.min /\ Interval(w)
    BY <1>1, <1>4 DEF Tree
  <2> QED BY <1>3, <2>1, <2>2, IntervalFacts
<1>9. SamplesOf(rest) \subseteq Numbers(rest)
  BY <1>4, SamplesAreNumbers
<1>10. ASSUME NEW x \in ToSet(l.chain) \ {GAP} PROVE x \in Int /\ l.min <= x /\ x < l.maxp1
  BY <1>3, PlacedMembers DEF Seqs
<1>11. CASE Len(l.chain) = 1
  <2>1. d.tree = rest /\ d.max = MaxOf(rest)
    BY <1>2, <1>11
  <2>2. \A n \in Int : (\A v \in t : n < v.min) => \A v \in rest : n < v.min
    BY <1>5
  <2>3. \A s \in SamplesOf(t) \ SamplesOf(rest) : \A x \in SamplesOf(rest) : x < s
    BY <1>3, <1>6, <1>8, <1>9, <1>10
  <2>4. ASSUME NEW s \in Numbers(t) \ Numbers(rest)
        PROVE  (\A x \in Numbers(rest) : x < s) /\ l.min <= s /\ s < l.maxp1
    BY <1>3, <1>7, <1>8
  <2>5. AllWhole(t) => AllWhole(rest)
    BY <1>5 DEF AllWhole
  <2>6. Trimmed(t, rest)
    BY <1>4, <1>6, <1>7, <1>11, <2>2, <2>3, <2>4, <2>5 DEF Trimmed, l
  <2> QED BY <1>4, <1>11, <2>1, <2>6 DEF d
<1>12. CASE Len(l.chain) # 1
  <2> DEFINE s == [min |-> l.min, maxp1 |-> l.maxp1 - 1, chain |-> Front(l.chain)]
  <2>1. d.tree = rest \cup {s} /\ d.max = MaxOf(t)
    BY <1>2, <1>12
  <2>2. /\ Placed(Front(l.chain), l.min, l.maxp1 - 1)
        /\ Len(Front(l.chain)) = Len(l.chain) - 1
        /\ ToSet(l.chain) = ToSet(Front(l.chain)) \cup {l.chain[Len(l.chain)]}
        /\ l.chain[Len(l.chain)] # GAP
             => \A x \in ToSet(Front(l.chain)) : x # GAP => x < l.chain[Len(l.chain)]
        /\ Whole(l.chain, l.min, l.maxp1) => Whole(Front(l.chain), l.min, l.maxp1 - 1)
    BY <1>3, <1>12, PlacedFront
  <2>3. Interval(s)
    <3>1. l.maxp1 - 1 \in 2..MaxSeq + 1
      <4>1. l.min >= 1 /\ Len(l.chain) >= 2
        <5>1. l.min >= 1
          BY <1>1, IntervalFacts
        <5>2. Len(l.chain) \in Nat /\ Len(l.chain) >= 1
          BY <1>3
        <5>3. \A n \in Nat : n >= 1 /\ n # 1 => n >= 2
          OBVIOUS
        <5> QED BY <1>12, <5>1, <5>2, <5>3
      <4>2. l.maxp1 >= 3
        BY <1>3, <4>1
      <4> QED BY <1>3, <4>2
    <3> QED BY <1>3, <2>2, <3>1, IntervalOf
  <2>4. s.min = l.min /\ s.maxp1 = l.maxp1 - 1 /\ s.chain = Front(l.chain)
    OBVIOUS
  <2> HIDE DEF s
  <2>5. \A w \in rest : w.maxp1 < s.min
    BY <1>1, <2>4
  <2>6. Tree(rest \cup {s}) /\ Size(rest \cup {s}) = Size(rest) + Len(l.chain) - 1
    <3>1. Tree(rest \cup {s}) /\ Size(rest \cup {s}) = Size(rest) + Len(s.chain)
      BY <1>4, <2>3, <2>5, TreeAdd
    <3> QED BY <1>3, <1>4, <2>2, <2>4, <3>1
  <2>7. MaxOf(rest \cup {s}) = MaxOf(t)
    <3>1. \A w \in rest \cup {s} : w.min <= s.min
      BY <1>1, <1>3, <2>4
    <3>2. MaxOf(rest \cup {s}) = s.min
      BY <2>6, <3>1, LastIs
    <3> QED BY <1>1, <2>4, <3>2
  <2>8. SamplesOf(rest \cup {s}) = SamplesOf(rest) \cup (ToSet(Front(l.chain)) \ {GAP})
    BY <2>4 DEF SamplesOf
  <2>9. Numbers(rest \cup {s}) = Numbers(rest) \cup (l.min..l.maxp1 - 2)
    <3>1. l.maxp1 - 1 - 1 = l.maxp1 - 2
      BY <1>3
    <3> QED BY <2>4, <3>1 DEF Numbers
  <2>10. \A n \in Int : (\A v \in t : n < v.min) => \A v \in rest \cup {s} : n < v.min
    BY <1>5, <2>4
  <2>11. SamplesOf(rest \cup {s}) \subseteq SamplesOf(t)
         /\ Numbers(rest \cup {s}) \subseteq Numbers(t)
    <3>1. l.min..l.maxp1 - 2 \subseteq l.min..l.maxp1 - 1
      BY <1>3
    <3> QED BY <1>6, <1>7, <2>2, <2>8, <2>9, <3>1
  <2>12. ASSUME NEW e \in SamplesOf(t) \ SamplesOf(rest \cup {s}),
                NEW x \in SamplesOf(rest \cup {s})
         PROVE  x < e
    <3>1. e = l.chain[Len(l.chain)] /\ e # GAP /\ e \in ToSet(l.chain)
      BY <1>6, <2>2, <2>8 DEF SamplesOf
    <3>2. CASE x \in SamplesOf(rest)
      BY <1>3, <1>8, <1>9, <1>10, <3>1, <3>2
    <3>3. CASE x \in ToSet(Front(l.chain)) \ {GAP}
      BY <2>2, <3>1, <3>3
    <3> QED BY <2>8, <3>2, <3>3
  <2>13. ASSUME NEW e \in Numbers(t) \ Numbers(rest \cup {s})
         PROVE  e = l.maxp1 - 1 /\ \A x \in Numbers(rest \cup {s}) : x < e
    <3>1. e = l.maxp1 - 1
      <4>1. e \in l.min..l.maxp1 - 1 /\ e \notin l.min..l.maxp1 - 2
        BY <1>7, <2>9
      <4> QED BY <1>3, <4>1
    <3>2. \A x \in Numbers(rest) : x < e
      BY <1>3, <1>8, <3>1
    <3>3. \A x \in l.min..l.maxp1 - 2 : x < e
      BY <1>3, <3>1
    <3> QED BY <2>9, <3>1, <3>2, <3>3
  <2>14. AllWhole(t) => AllWhole(rest \cup {s})
    BY <1>5, <2>2, <2>4 DEF AllWhole
  <2>15. Trimmed(t, rest \cup {s})
    <3>1. l.min <= l.maxp1 - 1 /\ l.maxp1 - 1 < l.maxp1
      BY <1>3
    <3> QED BY <2>6, <2>10, <2>11, <2>12, <2>13, <2>14, <3>1 DEF Trimmed, l
  <2> QED BY <1>3, <1>4, <2>1, <2>6, <2>7, <2>15 DEF d
<1> QED BY <1>11, <1>12

\* Nothing goes from a tree that is left alone.
LEMMA TrimmedNot == ASSUME NEW t, Tree(t) PROVE Trimmed(t, t)
BY DEF Trimmed

\* With one element too many the tree is stored as it is or trimmed; it is never trimmed
\* when max_samples is no less than the highest sequence number.
LEMMA StoreBoundedTree ==
    ASSUME NEW t, Tree(t), t # {}, nSamples \in Nat, nSamples <= MaxSamples,
           Size(t) = nSamples + 1, StoreBounded(t, MaxOf(t))
    PROVE  /\ Tree(ivs') /\ maxIv' = MaxOf(ivs') /\ Trimmed(t, ivs')
           /\ nSamples' \in Nat /\ nSamples' = Size(ivs') /\ nSamples' <= MaxSamples
           /\ MaxSamples >= MaxSeq /\ (\A v \in t : v.min > 1) => ivs' = t
<1>1. MaxSamples \in Nat /\ MaxSeq \in Nat
  BY ReorderAssumption
<1>2. CASE nSamples < MaxSamples
  <2>1. ivs' = t /\ maxIv' = MaxOf(t) /\ nSamples' = nSamples + 1
    BY <1>2 DEF StoreBounded
  <2> QED BY <1>1, <1>2, <2>1, TrimmedNot
<1>3. CASE ~(nSamples < MaxSamples)
  <2>1. LET d == DeleteLast(t, MaxOf(t)) IN
        ivs' = d.tree /\ maxIv' = d.max /\ nSamples' = nSamples
    BY <1>3 DEF StoreBounded
  <2>2. LET d == DeleteLast(t, MaxOf(t)) IN
        Trimmed(t, d.tree) /\ d.max = MaxOf(d.tree) /\ Size(d.tree) = Size(t) - 1
    BY DeleteLastTrims
  <2>3. Trimmed(t, ivs') /\ maxIv' = MaxOf(ivs') /\ Size(ivs') = nSamples
    BY <2>1, <2>2
  <2>4. ~(MaxSamples >= MaxSeq /\ \A v \in t : v.min > 1)
    <3> SUFFICES ASSUME MaxSamples >= MaxSeq, \A v \in t : v.min > 1 PROVE FALSE
      OBVIOUS
    <3>1. Size(t) <= MaxSeq - 1
      BY SizeBound
    <3> QED BY <1>1, <1>3, <3>1
  <2> QED BY <2>1, <2>3, <2>4 DEF Trimmed
<1> QED BY <1>2, <1>3

\* Replacing the intervals p of a tree by one that is apart from the others.
LEMMA Replaced ==
    ASSUME NEW t, Tree(t), NEW p \in SUBSET t, NEW q, Interval(q),
           \A w \in t \ p : w.maxp1 < q.min \/ q.maxp1 < w.min
    PROVE  LET u == (t \ p) \cup {q} IN
           /\ Tree(u) /\ Size(u) = Size(t) - Size(p) + Len(q.chain)
           /\ Size(t) \in Nat /\ Size(p) \in Nat
           /\ SamplesOf(t) = SamplesOf(t \ p) \cup SamplesOf(p)
           /\ SamplesOf(u) = SamplesOf(t \ p) \cup (ToSet(q.chain) \ {GAP})
           /\ Numbers(t) = Numbers(t \ p) \cup Numbers(p)
           /\ Numbers(u) = Numbers(t \ p) \cup (q.min..q.maxp1 - 1)
           /\ AllWhole(t) /\ Whole(q.chain, q.min, q.maxp1) => AllWhole(u)
<1>1. Tree(t \ p) /\ Size(t) = Size(t \ p) + Size(p) /\ Size(t \ p) \in Nat /\ Size(p) \in Nat
  BY SizeSplit
<1>2. /\ Tree((t \ p) \cup {q})
      /\ Size((t \ p) \cup {q}) = Size(t \ p) + Len(q.chain)
  BY <1>1, TreeAdd
<1>3. Len(q.chain) \in Nat
  BY IntervalFacts
<1>4. Size((t \ p) \cup {q}) = Size(t) - Size(p) + Len(q.chain) /\ Size(t) \in Nat
  BY <1>1, <1>2, <1>3
<1>5. SamplesOf(t) = SamplesOf(t \ p) \cup SamplesOf(p)
  BY DEF SamplesOf
<1>6. SamplesOf((t \ p) \cup {q}) = SamplesOf(t \ p) \cup (ToSet(q.chain) \ {GAP})
  BY DEF SamplesOf
<1>7. Numbers(t) = Numbers(t \ p) \cup Numbers(p)
  BY DEF Numbers
<1>8. Numbers((t \ p) \cup {q}) = Numbers(t \ p) \cup (q.min..q.maxp1 - 1)
  BY DEF Numbers
<1>9. AllWhole(t) /\ Whole(q.chain, q.min, q.maxp1) => AllWhole((t \ p) \cup {q})
  BY DEF AllWhole
<1> QED BY <1>1, <1>2, <1>4, <1>5, <1>6, <1>7, <1>8, <1>9

\* A tree of no, one or two intervals.
LEMMA SmallTrees ==
    /\ Size({}) = 0 /\ SamplesOf({}) = {} /\ Numbers({}) = {}
    /\ \A v : SamplesOf({v}) = ToSet(v.chain) \ {GAP} /\ Numbers({v}) = v.min..v.maxp1 - 1
    /\ \A v, w : /\ SamplesOf({v, w}) = (ToSet(v.chain) \cup ToSet(w.chain)) \ {GAP}
                 /\ Numbers({v, w}) = (v.min..v.maxp1 - 1) \cup (w.min..w.maxp1 - 1)
    /\ \A v : Tree({v}) => Size({v}) = Len(v.chain)
    /\ \A v, w : Tree({v, w}) /\ v # w => Size({v, w}) = Len(v.chain) + Len(w.chain)
<1>1. Size({}) = 0
  BY SizeEmpty
<1>2. SamplesOf({}) = {} /\ Numbers({}) = {}
  BY DEF SamplesOf, Numbers
<1>3. ASSUME NEW v
      PROVE  SamplesOf({v}) = ToSet(v.chain) \ {GAP} /\ Numbers({v}) = v.min..v.maxp1 - 1
  BY DEF SamplesOf, Numbers
<1>4. ASSUME NEW v, NEW w
      PROVE  /\ SamplesOf({v, w}) = (ToSet(v.chain) \cup ToSet(w.chain)) \ {GAP}
             /\ Numbers({v, w}) = (v.min..v.maxp1 - 1) \cup (w.min..w.maxp1 - 1)
  BY DEF SamplesOf, Numbers
<1>5. ASSUME NEW v, Tree({v}) PROVE Size({v}) = Len(v.chain)
  <2>1. Size({v}) = Size({v} \ {v}) + Len(v.chain)
    BY <1>5, SizeRemove
  <2>2. {v} \ {v} = {}
    OBVIOUS
  <2>3. Len(v.chain) \in Nat
    BY <1>5, IntervalFacts DEF Tree
  <2>4. Size({v}) = 0 + Len(v.chain)
    BY <1>1, <2>1, <2>2
  <2> QED BY <2>3, <2>4
<1>6. ASSUME NEW v, NEW w, Tree({v, w}), v # w
      PROVE  Size({v, w}) = Len(v.chain) + Len(w.chain)
  <2>1. Size({v, w}) = Size({v, w} \ {w}) + Len(w.chain)
    BY <1>6, SizeRemove
  <2>2. {v, w} \ {w} = {v}
    BY <1>6
  <2>3. Tree({v})
    BY <1>6, SubTree
  <2> QED BY <1>5, <2>1, <2>2, <2>3
<1> QED BY <1>1, <1>2, <1>3, <1>4, <1>5, <1>6

\* Tree u is tree t with the sample s, which t does not cover.
Inserted(t, u, s) ==
    /\ Tree(u) /\ Size(u) = Size(t) + 1
    /\ SamplesOf(u) = SamplesOf(t) \cup {s} /\ Numbers(u) = Numbers(t) \cup {s}
    /\ \A n \in Int : n < s /\ (\A v \in t : n < v.min) => \A v \in u : n < v.min
    /\ AllWhole(t) => AllWhole(u)

\* s is stored in an interval of its own, ...
InsertedAlone(t, s) == t \cup {Singleton(s)}
\* ... behind the interval p, ...
InsertedBehind(t, p, s) == (t \ {p}) \cup {Append2(p, Singleton(s))}
\* ... before the interval v, ...
InsertedBefore(t, s, v) == (t \ {v}) \cup {Append2(Singleton(s), v)}
\* ... or between p and v.
InsertedBetween(t, p, s, v) ==
    (t \ {p, v}) \cup {Append2(Append2(p, Singleton(s)), v)}

\* The interval of one sample.
LEMMA SingletonFacts ==
    ASSUME NEW s \in Seqs
    PROVE  LET q == Singleton(s) IN
           /\ Interval(q) /\ q.min = s /\ q.maxp1 = s + 1 /\ ToSet(q.chain) = {s}
           /\ Len(q.chain) = 1 /\ Whole(q.chain, q.min, q.maxp1)
           /\ q.min..q.maxp1 - 1 = {s} /\ s \in Int /\ s # GAP
<1>1. s \in Int /\ s # GAP /\ MaxSeq \in Nat /\ s \in 1..MaxSeq
  BY ReorderAssumption DEF Seqs, GAP
<1>2. /\ Placed(<<s>>, s, s + 1) /\ Whole(<<s>>, s, s + 1)
      /\ Len(<<s>>) = 1 /\ ToSet(<<s>>) = {s}
  BY PlacedOne
<1>3. s + 1 \in 2..MaxSeq + 1
  BY <1>1
<1>4. Interval([min |-> s, maxp1 |-> s + 1, chain |-> <<s>>])
  BY <1>2, <1>3, IntervalOf
<1>5. s..s + 1 - 1 = {s}
  BY <1>1
<1> QED BY <1>1, <1>2, <1>4, <1>5 DEF Singleton

\* Replacing intervals by one with a single sample more.
LEMMA ReplacedByOneMore ==
    ASSUME NEW t, Tree(t), NEW p \in SUBSET t, NEW q, Interval(q), NEW s \in Seqs,
           \A w \in t \ p : w.maxp1 < q.min \/ q.maxp1 < w.min,
           Len(q.chain) = Size(p) + 1, ToSet(q.chain) \ {GAP} = SamplesOf(p) \cup {s},
           q.min..q.maxp1 - 1 = Numbers(p) \cup {s},
           q.min = s \/ \E v \in p : q.min = v.min,
           AllWhole(p) => Whole(q.chain, q.min, q.maxp1)
    PROVE  Inserted(t, (t \ p) \cup {q}, s)
<1> DEFINE u == (t \ p) \cup {q}
<1>1. /\ Tree(u) /\ Size(u) = Size(t) - Size(p) + Len(q.chain)
      /\ Size(t) \in Nat /\ Size(p) \in Nat
      /\ SamplesOf(t) = SamplesOf(t \ p) \cup SamplesOf(p)
      /\ SamplesOf(u) = SamplesOf(t \ p) \cup (ToSet(q.chain) \ {GAP})
      /\ Numbers(t) = Numbers(t \ p) \cup Numbers(p)
      /\ Numbers(u) = Numbers(t \ p) \cup (q.min..q.maxp1 - 1)
      /\ AllWhole(t) /\ Whole(q.chain, q.min, q.maxp1) => AllWhole(u)
  BY Replaced
<1>2. Size(u) = Size(t) + 1
  <2>1. \A a, b \in Nat : a - b + (b + 1) = a + 1
    OBVIOUS
  <2>2. Size(u) = Size(t) - Size(p) + (Size(p) + 1)
    BY <1>1
  <2> HIDE DEF u
  <2> QED BY <1>1, <2>1, <2>2
<1>3. SamplesOf(u) = SamplesOf(t) \cup {s} /\ Numbers(u) = Numbers(t) \cup {s}
  BY <1>1
<1>4. \A n \in Int : n < s /\ (\A v \in t : n < v.min) => \A v \in u : n < v.min
  OBVIOUS
<1>5. AllWhole(t) => AllWhole(u)
  BY <1>1 DEF AllWhole
<1> HIDE DEF u
<1>6. Inserted(t, u, s)
  BY <1>1, <1>2, <1>3, <1>4, <1>5 DEF Inserted
<1> QED BY <1>6 DEF u

\* A sample outside a tree that touches no interval becomes one.
LEMMA InsertAlone ==
    ASSUME NEW t, Tree(t), NEW s \in Seqs, \A w \in t : w.maxp1 < s \/ s + 1 < w.min
    PROVE  Inserted(t, InsertedAlone(t, s), s)
<1> DEFINE q == Singleton(s)
<1>1. /\ Interval(q) /\ q.min = s /\ q.maxp1 = s + 1 /\ ToSet(q.chain) = {s}
      /\ Len(q.chain) = 1 /\ Whole(q.chain, q.min, q.maxp1)
      /\ q.min..q.maxp1 - 1 = {s} /\ s # GAP
  BY SingletonFacts
<1> HIDE DEF q
<1>2. /\ \A w \in t \ {} : w.maxp1 < q.min \/ q.maxp1 < w.min
      /\ {} \in SUBSET t
  BY <1>1
<1>3. /\ Len(q.chain) = Size({}) + 1 /\ ToSet(q.chain) \ {GAP} = SamplesOf({}) \cup {s}
      /\ q.min..q.maxp1 - 1 = Numbers({}) \cup {s}
  BY <1>1, SmallTrees
<1>4. Inserted(t, (t \ {}) \cup {q}, s)
  BY <1>1, <1>2, <1>3, ReplacedByOneMore
<1>5. (t \ {}) \cup {q} = InsertedAlone(t, s)
  BY DEF InsertedAlone, q
<1> QED BY <1>4, <1>5

\* The sample that follows an interval, and does not touch the next, is linked behind it.
LEMMA InsertBehind ==
    ASSUME NEW t, Tree(t), NEW p \in t, NEW s \in Seqs, p.maxp1 = s,
           \A w \in t : w = p \/ w.maxp1 < s \/ s + 1 < w.min
    PROVE  /\ Inserted(t, InsertedBehind(t, p, s), s)
           /\ Append2(p, Singleton(s)).min = p.min
<1> DEFINE o == Singleton(s)
           q == Append2(p, o)
<1>1. /\ Interval(o) /\ o.min = s /\ o.maxp1 = s + 1 /\ ToSet(o.chain) = {s}
      /\ Len(o.chain) = 1 /\ Whole(o.chain, o.min, o.maxp1) /\ s # GAP /\ s \in Int
  BY SingletonFacts
<1> HIDE DEF o
<1>2. Interval(p) /\ p.min \in Int /\ p.min < s /\ Len(p.chain) \in Nat
  <2>1. Interval(p)
    BY DEF Tree
  <2> QED BY <2>1, IntervalFacts
<1>3. /\ Interval(q) /\ q.min = p.min /\ q.maxp1 = s + 1
      /\ Len(q.chain) = Len(p.chain) + 1 /\ ToSet(q.chain) = ToSet(p.chain) \cup {s}
      /\ Whole(p.chain, p.min, p.maxp1) => Whole(q.chain, q.min, q.maxp1)
  <2>1. p.maxp1 <= o.min
    BY <1>1
  <2>2. LET a == Append2(p, o) IN
        /\ Interval(a) /\ a.min = p.min /\ a.maxp1 = o.maxp1
        /\ Len(a.chain) = Len(p.chain) + Len(o.chain)
        /\ ToSet(a.chain) = ToSet(p.chain) \cup ToSet(o.chain)
        /\ /\ Whole(p.chain, p.min, p.maxp1) /\ Whole(o.chain, o.min, o.maxp1)
           /\ p.maxp1 = o.min
           => Whole(a.chain, a.min, a.maxp1)
    BY <1>1, <1>2, <2>1, AppendIntervals
  <2> QED BY <1>1, <2>2
<1> HIDE DEF q
<1>4. \A w \in t \ {p} : w.maxp1 < q.min \/ q.maxp1 < w.min
  <2> SUFFICES ASSUME NEW w \in t \ {p} PROVE w.maxp1 < q.min \/ q.maxp1 < w.min
    OBVIOUS
  <2>1. w.maxp1 < p.min \/ p.maxp1 < w.min
    BY DEF Tree, Apart
  <2>2. w.maxp1 < s \/ s + 1 < w.min
    OBVIOUS
  <2>3. w.min \in Int /\ w.maxp1 \in Int /\ w.min < w.maxp1
    BY IntervalFacts DEF Tree
  <2> QED BY <1>1, <1>2, <1>3, <2>1, <2>2, <2>3
<1>5. Tree({p}) /\ Size({p}) = Len(p.chain) /\ SamplesOf({p}) = ToSet(p.chain) \ {GAP}
      /\ Numbers({p}) = p.min..p.maxp1 - 1 /\ {p} \in SUBSET t
  BY SubTree, SmallTrees
<1>6. q.min..q.maxp1 - 1 = Numbers({p}) \cup {s}
  BY <1>1, <1>2, <1>3, <1>5
<1>7. AllWhole({p}) => Whole(q.chain, q.min, q.maxp1)
  BY <1>3 DEF AllWhole
<1>8. Len(q.chain) = Size({p}) + 1 /\ ToSet(q.chain) \ {GAP} = SamplesOf({p}) \cup {s}
  BY <1>1, <1>3, <1>5
<1>9. Inserted(t, (t \ {p}) \cup {q}, s)
  BY <1>3, <1>4, <1>5, <1>6, <1>7, <1>8, ReplacedByOneMore
<1> QED BY <1>3, <1>9 DEF InsertedBehind, q, o

\* The sample that precedes an interval, and does not touch the one before, is put at its
\* head.
LEMMA InsertBefore ==
    ASSUME NEW t, Tree(t), NEW s \in Seqs, NEW v \in t, v.min = s + 1,
           \A w \in t : w = v \/ w.maxp1 < s \/ s + 1 < w.min
    PROVE  /\ Inserted(t, InsertedBefore(t, s, v), s)
           /\ Append2(Singleton(s), v).min = s
<1> DEFINE o == Singleton(s)
           q == Append2(o, v)
<1>1. /\ Interval(o) /\ o.min = s /\ o.maxp1 = s + 1 /\ ToSet(o.chain) = {s}
      /\ Len(o.chain) = 1 /\ Whole(o.chain, o.min, o.maxp1) /\ s # GAP /\ s \in Int
  BY SingletonFacts
<1> HIDE DEF o
<1>2. Interval(v) /\ v.maxp1 \in Int /\ v.min < v.maxp1 /\ Len(v.chain) \in Nat
  <2>1. Interval(v)
    BY DEF Tree
  <2> QED BY <2>1, IntervalFacts
<1>3. /\ Interval(q) /\ q.min = s /\ q.maxp1 = v.maxp1
      /\ Len(q.chain) = Len(v.chain) + 1 /\ ToSet(q.chain) = ToSet(v.chain) \cup {s}
      /\ Whole(v.chain, v.min, v.maxp1) => Whole(q.chain, q.min, q.maxp1)
  <2>1. o.maxp1 <= v.min
    BY <1>1
  <2>2. LET a == Append2(o, v) IN
        /\ Interval(a) /\ a.min = o.min /\ a.maxp1 = v.maxp1
        /\ Len(a.chain) = Len(o.chain) + Len(v.chain)
        /\ ToSet(a.chain) = ToSet(o.chain) \cup ToSet(v.chain)
        /\ /\ Whole(o.chain, o.min, o.maxp1) /\ Whole(v.chain, v.min, v.maxp1)
           /\ o.maxp1 = v.min
           => Whole(a.chain, a.min, a.maxp1)
    BY <1>1, <1>2, <2>1, AppendIntervals
  <2>3. \A n \in Nat : 1 + n = n + 1
    OBVIOUS
  <2> QED BY <1>1, <1>2, <2>2, <2>3
<1> HIDE DEF q
<1>4. \A w \in t \ {v} : w.maxp1 < q.min \/ q.maxp1 < w.min
  <2> SUFFICES ASSUME NEW w \in t \ {v} PROVE w.maxp1 < q.min \/ q.maxp1 < w.min
    OBVIOUS
  <2>1. w.maxp1 < v.min \/ v.maxp1 < w.min
    BY DEF Tree, Apart
  <2>2. w.maxp1 < s \/ s + 1 < w.min
    OBVIOUS
  <2>3. w.min \in Int /\ w.maxp1 \in Int /\ w.min < w.maxp1
    BY IntervalFacts DEF Tree
  <2> QED BY <1>1, <1>2, <1>3, <2>1, <2>2, <2>3
<1>5. Tree({v}) /\ Size({v}) = Len(v.chain) /\ SamplesOf({v}) = ToSet(v.chain) \ {GAP}
      /\ Numbers({v}) = v.min..v.maxp1 - 1 /\ {v} \in SUBSET t
  BY SubTree, SmallTrees
<1>6. q.min..q.maxp1 - 1 = Numbers({v}) \cup {s}
  BY <1>1, <1>2, <1>3, <1>5
<1>7. AllWhole({v}) => Whole(q.chain, q.min, q.maxp1)
  BY <1>3 DEF AllWhole
<1>8. Len(q.chain) = Size({v}) + 1 /\ ToSet(q.chain) \ {GAP} = SamplesOf({v}) \cup {s}
  BY <1>1, <1>3, <1>5
<1>9. Inserted(t, (t \ {v}) \cup {q}, s)
  BY <1>3, <1>4, <1>5, <1>6, <1>7, <1>8, ReplacedByOneMore
<1> QED BY <1>3, <1>9 DEF InsertedBefore, q, o

\* The sample that fills the hole of one number between two intervals joins them.
LEMMA InsertBetween ==
    ASSUME NEW t, Tree(t), NEW p \in t, NEW s \in Seqs, p.maxp1 = s, NEW v \in t,
           v.min = s + 1, \A w \in t : w = p \/ w = v \/ w.maxp1 < s \/ s + 1 < w.min
    PROVE  /\ Inserted(t, InsertedBetween(t, p, s, v), s)
           /\ Append2(Append2(p, Singleton(s)), v).min = p.min
<1> DEFINE o == Singleton(s)
           a == Append2(p, o)
           q == Append2(a, v)
<1>1. /\ Interval(o) /\ o.min = s /\ o.maxp1 = s + 1 /\ ToSet(o.chain) = {s}
      /\ Len(o.chain) = 1 /\ Whole(o.chain, o.min, o.maxp1) /\ s # GAP /\ s \in Int
  BY SingletonFacts
<1> HIDE DEF o
<1>2. Interval(p) /\ p.min \in Int /\ p.min < s /\ Len(p.chain) \in Nat
  <2>1. Interval(p)
    BY DEF Tree
  <2> QED BY <2>1, IntervalFacts
<1>3. Interval(v) /\ v.maxp1 \in Int /\ v.min < v.maxp1 /\ Len(v.chain) \in Nat
  <2>1. Interval(v)
    BY DEF Tree
  <2> QED BY <2>1, IntervalFacts
<1>4. /\ Interval(a) /\ a.min = p.min /\ a.maxp1 = s + 1
      /\ Len(a.chain) = Len(p.chain) + 1 /\ ToSet(a.chain) = ToSet(p.chain) \cup {s}
      /\ Whole(p.chain, p.min, p.maxp1) => Whole(a.chain, a.min, a.maxp1)
  <2>1. p.maxp1 <= o.min
    BY <1>1
  <2>2. LET b == Append2(p, o) IN
        /\ Interval(b) /\ b.min = p.min /\ b.maxp1 = o.maxp1
        /\ Len(b.chain) = Len(p.chain) + Len(o.chain)
        /\ ToSet(b.chain) = ToSet(p.chain) \cup ToSet(o.chain)
        /\ /\ Whole(p.chain, p.min, p.maxp1) /\ Whole(o.chain, o.min, o.maxp1)
           /\ p.maxp1 = o.min
           => Whole(b.chain, b.min, b.maxp1)
    BY <1>1, <1>2, <2>1, AppendIntervals
  <2> QED BY <1>1, <2>2
<1> HIDE DEF a
<1>5. /\ Interval(q) /\ q.min = p.min /\ q.maxp1 = v.maxp1
      /\ Len(q.chain) = Len(p.chain) + 1 + Len(v.chain)
      /\ ToSet(q.chain) = ToSet(p.chain) \cup {s} \cup ToSet(v.chain)
      /\ Whole(p.chain, p.min, p.maxp1) /\ Whole(v.chain, v.min, v.maxp1)
           => Whole(q.chain, q.min, q.maxp1)
  <2>1. a.maxp1 <= v.min
    BY <1>1, <1>4
  <2>2. LET b == Append2(a, v) IN
        /\ Interval(b) /\ b.min = a.min /\ b.maxp1 = v.maxp1
        /\ Len(b.chain) = Len(a.chain) + Len(v.chain)
        /\ ToSet(b.chain) = ToSet(a.chain) \cup ToSet(v.chain)
        /\ /\ Whole(a.chain, a.min, a.maxp1) /\ Whole(v.chain, v.min, v.maxp1)
           /\ a.maxp1 = v.min
           => Whole(b.chain, b.min, b.maxp1)
    BY <1>3, <1>4, <2>1, AppendIntervals
  <2> QED BY <1>4, <2>2
<1> HIDE DEF q
<1>6. \A w \in t \ {p, v} : w.maxp1 < q.min \/ q.maxp1 < w.min
  <2> SUFFICES ASSUME NEW w \in t \ {p, v} PROVE w.maxp1 < q.min \/ q.maxp1 < w.min
    OBVIOUS
  <2>1. (w.maxp1 < p.min \/ p.maxp1 < w.min) /\ (w.maxp1 < v.min \/ v.maxp1 < w.min)
    BY DEF Tree, Apart
  <2>2. w.maxp1 < s \/ s + 1 < w.min
    OBVIOUS
  <2>3. w.min \in Int /\ w.maxp1 \in Int /\ w.min < w.maxp1
    BY IntervalFacts DEF Tree
  <2> QED BY <1>1, <1>2, <1>3, <1>5, <2>1, <2>2, <2>3
<1>7. p # v
  BY <1>1, <1>2
<1>8. /\ Tree({p, v}) /\ Size({p, v}) = Len(p.chain) + Len(v.chain) /\ {p, v} \in SUBSET t
      /\ SamplesOf({p, v}) = (ToSet(p.chain) \cup ToSet(v.chain)) \ {GAP}
      /\ Numbers({p, v}) = (p.min..p.maxp1 - 1) \cup (v.min..v.maxp1 - 1)
  <2>1. {p, v} \in SUBSET t
    OBVIOUS
  <2>2. Tree({p, v})
    BY <2>1, SubTree
  <2>3. Size({p, v}) = Len(p.chain) + Len(v.chain)
    BY <1>7, <2>2, SmallTrees
  <2>4. /\ SamplesOf({p, v}) = (ToSet(p.chain) \cup ToSet(v.chain)) \ {GAP}
        /\ Numbers({p, v}) = (p.min..p.maxp1 - 1) \cup (v.min..v.maxp1 - 1)
    BY SmallTrees
  <2> QED BY <2>1, <2>2, <2>3, <2>4
<1>9. q.min..q.maxp1 - 1 = Numbers({p, v}) \cup {s}
  <2>1. \A l, m, h \in Int : l < m /\ m + 1 < h =>
                 l..h - 1 = (l..m - 1) \cup (m + 1..h - 1) \cup {m}
    OBVIOUS
  <2>2. q.min..q.maxp1 - 1 = (p.min..s - 1) \cup (s + 1..v.maxp1 - 1) \cup {s}
    BY <1>1, <1>2, <1>3, <1>5, <2>1
  <2> QED BY <1>8, <2>2
<1>10. AllWhole({p, v}) => Whole(q.chain, q.min, q.maxp1)
  BY <1>5 DEF AllWhole
<1>11. Len(q.chain) = Size({p, v}) + 1
  <2>1. \A m, n \in Nat : m + 1 + n = m + n + 1
    OBVIOUS
  <2> QED BY <1>2, <1>3, <1>5, <1>8, <2>1
<1>12. ToSet(q.chain) \ {GAP} = SamplesOf({p, v}) \cup {s}
  BY <1>1, <1>5, <1>8
<1>13. Inserted(t, (t \ {p, v}) \cup {q}, s)
  BY <1>5, <1>6, <1>8, <1>9, <1>10, <1>11, <1>12, ReplacedByOneMore
<1> QED BY <1>5, <1>13 DEF InsertedBetween, q, a, o

\* What a gap touches is joined with it into one interval apart from the others, which has
\* the numbers of both and no other samples or chain elements than before.
LEMMA CoalescedFacts ==
    ASSUME Tree(ivs), NEW a \in Int, NEW b \in Int, 1 <= a, a < b, b <= MaxSeq + 1,
           Touching(a, b) # {}
    PROVE  LET T == Touching(a, b)
               c == Coalesced(a, b) IN
           /\ T \in SUBSET ivs /\ Interval(c) /\ c.min <= a /\ b <= c.maxp1
           /\ c.min = a \/ \E v \in T : c.min = v.min
           /\ \A v \in T : c.min <= v.min
           /\ Len(c.chain) = Size(T) /\ ToSet(c.chain) \ {GAP} = SamplesOf(T)
           /\ \A w \in ivs \ T : w.maxp1 < c.min \/ c.maxp1 < w.min
           /\ c.min..c.maxp1 - 1 = Numbers(T) \cup (a..b - 1)
<1> DEFINE T == Touching(a, b)
           j == Joined(T)
           c == Coalesced(a, b)
           l == LastIv(T)
<1>1. T \in SUBSET ivs /\ T # {} /\ \A v \in ivs : v \in T <=> v.maxp1 >= a /\ v.min <= b
  BY DEF Touching
<1>2. c = [min |-> IF a < j.min THEN a ELSE j.min,
           maxp1 |-> IF b > j.maxp1 THEN b ELSE j.maxp1, chain |-> j.chain]
  BY DEF Coalesced
<1> HIDE DEF T
<1>3. Tree(T)
  BY <1>1, SubTree
<1>4. /\ l \in T /\ \A w \in T : w.min <= l.min /\ (w # l => w.maxp1 < l.min)
  BY <1>1, <1>3, LastOfTree
<1>5. /\ Interval(j) /\ j.maxp1 = l.maxp1 /\ Len(j.chain) = Size(T)
      /\ \E v \in T : j.min = v.min /\ \A w \in T : v.min <= w.min
      /\ ToSet(j.chain) = UNION {ToSet(v.chain) : v \in T}
  <2>1. LET k == Joined(T) IN
        /\ Interval(k)
        /\ \E v \in T : k.min = v.min /\ \A w \in T : v.min <= w.min
        /\ k.maxp1 = LastIv(T).maxp1
        /\ Len(k.chain) = Size(T)
        /\ ToSet(k.chain) = UNION {ToSet(v.chain) : v \in T}
    BY <1>1, <1>3, JoinedTree
  <2> QED BY <2>1
<1> HIDE DEF j, c, l
<1>6. PICK f \in T : j.min = f.min /\ \A w \in T : f.min <= w.min
  BY <1>5
<1>7. ASSUME NEW v \in ivs
      PROVE  Interval(v) /\ v.min \in Int /\ v.maxp1 \in Int /\ v.min < v.maxp1
  BY IntervalFacts DEF Tree
<1>8. /\ j.min \in Int /\ j.maxp1 \in Int /\ 1 <= j.min /\ j.min < j.maxp1
      /\ j.maxp1 <= MaxSeq + 1 /\ MaxSeq \in Nat /\ j.min <= MaxSeq
      /\ Placed(j.chain, j.min, j.maxp1)
  BY <1>5, IntervalFacts DEF Interval
<1>9. /\ c.min = IF a < j.min THEN a ELSE j.min
      /\ c.maxp1 = IF b > j.maxp1 THEN b ELSE j.maxp1
      /\ c.chain = j.chain
  BY <1>2
<1>10. /\ c.min \in Int /\ c.maxp1 \in Int /\ c.min <= j.min /\ j.maxp1 <= c.maxp1
       /\ c.min <= a /\ b <= c.maxp1 /\ c.min \in Seqs /\ c.maxp1 \in 2..MaxSeq + 1
  BY <1>8, <1>9 DEF Seqs
<1>11. Interval(c)
  <2>1. Placed(c.chain, c.min, c.maxp1)
    BY <1>8, <1>9, <1>10, PlacedWider
  <2>2. c = [min |-> c.min, maxp1 |-> c.maxp1, chain |-> c.chain]
    BY <1>2
  <2>3. Interval([min |-> c.min, maxp1 |-> c.maxp1, chain |-> c.chain])
    BY <1>10, <2>1, IntervalOf
  <2> QED BY <2>2, <2>3
<1>12. c.min = a \/ c.min = f.min
  BY <1>6, <1>9
<1>13. \A v \in T : c.min <= v.min
  BY <1>1, <1>6, <1>7, <1>8, <1>10
<1>14. Len(c.chain) = Size(T) /\ ToSet(c.chain) \ {GAP} = SamplesOf(T)
  BY <1>5, <1>9 DEF SamplesOf
<1>15. ASSUME NEW w \in ivs \ T PROVE w.maxp1 < c.min \/ c.maxp1 < w.min
  <2>1. w.maxp1 < a \/ b < w.min
    BY <1>1, <1>7
  <2>2. CASE w.maxp1 < a
    <3>1. f \in ivs /\ f.maxp1 >= a /\ f # w
      BY <1>1, <1>6
    <3>2. w.maxp1 < f.min \/ f.maxp1 < w.min
      BY <3>1 DEF Tree, Apart
    <3>3. w.maxp1 < f.min
      BY <1>7, <2>2, <3>1, <3>2
    <3> QED BY <1>7, <1>12, <2>2, <3>3
  <2>3. CASE b < w.min
    <3>1. l \in ivs /\ l.min <= b /\ l # w
      BY <1>1, <1>4
    <3>2. w.maxp1 < l.min \/ l.maxp1 < w.min
      BY <3>1 DEF Tree, Apart
    <3>3. l.maxp1 < w.min
      BY <1>7, <2>3, <3>1, <3>2
    <3> QED BY <1>5, <1>7, <1>9, <2>3, <3>3
  <2> QED BY <2>1, <2>2, <2>3
<1>16. ASSUME NEW v \in T PROVE v.min..v.maxp1 - 1 \subseteq c.min..c.maxp1 - 1
  <2>1. v.maxp1 <= l.maxp1
    BY <1>1, <1>4, <1>7
  <2> QED BY <1>1, <1>4, <1>5, <1>7, <1>10, <1>13, <2>1
<1>17. ASSUME NEW x \in c.min..c.maxp1 - 1 PROVE x \in Numbers(T) \cup (a..b - 1)
  <2>1. CASE x < a
    <3>1. f \in ivs /\ f.maxp1 >= a /\ c.min = f.min
      BY <1>1, <1>6, <1>10, <1>12, <2>1
    <3>2. x \in f.min..f.maxp1 - 1
      BY <1>7, <1>10, <2>1, <3>1
    <3> QED BY <3>2 DEF Numbers
  <2>2. CASE x >= b
    <3>1. l \in ivs /\ l.min <= b /\ c.maxp1 = l.maxp1
      BY <1>1, <1>4, <1>5, <1>8, <1>9, <1>10, <2>2
    <3>2. x \in l.min..l.maxp1 - 1
      BY <1>7, <1>10, <2>2, <3>1
    <3> QED BY <1>4, <3>2 DEF Numbers
  <2> QED BY <2>1, <2>2
<1>18. c.min..c.maxp1 - 1 = Numbers(T) \cup (a..b - 1)
  <2>1. Numbers(T) \subseteq c.min..c.maxp1 - 1
    BY <1>16 DEF Numbers
  <2>2. a..b - 1 \subseteq c.min..c.maxp1 - 1
    BY <1>10
  <2> QED BY <1>17, <2>1, <2>2
<1> QED BY <1>1, <1>6, <1>10, <1>11, <1>12, <1>13, <1>14, <1>15, <1>18 DEF T, c

----------------------------------------------------------------------------
\* The inductive invariant

Inv ==
    /\ next \in 1..MaxSeq + 1
    /\ Tree(ivs) /\ \A v \in ivs : next < v.min
    /\ maxIv = MaxOf(ivs)
    /\ nSamples = Size(ivs) /\ nSamples <= MaxSamples
    /\ delivered \in Seq(Seqs) /\ Ordered(delivered)
    /\ \A x \in ToSet(delivered) : x < next
    /\ gone \subseteq Seqs
    /\ Mode # "normal" => ivs = {}

\* Tree t, the tree with what arrived in it, is stored, trimmed if there is no room.
Keeps(t) ==
    /\ Tree(t) /\ \A v \in t : next < v.min
    /\ Tree(ivs') /\ maxIv' = MaxOf(ivs') /\ Trimmed(t, ivs')
    /\ nSamples' = Size(ivs') /\ nSamples' <= MaxSamples
    /\ MaxSamples >= MaxSeq => ivs' = t
    /\ next' = next /\ delivered' = delivered /\ Mode = "normal"

\* The intervals of T, and of the samples outside the tree those of S, are handed over,
\* and everything below h is done with.
HandsOver(T, h, S) ==
    /\ T \in SUBSET ivs /\ h \in next + 1..MaxSeq + 1
    /\ (\A w \in ivs \ T : h < w.min) /\ \A w \in T : w.maxp1 <= h
    /\ next' = h /\ ivs' = ivs \ T /\ maxIv' = MaxOf(ivs') /\ nSamples' = Size(ivs')
    /\ \E q \in Seq(Seqs) :
          /\ Ordered(q) /\ ToSet(q) = SamplesOf(T) \cup S
          /\ \A x \in ToSet(q) : next <= x /\ x < h
          /\ delivered' = delivered \o q

\* What arrived changes nothing.
Ignores == UNCHANGED <<next, ivs, nSamples, maxIv, delivered>>

\* Two ascending sequences, one beyond the other, make an ascending sequence.
LEMMA OrderedLinked ==
    ASSUME NEW p \in Seq(Seqs), NEW q \in Seq(Seqs), Ordered(p), Ordered(q),
           \A x \in ToSet(p), y \in ToSet(q) : x < y
    PROVE  /\ p \o q \in Seq(Seqs) /\ Ordered(p \o q)
           /\ ToSet(p \o q) = ToSet(p) \cup ToSet(q)
<1>1. p \o q \in Seq(Seqs)
  OBVIOUS
<1>2. /\ Len(p \o q) = Len(p) + Len(q) /\ DOMAIN (p \o q) = 1..Len(p) + Len(q)
      /\ Len(p) \in Nat /\ Len(q) \in Nat /\ DOMAIN p = 1..Len(p) /\ DOMAIN q = 1..Len(q)
      /\ \A i \in 1..Len(p) + Len(q) :
            (p \o q)[i] = IF i <= Len(p) THEN p[i] ELSE q[i - Len(p)]
  OBVIOUS
<1>3. /\ \A i \in 1..Len(p) : i \in DOMAIN (p \o q) /\ (p \o q)[i] = p[i]
      /\ \A i \in 1..Len(q) : Len(p) + i \in DOMAIN (p \o q) /\ (p \o q)[Len(p) + i] = q[i]
  BY <1>2
<1>4. \A i \in 1..Len(p) + Len(q) : i \in 1..Len(p) \/ i - Len(p) \in 1..Len(q)
  BY <1>2
<1>5. ToSet(p \o q) = ToSet(p) \cup ToSet(q)
  <2>1. ASSUME NEW i \in 1..Len(p) + Len(q) PROVE (p \o q)[i] \in ToSet(p) \cup ToSet(q)
    <3>1. CASE i \in 1..Len(p)
      BY <1>2, <1>3, <3>1 DEF ToSet
    <3>2. CASE i - Len(p) \in 1..Len(q)
      <4>1. Len(p) + (i - Len(p)) = i
        BY <1>2
      <4> QED BY <1>2, <1>3, <3>2, <4>1 DEF ToSet
    <3> QED BY <1>4, <3>1, <3>2
  <2>2. ToSet(p \o q) \subseteq ToSet(p) \cup ToSet(q)
    BY <1>2, <2>1 DEF ToSet
  <2>3. ToSet(p) \subseteq ToSet(p \o q)
    BY <1>2, <1>3 DEF ToSet
  <2>4. ToSet(q) \subseteq ToSet(p \o q)
    <3>1. ASSUME NEW i \in 1..Len(q) PROVE q[i] \in ToSet(p \o q)
      BY <1>3 DEF ToSet
    <3> QED BY <1>2, <3>1 DEF ToSet
  <2> QED BY <2>2, <2>3, <2>4
<1>6. ASSUME NEW i \in 1..Len(p) + Len(q), NEW k \in 1..Len(p) + Len(q), i < k
      PROVE  (p \o q)[i] < (p \o q)[k]
  <2>1. CASE k <= Len(p)
    BY <1>2, <1>6, <2>1 DEF Ordered
  <2>2. CASE i <= Len(p) /\ k > Len(p)
    <3>1. i \in 1..Len(p) /\ k - Len(p) \in 1..Len(q)
      BY <1>2, <2>2
    <3>2. p[i] \in ToSet(p) /\ q[k - Len(p)] \in ToSet(q)
      BY <1>2, <3>1 DEF ToSet
    <3>3. (p \o q)[i] = p[i] /\ (p \o q)[k] = q[k - Len(p)]
      BY <1>2, <2>2
    <3> QED BY <3>2, <3>3
  <2>3. CASE i > Len(p)
    <3>1. /\ i - Len(p) \in 1..Len(q) /\ k - Len(p) \in 1..Len(q)
          /\ i - Len(p) < k - Len(p) /\ k > Len(p)
      BY <1>2, <1>6, <2>3
    <3>2. q[i - Len(p)] < q[k - Len(p)]
      BY <1>2, <3>1 DEF Ordered
    <3> QED BY <1>2, <2>3, <3>1, <3>2
  <2> QED BY <1>2, <2>1, <2>2, <2>3
<1>7. Ordered(p \o q)
  BY <1>2, <1>6 DEF Ordered
<1> QED BY <1>1, <1>5, <1>7

\* The samples of an interval's chain are handed over in order.
LEMMA SamplesHandedOver ==
    ASSUME NEW v, Interval(v)
    PROVE  LET q == Samples(v.chain) IN
           /\ q \in Seq(Seqs) /\ Ordered(q) /\ ToSet(q) = ToSet(v.chain) \ {GAP}
           /\ \A x \in ToSet(q) : v.min <= x /\ x < v.maxp1
<1>1. /\ v.chain \in Seq(Seqs \cup {GAP}) /\ Ascends(v.chain)
      /\ Placed(v.chain, v.min, v.maxp1) /\ v.min \in Int /\ v.maxp1 \in Int
  BY IntervalFacts DEF Interval, Placed
<1>2. /\ Samples(v.chain) \in Seq(Seqs) /\ Ordered(Samples(v.chain))
      /\ ToSet(Samples(v.chain)) = ToSet(v.chain) \ {GAP}
  BY <1>1, SamplesOfChain
<1>3. \A x \in ToSet(v.chain) : x # GAP => v.min <= x /\ x < v.maxp1
  BY <1>1, PlacedMembers
<1> QED BY <1>2, <1>3

\* The nodes the code finds at once: the first of the tree and max_sampleiv.
LEMMA NodesFound ==
    ASSUME Inv, ivs # {}
    PROVE  /\ MaxIvNode = LastIv(ivs) /\ LastIv(ivs) \in ivs /\ maxIv = LastIv(ivs).min
           /\ \A w \in ivs : w # LastIv(ivs) => w.maxp1 < LastIv(ivs).min
           /\ FirstIv \in ivs /\ \A w \in ivs : w # FirstIv => FirstIv.maxp1 < w.min
<1>1. Tree(ivs) /\ maxIv = MaxOf(ivs)
  BY DEF Inv
<1>2. /\ LastIv(ivs) \in ivs /\ MaxOf(ivs) = LastIv(ivs).min
      /\ \A w \in ivs : w # LastIv(ivs) => w.maxp1 < LastIv(ivs).min
  BY <1>1, LastOfTree
<1>3. (CHOOSE v \in ivs : v.min = LastIv(ivs).min) = LastIv(ivs)
  BY <1>1, <1>2, TreeNode
<1>4. MaxIvNode = LastIv(ivs)
  BY <1>1, <1>2, <1>3 DEF MaxIvNode
<1>5. PICK f \in ivs : \A w \in ivs : f.min <= w.min /\ (w # f => f.maxp1 < w.min)
  BY <1>1, FirstOfTree
<1>6. FirstIv \in ivs /\ \A w \in ivs : FirstIv.min <= w.min
  BY <1>5 DEF FirstIv
<1>7. \A v \in ivs : v.min \in Int /\ v.maxp1 \in Int /\ v.min < v.maxp1
  BY <1>1, IntervalFacts DEF Tree
<1>8. FirstIv = f
  BY <1>5, <1>6, <1>7
<1> QED BY <1>1, <1>2, <1>4, <1>5, <1>8

\* Storing preserves the invariant.
LEMMA KeepsInv ==
    ASSUME Inv, NEW t, Keeps(t), gone' \subseteq Seqs
    PROVE  Inv'
<1>1. next \in Int /\ \A v \in t : next < v.min
  BY DEF Keeps, Inv
<1>2. \A n \in Int : (\A v \in t : n < v.min) => \A v \in ivs' : n < v.min
  BY DEF Keeps, Trimmed
<1>3. \A v \in ivs' : next' < v.min
  BY <1>1, <1>2 DEF Keeps
<1>4. next' = next /\ delivered' = delivered /\ Mode = "normal"
  BY DEF Keeps
<1>5. /\ next' \in 1..MaxSeq + 1 /\ delivered' \in Seq(Seqs) /\ Ordered(delivered')
      /\ \A x \in ToSet(delivered') : x < next'
  BY <1>4 DEF Inv
<1>6. /\ Tree(ivs') /\ maxIv' = MaxOf(ivs')
      /\ nSamples' = Size(ivs') /\ nSamples' <= MaxSamples
  BY DEF Keeps
<1> QED BY <1>3, <1>4, <1>5, <1>6 DEF Inv

\* Handing over preserves the invariant.
LEMMA HandsOverInv ==
    ASSUME Inv, NEW T, NEW h, NEW S, HandsOver(T, h, S), gone' \subseteq Seqs
    PROVE  /\ Inv'
           /\ ToSet(delivered') = ToSet(delivered) \cup SamplesOf(T) \cup S
<1>1. PICK q \in Seq(Seqs) :
         /\ Ordered(q) /\ ToSet(q) = SamplesOf(T) \cup S
         /\ \A x \in ToSet(q) : next <= x /\ x < h
         /\ delivered' = delivered \o q
  BY DEF HandsOver
<1>2. /\ T \in SUBSET ivs /\ h \in next + 1..MaxSeq + 1 /\ (\A w \in ivs \ T : h < w.min)
      /\ next' = h /\ ivs' = ivs \ T /\ maxIv' = MaxOf(ivs') /\ nSamples' = Size(ivs')
  BY DEF HandsOver
<1>3. /\ next \in 1..MaxSeq + 1 /\ Tree(ivs) /\ nSamples = Size(ivs) /\ nSamples <= MaxSamples
      /\ delivered \in Seq(Seqs) /\ Ordered(delivered)
      /\ \A x \in ToSet(delivered) : x < next
      /\ MaxSeq \in Nat /\ MaxSamples \in Nat
  BY ReorderAssumption DEF Inv
<1>4. next' \in 1..MaxSeq + 1 /\ next < next'
  BY <1>2, <1>3
<1>5. Tree(ivs') /\ \A w \in ivs' : next' < w.min
  BY <1>2, <1>3, SubTree
<1>6. nSamples' <= MaxSamples
  <2>1. Size(ivs) = Size(ivs \ T) + Size(T) /\ Size(T) \in Nat /\ Size(ivs \ T) \in Nat
    BY <1>2, <1>3, SizeSplit
  <2>2. Size(ivs \ T) <= Size(ivs)
    BY <2>1
  <2> QED BY <1>2, <1>3, <2>1, <2>2
<1>7. /\ delivered' \in Seq(Seqs) /\ Ordered(delivered')
      /\ ToSet(delivered') = ToSet(delivered) \cup ToSet(q)
  <2>1. \A x \in ToSet(delivered), y \in ToSet(q) : x \in Int /\ y \in Int
    BY <1>3 DEF ToSet, Seqs
  <2>2. \A x \in ToSet(delivered), y \in ToSet(q) : x < y
    BY <1>1, <1>3, <2>1
  <2> QED BY <1>1, <1>3, <2>2, OrderedLinked
<1>8. \A x \in ToSet(delivered') : x < next'
  <2>1. \A x \in ToSet(delivered) : x \in Int
    BY <1>3 DEF ToSet, Seqs
  <2> QED BY <1>1, <1>2, <1>3, <1>4, <1>7, <2>1
<1>9. Mode # "normal" => ivs' = {}
  BY <1>2 DEF Inv
<1>10. Inv'
  BY <1>2, <1>4, <1>5, <1>6, <1>7, <1>8, <1>9 DEF Inv
<1> QED BY <1>1, <1>7, <1>10

----------------------------------------------------------------------------
\* What nn_reorder_rsample does, outcome by outcome

\* A sample that is stored: in a tree with all numbers of the old one, trimmed only if it
\* is not the last.
Stores(s) ==
    \E t : /\ Inserted(ivs, t, s) /\ Keeps(t) /\ s > next /\ s \notin Numbers(ivs)
           /\ ivs' = t \/ \E y \in Numbers(ivs) : s < y

\* Passing the tree with the new sample to StoreBounded stores it.
LEMMA StoreBoundedKeeps ==
    ASSUME Inv, NEW s \in Seqs, NEW t, Inserted(ivs, t, s), s > next, Mode = "normal",
           s \notin Numbers(ivs), StoreBounded(t, MaxOf(t)), UNCHANGED <<next, delivered>>,
           nSamples < MaxSamples \/ \E y \in Numbers(ivs) : s < y
    PROVE  Stores(s)
<1>1. /\ next \in Int /\ next >= 1 /\ nSamples = Size(ivs) /\ nSamples <= MaxSamples
      /\ Tree(ivs) /\ \A v \in ivs : next < v.min
  BY ReorderAssumption DEF Inv
<1>2. nSamples \in Nat
  BY <1>1, FiniteElements
<1>3. /\ Tree(t) /\ Size(t) = nSamples + 1 /\ t # {} /\ \A v \in t : next < v.min
  BY <1>1 DEF Inserted, Numbers
<1>4. \A v \in t : v.min > 1
  <2>1. \A v \in t : v.min \in Int
    BY <1>3, IntervalFacts DEF Tree
  <2> QED BY <1>1, <1>3, <2>1
<1>5. /\ Tree(ivs') /\ maxIv' = MaxOf(ivs') /\ Trimmed(t, ivs')
      /\ nSamples' = Size(ivs') /\ nSamples' <= MaxSamples
      /\ MaxSamples >= MaxSeq => ivs' = t
  BY <1>1, <1>2, <1>3, <1>4, StoreBoundedTree
<1>6. Keeps(t)
  BY <1>3, <1>5 DEF Keeps
<1>7. nSamples < MaxSamples => ivs' = t
  BY DEF StoreBounded
<1> QED BY <1>6, <1>7 DEF Stores

\* A sample that lets delivery go on up to h: the next one, unless holes are skipped.
HandsOverSample(s) ==
    \E T, h : /\ HandsOver(T, h, {s}) /\ next <= s /\ (Mode = "normal" => s = next)
              /\ s..h - 1 = {s} \cup Numbers(T)

\* A sample that is deliverable is handed over with the interval behind it.
LEMMA DeliverHandsOver ==
    ASSUME Inv, NEW s \in Seqs, NEW full, RsampleDeliver(s, full)
    PROVE  HandsOverSample(s)
<1> DEFINE o == Singleton(s)
           joins == maxIv # NoIv /\ FirstIv.min <= s + 1
           got == IF joins THEN Append2(o, FirstIv) ELSE o
           T == IF joins THEN {FirstIv} ELSE {}
<1>1. /\ next' = got.maxp1 /\ ivs' = IF joins THEN ivs \ {FirstIv} ELSE ivs
      /\ maxIv' = IF joins /\ FirstIv.min = maxIv THEN NoIv ELSE maxIv
      /\ nSamples' = nSamples - (Len(got.chain) - 1)
      /\ delivered' = delivered \o Samples(got.chain)
      /\ s = next \/ (s > next /\ Mode = "monotonic")
  BY DEF RsampleDeliver, DeliverNow
<1>2. /\ Interval(o) /\ o.min = s /\ o.maxp1 = s + 1 /\ ToSet(o.chain) = {s}
      /\ Len(o.chain) = 1 /\ s # GAP /\ s \in Int
  BY SingletonFacts
<1>3. /\ next \in 1..MaxSeq + 1 /\ MaxSeq \in Nat /\ Tree(ivs) /\ maxIv = MaxOf(ivs)
      /\ (\A v \in ivs : next < v.min) /\ nSamples = Size(ivs)
      /\ Mode = "monotonic" => ivs = {}
  BY ReorderAssumption DEF Inv
<1>4. next <= s /\ (Mode = "normal" => s = next) /\ s + 1 \in next + 1..MaxSeq + 1
  BY <1>1, <1>2, <1>3 DEF Seqs
<1>5. maxIv # NoIv <=> ivs # {}
  BY <1>3, MaxOfSome
<1> HIDE DEF o
<1>6. CASE joins
  <2>1. ivs # {} /\ s = next /\ FirstIv.min <= s + 1
    BY <1>1, <1>3, <1>5, <1>6
  <2>2. FirstIv \in ivs /\ \A w \in ivs : w # FirstIv => FirstIv.maxp1 < w.min
    BY <2>1, NodesFound
  <2>3. Interval(FirstIv) /\ next < FirstIv.min
    BY <1>3, <2>2 DEF Tree
  <2>4. /\ FirstIv.min \in Int /\ FirstIv.maxp1 \in Int /\ FirstIv.min < FirstIv.maxp1
        /\ FirstIv.maxp1 <= MaxSeq + 1 /\ Len(FirstIv.chain) \in Nat
    BY <2>3, IntervalFacts
  <2>5. FirstIv.min = s + 1
    BY <1>2, <2>1, <2>3, <2>4
  <2> DEFINE f == FirstIv
             g == Append2(o, f)
  <2> HIDE DEF f
  <2>6. /\ Interval(g) /\ g.min = s /\ g.maxp1 = f.maxp1
        /\ Len(g.chain) = 1 + Len(f.chain) /\ ToSet(g.chain) = {s} \cup ToSet(f.chain)
    <3>1. Interval(f) /\ o.maxp1 <= f.min
      BY <1>2, <2>3, <2>4, <2>5 DEF f
    <3>2. LET a == Append2(o, f) IN
          /\ Interval(a) /\ a.min = o.min /\ a.maxp1 = f.maxp1
          /\ Len(a.chain) = Len(o.chain) + Len(f.chain)
          /\ ToSet(a.chain) = ToSet(o.chain) \cup ToSet(f.chain)
      BY <1>2, <3>1, AppendIntervals
    <3> QED BY <1>2, <3>2
  <2>7. got = g /\ T = {f}
    BY <1>6 DEF f
  <2> HIDE DEF g, got, T, joins
  <2>8. /\ f.min = s + 1 /\ f.maxp1 \in Int /\ f.min < f.maxp1 /\ f.maxp1 <= MaxSeq + 1
        /\ f \in ivs /\ (\A w \in ivs : w # f => f.maxp1 < w.min) /\ Len(f.chain) \in Nat
        /\ Tree({f})
    BY <1>3, <2>2, <2>4, <2>5, SubTree DEF f
  <2>9. next' = f.maxp1 /\ ivs' = ivs \ T
    BY <1>1, <1>6, <2>6, <2>7 DEF f
  <2>10. maxIv' = MaxOf(ivs')
    <3>1. CASE f.min = maxIv
      <4>1. maxIv' = NoIv
        BY <1>1, <1>6, <3>1 DEF f
      <4>2. LastIv(ivs) \in ivs /\ maxIv = LastIv(ivs).min
            /\ \A w \in ivs : w # LastIv(ivs) => w.maxp1 < LastIv(ivs).min
        BY <2>1, NodesFound
      <4>3. LastIv(ivs) = f
        BY <1>3, <2>8, <3>1, <4>2, TreeNode
      <4>4. \A w \in ivs : w.min \in Int /\ w.maxp1 \in Int /\ w.min < w.maxp1
        BY <1>3, IntervalFacts DEF Tree
      <4>5. \A w \in ivs : w = f
        BY <2>8, <4>2, <4>3, <4>4
      <4>6. ivs' = {}
        BY <2>7, <2>9, <4>5
      <4> QED BY <4>1, <4>6 DEF MaxOf
    <3>2. CASE f.min # maxIv
      <4>1. maxIv' = maxIv
        BY <1>1, <3>2 DEF f
      <4>2. LastIv(ivs) \in ivs /\ maxIv = LastIv(ivs).min
            /\ \A w \in ivs : w # LastIv(ivs) => w.maxp1 < LastIv(ivs).min
        BY <2>1, NodesFound
      <4>3. Tree(ivs \ {f}) /\ LastIv(ivs) \in ivs \ {f}
        BY <1>3, <3>2, <4>2, SubTree
      <4>4. \A w \in ivs : w.min \in Int /\ w.maxp1 \in Int /\ w.min < w.maxp1
        BY <1>3, IntervalFacts DEF Tree
      <4>5. \A w \in ivs \ {f} : w.min <= LastIv(ivs).min
        BY <4>2, <4>4
      <4>6. MaxOf(ivs \ {f}) = LastIv(ivs).min
        BY <4>3, <4>5, LastIs
      <4> QED BY <2>7, <2>9, <4>1, <4>2, <4>6
    <3> QED BY <3>1, <3>2
  <2>11. nSamples' = Size(ivs')
    <3>1. Size(ivs) = Size(ivs \ {f}) + Len(f.chain) /\ Size(ivs \ {f}) \in Nat
      BY <1>3, <2>8, SizeRemove
    <3>2. nSamples' = Size(ivs \ {f}) + Len(f.chain) - (1 + Len(f.chain) - 1)
      BY <1>1, <1>3, <2>6, <2>7, <3>1
    <3>3. \A m, n \in Nat : m + n - (1 + n - 1) = m
      OBVIOUS
    <3> QED BY <2>7, <2>8, <2>9, <3>1, <3>2, <3>3
  <2>12. SamplesOf(T) = ToSet(f.chain) \ {GAP} /\ Numbers(T) = f.min..f.maxp1 - 1
    BY <2>7, SmallTrees
  <2> DEFINE q == Samples(g.chain)
  <2>13. /\ q \in Seq(Seqs) /\ Ordered(q) /\ ToSet(q) = SamplesOf(T) \cup {s}
         /\ \A x \in ToSet(q) : next <= x /\ x < f.maxp1
    <3>1. LET r == Samples(g.chain) IN
          /\ r \in Seq(Seqs) /\ Ordered(r) /\ ToSet(r) = ToSet(g.chain) \ {GAP}
          /\ \A x \in ToSet(r) : g.min <= x /\ x < g.maxp1
      BY <2>6, SamplesHandedOver
    <3> HIDE DEF q
    <3>2. /\ q \in Seq(Seqs) /\ Ordered(q) /\ ToSet(q) = ToSet(g.chain) \ {GAP}
          /\ \A x \in ToSet(q) : g.min <= x /\ x < g.maxp1
      BY <3>1 DEF q
    <3> QED BY <1>2, <2>1, <2>6, <2>12, <3>2
  <2>14. delivered' = delivered \o q
    BY <1>1, <2>7
  <2>15. \A w \in T : w.maxp1 <= f.maxp1
    BY <2>7, <2>8
  <2>16. f.maxp1 \in next + 1..MaxSeq + 1
    BY <1>2, <1>3, <2>1, <2>8
  <2>17. s..f.maxp1 - 1 = {s} \cup Numbers(T)
    BY <1>2, <2>8, <2>12
  <2>18. (\A w \in ivs \ T : f.maxp1 < w.min) /\ T \in SUBSET ivs
    BY <2>7, <2>8
  <2> HIDE DEF q
  <2>19. HandsOver(T, f.maxp1, {s})
    BY <2>9, <2>10, <2>11, <2>13, <2>14, <2>15, <2>16, <2>18 DEF HandsOver
  <2> QED BY <1>4, <2>17, <2>19 DEF HandsOverSample
<1>7. CASE ~joins
  <2>1. got = o /\ T = {}
    BY <1>7
  <2>2. \A w \in ivs : s + 1 < w.min
    <3> SUFFICES ASSUME NEW w \in ivs PROVE s + 1 < w.min
      OBVIOUS
    <3>1. ivs # {} /\ ~(FirstIv.min <= s + 1)
      BY <1>5, <1>7
    <3>2. FirstIv \in ivs /\ \A x \in ivs : x # FirstIv => FirstIv.maxp1 < x.min
      BY <3>1, NodesFound
    <3>3. \A x \in ivs : x.min \in Int /\ x.maxp1 \in Int /\ x.min < x.maxp1
      BY <1>3, IntervalFacts DEF Tree
    <3> QED BY <1>2, <3>1, <3>2, <3>3
  <2> HIDE DEF joins, got, T
  <2>3. next' = s + 1 /\ ivs' = ivs \ {} /\ maxIv' = MaxOf(ivs')
    BY <1>1, <1>2, <1>3, <1>7, <2>1
  <2>4. nSamples' = Size(ivs')
    <3>1. nSamples' = nSamples - (1 - 1) /\ nSamples = Size(ivs) /\ nSamples \in Nat
      BY <1>1, <1>2, <1>3, <2>1, FiniteElements
    <3>2. ivs' = ivs
      BY <2>3
    <3> QED BY <3>1, <3>2
  <2> DEFINE q == Samples(o.chain)
  <2>5. /\ q \in Seq(Seqs) /\ Ordered(q) /\ ToSet(q) = SamplesOf({}) \cup {s}
        /\ \A x \in ToSet(q) : next <= x /\ x < s + 1
    <3>1. LET r == Samples(o.chain) IN
          /\ r \in Seq(Seqs) /\ Ordered(r) /\ ToSet(r) = ToSet(o.chain) \ {GAP}
          /\ \A x \in ToSet(r) : o.min <= x /\ x < o.maxp1
      BY <1>2, SamplesHandedOver
    <3>2. SamplesOf({}) = {}
      BY SmallTrees
    <3> HIDE DEF q
    <3>3. /\ q \in Seq(Seqs) /\ Ordered(q) /\ ToSet(q) = {s}
      BY <1>2, <3>1 DEF q
    <3> QED BY <1>2, <1>4, <3>2, <3>3
  <2>6. delivered' = delivered \o q
    BY <1>1, <2>1
  <2>7. s..s + 1 - 1 = {s} \cup Numbers({})
    BY <1>2, SmallTrees
  <2> HIDE DEF q
  <2>8. (\A w \in ivs \ {} : s + 1 < w.min) /\ {} \in SUBSET ivs
    BY <2>2
  <2>9. HandsOver({}, s + 1, {s})
    BY <1>4, <2>3, <2>4, <2>5, <2>6, <2>8 DEF HandsOver
  <2> QED BY <1>4, <2>7, <2>9 DEF HandsOverSample
<1> QED BY <1>6, <1>7

\* The first sample that arrives ahead of a hole.
LEMMA FirstStores ==
    ASSUME Inv, NEW s \in Seqs, RsampleFirst(s)
    PROVE  Stores(s)
<1> DEFINE t == InsertedAlone(ivs, s)
<1>1. /\ s > next /\ Mode = "normal" /\ ivs = {} /\ ivs' = {Singleton(s)} /\ maxIv' = s
      /\ nSamples' = nSamples + 1 /\ UNCHANGED <<next, delivered>>
  BY ReorderAssumption DEF RsampleFirst, DeliverNow
<1>2. nSamples = 0 /\ 0 < MaxSamples /\ Tree(ivs)
  BY <1>1, SizeEmpty, ReorderAssumption DEF Inv
<1>3. Inserted(ivs, t, s)
  BY <1>1, <1>2, InsertAlone
<1>4. t = {Singleton(s)} /\ s \notin Numbers(ivs)
  BY <1>1, SmallTrees DEF InsertedAlone
<1>5. MaxOf(t) = s
  <2>1. Tree(t)
    BY <1>3 DEF Inserted
  <2>2. Singleton(s).min = s /\ s \in Int
    BY SingletonFacts
  <2>3. \A w \in t : w.min <= Singleton(s).min
    BY <1>4, <2>2
  <2>4. MaxOf(t) = Singleton(s).min
    BY <1>4, <2>1, <2>3, LastIs
  <2> QED BY <2>2, <2>4
<1> HIDE DEF t
<1>6. StoreBounded(t, MaxOf(t))
  BY <1>1, <1>2, <1>4, <1>5 DEF StoreBounded
<1> QED BY <1>1, <1>2, <1>3, <1>4, <1>6, StoreBoundedKeeps

\* A sample at or beyond the end of the last interval.
LEMMA AtEndStores ==
    ASSUME Inv, NEW s \in Seqs, NEW full, RsampleAtEnd(s, full)
    PROVE  Stores(s)
<1> DEFINE l == LastIv(ivs)
<1>1. /\ s > next /\ Mode = "normal" /\ ivs # {} /\ nSamples < MaxSamples
      /\ nSamples' = nSamples + 1 /\ UNCHANGED <<next, delivered>>
  BY ReorderAssumption DEF RsampleAtEnd, DeliverNow
<1>2. /\ MaxIvNode = l /\ l \in ivs /\ maxIv = l.min
      /\ \A w \in ivs : w # l => w.maxp1 < l.min
  BY <1>1, NodesFound
<1>3. \/ /\ s = l.maxp1 /\ maxIv' = maxIv
         /\ ivs' = (ivs \ {l}) \cup {Append2(l, Singleton(s))}
      \/ s > l.maxp1 /\ ivs' = ivs \cup {Singleton(s)} /\ maxIv' = s
  BY <1>2 DEF RsampleAtEnd
<1> HIDE DEF l
<1>4. /\ Tree(ivs) /\ s \in Int
      /\ \A w \in ivs : w.min \in Int /\ w.maxp1 \in Int /\ w.min < w.maxp1
  BY IntervalFacts, SingletonFacts DEF Inv, Tree
<1>5. \A w \in ivs : w = l \/ w.maxp1 < s
  BY <1>2, <1>3, <1>4
<1>6. s \notin Numbers(ivs)
  <2>1. \A w \in ivs : s \notin w.min..w.maxp1 - 1
    BY <1>3, <1>4, <1>5
  <2> QED BY <2>1 DEF Numbers
<1>7. CASE s = l.maxp1 /\ maxIv' = maxIv /\ ivs' = InsertedBehind(ivs, l, s)
  <2> DEFINE t == InsertedBehind(ivs, l, s)
             q == Append2(l, Singleton(s))
  <2>1. Inserted(ivs, t, s) /\ q.min = l.min
    BY <1>2, <1>4, <1>5, <1>7, InsertBehind
  <2>2. t = (ivs \ {l}) \cup {q}
    BY DEF InsertedBehind
  <2> HIDE DEF t, q
  <2>3. MaxOf(t) = l.min
    <3>1. Tree(t) /\ q \in t
      BY <2>1, <2>2 DEF Inserted
    <3>2. \A w \in t : w.min <= q.min
      BY <1>2, <1>4, <2>1, <2>2
    <3> QED BY <2>1, <3>1, <3>2, LastIs
  <2>4. StoreBounded(t, MaxOf(t))
    BY <1>1, <1>2, <1>7, <2>3 DEF StoreBounded, t
  <2> QED BY <1>1, <1>6, <2>1, <2>4, StoreBoundedKeeps
<1>8. CASE s > l.maxp1 /\ ivs' = InsertedAlone(ivs, s) /\ maxIv' = s
  <2> DEFINE t == InsertedAlone(ivs, s)
             q == Singleton(s)
  <2>1. \A w \in ivs : w.maxp1 < s \/ s + 1 < w.min
    BY <1>4, <1>5, <1>8
  <2>2. Inserted(ivs, t, s) /\ q.min = s
    BY <1>4, <2>1, InsertAlone, SingletonFacts
  <2>3. t = ivs \cup {q}
    BY DEF InsertedAlone
  <2> HIDE DEF t, q
  <2>4. MaxOf(t) = s
    <3>1. Tree(t) /\ q \in t
      BY <2>2, <2>3 DEF Inserted
    <3>2. \A w \in ivs : w.maxp1 < s
      BY <1>5, <1>8, <1>4
    <3>3. \A w \in t : w.min <= q.min
      BY <1>4, <2>2, <2>3, <3>2
    <3> QED BY <2>2, <3>1, <3>3, LastIs
  <2>5. StoreBounded(t, MaxOf(t))
    BY <1>1, <1>8, <2>4 DEF StoreBounded, t
  <2> QED BY <1>1, <1>6, <2>2, <2>5, StoreBoundedKeeps
<1> QED BY <1>3, <1>7, <1>8 DEF InsertedBehind, InsertedAlone

\* The hard case: a sample before the end of the last interval.
LEMMA MiddleStores ==
    ASSUME Inv, NEW s \in Seqs, NEW full, RsampleMiddle(s, full)
    PROVE  Stores(s)
<1> DEFINE l == LastIv(ivs)
           pred == {v \in ivs : v.maxp1 = s}
           succ == {v \in ivs : v.min = s + 1}
<1>1. /\ s > next /\ Mode = "normal" /\ ivs # {} /\ s < MaxIvNode.maxp1
      /\ \A v \in ivs : ~(v.min <= s /\ s < v.maxp1)
      /\ UNCHANGED <<next, delivered>>
  BY ReorderAssumption DEF RsampleMiddle, DeliverNow
<1>2. /\ MaxIvNode = l /\ l \in ivs /\ maxIv = l.min
      /\ \A w \in ivs : w # l => w.maxp1 < l.min
  BY <1>1, NodesFound
<1>3. \/ \E p \in pred :
           LET q    == Append2(p, Singleton(s))
               tree == IF succ = {} THEN (ivs \ {p}) \cup {q}
                       ELSE (ivs \ (pred \cup succ))
                              \cup {Append2(q, CHOOSE v \in succ : TRUE)}
           IN  StoreBounded(tree, IF \E v \in succ : v.min = maxIv THEN p.min ELSE maxIv)
      \/ /\ pred = {}
         /\ \E v \in succ : StoreBounded((ivs \ {v}) \cup {Append2(Singleton(s), v)},
                                         IF v.min = maxIv THEN s ELSE maxIv)
      \/ pred = {} /\ succ = {} /\ StoreBounded(ivs \cup {Singleton(s)}, maxIv)
  BY DEF RsampleMiddle
<1> HIDE DEF l
<1>4. /\ Tree(ivs) /\ s \in Int
      /\ \A w \in ivs : w.min \in Int /\ w.maxp1 \in Int /\ w.min < w.maxp1
  BY IntervalFacts, SingletonFacts DEF Inv, Tree
<1>5. \A w \in ivs : w.maxp1 < s \/ s + 1 < w.min \/ w \in pred \/ w \in succ
  BY <1>1, <1>4
<1>6. s \notin Numbers(ivs)
  <2>1. \A w \in ivs : s \notin w.min..w.maxp1 - 1
    BY <1>1, <1>4
  <2> QED BY <2>1 DEF Numbers
<1>7. \E y \in Numbers(ivs) : s < y
  <2>1. s < l.min /\ l.min \in l.min..l.maxp1 - 1
    BY <1>1, <1>2, <1>4
  <2> QED BY <1>2, <2>1 DEF Numbers
<1>8. \A p, v \in pred : p = v
  <2> SUFFICES ASSUME NEW p \in pred, NEW v \in pred PROVE p = v
    OBVIOUS
  <2>1. p = v \/ p.maxp1 < v.min \/ v.maxp1 < p.min
    BY <1>4 DEF Tree, Apart
  <2> QED BY <1>4, <2>1
<1>9. \A p, v \in succ : p = v
  BY <1>4, TreeNode
<1>10. l \notin pred /\ \A w \in ivs : w.min <= l.min
  BY <1>1, <1>2, <1>4
<1>11. ASSUME NEW t, Inserted(ivs, t, s), StoreBounded(t, MaxOf(t)) PROVE Stores(s)
  BY <1>1, <1>6, <1>7, <1>11, StoreBoundedKeeps
<1>12. ASSUME NEW p \in pred, succ = {}, StoreBounded((ivs \ {p}) \cup {Append2(p, Singleton(s))}, maxIv)
       PROVE  Stores(s)
  <2> DEFINE t == InsertedBehind(ivs, p, s)
             q == Append2(p, Singleton(s))
  <2>1. \A w \in ivs : w = p \/ w.maxp1 < s \/ s + 1 < w.min
    BY <1>5, <1>8, <1>12
  <2>2. Inserted(ivs, t, s) /\ q.min = p.min
    BY <1>4, <2>1, InsertBehind
  <2>3. t = (ivs \ {p}) \cup {q}
    BY DEF InsertedBehind
  <2> HIDE DEF t, q
  <2>4. MaxOf(t) = maxIv
    <3>1. Tree(t) /\ l \in t
      BY <1>2, <1>10, <2>2, <2>3 DEF Inserted
    <3>2. \A w \in t : w.min <= l.min
      BY <1>10, <2>2, <2>3
    <3> QED BY <1>2, <3>1, <3>2, LastIs
  <2>5. StoreBounded(t, MaxOf(t))
    BY <1>12, <2>3, <2>4 DEF q
  <2> QED BY <1>11, <2>2, <2>5
<1>13. ASSUME NEW p \in pred, NEW v \in succ,
              StoreBounded((ivs \ (pred \cup succ)) \cup {Append2(Append2(p, Singleton(s)), v)},
                           IF v.min = maxIv THEN p.min ELSE maxIv)
       PROVE  Stores(s)
  <2> DEFINE t == InsertedBetween(ivs, p, s, v)
             q == Append2(Append2(p, Singleton(s)), v)
  <2>1. \A w \in ivs : w = p \/ w = v \/ w.maxp1 < s \/ s + 1 < w.min
    BY <1>5, <1>8, <1>9
  <2>2. Inserted(ivs, t, s) /\ q.min = p.min
    BY <1>4, <2>1, InsertBetween
  <2>3. t = (ivs \ {p, v}) \cup {q} /\ pred \cup succ = {p, v}
    BY <1>8, <1>9 DEF InsertedBetween
  <2>4. p \in ivs /\ v \in ivs /\ p.maxp1 = s /\ v.min = s + 1
    OBVIOUS
  <2> HIDE DEF t, q, pred, succ
  <2>5. MaxOf(t) = IF v.min = maxIv THEN p.min ELSE maxIv
    <3>1. Tree(t) /\ q \in t
      BY <2>2, <2>3 DEF Inserted
    <3>2. CASE v.min = maxIv
      <4>1. v = l
        BY <1>2, <1>4, <2>4, <3>2, TreeNode
      <4>2. ASSUME NEW w \in ivs \ {p, v} PROVE w.min <= p.min
        <5>1. w.maxp1 < s \/ s + 1 < w.min
          BY <2>1
        <5>2. w.maxp1 < l.min /\ l.min = s + 1
          BY <1>2, <2>4, <4>1
        <5>3. w.maxp1 < p.min \/ s < w.min
          BY <1>4, <2>4 DEF Tree, Apart
        <5> QED BY <1>4, <2>4, <5>1, <5>2, <5>3
      <4>3. \A w \in t : w.min <= q.min
        BY <1>4, <2>2, <2>3, <2>4, <4>2
      <4> QED BY <2>2, <3>1, <3>2, <4>3, LastIs
    <3>3. CASE v.min # maxIv
      <4>1. l \in t
        BY <1>2, <1>10, <2>3, <3>3 DEF pred
      <4>2. \A w \in t : w.min <= l.min
        BY <1>10, <2>2, <2>3, <2>4
      <4> QED BY <1>2, <3>1, <3>3, <4>1, <4>2, LastIs
    <3> QED BY <3>2, <3>3
  <2>6. StoreBounded(t, MaxOf(t))
    BY <1>13, <2>3, <2>5 DEF q
  <2> QED BY <1>11, <2>2, <2>6
<1>14. ASSUME pred = {}, NEW v \in succ,
              StoreBounded((ivs \ {v}) \cup {Append2(Singleton(s), v)},
                           IF v.min = maxIv THEN s ELSE maxIv)
       PROVE  Stores(s)
  <2> DEFINE t == InsertedBefore(ivs, s, v)
             q == Append2(Singleton(s), v)
  <2>1. \A w \in ivs : w = v \/ w.maxp1 < s \/ s + 1 < w.min
    BY <1>5, <1>9, <1>14
  <2>2. Inserted(ivs, t, s) /\ q.min = s
    BY <1>4, <2>1, InsertBefore
  <2>3. t = (ivs \ {v}) \cup {q}
    BY DEF InsertedBefore
  <2>4. v \in ivs /\ v.min = s + 1
    OBVIOUS
  <2> HIDE DEF t, q, pred, succ
  <2>5. MaxOf(t) = IF v.min = maxIv THEN s ELSE maxIv
    <3>1. Tree(t) /\ q \in t
      BY <2>2, <2>3 DEF Inserted
    <3>2. CASE v.min = maxIv
      <4>1. v = l
        BY <1>2, <1>4, <2>4, <3>2, TreeNode
      <4>2. ASSUME NEW w \in ivs \ {v} PROVE w.min <= s
        <5>1. w.maxp1 < l.min /\ l.min = s + 1
          BY <1>2, <2>4, <4>1
        <5> QED BY <1>4, <2>4, <5>1
      <4>3. \A w \in t : w.min <= q.min
        BY <1>4, <2>2, <2>3, <2>4, <4>2
      <4> QED BY <2>2, <3>1, <3>2, <4>3, LastIs
    <3>3. CASE v.min # maxIv
      <4>1. l \in t
        BY <1>2, <2>3, <3>3
      <4>2. s <= l.min
        BY <1>4, <1>2, <1>10, <2>4
      <4>3. \A w \in t : w.min <= l.min
        BY <1>10, <2>2, <2>3, <4>2
      <4> QED BY <1>2, <3>1, <3>3, <4>1, <4>3, LastIs
    <3> QED BY <3>2, <3>3
  <2>6. StoreBounded(t, MaxOf(t))
    BY <1>14, <2>3, <2>5 DEF q
  <2> QED BY <1>11, <2>2, <2>6
<1>15. ASSUME pred = {}, succ = {}, StoreBounded(ivs \cup {Singleton(s)}, maxIv)
       PROVE  Stores(s)
  <2> DEFINE t == InsertedAlone(ivs, s)
             q == Singleton(s)
  <2>1. \A w \in ivs : w.maxp1 < s \/ s + 1 < w.min
    BY <1>5, <1>15
  <2>2. Inserted(ivs, t, s) /\ q.min = s
    BY <1>4, <2>1, InsertAlone, SingletonFacts
  <2>3. t = ivs \cup {q}
    BY DEF InsertedAlone
  <2> HIDE DEF t, q
  <2>4. MaxOf(t) = maxIv
    <3>1. Tree(t) /\ l \in t
      BY <1>2, <2>2, <2>3 DEF Inserted
    <3>2. s <= l.min
      BY <1>1, <1>2, <1>4
    <3>3. \A w \in t : w.min <= l.min
      BY <1>10, <2>2, <2>3, <3>2
    <3> QED BY <1>2, <3>1, <3>3, LastIs
  <2>5. StoreBounded(t, MaxOf(t))
    BY <1>15, <2>3, <2>4 DEF q
  <2> QED BY <1>11, <2>2, <2>5
<1>16. ASSUME NEW p \in pred,
              LET q    == Append2(p, Singleton(s))
                  tree == IF succ = {} THEN (ivs \ {p}) \cup {q}
                          ELSE (ivs \ (pred \cup succ))
                                 \cup {Append2(q, CHOOSE v \in succ : TRUE)}
              IN  StoreBounded(tree, IF \E v \in succ : v.min = maxIv THEN p.min ELSE maxIv)
       PROVE  Stores(s)
  <2>1. CASE succ = {}
    <3>1. StoreBounded((ivs \ {p}) \cup {Append2(p, Singleton(s))}, maxIv)
      <4>1. ~\E v \in succ : v.min = maxIv
        BY <2>1
      <4> HIDE DEF succ, pred
      <4> QED BY <1>16, <2>1, <4>1
    <3> QED BY <1>12, <2>1, <3>1
  <2>2. CASE succ # {}
    <3> DEFINE v == CHOOSE x \in succ : TRUE
    <3>1. v \in succ /\ ((\E x \in succ : x.min = maxIv) <=> v.min = maxIv)
      BY <1>9, <2>2
    <3>2. StoreBounded((ivs \ (pred \cup succ)) \cup {Append2(Append2(p, Singleton(s)), v)},
                       IF v.min = maxIv THEN p.min ELSE maxIv)
      <4> HIDE DEF succ, pred
      <4> QED BY <1>16, <2>2, <3>1
    <3> HIDE DEF v
    <3> QED BY <1>13, <3>1, <3>2
  <2> QED BY <2>1, <2>2
<1> QED BY <1>3, <1>14, <1>15, <1>16

----------------------------------------------------------------------------
\* What nn_reorder_gap does, outcome by outcome

\* A gap that is stored, in intervals of the old samples.
StoresGap(a, b) ==
    \E t : /\ Keeps(t) /\ a > next
           /\ SamplesOf(t) = SamplesOf(ivs) /\ Numbers(t) = Numbers(ivs) \cup (a..b - 1)

\* A gap that lets delivery go on up to h.
HandsOverGap(a, b) ==
    \E T, h : /\ HandsOver(T, h, {}) /\ b <= h /\ Mode = "normal"
              /\ next..h - 1 \subseteq Numbers(T) \cup (a..b - 1)

\* It delivers the intervals it touches.
LEMMA GapDeliversHandsOver ==
    ASSUME Inv, NEW a \in Int, NEW b \in Int, 1 <= a, a < b, b <= MaxSeq + 1,
           GapDelivers(a, b)
    PROVE  HandsOverGap(a, b)
<1> DEFINE T == Touching(a, b)
           c == Coalesced(a, b)
           q == Samples(c.chain)
<1>1. /\ b > next /\ Mode = "normal" /\ T # {} /\ c.min <= next
      /\ ivs' = ivs \ T /\ next' = c.maxp1 /\ maxIv' = MaxOf(ivs')
      /\ nSamples' = nSamples - Len(c.chain) /\ delivered' = delivered \o q
  BY DEF GapDelivers
<1>2. /\ next \in Int /\ Tree(ivs) /\ nSamples = Size(ivs) /\ \A w \in ivs : next < w.min
  BY DEF Inv
<1>3. /\ T \in SUBSET ivs /\ Interval(c) /\ b <= c.maxp1
      /\ Len(c.chain) = Size(T) /\ ToSet(c.chain) \ {GAP} = SamplesOf(T)
      /\ \A w \in ivs \ T : w.maxp1 < c.min \/ c.maxp1 < w.min
      /\ c.min..c.maxp1 - 1 = Numbers(T) \cup (a..b - 1)
  BY <1>1, <1>2, CoalescedFacts
<1>4. /\ q \in Seq(Seqs) /\ Ordered(q) /\ ToSet(q) = ToSet(c.chain) \ {GAP}
      /\ \A x \in ToSet(q) : x < c.maxp1
  <2>1. LET r == Samples(c.chain) IN
        /\ r \in Seq(Seqs) /\ Ordered(r) /\ ToSet(r) = ToSet(c.chain) \ {GAP}
        /\ \A x \in ToSet(r) : c.min <= x /\ x < c.maxp1
    BY <1>3, SamplesHandedOver
  <2> QED BY <2>1
<1> HIDE DEF T, c, q
<1>5. c.min \in Int /\ c.maxp1 \in Int /\ c.maxp1 <= MaxSeq + 1 /\ MaxSeq \in Nat
  BY <1>3, IntervalFacts
<1>6. \A w \in ivs : w.min \in Int /\ w.maxp1 \in Int /\ w.min < w.maxp1
  BY <1>2, IntervalFacts DEF Tree
<1>7. \A w \in ivs \ T : c.maxp1 < w.min
  <2> SUFFICES ASSUME NEW w \in ivs \ T PROVE c.maxp1 < w.min
    OBVIOUS
  <2>1. w \in ivs /\ next < w.min /\ c.min <= next
    BY <1>1, <1>2
  <2>2. w.maxp1 < c.min \/ c.maxp1 < w.min
    BY <1>3
  <2>3. w.min \in Int /\ w.maxp1 \in Int /\ w.min < w.maxp1
    BY <1>6, <2>1
  <2> QED BY <1>2, <1>5, <2>1, <2>2, <2>3
<1>8. ASSUME NEW w \in T PROVE w.maxp1 <= c.maxp1
  <2>1. w.maxp1 - 1 \in w.min..w.maxp1 - 1
    BY <1>3, <1>6
  <2>2. w.maxp1 - 1 \in c.min..c.maxp1 - 1
    BY <1>3, <2>1 DEF Numbers
  <2> QED BY <1>3, <1>5, <1>6, <2>2
<1>9. nSamples' = Size(ivs')
  <2>1. Size(ivs) = Size(ivs \ T) + Size(T) /\ Size(T) \in Nat /\ Size(ivs \ T) \in Nat
    BY <1>2, <1>3, SizeSplit
  <2>2. \A m, n \in Nat : m + n - n = m
    OBVIOUS
  <2>3. nSamples' = Size(ivs \ T) + Size(T) - Size(T)
    BY <1>1, <1>2, <1>3, <2>1
  <2> QED BY <1>1, <2>1, <2>2, <2>3
<1>10. \A x \in ToSet(q) : next <= x
  <2>1. \A w \in ivs : \A x \in w.min..w.maxp1 - 1 : next <= x
    BY <1>2, <1>6
  <2>2. \A x \in Numbers(ivs) : next <= x
    BY <2>1 DEF Numbers
  <2>3. Tree(T) /\ Numbers(T) \subseteq Numbers(ivs)
    BY <1>2, <1>3, SubTree DEF Numbers
  <2>4. SamplesOf(T) \subseteq Numbers(T)
    BY <2>3, SamplesAreNumbers
  <2> QED BY <1>3, <1>4, <2>2, <2>3, <2>4
<1>11. c.maxp1 \in next + 1..MaxSeq + 1
  BY <1>1, <1>2, <1>3, <1>5
<1>12. next..c.maxp1 - 1 \subseteq Numbers(T) \cup (a..b - 1)
  BY <1>1, <1>2, <1>3, <1>5
<1>13. ToSet(q) = SamplesOf(T) \cup {}
  BY <1>3, <1>4
<1>14. HandsOver(T, c.maxp1, {})
  BY <1>1, <1>3, <1>4, <1>7, <1>8, <1>9, <1>10, <1>11, <1>13 DEF HandsOver
<1> QED BY <1>1, <1>3, <1>12, <1>14 DEF HandsOverGap

\* Touching nothing, it moves the next expected sample to its end.
LEMMA GapAdvancesHandsOver ==
    ASSUME Inv, NEW a \in Int, NEW b \in Int, a < b, b <= MaxSeq + 1, GapAdvances(a, b)
    PROVE  HandsOverGap(a, b)
<1>1. /\ b > next /\ Mode = "normal" /\ Touching(a, b) = {} /\ a <= next /\ next' = b
      /\ ivs' = ivs /\ nSamples' = nSamples /\ maxIv' = maxIv /\ delivered' = delivered
  BY DEF GapAdvances
<1>2. /\ next \in Int /\ Tree(ivs) /\ nSamples = Size(ivs) /\ maxIv = MaxOf(ivs)
      /\ (\A w \in ivs : next < w.min) /\ delivered \in Seq(Seqs) /\ MaxSeq \in Nat
  BY ReorderAssumption DEF Inv
<1>3. \A w \in ivs : w.min \in Int /\ w.maxp1 \in Int /\ w.min < w.maxp1
  BY <1>2, IntervalFacts DEF Tree
<1>4. \A w \in ivs \ {} : b < w.min
  <2>1. \A w \in ivs : ~(w.maxp1 >= a /\ w.min <= b)
    BY <1>1 DEF Touching
  <2> QED BY <1>1, <1>2, <1>3, <2>1
<1>5. /\ <<>> \in Seq(Seqs) /\ Ordered(<<>>) /\ ToSet(<<>>) = {} /\ delivered \o <<>> = delivered
  BY <1>2 DEF Ordered, ToSet
<1>6. SamplesOf({}) = {}
  BY SmallTrees
<1>7. b \in next + 1..MaxSeq + 1 /\ next..b - 1 \subseteq a..b - 1 /\ ivs \ {} = ivs
      /\ {} \in SUBSET ivs
  BY <1>1, <1>2
<1>8. \E q \in Seq(Seqs) :
         /\ Ordered(q) /\ ToSet(q) = SamplesOf({}) \cup {}
         /\ \A x \in ToSet(q) : next <= x /\ x < b
         /\ delivered' = delivered \o q
  BY <1>1, <1>5, <1>6
<1>9. HandsOver({}, b, {})
  BY <1>1, <1>2, <1>4, <1>7, <1>8 DEF HandsOver
<1>10. next..b - 1 \subseteq Numbers({}) \cup (a..b - 1) /\ b <= b
  BY <1>1, <1>2, <1>7
<1> QED BY <1>1, <1>9, <1>10 DEF HandsOverGap

\* Beyond a hole, it joins the intervals it touches.
LEMMA GapCoalescesStores ==
    ASSUME Inv, NEW a \in Int, NEW b \in Int, 1 <= a, a < b, b <= MaxSeq + 1,
           GapCoalesces(a, b)
    PROVE  StoresGap(a, b)
<1> DEFINE T == Touching(a, b)
           c == Coalesced(a, b)
           t == (ivs \ T) \cup {c}
<1>1. /\ Mode = "normal" /\ T # {} /\ c.min > next /\ ivs' = t /\ maxIv' = MaxOf(ivs')
      /\ next' = next /\ nSamples' = nSamples /\ delivered' = delivered
  BY DEF GapCoalesces
<1>2. /\ next \in Int /\ Tree(ivs) /\ nSamples = Size(ivs) /\ nSamples <= MaxSamples
      /\ \A w \in ivs : next < w.min
  BY DEF Inv
<1>3. /\ T \in SUBSET ivs /\ Interval(c) /\ c.min <= a
      /\ Len(c.chain) = Size(T) /\ ToSet(c.chain) \ {GAP} = SamplesOf(T)
      /\ \A w \in ivs \ T : w.maxp1 < c.min \/ c.maxp1 < w.min
      /\ c.min..c.maxp1 - 1 = Numbers(T) \cup (a..b - 1)
  BY <1>1, <1>2, CoalescedFacts
<1> HIDE DEF T, c
<1>4. /\ Tree(t) /\ Size(t) = Size(ivs) - Size(T) + Len(c.chain)
      /\ Size(ivs) \in Nat /\ Size(T) \in Nat
      /\ SamplesOf(ivs) = SamplesOf(ivs \ T) \cup SamplesOf(T)
      /\ SamplesOf(t) = SamplesOf(ivs \ T) \cup (ToSet(c.chain) \ {GAP})
      /\ Numbers(ivs) = Numbers(ivs \ T) \cup Numbers(T)
      /\ Numbers(t) = Numbers(ivs \ T) \cup (c.min..c.maxp1 - 1)
  <2>1. /\ T \in SUBSET ivs /\ Interval(c)
        /\ \A w \in ivs \ T : w.maxp1 < c.min \/ c.maxp1 < w.min
    BY <1>3
  <2>2. Tree(ivs)
    BY <1>2
  <2> HIDE DEF t
  <2>3. LET u == (ivs \ T) \cup {c} IN
        /\ Tree(u) /\ Size(u) = Size(ivs) - Size(T) + Len(c.chain)
        /\ Size(ivs) \in Nat /\ Size(T) \in Nat
        /\ SamplesOf(ivs) = SamplesOf(ivs \ T) \cup SamplesOf(T)
        /\ SamplesOf(u) = SamplesOf(ivs \ T) \cup (ToSet(c.chain) \ {GAP})
        /\ Numbers(ivs) = Numbers(ivs \ T) \cup Numbers(T)
        /\ Numbers(u) = Numbers(ivs \ T) \cup (c.min..c.maxp1 - 1)
        /\ AllWhole(ivs) /\ Whole(c.chain, c.min, c.maxp1) => AllWhole(u)
    BY <2>1, <2>2, Replaced
  <2> QED BY <2>3 DEF t
<1>5. \A w \in t : next < w.min
  BY <1>1, <1>2
<1> HIDE DEF t
<1>6. Size(t) = nSamples
  <2>1. \A m, n \in Nat : m - n + n = m
    OBVIOUS
  <2>2. Size(t) = Size(ivs) - Size(T) + Size(T)
    BY <1>3, <1>4
  <2> QED BY <1>2, <1>4, <2>1, <2>2
<1>7. SamplesOf(t) = SamplesOf(ivs) /\ Numbers(t) = Numbers(ivs) \cup (a..b - 1)
  BY <1>3, <1>4
<1>8. a > next
  <2>1. c.min \in Int
    BY <1>3, IntervalFacts
  <2> QED BY <1>1, <1>2, <1>3, <2>1
<1>9. Keeps(t)
  BY <1>1, <1>2, <1>4, <1>5, <1>6, TrimmedNot DEF Keeps
<1> QED BY <1>7, <1>8, <1>9 DEF StoresGap

\* Touching nothing, it becomes an interval without samples.
LEMMA GapStoredStores ==
    ASSUME Inv, NEW a \in Int, NEW b \in Int, 1 <= a, a < b, b <= MaxSeq + 1,
           GapStored(a, b)
    PROVE  StoresGap(a, b)
<1> DEFINE q == [min |-> a, maxp1 |-> b, chain |-> <<GAP>>]
           t == ivs \cup {q}
<1>1. /\ Mode = "normal" /\ Touching(a, b) = {} /\ a > next /\ StoreBounded(t, MaxOf(t))
      /\ next' = next /\ delivered' = delivered
  BY DEF GapStored
<1>2. /\ next \in Int /\ next >= 1 /\ Tree(ivs) /\ nSamples = Size(ivs) /\ MaxSeq \in Nat
      /\ nSamples <= MaxSamples /\ \A w \in ivs : next < w.min
  BY ReorderAssumption DEF Inv
<1>3. /\ Interval(q) /\ q.min = a /\ q.maxp1 = b
      /\ Len(q.chain) = 1 /\ ToSet(q.chain) \ {GAP} = {}
  <2>1. Placed(<<GAP>>, a, b) /\ Len(<<GAP>>) = 1 /\ ToSet(<<GAP>>) = {GAP}
    BY PlacedOne
  <2>2. a \in Seqs /\ b \in 2..MaxSeq + 1
    BY <1>2 DEF Seqs
  <2> QED BY <2>1, <2>2, IntervalOf
<1> HIDE DEF q
<1>4. \A w \in ivs \ {} : w.maxp1 < q.min \/ q.maxp1 < w.min
  <2>1. \A w \in ivs : ~(w.maxp1 >= a /\ w.min <= b)
    BY <1>1 DEF Touching
  <2>2. \A w \in ivs : w.min \in Int /\ w.maxp1 \in Int
    BY <1>2, IntervalFacts DEF Tree
  <2> QED BY <1>3, <2>1, <2>2
<1>5. {} \in SUBSET ivs /\ (ivs \ {}) \cup {q} = t /\ ivs \ {} = ivs
  OBVIOUS
<1>6. /\ Tree((ivs \ {}) \cup {q})
      /\ Size((ivs \ {}) \cup {q}) = Size(ivs) - Size({}) + Len(q.chain)
      /\ Size(ivs) \in Nat
      /\ SamplesOf((ivs \ {}) \cup {q}) = SamplesOf(ivs \ {}) \cup (ToSet(q.chain) \ {GAP})
      /\ Numbers((ivs \ {}) \cup {q}) = Numbers(ivs \ {}) \cup (q.min..q.maxp1 - 1)
  <2>1. {} \in SUBSET ivs /\ Interval(q) /\ Tree(ivs)
    BY <1>2, <1>3
  <2>2. LET u == (ivs \ {}) \cup {q} IN
        /\ Tree(u) /\ Size(u) = Size(ivs) - Size({}) + Len(q.chain)
        /\ Size(ivs) \in Nat /\ Size({}) \in Nat
        /\ SamplesOf(ivs) = SamplesOf(ivs \ {}) \cup SamplesOf({})
        /\ SamplesOf(u) = SamplesOf(ivs \ {}) \cup (ToSet(q.chain) \ {GAP})
        /\ Numbers(ivs) = Numbers(ivs \ {}) \cup Numbers({})
        /\ Numbers(u) = Numbers(ivs \ {}) \cup (q.min..q.maxp1 - 1)
        /\ AllWhole(ivs) /\ Whole(q.chain, q.min, q.maxp1) => AllWhole(u)
    BY <1>4, <2>1, Replaced
  <2> QED BY <2>2
<1>7. \A w \in t : next < w.min
  BY <1>1, <1>2, <1>3
<1>8. t # {}
  OBVIOUS
<1> HIDE DEF t
<1>9. Tree(t) /\ Size(t) = Size(ivs) - 0 + 1 /\ Size(ivs) \in Nat
  BY <1>3, <1>5, <1>6, SizeEmpty
<1>10. SamplesOf(t) = SamplesOf(ivs) /\ Numbers(t) = Numbers(ivs) \cup (a..b - 1)
  BY <1>3, <1>5, <1>6
<1>11. nSamples \in Nat /\ Size(t) = nSamples + 1
  BY <1>2, <1>9
<1>12. \A w \in t : w.min > 1
  <2>1. \A w \in t : w.min \in Int
    BY <1>9, IntervalFacts DEF Tree
  <2> QED BY <1>2, <1>7, <2>1
<1>13. /\ Tree(ivs') /\ maxIv' = MaxOf(ivs') /\ Trimmed(t, ivs')
       /\ nSamples' = Size(ivs') /\ nSamples' <= MaxSamples
       /\ MaxSamples >= MaxSeq => ivs' = t
  BY <1>1, <1>2, <1>8, <1>9, <1>11, <1>12, StoreBoundedTree
<1>14. Keeps(t)
  BY <1>1, <1>7, <1>9, <1>13 DEF Keeps
<1> QED BY <1>1, <1>10, <1>14 DEF StoresGap

----------------------------------------------------------------------------
\* The invariant is one

\* What a gap may be.
LEMMA GapNumbers ==
    ASSUME NEW g \in Gaps
    PROVE  /\ g[1] \in Int /\ g[2] \in Int /\ 1 <= g[1] /\ g[1] < g[2] /\ g[2] <= MaxSeq + 1
           /\ g[1]..g[2] - 1 \subseteq Seqs
<1>1. g \in (1..MaxSeq) \X (2..MaxSeq + 1) /\ g[1] < g[2] /\ MaxSeq \in Nat
  BY ReorderAssumption
<1>2. g[1] \in 1..MaxSeq /\ g[2] \in 2..MaxSeq + 1
  BY <1>1
<1> QED BY <1>1, <1>2 DEF Seqs

\* Every step ignores, stores or hands over what arrived.
LEMMA StepKinds ==
    ASSUME Inv, Next
    PROVE  \/ \E s \in Seqs : /\ Ignores \/ Stores(s) \/ HandsOverSample(s)
                              /\ gone' = gone
           \/ \E g \in Gaps :
                 /\ Ignores \/ StoresGap(g[1], g[2]) \/ HandsOverGap(g[1], g[2])
                 /\ gone' = gone \cup (g[1]..g[2] - 1)
<1>1. CASE Rsample
  <2>1. PICK s \in Seqs, full \in BOOLEAN :
           \/ RsampleDeliver(s, full) \/ RsampleReject(s, full)
           \/ RsampleFirst(s) \/ RsampleAtEnd(s, full) \/ RsampleMiddle(s, full)
    BY <1>1 DEF Rsample
  <2>2. CASE RsampleDeliver(s, full)
    BY <2>2, DeliverHandsOver DEF RsampleDeliver
  <2>3. CASE RsampleReject(s, full)
    BY <2>3 DEF RsampleReject, vars, Ignores
  <2>4. CASE RsampleFirst(s)
    BY <2>4, FirstStores DEF RsampleFirst
  <2>5. CASE RsampleAtEnd(s, full)
    BY <2>5, AtEndStores DEF RsampleAtEnd
  <2>6. CASE RsampleMiddle(s, full)
    BY <2>6, MiddleStores DEF RsampleMiddle
  <2> QED BY <2>1, <2>2, <2>3, <2>4, <2>5, <2>6
<1>2. CASE Gap
  <2>1. PICK g \in Gaps :
           /\ \/ GapIgnored(g[1], g[2]) \/ GapDelivers(g[1], g[2]) \/ GapAdvances(g[1], g[2])
              \/ GapCoalesces(g[1], g[2]) \/ GapStored(g[1], g[2])
              \/ GapRejected(g[1], g[2])
           /\ gone' = gone \cup (g[1]..g[2] - 1)
    BY <1>2 DEF Gap
  <2>2. /\ g[1] \in Int /\ g[2] \in Int /\ 1 <= g[1] /\ g[1] < g[2] /\ g[2] <= MaxSeq + 1
    BY GapNumbers
  <2>3. CASE GapIgnored(g[1], g[2]) \/ GapRejected(g[1], g[2])
    BY <2>1, <2>3 DEF GapIgnored, GapRejected, Ignores
  <2>4. CASE GapDelivers(g[1], g[2])
    BY <2>1, <2>2, <2>4, GapDeliversHandsOver
  <2>5. CASE GapAdvances(g[1], g[2])
    BY <2>1, <2>2, <2>5, GapAdvancesHandsOver
  <2>6. CASE GapCoalesces(g[1], g[2])
    BY <2>1, <2>2, <2>6, GapCoalescesStores
  <2>7. CASE GapStored(g[1], g[2])
    BY <2>1, <2>2, <2>7, GapStoredStores
  <2> QED BY <2>1, <2>3, <2>4, <2>5, <2>6, <2>7
<1> QED BY <1>1, <1>2 DEF Next

\* An ignored arrival preserves the invariant.
LEMMA IgnoresInv == ASSUME Inv, Ignores, gone' \subseteq Seqs PROVE Inv'
BY DEF Inv, Ignores

\* It holds at first and every step preserves it.
LEMMA InitInv == Init => Inv
<1> SUFFICES ASSUME Init PROVE Inv
  OBVIOUS
<1>1. next = 1 /\ ivs = {} /\ nSamples = 0 /\ maxIv = NoIv /\ delivered = <<>> /\ gone = {}
  BY DEF Init
<1>2. next \in 1..MaxSeq + 1 /\ 0 <= MaxSamples
  BY <1>1, ReorderAssumption
<1>3. Tree({}) /\ MaxOf({}) = NoIv
  BY FS_EmptySet DEF Tree, Apart, MaxOf
<1>4. delivered \in Seq(Seqs) /\ Ordered(delivered) /\ ToSet(delivered) = {}
  BY <1>1 DEF Ordered, ToSet
<1> QED BY <1>1, <1>2, <1>3, <1>4, SizeEmpty DEF Inv

\* Each step preserves the invariant.
LEMMA StepInv == Inv /\ [Next]_vars => Inv'
<1> SUFFICES ASSUME Inv, [Next]_vars PROVE Inv'
  OBVIOUS
<1>1. gone \subseteq Seqs
  BY DEF Inv
<1>2. CASE UNCHANGED vars
  BY <1>2 DEF Inv, vars
<1>3. CASE Next
  <2>1. ASSUME NEW s \in Seqs, gone' = gone, Stores(s) PROVE Inv'
    BY <1>1, <2>1, KeepsInv DEF Stores
  <2>2. ASSUME NEW s \in Seqs, gone' = gone, HandsOverSample(s) PROVE Inv'
    BY <1>1, <2>2, HandsOverInv DEF HandsOverSample
  <2>3. \A g \in Gaps : gone \cup (g[1]..g[2] - 1) \subseteq Seqs
    BY <1>1, GapNumbers
  <2>4. ASSUME NEW a, NEW b, gone' \subseteq Seqs, StoresGap(a, b) PROVE Inv'
    BY <2>4, KeepsInv DEF StoresGap
  <2>5. ASSUME NEW a, NEW b, gone' \subseteq Seqs, HandsOverGap(a, b) PROVE Inv'
    BY <2>5, HandsOverInv DEF HandsOverGap
  <2> QED BY <1>1, <1>3, <2>1, <2>2, <2>3, <2>4, <2>5, StepKinds, IgnoresInv
<1> QED BY <1>2, <1>3

\* In every reachable state the stored intervals are a tree beyond the next expected
\* sample, their chains ascend, and n_samples and max_sampleiv agree with them.
THEOREM Invariance == Spec => []Inv
<1>1. Init => Inv
  BY InitInv
<1>2. Inv /\ [Next]_vars => Inv'
  BY StepInv
<1> QED BY <1>1, <1>2, PTL DEF Spec

\* The state has its type: n_samples never exceeds max_samples, for one.
THEOREM TypeCorrect == Spec => []TypeOK
<1>1. Inv => TypeOK
  <2> SUFFICES ASSUME Inv PROVE TypeOK
    OBVIOUS
  <2>1. next \in 1..MaxSeq + 1 /\ delivered \in Seq(Seqs) /\ gone \subseteq Seqs /\ Tree(ivs)
    BY DEF Inv
  <2>2. ivs \subseteq [min : Seqs, maxp1 : 2..MaxSeq + 1, chain : Seq(Seqs \cup {GAP})]
    BY <2>1 DEF Tree, Interval
  <2>3. nSamples \in 0..MaxSamples
    <3>1. Size(ivs) \in Nat /\ MaxSamples \in Nat
      BY <2>1, FiniteElements, ReorderAssumption
    <3> QED BY <3>1 DEF Inv
  <2>4. maxIv \in Seqs \cup {NoIv}
    <3>1. CASE ivs = {}
      BY <3>1 DEF Inv, MaxOf
    <3>2. CASE ivs # {}
      <4>1. LastIv(ivs) \in ivs /\ maxIv = LastIv(ivs).min
        BY <3>2, NodesFound
      <4> QED BY <2>2, <4>1
    <3> QED BY <3>1, <3>2
  <2> QED BY <2>1, <2>2, <2>3, <2>4 DEF TypeOK
<1> QED BY <1>1, Invariance, PTL

\* The intervals are not empty, lie beyond the next expected sample and apart, and both
\* cached values agree with the tree: what nn_reorder_rsample asserts when it begins.
THEOREM TreeKept == Spec => []IntervalsWellFormed
<1>1. Inv => IntervalsWellFormed
  <2> SUFFICES ASSUME Inv PROVE IntervalsWellFormed
    OBVIOUS
  <2>1. Tree(ivs) /\ maxIv = MaxOf(ivs) /\ nSamples = Size(ivs) /\ \A v \in ivs : next < v.min
    BY DEF Inv
  <2>2. ASSUME NEW v \in ivs PROVE v.min < v.maxp1 /\ v.chain # <<>>
    <3>1. v.min < v.maxp1 /\ Len(v.chain) \in Nat /\ Len(v.chain) >= 1
      BY <2>1, IntervalFacts DEF Tree
    <3> QED BY <3>1
  <2>3. nSamples = Cardinality(Elements)
    BY <2>1 DEF Size, ElementsOf, Elements
  <2> QED BY <2>1, <2>2, <2>3 DEF IntervalsWellFormed, Tree, Apart
<1> QED BY <1>1, Invariance, PTL

\* Whatever arrives in whatever order, samples come out in the writer's order and at most
\* once.
THEOREM DeliversInOrder == Spec => []DeliveredInOrder
<1>1. Inv => DeliveredInOrder
  BY DEF Inv, Ordered, DeliveredInOrder
<1> QED BY <1>1, Invariance, PTL

\* max_samples is enforced at the expense of the highest sequence numbers only.
THEOREM DropsTheHighest == Spec => PrefersLowest
<1> DEFINE Rule == \A s \in StoredSamples :
                      \/ s \in StoredSamples' \/ s \in ToSet(delivered')
                      \/ \A t \in StoredSamples' : t < s
<1>1. StoredSamples = SamplesOf(ivs) /\ StoredSamples' = SamplesOf(ivs')
  BY DEF StoredSamples, SamplesOf
<1>2. ASSUME NEW t, Keeps(t), SamplesOf(ivs) \subseteq SamplesOf(t) PROVE Rule
  <2>1. \A s \in SamplesOf(t) \ SamplesOf(ivs') : \A x \in SamplesOf(ivs') : x < s
    BY <1>2 DEF Keeps, Trimmed
  <2> QED BY <1>1, <1>2, <2>1
<1>3. ASSUME Inv, NEW T, NEW h, NEW S, HandsOver(T, h, S), gone' \subseteq Seqs PROVE Rule
  <2>1. ToSet(delivered') = ToSet(delivered) \cup SamplesOf(T) \cup S
    BY <1>3, HandsOverInv
  <2>2. ivs' = ivs \ T
    BY <1>3 DEF HandsOver
  <2>3. SamplesOf(ivs) \subseteq SamplesOf(ivs \ T) \cup SamplesOf(T)
    BY DEF SamplesOf
  <2> QED BY <1>1, <2>1, <2>2, <2>3
<1>4. Inv /\ [Next]_vars => [Rule]_vars
  <2> SUFFICES ASSUME Inv, Next PROVE Rule
    OBVIOUS
  <2>1. gone' \subseteq Seqs
    BY StepInv DEF Inv
  <2>2. ASSUME Ignores PROVE Rule
    BY <1>1, <2>2 DEF Ignores
  <2>3. ASSUME NEW s \in Seqs, Stores(s) PROVE Rule
    BY <1>2, <2>3 DEF Stores, Inserted
  <2>4. ASSUME NEW s \in Seqs, HandsOverSample(s) PROVE Rule
    BY <1>3, <2>1, <2>4 DEF HandsOverSample
  <2>5. ASSUME NEW a, NEW b, StoresGap(a, b) PROVE Rule
    BY <1>2, <2>5 DEF StoresGap
  <2>6. ASSUME NEW a, NEW b, HandsOverGap(a, b) PROVE Rule
    BY <1>3, <2>1, <2>6 DEF HandsOverGap
  <2> HIDE DEF Rule
  <2> QED BY <2>2, <2>3, <2>4, <2>5, <2>6, StepKinds
<1> HIDE DEF Rule
<1>5. Spec => [][Rule]_vars
  BY <1>4, Invariance, PTL DEF Spec
<1> QED BY <1>5 DEF PrefersLowest, Rule

----------------------------------------------------------------------------
\* Nothing is passed over

\* Where trimming loses nothing: if only heartbeats announce gaps, as [1, b), no gap is
\* ever stored and a trimmed chain ends where its interval does; and with room for all
\* samples there is no trimming.  Without it NoSilentLoss is false (reorder_gaps_full).
FromFirst == \A g \in Gaps : g[1] = 1
Fits == FromFirst \/ MaxSamples >= MaxSeq

\* All that is done with was delivered or announced, and so is or was all that is stored.
Covered ==
    /\ Mode = "normal" => /\ NoSilentLoss
                          /\ Numbers(ivs) \subseteq SamplesOf(ivs) \cup gone
    /\ FromFirst => AllWhole(ivs)

\* The numbers of two parts of a tree differ.
LEMMA NumbersApart ==
    ASSUME NEW t, Tree(t), NEW T \in SUBSET t
    PROVE  /\ Numbers(T) \cap Numbers(t \ T) = {}
           /\ Numbers(t) = Numbers(T) \cup Numbers(t \ T)
           /\ SamplesOf(t) = SamplesOf(T) \cup SamplesOf(t \ T)
           /\ SamplesOf(T) \subseteq Numbers(T) /\ SamplesOf(t \ T) \subseteq Numbers(t \ T)
<1>1. ASSUME NEW v \in T, NEW w \in t \ T PROVE (v.min..v.maxp1 - 1) \cap (w.min..w.maxp1 - 1) = {}
  <2>1. v.maxp1 < w.min \/ w.maxp1 < v.min
    BY DEF Tree, Apart
  <2>2. /\ v.min \in Int /\ v.maxp1 \in Int /\ v.min < v.maxp1
        /\ w.min \in Int /\ w.maxp1 \in Int /\ w.min < w.maxp1
    BY IntervalFacts DEF Tree
  <2> QED BY <2>1, <2>2
<1>2. Numbers(T) \cap Numbers(t \ T) = {}
  BY <1>1 DEF Numbers
<1>3. Numbers(t) = Numbers(T) \cup Numbers(t \ T)
  BY DEF Numbers
<1>4. SamplesOf(t) = SamplesOf(T) \cup SamplesOf(t \ T)
  BY DEF SamplesOf
<1> QED BY <1>2, <1>3, <1>4, SubTree, SamplesAreNumbers

\* If all that is stored was available or announced, that holds for a part of it.
LEMMA PartCovered ==
    ASSUME NEW t, Tree(t), NEW T \in SUBSET t, NEW G, Numbers(t) \subseteq SamplesOf(t) \cup G
    PROVE  /\ Numbers(T) \subseteq SamplesOf(T) \cup G
           /\ Numbers(t \ T) \subseteq SamplesOf(t \ T) \cup G
<1>1. /\ Numbers(T) \cap Numbers(t \ T) = {}
      /\ Numbers(t) = Numbers(T) \cup Numbers(t \ T)
      /\ SamplesOf(t) = SamplesOf(T) \cup SamplesOf(t \ T)
      /\ SamplesOf(T) \subseteq Numbers(T) /\ SamplesOf(t \ T) \subseteq Numbers(t \ T)
  BY NumbersApart
<1> QED BY <1>1

\* Storing keeps what arrived, or trims whole chains.
LEMMA KeepsCovered ==
    ASSUME Fits, Inv, Covered, NEW t, Keeps(t), gone \subseteq gone',
           Numbers(t) \subseteq SamplesOf(t) \cup gone',
           FromFirst => AllWhole(t)
    PROVE  Covered'
<1>1. next' = next /\ delivered' = delivered /\ Mode = "normal" /\ Trimmed(t, ivs')
      /\ (MaxSamples >= MaxSeq => ivs' = t) /\ Tree(ivs')
  BY DEF Keeps
<1>2. FromFirst => AllWhole(ivs')
  BY <1>1 DEF Trimmed
<1>3. Numbers(ivs') \subseteq SamplesOf(ivs') \cup gone'
  <2>1. CASE FromFirst
    BY <1>1, <1>2, <2>1, SamplesAreNumbers
  <2>2. CASE MaxSamples >= MaxSeq
    BY <1>1, <2>2
  <2> QED BY <2>1, <2>2 DEF Fits
<1>4. NoSilentLoss'
  BY <1>1 DEF Covered, NoSilentLoss
<1> QED BY <1>2, <1>3, <1>4 DEF Covered

\* Handing over passes over nothing.
LEMMA HandsOverCovered ==
    ASSUME Inv, Covered, NEW T, NEW h, NEW S, HandsOver(T, h, S),
           gone \subseteq gone', gone' \subseteq Seqs,
           Mode = "normal" => next..h - 1 \subseteq Numbers(T) \cup S \cup gone'
    PROVE  Covered'
<1>1. /\ T \in SUBSET ivs /\ next' = h /\ ivs' = ivs \ T /\ h \in next + 1..MaxSeq + 1
  BY DEF HandsOver
<1>2. Tree(ivs) /\ next \in Int /\ MaxSeq \in Nat
  BY ReorderAssumption DEF Inv
<1>3. ToSet(delivered') = ToSet(delivered) \cup SamplesOf(T) \cup S
  BY HandsOverInv
<1>4. ASSUME Mode = "normal"
      PROVE  /\ Numbers(T) \subseteq SamplesOf(T) \cup gone
             /\ Numbers(ivs') \subseteq SamplesOf(ivs') \cup gone
  BY <1>1, <1>2, <1>4, PartCovered DEF Covered
<1>5. ASSUME Mode = "normal", NEW x \in 1..h - 1 PROVE x \in ToSet(delivered') \cup gone'
  <2>1. CASE x < next
    <3>1. x \in 1..next - 1
      BY <1>1, <1>2, <2>1
    <3>2. x \in ToSet(delivered) \cup gone
      BY <1>5, <3>1 DEF Covered, NoSilentLoss
    <3> QED BY <1>3, <3>2
  <2>2. CASE x >= next
    <3>1. x \in next..h - 1
      BY <1>1, <1>2, <2>2
    <3>2. x \in Numbers(T) \cup S \cup gone'
      BY <1>5, <3>1
    <3> QED BY <1>3, <1>4, <1>5, <3>2
  <2> QED BY <1>1, <1>2, <2>1, <2>2
<1>6. NoSilentLoss'
  BY <1>1, <1>5 DEF NoSilentLoss
<1>7. FromFirst => AllWhole(ivs')
  BY <1>1 DEF Covered, AllWhole
<1> QED BY <1>4, <1>6, <1>7 DEF Covered

\* Each step preserves what the invariant says of the samples passed over.
LEMMA StepCovered == Fits /\ Inv /\ Covered /\ [Next]_vars => Covered'
<1> SUFFICES ASSUME Fits, Inv, Covered, [Next]_vars PROVE Covered'
  OBVIOUS
<1>1. Inv' /\ gone' \subseteq Seqs
  BY StepInv DEF Inv
<1>2. ASSUME Ignores, gone \subseteq gone' PROVE Covered'
  BY <1>2 DEF Ignores, Covered, NoSilentLoss
<1>3. CASE UNCHANGED vars
  BY <1>2, <1>3 DEF vars, Ignores
<1>4. ASSUME NEW s \in Seqs, Stores(s), gone' = gone PROVE Covered'
  <2>1. PICK t : Inserted(ivs, t, s) /\ Keeps(t)
    BY <1>4 DEF Stores
  <2>2. Numbers(t) \subseteq SamplesOf(t) \cup gone'
    BY <1>4, <2>1 DEF Inserted, Keeps, Covered
  <2>3. FromFirst => AllWhole(t)
    BY <2>1 DEF Inserted, Covered
  <2> QED BY <1>4, <2>1, <2>2, <2>3, KeepsCovered
<1>5. ASSUME NEW s \in Seqs, HandsOverSample(s), gone' = gone PROVE Covered'
  <2>1. PICK T, h : /\ HandsOver(T, h, {s}) /\ (Mode = "normal" => s = next)
                    /\ s..h - 1 = {s} \cup Numbers(T)
    BY <1>5 DEF HandsOverSample
  <2>2. Mode = "normal" => next..h - 1 \subseteq Numbers(T) \cup {s} \cup gone'
    BY <2>1
  <2> QED BY <1>1, <1>5, <2>1, <2>2, HandsOverCovered
<1>6. ASSUME NEW g \in Gaps, StoresGap(g[1], g[2]), gone' = gone \cup (g[1]..g[2] - 1)
      PROVE  Covered'
  <2>1. PICK t : /\ Keeps(t) /\ g[1] > next /\ SamplesOf(t) = SamplesOf(ivs)
                 /\ Numbers(t) = Numbers(ivs) \cup (g[1]..g[2] - 1)
    BY <1>6 DEF StoresGap
  <2>2. Numbers(t) \subseteq SamplesOf(t) \cup gone'
    BY <1>6, <2>1 DEF Keeps, Covered
  <2>3. ~FromFirst
    <3>1. next \in Int /\ next >= 1
      BY ReorderAssumption DEF Inv
    <3> QED BY <2>1, <3>1 DEF FromFirst
  <2> QED BY <1>6, <2>1, <2>2, <2>3, KeepsCovered
<1>7. ASSUME NEW g \in Gaps, HandsOverGap(g[1], g[2]), gone' = gone \cup (g[1]..g[2] - 1)
      PROVE  Covered'
  <2>1. PICK T, h : /\ HandsOver(T, h, {})
                    /\ next..h - 1 \subseteq Numbers(T) \cup (g[1]..g[2] - 1)
    BY <1>7 DEF HandsOverGap
  <2>2. next..h - 1 \subseteq Numbers(T) \cup {} \cup gone'
    BY <1>7, <2>1
  <2> QED BY <1>1, <1>7, <2>1, <2>2, HandsOverCovered
<1>8. CASE Next
  BY <1>2, <1>4, <1>5, <1>6, <1>7, <1>8, StepKinds
<1> QED BY <1>3, <1>8

\* Nothing was passed over at first.
LEMMA InitCovered == Init => Covered
<1> SUFFICES ASSUME Init PROVE Covered
  OBVIOUS
<1>1. next = 1 /\ ivs = {}
  BY DEF Init
<1>2. Numbers({}) = {}
  BY SmallTrees
<1> QED BY <1>1, <1>2 DEF Covered, NoSilentLoss, AllWhole

\* Where trimming loses nothing, both hold always.
LEMMA CoveredAlways == ASSUME Fits PROVE Spec => [](Inv /\ Covered)
<1>1. Init => Inv /\ Covered
  BY InitInv, InitCovered
<1>2. Inv /\ Covered /\ [Next]_vars => (Inv /\ Covered)'
  BY StepInv, StepCovered
<1> QED BY <1>1, <1>2, PTL DEF Spec

\* A reliable reader gets or is told of every sample: delivery passes over no number.
THEOREM PassesOverNothing == ASSUME Fits PROVE Spec => []NoSilentLoss
<1>1. Covered => NoSilentLoss
  BY DEF Covered, NoSilentLoss
<1> QED BY <1>1, CoveredAlways, PTL

\* The lesser of two numbers.
LEMMA MinOfTwo ==
    ASSUME NEW m \in Int, NEW n \in Int
    PROVE  Min({m, n}) = IF m <= n THEN m ELSE n
<1> DEFINE k == IF m <= n THEN m ELSE n
<1>1. k \in {m, n} /\ \A y \in {m, n} : k <= y
  OBVIOUS
<1>2. \A x \in {m, n} : (\A y \in {m, n} : x <= y) => x = k
  OBVIOUS
<1> HIDE DEF k
<1>3. (CHOOSE x \in {m, n} : \A y \in {m, n} : x <= y) = k
  BY <1>1, <1>2
<1> QED BY <1>3 DEF Min, k

\* Every number is asked for again that is neither here nor announced, and no other: with
\* one left out the reader would wait for it forever.
THEOREM AsksForTheMissing == ASSUME Fits PROVE Spec => []NackExact
<1>1. Inv /\ Covered => NackExact
  <2> SUFFICES ASSUME Inv, Covered, Mode = "normal", NEW m \in next - 1..MaxSeq
               PROVE  LET asked == NackMap(m) IN
                      /\ asked \cap StoredSamples = {}
                      /\ \A s \in next..m : s < next + MaxSamples /\ s \notin asked
                                             => s \in StoredSamples \cup gone
    BY DEF NackExact
  <2>1. Stored = Numbers(ivs) /\ StoredSamples = SamplesOf(ivs)
    BY DEF Stored, Numbers, StoredSamples, SamplesOf
  <2>2. SamplesOf(ivs) \subseteq Numbers(ivs) /\ Numbers(ivs) \subseteq SamplesOf(ivs) \cup gone
    BY SamplesAreNumbers DEF Inv, Covered
  <2>3. next \in Int /\ MaxSamples \in Int /\ MaxSeq \in Int /\ m \in Int
    BY ReorderAssumption DEF Inv
  <2>4. NackMap(m) = {s \in next..next + Min({m + 1 - next, MaxSamples}) - 1 : s \notin Stored}
    BY DEF NackMap
  <2>5. Min({m + 1 - next, MaxSamples})
          = IF m + 1 - next <= MaxSamples THEN m + 1 - next ELSE MaxSamples
    BY <2>3, MinOfTwo
  <2>6. NackMap(m) \cap StoredSamples = {}
    BY <2>1, <2>2, <2>4
  <2>7. ASSUME NEW s \in next..m, s < next + MaxSamples, s \notin NackMap(m)
        PROVE  s \in StoredSamples \cup gone
    <3>1. s \in next..next + Min({m + 1 - next, MaxSamples}) - 1
      BY <2>3, <2>5, <2>7
    <3>2. s \in Stored
      BY <2>4, <2>7, <3>1
    <3> QED BY <2>1, <2>2, <3>2
  <2> QED BY <2>6, <2>7
<1> QED BY <1>1, CoveredAlways, PTL

----------------------------------------------------------------------------
\* The tree implements the set of waiting samples

Have == SamplesOf(ivs)
Void == Numbers(ivs) \ SamplesOf(ivs)

\* The waiting and the unavailable numbers of SampleBuffer, in the terms used here.
LEMMA Mapping ==
    /\ StoredSamples = Have /\ Stored \ StoredSamples = Void
    /\ StoredSamples' = Have' /\ (Stored \ StoredSamples)' = Void'
<1>1. Stored = Numbers(ivs) /\ StoredSamples = SamplesOf(ivs)
  BY DEF Stored, Numbers, StoredSamples, SamplesOf
<1>2. Stored' = Numbers(ivs') /\ StoredSamples' = SamplesOf(ivs')
  BY DEF Stored, Numbers, StoredSamples, SamplesOf
<1> QED BY <1>1, <1>2 DEF Have, Void

\* What Release says of a step.
LEMMA Releases ==
    ASSUME NEW h, NEW v, next' \in Nat, next' >= next,
           \A x \in next..next' - 1 : x \in h \cup v,
           next' \notin h \cup v,
           delivered' = delivered \o Buffer!Sorted({x \in h : x < next'}),
           Have' = {x \in h : x > next'}, Void' = {x \in v : x > next'}
    PROVE  Buffer!Release(h, v)
BY Mapping DEF Buffer!Release

\* The numbers in the tree are those still to come.
LEMMA NumbersBeyond ==
    ASSUME NEW t, Tree(t), NEW n \in Int, \A w \in t : n < w.min
    PROVE  \A x \in Numbers(t) : x \in Int /\ n < x
<1>1. ASSUME NEW w \in t, NEW x \in w.min..w.maxp1 - 1 PROVE x \in Int /\ n < x
  <2>1. w.min \in Int /\ w.maxp1 \in Int
    BY IntervalFacts DEF Tree
  <2> QED BY <2>1
<1> QED BY <1>1 DEF Numbers

\* Storing forgets a tail of what is stored and releases nothing.
LEMMA KeepsReleases ==
    ASSUME Inv, NEW t, Keeps(t), AllWhole(t) \/ ivs' = t,
           NEW D, D = Numbers(t) \ Numbers(ivs')
    PROVE  /\ Buffer!Release(SamplesOf(t) \ D, (Numbers(t) \ SamplesOf(t)) \ D)
           /\ Buffer!AtTheEnd(D, SamplesOf(t), Numbers(t) \ SamplesOf(t))
           /\ D \in SUBSET Seqs
<1>1. /\ Tree(t) /\ (\A v \in t : next < v.min) /\ Tree(ivs') /\ Trimmed(t, ivs')
      /\ next' = next /\ delivered' = delivered /\ next \in Int /\ next >= 1
      /\ delivered \in Seq(Seqs)
  BY ReorderAssumption DEF Keeps, Inv
<1>2. \A x \in Numbers(t) : x \in Int /\ next < x
  BY <1>1, NumbersBeyond
<1>3. /\ SamplesOf(t) \subseteq Numbers(t) /\ Numbers(t) \subseteq Seqs
      /\ SamplesOf(ivs') \subseteq Numbers(ivs')
  BY <1>1, SamplesAreNumbers
<1>4. /\ SamplesOf(ivs') \subseteq SamplesOf(t) /\ Numbers(ivs') \subseteq Numbers(t)
      /\ \A d \in Numbers(t) \ Numbers(ivs'), x \in Numbers(ivs') : x < d
  BY <1>1 DEF Trimmed
<1>5. SamplesOf(ivs') = SamplesOf(t) \ D
  <2>1. CASE AllWhole(t)
    <3>1. SamplesOf(t) = Numbers(t)
      BY <1>1, <2>1, SamplesAreNumbers
    <3>2. SamplesOf(ivs') = Numbers(ivs')
      BY <1>1, <2>1, SamplesAreNumbers DEF Trimmed
    <3> QED BY <1>4, <3>1, <3>2
  <2>2. CASE ivs' = t
    BY <2>2
  <2> QED BY <2>1, <2>2
<1>6. Have' = SamplesOf(t) \ D /\ Void' = (Numbers(t) \ SamplesOf(t)) \ D
  BY <1>4, <1>5 DEF Have, Void
<1> DEFINE h == SamplesOf(t) \ D
           v == (Numbers(t) \ SamplesOf(t)) \ D
<1>7. /\ {x \in h : x < next} = {} /\ {x \in h : x > next} = h /\ {x \in v : x > next} = v
      /\ next \notin h \cup v
  BY <1>1, <1>2, <1>3
<1>8. Buffer!Sorted({}) = <<>>
  <2>1. <<>> \in Seq(Nat) /\ Ordered(<<>>) /\ ToSet(<<>>) = {}
    BY DEF Ordered, ToSet
  <2>2. Buffer!Sorted(ToSet(<<>>)) = <<>>
    BY <2>1, SortedElements
  <2> QED BY <2>1, <2>2
<1>9. delivered' = delivered \o Buffer!Sorted({x \in h : x < next'})
  <2>1. {x \in h : x < next'} = {}
    BY <1>1, <1>7
  <2>2. delivered \o <<>> = delivered
    BY <1>1
  <2> HIDE DEF h
  <2> QED BY <1>1, <1>8, <2>1, <2>2
<1>10. \A x \in next..next' - 1 : x \in h \cup v
  BY <1>1
<1>11. Have' = {x \in h : x > next'} /\ Void' = {x \in v : x > next'}
  BY <1>1, <1>6, <1>7
<1>12. next' \in Nat /\ next' >= next /\ next' \notin h \cup v
  BY <1>1, <1>7
<1> HIDE DEF h, v
<1>13. Buffer!Release(h, v)
  BY <1>9, <1>10, <1>11, <1>12, Releases
<1>14. Buffer!AtTheEnd(D, SamplesOf(t), Numbers(t) \ SamplesOf(t))
  <2>1. D \subseteq SamplesOf(t) \cup (Numbers(t) \ SamplesOf(t))
    OBVIOUS
  <2>2. \A d \in D, k \in (SamplesOf(t) \cup (Numbers(t) \ SamplesOf(t))) \ D : k < d
    BY <1>3, <1>4
  <2> QED BY <2>1, <2>2 DEF Buffer!AtTheEnd
<1> QED BY <1>3, <1>13, <1>14 DEF h, v

\* A sequence of samples is one of numbers.
LEMMA SamplesAreNaturals ==
    ASSUME NEW q \in Seq(Seqs)
    PROVE  q \in Seq(Nat) /\ \A x \in ToSet(q) : x \in Int
<1>1. Seqs \subseteq Nat
  BY DEF Seqs
<1>2. Len(q) \in Nat /\ q \in [1..Len(q) -> Seqs] /\ DOMAIN q = 1..Len(q)
  OBVIOUS
<1>3. q \in [1..Len(q) -> Nat]
  BY <1>1, <1>2
<1>4. q \in Seq(Nat)
  BY <1>2, <1>3, SeqDef
<1>5. \A i \in DOMAIN q : q[i] \in Int
  BY <1>2, <1>3
<1> QED BY <1>4, <1>5 DEF ToSet

\* Handing over releases what is waiting below h, and forgets nothing.
LEMMA HandsOverReleases ==
    ASSUME Inv, NEW T, NEW h, NEW S, HandsOver(T, h, S),
           NEW W \in SUBSET Int, \A x \in W : x < h,
           next..h - 1 \subseteq Numbers(T) \cup S \cup W
    PROVE  /\ Buffer!Release((Have \cup S) \ {}, (Void \cup W) \ {})
           /\ Buffer!AtTheEnd({}, Have \cup S, Void \cup W)
<1>1. PICK q \in Seq(Seqs) :
         /\ Ordered(q) /\ ToSet(q) = SamplesOf(T) \cup S
         /\ \A x \in ToSet(q) : next <= x /\ x < h
         /\ delivered' = delivered \o q
  BY DEF HandsOver
<1>2. /\ T \in SUBSET ivs /\ h \in next + 1..MaxSeq + 1 /\ (\A w \in ivs \ T : h < w.min)
      /\ (\A w \in T : w.maxp1 <= h) /\ next' = h /\ ivs' = ivs \ T
  BY DEF HandsOver
<1>3. Tree(ivs) /\ next \in Int /\ next >= 1 /\ MaxSeq \in Nat /\ h \in Int /\ h > next
  BY <1>2, ReorderAssumption DEF Inv
<1>4. \A x \in Numbers(ivs \ T) : x \in Int /\ h < x
  BY <1>2, <1>3, SubTree, NumbersBeyond
<1>5. \A x \in Numbers(T) : x \in Int /\ x < h
  <2>1. ASSUME NEW w \in T, NEW x \in w.min..w.maxp1 - 1 PROVE x \in Int /\ x < h
    <3>1. w.min \in Int /\ w.maxp1 \in Int /\ w.maxp1 <= h
      BY <1>2, <1>3, IntervalFacts DEF Tree
    <3> QED BY <1>3, <3>1
  <2> QED BY <2>1 DEF Numbers
<1>6. /\ Numbers(T) \cap Numbers(ivs \ T) = {}
      /\ Numbers(ivs) = Numbers(T) \cup Numbers(ivs \ T)
      /\ SamplesOf(ivs) = SamplesOf(T) \cup SamplesOf(ivs \ T)
      /\ SamplesOf(T) \subseteq Numbers(T) /\ SamplesOf(ivs \ T) \subseteq Numbers(ivs \ T)
  BY <1>2, <1>3, NumbersApart
<1>7. \A x \in S : x \in Int /\ x < h
  <2>1. \A x \in ToSet(q) : x \in Int
    BY SamplesAreNaturals
  <2> QED BY <1>1, <2>1
<1>7a. /\ \A x \in SamplesOf(ivs \ T) : ~(x < h) /\ x > h
       /\ \A x \in Numbers(ivs \ T) : x > h /\ x # h
  <2>1. \A x \in Numbers(ivs \ T) : x > h /\ x # h /\ ~(x < h)
    BY <1>3, <1>4
  <2> QED BY <1>6, <2>1
<1>7b. \A x \in Numbers(T) \cup SamplesOf(T) \cup S \cup W : ~(x > h) /\ x < h /\ x # h
  <2>1. \A x \in Numbers(T) : ~(x > h) /\ x < h /\ x # h
    BY <1>3, <1>5
  <2>2. \A x \in S : ~(x > h) /\ x < h /\ x # h
    BY <1>3, <1>7
  <2>3. \A x \in W : ~(x > h) /\ x < h /\ x # h
    BY <1>3
  <2> QED BY <1>6, <2>1, <2>2, <2>3
<1> DEFINE H == Have \cup S
           V == Void \cup W
<1>8. {x \in H : x < h} = ToSet(q)
  BY <1>1, <1>6, <1>7a, <1>7b DEF Have
<1>9. {x \in H : x > h} = SamplesOf(ivs \ T)
  BY <1>6, <1>7a, <1>7b DEF Have
<1>10. {x \in V : x > h} = Numbers(ivs \ T) \ SamplesOf(ivs \ T)
  <2>1. Void = (Numbers(T) \ SamplesOf(T)) \cup (Numbers(ivs \ T) \ SamplesOf(ivs \ T))
    BY <1>6 DEF Void
  <2> QED BY <1>7a, <1>7b, <2>1
<1>11. h \notin H \cup V
  BY <1>6, <1>7a, <1>7b DEF Have, Void
<1>12. \A x \in next..h - 1 : x \in H \cup V
  BY <1>6 DEF Have, Void
<1>13. Have' = SamplesOf(ivs \ T) /\ Void' = Numbers(ivs \ T) \ SamplesOf(ivs \ T)
  BY <1>2 DEF Have, Void
<1>14. Buffer!Sorted(ToSet(q)) = q
  <2>1. q \in Seq(Nat)
    BY SamplesAreNaturals
  <2> QED BY <1>1, <2>1, SortedElements
<1> HIDE DEF H, V
<1>15. Buffer!Release(H, V)
  <2>1. next' \in Nat /\ next' >= next
    BY <1>2, <1>3
  <2>2. delivered' = delivered \o Buffer!Sorted({x \in H : x < next'})
    BY <1>1, <1>2, <1>8, <1>14
  <2>3. Have' = {x \in H : x > next'} /\ Void' = {x \in V : x > next'}
    BY <1>2, <1>9, <1>10, <1>13
  <2>4. (\A x \in next..next' - 1 : x \in H \cup V) /\ next' \notin H \cup V
    BY <1>2, <1>11, <1>12
  <2> QED BY <2>1, <2>2, <2>3, <2>4, Releases
<1>16. Buffer!AtTheEnd({}, H, V)
  BY DEF Buffer!AtTheEnd
<1>17. H \ {} = H /\ V \ {} = V
  OBVIOUS
<1>18. Buffer!Release(H \ {}, V \ {})
  BY <1>15, <1>17
<1> QED BY <1>16, <1>18 DEF H, V

\* A stored sample arrives; it is not among those that go.
LEMMA StoresArrives ==
    ASSUME Fits, Inv, Covered, NEW s \in Seqs, Stores(s)
    PROVE  Buffer!Arrive
<1>1. PICK t : /\ Inserted(ivs, t, s) /\ Keeps(t) /\ s > next /\ s \notin Numbers(ivs)
               /\ ivs' = t \/ \E y \in Numbers(ivs) : s < y
  BY DEF Stores
<1>2. /\ SamplesOf(t) = SamplesOf(ivs) \cup {s} /\ Numbers(t) = Numbers(ivs) \cup {s}
      /\ (AllWhole(ivs) => AllWhole(t)) /\ Tree(t)
  BY <1>1 DEF Inserted
<1>3. AllWhole(t) \/ ivs' = t
  BY <1>1, <1>2 DEF Fits, Covered, Keeps
<1> DEFINE D == Numbers(t) \ Numbers(ivs')
<1>4. s \notin D
  <2> SUFFICES ASSUME s \in D PROVE FALSE
    OBVIOUS
  <2>1. ivs' # t /\ AllWhole(t)
    BY <1>3
  <2>2. PICK y \in Numbers(ivs) : s < y
    BY <1>1, <2>1
  <2>3. t # {} /\ Trimmed(t, ivs')
    BY <1>1, <1>2 DEF Numbers, Keeps
  <2> DEFINE l == LastIv(t)
  <2>4. \A d \in D : l.min <= d /\ d < l.maxp1 /\ (Len(l.chain) # 1 => d = l.maxp1 - 1)
    BY <2>3 DEF Trimmed
  <2>5. \A d \in D, x \in Numbers(ivs') : x < d
    BY <2>3 DEF Trimmed
  <2>6. l \in t /\ Interval(l) /\ Len(l.chain) = l.maxp1 - l.min
    <3>1. l \in t
      BY <1>2, <2>3, LastOfTree
    <3> HIDE DEF l
    <3> QED BY <1>2, <2>1, <3>1 DEF Tree, AllWhole, Whole
  <2>7. l.min \in Int /\ l.maxp1 \in Int /\ Len(l.chain) \in Nat
    BY <2>6, IntervalFacts
  <2>8. y \in Int /\ s \in Int /\ y \in Numbers(t)
    <3>1. Numbers(t) \subseteq Seqs
      BY <1>2, SamplesAreNumbers
    <3> QED BY <1>2, <3>1 DEF Seqs
  <2> HIDE DEF l
  <2>9. y \in D
    <3>1. y \notin Numbers(ivs')
      BY <2>2, <2>5, <2>8
    <3> QED BY <2>8, <3>1
  <2> HIDE DEF D
  <2>10. CASE Len(l.chain) = 1
    <3>1. l.maxp1 = l.min + 1
      <4>1. \A m, n \in Int : n - m = 1 => n = m + 1
        OBVIOUS
      <4>2. l.maxp1 - l.min = 1
        BY <2>6, <2>10
      <4> QED BY <2>7, <4>1, <4>2
    <3> QED BY <2>2, <2>4, <2>7, <2>8, <2>9, <3>1
  <2>11. CASE Len(l.chain) # 1
    BY <2>2, <2>4, <2>8, <2>9, <2>11
  <2> QED BY <2>10, <2>11
<1>5. /\ Buffer!Release(SamplesOf(t) \ D, (Numbers(t) \ SamplesOf(t)) \ D)
      /\ Buffer!AtTheEnd(D, SamplesOf(t), Numbers(t) \ SamplesOf(t))
      /\ D \in SUBSET Seqs
  BY <1>1, <1>3, KeepsReleases
<1>6. SamplesOf(t) = Have \cup {s} /\ Numbers(t) \ SamplesOf(t) = Void
  BY <1>1, <1>2 DEF Have, Void
<1>7. s >= next
  <2>1. s \in Int /\ next \in Int
    BY ReorderAssumption DEF Seqs, Inv
  <2> QED BY <1>1, <2>1
<1> HIDE DEF D
<1>8. /\ Buffer!Release((StoredSamples \cup {s}) \ D, (Stored \ StoredSamples) \ D)
      /\ Buffer!AtTheEnd(D, StoredSamples \cup {s}, Stored \ StoredSamples)
  BY <1>5, <1>6, Mapping
<1> QED BY <1>4, <1>5, <1>7, <1>8 DEF Buffer!Arrive

\* A deliverable sample arrives and releases what follows it.
LEMMA HandsOverSampleArrives ==
    ASSUME Inv, Mode = "normal", NEW s \in Seqs, HandsOverSample(s)
    PROVE  Buffer!Arrive
<1>1. PICK T, h : /\ HandsOver(T, h, {s}) /\ s = next /\ s..h - 1 = {s} \cup Numbers(T)
  BY DEF HandsOverSample
<1>2. next..h - 1 \subseteq Numbers(T) \cup {s} \cup {}
  BY <1>1
<1>3. /\ Buffer!Release((Have \cup {s}) \ {}, (Void \cup {}) \ {})
      /\ Buffer!AtTheEnd({}, Have \cup {s}, Void \cup {})
  BY <1>1, <1>2, HandsOverReleases
<1>4. Void \cup {} = Void
  OBVIOUS
<1>5. /\ Buffer!Release((StoredSamples \cup {s}) \ {}, (Stored \ StoredSamples) \ {})
      /\ Buffer!AtTheEnd({}, StoredSamples \cup {s}, Stored \ StoredSamples)
  BY <1>3, <1>4, Mapping
<1>6. s >= next
  BY <1>1 DEF Seqs
<1>7. {} \in SUBSET Seqs /\ s \notin {}
  OBVIOUS
<1> QED BY <1>5, <1>6, <1>7 DEF Buffer!Arrive

\* The numbers a gap adds to those already unavailable.
LEMMA Announced ==
    ASSUME NEW a \in Int, NEW b \in Int, 1 <= a, a < b, b <= MaxSeq + 1,
           NEW D \in SUBSET Seqs, NEW v,
           v = Void \cup {s \in (a..b - 1) \ Have : s >= next},
           Buffer!AtTheEnd(D, Have, v), Buffer!Release(Have \ D, v \ D)
    PROVE  Buffer!Announce
<1>1. MaxSeq \in Nat
  BY ReorderAssumption
<1>2. \A X : Buffer!Cardinality(X) = Cardinality(X)
  BY DEF Cardinality, Buffer!Cardinality
<1>3. Cardinality(Seqs) = MaxSeq
  <2>1. Cardinality(1..MaxSeq) = IF 1 > MaxSeq THEN 0 ELSE MaxSeq - 1 + 1
    BY <1>1, FS_Interval
  <2> QED BY <1>1, <2>1 DEF Seqs
<1>4. a \in Seqs /\ b \in 1..Buffer!Cardinality(Seqs) + 1
  BY <1>1, <1>2, <1>3 DEF Seqs
<1>5. v = (Stored \ StoredSamples) \cup {s \in (a..b - 1) \ StoredSamples : s >= next}
  BY Mapping
<1>6. Buffer!AtTheEnd(D, StoredSamples, v) /\ Buffer!Release(StoredSamples \ D, v \ D)
  BY Mapping
<1> QED BY <1>4, <1>5, <1>6 DEF Buffer!Announce

\* A stored gap is announced.
LEMMA StoresGapAnnounces ==
    ASSUME Fits, Inv, NEW g \in Gaps, StoresGap(g[1], g[2])
    PROVE  Buffer!Announce
<1>1. PICK t : /\ Keeps(t) /\ g[1] > next /\ SamplesOf(t) = SamplesOf(ivs)
               /\ Numbers(t) = Numbers(ivs) \cup (g[1]..g[2] - 1)
  BY DEF StoresGap
<1>2. /\ g[1] \in Int /\ g[2] \in Int /\ 1 <= g[1] /\ g[1] < g[2] /\ g[2] <= MaxSeq + 1
      /\ next \in Int /\ next >= 1
  BY GapNumbers, ReorderAssumption DEF Inv
<1>3. ivs' = t
  BY <1>1, <1>2 DEF Fits, FromFirst, Keeps
<1> DEFINE D == Numbers(t) \ Numbers(ivs')
           v == Void \cup {s \in (g[1]..g[2] - 1) \ Have : s >= next}
<1>4. /\ Buffer!Release(SamplesOf(t) \ D, (Numbers(t) \ SamplesOf(t)) \ D)
      /\ Buffer!AtTheEnd(D, SamplesOf(t), Numbers(t) \ SamplesOf(t))
      /\ D \in SUBSET Seqs
  BY <1>1, <1>3, KeepsReleases
<1>5. Numbers(t) \ SamplesOf(t) = v
  <2>1. \A s \in g[1]..g[2] - 1 : s >= next
    BY <1>1, <1>2
  <2> QED BY <1>1, <2>1 DEF Have, Void
<1> HIDE DEF D, v
<1>6. Buffer!AtTheEnd(D, Have, v) /\ Buffer!Release(Have \ D, v \ D)
  BY <1>1, <1>4, <1>5 DEF Have
<1> QED BY <1>2, <1>4, <1>6, Announced DEF v

\* A gap that lets delivery go on is announced, and releases what follows it.
LEMMA HandsOverGapAnnounces ==
    ASSUME Inv, NEW g \in Gaps, HandsOverGap(g[1], g[2])
    PROVE  Buffer!Announce
<1>1. PICK T, h : /\ HandsOver(T, h, {}) /\ g[2] <= h
                  /\ next..h - 1 \subseteq Numbers(T) \cup (g[1]..g[2] - 1)
  BY DEF HandsOverGap
<1>2. /\ g[1] \in Int /\ g[2] \in Int /\ 1 <= g[1] /\ g[1] < g[2] /\ g[2] <= MaxSeq + 1
      /\ next \in Int /\ h \in Int /\ Tree(ivs) /\ T \in SUBSET ivs
  BY <1>1, GapNumbers DEF Inv, HandsOver
<1> DEFINE W == {s \in (g[1]..g[2] - 1) \ Have : s >= next}
           v == Void \cup W
<1>3. W \in SUBSET Int /\ \A x \in W : x < h
  BY <1>1, <1>2
<1>4. \A x \in (next..h - 1) \cap (g[1]..g[2] - 1) : x \in W \/ x \in Numbers(T)
  <2> SUFFICES ASSUME NEW x \in next..h - 1, x \in g[1]..g[2] - 1, x \in Have
               PROVE  x \in Numbers(T)
    BY <1>2
  <2>1. /\ Numbers(ivs) = Numbers(T) \cup Numbers(ivs \ T) /\ SamplesOf(ivs) \subseteq Numbers(ivs)
    BY <1>2, NumbersApart, SamplesAreNumbers
  <2>2. Tree(ivs \ T) /\ \A w \in ivs \ T : h < w.min
    BY <1>1, <1>2, SubTree DEF HandsOver
  <2>3. \A y \in Numbers(ivs \ T) : y \in Int /\ h < y
    BY <1>2, <2>2, NumbersBeyond
  <2>4. x \notin Numbers(ivs \ T)
    BY <1>2, <2>3
  <2> QED BY <2>1, <2>4 DEF Have
<1> HIDE DEF W
<1>5. next..h - 1 \subseteq Numbers(T) \cup {} \cup W
  BY <1>1, <1>4
<1>6. /\ Buffer!Release((Have \cup {}) \ {}, v \ {})
      /\ Buffer!AtTheEnd({}, Have \cup {}, v)
  BY <1>1, <1>3, <1>5, HandsOverReleases
<1>7. Have \cup {} = Have
  OBVIOUS
<1> HIDE DEF v
<1>8. Buffer!Release(Have \ {}, v \ {}) /\ Buffer!AtTheEnd({}, Have, v)
  BY <1>6, <1>7
<1>9. v = Void \cup {s \in (g[1]..g[2] - 1) \ Have : s >= next} /\ {} \in SUBSET Seqs
  BY DEF v, W
<1> QED BY <1>2, <1>8, <1>9, Announced

\* The reorder administration does what SampleBuffer promises: it delivers in order up to
\* the first number neither here nor announced, and what it drops for want of room is a
\* tail of what it stores.
THEOREM ImplementsSampleBuffer ==
    ASSUME Fits, Mode = "normal"
    PROVE  Spec => ImplementsBuffer
<1>1. Init => Buffer!SInit
  <2> SUFFICES ASSUME Init PROVE Buffer!SInit
    OBVIOUS
  <2>1. next = 1 /\ ivs = {} /\ delivered = <<>>
    BY DEF Init
  <2>2. StoredSamples = {} /\ Stored \ StoredSamples = {}
    BY <2>1 DEF StoredSamples, Stored
  <2> QED BY <2>1, <2>2 DEF Buffer!SInit
<1>2. Inv /\ Covered /\ [Next]_vars => [Buffer!SNext]_(Buffer!svars)
  <2> SUFFICES ASSUME Inv, Covered, [Next]_vars, ~(UNCHANGED Buffer!svars)
               PROVE  Buffer!SNext
    OBVIOUS
  <2>1. ~Ignores /\ Next
    BY DEF Ignores, vars, Buffer!svars, Stored, StoredSamples
  <2>2. Buffer!Arrive \/ Buffer!Announce
    BY <2>1, StepKinds, StoresArrives, HandsOverSampleArrives,
       StoresGapAnnounces, HandsOverGapAnnounces
  <2> QED BY <2>2 DEF Buffer!SNext
<1>3. Spec => Buffer!SSpec
  BY <1>1, <1>2, CoveredAlways, PTL DEF Spec, Buffer!SSpec
<1> QED BY <1>3 DEF ImplementsBuffer
=============================================================================
