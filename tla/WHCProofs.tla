----------------------------- MODULE WHCProofs ------------------------------
(***************************************************************************)
(* What the operations of the writer history cache do to a cache, and that *)
(* it thereby keeps its books and what it is to keep, for any depths and   *)
(* any number of instances and samples.                                    *)
(*                                                                         *)
(* First lemmas about the operators. Core says what holds of every cache,  *)
(* between any two calls and within them: the intervals are those of the   *)
(* numbers that are stored, the counts are exact, and the links between    *)
(* nodes and buffers go both ways. Less says that one cache is another     *)
(* without some samples, and with some flags cleared. Each loop of the     *)
(* code is shown to get from a cache to a lesser one, up to each number in *)
(* turn; then whc_remove_acked_messages as a whole (Removed) and the three *)
(* ways in which whc_insert goes on once the sample is stored: its         *)
(* instance has a buffer, is new, or ends.                                 *)
(*                                                                         *)
(* Then the behaviours: the four structures agree on what is stored        *)
(* (StructuresHold), what readers have not acknowledged and what late      *)
(* joiners are to be given is kept and the rest is freed (CacheKeeps), and *)
(* the cache implements the one that the protocol relies on                *)
(* (ImplementsAbstractCache). As far as a sample is behind the head of its *)
(* circular buffer, so many newer samples of its instance were written     *)
(* (Place). What whc_insert and whc_remove_acked_messages decide on        *)
(* positions is thereby decided on what was written. CacheInv is what the  *)
(* operations need of a cache; KeptInv adds that what has not been pushed  *)
(* out is in the index, that the durability history is there, and that     *)
(* what is acknowledged and outside of it waits for a newer sample of the  *)
(* history, still to be acknowledged, that will take it along.             *)
(***************************************************************************)
EXTENDS WHC, TLAPS, FiniteSetTheorems, WellFoundedInduction

----------------------------------------------------------------------------
\* Numbers and sets

\* A nonempty set of naturals has a lowest member (well-foundedness of <).
LEMMA LeastMember ==
    ASSUME NEW S \in SUBSET Nat, S # {}
    PROVE  \E m \in S : \A x \in S : m <= x
<1>1. PICK m \in S : \A y \in S : ~(<<y, m>> \in OpToRel(<, Nat))
  BY NatLessThanWellFounded, WFMin
<1>2. \A y \in S : ~(y < m)
  BY <1>1 DEF OpToRel
<1> QED BY <1>2

\* Induction up to n: what holds of 0 and passes from each number to the next.
LEMMA Upward ==
    ASSUME NEW n \in Nat, NEW S, 0 \in S, \A i \in 1..n : i - 1 \in S => i \in S
    PROVE  0..n \subseteq S
<1> DEFINE Rest == {i \in 0..n : i \notin S}
<1>1. CASE Rest # {}
  <2>1. Rest \in SUBSET Nat
    OBVIOUS
  <2>2. PICK m \in Rest : \A x \in Rest : m <= x
    <3> HIDE DEF Rest
    <3> QED BY <1>1, <2>1, LeastMember
  <2>3. m \in 1..n /\ m \notin S
    OBVIOUS
  <2>4. m - 1 \in 0..n - 1 /\ ~(m <= m - 1)
    BY <2>3
  <2>5. m - 1 \in S
    BY <2>2, <2>4
  <2> QED BY <2>3, <2>4, <2>5
<1> QED BY <1>1

\* A nonempty set of naturals with a bound has a highest member.
LEMMA HighestMember ==
    ASSUME NEW n \in Nat, NEW S \in SUBSET (0..n), S # {}
    PROVE  \E m \in S : \A x \in S : x <= m
<1> DEFINE T == {n - x : x \in S}
<1>1. T \in SUBSET Nat /\ T # {}
  <2>1. \A x \in S : x \in 0..n /\ n - x \in Nat
    OBVIOUS
  <2> QED BY <2>1
<1>2. PICK t \in T : \A y \in T : t <= y
  <2> HIDE DEF T
  <2> QED BY <1>1, LeastMember
<1>3. PICK m \in S : t = n - m
  OBVIOUS
<1>4. ASSUME NEW x \in S PROVE x <= m
  <2>1. n - x \in T
    OBVIOUS
  <2>2. n - m <= n - x
    BY <1>2, <1>3, <2>1
  <2>3. x \in Nat /\ m \in Nat
    OBVIOUS
  <2> QED BY <2>2, <2>3
<1> QED BY <1>4

\* Max is the highest member.
LEMMA MaxIs ==
    ASSUME NEW S \in SUBSET Nat, NEW x \in S, \A y \in S : y <= x
    PROVE  Max(S) = x
<1>1. \A y \in S : (\A z \in S : y >= z) => y = x
  OBVIOUS
<1>2. \A z \in S : x >= z
  OBVIOUS
<1> QED BY <1>1, <1>2 DEF Max

\* A set of numbers with a bound is finite, and so are its subsets.
LEMMA Bounded ==
    ASSUME NEW n \in Nat, NEW S \in SUBSET (1..n)
    PROVE  IsFiniteSet(S) /\ Cardinality(S) \in Nat
<1>1. IsFiniteSet(1..n)
  BY FS_Interval
<1> QED BY <1>1, FS_Subset, FS_CardinalityType

----------------------------------------------------------------------------
\* The structures of the cache, as far as they are kept up to date together

Fields(w) ==
    w = [nodes |-> w.nodes, intvs |-> w.intvs, open |-> w.open, size |-> w.size,
         unacked |-> w.unacked, maxseq |-> w.maxseq, maxDrop |-> w.maxDrop, idx |-> w.idx,
         tldepth |-> w.tldepth, idxdepth |-> w.idxdepth, hdepth |-> w.hdepth, tl |-> w.tl]

Depths(w) ==
    /\ w.tldepth \in Nat /\ w.idxdepth \in Nat /\ w.hdepth \in Nat /\ w.tl \in BOOLEAN
    /\ w.tldepth <= w.idxdepth /\ w.maxDrop \in Nat

Node == [inst : Keys \cup {NoKey}, pos : Nat, unacked : BOOLEAN]

Unacked(nodes) == {s \in DOMAIN nodes : nodes[s].unacked}

\* the intervals I, the last of which is o, are those of the numbers in S
Intervals(I, o, S) ==
    /\ I \subseteq [min : Nat \ {0}, maxp1 : Nat \ {0}] /\ o \in I
    /\ \A i \in I : i.min <= i.maxp1
    /\ \A i, j \in I : i # j => i.maxp1 < j.min \/ j.maxp1 < i.min
    /\ \A i \in I : i # o => i.min < i.maxp1 /\ i.min < o.min
    /\ \A s \in Nat : s \in S <=> \E i \in I : i.min <= s /\ s < i.maxp1

\* the circular buffers, of depth d, and the nodes point at each other
Buffer(d) == [hist : [0..d - 1 -> Nat], head : 0..d - 1, prune : Nat]

Ring(nodes, idx, d) ==
    /\ DOMAIN idx \subseteq Keys /\ idx \in [DOMAIN idx -> Buffer(d)]
    /\ \A k \in DOMAIN idx : idx[k].hist[idx[k].head] # 0
    /\ \A k \in DOMAIN idx : \A p \in 0..d - 1 : idx[k].hist[p] # 0 =>
          /\ idx[k].hist[p] \in DOMAIN nodes
          /\ nodes[idx[k].hist[p]].inst = k /\ nodes[idx[k].hist[p]].pos = p
    /\ \A s \in DOMAIN nodes : nodes[s].inst # NoKey =>
          /\ nodes[s].inst \in DOMAIN idx /\ nodes[s].pos \in 0..d - 1
          /\ idx[nodes[s].inst].hist[nodes[s].pos] = s

Core(w) ==
    /\ Fields(w) /\ Depths(w)
    /\ DOMAIN w.nodes \subseteq 1..MaxSeq /\ w.nodes \in [DOMAIN w.nodes -> Node]
    /\ Intervals(w.intvs, w.open, DOMAIN w.nodes)
    /\ w.size = Cardinality(DOMAIN w.nodes)
    /\ w.unacked = Cardinality(Unacked(w.nodes))
    /\ Ring(w.nodes, w.idx, w.idxdepth)

\* s may go: if it is the newest sample in the buffer of its instance, it is the only one
Loose(w, s) ==
    LET n == w.nodes[s] IN
    \/ n.inst = NoKey
    \/ n.pos # w.idx[n.inst].head
    \/ \A p \in 0..w.idxdepth - 1 : w.idx[n.inst].hist[p] \in {0, s}

\* v is w without the samples in S; those in F no longer count as unacknowledged
Fewer(w, v, S, F) ==
    /\ v.tldepth = w.tldepth /\ v.idxdepth = w.idxdepth /\ v.hdepth = w.hdepth /\ v.tl = w.tl
    /\ DOMAIN v.nodes = DOMAIN w.nodes \ S
    /\ \A s \in DOMAIN v.nodes :
          /\ v.nodes[s].inst = w.nodes[s].inst /\ v.nodes[s].pos = w.nodes[s].pos
          /\ v.nodes[s].unacked <=> w.nodes[s].unacked /\ s \notin F
    /\ \A k \in DOMAIN v.idx : k \in DOMAIN w.idx /\ v.idx[k].head = w.idx[k].head

\* and nothing else has changed
Less(w, v, S, F) ==
    /\ Fewer(w, v, S, F)
    /\ v.maxDrop = w.maxDrop /\ v.maxseq = w.maxseq /\ v.open.maxp1 <= w.open.maxp1

SamePrunes(w, v) == \A k \in DOMAIN v.idx : v.idx[k].prune = w.idx[k].prune

----------------------------------------------------------------------------
\* Deleting one sample

\* Taking one number out of the intervals leaves them apart and in order, whichever
\* end of its interval it was at, and the open interval ends no later.
LEMMA NibbledKeeps ==
    ASSUME NEW w, NEW S, Intervals(w.intvs, w.open, S), NEW s \in S, s \in Nat \ {0}
    PROVE  /\ Intervals(Nibbled(w, s).intvs, Nibbled(w, s).open, S \ {s})
           /\ Nibbled(w, s).open.maxp1 <= w.open.maxp1
<1> DEFINE I == w.intvs
           o == w.open
           i == CHOOSE j \in I : j.min <= s /\ s < j.maxp1
           a == [min |-> i.min, maxp1 |-> s]
           b == [min |-> s + 1, maxp1 |-> i.maxp1]
           e == [min |-> s + 1, maxp1 |-> s + 1]
           pieces == {p \in {a, b} : p.min < p.maxp1}
           rest == IF pieces = {} /\ i = o THEN {e} ELSE pieces
           J == (I \ {i}) \cup rest
           n == IF i = o THEN Latest(rest) ELSE o
<1>1. Nibbled(w, s) = [intvs |-> J, open |-> n]
  BY DEF Nibbled
<1>2. i \in I /\ i.min <= s /\ s < i.maxp1
  BY DEF Intervals
<1>3. /\ i \in [min : Nat \ {0}, maxp1 : Nat \ {0}] /\ i.min \in Nat \ {0} /\ i.maxp1 \in Nat
      /\ \A j \in I : j.min \in Nat \ {0} /\ j.maxp1 \in Nat \ {0} /\ j.min <= j.maxp1
      /\ o \in I /\ \A j \in I : j # i => j.maxp1 < i.min \/ i.maxp1 < j.min
  BY <1>2 DEF Intervals
<1>4. /\ a \in pieces <=> i.min < s
      /\ b \in pieces <=> s + 1 < i.maxp1
      /\ \A p \in pieces : p = a \/ p = b
  BY <1>3
<1> HIDE DEF i
<1>5. /\ i = o => n \in rest /\ \A p \in rest : p # n => p.min < n.min /\ p.min < p.maxp1
      /\ i = o => n.maxp1 <= o.maxp1 /\ n.min >= i.min
  <2> SUFFICES ASSUME i = o
               PROVE  /\ n \in rest /\ \A p \in rest : p # n => p.min < n.min /\ p.min < p.maxp1
                      /\ n.maxp1 <= o.maxp1 /\ n.min >= i.min
    OBVIOUS
  <2>1. CASE pieces = {}
    <3>1. rest = {e} /\ n = Latest({e})
      BY <2>1
    <3>2. n = e
      BY <3>1, <1>3 DEF Latest
    <3>3. n.min = s + 1 /\ n.maxp1 = s + 1
      BY <3>2
    <3>4. \A p \in rest : p = n
      BY <3>1, <3>2
    <3> HIDE DEF n, rest, pieces
    <3> QED BY <3>1, <3>2, <3>3, <3>4, <1>2, <1>3
  <2>2. CASE b \in pieces
    <3>1. rest = pieces /\ n = Latest(pieces)
      BY <2>2
    <3>2. \A p \in pieces : p.min <= b.min /\ (p # b => p = a /\ p.min < b.min)
      BY <1>2, <1>3, <1>4
    <3>3. b.min \in Int /\ \A p \in pieces : p.min \in Int
      BY <1>3, <1>4
    <3>4. \A p \in pieces : (\A j \in pieces : j.min <= p.min) => p = b
      <4> HIDE DEF pieces, b
      <4> QED BY <2>2, <3>2, <3>3
    <3>5. n = b
      <4> HIDE DEF pieces, b, a, n
      <4> QED BY <2>2, <3>1, <3>2, <3>4 DEF Latest
    <3>6. \A p \in pieces : p.min < p.maxp1
      OBVIOUS
    <3> QED BY <3>1, <3>2, <3>5, <3>6, <2>2, <1>2, <1>3
  <2>3. CASE pieces # {} /\ b \notin pieces
    <3>1. rest = {a} /\ n = Latest({a})
      BY <2>3, <1>4
    <3>2. n = a
      BY <3>1, <1>3 DEF Latest
    <3>3. n.min = i.min /\ n.maxp1 = s
      BY <3>2
    <3>4. \A p \in rest : p = n
      BY <3>1, <3>2
    <3> HIDE DEF n, rest, pieces
    <3> QED BY <3>1, <3>2, <3>3, <3>4, <1>2, <1>3
  <2> QED BY <2>1, <2>2, <2>3
<1> HIDE DEF n
<1>6. /\ \A p \in rest : /\ p \in [min : Nat \ {0}, maxp1 : Nat \ {0}] /\ p.min <= p.maxp1
                         /\ i.min <= p.min /\ p.maxp1 <= i.maxp1
                         /\ (p.min < p.maxp1 \/ (i = o /\ rest = {p}))
      /\ \A p, q \in rest : p # q => p.maxp1 < q.min \/ q.maxp1 < p.min
      /\ \A x \in Nat : (\E p \in rest : p.min <= x /\ x < p.maxp1)
                           <=> x # s /\ i.min <= x /\ x < i.maxp1
  <2>1. CASE i = o /\ pieces = {}
    <3>1. rest = {e} /\ i.min = s /\ i.maxp1 = s + 1
      BY <2>1, <1>2, <1>3, <1>4
    <3> QED BY <3>1, <1>2, <1>3, <2>1
  <2>2. CASE ~(i = o /\ pieces = {})
    <3>1. rest = pieces
      BY <2>2
    <3>2. \A p \in pieces : /\ p \in [min : Nat \ {0}, maxp1 : Nat \ {0}] /\ p.min < p.maxp1
                            /\ i.min <= p.min /\ p.maxp1 <= i.maxp1
      BY <1>2, <1>3
    <3>3. \A p, q \in pieces : p # q => p.maxp1 < q.min \/ q.maxp1 < p.min
      BY <1>2, <1>3
    <3>4. \A x \in Nat : (\E p \in pieces : p.min <= x /\ x < p.maxp1)
                           <=> x # s /\ i.min <= x /\ x < i.maxp1
      <4> TAKE x \in Nat
      <4>1. (\E p \in pieces : p.min <= x /\ x < p.maxp1)
              <=> (i.min < s /\ i.min <= x /\ x < s)
                   \/ (s + 1 < i.maxp1 /\ s + 1 <= x /\ x < i.maxp1)
        <5>1. \A p : p \in pieces <=> (p = a /\ i.min < s) \/ (p = b /\ s + 1 < i.maxp1)
          OBVIOUS
        <5>2. /\ a.min = i.min /\ a.maxp1 = s
              /\ b.min = s + 1 /\ b.maxp1 = i.maxp1
          OBVIOUS
        <5> HIDE DEF pieces, a, b
        <5> QED BY <5>1, <5>2
      <4> QED BY <4>1, <1>2, <1>3
    <3> HIDE DEF pieces
    <3> QED BY <3>1, <3>2, <3>3, <3>4, <1>3
  <2> QED BY <2>1, <2>2
<1> HIDE DEF rest, pieces
<1>7. n \in J /\ n.maxp1 <= o.maxp1
  BY <1>3, <1>5 DEF n
<1>8. /\ J \subseteq [min : Nat \ {0}, maxp1 : Nat \ {0}]
      /\ \A j \in J : j.min <= j.maxp1
  BY <1>6 DEF Intervals
<1>9. \A j, k \in J : j # k => j.maxp1 < k.min \/ k.maxp1 < j.min
  <2>1. \A j \in I \ {i}, p \in rest : j.maxp1 < p.min \/ p.maxp1 < j.min
    BY <1>3, <1>6
  <2>2. \A j, k \in I \ {i} : j # k => j.maxp1 < k.min \/ k.maxp1 < j.min
    BY DEF Intervals
  <2> QED BY <2>1, <2>2, <1>6
<1>10. \A j \in J : j # n => j.min < j.maxp1 /\ j.min < n.min
  <2>1. CASE i = o
    <3>1. \A j \in I \ {i} : j.min < j.maxp1 /\ j.min < o.min
      BY <2>1 DEF Intervals
    <3>2. n.min >= o.min /\ o.min \in Nat /\ n.min \in Nat
      BY <2>1, <1>3, <1>5, <1>6
    <3> QED BY <2>1, <3>1, <3>2, <1>3, <1>5
  <2>2. CASE i # o
    <3>1. n = o
      BY <2>2 DEF n
    <3>2. i.min < o.min /\ i.maxp1 < o.min
      BY <2>2, <1>2, <1>3 DEF Intervals
    <3>3. \A p \in rest : p.min < p.maxp1 /\ p.min < o.min
      BY <2>2, <3>2, <1>3, <1>6
    <3>4. \A j \in I \ {i} : j # o => j.min < j.maxp1 /\ j.min < o.min
      BY DEF Intervals
    <3> QED BY <3>1, <3>3, <3>4
  <2> QED BY <2>1, <2>2
<1>11. \A x \in Nat : x \in S \ {s} <=> \E j \in J : j.min <= x /\ x < j.maxp1
  <2> TAKE x \in Nat
  <2>1. x \in S <=> \E j \in I : j.min <= x /\ x < j.maxp1
    BY DEF Intervals
  <2>2. CASE x = s
    <3>1. \A j \in I \ {i} : ~(j.min <= s /\ s < j.maxp1)
      BY <1>2, <1>3
    <3>2. ~ \E p \in rest : p.min <= x /\ x < p.maxp1
      BY <2>2, <1>6
    <3> QED BY <2>2, <3>1, <3>2
  <2>3. CASE x # s
    <3>1. (\E p \in rest : p.min <= x /\ x < p.maxp1) <=> i.min <= x /\ x < i.maxp1
      BY <2>3, <1>6
    <3> QED BY <2>1, <2>3, <3>1, <1>2
  <2> QED BY <2>2, <2>3
<1> HIDE DEF J, I, o
<1>12. Intervals(J, n, S \ {s})
  BY <1>7, <1>8, <1>9, <1>10, <1>11 DEF Intervals
<1> QED BY <1>1, <1>7, <1>12 DEF o

\* What is left of the nodes.
LEMMA RestrictedNodes ==
    ASSUME NEW w, Core(w), NEW s \in DOMAIN w.nodes
    PROVE  LET left == Restrict(w.nodes, DOMAIN w.nodes \ {s}) IN
           /\ DOMAIN left = DOMAIN w.nodes \ {s} /\ \A t \in DOMAIN left : left[t] = w.nodes[t]
           /\ left \in [DOMAIN left -> Node]
           /\ Cardinality(DOMAIN left) = w.size - 1
           /\ Cardinality(Unacked(left))
                 = w.unacked - (IF w.nodes[s].unacked THEN 1 ELSE 0)
<1> DEFINE left == Restrict(w.nodes, DOMAIN w.nodes \ {s})
<1>1. /\ DOMAIN left = DOMAIN w.nodes \ {s} /\ \A t \in DOMAIN left : left[t] = w.nodes[t]
      /\ left \in [DOMAIN left -> Node]
  BY DEF Core, Restrict
<1>2. /\ IsFiniteSet(DOMAIN w.nodes) /\ MaxSeq \in Nat
      /\ Unacked(w.nodes) \subseteq DOMAIN w.nodes /\ IsFiniteSet(Unacked(w.nodes))
  <2>1. Unacked(w.nodes) \subseteq DOMAIN w.nodes
    BY DEF Unacked
  <2> QED BY <2>1, WHCAssumption, Bounded, FS_Subset DEF Core
<1>3. Cardinality(DOMAIN left) = w.size - 1
  BY <1>1, <1>2, FS_RemoveElement DEF Core
<1> HIDE DEF left
<1>4. CASE w.nodes[s].unacked
  <2>1. Unacked(left) = Unacked(w.nodes) \ {s} /\ s \in Unacked(w.nodes)
    BY <1>1, <1>4 DEF Unacked
  <2> QED BY <2>1, <1>1, <1>2, <1>3, <1>4, FS_RemoveElement DEF Core, left
<1>5. CASE ~w.nodes[s].unacked
  <2>1. Unacked(left) = Unacked(w.nodes)
    BY <1>1, <1>5 DEF Unacked
  <2>2. Cardinality(Unacked(w.nodes)) \in Nat
    BY <1>2, FS_CardinalityType
  <2>3. Cardinality(Unacked(left)) = w.unacked - (IF w.nodes[s].unacked THEN 1 ELSE 0)
    BY <2>1, <2>2, <1>5 DEF Core
  <2> QED BY <2>3, <1>1, <1>3 DEF left
<1> QED BY <1>4, <1>5

\* Nodes in the same places go with the same buffers.
LEMMA SameRing ==
    ASSUME NEW nodes, NEW idx, NEW d, Ring(nodes, idx, d), NEW left,
           \A t \in DOMAIN left : left[t].inst # NoKey => t \in DOMAIN nodes,
           \A t \in DOMAIN left : t \in DOMAIN nodes =>
              left[t].inst = nodes[t].inst /\ left[t].pos = nodes[t].pos,
           \A k \in DOMAIN idx : \A p \in 0..d - 1 : idx[k].hist[p] # 0 =>
              idx[k].hist[p] \in DOMAIN left
    PROVE  Ring(left, idx, d)
<1>1. /\ DOMAIN idx \subseteq Keys /\ idx \in [DOMAIN idx -> Buffer(d)]
      /\ \A k \in DOMAIN idx : idx[k].hist[idx[k].head] # 0
  BY DEF Ring
<1>2. ASSUME NEW k \in DOMAIN idx, NEW p \in 0..d - 1, idx[k].hist[p] # 0
      PROVE  /\ idx[k].hist[p] \in DOMAIN left
             /\ left[idx[k].hist[p]].inst = k /\ left[idx[k].hist[p]].pos = p
  <2>1. /\ idx[k].hist[p] \in DOMAIN nodes
        /\ nodes[idx[k].hist[p]].inst = k /\ nodes[idx[k].hist[p]].pos = p
    BY <1>2 DEF Ring
  <2>2. idx[k].hist[p] \in DOMAIN left
    BY <1>2
  <2> QED BY <2>1, <2>2
<1>3. ASSUME NEW s \in DOMAIN left, left[s].inst # NoKey
      PROVE  /\ left[s].inst \in DOMAIN idx /\ left[s].pos \in 0..d - 1
             /\ idx[left[s].inst].hist[left[s].pos] = s
  <2>1. s \in DOMAIN nodes /\ left[s].inst = nodes[s].inst /\ left[s].pos = nodes[s].pos
    BY <1>3
  <2>2. /\ nodes[s].inst \in DOMAIN idx /\ nodes[s].pos \in 0..d - 1
        /\ idx[nodes[s].inst].hist[nodes[s].pos] = s
    BY <1>3, <2>1 DEF Ring
  <2> QED BY <2>1, <2>2
<1> QED BY <1>1, <1>2, <1>3 DEF Ring

\* Buffers with the same slots and heads go with the same nodes.
LEMMA SameSlots ==
    ASSUME NEW nodes, NEW old, NEW d, Ring(nodes, old, d), NEW idx, DOMAIN idx = DOMAIN old,
           idx \in [DOMAIN idx -> Buffer(d)],
           \A x \in DOMAIN idx : idx[x].hist = old[x].hist /\ idx[x].head = old[x].head
    PROVE  Ring(nodes, idx, d)
<1>1. DOMAIN idx \subseteq Keys
  BY DEF Ring
<1>2. ASSUME NEW k \in DOMAIN idx PROVE idx[k].hist[idx[k].head] # 0
  <2>1. old[k].hist[old[k].head] # 0
    BY DEF Ring
  <2> QED BY <2>1
<1>3. ASSUME NEW k \in DOMAIN idx, NEW p \in 0..d - 1, idx[k].hist[p] # 0
      PROVE  /\ idx[k].hist[p] \in DOMAIN nodes
             /\ nodes[idx[k].hist[p]].inst = k /\ nodes[idx[k].hist[p]].pos = p
  <2>1. idx[k].hist = old[k].hist /\ old[k].hist[p] # 0
    BY <1>3
  <2>2. /\ old[k].hist[p] \in DOMAIN nodes
        /\ nodes[old[k].hist[p]].inst = k /\ nodes[old[k].hist[p]].pos = p
    BY <2>1 DEF Ring
  <2> QED BY <2>1, <2>2
<1>4. ASSUME NEW s \in DOMAIN nodes, nodes[s].inst # NoKey
      PROVE  /\ nodes[s].inst \in DOMAIN idx /\ nodes[s].pos \in 0..d - 1
             /\ idx[nodes[s].inst].hist[nodes[s].pos] = s
  <2>1. /\ nodes[s].inst \in DOMAIN old /\ nodes[s].pos \in 0..d - 1
        /\ old[nodes[s].inst].hist[nodes[s].pos] = s
    BY <1>4 DEF Ring
  <2> QED BY <2>1
<1> QED BY <1>1, <1>2, <1>3, <1>4 DEF Ring

\* The buffers and the nodes still point at each other.
LEMMA UnindexedKeeps ==
    ASSUME NEW w, Core(w), NEW s \in DOMAIN w.nodes, Loose(w, s)
    PROVE  /\ Ring(Restrict(w.nodes, DOMAIN w.nodes \ {s}), Unindexed(w, s), w.idxdepth)
           /\ \A k \in DOMAIN Unindexed(w, s) :
                 /\ k \in DOMAIN w.idx /\ Unindexed(w, s)[k].head = w.idx[k].head
                 /\ Unindexed(w, s)[k].prune = w.idx[k].prune
<1> DEFINE left == Restrict(w.nodes, DOMAIN w.nodes \ {s})
           n == w.nodes[s]
           d == w.idxdepth
           v == Unindexed(w, s)
<1>1. /\ DOMAIN left = DOMAIN w.nodes \ {s} /\ \A t \in DOMAIN left : left[t] = w.nodes[t]
  BY RestrictedNodes
<1>2. Ring(w.nodes, w.idx, d) /\ s \in Nat /\ s # 0 /\ NoKey \notin Keys
  BY WHCAssumption DEF Core
<1>3. \A k \in DOMAIN w.idx : w.idx[k] \in Buffer(d) /\ w.idx[k].hist \in [0..d - 1 -> Nat]
                              /\ w.idx[k].head \in 0..d - 1
  BY <1>2 DEF Ring, Buffer
<1>4. \A t \in DOMAIN left : t # s /\ t \in DOMAIN w.nodes
  BY <1>1
<1> HIDE DEF left
<1>5. CASE n.inst = NoKey
  <2>1. v = w.idx
    BY <1>5 DEF Unindexed
  <2>2. \A k \in DOMAIN w.idx : \A p \in 0..d - 1 : w.idx[k].hist[p] # 0 =>
           w.idx[k].hist[p] \in DOMAIN left
    <3> SUFFICES ASSUME NEW k \in DOMAIN w.idx, NEW p \in 0..d - 1, w.idx[k].hist[p] # 0
                 PROVE  w.idx[k].hist[p] \in DOMAIN left
      OBVIOUS
    <3>1. w.idx[k].hist[p] \in DOMAIN w.nodes /\ w.nodes[w.idx[k].hist[p]].inst = k /\ k \in Keys
      BY <1>2 DEF Ring
    <3>2. w.idx[k].hist[p] # s
      BY <3>1, <1>2, <1>5
    <3> QED BY <3>1, <3>2, <1>1
  <2>3. Ring(left, w.idx, d)
    BY <1>1, <1>2, <2>2, SameRing
  <2> QED BY <2>1, <2>3 DEF left
<1>6. CASE n.inst # NoKey /\ n.pos # w.idx[n.inst].head
  <2> DEFINE k == n.inst
             q == n.pos
  <2>1. v = [w.idx EXCEPT ![k].hist[q] = 0]
    BY <1>6 DEF Unindexed, NoSeq
  <2>2. k \in DOMAIN w.idx /\ q \in 0..d - 1 /\ w.idx[k].hist[q] = s /\ q # w.idx[k].head
    BY <1>2, <1>6 DEF Ring
  <2> HIDE DEF k, q
  <2>3. DOMAIN v = DOMAIN w.idx /\ \A x \in DOMAIN v : x # k => v[x] = w.idx[x]
    BY <2>1
  <2>4. v[k] = [w.idx[k] EXCEPT !.hist[q] = 0]
    BY <2>1, <2>2
  <2>5. /\ v[k].head = w.idx[k].head /\ v[k].prune = w.idx[k].prune /\ v[k].hist[q] = 0
        /\ \A p \in 0..d - 1 : p # q => v[k].hist[p] = w.idx[k].hist[p]
        /\ v[k] \in Buffer(d)
    <3>1. /\ w.idx[k].hist \in [0..d - 1 -> Nat] /\ w.idx[k].head \in 0..d - 1
          /\ w.idx[k].prune \in Nat /\ w.idx[k] \in Buffer(d)
      BY <2>2, <1>3 DEF Buffer
    <3>2. v[k] = [hist |-> [w.idx[k].hist EXCEPT ![q] = 0], head |-> w.idx[k].head,
                  prune |-> w.idx[k].prune]
      BY <2>4, <3>1 DEF Buffer
    <3>3. [w.idx[k].hist EXCEPT ![q] = 0] \in [0..d - 1 -> Nat]
      BY <3>1
    <3> DEFINE h == [w.idx[k].hist EXCEPT ![q] = 0]
    <3>4. h[q] = 0 /\ \A p \in 0..d - 1 : p # q => h[p] = w.idx[k].hist[p]
      BY <2>2, <3>1
    <3> HIDE DEF v, h
    <3>5. v[k].head = w.idx[k].head /\ v[k].prune = w.idx[k].prune /\ v[k].hist = h
      BY <3>2 DEF h
    <3>6. v[k] \in Buffer(d)
      BY <3>1, <3>2, <3>3 DEF Buffer
    <3> QED BY <3>4, <3>5, <3>6
  <2>6. v \in [DOMAIN v -> Buffer(d)] /\ DOMAIN v \subseteq Keys
    <3>1. \A x \in DOMAIN v : v[x] \in Buffer(d)
      BY <2>3, <2>5, <1>3
    <3>2. v = [x \in DOMAIN v |-> v[x]]
      BY <2>1
    <3> HIDE DEF v
    <3> QED BY <3>1, <3>2, <2>3, <1>2 DEF Ring
  <2> HIDE DEF v
  <2>7. \A x \in DOMAIN v : v[x].hist[v[x].head] # 0
    <3> SUFFICES ASSUME NEW x \in DOMAIN v PROVE v[x].hist[v[x].head] # 0
      OBVIOUS
    <3>1. x \in DOMAIN w.idx /\ w.idx[x].hist[w.idx[x].head] # 0 /\ w.idx[x].head \in 0..d - 1
      BY <1>2, <1>3, <2>3 DEF Ring
    <3>2. CASE x = k
      BY <3>1, <3>2, <2>2, <2>5
    <3>3. CASE x # k
      BY <3>1, <3>3, <2>3
    <3> QED BY <3>2, <3>3
  <2>8. \A x \in DOMAIN v : \A p \in 0..d - 1 : v[x].hist[p] # 0 =>
             /\ v[x].hist[p] = w.idx[x].hist[p] /\ w.idx[x].hist[p] # s
    <3> SUFFICES ASSUME NEW x \in DOMAIN v, NEW p \in 0..d - 1, v[x].hist[p] # 0
                 PROVE  v[x].hist[p] = w.idx[x].hist[p] /\ w.idx[x].hist[p] # s
      OBVIOUS
    <3>1. v[x].hist[p] = w.idx[x].hist[p] /\ (x # k \/ p # q)
      BY <2>3, <2>5
    <3>2. w.nodes[w.idx[x].hist[p]].inst = x /\ w.nodes[w.idx[x].hist[p]].pos = p
      BY <3>1, <2>3, <1>2 DEF Ring
    <3> QED BY <3>1, <3>2 DEF k, q
  <2>9. \A x \in DOMAIN v : \A p \in 0..d - 1 : v[x].hist[p] # 0 =>
             /\ v[x].hist[p] \in DOMAIN left
             /\ left[v[x].hist[p]].inst = x /\ left[v[x].hist[p]].pos = p
    <3> SUFFICES ASSUME NEW x \in DOMAIN v, NEW p \in 0..d - 1, v[x].hist[p] # 0
                 PROVE  /\ v[x].hist[p] \in DOMAIN left
                        /\ left[v[x].hist[p]].inst = x /\ left[v[x].hist[p]].pos = p
      OBVIOUS
    <3>1. v[x].hist[p] = w.idx[x].hist[p] /\ w.idx[x].hist[p] # s /\ x \in DOMAIN w.idx
      BY <2>8, <2>3
    <3>2. /\ w.idx[x].hist[p] \in DOMAIN w.nodes
          /\ w.nodes[w.idx[x].hist[p]].inst = x /\ w.nodes[w.idx[x].hist[p]].pos = p
      BY <3>1, <1>2 DEF Ring
    <3> QED BY <3>1, <3>2, <1>1
  <2>10. \A t \in DOMAIN left : left[t].inst # NoKey =>
             /\ left[t].inst \in DOMAIN v /\ left[t].pos \in 0..d - 1
             /\ v[left[t].inst].hist[left[t].pos] = t
    <3> SUFFICES ASSUME NEW t \in DOMAIN left, left[t].inst # NoKey
                 PROVE  /\ left[t].inst \in DOMAIN v /\ left[t].pos \in 0..d - 1
                        /\ v[left[t].inst].hist[left[t].pos] = t
      OBVIOUS
    <3>1. /\ left[t].inst \in DOMAIN w.idx /\ left[t].pos \in 0..d - 1
          /\ w.idx[left[t].inst].hist[left[t].pos] = t /\ t # s
      BY <1>1, <1>2, <1>4 DEF Ring
    <3>2. left[t].inst # k \/ left[t].pos # q
      BY <3>1, <2>2
    <3> QED BY <3>1, <3>2, <2>3, <2>5
  <2>11. Ring(left, v, d)
    BY <2>6, <2>7, <2>9, <2>10 DEF Ring
  <2> QED BY <2>3, <2>5, <2>11, <2>2 DEF left, v
<1>7. CASE n.inst # NoKey /\ n.pos = w.idx[n.inst].head
  <2> DEFINE k == n.inst
  <2>1. v = Restrict(w.idx, DOMAIN w.idx \ {k})
    BY <1>7 DEF Unindexed
  <2>2. DOMAIN v = DOMAIN w.idx \ {k} /\ v = [x \in DOMAIN v |-> w.idx[x]]
    BY <2>1 DEF Restrict
  <2> HIDE DEF v
  <2>3. \A x \in DOMAIN v : x \in DOMAIN w.idx /\ v[x] = w.idx[x]
    BY <2>2
  <2>4. \A p \in 0..d - 1 : w.idx[k].hist[p] \in {0, s}
    BY <1>7 DEF Loose
  <2>5. \A t \in DOMAIN left : left[t].inst # k
    <3> SUFFICES ASSUME NEW t \in DOMAIN left, left[t].inst = k PROVE FALSE
      OBVIOUS
    <3>1. t # s /\ t \in DOMAIN w.nodes /\ w.nodes[t].inst = k /\ k # NoKey /\ left[t] = w.nodes[t]
      BY <1>1, <1>4, <1>7
    <3>2. w.idx[k].hist[w.nodes[t].pos] = t /\ w.nodes[t].pos \in 0..d - 1
      BY <3>1, <1>2 DEF Ring
    <3>3. t # 0
      BY <3>1 DEF Core
    <3> QED BY <3>1, <3>2, <3>3, <2>4
  <2>6. \A x \in DOMAIN v : \A p \in 0..d - 1 : v[x].hist[p] # 0 =>
             /\ v[x].hist[p] \in DOMAIN left
             /\ left[v[x].hist[p]].inst = x /\ left[v[x].hist[p]].pos = p
    <3> SUFFICES ASSUME NEW x \in DOMAIN v, NEW p \in 0..d - 1, v[x].hist[p] # 0
                 PROVE  /\ v[x].hist[p] \in DOMAIN left
                        /\ left[v[x].hist[p]].inst = x /\ left[v[x].hist[p]].pos = p
      OBVIOUS
    <3>1. /\ v[x].hist[p] \in DOMAIN w.nodes
          /\ w.nodes[v[x].hist[p]].inst = x /\ w.nodes[v[x].hist[p]].pos = p
      BY <2>3, <1>2 DEF Ring
    <3>2. x # k
      BY <2>2
    <3> QED BY <3>1, <3>2, <1>1
  <2>7. \A t \in DOMAIN left : left[t].inst # NoKey =>
             /\ left[t].inst \in DOMAIN v /\ left[t].pos \in 0..d - 1
             /\ v[left[t].inst].hist[left[t].pos] = t
    <3> SUFFICES ASSUME NEW t \in DOMAIN left, left[t].inst # NoKey
                 PROVE  /\ left[t].inst \in DOMAIN v /\ left[t].pos \in 0..d - 1
                        /\ v[left[t].inst].hist[left[t].pos] = t
      OBVIOUS
    <3>1. t \in DOMAIN w.nodes /\ left[t] = w.nodes[t] /\ left[t].inst # k
      BY <1>1, <1>4, <2>5
    <3>2. /\ w.nodes[t].inst \in DOMAIN w.idx /\ w.nodes[t].pos \in 0..d - 1
          /\ w.idx[w.nodes[t].inst].hist[w.nodes[t].pos] = t
      BY <3>1, <1>2 DEF Ring
    <3> QED BY <3>1, <3>2, <2>2, <2>3
  <2>8. Ring(left, v, d)
    <3>1. DOMAIN v \subseteq Keys /\ v \in [DOMAIN v -> Buffer(d)]
      BY <2>2, <2>3, <1>2, <1>3 DEF Ring
    <3>2. \A x \in DOMAIN v : v[x].hist[v[x].head] # 0
      BY <2>3, <1>2 DEF Ring
    <3> QED BY <2>6, <2>7, <3>1, <3>2 DEF Ring
  <2> QED BY <2>3, <2>8 DEF left, v
<1> QED BY <1>5, <1>6, <1>7

\* whc_delete_one keeps the structures together and changes nothing else.
LEMMA DeleteOneKeeps ==
    ASSUME NEW w, Core(w), NEW s \in DOMAIN w.nodes, Loose(w, s)
    PROVE  Core(DeleteOne(w, s)) /\ Less(w, DeleteOne(w, s), {s}, {}) /\ SamePrunes(w, DeleteOne(w, s))
<1> DEFINE left == Restrict(w.nodes, DOMAIN w.nodes \ {s})
           v == DeleteOne(w, s)
           i == Nibbled(w, s)
<1>1. v = [nodes |-> left, intvs |-> i.intvs, open |-> i.open, size |-> w.size - 1,
           unacked |-> w.unacked - (IF w.nodes[s].unacked THEN 1 ELSE 0),
           maxseq |-> w.maxseq, maxDrop |-> w.maxDrop, idx |-> Unindexed(w, s),
           tldepth |-> w.tldepth, idxdepth |-> w.idxdepth, hdepth |-> w.hdepth, tl |-> w.tl]
  <2>1. Fields(w)
    BY DEF Core
  <2> DEFINE u == w.unacked - (IF w.nodes[s].unacked THEN 1 ELSE 0)
  <2>2. DeleteNode(w, s) = [w EXCEPT !.nodes = left, !.idx = Unindexed(w, s), !.unacked = u,
                                     !.intvs = i.intvs, !.open = i.open]
    BY DEF DeleteNode
  <2> HIDE DEF left, i, u
  <2>3. DeleteNode(w, s) =
          [nodes |-> left, intvs |-> i.intvs, open |-> i.open, size |-> w.size,
           unacked |-> u, maxseq |-> w.maxseq, maxDrop |-> w.maxDrop, idx |-> Unindexed(w, s),
           tldepth |-> w.tldepth, idxdepth |-> w.idxdepth, hdepth |-> w.hdepth, tl |-> w.tl]
    BY <2>1, <2>2 DEF Fields
  <2> QED BY <2>3 DEF DeleteOne, u
<1>2. /\ DOMAIN left = DOMAIN w.nodes \ {s} /\ \A t \in DOMAIN left : left[t] = w.nodes[t]
      /\ left \in [DOMAIN left -> Node]
      /\ Cardinality(DOMAIN left) = w.size - 1
      /\ Cardinality(Unacked(left)) = w.unacked - (IF w.nodes[s].unacked THEN 1 ELSE 0)
  BY RestrictedNodes
<1>3. /\ Ring(left, Unindexed(w, s), w.idxdepth)
      /\ \A k \in DOMAIN Unindexed(w, s) :
                 /\ k \in DOMAIN w.idx /\ Unindexed(w, s)[k].head = w.idx[k].head
                 /\ Unindexed(w, s)[k].prune = w.idx[k].prune
  BY UnindexedKeeps
<1>4. /\ Intervals(i.intvs, i.open, DOMAIN w.nodes \ {s})
      /\ i.open.maxp1 <= w.open.maxp1
  <2>1. s \in Nat \ {0} /\ Intervals(w.intvs, w.open, DOMAIN w.nodes)
    BY DEF Core
  <2> QED BY <2>1, NibbledKeeps
<1>5. Fields(v)
  BY <1>1 DEF Fields
<1> HIDE DEF left, i
<1>6. Core(v)
  BY <1>1, <1>2, <1>3, <1>4, <1>5 DEF Core, Depths
<1>7. Less(w, v, {s}, {}) /\ SamePrunes(w, v)
  BY <1>1, <1>2, <1>3, <1>4 DEF Less, Fewer, SamePrunes
<1> QED BY <1>6, <1>7

----------------------------------------------------------------------------
\* The loops

\* the function that DeleteAll defines recursively
Deleting(w, S, f) ==
    f = [n \in 0..MaxSeq |->
           IF n = 0 THEN w ELSE IF n \in S THEN DeleteOne(f[n - 1], n) ELSE f[n - 1]]

\* It exists.
LEMMA DeletingExists == ASSUME NEW w, NEW S PROVE \E f : Deleting(w, S, f)
<1> DEFINE Step(f, n) == IF n = 0 THEN w
                         ELSE IF n \in S THEN DeleteOne(f[n - 1], n) ELSE f[n - 1]
           Defined == {n \in 0..MaxSeq : \E f : f = [j \in 0..n |-> Step(f, j)]}
<1>0. MaxSeq \in Nat
  BY WHCAssumption
<1>1. 0 \in Defined
  <2> DEFINE f0 == [j \in 0..0 |-> w]
  <2>1. f0 = [j \in 0..0 |-> Step(f0, j)]
    OBVIOUS
  <2>2. (\E f : f = [j \in 0..0 |-> Step(f, j)]) /\ 0 \in 0..MaxSeq
    <3> HIDE DEF f0, Step
    <3> QED BY <2>1, <1>0
  <2> QED BY <2>2
<1>2. ASSUME NEW i \in 1..MaxSeq, i - 1 \in Defined PROVE i \in Defined
  <2>1. PICK f : f = [j \in 0..i - 1 |-> Step(f, j)]
    BY <1>2
  <2> DEFINE g == [j \in 0..i |-> Step(f, j)]
  <2>2. \A j \in 0..i - 1 : g[j] = f[j]
    <3>1. \A j \in 0..i - 1 : f[j] = Step(f, j)
      BY <2>1
    <3>2. \A j \in 0..i - 1 : j \in 0..i
      OBVIOUS
    <3> QED BY <3>1, <3>2
  <2>3. \A j \in 0..i : j # 0 => j - 1 \in 0..i - 1
    OBVIOUS
  <2>4. ASSUME NEW j \in 0..i PROVE Step(g, j) = Step(f, j)
    <3> HIDE DEF g
    <3> QED BY <2>2, <2>3
  <2>5. g = [j \in 0..i |-> Step(g, j)]
    <3> HIDE DEF Step
    <3> QED BY <2>4
  <2>6. i \in 0..MaxSeq
    OBVIOUS
  <2> QED BY <2>5, <2>6
<1>3. 0..MaxSeq \subseteq Defined
  <2> HIDE DEF Defined
  <2> QED BY <1>0, <1>1, <1>2, Upward
<1>4. \E f : f = [j \in 0..MaxSeq |-> Step(f, j)]
  BY <1>0, <1>3
<1> QED BY <1>4 DEF Deleting

\* DeleteAll is its last value.
LEMMA DeleteAllIs ==
    ASSUME NEW w, NEW S
    PROVE  \E f : /\ DeleteAll(w, S) = f[MaxSeq] /\ f[0] = w
                  /\ \A n \in 1..MaxSeq : f[n] = IF n \in S THEN DeleteOne(f[n - 1], n) ELSE f[n - 1]
<1>0. MaxSeq \in Nat
  BY WHCAssumption
<1>1. DeleteAll(w, S) = (CHOOSE f : Deleting(w, S, f))[MaxSeq]
  BY DEF DeleteAll, Deleting
<1>2. PICK f : Deleting(w, S, f) /\ DeleteAll(w, S) = f[MaxSeq]
  BY <1>1, DeletingExists
<1>3. \A n \in 0..MaxSeq :
         f[n] = IF n = 0 THEN w ELSE IF n \in S THEN DeleteOne(f[n - 1], n) ELSE f[n - 1]
  BY <1>2 DEF Deleting
<1>4. 0 \in 0..MaxSeq /\ \A n \in 1..MaxSeq : n \in 0..MaxSeq /\ n # 0
  BY <1>0
<1> QED BY <1>2, <1>3, <1>4

\* the function that FirstPass defines recursively
FirstGoing(w, m, f) ==
    f = [n \in 0..MaxSeq |->
           IF n = 0 THEN w ELSE IF n \in InRange(w, m) THEN DropOrKeep(f[n - 1], n) ELSE f[n - 1]]

\* It exists.
LEMMA FirstGoingExists == ASSUME NEW w, NEW m PROVE \E f : FirstGoing(w, m, f)
<1> DEFINE Step(f, n) == IF n = 0 THEN w
                         ELSE IF n \in InRange(w, m) THEN DropOrKeep(f[n - 1], n) ELSE f[n - 1]
           Defined == {n \in 0..MaxSeq : \E f : f = [j \in 0..n |-> Step(f, j)]}
<1>0. MaxSeq \in Nat
  BY WHCAssumption
<1>1. 0 \in Defined
  <2> DEFINE f0 == [j \in 0..0 |-> w]
  <2>1. f0 = [j \in 0..0 |-> Step(f0, j)]
    OBVIOUS
  <2>2. (\E f : f = [j \in 0..0 |-> Step(f, j)]) /\ 0 \in 0..MaxSeq
    <3> HIDE DEF f0, Step
    <3> QED BY <2>1, <1>0
  <2> QED BY <2>2
<1>2. ASSUME NEW i \in 1..MaxSeq, i - 1 \in Defined PROVE i \in Defined
  <2>1. PICK f : f = [j \in 0..i - 1 |-> Step(f, j)]
    BY <1>2
  <2> DEFINE g == [j \in 0..i |-> Step(f, j)]
  <2>2. \A j \in 0..i - 1 : g[j] = f[j]
    <3>1. \A j \in 0..i - 1 : f[j] = Step(f, j)
      BY <2>1
    <3>2. \A j \in 0..i - 1 : j \in 0..i
      OBVIOUS
    <3> QED BY <3>1, <3>2
  <2>3. \A j \in 0..i : j # 0 => j - 1 \in 0..i - 1
    OBVIOUS
  <2>4. ASSUME NEW j \in 0..i PROVE Step(g, j) = Step(f, j)
    <3> HIDE DEF g
    <3> QED BY <2>2, <2>3
  <2>5. g = [j \in 0..i |-> Step(g, j)]
    <3> HIDE DEF Step
    <3> QED BY <2>4
  <2>6. i \in 0..MaxSeq
    OBVIOUS
  <2> QED BY <2>5, <2>6
<1>3. 0..MaxSeq \subseteq Defined
  <2> HIDE DEF Defined
  <2> QED BY <1>0, <1>1, <1>2, Upward
<1>4. \E f : f = [j \in 0..MaxSeq |-> Step(f, j)]
  BY <1>0, <1>3
<1> QED BY <1>4 DEF FirstGoing

\* FirstPass is its last value.
LEMMA FirstPassIs ==
    ASSUME NEW w, NEW m
    PROVE  \E f : /\ FirstPass(w, m) = f[MaxSeq] /\ f[0] = w
                  /\ \A n \in 1..MaxSeq : f[n] = IF n \in InRange(w, m) THEN DropOrKeep(f[n - 1], n) ELSE f[n - 1]
<1>0. MaxSeq \in Nat
  BY WHCAssumption
<1>1. FirstPass(w, m) = (CHOOSE f : FirstGoing(w, m, f))[MaxSeq]
  BY DEF FirstPass, FirstGoing
<1>2. PICK f : FirstGoing(w, m, f) /\ FirstPass(w, m) = f[MaxSeq]
  BY <1>1, FirstGoingExists
<1>3. \A n \in 0..MaxSeq :
         f[n] = IF n = 0 THEN w ELSE IF n \in InRange(w, m) THEN DropOrKeep(f[n - 1], n) ELSE f[n - 1]
  BY <1>2 DEF FirstGoing
<1>4. 0 \in 0..MaxSeq /\ \A n \in 1..MaxSeq : n \in 0..MaxSeq /\ n # 0
  BY <1>0
<1> QED BY <1>2, <1>3, <1>4

\* the function that SecondPass defines recursively
SecondGoing(w, m, f) ==
    f = [n \in 0..MaxSeq |->
           IF n = 0 THEN w ELSE IF n \in InRange(w, m) THEN Prune(f[n - 1], n, m) ELSE f[n - 1]]

\* It exists.
LEMMA SecondGoingExists == ASSUME NEW w, NEW m PROVE \E f : SecondGoing(w, m, f)
<1> DEFINE Step(f, n) == IF n = 0 THEN w
                         ELSE IF n \in InRange(w, m) THEN Prune(f[n - 1], n, m) ELSE f[n - 1]
           Defined == {n \in 0..MaxSeq : \E f : f = [j \in 0..n |-> Step(f, j)]}
<1>0. MaxSeq \in Nat
  BY WHCAssumption
<1>1. 0 \in Defined
  <2> DEFINE f0 == [j \in 0..0 |-> w]
  <2>1. f0 = [j \in 0..0 |-> Step(f0, j)]
    OBVIOUS
  <2>2. (\E f : f = [j \in 0..0 |-> Step(f, j)]) /\ 0 \in 0..MaxSeq
    <3> HIDE DEF f0, Step
    <3> QED BY <2>1, <1>0
  <2> QED BY <2>2
<1>2. ASSUME NEW i \in 1..MaxSeq, i - 1 \in Defined PROVE i \in Defined
  <2>1. PICK f : f = [j \in 0..i - 1 |-> Step(f, j)]
    BY <1>2
  <2> DEFINE g == [j \in 0..i |-> Step(f, j)]
  <2>2. \A j \in 0..i - 1 : g[j] = f[j]
    <3>1. \A j \in 0..i - 1 : f[j] = Step(f, j)
      BY <2>1
    <3>2. \A j \in 0..i - 1 : j \in 0..i
      OBVIOUS
    <3> QED BY <3>1, <3>2
  <2>3. \A j \in 0..i : j # 0 => j - 1 \in 0..i - 1
    OBVIOUS
  <2>4. ASSUME NEW j \in 0..i PROVE Step(g, j) = Step(f, j)
    <3> HIDE DEF g
    <3> QED BY <2>2, <2>3
  <2>5. g = [j \in 0..i |-> Step(g, j)]
    <3> HIDE DEF Step
    <3> QED BY <2>4
  <2>6. i \in 0..MaxSeq
    OBVIOUS
  <2> QED BY <2>5, <2>6
<1>3. 0..MaxSeq \subseteq Defined
  <2> HIDE DEF Defined
  <2> QED BY <1>0, <1>1, <1>2, Upward
<1>4. \E f : f = [j \in 0..MaxSeq |-> Step(f, j)]
  BY <1>0, <1>3
<1> QED BY <1>4 DEF SecondGoing

\* SecondPass is its last value.
LEMMA SecondPassIs ==
    ASSUME NEW w, NEW m
    PROVE  \E f : /\ SecondPass(w, m) = f[MaxSeq] /\ f[0] = w
                  /\ \A n \in 1..MaxSeq : f[n] = IF n \in InRange(w, m) THEN Prune(f[n - 1], n, m) ELSE f[n - 1]
<1>0. MaxSeq \in Nat
  BY WHCAssumption
<1>1. SecondPass(w, m) = (CHOOSE f : SecondGoing(w, m, f))[MaxSeq]
  BY DEF SecondPass, SecondGoing
<1>2. PICK f : SecondGoing(w, m, f) /\ SecondPass(w, m) = f[MaxSeq]
  BY <1>1, SecondGoingExists
<1>3. \A n \in 0..MaxSeq :
         f[n] = IF n = 0 THEN w ELSE IF n \in InRange(w, m) THEN Prune(f[n - 1], n, m) ELSE f[n - 1]
  BY <1>2 DEF SecondGoing
<1>4. 0 \in 0..MaxSeq /\ \A n \in 1..MaxSeq : n \in 0..MaxSeq /\ n # 0
  BY <1>0
<1> QED BY <1>2, <1>3, <1>4

----------------------------------------------------------------------------
\* Deleting several samples

\* s is not the newest sample in the buffer of its instance
NotHead(w, s) ==
    w.nodes[s].inst = NoKey \/ w.nodes[s].pos # w.idx[w.nodes[s].inst].head

\* A cache is what is left of it when nothing is deleted.
LEMMA LessNothing == ASSUME NEW w, Core(w) PROVE Less(w, w, {}, {}) /\ SamePrunes(w, w)
<1>1. w.open.maxp1 <= w.open.maxp1
  BY DEF Core, Intervals
<1> QED BY <1>1 DEF Less, Fewer, SamePrunes

\* What is deleted, and what loses its flag, adds up.
LEMMA LessTrans ==
    ASSUME NEW w, NEW v, NEW u, Core(w), Core(v), Core(u),
           NEW S, NEW F, NEW R, NEW G, Less(w, v, S, F), Less(v, u, R, G)
    PROVE  /\ Less(w, u, S \cup R, F \cup G)
           /\ SamePrunes(w, v) /\ SamePrunes(v, u) => SamePrunes(w, u)
<1>1. w.open.maxp1 \in Nat /\ v.open.maxp1 \in Nat /\ u.open.maxp1 \in Nat
  BY DEF Core, Intervals
<1>2. u.open.maxp1 <= w.open.maxp1
  BY <1>1 DEF Less, Fewer
<1>3. \A s \in DOMAIN u.nodes :
          /\ u.nodes[s].inst = w.nodes[s].inst /\ u.nodes[s].pos = w.nodes[s].pos
          /\ u.nodes[s].unacked <=> w.nodes[s].unacked /\ s \notin F \cup G
  BY DEF Less, Fewer
<1>4. \A k \in DOMAIN u.idx : k \in DOMAIN v.idx /\ k \in DOMAIN w.idx
                              /\ u.idx[k].head = w.idx[k].head
  BY DEF Less, Fewer
<1>5. DOMAIN u.nodes = DOMAIN w.nodes \ (S \cup R)
  BY DEF Less, Fewer
<1> QED BY <1>2, <1>3, <1>4, <1>5 DEF Less, Fewer, SamePrunes

\* What is not the newest of its instance may go, and stays so.
LEMMA NotHeadLoose ==
    ASSUME NEW w, NEW v, Core(v), NEW S, NEW F, Less(w, v, S, F),
           NEW s \in DOMAIN v.nodes, NotHead(w, s)
    PROVE  NotHead(v, s) /\ Loose(v, s)
<1>1. v.nodes[s].inst = w.nodes[s].inst /\ v.nodes[s].pos = w.nodes[s].pos
  BY DEF Less, Fewer
<1>2. v.nodes[s].inst # NoKey => v.nodes[s].inst \in DOMAIN v.idx
  BY DEF Core, Ring
<1>3. v.nodes[s].inst # NoKey => v.idx[v.nodes[s].inst].head = w.idx[w.nodes[s].inst].head
  BY <1>1, <1>2 DEF Less, Fewer
<1> QED BY <1>1, <1>3 DEF NotHead, Loose

\* Deleting several samples, none of which is the head of its buffer, leaves a cache
\* that has lost them and nothing else.
LEMMA DeleteAllKeeps ==
    ASSUME NEW w, Core(w), NEW S \in SUBSET DOMAIN w.nodes, \A s \in S : NotHead(w, s)
    PROVE  /\ Core(DeleteAll(w, S)) /\ Less(w, DeleteAll(w, S), S, {})
           /\ SamePrunes(w, DeleteAll(w, S))
<1>1. PICK f : /\ DeleteAll(w, S) = f[MaxSeq] /\ f[0] = w
               /\ \A n \in 1..MaxSeq : f[n] = IF n \in S THEN DeleteOne(f[n - 1], n) ELSE f[n - 1]
  BY DeleteAllIs
<1> DEFINE Gone(n) == {s \in S : s <= n}
           Right(n) == Core(f[n]) /\ Less(w, f[n], Gone(n), {}) /\ SamePrunes(w, f[n])
           Good == {n \in 0..MaxSeq : Right(n)}
<1>0. MaxSeq \in Nat /\ S \subseteq 1..MaxSeq
  BY WHCAssumption DEF Core
<1>2. 0 \in Good
  <2>1. Gone(0) = {}
    BY <1>0
  <2> HIDE DEF Gone
  <2>2. Right(0)
    BY <2>1, <1>1, LessNothing
  <2>3. 0 \in 0..MaxSeq
    BY <1>0
  <2> QED BY <2>2, <2>3
<1>3. ASSUME NEW n \in 1..MaxSeq, n - 1 \in Good PROVE n \in Good
  <2>1. Right(n - 1) /\ n \in 0..MaxSeq
    BY <1>3
  <2>2. CASE n \notin S
    <3>1. f[n] = f[n - 1]
      BY <1>1, <2>2
    <3>2. Gone(n) = Gone(n - 1)
      BY <1>0, <2>2
    <3> QED BY <2>1, <3>1, <3>2
  <2>3. CASE n \in S
    <3>1. f[n] = DeleteOne(f[n - 1], n)
      BY <1>1, <2>3
    <3>2. Gone(n) = Gone(n - 1) \cup {n} /\ n \notin Gone(n - 1)
      BY <1>0, <2>3
    <3> HIDE DEF Gone
    <3>3. n \in DOMAIN f[n - 1].nodes
      BY <2>1, <2>3, <3>2 DEF Less, Fewer
    <3>4. Loose(f[n - 1], n)
      BY <2>1, <2>3, <3>3, NotHeadLoose
    <3>5. /\ Core(f[n]) /\ Less(f[n - 1], f[n], {n}, {})
          /\ SamePrunes(f[n - 1], f[n])
      BY <2>1, <3>1, <3>3, <3>4, DeleteOneKeeps
    <3>6. /\ Core(f[n - 1]) /\ Less(w, f[n - 1], Gone(n - 1), {})
          /\ SamePrunes(w, f[n - 1])
      BY <2>1
    <3>7. /\ Less(w, f[n], Gone(n - 1) \cup {n}, {} \cup {})
          /\ SamePrunes(w, f[n])
      <4> HIDE DEF Right, Good
      <4> QED BY <3>5, <3>6, LessTrans
    <3> QED BY <2>1, <3>2, <3>5, <3>7
  <2> QED BY <2>2, <2>3
<1>4. 0..MaxSeq \subseteq Good
  <2> HIDE DEF Good
  <2> QED BY <1>0, <1>2, <1>3, Upward
<1>5. Right(MaxSeq)
  BY <1>0, <1>4
<1>6. Gone(MaxSeq) = S
  BY <1>0
<1> QED BY <1>1, <1>5, <1>6

----------------------------------------------------------------------------
\* whc_remove_acked_messages_full

\* Positions are less than a whole buffer behind the head, which is behind itself by 0, and
\* no two are at the same distance.
LEMMA BehindRange ==
    ASSUME NEW w, Core(w), NEW k \in DOMAIN w.idx, NEW p \in 0..w.idxdepth - 1
    PROVE  /\ Behind(w, k, p) \in 0..w.idxdepth - 1
           /\ Behind(w, k, p) = 0 <=> p = w.idx[k].head
           /\ \A q \in 0..w.idxdepth - 1 : Behind(w, k, p) = Behind(w, k, q) => p = q
<1>1. w.idx[k].head \in 0..w.idxdepth - 1 /\ w.idxdepth \in Nat
  BY DEF Core, Depths, Ring, Buffer
<1> QED BY <1>1 DEF Behind

\* What is linked has its place in a buffer.
LEMMA LinkedPlace ==
    ASSUME NEW w, Core(w), NEW s \in DOMAIN w.nodes, w.nodes[s].inst # NoKey
    PROVE  /\ w.nodes[s].inst \in DOMAIN w.idx /\ w.nodes[s].pos \in 0..w.idxdepth - 1
           /\ w.idx[w.nodes[s].inst].hist[w.nodes[s].pos] = s
BY DEF Core, Ring

\* What is in a buffer is linked to it, and the newest sample is there.
LEMMA SlotPlace ==
    ASSUME NEW w, Core(w), NEW k \in DOMAIN w.idx
    PROVE  /\ w.idx[k].head \in 0..w.idxdepth - 1 /\ w.idx[k].hist[w.idx[k].head] # 0
           /\ k \in Keys /\ k # NoKey /\ w.idx[k] \in Buffer(w.idxdepth)
           /\ \A p \in 0..w.idxdepth - 1 : w.idx[k].hist[p] # 0 =>
                 /\ w.idx[k].hist[p] \in DOMAIN w.nodes
                 /\ w.nodes[w.idx[k].hist[p]].inst = k /\ w.nodes[w.idx[k].hist[p]].pos = p
<1>1. Ring(w.nodes, w.idx, w.idxdepth)
  BY DEF Core
<1>2. w.idx[k] \in Buffer(w.idxdepth) /\ k \in Keys
  BY <1>1 DEF Ring
<1> QED BY <1>1, <1>2, WHCAssumption DEF Ring, Buffer

\* The sample in a slot knows its place.
LEMMA SlotIs ==
    ASSUME NEW w, Core(w), NEW k \in DOMAIN w.idx, NEW p \in 0..w.idxdepth - 1,
           NEW t, t = w.idx[k].hist[p], t # 0
    PROVE  t \in DOMAIN w.nodes /\ w.nodes[t].inst = k /\ w.nodes[t].pos = p
<1>1. Ring(w.nodes, w.idx, w.idxdepth)
  BY DEF Core
<1> QED BY <1>1 DEF Ring

\* So does the one at the head.
LEMMA HeadPlace ==
    ASSUME NEW w, Core(w), NEW k \in DOMAIN w.idx, NEW h, h = w.idx[k].hist[w.idx[k].head]
    PROVE  h \in DOMAIN w.nodes /\ w.nodes[h].inst = k /\ w.nodes[h].pos = w.idx[k].head
<1>1. Ring(w.nodes, w.idx, w.idxdepth)
  BY DEF Core
<1>2. w.idx[k].head \in 0..w.idxdepth - 1 /\ h # 0
  BY <1>1 DEF Ring, Buffer
<1> QED BY <1>2, SlotIs

\* The transient-local history of w stays that of v.
LEMMA InTLSame ==
    ASSUME NEW w, NEW v, Core(v), NEW S, NEW F, Less(w, v, S, F), NEW s \in DOMAIN v.nodes
    PROVE  /\ InTLIdx(v, s) <=> InTLIdx(w, s)
           /\ v.nodes[s].inst # NoKey =>
                 Behind(v, v.nodes[s].inst, v.nodes[s].pos)
                    = Behind(w, w.nodes[s].inst, w.nodes[s].pos)
<1>1. v.nodes[s].inst = w.nodes[s].inst /\ v.nodes[s].pos = w.nodes[s].pos
  BY DEF Less, Fewer
<1>2. v.idxdepth = w.idxdepth /\ v.tldepth = w.tldepth
  BY DEF Less, Fewer
<1>3. v.nodes[s].inst # NoKey => v.idx[v.nodes[s].inst].head = w.idx[w.nodes[s].inst].head
  BY <1>1, LinkedPlace DEF Less, Fewer
<1> QED BY <1>1, <1>2, <1>3 DEF InTLIdx, Behind

\* A sample that stays is no longer counted.
LEMMA KeepOneKeeps ==
    ASSUME NEW w, Core(w), NEW s \in DOMAIN w.nodes, InTLIdx(w, s)
    PROVE  /\ Core(DropOrKeep(w, s)) /\ Less(w, DropOrKeep(w, s), {}, {s})
           /\ SamePrunes(w, DropOrKeep(w, s))
<1> DEFINE nodes == [w.nodes EXCEPT ![s].unacked = FALSE]
           u == w.unacked - (IF w.nodes[s].unacked THEN 1 ELSE 0)
           v == DropOrKeep(w, s)
<1>1. Fields(w)
  BY DEF Core
<1>2. v = [w EXCEPT !.unacked = u, !.nodes[s].unacked = FALSE]
  BY DEF DropOrKeep
<1> HIDE DEF u
<1>3. v = [nodes |-> nodes, intvs |-> w.intvs, open |-> w.open, size |-> w.size,
           unacked |-> u, maxseq |-> w.maxseq, maxDrop |-> w.maxDrop, idx |-> w.idx,
           tldepth |-> w.tldepth, idxdepth |-> w.idxdepth, hdepth |-> w.hdepth, tl |-> w.tl]
  BY <1>1, <1>2 DEF Fields
<1>4. /\ DOMAIN nodes = DOMAIN w.nodes /\ nodes \in [DOMAIN w.nodes -> Node]
      /\ \A t \in DOMAIN w.nodes : t # s => nodes[t] = w.nodes[t]
      /\ nodes[s].inst = w.nodes[s].inst /\ nodes[s].pos = w.nodes[s].pos
      /\ nodes[s].unacked = FALSE
  <2>1. w.nodes \in [DOMAIN w.nodes -> Node] /\ w.nodes[s] \in Node
    BY DEF Core
  <2>2. nodes[s] = [w.nodes[s] EXCEPT !.unacked = FALSE]
    BY <2>1
  <2>3. nodes[s] = [inst |-> w.nodes[s].inst, pos |-> w.nodes[s].pos, unacked |-> FALSE]
    BY <2>1, <2>2 DEF Node
  <2>4. nodes[s] \in Node
    BY <2>1, <2>3 DEF Node
  <2>5. DOMAIN nodes = DOMAIN w.nodes /\ \A t \in DOMAIN w.nodes : t # s => nodes[t] = w.nodes[t]
    BY <2>1
  <2>6. nodes \in [DOMAIN w.nodes -> Node]
    BY <2>1, <2>4
  <2> HIDE DEF nodes
  <2> QED BY <2>3, <2>5, <2>6
<1> HIDE DEF nodes, v
<1>5. \A t \in DOMAIN w.nodes : nodes[t].inst = w.nodes[t].inst /\ nodes[t].pos = w.nodes[t].pos
  BY <1>4
<1>6. Cardinality(Unacked(nodes)) = u
  <2>1. Unacked(w.nodes) \subseteq 1..MaxSeq /\ MaxSeq \in Nat
    BY WHCAssumption DEF Unacked, Core
  <2>2. IsFiniteSet(Unacked(w.nodes)) /\ Cardinality(Unacked(w.nodes)) \in Nat
    BY <2>1, Bounded
  <2>3. Unacked(nodes) = Unacked(w.nodes) \ {s}
    BY <1>4 DEF Unacked
  <2>4. CASE w.nodes[s].unacked
    <3>1. s \in Unacked(w.nodes)
      BY <2>4 DEF Unacked
    <3>2. Cardinality(Unacked(w.nodes) \ {s}) = Cardinality(Unacked(w.nodes)) - 1
      BY <3>1, <2>2, FS_RemoveElement
    <3> QED BY <2>3, <2>4, <3>2 DEF Core, u
  <2>5. CASE ~w.nodes[s].unacked
    <3>1. Unacked(nodes) = Unacked(w.nodes)
      BY <2>3, <2>5 DEF Unacked
    <3> QED BY <2>2, <2>5, <3>1 DEF Core, u
  <2> QED BY <2>4, <2>5
<1>7. Ring(nodes, w.idx, w.idxdepth)
  <2>1. Ring(w.nodes, w.idx, w.idxdepth)
    BY DEF Core
  <2>2. \A k \in DOMAIN w.idx : \A p \in 0..w.idxdepth - 1 : w.idx[k].hist[p] # 0 =>
           w.idx[k].hist[p] \in DOMAIN nodes
    BY <2>1, <1>4 DEF Ring
  <2> QED BY <2>1, <2>2, <1>4, <1>5, SameRing
<1>8. Fields(v)
  BY <1>3 DEF Fields
<1>9. Core(v)
  BY <1>3, <1>4, <1>6, <1>7, <1>8 DEF Core, Depths
<1>10. Less(w, v, {}, {s})
  <2>1. w.open.maxp1 <= w.open.maxp1
    BY DEF Core, Intervals
  <2>2. \A t \in DOMAIN w.nodes : nodes[t].unacked <=> w.nodes[t].unacked /\ t \notin {s}
    BY <1>4
  <2> QED BY <1>3, <1>4, <1>5, <2>1, <2>2 DEF Less, Fewer
<1> QED BY <1>3, <1>9, <1>10 DEF SamePrunes, v

\* the newest sample of an instance is the one at the head of its buffer
HeadLast(w) ==
    \A s \in DOMAIN w.nodes : w.nodes[s].inst # NoKey =>
       s <= w.idx[w.nodes[s].inst].hist[w.idx[w.nodes[s].inst].head]

\* what the first pass leaves at the head of a buffer it does not leave alone there
Droppable(w) == w.tldepth = 0 => HeadLast(w) /\ \A s \in DOMAIN w.nodes : s > w.maxDrop

Passed(w, m) == {s \in InRange(w, m) : ~InTLIdx(w, s)}

\* What the first pass deletes is never a head that others in its buffer depend on,
\* although earlier deletions of the same pass have changed the cache.
LEMMA PassedLoose ==
    ASSUME NEW w, Core(w), NEW m \in Nat, Droppable(w), NEW v, Core(v), NEW F,
           NEW n \in Passed(w, m), Less(w, v, {s \in Passed(w, m) : s < n}, F)
    PROVE  n \in DOMAIN v.nodes /\ Loose(v, n)
<1>1. /\ n \in InRange(w, m) /\ ~InTLIdx(w, n)
      /\ n \in DOMAIN w.nodes /\ n \in 1..MaxSeq /\ n > w.maxDrop /\ n <= m
  BY DEF Passed, InRange, Core
<1>2. n \in DOMAIN v.nodes
  BY <1>1 DEF Less, Fewer
<1>3. Loose(v, n)
  <2> DEFINE k == w.nodes[n].inst
             head == w.idx[k].head
  <2> SUFFICES ASSUME k # NoKey, v.nodes[n].pos = v.idx[k].head,
                      NEW p \in 0..w.idxdepth - 1, v.idx[k].hist[p] # 0
               PROVE  v.idx[k].hist[p] = n
    BY <1>2 DEF Loose, Less, Fewer
  <2>1. v.nodes[n].inst = k /\ v.nodes[n].pos = w.nodes[n].pos /\ v.idxdepth = w.idxdepth
    BY <1>2 DEF Less, Fewer
  <2>2. k \in DOMAIN v.idx /\ v.idx[k].head = head /\ k \in DOMAIN w.idx
    BY <1>2, <2>1, LinkedPlace DEF Less, Fewer
  <2>3. w.nodes[n].pos = head /\ head \in 0..w.idxdepth - 1 /\ w.idx[k].hist[head] = n
    <3>1. w.nodes[n].pos = head
      BY <2>1, <2>2
    <3>2. w.nodes[n].pos \in 0..w.idxdepth - 1 /\ w.idx[k].hist[w.nodes[n].pos] = n
      BY <1>1, LinkedPlace
    <3> HIDE DEF head, k
    <3> QED BY <3>1, <3>2
  <2> HIDE DEF k, head
  <2>4. Behind(w, k, head) = 0
    BY <2>2, <2>3, BehindRange DEF head
  <2>5. w.tldepth = 0
    BY <1>1, <2>3, <2>4 DEF InTLIdx, Core, Depths, k
  <2> DEFINE t == v.idx[k].hist[p]
  <2>6. t \in DOMAIN v.nodes /\ v.nodes[t].inst = k
    BY <2>1, <2>2, SlotIs
  <2>7. t \in DOMAIN w.nodes /\ w.nodes[t].inst = k /\ t \in 1..MaxSeq
    BY <2>6 DEF Less, Fewer, Core
  <2> HIDE DEF t
  <2>8. t <= n /\ t > w.maxDrop
    BY <2>3, <2>5, <2>7 DEF Droppable, HeadLast, k, head
  <2>9. t \in InRange(w, m)
    BY <1>1, <2>7, <2>8 DEF InRange
  <2>10. ~InTLIdx(w, t)
    <3>1. w.nodes[t].pos \in 0..w.idxdepth - 1
      BY <2>7, LinkedPlace
    <3>2. Behind(w, k, w.nodes[t].pos) \in 0..w.idxdepth - 1
      BY <3>1, <2>2, BehindRange
    <3>3. ~(Behind(w, k, w.nodes[t].pos) < 0)
      BY <3>2
    <3> QED BY <2>5, <2>7, <3>3 DEF InTLIdx
  <2>11. ~(t < n)
    BY <2>6, <2>9, <2>10 DEF Less, Fewer, Passed
  <2> QED BY <1>1, <2>7, <2>8, <2>11 DEF t
<1> QED BY <1>2, <1>3

\* The first pass drops what is acknowledged and not in the transient-local history.
LEMMA FirstPassKeeps ==
    ASSUME NEW w, Core(w), NEW m \in Nat, Droppable(w)
    PROVE  /\ Core(FirstPass(w, m)) /\ Less(w, FirstPass(w, m), Passed(w, m), InRange(w, m))
           /\ SamePrunes(w, FirstPass(w, m))
<1>1. PICK f : /\ FirstPass(w, m) = f[MaxSeq] /\ f[0] = w
               /\ \A n \in 1..MaxSeq :
                     f[n] = IF n \in InRange(w, m) THEN DropOrKeep(f[n - 1], n) ELSE f[n - 1]
  BY FirstPassIs
<1> DEFINE Gone(n) == {s \in Passed(w, m) : s <= n}
           Kept(n) == {s \in InRange(w, m) : s <= n}
           Right(n) == Core(f[n]) /\ Less(w, f[n], Gone(n), Kept(n)) /\ SamePrunes(w, f[n])
           Good == {n \in 0..MaxSeq : Right(n)}
<1>0. /\ MaxSeq \in Nat /\ InRange(w, m) \subseteq 1..MaxSeq
      /\ Passed(w, m) \subseteq InRange(w, m) /\ InRange(w, m) \subseteq DOMAIN w.nodes
  BY WHCAssumption DEF Core, InRange, Passed
<1>2. 0 \in Good
  <2>1. Gone(0) = {} /\ Kept(0) = {}
    BY <1>0
  <2> HIDE DEF Gone, Kept
  <2>2. Right(0)
    BY <2>1, <1>1, LessNothing
  <2>3. 0 \in 0..MaxSeq
    BY <1>0
  <2> QED BY <2>2, <2>3
<1>3. ASSUME NEW n \in 1..MaxSeq, n - 1 \in Good PROVE n \in Good
  <2>1. Right(n - 1) /\ n \in 0..MaxSeq
    BY <1>3
  <2>2. CASE n \notin InRange(w, m)
    <3>1. f[n] = f[n - 1]
      BY <1>1, <2>2
    <3>2. Gone(n) = Gone(n - 1) /\ Kept(n) = Kept(n - 1)
      BY <1>0, <2>2
    <3> QED BY <2>1, <3>1, <3>2
  <2>3. CASE n \in InRange(w, m)
    <3>1. f[n] = DropOrKeep(f[n - 1], n)
      BY <1>1, <2>3
    <3>2. Kept(n) = Kept(n - 1) \cup {n} /\ Gone(n - 1) = {s \in Passed(w, m) : s < n}
      BY <1>0, <2>3
    <3>3. /\ n \in Passed(w, m) => Gone(n) = Gone(n - 1) \cup {n}
          /\ n \notin Passed(w, m) => Gone(n) = Gone(n - 1) \cup {}
      BY <1>0
    <3>4. n \notin Gone(n - 1)
      OBVIOUS
    <3>5. /\ Core(f[n - 1]) /\ Less(w, f[n - 1], Gone(n - 1), Kept(n - 1))
          /\ SamePrunes(w, f[n - 1])
      BY <2>1
    <3> HIDE DEF Gone, Kept, Good, Right
    <3>6. n \in DOMAIN f[n - 1].nodes
      BY <2>3, <3>4, <3>5, <1>0 DEF Less, Fewer
    <3>7. InTLIdx(f[n - 1], n) <=> InTLIdx(w, n)
      BY <3>5, <3>6, InTLSame
    <3>8. CASE InTLIdx(w, n)
      <4>1. /\ Core(f[n]) /\ Less(f[n - 1], f[n], {}, {n}) /\ SamePrunes(f[n - 1], f[n])
        BY <3>1, <3>5, <3>6, <3>7, <3>8, KeepOneKeeps
      <4>2. /\ Less(w, f[n], Gone(n - 1) \cup {}, Kept(n - 1) \cup {n})
            /\ SamePrunes(w, f[n])
        BY <3>5, <4>1, LessTrans
      <4>3. n \notin Passed(w, m)
        BY <3>8 DEF Passed
      <4> QED BY <2>1, <3>2, <3>3, <4>1, <4>2, <4>3 DEF Good, Right
    <3>9. CASE ~InTLIdx(w, n)
      <4>1. n \in Passed(w, m)
        BY <2>3, <3>9 DEF Passed
      <4>2. Less(w, f[n - 1], {s \in Passed(w, m) : s < n}, Kept(n - 1))
        BY <3>2, <3>5
      <4>3. Loose(f[n - 1], n)
        BY <4>1, <4>2, <3>5, PassedLoose
      <4>4. f[n] = DeleteOne(f[n - 1], n)
        BY <3>1, <3>7, <3>9 DEF DropOrKeep
      <4>5. /\ Core(f[n]) /\ Less(f[n - 1], f[n], {n}, {}) /\ SamePrunes(f[n - 1], f[n])
        BY <3>5, <3>6, <4>3, <4>4, DeleteOneKeeps
      <4>6. /\ Less(w, f[n], Gone(n - 1) \cup {n}, Kept(n - 1) \cup {})
            /\ SamePrunes(w, f[n])
        BY <3>5, <4>5, LessTrans
      <4>7. Less(w, f[n], Gone(n), Kept(n))
        <5>1. DOMAIN f[n].nodes = DOMAIN w.nodes \ Gone(n)
          BY <3>3, <4>1, <4>6 DEF Less, Fewer
        <5>2. n \notin DOMAIN f[n].nodes
          BY <5>1, <3>3, <4>1
        <5> QED BY <3>2, <3>3, <4>1, <4>6, <5>2 DEF Less, Fewer
      <4> QED BY <2>1, <4>5, <4>6, <4>7 DEF Good, Right
    <3> QED BY <3>8, <3>9
  <2> QED BY <2>2, <2>3
<1>4. 0..MaxSeq \subseteq Good
  <2> HIDE DEF Good
  <2> QED BY <1>0, <1>2, <1>3, Upward
<1>5. Right(MaxSeq)
  BY <1>0, <1>4
<1>6. Gone(MaxSeq) = Passed(w, m) /\ Kept(MaxSeq) = InRange(w, m)
  BY <1>0
<1> QED BY <1>1, <1>5, <1>6

\* Looking at an instance is noted with it.
LEMMA MarkKeeps ==
    ASSUME NEW w, Core(w), NEW k \in DOMAIN w.idx, NEW m \in Nat,
           NEW v, v = [w EXCEPT !.idx[k].prune = m]
    PROVE  /\ Core(v) /\ Less(w, v, {}, {}) /\ v.nodes = w.nodes
           /\ \A x \in DOMAIN v.idx : v.idx[x].prune = IF x = k THEN m ELSE w.idx[x].prune
<1> DEFINE idx == [w.idx EXCEPT ![k].prune = m]
<1>1. Fields(w)
  BY DEF Core
<1>2. v = [nodes |-> w.nodes, intvs |-> w.intvs, open |-> w.open, size |-> w.size,
           unacked |-> w.unacked, maxseq |-> w.maxseq, maxDrop |-> w.maxDrop, idx |-> idx,
           tldepth |-> w.tldepth, idxdepth |-> w.idxdepth, hdepth |-> w.hdepth, tl |-> w.tl]
  BY <1>1 DEF Fields
<1>3. DOMAIN idx = DOMAIN w.idx /\ \A x \in DOMAIN w.idx : x # k => idx[x] = w.idx[x]
  OBVIOUS
<1>4. w.idx[k] \in Buffer(w.idxdepth)
  BY SlotPlace
<1>5. idx[k] = [hist |-> w.idx[k].hist, head |-> w.idx[k].head, prune |-> m]
  <2>1. idx[k] = [w.idx[k] EXCEPT !.prune = m]
    OBVIOUS
  <2> HIDE DEF idx
  <2> QED BY <2>1, <1>4 DEF Buffer
<1>6. idx[k] \in Buffer(w.idxdepth)
  <2> HIDE DEF idx
  <2> QED BY <1>4, <1>5 DEF Buffer
<1>7. idx = [x \in DOMAIN idx |-> idx[x]]
  OBVIOUS
<1> HIDE DEF idx
<1>8. \A x \in DOMAIN idx : idx[x].hist = w.idx[x].hist /\ idx[x].head = w.idx[x].head
                            /\ idx[x].prune = IF x = k THEN m ELSE w.idx[x].prune
  BY <1>3, <1>5
<1>9. Ring(w.nodes, idx, w.idxdepth)
  <2>1. Ring(w.nodes, w.idx, w.idxdepth)
    BY DEF Core
  <2>2. DOMAIN idx \subseteq Keys /\ \A x \in DOMAIN idx : idx[x] \in Buffer(w.idxdepth)
    BY <2>1, <1>3, <1>6 DEF Ring
  <2>3. idx \in [DOMAIN idx -> Buffer(w.idxdepth)]
    BY <2>2, <1>7
  <2> QED BY <2>1, <2>3, <1>3, <1>8, SameSlots
<1>10. Fields(v)
  BY <1>2 DEF Fields
<1>11. Core(v)
  BY <1>2, <1>9, <1>10 DEF Core, Depths
<1>12. Less(w, v, {}, {})
  <2>1. w.open.maxp1 <= w.open.maxp1
    BY DEF Core, Intervals
  <2> QED BY <2>1, <1>2, <1>3, <1>8 DEF Less, Fewer
<1> QED BY <1>2, <1>8, <1>11, <1>12

\* the samples of the instances in K that have left the transient-local history
Outdated(w, K) ==
    {s \in DOMAIN w.nodes : w.nodes[s].inst # NoKey /\ w.nodes[s].inst \in K /\ ~InTLIdx(w, s)}

\* Pruning the instance of a sample deletes what has left the transient-local history
\* of that instance, and marks it as pruned for this acknowledgement.
LEMMA PruneKeeps ==
    ASSUME NEW w, Core(w), NEW s \in DOMAIN w.nodes, InTLIdx(w, s), NEW m \in Nat,
           w.tldepth > 0, w.idx[w.nodes[s].inst].prune # m
    PROVE  LET k == w.nodes[s].inst
               v == Prune(w, s, m)
           IN  /\ Core(v) /\ Less(w, v, Outdated(w, {k}), {})
               /\ \A x \in DOMAIN v.idx : v.idx[x].prune = IF x = k THEN m ELSE w.idx[x].prune
<1> DEFINE k == w.nodes[s].inst
           d == w.idxdepth
           old == {w.idx[k].hist[p] : p \in {q \in 0..d - 1 : Behind(w, k, q) >= w.tldepth}}
           u == [w EXCEPT !.idx[k].prune = m]
           v == Prune(w, s, m)
<1>1. v = DeleteAll(u, old \ {0})
  BY DEF Prune, NoSeq
<1>2. k # NoKey /\ k \in DOMAIN w.idx
  BY LinkedPlace DEF InTLIdx
<1> DEFINE g == w.idx[k].head
<1>3. /\ Core(u) /\ Less(w, u, {}, {}) /\ u.nodes = w.nodes
      /\ \A x \in DOMAIN u.idx : u.idx[x].prune = IF x = k THEN m ELSE w.idx[x].prune
  <2> HIDE DEF k
  <2> QED BY <1>2, MarkKeeps
<1>4. old \ {0} = Outdated(w, {k})
  <2> HIDE DEF k
  <2>1. ASSUME NEW t \in old \ {0} PROVE t \in Outdated(w, {k})
    <3>1. PICK p \in 0..d - 1 : t = w.idx[k].hist[p] /\ Behind(w, k, p) >= w.tldepth
      BY <2>1
    <3>2. t \in DOMAIN w.nodes /\ w.nodes[t].inst = k /\ w.nodes[t].pos = p
      BY <1>2, <2>1, <3>1, SlotIs
    <3>3. ~(Behind(w, k, p) < w.tldepth)
      BY <1>2, <3>1, BehindRange DEF Core, Depths
    <3>4. ~InTLIdx(w, t)
      BY <3>2, <3>3 DEF InTLIdx
    <3> QED BY <1>2, <3>2, <3>4 DEF Outdated
  <2>2. ASSUME NEW t \in Outdated(w, {k}) PROVE t \in old \ {0}
    <3>1. t \in DOMAIN w.nodes /\ w.nodes[t].inst = k /\ ~InTLIdx(w, t)
      BY DEF Outdated
    <3>2. w.nodes[t].pos \in 0..d - 1 /\ w.idx[k].hist[w.nodes[t].pos] = t /\ t # 0
      <4>1. t # 0
        BY <3>1 DEF Core
      <4> QED BY <1>2, <3>1, <4>1, LinkedPlace
    <3>3. ~(Behind(w, k, w.nodes[t].pos) < w.tldepth)
      BY <1>2, <3>1 DEF InTLIdx
    <3>4. Behind(w, k, w.nodes[t].pos) >= w.tldepth
      BY <1>2, <3>2, <3>3, BehindRange DEF Core, Depths
    <3> QED BY <3>2, <3>4
  <2> HIDE DEF old
  <2> QED BY <2>1, <2>2
<1> HIDE DEF u, old, v
<1>5. \A t \in Outdated(w, {k}) : NotHead(u, t)
  <2> SUFFICES ASSUME NEW t \in Outdated(w, {k}) PROVE NotHead(u, t)
    OBVIOUS
  <2>1. t \in DOMAIN w.nodes /\ w.nodes[t].inst = k /\ ~InTLIdx(w, t)
    BY DEF Outdated
  <2>2. u.idx[k].head = w.idx[k].head
    BY <2>1, <1>2, <1>3, LinkedPlace DEF Less, Fewer
  <2>3. w.nodes[t].pos # w.idx[k].head
    <3>1. g \in 0..d - 1
      BY <1>2, SlotPlace
    <3>2. Behind(w, k, g) = 0
      BY <1>2, <3>1, BehindRange
    <3> QED BY <2>1, <1>2, <3>2 DEF InTLIdx
  <2> QED BY <2>1, <2>2, <2>3, <1>3 DEF NotHead
<1>6. Outdated(w, {k}) \subseteq DOMAIN u.nodes
  BY <1>3 DEF Outdated
<1>7. /\ Core(v) /\ Less(u, v, Outdated(w, {k}), {}) /\ SamePrunes(u, v)
  <2> HIDE DEF k
  <2> QED BY <1>1, <1>3, <1>4, <1>5, <1>6, DeleteAllKeeps
<1>8. Less(w, v, {} \cup Outdated(w, {k}), {} \cup {})
  <2> HIDE DEF k
  <2> QED BY <1>3, <1>7, LessTrans
<1>9. {} \cup Outdated(w, {k}) = Outdated(w, {k}) /\ {} \cup {} = {}
  OBVIOUS
<1>10. \A x \in DOMAIN v.idx : v.idx[x].prune = IF x = k THEN m ELSE w.idx[x].prune
  BY <1>3, <1>7 DEF SamePrunes, Less, Fewer
<1> QED BY <1>7, <1>8, <1>9, <1>10 DEF v

\* the instances the second pass looks at, up to n
Visited(w, m, n) == {w.nodes[t].inst : t \in {u \in InRange(w, m) : u <= n}}

\* The second pass drops what has left the transient-local history of the instances it
\* looks at.
LEMMA SecondPassKeeps ==
    ASSUME NEW w, Core(w), NEW m \in Nat, w.tldepth > 0,
           \A s \in InRange(w, m) : InTLIdx(w, s) /\ w.idx[w.nodes[s].inst].prune # m
    PROVE  LET v == SecondPass(w, m)
           IN  /\ Core(v) /\ Less(w, v, Outdated(w, Visited(w, m, MaxSeq)), {})
               /\ \A k \in DOMAIN v.idx : v.idx[k].prune \in {m, w.idx[k].prune}
<1>1. PICK f : /\ SecondPass(w, m) = f[MaxSeq] /\ f[0] = w
               /\ \A n \in 1..MaxSeq :
                     f[n] = IF n \in InRange(w, m) THEN Prune(f[n - 1], n, m) ELSE f[n - 1]
  BY SecondPassIs
<1> DEFINE Vis(n) == Visited(w, m, n)
           Right(n) == /\ Core(f[n]) /\ Less(w, f[n], Outdated(w, Vis(n)), {})
                       /\ \A k \in DOMAIN f[n].idx :
                             f[n].idx[k].prune = IF k \in Vis(n) THEN m ELSE w.idx[k].prune
           Good == {n \in 0..MaxSeq : Right(n)}
<1>0. MaxSeq \in Nat /\ InRange(w, m) \subseteq 1..MaxSeq /\ InRange(w, m) \subseteq DOMAIN w.nodes
  BY WHCAssumption DEF Core, InRange
<1>2. 0 \in Good
  <2>1. Vis(0) = {}
    BY <1>0 DEF Visited
  <2>2. Outdated(w, {}) = {}
    BY DEF Outdated
  <2> HIDE DEF Vis
  <2>3. Right(0)
    BY <2>1, <2>2, <1>1, LessNothing
  <2>4. 0 \in 0..MaxSeq
    BY <1>0
  <2> QED BY <2>3, <2>4
<1>3. ASSUME NEW n \in 1..MaxSeq, n - 1 \in Good PROVE n \in Good
  <2>1. Right(n - 1) /\ n \in 0..MaxSeq
    BY <1>3
  <2>2. CASE n \notin InRange(w, m)
    <3>1. f[n] = f[n - 1]
      BY <1>1, <2>2
    <3>2. {u \in InRange(w, m) : u <= n} = {u \in InRange(w, m) : u <= n - 1}
      BY <1>0, <2>2
    <3>3. Vis(n) = Vis(n - 1)
      BY <3>2 DEF Visited
    <3> QED BY <2>1, <3>1, <3>3
  <2>3. CASE n \in InRange(w, m)
    <3> DEFINE v == f[n - 1]
               k == w.nodes[n].inst
    <3>1. f[n] = Prune(v, n, m)
      BY <1>1, <2>3
    <3>2. {u \in InRange(w, m) : u <= n} = {u \in InRange(w, m) : u <= n - 1} \cup {n}
      BY <1>0, <2>3
    <3>3. Vis(n) = Vis(n - 1) \cup {k}
      BY <3>2 DEF Visited
    <3>4. /\ Core(v) /\ Less(w, v, Outdated(w, Vis(n - 1)), {})
          /\ \A x \in DOMAIN v.idx :
                v.idx[x].prune = IF x \in Vis(n - 1) THEN m ELSE w.idx[x].prune
      BY <2>1
    <3>5. n \in DOMAIN w.nodes /\ InTLIdx(w, n) /\ w.idx[k].prune # m
      BY <2>3, <1>0
    <3>6. n \in DOMAIN v.nodes
      BY <3>4, <3>5 DEF Less, Fewer, Outdated
    <3> HIDE DEF Vis, Good, Right, v
    <3>7. InTLIdx(v, n) /\ v.nodes[n].inst = k /\ k # NoKey /\ k \in DOMAIN v.idx
      <4>1. InTLIdx(v, n) /\ v.nodes[n].inst = k
        <5>1. InTLIdx(v, n) <=> InTLIdx(w, n)
          BY <3>4, <3>6, InTLSame
        <5>2. v.nodes[n].inst = k
          BY <3>4, <3>6 DEF Less, Fewer
        <5> QED BY <5>1, <5>2, <3>5
      <4>2. k # NoKey
        BY <3>5 DEF InTLIdx
      <4> HIDE DEF k
      <4> QED BY <4>1, <4>2, <3>4, <3>6, LinkedPlace
    <3>8. CASE k \in Vis(n - 1)
      <4>1. v.idx[k].prune = m
        BY <3>4, <3>7, <3>8
      <4>2. f[n] = v
        BY <3>1, <3>7, <4>1 DEF Prune
      <4>3. Vis(n) = Vis(n - 1)
        BY <3>3, <3>8
      <4> QED BY <2>1, <3>4, <4>2, <4>3 DEF Good, Right
    <3>9. CASE k \notin Vis(n - 1)
      <4>1. v.idx[k].prune # m
        BY <3>4, <3>5, <3>7, <3>9
      <4>2. v.tldepth > 0
        BY <3>4 DEF Less, Fewer
      <4>3. /\ Core(f[n]) /\ Less(v, f[n], Outdated(v, {k}), {})
            /\ \A x \in DOMAIN f[n].idx : f[n].idx[x].prune = IF x = k THEN m ELSE v.idx[x].prune
        <5> HIDE DEF k
        <5>1. v.idx[v.nodes[n].inst].prune # m
          BY <3>7, <4>1
        <5>2. Core(v) /\ n \in DOMAIN v.nodes /\ InTLIdx(v, n)
          BY <3>4, <3>6, <3>7
        <5> DEFINE u == Prune(v, n, m)
        <5>3. /\ Core(u) /\ Less(v, u, Outdated(v, {v.nodes[n].inst}), {})
              /\ \A x \in DOMAIN u.idx :
                    u.idx[x].prune = IF x = v.nodes[n].inst THEN m ELSE v.idx[x].prune
          BY <4>2, <5>1, <5>2, PruneKeeps
        <5> HIDE DEF u
        <5>4. f[n] = u
          BY <3>1 DEF u
        <5> QED BY <5>3, <5>4, <3>7
      <4>4. /\ Less(w, f[n], Outdated(w, Vis(n - 1)) \cup Outdated(v, {k}), {} \cup {})
        <5> HIDE DEF k
        <5> QED BY <3>4, <4>3, LessTrans
      <4>5. Outdated(w, Vis(n - 1)) \cup Outdated(v, {k}) = Outdated(w, Vis(n))
        <5>1. \A s \in DOMAIN v.nodes : InTLIdx(v, s) <=> InTLIdx(w, s)
          BY <3>4, InTLSame
        <5>2. \A s \in DOMAIN v.nodes : s \in DOMAIN w.nodes /\ v.nodes[s].inst = w.nodes[s].inst
          BY <3>4 DEF Less, Fewer
        <5>3. \A s \in DOMAIN w.nodes : s \in DOMAIN v.nodes \/ s \in Outdated(w, Vis(n - 1))
          BY <3>4 DEF Less, Fewer
        <5> HIDE DEF k
        <5> QED BY <5>1, <5>2, <5>3, <3>3 DEF Outdated
      <4>6. \A x \in DOMAIN f[n].idx :
               f[n].idx[x].prune = IF x \in Vis(n) THEN m ELSE w.idx[x].prune
        <5>1. \A x \in DOMAIN f[n].idx : x \in DOMAIN v.idx
          BY <4>3 DEF Less, Fewer
        <5> HIDE DEF k
        <5> QED BY <5>1, <3>3, <3>4, <4>3
      <4>7. Less(w, f[n], Outdated(w, Vis(n)), {})
        BY <4>4, <4>5
      <4> QED BY <2>1, <4>3, <4>6, <4>7 DEF Good, Right
    <3> QED BY <3>8, <3>9
  <2> QED BY <2>2, <2>3
<1>4. 0..MaxSeq \subseteq Good
  <2> HIDE DEF Good
  <2> QED BY <1>0, <1>2, <1>3, Upward
<1>5. Right(MaxSeq)
  BY <1>0, <1>4
<1> QED BY <1>1, <1>5

\* whc_findmax_procedurally finds the highest sample.
LEMMA FindMaxIs ==
    ASSUME NEW w, Core(w)
    PROVE  FindMax(w) = Max({NoSeq} \cup DOMAIN w.nodes)
<1> DEFINE S == DOMAIN w.nodes
           I == w.intvs
           o == w.open
<1>0. /\ Intervals(I, o, S) /\ S \subseteq 1..MaxSeq /\ MaxSeq \in Nat /\ IsFiniteSet(S)
      /\ w.size = Cardinality(S)
  BY WHCAssumption, Bounded DEF Core
<1>1. /\ \A i \in I : i.min \in Nat \ {0} /\ i.maxp1 \in Nat \ {0} /\ i.min <= i.maxp1
      /\ o \in I
  BY <1>0 DEF Intervals
<1> HIDE DEF S, I, o
<1>2. CASE S = {}
  <2>1. w.size = 0
    BY <1>0, <1>2, FS_EmptySet
  <2>2. Max({0} \cup S) = 0
    BY <1>2, MaxIs
  <2> QED BY <2>1, <2>2 DEF FindMax, NoSeq, S
<1>3. CASE S # {}
  <2>1. w.size # 0
    BY <1>0, <1>3, FS_EmptySet
  <2>2. PICK x \in S : \A y \in S : y <= x
    <3>1. S \in SUBSET (0..MaxSeq)
      BY <1>0
    <3> QED BY <1>0, <1>3, <3>1, HighestMember
  <2>3. Max({0} \cup S) = x
    BY <1>0, <2>2, MaxIs
  <2>4. PICK i \in I : i.min <= x /\ x < i.maxp1
    BY <1>0, <2>2 DEF Intervals
  <2>5. x \in Nat /\ ~(x + 1 \in S)
    BY <1>0, <2>2
  <2>6. i.maxp1 = x + 1
    <3>1. ~(x + 1 < i.maxp1)
      BY <1>0, <1>1, <2>4, <2>5 DEF Intervals
    <3> QED BY <1>1, <2>4, <2>5, <3>1
  <2>7. \A j \in I : j.min < j.maxp1 => j.maxp1 - 1 <= x
    <3> SUFFICES ASSUME NEW j \in I, j.min < j.maxp1 PROVE j.maxp1 - 1 <= x
      OBVIOUS
    <3>1. j.maxp1 - 1 \in Nat /\ j.min <= j.maxp1 - 1 /\ j.maxp1 - 1 < j.maxp1
      BY <1>1
    <3>2. j.maxp1 - 1 \in S
      BY <1>0, <3>1 DEF Intervals
    <3> QED BY <3>2, <2>2
  <2>8. CASE o.min < o.maxp1
    <3>1. i = o
      <4>1. o.maxp1 - 1 <= x
        BY <2>7, <2>8, <1>1
      <4>2. ~(i # o)
        BY <1>0, <1>1, <2>4, <2>8, <4>1, <2>5 DEF Intervals
      <4> QED BY <4>2
    <3> QED BY <2>1, <2>3, <2>5, <2>6, <2>8, <3>1, <1>1 DEF FindMax, o, S, NoSeq
  <2>9. CASE ~(o.min < o.maxp1)
    <3>1. i # o
      BY <2>4, <2>5, <2>9, <1>1
    <3>2. \A j \in I \ {o} : j.min <= i.min /\ (j # i => j.min < i.min)
      <4> SUFFICES ASSUME NEW j \in I \ {o}, j # i PROVE j.min < i.min
        BY <1>1
      <4>1. j.min < j.maxp1 /\ j.maxp1 - 1 <= x
        BY <1>0, <2>7 DEF Intervals
      <4>2. j.maxp1 < i.min \/ i.maxp1 < j.min
        BY <1>0 DEF Intervals
      <4> QED BY <4>1, <4>2, <2>5, <2>6, <1>1
    <3>3. Latest(I \ {o}) = i
      <4>1. i \in I \ {o}
        BY <3>1
      <4>2. \A j \in I \ {o} : (\A l \in I \ {o} : l.min <= j.min) => j = i
        BY <3>2, <4>1, <1>1
      <4> QED BY <3>2, <4>1, <4>2 DEF Latest
    <3> QED BY <2>1, <2>3, <2>5, <2>6, <2>9, <3>3, <1>1 DEF FindMax, o, S, I, NoSeq
  <2> QED BY <2>8, <2>9
<1> QED BY <1>2, <1>3

\* what goes when everything up to m is acknowledged
Gone(w, m) ==
    Passed(w, m) \cup
    IF w.tldepth > 0 /\ w.idxdepth > w.tldepth
    THEN Outdated(w, {w.nodes[t].inst : t \in {s \in InRange(w, m) : InTLIdx(w, s)}})
    ELSE {}

\* what was noted when the second pass looked at the instances is in the past
Prunes(w) ==
    w.tldepth > 0 /\ w.idxdepth > w.tldepth =>
       \A k \in DOMAIN w.idx : w.idx[k].prune <= w.maxDrop

\* that it has gone
Removed(w, v, m) ==
    /\ Core(v) /\ Fewer(w, v, Gone(w, m), InRange(w, m))
    /\ v.maxDrop = m /\ v.maxseq = Max({NoSeq} \cup DOMAIN v.nodes)
    /\ v.open.maxp1 <= w.open.maxp1 \/ v.open.maxp1 <= m + 1
    /\ Prunes(v)

\* what a cache is like that acknowledgements are processed of
Removable(w, m) ==
    /\ Core(w) /\ m \in Nat /\ w.maxDrop <= m /\ Droppable(w)
    /\ Prunes(w)

\* The two marks are all that is set at the end.
Marked(w, x, m) == [w EXCEPT !.maxseq = x, !.maxDrop = m]

\* Setting the two marks of whc_remove_acked_messages changes nothing else.
LEMMA MarksKeep ==
    ASSUME NEW w, Core(w), NEW m \in Nat, NEW x, NEW v, v = Marked(w, x, m)
    PROVE  /\ Core(v) /\ v.nodes = w.nodes /\ v.idx = w.idx /\ v.open = w.open /\ v.intvs = w.intvs
           /\ v.tldepth = w.tldepth /\ v.idxdepth = w.idxdepth /\ v.hdepth = w.hdepth
           /\ v.tl = w.tl /\ v.maxseq = x /\ v.maxDrop = m
<1>1. v = [nodes |-> w.nodes, intvs |-> w.intvs, open |-> w.open, size |-> w.size,
           unacked |-> w.unacked, maxseq |-> x, maxDrop |-> m, idx |-> w.idx,
           tldepth |-> w.tldepth, idxdepth |-> w.idxdepth, hdepth |-> w.hdepth, tl |-> w.tl]
  BY DEF Core, Fields, Marked
<1>2. Fields(v)
  BY <1>1 DEF Fields
<1> QED BY <1>1, <1>2 DEF Core, Depths

\* whc_remove_acked_messages_full removes it.
LEMMA RemoveAckedFullKeeps ==
    ASSUME NEW w, NEW m, Removable(w, m), ~(w.tl /\ w.tldepth = 0)
    PROVE  Removed(w, RemoveAckedFull(w, m), m)
<1> DEFINE first == FirstPass(w, m)
           twice == w.tldepth > 0 /\ w.idxdepth > w.tldepth
           first2 == SecondPass(first, m)
           u == IF first.tldepth > 0 /\ first.idxdepth > first.tldepth THEN first2 ELSE first
           v == RemoveAckedFull(w, m)
           K == {w.nodes[t].inst : t \in {s \in InRange(w, m) : InTLIdx(w, s)}}
<1>0. /\ m \in Nat /\ Core(w) /\ w.maxDrop <= m /\ Droppable(w) /\ w.maxDrop \in Nat
      /\ twice => \A k \in DOMAIN w.idx : w.idx[k].prune <= w.maxDrop
  BY DEF Removable, Prunes, Core, Depths
<1>1. /\ Core(first) /\ Less(w, first, Passed(w, m), InRange(w, m)) /\ SamePrunes(w, first)
  BY <1>0, FirstPassKeeps
<1> HIDE DEF first
<1>2. v = [u EXCEPT !.maxseq = FindMax(u), !.maxDrop = m]
  <2>1. first.tldepth = w.tldepth /\ first.idxdepth = w.idxdepth
    BY <1>1 DEF Less, Fewer
  <2> QED BY <2>1 DEF RemoveAckedFull, first
<1>3. /\ Core(u) /\ Less(w, u, Gone(w, m), InRange(w, m))
      /\ twice => \A k \in DOMAIN u.idx : u.idx[k].prune <= m
  <2>1. \A k \in DOMAIN w.idx : w.idx[k].prune \in Nat /\ (twice => w.idx[k].prune <= m)
    <3>1. \A k \in DOMAIN w.idx : w.idx[k].prune \in Nat
      BY <1>0, SlotPlace DEF Buffer
    <3> QED BY <1>0, <3>1
  <2>2. CASE ~twice
    <3>1. u = first /\ Gone(w, m) = Passed(w, m)
      BY <1>1, <2>2 DEF Less, Fewer, Gone
    <3>2. \A k \in DOMAIN first.idx : k \in DOMAIN w.idx /\ first.idx[k].prune = w.idx[k].prune
      BY <1>1 DEF Less, Fewer, SamePrunes
    <3> QED BY <1>1, <2>1, <3>1, <3>2
  <2>3. CASE twice
    <3>1. u = first2 /\ first.tldepth > 0 /\ first.maxDrop = w.maxDrop
      BY <1>1, <2>3 DEF Less, Fewer
    <3>2. InRange(first, m) = {s \in InRange(w, m) : InTLIdx(w, s)}
      BY <1>1, <3>1 DEF InRange, Passed, Less, Fewer
    <3>3. \A s \in DOMAIN first.nodes :
             /\ s \in DOMAIN w.nodes /\ first.nodes[s].inst = w.nodes[s].inst
             /\ InTLIdx(first, s) <=> InTLIdx(w, s)
      BY <1>1, InTLSame DEF Less, Fewer
    <3>4. ASSUME NEW s \in InRange(first, m)
          PROVE  InTLIdx(first, s) /\ first.idx[first.nodes[s].inst].prune # m
      <4>1. s \in DOMAIN first.nodes /\ s > w.maxDrop /\ s <= m /\ s \in Nat
        BY <1>1, <3>1 DEF InRange, Core
      <4>2. InTLIdx(first, s)
        BY <3>2, <3>3, <4>1
      <4>3. first.nodes[s].inst \in DOMAIN first.idx
        BY <1>1, <4>1, <4>2, LinkedPlace DEF InTLIdx
      <4> DEFINE k == first.nodes[s].inst
      <4> HIDE DEF k
      <4>4. k \in DOMAIN w.idx /\ first.idx[k].prune = w.idx[k].prune
        BY <1>1, <4>3 DEF Less, Fewer, SamePrunes, k
      <4>5. w.idx[k].prune <= w.maxDrop /\ w.idx[k].prune \in Nat
        BY <1>0, <2>1, <2>3, <4>4
      <4>6. first.idx[k].prune # m
        BY <1>0, <4>1, <4>4, <4>5
      <4> QED BY <4>2, <4>6 DEF k
    <3>5. /\ Core(first2) /\ Less(first, first2, Outdated(first, Visited(first, m, MaxSeq)), {})
          /\ \A k \in DOMAIN first2.idx : first2.idx[k].prune \in {m, first.idx[k].prune}
      BY <1>0, <1>1, <3>1, <3>4, SecondPassKeeps
    <3> HIDE DEF first2, u
    <3>6. Visited(first, m, MaxSeq) = K
      <4>1. {t \in InRange(first, m) : t <= MaxSeq} = {s \in InRange(w, m) : InTLIdx(w, s)}
        BY <3>2, <1>0 DEF InRange, Core
      <4>2. \A t \in {s \in InRange(w, m) : InTLIdx(w, s)} : first.nodes[t].inst = w.nodes[t].inst
        BY <3>2, <3>3 DEF InRange
      <4> QED BY <4>1, <4>2 DEF Visited
    <3>7. Less(w, u, Passed(w, m) \cup Outdated(first, K), InRange(w, m) \cup {})
      BY <1>0, <1>1, <3>1, <3>5, <3>6, LessTrans
    <3>8. Passed(w, m) \cup Outdated(first, K) = Gone(w, m)
      <4>1. DOMAIN first.nodes = DOMAIN w.nodes \ Passed(w, m)
        BY <1>1 DEF Less, Fewer
      <4>2. Passed(w, m) \cup Outdated(first, K) = Passed(w, m) \cup Outdated(w, K)
        <5> HIDE DEF K
        <5> QED BY <3>3, <4>1 DEF Outdated
      <4>3. Gone(w, m) = Passed(w, m) \cup Outdated(w, K)
        BY <2>3 DEF Gone
      <4> QED BY <4>2, <4>3
    <3>9. \A k \in DOMAIN u.idx : u.idx[k].prune <= m
      <4>1. \A k \in DOMAIN u.idx : k \in DOMAIN first.idx /\ k \in DOMAIN w.idx
                                     /\ first.idx[k].prune = w.idx[k].prune
        BY <1>1, <3>1, <3>5 DEF Less, Fewer, SamePrunes
      <4> QED BY <1>0, <2>1, <2>3, <3>1, <3>5, <4>1
    <3>10. InRange(w, m) \cup {} = InRange(w, m)
      OBVIOUS
    <3> QED BY <3>1, <3>5, <3>7, <3>8, <3>9, <3>10
  <2> QED BY <2>2, <2>3
<1> HIDE DEF u, v
<1>4. /\ Core(v) /\ v.nodes = u.nodes /\ v.idx = u.idx /\ v.open = u.open
      /\ v.tldepth = u.tldepth /\ v.idxdepth = u.idxdepth /\ v.hdepth = u.hdepth
      /\ v.tl = u.tl /\ v.maxseq = FindMax(u) /\ v.maxDrop = m
  <2> DEFINE x == FindMax(u)
  <2>1. v = Marked(u, x, m)
    BY <1>2 DEF Marked
  <2> HIDE DEF x
  <2>2. m \in Nat /\ Core(u)
    BY <1>0, <1>3
  <2>3. /\ Core(v) /\ v.nodes = u.nodes /\ v.idx = u.idx /\ v.open = u.open
        /\ v.tldepth = u.tldepth /\ v.idxdepth = u.idxdepth /\ v.hdepth = u.hdepth
        /\ v.tl = u.tl /\ v.maxseq = x /\ v.maxDrop = m
    BY <2>1, <2>2, MarksKeep
  <2> QED BY <2>3 DEF x
<1>5. FindMax(u) = Max({NoSeq} \cup DOMAIN v.nodes)
  BY <1>3, <1>4, FindMaxIs
<1>6. Fewer(w, v, Gone(w, m), InRange(w, m))
  BY <1>3, <1>4 DEF Less, Fewer
<1>7. Prunes(v)
  <2>1. v.tldepth = w.tldepth /\ v.idxdepth = w.idxdepth
    BY <1>6 DEF Fewer
  <2> QED BY <2>1, <1>3, <1>4 DEF Prunes
<1> QED BY <1>3, <1>4, <1>5, <1>6, <1>7 DEF Removed, Less, v

\* What a cache without index is like: one interval, of samples that all wait to be
\* acknowledged.
Simple(w) ==
    /\ w.intvs = {w.open} /\ w.tldepth = 0 /\ w.maxseq = Max({NoSeq} \cup DOMAIN w.nodes)
    /\ \A s \in DOMAIN w.nodes : w.nodes[s].unacked /\ s > w.maxDrop

\* There is nothing in an index of depth 0.
LEMMA NoIndex ==
    ASSUME NEW w, Core(w), w.idxdepth = 0
    PROVE  /\ DOMAIN w.idx = {} /\ \A s \in DOMAIN w.nodes : w.nodes[s].inst = NoKey
           /\ \A s \in DOMAIN w.nodes : ~InTLIdx(w, s)
<1>1. DOMAIN w.idx = {}
  BY SlotPlace
<1>2. \A s \in DOMAIN w.nodes : w.nodes[s].inst = NoKey
  BY <1>1, LinkedPlace
<1> QED BY <1>1, <1>2 DEF InTLIdx

\* whc_remove_acked_messages_noidx removes the same, all at once.
LEMMA RemoveAckedNoIdxKeeps ==
    ASSUME NEW w, NEW m, Removable(w, m), w.idxdepth = 0, Simple(w)
    PROVE  /\ Removed(w, RemoveAckedNoIdx(w, m), m)
           /\ RemoveAckedNoIdx(w, m).intvs = {RemoveAckedNoIdx(w, m).open}
<1> DEFINE S == DOMAIN w.nodes
           o == w.open
           v == RemoveAckedNoIdx(w, m)
           left == {s \in S : s > m}
<1>0. /\ m \in Nat /\ Core(w) /\ w.maxDrop <= m /\ w.maxDrop \in Nat
      /\ S \subseteq 1..MaxSeq /\ MaxSeq \in Nat /\ IsFiniteSet(S)
      /\ \A s \in S : s \in Nat /\ s > w.maxDrop /\ w.nodes[s].unacked
  <2>1. m \in Nat /\ Core(w) /\ w.maxDrop <= m
    BY DEF Removable
  <2>2. w.maxDrop \in Nat /\ S \subseteq 1..MaxSeq /\ MaxSeq \in Nat
    BY <2>1, WHCAssumption DEF Core, Depths
  <2>3. IsFiniteSet(S)
    BY <2>2, Bounded
  <2>4. \A s \in S : s \in Nat /\ s > w.maxDrop /\ w.nodes[s].unacked
    BY <2>2 DEF Simple
  <2> QED BY <2>1, <2>2, <2>3, <2>4
<1>1. /\ o.min \in Nat \ {0} /\ o.maxp1 \in Nat \ {0} /\ o.min <= o.maxp1
      /\ \A s \in Nat : s \in S <=> o.min <= s /\ s < o.maxp1
  BY <1>0 DEF Core, Intervals, Simple
<1>2. /\ DOMAIN w.idx = {} /\ \A s \in S : ~InTLIdx(w, s) /\ w.nodes[s].inst = NoKey
  BY <1>0, NoIndex
<1>3. InRange(w, m) = S \ left /\ Gone(w, m) = S \ left
  <2>1. InRange(w, m) = S \ left
    BY <1>0 DEF InRange
  <2>2. Passed(w, m) = InRange(w, m)
    BY <1>2 DEF Passed, InRange
  <2>3. ~(w.tldepth > 0)
    BY DEF Simple
  <2> QED BY <2>1, <2>2, <2>3 DEF Gone
<1>4. w.maxseq \in {0} \cup S /\ \A s \in S : s <= w.maxseq
  <2>1. PICK x \in {0} \cup S : \A y \in {0} \cup S : y <= x
    <3>1. {0} \cup S \in SUBSET (0..MaxSeq) /\ {0} \cup S # {}
      BY <1>0
    <3> HIDE DEF S
    <3> QED BY <3>1, <1>0, HighestMember
  <2>2. {0} \cup S \in SUBSET Nat
    BY <1>0
  <2>3. Max({0} \cup S) = x
    BY <2>1, <2>2, MaxIs
  <2> QED BY <2>1, <2>3 DEF Simple, NoSeq
<1>5. CASE m <= w.maxDrop
  <2>1. v = w /\ m = w.maxDrop /\ left = S
    BY <1>0, <1>5 DEF RemoveAckedNoIdx
  <2>2. Fewer(w, w, Gone(w, m), InRange(w, m))
    BY <1>3, <2>1 DEF Fewer
  <2>3. Prunes(w)
    BY <1>2 DEF Prunes
  <2> HIDE DEF v
  <2>4. w.open.maxp1 <= w.open.maxp1
    BY <1>1
  <2> QED BY <2>1, <2>2, <2>3, <2>4, <1>0, <1>1 DEF Removed, Simple, v
<1>6. CASE ~(m <= w.maxDrop) /\ (w.maxseq = NoSeq \/ m < o.min)
  <2>1. v = [w EXCEPT !.maxDrop = m]
    BY <1>6 DEF RemoveAckedNoIdx
  <2>2. left = S
    BY <1>0, <1>1, <1>4, <1>6 DEF NoSeq
  <2>3. v = [nodes |-> w.nodes, intvs |-> w.intvs, open |-> w.open, size |-> w.size,
             unacked |-> w.unacked, maxseq |-> w.maxseq, maxDrop |-> m, idx |-> w.idx,
             tldepth |-> w.tldepth, idxdepth |-> w.idxdepth, hdepth |-> w.hdepth, tl |-> w.tl]
    BY <2>1, <1>0 DEF Core, Fields
  <2> HIDE DEF v
  <2>4. Fields(v)
    BY <2>3 DEF Fields
  <2>5. Core(v)
    BY <2>3, <2>4, <1>0 DEF Core, Depths
  <2>6. Fewer(w, v, Gone(w, m), InRange(w, m))
    BY <1>3, <2>2, <2>3 DEF Fewer
  <2>7. Prunes(v)
    BY <2>3, <1>2 DEF Prunes
  <2> QED BY <2>3, <2>5, <2>6, <2>7, <1>1 DEF Removed, Simple, v
<1>7. CASE ~(m <= w.maxDrop) /\ ~(w.maxseq = NoSeq \/ m < o.min)
  <2> DEFINE target == IF m \in S THEN m ELSE w.maxseq
             dropped == {s \in S : s <= target}
             open == [min |-> m + 1, maxp1 |-> IF S \ dropped = {} THEN m + 1 ELSE o.maxp1]
             nodes == Restrict(w.nodes, left)
             top == IF left = {} THEN NoSeq ELSE w.maxseq
             card == Cardinality(dropped)
  <2>1. S \ dropped = left /\ dropped = S \ left
    <3>1. dropped = {s \in S : s <= m}
      <4>1. CASE m \in S
        BY <4>1
      <4>2. CASE m \notin S
        BY <4>2, <1>0, <1>1, <1>4, <1>7 DEF NoSeq
      <4> QED BY <4>1, <4>2
    <3>2. \A s \in S : s \in Nat /\ m \in Nat
      BY <1>0 DEF Core
    <3> HIDE DEF dropped, S
    <3>3. \A s \in S : ~(s <= m) <=> s > m
      BY <3>2
    <3> QED BY <3>1, <3>3 DEF left
  <2>2. v = [w EXCEPT !.nodes = nodes, !.intvs = {open}, !.open = open, !.maxseq = top,
                      !.unacked = w.unacked - card, !.size = w.size - card, !.maxDrop = m]
    BY <1>7, <2>1 DEF RemoveAckedNoIdx
  <2> HIDE DEF v, nodes, open, top, card
  <2>3. v = [nodes |-> nodes, intvs |-> {open}, open |-> open, size |-> w.size - card,
             unacked |-> w.unacked - card, maxseq |-> top, maxDrop |-> m, idx |-> w.idx,
             tldepth |-> w.tldepth, idxdepth |-> w.idxdepth, hdepth |-> w.hdepth, tl |-> w.tl]
    BY <2>2, <1>0 DEF Core, Fields
  <2>4. Fields(v)
    BY <2>3 DEF Fields
  <2>5. /\ DOMAIN nodes = left /\ \A s \in left : nodes[s] = w.nodes[s]
        /\ nodes \in [left -> Node]
    BY <1>0 DEF nodes, Restrict, Core
  <2> HIDE DEF S
  <2>6. open.min = m + 1 /\ open.maxp1 = IF left = {} THEN m + 1 ELSE o.maxp1
    BY <2>1 DEF open
  <2> HIDE DEF left, dropped
  <2>7. left # {} => m + 1 < o.maxp1
    <3>1. \A s \in left : s \in Nat /\ s > m /\ s < o.maxp1
      BY <1>0, <1>1 DEF left
    <3> QED BY <3>1, <1>0, <1>1
  <2>8. Intervals({open}, open, left)
    <3>1. open \in [min : Nat \ {0}, maxp1 : Nat \ {0}] /\ open.min <= open.maxp1
      <4>1. open = [min |-> m + 1, maxp1 |-> IF left = {} THEN m + 1 ELSE o.maxp1]
        BY <2>1 DEF open
      <4> QED BY <4>1, <2>6, <2>7, <1>0, <1>1
    <3>2. \A s \in Nat : s \in left <=> open.min <= s /\ s < open.maxp1
      <4> TAKE s \in Nat
      <4>1. CASE left = {}
        BY <4>1, <2>6, <1>0
      <4>2. CASE left # {}
        <5>1. s \in left <=> s \in S /\ s > m
          BY DEF left
        <5>2. s \in left <=> o.min <= s /\ s < o.maxp1 /\ s > m
          BY <5>1, <1>1
        <5>3. o.min <= m
          BY <1>0, <1>1, <1>7
        <5> QED BY <5>2, <5>3, <4>2, <2>6, <1>0, <1>1
      <4> QED BY <4>1, <4>2
    <3> QED BY <3>1, <3>2 DEF Intervals
  <2>9. Cardinality(left) = w.size - card
    <3>1. left \subseteq S /\ dropped \subseteq S /\ S \ dropped = left
      BY <2>1 DEF left
    <3>2. IsFiniteSet(dropped) /\ dropped \cap S = dropped
      BY <3>1, <1>0, FS_Subset
    <3>3. Cardinality(S \ dropped) = Cardinality(S) - Cardinality(S \cap dropped)
      BY <1>0, FS_Difference
    <3>4. S \cap dropped = dropped
      BY <3>1
    <3> QED BY <3>1, <3>3, <3>4, <1>0 DEF card, Core, S
  <2>10. Cardinality(Unacked(nodes)) = w.unacked - card
    <3>1. Unacked(nodes) = left
      <4>1. \A s \in left : s \in S
        BY DEF left
      <4> QED BY <4>1, <2>5, <1>0 DEF Unacked
    <3>2. Unacked(w.nodes) = S
      BY <1>0 DEF Unacked, S
    <3> QED BY <3>1, <3>2, <2>9, <1>0 DEF Core, S
  <2>11. Ring(nodes, w.idx, w.idxdepth)
    <3>1. \A s \in left : nodes[s].inst = NoKey
      <4>1. \A s \in left : s \in S
        BY DEF left
      <4> QED BY <4>1, <2>5, <1>2
    <3> QED BY <3>1, <2>5, <1>0, <1>2 DEF Core, Ring
  <2>12. left \subseteq 1..MaxSeq
    BY <1>0 DEF left
  <2>13. Core(v)
    BY <2>3, <2>4, <2>5, <2>8, <2>9, <2>10, <2>11, <2>12, <1>0 DEF Core, Depths
  <2>14. top = Max({NoSeq} \cup left)
    <3>1. CASE left = {}
      <4>1. {NoSeq} \cup left = {0} /\ Max({0}) = 0
        BY <3>1, MaxIs DEF NoSeq
      <4> QED BY <4>1, <3>1 DEF top, NoSeq
    <3>2. CASE left # {}
      <4>0. /\ \A s : s \in left <=> s \in S /\ s > m
            /\ S \subseteq Nat /\ m \in Nat /\ w.maxseq \in Nat
        <5>1. \A s : s \in left <=> s \in S /\ s > m
          BY DEF left
        <5>2. S \subseteq Nat /\ m \in Nat
          BY <1>0
        <5>3. w.maxseq \in Nat
          <6>1. w.maxseq \in {0} \cup S
            BY <1>4
          <6>2. {0} \cup S \subseteq Nat
            BY <5>2
          <6> QED BY <6>1, <6>2
        <5> QED BY <5>1, <5>2, <5>3
      <4>1. w.maxseq \in left
        <5>1. PICK s \in left : TRUE
          BY <3>2
        <5>2. s <= w.maxseq /\ s > m /\ s \in Nat
          BY <5>1, <4>0, <1>4
        <5>3. w.maxseq > m /\ w.maxseq # 0
          BY <5>2, <4>0
        <5> QED BY <5>3, <4>0, <1>4
      <4>2. \A s \in {0} \cup left : s <= w.maxseq
        BY <4>0, <1>4
      <4>3. {0} \cup left \in SUBSET Nat
        <5>1. left \subseteq Nat
          BY <4>0
        <5> QED BY <5>1
      <4>4. Max({0} \cup left) = w.maxseq
        BY <4>1, <4>2, <4>3, MaxIs
      <4> QED BY <3>2, <4>4 DEF top, NoSeq
    <3> QED BY <3>1, <3>2
  <2>15. Fewer(w, v, Gone(w, m), InRange(w, m))
    <3>1. left = S \ (S \ left) /\ \A s \in left : s \in S /\ s \notin S \ left
      BY DEF left
    <3>2. DOMAIN w.nodes = S
      BY DEF S
    <3>3. Gone(w, m) = S \ left /\ InRange(w, m) = S \ left
      BY <1>3
    <3> QED BY <2>3, <2>5, <3>1, <3>2, <3>3, <1>2 DEF Fewer
  <2>16. v.open.maxp1 <= w.open.maxp1 \/ v.open.maxp1 <= m + 1
    BY <2>3, <2>6, <1>0, <1>1
  <2>17. Prunes(v)
    BY <2>3, <1>2 DEF Prunes
  <2>18. v.maxDrop = m /\ v.maxseq = Max({NoSeq} \cup DOMAIN v.nodes)
    BY <2>3, <2>5, <2>14
  <2>19. Removed(w, v, m) /\ v.intvs = {v.open}
    BY <2>3, <2>13, <2>15, <2>16, <2>17, <2>18 DEF Removed
  <2> QED BY <2>19 DEF v
<1> QED BY <1>5, <1>6, <1>7

\* whc_remove_acked_messages deletes what all have acknowledged and no history holds, and
\* clears the flags of the rest, by the path with an index and by the one without.
LEMMA RemoveAckedKeeps ==
    ASSUME NEW w, NEW m, Removable(w, m),
           w.idxdepth = 0 => Simple(w), w.idxdepth > 0 => ~(w.tl /\ w.tldepth = 0)
    PROVE  /\ Removed(w, RemoveAcked(w, m), m)
           /\ w.idxdepth = 0 => RemoveAcked(w, m).intvs = {RemoveAcked(w, m).open}
<1>1. w.idxdepth \in Nat
  BY DEF Removable, Core, Depths
<1>2. CASE w.idxdepth = 0
  BY <1>2, RemoveAckedNoIdxKeeps DEF RemoveAcked
<1>3. CASE w.idxdepth # 0
  <2>1. w.idxdepth > 0
    BY <1>1, <1>3
  <2> QED BY <2>1, <1>3, RemoveAckedFullKeeps DEF RemoveAcked
<1> QED BY <1>2, <1>3

----------------------------------------------------------------------------
\* whc_insert

\* s follows upon the last interval, o
Grows(o, s) == o.min < o.maxp1 /\ o.maxp1 = s
LastWith(o, s) == [min |-> IF Grows(o, s) THEN o.min ELSE s, maxp1 |-> s + 1]
OthersWith(I, o, s) == IF Grows(o, s) \/ o.min = o.maxp1 THEN I \ {o} ELSE I

\* The new sample is in the last interval.
LEMMA GrownIntervals ==
    ASSUME NEW I, NEW o, NEW S, Intervals(I, o, S), NEW s \in Nat \ {0}, o.maxp1 <= s,
           NEW open, open = LastWith(o, s), NEW kept, kept = OthersWith(I, o, s)
    PROVE  Intervals(kept \cup {open}, open, S \cup {s})
<1> USE DEF LastWith, OthersWith
<1> DEFINE grows == Grows(o, s)
<1>0. grows <=> o.min < o.maxp1 /\ o.maxp1 = s
  BY DEF Grows
<1> HIDE DEF grows
<1>1. /\ I \subseteq [min : Nat \ {0}, maxp1 : Nat \ {0}] /\ o \in I
      /\ \A i \in I : i.min \in Nat \ {0} /\ i.maxp1 \in Nat \ {0} /\ i.min <= i.maxp1
      /\ \A i \in I : i # o => i.min < i.maxp1 /\ i.min < o.min /\ i.maxp1 < o.min
  BY DEF Intervals
<1> DEFINE first == IF grows THEN o.min ELSE s
<1>2. /\ open.min = first /\ open.maxp1 = s + 1 /\ first \in Nat \ {0} /\ o.min <= first
      /\ open = [min |-> first, maxp1 |-> s + 1] /\ first <= s
  BY <1>0, <1>1 DEF grows
<1>3. \A i \in I : i \in kept <=> i # o \/ ~(grows \/ o.min = o.maxp1)
  BY <1>1 DEF grows
<1>4. kept \subseteq I
  OBVIOUS
<1>5. \A i \in kept : /\ i.min < i.maxp1 /\ i.maxp1 < open.min
  <2> SUFFICES ASSUME NEW i \in kept PROVE i.min < i.maxp1 /\ i.maxp1 < open.min
    OBVIOUS
  <2>1. CASE i # o
    BY <2>1, <1>1, <1>2, <1>4
  <2>2. CASE i = o
    <3>1. ~grows /\ o.min # o.maxp1
      BY <2>2, <1>1, <1>3
    <3>2. o.min < o.maxp1 /\ o.maxp1 # s
      BY <3>1, <1>0, <1>1
    <3> QED BY <2>2, <3>1, <3>2, <1>1, <1>2
  <2> QED BY <2>1, <2>2
<1> HIDE DEF first
<1>6. \A x \in Nat : x \in S \cup {s} <=> \E i \in kept \cup {open} : i.min <= x /\ x < i.maxp1
  <2> TAKE x \in Nat
  <2>1. x \in S <=> \E i \in I : i.min <= x /\ x < i.maxp1
    BY DEF Intervals
  <2>2. (open.min <= x /\ x < open.maxp1)
          <=> x = s \/ (grows /\ o.min <= x /\ x < o.maxp1)
    <3>1. CASE grows
      BY <3>1, <1>0, <1>1, <1>2 DEF first
    <3>2. CASE ~grows
      BY <3>2, <1>1, <1>2 DEF first
    <3> QED BY <3>1, <3>2
  <2>3. CASE grows
    <3>1. kept = I \ {o}
      BY <2>3 DEF grows
    <3> QED BY <2>1, <2>2, <2>3, <3>1, <1>1
  <2>4. CASE ~grows /\ o.min = o.maxp1
    <3>1. kept = I \ {o}
      BY <2>4 DEF grows
    <3>2. ~(o.min <= x /\ x < o.maxp1)
      BY <2>4, <1>1
    <3> QED BY <2>1, <2>2, <2>4, <3>1, <3>2, <1>1
  <2>5. CASE ~grows /\ o.min # o.maxp1
    <3>1. kept = I
      BY <2>5 DEF grows
    <3> QED BY <2>1, <2>2, <2>5, <3>1, <1>1
  <2> QED BY <2>3, <2>4, <2>5
<1>7. kept \cup {open} \subseteq [min : Nat \ {0}, maxp1 : Nat \ {0}]
  BY <1>1, <1>2, <1>4
<1>8. \A i, j \in kept \cup {open} : i # j => i.maxp1 < j.min \/ j.maxp1 < i.min
  <2>1. \A i, j \in kept : i # j => i.maxp1 < j.min \/ j.maxp1 < i.min
    BY <1>4 DEF Intervals
  <2> QED BY <2>1, <1>5
<1>9. /\ open.min <= open.maxp1
      /\ \A i \in kept : i.min <= i.maxp1 /\ i.min < open.min
  <2>1. \A i \in kept : i.min \in Nat /\ i.maxp1 \in Nat
    BY <1>1, <1>4
  <2> QED BY <2>1, <1>2, <1>5
<1> HIDE DEF first
<1>10. open \in kept \cup {open} /\ \A i \in kept \cup {open} : i \in kept \/ i = open
  OBVIOUS
<1> QED BY <1>5, <1>6, <1>7, <1>8, <1>9, <1>10 DEF Intervals

\* there is room for s
Fits(w, s) ==
    /\ Core(w) /\ s \in 1..MaxSeq /\ w.open.maxp1 <= s /\ \A t \in DOMAIN w.nodes : t < s

\* whc_insert_seq adds it, without a place in the index.
LEMMA InsertSeqKeeps ==
    ASSUME NEW w, NEW s, Fits(w, s), NEW m \in Nat
    PROVE  LET v == InsertSeq(w, m, s)
           IN  /\ Core(v) /\ DOMAIN v.nodes = DOMAIN w.nodes \cup {s} /\ s \notin DOMAIN w.nodes
               /\ \A t \in DOMAIN w.nodes : v.nodes[t] = w.nodes[t]
               /\ v.nodes[s] = [inst |-> NoKey, pos |-> 0, unacked |-> s > m]
               /\ v.idx = w.idx /\ v.tldepth = w.tldepth /\ v.idxdepth = w.idxdepth
               /\ v.hdepth = w.hdepth /\ v.tl = w.tl /\ v.maxDrop = w.maxDrop /\ v.maxseq = s
               /\ v.open.maxp1 = s + 1
               /\ w.intvs = {w.open} /\ (w.open.min < w.open.maxp1 => w.open.maxp1 = s)
                     => v.intvs = {v.open}
<1> DEFINE v == InsertSeq(w, m, s)
           new == [inst |-> NoKey, pos |-> 0, unacked |-> s > m]
           nodes == Extended(w.nodes, s, new)
           grows == w.open.min < w.open.maxp1 /\ w.open.maxp1 = s
           open == [min |-> IF grows THEN w.open.min ELSE s, maxp1 |-> s + 1]
           kept == IF grows \/ w.open.min = w.open.maxp1 THEN w.intvs \ {w.open} ELSE w.intvs
           intvs == kept \cup {open}
           u == w.unacked + (IF s > m THEN 1 ELSE 0)
<1>0. /\ Core(w) /\ s \in Nat \ {0} /\ s \in 1..MaxSeq /\ s \notin DOMAIN w.nodes
      /\ DOMAIN w.nodes \subseteq 1..MaxSeq /\ w.nodes \in [DOMAIN w.nodes -> Node]
      /\ w.open.maxp1 <= s
  BY DEF Fits, Core
<1>1. v = [w EXCEPT !.nodes = nodes, !.intvs = intvs, !.open = open, !.unacked = u,
                    !.size = w.size + 1, !.maxseq = s]
  BY DEF InsertSeq
<1>2. Intervals(intvs, open, DOMAIN w.nodes \cup {s})
  <2>1. Intervals(w.intvs, w.open, DOMAIN w.nodes)
    BY <1>0 DEF Core
  <2> HIDE DEF open, kept
  <2>2. open = LastWith(w.open, s) /\ kept = OthersWith(w.intvs, w.open, s)
    BY DEF grows, Grows, open, kept, LastWith, OthersWith
  <2> QED BY <2>1, <2>2, <1>0, GrownIntervals
<1>3. open.maxp1 = s + 1
  OBVIOUS
<1>4. w.intvs = {w.open} /\ (w.open.min < w.open.maxp1 => w.open.maxp1 = s) => intvs = {open}
  <2> SUFFICES ASSUME w.intvs = {w.open}, w.open.min < w.open.maxp1 => w.open.maxp1 = s
               PROVE  kept = {}
    OBVIOUS
  <2>1. w.open.min \in Nat /\ w.open.maxp1 \in Nat /\ w.open.min <= w.open.maxp1
    BY <1>0 DEF Core, Intervals
  <2>2. grows \/ w.open.min = w.open.maxp1
    BY <2>1
  <2> QED BY <2>2
<1> HIDE DEF v, nodes, open, u, intvs, new
<1>5. v = [nodes |-> nodes, intvs |-> intvs, open |-> open, size |-> w.size + 1,
           unacked |-> u, maxseq |-> s, maxDrop |-> w.maxDrop, idx |-> w.idx,
           tldepth |-> w.tldepth, idxdepth |-> w.idxdepth, hdepth |-> w.hdepth, tl |-> w.tl]
  BY <1>0, <1>1 DEF Core, Fields
<1>6. Fields(v)
  BY <1>5 DEF Fields
<1>7. /\ DOMAIN nodes = DOMAIN w.nodes \cup {s} /\ nodes[s] = new
      /\ \A t \in DOMAIN w.nodes : nodes[t] = w.nodes[t]
  BY <1>0 DEF nodes, Extended
<1>8. new \in Node /\ new.inst = NoKey /\ (new.unacked <=> s > m)
  <2> DEFINE later == s > m
  <2>1. later \in BOOLEAN /\ new = [inst |-> NoKey, pos |-> 0, unacked |-> later]
    BY DEF new
  <2> HIDE DEF later
  <2>2. new \in Node /\ new.inst = NoKey /\ new.unacked = later
    BY <2>1 DEF Node
  <2> QED BY <2>2 DEF later
<1>9. nodes \in [DOMAIN w.nodes \cup {s} -> Node]
  <2>1. \A t \in DOMAIN w.nodes : w.nodes[t] \in Node
    BY <1>0
  <2>2. \A t \in DOMAIN w.nodes \cup {s} : nodes[t] \in Node
    BY <2>1, <1>7, <1>8
  <2>3. nodes = [t \in DOMAIN w.nodes \cup {s} |-> nodes[t]]
    BY DEF nodes, Extended
  <2> QED BY <2>2, <2>3
<1>10. /\ IsFiniteSet(DOMAIN w.nodes) /\ IsFiniteSet(Unacked(w.nodes))
       /\ Cardinality(Unacked(w.nodes)) \in Nat /\ s \notin Unacked(w.nodes)
  <2>1. Unacked(w.nodes) \subseteq 1..MaxSeq /\ s \notin Unacked(w.nodes)
    BY <1>0 DEF Unacked
  <2>2. MaxSeq \in Nat
    BY WHCAssumption
  <2> QED BY <2>1, <2>2, <1>0, Bounded
<1>11. Cardinality(DOMAIN nodes) = w.size + 1
  <2>1. Cardinality(DOMAIN w.nodes \cup {s}) = Cardinality(DOMAIN w.nodes) + 1
    BY <1>0, <1>10, FS_AddElement
  <2> QED BY <2>1, <1>0, <1>7 DEF Core
<1>12. Cardinality(Unacked(nodes)) = u
  <2>1. CASE s > m
    <3>1. Unacked(nodes) = Unacked(w.nodes) \cup {s}
      BY <2>1, <1>7, <1>8 DEF Unacked
    <3>2. Cardinality(Unacked(w.nodes) \cup {s}) = Cardinality(Unacked(w.nodes)) + 1
      BY <1>10, FS_AddElement
    <3> QED BY <2>1, <3>1, <3>2, <1>0 DEF Core, u
  <2>2. CASE ~(s > m)
    <3>1. Unacked(nodes) = Unacked(w.nodes)
      BY <2>2, <1>7, <1>8 DEF Unacked
    <3> QED BY <2>2, <3>1, <1>0, <1>10 DEF Core, u
  <2> QED BY <2>1, <2>2
<1>13. Ring(nodes, w.idx, w.idxdepth)
  <2>1. Ring(w.nodes, w.idx, w.idxdepth)
    BY <1>0 DEF Core
  <2>2. \A k \in DOMAIN w.idx : \A p \in 0..w.idxdepth - 1 : w.idx[k].hist[p] # 0 =>
           w.idx[k].hist[p] \in DOMAIN nodes
    BY <2>1, <1>7 DEF Ring
  <2> QED BY <2>1, <2>2, <1>7, <1>8, SameRing
<1>14. Core(v)
  BY <1>0, <1>2, <1>5, <1>6, <1>7, <1>9, <1>11, <1>12, <1>13 DEF Core, Depths
<1> QED BY <1>0, <1>3, <1>4, <1>5, <1>7, <1>14 DEF v, new

\* other links between nodes and buffers
Rewired(w, nodes, idx) == [w EXCEPT !.nodes = nodes, !.idx = idx]

\* With other links between nodes and buffers that fit each other it is still a cache.
LEMMA RewiredKeeps ==
    ASSUME NEW w, Core(w), NEW nodes, NEW idx, Ring(nodes, idx, w.idxdepth),
           nodes \in [DOMAIN w.nodes -> Node],
           \A t \in DOMAIN w.nodes : nodes[t].unacked = w.nodes[t].unacked,
           NEW v, v = Rewired(w, nodes, idx)
    PROVE  /\ Core(v) /\ v.nodes = nodes /\ v.idx = idx /\ v.intvs = w.intvs /\ v.open = w.open
           /\ v.tldepth = w.tldepth /\ v.idxdepth = w.idxdepth /\ v.hdepth = w.hdepth
           /\ v.tl = w.tl /\ v.maxseq = w.maxseq /\ v.maxDrop = w.maxDrop
<1>1. v = [nodes |-> nodes, intvs |-> w.intvs, open |-> w.open, size |-> w.size,
           unacked |-> w.unacked, maxseq |-> w.maxseq, maxDrop |-> w.maxDrop, idx |-> idx,
           tldepth |-> w.tldepth, idxdepth |-> w.idxdepth, hdepth |-> w.hdepth, tl |-> w.tl]
  BY DEF Core, Fields, Rewired
<1>2. Fields(v)
  BY <1>1 DEF Fields
<1>3. DOMAIN nodes = DOMAIN w.nodes
  OBVIOUS
<1>4. Unacked(nodes) = Unacked(w.nodes)
  BY <1>3 DEF Unacked
<1> QED BY <1>1, <1>2, <1>3, <1>4 DEF Core, Depths

\* Unlinking samples takes their instance from them and leaves the others alone.
LEMMA UnlinkedNodes ==
    ASSUME NEW nodes, nodes \in [DOMAIN nodes -> Node], NEW S
    PROVE  LET n == Unlinked(nodes, S)
           IN  /\ DOMAIN n = DOMAIN nodes /\ n \in [DOMAIN nodes -> Node]
               /\ \A t \in DOMAIN nodes :
                     /\ n[t].pos = nodes[t].pos /\ n[t].unacked = nodes[t].unacked
                     /\ n[t].inst = IF t \in S THEN NoKey ELSE nodes[t].inst
<1> DEFINE n == Unlinked(nodes, S)
<1>1. n = [t \in DOMAIN nodes |-> IF t \in S THEN [nodes[t] EXCEPT !.inst = NoKey] ELSE nodes[t]]
  BY DEF Unlinked
<1> HIDE DEF n
<1>2. ASSUME NEW t \in DOMAIN nodes
      PROVE  /\ n[t] \in Node
             /\ n[t].pos = nodes[t].pos /\ n[t].unacked = nodes[t].unacked
             /\ n[t].inst = IF t \in S THEN NoKey ELSE nodes[t].inst
  <2>1. nodes[t] \in Node
    OBVIOUS
  <2>2. CASE t \in S
    <3>1. n[t] = [inst |-> NoKey, pos |-> nodes[t].pos, unacked |-> nodes[t].unacked]
      BY <1>1, <2>1, <2>2 DEF Node
    <3> QED BY <2>1, <2>2, <3>1 DEF Node
  <2>3. CASE t \notin S
    BY <1>1, <2>1, <2>3
  <2> QED BY <2>2, <2>3
<1> QED BY <1>1, <1>2 DEF n

\* v is w after delete_one_instance_from_idx (k)
InstanceGone(w, v, k, m) ==
    /\ Core(v) /\ v.maxDrop = w.maxDrop /\ v.maxseq = w.maxseq /\ v.open.maxp1 <= w.open.maxp1
    /\ v.tldepth = w.tldepth /\ v.idxdepth = w.idxdepth /\ v.hdepth = w.hdepth /\ v.tl = w.tl
    /\ DOMAIN v.nodes = DOMAIN w.nodes \ {s \in DOMAIN w.nodes : w.nodes[s].inst = k /\ s <= m}
    /\ \A s \in DOMAIN v.nodes :
          /\ v.nodes[s].inst = IF w.nodes[s].inst = k THEN NoKey ELSE w.nodes[s].inst
          /\ v.nodes[s].pos = w.nodes[s].pos
          /\ v.nodes[s].unacked <=> w.nodes[s].unacked
    /\ \A x \in DOMAIN v.idx : /\ x \in DOMAIN w.idx /\ v.idx[x].head = w.idx[x].head
                               /\ v.idx[x].prune = w.idx[x].prune

\* An instance that goes takes its acknowledged samples along and unlinks the others.
LEMMA DeleteInstanceKeeps ==
    ASSUME NEW w, Core(w), NEW k \in DOMAIN w.idx, NEW m \in Nat
    PROVE  InstanceGone(w, DeleteInstance(w, k, m), k, m)
<1> DEFINE d == w.idxdepth
           hist == {w.idx[k].hist[p] : p \in DOMAIN w.idx[k].hist} \ {NoSeq}
           nodes == Unlinked(w.nodes, hist)
           idx == Restrict(w.idx, DOMAIN w.idx \ {k})
           u == Rewired(w, nodes, idx)
           S == {s \in hist : s <= m}
           v == DeleteAll(u, S)
<1>1. v = DeleteInstance(w, k, m)
  BY DEF DeleteInstance, Rewired
<1>2. hist = {s \in DOMAIN w.nodes : w.nodes[s].inst = k}
  <2>1. DOMAIN w.idx[k].hist = 0..d - 1
    BY SlotPlace DEF Buffer
  <2>2. ASSUME NEW s \in hist PROVE s \in DOMAIN w.nodes /\ w.nodes[s].inst = k
    <3>1. PICK p \in 0..d - 1 : s = w.idx[k].hist[p] /\ s # 0
      BY <2>1 DEF NoSeq
    <3> QED BY <3>1, SlotPlace
  <2>3. ASSUME NEW s \in DOMAIN w.nodes, w.nodes[s].inst = k PROVE s \in hist
    <3>1. k # NoKey /\ s # 0
      BY SlotPlace DEF Core
    <3>2. w.nodes[s].pos \in 0..d - 1 /\ w.idx[k].hist[w.nodes[s].pos] = s
      BY <2>3, <3>1, LinkedPlace
    <3> QED BY <2>1, <3>1, <3>2 DEF NoSeq
  <2> HIDE DEF hist
  <2> QED BY <2>2, <2>3
<1> HIDE DEF hist, u, v, nodes, idx
<1>3. /\ DOMAIN nodes = DOMAIN w.nodes /\ nodes \in [DOMAIN w.nodes -> Node]
      /\ \A t \in DOMAIN w.nodes :
            /\ nodes[t].pos = w.nodes[t].pos /\ nodes[t].unacked = w.nodes[t].unacked
            /\ nodes[t].inst = IF w.nodes[t].inst = k THEN NoKey ELSE w.nodes[t].inst
  <2>1. w.nodes \in [DOMAIN w.nodes -> Node]
    BY DEF Core
  <2>2. /\ DOMAIN nodes = DOMAIN w.nodes /\ nodes \in [DOMAIN w.nodes -> Node]
        /\ \A t \in DOMAIN w.nodes :
             /\ nodes[t].pos = w.nodes[t].pos /\ nodes[t].unacked = w.nodes[t].unacked
             /\ nodes[t].inst = IF t \in hist THEN NoKey ELSE w.nodes[t].inst
    BY <2>1, UnlinkedNodes DEF nodes
  <2> QED BY <2>2, <1>2
<1>4. DOMAIN idx = DOMAIN w.idx \ {k} /\ idx = [x \in DOMAIN idx |-> w.idx[x]]
      /\ \A x \in DOMAIN idx : idx[x] = w.idx[x]
  BY DEF idx, Restrict
<1>5. Ring(nodes, idx, d)
  <2>1. Ring(w.nodes, w.idx, d) /\ k \in Keys
    BY SlotPlace DEF Core
  <2>2. DOMAIN idx \subseteq Keys /\ idx \in [DOMAIN idx -> Buffer(d)]
    BY <1>4, <2>1 DEF Ring
  <2>3. \A x \in DOMAIN idx : idx[x].hist[idx[x].head] # 0
    BY <1>4, <2>1 DEF Ring
  <2>4. ASSUME NEW x \in DOMAIN idx, NEW p \in 0..d - 1, idx[x].hist[p] # 0
        PROVE  /\ idx[x].hist[p] \in DOMAIN nodes
               /\ nodes[idx[x].hist[p]].inst = x /\ nodes[idx[x].hist[p]].pos = p
    <3>1. x \in DOMAIN w.idx /\ x # k /\ idx[x] = w.idx[x]
      BY <1>4
    <3>2. /\ w.idx[x].hist[p] \in DOMAIN w.nodes
          /\ w.nodes[w.idx[x].hist[p]].inst = x /\ w.nodes[w.idx[x].hist[p]].pos = p
      BY <2>4, <3>1, SlotPlace
    <3> QED BY <3>1, <3>2, <1>3
  <2>5. ASSUME NEW s \in DOMAIN nodes, nodes[s].inst # NoKey
        PROVE  /\ nodes[s].inst \in DOMAIN idx /\ nodes[s].pos \in 0..d - 1
               /\ idx[nodes[s].inst].hist[nodes[s].pos] = s
    <3>1. s \in DOMAIN w.nodes /\ nodes[s].inst = w.nodes[s].inst /\ w.nodes[s].inst # k
          /\ nodes[s].pos = w.nodes[s].pos
      BY <1>3, <2>5
    <3>2. /\ w.nodes[s].inst \in DOMAIN w.idx /\ w.nodes[s].pos \in 0..d - 1
          /\ w.idx[w.nodes[s].inst].hist[w.nodes[s].pos] = s
      BY <2>5, <3>1, LinkedPlace
    <3> QED BY <1>4, <3>1, <3>2
  <2> QED BY <2>2, <2>3, <2>4, <2>5 DEF Ring
<1>6. /\ Core(u) /\ u.nodes = nodes /\ u.idx = idx /\ u.open = w.open
      /\ u.tldepth = w.tldepth /\ u.idxdepth = w.idxdepth /\ u.hdepth = w.hdepth
      /\ u.tl = w.tl /\ u.maxseq = w.maxseq /\ u.maxDrop = w.maxDrop
  BY <1>3, <1>5, RewiredKeeps DEF u
<1>7. /\ Core(v) /\ Less(u, v, S, {}) /\ SamePrunes(u, v)
  <2>1. S \in SUBSET DOMAIN u.nodes
    BY <1>2, <1>3, <1>6
  <2>2. \A s \in S : NotHead(u, s)
    BY <1>2, <1>3, <1>6 DEF NotHead
  <2> HIDE DEF S
  <2> QED BY <2>1, <2>2, <1>6, DeleteAllKeeps DEF v
<1>8. DOMAIN v.nodes = DOMAIN w.nodes \ {s \in DOMAIN w.nodes : w.nodes[s].inst = k /\ s <= m}
  BY <1>2, <1>3, <1>6, <1>7 DEF Less, Fewer
<1>9. \A s \in DOMAIN v.nodes :
          /\ v.nodes[s].inst = IF w.nodes[s].inst = k THEN NoKey ELSE w.nodes[s].inst
          /\ v.nodes[s].pos = w.nodes[s].pos
          /\ v.nodes[s].unacked <=> w.nodes[s].unacked
  BY <1>3, <1>6, <1>7 DEF Less, Fewer
<1>10. \A x \in DOMAIN v.idx : /\ x \in DOMAIN w.idx /\ v.idx[x].head = w.idx[x].head
                               /\ v.idx[x].prune = w.idx[x].prune
  BY <1>4, <1>6, <1>7 DEF Less, Fewer, SamePrunes
<1>11. InstanceGone(w, v, k, m)
  BY <1>6, <1>7, <1>8, <1>9, <1>10 DEF InstanceGone, Less, Fewer
<1> QED BY <1>1, <1>11

\* v is w with s put after the head of k's buffer, in the place of the oldest sample
Pushes(w, k, t) ==
    w.nodes[t].inst = k /\ Behind(w, k, w.nodes[t].pos) + 1 = w.idxdepth

Linked(w, v, k, s) ==
    /\ Core(v) /\ v.intvs = w.intvs /\ v.open = w.open
    /\ v.tldepth = w.tldepth /\ v.idxdepth = w.idxdepth /\ v.hdepth = w.hdepth
    /\ v.tl = w.tl /\ v.maxseq = w.maxseq /\ v.maxDrop = w.maxDrop
    /\ DOMAIN v.nodes = DOMAIN w.nodes
    /\ \A t \in DOMAIN w.nodes :
          /\ v.nodes[t].unacked = w.nodes[t].unacked
          /\ t # s => /\ v.nodes[t].inst = IF Pushes(w, k, t) THEN NoKey ELSE w.nodes[t].inst
                      /\ v.nodes[t].pos = w.nodes[t].pos
    /\ v.nodes[s].inst = k /\ v.nodes[s].pos = NextSlot(w, k)
    /\ DOMAIN v.idx = DOMAIN w.idx /\ v.idx[k].head = NextSlot(w, k)
    /\ \A x \in DOMAIN w.idx : /\ v.idx[x].prune = w.idx[x].prune
                               /\ x # k => v.idx[x] = w.idx[x]

\* The slot after the head is the one furthest behind it.
LEMMA NextSlotIs ==
    ASSUME NEW w, Core(w), NEW k \in DOMAIN w.idx
    PROVE  /\ NextSlot(w, k) \in 0..w.idxdepth - 1
           /\ \A p \in 0..w.idxdepth - 1 :
                 Behind(w, k, p) + 1 = w.idxdepth <=> p = NextSlot(w, k)
<1>1. w.idx[k].head \in 0..w.idxdepth - 1 /\ w.idxdepth \in Nat
  BY DEF Core, Depths, Ring, Buffer
<1> QED BY <1>1 DEF Behind, NextSlot

\* the nodes and the buffers then
PutNodes(w, k, s) == [w.nodes EXCEPT ![s].inst = k, ![s].pos = NextSlot(w, k)]
PutIdx(w, k, s) ==
    [w.idx EXCEPT ![k].head = NextSlot(w, k), ![k].hist[NextSlot(w, k)] = s]
Oldest(w, k) == w.idx[k].hist[NextSlot(w, k)]
OverNodes(w, k, s) == Unlinked(PutNodes(w, k, s), {Oldest(w, k)})

\* The buffers and the nodes point at each other when s has taken the place of the oldest.
LEMMA LinkKeeps ==
    ASSUME NEW w, Core(w), NEW k \in DOMAIN w.idx, NEW s \in DOMAIN w.nodes,
           w.nodes[s].inst = NoKey,
           NEW v, v = Rewired(w, OverNodes(w, k, s), PutIdx(w, k, s))
    PROVE  Linked(w, v, k, s)
<1> DEFINE nodes == OverNodes(w, k, s)
           d == w.idxdepth
           h == NextSlot(w, k)
           idx == PutIdx(w, k, s)
           old == Oldest(w, k)
           put == PutNodes(w, k, s)
<1>0. old = w.idx[k].hist[h]
  BY DEF Oldest
<1> HIDE DEF h, idx, old, put, nodes
<1>1. h \in 0..d - 1 /\ h \in Nat /\ s \in Nat \ {0} /\ d \in Nat
  BY NextSlotIs DEF Core, Depths, h
<1>2. /\ k \in Keys /\ k # NoKey /\ w.idx[k] \in Buffer(d)
      /\ w.idx[k].hist \in [0..d - 1 -> Nat] /\ w.idx[k].prune \in Nat
  BY SlotPlace DEF Buffer
<1>3. /\ put \in [DOMAIN w.nodes -> Node] /\ put[s].inst = k /\ put[s].pos = h
      /\ put[s].unacked = w.nodes[s].unacked
      /\ \A t \in DOMAIN w.nodes : t # s => put[t] = w.nodes[t]
  <2>1. w.nodes \in [DOMAIN w.nodes -> Node] /\ w.nodes[s] \in Node
    BY DEF Core
  <2>2. put[s] = [inst |-> k, pos |-> h, unacked |-> w.nodes[s].unacked]
    BY <2>1 DEF Node, put, PutNodes, h
  <2>3. DOMAIN put = DOMAIN w.nodes /\ \A t \in DOMAIN w.nodes : t # s => put[t] = w.nodes[t]
    BY <2>1 DEF put, PutNodes
  <2>4. put[s] \in Node
    BY <2>1, <2>2, <1>1, <1>2 DEF Node
  <2>5. put = [t \in DOMAIN w.nodes |-> put[t]]
    BY <2>1 DEF put, PutNodes
  <2>6. \A t \in DOMAIN w.nodes : put[t] \in Node
    BY <2>1, <2>3, <2>4
  <2> QED BY <2>2, <2>3, <2>5, <2>6
<1>4. /\ DOMAIN nodes = DOMAIN w.nodes /\ nodes \in [DOMAIN w.nodes -> Node]
      /\ \A t \in DOMAIN w.nodes :
            /\ nodes[t].pos = put[t].pos /\ nodes[t].unacked = put[t].unacked
            /\ nodes[t].inst = IF t = old THEN NoKey ELSE put[t].inst
  <2>1. DOMAIN put = DOMAIN w.nodes /\ nodes = Unlinked(put, {old})
    BY <1>3 DEF put, old, nodes, OverNodes
  <2> QED BY <2>1, <1>3, UnlinkedNodes
<1>5. /\ DOMAIN idx = DOMAIN w.idx /\ idx \in [DOMAIN w.idx -> Buffer(d)]
      /\ \A x \in DOMAIN w.idx : x # k => idx[x] = w.idx[x]
      /\ idx[k].head = h /\ idx[k].prune = w.idx[k].prune /\ idx[k].hist[h] = s
      /\ \A p \in 0..d - 1 : p # h => idx[k].hist[p] = w.idx[k].hist[p]
  <2> DEFINE hist == [w.idx[k].hist EXCEPT ![h] = s]
  <2>1. DOMAIN idx = DOMAIN w.idx /\ \A x \in DOMAIN w.idx : x # k => idx[x] = w.idx[x]
    BY DEF idx, PutIdx
  <2>2. idx[k] = [hist |-> hist, head |-> h, prune |-> w.idx[k].prune]
    BY <1>1, <1>2 DEF Buffer, idx, PutIdx, h
  <2>3. hist \in [0..d - 1 -> Nat] /\ hist[h] = s
        /\ \A p \in 0..d - 1 : p # h => hist[p] = w.idx[k].hist[p]
    BY <1>1, <1>2
  <2> HIDE DEF hist
  <2>4. idx[k] \in Buffer(d)
    BY <2>2, <2>3, <1>1, <1>2 DEF Buffer
  <2>5. \A x \in DOMAIN w.idx : idx[x] \in Buffer(d)
    BY <2>1, <2>4 DEF Core, Ring
  <2>6. idx = [x \in DOMAIN w.idx |-> idx[x]]
    BY DEF idx, PutIdx
  <2>7. idx \in [DOMAIN w.idx -> Buffer(d)]
    BY <2>5, <2>6
  <2> QED BY <2>1, <2>2, <2>3, <2>7
<1>6. \A t \in DOMAIN w.nodes : t # s => (t = old <=> Pushes(w, k, t))
  <2> SUFFICES ASSUME NEW t \in DOMAIN w.nodes, t # s PROVE t = old <=> Pushes(w, k, t)
    OBVIOUS
  <2>1. ASSUME t = old PROVE Pushes(w, k, t)
    <3>1. t # 0
      BY DEF Core
    <3>2. w.nodes[t].inst = k /\ w.nodes[t].pos = h
      BY <2>1, <3>1, <1>0, <1>1, SlotIs
    <3>3. Behind(w, k, h) + 1 = d
      BY <1>1, NextSlotIs DEF h
    <3> QED BY <3>2, <3>3 DEF Pushes
  <2>2. ASSUME Pushes(w, k, t) PROVE t = old
    <3>1. w.nodes[t].inst = k /\ w.nodes[t].pos \in 0..d - 1 /\ w.idx[k].hist[w.nodes[t].pos] = t
      BY <2>2, <1>2, LinkedPlace DEF Pushes
    <3>2. w.nodes[t].pos = h
      BY <2>2, <3>1, NextSlotIs DEF Pushes, h
    <3> QED BY <3>1, <3>2, <1>0
  <2> QED BY <2>1, <2>2
<1>7. s # old
  BY <1>0, <1>1, <1>2, SlotPlace
<1>8. Ring(nodes, idx, d)
  <2>1. DOMAIN idx \subseteq Keys
    BY <1>5, SlotPlace
  <2>2. \A x \in DOMAIN idx : idx[x].hist[idx[x].head] # 0
    BY <1>1, <1>5, SlotPlace
  <2>3. ASSUME NEW x \in DOMAIN idx, NEW p \in 0..d - 1, idx[x].hist[p] # 0
        PROVE  /\ idx[x].hist[p] \in DOMAIN nodes
               /\ nodes[idx[x].hist[p]].inst = x /\ nodes[idx[x].hist[p]].pos = p
    <3>1. CASE x = k /\ p = h
      <4>1. idx[x].hist[p] = s
        BY <3>1, <1>5
      <4> QED BY <3>1, <4>1, <1>3, <1>4, <1>7
    <3>2. CASE ~(x = k /\ p = h)
      <4> DEFINE t == w.idx[x].hist[p]
      <4>1. idx[x].hist[p] = t /\ x \in DOMAIN w.idx
        BY <3>2, <1>5
      <4>2. t \in DOMAIN w.nodes /\ w.nodes[t].inst = x /\ w.nodes[t].pos = p
        BY <2>3, <4>1, SlotIs
      <4>3. x # NoKey
        BY <4>1, SlotPlace
      <4>4. t # s
        BY <4>2, <4>3
      <4>5. t # old
        <5>1. t # 0
          BY <2>3, <4>1
        <5>2. old # 0 => w.nodes[old].inst = k /\ w.nodes[old].pos = h
          BY <1>0, <1>1, SlotPlace
        <5> QED BY <3>2, <4>2, <5>1, <5>2
      <4> HIDE DEF t
      <4> QED BY <4>1, <4>2, <4>4, <4>5, <1>3, <1>4
    <3> QED BY <3>1, <3>2
  <2>4. ASSUME NEW t \in DOMAIN nodes, nodes[t].inst # NoKey
        PROVE  /\ nodes[t].inst \in DOMAIN idx /\ nodes[t].pos \in 0..d - 1
               /\ idx[nodes[t].inst].hist[nodes[t].pos] = t
    <3>1. t # old /\ t \in DOMAIN w.nodes /\ nodes[t].inst = put[t].inst /\ nodes[t].pos = put[t].pos
      BY <2>4, <1>4
    <3>2. CASE t = s
      BY <3>1, <3>2, <1>1, <1>3, <1>5
    <3>3. CASE t # s
      <4>1. nodes[t].inst = w.nodes[t].inst /\ nodes[t].pos = w.nodes[t].pos
        BY <3>1, <3>3, <1>3
      <4>2. /\ w.nodes[t].inst \in DOMAIN w.idx /\ w.nodes[t].pos \in 0..d - 1
            /\ w.idx[w.nodes[t].inst].hist[w.nodes[t].pos] = t
        BY <2>4, <3>1, <4>1, LinkedPlace
      <4>3. ~(w.nodes[t].inst = k /\ w.nodes[t].pos = h)
        BY <3>1, <4>2, <1>0
      <4> QED BY <4>1, <4>2, <4>3, <1>5
    <3> QED BY <3>2, <3>3
  <2> QED BY <2>1, <2>2, <2>3, <2>4, <1>5 DEF Ring
<1>9. /\ Core(v) /\ v.nodes = nodes /\ v.idx = idx /\ v.intvs = w.intvs /\ v.open = w.open
      /\ v.tldepth = w.tldepth /\ v.idxdepth = w.idxdepth /\ v.hdepth = w.hdepth
      /\ v.tl = w.tl /\ v.maxseq = w.maxseq /\ v.maxDrop = w.maxDrop
  <2>1. \A t \in DOMAIN w.nodes : nodes[t].unacked = w.nodes[t].unacked
    BY <1>3, <1>4
  <2>2. v = Rewired(w, nodes, idx)
    BY DEF idx, nodes
  <2> QED BY <2>1, <2>2, <1>4, <1>8, RewiredKeeps
<1>10. /\ \A t \in DOMAIN w.nodes :
             /\ nodes[t].unacked = w.nodes[t].unacked
             /\ t # s => /\ nodes[t].inst = IF Pushes(w, k, t) THEN NoKey ELSE w.nodes[t].inst
                         /\ nodes[t].pos = w.nodes[t].pos
       /\ nodes[s].inst = k /\ nodes[s].pos = h
  BY <1>3, <1>4, <1>6, <1>7
<1> QED BY <1>4, <1>5, <1>9, <1>10 DEF Linked, h

\* The others in that buffer are one further behind.
LEMMA LinkedBehind ==
    ASSUME NEW w, Core(w), NEW k \in DOMAIN w.idx, NEW s, NEW v, Linked(w, v, k, s)
    PROVE  \A x \in DOMAIN w.idx : \A p \in 0..w.idxdepth - 1 :
              Behind(v, x, p) = IF x # k THEN Behind(w, x, p)
                                ELSE IF p = NextSlot(w, k) THEN 0 ELSE Behind(w, x, p) + 1
<1>1. w.idx[k].head \in 0..w.idxdepth - 1 /\ w.idxdepth \in Nat
  BY DEF Core, Depths, Ring, Buffer
<1>2. v.idxdepth = w.idxdepth /\ v.idx[k].head = NextSlot(w, k)
      /\ \A x \in DOMAIN w.idx : x # k => v.idx[x] = w.idx[x]
  BY DEF Linked
<1> SUFFICES ASSUME NEW x \in DOMAIN w.idx, NEW p \in 0..w.idxdepth - 1
             PROVE  Behind(v, x, p) = IF x # k THEN Behind(w, x, p)
                                      ELSE IF p = NextSlot(w, k) THEN 0 ELSE Behind(w, x, p) + 1
  OBVIOUS
<1>3. CASE x # k
  BY <1>2, <1>3 DEF Behind
<1>4. CASE x = k
  BY <1>1, <1>2, <1>4 DEF Behind, NextSlot
<1> QED BY <1>3, <1>4

\* t leaves the transient-local history when s, which is acknowledged, comes into it
Cuts(w, k, m, s, t) ==
    /\ w.nodes[t].inst = k /\ s <= m /\ w.tldepth > 0 /\ w.idxdepth > w.tldepth
    /\ Behind(w, k, w.nodes[t].pos) + 1 = w.tldepth

\* v is w with s in k's buffer
Entered(w, v, k, m, s) ==
    /\ Core(v) /\ v.maxDrop = w.maxDrop /\ v.maxseq = w.maxseq /\ v.open.maxp1 <= w.open.maxp1
    /\ v.tldepth = w.tldepth /\ v.idxdepth = w.idxdepth /\ v.hdepth = w.hdepth /\ v.tl = w.tl
    /\ DOMAIN v.nodes = {t \in DOMAIN w.nodes : t # s =>
                           /\ ~(Pushes(w, k, t) /\ (w.hdepth > 0 \/ t <= m))
                           /\ ~Cuts(w, k, m, s, t)}
    /\ \A t \in DOMAIN v.nodes :
          /\ v.nodes[t].unacked <=> w.nodes[t].unacked
          /\ t # s => /\ v.nodes[t].inst = IF Pushes(w, k, t) THEN NoKey ELSE w.nodes[t].inst
                      /\ v.nodes[t].inst # NoKey =>
                            Behind(v, v.nodes[t].inst, v.nodes[t].pos)
                               = Behind(w, w.nodes[t].inst, w.nodes[t].pos)
                                    + (IF w.nodes[t].inst = k THEN 1 ELSE 0)
    /\ v.nodes[s].inst = k /\ Behind(v, k, v.nodes[s].pos) = 0
    /\ \A x \in DOMAIN v.idx : x \in DOMAIN w.idx /\ v.idx[x].prune = w.idx[x].prune

\* A sample that is entered in the buffer of its instance becomes the head, pushes out
\* the oldest when the buffer is full, and all others fall behind by one.
LEMMA IndexedKeeps ==
    ASSUME NEW w, Core(w), NEW k \in DOMAIN w.idx, NEW s \in DOMAIN w.nodes, NEW m \in Nat,
           w.nodes[s].inst = NoKey
    PROVE  Entered(w, Indexed(w, k, m, s), k, m, s)
<1> DEFINE D == w.idxdepth
           T == w.tldepth
           h == NextSlot(w, k)
           old == Oldest(w, k)
           over == Rewired(w, OverNodes(w, k, s), PutIdx(w, k, s))
           oldGoes == old # 0 /\ (w.hdepth > 0 \/ old <= m)
           left == IF oldGoes THEN DeleteOne(over, old) ELSE over
           pos == IF h >= T THEN h - T ELSE h + D - T
           cut == s <= m /\ T > 0 /\ D > T
           tl == left.idx[k].hist[pos]
           v == IF cut /\ tl # 0 THEN DeleteOne(left, tl) ELSE left
<1>1. Indexed(w, k, m, s) = v
  <2> DEFINE put == [w EXCEPT !.idx[k].head = h, !.idx[k].hist[h] = s,
                              !.nodes[s].inst = k, !.nodes[s].pos = h]
             over2 == [put EXCEPT !.nodes = Unlinked(@, {old})]
             left2 == IF oldGoes THEN DeleteOne(over2, old) ELSE over2
             tl2 == left2.idx[k].hist[pos]
  <2>1. over2 = over
    <3> DEFINE n1 == PutNodes(w, k, s)
               i1 == PutIdx(w, k, s)
    <3>1. Fields(w)
      BY DEF Core
    <3>2. put = [w EXCEPT !.idx = i1, !.nodes = n1]
      <4> DEFINE ia == [w.idx EXCEPT ![k].head = h]
                 na == [w.nodes EXCEPT ![s].inst = k]
                 wa == [w EXCEPT !.idx[k].head = h]
                 wb == [wa EXCEPT !.idx[k].hist[h] = s]
                 wc == [wb EXCEPT !.nodes[s].inst = k]
      <4>1. i1 = [ia EXCEPT ![k].hist[h] = s] /\ n1 = [na EXCEPT ![s].pos = h]
        BY DEF PutNodes, PutIdx
      <4>2. put = [wc EXCEPT !.nodes[s].pos = h]
        OBVIOUS
      <4>3. wa = [w EXCEPT !.idx = ia]
        BY <3>1 DEF Fields
      <4> HIDE DEF ia, na, wa, i1, n1, put
      <4>4. wa.idx = ia /\ wa.nodes = w.nodes /\ Fields(wa)
        BY <4>3, <3>1 DEF Fields
      <4>5. wb = [w EXCEPT !.idx = i1]
        <5>1. wb = [wa EXCEPT !.idx = i1]
          BY <4>1, <4>4 DEF Fields
        <5> HIDE DEF wb
        <5> QED BY <5>1, <4>3, <3>1 DEF Fields
      <4> HIDE DEF wb
      <4>6. wb.nodes = w.nodes /\ Fields(wb)
        BY <4>5, <3>1 DEF Fields
      <4>7. wc = [w EXCEPT !.idx = i1, !.nodes = na]
        <5>1. wc = [wb EXCEPT !.nodes = na]
          BY <4>6 DEF Fields, na
        <5> HIDE DEF wc
        <5> QED BY <5>1, <4>5, <3>1 DEF Fields
      <4> HIDE DEF wc
      <4>8. wc.nodes = na /\ Fields(wc)
        BY <4>7, <3>1 DEF Fields
      <4>9. put = [wc EXCEPT !.nodes = n1]
        BY <4>1, <4>2, <4>8 DEF Fields
      <4> QED BY <4>7, <4>9, <3>1 DEF Fields
    <3> HIDE DEF n1, i1, put
    <3>3. over2 = [w EXCEPT !.nodes = Unlinked(n1, {old}), !.idx = i1]
      BY <3>1, <3>2 DEF Fields
    <3> QED BY <3>3 DEF Rewired, OverNodes, n1, i1
  <2> HIDE DEF over2, over, oldGoes
  <2>2. Indexed(w, k, m, s) = IF cut /\ tl2 # 0 THEN DeleteOne(left2, tl2) ELSE left2
    BY DEF Indexed, NoSeq, Oldest, over2, oldGoes
  <2>3. left2 = left
    BY <2>1
  <2> HIDE DEF left2, left
  <2> QED BY <2>2, <2>3
<1>2. Linked(w, over, k, s)
  BY LinkKeeps
<1> HIDE DEF over
<1>3. /\ h \in 0..D - 1 /\ h \in Nat /\ D \in Nat /\ T \in Nat /\ s \in Nat /\ T <= D
      /\ w.nodes[s].inst # k /\ k # NoKey
  BY NextSlotIs, SlotPlace DEF Core, Depths
<1>4. /\ Core(over) /\ DOMAIN over.nodes = DOMAIN w.nodes /\ over.maxDrop = w.maxDrop
      /\ over.maxseq = w.maxseq /\ over.open = w.open /\ over.tldepth = T /\ over.idxdepth = D
      /\ over.hdepth = w.hdepth /\ over.tl = w.tl /\ over.idx[k].head = h
      /\ over.nodes[s].inst = k /\ over.nodes[s].pos = h
  BY <1>2 DEF Linked
<1>5. old # 0 => /\ old \in DOMAIN w.nodes /\ old # s /\ Pushes(w, k, old)
                 /\ over.nodes[old].inst = NoKey
  <2> SUFFICES ASSUME old # 0
               PROVE  /\ old \in DOMAIN w.nodes /\ old # s /\ Pushes(w, k, old)
                      /\ over.nodes[old].inst = NoKey
    OBVIOUS
  <2>1. old \in DOMAIN w.nodes /\ w.nodes[old].inst = k /\ w.nodes[old].pos = h
    BY <1>3, SlotIs DEF Oldest
  <2>2. Behind(w, k, h) + 1 = D
    BY <1>3, NextSlotIs
  <2>3. Pushes(w, k, old)
    BY <2>1, <2>2 DEF Pushes
  <2> HIDE DEF old
  <2>4. old # s
    BY <2>1, <1>3
  <2> QED BY <2>1, <2>3, <2>4, <1>2 DEF Linked
<1>6. \A t \in DOMAIN w.nodes : t # s /\ Pushes(w, k, t) => t = old
  <2> SUFFICES ASSUME NEW t \in DOMAIN w.nodes, Pushes(w, k, t) PROVE t = old
    OBVIOUS
  <2>1. w.nodes[t].inst = k /\ w.nodes[t].pos \in 0..D - 1 /\ w.idx[k].hist[w.nodes[t].pos] = t
    BY <1>3, LinkedPlace DEF Pushes
  <2>2. w.nodes[t].pos = h
    BY <2>1, NextSlotIs DEF Pushes
  <2> QED BY <2>1, <2>2 DEF Oldest
<1> DEFINE Out == {t \in DOMAIN w.nodes : t # s /\ Pushes(w, k, t) /\ (w.hdepth > 0 \/ t <= m)}
           In == {t \in DOMAIN w.nodes : t # s /\ Cuts(w, k, m, s, t)}
<1> HIDE DEF old, h
<1>7. Core(left) /\ Less(over, left, Out, {}) /\ SamePrunes(over, left)
  <2>1. CASE oldGoes
    <3>1. old \in DOMAIN over.nodes /\ Loose(over, old)
      BY <2>1, <1>4, <1>5 DEF Loose
    <3>2. Out = {old}
      BY <2>1, <1>5, <1>6
    <3>3. left = DeleteOne(over, old)
      BY <2>1
    <3> HIDE DEF left
    <3> QED BY <3>1, <3>2, <3>3, <1>4, DeleteOneKeeps
  <2>2. CASE ~oldGoes
    <3>1. Out = {}
      BY <2>2, <1>5, <1>6 DEF Core
    <3>2. left = over
      BY <2>2
    <3> HIDE DEF left
    <3> QED BY <3>1, <3>2, <1>4, LessNothing
  <2> QED BY <2>1, <2>2
<1> HIDE DEF left
<1>8. /\ DOMAIN left.nodes = DOMAIN w.nodes \ Out /\ left.tldepth = T /\ left.idxdepth = D
      /\ \A t \in DOMAIN left.nodes :
            left.nodes[t].inst = over.nodes[t].inst /\ left.nodes[t].pos = over.nodes[t].pos
  BY <1>4, <1>7 DEF Less, Fewer
<1>9. s \in DOMAIN left.nodes /\ k \in DOMAIN left.idx /\ left.idx[k].head = h
      /\ \A p : Behind(left, k, p) = Behind(over, k, p)
  <2>1. s \in DOMAIN left.nodes
    BY <1>8
  <2>2. left.nodes[s].inst = k
    BY <2>1, <1>4, <1>8
  <2>3. k \in DOMAIN left.idx
    BY <2>1, <2>2, <1>3, <1>7, LinkedPlace
  <2>4. left.idx[k].head = over.idx[k].head
    BY <2>3, <1>7 DEF Less, Fewer
  <2> QED BY <2>1, <2>3, <2>4, <1>4, <1>8 DEF Behind
<1>10. cut => pos \in 0..D - 1 /\ pos # h /\ Behind(left, k, pos) = T
  BY <1>3, <1>8, <1>9 DEF Behind
<1>11. \A x \in DOMAIN w.idx : \A p \in 0..D - 1 :
              Behind(over, x, p) = IF x # k THEN Behind(w, x, p)
                                ELSE IF p = h THEN 0 ELSE Behind(w, x, p) + 1
  BY <1>2, LinkedBehind DEF h
<1>12. cut => \A t \in DOMAIN w.nodes : t \in In <=> tl # 0 /\ t = tl
  <2> SUFFICES ASSUME cut, NEW t \in DOMAIN w.nodes PROVE t \in In <=> tl # 0 /\ t = tl
    OBVIOUS
  <2> HIDE DEF pos
  <2>1. ASSUME t \in In PROVE tl # 0 /\ t = tl
    <3>1. /\ t # s /\ w.nodes[t].inst = k /\ Behind(w, k, w.nodes[t].pos) + 1 = T
      BY <2>1 DEF Cuts
    <3>2. ~Pushes(w, k, t)
      BY <3>1, <1>3 DEF Pushes
    <3>3. t \in DOMAIN left.nodes
      BY <3>2, <1>8
    <3>4. left.nodes[t].inst = k /\ left.nodes[t].pos = w.nodes[t].pos
      BY <3>1, <3>2, <3>3, <1>2, <1>8 DEF Linked
    <3>5. w.nodes[t].pos \in 0..D - 1 /\ left.idx[k].hist[w.nodes[t].pos] = t
      BY <3>3, <3>4, <1>3, <1>7, <1>8, LinkedPlace
    <3>6. Behind(over, k, w.nodes[t].pos) = T
      <4>1. w.nodes[t].pos # h
        <5>1. over.nodes[t].inst = k /\ over.nodes[t].pos = w.nodes[t].pos
          BY <3>3, <3>4, <1>8
        <5>2. over.idx[k].hist[w.nodes[t].pos] = t
          BY <5>1, <1>3, <1>4, LinkedPlace
        <5>3. over.idx[k].hist[h] = s
          BY <1>3, <1>4, LinkedPlace
        <5> QED BY <3>1, <5>2, <5>3
      <4> QED BY <3>1, <3>5, <4>1, <1>11
    <3>7. w.nodes[t].pos = pos
      BY <3>5, <3>6, <1>7, <1>8, <1>9, <1>10, BehindRange
    <3>8. t # 0
      BY DEF Core
    <3> QED BY <3>5, <3>7, <3>8
  <2>2. ASSUME tl # 0, t = tl PROVE t \in In
    <3>1. t \in DOMAIN left.nodes /\ left.nodes[t].inst = k /\ left.nodes[t].pos = pos
      BY <2>2, <1>7, <1>8, <1>9, <1>10, SlotIs
    <3>2. t # s
      BY <3>1, <1>4, <1>8, <1>10
    <3>3. w.nodes[t].inst = k /\ w.nodes[t].pos = pos
      BY <3>1, <3>2, <1>2, <1>3, <1>8 DEF Linked
    <3>4. Behind(w, k, pos) + 1 = T
      BY <1>9, <1>10, <1>11
    <3> QED BY <3>2, <3>3, <3>4 DEF Cuts
  <2> QED BY <2>1, <2>2
<1>13. Core(v) /\ Less(left, v, In, {}) /\ SamePrunes(left, v)
  <2>1. CASE cut /\ tl # 0
    <3> HIDE DEF pos
    <3>1. tl \in DOMAIN left.nodes /\ left.nodes[tl].pos = pos /\ left.nodes[tl].inst = k
      BY <2>1, <1>7, <1>8, <1>9, <1>10, SlotIs
    <3>2. Loose(left, tl)
      BY <2>1, <3>1, <1>9, <1>10 DEF Loose
    <3>3. In = {tl}
      <4>1. tl \in DOMAIN w.nodes
        BY <3>1, <1>8
      <4>2. \A t : t \in In => t \in DOMAIN w.nodes
        OBVIOUS
      <4> HIDE DEF tl, In
      <4> QED BY <2>1, <4>1, <4>2, <1>12
    <3>4. v = DeleteOne(left, tl)
      BY <2>1
    <3> HIDE DEF v, tl
    <3> QED BY <3>1, <3>2, <3>3, <3>4, <1>7, DeleteOneKeeps
  <2>2. CASE ~(cut /\ tl # 0)
    <3>1. In = {}
      BY <2>2, <1>12 DEF Cuts
    <3>2. v = left
      BY <2>2
    <3> HIDE DEF v, In
    <3> QED BY <3>1, <3>2, <1>7, LessNothing
  <2> QED BY <2>1, <2>2
<1> HIDE DEF v, In, Out
<1>14. Less(over, v, Out \cup In, {} \cup {}) /\ SamePrunes(over, v)
  BY <1>4, <1>7, <1>13, LessTrans
<1>15. /\ v.tldepth = T /\ v.idxdepth = D /\ v.hdepth = w.hdepth /\ v.tl = w.tl
       /\ v.maxDrop = w.maxDrop /\ v.maxseq = w.maxseq /\ v.open.maxp1 <= w.open.maxp1
       /\ DOMAIN v.nodes = DOMAIN w.nodes \ (Out \cup In)
       /\ \A t \in DOMAIN v.nodes :
             /\ v.nodes[t].inst = over.nodes[t].inst /\ v.nodes[t].pos = over.nodes[t].pos
             /\ v.nodes[t].unacked <=> over.nodes[t].unacked
       /\ \A x \in DOMAIN v.idx : x \in DOMAIN over.idx /\ v.idx[x].head = over.idx[x].head
                                  /\ v.idx[x].prune = over.idx[x].prune
  BY <1>4, <1>14 DEF Less, Fewer, SamePrunes
<1>16. \A x \in DOMAIN v.idx : \A p : Behind(v, x, p) = Behind(over, x, p)
  BY <1>4, <1>15 DEF Behind
<1>17. DOMAIN v.nodes = {t \in DOMAIN w.nodes : t # s =>
                           /\ ~(Pushes(w, k, t) /\ (w.hdepth > 0 \/ t <= m))
                           /\ ~Cuts(w, k, m, s, t)}
  BY <1>15 DEF Out, In
<1>18. s \in DOMAIN v.nodes
  BY <1>17
<1>19. v.nodes[s].inst = k /\ Behind(v, k, v.nodes[s].pos) = 0
  <2>1. v.nodes[s].inst = k /\ v.nodes[s].pos = h
    BY <1>4, <1>15, <1>18
  <2>2. k \in DOMAIN v.idx
    BY <2>1, <1>3, <1>13, <1>18, LinkedPlace
  <2> QED BY <2>1, <2>2, <1>3, <1>11, <1>16
<1>20. ASSUME NEW t \in DOMAIN v.nodes
       PROVE  /\ v.nodes[t].unacked <=> w.nodes[t].unacked
              /\ t # s => /\ v.nodes[t].inst = IF Pushes(w, k, t) THEN NoKey ELSE w.nodes[t].inst
                          /\ v.nodes[t].inst # NoKey =>
                               Behind(v, v.nodes[t].inst, v.nodes[t].pos)
                               = Behind(w, w.nodes[t].inst, w.nodes[t].pos)
                                    + (IF w.nodes[t].inst = k THEN 1 ELSE 0)
  <2>1. t \in DOMAIN w.nodes
    BY <1>15
  <2>2. v.nodes[t].unacked <=> w.nodes[t].unacked
    BY <2>1, <1>2, <1>15 DEF Linked
  <2>3. t # s => /\ v.nodes[t].inst = IF Pushes(w, k, t) THEN NoKey ELSE w.nodes[t].inst
                 /\ v.nodes[t].pos = w.nodes[t].pos
    BY <2>1, <1>2, <1>15 DEF Linked
  <2>4. ASSUME t # s, v.nodes[t].inst # NoKey
        PROVE  Behind(v, v.nodes[t].inst, v.nodes[t].pos)
                  = Behind(w, w.nodes[t].inst, w.nodes[t].pos)
                       + (IF w.nodes[t].inst = k THEN 1 ELSE 0)
    <3> DEFINE x == w.nodes[t].inst
               p == w.nodes[t].pos
    <3>1. v.nodes[t].inst = x /\ v.nodes[t].pos = p /\ ~Pushes(w, k, t) /\ x # NoKey
      BY <2>3, <2>4
    <3>2. x \in DOMAIN v.idx /\ x \in DOMAIN w.idx /\ p \in 0..D - 1
      BY <2>1, <3>1, <1>13, LinkedPlace
    <3>3. x = k => p # h
      <4>1. Behind(w, k, h) + 1 = D
        BY <1>3, NextSlotIs DEF h
      <4> QED BY <3>1, <4>1 DEF Pushes
    <3>4. Behind(w, x, p) \in Nat
      BY <3>2, BehindRange
    <3> HIDE DEF x, p
    <3>5. Behind(v, x, p) = Behind(w, x, p) + (IF x = k THEN 1 ELSE 0)
      BY <3>2, <3>3, <3>4, <1>11, <1>16
    <3> QED BY <3>1, <3>5 DEF x, p
  <2> QED BY <2>2, <2>3, <2>4
<1>21. \A x \in DOMAIN v.idx : x \in DOMAIN w.idx /\ v.idx[x].prune = w.idx[x].prune
  BY <1>2, <1>15 DEF Linked
<1>22. Entered(w, v, k, m, s)
  BY <1>13, <1>15, <1>17, <1>19, <1>20, <1>21 DEF Entered
<1> QED BY <1>1, <1>22

\* v is w with a buffer for k that holds s only
Started(w, v, k, s) ==
    /\ Core(v) /\ v.maxDrop = w.maxDrop /\ v.maxseq = w.maxseq /\ v.open = w.open
    /\ v.tldepth = w.tldepth /\ v.idxdepth = w.idxdepth /\ v.hdepth = w.hdepth /\ v.tl = w.tl
    /\ DOMAIN v.nodes = DOMAIN w.nodes
    /\ \A t \in DOMAIN w.nodes : /\ v.nodes[t].unacked = w.nodes[t].unacked
                                 /\ t # s => v.nodes[t] = w.nodes[t]
    /\ v.nodes[s].inst = k /\ Behind(v, k, v.nodes[s].pos) = 0
    /\ DOMAIN v.idx = DOMAIN w.idx \cup {k} /\ v.idx[k].prune = 0
    /\ \A x \in DOMAIN w.idx : v.idx[x] = w.idx[x]

\* the nodes and the buffers then
FirstNodes(w, k, s) == [w.nodes EXCEPT ![s].inst = k]
FirstBuffer(w, s) ==
    [hist |-> [p \in 0..w.idxdepth - 1 |-> IF p = 0 THEN s ELSE NoSeq], head |-> 0, prune |-> 0]

\* The first sample of an instance gets a buffer of which it is the head.
LEMMA NewInstanceKeeps ==
    ASSUME NEW w, Core(w), NEW k \in Keys \ DOMAIN w.idx, NEW s \in DOMAIN w.nodes,
           w.nodes[s].inst = NoKey, w.nodes[s].pos = 0, w.idxdepth > 0
    PROVE  Started(w, NewInstance(w, k, s), k, s)
<1> DEFINE d == w.idxdepth
           nodes == FirstNodes(w, k, s)
           b == FirstBuffer(w, s)
           idx == Extended(w.idx, k, b)
           v == NewInstance(w, k, s)
<1>1. v = Rewired(w, nodes, idx)
  <2> DEFINE wa == [w EXCEPT !.nodes[s].inst = k]
             i2 == Extended(w.idx, k, b)
  <2>1. v = [wa EXCEPT !.idx = Extended(wa.idx, k, b)] /\ Fields(w)
    BY DEF NewInstance, FirstBuffer, Core, Fields
  <2>2. wa = [w EXCEPT !.nodes = nodes]
    BY <2>1 DEF FirstNodes, Fields
  <2> HIDE DEF wa, v, nodes
  <2>3. Fields(wa) /\ wa.idx = w.idx
    BY <2>1, <2>2 DEF Fields
  <2>4. v = [wa EXCEPT !.idx = i2]
    BY <2>1, <2>3
  <2> HIDE DEF i2
  <2>5. v = [w EXCEPT !.nodes = nodes, !.idx = i2]
    BY <2>1, <2>2, <2>4 DEF Fields
  <2> QED BY <2>5 DEF Rewired, i2
<1> HIDE DEF v
<1>2. /\ s \in Nat \ {0} /\ k # NoKey /\ d \in Nat \ {0} /\ w.nodes \in [DOMAIN w.nodes -> Node]
      /\ \A t \in DOMAIN w.nodes : w.nodes[t].inst # k
  BY WHCAssumption, LinkedPlace DEF Core, Depths
<1>3. b.hist[0] = s /\ (\A p \in 0..d - 1 : p # 0 => b.hist[p] = 0) /\ b.head = 0 /\ b.prune = 0
      /\ b \in Buffer(d)
  <2> DEFINE hist == [p \in 0..d - 1 |-> IF p = 0 THEN s ELSE 0]
  <2>1. hist \in [0..d - 1 -> Nat] /\ hist[0] = s /\ \A p \in 0..d - 1 : p # 0 => hist[p] = 0
    BY <1>2
  <2>2. b = [hist |-> hist, head |-> 0, prune |-> 0]
    BY DEF FirstBuffer, NoSeq
  <2> HIDE DEF hist, b
  <2> QED BY <2>1, <2>2, <1>2 DEF Buffer
<1> HIDE DEF b
<1>4. /\ DOMAIN idx = DOMAIN w.idx \cup {k} /\ idx[k] = b
      /\ \A x \in DOMAIN w.idx : idx[x] = w.idx[x]
      /\ idx \in [DOMAIN idx -> Buffer(d)] /\ DOMAIN idx \subseteq Keys
  <2>1. /\ idx = [x \in DOMAIN w.idx \cup {k} |-> IF x = k THEN b ELSE w.idx[x]]
        /\ k \notin DOMAIN w.idx
    BY DEF Extended
  <2> HIDE DEF idx
  <2>2. \A x \in DOMAIN w.idx : w.idx[x] \in Buffer(d) /\ x \in Keys
    BY SlotPlace
  <2> QED BY <2>1, <2>2, <1>3
<1> HIDE DEF idx
<1>5. /\ nodes \in [DOMAIN w.nodes -> Node] /\ nodes[s].inst = k /\ nodes[s].pos = 0
      /\ \A t \in DOMAIN w.nodes : /\ nodes[t].unacked = w.nodes[t].unacked
                                   /\ t # s => nodes[t] = w.nodes[t]
  <2>1. nodes[s] = [inst |-> k, pos |-> 0, unacked |-> w.nodes[s].unacked] /\ w.nodes[s] \in Node
    BY <1>2 DEF Node, FirstNodes
  <2>2. \A t \in DOMAIN w.nodes : t # s => nodes[t] = w.nodes[t]
    BY DEF FirstNodes
  <2>3. nodes = [t \in DOMAIN w.nodes |-> nodes[t]]
    BY <1>2 DEF FirstNodes
  <2> HIDE DEF nodes
  <2>4. nodes[s] \in Node
    BY <2>1 DEF Node
  <2>5. \A t \in DOMAIN w.nodes : nodes[t] \in Node
    BY <1>2, <2>2, <2>4
  <2> QED BY <2>1, <2>2, <2>3, <2>5
<1> HIDE DEF nodes
<1>6. Ring(nodes, idx, d)
  <2>1. \A x \in DOMAIN idx : idx[x].hist[idx[x].head] # 0
    BY <1>2, <1>3, <1>4, SlotPlace
  <2>2. ASSUME NEW x \in DOMAIN idx, NEW p \in 0..d - 1, idx[x].hist[p] # 0
        PROVE  /\ idx[x].hist[p] \in DOMAIN nodes
               /\ nodes[idx[x].hist[p]].inst = x /\ nodes[idx[x].hist[p]].pos = p
    <3>1. CASE x = k
      BY <2>2, <3>1, <1>3, <1>4, <1>5
    <3>2. CASE x # k
      <4>1. x \in DOMAIN w.idx /\ idx[x] = w.idx[x]
        BY <3>2, <1>4
      <4> DEFINE t == w.idx[x].hist[p]
      <4>2. t \in DOMAIN w.nodes /\ w.nodes[t].inst = x /\ w.nodes[t].pos = p /\ x # NoKey
        <5>1. x # NoKey
          BY <4>1, SlotPlace
        <5> QED BY <5>1, <2>2, <4>1, SlotIs
      <4> HIDE DEF t
      <4>3. t # s
        BY <4>2
      <4> QED BY <4>1, <4>2, <4>3, <1>5 DEF t
    <3> QED BY <3>1, <3>2
  <2>3. ASSUME NEW t \in DOMAIN nodes, nodes[t].inst # NoKey
        PROVE  /\ nodes[t].inst \in DOMAIN idx /\ nodes[t].pos \in 0..d - 1
               /\ idx[nodes[t].inst].hist[nodes[t].pos] = t
    <3>1. CASE t = s
      BY <3>1, <1>2, <1>3, <1>4, <1>5
    <3>2. CASE t # s
      BY <2>3, <3>2, <1>4, <1>5, LinkedPlace
    <3> QED BY <3>1, <3>2
  <2> QED BY <2>1, <2>2, <2>3, <1>4 DEF Ring
<1>7. /\ Core(v) /\ v.nodes = nodes /\ v.idx = idx /\ v.intvs = w.intvs /\ v.open = w.open
      /\ v.tldepth = w.tldepth /\ v.idxdepth = w.idxdepth /\ v.hdepth = w.hdepth
      /\ v.tl = w.tl /\ v.maxseq = w.maxseq /\ v.maxDrop = w.maxDrop
  BY <1>1, <1>5, <1>6, RewiredKeeps
<1>8. Behind(v, k, v.nodes[s].pos) = 0
  BY <1>2, <1>3, <1>4, <1>5, <1>7 DEF Behind
<1> QED BY <1>3, <1>4, <1>5, <1>7, <1>8 DEF Started, v

\* Numbers that no other exceeds.
LEMMA NewestIsMax ==
    ASSUME NEW s \in Nat, NEW S \in SUBSET Nat, s \in S, \A t \in S : t <= s
    PROVE  Max({NoSeq} \cup S) = s
<1>1. {NoSeq} \cup S \in SUBSET Nat /\ s \in {NoSeq} \cup S
  BY DEF NoSeq
<1>2. \A t \in {NoSeq} \cup S : t <= s
  BY DEF NoSeq
<1> QED BY <1>1, <1>2, MaxIs

\* the sample loses its place in the index to the new one
Displaced(w, t, e) ==
    /\ w.nodes[t].inst = e.key
    /\ e.kind = "unreg" \/ Behind(w, e.key, w.nodes[t].pos) + 1 = w.idxdepth

\* and the cache
Discarded(w, t, m, s, e) ==
    \/ Displaced(w, t, e) /\ (t <= m \/ (e.kind # "unreg" /\ w.hdepth > 0))
    \/ e.kind # "unreg" /\ Cuts(w, e.key, m, s, t)

\* v is w with s, the sample e, in it
Grown(w, v, m, s, e) ==
    /\ Core(v) /\ v.maxDrop = w.maxDrop /\ v.open.maxp1 <= s + 1
    /\ v.tldepth = w.tldepth /\ v.idxdepth = w.idxdepth /\ v.hdepth = w.hdepth /\ v.tl = w.tl
    /\ \A t \in DOMAIN v.nodes : t \in DOMAIN w.nodes \/ t = s
    /\ \A t \in DOMAIN w.nodes : t \in DOMAIN v.nodes <=> ~Discarded(w, t, m, s, e)
    /\ s \in DOMAIN v.nodes <=> ~(w.idxdepth > 0 /\ e.kind = "unreg" /\ s <= m)
    /\ \A t \in DOMAIN v.nodes : t # s =>
          /\ v.nodes[t].unacked <=> w.nodes[t].unacked
          /\ v.nodes[t].inst = IF Displaced(w, t, e) THEN NoKey ELSE w.nodes[t].inst
          /\ v.nodes[t].inst # NoKey =>
                Behind(v, v.nodes[t].inst, v.nodes[t].pos)
                   = Behind(w, w.nodes[t].inst, w.nodes[t].pos)
                        + (IF w.nodes[t].inst = e.key THEN 1 ELSE 0)
    /\ s \in DOMAIN v.nodes =>
          /\ v.nodes[s].unacked <=> s > m
          /\ v.nodes[s].inst = IF w.idxdepth > 0 /\ e.kind # "unreg" THEN e.key ELSE NoKey
          /\ v.nodes[s].inst # NoKey => Behind(v, v.nodes[s].inst, v.nodes[s].pos) = 0
    /\ \A x \in DOMAIN v.idx :
          v.idx[x].prune = 0 \/ (x \in DOMAIN w.idx /\ v.idx[x].prune = w.idx[x].prune)

\* v is w, perhaps without the unregister
MayDrop(w, v, m, s, prev) ==
    /\ Core(v) /\ v.maxDrop = w.maxDrop /\ v.open.maxp1 <= w.open.maxp1
    /\ v.tldepth = w.tldepth /\ v.idxdepth = w.idxdepth /\ v.hdepth = w.hdepth /\ v.tl = w.tl
    /\ v.maxseq = IF s <= m THEN prev ELSE w.maxseq
    /\ DOMAIN v.nodes = DOMAIN w.nodes \ (IF s <= m THEN {s} ELSE {})
    /\ \A t \in DOMAIN v.nodes :
          /\ v.nodes[t].inst = w.nodes[t].inst /\ v.nodes[t].pos = w.nodes[t].pos
          /\ v.nodes[t].unacked <=> w.nodes[t].unacked
    /\ \A x \in DOMAIN v.idx : /\ x \in DOMAIN w.idx /\ v.idx[x].head = w.idx[x].head
                               /\ v.idx[x].prune = w.idx[x].prune

\* An unregister that all have acknowledged is deleted at once, others stay unindexed.
LEMMA DropUnregisterKeeps ==
    ASSUME NEW w, Core(w), NEW s \in DOMAIN w.nodes, w.nodes[s].inst = NoKey, NEW m \in Nat, NEW prev
    PROVE  MayDrop(w, DropUnregister(w, m, s, prev), m, s, prev)
<1> DEFINE u == DeleteOne(w, s)
           v == DropUnregister(w, m, s, prev)
<1>1. CASE s <= m
  <2>1. Core(u) /\ Less(w, u, {s}, {}) /\ SamePrunes(w, u)
    BY DeleteOneKeeps DEF Loose
  <2>2. v = [u EXCEPT !.maxseq = prev]
    BY <1>1 DEF DropUnregister
  <2> HIDE DEF u
  <2>3. v = Marked(u, prev, u.maxDrop)
    <3>1. Fields(u)
      BY <2>1 DEF Core
    <3> HIDE DEF v
    <3> QED BY <2>2, <3>1 DEF Fields, Marked
  <2>4. u.maxDrop \in Nat
    BY <2>1 DEF Core, Depths
  <2> HIDE DEF v
  <2>5. /\ Core(v) /\ v.nodes = u.nodes /\ v.idx = u.idx /\ v.open = u.open
        /\ v.tldepth = u.tldepth /\ v.idxdepth = u.idxdepth /\ v.hdepth = u.hdepth
        /\ v.tl = u.tl /\ v.maxseq = prev /\ v.maxDrop = u.maxDrop
    BY <2>1, <2>3, <2>4, MarksKeep
  <2> QED BY <2>1, <2>5, <1>1 DEF MayDrop, Less, Fewer, SamePrunes, v
<1>2. CASE ~(s <= m)
  <2>1. v = w
    BY <1>2 DEF DropUnregister
  <2>2. w.open.maxp1 <= w.open.maxp1
    BY DEF Core, Intervals
  <2> HIDE DEF v
  <2> QED BY <2>1, <2>2, <1>2 DEF MayDrop, v
<1> QED BY <1>1, <1>2

\* whc_insert adds the sample, and drops what it makes superfluous.
LEMMA InsertKeeps ==
    ASSUME NEW w, NEW s, Fits(w, s), NEW m \in Nat, NEW e, e.key \in Keys,
           w.maxseq = Max({NoSeq} \cup DOMAIN w.nodes)
    PROVE  LET v == Insert(w, m, s, e)
           IN  /\ Grown(w, v, m, s, e) /\ v.maxseq = Max({NoSeq} \cup DOMAIN v.nodes)
               /\ w.idxdepth = 0 /\ w.intvs = {w.open} /\ (w.open.min < w.open.maxp1 => w.open.maxp1 = s)
                     => v.intvs = {v.open} /\ v.open.maxp1 = s + 1
<1> DEFINE n == InsertSeq(w, m, s)
           k == e.key
           gone == DeleteInstance(n, k, m)
           v == Insert(w, m, s, e)
           D == w.idxdepth
<1>1. /\ Core(n) /\ DOMAIN n.nodes = DOMAIN w.nodes \cup {s} /\ s \notin DOMAIN w.nodes
      /\ \A t \in DOMAIN w.nodes : n.nodes[t] = w.nodes[t]
      /\ n.nodes[s] = [inst |-> NoKey, pos |-> 0, unacked |-> s > m]
      /\ n.idx = w.idx /\ n.tldepth = w.tldepth /\ n.idxdepth = w.idxdepth
      /\ n.hdepth = w.hdepth /\ n.tl = w.tl /\ n.maxDrop = w.maxDrop /\ n.maxseq = s
      /\ n.open.maxp1 = s + 1
      /\ w.intvs = {w.open} /\ (w.open.min < w.open.maxp1 => w.open.maxp1 = s)
            => n.intvs = {n.open}
  BY InsertSeqKeeps
<1>2. /\ n.nodes[s].inst = NoKey /\ n.nodes[s].pos = 0
      /\ n.nodes[s].unacked <=> s > m
  <2> DEFINE late == s > m
  <2>1. n.nodes[s] = [inst |-> NoKey, pos |-> 0, unacked |-> late]
    BY <1>1
  <2> HIDE DEF late, n
  <2>2. n.nodes[s].inst = NoKey /\ n.nodes[s].pos = 0 /\ n.nodes[s].unacked = late
    BY <2>1
  <2> QED BY <2>2 DEF late
<1>3. /\ Core(w) /\ s \in 1..MaxSeq /\ s \in Nat /\ D \in Nat /\ w.tldepth \in Nat
      /\ \A t \in DOMAIN w.nodes : t < s /\ t \in Nat /\ t # s
      /\ k # NoKey
  BY WHCAssumption DEF Fits, Core, Depths
<1> HIDE DEF n
<1>4. \A x, p : Behind(n, x, p) = Behind(w, x, p)
  BY <1>1 DEF Behind
<1>5. \A S \in SUBSET DOMAIN n.nodes : s \in S => Max({NoSeq} \cup S) = s
  <2> SUFFICES ASSUME NEW S \in SUBSET DOMAIN n.nodes, s \in S PROVE Max({NoSeq} \cup S) = s
    OBVIOUS
  <2>1. \A t \in S : t \in Nat /\ t <= s
    BY <1>1, <1>3
  <2> QED BY <2>1, <1>3, NewestIsMax
<1>6. CASE D = 0
  <2>1. v = n
    BY <1>6 DEF Insert, n
  <2>2. \A t \in DOMAIN w.nodes : w.nodes[t].inst = NoKey
    BY <1>3, <1>6, NoIndex
  <2>3. DOMAIN n.idx = {}
    BY <1>1, <1>3, <1>6, NoIndex
  <2>4. \A t \in DOMAIN w.nodes : ~Displaced(w, t, e) /\ ~Discarded(w, t, m, s, e)
    BY <2>2, <1>3 DEF Displaced, Discarded, Cuts
  <2>5. v.open.maxp1 <= s + 1
    BY <2>1, <1>1, <1>3
  <2> HIDE DEF v
  <2>6. Grown(w, v, m, s, e)
    BY <2>1, <2>2, <2>3, <2>4, <2>5, <1>1, <1>2, <1>3, <1>6 DEF Grown
  <2>7. v.maxseq = Max({NoSeq} \cup DOMAIN v.nodes)
    BY <2>1, <1>1, <1>5
  <2> QED BY <2>1, <2>6, <2>7, <1>1 DEF v
<1>7. CASE D # 0 /\ e.kind = "unreg" /\ k \in DOMAIN w.idx
  <2> DEFINE prev == Max({NoSeq} \cup (DOMAIN gone.nodes \ {s}))
  <2>1. v = DropUnregister(gone, m, s, prev)
    BY <1>7 DEF Insert, n
  <2>2. InstanceGone(n, gone, k, m)
    BY <1>1, <1>7, DeleteInstanceKeeps
  <2> HIDE DEF gone
  <2>3. /\ DOMAIN gone.nodes = DOMAIN n.nodes \ {t \in DOMAIN n.nodes : n.nodes[t].inst = k /\ t <= m}
        /\ Core(gone) /\ gone.maxDrop = w.maxDrop /\ gone.maxseq = s /\ gone.open.maxp1 <= s + 1
        /\ gone.tldepth = w.tldepth /\ gone.idxdepth = D /\ gone.hdepth = w.hdepth /\ gone.tl = w.tl
    BY <2>2, <1>1 DEF InstanceGone
  <2>4. s \in DOMAIN gone.nodes /\ gone.nodes[s].inst = NoKey
    BY <2>2, <2>3, <1>1, <1>2, <1>3 DEF InstanceGone
  <2> HIDE DEF v
  <2>5. MayDrop(gone, v, m, s, prev)
    BY <2>1, <2>3, <2>4, DropUnregisterKeeps
  <2>6. \A t \in DOMAIN w.nodes : /\ Displaced(w, t, e) <=> w.nodes[t].inst = k
                                  /\ Discarded(w, t, m, s, e) <=> w.nodes[t].inst = k /\ t <= m
    BY <1>7 DEF Displaced, Discarded
  <2>7. \A t \in DOMAIN w.nodes : t \in DOMAIN v.nodes <=> ~Discarded(w, t, m, s, e)
    BY <2>3, <2>5, <2>6, <1>1, <1>3 DEF MayDrop
  <2>8. DOMAIN v.nodes \subseteq DOMAIN gone.nodes /\ (s \in DOMAIN v.nodes <=> ~(s <= m))
    BY <2>4, <2>5 DEF MayDrop
  <2>9. v.maxseq = Max({NoSeq} \cup DOMAIN v.nodes)
    <3>1. CASE s <= m
      BY <2>5, <3>1 DEF MayDrop, prev
    <3>2. CASE ~(s <= m)
      <4>1. DOMAIN v.nodes = DOMAIN gone.nodes /\ v.maxseq = s
        BY <2>3, <2>5, <3>2 DEF MayDrop
      <4> QED BY <2>3, <2>4, <4>1, <1>5
    <3> QED BY <3>1, <3>2
  <2>10. ASSUME NEW t \in DOMAIN v.nodes, t # s
         PROVE  /\ v.nodes[t].unacked <=> w.nodes[t].unacked
                /\ v.nodes[t].inst = IF Displaced(w, t, e) THEN NoKey ELSE w.nodes[t].inst
                /\ v.nodes[t].inst # NoKey =>
                     Behind(v, v.nodes[t].inst, v.nodes[t].pos)
                        = Behind(w, w.nodes[t].inst, w.nodes[t].pos)
                             + (IF w.nodes[t].inst = k THEN 1 ELSE 0)
    <3>1. t \in DOMAIN gone.nodes /\ t \in DOMAIN n.nodes /\ t \in DOMAIN w.nodes
      BY <2>3, <2>8, <2>10, <1>1
    <3>2. /\ v.nodes[t].inst = IF w.nodes[t].inst = k THEN NoKey ELSE w.nodes[t].inst
          /\ v.nodes[t].pos = w.nodes[t].pos
          /\ v.nodes[t].unacked <=> w.nodes[t].unacked
      BY <2>2, <2>5, <3>1, <1>1 DEF MayDrop, InstanceGone
    <3>3. v.nodes[t].inst # NoKey =>
                     Behind(v, v.nodes[t].inst, v.nodes[t].pos)
                        = Behind(w, w.nodes[t].inst, w.nodes[t].pos)
                             + (IF w.nodes[t].inst = k THEN 1 ELSE 0)
      <4> SUFFICES ASSUME v.nodes[t].inst # NoKey
                   PROVE  Behind(v, v.nodes[t].inst, v.nodes[t].pos)
                             = Behind(w, w.nodes[t].inst, w.nodes[t].pos)
                                  + (IF w.nodes[t].inst = k THEN 1 ELSE 0)
        OBVIOUS
      <4> DEFINE x == w.nodes[t].inst
                 p == w.nodes[t].pos
      <4>1. v.nodes[t].inst = x /\ v.nodes[t].pos = p /\ x # k /\ x # NoKey
        BY <3>2
      <4>2. x \in DOMAIN v.idx /\ x \in DOMAIN w.idx /\ p \in 0..D - 1
        BY <2>5, <3>1, <4>1, <1>3, LinkedPlace DEF MayDrop
      <4>3. v.idx[x].head = w.idx[x].head /\ v.idxdepth = D
        BY <2>2, <2>3, <2>5, <4>2, <1>1 DEF MayDrop, InstanceGone
      <4>4. Behind(v, x, p) = Behind(w, x, p) /\ Behind(w, x, p) \in Nat
        BY <4>2, <4>3, <1>3, BehindRange DEF Behind
      <4> HIDE DEF x, p
      <4>5. Behind(v, x, p) = Behind(w, x, p) + (IF x = k THEN 1 ELSE 0)
        BY <4>1, <4>4
      <4> QED BY <4>1, <4>5 DEF x, p
    <3> QED BY <2>6, <3>1, <3>2, <3>3
  <2>11. s \in DOMAIN v.nodes => /\ v.nodes[s].unacked <=> s > m
                                 /\ v.nodes[s].inst = NoKey
    BY <2>2, <2>4, <2>5, <2>8, <1>1, <1>2 DEF MayDrop, InstanceGone
  <2>12. \A x \in DOMAIN v.idx : x \in DOMAIN w.idx /\ v.idx[x].prune = w.idx[x].prune
    BY <2>2, <2>5, <1>1 DEF MayDrop, InstanceGone
  <2>13. v.open.maxp1 <= s + 1
    <3>1. v.open.maxp1 <= gone.open.maxp1 /\ v.open.maxp1 \in Int /\ gone.open.maxp1 \in Int
      BY <2>3, <2>5 DEF MayDrop, Core, Intervals
    <3> QED BY <2>3, <3>1, <1>3
  <2>14. \A t \in DOMAIN v.nodes : t \in DOMAIN w.nodes \/ t = s
    BY <2>3, <2>8, <1>1
  <2>15. D > 0
    BY <1>3, <1>7
  <2>16. Grown(w, v, m, s, e)
    BY <2>3, <2>5, <2>7, <2>8, <2>10, <2>11, <2>12, <2>13, <2>14, <2>15, <1>7 DEF Grown, MayDrop
  <2> QED BY <2>9, <2>16, <1>7 DEF v
<1>8. CASE D # 0 /\ e.kind = "unreg" /\ k \notin DOMAIN w.idx
  <2> DEFINE prev == w.maxseq
  <2>1. v = DropUnregister(n, m, s, prev)
    BY <1>1, <1>8 DEF Insert, n
  <2> HIDE DEF v
  <2>2. MayDrop(n, v, m, s, prev)
    BY <2>1, <1>1, <1>2, DropUnregisterKeeps
  <2>3. \A t \in DOMAIN w.nodes : w.nodes[t].inst # k
    BY <1>3, <1>8, LinkedPlace
  <2>4. \A t \in DOMAIN w.nodes : ~Displaced(w, t, e) /\ ~Discarded(w, t, m, s, e)
    BY <2>3 DEF Displaced, Discarded, Cuts
  <2>5. v.maxseq = Max({NoSeq} \cup DOMAIN v.nodes)
    <3>1. CASE s <= m
      <4>1. v.maxseq = w.maxseq /\ DOMAIN v.nodes = DOMAIN n.nodes \ {s}
        BY <2>2, <3>1 DEF MayDrop
      <4>2. DOMAIN v.nodes = DOMAIN w.nodes
        BY <4>1, <1>1
      <4> QED BY <4>1, <4>2
    <3>2. CASE ~(s <= m)
      <4>1. v.maxseq = s /\ DOMAIN v.nodes = DOMAIN n.nodes \ {}
        BY <2>2, <3>2, <1>1, Zenon DEF MayDrop
      <4> QED BY <4>1, <1>1, <1>5
    <3> QED BY <3>1, <3>2
  <2>6. ASSUME NEW t \in DOMAIN v.nodes, t # s
         PROVE  /\ v.nodes[t].unacked <=> w.nodes[t].unacked
                /\ v.nodes[t].inst = IF Displaced(w, t, e) THEN NoKey ELSE w.nodes[t].inst
                /\ v.nodes[t].inst # NoKey =>
                     Behind(v, v.nodes[t].inst, v.nodes[t].pos)
                        = Behind(w, w.nodes[t].inst, w.nodes[t].pos)
                             + (IF w.nodes[t].inst = k THEN 1 ELSE 0)
    <3>1. t \in DOMAIN n.nodes /\ t \in DOMAIN w.nodes
      BY <2>2, <2>6, <1>1 DEF MayDrop
    <3>2. /\ v.nodes[t].inst = w.nodes[t].inst /\ v.nodes[t].pos = w.nodes[t].pos
          /\ v.nodes[t].unacked <=> w.nodes[t].unacked
      BY <2>2, <3>1, <1>1 DEF MayDrop
    <3>3. v.nodes[t].inst # NoKey =>
                     Behind(v, v.nodes[t].inst, v.nodes[t].pos)
                        = Behind(w, w.nodes[t].inst, w.nodes[t].pos)
                             + (IF w.nodes[t].inst = k THEN 1 ELSE 0)
      <4> SUFFICES ASSUME v.nodes[t].inst # NoKey
                   PROVE  Behind(v, v.nodes[t].inst, v.nodes[t].pos)
                             = Behind(w, w.nodes[t].inst, w.nodes[t].pos)
                                  + (IF w.nodes[t].inst = k THEN 1 ELSE 0)
        OBVIOUS
      <4> DEFINE x == w.nodes[t].inst
                 p == w.nodes[t].pos
      <4>1. v.nodes[t].inst = x /\ v.nodes[t].pos = p /\ x # k /\ x # NoKey
        BY <2>3, <3>1, <3>2
      <4>2. x \in DOMAIN v.idx /\ x \in DOMAIN w.idx /\ p \in 0..D - 1
        BY <2>2, <3>1, <4>1, <1>3, LinkedPlace DEF MayDrop
      <4>3. v.idx[x].head = w.idx[x].head /\ v.idxdepth = D
        BY <2>2, <4>2, <1>1 DEF MayDrop
      <4>4. Behind(v, x, p) = Behind(w, x, p) /\ Behind(w, x, p) \in Nat
        BY <4>2, <4>3, <1>3, BehindRange DEF Behind
      <4> HIDE DEF x, p
      <4>5. Behind(v, x, p) = Behind(w, x, p) + (IF x = k THEN 1 ELSE 0)
        BY <4>1, <4>4
      <4> QED BY <4>1, <4>5 DEF x, p
    <3> QED BY <2>4, <3>1, <3>2, <3>3
  <2>7. /\ s \in DOMAIN v.nodes <=> ~(s <= m)
        /\ s \in DOMAIN v.nodes => /\ v.nodes[s].unacked <=> s > m
                                   /\ v.nodes[s].inst = NoKey
    BY <2>2, <1>1, <1>2 DEF MayDrop
  <2>8. \A x \in DOMAIN v.idx : x \in DOMAIN w.idx /\ v.idx[x].prune = w.idx[x].prune
    BY <2>2, <1>1 DEF MayDrop
  <2>9. v.open.maxp1 <= s + 1
    BY <2>2, <1>1 DEF MayDrop
  <2>10. /\ \A t \in DOMAIN v.nodes : t \in DOMAIN w.nodes \/ t = s
         /\ \A t \in DOMAIN w.nodes : t \in DOMAIN v.nodes
    BY <2>2, <1>1, <1>3 DEF MayDrop
  <2>11. D > 0
    BY <1>3, <1>8
  <2>12. Grown(w, v, m, s, e)
    BY <2>2, <2>4, <2>6, <2>7, <2>8, <2>9, <2>10, <2>11, <1>1, <1>8 DEF Grown, MayDrop
  <2> QED BY <2>5, <2>12, <1>8 DEF v
<1>9. CASE D # 0 /\ e.kind # "unreg" /\ k \in DOMAIN w.idx
  <2>1. v = Indexed(n, k, m, s)
    BY <1>9 DEF Insert, n
  <2> HIDE DEF v
  <2>2. Entered(n, v, k, m, s)
    BY <2>1, <1>1, <1>2, <1>9, IndexedKeeps
  <2>3. \A t \in DOMAIN w.nodes :
           /\ Displaced(w, t, e) <=> Pushes(n, k, t)
           /\ Discarded(w, t, m, s, e)
                 <=> (Pushes(n, k, t) /\ (n.hdepth > 0 \/ t <= m)) \/ Cuts(n, k, m, s, t)
    BY <1>1, <1>4, <1>9 DEF Displaced, Discarded, Pushes, Cuts
  <2>4. \A t \in DOMAIN w.nodes : t \in DOMAIN v.nodes <=> ~Discarded(w, t, m, s, e)
    BY <2>2, <2>3, <1>1, <1>3 DEF Entered
  <2>5. s \in DOMAIN v.nodes /\ DOMAIN v.nodes \subseteq DOMAIN n.nodes
    BY <2>2, <1>1 DEF Entered
  <2>6. v.maxseq = Max({NoSeq} \cup DOMAIN v.nodes)
    <3>1. v.maxseq = s
      BY <2>2, <1>1 DEF Entered
    <3> QED BY <2>5, <3>1, <1>5
  <2>7. ASSUME NEW t \in DOMAIN v.nodes, t # s
        PROVE  /\ v.nodes[t].unacked <=> w.nodes[t].unacked
               /\ v.nodes[t].inst = IF Displaced(w, t, e) THEN NoKey ELSE w.nodes[t].inst
               /\ v.nodes[t].inst # NoKey =>
                     Behind(v, v.nodes[t].inst, v.nodes[t].pos)
                        = Behind(w, w.nodes[t].inst, w.nodes[t].pos)
                             + (IF w.nodes[t].inst = k THEN 1 ELSE 0)
    <3>1. t \in DOMAIN w.nodes /\ n.nodes[t] = w.nodes[t]
      BY <2>5, <2>7, <1>1
    <3> QED BY <2>2, <2>3, <2>7, <3>1, <1>4 DEF Entered
  <2>8. /\ v.nodes[s].inst = k /\ Behind(v, k, v.nodes[s].pos) = 0
        /\ v.nodes[s].unacked <=> s > m
    <3>1. v.nodes[s].unacked <=> n.nodes[s].unacked
      BY <2>2, <2>5 DEF Entered
    <3> QED BY <2>2, <3>1, <1>2 DEF Entered
  <2>9. \A x \in DOMAIN v.idx : x \in DOMAIN w.idx /\ v.idx[x].prune = w.idx[x].prune
    BY <2>2, <1>1 DEF Entered
  <2>10. \A t \in DOMAIN v.nodes : t \in DOMAIN w.nodes \/ t = s
    BY <2>5, <1>1
  <2>11. D > 0
    BY <1>3, <1>9
  <2>12. /\ Core(v) /\ v.maxDrop = w.maxDrop /\ v.open.maxp1 <= s + 1
         /\ v.tldepth = w.tldepth /\ v.idxdepth = w.idxdepth /\ v.hdepth = w.hdepth /\ v.tl = w.tl
    BY <2>2, <1>1 DEF Entered
  <2>13. Grown(w, v, m, s, e)
    BY <2>4, <2>5, <2>7, <2>8, <2>9, <2>10, <2>11, <2>12, <1>9 DEF Grown
  <2> QED BY <2>6, <2>13, <1>9 DEF v
<1>10. CASE D # 0 /\ e.kind # "unreg" /\ k \notin DOMAIN w.idx
  <2>1. v = NewInstance(n, k, s)
    BY <1>10 DEF Insert, n
  <2>2. D > 0
    BY <1>3, <1>10
  <2> HIDE DEF v
  <2>3. Started(n, v, k, s)
    BY <2>1, <2>2, <1>1, <1>2, <1>10, NewInstanceKeeps
  <2>4. \A t \in DOMAIN w.nodes : w.nodes[t].inst # k
    BY <1>3, <1>10, LinkedPlace
  <2>5. \A t \in DOMAIN w.nodes : ~Displaced(w, t, e) /\ ~Discarded(w, t, m, s, e)
    BY <2>4 DEF Displaced, Discarded, Cuts
  <2>6. v.maxseq = Max({NoSeq} \cup DOMAIN v.nodes)
    BY <2>3, <1>1, <1>5 DEF Started
  <2>7. ASSUME NEW t \in DOMAIN v.nodes, t # s
        PROVE  /\ v.nodes[t].unacked <=> w.nodes[t].unacked
               /\ v.nodes[t].inst = IF Displaced(w, t, e) THEN NoKey ELSE w.nodes[t].inst
               /\ v.nodes[t].inst # NoKey =>
                     Behind(v, v.nodes[t].inst, v.nodes[t].pos)
                        = Behind(w, w.nodes[t].inst, w.nodes[t].pos)
                             + (IF w.nodes[t].inst = k THEN 1 ELSE 0)
    <3>1. t \in DOMAIN w.nodes /\ n.nodes[t] = w.nodes[t] /\ v.nodes[t] = n.nodes[t]
      BY <2>3, <2>7, <1>1 DEF Started
    <3> DEFINE x == w.nodes[t].inst
               p == w.nodes[t].pos
    <3>2. x # NoKey => Behind(v, x, p) = Behind(w, x, p) + (IF x = k THEN 1 ELSE 0)
      <4> SUFFICES ASSUME x # NoKey
                   PROVE  Behind(v, x, p) = Behind(w, x, p) + (IF x = k THEN 1 ELSE 0)
        OBVIOUS
      <4>1. x \in DOMAIN w.idx /\ p \in 0..D - 1 /\ x # k
        BY <2>4, <3>1, <1>3, LinkedPlace
      <4>2. v.idx[x] = w.idx[x] /\ v.idxdepth = D
        BY <2>3, <4>1, <1>1 DEF Started
      <4>3. Behind(v, x, p) = Behind(w, x, p) /\ Behind(w, x, p) \in Nat
        BY <4>1, <4>2, <1>3, BehindRange DEF Behind
      <4> QED BY <4>1, <4>3
    <3> HIDE DEF x, p
    <3>3. v.nodes[t].inst = x /\ v.nodes[t].pos = p /\ w.nodes[t].inst = x /\ w.nodes[t].pos = p
          /\ (v.nodes[t].unacked <=> w.nodes[t].unacked)
      BY <3>1 DEF x, p
    <3> QED BY <2>5, <3>1, <3>2, <3>3
  <2>8. /\ v.nodes[s].inst = k /\ Behind(v, k, v.nodes[s].pos) = 0
        /\ v.nodes[s].unacked <=> s > m
    <3>1. v.nodes[s].unacked = n.nodes[s].unacked
      BY <2>3, <1>1 DEF Started
    <3> QED BY <2>3, <3>1, <1>2 DEF Started
  <2>9. \A x \in DOMAIN v.idx :
           v.idx[x].prune = 0 \/ (x \in DOMAIN w.idx /\ v.idx[x].prune = w.idx[x].prune)
    BY <2>3, <1>1 DEF Started
  <2>10. /\ \A t \in DOMAIN v.nodes : t \in DOMAIN w.nodes \/ t = s
         /\ \A t \in DOMAIN w.nodes : t \in DOMAIN v.nodes
         /\ s \in DOMAIN v.nodes
    BY <2>3, <1>1 DEF Started
  <2>11. /\ Core(v) /\ v.maxDrop = w.maxDrop /\ v.open.maxp1 <= s + 1
         /\ v.tldepth = w.tldepth /\ v.idxdepth = w.idxdepth /\ v.hdepth = w.hdepth /\ v.tl = w.tl
    BY <2>3, <1>1, <1>3 DEF Started
  <2>12. Grown(w, v, m, s, e)
    BY <2>2, <2>5, <2>7, <2>8, <2>9, <2>10, <2>11, <1>10 DEF Grown
  <2> QED BY <2>6, <2>12, <1>10 DEF v
<1> QED BY <1>6, <1>7, <1>8, <1>9, <1>10

----------------------------------------------------------------------------
(* Behaviours *)

\* What was written

\* Writing adds a sample to its instance, or ends it.
LEMMA WrittenGrows ==
    ASSUME log \in Seq([key : Keys, kind : Kinds]), NEW e \in [key : Keys, kind : Kinds],
           log' = Append(log, e), NEW k
    PROVE  Written(k)' = IF e.key # k THEN Written(k)
                         ELSE IF e.kind = "unreg" THEN {} ELSE Written(k) \cup {seq + 1}
<1>1. /\ seq \in Nat /\ seq' = seq + 1 /\ log'[seq + 1] = e
      /\ \A t \in 1..seq : log'[t] = log[t]
  BY DEF seq
<1>2. e = [key |-> e.key, kind |-> e.kind] /\ e.kind \in {"data", "unreg"}
  BY WHCAssumption
<1>3. /\ e = [key |-> k, kind |-> "data"] <=> e.key = k /\ e.kind = "data"
      /\ e = [key |-> k, kind |-> "unreg"] <=> e.key = k /\ e.kind = "unreg"
  BY <1>2
<1> DEFINE D == [key |-> k, kind |-> "data"]
           U == [key |-> k, kind |-> "unreg"]
<1>4. Written(k) = {s \in 1..seq : log[s] = D /\ \A t \in s..seq : log[t] # U}
  BY DEF Written
<1>5. Written(k)' = {s \in 1..seq + 1 : log'[s] = D /\ \A t \in s..seq + 1 : log'[t] # U}
  BY <1>1 DEF Written
<1> HIDE DEF D, U
<1>6. \A s \in 1..seq : /\ s \in Written(k)' <=> s \in Written(k) /\ e # U
  <2> SUFFICES ASSUME NEW s \in 1..seq PROVE s \in Written(k)' <=> s \in Written(k) /\ e # U
    OBVIOUS
  <2>1. \A t \in s..seq + 1 : t \in 1..seq \/ t = seq + 1
    BY <1>1
  <2>2. (\A t \in s..seq + 1 : log'[t] # U) <=> (\A t \in s..seq : log[t] # U) /\ e # U
    <3>1. \A t \in s..seq : t \in s..seq + 1 /\ t \in 1..seq
      BY <1>1
    <3>2. \A t \in s..seq + 1 : t \in s..seq \/ t = seq + 1
      BY <1>1
    <3>3. seq + 1 \in s..seq + 1
      BY <1>1
    <3> QED BY <3>1, <3>2, <3>3, <1>1
  <2>3. s \in 1..seq + 1 /\ log'[s] = log[s]
    <3>1. s \in 1..seq + 1
      BY <1>1
    <3>2. log'[s] = log[s]
      BY <1>1, Zenon
    <3> QED BY <3>1, <3>2
  <2> QED BY <2>2, <2>3, <1>4, <1>5
<1>7. seq + 1 \in Written(k)' <=> e = D /\ e # U
  <2>1. seq + 1 \in 1..seq + 1 /\ \A t \in seq + 1..seq + 1 : t = seq + 1
    BY <1>1
  <2>2. seq + 1 \in seq + 1..seq + 1
    BY <1>1
  <2> QED BY <2>1, <2>2, <1>1, <1>5
<1>8. Written(k)' \subseteq 1..seq + 1 /\ Written(k) \subseteq 1..seq
      /\ \A s \in 1..seq + 1 : s \in 1..seq \/ s = seq + 1
  BY <1>1, <1>4, <1>5
<1>9. /\ e = D <=> e.key = k /\ e.kind = "data"
      /\ e = U <=> e.key = k /\ e.kind = "unreg"
  BY <1>3 DEF D, U
<1>10. CASE e.key # k
  <2>1. e # D /\ e # U
    BY <1>9, <1>10
  <2>2. seq + 1 \notin Written(k)' /\ \A s \in 1..seq : s \in Written(k)' <=> s \in Written(k)
    BY <2>1, <1>6, <1>7
  <2>3. Written(k)' = Written(k)
    BY <2>2, <1>8
  <2> QED BY <2>3, <1>10
<1>11. CASE e.key = k /\ e.kind = "unreg"
  <2>1. e = U
    BY <1>9, <1>11
  <2>2. \A s \in 1..seq + 1 : s \notin Written(k)'
    BY <2>1, <1>6, <1>7, <1>8
  <2>3. Written(k)' = {}
    BY <2>2, <1>8
  <2> QED BY <2>3, <1>11
<1>12. CASE e.key = k /\ e.kind = "data"
  <2>1. e = D /\ e # U
    BY <1>9, <1>12
  <2>2. seq + 1 \in Written(k)' /\ \A s \in 1..seq : s \in Written(k)' <=> s \in Written(k)
    BY <2>1, <1>6, <1>7
  <2>3. Written(k)' = Written(k) \cup {seq + 1}
    BY <2>2, <1>8
  <2> QED BY <2>3, <1>12
<1> QED BY <1>2, <1>10, <1>11, <1>12

\* The samples of an instance that are newer than another are so many.
LEMMA NewerFinite ==
    ASSUME log \in Seq([key : Keys, kind : Kinds]), NEW k, NEW s
    PROVE  /\ Written(k) \subseteq 1..seq /\ NewerOf(k, s) \subseteq Written(k)
           /\ IsFiniteSet(NewerOf(k, s)) /\ Cardinality(NewerOf(k, s)) \in Nat
<1>1. seq \in Nat
  BY DEF seq
<1>2. Written(k) \subseteq 1..seq /\ NewerOf(k, s) \subseteq Written(k)
  BY DEF Written, NewerOf
<1>3. NewerOf(k, s) \in SUBSET (1..seq)
  BY <1>2
<1> QED BY <1>1, <1>2, <1>3, Bounded

\* Writing adds one to those, for the samples of its instance.
LEMMA NewerGrows ==
    ASSUME log \in Seq([key : Keys, kind : Kinds]), NEW e \in [key : Keys, kind : Kinds],
           log' = Append(log, e), NEW k, NEW s \in 1..seq
    PROVE  /\ e.key # k => NewerOf(k, s)' = NewerOf(k, s)
           /\ e.key = k /\ e.kind # "unreg" =>
                 /\ NewerOf(k, s)' = NewerOf(k, s) \cup {seq + 1}
                 /\ Cardinality(NewerOf(k, s)') = Cardinality(NewerOf(k, s)) + 1
<1>1. seq \in Nat /\ seq + 1 > s /\ s \in Nat
  BY DEF seq
<1>2. NewerOf(k, s)' = {t \in Written(k)' : t > s}
  BY DEF NewerOf
<1>3. CASE e.key # k
  BY <1>2, <1>3, WrittenGrows DEF NewerOf
<1>4. CASE e.key = k /\ e.kind # "unreg"
  <2>1. Written(k)' = Written(k) \cup {seq + 1}
    BY <1>4, WrittenGrows
  <2>2. NewerOf(k, s)' = NewerOf(k, s) \cup {seq + 1}
    BY <2>1, <1>1, <1>2 DEF NewerOf
  <2>3. seq + 1 \notin NewerOf(k, s)
    BY <1>1, NewerFinite
  <2>4. Cardinality(NewerOf(k, s) \cup {seq + 1}) = Cardinality(NewerOf(k, s)) + 1
    BY <2>3, NewerFinite, FS_AddElement
  <2> QED BY <2>2, <2>4, <1>4
<1> QED BY <1>3, <1>4

\* The fewer newer ones there are, the newer a sample is.
LEMMA NewerOrder ==
    ASSUME log \in Seq([key : Keys, kind : Kinds]), NEW k,
           NEW s \in 1..seq, NEW t \in 1..seq,
           Cardinality(NewerOf(k, s)) < Cardinality(NewerOf(k, t))
    PROVE  t < s
<1>1. seq \in Nat /\ s \in Nat /\ t \in Nat
  BY DEF seq
<1>2. ASSUME s <= t PROVE FALSE
  <2>1. NewerOf(k, t) \subseteq NewerOf(k, s)
    <3>1. \A x \in Written(k) : x \in Nat
      BY <1>1, NewerFinite
    <3> QED BY <3>1, <1>1, <1>2 DEF NewerOf
  <2>2. Cardinality(NewerOf(k, t)) <= Cardinality(NewerOf(k, s))
    BY <2>1, NewerFinite, FS_Subset
  <2> QED BY <2>2, NewerFinite
<1> QED BY <1>1, <1>2

----------------------------------------------------------------------------
\* The inductive invariant

Shape ==
    /\ log \in Seq([key : Keys, kind : Kinds]) /\ seq <= MaxSeq
    /\ readers \in BOOLEAN /\ startup \in BOOLEAN /\ acked \in 0..seq
    /\ Core(c) /\ Stored \subseteq 1..seq
    /\ c.open.maxp1 <= seq + 1 /\ c.maxDrop <= seq /\ c.maxseq = Max({NoSeq} \cup Stored)
    /\ Prunes(c) /\ c.hdepth = HDepth /\ c.tl = TL /\ c.idxdepth = IdxDepth(HDepth, TLDepth)
    /\ c.tldepth = (IF startup THEN HDepth ELSE TLDepth)
    /\ startup => StartupMode

\* What is flagged as unacknowledged, what a volatile writer keeps, and the one interval
\* there is without an index
Flags ==
    /\ \A s \in Stored : c.nodes[s].unacked <=> readers /\ s > acked
    /\ readers => c.maxDrop <= acked
    /\ c.tldepth = 0 => \A s \in Stored : readers /\ s > acked
    /\ c.idxdepth = 0 =>
          c.intvs = {c.open} /\ (c.open.min < c.open.maxp1 => c.open.maxp1 = seq + 1)

\* A sample is as far behind the head of its buffer as there are newer ones.
Placed(w) ==
    \A k \in Keys : \A s \in DOMAIN w.nodes : w.nodes[s].inst = k =>
       /\ s \in Written(k) /\ Cardinality(NewerOf(k, s)) = Behind(w, k, w.nodes[s].pos)

Place ==
    \A k \in Keys : \A s \in Stored : c.nodes[s].inst = k =>
       /\ s \in Written(k) /\ Cardinality(NewerOf(k, s)) = Behind(c, k, c.nodes[s].pos)

CacheInv == Shape /\ Flags /\ Place

\* The head of a buffer is the newest sample of its instance.
LEMMA HeadIsLast == CacheInv => HeadLast(c)
<1> SUFFICES ASSUME CacheInv, NEW s \in DOMAIN c.nodes, c.nodes[s].inst # NoKey
             PROVE  s <= c.idx[c.nodes[s].inst].hist[c.idx[c.nodes[s].inst].head]
  BY DEF HeadLast
<1> DEFINE k == c.nodes[s].inst
           h == c.idx[k].hist[c.idx[k].head]
<1>1. Core(c) /\ log \in Seq([key : Keys, kind : Kinds])
  BY DEF CacheInv, Shape
<1>2. k \in DOMAIN c.idx /\ k # NoKey
  BY <1>1, LinkedPlace
<1>3. h \in DOMAIN c.nodes /\ c.nodes[h].inst = k /\ c.nodes[h].pos = c.idx[k].head
  <2> HIDE DEF k
  <2> QED BY <1>1, <1>2, HeadPlace
<1>9. k \in Keys
  <2> HIDE DEF k
  <2> QED BY <1>1, <1>2, SlotPlace
<1>4. s \in Written(k) /\ h \in Written(k) /\ Cardinality(NewerOf(k, h)) = 0
  <2>1. s \in Written(k)
    BY <1>9 DEF CacheInv, Place, Stored
  <2> HIDE DEF k, h
  <2>2. h \in Written(k) /\ Cardinality(NewerOf(k, h)) = Behind(c, k, c.nodes[h].pos)
    BY <1>3, <1>9 DEF CacheInv, Place, Stored
  <2>3. Behind(c, k, c.idx[k].head) = 0
    BY <1>1, <1>2, SlotPlace, BehindRange
  <2> QED BY <2>1, <2>2, <2>3, <1>3
<1> HIDE DEF k, h
<1>5. NewerOf(k, h) = {}
  BY <1>1, <1>4, NewerFinite, FS_EmptySet
<1>6. s \in 1..seq /\ h \in 1..seq
  BY <1>1, <1>4, NewerFinite
<1>7. ~(s > h)
  BY <1>4, <1>5 DEF NewerOf
<1>8. s <= h
  BY <1>6, <1>7
<1> QED BY <1>8 DEF k, h

\* The invariant says that the structures agree.
LEMMA InvStructures == CacheInv => StructuresAgree
<1> SUFFICES ASSUME CacheInv PROVE StructuresAgree
  OBVIOUS
<1>1. Shape /\ Flags /\ Place /\ Core(c) /\ Intervals(c.intvs, c.open, Stored)
  BY DEF CacheInv, Shape, Core, Stored
<1>2. TypeOK
  <2>1. c.maxDrop \in Nat /\ DOMAIN c.idx \subseteq Keys /\ c.open \in c.intvs
    BY <1>1 DEF Core, Depths, Ring, Intervals
  <2>2. seq \in Nat
    BY <1>1 DEF Shape, seq
  <2> QED BY <1>1, <2>1, <2>2 DEF TypeOK, Shape
<1>3. IntervalsExact
  <2>1. \A i \in c.intvs : i.min \in Nat \ {0} /\ i.maxp1 \in Nat \ {0} /\ i.min <= i.maxp1
    BY <1>1 DEF Intervals
  <2>2. \A i \in c.intvs : \A s : s \in Span(i) <=> s \in Nat /\ i.min <= s /\ s < i.maxp1
    BY <2>1 DEF Span
  <2>3. \A s \in Stored : s \in Nat
    BY <1>1 DEF Core, Stored
  <2>4. UNION {Span(i) : i \in c.intvs} = Stored
    <3>1. \A s : s \in UNION {Span(i) : i \in c.intvs} <=> \E i \in c.intvs : s \in Span(i)
      OBVIOUS
    <3>2. \A s : (\E i \in c.intvs : s \in Span(i)) <=> s \in Stored
      BY <1>1, <2>2, <2>3 DEF Intervals
    <3> QED BY <3>1, <3>2
  <2>5. \A i, j \in c.intvs : i.min < j.min => i.maxp1 < j.min
    <3> SUFFICES ASSUME NEW i \in c.intvs, NEW j \in c.intvs, i.min < j.min PROVE i.maxp1 < j.min
      OBVIOUS
    <3>1. i # j
      BY <2>1
    <3>2. i.maxp1 < j.min \/ j.maxp1 < i.min
      BY <1>1, <3>1 DEF Intervals
    <3> QED BY <2>1, <3>2
  <2>6. \A i \in c.intvs : i = c.open \/ (Span(i) # {} /\ i.min < c.open.min)
    <3> SUFFICES ASSUME NEW i \in c.intvs, i # c.open PROVE Span(i) # {} /\ i.min < c.open.min
      OBVIOUS
    <3>1. i.min < i.maxp1 /\ i.min < c.open.min
      BY <1>1 DEF Intervals
    <3>2. i.min \in Span(i)
      BY <2>1, <2>2, <3>1
    <3> QED BY <3>1, <3>2
  <2> QED BY <2>4, <2>5, <2>6 DEF IntervalsExact
<1>4. CountsExact
  BY <1>1 DEF Shape, Core, CountsExact, Unacked, Stored
<1>5. UnackedMeansUnacked
  BY <1>1 DEF Flags, UnackedMeansUnacked
<1>6. IndexExact
  <2>1. ASSUME NEW k \in DOMAIN c.idx
        PROVE  /\ c.idx[k].hist[c.idx[k].head] # NoSeq
               /\ \A p \in DOMAIN c.idx[k].hist :
                     LET s == c.idx[k].hist[p]
                     IN  s # NoSeq => /\ s \in Stored /\ c.nodes[s].inst = k /\ c.nodes[s].pos = p
                                      /\ s \in Written(k)
                                      /\ Cardinality(NewerOf(k, s)) = Behind(c, k, p)
    <3>1. c.idx[k].hist[c.idx[k].head] # 0 /\ DOMAIN c.idx[k].hist = 0..c.idxdepth - 1 /\ k \in Keys
      BY <1>1, SlotPlace DEF Buffer
    <3>2. ASSUME NEW p \in 0..c.idxdepth - 1, NEW s, s = c.idx[k].hist[p], s # 0
          PROVE  /\ s \in Stored /\ c.nodes[s].inst = k /\ c.nodes[s].pos = p
                 /\ s \in Written(k) /\ Cardinality(NewerOf(k, s)) = Behind(c, k, p)
      <4>1. s \in Stored /\ c.nodes[s].inst = k /\ c.nodes[s].pos = p
        BY <1>1, <3>2, SlotIs DEF Stored
      <4> QED BY <1>1, <3>1, <4>1 DEF Place
    <3> QED BY <3>1, <3>2 DEF NoSeq
  <2>2. \A s \in Stored : LET n == c.nodes[s] IN
           n.inst # NoKey => n.inst \in DOMAIN c.idx /\ c.idx[n.inst].hist[n.pos] = s
    BY <1>1, LinkedPlace DEF Stored
  <2> QED BY <2>1, <2>2 DEF IndexExact
<1> QED BY <1>2, <1>3, <1>4, <1>5, <1>6 DEF StructuresAgree

\* It holds of an empty cache.
LEMMA InvInit == Init => CacheInv
<1> SUFFICES ASSUME Init PROVE CacheInv
  OBVIOUS
<1> DEFINE o == [min |-> 1, maxp1 |-> 1]
<1>1. /\ log = <<>> /\ c = New /\ readers = FALSE /\ acked = 0 /\ startup = StartupMode
      /\ seq = 0 /\ log \in Seq([key : Keys, kind : Kinds])
  BY DEF Init, seq
<1>2. /\ c.nodes = <<>> /\ c.idx = <<>> /\ c.intvs = {o} /\ c.open = o /\ c.size = 0
      /\ c.unacked = 0 /\ c.maxseq = 0 /\ c.maxDrop = 0 /\ c.hdepth = HDepth /\ c.tl = TL
      /\ c.tldepth = (IF StartupMode THEN HDepth ELSE TLDepth)
      /\ c.idxdepth = (IF StartupMode THEN HDepth ELSE IdxDepth(HDepth, TLDepth))
      /\ Fields(c)
  BY <1>1 DEF New, NoSeq, Fields
<1>3. DOMAIN c.nodes = {} /\ DOMAIN c.idx = {} /\ Stored = {}
  <2>1. DOMAIN << >> = {}
    OBVIOUS
  <2> QED BY <1>2, <2>1 DEF Stored
<1>4. /\ c.idxdepth = IdxDepth(HDepth, TLDepth) /\ c.idxdepth \in Nat /\ c.tldepth \in Nat
      /\ c.tldepth <= c.idxdepth /\ HDepth \in Nat /\ TL \in BOOLEAN
  BY <1>2, WHCAssumption, HistoryAssumption DEF IdxDepth
<1>5. Intervals(c.intvs, c.open, {})
  <2>1. o.min = 1 /\ o.maxp1 = 1 /\ o \in [min : Nat \ {0}, maxp1 : Nat \ {0}]
    OBVIOUS
  <2> HIDE DEF o
  <2> QED BY <1>2, <2>1 DEF Intervals
<1>6. Unacked(c.nodes) = {} /\ Cardinality({}) = 0
  BY <1>3, FS_EmptySet DEF Unacked
<1>7. c.nodes \in [DOMAIN c.nodes -> Node] /\ c.idx \in [DOMAIN c.idx -> Buffer(c.idxdepth)]
  <2>1. << >> = [x \in {} |-> 0]
    OBVIOUS
  <2> QED BY <1>2, <1>3, <2>1
<1>8. Ring(c.nodes, c.idx, c.idxdepth)
  BY <1>3, <1>7 DEF Ring
<1>9. Core(c)
  <2>1. Depths(c)
    BY <1>2, <1>4 DEF Depths
  <2>2. DOMAIN c.nodes \subseteq 1..MaxSeq /\ Intervals(c.intvs, c.open, DOMAIN c.nodes)
    BY <1>3, <1>5
  <2>3. c.size = Cardinality(DOMAIN c.nodes) /\ c.unacked = Cardinality(Unacked(c.nodes))
    BY <1>2, <1>3, <1>6
  <2> QED BY <2>1, <2>2, <2>3, <1>2, <1>7, <1>8 DEF Core
<1>10. Max({NoSeq} \cup Stored) = 0
  <2>1. {NoSeq} \cup Stored = {0}
    BY <1>3 DEF NoSeq
  <2>2. Max({0}) = 0
    <3>1. {0} \in SUBSET Nat /\ 0 \in {0} /\ \A y \in {0} : y <= 0
      OBVIOUS
    <3> QED BY <3>1, MaxIs
  <2> QED BY <2>1, <2>2
<1>11. Shape
  <2>1. c.open.maxp1 <= seq + 1 /\ Prunes(c)
    BY <1>1, <1>2, <1>3 DEF Prunes
  <2>2. StartupMode \in BOOLEAN /\ MaxSeq \in Nat
    BY WHCAssumption
  <2>3. Stored \subseteq 1..seq /\ seq <= MaxSeq /\ acked \in 0..seq
    BY <1>1, <1>3, <2>2
  <2>4. /\ c.maxDrop <= seq /\ c.maxseq = Max({NoSeq} \cup Stored)
        /\ c.tldepth = (IF startup THEN HDepth ELSE TLDepth) /\ c.hdepth = HDepth /\ c.tl = TL
    BY <1>1, <1>2, <1>10
  <2> QED BY <1>1, <1>4, <1>9, <2>1, <2>2, <2>3, <2>4 DEF Shape
<1>12. Flags /\ Place
  BY <1>1, <1>2, <1>3 DEF Flags, Place
<1> QED BY <1>11, <1>12 DEF CacheInv

----------------------------------------------------------------------------
\* Writing keeps it

\* A durability history that is kept has a depth. With KEEP_ALL (depth 0) acknowledged samples
\* would stay, without losing their flags.
BoundedDurability == TL => TLDepth > 0

\* What everybody has acknowledged when a sample is inserted: with no readers, all
DropSeq == IF readers THEN acked ELSE seq + 1

\* without an index there is one interval, that s is to follow
Single(w, s) ==
    w.idxdepth = 0 /\ w.intvs = {w.open} /\ (w.open.min < w.open.maxp1 => w.open.maxp1 = s)

\* Inserting, as a relation between the cache before and after
LEMMA InsertGrows ==
    ASSUME NEW w, NEW v, NEW s, NEW n, n = s + 1, Fits(w, s), NEW m \in Nat, NEW e, e.key \in Keys,
           w.maxseq = Max({NoSeq} \cup DOMAIN w.nodes), v = Insert(w, m, s, e)
    PROVE  /\ Grown(w, v, m, s, e) /\ v.maxseq = Max({NoSeq} \cup DOMAIN v.nodes)
           /\ Single(w, s) => v.intvs = {v.open} /\ v.open.maxp1 = n
BY InsertKeeps DEF Single

\* A sample is either inserted, or there is no use for it, and the cache is empty.
LEMMA WriteGrows ==
    ASSUME BoundedDurability, CacheInv, NEW e \in [key : Keys, kind : Kinds], Write(e)
    PROVE  /\ seq \in Nat /\ seq' = seq + 1 /\ seq < MaxSeq /\ log' = Append(log, e)
           /\ log' \in Seq([key : Keys, kind : Kinds])
           /\ UNCHANGED <<readers, acked, startup>>
           /\ DropSeq \in Nat /\ c.maxDrop <= DropSeq
           /\ \/ c' = c /\ Stored = {} /\ ~readers /\ c.tldepth = 0
              \/ /\ Grown(c, c', DropSeq, seq + 1, e)
                 /\ c'.maxseq = Max({NoSeq} \cup DOMAIN c'.nodes)
                 /\ c.idxdepth = 0 => c'.intvs = {c'.open} /\ c'.open.maxp1 = seq + 2
                 /\ c.tldepth = 0 => readers
<1>1. /\ log \in Seq([key : Keys, kind : Kinds]) /\ seq \in Nat /\ acked \in 0..seq
      /\ Core(c) /\ Stored \subseteq 1..seq /\ c.open.maxp1 <= seq + 1
      /\ c.maxDrop <= seq /\ c.maxDrop \in Nat /\ c.maxseq = Max({NoSeq} \cup DOMAIN c.nodes)
      /\ startup => c.tldepth = HDepth /\ HDepth > 0
      /\ ~startup => c.tldepth = TLDepth
  <2>1. startup => c.tldepth = HDepth /\ StartupMode
    BY DEF CacheInv, Shape
  <2>2. StartupMode => HDepth > 0
    BY WHCAssumption
  <2>3. ~startup => c.tldepth = TLDepth
    BY DEF CacheInv, Shape
  <2>4. /\ log \in Seq([key : Keys, kind : Kinds]) /\ seq \in Nat /\ acked \in 0..seq
        /\ Core(c) /\ Stored \subseteq 1..seq /\ c.open.maxp1 <= seq + 1
        /\ c.maxDrop <= seq /\ c.maxDrop \in Nat /\ c.maxseq = Max({NoSeq} \cup DOMAIN c.nodes)
    BY DEF CacheInv, Shape, seq, Core, Depths, Stored
  <2> QED BY <2>1, <2>2, <2>3, <2>4
<1>2. /\ log' = Append(log, e) /\ seq' = seq + 1 /\ seq < MaxSeq
      /\ log' \in Seq([key : Keys, kind : Kinds])
  BY <1>1 DEF Write, seq
<1>3. DropSeq \in Nat /\ c.maxDrop <= DropSeq
  BY <1>1 DEF DropSeq, CacheInv, Flags
<1> PICK s, m : s = seq + 1 /\ m = DropSeq
  OBVIOUS
<1>4. UNCHANGED <<readers, acked, startup>>
  BY DEF Write
<1>5. CASE readers \/ TL \/ startup
  <2>1. c' = Insert(c, DropSeq, seq + 1, e)
    BY <1>5 DEF Write, DropSeq
  <2>2. Fits(c, seq + 1) /\ seq + 1 \in Nat /\ e.key \in Keys
    <3>1. seq + 1 \in 1..MaxSeq /\ e.key \in Keys
      BY <1>1, <1>2, WHCAssumption
    <3>2. \A t \in DOMAIN c.nodes : t < seq + 1
      BY <1>1 DEF Stored
    <3> QED BY <3>1, <3>2, <1>1 DEF Fits
  <2>3. /\ Grown(c, c', DropSeq, seq + 1, e)
        /\ c'.maxseq = Max({NoSeq} \cup DOMAIN c'.nodes)
        /\ c.idxdepth = 0 /\ c.intvs = {c.open} /\ (c.open.min < c.open.maxp1 => c.open.maxp1 = seq + 1)
                     => c'.intvs = {c'.open} /\ c'.open.maxp1 = seq + 1 + 1
    <3>1. c' = Insert(c, m, s, e) /\ Fits(c, s) /\ e.key \in Keys /\ m \in Nat
          /\ c.maxseq = Max({NoSeq} \cup DOMAIN c.nodes)
      BY <2>1, <2>2, <1>1, <1>3
    <3> PICK n : n = s + 1
      OBVIOUS
    <3>2. /\ Grown(c, c', m, s, e)
          /\ c'.maxseq = Max({NoSeq} \cup DOMAIN c'.nodes)
          /\ c.idxdepth = 0 /\ c.intvs = {c.open} /\ (c.open.min < c.open.maxp1 => c.open.maxp1 = s)
                     => c'.intvs = {c'.open} /\ c'.open.maxp1 = s + 1
      <4> PICK w, v : w = c /\ v = c'
        OBVIOUS
      <4>1. /\ v = Insert(w, m, s, e) /\ Fits(w, s)
            /\ w.maxseq = Max({NoSeq} \cup DOMAIN w.nodes)
        BY <3>1
      <4>2. /\ Grown(w, v, m, s, e) /\ v.maxseq = Max({NoSeq} \cup DOMAIN v.nodes)
            /\ Single(w, s) => v.intvs = {v.open} /\ v.open.maxp1 = n
        BY <3>1, <4>1, InsertGrows
      <4> QED BY <4>2 DEF Single
    <3> QED BY <3>2
  <2>4. c.idxdepth = 0 => c'.intvs = {c'.open} /\ c'.open.maxp1 = seq + 2
    BY <2>3, <1>1 DEF CacheInv, Flags
  <2>5. c.tldepth = 0 => readers
    <3> SUFFICES ASSUME c.tldepth = 0, ~readers PROVE FALSE
      OBVIOUS
    <3>1. ~startup
      BY <1>1
    <3> QED BY <3>1, <1>1, <1>5 DEF BoundedDurability
  <2> QED BY <2>3, <2>4, <2>5, <1>1, <1>2, <1>3, <1>4
<1>6. CASE ~(readers \/ TL \/ startup)
  <2>1. c' = c
    BY <1>6 DEF Write
  <2>2. c.tldepth = 0
    BY <1>1, <1>6, HistoryAssumption
  <2>3. Stored = {}
    BY <2>2, <1>6 DEF CacheInv, Flags
  <2> QED BY <2>1, <2>2, <2>3, <1>1, <1>2, <1>3, <1>4, <1>6
<1> QED BY <1>5, <1>6

\* A writer that has just written it has nothing newer than a sample.
LEMMA NoneNewer ==
    ASSUME seq \in Nat, seq' = seq + 1, NEW k, NEW s, s = seq + 1
    PROVE  NewerOf(k, s)' = {} /\ Cardinality(NewerOf(k, s)') = 0
<1>1. Written(k)' \subseteq 1..seq + 1
  BY DEF Written
<1>2. NewerOf(k, s)' = {t \in Written(k)' : t > s}
  BY DEF NewerOf
<1>3. NewerOf(k, s)' = {}
  BY <1>1, <1>2
<1> QED BY <1>3, FS_EmptySet

\* Writing a sample, or an unregister, preserves the invariant of the cache.
LEMMA WriteInv ==
    ASSUME BoundedDurability, CacheInv, NEW e \in [key : Keys, kind : Kinds], Write(e)
    PROVE  CacheInv'
<1>1. /\ seq \in Nat /\ seq' = seq + 1 /\ seq < MaxSeq /\ log' = Append(log, e)
      /\ log' \in Seq([key : Keys, kind : Kinds])
      /\ readers' = readers /\ acked' = acked /\ startup' = startup
      /\ DropSeq \in Nat /\ c.maxDrop <= DropSeq /\ MaxSeq \in Nat
  BY WriteGrows, WHCAssumption
<1>2. /\ log \in Seq([key : Keys, kind : Kinds]) /\ acked \in 0..seq
      /\ readers \in BOOLEAN /\ startup \in BOOLEAN
      /\ Core(c) /\ Stored \subseteq 1..seq /\ c.open.maxp1 <= seq + 1
      /\ c.maxDrop <= seq /\ c.maxDrop \in Nat /\ c.maxseq = Max({NoSeq} \cup Stored)
      /\ Prunes(c) /\ c.hdepth = HDepth /\ c.tl = TL /\ c.idxdepth = IdxDepth(HDepth, TLDepth)
      /\ c.tldepth = (IF startup THEN HDepth ELSE TLDepth)
      /\ startup => StartupMode
  BY DEF CacheInv, Shape, Core, Depths
<1>3. /\ Stored = DOMAIN c.nodes /\ Stored' = DOMAIN c'.nodes
  BY DEF Stored
<1> PICK s \in Nat : s = seq + 1
  BY <1>1
<1>4. CASE c' = c /\ Stored = {} /\ ~readers /\ c.tldepth = 0
  <2>1. Stored' = {}
    BY <1>3, <1>4
  <2>2. Shape'
    <3>1. c.open.maxp1 \in Nat
      BY <1>2 DEF Core, Intervals
    <3>2. /\ Core(c') /\ Stored' \subseteq 1..seq' /\ c'.open.maxp1 <= seq' + 1
          /\ c'.maxDrop <= seq' /\ c'.maxseq = Max({NoSeq} \cup Stored') /\ acked' \in 0..seq'
          /\ seq' <= MaxSeq
      BY <2>1, <3>1, <1>1, <1>2, <1>4
    <3> QED BY <3>2, <1>1, <1>2, <1>4 DEF Shape
  <2>3. Flags'
    <3>1. ~(c.open.min < c.open.maxp1)
      <4>1. c.open \in c.intvs /\ c.open.min \in Nat /\ c.open.maxp1 \in Nat
        BY <1>2 DEF Core, Intervals
      <4>2. c.open.min \notin Stored
        BY <1>4
      <4> QED BY <4>1, <4>2, <1>2, <1>3 DEF Core, Intervals
    <3> QED BY <2>1, <3>1, <1>1, <1>4 DEF CacheInv, Flags
  <2>4. Place'
    BY <2>1 DEF Place
  <2> QED BY <2>2, <2>3, <2>4 DEF CacheInv
<1>5. CASE /\ Grown(c, c', DropSeq, seq + 1, e)
           /\ c'.maxseq = Max({NoSeq} \cup DOMAIN c'.nodes)
           /\ c.idxdepth = 0 => c'.intvs = {c'.open} /\ c'.open.maxp1 = seq + 2
           /\ c.tldepth = 0 => readers
  <2>1. /\ Core(c') /\ c'.maxDrop = c.maxDrop /\ c'.open.maxp1 <= s + 1
        /\ c'.tldepth = c.tldepth /\ c'.idxdepth = c.idxdepth /\ c'.hdepth = c.hdepth /\ c'.tl = c.tl
        /\ \A t \in Stored' : t \in Stored \/ t = s
        /\ \A x \in DOMAIN c'.idx :
             c'.idx[x].prune = 0 \/ (x \in DOMAIN c.idx /\ c'.idx[x].prune = c.idx[x].prune)
    BY <1>3, <1>5 DEF Grown
  <2>2. Shape'
    <3>1. Prunes(c')
      BY <2>1, <1>2 DEF Prunes
    <3>2. /\ Stored' \subseteq 1..seq' /\ c'.open.maxp1 <= seq' + 1
          /\ c'.maxDrop <= seq' /\ c'.maxseq = Max({NoSeq} \cup Stored') /\ acked' \in 0..seq'
          /\ seq' <= MaxSeq
      BY <2>1, <1>1, <1>2, <1>3, <1>5
    <3> QED BY <2>1, <3>1, <3>2, <1>1, <1>2 DEF Shape
  <2>3. Flags'
    <3>1. ASSUME NEW t \in Stored' PROVE c'.nodes[t].unacked <=> readers /\ t > acked
      <4>1. CASE t = s
        <5>1. c'.nodes[t].unacked <=> s > DropSeq
          BY <4>1, <3>1, <1>3, <1>5 DEF Grown
        <5>2. s > DropSeq <=> readers
          BY <1>1, <1>2 DEF DropSeq
        <5>3. s > acked
          BY <1>1, <1>2
        <5> QED BY <4>1, <5>1, <5>2, <5>3
      <4>2. CASE t # s
        <5>1. t \in Stored
          BY <2>1, <3>1, <4>2
        <5>2. c'.nodes[t].unacked <=> c.nodes[t].unacked
          BY <4>2, <3>1, <1>3, <1>5 DEF Grown
        <5> QED BY <5>1, <5>2 DEF CacheInv, Flags
      <4> QED BY <4>1, <4>2
    <3>2. c'.tldepth = 0 => \A t \in Stored' : readers /\ t > acked
      <4> SUFFICES ASSUME c'.tldepth = 0, NEW t \in Stored' PROVE readers /\ t > acked
        OBVIOUS
      <4>1. c.tldepth = 0 /\ readers
        BY <2>1, <1>5
      <4>2. t \in Stored => t > acked
        BY <4>1 DEF CacheInv, Flags
      <4> QED BY <2>1, <4>1, <4>2, <1>1, <1>2
    <3>3. readers => c'.maxDrop <= acked
      BY <2>1 DEF CacheInv, Flags
    <3>4. c'.idxdepth = 0 => c'.intvs = {c'.open} /\ (c'.open.min < c'.open.maxp1 => c'.open.maxp1 = seq' + 1)
      BY <2>1, <1>1, <1>5
    <3> QED BY <3>1, <3>2, <3>3, <3>4, <1>1 DEF Flags
  <2>4. ASSUME NEW k \in Keys, NEW t \in Stored', c'.nodes[t].inst = k
        PROVE  /\ t \in Written(k)'
               /\ Cardinality(NewerOf(k, t)') = Behind(c', k, c'.nodes[t].pos)
    <3> DEFINE b == Behind(c', k, c'.nodes[t].pos)
    <3>0. k # NoKey
      BY WHCAssumption
    <3>1. CASE t = s
      <4>1. k = e.key /\ e.kind # "unreg" /\ b = 0
        BY <2>4, <3>0, <3>1, <1>3, <1>5 DEF Grown
      <4> HIDE DEF b
      <4>2. Written(k)' = Written(k) \cup {seq + 1}
        BY <4>1, <1>1, <1>2, WrittenGrows
      <4>3. t \in Written(k)'
        BY <4>2, <3>1
      <4>4. Cardinality(NewerOf(k, t)') = 0
        BY <3>1, <1>1, NoneNewer
      <4> QED BY <4>1, <4>3, <4>4 DEF b
    <3>2. CASE t # s
      <4> DEFINE a == Behind(c, k, c.nodes[t].pos)
      <4>1. /\ k = IF Displaced(c, t, e) THEN NoKey ELSE c.nodes[t].inst
            /\ b = Behind(c, c.nodes[t].inst, c.nodes[t].pos) + (IF c.nodes[t].inst = e.key THEN 1 ELSE 0)
            /\ t \in Stored
        BY <2>1, <2>4, <3>0, <3>2, <1>3, <1>5 DEF Grown
      <4>2. k = c.nodes[t].inst /\ (k = e.key => e.kind # "unreg")
            /\ b = a + (IF k = e.key THEN 1 ELSE 0)
        BY <4>1, <3>0 DEF Displaced
      <4>3. t \in Written(k) /\ Cardinality(NewerOf(k, t)) = a /\ t \in 1..seq
        BY <4>1, <4>2, <1>2 DEF CacheInv, Place
      <4> HIDE DEF b, a
      <4>4. CASE k # e.key
        <5>1. Written(k)' = Written(k)
          BY <4>4, <1>1, <1>2, WrittenGrows
        <5>2. NewerOf(k, t)' = NewerOf(k, t)
          BY <4>3, <4>4, <1>1, <1>2, NewerGrows
        <5>3. a \in Nat
          BY <4>3, <1>2, NewerFinite
        <5>4. b = a
          BY <4>2, <4>4, <5>3
        <5>5. t \in Written(k)' /\ Cardinality(NewerOf(k, t)') = b
          BY <4>3, <5>1, <5>2, <5>4
        <5> QED BY <5>5 DEF b
      <4>5. CASE k = e.key
        <5>1. Written(k)' = Written(k) \cup {seq + 1}
          BY <4>2, <4>5, <1>1, <1>2, WrittenGrows
        <5>2. Cardinality(NewerOf(k, t)') = Cardinality(NewerOf(k, t)) + 1
          BY <4>2, <4>3, <4>5, <1>1, <1>2, NewerGrows
        <5>3. b = a + 1
          BY <4>2, <4>5
        <5>4. t \in Written(k)' /\ Cardinality(NewerOf(k, t)') = b
          BY <4>3, <5>1, <5>2, <5>3
        <5> QED BY <5>4 DEF b
      <4> QED BY <4>4, <4>5
    <3> QED BY <3>1, <3>2
  <2>5. Place'
    BY <2>4 DEF Place
  <2> QED BY <2>2, <2>3, <2>5 DEF CacheInv
<1> QED BY <1>4, <1>5, WriteGrows

----------------------------------------------------------------------------
\* Processing acknowledgements keeps it

\* Samples that stay in their buffers stay as far behind the heads.
LEMMA FewerPlaced ==
    ASSUME NEW w, NEW v, Core(v), NEW S, NEW F, Fewer(w, v, S, F), Placed(w)
    PROVE  Placed(v)
<1> SUFFICES ASSUME NEW k \in Keys, NEW s \in DOMAIN v.nodes, v.nodes[s].inst = k
             PROVE  /\ s \in Written(k)
                    /\ Cardinality(NewerOf(k, s)) = Behind(v, k, v.nodes[s].pos)
  BY DEF Placed
<1>1. k # NoKey
  BY WHCAssumption
<1>2. k \in DOMAIN v.idx
  BY <1>1, LinkedPlace
<1>3. /\ s \in DOMAIN w.nodes /\ w.nodes[s].inst = k /\ w.nodes[s].pos = v.nodes[s].pos
      /\ v.idxdepth = w.idxdepth /\ v.idx[k].head = w.idx[k].head
  BY <1>2 DEF Fewer
<1>4. Behind(v, k, v.nodes[s].pos) = Behind(w, k, w.nodes[s].pos)
  BY <1>3 DEF Behind
<1> QED BY <1>3, <1>4 DEF Placed

\* The heads of the buffers do not move, so that they stay the newest.
LEMMA FewerHeadLast ==
    ASSUME NEW w, Core(w), NEW v, Core(v), NEW S, NEW F, Fewer(w, v, S, F), HeadLast(w)
    PROVE  HeadLast(v)
<1> SUFFICES ASSUME NEW s \in DOMAIN v.nodes, NEW k, v.nodes[s].inst = k, k # NoKey
             PROVE  s <= v.idx[k].hist[v.idx[k].head]
  BY DEF HeadLast
<1>1. k \in DOMAIN v.idx /\ s \in DOMAIN w.nodes /\ w.nodes[s].inst = k
  BY LinkedPlace DEF Fewer
<1>2. k \in DOMAIN w.idx /\ v.idx[k].head = w.idx[k].head
  BY <1>1 DEF Fewer
<1>3. PICK h : h = v.idx[k].hist[v.idx[k].head]
  OBVIOUS
<1>4. h \in DOMAIN v.nodes /\ v.nodes[h].inst = k /\ v.nodes[h].pos = v.idx[k].head
  <2>1. k \in DOMAIN v.idx
    BY <1>1
  <2> QED BY <2>1, <1>3, HeadPlace
<1>5. h \in DOMAIN w.nodes /\ w.nodes[h].inst = k /\ w.nodes[h].pos = w.idx[k].head
  BY <1>2, <1>4 DEF Fewer
<1>6. w.idx[k].hist[w.idx[k].head] = h
  BY <1>1, <1>5, LinkedPlace
<1>7. s <= w.idx[k].hist[w.idx[k].head]
  BY <1>1 DEF HeadLast
<1> QED BY <1>3, <1>6, <1>7

\* Without a durability history nothing is in it.
LEMMA NoneInTL ==
    ASSUME NEW w, Core(w), w.tldepth = 0, NEW s \in DOMAIN w.nodes
    PROVE  ~InTLIdx(w, s)
<1> SUFFICES ASSUME w.nodes[s].inst # NoKey PROVE ~(Behind(w, w.nodes[s].inst, w.nodes[s].pos) < 0)
  BY DEF InTLIdx
<1>1. PICK k : k = w.nodes[s].inst
  OBVIOUS
<1>2. k \in DOMAIN w.idx /\ w.nodes[s].pos \in 0..w.idxdepth - 1
  BY <1>1, LinkedPlace
<1>3. Behind(w, k, w.nodes[s].pos) \in 0..w.idxdepth - 1
  BY <1>2, BehindRange
<1>4. w.idxdepth \in Nat
  BY DEF Core, Depths
<1> QED BY <1>1, <1>3, <1>4

\* What holds of a cache of which acknowledgements are processed, also of that of a writer
\* that leaves startup mode, halfway
Owned(w) ==
    /\ Core(w) /\ DOMAIN w.nodes \subseteq 1..seq /\ w.open.maxp1 <= seq + 1
    /\ Prunes(w) /\ Placed(w) /\ HeadLast(w)
    /\ w.maxDrop <= seq /\ (readers => w.maxDrop <= acked)
    /\ \A s \in DOMAIN w.nodes : w.nodes[s].unacked <=> readers /\ s > acked
    /\ w.tldepth = 0 => \A s \in DOMAIN w.nodes : s > w.maxDrop
    /\ w.idxdepth = 0 =>
          /\ w.intvs = {w.open} /\ (w.open.min < w.open.maxp1 => w.open.maxp1 = seq + 1)
          /\ w.maxseq = Max({NoSeq} \cup DOMAIN w.nodes)
          /\ \A s \in DOMAIN w.nodes : w.nodes[s].unacked
    /\ w.idxdepth > 0 => ~(w.tl /\ w.tldepth = 0)

\* In its place: everything up to m was acknowledged
Settled(w, v, m) ==
    /\ Core(v) /\ DOMAIN v.nodes \subseteq DOMAIN w.nodes /\ v.open.maxp1 <= seq + 1
    /\ v.maxDrop = m /\ v.maxseq = Max({NoSeq} \cup DOMAIN v.nodes)
    /\ v.tldepth = w.tldepth /\ v.idxdepth = w.idxdepth /\ v.hdepth = w.hdepth /\ v.tl = w.tl
    /\ Prunes(v) /\ Placed(v)
    /\ \A s \in DOMAIN v.nodes : v.nodes[s].unacked <=> readers /\ s > m
    /\ v.tldepth = 0 => \A s \in DOMAIN v.nodes : s > m
    /\ v.idxdepth = 0 =>
          v.intvs = {v.open} /\ (v.open.min < v.open.maxp1 => v.open.maxp1 = seq + 1)

\* whc_remove_acked_messages puts it in its place.
LEMMA AckSettles ==
    ASSUME log \in Seq([key : Keys, kind : Kinds]), acked \in 0..seq,
           NEW w, Owned(w), NEW m \in 0..seq, w.maxDrop <= m, readers => acked <= m,
           NEW v, v = RemoveAcked(w, m)
    PROVE  Settled(w, v, m) /\ Removed(w, v, m)
<1>1. /\ seq \in Nat /\ m \in Nat /\ m <= seq /\ acked \in Nat
      /\ Core(w) /\ DOMAIN w.nodes \subseteq 1..seq /\ w.open.maxp1 <= seq + 1 /\ w.open.maxp1 \in Nat
      /\ w.tldepth \in Nat /\ w.idxdepth \in Nat /\ w.tldepth <= w.idxdepth /\ w.maxDrop \in Nat
      /\ \A s \in DOMAIN w.nodes : s \in Nat /\ s <= seq
  BY DEF Owned, seq, Core, Depths, Intervals
<1>2. Removable(w, m) /\ (w.idxdepth = 0 => Simple(w))
  <2>1. Droppable(w)
    BY DEF Owned, Droppable
  <2>2. w.idxdepth = 0 => Simple(w)
    <3>1. w.idxdepth = 0 => w.tldepth = 0
      BY <1>1
    <3> QED BY <3>1 DEF Owned, Simple
  <2> QED BY <1>1, <2>1, <2>2 DEF Owned, Removable
<1>3. /\ Removed(w, v, m)
      /\ w.idxdepth = 0 => v.intvs = {v.open}
  BY <1>2, RemoveAckedKeeps DEF Owned
<1>4. /\ Core(v) /\ Fewer(w, v, Gone(w, m), InRange(w, m))
      /\ v.maxDrop = m /\ v.maxseq = Max({NoSeq} \cup DOMAIN v.nodes)
      /\ v.open.maxp1 <= w.open.maxp1 \/ v.open.maxp1 <= m + 1
      /\ Prunes(v) /\ DOMAIN v.nodes = DOMAIN w.nodes \ Gone(w, m)
      /\ v.open.maxp1 \in Nat /\ v.open.min \in Nat
      /\ v.tldepth = w.tldepth /\ v.idxdepth = w.idxdepth /\ v.hdepth = w.hdepth /\ v.tl = w.tl
  BY <1>3 DEF Removed, Fewer, Core, Intervals
<1>5. v.open.maxp1 <= seq + 1
  BY <1>1, <1>4
<1>6. Placed(v)
  BY <1>4, FewerPlaced DEF Owned
<1>7. ASSUME NEW s \in DOMAIN v.nodes
      PROVE  v.nodes[s].unacked <=> readers /\ s > m
  <2>1. s \in DOMAIN w.nodes /\ (v.nodes[s].unacked <=> w.nodes[s].unacked /\ s \notin InRange(w, m))
    BY <1>4 DEF Fewer
  <2>2. w.nodes[s].unacked <=> readers /\ s > acked
    BY <2>1 DEF Owned
  <2>3. readers => w.maxDrop <= acked
    BY DEF Owned
  <2>4. s \in InRange(w, m) <=> s > w.maxDrop /\ s <= m
    BY <2>1 DEF InRange
  <2>5. s \in Nat
    BY <1>1, <2>1
  <2>6. CASE readers
    <3>1. s > acked /\ s \notin InRange(w, m) <=> s > m
      BY <1>1, <2>3, <2>4, <2>5, <2>6
    <3> QED BY <2>1, <2>2, <2>6, <3>1
  <2> QED BY <2>1, <2>2, <2>6
<1>8. v.tldepth = 0 => \A s \in DOMAIN v.nodes : s > m
  <2> SUFFICES ASSUME v.tldepth = 0, NEW s \in DOMAIN v.nodes PROVE s > m
    OBVIOUS
  <2>1. s \in DOMAIN w.nodes /\ s \notin Passed(w, m) /\ s > w.maxDrop /\ s \in Nat
    BY <1>1, <1>4 DEF Gone, Owned
  <2>2. ~InTLIdx(w, s)
    BY <1>1, <1>4, <2>1, NoneInTL
  <2> QED BY <2>1, <2>2, <1>1 DEF Passed, InRange
<1>9. v.idxdepth = 0 =>
         v.intvs = {v.open} /\ (v.open.min < v.open.maxp1 => v.open.maxp1 = seq + 1)
  <2> SUFFICES ASSUME v.idxdepth = 0, v.open.min < v.open.maxp1 PROVE v.open.maxp1 = seq + 1
    BY <1>3, <1>4
  <2>1. w.intvs = {w.open} /\ v.intvs = {v.open} /\ v.tldepth = 0 /\ w.tldepth = 0
    BY <1>1, <1>3, <1>4 DEF Owned
  <2>2. \A s \in Nat : /\ s \in DOMAIN v.nodes <=> v.open.min <= s /\ s < v.open.maxp1
                       /\ s \in DOMAIN w.nodes <=> w.open.min <= s /\ s < w.open.maxp1
    BY <2>1, <1>1, <1>4 DEF Core, Intervals
  <2>3. PICK x \in Nat : x = v.open.maxp1 - 1
    BY <1>4
  <2>4. x \in DOMAIN v.nodes
    BY <2>2, <2>3, <1>4
  <2>5. x > m /\ x \in DOMAIN w.nodes
    BY <2>1, <2>4, <1>4, <1>8
  <2>6. w.open.maxp1 = seq + 1
    <3>1. w.open.min <= x /\ x < w.open.maxp1 /\ w.open.min \in Nat
      BY <2>2, <2>5, <1>1 DEF Core, Intervals
    <3>2. w.open.min < w.open.maxp1
      BY <3>1, <1>1
    <3> QED BY <3>2, <1>4 DEF Owned
  <2>7. w.open.min <= x /\ x <= seq /\ w.open.min \in Nat
    BY <2>2, <2>5, <1>1 DEF Core, Intervals
  <2>8. seq \in DOMAIN w.nodes
    BY <2>2, <2>6, <2>7, <1>1
  <2>9. seq \notin Gone(w, m)
    <3>1. seq \notin InRange(w, m)
      BY <2>5, <2>7, <1>1 DEF InRange
    <3> QED BY <3>1, <2>1 DEF Gone, Passed
  <2>10. seq < v.open.maxp1
    BY <2>2, <2>8, <2>9, <1>1, <1>4
  <2> QED BY <2>10, <1>1, <1>4, <1>5
<1> QED BY <1>3, <1>4, <1>5, <1>6, <1>7, <1>8, <1>9 DEF Settled

\* The cache of a writer is one that acknowledgements can be processed of.
LEMMA InvOwned ==
    ASSUME BoundedDurability, CacheInv
    PROVE  Owned(c) /\ log \in Seq([key : Keys, kind : Kinds]) /\ acked \in 0..seq /\ seq \in Nat
<1>1. Shape /\ Flags /\ Place /\ Stored = DOMAIN c.nodes
  BY DEF CacheInv, Stored
<1>2. /\ log \in Seq([key : Keys, kind : Kinds]) /\ acked \in 0..seq /\ seq \in Nat
      /\ Core(c) /\ c.tldepth \in Nat /\ c.idxdepth \in Nat /\ c.tldepth <= c.idxdepth
      /\ c.maxDrop \in Nat
  BY <1>1 DEF Shape, seq, Core, Depths
<1>3. Placed(c)
  BY <1>1 DEF Place, Placed
<1>4. HeadLast(c)
  BY HeadIsLast
<1>5. c.tldepth = 0 => \A s \in DOMAIN c.nodes : s > c.maxDrop
  <2> SUFFICES ASSUME c.tldepth = 0, NEW s \in DOMAIN c.nodes PROVE s > c.maxDrop
    OBVIOUS
  <2>1. readers /\ s > acked /\ c.maxDrop <= acked /\ s \in Nat
    BY <1>1, <1>2 DEF Flags, Core
  <2> QED BY <2>1, <1>2
<1>6. ~(c.tl /\ c.tldepth = 0)
  <2> SUFFICES ASSUME c.tl, c.tldepth = 0 PROVE FALSE
    OBVIOUS
  <2>1. TL /\ TLDepth > 0 /\ c.tldepth = (IF startup THEN HDepth ELSE TLDepth)
        /\ (startup => StartupMode)
    BY <1>1 DEF Shape, BoundedDurability
  <2>2. ~startup
    BY <2>1, WHCAssumption
  <2> QED BY <2>1, <2>2
<1>7. c.idxdepth = 0 =>
         /\ c.intvs = {c.open} /\ (c.open.min < c.open.maxp1 => c.open.maxp1 = seq + 1)
         /\ c.maxseq = Max({NoSeq} \cup DOMAIN c.nodes)
         /\ \A s \in DOMAIN c.nodes : c.nodes[s].unacked
  <2> SUFFICES ASSUME c.idxdepth = 0
               PROVE  /\ c.intvs = {c.open} /\ (c.open.min < c.open.maxp1 => c.open.maxp1 = seq + 1)
                      /\ c.maxseq = Max({NoSeq} \cup DOMAIN c.nodes)
                      /\ \A s \in DOMAIN c.nodes : c.nodes[s].unacked
    OBVIOUS
  <2>1. c.tldepth = 0
    BY <1>2
  <2> QED BY <2>1, <1>1 DEF Flags, Shape
<1>8. \A s \in DOMAIN c.nodes : c.nodes[s].unacked <=> readers /\ s > acked
  BY <1>1 DEF Flags
<1> QED BY <1>1, <1>2, <1>3, <1>4, <1>5, <1>6, <1>7, <1>8 DEF Owned, Shape, Flags

\* What was in order stays so while nothing is written.
LEMMA SameLog ==
    ASSUME UNCHANGED log
    PROVE  /\ seq' = seq /\ \A k : Written(k)' = Written(k)
           /\ \A k, s : NewerOf(k, s)' = NewerOf(k, s)
BY DEF seq, Written, NewerOf

\* A cache in its place makes the invariant hold after the step.
LEMMA SettledInv ==
    ASSUME CacheInv, UNCHANGED log, NEW w, NEW v, NEW m \in 0..seq, Settled(w, v, m), c' = v,
           DOMAIN w.nodes \subseteq Stored, w.idxdepth = c.idxdepth, w.hdepth = c.hdepth,
           w.tl = c.tl, readers' \in BOOLEAN, startup' \in BOOLEAN, startup' => startup,
           w.tldepth = (IF startup' THEN HDepth ELSE TLDepth),
           acked' \in 0..seq, readers' => acked' = m /\ readers, readers /\ ~readers' => m = seq,
           v.tldepth = 0 => readers' \/ m = seq
    PROVE  CacheInv'
<1>1. /\ log \in Seq([key : Keys, kind : Kinds]) /\ seq \in Nat /\ seq' = seq /\ m \in Nat /\ m <= seq
      /\ Stored' = DOMAIN v.nodes /\ Stored \subseteq 1..seq /\ seq <= MaxSeq
      /\ c.hdepth = HDepth /\ c.tl = TL /\ c.idxdepth = IdxDepth(HDepth, TLDepth)
      /\ startup => StartupMode
  BY SameLog DEF CacheInv, Shape, seq, Stored
<1>2. /\ Core(v) /\ DOMAIN v.nodes \subseteq DOMAIN w.nodes /\ v.open.maxp1 <= seq + 1
      /\ v.maxDrop = m /\ v.maxseq = Max({NoSeq} \cup DOMAIN v.nodes)
      /\ v.tldepth = w.tldepth /\ v.idxdepth = w.idxdepth /\ v.hdepth = w.hdepth /\ v.tl = w.tl
      /\ Prunes(v) /\ Placed(v)
      /\ v.tldepth = 0 => \A s \in DOMAIN v.nodes : s > m
      /\ v.idxdepth = 0 =>
            v.intvs = {v.open} /\ (v.open.min < v.open.maxp1 => v.open.maxp1 = seq + 1)
      /\ \A s \in DOMAIN v.nodes : v.nodes[s].unacked <=> readers /\ s > m
  BY DEF Settled
<1>3. \A s \in DOMAIN v.nodes : s \in Nat /\ s <= seq
  <2>1. DOMAIN v.nodes \subseteq 1..seq
    BY <1>1, <1>2
  <2>2. \A s \in 1..seq : s \in Nat /\ s <= seq
    BY <1>1
  <2> QED BY <2>1, <2>2
<1>4. Shape'
  <2>1. log' \in Seq([key : Keys, kind : Kinds]) /\ seq' <= MaxSeq /\ acked' \in 0..seq'
        /\ c'.tldepth = (IF startup' THEN HDepth ELSE TLDepth) /\ (startup' => StartupMode)
    BY <1>1, <1>2
  <2>2. Core(c') /\ Prunes(c') /\ Stored' \subseteq 1..seq' /\ c'.open.maxp1 <= seq' + 1
        /\ c'.maxDrop <= seq' /\ c'.maxseq = Max({NoSeq} \cup Stored')
        /\ c'.hdepth = HDepth /\ c'.tl = TL /\ c'.idxdepth = IdxDepth(HDepth, TLDepth)
    BY <1>1, <1>2
  <2> QED BY <2>1, <2>2 DEF Shape
<1>5. Flags'
  <2>1. ASSUME NEW s \in Stored' PROVE c'.nodes[s].unacked <=> readers' /\ s > acked'
    <3>1. v.nodes[s].unacked <=> readers /\ s > m
      BY <1>1, <1>2
    <3>2. s \in Nat /\ s <= seq
      BY <1>1, <1>3
    <3>3. CASE readers'
      BY <3>1, <3>3
    <3>4. CASE ~readers'
      <4>1. ~(readers /\ s > m)
        BY <3>2, <3>4, <1>1
      <4> QED BY <4>1, <3>1, <3>4
    <3> QED BY <3>3, <3>4
  <2>2. c'.tldepth = 0 => \A s \in Stored' : readers' /\ s > acked'
    <3> SUFFICES ASSUME c'.tldepth = 0, NEW s \in Stored' PROVE readers' /\ s > acked'
      OBVIOUS
    <3>1. s > m /\ s \in Nat /\ s <= seq
      BY <1>1, <1>2, <1>3
    <3> QED BY <3>1, <1>1
  <2>3. readers' => c'.maxDrop <= acked'
    BY <1>1, <1>2
  <2> QED BY <2>1, <2>2, <2>3, <1>1, <1>2 DEF Flags
<1>6. Place'
  <2> SUFFICES ASSUME NEW k \in Keys, NEW s \in Stored', c'.nodes[s].inst = k
               PROVE  s \in Written(k)' /\ Cardinality(NewerOf(k, s)') = Behind(c', k, c'.nodes[s].pos)
    BY DEF Place
  <2>1. s \in DOMAIN v.nodes /\ v.nodes[s].inst = k
    BY <1>1
  <2>2. s \in Written(k) /\ Cardinality(NewerOf(k, s)) = Behind(v, k, v.nodes[s].pos)
    BY <2>1, <1>2 DEF Placed
  <2> QED BY <2>2, SameLog
<1> QED BY <1>4, <1>5, <1>6 DEF CacheInv

\* Matching the first reader keeps it: nothing is unacknowledged for that one.
LEMMA MatchInv == ASSUME CacheInv, Match PROVE CacheInv'
<1>1. /\ ~readers /\ readers' = TRUE /\ acked' = seq /\ UNCHANGED <<log, c, startup>>
  BY DEF Match
<1>2. seq' = seq /\ Stored' = Stored /\ seq \in Nat
  BY <1>1, SameLog DEF Stored, CacheInv, Shape, seq
<1>3. Shape'
  BY <1>1, <1>2 DEF CacheInv, Shape
<1>4. Flags'
  <2>1. \A s \in Stored : s \in Nat /\ s <= seq
    BY <1>2 DEF CacheInv, Shape
  <2>2. \A s \in Stored : ~c.nodes[s].unacked
    BY <1>1 DEF CacheInv, Flags
  <2>3. c.tldepth = 0 => Stored = {}
    BY <1>1 DEF CacheInv, Flags
  <2>4. c.maxDrop <= seq
    BY DEF CacheInv, Shape
  <2>5. \A s \in Stored : ~(s > seq)
    BY <2>1, <1>2
  <2>6. \A s \in Stored' : c'.nodes[s].unacked <=> readers' /\ s > acked'
    BY <2>2, <2>5, <1>1, <1>2
  <2>7. c'.tldepth = 0 => \A s \in Stored' : readers' /\ s > acked'
    BY <2>3, <1>1, <1>2
  <2>8. c'.idxdepth = 0 =>
           c'.intvs = {c'.open} /\ (c'.open.min < c'.open.maxp1 => c'.open.maxp1 = seq' + 1)
    BY <1>1, <1>2 DEF CacheInv, Flags
  <2> QED BY <2>4, <2>6, <2>7, <2>8, <1>1 DEF Flags
<1>5. Place'
  BY <1>1, <1>2, SameLog DEF CacheInv, Place
<1> QED BY <1>3, <1>4, <1>5 DEF CacheInv

\* A reader that acknowledges
LEMMA AckInv == ASSUME BoundedDurability, CacheInv, NEW m \in 1..MaxSeq, Ack(m) PROVE CacheInv'
<1>1. /\ readers /\ m > acked /\ m <= seq /\ acked' = m /\ c' = RemoveAcked(c, m)
      /\ UNCHANGED <<log, readers, startup>>
  BY DEF Ack
<1>2. /\ Owned(c) /\ log \in Seq([key : Keys, kind : Kinds]) /\ acked \in 0..seq /\ seq \in Nat
      /\ c.maxDrop <= acked /\ c.maxDrop \in Nat
  BY <1>1, InvOwned DEF Owned, Core, Depths
<1>3. m \in 0..seq /\ c.maxDrop <= m /\ acked <= m
  BY <1>1, <1>2
<1>4. PICK v : v = c'
  OBVIOUS
<1>5. Settled(c, v, m)
  BY <1>1, <1>2, <1>3, <1>4, AckSettles
<1>6. /\ readers \in BOOLEAN /\ startup \in BOOLEAN
      /\ c.tldepth = (IF startup THEN HDepth ELSE TLDepth)
  BY DEF CacheInv, Shape
<1> QED BY <1>1, <1>3, <1>4, <1>5, <1>6, SettledInv DEF Stored

\* and the last one that leaves
LEMMA LeaveInv == ASSUME BoundedDurability, CacheInv, Leave PROVE CacheInv'
<1>1. /\ readers /\ ~readers' /\ acked' = seq /\ c' = RemoveAcked(c, seq)
      /\ UNCHANGED <<log, startup>> /\ readers' \in BOOLEAN
  BY DEF Leave
<1>2. /\ Owned(c) /\ log \in Seq([key : Keys, kind : Kinds]) /\ acked \in 0..seq /\ seq \in Nat
      /\ c.maxDrop <= acked /\ c.maxDrop \in Nat
  BY <1>1, InvOwned DEF Owned, Core, Depths
<1>3. PICK m : m = seq
  OBVIOUS
<1>4. m \in 0..seq /\ c.maxDrop <= m /\ acked <= m
  BY <1>2, <1>3
<1>5. PICK v : v = c'
  OBVIOUS
<1>6. Settled(c, v, m)
  BY <1>1, <1>2, <1>3, <1>4, <1>5, AckSettles
<1>7. /\ startup \in BOOLEAN
      /\ c.tldepth = (IF startup THEN HDepth ELSE TLDepth)
  BY DEF CacheInv, Shape
<1> QED BY <1>1, <1>3, <1>4, <1>5, <1>6, <1>7, SettledInv DEF Stored

\* what is changed before whc_downgrade_to_volatile looks at all that was acknowledged
Lowered(w) == [w EXCEPT !.tldepth = 0, !.maxDrop = 0]

\* and nothing else is
LEMMA LoweredFields ==
    ASSUME NEW w, Fields(w), NEW v, v = Lowered(w)
    PROVE  /\ v.nodes = w.nodes /\ v.idx = w.idx /\ v.open = w.open
           /\ v.intvs = w.intvs /\ v.size = w.size
           /\ v.unacked = w.unacked /\ v.tldepth = 0 /\ v.maxDrop = 0
           /\ v.idxdepth = w.idxdepth /\ v.hdepth = w.hdepth
           /\ v.tl = w.tl /\ Fields(v)
<1>1. v = [nodes |-> w.nodes, intvs |-> w.intvs, open |-> w.open, size |-> w.size,
             unacked |-> w.unacked, maxseq |-> w.maxseq, maxDrop |-> 0, idx |-> w.idx,
             tldepth |-> 0, idxdepth |-> w.idxdepth, hdepth |-> w.hdepth, tl |-> w.tl]
  BY DEF Lowered, Fields
<1>2. Fields(v)
  BY <1>1 DEF Fields
<1> QED BY <1>1, <1>2

\* whc_downgrade_to_volatile makes the cache one of a writer without durability history.
LEMMA DowngradeOwned ==
    ASSUME BoundedDurability, CacheInv, startup, NEW u, u = Downgraded(c)
    PROVE  /\ Owned(u) /\ DOMAIN u.nodes \subseteq Stored /\ u.maxDrop = c.maxDrop
           /\ u.tldepth = 0 /\ u.idxdepth = c.idxdepth /\ u.hdepth = c.hdepth /\ u.tl = c.tl
           /\ \A s \in Stored : s \in DOMAIN u.nodes <=> s > c.maxDrop
           /\ \A s \in DOMAIN u.nodes : u.nodes[s].inst = c.nodes[s].inst
<1> DEFINE z == [c EXCEPT !.tldepth = 0, !.maxDrop = 0]
           m == c.maxDrop
<1>1. /\ Core(c) /\ Placed(c) /\ HeadLast(c) /\ DOMAIN c.nodes \subseteq 1..seq /\ seq \in Nat
      /\ c.open.maxp1 <= seq + 1 /\ m <= seq /\ m \in Nat /\ (readers => m <= acked)
      /\ \A s \in DOMAIN c.nodes : c.nodes[s].unacked <=> readers /\ s > acked
      /\ \A s \in DOMAIN c.nodes : s \in Nat /\ s > 0
      /\ acked \in 0..seq
  BY InvOwned DEF Owned, Core, Depths
<1>2. ~c.tl /\ c.idxdepth > 0 /\ c.idxdepth \in Nat
  <2>1. StartupMode /\ c.tl = TL /\ c.idxdepth = IdxDepth(HDepth, TLDepth)
    BY DEF CacheInv, Shape
  <2>2. ~TL /\ HDepth > 0 /\ HDepth \in Nat /\ TLDepth = 0
    BY <2>1, WHCAssumption, HistoryAssumption
  <2> QED BY <2>1, <2>2 DEF IdxDepth
<1>3. /\ z.nodes = c.nodes /\ z.idx = c.idx /\ z.open = c.open /\ z.intvs = c.intvs
      /\ z.size = c.size /\ z.unacked = c.unacked
      /\ z.tldepth = 0 /\ z.maxDrop = 0 /\ z.idxdepth = c.idxdepth /\ z.hdepth = c.hdepth
      /\ z.tl = c.tl /\ Fields(z)
  <2>1. z = Lowered(c) /\ Fields(c)
    BY <1>1 DEF Core, Lowered
  <2> HIDE DEF z
  <2> QED BY <2>1, LoweredFields
<1>4. u = RemoveAckedFull(z, m)
  BY DEF Downgraded
<1> HIDE DEF z
<1>5. Core(z)
  BY <1>1, <1>2, <1>3 DEF Core, Depths
<1>6. HeadLast(z)
  BY <1>1, <1>3 DEF HeadLast
<1>7. Removed(z, u, m)
  <2>1. Droppable(z) /\ Prunes(z)
    BY <1>1, <1>3, <1>6 DEF Droppable, Prunes
  <2>2. Removable(z, m)
    BY <2>1, <1>1, <1>3, <1>5 DEF Removable
  <2> QED BY <2>2, <1>2, <1>3, <1>4, RemoveAckedFullKeeps
<1>8. Placed(z)
  <2>1. \A k, p : Behind(z, k, p) = Behind(c, k, p)
    BY <1>3 DEF Behind
  <2> QED BY <2>1, <1>1, <1>3 DEF Placed
<1>9. /\ Core(u) /\ Fewer(z, u, Gone(z, m), InRange(z, m)) /\ u.maxDrop = m /\ Prunes(u)
      /\ u.open.maxp1 <= z.open.maxp1 \/ u.open.maxp1 <= m + 1
      /\ u.open.maxp1 \in Nat /\ c.open.maxp1 \in Nat
  BY <1>1, <1>7 DEF Removed, Core, Intervals
<1>10. Placed(u) /\ HeadLast(u)
  BY <1>5, <1>6, <1>8, <1>9, FewerPlaced, FewerHeadLast
<1>11. /\ DOMAIN u.nodes = DOMAIN c.nodes \ Gone(z, m)
       /\ u.tldepth = 0 /\ u.idxdepth = c.idxdepth /\ u.hdepth = c.hdepth /\ u.tl = c.tl
       /\ \A s \in DOMAIN u.nodes : u.nodes[s].unacked <=> c.nodes[s].unacked /\ s \notin InRange(z, m)
  BY <1>3, <1>9 DEF Fewer
<1>12. Gone(z, m) = InRange(z, m) /\ \A s \in DOMAIN c.nodes : s \in InRange(z, m) <=> s <= m
  <2>1. \A s \in DOMAIN z.nodes : ~InTLIdx(z, s)
    BY <1>3, <1>5, NoneInTL
  <2> QED BY <2>1, <1>1, <1>3 DEF Gone, Passed, InRange
<1>13. \A s \in DOMAIN c.nodes : s \in DOMAIN u.nodes <=> s > m
  BY <1>1, <1>11, <1>12
<1>14. \A s \in DOMAIN u.nodes : s > m /\ (u.nodes[s].unacked <=> readers /\ s > acked)
  BY <1>1, <1>11, <1>12, <1>13
<1>15. u.open.maxp1 <= seq + 1
  BY <1>1, <1>3, <1>9
<1>16. DOMAIN u.nodes \subseteq 1..seq
  BY <1>1, <1>11
<1>17. Owned(u)
  BY <1>1, <1>2, <1>9, <1>10, <1>11, <1>14, <1>15, <1>16 DEF Owned
<1>18. \A s \in DOMAIN u.nodes : u.nodes[s].inst = c.nodes[s].inst
  BY <1>3, <1>9 DEF Fewer
<1>19. DOMAIN u.nodes \subseteq Stored /\ Stored = DOMAIN c.nodes
  BY <1>11 DEF Stored
<1> QED BY <1>9, <1>11, <1>13, <1>17, <1>18, <1>19

\* A writer that leaves startup mode
LEMMA ExitStartupInv == ASSUME BoundedDurability, CacheInv, ExitStartup PROVE CacheInv'
<1>1. PICK m : m = IF readers THEN acked ELSE seq
  OBVIOUS
<1>2. PICK u : u = Downgraded(c)
  OBVIOUS
<1>3. PICK v : v = c'
  OBVIOUS
<1>4. /\ startup /\ startup' = FALSE /\ v = RemoveAcked(u, m) /\ UNCHANGED <<log, readers, acked>>
  BY <1>1, <1>2, <1>3 DEF ExitStartup
<1>5. /\ Owned(u) /\ DOMAIN u.nodes \subseteq Stored /\ u.maxDrop = c.maxDrop
      /\ u.tldepth = 0 /\ u.idxdepth = c.idxdepth /\ u.hdepth = c.hdepth /\ u.tl = c.tl
  BY <1>2, <1>4, DowngradeOwned
<1>6. log \in Seq([key : Keys, kind : Kinds]) /\ acked \in 0..seq /\ seq \in Nat
  BY InvOwned
<1>7. /\ m \in 0..seq /\ u.maxDrop <= m /\ (readers => acked <= m)
      /\ (readers => m = acked) /\ (~readers => m = seq)
  BY <1>1, <1>5, <1>6 DEF Owned
<1>8. Settled(u, v, m)
  BY <1>4, <1>5, <1>6, <1>7, AckSettles
<1>9. readers \in BOOLEAN /\ TLDepth = 0
  <2>1. readers \in BOOLEAN /\ StartupMode
    BY <1>4 DEF CacheInv, Shape
  <2> QED BY <2>1, WHCAssumption, HistoryAssumption
<1>10. v.tldepth = 0 => readers' \/ m = seq
  BY <1>4, <1>7
<1> QED BY <1>3, <1>4, <1>5, <1>6, <1>7, <1>8, <1>9, <1>10, SettledInv

----------------------------------------------------------------------------
\* Every step keeps the invariant.
LEMMA StructuresStep == ASSUME BoundedDurability, CacheInv, [Next]_vars PROVE CacheInv'
<1>1. ASSUME NEW k \in Keys, NEW kind \in Kinds, Write([key |-> k, kind |-> kind])
      PROVE  CacheInv'
  <2>1. PICK e : e = [key |-> k, kind |-> kind]
    OBVIOUS
  <2>2. e \in [key : Keys, kind : Kinds] /\ Write(e)
    BY <1>1, <2>1
  <2> QED BY <2>2, WriteInv
<1>2. CASE UNCHANGED vars
  <2>1. UNCHANGED log /\ seq' = seq
    BY <1>2 DEF vars, seq
  <2>2. Shape' /\ Flags'
    BY <1>2, <2>1 DEF CacheInv, Shape, Flags, vars, Stored
  <2>3. Place'
    BY <1>2, <2>1, SameLog DEF CacheInv, Place, vars, Stored
  <2> QED BY <2>2, <2>3 DEF CacheInv
<1> QED BY <1>1, <1>2, MatchInv, AckInv, LeaveInv, ExitStartupInv DEF Next

\* The intervals, the counts, the flags and the index of the writer history cache agree on
\* what is stored, after any series of whc_insert, whc_remove_acked_messages and
\* whc_downgrade_to_volatile.
THEOREM StructuresHold == ASSUME BoundedDurability PROVE Spec => []StructuresAgree
BY InvInit, StructuresStep, InvStructures, PTL DEF Spec

----------------------------------------------------------------------------
\* What is kept

\* A sample that has not been pushed out of the history of its instance is in the index.
LinkedIn(w) ==
    \A k \in Keys : \A s \in Written(k) :
       s \in DOMAIN w.nodes /\ Cardinality(NewerOf(k, s)) < w.idxdepth => w.nodes[s].inst = k

\* The durability history is there.
KeptIn(w) ==
    w.tldepth > 0 => \A k \in Keys : \A s \in Written(k) :
       Cardinality(NewerOf(k, s)) < w.tldepth => s \in DOMAIN w.nodes

\* Of what was processed as acknowledged the rest is gone, or a newer sample, which will be
\* acknowledged later, is in the durability history.
Due(w, k, s) ==
    \/ Cardinality(NewerOf(k, s)) < w.tldepth
    \/ \E t \in NewerOf(k, s) : t > w.maxDrop /\ Cardinality(NewerOf(k, t)) < w.tldepth

FreedIn(w) ==
    \A s \in DOMAIN w.nodes : s <= w.maxDrop =>
       w.nodes[s].inst \in Keys /\ Due(w, w.nodes[s].inst, s)

KeptInv == CacheInv /\ LinkedIn(c) /\ KeptIn(c) /\ FreedIn(c) /\ UnackedKept

\* That is what is to be kept.
LEMMA InvKept == KeptInv => KeptAsNeeded
<1> SUFFICES ASSUME KeptInv PROVE KeptAsNeeded
  OBVIOUS
<1>1. /\ LinkedIn(c) /\ KeptIn(c) /\ FreedIn(c) /\ UnackedKept /\ Place /\ Core(c)
      /\ Stored = DOMAIN c.nodes
  BY DEF KeptInv, CacheInv, Shape, Stored
<1>2. HistoryKept
  BY <1>1 DEF HistoryKept, KeptIn
<1>3. AckedFreed
  <2> SUFFICES ASSUME NEW s \in Stored, s <= c.maxDrop
               PROVE  \E k \in DOMAIN c.idx :
                         /\ s \in Written(k)
                         /\ \/ Cardinality(NewerOf(k, s)) < c.tldepth
                            \/ \E t \in NewerOf(k, s) : t > c.maxDrop /\ Cardinality(NewerOf(k, t)) < c.tldepth
    BY DEF AckedFreed
  <2>1. PICK k : c.nodes[s].inst = k
    OBVIOUS
  <2>2. k \in Keys /\ Due(c, k, s)
    BY <1>1, <2>1 DEF FreedIn
  <2>3. k \in DOMAIN c.idx
    BY <1>1, <2>1, <2>2, LinkedPlace, WHCAssumption
  <2>4. s \in Written(k)
    BY <1>1, <2>1, <2>2 DEF Place
  <2> QED BY <2>2, <2>3, <2>4 DEF Due
<1> QED BY <1>1, <1>2, <1>3 DEF KeptAsNeeded

\* A sample that is stored and linked is as far behind its head as there are newer ones, and
\* as close as its buffer is deep.
LEMMA StoredPlace ==
    ASSUME NEW w, Core(w), Placed(w), NEW k \in Keys, NEW s \in DOMAIN w.nodes, w.nodes[s].inst = k
    PROVE  /\ s \in Written(k) /\ Cardinality(NewerOf(k, s)) = Behind(w, k, w.nodes[s].pos)
           /\ Cardinality(NewerOf(k, s)) \in 0..w.idxdepth - 1
           /\ InTLIdx(w, s) <=> Cardinality(NewerOf(k, s)) < w.tldepth
<1>1. k # NoKey
  BY WHCAssumption
<1>2. k \in DOMAIN w.idx /\ w.nodes[s].pos \in 0..w.idxdepth - 1
  BY <1>1, LinkedPlace
<1>3. s \in Written(k) /\ Cardinality(NewerOf(k, s)) = Behind(w, k, w.nodes[s].pos)
  BY DEF Placed
<1>4. Behind(w, k, w.nodes[s].pos) \in 0..w.idxdepth - 1
  BY <1>2, BehindRange
<1>5. InTLIdx(w, s) <=> Behind(w, k, w.nodes[s].pos) < w.tldepth
  BY <1>1 DEF InTLIdx
<1> QED BY <1>3, <1>4, <1>5

\* Inserting a sample pushes others out of the histories of their instance only.
LEMMA GrownKept ==
    ASSUME log \in Seq([key : Keys, kind : Kinds]), NEW e \in [key : Keys, kind : Kinds],
           log' = Append(log, e), NEW w, Core(w), Placed(w), LinkedIn(w), NEW v, NEW m \in Nat,
           w.maxDrop <= m, Grown(w, v, m, seq + 1, e), NEW k \in Keys,
           NEW t \in Written(k), t \in DOMAIN w.nodes, e.key = k => e.kind # "unreg",
           NEW d \in Nat, d <= w.idxdepth, Cardinality(NewerOf(k, t)') < d,
           d <= w.tldepth \/ t \in DOMAIN v.nodes
    PROVE  /\ t \in DOMAIN v.nodes /\ v.nodes[t].inst = k
<1>1. /\ seq \in Nat /\ t \in 1..seq /\ w.idxdepth \in Nat /\ w.tldepth \in Nat /\ d \in Nat
      /\ w.tldepth <= w.idxdepth /\ k # NoKey
      /\ Cardinality(NewerOf(k, t)) \in Nat /\ t # seq + 1 /\ d <= w.idxdepth
  <2>1. /\ seq \in Nat
    BY DEF seq
  <2>3. t \in 1..seq /\ Cardinality(NewerOf(k, t)) \in Nat
    BY NewerFinite
  <2>2. /\ w.idxdepth \in Nat /\ w.tldepth \in Nat /\ w.tldepth <= w.idxdepth /\ k # NoKey
    BY WHCAssumption DEF Core, Depths
  <2> QED BY <2>1, <2>2, <2>3
<1> PICK n \in Nat : n = Cardinality(NewerOf(k, t))
  BY <1>1
<1>2. /\ e.key # k => Cardinality(NewerOf(k, t)') = n
      /\ e.key = k => Cardinality(NewerOf(k, t)') = n + 1
  BY <1>1, NewerGrows
<1>3. n < d /\ (e.key = k => n + 1 < d) /\ n < w.idxdepth
  BY <1>1, <1>2
<1>4. w.nodes[t].inst = k /\ Behind(w, k, w.nodes[t].pos) = n
  BY <1>3 DEF LinkedIn, Placed
<1>5. ~Displaced(w, t, e)
  <2> SUFFICES ASSUME Displaced(w, t, e) PROVE FALSE
    OBVIOUS
  <2>1. e.key = k /\ n + 1 = w.idxdepth
    BY <1>4 DEF Displaced
  <2> QED BY <2>1, <1>1, <1>3
<1>6. t \notin DOMAIN v.nodes => ~Cuts(w, e.key, m, seq + 1, t)
  <2> SUFFICES ASSUME t \notin DOMAIN v.nodes, Cuts(w, e.key, m, seq + 1, t) PROVE FALSE
    OBVIOUS
  <2>1. e.key = k /\ w.idxdepth > w.tldepth /\ n + 1 = w.tldepth
    BY <1>4 DEF Cuts
  <2> QED BY <2>1, <1>1, <1>3
<1>7. t \notin DOMAIN v.nodes => ~Discarded(w, t, m, seq + 1, e)
  BY <1>5, <1>6 DEF Discarded
<1>8. t \in DOMAIN v.nodes
  BY <1>7 DEF Grown
<1> QED BY <1>1, <1>4, <1>5, <1>8 DEF Grown

\* The samples of an instance of which there are at least n newer ones have been overwritten.
OverwrittenBy(s, n) ==
    \E k \in Keys : Cardinality({t \in s + 1..seq :
        /\ log[s] = [key |-> k, kind |-> "data"] /\ log[t] = log[s]}) >= n

\* They stay so, and those newer than a sample of an instance are among them.
LEMMA OverwrittenGrows ==
    ASSUME log \in Seq([key : Keys, kind : Kinds]), NEW e, log' = Append(log, e),
           log' \in Seq([key : Keys, kind : Kinds]), NEW s \in 1..seq, NEW n \in Nat
    PROVE  /\ OverwrittenBy(s, n) => OverwrittenBy(s, n)'
           /\ \A k \in Keys : s \in Written(k)' /\ Cardinality(NewerOf(k, s)') >= n =>
                 OverwrittenBy(s, n)'
<1> DEFINE N(k) == {t \in s + 1..seq : log[s] = [key |-> k, kind |-> "data"] /\ log[t] = log[s]}
           M(k) == {t \in s + 1..seq + 1 : log'[s] = [key |-> k, kind |-> "data"] /\ log'[t] = log'[s]}
<1>1. /\ seq \in Nat /\ seq' = seq + 1 /\ \A t \in 1..seq : log'[t] = log[t]
  BY DEF seq
<1>2. OverwrittenBy(s, n)' <=> \E k \in Keys : Cardinality(M(k)) >= n
  BY <1>1 DEF OverwrittenBy
<1>3. ASSUME NEW k \in Keys PROVE IsFiniteSet(M(k)) /\ Cardinality(M(k)) \in Nat
  <2>1. M(k) \in SUBSET (1..seq + 1) /\ seq + 1 \in Nat
    BY <1>1
  <2> QED BY <2>1, Bounded
<1>4. ASSUME NEW k \in Keys, Cardinality(N(k)) >= n PROVE Cardinality(M(k)) >= n
  <2>1. N(k) \subseteq M(k)
    <3>1. \A t \in s + 1..seq : t \in s + 1..seq + 1 /\ log'[t] = log[t]
      <4>1. \A t \in s + 1..seq : t \in s + 1..seq + 1 /\ t \in 1..seq
        BY <1>1
      <4> QED BY <4>1, <1>1
    <3>2. log'[s] = log[s]
      BY <1>1
    <3> QED BY <3>1, <3>2
  <2>2. IsFiniteSet(M(k)) /\ Cardinality(M(k)) \in Nat
    BY <1>3
  <2> HIDE DEF N, M
  <2>3. Cardinality(N(k)) <= Cardinality(M(k)) /\ Cardinality(N(k)) \in Nat
    <3>1. IsFiniteSet(N(k)) /\ Cardinality(N(k)) <= Cardinality(M(k))
      BY <2>1, <2>2, FS_Subset
    <3> QED BY <3>1, FS_CardinalityType
  <2> QED BY <1>4, <2>2, <2>3
<1>5. ASSUME NEW k \in Keys, s \in Written(k)', Cardinality(NewerOf(k, s)') >= n
      PROVE  Cardinality(M(k)) >= n
  <2>1. NewerOf(k, s)' \subseteq M(k)
    <3>1. Written(k)' \subseteq {t \in 1..seq + 1 : log'[t] = [key |-> k, kind |-> "data"]}
      BY <1>1 DEF Written
    <3>2. NewerOf(k, s)' = {t \in Written(k)' : t > s}
      BY DEF NewerOf
    <3>3. \A t \in 1..seq + 1 : t > s => t \in s + 1..seq + 1
      BY <1>1
    <3> QED BY <3>1, <3>2, <3>3, <1>5
  <2>2. IsFiniteSet(M(k)) /\ Cardinality(M(k)) \in Nat
    BY <1>3
  <2> HIDE DEF M
  <2>3. PICK S : S = NewerOf(k, s)'
    OBVIOUS
  <2>4. Cardinality(S) <= Cardinality(M(k)) /\ Cardinality(S) \in Nat
    <3>1. IsFiniteSet(S) /\ Cardinality(S) <= Cardinality(M(k))
      BY <2>1, <2>2, <2>3, FS_Subset
    <3> QED BY <3>1, FS_CardinalityType
  <2> QED BY <1>5, <2>2, <2>3, <2>4
<1> QED BY <1>2, <1>4, <1>5 DEF OverwrittenBy

\* Writing keeps what is to be kept.
LEMMA WriteKept ==
    ASSUME BoundedDurability, KeptInv, NEW e \in [key : Keys, kind : Kinds], Write(e)
    PROVE  KeptInv'
<1>1. /\ CacheInv /\ LinkedIn(c) /\ KeptIn(c) /\ FreedIn(c) /\ UnackedKept
      /\ Core(c) /\ Placed(c) /\ Stored = DOMAIN c.nodes /\ Stored \subseteq 1..seq
      /\ c.maxDrop <= seq /\ c.maxDrop \in Nat /\ acked \in 0..seq
      /\ log \in Seq([key : Keys, kind : Kinds])
      /\ c.tldepth \in Nat /\ c.idxdepth \in Nat /\ c.hdepth \in Nat /\ c.tldepth <= c.idxdepth
  BY InvOwned DEF KeptInv, Stored, Owned, Core, Depths
<1>2. /\ seq \in Nat /\ seq' = seq + 1 /\ log' = Append(log, e)
      /\ log' \in Seq([key : Keys, kind : Kinds])
      /\ readers' = readers /\ acked' = acked
      /\ DropSeq \in Nat /\ c.maxDrop <= DropSeq
  BY <1>1, WriteGrows
<1>3. CacheInv'
  BY <1>1, WriteInv
<1>4. Stored' = DOMAIN c'.nodes /\ \A k : Written(k)' \subseteq 1..seq + 1
  BY <1>2 DEF Stored, Written
<1>5. CASE c' = c /\ Stored = {} /\ ~readers /\ c.tldepth = 0
  <2>1. DOMAIN c'.nodes = {} /\ c'.tldepth = 0 /\ ~readers'
    BY <1>1, <1>2, <1>5
  <2>2. LinkedIn(c)' /\ KeptIn(c)' /\ FreedIn(c)' /\ UnackedKept'
    BY <2>1 DEF LinkedIn, KeptIn, FreedIn, UnackedKept
  <2> QED BY <2>2, <1>3 DEF KeptInv
<1>6. CASE /\ Grown(c, c', DropSeq, seq + 1, e)
           /\ c'.maxseq = Max({NoSeq} \cup DOMAIN c'.nodes)
           /\ c.idxdepth = 0 => c'.intvs = {c'.open} /\ c'.open.maxp1 = seq + 2
           /\ c.tldepth = 0 => readers
  <2> PICK v, m : v = c' /\ m = DropSeq
    OBVIOUS
  <2> PICK s \in Nat : s = seq + 1
    BY <1>2
  <2>1. /\ Grown(c, v, m, s, e) /\ Core(v) /\ v.maxDrop = c.maxDrop /\ v.tldepth = c.tldepth
        /\ v.idxdepth = c.idxdepth /\ v.hdepth = c.hdepth
        /\ \A t \in DOMAIN v.nodes : t \in DOMAIN c.nodes \/ t = s
        /\ m \in Nat /\ c.maxDrop <= m /\ \A t \in DOMAIN c.nodes : t # s /\ t \in 1..seq
    BY <1>1, <1>2, <1>6 DEF Grown
  <2>2. ASSUME NEW k \in Keys, NEW t \in Written(k)'
        PROVE  /\ t = s => e.key = k /\ e.kind # "unreg"
               /\ t # s => t \in Written(k) /\ (e.key = k => e.kind # "unreg")
    <3>1. Written(k) \subseteq 1..seq
      BY <1>1, NewerFinite
    <3>2. Written(k)' = IF e.key # k THEN Written(k)
                        ELSE IF e.kind = "unreg" THEN {} ELSE Written(k) \cup {seq + 1}
      BY <1>1, <1>2, WrittenGrows
    <3>3. s \notin 1..seq
      BY <1>2
    <3>4. CASE e.key # k
      <4>1. t \in Written(k)
        BY <2>2, <3>2, <3>4
      <4>2. t # s
        BY <4>1, <3>1, <3>3
      <4> QED BY <4>1, <4>2, <3>4
    <3>5. CASE e.key = k
      <4>1. e.kind # "unreg"
        BY <2>2, <3>2, <3>5
      <4>2. t \in Written(k) \/ t = s
        BY <2>2, <3>2, <3>5, <4>1
      <4> QED BY <4>1, <4>2, <3>5
    <3> QED BY <3>4, <3>5
  <2>3. LinkedIn(c)'
    <3> SUFFICES ASSUME NEW k \in Keys, NEW t \in Written(k)', t \in DOMAIN v.nodes,
                        Cardinality(NewerOf(k, t)') < v.idxdepth
                 PROVE  v.nodes[t].inst = k
      BY DEF LinkedIn
    <3>1. CASE t = s
      <4>1. e.key = k /\ e.kind # "unreg" /\ c.idxdepth > 0
        <5>1. Cardinality(NewerOf(k, t)') = 0
          BY <3>1, <1>2, NoneNewer
        <5> QED BY <5>1, <2>1, <2>2, <3>1
      <4> QED BY <4>1, <3>1, <2>1 DEF Grown
    <3>2. CASE t # s
      <4>1. t \in DOMAIN c.nodes /\ t \in Written(k) /\ (e.key = k => e.kind # "unreg")
        BY <2>1, <2>2, <3>2
      <4>2. c.idxdepth \in Nat /\ c.idxdepth <= c.idxdepth /\ Cardinality(NewerOf(k, t)') < c.idxdepth
        BY <1>1, <2>1
      <4>3. Grown(c, v, m, seq + 1, e)
        BY <2>1
      <4> PICK d \in Nat : d = c.idxdepth
        BY <1>1
      <4>4. /\ d <= c.idxdepth /\ Cardinality(NewerOf(k, t)') < d
            /\ d <= c.tldepth \/ t \in DOMAIN v.nodes
        BY <4>2
      <4>5. /\ log \in Seq([key : Keys, kind : Kinds]) /\ log' = Append(log, e)
            /\ Core(c) /\ Placed(c) /\ LinkedIn(c) /\ c.maxDrop <= m /\ m \in Nat
        BY <1>1, <1>2, <2>1
      <4> QED BY <4>1, <4>3, <4>4, <4>5, GrownKept
    <3> QED BY <3>1, <3>2
  <2>4. KeptIn(c)'
    <3> SUFFICES ASSUME v.tldepth > 0, NEW k \in Keys, NEW t \in Written(k)',
                        Cardinality(NewerOf(k, t)') < v.tldepth
                 PROVE  t \in DOMAIN v.nodes
      BY DEF KeptIn
    <3>1. CASE t = s
      <4>1. e.kind # "unreg"
        BY <2>2, <3>1
      <4> QED BY <4>1, <3>1, <2>1 DEF Grown
    <3>2. CASE t # s
      <4>1. t \in Written(k) /\ (e.key = k => e.kind # "unreg")
        BY <2>2, <3>2
      <4>2. c.tldepth \in Nat /\ c.tldepth <= c.idxdepth /\ Cardinality(NewerOf(k, t)') < c.tldepth
            /\ c.tldepth <= c.tldepth /\ c.tldepth > 0
        BY <1>1, <2>1
      <4>3. t \in DOMAIN c.nodes
        <5>1. Cardinality(NewerOf(k, t)) <= Cardinality(NewerOf(k, t)')
              /\ Cardinality(NewerOf(k, t)) \in Nat /\ Cardinality(NewerOf(k, t)') \in Nat
          <6>1. t \in 1..seq /\ Cardinality(NewerOf(k, t)) \in Nat
            BY <4>1, <1>1, NewerFinite
          <6>2. CASE e.key # k
            <7>1. NewerOf(k, t)' = NewerOf(k, t)
              BY <6>1, <6>2, <1>1, <1>2, NewerGrows
            <7> QED BY <6>1, <7>1
          <6>3. CASE e.key = k
            <7>1. Cardinality(NewerOf(k, t)') = Cardinality(NewerOf(k, t)) + 1
              BY <6>1, <6>3, <4>1, <1>1, <1>2, NewerGrows
            <7> QED BY <6>1, <7>1
          <6> QED BY <6>2, <6>3
        <5>2. Cardinality(NewerOf(k, t)) < c.tldepth
          BY <5>1, <4>2
        <5> QED BY <5>2, <4>1, <4>2, <1>1 DEF KeptIn
      <4>4. Grown(c, v, m, seq + 1, e)
        BY <2>1
      <4> QED BY <4>1, <4>2, <4>3, <4>4, <1>1, <1>2, <2>1, GrownKept
    <3> QED BY <3>1, <3>2
  <2>5. FreedIn(c)'
    <3> SUFFICES ASSUME NEW t \in DOMAIN v.nodes, t <= v.maxDrop
                 PROVE  v.nodes[t].inst \in Keys /\ Due(c, v.nodes[t].inst, t)'
      BY DEF FreedIn
    <3>1. t # s /\ t \in DOMAIN c.nodes /\ t <= c.maxDrop /\ t <= m /\ t \in 1..seq
      BY <2>1, <1>1, <1>2
    <3> PICK k : k = c.nodes[t].inst
      OBVIOUS
    <3>2. k \in Keys /\ Due(c, k, t) /\ k # NoKey
      BY <3>1, <1>1, WHCAssumption DEF FreedIn
    <3>3. ~Displaced(c, t, e)
      <4>1. ~Discarded(c, t, m, s, e)
        BY <3>1, <2>1 DEF Grown
      <4> QED BY <4>1, <3>1 DEF Discarded
    <3>4. v.nodes[t].inst = k
      BY <3>1, <3>3, <2>1 DEF Grown
    <3>5. c.tldepth > 0 /\ k \in Keys
      <4>1. Cardinality(NewerOf(k, t)) \in Nat
        BY <1>1, NewerFinite
      <4>2. \A u : Cardinality(NewerOf(k, u)) \in Nat
        BY <1>1, NewerFinite
      <4> QED BY <4>1, <4>2, <3>2, <1>1 DEF Due
    <3>6. CASE e.key # k
      <4>1. NewerOf(k, t)' = NewerOf(k, t)
        BY <3>1, <3>6, <1>1, <1>2, NewerGrows
      <4>2. \A u \in NewerOf(k, t) : NewerOf(k, u)' = NewerOf(k, u)
        <5>1. \A u \in NewerOf(k, t) : u \in 1..seq
          BY <1>1, NewerFinite
        <5> QED BY <5>1, <3>6, <1>1, <1>2, NewerGrows
      <4>3. Due(c, k, t)' <=>
              \/ Cardinality(NewerOf(k, t)') < v.tldepth
              \/ \E u \in NewerOf(k, t)' : u > v.maxDrop /\ Cardinality(NewerOf(k, u)') < v.tldepth
        BY DEF Due
      <4>4. Due(c, k, t)'
        BY <4>1, <4>2, <4>3, <3>2, <2>1 DEF Due
      <4> QED BY <4>4, <3>4, <3>5
    <3>7. CASE e.key = k
      <4>1. e.kind # "unreg"
        BY <3>1, <3>3, <3>7 DEF Displaced
      <4>2. NewerOf(k, t)' = NewerOf(k, t) \cup {seq + 1}
        BY <4>1, <3>1, <3>7, <1>1, <1>2, NewerGrows
      <4>3. Cardinality(NewerOf(k, s)') = 0
        BY <1>2, NoneNewer
      <4>4. s \in NewerOf(k, t)' /\ s > v.maxDrop /\ Cardinality(NewerOf(k, s)') < v.tldepth
        BY <4>2, <4>3, <3>5, <2>1, <1>1, <1>2
      <4>5. Due(c, k, t)'
        BY <4>4 DEF Due
      <4> QED BY <4>5, <3>4, <3>5
    <3> QED BY <3>6, <3>7
  <2>6. UnackedKept'
    <3> SUFFICES ASSUME NEW t \in acked + 1..seq + 1, readers
                 PROVE  t \in DOMAIN v.nodes \/ (v.hdepth > 0 /\ OverwrittenBy(t, v.idxdepth)')
      BY <1>2 DEF UnackedKept, OverwrittenBy, Stored
    <3>1. m = acked /\ acked \in Nat /\ t > m
      BY <1>1, <1>2 DEF DropSeq
    <3> PICK d \in Nat : d = c.idxdepth
      BY <1>1
    <3>2. CASE t = s
      BY <3>1, <3>2, <2>1 DEF Grown
    <3>3. CASE t # s
      <4>1. t \in acked + 1..seq /\ t \in 1..seq
        BY <3>1, <3>3, <1>2
      <4>2. t \in DOMAIN c.nodes \/ (c.hdepth > 0 /\ OverwrittenBy(t, c.idxdepth))
        BY <4>1, <1>1 DEF UnackedKept, OverwrittenBy, Stored
      <4>3. CASE c.hdepth > 0 /\ OverwrittenBy(t, c.idxdepth)
        <5>1. OverwrittenBy(t, d)'
          BY <4>1, <4>3, <1>1, <1>2, OverwrittenGrows
        <5> QED BY <5>1, <4>3, <2>1
      <4>4. CASE t \in DOMAIN c.nodes
        <5> SUFFICES ASSUME t \notin DOMAIN v.nodes
                     PROVE  v.hdepth > 0 /\ OverwrittenBy(t, v.idxdepth)'
          OBVIOUS
        <5>1. Discarded(c, t, m, s, e)
          BY <4>4, <2>1 DEF Grown
        <5>2. ~Cuts(c, e.key, m, s, t)
          BY <3>1, <1>1, <1>2 DEF Cuts
        <5>3. /\ c.nodes[t].inst = e.key /\ e.kind # "unreg" /\ c.hdepth > 0
              /\ Behind(c, e.key, c.nodes[t].pos) + 1 = c.idxdepth
          BY <5>1, <5>2, <3>1, <4>1 DEF Discarded, Displaced
        <5> PICK k \in Keys : k = e.key
          OBVIOUS
        <5>4. t \in Written(k) /\ Cardinality(NewerOf(k, t)) = Behind(c, k, c.nodes[t].pos)
          BY <5>3, <4>4, <1>1 DEF Placed
        <5>5. Written(k)' = Written(k) \cup {seq + 1}
          BY <5>3, <1>1, <1>2, WrittenGrows
        <5>6. Cardinality(NewerOf(k, t)') = Cardinality(NewerOf(k, t)) + 1
          BY <5>3, <4>1, <1>1, <1>2, NewerGrows
        <5>7. t \in Written(k)' /\ Cardinality(NewerOf(k, t)') >= c.idxdepth
          BY <5>3, <5>4, <5>5, <5>6, <1>1
        <5>8. OverwrittenBy(t, d)'
          BY <5>7, <4>1, <1>1, <1>2, OverwrittenGrows
        <5> QED BY <5>3, <5>8, <2>1
      <4> QED BY <4>2, <4>3, <4>4
    <3> QED BY <3>2, <3>3
  <2> QED BY <2>3, <2>4, <2>5, <2>6, <1>3 DEF KeptInv
<1> QED BY <1>1, <1>5, <1>6, WriteGrows

\* Processing acknowledgements frees what is not to be kept, and nothing else.
LEMMA RemovedKept ==
    ASSUME log \in Seq([key : Keys, kind : Kinds]), NEW w, Core(w), Placed(w), LinkedIn(w),
           KeptIn(w), FreedIn(w), NEW m \in Nat, w.maxDrop <= m, NEW v, Removed(w, v, m)
    PROVE  /\ LinkedIn(v) /\ KeptIn(v) /\ FreedIn(v)
           /\ \A s \in DOMAIN w.nodes : s > m => s \in DOMAIN v.nodes
<1> DEFINE N(k, s) == Cardinality(NewerOf(k, s))
           K == {w.nodes[t].inst : t \in {s \in InRange(w, m) : InTLIdx(w, s)}}
<1>1. /\ DOMAIN w.nodes \subseteq 1..MaxSeq /\ MaxSeq \in Nat /\ w.maxDrop \in Nat
      /\ w.tldepth \in Nat /\ w.idxdepth \in Nat /\ w.tldepth <= w.idxdepth
  BY WHCAssumption DEF Core, Depths
<1>2. /\ v.maxDrop = m /\ v.tldepth = w.tldepth /\ v.idxdepth = w.idxdepth
      /\ DOMAIN v.nodes = DOMAIN w.nodes \ Gone(w, m)
      /\ \A s \in DOMAIN v.nodes : v.nodes[s].inst = w.nodes[s].inst
  BY DEF Removed, Fewer
<1>3. \A s \in DOMAIN w.nodes : s \in Nat
  BY <1>1
<1>4. \A s \in DOMAIN w.nodes : s \in InRange(w, m) <=> s > w.maxDrop /\ s <= m
  BY DEF InRange
<1>5. ASSUME NEW s \in DOMAIN w.nodes
      PROVE  /\ s \in InRange(w, m) /\ ~InTLIdx(w, s) => s \in Gone(w, m)
             /\ s \in Gone(w, m) => ~InTLIdx(w, s)
             /\ s \in Gone(w, m) => /\ s \in InRange(w, m) \/ (w.nodes[s].inst # NoKey /\ w.nodes[s].inst \in K)
             /\ w.tldepth > 0 /\ w.idxdepth > w.tldepth /\ w.nodes[s].inst # NoKey
                   /\ w.nodes[s].inst \in K /\ ~InTLIdx(w, s) => s \in Gone(w, m)
  <2> HIDE DEF K
  <2>1. Gone(w, m) = Passed(w, m) \cup
                     IF w.tldepth > 0 /\ w.idxdepth > w.tldepth THEN Outdated(w, K) ELSE {}
    BY DEF Gone, K
  <2> QED BY <2>1 DEF Passed, Outdated
<1>6. \A x \in K : \E t \in DOMAIN w.nodes : t \in InRange(w, m) /\ InTLIdx(w, t) /\ w.nodes[t].inst = x
  BY DEF InRange
<1>7. \A t \in DOMAIN w.nodes : t \in InRange(w, m) /\ InTLIdx(w, t) => w.nodes[t].inst \in K
  OBVIOUS
<1> HIDE DEF K
<1>8. LinkedIn(v)
  BY <1>2 DEF LinkedIn
<1>9. KeptIn(v)
  <2> SUFFICES ASSUME w.tldepth > 0, NEW k \in Keys, NEW s \in Written(k),
                      Cardinality(NewerOf(k, s)) < w.tldepth
               PROVE  s \in DOMAIN v.nodes
    BY <1>2 DEF KeptIn
  <2>1. s \in DOMAIN w.nodes
    BY DEF KeptIn
  <2>2. Cardinality(NewerOf(k, s)) < w.idxdepth
    BY <1>1, NewerFinite
  <2>3. w.nodes[s].inst = k
    BY <2>1, <2>2 DEF LinkedIn
  <2>4. InTLIdx(w, s)
    BY <2>1, <2>3, StoredPlace
  <2> QED BY <2>1, <2>4, <1>2, <1>5
<1>10. FreedIn(v)
  <2> SUFFICES ASSUME NEW s \in DOMAIN v.nodes, s <= m
               PROVE  v.nodes[s].inst \in Keys /\ Due(v, v.nodes[s].inst, s)
    BY <1>2 DEF FreedIn
  <2>1. s \in DOMAIN w.nodes /\ s \notin Gone(w, m) /\ s \in Nat
    BY <1>2, <1>3
  <2> PICK k : w.nodes[s].inst = k
    OBVIOUS
  <2>2. CASE s > w.maxDrop
    <3>1. InTLIdx(w, s)
      BY <2>1, <2>2, <1>4, <1>5
    <3>2. k \in Keys
      BY <2>1, <3>1, LinkedPlace, SlotPlace DEF InTLIdx
    <3>3. Cardinality(NewerOf(k, s)) < w.tldepth
      BY <2>1, <3>1, <3>2, StoredPlace
    <3> QED BY <3>2, <3>3, <1>2 DEF Due
  <2>3. CASE s <= w.maxDrop
    <3>1. k \in Keys /\ Due(w, k, s) /\ k # NoKey
      BY <2>1, <2>3, WHCAssumption DEF FreedIn
    <3>2. CASE Cardinality(NewerOf(k, s)) < w.tldepth
      BY <3>1, <3>2, <1>2 DEF Due
    <3>3. CASE ~(Cardinality(NewerOf(k, s)) < w.tldepth)
      <4>1. PICK t \in NewerOf(k, s) : t > w.maxDrop /\ Cardinality(NewerOf(k, t)) < w.tldepth
        BY <3>1, <3>3 DEF Due
      <4>2. CASE t > m
        BY <4>1, <4>2, <3>1, <1>2 DEF Due
      <4>3. CASE ~(t > m)
        <5>1. w.tldepth > 0 /\ t \in Written(k)
          BY <4>1, <1>1, NewerFinite
        <5>2. t \in DOMAIN w.nodes
          BY <5>1, <4>1, <3>1 DEF KeptIn
        <5>3. Cardinality(NewerOf(k, t)) < w.idxdepth
          BY <4>1, <1>1, NewerFinite
        <5>4. w.nodes[t].inst = k
          BY <3>1, <5>1, <5>2, <5>3 DEF LinkedIn
        <5>5. InTLIdx(w, t)
          BY <3>1, <4>1, <5>2, <5>4, StoredPlace
        <5>6. t \in InRange(w, m)
          BY <4>1, <4>3, <5>2, <1>3, <1>4
        <5>7. k \in K
          BY <5>2, <5>4, <5>5, <5>6, <1>7
        <5>8. ~InTLIdx(w, s) /\ Cardinality(NewerOf(k, s)) \in 0..w.idxdepth - 1
          BY <2>1, <3>1, <3>3, StoredPlace
        <5>9. w.idxdepth > w.tldepth
          BY <5>8, <3>3, <1>1
        <5>10. s \in Gone(w, m)
          BY <2>1, <3>1, <5>1, <5>7, <5>8, <5>9, <1>5
        <5> QED BY <5>10, <2>1
      <4> QED BY <4>2, <4>3
    <3> QED BY <3>2, <3>3
  <2> QED BY <2>1, <2>2, <2>3, <1>1
<1>11. ASSUME NEW s \in DOMAIN w.nodes, s > m PROVE s \in DOMAIN v.nodes
  <2> SUFFICES ASSUME s \in Gone(w, m) PROVE FALSE
    BY <1>2
  <2>1. s \notin InRange(w, m)
    BY <1>11, <1>3, <1>4
  <2> PICK k : w.nodes[s].inst = k
    OBVIOUS
  <2>2. k \in K /\ k # NoKey /\ ~InTLIdx(w, s)
    BY <2>1, <1>5
  <2>3. PICK t \in DOMAIN w.nodes : t \in InRange(w, m) /\ InTLIdx(w, t) /\ w.nodes[t].inst = k
    BY <2>2, <1>6
  <2>4. k \in Keys
    BY <2>2, LinkedPlace, SlotPlace
  <2>5. /\ t \in Written(k) /\ Cardinality(NewerOf(k, t)) < w.tldepth
        /\ s \in Written(k) /\ ~(Cardinality(NewerOf(k, s)) < w.tldepth)
    BY <2>2, <2>3, <2>4, StoredPlace
  <2>6. /\ Cardinality(NewerOf(k, t)) < Cardinality(NewerOf(k, s)) /\ s \in 1..seq /\ t \in 1..seq
    BY <2>5, <1>1, NewerFinite
  <2>7. s < t
    BY <2>6, NewerOrder
  <2>8. t <= m /\ t \in Nat /\ s \in Nat
    BY <2>3, <1>3, <1>4
  <2> QED BY <2>7, <2>8, <1>11
<1> QED BY <1>8, <1>9, <1>10, <1>11

\* The steps that process acknowledgements do so.
LEMMA ShrinkKept ==
    ASSUME CacheInv', UNCHANGED log, log \in Seq([key : Keys, kind : Kinds]), acked \in 0..seq,
           NEW w, Owned(w), LinkedIn(w), KeptIn(w), FreedIn(w), UnackedKept,
           NEW m \in 0..seq, w.maxDrop <= m, readers => acked <= m,
           c' = RemoveAcked(w, m), c'.idxdepth = c.idxdepth, c'.hdepth = c.hdepth,
           readers' => readers /\ acked' = m, \A s \in Stored : s > m => s \in DOMAIN w.nodes
    PROVE  KeptInv'
<1> PICK v : v = c'
  OBVIOUS
<1>1. Removed(w, v, m)
  BY AckSettles
<1>2. Core(w) /\ Placed(w) /\ m \in Nat /\ seq \in Nat /\ acked \in Nat
  BY DEF Owned, seq
<1>3. /\ LinkedIn(v) /\ KeptIn(v) /\ FreedIn(v)
      /\ \A s \in DOMAIN w.nodes : s > m => s \in DOMAIN v.nodes
  BY <1>1, <1>2, RemovedKept
<1>4. LinkedIn(c)' /\ KeptIn(c)'
  BY <1>3, SameLog DEF LinkedIn, KeptIn
<1>5. FreedIn(c)'
  <2>1. \A k, s : Due(c, k, s)' <=> Due(v, k, s)
    BY SameLog DEF Due
  <2> QED BY <1>3, <2>1 DEF FreedIn
<1>6. UnackedKept'
  <2> PICK d : d = c.idxdepth
    OBVIOUS
  <2> SUFFICES ASSUME readers', NEW s \in m + 1..seq
               PROVE  s \in DOMAIN v.nodes \/ (c.hdepth > 0 /\ OverwrittenBy(s, d))
    <3>1. \A s : OverwrittenBy(s, d)' <=> OverwrittenBy(s, d)
      BY SameLog DEF OverwrittenBy
    <3>2. UnackedKept' <=> \A s \in acked' + 1..seq' : readers' =>
             s \in DOMAIN v.nodes \/ (c'.hdepth > 0 /\ OverwrittenBy(s, d)')
      BY DEF UnackedKept, OverwrittenBy, Stored
    <3> QED BY <3>1, <3>2, SameLog
  <2>1. s \in acked + 1..seq /\ readers /\ s > m
    BY <1>2
  <2>2. s \in Stored \/ (c.hdepth > 0 /\ OverwrittenBy(s, d))
    BY <2>1 DEF UnackedKept, OverwrittenBy
  <2> QED BY <2>1, <2>2, <1>3
<1> QED BY <1>4, <1>5, <1>6 DEF KeptInv

\* So do all others.
LEMMA StepKept == ASSUME BoundedDurability, KeptInv, [Next]_vars PROVE KeptInv'
<1>1. /\ CacheInv /\ LinkedIn(c) /\ KeptIn(c) /\ FreedIn(c) /\ UnackedKept /\ Owned(c)
      /\ log \in Seq([key : Keys, kind : Kinds]) /\ acked \in 0..seq /\ seq \in Nat
      /\ Stored = DOMAIN c.nodes /\ c.maxDrop <= seq /\ c.maxDrop \in Nat
      /\ (readers => c.maxDrop <= acked)
  BY InvOwned DEF KeptInv, Owned, Stored, Core, Depths
<1>2. CacheInv'
  BY <1>1, StructuresStep
<1>3. ASSUME UNCHANGED <<log, c>>, readers' => acked' = seq \/ UNCHANGED <<readers, acked>>
      PROVE  KeptInv'
  <2>1. LinkedIn(c)' /\ KeptIn(c)' /\ seq' = seq /\ Stored' = Stored
    BY <1>1, <1>3, SameLog DEF LinkedIn, KeptIn, Stored
  <2>2. FreedIn(c)'
    <3>1. \A k, s : Due(c, k, s)' <=> Due(c, k, s)
      BY <1>3, SameLog DEF Due
    <3> QED BY <1>1, <1>3, <3>1 DEF FreedIn
  <2>3. UnackedKept'
    <3>1. CASE readers' => acked' = seq
      <4>1. seq + 1..seq = {}
        BY <1>1
      <4> QED BY <2>1, <3>1, <4>1 DEF UnackedKept
    <3>2. CASE UNCHANGED <<readers, acked>>
      <4>1. \A s, d : OverwrittenBy(s, d)' <=> OverwrittenBy(s, d)
        BY <1>3, SameLog DEF OverwrittenBy
      <4> PICK d : d = c.idxdepth
        OBVIOUS
      <4>2. UnackedKept' <=> \A s \in acked' + 1..seq' : readers' =>
               s \in Stored' \/ (c'.hdepth > 0 /\ OverwrittenBy(s, d)')
        BY <1>3 DEF UnackedKept, OverwrittenBy
      <4>3. \A s \in acked + 1..seq : readers =>
               s \in Stored \/ (c.hdepth > 0 /\ OverwrittenBy(s, d))
        BY <1>1 DEF UnackedKept, OverwrittenBy
      <4> QED BY <4>1, <4>2, <4>3, <2>1, <3>2, <1>3
    <3> QED BY <3>1, <3>2, <1>3
  <2> QED BY <2>1, <2>2, <2>3, <1>2 DEF KeptInv
<1>4. ASSUME NEW k \in Keys, NEW kind \in Kinds, Write([key |-> k, kind |-> kind])
      PROVE  KeptInv'
  <2>1. PICK e : e = [key |-> k, kind |-> kind]
    OBVIOUS
  <2>2. e \in [key : Keys, kind : Kinds] /\ Write(e)
    BY <1>4, <2>1
  <2> QED BY <2>2, WriteKept
<1>5. CASE Match
  BY <1>5, <1>3 DEF Match
<1>6. CASE UNCHANGED vars
  BY <1>6, <1>3 DEF vars
<1>7. ASSUME NEW m \in 1..MaxSeq, Ack(m) PROVE KeptInv'
  <2>1. /\ readers /\ m > acked /\ m <= seq /\ acked' = m /\ c' = RemoveAcked(c, m)
        /\ UNCHANGED <<log, readers, startup>>
    BY <1>7 DEF Ack
  <2>2. m \in 0..seq /\ c.maxDrop <= m /\ acked <= m
    BY <2>1, <1>1
  <2>3. c'.idxdepth = c.idxdepth /\ c'.hdepth = c.hdepth
    BY <2>1, <1>2 DEF CacheInv, Shape, KeptInv
  <2> QED BY <2>1, <2>2, <2>3, <1>1, <1>2, ShrinkKept
<1>8. CASE Leave
  <2>1. readers /\ ~readers' /\ c' = RemoveAcked(c, seq) /\ UNCHANGED <<log, startup>>
    BY <1>8 DEF Leave
  <2> PICK m : m = seq
    OBVIOUS
  <2>2. m \in 0..seq /\ c.maxDrop <= m /\ acked <= m /\ c' = RemoveAcked(c, m)
    BY <2>1, <1>1
  <2>3. c'.idxdepth = c.idxdepth /\ c'.hdepth = c.hdepth
    BY <2>1, <1>2 DEF CacheInv, Shape, KeptInv
  <2> QED BY <2>1, <2>2, <2>3, <1>1, <1>2, ShrinkKept
<1>9. CASE ExitStartup
  <2>1. PICK m : m = IF readers THEN acked ELSE seq
    OBVIOUS
  <2>2. PICK w : w = Downgraded(c)
    OBVIOUS
  <2>3. startup /\ c' = RemoveAcked(w, m) /\ UNCHANGED <<log, readers, acked>>
    BY <1>9, <2>1, <2>2 DEF ExitStartup
  <2>4. /\ Owned(w) /\ DOMAIN w.nodes \subseteq Stored /\ w.maxDrop = c.maxDrop
        /\ w.tldepth = 0 /\ w.idxdepth = c.idxdepth
        /\ \A s \in Stored : s \in DOMAIN w.nodes <=> s > c.maxDrop
        /\ \A s \in DOMAIN w.nodes : w.nodes[s].inst = c.nodes[s].inst
    BY <1>1, <2>2, <2>3, DowngradeOwned
  <2>5. m \in 0..seq /\ w.maxDrop <= m /\ (readers => acked = m)
    BY <2>1, <2>4, <1>1
  <2>6. LinkedIn(w)
    BY <2>4, <1>1 DEF LinkedIn
  <2>7. KeptIn(w)
    BY <2>4 DEF KeptIn
  <2>8. FreedIn(w)
    <3> SUFFICES ASSUME NEW s \in DOMAIN w.nodes PROVE ~(s <= w.maxDrop)
      BY DEF FreedIn
    <3>1. s > w.maxDrop /\ s \in 1..seq
      BY <2>4 DEF Owned
    <3> QED BY <3>1, <2>4, <1>1
  <2>9. \A s \in Stored : s > m => s \in DOMAIN w.nodes
    <3>1. \A s \in Stored : s \in 1..seq
      BY <1>1 DEF Owned
    <3> QED BY <3>1, <2>4, <2>5, <1>1
  <2>10. c'.idxdepth = c.idxdepth /\ c'.hdepth = c.hdepth
    BY <1>2, <1>1 DEF CacheInv, Shape
  <2>11. acked <= acked /\ (readers => acked <= m) /\ (readers' => readers /\ acked' = m)
    BY <2>3, <2>5, <1>1
  <2> QED BY <2>3, <2>4, <2>5, <2>6, <2>7, <2>8, <2>9, <2>10, <2>11, <1>1, <1>2, ShrinkKept
<1> QED BY <1>4, <1>5, <1>6, <1>7, <1>8, <1>9 DEF Next

\* At first nothing was written.
LEMMA InitKept == Init => KeptInv
<1> SUFFICES ASSUME Init PROVE KeptInv
  OBVIOUS
<1>1. CacheInv
  BY InvInit
<1>2. seq = 0 /\ DOMAIN c.nodes = {} /\ ~readers
  <2>1. DOMAIN << >> = {}
    OBVIOUS
  <2> QED BY <2>1 DEF Init, New, seq
<1>3. \A k : Written(k) = {}
  BY <1>2 DEF Written
<1> QED BY <1>1, <1>2, <1>3 DEF KeptInv, LinkedIn, KeptIn, FreedIn, UnackedKept

\* A sample that a reader has not acknowledged is in the cache, unless the KEEP_LAST history
\* has as many newer ones of its instance; the transient-local history of every instance is
\* there for late joiners; and what was acknowledged and is in neither is freed.
THEOREM CacheKeeps == ASSUME BoundedDurability PROVE Spec => []KeptAsNeeded
BY InitKept, StepKept, InvKept, PTL DEF Spec

----------------------------------------------------------------------------
\* The abstract cache

\* A writer that does not unregister instances, is not in startup mode and has a bounded
\* durability history
PlainWriter == Kinds \subseteq {"data"} /\ ~StartupMode /\ BoundedDurability

\* The instances of what was written
KeyLog == [s \in 1..seq |-> log[s].key]

\* What is in a sequence
LEMMA SeqMembers ==
    ASSUME NEW S, NEW L \in Seq(S)
    PROVE  Len(L) \in Nat /\ \A s \in 1..Len(L) : L[s] \in S
OBVIOUS

\* All samples of an instance count.
LEMMA OnlyData ==
    ASSUME Kinds \subseteq {"data"}, NEW L \in Seq([key : Keys, kind : Kinds]), NEW k
    PROVE  {s \in 1..Len(L) : /\ L[s] = [key |-> k, kind |-> "data"]
                              /\ \A t \in s..Len(L) : L[t] # [key |-> k, kind |-> "unreg"]}
              = {s \in 1..Len(L) : L[s].key = k}
<1>1. Len(L) \in Nat /\ \A s \in 1..Len(L) : L[s] \in [key : Keys, kind : Kinds]
  BY SeqMembers
<1>2. \A s \in 1..Len(L) : L[s] = [key |-> L[s].key, kind |-> "data"]
  BY <1>1
<1>3. \A s \in 1..Len(L) : L[s] = [key |-> k, kind |-> "data"] <=> L[s].key = k
  BY <1>2
<1>4. \A s \in 1..Len(L) : L[s].kind = "data"
  BY <1>1
<1>5. \A s \in 1..Len(L) : L[s] # [key |-> k, kind |-> "unreg"]
  BY <1>4
<1>6. \A s \in 1..Len(L) : \A t \in s..Len(L) : t \in 1..Len(L)
  BY <1>1
<1> QED BY <1>3, <1>5, <1>6

\* So they are all that was written to it.
LEMMA WrittenPlain ==
    ASSUME Kinds \subseteq {"data"}, log \in Seq([key : Keys, kind : Kinds])
    PROVE  \A k : Written(k) = {s \in 1..seq : log[s].key = k}
BY OnlyData DEF Written, seq

\* The operators of module HistoryCache are the same when it is reached through Abstract.
LEMMA SameOperators ==
    /\ \A S : Abstract!Cardinality(S) = Cardinality(S)
    /\ \A h, t : Abstract!IdxDepth(h, t) = IdxDepth(h, t)
BY DEF Cardinality, Abstract!Cardinality, IdxDepth, Abstract!IdxDepth

\* The abstract cache counts the same newer samples.
LEMMA NewerKeys ==
    ASSUME NEW L \in Seq([key : Keys, kind : Kinds]), NEW a, a = [s \in 1..Len(L) |-> L[s].key],
           NEW s \in 1..Len(L)
    PROVE  /\ a \in Seq(Keys) /\ Len(a) = Len(L)
           /\ Abstract!Newer(a, s) = {t \in 1..Len(L) : t > s /\ L[t].key = L[s].key}
<1>1. Len(L) \in Nat /\ \A t \in 1..Len(L) : L[t].key \in Keys
  <2>1. Len(L) \in Nat /\ \A t \in 1..Len(L) : L[t] \in [key : Keys, kind : Kinds]
    BY SeqMembers
  <2> QED BY <2>1
<1>2. a \in Seq(Keys) /\ Len(a) = Len(L)
  BY <1>1
<1> QED BY <1>2 DEF Abstract!Newer

\* The samples of an instance newer than s, which is one, are those that the abstract cache
\* counts; and what is linked is known from how many there are.
LEMMA PlainKnown ==
    ASSUME PlainWriter, KeptInv, NEW s \in 1..seq, NEW k, k = log[s].key
    PROVE  /\ k \in Keys /\ s \in Written(k) /\ KeyLog[s] = k /\ DOMAIN KeyLog = 1..seq
           /\ Len(KeyLog) = seq /\ \A j : s \in Written(j) => j = k
           /\ Abstract!Newer(KeyLog, s) = NewerOf(k, s)
           /\ Abstract!InTLHistory(KeyLog, s) <=> Cardinality(NewerOf(k, s)) < TLDepth
           /\ c.tldepth = TLDepth /\ ~startup
           /\ s \in Stored => /\ c.nodes[s].inst = k <=> Cardinality(NewerOf(k, s)) < c.idxdepth
                              /\ c.nodes[s].inst \in {k, NoKey}
                              /\ InTLIdx(c, s) <=> Cardinality(NewerOf(k, s)) < TLDepth
<1>1. /\ log \in Seq([key : Keys, kind : Kinds]) /\ seq \in Nat /\ Core(c) /\ Placed(c)
      /\ Stored = DOMAIN c.nodes /\ Kinds \subseteq {"data"}
      /\ CacheInv /\ LinkedIn(c) /\ c.tldepth \in Nat /\ c.idxdepth \in Nat /\ c.tldepth <= c.idxdepth
  BY InvOwned DEF PlainWriter, KeptInv, Owned, Stored, Core, Depths
<1>2. c.tldepth = TLDepth /\ ~startup
  BY <1>1 DEF PlainWriter, CacheInv, Shape
<1>3. \A j : Written(j) = {t \in 1..seq : log[t].key = j}
  BY <1>1, WrittenPlain
<1>4. k \in Keys
  <2>1. s \in 1..Len(log)
    BY DEF seq
  <2>2. log[s] \in [key : Keys, kind : Kinds]
    BY <2>1, <1>1, SeqMembers
  <2> QED BY <2>2
<1>5. s \in Written(k) /\ \A j : s \in Written(j) => j = k
  BY <1>3
<1>6. KeyLog = [t \in 1..Len(log) |-> log[t].key] /\ Len(log) = seq
  BY DEF KeyLog, seq
<1>7. Len(KeyLog) = seq /\ Abstract!Newer(KeyLog, s) = {t \in 1..seq : t > s /\ log[t].key = k}
  <2>1. s \in 1..Len(log)
    BY <1>6
  <2> PICK a : a = KeyLog
    OBVIOUS
  <2>2. a = [t \in 1..Len(log) |-> log[t].key]
    BY <1>6
  <2>3. Len(a) = Len(log) /\ Abstract!Newer(a, s) = {t \in 1..Len(log) : t > s /\ log[t].key = log[s].key}
    BY <2>1, <2>2, <1>1, NewerKeys
  <2> QED BY <2>3, <1>6
<1>8. Abstract!Newer(KeyLog, s) = NewerOf(k, s)
  BY <1>3, <1>7 DEF NewerOf
<1>9. KeyLog[s] = k /\ DOMAIN KeyLog = 1..seq
  BY DEF KeyLog
<1>10. Abstract!InTLHistory(KeyLog, s) <=> Cardinality(NewerOf(k, s)) < TLDepth
  BY <1>8, SameOperators DEF Abstract!InTLHistory
<1>11. ASSUME s \in Stored
       PROVE  /\ c.nodes[s].inst = k <=> Cardinality(NewerOf(k, s)) < c.idxdepth
              /\ c.nodes[s].inst \in {k, NoKey}
              /\ InTLIdx(c, s) <=> Cardinality(NewerOf(k, s)) < TLDepth
  <2>1. s \in DOMAIN c.nodes
    BY <1>1, <1>11
  <2>2. Cardinality(NewerOf(k, s)) < c.idxdepth => c.nodes[s].inst = k
    BY <2>1, <1>1, <1>4, <1>5 DEF LinkedIn
  <2>3. c.nodes[s].inst = k => /\ Cardinality(NewerOf(k, s)) < c.idxdepth
                               /\ InTLIdx(c, s) <=> Cardinality(NewerOf(k, s)) < TLDepth
    <3> SUFFICES ASSUME c.nodes[s].inst = k
                 PROVE  /\ Cardinality(NewerOf(k, s)) < c.idxdepth
                        /\ InTLIdx(c, s) <=> Cardinality(NewerOf(k, s)) < TLDepth
      OBVIOUS
    <3>1. /\ Cardinality(NewerOf(k, s)) \in 0..c.idxdepth - 1
          /\ InTLIdx(c, s) <=> Cardinality(NewerOf(k, s)) < c.tldepth
      BY <2>1, <1>1, <1>4, StoredPlace
    <3> QED BY <3>1, <1>1, <1>2
  <2>4. c.nodes[s].inst \in {k, NoKey}
    <3> PICK j : j = c.nodes[s].inst
      OBVIOUS
    <3>1. j # NoKey => j \in Keys
      BY <2>1, <1>1, LinkedPlace, SlotPlace
    <3>2. j # NoKey => s \in Written(j)
      BY <2>1, <3>1, <1>1 DEF Placed
    <3> QED BY <3>2, <1>5
  <2>5. c.nodes[s].inst = NoKey => ~InTLIdx(c, s) /\ ~(Cardinality(NewerOf(k, s)) < TLDepth)
    <3> SUFFICES ASSUME c.nodes[s].inst = NoKey, Cardinality(NewerOf(k, s)) < TLDepth PROVE FALSE
      BY DEF InTLIdx
    <3>1. Cardinality(NewerOf(k, s)) \in Nat
      BY <1>1, NewerFinite
    <3>2. c.nodes[s].inst = k
      BY <2>2, <3>1, <1>1, <1>2
    <3> QED BY <3>2, <1>4, WHCAssumption
  <2> QED BY <2>2, <2>3, <2>4, <2>5
<1> QED BY <1>2, <1>4, <1>5, <1>7, <1>8, <1>9, <1>10, <1>11

\* Processing acknowledgements is what the abstract cache does, or nothing.
LEMMA AckImplements ==
    ASSUME PlainWriter, KeptInv, NEW m \in 0..seq, c.maxDrop <= m, UNCHANGED log,
           Removed(c, c', m)
    PROVE  Abstract!Acknowledge(m) \/ UNCHANGED Abstract!cacheVars
<1>1. /\ log \in Seq([key : Keys, kind : Kinds]) /\ seq \in Nat /\ Core(c) /\ Placed(c)
      /\ Stored = DOMAIN c.nodes /\ Stored \subseteq 1..seq /\ c.maxDrop \in Nat /\ c.maxDrop <= seq
      /\ LinkedIn(c) /\ KeptIn(c) /\ FreedIn(c)
      /\ c.tldepth \in Nat /\ c.idxdepth \in Nat /\ c.tldepth <= c.idxdepth
      /\ c.idxdepth = IdxDepth(HDepth, TLDepth)
  BY InvOwned DEF PlainWriter, KeptInv, Owned, Stored, Core, Depths, CacheInv, Shape
<1> PICK v : v = c'
  OBVIOUS
<1>2. /\ v.maxDrop = m /\ DOMAIN v.nodes = Stored \ Gone(c, m) /\ Stored' = DOMAIN v.nodes
      /\ \A s \in Stored : s > m => s \in DOMAIN v.nodes
  <2>1. \A s \in DOMAIN c.nodes : s > m => s \in DOMAIN v.nodes
    <3>1. Removed(c, v, m) /\ m \in Nat
      BY <1>1
    <3> QED BY <3>1, <1>1, RemovedKept
  <2> QED BY <2>1, <1>1 DEF Removed, Fewer, Stored
<1>3. KeyLog' = KeyLog
  BY SameLog DEF KeyLog
<1> DEFINE T(s) == Abstract!InTLHistory(KeyLog, s)
           K == {c.nodes[t].inst : t \in {s \in InRange(c, m) : InTLIdx(c, s)}}
           seen == {t \in Stored : t > c.maxDrop /\ t <= m /\ T(t)}
           kept == {s \in Stored : \/ s > m \/ T(s)
                                   \/ s <= c.maxDrop /\ \A t \in seen : KeyLog[t] # KeyLog[s]}
<1>4. Abstract!AckDropped(Stored, KeyLog, c.maxDrop, m) = kept
      /\ ~Abstract!NeverDrops(Abstract!IdxDepth(HDepth, TLDepth))
  <2>1. ~Abstract!NeverDrops(Abstract!IdxDepth(HDepth, TLDepth))
    BY HistoryAssumption DEF PlainWriter, BoundedDurability, Abstract!NeverDrops
  <2> QED BY <2>1 DEF Abstract!AckDropped
<1>5. ASSUME NEW s \in Stored, s \in Gone(c, m) PROVE s \notin kept
  <2>1. s \in 1..seq /\ s \in Nat /\ s <= m /\ m \in Nat
    BY <1>1, <1>2, <1>5
  <2> PICK k : k = log[s].key
    OBVIOUS
  <2>2. ~InTLIdx(c, s) /\ \/ s \in InRange(c, m)
                          \/ c.nodes[s].inst # NoKey /\ c.nodes[s].inst \in K
    BY <1>5 DEF Gone, Passed, Outdated
  <2>3. KeyLog[s] = k /\ ~T(s) /\ c.nodes[s].inst \in {k, NoKey}
    BY <2>1, <2>2, PlainKnown
  <2>4. CASE s \in InRange(c, m)
    <3>1. ~(s <= c.maxDrop)
      BY <2>1, <2>4, <1>1 DEF InRange
    <3> QED BY <2>1, <2>3, <3>1
  <2>5. CASE k \in K
    <3>1. PICK t \in InRange(c, m) : InTLIdx(c, t) /\ c.nodes[t].inst = k
      BY <2>5
    <3>2. t \in Stored /\ t \in 1..seq /\ t > c.maxDrop /\ t <= m
      BY <3>1, <1>1 DEF InRange
    <3>3. T(t) /\ KeyLog[t] = log[t].key /\ c.nodes[t].inst \in {log[t].key, NoKey}
      BY <3>1, <3>2, PlainKnown
    <3>4. k # NoKey
      <4>1. k \in Keys
        BY <2>1, PlainKnown
      <4> QED BY <4>1, WHCAssumption
    <3>5. t \in seen /\ KeyLog[t] = KeyLog[s]
      BY <2>3, <3>1, <3>2, <3>3, <3>4
    <3> QED BY <2>1, <2>3, <3>5
  <2> QED BY <2>2, <2>3, <2>4, <2>5
<1>6. ASSUME NEW s \in Stored, s \notin kept PROVE s \in Gone(c, m)
  <2>1. s \in 1..seq /\ s \in Nat /\ s <= m /\ m \in Nat /\ ~T(s)
    BY <1>1, <1>6
  <2> PICK k : k = log[s].key
    OBVIOUS
  <2>2. KeyLog[s] = k /\ k \in Keys /\ k # NoKey /\ ~InTLIdx(c, s) /\ c.nodes[s].inst \in {k, NoKey}
        /\ (c.nodes[s].inst = k <=> Cardinality(NewerOf(k, s)) < c.idxdepth)
        /\ ~(Cardinality(NewerOf(k, s)) < c.tldepth)
    BY <2>1, PlainKnown, WHCAssumption
  <2>3. CASE s > c.maxDrop
    <3>1. s \in InRange(c, m)
      BY <2>1, <2>3, <1>1 DEF InRange
    <3> QED BY <2>2, <3>1 DEF Gone, Passed
  <2>4. CASE ~(s > c.maxDrop)
    <3>1. PICK t \in seen : KeyLog[t] = k
      BY <2>1, <2>2, <2>4, <1>1, <1>6
    <3>2. t \in Stored /\ t \in 1..seq /\ t > c.maxDrop /\ t <= m /\ T(t)
      BY <3>1, <1>1
    <3>3. /\ InTLIdx(c, t) /\ k = log[t].key /\ Cardinality(NewerOf(k, t)) < c.tldepth
          /\ c.nodes[t].inst \in {k, NoKey}
      BY <3>1, <3>2, PlainKnown
    <3>4. t \in InRange(c, m) /\ c.nodes[t].inst = k
      BY <3>2, <3>3, <1>1 DEF InRange, InTLIdx
    <3>5. k \in K
      BY <3>3, <3>4
    <3>6. c.nodes[s].inst = k
      <4>1. c.nodes[s].inst \in Keys
        BY <2>1, <2>4, <1>1 DEF FreedIn
      <4> QED BY <4>1, <2>2, WHCAssumption
    <3>7. c.tldepth > 0 /\ c.idxdepth > c.tldepth
      <4>1. Cardinality(NewerOf(k, t)) \in Nat /\ Cardinality(NewerOf(k, s)) \in Nat
        BY <1>1, NewerFinite
      <4> QED BY <4>1, <2>2, <3>3, <3>6, <1>1
    <3> HIDE DEF K, T, seen, kept
    <3>8. s \in Outdated(c, K)
      BY <2>2, <3>5, <3>6, <1>1 DEF Outdated
    <3>9. Outdated(c, K) \subseteq Gone(c, m)
      BY <3>7 DEF Gone, K
    <3> QED BY <3>8, <3>9
  <2> QED BY <2>3, <2>4
<1> HIDE DEF kept, seen, K, T
<1>7. Stored' = kept
  <2>1. kept \subseteq Stored
    BY DEF kept
  <2> QED BY <2>1, <1>2, <1>5, <1>6
<1>8. CASE m > c.maxDrop
  <2>1. c'.maxDrop = m
    BY <1>2
  <2> QED BY <2>1, <1>3, <1>4, <1>7, <1>8 DEF Abstract!Acknowledge, KeyLog
<1>9. CASE ~(m > c.maxDrop)
  <2>1. m = c.maxDrop
    BY <1>1, <1>9
  <2>2. InRange(c, m) = {}
    BY <2>1, <1>1 DEF InRange
  <2>3. Gone(c, m) = {}
    BY <2>2 DEF Gone, Passed, Outdated
  <2>4. Stored' = Stored /\ c'.maxDrop = c.maxDrop
    BY <2>1, <2>3, <1>2
  <2> QED BY <2>4, <1>3 DEF Abstract!cacheVars, KeyLog
<1> QED BY <1>8, <1>9

\* Writing is what the abstract cache does.
LEMMA WriteImplements ==
    ASSUME PlainWriter, KeptInv, NEW e \in [key : Keys, kind : Kinds], Write(e)
    PROVE  Abstract!Next
<1>1. /\ CacheInv /\ LinkedIn(c) /\ Core(c) /\ Placed(c) /\ Stored = DOMAIN c.nodes
      /\ Stored \subseteq 1..seq /\ c.maxDrop \in Nat /\ acked \in 0..seq
      /\ log \in Seq([key : Keys, kind : Kinds])
      /\ c.tldepth \in Nat /\ c.idxdepth \in Nat /\ c.tldepth <= c.idxdepth
      /\ c.idxdepth = IdxDepth(HDepth, TLDepth) /\ c.hdepth = HDepth
  BY InvOwned DEF PlainWriter, KeptInv, Stored, Owned, Core, Depths, CacheInv, Shape
<1>2. /\ seq \in Nat /\ seq' = seq + 1 /\ log' = Append(log, e)
      /\ log' \in Seq([key : Keys, kind : Kinds])
      /\ DropSeq \in Nat /\ c.maxDrop <= DropSeq
  BY <1>1, WriteGrows DEF PlainWriter
<1> PICK k, s, m, b, a : k = e.key /\ s = seq + 1 /\ m = DropSeq /\ b = KeyLog' /\ a = KeyLog
  OBVIOUS
<1>3. k \in Keys /\ e.kind = "data" /\ e.kind # "unreg" /\ e.key = k /\ Kinds \subseteq {"data"}
  BY DEF PlainWriter
<1>4. /\ b = Append(a, k) /\ Len(b) = s /\ b[s] = k /\ \A t \in 1..seq : b[t] = log[t].key
      /\ Len(a) = seq /\ s \in Nat
  <2>1. a = [t \in 1..Len(log) |-> log[t].key] /\ b = [t \in 1..Len(log') |-> log'[t].key]
        /\ Len(log) = seq /\ Len(log') = seq + 1
    <3>1. KeyLog = [t \in 1..Len(log) |-> log[t].key]
      BY DEF KeyLog, seq
    <3>2. KeyLog' = [t \in 1..Len(log') |-> log'[t].key]
      BY DEF KeyLog, seq
    <3>3. Len(log) = seq /\ Len(log') = seq + 1
      BY <1>2 DEF seq
    <3> QED BY <3>1, <3>2, <3>3
  <2>2. a \in Seq(Keys) /\ Len(a) = seq /\ b \in Seq(Keys) /\ Len(b) = seq + 1
    <3>1. ASSUME NEW L \in Seq([key : Keys, kind : Kinds]), Len(L) \in Nat \ {0}
          PROVE  /\ [t \in 1..Len(L) |-> L[t].key] \in Seq(Keys)
                 /\ Len([t \in 1..Len(L) |-> L[t].key]) = Len(L)
      <4>1. 1 \in 1..Len(L)
        BY <3>1
      <4> QED BY <4>1, NewerKeys
    <3>2. b \in Seq(Keys) /\ Len(b) = seq + 1
      BY <2>1, <3>1, <1>2
    <3>3. CASE seq = 0
      <4>1. a = << >>
        BY <2>1, <3>3
      <4> QED BY <4>1, <3>2, <3>3
    <3>4. CASE seq # 0
      <4>1. a \in Seq(Keys) /\ Len(a) = seq
        BY <2>1, <3>1, <3>4, <1>1, <1>2
      <4> QED BY <4>1, <3>2
    <3> QED BY <3>3, <3>4
  <2>3. \A t \in 1..seq : log'[t] = log[t] /\ t \in 1..seq + 1
    BY <1>2 DEF seq
  <2>4. log'[seq + 1] = e /\ seq + 1 \in 1..seq + 1
    BY <1>2 DEF seq
  <2>5. \A t \in 1..seq : b[t] = log[t].key /\ a[t] = log[t].key
    BY <2>1, <2>3
  <2>6. b[seq + 1] = k
    BY <2>1, <2>4, <1>3
  <2>7. b = Append(a, k)
    <3>1. Append(a, k) \in Seq(Keys) /\ Len(Append(a, k)) = seq + 1
          /\ Append(a, k)[seq + 1] = k /\ \A t \in 1..seq : Append(a, k)[t] = a[t]
      BY <2>2, <1>2, <1>3
    <3>2. \A t \in 1..seq + 1 : t \in 1..seq \/ t = seq + 1
      BY <1>2
    <3>3. \A t \in 1..seq + 1 : b[t] = Append(a, k)[t]
      BY <2>5, <2>6, <3>1, <3>2
    <3>4. b = [t \in 1..seq + 1 |-> b[t]] /\ Append(a, k) = [t \in 1..seq + 1 |-> Append(a, k)[t]]
      BY <2>2, <3>1
    <3> QED BY <3>3, <3>4
  <2> QED BY <2>2, <2>5, <2>6, <2>7, <1>2
<1>5. CASE c' = c /\ Stored = {} /\ ~readers /\ c.tldepth = 0
  <2>1. Abstract!Bypass(k)
    <3>1. Stored' = Stored /\ c'.maxDrop = c.maxDrop
      BY <1>5 DEF Stored
    <3>2. KeyLog' = Append(KeyLog, k)
      BY <1>4
    <3> QED BY <3>1, <3>2 DEF Abstract!Bypass, KeyLog
  <2> QED BY <2>1, <1>3 DEF Abstract!Next
<1>6. CASE Grown(c, c', DropSeq, seq + 1, e)
  <2> PICK v : v = c'
    OBVIOUS
  <2>1. /\ Grown(c, v, m, s, e) /\ v.maxDrop = c.maxDrop /\ Stored' = DOMAIN v.nodes
        /\ \A t \in DOMAIN v.nodes : t \in Stored \/ t = s
        /\ \A t \in Stored : t \in DOMAIN v.nodes <=> ~Discarded(c, t, m, s, e)
        /\ s \in DOMAIN v.nodes
    BY <1>1, <1>3, <1>6 DEF Grown, Stored
  <2> DEFINE D == IdxDepth(HDepth, TLDepth)
             N(t) == Cardinality(Abstract!Newer(b, t))
             old == {t \in Stored : t < s /\ b[t] = b[s]}
             full == {t \in old : D > 0 /\ N(t) = D /\ (HDepth > 0 \/ t <= m)}
             tl == {t \in old : s <= m /\ TLDepth > 0 /\ D > TLDepth /\ N(t) = TLDepth}
  <2>2. Abstract!Inserted(Stored, b, m) = (Stored \ (full \cup tl)) \cup {s}
    BY <1>4, SameOperators DEF Abstract!Inserted
  <2>3. ASSUME NEW t \in Stored, b[t] = k
        PROVE  /\ t \in 1..seq /\ t \in old /\ N(t) = Cardinality(NewerOf(k, t)) + 1
               /\ Cardinality(NewerOf(k, t)) \in Nat
               /\ c.nodes[t].inst = k <=> Cardinality(NewerOf(k, t)) < D
    <3>1. t \in 1..seq /\ k = log[t].key /\ t \in Nat /\ t < s
      BY <2>3, <1>1, <1>2, <1>4
    <3>2. t \in Written(k) /\ (c.nodes[t].inst = k <=> Cardinality(NewerOf(k, t)) < D)
      BY <3>1, <1>1, PlainKnown
    <3>3. /\ NewerOf(k, t)' = NewerOf(k, t) \cup {seq + 1}
          /\ Cardinality(NewerOf(k, t)') = Cardinality(NewerOf(k, t)) + 1
          /\ Cardinality(NewerOf(k, t)) \in Nat
      <4>0. /\ log \in Seq([key : Keys, kind : Kinds]) /\ log' = Append(log, e)
            /\ t \in 1..seq /\ e.key = k /\ e.kind # "unreg"
        BY <3>1, <1>1, <1>2, <1>3
      <4>1. /\ NewerOf(k, t)' = NewerOf(k, t) \cup {seq + 1}
            /\ Cardinality(NewerOf(k, t)') = Cardinality(NewerOf(k, t)) + 1
        BY <4>0, NewerGrows
      <4>2. Cardinality(NewerOf(k, t)) \in Nat
        BY <1>1, NewerFinite
      <4> QED BY <4>1, <4>2
    <3>4. Abstract!Newer(b, t) = NewerOf(k, t)'
      <4>1. NewerOf(k, t) = {x \in 1..seq : x > t /\ log[x].key = k}
        <5>1. Written(k) = {x \in 1..seq : log[x].key = k}
          BY <1>1, <1>3, WrittenPlain
        <5> QED BY <5>1 DEF NewerOf
      <4>2. Abstract!Newer(b, t) = {x \in 1..seq + 1 : x > t /\ b[x] = k}
        BY <2>3, <1>4 DEF Abstract!Newer
      <4>3. \A x \in 1..seq + 1 : x \in 1..seq \/ x = seq + 1
        BY <1>2
      <4>4. \A x : x \in Abstract!Newer(b, t) <=> x \in NewerOf(k, t) \/ x = seq + 1
        <5>1. seq + 1 \in 1..seq + 1 /\ seq + 1 > t /\ b[seq + 1] = k
              /\ \A x \in 1..seq : x \in 1..seq + 1 /\ b[x] = log[x].key
          BY <3>1, <1>2, <1>4
        <5> QED BY <4>1, <4>2, <4>3, <5>1
      <4> QED BY <3>3, <4>4
    <3> QED BY <3>1, <3>2, <3>3, <3>4, <2>3, <1>4
  <2>4. ASSUME NEW t \in Stored
        PROVE  Discarded(c, t, m, s, e) <=> t \in full \cup tl
    <3>1. t \in 1..seq
      BY <1>1
    <3>2. CASE b[t] = k
      <4>1. /\ t \in old /\ N(t) = Cardinality(NewerOf(k, t)) + 1
            /\ Cardinality(NewerOf(k, t)) \in Nat
            /\ c.nodes[t].inst = k <=> Cardinality(NewerOf(k, t)) < D
        BY <2>3, <3>2
      <4>2. c.nodes[t].inst = k => Behind(c, k, c.nodes[t].pos) = Cardinality(NewerOf(k, t))
        BY <1>1, <1>3 DEF Placed
      <4>3. c.tldepth = TLDepth /\ D \in Nat /\ TLDepth \in Nat /\ c.idxdepth = D /\ TLDepth <= D
        BY <3>1, <1>1, PlainKnown
      <4> PICK n \in Nat : n = Cardinality(NewerOf(k, t))
        BY <4>1
      <4> DEFINE linked == c.nodes[t].inst = k
      <4>4. Displaced(c, t, e) <=> n + 1 = D
        <5>1. Displaced(c, t, e) <=> linked /\ Behind(c, k, c.nodes[t].pos) + 1 = D
          BY <1>3, <4>3 DEF Displaced
        <5>2. linked <=> n < D
          BY <4>1
        <5>3. linked => Behind(c, k, c.nodes[t].pos) = n
          BY <4>2
        <5> HIDE DEF linked
        <5> QED BY <5>1, <5>2, <5>3, <4>3
      <4>5. Cuts(c, e.key, m, s, t) <=> s <= m /\ TLDepth > 0 /\ D > TLDepth /\ n + 1 = TLDepth
        <5>1. Cuts(c, e.key, m, s, t) <=>
                 linked /\ s <= m /\ TLDepth > 0 /\ D > TLDepth
                        /\ Behind(c, k, c.nodes[t].pos) + 1 = TLDepth
          BY <1>3, <4>3 DEF Cuts
        <5>2. linked <=> n < D
          BY <4>1
        <5>3. linked => Behind(c, k, c.nodes[t].pos) = n
          BY <4>2
        <5> HIDE DEF linked
        <5> QED BY <5>1, <5>2, <5>3, <4>3
      <4>6. t \in full <=> D > 0 /\ n + 1 = D /\ (HDepth > 0 \/ t <= m)
        BY <4>1
      <4>7. t \in tl <=> s <= m /\ TLDepth > 0 /\ D > TLDepth /\ n + 1 = TLDepth
        BY <4>1
      <4>8. n + 1 = D => D > 0
        BY <4>3
      <4>9. Discarded(c, t, m, s, e) <=>
               \/ Displaced(c, t, e) /\ (t <= m \/ HDepth > 0)
               \/ Cuts(c, e.key, m, s, t)
        BY <1>1, <1>3 DEF Discarded
      <4> HIDE DEF full, tl, D
      <4> QED BY <4>4, <4>5, <4>6, <4>7, <4>8, <4>9
    <3>3. CASE b[t] # k
      <4>1. t \notin full \cup tl
        BY <3>3, <1>4
      <4>2. c.nodes[t].inst # k
        <5>1. c.nodes[t].inst \in {log[t].key, NoKey}
          BY <3>1, PlainKnown
        <5> QED BY <5>1, <3>1, <3>3, <1>3, <1>4, WHCAssumption
      <4>3. ~Discarded(c, t, m, s, e)
        BY <4>2, <1>3 DEF Discarded, Displaced, Cuts
      <4> QED BY <4>1, <4>3
    <3> QED BY <3>2, <3>3
  <2> HIDE DEF full, tl, old, N, D
  <2>5. Stored' = Abstract!Inserted(Stored, b, m)
    BY <2>1, <2>2, <2>4
  <2>6. Abstract!Insert(k, m)
    <3>1. KeyLog' = Append(KeyLog, k) /\ Stored' = Abstract!Inserted(Stored, KeyLog', m)
          /\ c'.maxDrop = c.maxDrop /\ m >= c.maxDrop
      BY <2>1, <2>5, <1>1, <1>2, <1>4
    <3> QED BY <3>1 DEF Abstract!Insert, KeyLog
  <2>7. m \in 0..Len(KeyLog) + 1
    BY <1>1, <1>2, <1>4 DEF DropSeq
  <2> QED BY <2>6, <2>7, <1>3 DEF Abstract!Next, KeyLog
<1> QED BY <1>1, <1>5, <1>6, WriteGrows DEF PlainWriter

\* The writer history cache, with its intervals, index and buffers, implements the abstract
\* cache that the protocol relies on, for a writer that only writes: every operation
\* of q_whc.c keeps and frees the samples that module CacheSpec says.
THEOREM ImplementsAbstractCache == ASSUME PlainWriter PROVE Spec => ImplementsCache
<1>1. Init => Abstract!Init
  <2> SUFFICES ASSUME Init PROVE Abstract!Init
    OBVIOUS
  <2>1. seq = 0 /\ Stored = {} /\ c.maxDrop = 0
    <3>1. DOMAIN << >> = {}
      OBVIOUS
    <3> QED BY <3>1 DEF Init, New, seq, Stored
  <2>2. [s \in 1..seq |-> log[s].key] = << >>
    BY <2>1
  <2> QED BY <2>1, <2>2 DEF Abstract!Init
<1>2. KeptInv /\ [Next]_vars => [Abstract!Next]_(Abstract!cacheVars)
  <2> SUFFICES ASSUME KeptInv, [Next]_vars PROVE Abstract!Next \/ UNCHANGED Abstract!cacheVars
    OBVIOUS
  <2>1. /\ log \in Seq([key : Keys, kind : Kinds]) /\ acked \in 0..seq /\ seq \in Nat
        /\ Owned(c) /\ c.maxDrop \in Nat /\ (readers => c.maxDrop <= acked) /\ BoundedDurability
        /\ ~startup
    BY InvOwned, WHCAssumption DEF PlainWriter, KeptInv, Owned, Core, Depths, CacheInv, Shape
  <2>2. ASSUME NEW k \in Keys, NEW kind \in Kinds, Write([key |-> k, kind |-> kind])
        PROVE  Abstract!Next
    <3>1. PICK e : e = [key |-> k, kind |-> kind]
      OBVIOUS
    <3>2. e \in [key : Keys, kind : Kinds] /\ Write(e)
      BY <2>2, <3>1
    <3> QED BY <3>2, WriteImplements
  <2>3. ASSUME UNCHANGED <<log, c>> PROVE UNCHANGED Abstract!cacheVars
    BY <2>3 DEF Abstract!cacheVars, Stored, seq
  <2>4. ASSUME NEW m \in 0..seq, c.maxDrop <= m, readers => acked <= m, UNCHANGED log,
               c' = RemoveAcked(c, m)
        PROVE  Abstract!Next \/ UNCHANGED Abstract!cacheVars
    <3> PICK v : v = c'
      OBVIOUS
    <3>1. Removed(c, v, m)
      BY <2>1, <2>4, AckSettles
    <3>2. Abstract!Acknowledge(m) \/ UNCHANGED Abstract!cacheVars
      BY <2>4, <3>1, AckImplements
    <3>3. m \in 0..Len([s \in 1..seq |-> log[s].key])
      <4>1. Len([s \in 1..seq |-> log[s].key]) = seq
        BY <2>1
      <4> QED BY <4>1
    <3> QED BY <3>2, <3>3 DEF Abstract!Next
  <2>5. ASSUME NEW m \in 1..MaxSeq, Ack(m) PROVE Abstract!Next \/ UNCHANGED Abstract!cacheVars
    <3>1. /\ readers /\ m > acked /\ m <= seq /\ c' = RemoveAcked(c, m) /\ UNCHANGED log
      BY <2>5 DEF Ack
    <3>2. m \in 0..seq /\ c.maxDrop <= m /\ acked <= m
      BY <2>1, <3>1
    <3> QED BY <3>1, <3>2, <2>4
  <2>6. CASE Leave
    <3>1. readers /\ c' = RemoveAcked(c, seq) /\ UNCHANGED log
      BY <2>6 DEF Leave
    <3> PICK m : m = seq
      OBVIOUS
    <3>2. m \in 0..seq /\ c.maxDrop <= m /\ acked <= m /\ c' = RemoveAcked(c, m)
      BY <2>1, <3>1
    <3> QED BY <3>1, <3>2, <2>4
  <2>7. CASE Match
    BY <2>3, <2>7 DEF Match
  <2>8. CASE UNCHANGED vars
    BY <2>3, <2>8 DEF vars
  <2>9. ~ExitStartup
    BY <2>1 DEF ExitStartup
  <2> QED BY <2>2, <2>5, <2>6, <2>7, <2>8, <2>9 DEF Next
<1>3. Spec => []KeptInv
  <2>1. BoundedDurability
    BY DEF PlainWriter
  <2> QED BY <2>1, InitKept, StepKept, PTL DEF Spec
<1> QED BY <1>1, <1>2, <1>3, PTL DEF Spec, ImplementsCache, Abstract!Spec
=============================================================================
