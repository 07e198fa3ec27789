------------------------- MODULE DeliveryQueueProofs -------------------------
(***************************************************************************)
(* What is enqueued is handed on in order and to whom it was enqueued for, *)
(* the count of samples is exact and the thread of the queue never waits   *)
(* while there is something, for any number of receive threads and         *)
(* readers, any chains and however full the queue.                         *)
(*                                                                         *)
(* The inductive invariant says what the thread will do with what it has   *)
(* taken and what is still in the queue: there is a run of the handler     *)
(* over these elements that starts from what it has handled, goes from     *)
(* element to element, and ends with what was enqueued and no reader in    *)
(* particular (Promise).  Enqueueing continues that run over a bubble and  *)
(* its chain, whose count makes it end where it began; handling an element *)
(* is the first step of it.                                                *)
(***************************************************************************)
EXTENDS DeliveryQueue, SequenceTheorems, FiniteSetTheorems, TLAPS

Whom == Readers \cup {All}
AnyElem == [kind : Kinds \cup {"rdguid", "stop"}, to : Whom, count : Nat]
Guids == [to : Whom, count : Nat]
Everybody == [to |-> All, count |-> 0]

\* where the handler is: for whom the next elements are, and what it has handed on
Marks == [rd : Guids, out : Seq(Whom)]

\* for whom the elements after e are, if e was for rd
ReaderAfter(rd, e) ==
    IF e.kind = "rdguid" THEN [to |-> e.to, count |-> e.count]
    ELSE IF e.kind \notin {"data", "gap"} \/ rd.count = 0 THEN rd
    ELSE IF rd.count = 1 THEN Everybody
    ELSE [to |-> rd.to, count |-> rd.count - 1]

OutAfter(m, e) ==
    IF e.kind = "data" THEN Append(m.out, m.rd.to)
    ELSE IF e.kind = "callback" THEN Append(m.out, All) ELSE m.out

After(m, e) == [rd |-> ReaderAfter(m.rd, e), out |-> OutAfter(m, e)]

\* s begins with p
Begins(p, s) == Len(p) <= Len(s) /\ \A i \in 1 .. Len(p) : p[i] = s[i]

\* f is a run of the handler over the elements of s, from p to q
Run(f, s, p, q) ==
    /\ f \in [0 .. Len(s) -> Marks]
    /\ f[0] = p /\ f[Len(s)] = q
    /\ \A i \in 1 .. Len(s) : f[i] = After(f[i - 1], s[i])
    /\ \A i \in 0 .. Len(s) : Begins(f[i].out, q.out)

Rest == mine \o sc
Here == [rd |-> rdguid, out |-> handled]
Goal == [rd |-> Everybody, out |-> enqueued]

Types ==
    /\ sc \in Seq(AnyElem) /\ mine \in Seq(AnyElem) /\ nof \in Int
    /\ rdguid \in Guids /\ keepgoing \in BOOLEAN
    /\ at \in [Threads -> {"idle", "isfull", "check", "wait", "look", "woken", "next", "handle", "gone"}]
    /\ enqueued \in Seq(Whom) /\ handled \in Seq(Whom)

Promise == \E f : Run(f, Rest, Here, Goal)

\* nof_samples, and the thread waiting for something
Counts ==
    /\ nof = Len(sc) + Len(mine) - (IF at["dq"] = "handle" THEN 1 ELSE 0)
    /\ at["dq"] = "handle" => mine # <<>>
    /\ at["dq"] \in {"look", "woken", "gone"} => mine = <<>>
    /\ at["dq"] \in {"look", "woken", "next", "handle", "gone"}
    /\ "dq" \in waiting => sc = <<>>

\* nothing comes after the request to stop
Stopping ==
    /\ \A i \in 1 .. Len(Rest) : Rest[i].kind = "stop" =>
          i = Len(Rest) /\ keepgoing /\ \A r \in Recv : at[r] = "gone"
    /\ ~keepgoing => /\ Rest = <<>> /\ at["dq"] \in {"next", "gone"}
                     /\ \A r \in Recv : at[r] = "gone"
    /\ at["dq"] = "gone" => ~keepgoing

Inv == Types /\ Promise /\ Counts /\ Stopping

-----------------------------------------------------------------------------
\* Sequences with the same elements are the same.
LEMMA SameSeq ==
    ASSUME NEW S, NEW s \in Seq(S), NEW t \in Seq(S), Len(s) = Len(t),
           \A i \in 1 .. Len(s) : s[i] = t[i]
    PROVE  s = t
OBVIOUS

\* What two sequences make together.
LEMMA Joint ==
    ASSUME NEW S, NEW s \in Seq(S), NEW t \in Seq(S)
    PROVE  /\ s \o t \in Seq(S) /\ Len(s \o t) = Len(s) + Len(t)
           /\ Len(s) \in Nat /\ Len(t) \in Nat
           /\ \A i \in 1 .. Len(s) : (s \o t)[i] = s[i]
           /\ \A i \in 1 .. Len(t) : (s \o t)[Len(s) + i] = t[i]
OBVIOUS

\* Each element that makes a call adds one.
LEMMA CallsStep ==
    ASSUME NEW chain, NEW n \in Nat, NEW to \in Whom
    PROVE  /\ Calls(chain, 0, to) = <<>>
           /\ Calls(chain, n, to) \in Seq(Whom)
           /\ Calls(chain, n + 1, to) = IF chain[n + 1].kind # "gap"
                                        THEN Append(Calls(chain, n, to), to) ELSE Calls(chain, n, to)
<1> DEFINE C(k) == {j \in 1 .. k : chain[j].kind # "gap"}
           c(k) == Cardinality(C(k))
           T(k) == [i \in 1 .. k |-> to]
<1>1. \A k \in Nat : IsFiniteSet(C(k)) /\ c(k) \in Nat
  <2> SUFFICES ASSUME NEW k \in Nat PROVE IsFiniteSet(C(k)) /\ c(k) \in Nat
    OBVIOUS
  <2>1. IsFiniteSet(1 .. k)
    BY FS_Interval
  <2>2. C(k) \subseteq 1 .. k
    OBVIOUS
  <2>3. IsFiniteSet(C(k))
    BY <2>1, <2>2, FS_Subset
  <2> QED BY <2>3, FS_CardinalityType
<1>2. \A k \in Nat : Calls(chain, k, to) = T(c(k))
  BY DEF Calls
<1>3. \A k \in Nat : T(k) \in Seq(Whom) /\ Len(T(k)) = k
  OBVIOUS
<1>4. T(0) = <<>>
  OBVIOUS
<1>5. c(0) = 0
  <2>1. C(0) = {}
    OBVIOUS
  <2> QED BY <2>1, FS_EmptySet
<1>6. c(n + 1) = IF chain[n + 1].kind # "gap" THEN c(n) + 1 ELSE c(n)
  <2>1. CASE chain[n + 1].kind # "gap"
    <3>1. C(n + 1) = C(n) \cup {n + 1} /\ n + 1 \notin C(n)
      BY <2>1
    <3> HIDE DEF C
    <3>2. Cardinality(C(n) \cup {n + 1}) = Cardinality(C(n)) + 1
      BY <1>1, <3>1, FS_AddElement
    <3> QED BY <2>1, <3>1, <3>2
  <2>2. CASE chain[n + 1].kind = "gap"
    <3>1. C(n + 1) = C(n)
      BY <2>2
    <3> QED BY <2>2, <3>1
  <2> QED BY <2>1, <2>2
<1>7. \A k \in Nat : T(k + 1) = Append(T(k), to)
  <2> SUFFICES ASSUME NEW k \in Nat PROVE T(k + 1) = Append(T(k), to)
    OBVIOUS
  <2>1. Append(T(k), to) \in Seq(Whom) /\ Len(Append(T(k), to)) = k + 1
    BY <1>3
  <2>2. \A i \in 1 .. k + 1 : Append(T(k), to)[i] = T(k + 1)[i]
    OBVIOUS
  <2>3. T(k + 1) \in Seq(Whom) /\ Len(T(k + 1)) = k + 1
    BY <1>3
  <2> HIDE DEF T
  <2> QED BY <2>1, <2>2, <2>3, SameSeq
<1> HIDE DEF C, c, T
<1>8. n + 1 \in Nat /\ 0 \in Nat /\ c(n) \in Nat
  BY <1>1
<1>9. Calls(chain, 0, to) = <<>> /\ Calls(chain, n, to) \in Seq(Whom)
  BY <1>2, <1>3, <1>4, <1>5, <1>8
<1>10. Calls(chain, n + 1, to) = IF chain[n + 1].kind # "gap"
                                 THEN Append(Calls(chain, n, to), to) ELSE Calls(chain, n, to)
  BY <1>2, <1>6, <1>7, <1>8
<1> QED BY <1>9, <1>10

\* More elements make no fewer calls, and all of them for the same reader.
LEMMA CallsGrow ==
    ASSUME NEW chain, NEW n \in Nat, NEW k \in 0 .. n, NEW to \in Whom
    PROVE  /\ Len(Calls(chain, k, to)) \in Nat
           /\ Len(Calls(chain, k, to)) <= Len(Calls(chain, n, to))
           /\ \A i \in 1 .. Len(Calls(chain, k, to)) : Calls(chain, k, to)[i] = to
<1> DEFINE C(m) == {j \in 1 .. m : chain[j].kind # "gap"}
<1>1. \A m \in Nat : IsFiniteSet(C(m)) /\ Cardinality(C(m)) \in Nat
  <2> SUFFICES ASSUME NEW m \in Nat PROVE IsFiniteSet(C(m)) /\ Cardinality(C(m)) \in Nat
    OBVIOUS
  <2>1. IsFiniteSet(1 .. m)
    BY FS_Interval
  <2>2. C(m) \subseteq 1 .. m
    OBVIOUS
  <2>3. IsFiniteSet(C(m))
    BY <2>1, <2>2, FS_Subset
  <2> QED BY <2>3, FS_CardinalityType
<1>2. C(k) \subseteq C(n) /\ k \in Nat
  OBVIOUS
<1>3. \A m \in Nat : /\ Len(Calls(chain, m, to)) = Cardinality(C(m))
                     /\ \A i \in 1 .. Cardinality(C(m)) : Calls(chain, m, to)[i] = to
  <2> SUFFICES ASSUME NEW m \in Nat
               PROVE  /\ Len(Calls(chain, m, to)) = Cardinality(C(m))
                      /\ \A i \in 1 .. Cardinality(C(m)) : Calls(chain, m, to)[i] = to
    OBVIOUS
  <2> DEFINE d == Cardinality(C(m))
  <2>1. Calls(chain, m, to) = [i \in 1 .. d |-> to] /\ d \in Nat
    BY <1>1 DEF Calls
  <2> HIDE DEF d
  <2>2. Len(Calls(chain, m, to)) = d /\ \A i \in 1 .. d : Calls(chain, m, to)[i] = to
    BY <2>1
  <2> QED BY <2>2 DEF d
<1> HIDE DEF C
<1>4. Cardinality(C(k)) <= Cardinality(C(n))
  BY <1>1, <1>2, FS_Subset
<1> QED BY <1>1, <1>2, <1>3, <1>4

-----------------------------------------------------------------------------
(* Runs of the handler                                                     *)

\* One element takes the handler from one of its places to another.
LEMMA AfterIsMark ==
    ASSUME NEW m \in Marks, NEW e \in AnyElem
    PROVE  After(m, e) \in Marks /\ Begins(m.out, After(m, e).out)
<1>1. m.rd \in Guids /\ m.out \in Seq(Whom) /\ m.rd.to \in Whom /\ All \in Whom /\ m.rd.count \in Nat
  BY DEF Marks, Guids, Whom
<1>2. ReaderAfter(m.rd, e) \in Guids
  <2>1. e.to \in Whom /\ e.count \in Nat
    BY DEF AnyElem
  <2>2. m.rd.count # 0 => m.rd.count - 1 \in Nat
    BY <1>1
  <2> QED BY <1>1, <2>1, <2>2 DEF ReaderAfter, Guids, Everybody
<1>3. OutAfter(m, e) \in Seq(Whom) /\ Begins(m.out, OutAfter(m, e))
  BY <1>1 DEF OutAfter, Begins
<1> QED BY <1>2, <1>3 DEF After, Marks

\* What begins the beginning begins the whole.
LEMMA BeginsTransitive ==
    ASSUME NEW p \in Seq(Whom), NEW q \in Seq(Whom), NEW r \in Seq(Whom), Begins(p, q), Begins(q, r)
    PROVE  Begins(p, r)
BY DEF Begins

\* Handling the first element is the first step of the run.
LEMMA RunTail ==
    ASSUME NEW s \in Seq(AnyElem), s # <<>>, NEW p, NEW q, NEW f, Run(f, s, p, q)
    PROVE  \E g : Run(g, Tail(s), After(p, Head(s)), q)
<1> DEFINE n == Len(s)
           t == Tail(s)
           g == [i \in 0 .. n - 1 |-> f[i + 1]]
<1>1. /\ n \in Nat /\ n >= 1 /\ Head(s) = s[1] /\ Len(t) = n - 1
      /\ \A i \in 1 .. n - 1 : t[i] = s[i + 1]
  OBVIOUS
<1>2. /\ f \in [0 .. n -> Marks] /\ f[0] = p /\ f[n] = q
      /\ \A i \in 1 .. n : f[i] = After(f[i - 1], s[i])
      /\ \A i \in 0 .. n : Begins(f[i].out, q.out)
  BY DEF Run
<1> HIDE DEF n, t
<1>3. g \in [0 .. n - 1 -> Marks]
  BY <1>1, <1>2
<1>4. g[0] = After(p, Head(s)) /\ g[n - 1] = q
  <2>1. 0 \in 0 .. n - 1 /\ n - 1 \in 0 .. n - 1 /\ 0 + 1 = 1 /\ (n - 1) + 1 = n /\ 1 \in 1 .. n /\ 1 - 1 = 0
    BY <1>1
  <2>2. g[0] = f[1] /\ g[n - 1] = f[n]
    BY <2>1
  <2> QED BY <1>1, <1>2, <2>1, <2>2
<1>5. ASSUME NEW i \in 1 .. n - 1 PROVE g[i] = After(g[i - 1], t[i])
  <2>1. i \in 0 .. n - 1 /\ i - 1 \in 0 .. n - 1 /\ i + 1 \in 1 .. n /\ (i + 1) - 1 = i /\ (i - 1) + 1 = i
    BY <1>1
  <2>2. g[i] = f[i + 1] /\ g[i - 1] = f[i]
    BY <2>1
  <2>3. f[i + 1] = After(f[i], s[i + 1])
    BY <1>2, <2>1
  <2> QED BY <1>1, <2>2, <2>3
<1>6. ASSUME NEW i \in 0 .. n - 1 PROVE Begins(g[i].out, q.out)
  BY <1>1, <1>2
<1> HIDE DEF g
<1> QED BY <1>1, <1>3, <1>4, <1>5, <1>6 DEF Run, t

\* One run after the other is one over all the elements.
LEMMA RunJoined ==
    ASSUME NEW s \in Seq(AnyElem), NEW t \in Seq(AnyElem), NEW p, NEW q, NEW r, NEW f, NEW g,
           Run(f, s, p, q), Run(g, t, q, r)
    PROVE  \E h : Run(h, s \o t, p, r)
<1> DEFINE n == Len(s)
           m == Len(t)
           u == s \o t
           h == [i \in 0 .. n + m |-> IF i <= n THEN f[i] ELSE g[i - n]]
<1>1. /\ n \in Nat /\ m \in Nat /\ Len(u) = n + m
      /\ \A i \in 1 .. n : u[i] = s[i]
      /\ \A i \in 1 .. m : u[n + i] = t[i]
  BY Joint
<1>2. /\ f \in [0 .. n -> Marks] /\ f[0] = p /\ f[n] = q
      /\ \A i \in 1 .. n : f[i] = After(f[i - 1], s[i])
      /\ \A i \in 0 .. n : Begins(f[i].out, q.out)
  BY DEF Run
<1>3. /\ g \in [0 .. m -> Marks] /\ g[0] = q /\ g[m] = r
      /\ \A i \in 1 .. m : g[i] = After(g[i - 1], t[i])
      /\ \A i \in 0 .. m : Begins(g[i].out, r.out)
  BY DEF Run
<1> HIDE DEF n, m, u
<1>4. \A i \in 0 .. n : h[i] = f[i]
  BY <1>1
<1>5. \A j \in 0 .. m : h[n + j] = g[j]
  <2> SUFFICES ASSUME NEW j \in 0 .. m PROVE h[n + j] = g[j]
    OBVIOUS
  <2>1. n + j \in 0 .. n + m /\ (n + j) - n = j
    BY <1>1
  <2>2. CASE j = 0
    BY <1>1, <1>2, <1>3, <2>1, <2>2
  <2>3. CASE j # 0
    <3>1. ~(n + j <= n)
      BY <1>1, <2>3
    <3> QED BY <2>1, <3>1
  <2> QED BY <2>2, <2>3
<1>6. \A i \in 0 .. n + m : i \in 0 .. n \/ \E j \in 1 .. m : i = n + j
  <2> SUFFICES ASSUME NEW i \in 0 .. n + m, i \notin 0 .. n PROVE \E j \in 1 .. m : i = n + j
    OBVIOUS
  <2>1. i - n \in 1 .. m /\ i = n + (i - n)
    BY <1>1
  <2> QED BY <2>1
<1>7. h \in [0 .. n + m -> Marks]
  <2>1. \A i \in 0 .. n + m : h[i] \in Marks
    BY <1>1, <1>2, <1>3, <1>4, <1>5, <1>6
  <2> QED BY <2>1
<1>8. h[0] = p /\ h[n + m] = r
  <2>1. 0 \in 0 .. n /\ m \in 0 .. m
    BY <1>1
  <2> QED BY <1>2, <1>3, <1>4, <1>5, <2>1
<1> HIDE DEF h
<1>9. ASSUME NEW i \in 1 .. n + m PROVE h[i] = After(h[i - 1], u[i])
  <2>1. CASE i \in 1 .. n
    <3>1. i \in 0 .. n /\ i - 1 \in 0 .. n
      BY <1>1, <2>1
    <3>2. h[i] = f[i] /\ h[i - 1] = f[i - 1] /\ u[i] = s[i]
      BY <1>1, <1>4, <2>1, <3>1
    <3> QED BY <1>2, <2>1, <3>2
  <2>2. ASSUME NEW j \in 1 .. m, i = n + j PROVE h[i] = After(h[i - 1], u[i])
    <3>1. j \in 0 .. m /\ j - 1 \in 0 .. m /\ i - 1 = n + (j - 1)
      BY <1>1, <2>2
    <3>2. h[i] = g[j] /\ h[i - 1] = g[j - 1] /\ u[i] = t[j]
      BY <1>1, <1>5, <2>2, <3>1
    <3> QED BY <1>3, <2>2, <3>2
  <2>3. i \in 1 .. n \/ \E j \in 1 .. m : i = n + j
    BY <1>1, <1>6
  <2> QED BY <2>1, <2>2, <2>3
<1>10. ASSUME NEW i \in 0 .. n + m PROVE Begins(h[i].out, r.out)
  <2>0. 0 \in 0 .. n /\ n \in 0 .. n /\ m \in 0 .. m
    BY <1>1
  <2>1. p \in Marks /\ q \in Marks /\ r \in Marks /\ h[i] \in Marks
    BY <1>2, <1>3, <1>7, <2>0
  <2>2. CASE i \in 0 .. n
    <3>1. Begins(h[i].out, q.out) /\ Begins(q.out, r.out)
      <4>1. 0 \in 0 .. m
        BY <1>1
      <4> QED BY <1>2, <1>3, <1>4, <2>2, <4>1
    <3> QED BY <2>1, <3>1, BeginsTransitive DEF Marks
  <2>3. ASSUME NEW j \in 1 .. m, i = n + j PROVE Begins(h[i].out, r.out)
    <3>1. j \in 0 .. m
      BY <1>1
    <3> QED BY <1>3, <1>5, <2>3, <3>1
  <2> QED BY <1>6, <2>2, <2>3
<1> QED BY <1>1, <1>7, <1>8, <1>9, <1>10 DEF Run, u

\* The run over a chain whose elements are all for one reader, wherever its count stands.
LEMMA RunOfChain ==
    ASSUME NEW chain \in Seq({Elem("data"), Elem("gap")}), NEW to \in Whom, NEW out \in Seq(Whom),
           NEW rd \in [0 .. Len(chain) -> Guids],
           \A i \in 1 .. Len(chain) : rd[i - 1].to = to /\ rd[i] = ReaderAfter(rd[i - 1], chain[i])
    PROVE  \E f : Run(f, chain, [rd |-> rd[0], out |-> out],
                      [rd |-> rd[Len(chain)], out |-> out \o Calls(chain, Len(chain), to)])
<1> DEFINE n == Len(chain)
           c(i) == Calls(chain, i, to)
           f == [i \in 0 .. n |-> [rd |-> rd[i], out |-> out \o c(i)]]
<1>1. n \in Nat /\ \A i \in 1 .. n : chain[i] = Elem("data") \/ chain[i] = Elem("gap")
  OBVIOUS
<1>2. \A i \in 0 .. n : c(i) \in Seq(Whom) /\ out \o c(i) \in Seq(Whom)
  <2> SUFFICES ASSUME NEW i \in 0 .. n PROVE c(i) \in Seq(Whom) /\ out \o c(i) \in Seq(Whom)
    OBVIOUS
  <2>1. i \in Nat
    BY <1>1
  <2>2. c(i) \in Seq(Whom)
    BY <2>1, CallsStep
  <2> HIDE DEF c
  <2> QED BY <2>2, Joint
<1>3. out \o c(0) = out
  <2>1. c(0) = <<>>
    BY CallsStep
  <2> HIDE DEF c
  <2> QED BY <2>1
<1>4. ASSUME NEW i \in 1 .. n
      PROVE  out \o c(i) = OutAfter([rd |-> rd[i - 1], out |-> out \o c(i - 1)], chain[i])
  <2>1. i - 1 \in Nat /\ (i - 1) + 1 = i /\ i - 1 \in 0 .. n
    BY <1>1
  <2>2. c(i) = IF chain[i].kind # "gap" THEN Append(c(i - 1), to) ELSE c(i - 1)
    BY <2>1, CallsStep
  <2>3. c(i - 1) \in Seq(Whom) /\ rd[i - 1].to = to
    BY <1>2, <2>1
  <2> HIDE DEF c
  <2>4. CASE chain[i] = Elem("data")
    <3>1. chain[i].kind = "data"
      BY <2>4 DEF Elem
    <3> DEFINE d == c(i - 1)
    <3>2. out \o Append(d, to) = Append(out \o d, to)
      <4>1. d \in Seq(Whom)
        BY <2>3
      <4> HIDE DEF d
      <4> QED BY <4>1
    <3> QED BY <2>2, <2>3, <3>1, <3>2 DEF OutAfter
  <2>5. CASE chain[i] = Elem("gap")
    <3>1. chain[i].kind = "gap"
      BY <2>5 DEF Elem
    <3> QED BY <2>2, <3>1 DEF OutAfter
  <2> QED BY <1>1, <2>4, <2>5
<1>5. \A i \in 0 .. n : Begins(out \o c(i), out \o c(n))
  <2> SUFFICES ASSUME NEW i \in 0 .. n PROVE Begins(out \o c(i), out \o c(n))
    OBVIOUS
  <2>1. /\ Len(c(i)) \in Nat /\ Len(c(i)) <= Len(c(n)) /\ Len(c(n)) \in Nat
        /\ \A k \in 1 .. Len(c(i)) : c(i)[k] = to
        /\ \A k \in 1 .. Len(c(n)) : c(n)[k] = to
    <3>1. n \in Nat /\ n \in 0 .. n
      BY <1>1
    <3> HIDE DEF n
    <3>2. /\ Len(Calls(chain, i, to)) \in Nat
          /\ Len(Calls(chain, i, to)) <= Len(Calls(chain, n, to))
          /\ \A k \in 1 .. Len(Calls(chain, i, to)) : Calls(chain, i, to)[k] = to
      BY <3>1, CallsGrow, ZenonT(60)
    <3>3. /\ Len(Calls(chain, n, to)) \in Nat
          /\ \A k \in 1 .. Len(Calls(chain, n, to)) : Calls(chain, n, to)[k] = to
      BY <3>1, CallsGrow, ZenonT(60)
    <3> QED BY <3>2, <3>3
  <2>2. c(i) \in Seq(Whom) /\ c(n) \in Seq(Whom)
    <3>1. n \in 0 .. n
      BY <1>1
    <3> QED BY <1>2, <3>1
  <2> DEFINE p == c(i)
             q == c(n)
  <2>3. Begins(out \o p, out \o q)
    <3>1. /\ p \in Seq(Whom) /\ q \in Seq(Whom) /\ Len(p) <= Len(q)
          /\ \A k \in 1 .. Len(p) : p[k] = q[k]
      BY <2>1, <2>2
    <3> HIDE DEF p, q
    <3>2. Len(out \o p) <= Len(out \o q)
      BY <3>1, Joint
    <3>3. \A k \in 1 .. Len(out \o p) : (out \o p)[k] = (out \o q)[k]
      BY <3>1
    <3> QED BY <3>2, <3>3 DEF Begins
  <2> QED BY <2>3
<1> HIDE DEF c, n
<1>6. f \in [0 .. n -> Marks]
  BY <1>2 DEF Marks, n
<1>7. f[0] = [rd |-> rd[0], out |-> out] /\ f[n] = [rd |-> rd[n], out |-> out \o c(n)]
  <2>1. n \in Nat
    BY DEF n
  <2>2. 0 \in 0 .. n /\ n \in 0 .. n
    BY <2>1
  <2>3. f[0] = [rd |-> rd[0], out |-> out \o c(0)] /\ f[n] = [rd |-> rd[n], out |-> out \o c(n)]
    BY <2>2
  <2> HIDE DEF f
  <2> QED BY <1>3, <2>3
<1>8. ASSUME NEW i \in 1 .. n PROVE f[i] = After(f[i - 1], chain[i])
  <2>1. i \in 0 .. n /\ i - 1 \in 0 .. n
    BY <1>1
  <2>2. f[i] = [rd |-> rd[i], out |-> out \o c(i)] /\ f[i - 1] = [rd |-> rd[i - 1], out |-> out \o c(i - 1)]
    BY <2>1
  <2>3. rd[i] = ReaderAfter(rd[i - 1], chain[i])
    BY DEF n
  <2> DEFINE m == [rd |-> rd[i - 1], out |-> out \o c(i - 1)]
  <2>4. m.rd = rd[i - 1]
    OBVIOUS
  <2>5. f[i - 1] = m /\ out \o c(i) = OutAfter(m, chain[i])
    BY <1>4, <2>2
  <2> HIDE DEF f, m
  <2>6. f[i] = [rd |-> ReaderAfter(m.rd, chain[i]), out |-> OutAfter(m, chain[i])]
    BY <2>2, <2>3, <2>4, <2>5
  <2> QED BY <2>5, <2>6 DEF After
<1>9. \A i \in 0 .. n : Begins(f[i].out, out \o c(n))
  BY <1>5
<1> HIDE DEF f
<1>10. Run(f, chain, [rd |-> rd[0], out |-> out], [rd |-> rd[n], out |-> out \o c(n)])
  BY <1>6, <1>7, <1>8, <1>9 DEF Run, n
<1> QED BY <1>10 DEF n, c

\* A single element makes a run of one step.
LEMMA RunOfOne ==
    ASSUME NEW e \in AnyElem, NEW m \in Marks PROVE \E f : Run(f, <<e>>, m, After(m, e))
<1> DEFINE f == [i \in 0 .. 1 |-> IF i = 0 THEN m ELSE After(m, e)]
<1>1. After(m, e) \in Marks /\ Begins(m.out, After(m, e).out)
  BY AfterIsMark
<1>2. Begins(After(m, e).out, After(m, e).out)
  BY <1>1 DEF Begins, Marks
<1> DEFINE s == <<e>>
<1>3. Len(s) = 1 /\ s[1] = e
  OBVIOUS
<1>4. f \in [0 .. 1 -> Marks] /\ f[0] = m /\ f[1] = After(m, e)
  BY <1>1
<1> HIDE DEF f, s
<1>5. \A i \in 1 .. 1 : f[i] = After(f[i - 1], s[i])
  BY <1>3, <1>4
<1>6. \A i \in 0 .. 1 : Begins(f[i].out, After(m, e).out)
  BY <1>1, <1>2, <1>4
<1>7. Run(f, s, m, After(m, e))
  BY <1>3, <1>4, <1>5, <1>6 DEF Run
<1> QED BY <1>7 DEF s

\* The elements of a chain.
LEMMA ChainElems ==
    ASSUME NEW chain \in Chains
    PROVE  /\ chain \in Seq({Elem("data"), Elem("gap")}) /\ chain \in Seq(AnyElem)
           /\ Len(chain) \in Nat /\ Len(chain) > 0
           /\ \A i \in 1 .. Len(chain) : chain[i].kind \in {"data", "gap"}
<1>1. PICK n \in 1 .. MaxChain : chain \in [1 .. n -> {Elem("data"), Elem("gap")}]
  BY DEF Chains
<1>2. n \in Nat /\ n > 0
  OBVIOUS
<1>3. chain \in Seq({Elem("data"), Elem("gap")}) /\ Len(chain) = n
  BY <1>1, <1>2
<1>4. Elem("data") \in AnyElem /\ Elem("gap") \in AnyElem
  BY DEF Elem, AnyElem, Kinds, Whom
<1>5. \A i \in 1 .. n : chain[i] \in AnyElem /\ chain[i].kind \in {"data", "gap"}
  BY <1>1, <1>4 DEF Elem
<1> QED BY <1>2, <1>3, <1>5

\* After a chain for all readers, the next elements are for all readers again.
LEMMA ChainForAll ==
    ASSUME NEW chain \in Chains, NEW out \in Seq(Whom)
    PROVE  \E f : Run(f, chain, [rd |-> Everybody, out |-> out],
                      [rd |-> Everybody, out |-> out \o Calls(chain, Len(chain), All)])
<1> DEFINE n == Len(chain)
           rd == [i \in 0 .. n |-> Everybody]
<1>1. /\ chain \in Seq({Elem("data"), Elem("gap")}) /\ n \in Nat
      /\ \A i \in 1 .. n : chain[i].kind \in {"data", "gap"}
  BY ChainElems
<1>2. Everybody \in Guids /\ All \in Whom
  BY DEF Everybody, Guids, Whom
<1> HIDE DEF n
<1>3. rd \in [0 .. n -> Guids] /\ rd[0] = Everybody /\ rd[n] = Everybody
  BY <1>1, <1>2
<1>4. \A i \in 1 .. n : rd[i - 1].to = All /\ rd[i] = ReaderAfter(rd[i - 1], chain[i])
  <2> SUFFICES ASSUME NEW i \in 1 .. n
               PROVE  rd[i - 1].to = All /\ rd[i] = ReaderAfter(rd[i - 1], chain[i])
    OBVIOUS
  <2>1. rd[i - 1] = Everybody /\ rd[i] = Everybody
    BY <1>1
  <2>2. Everybody.to = All /\ Everybody.count = 0
    BY DEF Everybody
  <2>3. ReaderAfter(Everybody, chain[i]) = Everybody
    BY <1>1, <2>2 DEF ReaderAfter
  <2> QED BY <2>1, <2>2, <2>3
<1> HIDE DEF rd
<1>5. \E f : Run(f, chain, [rd |-> rd[0], out |-> out],
                 [rd |-> rd[n], out |-> out \o Calls(chain, n, All)])
  BY <1>1, <1>2, <1>3, <1>4, RunOfChain DEF n
<1> QED BY <1>3, <1>5 DEF n

\* A bubble that counts the elements of the chain behind it makes them be for its reader,
\* and what comes after them for all readers again.
LEMMA ChainForOne ==
    ASSUME NEW chain \in Chains, NEW to \in Readers, NEW out \in Seq(Whom)
    PROVE  \E f : Run(f, <<Bubble(to, Len(chain))>> \o chain, [rd |-> Everybody, out |-> out],
                      [rd |-> Everybody, out |-> out \o Calls(chain, Len(chain), to)])
<1> DEFINE n == Len(chain)
           rd == [i \in 0 .. n |-> IF i = n THEN Everybody ELSE [to |-> to, count |-> n - i]]
           b == Bubble(to, n)
           p == [rd |-> Everybody, out |-> out]
           q == [rd |-> [to |-> to, count |-> n], out |-> out]
<1>1. /\ chain \in Seq({Elem("data"), Elem("gap")}) /\ chain \in Seq(AnyElem)
      /\ n \in Nat /\ n > 0
      /\ \A i \in 1 .. n : chain[i].kind \in {"data", "gap"}
  BY ChainElems
<1>2. Everybody \in Guids /\ to \in Whom /\ b \in AnyElem /\ p \in Marks
  BY <1>1 DEF Everybody, Guids, Whom, AnyElem, Bubble, Marks
<1>3. After(p, b) = q
  BY DEF After, ReaderAfter, OutAfter, Bubble
<1>4. \E f : Run(f, <<b>>, p, q)
  BY <1>2, <1>3, RunOfOne
<1> HIDE DEF n
<1>5. rd \in [0 .. n -> Guids] /\ rd[0] = [to |-> to, count |-> n] /\ rd[n] = Everybody
  BY <1>1, <1>2 DEF Guids
<1>6. \A i \in 1 .. n : rd[i - 1].to = to /\ rd[i] = ReaderAfter(rd[i - 1], chain[i])
  <2> SUFFICES ASSUME NEW i \in 1 .. n
               PROVE  rd[i - 1].to = to /\ rd[i] = ReaderAfter(rd[i - 1], chain[i])
    OBVIOUS
  <2>1. i - 1 \in 0 .. n /\ i \in 0 .. n /\ i - 1 # n /\ n - (i - 1) # 0
        /\ (n - (i - 1) = 1 <=> i = n) /\ n - (i - 1) - 1 = n - i
    BY <1>1
  <2>2. rd[i - 1] = [to |-> to, count |-> n - (i - 1)]
    BY <2>1
  <2>3. rd[i] = IF i = n THEN Everybody ELSE [to |-> to, count |-> n - i]
    BY <2>1
  <2>4. chain[i].kind # "rdguid" /\ chain[i].kind \in {"data", "gap"}
    BY <1>1
  <2> HIDE DEF rd
  <2>5. rd[i - 1].to = to /\ rd[i - 1].count = n - (i - 1)
    BY <2>2
  <2> QED BY <2>1, <2>3, <2>4, <2>5 DEF ReaderAfter
<1> HIDE DEF rd, b, p
<1>7. \E f : Run(f, chain, q, [rd |-> Everybody, out |-> out \o Calls(chain, n, to)])
  <2>1. \E f : Run(f, chain, [rd |-> rd[0], out |-> out],
                   [rd |-> rd[n], out |-> out \o Calls(chain, n, to)])
    BY <1>1, <1>2, <1>5, <1>6, RunOfChain DEF n
  <2> QED BY <1>5, <2>1
<1>8. <<b>> \in Seq(AnyElem)
  BY <1>2
<1> HIDE DEF q
<1>9. \E f : Run(f, <<b>> \o chain, p, [rd |-> Everybody, out |-> out \o Calls(chain, n, to)])
  BY <1>1, <1>4, <1>7, <1>8, RunJoined
<1> QED BY <1>9 DEF b, p, n

-----------------------------------------------------------------------------
(* The invariant *)

\* At first there is nothing to handle and nothing was enqueued.
LEMMA InitInv ==
    ASSUME "dq" \notin Recv, Init PROVE Inv
<1>1. Types
  BY DEF Init, Types, Guids, Whom, Threads
<1>2. Rest = <<>> /\ Here = Goal /\ Goal = [rd |-> Everybody, out |-> <<>>]
  BY DEF Init, Rest, Here, Goal, Everybody
<1>3. Promise
  <2> DEFINE m == [rd |-> Everybody, out |-> <<>>]
             f == [i \in 0 .. 0 |-> m]
  <2>1. m \in Marks
    BY DEF Marks, Guids, Everybody, Whom
  <2>2. Begins(m.out, m.out)
    BY DEF Begins
  <2>3. f \in [0 .. 0 -> Marks] /\ f[0] = m
    BY <2>1
  <2> HIDE DEF f, m
  <2> DEFINE s == <<>>
  <2>4. Len(s) = 0
    OBVIOUS
  <2> HIDE DEF s
  <2>5. Run(f, s, m, m)
    BY <2>2, <2>3, <2>4 DEF Run
  <2> QED BY <1>2, <2>5 DEF Promise, m, s
<1>4. Counts
  BY DEF Init, Counts, Threads
<1>5. Stopping
  BY <1>2 DEF Init, Stopping, Threads
<1> QED BY <1>1, <1>3, <1>4, <1>5 DEF Inv

\* What a chain appended to the queue does to it, to its count and to the thread that may
\* wait for it.
LEMMA AppendStep ==
    ASSUME Inv, NEW chain \in Seq(AnyElem), chain # <<>>, Append1(chain),
           \E g : Run(g, chain, Goal, [rd |-> Everybody, out |-> enqueued']),
           enqueued' \in Seq(Whom), UNCHANGED <<mine, rdguid, handled>>,
           at' \in [Threads -> {"idle", "isfull", "check", "wait", "look", "woken", "next", "handle", "gone"}],
           at'["dq"] = at["dq"], keepgoing' = keepgoing
    PROVE  Types' /\ Promise' /\ Counts' /\ Rest' = Rest \o chain /\ Rest \in Seq(AnyElem)
<1> USE DEF Inv
<1>1. /\ sc \in Seq(AnyElem) /\ mine \in Seq(AnyElem)
      /\ sc' = sc \o chain /\ sc' \in Seq(AnyElem) /\ Len(sc') = Len(sc) + Len(chain) /\ sc' # <<>>
      /\ Len(chain) \in Nat /\ Len(sc) \in Nat
  BY DEF Types, Append1
<1>2. Types'
  BY <1>1 DEF Types, Append1
<1>3. Rest \in Seq(AnyElem) /\ Rest' = Rest \o chain
  <2>1. mine \o (sc \o chain) = (mine \o sc) \o chain
    BY <1>1, SMTT(30)
  <2> QED BY <1>1, <2>1 DEF Rest
<1>4. Promise'
  <2> DEFINE q == [rd |-> Everybody, out |-> enqueued']
  <2>1. PICK f : Run(f, Rest, Here, Goal)
    BY DEF Promise
  <2>2. PICK g : Run(g, chain, Goal, q)
    OBVIOUS
  <2>3. Here' = Here /\ Goal' = q
    BY DEF Here, Goal
  <2> HIDE DEF q
  <2>4. \E h : Run(h, Rest \o chain, Here, q)
    BY <1>3, <2>1, <2>2, RunJoined
  <2>5. PICK h : Run(h, Rest \o chain, Here, q)
    BY <2>4
  <2>6. Run(h, Rest', Here', Goal')
    BY <1>3, <2>3, <2>5
  <2> QED BY <2>6 DEF Promise, Run
<1>5. Counts'
  <2>1. nof' = Len(sc') + Len(mine') - (IF at'["dq"] = "handle" THEN 1 ELSE 0)
    <3>1. Len(mine) \in Nat /\ nof' = nof + Len(chain) /\ nof \in Int
      BY <1>1 DEF Types, Append1
    <3> QED BY <1>1, <3>1 DEF Counts
  <2>2. "dq" \notin waiting'
    <3>1. CASE sc = <<>>
      BY <3>1 DEF Append1
    <3>2. CASE sc # <<>>
      BY <3>2 DEF Append1, Counts
    <3> QED BY <3>1, <3>2
  <2> QED BY <2>1, <2>2 DEF Counts
<1> QED BY <1>2, <1>3, <1>4, <1>5

\* While a receive thread is not gone, nobody has asked the queue to stop.
LEMMA NotStopped ==
    ASSUME Stopping, NEW r \in Recv, at[r] # "gone"
    PROVE  /\ keepgoing
           /\ \A i \in 1 .. Len(Rest) : Rest[i].kind # "stop"
           /\ at["dq"] # "gone"
BY DEF Stopping

\* A chain of samples, gaps, bubbles and callbacks leaves the queue running.
LEMMA StillRunning ==
    ASSUME NEW r \in Recv, at[r] # "gone", Stopping, Types, "dq" \notin Recv,
           NEW chain \in Seq(AnyElem), \A i \in 1 .. Len(chain) : chain[i].kind # "stop",
           Rest \in Seq(AnyElem), Rest' = Rest \o chain, keepgoing' = keepgoing,
           at'["dq"] = at["dq"]
    PROVE  Stopping'
<1>1. /\ keepgoing /\ at["dq"] # "gone"
      /\ \A i \in 1 .. Len(Rest) : Rest[i].kind # "stop"
  BY NotStopped
<1>2. \A i \in 1 .. Len(Rest') : Rest'[i].kind # "stop"
  <2> DEFINE s == Rest
             u == s \o chain
  <2>1. s \in Seq(AnyElem) /\ \A i \in 1 .. Len(s) : s[i].kind # "stop"
    BY <1>1
  <2> HIDE DEF s
  <2>2. ASSUME NEW i \in 1 .. Len(u) PROVE u[i].kind # "stop"
    <3>1. /\ Len(u) = Len(s) + Len(chain) /\ Len(s) \in Nat /\ Len(chain) \in Nat
          /\ \A k \in 1 .. Len(s) : u[k] = s[k]
          /\ \A k \in 1 .. Len(chain) : u[Len(s) + k] = chain[k]
      BY <2>1, Joint
    <3>2. CASE i \in 1 .. Len(s)
      BY <2>1, <3>1, <3>2
    <3>3. CASE i \notin 1 .. Len(s)
      <4>1. i - Len(s) \in 1 .. Len(chain) /\ i = Len(s) + (i - Len(s))
        BY <3>1, <3>3
      <4> QED BY <3>1, <4>1
    <3> QED BY <3>2, <3>3
  <2> QED BY <2>2 DEF s
<1> QED BY <1>1, <1>2 DEF Stopping

\* A receive thread enqueues for all readers, or a callback.
LEMMA EnqueueStep ==
    ASSUME "dq" \notin Recv, Inv, NEW r \in Recv,
           NEW chain \in Chains \cup {<<Elem("callback")>>}, Enqueue(r, chain)
    PROVE  Inv'
<1>1. /\ at[r] = "idle" /\ Append1(chain) /\ UNCHANGED <<mine, rdguid, keepgoing, handled>>
      /\ enqueued' = enqueued \o Calls(chain, Len(chain), All)
      /\ at' = [at EXCEPT ![r] = "isfull"]
  BY DEF Enqueue
<1>2. Types /\ Stopping /\ enqueued \in Seq(Whom)
  BY DEF Inv, Types
<1>3. /\ at' \in [Threads -> {"idle", "isfull", "check", "wait", "look", "woken", "next", "handle", "gone"}]
      /\ at'["dq"] = at["dq"]
  BY <1>1, <1>2 DEF Types, Threads
<1>4. /\ chain \in Seq(AnyElem) /\ chain # <<>> /\ Len(chain) \in Nat
      /\ \A i \in 1 .. Len(chain) : chain[i].kind # "stop"
      /\ \E g : Run(g, chain, Goal, [rd |-> Everybody, out |-> enqueued'])
  <2>1. CASE chain \in Chains
    <3>1. /\ chain \in Seq(AnyElem) /\ Len(chain) \in Nat /\ Len(chain) > 0
          /\ \A i \in 1 .. Len(chain) : chain[i].kind \in {"data", "gap"}
      BY <2>1, ChainElems
    <3>2. \E g : Run(g, chain, [rd |-> Everybody, out |-> enqueued],
                     [rd |-> Everybody, out |-> enqueued \o Calls(chain, Len(chain), All)])
      BY <1>2, <2>1, ChainForAll
    <3>3. \E g : Run(g, chain, Goal, [rd |-> Everybody, out |-> enqueued'])
      BY <1>1, <3>2 DEF Goal
    <3>4. chain # <<>> /\ \A i \in 1 .. Len(chain) : chain[i].kind # "stop"
      BY <3>1
    <3> QED BY <3>1, <3>3, <3>4
  <2>2. CASE chain = <<Elem("callback")>>
    <3> DEFINE e == Elem("callback")
    <3>1. e \in AnyElem /\ e.kind = "callback"
      BY DEF Elem, AnyElem, Kinds, Whom
    <3>2. Goal \in Marks /\ Goal.out = enqueued /\ Goal.rd = Everybody
      BY <1>2 DEF Goal, Marks, Guids, Everybody, Whom
    <3>3. Calls(chain, 1, All) = <<All>>
      <4>1. 0 \in Nat /\ All \in Whom /\ 0 + 1 = 1
        BY DEF Whom
      <4>2. chain[0 + 1].kind # "gap"
        BY <2>2 DEF Elem
      <4>3. Calls(chain, 0, All) = <<>> /\ Calls(chain, 0 + 1, All) = Append(Calls(chain, 0, All), All)
        BY <4>1, <4>2, CallsStep
      <4>4. Append(<<>>, All) = <<All>>
        OBVIOUS
      <4>5. Calls(chain, 1, All) = Append(Calls(chain, 0, All), All)
        BY <4>1, <4>3
      <4> QED BY <4>3, <4>4, <4>5
    <3> HIDE DEF e
    <3>4. After(Goal, e) = [rd |-> Everybody, out |-> Append(enqueued, All)]
      BY <3>1, <3>2 DEF After, ReaderAfter, OutAfter
    <3>5. enqueued' = Append(enqueued, All)
      <4>1. Len(chain) = 1
        BY <2>2
      <4>2. enqueued' = enqueued \o <<All>>
        BY <1>1, <3>3, <4>1
      <4> QED BY <1>2, <4>2
    <3>6. \E g : Run(g, <<e>>, Goal, After(Goal, e))
      BY <3>1, <3>2, RunOfOne
    <3>7. chain = <<e>>
      BY <2>2 DEF e
    <3> QED BY <3>1, <3>4, <3>5, <3>6, <3>7
  <2> QED BY <2>1, <2>2
<1>5. enqueued' \in Seq(Whom)
  <2>1. Calls(chain, Len(chain), All) \in Seq(Whom)
    BY <1>4, CallsStep DEF Whom
  <2> QED BY <1>1, <1>2, <2>1
<1>6. Types' /\ Promise' /\ Counts' /\ Rest' = Rest \o chain /\ Rest \in Seq(AnyElem)
  BY <1>1, <1>3, <1>4, <1>5, AppendStep
<1>7. Stopping'
  BY <1>1, <1>2, <1>3, <1>4, <1>6, StillRunning
<1> QED BY <1>6, <1>7 DEF Inv

\* A receive thread enqueues for one reader.
LEMMA Enqueue1Step ==
    ASSUME "dq" \notin Recv, Inv, NEW r \in Recv, NEW to \in Readers, NEW chain \in Chains,
           Enqueue1(r, to, chain)
    PROVE  Inv'
<1> DEFINE b == Bubble(to, Len(chain))
           both == <<b>> \o chain
<1>1. /\ at[r] = "idle" /\ Append1(both) /\ UNCHANGED <<mine, rdguid, keepgoing, handled>>
      /\ enqueued' = enqueued \o Calls(chain, Len(chain), to)
      /\ at' = [at EXCEPT ![r] = "isfull"]
  BY DEF Enqueue1
<1>2. Types /\ Stopping /\ enqueued \in Seq(Whom)
  BY DEF Inv, Types
<1>3. /\ at' \in [Threads -> {"idle", "isfull", "check", "wait", "look", "woken", "next", "handle", "gone"}]
      /\ at'["dq"] = at["dq"]
  BY <1>1, <1>2 DEF Types, Threads
<1>4. /\ chain \in Seq(AnyElem) /\ Len(chain) \in Nat /\ Len(chain) > 0
      /\ \A i \in 1 .. Len(chain) : chain[i].kind \in {"data", "gap"}
  BY ChainElems
<1>5. \E g : Run(g, both, Goal, [rd |-> Everybody, out |-> enqueued'])
  BY <1>1, <1>2, ChainForOne DEF Goal
<1>6. both \in Seq(AnyElem) /\ both # <<>> /\ \A i \in 1 .. Len(both) : both[i].kind # "stop"
  <2>1. b \in AnyElem /\ b.kind = "rdguid"
    BY <1>4 DEF Bubble, AnyElem, Whom
  <2> HIDE DEF b
  <2>2. /\ <<b>> \in Seq(AnyElem) /\ Len(<<b>>) = 1 /\ <<b>>[1] = b
    BY <2>1
  <2> DEFINE s == <<b>>
  <2>5. both = s \o chain
    OBVIOUS
  <2> HIDE DEF s, both
  <2>3. /\ s \o chain \in Seq(AnyElem) /\ Len(s \o chain) = 1 + Len(chain)
        /\ (s \o chain)[1] = b
        /\ \A i \in 1 .. Len(chain) : (s \o chain)[1 + i] = chain[i]
    <3>1. s \in Seq(AnyElem) /\ Len(s) = 1 /\ s[1] = b
      BY <2>2 DEF s
    <3> DEFINE c == chain
    <3>2. c \in Seq(AnyElem)
      BY <1>4
    <3> HIDE DEF c
    <3>4. /\ s \o c \in Seq(AnyElem) /\ Len(s \o c) = Len(s) + Len(c)
          /\ \A i \in 1 .. Len(s) : (s \o c)[i] = s[i]
          /\ \A i \in 1 .. Len(c) : (s \o c)[Len(s) + i] = c[i]
      BY <3>1, <3>2, Joint, SMTT(30)
    <3> USE DEF c
    <3>3. (s \o chain)[1] = b
      BY <3>1, <3>4
    <3> QED BY <3>1, <3>3, <3>4
  <2>4. \A i \in 1 .. Len(s \o chain) : (s \o chain)[i].kind # "stop"
    <3> SUFFICES ASSUME NEW i \in 1 .. 1 + Len(chain) PROVE (s \o chain)[i].kind # "stop"
      BY <2>3
    <3>1. CASE i = 1
      BY <2>1, <2>3, <3>1
    <3>2. CASE i # 1
      <4>1. i - 1 \in 1 .. Len(chain) /\ 1 + (i - 1) = i
        BY <1>4, <3>2
      <4>2. (s \o chain)[i] = chain[i - 1]
        BY <2>3, <4>1
      <4> QED BY <1>4, <4>1, <4>2
    <3> QED BY <3>1, <3>2
  <2> QED BY <1>4, <2>3, <2>4, <2>5
<1>7. enqueued' \in Seq(Whom)
  <2>1. Calls(chain, Len(chain), to) \in Seq(Whom)
    BY <1>4, CallsStep DEF Whom
  <2> QED BY <1>1, <1>2, <2>1
<1> HIDE DEF both
<1>8. Types' /\ Promise' /\ Counts' /\ Rest' = Rest \o both /\ Rest \in Seq(AnyElem)
  BY <1>1, <1>3, <1>5, <1>6, <1>7, AppendStep
<1>9. Stopping'
  BY <1>1, <1>2, <1>3, <1>6, <1>8, StillRunning
<1> QED BY <1>8, <1>9 DEF Inv

\* When all receive threads are done, the queue is asked to stop, once, behind all else.
LEMMA FreeStep ==
    ASSUME "dq" \notin Recv, Recv # {}, Inv, Free PROVE Inv'
<1> DEFINE e == Elem("stop")
           chain == <<e>>
<1>1. PICK r \in Recv : at[r] = "idle"
  BY DEF Free
<1>2. /\ Append1(chain) /\ UNCHANGED <<mine, rdguid, keepgoing, enqueued, handled>>
      /\ at' = [t \in Threads |-> IF t \in Recv THEN "gone" ELSE at[t]]
  BY DEF Free
<1>3. Types /\ Stopping /\ enqueued \in Seq(Whom)
  BY DEF Inv, Types
<1>4. /\ at' \in [Threads -> {"idle", "isfull", "check", "wait", "look", "woken", "next", "handle", "gone"}]
      /\ at'["dq"] = at["dq"] /\ \A t \in Recv : at'[t] = "gone"
  BY <1>2, <1>3 DEF Types, Threads
<1>5. e \in AnyElem /\ e.kind = "stop"
  BY DEF Elem, AnyElem, Whom
<1> HIDE DEF e
<1>6. chain \in Seq(AnyElem) /\ chain # <<>> /\ Len(chain) = 1 /\ chain[1] = e
  BY <1>5
<1>7. \E g : Run(g, chain, Goal, [rd |-> Everybody, out |-> enqueued'])
  <2>1. Goal \in Marks /\ Goal.out = enqueued /\ Goal.rd = Everybody
    BY <1>3 DEF Goal, Marks, Guids, Everybody, Whom
  <2>2. After(Goal, e) = [rd |-> Everybody, out |-> enqueued]
    BY <1>5, <2>1 DEF After, ReaderAfter, OutAfter
  <2> QED BY <1>2, <1>5, <2>1, <2>2, RunOfOne
<1> HIDE DEF chain
<1>8. Types' /\ Promise' /\ Counts' /\ Rest' = Rest \o chain /\ Rest \in Seq(AnyElem)
  <2>1. enqueued' \in Seq(Whom)
    BY <1>2, <1>3
  <2> QED BY <1>2, <1>4, <1>6, <1>7, <2>1, AppendStep
<1>9. /\ keepgoing /\ at["dq"] # "gone"
      /\ \A i \in 1 .. Len(Rest) : Rest[i].kind # "stop"
  BY <1>1, <1>3, NotStopped
<1>10. Stopping'
  <2>1. \A i \in 1 .. Len(Rest') : Rest'[i].kind = "stop" => i = Len(Rest')
    <3> DEFINE s == Rest
    <3>1. s \in Seq(AnyElem) /\ Rest' = s \o chain /\ \A i \in 1 .. Len(s) : s[i].kind # "stop"
      BY <1>8, <1>9
    <3> HIDE DEF s
    <3>2. /\ Len(s \o chain) = Len(s) + 1 /\ Len(s) \in Nat
          /\ \A k \in 1 .. Len(s) : (s \o chain)[k] = s[k]
      <4>1. /\ Len(s \o chain) = Len(s) + Len(chain) /\ Len(s) \in Nat
            /\ \A k \in 1 .. Len(s) : (s \o chain)[k] = s[k]
        BY <1>6, <3>1, Joint, SMTT(30)
      <4> QED BY <1>6, <4>1
    <3>3. ASSUME NEW i \in 1 .. Len(s \o chain), (s \o chain)[i].kind = "stop"
          PROVE  i = Len(s \o chain)
      <4>1. i \notin 1 .. Len(s)
        BY <3>1, <3>2, <3>3
      <4> QED BY <3>2, <4>1
    <3> QED BY <3>1, <3>3
  <2> QED BY <1>2, <1>4, <1>9, <2>1 DEF Stopping
<1> QED BY <1>8, <1>10 DEF Inv

\* A receive thread waits until the queue is empty; it is not the thread of the queue.
LEMMA WaitStep ==
    ASSUME "dq" \notin Recv, Inv, NEW r \in Recv, IsFull(r) \/ CheckEmpty(r) \/ Wait(r)
    PROVE  Inv'
<1>1. /\ UNCHANGED <<sc, mine, nof, rdguid, keepgoing, enqueued, handled>>
      /\ "dq" \in waiting' => "dq" \in waiting
      /\ at[r] \in {"isfull", "check", "wait"}
      /\ \E a \in {"idle", "check", "wait"} : at' = [at EXCEPT ![r] = a]
  BY DEF IsFull, CheckEmpty, Wait
<1>2. Types /\ Promise /\ Counts /\ Stopping
  BY DEF Inv
<1>3. /\ at' \in [Threads -> {"idle", "isfull", "check", "wait", "look", "woken", "next", "handle", "gone"}]
      /\ at'["dq"] = at["dq"]
  BY <1>1, <1>2 DEF Types, Threads
<1>4. Rest' = Rest /\ Here' = Here /\ Goal' = Goal
  BY <1>1 DEF Rest, Here, Goal
<1>5. Types'
  BY <1>1, <1>2, <1>3 DEF Types
<1>6. Promise'
  BY <1>2, <1>4 DEF Promise, Run
<1>7. Counts'
  BY <1>1, <1>2, <1>3 DEF Counts
<1>8. Stopping'
  <2>1. at[r] # "gone"
    BY <1>1
  <2>2. /\ keepgoing /\ at["dq"] # "gone"
        /\ \A i \in 1 .. Len(Rest) : Rest[i].kind # "stop"
    BY <1>2, <2>1, NotStopped
  <2> QED BY <1>1, <1>3, <1>4, <2>2 DEF Stopping
<1> QED BY <1>5, <1>6, <1>7, <1>8 DEF Inv

\* The thread of the queue takes what there is, with or without having waited for it.
LEMMA TakeStep ==
    ASSUME "dq" \notin Recv, Inv, DqLook \/ DqWoken PROVE Inv'
<1>1. /\ UNCHANGED <<nof, rdguid, keepgoing, enqueued, handled>>
      /\ at["dq"] \in {"look", "woken"}
      /\ \/ /\ sc' = sc /\ mine' = mine /\ sc = <<>> /\ at' = [at EXCEPT !["dq"] = "woken"]
         \/ /\ sc' = <<>> /\ mine' = sc /\ at' = [at EXCEPT !["dq"] = "next"]
      /\ "dq" \in waiting' => sc = <<>>
  BY DEF Inv, Counts, DqLook, DqWoken
<1>2. Types /\ Promise /\ Counts /\ Stopping /\ mine = <<>>
  BY <1>1 DEF Inv, Counts
<1>3. /\ at' \in [Threads -> {"idle", "isfull", "check", "wait", "look", "woken", "next", "handle", "gone"}]
      /\ at'["dq"] \in {"woken", "next"} /\ \A r \in Recv : at'[r] = at[r]
      /\ at'["dq"] = "woken" => mine' = <<>>
  BY <1>1, <1>2 DEF Types, Threads
<1>4. Types'
  <2>1. <<>> \in Seq(AnyElem)
    OBVIOUS
  <2> QED BY <1>1, <1>2, <1>3, <2>1 DEF Types
<1>5. Rest' = Rest
  <2>1. <<>> \o sc = sc /\ sc \o <<>> = sc
    BY <1>2 DEF Types
  <2> QED BY <1>1, <1>2, <2>1 DEF Rest
<1>6. Promise'
  <2>1. Here' = Here /\ Goal' = Goal
    BY <1>1 DEF Here, Goal
  <2> QED BY <1>2, <1>5, <2>1 DEF Promise, Run
<1>7. Counts'
  <2>1. Len(sc') + Len(mine') = Len(sc) + Len(mine)
    <3>1. Len(<<>>) = 0 /\ Len(sc) \in Nat
      BY <1>2 DEF Types
    <3> QED BY <1>1, <1>2, <3>1
  <2>2. nof = Len(sc) + Len(mine)
    <3>1. Len(<<>>) = 0 /\ Len(sc) \in Nat
      BY <1>2 DEF Types
    <3> QED BY <1>1, <1>2, <3>1 DEF Counts
  <2>3. "dq" \in waiting' => sc' = <<>>
    BY <1>1
  <2>4. nof' = Len(sc') + Len(mine')
    BY <1>1, <2>1, <2>2
  <2>5. nof' = Len(sc') + Len(mine') - 0
    <3>1. Len(sc') \in Nat /\ Len(mine') \in Nat
      BY <1>4 DEF Types
    <3> QED BY <2>4, <3>1
  <2> QED BY <1>3, <2>3, <2>5 DEF Counts
<1>8. Stopping'
  <2>1. keepgoing /\ at["dq"] # "gone"
    BY <1>1, <1>2 DEF Stopping
  <2> QED BY <1>1, <1>2, <1>3, <1>5, <2>1 DEF Stopping
<1> QED BY <1>4, <1>6, <1>7, <1>8 DEF Inv

\* It counts an element down before it handles it.
LEMMA CountDownStep ==
    ASSUME "dq" \notin Recv, Inv, DqCountDown PROVE Inv'
<1>1. /\ UNCHANGED <<sc, mine, rdguid, keepgoing, enqueued, handled>>
      /\ at["dq"] = "next" /\ mine # <<>> /\ nof' = nof - 1
      /\ at' = [at EXCEPT !["dq"] = "handle"] /\ ("dq" \in waiting' => "dq" \in waiting)
  BY DEF DqCountDown
<1>2. Types /\ Promise /\ Counts /\ Stopping
  BY DEF Inv
<1>3. /\ at' \in [Threads -> {"idle", "isfull", "check", "wait", "look", "woken", "next", "handle", "gone"}]
      /\ at'["dq"] = "handle" /\ \A r \in Recv : at'[r] = at[r]
  BY <1>1, <1>2 DEF Types, Threads
<1>4. Types'
  BY <1>1, <1>2, <1>3 DEF Types
<1>5. Rest' = Rest /\ Here' = Here /\ Goal' = Goal
  BY <1>1 DEF Rest, Here, Goal
<1>6. Promise'
  BY <1>2, <1>5 DEF Promise, Run
<1>7. Counts'
  <2>1. nof' = Len(sc') + Len(mine') - 1
    <3>1. Len(sc) \in Nat /\ Len(mine) \in Nat
      BY <1>2 DEF Types
    <3> QED BY <1>1, <1>2, <3>1 DEF Counts
  <2> QED BY <1>1, <1>2, <1>3, <2>1 DEF Counts
<1>8. Stopping'
  <2>1. keepgoing
    <3>1. Rest # <<>>
      BY <1>1, <1>2 DEF Rest, Types
    <3> QED BY <1>2, <3>1 DEF Stopping
  <2> QED BY <1>1, <1>2, <1>3, <1>5, <2>1 DEF Stopping
<1> QED BY <1>4, <1>6, <1>7, <1>8 DEF Inv

\* It hands on the element, which is the first step of the promised run.
LEMMA HandleStep ==
    ASSUME "dq" \notin Recv, Inv, DqHandle PROVE Inv'
<1> DEFINE e == Head(mine)
<1>1. /\ at["dq"] = "handle" /\ mine' = Tail(mine) /\ rdguid' = NextReader(e)
      /\ keepgoing' = (keepgoing /\ e.kind # "stop")
      /\ handled' = IF e.kind = "data" THEN Append(handled, rdguid.to)
                    ELSE IF e.kind = "callback" THEN Append(handled, All) ELSE handled
      /\ at' = [at EXCEPT !["dq"] = "next"]
      /\ UNCHANGED <<sc, nof, waiting, enqueued>>
  BY DEF DqHandle
<1>2. /\ Types /\ Promise /\ Counts /\ Stopping
      /\ mine \in Seq(AnyElem) /\ mine # <<>> /\ sc \in Seq(AnyElem)
      /\ rdguid \in Guids /\ handled \in Seq(Whom)
  BY <1>1 DEF Inv, Types, Counts
<1>3. /\ at' \in [Threads -> {"idle", "isfull", "check", "wait", "look", "woken", "next", "handle", "gone"}]
      /\ at'["dq"] = "next" /\ \A r \in Recv : at'[r] = at[r]
  BY <1>1, <1>2 DEF Types, Threads
<1>4. /\ Rest \in Seq(AnyElem) /\ Rest # <<>> /\ Head(Rest) = e /\ Tail(Rest) = Tail(mine) \o sc
      /\ e \in AnyElem /\ Tail(mine) \in Seq(AnyElem) /\ Len(Tail(mine)) = Len(mine) - 1
      /\ Len(mine) \in Nat
  <2> DEFINE m == mine
  <2>1. m \in Seq(AnyElem) /\ m # <<>> /\ sc \in Seq(AnyElem)
    BY <1>2
  <2> HIDE DEF m
  <2>2. /\ m \o sc \in Seq(AnyElem) /\ m \o sc # <<>> /\ Head(m \o sc) = Head(m)
        /\ Head(m) \in AnyElem /\ Tail(m) \in Seq(AnyElem) /\ Len(Tail(m)) = Len(m) - 1
        /\ Len(m) \in Nat
    BY <2>1
  <2>3. Tail(m \o sc) = Tail(m) \o sc
    BY <2>1
  <2> QED BY <2>2, <2>3 DEF Rest, m
<1>5. Rest' = Tail(Rest)
  BY <1>1, <1>4 DEF Rest
<1>6. NextReader(e) = ReaderAfter(rdguid, e)
  BY <1>2 DEF NextReader, ReaderAfter, Guids, Everybody
<1>7. Here' = After(Here, e) /\ Goal' = Goal
  <2>1. Here.rd = rdguid /\ Here.out = handled
    BY DEF Here
  <2>2. handled' = OutAfter(Here, e) /\ rdguid' = ReaderAfter(Here.rd, e)
    BY <1>1, <1>6, <2>1 DEF OutAfter
  <2> QED BY <1>1, <2>2 DEF Here, After, Goal
<1> HIDE DEF e
<1>8. Promise'
  <2>1. PICK f : Run(f, Rest, Here, Goal)
    BY <1>2 DEF Promise
  <2>2. \E g : Run(g, Tail(Rest), After(Here, e), Goal)
    BY <1>4, <2>1, RunTail
  <2>3. PICK g : Run(g, Tail(Rest), After(Here, e), Goal)
    BY <2>2
  <2>4. Run(g, Rest', Here', Goal')
    BY <1>5, <1>7, <2>3
  <2> QED BY <2>4 DEF Promise, Run
<1>9. Types'
  <2>1. Here \in Marks
    BY <1>2 DEF Here, Marks
  <2>2. After(Here, e) \in Marks
    BY <1>4, <2>1, AfterIsMark
  <2>3. rdguid' \in Guids /\ handled' \in Seq(Whom)
    <3>1. [rd |-> rdguid', out |-> handled'] \in Marks
      BY <1>7, <2>2 DEF Here
    <3> QED BY <3>1 DEF Marks
  <2>4. keepgoing' \in BOOLEAN
    BY <1>1
  <2> QED BY <1>1, <1>2, <1>3, <1>4, <2>3, <2>4 DEF Types
<1>10. Counts'
  <2>1. nof = Len(sc) + Len(mine) - 1
    BY <1>1, <1>2 DEF Counts
  <2>2. Len(sc) \in Nat
    BY <1>2
  <2>3. nof' = Len(sc') + Len(mine') - 0
    BY <1>1, <1>4, <2>1, <2>2
  <2> QED BY <1>1, <1>2, <1>3, <2>3 DEF Counts
<1>11. Stopping'
  <2> DEFINE s == Rest
             t == Tail(s)
  <2>1. s \in Seq(AnyElem) /\ s # <<>> /\ Head(s) = e /\ Rest' = t
    BY <1>4, <1>5
  <2>2. keepgoing
    BY <1>2, <2>1 DEF Stopping
  <2>3. \A i \in 1 .. Len(s) : s[i].kind = "stop" => i = Len(s) /\ \A r \in Recv : at[r] = "gone"
    BY <1>2 DEF Stopping
  <2> HIDE DEF s
  <2>4. /\ Len(s) \in Nat /\ Len(s) > 0 /\ s[1] = e /\ Len(t) = Len(s) - 1
        /\ \A i \in 1 .. Len(t) : t[i] = s[i + 1]
        /\ Len(s) = 1 => t = <<>>
    BY <2>1
  <2> HIDE DEF t
  <2>5. ASSUME NEW i \in 1 .. Len(t), t[i].kind = "stop"
        PROVE  i = Len(t) /\ keepgoing' /\ \A r \in Recv : at'[r] = "gone"
    <3>1. i + 1 \in 1 .. Len(s) /\ s[i + 1].kind = "stop"
      BY <2>4, <2>5
    <3>2. i + 1 = Len(s) /\ \A r \in Recv : at[r] = "gone"
      BY <2>3, <3>1
    <3>3. e.kind # "stop"
      BY <2>3, <2>4, <2>5
    <3>4. keepgoing'
      BY <1>1, <2>2, <3>3 DEF e
    <3>5. i = Len(t)
      BY <2>4, <3>2
    <3> QED BY <1>3, <3>2, <3>4, <3>5
  <2>6. ~keepgoing' => t = <<>> /\ \A r \in Recv : at'[r] = "gone"
    <3> SUFFICES ASSUME e.kind = "stop" PROVE t = <<>> /\ \A r \in Recv : at'[r] = "gone"
      BY <1>1, <2>2 DEF e
    <3>1. 1 \in 1 .. Len(s) /\ s[1].kind = "stop"
      BY <2>4
    <3>2. 1 = Len(s) /\ \A r \in Recv : at[r] = "gone"
      BY <2>3, <3>1
    <3> QED BY <1>3, <2>4, <3>2
  <2> QED BY <1>3, <2>1, <2>5, <2>6 DEF Stopping
<1> QED BY <1>8, <1>9, <1>10, <1>11 DEF Inv

\* When it has handled all it had taken, it looks again, or ends if it was asked to.
LEMMA DoneStep ==
    ASSUME "dq" \notin Recv, Inv, DqDone PROVE Inv'
<1>1. /\ UNCHANGED <<sc, mine, nof, rdguid, keepgoing, waiting, enqueued, handled>>
      /\ at["dq"] = "next" /\ mine = <<>>
      /\ at' = [at EXCEPT !["dq"] = IF keepgoing THEN "look" ELSE "gone"]
  BY DEF DqDone
<1>2. Types /\ Promise /\ Counts /\ Stopping
  BY DEF Inv
<1>3. /\ at' \in [Threads -> {"idle", "isfull", "check", "wait", "look", "woken", "next", "handle", "gone"}]
      /\ at'["dq"] = (IF keepgoing THEN "look" ELSE "gone") /\ \A r \in Recv : at'[r] = at[r]
  BY <1>1, <1>2 DEF Types, Threads
<1>4. Types'
  BY <1>1, <1>2, <1>3 DEF Types
<1>5. Rest' = Rest /\ Here' = Here /\ Goal' = Goal
  BY <1>1 DEF Rest, Here, Goal
<1>6. Promise'
  BY <1>2, <1>5 DEF Promise, Run
<1>7. Counts'
  BY <1>1, <1>2, <1>3 DEF Counts
<1>8. Stopping'
  BY <1>1, <1>2, <1>3, <1>5 DEF Stopping
<1> QED BY <1>4, <1>6, <1>7, <1>8 DEF Inv

\* The invariant holds in every state.
THEOREM Invariance ==
    ASSUME "dq" \notin Recv, Recv # {} PROVE Spec => []Inv
<1>1. Init => Inv
  BY InitInv
<1>2. Inv /\ [Next]_dqVars => Inv'
  <2> SUFFICES ASSUME Inv, [Next]_dqVars PROVE Inv'
    OBVIOUS
  <2>1. CASE DqThread
    BY <2>1, TakeStep, CountDownStep, HandleStep, DoneStep DEF DqThread
  <2>2. CASE Free
    BY <2>2, FreeStep
  <2>3. ASSUME NEW r \in Recv, RecvThread(r) PROVE Inv'
    BY <2>3, EnqueueStep, Enqueue1Step, WaitStep DEF RecvThread
  <2>4. CASE UNCHANGED dqVars
    BY <2>4 DEF dqVars, Inv, Types, Promise, Run, Counts, Stopping, Rest, Here, Goal
  <2> QED BY <2>1, <2>2, <2>3, <2>4 DEF Next
<1> QED BY <1>1, <1>2, PTL DEF Spec

\* What is enqueued is handed on in the order of arrival, each sample to the readers it was
\* enqueued for, and when the thread of the queue has ended, all of it was.
THEOREM InOrder ==
    ASSUME "dq" \notin Recv, Recv # {} PROVE Spec => []InOrderToTheRight
<1>1. Inv => InOrderToTheRight
  <2> SUFFICES ASSUME Inv PROVE InOrderToTheRight
    OBVIOUS
  <2>1. Types /\ Counts /\ Stopping /\ mine \in Seq(AnyElem) /\ sc \in Seq(AnyElem)
    BY DEF Inv, Types
  <2>2. PICK f : Run(f, Rest, Here, Goal)
    BY DEF Inv, Promise
  <2>3. Rest \in Seq(AnyElem) /\ Len(Rest) \in Nat
    BY <2>1 DEF Rest
  <2>4. IsPrefix(handled, enqueued)
    <3>1. f[0] = Here /\ Begins(f[0].out, Goal.out)
      BY <2>2, <2>3 DEF Run
    <3>2. Begins(handled, enqueued)
      BY <3>1 DEF Here, Goal
    <3>3. handled \in Seq(Whom) /\ enqueued \in Seq(Whom)
      BY <2>1 DEF Types
    <3>4. /\ SubSeq(handled, 1, Len(handled)) = handled
          /\ SubSeq(enqueued, 1, Len(handled)) = handled
      BY <3>2, <3>3 DEF Begins
    <3> QED BY <3>2, <3>4 DEF IsPrefix, Begins
  <2>5. ASSUME at["dq"] = "gone" PROVE handled = enqueued /\ sc = <<>> /\ nof = 0
    <3>1. mine = <<>> /\ sc = <<>>
      BY <2>1, <2>5 DEF Stopping, Rest
    <3>2. nof = 0
      <4>1. Len(<<>>) = 0
        OBVIOUS
      <4> QED BY <2>1, <2>5, <3>1, <4>1 DEF Counts
    <3>3. Len(Rest) = 0
      BY <3>1 DEF Rest
    <3>4. Here = Goal
      BY <2>2, <3>3 DEF Run
    <3> QED BY <3>1, <3>2, <3>4 DEF Here, Goal
  <2> QED BY <2>4, <2>5 DEF InOrderToTheRight
<1> QED BY <1>1, Invariance, PTL

\* nof_samples is exact, and the thread of the queue never waits while there is something.
THEOREM CountedAndWoken ==
    ASSUME "dq" \notin Recv, Recv # {} PROVE Spec => []CountExactWakeupsSeen
<1>1. Inv => CountExactWakeupsSeen
  BY DEF Inv, Counts, CountExactWakeupsSeen
<1> QED BY <1>1, Invariance, PTL
=============================================================================
