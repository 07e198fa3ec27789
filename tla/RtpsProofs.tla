----------------------------- MODULE RtpsProofs -----------------------------
(***************************************************************************)
(* Proofs about the reliable protocol, in three parts.                     *)
(*   1. Lemmas on the operators of Rtps (bounds of what is acknowledged,   *)
(*      advertised and dropped, and that no heartbeat or gap announces as  *)
(*      gone what the cache holds), and type correctness.  The type        *)
(*      invariant is stated with bounds that depend on wr->seq, and so     *)
(*      says that no message, buffer or acknowledgement is ahead of the    *)
(*      writer.                                                            *)
(*   2. The protocol loses nothing: the safety properties.                 *)
(*   3. The protocol and the history cache of its writer.                  *)
(* All for any number of readers, samples, messages and faults.            *)
(***************************************************************************)
EXTENDS Rtps, TLAPS, FiniteSetTheorems, WellFoundedInduction

\* A nonempty set of naturals has a lowest member (well-foundedness of <).
LEMMA LowestOfSome ==
    ASSUME NEW S \in SUBSET Nat, S # {}
    PROVE  Lowest(S) \in S /\ \A x \in S : Lowest(S) <= x
<1>1. PICK m \in S : \A y \in S : ~(<<y, m>> \in OpToRel(<, Nat))
  BY NatLessThanWellFounded, WFMin
<1>2. \A y \in S : ~(y < m)
  BY <1>1 DEF OpToRel
<1>3. \A y \in S : m <= y
  BY <1>2
<1> QED BY <1>3 DEF Lowest

\* A nonempty set of numbers from a range has a highest member.
LEMMA HighestOfSome ==
    ASSUME NEW a \in Int, NEW b \in Int, NEW S \in SUBSET (a..b), S # {}
    PROVE  Highest(S) \in S /\ \A x \in S : x <= Highest(S)
<1> DEFINE Below == {b - x : x \in S}
<1>1. Below \in SUBSET Nat /\ Below # {}
  OBVIOUS
<1>2. PICK m \in S : Lowest(Below) = b - m
  BY <1>1, LowestOfSome
<1>3. \A x \in S : b - m <= b - x
  BY <1>1, <1>2, LowestOfSome
<1>4. \A x \in S : x <= m
  BY <1>3
<1> QED BY <1>4 DEF Highest

\* The higher and the lower of two numbers are one of them and bound both.
LEMMA HigherLower ==
    ASSUME NEW a \in Int, NEW b \in Int
    PROVE  /\ HigherOf(a, b) \in {a, b} /\ HigherOf(a, b) >= a /\ HigherOf(a, b) >= b
           /\ LowerOf(a, b) \in {a, b} /\ LowerOf(a, b) <= a /\ LowerOf(a, b) <= b
BY DEF HigherOf, LowerOf

\* all messages that name no number beyond n
Messages(n) == DataMsg(n) \cup HbMsg(n) \cup GapMsg(n) \cup AckMsg(n)

\* A message that names no number beyond n names none beyond a larger k.
LEMMA MoreMessages ==
    ASSUME NEW n \in Nat, NEW k \in Nat, n <= k
    PROVE  /\ DataMsg(n) \subseteq DataMsg(k) /\ HbMsg(n) \subseteq HbMsg(k)
           /\ GapMsg(n) \subseteq GapMsg(k) /\ AckMsg(n) \subseteq AckMsg(k)
           /\ Messages(n) \subseteq Messages(k)
<1>1. DataMsg(n) \subseteq DataMsg(k)
  BY DEF DataMsg
<1>2. HbMsg(n) \subseteq HbMsg(k)
  BY DEF HbMsg
<1>3. GapMsg(n) \subseteq GapMsg(k)
  <2>1. 1..n \subseteq 1..k /\ 0..n + 1 \subseteq 0..k + 1
        /\ SUBSET (0..n) \subseteq SUBSET (0..k)
    OBVIOUS
  <2> QED BY <2>1 DEF GapMsg
<1>4. AckMsg(n) \subseteq AckMsg(k)
  <2>1. 1..n + 1 \subseteq 1..k + 1 /\ 0..n \subseteq 0..k
        /\ SUBSET (1..n) \subseteq SUBSET (1..k)
    OBVIOUS
  <2> QED BY <2>1 DEF AckMsg
<1> QED BY <1>1, <1>2, <1>3, <1>4 DEF Messages

\* writer_max_drop_seq: at most wr->seq and at most what any reader acknowledged.
LEMMA MaxDropBounds ==
    ASSUME NEW C \in SUBSET Readers, NEW a \in [Readers -> Nat], NEW n \in Nat
    PROVE  /\ MaxDropSeq(C, a, n) \in 0..n
           /\ \A r \in C : MaxDropSeq(C, a, n) <= a[r]
<1> DEFINE S == {n} \cup {a[r] : r \in C}
<1>1. S \in SUBSET Nat /\ S # {} /\ n \in S
  OBVIOUS
<1>2. Lowest(S) \in S /\ \A x \in S : Lowest(S) <= x
  BY <1>1, LowestOfSome
<1>3. MaxDropSeq(C, a, n) = Lowest(S)
  BY DEF MaxDropSeq
<1> HIDE DEF S
<1>4. PICK l \in S : l = Lowest(S) /\ \A x \in S : l <= x
  BY <1>2
<1>5a. l \in 0..n
  BY <1>1, <1>4
<1>5. \A r \in C : a[r] \in S
  BY DEF S
<1> QED BY <1>3, <1>4, <1>5, <1>5a

\* whc_remove_acked_messages adds nothing and drops nothing beyond its argument.
LEMMA RemainingBounds ==
    ASSUME NEW m
    PROVE  /\ Remaining(m) \subseteq whc
           /\ \A s \in whc : s > m => s \in Remaining(m)
BY DEF Remaining, AckDropped

\* A heartbeat's range lies within what was written, and starts at or below the lowest
\* sample in the cache.
LEMMA HbRangeBounds ==
    ASSUME NEW n \in Nat \ {0}, NEW w \in SUBSET (1..n), NEW x \in 0..n,
           NEW issync \in BOOLEAN
    PROVE  \E a \in 1..n, b \in 1..n :
              HbRange(w, n, x, issync) = <<a, b>> /\ w \cap (1..a - 1) = {}
<1>1. CASE w = {}
  BY <1>1 DEF HbRange
<1>2. CASE w # {}
  <2>1. w \in SUBSET Nat
    OBVIOUS
  <2>2. PICK l \in w : l = Lowest(w) /\ \A y \in w : l <= y
    BY <1>2, <2>1, LowestOfSome
  <2>3. l \in 1..n /\ n \in 1..n /\ HigherOf(x, l) \in 1..n
    BY DEF HigherOf
  <2>4. w \cap (1..l - 1) = {}
    BY <2>2
  <2>5. HbRange(w, n, x, issync) \in {<<l, n>>, <<l, HigherOf(x, l)>>}
    BY <1>2, <2>2 DEF HbRange
  <2> QED BY <2>3, <2>4, <2>5
<1> QED BY <1>1, <1>2

\* Data messages for assigned numbers are well typed.
LEMMA DatasType ==
    ASSUME NEW n \in Nat, NEW R \in SUBSET Readers, NEW S \in SUBSET (1..n)
    PROVE  Datas(R, S) \subseteq DataMsg(n)
BY DEF Datas, DataMsg

\* Messages go to readers only.
LEMMA Audiences ==
    ASSUME NEW n
    PROVE  Conn \in SUBSET Readers /\ Audience \in SUBSET Readers
           /\ HbAudience(n) \in SUBSET Readers
BY DEF Conn, Audience, HbAudience

\* c is the first clear bit of Gap m
ClearBit(m, c) ==
    /\ c \in Nat /\ m.base <= c /\ c \notin m.bits
    /\ \A s \in Nat : m.base <= s /\ s < c => s \in m.bits
    /\ GapApplied(m) = (m.start..c - 1) \cup {s \in m.bits : s > c}

\* The first clear bit of a Gap determines what it announces.
LEMMA FirstClearBit ==
    ASSUME NEW n \in Nat, NEW m \in GapMsg(n)
    PROVE  /\ Highest({m.base - 1} \cup m.bits) \in -1..n
           /\ \E c : ClearBit(m, c) /\ c <= n + 1
<1>1. m.start \in 1..n /\ m.bits \in SUBSET (0..n)
  BY DEF GapMsg
<1>2. PICK b \in 0..n + 1 : b = m.base
  BY DEF GapMsg
<1> DEFINE T == {b - 1} \cup m.bits
<1>3. T \in SUBSET (-1..n) /\ T # {} /\ -1 \in Int /\ n \in Int
  BY <1>1
<1>4. PICK t \in T : t = Highest(T) /\ \A x \in T : x <= t
  BY <1>3, HighestOfSome
<1>5. t \in Int /\ -1 <= t /\ t <= n /\ t >= b - 1 /\ t + 1 \notin m.bits
  <2>1. t \in -1..n
    BY <1>3, <1>4
  <2>2. b - 1 <= t
    BY <1>4
  <2>3. t + 1 \in m.bits => t + 1 <= t
    BY <1>4
  <2> QED BY <2>1, <2>2, <2>3
<1> DEFINE E == {s \in b..t + 1 : s \notin m.bits}
<1>6. t + 1 \in E /\ E \in SUBSET Nat /\ E # {}
  BY <1>5
<1>7. PICK c \in E : c = Lowest(E) /\ \A x \in E : c <= x
  BY <1>6, LowestOfSome
<1>8. c \in Nat /\ b <= c /\ c <= t + 1 /\ c \notin m.bits
  BY <1>5, <1>7
<1>9. ASSUME NEW s \in Nat, b <= s, s < c, s \notin m.bits
      PROVE  FALSE
  <2>1. s \in E
    BY <1>5, <1>8, <1>9
  <2> QED BY <1>7, <1>8, <1>9, <2>1
<1>10. GapApplied(m) = (m.start..c - 1) \cup {s \in m.bits : s > c}
  BY <1>2, <1>4, <1>7 DEF GapApplied
<1>11. c <= n + 1
  BY <1>5, <1>8
<1>12. t \in -1..n
  BY <1>5
<1>13. ClearBit(m, c)
  BY <1>2, <1>8, <1>9, <1>10 DEF ClearBit
<1> QED BY <1>2, <1>4, <1>11, <1>12, <1>13

\* A receiver of a Gap applies it to assigned numbers only.
LEMMA GapAppliedBounds ==
    ASSUME NEW n \in Nat, NEW m \in GapMsg(n)
    PROVE  GapApplied(m) \subseteq 0..n
<1>1. m.start \in 1..n /\ m.bits \in SUBSET (0..n)
  BY DEF GapMsg
<1>2. PICK c : ClearBit(m, c) /\ c <= n + 1
  BY FirstClearBit
<1> QED BY <1>1, <1>2 DEF ClearBit

\* The Gap announces nothing that is in the cache, the one that is grown beyond what
\* was asked for included.
LEMMA GapMessageAnnounces ==
    ASSUME NEW r \in Readers, NEW n \in Nat, NEW x \in 0..n, NEW w \in SUBSET (1..n),
           NEW missing \in SUBSET (1..x), missing # {}, missing \cap w = {},
           NEW stop \in Nat,
           \A s \in missing : stop < s => stop \in missing \cup w
    PROVE  /\ GapMessage(r, missing, stop, w, x) \in GapMsg(n)
           /\ GapMessage(r, missing, stop, w, x).to = r
           /\ GapMessage(r, missing, stop, w, x).bits \subseteq 0..x
           /\ GapApplied(GapMessage(r, missing, stop, w, x)) \cap w = {}
<1> DEFINE g == GapMessage(r, missing, stop, w, x)
<1>0. /\ missing \in SUBSET Nat /\ w \in SUBSET Nat
      /\ \A s \in missing : 1 <= s /\ s <= x
      /\ x \in Nat /\ x <= n
  OBVIOUS
<1>1. PICK a \in missing : a = Lowest(missing) /\ \A s \in missing : a <= s
  BY <1>0, LowestOfSome
<1>2. a \in 1..x
  BY <1>1
<1> DEFINE E == {e \in a + 1..x + 1 : e \notin missing}
<1>3. x + 1 \in E /\ E \in SUBSET Nat /\ E # {}
  BY <1>2
<1>4. PICK e \in E : e = Lowest(E) /\ \A s \in E : e <= s
  BY <1>3, LowestOfSome
<1>5. e \in a + 1..x + 1 /\ e \notin missing /\ a..e - 1 \subseteq missing
  BY <1>1, <1>2, <1>4
<1> DEFINE d == IF e = stop THEN GrowGap(w, e, x) ELSE e
           bits == {s \in missing : s >= e}
<1>6. g = [type |-> "gap", to |-> r, start |-> a,
           base |-> IF bits = {} THEN d - 1 ELSE d,
           bits |-> IF bits = {} THEN {d - 1} ELSE bits]
  BY <1>1, <1>4 DEF GapMessage
<1>7. /\ d \in a..x + 1 /\ (a..d - 1) \cap w = {}
      /\ e # stop => d = e
      /\ e \in w => d = e \/ e > x
  <2>1. (a..e - 1) \cap w = {}
    BY <1>5
  <2>2. CASE e # stop
    BY <1>2, <1>5, <2>1, <2>2
  <2>3. CASE e = stop
    <3> DEFINE later == {t \in w : t >= e}
    <3>1. CASE later = {}
      <4>1. d = x + 1
        BY <2>3, <3>1 DEF GrowGap
      <4> QED BY <1>2, <1>5, <2>1, <2>3, <3>1, <4>1
    <3>2. CASE later # {}
      <4>1. later \in SUBSET Nat
        BY <1>0
      <4>2. PICK l \in later : l = Lowest(later) /\ \A t \in later : l <= t
        BY <3>2, <4>1, LowestOfSome
      <4>3. d = LowerOf(l, x)
        BY <2>3, <3>2, <4>2 DEF GrowGap
      <4>4. l \in Nat /\ l >= e /\ d \in Nat /\ d <= l /\ d <= x /\ (d = l \/ d = x)
        BY <4>2, <4>3 DEF LowerOf
      <4>5. d \in a..x + 1
        BY <1>2, <1>5, <4>4
      <4>6. (a..d - 1) \cap w = {}
        BY <1>2, <1>5, <2>1, <4>2, <4>4
      <4>7. e \in w => d = e \/ e > x
        BY <1>5, <4>2, <4>4
      <4> QED BY <2>3, <4>5, <4>6, <4>7
    <3> QED BY <3>1, <3>2
  <2> QED BY <2>2, <2>3
<1> HIDE DEF d, E
<1>8. CASE bits = {}
  <2>1. g = [type |-> "gap", to |-> r, start |-> a, base |-> d - 1, bits |-> {d - 1}]
    BY <1>6, <1>8
  <2>2. d - 1 \in 0..x /\ d - 1 \in 0..n
    BY <1>2, <1>7
  <2>3. g \in GapMsg(n)
    BY <1>2, <2>1, <2>2 DEF GapMsg
  <2>4. g.base = d - 1 /\ g.bits = {d - 1} /\ g.start = a /\ g.to = r
    BY <2>1
  <2> HIDE DEF g
  <2>5. PICK c : ClearBit(g, c)
    BY <2>3, FirstClearBit
  <2>6. c = d
    <3>1. d \in Nat /\ c \in Nat /\ d - 1 <= c /\ c # d - 1
      BY <1>2, <1>7, <2>4, <2>5 DEF ClearBit
    <3>2. d < c => d \in {d - 1}
      BY <2>4, <2>5, <3>1 DEF ClearBit
    <3> QED BY <3>1, <3>2
  <2>7. GapApplied(g) = a..d - 1
    BY <2>2, <2>4, <2>5, <2>6 DEF ClearBit
  <2> QED BY <1>7, <2>2, <2>3, <2>4, <2>7 DEF g
<1>9. CASE bits # {}
  <2>1. PICK s \in bits : TRUE
    BY <1>9
  <2>2. e < s /\ s <= x
    BY <1>5, <2>1
  <2>3. d = e
    BY <1>5, <1>7, <2>1, <2>2
  <2>4. g = [type |-> "gap", to |-> r, start |-> a, base |-> e, bits |-> bits]
    BY <1>6, <1>9, <2>3
  <2>5. bits \in SUBSET (0..n) /\ bits \subseteq 0..x /\ e \in 0..n + 1
    <3>1. \A y \in bits : y \in 0..n /\ y \in 0..x
      BY <1>0
    <3>2. e \in 0..n + 1
      BY <1>0, <1>2, <1>5
    <3> QED BY <3>1, <3>2
  <2>6. g \in GapMsg(n)
    BY <1>2, <2>4, <2>5 DEF GapMsg
  <2>7. g.base = e /\ g.bits = bits /\ g.start = a /\ g.to = r
    BY <2>4
  <2> HIDE DEF g
  <2>8. PICK c : ClearBit(g, c)
    BY <2>6, FirstClearBit
  <2>9. e \notin bits
    BY <1>5
  <2>10. c = e
    <3>1. e \in Nat /\ c \in Nat /\ e <= c
      BY <1>2, <1>5, <2>7, <2>8 DEF ClearBit
    <3>2. e < c => e \in bits
      BY <2>7, <2>8, <3>1 DEF ClearBit
    <3> QED BY <2>9, <3>1, <3>2
  <2>11. GapApplied(g) \subseteq missing
    BY <1>5, <2>7, <2>8, <2>10 DEF ClearBit
  <2> QED BY <2>5, <2>6, <2>7, <2>11 DEF g
<1> QED BY <1>8, <1>9

\* A heartbeat announces nothing as gone that is in the cache.
LEMMA HeartbeatsAnnounce ==
    ASSUME NEW n \in Nat \ {0}, NEW w \in SUBSET (1..n), NEW x \in 0..n,
           NEW issync \in BOOLEAN, NEW final \in BOOLEAN, NEW R \in SUBSET Readers
    PROVE  \A m \in Heartbeats(R, HbRange(w, n, x, issync), final) :
              m \in HbMsg(n) /\ m.to \in R /\ Told(m) \cap w = {}
<1> SUFFICES ASSUME NEW m \in Heartbeats(R, HbRange(w, n, x, issync), final)
             PROVE  m \in HbMsg(n) /\ m.to \in R /\ Told(m) \cap w = {}
  OBVIOUS
<1>1. PICK a \in 1..n, b \in 1..n :
         HbRange(w, n, x, issync) = <<a, b>> /\ w \cap (1..a - 1) = {}
  BY HbRangeBounds
<1>2. PICK r \in R : m = [type |-> "hb", to |-> r, first |-> a, last |-> b, final |-> final]
  BY <1>1 DEF Heartbeats
<1>3. m \in HbMsg(n)
  BY <1>2 DEF HbMsg
<1>4. Told(m) = 1..a - 1
  BY <1>2 DEF Told
<1> QED BY <1>1, <1>2, <1>3, <1>4

\* Nor does force_heartbeat_to_peer, the Gap it sends for an empty cache included.
LEMMA ForcedHeartbeatAnnounces ==
    ASSUME NEW r \in Readers, NEW n \in Nat \ {0}, NEW w \in SUBSET (1..n),
           NEW x \in 0..n, NEW final \in BOOLEAN,
           NEW m \in ForcedHeartbeat(r, w, n, x, final)
    PROVE  m \in HbMsg(n) \cup GapMsg(n) /\ Told(m) \cap w = {}
<1> DEFINE g == [type |-> "gap", to |-> r, start |-> n, base |-> n + 1, bits |-> {}]
<1>1. CASE w = {} /\ m = g
  <2>1. g \in GapMsg(n)
    BY DEF GapMsg
  <2> QED BY <1>1, <2>1
<1>2. CASE \E b \in BOOLEAN : m \in Heartbeats({r}, HbRange(w, n, x, b), final)
  BY <1>2, HeartbeatsAnnounce
<1> QED BY <1>1, <1>2 DEF ForcedHeartbeat

\* Nothing handle_AckNack sends announces as gone what is in the cache.
LEMMA AnsweredAnnounces ==
    ASSUME NEW n \in Nat, NEW w \in SUBSET (1..n), NEW x \in 0..n, NEW k \in Nat,
           NEW m \in AckMsg(k), NEW r \in Readers, NEW sync \in BOOLEAN, NEW cut \in Int,
           n = 0 => ~Preemptive(m) /\ m.final
    PROVE  \A g \in Answered(m, r, w, n, x, sync, cut).msgs :
              g \in DataMsg(n) \cup HbMsg(n) \cup GapMsg(n) /\ Told(g) \cap w = {}
<1>0. ASSUME NEW M \in SUBSET (1..x), M # {}, M \cap w = {}, NEW z \in Nat,
             \A s \in M : z < s => z \in M \cup w
      PROVE  /\ GapMessage(r, M, z, w, x) \in GapMsg(n)
             /\ GapMessage(r, M, z, w, x).bits \subseteq 0..x
             /\ Told(GapMessage(r, M, z, w, x)) \cap w = {}
  <2> DEFINE h == GapMessage(r, M, z, w, x)
  <2>1. h \in GapMsg(n) /\ h.bits \subseteq 0..x /\ GapApplied(h) \cap w = {}
    BY ZenonT(40), <1>0, GapMessageAnnounces
  <2> HIDE DEF h
  <2>2. Told(h) = GapApplied(h)
    BY <2>1 DEF GapMsg, Told
  <2> QED BY <2>1, <2>2 DEF h
<1> DEFINE pre     == Preemptive(m)
           base    == IF pre /\ w # {} THEN Lowest(w) ELSE m.base
           speedUp == ~pre /\ ~inSync[r] /\ ~PureNonHist(m, r) /\ m.num < Accel
           width   == IF (pre /\ w # {}) \/ speedUp THEN Accel ELSE m.num
           asked   == {s \in base..base + width - 1 :
                          s <= x /\ s < cut /\ (s >= base + m.num \/ s \in m.nack)}
           resent  == asked \cap w
           missing == asked \ w
           gap     == IF missing = {} THEN {}
                      ELSE {GapMessage(r, missing, base + m.num, w, x)}
           reply   == resent \cup UNION {g.bits : g \in gap}
           more    == reply # {} /\ Highest(reply) < x
<1>1. base \in Nat \ {0} /\ width \in Nat /\ m.num \in Nat /\ m.final \in BOOLEAN
  <2>1. m.base \in Nat \ {0} /\ m.num \in Nat /\ m.final \in BOOLEAN
    BY DEF AckMsg
  <2>2. w \in SUBSET Nat /\ 0 \notin w
    OBVIOUS
  <2>3. w # {} => Lowest(w) \in w
    BY <2>2, LowestOfSome
  <2> QED BY <2>1, <2>2, <2>3, RtpsAssumption
<1> HIDE DEF base, width
<1>2. asked \in SUBSET (1..x)
  BY <1>1
<1>3. \A s \in missing : base + m.num < s => base + m.num \in missing \cup w
  BY <1>1, <1>2
<1>4. resent \in SUBSET (1..n) /\ missing \in SUBSET (1..x) /\ missing \cap w = {}
      /\ base + m.num \in Nat
  BY <1>1, <1>2
<1> DEFINE stop == base + m.num
<1> HIDE DEF pre, speedUp, asked, stop, missing, resent, gap, reply, more
<1>5. \A g \in gap : g \in GapMsg(n) /\ g.bits \subseteq 0..x /\ Told(g) \cap w = {}
  <2>1. missing # {} => LET h == GapMessage(r, missing, stop, w, x)
                        IN  h \in GapMsg(n) /\ h.bits \subseteq 0..x /\ Told(h) \cap w = {}
    <3>1. missing \in SUBSET (1..x) /\ missing \cap w = {} /\ stop \in Nat
          /\ \A s \in missing : stop < s => stop \in missing \cup w
      BY <1>3, <1>4 DEF stop
    <3> QED BY <1>0, <3>1, Zenon
  <2> QED BY <2>1, Zenon DEF gap, stop
<1>6. n = 0 => reply = {}
  <2> SUFFICES ASSUME n = 0
               PROVE  resent = {} /\ missing = {}
    BY DEF gap, reply
  <2>1. 1..x = {} /\ 1..n = {}
    OBVIOUS
  <2> QED BY <1>4, <2>1, Zenon
<1>7. \A g \in Datas(IF sync THEN Audience ELSE {r}, resent) :
         g \in DataMsg(n) /\ Told(g) \cap w = {}
  <2>1. (IF sync THEN Audience ELSE {r}) \in SUBSET Readers
    BY DEF Audience
  <2>2. \A g \in Datas(IF sync THEN Audience ELSE {r}, resent) :
           g.type = "data" /\ g \in DataMsg(n)
    BY <1>4, <2>1 DEF Datas, DataMsg
  <2> QED BY <2>2 DEF Told
<1>8. \A f \in BOOLEAN : n # 0 => \A g \in ForcedHeartbeat(r, w, n, x, f) :
         g \in HbMsg(n) \cup GapMsg(n) /\ Told(g) \cap w = {}
  BY ForcedHeartbeatAnnounces
<1>9. Answered(m, r, w, n, x, sync, cut).msgs =
         (IF pre THEN ForcedHeartbeat(r, w, n, x, TRUE) ELSE {})
         \cup Datas(IF sync THEN Audience ELSE {r}, resent)
         \cup gap
         \cup (IF more THEN ForcedHeartbeat(r, w, n, x, FALSE) ELSE {})
         \cup (IF ~pre /\ ~more /\ ~m.final
               THEN ForcedHeartbeat(r, w, n, x, TRUE) ELSE {})
  BY DEF Answered, pre, base, speedUp, width, asked, resent, missing, gap, reply, more
<1>10. more => n # 0
  BY <1>6 DEF more
<1>11. (pre \/ ~m.final) => n # 0
  BY DEF pre
<1> SUFFICES ASSUME NEW g \in Answered(m, r, w, n, x, sync, cut).msgs
             PROVE  g \in DataMsg(n) \cup HbMsg(n) \cup GapMsg(n) /\ Told(g) \cap w = {}
  OBVIOUS
<1>12. \/ g \in Datas(IF sync THEN Audience ELSE {r}, resent)
       \/ g \in gap
       \/ n # 0 /\ \E f \in BOOLEAN : g \in ForcedHeartbeat(r, w, n, x, f)
  BY <1>9, <1>10, <1>11, Zenon
<1> QED BY <1>5, <1>7, <1>8, <1>12, Zenon

----------------------------------------------------------------------------
\* Type correctness

\* A message in the network has the fields of its kind.
LEMMA MessageKinds ==
    ASSUME TypeOK, NEW m \in net
    PROVE  /\ m.type = "data" => m \in DataMsg(seq)
           /\ m.type = "hb" => m \in HbMsg(seq)
           /\ m.type = "gap" => m \in GapMsg(seq)
           /\ m.type = "acknack" => m \in AckMsg(seq)
           /\ m.type \in {"data", "hb", "gap", "acknack"}
BY DEF TypeOK, DataMsg, HbMsg, GapMsg, AckMsg

\* Receiving a message adds only the responses to the network.
LEMMA ConsumeBounds ==
    ASSUME TypeOK, NEW m, NEW ms, NEW extra \in Nat, Consume(m, ms, extra)
    PROVE  net' \subseteq net \cup ms /\ faults' \in 0..MaxFaults
BY RtpsAssumption DEF Consume, TypeOK

\* nn_reorder hands on, stores and goes past assigned numbers only.
LEMMA HandBounds ==
    ASSUME TypeOK, NEW r \in Readers, NEW h \in SUBSET (1..seq), NEW v \in SUBSET (1..seq),
           Hand(r, h, v)
    PROVE  /\ next' \in [Readers -> 1..seq + 1]
           /\ have' \in [Readers -> SUBSET (1..seq)]
           /\ void' \in [Readers -> SUBSET (1..seq)]
           /\ delivered' \in [Readers -> SUBSET (1..seq)]
<1>0. seq \in Nat /\ next \in [Readers -> 1..seq + 1]
      /\ have \in [Readers -> SUBSET (1..seq)]
      /\ void \in [Readers -> SUBSET (1..seq)]
      /\ delivered \in [Readers -> SUBSET (1..seq)]
  BY DEF TypeOK, seq
<1>1. PICK n \in next[r]..MaxSeq + 1 :
         /\ next[r]..n - 1 \subseteq h \cup v
         /\ next' = [next EXCEPT ![r] = n]
         /\ delivered' = [delivered EXCEPT ![r] = @ \cup {s \in h : s < n}]
         /\ have' = [have EXCEPT ![r] = {s \in h : s > n}]
         /\ void' = [void EXCEPT ![r] = {s \in v : s > n}]
  BY DEF Hand
<1> HIDE DEF seq
<1>2. n \in 1..seq + 1
  <2>1. next[r] \in 1..seq + 1 /\ n \in Int /\ next[r] <= n
    BY <1>0, <1>1, RtpsAssumption
  <2>2. CASE n = next[r]
    BY <2>1, <2>2
  <2>3. CASE n > next[r]
    <3>1. n - 1 \in next[r]..n - 1
      BY <2>1, <2>3
    <3>2. n - 1 \in 1..seq
      BY <1>1, <3>1
    <3> QED BY <1>0, <2>1, <3>2
  <2> QED BY <2>1, <2>2, <2>3
<1>3. {s \in h : s < n} \in SUBSET (1..seq) /\ {s \in h : s > n} \in SUBSET (1..seq)
      /\ {s \in v : s > n} \in SUBSET (1..seq)
  OBVIOUS
<1> QED BY <1>0, <1>1, <1>2, <1>3

\* The initial state is well typed.
LEMMA InitType == Init => TypeOK
<1> SUFFICES ASSUME Init PROVE TypeOK
  OBVIOUS
<1>1. log \in Seq(Keys \cup {NoKey}) /\ seq = 0
  BY DEF Init, seq
<1>2. /\ conn \in [Readers -> ConnStates] /\ ack \in [Readers -> 0..seq \cup {AllAcked}]
      /\ replied \in [Readers -> BOOLEAN] /\ inSync \in [Readers -> BOOLEAN]
      /\ matchSeq \in [Readers -> 0..seq] /\ up \in [Readers -> BOOLEAN]
      /\ next \in [Readers -> 1..seq + 1] /\ last \in [Readers -> 0..seq]
      /\ seenHb \in [Readers -> BOOLEAN] /\ ackSched \in [Readers -> BOOLEAN]
  BY <1>1 DEF Init, ConnStates
<1>3. /\ have \in [Readers -> SUBSET (1..seq)] /\ void \in [Readers -> SUBSET (1..seq)]
      /\ delivered \in [Readers -> SUBSET (1..seq)]
  BY DEF Init
<1>4. /\ whc = {} /\ pack = {} /\ net = {} /\ maxDrop = 0 /\ seqXmit = 0 /\ faults = 0
      /\ sending = FALSE /\ hbSched = FALSE
  BY DEF Init
<1>5. /\ seq <= MaxSeq /\ faults \in 0..MaxFaults
      /\ maxDrop \in 0..seq /\ seqXmit \in 0..seq
  <2>1. 0 \in 0..0 /\ 0 \in 0..MaxFaults /\ 0 <= MaxSeq
    BY RtpsAssumption
  <2>2. faults = 0 /\ maxDrop = 0 /\ seqXmit = 0
    BY DEF Init
  <2> QED BY <1>1, <2>1, <2>2
<1>7. sending \in BOOLEAN /\ hbSched \in BOOLEAN
  BY DEF Init
<1>6. /\ whc \subseteq 1..seq /\ pack \subseteq DataMsg(seq) \cup HbMsg(seq)
      /\ net \subseteq DataMsg(seq) \cup HbMsg(seq) \cup GapMsg(seq) \cup AckMsg(seq)
  BY <1>4
<1> HIDE DEF seq
<1> QED BY <1>1, <1>2, <1>3, <1>5, <1>6, <1>7 DEF TypeOK

\* Sending the packet keeps types.
LEMMA TransmitType == TypeOK /\ Transmit => TypeOK'
BY DEF TypeOK, Transmit, seq, rnVars, bufVars, pwrVars

\* Releasing the packet keeps types: seq_xmit reaches wr->seq, not more.
LEMMA ReleaseType == TypeOK /\ Release => TypeOK'
<1> SUFFICES ASSUME TypeOK, Release PROVE TypeOK'
  OBVIOUS
<1>1. seq \in Nat /\ seqXmit' = seq
  BY DEF TypeOK, seq, Release
<1>2. seqXmit' \in 0..seq
  BY <1>1
<1> QED BY <1>2 DEF TypeOK, Release, seq, rnVars, bufVars, pwrVars, netVars

\* Discovery of the writer keeps types.
LEMMA DiscoverType == ASSUME TypeOK, NEW r \in Readers, Discover(r) PROVE TypeOK'
BY DEF TypeOK, Discover, seq, wrVars, rnVars, bufVars, netVars

\* Loss keeps types.
LEMMA LoseType == ASSUME TypeOK, NEW m \in net, Lose(m) PROVE TypeOK'
BY RtpsAssumption DEF TypeOK, Lose, seq, wrVars, rnVars, bufVars, pwrVars

\* Ignoring an AckNack keeps types.
LEMMA IgnoreAckNackType == ASSUME TypeOK, NEW m \in net, IgnoreAckNack(m) PROVE TypeOK'
<1>1. net' \subseteq net /\ faults' \in 0..MaxFaults
  BY ConsumeBounds DEF IgnoreAckNack
<1> QED BY <1>1 DEF TypeOK, IgnoreAckNack, seq, wrVars, rnVars, bufVars, pwrVars

\* Ignoring a message of an unknown writer keeps types.
LEMMA IgnoreUnknownType == ASSUME TypeOK, NEW m \in net, IgnoreUnknown(m) PROVE TypeOK'
<1>1. net' \subseteq net /\ faults' \in 0..MaxFaults
  BY ConsumeBounds DEF IgnoreUnknown
<1> QED BY <1>1 DEF TypeOK, IgnoreUnknown, seq, wrVars, rnVars, bufVars, pwrVars

\* Receiving data keeps types.
LEMMA HandleDataType ==
    ASSUME TypeOK, NEW m \in net, m.type = "data", HandleData(m)
    PROVE  TypeOK'
<1> DEFINE r == m.to
<1>1. r \in Readers /\ m.seq \in 1..seq
  BY MessageKinds DEF DataMsg
<1>2. net' \subseteq net /\ faults' \in 0..MaxFaults
  BY ConsumeBounds DEF HandleData
<1>3. /\ next' \in [Readers -> 1..seq + 1]
      /\ have' \in [Readers -> SUBSET (1..seq)]
      /\ void' \in [Readers -> SUBSET (1..seq)]
      /\ delivered' \in [Readers -> SUBSET (1..seq)]
  <2>1. CASE Hand(r, have[r] \cup {m.seq}, void[r])
    <3>1. have[r] \cup {m.seq} \in SUBSET (1..seq) /\ void[r] \in SUBSET (1..seq)
      BY <1>1 DEF TypeOK
    <3> QED BY <1>1, <2>1, <3>1, HandBounds
  <2>2. CASE UNCHANGED bufVars
    BY <2>2 DEF TypeOK, bufVars
  <2> QED BY <2>1, <2>2 DEF HandleData
<1>4. last' \in [Readers -> 0..seq]
  <2>1. last' = [last EXCEPT ![r] = HigherOf(@, m.seq)]
    BY DEF HandleData
  <2> QED BY <1>1, <2>1 DEF TypeOK, HigherOf, seq
<1>5. UNCHANGED <<wrVars, rnVars, up, seenHb, ackSched>>
  BY DEF HandleData
<1> HIDE DEF r
<1> QED BY <1>2, <1>3, <1>4, <1>5 DEF TypeOK, seq, wrVars, rnVars

\* Announcing assigned numbers as gone keeps the buffers' types.
LEMMA AnnounceBounds ==
    ASSUME TypeOK, NEW r \in Readers, NEW g, g \subseteq 0..seq, Announce(r, g)
    PROVE  /\ next' \in [Readers -> 1..seq + 1]
           /\ have' \in [Readers -> SUBSET (1..seq)]
           /\ void' \in [Readers -> SUBSET (1..seq)]
           /\ delivered' \in [Readers -> SUBSET (1..seq)]
<1> DEFINE v == void[r] \cup {s \in g : s >= next[r] /\ s \notin have[r]}
<1>1. have[r] \in SUBSET (1..seq) /\ void[r] \in SUBSET (1..seq) /\ next[r] \in 1..seq + 1
  BY DEF TypeOK
<1>2. \A s \in g : s >= next[r] => s \in 1..seq
  BY <1>1
<1>3. v \in SUBSET (1..seq)
  BY <1>1, <1>2
<1> QED BY <1>1, <1>3, HandBounds DEF Announce

\* Receiving a heartbeat keeps types.
LEMMA HandleHeartbeatType ==
    ASSUME TypeOK, NEW m \in net, m.type = "hb", HandleHeartbeat(m)
    PROVE  TypeOK'
<1> DEFINE r == m.to
<1>0. PICK old \in BOOLEAN :
         /\ ackSched' = [ackSched EXCEPT ![r] =
                           @ \/ (~old /\ (last'[r] > next'[r] - 1 \/ ~m.final))]
         /\ Consume(m, {}, IF old THEN 1 ELSE 0)
  BY DEF HandleHeartbeat
<1>1. r \in Readers /\ m.first \in 1..seq /\ m.last \in 1..seq /\ m.final \in BOOLEAN
  BY MessageKinds DEF HbMsg
<1>2. net' \subseteq net /\ faults' \in 0..MaxFaults
  BY <1>0, ConsumeBounds
<1>3. /\ next' \in [Readers -> 1..seq + 1]
      /\ have' \in [Readers -> SUBSET (1..seq)]
      /\ void' \in [Readers -> SUBSET (1..seq)]
      /\ delivered' \in [Readers -> SUBSET (1..seq)]
  <2>1. 1..m.first - 1 \subseteq 0..seq
    <3>1. PICK a \in 1..seq : a = m.first
      BY <1>1
    <3>2. 1..a - 1 \subseteq 0..seq
      BY DEF TypeOK, seq
    <3> QED BY <3>1, <3>2
  <2>2. Announce(r, 1..m.first - 1)
    BY DEF HandleHeartbeat
  <2> QED BY <1>1, <2>1, <2>2, AnnounceBounds
<1>4. last' \in [Readers -> 0..seq]
  <2>1. last' = [last EXCEPT ![r] = HigherOf(@, m.last)]
    BY DEF HandleHeartbeat
  <2> QED BY <1>1, <2>1 DEF TypeOK, HigherOf, seq
<1>5. seenHb' \in [Readers -> BOOLEAN]
  BY <1>1 DEF HandleHeartbeat, TypeOK
<1>6. ackSched' \in [Readers -> BOOLEAN]
  <2> DEFINE b == ackSched[r] \/ (~old /\ (last'[r] > next'[r] - 1 \/ ~m.final))
  <2>1. b \in BOOLEAN
    OBVIOUS
  <2>2. ackSched' = [ackSched EXCEPT ![r] = b]
    BY <1>0
  <2> HIDE DEF b
  <2> QED BY <2>1, <2>2 DEF TypeOK
<1>7. UNCHANGED <<wrVars, rnVars, up>>
  BY DEF HandleHeartbeat
<1> HIDE DEF r
<1> QED BY <1>2, <1>3, <1>4, <1>5, <1>6, <1>7 DEF TypeOK, seq, wrVars, rnVars

\* Receiving a Gap keeps types.
LEMMA HandleGapType ==
    ASSUME TypeOK, NEW m \in net, m.type = "gap", HandleGap(m)
    PROVE  TypeOK'
<1> DEFINE r == m.to
           h == Highest({m.base - 1} \cup m.bits)
<1>0. seq \in Nat
  BY DEF TypeOK, seq
<1>1. r \in Readers /\ h \in -1..seq /\ GapApplied(m) \subseteq 0..seq
  <2>1. m \in GapMsg(seq)
    BY MessageKinds
  <2> QED BY <1>0, <2>1, FirstClearBit, GapAppliedBounds DEF GapMsg
<1>2. net' \subseteq net /\ faults' \in 0..MaxFaults
  BY ConsumeBounds DEF HandleGap
<1>3. /\ next' \in [Readers -> 1..seq + 1]
      /\ have' \in [Readers -> SUBSET (1..seq)]
      /\ void' \in [Readers -> SUBSET (1..seq)]
      /\ delivered' \in [Readers -> SUBSET (1..seq)]
  BY <1>1, AnnounceBounds DEF HandleGap
<1>4. last' \in [Readers -> 0..seq]
  <2>1. last' = [last EXCEPT ![r] = HigherOf(@, h)]
    BY DEF HandleGap
  <2> HIDE DEF h
  <2>2. HigherOf(last[r], h) \in 0..seq
    BY <1>0, <1>1 DEF HigherOf, TypeOK
  <2> QED BY <1>1, <2>1, <2>2 DEF TypeOK
<1>5. UNCHANGED <<wrVars, rnVars, up, seenHb, ackSched>>
  BY DEF HandleGap
<1> HIDE DEF r, h
<1> QED BY <1>2, <1>3, <1>4, <1>5 DEF TypeOK, seq, wrVars, rnVars

\* An AckNack is well typed: its bitmap names assigned numbers only.
LEMMA SendAckNackType ==
    ASSUME TypeOK, NEW r \in Readers, SendAckNack(r)
    PROVE  TypeOK'
<1> DEFINE base == next[r]
           num == LowerOf(HigherOf(last[r] + 1 - base, 0), BitmapMax)
           more == num > 0 /\ base + num <= last[r]
           m == [type |-> "acknack", from |-> r, base |-> base, num |-> num,
                 nack |-> Missing(r, base + num - 1), final |-> seenHb[r] /\ ~more]
<1>0. seq \in Nat /\ base \in 1..seq + 1 /\ last[r] \in 0..seq /\ BitmapMax \in Nat
  BY RtpsAssumption DEF TypeOK, seq
<1>1. num \in 0..seq /\ (num > 0 => base + num - 1 <= last[r])
  BY <1>0 DEF LowerOf, HigherOf
<1>2. Missing(r, base + num - 1) \in SUBSET (1..seq)
  BY <1>0, <1>1 DEF Missing
<1>3. m \in AckMsg(seq)
  <2>1. (seenHb[r] /\ ~more) \in BOOLEAN
    OBVIOUS
  <2> HIDE DEF base, num, more
  <2> QED BY <1>0, <1>1, <1>2, <2>1 DEF AckMsg
<1>4. net' = net \cup {m}
  BY DEF SendAckNack
<1>5. ackSched' \in [Readers -> BOOLEAN]
  <2>1. ackSched' = [ackSched EXCEPT ![r] = (num > 0 \/ ~seenHb[r])]
    BY DEF SendAckNack
  <2>2. (num > 0 \/ ~seenHb[r]) \in BOOLEAN
    OBVIOUS
  <2> HIDE DEF num
  <2> QED BY <2>1, <2>2 DEF TypeOK
<1>6. UNCHANGED <<up, last, seenHb, faults, wrVars, rnVars, bufVars>>
  BY DEF SendAckNack
<1> HIDE DEF m
<1> QED BY <1>3, <1>4, <1>5, <1>6 DEF TypeOK, seq, wrVars, rnVars, bufVars

\* Acknowledgements, MAX_SEQ_NUMBER included, are natural numbers.
LEMMA ReaderAcks ==
    ASSUME TypeOK
    PROVE  ack \in [Readers -> Nat] /\ seq \in Nat /\ AllAcked \in Nat
BY RtpsAssumption DEF TypeOK, AllAcked, seq

\* The heartbeat event keeps types.
LEMMA HbEventType ==
    ASSUME TypeOK, NEW f \in BOOLEAN, HbEvent(f)
    PROVE  TypeOK'
<1> DEFINE msgs == Heartbeats(HbAudience(seq), HbRange(whc, seq, seqXmit, FALSE), f)
<1>1. hbSched' \in BOOLEAN
  BY DEF HbEvent, MustHaveHbScheduled
<1>2. MustHaveHbScheduled(whc) => msgs \subseteq HbMsg(seq)
  <2> SUFFICES ASSUME whc # {}
               PROVE  msgs \subseteq HbMsg(seq)
    BY DEF MustHaveHbScheduled
  <2>1. whc \in SUBSET (1..seq) /\ seqXmit \in 0..seq /\ seq \in Nat
    BY DEF TypeOK, seq
  <2>2. PICK s \in whc : TRUE
    OBVIOUS
  <2>3. seq \in Nat \ {0}
    BY <2>1, <2>2
  <2>4. HbAudience(seq) \in SUBSET Readers
    BY Audiences
  <2>5. \A b \in BOOLEAN :
           Heartbeats(HbAudience(seq), HbRange(whc, seq, seqXmit, b), f) \subseteq HbMsg(seq)
    BY <2>1, <2>3, <2>4, HeartbeatsAnnounce
  <2> QED BY <2>5, Zenon
<1>3. net' = net \/ (MustHaveHbScheduled(whc) /\ net' = net \cup msgs)
  BY DEF HbEvent
<1>4. UNCHANGED <<log, whc, maxDrop, seqXmit, pack, sending, faults>>
      /\ UNCHANGED <<rnVars, bufVars, pwrVars>>
  BY DEF HbEvent
<1> HIDE DEF msgs
<1> QED BY <1>1, <1>2, <1>3, <1>4 DEF TypeOK, seq, rnVars, bufVars, pwrVars

\* Matching a reader keeps types.
LEMMA MatchType == ASSUME TypeOK, NEW r \in Readers, Match(r) PROVE TypeOK'
<1>1. seq \in 0..seq /\ seq' = seq
  BY DEF TypeOK, Match, seq
<1>2. conn' \in [Readers -> ConnStates]
  BY DEF TypeOK, Match, ConnStates
<1>3. ack' \in [Readers -> 0..seq \cup {AllAcked}]
  <2>1. \E a \in {seq, AllAcked} : ack' = [ack EXCEPT ![r] = a]
    BY DEF Match
  <2> QED BY <1>1, <2>1 DEF TypeOK
<1>4. matchSeq' \in [Readers -> 0..seq]
  BY <1>1 DEF TypeOK, Match
<1>5. replied' \in [Readers -> BOOLEAN] /\ inSync' \in [Readers -> BOOLEAN] /\ hbSched' = TRUE
  BY DEF TypeOK, Match
<1>6. UNCHANGED <<log, whc, maxDrop, seqXmit, pack, sending, bufVars, pwrVars, netVars>>
  BY DEF Match
<1> QED BY <1>1, <1>2, <1>3, <1>4, <1>5, <1>6 DEF TypeOK, seq, bufVars, pwrVars, netVars

\* remove_acked_messages keeps types.
LEMMA RemoveAckedBounds ==
    ASSUME TypeOK, NEW C \in SUBSET Readers, NEW a \in [Readers -> Nat], RemoveAcked(C, a)
    PROVE  whc' \subseteq 1..seq /\ maxDrop' \in 0..seq
<1>1. MaxDropSeq(C, a, seq) \in 0..seq
  BY MaxDropBounds, ReaderAcks
<1>2. whc' \subseteq whc /\ maxDrop' = MaxDropAfter(MaxDropSeq(C, a, seq))
  BY RemainingBounds DEF RemoveAcked
<1> QED BY <1>1, <1>2 DEF TypeOK, MaxDropAfter, HigherOf, seq

\* Deleting a proxy reader keeps types.
LEMMA DeleteReaderType == ASSUME TypeOK, NEW r \in Readers, DeleteReader(r) PROVE TypeOK'
<1>1. ack' = [ack EXCEPT ![r] = AllAcked]
  BY DEF DeleteReader
<1>2. ack' \in [Readers -> 0..seq \cup {AllAcked}] /\ ack' \in [Readers -> Nat]
  BY <1>1, ReaderAcks DEF TypeOK
<1>3. whc' \subseteq 1..seq /\ maxDrop' \in 0..seq
  BY <1>2, RemoveAckedBounds, Audiences DEF DeleteReader
<1>4. conn' \in [Readers -> ConnStates]
  BY DEF TypeOK, DeleteReader, ConnStates
<1>5. UNCHANGED <<replied, inSync, matchSeq, log, seqXmit, pack, sending, hbSched>>
      /\ UNCHANGED <<bufVars, pwrVars, netVars>>
  BY DEF DeleteReader
<1> QED BY <1>2, <1>3, <1>4, <1>5 DEF TypeOK, seq, bufVars, pwrVars, netVars

\* Dropping the connection keeps types.
LEMMA DropConnectionType == ASSUME TypeOK, NEW r \in Readers, DropConnection(r) PROVE TypeOK'
<1>1. whc' \subseteq 1..seq /\ maxDrop' \in 0..seq
  <2>1. RemoveAcked(Conn \ {r}, ack) /\ Conn \ {r} \in SUBSET Readers
    BY Audiences DEF DropConnection
  <2> QED BY <2>1, RemoveAckedBounds, ReaderAcks
<1>2. conn' \in [Readers -> ConnStates]
  BY DEF TypeOK, DropConnection, ConnStates
<1>3. UNCHANGED <<ack, replied, inSync, matchSeq, log, seqXmit, pack, sending, hbSched>>
      /\ UNCHANGED <<bufVars, pwrVars, netVars>>
  BY DEF DropConnection
<1> QED BY <1>1, <1>2, <1>3 DEF TypeOK, seq, bufVars, pwrVars, netVars

\* What is typed stays so when sequence numbers are assigned.
LEMMA TypesGrow ==
    ASSUME TypeOK, NEW n \in Nat, seq <= n
    PROVE  /\ whc \subseteq 1..n /\ maxDrop \in 0..n /\ seqXmit \in 0..n
           /\ pack \subseteq DataMsg(n) \cup HbMsg(n)
           /\ ack \in [Readers -> 0..n \cup {AllAcked}] /\ matchSeq \in [Readers -> 0..n]
           /\ next \in [Readers -> 1..n + 1] /\ last \in [Readers -> 0..n]
           /\ have \in [Readers -> SUBSET (1..n)] /\ void \in [Readers -> SUBSET (1..n)]
           /\ delivered \in [Readers -> SUBSET (1..n)]
           /\ net \subseteq DataMsg(n) \cup HbMsg(n) \cup GapMsg(n) \cup AckMsg(n)
<1>1. seq \in Nat
  BY ReaderAcks
<1>2. 1..seq \subseteq 1..n /\ 0..seq \subseteq 0..n /\ 1..seq + 1 \subseteq 1..n + 1
  BY <1>1
<1>3. SUBSET (1..seq) \subseteq SUBSET (1..n)
  BY <1>2
<1>4. /\ whc \subseteq 1..n /\ maxDrop \in 0..n /\ seqXmit \in 0..n
      /\ ack \in [Readers -> 0..n \cup {AllAcked}] /\ matchSeq \in [Readers -> 0..n]
      /\ next \in [Readers -> 1..n + 1] /\ last \in [Readers -> 0..n]
  BY <1>2 DEF TypeOK
<1>5. have \in [Readers -> SUBSET (1..n)] /\ void \in [Readers -> SUBSET (1..n)]
      /\ delivered \in [Readers -> SUBSET (1..n)]
  BY <1>3 DEF TypeOK
<1>6. /\ pack \subseteq DataMsg(n) \cup HbMsg(n)
      /\ net \subseteq DataMsg(n) \cup HbMsg(n) \cup GapMsg(n) \cup AckMsg(n)
  BY <1>1, MoreMessages DEF TypeOK
<1> QED BY <1>4, <1>5, <1>6

\* whc_insert adds the new sample and nothing else.
LEMMA InsertedBounds ==
    ASSUME NEW w, NEW l, NEW m, NEW n, n = Len(l)
    PROVE  Inserted(w, l, m) \subseteq w \cup {n} /\ n \in Inserted(w, l, m)
BY DEF Inserted

\* The packet of Write: its heartbeat announces nothing that is in the cache.
LEMMA WriteParts ==
    ASSUME TypeOK, NEW k \in Keys, Write(k)
    PROVE  /\ seq' = seq + 1 /\ log' = Append(log, k) /\ log' \in Seq(Keys \cup {NoKey})
           /\ seq + 1 \in Nat \ {0} /\ seq + 1 <= MaxSeq
           /\ whc' = IF HaveReliableSubs \/ TL
                     THEN Inserted(whc, log', MaxDropSeq(Conn, ack, seq + 1)) ELSE whc
           /\ whc' \subseteq 1..seq + 1
           /\ \A m \in pack' : m \in pack \/ ( /\ m \in DataMsg(seq + 1) \cup HbMsg(seq + 1)
                                              /\ Told(m) \cap whc' = {} )
<1> DEFINE n == seq + 1
<1>1. seq \in Nat /\ n \in Nat \ {0} /\ seq < MaxSeq /\ n <= MaxSeq
  BY ReaderAcks, RtpsAssumption DEF Write
<1>2. /\ log' = Append(log, k) /\ log' \in Seq(Keys \cup {NoKey}) /\ seq' = n
  BY DEF Write, TypeOK, seq
<1>3. whc' = IF HaveReliableSubs \/ TL
             THEN Inserted(whc, log', MaxDropSeq(Conn, ack, n)) ELSE whc
  BY DEF Write
<1>4. whc' \subseteq 1..n
  <2>1. whc \subseteq 1..n /\ n \in 1..n
    BY <1>1, TypesGrow
  <2>2. whc' \subseteq whc \cup {n}
    <3>1. n = Len(log')
      BY <1>2 DEF seq
    <3>2. \A l, d : n = Len(l) => Inserted(whc, l, d) \subseteq whc \cup {n}
      BY InsertedBounds
    <3>3. Inserted(whc, log', MaxDropSeq(Conn, ack, n)) \subseteq whc \cup {n}
      BY <3>1, <3>2, Zenon
    <3> QED BY <1>3, <3>3
  <2> QED BY <2>1, <2>2
<1>5. PICK hb \in {{}} \cup {Heartbeats(HbAudience(n), HbRange(whc', n, seqXmit, TRUE), f) :
                                f \in Piggyback} :
         pack' = pack \cup Datas(Audience, {n}) \cup hb
  BY <1>3 DEF Write
<1>6. \A m \in hb : m \in HbMsg(n) /\ Told(m) \cap whc' = {}
  <2>1. \A b \in BOOLEAN, f \in BOOLEAN :
           \A m \in Heartbeats(HbAudience(n), HbRange(whc', n, seqXmit, b), f) :
              m \in HbMsg(n) /\ Told(m) \cap whc' = {}
    <3>1. HbAudience(n) \in SUBSET Readers /\ seqXmit \in 0..n
      BY <1>1, TypesGrow, Audiences
    <3> QED BY <1>1, <1>4, <3>1, HeartbeatsAnnounce
  <2>2. Piggyback \subseteq BOOLEAN
    BY RtpsAssumption
  <2> QED BY <1>5, <2>1, <2>2, Zenon
<1>7. \A m \in Datas(Audience, {n}) : m \in DataMsg(n) /\ Told(m) = {}
  <2>1. \A m \in Datas(Audience, {n}) : m.type = "data" /\ m \in DataMsg(n)
    BY <1>1, Audiences DEF Datas, DataMsg
  <2> QED BY <2>1 DEF Told
<1> QED BY <1>1, <1>2, <1>3, <1>4, <1>5, <1>6, <1>7

\* Writing a sample keeps types.
LEMMA WriteType == ASSUME TypeOK, NEW k \in Keys, Write(k) PROVE TypeOK'
<1>1. seq \in Nat /\ seq + 1 \in Nat /\ seq <= seq + 1
  BY ReaderAcks
<1>2. /\ maxDrop \in 0..seq + 1 /\ seqXmit \in 0..seq + 1
      /\ pack \subseteq DataMsg(seq + 1) \cup HbMsg(seq + 1)
      /\ ack \in [Readers -> 0..seq + 1 \cup {AllAcked}]
      /\ matchSeq \in [Readers -> 0..seq + 1]
      /\ next \in [Readers -> 1..(seq + 1) + 1] /\ last \in [Readers -> 0..seq + 1]
      /\ have \in [Readers -> SUBSET (1..seq + 1)] /\ void \in [Readers -> SUBSET (1..seq + 1)]
      /\ delivered \in [Readers -> SUBSET (1..seq + 1)]
      /\ net \subseteq DataMsg(seq + 1) \cup HbMsg(seq + 1) \cup GapMsg(seq + 1)
                       \cup AckMsg(seq + 1)
  BY <1>1, TypesGrow
<1>3. /\ seq' = seq + 1 /\ log' \in Seq(Keys \cup {NoKey}) /\ seq + 1 <= MaxSeq
      /\ whc' \subseteq 1..seq + 1 /\ pack' \subseteq DataMsg(seq + 1) \cup HbMsg(seq + 1)
  BY <1>2, WriteParts
<1>4. UNCHANGED <<maxDrop, seqXmit, sending, rnVars, bufVars, pwrVars, netVars>>
      /\ hbSched' = TRUE
  BY DEF Write
<1> DEFINE n == seq + 1
<1> HIDE DEF n
<1> QED BY <1>2, <1>3, <1>4 DEF TypeOK, rnVars, bufVars, pwrVars, netVars

\* What HandleAckNack does for a message m of reader r, a being the acknowledgements
\* after its ACK part: only what all acknowledge is dropped, and what is sent announces
\* nothing that is in the cache.
AckNackStep(m, r, a) ==
    /\ r \in Readers /\ m \in AckMsg(seq) /\ conn[r] \in {"matched", "straggler"}
    /\ conn' = [conn EXCEPT ![r] = IF @ = "straggler" THEN "deleted" ELSE @]
    /\ a \in [Readers -> 0..seq \cup {AllAcked}]
    /\ whc' \subseteq whc
    /\ \A s \in whc : s \in whc' \/ \A q \in Conn : s <= a[q]
    /\ maxDrop' \in 0..seq
    /\ ack' = [ack EXCEPT ![r] = ResponsiveAgain(m, a[r], whc')]
    /\ seq <= seq' /\ seq' \in Nat /\ seq' <= MaxSeq
    /\ log' \in Seq(Keys \cup {NoKey})
    /\ log' = log \/ (seq = 0 /\ log' = <<NoKey>>)
    /\ seqXmit' \in 0..seq'
    /\ \A g \in net' : \/ g \in net
                       \/ /\ g \in DataMsg(seq') \cup HbMsg(seq') \cup GapMsg(seq')
                          /\ Told(g) \cap whc' = {}
    /\ faults' \in 0..MaxFaults /\ hbSched' \in BOOLEAN

\* handle_AckNack does that.
LEMMA HandleAckNackParts ==
    ASSUME TypeOK, NEW m \in net, m.type = "acknack", HandleAckNack(m),
           NEW r, r = m.from, NEW a, a = [ack EXCEPT ![r] = AckedUpTo(m, r)]
    PROVE  AckNackStep(m, r, a)
<1> DEFINE drop  == IF m.base - 1 > ack[r] THEN MaxDropSeq(Conn, a, seq) ELSE maxDrop
           w     == Remaining(drop)
           sync  == inSync[r] \/ (~Preemptive(m) /\ PureNonHist(m, r))
           first == seq = 0 /\ (Preemptive(m) \/ ~m.final)
           n     == IF first THEN 1 ELSE seq
           x     == IF first THEN 1 ELSE seqXmit
<1>1. m \in AckMsg(seq) /\ r \in Readers
  <2>1. m \in AckMsg(seq)
    BY MessageKinds
  <2> QED BY <2>1 DEF AckMsg
<1>2. conn[r] \in {"matched", "straggler"} /\ r \in Conn
  BY <1>1 DEF HandleAckNack, Conn
<1>3. conn' = [conn EXCEPT ![r] = IF @ = "straggler" THEN "deleted" ELSE @]
  BY DEF HandleAckNack
<1>4. /\ whc' = w /\ maxDrop' = MaxDropAfter(drop)
      /\ ack' = [ack EXCEPT ![r] = ResponsiveAgain(m, a[r], w)]
  BY DEF HandleAckNack
<1>5. log' = (IF first THEN <<NoKey>> ELSE log) /\ seqXmit' = x
  BY DEF HandleAckNack
<1>6. PICK cut \in {n + 1} \cup (m.nack \cap w) :
         /\ Consume(m, Answered(m, r, w, n, x, sync, cut).msgs, IF cut <= n THEN 1 ELSE 0)
         /\ hbSched' = (hbSched \/ Answered(m, r, w, n, x, sync, cut).more)
  BY DEF HandleAckNack
<1>7. seq \in Nat /\ ack \in [Readers -> Nat] /\ ack \in [Readers -> 0..seq \cup {AllAcked}]
  BY ReaderAcks DEF TypeOK
<1>8. AckedUpTo(m, r) \in 0..seq \cup {AllAcked}
  <2>1. PICK b \in 1..seq + 1 : b = m.base
    BY <1>1 DEF AckMsg
  <2>2. LowerOf(b - 1, seq) \in 0..seq
    BY <1>7, <2>1 DEF LowerOf
  <2> HIDE DEF seq
  <2> QED BY <1>1, <1>7, <2>1, <2>2 DEF AckedUpTo
<1>9. a \in [Readers -> 0..seq \cup {AllAcked}] /\ a \in [Readers -> Nat]
  <2>1. PICK v \in 0..seq \cup {AllAcked} : v = AckedUpTo(m, r)
    BY <1>8
  <2>2. v \in Nat /\ a = [ack EXCEPT ![r] = v]
    BY <1>7, <2>1, ReaderAcks
  <2> QED BY <1>7, <2>1, <2>2
<1>10. drop \in 0..seq /\ maxDrop \in 0..seq
       /\ (drop # maxDrop => \A q \in Conn : drop <= a[q])
  <2>1. MaxDropSeq(Conn, a, seq) \in 0..seq
        /\ \A q \in Conn : MaxDropSeq(Conn, a, seq) <= a[q]
    BY <1>7, <1>9, Audiences, MaxDropBounds
  <2>2. maxDrop \in 0..seq
    BY DEF TypeOK
  <2> QED BY <2>1, <2>2
<1> HIDE DEF drop, first, sync
<1>11. w \subseteq whc /\ \A s \in whc : s \in w \/ (drop # maxDrop /\ s <= drop)
  <2>1. drop = maxDrop => w = whc
    BY <1>10 DEF Remaining
  <2>2. \A s \in whc : s > drop => s \in w
    BY RemainingBounds
  <2>3. whc \subseteq 1..seq
    BY DEF TypeOK
  <2> QED BY <1>10, <2>1, <2>2, <2>3, RemainingBounds
<1>12. \A s \in whc : s \in w \/ \A q \in Conn : s <= a[q]
  <2> SUFFICES ASSUME NEW s \in whc, s \notin w, NEW q \in Conn
               PROVE  s <= a[q]
    OBVIOUS
  <2>1. s \in Nat /\ q \in Readers
    <3>1. s \in 1..seq
      BY DEF TypeOK
    <3> QED BY <1>7, <3>1, Audiences
  <2>2. s <= drop /\ drop <= a[q]
    BY <1>10, <1>11
  <2> QED BY <1>9, <1>10, <2>1, <2>2
<1>13. maxDrop' \in 0..seq
  BY <1>4, <1>10 DEF MaxDropAfter, HigherOf
<1>14. /\ seq' = n /\ n \in Nat /\ seq <= n /\ n <= MaxSeq
       /\ log' \in Seq(Keys \cup {NoKey})
       /\ log' = log \/ (seq = 0 /\ log' = <<NoKey>>)
  <2>1. CASE first
    <3>1. log' = <<NoKey>> /\ n = 1 /\ seq = 0
      BY <1>5, <2>1 DEF first
    <3> QED BY <3>1, RtpsAssumption DEF seq
  <2>2. CASE ~first
    BY <1>5, <1>7, <2>2 DEF TypeOK, seq
  <2> QED BY <2>1, <2>2
<1>15. x \in 0..n
  BY <1>7 DEF TypeOK
<1> DEFINE ans == Answered(m, r, w, n, x, sync, cut)
<1>16. \A g \in ans.msgs : g \in DataMsg(n) \cup HbMsg(n) \cup GapMsg(n) /\ Told(g) \cap w = {}
  <2>1. w \in SUBSET (1..n)
    <3>1. whc \subseteq 1..seq
      BY DEF TypeOK
    <3>2. 1..seq \subseteq 1..n
      BY <1>7, <1>14
    <3> HIDE DEF w, n
    <3> QED BY <1>11, <3>1, <3>2
  <2>2. cut \in Int
    BY <1>1, <1>6, <1>14 DEF AckMsg
  <2>3. sync \in BOOLEAN
    BY DEF sync, TypeOK, PureNonHist, Pure
  <2>4. n = 0 => ~Preemptive(m) /\ m.final
    BY DEF first
  <2> HIDE DEF w, n, x
  <2> QED BY ZenonT(40), <1>1, <1>7, <1>14, <1>15, <2>1, <2>2, <2>3, <2>4, AnsweredAnnounces
<1>17. net' \subseteq net \cup ans.msgs /\ faults' \in 0..MaxFaults
  <2>1. (IF cut <= n THEN 1 ELSE 0) \in Nat
    OBVIOUS
  <2> HIDE DEF ans
  <2> QED BY <1>6, <2>1, ConsumeBounds DEF ans
<1>18. hbSched' \in BOOLEAN
  <2>1. hbSched' = (hbSched \/ ans.more)
    BY <1>6
  <2> HIDE DEF ans
  <2> QED BY <2>1
<1> HIDE DEF w, n, x, ans
<1>19. \A g \in net' : \/ g \in net
                       \/ /\ g \in DataMsg(seq') \cup HbMsg(seq') \cup GapMsg(seq')
                          /\ Told(g) \cap whc' = {}
  BY <1>4, <1>14, <1>16, <1>17
<1> QED BY <1>1, <1>2, <1>3, <1>4, <1>5, <1>9, <1>11, <1>12, <1>13, <1>14, <1>15,
           <1>17, <1>18, <1>19 DEF AckNackStep

\* Receiving an AckNack keeps types.
LEMMA HandleAckNackType ==
    ASSUME TypeOK, NEW m \in net, m.type = "acknack", HandleAckNack(m)
    PROVE  TypeOK'
<1>1. PICK r : r = m.from
  OBVIOUS
<1>2. PICK a : a = [ack EXCEPT ![r] = AckedUpTo(m, r)]
  OBVIOUS
<1>3. AckNackStep(m, r, a)
  BY <1>1, <1>2, HandleAckNackParts
<1>4. PICK k \in Nat : k = seq'
  BY <1>3 DEF AckNackStep
<1>5. /\ whc \subseteq 1..k /\ maxDrop \in 0..k
      /\ pack \subseteq DataMsg(k) \cup HbMsg(k)
      /\ ack \in [Readers -> 0..k \cup {AllAcked}] /\ matchSeq \in [Readers -> 0..k]
      /\ next \in [Readers -> 1..k + 1] /\ last \in [Readers -> 0..k]
      /\ have \in [Readers -> SUBSET (1..k)] /\ void \in [Readers -> SUBSET (1..k)]
      /\ delivered \in [Readers -> SUBSET (1..k)]
      /\ net \subseteq DataMsg(k) \cup HbMsg(k) \cup GapMsg(k) \cup AckMsg(k)
  BY <1>3, <1>4, TypesGrow DEF AckNackStep
<1>6. seq \in Nat /\ seq <= k
  BY <1>3, <1>4, ReaderAcks DEF AckNackStep
<1>7. ack' \in [Readers -> 0..k \cup {AllAcked}]
  <2>1. PICK b \in 1..seq + 1 : b = m.base
    BY <1>3 DEF AckNackStep, AckMsg
  <2>2. ResponsiveAgain(m, a[r], whc') \in 0..k \cup {AllAcked}
    <3>1. a[r] # AllAcked => ResponsiveAgain(m, a[r], whc') \in 0..k
      BY <1>3, <1>6 DEF AckNackStep, ResponsiveAgain
    <3>2. a[r] = AllAcked => ResponsiveAgain(m, a[r], whc') \in 0..k
      <4>1. whc' # {} => Highest(whc') \in 1..seq
        <5>1. \A S \in SUBSET (1..seq) : S # {} => Highest(S) \in S
          <6>1. 1 \in Int /\ seq \in Int
            BY <1>6
          <6> QED BY <6>1, HighestOfSome
        <5>2. whc' \in SUBSET (1..seq)
          BY <1>3 DEF AckNackStep, TypeOK
        <5> QED BY <5>1, <5>2
      <4>2. PICK t \in 0..seq : t = IF whc' = {} THEN seq ELSE Highest(whc')
        BY <1>6, <4>1
      <4>3. LowerOf(HigherOf(b - 1, t), seq) \in 0..seq
        BY <1>6 DEF LowerOf, HigherOf
      <4>4. a[r] = AllAcked => ResponsiveAgain(m, a[r], whc') = LowerOf(HigherOf(b - 1, t), seq)
        BY <2>1, <4>2 DEF ResponsiveAgain
      <4> QED BY <1>6, <4>3, <4>4
    <3> QED BY <3>1, <3>2
  <2> QED BY <1>3, <1>5, <2>2 DEF AckNackStep
<1>8. conn' \in [Readers -> ConnStates] /\ replied' \in [Readers -> BOOLEAN]
      /\ inSync' \in [Readers -> BOOLEAN]
  <2>1. conn' \in [Readers -> ConnStates]
    BY <1>3 DEF AckNackStep, TypeOK, ConnStates
  <2>2. \E b \in BOOLEAN, c \in BOOLEAN : /\ replied' = [replied EXCEPT ![r] = b]
                                         /\ inSync' = [inSync EXCEPT ![r] = c]
    <3> DEFINE b == replied[r] \/ a[r] = AllAcked \/ (m.base > 1 /\ PureNonHist(m, r))
               c == inSync[r] \/ (~Preemptive(m) /\ PureNonHist(m, r))
    <3>1. replied' = [replied EXCEPT ![r] = b] /\ inSync' = [inSync EXCEPT ![r] = c]
      BY <1>1, <1>2 DEF HandleAckNack
    <3>2. b \in BOOLEAN /\ c \in BOOLEAN
      BY <1>3 DEF AckNackStep, TypeOK
    <3> QED BY <3>1, <3>2, Zenon
  <2> QED BY <2>1, <2>2 DEF TypeOK
<1>9. UNCHANGED <<pack, sending, matchSeq, bufVars, pwrVars>>
  BY DEF HandleAckNack
<1>10. net' \subseteq DataMsg(k) \cup HbMsg(k) \cup GapMsg(k) \cup AckMsg(k)
  BY <1>3, <1>4, <1>5 DEF AckNackStep
<1>11. whc' \subseteq 1..k /\ maxDrop' \in 0..k
  BY <1>3, <1>5, <1>6 DEF AckNackStep
<1> HIDE DEF seq
<1> QED BY <1>3, <1>4, <1>5, <1>7, <1>8, <1>9, <1>10, <1>11 DEF AckNackStep, TypeOK, bufVars, pwrVars

\* Every sequence number in the system (in messages, buffers, acknowledgements) was
\* assigned by the writer, in every reachable state.
THEOREM TypeCorrect == Spec => []TypeOK
<1>1. TypeOK /\ [Next]_vars => TypeOK'
  <2> SUFFICES ASSUME TypeOK, [Next]_vars
               PROVE  TypeOK'
    OBVIOUS
  <2>1. CASE \E k \in Keys : Write(k)
    BY <2>1, WriteType
  <2>2. CASE Transmit \/ Release
    BY <2>2, TransmitType, ReleaseType
  <2>3. CASE \E f \in BOOLEAN : HbEvent(f)
    BY <2>3, HbEventType
  <2>4. CASE \E r \in Readers : Match(r) \/ DeleteReader(r) \/ DropConnection(r)
    BY <2>4, MatchType, DeleteReaderType, DropConnectionType
  <2>5. CASE \E r \in Readers : Discover(r) \/ SendAckNack(r)
    BY <2>5, DiscoverType, SendAckNackType
  <2>6. CASE \E m \in net : Receive(m)
    BY <2>6, HandleAckNackType, IgnoreAckNackType, IgnoreUnknownType, HandleDataType,
       HandleHeartbeatType, HandleGapType DEF Receive
  <2>7. CASE \E m \in net : Lose(m)
    BY <2>7, LoseType
  <2>8. CASE UNCHANGED vars
    BY <2>8 DEF TypeOK, seq, vars, wrVars, rnVars, bufVars, pwrVars, netVars
  <2> QED BY <2>1, <2>2, <2>3, <2>4, <2>5, <2>6, <2>7, <2>8 DEF Next
<1> QED BY <1>1, InitType, PTL DEF Spec

----------------------------------------------------------------------------
\* The reliable protocol loses nothing: proofs of the safety properties of
\* Rtps for any number of readers, samples, messages and faults.
\*
\* The argument: what a matched reader has not acknowledged is in the
\* cache (UnackedRetained), and it never acknowledges what it has not been
\* past (AckSound).  So a sample that is not in the cache when a heartbeat
\* or gap is composed has been acknowledged, hence passed, by every reader
\* it matters to, and it stays harmless to repeat the message however late
\* it arrives (ToldExcused).
\*
\* Every action is either a step of the writer, which leaves the readers'
\* buffers alone, or of one reader, which leaves the writer alone.  What
\* the argument needs of each kind is stated as WriterStep and ReaderStep.

\* an AckNack asks for nothing its reader is past, however old it is
AckNackBase == \A m \in net : m.type = "acknack" => m.base <= next[m.from]

\* the acknowledgement of a matched reader is a real one
AckKnown == \A r \in Readers : conn[r] = "matched" => ack[r] <= seq

\* it does no harm if r never gets s
Excused(r, s) == s \in delivered[r] \/ log[s] = NoKey \/ Overwritten(log, s)

\* what is announced as gone, whenever it arrives, and what a reader has already been
\* told is gone, need not be delivered
ToldExcused ==
    \A r \in Readers : conn[r] = "matched" =>
       \A m \in net \cup pack : \A s \in Told(m) : s > matchSeq[r] => Excused(r, s)
VoidExcused ==
    \A r \in Readers : conn[r] = "matched" =>
       \A s \in void[r] : s > matchSeq[r] => Excused(r, s)
PassedExcused ==
    \A r \in Readers : conn[r] = "matched" =>
       \A s \in matchSeq[r] + 1..seq : s < next[r] => Excused(r, s)

\* the inductive invariant
SafeInv ==
    /\ TypeOK
    /\ AckNackBase /\ AckKnown /\ AckSound
    /\ UnackedRetained /\ NoFalseGap
    /\ ToldExcused /\ VoidExcused /\ PassedExcused

----------------------------------------------------------------------------
\* Facts about logs and messages

\* l2 continues l1
Extends(l1, l2) == Len(l1) <= Len(l2) /\ \A t \in 1..Len(l1) : l2[t] = l1[t]

\* A sample keeps its newer ones when the log grows ...
LEMMA NewerGrows ==
    ASSUME NEW l1 \in Seq(Keys \cup {NoKey}), NEW l2 \in Seq(Keys \cup {NoKey}),
           Extends(l1, l2), NEW s \in 1..Len(l1)
    PROVE  /\ Cardinality(Newer(l1, s)) \in Nat /\ Cardinality(Newer(l2, s)) \in Nat
           /\ Cardinality(Newer(l1, s)) <= Cardinality(Newer(l2, s))
<1>1. Len(l1) \in Nat /\ Len(l2) \in Nat /\ Len(l1) <= Len(l2)
  BY DEF Extends
<1>2. Newer(l1, s) \subseteq Newer(l2, s)
  BY <1>1 DEF Newer, Extends
<1>3. Newer(l2, s) \subseteq 1..Len(l2)
  BY DEF Newer
<1>4. IsFiniteSet(Newer(l2, s))
  <2>1. IsFiniteSet(1..Len(l2))
    BY <1>1, FS_Interval
  <2> QED BY <1>3, <2>1, FS_Subset
<1>5. IsFiniteSet(Newer(l1, s)) /\ Cardinality(Newer(l1, s)) <= Cardinality(Newer(l2, s))
  BY <1>2, <1>4, FS_Subset
<1> QED BY <1>4, <1>5, FS_CardinalityType

\* ... so that it remains replaced.
LEMMA OverwrittenStays ==
    ASSUME NEW l1 \in Seq(Keys \cup {NoKey}), NEW l2 \in Seq(Keys \cup {NoKey}),
           Extends(l1, l2), NEW s \in 1..Len(l1), Overwritten(l1, s)
    PROVE  Overwritten(l2, s)
<1>1. IdxDepth(HDepth, TLDepth) \in Nat
  BY HistoryAssumption DEF IdxDepth
<1> QED BY <1>1, NewerGrows DEF Overwritten

\* Messages announce only numbers that have been assigned, as gone.
LEMMA ToldBounds ==
    ASSUME NEW n \in Nat, NEW m \in DataMsg(n) \cup HbMsg(n) \cup GapMsg(n) \cup AckMsg(n)
    PROVE  Told(m) \subseteq 0..n
<1>1. CASE m \in HbMsg(n)
  <2>1. PICK a \in 1..n : a = m.first
    BY <1>1 DEF HbMsg
  <2>2. m.type = "hb" /\ 1..a - 1 \subseteq 0..n
    BY <1>1 DEF HbMsg
  <2> QED BY <2>1, <2>2 DEF Told
<1>2. CASE m \in GapMsg(n)
  <2>1. m.type = "gap"
    BY <1>2 DEF GapMsg
  <2> QED BY <1>2, <2>1, GapAppliedBounds DEF Told
<1>3. CASE m \in DataMsg(n) \cup AckMsg(n)
  BY <1>3 DEF DataMsg, AckMsg, Told
<1> QED BY <1>1, <1>2, <1>3

----------------------------------------------------------------------------
\* Steps of the writer

\* a matched reader r stays so: its acknowledgement grows only to what it is past, and
\* only what it acknowledged or what was replaced is dropped
Kept(r) ==
    /\ conn[r] = "matched" /\ matchSeq'[r] = matchSeq[r]
    /\ ack'[r] >= ack[r] /\ ack'[r] <= seq
    /\ ack'[r] = ack[r] \/ ack'[r] < next[r]
    /\ \A s \in whc : s \in whc' \/ s <= ack'[r] \/ Overwritten(log', s)
    /\ \A s \in seq + 1..seq' : s \in whc' \/ log'[s] = NoKey

\* what every step of the writer, and every step that leaves all buffers alone, does
WriterStep ==
    /\ UNCHANGED <<next, void, delivered>>
    /\ Extends(log, log')
    /\ \A s \in whc' : s \in whc \/ s > seq
    /\ \A m \in net' : m.type = "acknack" => m \in net \/ m.base <= next[m.from]
    /\ \A m \in net' \cup pack' : m \in net \cup pack \/ Told(m) \cap whc' = {}
    /\ \A r \in Readers : conn'[r] = "matched" =>
          Kept(r) \/ (seq' = seq /\ matchSeq'[r] = seq /\ ack'[r] = seq)

\* Such a step preserves the invariant.
LEMMA WriterStepSafe ==
    ASSUME SafeInv, TypeOK', WriterStep
    PROVE  SafeInv'
<1>1. TypeOK /\ seq \in Nat /\ seq' \in Nat /\ seq <= seq'
      /\ log \in Seq(Keys \cup {NoKey}) /\ log' \in Seq(Keys \cup {NoKey})
  <2>1. TypeOK /\ Extends(log, log')
    BY DEF SafeInv, WriterStep
  <2>2. log \in Seq(Keys \cup {NoKey})
    BY <2>1 DEF TypeOK
  <2>3. log' \in Seq(Keys \cup {NoKey})
    BY DEF TypeOK
  <2> QED BY <2>1, <2>2, <2>3 DEF seq, Extends
<1>2. /\ next \in [Readers -> Nat] /\ matchSeq \in [Readers -> Nat]
      /\ ack \in [Readers -> Nat] /\ ack' \in [Readers -> Nat]
  <2>1. next \in [Readers -> 1..seq + 1] /\ matchSeq \in [Readers -> 0..seq]
    BY <1>1 DEF TypeOK
  <2>2. ack \in [Readers -> Nat]
    BY <1>1, ReaderAcks
  <2>3. ack' \in [Readers -> 0..seq' \cup {AllAcked}]
    BY DEF TypeOK, AllAcked
  <2> QED BY <1>1, <2>1, <2>2, <2>3, ReaderAcks
<1>3. \A r \in Readers : \A s \in 1..seq : Excused(r, s) => Excused(r, s)'
  <2>1. \A s \in 1..seq : Overwritten(log, s) => Overwritten(log', s)
    BY <1>1, OverwrittenStays DEF WriterStep, seq
  <2>2. \A s \in 1..seq : log'[s] = log[s]
    BY DEF WriterStep, Extends, seq
  <2>3. delivered' = delivered
    BY DEF WriterStep
  <2> QED BY <2>1, <2>2, <2>3 DEF Excused
<1>12. /\ \A m \in net \cup pack : Told(m) \subseteq 0..seq
       /\ \A m \in net' \cup pack' : Told(m) \subseteq 0..seq'
  <2>1. \A m \in net \cup pack :
           m \in DataMsg(seq) \cup HbMsg(seq) \cup GapMsg(seq) \cup AckMsg(seq)
    BY <1>1 DEF TypeOK
  <2>2. \A m \in net' \cup pack' :
           m \in DataMsg(seq') \cup HbMsg(seq') \cup GapMsg(seq') \cup AckMsg(seq')
    BY DEF TypeOK
  <2> QED BY <1>1, <2>1, <2>2, ToldBounds
<1>4. AckNackBase'
  BY DEF AckNackBase, WriterStep, SafeInv
<1>5. AckKnown'
  <2> SUFFICES ASSUME NEW r \in Readers, conn'[r] = "matched"
               PROVE  ack'[r] <= seq'
    BY DEF AckKnown
  <2>1. ack'[r] <= seq
    BY <1>1, <1>2 DEF WriterStep, Kept
  <2> QED BY <1>1, <1>2, <2>1
<1>6. AckSound'
  BY <1>1, <1>2 DEF AckSound, WriterStep, Kept, SafeInv
<1>7. UnackedRetained'
  <2> SUFFICES ASSUME NEW r \in Readers, conn'[r] = "matched",
                      NEW s \in matchSeq'[r] + 1..seq', s > ack'[r]
               PROVE  s \in whc' \/ log'[s] = NoKey \/ Overwritten(log', s)
    BY DEF UnackedRetained
  <2>1. Kept(r) \/ (seq' = seq /\ matchSeq'[r] = seq /\ ack'[r] = seq)
    BY DEF WriterStep
  <2>2. CASE seq' = seq /\ matchSeq'[r] = seq
    BY <1>1, <2>2
  <2>3. CASE Kept(r)
    <3>1. CASE s > seq
      BY <1>1, <1>2, <2>3, <3>1 DEF Kept
    <3>2. CASE s <= seq
      <4>1. s \in matchSeq[r] + 1..seq /\ s > ack[r] /\ s \in 1..seq
        BY <1>1, <1>2, <2>3, <3>2 DEF Kept
      <4>2. s \in whc \/ log[s] = NoKey \/ Overwritten(log, s)
        BY <2>3, <4>1 DEF SafeInv, UnackedRetained, Kept
      <4>3. log'[s] = log[s] /\ (Overwritten(log, s) => Overwritten(log', s))
        BY <1>1, <4>1, OverwrittenStays DEF WriterStep, Extends, seq
      <4>4. s \in whc => s \in whc' \/ Overwritten(log', s)
        <5>1. ~(s <= ack'[r])
          BY <1>1, <1>2
        <5> QED BY <2>3, <5>1 DEF Kept
      <4> QED BY <4>2, <4>3, <4>4
    <3> QED BY <1>1, <3>1, <3>2
  <2> QED BY <2>1, <2>2, <2>3
<1>8. NoFalseGap'
  <2> SUFFICES ASSUME NEW m \in net' \cup pack', NEW s \in whc', s \in Told(m)
               PROVE  FALSE
    BY DEF NoFalseGap, Told, GapApplied
  <2>1. m \in net \cup pack /\ s \in 0..seq
    BY <1>12 DEF WriterStep
  <2>2. s \in whc
    BY <1>1, <2>1 DEF WriterStep
  <2> QED BY <2>1, <2>2 DEF SafeInv, NoFalseGap
<1>9. PassedExcused'
  <2> SUFFICES ASSUME NEW r \in Readers, conn'[r] = "matched",
                      NEW s \in matchSeq'[r] + 1..seq', s < next'[r]
               PROVE  Excused(r, s)'
    BY DEF PassedExcused
  <2>1. Kept(r) \/ (seq' = seq /\ matchSeq'[r] = seq /\ ack'[r] = seq)
    BY DEF WriterStep
  <2>2. CASE seq' = seq /\ matchSeq'[r] = seq
    BY <1>1, <2>2
  <2>3. CASE Kept(r)
    <3>1. next'[r] = next[r] /\ next[r] \in 1..seq + 1
      BY <1>1 DEF WriterStep, TypeOK
    <3>2. s \in matchSeq[r] + 1..seq /\ s \in 1..seq /\ s < next[r]
      BY <1>1, <1>2, <2>3, <3>1 DEF Kept
    <3>3. Excused(r, s)
      BY <2>3, <3>2 DEF SafeInv, PassedExcused, Kept
    <3> QED BY <1>3, <3>2, <3>3
  <2> QED BY <2>1, <2>2, <2>3
<1>10. ToldExcused'
  <2> SUFFICES ASSUME NEW r \in Readers, conn'[r] = "matched",
                      NEW m \in net' \cup pack', NEW s \in Told(m), s > matchSeq'[r]
               PROVE  Excused(r, s)'
    BY DEF ToldExcused, Told, GapApplied
  <2>1. Kept(r) \/ (seq' = seq /\ matchSeq'[r] = seq /\ ack'[r] = seq)
    BY DEF WriterStep
  <2>2. Told(m) \subseteq 0..seq'
    BY <1>12
  <2>3. CASE seq' = seq /\ matchSeq'[r] = seq
    BY <1>1, <2>2, <2>3
  <2>4. CASE Kept(r) /\ m \in net \cup pack
    <3>1. Told(m) \subseteq 0..seq
      BY <1>12, <2>4
    <3>2. s \in 1..seq /\ s > matchSeq[r]
      BY <1>1, <1>2, <2>4, <3>1 DEF Kept
    <3>3. Excused(r, s)
      BY <2>4, <3>2 DEF SafeInv, ToldExcused, Kept
    <3> QED BY <1>3, <3>2, <3>3
  <2>5. CASE Kept(r) /\ Told(m) \cap whc' = {}
    <3>1. s \in matchSeq'[r] + 1..seq' /\ s \notin whc' /\ matchSeq'[r] \in Nat
      BY <1>1, <1>2, <2>2, <2>5 DEF Kept
    <3>2. s <= ack'[r] \/ log'[s] = NoKey \/ Overwritten(log', s)
      BY <1>1, <1>2, <1>7, <3>1 DEF UnackedRetained
    <3>3. CASE s <= ack'[r]
      <4>1. ack'[r] < next'[r]
        BY <1>1, <1>2, <1>6, <3>1, <3>3 DEF AckSound
      <4>2. s < next'[r]
        BY <1>1, <1>2, <3>1, <3>3, <4>1 DEF WriterStep
      <4> QED BY <1>9, <3>1, <4>2 DEF PassedExcused
    <3> QED BY <3>2, <3>3 DEF Excused
  <2> QED BY <2>1, <2>3, <2>4, <2>5 DEF WriterStep
<1>11. VoidExcused'
  <2> SUFFICES ASSUME NEW r \in Readers, conn'[r] = "matched",
                      NEW s \in void'[r], s > matchSeq'[r]
               PROVE  Excused(r, s)'
    BY DEF VoidExcused
  <2>1. Kept(r) \/ (seq' = seq /\ matchSeq'[r] = seq /\ ack'[r] = seq)
    BY DEF WriterStep
  <2>2. s \in void[r] /\ s \in 1..seq
    BY <1>1 DEF WriterStep, TypeOK
  <2>3. CASE seq' = seq /\ matchSeq'[r] = seq
    BY <1>1, <2>2, <2>3
  <2>4. CASE Kept(r)
    BY <1>3, <2>2, <2>4 DEF SafeInv, VoidExcused, Kept
  <2> QED BY <2>1, <2>3, <2>4
<1> QED BY <1>4, <1>5, <1>6, <1>7, <1>8, <1>9, <1>10, <1>11 DEF SafeInv

\* nothing the readers depend on changes, but perhaps messages are sent
LEMMA QuietStep ==
    ASSUME SafeInv,
           UNCHANGED <<log, whc, conn, ack, matchSeq, next, void, delivered>>,
           \A m \in net' : m.type = "acknack" => m \in net \/ m.base <= next[m.from],
           \A m \in net' \cup pack' : m \in net \cup pack \/ Told(m) \cap whc = {}
    PROVE  WriterStep
<1>1. seq \in Nat /\ seq' = seq /\ ack \in [Readers -> Nat]
  BY ReaderAcks DEF SafeInv, seq
<1>2. Extends(log, log')
  BY <1>1 DEF Extends, seq
<1>3. \A r \in Readers : conn'[r] = "matched" => Kept(r)
  <2> SUFFICES ASSUME NEW r \in Readers, conn[r] = "matched"
               PROVE  Kept(r)
    OBVIOUS
  <2>1. ack[r] \in Nat /\ ack[r] <= seq /\ seq + 1..seq' = {}
    BY <1>1 DEF SafeInv, AckKnown
  <2> QED BY <2>1 DEF Kept
<1> QED BY <1>2, <1>3 DEF WriterStep

\* Sending the packet is such a step.
LEMMA TransmitStep == ASSUME SafeInv, Transmit PROVE WriterStep
<1>1. \A m \in pack : m.type # "acknack"
  BY DEF SafeInv, TypeOK, DataMsg, HbMsg
<1>2. UNCHANGED <<log, whc, conn, ack, matchSeq, next, void, delivered>>
      /\ net' = net \cup pack /\ pack' = {}
  BY DEF Transmit, rnVars, bufVars
<1> QED BY <1>1, <1>2, QuietStep

\* So is releasing it.
LEMMA ReleaseStep == ASSUME SafeInv, Release PROVE WriterStep
BY QuietStep DEF Release, rnVars, bufVars, netVars

\* So is the heartbeat event: its heartbeats announce nothing that is in the cache.
LEMMA HbEventStep == ASSUME SafeInv, NEW f \in BOOLEAN, HbEvent(f) PROVE WriterStep
<1> DEFINE R == HbAudience(seq)
           msgs == Heartbeats(R, HbRange(whc, seq, seqXmit, FALSE), f)
<1>1. seq \in Nat /\ whc \in SUBSET (1..seq) /\ seqXmit \in 0..seq
  BY DEF SafeInv, TypeOK, seq
<1>2. ASSUME MustHaveHbScheduled(whc)
      PROVE  \A m \in msgs : m.type # "acknack" /\ Told(m) \cap whc = {}
  <2>1. PICK s \in whc : TRUE
    BY <1>2 DEF MustHaveHbScheduled
  <2>2. seq \in Nat \ {0}
    BY <1>1, <2>1
  <2>3. \A b \in BOOLEAN : \A m \in Heartbeats(R, HbRange(whc, seq, seqXmit, b), f) :
           m \in HbMsg(seq) /\ Told(m) \cap whc = {}
    <3>1. R \in SUBSET Readers
      BY Audiences
    <3> HIDE DEF R
    <3> QED BY <1>1, <2>2, <3>1, HeartbeatsAnnounce
  <2>4. \A m \in msgs : m \in HbMsg(seq) /\ Told(m) \cap whc = {}
    BY <2>3, Zenon
  <2> QED BY <2>4 DEF HbMsg
<1>3. net' = net \/ (MustHaveHbScheduled(whc) /\ net' = net \cup msgs)
  BY DEF HbEvent
<1>4. UNCHANGED <<log, whc, conn, ack, matchSeq, next, void, delivered, pack>>
  BY DEF HbEvent, rnVars, bufVars
<1> HIDE DEF msgs
<1> QED BY <1>2, <1>3, <1>4, QuietStep

\* Discovery of the writer, lost and ignored messages, samples received again
LEMMA IdleStep ==
    ASSUME SafeInv, net' \subseteq net, UNCHANGED <<wrVars, rnVars, bufVars>>
    PROVE  WriterStep
BY QuietStep DEF wrVars, rnVars, bufVars

\* So is sending an AckNack: it acknowledges what its reader is past.
LEMMA SendAckNackStep == ASSUME SafeInv, NEW r \in Readers, SendAckNack(r) PROVE WriterStep
<1> DEFINE num == LowerOf(HigherOf(last[r] + 1 - next[r], 0), BitmapMax)
           more == num > 0 /\ next[r] + num <= last[r]
           a == [type |-> "acknack", from |-> r, base |-> next[r], num |-> num,
                 nack |-> Missing(r, next[r] + num - 1), final |-> seenHb[r] /\ ~more]
<1>1. net' = net \cup {a}
  BY DEF SendAckNack
<1>2. UNCHANGED <<log, whc, conn, ack, matchSeq, next, void, delivered, pack>>
  BY DEF SendAckNack, wrVars, rnVars, bufVars
<1>3. PICK m : m = a
  OBVIOUS
<1>4. Told(m) = {} /\ m.base <= next[m.from]
  <2>1. m.type = "acknack" /\ m.from = r /\ m.base = next[r]
    BY <1>3
  <2>2. next[r] \in 1..seq + 1 /\ seq \in Nat
    BY DEF SafeInv, TypeOK, seq
  <2> QED BY <2>1, <2>2 DEF Told
<1> HIDE DEF a
<1> QED BY <1>1, <1>2, <1>3, <1>4, QuietStep

\* So is matching a reader: nothing that was written before concerns it.
LEMMA MatchStep == ASSUME SafeInv, NEW r \in Readers, Match(r) PROVE WriterStep
<1>1. seq \in Nat /\ seq' = seq /\ ack \in [Readers -> Nat] /\ matchSeq \in [Readers -> 0..seq]
      /\ conn \in [Readers -> ConnStates]
  BY ReaderAcks DEF SafeInv, TypeOK, Match, seq
<1>2. UNCHANGED <<log, whc, next, void, delivered, net, pack>>
  BY DEF Match, bufVars, netVars
<1>3. Extends(log, log')
  BY <1>1, <1>2 DEF Extends, seq
<1>4. ASSUME NEW q \in Readers, conn'[q] = "matched"
      PROVE  Kept(q) \/ (seq' = seq /\ matchSeq'[q] = seq /\ ack'[q] = seq)
  <2>1. CASE q = r
    <3>1. conn' = [conn EXCEPT ![r] = "matched"] /\ ack' = [ack EXCEPT ![r] = seq]
      BY <1>1, <1>4, <2>1 DEF Match
    <3>2. matchSeq' = [matchSeq EXCEPT ![r] = seq]
      BY DEF Match
    <3> QED BY <1>1, <2>1, <3>1, <3>2
  <2>2. CASE q # r
    <3>1. conn[q] = "matched" /\ ack'[q] = ack[q] /\ matchSeq'[q] = matchSeq[q]
      BY <1>1, <1>4, <2>2 DEF Match
    <3>2. ack[q] \in Nat /\ ack[q] <= seq /\ seq + 1..seq' = {}
      BY <1>1, <3>1 DEF SafeInv, AckKnown
    <3> QED BY <1>2, <3>1, <3>2 DEF Kept
  <2> QED BY <2>1, <2>2
<1> QED BY <1>2, <1>3, <1>4 DEF WriterStep

\* Samples are dropped because readers in C acknowledged them all.
LEMMA RemoveAckedKeeps ==
    ASSUME TypeOK, NEW C \in SUBSET Readers, NEW a \in [Readers -> Nat], RemoveAcked(C, a)
    PROVE  /\ whc' \subseteq whc
           /\ \A r \in C : \A s \in whc : s \in whc' \/ s <= a[r]
<1>1. MaxDropSeq(C, a, seq) \in 0..seq /\ \A r \in C : MaxDropSeq(C, a, seq) <= a[r]
  BY MaxDropBounds, ReaderAcks
<1>2. PICK d \in Nat : d = MaxDropSeq(C, a, seq)
  BY <1>1, ReaderAcks
<1>3. whc' = Remaining(d)
  BY <1>2 DEF RemoveAcked
<1>4. whc \subseteq Nat
  <2>1. whc \subseteq 1..seq
    BY DEF TypeOK
  <2> QED BY <2>1, ReaderAcks
<1>5. ASSUME NEW r \in C, NEW s \in whc, s \notin whc'
      PROVE  s <= a[r]
  <2>1. ~(s > d) /\ d <= a[r]
    BY <1>1, <1>2, <1>3, <1>5, RemainingBounds
  <2> QED BY <1>4, <2>1
<1> QED BY <1>3, <1>5, RemainingBounds

\* A reader goes: others keep what they have not acknowledged.
LEMMA ReaderGoes ==
    ASSUME SafeInv, NEW q \in Readers, NEW C \in SUBSET Readers,
           UNCHANGED <<log, matchSeq, next, void, delivered, net, pack>>,
           \A r \in Readers : conn'[r] = "matched" =>
              conn[r] = "matched" /\ r \in C /\ ack'[r] = ack[r],
           ack' \in [Readers -> Nat], RemoveAcked(C, ack')
    PROVE  WriterStep
<1>1. seq \in Nat /\ seq' = seq /\ ack \in [Readers -> Nat] /\ TypeOK
  BY ReaderAcks DEF SafeInv, seq
<1>2. Extends(log, log')
  BY <1>1 DEF Extends, seq
<1>3. /\ whc' \subseteq whc
      /\ \A r \in C : \A s \in whc : s \in whc' \/ s <= ack'[r]
  BY <1>1, RemoveAckedKeeps
<1>4. ASSUME NEW r \in Readers, conn'[r] = "matched"
      PROVE  Kept(r)
  <2>1. conn[r] = "matched" /\ ack'[r] = ack[r] /\ r \in C
    BY <1>4
  <2>2. ack[r] \in Nat /\ ack[r] <= seq /\ seq + 1..seq' = {}
    BY <1>1, <2>1 DEF SafeInv, AckKnown
  <2> QED BY <1>3, <2>1, <2>2 DEF Kept
<1> QED BY <1>2, <1>3, <1>4 DEF WriterStep

\* So is deleting a proxy reader, the drop of what only it had not acknowledged included.
LEMMA DeleteReaderStep == ASSUME SafeInv, NEW r \in Readers, DeleteReader(r) PROVE WriterStep
<1>1. ack' = [ack EXCEPT ![r] = AllAcked] /\ RemoveAcked(Conn, ack')
      /\ UNCHANGED <<log, matchSeq, next, void, delivered, net, pack>>
  BY DEF DeleteReader, bufVars, netVars
<1>2. ack \in [Readers -> Nat] /\ AllAcked \in Nat
  BY ReaderAcks DEF SafeInv
<1>3. \A q \in Readers : conn'[q] = "matched" =>
         conn[q] = "matched" /\ q \in Conn /\ ack'[q] = ack[q]
  <2>1. PICK c \in {"deleted", "straggler"} : conn' = [conn EXCEPT ![r] = c]
    BY DEF DeleteReader
  <2>2. conn \in [Readers -> ConnStates]
    BY DEF SafeInv, TypeOK
  <2>3. \A q \in Readers : conn'[q] = "matched" => conn[q] = "matched" /\ q # r
    BY <2>1, <2>2
  <2> QED BY <1>1, <1>2, <2>3 DEF Conn
<1> QED BY <1>1, <1>2, <1>3, Audiences, ReaderGoes

\* So is dropping its connection.
LEMMA DropConnectionStep == ASSUME SafeInv, NEW r \in Readers, DropConnection(r) PROVE WriterStep
<1>1. ack' = ack /\ RemoveAcked(Conn \ {r}, ack')
      /\ UNCHANGED <<log, matchSeq, next, void, delivered, net, pack>>
  BY DEF DropConnection, bufVars, netVars
<1>2. ack \in [Readers -> Nat] /\ Conn \ {r} \in SUBSET Readers
  BY ReaderAcks, Audiences DEF SafeInv
<1>3. \A q \in Readers : conn'[q] = "matched" =>
         conn[q] = "matched" /\ q \in Conn \ {r} /\ ack'[q] = ack[q]
  <2>1. conn' = [conn EXCEPT ![r] = "gone"] /\ conn \in [Readers -> ConnStates]
    BY DEF DropConnection, SafeInv, TypeOK
  <2> QED BY <1>1, <2>1 DEF Conn
<1> QED BY <1>1, <1>2, <1>3, ReaderGoes

\* Inserting a sample pushes out only what is replaced or acknowledged.
LEMMA InsertedKeeps ==
    ASSUME NEW n \in Nat, NEW w \in SUBSET (1..n), NEW l, NEW d \in Nat, Len(l) = n + 1,
           NEW s \in w
    PROVE  s \in Inserted(w, l, d) \/ s <= d \/ Overwritten(l, s)
<1>1. s \in Nat /\ s <= n
  OBVIOUS
<1>2. IdxDepth(HDepth, TLDepth) \in Nat /\ TLDepth \in Nat /\ HDepth \in Nat
  BY HistoryAssumption DEF IdxDepth
<1>3. HDepth > 0 /\ Cardinality(Newer(l, s)) = IdxDepth(HDepth, TLDepth) => Overwritten(l, s)
  BY <1>2 DEF Overwritten
<1> QED BY <1>1, <1>2, <1>3 DEF Inserted

\* So is writing: if the cache is bypassed, no reader is matched.
LEMMA WriteStep == ASSUME SafeInv, NEW k \in Keys, Write(k) PROVE WriterStep
<1> DEFINE n == seq + 1
           d == MaxDropSeq(Conn, ack, n)
<1>1. TypeOK
  BY DEF SafeInv
<1>2. /\ seq' = n /\ log' = Append(log, k) /\ log' \in Seq(Keys \cup {NoKey})
      /\ n <= MaxSeq
      /\ whc' = IF HaveReliableSubs \/ TL THEN Inserted(whc, log', d) ELSE whc
      /\ whc' \subseteq 1..n
      /\ \A m \in pack' : m \in pack \/ Told(m) \cap whc' = {}
  <2>1. /\ seq' = seq + 1 /\ log' = Append(log, k) /\ log' \in Seq(Keys \cup {NoKey})
        /\ seq + 1 <= MaxSeq
        /\ whc' = IF HaveReliableSubs \/ TL
                  THEN Inserted(whc, log', MaxDropSeq(Conn, ack, seq + 1)) ELSE whc
        /\ whc' \subseteq 1..seq + 1
        /\ \A m \in pack' : m \in pack \/ ( /\ m \in DataMsg(seq + 1) \cup HbMsg(seq + 1)
                                           /\ Told(m) \cap whc' = {} )
    BY <1>1, WriteParts
  <2> QED BY <2>1
<1>3. seq \in Nat /\ n \in Nat /\ ack \in [Readers -> Nat] /\ whc \in SUBSET (1..seq)
  <2>1. seq \in Nat /\ ack \in [Readers -> Nat]
    BY <1>1, ReaderAcks
  <2>2. whc \subseteq 1..seq
    BY <1>1 DEF TypeOK
  <2> QED BY <2>1, <2>2
<1>4. UNCHANGED <<conn, ack, matchSeq, next, void, delivered, net>>
  BY DEF Write, rnVars, bufVars, netVars
<1>5. Extends(log, log')
  BY <1>1, <1>2 DEF Extends, TypeOK, seq
<1>6. d \in Nat /\ \A r \in Conn : d <= ack[r]
  BY <1>3, Audiences, MaxDropBounds
<1>7. ASSUME NEW r \in Readers, conn[r] = "matched"
      PROVE  Kept(r)
  <2>1. r \in Conn /\ ack[r] \in Nat /\ ack[r] <= seq
    BY <1>3, <1>7 DEF SafeInv, AckKnown, Conn
  <2>2. HaveReliableSubs
    <3>1. ack[r] # AllAcked
      BY <1>2, <1>3, <2>1, RtpsAssumption DEF AllAcked
    <3> QED BY <2>1, <3>1 DEF HaveReliableSubs
  <2>3. whc' = Inserted(whc, log', d) /\ Len(log') = n
    BY <1>2, <2>2 DEF seq
  <2>4. \A s \in whc : s \in whc' \/ s <= ack[r] \/ Overwritten(log', s)
    <3> SUFFICES ASSUME NEW s \in whc, s \notin whc', ~Overwritten(log', s)
                 PROVE  s <= ack[r]
      OBVIOUS
    <3> HIDE DEF d
    <3>1. s <= d
      BY <1>3, <1>6, <2>3, InsertedKeeps
    <3>2. d <= ack[r] /\ s \in Nat
      BY <1>3, <1>6, <2>1
    <3> QED BY <1>6, <2>1, <3>1, <3>2
  <2>5. \A s \in seq + 1..seq' : s \in whc'
    <3>1. n \in Inserted(whc, log', d)
      BY <2>3 DEF Inserted
    <3>2. seq + 1..seq' = {n}
      BY <1>2, <1>3
    <3> QED BY <2>3, <3>1, <3>2
  <2> QED BY <1>3, <1>4, <1>7, <2>1, <2>4, <2>5 DEF Kept
<1>8. \A s \in whc' : s \in whc \/ s > seq
  <2>1. whc' \subseteq whc \cup {n}
    BY <1>2 DEF Inserted, seq
  <2> QED BY <1>3, <2>1
<1> QED BY <1>2, <1>4, <1>5, <1>7, <1>8 DEF WriterStep

\* So is handling an AckNack: the acknowledgement of its sender grows only to what the
\* sender is past, and only what all acknowledged is dropped.
LEMMA HandleAckNackStep ==
    ASSUME SafeInv, NEW m \in net, m.type = "acknack", HandleAckNack(m)
    PROVE  WriterStep
<1>1. PICK r : r = m.from
  OBVIOUS
<1>2. PICK a : a = [ack EXCEPT ![r] = AckedUpTo(m, r)]
  OBVIOUS
<1>3. AckNackStep(m, r, a)
  BY <1>1, <1>2, HandleAckNackParts DEF SafeInv
<1>4. UNCHANGED <<next, void, delivered, matchSeq, pack>>
  BY DEF HandleAckNack, bufVars
<1>5. seq \in Nat /\ seq' \in Nat /\ seq <= seq' /\ ack \in [Readers -> Nat] /\ r \in Readers
      /\ whc \subseteq 1..seq
  BY <1>3, ReaderAcks DEF AckNackStep, SafeInv, TypeOK
<1>6. Extends(log, log')
  <2>1. CASE log' = log
    BY <1>5, <2>1 DEF Extends, seq
  <2>2. CASE seq = 0
    BY <1>5, <2>2 DEF Extends, seq
  <2> QED BY <1>3, <2>1, <2>2 DEF AckNackStep
<1>7. \A s \in seq + 1..seq' : log'[s] = NoKey
  <2>1. CASE log' = log
    BY <1>5, <2>1 DEF seq
  <2>2. CASE seq = 0 /\ log' = <<NoKey>>
    BY <1>5, <2>2 DEF seq
  <2> QED BY <1>3, <2>1, <2>2 DEF AckNackStep
<1>8. ASSUME NEW q \in Readers, conn'[q] = "matched"
      PROVE  Kept(q)
  <2>1. conn[q] = "matched" /\ q \in Conn
    BY <1>3, <1>8 DEF AckNackStep, Conn, SafeInv, TypeOK
  <2>2. ack[q] \in Nat /\ ack[q] <= seq
    BY <1>5, <2>1 DEF SafeInv, AckKnown
  <2>3. /\ ack'[q] = a[q] /\ a[q] \in Nat /\ a[q] >= ack[q] /\ a[q] <= seq
        /\ a[q] = ack[q] \/ a[q] < next[q]
    <3>1. CASE q # r
      BY <1>2, <1>3, <1>5, <2>2, <3>1 DEF AckNackStep
    <3>2. CASE q = r
      <4>1. PICK b \in 1..seq + 1 : b = m.base
        BY <1>3 DEF AckNackStep, AckMsg
      <4>2. b <= next[q] /\ next[q] \in Nat
        <5>1. next[q] \in 1..seq + 1
          BY DEF SafeInv, TypeOK
        <5> QED BY <1>1, <1>5, <3>2, <4>1, <5>1 DEF SafeInv, AckNackBase
      <4>3. a[q] = AckedUpTo(m, r)
        BY <1>2, <1>5, <3>2
      <4>4. PICK v : v = a[q]
        OBVIOUS
      <4>5. v = IF b - 1 > ack[q] THEN LowerOf(b - 1, seq) ELSE ack[q]
        BY <3>2, <4>1, <4>3, <4>4 DEF AckedUpTo
      <4>6. /\ v \in Nat /\ v >= ack[q] /\ v <= seq
            /\ v = ack[q] \/ v < next[q]
        BY <1>5, <2>2, <4>2, <4>5 DEF LowerOf
      <4>7. ack'[q] = ResponsiveAgain(m, v, whc')
        BY <1>3, <1>5, <3>2, <4>4 DEF AckNackStep
      <4>8. v # AllAcked
        <5>1. seq <= MaxSeq
          BY DEF SafeInv, TypeOK
        <5> QED BY <1>5, <4>6, <5>1, RtpsAssumption DEF AllAcked
      <4> QED BY <4>4, <4>6, <4>7, <4>8 DEF ResponsiveAgain
    <3> QED BY <3>1, <3>2
  <2>4. \A s \in whc : s \in whc' \/ s <= ack'[q]
    BY <1>3, <2>1, <2>3 DEF AckNackStep
  <2> QED BY <1>4, <1>7, <2>1, <2>3, <2>4 DEF Kept
<1>9. \A g \in net' : g.type = "acknack" => g \in net
  BY <1>3 DEF AckNackStep, DataMsg, HbMsg, GapMsg
<1>10. \A s \in whc' : s \in whc
  BY <1>3 DEF AckNackStep
<1>11. \A g \in net' \cup pack' : g \in net \cup pack \/ Told(g) \cap whc' = {}
  BY <1>3, <1>4 DEF AckNackStep
<1> QED BY <1>4, <1>6, <1>8, <1>9, <1>10, <1>11 DEF WriterStep

----------------------------------------------------------------------------
\* Steps of a reader

\* A reader r hands on what it can of h, going past what it has or was told is gone.
ReaderStep(r, h, v) ==
    /\ h \in SUBSET (1..seq) /\ v \in SUBSET (1..seq) /\ Hand(r, h, v)
    /\ UNCHANGED <<log, whc, conn, ack, matchSeq, pack>> /\ net' \subseteq net
    /\ \A s \in v : s \in void[r] \/ \E m \in net : s \in Told(m)

\* Such a step preserves the invariant.
LEMMA ReaderStepSafe ==
    ASSUME SafeInv, TypeOK', NEW r \in Readers, NEW h, NEW v, ReaderStep(r, h, v)
    PROVE  SafeInv'
<1>0. /\ h \in SUBSET (1..seq) /\ v \in SUBSET (1..seq) /\ Hand(r, h, v)
      /\ UNCHANGED <<log, whc, conn, ack, matchSeq, pack>> /\ net' \subseteq net
      /\ \A s \in v : s \in void[r] \/ \E m \in net : s \in Told(m)
  BY DEF ReaderStep
<1>1. PICK n \in next[r]..MaxSeq + 1 :
         /\ next[r]..n - 1 \subseteq h \cup v
         /\ next' = [next EXCEPT ![r] = n]
         /\ delivered' = [delivered EXCEPT ![r] = @ \cup {s \in h : s < n}]
         /\ void' = [void EXCEPT ![r] = {s \in v : s > n}]
  BY <1>0 DEF Hand
<1>2. /\ seq \in Nat /\ seq' = seq /\ next \in [Readers -> Nat]
      /\ ack \in [Readers -> Nat] /\ matchSeq \in [Readers -> Nat]
      /\ delivered \in [Readers -> SUBSET (1..seq)]
  <2>1. seq \in Nat /\ seq' = seq
    BY <1>0, ReaderAcks DEF SafeInv, seq
  <2>2. next \in [Readers -> 1..seq + 1] /\ matchSeq \in [Readers -> 0..seq]
        /\ delivered \in [Readers -> SUBSET (1..seq)]
    BY DEF SafeInv, TypeOK
  <2> QED BY <2>1, <2>2, ReaderAcks DEF SafeInv
<1>3. \A q \in Readers : next[q] <= next'[q] /\ next'[q] \in Nat /\ delivered[q] \subseteq delivered'[q]
  <2>1. n \in Nat /\ next[r] <= n
    BY <1>0, <1>1, <1>2, RtpsAssumption
  <2> QED BY <1>0, <1>1, <1>2, <2>1
<1>4. \A q \in Readers : \A s : Excused(q, s) => Excused(q, s)'
  BY <1>0, <1>3 DEF Excused
<1>5. AckNackBase'
  <2> SUFFICES ASSUME NEW m \in net', m.type = "acknack"
               PROVE  m.base <= next'[m.from]
    BY <1>0 DEF AckNackBase
  <2>1. m \in AckMsg(seq) /\ m \in net
    BY <1>0, MessageKinds DEF SafeInv
  <2>2. m.from \in Readers /\ m.base \in 1..seq + 1
    BY <2>1 DEF AckMsg
  <2>3. m.base <= next[m.from] /\ next[m.from] <= next'[m.from]
    BY <1>0, <1>3, <2>1, <2>2 DEF SafeInv, AckNackBase
  <2> QED BY <1>0, <1>2, <1>3, <2>2, <2>3
<1>6. AckKnown' /\ UnackedRetained'
  BY <1>0, <1>2 DEF SafeInv, AckKnown, UnackedRetained
<1>7. AckSound'
  <2> SUFFICES ASSUME NEW q \in Readers, conn[q] = "matched"
               PROVE  ack[q] <= matchSeq[q] \/ ack[q] < next'[q]
    BY <1>0 DEF AckSound
  <2>1. ack[q] <= matchSeq[q] \/ ack[q] < next[q]
    BY DEF SafeInv, AckSound
  <2> QED BY <1>0, <1>2, <1>3, <2>1
<1>8. NoFalseGap'
  BY <1>0 DEF SafeInv, NoFalseGap
<1>9. ToldExcused'
  BY <1>0, <1>4 DEF SafeInv, ToldExcused
<1>10. ASSUME NEW s \in v, conn[r] = "matched", s > matchSeq[r]
       PROVE  Excused(r, s)'
  <2>1. s \in void[r] \/ \E m \in net \cup pack : s \in Told(m)
    BY <1>0
  <2>2. Excused(r, s)
    BY <1>10, <2>1 DEF SafeInv, VoidExcused, ToldExcused
  <2> QED BY <1>0, <1>4, <2>2
<1>11. VoidExcused'
  <2> SUFFICES ASSUME NEW q \in Readers, conn[q] = "matched",
                      NEW s \in void'[q], s > matchSeq[q]
               PROVE  Excused(q, s)'
    BY <1>0 DEF VoidExcused
  <2>1. void \in [Readers -> SUBSET (1..seq)]
    BY DEF SafeInv, TypeOK
  <2>2. CASE q = r
    <3>1. s \in v
      BY <1>0, <1>1, <2>1, <2>2
    <3> QED BY <1>10, <2>2, <3>1
  <2>3. CASE q # r
    <3>1. s \in void[q]
      BY <1>0, <1>1, <2>1, <2>3
    <3> QED BY <1>0, <1>4, <3>1 DEF SafeInv, VoidExcused
  <2> QED BY <2>2, <2>3
<1>12. PassedExcused'
  <2> SUFFICES ASSUME NEW q \in Readers, conn[q] = "matched",
                      NEW s \in matchSeq[q] + 1..seq, s < next'[q]
               PROVE  Excused(q, s)'
    BY <1>0, <1>2 DEF PassedExcused
  <2>1. CASE s < next[q]
    BY <1>0, <1>4, <2>1 DEF SafeInv, PassedExcused
  <2>2. CASE q = r /\ ~(s < next[r])
    <3>1. s \in next[r]..n - 1
      BY <1>0, <1>1, <1>2, <2>2, RtpsAssumption
    <3>2. s \in h \/ s \in v
      BY <1>0, <1>1, <3>1
    <3>3. CASE s \in h
      <4>1. s < n
        BY <1>0, <1>1, <1>2, <3>1, RtpsAssumption
      <4> QED BY <1>0, <1>1, <1>2, <2>2, <3>3, <4>1 DEF Excused
    <3>4. CASE s \in v
      BY <1>0, <1>2, <1>10, <2>2, <3>4
    <3> QED BY <3>2, <3>3, <3>4
  <2>3. CASE q # r
    <3>1. next'[q] = next[q]
      BY <1>0, <1>1, <1>2, <2>3
    <3> QED BY <2>1, <3>1
  <2> QED BY <2>1, <2>2, <2>3
<1> QED BY <1>5, <1>6, <1>7, <1>8, <1>9, <1>11, <1>12 DEF SafeInv

\* A reader passes or remembers the numbers a message announces.
LEMMA AnnounceStep ==
    ASSUME SafeInv, NEW r \in Readers, NEW m \in net,
           Announce(r, Told(m)), UNCHANGED <<wrVars, rnVars>>, net' \subseteq net
    PROVE  \E h, v : ReaderStep(r, h, v)
<1> DEFINE v == void[r] \cup {s \in Told(m) : s >= next[r] /\ s \notin have[r]}
<1>1. have[r] \in SUBSET (1..seq) /\ void[r] \in SUBSET (1..seq) /\ next[r] \in 1..seq + 1
      /\ seq \in Nat
  BY DEF SafeInv, TypeOK, seq
<1>2. Told(m) \subseteq 0..seq
  <2>1. m \in DataMsg(seq) \cup HbMsg(seq) \cup GapMsg(seq) \cup AckMsg(seq)
    BY DEF SafeInv, TypeOK
  <2> QED BY <1>1, <2>1, ToldBounds
<1>3. v \in SUBSET (1..seq)
  <2>1. \A s \in Told(m) : s >= next[r] => s \in 1..seq
    BY <1>1, <1>2
  <2> QED BY <1>1, <2>1
<1>4. Hand(r, have[r], v)
  BY DEF Announce
<1>5. \A s \in v : s \in void[r] \/ \E g \in net : s \in Told(g)
  OBVIOUS
<1>6. UNCHANGED <<log, whc, conn, ack, matchSeq, pack>>
  BY DEF wrVars, rnVars
<1> HIDE DEF v
<1> QED BY <1>1, <1>3, <1>4, <1>5, <1>6 DEF ReaderStep

\* Receiving a message is a step of the writer or of a reader.
LEMMA ReceiveStep ==
    ASSUME SafeInv, NEW m \in net, Receive(m)
    PROVE  WriterStep \/ \E r \in Readers : \E h, v : ReaderStep(r, h, v)
<1>1. CASE m.type = "acknack" /\ HandleAckNack(m)
  BY <1>1, HandleAckNackStep
<1>2. CASE IgnoreAckNack(m) \/ IgnoreUnknown(m)
  <2>1. net' \subseteq net
    BY <1>2 DEF IgnoreAckNack, IgnoreUnknown, Consume
  <2>2. UNCHANGED <<wrVars, rnVars, bufVars>>
    BY <1>2 DEF IgnoreAckNack, IgnoreUnknown
  <2> QED BY <2>1, <2>2, IdleStep
<1>3. CASE m.type = "data" /\ HandleData(m)
  <2> DEFINE r == m.to
  <2>1. r \in Readers /\ m.seq \in 1..seq
    BY <1>3, MessageKinds DEF DataMsg, SafeInv
  <2>2. net' \subseteq net /\ UNCHANGED <<wrVars, rnVars>>
    BY <1>3 DEF HandleData, Consume
  <2>3. CASE UNCHANGED bufVars
    BY <2>2, <2>3, IdleStep
  <2>4. CASE Hand(r, have[r] \cup {m.seq}, void[r])
    <3>1. have[r] \cup {m.seq} \in SUBSET (1..seq) /\ void[r] \in SUBSET (1..seq)
      BY <2>1 DEF SafeInv, TypeOK
    <3>2. UNCHANGED <<log, whc, conn, ack, matchSeq, pack>>
      BY <2>2 DEF wrVars, rnVars
    <3>3. ReaderStep(r, have[r] \cup {m.seq}, void[r])
      BY <2>1, <2>2, <2>4, <3>1, <3>2 DEF ReaderStep
    <3> QED BY <2>1, <3>3
  <2> QED BY <1>3, <2>3, <2>4 DEF HandleData
<1>4. CASE m.type = "hb" /\ HandleHeartbeat(m)
  <2>1. m.to \in Readers
    BY <1>4, MessageKinds DEF HbMsg, SafeInv
  <2>2. Announce(m.to, Told(m)) /\ UNCHANGED <<wrVars, rnVars>> /\ net' \subseteq net
    BY <1>4 DEF HandleHeartbeat, Told, Consume
  <2> QED BY <2>1, <2>2, AnnounceStep
<1>5. CASE m.type = "gap" /\ HandleGap(m)
  <2>1. m.to \in Readers
    BY <1>5, MessageKinds DEF GapMsg, SafeInv
  <2>2. Announce(m.to, Told(m)) /\ UNCHANGED <<wrVars, rnVars>> /\ net' \subseteq net
    BY <1>5 DEF HandleGap, Told, Consume
  <2> QED BY <2>1, <2>2, AnnounceStep
<1> QED BY <1>1, <1>2, <1>3, <1>4, <1>5 DEF Receive

\* So is every step.
LEMMA StepKinds ==
    ASSUME SafeInv, [Next]_vars
    PROVE  WriterStep \/ \E r \in Readers : \E h, v : ReaderStep(r, h, v)
<1>1. CASE \E k \in Keys : Write(k)
  BY <1>1, WriteStep
<1>2. CASE Transmit \/ Release
  BY <1>2, TransmitStep, ReleaseStep
<1>3. CASE \E f \in BOOLEAN : HbEvent(f)
  BY <1>3, HbEventStep
<1>4. CASE \E r \in Readers : Match(r) \/ DeleteReader(r) \/ DropConnection(r)
  BY <1>4, MatchStep, DeleteReaderStep, DropConnectionStep
<1>5. CASE \E r \in Readers : SendAckNack(r)
  BY <1>5, SendAckNackStep
<1>6. CASE \E r \in Readers : Discover(r)
  BY <1>6, IdleStep DEF Discover, netVars
<1>7. CASE \E m \in net : Receive(m)
  BY <1>7, ReceiveStep
<1>8. CASE \E m \in net : Lose(m)
  BY <1>8, IdleStep DEF Lose
<1>9. CASE UNCHANGED vars
  BY <1>9, IdleStep DEF vars, netVars
<1> QED BY <1>1, <1>2, <1>3, <1>4, <1>5, <1>6, <1>7, <1>8, <1>9 DEF Next

----------------------------------------------------------------------------
\* The invariant holds initially.
LEMMA SafeInit == Init => SafeInv
<1> SUFFICES ASSUME Init PROVE SafeInv
  OBVIOUS
<1>1. TypeOK
  BY InitType
<1>2. net = {} /\ pack = {} /\ \A r \in Readers : conn[r] # "matched"
  BY DEF Init
<1> QED BY <1>1, <1>2 DEF SafeInv, AckNackBase, AckKnown, AckSound, UnackedRetained,
                          NoFalseGap, ToldExcused, VoidExcused, PassedExcused

\* Every step preserves it.
LEMMA SafeNext == SafeInv /\ TypeOK' /\ [Next]_vars => SafeInv'
BY StepKinds, WriterStepSafe, ReaderStepSafe

\* It holds in every reachable state.
LEMMA SafeInvariant == Spec => []SafeInv
<1>1. Spec => []TypeOK
  BY TypeCorrect
<1> QED BY <1>1, SafeInit, SafeNext, PTL DEF Spec

\* The writer never takes a matched reader to have acknowledged what it has not passed,
\* with AckNacks of any age and however readers come and go.
THEOREM AcknowledgementsSound == Spec => []AckSound
<1>1. SafeInv => AckSound
  BY DEF SafeInv
<1> QED BY <1>1, SafeInvariant, PTL

\* What a matched reader has not acknowledged stays in the cache, unless a KEEP_LAST
\* history replaced it, whatever acknowledgements and departures make the cache drop.
THEOREM UnacknowledgedRetained == Spec => []UnackedRetained
<1>1. SafeInv => UnackedRetained
  BY DEF SafeInv
<1> QED BY <1>1, SafeInvariant, PTL

\* No heartbeat or gap, however late or often it arrives, announces as gone what the
\* writer still has.
THEOREM GapsTrue == Spec => []NoFalseGap
<1>1. SafeInv => NoFalseGap
  BY DEF SafeInv
<1> QED BY <1>1, SafeInvariant, PTL

\* Reliable delivery: no matched reader goes past a sample written since it was matched
\* that it has not been given, unless newer ones replaced it.
THEOREM NothingLost == Spec => []NoLoss
<1>1. SafeInv => NoLoss
  BY DEF SafeInv, PassedExcused, NoLoss, Excused
<1> QED BY <1>1, SafeInvariant, PTL

----------------------------------------------------------------------------
\* The reliable protocol and the history cache of its writer: proofs, for
\* any number of readers, samples, messages and faults, that
\*   - what all readers have acknowledged never retreats behind what was
\*     dropped already (DropsOnlyForward);
\*   - so the protocol uses its cache only as CacheSpec allows, and any
\*     implementation of CacheSpec may stand for it (UsesCacheAsSpecified);
\*   - a transient-local writer gives its history to late joiners
\*     (HistoryReachesLateJoiners).
\*
\* The argument: a reader that was given up or is being deleted and then
\* answers is taken to have acknowledged what lies below the cache; that
\* does not take it back behind what was dropped because the cache, if it
\* holds anything at all, reaches it (CacheReaches).  The history of a
\* transient-local writer is in its cache (HistoryKept), so what it
\* announces as gone is none of it, then or later (HistoryInv).

----------------------------------------------------------------------------
\* The cache of the writer

\* all connected readers have acknowledged what was treated as acknowledged, a reader that
\* is being deleted and answers once more included
AcksCoverDrop == \A r \in Conn : maxDrop <= ack[r]

\* What allows such a reader to be taken back to what the cache holds: the cache never ends
\* below what was treated as acknowledged, because nothing of that remains or, on transient
\* local, because the last sample does.
CacheReaches ==
    IF TL /\ TLDepth > 0 THEN whc = {} \/ seq \in whc ELSE \A s \in whc : s > maxDrop

\* the history of a transient-local writer is in its cache
HistoryKept ==
    TL /\ TLDepth > 0 =>
       \A s \in 1..seq : s \in whc \/ log[s] = NoKey \/ ~InTLHistory(log, s)

CacheInv == AcksCoverDrop /\ CacheReaches /\ HistoryKept

Cache == INSTANCE CacheSpec WITH cache <- whc, drop <- maxDrop

\* The types that the arithmetic on the cache needs.
LEMMA CacheTypes ==
    ASSUME TypeOK
    PROVE  seq \in Nat /\ whc \subseteq 1..seq /\ maxDrop \in 0..seq /\ maxDrop \in Nat
           /\ HDepth \in Nat /\ TLDepth \in Nat /\ TL \in BOOLEAN
           /\ IdxDepth(HDepth, TLDepth) \in Nat
BY ReaderAcks, HistoryAssumption DEF TypeOK, IdxDepth

\* The last sample of a log has no newer ones.
LEMMA LastIsNewest ==
    ASSUME NEW l, NEW n \in Nat, n = Len(l), TLDepth > 0, TLDepth \in Nat
    PROVE  InTLHistory(l, n)
<1>1. Newer(l, n) = {}
  BY DEF Newer
<1> QED BY <1>1, FS_EmptySet DEF InTLHistory

\* whc_remove_acked_messages keeps the history, and drops all that is acknowledged else.
LEMMA RemainingReaches ==
    ASSUME TypeOK, CacheReaches, HistoryKept, NEW m \in 0..seq,
           whc' = Remaining(m), maxDrop' = MaxDropAfter(m), log' = log
    PROVE  /\ CacheReaches' /\ HistoryKept'
           /\ maxDrop' = maxDrop \/ (m > maxDrop /\ maxDrop' = m)
<1>1. seq \in Nat /\ whc \subseteq 1..seq /\ maxDrop \in 0..seq /\ maxDrop \in Nat
      /\ TLDepth \in Nat /\ seq' = seq
  BY CacheTypes DEF seq
<1>2. \A s : InTLHistory(log', s) <=> InTLHistory(log, s)
  OBVIOUS
<1>3. maxDrop' = maxDrop \/ (m > maxDrop /\ maxDrop' = m)
  BY <1>1 DEF MaxDropAfter, HigherOf
<1>4. CASE ~(m > maxDrop)
  <2>1. whc' = whc /\ maxDrop' = maxDrop
    BY <1>1, <1>4 DEF Remaining, MaxDropAfter, HigherOf
  <2> QED BY <1>1, <1>2, <1>3, <2>1 DEF CacheReaches, HistoryKept
<1>5. CASE m > maxDrop /\ TL /\ TLDepth > 0
  <2>1. whc' = AckDropped(whc, log, maxDrop, m)
    BY <1>5 DEF Remaining
  <2>2. \A s \in whc : InTLHistory(log, s) => s \in whc'
    BY <2>1 DEF AckDropped
  <2>3. whc' \subseteq whc
    BY <2>1 DEF AckDropped
  <2>4. InTLHistory(log, seq)
    BY <1>1, <1>5, LastIsNewest DEF seq
  <2>5. HistoryKept'
    BY <1>1, <1>2, <2>2 DEF HistoryKept
  <2>6. CacheReaches'
    BY <1>1, <1>5, <2>2, <2>3, <2>4 DEF CacheReaches
  <2> QED BY <1>3, <2>5, <2>6
<1>6. CASE m > maxDrop /\ ~(TL /\ TLDepth > 0)
  <2>1. whc' = AckDropped(whc, log, maxDrop, m)
    BY <1>6 DEF Remaining
  <2>2. \A s \in whc : s > maxDrop
    BY <1>6 DEF CacheReaches
  <2>3. \A s : ~InTLHistory(log, s)
    <3>1. TLDepth = 0
      BY <1>1, <1>6, HistoryAssumption
    <3>2. \A s : Cardinality(Newer(log, s)) \in Nat
      <4> SUFFICES ASSUME NEW s PROVE Cardinality(Newer(log, s)) \in Nat
        OBVIOUS
      <4>1. Newer(log, s) \subseteq 1..seq
        BY DEF Newer, seq
      <4>2. IsFiniteSet(1..seq)
        BY <1>1, FS_Interval
      <4>3. IsFiniteSet(Newer(log, s))
        BY <4>1, <4>2, FS_Subset
      <4> QED BY <4>3, FS_CardinalityType
    <3> QED BY <3>1, <3>2 DEF InTLHistory
  <2>4. CASE NeverDrops(IdxDepth(HDepth, TLDepth))
    <3>1. whc' \subseteq whc /\ maxDrop' = maxDrop
      BY <2>1, <2>4 DEF AckDropped, MaxDropAfter
    <3> QED BY <1>3, <1>6, <2>2, <3>1 DEF CacheReaches, HistoryKept
  <2>5. CASE ~NeverDrops(IdxDepth(HDepth, TLDepth))
    <3>1. maxDrop' = m
      BY <1>1, <1>6, <2>5 DEF MaxDropAfter, HigherOf
    <3>2. \A s \in whc' : s \in whc /\ (s > m \/ s <= maxDrop)
      BY <2>1, <2>3, <2>5 DEF AckDropped
    <3>3. ASSUME NEW s \in whc' PROVE s > m
      <4>1. s \in whc /\ (s > m \/ s <= maxDrop)
        BY <3>2
      <4>2. s \in 1..seq /\ s > maxDrop
        BY <1>1, <2>2, <4>1
      <4> QED BY <1>1, <4>1, <4>2
    <3>4. \A s \in whc' : s > m
      BY <3>3
    <3> QED BY <1>3, <1>6, <3>1, <3>4 DEF CacheReaches, HistoryKept
  <2> QED BY <2>4, <2>5
<1> QED BY <1>4, <1>5, <1>6

\* A cache that is not empty ends at or above what was treated as acknowledged.
LEMMA CacheEnd ==
    ASSUME TypeOK, CacheReaches, whc # {}
    PROVE  Highest(whc) \in whc /\ Highest(whc) >= maxDrop
<1>1. seq \in Nat /\ whc \in SUBSET (1..seq) /\ maxDrop \in 0..seq
  BY CacheTypes
<1>2. Highest(whc) \in whc /\ \A s \in whc : s <= Highest(whc)
  <2>1. 1 \in Int /\ seq \in Int
    BY <1>1
  <2>2. \A S \in SUBSET (1..seq) : S # {} => Highest(S) \in S /\ \A s \in S : s <= Highest(S)
    BY <2>1, HighestOfSome
  <2> QED BY <1>1, <2>2
<1>3. PICK h \in 1..seq : h = Highest(whc)
  BY <1>1, <1>2
<1>4. h \in whc /\ \A s \in whc : s <= h
  BY <1>2, <1>3
<1>5. h >= maxDrop
  BY <1>1, <1>3, <1>4 DEF CacheReaches
<1> QED BY <1>2, <1>3, <1>5

\* Nothing of it changes with what the writer sends and the readers do.
LEMMA CacheUnchanged ==
    ASSUME CacheInv, UNCHANGED <<log, whc, maxDrop, conn, ack>>
    PROVE  CacheInv'
BY DEF CacheInv, AcksCoverDrop, CacheReaches, HistoryKept, Conn, seq

\* Matching a reader: it is taken to have acknowledged at least what was dropped.
LEMMA MatchCache == ASSUME TypeOK, CacheInv, NEW r \in Readers, Match(r) PROVE CacheInv'
<1>1. UNCHANGED <<log, whc, maxDrop>>
  BY DEF Match
<1>2. maxDrop \in 0..seq /\ seq \in Nat /\ ack \in [Readers -> Nat] /\ AllAcked \in Nat
      /\ seq <= MaxSeq /\ maxDrop \in Nat /\ conn \in [Readers -> ConnStates]
  BY ReaderAcks, CacheTypes DEF TypeOK
<1>3. PICK a \in {seq, AllAcked} : /\ ack' = [ack EXCEPT ![r] = a]
                                  /\ \E c : conn' = [conn EXCEPT ![r] = c]
  BY DEF Match
<1>4. a >= maxDrop
  BY <1>2, <1>3, RtpsAssumption DEF AllAcked
<1>5. AcksCoverDrop'
  <2> SUFFICES ASSUME NEW q \in Conn' PROVE maxDrop <= ack'[q]
    BY <1>1 DEF AcksCoverDrop
  <2>1. q \in Readers
    BY DEF Conn
  <2>2. CASE q = r
    BY <1>2, <1>3, <1>4, <2>2
  <2>3. CASE q # r
    <3>1. q \in Conn /\ ack'[q] = ack[q]
      BY <1>2, <1>3, <2>1, <2>3 DEF Conn
    <3> QED BY <3>1 DEF CacheInv, AcksCoverDrop
  <2> QED BY <2>2, <2>3
<1> QED BY <1>1, <1>5 DEF CacheInv, CacheReaches, HistoryKept, seq

\* remove_acked_messages for readers C that remain, with acknowledgements a that do not
\* lie below those before.
LEMMA RemoveAckedCache ==
    ASSUME TypeOK, CacheInv, NEW C \in SUBSET Readers, NEW a \in [Readers -> Nat],
           RemoveAcked(C, a), log' = log,
           Conn' = C, ack' = a, \A r \in C : a[r] >= maxDrop
    PROVE  CacheInv'
<1> DEFINE m == MaxDropSeq(C, a, seq)
<1>1. m \in 0..seq /\ \A r \in C : m <= a[r]
  BY MaxDropBounds, ReaderAcks
<1>2. whc' = Remaining(m) /\ maxDrop' = MaxDropAfter(m)
  BY DEF RemoveAcked
<1> HIDE DEF m
<1>3. CacheReaches' /\ HistoryKept' /\ (maxDrop' = maxDrop \/ maxDrop' = m)
  BY <1>1, <1>2, RemainingReaches DEF CacheInv
<1>4. AcksCoverDrop'
  BY <1>1, <1>3 DEF AcksCoverDrop
<1> QED BY <1>3, <1>4 DEF CacheInv

\* Deleting a proxy reader.
LEMMA DeleteReaderCache == ASSUME TypeOK, CacheInv, NEW r \in Readers, DeleteReader(r) PROVE CacheInv'
<1>1. ack' = [ack EXCEPT ![r] = AllAcked] /\ RemoveAcked(Conn, ack') /\ log' = log
  BY DEF DeleteReader
<1>2. ack \in [Readers -> Nat] /\ AllAcked \in Nat /\ maxDrop \in 0..seq /\ seq <= MaxSeq
      /\ seq \in Nat /\ conn \in [Readers -> ConnStates]
  BY ReaderAcks DEF TypeOK
<1>3. Conn' = Conn
  BY <1>2 DEF DeleteReader, Conn
<1>4. \A q \in Conn : ack'[q] >= maxDrop
  <2> SUFFICES ASSUME NEW q \in Conn PROVE ack'[q] >= maxDrop
    OBVIOUS
  <2>1. ack[q] >= maxDrop /\ q \in Readers
    BY <1>2 DEF CacheInv, AcksCoverDrop, Conn
  <2>2. AllAcked >= maxDrop
    BY <1>2, RtpsAssumption DEF AllAcked
  <2> QED BY <1>1, <1>2, <2>1, <2>2
<1> QED BY <1>1, <1>2, <1>3, <1>4, Audiences, RemoveAckedCache

\* Dropping its connection.
LEMMA DropConnectionCache ==
    ASSUME TypeOK, CacheInv, NEW r \in Readers, DropConnection(r) PROVE CacheInv'
<1>1. ack' = ack /\ RemoveAcked(Conn \ {r}, ack') /\ log' = log
  BY DEF DropConnection
<1>2. ack \in [Readers -> Nat] /\ conn \in [Readers -> ConnStates] /\ maxDrop \in Nat
  BY ReaderAcks, CacheTypes DEF TypeOK
<1>3. Conn' = Conn \ {r}
  BY <1>2 DEF DropConnection, Conn
<1>4. \A q \in Conn \ {r} : ack'[q] >= maxDrop
  <2>1. \A q \in Conn : q \in Readers /\ ack[q] \in Nat
    BY <1>2 DEF Conn
  <2> QED BY <1>1, <1>2, <2>1 DEF CacheInv, AcksCoverDrop
<1> QED BY <1>1, <1>2, <1>3, <1>4, Audiences, RemoveAckedCache

\* Writing a sample: it is stored, or nothing is kept for anyone.
LEMMA WriteCache == ASSUME TypeOK, CacheInv, NEW k \in Keys, Write(k) PROVE CacheInv'
<1> DEFINE n == seq + 1
           d == MaxDropSeq(Conn, ack, n)
<1>1. /\ seq' = n /\ log' = Append(log, k) /\ log' \in Seq(Keys \cup {NoKey})
      /\ whc' = IF HaveReliableSubs \/ TL THEN Inserted(whc, log', d) ELSE whc
  BY WriteParts
<1>2. UNCHANGED <<maxDrop, conn, ack>>
  BY DEF Write, rnVars
<1>3. seq \in Nat /\ whc \subseteq 1..seq /\ maxDrop \in 0..seq /\ maxDrop \in Nat
      /\ TLDepth \in Nat /\ HDepth \in Nat /\ IdxDepth(HDepth, TLDepth) \in Nat
      /\ TL \in BOOLEAN /\ Len(log') = n /\ log \in Seq(Keys \cup {NoKey}) /\ seq = Len(log)
  BY <1>1, CacheTypes DEF seq, TypeOK
<1> HIDE DEF d
<1>4. AcksCoverDrop'
  BY <1>2 DEF CacheInv, AcksCoverDrop, Conn
<1>5. CacheReaches'
  <2>1. CASE TL /\ TLDepth > 0
    <3>1. n \in whc'
      BY <1>1, <1>3, <2>1 DEF Inserted
    <3> QED BY <1>1, <2>1, <3>1 DEF CacheReaches
  <2>2. CASE ~(TL /\ TLDepth > 0)
    <3>1. whc' \subseteq whc \cup {n}
      BY <1>1, <1>3 DEF Inserted
    <3>2. \A s \in whc : s > maxDrop
      BY <2>2 DEF CacheInv, CacheReaches
    <3>3. n > maxDrop
      BY <1>3
    <3> QED BY <1>2, <2>2, <3>1, <3>2, <3>3 DEF CacheReaches
  <2> QED BY <2>1, <2>2
<1>6. HistoryKept'
  <2> SUFFICES ASSUME TL, TLDepth > 0, NEW s \in 1..n, log'[s] # NoKey, InTLHistory(log', s)
               PROVE  s \in whc'
    BY <1>1 DEF HistoryKept
  <2>1. whc' = Inserted(whc, log', d)
    BY <1>1
  <2>2. CASE s = n
    BY <1>3, <2>1, <2>2 DEF Inserted
  <2>3. CASE s # n
    <3>1. s \in 1..Len(log) /\ log'[s] = log[s] /\ Extends(log, log')
      BY <1>1, <1>3, <2>3 DEF Extends
    <3>2. /\ Cardinality(Newer(log, s)) \in Nat /\ Cardinality(Newer(log', s)) \in Nat
          /\ Cardinality(Newer(log, s)) <= Cardinality(Newer(log', s))
          /\ Cardinality(Newer(log', s)) < TLDepth
      BY <1>1, <1>3, <3>1, NewerGrows DEF InTLHistory
    <3>3. InTLHistory(log, s)
      BY <1>3, <3>2 DEF InTLHistory
    <3>4. s \in whc
      BY <1>3, <3>1, <3>3 DEF CacheInv, HistoryKept
    <3>5. TLDepth <= IdxDepth(HDepth, TLDepth)
      BY <1>3 DEF IdxDepth
    <3> QED BY <1>3, <2>1, <3>2, <3>4, <3>5 DEF Inserted
  <2> QED BY <2>2, <2>3
<1> QED BY <1>4, <1>5, <1>6 DEF CacheInv

\* What handle_AckNack drops, and what it then takes its sender to have acknowledged.
AckNackDrops(m, r, a, d) ==
    /\ r \in Readers /\ r \in Conn /\ Conn' = Conn
    /\ a = [ack EXCEPT ![r] = AckedUpTo(m, r)] /\ a \in [Readers -> Nat]
    /\ d \in 0..seq /\ d = IF m.base - 1 > ack[r] THEN MaxDropSeq(Conn, a, seq) ELSE maxDrop
    /\ whc' = Remaining(d) /\ maxDrop' = MaxDropAfter(d)
    /\ ack' = [ack EXCEPT ![r] = ResponsiveAgain(m, a[r], whc')]
    /\ log' = log \/ (seq = 0 /\ log' = <<NoKey>>)
    /\ m.base \in 1..seq + 1

\* That is what it does.
LEMMA AckNackDropsIt ==
    ASSUME TypeOK, NEW m \in net, m.type = "acknack", HandleAckNack(m)
    PROVE  \E r, a, d : AckNackDrops(m, r, a, d)
<1>1. PICK r : r = m.from
  OBVIOUS
<1>2. PICK a : a = [ack EXCEPT ![r] = AckedUpTo(m, r)]
  OBVIOUS
<1>3. PICK d : d = IF m.base - 1 > ack[r] THEN MaxDropSeq(Conn, a, seq) ELSE maxDrop
  OBVIOUS
<1>4. AckNackStep(m, r, a)
  BY <1>1, <1>2, HandleAckNackParts
<1>5. whc' = Remaining(d) /\ maxDrop' = MaxDropAfter(d)
      /\ ack' = [ack EXCEPT ![r] = ResponsiveAgain(m, a[r], whc')]
  BY <1>1, <1>2, <1>3 DEF HandleAckNack
<1>6. a \in [Readers -> Nat]
  BY <1>4, ReaderAcks DEF AckNackStep
<1>7. d \in 0..seq
  <2>1. MaxDropSeq(Conn, a, seq) \in 0..seq
    BY <1>6, MaxDropBounds, Audiences, ReaderAcks
  <2> QED BY <1>3, <2>1, CacheTypes
<1>8. r \in Readers /\ r \in Conn /\ Conn' = Conn
  BY <1>4 DEF AckNackStep, Conn, TypeOK
<1>9. m.base \in 1..seq + 1 /\ (log' = log \/ (seq = 0 /\ log' = <<NoKey>>))
  BY <1>4 DEF AckNackStep, AckMsg
<1> QED BY <1>2, <1>3, <1>5, <1>6, <1>7, <1>8, <1>9 DEF AckNackDrops

\* Handling an AckNack: a reader that answers once more is not taken back behind what
\* was dropped, because the cache reaches it.
LEMMA HandleAckNackCache ==
    ASSUME TypeOK, CacheInv, NEW m \in net, m.type = "acknack", HandleAckNack(m)
    PROVE  CacheInv'
<1>1. PICK r, a, d : AckNackDrops(m, r, a, d)
  BY AckNackDropsIt
<1>2. /\ seq \in Nat /\ whc \subseteq 1..seq /\ maxDrop \in 0..seq /\ maxDrop \in Nat
      /\ ack \in [Readers -> Nat] /\ seq <= MaxSeq /\ MaxSeq \in Nat /\ AllAcked = MaxSeq + 1
      /\ r \in Readers /\ d \in 0..seq /\ Conn' = Conn /\ Conn \subseteq Readers
  BY <1>1, CacheTypes, ReaderAcks, RtpsAssumption DEF AckNackDrops, TypeOK, AllAcked, Conn
<1>3. PICK b \in 1..seq + 1 : b = m.base
  BY <1>1 DEF AckNackDrops
<1>4. a[r] = (IF b - 1 > ack[r] THEN b - 1 ELSE ack[r]) /\ \A q \in Readers : q # r => a[q] = ack[q]
  <2>1. a[r] = AckedUpTo(m, r)
    BY <1>1, <1>2 DEF AckNackDrops
  <2>2. LowerOf(b - 1, seq) = b - 1
    BY <1>2, <1>3 DEF LowerOf
  <2> QED BY <1>1, <1>2, <1>3, <2>1, <2>2 DEF AckNackDrops, AckedUpTo
<1>5. \A q \in Conn : a[q] >= maxDrop
  BY <1>2, <1>4 DEF CacheInv, AcksCoverDrop
<1>6. d = maxDrop \/ \A q \in Conn : d <= a[q]
  BY <1>1, <1>2, Audiences, MaxDropBounds DEF AckNackDrops
<1>7. CASE log' = log
  <2>1. /\ CacheReaches' /\ HistoryKept' /\ TypeOK
        /\ maxDrop' = maxDrop \/ (d > maxDrop /\ maxDrop' = d)
    BY <1>1, <1>2, <1>7, RemainingReaches DEF CacheInv, AckNackDrops
  <2>2. \A q \in Conn : maxDrop' <= a[q]
    BY <1>2, <1>5, <1>6, <2>1
  <2>3. CASE a[r] # AllAcked
    <3>1. ack' = [ack EXCEPT ![r] = a[r]]
      BY <1>1, <2>3 DEF AckNackDrops, ResponsiveAgain
    <3>2. \A q \in Conn : ack'[q] = a[q]
      BY <1>2, <1>4, <3>1
    <3> QED BY <1>2, <2>1, <2>2, <3>2 DEF CacheInv, AcksCoverDrop
  <2>4. CASE a[r] = AllAcked
    <3>1. ~(b - 1 > ack[r])
      BY <1>2, <1>3, <1>4, <2>4
    <3>2. d = maxDrop /\ whc' = whc /\ maxDrop' = maxDrop
      <4>1. d = maxDrop
        BY <1>1, <1>3, <3>1 DEF AckNackDrops
      <4> QED BY <1>1, <1>2, <4>1 DEF AckNackDrops, Remaining, MaxDropAfter, HigherOf
    <3>3. ack' = [ack EXCEPT ![r] =
                    LowerOf(HigherOf(b - 1, IF whc = {} THEN seq ELSE Highest(whc)), seq)]
      BY <1>1, <1>3, <2>4, <3>2 DEF AckNackDrops, ResponsiveAgain
    <3>4. PICK h \in Nat : h = (IF whc = {} THEN seq ELSE Highest(whc)) /\ h >= maxDrop
      <4>1. whc # {} => Highest(whc) \in whc /\ Highest(whc) >= maxDrop
        BY CacheEnd DEF CacheInv
      <4>2. whc # {} => Highest(whc) \in Nat
        <5>1. 1..seq \subseteq Nat
          BY <1>2
        <5> QED BY <1>2, <4>1, <5>1
      <4>3. CASE whc = {}
        BY <1>2, <4>3
      <4>4. CASE whc # {}
        BY <4>1, <4>2, <4>4
      <4> QED BY <4>3, <4>4
    <3>5. LowerOf(HigherOf(b - 1, h), seq) >= maxDrop
      BY <1>2, <3>4 DEF LowerOf, HigherOf
    <3>6. ack'[r] >= maxDrop
      BY <1>2, <3>3, <3>4, <3>5
    <3>7. \A q \in Conn : q # r => ack'[q] = a[q]
      BY <1>2, <1>4, <3>3
    <3>8. \A q \in Conn : maxDrop' <= ack'[q]
      BY <1>2, <2>2, <3>2, <3>6, <3>7
    <3> QED BY <1>2, <2>1, <3>8 DEF CacheInv, AcksCoverDrop
  <2> QED BY <2>3, <2>4
<1>8. CASE seq = 0 /\ log' = <<NoKey>>
  <2>1. whc = {} /\ maxDrop = 0 /\ d = 0
    BY <1>2, <1>8
  <2>2. whc' = {} /\ maxDrop' = 0
    BY <1>1, <2>1 DEF AckNackDrops, Remaining, MaxDropAfter, HigherOf
  <2>3. \A q \in Conn : 0 <= ack'[q]
    <3>1. \A q \in Conn : q # r => ack'[q] = ack[q]
      BY <1>1, <1>2 DEF AckNackDrops
    <3>2. ack'[r] = IF a[r] # AllAcked THEN a[r] ELSE LowerOf(HigherOf(b - 1, seq), seq)
      BY <1>1, <1>2, <1>3, <2>2 DEF AckNackDrops, ResponsiveAgain
    <3>3. ack'[r] >= 0
      BY <1>2, <1>3, <1>4, <3>2 DEF LowerOf, HigherOf
    <3> QED BY <1>2, <3>1, <3>3
  <2>4. seq' = 1 /\ log'[1] = NoKey
    BY <1>8 DEF seq
  <2> QED BY <1>2, <2>2, <2>3, <2>4 DEF CacheInv, AcksCoverDrop, CacheReaches, HistoryKept
<1> QED BY <1>1, <1>7, <1>8 DEF AckNackDrops

\* The cache invariant holds initially ...
LEMMA CacheInvInit == Init => CacheInv
<1> SUFFICES ASSUME Init PROVE CacheInv
  OBVIOUS
<1>1. whc = {} /\ maxDrop = 0 /\ seq = 0 /\ Conn = {}
  BY DEF Init, seq, Conn
<1> QED BY <1>1 DEF CacheInv, AcksCoverDrop, CacheReaches, HistoryKept

\* ... is preserved by every step ...
LEMMA CacheInvNext == TypeOK /\ CacheInv /\ [Next]_vars => CacheInv'
<1> SUFFICES ASSUME TypeOK, CacheInv, [Next]_vars
             PROVE  CacheInv'
  OBVIOUS
<1>1. CASE \E k \in Keys : Write(k)
  BY <1>1, WriteCache
<1>2. CASE \E r \in Readers : Match(r) \/ DeleteReader(r) \/ DropConnection(r)
  BY <1>2, MatchCache, DeleteReaderCache, DropConnectionCache
<1>3. CASE \E m \in net : m.type = "acknack" /\ HandleAckNack(m)
  BY <1>3, HandleAckNackCache
<1>4. CASE \/ Transmit \/ Release \/ \E f \in BOOLEAN : HbEvent(f)
           \/ \E r \in Readers : Discover(r) \/ SendAckNack(r)
           \/ \E m \in net : \/ Lose(m) \/ IgnoreAckNack(m) \/ IgnoreUnknown(m)
                            \/ HandleData(m) \/ HandleHeartbeat(m) \/ HandleGap(m)
           \/ UNCHANGED vars
  <2>1. UNCHANGED <<log, whc, maxDrop, conn, ack>>
    BY <1>4 DEF Transmit, Release, HbEvent, Discover, SendAckNack, Lose, IgnoreAckNack,
       IgnoreUnknown, HandleData, HandleHeartbeat, HandleGap, vars, wrVars, rnVars
  <2> QED BY <2>1, CacheUnchanged
<1> QED BY <1>1, <1>2, <1>3, <1>4 DEF Next, Receive

\* ... and so holds in every reachable state.
LEMMA CacheInvariant == Spec => []CacheInv
<1>1. Spec => []TypeOK
  BY TypeCorrect
<1> QED BY <1>1, CacheInvInit, CacheInvNext, PTL DEF Spec

\* What all readers have acknowledged never lies below what was dropped already, for any
\* number of readers that come and go and AckNacks of any age.
THEOREM DropsOnlyForward == Spec => []DropNeverRetreats
<1>1. TypeOK /\ CacheInv => DropNeverRetreats
  <2> SUFFICES ASSUME TypeOK, CacheInv PROVE DropNeverRetreats
    OBVIOUS
  <2> DEFINE S == {seq} \cup {ack[r] : r \in Conn}
  <2>1. seq \in Nat /\ maxDrop \in 0..seq /\ ack \in [Readers -> Nat] /\ Conn \subseteq Readers
    BY CacheTypes, ReaderAcks, Audiences
  <2>2. S \in SUBSET Nat /\ S # {} /\ \A x \in S : maxDrop <= x
    BY <2>1 DEF CacheInv, AcksCoverDrop
  <2>3. Lowest(S) \in S
    BY <2>2, LowestOfSome
  <2> QED BY <2>2, <2>3 DEF DropNeverRetreats, MaxDropSeq
<1> QED BY <1>1, TypeCorrect, CacheInvariant, PTL

----------------------------------------------------------------------------
\* The protocol uses its cache as CacheSpec says

\* The operators of HistoryCache that CacheSpec uses are those of the protocol.
LEMMA SameOperators ==
    /\ \A w, l, m : Cache!Inserted(w, l, m) = Inserted(w, l, m)
    /\ \A w, l, d, m : Cache!AckDropped(w, l, d, m) = AckDropped(w, l, d, m)
    /\ \A n : Cache!NeverDrops(n) = NeverDrops(n)
    /\ \A h, t : Cache!IdxDepth(h, t) = IdxDepth(h, t)
<1>1. \A S : Cache!Cardinality(S) = Cardinality(S)
  BY DEF Cardinality, Cache!Cardinality
<1>2. \A l, s : Cache!Newer(l, s) = Newer(l, s)
  BY DEF Newer, Cache!Newer
<1>3. \A h, t : Cache!IdxDepth(h, t) = IdxDepth(h, t)
  BY DEF IdxDepth, Cache!IdxDepth
<1>4. \A n : Cache!NeverDrops(n) = NeverDrops(n)
  BY DEF NeverDrops, Cache!NeverDrops
<1>5. \A l, s : Cache!InTLHistory(l, s) = InTLHistory(l, s)
  BY <1>1, <1>2 DEF InTLHistory, Cache!InTLHistory
<1>6. \A w, l, m : Cache!Inserted(w, l, m) = Inserted(w, l, m)
  BY <1>1, <1>2, <1>3 DEF Inserted, Cache!Inserted
<1>7. \A w, l, d, m : Cache!AckDropped(w, l, d, m) = AckDropped(w, l, d, m)
  BY <1>3, <1>4, <1>5 DEF AckDropped, Cache!AckDropped
<1> QED BY <1>3, <1>4, <1>6, <1>7

\* remove_acked_messages is an acknowledgement of the abstract cache, or none.
LEMMA RemovingAcknowledges ==
    ASSUME TypeOK, NEW m \in 0..seq, whc' = Remaining(m), maxDrop' = MaxDropAfter(m),
           log' = log
    PROVE  Cache!Acknowledge(m) \/ UNCHANGED <<log, whc, maxDrop>>
<1>1. seq \in Nat /\ maxDrop \in Nat
  BY CacheTypes
<1>2. CASE m > maxDrop
  BY <1>1, <1>2, SameOperators DEF Remaining, MaxDropAfter, HigherOf, Cache!Acknowledge
<1>3. CASE ~(m > maxDrop)
  BY <1>1, <1>3 DEF Remaining, MaxDropAfter, HigherOf
<1> QED BY <1>2, <1>3

\* Every step of the protocol is a step of the abstract cache or leaves it alone.
LEMMA CacheStep ==
    TypeOK /\ CacheInv /\ [Next]_vars => [Cache!Next]_Cache!cacheVars
<1> SUFFICES ASSUME TypeOK, CacheInv, [Next]_vars
             PROVE  Cache!Next \/ UNCHANGED <<log, whc, maxDrop>>
  BY DEF Cache!cacheVars
<1>1. /\ seq \in Nat /\ seq = Len(log) /\ ack \in [Readers -> Nat] /\ Conn \in SUBSET Readers
      /\ maxDrop \in 0..seq /\ whc \subseteq 1..seq
  BY CacheTypes, ReaderAcks, Audiences DEF seq
<1>2. ASSUME NEW m \in 0..seq, Cache!Acknowledge(m) PROVE Cache!Next
  BY <1>1, <1>2 DEF Cache!Next
<1>3. CASE \E k \in Keys : Write(k)
  <2>1. PICK k \in Keys : Write(k)
    BY <1>3
  <2> DEFINE d == MaxDropSeq(Conn, ack, seq + 1)
  <2>2. /\ log' = Append(log, k) /\ maxDrop' = maxDrop
        /\ whc' = IF HaveReliableSubs \/ TL THEN Inserted(whc, log', d) ELSE whc
    BY <2>1, WriteParts DEF Write
  <2>3. d \in 0..seq + 1 /\ d >= maxDrop
    <3> DEFINE S == {seq + 1} \cup {ack[r] : r \in Conn}
    <3>1. S \in SUBSET Nat /\ S # {} /\ \A x \in S : maxDrop <= x
      BY <1>1 DEF CacheInv, AcksCoverDrop
    <3>2. Lowest(S) \in S
      BY <3>1, LowestOfSome
    <3>3. d >= maxDrop
      BY <3>1, <3>2 DEF MaxDropSeq
    <3> QED BY <1>1, <3>3, MaxDropBounds
  <2> HIDE DEF d
  <2>4. CASE HaveReliableSubs \/ TL
    <3>1. Cache!Insert(k, d)
      BY <2>2, <2>3, <2>4, SameOperators DEF Cache!Insert
    <3> QED BY <1>1, <2>3, <3>1 DEF Cache!Next
  <2>5. CASE ~(HaveReliableSubs \/ TL)
    BY <2>2, <2>5 DEF Cache!Next, Cache!Bypass
  <2> QED BY <2>4, <2>5
<1>4. CASE \E r \in Readers : DeleteReader(r)
  <2>1. PICK r \in Readers : DeleteReader(r)
    BY <1>4
  <2> DEFINE m == MaxDropSeq(Conn, ack', seq)
  <2>2. m \in 0..seq /\ whc' = Remaining(m) /\ maxDrop' = MaxDropAfter(m) /\ log' = log
    <3>1. ack' = [ack EXCEPT ![r] = AllAcked] /\ RemoveAcked(Conn, ack') /\ log' = log
      BY <2>1 DEF DeleteReader
    <3>2. ack' \in [Readers -> Nat]
      BY <1>1, <3>1, ReaderAcks
    <3> QED BY <1>1, <3>1, <3>2, MaxDropBounds DEF RemoveAcked
  <2> HIDE DEF m
  <2> QED BY <1>2, <2>2, RemovingAcknowledges
<1>5. CASE \E r \in Readers : DropConnection(r)
  <2>1. PICK r \in Readers : DropConnection(r)
    BY <1>5
  <2> DEFINE m == MaxDropSeq(Conn \ {r}, ack, seq)
  <2>2. m \in 0..seq /\ whc' = Remaining(m) /\ maxDrop' = MaxDropAfter(m) /\ log' = log
    BY <1>1, <2>1, MaxDropBounds DEF RemoveAcked, DropConnection
  <2> HIDE DEF m
  <2> QED BY <1>2, <2>2, RemovingAcknowledges
<1>6. CASE \E m \in net : m.type = "acknack" /\ HandleAckNack(m)
  <2>1. PICK m, r, a, d : AckNackDrops(m, r, a, d)
    BY <1>6, AckNackDropsIt
  <2>2. CASE log' = log
    BY <1>2, <2>1, <2>2, RemovingAcknowledges DEF AckNackDrops
  <2>3. CASE seq = 0 /\ log' = <<NoKey>>
    <3>1. whc = {} /\ maxDrop = 0 /\ d = 0
      BY <1>1, <2>1, <2>3 DEF AckNackDrops
    <3>2. whc' = whc /\ maxDrop' = maxDrop
      BY <2>1, <3>1 DEF AckNackDrops, Remaining, MaxDropAfter, HigherOf
    <3>3. log = <<>>
      BY <2>3 DEF TypeOK, seq
    <3>4. log' = Append(log, NoKey)
      BY <2>3, <3>3
    <3> QED BY <3>2, <3>4 DEF Cache!Next, Cache!Bypass
  <2> QED BY <2>1, <2>2, <2>3 DEF AckNackDrops
<1>7. CASE \/ Transmit \/ Release \/ \E f \in BOOLEAN : HbEvent(f)
           \/ \E r \in Readers : Match(r) \/ Discover(r) \/ SendAckNack(r)
           \/ \E m \in net : \/ Lose(m) \/ IgnoreAckNack(m) \/ IgnoreUnknown(m)
                            \/ HandleData(m) \/ HandleHeartbeat(m) \/ HandleGap(m)
           \/ UNCHANGED vars
  BY <1>7 DEF Transmit, Release, HbEvent, Match, Discover, SendAckNack, Lose, IgnoreAckNack,
     IgnoreUnknown, HandleData, HandleHeartbeat, HandleGap, vars, wrVars, rnVars
<1> QED BY <1>3, <1>4, <1>5, <1>6, <1>7 DEF Next, Receive

\* The reliable protocol uses its history cache only as CacheSpec allows, what all have
\* acknowledged never going back: so whatever implements CacheSpec may stand for it.
THEOREM UsesCacheAsSpecified == Spec => Cache!Spec
<1>1. Init => Cache!Init
  BY DEF Init, Cache!Init
<1>2. Spec => []TypeOK /\ []CacheInv
  BY TypeCorrect, CacheInvariant, PTL
<1> QED BY <1>1, <1>2, CacheStep, PTL DEF Spec, Cache!Spec

----------------------------------------------------------------------------
\* The history of a transient-local writer

\* s need not be given to a reader that is matched from now on
Forgotten(s) == log[s] = NoKey \/ ~InTLHistory(log, s)

\* What is announced as gone, whenever it arrives, what a reader was told is gone and what
\* it passed over is not in the history; this holds of readers that were never matched as
\* well.
HistoryInv ==
    TL /\ TLDepth > 0 =>
       /\ \A m \in net \cup pack : \A s \in Told(m) : s \in 1..seq => Forgotten(s)
       /\ \A r \in Readers : \A s \in void[r] : Forgotten(s)
       /\ \A r \in Readers : \A s \in 1..seq :
             s < next[r] => s \in delivered[r] \/ Forgotten(s)

\* What is forgotten stays so when the log grows.
LEMMA ForgottenStays ==
    ASSUME TypeOK, TypeOK', Extends(log, log'), NEW s \in 1..seq, Forgotten(s), TLDepth \in Nat
    PROVE  Forgotten(s)'
<1>1. log \in Seq(Keys \cup {NoKey}) /\ log' \in Seq(Keys \cup {NoKey}) /\ s \in 1..Len(log)
  BY DEF TypeOK, seq
<1>2. /\ Cardinality(Newer(log, s)) \in Nat /\ Cardinality(Newer(log', s)) \in Nat
      /\ Cardinality(Newer(log, s)) <= Cardinality(Newer(log', s))
  BY <1>1, NewerGrows
<1>3. log'[s] = log[s]
  BY <1>1 DEF Extends
<1> QED BY <1>2, <1>3 DEF Forgotten, InTLHistory

\* The writer announces as gone only what is not in its cache, hence not in the history.
LEMMA WriterStepHistory ==
    ASSUME SafeInv, TypeOK', CacheInv', HistoryInv, WriterStep
    PROVE  HistoryInv'
<1> SUFFICES ASSUME TL, TLDepth > 0 PROVE HistoryInv'
  BY DEF HistoryInv
<1>1. TypeOK /\ seq \in Nat /\ seq' \in Nat /\ seq <= seq' /\ TLDepth \in Nat
      /\ Extends(log, log') /\ UNCHANGED <<next, void, delivered>>
      /\ next \in [Readers -> 1..seq + 1] /\ void \in [Readers -> SUBSET (1..seq)]
  <2>1. TypeOK /\ seq \in Nat /\ TLDepth \in Nat
    BY CacheTypes, HistoryAssumption DEF SafeInv, TypeOK, seq
  <2>2. seq' \in Nat
    BY DEF TypeOK, seq
  <2>3. Extends(log, log') /\ UNCHANGED <<next, void, delivered>>
    BY DEF WriterStep, Extends
  <2>4. seq <= seq'
    BY <2>3 DEF Extends, seq
  <2>5. next \in [Readers -> 1..seq + 1] /\ void \in [Readers -> SUBSET (1..seq)]
    BY <2>1 DEF TypeOK
  <2> QED BY <2>1, <2>2, <2>3, <2>4, <2>5
<1>2. \A s \in 1..seq : Forgotten(s) => Forgotten(s)'
  BY <1>1, ForgottenStays
<1>3. \A m \in net \cup pack : Told(m) \subseteq 0..seq
  <2>1. \A m \in net \cup pack :
           m \in DataMsg(seq) \cup HbMsg(seq) \cup GapMsg(seq) \cup AckMsg(seq)
    BY <1>1 DEF TypeOK
  <2> QED BY <1>1, <2>1, ToldBounds
<1>4. ASSUME NEW m \in net' \cup pack', NEW s \in Told(m), s \in 1..seq'
      PROVE  Forgotten(s)'
  <2>1. CASE m \in net \cup pack
    <3>1. s \in 1..seq
      BY <1>1, <1>3, <1>4, <2>1
    <3> QED BY <1>2, <2>1, <3>1 DEF HistoryInv
  <2>2. CASE Told(m) \cap whc' = {}
    BY <1>4, <2>2 DEF CacheInv, HistoryKept, Forgotten
  <2> QED BY <2>1, <2>2 DEF WriterStep
<1>5. ASSUME NEW r \in Readers, NEW s \in void'[r]
      PROVE  Forgotten(s)'
  BY <1>1, <1>2 DEF HistoryInv
<1>6. ASSUME NEW r \in Readers, NEW s \in 1..seq', s < next'[r]
      PROVE  s \in delivered'[r] \/ Forgotten(s)'
  <2>1. next[r] \in 1..seq + 1 /\ next'[r] = next[r]
    BY <1>1
  <2>2. s \in 1..seq
    BY <1>1, <1>6, <2>1
  <2> QED BY <1>1, <1>2, <1>6, <2>1, <2>2 DEF HistoryInv
<1>7. \A m : Told(m)' = Told(m)
  BY DEF Told, GapApplied
<1> QED BY <1>4, <1>5, <1>6, <1>7 DEF HistoryInv

\* A reader goes past what it has and what it was told is gone.
LEMMA ReaderStepHistory ==
    ASSUME SafeInv, HistoryInv, NEW r \in Readers, NEW h, NEW v, ReaderStep(r, h, v)
    PROVE  HistoryInv'
<1> SUFFICES ASSUME TL, TLDepth > 0 PROVE HistoryInv'
  BY DEF HistoryInv
<1>1. /\ h \in SUBSET (1..seq) /\ v \in SUBSET (1..seq) /\ Hand(r, h, v)
      /\ log' = log /\ pack' = pack /\ net' \subseteq net
      /\ \A s \in v : s \in void[r] \/ \E m \in net : s \in Told(m)
  BY DEF ReaderStep
<1>2. PICK n \in next[r]..MaxSeq + 1 :
         /\ next[r]..n - 1 \subseteq h \cup v
         /\ next' = [next EXCEPT ![r] = n]
         /\ delivered' = [delivered EXCEPT ![r] = @ \cup {s \in h : s < n}]
         /\ void' = [void EXCEPT ![r] = {s \in v : s > n}]
  BY <1>1 DEF Hand
<1>3. /\ seq \in Nat /\ seq' = seq /\ next \in [Readers -> 1..seq + 1] /\ MaxSeq \in Nat
      /\ delivered \in [Readers -> SUBSET (1..seq)] /\ void \in [Readers -> SUBSET (1..seq)]
  <2>1. seq \in Nat
    BY CacheTypes DEF SafeInv, TypeOK, seq
  <2>2. seq' = seq
    BY <1>1 DEF seq
  <2>3. TypeOK
    BY DEF SafeInv
  <2>4. /\ next \in [Readers -> 1..seq + 1] /\ delivered \in [Readers -> SUBSET (1..seq)]
        /\ void \in [Readers -> SUBSET (1..seq)]
    BY <2>3 DEF TypeOK
  <2> QED BY <2>1, <2>2, <2>4, RtpsAssumption
<1>4. \A s : Forgotten(s)' <=> Forgotten(s)
  BY <1>1 DEF Forgotten
<1>5. \A s \in v : Forgotten(s)
  BY <1>1 DEF HistoryInv
<1>6. \A m \in net' \cup pack' : \A s \in Told(m) : s \in 1..seq' => Forgotten(s)'
  BY <1>1, <1>3, <1>4 DEF HistoryInv
<1>7. ASSUME NEW q \in Readers, NEW s \in void'[q]
      PROVE  Forgotten(s)'
  <2>1. s \in void[q] \/ (q = r /\ s \in v)
    BY <1>2, <1>3, <1>7
  <2> QED BY <1>4, <1>5, <2>1 DEF HistoryInv
<1>8. ASSUME NEW q \in Readers, NEW s \in 1..seq, s < next'[q]
      PROVE  s \in delivered'[q] \/ Forgotten(s)'
  <2>1. CASE q # r \/ s < next[q]
    <3>1. s < next[q] /\ delivered[q] \subseteq delivered'[q]
      BY <1>2, <1>3, <1>8, <2>1
    <3> QED BY <1>4, <3>1 DEF HistoryInv
  <2>2. CASE q = r /\ ~(s < next[q])
    <3>1. next[r] \in Nat /\ n \in Nat /\ s < n
      BY <1>2, <1>3, <1>8, <2>2
    <3>2. s \in h \cup v
      BY <1>2, <2>2, <3>1
    <3> QED BY <1>2, <1>3, <1>4, <1>5, <2>2, <3>1, <3>2
  <2> QED BY <2>1, <2>2
<1>9. \A m : Told(m)' = Told(m)
  BY DEF Told, GapApplied
<1> QED BY <1>3, <1>6, <1>7, <1>8, <1>9 DEF HistoryInv

\* A transient-local writer gives its history to whoever is matched, however late: no
\* reader goes past one of the last samples of an instance that it was not given.
THEOREM HistoryReachesLateJoiners == Spec => []HistoryDelivered
<1>1. Init => HistoryInv
  <2> SUFFICES ASSUME Init PROVE HistoryInv
    OBVIOUS
  <2>1. net = {} /\ pack = {} /\ seq = 0 /\ \A r \in Readers : void[r] = {}
    BY DEF Init, seq
  <2> QED BY <2>1 DEF HistoryInv
<1>2. SafeInv /\ TypeOK' /\ CacheInv' /\ HistoryInv /\ [Next]_vars => HistoryInv'
  BY StepKinds, WriterStepHistory, ReaderStepHistory
<1>3. HistoryInv => HistoryDelivered
  BY DEF HistoryInv, HistoryDelivered, Forgotten
<1> QED BY <1>1, <1>2, <1>3, TypeCorrect, SafeInvariant, CacheInvariant, PTL DEF Spec
=============================================================================
