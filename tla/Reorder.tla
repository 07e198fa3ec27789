------------------------------ MODULE Reorder ------------------------------
(***************************************************************************)
(* The reorder administration of a reliable proxy writer (q_radmin.c,      *)
(* struct nn_reorder): it keeps the samples that arrived ahead of a hole   *)
(* in the sequence, as a tree of intervals that each own a chain of        *)
(* samples, hands out chains that became deliverable, and is bounded by    *)
(* max_samples.                                                            *)
(*                                                                         *)
(* Reference counts of the receive buffers are abstracted away; a sample   *)
(* is its sequence number and a gap marker in a chain is the value GAP.    *)
(*                                                                         *)
(* A definition named X_slip... is a wrong variant of X, a slip one could  *)
(* make in that code: no definition uses it, it serves to show that the    *)
(* properties notice it (README, "Sensitivity").                           *)
(***************************************************************************)
EXTENDS Integers, Sequences, FiniteSets, SequencesExt, FiniteSetsExt

CONSTANTS
    MaxSeq,      \* bound of the model: highest sequence number that occurs
    MaxSamples,  \* max_samples: how many chain elements may be stored
    Gaps,        \* the gaps [a, b) the environment may announce, <<a, b>>
    Mode,        \* "normal" or "monotonic" (enum nn_reorder_mode)
    LateAckMode  \* config.late_ack_mode

ASSUME ReorderAssumption ==
    /\ MaxSeq \in Nat \ {0} /\ MaxSamples \in Nat \ {0}
    /\ Gaps \subseteq (1..MaxSeq) \X (2..MaxSeq + 1)
    /\ \A g \in Gaps : g[1] < g[2]
    /\ Mode \in {"normal", "monotonic"}
    /\ LateAckMode \in BOOLEAN

Seqs == 1..MaxSeq
GAP == 0         \* chain element without sampleinfo: a stored gap
NoIv == 0        \* max_sampleiv = NULL

VARIABLES
    next,        \* reorder->next_seq
    ivs,         \* sampleivtree: the stored intervals [min, maxp1, chain]
    nSamples,    \* reorder->n_samples
    maxIv,       \* max_sampleiv, named by the min of that interval
    delivered,   \* history: the samples handed to the delivery queue, in order
    gone         \* history: the sequence numbers announced as unavailable

vars == <<next, ivs, nSamples, maxIv, delivered, gone>>

----------------------------------------------------------------------------
\* rsample s as an interval of its own
Singleton(s) == [min |-> s, maxp1 |-> s + 1, chain |-> <<s>>]

\* append_rsample_interval: b follows a and its chain is linked behind a's
Append2(a, b) == [min |-> a.min, maxp1 |-> b.maxp1, chain |-> a.chain \o b.chain]

FirstIv == CHOOSE v \in ivs : \A w \in ivs : v.min <= w.min
LastIv(set) == CHOOSE v \in set : \A w \in set : w.min <= v.min
MaxOf(set) == IF set = {} THEN NoIv ELSE LastIv(set).min
MaxIvNode == CHOOSE v \in ivs : v.min = maxIv

\* the chain without its gap markers
Samples(chain) ==
    LET upTo[i \in 0..Len(chain)] ==
          IF i = 0 THEN <<>>
          ELSE IF chain[i] = GAP THEN upTo[i - 1] ELSE Append(upTo[i - 1], chain[i])
    IN  upTo[Len(chain)]

DeleteLast_slipKeepsEnd(t, m) ==
    LET last == CHOOSE v \in t : v.min = m
        rest == t \ {last}
    IN  IF Len(last.chain) = 1
        THEN [tree |-> rest, max |-> MaxOf(rest)]
        ELSE [tree |-> rest \cup {[last EXCEPT !.chain = Front(@)]}, max |-> m]

DeleteLast_slipDropsFirst(t, m) ==
    LET first == CHOOSE v \in t : \A w \in t : v.min <= w.min
        rest  == t \ {first}
    IN  [tree |-> rest, max |-> MaxOf(rest)]

DeleteLast_slipStaleMax(t, m) ==
    LET last == CHOOSE v \in t : v.min = m
        rest == t \ {last}
    IN  IF Len(last.chain) = 1
        THEN [tree |-> rest, max |-> m]
        ELSE [tree |-> rest \cup {[last EXCEPT !.chain = Front(@), !.maxp1 = @ - 1]},
              max  |-> m]

\* delete_last_sample on the tree t, whose last interval is found by max_sampleiv:
\* the chain loses its last element, and maxp1 is decremented by one.
DeleteLast(t, m) ==
    LET last == CHOOSE v \in t : v.min = m
        rest == t \ {last}
    IN  IF Len(last.chain) = 1
        THEN [tree |-> rest, max |-> MaxOf(rest)]
        ELSE [tree |-> rest \cup {[min   |-> last.min,
                                   maxp1 |-> last.maxp1 - 1,
                                   chain |-> Front(last.chain)]},
              max  |-> m]

StoreBounded_slipUnbounded(t, m) == ivs' = t /\ maxIv' = m /\ nSamples' = nSamples + 1

\* insertion in the middle or of a gap: n_samples grows, or the last sample goes
StoreBounded(t, m) ==
    IF nSamples < MaxSamples
    THEN ivs' = t /\ maxIv' = m /\ nSamples' = nSamples + 1
    ELSE LET d == DeleteLast(t, m)
         IN  ivs' = d.tree /\ maxIv' = d.max /\ nSamples' = nSamples

----------------------------------------------------------------------------
\* nn_reorder_rsample(s, full), one action per outcome

DeliverNow(s) == s = next \/ (s > next /\ Mode = "monotonic")

\* The sample is the next one: it is delivered with the interval that follows it.
RsampleDeliver(s, full) ==
    /\ DeliverNow(s) /\ ~full
    /\ LET joins == maxIv # NoIv /\ FirstIv.min <= s + 1
           got   == IF joins THEN Append2(Singleton(s), FirstIv) ELSE Singleton(s)
       IN  /\ next' = got.maxp1
           /\ ivs' = IF joins THEN ivs \ {FirstIv} ELSE ivs
           /\ maxIv' = IF joins /\ FirstIv.min = maxIv THEN NoIv ELSE maxIv
           /\ nSamples' = nSamples - (Len(got.chain) - 1)
           /\ delivered' = delivered \o Samples(got.chain)
    /\ UNCHANGED gone

\* Early returns that leave the administration alone: deliverable while the
\* delivery queue is full, already passed, at the end with no room (or with a
\* full queue), or already stored.
RsampleReject(s, full) ==
    /\ \/ DeliverNow(s) /\ full
       \/ ~DeliverNow(s) /\ s < next
       \/ /\ ~DeliverNow(s) /\ s > next /\ ivs # {}
          /\ s >= MaxIvNode.maxp1 /\ (full \/ nSamples >= MaxSamples)
       \/ /\ ~DeliverNow(s) /\ s > next /\ ivs # {} /\ s < MaxIvNode.maxp1
          /\ \/ LateAckMode /\ full
             \/ \E v \in ivs : v.min <= s /\ s < v.maxp1
    /\ UNCHANGED vars

RsampleFirst(s) ==
    /\ ~DeliverNow(s) /\ s > next /\ ivs = {}
    /\ ivs' = {Singleton(s)} /\ maxIv' = s /\ nSamples' = nSamples + 1
    /\ UNCHANGED <<next, delivered, gone>>

RsampleAtEnd(s, full) ==
    /\ ~DeliverNow(s) /\ s > next /\ ivs # {} /\ ~full /\ nSamples < MaxSamples
    /\ \/ /\ s = MaxIvNode.maxp1              \* growing last interval
          /\ ivs' = (ivs \ {MaxIvNode}) \cup {Append2(MaxIvNode, Singleton(s))}
          /\ maxIv' = maxIv
       \/ /\ s > MaxIvNode.maxp1              \* new interval at end
          /\ ivs' = ivs \cup {Singleton(s)}
          /\ maxIv' = s
    /\ nSamples' = nSamples + 1
    /\ UNCHANGED <<next, delivered, gone>>

\* The "hard case": s lies before the end of the last interval and is not stored
\* yet: grow the predecessor (and join its successor), or grow the successor at its
\* head, or make a new interval.
RsampleMiddle(s, full) ==
    /\ ~(LateAckMode /\ full)
    /\ ~DeliverNow(s) /\ s > next /\ ivs # {} /\ s < MaxIvNode.maxp1
    /\ \A v \in ivs : ~(v.min <= s /\ s < v.maxp1)
    /\ LET pred == {v \in ivs : v.maxp1 = s}
           succ == {v \in ivs : v.min = s + 1}
       IN  \/ \E p \in pred :
                LET q    == Append2(p, Singleton(s))
                    tree == IF succ = {} THEN (ivs \ {p}) \cup {q}
                            ELSE (ivs \ (pred \cup succ))
                                   \cup {Append2(q, CHOOSE v \in succ : TRUE)}
                IN  StoreBounded(tree, IF \E v \in succ : v.min = maxIv
                                       THEN p.min ELSE maxIv)
           \/ /\ pred = {}
              /\ \E v \in succ : StoreBounded(
                     (ivs \ {v}) \cup {Append2(Singleton(s), v)},
                     IF v.min = maxIv THEN s ELSE maxIv)
           \/ /\ pred = {} /\ succ = {}
              /\ StoreBounded(ivs \cup {Singleton(s)}, maxIv)
    /\ UNCHANGED <<next, delivered, gone>>

----------------------------------------------------------------------------
\* nn_reorder_gap(a, b): all of [a, b) is unavailable; one action per outcome

Touching(a, b) == {v \in ivs : v.maxp1 >= a /\ v.min <= b}

\* append_rsample_interval of the intervals of T, one after the other
Joined(T) ==
    LET upTo[S \in (SUBSET T) \ {{}}] ==
          LET last == LastIv(S) IN
          IF S = {last} THEN last ELSE Append2(upTo[S \ {last}], last)
    IN  upTo[T]

Coalesced_slipSkipsHole(a, b) ==
    LET j == Joined(Touching(a, b))
    IN  [min |-> IF a < j.min THEN a ELSE j.min, maxp1 |-> b + 1, chain |-> j.chain]

\* coalesce_intervals_touching_range: one interval of everything [a, b) touches
Coalesced(a, b) ==
    LET j == Joined(Touching(a, b))
    IN  [min   |-> IF a < j.min THEN a ELSE j.min,
         maxp1 |-> IF b > j.maxp1 THEN b ELSE j.maxp1,
         chain |-> j.chain]

GapIgnored(a, b) ==          \* too old, or a mode that does not track gaps
    /\ b <= next \/ Mode # "normal"
    /\ UNCHANGED <<next, ivs, nSamples, maxIv, delivered>>

\* The gap starts at or before the next expected sample: everything up to its end,
\* and the intervals joined to it, is delivered.
GapDelivers(a, b) ==
    /\ b > next /\ Mode = "normal" /\ Touching(a, b) # {}
    /\ LET c == Coalesced(a, b) IN
       /\ c.min <= next
       /\ ivs' = ivs \ Touching(a, b)
       /\ next' = c.maxp1
       /\ maxIv' = MaxOf(ivs')
       /\ nSamples' = nSamples - Len(c.chain)
       /\ delivered' = delivered \o Samples(c.chain)

GapAdvances(a, b) ==         \* nothing stored touches it and it starts at next
    /\ b > next /\ Mode = "normal" /\ Touching(a, b) = {} /\ a <= next
    /\ next' = b
    /\ UNCHANGED <<ivs, nSamples, maxIv, delivered>>

GapCoalesces(a, b) ==        \* it joins stored intervals beyond a hole
    /\ b > next /\ Mode = "normal" /\ Touching(a, b) # {}
    /\ LET c == Coalesced(a, b) IN
       /\ c.min > next
       /\ ivs' = (ivs \ Touching(a, b)) \cup {c}
       /\ maxIv' = MaxOf(ivs')
    /\ UNCHANGED <<next, nSamples, delivered>>

GapStored(a, b) ==           \* it is stored as an interval without samples
    /\ b > next /\ Mode = "normal" /\ Touching(a, b) = {} /\ a > next
    /\ ~(nSamples = MaxSamples /\ a > MaxIvNode.maxp1)
    /\ LET t == ivs \cup {[min |-> a, maxp1 |-> b, chain |-> <<GAP>>]} IN
       StoreBounded(t, MaxOf(t))
    /\ UNCHANGED <<next, delivered>>

GapRejected(a, b) ==         \* max_samples reached and the gap lies at the end
    /\ b > next /\ Mode = "normal" /\ Touching(a, b) = {} /\ a > next
    /\ nSamples = MaxSamples /\ a > MaxIvNode.maxp1
    /\ UNCHANGED <<next, ivs, nSamples, maxIv, delivered>>

----------------------------------------------------------------------------
Init ==
    /\ next = 1 /\ ivs = {} /\ nSamples = 0 /\ maxIv = NoIv
    /\ delivered = <<>> /\ gone = {}

\* A sample arrives. The writer never sends what it announced as gone, except for
\* copies that were already under way: those may still arrive.
Rsample ==
    \E s \in Seqs, full \in BOOLEAN :
       \/ RsampleDeliver(s, full)
       \/ RsampleReject(s, full)
       \/ RsampleFirst(s)
       \/ RsampleAtEnd(s, full)
       \/ RsampleMiddle(s, full)

Gap ==
    \E g \in Gaps :
       /\ \/ GapIgnored(g[1], g[2])
          \/ GapDelivers(g[1], g[2])
          \/ GapAdvances(g[1], g[2])
          \/ GapCoalesces(g[1], g[2])
          \/ GapStored(g[1], g[2])
          \/ GapRejected(g[1], g[2])
       /\ gone' = gone \cup (g[1]..g[2] - 1)

Next == Rsample \/ Gap

Spec == Init /\ [][Next]_vars

----------------------------------------------------------------------------
Stored == UNION {v.min..v.maxp1 - 1 : v \in ivs}
StoredSamples == (UNION {ToSet(v.chain) : v \in ivs}) \ {GAP}
\* the chain elements that n_samples counts
Elements == UNION {{v.min} \X DOMAIN v.chain : v \in ivs}

NackMap_slipShort(maxseq) ==
    LET numbits == Min({maxseq - next, MaxSamples})
    IN  {s \in next..next + numbits - 1 : s \notin Stored}

\* nn_reorder_nackmap with base = next_seq: the numbers asked for again, of those up
\* to maxseq that fit in the bitmap
NackMap(maxseq) ==
    LET numbits == Min({maxseq + 1 - next, MaxSamples})
    IN  {s \in next..next + numbits - 1 : s \notin Stored}

TypeOK ==
    /\ next \in 1..MaxSeq + 1
    /\ ivs \subseteq [min : Seqs, maxp1 : 2..MaxSeq + 1, chain : Seq(Seqs \cup {GAP})]
    /\ nSamples \in 0..MaxSamples /\ maxIv \in Seqs \cup {NoIv}
    /\ delivered \in Seq(Seqs) /\ gone \subseteq Seqs

\* The stored intervals are non-empty, lie beyond the next expected sample, do not
\* overlap or touch, and the two cached values agree with the tree (the assertions at
\* the top of nn_reorder_rsample, and the comment that introduces the reorder index).
IntervalsWellFormed ==
    /\ \A v \in ivs : next < v.min /\ v.min < v.maxp1 /\ v.chain # <<>>
    /\ \A v, w \in ivs : v # w => v.maxp1 < w.min \/ w.maxp1 < v.min
    /\ maxIv = MaxOf(ivs)
    /\ nSamples = Cardinality(Elements)

\* Delivery never passes over a sequence number: each one below next_seq was
\* delivered or announced as unavailable (for a reliable proxy writer).
NoSilentLoss ==
    Mode = "normal" => \A s \in 1..next - 1 : s \in ToSet(delivered) \cup gone

\* Samples come out in the writer's order and at most once.
DeliveredInOrder ==
    \A i, j \in DOMAIN delivered : i < j => delivered[i] < delivered[j]

\* Everything asked for again is really missing, and everything not asked for that
\* the bitmap covers is delivered, stored or announced: a NACK that left a hole out
\* would stall the reader, since nothing else makes the writer resend.
NackExact ==
    Mode = "normal" =>
      \A m \in next - 1..MaxSeq :
         LET asked == NackMap(m) IN
         /\ asked \cap StoredSamples = {}
         /\ \A s \in next..m : s < next + MaxSamples /\ s \notin asked
                                => s \in StoredSamples \cup gone

\* max_samples is enforced at the expense of the highest sequence numbers: what a
\* step drops follows every sample that remains stored.
PrefersLowest ==
    [][\A s \in StoredSamples :
          \/ s \in StoredSamples' \/ s \in ToSet(delivered')
          \/ \A t \in StoredSamples' : t < s]_vars

\* The interval tree implements the plain set of waiting samples.
Buffer == INSTANCE SampleBuffer WITH
    have <- StoredSamples, void <- Stored \ StoredSamples
ImplementsBuffer == Buffer!SSpec
=============================================================================
