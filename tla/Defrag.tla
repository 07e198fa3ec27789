------------------------------- MODULE Defrag --------------------------------
(***************************************************************************)
(* Defragmentation (struct nn_defrag in q_radmin.c): the fragments of the  *)
(* samples of one proxy writer, per sample a tree of intervals of bytes,   *)
(* until a sample is complete and goes to the reorder administration.      *)
(* Offsets count from 0 and an interval stands for [min, maxp1).  All      *)
(* samples have the same size here.                                        *)
(*                                                                         *)
(* The fragments of an interval (its chain) are left out: a chain may hold *)
(* bytes twice, and later stages expect that.  lastfrag is the last of the *)
(* intervals, which the code asserts.                                      *)
(*                                                                         *)
(* Definitions named X_slip... are wrong variants that no specification    *)
(* uses.                                                                   *)
(***************************************************************************)
EXTENDS Integers, FiniteSets, FiniteSetsExt

CONSTANTS MaxSeq,               \* bound: sequence numbers
          MaxSamples, DropMode, \* of nn_defrag_new
          Size, FragSize,       \* bytes of a sample and of a fragment
          Width,                \* a message carries up to Width fragments
          BitmapMax,            \* maxsz of the NACK bitmap
          Gaps                  \* the intervals [min, maxp1) that are declared unavailable

VARIABLES
    samples,     \* per sequence number in the tree: intervals and whose sample info
    maxSample,   \* the highest number in it, or 0
    result,      \* what the last call returned
    got          \* history: the bytes received of each sample in the tree

defragVars == <<samples, maxSample, result, got>>

Seqs == 1 .. MaxSeq
Iv(a, b) == [min |-> a, maxp1 |-> b]
Bytes(v) == v.min .. v.maxp1 - 1
AllBytes == 0 .. Size - 1
Sentinel == Iv(0, 0)
NFrags == (Size + FragSize - 1) \div FragSize
Nothing == [seq |-> 0, info |-> "none", got |-> {}]

\* what a DataFrag of cnt fragments from number f on carries
FragRange(f, cnt) == Iv(f * FragSize, Min({(f + cnt) * FragSize, Size}))

\* The sample info is filled in only from the first fragment.
InfoOf(v) == IF v.min = 0 THEN "first" ELSE "partial"

Next1(ivs, v) == CHOOSE s \in ivs : s.min > v.min /\ \A t \in ivs : t.min > v.min => s.min <= t.min
HasSucc(ivs, v) == \E s \in ivs : s.min > v.min
PredEq(ivs, a) == CHOOSE p \in ivs : p.min <= a /\ \A q \in ivs : q.min <= a => q.min <= p.min
LastFrag(ivs) == CHOOSE p \in ivs : \A q \in ivs : q.min <= p.min
FirstFrag(ivs) == CHOOSE p \in ivs : \A q \in ivs : p.min <= q.min

\* defrag_try_merge_with_succ.  Its result is always 0 since it compares with what it
\* has just assigned, so that the loop around it is executed once; a successor that is
\* contained in v makes v shorter.
MergeWithSucc(ivs, v) ==
    LET s == Next1(ivs, v) IN
    IF ~HasSucc(ivs, v) \/ s.min > v.maxp1 THEN ivs
    ELSE (ivs \ {v, s}) \cup {Iv(v.min, s.maxp1)}

\* defrag_rsample_new
NewSample(v) ==
    [ivs |-> {v} \cup (IF v.min > 0 THEN {Sentinel} ELSE {}), info |-> InfoOf(v)]

\* defrag_add_fragment
AddFragment(s, v) ==
    LET p == PredEq(s.ivs, v.min)
        succ == Next1(s.ivs, p)
        grown == Iv(p.min, v.maxp1)
        headed == Iv(v.min, Max({v.maxp1, succ.maxp1}))
    IN IF p.maxp1 >= v.maxp1 THEN s
       ELSE IF v.min <= p.maxp1
            THEN [ivs |-> MergeWithSucc((s.ivs \ {p}) \cup {grown}, grown),
                  info |-> IF p = Sentinel THEN InfoOf(v) ELSE s.info]
       ELSE IF HasSucc(s.ivs, p) /\ succ.min <= v.maxp1
            THEN LET ext == (s.ivs \ {succ}) \cup {headed}
                 IN [s EXCEPT !.ivs = IF v.maxp1 > succ.maxp1 THEN MergeWithSucc(ext, headed)
                                      ELSE ext]
       ELSE [s EXCEPT !.ivs = @ \cup {v}]

IsComplete(s) == \E v \in s.ivs : v.min = 0 /\ v.maxp1 >= Size
-----------------------------------------------------------------------------
MaxOf(S) == Max(S \cup {0})
Keep(f, S) == [x \in DOMAIN f \cap S |-> f[x]]
With(f, x, y) == [z \in DOMAIN f \cup {x} |-> IF z = x THEN y ELSE f[z]]

\* defrag_limit_samples: whom it drops, if there is no room
Victim(T, seq) == IF DropMode = "latest" THEN MaxOf(T) ELSE Min(T)

NoRoom(T, seq) == Cardinality(T) >= MaxSamples /\ seq # maxSample

Refused(T, seq) ==
    /\ NoRoom(T, seq)
    /\ IF DropMode = "latest" THEN seq > maxSample ELSE seq < Min(T)

\* The samples that stay.  The limit is applied to a fragment of any sample but the
\* latest, also when that sample is in the tree already.
Limited(T, seq) == IF NoRoom(T, seq) THEN T \ {Victim(T, seq)} ELSE T

\* samples becomes t and ghost g; of these, seq is returned if it is complete
Settle(t, g, seq) ==
    LET done == IsComplete(t[seq])
        left == DOMAIN t \ (IF done THEN {seq} ELSE {})
    IN /\ samples' = Keep(t, left)
       /\ got' = Keep(g, left)
       /\ maxSample' = MaxOf(left)
       /\ result' = IF done THEN [seq |-> seq, info |-> t[seq].info, got |-> g[seq]] ELSE Nothing

\* nn_defrag_rsample of a sample that is not fragmented, or arrived as one
Whole(seq, v) ==
    /\ Bytes(v) = AllBytes
    /\ result' = [seq |-> seq, info |-> InfoOf(v), got |-> AllBytes]
    /\ UNCHANGED <<samples, maxSample, got>>

\* a new sample that does not fit
Discard(seq, v) ==
    /\ Bytes(v) # AllBytes
    /\ Refused(DOMAIN samples, seq)
    /\ result' = Nothing
    /\ UNCHANGED <<samples, maxSample, got>>

\* a fragment that is stored or makes its sample complete
Fragment(seq, v) ==
    LET stay == Limited(DOMAIN samples, seq)
        old == Keep(samples, stay)
        seen == Keep(got, stay)
    IN /\ Bytes(v) # AllBytes
       /\ ~Refused(DOMAIN samples, seq)
       /\ IF seq \in stay
          THEN Settle([old EXCEPT ![seq] = AddFragment(@, v)],
                      [seen EXCEPT ![seq] = @ \cup Bytes(v)], seq)
          ELSE Settle(With(old, seq, NewSample(v)), With(seen, seq, Bytes(v)), seq)

\* nn_defrag_rsample
Rsample(seq, v) == Whole(seq, v) \/ Discard(seq, v) \/ Fragment(seq, v)

\* nn_defrag_notegap
NoteGap(g) ==
    LET stay == {s \in DOMAIN samples : s < g.min \/ s >= g.maxp1} IN
    /\ samples' = Keep(samples, stay)
    /\ got' = Keep(got, stay)
    /\ maxSample' = MaxOf(stay)
    /\ result' = Nothing
-----------------------------------------------------------------------------
NackEnd_slipLastStart(ivs, last) ==
    IF LastFrag(ivs).min > 0 THEN (LastFrag(ivs).min - 1) \div FragSize ELSE 0

\* the last fragment that is asked for, when number last was announced
NackEnd(ivs, last) ==
    LET liv == LastFrag(ivs) IN
    IF liv.maxp1 < (last + 1) * FragSize /\ liv.maxp1 < Size THEN last
    ELSE IF liv.min > 0 THEN (liv.min - 1) \div FragSize ELSE 0

\* nn_defrag_nackmap for a sample in the tree: the fragments asked for
NackMap(seq, announced) ==
    LET ivs == samples[seq].ivs
        last == Min({announced, NFrags - 1})
        base == FirstFrag(ivs).maxp1 \div FragSize
        end == Min({NackEnd(ivs, last), base + BitmapMax - 1})
        \* the bits below the interval v, above its predecessor
        Below(v) == {f \in base .. end : \E w \in ivs : HasSucc(ivs, w) /\ Next1(ivs, w) = v
                                   /\ f >= w.maxp1 \div FragSize
                                   /\ f < (v.min + FragSize - 1) \div FragSize}
        Beyond == {f \in base .. end : f >= LastFrag(ivs).maxp1 \div FragSize}
    IN UNION {Below(v) : v \in ivs \ {FirstFrag(ivs)}} \cup Beyond

\* and for one that is not
NackMapUnknown(announced) == 0 .. Min({announced + 1, BitmapMax}) - 1
-----------------------------------------------------------------------------
Init ==
    /\ samples = [s \in {} |-> Sentinel]
    /\ got = [s \in {} |-> {}]
    /\ maxSample = 0
    /\ result = Nothing

Messages == {FragRange(f, cnt) : f \in 0 .. NFrags - 1, cnt \in 1 .. Width}

Next ==
    \/ \E seq \in Seqs, v \in Messages : Rsample(seq, v)
    \/ \E g \in Gaps : NoteGap(g)

Spec == Init /\ [][Next]_defragVars
-----------------------------------------------------------------------------
(* Properties *)

Covered(s) == UNION {Bytes(v) : v \in samples[s].ivs}

\* The intervals of a sample are disjoint with something missing between any two, and
\* start with one at 0, possibly empty; max_sample is the highest, and never more than
\* max_samples are kept.
TreeWellFormed ==
    /\ maxSample = MaxOf(DOMAIN samples)
    /\ Cardinality(DOMAIN samples) <= MaxSamples
    /\ \A s \in DOMAIN samples :
         LET ivs == samples[s].ivs IN
         /\ \E v \in ivs : v.min = 0
         /\ \A v \in ivs : v = Sentinel \/ v.min < v.maxp1
         /\ \A v, w \in ivs : v.min < w.min => v.maxp1 < w.min
         /\ samples[s].info = "first" <=> Sentinel \notin ivs

\* A sample is handed on when all of its bytes were received, at once, and not before,
\* with the sample info of its first fragment; nothing is believed to be there that was
\* not received, and if a message carries one fragment only nothing is lost either.
CompleteWhenReceived ==
    /\ result.seq # 0 => result.got = AllBytes /\ result.info = "first"
    /\ \A s \in DOMAIN samples :
          /\ ~IsComplete(samples[s])
          /\ Covered(s) \subseteq got[s]
          /\ Width = 1 => Covered(s) = got[s]

\* The fragments asked for again are the lowest missing ones of those known to have been
\* sent: up to the last one announced, or the last one received.
NackNamesMissing ==
    \A s \in DOMAIN samples, announced \in 0 .. NFrags :
       LET Missing(f) == ~(Bytes(FragRange(f, 1)) \subseteq Covered(s))
           sent == {f \in 0 .. NFrags - 1 : f <= announced \/ \E g \in f .. NFrags - 1 : ~Missing(g)}
           holes == {f \in sent : Missing(f)}
       IN NackMap(s, announced) = {f \in holes : f < Min(holes) + BitmapMax}

\* With DROP_LATEST a fragment that finds no room costs the highest sample, which may be
\* its own: the lowest are needed first.
DropsHighest ==
    [][DropMode = "latest" /\ (\E seq \in Seqs, v \in Messages : Rsample(seq, v)) =>
         \A s \in DOMAIN samples \ DOMAIN samples' : s \in {result'.seq, maxSample}]_defragVars
=============================================================================
