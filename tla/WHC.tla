-------------------------------- MODULE WHC --------------------------------
(***************************************************************************)
(* The writer history cache (q_whc.c): the samples by sequence number, the *)
(* tree of intervals of consecutive numbers with its "open" interval, the  *)
(* index with a circular buffer of samples per instance, and the counts.   *)
(* Its owner is a writer that writes and unregisters instances while       *)
(* reliable readers come, acknowledge and leave (q_transmit.c,             *)
(* q_entity.c); every operation runs under wr->e.lock, as one action.      *)
(*                                                                         *)
(* Nodes are named by their sequence number, index nodes by their          *)
(* instance, and the list linking the nodes is their order. Every sample   *)
(* has size 1, so that unacked_bytes counts samples.                       *)
(*                                                                         *)
(* A definition named X_slip... is a wrong variant of X that nothing uses  *)
(* (README, "Sensitivity").                                                *)
(***************************************************************************)
EXTENDS HistoryCache, FiniteSetsExt

CONSTANTS
    Keys,        \* the instances
    NoKey,       \* no instance
    Kinds,       \* what is written: "data" and, or not, "unreg"
    StartupMode, \* the writer starts in startup mode (volatile, aggressive KEEP_LAST)
    MaxSeq       \* bound of the model: how many samples are written

ASSUME WHCAssumption ==
    /\ NoKey \notin Keys
    /\ Kinds \subseteq {"data", "unreg"}
    /\ StartupMode \in BOOLEAN /\ (StartupMode => ~TL /\ HDepth > 0)
    /\ MaxSeq \in Nat \ {0}

VARIABLES
    log,      \* what was written, [key, kind]; wr->seq is its length
    c,        \* struct whc
    readers,  \* there are reliable readers, and ...
    acked,    \* ... all of them have acknowledged up to this
    startup   \* wr->startup_mode

vars == <<log, c, readers, acked, startup>>

seq == Len(log)
NoSeq == 0

\* f with x mapped to y
Extended(f, x, y) == [z \in DOMAIN f \cup {x} |-> IF z = x THEN y ELSE f[z]]

----------------------------------------------------------------------------
\* struct whc, empty
New ==
    [nodes |-> <<>>, intvs |-> {[min |-> 1, maxp1 |-> 1]}, open |-> [min |-> 1, maxp1 |-> 1],
     size |-> 0, unacked |-> 0, maxseq |-> NoSeq, maxDrop |-> 0, idx |-> <<>>,
     tldepth  |-> IF StartupMode THEN HDepth ELSE TLDepth,
     idxdepth |-> IF StartupMode THEN HDepth ELSE IdxDepth(HDepth, TLDepth),
     hdepth |-> HDepth, tl |-> TL]

Latest(intvs) == CHOOSE i \in intvs : \A j \in intvs : j.min <= i.min

Nibbled_slipStaleOpen(w, s) ==
    LET i      == CHOOSE j \in w.intvs : j.min <= s /\ s < j.maxp1
        pieces == {p \in {[min |-> i.min, maxp1 |-> s], [min |-> s + 1, maxp1 |-> i.maxp1]} :
                   p.min < p.maxp1}
    IN  [intvs |-> (w.intvs \ {i}) \cup pieces, open |-> w.open]

\* the intervals after the removal of s from the one it is in: that one shrinks, is
\* split, or goes if nothing is left, unless it is the open one
Nibbled(w, s) ==
    LET i      == CHOOSE j \in w.intvs : j.min <= s /\ s < j.maxp1
        pieces == {p \in {[min |-> i.min, maxp1 |-> s], [min |-> s + 1, maxp1 |-> i.maxp1]} :
                   p.min < p.maxp1}
        rest   == IF pieces = {} /\ i = w.open THEN {[min |-> s + 1, maxp1 |-> s + 1]}
                  ELSE pieces
    IN  [intvs |-> (w.intvs \ {i}) \cup rest,
         open  |-> IF i = w.open THEN Latest(rest) ELSE w.open]

\* delete_one_sample_from_idx: the newest sample of an instance goes last
Unindexed(w, s) ==
    LET n == w.nodes[s] IN
    IF n.inst = NoKey THEN w.idx
    ELSE IF n.pos # w.idx[n.inst].head
         THEN [w.idx EXCEPT ![n.inst].hist[n.pos] = NoSeq]
         ELSE Restrict(w.idx, DOMAIN w.idx \ {n.inst})

\* whc_delete_one_intv
DeleteNode(w, s) ==
    LET i == Nibbled(w, s)
    IN  [w EXCEPT !.nodes = Restrict(@, DOMAIN @ \ {s}), !.idx = Unindexed(w, s),
                  !.unacked = @ - (IF w.nodes[s].unacked THEN 1 ELSE 0),
                  !.intvs = i.intvs, !.open = i.open]

\* whc_delete_one
DeleteOne(w, s) == [DeleteNode(w, s) EXCEPT !.size = @ - 1]

\* the samples in S go, in the order in which they were written
DeleteAll(w, S) ==
    LET upTo[n \in 0..MaxSeq] ==
            IF n = 0 THEN w
            ELSE IF n \in S THEN DeleteOne(upTo[n - 1], n) ELSE upTo[n - 1]
    IN  upTo[MaxSeq]

\* the samples lose their places in the index
Unlinked(nodes, S) ==
    [s \in DOMAIN nodes |-> IF s \in S THEN [nodes[s] EXCEPT !.inst = NoKey] ELSE nodes[s]]

\* delete_one_instance_from_idx: what is acknowledged goes along
DeleteInstance(w, k, m) ==
    LET hist == {w.idx[k].hist[p] : p \in DOMAIN w.idx[k].hist} \ {NoSeq}
    IN  DeleteAll([w EXCEPT !.nodes = Unlinked(@, hist), !.idx = Restrict(@, DOMAIN @ \ {k})],
                  {s \in hist : s <= m})

\* whc_findmax_procedurally
FindMax(w) ==
    IF w.size = 0 THEN NoSeq
    ELSE IF w.open.min < w.open.maxp1 THEN w.open.maxp1 - 1
         ELSE Latest(w.intvs \ {w.open}).maxp1 - 1

----------------------------------------------------------------------------
\* whc_remove_acked_messages

\* how far position pos is behind the head of k's buffer
Behind(w, k, pos) ==
    LET head == w.idx[k].head IN (head + (IF pos > head THEN w.idxdepth ELSE 0)) - pos

InTLIdx_slipOffByOne(w, s) ==
    LET n == w.nodes[s] IN n.inst # NoKey /\ Behind(w, n.inst, n.pos) < w.tldepth - 1

\* whcn_in_tlidx
InTLIdx(w, s) ==
    LET n == w.nodes[s] IN n.inst # NoKey /\ Behind(w, n.inst, n.pos) < w.tldepth

InRange(w, m) == {s \in DOMAIN w.nodes : s > w.maxDrop /\ s <= m}

\* first pass: the transient-local history stays, but no longer counts as unacknowledged
DropOrKeep(w, s) ==
    IF InTLIdx(w, s)
    THEN [w EXCEPT !.unacked = @ - (IF w.nodes[s].unacked THEN 1 ELSE 0),
                   !.nodes[s].unacked = FALSE]
    ELSE DeleteOne(w, s)

\* second pass, for the instance of s: samples of a deeper history that were kept
\* because they were in the transient-local history at the time
Prune_slipNone(w, s, m) == w

Prune(w, s, m) ==
    LET k == w.nodes[s].inst
        old == {w.idx[k].hist[p] :
                   p \in {q \in 0..w.idxdepth - 1 : Behind(w, k, q) >= w.tldepth}}
    IN  IF w.idx[k].prune = m THEN w
        ELSE DeleteAll([w EXCEPT !.idx[k].prune = m], old \ {NoSeq})

FirstPass(w, m) ==
    LET upTo[n \in 0..MaxSeq] ==
            IF n = 0 THEN w
            ELSE IF n \in InRange(w, m) THEN DropOrKeep(upTo[n - 1], n) ELSE upTo[n - 1]
    IN  upTo[MaxSeq]

SecondPass(w, m) ==
    LET upTo[n \in 0..MaxSeq] ==
            IF n = 0 THEN w
            ELSE IF n \in InRange(w, m) THEN Prune(upTo[n - 1], n, m) ELSE upTo[n - 1]
    IN  upTo[MaxSeq]

RemoveAckedFull(w, m) ==
    LET first  == FirstPass(w, m)
        pruned == IF w.tldepth > 0 /\ w.idxdepth > w.tldepth THEN SecondPass(first, m) ELSE first
    IN  IF w.tl /\ w.tldepth = 0 THEN w      \* KEEP_ALL on transient local
        ELSE [pruned EXCEPT !.maxseq = FindMax(pruned), !.maxDrop = m]

\* there is no index, and a single interval: all up to m goes
RemoveAckedNoIdx(w, m) ==
    LET target  == IF m \in DOMAIN w.nodes THEN m ELSE w.maxseq
        dropped == {s \in DOMAIN w.nodes : s <= target}
        left    == DOMAIN w.nodes \ dropped
        open    == [min |-> m + 1, maxp1 |-> IF left = {} THEN m + 1 ELSE w.open.maxp1]
    IN  IF m <= w.maxDrop THEN w
        ELSE IF w.maxseq = NoSeq \/ m < w.open.min THEN [w EXCEPT !.maxDrop = m]
        ELSE [w EXCEPT !.nodes = Restrict(@, left), !.intvs = {open}, !.open = open,
                       !.maxseq = IF left = {} THEN NoSeq ELSE @,
                       !.unacked = @ - Cardinality(dropped),
                       !.size = @ - Cardinality(dropped), !.maxDrop = m]

RemoveAcked(w, m) ==
    IF w.idxdepth = 0 THEN RemoveAckedNoIdx(w, m) ELSE RemoveAckedFull(w, m)

Downgraded_slipSkipsDropped(w) == RemoveAckedFull([w EXCEPT !.tldepth = 0], w.maxDrop)

\* whc_downgrade_to_volatile, for an index that also serves a KEEP_LAST history (the
\* only kind a writer in startup mode has)
Downgraded(w) == RemoveAckedFull([w EXCEPT !.tldepth = 0, !.maxDrop = 0], w.maxDrop)

----------------------------------------------------------------------------
\* whc_insert

InsertSeq_slipAlwaysGrows(w, m, s) ==
    LET open == IF w.open.min = w.open.maxp1 THEN [min |-> s, maxp1 |-> s + 1]
                ELSE [w.open EXCEPT !.maxp1 = s + 1]
    IN  [w EXCEPT !.nodes = Extended(@, s, [inst |-> NoKey, pos |-> 0, unacked |-> s > m]),
                  !.intvs = (w.intvs \ {w.open}) \cup {open}, !.open = open,
                  !.unacked = @ + (IF s > m THEN 1 ELSE 0),
                  !.size = @ + 1, !.maxseq = s]

\* whc_insert_seq: an empty open interval is reset, one that ends at s grows, and
\* otherwise a new one is opened
InsertSeq(w, m, s) ==
    LET grows == w.open.min < w.open.maxp1 /\ w.open.maxp1 = s
        open  == [min |-> IF grows THEN w.open.min ELSE s, maxp1 |-> s + 1]
        kept  == IF grows \/ w.open.min = w.open.maxp1 THEN w.intvs \ {w.open} ELSE w.intvs
    IN  [w EXCEPT !.nodes = Extended(@, s, [inst |-> NoKey, pos |-> 0, unacked |-> s > m]),
                  !.intvs = kept \cup {open}, !.open = open,
                  !.unacked = @ + (IF s > m THEN 1 ELSE 0),
                  !.size = @ + 1, !.maxseq = s]

\* an unregister that everybody acknowledged already is not kept
DropUnregister(w, m, s, prev) ==
    IF s <= m THEN [DeleteOne(w, s) EXCEPT !.maxseq = prev] ELSE w

\* the slot after the head of k's buffer
NextSlot(w, k) == IF w.idx[k].head + 1 = w.idxdepth THEN 0 ELSE w.idx[k].head + 1

Indexed_slipPrunesUnacked(w, k, m, s) ==
    LET head == NextSlot(w, k)
        old  == w.idx[k].hist[head]
        put  == [w EXCEPT !.idx[k].head = head, !.idx[k].hist[head] = s,
                          !.nodes[s].inst = k, !.nodes[s].pos = head]
        left == [put EXCEPT !.nodes = Unlinked(@, {old})]
    IN  IF old = NoSeq THEN put ELSE DeleteOne(left, old)

\* s replaces the oldest sample in the instance's buffer, which goes if the history is
\* bounded or it is acknowledged; if s itself is acknowledged at once, the sample it
\* pushes out of the transient-local history goes too
Indexed(w, k, m, s) ==
    LET head == NextSlot(w, k)
        old  == w.idx[k].hist[head]
        put  == [w EXCEPT !.idx[k].head = head, !.idx[k].hist[head] = s,
                          !.nodes[s].inst = k, !.nodes[s].pos = head]
        over == [put EXCEPT !.nodes = Unlinked(@, {old})]
        left == IF old # NoSeq /\ (w.hdepth > 0 \/ old <= m) THEN DeleteOne(over, old) ELSE over
        pos  == IF head >= w.tldepth THEN head - w.tldepth ELSE head + w.idxdepth - w.tldepth
        tl   == left.idx[k].hist[pos]
    IN  IF s <= m /\ w.tldepth > 0 /\ w.idxdepth > w.tldepth /\ tl # NoSeq
        THEN DeleteOne(left, tl) ELSE left

NewInstance(w, k, s) ==
    [w EXCEPT !.nodes[s].inst = k,
              !.idx = Extended(@, k, [hist |-> [p \in 0..w.idxdepth - 1 |-> IF p = 0 THEN s ELSE NoSeq],
                                   head |-> 0, prune |-> 0])]

Insert(w, m, s, e) ==
    LET n    == InsertSeq(w, m, s)
        gone == DeleteInstance(n, e.key, m)
    IN  IF w.idxdepth = 0 THEN n
        ELSE IF e.kind = "unreg"
             THEN IF e.key \in DOMAIN w.idx
                  THEN DropUnregister(gone, m, s, Max({NoSeq} \cup (DOMAIN gone.nodes \ {s})))
                  ELSE DropUnregister(n, m, s, w.maxseq)
             ELSE IF e.key \in DOMAIN w.idx THEN Indexed(n, e.key, m, s)
                  ELSE NewInstance(n, e.key, s)

----------------------------------------------------------------------------
\* The writer

\* insert_sample_in_whc, with writer_max_drop_seq: without readers all is acknowledged
Write(e) ==
    LET m == IF readers THEN acked ELSE seq + 1 IN
    /\ seq < MaxSeq
    /\ log' = Append(log, e)
    /\ c' = IF readers \/ TL \/ startup THEN Insert(c, m, seq + 1, e) ELSE c
    /\ UNCHANGED <<readers, acked, startup>>

\* the first reliable reader is matched
Match ==
    /\ ~readers /\ readers' = TRUE /\ acked' = seq
    /\ UNCHANGED <<log, c, startup>>

\* the reader that lags most acknowledges or leaves: remove_acked_messages
Ack(m) ==
    /\ readers /\ m > acked /\ m <= seq
    /\ acked' = m /\ c' = RemoveAcked(c, m)
    /\ UNCHANGED <<log, readers, startup>>

\* the last reader leaves
Leave ==
    /\ readers /\ readers' = FALSE
    /\ c' = RemoveAcked(c, seq) /\ acked' = seq
    /\ UNCHANGED <<log, startup>>

\* writer_exit_startup_mode
ExitStartup ==
    /\ startup /\ startup' = FALSE
    /\ c' = RemoveAcked(Downgraded(c), IF readers THEN acked ELSE seq)
    /\ UNCHANGED <<log, readers, acked>>

Init ==
    /\ log = <<>> /\ c = New /\ readers = FALSE /\ acked = 0 /\ startup = StartupMode

Next ==
    \/ \E k \in Keys, kind \in Kinds : Write([key |-> k, kind |-> kind])
    \/ Match
    \/ \E m \in 1..MaxSeq : Ack(m)
    \/ Leave
    \/ ExitStartup

Spec == Init /\ [][Next]_vars

----------------------------------------------------------------------------
Stored == DOMAIN c.nodes
Span(i) == i.min..i.maxp1 - 1

TypeOK ==
    /\ log \in Seq([key : Keys, kind : Kinds])
    /\ readers \in BOOLEAN /\ startup \in BOOLEAN /\ acked \in 0..seq
    /\ Stored \subseteq 1..seq /\ c.open \in c.intvs
    /\ c.maxDrop \in 0..seq /\ DOMAIN c.idx \subseteq Keys

\* The interval tree describes exactly the samples that are stored, as maximal runs: no
\* two intervals touch or overlap, only the open one may be empty, and it is the last
\* (check_whc).  Heartbeats and gaps are computed from it.
IntervalsExact ==
    /\ UNION {Span(i) : i \in c.intvs} = Stored
    /\ \A i, j \in c.intvs : i.min < j.min =>
          i.maxp1 < j.min \/ (Span(j) = {} /\ i.maxp1 = j.min)
    /\ \A i \in c.intvs : i = c.open \/ (Span(i) # {} /\ i.min < c.open.min)

\* The number of samples, the number of those that hold up a throttled writer and the
\* highest one are those of the samples stored (q_whc.h: "counted in
\* whc::unacked_bytes iff 1"), so that a writer is throttled or lingers for as long as
\* something is unacknowledged, and no longer.
CountsExact ==
    /\ c.size = Cardinality(Stored)
    /\ c.maxseq = Max({NoSeq} \cup Stored)
    /\ c.unacked = Cardinality({s \in Stored : c.nodes[s].unacked})

\* What counts as unacknowledged is what readers have not acknowledged.
UnackedMeansUnacked ==
    \A s \in Stored : c.nodes[s].unacked <=> readers /\ s > acked

\* The samples of instance k written since it was last unregistered
Written(k) ==
    {s \in 1..seq : /\ log[s] = [key |-> k, kind |-> "data"]
                    /\ \A t \in s..seq : log[t] # [key |-> k, kind |-> "unreg"]}

NewerOf(k, s) == {t \in Written(k) : t > s}

\* The circular buffer of an instance holds, counted back from its head, its latest
\* samples in the order they were written, with holes for those already dropped, and
\* each of its samples knows its place in the buffer.
IndexExact ==
    /\ \A k \in DOMAIN c.idx :
          /\ c.idx[k].hist[c.idx[k].head] # NoSeq
          /\ \A p \in DOMAIN c.idx[k].hist :
                LET s == c.idx[k].hist[p]
                IN  s # NoSeq => /\ s \in Stored /\ c.nodes[s].inst = k /\ c.nodes[s].pos = p
                                 /\ s \in Written(k)
                                 /\ Cardinality(NewerOf(k, s)) = Behind(c, k, p)
    /\ \A s \in Stored : LET n == c.nodes[s] IN
          n.inst # NoKey => n.inst \in DOMAIN c.idx /\ c.idx[n.inst].hist[n.pos] = s

\* The four structures that the operations of the cache keep up to date separately say the
\* same of the same samples, after any series of them.
StructuresAgree == TypeOK /\ IntervalsExact /\ CountsExact /\ UnackedMeansUnacked /\ IndexExact

\* A sample that a reader has not acknowledged is in the cache, unless an aggressive
\* KEEP_LAST history has as many newer samples of its instance.
UnackedKept ==
    \A s \in acked + 1..seq : readers =>
       \/ s \in Stored
       \/ c.hdepth > 0 /\ \E k \in Keys : Cardinality({t \in s + 1..seq :
                           /\ log[s] = [key |-> k, kind |-> "data"] /\ log[t] = log[s]}) >= c.idxdepth

\* A transient-local writer with a bounded durability history still has the latest
\* TLDepth samples of every instance that was not unregistered, whatever was
\* acknowledged: late joiners are given those.
HistoryKept ==
    c.tl /\ c.tldepth > 0 =>
       \A k \in Keys : \A s \in Written(k) :
          Cardinality(NewerOf(k, s)) < c.tldepth => s \in Stored

\* The cache does not leak: of what was processed as acknowledged it only keeps the
\* durability history, and what has left that history when a newer sample, still to be
\* acknowledged, will push it out (q_whc.h: "samples in whc with seq <= max_drop_seq
\* => transient-local").
AckedFreed ==
    ~(c.tl /\ c.tldepth = 0 /\ c.idxdepth > 0) => \A s \in Stored : s <= c.maxDrop =>
       \E k \in DOMAIN c.idx :
          /\ s \in Written(k)
          /\ \/ Cardinality(NewerOf(k, s)) < c.tldepth
             \/ \E t \in NewerOf(k, s) : t > c.maxDrop /\ Cardinality(NewerOf(k, t)) < c.tldepth

\* The history cache of a writer keeps what a reader has not acknowledged and what the
\* durability history is to keep, as writer_add_connection and the late joiners rely on, and
\* frees all the rest once it is acknowledged.
KeptAsNeeded == UnackedKept /\ HistoryKept /\ AckedFreed

\* With a KEEP_ALL durability history a transient-local writer "can never ever delete
\* anything" (q_whc.c, whc_remove_acked_messages_full).
KeepAllKeepsAll == TL /\ TLDepth = 0 => Stored = 1..seq

\* The cache as the protocol sees it: it implements the abstract cache.
Abstract == INSTANCE CacheSpec
    WITH log <- [s \in 1..seq |-> log[s].key], cache <- Stored, drop <- c.maxDrop
ImplementsCache == Abstract!Spec
=============================================================================
