----------------------------- MODULE ReaderSync ------------------------------
(***************************************************************************)
(* The readers of one reliable proxy writer (handle_regular, handle_Gap    *)
(* and handle_Heartbeat in q_receive.c, the connections in q_entity.c).    *)
(* They share the reorder administration of the proxy writer, and a        *)
(* transient-local reader that comes late has one of its own until it has  *)
(* caught up.  All of it happens under pwr->e.lock.                        *)
(*                                                                         *)
(* A reorder administration is what SampleBuffer makes of it, without its  *)
(* limits: refusing a message is losing it.  The network brings any        *)
(* message that is true, at any time and as often as it likes; what is     *)
(* gone was replaced or dropped by the writer.  The delivery queue is a    *)
(* queue of samples, each for all readers or for one (DeliveryQueue).      *)
(*                                                                         *)
(* Definitions named X_slip... are wrong variants that no specification    *)
(* uses.                                                                   *)
(***************************************************************************)
EXTENDS Integers, Sequences, FiniteSets, SequencesExt

CONSTANTS Readers,
          Durable,       \* the readers with handle_as_transient_local
          BestEffort,    \* those that are not reliable
          Synchronous,   \* deliver_synchronously
          Replaceable,   \* bound: the samples that may become unavailable
          MaxSeq         \* bound: samples written

VARIABLES
    seq, gone,     \* the samples written, and those that are not available any more
    lastSeq,       \* pwr->last_seq
    primary,       \* pwr->reorder
    nOut,          \* n_readers_out_of_sync
    match,         \* per reader: the connection with the proxy writer
    dq,            \* the delivery queue
    got, twice     \* history: what each reader was given, and what more than once

rsVars == <<seq, gone, lastSeq, primary, nOut, match, dq, got, twice>>

All == "all"
Forever == MaxSeq + 1                 \* MAX_SEQ_NUMBER
HigherOf(a, b) == IF a > b THEN a ELSE b
Fresh == [next |-> 1, have |-> {}, void |-> {}]
Unmatched == [phase |-> "none", endTL |-> 0, endOOS |-> 0, own |-> Fresh, since |-> 0]

Matched == {r \in Readers : match[r].phase \notin {"none", "left"}}
Reliable == Matched \ BestEffort
-----------------------------------------------------------------------------
(* Reorder administrations *)

FirstMissing(b) ==
    CHOOSE n \in b.next .. MaxSeq + 1 :
       b.next .. n - 1 \subseteq b.have \cup b.void /\ n \notin b.have \cup b.void

\* b and the samples it now delivers
Released(b) ==
    LET n == FirstMissing(b) IN
    [buf |-> [next |-> n, have |-> {s \in b.have : s > n}, void |-> {s \in b.void : s > n}],
     chain |-> SetToSortSeq({s \in b.have : s < n}, <)]

\* nn_reorder_gap of [lo, hi)
Gapped(b, lo, hi) ==
    Released([b EXCEPT !.void = @ \cup {s \in lo .. hi - 1 : s >= b.next /\ s \notin b.have}])

\* nn_reorder_rsample
Stored(b, s) == Released([b EXCEPT !.have = @ \cup {s}])

\* of a best-effort reader, NN_REORDER_MODE_MONOTONICALLY_INCREASING
Monotonic(b, s) == [buf |-> [b EXCEPT !.next = s + 1], chain |-> <<s>>]

OwnStored(r, b, s) ==
    IF s < b.next THEN [buf |-> b, chain |-> <<>>]
    ELSE IF r \in BestEffort THEN Monotonic(b, s) ELSE Stored(b, s)
-----------------------------------------------------------------------------
(* Delivery *)

To(r, chain) == [i \in 1 .. Len(chain) |-> [to |-> r, seq |-> chain[i]]]

\* The primary administration delivers chain to everyone now or by the delivery queue,
\* own[r] goes to reader r alone and by the queue.  order: the readers in that of the tree
Deliver(chain, own, order) ==
    LET direct == IF Synchronous THEN Range(chain) ELSE {}
    IN /\ dq' = dq \o (IF Synchronous THEN <<>> ELSE To(All, chain))
                   \o FlattenSeq([i \in DOMAIN order |-> To(order[i], own[order[i]])])
       /\ got' = [r \in Readers |-> IF r \in Matched THEN got[r] \cup direct ELSE got[r]]
       /\ twice' = twice \cup {<<r, s>> \in Matched \X direct : s \in got[r]}

\* The thread of the delivery queue.  A sample for everyone goes to those that are readers
\* now.
Handle ==
    /\ dq # <<>>
    /\ LET e == Head(dq)
           to == Matched \cap (IF e.to = All THEN Readers ELSE {e.to})
       IN /\ got' = [r \in Readers |-> IF r \in to THEN got[r] \cup {e.seq} ELSE got[r]]
          /\ twice' = twice \cup {<<r, e.seq>> : r \in {q \in to : e.seq \in got[q]}}
    /\ dq' = Tail(dq)
    /\ UNCHANGED <<seq, gone, lastSeq, primary, nOut, match>>
-----------------------------------------------------------------------------
MaybeInSync_slipEarly(m, n) ==
    IF m.phase = "outofsync" /\ n >= m.endOOS THEN [m EXCEPT !.phase = "tlcatchup"] ELSE m

\* maybe_set_reader_in_sync with last_deliv_seq = n, m being out of sync in either way
MaybeInSync(m, n) ==
    LET c == IF m.phase = "outofsync" /\ m.own.next - 1 >= m.endOOS
             THEN [m EXCEPT !.phase = "tlcatchup"] ELSE m
    IN IF c.phase = "tlcatchup" /\ n >= c.endTL THEN [c EXCEPT !.phase = "sync"] ELSE c

\* the connections become m, and n_readers_out_of_sync counts those that are in sync now
SetMatches(m) ==
    /\ match' = m
    /\ nOut' = nOut - Cardinality({r \in Matched : match[r].phase # "sync" /\ m[r].phase = "sync"})

MatchReader(r) ==
    LET d == primary.next - 1
        phase == IF r \notin Durable THEN "sync"
                 ELSE IF d = 0 THEN "tlcatchup" ELSE "outofsync"
    IN /\ match[r].phase = "none"
       /\ match' = [match EXCEPT ![r] =
            [phase |-> phase, endTL |-> IF d = 0 THEN Forever ELSE lastSeq, endOOS |-> d,
             own |-> Fresh, since |-> d + 1]]
       /\ nOut' = nOut + (IF phase = "sync" THEN 0 ELSE 1)
       /\ UNCHANGED <<seq, gone, lastSeq, primary, dq, got, twice>>

\* proxy_writer_drop_connection
DropReader(r) ==
    /\ r \in Matched
    /\ match' = [match EXCEPT ![r] = [Unmatched EXCEPT !.phase = "left"]]
    /\ nOut' = nOut - (IF match[r].phase = "sync" THEN 0 ELSE 1)
    /\ UNCHANGED <<seq, gone, lastSeq, primary, dq, got, twice>>
-----------------------------------------------------------------------------
None == [r \in Readers |-> <<>>]
AnyOrder == SetToSeq(Readers)

\* the branch of handle_regular for a sample that the primary administration delivers or
\* keeps.  With no reliable reader it is delivered whatever is missing.
DataNew(s) ==
    LET p == Stored(primary, s)
        new == IF p.chain = <<>> /\ Reliable = {} THEN Gapped(p.buf, 1, s) ELSE p
        m == [r \in Readers |-> IF match[r].phase = "tlcatchup" THEN MaybeInSync(match[r], s)
                                ELSE match[r]]
    IN /\ s >= primary.next /\ s \notin primary.have \cup primary.void
       /\ primary' = new.buf
       /\ Deliver(new.chain, None, AnyOrder)
       /\ SetMatches(IF new.chain # <<>> /\ nOut > 0 THEN m ELSE match)

\* refused by the primary administration, which knows it already
DataKnown(s) ==
    /\ s \in primary.have \cup primary.void
    /\ UNCHANGED <<primary, match, nOut, dq, got, twice>>

\* too old for it: for those readers that are behind
DataOld(s) ==
    LET Wants(r) == match[r].phase = "outofsync" /\ s <= match[r].endOOS
        res == [r \in Readers |-> OwnStored(r, match[r].own, s)]
        chain == [r \in Readers |-> IF Wants(r) THEN res[r].chain ELSE <<>>]
        m == [r \in Readers |->
                IF ~Wants(r) THEN match[r]
                ELSE LET n == [match[r] EXCEPT !.own = res[r].buf]
                     IN IF chain[r] # <<>> THEN MaybeInSync(n, s) ELSE n]
    IN /\ s < primary.next
       /\ UNCHANGED primary
       /\ Deliver(<<>>, chain, AnyOrder)
       /\ SetMatches(m)

\* handle_regular
HandleRegular(s) ==
    /\ Matched # {}
    /\ lastSeq' = HigherOf(lastSeq, s)
    /\ DataNew(s) \/ DataKnown(s) \/ DataOld(s)
    /\ UNCHANGED <<seq, gone>>

\* handle_Heartbeat of [first, last]
HandleHeartbeat(first, last) ==
    LET p == Gapped(primary, 1, first)
        Behind(r) == match[r].phase = "outofsync"
        res == [r \in Readers |-> IF Behind(r) THEN Gapped(match[r].own, 1, first)
                                  ELSE [buf |-> match[r].own, chain |-> <<>>]]
        Upto(r) == IF Behind(r) THEN res[r].buf.next - 1 ELSE p.buf.next - 1
        Told(r) == [match[r] EXCEPT !.own = res[r].buf,
                                    !.endTL = IF @ = Forever THEN last ELSE @]
        m == [r \in Readers |-> IF match[r].phase \in {"tlcatchup", "outofsync"}
                                THEN MaybeInSync(Told(r), Upto(r)) ELSE match[r]]
    IN /\ lastSeq' = HigherOf(lastSeq, last)
       /\ primary' = p.buf
       /\ Deliver(p.chain, [r \in Readers |-> res[r].chain], AnyOrder)
       /\ SetMatches(m)
       /\ UNCHANGED <<seq, gone>>

\* handle_Gap and handle_one_gap: [lo, hi), addressed to r
HandleGap(r, lo, hi) ==
    LET p == Gapped(primary, lo, hi)
        x == match[r]
        told == x.phase = "outofsync" /\ lo <= x.endOOS
        own == IF told THEN Gapped(x.own, lo, hi) ELSE [buf |-> x.own, chain |-> <<>>]
        y == [x EXCEPT !.own = own.buf]
    IN /\ r \in Matched
       /\ lastSeq' = HigherOf(lastSeq, hi - 1)
       /\ primary' = p.buf
       /\ Deliver(p.chain, [None EXCEPT ![r] = own.chain], AnyOrder)
       /\ SetMatches([match EXCEPT ![r] = IF x.phase = "sync" THEN x ELSE MaybeInSync(y, hi - 1)])
       /\ UNCHANGED <<seq, gone>>
-----------------------------------------------------------------------------
(* The writer *)

Write ==
    /\ seq < MaxSeq /\ seq' = seq + 1
    /\ UNCHANGED <<gone, lastSeq, primary, nOut, match, dq, got, twice>>

Vanish(s) ==
    /\ gone' = gone \cup {s}
    /\ UNCHANGED <<seq, lastSeq, primary, nOut, match, dq, got, twice>>

Init ==
    /\ seq = 0 /\ gone = {} /\ lastSeq = 0 /\ primary = Fresh /\ nOut = 0 /\ dq = <<>>
    /\ match = [r \in Readers |-> Unmatched]
    /\ got = [r \in Readers |-> {}] /\ twice = {}

Network ==
    \/ \E s \in 1 .. seq : HandleRegular(s)
    \/ \E first \in 1 .. seq + 1, last \in 0 .. seq :
          1 .. first - 1 \subseteq gone /\ HandleHeartbeat(first, last)
    \/ \E r \in Readers, lo \in 1 .. seq, hi \in 2 .. seq + 1 :
          lo < hi /\ lo .. hi - 1 \subseteq gone /\ HandleGap(r, lo, hi)

Next ==
    \/ Network \/ Handle \/ Write
    \/ \E s \in ((1 .. seq) \cap Replaceable) \ gone : Vanish(s)
    \/ \E r \in Readers : MatchReader(r) \/ DropReader(r)

Spec == Init /\ [][Next]_rsVars
-----------------------------------------------------------------------------
(* Properties *)

\* add_AckNack: r acknowledges what is below this number
AckBase(r) == IF match[r].phase = "outofsync" THEN match[r].own.next ELSE primary.next

OnTheWay(r) == {dq[i].seq : i \in {j \in DOMAIN dq : dq[j].to \in {All, r}}}

\* What a reliable reader acknowledges it was given or is about to be, unless the writer has
\* it no more or, for a volatile reader, it is older than the connection: at the switch from
\* the reader's own administration to that of the proxy writer no sample is lost between
\* the two.
AcknowledgedWasDelivered ==
    /\ \A r \in Reliable, s \in 1 .. seq :
          s < AckBase(r) /\ (r \notin Durable => s >= match[r].since) =>
             s \in got[r] \cup OnTheWay(r) \cup gone
    /\ nOut = Cardinality({r \in Matched : match[r].phase # "sync"})

\* And none is delivered by both, if the samples that are in order are delivered at once.
\* Through the delivery queue a reader that is new may get those that wait there as well.
DeliveredOnce == Synchronous => twice = {}

\* enum pwr_rd_match_syncstate: "in sync with proxy writer, has caught up with historical
\* data".
SyncMeansCaughtUp ==
    \A r \in Reliable \cap Durable : match[r].phase = "sync" => primary.next > match[r].endTL
=============================================================================
