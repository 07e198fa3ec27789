-------------------------------- MODULE Rtps --------------------------------
(***************************************************************************)
(* The reliable protocol between one writer and its remote readers: the    *)
(* writer's sequence numbers, history cache and reader administration      *)
(* (q_transmit.c, q_entity.c, handle_AckNack in q_receive.c), heartbeats   *)
(* (q_transmit.c, q_xevent.c), and on each remote node the proxy writer    *)
(* with one reader (q_receive.c, q_xevent.c), over a network that loses,   *)
(* duplicates and reorders.                                                *)
(*                                                                         *)
(* Each action is one critical section under wr->e.lock or pwr->e.lock.    *)
(* Time is abstracted: a scheduled event may run at any moment.  Messages  *)
(* are not fragmented.  The reader's reorder buffer is the unbounded       *)
(* buffer of SampleBuffer, which Reorder implements.                       *)
(*                                                                         *)
(* A definition named X_slip... is a wrong variant of X that nothing uses  *)
(* (README, "Sensitivity").                                                *)
(***************************************************************************)
EXTENDS HistoryCache

CONSTANTS
    Readers,      \* the remote readers, each on a node of its own
    Keys,         \* the instances of the topic
    NoKey,        \* no instance: the sequence number force_heartbeat_to_peer consumes
    BitmapMax,    \* longest bitmap of an AckNack (256 as specified)
    Accel,        \* config.accelerate_rexmit_block_size
    MaxSeq,       \* bound of the model: how many samples are written
    MaxInFlight,  \* bound of the model: timers send while fewer messages of the kind
                  \* they send are in the network ...
    MaxNet,       \* ... and fewer messages of any kind
    MaxFaults,    \* bound of the model: losses, duplicates and refusals together
    Piggyback,    \* bound of the model: final flags a piggybacked heartbeat may have
    Leavers       \* bound of the model: the readers that may be deleted

ASSUME RtpsAssumption ==
    /\ NoKey \notin Keys
    /\ BitmapMax \in Nat \ {0} /\ Accel \in Nat
    /\ MaxSeq \in Nat \ {0} /\ MaxInFlight \in Nat \ {0} /\ MaxNet \in Nat \ {0}
    /\ MaxFaults \in Nat
    /\ Piggyback \subseteq BOOLEAN /\ Leavers \subseteq Readers

AllAcked == MaxSeq + 1       \* MAX_SEQ_NUMBER in rn->seq: a reader being deleted

VARIABLES
    \* the writer
    log,          \* what was written; wr->seq is its length
    whc,          \* the sequence numbers in wr->whc
    maxDrop,      \* whc->max_drop_seq
    seqXmit,      \* wr->seq_xmit
    pack,         \* messages in the writing thread's xpack
    sending,      \* the xpack has been sent, seq_xmit is not updated yet
    hbSched,      \* wr->hbcontrol.tsched # T_NEVER: the heartbeat event is scheduled
    conn,         \* per reader: its wr_prd_match
    ack,          \* rn->seq
    replied,      \* rn->has_replied_to_hb
    inSync,       \* rn->assumed_in_sync
    matchSeq,     \* history: wr->seq when the reader was matched
    \* the proxy writer at each reader
    up,           \* the proxy writer exists and knows the reader
    next,         \* nn_reorder_next_seq
    have,         \* samples stored in the reorder buffer
    void,         \* numbers beyond next known to be unavailable
    delivered,    \* samples handed to the delivery queue
    last,         \* pwr->last_seq
    seenHb,       \* pwr->have_seen_heartbeat
    ackSched,     \* the AckNack event is scheduled
    \* the network
    net, faults

wrVars == <<log, whc, maxDrop, seqXmit, pack, sending, hbSched>>
rnVars == <<conn, ack, replied, inSync, matchSeq>>
bufVars == <<next, have, void, delivered>>
pwrVars == <<up, last, seenHb, ackSched>>
netVars == <<net, faults>>
vars == <<wrVars, rnVars, bufVars, pwrVars, netVars>>

Seqs == 1..MaxSeq
seq == Len(log)

ConnStates == {"none", "matched", "straggler", "deleted", "gone"}

\* messages that name no number beyond n
DataMsg(n) == [type : {"data"}, to : Readers, seq : 1..n]
HbMsg(n)   == [type : {"hb"}, to : Readers, first : 1..n, last : 1..n, final : BOOLEAN]
GapMsg(n)  == [type : {"gap"}, to : Readers, start : 1..n, base : 0..n + 1,
               bits : SUBSET (0..n)]
AckMsg(n)  == [type : {"acknack"}, from : Readers, base : 1..n + 1, num : 0..n,
               nack : SUBSET (1..n), final : BOOLEAN]

\* Nothing anywhere refers to a sequence number that was not assigned yet.
TypeOK ==
    /\ log \in Seq(Keys \cup {NoKey}) /\ seq <= MaxSeq
    /\ whc \subseteq 1..seq
    /\ maxDrop \in 0..seq /\ seqXmit \in 0..seq
    /\ pack \subseteq DataMsg(seq) \cup HbMsg(seq)
    /\ sending \in BOOLEAN /\ hbSched \in BOOLEAN
    /\ conn \in [Readers -> ConnStates]
    /\ ack \in [Readers -> 0..seq \cup {AllAcked}]
    /\ replied \in [Readers -> BOOLEAN] /\ inSync \in [Readers -> BOOLEAN]
    /\ matchSeq \in [Readers -> 0..seq]
    /\ up \in [Readers -> BOOLEAN]
    /\ next \in [Readers -> 1..seq + 1]
    /\ have \in [Readers -> SUBSET (1..seq)] /\ void \in [Readers -> SUBSET (1..seq)]
    /\ delivered \in [Readers -> SUBSET (1..seq)]
    /\ last \in [Readers -> 0..seq]
    /\ seenHb \in [Readers -> BOOLEAN] /\ ackSched \in [Readers -> BOOLEAN]
    /\ net \subseteq DataMsg(seq) \cup HbMsg(seq) \cup GapMsg(seq) \cup AckMsg(seq)
    /\ faults \in 0..MaxFaults

----------------------------------------------------------------------------
\* Readers as the writer knows them

Conn == {r \in Readers : conn[r] \in {"matched", "straggler", "deleted"}}

Lowest(S) == CHOOSE m \in S : \A x \in S : m <= x
Highest(S) == CHOOSE m \in S : \A x \in S : x <= m
LowerOf(a, b) == IF a < b THEN a ELSE b
HigherOf(a, b) == IF a > b THEN a ELSE b

MaxDropSeq_slipMaximum(C, a, n) ==
    LET acks == {a[r] : r \in C} \ {AllAcked}
    IN  IF acks = {} THEN n ELSE Highest(acks)

\* writer_max_drop_seq: acknowledged by all readers C that count, given their
\* acknowledgements a; everything up to wr->seq = n if there are none
MaxDropSeq(C, a, n) == Lowest({n} \cup {a[r] : r \in C})

\* have_reliable_subs
HaveReliableSubs == \E r \in Conn : ack[r] # AllAcked

\* whc_remove_acked_messages(m)
Remaining(m) == IF m > maxDrop THEN AckDropped(whc, log, maxDrop, m) ELSE whc
MaxDropAfter(m) ==
    IF NeverDrops(IdxDepth(HDepth, TLDepth)) THEN maxDrop ELSE HigherOf(m, maxDrop)

\* remove_acked_messages, with readers C and their acknowledgements a
RemoveAcked(C, a) ==
    LET m == MaxDropSeq(C, a, seq)
    IN  whc' = Remaining(m) /\ maxDrop' = MaxDropAfter(m)

\* where a multicast goes: all matched readers and, since it is a multicast, those
\* that know the writer before the writer knows them
Audience == IF Conn = {} THEN {}
            ELSE {r \in Readers : r \in Conn \/ up[r]}

\* writer_must_have_hb_scheduled
MustHaveHbScheduled(w) ==
    /\ Conn # {} /\ w # {}
    /\ \/ \E r \in Conn : ~replied[r]
       \/ MaxDropSeq(Conn, ack, seq) < Highest(w)

HbRange_slipXmitFirst(w, n, x, issync) ==
    IF w = {} THEN <<n, n>>
    ELSE IF ~issync /\ x < n /\ ~TL
         THEN <<HigherOf(x, 1), HigherOf(x, 1)>>
         ELSE <<Lowest(w), n>>

\* add_Heartbeat: the range advertised for a cache w, wr->seq = n, seq_xmit = x
HbRange(w, n, x, issync) ==
    IF w = {} THEN <<n, n>>
    ELSE IF ~issync /\ x < n /\ ~TL
         THEN <<Lowest(w), HigherOf(x, Lowest(w))>>
         ELSE <<Lowest(w), n>>

Heartbeats(R, range, final) ==
    {[type |-> "hb", to |-> r, first |-> range[1], last |-> range[2],
      final |-> final] : r \in R}

Datas(R, S) == {[type |-> "data", to |-> r, seq |-> s] : r \in R, s \in S}

\* writer_hbcontrol_create_heartbeat: unicast if just one reader lags behind
HbAudience(n) ==
    LET level == {r \in Conn : ack[r] = n /\ replied[r]}
        lag   == Conn \ level
    IN  IF Cardinality(lag) = 1 /\ (n = 0 \/ \E r \in Conn : ack[r] = n)
        THEN lag ELSE Audience

Room(kind) ==
    /\ Cardinality({m \in net : m.type = kind}) < MaxInFlight
    /\ Cardinality(net) < MaxNet

----------------------------------------------------------------------------
\* The writer

\* write_sample: assign the next sequence number, insert it unless nobody is there to
\* need it, and add it to the packet, possibly with a heartbeat piggybacked on it.
Write(k) ==
    LET n == seq + 1
        l == Append(log, k)
        w == IF HaveReliableSubs \/ TL
             THEN Inserted(whc, l, MaxDropSeq(Conn, ack, n)) ELSE whc
    IN  /\ ~sending /\ seq < MaxSeq
        /\ log' = l /\ whc' = w
        /\ \E hb \in {{}} \cup {Heartbeats(HbAudience(n), HbRange(w, n, seqXmit, TRUE), f) :
                                f \in Piggyback} :
              pack' = pack \cup Datas(Audience, {n}) \cup hb
        /\ hbSched' = TRUE
        /\ UNCHANGED <<maxDrop, seqXmit, sending>>
        /\ UNCHANGED <<rnVars, bufVars, pwrVars, netVars>>

\* nn_xpack_send: the packet goes out; seq_xmit is updated only when it is released
Transmit ==
    /\ ~sending /\ seqXmit < seq
    /\ net' = net \cup pack
    /\ pack' = {} /\ sending' = TRUE
    /\ UNCHANGED <<log, whc, maxDrop, seqXmit, hbSched, faults>>
    /\ UNCHANGED <<rnVars, bufVars, pwrVars>>

\* nn_xmsg_chain_release
Release ==
    /\ sending
    /\ seqXmit' = seq /\ sending' = FALSE
    /\ UNCHANGED <<log, whc, maxDrop, pack, hbSched>>
    /\ UNCHANGED <<rnVars, bufVars, pwrVars, netVars>>

\* handle_xevk_heartbeat: send one if one is needed, and only then stay scheduled
HbEvent(f) ==
    /\ hbSched
    /\ hbSched' = MustHaveHbScheduled(whc)
    /\ Room("hb")
    /\ net' = IF MustHaveHbScheduled(whc)
              THEN net \cup Heartbeats(HbAudience(seq),
                                       HbRange(whc, seq, seqXmit, FALSE), f)
              ELSE net
    /\ UNCHANGED <<log, whc, maxDrop, seqXmit, pack, sending, faults>>
    /\ UNCHANGED <<rnVars, bufVars, pwrVars>>

----------------------------------------------------------------------------
\* Discovery, seen from the writer

\* writer_add_connection: a new reader is taken to have acknowledged all that was
\* written so far. One that is being deleted is (pretend_everything_acked), unless the
\* deletion starts between that test and its insertion.
Match(r) ==
    /\ conn[r] = "none"
    /\ \/ /\ conn' = [conn EXCEPT ![r] = "matched"]
          /\ ack' = [ack EXCEPT ![r] = seq]
       \/ /\ r \in Leavers /\ conn' = [conn EXCEPT ![r] = "deleted"]
          /\ \E a \in {seq, AllAcked} : ack' = [ack EXCEPT ![r] = a]
    /\ replied' = [replied EXCEPT ![r] = FALSE]
    /\ inSync' = [inSync EXCEPT ![r] = FALSE]
    /\ matchSeq' = [matchSeq EXCEPT ![r] = seq]
    /\ hbSched' = TRUE
    /\ UNCHANGED <<log, whc, maxDrop, seqXmit, pack, sending>>
    /\ UNCHANGED <<bufVars, pwrVars, netVars>>

\* delete_proxy_reader: it can no longer be looked up, and pretends to have
\* acknowledged everything. A thread that had looked it up before may still handle an
\* AckNack of it.
DeleteReader(r) ==
    /\ r \in Leavers /\ conn[r] = "matched"
    /\ \E c \in {"deleted", "straggler"} :
          /\ c = "straggler" => \E m \in net : m.type = "acknack" /\ m.from = r
          /\ conn' = [conn EXCEPT ![r] = c]
    /\ ack' = [ack EXCEPT ![r] = AllAcked]
    /\ RemoveAcked(Conn, ack')
    /\ UNCHANGED <<replied, inSync, matchSeq>>
    /\ UNCHANGED <<log, seqXmit, pack, sending, hbSched>>
    /\ UNCHANGED <<bufVars, pwrVars, netVars>>

\* gc_delete_proxy_reader, writer_drop_connection: not before such a thread is done
DropConnection(r) ==
    /\ \/ conn[r] = "deleted"
       \/ conn[r] = "straggler" /\ \A m \in net : ~(m.type = "acknack" /\ m.from = r)
    /\ conn' = [conn EXCEPT ![r] = "gone"]
    /\ RemoveAcked(Conn \ {r}, ack)
    /\ UNCHANGED <<ack, replied, inSync, matchSeq>>
    /\ UNCHANGED <<log, seqXmit, pack, sending, hbSched>>
    /\ UNCHANGED <<bufVars, pwrVars, netVars>>

----------------------------------------------------------------------------
\* handle_AckNack

\* A received message leaves the network, unless a duplicate of it stays behind; ms
\* are the messages sent in response. extra counts faults in the handling itself.
Consume(m, ms, extra) ==
    \E kept \in {0, 1} :
       /\ faults + kept + extra <= MaxFaults
       /\ faults' = faults + kept + extra
       /\ net' = (IF kept = 1 THEN net ELSE net \ {m}) \cup ms

Pure(m) == m.nack = {}
Preemptive(m) == m.base <= 1 /\ Pure(m)
PureNonHist(m, r) == Pure(m) /\ m.base - 1 >= ack[r]

AckedUpTo_slipUnclamped(m, r) == HigherOf(ack[r], LowerOf(m.base, AllAcked))

\* the ACK part: rn->seq advances, but never beyond what was written
AckedUpTo(m, r) ==
    IF m.base - 1 > ack[r] THEN LowerOf(m.base - 1, seq) ELSE ack[r]

ResponsiveAgain_slipLowers(m, a, w) ==
    IF a # AllAcked THEN a ELSE LowerOf(m.base - 1, seq)

\* a reader that had been declared to have acknowledged everything responds again: it
\* may not lower what the cache w retains
ResponsiveAgain(m, a, w) ==
    IF a # AllAcked THEN a
    ELSE LowerOf(HigherOf(m.base - 1, IF w = {} THEN seq ELSE Highest(w)), seq)

\* grow_gap_to_next_seq, for a cache w and seq_xmit = x
GrowGap(w, s, x) ==
    LET later == {t \in w : t >= s} IN
    IF later = {} THEN x + 1 ELSE LowerOf(Lowest(later), x)

GapMessage_slipGrowsPastNext(r, missing, stop, w, x) ==
    LET start == Lowest(missing)
    IN  [type |-> "gap", to |-> r, start |-> start, base |-> x,
         bits |-> {x}]

\* The Gap for the missing numbers: the run they start with, grown as far as possible
\* if it reaches the end (stop) of what the reader asked for, and the rest as bits. An
\* empty bitmap is avoided by moving the last number of the run into it.
GapMessage(r, missing, stop, w, x) ==
    LET start == Lowest(missing)
        run   == Lowest({e \in start + 1..x + 1 : e \notin missing})
        end   == IF run = stop THEN GrowGap(w, run, x) ELSE run
        bits  == {s \in missing : s >= run}
    IN  [type  |-> "gap", to |-> r, start |-> start,
         base  |-> IF bits = {} THEN end - 1 ELSE end,
         bits  |-> IF bits = {} THEN {end - 1} ELSE bits]

\* force_heartbeat_to_peer, for cache w, wr->seq = n > 0 and seq_xmit = x: if there is
\* no data, a Gap for the last sequence number goes with the heartbeat
ForcedHeartbeat(r, w, n, x, final) ==
    IF w = {}
    THEN {[type |-> "gap", to |-> r, start |-> n, base |-> n + 1, bits |-> {}]}
           \cup Heartbeats({r}, HbRange(w, n, x, TRUE), final)
    ELSE Heartbeats({r}, HbRange(w, n, x, FALSE), final)

\* The NACK part, for the cache w, wr->seq = n and seq_xmit = x: retransmit what was
\* asked for and is there (sync: to all), announce a Gap for what is not, and see to a
\* heartbeat. From cut on the retransmit queue was full.
Answered(m, r, w, n, x, sync, cut) ==
    LET pre     == Preemptive(m)
        base    == IF pre /\ w # {} THEN Lowest(w) ELSE m.base
        speedUp == ~pre /\ ~inSync[r] /\ ~PureNonHist(m, r) /\ m.num < Accel
        width   == IF (pre /\ w # {}) \/ speedUp THEN Accel ELSE m.num
        asked   == {s \in base..base + width - 1 :
                       s <= x /\ s < cut /\ (s >= base + m.num \/ s \in m.nack)}
        resent  == asked \cap w
        missing == asked \ w
        gap     == IF missing = {} THEN {}
                   ELSE {GapMessage(r, missing, base + m.num, w, x)}
        reply   == resent \cup UNION {g.bits : g \in gap}
        more    == reply # {} /\ Highest(reply) < x
    IN  [msgs |-> (IF pre THEN ForcedHeartbeat(r, w, n, x, TRUE) ELSE {})
                  \cup Datas(IF sync THEN Audience ELSE {r}, resent)
                  \cup gap
                  \cup (IF more THEN ForcedHeartbeat(r, w, n, x, FALSE) ELSE {})
                  \cup (IF ~pre /\ ~more /\ ~m.final
                        THEN ForcedHeartbeat(r, w, n, x, TRUE) ELSE {}),
         more |-> more]

HandleAckNack(m) ==
    LET r     == m.from
        a     == [ack EXCEPT ![r] = AckedUpTo(m, r)]
        drop  == IF m.base - 1 > ack[r] THEN MaxDropSeq(Conn, a, seq) ELSE maxDrop
        w     == Remaining(drop)
        sync  == inSync[r] \/ (~Preemptive(m) /\ PureNonHist(m, r))
        \* nothing written yet: force_heartbeat_to_peer consumes sequence number 1
        first == seq = 0 /\ (Preemptive(m) \/ ~m.final)
        n     == IF first THEN 1 ELSE seq
        x     == IF first THEN 1 ELSE seqXmit
    IN  /\ conn[r] \in {"matched", "straggler"}
        /\ conn' = [conn EXCEPT ![r] = IF @ = "straggler" THEN "deleted" ELSE @]
        /\ whc' = w /\ maxDrop' = MaxDropAfter(drop)
        /\ ack' = [ack EXCEPT ![r] = ResponsiveAgain(m, a[r], w)]
        /\ replied' = [replied EXCEPT ![r] =
                         @ \/ a[r] = AllAcked \/ (m.base > 1 /\ PureNonHist(m, r))]
        /\ inSync' = [inSync EXCEPT ![r] = sync]
        /\ log' = IF first THEN <<NoKey>> ELSE log
        /\ seqXmit' = x
        /\ \E cut \in {n + 1} \cup (m.nack \cap w) :
              LET ans == Answered(m, r, w, n, x, sync, cut) IN
              /\ Consume(m, ans.msgs, IF cut <= n THEN 1 ELSE 0)
              /\ hbSched' = (hbSched \/ ans.more)
        /\ UNCHANGED <<pack, sending, matchSeq>>
        /\ UNCHANGED <<bufVars, pwrVars>>

\* not a connection (any more)
IgnoreAckNack(m) ==
    /\ conn[m.from] \notin {"matched", "straggler"}
    /\ Consume(m, {}, 0)
    /\ UNCHANGED <<wrVars, rnVars, bufVars, pwrVars>>

----------------------------------------------------------------------------
\* The proxy writer at reader r

\* SampleBuffer's Release: deliver up to the first number neither in h nor in v
Hand(r, h, v) ==
    \E n \in next[r]..MaxSeq + 1 :
       /\ next[r]..n - 1 \subseteq h \cup v /\ n \notin h \cup v
       /\ next' = [next EXCEPT ![r] = n]
       /\ delivered' = [delivered EXCEPT ![r] = @ \cup {s \in h : s < n}]
       /\ have' = [have EXCEPT ![r] = {s \in h : s > n}]
       /\ void' = [void EXCEPT ![r] = {s \in v : s > n}]

\* proxy_writer_add_connection: a preemptive AckNack is scheduled
Discover(r) ==
    /\ ~up[r]
    /\ up' = [up EXCEPT ![r] = TRUE]
    /\ ackSched' = [ackSched EXCEPT ![r] = TRUE]
    /\ UNCHANGED <<last, seenHb>>
    /\ UNCHANGED <<wrVars, rnVars, bufVars, netVars>>

\* no proxy writer
IgnoreUnknown(m) ==
    /\ ~up[m.to]
    /\ Consume(m, {}, 0)
    /\ UNCHANGED <<wrVars, rnVars, bufVars, pwrVars>>

\* handle_regular
HandleData(m) ==
    LET r == m.to IN
    /\ up[r]
    /\ last' = [last EXCEPT ![r] = HigherOf(@, m.seq)]
    /\ IF m.seq >= next[r] /\ m.seq \notin have[r] \cup void[r]
       THEN Hand(r, have[r] \cup {m.seq}, void[r])
       ELSE UNCHANGED bufVars
    /\ Consume(m, {}, 0)
    /\ UNCHANGED <<up, seenHb, ackSched>>
    /\ UNCHANGED <<wrVars, rnVars>>

\* nn_reorder_gap: the numbers g are unavailable
Announce(r, g) ==
    Hand(r, have[r], void[r] \cup {s \in g : s >= next[r] /\ s \notin have[r]})

HandleHeartbeat_slipOnlyMissing(m) ==
    LET r == m.to IN
    /\ up[r]
    /\ seenHb' = [seenHb EXCEPT ![r] = TRUE]
    /\ last' = [last EXCEPT ![r] = HigherOf(@, m.last)]
    /\ Announce(r, 1..m.first - 1)
    /\ ackSched' = [ackSched EXCEPT ![r] = @ \/ last'[r] > next'[r] - 1]
    /\ Consume(m, {}, 0)
    /\ UNCHANGED up
    /\ UNCHANGED <<wrVars, rnVars>>

\* handle_Heartbeat, handle_Heartbeat_helper: [first, last] is the gap [1, first); an
\* AckNack is scheduled if something is missing or an answer is requested, unless the
\* count shows that the heartbeat is a repeat or an old one.
HandleHeartbeat(m) ==
    LET r == m.to IN
    /\ up[r]
    /\ seenHb' = [seenHb EXCEPT ![r] = TRUE]
    /\ last' = [last EXCEPT ![r] = HigherOf(@, m.last)]
    /\ Announce(r, 1..m.first - 1)
    /\ \E old \in BOOLEAN :
          /\ ackSched' = [ackSched EXCEPT ![r] =
                            @ \/ (~old /\ (last'[r] > next'[r] - 1 \/ ~m.final))]
          /\ Consume(m, {}, IF old THEN 1 ELSE 0)
    /\ UNCHANGED up
    /\ UNCHANGED <<wrVars, rnVars>>

\* The numbers a Gap names according to the RTPS specification ...
GapNames(m) == (m.start..m.base - 1) \cup m.bits

\* ... and those handle_Gap extracts: a start that lies beyond the base and the bits
\* set at its beginning is taken as malformed, along with those bits.
GapApplied(m) ==
    LET top   == Highest({m.base - 1} \cup m.bits)
        clear == Lowest({s \in m.base..top + 1 : s \notin m.bits})
    IN  (m.start..clear - 1) \cup {s \in m.bits : s > clear}

\* the numbers a receiver of m gives up if it has not received them
Told(m) ==
    CASE m.type = "hb"  -> 1..m.first - 1
      [] m.type = "gap" -> GapApplied(m)
      [] OTHER          -> {}

HandleGap(m) ==
    LET r == m.to IN
    /\ up[r]
    /\ Announce(r, GapApplied(m))
    /\ last' = [last EXCEPT ![r] = HigherOf(@, Highest({m.base - 1} \cup m.bits))]
    /\ Consume(m, {}, 0)
    /\ UNCHANGED <<up, seenHb, ackSched>>
    /\ UNCHANGED <<wrVars, rnVars>>

Missing_slipSkipsFirst(r, n) == {s \in next[r] + 1..n : s \notin have[r] \cup void[r]}

\* nn_reorder_nackmap: what is missing of the numbers up to n
Missing(r, n) == {s \in next[r]..n : s \notin have[r] \cup void[r]}

\* handle_xevk_acknack, add_AckNack. A NACK is repeated until it is satisfied, and a
\* preemptive one until a heartbeat arrives.
SendAckNack(r) ==
    LET base == next[r]
        num  == LowerOf(HigherOf(last[r] + 1 - base, 0), BitmapMax)
        more == num > 0 /\ base + num <= last[r]
    IN  /\ up[r] /\ ackSched[r] /\ Room("acknack")
        /\ net' = net \cup {[type |-> "acknack", from |-> r, base |-> base, num |-> num,
                             nack |-> Missing(r, base + num - 1),
                             final |-> seenHb[r] /\ ~more]}
        /\ ackSched' = [ackSched EXCEPT ![r] = num > 0 \/ ~seenHb[r]]
        /\ UNCHANGED <<up, last, seenHb, faults>>
        /\ UNCHANGED <<wrVars, rnVars, bufVars>>

----------------------------------------------------------------------------
Lose(m) ==
    /\ faults < MaxFaults
    /\ faults' = faults + 1
    /\ net' = net \ {m}
    /\ UNCHANGED <<wrVars, rnVars, bufVars, pwrVars>>

Init ==
    /\ log = <<>> /\ whc = {} /\ maxDrop = 0 /\ seqXmit = 0
    /\ pack = {} /\ sending = FALSE /\ hbSched = FALSE
    /\ conn = [r \in Readers |-> "none"]
    /\ ack = [r \in Readers |-> 0] /\ matchSeq = [r \in Readers |-> 0]
    /\ replied = [r \in Readers |-> FALSE] /\ inSync = [r \in Readers |-> FALSE]
    /\ up = [r \in Readers |-> FALSE]
    /\ next = [r \in Readers |-> 1]
    /\ have = [r \in Readers |-> {}] /\ void = [r \in Readers |-> {}]
    /\ delivered = [r \in Readers |-> {}]
    /\ last = [r \in Readers |-> 0]
    /\ seenHb = [r \in Readers |-> FALSE] /\ ackSched = [r \in Readers |-> FALSE]
    /\ net = {} /\ faults = 0

Receive(m) ==
    \/ m.type = "acknack" /\ (HandleAckNack(m) \/ IgnoreAckNack(m))
    \/ m.type # "acknack" /\ IgnoreUnknown(m)
    \/ m.type = "data" /\ HandleData(m)
    \/ m.type = "hb" /\ HandleHeartbeat(m)
    \/ m.type = "gap" /\ HandleGap(m)

Next ==
    \/ \E k \in Keys : Write(k)
    \/ Transmit
    \/ Release
    \/ \E f \in BOOLEAN : HbEvent(f)
    \/ \E r \in Readers : Match(r) \/ DeleteReader(r) \/ DropConnection(r)
    \/ \E r \in Readers : Discover(r) \/ SendAckNack(r)
    \/ \E m \in net : Receive(m)
    \/ \E m \in net : Lose(m)

Spec == Init /\ [][Next]_vars

\* Threads run, scheduled events happen, garbage is collected, and of the messages a
\* receiver is sent some of each kind always arrive. Of the heartbeats that are sent
\* again and again some ask for an answer (hence SF): ack_required returns 2 once the
\* last write is an interval ago.
ReceiveSome(r, kind) ==
    \E m \in net :
       /\ m.type = kind
       /\ r = (IF kind = "acknack" THEN m.from ELSE m.to)
       /\ Receive(m)

Fairness ==
    /\ WF_vars(Transmit \/ Release) /\ SF_vars(HbEvent(FALSE))
    /\ \A r \in Readers :
          /\ WF_vars(SendAckNack(r)) /\ WF_vars(DropConnection(r))
          /\ \A kind \in {"data", "hb", "gap", "acknack"} : WF_vars(ReceiveSome(r, kind))

FairSpec == Spec /\ Fairness

----------------------------------------------------------------------------
\* A matched reader that was told to go past a sample written after it was matched has
\* been given it, unless newer samples of the instance replaced it in a KEEP_LAST
\* history: neither acknowledgements, heartbeats and gaps in any order, nor other
\* readers that come and go, make the protocol lose a sample.
NoLoss ==
    \A r \in Readers : conn[r] = "matched" =>
       \A s \in matchSeq[r] + 1..seq :
          s < next[r] => s \in delivered[r] \/ log[s] = NoKey \/ Overwritten(log, s)

\* What a matched reader has not acknowledged is still in the cache (or replaced):
\* otherwise a NACK could not be satisfied.
UnackedRetained ==
    \A r \in Readers : conn[r] = "matched" =>
       \A s \in matchSeq[r] + 1..seq :
          s > ack[r] => s \in whc \/ log[s] = NoKey \/ Overwritten(log, s)

\* What all readers have acknowledged never retreats below what was already dropped
\* (asserted by whc_insert and whc_remove_acked_messages), although an AckNack still
\* being handled turns "everything acknowledged" of a deleted reader back into a number.
DropNeverRetreats == MaxDropSeq(Conn, ack, seq) >= maxDrop

\* The writer never believes a matched reader has acknowledged more than it was
\* matched with or has received.
AckSound ==
    \A r \in Readers : conn[r] = "matched" =>
       ack[r] <= matchSeq[r] \/ ack[r] < next[r]

\* A transient-local writer gives a late joiner the history: what lies behind a reader
\* it has been given, or it is no longer among the last TLDepth of its instance.
HistoryDelivered ==
    TL /\ TLDepth > 0 =>
       \A r \in Readers : \A s \in 1..seq :
          s < next[r] => s \in delivered[r] \/ log[s] = NoKey \/ ~InTLHistory(log, s)

\* No heartbeat or gap under way makes a reader give up a sample the writer still has.
NoFalseGap == \A m \in net \cup pack : whc \cap Told(m) = {}

\* The same, for a reader that goes by the specification: handle_AckNack describes its
\* gap as "everything <= gapend-1 is no more ... each bit adds one sequence number"
\* (q_receive.c).
GapNamesUnavailable ==
    \A m \in net : m.type = "gap" => whc \cap GapNames(m) = {}

\* Every sample ever written after (or stored when) a reader was matched reaches it or
\* is announced as gone, whatever was lost: heartbeats, NACKs and retransmissions keep
\* going for as long as they are needed.
CatchesUp ==
    \A r \in Readers : \A s \in Seqs :
       conn[r] = "matched" /\ up[r] /\ s <= seq
          ~> (next[r] > s \/ conn[r] # "matched")

\* In the end all readers acknowledge all that the cache holds, so that it drains and
\* a throttled writer continues.
AllAcknowledged ==
    \A r \in Readers :
       <>[](conn[r] = "matched" /\ up[r] => \A s \in whc : s <= ack[r])
=============================================================================
