---------------------------- MODULE ReceiveBuffers ----------------------------
(***************************************************************************)
(* The memory of received messages (q_radmin.c).  A receive thread puts    *)
(* each packet at the free end of its current buffer (rbuf), followed by   *)
(* everything it derives from it, in chunks: fragments (rdata), nodes of   *)
(* the indices that defragment and reorder them, elements of the chains    *)
(* for the delivery queue.  One count per message (rmsg) decides when all  *)
(* of that goes, at once; one per buffer, of the chunks in it, decides     *)
(* when the buffer goes.  Only the receive thread counts up; the threads   *)
(* of the delivery queue and of the garbage collector count down too.      *)
(*                                                                         *)
(* A message is its place in the order of reception, a fragment chain the  *)
(* sequence of the messages its fragments are in.  What a fragment adds to *)
(* what is there, and which sample gives way to a new one, is left open    *)
(* (see Defrag); the indices of the reorder administration are intervals   *)
(* as in Reorder, each with the message its node is in.  An item is a node *)
(* or an element of a chain: the messages that must be there to look at    *)
(* it, its fragment chain, and what each fragment of it counts down by.    *)
(*                                                                         *)
(* Definitions named X_slip... are wrong variants that no specification    *)
(* uses.                                                                   *)
(***************************************************************************)
EXTENDS Integers, Sequences, FiniteSets, FiniteSetsExt, SequencesExt

CONSTANTS
    Late,           \* readers out of sync, with a reorder administration of their own
    Synchronous,    \* deliver_synchronously
    Reliable,       \* whether any of the readers is reliable
    Large,          \* the samples that come in fragments
    MaxSeq, MaxStored,      \* bound: sequence numbers; max_samples of an index
    MaxMsgs, MaxSubs,       \* bounds: messages, submessages of one
    BufSize, ChunkSize      \* rbuf_size and max_rmsg_size, in allocations

VARIABLES
    refcount,   \* of each message
    gone,       \* the messages that were freed
    chunks,     \* the chunks of each message
    live,       \* n_live_rmsg_chunks of each buffer
    freeptr,    \* of each buffer
    current,    \* the buffer of the pool, 0 when the pool is gone
    n, pc, subs,    \* the receive thread: its message, where it is, submessages so far
    sample,     \* the sample it is about to reorder
    defrag,     \* the samples that lack fragments
    adm,        \* the reorder administrations: next_seq and the intervals
    known,      \* whether the proxy writer is there
    queue,      \* the delivery queue
    todo        \* what each thread is about to release, in order

memVars == <<refcount, gone, chunks, live, freeptr, current>>
indexVars == <<defrag, adm, known, queue>>
rbVars == <<memVars, n, pc, subs, sample, indexVars, todo>>

Uncommitted == 1000     \* RMSG_REFCOUNT_UNCOMMITTED_BIAS
Bias == 100             \* RMSG_REFCOUNT_RDATA_BIAS
Msgs == 1 .. MaxMsgs
Seqs == 1 .. MaxSeq
Admins == Late \cup {"primary"}
Item(uses, chain, sub) == [uses |-> uses, chain |-> chain, sub |-> sub]
None == Item({}, <<>>, 0)
-----------------------------------------------------------------------------
(* Buffers and messages *)

\* nn_rbuf_release for each of the chunks cs
Released(cs) == [b \in DOMAIN live |-> live[b] - Cardinality({i \in DOMAIN cs : cs[i].buf = b})]

\* nn_rbuf_alloc and init_rmsg_chunk: a chunk after cs, at the free end fp of the current
\* buffer or in a new buffer that replaces it
NewChunk(m, cs, fp, size) ==
    LET fits == BufSize - fp[current] >= ChunkSize
        chunk == [buf |-> current', start |-> IF fits THEN fp[current] ELSE 0, size |-> size] IN
    /\ current' = IF fits THEN current ELSE Len(live) + 1
    /\ live' = IF fits THEN [live EXCEPT ![current] = @ + 1]
               ELSE Append([live EXCEPT ![current] = @ - 1], 2)
    /\ freeptr' = IF fits THEN fp ELSE Append(fp, 0)
    /\ chunks' = [chunks EXCEPT ![m] = Append(cs, chunk)]

\* commit_rmsg_chunk of the last chunk: what follows it in the buffer is free
Committed(m) == LET c == Last(chunks[m]) IN [freeptr EXCEPT ![c.buf] = c.start + c.size]

\* nn_rmsg_alloc
Alloc(m) ==
    IF Last(chunks[m]).size = ChunkSize
    THEN NewChunk(m, chunks[m], Committed(m), 1)
    ELSE /\ chunks' = [chunks EXCEPT ![m][Len(chunks[m])].size = @ + 1]
         /\ UNCHANGED <<freeptr, live, current>>

\* a message counts down, and goes with its chunks when nothing is left (nn_rmsg_free)
CountDown(m, sub) ==
    /\ refcount' = [refcount EXCEPT ![m] = @ - sub]
    /\ IF refcount[m] = sub
       THEN gone' = gone \cup {m} /\ live' = Released(chunks[m])
       ELSE UNCHANGED <<gone, live>>

\* A thread goes on with what it releases.  It reads the next fragment of a chain before it
\* lets go of the first, and is done with the node before it does so.
Release(t) ==
    /\ todo[t] # <<>>
    /\ LET item == Head(todo[t]) IN
       IF item.chain = <<>>
       THEN /\ todo' = [todo EXCEPT ![t] = Tail(@)]
            /\ UNCHANGED <<refcount, gone, live>>
       ELSE /\ CountDown(Head(item.chain), item.sub)
            /\ todo' = [todo EXCEPT ![t] = <<Item({}, Tail(item.chain), item.sub)>> \o Tail(@)]
    /\ UNCHANGED <<chunks, freeptr, current, n, pc, subs, sample, indexVars>>
-----------------------------------------------------------------------------
(* Defragmentation: a sample has the message its rsample is in, the one that the sample   *)
(* info refers to, and its nodes in order, of which the first has no fragments as long as *)
(* the beginning of the sample is missing.                                                *)

Partial == {s \in Seqs : defrag[s].ivs # <<>>}
NoFragments == [node |-> {}, info |-> {}, ivs |-> <<>>]
Node(m, chain) == Item({m}, chain, Bias)

\* defrag_rsample_drop of each of S; the tree of a sample is entered before anything goes
Dropped(S) ==
    FlattenSeq([k \in 1 .. Cardinality(S) |->
        LET d == defrag[SetToSortSeq(S, <)[k]] IN
        [d.ivs EXCEPT ![1].uses = @ \cup d.node]])

\* defrag_rsample_new, for the first fragment of a sample or a later one
NewSample(m, first) ==
    [node |-> {m}, info |-> {m},
     ivs |-> IF first THEN <<Node(m, <<m>>)>> ELSE <<Node(m, <<>>), Node(m, <<m>>)>>]

MergedWithSucc_slipFree(ivs, i) == [RemoveAt(ivs, i + 1) EXCEPT ![i].chain = @]

\* defrag_try_merge_with_succ: the fragments of the next node are kept even if they add
\* nothing, because the sample may be in the message of one of them
MergedWithSucc(ivs, i) ==
    [RemoveAt(ivs, i + 1) EXCEPT ![i].chain = @ \o ivs[i + 1].chain]

\* defrag_add_fragment, when the fragment adds something: it extends node i at its end, which
\* may close the gap to the next one, or that one at its head, or it has a node of its own
Grown(d, m, i) ==
    LET grow == [d EXCEPT !.ivs[i].chain = Append(@, m),
                          !.info = IF d.ivs[i].chain = <<>> THEN {m} ELSE @] IN
    {grow} \cup IF i = Len(d.ivs) THEN {} ELSE {[grow EXCEPT !.ivs = MergedWithSucc(@, i)]}

WithFragment(d, m) ==
    UNION {Grown(d, m, i) : i \in DOMAIN d.ivs}
    \cup {[d EXCEPT !.ivs[i].chain = <<m>> \o @] : i \in 2 .. Len(d.ivs)}
    \cup {[d EXCEPT !.ivs = InsertAt(@, i, Node(m, <<m>>))] : i \in 2 .. Len(d.ivs) + 1}

\* the sample is complete: its only node becomes the element of a chain
Complete(s, d) ==
    [seq |-> s, node |-> d.node, elem |-> Item(d.ivs[1].uses \cup d.node \cup d.info, d.ivs[1].chain, 1)]
NoSample == [seq |-> 0, node |-> {}, elem |-> None]
-----------------------------------------------------------------------------
(* The reorder administrations *)

Stored(A) == FoldSet(LAMBDA i, c : c + Len(i.elems), 0, A.ivs)
Lowest(S) == CHOOSE i \in S : \A j \in S : i.min <= j.min
Highest(S) == CHOOSE i \in S : \A j \in S : i.min >= j.min

\* the elements of the intervals S, in order
Chain(S) ==
    LET s == SetToSortSeq(S, LAMBDA i, j : i.min < j.min) IN
    FlattenSeq([k \in DOMAIN s |-> s[k].elems])

\* those of every administration
StoredItems ==
    LET s == SetToSeq(Admins) IN FlattenSeq([k \in DOMAIN s |-> Chain(adm[s[k]].ivs)])

\* what a call returns: the administration, what it delivers and lets go, and refcount_adjust
Result(A, res, out, drop, adjust) ==
    [adm |-> A, res |-> res, out |-> out, drop |-> drop, adjust |-> adjust]

\* the sample is stored; beyond max_samples delete_last_sample takes the last one off
Accept(A, new) ==
    LET last == Highest(new)
        short == IF Len(last.elems) = 1 THEN new \ {last}
                 ELSE (new \ {last}) \cup {[last EXCEPT !.elems = Front(@), !.max = @ - 1]} IN
    IF Stored(A) < MaxStored THEN Result([A EXCEPT !.ivs = new], "accept", <<>>, <<>>, 1)
    ELSE Result([A EXCEPT !.ivs = short], "accept", <<>>, <<Last(last.elems)>>, 1)

\* the interval of sample x, joined with those that end before it and begin after it
Joined_slipNoSwap(x, below, above) ==
    [min |-> Lowest(below \cup {[min |-> x.seq]}).min,
     max |-> Highest(above \cup {[min |-> x.seq, max |-> x.seq + 1]}).max,
     node |-> IF below # {} THEN Lowest(below).node
              ELSE IF above # {} THEN Lowest(above).node ELSE x.node,
     elems |-> Chain(below) \o <<x.elem>> \o Chain(above)]

Joined(x, below, above) ==
    [min |-> Lowest(below \cup {[min |-> x.seq]}).min,
     max |-> Highest(above \cup {[min |-> x.seq, max |-> x.seq + 1]}).max,
     node |-> IF below # {} THEN Lowest(below).node ELSE x.node,
     elems |-> Chain(below) \o <<x.elem>> \o Chain(above)]

\* nn_reorder_rsample
Reordered(A, x, full) ==
    LET s == x.seq
        below == {i \in A.ivs : i.max = s}
        above == {i \in A.ivs : i.min = s + 1}
        joined == Joined(x, below, above)
        atEnd == A.ivs # {} /\ s >= Highest(A.ivs).max IN
    CASE s < A.next -> Result(A, "too old", <<>>, <<>>, 0)
      [] s = A.next /\ ~full ->
            Result([next |-> joined.max, ivs |-> A.ivs \ above], "deliver", joined.elems, <<>>, 1)
      [] \/ s = A.next /\ full
         \/ \E i \in A.ivs : s \in i.min .. i.max - 1
         \/ atEnd /\ (full \/ Stored(A) = MaxStored) -> Result(A, "reject", <<>>, <<>>, 0)
      [] OTHER -> Accept(A, (A.ivs \ (below \cup above)) \cup {joined})

\* nn_reorder_gap for [lo, hi) with the fragment of a gap in message m
Gapped(A, m, lo, hi) ==
    LET touching == {i \in A.ivs : i.max >= lo /\ i.min <= hi}
        coalesced == [min |-> Min({lo, Lowest(touching).min}), max |-> Max({hi, Highest(touching).max}),
                      node |-> Lowest(touching).node, elems |-> Chain(touching)]
        gap == [min |-> lo, max |-> hi, node |-> {m}, elems |-> <<Item({m}, <<m>>, 1)>>] IN
    CASE hi <= A.next -> Result(A, "too old", <<>>, <<>>, 0)
      [] hi > A.next /\ touching = {} /\ lo <= A.next ->
            Result([A EXCEPT !.next = hi], "accept", <<>>, <<>>, 0)
      [] hi > A.next /\ touching = {} /\ lo > A.next ->
            IF Stored(A) = MaxStored /\ lo > Highest(A.ivs).max
            THEN Result(A, "reject", <<>>, <<>>, 0)
            ELSE Accept(A, A.ivs \cup {gap})
      [] hi > A.next /\ touching # {} ->
            IF coalesced.min <= A.next
            THEN Result([next |-> coalesced.max, ivs |-> A.ivs \ touching], "deliver",
                        coalesced.elems, <<>>, 0)
            ELSE Result([A EXCEPT !.ivs = (@ \ touching) \cup {coalesced}], "accept", <<>>, <<>>, 0)
-----------------------------------------------------------------------------
(* The receive thread *)

Idle(t) == todo[t] = <<>>
Does(at) == pc = at /\ Idle("recv")

\* nn_rmsg_new and the packet, or none
Receive(arrived) ==
    /\ Does("new") /\ n < MaxMsgs
    /\ n' = n + 1
    /\ NewChunk(n + 1, <<>>, freeptr, IF arrived THEN 1 ELSE 0)
    /\ refcount' = [refcount EXCEPT ![n + 1] = Uncommitted]
    /\ pc' = IF arrived THEN "submsg" ELSE "commit"
    /\ subs' = 0
    /\ UNCHANGED <<gone, sample, indexVars, todo>>

NextSub == subs' = subs + 1 /\ subs < MaxSubs /\ known

\* clean_defrag: what every administration has done with
Done == {s \in Partial : \A a \in Admins : s < adm[a].next}

\* A submessage with a whole sample: reorder_rsample_new
Data(s) ==
    /\ Does("submsg") /\ NextSub
    /\ Alloc(n)
    /\ refcount' = [refcount EXCEPT ![n] = @ + Bias]
    /\ defrag' = [x \in Seqs |-> IF x \in Done THEN NoFragments ELSE defrag[x]]
    /\ todo' = [todo EXCEPT !["recv"] = Dropped(Done)]
    /\ sample' = [seq |-> s, node |-> {n}, elem |-> Item({n}, <<n>>, 1)]
    /\ pc' = "reorder"
    /\ UNCHANGED <<gone, n, adm, known, queue>>

\* A fragment, after which sample s is d, and those of drop had to give way
Fragment(s, d, stored, drop, complete) ==
    LET dropped == Done \cup drop IN
    /\ Alloc(n)
    /\ refcount' = [refcount EXCEPT ![n] = IF stored THEN @ + Bias ELSE @]
    /\ defrag' = [x \in Seqs |-> IF x = s /\ ~complete THEN d
                                 ELSE IF x \in dropped \cup {s} THEN NoFragments ELSE defrag[x]]
    /\ todo' = [todo EXCEPT !["recv"] = Dropped(dropped)]
    /\ sample' = IF complete THEN Complete(s, d) ELSE NoSample
    /\ pc' = IF complete THEN "reorder" ELSE "submsg"

\* nn_defrag_rsample.  It does not look at max_samples for a fragment of the sample with the
\* highest number; for another the sample that gives way may be its own.
DataFrag(s) ==
    LET there == Partial \ Done
        limited == Cardinality(there) = MaxStored /\ \E x \in there : x > s
        drops == IF limited THEN {{x} : x \in there} ELSE {{}} IN
    /\ Does("submsg") /\ NextSub
    /\ \/ Fragment(s, IF s \in Done THEN NoFragments ELSE defrag[s], FALSE, {}, FALSE)
       \/ \E drop \in drops, first \in BOOLEAN :
             /\ s \notin there \ drop
             /\ Cardinality(there \ drop) < MaxStored
             /\ Fragment(s, NewSample(n, first), TRUE, drop, FALSE)
       \/ \E drop \in drops, complete \in BOOLEAN :
             /\ s \in there \ drop
             /\ \E d \in WithFragment(defrag[s], n) :
                   /\ complete => Len(d.ivs) = 1
                   /\ Fragment(s, d, TRUE, drop, complete)
    /\ UNCHANGED <<gone, n, adm, known, queue>>

Adjust_slipOne(chain, adjust) == <<Item({}, chain, Bias - 1)>>

\* nn_fragchain_adjust_refcount, the last thing done with a sample or a gap
Adjust(chain, adjust) == <<Item({}, chain, Bias - adjust)>>

\* What the primary administration and those of the readers of results have done.
\* Nothing is delivered to a single reader synchronously.
Deliver(primary, results, chain) ==
    LET rs == SetToSeq(DOMAIN results)
        each(F(_)) == FlattenSeq([k \in DOMAIN rs |-> F(results[rs[k]])])
        adjust == FoldSet(LAMBDA r, c : c + results[r].adjust, primary.adjust, DOMAIN results) IN
    /\ adm' = [a \in Admins |-> IF a = "primary" THEN primary.adm
                                ELSE IF a \in DOMAIN results THEN results[a].adm ELSE adm[a]]
    /\ queue' = queue \o (IF Synchronous THEN <<>> ELSE primary.out) \o each(LAMBDA r : r.out)
    /\ todo' = [todo EXCEPT !["recv"] =
                   @ \o primary.drop \o (IF Synchronous THEN primary.out ELSE <<>>)
                   \o each(LAMBDA r : r.drop) \o Adjust(chain, adjust)]

\* The rest of handle_regular.  A sample that is too old is duplicated for the readers that
\* are out of sync; one accepted without any reliable reader is delivered by a gap before it.
Reorder(full, readers) ==
    LET one == Reordered(adm["primary"], sample, FALSE)
        forced == [Gapped(one.adm, n, 1, sample.seq) EXCEPT !.adjust = @ + 1, !.drop = one.drop]
        dup == [sample EXCEPT !.node = {n}, !.elem.uses = @ \cup {n}]
        late == IF one.res = "too old" THEN readers ELSE {} IN
    /\ Does("reorder")
    /\ Deliver(IF one.res = "accept" /\ ~Reliable THEN forced ELSE one,
               [r \in late |-> Reordered(adm[r], dup, full)], sample.elem.chain)
    /\ sample' = NoSample
    /\ pc' = "submsg"
    /\ UNCHANGED <<memVars, n, subs, defrag, known>>

\* A gap: nn_rdata_newgap, which the receive thread accounts for at once, and handle_one_gap;
\* or a heartbeat that begins with hi.  A message with several gaps is one submessage for each.
Gap(lo, hi, readers) ==
    LET dropped == {s \in Partial : s \in lo .. hi - 1} IN
    /\ Does("submsg") /\ NextSub
    /\ Alloc(n)
    /\ refcount' = [refcount EXCEPT ![n] = @ + Bias]
    /\ defrag' = [x \in Seqs |-> IF x \in dropped THEN NoFragments ELSE defrag[x]]
    /\ LET primary == Gapped(adm["primary"], n, lo, hi) IN
       Deliver([primary EXCEPT !.drop = Dropped(dropped) \o @],
               [r \in readers |-> Gapped(adm[r], n, lo, hi)], <<n>>)
    /\ UNCHANGED <<gone, n, pc, sample, known>>

EndOfPacket ==
    /\ Does("submsg")
    /\ pc' = "commit"
    /\ UNCHANGED <<memVars, n, subs, sample, indexVars, todo>>

\* nn_rmsg_commit: the message may go at once, and its memory is used again; if not, it may
\* still go, on another thread, before the end of its last chunk is noted
Commit ==
    /\ Does("commit")
    /\ CountDown(n, Uncommitted)
    /\ pc' = IF refcount[n] = Uncommitted THEN "new" ELSE "keep"
    /\ UNCHANGED <<chunks, freeptr, current, n, subs, sample, indexVars, todo>>

Keep ==
    /\ Does("keep")
    /\ freeptr' = Committed(n)
    /\ pc' = "new"
    /\ UNCHANGED <<refcount, gone, chunks, live, current, n, subs, sample, indexVars, todo>>

\* the thread has ended: nn_rbufpool_free
FreePool ==
    /\ Does("new")
    /\ live' = [live EXCEPT ![current] = @ - 1]
    /\ current' = 0
    /\ pc' = "gone"
    /\ UNCHANGED <<refcount, gone, chunks, freeptr, n, subs, sample, indexVars, todo>>
-----------------------------------------------------------------------------
(* The other threads *)

\* dqueue_thread takes what there is, and handles and releases one element after the other
Take ==
    /\ Idle("dq") /\ queue # <<>>
    /\ todo' = [todo EXCEPT !["dq"] = queue]
    /\ queue' = <<>>
    /\ UNCHANGED <<memVars, n, pc, subs, sample, defrag, adm, known>>

\* the proxy writer is no longer found
Delete ==
    /\ known
    /\ known' = FALSE
    /\ UNCHANGED <<memVars, n, pc, subs, sample, defrag, adm, queue, todo>>

\* gc_delete_proxy_writer, when the receive thread has slept: nn_reorder_free, nn_defrag_free
GcFree ==
    /\ ~known /\ Idle("gc") /\ Idle("recv") /\ pc \notin {"submsg", "reorder"}
    /\ Partial # {} \/ \E a \in Admins : adm[a].ivs # {}
    /\ todo' = [todo EXCEPT !["gc"] =
                   StoredItems \o Dropped(Partial)]
    /\ defrag' = [s \in Seqs |-> NoFragments]
    /\ adm' = [a \in Admins |-> [adm[a] EXCEPT !.ivs = {}]]
    /\ UNCHANGED <<memVars, n, pc, subs, sample, known, queue>>
-----------------------------------------------------------------------------
Init ==
    /\ refcount = [m \in Msgs |-> 0] /\ gone = {} /\ chunks = [m \in Msgs |-> <<>>]
    /\ live = <<1>> /\ freeptr = <<0>> /\ current = 1
    /\ n = 0 /\ pc = "new" /\ subs = 0 /\ sample = NoSample
    /\ defrag = [s \in Seqs |-> NoFragments]
    /\ adm = [a \in Admins |-> [next |-> 1, ivs |-> {}]]
    /\ known = TRUE
    /\ queue = <<>>
    /\ todo = [t \in {"recv", "dq", "gc"} |-> <<>>]

RecvThread ==
    \/ \E arrived \in BOOLEAN : Receive(arrived)
    \/ \E s \in Seqs \ Large : Data(s)
    \/ \E s \in Large : DataFrag(s)
    \/ \E full \in BOOLEAN, readers \in SUBSET Late : Reorder(full, readers)
    \/ \E lo, hi \in Seqs : lo < hi /\ \E r \in Late : Gap(lo, hi, {r})
    \/ \E hi \in Seqs : Gap(1, hi, Late)
    \/ EndOfPacket \/ Commit \/ Keep \/ FreePool

Next == RecvThread \/ Take \/ Delete \/ GcFree \/ \E t \in DOMAIN todo : Release(t)

Spec == Init /\ [][Next]_rbVars
-----------------------------------------------------------------------------
(* Properties *)

\* everything that refers to messages, with what each fragment of it counts
Items ==
    LET s == SetToSeq(Partial)
        fragments == FlattenSeq([k \in DOMAIN s |-> defrag[s[k]].ivs]) IN
    fragments \o <<[sample.elem EXCEPT !.sub = Bias]>> \o StoredItems \o queue
    \o todo["recv"] \o todo["dq"] \o todo["gc"]

Needed ==
    UNION {i.uses \cup Range(i.chain) : i \in Range(Items)}
    \cup UNION {defrag[s].node \cup defrag[s].info : s \in Partial}
    \cup UNION {i.node : i \in UNION {adm[a].ivs : a \in Admins}}

\* where message m has chunk i: the last one of a message in progress takes all it may
Place(m, i) ==
    LET c == chunks[m][i]
        open == m = n /\ i = Len(chunks[m]) /\ pc \notin {"new", "gone"} IN
    {<<c.buf, k>> : k \in c.start + 1 .. c.start + (IF open THEN ChunkSize ELSE c.size)}

Kept == {m \in 1 .. n : m \notin gone}

\* Whatever a thread still has to read is there: every node, element and fragment is in a
\* message that was not freed, however the threads count down and in whatever order a chain
\* is let go; the buffer it is in was not freed and its memory not used again.
MemoryHeld ==
    /\ Needed \cap gone = {}
    /\ \A m \in Kept, i \in 1 .. MaxSubs + 1 :
          i \in DOMAIN chunks[m] => live[chunks[m][i].buf] > 0
    /\ \A m, k \in Kept : m < k =>
          \A i \in DOMAIN chunks[m], j \in DOMAIN chunks[k] : Place(m, i) \cap Place(k, j) = {}

\* what the items count for message m
Counted(m) ==
    FoldSeq(LAMBDA i, c : c + i.sub * Cardinality({k \in DOMAIN i.chain : i.chain[k] = m}), 0, Items)

\* The counts are what the references add up to, biases included, at any moment: a message
\* goes with the last of them and not later, and so does a buffer with its last message once
\* another is current.
CountsBalance ==
    /\ \A m \in 1 .. n :
          /\ refcount[m] = Counted(m)
                + (IF m = n /\ pc \in {"submsg", "reorder", "commit"} THEN Uncommitted ELSE 0)
          /\ m \in gone <=> refcount[m] = 0
    /\ \A b \in DOMAIN live :
          live[b] = (IF b = current THEN 1 ELSE 0)
             + FoldSet(LAMBDA m, c : c + Cardinality({i \in DOMAIN chunks[m] : chunks[m][i].buf = b}),
                       0, Kept)
=============================================================================
