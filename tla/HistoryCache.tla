---------------------------- MODULE HistoryCache ----------------------------
(***************************************************************************)
(* Which samples a writer history cache (q_whc.c) retains, as sets of      *)
(* sequence numbers.  A writer's log is the sequence of the keys it wrote; *)
(* sample s is the s-th entry.  What may be dropped depends only on how    *)
(* many newer samples of the same instance there are and on what has been  *)
(* acknowledged.  The intervals, the index and the byte counts with which  *)
(* q_whc.c computes this are in module WHC.                                *)
(***************************************************************************)
EXTENDS Integers, Sequences, FiniteSets

CONSTANTS
    HDepth,    \* whc->hdepth: KEEP_LAST depth if aggressive, 0 for KEEP_ALL
    TLDepth,   \* whc->tldepth: depth of the durability service history, or 0
    TL         \* wr->handle_as_transient_local

ASSUME HistoryAssumption ==
    /\ HDepth \in Nat /\ TLDepth \in Nat /\ TL \in BOOLEAN
    /\ ~TL => TLDepth = 0

\* whc->idxdepth. (TLC evaluates a definition without parameters once, with the constants
\* of the .cfg; with them it also follows an INSTANCE that gives the constants others.)
IdxDepth(hdepth, tldepth) == IF hdepth > tldepth THEN hdepth ELSE tldepth

\* the samples of the same instance written after s
Newer(log, s) == {t \in 1..Len(log) : t > s /\ log[t] = log[s]}

\* s fell out of its instance's history: a KEEP_LAST writer need not keep it
Overwritten(log, s) == HDepth > 0 /\ Cardinality(Newer(log, s)) >= IdxDepth(HDepth, TLDepth)

\* s belongs to what a late joining transient-local reader is to be given
InTLHistory(log, s) == Cardinality(Newer(log, s)) < TLDepth

\* KEEP_ALL on transient local, so nothing is dropped for being acknowledged; without
\* an index whc_remove_acked_messages does not come to that test
NeverDrops(idxdepth) == TL /\ TLDepth = 0 /\ idxdepth > 0

\* whc_insert of the last sample of log: the one it pushes out of its instance's
\* history goes, if the history is bounded or it has been acknowledged; and a sample
\* that is acknowledged at once takes along what left the transient-local history.
Inserted(whc, log, m) ==
    LET s    == Len(log)
        idx  == IdxDepth(HDepth, TLDepth)
        old  == {t \in whc : t < s /\ log[t] = log[s]}
        full == {t \in old : /\ idx > 0
                             /\ Cardinality(Newer(log, t)) = idx
                             /\ HDepth > 0 \/ t <= m}
        tl   == {t \in old : /\ s <= m /\ TLDepth > 0 /\ idx > TLDepth
                             /\ Cardinality(Newer(log, t)) = TLDepth}
    IN  (whc \ (full \cup tl)) \cup {s}

AckDropped_slipDropsHistory(whc, log, maxDrop, m) == {s \in whc : s > m}

\* whc_remove_acked_messages(m) after everything up to maxDrop was processed: of what
\* is newly acknowledged only the transient-local history stays, and what has left that
\* history since the last time goes if this time its instance is looked at
AckDropped(whc, log, maxDrop, m) ==
    LET visited == {t \in whc : t > maxDrop /\ t <= m /\ InTLHistory(log, t)}
    IN  {s \in whc : \/ s > m \/ InTLHistory(log, s)
                     \/ NeverDrops(IdxDepth(HDepth, TLDepth))
                     \/ s <= maxDrop /\ \A t \in visited : log[t] # log[s]}
=============================================================================
