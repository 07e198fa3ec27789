----------------------------- MODULE CacheSpec -----------------------------
(***************************************************************************)
(* What the protocol relies on when it uses a writer history cache: an     *)
(* abstract cache is a set of sequence numbers that changes in three ways. *)
(* Rtps uses its cache only like this, and q_whc.c, with its intervals,    *)
(* circular buffers and deferred deletes (module WHC), implements it.      *)
(***************************************************************************)
EXTENDS HistoryCache

CONSTANTS
    Keys,     \* the instances of the topic
    NoKey     \* no instance: a sequence number used up without a sample

VARIABLES
    log,      \* the key of every sample ever written
    cache,    \* the samples in the cache
    drop      \* everything up to this was treated as acknowledged

cacheVars == <<log, cache, drop>>

Init == log = <<>> /\ cache = {} /\ drop = 0

\* A sample is written and stored, when everything up to m is acknowledged
\* (m may lag behind nothing that was dropped, and may include the new sample).
Insert(k, m) ==
    /\ m >= drop
    /\ log' = Append(log, k)
    /\ cache' = Inserted(cache, log', m)
    /\ drop' = drop

\* A sample is written while nobody is there to need it.
Bypass(k) == log' = Append(log, k) /\ UNCHANGED <<cache, drop>>

\* Everything up to m has been acknowledged.
Acknowledge(m) ==
    /\ m > drop
    /\ cache' = AckDropped(cache, log, drop, m)
    /\ drop' = IF NeverDrops(IdxDepth(HDepth, TLDepth)) THEN drop ELSE m
    /\ log' = log

Next ==
    \/ \E k \in Keys, m \in 0..Len(log) + 1 : Insert(k, m)
    \/ \E k \in Keys \cup {NoKey} : Bypass(k)
    \/ \E m \in 0..Len(log) : Acknowledge(m)

Spec == Init /\ [][Next]_cacheVars
=============================================================================
