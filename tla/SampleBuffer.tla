---------------------------- MODULE SampleBuffer ----------------------------
(***************************************************************************)
(* What a reorder administration promises to the rest of the protocol: a   *)
(* set of samples waiting for delivery, a set of sequence numbers known to *)
(* be unavailable, and in-order delivery up to the first number that is in *)
(* neither.  Being bounded it may forget, but only what follows everything *)
(* it keeps, and nothing it forgets is passed over.                        *)
(***************************************************************************)
EXTENDS Integers, Sequences, FiniteSets

CONSTANT Seqs

VARIABLES next, have, void, delivered

svars == <<next, have, void, delivered>>

\* the members of S in ascending order
Sorted(S) ==
    [i \in 1..Cardinality(S) |->
        CHOOSE s \in S : Cardinality({t \in S : t < s}) = i - 1]

\* Hand out all up to the first number in neither h nor v.
Release(h, v) ==
    /\ next' \in Nat /\ next' >= next
    /\ \A s \in next..next' - 1 : s \in h \cup v
    /\ next' \notin h \cup v
    /\ delivered' = delivered \o Sorted({s \in h : s < next'})
    /\ have' = {s \in h : s > next'}
    /\ void' = {s \in v : s > next'}

\* D is forgotten out of h and v: only a tail of what is stored.
AtTheEnd(D, h, v) == D \subseteq h \cup v /\ \A d \in D, k \in (h \cup v) \ D : k < d

SInit == next = 1 /\ have = {} /\ void = {} /\ delivered = <<>>

Arrive ==
    \E s \in Seqs, D \in SUBSET Seqs :
       /\ s >= next /\ s \notin D
       /\ AtTheEnd(D, have \cup {s}, void)
       /\ Release((have \cup {s}) \ D, void \ D)

Announce ==
    \E a \in Seqs, b \in 1..Cardinality(Seqs) + 1, D \in SUBSET Seqs :
       LET v == void \cup {s \in (a..b - 1) \ have : s >= next} IN
       /\ AtTheEnd(D, have, v)
       /\ Release(have \ D, v \ D)

\* a number announced or received again changes nothing
SNext == svars' # svars /\ (Arrive \/ Announce)

SSpec == SInit /\ [][SNext]_svars
=============================================================================
