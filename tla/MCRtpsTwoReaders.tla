-------------------------- MODULE MCRtpsTwoReaders --------------------------
(* Rtps with two readers that are matched at any time and one of which is  *)
(* deleted, in two settings of one run: a transient-local writer with a    *)
(* durability history of one sample, whose constants are those of the      *)
(* .cfg, or a volatile one that writes one sample less.                    *)
EXTENDS Rtps

VARIABLE volatile

allVars == <<vars, volatile>>

Volatile == INSTANCE Rtps WITH TLDepth <- 0, TL <- FALSE, MaxSeq <- MaxSeq - 1

AllInit == Init /\ volatile \in BOOLEAN
AllNext ==
    /\ UNCHANGED volatile
    /\ \/ ~volatile /\ Next
       \/ volatile /\ Volatile!Next
AllSpec == AllInit /\ [][AllNext]_allVars

\* Rtps's HistoryDelivered for the transient-local setting: a late joiner does not
\* move past a sample of the history that it was not given.
DurableHistoryDelivered == ~volatile => HistoryDelivered
=============================================================================
