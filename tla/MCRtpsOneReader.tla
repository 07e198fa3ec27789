-------------------------- MODULE MCRtpsOneReader ---------------------------
(* Rtps with one reader and a message lost, duplicated or refused, in two  *)
(* settings of one run: a KEEP_LAST history, whose constants are those of  *)
(* the .cfg, or an unlimited one with a single instance and heartbeats     *)
(* piggybacked on samples.  For the many readers a writer may have, the    *)
(* tree in which it keeps them (AvlTree), in two settings more: every      *)
(* shape of seven nodes, and four readers that come, acknowledge and go.   *)
EXTENDS Rtps, TLC

VARIABLES setting,
          tree, wrSeq     \* AvlTree

treeVars == <<tree, wrSeq>>
allVars == <<vars, setting, treeVars>>

Unlimited == INSTANCE Rtps WITH
    HDepth <- 0, Keys <- {CHOOSE k \in Keys : TRUE}, Piggyback <- {FALSE}

Shapes == INSTANCE AvlTree WITH
    Nodes <- 1 .. 7, Reliable <- 1 .. 7, MaxSeq <- 1, Augmenting <- FALSE
Matched == INSTANCE AvlTree WITH
    Nodes <- 1 .. 4, Reliable <- 1 .. 4, MaxSeq <- 2, Augmenting <- TRUE

\* the instances are alike
KeySymmetry == Permutations(Keys)

AllInit ==
    /\ Init
    /\ setting \in {"keep last", "unlimited", "shapes", "matched"}
    /\ IF setting = "matched" THEN Matched!Init ELSE Shapes!Init
AllNext ==
    /\ UNCHANGED setting
    /\ \/ /\ \/ setting = "keep last" /\ Next
             \/ setting = "unlimited" /\ Unlimited!Next
          /\ UNCHANGED treeVars
       \/ /\ \/ setting = "shapes" /\ Shapes!Next
             \/ setting = "matched" /\ Matched!Next
          /\ UNCHANGED vars
AllSpec == AllInit /\ [][AllNext]_allVars
-----------------------------------------------------------------------------
\* Rtps's NoLoss for the setting that was chosen: only a KEEP_LAST history may replace
\* a sample that is passed over.
AllNoLoss == IF setting = "unlimited" THEN Unlimited!NoLoss ELSE NoLoss

\* AvlTree: whatever is inserted, deleted and replaced, the tree is sorted and balanced and
\* its lookups and enumerations find what is there; what is kept of the subtrees is what the
\* readers in them say, and a heartbeat goes to those who lag.
TreesSound ==
    /\ setting = "shapes" => Shapes!Balanced /\ Shapes!LookupsExact
    /\ setting = "matched" =>
          Matched!Balanced /\ Matched!SubtreesSound /\ Matched!HeartbeatsReach
=============================================================================
