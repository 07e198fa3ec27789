----------------------------- MODULE MCHistories ------------------------------
(* The history cache of a writer (WHC, in the settings of MCWHC) or that   *)
(* of a reader (RHC), one per behaviour.  The settings of RHC: one         *)
(* instance and several writers; two instances of one writer each and a    *)
(* history of one; order by source time with exclusive ownership; and      *)
(* limited resources.  In the last two the code does not keep all of the   *)
(* properties (see the README), and those it keeps are checked.            *)
EXTENDS MCWHC, Registrations

CONSTANTS Instances, MaxStores

VARIABLES cache, stores, gone, which

rhcVars == <<cache, stores, gone>>
histVars == <<allVars, rhcVars, which>>

AnySample == {"read", "unread"}
AnyView == {"new", "old"}
AnyState == {"alive", "disposed", "no_writers"}
Mask(s, v, i) == [sample |-> s, view |-> v, state |-> i]
AnyMask == Mask(AnySample, AnyView, AnyState)
SomeMasks == {AnyMask, Mask({"unread"}, AnyView, {"alive"}), Mask({"read"}, AnyView, AnyState)}

OneInstance == {CHOOSE i \in Instances : TRUE}
OneWriter == {CHOOSE w \in Writers : TRUE}
TwoWriters == OneWriter \cup {CHOOSE w \in Writers \ OneWriter : TRUE}
Unlimited == 99

One == INSTANCE RHC WITH
    Instances <- OneInstance, Strength <- [w \in Writers |-> 0], AutoDispose <- OneWriter,
    Depth <- 2, BySource <- FALSE, Exclusive <- FALSE, Times <- {0},
    MaxSamples <- Unlimited, MaxPerInstance <- Unlimited, MaxInstances <- Unlimited,
    Conditions <- {Mask({"unread"}, AnyView, AnyState), Mask(AnySample, AnyView, {"no_writers"})},
    Masks <- SomeMasks
Two == INSTANCE RHC WITH
    Writers <- OneWriter, Strength <- [w \in OneWriter |-> 0], AutoDispose <- OneWriter,
    Depth <- 1, BySource <- FALSE, Exclusive <- FALSE, Times <- {0},
    MaxSamples <- Unlimited, MaxPerInstance <- Unlimited, MaxInstances <- Unlimited,
    MaxStores <- MaxStores - 1,
    Conditions <- {Mask({"unread"}, AnyView, {"alive", "disposed"})}, Masks <- {AnyMask}
Ordered == INSTANCE RHC WITH
    Instances <- OneInstance, Writers <- TwoWriters, AutoDispose <- OneWriter,
    Strength <- [w \in TwoWriters |-> IF w \in OneWriter THEN 1 ELSE 2],
    Depth <- 2, BySource <- TRUE, Exclusive <- TRUE, Times <- {1, 2},
    MaxSamples <- Unlimited, MaxPerInstance <- Unlimited, MaxInstances <- Unlimited,
    MaxStores <- MaxStores - 1, Conditions <- {}, Masks <- {AnyMask}
Limited == INSTANCE RHC WITH
    Writers <- TwoWriters, Strength <- [w \in TwoWriters |-> 0], AutoDispose <- {},
    Depth <- 2, BySource <- FALSE, Exclusive <- FALSE, Times <- {0},
    MaxSamples <- 1, MaxPerInstance <- 1, MaxInstances <- 1,
    MaxStores <- MaxStores - 1, Conditions <- {}, Masks <- {AnyMask}
-----------------------------------------------------------------------------
HistInit ==
    \/ which = "writer" /\ AllInit /\ One!Init
    \/ /\ which \in {"one", "two", "ordered", "limited"}
       /\ setting = "deep" /\ Init
       /\ CASE which = "one" -> One!Init
            [] which = "two" -> Two!Init
            [] which = "ordered" -> Ordered!Init
            [] which = "limited" -> Limited!Init

HistNext ==
    /\ UNCHANGED which
    /\ \/ which = "writer" /\ AllNext /\ UNCHANGED rhcVars
       \/ /\ \/ which = "one" /\ One!Next
             \/ which = "two" /\ Two!Next
             \/ which = "ordered" /\ Ordered!Next
             \/ which = "limited" /\ Limited!Next
          /\ UNCHANGED <<vars, setting>>

HistSpec == HistInit /\ [][HistNext]_histVars
-----------------------------------------------------------------------------
\* The counts of the reader history cache and the triggers of the read conditions are what
\* the samples say, as rhc_check_counts_locked asserts, whatever is stored, read and taken;
\* and the cached writer, the count and the set of registrations of an instance agree, and
\* name no writer that is gone: no instance stays alive for a writer nobody will hear of.
CountsAsAsserted ==
    /\ which = "one" => One!CountsExact /\ One!TriggersExact /\ One!NoPhantomWriters
    /\ which = "two" => Two!CountsExact /\ Two!TriggersExact /\ Two!NoPhantomWriters
    /\ which = "ordered" => Ordered!CountsExact
    /\ which = "limited" => Limited!NoPhantomWriters

\* Every step of dds_rhc.c is a step of ReaderCache, or leaves it as it is: the states of
\* instances and samples follow from what arrived, without caches and counts.
AllImplementReaderCache ==
    /\ which = "one" => One!RC!RCInit
    /\ which = "two" => Two!RC!RCInit
    /\ [][/\ which = "one" => UNCHANGED One!RC!rcvars \/ One!RC!RCNext
          /\ which = "two" => UNCHANGED Two!RC!rcvars \/ Two!RC!RCNext]_histVars
=============================================================================
