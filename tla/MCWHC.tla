------------------------------- MODULE MCWHC --------------------------------
(* WHC in several settings of one run: the depths, the durability kind and *)
(* the startup mode are fixed when a writer is created, so that each       *)
(* behaviour is one of the setting its initial state has chosen. The       *)
(* constants of the .cfg are the setting "deep".                           *)
EXTENDS WHC

VARIABLE setting

allVars == <<vars, setting>>

\* Transient-local, KEEP_ALL: the index holds the durability history only
Shallow  == INSTANCE WHC WITH HDepth <- 0, TLDepth <- 2
\* Volatile, KEEP_ALL: no index
Volatile == INSTANCE WHC WITH HDepth <- 0, TLDepth <- 0, TL <- FALSE
\* Volatile, KEEP_LAST 2, created in startup mode
Starting == INSTANCE WHC WITH HDepth <- 2, TLDepth <- 0, TL <- FALSE, StartupMode <- TRUE
\* Nothing is ever unregistered, so that it implements the abstract cache
Plain    == INSTANCE WHC WITH HDepth <- 3, TLDepth <- 1, Kinds <- {"data"}, MaxSeq <- MaxSeq + 2

AllInit ==
    \/ setting = "deep" /\ Init
    \/ setting = "shallow" /\ Shallow!Init
    \/ setting = "volatile" /\ Volatile!Init
    \/ setting = "starting" /\ Starting!Init
    \/ setting = "plain" /\ Plain!Init

AllNext ==
    /\ UNCHANGED setting
    /\ \/ setting = "deep" /\ Next
       \/ setting = "shallow" /\ Shallow!Next
       \/ setting = "volatile" /\ Volatile!Next
       \/ setting = "starting" /\ Starting!Next
       \/ setting = "plain" /\ Plain!Next

AllSpec == AllInit /\ [][AllNext]_allVars

\* WHC's ImplementsCache, for the setting without unregisters: every step of q_whc.c is
\* a step of the abstract cache, or leaves it as it is.
PlainImplementsCache ==
    /\ setting = "plain" => Plain!Abstract!Init
    /\ [][setting = "plain" => [Plain!Abstract!Next]_(Plain!Abstract!cacheVars)]_allVars
=============================================================================
