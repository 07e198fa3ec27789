----------------------------- MODULE MCHopscotch -----------------------------
(* Hopscotch with three elements, of which two meet until the table grows: *)
(* the home of "c" is that of "a" in a table of four buckets.              *)
EXTENDS Integers

CONSTANTS MaxTries, InitSize, MaxSize, Mutators, Finders, Enumerators

VARIABLES arrays, th, inside

HashOf(k) == CASE k = "a" -> 2 [] k = "b" -> 3 [] k = "c" -> 6

INSTANCE Hopscotch WITH
    Keys <- {"a", "b", "c"}, Hash <- HashOf, NoKey <- "-", Busy <- "busy", HopRange <- 2,
    AddRange <- 4
=============================================================================
