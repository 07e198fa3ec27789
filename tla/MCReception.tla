----------------------------- MODULE MCReception ------------------------------
(* What is received of a proxy writer, one stage per behaviour: the        *)
(* fragments of a sample (Defrag), the reorder administration (Reorder),   *)
(* the delivery queue (DeliveryQueue) and the readers, some of which catch *)
(* up (ReaderSync); before them the hash table in which it is looked up    *)
(* (Hopscotch), and beside them the discovery data of a participant,       *)
(* decoded and kept as a parameter list (PList).  The setting says which stage runs and with which      *)
(* configuration; the other stages stay as they were created.  An          *)
(* overflowing reorder administration and arbitrary gaps do not go         *)
(* together (see the README, reorder_gaps_full): "any" gap and room for    *)
(* every sample, or heartbeats only and a "tight" buffer.                  *)
EXTENDS MCReorder

CONSTANTS Few,             \* room of the tight buffer
          Recv,            \* receive threads of the delivery queue
          DurableReader, VolatileReader,
          MaxEnqueued      \* bound: what is put into the delivery queue
ASSUME FewAssumption == Few \in Nat \ {0}

VARIABLES setting,
          samples, maxSample, result, got,                                           \* Defrag
          sc, mine, nof, rdguid, keepgoing, waiting, locked, at, enqueued, handled,  \* DeliveryQueue
          seq, unavailable, lastSeq, primary, nOut, match, dq, given, twice,         \* ReaderSync
          arrays, th, inside,                                                        \* Hopscotch
          list, heap, message, phase, address, nmsgs                                 \* PList

Tight == INSTANCE Reorder WITH MaxSamples <- Few, Gaps <- HeartbeatGaps

Interval(a, b) == [min |-> a, maxp1 |-> b]
UpTo(b) == {Interval(1, n) : n \in 2 .. b}

\* one fragment a message, the last one short; several, two samples only; other policy
Single == INSTANCE Defrag WITH
    MaxSeq <- 3, MaxSamples <- 2, BitmapMax <- 2, FragSize <- 2, Size <- 7, Width <- 1,
    DropMode <- "latest", Gaps <- UpTo(4) \cup {Interval(2, 3)}
Multi == INSTANCE Defrag WITH
    MaxSeq <- 2, MaxSamples <- 1, BitmapMax <- 2, FragSize <- 2, Size <- 9, Width <- 3,
    DropMode <- "latest", Gaps <- UpTo(3)
Oldest == INSTANCE Defrag WITH
    MaxSeq <- 3, MaxSamples <- 2, BitmapMax <- 2, FragSize <- 2, Size <- 7, Width <- 2,
    DropMode <- "oldest", Gaps <- UpTo(4) \cup {Interval(2, 3)}

Queue == INSTANCE DeliveryQueue WITH Readers <- {DurableReader}, MaxSamples <- 2, MaxChain <- 2

\* a volatile and a late durable reader; a best-effort one, with the queue and without it;
\* the durable one with the queue
Mixed == INSTANCE ReaderSync WITH
    Readers <- {DurableReader, VolatileReader}, Durable <- {DurableReader}, BestEffort <- {},
    Synchronous <- TRUE, Replaceable <- {2}, MaxSeq <- 3, gone <- unavailable, got <- given
Loose == INSTANCE ReaderSync WITH
    Readers <- {DurableReader}, Durable <- {DurableReader}, BestEffort <- {DurableReader},
    Synchronous <- FALSE, Replaceable <- {2}, MaxSeq <- 2, gone <- unavailable, got <- given
LooseNow == INSTANCE ReaderSync WITH
    Readers <- {DurableReader}, Durable <- {DurableReader}, BestEffort <- {DurableReader},
    Synchronous <- TRUE, Replaceable <- {2}, MaxSeq <- 3, gone <- unavailable, got <- given
Queued == INSTANCE ReaderSync WITH
    Readers <- {DurableReader}, Durable <- {DurableReader}, BestEffort <- {},
    Synchronous <- FALSE, Replaceable <- {}, MaxSeq <- 2, gone <- unavailable, got <- given

\* what a participant announces, in two messages; addresses and tokens, in one
Announced == INSTANCE PList WITH
    Strings <- {"name"}, Seqs <- {"partition"},
    Locators <- {"UNICAST_LOCATOR", "DEFAULT_UNICAST_LOCATOR"}, Tokens <- {},
    Addresses <- FALSE, MaxLocators <- 1, MaxMessages <- 2
Secured == INSTANCE PList WITH
    Strings <- {"name"}, Seqs <- {"partition"},
    Locators <- {"UNICAST_LOCATOR", "DEFAULT_UNICAST_LOCATOR", "MULTICAST_LOCATOR"},
    Tokens <- {"token"}, Addresses <- TRUE, MaxLocators <- 1, MaxMessages <- 1

\* the homes of "a" and "b" are two and three of any four buckets, that of "c" is that of "a"
\* until the table grows; one thread that adds and removes while another looks up or
\* enumerates, or two in a table that is large
HashOf(k) == CASE k = "a" -> 2 [] k = "b" -> 3 [] k = "c" -> 6
Grows == INSTANCE Hopscotch WITH
    Keys <- {"a", "b", "c"}, Hash <- HashOf, NoKey <- "-", Busy <- "busy", HopRange <- 2,
    AddRange <- 4, MaxTries <- 2, InitSize <- 2, MaxSize <- 4,
    Mutators <- {"m"}, Finders <- {"f"}, Enumerators <- {}
Walked == INSTANCE Hopscotch WITH
    Keys <- {"a", "b"}, Hash <- HashOf, NoKey <- "-", Busy <- "busy", HopRange <- 2,
    AddRange <- 4, MaxTries <- 2, InitSize <- 2, MaxSize <- 4,
    Mutators <- {"m"}, Finders <- {}, Enumerators <- {"e"}
Shared == INSTANCE Hopscotch WITH
    Keys <- {"a", "b", "c"}, Hash <- HashOf, NoKey <- "-", Busy <- "busy", HopRange <- 2,
    AddRange <- 4, MaxTries <- 2, InitSize <- 4, MaxSize <- 4,
    Mutators <- {"m", "n"}, Finders <- {"f"}, Enumerators <- {}

defragVars == <<samples, maxSample, result, got>>
dqVars == <<sc, mine, nof, rdguid, keepgoing, waiting, locked, at, enqueued, handled>>
rsVars == <<seq, unavailable, lastSeq, primary, nOut, match, dq, given, twice>>
hashVars == <<arrays, th, inside>>
plistVars == <<list, heap, message, phase, address, nmsgs>>
allVars == <<setting, vars, defragVars, dqVars, rsVars, hashVars, plistVars>>
-----------------------------------------------------------------------------
AllInit ==
    /\ setting \in {"any", "tight", "single", "multi", "oldest", "queue",
                    "mixed", "loose", "loosenow", "queued", "announced", "secured",
                    "grows", "walked", "shared"}
    /\ Init /\ Single!Init /\ Queue!Init
    /\ IF setting = "mixed" THEN Mixed!Init ELSE Queued!Init
    /\ CASE setting = "walked" -> Walked!Init
         [] setting = "shared" -> Shared!Init
         [] OTHER -> Grows!Init
    /\ IF setting = "secured" THEN Secured!Init ELSE Announced!Init
    /\ setting \notin {"announced", "secured"} => heap = {}

ReorderNext == (setting = "any" /\ Next) \/ (setting = "tight" /\ Tight!Next)
DefragNext ==
    \/ setting = "single" /\ Single!Next
    \/ setting = "multi" /\ Multi!Next
    \/ setting = "oldest" /\ Oldest!Next
QueueNext == setting = "queue" /\ Queue!Next
SyncNext ==
    \/ setting = "mixed" /\ Mixed!Next
    \/ setting = "loose" /\ Loose!Next
    \/ setting = "loosenow" /\ LooseNow!Next
    \/ setting = "queued" /\ Queued!Next
LookupNext ==
    \/ setting = "grows" /\ Grows!Next
    \/ setting = "walked" /\ Walked!Next
    \/ setting = "shared" /\ Shared!Next
ListNext ==
    \/ setting = "announced" /\ Announced!Next
    \/ setting = "secured" /\ Secured!Next

AllNext ==
    /\ UNCHANGED setting
    /\ \/ ReorderNext /\ UNCHANGED <<defragVars, dqVars, rsVars, hashVars, plistVars>>
       \/ DefragNext /\ UNCHANGED <<vars, dqVars, rsVars, hashVars, plistVars>>
       \/ QueueNext /\ UNCHANGED <<vars, defragVars, rsVars, hashVars, plistVars>>
       \/ SyncNext /\ UNCHANGED <<vars, defragVars, dqVars, hashVars, plistVars>>
       \/ LookupNext /\ UNCHANGED <<vars, defragVars, dqVars, rsVars, plistVars>>
       \/ ListNext /\ UNCHANGED <<vars, defragVars, dqVars, rsVars, hashVars>>

AllSpec == AllInit /\ [][AllNext]_allVars
-----------------------------------------------------------------------------
\* Reorder, for the setting that was chosen: never more than max_samples are stored, the
\* intervals are apart, in order and cover what they claim, and the NACK bitmap asks again for
\* exactly what is missing, as far as max_samples reaches.
ReorderExact ==
    /\ IF setting = "tight" THEN Tight!TypeOK /\ Tight!NackExact ELSE TypeOK /\ NackExact
    /\ IntervalsWellFormed

\* Defrag: a sample is handed on when all its bytes are there and not before, the
\* administration never claims bytes that were not received, and asks again for the lowest
\* fragments that are missing, however fragments repeat, overlap and are dropped.
FragmentsExact ==
    /\ setting = "single" =>
          Single!TreeWellFormed /\ Single!CompleteWhenReceived /\ Single!NackNamesMissing
    /\ setting = "multi" =>
          Multi!TreeWellFormed /\ Multi!CompleteWhenReceived /\ Multi!NackNamesMissing
    /\ setting = "oldest" =>
          Oldest!TreeWellFormed /\ Oldest!CompleteWhenReceived /\ Oldest!NackNamesMissing

\* DeliveryQueue: what receive threads enqueue for all readers or for one is handed on in
\* order and to those, the count of samples is exact and no wakeup of its thread is lost.
QueueExact == setting = "queue" => Queue!InOrderToTheRight /\ Queue!CountExactWakeupsSeen

\* ReaderSync: a reader that catches up with an administration of its own and then shares
\* that of the proxy writer misses nothing it acknowledges at the switch, and gets nothing
\* twice when samples are delivered at once.
NothingMissedOrTwice ==
    CASE setting = "mixed" -> Mixed!AcknowledgedWasDelivered /\ Mixed!DeliveredOnce
      [] setting = "loose" -> Loose!AcknowledgedWasDelivered /\ Loose!DeliveredOnce
      [] setting = "loosenow" -> LooseNow!AcknowledgedWasDelivered /\ LooseNow!DeliveredOnce
      [] setting = "queued" -> Queued!AcknowledgedWasDelivered /\ Queued!DeliveredOnce
      [] OTHER -> TRUE

\* Hopscotch: a lookup without locks finds what is in the table all the while and nothing
\* else, while elements are added, removed and moved and the table grows; an enumeration
\* visits all, provided that none is moved.
LookupsSafe ==
    /\ setting = "grows" => Grows!LookupsTrue /\ Grows!EachOnce
    /\ setting = "walked" => Walked!EachOnce /\ Walked!VisitsAll
    /\ setting = "shared" => Shared!LookupsTrue /\ Shared!EachOnce

\* PList: what is decoded, merged with the defaults and kept with a proxy is freed once,
\* nothing of it is lost, and no pointer into a message is kept when the message goes.
ListsOwnTheirMemory ==
    /\ setting = "announced" =>
          Announced!EachHasItsOwn /\ Announced!NothingLost /\ Announced!NoAliasKept
    /\ setting = "secured" => Secured!NoAliasKept
=============================================================================
