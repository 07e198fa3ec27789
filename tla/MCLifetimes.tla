----------------------------- MODULE MCLifetimes ------------------------------
(* What keeps an object alive while it is used, one mechanism per          *)
(* behaviour: the virtual times of the garbage collector, the counts of    *)
(* the key map, handles and entities, the lists of wait sets, the leases   *)
(* of proxy participants, their counts of endpoints, the matches of        *)
(* readers and writers, the states of a writer that is closed, and the     *)
(* counts of received messages and their buffers.  The setting says which  *)
(* of them runs; the others stay as they were created.                     *)
(* The constants of the .cfg are those of the wait set and the objects of  *)
(* the garbage collector.                                                  *)
EXTENDS WaitSet

CONSTANTS pwr, rdr, none     \* a proxy writer, a reader; neither

VARIABLES setting,
          \* GarbageCollector
          vtime, holds, findable, pc, target, pos, waits, queue, count, gcPc, current, dq,
          flushed, gcFreed, stopping,
          \* KeyMap
          table, key, refc, deleted, kept, kmAt, tk, wanted, kmLocked, kmWaiting, vtimes,
          asked, used, kmFreed,
          \* Entities
          enFreed, link, cnt, m_refc, m_cb_count, holder, enAsleep, children, ddsi, stack,
          \* Lease
          now, hash, leKnown, priv, lease, owns, tend, tsched, leRequests, leFreed, leAt, del,
          pp, loaded, cursor,
          \* WriterLifecycle
          state, wrKnown, unacked, high, retransmitting, throttling, wrWaiting, wrAt, call,
          slept, wrClosed, timer, wrRequests,
          \* Discovery
          pps, eps, ppHash, epHash, black, diRequests, diFreed, diAt, msg, diPp, todo,
          \* Matching
          maHash, created, maDeleted, maFreed, matches, rdary, valid, reliable, reported,
          deleting, acked, maRequests, gc, maAt, ent, peer, unseen, pretend,
          \* ReceiveBuffers
          refcount, gone, chunks, live, freeptr, rbCurrent, n, rbPc, subs, sample, defrag, adm,
          rbKnown, rbQueue, release

gcVars == <<vtime, holds, findable, pc, target, pos, waits, queue, count, gcPc, current, dq,
            flushed, gcFreed, stopping>>
kmVars == <<table, key, refc, deleted, kept, kmAt, tk, wanted, kmLocked, kmWaiting, vtimes,
            asked, used, kmFreed>>
enVars == <<enFreed, link, cnt, m_refc, m_cb_count, holder, enAsleep, children, ddsi, stack>>
leVars == <<now, hash, leKnown, priv, lease, owns, tend, tsched, leRequests, leFreed, leAt, del,
            pp, loaded, cursor>>
wrVars == <<state, wrKnown, unacked, high, retransmitting, throttling, wrWaiting, wrAt, call,
            slept, wrClosed, timer, wrRequests>>
diVars == <<pps, eps, ppHash, epHash, black, diRequests, diFreed, diAt, msg, diPp, todo>>
maVars == <<maHash, created, maDeleted, maFreed, matches, rdary, valid, reliable, reported,
            deleting, acked, maRequests, gc, maAt, ent, peer, unseen, pretend>>
rbVars == <<refcount, gone, chunks, live, freeptr, rbCurrent, n, rbPc, subs, sample, defrag, adm,
            rbKnown, rbQueue, release>>
allVars == <<setting, gcVars, kmVars, enVars, wsVars, leVars, wrVars, diVars, maVars, rbVars>>

\* one thread beside the gc thread and that of the delivery queue but several objects; or
\* two such threads, the proxy writer only and a longer delivery queue
Gc == INSTANCE GarbageCollector WITH
    N <- 3, Objects <- {pwr, rdr}, ProxyWriters <- {pwr}, NoObj <- none, Half <- 2, MaxDq <- 0,
    freed <- gcFreed
Crowd == INSTANCE GarbageCollector WITH
    N <- 4, Objects <- {pwr}, ProxyWriters <- {pwr}, NoObj <- none, Half <- 2, MaxDq <- 2,
    freed <- gcFreed

Map == INSTANCE KeyMap WITH
    Threads <- {"t1", "t2"}, Keys <- {"k"}, Entries <- 1 .. 3, NoEntry <- 0, MaxRefs <- 2,
    at <- kmAt, locked <- kmLocked, waiting <- kmWaiting, freed <- kmFreed

\* two applications delete the reader, whose subscriber goes with it, or the subscriber
DeleteReader == INSTANCE Entities WITH
    Reader <- "rd", Subscriber <- "sub", Apps <- {"a", "b"}, Receivers <- {"r"},
    Deletable <- {"rd"}, Implicit <- TRUE, freed <- enFreed, asleep <- enAsleep
DeleteSubscriber == INSTANCE Entities WITH
    Reader <- "rd", Subscriber <- "sub", Apps <- {"a", "b"}, Receivers <- {"r"},
    Deletable <- {"sub"}, Implicit <- FALSE, freed <- enFreed, asleep <- enAsleep

\* a participant that depends on a service, or that a discovery service has reported
Ddsi2 == INSTANCE Lease WITH
    Participants <- 1 .. 2, Service <- 2, Receivers <- {"r"}, Cloud <- FALSE, Dur <- 1,
    MaxTime <- 2, known <- leKnown, requests <- leRequests, freed <- leFreed, at <- leAt
Reported == INSTANCE Lease WITH
    Participants <- 1 .. 2, Service <- 2, Receivers <- {"r"}, Cloud <- TRUE, Dur <- 1,
    MaxTime <- 2, known <- leKnown, requests <- leRequests, freed <- leFreed, at <- leAt

\* the lingering of a closed writer has no time limit, which is the default
Writer == INSTANCE WriterLifecycle WITH
    Writing <- {"w1", "w2"}, Receiving <- {"r"}, Low <- 1, Mark <- 2, Adaptive <- TRUE,
    PrioritizeRetransmit <- TRUE, Timer <- FALSE,
    known <- wrKnown, waiting <- wrWaiting, at <- wrAt, closed <- wrClosed, requests <- wrRequests

\* a participant that SPDP announces, or that SEDP data of a discovery service bring about
Announced == INSTANCE Discovery WITH
    User <- {"w"}, Builtin <- {"b"}, Cloud <- FALSE, MaxPp <- 2, MaxEp <- 4,
    requests <- diRequests, freed <- diFreed, at <- diAt, pp <- diPp
Implied == INSTANCE Discovery WITH
    User <- {"w"}, Builtin <- {"b"}, Cloud <- TRUE, MaxPp <- 2, MaxEp <- 4,
    requests <- diRequests, freed <- diFreed, at <- diAt, pp <- diPp

\* a writer and two readers, one of which asks for another reliability; a reader and two
\* proxy writers; a writer and a proxy reader that is announced twice
Policies(reliability, partition) ==
    [topic_name |-> "t", type_name |-> "s", relaxed |-> FALSE, reliability |-> reliability,
     deadline |-> 1, ownership |-> 0, partition |-> partition]
LocalMatch == INSTANCE Matching WITH
    Writers <- {"w"}, Readers <- {"r", "s"}, ProxyWriters <- {}, ProxyReaders <- {},
    Guid <- [w |-> "w", r |-> "r", s |-> "s"], Wild <- {<<"*", "x">>}, OnlyLocal <- {"w"},
    Qos <- [w |-> Policies(0, {"x"}), r |-> Policies(0, {"*"}), s |-> Policies(1, {"x"})],
    Handles <- [t |-> {"w", "r", "s"}, u |-> {"w", "r"}],
    hash <- maHash, deleted <- maDeleted, freed <- maFreed, requests <- maRequests,
    at <- maAt, todo <- unseen
WriterMatch == INSTANCE Matching WITH
    Writers <- {}, Readers <- {"r"}, ProxyWriters <- {"p", "p2"}, ProxyReaders <- {},
    Guid <- [r |-> "r", p |-> "p", p2 |-> "p2"], Wild <- {}, OnlyLocal <- {},
    Qos <- [r |-> Policies(1, {}), p |-> Policies(1, {}), p2 |-> Policies(1, {""})],
    Handles <- [t |-> {"r"}, u |-> {"p", "p2"}],
    hash <- maHash, deleted <- maDeleted, freed <- maFreed, requests <- maRequests,
    at <- maAt, todo <- unseen
ReaderMatch == INSTANCE Matching WITH
    Writers <- {"w"}, Readers <- {}, ProxyWriters <- {}, ProxyReaders <- {"q", "q2"},
    Guid <- [w |-> "w", q |-> "q", q2 |-> "q"], Wild <- {}, OnlyLocal <- {},
    Qos <- [w |-> Policies(1, {}), q |-> Policies(1, {}), q2 |-> Policies(0, {})],
    Handles <- [t |-> {"w"}, u |-> {"q", "q2"}],
    hash <- maHash, deleted <- maDeleted, freed <- maFreed, requests <- maRequests,
    at <- maAt, todo <- unseen

\* one reader that is out of sync; no reliable reader and delivery by the receive thread;
\* large samples, and a message for each fragment
LateReader == INSTANCE ReceiveBuffers WITH
    Late <- {"r"}, Synchronous <- FALSE, Reliable <- TRUE, Large <- {1}, MaxSeq <- 3,
    MaxStored <- 1, MaxMsgs <- 2, MaxSubs <- 2, BufSize <- 3, ChunkSize <- 2,
    current <- rbCurrent, pc <- rbPc, known <- rbKnown, queue <- rbQueue, todo <- release
AtOnce == INSTANCE ReceiveBuffers WITH
    Late <- {}, Synchronous <- TRUE, Reliable <- FALSE, Large <- {1, 2}, MaxSeq <- 3,
    MaxStored <- 1, MaxMsgs <- 2, MaxSubs <- 2, BufSize <- 3, ChunkSize <- 2,
    current <- rbCurrent, pc <- rbPc, known <- rbKnown, queue <- rbQueue, todo <- release
Fragmented == INSTANCE ReceiveBuffers WITH
    Late <- {}, Synchronous <- FALSE, Reliable <- TRUE, Large <- {1, 2}, MaxSeq <- 3,
    MaxStored <- 1, MaxMsgs <- 3, MaxSubs <- 1, BufSize <- 3, ChunkSize <- 2,
    current <- rbCurrent, pc <- rbPc, known <- rbKnown, queue <- rbQueue, todo <- release
-----------------------------------------------------------------------------
Settings == {"gc", "crowd", "map", "reader", "subscriber", "waitset", "ddsi2", "cloud", "writer",
             "announced", "implied", "local match", "writer match", "reader match",
             "late reader", "at once", "fragmented"}

AllInit ==
    /\ setting \in Settings
    /\ IF setting = "crowd" THEN Crowd!Init ELSE Gc!Init
    /\ Init /\ Map!Init /\ DeleteReader!Init /\ Ddsi2!Init /\ Writer!Init
    /\ Announced!Init
    /\ CASE setting = "writer match" -> WriterMatch!Init
         [] setting = "reader match" -> ReaderMatch!Init
         [] OTHER -> LocalMatch!Init
    /\ CASE setting = "at once" -> AtOnce!Init
         [] setting = "fragmented" -> Fragmented!Init
         [] OTHER -> LateReader!Init

GcNext == (setting = "gc" /\ Gc!Next) \/ (setting = "crowd" /\ Crowd!Next)
EntitiesNext ==
    \/ setting = "reader" /\ DeleteReader!Next
    \/ setting = "subscriber" /\ DeleteSubscriber!Next
LeaseNext == (setting = "ddsi2" /\ Ddsi2!Next) \/ (setting = "cloud" /\ Reported!Next)
DiscoveryNext ==
    \/ setting = "announced" /\ Announced!Next
    \/ setting = "implied" /\ Implied!Next
MatchNext ==
    \/ setting = "local match" /\ LocalMatch!Next
    \/ setting = "writer match" /\ WriterMatch!Next
    \/ setting = "reader match" /\ ReaderMatch!Next
BuffersNext ==
    \/ setting = "late reader" /\ LateReader!Next
    \/ setting = "at once" /\ AtOnce!Next
    \/ setting = "fragmented" /\ Fragmented!Next

AllNext ==
    /\ UNCHANGED setting
    /\ \/ /\ GcNext
          /\ UNCHANGED <<kmVars, enVars, wsVars, leVars, wrVars, diVars, maVars, rbVars>>
       \/ /\ setting = "map" /\ Map!Next
          /\ UNCHANGED <<gcVars, enVars, wsVars, leVars, wrVars, diVars, maVars, rbVars>>
       \/ /\ EntitiesNext
          /\ UNCHANGED <<gcVars, kmVars, wsVars, leVars, wrVars, diVars, maVars, rbVars>>
       \/ /\ setting = "waitset" /\ Next
          /\ UNCHANGED <<gcVars, kmVars, enVars, leVars, wrVars, diVars, maVars, rbVars>>
       \/ /\ LeaseNext
          /\ UNCHANGED <<gcVars, kmVars, enVars, wsVars, wrVars, diVars, maVars, rbVars>>
       \/ /\ setting = "writer" /\ Writer!Next
          /\ UNCHANGED <<gcVars, kmVars, enVars, wsVars, leVars, diVars, maVars, rbVars>>
       \/ /\ DiscoveryNext
          /\ UNCHANGED <<gcVars, kmVars, enVars, wsVars, leVars, wrVars, maVars, rbVars>>
       \/ /\ MatchNext
          /\ UNCHANGED <<gcVars, kmVars, enVars, wsVars, leVars, wrVars, diVars, rbVars>>
       \/ /\ BuffersNext
          /\ UNCHANGED <<gcVars, kmVars, enVars, wsVars, leVars, wrVars, diVars, maVars>>

AllSpec == AllInit /\ [][AllNext]_allVars
-----------------------------------------------------------------------------
\* GarbageCollector's NoDangling and CleanExit in either setting: no thread and no queued
\* sample has a pointer to what was freed, and the gc thread ends with nothing left to free.
GcSafe ==
    /\ setting = "gc" => Gc!NoDangling /\ Gc!CleanExit
    /\ setting = "crowd" => Crowd!NoDangling /\ Crowd!CleanExit

\* KeyMap: the samples of one key have one instance, whatever is found, created and dropped
\* at the same time, and no instance is freed while it is used.
InstancesUnique == setting = "map" => Map!OneEntryPerKey /\ Map!FreedUnused

\* Entities: an entity is not freed while a call or a listener uses it, and no listener of
\* it is called any more once it is closed.
EntitiesSafe ==
    /\ setting = "reader" => DeleteReader!FreedUnused /\ DeleteReader!ListenersDoneWhenClosed
    /\ setting = "subscriber" =>
          DeleteSubscriber!FreedUnused /\ DeleteSubscriber!ListenersDoneWhenClosed

\* WriterLifecycle: a closed writer is given to the gc thread once, not while a thread waits
\* in it, and freed while only a thread that slept in it can still use it; and nobody sleeps on
\* when what it waits for has happened.
WriterSafe ==
    setting = "writer" =>
       /\ Writer!DeletedOnce /\ Writer!NotWhileThrottling /\ Writer!FreedWhileAsleep
       /\ Writer!NothingMissed

\* Lease and Discovery: every lease that can run out will be looked at in time, nothing is
\* left that depends on a service that is gone, and a proxy participant is freed with the last
\* of its endpoints and not before, however announcements, withdrawals and leases cross.
ProxiesSafe ==
    /\ setting = "ddsi2" => Ddsi2!Scheduled /\ Ddsi2!NoOrphan
    /\ setting = "cloud" => Reported!Scheduled
    /\ setting = "announced" => Announced!ParticipantOutlives
    /\ setting = "implied" => Implied!ParticipantOutlives

\* ReceiveBuffers: nothing that a thread still has to read is freed or overwritten, and the
\* counts of messages and buffers are at any moment what the references add up to.
BuffersSafe ==
    /\ setting = "late reader" => LateReader!MemoryHeld /\ LateReader!CountsBalance
    /\ setting = "at once" => AtOnce!MemoryHeld /\ AtOnce!CountsBalance
    /\ setting = "fragmented" => Fragmented!MemoryHeld /\ Fragmented!CountsBalance

\* Matching: readers and writers that exist and agree are matched with each other, whatever is
\* created and deleted at the same time; nobody delivers to a reader that was freed, and what
\* is freed is left alone.
MatchesAgree ==
    /\ setting = "local match" =>
          /\ LocalMatch!MatchedBothWays /\ LocalMatch!DeliversToLiving
          /\ LocalMatch!TornDownAlone /\ LocalMatch!CountsAgree
    /\ setting = "writer match" =>
          /\ WriterMatch!MatchedBothWays /\ WriterMatch!DeliversToLiving
          /\ WriterMatch!TornDownAlone /\ WriterMatch!CountsAgree
    /\ setting = "reader match" =>
          /\ ReaderMatch!MatchedBothWays /\ ReaderMatch!TornDownAlone
          /\ ReaderMatch!CountsAgree
=============================================================================
