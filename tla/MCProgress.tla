------------------------------ MODULE MCProgress ------------------------------
(* What must happen in the end under fair scheduling, one mechanism per    *)
(* behaviour: the garbage collector, whose constants are those of the      *)
(* .cfg, the delivery queue, the key map, a writer whose history is full,   *)
(* and the event queue with timed events or with retransmits.  The setting *)
(* says which of them runs; the others stay as they were created.  (The    *)
(* reliable protocol has a run of its own.)                                *)
EXTENDS GarbageCollector

VARIABLES setting,
          sc, mine, nof, rdguid, keepgoing, dqWaiting, dqLocked, dqAt, enqueued, handled,
          table, key, refc, deleted, kept, kmAt, tk, wanted, kmLocked, kmWaiting, vtimes,
          asked, used, kmFreed,
          state, known, unacked, high, retransmitting, throttling, wrWaiting, wrAt, call,
          slept, closed, timer, requests,
          now, tsched, xevents, made, ended, evFreed, untimed, msgXevents, msgs, terminate,
          evAt, hand, msg, pack, wakeup, signalled, evKnown, calls, owed

qVars == <<sc, mine, nof, rdguid, keepgoing, dqWaiting, dqLocked, dqAt, enqueued, handled>>
kmVars == <<table, key, refc, deleted, kept, kmAt, tk, wanted, kmLocked, kmWaiting, vtimes,
            asked, used, kmFreed>>
wrVars == <<state, known, unacked, high, retransmitting, throttling, wrWaiting, wrAt, call,
            slept, closed, timer, requests>>
evVars == <<now, tsched, xevents, made, ended, evFreed, untimed, msgXevents, msgs, terminate,
            evAt, hand, msg, pack, wakeup, signalled, evKnown, calls, owed>>
allVars == <<setting, vars, qVars, kmVars, wrVars, evVars>>

Queue == INSTANCE DeliveryQueue WITH
    Recv <- {"r", "s"}, Readers <- {"rd"}, MaxSamples <- 1, MaxChain <- 1, MaxEnqueued <- 2,
    waiting <- dqWaiting, locked <- dqLocked, at <- dqAt
Map == INSTANCE KeyMap WITH
    Threads <- {"t1", "t2"}, Keys <- {"k"}, Entries <- 1 .. 3, NoEntry <- 0, MaxRefs <- 1,
    at <- kmAt, locked <- kmLocked, waiting <- kmWaiting, freed <- kmFreed
Writer == INSTANCE WriterLifecycle WITH
    Writing <- {"w"}, Receiving <- {"r"}, Low <- 1, Mark <- 3, Adaptive <- TRUE,
    PrioritizeRetransmit <- TRUE, Timer <- TRUE, waiting <- wrWaiting, at <- wrAt
\* two events of a writer or participant, one of them handled only once ...
Timed == INSTANCE EventQueue WITH
    Owned <- {"hb"}, Once <- {"once"}, Samples <- {}, Nodes <- {}, Found <- FALSE,
    MaxMsgs <- 1, MaxTime <- 1, MaxCalls <- 1, pc <- evAt, freed <- evFreed, known <- evKnown
\* ... or retransmits to two nodes, one at a time
Rexmit == INSTANCE EventQueue WITH
    Owned <- {}, Once <- {}, Samples <- {"s", "t"}, Nodes <- {"a", "b"}, Found <- TRUE,
    MaxMsgs <- 1, MaxTime <- 0, MaxCalls <- 3, pc <- evAt, freed <- evFreed, known <- evKnown
-----------------------------------------------------------------------------
AllInit ==
    /\ setting \in {"gc", "queue", "map", "writer", "timed", "rexmit"}
    /\ Init /\ Queue!Init /\ Map!Init /\ Writer!Init
    /\ IF setting = "rexmit" THEN Rexmit!Init ELSE Timed!Init

AllNext ==
    /\ UNCHANGED setting
    /\ \/ setting = "gc" /\ Next /\ Unhurried /\ UNCHANGED <<qVars, kmVars, wrVars, evVars>>
       \/ setting = "queue" /\ Queue!Next /\ UNCHANGED <<vars, kmVars, wrVars, evVars>>
       \/ setting = "map" /\ Map!Next /\ UNCHANGED <<vars, qVars, wrVars, evVars>>
       \/ setting = "writer" /\ Writer!Next /\ UNCHANGED <<vars, qVars, kmVars, evVars>>
       \/ setting = "timed" /\ Timed!Next /\ UNCHANGED <<vars, qVars, kmVars, wrVars>>
       \/ setting = "rexmit" /\ Rexmit!Next /\ UNCHANGED <<vars, qVars, kmVars, wrVars>>

\* the fairness of each module, for the one that runs
GcFairness ==
    /\ \A t \in Threads :
          /\ WF_vars(setting = "gc" /\ Awake(t) /\ (Wake(t) \/ Sleep(t)) /\ Unhurried)
          /\ WF_vars(setting = "gc" /\ (Gather(t) \/ Count(t) \/ Enqueue(t)))
    /\ WF_vars(setting = "gc" /\ (DqData \/ DqBubble \/ DqSleep) /\ Unhurried)
    /\ WF_vars(/\ setting = "gc"
               /\ \/ GcTake \/ GcExit \/ GcLeased \/ GcReady \/ GcCallback \/ GcNotYet
                  \/ \E u \in Threads : GcPassed(u)
               /\ Unhurried)
    /\ WF_vars(setting = "gc" /\ StopEnqueue)

QueueFairness ==
    /\ WF_qVars(setting = "queue" /\ Queue!DqThread)
    /\ \A r \in {"r", "s"} : WF_qVars(setting = "queue" /\ Queue!Wait(r))

MapFairness == \A t \in {"t1", "t2"} : WF_kmVars(setting = "map" /\ Map!Continue(t))

WriterFairness ==
    /\ SF_wrVars(setting = "writer" /\ (Writer!WriteFree("w") \/ Writer!Throttle("w")))
    /\ WF_wrVars(setting = "writer" /\ (\/ Writer!Wait("w") \/ Writer!Resume("w")
                                        \/ Writer!Transmit("w") \/ Writer!Deliver("w")))
    /\ WF_wrVars(setting = "writer" /\ Writer!LookUp("r"))
    /\ SF_wrVars(setting = "writer" /\ Writer!AcksArrive)
    /\ WF_wrVars(setting = "writer" /\ (Writer!Delete \/ Writer!TimerFires \/ Writer!TimerDeletes))
    /\ WF_wrVars(setting = "writer" /\ Writer!GcThread)

EventFairness ==
    /\ WF_evVars(setting = "timed" /\ (Timed!Thread \/ Timed!Tick))
    /\ WF_evVars(setting = "rexmit" /\ Rexmit!Thread)

AllSpec ==
    /\ AllInit /\ [][AllNext]_allVars
    /\ GcFairness /\ QueueFairness /\ MapFairness /\ WriterFairness /\ EventFairness
-----------------------------------------------------------------------------
\* GarbageCollector: what was taken from the hash table is freed in the end, and whoever stops
\* the gc thread gets to the end of it.
CollectsInTheEnd == EventuallyFreed /\ StopsInTheEnd

\* DeliveryQueue: what is enqueued is handed on in the end: the thread of the queue misses
\* no wakeup, whatever receive threads do.
HandedOnInTheEnd == Queue!HandedOnInTheEnd

\* KeyMap: a thread that found a deleted instance gets a fresh one in the end.
FindsInTheEnd == Map!FindsInTheEnd

\* WriterLifecycle: a blocked write returns once all is acknowledged or the writer is
\* deleted, and a closed writer is freed, although each waits for the other's broadcast.
WriterProceeds == Writer!BlockedReturns /\ Writer!FreedInTheEnd

\* EventQueue: heap, list, index and counts agree, what was freed is not used, every reader
\* that was promised a retransmit is served by a message that waits, and no wakeup is missed.
EventsSafe == IF setting = "rexmit" THEN Rexmit!EventsSafe ELSE Timed!EventsSafe

\* EventQueue: events that are due are handled, deleted ones freed, and what was promised is
\* sent, until the thread is told to stop, and then it does.
EventsInTheEnd == Timed!EventsInTheEnd /\ Rexmit!EventsInTheEnd
=============================================================================
