-------------------------- MODULE GarbageCollector --------------------------
(***************************************************************************)
(* Deferred deletion of protocol entities (q_gc.c, q_thread.c).  Threads   *)
(* use pointers they looked up without locking or counting references;     *)
(* each has a virtual time, even while the thread is awake, that it bumps  *)
(* when it no longer uses what it looked up.  Who deletes an entity takes  *)
(* it out of the hash table, records the virtual times of all that are     *)
(* awake (gcreq_new), and queues a request; the gc thread runs the request *)
(* once all those have moved on.                                           *)
(*                                                                         *)
(* The delivery queue (q_radmin.c, nn_dqueue) holds pointers to proxy      *)
(* writers that no virtual time protects: the request of a proxy writer    *)
(* travels through that queue before the gc thread frees it (q_entity.c).  *)
(*                                                                         *)
(* One action is one critical section or one access to shared memory.      *)
(*                                                                         *)
(* A definition named X_slip... is a wrong variant of X that nothing uses  *)
(* (README, "Sensitivity").                                                *)
(***************************************************************************)
EXTENDS Integers, Sequences

CONSTANTS
    N,             \* threads 1..N: gc, delivery queue, and others
    Objects,       \* what can be looked up and is deleted through the gc thread
    ProxyWriters,  \* of those, the ones that samples in the delivery queue refer to
    NoObj,         \* no object
    Half,          \* virtual times wrap around at 2 * Half (2^31)
    MaxDq          \* bound of the model: length of the delivery queue

ASSUME GcAssumption ==
    /\ N \in Nat /\ N >= 2
    /\ ProxyWriters \subseteq Objects /\ NoObj \notin Objects
    /\ Half \in Nat \ {0} /\ MaxDq \in Nat

Threads == 1..N
Gc == 1          \* the gc thread
Dq == 2          \* the thread of the delivery queue
Vtimes == 0..2 * Half - 1
Passed == -1     \* no need to wait for this thread, or no longer
NoOp == NoObj    \* the request of gcreq_queue_free has no object

VARIABLES
    vtime,     \* per thread: thread_state1.vtime
    holds,     \* per thread: the objects it has pointers to
    findable,  \* the objects in the hash table
    pc,        \* per thread: "run", or "gather" and "enqueue" while it deletes ...
    target,    \* ... this object ...
    pos,       \* ... and looks at this thread's vtime
    waits,     \* per object: gcreq->vtimes, per thread a vtime or Passed
    queue,     \* gcreq_queue: first .. last
    count,     \* gcreq_queue->count
    gcPc,      \* the gc thread: "take", "lease", "check", "callback", "exited"
    current,   \* the request it waits for, if any: a set of at most one object
    dq,        \* delivery queue: samples and bubbles, each with an object
    flushed,   \* history: the objects whose bubble was handled: gcreq->cb is the last phase
    freed,     \* history: the objects that were freed
    stopping   \* "no", "waiting" in gcreq_queue_free, "enqueued" the no-op

vars == <<vtime, holds, findable, pc, target, pos, waits, queue, count, gcPc, current,
          dq, flushed, freed, stopping>>

----------------------------------------------------------------------------
\* Virtual time

AwakeV(v) == v % 2 = 0
Awake(t) == AwakeV(vtime[t])

\* v + n as an unsigned integer that wraps around
Plus(v, n) == IF v + n < 2 * Half THEN v + n ELSE v + n - 2 * Half

VtimeGt_slipOrEqual(v, w) == v >= w \/ w - v > Half

\* vtime_gt: (svtime_t)(v - w) > 0
VtimeGt(v, w) == (v > w /\ v - w < Half) \/ (v < w /\ w - v > Half)

\* thread_state_awake: a thread that is awake already announces progress
WakeUp(t) == vtime' = [vtime EXCEPT ![t] = Plus(@, IF AwakeV(@) THEN 2 ELSE 1)]

\* thread_state_asleep
FallAsleep(t) == vtime' = [vtime EXCEPT ![t] = Plus(@, IF AwakeV(@) THEN 1 ELSE 2)]

\* what was looked up is no longer used
LetGo(t) == holds' = [holds EXCEPT ![t] = {}]

----------------------------------------------------------------------------
\* Any thread

Others == Threads \ {Gc, Dq}

\* the gc thread uses entities when it handles leases, that of the delivery queue when
\* it handles a sample
Using(t) == pc[t] = "run" /\ Awake(t) /\ (t = Gc => gcPc = "lease")

gcVars == <<queue, count, gcPc, current, flushed, freed, stopping>>
delVars == <<pc, target, pos, waits>>

\* between two messages, calls or events
Wake(t) ==
    /\ t \in Others /\ pc[t] = "run"
    /\ WakeUp(t) /\ LetGo(t)
    /\ UNCHANGED <<findable, dq, delVars, gcVars>>

Sleep(t) ==
    /\ t \in Others /\ pc[t] = "run" /\ Awake(t)
    /\ FallAsleep(t) /\ LetGo(t)
    /\ UNCHANGED <<findable, dq, delVars, gcVars>>

\* ephash_lookup_..._guid, with the assertion that the thread is awake
Lookup(t, o) ==
    /\ Using(t) /\ o \in findable
    /\ holds' = [holds EXCEPT ![t] = @ \cup {o}]
    /\ UNCHANGED <<vtime, findable, dq, delVars, gcVars>>

\* delete_proxy_writer and the like: looked up and removed under gv.lock, and then
\* gcreq_new
Remove(t, o) ==
    /\ Using(t) /\ o \in findable /\ stopping = "no"
    /\ findable' = findable \ {o}
    /\ holds' = [holds EXCEPT ![t] = @ \cup {o}]
    /\ pc' = [pc EXCEPT ![t] = "gather"] /\ target' = [target EXCEPT ![t] = o]
    /\ pos' = [pos EXCEPT ![t] = 1]
    /\ UNCHANGED <<vtime, waits, dq, gcVars>>

\* threads_vtime_gather_for_wait reads one virtual time after the other; gcreq_new then
\* counts the request
Gather(t) ==
    LET u == pos[t] IN
    /\ pc[t] = "gather" /\ u <= N
    /\ waits' = [waits EXCEPT ![target[t]][u] = IF Awake(u) THEN vtime[u] ELSE Passed]
    /\ pos' = [pos EXCEPT ![t] = u + 1]
    /\ UNCHANGED <<vtime, holds, findable, pc, target, dq, gcVars>>

Count(t) ==
    /\ pc[t] = "gather" /\ pos[t] = N + 1
    /\ pc' = [pc EXCEPT ![t] = "enqueue"]
    /\ count' = count + 1
    /\ UNCHANGED <<vtime, holds, findable, target, pos, waits, queue, gcPc, current, dq,
                   flushed, freed, stopping>>

\* gcreq_enqueue
Enqueue(t) ==
    /\ pc[t] = "enqueue"
    /\ queue' = Append(queue, target[t])
    /\ pc' = [pc EXCEPT ![t] = "run"] /\ target' = [target EXCEPT ![t] = NoObj]
    /\ pos' = [pos EXCEPT ![t] = 1]
    /\ UNCHANGED <<vtime, holds, findable, waits, count, gcPc, current, dq,
                   flushed, freed, stopping>>

\* a receive thread hands a sample of proxy writer o to the delivery queue
Deliver(t, o) ==
    /\ t \in Others /\ Using(t) /\ o \in holds[t] \cap ProxyWriters
    /\ Len(dq) < MaxDq
    /\ dq' = Append(dq, [kind |-> "data", obj |-> o])
    /\ UNCHANGED <<vtime, holds, findable, delVars, gcVars>>

----------------------------------------------------------------------------
\* dqueue_thread

DqData ==
    /\ ~Awake(Dq) /\ dq # <<>> /\ Head(dq).kind = "data"
    /\ WakeUp(Dq) /\ holds' = [holds EXCEPT ![Dq] = {Head(dq).obj}]
    /\ dq' = Tail(dq)
    /\ UNCHANGED <<findable, delVars, gcVars>>

DqBubble_slipSamePhase ==
    /\ ~Awake(Dq) /\ dq # <<>> /\ Head(dq).kind = "bubble"
    /\ WakeUp(Dq)
    /\ dq' = Tail(dq)
    /\ queue' = Append(queue, Head(dq).obj)
    /\ UNCHANGED <<holds, findable, delVars, count, flushed, gcPc, current, freed, stopping>>

DqBubble_slipNewRequest ==
    /\ ~Awake(Dq) /\ dq # <<>> /\ Head(dq).kind = "bubble"
    /\ WakeUp(Dq)
    /\ dq' = Tail(dq)
    /\ queue' = Append(queue, Head(dq).obj)
    /\ flushed' = flushed \cup {Head(dq).obj}
    /\ count' = count + 1
    /\ UNCHANGED <<holds, findable, delVars, gcPc, current, freed, stopping>>

\* gc_delete_proxy_writer_dqueue_bubble_cb: requeued as it is, without looking at the
\* virtual times again
DqBubble ==
    /\ ~Awake(Dq) /\ dq # <<>> /\ Head(dq).kind = "bubble"
    /\ WakeUp(Dq)
    /\ dq' = Tail(dq)
    /\ queue' = Append(queue, Head(dq).obj)
    /\ flushed' = flushed \cup {Head(dq).obj}
    /\ UNCHANGED <<holds, findable, delVars, count, gcPc, current, freed, stopping>>

DqSleep ==
    /\ pc[Dq] = "run" /\ Awake(Dq)
    /\ FallAsleep(Dq) /\ LetGo(Dq)
    /\ UNCHANGED <<findable, dq, delVars, gcVars>>

----------------------------------------------------------------------------
\* gcreq_queue_thread

\* the head of its loop: a request is taken unless it waits for one already, or nothing
\* comes in for a while; it then looks after leases
GcTake ==
    /\ gcPc = "take" /\ ~(stopping # "no" /\ count = 0)
    /\ IF current = {} /\ queue # <<>>
       THEN current' = {Head(queue)} /\ queue' = Tail(queue)
       ELSE UNCHANGED <<current, queue>>
    /\ WakeUp(Gc) /\ gcPc' = "lease"
    /\ UNCHANGED <<holds, findable, dq, delVars, count, flushed, freed, stopping>>

GcExit ==
    /\ gcPc = "take" /\ stopping # "no" /\ count = 0
    /\ gcPc' = "exited"
    /\ UNCHANGED <<vtime, holds, findable, dq, delVars, queue, count, current, flushed,
                   freed, stopping>>

\* check_and_handle_lease_expiration is done
GcLeased ==
    /\ gcPc = "lease" /\ pc[Gc] = "run"
    /\ FallAsleep(Gc) /\ LetGo(Gc)
    /\ gcPc' = IF current = {} THEN "take" ELSE "check"
    /\ UNCHANGED <<findable, dq, delVars, queue, count, current, flushed, freed, stopping>>

\* whether thread u has made progress since the request for o was made
HasPassed(o, u) == waits[o][u] # Passed /\ VtimeGt(vtime[u], waits[o][u])

Requested == current \ {NoOp}   \* the no-op depends on no thread

\* threads_vtime_check, for one thread that has made progress
GcPassed(u) ==
    /\ gcPc = "check"
    /\ \E o \in Requested : HasPassed(o, u) /\ waits' = [waits EXCEPT ![o][u] = Passed]
    /\ UNCHANGED <<vtime, holds, findable, dq, pc, target, pos, gcVars>>

Ready == \A o \in Requested, u \in Threads : waits[o][u] = Passed

\* all were looked at, and some have made no progress: try again later
GcNotYet ==
    /\ gcPc = "check" /\ ~Ready
    /\ \A o \in Requested, u \in Threads : ~HasPassed(o, u)
    /\ gcPc' = "take"
    /\ UNCHANGED <<vtime, holds, findable, dq, delVars, queue, count, current, flushed,
                   freed, stopping>>

GcReady ==
    /\ gcPc = "check" /\ Ready
    /\ WakeUp(Gc) /\ gcPc' = "callback"
    /\ UNCHANGED <<holds, findable, dq, delVars, queue, count, current, flushed, freed,
                   stopping>>

\* gc_delete_proxy_writer_dqueue
Flush(o) ==
    /\ o \in ProxyWriters \ flushed
    /\ dq' = Append(dq, [kind |-> "bubble", obj |-> o])
    /\ UNCHANGED <<count, freed>>

Free_slipUnflushed(o) ==
    /\ freed' = freed \cup ({o} \ {NoOp})
    /\ count' = count - 1 /\ dq' = dq

\* gcreq_free, and the object itself
Free(o) ==
    /\ o \notin ProxyWriters \ flushed
    /\ freed' = freed \cup ({o} \ {NoOp})
    /\ count' = count - 1 /\ dq' = dq

\* the rest of that pass through the loop, whatever the callback does
CallbackDone ==
    /\ gcPc = "callback" /\ gcPc' = "take" /\ current' = {}
    /\ FallAsleep(Gc)
    /\ UNCHANGED <<holds, findable, delVars, queue, flushed, stopping>>

\* gcreq->cb
GcCallback == CallbackDone /\ \E o \in current : Flush(o) \/ Free(o)

----------------------------------------------------------------------------
\* gcreq_queue_free, when nothing is left to be found and nothing is being deleted any
\* more (rtps_term)

StopPossible ==
    /\ findable = {} /\ \A t \in Threads : pc[t] = "run"

Stop ==
    /\ stopping = "no" /\ StopPossible
    /\ stopping' = "waiting" /\ count' = count + 1
    /\ UNCHANGED <<vtime, holds, findable, dq, delVars, queue, gcPc, current, flushed, freed>>

\* the only request left is its own
StopEnqueue ==
    /\ stopping = "waiting" /\ count = 1
    /\ stopping' = "enqueued" /\ queue' = Append(queue, NoOp)
    /\ UNCHANGED <<vtime, holds, findable, dq, delVars, count, gcPc, current, flushed, freed>>

----------------------------------------------------------------------------
Init ==
    /\ vtime = [t \in Threads |-> 1]
    /\ holds = [t \in Threads |-> {}]
    /\ findable = Objects
    /\ pc = [t \in Threads |-> "run"] /\ target = [t \in Threads |-> NoObj]
    /\ pos = [t \in Threads |-> 1]
    /\ waits = [o \in Objects |-> [t \in Threads |-> Passed]]
    /\ queue = <<>> /\ count = 0 /\ gcPc = "take" /\ current = {}
    /\ dq = <<>> /\ flushed = {} /\ freed = {} /\ stopping = "no"

Next ==
    \/ \E t \in Threads : \/ Wake(t) \/ Sleep(t) \/ Gather(t) \/ Count(t) \/ Enqueue(t)
                          \/ GcPassed(t)
    \/ \E t \in Threads, o \in Objects : Lookup(t, o) \/ Remove(t, o) \/ Deliver(t, o)
    \/ DqData \/ DqBubble \/ DqSleep
    \/ GcTake \/ GcExit \/ GcLeased \/ GcNotYet \/ GcReady \/ GcCallback
    \/ Stop \/ StopEnqueue

Spec == Init /\ [][Next]_vars

\* No thread makes 2^31 steps between two looks of the gc thread, which looks every
\* millisecond: one that has made progress does not go on until that would be forgotten.
\* Nor does the gc thread, idle for 100 ms at a time, while a request is being made.
Unhurried ==
    /\ \A o \in Objects, u \in Threads :
           HasPassed(o, u) => VtimeGt(vtime'[u], waits[o][u])
    /\ GcTake /\ current' = {} => \A t \in Threads : pc[t] = "run"

\* Every thread ends what it does with a message, call or event in bounded time and then
\* goes to sleep, or on to the next.
Fairness ==
    /\ \A t \in Threads : /\ WF_vars(Awake(t) /\ (Wake(t) \/ Sleep(t)) /\ Unhurried)
                          /\ WF_vars(Gather(t) \/ Count(t) \/ Enqueue(t))
    /\ WF_vars((DqData \/ DqBubble \/ DqSleep) /\ Unhurried)
    /\ WF_vars((\/ GcTake \/ GcExit \/ GcLeased \/ GcReady \/ GcCallback \/ GcNotYet
                 \/ \E u \in Threads : GcPassed(u)) /\ Unhurried)
    /\ WF_vars(StopEnqueue)

LiveSpec == Init /\ [][Next /\ Unhurried]_vars /\ Fairness

----------------------------------------------------------------------------
Cells == [kind : {"data", "bubble"}, obj : ProxyWriters]
Requests == Objects \cup {NoOp}

TypeOK ==
    /\ vtime \in [Threads -> Vtimes] /\ holds \in [Threads -> SUBSET Objects]
    /\ findable \subseteq Objects
    /\ pc \in [Threads -> {"run", "gather", "enqueue"}]
    /\ target \in [Threads -> Objects \cup {NoObj}] /\ pos \in [Threads -> 1..N + 1]
    /\ waits \in [Objects -> [Threads -> Vtimes \cup {Passed}]]
    /\ queue \in Seq(Requests) /\ count \in Int
    /\ gcPc \in {"take", "lease", "check", "callback", "exited"}
    /\ current \subseteq Requests /\ \A o, q \in current : o = q
    /\ dq \in Seq(Cells)
    /\ flushed \subseteq ProxyWriters /\ freed \subseteq Objects
    /\ stopping \in {"no", "waiting", "enqueued"}

\* No thread has, and no sample in the delivery queue contains, a pointer to something
\* that was freed ("Schedule freeing of memory until after all those who may have found
\* a pointer have progressed to where they no longer hold that pointer", dds_tkmap.c).
NoDangling ==
    /\ \A t \in Threads : holds[t] \cap freed = {}
    /\ \A i \in 1..Len(dq) : dq[i].obj \notin freed

\* When the gc thread has ended everything was freed and no request is left behind
\* (asserted by gcreq_queue_free).
CleanExit == gcPc = "exited" => freed = Objects /\ queue = <<>> /\ current = {}

\* What is deleted is freed in the end, though threads go on looking things up, and
\* gcreq_queue_free comes to an end.
EventuallyFreed == \A o \in Objects : o \notin findable ~> o \in freed
StopsInTheEnd == stopping # "no" ~> gcPc = "exited"
=============================================================================
