----------------------- MODULE GarbageCollectorProofs -----------------------
(***************************************************************************)
(* Nothing is freed that a thread or a queued sample still refers to, for  *)
(* any number of threads and objects, whatever the width of the virtual    *)
(* times; and when the gc thread ends nothing is left to be freed.         *)
(*                                                                         *)
(* The inductive invariant says that a removed object is in one place of   *)
(* its way to the end (Once, OnItsWay); that up to the end of the wait     *)
(* every thread that still refers to it has the virtual time recorded for  *)
(* it (Waiting); and that behind its bubble no sample refers to a proxy    *)
(* writer (BehindBubble, Flushed).  For the end of the gc thread it is     *)
(* joined by the accounts: the count is the number of the requests that    *)
(* are somewhere on their way (Counted), no object gets lost (Somewhere),  *)
(* and the no-op comes last and once (Ending, NoOpOnce).                   *)
(***************************************************************************)
EXTENDS GarbageCollector, FiniteSetTheorems, TLAPS

Deleting(t, o) == pc[t] # "run" /\ target[t] = o
InQueue(o) == \E i \in 1..Len(queue) : queue[i] = o
BubbleAt(i, o) == dq[i].kind = "bubble" /\ dq[i].obj = o
InBubble(o) == \E i \in 1..Len(dq) : BubbleAt(i, o)

\* the gc thread and that of the delivery queue refer to nothing between what they handle,
\* and no thread does asleep
Resting ==
    /\ \A t \in Threads : holds[t] # {} => Awake(t)
    /\ holds[Gc] # {} => gcPc = "lease"
    /\ gcPc = "callback" => \A o \in Requested, u \in Threads : waits[o][u] = Passed

\* a removed object is in one place only
Once ==
    /\ \A o \in Objects, t, u \in Threads : Deleting(t, o) /\ Deleting(u, o) => t = u
    /\ \A o \in Objects, t \in Threads :
           Deleting(t, o) => ~InQueue(o) /\ o \notin current /\ ~InBubble(o)
    /\ \A o \in Objects : InQueue(o) => o \notin current /\ ~InBubble(o)
    /\ \A o \in current \ {NoOp} : ~InBubble(o)

QueuedOnce ==
    \A i, j \in 1..Len(queue) : queue[i] = queue[j] /\ queue[i] # NoOp => i = j

\* what is on its way, or at its end, is not found
OnItsWay ==
    /\ \A o \in findable :
          /\ \A t \in Threads : ~Deleting(t, o)
          /\ ~InQueue(o) /\ o \notin current /\ ~InBubble(o)
    /\ findable \cap flushed = {} /\ findable \cap freed = {}
    /\ freed \cap ProxyWriters \subseteq flushed

\* thread u refers to o, and it is not the delivery queue's that waits for the bubble
Protected(u, o) == o \in holds[u] /\ ~(u = Dq /\ o \in ProxyWriters)

\* whoever refers to o, and was looked at, is at the virtual time recorded
Waiting ==
    /\ \A t, u \in Threads : \A o \in Objects :
           Deleting(t, o) /\ (pc[t] = "gather" => u < pos[t]) /\ Protected(u, o)
               => waits[o][u] = vtime[u]
    /\ \A u \in Threads : \A o \in Objects :
           (InQueue(o) \/ o \in current) /\ Protected(u, o) => waits[o][u] = vtime[u]

\* no thread refers to o any more but that of the delivery queue, and no sample behind
\* the bubble does
BehindBubble ==
    \A i \in 1..Len(dq) : \A o \in Objects : BubbleAt(i, o) =>
        /\ \A u \in Threads \ {Dq} : o \notin holds[u]
        /\ \A j \in i + 1..Len(dq) : dq[j].obj # o

Flushed ==
    \A o \in flushed :
        /\ \A u \in Threads : o \notin holds[u]
        /\ \A i \in 1..Len(dq) : dq[i].obj # o

Inv ==
    /\ TypeOK /\ Resting /\ Once /\ QueuedOnce /\ OnItsWay
    /\ Waiting /\ BehindBubble /\ Flushed /\ NoDangling

----------------------------------------------------------------------------
\* Adding to a virtual time wraps around, and keeps track of who is awake.
LEMMA VirtualTime ==
    ASSUME NEW v \in Vtimes
    PROVE  /\ Plus(v, 1) \in Vtimes /\ Plus(v, 2) \in Vtimes
           /\ ~AwakeV(v) => AwakeV(Plus(v, 1))
           /\ ~VtimeGt(v, v)
<1>1. Half \in Nat /\ Half > 0
  BY GcAssumption
<1>2. Plus(v, 1) \in Vtimes /\ Plus(v, 2) \in Vtimes
  BY <1>1 DEF Plus, Vtimes
<1>3. ~AwakeV(v) => AwakeV(Plus(v, 1))
  BY <1>1 DEF Plus, Vtimes, AwakeV
<1>4. ~VtimeGt(v, v)
  BY DEF VtimeGt, Vtimes
<1> QED BY <1>2, <1>3, <1>4

\* The initial states satisfy the invariant.
LEMMA Initially == Init => Inv
<1> SUFFICES ASSUME Init PROVE Inv
  OBVIOUS
<1>1. TypeOK
  BY GcAssumption DEF Init, TypeOK, Threads, Vtimes, Passed, Cells, Requests
<1>2. /\ Gc \in Threads /\ \A t \in Threads : holds[t] = {} /\ pc[t] = "run"
      /\ Len(queue) = 0 /\ Len(dq) = 0 /\ current = {} /\ gcPc = "take"
  BY GcAssumption DEF Init, Threads, Gc
<1>3. /\ \A o \in Objects : ~InQueue(o) /\ ~InBubble(o)
      /\ \A o \in Objects, t \in Threads : ~Deleting(t, o)
  BY <1>2 DEF Deleting, InQueue, InBubble
<1>4. Resting
  BY <1>2 DEF Resting
<1>5. Once /\ QueuedOnce /\ OnItsWay
  BY <1>1, <1>2, <1>3 DEF Once, QueuedOnce, OnItsWay, TypeOK, Init
<1>6. Waiting /\ BehindBubble /\ Flushed /\ NoDangling
  BY <1>2 DEF Init, Waiting, Protected, BehindBubble, Flushed, NoDangling
<1> QED BY <1>1, <1>4, <1>5, <1>6 DEF Inv

\* Two of the threads are the gc thread and that of the delivery queue.
LEMMA TheThreads ==
    Gc \in Threads /\ Dq \in Threads /\ Gc # Dq /\ N \in Nat /\ ProxyWriters \subseteq Objects
BY GcAssumption DEF Gc, Dq, Threads

\* What Append and Tail do with a sequence of members of S.
LEMMA Appended ==
    ASSUME NEW S, NEW s \in Seq(S), NEW e \in S
    PROVE  /\ Append(s, e) \in Seq(S) /\ Len(s) \in Nat /\ Len(Append(s, e)) = Len(s) + 1
           /\ \A i \in 1..Len(s) : Append(s, e)[i] = s[i]
           /\ Append(s, e)[Len(s) + 1] = e
OBVIOUS

\* What Head and Tail do with a sequence that is not empty.
LEMMA Popped ==
    ASSUME NEW S, NEW s \in Seq(S), s # <<>>
    PROVE  /\ Tail(s) \in Seq(S) /\ Head(s) \in S /\ Head(s) = s[1]
           /\ Len(s) \in Nat /\ Len(s) >= 1 /\ Len(Tail(s)) = Len(s) - 1
           /\ \A i \in 1..Len(s) - 1 : Tail(s)[i] = s[i + 1]
OBVIOUS

\* Waking up and falling asleep, threads have a virtual time in range.
LEMMA NextVtime ==
    ASSUME TypeOK, NEW t \in Threads, WakeUp(t) \/ FallAsleep(t)
    PROVE  vtime' \in [Threads -> Vtimes] /\ \A u \in Threads \ {t} : vtime'[u] = vtime[u]
BY VirtualTime DEF TypeOK, WakeUp, FallAsleep

\* Each step preserves the types.
LEMMA TypeStep == TypeOK /\ [Next]_vars => TypeOK'
<1> SUFFICES ASSUME TypeOK PROVE [Next]_vars => TypeOK'
  OBVIOUS
<1>1. ASSUME NEW t \in Threads, Wake(t) PROVE TypeOK'
  BY TheThreads, NextVtime, <1>1 DEF TypeOK, Wake, LetGo, delVars, gcVars
<1>2. ASSUME NEW t \in Threads, Sleep(t) PROVE TypeOK'
  BY TheThreads, NextVtime, <1>2 DEF TypeOK, Sleep, LetGo, delVars, gcVars
<1>3. ASSUME NEW t \in Threads, Gather(t) PROVE TypeOK'
  <2>1. pos[t] \in Threads /\ pos' \in [Threads -> 1..N + 1]
    BY TheThreads, <1>3 DEF TypeOK, Gather, Threads
  <2>2. (IF Awake(pos[t]) THEN vtime[pos[t]] ELSE Passed) \in Vtimes \cup {Passed}
    BY <2>1 DEF TypeOK
  <2>3. waits' \in [Objects -> [Threads -> Vtimes \cup {Passed}]]
    BY <2>1, <2>2, <1>3 DEF TypeOK, Gather
  <2> QED BY <2>1, <2>3, <1>3 DEF TypeOK, Gather, gcVars
<1>4. ASSUME NEW t \in Threads, Count(t) PROVE TypeOK'
  BY <1>4 DEF TypeOK, Count
<1>5. ASSUME NEW t \in Threads, Enqueue(t) PROVE TypeOK'
  BY TheThreads, <1>5 DEF TypeOK, Enqueue, Threads, NoOp, Requests
<1>6. ASSUME NEW t \in Threads, GcPassed(t) PROVE TypeOK'
  BY <1>6 DEF TypeOK, GcPassed, gcVars, Requested, Requests, NoOp
<1>7. ASSUME NEW t \in Threads, NEW o \in Objects, Lookup(t, o) PROVE TypeOK'
  BY <1>7 DEF TypeOK, Lookup, delVars, gcVars
<1>8. ASSUME NEW t \in Threads, NEW o \in Objects, Remove(t, o) PROVE TypeOK'
  BY TheThreads, <1>8 DEF TypeOK, Remove, Threads, gcVars
<1>9. ASSUME NEW t \in Threads, NEW o \in Objects, Deliver(t, o) PROVE TypeOK'
  BY TheThreads, <1>9 DEF TypeOK, Deliver, Cells, delVars, gcVars
<1>10. ASSUME DqData PROVE TypeOK'
  <2>a. dq \in Seq(Cells) /\ dq # <<>> /\ dq' = Tail(dq)
    BY <1>10 DEF TypeOK, DqData
  <2>b. Head(dq) \in Cells /\ Tail(dq) \in Seq(Cells)
    BY <2>a, Popped
  <2>1. Head(dq).obj \in ProxyWriters /\ dq' \in Seq(Cells)
    BY <2>a, <2>b DEF Cells
  <2>2. holds' \in [Threads -> SUBSET Objects] /\ vtime' \in [Threads -> Vtimes]
    BY <2>1, TheThreads, NextVtime, <1>10 DEF TypeOK, DqData
  <2> QED BY <2>1, <2>2, <1>10 DEF TypeOK, DqData, delVars, gcVars
<1>11. ASSUME DqBubble PROVE TypeOK'
  <2>a. dq \in Seq(Cells) /\ dq # <<>> /\ dq' = Tail(dq)
    BY <1>11 DEF TypeOK, DqBubble
  <2>b. Head(dq) \in Cells /\ Tail(dq) \in Seq(Cells)
    BY <2>a, Popped
  <2>1. Head(dq).obj \in ProxyWriters /\ dq' \in Seq(Cells)
    BY <2>a, <2>b DEF Cells
  <2>2. queue' \in Seq(Requests) /\ flushed' \subseteq ProxyWriters
    BY <2>1, TheThreads, Appended, <1>11 DEF TypeOK, DqBubble, Requests
  <2>3. vtime' \in [Threads -> Vtimes]
    BY TheThreads, NextVtime, <1>11 DEF DqBubble
  <2> QED BY <2>1, <2>2, <2>3, <1>11 DEF TypeOK, DqBubble, delVars
<1>12. ASSUME DqSleep PROVE TypeOK'
  BY TheThreads, NextVtime, <1>12 DEF TypeOK, DqSleep, LetGo, delVars, gcVars
<1>13. ASSUME GcTake PROVE TypeOK'
  <2>a. queue \in Seq(Requests) /\ (queue # <<>> => Head(queue) \in Requests /\ Tail(queue) \in Seq(Requests))
    BY Popped DEF TypeOK
  <2>1. /\ queue' \in Seq(Requests) /\ current' \subseteq Requests
        /\ \A o, q \in current' : o = q
    BY <2>a, <1>13 DEF TypeOK, GcTake
  <2>2. vtime' \in [Threads -> Vtimes]
    BY TheThreads, NextVtime, <1>13 DEF GcTake
  <2> QED BY <2>1, <2>2, <1>13 DEF TypeOK, GcTake, delVars
<1>14. ASSUME GcExit PROVE TypeOK'
  BY <1>14 DEF TypeOK, GcExit, delVars
<1>15. ASSUME GcLeased PROVE TypeOK'
  BY TheThreads, NextVtime, <1>15 DEF TypeOK, GcLeased, LetGo, delVars
<1>16. ASSUME GcNotYet PROVE TypeOK'
  BY <1>16 DEF TypeOK, GcNotYet, delVars
<1>17. ASSUME GcReady PROVE TypeOK'
  BY TheThreads, NextVtime, <1>17 DEF TypeOK, GcReady, delVars
<1>18. ASSUME NEW o \in current, CallbackDone, Flush(o) PROVE TypeOK'
  BY TheThreads, NextVtime, <1>18 DEF TypeOK, CallbackDone, Flush, Cells, delVars
<1>19. ASSUME NEW o \in current, CallbackDone, Free(o) PROVE TypeOK'
  BY TheThreads, NextVtime, <1>19 DEF TypeOK, CallbackDone, Free, Requests, delVars, NoOp
<1>20. ASSUME Stop PROVE TypeOK'
  BY <1>20 DEF TypeOK, Stop, delVars
<1>21. ASSUME StopEnqueue PROVE TypeOK'
  BY <1>21 DEF TypeOK, StopEnqueue, delVars, Requests, NoOp
<1>22. ASSUME UNCHANGED vars PROVE TypeOK'
  BY <1>22 DEF TypeOK, vars
<1> QED BY <1>1, <1>2, <1>3, <1>4, <1>5, <1>6, <1>7, <1>8, <1>9, <1>10, <1>11, <1>12, <1>13, <1>14, <1>15, <1>16, <1>17, <1>18, <1>19, <1>20, <1>21, <1>22 DEF Next, GcCallback

----------------------------------------------------------------------------
\* What adding to and taking from the queues does to who is in them.
LEMMA QueueAppend ==
    ASSUME TypeOK, NEW e \in Requests, queue' = Append(queue, e)
    PROVE  /\ Len(queue) \in Nat /\ Len(queue') = Len(queue) + 1 /\ queue'[Len(queue) + 1] = e
           /\ \A i \in 1..Len(queue) : queue'[i] = queue[i]
           /\ \A o : InQueue(o)' <=> InQueue(o) \/ o = e
<1>1. queue \in Seq(Requests)
  BY DEF TypeOK
<1>2. /\ Len(queue) \in Nat /\ Len(queue') = Len(queue) + 1 /\ queue'[Len(queue) + 1] = e
      /\ \A i \in 1..Len(queue) : queue'[i] = queue[i]
  BY <1>1, Appended
<1>3. \A o : InQueue(o)' <=> InQueue(o) \/ o = e
  BY <1>2 DEF InQueue
<1> QED BY <1>2, <1>3

\* What the gc queue is after its first request was taken off.
LEMMA QueuePop ==
    ASSUME TypeOK, queue # <<>>, queue' = Tail(queue)
    PROVE  /\ Len(queue) \in Nat /\ Len(queue) >= 1 /\ Len(queue') = Len(queue) - 1
           /\ Head(queue) = queue[1] /\ Head(queue) \in Requests
           /\ \A i \in 1..Len(queue') : queue'[i] = queue[i + 1]
           /\ InQueue(Head(queue)) /\ \A o : InQueue(o)' => InQueue(o)
<1>1. queue \in Seq(Requests)
  BY DEF TypeOK
<1>2. /\ Len(queue) \in Nat /\ Len(queue) >= 1 /\ Len(queue') = Len(queue) - 1
      /\ Head(queue) = queue[1] /\ Head(queue) \in Requests
      /\ \A i \in 1..Len(queue) - 1 : queue'[i] = queue[i + 1]
  BY <1>1, Popped
<1>3. InQueue(Head(queue)) /\ \A o : InQueue(o)' => InQueue(o)
  BY <1>2 DEF InQueue
<1> QED BY <1>2, <1>3

\* What the delivery queue is after an element was appended.
LEMMA DqAppend ==
    ASSUME TypeOK, NEW e \in Cells, dq' = Append(dq, e)
    PROVE  /\ Len(dq) \in Nat /\ Len(dq') = Len(dq) + 1 /\ dq'[Len(dq) + 1] = e
           /\ \A i \in 1..Len(dq) : dq'[i] = dq[i]
           /\ \A o : InBubble(o)' <=> InBubble(o) \/ (e.kind = "bubble" /\ e.obj = o)
<1>1. dq \in Seq(Cells)
  BY DEF TypeOK
<1>2. /\ Len(dq) \in Nat /\ Len(dq') = Len(dq) + 1 /\ dq'[Len(dq) + 1] = e
      /\ \A i \in 1..Len(dq) : dq'[i] = dq[i]
  BY <1>1, Appended
<1>3. \A o : InBubble(o)' <=> InBubble(o) \/ (e.kind = "bubble" /\ e.obj = o)
  BY <1>2 DEF InBubble, BubbleAt
<1> QED BY <1>2, <1>3

\* What the delivery queue is after its first element was handled.
LEMMA DqPop ==
    ASSUME TypeOK, dq # <<>>, dq' = Tail(dq)
    PROVE  /\ Len(dq) \in Nat /\ Len(dq) >= 1 /\ Len(dq') = Len(dq) - 1
           /\ Head(dq) = dq[1] /\ Head(dq) \in Cells
           /\ \A i \in 1..Len(dq') : dq'[i] = dq[i + 1]
           /\ \A o : InBubble(o)' => InBubble(o)
<1>1. dq \in Seq(Cells)
  BY DEF TypeOK
<1>2. /\ Len(dq) \in Nat /\ Len(dq) >= 1 /\ Len(dq') = Len(dq) - 1
      /\ Head(dq) = dq[1] /\ Head(dq) \in Cells
      /\ \A i \in 1..Len(dq) - 1 : dq'[i] = dq[i + 1]
  BY <1>1, Popped
<1>3. \A o : InBubble(o)' => InBubble(o)
  BY <1>2 DEF InBubble, BubbleAt
<1> QED BY <1>2, <1>3

\* The places that an object may be in, when what they are kept in does not change.
LEMMA Places ==
    /\ UNCHANGED <<pc, target>> => \A t, o : Deleting(t, o)' <=> Deleting(t, o)
    /\ UNCHANGED queue => \A o : InQueue(o)' <=> InQueue(o)
    /\ UNCHANGED dq => /\ \A o : InBubble(o)' <=> InBubble(o)
                       /\ \A i, o : BubbleAt(i, o)' <=> BubbleAt(i, o)
BY DEF Deleting, InQueue, InBubble, BubbleAt

\* An object that is being deleted is removed and queued by its thread only.
LEMMA DeletingStep ==
    ASSUME TypeOK, NEW t \in Threads
    PROVE  /\ \A x \in Objects : Remove(t, x) =>
                 \A u \in Threads, o \in Objects :
                     Deleting(u, o)' <=> IF u = t THEN o = x ELSE Deleting(u, o)
           /\ Count(t) => \A u \in Threads, o \in Objects : Deleting(u, o)' <=> Deleting(u, o)
           /\ Enqueue(t) =>
                 \A u \in Threads, o \in Objects : Deleting(u, o)' <=> u # t /\ Deleting(u, o)
<1>1. ASSUME NEW x \in Objects, Remove(t, x), NEW u \in Threads, NEW o \in Objects
      PROVE  Deleting(u, o)' <=> IF u = t THEN o = x ELSE Deleting(u, o)
  BY <1>1 DEF TypeOK, Remove, Deleting
<1>2. ASSUME Count(t), NEW u \in Threads, NEW o \in Objects
      PROVE  Deleting(u, o)' <=> Deleting(u, o)
  BY <1>2 DEF TypeOK, Count, Deleting
<1>3. ASSUME Enqueue(t), NEW u \in Threads, NEW o \in Objects
      PROVE  Deleting(u, o)' <=> u # t /\ Deleting(u, o)
  BY <1>3 DEF TypeOK, Enqueue, Deleting
<1> QED BY <1>1, <1>2, <1>3

\* A step that moves no object from one place to another.
Still == UNCHANGED <<pc, target, queue, current, dq, findable, flushed, freed>>

\* The steps of the virtual times, the lookups and the shutdown flag are such steps.
LEMMA StillSteps ==
    /\ \A t \in Threads : Wake(t) \/ Sleep(t) \/ Gather(t) \/ GcPassed(t) => Still
    /\ \A t \in Threads, o \in Objects : Lookup(t, o) => Still
    /\ DqSleep \/ GcExit \/ GcLeased \/ GcNotYet \/ GcReady \/ Stop \/ UNCHANGED vars => Still
<1>1. \A t \in Threads : Wake(t) \/ Sleep(t) \/ Gather(t) \/ GcPassed(t) => Still
  BY DEF Wake, Sleep, Gather, GcPassed, Still, delVars, gcVars
<1>2. \A t \in Threads, o \in Objects : Lookup(t, o) => Still
  BY DEF Lookup, Still, delVars, gcVars
<1>3. DqSleep \/ GcExit \/ GcLeased \/ GcNotYet \/ GcReady \/ Stop \/ UNCHANGED vars => Still
  BY DEF DqSleep, GcExit, GcLeased, GcNotYet, GcReady, Stop, Still, delVars, gcVars, vars
<1> QED BY <1>1, <1>2, <1>3

\* The cases of Next, with the steps that move no object as one.
LEMMA Moves ==
    [Next]_vars =>
        \/ Still
        \/ \E t \in Threads, x \in Objects : Remove(t, x) \/ Deliver(t, x)
        \/ \E t \in Threads : Count(t) \/ Enqueue(t)
        \/ DqData \/ DqBubble \/ GcTake \/ StopEnqueue
        \/ CallbackDone /\ \E x \in current : Flush(x) \/ Free(x)
BY StillSteps DEF Next, GcCallback

\* No object comes to be in two places.
LEMMA OnceStep == Inv /\ TypeOK' /\ [Next]_vars => Once'
<1> SUFFICES ASSUME Inv, TypeOK' PROVE [Next]_vars => Once'
  OBVIOUS
<1>0. TypeOK /\ Once /\ OnItsWay /\ NoOp \notin Objects /\ current \subseteq Requests
  BY GcAssumption DEF Inv, NoOp, TypeOK
<1>1. CASE Still
  BY <1>0, <1>1, Places DEF Once, Still
<1>2. ASSUME NEW t \in Threads, NEW x \in Objects, Remove(t, x) PROVE Once'
  <2>1. UNCHANGED <<queue, current, dq>> /\ x \in findable
    BY <1>2 DEF Remove, gcVars
  <2> QED BY <1>0, <1>2, <2>1, Places, DeletingStep DEF Once, OnItsWay
<1>3. ASSUME NEW t \in Threads, NEW x \in Objects, Deliver(t, x) PROVE Once'
  <2>1. UNCHANGED <<pc, target, queue, current>>
    BY <1>3 DEF Deliver, delVars, gcVars
  <2>2. \A o : InBubble(o)' <=> InBubble(o)
    <3>1. [kind |-> "data", obj |-> x] \in Cells
      BY <1>3, <1>0 DEF Deliver, Cells
    <3> QED BY <3>1, <1>0, <1>3, DqAppend DEF Deliver
  <2> QED BY <1>0, <2>1, <2>2, Places DEF Once
<1>4. ASSUME NEW t \in Threads, Count(t) PROVE Once'
  <2>1. UNCHANGED <<queue, current, dq>>
    BY <1>4 DEF Count
  <2> QED BY <1>0, <1>4, <2>1, Places, DeletingStep DEF Once
<1>5. ASSUME NEW t \in Threads, Enqueue(t) PROVE Once'
  <2>1. /\ UNCHANGED <<current, dq>> /\ target[t] \in Requests /\ queue' = Append(queue, target[t])
        /\ pc[t] # "run"
    BY <1>0, <1>5 DEF Enqueue, TypeOK, Requests, NoOp
  <2>2. \A o : InQueue(o)' <=> InQueue(o) \/ o = target[t]
    BY <1>0, <2>1, QueueAppend
  <2>3. target[t] \in Objects => Deleting(t, target[t])
    BY <2>1 DEF Deleting
  <2> QED BY <1>0, <1>5, <2>1, <2>2, <2>3, Places, DeletingStep DEF Once
<1>6. CASE DqData
  <2>1. UNCHANGED <<pc, target, queue, current>> /\ \A o : InBubble(o)' => InBubble(o)
    BY <1>0, <1>6, DqPop DEF DqData, delVars, gcVars
  <2> QED BY <1>0, <2>1, Places DEF Once
<1>7. CASE DqBubble
  <2> PICK x : x = Head(dq).obj
    OBVIOUS
  <2>1. /\ UNCHANGED <<pc, target, current>> /\ queue' = Append(queue, x)
        /\ dq # <<>> /\ dq' = Tail(dq) /\ Head(dq).kind = "bubble"
    BY <1>7 DEF DqBubble, delVars
  <2>2. /\ Len(dq) \in Nat /\ Len(dq) >= 1 /\ Len(dq') = Len(dq) - 1
        /\ Head(dq) = dq[1] /\ Head(dq) \in Cells /\ \A o : InBubble(o)' => InBubble(o)
        /\ \A i \in 1..Len(dq') : dq'[i] = dq[i + 1]
    BY <1>0, <2>1, DqPop
  <2>3. x \in Objects /\ x \in Requests /\ InBubble(x)
    BY <2>1, <2>2, GcAssumption DEF Cells, Requests, InBubble, BubbleAt
  <2>4. ~InBubble(x)'
    <3>1. BubbleAt(1, x)
      BY <2>1, <2>2 DEF BubbleAt
    <3>2. \A j \in 2..Len(dq) : dq[j].obj # x
      BY <2>2, <2>3, <3>1 DEF Inv, BehindBubble
    <3>3. \A i \in 1..Len(dq') : i + 1 \in 2..Len(dq) /\ dq'[i] = dq[i + 1]
      BY <2>2
    <3> QED BY <3>2, <3>3 DEF InBubble, BubbleAt
  <2>5. \A o : InQueue(o)' <=> InQueue(o) \/ o = x
    BY <1>0, <2>1, <2>3, QueueAppend
  <2>6. \A t, o : Deleting(t, o)' <=> Deleting(t, o)
    BY <2>1, Places
  <2>7. current' = current /\ \A o : InBubble(o)' => InBubble(o)
    BY <2>1, <2>2
  <2> QED BY <1>0, <2>3, <2>4, <2>5, <2>6, <2>7 DEF Once
<1>8. CASE GcTake
  <2>1. UNCHANGED <<pc, target, dq>>
    BY <1>8 DEF GcTake, delVars
  <2>2. CASE UNCHANGED <<current, queue>>
    BY <1>0, <2>1, <2>2, Places DEF Once
  <2>3. CASE queue # <<>> /\ current' = {Head(queue)} /\ queue' = Tail(queue)
    <3> PICK x : x = Head(queue)
      OBVIOUS
    <3>1. /\ Len(queue) \in Nat /\ Len(queue) >= 1 /\ Len(queue') = Len(queue) - 1
          /\ x = queue[1] /\ x \in Requests /\ \A i \in 1..Len(queue') : queue'[i] = queue[i + 1]
          /\ InQueue(x) /\ \A o : InQueue(o)' => InQueue(o)
      BY <1>0, <2>3, QueuePop
    <3>2. x \in Objects => ~InQueue(x)'
      <4>1. x \in Objects => \A i \in 1..Len(queue') : queue[i + 1] # queue[1]
        BY <1>0, <3>1 DEF Inv, QueuedOnce
      <4> QED BY <3>1, <4>1 DEF InQueue
    <3>3. (\A t, o : Deleting(t, o)' <=> Deleting(t, o)) /\ (\A o : InBubble(o)' <=> InBubble(o))
      BY <2>1, Places
    <3>4. current' = {x} /\ x \in Objects \cup {NoOp}
      BY <2>3, <3>1 DEF Requests
    <3> QED BY <1>0, <3>1, <3>2, <3>3, <3>4 DEF Once
  <2> QED BY <1>8, <2>2, <2>3 DEF GcTake
<1>9. CASE StopEnqueue
  <2>1. UNCHANGED <<pc, target, dq, current>> /\ queue' = Append(queue, NoOp) /\ NoOp \in Requests
    BY <1>9 DEF StopEnqueue, delVars, Requests
  <2>2. \A o : InQueue(o)' <=> InQueue(o) \/ o = NoOp
    BY <1>0, <2>1, QueueAppend
  <2> QED BY <1>0, <2>1, <2>2, Places DEF Once
<1>10. ASSUME NEW x \in current, CallbackDone, Flush(x) PROVE Once'
  <2>1. UNCHANGED <<pc, target, queue>> /\ current' = {}
    BY <1>10 DEF CallbackDone, delVars
  <2>2. x \in ProxyWriters /\ x \in Objects
    BY <1>10, TheThreads DEF Flush
  <2>3. \A o : InBubble(o)' <=> InBubble(o) \/ o = x
    <3>1. [kind |-> "bubble", obj |-> x] \in Cells
      BY <2>2 DEF Cells
    <3> QED BY <3>1, <1>0, <1>10, DqAppend DEF Flush
  <2> QED BY <1>0, <2>1, <2>2, <2>3, Places DEF Once
<1>11. ASSUME NEW x \in current, CallbackDone, Free(x) PROVE Once'
  <2>1. UNCHANGED <<pc, target, queue, dq>> /\ current' = {}
    BY <1>11 DEF CallbackDone, Free, delVars
  <2> QED BY <1>0, <2>1, Places DEF Once
<1> QED BY <1>1, <1>2, <1>3, <1>4, <1>5, <1>6, <1>7, <1>8, <1>9, <1>10, <1>11, Moves

\* No request is queued twice.
LEMMA QueuedOnceStep == Inv /\ TypeOK' /\ [Next]_vars => QueuedOnce'
<1> SUFFICES ASSUME Inv, TypeOK' PROVE [Next]_vars => QueuedOnce'
  OBVIOUS
<1>0. TypeOK /\ Once /\ QueuedOnce /\ NoOp \notin Objects
  BY GcAssumption DEF Inv, NoOp
<1>1. CASE UNCHANGED queue
  BY <1>0, <1>1 DEF QueuedOnce
<1>2. ASSUME NEW x \in Requests, x \in Objects => ~InQueue(x), queue' = Append(queue, x)
      PROVE QueuedOnce'
  <2>1. /\ Len(queue) \in Nat /\ Len(queue') = Len(queue) + 1 /\ queue'[Len(queue) + 1] = x
        /\ \A i \in 1..Len(queue) : queue'[i] = queue[i]
    BY <1>0, <1>2, QueueAppend
  <2>2. \A i \in 1..Len(queue) : queue[i] = x => x = NoOp
    BY <1>2 DEF InQueue, Requests
  <2> QED BY <1>0, <2>1, <2>2 DEF QueuedOnce
<1>3. ASSUME NEW t \in Threads, Enqueue(t) PROVE QueuedOnce'
  <2>1. target[t] \in Requests /\ queue' = Append(queue, target[t]) /\ pc[t] # "run"
    BY <1>0, <1>3 DEF Enqueue, TypeOK, Requests, NoOp
  <2>2. target[t] \in Objects => ~InQueue(target[t])
    BY <1>0, <2>1 DEF Once, Deleting
  <2> QED BY <1>2, <2>1, <2>2
<1>4. CASE DqBubble
  <2>1. dq # <<>> /\ dq' = Tail(dq) /\ Head(dq).kind = "bubble" /\ queue' = Append(queue, Head(dq).obj)
    BY <1>4 DEF DqBubble
  <2>2. Len(dq) \in Nat /\ Len(dq) >= 1 /\ Head(dq) = dq[1] /\ Head(dq) \in Cells
    BY <1>0, <2>1, DqPop
  <2>3. Head(dq).obj \in Objects /\ Head(dq).obj \in Requests /\ InBubble(Head(dq).obj)
    BY <2>1, <2>2, GcAssumption DEF Cells, Requests, InBubble, BubbleAt
  <2>4. ~InQueue(Head(dq).obj)
    BY <1>0, <2>3 DEF Once
  <2> QED BY <1>2, <2>1, <2>3, <2>4
<1>5. CASE GcTake
  <2>1. CASE queue # <<>> /\ queue' = Tail(queue)
    <3>1. /\ Len(queue) \in Nat /\ Len(queue') = Len(queue) - 1
          /\ \A i \in 1..Len(queue') : queue'[i] = queue[i + 1]
      BY <1>0, <2>1, QueuePop
    <3> QED BY <1>0, <3>1 DEF QueuedOnce
  <2> QED BY <1>1, <1>5, <2>1 DEF GcTake
<1>6. CASE StopEnqueue
  BY <1>0, <1>2, <1>6 DEF StopEnqueue, Requests
<1>7. ASSUME NEW t \in Threads, NEW x \in Objects, Remove(t, x) \/ Deliver(t, x)
      PROVE UNCHANGED queue
  BY <1>7 DEF Remove, Deliver, gcVars
<1>8. ASSUME NEW t \in Threads, Count(t) PROVE UNCHANGED queue
  BY <1>8 DEF Count
<1>9. Still \/ DqData \/ CallbackDone => UNCHANGED queue
  BY DEF Still, DqData, CallbackDone, gcVars
<1> QED BY <1>1, <1>3, <1>4, <1>5, <1>6, <1>7, <1>8, <1>9, Moves

\* What was removed is not found again.
LEMMA OnItsWayStep == Inv /\ TypeOK' /\ [Next]_vars => OnItsWay'
<1> SUFFICES ASSUME Inv, TypeOK' PROVE [Next]_vars => OnItsWay'
  OBVIOUS
<1>0. TypeOK /\ OnItsWay /\ NoOp \notin Objects /\ findable \subseteq Objects
      /\ current \subseteq Requests
  BY GcAssumption DEF Inv, NoOp, TypeOK
<1>1. CASE Still
  BY <1>0, <1>1, Places DEF OnItsWay, Still
<1>2. ASSUME NEW t \in Threads, NEW x \in Objects, Remove(t, x) PROVE OnItsWay'
  <2>1. UNCHANGED <<queue, current, dq, flushed, freed>> /\ findable' = findable \ {x}
    BY <1>2 DEF Remove, gcVars
  <2> QED BY <1>0, <1>2, <2>1, Places, DeletingStep DEF OnItsWay
<1>3. ASSUME NEW t \in Threads, NEW x \in Objects, Deliver(t, x) PROVE OnItsWay'
  <2>1. UNCHANGED <<findable, pc, target, queue, current, flushed, freed>>
    BY <1>3 DEF Deliver, delVars, gcVars
  <2>2. \A o : InBubble(o)' <=> InBubble(o)
    <3>1. [kind |-> "data", obj |-> x] \in Cells
      BY <1>3, <1>0 DEF Deliver, Cells
    <3> QED BY <3>1, <1>0, <1>3, DqAppend DEF Deliver
  <2> QED BY <1>0, <2>1, <2>2, Places DEF OnItsWay
<1>4. ASSUME NEW t \in Threads, Count(t) PROVE OnItsWay'
  <2>1. UNCHANGED <<queue, current, dq, findable, flushed, freed>>
    BY <1>4 DEF Count
  <2> QED BY <1>0, <1>4, <2>1, Places, DeletingStep DEF OnItsWay
<1>5. ASSUME NEW t \in Threads, Enqueue(t) PROVE OnItsWay'
  <2>1. /\ UNCHANGED <<current, dq, findable, flushed, freed>> /\ target[t] \in Requests
        /\ queue' = Append(queue, target[t]) /\ pc[t] # "run"
    BY <1>0, <1>5 DEF Enqueue, TypeOK, Requests, NoOp
  <2>2. \A o : InQueue(o)' <=> InQueue(o) \/ o = target[t]
    BY <1>0, <2>1, QueueAppend
  <2>3. target[t] \notin findable
    BY <1>0, <2>1 DEF OnItsWay, Deleting
  <2> QED BY <1>0, <1>5, <2>1, <2>2, <2>3, Places, DeletingStep DEF OnItsWay
<1>6. CASE DqData
  <2>1. /\ UNCHANGED <<pc, target, queue, current, findable, flushed, freed>>
        /\ \A o : InBubble(o)' => InBubble(o)
    BY <1>0, <1>6, DqPop DEF DqData, delVars, gcVars
  <2> QED BY <1>0, <2>1, Places DEF OnItsWay
<1>7. CASE DqBubble
  <2> PICK x : x = Head(dq).obj
    OBVIOUS
  <2>1. /\ UNCHANGED <<pc, target, current, findable, freed>> /\ queue' = Append(queue, x)
        /\ dq # <<>> /\ dq' = Tail(dq) /\ Head(dq).kind = "bubble" /\ flushed' = flushed \cup {x}
    BY <1>7 DEF DqBubble, delVars
  <2>2. /\ Len(dq) \in Nat /\ Len(dq) >= 1 /\ Head(dq) = dq[1] /\ Head(dq) \in Cells
        /\ \A o : InBubble(o)' => InBubble(o)
    BY <1>0, <2>1, DqPop
  <2>3. x \in Requests /\ InBubble(x)
    BY <2>1, <2>2, GcAssumption DEF Cells, Requests, InBubble, BubbleAt
  <2>4. \A o : InQueue(o)' <=> InQueue(o) \/ o = x
    BY <1>0, <2>1, <2>3, QueueAppend
  <2> QED BY <1>0, <2>1, <2>2, <2>3, <2>4, Places DEF OnItsWay
<1>8. CASE GcTake
  <2>1. UNCHANGED <<pc, target, dq, findable, flushed, freed>>
    BY <1>8 DEF GcTake, delVars
  <2>2. CASE UNCHANGED <<current, queue>>
    BY <1>0, <2>1, <2>2, Places DEF OnItsWay
  <2>3. CASE queue # <<>> /\ current' = {Head(queue)} /\ queue' = Tail(queue)
    <3>1. InQueue(Head(queue)) /\ \A o : InQueue(o)' => InQueue(o)
      BY <1>0, <2>3, QueuePop
    <3> QED BY <1>0, <2>1, <2>3, <3>1, Places DEF OnItsWay
  <2> QED BY <1>8, <2>2, <2>3 DEF GcTake
<1>9. CASE StopEnqueue
  <2>1. /\ UNCHANGED <<pc, target, dq, current, findable, flushed, freed>>
        /\ queue' = Append(queue, NoOp) /\ NoOp \in Requests
    BY <1>9 DEF StopEnqueue, delVars, Requests
  <2>2. \A o : InQueue(o)' <=> InQueue(o) \/ o = NoOp
    BY <1>0, <2>1, QueueAppend
  <2> QED BY <1>0, <2>1, <2>2, Places DEF OnItsWay
<1>10. ASSUME NEW x \in current, CallbackDone, Flush(x) PROVE OnItsWay'
  <2>1. UNCHANGED <<pc, target, queue, findable, flushed, freed>> /\ current' = {}
    BY <1>10 DEF CallbackDone, Flush, delVars
  <2>2. \A o : InBubble(o)' <=> InBubble(o) \/ o = x
    <3>1. [kind |-> "bubble", obj |-> x] \in Cells
      BY <1>10 DEF Flush, Cells
    <3> QED BY <3>1, <1>0, <1>10, DqAppend DEF Flush
  <2> QED BY <1>0, <2>1, <2>2, Places DEF OnItsWay
<1>11. ASSUME NEW x \in current, CallbackDone, Free(x) PROVE OnItsWay'
  <2>1. /\ UNCHANGED <<pc, target, queue, dq, findable, flushed>> /\ current' = {}
        /\ freed' = freed \cup ({x} \ {NoOp}) /\ x \notin ProxyWriters \ flushed
    BY <1>11 DEF CallbackDone, Free, delVars
  <2> QED BY <1>0, <2>1, Places DEF OnItsWay
<1> QED BY <1>1, <1>2, <1>3, <1>4, <1>5, <1>6, <1>7, <1>8, <1>9, <1>10, <1>11, Moves

\* Which threads are at rest, and what a request that is ready waits for.
LEMMA RestingStep == Inv /\ TypeOK' /\ [Next]_vars => Resting'
<1> SUFFICES ASSUME Inv, TypeOK' PROVE [Next]_vars => Resting'
  OBVIOUS
<1>0. TypeOK /\ Resting /\ Once /\ Gc \in Threads /\ Dq \in Threads /\ Gc # Dq
  BY TheThreads DEF Inv
<1>a. ASSUME NEW t \in Threads, UNCHANGED <<gcPc, current, waits>>, WakeUp(t) \/ FallAsleep(t),
             holds' = [holds EXCEPT ![t] = {}]
      PROVE Resting'
  <2>1. \A u \in Threads : holds'[u] # {} => u # t /\ holds[u] # {} /\ vtime'[u] = vtime[u]
    BY <1>0, <1>a, NextVtime DEF TypeOK
  <2> QED BY <1>0, <1>a, <2>1 DEF Resting, Requested, Awake
<1>1. ASSUME NEW t \in Threads, Wake(t) \/ Sleep(t) PROVE Resting'
  BY <1>1, <1>a DEF Wake, Sleep, LetGo, delVars, gcVars
<1>2. ASSUME NEW t \in Threads, Gather(t) PROVE Resting'
  <2>1. UNCHANGED <<vtime, holds, gcPc, current>>
    BY <1>2 DEF Gather, gcVars
  <2>2. \A o \in Requested, u \in Threads : waits'[o][u] = waits[o][u]
    <3>1. Deleting(t, target[t])
      BY <1>2 DEF Gather, Deleting
    <3>2. target[t] \notin Requested
      BY <1>0, <3>1 DEF Once, Requested, TypeOK, Requests
    <3> QED BY <1>0, <1>2, <3>2 DEF Gather, TypeOK, Requested, Requests
  <2> QED BY <1>0, <2>1, <2>2 DEF Resting, Requested, Awake
<1>3. ASSUME NEW t \in Threads, Count(t) \/ Enqueue(t) PROVE Resting'
  BY <1>0, <1>3 DEF Resting, Requested, Awake, Count, Enqueue
<1>4. ASSUME NEW t \in Threads, GcPassed(t) PROVE Resting'
  BY <1>0, <1>4 DEF Resting, Requested, Awake, GcPassed, gcVars
<1>5. ASSUME NEW t \in Threads, NEW x \in Objects, Lookup(t, x) \/ Remove(t, x) \/ Deliver(t, x) PROVE Resting'
  BY <1>0, <1>5 DEF TypeOK, Resting, Requested, Awake, Lookup, Remove, Deliver, Using, delVars, gcVars
<1>6. ASSUME DqData PROVE Resting'
  <2>1. UNCHANGED <<gcPc, current, waits>> /\ Awake(Dq)'
    BY <1>0, <1>6, VirtualTime DEF TypeOK, DqData, WakeUp, Awake, delVars, gcVars
  <2>2. \A u \in Threads \ {Dq} : holds'[u] = holds[u] /\ vtime'[u] = vtime[u]
    BY <1>0, <1>6, NextVtime DEF TypeOK, DqData
  <2> QED BY <1>0, <2>1, <2>2 DEF Resting, Requested, Awake
<1>7. ASSUME DqBubble \/ DqSleep PROVE Resting'
  <2>1. CASE DqBubble
    <3>1. holds[Dq] = {} /\ holds' = holds
      BY <1>0, <2>1 DEF Resting, DqBubble
    <3>2. holds' = [holds EXCEPT ![Dq] = {}]
      BY <1>0, <3>1 DEF TypeOK
    <3> QED BY <1>0, <1>a, <2>1, <3>2 DEF DqBubble, delVars
  <2>2. CASE DqSleep
    BY <1>0, <1>a, <2>2 DEF DqSleep, LetGo, delVars, gcVars
  <2> QED BY <1>7, <2>1, <2>2
<1>8. ASSUME GcTake \/ GcExit \/ GcLeased \/ GcNotYet PROVE Resting'
  BY <1>0, <1>8 DEF TypeOK, Resting, Requested, Awake, GcTake, GcExit, GcLeased, GcNotYet, WakeUp, FallAsleep, LetGo, delVars
<1>9. ASSUME GcReady PROVE Resting'
  BY <1>0, <1>9 DEF TypeOK, Resting, Requested, Awake, GcReady, Ready, WakeUp, delVars
<1>10. ASSUME CallbackDone PROVE Resting'
  BY <1>0, <1>10 DEF TypeOK, Resting, Requested, Awake, CallbackDone, FallAsleep, delVars
<1>11. ASSUME Stop \/ StopEnqueue \/ UNCHANGED vars PROVE Resting'
  BY <1>0, <1>11 DEF Resting, Requested, Awake, Stop, StopEnqueue, delVars, vars
<1> QED BY <1>1, <1>2, <1>3, <1>4, <1>5, <1>6, <1>7, <1>8, <1>9, <1>10, <1>11 DEF Next, GcCallback

\* When the gc thread runs a request no thread refers to its object, but that of the
\* delivery queue may to a proxy writer.
LEMMA NobodyLeft ==
    ASSUME Inv, gcPc = "callback", NEW x \in current, x # NoOp
    PROVE  x \in Objects /\ \A u \in Threads : ~Protected(u, x)
<1>1. x \in Objects /\ x \in Requested
  BY DEF Inv, TypeOK, Requests, Requested
<1>2. \A u \in Threads : waits[x][u] = Passed /\ vtime[u] # Passed
  BY <1>1 DEF Inv, Resting, TypeOK, Vtimes, Passed
<1>3. \A u \in Threads : Protected(u, x) => waits[x][u] = vtime[u]
  BY <1>1 DEF Inv, Waiting
<1> QED BY <1>1, <1>2, <1>3

\* No thread refers to an object whose request the delivery queue hands back.
LEMMA HandedBack ==
    ASSUME Inv, DqBubble
    PROVE  LET x == Head(dq).obj IN
               /\ x \in ProxyWriters /\ \A u \in Threads : x \notin holds[u]
               /\ \A i \in 1..Len(dq') : dq'[i].obj # x
<1> PICK x : x = Head(dq).obj
  OBVIOUS
<1>1. dq # <<>> /\ dq' = Tail(dq) /\ Head(dq).kind = "bubble" /\ ~Awake(Dq) /\ TypeOK
  BY DEF DqBubble, Inv
<1>2. /\ Len(dq) \in Nat /\ Len(dq) >= 1 /\ Len(dq') = Len(dq) - 1
      /\ Head(dq) = dq[1] /\ Head(dq) \in Cells
      /\ \A i \in 1..Len(dq') : dq'[i] = dq[i + 1]
  BY <1>1, DqPop
<1>3. x \in ProxyWriters /\ x \in Objects /\ BubbleAt(1, x)
  BY <1>1, <1>2, TheThreads DEF Cells, BubbleAt
<1>4. (\A u \in Threads \ {Dq} : x \notin holds[u]) /\ \A j \in 2..Len(dq) : dq[j].obj # x
  BY <1>2, <1>3 DEF Inv, BehindBubble
<1>5. holds[Dq] = {}
  BY <1>1, TheThreads DEF Inv, Resting
<1>6. \A i \in 1..Len(dq') : i + 1 \in 2..Len(dq)
  BY <1>2
<1> QED BY <1>2, <1>3, <1>4, <1>5, <1>6

\* No thread refers to what has gone through its bubble, or is about to be freed.
LEMMA FlushedStep == Inv /\ TypeOK' /\ [Next]_vars => Flushed'
<1> SUFFICES ASSUME Inv, TypeOK' PROVE [Next]_vars => Flushed'
  OBVIOUS
<1>0. TypeOK /\ Flushed /\ OnItsWay /\ Gc \in Threads /\ Dq \in Threads
  BY TheThreads DEF Inv
<1>1. ASSUME flushed' = flushed, dq' = dq, \A u \in Threads : holds'[u] \subseteq holds[u]
      PROVE Flushed'
  BY <1>1, <1>0 DEF Flushed
<1>2. ASSUME NEW t \in Threads, Wake(t) \/ Sleep(t) PROVE Flushed'
  BY <1>0, <1>1, <1>2 DEF TypeOK, Wake, Sleep, LetGo, gcVars
<1>3. ASSUME NEW t \in Threads, Gather(t) \/ Count(t) \/ Enqueue(t) \/ GcPassed(t) PROVE Flushed'
  BY <1>0, <1>1, <1>3 DEF Gather, Count, Enqueue, GcPassed, gcVars
<1>4. ASSUME NEW t \in Threads, NEW x \in Objects, Lookup(t, x) \/ Remove(t, x) PROVE Flushed'
  <2>1. x \notin flushed /\ flushed' = flushed /\ dq' = dq
    BY <1>0, <1>4 DEF OnItsWay, Lookup, Remove, gcVars
  <2>2. \A u \in Threads : holds'[u] \subseteq holds[u] \cup {x}
    BY <1>0, <1>4 DEF TypeOK, Lookup, Remove
  <2> QED BY <1>0, <2>1, <2>2 DEF Flushed
<1>5. ASSUME NEW t \in Threads, NEW x \in Objects, Deliver(t, x) PROVE Flushed'
  <2>1. /\ holds' = holds /\ flushed' = flushed /\ x \in holds[t] /\ x \in ProxyWriters
        /\ dq' = Append(dq, [kind |-> "data", obj |-> x])
    BY <1>5 DEF Deliver, gcVars
  <2>2. [kind |-> "data", obj |-> x] \in Cells
    BY <2>1 DEF Cells
  <2>3. \A i \in 1..Len(dq') : dq'[i].obj = x \/ (i \in 1..Len(dq) /\ dq'[i] = dq[i])
    BY <1>0, <2>1, <2>2, DqAppend
  <2> QED BY <1>0, <2>1, <2>3 DEF Flushed
<1>6. CASE DqData
  <2>1. dq # <<>> /\ dq' = Tail(dq) /\ flushed' = flushed /\ holds' = [holds EXCEPT ![Dq] = {Head(dq).obj}]
    BY <1>6 DEF DqData, gcVars
  <2>2. /\ Len(dq) \in Nat /\ Len(dq) >= 1 /\ Len(dq') = Len(dq) - 1
        /\ Head(dq) = dq[1] /\ \A i \in 1..Len(dq') : dq'[i] = dq[i + 1]
    BY <1>0, <2>1, DqPop
  <2>3. \A o \in flushed : dq[1].obj # o /\ \A i \in 1..Len(dq') : dq[i + 1].obj # o
    BY <1>0, <2>2 DEF Flushed
  <2>4. \A u \in Threads : holds'[u] \subseteq holds[u] \cup {dq[1].obj}
    BY <1>0, <2>1, <2>2 DEF TypeOK
  <2> QED BY <1>0, <2>1, <2>2, <2>3, <2>4 DEF Flushed
<1>7. CASE DqBubble
  <2> PICK x : x = Head(dq).obj
    OBVIOUS
  <2>1. dq # <<>> /\ dq' = Tail(dq) /\ flushed' = flushed \cup {x} /\ holds' = holds
    BY <1>7 DEF DqBubble
  <2>2. /\ Len(dq) \in Nat /\ Len(dq) >= 1 /\ Len(dq') = Len(dq) - 1
        /\ \A i \in 1..Len(dq') : dq'[i] = dq[i + 1]
    BY <1>0, <2>1, DqPop
  <2>3. \A o \in flushed : \A i \in 1..Len(dq') : dq[i + 1].obj # o
    BY <1>0, <2>2 DEF Flushed
  <2>4. (\A u \in Threads : x \notin holds[u]) /\ \A i \in 1..Len(dq') : dq'[i].obj # x
    BY <1>7, HandedBack
  <2> QED BY <1>0, <2>1, <2>2, <2>3, <2>4 DEF Flushed
<1>8. CASE DqSleep \/ GcLeased
  BY <1>0, <1>1, <1>8 DEF TypeOK, DqSleep, GcLeased, LetGo, gcVars
<1>9. CASE GcTake \/ GcExit \/ GcNotYet \/ GcReady \/ Stop \/ StopEnqueue \/ UNCHANGED vars
  BY <1>1, <1>9 DEF GcTake, GcExit, GcNotYet, GcReady, Stop, StopEnqueue, vars
<1>10. ASSUME NEW x \in current, CallbackDone, Flush(x) PROVE Flushed'
  <2>1. /\ holds' = holds /\ flushed' = flushed /\ x \in ProxyWriters /\ x \notin flushed
        /\ dq' = Append(dq, [kind |-> "bubble", obj |-> x])
    BY <1>10 DEF CallbackDone, Flush
  <2>2. [kind |-> "bubble", obj |-> x] \in Cells
    BY <2>1 DEF Cells
  <2>3. \A i \in 1..Len(dq') : dq'[i].obj = x \/ (i \in 1..Len(dq) /\ dq'[i] = dq[i])
    BY <1>0, <2>1, <2>2, DqAppend
  <2> QED BY <1>0, <2>1, <2>3 DEF Flushed
<1>11. ASSUME NEW x \in current, CallbackDone, Free(x) PROVE Flushed'
  BY <1>1, <1>11 DEF CallbackDone, Free
<1> QED BY <1>2, <1>3, <1>4, <1>5, <1>6, <1>7, <1>8, <1>9, <1>10, <1>11 DEF Next, GcCallback

\* Behind a bubble no sample refers to its object.
LEMMA BehindBubbleStep == Inv /\ TypeOK' /\ [Next]_vars => BehindBubble'
<1> SUFFICES ASSUME Inv, TypeOK' PROVE [Next]_vars => BehindBubble'
  OBVIOUS
<1>0. TypeOK /\ BehindBubble /\ OnItsWay /\ Once /\ Gc \in Threads /\ Dq \in Threads
  BY TheThreads DEF Inv
<1>1. ASSUME dq' = dq, \A u \in Threads \ {Dq} : holds'[u] \subseteq holds[u]
      PROVE BehindBubble'
  BY <1>1, <1>0 DEF BehindBubble, BubbleAt
<1>2. ASSUME NEW t \in Threads, Wake(t) \/ Sleep(t) PROVE BehindBubble'
  BY <1>0, <1>1, <1>2 DEF TypeOK, Wake, Sleep, LetGo
<1>3. ASSUME NEW t \in Threads, Gather(t) \/ Count(t) \/ Enqueue(t) \/ GcPassed(t)
      PROVE BehindBubble'
  BY <1>0, <1>1, <1>3 DEF Gather, Count, Enqueue, GcPassed
<1>4. ASSUME NEW t \in Threads, NEW x \in Objects, Lookup(t, x) \/ Remove(t, x)
      PROVE BehindBubble'
  <2>1. ~InBubble(x) /\ dq' = dq
    BY <1>0, <1>4 DEF OnItsWay, Lookup, Remove
  <2>2. \A u \in Threads : holds'[u] \subseteq holds[u] \cup {x}
    BY <1>0, <1>4 DEF TypeOK, Lookup, Remove
  <2> QED BY <1>0, <2>1, <2>2 DEF BehindBubble, BubbleAt, InBubble
<1>5. ASSUME NEW e \in Cells, dq' = Append(dq, e), holds' = holds, ~InBubble(e.obj),
             e.kind = "bubble" => \A u \in Threads \ {Dq} : e.obj \notin holds[u]
      PROVE BehindBubble'
  <2>1. /\ Len(dq) \in Nat /\ Len(dq') = Len(dq) + 1 /\ dq'[Len(dq) + 1] = e
        /\ \A i \in 1..Len(dq) : dq'[i] = dq[i]
    BY <1>0, <1>5, DqAppend
  <2>2. SUFFICES ASSUME NEW i \in 1..Len(dq'), NEW o \in Objects, BubbleAt(i, o)'
                 PROVE  /\ \A u \in Threads \ {Dq} : o \notin holds[u]
                        /\ \A j \in i + 1..Len(dq') : dq'[j].obj # o
    BY <1>5 DEF BehindBubble
  <2>3. CASE i = Len(dq) + 1
    BY <1>5, <2>1, <2>2, <2>3 DEF BubbleAt
  <2>4. CASE i \in 1..Len(dq)
    <3>1. BubbleAt(i, o)
      BY <2>1, <2>2, <2>4 DEF BubbleAt
    <3>2. /\ \A u \in Threads \ {Dq} : o \notin holds[u]
          /\ \A j \in i + 1..Len(dq) : dq[j].obj # o
      BY <1>0, <2>4, <3>1 DEF BehindBubble
    <3>3. e.obj # o
      BY <1>5, <2>4, <3>1 DEF InBubble
    <3> QED BY <2>1, <2>4, <3>2, <3>3
  <2> QED BY <2>1, <2>3, <2>4
<1>6. ASSUME NEW t \in Threads, NEW x \in Objects, Deliver(t, x) PROVE BehindBubble'
  <2>1. /\ holds' = holds /\ x \in holds[t] /\ x \in ProxyWriters /\ t # Dq
        /\ dq' = Append(dq, [kind |-> "data", obj |-> x])
    BY <1>6 DEF Deliver, Others
  <2>2. ~InBubble(x)
    BY <1>0, <2>1 DEF BehindBubble, InBubble
  <2> QED BY <1>5, <2>1, <2>2 DEF Cells
<1>7. CASE DqData \/ DqBubble
  <2>1. dq # <<>> /\ dq' = Tail(dq) /\ \A u \in Threads \ {Dq} : holds'[u] = holds[u]
    BY <1>0, <1>7 DEF DqData, DqBubble, TypeOK
  <2>2. /\ Len(dq) \in Nat /\ Len(dq) >= 1 /\ Len(dq') = Len(dq) - 1
        /\ \A i \in 1..Len(dq') : dq'[i] = dq[i + 1]
    BY <1>0, <2>1, DqPop
  <2>3. SUFFICES ASSUME NEW i \in 1..Len(dq'), NEW o \in Objects, BubbleAt(i, o)'
                 PROVE  /\ \A u \in Threads \ {Dq} : o \notin holds[u]
                        /\ \A j \in i + 1..Len(dq') : dq'[j].obj # o
    BY <2>1 DEF BehindBubble
  <2>4. i + 1 \in 1..Len(dq) /\ BubbleAt(i + 1, o)
    BY <2>2, <2>3 DEF BubbleAt
  <2>5. /\ \A u \in Threads \ {Dq} : o \notin holds[u]
        /\ \A j \in i + 2..Len(dq) : dq[j].obj # o
    BY <1>0, <2>4 DEF BehindBubble
  <2> QED BY <2>2, <2>5
<1>8. CASE DqSleep \/ GcLeased
  BY <1>0, <1>1, <1>8 DEF TypeOK, DqSleep, GcLeased, LetGo
<1>9. CASE GcTake \/ GcExit \/ GcNotYet \/ GcReady \/ Stop \/ StopEnqueue \/ UNCHANGED vars
  BY <1>1, <1>9 DEF GcTake, GcExit, GcNotYet, GcReady, Stop, StopEnqueue, vars
<1>10. ASSUME NEW x \in current, CallbackDone, Flush(x) PROVE BehindBubble'
  <2>1. /\ holds' = holds /\ gcPc = "callback" /\ x \in ProxyWriters /\ x # NoOp
        /\ dq' = Append(dq, [kind |-> "bubble", obj |-> x])
    BY <1>10, GcAssumption DEF CallbackDone, Flush, NoOp
  <2>2. \A u \in Threads \ {Dq} : x \notin holds[u]
    BY <2>1, NobodyLeft DEF Protected
  <2>3. ~InBubble(x)
    BY <1>0, <2>1 DEF Once
  <2> QED BY <1>5, <2>1, <2>2, <2>3 DEF Cells
<1>11. ASSUME NEW x \in current, CallbackDone, Free(x) PROVE BehindBubble'
  BY <1>1, <1>11 DEF CallbackDone, Free
<1> QED BY <1>2, <1>3, <1>4, <1>6, <1>7, <1>8, <1>9, <1>10, <1>11 DEF Next, GcCallback

\* No thread and no sample comes to refer to what was freed.
LEMMA NoDanglingStep == Inv /\ TypeOK' /\ [Next]_vars => NoDangling'
<1> SUFFICES ASSUME Inv, TypeOK' PROVE [Next]_vars => NoDangling'
  OBVIOUS
<1>0. TypeOK /\ NoDangling /\ OnItsWay /\ Gc \in Threads /\ Dq \in Threads
  BY TheThreads DEF Inv
<1>1. ASSUME freed' = freed, dq' = dq, \A u \in Threads : holds'[u] \subseteq holds[u]
      PROVE NoDangling'
  BY <1>1, <1>0 DEF NoDangling
<1>2. ASSUME NEW t \in Threads, Wake(t) \/ Sleep(t) PROVE NoDangling'
  BY <1>0, <1>1, <1>2 DEF TypeOK, Wake, Sleep, LetGo, gcVars
<1>3. ASSUME NEW t \in Threads, Gather(t) \/ Count(t) \/ Enqueue(t) \/ GcPassed(t)
      PROVE NoDangling'
  BY <1>0, <1>1, <1>3 DEF Gather, Count, Enqueue, GcPassed, gcVars
<1>4. ASSUME NEW t \in Threads, NEW x \in Objects, Lookup(t, x) \/ Remove(t, x)
      PROVE NoDangling'
  <2>1. x \notin freed /\ freed' = freed /\ dq' = dq
    BY <1>0, <1>4 DEF OnItsWay, Lookup, Remove, gcVars
  <2>2. \A u \in Threads : holds'[u] \subseteq holds[u] \cup {x}
    BY <1>0, <1>4 DEF TypeOK, Lookup, Remove
  <2> QED BY <1>0, <2>1, <2>2 DEF NoDangling
<1>5. ASSUME NEW e \in Cells, dq' = Append(dq, e), holds' = holds, freed' = freed,
             e.obj \notin freed
      PROVE NoDangling'
  <2>1. \A i \in 1..Len(dq') : dq'[i] = e \/ (i \in 1..Len(dq) /\ dq'[i] = dq[i])
    BY <1>0, <1>5, DqAppend
  <2> QED BY <1>0, <1>5, <2>1 DEF NoDangling
<1>6. ASSUME NEW t \in Threads, NEW x \in Objects, Deliver(t, x) PROVE NoDangling'
  <2>1. /\ holds' = holds /\ freed' = freed /\ x \in holds[t] /\ x \in ProxyWriters
        /\ dq' = Append(dq, [kind |-> "data", obj |-> x])
    BY <1>6 DEF Deliver, gcVars
  <2>2. x \notin freed
    BY <1>0, <2>1 DEF NoDangling
  <2> QED BY <1>5, <2>1, <2>2 DEF Cells
<1>7. CASE DqData \/ DqBubble
  <2>1. dq # <<>> /\ dq' = Tail(dq) /\ freed' = freed
    BY <1>7 DEF DqData, DqBubble, gcVars
  <2>2. /\ Len(dq) \in Nat /\ Len(dq) >= 1 /\ Len(dq') = Len(dq) - 1
        /\ Head(dq) = dq[1] /\ \A i \in 1..Len(dq') : dq'[i] = dq[i + 1]
    BY <1>0, <2>1, DqPop
  <2>3. dq[1].obj \notin freed /\ \A i \in 1..Len(dq') : dq[i + 1].obj \notin freed
    BY <1>0, <2>2 DEF NoDangling
  <2>4. \A u \in Threads : holds'[u] \subseteq holds[u] \cup {dq[1].obj}
    <3>1. holds' = holds \/ holds' = [holds EXCEPT ![Dq] = {dq[1].obj}]
      BY <1>7, <2>2 DEF DqData, DqBubble
    <3> QED BY <1>0, <3>1 DEF TypeOK
  <2> QED BY <1>0, <2>1, <2>2, <2>3, <2>4 DEF NoDangling
<1>8. CASE DqSleep \/ GcLeased
  BY <1>0, <1>1, <1>8 DEF TypeOK, DqSleep, GcLeased, LetGo, gcVars
<1>9. CASE GcTake \/ GcExit \/ GcNotYet \/ GcReady \/ Stop \/ StopEnqueue \/ UNCHANGED vars
  BY <1>1, <1>9 DEF GcTake, GcExit, GcNotYet, GcReady, Stop, StopEnqueue, vars
<1>10. ASSUME NEW x \in current, CallbackDone, Flush(x) PROVE NoDangling'
  <2>1. /\ holds' = holds /\ freed' = freed /\ x \in ProxyWriters \ flushed
        /\ dq' = Append(dq, [kind |-> "bubble", obj |-> x])
    BY <1>10 DEF CallbackDone, Flush
  <2>2. x \notin freed
    BY <1>0, <2>1 DEF OnItsWay
  <2> QED BY <1>5, <2>1, <2>2 DEF Cells
<1>11. ASSUME NEW x \in current, CallbackDone, Free(x) PROVE NoDangling'
  <2>1. /\ holds' = holds /\ dq' = dq /\ freed' = freed \cup ({x} \ {NoOp})
        /\ gcPc = "callback" /\ x \notin ProxyWriters \ flushed
    BY <1>11 DEF CallbackDone, Free
  <2>2. ASSUME x # NoOp
        PROVE  (\A u \in Threads : x \notin holds[u]) /\ \A i \in 1..Len(dq) : dq[i].obj # x
    <3>1. CASE x \in flushed
      BY <3>1 DEF Inv, Flushed
    <3>2. CASE x \notin ProxyWriters
      <4>1. \A u \in Threads : x \notin holds[u]
        BY <2>1, <2>2, <3>2, NobodyLeft DEF Protected
      <4>2. \A i \in 1..Len(dq) : dq[i].obj \in ProxyWriters
        <5>1. dq \in Seq(Cells)
          BY <1>0 DEF TypeOK
        <5>2. \A i \in 1..Len(dq) : dq[i] \in Cells
          BY <5>1
        <5> QED BY <5>2 DEF Cells
      <4> QED BY <3>2, <4>1, <4>2
    <3> QED BY <2>1, <3>1, <3>2
  <2> QED BY <1>0, <2>1, <2>2 DEF NoDangling
<1> QED BY <1>2, <1>3, <1>4, <1>6, <1>7, <1>8, <1>9, <1>10, <1>11 DEF Next, GcCallback

\* Who refers to an object on its way has its virtual time recorded.
LEMMA WaitingStep == Inv /\ TypeOK' /\ [Next]_vars => Waiting'
<1> SUFFICES ASSUME Inv, TypeOK' PROVE [Next]_vars => Waiting'
  OBVIOUS
<1>0. /\ TypeOK /\ Resting /\ Once /\ OnItsWay /\ Waiting
      /\ Gc \in Threads /\ Dq \in Threads /\ N \in Nat
      /\ ProxyWriters \subseteq Objects /\ NoOp \notin Objects
  BY TheThreads, GcAssumption DEF Inv, NoOp
\* a step that leaves the requests where they are, or moves one from the queue to the gc
\* thread, and after which only those refer to something that did before
<1>a. ASSUME UNCHANGED <<pc, target, pos, waits>>,
             \A o \in Objects : InQueue(o)' \/ o \in current' => InQueue(o) \/ o \in current,
             \A u \in Threads : \A o \in Objects :
                 Protected(u, o)' => Protected(u, o) /\ vtime'[u] = vtime[u]
      PROVE Waiting'
  <2>1. \A t, o : Deleting(t, o)' <=> Deleting(t, o)
    BY <1>a, Places
  <2> QED BY <1>0, <1>a, <2>1 DEF Waiting
\* thread t goes on to other things, or had nothing, so that it refers to no object
<1>b. ASSUME NEW t \in Threads, WakeUp(t) \/ FallAsleep(t), holds' = [holds EXCEPT ![t] = {}],
             UNCHANGED <<pc, target, pos, waits, queue, current>>
      PROVE Waiting'
  <2>1. \A u \in Threads : \A o \in Objects :
            Protected(u, o)' => Protected(u, o) /\ vtime'[u] = vtime[u]
    BY <1>0, <1>b, NextVtime DEF TypeOK, Protected
  <2> QED BY <1>a, <1>b, <2>1, Places
<1>c. holds[Gc] = {} \/ gcPc = "lease"
  BY <1>0 DEF Resting
<1>1. ASSUME NEW t \in Threads, Wake(t) \/ Sleep(t) PROVE Waiting'
  BY <1>1, <1>b DEF Wake, Sleep, LetGo, delVars, gcVars
<1>2. ASSUME NEW t \in Threads, Gather(t) PROVE Waiting'
  <2> PICK x, v : x = target[t] /\ v = pos[t]
    OBVIOUS
  <2>1. /\ UNCHANGED <<pc, target, vtime, holds, queue, current>> /\ v \in Threads
        /\ pos' = [pos EXCEPT ![t] = v + 1]
        /\ waits' = [waits EXCEPT ![x][v] = IF Awake(v) THEN vtime[v] ELSE Passed]
    BY <1>0, <1>2 DEF Gather, TypeOK, Threads, gcVars
  <2>2. Deleting(t, x) /\ \A u \in Threads : x \in Objects /\ Deleting(u, x) => u = t
    BY <1>0, <1>2 DEF Gather, Deleting, Once
  <2>3. \A u \in Threads : \A o \in Objects : ~(o = x /\ u = v) => waits'[o][u] = waits[o][u]
    BY <1>0, <2>1 DEF TypeOK
  <2>4. x \in Objects /\ holds[v] # {} => waits'[x][v] = vtime[v]
    BY <1>0, <2>1 DEF TypeOK, Resting
  <2>5. \A o \in Objects : InQueue(o) \/ o \in current => o # x
    BY <1>0, <2>2 DEF Once
  <2>6. ASSUME NEW w \in Threads, NEW u \in Threads, NEW o \in Objects,
               Deleting(w, o), pc[w] = "gather" => u < pos'[w], Protected(u, o)
        PROVE  waits'[o][u] = vtime[u]
    <3>1. holds[u] # {}
      BY <2>6 DEF Protected
    <3>2. CASE o = x /\ u = v
      BY <2>4, <3>1, <3>2
    <3>3. CASE o = x /\ u # v
      <4>1. w = t /\ pos'[w] = v + 1 /\ pos[w] = v
        BY <1>0, <2>1, <2>2, <2>6, <3>3 DEF TypeOK
      <4>2. u \in Int /\ v \in Int
        BY <2>1 DEF Threads
      <4>3. pc[w] = "gather" => u < pos[w]
        BY <2>6, <3>3, <4>1, <4>2
      <4> QED BY <1>0, <2>3, <2>6, <3>3, <4>3 DEF Waiting
    <3>4. CASE o # x
      <4>1. w # t
        BY <2>2, <2>6, <3>4 DEF Deleting
      <4>2. pos'[w] = pos[w]
        BY <1>0, <2>1, <4>1 DEF TypeOK
      <4> QED BY <1>0, <2>3, <2>6, <3>4, <4>2 DEF Waiting
    <3> QED BY <3>2, <3>3, <3>4
  <2>7. \A u \in Threads : \A o \in Objects :
            (InQueue(o) \/ o \in current) /\ Protected(u, o) => waits'[o][u] = vtime[u]
    BY <1>0, <2>3, <2>5 DEF Waiting
  <2>8. (\A w, o : Deleting(w, o)' <=> Deleting(w, o)) /\ (\A o : InQueue(o)' <=> InQueue(o))
    BY <2>1, Places
  <2>9. \A u, o : Protected(u, o)' <=> Protected(u, o)
    BY <2>1 DEF Protected
  <2> QED BY <2>1, <2>6, <2>7, <2>8, <2>9 DEF Waiting
<1>3. ASSUME NEW t \in Threads, Count(t) PROVE Waiting'
  <2>1. /\ UNCHANGED <<vtime, holds, target, pos, waits, queue, current>>
        /\ pos[t] = N + 1 /\ pc' = [pc EXCEPT ![t] = "enqueue"]
    BY <1>3 DEF Count
  <2>2. \A u \in Threads : u < N + 1
    BY <1>0 DEF Threads
  <2>3. \A w, u \in Threads : (pc'[w] = "gather" => u < pos'[w]) => (pc[w] = "gather" => u < pos[w])
    BY <1>0, <2>1, <2>2 DEF TypeOK
  <2>4. \A w \in Threads, o \in Objects : Deleting(w, o)' <=> Deleting(w, o)
    BY <1>0, <1>3, DeletingStep
  <2>5. (\A o : InQueue(o)' <=> InQueue(o)) /\ (\A u, o : Protected(u, o)' <=> Protected(u, o))
    BY <2>1, Places DEF Protected
  <2> QED BY <1>0, <2>1, <2>3, <2>4, <2>5 DEF Waiting
<1>4. ASSUME NEW t \in Threads, Enqueue(t) PROVE Waiting'
  <2> PICK x : x = target[t]
    OBVIOUS
  <2>1. /\ UNCHANGED <<vtime, holds, waits, current>> /\ pc[t] = "enqueue" /\ x \in Requests
        /\ queue' = Append(queue, x) /\ pc' = [pc EXCEPT ![t] = "run"]
        /\ pos' = [pos EXCEPT ![t] = 1]
    BY <1>0, <1>4 DEF Enqueue, TypeOK, Requests, NoOp
  <2>2. Deleting(t, x)
    BY <2>1 DEF Deleting
  <2>3. \A o : InQueue(o)' <=> InQueue(o) \/ o = x
    BY <1>0, <2>1, QueueAppend
  <2>4. \A w \in Threads, o \in Objects :
            Deleting(w, o)' => Deleting(w, o) /\ pc'[w] = pc[w] /\ pos'[w] = pos[w]
    BY <1>0, <1>4, <2>1, DeletingStep DEF TypeOK
  <2>5. \A u, o : Protected(u, o)' <=> Protected(u, o)
    BY <2>1 DEF Protected
  <2>6. \A u \in Threads : x \in Objects /\ Protected(u, x) => waits[x][u] = vtime[u]
    BY <1>0, <2>1, <2>2 DEF Waiting
  <2> QED BY <1>0, <2>1, <2>3, <2>4, <2>5, <2>6 DEF Waiting
<1>5. ASSUME NEW t \in Threads, GcPassed(t) PROVE Waiting'
  <2>1. PICK x \in Requested : HasPassed(x, t) /\ waits' = [waits EXCEPT ![x][t] = Passed]
    BY <1>5 DEF GcPassed
  <2>2. UNCHANGED <<pc, target, pos, vtime, holds, queue, current>>
    BY <1>5 DEF GcPassed, gcVars
  <2>3. x \in Objects /\ x \in current
    BY <1>0, <2>1 DEF Requested, TypeOK, Requests
  <2>4. waits[x][t] # vtime[t]
    BY <1>0, <1>5, <2>1, VirtualTime DEF HasPassed, TypeOK
  <2>5. \A u \in Threads : \A o \in Objects : ~(o = x /\ u = t) => waits'[o][u] = waits[o][u]
    BY <1>0, <2>1, <2>3 DEF TypeOK
  <2>6. ~Protected(t, x) /\ \A w \in Threads : ~Deleting(w, x)
    BY <1>0, <2>3, <2>4 DEF Waiting, Once
  <2>7. /\ (\A o : InQueue(o)' <=> InQueue(o)) /\ (\A u, o : Protected(u, o)' <=> Protected(u, o))
        /\ (\A w, o : Deleting(w, o)' <=> Deleting(w, o))
    BY <2>2, Places DEF Protected
  <2> QED BY <1>0, <2>2, <2>5, <2>6, <2>7 DEF Waiting
<1>6. ASSUME NEW t \in Threads, NEW x \in Objects, Lookup(t, x) PROVE Waiting'
  <2>1. UNCHANGED <<pc, target, pos, waits, vtime, queue, current>> /\ x \in findable
    BY <1>6 DEF Lookup, delVars, gcVars
  <2>2. \A u \in Threads : \A o \in Objects : o # x => (Protected(u, o)' => Protected(u, o))
    BY <1>0, <1>6 DEF Lookup, TypeOK, Protected
  <2>3. ~InQueue(x) /\ x \notin current /\ \A w \in Threads : ~Deleting(w, x)
    BY <1>0, <2>1 DEF OnItsWay
  <2>4. (\A o : InQueue(o)' <=> InQueue(o)) /\ (\A w, o : Deleting(w, o)' <=> Deleting(w, o))
    BY <2>1, Places
  <2> QED BY <1>0, <2>1, <2>2, <2>3, <2>4 DEF Waiting
<1>7. ASSUME NEW t \in Threads, NEW x \in Objects, Remove(t, x) PROVE Waiting'
  <2>1. /\ UNCHANGED <<waits, vtime, queue, current>> /\ x \in findable
        /\ pc' = [pc EXCEPT ![t] = "gather"] /\ pos' = [pos EXCEPT ![t] = 1]
    BY <1>7 DEF Remove, gcVars
  <2>2. \A u \in Threads : \A o \in Objects : o # x => (Protected(u, o)' => Protected(u, o))
    BY <1>0, <1>7 DEF Remove, TypeOK, Protected
  <2>3. ~InQueue(x) /\ x \notin current /\ \A w \in Threads : ~Deleting(w, x)
    BY <1>0, <2>1 DEF OnItsWay
  <2>4. (\A o : InQueue(o)' <=> InQueue(o))
        /\ \A w \in Threads, o \in Objects :
               Deleting(w, o)' <=> IF w = t THEN o = x ELSE Deleting(w, o)
    BY <1>0, <1>7, <2>1, Places, DeletingStep
  <2>5. \A u \in Threads : ~(pc'[t] = "gather" => u < pos'[t])
    BY <1>0, <2>1 DEF TypeOK, Threads
  <2>6. \A w \in Threads \ {t} : pc'[w] = pc[w] /\ pos'[w] = pos[w]
    BY <1>0, <2>1 DEF TypeOK
  <2> QED BY <1>0, <2>1, <2>2, <2>3, <2>4, <2>5, <2>6 DEF Waiting
<1>8. ASSUME NEW t \in Threads, NEW x \in Objects, Deliver(t, x) PROVE Waiting'
  <2>1. UNCHANGED <<pc, target, pos, waits, vtime, holds, queue, current>>
    BY <1>8 DEF Deliver, delVars, gcVars
  <2> QED BY <1>a, <2>1, Places DEF Protected
<1>9. CASE DqData
  <2>1. /\ UNCHANGED <<pc, target, pos, waits, queue, current>>
        /\ dq # <<>> /\ dq' = Tail(dq) /\ holds' = [holds EXCEPT ![Dq] = {Head(dq).obj}]
    BY <1>9 DEF DqData, delVars, gcVars
  <2>2. Head(dq).obj \in ProxyWriters
    BY <1>0, <2>1, DqPop DEF Cells
  <2>3. \A u \in Threads : \A o \in Objects :
            Protected(u, o)' => Protected(u, o) /\ vtime'[u] = vtime[u]
    BY <1>0, <1>9, <2>1, <2>2, NextVtime DEF DqData, TypeOK, Protected
  <2> QED BY <1>a, <2>1, <2>3, Places
<1>10. CASE DqBubble
  <2> PICK x : x = Head(dq).obj
    OBVIOUS
  <2>1. /\ UNCHANGED <<pc, target, pos, waits, holds, current>> /\ queue' = Append(queue, x)
        /\ ~Awake(Dq)
    BY <1>10 DEF DqBubble, delVars
  <2>2. x \in ProxyWriters /\ x \in Requests /\ \A u \in Threads : x \notin holds[u]
    BY <1>0, <1>10, HandedBack DEF Requests
  <2>3. \A o : InQueue(o)' <=> InQueue(o) \/ o = x
    BY <1>0, <2>1, <2>2, QueueAppend
  <2>4. holds[Dq] = {}
    BY <1>0, <2>1 DEF Resting
  <2>5. \A u \in Threads : \A o \in Objects :
            Protected(u, o)' => Protected(u, o) /\ vtime'[u] = vtime[u] /\ o # x
    BY <1>0, <1>10, <2>1, <2>2, <2>4, NextVtime DEF DqBubble, Protected
  <2>6. \A w, o : Deleting(w, o)' <=> Deleting(w, o)
    BY <2>1, Places
  <2> QED BY <1>0, <2>1, <2>3, <2>5, <2>6 DEF Waiting
<1>11. CASE DqSleep \/ GcLeased
  BY <1>0, <1>b, <1>11 DEF DqSleep, GcLeased, LetGo, delVars, gcVars
<1>12. CASE GcTake \/ GcReady \/ CallbackDone
  <2>1. gcPc # "lease" /\ holds' = holds /\ UNCHANGED <<pc, target, pos, waits>>
        /\ (WakeUp(Gc) \/ FallAsleep(Gc))
    BY <1>12 DEF GcTake, GcReady, CallbackDone, delVars
  <2>2. \A u \in Threads : \A o \in Objects :
            Protected(u, o)' => Protected(u, o) /\ vtime'[u] = vtime[u]
    BY <1>0, <1>c, <2>1, NextVtime DEF Protected
  <2>3. \A o \in Objects : InQueue(o)' \/ o \in current' => InQueue(o) \/ o \in current
    <3>1. CASE queue # <<>> /\ current' = {Head(queue)} /\ queue' = Tail(queue)
      BY <1>0, <3>1, QueuePop
    <3>2. CASE current' \subseteq current /\ queue' = queue
      BY <3>2, Places
    <3> QED BY <1>12, <3>1, <3>2 DEF GcTake, GcReady, CallbackDone
  <2> QED BY <1>a, <2>1, <2>2, <2>3
<1>13. CASE GcExit \/ GcNotYet \/ Stop \/ UNCHANGED vars
  <2>1. UNCHANGED <<pc, target, pos, waits, vtime, holds, queue, current>>
    BY <1>13 DEF GcExit, GcNotYet, Stop, vars, delVars
  <2> QED BY <1>a, <2>1, Places DEF Protected
<1>14. CASE StopEnqueue
  <2>1. /\ UNCHANGED <<pc, target, pos, waits, vtime, holds, current>>
        /\ queue' = Append(queue, NoOp) /\ NoOp \in Requests
    BY <1>14 DEF StopEnqueue, delVars, Requests
  <2>2. \A o : InQueue(o)' <=> InQueue(o) \/ o = NoOp
    BY <1>0, <2>1, QueueAppend
  <2> QED BY <1>0, <1>a, <2>1, <2>2 DEF Protected
<1> QED BY <1>1, <1>2, <1>3, <1>4, <1>5, <1>6, <1>7, <1>8, <1>9, <1>10, <1>11, <1>12, <1>13, <1>14
        DEF Next, GcCallback

----------------------------------------------------------------------------
\* The invariant holds in every state.
THEOREM Invariance == Spec => []Inv
<1>1. Init => Inv
  BY Initially
<1>2. Inv /\ [Next]_vars => Inv'
  <2> SUFFICES ASSUME Inv, [Next]_vars PROVE Inv'
    OBVIOUS
  <2>1. TypeOK'
    BY TypeStep DEF Inv
  <2>2. Resting' /\ Once' /\ QueuedOnce' /\ OnItsWay'
    BY <2>1, RestingStep, OnceStep, QueuedOnceStep, OnItsWayStep
  <2>3. Waiting' /\ BehindBubble' /\ Flushed' /\ NoDangling'
    BY <2>1, WaitingStep, BehindBubbleStep, FlushedStep, NoDanglingStep
  <2> QED BY <2>1, <2>2, <2>3 DEF Inv
<1> QED BY <1>1, <1>2, PTL DEF Spec

\* Whatever the number of threads and objects, the order in which the gc thread and the
\* delivery queue get to them, and however often virtual times have wrapped around:
\* nothing is freed that a thread or a queued sample still refers to.
THEOREM NothingDangles == Spec => []NoDangling
<1>1. Inv => NoDangling
  BY DEF Inv
<1> QED BY <1>1, Invariance, PTL

----------------------------------------------------------------------------
(* The end of the gc thread: nothing is left behind                        *)

\* what the count counts: the requests made, and that of gcreq_queue_free from the moment
\* it is made
Pending ==
    {o \in Requests : \/ \E t \in Threads : pc[t] = "enqueue" /\ target[t] = o
                      \/ InQueue(o) \/ o \in current \/ InBubble(o)
                      \/ o = NoOp /\ stopping = "waiting"}

Counted == IsFiniteSet(Pending) /\ count = Cardinality(Pending)

\* the no-op is queued once, when nothing is found or deleted any more; the gc thread ends
\* after that, when nothing is left to count
Ending ==
    /\ stopping # "no" => findable = {} /\ \A t \in Threads : pc[t] = "run"
    /\ stopping # "enqueued" => ~InQueue(NoOp) /\ NoOp \notin current
    /\ gcPc = "exited" => stopping # "no" /\ count = 0

NoOpOnce ==
    /\ NoOp \in current => ~InQueue(NoOp)
    /\ \A i, j \in 1..Len(queue) : queue[i] = NoOp /\ queue[j] = NoOp => i = j

\* an object is found, being deleted, pending or freed, and never gets lost
Somewhere ==
    /\ \A o \in Objects : o \in findable \/ o \in Pending \/ o \in freed
                          \/ \E t \in Threads : Deleting(t, o)
    /\ \A t \in Threads : pc[t] # "run" => target[t] \in Objects

Accounted == Counted /\ Ending /\ NoOpOnce /\ Somewhere

\* A queue from which something is taken still has the rest.
LEMMA QueueRest ==
    ASSUME TypeOK, queue # <<>>, queue' = Tail(queue)
    PROVE  \A o : InQueue(o) <=> InQueue(o)' \/ o = Head(queue)
<1>1. /\ Len(queue) \in Nat /\ Len(queue) >= 1 /\ Len(queue') = Len(queue) - 1
      /\ Head(queue) = queue[1] /\ \A i \in 1..Len(queue') : queue'[i] = queue[i + 1]
      /\ InQueue(Head(queue)) /\ \A o : InQueue(o)' => InQueue(o)
  BY QueuePop
<1>2. ASSUME NEW o, InQueue(o), o # Head(queue) PROVE InQueue(o)'
  <2>1. PICK i \in 1..Len(queue) : queue[i] = o
    BY <1>2 DEF InQueue
  <2>2. i - 1 \in 1..Len(queue') /\ (i - 1) + 1 = i
    BY <1>1, <1>2, <2>1
  <2>3. queue'[i - 1] = o
    BY <1>1, <2>1, <2>2
  <2> QED BY <2>2, <2>3 DEF InQueue
<1> QED BY <1>1, <1>2

\* The same for the bubbles in the delivery queue.
LEMMA DqRest ==
    ASSUME TypeOK, dq # <<>>, dq' = Tail(dq)
    PROVE  \A o : InBubble(o) <=> InBubble(o)' \/ (Head(dq).kind = "bubble" /\ Head(dq).obj = o)
<1>1. /\ Len(dq) \in Nat /\ Len(dq) >= 1 /\ Len(dq') = Len(dq) - 1
      /\ Head(dq) = dq[1] /\ \A i \in 1..Len(dq') : dq'[i] = dq[i + 1]
      /\ \A o : InBubble(o)' => InBubble(o)
  BY DqPop
<1>2. ASSUME NEW o, InBubble(o), ~(Head(dq).kind = "bubble" /\ Head(dq).obj = o)
      PROVE  InBubble(o)'
  <2>1. PICK i \in 1..Len(dq) : dq[i].kind = "bubble" /\ dq[i].obj = o
    BY <1>2 DEF InBubble, BubbleAt
  <2>2. i - 1 \in 1..Len(dq') /\ (i - 1) + 1 = i
    BY <1>1, <1>2, <2>1
  <2>3. dq'[i - 1] = dq[i]
    BY <1>1, <2>2
  <2> QED BY <2>1, <2>2, <2>3 DEF InBubble, BubbleAt
<1>3. ASSUME NEW o, Head(dq).kind = "bubble", Head(dq).obj = o PROVE InBubble(o)
  <2>1. 1 \in 1..Len(dq) /\ dq[1].kind = "bubble" /\ dq[1].obj = o
    BY <1>1, <1>3
  <2> QED BY <2>1 DEF InBubble, BubbleAt
<1> QED BY <1>1, <1>2, <1>3

\* The steps that make no request and end none.
Moving ==
    \/ \E t \in Threads : Wake(t) \/ Sleep(t) \/ Gather(t) \/ Enqueue(t) \/ GcPassed(t)
    \/ \E t \in Threads, o \in Objects : Lookup(t, o) \/ Remove(t, o) \/ Deliver(t, o)
    \/ DqData \/ DqBubble \/ DqSleep
    \/ GcTake \/ GcExit \/ GcLeased \/ GcNotYet \/ GcReady
    \/ CallbackDone /\ \E o \in current : Flush(o)
    \/ StopEnqueue \/ UNCHANGED vars

\* No request is lost or made by such a step.
LEMMA MovingKeepsPending == ASSUME Inv, Accounted, Moving PROVE Pending' = Pending
<1>0. /\ TypeOK /\ NoOp \notin Objects /\ current \subseteq Requests /\ ProxyWriters \subseteq Objects
      /\ \A o, q \in current : o = q
  BY GcAssumption DEF Inv, NoOp, TypeOK
<1>1. CASE UNCHANGED <<pc, target, queue, current, dq, stopping>>
  BY <1>1, Places DEF Pending
<1>2. ASSUME NEW t \in Threads, Enqueue(t) PROVE Pending' = Pending
  <2>1. /\ UNCHANGED <<current, dq, stopping>> /\ target[t] \in Objects
        /\ queue' = Append(queue, target[t]) /\ pc[t] = "enqueue"
        /\ pc' = [pc EXCEPT ![t] = "run"] /\ target' = [target EXCEPT ![t] = NoObj]
    BY <1>2 DEF Enqueue, Accounted, Somewhere
  <2>2. \A o : InQueue(o)' <=> InQueue(o) \/ o = target[t]
    BY <1>0, <2>1, QueueAppend DEF Requests
  <2>3. \A o : InBubble(o)' <=> InBubble(o)
    BY <2>1, Places
  <2>4. \A u \in Threads : IF u = t THEN pc'[u] = "run"
                           ELSE pc'[u] = pc[u] /\ target'[u] = target[u]
    BY <1>0, <2>1 DEF TypeOK
  <2> QED BY <2>1, <2>2, <2>3, <2>4 DEF Pending
<1>3. ASSUME NEW t \in Threads, NEW x \in Objects, Remove(t, x) PROVE Pending' = Pending
  <2>1. /\ UNCHANGED <<queue, current, dq, stopping>> /\ pc[t] = "run"
        /\ pc' = [pc EXCEPT ![t] = "gather"] /\ target' = [target EXCEPT ![t] = x]
    BY <1>3 DEF Remove, Using, gcVars
  <2>2. \A u \in Threads : IF u = t THEN pc'[u] = "gather"
                           ELSE pc'[u] = pc[u] /\ target'[u] = target[u]
    BY <1>0, <2>1 DEF TypeOK
  <2>3. (\A o : InQueue(o)' <=> InQueue(o)) /\ (\A o : InBubble(o)' <=> InBubble(o))
    BY <2>1, Places
  <2> QED BY <2>1, <2>2, <2>3 DEF Pending
<1>4. ASSUME NEW t \in Threads, NEW x \in Objects, Deliver(t, x) PROVE Pending' = Pending
  <2>1. /\ UNCHANGED <<pc, target, queue, current, stopping>>
        /\ [kind |-> "data", obj |-> x] \in Cells
        /\ dq' = Append(dq, [kind |-> "data", obj |-> x])
    BY <1>4 DEF Deliver, Cells, delVars, gcVars
  <2>2. \A o : InBubble(o)' <=> InBubble(o)
    BY <1>0, <2>1, DqAppend
  <2>3. \A o : InQueue(o)' <=> InQueue(o)
    BY <2>1, Places
  <2> QED BY <2>1, <2>2, <2>3 DEF Pending
<1>5. CASE DqData
  <2>1. /\ UNCHANGED <<pc, target, queue, current, stopping>>
        /\ dq # <<>> /\ dq' = Tail(dq) /\ Head(dq).kind = "data"
    BY <1>5 DEF DqData, delVars, gcVars
  <2>2. \A o : InBubble(o)' <=> InBubble(o)
    BY <1>0, <2>1, DqRest
  <2>3. \A o : InQueue(o)' <=> InQueue(o)
    BY <2>1, Places
  <2> QED BY <2>1, <2>2, <2>3 DEF Pending
<1>6. CASE DqBubble
  <2> DEFINE x == Head(dq).obj
  <2>1. /\ UNCHANGED <<pc, target, current, stopping>> /\ queue' = Append(queue, x)
        /\ dq # <<>> /\ dq' = Tail(dq) /\ Head(dq).kind = "bubble"
    BY <1>6 DEF DqBubble, delVars
  <2>2. x \in Requests
    <3>1. Head(dq) \in Cells
      BY <1>0, <2>1, DqPop
    <3> QED BY <1>0, <3>1 DEF Cells, Requests
  <2> HIDE DEF x
  <2>3. \A o : InBubble(o) <=> InBubble(o)' \/ o = x
    BY <1>0, <2>1, DqRest DEF x
  <2>4. \A o : InQueue(o)' <=> InQueue(o) \/ o = x
    BY <1>0, <2>1, <2>2, QueueAppend
  <2> QED BY <2>1, <2>3, <2>4 DEF Pending
<1>7. CASE GcTake
  <2>1. UNCHANGED <<pc, target, dq, stopping>>
    BY <1>7 DEF GcTake, delVars
  <2>2. \A o : InBubble(o)' <=> InBubble(o)
    BY <2>1, Places
  <2>3. CASE UNCHANGED <<current, queue>>
    BY <2>1, <2>3, <1>1
  <2>4. CASE current = {} /\ queue # <<>> /\ current' = {Head(queue)} /\ queue' = Tail(queue)
    <3>1. \A o : InQueue(o) \/ o \in current <=> InQueue(o)' \/ o \in current'
      BY <1>0, <2>4, QueueRest
    <3> QED BY <2>1, <2>2, <3>1 DEF Pending
  <2> QED BY <1>7, <2>3, <2>4 DEF GcTake
<1>8. ASSUME CallbackDone, NEW x \in current, Flush(x) PROVE Pending' = Pending
  <2>1. /\ UNCHANGED <<pc, target, queue, stopping>> /\ current' = {} /\ x \in ProxyWriters
        /\ dq' = Append(dq, [kind |-> "bubble", obj |-> x])
    BY <1>8 DEF CallbackDone, Flush, delVars
  <2>2. \A o : InBubble(o)' <=> InBubble(o) \/ o = x
    <3>1. [kind |-> "bubble", obj |-> x] \in Cells
      BY <2>1 DEF Cells
    <3> QED BY <1>0, <2>1, <3>1, DqAppend
  <2>3. (\A o : InQueue(o)' <=> InQueue(o)) /\ (\A o : o \in current <=> o = x)
    BY <1>0, <1>8, <2>1, Places
  <2> QED BY <2>1, <2>2, <2>3 DEF Pending
<1>9. CASE StopEnqueue
  <2>1. /\ UNCHANGED <<pc, target, dq, current>> /\ queue' = Append(queue, NoOp)
        /\ stopping = "waiting" /\ stopping' = "enqueued" /\ NoOp \in Requests
    BY <1>9 DEF StopEnqueue, delVars, Requests
  <2>2. \A o : InQueue(o)' <=> InQueue(o) \/ o = NoOp
    BY <1>0, <2>1, QueueAppend
  <2>3. \A o : InBubble(o)' <=> InBubble(o)
    BY <2>1, Places
  <2> QED BY <2>1, <2>2, <2>3 DEF Pending
<1>10. CASE \/ \E t \in Threads : Wake(t) \/ Sleep(t) \/ Gather(t) \/ GcPassed(t)
            \/ \E t \in Threads, o \in Objects : Lookup(t, o)
            \/ DqSleep \/ GcExit \/ GcLeased \/ GcNotYet \/ GcReady \/ UNCHANGED vars
  BY <1>1, <1>10 DEF Wake, Sleep, Gather, GcPassed, Lookup, DqSleep, GcExit, GcLeased, GcNotYet,
                     GcReady, delVars, gcVars, vars
<1> QED BY <1>2, <1>3, <1>4, <1>5, <1>6, <1>7, <1>8, <1>9, <1>10 DEF Moving

\* The others: a request is made, one ends, and that of gcreq_queue_free is made.
LEMMA Cases ==
    [Next]_vars =>
        \/ Moving \/ Stop
        \/ \E t \in Threads : Count(t)
        \/ CallbackDone /\ \E x \in current : Free(x)
BY DEF Next, GcCallback, Moving

\* The count is that of the requests that are pending.
LEMMA CountedStep == ASSUME Inv, Accounted, [Next]_vars PROVE Counted'
<1>0. /\ TypeOK /\ NoOp \notin Objects /\ current \subseteq Requests /\ ProxyWriters \subseteq Objects
      /\ \A o, q \in current : o = q
      /\ IsFiniteSet(Pending) /\ count = Cardinality(Pending)
  BY GcAssumption DEF Inv, NoOp, TypeOK, Accounted, Counted
<1>1. CASE Moving
  <2>1. count' = count
    BY <1>1 DEF Moving, Wake, Sleep, Gather, Enqueue, GcPassed, Lookup, Remove, Deliver, DqData, DqBubble,
                DqSleep, GcTake, GcExit, GcLeased, GcNotYet, GcReady, Flush, StopEnqueue, gcVars, vars
  <2>2. Pending' = Pending
    BY <1>1, MovingKeepsPending
  <2> QED BY <1>0, <2>1, <2>2 DEF Counted
<1>2. ASSUME NEW t \in Threads, Count(t) PROVE Counted'
  <2> DEFINE x == target[t]
  <2>1. /\ UNCHANGED <<target, queue, current, dq, stopping>> /\ count' = count + 1
        /\ pc[t] = "gather" /\ pc' = [pc EXCEPT ![t] = "enqueue"]
        /\ x \in Objects /\ x \in Requests /\ Deleting(t, x)
    BY <1>2 DEF Count, Accounted, Somewhere, Deleting, Requests
  <2> HIDE DEF x
  <2>2. x \notin Pending
    <3>1. ~InQueue(x) /\ x \notin current /\ ~InBubble(x) /\ x # NoOp
      BY <1>0, <2>1 DEF Inv, Once
    <3>2. \A u \in Threads : pc[u] = "enqueue" => target[u] # x
      BY <2>1 DEF Inv, Once, Deleting
    <3> QED BY <3>1, <3>2 DEF Pending
  <2>3. Pending' = Pending \cup {x}
    <3>1. \A u \in Threads : IF u = t THEN pc'[u] = "enqueue" /\ target'[u] = x
                             ELSE pc'[u] = pc[u] /\ target'[u] = target[u]
      BY <1>0, <2>1 DEF TypeOK, x
    <3>2. (\A o : InQueue(o)' <=> InQueue(o)) /\ (\A o : InBubble(o)' <=> InBubble(o))
      BY <2>1, Places
    <3>3. UNCHANGED <<current, stopping>> /\ x \in Requests /\ pc[t] # "enqueue"
      BY <2>1
    <3> QED BY <3>1, <3>2, <3>3 DEF Pending
  <2>4. IsFiniteSet(Pending \cup {x}) /\ Cardinality(Pending \cup {x}) = Cardinality(Pending) + 1
    BY <1>0, <2>2, FS_AddElement
  <2> QED BY <1>0, <2>1, <2>3, <2>4 DEF Counted
<1>3. ASSUME CallbackDone, NEW x \in current, Free(x) PROVE Counted'
  <2>1. /\ UNCHANGED <<pc, target, queue, stopping, dq>> /\ current' = {} /\ count' = count - 1
        /\ x \in Requests
    BY <1>0, <1>3 DEF CallbackDone, Free, delVars
  <2>2. x \in Pending
    BY <1>3, <2>1 DEF Pending
  <2>3. /\ ~InQueue(x) /\ ~InBubble(x) /\ ~(x = NoOp /\ stopping = "waiting")
        /\ \A t \in Threads : ~(pc[t] = "enqueue" /\ target[t] = x)
    <3>1. CASE x = NoOp
      <4>1. stopping = "enqueued" /\ ~InQueue(x)
        BY <1>0, <1>3, <3>1 DEF Accounted, Ending, NoOpOnce, TypeOK
      <4>2. \A t \in Threads : pc[t] = "run"
        BY <4>1 DEF Accounted, Ending
      <4>3. ~InBubble(x)
        <5>1. dq \in Seq(Cells)
          BY <1>0 DEF TypeOK
        <5>2. \A i \in 1..Len(dq) : dq[i] \in Cells
          BY <5>1
        <5> QED BY <1>0, <3>1, <5>2 DEF InBubble, BubbleAt, Cells
      <4> QED BY <4>1, <4>2, <4>3
    <3>2. CASE x # NoOp
      <4>1. x \in Objects
        BY <2>1, <3>2 DEF Requests
      <4> QED BY <1>3, <3>2, <4>1 DEF Inv, Once, Deleting
    <3> QED BY <3>1, <3>2
  <2>4. Pending' = Pending \ {x}
    <3>1. (\A o : InQueue(o)' <=> InQueue(o)) /\ (\A o : InBubble(o)' <=> InBubble(o))
      BY <2>1, Places
    <3>2. \A o \in current : o = x
      BY <1>0, <1>3
    <3> QED BY <2>1, <2>3, <3>1, <3>2 DEF Pending
  <2>5. IsFiniteSet(Pending \ {x}) /\ Cardinality(Pending \ {x}) = Cardinality(Pending) - 1
    BY <1>0, <2>2, FS_RemoveElement
  <2> QED BY <1>0, <2>1, <2>4, <2>5 DEF Counted
<1>4. CASE Stop
  <2>1. /\ UNCHANGED <<pc, target, queue, current, dq>> /\ count' = count + 1
        /\ stopping = "no" /\ stopping' = "waiting" /\ \A t \in Threads : pc[t] = "run"
        /\ NoOp \in Requests
    BY <1>4 DEF Stop, StopPossible, delVars, Requests
  <2>2. NoOp \notin Pending
    <3>1. ~InQueue(NoOp) /\ NoOp \notin current
      BY <2>1 DEF Accounted, Ending
    <3>2. ~InBubble(NoOp)
      <4>1. dq \in Seq(Cells)
        BY <1>0 DEF TypeOK
      <4>2. \A i \in 1..Len(dq) : dq[i] \in Cells
        BY <4>1
      <4> QED BY <1>0, <4>2 DEF InBubble, BubbleAt, Cells
    <3> QED BY <2>1, <3>1, <3>2 DEF Pending
  <2>3. Pending' = Pending \cup {NoOp}
    <3>1. (\A o : InQueue(o)' <=> InQueue(o)) /\ (\A o : InBubble(o)' <=> InBubble(o))
      BY <2>1, Places
    <3> QED BY <2>1, <3>1 DEF Pending
  <2>4. IsFiniteSet(Pending \cup {NoOp}) /\ Cardinality(Pending \cup {NoOp}) = Cardinality(Pending) + 1
    BY <1>0, <2>2, FS_AddElement
  <2> QED BY <1>0, <2>1, <2>3, <2>4 DEF Counted
<1> QED BY <1>1, <1>2, <1>3, <1>4, Cases

\* The end comes once, after everything else.
LEMMA EndingStep == ASSUME Inv, Accounted, [Next]_vars PROVE Ending'
<1>0. TypeOK /\ Ending /\ NoOp \notin Objects /\ (\A t \in Threads : pc[t] # "run" => target[t] \in Objects)
  BY GcAssumption DEF Inv, NoOp, Accounted, Somewhere
<1>1. ASSUME NEW t \in Threads, Wake(t) \/ Sleep(t) \/ GcPassed(t) PROVE Ending'
  BY <1>0, <1>1, Places DEF Ending, Wake, Sleep, GcPassed, delVars, gcVars
<1>2. ASSUME NEW t \in Threads, Gather(t) \/ Count(t) PROVE Ending'
  <2>1. stopping' = "no" /\ stopping = "no" /\ UNCHANGED <<queue, current, gcPc>>
    BY <1>0, <1>2 DEF Ending, Gather, Count, TypeOK, gcVars
  <2> QED BY <1>0, <2>1, Places DEF Ending
<1>3. ASSUME NEW t \in Threads, Enqueue(t) PROVE Ending'
  <2>1. /\ stopping' = "no" /\ stopping = "no" /\ UNCHANGED <<current, gcPc>>
        /\ queue' = Append(queue, target[t]) /\ target[t] \in Requests /\ target[t] # NoOp
    BY <1>0, <1>3 DEF Ending, Enqueue, Requests
  <2>2. InQueue(NoOp)' <=> InQueue(NoOp)
    BY <1>0, <2>1, QueueAppend
  <2> QED BY <1>0, <2>1, <2>2 DEF Ending
<1>4. ASSUME NEW t \in Threads, NEW o \in Objects, Lookup(t, o) \/ Deliver(t, o) PROVE Ending'
  BY <1>0, <1>4, Places DEF Ending, Lookup, Deliver, delVars, gcVars
<1>5. ASSUME NEW t \in Threads, NEW o \in Objects, Remove(t, o) PROVE Ending'
  <2>1. stopping = "no" /\ UNCHANGED <<queue, current, gcPc, stopping>>
    BY <1>5 DEF Remove, gcVars
  <2> QED BY <1>0, <2>1, Places DEF Ending
<1>6. CASE DqData \/ DqSleep \/ GcLeased \/ GcNotYet \/ GcReady \/ UNCHANGED vars
  BY <1>0, <1>6, Places DEF Ending, DqData, DqSleep, GcLeased, GcNotYet, GcReady, delVars, gcVars, vars
<1>7. CASE DqBubble
  <2> DEFINE x == Head(dq).obj
  <2>1. /\ UNCHANGED <<pc, findable, current, stopping, gcPc, count>> /\ queue' = Append(queue, x)
        /\ dq # <<>> /\ dq' = Tail(dq)
    BY <1>7 DEF DqBubble, delVars
  <2>2. x \in Requests /\ x # NoOp
    <3>1. Head(dq) \in Cells
      BY <1>0, <2>1, DqPop
    <3> QED BY <1>0, <3>1, GcAssumption DEF Cells, Requests
  <2> HIDE DEF x
  <2>3. InQueue(NoOp)' <=> InQueue(NoOp)
    BY <1>0, <2>1, <2>2, QueueAppend
  <2> QED BY <1>0, <2>1, <2>3 DEF Ending
<1>8. CASE GcTake
  <2>1. UNCHANGED <<pc, findable, stopping>> /\ gcPc' = "lease"
    BY <1>8 DEF GcTake, delVars
  <2>2. CASE UNCHANGED <<current, queue>>
    BY <1>0, <2>1, <2>2, Places DEF Ending
  <2>3. CASE queue # <<>> /\ current' = {Head(queue)} /\ queue' = Tail(queue)
    <3>1. InQueue(Head(queue)) /\ (InQueue(NoOp)' => InQueue(NoOp))
      BY <1>0, <2>3, QueuePop
    <3> QED BY <1>0, <2>1, <2>3, <3>1 DEF Ending
  <2> QED BY <1>8, <2>2, <2>3 DEF GcTake
<1>9. CASE GcExit
  <2>1. UNCHANGED <<pc, findable, stopping, queue, current, count>> /\ stopping # "no" /\ count = 0
    BY <1>9 DEF GcExit, delVars
  <2> QED BY <1>0, <2>1, Places DEF Ending
<1>10. CASE CallbackDone /\ \E x \in current : Flush(x) \/ Free(x)
  <2>1. UNCHANGED <<pc, findable, stopping, queue>> /\ current' = {} /\ gcPc' = "take"
    BY <1>10 DEF CallbackDone, delVars
  <2> QED BY <1>0, <2>1, Places DEF Ending
<1>11. CASE Stop
  <2>1. /\ UNCHANGED <<pc, findable, queue, current, gcPc>> /\ stopping = "no" /\ stopping' = "waiting"
        /\ findable = {} /\ \A t \in Threads : pc[t] = "run"
    BY <1>11 DEF Stop, StopPossible, delVars
  <2> QED BY <1>0, <2>1, Places DEF Ending
<1>12. CASE StopEnqueue
  <2>1. /\ UNCHANGED <<pc, findable, count, gcPc>> /\ stopping = "waiting" /\ stopping' = "enqueued"
    BY <1>12 DEF StopEnqueue, delVars
  <2> QED BY <1>0, <2>1 DEF Ending
<1> QED BY <1>1, <1>2, <1>3, <1>4, <1>5, <1>6, <1>7, <1>8, <1>9, <1>10, <1>11, <1>12 DEF Next, GcCallback

\* The no-op is queued only once.
LEMMA NoOpOnceStep == ASSUME Inv, Accounted, [Next]_vars PROVE NoOpOnce'
<1>0. /\ TypeOK /\ NoOpOnce /\ Ending /\ NoOp \notin Objects
      /\ queue \in Seq(Requests) /\ Len(queue) \in Nat
  BY GcAssumption DEF Inv, NoOp, TypeOK, Accounted
<1>1. CASE UNCHANGED <<queue, current>> \/ (UNCHANGED queue /\ current' = {})
  BY <1>0, <1>1, Places DEF NoOpOnce
<1>2. ASSUME NEW e \in Requests, e # NoOp, queue' = Append(queue, e), UNCHANGED current PROVE NoOpOnce'
  <2>1. /\ Len(queue') = Len(queue) + 1 /\ queue'[Len(queue) + 1] = e
        /\ \A i \in 1..Len(queue) : queue'[i] = queue[i]
        /\ \A o : InQueue(o)' <=> InQueue(o) \/ o = e
    BY <1>0, <1>2, QueueAppend
  <2>2. \A i \in 1..Len(queue') : queue'[i] = NoOp => i \in 1..Len(queue) /\ queue[i] = NoOp
    BY <1>0, <1>2, <2>1
  <2> QED BY <1>0, <1>2, <2>1, <2>2 DEF NoOpOnce
<1>3. ASSUME NEW t \in Threads, Enqueue(t) PROVE NoOpOnce'
  <2>1. UNCHANGED current /\ queue' = Append(queue, target[t]) /\ target[t] \in Objects
    BY <1>3 DEF Enqueue, Accounted, Somewhere
  <2> QED BY <1>0, <1>2, <2>1 DEF Requests
<1>4. CASE DqBubble
  <2> DEFINE x == Head(dq).obj
  <2>1. UNCHANGED current /\ queue' = Append(queue, x) /\ dq # <<>> /\ dq' = Tail(dq)
    BY <1>4 DEF DqBubble, delVars
  <2>2. x \in Requests /\ x # NoOp
    <3>1. Head(dq) \in Cells
      BY <1>0, <2>1, DqPop
    <3> QED BY <1>0, <3>1, GcAssumption DEF Cells, Requests
  <2> QED BY <1>2, <2>1, <2>2
<1>5. CASE GcTake
  <2>1. CASE queue # <<>> /\ current' = {Head(queue)} /\ queue' = Tail(queue)
    <3>1. /\ Len(queue) >= 1 /\ Len(queue') = Len(queue) - 1 /\ Head(queue) = queue[1]
          /\ \A i \in 1..Len(queue') : queue'[i] = queue[i + 1]
      BY <1>0, <2>1, QueuePop
    <3>2. \A i, j \in 1..Len(queue') : queue'[i] = NoOp /\ queue'[j] = NoOp => i = j
      <4> SUFFICES ASSUME NEW i \in 1..Len(queue'), NEW j \in 1..Len(queue'),
                          queue'[i] = NoOp, queue'[j] = NoOp
                   PROVE  i = j
        OBVIOUS
      <4>1. i + 1 \in 1..Len(queue) /\ j + 1 \in 1..Len(queue)
        BY <1>0, <3>1
      <4>2. i + 1 = j + 1
        BY <1>0, <3>1, <4>1 DEF NoOpOnce
      <4> QED BY <4>2
    <3>3. NoOp \in current' => ~InQueue(NoOp)'
      <4> SUFFICES ASSUME queue[1] = NoOp, NEW i \in 1..Len(queue'), queue'[i] = NoOp PROVE FALSE
        BY <2>1, <3>1 DEF InQueue
      <4>1. i + 1 \in 1..Len(queue) /\ 1 \in 1..Len(queue) /\ i + 1 # 1
        BY <1>0, <3>1
      <4> QED BY <1>0, <3>1, <4>1 DEF NoOpOnce
    <3> QED BY <3>2, <3>3 DEF NoOpOnce
  <2> QED BY <1>1, <1>5, <2>1 DEF GcTake
<1>6. CASE StopEnqueue
  <2>1. /\ UNCHANGED current /\ queue' = Append(queue, NoOp) /\ NoOp \in Requests
        /\ stopping # "enqueued"
    BY <1>6 DEF StopEnqueue, delVars, Requests
  <2>2. ~InQueue(NoOp) /\ NoOp \notin current
    BY <1>0, <2>1 DEF Ending
  <2>3. /\ Len(queue') = Len(queue) + 1 /\ \A i \in 1..Len(queue) : queue'[i] = queue[i]
    BY <1>0, <2>1, QueueAppend
  <2>4. \A i \in 1..Len(queue') : queue'[i] = NoOp => i = Len(queue) + 1
    <3> SUFFICES ASSUME NEW i \in 1..Len(queue'), queue'[i] = NoOp, i # Len(queue) + 1 PROVE FALSE
      OBVIOUS
    <3>1. i \in 1..Len(queue)
      BY <1>0, <2>3
    <3> QED BY <2>2, <2>3, <3>1 DEF InQueue
  <2> QED BY <2>1, <2>2, <2>4 DEF NoOpOnce
<1>7. CASE \/ \E t \in Threads : Wake(t) \/ Sleep(t) \/ Gather(t) \/ Count(t) \/ GcPassed(t)
           \/ \E t \in Threads, o \in Objects : Lookup(t, o) \/ Remove(t, o) \/ Deliver(t, o)
           \/ DqData \/ DqSleep \/ GcExit \/ GcLeased \/ GcNotYet \/ GcReady \/ CallbackDone
           \/ Stop \/ UNCHANGED vars
  BY <1>1, <1>7 DEF Wake, Sleep, Gather, Count, GcPassed, Lookup, Remove, Deliver, DqData, DqSleep,
                    GcExit, GcLeased, GcNotYet, GcReady, CallbackDone, Stop, delVars, gcVars, vars
<1> QED BY <1>3, <1>4, <1>5, <1>6, <1>7 DEF Next, GcCallback

\* No object is lost on its way.
LEMMA SomewhereStep == ASSUME Inv, Accounted, [Next]_vars PROVE Somewhere'
<1>0. TypeOK /\ Somewhere /\ NoOp \notin Objects /\ \A o, q \in current : o = q
  BY GcAssumption DEF Inv, NoOp, Accounted, TypeOK
<1>1. ASSUME NEW t \in Threads, Enqueue(t) PROVE Somewhere'
  <2>1. /\ UNCHANGED <<findable, freed>> /\ pc[t] = "enqueue" /\ target[t] \in Objects
        /\ pc' = [pc EXCEPT ![t] = "run"] /\ target' = [target EXCEPT ![t] = NoObj]
    BY <1>0, <1>1 DEF Enqueue, Somewhere
  <2>2. Pending' = Pending /\ target[t] \in Pending
    BY <1>1, <2>1, MovingKeepsPending DEF Moving, Pending, Requests
  <2>3. \A u \in Threads, o \in Objects : Deleting(u, o) => Deleting(u, o)' \/ o = target[t]
    BY <1>0, <1>1, DeletingStep DEF Deleting
  <2>4. \A u \in Threads : pc'[u] # "run" => target'[u] \in Objects
    BY <1>0, <2>1 DEF Somewhere, TypeOK
  <2> QED BY <1>0, <2>1, <2>2, <2>3, <2>4 DEF Somewhere
<1>2. ASSUME NEW t \in Threads, NEW x \in Objects, Remove(t, x) PROVE Somewhere'
  <2>1. /\ freed' = freed /\ findable' = findable \ {x} /\ pc[t] = "run"
        /\ pc' = [pc EXCEPT ![t] = "gather"] /\ target' = [target EXCEPT ![t] = x]
    BY <1>2 DEF Remove, Using, gcVars
  <2>2. Pending' = Pending
    BY <1>2, MovingKeepsPending DEF Moving
  <2>3. Deleting(t, x)' /\ \A u \in Threads, o \in Objects : Deleting(u, o) => Deleting(u, o)'
    BY <1>0, <1>2, <2>1, DeletingStep DEF Deleting
  <2>4. \A u \in Threads : pc'[u] # "run" => target'[u] \in Objects
    BY <1>0, <2>1 DEF Somewhere, TypeOK
  <2> QED BY <1>0, <2>1, <2>2, <2>3, <2>4 DEF Somewhere
<1>3. ASSUME NEW t \in Threads, Count(t) PROVE Somewhere'
  <2>1. /\ UNCHANGED <<findable, freed, target, queue, current, dq, stopping>> /\ pc[t] = "gather"
        /\ pc' = [pc EXCEPT ![t] = "enqueue"]
    BY <1>3 DEF Count
  <2>2. \A u \in Threads : (pc[u] = "enqueue" => pc'[u] = "enqueue") /\ (pc'[u] # "run" => pc[u] # "run")
    BY <1>0, <2>1 DEF TypeOK
  <2>3. Pending \subseteq Pending'
    BY <2>1, <2>2, Places DEF Pending
  <2>4. \A u \in Threads, o \in Objects : Deleting(u, o) => Deleting(u, o)'
    BY <1>0, <1>3, DeletingStep
  <2> QED BY <1>0, <2>1, <2>2, <2>3, <2>4 DEF Somewhere
<1>4. ASSUME CallbackDone, NEW x \in current, Free(x) PROVE Somewhere'
  <2>1. /\ UNCHANGED <<findable, pc, target, queue, dq, stopping>>
        /\ freed' = freed \cup ({x} \ {NoOp})
    BY <1>4 DEF CallbackDone, Free, delVars
  <2>2. \A o \in Pending : o \in Pending' \/ o = x
    BY <1>0, <1>4, <2>1, Places DEF Pending
  <2>3. \A t, o : Deleting(t, o)' <=> Deleting(t, o)
    BY <2>1, Places
  <2> QED BY <1>0, <2>1, <2>2, <2>3 DEF Somewhere
<1>5. CASE Stop
  <2>1. UNCHANGED <<findable, freed, pc, target, queue, current, dq>> /\ stopping = "no"
    BY <1>5 DEF Stop, delVars
  <2>2. Pending \subseteq Pending'
    BY <2>1, Places DEF Pending
  <2>3. \A t, o : Deleting(t, o)' <=> Deleting(t, o)
    BY <2>1, Places
  <2> QED BY <1>0, <2>1, <2>2, <2>3 DEF Somewhere
<1>6. CASE \/ \E t \in Threads : Wake(t) \/ Sleep(t) \/ Gather(t) \/ GcPassed(t)
           \/ \E t \in Threads, o \in Objects : Lookup(t, o) \/ Deliver(t, o)
           \/ DqData \/ DqBubble \/ DqSleep
           \/ GcTake \/ GcExit \/ GcLeased \/ GcNotYet \/ GcReady
           \/ CallbackDone /\ \E o \in current : Flush(o)
           \/ StopEnqueue \/ UNCHANGED vars
  <2>1. Pending' = Pending
    BY <1>6, MovingKeepsPending DEF Moving
  <2>2. UNCHANGED <<findable, freed, pc, target>>
    BY <1>6 DEF Wake, Sleep, Gather, GcPassed, Lookup, Deliver, DqData, DqBubble, DqSleep, GcTake,
                GcExit, GcLeased, GcNotYet, GcReady, CallbackDone, Flush, StopEnqueue, delVars, gcVars, vars
  <2>3. \A t, o : Deleting(t, o)' <=> Deleting(t, o)
    BY <2>2, Places
  <2> QED BY <1>0, <2>1, <2>2, <2>3 DEF Somewhere
<1> QED BY <1>1, <1>2, <1>3, <1>4, <1>5, <1>6 DEF Next, GcCallback

\* With nothing left to count, nothing is left to be freed.
LEMMA NothingLeft == ASSUME Inv, Accounted PROVE CleanExit
<1> SUFFICES ASSUME gcPc = "exited" PROVE freed = Objects /\ queue = <<>> /\ current = {}
  BY DEF CleanExit
<1>1. /\ stopping # "no" /\ count = 0 /\ findable = {} /\ \A t \in Threads : pc[t] = "run"
      /\ queue \in Seq(Requests) /\ current \subseteq Requests /\ freed \subseteq Objects
  BY DEF Accounted, Ending, Inv, TypeOK
<1>2. Pending = {}
  BY <1>1, FS_EmptySet DEF Accounted, Counted
<1>3. current = {}
  BY <1>1, <1>2 DEF Pending
<1>4. queue = <<>>
  <2> SUFFICES ASSUME queue # <<>> PROVE FALSE
    OBVIOUS
  <2>1. Len(queue) \in Nat /\ Len(queue) >= 1 /\ Head(queue) = queue[1] /\ Head(queue) \in Requests
    BY <1>1, Popped
  <2>2. InQueue(Head(queue))
    BY <2>1 DEF InQueue
  <2> QED BY <1>2, <2>1, <2>2 DEF Pending
<1>5. \A o \in Objects : o \in freed
  BY <1>1, <1>2 DEF Accounted, Somewhere, Deleting
<1> QED BY <1>1, <1>3, <1>4, <1>5

\* When the gc thread ends, everything was freed and no request is left behind, which
\* gcreq_queue_free asserts: the count it waits for is exactly that of the requests that are
\* not done yet, wherever they are, for any number of threads and objects.
THEOREM EndsClean == Spec => []CleanExit
<1>1. Init => Accounted
  <2> SUFFICES ASSUME Init PROVE Accounted
    OBVIOUS
  <2>1. /\ Len(queue) = 0 /\ Len(dq) = 0 /\ current = {} /\ count = 0 /\ stopping = "no"
        /\ gcPc = "take" /\ findable = Objects /\ \A t \in Threads : pc[t] = "run"
    BY DEF Init
  <2>2. (\A o : ~InQueue(o)) /\ (\A o : ~InBubble(o))
    BY <2>1 DEF InQueue, InBubble
  <2>3. Pending = {}
    BY <2>1, <2>2 DEF Pending
  <2>4. Counted
    BY <2>1, <2>3, FS_EmptySet DEF Counted
  <2>5. Ending /\ NoOpOnce /\ Somewhere
    BY <2>1, <2>2 DEF Ending, NoOpOnce, Somewhere
  <2> QED BY <2>4, <2>5 DEF Accounted
<1>2. Inv /\ Accounted /\ [Next]_vars => Accounted'
  BY CountedStep, EndingStep, NoOpOnceStep, SomewhereStep DEF Accounted
<1>3. Inv /\ Accounted => CleanExit
  BY NothingLeft
<1> QED BY <1>1, <1>2, <1>3, Invariance, PTL DEF Spec
=============================================================================
