-------------------------------- MODULE WaitSet --------------------------------
(***************************************************************************)
(* Wait sets (dds_waitset.c) and the observers of entities (dds_entity.c): *)
(* an attached entity knows the wait set as an observer, the wait set      *)
(* keeps the entity in one of two lists.  Who changes the trigger value of *)
(* an entity tells its observers without a lock of the entity, except that *)
(* a reader is locked while its data are read and its observers told.      *)
(*                                                                         *)
(* There is one wait set; its handle is closed and its entity freed as in  *)
(* Entities, and not represented.  What a thread does while it holds the   *)
(* lock of the wait set is one step, unless it takes another lock.         *)
(*                                                                         *)
(* Definitions named X_slip... are wrong variants that no specification    *)
(* uses.                                                                   *)
(***************************************************************************)
EXTENDS Integers, FiniteSets

CONSTANTS Callers, Readers,
          NoReader, MaxDeletes     \* bound: readers that are deleted

VARIABLES
    m_trigger,   \* the readers whose trigger value is not zero
    closed,      \* the readers whose handle is closed ...
    freed,       \* ... and that were freed
    m_observers, \* the readers that have the wait set as observer
    observed, triggered,    \* the lists of the wait set
    ws,          \* who holds the mutex of the wait set, or none
    locked,      \* per reader: who holds its mutex, or none
    asleep,      \* the threads in os_condWait on the wait set
    at, rd,      \* where each thread is, with which reader
    status       \* the trigger value it has read: "data", "zero" or "deleting"

wsVars == <<m_trigger, closed, freed, m_observers, observed, triggered, ws, locked, asleep,
            at, rd, status>>

None == "none"
Attached == observed \cup triggered
Go(t, place) == at' = [at EXCEPT ![t] = place]
Done(t) ==
    /\ at' = [at EXCEPT ![t] = "idle"]
    /\ rd' = [rd EXCEPT ![t] = NoReader]
    /\ status' = [status EXCEPT ![t] = None]

Begin(t, r, place) ==
    /\ at[t] = "idle"
    /\ Go(t, place) /\ rd' = [rd EXCEPT ![t] = r]

\* who locks a reader finds it closed or has its mutex
LockReader(t, r) ==
    /\ locked[r] = None
    /\ r \notin closed
    /\ locked' = [locked EXCEPT ![r] = t]
-----------------------------------------------------------------------------
(* dds_waitset_wait_impl                                                   *)

Sort(list) == {r \in list : r \in m_trigger}

WaitStart(t) ==
    /\ at[t] = "idle" /\ ws = None
    /\ triggered' = Sort(Attached) /\ observed' = Attached \ Sort(Attached)
    /\ ws' = t /\ Go(t, "wait")
    /\ UNCHANGED <<m_trigger, closed, freed, m_observers, locked, asleep, rd, status>>

WaitSleep(t) ==
    /\ at[t] = "wait" /\ ws = t
    /\ observed # {} /\ triggered = {}
    /\ ws' = None
    /\ asleep' = asleep \cup {t}
    /\ UNCHANGED <<m_trigger, closed, freed, m_observers, observed, triggered, locked, at, rd, status>>

WaitWoken(t) ==
    /\ at[t] = "wait" /\ ws = None /\ t \notin asleep
    /\ ws' = t
    /\ UNCHANGED <<m_trigger, closed, freed, m_observers, observed, triggered, locked, asleep, at, rd, status>>

\* os_condTimedWait: the time passes while the thread sleeps
WaitTimesOut(t) ==
    /\ at[t] = "wait" /\ t \in asleep /\ ws = None
    /\ asleep' = asleep \ {t}
    /\ Done(t)
    /\ UNCHANGED <<m_trigger, closed, freed, m_observers, observed, triggered, ws, locked>>

WaitEnd(t) ==
    /\ at[t] = "wait" /\ ws = t
    /\ observed = {} \/ triggered # {}
    /\ observed' = Attached /\ triggered' = {}
    /\ ws' = None /\ Done(t)
    /\ UNCHANGED <<m_trigger, closed, freed, m_observers, locked, asleep>>
-----------------------------------------------------------------------------
(* dds_waitset_attach and dds_waitset_detach: the wait set is locked first, *)
(* then the reader                                                          *)

LockWaitSet(t, r, place) ==
    /\ ws = None /\ ws' = t
    /\ Begin(t, r, place)
    /\ UNCHANGED <<m_trigger, closed, freed, m_observers, observed, triggered, locked, asleep, status>>

\* the reader cannot be locked
Fail(t) ==
    /\ at[t] \in {"attach", "detach"}
    /\ locked[rd[t]] = None /\ rd[t] \in closed
    /\ ws' = None
    /\ Done(t)
    /\ UNCHANGED <<m_trigger, closed, freed, m_observers, observed, triggered, locked, asleep>>

Attach(t) ==
    LET r == rd[t] IN
    /\ at[t] = "attach" /\ LockReader(t, r)
    /\ \/ r \in m_observers
          /\ UNCHANGED <<m_observers, observed, triggered>>
       \/ /\ r \notin m_observers
          /\ m_observers' = m_observers \cup {r}
          /\ IF r \in m_trigger
             THEN triggered' = triggered \cup {r} /\ UNCHANGED observed
             ELSE observed' = observed \cup {r} /\ UNCHANGED triggered
    /\ Go(t, "unlock")
    /\ UNCHANGED <<m_trigger, closed, freed, ws, asleep, rd, status>>

\* dds_entity_observer_unregister, then dds_waitset_remove
Detach(t) ==
    LET r == rd[t] IN
    /\ at[t] = "detach" /\ LockReader(t, r)
    /\ \/ r \notin m_observers
          /\ UNCHANGED <<m_observers, observed, triggered>>
       \/ /\ r \in m_observers
          /\ m_observers' = m_observers \ {r}
          /\ observed' = observed \ {r} /\ triggered' = triggered \ {r}
    /\ Go(t, "unlock")
    /\ UNCHANGED <<m_trigger, closed, freed, ws, asleep, rd, status>>

Unlock(t) ==
    /\ at[t] = "unlock"
    /\ locked' = [locked EXCEPT ![rd[t]] = None]
    /\ ws' = None
    /\ Done(t)
    /\ UNCHANGED <<m_trigger, closed, freed, m_observers, observed, triggered, asleep>>
-----------------------------------------------------------------------------
(* dds_entity_status_signal, which reads m_trigger and then calls each     *)
(* observer, and dds_waitset_observer                                      *)

\* dds_reader_status_cb of a receive thread, with nothing locked
Store(t, r) ==
    /\ r \notin closed
    /\ Begin(t, r, "store")
    /\ m_trigger' = m_trigger \cup {r}
    /\ UNCHANGED <<closed, freed, m_observers, observed, triggered, ws, locked, asleep, status>>

\* dds_read_lock, dds_rhc_read, which tells the observers if a condition changed
Read(t, r) ==
    /\ LockReader(t, r)
    /\ Begin(t, r, "read") \/ Begin(t, r, "told")
    /\ m_trigger' = m_trigger \ {r}
    /\ UNCHANGED <<closed, freed, m_observers, observed, triggered, ws, asleep, status>>

\* dds_delete_impl up to ut_handle_close
CloseReader(t, r) ==
    /\ Cardinality(closed) < MaxDeletes
    /\ r \notin closed /\ locked[r] = None
    /\ closed' = closed \cup {r}
    /\ Begin(t, r, "delete")
    /\ m_trigger' = m_trigger \cup {r}
    /\ UNCHANGED <<freed, m_observers, observed, triggered, ws, locked, asleep, status>>

Telling == {"store", "read", "delete"}

ReadTrigger(t) ==
    LET r == rd[t] IN
    /\ at[t] \in Telling /\ status[t] = None
    /\ status' = [status EXCEPT ![t] = IF r \in closed THEN "deleting"
                                      ELSE IF r \in m_trigger THEN "data" ELSE "zero"]
    /\ UNCHANGED <<m_trigger, closed, freed, m_observers, observed, triggered, ws, locked,
                   asleep, at, rd>>

\* dds_waitset_observer
Tell(r, what) ==
    /\ CASE what = "deleting" -> observed' = observed \ {r} /\ triggered' = triggered \ {r}
         [] what = "data" -> /\ triggered' = triggered \cup (observed \cap {r})
                             /\ observed' = observed \ {r}
         [] what = "zero" -> /\ observed' = observed \cup (triggered \cap {r})
                             /\ triggered' = triggered \ {r}
    /\ asleep' = {}

Signal_slipDeletedStays(t) ==
    /\ at[t] \in Telling /\ status[t] # None /\ ws = None
    /\ IF rd[t] \in m_observers
       THEN Tell(rd[t], IF status[t] = "deleting" THEN "data" ELSE status[t])
       ELSE UNCHANGED <<observed, triggered, asleep>>
    /\ Go(t, IF at[t] = "delete" THEN "free" ELSE "told")
    /\ UNCHANGED <<m_trigger, closed, freed, m_observers, ws, locked, rd, status>>

Signal(t) ==
    /\ at[t] \in Telling /\ status[t] # None /\ ws = None
    /\ IF rd[t] \in m_observers
       THEN Tell(rd[t], status[t])
       ELSE UNCHANGED <<observed, triggered, asleep>>
    /\ Go(t, IF at[t] = "delete" THEN "free" ELSE "told")
    /\ UNCHANGED <<m_trigger, closed, freed, m_observers, ws, locked, rd, status>>

Told(t) ==
    /\ at[t] = "told"
    /\ locked' = [locked EXCEPT ![rd[t]] = IF @ = t THEN None ELSE @]
    /\ Done(t)
    /\ UNCHANGED <<m_trigger, closed, freed, m_observers, observed, triggered, ws, asleep>>

\* the rest of dds_delete_impl, when no other thread uses the reader any more
Free(t) ==
    /\ at[t] = "free"
    /\ \A u \in Callers \ {t} : rd[u] = rd[t] => at[u] \in {"attach", "detach"}
    /\ freed' = freed \cup {rd[t]}
    /\ m_observers' = m_observers \ {rd[t]}
    /\ Done(t)
    /\ UNCHANGED <<m_trigger, closed, observed, triggered, ws, locked, asleep>>
-----------------------------------------------------------------------------
Init ==
    /\ m_trigger = {} /\ closed = {} /\ freed = {} /\ m_observers = {}
    /\ observed = {} /\ triggered = {} /\ asleep = {}
    /\ ws = None
    /\ locked = [r \in Readers |-> None]
    /\ at = [t \in Callers |-> "idle"]
    /\ rd = [t \in Callers |-> NoReader]
    /\ status = [t \in Callers |-> None]

Next ==
    \E t \in Callers :
       \/ WaitStart(t) \/ WaitSleep(t) \/ WaitWoken(t) \/ WaitTimesOut(t) \/ WaitEnd(t)
       \/ \E r \in Readers, op \in {"attach", "detach"} : LockWaitSet(t, r, op)
       \/ Fail(t) \/ Attach(t) \/ Detach(t) \/ Unlock(t)
       \/ \E r \in Readers : Store(t, r) \/ Read(t, r) \/ CloseReader(t, r)
       \/ ReadTrigger(t) \/ Signal(t) \/ Told(t) \/ Free(t)

Spec == Init /\ [][Next]_wsVars
-----------------------------------------------------------------------------
(* Properties *)

\* The wait set keeps exactly the entities that know it as their observer, but for those
\* being deleted, and none that was freed: its lists are walked without looking whether
\* the entity is still there.
AttachedIsObserved ==
    /\ Attached \cap freed = {}
    /\ observed \cap triggered = {}
    /\ Attached \subseteq m_observers /\ m_observers \ Attached \subseteq closed

\* Who tells the observers of a reader never waits for a thread that waits for that reader:
\* observers are told with the reader unlocked.
NeverWaitForEachOther ==
    ~ \E t, u \in Callers :
         /\ at[t] = "read" /\ status[t] # None /\ locked[rd[t]] = t /\ rd[t] \in m_observers
         /\ ws = u /\ at[u] \in {"attach", "detach"} /\ rd[u] = rd[t]
=============================================================================
