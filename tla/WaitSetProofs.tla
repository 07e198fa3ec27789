----------------------------- MODULE WaitSetProofs -----------------------------
(***************************************************************************)
(* The lists of a wait set and the observers of the entities agree, for    *)
(* any number of threads and readers and any order in which they attach,   *)
(* detach, read, wait and delete.                                          *)
(*                                                                         *)
(* The inductive invariant adds what makes a deletion safe: the thread     *)
(* that deletes a reader has closed it, so that nobody attaches it any     *)
(* more (Closing), and tells the wait set that it is being deleted, which  *)
(* takes it off the lists, before it frees it (Telling, OffTheLists).      *)
(***************************************************************************)
EXTENDS WaitSet, TLAPS

Places == {"idle", "wait", "attach", "detach", "unlock", "store", "read", "delete", "told", "free"}

Types ==
    /\ at \in [Callers -> Places]
    /\ rd \in [Callers -> Readers \cup {NoReader}]
    /\ status \in [Callers -> {None, "data", "zero", "deleting"}]

\* what is freed was closed, and so is what a thread deletes
Closing ==
    /\ freed \subseteq closed
    /\ \A t \in Callers : at[t] \in {"delete", "free"} => rd[t] \in closed

\* a trigger value is read where the observers are told, and names a deletion only of
\* what is closed; the thread that deletes tells of nothing else
TriggerRead ==
    \A t \in Callers :
       /\ status[t] # None => at[t] \in Telling \cup {"told", "free"}
       /\ status[t] = "deleting" => rd[t] \in closed
       /\ at[t] = "delete" => status[t] \in {None, "deleting"}

OffTheLists == \A t \in Callers : at[t] = "free" => rd[t] \notin Attached

Inv == Types /\ Closing /\ TriggerRead /\ OffTheLists /\ AttachedIsObserved

-----------------------------------------------------------------------------
\* Nothing is attached at first.
LEMMA Initially == Init => Inv
BY DEF Init, Inv, Types, Places, Closing, TriggerRead, OffTheLists, AttachedIsObserved, Attached, None

\* The steps that leave the lists, the observers and what is closed as they are.
LEMMA QuietStep ==
    ASSUME Inv,
           UNCHANGED <<closed, freed, m_observers>>, Attached' = Attached,
           observed' \cap triggered' = {},
           Types', TriggerRead',
           \A t \in Callers : at'[t] \in {"delete", "free"} => at'[t] = at[t] /\ rd'[t] = rd[t]
    PROVE  Inv'
BY DEF Inv, Closing, OffTheLists, AttachedIsObserved

\* Each step preserves the types and the places of the threads.
LEMMA TypesStep == ASSUME Inv, [Next]_wsVars PROVE Types'
<1> USE DEF Inv, Types, Places, Telling
<1> SUFFICES ASSUME Next PROVE Types'
  BY DEF wsVars
<1> PICK t \in Callers :
       \/ WaitStart(t) \/ WaitSleep(t) \/ WaitWoken(t) \/ WaitTimesOut(t) \/ WaitEnd(t)
       \/ \E r \in Readers, op \in {"attach", "detach"} : LockWaitSet(t, r, op)
       \/ Fail(t) \/ Attach(t) \/ Detach(t) \/ Unlock(t)
       \/ \E r \in Readers : Store(t, r) \/ Read(t, r) \/ CloseReader(t, r)
       \/ ReadTrigger(t) \/ Signal(t) \/ Told(t) \/ Free(t)
  BY DEF Next
<1>1. CASE WaitStart(t) \/ WaitSleep(t) \/ WaitWoken(t) \/ Attach(t) \/ Detach(t)
  BY <1>1 DEF WaitStart, WaitSleep, WaitWoken, Attach, Detach, Go
<1>2. CASE WaitTimesOut(t) \/ WaitEnd(t) \/ Fail(t) \/ Unlock(t) \/ Told(t) \/ Free(t)
  BY <1>2 DEF WaitTimesOut, WaitEnd, Fail, Unlock, Told, Free, Done
<1>3. CASE \E r \in Readers, op \in {"attach", "detach"} : LockWaitSet(t, r, op)
  BY <1>3 DEF LockWaitSet, Begin, Go
<1>4. CASE \E r \in Readers : Store(t, r) \/ Read(t, r) \/ CloseReader(t, r)
  BY <1>4 DEF Store, Read, CloseReader, Begin, Go
<1>5. CASE ReadTrigger(t)
  BY <1>5 DEF ReadTrigger
<1>6. CASE Signal(t)
  BY <1>6 DEF Signal, Go
<1> QED BY <1>1, <1>2, <1>3, <1>4, <1>5, <1>6

\* The trigger value is read of the reader that the thread tells of.
LEMMA TriggerReadStep == ASSUME Inv, [Next]_wsVars PROVE TriggerRead'
<1> USE DEF Inv, Types, Places, Telling, TriggerRead, None
<1> SUFFICES ASSUME Next PROVE TriggerRead'
  BY DEF wsVars
<1>0. closed \subseteq closed'
  BY DEF Next, WaitStart, WaitSleep, WaitWoken, WaitTimesOut, WaitEnd, LockWaitSet, Fail, Attach,
         Detach, Unlock, Store, Read, CloseReader, ReadTrigger, Signal, Told, Free
<1> PICK t \in Callers :
       \/ WaitStart(t) \/ WaitSleep(t) \/ WaitWoken(t) \/ WaitTimesOut(t) \/ WaitEnd(t)
       \/ \E r \in Readers, op \in {"attach", "detach"} : LockWaitSet(t, r, op)
       \/ Fail(t) \/ Attach(t) \/ Detach(t) \/ Unlock(t)
       \/ \E r \in Readers : Store(t, r) \/ Read(t, r) \/ CloseReader(t, r)
       \/ ReadTrigger(t) \/ Signal(t) \/ Told(t) \/ Free(t)
  BY DEF Next
<1>1. CASE WaitStart(t) \/ WaitSleep(t) \/ WaitWoken(t) \/ Attach(t) \/ Detach(t)
  BY <1>0, <1>1 DEF WaitStart, WaitSleep, WaitWoken, Attach, Detach, Go
<1>2. CASE WaitTimesOut(t) \/ WaitEnd(t) \/ Fail(t) \/ Unlock(t) \/ Told(t) \/ Free(t)
  BY <1>0, <1>2 DEF WaitTimesOut, WaitEnd, Fail, Unlock, Told, Free, Done
<1>3. CASE \E r \in Readers, op \in {"attach", "detach"} : LockWaitSet(t, r, op)
  BY <1>0, <1>3 DEF LockWaitSet, Begin, Go
<1>4. CASE \E r \in Readers : Store(t, r) \/ Read(t, r) \/ CloseReader(t, r)
  BY <1>0, <1>4 DEF Store, Read, CloseReader, Begin, Go
<1>5. CASE ReadTrigger(t)
  BY <1>0, <1>5 DEF ReadTrigger, Closing
<1>6. CASE Signal(t)
  BY <1>0, <1>6 DEF Signal, Go
<1> QED BY <1>1, <1>2, <1>3, <1>4, <1>5, <1>6

-----------------------------------------------------------------------------
\* Each step preserves the invariant.
LEMMA InvStep == ASSUME Inv, [Next]_wsVars PROVE Inv'
<1>a. Types' /\ TriggerRead'
  BY TypesStep, TriggerReadStep
<1>0. CASE UNCHANGED wsVars
  BY <1>a, <1>0, QuietStep DEF wsVars, Attached, Inv, AttachedIsObserved
<1> SUFFICES ASSUME NEW t \in Callers,
       \/ WaitStart(t) \/ WaitSleep(t) \/ WaitWoken(t) \/ WaitTimesOut(t) \/ WaitEnd(t)
       \/ \E r \in Readers, op \in {"attach", "detach"} : LockWaitSet(t, r, op)
       \/ Fail(t) \/ Attach(t) \/ Detach(t) \/ Unlock(t)
       \/ \E r \in Readers : Store(t, r) \/ Read(t, r) \/ CloseReader(t, r)
       \/ ReadTrigger(t) \/ Signal(t) \/ Told(t) \/ Free(t)
    PROVE Inv'
  BY <1>0 DEF Next
<1> USE DEF Inv, Types, Places, Telling
<1>1. CASE WaitStart(t)
  <2>1. Attached' = Attached /\ observed' \cap triggered' = {}
    BY <1>1 DEF WaitStart, Sort, Attached
  <2> QED BY <1>1, <1>a, <2>1, QuietStep DEF WaitStart, Go
<1>2. CASE WaitEnd(t)
  <2>1. Attached' = Attached /\ observed' \cap triggered' = {}
    BY <1>2 DEF WaitEnd, Attached
  <2> QED BY <1>2, <1>a, <2>1, QuietStep DEF WaitEnd, Done
<1>3. CASE \/ WaitSleep(t) \/ WaitWoken(t) \/ WaitTimesOut(t) \/ Fail(t) \/ Unlock(t)
           \/ ReadTrigger(t) \/ Told(t)
           \/ \E r \in Readers, op \in {"attach", "detach"} : LockWaitSet(t, r, op)
           \/ \E r \in Readers : Store(t, r) \/ Read(t, r)
  <2>1. UNCHANGED <<closed, freed, m_observers, observed, triggered>>
    BY <1>3 DEF WaitSleep, WaitWoken, WaitTimesOut, Fail, Unlock, ReadTrigger, Told, LockWaitSet,
               Store, Read
  <2>2. \A u \in Callers : at'[u] \in {"delete", "free"} => at'[u] = at[u] /\ rd'[u] = rd[u]
    BY <1>3 DEF WaitSleep, WaitWoken, WaitTimesOut, Fail, Unlock, ReadTrigger, Told, LockWaitSet,
               Store, Read, Go, Done, Begin
  <2> QED BY <1>a, <2>1, <2>2, QuietStep DEF Attached, AttachedIsObserved
<1>4. CASE Attach(t)
  <2>1. Closing'
    BY <1>4 DEF Attach, Closing, Go
  <2>2. rd[t] \notin closed
    BY <1>4 DEF Attach, LockReader
  <2>3. OffTheLists'
    BY <1>4, <2>2 DEF Attach, OffTheLists, Closing, Attached, Go
  <2>4. AttachedIsObserved'
    BY <1>4, <2>2 DEF Attach, AttachedIsObserved, Closing, Attached
  <2> QED BY <1>a, <2>1, <2>3, <2>4
<1>5. CASE Detach(t)
  <2>1. Closing'
    BY <1>5 DEF Detach, Closing, Go
  <2>2. OffTheLists'
    BY <1>5 DEF Detach, OffTheLists, Attached, Go
  <2>3. AttachedIsObserved'
    BY <1>5 DEF Detach, AttachedIsObserved, Attached
  <2> QED BY <1>a, <2>1, <2>2, <2>3
<1>6. CASE \E r \in Readers : CloseReader(t, r)
  <2>1. Closing'
    BY <1>6 DEF CloseReader, Closing, Begin, Go
  <2>2. OffTheLists'
    BY <1>6 DEF CloseReader, OffTheLists, Attached, Begin, Go
  <2>3. AttachedIsObserved'
    BY <1>6 DEF CloseReader, AttachedIsObserved, Attached
  <2> QED BY <1>a, <2>1, <2>2, <2>3
<1>7. CASE Signal(t)
  <2>1. Closing'
    BY <1>7 DEF Signal, Closing, Go
  <2>2. CASE rd[t] \notin m_observers
    <3>1. UNCHANGED <<observed, triggered, m_observers, closed, freed>>
      BY <1>7, <2>2 DEF Signal
    <3>2. OffTheLists'
      BY <1>7, <2>2, <3>1 DEF Signal, OffTheLists, AttachedIsObserved, Attached, Go
    <3> QED BY <1>a, <2>1, <3>1, <3>2 DEF AttachedIsObserved, Attached
  <2>3. CASE rd[t] \in m_observers /\ status[t] = "deleting"
    <3>1. /\ observed' = observed \ {rd[t]} /\ triggered' = triggered \ {rd[t]}
          /\ UNCHANGED <<m_observers, closed, freed>>
      BY <1>7, <2>3 DEF Signal, Tell
    <3>2. rd[t] \in closed
      BY <2>3 DEF TriggerRead
    <3>3. OffTheLists'
      BY <1>7, <3>1 DEF Signal, OffTheLists, Attached, Go
    <3> QED BY <1>a, <2>1, <3>1, <3>2, <3>3 DEF AttachedIsObserved, Attached
  <2>4. CASE rd[t] \in m_observers /\ status[t] \in {"data", "zero"}
    <3>1. /\ Attached' = Attached /\ observed' \cap triggered' = {}
          /\ UNCHANGED <<m_observers, closed, freed>>
      BY <1>7, <2>4 DEF Signal, Tell, Attached, AttachedIsObserved
    <3>2. \A u \in Callers : at'[u] \in {"delete", "free"} => at'[u] = at[u] /\ rd'[u] = rd[u]
      BY <1>7, <2>4 DEF Signal, TriggerRead, Go
    <3> QED BY <1>a, <3>1, <3>2, QuietStep
  <2> QED BY <1>7, <2>2, <2>3, <2>4 DEF Signal
<1>8. CASE Free(t)
  <2>1. /\ freed' = freed \cup {rd[t]} /\ m_observers' = m_observers \ {rd[t]}
        /\ UNCHANGED <<closed, observed, triggered>>
    BY <1>8 DEF Free
  <2>2. rd[t] \in closed /\ rd[t] \notin Attached
    BY <1>8 DEF Free, Closing, OffTheLists
  <2>3. Closing'
    BY <1>8, <2>1, <2>2 DEF Free, Closing, Done
  <2>4. OffTheLists'
    BY <1>8, <2>1 DEF Free, OffTheLists, Attached, Done
  <2>5. AttachedIsObserved'
    BY <2>1, <2>2 DEF AttachedIsObserved, Attached
  <2> QED BY <1>a, <2>3, <2>4, <2>5
<1> QED BY <1>1, <1>2, <1>3, <1>4, <1>5, <1>6, <1>7, <1>8

\* Whatever threads attach, detach, read, wait for and delete, and however often: the wait
\* set keeps exactly the readers that know it as their observer, apart from those being
\* deleted, and none that was freed.
THEOREM ListsAgree == Spec => []AttachedIsObserved
<1>1. Inv => AttachedIsObserved
  BY DEF Inv
<1> QED BY <1>1, Initially, InvStep, PTL DEF Spec
=============================================================================
