------------------------------- MODULE Entities --------------------------------
(***************************************************************************)
(* Entities of the API and their handles (dds_entity.c, dds_reader.c,      *)
(* ut_handleserver.c): a thread claims the handle of an entity, locks it,  *)
(* uses it and lets go; the thread that brings the reference count to zero *)
(* waits for listeners, closes the handle, deletes the children, waits for *)
(* the claims to go and frees the entity.                                  *)
(*                                                                         *)
(* There is one reader and its parent, a subscriber.  The reader has a     *)
(* claim from its creation that the gc thread of the DDSI layer releases   *)
(* when no receive thread can be using it any more.                        *)
(*                                                                         *)
(* A thread is a stack of calls, each with its function, entity and place. *)
(* Waiting in ut_handle_delete is polling there; here it is waiting, and   *)
(* giving up after 10 seconds may happen at any moment.                    *)
(*                                                                         *)
(* Definitions named X_slip... are wrong variants that no specification    *)
(* uses.                                                                   *)
(***************************************************************************)
EXTENDS Integers, FiniteSets, Sequences

CONSTANTS
    Reader, Subscriber,
    Apps,       \* threads of the application
    Receivers,  \* receive threads
    Deletable,  \* the entities that the application deletes
    Implicit    \* whether the subscriber was made by dds_create_reader

Entity == {Reader, Subscriber}
Threads == Apps \cup Receivers
Parent == Subscriber     \* of the reader

VARIABLES
    freed,      \* the entities that dds_free was called for
    link,       \* per entity: its handle is "open", "closed" or "deleted"
    cnt,        \* per entity: the claims of its handle
    m_refc,     \* per entity: its references
    m_cb_count, \* per entity: listeners in progress
    holder,     \* per entity: who holds m_mutex, or none
    asleep,     \* the threads in os_condWait
    children,   \* m_children of the subscriber
    ddsi,       \* the reader of the DDSI layer: "there", "leaving" or "gone"
    stack       \* per thread: its calls, the innermost one first

entVars == <<freed, link, cnt, m_refc, m_cb_count, holder, asleep, children, ddsi, stack>>

None == "none"
Top(t) == stack[t][1]
In(t, op, place) == stack[t] # <<>> /\ Top(t).op = op /\ Top(t).at = place
At(t, place) == stack[t] # <<>> /\ Top(t).at = place

Go(t, place) == stack' = [stack EXCEPT ![t][1].at = place]
Call(t, place, op, e) ==
    stack' = [stack EXCEPT ![t] =
                <<[op |-> op, e |-> e, at |-> "claim"], [@[1] EXCEPT !.at = place]>> \o Tail(@)]

\* return to the caller; a delete of the children that failed fails as well
Returned(t, ok) ==
    LET rest == Tail(stack[t]) IN
    IF ~ok /\ rest # <<>> /\ rest[1].at = "children" THEN Tail(rest) ELSE rest

Return(t, ok) == stack' = [stack EXCEPT ![t] = Returned(t, ok)]
-----------------------------------------------------------------------------
(* dds_entity_lock: claim the handle, take the mutex, look again           *)

Claim(t) ==
    LET e == Top(t).e IN
    /\ At(t, "claim")
    /\ IF link[e] = "open"
       THEN cnt' = [cnt EXCEPT ![e] = @ + 1] /\ Go(t, "mutex")
       ELSE UNCHANGED cnt /\ Return(t, FALSE)
    /\ UNCHANGED <<freed, link, m_refc, m_cb_count, holder, asleep, children, ddsi>>

Lock_slipNoRecheck(t) ==
    LET e == Top(t).e IN
    /\ At(t, "mutex") /\ holder[e] = None
    /\ holder' = [holder EXCEPT ![e] = t] /\ Go(t, "locked")
    /\ UNCHANGED <<freed, link, cnt, m_refc, m_cb_count, asleep, children, ddsi>>

Lock(t) ==
    LET e == Top(t).e IN
    /\ At(t, "mutex") /\ holder[e] = None
    /\ IF link[e] = "open"
       THEN holder' = [holder EXCEPT ![e] = t] /\ Go(t, "locked")
       ELSE UNCHANGED holder /\ Go(t, "failed")
    /\ UNCHANGED <<freed, link, cnt, m_refc, m_cb_count, asleep, children, ddsi>>

\* ut_handle_release, after the mutex is unlocked
Release(t, place) ==
    LET e == Top(t).e IN
    /\ cnt' = [cnt EXCEPT ![e] = @ - 1]
    /\ CASE place = "failed" -> Return(t, FALSE)
         [] place = "leave"  -> Return(t, TRUE)
         [] place = "go"     -> Go(t, IF Top(t).op = "delete" THEN "children" ELSE "calling")
    /\ UNCHANGED <<freed, link, m_refc, m_cb_count, holder, asleep, children, ddsi>>

\* any function that only locks, does its work and unlocks
Use(t) ==
    /\ In(t, "use", "locked")
    /\ holder' = [holder EXCEPT ![Top(t).e] = None]
    /\ Go(t, "leave")
    /\ UNCHANGED <<freed, link, cnt, m_refc, m_cb_count, asleep, children, ddsi>>
-----------------------------------------------------------------------------
(* dds_delete_impl                                                         *)

\* m_refc is a uint32: below zero it is very large, which -1 stands for
Dropped(n) == IF n > 0 THEN n - 1 ELSE -1

DropReference(t) ==
    LET e == Top(t).e IN
    /\ \/ In(t, "delete", "locked")
       \/ In(t, "deleteimplicit", "locked") /\ Implicit
    /\ m_refc' = [m_refc EXCEPT ![e] = Dropped(@)]
    /\ IF m_refc[e] = 1
       THEN /\ stack' = [stack EXCEPT ![t][1] = [@ EXCEPT !.op = "delete", !.at = "quiet"]]
            /\ UNCHANGED holder
       ELSE Go(t, "leave") /\ holder' = [holder EXCEPT ![e] = None]
    /\ UNCHANGED <<freed, link, cnt, m_cb_count, asleep, children, ddsi>>

\* keep_if_explicit
KeepExplicit(t) ==
    /\ In(t, "deleteimplicit", "locked") /\ ~Implicit
    /\ holder' = [holder EXCEPT ![Top(t).e] = None]
    /\ Go(t, "leave")
    /\ UNCHANGED <<freed, link, cnt, m_refc, m_cb_count, asleep, children, ddsi>>

\* dds_entity_cb_wait, then ut_handle_close
WaitForListeners(t) ==
    LET e == Top(t).e IN
    /\ In(t, "delete", "quiet") /\ holder[e] = t /\ m_cb_count[e] > 0
    /\ holder' = [holder EXCEPT ![e] = None]
    /\ asleep' = asleep \cup {t}
    /\ UNCHANGED <<freed, link, cnt, m_refc, m_cb_count, children, ddsi, stack>>

Woken(t) ==
    LET e == Top(t).e IN
    /\ In(t, "delete", "quiet") /\ t \notin asleep /\ holder[e] = None
    /\ holder' = [holder EXCEPT ![e] = t]
    /\ UNCHANGED <<freed, link, cnt, m_refc, m_cb_count, asleep, children, ddsi, stack>>

Close(t) ==
    LET e == Top(t).e IN
    /\ In(t, "delete", "quiet") /\ holder[e] = t /\ m_cb_count[e] = 0
    /\ link' = [link EXCEPT ![e] = "closed"]
    /\ holder' = [holder EXCEPT ![e] = None]
    /\ Go(t, "go")
    /\ UNCHANGED <<freed, cnt, m_refc, m_cb_count, asleep, children, ddsi>>

\* the list of children is read without a lock
PickChild(t) ==
    /\ In(t, "delete", "children")
    /\ Go(t, IF Top(t).e = Parent /\ children # {} THEN "child" ELSE "close")
    /\ UNCHANGED <<freed, link, cnt, m_refc, m_cb_count, holder, asleep, children, ddsi>>

DeleteChild(t) ==
    /\ In(t, "delete", "child")
    /\ Call(t, "children", "delete", Reader)
    /\ UNCHANGED <<freed, link, cnt, m_refc, m_cb_count, holder, asleep, children, ddsi>>

\* dds_reader_close: delete_reader of the DDSI layer; a subscriber has nothing to close
CloseDerived(t) ==
    /\ In(t, "delete", "close")
    /\ ddsi' = IF Top(t).e = Reader THEN "leaving" ELSE ddsi
    /\ Go(t, "poll")
    /\ UNCHANGED <<freed, link, cnt, m_refc, m_cb_count, holder, asleep, children>>

\* ut_handle_delete
DeleteHandle(t) ==
    /\ In(t, "delete", "poll")
    /\ cnt[Top(t).e] = 0
    /\ link' = [link EXCEPT ![Top(t).e] = "deleted"]
    /\ Go(t, "unlink")
    /\ UNCHANGED <<freed, cnt, m_refc, m_cb_count, holder, asleep, children, ddsi>>

GiveUp(t) ==
    /\ In(t, "delete", "poll")
    /\ cnt[Top(t).e] > 0
    /\ Return(t, FALSE)
    /\ UNCHANGED <<freed, link, cnt, m_refc, m_cb_count, holder, asleep, children, ddsi>>

\* from the list of its parent
Unlink(t) ==
    /\ In(t, "delete", "unlink")
    /\ IF Top(t).e = Reader
       THEN holder[Parent] = None /\ children' = {} /\ Go(t, "parent")
       ELSE UNCHANGED children /\ Go(t, "free")
    /\ UNCHANGED <<freed, link, cnt, m_refc, m_cb_count, holder, asleep, ddsi>>

\* dds_reader_delete: the topic, and the parent if it is implicit
DeleteImplicit(t) ==
    /\ In(t, "delete", "parent")
    /\ Call(t, "free", "deleteimplicit", Parent)
    /\ UNCHANGED <<freed, link, cnt, m_refc, m_cb_count, holder, asleep, children, ddsi>>

Free(t) ==
    /\ In(t, "delete", "free")
    /\ freed' = freed \cup {Top(t).e}
    /\ Return(t, TRUE)
    /\ UNCHANGED <<link, cnt, m_refc, m_cb_count, holder, asleep, children, ddsi>>
-----------------------------------------------------------------------------
(* dds_reader_status_cb of a receive thread: use the reader, then          *)
(* dds_entity_listener_propagation                                         *)

Notify(t) ==
    /\ stack[t] = <<>> /\ ddsi = "there"
    /\ stack' = [stack EXCEPT ![t] = <<[op |-> "use", e |-> Reader, at |-> "claim"],
                                       [op |-> "notify", e |-> Reader, at |-> "propagate"]>>]
    /\ UNCHANGED <<freed, link, cnt, m_refc, m_cb_count, holder, asleep, children, ddsi>>

\* a reader that could not be locked has no listener called; the model may call it anyway,
\* which ends at its closed handle
Propagate(t) ==
    /\ In(t, "notify", "propagate")
    /\ Call(t, "set", "listener", Reader)
    /\ UNCHANGED <<freed, link, cnt, m_refc, m_cb_count, holder, asleep, children, ddsi>>

CountListener(t) ==
    LET e == Top(t).e IN
    /\ In(t, "listener", "locked")
    /\ m_cb_count' = [m_cb_count EXCEPT ![e] = @ + 1]
    /\ holder' = [holder EXCEPT ![e] = None]
    /\ Go(t, "go")
    /\ UNCHANGED <<freed, link, cnt, m_refc, asleep, children, ddsi>>

\* the listener is called, or there is none and the parent is asked
CallListener(t) ==
    /\ In(t, "listener", "calling")
    /\ \/ Go(t, "called")
       \/ Top(t).e = Reader /\ Call(t, "called", "listener", Parent)
    /\ UNCHANGED <<freed, link, cnt, m_refc, m_cb_count, holder, asleep, children, ddsi>>

ListenerDone(t) ==
    LET e == Top(t).e IN
    /\ In(t, "listener", "called") /\ holder[e] = None
    /\ m_cb_count' = [m_cb_count EXCEPT ![e] = @ - 1]
    /\ asleep' = {u \in asleep : Top(u).e # e}
    /\ Return(t, TRUE)
    /\ UNCHANGED <<freed, link, cnt, m_refc, holder, children, ddsi>>

\* dds_entity_status_set and dds_entity_status_signal
SetStatus(t) ==
    /\ In(t, "notify", "set")
    /\ Return(t, TRUE)
    /\ UNCHANGED <<freed, link, cnt, m_refc, m_cb_count, holder, asleep, children, ddsi>>

\* gc_delete_reader: dds_reader_status_cb without data
ReleaseInitialClaim ==
    /\ ddsi = "leaving" /\ \A t \in Receivers : stack[t] = <<>>
    /\ ddsi' = "gone"
    /\ cnt' = [cnt EXCEPT ![Reader] = @ - 1]
    /\ UNCHANGED <<freed, link, m_refc, m_cb_count, holder, asleep, children, stack>>
-----------------------------------------------------------------------------
Start(t, op, e) ==
    /\ stack[t] = <<>>
    /\ stack' = [stack EXCEPT ![t] = <<[op |-> op, e |-> e, at |-> "claim"]>>]
    /\ UNCHANGED <<freed, link, cnt, m_refc, m_cb_count, holder, asleep, children, ddsi>>

Init ==
    /\ freed = {} /\ asleep = {}
    /\ link = [e \in Entity |-> "open"]
    /\ cnt = [e \in Entity |-> IF e = Reader THEN 1 ELSE 0]
    /\ m_refc = [e \in Entity |-> 1]
    /\ m_cb_count = [e \in Entity |-> 0]
    /\ holder = [e \in Entity |-> None]
    /\ children = {Reader}
    /\ ddsi = "there"
    /\ stack = [t \in Threads |-> <<>>]

Continue(t) ==
    \/ Claim(t) \/ Lock(t) \/ Use(t)
    \/ \E place \in {"failed", "leave", "go"} : At(t, place) /\ Release(t, place)
    \/ DropReference(t) \/ KeepExplicit(t) \/ WaitForListeners(t) \/ Woken(t) \/ Close(t)
    \/ PickChild(t) \/ DeleteChild(t) \/ CloseDerived(t) \/ DeleteHandle(t) \/ GiveUp(t)
    \/ Unlink(t) \/ DeleteImplicit(t) \/ Free(t)
    \/ Propagate(t) \/ CountListener(t) \/ CallListener(t) \/ ListenerDone(t) \/ SetStatus(t)

Next ==
    \/ \E t \in Threads : Continue(t)
    \/ \E t \in Apps, e \in Entity : Start(t, "use", e)
    \/ \E t \in Apps, e \in Deletable : Start(t, "delete", e)
    \/ \E t \in Receivers : Notify(t)
    \/ ReleaseInitialClaim

Spec == Init /\ [][Next]_entVars
-----------------------------------------------------------------------------
(* Properties *)

\* the entities that the calls of t have pointers to; a call that is to claim has the handle
Uses(t) == UNION {CASE stack[t][i].at = "claim" -> {}
                    [] stack[t][i].at \in {"child", "parent"} -> Entity
                    [] OTHER -> {stack[t][i].e} : i \in 1 .. Len(stack[t])}

\* No entity is freed while a thread that claimed it, or a listener called for it, is using
\* it, nor a subscriber before its reader: however uses, listeners, the gc thread and
\* deletions of one and the same entity interleave.
FreedUnused ==
    \A e \in freed : (\A t \in Threads : e \notin Uses(t)) /\ cnt[e] = 0

\* Once a handle is closed no listener of the entity is in progress or starts.
ListenersDoneWhenClosed ==
    \A e \in Entity : link[e] # "open" =>
       \A t \in Threads : \A i \in 1 .. Len(stack[t]) :
          ~(stack[t][i].op = "listener" /\ stack[t][i].e = e /\ stack[t][i].at \in {"calling", "called"})
=============================================================================
