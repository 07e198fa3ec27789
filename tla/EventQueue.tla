------------------------------ MODULE EventQueue ------------------------------
(***************************************************************************)
(* The queue of timed events and of messages to be sent (q_xevent.c), and  *)
(* the thread that handles both.                                           *)
(*                                                                         *)
(* A timed event belongs to a writer, a reader or a participant (heartbeat,*)
(* AckNack, SPDP, PMD), which moves it forward and deletes it, or deletes  *)
(* itself when it is handled (the end of startup mode, of a lingering      *)
(* writer, an SPDP answer).  It is on the heap unless it is scheduled for  *)
(* never, and is freed by the thread, which finds it there with a time     *)
(* before all others.  Messages are in a list; retransmits are counted and *)
(* found by their sample as well, so that another reader that asks for the *)
(* same one is served by the message that waits.                           *)
(*                                                                         *)
(* Each action is what is done while evq->lock is held, or between two     *)
(* such moments; deleted events are freed one at a time.  Times are small  *)
(* numbers, a message has one byte.  What is put together in the xpack may *)
(* be sent at any time.                                                    *)
(*                                                                         *)
(* Definitions named X_slip... are wrong variants that no specification    *)
(* uses.                                                                   *)
(***************************************************************************)
EXTENDS Integers, Sequences, FiniteSets, FiniteSetsExt, SequencesExt

CONSTANTS
    Owned, Once,        \* the timed events: of an owner, or handled once
    Samples, Nodes,     \* what is asked for again, and who asks
    Found,              \* whether retransmits are merged only while the writer is found
    MaxMsgs,            \* max_queued_rexmit_msgs
    MaxTime,            \* bound: the clock
    MaxCalls            \* bound: messages, and how often owners move an event forward

VARIABLES
    now,        \* the clock
    tsched,     \* of each event
    xevents,    \* the heap
    made,       \* the events that were created
    ended,      \* those that were deleted
    freed,      \* those that were freed
    untimed,    \* the list of messages
    msgXevents, \* the samples whose retransmit is in the index
    msgs,       \* queued_rexmit_msgs
    terminate,
    pc,         \* where the thread is
    hand, msg,  \* the event and the message it handles
    pack,       \* what it has not sent yet
    wakeup,     \* until when it waits
    signalled,  \* it is to wake up
    known,      \* the writer is found in the hash table
    calls,      \* how many of those calls there were
    owed        \* history: the retransmits that were promised and not sent

eqVars == <<now, tsched, xevents, made, ended, freed, untimed, msgXevents, msgs, terminate, pc,
            hand, msg, pack, wakeup, signalled, known, calls, owed>>
timedVars == <<tsched, xevents, made, ended, freed>>
untimedVars == <<untimed, msgXevents, msgs, known, owed>>
callVars == <<calls, terminate>>
Call == calls < MaxCalls /\ calls' = calls + 1
threadVars == <<pc, hand, msg, pack, wakeup>>

Events == Owned \cup Once
Deleted == -1               \* TSCHED_DELETE
Never == MaxTime + 2        \* T_NEVER
All == "all"
None == "none"
Control == [sample |-> None, dst |-> All]
-----------------------------------------------------------------------------
(* Timed events *)

\* earliest_in_xeventq
Earliest == Min({tsched[e] : e \in xevents} \cup {Never})

\* os_condSignal: only the thread waits
Signal == signalled' = (signalled \/ pc = "waiting")

SignalIf(early) == IF early THEN Signal ELSE UNCHANGED signalled

\* qxev_heartbeat and the like: qxev_common and qxev_insert
Create(e, t) ==
    /\ e \notin made /\ ~terminate
    /\ made' = made \cup {e}
    /\ tsched' = [tsched EXCEPT ![e] = t]
    /\ xevents' = IF t = Never THEN xevents ELSE xevents \cup {e}
    /\ SignalIf(t < Earliest)
    /\ UNCHANGED <<now, ended, freed, untimedVars, threadVars, callVars>>

\* resched_xevent_if_earlier, which a deleted event is too early for
Moves(e, t) ==
    IF t >= tsched[e] THEN UNCHANGED <<tsched, xevents, signalled>>
    ELSE /\ tsched' = [tsched EXCEPT ![e] = t]
         /\ xevents' = xevents \cup {e}
         /\ SignalIf(t < Earliest)

Deletes_slipNever(e) ==
    /\ tsched' = [tsched EXCEPT ![e] = IF e \in xevents THEN Deleted ELSE @]
    /\ ended' = ended \cup {e}
    /\ UNCHANGED xevents
    /\ Signal

\* delete_xevent
Deletes(e) ==
    /\ tsched' = [tsched EXCEPT ![e] = Deleted]
    /\ xevents' = xevents \cup {e}
    /\ ended' = ended \cup {e}
    /\ Signal

Reschedule(e, t) ==
    /\ e \in (Owned \cap made) \ ended
    /\ Call
    /\ Moves(e, t)
    /\ UNCHANGED <<now, made, ended, freed, untimedVars, threadVars, terminate>>

Delete(e) ==
    /\ e \in (Owned \cap made) \ ended
    /\ Deletes(e)
    /\ UNCHANGED <<now, made, freed, untimedVars, threadVars, callVars>>
-----------------------------------------------------------------------------
(* Messages *)

\* qxev_msg, qxev_prd_entityid and qxev_pwr_entityid
Message ==
    /\ Call
    /\ untimed' = Append(untimed, Control)
    /\ Signal
    /\ UNCHANGED <<now, timedVars, msgXevents, msgs, known, owed, threadVars, terminate>>

\* nn_xmsg_merge_rexmit_destinations: two nodes are served by a message to all that the writer
\* has, if it is still found
Merges(m, d) == m.dst \in {All, d} \/ d = All \/ known \/ ~Found

Merged_slipKeepsFirst(m, d) == m

Merged(m, d) == IF m.dst = d THEN m ELSE [m EXCEPT !.dst = All]

\* qxev_msg_rexmit_wrlock_held
Retransmit(s, d) ==
    LET same == {i \in DOMAIN untimed : untimed[i].sample = s /\ s \in msgXevents}
        merge == {i \in same : Merges(untimed[i], d)} IN
    /\ Call
    /\ \/ /\ merge # {}
          /\ untimed' = [i \in DOMAIN untimed |-> IF i \in merge THEN Merged(untimed[i], d)
                                                  ELSE untimed[i]]
          /\ owed' = owed \cup {<<s, d>>}
          /\ UNCHANGED <<msgXevents, msgs, signalled>>
       \/ /\ merge = {} /\ msgs = MaxMsgs
          /\ UNCHANGED <<untimed, owed, msgXevents, msgs, signalled>>
       \/ /\ merge = {} /\ msgs # MaxMsgs
          /\ untimed' = Append(untimed, [sample |-> s, dst |-> d])
          /\ msgXevents' = msgXevents \cup {s}
          /\ msgs' = msgs + 1
          /\ owed' = owed \cup {<<s, d>>}
          /\ Signal
    /\ UNCHANGED <<now, timedVars, known, threadVars, terminate>>

\* the writer is removed from the hash table, while a thread that found it answers an AckNack
WriterGoes ==
    /\ Found /\ known
    /\ known' = FALSE
    /\ UNCHANGED <<now, timedVars, untimed, msgXevents, msgs, owed, threadVars, signalled, callVars>>
-----------------------------------------------------------------------------
(* The thread *)

Goes(to, e, m) == pc' = to /\ hand' = e /\ msg' = m

\* the due event that comes first: a deleted one is freed, another is off the heap and, so
\* that this shows, scheduled for never before the lock is left
Timed ==
    /\ pc = "loop" /\ Earliest <= now
    /\ \E e \in xevents :
          /\ tsched[e] = Earliest
          /\ xevents' = xevents \ {e}
          /\ IF tsched[e] = Deleted
             THEN /\ freed' = freed \cup {e}
                  /\ UNCHANGED <<tsched, pc, hand, msg>>
             ELSE /\ tsched' = [tsched EXCEPT ![e] = Never]
                  /\ Goes("timed", e, Control)
                  /\ UNCHANGED freed
    /\ UNCHANGED <<now, made, ended, untimedVars, pack, wakeup, signalled, callVars>>

\* handle_individual_xevent: an event comes again later, or not until it is moved forward
Handle ==
    /\ pc = "timed"
    /\ IF hand \in Owned
       THEN /\ \E t \in now + 1 .. MaxTime + 1 \cup {Never} : Moves(hand, t)
            /\ UNCHANGED ended
       ELSE Deletes(hand)
    /\ Goes("loop", None, Control)
    /\ UNCHANGED <<now, made, freed, untimedVars, pack, wakeup, callVars>>

\* getnext_from_non_timed_xmit_list, when no event is due
Untimed ==
    /\ pc = "loop" /\ Earliest > now /\ untimed # <<>>
    /\ untimed' = Tail(untimed)
    /\ msgXevents' = msgXevents \ {Head(untimed).sample}
    /\ Goes("untimed", None, Head(untimed))
    /\ UNCHANGED <<now, timedVars, msgs, known, owed, pack, wakeup, signalled, callVars>>

\* what was promised and is sent
Served(ms) == {<<s, d>> \in owed : \E m \in ms : m.sample = s /\ m.dst \in {All, d}}

\* nn_xpack_addmsg, which may send what it has first, and handle_xevk_msg_rexmit
AddMsg ==
    /\ pc = "untimed"
    /\ \/ pack' = pack \cup {msg} /\ UNCHANGED owed
       \/ pack' = {msg} /\ owed' = owed \ Served(pack)
    /\ IF msg = Control THEN Goes("loop", None, Control) ELSE Goes("sent", None, msg)
    /\ UNCHANGED <<now, timedVars, untimed, msgXevents, msgs, known, wakeup, signalled, callVars>>

\* update_rexmit_counts, with the lock taken again
Uncount ==
    /\ pc = "sent"
    /\ msgs' = msgs - 1
    /\ Goes("loop", None, Control)
    /\ UNCHANGED <<now, timedVars, untimed, msgXevents, known, owed, pack, wakeup, signalled, callVars>>

\* nothing more to do: nn_xpack_send, without the lock
Send ==
    /\ pc = "loop" /\ Earliest > now /\ untimed = <<>>
    /\ Goes("send", None, Control)
    /\ UNCHANGED <<now, timedVars, untimedVars, pack, wakeup, signalled, callVars>>

Sent ==
    /\ pc \in {"send", "last"}
    /\ pack' = {}
    /\ owed' = owed \ Served(pack)
    /\ Goes(IF pc = "send" THEN "decide" ELSE "ended", None, Control)
    /\ UNCHANGED <<now, timedVars, untimed, msgXevents, msgs, known, wakeup, signalled, callVars>>

Decide_slipOnlyEvents ==
    /\ pc = "decide"
    /\ wakeup' = Earliest
    /\ Goes(IF terminate \/ Earliest <= now THEN "start" ELSE "waiting", None, Control)
    /\ UNCHANGED <<now, timedVars, untimedVars, pack, signalled, callVars>>

\* whether to wait, and until when: things may have changed while it sent
Decide ==
    /\ pc = "decide"
    /\ wakeup' = Earliest
    /\ Goes(IF untimed # <<>> \/ terminate \/ Earliest <= now THEN "start" ELSE "waiting", None, Control)
    /\ UNCHANGED <<now, timedVars, untimedVars, pack, signalled, callVars>>

WakeUp ==
    /\ pc = "waiting" /\ (signalled \/ (wakeup # Never /\ now >= wakeup))
    /\ signalled' = FALSE
    /\ Goes("start", None, Control)
    /\ UNCHANGED <<now, timedVars, untimedVars, pack, wakeup, callVars>>

Start ==
    /\ pc = "start"
    /\ Goes(IF terminate THEN "last" ELSE "loop", None, Control)
    /\ UNCHANGED <<now, timedVars, untimedVars, pack, wakeup, signalled, callVars>>
-----------------------------------------------------------------------------
\* xeventq_stop; owners delete their events afterwards
Stop ==
    /\ ~terminate
    /\ terminate' = TRUE
    /\ Signal
    /\ UNCHANGED <<now, timedVars, untimedVars, threadVars, calls>>

\* xeventq_free, when every owner is gone
Free ==
    /\ pc = "ended" /\ Owned \cap made \subseteq ended
    /\ freed' = freed \cup xevents
    /\ xevents' = {}
    /\ msgs' = msgs - Cardinality({i \in DOMAIN untimed : untimed[i] # Control})
    /\ untimed' = <<>> /\ msgXevents' = {} /\ owed' = {}
    /\ Goes("gone", None, Control)
    /\ UNCHANGED <<now, tsched, made, ended, known, pack, wakeup, signalled, callVars>>

Tick ==
    /\ now < MaxTime
    /\ now' = now + 1
    /\ UNCHANGED <<timedVars, untimedVars, threadVars, signalled, callVars>>
-----------------------------------------------------------------------------
Init ==
    /\ now = 0 /\ tsched = [e \in Events |-> Never] /\ xevents = {}
    /\ made = {} /\ ended = {} /\ freed = {} /\ calls = 0
    /\ untimed = <<>> /\ msgXevents = {} /\ msgs = 0 /\ owed = {} /\ known = TRUE
    /\ terminate = FALSE
    /\ pc = "start" /\ hand = None /\ msg = Control /\ pack = {} /\ wakeup = Never /\ signalled = FALSE

Thread ==
    \/ Start \/ Timed \/ Handle \/ Untimed \/ AddMsg \/ Uncount \/ Send \/ Sent \/ Decide \/ WakeUp

Next ==
    \/ \E e \in Events, t \in 0 .. MaxTime \cup {Never} : Create(e, t)
    \/ \E e \in Owned, t \in 0 .. MaxTime : Reschedule(e, t)
    \/ \E e \in Owned : Delete(e)
    \/ Message \/ \E s \in Samples, d \in Nodes \cup {All} : Retransmit(s, d)
    \/ WriterGoes \/ Thread \/ Stop \/ Free \/ Tick

Spec == Init /\ [][Next]_eqVars
-----------------------------------------------------------------------------
(* Properties *)

\* Whoever looks at an event tells from its time whether it is on the heap, however the
\* thread, the owner and the handler interleave; one that is there, in hand or has an owner was
\* not freed, and one that was deleted and not freed is where the thread finds it.
HeapAgrees ==
    /\ \A e \in Events : e \in xevents <=> tsched[e] # Never /\ e \notin freed
    /\ pc # "gone" => freed \subseteq ended
    /\ hand \notin freed

\* A retransmit is in the index as long as it is in the list, once; the count is that of those
\* in the list and the one in hand, and the limit holds.  Whoever was promised a sample is
\* served by a message to it or to all, that was not sent yet.
RetransmitsAgree ==
    LET inHand == IF pc \in {"untimed", "sent"} THEN {msg} \ {Control} ELSE {}
        waiting == {i \in DOMAIN untimed : untimed[i] # Control}
        pending == {untimed[i] : i \in waiting} \cup inHand \cup pack IN
    /\ msgXevents = {untimed[i].sample : i \in waiting}
    /\ \A i, j \in waiting : untimed[i].sample = untimed[j].sample => i = j
    /\ msgs = Cardinality(waiting) + Cardinality(inHand)
    /\ msgs <= MaxMsgs
    /\ Served(pending) = owed

\* The thread does not wait past the first event, nor while there is a message or it is to end.
NoWakeupMissed ==
    pc = "waiting" /\ ~signalled => untimed = <<>> /\ ~terminate /\ wakeup <= Earliest

EventsSafe == HeapAgrees /\ RetransmitsAgree /\ NoWakeupMissed

\* A sample whose retransmit is in the index is not inserted once more (ut_avlInsert).
InsertedOnce ==
    \A i, j \in DOMAIN untimed :
        untimed[i].sample = untimed[j].sample /\ untimed[i] # Control => i = j

Fairness == WF_eqVars(Thread) /\ WF_eqVars(Tick)

\* While the queue is in use, an event that is due is handled, one that was deleted is freed,
\* what was promised is sent, and the thread ends when it is told to.
EventsInTheEnd ==
    /\ \A e \in Events :
          /\ e \in xevents /\ tsched[e] \in 0 .. MaxTime ~> e \notin xevents \/ e \in ended \/ terminate
          /\ e \in ended ~> e \in freed \/ terminate
    /\ \A s \in Samples, d \in Nodes : <<s, d>> \in owed ~> <<s, d>> \notin owed \/ terminate
    /\ terminate ~> pc \in {"ended", "gone"}

LiveSpec == Spec /\ Fairness
=============================================================================
