--------------------------- MODULE WriterLifecycle ---------------------------
(***************************************************************************)
(* A reliable writer whose history is full (throttle_writer and            *)
(* write_sample_eot in q_transmit.c) and that is deleted, at once or after *)
(* it has lingered (q_entity.c).  Threads write; receive threads handle    *)
(* acknowledgements, retransmission requests and the departure of readers; *)
(* "closer" calls dds_delete, "timer" is the event that ends lingering,    *)
(* and the gc thread frees the writer.                                     *)
(*                                                                         *)
(* One step is what is done while wr->e.lock is held.  The history is the  *)
(* number of samples that are not acknowledged.  A request for the gc      *)
(* thread records which threads have to make progress first; a thread that *)
(* waits in throttle_writer is asleep and not recorded.                    *)
(*                                                                         *)
(* Definitions named X_slip... are wrong variants that no specification    *)
(* uses.                                                                   *)
(***************************************************************************)
EXTENDS Integers, FiniteSets

CONSTANTS Writing,      \* the threads that call dds_write
          Receiving,    \* the receive threads
          Low, Mark,    \* whc_lowwater_mark, whc_highwater_mark
          Adaptive, PrioritizeRetransmit,   \* settings of the configuration
          Timer         \* is writer_linger_duration finite?

VARIABLES
    state,           \* wr->state, and "freed"
    known,           \* can it be looked up?
    unacked,         \* whc_unacked_bytes
    high,            \* whc_high
    retransmitting, throttling,
    waiting,         \* the threads in os_condWait on throttle_cond
    at,              \* where each thread is
    call,            \* who holds m_call_lock
    slept,           \* history: the threads that slept in the present write
    closed,          \* is the handle closed?
    timer,           \* the event: "none", "scheduled", "done"
    requests         \* requests to free the writer: with wait or not, and for whom

wlVars == <<state, known, unacked, high, retransmitting, throttling, waiting, at, call,
            slept, closed, timer, requests>>

Threads == Writing \cup Receiving \cup {"closer", "timer"}
None == "none"

\* who is awake, and may have a pointer to the writer
Awake == {t \in Threads : at[t] \notin {"idle", "asleep"}}

\* threads_vtime_check: t has made progress
Passed(t) == {[q EXCEPT !.for = @ \ {t}] : q \in requests}

Request_slipNeverWaits == [wait |-> FALSE, for |-> Awake, id |-> Cardinality(requests)]

\* gcreq_writer
Request == [wait |-> throttling, for |-> Awake, id |-> Cardinality(requests)]
-----------------------------------------------------------------------------
(* What is done with the lock held; d is [state, known, waiting, requests, *)
(* retransmitting]                                                         *)

Now == [state |-> state, known |-> known, waiting |-> waiting, requests |-> requests,
        retransmitting |-> retransmitting, high |-> high]

\* delete_writer_nolinger_locked and writer_set_state
Deleted(d) ==
    [d EXCEPT !.state = "deleting", !.known = FALSE,
              !.waiting = IF d.state = "operational" THEN {} ELSE @,
              !.requests = @ \cup {Request}]

ClearRetransmitting(d) == [d EXCEPT !.retransmitting = FALSE, !.waiting = {}]

\* writer_set_retransmitting
SetRetransmitting(d) ==
    [d EXCEPT !.retransmitting = TRUE,
              !.high = IF ~Adaptive \/ @ <= Low THEN @
                       ELSE IF (8 * @) \div 10 > Low THEN (8 * @) \div 10 ELSE Low]

RemoveAcked_slipKeepsRetransmitting(n) ==
    LET a == IF throttling /\ n <= Low THEN [Now EXCEPT !.waiting = {}] ELSE Now
    IN IF a.state = "lingering" /\ n = 0 THEN Deleted(a) ELSE a

\* remove_acked_messages, when n samples remain
RemoveAcked(n) ==
    LET a == IF throttling /\ n <= Low THEN [Now EXCEPT !.waiting = {}] ELSE Now
        b == IF a.retransmitting /\ n = 0 THEN ClearRetransmitting(a) ELSE a
    IN IF b.state = "lingering" /\ n = 0 THEN Deleted(b) ELSE b

Becomes(d) ==
    /\ state' = d.state /\ known' = d.known /\ waiting' = d.waiting
    /\ requests' = d.requests /\ retransmitting' = d.retransmitting /\ high' = d.high

\* t has let go of the writer
Idle(t) == at' = [at EXCEPT ![t] = "idle"]
-----------------------------------------------------------------------------
(* dds_write and write_sample_eot                                          *)

\* The handle is claimed and the thread awake.
WriteStart(t) ==
    /\ at[t] = "idle" /\ ~closed
    /\ at' = [at EXCEPT ![t] = "call"]
    /\ slept' = slept \ {t}
    /\ UNCHANGED <<state, known, unacked, high, retransmitting, throttling, waiting, call, closed,
                   timer, requests>>

\* insert_sample_in_whc; nothing is to be acknowledged when there are no readers
Insert == unacked' = unacked + 1 \/ (unacked = 0 /\ unacked' = 0)

\* maybe_grow_whc may be too soon after it was changed
Grown ==
    {high} \cup IF retransmitting \/ ~Adaptive \/ high >= Mark THEN {}
                ELSE {IF (Mark - high) \div 32 = 0 THEN Mark ELSE high + (Mark - high) \div 32}

\* There is room.
WriteFree(t) ==
    /\ at[t] = "call" /\ call = None
    /\ call' = t /\ at' = [at EXCEPT ![t] = "transmit"]
    /\ IF unacked <= high THEN high' = high
       ELSE /\ ~(PrioritizeRetransmit /\ retransmitting)
            /\ high' \in Grown /\ unacked <= high'
    /\ Insert
    /\ UNCHANGED <<state, known, retransmitting, throttling, waiting, slept, closed, timer,
                   requests>>

\* There is none; the packet is forced out without the lock.
Throttle(t) ==
    /\ at[t] = "call" /\ call = None
    /\ unacked > high
    /\ IF PrioritizeRetransmit /\ retransmitting THEN high' = high
       ELSE high' \in Grown /\ unacked > high'
    /\ call' = t /\ at' = [at EXCEPT ![t] = "send"]
    /\ throttling' = TRUE
    /\ UNCHANGED <<state, known, unacked, retransmitting, waiting, slept, closed, timer, requests>>

MayContinue == (unacked <= Low /\ ~retransmitting) \/ state # "operational"

\* the loop of throttle_writer, entered or woken, with time left: wait ...
Wait(t) ==
    /\ at[t] = "send" \/ (at[t] = "asleep" /\ t \notin waiting)
    /\ ~MayContinue
    /\ waiting' = waiting \cup {t}
    /\ at' = [at EXCEPT ![t] = "asleep"] /\ slept' = slept \cup {t}
    /\ requests' = Passed(t)
    /\ UNCHANGED <<state, known, unacked, high, retransmitting, throttling, call, closed, timer>>

\* the end of throttle_writer; gc_delete_writer may be waiting
ThrottleEnd == throttling' = FALSE /\ waiting' = IF state # "operational" THEN {} ELSE waiting

\* ... or go on and write, whatever the state is by now
Resume(t) ==
    /\ at[t] = "send" \/ (at[t] = "asleep" /\ t \notin waiting)
    /\ MayContinue
    /\ ThrottleEnd
    /\ Insert
    /\ at' = [at EXCEPT ![t] = "transmit"]
    /\ UNCHANGED <<state, known, high, retransmitting, call, slept, closed, timer, requests>>

\* max_blocking_time is over
TimeOut(t) ==
    /\ t \in waiting \/ (at[t] \in {"send", "asleep"} /\ ~MayContinue)
    /\ throttling' = FALSE
    /\ waiting' = (IF state # "operational" THEN {} ELSE waiting) \ {t}
    /\ call' = None /\ Idle(t)
    /\ requests' = Passed(t)
    /\ UNCHANGED <<state, known, unacked, high, retransmitting, slept, closed, timer>>

\* transmit_sample_unlocks_wr and what follows use the writer without its lock, ...
Transmit(t) ==
    /\ at[t] = "transmit"
    /\ call' = None /\ at' = [at EXCEPT ![t] = "deliver"]
    /\ UNCHANGED <<state, known, unacked, high, retransmitting, throttling, waiting, slept, closed,
                   timer, requests>>

\* ... and so does deliver_locally.
Deliver(t) ==
    /\ at[t] = "deliver"
    /\ Idle(t)
    /\ requests' = Passed(t)
    /\ UNCHANGED <<state, known, unacked, high, retransmitting, throttling, waiting, call, slept,
                   closed, timer>>
-----------------------------------------------------------------------------
(* Receive threads                                                         *)

LookUp(t) ==
    /\ at[t] = "idle" /\ known
    /\ at' = [at EXCEPT ![t] = "found"]
    /\ UNCHANGED <<state, known, unacked, high, retransmitting, throttling, waiting, call, slept,
                   closed, timer, requests>>

Leaves(t, d) ==
    /\ Becomes([d EXCEPT !.requests = {[q EXCEPT !.for = @ \ {t}] : q \in d.requests}])
    /\ Idle(t)
    /\ UNCHANGED <<throttling, call, slept, closed, timer>>

\* handle_AckNack: n samples remain, and some of those may be asked for again
Ack(t, n, nack) ==
    LET d == IF n < unacked THEN RemoveAcked(n) ELSE Now IN
    /\ at[t] = "found" /\ n <= unacked
    /\ unacked' = n
    /\ Leaves(t, IF nack /\ n > 0 /\ ~d.retransmitting THEN SetRetransmitting(d) ELSE d)

\* proxy_reader_set_delete_and_ack_all_messages for the reader that lags behind
ReaderGone(t, n) ==
    /\ at[t] = "found" /\ n <= unacked
    /\ unacked' = n
    /\ Leaves(t, ClearRetransmitting(RemoveAcked(n)))
-----------------------------------------------------------------------------
(* Deletion                                                                *)

\* dds_delete closes the handle before it calls dds_writer_close.
Close ==
    /\ at["closer"] = "idle" /\ ~closed
    /\ closed' = TRUE /\ at' = [at EXCEPT !["closer"] = "found"]
    /\ UNCHANGED <<state, known, unacked, high, retransmitting, throttling, waiting, call, slept,
                   timer, requests>>

\* delete_writer
Delete ==
    /\ at["closer"] = "found" /\ known
    /\ LET d == IF unacked = 0 THEN Deleted(Now) ELSE [Now EXCEPT !.state = "lingering", !.waiting = {}]
       IN /\ Becomes([d EXCEPT !.requests = {[q EXCEPT !.for = @ \ {"closer"}] : q \in @}])
          /\ timer' = IF d.state = "lingering" /\ Timer THEN "scheduled" ELSE timer
    /\ Idle("closer")
    /\ UNCHANGED <<unacked, throttling, call, slept, closed>>

\* handle_xevk_delete_writer and delete_writer_nolinger: look it up ...
TimerFires ==
    /\ timer = "scheduled" /\ at["timer"] = "idle"
    /\ timer' = "done"
    /\ at' = [at EXCEPT !["timer"] = IF known THEN "found" ELSE "idle"]
    /\ UNCHANGED <<state, known, unacked, high, retransmitting, throttling, waiting, call, slept,
                   closed, requests>>

\* ... and delete it
TimerDeletes ==
    /\ at["timer"] = "found"
    /\ Becomes([Deleted(Now) EXCEPT !.requests = {[q EXCEPT !.for = @ \ {"timer"}] : q \in @}])
    /\ Idle("timer")
    /\ UNCHANGED <<unacked, throttling, call, slept, closed, timer>>

\* gc_delete_writer_throttlewait waits and then queues the request again ...
GcWait(q) ==
    /\ q.wait /\ q.for = {} /\ throttling /\ "gc" \notin waiting
    /\ waiting' = waiting \cup {"gc"}
    /\ UNCHANGED <<state, known, unacked, high, retransmitting, throttling, at, call, slept,
                   closed, timer, requests>>

GcWaited(q) ==
    /\ q.wait /\ q.for = {} /\ ~throttling /\ "gc" \notin waiting
    /\ requests' = (requests \ {q}) \cup {[q EXCEPT !.wait = FALSE]}
    /\ UNCHANGED <<state, known, unacked, high, retransmitting, throttling, waiting, at, call,
                   slept, closed, timer>>

\* ... for gc_delete_writer.
GcDelete(q) ==
    /\ ~q.wait /\ q.for = {} /\ "gc" \notin waiting
    /\ state' = "freed"
    /\ requests' = requests \ {q}
    /\ UNCHANGED <<known, unacked, high, retransmitting, throttling, waiting, at, call, slept,
                   closed, timer>>
-----------------------------------------------------------------------------
Init ==
    /\ state = "operational" /\ known = TRUE
    /\ unacked = 0 /\ high = Mark
    /\ retransmitting = FALSE /\ throttling = FALSE
    /\ waiting = {} /\ slept = {} /\ requests = {}
    /\ at = [t \in Threads |-> "idle"] /\ call = None
    /\ closed = FALSE /\ timer = "none"

WriteThread(t) ==
    \/ WriteStart(t) \/ WriteFree(t) \/ Throttle(t) \/ Wait(t) \/ Resume(t) \/ TimeOut(t)
    \/ Transmit(t) \/ Deliver(t)

ReceiveThread(t) ==
    \/ LookUp(t)
    \/ \E n \in 0 .. unacked : ReaderGone(t, n) \/ \E nack \in BOOLEAN : Ack(t, n, nack)

GcThread == \E q \in requests : GcWait(q) \/ GcWaited(q) \/ GcDelete(q)

Deletion == Close \/ Delete \/ TimerFires \/ TimerDeletes

Next ==
    \/ \E t \in Writing : WriteThread(t)
    \/ \E t \in Receiving : ReceiveThread(t)
    \/ Deletion \/ GcThread

Spec == Init /\ [][Next]_wlVars

\* Threads go on, and each sample is acknowledged in the end by readers that stay, but no
\* write need be timed out.
AcksArrive == \E t \in Receiving : Ack(t, 0, FALSE)
LiveSpec ==
    /\ Spec
    /\ \A t \in Writing : SF_wlVars(WriteFree(t) \/ Throttle(t))
                         /\ WF_wlVars(Wait(t) \/ Resume(t) \/ Transmit(t) \/ Deliver(t))
    /\ \A t \in Receiving : WF_wlVars(LookUp(t))
    /\ SF_wlVars(AcksArrive)
    /\ WF_wlVars(Delete \/ TimerFires \/ TimerDeletes) /\ WF_wlVars(GcThread)
-----------------------------------------------------------------------------
(* Properties *)

Pointers == {t \in Threads : at[t] \in {"call", "send", "transmit", "deliver", "found"}}

\* writer_set_state asserts that the state moves forward: the writer is never given to the
\* gc thread twice, by the last acknowledgement and by the timer.
DeletedOnce == Cardinality(requests) <= (IF state = "deleting" THEN 1 ELSE 0)

\* What gc_delete_writer asserts: it never runs while a thread is in throttle_writer,
\* although the request is queued for it directly when nobody is at that time.
NotWhileThrottling == \A q \in requests : ~q.wait /\ q.for = {} => ~throttling

\* "the garbage collector won't free the writer while we leave it unchanged": the writer
\* is not freed while a thread uses it.
FreedWhileUnused == state = "freed" => Pointers = {}

\* What holds of it: only a thread that slept in throttle_writer can find the writer freed.
FreedWhileAsleep == state = "freed" => Pointers \subseteq slept

\* No wakeup is lost between the threads: a write sleeps in throttle_writer only while it may
\* not go on, and the gc thread in gc_delete_writer_throttlewait only while one is throttled.
NothingMissed ==
    /\ waiting \cap Writing # {} => ~MayContinue
    /\ "gc" \in waiting => throttling

\* A write that is blocked returns when the samples are acknowledged or the writer is
\* deleted: no wakeup is lost between them.
BlockedReturns == \A t \in Writing : at[t] = "asleep" ~> at[t] = "idle"

\* A closed writer is freed, also when a write is blocked or the gc thread waits for one.
FreedInTheEnd == closed ~> state = "freed"
=============================================================================
