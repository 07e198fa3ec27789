------------------------- MODULE WriterLifecycleProofs -------------------------
(***************************************************************************)
(* A writer is deleted once, never while a thread waits in it, and freed   *)
(* when only threads that slept in throttle_writer can still use it, and   *)
(* no wakeup is lost: for any number of threads and any settings, when     *)
(* lingering has no time limit.                                            *)
(*                                                                         *)
(* The inductive invariant: the writer is found until it is deleted and    *)
(* deleted after it was closed (Closing); it is throttling exactly while   *)
(* the thread that holds m_call_lock is in throttle_writer (Throttled);    *)
(* the one request for the gc thread waits for all that use the writer and *)
(* did not sleep in it, and the thread that throttles it did not when      *)
(* nobody did as the request was made (Deleting); and the threads that     *)
(* sleep have a reason to (Sleeping).                                      *)
(***************************************************************************)
EXTENDS WriterLifecycle, FiniteSetTheorems, TLAPS

Places == {"idle", "call", "send", "asleep", "transmit", "deliver", "found"}

Requests == [wait : BOOLEAN, for : SUBSET Threads, id : {0}]

Types ==
    /\ state \in {"operational", "lingering", "deleting", "freed"}
    /\ known \in BOOLEAN /\ retransmitting \in BOOLEAN
    /\ throttling \in BOOLEAN /\ closed \in BOOLEAN
    /\ unacked \in Nat
    /\ at \in [Threads -> Places]
    /\ call \in Writing \cup {None}
    /\ waiting \subseteq Threads \cup {"gc"} /\ slept \subseteq Writing
    /\ requests \subseteq Requests

\* what can be looked up, and who deletes it
Closing ==
    /\ known <=> state \in {"operational", "lingering"}
    /\ ~closed => state = "operational"
    /\ at["closer"] \in {"idle", "found"}
    /\ at["closer"] = "found" => closed /\ state = "operational"
    /\ timer = "none" /\ at["timer"] = "idle"

\* who is in throttle_writer, and has slept there
Throttled ==
    /\ \A t \in Writing :
          /\ at[t] \in {"send", "asleep", "transmit"} => call = t
          /\ at[t] \in {"call", "send"} => t \notin slept
          /\ at[t] = "asleep" => t \in slept
    /\ call # None => at[call] \in {"send", "asleep", "transmit"}
    /\ throttling <=> call # None /\ at[call] \in {"send", "asleep"}

\* the one request to free the writer
Deleting ==
    /\ requests # {} => state = "deleting"
    /\ state = "deleting" => \E q \in requests : requests = {q}
    /\ state = "deleting" => \A q \in requests : Pointers \subseteq q.for \cup slept
    /\ state = "deleting" /\ throttling => \A q \in requests : ~q.wait => at[call] = "send"
    /\ FreedWhileAsleep

\* who sleeps, and why
Sleeping ==
    /\ \A t \in waiting \ {"gc"} : t \in Writing /\ at[t] = "asleep"
    /\ "gc" \in waiting => state = "deleting"
    /\ NothingMissed

Inv == Types /\ Closing /\ Throttled /\ Deleting /\ Sleeping

\* The names of the threads of the system are nobody else's.
Names == {"closer", "timer", "gc", None} \cap (Writing \cup Receiving) = {}
-----------------------------------------------------------------------------
\* At first nobody uses the writer.
LEMMA Initially == ASSUME Names, Init PROVE Inv
<1> USE DEF Init, Names, Threads, None
<1>1. Types /\ Closing /\ Throttled
  BY DEF Types, Places, Requests, Closing, Throttled
<1>2. Deleting /\ Sleeping
  BY DEF Deleting, FreedWhileAsleep, Sleeping, NothingMissed
<1> QED BY <1>1, <1>2 DEF Inv

\* the requests R when t has made progress, which is crossed off each of them
Without(R, t) == {[q EXCEPT !.for = @ \ {t}] : q \in R}

\* The requests stay the same but for the thread that is crossed off.
LEMMA CrossedOff ==
    ASSUME NEW R, R \subseteq Requests, NEW t
    PROVE  /\ Without(R, t) \subseteq Requests
           /\ Without(R, t) = {} <=> R = {}
           /\ \A q \in Without(R, t) : \E r \in R : q.wait = r.wait /\ q.for = r.for \ {t}
           /\ (\E q \in R : R = {q}) => \E q \in Without(R, t) : Without(R, t) = {q}
<1> DEFINE Off(q) == [q EXCEPT !.for = @ \ {t}]
<1>1. \A q \in R : Off(q) \in Requests /\ Off(q).wait = q.wait /\ Off(q).for = q.for \ {t}
  BY DEF Requests
<1>2. Without(R, t) = {Off(q) : q \in R}
  BY DEF Without
<1> HIDE DEF Off
<1> QED BY <1>1, <1>2

\* The steps of threads that write.
LEMMA WriteStep ==
    ASSUME Names, Inv, NEW t \in Writing, WriteThread(t)
    PROVE  Inv'
<1> USE DEF Names, Inv
<1>1. CASE WriteStart(t)
  <2> USE <1>1 DEF WriteStart
  <2>1. Types' /\ Closing'
    BY DEF Types, Places, Requests, Closing, Threads, None
  <2>2. Throttled'
    BY DEF Types, Throttled, Threads, None
  <2>3. Deleting'
    BY DEF Types, Closing, Deleting, FreedWhileAsleep, Throttled, Pointers, Threads, None
  <2>4. Sleeping'
    BY DEF Types, Sleeping, NothingMissed, MayContinue, Threads, None
  <2> QED BY <2>1, <2>2, <2>3, <2>4
<1>2. CASE WriteFree(t)
  <2> USE <1>2 DEF WriteFree
  <2>1. Types' /\ Closing'
    BY DEF Insert, Types, Places, Requests, Closing, Threads, None
  <2>2. Throttled'
    BY DEF Types, Throttled, Threads, None
  <2>3. Deleting'
    BY DEF Types, Closing, Deleting, FreedWhileAsleep, Throttled, Pointers, Threads, None
  <2>4. Sleeping'
    BY DEF Types, Sleeping, Throttled, NothingMissed, MayContinue, Threads, None
  <2> QED BY <2>1, <2>2, <2>3, <2>4
<1>3. CASE Throttle(t)
  <2> USE <1>3 DEF Throttle
  <2>1. Types' /\ Closing'
    BY DEF Types, Places, Requests, Closing, Threads, None
  <2>2. Throttled'
    BY DEF Types, Throttled, Threads, None
  <2>3. Deleting'
    BY DEF Types, Closing, Deleting, FreedWhileAsleep, Throttled, Pointers, Threads, None
  <2>4. Sleeping'
    BY DEF Types, Sleeping, Throttled, NothingMissed, MayContinue, Threads, None
  <2> QED BY <2>1, <2>2, <2>3, <2>4
<1>4. CASE Wait(t)
  <2> USE <1>4 DEF Wait
  <2>1. requests = {} /\ requests' = {}
    BY DEF Passed, MayContinue, Deleting
  <2>2. Types' /\ Closing'
    BY <2>1 DEF Types, Places, Requests, Closing, Threads, None
  <2>3. Throttled'
    BY DEF Types, Throttled, Threads, None
  <2>4. Deleting'
    BY <2>1 DEF Types, Closing, Deleting, FreedWhileAsleep, Throttled, Pointers, Threads, None
  <2>5. Sleeping'
    BY DEF Types, Sleeping, Throttled, NothingMissed, MayContinue, Threads, None
  <2> QED BY <2>2, <2>3, <2>4, <2>5
<1>5. CASE Resume(t)
  <2> USE <1>5 DEF Resume, ThrottleEnd
  <2>1. Types' /\ Closing'
    <3>1. unacked' \in Nat
      BY DEF Insert, Types
    <3> QED BY <3>1 DEF Types, Places, Requests, Closing, Threads, None
  <2>2. Throttled'
    BY DEF Types, Throttled, Threads, None
  <2>3. Deleting'
    BY DEF Types, Closing, Deleting, FreedWhileAsleep, Throttled, Pointers, Threads, None
  <2>4. Sleeping'
    BY DEF Types, Sleeping, Throttled, NothingMissed, MayContinue, Threads, None
  <2> QED BY <2>1, <2>2, <2>3, <2>4
<1>6. CASE TimeOut(t)
  <2>1. /\ requests' \subseteq Requests
        /\ (requests' = {} <=> requests = {})
        /\ \A q \in requests' : \E r \in requests : q.wait = r.wait /\ q.for = r.for \ {t}
        /\ (\E q \in requests : requests = {q}) => \E q \in requests' : requests' = {q}
    <3>1. requests \subseteq Requests /\ requests' = Without(requests, t)
      BY <1>6 DEF TimeOut, Passed, Without, Types
    <3> QED BY <3>1, CrossedOff
  <2>2. at[t] \in {"send", "asleep"} /\ call = t
    BY <1>6 DEF TimeOut, Sleeping, Throttled
  <2> USE <1>6 DEF TimeOut, Idle
  <2>3. Types'
    BY <2>1 DEF Types, Places, Requests, Threads, None
  <2>4. Closing'
    BY DEF Types, Closing, Threads, None
  <2>5. Throttled'
    BY <2>2 DEF Types, Throttled, Threads, None
  <2>6. Deleting'
    <3>1. Pointers' = Pointers \ {t} /\ UNCHANGED <<state, slept>>
      BY DEF Pointers, Types, Throttled, Threads, None
    <3>2. ASSUME state' = "deleting", throttling', NEW q \in requests', ~q.wait PROVE at'[call'] = "send"
      BY <3>2, <2>1, <2>2 DEF Deleting, Types, Throttled, Threads, None
    <3>3. FreedWhileAsleep'
      BY <3>1 DEF Deleting, FreedWhileAsleep
    <3>4. ASSUME state' = "deleting", NEW q \in requests' PROVE Pointers' \subseteq q.for \cup slept'
      BY <3>1, <3>4, <2>1, <2>2 DEF Deleting
    <3> QED BY <3>1, <3>2, <3>3, <3>4, <2>1, <2>2 DEF Deleting
  <2>7. Sleeping'
    BY <2>2 DEF Types, Sleeping, Throttled, NothingMissed, MayContinue, Threads, None
  <2> QED BY <2>3, <2>4, <2>5, <2>6, <2>7
<1>7. CASE Transmit(t)
  <2> USE <1>7 DEF Transmit
  <2>1. Types' /\ Closing'
    BY DEF Types, Places, Requests, Closing, Threads, None
  <2>2. Throttled'
    BY DEF Types, Throttled, Threads, None
  <2>3. Deleting'
    BY DEF Types, Closing, Deleting, FreedWhileAsleep, Throttled, Pointers, Threads, None
  <2>4. Sleeping'
    BY DEF Types, Sleeping, Throttled, NothingMissed, MayContinue, Threads, None
  <2> QED BY <2>1, <2>2, <2>3, <2>4
<1>8. CASE Deliver(t)
  <2>1. /\ requests' \subseteq Requests
        /\ (requests' = {} <=> requests = {})
        /\ \A q \in requests' : \E r \in requests : q.wait = r.wait /\ q.for = r.for \ {t}
        /\ (\E q \in requests : requests = {q}) => \E q \in requests' : requests' = {q}
    <3>1. requests \subseteq Requests /\ requests' = Without(requests, t)
      BY <1>8 DEF Deliver, Passed, Without, Types
    <3> QED BY <3>1, CrossedOff
  <2> USE <1>8 DEF Deliver, Idle
  <2>2. Types' /\ Closing'
    BY <2>1 DEF Types, Places, Requests, Closing, Threads, None
  <2>3. Throttled'
    BY DEF Types, Throttled, Threads, None
  <2>4. Deleting'
    <3>1. Pointers' = Pointers \ {t} /\ UNCHANGED <<state, slept>>
      BY DEF Pointers, Types, Throttled, Threads, None
    <3>2. ASSUME state' = "deleting", throttling', NEW q \in requests', ~q.wait PROVE at'[call'] = "send"
      BY <3>2, <2>1 DEF Deleting, Types, Throttled, Threads, None
    <3>3. FreedWhileAsleep'
      BY <3>1 DEF Deleting, FreedWhileAsleep
    <3>4. ASSUME state' = "deleting", NEW q \in requests' PROVE Pointers' \subseteq q.for \cup slept'
      BY <3>1, <3>4, <2>1 DEF Deleting
    <3> QED BY <3>1, <3>2, <3>3, <3>4, <2>1 DEF Deleting
  <2>5. Sleeping'
    BY DEF Types, Sleeping, Throttled, NothingMissed, MayContinue, Threads, None
  <2> QED BY <2>2, <2>3, <2>4, <2>5
<1> QED BY <1>1, <1>2, <1>3, <1>4, <1>5, <1>6, <1>7, <1>8 DEF WriteThread
-----------------------------------------------------------------------------
\* The request for the gc thread is the first, and waits for all who use the writer now.
LEMMA FirstRequest ==
    ASSUME Inv, state \in {"operational", "lingering"}
    PROVE  /\ requests = {} /\ Request \in Requests
           /\ Request.wait = throttling /\ Request.for = Awake
<1>1. requests = {} /\ Cardinality(requests) = 0
  BY FS_EmptySet DEF Inv, Deleting
<1> QED BY <1>1 DEF Request, Requests, Awake, Inv, Types

\* Who has a pointer to the writer is awake.
LEMMA PointersAwake == ASSUME Inv PROVE Pointers \subseteq Awake
BY DEF Inv, Types, Places, Pointers, Awake

\* The writer is given to the gc thread by a thread that leaves it.
LEMMA GivenToGc ==
    ASSUME Names, Inv, NEW t \in Threads, at[t] = "found", at' = [at EXCEPT ![t] = "idle"],
           state \in {"operational", "lingering"}, state' = "deleting",
           requests' = Without(requests \cup {Request}, t),
           UNCHANGED <<throttling, call, slept>>
    PROVE  requests' \subseteq Requests /\ Deleting'
<1> DEFINE R == {Request}
<1>1. /\ requests \cup {Request} = R /\ R \subseteq Requests
      /\ Request.wait = throttling /\ Request.for = Awake
  BY FirstRequest
<1>2. /\ requests' \subseteq Requests
      /\ \A q \in requests' : q.wait = throttling /\ q.for = Awake \ {t}
      /\ \E q \in requests' : requests' = {q}
  <2>1. requests' = Without(R, t) /\ Request \in R /\ R = {Request}
    BY <1>1
  <2> HIDE DEF R
  <2>2. /\ Without(R, t) \subseteq Requests
        /\ \A q \in Without(R, t) : \E r \in R : q.wait = r.wait /\ q.for = r.for \ {t}
        /\ \E q \in Without(R, t) : Without(R, t) = {q}
    BY <1>1, <2>1, CrossedOff
  <2> QED BY <1>1, <2>1, <2>2
<1>3. Pointers' = Pointers \ {t}
  BY DEF Inv, Types, Pointers
<1>4. Pointers' \subseteq Awake \ {t}
  BY <1>3, PointersAwake
<1> QED BY <1>2, <1>4 DEF Deleting, FreedWhileAsleep

\* A thread leaves a writer that is not given to the gc thread then.
LEMMA LeftAlone ==
    ASSUME Names, Inv, NEW t \in Threads, at[t] = "found", at' = [at EXCEPT ![t] = "idle"],
           \/ state' = state
           \/ state = "operational" /\ state' = "lingering",
           requests' = Without(requests, t),
           UNCHANGED <<throttling, call, slept>>
    PROVE  requests' \subseteq Requests /\ Deleting'
<1>1. /\ requests' \subseteq Requests
      /\ (requests' = {} <=> requests = {})
      /\ \A q \in requests' : \E r \in requests : q.wait = r.wait /\ q.for = r.for \ {t}
      /\ (\E q \in requests : requests = {q}) => \E q \in requests' : requests' = {q}
  BY CrossedOff DEF Inv, Types
<1>2. Pointers' = Pointers \ {t}
  BY DEF Inv, Types, Pointers
<1>3. ASSUME state' = "deleting", throttling', NEW q \in requests', ~q.wait PROVE at'[call'] = "send"
  BY <1>3, <1>1 DEF Inv, Deleting, Types, Throttled, Threads, None
<1>4. FreedWhileAsleep'
  BY <1>2 DEF Inv, Deleting, FreedWhileAsleep
<1>5. ASSUME state' = "deleting", NEW q \in requests' PROVE Pointers' \subseteq q.for \cup slept'
  BY <1>2, <1>5, <1>1 DEF Inv, Deleting
<1> QED BY <1>1, <1>2, <1>3, <1>4, <1>5 DEF Inv, Deleting

\* who sleeps on, and whether retransmission goes on, when n samples are to be acknowledged
SleepOn(n) == IF (throttling /\ n <= Low) \/ (retransmitting /\ n = 0) THEN {} ELSE waiting
Again(n) == retransmitting /\ n # 0

\* What remove_acked_messages does: wake the writing thread, end retransmission, and delete a
\* lingering writer.
LEMMA AckedIs ==
    ASSUME retransmitting \in BOOLEAN, NEW n
    PROVE  RemoveAcked(n) =
              IF state = "lingering" /\ n = 0
              THEN [state |-> "deleting", known |-> FALSE, waiting |-> SleepOn(n),
                    requests |-> requests \cup {Request}, retransmitting |-> Again(n),
                    high |-> high]
              ELSE [state |-> state, known |-> known, waiting |-> SleepOn(n),
                    requests |-> requests, retransmitting |-> Again(n), high |-> high]
<1> DEFINE a == IF throttling /\ n <= Low THEN [Now EXCEPT !.waiting = {}] ELSE Now
           b == IF a.retransmitting /\ n = 0 THEN ClearRetransmitting(a) ELSE a
<1>1. b = [state |-> state, known |-> known, waiting |-> SleepOn(n), requests |-> requests,
           retransmitting |-> Again(n), high |-> high]
  BY DEF Now, ClearRetransmitting, SleepOn, Again
<1>2. RemoveAcked(n) = IF b.state = "lingering" /\ n = 0 THEN Deleted(b) ELSE b
  BY DEF RemoveAcked
<1> HIDE DEF b
<1> QED BY <1>1, <1>2 DEF Deleted

\* Only the thread that holds m_call_lock sleeps, while the writer throttles it.
LEMMA SleeperThrottled ==
    ASSUME Names, Inv, waiting \cap Writing # {}
    PROVE  throttling /\ state = "operational"
BY DEF Names, Inv, Sleeping, NothingMissed, MayContinue, Throttled, None

\* the writer as a receive thread may leave it, when n samples are to be acknowledged
Outcome(d, n) ==
    /\ d = [state |-> d.state, known |-> d.known, waiting |-> d.waiting,
            requests |-> d.requests, retransmitting |-> d.retransmitting, high |-> d.high]
    /\ d.retransmitting \in BOOLEAN
    /\ \/ d.state = state /\ d.known = known /\ d.requests = requests
       \/ /\ state = "lingering" /\ d.state = "deleting" /\ d.known = FALSE
          /\ d.requests = requests \cup {Request}
    /\ d.waiting \in {waiting, {}}
    /\ d.waiting \cap Writing # {} =>
          ~(n <= Low /\ ~d.retransmitting) /\ d.state = "operational"

\* A receive thread leaves the writer.
LEMMA Left ==
    ASSUME Names, Inv, NEW t \in Receiving, at[t] = "found",
           unacked' \in Nat, NEW d, Outcome(d, unacked'), Leaves(t, d)
    PROVE  Inv'
<1>1. /\ state' = d.state /\ known' = d.known /\ waiting' = d.waiting
      /\ retransmitting' = d.retransmitting
      /\ requests' = Without(d.requests, t)
      /\ at' = [at EXCEPT ![t] = "idle"]
      /\ UNCHANGED <<throttling, call, slept, closed, timer>>
  BY DEF Leaves, Becomes, Idle, Without, Outcome
<1>2. requests' \subseteq Requests /\ Deleting'
  BY <1>1, LeftAlone, GivenToGc DEF Threads, Outcome
<1>3. t # "closer" /\ t # "timer" /\ "gc" \notin Writing
  BY DEF Names
<1>4. Types'
  BY <1>1, <1>2, <1>3 DEF Inv, Types, Places, Threads, Outcome
<1>5. Closing'
  BY <1>1, <1>3 DEF Inv, Types, Closing, Threads, Outcome
<1>6. Throttled'
  BY <1>1 DEF Inv, Types, Throttled, Threads, None
<1>7. Sleeping'
  <2>1. \A u \in waiting' \ {"gc"} : u \in Writing /\ at'[u] = "asleep"
    BY <1>1 DEF Inv, Types, Sleeping, Outcome
  <2>2. "gc" \in waiting' => throttling' /\ state' = "deleting"
    BY <1>1 DEF Inv, Sleeping, NothingMissed, Outcome
  <2> QED BY <1>1, <2>1, <2>2 DEF Sleeping, NothingMissed, MayContinue, Outcome
<1> QED BY <1>2, <1>4, <1>5, <1>6, <1>7 DEF Inv

\* What remove_acked_messages leaves is such an outcome.
LEMMA AckedOutcome ==
    ASSUME Names, Inv, NEW n PROVE Outcome(RemoveAcked(n), n)
<1>1. /\ retransmitting \in BOOLEAN /\ Again(n) \in BOOLEAN /\ SleepOn(n) \in {waiting, {}}
  BY DEF Inv, Types, SleepOn, Again
<1>2. SleepOn(n) \cap Writing # {} => ~(n <= Low) /\ state = "operational"
  BY SleeperThrottled DEF SleepOn
<1> QED BY <1>1, <1>2, AckedIs DEF Outcome

\* Nor does ending the retransmission change that.
LEMMA ClearedOutcome ==
    ASSUME NEW d, NEW n, Outcome(d, n)
    PROVE  Outcome(ClearRetransmitting(d), n)
<1>1. PICK e : e = ClearRetransmitting(d)
  OBVIOUS
<1>2. e = [state |-> e.state, known |-> e.known, waiting |-> e.waiting, requests |-> e.requests,
           retransmitting |-> e.retransmitting, high |-> e.high]
  BY <1>1 DEF ClearRetransmitting, Outcome
<1>3. /\ e.state = d.state /\ e.known = d.known /\ e.requests = d.requests
      /\ e.waiting = {} /\ e.retransmitting = FALSE
  BY <1>1 DEF ClearRetransmitting, Outcome
<1>4. Outcome(e, n)
  BY <1>2, <1>3 DEF Outcome
<1> QED BY <1>1, <1>4

\* The steps of receive threads.
LEMMA ReceiveStep ==
    ASSUME Names, Inv, NEW t \in Receiving, ReceiveThread(t)
    PROVE  Inv'
<1>1. CASE LookUp(t)
  <2> USE <1>1 DEF LookUp, Names, Inv
  <2>1. Types' /\ Closing'
    BY DEF Types, Places, Requests, Closing, Threads, None
  <2>2. Throttled'
    BY DEF Types, Throttled, Threads, None
  <2>3. Deleting'
    BY DEF Types, Closing, Deleting, FreedWhileAsleep, Throttled, Pointers, Threads, None
  <2>4. Sleeping'
    BY DEF Types, Sleeping, NothingMissed, MayContinue, Threads, None
  <2> QED BY <2>1, <2>2, <2>3, <2>4
<1>2. ASSUME NEW n \in 0 .. unacked, ReaderGone(t, n) PROVE Inv'
  <2> DEFINE d == RemoveAcked(n)
  <2>1. Outcome(ClearRetransmitting(d), n)
    BY AckedOutcome, ClearedOutcome
  <2>2. at[t] = "found" /\ unacked' = n /\ n \in Nat /\ Leaves(t, ClearRetransmitting(d))
    BY <1>2 DEF ReaderGone, Inv, Types
  <2> HIDE DEF d
  <2> QED BY <2>1, <2>2, Left
<1>3. ASSUME NEW n \in 0 .. unacked, NEW nack \in BOOLEAN, Ack(t, n, nack) PROVE Inv'
  <2> DEFINE d == IF n < unacked THEN RemoveAcked(n) ELSE Now
             e == IF nack /\ n > 0 /\ ~d.retransmitting THEN SetRetransmitting(d) ELSE d
  <2>1. Outcome(d, n)
    <3>1. CASE n < unacked
      BY <3>1, AckedOutcome
    <3>2. CASE ~(n < unacked)
      <4>1. n = unacked
        BY <3>2 DEF Inv, Types
      <4>2. waiting \cap Writing # {} => ~(n <= Low /\ ~retransmitting) /\ state = "operational"
        BY <4>1 DEF Inv, Sleeping, NothingMissed, MayContinue
      <4> QED BY <3>2, <4>2 DEF Now, Outcome, Inv, Types
    <3> QED BY <3>1, <3>2
  <2> HIDE DEF d
  <2>2. Outcome(e, n)
    BY <2>1 DEF SetRetransmitting, Outcome
  <2>3. at[t] = "found" /\ unacked' = n /\ n \in Nat /\ Leaves(t, e)
    BY <1>3 DEF Ack, Inv, Types, d
  <2> HIDE DEF e
  <2> QED BY <2>2, <2>3, Left
<1> QED BY <1>1, <1>2, <1>3 DEF ReceiveThread
-----------------------------------------------------------------------------
\* The steps of the thread that deletes the writer; no timer runs.
LEMMA DeletionStep ==
    ASSUME ~Timer, Names, Inv, Deletion
    PROVE  Inv'
<1> USE DEF Names, Inv
<1>1. CASE Close
  <2> USE <1>1 DEF Close
  <2>1. Types' /\ Closing'
    BY DEF Types, Places, Requests, Closing, Threads, None
  <2>2. Throttled'
    BY DEF Types, Throttled, Threads, None
  <2>3. Deleting'
    BY DEF Types, Closing, Deleting, FreedWhileAsleep, Pointers, Threads, None
  <2>4. Sleeping'
    BY DEF Types, Sleeping, NothingMissed, MayContinue, Threads, None
  <2> QED BY <2>1, <2>2, <2>3, <2>4
<1>2. CASE Delete
  <2>1. state = "operational" /\ at["closer"] = "found" /\ closed
    BY <1>2 DEF Delete, Closing
  <2>2. /\ at' = [at EXCEPT !["closer"] = "idle"] /\ waiting' = {} /\ known' \in BOOLEAN
        /\ timer' = timer
        /\ UNCHANGED <<unacked, retransmitting, throttling, call, slept, closed>>
        /\ \/ state' = "deleting" /\ ~known' /\ requests' = Without(requests \cup {Request}, "closer")
           \/ state' = "lingering" /\ known' /\ requests' = Without(requests, "closer")
    BY <1>2, <2>1 DEF Delete, Deleted, Now, Becomes, Idle, Without, Closing
  <2>3. requests' \subseteq Requests /\ Deleting'
    BY <2>1, <2>2, GivenToGc, LeftAlone DEF Threads
  <2>4. Types' /\ Closing' /\ Throttled'
    BY <2>1, <2>2, <2>3 DEF Types, Places, Closing, Throttled, Threads, None
  <2>5. Sleeping'
    BY <2>2 DEF Sleeping, NothingMissed
  <2> QED BY <2>3, <2>4, <2>5
<1>3. ~TimerFires /\ ~TimerDeletes
  BY DEF TimerFires, TimerDeletes, Closing
<1> QED BY <1>1, <1>2, <1>3 DEF Deletion

\* The steps of the gc thread.
LEMMA GcStep ==
    ASSUME Names, Inv, GcThread
    PROVE  Inv'
<1> USE DEF Names, Inv
<1> PICK q \in requests : GcWait(q) \/ GcWaited(q) \/ GcDelete(q)
  BY DEF GcThread
<1>1. state = "deleting" /\ requests = {q} /\ q \in Requests /\ Pointers \subseteq q.for \cup slept
  BY DEF Types, Deleting
<1>2. CASE GcWait(q)
  <2> USE <1>2 DEF GcWait
  <2>1. Types' /\ Closing' /\ Throttled' /\ Deleting'
    BY DEF Types, Closing, Throttled, Deleting, FreedWhileAsleep, Pointers
  <2>2. Sleeping'
    BY <1>1 DEF Sleeping, NothingMissed, MayContinue
  <2> QED BY <2>1, <2>2
<1>3. CASE GcWaited(q)
  <2> DEFINE s == [q EXCEPT !.wait = FALSE]
  <2>1. s \in Requests /\ s.for = q.for /\ ~s.wait
    BY <1>1 DEF Requests
  <2>2. requests' = {s} /\ ~throttling
    BY <1>1, <1>3 DEF GcWaited
  <2> HIDE DEF s
  <2> USE <1>3 DEF GcWaited
  <2>3. Types' /\ Closing' /\ Throttled'
    BY <2>1, <2>2 DEF Types, Closing, Throttled
  <2>4. Deleting'
    BY <1>1, <2>1, <2>2 DEF Deleting, FreedWhileAsleep, Pointers
  <2>5. Sleeping'
    BY DEF Sleeping, NothingMissed, MayContinue
  <2> QED BY <2>3, <2>4, <2>5
<1>4. CASE GcDelete(q)
  <2> USE <1>4 DEF GcDelete
  <2>1. requests' = {}
    BY <1>1
  <2>2. Types' /\ Closing' /\ Throttled'
    BY <1>1, <2>1 DEF Types, Closing, Throttled
  <2>3. Deleting'
    BY <1>1, <2>1 DEF Deleting, FreedWhileAsleep, Pointers
  <2>4. Sleeping'
    BY <1>1 DEF Sleeping, NothingMissed, MayContinue
  <2> QED BY <2>2, <2>3, <2>4
<1> QED BY <1>2, <1>3, <1>4

\* A request that has nobody to wait for is not served while a thread is throttled, and there
\* is one at most.
LEMMA InvImplies ==
    ASSUME Names, Inv
    PROVE  DeletedOnce /\ NotWhileThrottling /\ FreedWhileAsleep /\ NothingMissed
<1> USE DEF Names, Inv
<1>1. DeletedOnce
  BY FS_EmptySet, FS_Singleton DEF DeletedOnce, Deleting
<1>2. NotWhileThrottling
  <2> SUFFICES ASSUME NEW q \in requests, ~q.wait, q.for = {}, throttling PROVE FALSE
    BY DEF NotWhileThrottling
  <2>1. state = "deleting" /\ at[call] = "send" /\ Pointers \subseteq slept
    BY DEF Deleting
  <2>2. call \in Writing /\ call \in Pointers /\ call \notin slept
    BY <2>1 DEF Types, Throttled, Pointers, Threads, None
  <2> QED BY <2>1, <2>2
<1>3. FreedWhileAsleep /\ NothingMissed
  BY DEF Deleting, Sleeping
<1> QED BY <1>1, <1>2, <1>3

\* When lingering has no time limit, a writer is given to the gc thread once, not while a
\* thread waits in it, and freed while only a thread that slept in throttle_writer can still
\* use it; and neither a write nor the gc thread sleeps on when it may go on.
THEOREM DeletedSafely ==
    ASSUME ~Timer, Names
    PROVE  Spec => [](DeletedOnce /\ NotWhileThrottling /\ FreedWhileAsleep /\ NothingMissed)
<1>1. Init => Inv
  BY Initially
<1>2. Inv /\ [Next]_wlVars => Inv'
  <2> SUFFICES ASSUME Inv, [Next]_wlVars PROVE Inv'
    OBVIOUS
  <2>1. CASE Next
    BY <2>1, WriteStep, ReceiveStep, DeletionStep, GcStep DEF Next
  <2>2. CASE UNCHANGED wlVars
    BY <2>2 DEF wlVars, Inv, Types, Closing, Throttled, Deleting, Sleeping, FreedWhileAsleep,
                NothingMissed, MayContinue, Pointers
  <2> QED BY <2>1, <2>2
<1>3. Inv => DeletedOnce /\ NotWhileThrottling /\ FreedWhileAsleep /\ NothingMissed
  BY InvImplies
<1> QED BY <1>1, <1>2, <1>3, PTL DEF Spec
=============================================================================
