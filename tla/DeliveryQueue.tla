---------------------------- MODULE DeliveryQueue ----------------------------
(***************************************************************************)
(* A delivery queue (struct nn_dqueue in q_radmin.c): receive threads      *)
(* append chains of samples, for all readers or for a single one, a thread *)
(* of its own takes what there is and hands it on, and a receive thread    *)
(* that finds the queue full waits until it is empty.                      *)
(*                                                                         *)
(* An element is a sample or the place of one that is unavailable (a gap), *)
(* a bubble that says for whom the next elements are, a callback or the    *)
(* request to stop.  "dq" is the thread of the queue.  What is done while  *)
(* q->lock is held is one step, except that nof_samples changes without    *)
(* it.  A thread in os_condWait is in waiting until it is woken, and goes  *)
(* on when the lock is free.                                               *)
(*                                                                         *)
(* Definitions named X_slip... are wrong variants that no specification    *)
(* uses.                                                                   *)
(***************************************************************************)
EXTENDS Integers, Sequences, SequencesExt, FiniteSets

CONSTANTS Recv,         \* the receive threads
          Readers,      \* the readers that may be served on their own
          MaxSamples,   \* max_samples
          MaxChain,     \* bound: elements in a chain
          MaxEnqueued   \* bound: elements enqueued, with those that wait

VARIABLES
    sc,         \* the queue
    mine,       \* the chain its thread has taken
    nof,        \* nof_samples
    rdguid,     \* the reader the next count elements are for, or all
    keepgoing,
    waiting,    \* the threads in os_condWait
    locked,     \* the thread that holds the lock between two steps, or none
    at,         \* where each thread is
    enqueued,   \* history: whom each element is for, in the order of arrival
    handled     \* history: whom each was handed to, in the order of handling

dqVars == <<sc, mine, nof, rdguid, keepgoing, waiting, locked, at, enqueued, handled>>

All == "all"
Threads == Recv \cup {"dq"}
Kinds == {"data", "gap", "callback"}

Elem(kind) == [kind |-> kind, to |-> All, count |-> 0]
Bubble(to, count) == [kind |-> "rdguid", to |-> to, count |-> count]

\* what the reorder administration delivers at once: samples, and gaps between them
Chains == UNION {[1 .. n -> {Elem("data"), Elem("gap")}] : n \in 1 .. MaxChain}

\* a call of the handler or of a callback for each of the first n elements that makes one
Calls(chain, n, to) == [i \in 1 .. Cardinality({j \in 1 .. n : chain[j].kind # "gap"}) |-> to]
-----------------------------------------------------------------------------
(* The receive threads *)

Append1_slipNoSignal(chain) ==
    /\ locked = "none"
    /\ sc' = sc \o chain
    /\ nof' = nof + Len(chain)
    /\ UNCHANGED waiting

\* nn_dqueue_enqueue_locked and the broadcast after it
Append1(chain) ==
    /\ locked = "none"
    /\ sc' = sc \o chain
    /\ nof' = nof + Len(chain)
    /\ waiting' = IF sc = <<>> THEN {} ELSE waiting

\* nn_dqueue_enqueue, of a chain for all readers, and nn_dqueue_enqueue_callback
Enqueue(r, chain) ==
    /\ at[r] = "idle"
    /\ Append1(chain)
    /\ enqueued' = enqueued \o Calls(chain, Len(chain), All)
    /\ at' = [at EXCEPT ![r] = "isfull"]
    /\ UNCHANGED <<mine, rdguid, keepgoing, locked, handled>>

\* nn_dqueue_enqueue1, of a chain for one reader
Enqueue1(r, to, chain) ==
    /\ at[r] = "idle"
    /\ Append1(<<Bubble(to, Len(chain))>> \o chain)
    /\ enqueued' = enqueued \o Calls(chain, Len(chain), to)
    /\ at' = [at EXCEPT ![r] = "isfull"]
    /\ UNCHANGED <<mine, rdguid, keepgoing, locked, handled>>

\* nn_dqueue_wait_until_empty_if_full: the look without the lock
IsFull(r) ==
    /\ at[r] = "isfull"
    /\ at' = [at EXCEPT ![r] = IF nof >= MaxSamples THEN "check" ELSE "idle"]
    /\ UNCHANGED <<sc, mine, nof, rdguid, keepgoing, waiting, locked, enqueued, handled>>

\* and the one with it
CheckEmpty(r) ==
    /\ at[r] = "check" /\ locked = "none" /\ r \notin waiting
    /\ at' = [at EXCEPT ![r] = IF nof > 0 THEN "wait" ELSE "idle"]
    /\ locked' = IF nof > 0 THEN r ELSE "none"
    /\ UNCHANGED <<sc, mine, nof, rdguid, keepgoing, waiting, enqueued, handled>>

\* os_condWait; when woken, look again
Wait(r) ==
    /\ at[r] = "wait"
    /\ waiting' = waiting \cup {r}
    /\ locked' = "none"
    /\ at' = [at EXCEPT ![r] = "check"]
    /\ UNCHANGED <<sc, mine, nof, rdguid, keepgoing, enqueued, handled>>

\* nn_dqueue_free, when no thread enqueues any more
Free ==
    /\ \A r \in Recv : at[r] = "idle"
    /\ Append1(<<Elem("stop")>>)
    /\ at' = [t \in Threads |-> IF t \in Recv THEN "gone" ELSE at[t]]
    /\ UNCHANGED <<mine, rdguid, keepgoing, locked, enqueued, handled>>
-----------------------------------------------------------------------------
(* dqueue_thread *)

\* the top of the loop
DqLook ==
    /\ at["dq"] = "look" /\ locked = "none"
    /\ \/ /\ sc = <<>>
          /\ waiting' = waiting \cup {"dq"}
          /\ at' = [at EXCEPT !["dq"] = "woken"]
          /\ UNCHANGED <<sc, mine>>
       \/ /\ sc # <<>>
          /\ mine' = sc
          /\ sc' = <<>>
          /\ at' = [at EXCEPT !["dq"] = "next"]
          /\ UNCHANGED waiting
    /\ UNCHANGED <<nof, rdguid, keepgoing, locked, enqueued, handled>>

\* what there is when it was woken, perhaps nothing
DqWoken ==
    /\ at["dq"] = "woken" /\ "dq" \notin waiting /\ locked = "none"
    /\ mine' = sc
    /\ sc' = <<>>
    /\ at' = [at EXCEPT !["dq"] = "next"]
    /\ UNCHANGED <<nof, rdguid, keepgoing, waiting, locked, enqueued, handled>>

\* os_atomic_dec32_ov and the broadcast, both without the lock
DqCountDown ==
    /\ at["dq"] = "next" /\ mine # <<>>
    /\ nof' = nof - 1
    /\ waiting' = IF nof = 1 THEN {} ELSE waiting
    /\ at' = [at EXCEPT !["dq"] = "handle"]
    /\ UNCHANGED <<sc, mine, rdguid, keepgoing, locked, enqueued, handled>>

NextReader_slipNeverAll(e) ==
    IF e.kind = "rdguid" THEN [to |-> e.to, count |-> e.count] ELSE rdguid

\* for whom the elements after e are
NextReader(e) ==
    IF e.kind = "rdguid" THEN [to |-> e.to, count |-> e.count]
    ELSE IF e.kind \notin {"data", "gap"} \/ rdguid.count = 0 THEN rdguid
    ELSE IF rdguid.count = 1 THEN [to |-> All, count |-> 0]
    ELSE [rdguid EXCEPT !.count = @ - 1]

DqHandle ==
    LET e == Head(mine) IN
    /\ at["dq"] = "handle"
    /\ mine' = Tail(mine)
    /\ rdguid' = NextReader(e)
    /\ keepgoing' = (keepgoing /\ e.kind # "stop")
    /\ handled' = IF e.kind = "data" THEN Append(handled, rdguid.to)
                  ELSE IF e.kind = "callback" THEN Append(handled, All) ELSE handled
    /\ at' = [at EXCEPT !["dq"] = "next"]
    /\ UNCHANGED <<sc, nof, waiting, locked, enqueued>>

DqDone ==
    /\ at["dq"] = "next" /\ mine = <<>>
    /\ at' = [at EXCEPT !["dq"] = IF keepgoing THEN "look" ELSE "gone"]
    /\ UNCHANGED <<sc, mine, nof, rdguid, keepgoing, waiting, locked, enqueued, handled>>

DqThread == DqLook \/ DqWoken \/ DqCountDown \/ DqHandle \/ DqDone
-----------------------------------------------------------------------------
Init ==
    /\ sc = <<>> /\ mine = <<>> /\ nof = 0
    /\ rdguid = [to |-> All, count |-> 0]
    /\ keepgoing = TRUE
    /\ waiting = {} /\ locked = "none"
    /\ at = [t \in Threads |-> IF t = "dq" THEN "look" ELSE "idle"]
    /\ enqueued = <<>> /\ handled = <<>>

RecvThread(r) ==
    \/ /\ Len(enqueued) + Len(sc) < MaxEnqueued
       /\ \/ \E chain \in Chains \cup {<<Elem("callback")>>} : Enqueue(r, chain)
          \/ \E to \in Readers, chain \in Chains : Enqueue1(r, to, chain)
    \/ IsFull(r) \/ CheckEmpty(r) \/ Wait(r)

Next == DqThread \/ Free \/ \E r \in Recv : RecvThread(r)

Spec == Init /\ [][Next]_dqVars

\* The thread of the queue runs, and a receive thread does not stop with the lock.
LiveSpec == Spec /\ WF_dqVars(DqThread) /\ \A r \in Recv : WF_dqVars(Wait(r))
-----------------------------------------------------------------------------
(* Properties *)

\* What is enqueued is handed on in the order of arrival, each sample to the readers it
\* was enqueued for, whatever chains and bubbles came between; and nn_dqueue_free returns
\* with all of it handed on and the queue empty, which it asserts.
InOrderToTheRight ==
    /\ IsPrefix(handled, enqueued)
    /\ at["dq"] = "gone" => handled = enqueued /\ sc = <<>> /\ nof = 0

\* nof_samples counts what was not taken up yet, also that which the thread has taken off
\* the queue already, and the thread of the queue never waits while there is something.
CountExactWakeupsSeen ==
    /\ nof = Len(sc) + Len(mine) - (IF at["dq"] = "handle" THEN 1 ELSE 0)
    /\ "dq" \in waiting => sc = <<>>

\* "Once a delivery queue is full, incoming samples destined for that queue are dropped
\* until space becomes available again": a receive thread waits only while there is
\* something in the queue.
WaitsOnlyWhileFull == \A r \in Recv : r \in waiting => nof > 0

\* What is enqueued is handed on in the end, and the receive threads enqueue a bounded
\* number here.
HandedOnInTheEnd == <>[](handled = enqueued)
=============================================================================
