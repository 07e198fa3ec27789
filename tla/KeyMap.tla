------------------------------- MODULE KeyMap --------------------------------
(***************************************************************************)
(* The key map (dds_tkmap.c): for each key value that is in use the one    *)
(* entry with its instance handle, shared by all writers and readers.  An  *)
(* entry counts its references; who drops the last one marks it deleted,   *)
(* takes it out of the hash table and leaves its memory to the gc thread,  *)
(* while others may have found it already and count themselves in.         *)
(*                                                                         *)
(* Operations of the hash table and of atomics are one step each; so is    *)
(* the loop around os_atomic_cas32.  References are kept by samples, not   *)
(* by threads.  A thread is awake during an operation; the gc thread frees *)
(* an entry when all that were awake when it was asked to have moved on.   *)
(*                                                                         *)
(* Definitions named X_slip... are wrong variants that no specification    *)
(* uses.                                                                   *)
(***************************************************************************)
EXTENDS Integers, FiniteSets

CONSTANTS Threads, Keys,
          Entries,    \* bound: addresses of entries, 1 .. n in the order of their use
          NoEntry,
          MaxRefs     \* bound: no more is asked for while an entry has as many references

VARIABLES
    table,     \* the hash table: per key an entry or NoEntry
    key,       \* per entry: the key of m_sample
    refc,      \* per entry: m_refc without ...
    deleted,   \* ... REFC_DELETE: the entries that have it
    kept,      \* history: per entry, the references that samples keep
    at, tk,    \* where each thread is, and the entry it looks at
    wanted,    \* the key it looks for
    locked,    \* who holds m_lock between two steps, or none
    waiting,   \* the threads in os_condWait
    vtimes,    \* per entry: whom the gc thread waits for before it frees it
    asked,     \* the entries that the gc thread was asked to free
    used,      \* the entries that were allocated so far
    freed      \* history: those that were freed

kmVars == <<table, key, refc, deleted, kept, at, tk, wanted, locked, waiting, vtimes, asked,
            used, freed>>

None == "none"
Go(t, place) == at' = [at EXCEPT ![t] = place]

\* thread_state_asleep, or awake again: all that waits for t has waited
Finish(t) ==
    /\ Go(t, "idle")
    /\ tk' = [tk EXCEPT ![t] = NoEntry]
    /\ vtimes' = [e \in Entries |-> vtimes[e] \ {t}]

Awake == {t \in Threads : at[t] # "idle"}
-----------------------------------------------------------------------------
(* dds_tkmap_find                                                          *)

Find(t, k) ==
    /\ at[t] = "idle"
    /\ \A e \in Entries : kept[e] < MaxRefs
    /\ wanted' = [wanted EXCEPT ![t] = k]
    /\ Go(t, "lookup")
    /\ UNCHANGED <<table, key, refc, deleted, kept, tk, locked, waiting, vtimes, asked, used, freed>>

\* ut_chhLookup; what is not there is created
LookUp(t) ==
    /\ at[t] = "lookup"
    /\ tk' = [tk EXCEPT ![t] = table[wanted[t]]]
    /\ Go(t, IF table[wanted[t]] = NoEntry THEN "create" ELSE "count")
    /\ UNCHANGED <<table, key, refc, deleted, kept, wanted, locked, waiting, vtimes, asked, used, freed>>

CountIn_slipIgnoresDelete(t) ==
    /\ at[t] = "count"
    /\ refc' = [refc EXCEPT ![tk[t]] = @ + 1]
    /\ kept' = [kept EXCEPT ![tk[t]] = @ + 1]
    /\ Finish(t)
    /\ UNCHANGED <<table, key, deleted, wanted, locked, waiting, asked, used, freed>>

\* os_atomic_inc32_nv
CountIn(t) ==
    LET e == tk[t] IN
    /\ at[t] = "count"
    /\ refc' = [refc EXCEPT ![e] = @ + 1]
    /\ \/ /\ e \in deleted
          /\ Go(t, "countout")
          /\ UNCHANGED <<kept, tk, vtimes>>
       \/ /\ e \notin deleted
          /\ kept' = [kept EXCEPT ![e] = @ + 1]
          /\ Finish(t)
    /\ UNCHANGED <<table, key, deleted, wanted, locked, waiting, asked, used, freed>>

CountOut(t) ==
    /\ at[t] = "countout"
    /\ refc' = [refc EXCEPT ![tk[t]] = @ - 1]
    /\ tk' = [tk EXCEPT ![t] = NoEntry]
    /\ Go(t, "check")
    /\ UNCHANGED <<table, key, deleted, kept, wanted, locked, waiting, vtimes, asked, used, freed>>

\* with m_lock: wait while a deleted entry is in the table
Check(t) ==
    /\ at[t] = "check" /\ t \notin waiting /\ locked = None
    /\ IF table[wanted[t]] \in deleted
       THEN locked' = t /\ Go(t, "wait")
       ELSE UNCHANGED locked /\ Go(t, "lookup")
    /\ UNCHANGED <<table, key, refc, deleted, kept, tk, wanted, waiting, vtimes, asked, used, freed>>

\* os_condWait
Wait(t) ==
    /\ at[t] = "wait"
    /\ waiting' = waiting \cup {t}
    /\ locked' = None
    /\ Go(t, "check")
    /\ UNCHANGED <<table, key, refc, deleted, kept, tk, wanted, vtimes, asked, used, freed>>

Create(t, e) ==
    /\ at[t] = "create" /\ e \notin used /\ \A d \in Entries \ used : e <= d
    /\ used' = used \cup {e}
    /\ key' = [key EXCEPT ![e] = wanted[t]]
    /\ refc' = [refc EXCEPT ![e] = 1]
    /\ tk' = [tk EXCEPT ![t] = e]
    /\ Go(t, "add")
    /\ UNCHANGED <<table, deleted, kept, wanted, locked, waiting, vtimes, asked, freed>>

\* ut_chhAdd, unless another thread was first
Add(t) ==
    LET e == tk[t] IN
    /\ at[t] = "add"
    /\ \/ /\ table[wanted[t]] = NoEntry
          /\ table' = [table EXCEPT ![wanted[t]] = e]
          /\ kept' = [kept EXCEPT ![e] = 1]
          /\ Finish(t)
          /\ UNCHANGED freed
       \/ /\ table[wanted[t]] # NoEntry
          /\ freed' = freed \cup {e}
          /\ tk' = [tk EXCEPT ![t] = NoEntry]
          /\ Go(t, "lookup")
          /\ UNCHANGED <<table, kept, vtimes>>
    /\ UNCHANGED <<key, refc, deleted, wanted, locked, waiting, asked, used>>
-----------------------------------------------------------------------------
(* dds_tkmap_instance_ref and dds_tkmap_instance_unref, of a kept reference *)

Ref(t, e) ==
    /\ at[t] = "idle" /\ kept[e] \in 1 .. MaxRefs - 1
    /\ refc' = [refc EXCEPT ![e] = @ + 1]
    /\ kept' = [kept EXCEPT ![e] = @ + 1]
    /\ UNCHANGED <<table, key, deleted, at, tk, wanted, locked, waiting, vtimes, asked, used, freed>>

Unref(t, e) ==
    /\ at[t] = "idle" /\ kept[e] > 0
    /\ refc' = [refc EXCEPT ![e] = @ - 1]
    /\ kept' = [kept EXCEPT ![e] = @ - 1]
    /\ \/ /\ refc[e] = 1
          /\ deleted' = deleted \cup {e}
          /\ tk' = [tk EXCEPT ![t] = e]
          /\ Go(t, "remove")
       \/ /\ refc[e] # 1
          /\ UNCHANGED <<deleted, at, tk>>
    /\ UNCHANGED <<table, key, wanted, locked, waiting, vtimes, asked, used, freed>>

\* ut_chhRemove
Remove(t) ==
    /\ at[t] = "remove"
    /\ table' = [table EXCEPT ![key[tk[t]]] = NoEntry]
    /\ Go(t, "signal")
    /\ UNCHANGED <<key, refc, deleted, kept, tk, wanted, locked, waiting, vtimes, asked, used, freed>>

Signal_slipNone(t) ==
    /\ at[t] = "signal" /\ locked = None
    /\ Go(t, "ask")
    /\ UNCHANGED <<table, key, refc, deleted, kept, tk, wanted, locked, waiting, vtimes, asked, used, freed>>

Signal(t) ==
    /\ at[t] = "signal" /\ locked = None
    /\ waiting' = {}
    /\ Go(t, "ask")
    /\ UNCHANGED <<table, key, refc, deleted, kept, tk, wanted, locked, vtimes, asked, used, freed>>

\* gc_tkmap_instance; then the thread has done
Ask(t) ==
    /\ at[t] = "ask"
    /\ asked' = asked \cup {tk[t]}
    /\ vtimes' = [e \in Entries |-> (IF e = tk[t] THEN Awake ELSE vtimes[e]) \ {t}]
    /\ tk' = [tk EXCEPT ![t] = NoEntry]
    /\ Go(t, "idle")
    /\ UNCHANGED <<table, key, refc, deleted, kept, wanted, locked, waiting, used, freed>>

\* gc_tkmap_instance_impl
Free(e) ==
    /\ e \in asked \ freed /\ vtimes[e] = {}
    /\ freed' = freed \cup {e}
    /\ UNCHANGED <<table, key, refc, deleted, kept, at, tk, wanted, locked, waiting, vtimes, asked, used>>
-----------------------------------------------------------------------------
Init ==
    /\ table = [k \in Keys |-> NoEntry]
    /\ key \in [Entries -> Keys] /\ \A d, e \in Entries : key[d] = key[e]
    /\ refc = [e \in Entries |-> 0] /\ kept = [e \in Entries |-> 0]
    /\ at = [t \in Threads |-> "idle"]
    /\ tk = [t \in Threads |-> NoEntry]
    /\ wanted \in [Threads -> Keys] /\ \A t, u \in Threads : wanted[t] = wanted[u]
    /\ vtimes = [e \in Entries |-> {}]
    /\ deleted = {} /\ waiting = {} /\ asked = {} /\ used = {} /\ freed = {}
    /\ locked = None

Continue(t) ==
    \/ LookUp(t) \/ CountIn(t) \/ CountOut(t) \/ Check(t) \/ Wait(t) \/ Add(t)
    \/ \E e \in Entries : Create(t, e)
    \/ Remove(t) \/ Signal(t) \/ Ask(t)

Start(t) ==
    \/ \E k \in Keys : Find(t, k)
    \/ \E e \in Entries : Ref(t, e) \/ Unref(t, e)

Next ==
    \/ \E t \in Threads : Start(t) \/ Continue(t)
    \/ \E e \in Entries : Free(e)

Spec == Init /\ [][Next]_kmVars

LiveSpec == Spec /\ \A t \in Threads : WF_kmVars(Continue(t))
-----------------------------------------------------------------------------
(* Properties *)

\* Whoever keeps a reference to an entry for some key keeps it to the one entry of that
\* key in the table: two samples of one instance never have different instance handles,
\* however finding, creating and dropping the last reference interleave.
OneEntryPerKey == \A e \in Entries : kept[e] > 0 => e \notin deleted /\ table[key[e]] = e

\* An entry is not freed while a sample keeps it, while it can be found, or while a thread
\* that found it has yet to count itself in or out.
FreedUnused ==
    \A e \in freed :
       /\ kept[e] = 0 /\ \A k \in Keys : table[k] # e
       /\ \A t \in Threads : at[t] \in {"count", "countout"} => tk[t] # e

\* A thread that found a deleted entry gets one in the end: the removal wakes it.
FindsInTheEnd == \A t \in Threads : at[t] = "check" ~> at[t] = "lookup"
=============================================================================
