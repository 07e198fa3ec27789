------------------------------ MODULE KeyMapProofs ------------------------------
(***************************************************************************)
(* All samples of one key share one instance, and no instance is freed     *)
(* while it is in use, for any number of threads, keys and entries.        *)
(*                                                                         *)
(* The inductive invariant: an entry that a thread has counted itself into *)
(* and that is not deleted is the one in the table (Found); one that is    *)
(* about to be added is nobody else's yet (Adding); one that is about to   *)
(* be removed is deleted and still blocks its place in the table, so that  *)
(* no other can take it (Removing); and the count of an entry that is not  *)
(* deleted covers the references kept to it (Counted), whatever threads    *)
(* count themselves into deleted ones meanwhile.  For the second theorem:  *)
(* one thread takes a deleted entry out and asks for it to be freed        *)
(* (Leaving), the gc thread then waits for whoever still looks at it       *)
(* (Awaited), and what was freed is out of reach (OutOfReach).             *)
(***************************************************************************)
EXTENDS KeyMap, TLAPS

Places == {"idle", "lookup", "count", "countout", "check", "wait", "create", "add",
           "remove", "signal", "ask"}

\* the places in which a thread looks at an entry
Looking == {"count", "countout", "add", "remove", "signal", "ask"}

Types ==
    /\ table \in [Keys -> Entries \cup {NoEntry}]
    /\ key \in [Entries -> Keys]
    /\ refc \in [Entries -> Int] /\ kept \in [Entries -> Nat]
    /\ at \in [Threads -> Places]
    /\ tk \in [Threads -> Entries \cup {NoEntry}]
    /\ wanted \in [Threads -> Keys]
    /\ \A t \in Threads : at[t] \in Looking => tk[t] \in Entries

\* what is in the table, or looked at, was allocated, and is in the table for its key
Allocated ==
    /\ \A k \in Keys : table[k] # NoEntry => table[k] \in used /\ key[table[k]] = k
    /\ \A t \in Threads : at[t] \in Looking => tk[t] \in used
    /\ deleted \subseteq used

Counted ==
    \A e \in Entries : IF e \in deleted THEN kept[e] = 0 ELSE kept[e] <= refc[e]

Found ==
    \A t \in Threads :
       /\ at[t] = "count" /\ tk[t] \notin deleted => table[key[tk[t]]] = tk[t]
       /\ at[t] = "countout" => tk[t] \in deleted

Adding ==
    \A t \in Threads : at[t] = "add" =>
       /\ tk[t] \notin deleted /\ kept[tk[t]] = 0 /\ refc[tk[t]] = 1 /\ key[tk[t]] = wanted[t]
       /\ \A k \in Keys : table[k] # tk[t]
       /\ \A u \in Threads \ {t} : at[u] \in Looking => tk[u] # tk[t]

Removing ==
    \A t \in Threads : at[t] = "remove" =>
       /\ tk[t] \in deleted /\ table[key[tk[t]]] = tk[t]
       /\ \A u \in Threads \ {t} : at[u] = "remove" => tk[u] # tk[t]

Inv == Types /\ Allocated /\ Counted /\ Found /\ Adding /\ Removing /\ OneEntryPerKey

Thread(t) ==
    \/ \E k \in Keys : Find(t, k)
    \/ \E e \in Entries : Ref(t, e) \/ Unref(t, e)
    \/ LookUp(t) \/ CountIn(t) \/ CountOut(t) \/ Check(t) \/ Wait(t) \/ Add(t)
    \/ \E e \in Entries : Create(t, e)
    \/ Remove(t) \/ Signal(t) \/ Ask(t)
-----------------------------------------------------------------------------
\* The empty table satisfies the invariant.
LEMMA Initially == ASSUME NoEntry \notin Entries, Init PROVE Inv
BY DEF Init, Inv, Types, Places, Looking, Allocated, Counted, Found, Adding, Removing, OneEntryPerKey

\* The steps that change neither the entries nor whom a thread looks at.
LEMMA QuietStep ==
    ASSUME Inv,
           UNCHANGED <<table, key, refc, deleted, kept, used>>,
           Types',
           \A t \in Threads : at'[t] \in Looking \ {"signal", "ask"} =>
                                 at'[t] = at[t] /\ tk'[t] = tk[t] /\ wanted'[t] = wanted[t],
           \A t \in Threads : at'[t] \in {"signal", "ask"} => tk'[t] = tk[t] /\ at[t] \in Looking \ {"add"}
    PROVE  Inv'
<1> USE DEF Inv, Looking
<1>1. Allocated' BY DEF Allocated
<1>2. Counted' BY DEF Counted
<1>3. Found' BY DEF Found
<1>4. Adding' BY DEF Adding
<1>5. Removing' BY DEF Removing
<1>6. OneEntryPerKey' BY DEF OneEntryPerKey
<1> QED BY <1>1, <1>2, <1>3, <1>4, <1>5, <1>6

\* Freeing entries by the gc thread changes nothing the invariant speaks of.
LEMMA FreeStep == ASSUME Inv, UNCHANGED <<table, key, refc, deleted, kept, at, tk, wanted, used>>
                  PROVE Inv'
BY DEF Inv, Types, Allocated, Counted, Found, Adding, Removing, OneEntryPerKey

\* Each step of a thread preserves the invariant.
LEMMA ThreadStep == ASSUME NoEntry \notin Entries, Inv, NEW t \in Threads, Thread(t) PROVE Inv'
<1> USE DEF Inv, Types, Places, Looking
<1>1. CASE \/ \E k \in Keys : Find(t, k)
           \/ Check(t) \/ Wait(t) \/ Signal(t) \/ Ask(t)
  <2>1. UNCHANGED <<table, key, refc, deleted, kept, used>>
    BY <1>1 DEF Find, Check, Wait, Signal, Ask
  <2>2. Types'
    BY <1>1, <2>1 DEF Find, Check, Wait, Signal, Ask, Go
  <2>3. \A u \in Threads : at'[u] \in Looking \ {"signal", "ask"} =>
                              at'[u] = at[u] /\ tk'[u] = tk[u] /\ wanted'[u] = wanted[u]
    BY <1>1 DEF Find, Check, Wait, Signal, Ask, Go
  <2>4. \A u \in Threads : at'[u] \in {"signal", "ask"} => tk'[u] = tk[u] /\ at[u] \in Looking \ {"add"}
    BY <1>1 DEF Find, Check, Wait, Signal, Ask, Go
  <2> QED BY <2>1, <2>2, <2>3, <2>4, QuietStep
<1>2. CASE LookUp(t)
  <2> DEFINE e == table[wanted[t]]
  <2>0. /\ UNCHANGED <<table, key, refc, deleted, kept, wanted, used>>
        /\ at[t] = "lookup" /\ tk' = [tk EXCEPT ![t] = e]
        /\ at' = [at EXCEPT ![t] = IF e = NoEntry THEN "create" ELSE "count"]
    BY <1>2 DEF LookUp, Go
  <2>1. e # NoEntry => e \in Entries /\ e \in used /\ key[e] = wanted[t]
    BY DEF Allocated
  <2>2. Types' /\ Allocated'
    BY <2>0, <2>1 DEF Allocated
  <2>3. Counted' /\ OneEntryPerKey'
    BY <2>0 DEF Counted, OneEntryPerKey
  <2>4. Found'
    BY <2>0, <2>1 DEF Found
  <2>5. Adding'
    BY <2>0, <2>1 DEF Adding
  <2>6. Removing'
    BY <2>0 DEF Removing
  <2> QED BY <2>2, <2>3, <2>4, <2>5, <2>6
<1>3. CASE CountIn(t)
  <2> DEFINE e == tk[t]
  <2>0. /\ UNCHANGED <<table, key, deleted, wanted, used>>
        /\ at[t] = "count" /\ refc' = [refc EXCEPT ![e] = @ + 1]
        /\ \/ /\ e \in deleted /\ UNCHANGED <<kept, tk>>
              /\ at' = [at EXCEPT ![t] = "countout"]
           \/ /\ e \notin deleted /\ kept' = [kept EXCEPT ![e] = @ + 1]
              /\ at' = [at EXCEPT ![t] = "idle"] /\ tk' = [tk EXCEPT ![t] = NoEntry]
    BY <1>3 DEF CountIn, Go, Finish
  <2>1. e \in Entries /\ (e \notin deleted => table[key[e]] = e)
    BY <2>0 DEF Found
  <2>2. \A u \in Threads : at[u] = "add" => tk[u] # e
    BY <2>0 DEF Adding
  <2>3. Types' /\ Allocated'
    BY <2>0, <2>1 DEF Allocated
  <2>4. Counted'
    BY <2>0, <2>1 DEF Counted
  <2>5. Found'
    BY <2>0 DEF Found
  <2>6. Adding'
    BY <2>0, <2>1, <2>2 DEF Adding
  <2>7. Removing'
    BY <2>0 DEF Removing
  <2>8. OneEntryPerKey'
    BY <2>0, <2>1 DEF OneEntryPerKey
  <2> QED BY <2>3, <2>4, <2>5, <2>6, <2>7, <2>8
<1>4. CASE CountOut(t)
  <2> DEFINE e == tk[t]
  <2>0. /\ UNCHANGED <<table, key, deleted, kept, wanted, used>>
        /\ at[t] = "countout" /\ refc' = [refc EXCEPT ![e] = @ - 1]
        /\ at' = [at EXCEPT ![t] = "check"] /\ tk' = [tk EXCEPT ![t] = NoEntry]
    BY <1>4 DEF CountOut, Go
  <2>1. e \in Entries /\ e \in deleted
    BY <2>0 DEF Found
  <2>2. Types' /\ Allocated'
    BY <2>0, <2>1 DEF Allocated
  <2>3. Counted'
    BY <2>0, <2>1 DEF Counted
  <2>4. Found' /\ Removing' /\ OneEntryPerKey'
    BY <2>0 DEF Found, Removing, OneEntryPerKey
  <2>5. Adding'
    BY <2>0, <2>1 DEF Adding
  <2> QED BY <2>2, <2>3, <2>4, <2>5
<1>5. CASE \E e \in Entries : Create(t, e)
  <2> PICK e \in Entries : Create(t, e)
    BY <1>5
  <2>0. /\ UNCHANGED <<table, deleted, kept, wanted>>
        /\ at[t] = "create" /\ e \notin used /\ used' = used \cup {e}
        /\ key' = [key EXCEPT ![e] = wanted[t]] /\ refc' = [refc EXCEPT ![e] = 1]
        /\ at' = [at EXCEPT ![t] = "add"] /\ tk' = [tk EXCEPT ![t] = e]
    BY DEF Create, Go
  <2>1. /\ \A k \in Keys : table[k] # e
        /\ \A u \in Threads : at[u] \in Looking => tk[u] # e
        /\ e \notin deleted
    BY <2>0 DEF Allocated
  <2>2. kept[e] = 0
    BY <2>1 DEF OneEntryPerKey
  <2>3. Types' /\ Allocated'
    BY <2>0, <2>1 DEF Allocated
  <2>4. Counted'
    BY <2>0, <2>2 DEF Counted
  <2>5. Found'
    BY <2>0, <2>1 DEF Found
  <2>6. Adding'
    BY <2>0, <2>1, <2>2 DEF Adding
  <2>7. Removing'
    BY <2>0, <2>1 DEF Removing
  <2>8. OneEntryPerKey'
    BY <2>0, <2>1, <2>2 DEF OneEntryPerKey
  <2> QED BY <2>3, <2>4, <2>5, <2>6, <2>7, <2>8
<1>6. CASE Add(t)
  <2> DEFINE e == tk[t]
  <2>0. /\ UNCHANGED <<key, refc, deleted, wanted, used>>
        /\ at[t] = "add" /\ tk' = [tk EXCEPT ![t] = NoEntry]
        /\ \/ /\ table[wanted[t]] = NoEntry
              /\ table' = [table EXCEPT ![wanted[t]] = e] /\ kept' = [kept EXCEPT ![e] = 1]
              /\ at' = [at EXCEPT ![t] = "idle"]
           \/ /\ UNCHANGED <<table, kept>>
              /\ at' = [at EXCEPT ![t] = "lookup"]
    BY <1>6 DEF Add, Go, Finish
  <2>1. /\ e \in Entries /\ e \in used /\ e \notin deleted /\ kept[e] = 0 /\ refc[e] = 1
        /\ key[e] = wanted[t] /\ \A u \in Threads \ {t} : at[u] \in Looking => tk[u] # e
    BY <2>0 DEF Adding, Allocated
  <2>2. Types' /\ Allocated'
    BY <2>0, <2>1 DEF Allocated
  <2>3. Counted'
    BY <2>0, <2>1 DEF Counted
  <2>4. Found'
    BY <2>0, <2>1 DEF Found
  <2>5. Adding'
    BY <2>0, <2>1 DEF Adding
  <2>6. Removing'
    BY <2>0, <2>1 DEF Removing
  <2>7. OneEntryPerKey'
    BY <2>0, <2>1 DEF OneEntryPerKey
  <2> QED BY <2>2, <2>3, <2>4, <2>5, <2>6, <2>7
<1>7. CASE \E e \in Entries : Ref(t, e)
  <2> PICK e \in Entries : Ref(t, e)
    BY <1>7
  <2>0. /\ UNCHANGED <<table, key, deleted, at, tk, wanted, used>>
        /\ kept[e] > 0 /\ refc' = [refc EXCEPT ![e] = @ + 1] /\ kept' = [kept EXCEPT ![e] = @ + 1]
    BY DEF Ref
  <2>1. Types' /\ Allocated' /\ Found' /\ Removing'
    BY <2>0 DEF Allocated, Found, Removing
  <2>2. Counted'
    BY <2>0 DEF Counted
  <2>3. Adding'
    BY <2>0 DEF Adding
  <2>4. OneEntryPerKey'
    BY <2>0 DEF OneEntryPerKey
  <2> QED BY <2>1, <2>2, <2>3, <2>4
<1>8. CASE \E e \in Entries : Unref(t, e)
  <2> PICK e \in Entries : Unref(t, e)
    BY <1>8
  <2>0. /\ UNCHANGED <<table, key, wanted, used>>
        /\ at[t] = "idle" /\ kept[e] > 0
        /\ refc' = [refc EXCEPT ![e] = @ - 1] /\ kept' = [kept EXCEPT ![e] = @ - 1]
        /\ \/ /\ refc[e] = 1 /\ deleted' = deleted \cup {e}
              /\ at' = [at EXCEPT ![t] = "remove"] /\ tk' = [tk EXCEPT ![t] = e]
           \/ UNCHANGED <<deleted, at, tk>>
    BY DEF Unref, Go
  <2>1. e \notin deleted /\ table[key[e]] = e /\ kept[e] <= refc[e] /\ e \in used
    BY <2>0 DEF OneEntryPerKey, Counted, Allocated
  <2>2. Types' /\ Allocated'
    BY <2>0, <2>1 DEF Allocated
  <2>3. Counted'
    BY <2>0, <2>1 DEF Counted
  <2>4. Found'
    BY <2>0 DEF Found
  <2>5. Adding'
    BY <2>0, <2>1 DEF Adding
  <2>6. Removing'
    BY <2>0, <2>1 DEF Removing
  <2>7. OneEntryPerKey'
    BY <2>0, <2>1 DEF OneEntryPerKey, Counted
  <2> QED BY <2>2, <2>3, <2>4, <2>5, <2>6, <2>7
<1>9. CASE Remove(t)
  <2> DEFINE e == tk[t]
  <2>0. /\ UNCHANGED <<key, refc, deleted, kept, tk, wanted, used>>
        /\ at[t] = "remove" /\ table' = [table EXCEPT ![key[e]] = NoEntry]
        /\ at' = [at EXCEPT ![t] = "signal"]
    BY <1>9 DEF Remove, Go
  <2>1. e \in Entries /\ e \in deleted /\ table[key[e]] = e
    BY <2>0 DEF Removing
  <2>2. Types' /\ Allocated'
    BY <2>0, <2>1 DEF Allocated
  <2>3. Counted'
    BY <2>0 DEF Counted
  <2>4. Found'
    BY <2>0, <2>1 DEF Found
  <2>5. Adding'
    BY <2>0, <2>1 DEF Adding
  <2>6. Removing'
    BY <2>0, <2>1 DEF Removing
  <2>7. OneEntryPerKey'
    BY <2>0, <2>1 DEF OneEntryPerKey, Counted
  <2> QED BY <2>2, <2>3, <2>4, <2>5, <2>6, <2>7
<1> QED BY <1>1, <1>2, <1>3, <1>4, <1>5, <1>6, <1>7, <1>8, <1>9 DEF Thread

-----------------------------------------------------------------------------
\* Two samples of one key never have different instances, and no instance is deleted while
\* a sample keeps it, for any number of threads that find, create, keep and drop entries.
THEOREM OneInstance == ASSUME NoEntry \notin Entries PROVE Spec => []OneEntryPerKey
<1>1. Init => Inv
  BY Initially
<1>2. Inv /\ [Next]_kmVars => Inv'
  <2> SUFFICES ASSUME Inv, [Next]_kmVars PROVE Inv'
    OBVIOUS
  <2>1. CASE \E e \in Entries : Free(e)
    BY <2>1, FreeStep DEF Free
  <2>2. CASE UNCHANGED kmVars
    BY <2>2, FreeStep DEF kmVars
  <2>3. ASSUME NEW t \in Threads, Start(t) \/ Continue(t) PROVE Inv'
    BY <2>3, ThreadStep DEF Thread, Start, Continue
  <2> QED BY <2>1, <2>2, <2>3 DEF Next
<1>3. Inv => OneEntryPerKey
  BY DEF Inv
<1> QED BY <1>1, <1>2, <1>3, PTL DEF Spec

-----------------------------------------------------------------------------
(* What is freed is used by nobody                                         *)

Removers == {"remove", "signal", "ask"}

\* a deleted entry is taken out by one thread, which then asks the gc thread to free it
Leaving ==
    /\ asked \subseteq deleted
    /\ \A e \in asked, k \in Keys : table[k] # e
    /\ \A t \in Threads : at[t] \in {"signal", "ask"} =>
          tk[t] \in deleted \ asked /\ \A k \in Keys : table[k] # tk[t]
    /\ \A t, u \in Threads :
          at[t] \in Removers /\ at[u] \in Removers /\ tk[t] = tk[u] => t = u

\* the gc thread waits for every thread that still looks at what it is to free
Awaited ==
    \A e \in asked \ freed, t \in Threads : at[t] \in Looking /\ tk[t] = e => t \in vtimes[e]

\* what was freed is out of reach for good
OutOfReach ==
    \A e \in freed :
       /\ e \in used /\ kept[e] = 0
       /\ \A k \in Keys : table[k] # e
       /\ \A t \in Threads : at[t] \in Looking => tk[t] # e

Safe ==
    /\ Leaving /\ Awaited /\ OutOfReach
    /\ asked \subseteq Entries /\ freed \subseteq Entries /\ vtimes \in [Entries -> SUBSET Threads]

\* Every step of a thread preserves it.
LEMMA ThreadSafe ==
    ASSUME NoEntry \notin Entries, Inv, Safe, NEW t \in Threads, Thread(t) PROVE Safe'
<1> USE DEF Inv, Types, Places, Looking, Removers, Safe
<1>1. CASE \/ \E k \in Keys : Find(t, k)
           \/ Check(t) \/ Wait(t) \/ Signal(t)
  <2>1. UNCHANGED <<table, key, refc, deleted, kept, tk, used, vtimes, asked, freed>>
    BY <1>1 DEF Find, Check, Wait, Signal
  <2>2. \A u \in Threads : \/ at'[u] = at[u]
                           \/ at'[u] \notin Looking
                           \/ at'[u] = "ask" /\ at[u] = "signal"
    BY <1>1 DEF Find, Check, Wait, Signal, Go
  <2>3. Leaving'
    BY <2>1, <2>2 DEF Leaving
  <2>4. Awaited' /\ OutOfReach'
    BY <2>1, <2>2 DEF Awaited, OutOfReach
  <2> QED BY <2>1, <2>3, <2>4
<1>2. CASE LookUp(t)
  <2> DEFINE e == table[wanted[t]]
  <2>0. /\ UNCHANGED <<table, key, deleted, kept, used, vtimes, asked, freed>>
        /\ at[t] = "lookup" /\ tk' = [tk EXCEPT ![t] = e]
        /\ at' = [at EXCEPT ![t] = IF e = NoEntry THEN "create" ELSE "count"]
    BY <1>2 DEF LookUp, Go
  <2>1. e \notin asked /\ e \notin freed
    BY DEF Leaving, OutOfReach
  <2>2. Leaving'
    BY <2>0 DEF Leaving
  <2>3. Awaited'
    BY <2>0, <2>1 DEF Awaited
  <2>4. OutOfReach'
    BY <2>0, <2>1 DEF OutOfReach
  <2> QED BY <2>0, <2>2, <2>3, <2>4
<1>3. CASE CountIn(t) \/ CountOut(t)
  <2> DEFINE e == tk[t]
  <2>0. /\ UNCHANGED <<table, key, deleted, used, asked, freed>>
        /\ at[t] \in {"count", "countout"}
        /\ \/ /\ at' = [at EXCEPT ![t] = "countout"] /\ UNCHANGED <<kept, tk, vtimes>>
           \/ /\ kept' = [kept EXCEPT ![e] = @ + 1]
              /\ at' = [at EXCEPT ![t] = "idle"] /\ tk' = [tk EXCEPT ![t] = NoEntry]
              /\ vtimes' = [d \in Entries |-> vtimes[d] \ {t}]
           \/ /\ at' = [at EXCEPT ![t] = "check"] /\ tk' = [tk EXCEPT ![t] = NoEntry]
              /\ UNCHANGED <<kept, vtimes>>
    BY <1>3 DEF CountIn, CountOut, Go, Finish
  <2>1. e \in Entries /\ e \notin freed
    BY <2>0 DEF OutOfReach
  <2>2. Leaving'
    BY <2>0 DEF Leaving
  <2>3. Awaited'
    BY <2>0 DEF Awaited
  <2>4. OutOfReach'
    BY <2>0, <2>1 DEF OutOfReach
  <2>5. vtimes' \in [Entries -> SUBSET Threads]
    BY <2>0
  <2> QED BY <2>0, <2>2, <2>3, <2>4, <2>5
<1>4. CASE \E e \in Entries : Create(t, e)
  <2> PICK e \in Entries : Create(t, e)
    BY <1>4
  <2>0. /\ UNCHANGED <<table, deleted, kept, vtimes, asked, freed>>
        /\ at[t] = "create" /\ e \notin used /\ used' = used \cup {e}
        /\ at' = [at EXCEPT ![t] = "add"] /\ tk' = [tk EXCEPT ![t] = e]
    BY DEF Create, Go
  <2>1. e \notin asked /\ e \notin freed
    BY <2>0 DEF Allocated, Leaving, OutOfReach
  <2>2. Leaving'
    BY <2>0 DEF Leaving
  <2>3. Awaited'
    BY <2>0, <2>1 DEF Awaited
  <2>4. OutOfReach'
    BY <2>0, <2>1 DEF OutOfReach
  <2> QED BY <2>0, <2>2, <2>3, <2>4
<1>5. CASE Add(t)
  <2> DEFINE e == tk[t]
  <2>0. /\ UNCHANGED <<deleted, used, asked>>
        /\ at[t] = "add" /\ tk' = [tk EXCEPT ![t] = NoEntry]
        /\ \/ /\ table' = [table EXCEPT ![wanted[t]] = e] /\ kept' = [kept EXCEPT ![e] = 1]
              /\ at' = [at EXCEPT ![t] = "idle"] /\ UNCHANGED freed
              /\ vtimes' = [d \in Entries |-> vtimes[d] \ {t}]
           \/ /\ UNCHANGED <<table, kept, vtimes>> /\ freed' = freed \cup {e}
              /\ at' = [at EXCEPT ![t] = "lookup"]
    BY <1>5 DEF Add, Go, Finish
  <2>1. /\ e \in Entries /\ e \in used /\ e \notin deleted /\ e \notin asked /\ e \notin freed
        /\ kept[e] = 0 /\ \A k \in Keys : table[k] # e
        /\ \A u \in Threads \ {t} : at[u] \in Looking => tk[u] # e
    BY <2>0 DEF Adding, Allocated, Leaving, OutOfReach
  <2>2. Leaving'
    BY <2>0, <2>1 DEF Leaving
  <2>3. Awaited'
    BY <2>0, <2>1 DEF Awaited
  <2>4. OutOfReach'
    BY <2>0, <2>1 DEF OutOfReach
  <2>5. freed' \subseteq Entries /\ vtimes' \in [Entries -> SUBSET Threads]
    BY <2>0, <2>1
  <2> QED BY <2>0, <2>2, <2>3, <2>4, <2>5
<1>6. CASE \E e \in Entries : Ref(t, e)
  <2> PICK e \in Entries : Ref(t, e)
    BY <1>6
  <2>0. /\ UNCHANGED <<table, deleted, at, tk, used, vtimes, asked, freed>>
        /\ kept[e] > 0 /\ kept' = [kept EXCEPT ![e] = @ + 1]
    BY DEF Ref
  <2>1. Leaving' /\ Awaited'
    BY <2>0 DEF Leaving, Awaited
  <2>2. OutOfReach'
    BY <2>0 DEF OutOfReach
  <2> QED BY <2>0, <2>1, <2>2
<1>7. CASE \E e \in Entries : Unref(t, e)
  <2> PICK e \in Entries : Unref(t, e)
    BY <1>7
  <2>0. /\ UNCHANGED <<table, used, vtimes, asked, freed>>
        /\ at[t] = "idle" /\ kept[e] > 0 /\ kept' = [kept EXCEPT ![e] = @ - 1]
        /\ \/ /\ deleted' = deleted \cup {e}
              /\ at' = [at EXCEPT ![t] = "remove"] /\ tk' = [tk EXCEPT ![t] = e]
           \/ UNCHANGED <<deleted, at, tk>>
    BY DEF Unref, Go
  <2>1. e \notin deleted /\ e \notin asked /\ e \notin freed
    BY <2>0 DEF OneEntryPerKey, Leaving, OutOfReach
  <2>2. \A u \in Threads : at[u] \in Removers => tk[u] # e
    BY <2>1 DEF Removing, Leaving
  <2>3. Leaving'
    BY <2>0, <2>1, <2>2 DEF Leaving
  <2>4. Awaited'
    BY <2>0, <2>1 DEF Awaited
  <2>5. OutOfReach'
    BY <2>0, <2>1 DEF OutOfReach
  <2> QED BY <2>0, <2>3, <2>4, <2>5
<1>8. CASE Remove(t)
  <2> DEFINE e == tk[t]
  <2>0. /\ UNCHANGED <<deleted, kept, tk, used, vtimes, asked, freed>>
        /\ at[t] = "remove" /\ table' = [table EXCEPT ![key[e]] = NoEntry]
        /\ at' = [at EXCEPT ![t] = "signal"]
    BY <1>8 DEF Remove, Go
  <2>1. e \in Entries /\ e \in deleted /\ table[key[e]] = e /\ key[e] \in Keys
    BY <2>0 DEF Removing
  <2>2. e \notin asked
    BY <2>1 DEF Leaving
  <2>3. \A k \in Keys : table'[k] # e
    BY <2>0, <2>1 DEF Allocated
  <2>4. \A d \in Entries, k \in Keys : table[k] # d => table'[k] # d
    BY <2>0, <2>1
  <2>5. Leaving'
    BY <2>0, <2>1, <2>2, <2>3, <2>4 DEF Leaving
  <2>6. Awaited'
    BY <2>0 DEF Awaited
  <2>7. OutOfReach'
    BY <2>0, <2>4 DEF OutOfReach
  <2> QED BY <2>0, <2>5, <2>6, <2>7
<1>9. CASE Ask(t)
  <2> DEFINE e == tk[t]
  <2>0. /\ UNCHANGED <<table, deleted, kept, used, freed>>
        /\ at[t] = "ask" /\ asked' = asked \cup {e}
        /\ vtimes' = [d \in Entries |-> (IF d = e THEN Awake ELSE vtimes[d]) \ {t}]
        /\ at' = [at EXCEPT ![t] = "idle"] /\ tk' = [tk EXCEPT ![t] = NoEntry]
    BY <1>9 DEF Ask, Go
  <2>1. e \in Entries /\ e \in deleted /\ \A k \in Keys : table[k] # e
    BY <2>0 DEF Leaving
  <2>2. Leaving'
    BY <2>0, <2>1 DEF Leaving
  <2>3. \A u \in Threads \ {t} : at'[u] \in Looking => u \in Awake /\ at'[u] = at[u] /\ tk'[u] = tk[u]
    BY <2>0 DEF Awake
  <2>4. Awaited'
    BY <2>0, <2>1, <2>3 DEF Awaited
  <2>5. OutOfReach'
    BY <2>0 DEF OutOfReach
  <2>6. vtimes' \in [Entries -> SUBSET Threads] /\ asked' \subseteq Entries
    BY <2>0, <2>1 DEF Awake
  <2> QED BY <2>0, <2>2, <2>4, <2>5, <2>6
<1> QED BY <1>1, <1>2, <1>3, <1>4, <1>5, <1>6, <1>7, <1>8, <1>9 DEF Thread

\* The gc thread frees what nobody looks at any more.
LEMMA FreeSafe == ASSUME Inv, Safe, NEW e \in Entries, Free(e) PROVE Safe'
<1>1. /\ UNCHANGED <<table, key, deleted, kept, at, tk, vtimes, asked, used>>
      /\ e \in asked \ freed /\ vtimes[e] = {} /\ freed' = freed \cup {e}
  BY DEF Free
<1>2. /\ e \in used /\ kept[e] = 0 /\ \A k \in Keys : table[k] # e
      /\ \A t \in Threads : at[t] \in Looking => tk[t] # e
  BY <1>1 DEF Inv, Types, Allocated, Counted, Safe, Leaving, Awaited
<1>3. Leaving' /\ Awaited'
  BY <1>1 DEF Safe, Leaving, Awaited
<1>4. OutOfReach'
  BY <1>1, <1>2 DEF Safe, OutOfReach
<1> QED BY <1>1, <1>3, <1>4 DEF Safe

\* An instance is not freed while a sample keeps it, while it can be found or while a thread
\* that found it has yet to count itself in or out, for any number of threads that find,
\* create, keep and drop entries.
THEOREM FreedWhenUnused == ASSUME NoEntry \notin Entries PROVE Spec => []FreedUnused
<1>1. Init => Inv /\ Safe
  <2> SUFFICES ASSUME Init PROVE Inv /\ Safe
    OBVIOUS
  <2>1. Inv
    BY Initially
  <2>2. Safe
    BY DEF Init, Safe, Leaving, Awaited, OutOfReach, Removers, Looking
  <2> QED BY <2>1, <2>2
<1>2. Inv /\ Safe /\ [Next]_kmVars => Inv' /\ Safe'
  <2> SUFFICES ASSUME Inv, Safe, [Next]_kmVars PROVE Inv' /\ Safe'
    OBVIOUS
  <2>1. ASSUME NEW e \in Entries, Free(e) PROVE Inv' /\ Safe'
    BY <2>1, FreeStep, FreeSafe DEF Free
  <2>2. CASE UNCHANGED kmVars
    BY <2>2, FreeStep DEF kmVars, Safe, Leaving, Awaited, OutOfReach
  <2>3. ASSUME NEW t \in Threads, Start(t) \/ Continue(t) PROVE Inv' /\ Safe'
    BY <2>3, ThreadStep, ThreadSafe DEF Thread, Start, Continue
  <2> QED BY <2>1, <2>2, <2>3 DEF Next
<1>3. Inv /\ Safe => FreedUnused
  BY DEF Safe, OutOfReach, FreedUnused, Looking
<1> QED BY <1>1, <1>2, <1>3, PTL DEF Spec
=============================================================================
