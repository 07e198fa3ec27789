------------------------------- MODULE Hopscotch -------------------------------
(***************************************************************************)
(* The concurrent hash table behind all lookups of entities and instances  *)
(* (ut_chh in ut_hopscotch.c).  An element is at most HopRange - 1 buckets *)
(* from its home; to make room, Add moves others away from theirs.  Those  *)
(* who add and remove lock the home bucket; those who look up or enumerate *)
(* lock nothing and compare a timestamp before and after.  Nothing but     *)
(* whether it has changed matters of a timestamp, which is kept per lookup *)
(* (a timestamp that wraps around within a lookup is left out).            *)
(*                                                                         *)
(* A step reads or writes one bucket.  What a thread finds in the buckets  *)
(* of a home it has locked cannot change and is read in one step.  Resize  *)
(* holds all the resize locks, thus runs while nobody adds or removes; old *)
(* arrays stay readable, as the garbage collector frees them.              *)
(*                                                                         *)
(* Definitions named X_slip... are wrong variants that no specification    *)
(* uses.                                                                   *)
(***************************************************************************)
EXTENDS Integers, Sequences, FiniteSets, TLC

CONSTANTS Keys, Hash(_),
          NoKey, Busy,          \* NULL, CHH_BUSY
          HopRange, AddRange,   \* HH_HOP_RANGE, HH_ADD_RANGE
          MaxTries,             \* CHH_MAX_TRIES
          InitSize, MaxSize,    \* of the table; MaxSize is a bound
          Mutators, Finders, Enumerators   \* threads, by what they do

VARIABLES
    arrays,    \* the arrays of buckets, the last one in rt->buckets
    th,        \* per thread: where it is and its local variables
    inside     \* history: the elements in the table

hhVars == <<arrays, th, inside>>

Threads == Mutators \cup Finders \cup Enumerators
Unlocked == "unlocked"

\* at: where the thread is; key: what it adds, removes or looks up; arr: the array it uses;
\* idx: the distance from home it is at, for an enumeration the cursor; lookup: moved: the
\* timestamp it saw has changed, lim: the number of buckets to scan, tries; add: dist: the
\* distance of the free bucket from the home of a victim, hops: the hopinfo of that home;
\* seen: history, for a lookup whether the element was inside at times, for an enumeration
\* what was inside all the time and not visited yet
Idle == [at |-> "idle", key |-> NoKey, arr |-> 1, idx |-> 0, moved |-> FALSE, lim |-> 0,
         tries |-> 0, dist |-> 0, hops |-> {}, seen |-> {}]

Size(a) == arrays[a].size
Home(a, k) == Hash(k) % Size(a)
Bucket(a, b, d) == (b + d) % Size(a)
Data(a, b) == arrays[a].data[b]
At(t, place) == th[t].at = place
Set(t, changes) == th' = [th EXCEPT ![t] = changes @@ @]
Go(t, place) == Set(t, [at |-> place])

\* the thread is done; lookups and enumerations under way see the element come or go
Note(t, k, isIn) ==
    /\ inside' = IF isIn THEN inside \cup {k} ELSE inside \ {k}
    /\ th' = [u \in Threads |->
                 IF u = t THEN IF isIn THEN Idle ELSE [th[t] EXCEPT !.at = "unhop"]
                 ELSE IF u \in Finders /\ th[u].key = k
                 THEN [th[u] EXCEPT !.seen = @ \cup {isIn}]
                 ELSE IF u \in Enumerators /\ ~isIn THEN [th[u] EXCEPT !.seen = @ \ {k}]
                 ELSE th[u]]
-----------------------------------------------------------------------------
(* ut_chhLookupInternal without a lock *)

LookUp(t, k) ==
    /\ At(t, "idle")
    /\ Set(t, [at |-> "timestamp", key |-> k, arr |-> Len(arrays), seen |-> {k \in inside}])
    /\ UNCHANGED <<arrays, inside>>

ReadTimestamp(t) ==
    /\ At(t, "timestamp")
    /\ Set(t, [at |-> "hopinfo", moved |-> FALSE])
    /\ UNCHANGED <<arrays, inside>>

Place(t) == Bucket(th[t].arr, Home(th[t].arr, th[t].key), th[t].idx)

ReadHopinfo(t) ==
    LET info == arrays[th[t].arr].hopinfo[Home(th[t].arr, th[t].key)] IN
    /\ At(t, "hopinfo")
    /\ Set(t, [at |-> "scan", idx |-> 0,
               lim |-> IF info = {} THEN 0 ELSE 1 + CHOOSE d \in info : \A e \in info : e <= d])
    /\ UNCHANGED <<arrays, inside>>

Scan(t) ==
    /\ At(t, "scan") /\ th[t].idx < th[t].lim
    /\ IF Data(th[t].arr, Place(t)) = th[t].key
       THEN Go(t, "found")
       ELSE Set(t, [idx |-> th[t].idx + 1])
    /\ UNCHANGED <<arrays, inside>>

Again_slipOnce(t) ==
    /\ At(t, "scan") /\ th[t].idx = th[t].lim
    /\ Go(t, "none")
    /\ UNCHANGED <<arrays, inside>>

\* another try if elements of this home have been moved; in the end, all buckets
Again(t) ==
    LET n == th[t].tries IN
    /\ At(t, "scan") /\ th[t].idx = th[t].lim
    /\ \/ /\ n < MaxTries /\ th[t].moved
          /\ IF n + 1 < MaxTries
             THEN Set(t, [at |-> "timestamp", tries |-> n + 1])
             ELSE Set(t, [tries |-> n + 1, idx |-> 0, lim |-> HopRange])
       \/ (n = MaxTries \/ ~th[t].moved) /\ Go(t, "none")
    /\ UNCHANGED <<arrays, inside>>

Return(t) ==
    /\ th[t].at \in {"found", "none"}
    /\ Set(t, Idle)
    /\ UNCHANGED <<arrays, inside>>
-----------------------------------------------------------------------------
(* ut_chhIterFirst, ut_chhIterNext *)

Enumerate(t) ==
    /\ At(t, "idle")
    /\ Set(t, [at |-> "visit", arr |-> Len(arrays), seen |-> inside])
    /\ UNCHANGED <<arrays, inside>>

Visit(t) ==
    /\ At(t, "visit") /\ th[t].idx < Size(th[t].arr)
    /\ Set(t, [idx |-> th[t].idx + 1, seen |-> th[t].seen \ {Data(th[t].arr, th[t].idx)}])
    /\ UNCHANGED <<arrays, inside>>

EndOfVisits(t) ==
    /\ At(t, "visit") /\ th[t].idx = Size(th[t].arr)
    /\ Set(t, Idle)
    /\ UNCHANGED <<arrays, inside>>
-----------------------------------------------------------------------------
(* ut_chhAdd; Table is the array in use, Own the home of the element *)

Cur == Len(arrays)
Table == arrays[Cur]
Own(t) == Home(Cur, th[t].key)
Present(t) == {d \in Table.hopinfo[Own(t)] : Data(Cur, Bucket(Cur, Own(t), d)) = th[t].key}
Closest(hs) == CHOOSE d \in hs : \A e \in hs : d <= e

Start(t, k, what) ==
    /\ At(t, "idle")
    /\ Set(t, [at |-> what, key |-> k])
    /\ UNCHANGED <<arrays, inside>>

\* nothing to do if the element is there
AddLock(t) ==
    /\ At(t, "add") /\ Table.lock[Own(t)] = Unlocked
    /\ IF Present(t) # {}
       THEN Set(t, Idle) /\ UNCHANGED arrays
       ELSE /\ arrays' = [arrays EXCEPT ![Cur].lock[Own(t)] = t]
            /\ Set(t, [at |-> "claim", arr |-> Cur, idx |-> 0])
    /\ UNCHANGED inside

Claim(t) ==
    /\ At(t, "claim")
    /\ \/ /\ th[t].idx < AddRange /\ Data(Cur, Place(t)) = NoKey
          /\ arrays' = [arrays EXCEPT ![Cur].data[Place(t)] = Busy]
          /\ Go(t, "place")
       \/ /\ th[t].idx < AddRange /\ Data(Cur, Place(t)) # NoKey
          /\ Set(t, [idx |-> th[t].idx + 1])
          /\ UNCHANGED arrays
       \/ /\ th[t].idx = AddRange
          /\ arrays' = [arrays EXCEPT ![Cur].lock[Own(t)] = Unlocked]
          /\ Go(t, "full")
    /\ UNCHANGED inside

Hop(t) ==
    /\ At(t, "place")
    /\ IF th[t].idx < HopRange
       THEN /\ arrays' = [arrays EXCEPT ![Cur].hopinfo[Own(t)] = @ \cup {th[t].idx}]
            /\ Go(t, "store")
       ELSE Set(t, [at |-> "victim", dist |-> HopRange - 1]) /\ UNCHANGED arrays
    /\ UNCHANGED inside

Store(t) ==
    /\ At(t, "store")
    /\ arrays' = [arrays EXCEPT ![Cur].data[Place(t)] = th[t].key,
                               ![Cur].lock[Own(t)] = Unlocked]
    /\ Note(t, th[t].key, TRUE)
-----------------------------------------------------------------------------
(* ut_chhFindCloserFreeBucket: an element with another home is moved to    *)
(* the free bucket, dist away from its home                                *)

MoveHome(t) == (Place(t) + Table.size * AddRange - th[t].dist) % Table.size
Victim(t) == Closest(th[t].hops)
From(t) == Bucket(Cur, MoveHome(t), Victim(t))

FindVictim(t) ==
    LET info == Table.hopinfo[MoveHome(t)] IN
    /\ At(t, "victim")
    /\ \/ /\ th[t].dist > 0 /\ \E d \in info : d < th[t].dist
          /\ Set(t, [at |-> "moveLock", hops |-> info])
          /\ UNCHANGED arrays
       \/ /\ th[t].dist > 0 /\ \A d \in info : d >= th[t].dist
          /\ Set(t, [dist |-> th[t].dist - 1])
          /\ UNCHANGED arrays
       \/ /\ th[t].dist = 0
          /\ arrays' = [arrays EXCEPT ![Cur].lock[Own(t)] = Unlocked]
          /\ Go(t, "full")
    /\ UNCHANGED inside

MoveLock(t) ==
    /\ At(t, "moveLock") /\ Table.lock[MoveHome(t)] = Unlocked
    /\ IF Table.hopinfo[MoveHome(t)] = th[t].hops
       THEN /\ arrays' = [arrays EXCEPT ![Cur].lock[MoveHome(t)] = t]
            /\ Go(t, "announce")
       ELSE Set(t, [at |-> "victim", dist |-> th[t].dist - 1, hops |-> {}]) /\ UNCHANGED arrays
    /\ UNCHANGED inside

\* the steps of the move, each of which a lookup may see
Announce(t) ==
    /\ At(t, "announce")
    /\ arrays' = [arrays EXCEPT ![Cur].hopinfo[MoveHome(t)] = @ \cup {th[t].dist}]
    /\ Go(t, "copy")
    /\ UNCHANGED inside
Copy(t) ==
    /\ At(t, "copy")
    /\ arrays' = [arrays EXCEPT ![Cur].data[Place(t)] = Data(Cur, From(t))]
    /\ Go(t, "stamp")
    /\ UNCHANGED inside
Stamp_slipNone(t) ==
    /\ At(t, "stamp")
    /\ Go(t, "vacate")
    /\ UNCHANGED <<arrays, inside>>
Stamp(t) ==
    /\ At(t, "stamp")
    /\ th' = [u \in Threads |->
                 IF u = t THEN [th[t] EXCEPT !.at = "vacate"]
                 ELSE IF /\ th[u].at \in {"hopinfo", "scan"} /\ th[u].arr = Cur
                         /\ Home(Cur, th[u].key) = MoveHome(t)
                 THEN [th[u] EXCEPT !.moved = TRUE]
                 ELSE th[u]]
    /\ UNCHANGED <<arrays, inside>>
Vacate(t) ==
    /\ At(t, "vacate")
    /\ arrays' = [arrays EXCEPT ![Cur].data[From(t)] = Busy]
    /\ Go(t, "withdraw")
    /\ UNCHANGED inside
Withdraw(t) ==
    /\ At(t, "withdraw")
    /\ arrays' = [arrays EXCEPT ![Cur].hopinfo[MoveHome(t)] = @ \ {Victim(t)},
                               ![Cur].lock[MoveHome(t)] = Unlocked]
    /\ Set(t, [at |-> "place", idx |-> th[t].idx - (th[t].dist - Victim(t)),
               dist |-> 0, hops |-> {}])
    /\ UNCHANGED inside
-----------------------------------------------------------------------------
(* ut_chhResize and the second try of ut_chhAdd                            *)

EmptyArray(n) ==
    [size |-> n, hopinfo |-> [b \in 0 .. n - 1 |-> {}], lock |-> [b \in 0 .. n - 1 |-> Unlocked],
     data |-> [b \in 0 .. n - 1 |-> NoKey]]

\* each element at the distance it had from its new home
Doubled(tab) ==
    LET n == 2 * tab.size
        old == {b \in 0 .. tab.size - 1 : tab.data[b] \in Keys}
        d(b) == (b + tab.size - (Hash(tab.data[b]) % tab.size)) % tab.size
        new(b) == Hash(tab.data[b]) % n
    IN [EmptyArray(n) EXCEPT
          !.hopinfo = [h \in 0 .. n - 1 |-> {d(b) : b \in {x \in old : new(x) = h}}],
          !.data = [p \in 0 .. n - 1 |->
                      IF \E b \in old : (new(b) + d(b)) % n = p
                      THEN tab.data[CHOOSE b \in old : (new(b) + d(b)) % n = p] ELSE NoKey]]

Resize(t) ==
    /\ At(t, "full")
    /\ \A u \in Mutators : th[u].at \in {"idle", "add", "remove", "full"}
    /\ \/ th[t].arr = Cur /\ 2 * Table.size <= MaxSize /\ arrays' = Append(arrays, Doubled(Table))
       \/ th[t].arr # Cur /\ UNCHANGED arrays
    /\ Set(t, [Idle EXCEPT !.at = "add", !.key = th[t].key])
    /\ UNCHANGED inside
-----------------------------------------------------------------------------
(* ut_chhRemove *)

RemoveLock(t) ==
    /\ At(t, "remove") /\ Table.lock[Own(t)] = Unlocked
    /\ IF Present(t) = {}
       THEN Set(t, Idle) /\ UNCHANGED arrays
       ELSE /\ arrays' = [arrays EXCEPT ![Cur].lock[Own(t)] = t]
            /\ Set(t, [at |-> "erase", arr |-> Cur, idx |-> Closest(Present(t))])
    /\ UNCHANGED inside

Erase(t) ==
    /\ At(t, "erase")
    /\ arrays' = [arrays EXCEPT ![Cur].data[Place(t)] = NoKey]
    /\ Note(t, th[t].key, FALSE)

Unhop(t) ==
    /\ At(t, "unhop")
    /\ arrays' = [arrays EXCEPT ![Cur].hopinfo[Own(t)] = @ \ {th[t].idx},
                               ![Cur].lock[Own(t)] = Unlocked]
    /\ Set(t, Idle)
    /\ UNCHANGED inside
-----------------------------------------------------------------------------
Init ==
    /\ arrays = <<EmptyArray(InitSize)>>
    /\ th = [t \in Threads |-> Idle]
    /\ inside = {}

AddOrRemove(t) ==
    \/ \E k \in Keys : Start(t, k, "add") \/ Start(t, k, "remove")
    \/ AddLock(t) \/ Claim(t) \/ Hop(t) \/ Store(t)
    \/ FindVictim(t) \/ MoveLock(t)
    \/ Announce(t) \/ Copy(t) \/ Stamp(t) \/ Vacate(t) \/ Withdraw(t)
    \/ Resize(t)
    \/ RemoveLock(t) \/ Erase(t) \/ Unhop(t)

Find(t) ==
    \/ \E k \in Keys : LookUp(t, k)
    \/ ReadTimestamp(t) \/ ReadHopinfo(t) \/ Scan(t) \/ Again(t) \/ Return(t)

Next ==
    \/ \E t \in Mutators : AddOrRemove(t)
    \/ \E t \in Finders : Find(t)
    \/ \E t \in Enumerators : Enumerate(t) \/ Visit(t) \/ EndOfVisits(t)

Spec == Init /\ [][Next]_hhVars
-----------------------------------------------------------------------------
(* Properties *)

\* A lookup without locks finds what was in the table all the while, and nothing that was
\* not there at any moment of it, although elements move and the table grows.
LookupsTrue ==
    \A t \in Finders :
       /\ At(t, "found") => TRUE \in th[t].seen
       /\ At(t, "none") => FALSE \in th[t].seen

\* Every element is in the table once, except while it moves, where its home says.
EachOnce ==
    \A k \in Keys :
       LET where == {b \in 0 .. Table.size - 1 : Data(Cur, b) = k}
           moving == \E t \in Mutators : th[t].at \in {"stamp", "vacate"} /\ Data(Cur, From(t)) = k
       IN /\ Cardinality(where) = IF k \notin inside THEN 0 ELSE IF moving THEN 2 ELSE 1
          /\ \A b \in where :
                (b + Table.size - Home(Cur, k)) % Table.size \in Table.hopinfo[Home(Cur, k)]

\* The comment in q_ephash.h: "'next' visits at least all entries that were in the hash table
\* at the time of calling init and that have not subsequently been removed".
VisitsAll == \A t \in Enumerators : At(t, "visit") /\ th[t].idx = Size(th[t].arr) => th[t].seen = {}

\* Nobody waits for a lock that is not given back.
NoLockForEver ==
    \A T \in SUBSET {t \in Mutators : At(t, "moveLock")} :
       T # {} => \E t \in T : Table.lock[MoveHome(t)] \notin T
=============================================================================
