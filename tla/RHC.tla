-------------------------------- MODULE RHC ---------------------------------
(***************************************************************************)
(* The reader history cache (dds_rhc.c): what was received for a reader,   *)
(* per instance, until the application takes it.  Every operation runs     *)
(* under rhc->lock and is one action here.  The cache keeps nine counts    *)
(* and the trigger counts of the read conditions incrementally, and the    *)
(* list of the instances that have something to read.                      *)
(*                                                                         *)
(* A sample is its number in order of arrival.  Left out: generation       *)
(* counts and ranks (handed to the application only), content filters and  *)
(* query conditions, has_changed (it only decides on a callback), and the  *)
(* comparison of GUIDs that breaks a tie, which may go either way.         *)
(*                                                                         *)
(* Definitions named X_slip... are wrong variants that no specification    *)
(* uses.                                                                   *)
(***************************************************************************)
EXTENDS Registrations, Sequences, SequencesExt

CONSTANTS Instances,
          Depth,                                      \* history_depth
          MaxSamples, MaxPerInstance, MaxInstances,   \* resource limits
          BySource, Exclusive,                        \* orders, ownership
          Times, Strength,                            \* source times, strength per writer
          AutoDispose,                                \* the writers with auto_dispose
          Conditions,                                 \* read conditions that may be attached
          Masks,                                      \* what may be asked of read and take
          MaxStores                                   \* bound: samples with data

VARIABLES
    cache,     \* the contents of struct rhc, see Empty
    stores,    \* number of samples with data so far
    gone       \* writers that are gone for good

rhcVars == <<cache, stores, gone>>

Absent == [known |-> FALSE, wr |-> NoWriter, count |-> 0, samples |-> <<>>, isnew |-> TRUE,
           disposed |-> FALSE, inv |-> "none", tstamp |-> 0, strength |-> 0]

NoCounts == [instances |-> 0, nonempty |-> 0, disposed |-> 0, no_writers |-> 0, new |-> 0,
             vsamples |-> 0, vread |-> 0, invsamples |-> 0, invread |-> 0]

\* order is the circular list of non-empty instances from its tail to its head
Empty == [inst |-> [i \in Instances |-> Absent], regs |-> [i \in Instances |-> {}],
          order |-> <<>>, n |-> NoCounts,
          conds |-> {}, trigger |-> [c \in Conditions |-> 0]]

One(b) == IF b THEN 1 ELSE 0

ViewState(x) == IF x.isnew THEN "new" ELSE "old"
InstanceState(x) ==
    IF x.disposed THEN "disposed" ELSE IF x.count > 0 THEN "alive" ELSE "no_writers"
SampleState(m) == IF m.read THEN "read" ELSE "unread"
IsEmpty(x) == x.samples = <<>> /\ x.inv = "none"
SampleStates(x) == {SampleState(x.samples[k]) : k \in DOMAIN x.samples} \cup ({x.inv} \ {"none"})

\* Does instance x match the view and instance states of condition or mask m?
StatesMatch(m, x) == ViewState(x) \in m.view /\ InstanceState(x) \in m.state

\* Does x make condition m trigger?
Matches(m, x) == x.known /\ StatesMatch(m, x) /\ SampleStates(x) \cap m.sample # {}

\* An instance that was x has become y.
UpdateConditions(s, x, y) ==
    [s EXCEPT !.trigger = [c \in Conditions |->
        IF c \in s.conds THEN @[c] + One(Matches(c, y)) - One(Matches(c, x)) ELSE 0]]

ClearInv(s, i) ==
    LET x == s.inst[i] IN
    [s EXCEPT !.inst[i].inv = "none",
              !.n.invsamples = @ - One(x.inv # "none"), !.n.invread = @ - One(x.inv = "read")]

SetInv(s, i) ==
    LET c == ClearInv(s, i) IN [c EXCEPT !.inst[i].inv = "unread", !.n.invsamples = @ + 1]

\* account_for_empty_to_nonempty_transition
BecomeNonempty(s, i) ==
    LET x == s.inst[i] IN
    [s EXCEPT !.order = Append(@, i),
              !.n = [@ EXCEPT !.nonempty = @ + 1, !.new = @ + One(x.isnew),
                              !.disposed = @ + One(x.disposed),
                              !.no_writers = @ + One(~x.disposed /\ x.count = 0)]]

\* drop_instance_noupdate_no_writers
Drop(s, i) == [s EXCEPT !.inst[i] = Absent, !.n.instances = @ - 1]

\* May another sample be stored in instance i?
Fits(s, i) ==
    LET k == Len(s.inst[i].samples) IN
    k = Depth \/ (s.n.vsamples < MaxSamples /\ k < MaxPerInstance)

AddSample_slipReadCount(s, i, id) ==
    LET full == Len(s.inst[i].samples) = Depth IN
    [ClearInv(s, i) EXCEPT
       !.inst[i].samples = Append(IF full THEN Tail(@) ELSE @, [id |-> id, read |-> FALSE]),
       !.n.vsamples = @ + One(~full)]

\* KEEP_LAST overwrites the oldest sample
AddSample(s, i, id) ==
    LET q == s.inst[i].samples
        full == Len(q) = Depth
    IN [ClearInv(s, i) EXCEPT
          !.inst[i].samples = Append(IF full THEN Tail(@) ELSE @, [id |-> id, read |-> FALSE]),
          !.n.vsamples = @ + One(~full),
          !.n.vread = @ - One(full /\ Head(q).read)]

UpdateInst(s, i, w, t) ==
    [s EXCEPT !.inst[i].wr = IF s.inst[i].count = 0 THEN NoWriter ELSE w,
              !.inst[i].tstamp = t, !.inst[i].strength = Strength[w]]

Writing(s, i) == [wr |-> s.inst[i].wr, count |-> s.inst[i].count, regs |-> s.regs[i]]

WithWriting(s, i, r) ==
    [s EXCEPT !.inst[i].wr = r.wr, !.inst[i].count = r.count, !.regs[i] = r.regs]

\* dds_rhc_register
Register(s, i, w, update) ==
    LET x == s.inst[i]
        fresh == x.wr # w /\ x.count = 0 /\ ~IsEmpty(x) /\ ~x.disposed
    IN [WithWriting(s, i, Registered(Writing(s, i), w, update)) EXCEPT
          !.n.no_writers = @ - One(fresh)]

\* dds_rhc_unregister: the last writer leaves a notice, or the instance goes
Unregister(s, i, w, t) ==
    LET r == Writing(s, i)
        c == [WithWriting(s, i, Unregistered1(r, w)) EXCEPT
                !.inst[i].strength = IF s.inst[i].wr = w THEN 0 ELSE @]
        x == c.inst[i]
        notice == UpdateInst(SetInv(c, i), i, w, t)
    IN IF ~IsRegistered(r, w) THEN s
       ELSE IF x.count > 0 THEN c
       ELSE IF ~IsEmpty(x)
            THEN [(IF x.samples = <<>> THEN notice ELSE c) EXCEPT
                    !.n.no_writers = @ + One(~x.disposed)]
       ELSE IF x.disposed THEN Drop(c, i)
       ELSE BecomeNonempty(notice, i)

\* Does instance i take a sample of w with source time t?  tie: the smaller GUID
Accepts(s, i, w, t, tie) ==
    LET x == s.inst[i]
        preferred == x.wr = w \/ tie
    IN /\ BySource => t > x.tstamp \/ (t = x.tstamp /\ preferred)
       /\ Exclusive /\ x.wr # w =>
             Strength[w] > x.strength \/ (Strength[w] = x.strength /\ preferred)
-----------------------------------------------------------------------------
(* dds_rhc_store.  op says whether the message carries data, disposes and  *)
(* unregisters; id is the number of the sample.                            *)

\* an instance the reader does not know; nothing happens if there is no room
StoreNew(s, i, w, op, t, id) ==
    LET a == [s EXCEPT !.inst[i] = [Absent EXCEPT !.known = TRUE, !.disposed = op.dispose,
                                                  !.count = One(~op.unregister)]]
        b == UpdateInst(a, i, w, t)
        c == IF op.data THEN AddSample(b, i, id) ELSE SetInv(b, i)
        d == [BecomeNonempty(c, i) EXCEPT !.n.instances = @ + 1]
    IN IF s.n.instances >= MaxInstances \/ (op.data /\ ~Fits(b, i)) THEN s
       ELSE UpdateConditions(d, Absent, d.inst[i])

\* A refused sample still registers its writer.
StoreRefused(s, i, w, op, t) ==
    LET a == IF op.data \/ op.dispose THEN Register(s, i, w, FALSE) ELSE s
    IN IF op.unregister THEN Unregister(a, i, w, t) ELSE a

Revived_slipStaysOld(s, i, w, op) ==
    [Register(s, i, w, TRUE) EXCEPT
       !.inst[i].isnew = @ \/ (op.data /\ s.inst[i].count = 0),
       !.inst[i].disposed = op.dispose \/ (@ /\ ~op.data)]

\* the state of the instance after registering w, before a sample is added
Revived(s, i, w, op) ==
    LET x == s.inst[i]
        notAlive == x.count = 0 \/ x.disposed
    IN [Register(s, i, w, TRUE) EXCEPT
          !.inst[i].isnew = @ \/ (op.data /\ notAlive),
          !.inst[i].disposed = op.dispose \/ (@ /\ ~op.data)]

\* write, dispose, or both
StoreUpdate(s, i, w, op, t, id) ==
    LET x == s.inst[i]
        became == op.dispose /\ ~x.disposed
        a == Revived(s, i, w, op)
        b == IF op.data THEN AddSample(a, i, id) ELSE a
        c == IF became /\ b.inst[i].samples = <<>> THEN SetInv(b, i) ELSE b
        d == UpdateInst(c, i, w, t)
        y == d.inst[i]
    IN IF y.samples = <<>> /\ ~became THEN d
       ELSE IF IsEmpty(x) THEN BecomeNonempty(d, i)
       ELSE [d EXCEPT !.n.disposed = @ + One(y.disposed) - One(x.disposed),
                      !.n.new = @ + One(y.isnew) - One(x.isnew)]

StoreKnown(s, i, w, op, t, id) ==
    LET a == IF op.data \/ op.dispose THEN StoreUpdate(s, i, w, op, t, id) ELSE s
        b == IF op.unregister THEN Unregister(a, i, w, t) ELSE a
    IN \* no room: what was done by then stays, and the rest is skipped
       IF op.data /\ ~Fits(s, i) THEN Revived(s, i, w, op)
       ELSE UpdateConditions(b, s.inst[i], b.inst[i])

Ops == {op \in [data : BOOLEAN, dispose : BOOLEAN, unregister : BOOLEAN] :
           op.data \/ op.dispose \/ op.unregister}

Store(i, w) ==
    /\ w \notin gone
    /\ \E op \in Ops, t \in Times, tie \in {FALSE, BySource \/ Exclusive} :
         /\ op.data => stores < MaxStores
         /\ stores' = stores + One(op.data)
         /\ cache' = IF ~cache.inst[i].known
                     THEN IF op.data \/ op.dispose
                          THEN StoreNew(cache, i, w, op, t, stores + 1) ELSE cache
                     ELSE IF Accepts(cache, i, w, t, tie)
                          THEN StoreKnown(cache, i, w, op, t, stores + 1)
                          ELSE StoreRefused(cache, i, w, op, t)
    /\ UNCHANGED gone

\* one instance of the loop of dds_rhc_unregister_wr
DepartFrom(s, i, w) ==
    LET x == s.inst[i]
        dispose == w \in AutoDispose /\ ~x.disposed
        a == [s EXCEPT !.inst[i].disposed = TRUE]
        b == UpdateInst(SetInv(a, i), i, w, x.tstamp)
        c == IF x.samples = <<>> /\ IsEmpty(x) THEN BecomeNonempty(b, i)
             ELSE [(IF x.samples = <<>> THEN b ELSE a) EXCEPT !.n.disposed = @ + 1]
        d == Unregister(IF dispose THEN c ELSE s, i, w, x.tstamp)
    IN IF ~x.known \/ (x.wr # w /\ w \notin s.regs[i]) THEN s
       ELSE UpdateConditions(d, x, d.inst[i])

\* in the order of a hash table, which is any
UnregisterWr(w) ==
    /\ w \notin gone
    /\ gone' = gone \cup {w}
    /\ \E q \in SetToSeqs(Instances) :
          cache' = FoldLeft(LAMBDA s, i : DepartFrom(s, i, w), cache, q)
    /\ UNCHANGED stores
-----------------------------------------------------------------------------
(* read and take.  m is the mask, h the instance asked for or "any", k how *)
(* many samples at most.                                                   *)

\* the first k samples of x that match
Picked(m, x, k) ==
    LET hits == {p \in DOMAIN x.samples : SampleState(x.samples[p]) \in m.sample}
    IN {p \in hits : Cardinality({q \in hits : q < p}) < k}

\* and its invalid sample, if there is room for it
PicksInv(m, x, k) == x.inv \in m.sample /\ Cardinality(Picked(m, x, k)) < k

\* a is the cache and how many samples are still wanted
ReadInstance(a, i, m, h) ==
    LET s == a.s
        x == s.inst[i]
        P == Picked(m, x, a.left)
        inv == PicksInv(m, x, a.left)
        unread == {p \in P : ~x.samples[p].read}
        got == Cardinality(P) + One(inv)
        y == [x EXCEPT !.samples = [p \in DOMAIN @ |-> [@[p] EXCEPT !.read = @ \/ p \in P]],
                       !.inv = IF inv THEN "read" ELSE @,
                       !.isnew = @ /\ got = 0]
        c == [s EXCEPT !.inst[i] = y,
                       !.n.vread = @ + Cardinality(unread),
                       !.n.invread = @ + One(inv /\ x.inv = "unread"),
                       !.n.new = @ - One(x.isnew /\ got > 0)]
    IN IF a.left = 0 \/ h \notin {"any", i} \/ ~StatesMatch(m, x) THEN a
       ELSE [s |-> IF y.samples # x.samples \/ y.inv # x.inv THEN UpdateConditions(c, x, y) ELSE c,
             left |-> a.left - got]

TakeInstance(a, i, m, h) ==
    LET s == a.s
        x == s.inst[i]
        P == Picked(m, x, a.left)
        inv == PicksInv(m, x, a.left)
        got == Cardinality(P) + One(inv)
        rest == [p \in DOMAIN x.samples |-> IF p \in P THEN <<>> ELSE <<x.samples[p]>>]
        y == [x EXCEPT !.samples = FlattenSeq(rest),
                       !.inv = IF inv THEN "none" ELSE @,
                       !.isnew = @ /\ got = 0]
        c == [s EXCEPT !.inst[i] = y,
                       !.n.vsamples = @ - Cardinality(P),
                       !.n.vread = @ - Cardinality({p \in P : x.samples[p].read}),
                       !.n.invsamples = @ - One(inv),
                       !.n.invread = @ - One(inv /\ x.inv = "read"),
                       !.n.new = @ - One(x.isnew /\ got > 0)]
        d == IF got > 0 THEN UpdateConditions(c, x, y) ELSE c
        e == [d EXCEPT !.order = SelectSeq(@, LAMBDA j : j # i),
                       !.n.nonempty = @ - 1,
                       !.n.disposed = @ - One(y.disposed),
                       !.n.no_writers = @ - One(y.count = 0 /\ ~y.disposed)]
    IN IF a.left = 0 \/ h \notin {"any", i} \/ ~StatesMatch(m, x) THEN a
       ELSE [s |-> IF ~IsEmpty(y) THEN d ELSE IF y.count = 0 THEN Drop(e, i) ELSE e,
             left |-> a.left - got]

Read(m, h, k) ==
    /\ cache' = FoldLeft(LAMBDA a, i : ReadInstance(a, i, m, h),
                         [s |-> cache, left |-> k], cache.order).s
    /\ UNCHANGED <<stores, gone>>

Take(m, h, k) ==
    /\ cache' = FoldLeft(LAMBDA a, i : TakeInstance(a, i, m, h),
                         [s |-> cache, left |-> k], cache.order).s
    /\ UNCHANGED <<stores, gone>>

\* as take, but the caller of takecdr must ask for samples in any state: when it
\* takes the newest and leaves an older one, inst->latest is left pointing to it
TakeCdr(m, h, k) == m.sample = {"read", "unread"} /\ Take(m, h, k)

AddReadCondition(c) ==
    /\ c \notin cache.conds
    /\ cache' = [cache EXCEPT !.conds = @ \cup {c},
                   !.trigger[c] = Cardinality({i \in Instances : Matches(c, cache.inst[i])})]
    /\ UNCHANGED <<stores, gone>>

RemoveReadCondition(c) ==
    /\ c \in cache.conds
    /\ cache' = [cache EXCEPT !.conds = @ \ {c}, !.trigger[c] = 0]
    /\ UNCHANGED <<stores, gone>>
-----------------------------------------------------------------------------
Init == cache = Empty /\ stores = 0 /\ gone = {}

Wanted == {1, MaxStores + Cardinality(Instances)}

Next ==
    \/ \E i \in Instances, w \in Writers : Store(i, w)
    \/ \E w \in Writers : UnregisterWr(w)
    \/ \E m \in Masks, h \in Instances \cup {"any"}, k \in Wanted :
          Read(m, h, k) \/ Take(m, h, k) \/ TakeCdr(m, h, k)
    \/ \E c \in Conditions : AddReadCondition(c) \/ RemoveReadCondition(c)

Spec == Init /\ [][Next]_rhcVars
-----------------------------------------------------------------------------
(* Properties *)

Total(s, P(_)) == Cardinality({i \in Instances : s.inst[i].known /\ P(s.inst[i])})

SumOf(s, F(_)) == FoldLeft(LAMBDA a, i : a + F(s.inst[i]), 0, SetToSeq(Instances))

CountsOf(s) ==
    LET ReadSamples(x) == Cardinality({p \in DOMAIN x.samples : x.samples[p].read})
        Samples(x) == Len(x.samples)
        Known(x) == TRUE
        Nonempty(x) == ~IsEmpty(x)
        NotAliveDisposed(x) == Nonempty(x) /\ x.disposed
        NotAliveNoWriters(x) == Nonempty(x) /\ InstanceState(x) = "no_writers"
        New(x) == Nonempty(x) /\ x.isnew
        Inv(x) == x.inv # "none"
        InvRead(x) == x.inv = "read"
    IN [instances |-> Total(s, Known), nonempty |-> Total(s, Nonempty),
        disposed |-> Total(s, NotAliveDisposed), no_writers |-> Total(s, NotAliveNoWriters),
        new |-> Total(s, New), vsamples |-> SumOf(s, Samples), vread |-> SumOf(s, ReadSamples),
        invsamples |-> Total(s, Inv), invread |-> Total(s, InvRead)]

\* rhc_check_counts_locked (rhc, false), which the code asserts: the nine counts, kept
\* one increment at a time, are those of the instances, and the list of non-empty
\* instances holds each of them once.
CountsExact ==
    /\ cache.n = CountsOf(cache)
    /\ IsInjective(cache.order)
    /\ Range(cache.order) = {i \in Instances : ~IsEmpty(cache.inst[i])}

\* The rest of rhc_check_counts_locked (rhc, true): each read condition's trigger count
\* is the number of instances that match it, whatever was stored, read, taken or
\* unregistered since it was attached.
TriggersExact ==
    \A c \in cache.conds :
       cache.trigger[c] = Cardinality({i \in Instances : Matches(c, cache.inst[i])})

\* What ReaderCache knows of instance i.
Viewed(i) ==
    LET x == cache.inst[i] IN
    [live |-> LiveWriters(Writing(cache, i)) \ gone,
     disposed |-> x.disposed, isnew |-> x.isnew, hist |-> x.samples, change |-> x.inv]

RC == INSTANCE ReaderCache WITH
    view <- [i \in Instances |-> Viewed(i)], nextId <- stores + 1

\* The cache is a ReaderCache: whatever the writers' registrations look like inside,
\* an instance is alive exactly while a writer that wrote or disposed it has not
\* unregistered it, shows the last Depth samples that were not taken, and is forgotten
\* when it has neither.
ImplementsReaderCache == RC!RCSpec

\* "unregister *must* be processed": when all writers are gone no instance has one.
NoPhantomWriters == gone = Writers => \A i \in Instances : cache.inst[i].count = 0
=============================================================================
