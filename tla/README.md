# Verification of the Cyclone DDS core

TLA+ models of the core of atolab/cdds (the start of Eclipse Cyclone DDS), checked with TLC on small
instances and, for the parts that matter most, proved with TLAPS for all. File names below without a
directory are those of `src/src/core/ddsi/src`, of `src/src/core/ddsc/src` when they begin with
`dds_`, and of `src/src/util/src` when they begin with `ut_`.

Contents: [inventory](#1-the-system) - [modules](#2-modules-and-the-code) -
[runs](#3-runs-bounds-and-what-they-show) - [fairness](#4-fairness) - [proofs](#5-proofs) -
[sensitivity](#6-sensitivity) - [deviations](#7-known-deviations) -
[limits](#8-what-is-not-modelled) - [plan](#9-plan)

## 1. The system

An application writes and reads samples of typed topics; nodes find each other, match writers with
readers and exchange samples with the RTPS protocol over UDP multicast. The threads are: those of
the application (they write, and transmit), one or more receive threads (`recv`), a thread for the
delivery queues (`dq.builtins`, `dq.user`), the event thread (`tev`: heartbeats, AckNacks,
retransmissions, timers) and the garbage collector (`gc`: deferred deletion and leases).

| Component | State | Operations | Works with | Hard because |
|---|---|---|---|---|
| Writer history cache (`q_whc.c`) | samples by number, interval tree and "open" interval, index with a ring of samples per instance, `max_drop_seq`, `unacked_bytes` | insert, remove acknowledged, downgrade to volatile, next/borrow | the writer, under `wr->e.lock` | four incremental representations of the same set, four combinations of depths and durability |
| Writer protocol (`q_transmit.c`, `handle_AckNack`) | `seq`, `seq_xmit`, readers' acknowledgements in an augmented tree, heartbeat control | write, transmit, heartbeat, retransmit, gap, match, drop | cache, event thread, network | losses and reordering; readers deleted while their messages are handled; `seq_xmit` lags behind |
| Reader protocol (`q_receive.c`, `add_AckNack`) | per proxy writer: reorder admin, defragmentation, `last_seq`, sync state per reader | data, heartbeat, gap, AckNack event | reorder admin, delivery queue | NACKs repeated until satisfied; late joiners served apart |
| Defragmentation, receive buffers (`q_radmin.c`) | per sample a tree of byte intervals; buffers, messages and their counts | fragment, gap, nackmap; allocate, commit, count down | receive, delivery and gc threads | fragments overlap and repeat; two levels of counts, changed by several threads |
| Reorder administration (`q_radmin.c`) | `next_seq`, tree of intervals of stored samples, `max_sampleiv`, `n_samples` | sample, gap, nackmap | proxy writer, under its lock | intervals join, are replaced and dropped in place; bounded |
| Delivery queue (`q_radmin.c`) | chain of samples and bubbles, `nof_samples` | enqueue, bubble, wait if full, thread | receive threads, gc | condition variable, count without the lock, pointers outlive their owner's removal |
| Deferred deletion (`q_gc.c`, `q_thread.c`, `q_ephash.c`) | virtual time per thread, requests with recorded times, the hash table | wake, sleep, look up, `gcreq_new`, enqueue, requeue, free, stop | every thread | no locks and no reference counts; wrap-around; several phases per entity |
| Concurrent hash table, trees (`ut_hopscotch.c`, `ut_avl.c`) | buckets with their hop ranges and timestamps; nodes with heights and augmentation | lookup, add, remove, resize, enumerate; insert, delete, swap, range lookups | every lookup; a writer's readers | lookups without locks while elements move; rotations keep four fields right |
| Writer lifecycle (`q_entity.c`, `throttle_writer`) | `OPERATIONAL`, `LINGERING`, `DELETING`; throttling, retransmitting | delete, linger timer, last acknowledgement, block and wake a write | cache, events, gc | three ways to delete at once; blocked writers |
| Timed events (`q_xevent.c`) | heap of events, list and index of messages | reschedule, delete, queue a retransmit, the thread | writers, readers, network | events move while they are handled; merged retransmits; limits |
| Leases (`q_lease.c`) | heap of leases, `tend`, `tsched` | renew, set expiry, expire | receive and gc threads | renewal races expiry; shared leases |
| Discovery and matching (`q_ddsi_discovery.c`, `q_entity.c`, `q_qosmatch.c`) | participants, endpoints and their proxies, matches, blacklist | SPDP and SEDP messages, match, delete | everything | order of messages, re-creation after deletion, both ends at once |
| Reader history cache (`dds_rhc.c`) | instances, samples, view and instance states, registrations, trigger counts | store, read, take, unregister, conditions | delivery queue, application | many counters kept incrementally |
| Key map (`dds_tkmap.c`) | reference counts with a deleted state, hash table | find or create, ref, unref | caches, gc | lock-free retry loop |
| Handle server and entities (`ut_handleserver.c`, `dds_entity.c`) | claim counts, closed flag, tree of entities | claim, release, close, delete | application threads | delete polls with a time limit |
| Wait sets and listeners (`dds_waitset.c`, `dds_listener.c`) | observers, triggers | attach, detach, signal, wait | entities, deletion | callbacks while locks are held |
| Parameter lists (`q_plist.c`) | strings, sequences and locators, owned or aliased | decode, merge, duplicate, free | discovery | who owns which block |
| Transports, parsing, configuration, serialisation, operating system layer, IDL compiler, tools | - | - | - | input and output or sequential data transformation: left out |

What makes each correct, in short: the cache holds what some reader may ask for and what late
joiners are entitled to, and its indices agree with it; the protocol delivers every sample that is
not overwritten, in order, never acknowledges or gives up a sample wrongly, and gets there; each
stage of reception hands on what it was given once, complete and in order, and asks again for
exactly what is missing; deferred deletion frees nothing in use, everything unused, and ends; a
handle that is claimed stays valid; a lease that is renewed in time does not expire; whoever exists
and agrees is matched.

`PROJECT.json` lists all components and the hazards with their lines in the code.

## 2. Modules and the code

| Module | Models |
|---|---|
| `HistoryCache`, `CacheSpec` | which samples a cache retains, as operators on sets, and the abstract cache that changes by insert and acknowledge |
| `WHC` (`MCWHC`) | `q_whc.c` and the calls its writer makes |
| `Rtps` (`MCRtpsOneReader`, `MCRtpsTwoReaders`, `MCRtpsLive`) | the reliable protocol, both ends and the network |
| `AvlTree` | `ut_avl.c` and the tree of a writer's readers |
| `SampleBuffer`, `Reorder` (`MCReorder`) | the abstract reorder buffer: stored, unavailable, delivered; and `struct nn_reorder` |
| `Defrag` | `struct nn_defrag` |
| `ReceiveBuffers` | the memory of received messages: `nn_rbufpool`, `nn_rmsg`, `nn_rdata` |
| `DeliveryQueue` | `struct nn_dqueue` and its thread |
| `ReaderSync` | several readers of one proxy writer: in sync, catching up, best effort |
| `Registrations`, `RHC`, `ReaderCache` | `dds_rhc.c`, its table of live writers, and what it promises |
| `GarbageCollector` | deferred deletion, with the delivery queue as far as it takes part |
| `Hopscotch` (`MCHopscotch`) | the concurrent hash table of `ut_hopscotch.c` |
| `KeyMap` | `dds_tkmap.c` |
| `Entities`, `WaitSet` | handles, deletion and listeners; wait sets and observers |
| `WriterLifecycle` | throttling, lingering and deletion of a writer |
| `EventQueue` | `q_xevent.c` |
| `Lease`, `Discovery`, `Matching` | `q_lease.c` and what depends on it; proxies of a remote participant; readers and writers that match |
| `PList` | the ownership of memory in parameter lists |
| `MCReception`, `MCHistories`, `MCLifetimes`, `MCProgress` | the settings of the runs that cover several modules |
| `RtpsProofs`, `WHCProofs`, `ReorderProofs`, `DeliveryQueueProofs`, `GarbageCollectorProofs`, `KeyMapProofs`, `WaitSetProofs`, `WriterLifecycleProofs` | proofs about the module of that name |

The parts fit together by abstraction. `Rtps` uses a cache through the operators of `HistoryCache`
(`Inserted`, `AckDropped`), which are also the actions of `CacheSpec`: it is proved that `Rtps` uses
its cache as `CacheSpec` allows, and that `WHC`, with all its indices, implements it. The
reader's buffer in `Rtps` (`Hand`, `Announce`) and those of `ReaderSync` follow the release rule of
`SampleBuffer`, and `Reorder` is proved to implement `SampleBuffer`. `ReaderSync` queues samples for
all readers or for one; that these get there in order and to the right readers is `DeliveryQueue`.
`Rtps` lets a deleted reader's AckNack still be handled by a thread that had looked it up
(`straggler`) and drops its connection only afterwards: that this is what deferred deletion
guarantees is `GarbageCollector`. `KeyMap`, `Lease`, `Discovery`, `Matching`, `WriterLifecycle` and
`ReceiveBuffers` use requests to the gc thread in that sense (run once all threads that were awake
have moved on), and take the hash table as atomic, which is `Hopscotch`. `RHC` implements
`ReaderCache`.

**Reorder.** `Rsample` and `Gap` are `nn_reorder_rsample` and `nn_reorder_gap`; each of their
disjuncts is one path through the function (deliver, reject, first, at the end, in the middle;
ignored, delivers, advances, coalesces, stored, rejected). The tree is the set `ivs` of intervals
with their chains, `maxIv` the cached last one. Not kept: reference counts of receive buffers (those
are in `ReceiveBuffers`); `NN_REORDER_MODE_ALWAYS_DELIVER`, which stores nothing.

**Defrag.** Per sample the tree of byte intervals with its sentinel for an unknown size, `lastfrag`
as the last of them, the merge loops as the code has them (one step to the right, not until nothing
touches), the limit on samples with both ways to drop, and the bitmap of missing fragments.

**DeliveryQueue.** `Enqueue`, `Enqueue1` (the chain behind a bubble that counts it), the look at
`nof_samples` without the lock (`IsFull`), the wait on the condition variable, `Free`; and the loop
of `dqueue_thread`, where the decrement of `nof_samples` is a step of its own, before the element is
handled. `enqueued` and `handled` are histories of whom each call is for.

**ReaderSync.** The proxy writer's reorder administration and those of the readers that came late,
`handle_regular`, `handle_Heartbeat`, `handle_Gap` and `maybe_set_reader_in_sync`, with delivery at
once or through the queue.

**ReceiveBuffers.** Buffers hold messages, messages hold chunks with fragments, nodes and chain
elements; `refcount` with its two biases is the symbolic `Uncommitted` and `Bias`. Sizes are numbers
of allocations, so that a buffer holds few.

**WHC.** `c` is `struct whc` as a record: `nodes` (with their `unacked` flag), `intvs` and `open`,
`idx` (per instance the ring and its head), counts and depths. `Write`, `Ack`, `Match`, `Leave`,
`ExitStartup` are the writer's calls under `wr->e.lock` (`insert_sample_in_whc`,
`remove_acked_messages`, `writer_add_connection`, `writer_drop_connection`,
`writer_exit_startup_mode`). A node is its sequence number, the list of nodes is their order, a
sample has size 1, so `unacked_bytes` counts samples; the readers are "some, and acknowledged by all
up to". The loops over the index and over the nodes are functions of the number they have come to.
Empty samples and the deferred free list are not represented.

**RHC.** One action per operation under `rhc->lock`. The cache is a record with its nine counts, the
instances with their ring of samples, `wr_iid` and `wrcount`, the table of registrations (module
`Registrations`) and the list of non-empty instances; read conditions have masks and trigger counts.

**Rtps.** One action per critical section under `wr->e.lock` or `pwr->e.lock`: `Write`,
`Transmit`/`Release` (the packet goes out, and only later `seq_xmit` is updated), `HbEvent`,
`Match`, `DeleteReader`, `DropConnection`, `HandleAckNack` on the writer's side, `Discover`,
`HandleData`, `HandleHeartbeat`, `HandleGap`, `SendAckNack` on the reader's. Time is abstracted: a
scheduled event may happen at any moment. The network is a set of messages, one of which may be
received, kept although received (a duplicate), or lost. Refusals count as faults of the network
too: an AckNack or a heartbeat filtered by its count, a retransmit queue that fills up in the middle
of a NACK (`cut`). Only reliable readers are modelled (best-effort ones get no promise), one reader
per proxy writer, no fragments, one writing thread, no limit of the history's size, no unregisters
(those are in `WHC`).

**GarbageCollector.** `vtime` is each thread's virtual time (even while awake), modulo `2*Half`.
`Wake`, `Sleep` and `Lookup` are what any thread does; `Remove`, `Gather`, `Count` and `Enqueue` are
the deletion of an entity, the virtual times read one thread at a time, as the code does without a
lock. `Gc...` is the loop of `gcreq_queue_thread`: the scan of `threads_vtime_check` is one
`GcPassed` per thread that has moved on, `GcNotYet` only when all were looked at. `Dq...` is
`dqueue_thread`; a proxy writer's request passes through its queue as a bubble (`Flush`, `DqBubble`)
and comes back to be freed. `Stop`, `StopEnqueue` and `GcExit` are the shutdown: `rtps_term` calls
`gcreq_queue_free` when nothing is left to be found. Application threads wake up only if asleep, so
that nested calls do not count as progress. Objects are proxy writers and "others", which take one
phase. A writer whose `write` is blocked in `throttle_writer` (asleep, with the writer in use) is in
`WriterLifecycle`.

**Hopscotch.** A step reads or writes one bucket; adding locks the home bucket, claims a free one,
moves elements until it is near, stores and unlocks; a lookup compares the timestamp before and
after and ends with a scan of the neighbourhood. `Resize` runs while nobody adds or removes.

**KeyMap, Entities, WaitSet, Lease, WriterLifecycle, EventQueue, Discovery, Matching.** Each has a
place per thread (`at`, or a stack of calls in `Entities`) and one action per critical section or
per atomic operation; requests to the gc thread record which threads have to move on first. What is
left to the environment is named in the head of the module.

**AvlTree.** Links, parents and heights as in `ut_avlNode_t`; rotations, the deletion with its stub,
swapping a node, range lookups and walks; augmentation as `augment_wr_prd_match`, and the heartbeat
that `writer_hbcontrol_create_heartbeat` sends to all, to one or to none.

**PList.** A block of memory is a number, a field has blocks and is owned or aliased.

The `MC` modules choose a setting at the start of a behaviour: the module's own constants from the
`.cfg`, or those of an `INSTANCE` with others. One run so covers several modules and configurations,
with the parts that do not take part standing still.

## 3. Runs, bounds and what they show

| Run | Settings | Shows |
|---|---|---|
| `reception` | 15: reorder administration with 5 numbers, any gap and room for all, or heartbeats only and room for 2; defragmentation with one or several fragments a message, dropping the latest or the oldest; delivery queue with 2 receive threads, chains of 2 and `max_samples` 2; `ReaderSync` with a volatile, a late durable or a best-effort reader, with and without queue; parameter lists; hash table of 2 to 4 buckets | `ReorderExact` (tree, order, bitmap), `NoSilentLoss`, `PrefersLowest`, `ImplementsBuffer`; `FragmentsExact`; `QueueExact` (order, addressee, count, wakeups); `NothingMissedOrTwice` for readers that catch up; `LookupsSafe`; `ListsOwnTheirMemory` |
| `reorder_gaps_full` | 5 numbers, any gap, room for 2 | violation, see 7 |
| `histories` | 9: WHC in five combinations of depths, durability and startup mode; RHC with one or two instances, ordered by source, with resource limits, 3 stores | `StructuresAgree` (intervals, index and counts), `KeptAsNeeded`, `PlainImplementsCache`; `CountsAsAsserted` (the nine counts and the trigger counts), `AllImplementReaderCache` |
| `whc_keep_all_drops` | durability history KEEP_ALL, KEEP_ALL | violation, see 7 |
| `rtps_one_reader` | 3 samples of 2 (symmetric) instances in KEEP_LAST 1, or of 1 in KEEP_ALL with piggybacked heartbeats, one fault; the readers' tree with 7 nodes in any order, or with 4 readers that acknowledge | `TypeOK`, `AckSound`, `AllNoLoss`, `NoFalseGap`; `TreesSound` |
| `rtps_two_readers` | 2 readers at any time, one is deleted; transient-local with a history of 1 and 2 samples, or volatile and 1 sample | `NoLoss` for the one that stays, `UnackedRetained`, `DropNeverRetreats`, `DurableHistoryDelivered` |
| `rtps_live` | 2 samples without faults, or 1 with two faults | a matched reader catches up; all is acknowledged in the end |
| `lifetimes` | 17: gc with a proxy writer and a reader, or with two threads; key map; deleting a reader, or a subscriber with its readers; wait set; leases as shared by ddsi2, or by reports; writer; proxies as announced, or implied; both ends of a match; receive buffers with a late reader, at once, in fragments | nothing in use is freed and nothing that can be found is dead: `GcSafe`, `InstancesUnique`, `EntitiesSafe`, `AttachedIsObserved`, `WriterSafe`, `ProxiesSafe`, `MatchesAgree`, `BuffersSafe` |
| `progress` | 6: gc (virtual times modulo 8), delivery queue, key map, writer, timed events, retransmits | what is deleted is freed and the shutdown ends (`CollectsInTheEnd`); what is enqueued is handed on; a search in the key map ends; a blocked write returns (`WriterProceeds`); events are handled and promises kept; `NoDangling` and `EventsSafe` on the way |
| `waitset_deadlock` | two threads, a wait set and two readers | violation, see 7 |
| `lease_freed_in_use` | one receive thread, a lease that is replaced | violation, see 7 |
| `enumeration_misses` | one thread that adds, one that enumerates | violation, see 7 |

Why the bounds are enough to be interesting. *Reorder*: five numbers make two stored intervals with
a hole before, between and after them, and a sample or gap that joins both. *Defrag*: a sample of
four fragments has two holes; a limit of 2 with 3 samples drops. *DeliveryQueue*: two receive
threads and three calls fill a queue of 2 and wait; a chain of 2 is longer than what is left.
*ReaderSync*: a late reader with three numbers is behind, level with and ahead of the proxy writer.
*WHC*: with depths 3 and 2 a ring is filled and wraps in both its roles, an interval is split,
shrinks at either end and disappears, and an unregister is the last of an instance. *RHC*: three
stores in two instances dispose, revive and replace. *Rtps*: a bitmap of 2 is shorter than 3
samples, so NACKs are cut; KEEP_LAST 1 with two instances leaves holes in the cache that must become
gaps in the middle, at the end, and beyond `seq_xmit`; one fault is a loss or a duplicate or a
refusal at any point. `MaxInFlight` and `MaxNet` only hold back timers: what is sent in response is
never held back. With two readers the volatile writer is allowed one sample only, which suffices for
an acknowledgement to be turned back; that nothing is lost for any number is proved. *AvlTree*: 7
nodes have every single and double rotation on both sides, and a deletion that rotates twice on its
way up. *Hopscotch*: a neighbourhood of 2 in 4 buckets moves elements, wraps around, and resizes.
*GarbageCollector*: modulo 4 times wrap around several times in a behaviour, and comparison by the
sign of the difference is at its limit; the safety property must hold, and is proved to hold,
however often a thread moves on. The threads of *KeyMap*, *WriterLifecycle*, *Lease*, *Discovery*,
*Matching* and *Entities* are one for each role in the code, and a second where two of them race.

The proofs of section 5 have none of these bounds. Deadlock is not checked: each model stops when
its bounded input is used up. That nobody waits for ever is in the liveness properties of
`progress`; where two threads do wait for each other is in section 7.

## 4. Fairness

*Rtps.* Weak fairness: of the transmission (`Transmit \/ Release`), per reader of its scheduled
AckNack event and of the deletion by the gc thread. Per reader and kind of message, weak fairness of
receiving some message of that kind: as long as messages of a kind are under way one arrives in the
end. Losses are not unfair, they are counted (`MaxFaults`). Strong fairness of `HbEvent(FALSE)`: of
the heartbeats sent again and again some ask for an answer, since `writer_hbcontrol_ack_required`
says so once the last write is an interval ago, which is a condition that the writes cease at times.
Nothing is assumed of discovery, writes or deletions.

*GarbageCollector* (`GcFairness`). Weak fairness of each thread: one that is awake goes to sleep or
on to the next item, a deletion that was begun is completed, the delivery queue's thread and the gc
thread run. No fairness of waking up, looking up or deleting. `Unhurried` says that virtual times do
not go around by half (2^31 steps) between two looks of the gc thread, which looks every
millisecond, and that the gc thread does not run idle (100 ms at a time) through its own 2^31 steps
while a request is being made. Without it the wrap-around would defeat progress in the model with
its small `Half`, and in theory in the code. Safety needs no such assumption.

*DeliveryQueue* (`QueueFairness`). Weak fairness of the queue's thread and of what a receive thread
does after its wait: neither stops for good while it can run. Receive threads need not receive
anything.

*KeyMap* (`MapFairness`). Weak fairness of each thread in the middle of an operation; nobody has to
begin one.

*WriterLifecycle* (`WriterFairness`). Strong fairness of a write getting the writer's lock, since
others take and release it again and again; weak fairness of the steps after that, of the gc thread
and of a deletion that was begun. Strong fairness of `AcksArrive`: readers that stay acknowledge in
the end, which is what `rtps_live` shows. No fairness of time-outs: a write proceeds although none
fires.

*EventQueue* (`EventFairness`). Weak fairness of its thread and of the clock.

## 5. Proofs

For arbitrary values of the constants under the named assumptions (`HistoryAssumption`,
`RtpsAssumption`, `GcAssumption`, `ReorderAssumption`), which TLC evaluates in the runs, and the
hypotheses of the theorems themselves: `~Timer` and `Names` (the lingering of writers has no time
limit, and the threads have names of their own), `"dq" \notin Recv` and `Recv # {}` (the queue's own
thread is not a receive thread, and there is one), `NoEntry \notin Entries` (the null pointer is no
entry), `Fits`, `BoundedDurability` and `PlainWriter` (below), and `Mode = "normal"` for the refinement of
`SampleBuffer`: the monotonic mode of unreliable readers stores nothing.

**`RtpsProofs`** has three parts. The first is `TypeCorrect`: `Spec => []TypeOK`. `TypeOK` is
inductive as it stands because it says more than types: no message names a number that was not
written, so arithmetic on messages stays in range. Most of the work is what `Answered` sends: `GapMessageAnnounces`, `ForcedHeartbeatAnnounces`,
`AnsweredAnnounces`.

The second: `AcknowledgementsSound`, `UnacknowledgedRetained`, `GapsTrue` and `NothingLost`
from one inductive invariant, `SafeInv`. None of the four is inductive. `NoLoss` needs that what a
reader was told is gone really is dispensable (`VoidExcused`), which needs that of what is under way
(`ToldExcused`), also of heartbeats composed long ago; that holds because a number absent from the
cache when a message is composed was acknowledged by every reader it matters to (`UnackedRetained`),
and what is acknowledged was passed (`AckSound`), which needs that no AckNack under way asks beyond
its reader's progress (`AckNackBase`). That dispensable samples stay so is `OverwrittenStays`. Each
action is shown to be a step of the writer, which leaves the readers' buffers alone, or of one
reader, which leaves the writer alone; `WriterStepSafe` and `ReaderStepSafe` then preserve the
invariant once for all of them.

The third adds what the writer's cache contributes. `CacheInv`: every reader's
acknowledgement is at or above what was dropped by (`AcksCoverDrop`; hence `DropsOnlyForward`,
although a new reader starts over), the cache never ends below that, because nothing below it
remains or, on transient local, the last sample does (`CacheReaches`), and the newest samples of
every instance stay in a durable cache (`HistoryKept`). `UsesCacheAsSpecified` maps every step to an
insert, an acknowledgement or a stutter of `CacheSpec`. `HistoryReachesLateJoiners` needs
`HistoryInv`: whatever a message or a reader calls gone was overwritten, also if it was composed
before the late reader came.

**`WHCProofs`**: `StructuresHold`, `CacheKeeps` and `ImplementsAbstractCache`, for any
depths, instances and numbers of samples. Its first half has what each operation of `q_whc.c` does
to a cache (`Core`: the intervals are those of the stored numbers, the counts exact, the links
between nodes and buffers mutual), as lemmas about operators. A loop is followed by induction up to the
number it has come to (`CountUp`, from the well-foundedness of `<`): after each step there is a
lesser cache (`Less`), which has lost the samples it should and nothing else. In the middle of
`whc_remove_acked_messages_full` that needs that a sample to be deleted is not the head that the
others of its buffer are counted from (`Loose`, `Droppable`).

The second half is about behaviours. The cache decides on positions in a buffer, the properties speak of
what was written; `Place` connects the two: a sample is as far behind the head of its buffer as there
are newer samples of its instance (`Cardinality(NewerOf(k, s)) = Behind(c, k, pos)`). `CacheInv` is
`Place` with `Shape` (types, `Core`, the depths in force) and `Flags` (exactly what a reader has not
acknowledged is flagged; without a durability history nothing else is stored); it gives
`StructuresAgree`. `StructuresAgree` is not inductive: it does not say how far acknowledgements were
processed, nor that a volatile cache holds unacknowledged samples only, and without either a new
sample could push an acknowledged one out of a buffer whose head is gone. `KeptInv` adds that what is
stored and not pushed out is in the index (`LinkedIn`), that the durability history is there
(`KeptIn`), and that what is acknowledged and outside of it waits for a newer sample that will take
it along (`FreedIn`); it gives `KeptAsNeeded`. From it `ImplementsAbstractCache` shows that every
step inserts, drops or leaves alone exactly the samples that `CacheSpec` says.

The hypothesis `BoundedDurability` (`TL => TLDepth > 0`) excludes a transient-local writer whose
durability history is KEEP_ALL: there the flags of acknowledged samples are never cleared, or what
should be kept is dropped (`whc_keep_all_drops` and section 7), and `StructuresAgree` is false.
`PlainWriter` adds that there are no unregisters and no startup mode, since `CacheSpec` has neither
an end of an instance nor a change of its depth; the other two theorems have both.

**`ReorderProofs`**. `Inv` says that the tree holds intervals that are apart, each with its
ascending chain inside, beyond `next_seq`; that `n_samples` and the cached last interval agree with
it; that what was delivered ascends, below `next_seq`. The paths of `nn_reorder_rsample` and
`nn_reorder_gap` are sorted into those that ignore what arrives, those that keep it (`Stores`,
`StoresGap`: another tree, then trimmed to size), and those that hand over a prefix; each class is
shown to preserve `Inv` once, and each path to be in a class. From `Inv`: `TypeCorrect`, `TreeKept`,
`DeliversInOrder`, `DropsTheHighest`. `PassesOverNothing`, `AsksForTheMissing` and
`ImplementsSampleBuffer` need `Covered` as well, that every number inside an interval is stored or
was announced, and the hypothesis `Fits`: gaps come from heartbeats only, or there is room for every
sample. Without it they are false, which is what `reorder_gaps_full` shows. The refinement maps the
tree to the set of stored samples, and every class of steps to one step of `SampleBuffer`.

**`DeliveryQueueProofs`**: `InOrder` and `CountedAndWoken`. That samples go to the right reader
depends on the bubble before them and on its count, so the invariant (`Promise`) says that the
thread's handling, run ahead over all that is pending, ends with exactly what was enqueued; an
enqueue extends this run at its end and the thread consumes it from its beginning. `Counts` relates
`nof_samples` to the chain, off by one while an element is in hand; `Stopping` says that nothing
follows the request to stop.

**`GarbageCollectorProofs`**: `NothingDangles`, from the inductive invariant `Inv` (`Invariance`). A
removed object is at one place of its way (`Once`, `QueuedOnce`, `OnItsWay`): being removed, in the
request queue, with the gc thread, in a bubble. Until it leaves the gc thread any thread that refers
to it has the virtual time recorded in its request (`Waiting`), hence is waited for; this survives
the wrap-around since such a thread does not move without letting go, and a virtual time is never
ahead of itself (`VirtualTime`). For the pointers in the delivery queue, behind the bubble of a
proxy writer none of its samples can be (`BehindBubble`), since no receive thread refers to it any
more; once the bubble was handled nobody does (`Flushed`). `EndsClean` adds `Accounted`: the count
by which the gc thread ends is the number of requests by the places they are at (`Counted`), the one
that wakes it up included, which there is once (`NoOpOnce`); once it is stopping nothing can be
found (`Ending`), and no object gets lost between being found and being freed (`Somewhere`).

**`KeyMapProofs`**: `OneInstance` (who is about to add an entry is the only one to know it
(`Adding`), who is about to remove one finds it there (`Removing`), so that whoever loses the race
to add starts over with the winner's) and `FreedWhenUnused` (one thread takes a deleted entry out
and then asks for it to be freed (`Leaving`); who still looks at it is waited for (`Awaited`); once
it is freed nobody does (`OutOfReach`)).

**`WaitSetProofs`**: `ListsAgree`. Only what is closed is freed (`Closing`), a deletion is told of
only when the entity is closed (`TriggerRead`), and who frees one has taken it off the lists
(`OffTheLists`).

**`WriterLifecycleProofs`**: `DeletedSafely`, for a writer whose lingering has no time limit (`Timer`
is false; with one it is deleted twice, see 7). The one request to free the writer waits for whoever
uses it and did not sleep in `throttle_writer` (`Deleting`), since nobody finds a writer that is
being deleted and nobody begins a call on a closed one (`Closing`). A request made while nobody is
throttled may be served directly: who throttles the writer afterwards has not slept yet, so the
request still waits for it (the fourth part of `Deleting`), and it will not sleep, because the state
is looked at first. A write sleeps only while it may not go on (`Sleeping`): whatever makes
`MayContinue` true, an acknowledgement, the end of a retransmission, a departing reader or the
deletion, broadcasts in the same step; and the gc thread sleeps only while a write is throttled
(`NothingMissed`). The hypothesis `Names` says that the four names of the other threads are not those
of threads that write or receive.

Only model-checked:

* liveness, since the prover has no reasoning about fairness and `ENABLED`;
* `CountsAsAsserted` and `AllImplementReaderCache`: `RHC` computes with `FoldLeft` and sorted
  sequences, whose operator parameters the prover cannot instantiate; its loops would have to become
  recursive functions on numbers, as those of `WHC` are. (`PlainImplementsCache` is the instance of
  `ImplementsAbstractCache` in the setting "plain" of `histories`);
* the invariants of `Defrag`, `ReaderSync`, `Hopscotch`, `PList`, `AvlTree`, `ReceiveBuffers`,
  `Entities`, `Lease`, `Discovery`, `Matching`, `EventQueue`. An invariant of a
  run that covers several modules (as `ReorderExact` or `QueueExact`) says of each setting what its
  module's theorem says for all constants.

## 6. Sensitivity

A definition `X_slip...` is a wrong variant of `X`: a plausible mistake in that part of the code,
such as a comparison off by one (`VtimeGt_slipOrEqual`), a maximum instead of a minimum
(`MaxDropSeq_slipMaximum`), a stale cached pointer (`DeleteLast_slipStaleMax`), a signal left out
(`Append1_slipNoSignal`) or a request freed without its detour (`Free_slipUnflushed`). No
specification uses them. With the variant in the place of `X` the property that `PROJECT.json` pairs
it with under "mutants" is violated in the run it belongs to: every property checked is one that a
mistake can break, within the bounds it is checked at.

## 7. Known deviations

Five runs expect a violation, each a disagreement between the code and a comment:

* `reorder_gaps_full`: when the buffer is full, `delete_last_sample` (`q_radmin.c:1857`) takes the
  last sample out of an interval and shortens it by one number. If a gap message had extended the
  interval beyond that sample, the sample's number stays inside: it is neither delivered nor asked
  for again. `reception` therefore has either arbitrary gaps or an overflowing buffer, and the
  theorems have `Fits`.
* `whc_keep_all_drops`: transient-local with both histories KEEP_ALL has no index, and the path
  without one drops acknowledged samples (`q_whc.c:877`).
* `waitset_deadlock`: reading signals the wait set with the reader locked (`dds_rhc.c:1726`),
  attaching locks the wait set and then the reader (`dds_waitset.c:364`).
* `lease_freed_in_use`: the request to free a replaced lease is made before the pointer to it is
  replaced (`q_entity.c:3482`), so that it need not wait for who loads the pointer in between.
* `enumeration_misses`: an element that is moved from ahead of an enumeration to behind it is not
  visited (`ut_hopscotch.c:273`).

Modelling showed more. A name in parentheses is a property, stated in the module and not in a run,
that is false for the reason given.

*Protocol.* `handle_AckNack` (`q_receive.c:1029`) moves the last number of a gap into its bitmap
even when the gap starts there; the message then names a number the cache may still hold
(`GapNamesUnavailable`). This code base ignores such a message as malformed (`GapApplied`), hence
`NoFalseGap` holds. `augment_wr_prd_match` (case 3c, `q_entity.c:2509`) may name a best-effort
reader as the one that lags, to which the heartbeat then goes (`HeartbeatsReach` with such a
reader). A reader that was given up or deleted and answers before anything was written
(`AnsweredEarly`, `q_receive.c:843`) counts as lagging though it is never named, and the assertion
in `writer_hbcontrol_create_heartbeat` fails.

*Reception.* A receive thread may wait in `nn_dqueue_wait_until_empty_if_full` for a queue that is
empty already (`WaitsOnlyWhileFull`, `q_radmin.c:2460`). Overlapping messages of several fragments
can shrink what is known to be there, since their merging looks one interval to the right; a sample
may be dropped for a fragment of one that is known already, with `DROP_OLDEST` even that one. A
reader in SYNC may still lack what is queued for it alone (`SyncMeansCaughtUp`), samples queued when
a reader is matched may reach it twice, and the retry in `deliver_user_data` delivers again to
earlier readers.

*Histories.* With `TL` and `TLDepth = HDepth = 0` `unacked_bytes` goes below zero (`CountsExact`,
`q_whc.c:715`: what was written without readers is subtracted, though never added); with `TL` and
`TLDepth = 0 < HDepth` the unacked flags are never cleared (`UnackedMeansUnacked`, `q_whc.c:736`).
`histories` leaves these two settings out. The deferred free list of `writer_drop_connection`
(`q_entity.c:1314`) and the key map reference in `free_one_instance_from_idx` (`q_whc.c:446`) leak.
In RHC a condition on the view state "new" miscounts (`TriggersExact`), a refused sample leaves
counts behind (`NoPhantomWriters`), `takecdr` can leave `inst->latest` at a taken sample, a
departing writer of an instance without samples can leave its registration, and `DATA_AVAILABLE` is
not signalled for a second unread sample.

*Deferred deletion and writers.* With the linger timer a writer may be freed while a blocked write
still uses it (`FreedWhileUnused`; `throttle_writer` sleeps, `q_transmit.c:958`, contrary to its
comment at 881) and be deleted twice (`DeletedOnce` with `Timer`). Two threads that add to the hash
table can block each other for ever (`NoLockForEver`).

*Discovery and matching.* An endpoint announced while its participant is deleted survives it
(`DeletedAlong`), a participant may exist twice (`OneIncarnation`), leave the blacklist too early
(`BlacklistedWhileDeleted`), or, with a discovery service, stay (`ImplicitGoes`) with a lease that
never expires. A match may be inserted after its end was taken apart (`DeletedHoldsNothing`), and a
proxy writer announced again under the same GUID may be removed from a reader it was not added to
(`RemovesWhatIsThere`). With a service a lease is registered twice (`RegisteredOnce`), and renewing
the old lease with "never" does nothing, contrary to its comment (`q_entity.c:3476`).

*Events.* A retransmit merged for a writer that is gone goes nowhere and its key is inserted again
(`InsertedOnce` with `Found` and `MaxMsgs >= 2`, `q_xmsg.c:694`); a directed SPDP event whose
participant is gone is not freed; `respond_to_spdp` may reschedule an event that was not made
(`q_entity.c:614`). An error late in `rtps_init` (`q_init.c:1177`) frees one connection twice and
another never.

*Parameter lists.* Merging puts `MULTICAST_LOCATOR` into the unicast locators (`q_plist.c:2884`);
un-aliasing tokens of a shallow copy frees its source's array (`q_entity.c:3690`, contrary to
`q_plist.c:2837`); an address or port of `DEFAULT_UNICAST` is added to the other list; repeated
sequences and aliased tokens leak.

*Entities and wait sets.* Deleting parent and child at once frees in use, or fails for the parent
with `ALREADY_DELETED`; deleting a topic twice drops its readers' reference; a time-out of 10 s
leaves an entity closed for ever. Attaching an entity that is already triggered does not wake a
waiter, nor does detaching the last one; a status read before the observer is told can lose a
wakeup; observers are told without the lock.

## 8. What is not modelled

Built-in topics, transports and sockets, security and instrumentation, the IDL compiler and the
tools. The operating system layer (mutexes, condition variables, atomics) is taken as given. Content
filters, loans, coherent sets, the contents of discovery messages and of parameters, the parsing of
the configuration, the creation of participants, guard conditions, the bandwidth limit of events.
The reasons are with the components in `PROJECT.json`: input and output, or sequential
transformation of data. The preemptive AckNack that ends after 300 s is repeated for ever in the
model. `GarbageCollector` and the modules that rely on it take the hash table as atomic. Integers of
2^32 and more are unbounded, except for virtual times, which wrap around.
`dds_rhc_relinquish_ownership` is never called and left out.

## 9. Plan

Modules and runs are complete as far as section 8 says. What remains to be proved, in this order:

1. `Lease`: what is registered is scheduled. `Discovery`: endpoints do not outlive the participant
   they refer to.
2. `EventQueue`: `EventsSafe`.
3. `RHC`: `CountsAsAsserted`, with its loops as recursive functions.
