-------------------------------- MODULE Matching --------------------------------
(***************************************************************************)
(* Readers and writers, local ones and proxies of remote ones, find each   *)
(* other (q_entity.c): who creates one makes it findable, enumerates those *)
(* of the other kind and connects with each; the garbage collector takes   *)
(* what was deleted off its peers before it frees it.  Both ends of a      *)
(* connection may do so at the same time.                                  *)
(*                                                                         *)
(* A source is a writer or a proxy writer, a sink a reader or proxy        *)
(* reader.  Entities are structures, each with a GUID; a proxy that is     *)
(* announced again is another structure with the same GUID.  A step is a   *)
(* critical section of the lock of one entity.  The callbacks that report  *)
(* a match come after the lock is released, and are taken along in the     *)
(* step: nobody can drop the match before they were made.                  *)
(*                                                                         *)
(* Definitions named X_slip... are wrong variants that no specification    *)
(* uses.                                                                   *)
(***************************************************************************)
EXTENDS Integers, Sequences, FiniteSets

CONSTANTS Writers, Readers, ProxyWriters, ProxyReaders,
          Guid,        \* the GUID of each
          Qos,         \* its QoS: a record of the policies that matching compares
          Wild,        \* <<pattern, name>>: the partition names that wildcards stand for
          OnlyLocal,   \* the local ones that are not to be seen by other processes
          Handles      \* per thread: what it creates and deletes

Local == Writers \cup Readers
Sources == Writers \cup ProxyWriters
Sinks == Readers \cup ProxyReaders
Entities == Sources \cup Sinks
Threads == DOMAIN Handles

VARIABLES
    hash,       \* what can be found
    created, deleted, freed,
    matches,    \* per entity: the GUIDs of its peers, in the trees readers, writers, ...
    rdary,      \* per source: the local readers it delivers to, by pointer ...
    valid,      \* ... and whether it still does
    reliable,   \* per source: num_reliable_readers, n_reliable_readers
    reported,   \* per entity: the matches it has told the application of
    deleting,   \* the proxy readers that are marked so
    acked,      \* <<source, GUID>>: matches that count as having acknowledged everything
    requests,   \* what the gc thread is to free, with the threads it waits for
    gc,         \* what it is freeing, or None
    at, ent, peer, todo,   \* per thread: where it is, with what, which peers are left
    pretend     \* writer_add_connection: pretend_everything_acked

matchVars == <<hash, created, deleted, freed, matches, rdary, valid, reliable, reported,
               deleting, acked, requests, gc, at, ent, peer, todo, pretend>>
tables == <<matches, rdary, valid, reliable, reported, deleting, acked>>

None == "none"
Go(t, place) == at' = [at EXCEPT ![t] = place]
\* thread_state_asleep
Sleep(t) ==
    /\ at' = [at EXCEPT ![t] = "idle"]
    /\ ent' = [ent EXCEPT ![t] = None] /\ peer' = [peer EXCEPT ![t] = None]
    /\ requests' = [i \in DOMAIN requests |-> [requests[i] EXCEPT !.wait = @ \ {t}]]
Find(g) == {e \in hash : Guid[e] = g}
-----------------------------------------------------------------------------
(* qos_match_p: what is requested and what is offered                      *)

AtMost == {"reliability", "durability", "access_scope", "coherent_access", "ordered_access",
           "liveliness", "destination_order"}
Durations == {"deadline", "latency_budget", "lease_duration"}

PartitionPattern(p, n) == IF p \in {w[1] : w \in Wild} THEN <<p, n>> \in Wild ELSE p = n
Partitions(q) == IF q.partition = {} THEN {""} ELSE q.partition
PartitionsMatch(a, b) ==
    \E p \in Partitions(a), n \in Partitions(b) : PartitionPattern(p, n) \/ PartitionPattern(n, p)

QosMatch(rd, wr) ==
    /\ rd.topic_name = wr.topic_name /\ rd.type_name = wr.type_name
    /\ IF rd.relaxed \/ wr.relaxed
       THEN rd.reliability = wr.reliability
       ELSE /\ \A p \in AtMost \cap DOMAIN rd : rd[p] <= wr[p]
            /\ \A p \in Durations \cap DOMAIN rd : rd[p] >= wr[p]
            /\ rd.ownership = wr.ownership
    /\ PartitionsMatch(rd, wr)

Connects(src, snk) ==
    /\ src \in Local \/ snk \in Local
    /\ {src, snk} \subseteq Local \/ {src, snk} \cap OnlyLocal = {}
    /\ QosMatch(Qos[snk], Qos[src])
-----------------------------------------------------------------------------
(* new_writer_guid, new_reader_guid, new_proxy_writer, new_proxy_reader    *)

\* generic_do_match enumerates these, and then generic_do_local_match those
RemotePeers(e) ==
    CASE e \in Writers -> ProxyReaders
      [] e \in Readers -> ProxyWriters
      [] e \in ProxyWriters -> Readers
      [] e \in ProxyReaders -> Writers
LocalPeers(e) == IF e \in Writers THEN Readers ELSE Writers

\* nothing with this GUID exists; the participant of a proxy stays in deleted_participants
\* until that is freed
Create(t, e) ==
    /\ at[t] = "idle"
    /\ e \in Handles[t] \ created
    /\ \A f \in created : Guid[f] = Guid[e] => f \in freed
    /\ created' = created \cup {e}
    /\ hash' = hash \cup {e}
    /\ Go(t, "remote") /\ ent' = [ent EXCEPT ![t] = e]
    /\ UNCHANGED <<deleted, freed, tables, requests, gc, peer, todo, pretend>>

\* an enumeration visits what is there when it begins, unless it is removed, and perhaps
\* what is inserted later; and some things twice
Enumerate(t, scan, peers) ==
    /\ todo' = [todo EXCEPT ![t] = hash \cap peers]
    /\ Go(t, scan)
    /\ UNCHANGED <<hash, created, deleted, freed, tables, requests, gc, ent, peer, pretend>>

Visit(t, peers) ==
    \E m \in hash \cap peers :
       LET e == ent[t]
           src == IF e \in Sources THEN e ELSE m
           snk == IF e \in Sources THEN m ELSE e
       IN /\ todo' = [todo EXCEPT ![t] = @ \ {m}]
          /\ IF Connects(src, snk)
             THEN Go(t, "sink") /\ peer' = [peer EXCEPT ![t] = m]
             ELSE UNCHANGED <<at, peer>>
          /\ UNCHANGED <<hash, created, deleted, freed, tables, requests, gc, ent, pretend>>

EndOfScan_slipEarly(t, next) ==
    /\ todo' = [todo EXCEPT ![t] = {}]
    /\ IF next = "idle" THEN Sleep(t) ELSE Go(t, next) /\ UNCHANGED <<ent, peer, requests>>
    /\ UNCHANGED <<hash, created, deleted, freed, tables, gc, pretend>>

EndOfScan(t, next) ==
    /\ todo[t] \cap hash = {}
    /\ todo' = [todo EXCEPT ![t] = {}]
    /\ IF next = "idle" THEN Sleep(t) ELSE Go(t, next) /\ UNCHANGED <<ent, peer, requests>>
    /\ UNCHANGED <<hash, created, deleted, freed, tables, gc, pretend>>

Match(t) ==
    LET e == ent[t] IN
    \/ at[t] = "remote" /\ Enumerate(t, "scan", RemotePeers(e))
    \/ at[t] = "scan" /\ Visit(t, RemotePeers(e))
    \/ at[t] = "scan" /\ EndOfScan(t, IF e \in Local THEN "local" ELSE "idle")
    \/ at[t] = "local" /\ Enumerate(t, "localscan", LocalPeers(e))
    \/ at[t] = "localscan" /\ Visit(t, LocalPeers(e))
    \/ at[t] = "localscan" /\ EndOfScan(t, "idle")
-----------------------------------------------------------------------------
(* connect_writer_with_reader and the like: first the sink, then the source *)

Source(t) == IF ent[t] \in Sources THEN ent[t] ELSE peer[t]
Sink(t) == IF ent[t] \in Sources THEN peer[t] ELSE ent[t]

\* reader_add_connection, reader_add_local_connection, proxy_reader_add_connection
AddToSink(t) ==
    LET snk == Sink(t)
        g == Guid[Source(t)]
    IN /\ at[t] = "sink"
       /\ matches' = [matches EXCEPT ![snk] = @ \cup {g}]
       /\ reported' = [reported EXCEPT ![snk] =
                         @ + IF g \in matches[snk] \/ snk \in ProxyReaders THEN 0 ELSE 1]
       /\ Go(t, IF snk \in ProxyReaders THEN "deleting" ELSE "source")
       /\ UNCHANGED <<hash, created, deleted, freed, rdary, valid, reliable, deleting, acked,
                      requests, gc, ent, peer, todo, pretend>>

\* writer_add_connection looks whether the proxy reader is being deleted, with that locked
LookIfDeleting(t) ==
    /\ at[t] = "deleting"
    /\ pretend' = [pretend EXCEPT ![t] =
                     Sink(t) \in deleting \/ Qos[Sink(t)].reliability = 0]
    /\ Go(t, "source")
    /\ UNCHANGED <<hash, created, deleted, freed, tables, requests, gc, ent, peer, todo>>

\* writer_add_connection, writer_add_local_connection, proxy_writer_add_connection
NewMatch(t, src, snk) ==
    /\ matches' = [matches EXCEPT ![src] = @ \cup {Guid[snk]}]
    /\ rdary' = [rdary EXCEPT ![src] = @ \cup ({snk} \cap Readers)]
    /\ reliable' = [reliable EXCEPT ![src] =
                      @ + IF Qos[snk].reliability > 0 /\ ~ {src, snk} \subseteq Local
                          THEN 1 ELSE 0]
    /\ reported' = [reported EXCEPT ![src] = @ + IF src \in Writers THEN 1 ELSE 0]
    /\ acked' = IF snk \in ProxyReaders /\ pretend[t]
                THEN acked \cup {<<src, Guid[snk]>>} ELSE acked

AddToSource(t) ==
    LET src == Source(t)
        snk == Sink(t)
    IN /\ at[t] = "source"
       /\ IF Guid[snk] \in matches[src]
          THEN UNCHANGED <<matches, rdary, reliable, reported, acked>>
          ELSE NewMatch(t, src, snk)
       /\ Go(t, IF {src, snk} \subseteq Local THEN "localscan" ELSE "scan")
       /\ peer' = [peer EXCEPT ![t] = None]
       /\ pretend' = [pretend EXCEPT ![t] = FALSE]
       /\ UNCHANGED <<hash, created, deleted, freed, valid, deleting, requests, gc, ent, todo>>
-----------------------------------------------------------------------------
(* delete_writer_nolinger_locked, delete_reader, delete_proxy_writer,      *)
(* delete_proxy_reader                                                     *)

Request(e) == [of |-> e, wait |-> {t \in Threads : at[t] # "idle"}]

Delete_slipStaysValid(t, e) ==
    /\ at[t] = "idle"
    /\ e \in (Handles[t] \cap hash) \ deleted
    /\ deleted' = deleted \cup {e}
    /\ Go(t, "unhash") /\ ent' = [ent EXCEPT ![t] = e]
    /\ UNCHANGED <<hash, created, freed, tables, requests, gc, peer, todo, pretend>>

Delete(t, e) ==
    /\ at[t] = "idle"
    /\ e \in (Handles[t] \cap hash) \ deleted
    /\ deleted' = deleted \cup {e}
    /\ Go(t, IF e \in Sources THEN "invalidate" ELSE "unhash") /\ ent' = [ent EXCEPT ![t] = e]
    /\ UNCHANGED <<hash, created, freed, tables, requests, gc, peer, todo, pretend>>

\* local_reader_ary_setinvalid: from now on readers are looked up by their GUIDs
Invalidate(t) ==
    /\ at[t] = "invalidate"
    /\ valid' = [valid EXCEPT ![ent[t]] = FALSE]
    /\ Go(t, "unhash")
    /\ UNCHANGED <<hash, created, deleted, freed, matches, rdary, reliable, reported, deleting,
                   acked, requests, gc, ent, peer, todo, pretend>>

Unhash(t) ==
    /\ at[t] = "unhash"
    /\ hash' = hash \ {ent[t]}
    /\ Go(t, IF ent[t] \in ProxyReaders THEN "ack" ELSE "request")
    /\ UNCHANGED <<created, deleted, freed, tables, requests, gc, ent, peer, todo, pretend>>

\* proxy_reader_set_delete_and_ack_all_messages: the tree is walked with the lock released
\* for each writer
MarkDeleting(t) ==
    /\ at[t] = "ack"
    /\ deleting' = deleting \cup {ent[t]}
    /\ todo' = [todo EXCEPT ![t] = matches[ent[t]]]
    /\ Go(t, "acks")
    /\ UNCHANGED <<hash, created, deleted, freed, matches, rdary, valid, reliable, reported,
                   acked, requests, gc, ent, peer, pretend>>

AckAll(t) ==
    \E g \in IF at[t] = "acks" THEN matches[ent[t]] ELSE {} :
       /\ todo' = [todo EXCEPT ![t] = @ \ {g}]
       /\ acked' = acked \cup {<<wr, Guid[ent[t]]>> :
                                 wr \in {w \in Find(g) : Guid[ent[t]] \in matches[w]}}
       /\ UNCHANGED <<hash, created, deleted, freed, matches, rdary, valid, reliable, reported,
                      deleting, requests, gc, at, ent, peer, pretend>>

EndOfAcks(t) ==
    /\ at[t] = "acks" /\ todo[t] \cap matches[ent[t]] = {}
    /\ todo' = [todo EXCEPT ![t] = {}]
    /\ Go(t, "request")
    /\ UNCHANGED <<hash, created, deleted, freed, tables, requests, gc, ent, peer, pretend>>

Enqueue(t) ==
    /\ at[t] = "request"
    /\ requests' = Append(requests, Request(ent[t]))
    /\ Go(t, "done")
    /\ UNCHANGED <<hash, created, deleted, freed, tables, gc, ent, peer, todo, pretend>>

Done(t) ==
    /\ at[t] = "done"
    /\ Sleep(t)
    /\ UNCHANGED <<hash, created, deleted, freed, tables, gc, todo, pretend>>
-----------------------------------------------------------------------------
(* gc_delete_writer, gc_delete_reader, gc_delete_proxy_writer,             *)
(* gc_delete_proxy_reader                                                  *)

GcTake ==
    /\ gc = None /\ requests # <<>> /\ Head(requests).wait = {}
    /\ gc' = Head(requests).of
    /\ requests' = Tail(requests)
    /\ UNCHANGED <<hash, created, deleted, freed, tables, at, ent, peer, todo, pretend>>

\* the next peer, if it can be found, drops the connection: writer_drop_connection and the
\* like, which report the end of the match, and count it, whether they knew of it or not
Drop(p) ==
    LET src == IF p \in Sources THEN p ELSE gc
        snk == IF p \in Sources THEN gc ELSE p
        known == Guid[gc] \in matches[p]
    IN /\ matches' = [matches EXCEPT ![gc] = @ \ {Guid[p]}, ![p] = @ \ {Guid[gc]}]
       /\ rdary' = IF p \in Sources THEN [rdary EXCEPT ![p] = @ \ {gc}] ELSE rdary
       /\ reliable' = [reliable EXCEPT ![src] =
             @ - IF /\ p \in Sources /\ ~ {src, snk} \subseteq Local
                    /\ Qos[snk].reliability > 0 /\ (known \/ snk \in Readers)
                 THEN 1 ELSE 0]
       /\ reported' = [reported EXCEPT ![p] =
             @ - IF p \in Local /\ (known \/ gc \notin ProxyReaders) THEN 1 ELSE 0]
       /\ acked' = acked \ {<<src, Guid[snk]>>}

GcDrop ==
    \E g \in IF gc = None THEN {} ELSE matches[gc] :
       /\ IF Find(g) = {}
          THEN /\ matches' = [matches EXCEPT ![gc] = @ \ {g}]
               /\ acked' = acked \ {<<gc, g>>}
               /\ UNCHANGED <<rdary, reliable, reported>>
          ELSE \E p \in Find(g) : Drop(p)
       /\ UNCHANGED <<hash, created, deleted, freed, valid, deleting, requests, gc, at, ent,
                      peer, todo, pretend>>

GcFree ==
    /\ gc # None /\ matches[gc] = {}
    /\ freed' = freed \cup {gc}
    /\ gc' = None
    /\ UNCHANGED <<hash, created, deleted, tables, requests, at, ent, peer, todo, pretend>>
-----------------------------------------------------------------------------
Init ==
    /\ hash = {} /\ created = {} /\ deleted = {} /\ freed = {}
    /\ matches = [e \in Entities |-> {}]
    /\ rdary = [s \in Sources |-> {}]
    /\ valid = [s \in Sources |-> TRUE]
    /\ reliable = [s \in Sources |-> 0]
    /\ reported = [e \in Entities |-> 0]
    /\ deleting = {} /\ acked = {}
    /\ requests = <<>> /\ gc = None
    /\ at = [t \in Threads |-> "idle"]
    /\ ent = [t \in Threads |-> None] /\ peer = [t \in Threads |-> None]
    /\ todo = [t \in Threads |-> {}]
    /\ pretend = [t \in Threads |-> FALSE]

Next ==
    \/ \E t \in Threads :
          \/ \E e \in Entities : Create(t, e) \/ Delete(t, e)
          \/ Match(t)
          \/ AddToSink(t) \/ LookIfDeleting(t) \/ AddToSource(t)
          \/ Invalidate(t) \/ Unhash(t) \/ MarkDeleting(t) \/ AckAll(t) \/ EndOfAcks(t)
          \/ Enqueue(t) \/ Done(t)
    \/ GcTake \/ GcDrop \/ GcFree

Spec == Init /\ [][Next]_matchVars
-----------------------------------------------------------------------------
(* Properties *)

Quiet == gc = None /\ requests = <<>> /\ \A t \in Threads : at[t] = "idle"

\* Once all is done, two entities are matched, each with the other, exactly if both exist
\* and their QoS agree: none has missed the other while both were being created, and no
\* match is left of one that is gone.
MatchedBothWays ==
    Quiet =>
      \A e \in hash :
         matches[e] = {Guid[f] : f \in {f \in hash : \/ e \in Sources /\ f \in Sinks /\ Connects(e, f)
                                                     \/ e \in Sinks /\ f \in Sources /\ Connects(f, e)}}

\* A source that still delivers by pointer has no pointer to a reader that was freed.
DeliversToLiving == \A s \in Sources \ freed : valid[s] => rdary[s] \cap freed = {}

\* Nobody uses, nor connects with, what is being freed: that needs no lock.
TornDownAlone == \A t \in Threads : {ent[t], peer[t]} \cap (freed \cup ({gc} \ {None})) = {}

\* What a source delivers to by pointer is what it is matched with, and so is what it counts
\* and reports: a connection is added once and dropped once, by whichever end.
CountsAgree ==
    /\ \A s \in Sources \cap hash :
          /\ rdary[s] = {r \in Readers \ freed : Guid[r] \in matches[s]}
          /\ reliable[s] = Cardinality({g \in matches[s] :
                \E k \in (created \cap Sinks) \ freed :
                   Guid[k] = g /\ Qos[k].reliability > 0 /\ ~ {s, k} \subseteq Local})
    /\ \A e \in Local \cap hash : reported[e] = Cardinality(matches[e])

\* The assertion of local_reader_ary_remove: the reader that is taken off was on the array.
RemovesWhatIsThere ==
    gc \in Readers =>
       \A g \in matches[gc] : \A s \in Sources \cap Find(g) : gc \in rdary[s]

\* What the code says of a proxy reader that is deleted: it holds no writer back any more.
DeletedHoldsNothing ==
    \A p \in deleting, w \in Writers :
       (\A t \in Threads : ent[t] # p) /\ Guid[p] \in matches[w] => <<w, Guid[p]>> \in acked
=============================================================================
