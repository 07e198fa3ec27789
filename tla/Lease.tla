--------------------------------- MODULE Lease ---------------------------------
(***************************************************************************)
(* The leases of proxy participants (q_lease.c) and the dependence of one  *)
(* proxy participant on another (q_entity.c, q_ddsi_discovery.c).  A       *)
(* participant for which a service speaks shares the lease of the service  *)
(* and is deleted with it; in Cloud, where a discovery service reports     *)
(* participants, it has a lease of its own that is set ticking when the    *)
(* service is gone.                                                        *)
(*                                                                         *)
(* A proxy participant is its place in the hash table, which decides where *)
(* an enumeration meets it; the lease made for it has the same name.  The  *)
(* thread "disc" handles discovery data, "gc" checks the leases and runs   *)
(* the requests for deletion, the others receive data.  A step holds every *)
(* lock it needs.  A participant is freed in one step with its endpoints.  *)
(*                                                                         *)
(* Definitions named X_slip... are wrong variants that no specification    *)
(* uses.                                                                   *)
(***************************************************************************)
EXTENDS Integers, Sequences, FiniteSets

CONSTANTS Participants,   \* their places in the hash table: a set of positive numbers
          Service,        \* one of them speaks for the others
          Receivers,      \* the threads that receive data
          Cloud,          \* Service is a discovery service
          Dur,            \* tdur of every lease, the grace period, the postponement
          MaxTime         \* bound: the time that passes

VARIABLES
    now,
    hash,      \* the proxy participants in the hash table
    known,     \* those that were ever created: each is, once
    priv,      \* privileged_pp_guid, or None
    lease,     \* the lease each renews, or None
    owns,      \* those with owns_lease
    tend, tsched,   \* per lease
    requests,  \* the queue of the gc thread: a lease or a participant to free
    freed,     \* the leases that were freed
    at, del,   \* per thread: where it is; the participants it is deleting, innermost first
    pp,        \* ... the participant, and the lease, it works with
    loaded,
    cursor     \* ... and how far its enumeration of the hash table is

leaseVars == <<now, hash, known, priv, lease, owns, tend, tsched, requests, freed, at, del,
               pp, loaded, cursor>>

None == 0
NotOnHeap == -1
Never == MaxTime + Dur + 1
Threads == {"disc", "gc"} \cup Receivers
Deleters == {"disc", "gc"}

Go(t, place) == at' = [at EXCEPT ![t] = place]

\* the next one an enumeration of the hash table meets, or None
Following(i) ==
    LET later == {p \in hash : p > i}
    IN IF later = {} THEN None ELSE CHOOSE p \in later : \A q \in later : p <= q

\* the thread is done with what it looked up: thread_state_asleep
Passed(t) == [i \in DOMAIN requests |-> [requests[i] EXCEPT !.wait = @ \ {t}]]
Sleep(t) == Go(t, "idle") /\ requests' = Passed(t)

\* gcreq_new and gcreq_enqueue: the request waits for all that are awake but the gc thread
Request(what, x) ==
    requests' = Append(requests, [what |-> what, of |-> x,
                                  wait |-> {t \in Threads \ {"gc"} : at[t] # "idle"}])
-----------------------------------------------------------------------------
(* lease_register, lease_renew, lease_set_expiry                           *)

Registered(l) ==
    /\ tsched[l] = NotOnHeap   \* the assertion in lease_register
    /\ tsched' = [tsched EXCEPT ![l] = IF tend[l] = Never THEN @ ELSE tend[l]]

Renewed(l, t) ==
    LET end == IF t = Never THEN Never ELSE t + Dur
    IN IF end <= tend[l] \/ t >= tend[l] THEN tend ELSE [tend EXCEPT ![l] = end]

SetExpiry(l, when) ==
    /\ tend' = [tend EXCEPT ![l] = when]
    /\ tsched' = [tsched EXCEPT ![l] =
                     IF when < @ \/ (@ = NotOnHeap /\ when < Never) THEN when ELSE @]
-----------------------------------------------------------------------------
(* delete_proxy_participant_by_guid, delete_ppt                            *)

\* out of the hash table, unless someone else did that
Remove(t) ==
    LET p == Head(del[t]) IN
    /\ at[t] = "remove"
    /\ IF p \in hash
       THEN /\ hash' = hash \ {p}
            /\ Go(t, IF p = Service THEN "dependents" ELSE "request")
            /\ cursor' = IF p = Service THEN [cursor EXCEPT ![t] = 0] ELSE cursor
            /\ UNCHANGED <<del, requests>>
       ELSE /\ del' = [del EXCEPT ![t] = Tail(@)]
            /\ IF Len(del[t]) = 1 THEN Sleep(t) ELSE Go(t, "dependents") /\ UNCHANGED requests
            /\ UNCHANGED <<hash, cursor>>
    /\ UNCHANGED <<now, known, priv, lease, owns, tend, tsched, freed, pp, loaded>>

\* delete_or_detach_dependent_pp for the next one in the hash table
Dependent(t) ==
    LET q == Following(cursor[t]) IN
    /\ at[t] = "dependents" /\ q # None
    /\ cursor' = [cursor EXCEPT ![t] = q]
    /\ \/ /\ priv[q] # Service
          /\ UNCHANGED <<priv, tend, tsched, at, del>>
       \/ /\ priv[q] = Service /\ Cloud
          /\ priv' = [priv EXCEPT ![q] = None]
          /\ SetExpiry(lease[q], now + Dur)
          /\ UNCHANGED <<at, del>>
       \/ /\ priv[q] = Service /\ ~Cloud
          /\ del' = [del EXCEPT ![t] = <<q>> \o @]
          /\ Go(t, "remove")
          /\ UNCHANGED <<priv, tend, tsched>>
    /\ UNCHANGED <<now, hash, known, lease, owns, requests, freed, pp, loaded>>

NoMoreDependents(t) ==
    /\ at[t] = "dependents" /\ Following(cursor[t]) = None
    /\ Go(t, "request")
    /\ UNCHANGED <<now, hash, known, priv, lease, owns, tend, tsched, requests, freed, del, pp, loaded, cursor>>

RequestDelete(t) ==
    /\ at[t] = "request"
    /\ Request("participant", Head(del[t]))
    /\ del' = [del EXCEPT ![t] = Tail(@)]
    /\ Go(t, IF Len(del[t]) = 1 THEN "end" ELSE "dependents")
    /\ UNCHANGED <<now, hash, known, priv, lease, owns, tend, tsched, freed, pp, loaded, cursor>>

End(t) ==
    /\ at[t] = "end"
    /\ Sleep(t)
    /\ UNCHANGED <<now, hash, known, priv, lease, owns, tend, tsched, freed, del, pp, loaded, cursor>>
-----------------------------------------------------------------------------
(* The gc thread                                                           *)

\* one round of check_and_handle_lease_expiration
CheckLease ==
    \E l \in Participants :
       /\ at["gc"] = "idle"
       /\ tsched[l] # NotOnHeap /\ tsched[l] <= now
       /\ \A m \in Participants : tsched[m] # NotOnHeap => tsched[l] <= tsched[m]
       /\ \/ /\ now < tend[l]
             /\ tsched' = [tsched EXCEPT ![l] = IF tend[l] = Never THEN NotOnHeap ELSE tend[l]]
             /\ UNCHANGED <<tend, at, del>>
          \/ /\ now >= tend[l] /\ l \in hash /\ priv[l] \in hash
             /\ tsched' = [tsched EXCEPT ![l] = now + Dur]
             /\ tend' = [tend EXCEPT ![l] = now + Dur]
             /\ UNCHANGED <<at, del>>
          \/ /\ now >= tend[l] /\ ~(l \in hash /\ priv[l] \in hash)
             /\ tsched' = [tsched EXCEPT ![l] = NotOnHeap]
             /\ del' = [del EXCEPT !["gc"] = <<l>>]
             /\ Go("gc", "remove")
             /\ UNCHANGED tend
       /\ UNCHANGED <<now, hash, known, priv, lease, owns, requests, freed, pp, loaded, cursor>>

\* gc_proxy_participant_lease; gc_delete_proxy_participant and unref_proxy_participant
FreeRequested ==
    LET r == Head(requests) IN
    /\ at["gc"] = "idle" /\ requests # <<>> /\ r.wait = {}
    /\ requests' = Tail(requests)
    /\ IF r.what = "lease" \/ r.of \in owns
       THEN /\ freed' = freed \cup {r.of}
            /\ tsched' = [tsched EXCEPT ![r.of] = NotOnHeap]
       ELSE UNCHANGED <<freed, tsched>>
    /\ UNCHANGED <<now, hash, known, priv, lease, owns, tend, at, del, pp, loaded, cursor>>
-----------------------------------------------------------------------------
(* Discovery: handle_SPDP_alive, implicitly_create_proxypp,                *)
(* new_proxy_participant                                                   *)

\* the message: on which other participant a new one depends
Discover(p) ==
    /\ at["disc"] = "idle" /\ p \notin known
    /\ known' = known \cup {p}
    /\ priv' = [priv EXCEPT ![p] = IF p # Service /\ (Cloud \/ Service \in hash) THEN Service ELSE None]
    /\ pp' = [pp EXCEPT !["disc"] = p]
    /\ Go("disc", "create")
    /\ UNCHANGED <<now, hash, lease, owns, tend, tsched, requests, freed, del, loaded, cursor>>

Create ==
    LET p == pp["disc"] IN
    /\ at["disc"] = "create"
    /\ IF ~Cloud /\ priv[p] \in hash
       THEN /\ lease' = [lease EXCEPT ![p] = lease[priv[p]]]
            /\ UNCHANGED <<owns, tend>>
       ELSE /\ lease' = [lease EXCEPT ![p] = p]
            /\ owns' = owns \cup {p}
            /\ tend' = [tend EXCEPT ![p] = IF priv[p] = None THEN now + Dur ELSE Never]
    /\ hash' = hash \cup {p}
    /\ Go("disc", "register")
    /\ UNCHANGED <<now, known, priv, tsched, requests, freed, del, pp, loaded, cursor>>

Register ==
    LET p == pp["disc"] IN
    /\ at["disc"] = "register"
    /\ IF p \in owns THEN Registered(p) ELSE UNCHANGED tsched
    /\ Go("disc", IF Cloud THEN "end" ELSE IF p = Service THEN "adopt" ELSE "check")
    /\ cursor' = [cursor EXCEPT !["disc"] = 0]
    /\ UNCHANGED <<now, hash, known, priv, lease, owns, tend, requests, freed, del, pp, loaded>>

\* the service may have gone before it could see the new participant
Check_slipNone ==
    /\ at["disc"] \in {"check", "adopted"}
    /\ Go("disc", IF at["disc"] = "check" THEN "end" ELSE "adopt")
    /\ UNCHANGED <<now, hash, known, priv, lease, owns, tend, tsched, requests, freed, del, pp, loaded, cursor>>

Check ==
    /\ at["disc"] \in {"check", "adopted"}
    /\ IF priv[pp["disc"]] = None \/ Service \in hash
       THEN Go("disc", IF at["disc"] = "check" THEN "end" ELSE "adopt") /\ UNCHANGED del
       ELSE /\ del' = [del EXCEPT !["disc"] = <<pp["disc"]>>]
            /\ Go("disc", "remove")
    /\ UNCHANGED <<now, hash, known, priv, lease, owns, tend, tsched, requests, freed, pp, loaded, cursor>>

\* make_participants_dependent_on_ddsi2: those discovered before the service
Adopt ==
    LET q == Following(cursor["disc"]) IN
    /\ at["disc"] = "adopt"
    /\ IF q = None
       THEN Go("disc", "end") /\ UNCHANGED <<priv, cursor, pp>>
       ELSE /\ cursor' = [cursor EXCEPT !["disc"] = q]
            /\ IF q = Service
               THEN UNCHANGED <<priv, pp, at>>
               ELSE /\ priv' = [priv EXCEPT ![q] = Service]
                    /\ pp' = [pp EXCEPT !["disc"] = q]
                    /\ Go("disc", "reassign")
    /\ UNCHANGED <<now, hash, known, lease, owns, tend, tsched, requests, freed, del, loaded>>

\* proxy_participant_reassign_lease: the request is made before the pointer is replaced
Reassign ==
    LET q == pp["disc"] IN
    /\ at["disc"] = "reassign"
    /\ IF q \in owns
       THEN /\ Request("lease", lease[q])
            /\ tend' = Renewed(lease[q], Never)
            /\ owns' = owns \ {q}
       ELSE UNCHANGED <<requests, tend, owns>>
    /\ Go("disc", "store")
    /\ UNCHANGED <<now, hash, known, priv, lease, tsched, freed, del, pp, loaded, cursor>>

StoreLease ==
    /\ at["disc"] = "store"
    /\ lease' = [lease EXCEPT ![pp["disc"]] = Service]
    /\ Go("disc", "adopted")
    /\ UNCHANGED <<now, hash, known, priv, owns, tend, tsched, requests, freed, del, pp, loaded, cursor>>

\* handle_SPDP_dead
Dispose(p) ==
    /\ at["disc"] = "idle" /\ p \in known
    /\ del' = [del EXCEPT !["disc"] = <<p>>]
    /\ Go("disc", "remove")
    /\ UNCHANGED <<now, hash, known, priv, lease, owns, tend, tsched, requests, freed, pp, loaded, cursor>>

\* handle_SEDP_alive: a known endpoint, reported by the discovery service
Reattach(p) ==
    /\ Cloud /\ at["disc"] = "idle" /\ p \in hash \ {Service}
    /\ priv[p] # Service
    /\ priv' = [priv EXCEPT ![p] = Service]
    /\ SetExpiry(lease[p], Never)
    /\ UNCHANGED <<now, hash, known, lease, owns, requests, freed, at, del, pp, loaded, cursor>>
-----------------------------------------------------------------------------
(* Renewal, by the threads that receive data of an endpoint: it can be     *)
(* looked up until delete_ppt has deleted it                               *)

Find(t, p) ==
    /\ at[t] = "idle"
    /\ \/ p \in hash
       \/ \E d \in Deleters : at[d] \in {"dependents", "request"} /\ p = Head(del[d])
    /\ pp' = [pp EXCEPT ![t] = p]
    /\ Go(t, "found")
    /\ UNCHANGED <<now, hash, known, priv, lease, owns, tend, tsched, requests, freed, del, loaded, cursor>>

Load(t) ==
    /\ at[t] = "found"
    /\ loaded' = [loaded EXCEPT ![t] = lease[pp[t]]]
    /\ Go(t, "renew")
    /\ UNCHANGED <<now, hash, known, priv, lease, owns, tend, tsched, requests, freed, del, pp, cursor>>

Renew(t) ==
    /\ at[t] = "renew"
    /\ tend' = Renewed(loaded[t], now)
    /\ Sleep(t)
    /\ loaded' = [loaded EXCEPT ![t] = None]
    /\ UNCHANGED <<now, hash, known, priv, lease, owns, tsched, freed, del, pp, cursor>>

Tick ==
    /\ now < MaxTime
    /\ now' = now + 1
    /\ UNCHANGED <<hash, known, priv, lease, owns, tend, tsched, requests, freed, at, del, pp, loaded, cursor>>
-----------------------------------------------------------------------------
Init ==
    /\ now = 0 /\ hash = {} /\ known = {} /\ owns = {} /\ freed = {}
    /\ priv = [p \in Participants |-> None] /\ lease = [p \in Participants |-> None]
    /\ tend = [p \in Participants |-> Never] /\ tsched = [p \in Participants |-> NotOnHeap]
    /\ requests = <<>>
    /\ at = [t \in Threads |-> "idle"] /\ del = [t \in Threads |-> <<>>]
    /\ pp = [t \in Threads |-> None] /\ loaded = [t \in Threads |-> None]
    /\ cursor = [t \in Threads |-> 0]

Next ==
    \/ \E t \in Deleters :
          Remove(t) \/ Dependent(t) \/ NoMoreDependents(t) \/ RequestDelete(t) \/ End(t)
    \/ CheckLease \/ FreeRequested
    \/ \E p \in Participants : Discover(p) \/ Dispose(p) \/ Reattach(p)
    \/ Create \/ Register \/ Check \/ Adopt \/ Reassign \/ StoreLease
    \/ \E t \in Receivers : (\E p \in Participants : Find(t, p)) \/ Load(t) \/ Renew(t)
    \/ Tick

Spec == Init /\ [][Next]_leaseVars
-----------------------------------------------------------------------------
(* Properties *)

\* A participant whose own lease can run out will be looked at in time: while it is in the
\* hash table and nobody deletes it, its lease is on the heap, at a time no later than its
\* end, although a renewal moves the end without the lock of the heap.
Scheduled ==
    \A p \in hash \cap owns :
       (tend[p] # Never /\ ~(at["disc"] = "register" /\ pp["disc"] = p)
        /\ \A d \in Deleters : \A i \in DOMAIN del[d] : del[d][i] # p)
       => tsched[p] \in 0..tend[p]

\* Where a service speaks for others, no participant is left depending on a service that is
\* gone, in whichever order the two are discovered and deleted.
NoOrphan ==
    (~Cloud /\ \A d \in Deleters : at[d] = "idle")
    => \A p \in hash : priv[p] = Service => Service \in hash

\* A lease is put on the heap once: the assertion in lease_register holds when it is reached.
RegisteredOnce == at["disc"] = "register" /\ pp["disc"] \in owns => tsched[pp["disc"]] = NotOnHeap

\* The comment in proxy_participant_reassign_lease: "by delaying the freeing through the
\* garbage collector, we ensure whatever lease update occurs in parallel completes before
\* the memory is released".
UpdatesBeforeRelease == \A t \in Receivers : at[t] = "renew" => loaded[t] \notin freed
=============================================================================
