------------------------------- MODULE Discovery -------------------------------
(***************************************************************************)
(* A remote participant and its endpoints come and go: discovery data      *)
(* (handle_SPDP, handle_SEDP in q_ddsi_discovery.c) create and delete      *)
(* proxies on the thread "disc", while the thread "gc" deletes the         *)
(* participant when its lease expires and frees what was deleted           *)
(* (q_entity.c).  The participant has one GUID but may have several        *)
(* incarnations, each a structure of its own; so has every endpoint.       *)
(*                                                                         *)
(* A step is a critical section: gv.lock for the removals from the hash    *)
(* table, the lock of the participant for its list and reference count,    *)
(* that of the deleted participants for the blacklist.  A request to the   *)
(* garbage collector waits for "disc" if that is awake.                    *)
(*                                                                         *)
(* Definitions named X_slip... are wrong variants that no specification    *)
(* uses.                                                                   *)
(***************************************************************************)
EXTENDS Integers, Sequences, FiniteSets

CONSTANTS User,      \* the endpoints that SEDP announces
          Builtin,   \* those created with a participant that SPDP announces
          Cloud,     \* SEDP data of an unknown participant create it implicitly
          MaxPp, MaxEp   \* bounds: structures ever allocated

Guids == User \cup Builtin

VARIABLES
    pps,       \* the participants allocated: refc, implicitly_created, endpoints
    eps,       \* the endpoints allocated: guid, c.proxypp
    ppHash,    \* ephash: the participant, or None
    epHash,    \* ... and the endpoints
    black,     \* the GUID is in deleted_participants
    requests,  \* what is to be freed, and whether it still waits for "disc"
    freed,     \* the structures that were freed
    at,        \* per thread: where it is
    msg,       \* "disc": the endpoint a message is about
    pp,        \* per thread: the participant it works with
    todo       \* "disc": the built-in endpoints it has yet to create

discVars == <<pps, eps, ppHash, epHash, black, requests, freed, at, msg, pp, todo>>

None == 0
Threads == {"disc", "gc"}
Go(t, place) == at' = [at EXCEPT ![t] = place]

Participant(i) == <<"pp", i>>
Endpoint(e) == <<"ep", e>>
Request(x) == [of |-> x, wait |-> at["disc"] # "idle"]

\* the thread is done with what it looked up: thread_state_asleep
Sleep(t) ==
    /\ Go(t, "idle")
    /\ requests' = IF t = "gc" THEN requests ELSE {[r EXCEPT !.wait = FALSE] : r \in requests}
-----------------------------------------------------------------------------
(* delete_proxy_participant_by_guid, delete_ppt, delete_proxy_writer       *)

Remove(t) ==
    /\ at[t] = "delete"
    /\ IF ppHash = None
       THEN Sleep(t) /\ UNCHANGED <<ppHash, black, pp>>
       ELSE /\ black' = TRUE
            /\ ppHash' = None
            /\ pp' = [pp EXCEPT ![t] = ppHash]
            /\ Go(t, "walk")
            /\ UNCHANGED requests
    /\ UNCHANGED <<pps, eps, epHash, freed, msg, todo>>

\* delete_ppt deletes what is on the list, by GUID, and asks for the participant to be freed
Walk(t) ==
    LET guids == {eps[e].guid : e \in pps[pp[t]].endpoints}
        found == {epHash[g] : g \in guids} \ {None}
        new == {Request(Participant(pp[t]))} \cup {Request(Endpoint(e)) : e \in found}
    IN /\ at[t] = "walk"
       /\ epHash' = [g \in Guids |-> IF g \in guids THEN None ELSE epHash[g]]
       /\ Go(t, "idle")
       /\ requests' = IF t = "gc" THEN requests \cup new
                      ELSE {[r EXCEPT !.wait = FALSE] : r \in requests \cup new}
       /\ UNCHANGED <<pps, eps, ppHash, black, freed, msg, pp, todo>>

\* check_and_handle_lease_expiration
Expire ==
    /\ at["gc"] = "idle" /\ ppHash # None
    /\ Go("gc", "delete")
    /\ UNCHANGED <<pps, eps, ppHash, epHash, black, requests, freed, msg, pp, todo>>

\* unref_proxy_participant for an endpoint that is freed, or for the participant itself
Holder(x) == IF x[1] = "pp" THEN x[2] ELSE eps[x[2]].pp
Left(x) ==
    [pps[Holder(x)] EXCEPT !.refc = @ - 1, !.endpoints = @ \ {IF x[1] = "ep" THEN x[2] ELSE None}]

UnrefAndFree(x, isLast) ==
    /\ pps' = [pps EXCEPT ![Holder(x)] = Left(x)]
    /\ freed' = freed \cup (IF x[1] = "ep" THEN {x} ELSE {})
                      \cup (IF isLast THEN {Participant(Holder(x))} ELSE {})
    /\ black' = (black /\ ~isLast)
    /\ Go("gc", IF ~isLast /\ Left(x).endpoints = {} /\ Left(x).implicit THEN "delete" ELSE "idle")

Unref_slipEager(x) == UnrefAndFree(x, x[1] = "pp")
Unref(x) == UnrefAndFree(x, Left(x).refc = 0)

\* gc_delete_proxy_participant, gc_delete_proxy_writer, gc_delete_proxy_reader
Free ==
    \E r \in requests :
       /\ at["gc"] = "idle" /\ ~r.wait
       /\ requests' = requests \ {r}
       /\ Unref(r.of)
       /\ UNCHANGED <<eps, ppHash, epHash, msg, pp, todo>>
-----------------------------------------------------------------------------
(* handle_SPDP_alive, handle_SPDP_dead                                     *)

Spdp ==
    /\ at["disc"] = "idle"
    /\ ~black
    /\ Go("disc", "spdp")
    /\ UNCHANGED <<pps, eps, ppHash, epHash, black, requests, freed, msg, pp, todo>>

\* a new structure in the hash table, once the blacklist has been looked at
New(implicit) ==
    /\ Len(pps) < MaxPp
    /\ pps' = Append(pps, [refc |-> 1, implicit |-> implicit, endpoints |-> {}])
    /\ ppHash' = Len(pps) + 1

SpdpNew ==
    /\ at["disc"] = "spdp" /\ ppHash = None
    /\ New(FALSE)
    /\ \E g \in SUBSET Builtin : todo' = g
    /\ Go("disc", "builtins")
    /\ UNCHANGED <<eps, epHash, black, requests, freed, msg, pp>>

SpdpKnown ==
    /\ at["disc"] = "spdp" /\ ppHash # None
    /\ pps' = [pps EXCEPT ![ppHash].implicit = FALSE]
    /\ Sleep("disc")
    /\ UNCHANGED <<eps, ppHash, epHash, black, freed, msg, pp, todo>>

SpdpDead ==
    /\ at["disc"] = "idle" /\ ppHash # None
    /\ Go("disc", "delete")
    /\ UNCHANGED <<pps, eps, ppHash, epHash, black, requests, freed, msg, pp, todo>>

\* new_proxy_participant: the next of the built-in endpoints, or none is left
NextBuiltin ==
    /\ at["disc"] = "builtins"
    /\ \/ \E g \in todo :
             /\ msg' = g
             /\ todo' = todo \ {g}
             /\ Go("disc", "new")
             /\ UNCHANGED requests
       \/ todo = {} /\ Sleep("disc") /\ UNCHANGED <<msg, todo>>
    /\ UNCHANGED <<pps, eps, ppHash, epHash, black, freed, pp>>
-----------------------------------------------------------------------------
(* handle_SEDP_alive, handle_SEDP_dead, new_proxy_writer, new_proxy_reader *)

Sedp(g) ==
    /\ at["disc"] = "idle"
    /\ ~black
    /\ msg' = g
    /\ todo' = {}
    /\ Go("disc", "sedp")
    /\ UNCHANGED <<pps, eps, ppHash, epHash, black, requests, freed, pp>>

SedpParticipant ==
    /\ at["disc"] = "sedp"
    /\ \/ ppHash # None /\ Go("disc", "sedpKnown") /\ UNCHANGED <<pps, ppHash, requests>>
       \/ ppHash = None /\ ~Cloud /\ Sleep("disc") /\ UNCHANGED <<pps, ppHash>>
       \/ ppHash = None /\ Cloud /\ New(TRUE) /\ Go("disc", "created") /\ UNCHANGED requests
    /\ UNCHANGED <<eps, epHash, black, freed, msg, pp, todo>>

\* implicitly_create_proxypp ends with another lookup
SedpCreated ==
    /\ at["disc"] = "created"
    /\ IF ppHash = None THEN Sleep("disc") ELSE Go("disc", "sedpKnown") /\ UNCHANGED requests
    /\ UNCHANGED <<pps, eps, ppHash, epHash, black, freed, msg, pp, todo>>

SedpEndpoint ==
    /\ at["disc"] = "sedpKnown"
    /\ IF epHash[msg] # None THEN Sleep("disc") ELSE Go("disc", "new") /\ UNCHANGED requests
    /\ UNCHANGED <<pps, eps, ppHash, epHash, black, freed, msg, pp, todo>>

LookUp ==
    /\ at["disc"] = "new" /\ Len(eps) < MaxEp
    /\ pp' = [pp EXCEPT !["disc"] = ppHash]
    /\ Go("disc", IF ppHash = None THEN "builtins" ELSE "ref")
    /\ UNCHANGED <<pps, eps, ppHash, epHash, black, requests, freed, msg, todo>>

\* proxy_endpoint_common_init, ref_proxy_participant
Ref ==
    LET e == Len(eps) + 1 IN
    /\ at["disc"] = "ref"
    /\ eps' = Append(eps, [guid |-> msg, pp |-> pp["disc"]])
    /\ pps' = [pps EXCEPT ![pp["disc"]].refc = @ + 1, ![pp["disc"]].endpoints = @ \cup {e}]
    /\ Go("disc", "insert")
    /\ UNCHANGED <<ppHash, epHash, black, requests, freed, msg, pp, todo>>

\* ephash_insert_proxy_writer_guid, which asserts that the GUID is new
Insert ==
    /\ at["disc"] = "insert"
    /\ epHash' = [epHash EXCEPT ![msg] = IF @ = None THEN Len(eps) ELSE @]
    /\ Go("disc", "builtins")
    /\ UNCHANGED <<pps, eps, ppHash, black, requests, freed, msg, pp, todo>>

SedpDead(g) ==
    /\ at["disc"] = "idle" /\ epHash[g] # None
    /\ epHash' = [epHash EXCEPT ![g] = None]
    /\ requests' = requests \cup {[of |-> Endpoint(epHash[g]), wait |-> FALSE]}
    /\ UNCHANGED <<pps, eps, ppHash, black, freed, at, msg, pp, todo>>
-----------------------------------------------------------------------------
Init ==
    /\ pps = <<>> /\ eps = <<>>
    /\ ppHash = None /\ epHash = [g \in Guids |-> None]
    /\ black = FALSE
    /\ requests = {} /\ freed = {}
    /\ at = [t \in Threads |-> "idle"]
    /\ msg = CHOOSE g \in Guids : TRUE
    /\ pp = [t \in Threads |-> None]
    /\ todo = {}

Next ==
    \/ \E t \in Threads : Remove(t) \/ Walk(t)
    \/ Expire \/ Free
    \/ Spdp \/ SpdpNew \/ SpdpKnown \/ SpdpDead \/ NextBuiltin
    \/ \E g \in User : Sedp(g) \/ SedpDead(g)
    \/ SedpParticipant \/ SedpCreated \/ SedpEndpoint
    \/ LookUp \/ Ref \/ Insert

Spec == Init /\ [][Next]_discVars
-----------------------------------------------------------------------------
(* Properties *)

Allocated == {Participant(i) : i \in DOMAIN pps} \cup {Endpoint(e) : e \in DOMAIN eps}

\* the reference the hash table has, until the request made by delete_ppt is served
OwnReference(i) ==
    \/ i = ppHash \/ \E r \in requests : r.of = Participant(i)
    \/ \E t \in Threads : at[t] = "walk" /\ pp[t] = i

\* A participant is freed with its last endpoint, not before: its count is what the
\* assertions in unref_proxy_participant say, every endpoint that is not freed has its
\* participant, and no thread works with a participant that is gone.
ParticipantOutlives ==
    /\ \A i \in DOMAIN pps :
          pps[i].refc = Cardinality(pps[i].endpoints) + IF OwnReference(i) THEN 1 ELSE 0
    /\ \A e \in DOMAIN eps : Endpoint(e) \notin freed => Participant(eps[e].pp) \notin freed
    /\ \A t \in Threads : at[t] \in {"ref", "walk"} => Participant(pp[t]) \notin freed
    /\ ppHash # None => Participant(ppHash) \notin freed
    /\ \A g \in Guids : epHash[g] # None => Endpoint(epHash[g]) \notin freed

\* While what is left of a participant has not been freed its GUID is blacklisted.
BlacklistedWhileDeleted ==
    \A i \in DOMAIN pps : i # ppHash /\ Participant(i) \notin freed => black

Quiet == requests = {} /\ \A t \in Threads : at[t] = "idle"

\* The comment in unref_proxy_participant: "A parallel endpoint creation may or may not
\* succeed, and if it succeeds it will be deleted along with the proxy participant".
DeletedAlong == Quiet => \A e \in DOMAIN eps : Endpoint(e) \in freed \/ eps[e].pp = ppHash

\* each GUID has one incarnation at a time: the assertions in the functions of ephash
OneIncarnation ==
    /\ at["disc"] = "insert" => epHash[msg] = None
    /\ at["disc"] = "spdp" /\ ppHash = None => \A i \in DOMAIN pps : Participant(i) \in freed

\* An implicitly created participant goes with its last endpoint.
ImplicitGoes == Quiet /\ ppHash # None /\ pps[ppHash].implicit => pps[ppHash].endpoints # {}
=============================================================================
