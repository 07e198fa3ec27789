---------------------------------- MODULE PList ----------------------------------
(***************************************************************************)
(* Who owns the memory of a parameter list (q_plist.c).  A list decoded    *)
(* from a message points into it and owns little: the array of a sequence  *)
(* of strings, the entries of a list of locators.  Merging and duplicating *)
(* make copies.  Discovery decodes one, adds the defaults, keeps a         *)
(* duplicate with the proxy participant, or updates the one kept there,    *)
(* and lets go of the decoded one before that of the message.              *)
(*                                                                         *)
(* A block of memory is a number.  Parameters without memory of their own  *)
(* are left out; what is wrong with a parameter does not matter.  A        *)
(* parameter other than a locator is in a message once.                    *)
(*                                                                         *)
(* Definitions named X_slip... are wrong variants that no specification    *)
(* uses.                                                                   *)
(***************************************************************************)
EXTENDS Integers, FiniteSets, FiniteSetsExt

CONSTANTS Strings,    \* topic and type name, user data, ...: one string or octets
          Seqs,       \* partition, subscription keys: an array of strings
          Locators,   \* lists of locators
          Tokens,     \* identity and permissions token: a string, an array of properties
          Addresses,  \* whether messages have addresses and ports in place of locators
          MaxLocators, MaxMessages   \* bounds: entries of a list, messages

\* of the names of locators, those the code treats in ways of their own
Unicast == "UNICAST_LOCATOR"
Multicast == "MULTICAST_LOCATOR"
DefaultUnicast == "DEFAULT_UNICAST_LOCATOR"

Fields == Strings \cup Seqs \cup Locators \cup Tokens
Garbage == 0     \* what a pointer is before it is first written

VARIABLES
    list,      \* per list: present, aliased, and the blocks its fields point to
    heap,      \* the blocks allocated
    message,   \* the buffer of the message is there
    phase,     \* what the discovery thread does with the message
    address,   \* do_ipv4address: an address, or a port, is known already
    nmsgs      \* messages so far

plistVars == <<list, heap, message, phase, address, nmsgs>>

Lists == {"decoded", "default", "kept"}
Empty == [present |-> {}, aliased |-> {}, own |-> [f \in Fields |-> {Garbage}]]

\* n blocks that malloc may return
Fresh(h, n) ==
    LET left == (1 .. Cardinality(h) + n) \ h
    IN {x \in left : Cardinality({y \in left : y < x}) < n}
-----------------------------------------------------------------------------
(* nn_plist_fini, nn_xqos_fini                                             *)

Freed_slipAliasedArray(l) == UNION {l.own[f] : f \in l.present \ l.aliased}

\* of a sequence that is aliased the array is freed, of the others nothing
Freed(l) ==
    UNION {l.own[f] : f \in {g \in l.present : g \in l.aliased => g \in Seqs}}
-----------------------------------------------------------------------------
(* nn_plist_mergein_missing, nn_xqos_mergein_missing: one field after the  *)
(* other, into a list and a heap                                           *)

\* the unicast locators also stand in for the multicast ones
MergedFrom(f) == IF f = Multicast THEN Unicast ELSE f
MergedTo(f) == IF f = Multicast THEN Unicast ELSE f

Size(b, f) ==
    CASE f \in Strings -> 1
      [] f \in Seqs -> 2
      [] f \in Locators -> Cardinality(b.own[MergedFrom(f)])
      [] f \in Tokens -> 2

MergeField_slipShallow(b, acc, f) == [acc EXCEPT !.to.present = @ \cup {f}, !.to.own[f] = b.own[f]]

\* unalias_propertyseq frees the array it replaces, which is that of the list copied from
MergeField(b, acc, f) ==
    LET new == Fresh(acc.heap, Size(b, f)) IN
    [heap |-> (acc.heap \cup new) \ (IF f \in Tokens THEN b.own[f] ELSE {}),
     to |-> [acc.to EXCEPT !.present = @ \cup {f}, !.own[MergedTo(f)] = new]]

Merge(a, b, h) ==
    FoldSet(LAMBDA f, acc : MergeField(b, acc, f), [heap |-> h, to |-> a],
            b.present \ a.present)

Dup(b, h) == Merge(Empty, b, h)
-----------------------------------------------------------------------------
(* nn_plist_init_frommsg                                                   *)

Decoded == list["decoded"]

Receive ==
    /\ phase = "idle" /\ nmsgs < MaxMessages
    /\ message' = TRUE
    /\ list' = [list EXCEPT !["decoded"] = Empty]
    /\ phase' = "parse"
    /\ nmsgs' = nmsgs + 1
    /\ UNCHANGED <<heap, address>>

\* do_string, do_octetseq, do_stringseq, do_dataholder
Parameter(f) ==
    LET new == Fresh(heap, IF f \in Strings THEN 0 ELSE 1) IN
    /\ phase = "parse" /\ f \in Fields \ (Locators \cup Decoded.present)
    /\ heap' = heap \cup new
    /\ list' = [list EXCEPT !["decoded"] =
                  [@ EXCEPT !.present = @ \cup {f}, !.aliased = @ \cup {f}, !.own[f] = new]]
    /\ UNCHANGED <<message, phase, address, nmsgs>>

\* add_locator: appended to a list, under a flag
AddLocator(flag, to) ==
    LET new == Fresh(heap, 1)
        before == IF flag \in Decoded.present THEN Decoded.own[to] ELSE {}
    IN /\ heap' = heap \cup new
       /\ list' = [list EXCEPT !["decoded"] =
                     [@ EXCEPT !.present = @ \cup {flag}, !.own[to] = before \cup new]]

Locator(f) ==
    /\ phase = "parse" /\ f \in Locators
    /\ f \in Decoded.present => Cardinality(Decoded.own[f]) < MaxLocators
    /\ AddLocator(f, f)
    /\ UNCHANGED <<message, phase, address, nmsgs>>

\* do_ipv4address, do_port for DEFAULT_UNICAST: the second of the two makes a locator
AddressOrPort ==
    /\ phase = "parse" /\ Addresses /\ DefaultUnicast \in Locators
    /\ DefaultUnicast \in Decoded.present => Cardinality(Decoded.own[Unicast]) < MaxLocators
    /\ address' = ~address
    /\ IF address THEN AddLocator(DefaultUnicast, Unicast) ELSE UNCHANGED <<list, heap>>
    /\ UNCHANGED <<message, phase, nmsgs>>

\* a parameter, or the combination of some, is invalid, or the sentinel is missing; a token
\* may fail after its array was allocated
Invalid ==
    /\ phase = "parse"
    /\ \E lost \in {0} \cup (IF Tokens = {} THEN {} ELSE {1}) :
          heap' = (heap \cup Fresh(heap, lost)) \ Freed(Decoded)
    /\ list' = [list EXCEPT !["decoded"] = Empty]
    /\ message' = FALSE
    /\ phase' = "idle"
    /\ address' = FALSE
    /\ UNCHANGED nmsgs

Sentinel ==
    /\ phase = "parse"
    /\ phase' = "decoded"
    /\ address' = FALSE
    /\ UNCHANGED <<list, heap, message, nmsgs>>
-----------------------------------------------------------------------------
(* handle_SPDP, handle_SEDP and what they call                             *)

MergeDefaults ==
    LET r == Merge(Decoded, list["default"], heap) IN
    /\ phase = "decoded"
    /\ list' = [list EXCEPT !["decoded"] = r.to]
    /\ heap' = r.heap
    /\ phase' = "merged"
    /\ UNCHANGED <<message, address, nmsgs>>

\* new_proxy_participant or proxy_endpoint_common_init; update_proxy_participant_plist_locked
Keep ==
    LET new == Dup(Decoded, heap)
        both == Merge(new.to, list["kept"], new.heap)
    IN /\ phase \in {"decoded", "merged"}
       /\ IF list["kept"].present = {}
          THEN list' = [list EXCEPT !["kept"] = new.to] /\ heap' = new.heap
          ELSE /\ list' = [list EXCEPT !["kept"] = both.to]
               /\ heap' = both.heap \ Freed(list["kept"])
       /\ phase' = "handled"
       /\ UNCHANGED <<message, address, nmsgs>>

LetGo ==
    /\ phase \in {"decoded", "merged", "handled"}
    /\ heap' = heap \ Freed(Decoded)
    /\ list' = [list EXCEPT !["decoded"] = Empty]
    /\ message' = FALSE
    /\ phase' = "idle"
    /\ UNCHANGED <<address, nmsgs>>

\* unref_proxy_participant, proxy_endpoint_common_fini
Delete ==
    /\ phase = "idle" /\ list["kept"].present # {}
    /\ heap' = heap \ Freed(list["kept"])
    /\ list' = [list EXCEPT !["kept"] = Empty]
    /\ UNCHANGED <<message, phase, address, nmsgs>>
-----------------------------------------------------------------------------
\* the defaults have allocated fields too
Init ==
    \E def \in {{}, Strings \cup Seqs} :
       LET d == Dup([Empty EXCEPT !.present = def], {}) IN
       /\ list = [l \in Lists |-> IF l = "default" THEN d.to ELSE Empty]
       /\ heap = d.heap
       /\ message = FALSE
       /\ phase = "idle"
       /\ address = FALSE
       /\ nmsgs = 0

Next ==
    \/ Receive \/ (\E f \in Fields : Parameter(f) \/ Locator(f)) \/ AddressOrPort
    \/ Invalid \/ Sentinel
    \/ MergeDefaults \/ Keep \/ LetGo \/ Delete

Spec == Init /\ [][Next]_plistVars
-----------------------------------------------------------------------------
(* Properties *)

Owned == {<<l, f>> \in Lists \X Fields : f \in list[l].present}
Blocks(o) == list[o[1]].own[o[2]]

\* The comment in nn_plist_mergein_missing: "Adds entries's from B to A (duplicating memory)".
\* Every field that is present points to memory that is allocated and that no other field
\* points to, so that what is freed with one list is freed once and not used by another.
EachHasItsOwn ==
    \A o \in Owned : Blocks(o) \subseteq heap /\ \A p \in Owned \ {o} : Blocks(o) \cap Blocks(p) = {}

\* Nothing is lost: what is allocated belongs to a field of a list.
NothingLost == heap \subseteq UNION {Blocks(o) : o \in Owned}

\* Nothing points into a message that is gone: nn_plist_dup asserts that a duplicate has no
\* aliases, and the decoded list goes with the message.
NoAliasKept ==
    \A o \in Owned : o[2] \in list[o[1]].aliased => o[1] = "decoded" /\ message
=============================================================================
