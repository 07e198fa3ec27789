--------------------------- MODULE Registrations ----------------------------
(***************************************************************************)
(* The live writers of an instance in a reader history cache (dds_rhc.c).  *)
(* In the common case of a single writer only the instance refers to it    *)
(* (wr_iid, the writer of the latest sample); from the second writer on    *)
(* all are in the table "registrations", and when one is left it is in one *)
(* of the two places.  A record r holds wr (wr_iid), count (wrcount) and   *)
(* regs, the entries of the table for this instance.                       *)
(*                                                                         *)
(* Definitions named X_slip... are wrong variants that no operator uses.   *)
(***************************************************************************)
EXTENDS Integers, FiniteSets

CONSTANTS Writers, NoWriter

ASSUME WriterAssumption == NoWriter \notin Writers

Cached(r, w, update) == IF update THEN [r EXCEPT !.wr = w] ELSE r

Remembered_slipCountsTwice(r, w) == [r EXCEPT !.regs = @ \cup {w}, !.count = @ + 1]

\* the entry of the only writer in the table: it moves into the instance
Remembered(r, w) ==
    IF w \in r.regs THEN [r EXCEPT !.regs = @ \ {w}]
    ELSE [r EXCEPT !.regs = @ \cup {w}, !.count = @ + 1]

\* the one writer the instance knew gets an entry as well
Rescued(r) == IF r.count = 1 THEN [r EXCEPT !.regs = @ \cup {r.wr}] ELSE r

Added(r, w) ==
    IF w \in r.regs THEN r ELSE [r EXCEPT !.regs = @ \cup {w}, !.count = @ + 1]

\* dds_rhc_register; update is FALSE for a sample that the instance refuses.
Registered(r, w, update) ==
    IF r.wr = w THEN r
    ELSE IF r.count = 0 THEN Cached([r EXCEPT !.count = 1], w, update)
    ELSE IF r.wr = NoWriter /\ r.count = 1 THEN Cached(Remembered(r, w), w, update)
    ELSE Cached(Added(Rescued(r), w), w, update)

\* rhc_unregister_isreg_w_sideeffects: is w registered, and the table without it
IsRegistered(r, w) ==
    /\ r.count # 0
    /\ IF r.count = 1 /\ r.wr # NoWriter THEN r.wr = w ELSE w \in r.regs

Forgotten(r, w) ==
    IF r.count = 1 /\ r.wr # NoWriter THEN r
    ELSE [r EXCEPT !.regs = @ \ (IF r.count = 2 /\ r.wr # w THEN {w, r.wr} ELSE {w})]

\* what rhc_unregister_updateinst makes of it
Unregistered1(r, w) ==
    [Forgotten(r, w) EXCEPT !.wr = IF r.wr = w THEN NoWriter ELSE @, !.count = @ - 1]

\* The writers that r stands for.
LiveWriters(r) ==
    IF r.count = 0 THEN {}
    ELSE IF r.count = 1 /\ r.wr # NoWriter THEN {r.wr} ELSE r.regs
=============================================================================
