---------------------------- MODULE ReaderCache -----------------------------
(***************************************************************************)
(* What a reader history cache promises to the application, instance by    *)
(* instance: which writers are live, whether it is disposed, whether it is *)
(* new to the reader, the samples to be read with their states, and change,*)
(* the pending notice (the "invalid sample") of a change of state that no  *)
(* sample carries.  An instance without writers and with nothing left to   *)
(* read is forgotten.                                                      *)
(***************************************************************************)
EXTENDS Integers, Sequences

CONSTANTS Instances, Writers, Depth

VARIABLES view, nextId

rcvars == <<view, nextId>>

Unknown == [live |-> {}, disposed |-> FALSE, isnew |-> TRUE, hist |-> <<>>, change |-> "none"]

LastN(q, k) == IF Len(q) <= k THEN q ELSE SubSeq(q, Len(q) - k + 1, Len(q))

Written(x, w, id) ==
    [live |-> x.live \cup {w}, disposed |-> FALSE, change |-> "none",
     isnew |-> x.isnew \/ x.live = {} \/ x.disposed,
     hist |-> LastN(Append(x.hist, [id |-> id, read |-> FALSE]), Depth)]

Disposed(x) ==
    [x EXCEPT !.disposed = TRUE,
              !.change = IF x.hist = <<>> /\ ~x.disposed THEN "unread" ELSE @]

DisposedBy(x, w) == [Disposed(x) EXCEPT !.live = @ \cup {w}]

\* w stops writing x; the last one to do so leaves a notice unless a sample is there
Left(x, w) ==
    IF w \notin x.live \/ x.live # {w} \/ x.hist # <<>> THEN [x EXCEPT !.live = @ \ {w}]
    ELSE IF x.change = "none" /\ x.disposed THEN Unknown
    ELSE [x EXCEPT !.live = {}, !.change = "unread"]

\* y is x after some of it was read, or taken
ReadFrom(x, y) ==
    /\ y.live = x.live /\ y.disposed = x.disposed
    /\ Len(y.hist) = Len(x.hist)
    /\ \A k \in DOMAIN x.hist : y.hist[k].id = x.hist[k].id /\ (x.hist[k].read => y.hist[k].read)
    /\ y.change = x.change \/ (x.change = "unread" /\ y.change = "read")
    /\ (y.hist # x.hist \/ y.change # x.change) => ~y.isnew
    /\ y.isnew => x.isnew

Without(q, S) == LET Keep(m) == m.id \notin S IN SelectSeq(q, Keep)

TakenFrom(x, y) ==
    \E S \in SUBSET {x.hist[k].id : k \in DOMAIN x.hist}, c \in {x.change, "none"} :
       /\ S # {} \/ c # x.change
       /\ LET z == [x EXCEPT !.hist = Without(@, S), !.change = c, !.isnew = FALSE]
          IN y = IF z.live = {} /\ z.hist = <<>> /\ c = "none" THEN Unknown ELSE z

RCInit == view = [i \in Instances |-> Unknown] /\ nextId = 1

Change(i, x) == view' = [view EXCEPT ![i] = x]

Store(i, w) ==
    \E data, dispose, unregister \in BOOLEAN :
       LET a == IF data THEN Written(view[i], w, nextId) ELSE view[i]
           b == IF dispose THEN DisposedBy(a, w) ELSE a
       IN /\ Change(i, IF unregister THEN Left(b, w) ELSE b)
          /\ nextId' = IF data THEN nextId + 1 ELSE nextId

\* w is gone, and disposes what it wrote if that is its quality of service
Depart(w) ==
    /\ \E dispose \in BOOLEAN : view' = [i \in Instances |->
          IF w \notin view[i].live THEN view[i]
          ELSE Left(IF dispose THEN Disposed(view[i]) ELSE view[i], w)]
    /\ UNCHANGED nextId

Read == (\A i \in Instances : view'[i] = view[i] \/ ReadFrom(view[i], view'[i])) /\ UNCHANGED nextId

Take == (\A i \in Instances : view'[i] = view[i] \/ TakenFrom(view[i], view'[i])) /\ UNCHANGED nextId

RCNext ==
    \/ \E i \in Instances, w \in Writers : Store(i, w)
    \/ \E w \in Writers : Depart(w)
    \/ Read
    \/ Take

RCSpec == RCInit /\ [][RCNext]_rcvars
=============================================================================
