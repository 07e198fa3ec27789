------------------------------- MODULE AvlTree --------------------------------
(***************************************************************************)
(* The balanced trees of ut_avl.c, with pointers to parents, the heights   *)
(* and what is kept of each subtree, as a writer uses one for the readers  *)
(* that are matched with it: what they have acknowledged, the lowest and   *)
(* the highest of it, and one that lags (augment_wr_prd_match in           *)
(* q_entity.c), from which the writer decides to whom a heartbeat goes     *)
(* (q_transmit.c).                                                         *)
(*                                                                         *)
(* A node is its key, a positive number; duplicates are left out, which    *)
(* no tree of the program allows.  The links of a node that is not in the  *)
(* tree are those of a fresh one.                                          *)
(*                                                                         *)
(* Definitions named X_slip... are wrong variants that no specification    *)
(* uses.                                                                   *)
(***************************************************************************)
EXTENDS Integers, Sequences, FiniteSets, FiniteSetsExt, SequencesExt

CONSTANTS
    Nodes,       \* the readers
    Reliable,    \* those that acknowledge
    MaxSeq,      \* bound: what is written
    Augmenting   \* whether the tree keeps something of each subtree

VARIABLES
    tree,        \* the tree and its nodes
    wrSeq        \* wr->seq

avlVars == <<tree, wrSeq>>

Nil == 0
Dirs == {0, 1}
AllAcked == MaxSeq + 1          \* MAX_SEQ_NUMBER
-----------------------------------------------------------------------------
(* Links *)

Height(t, n) == IF n = Nil THEN 0 ELSE t.height[n]

\* where a link is: that of the tree to its root, or of a node to a child
RootLink == <<Nil, 0>>
At(t, s) == IF s = RootLink THEN t.root ELSE t.cs[s[1]][s[2]]
Put(t, s, n) == IF s = RootLink THEN [t EXCEPT !.root = n] ELSE [t EXCEPT !.cs[s[1]][s[2]] = n]
Under(t, n, p) == IF n = Nil THEN t ELSE [t EXCEPT !.parent[n] = p]

\* nodeptr_from_node
LinkTo(t, n) ==
    IF t.parent[n] = Nil THEN RootLink
    ELSE <<t.parent[n], IF t.cs[t.parent[n]][0] = n THEN 0 ELSE 1>>

\* find_neighbour and find_extremum below a node
RECURSIVE Extremum(_, _, _)
Extremum(t, n, d) == IF n = Nil \/ t.cs[n][d] = Nil THEN n ELSE Extremum(t, t.cs[n][d], d)

RECURSIVE FirstFrom(_, _, _)
FirstFrom(t, n, d) ==
    LET p == t.parent[n] IN
    IF p # Nil /\ n = t.cs[p][d] THEN FirstFrom(t, p, d) ELSE p

Neighbour(t, n, d) ==
    IF t.cs[n][d] # Nil THEN Extremum(t, t.cs[n][d], 1 - d) ELSE FirstFrom(t, n, d)
-----------------------------------------------------------------------------
(* What is kept of a subtree: augment_wr_prd_match *)

NoAug == [min |-> 0, max |-> 0, replied |-> FALSE, num |-> 0, lags |-> Nil]

Augment(t, n) ==
    LET kids == {t.cs[n][d] : d \in Dirs} \ {Nil}
        own == IF t.seq[n] < AllAcked THEN t.seq[n] ELSE 0
        max == Max({own} \cup {t.aug[c].max : c \in kids})
        itself == \/ t.seq[n] < max
                  \/ n \in Reliable /\ (t.seq[n] = AllAcked \/ ~t.replied[n])
        inherited(d) == IF t.cs[n][d] = Nil THEN Nil ELSE t.aug[t.cs[n][d]].lags
        behind(d) == LET c == t.cs[n][d] IN c # Nil /\ t.aug[c].max # 0 /\ t.aug[c].max < max
        equal == {c \in kids : t.aug[c].max = max} IN
    [min |-> Min({t.seq[n]} \cup {t.aug[c].min : c \in kids}),
     max |-> max,
     replied |-> t.replied[n] /\ \A c \in kids : t.aug[c].replied,
     num |-> IF max = 0 THEN 0
             ELSE (IF t.seq[n] = max /\ t.replied[n] THEN 1 ELSE 0) +
                  MapThenSumSet(LAMBDA c : t.aug[c].num, equal),
     lags |-> CASE itself -> n
                [] ~itself /\ inherited(0) # Nil -> inherited(0)
                [] ~itself /\ inherited(0) = Nil /\ inherited(1) # Nil -> inherited(1)
                [] OTHER -> IF behind(0) THEN t.cs[n][0] ELSE IF behind(1) THEN t.cs[n][1] ELSE Nil]

Augmented(t, n) ==
    IF Augmenting /\ n # Nil THEN [t EXCEPT !.aug[n] = Augment(t, n)] ELSE t

AugmentUpdated_slipNotAncestors(t, n) == IF n = Nil THEN t ELSE Augmented(t, n)

\* ut_avlAugmentUpdate
RECURSIVE AugmentUpdated(_, _)
AugmentUpdated(t, n) ==
    IF n = Nil \/ ~Augmenting THEN t ELSE AugmentUpdated(Augmented(t, n), t.parent[n])
-----------------------------------------------------------------------------
(* Rotation: to the right for dir = 1; s is the link to n *)

RotateSingle(t, s, n, dir) ==
    LET nd == t.cs[n][1 - dir]
        ndd == t.cs[nd][dir]
        u == [t EXCEPT !.cs[nd][dir] = n, !.cs[n][1 - dir] = ndd,
                       !.parent[nd] = t.parent[n], !.parent[n] = nd,
                       !.height[n] = 1 + Height(t, ndd), !.height[nd] = 2 + Height(t, ndd)] IN
    Augmented(Augmented(Put(Under(u, ndd, n), s, nd), n), nd)

RotateDouble_slipHeights(t, s, n, dir) ==
    LET nd == t.cs[n][1 - dir]
        ndd == t.cs[nd][dir]
        inner == t.cs[ndd][1 - dir]
        outer == t.cs[ndd][dir]
        u == [t EXCEPT !.cs[nd][dir] = inner, !.cs[n][1 - dir] = outer,
                       !.cs[ndd][1 - dir] = nd, !.cs[ndd][dir] = n,
                       !.parent[nd] = ndd, !.parent[n] = ndd, !.parent[ndd] = t.parent[n],
                       !.height[n] = t.height[ndd], !.height[ndd] = t.height[nd]] IN
    Augmented(Augmented(Augmented(Put(Under(Under(u, inner, nd), outer, n), s, ndd), n), nd), ndd)

RotateDouble(t, s, n, dir) ==
    LET nd == t.cs[n][1 - dir]
        ndd == t.cs[nd][dir]
        inner == t.cs[ndd][1 - dir]
        outer == t.cs[ndd][dir]
        u == [t EXCEPT !.cs[nd][dir] = inner, !.cs[n][1 - dir] = outer,
                       !.cs[ndd][1 - dir] = nd, !.cs[ndd][dir] = n,
                       !.parent[nd] = ndd, !.parent[n] = ndd, !.parent[ndd] = t.parent[n],
                       !.height[n] = t.height[ndd], !.height[nd] = t.height[ndd],
                       !.height[ndd] = t.height[nd]] IN
    Augmented(Augmented(Augmented(Put(Under(Under(u, inner, nd), outer, n), s, ndd), n), nd), ndd)

Rotate(t, s, n, dir) ==
    LET nd == t.cs[n][1 - dir] IN
    IF Height(t, t.cs[nd][1 - dir]) < Height(t, t.cs[nd][dir])
    THEN RotateDouble(t, s, n, dir) ELSE RotateSingle(t, s, n, dir)

\* rebalance_path along the links that a search noted, or rebalance_nopath without (path is
\* <<>>): up to the root, or to where the height stays as it is
RECURSIVE Rebalanced(_, _, _)
Rebalanced(t, path, n) ==
    LET s == IF path = <<>> THEN LinkTo(t, n) ELSE Last(path)
        up == IF path = <<>> THEN path ELSE Front(path)
        left == Height(t, t.cs[n][0])
        right == Height(t, t.cs[n][1])
        height == Max({left, right}) + 1 IN
    CASE n = Nil -> t
      [] n # Nil /\ left > right + 1 -> Rebalanced(Rotate(t, s, n, 1), up, t.parent[n])
      [] n # Nil /\ left < right - 1 -> Rebalanced(Rotate(t, s, n, 0), up, t.parent[n])
      [] OTHER -> IF ~Augmenting /\ height = t.height[n] THEN t
                  ELSE Rebalanced(Augmented([t EXCEPT !.height[n] = height], n), up, t.parent[n])
-----------------------------------------------------------------------------
(* Insertion and deletion *)

\* lookup_path: the links from the root to where the key is, or would be
RECURSIVE Path(_, _, _)
Path(t, k, s) ==
    IF At(t, s) \in {Nil, k} THEN <<s>>
    ELSE <<s>> \o Path(t, k, <<At(t, s), IF At(t, s) < k THEN 1 ELSE 0>>)

Lookup(t, k) == At(t, Last(Path(t, k, RootLink)))

\* ut_avlInsertIPath
Inserted(t, n) ==
    LET path == Path(t, n, RootLink)
        s == Last(path)
        u == [t EXCEPT !.parent[n] = s[1], !.height[n] = 1] IN
    Rebalanced(Put(Augmented(u, n), s, n), Front(path), s[1])

\* a subtree's nodes along its right edge
RECURSIVE Spine(_, _)
Spine(t, n) == IF n = Nil THEN <<>> ELSE <<n>> \o Spine(t, t.cs[n][1])

NoLinks == [d \in Dirs |-> Nil]
Out(t, n) == [t EXCEPT !.cs[n] = NoLinks, !.parent[n] = Nil, !.height[n] = 0, !.aug[n] = NoAug]

\* delete_generic: a node with two children is replaced by its predecessor; with a path, the
\* links to the nodes below that move are noted as well
Deleted(t, n, path) ==
    LET s == IF path = <<>> THEN LinkTo(t, n) ELSE Last(path)
        left == t.cs[n][0]
        right == t.cs[n][1]
        spine == Spine(t, left)
        subst == Last(spine)
        only == IF left = Nil THEN right ELSE left
        near == subst = left
        whence == IF left = Nil \/ right = Nil THEN t.parent[n]
                  ELSE IF near THEN subst ELSE t.parent[subst]
        below == IF near THEN <<>>
                 ELSE <<<<subst, 0>>>> \o [i \in 1 .. Len(spine) - 2 |-> <<spine[i], 1>>]
        detached == IF near THEN t
                    ELSE LET v == Under(t, t.cs[subst][0], t.parent[subst]) IN
                         Under([v EXCEPT !.cs[t.parent[subst]][1] = t.cs[subst][0],
                                         !.cs[subst][0] = left], left, subst)
        replaced == Put(Under([detached EXCEPT !.parent[subst] = t.parent[n],
                                               !.height[subst] = t.height[n],
                                               !.cs[subst][1] = right], right, subst), s, subst) IN
    IF left = Nil \/ right = Nil
    THEN Rebalanced(Augmented(Out(Put(Under(t, only, t.parent[n]), s, only), n), whence),
                    IF path = <<>> THEN path ELSE Front(path), whence)
    ELSE Rebalanced(Augmented(Out(replaced, n), whence),
                    IF path = <<>> THEN path ELSE path \o below, whence)

\* ut_avlSwapNode, for a node with the same neighbours
Swapped(t, old, new) ==
    LET u == Put([t EXCEPT !.cs[new] = t.cs[old], !.parent[new] = t.parent[old],
                           !.height[new] = t.height[old]], LinkTo(t, old), new) IN
    Augmented(Out(Under(Under(u, t.cs[old][0], new), t.cs[old][1], new), old), new)
-----------------------------------------------------------------------------
(* Lookups and enumerations *)

\* the node with the key, if any, and the last one passed on the side of d
RECURSIVE Search(_, _, _, _, _)
Search(t, n, k, d, cand) ==
    IF n \in {Nil, k} THEN [at |-> n, cand |-> cand]
    ELSE Search(t, t.cs[n][IF n < k THEN 1 ELSE 0], k, d, IF (n < k) = (d = 0) THEN n ELSE cand)

\* lookup_predeq and lookup_succeq
LookupEq(t, k, d) ==
    LET r == Search(t, t.root, k, d, Nil) IN IF r.at = Nil THEN r.cand ELSE r.at

\* lookup_pred and lookup_succ
LookupNext(t, k, d) ==
    LET r == Search(t, t.root, k, d, Nil) IN
    IF r.at = Nil \/ t.cs[r.at][d] = Nil THEN r.cand ELSE Extremum(t, t.cs[r.at][d], 1 - d)

\* ut_avlWalkRange
RECURSIVE WalkRange(_, _, _)
WalkRange(t, n, max) ==
    IF n = Nil \/ n > max THEN <<>> ELSE <<n>> \o WalkRange(t, Neighbour(t, n, 1), max)

\* avl_iter_downleft: the nodes that are still to come, below them
RECURSIVE DownLeft(_, _, _)
DownLeft(t, todo, n) == IF n = Nil THEN todo ELSE DownLeft(t, Append(todo, n), t.cs[n][0])

\* ut_avlIterNext until the end; ut_avlWalk goes the same way
RECURSIVE Iterated(_, _)
Iterated(t, todo) ==
    IF todo = <<>> THEN <<>>
    ELSE <<Last(todo)>> \o Iterated(t, DownLeft(t, Front(todo), t.cs[Last(todo)][1]))

\* ut_avlIterSuccEq: the nodes it passes to the left of, and the one it finds
RECURSIVE ToSuccEq(_, _, _)
ToSuccEq(t, n, k) ==
    CASE n = Nil -> <<>>
      [] n = k -> <<n>>
      [] n # Nil /\ n > k -> <<n>> \o ToSuccEq(t, t.cs[n][0], k)
      [] n # Nil /\ n < k -> ToSuccEq(t, t.cs[n][1], k)
-----------------------------------------------------------------------------
(* The readers of a writer *)

In == {n \in Nodes : tree.height[n] > 0}

Init ==
    /\ wrSeq = 0
    /\ tree = [root |-> Nil, cs |-> [n \in Nodes |-> NoLinks], parent |-> [n \in Nodes |-> Nil],
               height |-> [n \in Nodes |-> 0], aug |-> [n \in Nodes |-> NoAug],
               seq |-> [n \in Nodes |-> 0], replied |-> [n \in Nodes |-> FALSE]]

\* writer_add_connection: who does not acknowledge, or is being deleted, is taken to have
\* acknowledged everything
Add(n, deleting) ==
    /\ n \notin In
    /\ deleting => Augmenting /\ n \in Reliable
    /\ tree' = Inserted([tree EXCEPT !.seq[n] = IF n \in Reliable /\ ~deleting THEN wrSeq ELSE AllAcked,
                                     !.replied[n] = n \notin Reliable], n)
    /\ UNCHANGED wrSeq

\* writer_drop_connection
Drop(n) ==
    /\ n \in In
    /\ tree' = Deleted([tree EXCEPT !.seq[n] = 0, !.replied[n] = FALSE], n, <<>>)
    /\ UNCHANGED wrSeq

Updated(n, s, r) == AugmentUpdated([tree EXCEPT !.seq[n] = s, !.replied[n] = r], n)

\* handle_AckNack: it acknowledges more, and perhaps says so for the first time
Ack(n) ==
    /\ Augmenting /\ n \in In \cap Reliable /\ tree.seq[n] # AllAcked
    /\ \E s \in tree.seq[n] .. wrSeq, r \in {tree.replied[n], TRUE} :
          (r # tree.replied[n] => s > 0) /\ tree' = Updated(n, s, r)
    /\ UNCHANGED wrSeq

\* ... or answers although it was given up: all that is still there counts as acknowledged
Responsive(n) ==
    /\ Augmenting /\ n \in In \cap Reliable /\ tree.seq[n] = AllAcked
    /\ tree' = Updated(n, wrSeq, TRUE)
    /\ UNCHANGED wrSeq

\* proxy_reader_set_delete_and_ack_all_messages
AckAll(n) ==
    /\ Augmenting /\ n \in In /\ tree.seq[n] # AllAcked
    /\ tree' = Updated(n, AllAcked, tree.replied[n])
    /\ UNCHANGED wrSeq

\* a node takes the place of another, as in the reorder buffer
Swap(old, new) ==
    /\ ~Augmenting /\ old \in In /\ new \notin In
    /\ LookupNext(tree, old, 0) < new
    /\ LookupNext(tree, old, 1) # Nil => new < LookupNext(tree, old, 1)
    /\ tree' = Swapped(tree, old, new)
    /\ UNCHANGED wrSeq

Write ==
    /\ Augmenting /\ wrSeq < MaxSeq /\ wrSeq' = wrSeq + 1
    /\ UNCHANGED tree

Next ==
    \/ \E n \in Nodes : \/ \E del \in BOOLEAN : Add(n, del)
                        \/ Drop(n) \/ Ack(n) \/ Responsive(n) \/ AckAll(n)
    \/ \E old, new \in Nodes : Swap(old, new)
    \/ Write

Spec == Init /\ [][Next]_avlVars
-----------------------------------------------------------------------------
(* To whom a heartbeat goes: writer_hbcontrol_create_heartbeat *)

ToAll == Nil

HeartbeatTo ==
    LET reliable == Cardinality(In \cap Reliable)
        root == tree.aug[tree.root] IN
    IF reliable = 0 \/ wrSeq # root.max \/ reliable - root.num # 1 THEN ToAll ELSE root.lags
-----------------------------------------------------------------------------
(* Properties *)

RECURSIVE Below(_, _)
Below(t, n) == IF n = Nil THEN {} ELSE {n} \cup Below(t, t.cs[n][0]) \cup Below(t, t.cs[n][1])

RECURSIVE Sorted(_)
Sorted(S) == IF S = {} THEN <<>> ELSE <<Min(S)>> \o Sorted(S \ {Min(S)})
UpTo(k) == {n \in In : n <= k}
From(k) == {n \in In : n >= k}
LowestOf(S) == Min(S \cup {Max(Nodes) + 1})
AsNode(n) == IF n \in Nodes THEN n ELSE Nil

\* The tree is one, sorted and balanced, with the links to parents and the heights it
\* claims, whatever was inserted and deleted in whatever order.
Balanced ==
    /\ Below(tree, tree.root) = In
    /\ tree.root # Nil => tree.parent[tree.root] = Nil
    /\ \A n \in In :
          /\ \A d \in Dirs : tree.cs[n][d] # Nil => tree.parent[tree.cs[n][d]] = n
          /\ \A m \in Below(tree, tree.cs[n][0]) : m < n
          /\ \A m \in Below(tree, tree.cs[n][1]) : m > n
          /\ tree.height[n] = 1 + Max({Height(tree, tree.cs[n][d]) : d \in Dirs})
          /\ Height(tree, tree.cs[n][0]) - Height(tree, tree.cs[n][1]) \in -1 .. 1

\* Its lookups and enumerations find what is there; and a path noted by a search leads a
\* deletion to the same tree as the links do.
LookupsExact ==
    /\ Iterated(tree, DownLeft(tree, <<>>, tree.root)) = Sorted(In)
    /\ \A n \in In : Deleted(tree, n, Path(tree, n, RootLink)) = Deleted(tree, n, <<>>)
    /\ \A k \in Nodes :
          /\ Lookup(tree, k) = IF k \in In THEN k ELSE Nil
          /\ LookupEq(tree, k, 0) = Max(UpTo(k) \cup {Nil})
          /\ LookupEq(tree, k, 1) = AsNode(LowestOf(From(k)))
          /\ LookupNext(tree, k, 0) = Max((UpTo(k) \ {k}) \cup {Nil})
          /\ LookupNext(tree, k, 1) = AsNode(LowestOf(From(k) \ {k}))
          /\ Iterated(tree, ToSuccEq(tree, tree.root, k)) = Sorted(From(k))
          /\ WalkRange(tree, LookupEq(tree, Min(Nodes), 1), k) = Sorted(UpTo(k))

\* readers given up, or deleted, that answered before anything was written: they are counted
\* as lagging and never named (README)
AnsweredEarly == {n \in In \cap Reliable : tree.seq[n] = 0 /\ tree.replied[n]}

Lagging(S) ==
    {n \in S \cap Reliable : \/ tree.seq[n] = AllAcked \/ ~tree.replied[n]
                             \/ \E m \in S : tree.seq[m] \in tree.seq[n] + 1 .. MaxSeq}

\* What is kept of a subtree is what its readers say: the lowest acknowledgement, on which
\* samples are dropped, the highest, how many are there and whether all have replied; and
\* it names no reader that lags only if there is none.
SubtreesSound ==
    Augmenting => \A n \in In :
        LET S == Below(tree, n)
            a == tree.aug[n]
            acked == {tree.seq[m] : m \in S} \ {AllAcked} IN
        /\ a.min = Min({tree.seq[m] : m \in S})
        /\ a.max = Max(acked \cup {0})
        /\ a.replied = \A m \in S : tree.replied[m]
        /\ a.max # 0 => a.num = Cardinality({m \in S : tree.seq[m] = a.max /\ tree.replied[m]})
        /\ a.lags = Nil => Lagging(S) \subseteq AnsweredEarly

\* A heartbeat reaches whoever still has to reply to one, or to acknowledge what was written;
\* false of the code when a best-effort reader is among them (README).
HeartbeatsReach ==
    Augmenting /\ AnsweredEarly = {} /\ In # {} /\ wrSeq > 0 =>
        \A n \in In \cap Reliable :
            tree.seq[n] # wrSeq \/ ~tree.replied[n] => HeartbeatTo \in {ToAll, n}
=============================================================================
