----------------------------- MODULE ThreadTree -----------------------------
(***************************************************************************)
(* The tree of conversations that ThreadingMsgListModel shows: its nodes   *)
(* by internal ID, the root being 0, and the functions that build and      *)
(* change it.  A message stands for its address and for its UID alike; the *)
(* number 0 is no message, an unknown UID and no address.  Nothing here    *)
(* changes over time: the operators map a tree to the next one.            *)
(***************************************************************************)
EXTENDS Integers, FiniteSets, Sequences, SequencesExt, TLC

Elements(s) == {s[i] : i \in DOMAIN s}
Position(s, e) == CHOOSE i \in DOMAIN s : s[i] = e /\ \A j \in 1..(i - 1) : s[j] # e

\* ThreadNodeInfo; id is its internalId, which is also its key if the model has created it
Blank == [id |-> 0, uid |-> 0, ptr |-> 0, parent |-> 0, children |-> <<>>, offset |-> 0]

\* threading, threadingHelperLastId, ptrToInternal and threadedRootIds
NoTree == [nodes |-> <<>>, last |-> 0, ids |-> <<>>, roots |-> <<>>]

\* QHash: operator[] creates what is missing
Node(nodes, id) == IF id \in DOMAIN nodes THEN nodes[id] ELSE Blank
With(nodes, id, node) == id :> node @@ nodes
Without(nodes, gone) == [i \in DOMAIN nodes \ gone |-> nodes[i]]
Adopt(nodes, parent, id) ==
    LET p == Node(nodes, parent)
        n == [Node(nodes, id) EXCEPT !.parent = parent, !.offset = Len(p.children)]
    IN With(With(nodes, id, n), parent, [p EXCEPT !.children = Append(@, id)])

Fresh(id, uid, ptr) == [Blank EXCEPT !.id = id, !.uid = uid, !.ptr = ptr]
Visible(tree, m) == m \in DOMAIN tree.ids /\ tree.ids[m] \in DOMAIN tree.nodes

\* A node for each message, whose UIDs are given; they have no place in the tree yet
Messages(msgs, uids) ==
    [i \in 0..Len(msgs) |-> IF i = 0 THEN Blank ELSE Fresh(i, uids[i], msgs[i])]
IdsOf(msgs) == [m \in Elements(msgs) |-> Position(msgs, m)]
Numbers(n) == [i \in 1..n |-> i]

Flat(msgs, uids) ==
    IF msgs = <<>> THEN NoTree
    ELSE LET all == Messages(msgs, uids) IN
         [nodes |-> [i \in DOMAIN all |-> IF i = 0 THEN [all[0] EXCEPT !.children = Numbers(Len(msgs))]
                                                   ELSE [all[i] EXCEPT !.offset = i - 1]],
          last |-> Len(msgs), ids |-> IdsOf(msgs), roots |-> Numbers(Len(msgs))]

\* A message whose UID is not known becomes the last thread, but no thread root.
Inserted(tree, m) ==
    LET id == tree.last + 1 IN
    [tree EXCEPT !.nodes = Adopt(With(@, id, Fresh(id, 0, m)), 0, id), !.last = id,
                 !.ids = With(@, m, id)]

\* Fault: the node keeps the address.
RemovedKeepingPtr(tree, m) ==
    IF Visible(tree, m) THEN [tree EXCEPT !.nodes[tree.ids[m]].uid = 0] ELSE tree

\* Its address stays in ptrToInternal.
Removed(tree, m) ==
    IF Visible(tree, m) THEN [tree EXCEPT !.nodes[tree.ids[m]].uid = 0, !.nodes[tree.ids[m]].ptr = 0]
    ELSE tree

----------------------------------------------------------------------------
(* pruneTree: messages that are gone leave the tree                        *)

IsFake(nodes, id) == nodes[id].id # 0 /\ nodes[id].ptr = 0

Replaced(s, old, new) == IF old \in Elements(s) THEN [s EXCEPT ![Position(s, old)] = new] ELSE s

\* Fault: the siblings keep their offsets.
DropLeafLeavingOffsets(tree, it) ==
    [tree EXCEPT !.nodes = Without([@ EXCEPT ![it.parent].children = RemoveFirst(@, it.id)], {it.id}),
                 !.roots = RemoveFirst(@, it.id)]

\* No children: the siblings move up.
DropLeaf(tree, it) ==
    LET parent == tree.nodes[it.parent]
        at == Position(parent.children, it.id)
        later == {parent.children[i] : i \in (at + 1)..Len(parent.children)}
        nodes == [i \in DOMAIN tree.nodes |-> IF i \in later THEN [tree.nodes[i] EXCEPT !.offset = @ - 1]
                                                             ELSE tree.nodes[i]]
    IN [tree EXCEPT !.nodes = Without([nodes EXCEPT ![it.parent].children = RemoveAt(@, at)], {it.id}),
                    !.roots = RemoveFirst(@, it.id)]

\* Fault: the other children come before those of the first one.
PromoteSiblingsFirst(tree, it) ==
    LET parent == tree.nodes[it.parent]
        new == Head(it.children)
        family == Tail(it.children) \o tree.nodes[new].children
        nodes == [i \in DOMAIN tree.nodes |->
            IF i = new THEN [tree.nodes[new] EXCEPT !.offset = it.offset, !.parent = parent.id,
                                                    !.children = family]
            ELSE IF i \in Elements(family)
                 THEN [tree.nodes[i] EXCEPT !.parent = new, !.offset = Position(family, i) - 1]
            ELSE IF i = it.parent THEN [parent EXCEPT !.children = Replaced(@, it.id, new)]
            ELSE tree.nodes[i]]
    IN [tree EXCEPT !.nodes = Without(nodes, {it.id}),
                    !.roots = IF parent.id = 0 THEN Replaced(@, it.id, new) ELSE @]

\* The first child takes its place, and the other children become children of that one.
Promote(tree, it) ==
    LET parent == tree.nodes[it.parent]
        new == Head(it.children)
        family == tree.nodes[new].children \o Tail(it.children)
        nodes == [i \in DOMAIN tree.nodes |->
            IF i = new THEN [tree.nodes[new] EXCEPT !.offset = it.offset, !.parent = parent.id,
                                                    !.children = family]
            ELSE IF i \in Elements(family)
                 THEN [tree.nodes[i] EXCEPT !.parent = new, !.offset = Position(family, i) - 1]
            ELSE IF i = it.parent THEN [parent EXCEPT !.children = Replaced(@, it.id, new)]
            ELSE tree.nodes[i]]
    IN [tree EXCEPT !.nodes = Without(nodes, {it.id}),
                    !.roots = IF parent.id = 0 THEN Replaced(@, it.id, new) ELSE @]

PruneOne(tree, id) ==
    IF id \notin DOMAIN tree.nodes THEN tree
    ELSE IF ~IsFake(tree.nodes, id) THEN tree
    ELSE IF tree.nodes[id].children = <<>> THEN DropLeaf(tree, tree.nodes[id])
    ELSE Promote(tree, tree.nodes[id])

\* The keys of a QHash come in no particular order.
PruneInOrder(tree, order) == FoldLeft(PruneOne, tree, order)
Prune(tree) == PruneInOrder(tree, SetToSortSeq(DOMAIN tree.nodes, <))

----------------------------------------------------------------------------
(* A response to THREAD: its nodes, each after its parent.  num is the UID *)
(* and up the parent's place in the sequence, 0 for the top level.         *)

Register(tree, mapping, present) ==
    LET Step(acc, m) ==
            LET parent == IF m.up = 0 THEN 0 ELSE acc.placed[m.up]
                fake == m.num \notin present
                id == IF fake THEN acc.tree.last + 1 ELSE acc.tree.ids[m.num]
                node == IF fake THEN Fresh(id, 0, 0) ELSE [Node(acc.tree.nodes, id) EXCEPT !.ptr = m.num]
            IN [placed |-> Append(acc.placed, id),
                tree |-> [acc.tree EXCEPT !.nodes = Adopt(With(@, id, node), parent, id),
                                          !.last = IF fake THEN id ELSE @]]
    IN FoldLeft(Step, [tree |-> tree, placed |-> <<>>], mapping)

\* Messages that the response does not mention are not shown.
Threaded(tree, msgs, mapping) ==
    LET reg == Register([nodes |-> Messages(msgs, msgs), last |-> Len(msgs),
                         ids |-> IdsOf(msgs), roots |-> tree.roots], mapping, Elements(msgs))
        used == Elements(reg.placed) \cup {0}
        pruned == Prune([reg.tree EXCEPT
                    !.nodes = Without(@, DOMAIN @ \ used),
                    !.ids = [m \in {x \in DOMAIN @ : @[x] \in used} |-> @[m]]])
    IN [pruned EXCEPT !.roots = IF pruned.nodes[0].children = <<>> THEN @ ELSE pruned.nodes[0].children]

\* One item of an incremental response: a thread, and the UID of the root before it.  It is
\* moved to behind the child of the root whose internal ID has that number; inserting past the
\* end appends.
PlaceAfter(nodes, previous) ==
    LET all == nodes[0].children
        expected == IF previous \in Elements(all) THEN Position(all, previous) ELSE 0
        moved == InsertAt(Front(all), expected + 1, Last(all))
    IN IF Len(all) \in {expected, expected + 1} THEN nodes
       ELSE [i \in DOMAIN nodes |->
                IF i = 0 THEN [nodes[0] EXCEPT !.children = moved]
                ELSE IF i \in Elements(moved) /\ Position(moved, i) > expected
                     THEN [nodes[i] EXCEPT !.offset = Position(moved, i) - 1]
                ELSE nodes[i]]

Merged(tree, items, present) ==
    LET affected == {n.num : n \in UNION {Elements(items[i].thread) : i \in DOMAIN items}} \cap present
        ids == {tree.ids[m] : m \in affected}
        cut == Prune([tree EXCEPT !.nodes = [i \in DOMAIN @ |->
                          IF i \in ids THEN [@[i] EXCEPT !.ptr = 0] ELSE @[i]]])
        Add(t, item) ==
            LET reg == Register(t, item.thread, affected) IN
            [reg.tree EXCEPT !.nodes = PlaceAfter(@, item.previous)]
    IN FoldLeft(Add, cut, items)

----------------------------------------------------------------------------
(* Sorting and searching: which thread roots are shown, in which order     *)

\* With all the nodes below them
RECURSIVE Below(_, _)
Below(nodes, ids) ==
    LET children == UNION {Elements(nodes[i].children) : i \in ids} IN
    IF children = {} THEN ids ELSE ids \cup Below(nodes, children)

NullSort(tree) ==
    LET known == SelectSeq(tree.roots, LAMBDA id : Node(tree.nodes, id).uid # 0)
    IN [i \in DOMAIN known |-> tree.nodes[known[i]].uid]

\* Roots that are not in the result leave the tree with all that is below them.
Sorted(tree, result, present) ==
    LET roots == SelectSeq(result, LAMBDA m : m \in present /\ tree.ids[m] \in Elements(tree.roots))
        shown == [i \in DOMAIN roots |-> tree.ids[roots[i]]]
        top == Node(tree.nodes, 0)
        gone == Below(tree.nodes, Elements(top.children) \ Elements(shown))
        nodes == [i \in DOMAIN tree.nodes \cup Elements(shown) \cup {0} |->
            IF i = 0 THEN [top EXCEPT !.children = shown]
            ELSE IF i \in Elements(shown) THEN [Node(tree.nodes, i) EXCEPT !.offset = Position(shown, i) - 1]
            ELSE tree.nodes[i]]
    IN [tree EXCEPT !.nodes = Without(nodes, gone)]

=============================================================================
