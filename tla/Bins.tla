-------------------------------- MODULE Bins ------------------------------
(***************************************************************************)
(* The bins of free chunks at the level of their pointers: the ring of a   *)
(* small bin (kmalloc_dllist.c) and the tree of a tree bin                 *)
(* (kmalloc_tree.c).                                                       *)
(*                                                                         *)
(* A node of the tree holds chunks of one size, as a ring whose head is in *)
(* the tree. The bits of the size lead to the place of a node: bit         *)
(* DEPTH - 1 chooses the child of the root, and so on downwards, but a     *)
(* node keeps the size it was inserted with, so a tree is not sorted.      *)
(*                                                                         *)
(* One small and one tree bin share the chunks. The fields of a chunk that *)
(* is in neither are its owner's data (GARBAGE).                           *)
(***************************************************************************)
EXTENDS Integers, SequencesExt

CONSTANTS Chunks,
          DEPTH,                  \* TBIN_DEPTH of the tree bin
          TreeSizes,              \* sizes of the tree bin
          SMALL,                  \* the size of the small bin
          GARBAGE, NULL

ASSUME BinsAssumption ==
    /\ DEPTH \in Nat \ {0} /\ TreeSizes \subseteq Nat /\ SMALL \notin TreeSizes
    /\ {GARBAGE, NULL} \cap Chunks = {} /\ GARBAGE # NULL

VARIABLES bin,                    \* the heads and the fields of the chunks
          size                    \* chunk |-> size, NULL for a chunk in use

vars == <<bin, size>>

Small == {c \in Chunks : size[c] = SMALL}
Large == {c \in Chunks : size[c] \in TreeSizes}

Set(b, field, c, value) == [b EXCEPT ![field] = [@ EXCEPT ![c] = value]]
Ring(b, c, prev, next) ==
    [b EXCEPT !.next = [@ EXCEPT ![c] = next, ![prev] = c],
              !.prev = [@ EXCEPT ![c] = prev, ![next] = c]]
SelfRing(b, c) == [b EXCEPT !.next = [@ EXCEPT ![c] = c], !.prev = [@ EXCEPT ![c] = c]]
Unring(b, c) ==
    [b EXCEPT !.next = [@ EXCEPT ![b.prev[c]] = b.next[c]],
              !.prev = [@ EXCEPT ![b.next[c]] = b.prev[c]]]

(* The caller that is given a chunk overwrites its fields.                 *)
Given(b, c) ==
    [b EXCEPT !.next = [@ EXCEPT ![c] = GARBAGE], !.prev = [@ EXCEPT ![c] = GARBAGE],
              !.left = [@ EXCEPT ![c] = GARBAGE], !.right = [@ EXCEPT ![c] = GARBAGE],
              !.parent = [@ EXCEPT ![c] = GARBAGE]]

---------------------------------------------------------------------------
(* The ring of a small bin.                                                *)
kmalloc_dllist_add(b, c) ==
    [(IF b.sbin # NULL THEN Ring(b, c, b.prev[b.sbin], b.sbin) ELSE SelfRing(b, c))
         EXCEPT !.sbin = c]

kmalloc_dllist_add_end(b, c, head) == Ring(b, c, b.prev[head], head)

kmalloc_dllist_remove_intern_keeps_head(b, c) ==
    IF b.next[c] = c THEN [b EXCEPT !.sbin = NULL] ELSE Unring(b, c)

kmalloc_dllist_remove_intern(b, c) ==
    IF b.next[c] = c THEN [b EXCEPT !.sbin = NULL]
    ELSE [Unring(b, c) EXCEPT !.sbin = IF @ = c THEN b.next[c] ELSE @]

kmalloc_dllist_remove(b) ==
    IF b.next[b.sbin] = b.sbin THEN [b EXCEPT !.sbin = NULL]
    ELSE [Unring(b, b.sbin) EXCEPT !.sbin = b.next[b.sbin]]

---------------------------------------------------------------------------
(* The tree. depth is the number of bits below a node, so bit depth - 1    *)
(* chooses its child.                                                      *)
IsRight(s, depth) == (s \div 2 ^ (depth - 1)) % 2 = 1
Child(b, c, s, depth) == IF IsRight(s, depth) THEN b.right[c] ELSE b.left[c]

(* The nodes a walk from the root to size s visits, with the depth of the  *)
(* last one. A walk that runs out of bits stops at depth 0.                *)
Walk(b, s) ==
    LET walk[depth \in 0 .. DEPTH, c \in Chunks] ==
            IF size[c] = s \/ depth = 0 \/ Child(b, c, s, depth) = NULL
            THEN [path |-> <<c>>, depth |-> depth]
            ELSE LET below == walk[depth - 1, Child(b, c, s, depth)]
                 IN  [path |-> <<c>> \o below.path, depth |-> below.depth]
    IN  walk[DEPTH, b.root]

(* c is inserted with size s. At depth 0 the code gives up.                *)
kmalloc_tree_insert(b, c, s) ==
    LET alone == [SelfRing(b, c) EXCEPT !.left = [@ EXCEPT ![c] = NULL],
                                        !.right = [@ EXCEPT ![c] = NULL]]
        walk == Walk(b, s)
        at == Last(walk.path)
    IN  IF b.root = NULL THEN [Set(alone, "parent", c, NULL) EXCEPT !.root = c]
        ELSE IF size[at] = s
        THEN kmalloc_dllist_add_end(Set(alone, "parent", c, NULL), c, at)
        ELSE IF walk.depth = 0 THEN alone
        ELSE Set(Set(alone, "parent", c, at),
                 IF IsRight(s, walk.depth) THEN "right" ELSE "left", at, c)

is_leave(b, c) == b.left[c] = NULL /\ b.right[c] = NULL
is_in_list(b, c) == b.next[c] # c /\ b.prev[c] # c
is_in_tree(b, c) == b.left[c] # NULL \/ b.right[c] # NULL \/ b.parent[c] # NULL

(* The parent's field for c becomes new; the root when c has no parent.    *)
UpdateParent(b, c, new) ==
    LET p == b.parent[c]
    IN  IF p = NULL THEN [b EXCEPT !.root = new]
        ELSE Set(b, IF b.left[p] = c THEN "left" ELSE "right", p, new)

(* new takes the place of old in the tree.                                 *)
TakePlace_forgets_children(b, old, new) ==
    UpdateParent([b EXCEPT !.left = [@ EXCEPT ![new] = b.left[old]],
                           !.right = [@ EXCEPT ![new] = b.right[old]],
                           !.parent = [@ EXCEPT ![new] = b.parent[old]]], old, new)

TakePlace(b, old, new) ==
    LET children == {b.left[old], b.right[old]} \ {NULL}
    IN  UpdateParent([b EXCEPT !.left = [@ EXCEPT ![new] = b.left[old]],
                               !.right = [@ EXCEPT ![new] = b.right[old]],
                               !.parent = [c \in Chunks |-> IF c \in children THEN new
                                                            ELSE IF c = new THEN b.parent[old]
                                                            ELSE @[c]]], old, new)

(* From c down to a leaf, to the left where there is a left child.         *)
LeftMost(b, c) ==
    LET down[d \in Chunks] ==
            IF is_leave(b, d) THEN <<d>>
            ELSE <<d>> \o down[IF b.left[d] # NULL THEN b.left[d] ELSE b.right[d]]
    IN  down[c]

kmalloc_tree_remove(b, c) ==
    IF is_in_list(b, c)
    THEN IF c = b.root \/ is_in_tree(b, c)
         THEN Unring(TakePlace(b, c, b.next[c]), c)
         ELSE Unring(b, c)
    ELSE IF is_leave(b, c) THEN UpdateParent(b, c, NULL)
    ELSE LET leaf == Last(LeftMost(b, c))
         IN  TakePlace(UpdateParent(b, leaf, NULL), c, leaf)

(* The first of the smallest chunks of a sequence.                         *)
FirstSmallest(path) ==
    path[Min({i \in DOMAIN path : \A j \in DOMAIN path : size[path[i]] <= size[path[j]]})]

kmalloc_tree_get_smallest(b, c) == FirstSmallest(LeftMost(b, c))

(* Up from the end of the walk, where below was the next child, to the     *)
(* smallest chunk on the walk or to a node with another right subtree.     *)
Climb_past_smallest(b, parent, below, smallest) ==
    LET up[p \in Chunks, cur \in Chunks \cup {NULL}] ==
            IF b.right[p] \notin {NULL, cur} THEN kmalloc_tree_get_smallest(b, b.right[p])
            ELSE IF b.parent[p] = NULL THEN NULL
            ELSE up[b.parent[p], p]
    IN  up[parent, below]

Climb(b, parent, below, smallest) ==
    LET up[p \in Chunks, cur \in Chunks \cup {NULL}] ==
            IF b.right[p] \notin {NULL, cur} THEN kmalloc_tree_get_smallest(b, b.right[p])
            ELSE IF p = smallest THEN p
            ELSE IF b.parent[p] = NULL THEN NULL
            ELSE up[b.parent[p], p]
    IN  up[parent, below]

(* At depth 0 the bit is that of a shift by -1, bit 31 on the i386.        *)
kmalloc_tree_get_best_fit(b, s) ==
    LET walk == Walk(b, s)
        last == Last(walk.path)
        larger == SelectSeq(walk.path, LAMBDA c : size[c] > s)
        smallest == IF larger = <<>> THEN NULL ELSE FirstSmallest(larger)
    IN  IF b.root = NULL THEN NULL
        ELSE IF size[last] = s THEN last
        ELSE Climb(b, last, IF walk.depth = 0 THEN b.left[last] ELSE NULL, smallest)

---------------------------------------------------------------------------
(* A chunk is freed into a bin, taken from the head of the small bin, or   *)
(* removed because a search found it or a neighbour merges with it.        *)
Init ==
    /\ bin = [sbin |-> NULL, root |-> NULL, next |-> [c \in Chunks |-> GARBAGE],
              prev |-> [c \in Chunks |-> GARBAGE], left |-> [c \in Chunks |-> GARBAGE],
              right |-> [c \in Chunks |-> GARBAGE], parent |-> [c \in Chunks |-> GARBAGE]]
    /\ size = [c \in Chunks |-> NULL]

Bin(c, s) ==
    /\ size[c] = NULL
    /\ size' = [size EXCEPT ![c] = s]
    /\ bin' = IF s = SMALL THEN kmalloc_dllist_add(bin, c) ELSE kmalloc_tree_insert(bin, c, s)

Unbin(c) ==
    /\ size[c] # NULL
    /\ size' = [size EXCEPT ![c] = NULL]
    /\ bin' = Given(IF size[c] = SMALL THEN kmalloc_dllist_remove_intern(bin, c)
                    ELSE kmalloc_tree_remove(bin, c), c)

TakeSmall ==
    /\ bin.sbin # NULL
    /\ size' = [size EXCEPT ![bin.sbin] = NULL]
    /\ bin' = Given(kmalloc_dllist_remove(bin), bin.sbin)

Next ==
    \/ \E c \in Chunks, s \in TreeSizes \cup {SMALL} : Bin(c, s)
    \/ \E c \in Chunks : Unbin(c)
    \/ TakeSmall

Spec == Init /\ [][Next]_vars

---------------------------------------------------------------------------
Subtree(b, c) ==
    LET below[d \in Chunks \cup {NULL}] ==
            IF d = NULL THEN {} ELSE {d} \cup below[b.left[d]] \cup below[b.right[d]]
    IN  below[c]

(* The chunks reached from c along next.                                   *)
RingOf(b, c) ==
    LET along[n \in 1 .. Cardinality(Chunks)] ==
            IF n = 1 THEN {c}
            ELSE along[n - 1] \cup {b.next[d] : d \in along[n - 1]}
    IN  along[Cardinality(Chunks)]

IsRing(b, set) == \A c \in set : RingOf(b, c) = set /\ b.prev[b.next[c]] = c

(* The small bin is a ring of exactly the chunks that were put in it.      *)
SmallRing ==
    /\ Small = {} <=> bin.sbin = NULL
    /\ Small # {} => bin.sbin \in Small
    /\ IsRing(bin, Small)

(* Every chunk that was inserted is in the tree bin once: each size has    *)
(* one node, whose ring are the chunks of that size; parents and children  *)
(* agree, and only the head of a ring has a place in the tree.             *)
TreeExact ==
    LET nodes == Subtree(bin, bin.root)
    IN  /\ {size[c] : c \in nodes} = {size[c] : c \in Large}
        /\ \A c, d \in nodes : size[c] = size[d] => c = d
        /\ \A c \in nodes : IsRing(bin, {d \in Large : size[d] = size[c]})
        /\ \A c \in nodes : \A d \in {bin.left[c], bin.right[c]} \ {NULL} : bin.parent[d] = c
        /\ \A c \in Large : (c = bin.root \/ is_in_tree(bin, c)) <=> c \in nodes
        /\ bin.root # NULL => bin.parent[bin.root] = NULL

(* What the allocator relies on: a search finds a chunk that is large      *)
(* enough whenever there is one, of exactly the wanted size if there is    *)
(* one, and the smallest chunk is the smallest.                            *)
TreeSearch ==
    /\ \A s \in TreeSizes :
           LET found == kmalloc_tree_get_best_fit(bin, s)
               fits == {c \in Large : size[c] >= s}
           IN  IF fits = {} THEN found = NULL
               ELSE /\ found \in fits
                    /\ s \in {size[c] : c \in fits} => size[found] = s
    /\ bin.root # NULL =>
           LET found == kmalloc_tree_get_smallest(bin, bin.root)
           IN  \A c \in Large : size[found] <= size[c]
============================================================================
