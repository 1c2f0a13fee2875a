--------------------------- MODULE MemoryProofs ---------------------------
(***************************************************************************)
(* Proofs about module Memory: every frame has one owner, the page stack   *)
(* is backed by its own frames, the heap is mapped exactly, and an         *)
(* allocation is refused only when the frames have run out.                *)
(***************************************************************************)
EXTENDS Memory, BasicLemmas, FiniteSetTheorems

AllFrames == Frames \cup DeviceFrames
StackPages == 0 .. STACK_PAGES - 1
Slots == 0 .. STACK_PAGES * SLOTS - 1
HeapPages == HEAP_PAGE .. LastPage

---------------------------------------------------------------------------
(* The page stack by itself: its type, StackBacked for any stack, and that *)
(* no frame is in it twice.                                                *)
Stack == [depth : 0 .. STACK_PAGES * SLOTS,
          map : [StackPages -> Frames \cup {NULL}],
          slot : [Slots -> Frames \cup {NULL}]]

Backed(ps) ==
    /\ \A k \in 0 .. ps.depth - 1 : ps.map[k \div SLOTS] # NULL /\ ps.slot[k] \in Frames
    /\ \A p \in StackPages : ps.map[p] # NULL => p * SLOTS <= ps.depth

Distinct(ps) ==
    /\ \A j, k \in 0 .. ps.depth - 1 : ps.slot[j] = ps.slot[k] => j = k
    /\ \A p, q \in StackPages : ps.map[p] = ps.map[q] /\ ps.map[p] # NULL => p = q
    /\ \A k \in 0 .. ps.depth - 1, p \in StackPages : ps.slot[k] # ps.map[p]

StackOK(ps) == ps \in Stack /\ Backed(ps) /\ Distinct(ps)

OnStack(ps, f) ==
    (\E k \in 0 .. ps.depth - 1 : ps.slot[k] = f) \/ (\E p \in StackPages : ps.map[p] = f)

---------------------------------------------------------------------------
(* The inductive invariant.                                                *)
FrameTypeOK ==
    /\ pde \in [Tables -> Frames \cup {IMAGE, LARGE, NULL}]
    /\ pte \in [Pages -> AllFrames \cup {IMAGE, NULL}]
    /\ \A v \in UserPages : pte[v] # IMAGE
    /\ \A v \in HeapPages : pte[v] \in Frames \cup {NULL}
    /\ held \subseteq AllFrames /\ todo \subseteq Frames

NumberTypeOK ==
    kernel_heap_size \in Nat /\ page \in Int /\ goal \in Int /\ amount \in Int

IsTable(dir, f) == \E t \in Tables : dir[t] = f
IsMapped(tab, f) == \E v \in Pages : tab[v] = f

(* Each frame is in exactly one of the five places.                        *)
OwnedOnce(ps, dir, tab, h, td) ==
    /\ \A t, u \in Tables : dir[t] = dir[u] /\ dir[t] \in Frames => t = u
    /\ \A u, v \in Pages : tab[u] = tab[v] /\ tab[u] \in AllFrames => u = v
    /\ h \cap td = {}
    /\ \A f \in AllFrames :
          /\ OnStack(ps, f) \/ IsTable(dir, f) \/ IsMapped(tab, f) \/ f \in h \cup td
          /\ OnStack(ps, f) => ~IsTable(dir, f) /\ ~IsMapped(tab, f) /\ f \notin h \cup td
          /\ IsTable(dir, f) => ~IsMapped(tab, f) /\ f \notin h \cup td
          /\ IsMapped(tab, f) => f \notin h \cup td

(* A mapped page has a page table, 4 MB pages map nothing of the kernel,   *)
(* and memory_init keeps them to its end.                                  *)
TableInv ==
    /\ \A v \in Pages : pte[v] # NULL => pde[PTABLE_PDE_NUM(v)] \notin {NULL, LARGE}
    /\ \A t \in Tables : pde[t] = LARGE => t < PTABLE_PDE_NUM(KERNEL_PAGE)
    /\ pc = "init" => \A t \in Tables : t < PTABLE_PDE_NUM(KERNEL_PAGE) => pde[t] = LARGE

FrameInv == StackOK(pstack) /\ OwnedOnce(pstack, pde, pte, held, todo) /\ TableInv

(* How far the heap is mapped, also in the middle of a call.               *)
MappedTo(tab, n) == \A v \in HeapPages : tab[v] # NULL <=> v <= n

HeapInv ==
    /\ kernel_heap_size >= KERNEL_INITIAL_HEAP_SIZE /\ heap_end < KERNEL_HEAP_LIMIT
    /\ pc = "init" => page \in HEAP_PAGE .. EndPage(heap_end) + 1 /\ MappedTo(pte, page - 1)
    /\ pc = "idle" => MappedTo(pte, EndPage(heap_end))
    /\ pc = "grow" =>
          /\ amount > 0 /\ heap_end + amount < KERNEL_HEAP_LIMIT
          /\ goal = EndPage(heap_end + amount)
          /\ page \in EndPage(heap_end) + 1 .. goal + 1 /\ MappedTo(pte, page - 1)
    /\ pc = "rollback" => page \in EndPage(heap_end) .. LastPage /\ MappedTo(pte, page)
    /\ pc = "shrink" =>
          /\ amount > 0 /\ kernel_heap_size - amount >= KERNEL_INITIAL_HEAP_SIZE
          /\ goal = EndPage(heap_end - amount)
          /\ page \in goal .. EndPage(heap_end) /\ MappedTo(pte, page)

MemoryInv == FrameTypeOK /\ NumberTypeOK /\ FrameInv /\ HeapInv

---------------------------------------------------------------------------
(* The page stack.                                                         *)
LEMMA StackConstants ==
    /\ SLOTS \in Nat \ {0} /\ STACK_PAGES \in Nat \ {0} /\ STACK_PAGES * SLOTS \in Nat \ {0}
    /\ NULL \notin Frames /\ 0 \in StackPages
  BY MemoryAssumption DEF StackPages

LEMMA StackTypes ==
    ASSUME NEW ps \in Stack
    PROVE  /\ ps.depth \in 0 .. STACK_PAGES * SLOTS /\ ps.depth \in Nat
           /\ ps.map \in [StackPages -> Frames \cup {NULL}]
           /\ ps.slot \in [Slots -> Frames \cup {NULL}]
           /\ ps = [depth |-> ps.depth, map |-> ps.map, slot |-> ps.slot]
           /\ \A k \in 0 .. ps.depth - 1 : k \in Slots
  BY StackConstants DEF Stack, Slots

(* The page of an entry.                                                   *)
LEMMA SlotPage ==
    ASSUME NEW k \in Slots
    PROVE  k \div SLOTS \in StackPages
  <1>1. k \in Nat /\ k < STACK_PAGES * SLOTS /\ SLOTS \in Nat \ {0} /\ STACK_PAGES \in Int
    BY StackConstants DEF Slots
  <1>2. k < STACK_PAGES * SLOTS <=> k \div SLOTS < STACK_PAGES
    BY <1>1, DivLess
  <1>3. k \div SLOTS \in Nat
    BY <1>1, DivBounds
  <1> QED
    BY <1>1, <1>2, <1>3 DEF StackPages

(* The entry at pstack_pointer lies in the next page, which is a page of   *)
(* the stack unless it is full, and at a border the entries lie below it.  *)
LEMMA NextPageFacts ==
    ASSUME NEW ps \in Stack
    PROVE  /\ NextPage(ps) \in Nat
           /\ NextPage(ps) * SLOTS <= ps.depth
           /\ ~StackFull(ps) => NextPage(ps) \in StackPages /\ ps.depth \in Slots
           /\ AtBorder(ps) => /\ NextPage(ps) * SLOTS = ps.depth
                              /\ \A k \in 0 .. ps.depth - 1 : k \div SLOTS < NextPage(ps)
           /\ ~AtBorder(ps) => ps.depth > 0 /\ (ps.depth - 1) \div SLOTS = NextPage(ps)
  <1>1. ps.depth \in 0 .. STACK_PAGES * SLOTS /\ ps.depth \in Nat
    BY StackTypes
  <1> DEFINE d == ps.depth
             q == NextPage(ps)
  <1>2. q \in Nat /\ q * SLOTS <= d /\ d < q * SLOTS + SLOTS /\ d % SLOTS = d - q * SLOTS
    BY <1>1, DivBounds, StackConstants DEF NextPage
  <1>3. ASSUME ~StackFull(ps) PROVE q \in StackPages /\ d \in Slots
    <2>1. d \in Slots
      BY <1>1, <1>3, StackConstants DEF StackFull, Slots
    <2> QED
      BY <2>1, SlotPage DEF NextPage
  <1>4. ASSUME AtBorder(ps)
        PROVE  q * SLOTS = d /\ \A k \in 0 .. d - 1 : k \div SLOTS < q
    <2>1. q * SLOTS = d
      BY <1>1, <1>4, DivExact, StackConstants DEF AtBorder, NextPage
    <2>2. ASSUME NEW k \in 0 .. d - 1 PROVE k \div SLOTS < q
      <3>1. k \in Nat /\ k < q * SLOTS
        BY <1>1, <2>1
      <3> HIDE DEF q
      <3> QED
        BY <3>1, <1>2, DivLess, StackConstants
    <2> QED
      BY <2>1, <2>2
  <1>5. ASSUME ~AtBorder(ps) PROVE d > 0 /\ (d - 1) \div SLOTS = q
    <2>1. d % SLOTS # 0
      BY <1>5 DEF AtBorder
    <2> HIDE DEF q
    <2>2. q * SLOTS \in Int /\ d # q * SLOTS
      BY <1>2, <2>1, <1>1, StackConstants
    <2>3. q * SLOTS >= 0
      BY <1>2, StackConstants
    <2>4. d - 1 \in Nat /\ q * SLOTS <= d - 1 /\ d - 1 < q * SLOTS + SLOTS
      BY <1>1, <1>2, <2>2, <2>3, StackConstants
    <2>5. (d - 1) \div SLOTS = q
      <3> DEFINE n == d - 1
      <3>1. n \in Nat /\ q * SLOTS <= n /\ n < q * SLOTS + SLOTS
        BY <2>4
      <3>2. SLOTS \in Nat \ {0} /\ q \in Int
        BY <1>2, StackConstants
      <3> HIDE DEF n, d
      <3>3. n \div SLOTS = q
        BY <3>1, <3>2, DivUnique
      <3> QED
        BY <3>3 DEF n
    <2> QED
      BY <2>4, <2>5, <1>1
  <1> QED
    BY <1>2, <1>3, <1>4, <1>5

(* A stack without repetitions is not full while a frame is elsewhere.     *)
LEMMA RoomOnStack ==
    ASSUME NEW ps, StackOK(ps), NEW f \in Frames, ~OnStack(ps, f)
    PROVE  ~StackFull(ps)
  <1>1. ps \in Stack /\ ps.depth \in Nat
    BY StackTypes DEF StackOK
  <1> DEFINE D == 0 .. ps.depth - 1
             F == Frames \ {f}
             e == [k \in D |-> ps.slot[k]]
  <1>2. e \in [D -> F] /\ \A j, k \in D : e[j] = e[k] => j = k
    BY DEF StackOK, Backed, Distinct, OnStack
  <1>3. e \in Injection(D, F)
    BY <1>2 DEF Injection, IsInjective
  <1>4. IsFiniteSet(Frames) /\ Cardinality(Frames) <= STACK_PAGES * SLOTS
    BY MemoryAssumption
  <1>5. IsFiniteSet(F) /\ Cardinality(F) = Cardinality(Frames) - 1 /\ Cardinality(Frames) \in Nat
    BY <1>4, FS_RemoveElement, FS_CardinalityType
  <1>6. Cardinality(D) <= Cardinality(F)
    BY <1>3, <1>5, FS_Injection
  <1>7. Cardinality(D) = ps.depth
    BY <1>1, FS_Interval
  <1> QED
    BY <1>1, <1>4, <1>5, <1>6, <1>7, StackConstants DEF StackFull

(* The two changes of pop without their conditions, as MapNext and Write   *)
(* are those of push.                                                      *)
Unmap(ps) == [ps EXCEPT !.map = [@ EXCEPT ![NextPage(ps)] = NULL]]
Drop(ps) == [ps EXCEPT !.depth = @ - 1]

(* pstack_push of a frame that the stack does not hold yet.                *)
LEMMA MapNextKeeps ==
    ASSUME NEW ps, StackOK(ps), NEW f \in Frames, ~OnStack(ps, f),
           ~StackFull(ps), AtBorder(ps), ~NextMapped(ps)
    PROVE  /\ StackOK(MapNext(ps, f))
           /\ \A g \in Frames : OnStack(MapNext(ps, f), g) <=> OnStack(ps, g) \/ g = f
  <1> DEFINE d == ps.depth
             q == NextPage(ps)
             n == MapNext(ps, f)
             D == 0 .. d - 1
  <1>1. /\ ps \in Stack /\ d \in Nat /\ d \in 0 .. STACK_PAGES * SLOTS
        /\ ps.map \in [StackPages -> Frames \cup {NULL}]
        /\ ps.slot \in [Slots -> Frames \cup {NULL}]
        /\ ps = [depth |-> ps.depth, map |-> ps.map, slot |-> ps.slot]
        /\ \A k \in D : k \in Slots
    BY StackTypes DEF StackOK
  <1>2. /\ q \in StackPages /\ q \in Nat /\ q * SLOTS = d
        /\ \A k \in D : k \div SLOTS < q
    BY <1>1, NextPageFacts
  <1>3. ps.map[q] = NULL
    BY DEF NextMapped
  <1>4. /\ n.depth = d
        /\ n.map = [ps.map EXCEPT ![q] = f]
        /\ n.slot = [k \in Slots |-> IF k \div SLOTS = q THEN NULL ELSE ps.slot[k]]
        /\ n = [depth |-> n.depth, map |-> n.map, slot |-> n.slot]
    BY <1>1 DEF MapNext
  <1> HIDE DEF n, q
  <1>5. n.map[q] = f /\ \A p \in StackPages : p # q => n.map[p] = ps.map[p]
    BY <1>1, <1>2, <1>4
  <1>6. \A k \in D : k \div SLOTS \in StackPages /\ k \div SLOTS # q
    BY <1>1, <1>2, SlotPage DEF StackPages
  <1>7. \A k \in D : n.slot[k] = ps.slot[k]
    BY <1>1, <1>4, <1>6
  <1>8. n \in Stack
    <2>1. n.map \in [StackPages -> Frames \cup {NULL}]
      BY <1>1, <1>4
    <2>2. n.slot \in [Slots -> Frames \cup {NULL}]
      BY <1>1, <1>4
    <2> QED
      BY <1>1, <1>4, <2>1, <2>2 DEF Stack
  <1>9. Backed(n)
    <2>1. \A k \in D : n.map[k \div SLOTS] # NULL /\ n.slot[k] \in Frames
      BY <1>5, <1>6, <1>7 DEF StackOK, Backed
    <2>2. \A p \in StackPages : n.map[p] # NULL => p * SLOTS <= d
      BY <1>1, <1>2, <1>5 DEF StackOK, Backed
    <2> QED
      BY <1>4, <2>1, <2>2 DEF Backed
  <1>10. /\ \A k \in D : ps.slot[k] # f
         /\ \A p \in StackPages : ps.map[p] # f
    BY DEF OnStack
  <1>11. Distinct(n)
    <2>1. /\ \A j, k \in D : ps.slot[j] = ps.slot[k] => j = k
          /\ \A p, r \in StackPages : ps.map[p] = ps.map[r] /\ ps.map[p] # NULL => p = r
          /\ \A k \in D, p \in StackPages : ps.slot[k] # ps.map[p]
      BY DEF StackOK, Distinct
    <2>2. \A p, r \in StackPages : n.map[p] = n.map[r] /\ n.map[p] # NULL => p = r
      BY <1>5, <1>10, <2>1
    <2>3. \A k \in D, p \in StackPages : n.slot[k] # n.map[p]
      BY <1>5, <1>7, <1>10, <2>1
    <2> QED
      BY <1>4, <1>7, <2>1, <2>2, <2>3 DEF Distinct
  <1>12. ASSUME NEW g \in Frames
         PROVE  OnStack(n, g) <=> OnStack(ps, g) \/ g = f
    <2>1. (\E k \in 0 .. n.depth - 1 : n.slot[k] = g) <=> (\E k \in D : ps.slot[k] = g)
      BY <1>4, <1>7
    <2>2. (\E p \in StackPages : n.map[p] = g) <=> (\E p \in StackPages : ps.map[p] = g) \/ g = f
      BY <1>2, <1>3, <1>5, StackConstants
    <2> QED
      BY <2>1, <2>2 DEF OnStack
  <1> QED
    BY <1>8, <1>9, <1>11, <1>12 DEF StackOK, n

LEMMA WriteKeeps ==
    ASSUME NEW ps, StackOK(ps), NEW f \in Frames, ~OnStack(ps, f),
           ~StackFull(ps), ~AtBorder(ps) \/ NextMapped(ps)
    PROVE  /\ StackOK(Write(ps, f))
           /\ \A g \in Frames : OnStack(Write(ps, f), g) <=> OnStack(ps, g) \/ g = f
  <1> DEFINE d == ps.depth
             q == NextPage(ps)
             n == Write(ps, f)
             D == 0 .. d - 1
             E == 0 .. d
  <1>1. /\ ps \in Stack /\ d \in Nat /\ d \in 0 .. STACK_PAGES * SLOTS
        /\ ps.map \in [StackPages -> Frames \cup {NULL}]
        /\ ps.slot \in [Slots -> Frames \cup {NULL}]
        /\ ps = [depth |-> ps.depth, map |-> ps.map, slot |-> ps.slot]
        /\ \A k \in D : k \in Slots
    BY StackTypes DEF StackOK
  <1>2. d \in Slots /\ (~AtBorder(ps) => d > 0 /\ (d - 1) \div SLOTS = q)
    BY <1>1, NextPageFacts
  <1>3. /\ n.depth = d + 1
        /\ n.map = ps.map
        /\ n.slot = [ps.slot EXCEPT ![d] = f]
        /\ n = [depth |-> n.depth, map |-> n.map, slot |-> n.slot]
    BY <1>1 DEF Write
  <1>4. d \div SLOTS = q /\ (d + 1) - 1 = d
    BY <1>1 DEF NextPage
  <1> HIDE DEF n, q
  <1>5. E = D \cup {d} /\ d \notin D
    BY <1>1
  <1>6. n.slot[d] = f /\ \A k \in D : n.slot[k] = ps.slot[k]
    BY <1>1, <1>2, <1>3, <1>5
  <1>7. n \in Stack
    <2>1. d + 1 \in 0 .. STACK_PAGES * SLOTS
      BY <1>1, StackConstants DEF StackFull
    <2>2. n.slot \in [Slots -> Frames \cup {NULL}]
      BY <1>1, <1>3
    <2> QED
      BY <1>1, <1>3, <2>1, <2>2 DEF Stack
  <1>8. Backed(n)
    <2>1. \A k \in D : ps.map[k \div SLOTS] # NULL /\ ps.slot[k] \in Frames
      BY DEF StackOK, Backed
    <2>2. ps.map[q] # NULL
      <3>1. CASE NextMapped(ps)
        BY <3>1 DEF NextMapped, q
      <3>2. CASE ~AtBorder(ps)
        <4>1. d - 1 \in D
          BY <1>1, <1>2, <3>2
        <4> QED
          BY <1>2, <2>1, <3>2, <4>1
      <3> QED
        BY <3>1, <3>2
    <2>3. \A k \in E : n.map[k \div SLOTS] # NULL /\ n.slot[k] \in Frames
      BY <1>3, <1>4, <1>5, <1>6, <2>1, <2>2
    <2>4. \A p \in StackPages : n.map[p] # NULL => p * SLOTS <= d + 1
      <3>1. \A p \in StackPages : p * SLOTS \in Int
        BY StackConstants DEF StackPages
      <3>2. \A p \in StackPages : ps.map[p] # NULL => p * SLOTS <= d
        BY DEF StackOK, Backed
      <3> QED
        BY <1>1, <1>3, <3>1, <3>2
    <2> QED
      BY <1>3, <1>4, <2>3, <2>4 DEF Backed
  <1>9. /\ \A k \in D : ps.slot[k] # f
        /\ \A p \in StackPages : ps.map[p] # f
    BY DEF OnStack
  <1>10. Distinct(n)
    <2>1. /\ \A j, k \in D : ps.slot[j] = ps.slot[k] => j = k
          /\ \A p, r \in StackPages : ps.map[p] = ps.map[r] /\ ps.map[p] # NULL => p = r
          /\ \A k \in D, p \in StackPages : ps.slot[k] # ps.map[p]
      BY DEF StackOK, Distinct
    <2>2. \A j, k \in E : n.slot[j] = n.slot[k] => j = k
      BY <1>5, <1>6, <1>9, <2>1
    <2>3. \A k \in E, p \in StackPages : n.slot[k] # n.map[p]
      BY <1>3, <1>5, <1>6, <1>9, <2>1
    <2> QED
      BY <1>3, <1>4, <2>1, <2>2, <2>3 DEF Distinct
  <1>11. \A g \in Frames : OnStack(n, g) <=> OnStack(ps, g) \/ g = f
    <2>1. \A g \in Frames : (\E k \in E : n.slot[k] = g) <=> (\E k \in D : ps.slot[k] = g) \/ g = f
      BY <1>5, <1>6
    <2> QED
      BY <1>3, <1>4, <2>1 DEF OnStack
  <1> QED
    BY <1>7, <1>8, <1>10, <1>11 DEF StackOK, n

LEMMA PushKeeps ==
    ASSUME NEW ps, StackOK(ps), NEW f \in Frames, ~OnStack(ps, f)
    PROVE  /\ StackOK(pstack_push(ps, f).ps)
           /\ \A g \in Frames : OnStack(pstack_push(ps, f).ps, g) <=> OnStack(ps, g) \/ g = f
  <1>1. ~StackFull(ps)
    BY RoomOnStack
  <1>2. CASE AtBorder(ps) /\ ~NextMapped(ps)
    <2>1. pstack_push(ps, f).ps = MapNext(ps, f)
      BY <1>1, <1>2 DEF pstack_push
    <2> QED
      BY <1>1, <1>2, <2>1, MapNextKeeps
  <1>3. CASE ~(AtBorder(ps) /\ ~NextMapped(ps))
    <2>1. pstack_push(ps, f).ps = Write(ps, f)
      BY <1>1, <1>3 DEF pstack_push
    <2> QED
      BY <1>1, <1>3, <2>1, WriteKeeps
  <1> QED
    BY <1>2, <1>3

(* pstack_pop.                                                             *)
LEMMA UnmapKeeps ==
    ASSUME NEW ps, StackOK(ps), AtBorder(ps), NextMapped(ps)
    PROVE  /\ StackOK(Unmap(ps))
           /\ ps.map[NextPage(ps)] \in Frames
           /\ OnStack(ps, ps.map[NextPage(ps)])
           /\ \A g \in Frames : OnStack(Unmap(ps), g) <=> OnStack(ps, g) /\ g # ps.map[NextPage(ps)]
  <1> DEFINE d == ps.depth
             q == NextPage(ps)
             n == Unmap(ps)
             D == 0 .. d - 1
  <1>1. /\ ps \in Stack /\ d \in Nat /\ d \in 0 .. STACK_PAGES * SLOTS
        /\ ps.map \in [StackPages -> Frames \cup {NULL}]
        /\ ps.slot \in [Slots -> Frames \cup {NULL}]
        /\ ps = [depth |-> ps.depth, map |-> ps.map, slot |-> ps.slot]
        /\ \A k \in D : k \in Slots
    BY StackTypes DEF StackOK
  <1>2. /\ q \in StackPages /\ q \in Nat
        /\ \A k \in D : k \div SLOTS < q
        /\ ps.map[q] # NULL
    BY <1>1, NextPageFacts DEF NextMapped
  <1>3. /\ n.depth = d
        /\ n.map = [ps.map EXCEPT ![q] = NULL]
        /\ n.slot = ps.slot
        /\ n = [depth |-> n.depth, map |-> n.map, slot |-> n.slot]
    BY <1>1 DEF Unmap
  <1> HIDE DEF n, q
  <1>4. n.map[q] = NULL /\ \A p \in StackPages : p # q => n.map[p] = ps.map[p]
    BY <1>1, <1>2, <1>3
  <1>5. \A k \in D : k \div SLOTS \in StackPages /\ k \div SLOTS # q
    BY <1>1, <1>2, SlotPage DEF StackPages
  <1>6. n \in Stack
    <2>1. n.map \in [StackPages -> Frames \cup {NULL}]
      BY <1>1, <1>3
    <2> QED
      BY <1>1, <1>3, <2>1 DEF Stack
  <1>7. Backed(n)
    BY <1>3, <1>4, <1>5 DEF StackOK, Backed
  <1>8. /\ \A j, k \in D : ps.slot[j] = ps.slot[k] => j = k
        /\ \A p, r \in StackPages : ps.map[p] = ps.map[r] /\ ps.map[p] # NULL => p = r
        /\ \A k \in D, p \in StackPages : ps.slot[k] # ps.map[p]
        /\ \A k \in D : ps.slot[k] \in Frames
    BY DEF StackOK, Distinct, Backed
  <1>9. Distinct(n)
    <2>1. \A p, r \in StackPages : n.map[p] = n.map[r] /\ n.map[p] # NULL => p = r
      BY <1>4, <1>8
    <2>2. \A k \in D, p \in StackPages : n.slot[k] # n.map[p]
      BY <1>3, <1>4, <1>8, StackConstants
    <2> QED
      BY <1>3, <1>8, <2>1, <2>2 DEF Distinct
  <1>10. ps.map[q] \in Frames /\ OnStack(ps, ps.map[q])
    BY <1>1, <1>2 DEF OnStack
  <1>11. \A g \in Frames : OnStack(n, g) <=> OnStack(ps, g) /\ g # ps.map[q]
    <2> SUFFICES ASSUME NEW g \in Frames PROVE OnStack(n, g) <=> OnStack(ps, g) /\ g # ps.map[q]
      OBVIOUS
    <2>1. (\E p \in StackPages : n.map[p] = g)
            <=> (\E p \in StackPages : ps.map[p] = g) /\ g # ps.map[q]
      BY <1>2, <1>4, <1>8, StackConstants
    <2>2. (\E k \in D : ps.slot[k] = g) => g # ps.map[q]
      BY <1>2, <1>8
    <2> QED
      BY <1>3, <2>1, <2>2 DEF OnStack
  <1> QED
    BY <1>6, <1>7, <1>9, <1>10, <1>11 DEF StackOK, n, q

LEMMA DropKeeps ==
    ASSUME NEW ps, StackOK(ps), ~(AtBorder(ps) /\ NextMapped(ps)), ps.depth # 0
    PROVE  /\ StackOK(Drop(ps))
           /\ ps.slot[ps.depth - 1] \in Frames
           /\ OnStack(ps, ps.slot[ps.depth - 1])
           /\ \A g \in Frames : OnStack(Drop(ps), g) <=> OnStack(ps, g) /\ g # ps.slot[ps.depth - 1]
  <1> DEFINE d == ps.depth
             n == Drop(ps)
             D == 0 .. d - 1
             E == 0 .. (d - 1) - 1
             f == ps.slot[d - 1]
  <1>1. /\ ps \in Stack /\ d \in Nat /\ d \in 0 .. STACK_PAGES * SLOTS
        /\ ps.map \in [StackPages -> Frames \cup {NULL}]
        /\ ps.slot \in [Slots -> Frames \cup {NULL}]
        /\ ps = [depth |-> ps.depth, map |-> ps.map, slot |-> ps.slot]
    BY StackTypes DEF StackOK
  <1>2. n.depth = d - 1 /\ n.map = ps.map /\ n.slot = ps.slot
        /\ n = [depth |-> n.depth, map |-> n.map, slot |-> n.slot]
    BY <1>1 DEF Drop
  <1> HIDE DEF n
  <1>3. D = E \cup {d - 1} /\ d - 1 \notin E /\ d - 1 \in D
    BY <1>1
  <1>4. /\ \A j, k \in D : ps.slot[j] = ps.slot[k] => j = k
        /\ \A p, r \in StackPages : ps.map[p] = ps.map[r] /\ ps.map[p] # NULL => p = r
        /\ \A k \in D, p \in StackPages : ps.slot[k] # ps.map[p]
        /\ \A k \in D : ps.map[k \div SLOTS] # NULL /\ ps.slot[k] \in Frames
        /\ \A p \in StackPages : ps.map[p] # NULL => p * SLOTS <= d
    BY DEF StackOK, Distinct, Backed
  <1>5. n \in Stack
    <2>1. d - 1 \in 0 .. STACK_PAGES * SLOTS
      BY <1>1, StackConstants
    <2> QED
      BY <1>1, <1>2, <2>1 DEF Stack
  <1>6. ASSUME NEW p \in StackPages, ps.map[p] # NULL PROVE p * SLOTS <= d - 1
    <2>1. p \in Nat /\ p <= STACK_PAGES - 1 /\ p * SLOTS \in Int
      BY StackConstants DEF StackPages
    <2>2. SUFFICES ASSUME p * SLOTS = d PROVE FALSE
      BY <1>1, <1>4, <1>6, <2>1
    <2>3. SLOTS \in Nat \ {0} /\ p * SLOTS <= d /\ d < p * SLOTS + SLOTS
      BY <1>1, <2>1, <2>2, StackConstants
    <2>4. d \div SLOTS = p
      BY <1>1, <2>1, <2>3, DivUnique
    <2>5. d % SLOTS = d - (d \div SLOTS) * SLOTS
      BY <1>1, <2>3, DivBounds
    <2>6. AtBorder(ps)
      BY <1>1, <2>1, <2>2, <2>4, <2>5 DEF AtBorder
    <2>7. p * SLOTS < STACK_PAGES * SLOTS
      <3>1. p * SLOTS + SLOTS <= STACK_PAGES * SLOTS
        BY <2>1, StackConstants, TimesMonotone
      <3> QED
        BY <2>1, <3>1, StackConstants
    <2>8. NextMapped(ps)
      BY <1>1, <1>6, <2>2, <2>4, <2>7, StackConstants DEF NextMapped, StackFull, NextPage
    <2> QED
      BY <2>6, <2>8
  <1>7. Backed(n)
    BY <1>2, <1>3, <1>4, <1>6 DEF Backed
  <1>8. Distinct(n)
    BY <1>2, <1>3, <1>4 DEF Distinct
  <1>9. f \in Frames /\ OnStack(ps, f)
    BY <1>3, <1>4 DEF OnStack
  <1>10. \A g \in Frames : OnStack(n, g) <=> OnStack(ps, g) /\ g # f
    <2> SUFFICES ASSUME NEW g \in Frames PROVE OnStack(n, g) <=> OnStack(ps, g) /\ g # f
      OBVIOUS
    <2>1. (\E k \in E : ps.slot[k] = g) <=> (\E k \in D : ps.slot[k] = g) /\ g # f
      BY <1>3, <1>4
    <2>2. (\E p \in StackPages : ps.map[p] = g) => g # f
      BY <1>3, <1>4
    <2> QED
      BY <1>2, <2>1, <2>2 DEF OnStack
  <1> QED
    BY <1>5, <1>7, <1>8, <1>9, <1>10 DEF StackOK, n

LEMMA PopKeeps ==
    ASSUME NEW ps, StackOK(ps), ~pstack_pop(ps).error
    PROVE  /\ StackOK(pstack_pop(ps).ps)
           /\ pstack_pop(ps).frame \in Frames /\ OnStack(ps, pstack_pop(ps).frame)
           /\ \A g \in Frames :
                 OnStack(pstack_pop(ps).ps, g) <=> OnStack(ps, g) /\ g # pstack_pop(ps).frame
  <1>1. CASE AtBorder(ps) /\ NextMapped(ps)
    <2>1. pstack_pop(ps).ps = Unmap(ps) /\ pstack_pop(ps).frame = ps.map[NextPage(ps)]
      BY <1>1 DEF pstack_pop, Unmap
    <2> QED
      BY <1>1, <2>1, UnmapKeeps
  <1>2. CASE ~(AtBorder(ps) /\ NextMapped(ps))
    <2>1. ps.depth # 0
      BY <1>2 DEF pstack_pop
    <2>2. pstack_pop(ps).ps = Drop(ps) /\ pstack_pop(ps).frame = ps.slot[ps.depth - 1]
      BY <1>2, <2>1 DEF pstack_pop, Drop
    <2> QED
      BY <1>2, <2>1, <2>2, DropKeeps
  <1> QED
    BY <1>1, <1>2

---------------------------------------------------------------------------
(* Pages and page tables.                                                  *)
LEMMA PageConstants ==
    /\ PAGE_SIZE \in Nat \ {0} /\ PTE_MAX \in Nat \ {0} /\ WORD \in Nat
    /\ KERNEL_HEAP_LIMIT \in Nat /\ KERNEL_INITIAL_HEAP_SIZE \in Nat \ {0}
    /\ KERNEL_PAGE \in Nat /\ HEAP_PAGE \in Nat /\ KERNEL_PAGE <= HEAP_PAGE
    /\ HEAP_PAGE < KERNEL_PAGE + PTE_MAX
    /\ kernel_heap_addr \in Nat
    /\ kernel_heap_addr + KERNEL_INITIAL_HEAP_SIZE < KERNEL_HEAP_LIMIT
    /\ (LastPage + 1) * PAGE_SIZE = KERNEL_HEAP_LIMIT
    /\ LastPage \in Nat /\ HEAP_PAGE <= LastPage
    /\ IMAGE \notin AllFrames /\ LARGE \notin AllFrames /\ NULL \notin AllFrames
    /\ IMAGE # LARGE /\ IMAGE # NULL /\ LARGE # NULL /\ Frames \cap DeviceFrames = {}
  <1>1. /\ PAGE_SIZE \in Nat \ {0} /\ PTE_MAX \in Nat \ {0} /\ WORD \in Nat
        /\ KERNEL_HEAP_LIMIT \in Nat /\ KERNEL_INITIAL_HEAP_SIZE \in Nat \ {0}
        /\ KERNEL_PAGE \in Nat /\ HEAP_PAGE \in Nat /\ KERNEL_PAGE <= HEAP_PAGE
        /\ HEAP_PAGE < KERNEL_PAGE + PTE_MAX
        /\ KERNEL_HEAP_LIMIT % (PTE_MAX * PAGE_SIZE) = 0
        /\ HEAP_PAGE * PAGE_SIZE + KERNEL_INITIAL_HEAP_SIZE < KERNEL_HEAP_LIMIT
    BY MemoryAssumption
  <1>2. kernel_heap_addr \in Nat /\ kernel_heap_addr + KERNEL_INITIAL_HEAP_SIZE < KERNEL_HEAP_LIMIT
    BY <1>1 DEF kernel_heap_addr
  <1> DEFINE L == KERNEL_HEAP_LIMIT
             T == PTE_MAX * PAGE_SIZE
             q == L \div T
             n == q * PTE_MAX
  <1>3. T \in Nat \ {0}
    BY <1>1
  <1>4. q \in Nat /\ q * T = L
    <2> HIDE DEF T
    <2> QED
      BY <1>1, <1>3, DivBounds, DivExact DEF T
  <1> HIDE DEF q
  <1>5. n \in Nat /\ n * PAGE_SIZE = L
    BY <1>1, <1>4
  <1> HIDE DEF n
  <1>6. L \div PAGE_SIZE = n
    <2>1. n * PAGE_SIZE <= L /\ L < n * PAGE_SIZE + PAGE_SIZE
      BY <1>1, <1>5
    <2> QED
      BY <1>1, <1>5, <2>1, DivUnique
  <1>7. LastPage + 1 = n /\ LastPage \in Int
    BY <1>5, <1>6 DEF LastPage
  <1>8. HEAP_PAGE < n
    <2>1. HEAP_PAGE * PAGE_SIZE \in Nat /\ HEAP_PAGE * PAGE_SIZE < n * PAGE_SIZE
      BY <1>1, <1>5
    <2>2. SUFFICES ASSUME n <= HEAP_PAGE PROVE FALSE
      BY <1>1, <1>5
    <2>3. CASE n = HEAP_PAGE
      BY <2>1, <2>3
    <2>4. CASE n < HEAP_PAGE
      <3>1. n * PAGE_SIZE + PAGE_SIZE <= HEAP_PAGE * PAGE_SIZE
        BY <1>1, <1>5, <2>4, TimesMonotone
      <3> QED
        BY <1>1, <1>5, <2>1, <3>1
    <2> QED
      BY <1>1, <1>5, <2>2, <2>3, <2>4
  <1>9. /\ IMAGE \notin AllFrames /\ LARGE \notin AllFrames /\ NULL \notin AllFrames
        /\ IMAGE # LARGE /\ IMAGE # NULL /\ LARGE # NULL /\ Frames \cap DeviceFrames = {}
    BY MemoryAssumption DEF AllFrames
  <1> QED
    BY <1>1, <1>2, <1>5, <1>7, <1>8, <1>9

(* Which pages are used by whom, and the page tables they are in.          *)
LEMMA PageFacts ==
    /\ UserPages \subseteq Pages /\ HeapPages \subseteq Pages
    /\ UserPages \cap HeapPages = {}
    /\ \A v \in Pages : PTABLE_PDE_NUM(v) \in Tables
    /\ \A v \in HeapPages : PTABLE_PDE_NUM(v) >= PTABLE_PDE_NUM(KERNEL_PAGE)
    /\ \A v \in KERNEL_PAGE .. HEAP_PAGE - 1 : PTABLE_PDE_NUM(v) = PTABLE_PDE_NUM(KERNEL_PAGE)
    /\ Tables \subseteq Nat /\ PTABLE_PDE_NUM(KERNEL_PAGE) \in Nat
  <1>1. UserPages \subseteq Pages /\ HeapPages \subseteq Pages /\ UserPages \cap HeapPages = {}
    BY PageConstants DEF UserPages, HeapPages, Pages
  <1>2. PTE_MAX \in Nat \ {0} /\ LastPage \in Nat /\ KERNEL_PAGE \in Nat
    BY PageConstants
  <1>3. ASSUME NEW v \in Pages PROVE PTABLE_PDE_NUM(v) \in Tables
    <2>1. v \in Nat /\ v <= LastPage
      BY <1>2 DEF Pages
    <2>2. v \div PTE_MAX \in Nat /\ LastPage \div PTE_MAX \in Nat
      BY <1>2, <2>1, DivBounds
    <2>3. v \div PTE_MAX <= LastPage \div PTE_MAX
      BY <1>2, <2>1, DivMonotone
    <2> QED
      BY <2>2, <2>3 DEF PTABLE_PDE_NUM, Tables
  <1>4. ASSUME NEW v \in HeapPages PROVE PTABLE_PDE_NUM(v) >= PTABLE_PDE_NUM(KERNEL_PAGE)
    <2>1. v \in Nat /\ KERNEL_PAGE <= v
      BY PageConstants DEF HeapPages
    <2>2. v \div PTE_MAX \in Nat /\ KERNEL_PAGE \div PTE_MAX \in Nat
      BY <1>2, <2>1, DivBounds
    <2>3. KERNEL_PAGE \div PTE_MAX <= v \div PTE_MAX
      BY <1>2, <2>1, DivMonotone
    <2> QED
      BY <2>2, <2>3 DEF PTABLE_PDE_NUM
  <1>5. ASSUME NEW v \in KERNEL_PAGE .. HEAP_PAGE - 1
        PROVE  PTABLE_PDE_NUM(v) = PTABLE_PDE_NUM(KERNEL_PAGE)
    <2> DEFINE q == KERNEL_PAGE \div PTE_MAX
    <2>1. KERNEL_PAGE % PTE_MAX = 0
      BY MemoryAssumption
    <2>2. q \in Nat /\ q * PTE_MAX = KERNEL_PAGE
      BY <1>2, <2>1, DivBounds, DivExact
    <2> HIDE DEF q
    <2>3. v \in Nat /\ q * PTE_MAX <= v /\ v < q * PTE_MAX + PTE_MAX
      BY <2>2, PageConstants
    <2>4. v \div PTE_MAX = q
      BY <1>2, <2>2, <2>3, DivUnique
    <2> QED
      BY <2>4 DEF PTABLE_PDE_NUM, q
  <1>6. Tables \subseteq Nat /\ PTABLE_PDE_NUM(KERNEL_PAGE) \in Nat
    <2>1. LastPage \div PTE_MAX \in Nat /\ KERNEL_PAGE \div PTE_MAX \in Nat
      BY <1>2, DivBounds
    <2> QED
      BY <2>1 DEF Tables, PTABLE_PDE_NUM
  <1> QED
    BY <1>1, <1>3, <1>4, <1>5, <1>6

(* The last page of a heap that ends at e.                                 *)
LEMMA EndPageFacts ==
    ASSUME NEW e \in Nat \ {0}
    PROVE  EndPage(e) \in Nat /\ \A v \in Int : v <= EndPage(e) <=> v * PAGE_SIZE < e
  <1> DEFINE k == e - 1
             n == EndPage(e)
  <1>1. k \in Nat /\ PAGE_SIZE \in Nat \ {0}
    BY PageConstants
  <1>2. n = k \div PAGE_SIZE
    BY DEF EndPage
  <1> HIDE DEF k, n
  <1>3. n \in Nat
    BY <1>1, <1>2, DivBounds
  <1>4. ASSUME NEW v \in Int PROVE v <= n <=> v * PAGE_SIZE < e
    <2>1. k < v * PAGE_SIZE <=> n < v
      BY <1>1, <1>2, DivLess
    <2>2. v * PAGE_SIZE \in Int
      BY <1>1
    <2> QED
      BY <1>1, <1>3, <2>1, <2>2 DEF k
  <1> QED
    BY <1>3, <1>4 DEF n

LEMMA EndPageBounds ==
    ASSUME NEW e \in Nat, e > kernel_heap_addr, e < KERNEL_HEAP_LIMIT
    PROVE  EndPage(e) \in HeapPages
  <1>1. /\ kernel_heap_addr \in Nat /\ HEAP_PAGE \in Nat /\ LastPage \in Nat
        /\ PAGE_SIZE \in Nat \ {0} /\ KERNEL_HEAP_LIMIT \in Nat
        /\ (LastPage + 1) * PAGE_SIZE = KERNEL_HEAP_LIMIT
    BY PageConstants
  <1>2. e \in Nat \ {0}
    BY <1>1
  <1>3. EndPage(e) \in Nat /\ \A v \in Int : v <= EndPage(e) <=> v * PAGE_SIZE < e
    BY <1>2, EndPageFacts
  <1>4. HEAP_PAGE <= EndPage(e)
    BY <1>1, <1>3 DEF kernel_heap_addr
  <1>5. ~(LastPage + 1 <= EndPage(e))
    <2>1. LastPage + 1 \in Int
      BY <1>1
    <2>2. ~((LastPage + 1) * PAGE_SIZE < e)
      BY <1>1, <1>2
    <2> QED
      BY <1>3, <2>1, <2>2
  <1> QED
    BY <1>1, <1>3, <1>4, <1>5 DEF HeapPages

LEMMA EndPageMonotone ==
    ASSUME NEW d \in Nat \ {0}, NEW e \in Nat \ {0}, d <= e
    PROVE  EndPage(d) <= EndPage(e)
  <1> DEFINE n == EndPage(d)
  <1>1. n \in Nat /\ (n <= n <=> n * PAGE_SIZE < d)
    BY EndPageFacts
  <1>2. n <= EndPage(e) <=> n * PAGE_SIZE < e
    BY <1>1, EndPageFacts
  <1>3. n * PAGE_SIZE \in Int
    BY <1>1, PageConstants
  <1> HIDE DEF n
  <1>4. n <= EndPage(e)
    BY <1>1, <1>2, <1>3
  <1> QED
    BY <1>4 DEF n

---------------------------------------------------------------------------
(* Ownership. A frame on its way from one place to another is in the hand  *)
(* of the code that moves it, which OwnedOnce counts as held: each lemma   *)
(* moves one frame into or out of the hand.                                *)
LEMMA DeviceNotOnStack ==
    ASSUME NEW ps, StackOK(ps), NEW f \in DeviceFrames
    PROVE  ~OnStack(ps, f)
  <1>1. ps.map \in [StackPages -> Frames \cup {NULL}]
    BY StackTypes DEF StackOK
  <1>2. f \notin Frames \cup {NULL}
    BY PageConstants DEF AllFrames
  <1> QED
    BY <1>1, <1>2 DEF StackOK, Backed, OnStack

LEMMA OwnPop ==
    ASSUME NEW ps, NEW ps2, NEW dir, NEW tab, NEW h, NEW td, OwnedOnce(ps, dir, tab, h, td),
           NEW f \in AllFrames, OnStack(ps, f),
           \A g \in AllFrames : OnStack(ps2, g) <=> OnStack(ps, g) /\ g # f
    PROVE  OwnedOnce(ps2, dir, tab, h \cup {f}, td) /\ f \notin h \cup td
  BY DEF OwnedOnce

LEMMA OwnPush ==
    ASSUME NEW ps, NEW ps2, NEW dir, NEW tab, NEW h, NEW td, OwnedOnce(ps, dir, tab, h, td),
           NEW f \in AllFrames, f \in h \cup td,
           \A g \in AllFrames : OnStack(ps2, g) <=> OnStack(ps, g) \/ g = f
    PROVE  OwnedOnce(ps2, dir, tab, h \ {f}, td \ {f})
  BY DEF OwnedOnce

LEMMA OwnMap ==
    ASSUME NEW ps, NEW dir, NEW tab, NEW tab2, NEW h, NEW td, OwnedOnce(ps, dir, tab, h, td),
           NEW f \in AllFrames, f \in h,
           NEW v \in Pages, tab[v] \notin AllFrames, tab2[v] = f,
           \A u \in Pages : u # v => tab2[u] = tab[u]
    PROVE  OwnedOnce(ps, dir, tab2, h \ {f}, td)
  <1>1. \A g \in AllFrames : IsMapped(tab2, g) <=> IsMapped(tab, g) \/ g = f
    BY DEF IsMapped
  <1>2. ~IsMapped(tab, f) /\ f \notin td
    BY DEF OwnedOnce
  <1>3. \A u \in Pages : tab[u] # f
    BY <1>2 DEF IsMapped
  <1>4. \A u, w \in Pages : tab2[u] = tab2[w] /\ tab2[u] \in AllFrames => u = w
    BY <1>3 DEF OwnedOnce
  <1> QED
    BY <1>1, <1>2, <1>4 DEF OwnedOnce

LEMMA OwnUnmap ==
    ASSUME NEW ps, NEW dir, NEW tab, NEW tab2, NEW h, NEW td, OwnedOnce(ps, dir, tab, h, td),
           NEW v \in Pages, tab[v] \in AllFrames, tab2[v] = NULL,
           \A u \in Pages : u # v => tab2[u] = tab[u]
    PROVE  OwnedOnce(ps, dir, tab2, h \cup {tab[v]}, td) /\ tab[v] \notin h \cup td
  <1>0. NULL \notin AllFrames
    BY PageConstants
  <1>1. \A g \in AllFrames : IsMapped(tab2, g) <=> IsMapped(tab, g) /\ g # tab[v]
    BY <1>0 DEF IsMapped, OwnedOnce
  <1>2. IsMapped(tab, tab[v])
    BY DEF IsMapped
  <1>3. \A u, w \in Pages : tab2[u] = tab2[w] /\ tab2[u] \in AllFrames => u = w
    BY <1>0 DEF OwnedOnce
  <1> QED
    BY <1>1, <1>2, <1>3 DEF OwnedOnce

LEMMA OwnTable ==
    ASSUME NEW ps, NEW dir, NEW dir2, NEW tab, NEW h, NEW td, OwnedOnce(ps, dir, tab, h, td),
           NEW f \in Frames, f \in h,
           NEW t \in Tables, dir[t] \notin AllFrames, dir2[t] = f,
           \A u \in Tables : u # t => dir2[u] = dir[u]
    PROVE  OwnedOnce(ps, dir2, tab, h \ {f}, td)
  <1>0. f \in AllFrames /\ dir[t] \notin Frames
    BY DEF AllFrames
  <1>1. \A g \in AllFrames : IsTable(dir2, g) <=> IsTable(dir, g) \/ g = f
    BY <1>0 DEF IsTable
  <1>2. ~IsTable(dir, f) /\ f \notin td
    BY <1>0 DEF OwnedOnce
  <1>3. \A u \in Tables : dir[u] # f
    BY <1>2 DEF IsTable
  <1>4. \A u, w \in Tables : dir2[u] = dir2[w] /\ dir2[u] \in Frames => u = w
    BY <1>3 DEF OwnedOnce
  <1> QED
    BY <1>0, <1>1, <1>2, <1>4 DEF OwnedOnce

(* pstack_pop and pstack_push with the ownership they pass on.             *)
LEMMA PopOwned ==
    ASSUME NEW ps, StackOK(ps), ~pstack_pop(ps).error,
           NEW dir, NEW tab, NEW h, NEW td, OwnedOnce(ps, dir, tab, h, td)
    PROVE  /\ StackOK(pstack_pop(ps).ps)
           /\ pstack_pop(ps).frame \in Frames /\ pstack_pop(ps).frame \notin h \cup td
           /\ OwnedOnce(pstack_pop(ps).ps, dir, tab, h \cup {pstack_pop(ps).frame}, td)
  <1> DEFINE n == pstack_pop(ps).ps
             f == pstack_pop(ps).frame
  <1>1. /\ StackOK(n) /\ f \in Frames /\ OnStack(ps, f)
        /\ \A g \in Frames : OnStack(n, g) <=> OnStack(ps, g) /\ g # f
    BY PopKeeps
  <1> HIDE DEF n, f
  <1>2. f \in AllFrames /\ \A g \in AllFrames : OnStack(n, g) <=> OnStack(ps, g) /\ g # f
    BY <1>1, DeviceNotOnStack DEF AllFrames
  <1>3. OwnedOnce(n, dir, tab, h \cup {f}, td) /\ f \notin h \cup td
    BY <1>1, <1>2, OwnPop
  <1> QED
    BY <1>1, <1>3 DEF n, f

LEMMA PushOwned ==
    ASSUME NEW ps, StackOK(ps), NEW f \in Frames,
           NEW dir, NEW tab, NEW h, NEW td, OwnedOnce(ps, dir, tab, h, td), f \in h \cup td
    PROVE  /\ StackOK(pstack_push(ps, f).ps)
           /\ OwnedOnce(pstack_push(ps, f).ps, dir, tab, h \ {f}, td \ {f})
  <1> DEFINE n == pstack_push(ps, f).ps
  <1>1. ~OnStack(ps, f) /\ f \in AllFrames
    BY DEF OwnedOnce, AllFrames
  <1>2. StackOK(n) /\ \A g \in Frames : OnStack(n, g) <=> OnStack(ps, g) \/ g = f
    BY <1>1, PushKeeps
  <1> HIDE DEF n
  <1>3. f \notin DeviceFrames
    BY PageConstants
  <1>4. \A g \in AllFrames : OnStack(n, g) <=> OnStack(ps, g) \/ g = f
    BY <1>2, <1>3, DeviceNotOnStack DEF AllFrames
  <1>5. OwnedOnce(n, dir, tab, h \ {f}, td \ {f})
    BY <1>1, <1>4, OwnPush
  <1> QED
    BY <1>2, <1>5 DEF n

LEMMA PutBack ==
    ASSUME NEW h, NEW f, f \notin h
    PROVE  (h \cup {f}) \ {f} = h
  OBVIOUS

---------------------------------------------------------------------------
(* The operations on pages.                                                *)

(* What a change of one page keeps of the types.                           *)
LEMMA PageTypes ==
    ASSUME FrameTypeOK, NEW v \in UserPages \cup HeapPages,
           pde' \in [Tables -> Frames \cup {IMAGE, LARGE, NULL}],
           pte' \in [Pages -> AllFrames \cup {IMAGE, NULL}],
           \A u \in Pages : u # v => pte'[u] = pte[u],
           pte'[v] \in AllFrames \cup {NULL},
           v \in HeapPages => pte'[v] \in Frames \cup {NULL},
           held' \subseteq AllFrames, todo' \subseteq Frames
    PROVE  FrameTypeOK'
  <1>1. \A u \in UserPages : pte'[u] # IMAGE
    BY PageFacts, PageConstants DEF FrameTypeOK
  <1>2. \A u \in HeapPages : pte'[u] \in Frames \cup {NULL}
    BY PageFacts DEF FrameTypeOK
  <1> QED
    BY <1>1, <1>2 DEF FrameTypeOK

LEMMA AllocateKeeps ==
    ASSUME FrameTypeOK, FrameInv, NEW v \in UserPages \cup HeapPages, NEW error \in BOOLEAN,
           memory_allocate_page(v, error), UNCHANGED <<held, todo>>,
           pc' = "init" => pc = "init"
    PROVE  /\ FrameTypeOK' /\ FrameInv'
           /\ error => pte' = pte
           /\ ~error => /\ pte[v] = NULL /\ pte'[v] \in Frames
                        /\ \A u \in Pages : u # v => pte'[u] = pte[u]
  <1> DEFINE first == pstack_pop(pstack)
             second == pstack_pop(first.ps)
             t == PTABLE_PDE_NUM(v)
             f == first.frame
             s == second.frame
  <1>1. /\ StackOK(pstack) /\ OwnedOnce(pstack, pde, pte, held, todo) /\ TableInv
        /\ held' = held /\ todo' = todo
    BY DEF FrameInv
  <1>2. v \in Pages /\ t \in Tables
    BY PageFacts
  <1>3. /\ pde \in [Tables -> Frames \cup {IMAGE, LARGE, NULL}]
        /\ pte \in [Pages -> AllFrames \cup {IMAGE, NULL}]
        /\ held \subseteq AllFrames /\ todo \subseteq Frames
    BY DEF FrameTypeOK
  <1>4. ASSUME ~first.error
        PROVE  /\ StackOK(first.ps) /\ f \in Frames /\ f \notin held \cup todo
               /\ OwnedOnce(first.ps, pde, pte, held \cup {f}, todo)
    BY <1>1, <1>4, PopOwned
  <1>5. CASE error /\ UNCHANGED memVars
    <2>1. pstack' = pstack /\ pde' = pde /\ pte' = pte
      BY <1>5 DEF memVars
    <2>2. FrameTypeOK'
      BY <1>1, <2>1 DEF FrameTypeOK
    <2>3. FrameInv'
      BY <1>1, <2>1 DEF FrameInv, TableInv
    <2> QED
      BY <1>5, <2>1, <2>2, <2>3
  <1>6. CASE /\ ~page_is_mapped(v) /\ ~first.error /\ ptable_is_set(v) /\ ~error
             /\ pstack' = first.ps
             /\ pte' = [pte EXCEPT ![v] = f]
             /\ UNCHANGED pde
    <2>0. /\ StackOK(first.ps) /\ f \notin held /\ f \in held \cup {f}
          /\ OwnedOnce(first.ps, pde, pte, held \cup {f}, todo)
      BY <1>4, <1>6
    <2>1. pte[v] = NULL /\ pde[t] \notin {NULL, LARGE} /\ f \in Frames /\ f \in AllFrames
      BY <1>4, <1>6 DEF page_is_mapped, ptable_is_set, AllFrames
    <2> HIDE DEF first, f, t
    <2>2. pte'[v] = f /\ (\A u \in Pages : u # v => pte'[u] = pte[u]) /\ pde' = pde
      BY <1>2, <1>3, <1>6
    <2>3. pte' \in [Pages -> AllFrames \cup {IMAGE, NULL}]
      BY <1>3, <1>6, <2>1
    <2>4. FrameTypeOK'
      BY <1>1, <1>3, <2>1, <2>2, <2>3, PageTypes
    <2>5. pte[v] \notin AllFrames
      BY <2>1, PageConstants
    <2>6. OwnedOnce(first.ps, pde, pte', (held \cup {f}) \ {f}, todo)
      BY <1>2, <2>1, <2>2, <2>5, <2>0, OwnMap
    <2>7. OwnedOnce(pstack', pde', pte', held', todo')
      BY <1>1, <1>6, <2>2, <2>6, <2>0, PutBack
    <2>8. TableInv'
      BY <1>1, <2>1, <2>2 DEF TableInv, t
    <2> QED
      BY <1>6, <2>1, <2>2, <2>4, <2>7, <2>8, <2>0 DEF FrameInv
  <1>7. CASE /\ ~page_is_mapped(v) /\ ~first.error /\ ~ptable_is_set(v) /\ second.error /\ error
             /\ pstack' = pstack_push(first.ps, f).ps
             /\ UNCHANGED <<pde, pte>>
    <2>0. /\ StackOK(first.ps) /\ f \in Frames /\ f \notin held \cup todo
          /\ OwnedOnce(first.ps, pde, pte, held \cup {f}, todo)
          /\ f \in (held \cup {f}) \cup todo
      BY <1>4, <1>7
    <2> HIDE DEF first, f
    <2>1. /\ StackOK(pstack')
          /\ OwnedOnce(pstack', pde, pte, (held \cup {f}) \ {f}, todo \ {f})
      BY <1>7, <2>0, PushOwned
    <2>2. (held \cup {f}) \ {f} = held /\ todo \ {f} = todo
      BY <2>0
    <2>3. pde' = pde /\ pte' = pte
      BY <1>7
    <2>4. OwnedOnce(pstack', pde', pte', held', todo')
      BY <1>1, <2>1, <2>2, <2>3
    <2>5. TableInv'
      BY <1>1, <2>3 DEF TableInv
    <2>6. FrameTypeOK'
      BY <1>1, <2>3 DEF FrameTypeOK
    <2> QED
      BY <1>7, <2>1, <2>3, <2>4, <2>5, <2>6 DEF FrameInv
  <1>8. CASE /\ ~page_is_mapped(v) /\ ~first.error /\ ~ptable_is_set(v) /\ ~second.error /\ ~error
             /\ pstack' = second.ps
             /\ NewTable(v, s, f)
    <2>1. pte[v] = NULL /\ pde[t] = NULL /\ f \in Frames /\ f \in AllFrames
      BY <1>4, <1>8 DEF page_is_mapped, ptable_is_set, AllFrames
    <2>2. /\ StackOK(second.ps) /\ s \in Frames /\ s \notin (held \cup {f}) \cup todo
          /\ OwnedOnce(second.ps, pde, pte, (held \cup {f}) \cup {s}, todo)
      BY <1>4, <1>8, PopOwned
    <2>3. /\ pde' = [pde EXCEPT ![t] = s]
          /\ pte' = [u \in Pages |-> IF u = v THEN f
                                     ELSE IF PTABLE_PDE_NUM(u) = t THEN NULL ELSE pte[u]]
      BY <1>8 DEF NewTable
    <2>4. \A u \in Pages : PTABLE_PDE_NUM(u) = t => pte[u] = NULL
      BY <1>1, <2>1 DEF TableInv
    <2> HIDE DEF first, second, f, s, t
    <2>5. pte'[v] = f /\ \A u \in Pages : u # v => pte'[u] = pte[u]
      BY <1>2, <2>3, <2>4
    <2>6. pde'[t] = s /\ \A u \in Tables : u # t => pde'[u] = pde[u]
      BY <1>2, <1>3, <2>3
    <2>7. pte' \in [Pages -> AllFrames \cup {IMAGE, NULL}]
      BY <1>3, <2>1, <2>3
    <2>8. pde' \in [Tables -> Frames \cup {IMAGE, LARGE, NULL}]
      BY <1>3, <2>2, <2>3
    <2>9. FrameTypeOK'
      BY <1>1, <1>3, <2>1, <2>5, <2>7, <2>8, PageTypes
    <2>10. pte[v] \notin AllFrames /\ pde[t] \notin AllFrames
      BY <2>1, PageConstants
    <2>11. OwnedOnce(second.ps, pde', pte, held \cup {f}, todo)
      <3>1. OwnedOnce(second.ps, pde', pte, ((held \cup {f}) \cup {s}) \ {s}, todo)
        BY <1>2, <2>2, <2>6, <2>10, OwnTable
      <3> QED
        BY <2>2, <3>1, PutBack
    <2>12. OwnedOnce(second.ps, pde', pte', held, todo)
      <3>1. OwnedOnce(second.ps, pde', pte', (held \cup {f}) \ {f}, todo)
        BY <1>2, <2>1, <2>5, <2>10, <2>11, OwnMap
      <3> QED
        BY <1>4, <1>8, <3>1, PutBack
    <2>13. s \notin {NULL, LARGE}
      BY <2>2, PageConstants DEF AllFrames
    <2>14. TableInv'
      <3>1. \A u \in Pages : pte'[u] # NULL => pde'[PTABLE_PDE_NUM(u)] \notin {NULL, LARGE}
        <4> SUFFICES ASSUME NEW u \in Pages, pte'[u] # NULL
                     PROVE  pde'[PTABLE_PDE_NUM(u)] \notin {NULL, LARGE}
          OBVIOUS
        <4>1. CASE u = v
          BY <2>6, <2>13, <4>1 DEF t
        <4>2. CASE u # v
          BY <1>1, <2>1, <2>5, <2>6, <4>2, PageFacts DEF TableInv
        <4> QED
          BY <4>1, <4>2
      <3>2. \A u \in Tables : pde'[u] = LARGE => u < PTABLE_PDE_NUM(KERNEL_PAGE)
        BY <1>1, <2>6, <2>13 DEF TableInv
      <3>3. ASSUME pc = "init"
            PROVE  \A u \in Tables : u < PTABLE_PDE_NUM(KERNEL_PAGE) => pde'[u] = LARGE
        <4>1. \A u \in Tables : u < PTABLE_PDE_NUM(KERNEL_PAGE) => pde[u] = LARGE
          BY <1>1, <3>3 DEF TableInv
        <4>2. LARGE # NULL
          BY PageConstants
        <4> QED
          BY <2>1, <2>6, <4>1, <4>2
      <3> QED
        BY <3>1, <3>2, <3>3 DEF TableInv
    <2> QED
      BY <1>1, <1>8, <2>1, <2>2, <2>5, <2>9, <2>12, <2>14 DEF FrameInv
  <1> QED
    BY <1>5, <1>6, <1>7, <1>8 DEF memory_allocate_page

(* memory_free_page of a page that holds a frame of the stack's.           *)
LEMMA FreeKeeps ==
    ASSUME FrameTypeOK, FrameInv, NEW v \in UserPages \cup HeapPages, pte[v] \in Frames,
           memory_free_page(v), UNCHANGED <<held, todo, pc>>
    PROVE  /\ FrameTypeOK' /\ FrameInv'
           /\ pte'[v] = NULL /\ \A u \in Pages : u # v => pte'[u] = pte[u]
  <1> DEFINE f == pte[v]
  <1>1. /\ StackOK(pstack) /\ OwnedOnce(pstack, pde, pte, held, todo) /\ TableInv
        /\ held' = held /\ todo' = todo /\ pc' = pc
    BY DEF FrameInv
  <1>2. v \in Pages
    BY PageFacts
  <1>3. /\ pde \in [Tables -> Frames \cup {IMAGE, LARGE, NULL}]
        /\ pte \in [Pages -> AllFrames \cup {IMAGE, NULL}]
        /\ held \subseteq AllFrames /\ todo \subseteq Frames
    BY DEF FrameTypeOK
  <1>4. /\ pte' = [pte EXCEPT ![v] = NULL] /\ pde' = pde
        /\ pstack' = pstack_push(pstack, f).ps
    BY DEF memory_free_page
  <1>5. pte'[v] = NULL /\ \A u \in Pages : u # v => pte'[u] = pte[u]
    BY <1>2, <1>3, <1>4
  <1>6. pte' \in [Pages -> AllFrames \cup {IMAGE, NULL}]
    BY <1>3, <1>4
  <1>7. FrameTypeOK'
    BY <1>1, <1>3, <1>4, <1>5, <1>6, PageTypes
  <1>8. OwnedOnce(pstack, pde, pte', held \cup {f}, todo) /\ f \notin held \cup todo
    <2>1. pte[v] \in AllFrames
      BY DEF AllFrames
    <2> QED
      BY <1>1, <1>2, <1>5, <2>1, OwnUnmap
  <1> HIDE DEF f
  <1>9. f \in Frames
    BY DEF f
  <1>10. /\ StackOK(pstack')
         /\ OwnedOnce(pstack', pde, pte', (held \cup {f}) \ {f}, todo \ {f})
    <2>1. f \in (held \cup {f}) \cup todo
      OBVIOUS
    <2>2. /\ StackOK(pstack_push(pstack, f).ps)
          /\ OwnedOnce(pstack_push(pstack, f).ps, pde, pte', (held \cup {f}) \ {f}, todo \ {f})
      BY <2>1, <1>1, <1>8, <1>9, PushOwned, Zenon
    <2> QED
      BY <2>2, <1>4, Zenon
  <1>11. (held \cup {f}) \ {f} = held /\ todo \ {f} = todo
    BY <1>8
  <1>12. OwnedOnce(pstack', pde', pte', held', todo')
    BY <1>1, <1>4, <1>10, <1>11
  <1>13. TableInv'
    BY <1>1, <1>4, <1>5 DEF TableInv
  <1> QED
    BY <1>5, <1>7, <1>10, <1>12, <1>13 DEF FrameInv

(* memory_map_addr of a frame the caller holds.                            *)
LEMMA MapKeeps ==
    ASSUME FrameTypeOK, FrameInv, NEW v \in UserPages, NEW f \in AllFrames, f \in held,
           NEW error \in BOOLEAN, memory_map_addr(v, f, error),
           held' = IF error THEN held ELSE held \ {f}, UNCHANGED <<todo, pc>>
    PROVE  /\ FrameTypeOK' /\ FrameInv'
           /\ \A u \in Pages : u # v => pte'[u] = pte[u]
  <1> DEFINE first == pstack_pop(pstack)
             t == PTABLE_PDE_NUM(v)
             s == first.frame
  <1>1. /\ StackOK(pstack) /\ OwnedOnce(pstack, pde, pte, held, todo) /\ TableInv
        /\ todo' = todo /\ pc' = pc
    BY DEF FrameInv
  <1>2. v \in Pages /\ t \in Tables /\ v \notin HeapPages
    BY PageFacts
  <1>3. /\ pde \in [Tables -> Frames \cup {IMAGE, LARGE, NULL}]
        /\ pte \in [Pages -> AllFrames \cup {IMAGE, NULL}]
        /\ held \subseteq AllFrames /\ todo \subseteq Frames
    BY DEF FrameTypeOK
  <1>4. CASE error /\ UNCHANGED memVars
    <2>1. pstack' = pstack /\ pde' = pde /\ pte' = pte /\ held' = held
      BY <1>4 DEF memVars
    <2>2. FrameTypeOK'
      BY <1>1, <2>1 DEF FrameTypeOK
    <2>3. FrameInv'
      BY <1>1, <2>1 DEF FrameInv, TableInv
    <2> QED
      BY <2>1, <2>2, <2>3
  <1>5. CASE /\ ~page_is_mapped(v) /\ ptable_is_set(v) /\ ~error
             /\ pte' = [pte EXCEPT ![v] = f]
             /\ UNCHANGED <<pstack, pde>>
    <2>1. pte[v] = NULL /\ pde[t] \notin {NULL, LARGE}
      BY <1>5 DEF page_is_mapped, ptable_is_set
    <2> HIDE DEF t
    <2>2. /\ pte'[v] = f /\ (\A u \in Pages : u # v => pte'[u] = pte[u])
          /\ pde' = pde /\ pstack' = pstack /\ held' = held \ {f}
      BY <1>2, <1>3, <1>5
    <2>3. pte' \in [Pages -> AllFrames \cup {IMAGE, NULL}] /\ held' \subseteq AllFrames
      BY <1>3, <1>5, <2>2
    <2>4. FrameTypeOK'
      BY <1>1, <1>2, <1>3, <2>2, <2>3, PageTypes
    <2>5. pte[v] \notin AllFrames
      BY <2>1, PageConstants
    <2>6. OwnedOnce(pstack, pde, pte', held \ {f}, todo)
      BY <1>1, <1>2, <2>2, <2>5, OwnMap
    <2>7. TableInv'
      BY <1>1, <2>1, <2>2 DEF TableInv, t
    <2> QED
      BY <1>1, <2>2, <2>4, <2>6, <2>7 DEF FrameInv
  <1>6. CASE /\ ~page_is_mapped(v) /\ ~ptable_is_set(v) /\ ~first.error /\ ~error
             /\ pstack' = first.ps
             /\ NewTable(v, s, f)
    <2>1. pte[v] = NULL /\ pde[t] = NULL
      BY <1>6 DEF page_is_mapped, ptable_is_set
    <2>2. /\ StackOK(first.ps) /\ s \in Frames /\ s \notin held \cup todo
          /\ OwnedOnce(first.ps, pde, pte, held \cup {s}, todo)
      BY <1>1, <1>6, PopOwned
    <2>3. /\ pde' = [pde EXCEPT ![t] = s]
          /\ pte' = [u \in Pages |-> IF u = v THEN f
                                     ELSE IF PTABLE_PDE_NUM(u) = t THEN NULL ELSE pte[u]]
      BY <1>6 DEF NewTable
    <2>4. \A u \in Pages : PTABLE_PDE_NUM(u) = t => pte[u] = NULL
      BY <1>1, <2>1 DEF TableInv
    <2> HIDE DEF first, s, t
    <2>5. pte'[v] = f /\ \A u \in Pages : u # v => pte'[u] = pte[u]
      BY <1>2, <2>3, <2>4
    <2>6. pde'[t] = s /\ \A u \in Tables : u # t => pde'[u] = pde[u]
      BY <1>2, <1>3, <2>3
    <2>7. pte' \in [Pages -> AllFrames \cup {IMAGE, NULL}]
      BY <1>3, <2>3
    <2>8. pde' \in [Tables -> Frames \cup {IMAGE, LARGE, NULL}]
      BY <1>3, <2>2, <2>3
    <2>9. held' = held \ {f} /\ held' \subseteq AllFrames
      BY <1>3, <1>6
    <2>10. FrameTypeOK'
      BY <1>1, <1>2, <1>3, <2>5, <2>7, <2>8, <2>9, PageTypes
    <2>11. pte[v] \notin AllFrames /\ pde[t] \notin AllFrames
      BY <2>1, PageConstants
    <2>12. OwnedOnce(first.ps, pde', pte, held, todo)
      <3>1. OwnedOnce(first.ps, pde', pte, (held \cup {s}) \ {s}, todo)
        BY <1>2, <2>2, <2>6, <2>11, OwnTable
      <3> QED
        BY <2>2, <3>1, PutBack
    <2>13. OwnedOnce(first.ps, pde', pte', held \ {f}, todo)
      BY <1>2, <2>5, <2>11, <2>12, OwnMap
    <2>14. s \notin {NULL, LARGE} /\ LARGE # NULL
      BY <2>2, PageConstants DEF AllFrames
    <2>15. TableInv'
      <3>1. \A u \in Pages : pte'[u] # NULL => pde'[PTABLE_PDE_NUM(u)] \notin {NULL, LARGE}
        <4> SUFFICES ASSUME NEW u \in Pages, pte'[u] # NULL
                     PROVE  pde'[PTABLE_PDE_NUM(u)] \notin {NULL, LARGE}
          OBVIOUS
        <4>1. CASE u = v
          BY <2>6, <2>14, <4>1 DEF t
        <4>2. CASE u # v
          BY <1>1, <2>1, <2>5, <2>6, <4>2, PageFacts DEF TableInv
        <4> QED
          BY <4>1, <4>2
      <3>2. \A u \in Tables : pde'[u] = LARGE => u < PTABLE_PDE_NUM(KERNEL_PAGE)
        BY <1>1, <2>6, <2>14 DEF TableInv
      <3>3. ASSUME pc = "init"
            PROVE  \A u \in Tables : u < PTABLE_PDE_NUM(KERNEL_PAGE) => pde'[u] = LARGE
        <4>1. \A u \in Tables : u < PTABLE_PDE_NUM(KERNEL_PAGE) => pde[u] = LARGE
          BY <1>1, <3>3 DEF TableInv
        <4> QED
          BY <2>1, <2>6, <2>14, <4>1
      <3> QED
        BY <1>1, <3>1, <3>2, <3>3 DEF TableInv
    <2> QED
      BY <1>1, <1>6, <2>2, <2>5, <2>9, <2>10, <2>13, <2>15 DEF FrameInv
  <1> QED
    BY <1>4, <1>5, <1>6 DEF memory_map_addr

(* memory_unmap_addr gives the frame to the caller.                        *)
LEMMA UnmapAddrKeeps ==
    ASSUME FrameTypeOK, FrameInv, NEW v \in UserPages,
           memory_unmap_addr(v), held' = held \cup {pte[v]}, UNCHANGED <<todo, pc>>
    PROVE  FrameTypeOK' /\ FrameInv' /\ \A u \in Pages : u # v => pte'[u] = pte[u]
  <1>1. /\ StackOK(pstack) /\ OwnedOnce(pstack, pde, pte, held, todo) /\ TableInv
        /\ todo' = todo /\ pc' = pc
    BY DEF FrameInv
  <1>2. v \in Pages
    BY PageFacts
  <1>3. /\ pde \in [Tables -> Frames \cup {IMAGE, LARGE, NULL}]
        /\ pte \in [Pages -> AllFrames \cup {IMAGE, NULL}]
        /\ held \subseteq AllFrames /\ todo \subseteq Frames /\ pte[v] # IMAGE
    BY DEF FrameTypeOK
  <1>4. /\ pte[v] # NULL /\ pte' = [pte EXCEPT ![v] = NULL] /\ pde' = pde /\ pstack' = pstack
    BY DEF memory_unmap_addr
  <1>5. pte'[v] = NULL /\ \A u \in Pages : u # v => pte'[u] = pte[u]
    BY <1>2, <1>3, <1>4
  <1>6. pte' \in [Pages -> AllFrames \cup {IMAGE, NULL}] /\ pte[v] \in AllFrames
    BY <1>2, <1>3, <1>4
  <1>7. FrameTypeOK'
    BY <1>1, <1>3, <1>4, <1>5, <1>6, PageTypes
  <1>8. OwnedOnce(pstack, pde, pte', held \cup {pte[v]}, todo)
    BY <1>1, <1>2, <1>5, <1>6, OwnUnmap
  <1>9. TableInv'
    BY <1>1, <1>4, <1>5 DEF TableInv
  <1> QED
    BY <1>1, <1>4, <1>5, <1>7, <1>8, <1>9 DEF FrameInv

---------------------------------------------------------------------------
(* The heap.                                                               *)
LEMMA MappedUp ==
    ASSUME NEW tab, NEW tab2, NEW n \in HeapPages, MappedTo(tab, n - 1), tab2[n] # NULL,
           \A u \in Pages : u # n => tab2[u] = tab[u]
    PROVE  MappedTo(tab2, n)
  <1>1. HeapPages \subseteq Pages /\ HeapPages \subseteq Int
    BY PageFacts, PageConstants DEF HeapPages
  <1>2. \A u \in HeapPages : u # n => (tab2[u] # NULL <=> u <= n - 1)
    BY <1>1 DEF MappedTo
  <1>3. \A u \in HeapPages : u # n => (u <= n - 1 <=> u <= n)
    BY <1>1
  <1> QED
    BY <1>1, <1>2, <1>3 DEF MappedTo

LEMMA MappedDown ==
    ASSUME NEW tab, NEW tab2, NEW n \in HeapPages, MappedTo(tab, n), tab2[n] = NULL,
           \A u \in Pages : u # n => tab2[u] = tab[u]
    PROVE  MappedTo(tab2, n - 1)
  <1>1. HeapPages \subseteq Pages /\ HeapPages \subseteq Int
    BY PageFacts, PageConstants DEF HeapPages
  <1>2. \A u \in HeapPages : u # n => (tab2[u] # NULL <=> u <= n)
    BY <1>1 DEF MappedTo
  <1>3. \A u \in HeapPages : u # n => (u <= n - 1 <=> u <= n)
    BY <1>1
  <1>4. ~(n <= n - 1)
    BY <1>1
  <1> QED
    BY <1>1, <1>2, <1>3, <1>4 DEF MappedTo

(* Steps on pages of others leave the heap as it is.                       *)
LEMMA MappedSame ==
    ASSUME NEW tab, NEW tab2, NEW v \in UserPages, NEW n, MappedTo(tab, n),
           \A u \in Pages : u # v => tab2[u] = tab[u]
    PROVE  MappedTo(tab2, n)
  BY PageFacts DEF MappedTo

(* Where the heap ends.                                                    *)
LEMMA HeapFacts ==
    ASSUME NumberTypeOK, HeapInv
    PROVE  /\ heap_end \in Nat \ {0} /\ heap_end > kernel_heap_addr
           /\ heap_end < KERNEL_HEAP_LIMIT /\ kernel_heap_addr \in Nat
           /\ EndPage(heap_end) \in HeapPages /\ EndPage(heap_end) \in Nat
           /\ \A v \in Int : v <= EndPage(heap_end) <=> v * PAGE_SIZE < heap_end
  <1>1. kernel_heap_addr \in Nat /\ KERNEL_INITIAL_HEAP_SIZE \in Nat \ {0}
    BY PageConstants
  <1>2. kernel_heap_size \in Nat /\ kernel_heap_size >= KERNEL_INITIAL_HEAP_SIZE
        /\ heap_end < KERNEL_HEAP_LIMIT
    BY DEF NumberTypeOK, HeapInv
  <1>3. heap_end \in Nat \ {0} /\ heap_end > kernel_heap_addr
    BY <1>1, <1>2 DEF heap_end
  <1>4. EndPage(heap_end) \in HeapPages
    BY <1>2, <1>3, EndPageBounds
  <1>5. EndPage(heap_end) \in Nat /\ \A v \in Int : v <= EndPage(heap_end) <=> v * PAGE_SIZE < heap_end
    BY <1>3, EndPageFacts
  <1> QED
    BY <1>1, <1>2, <1>3, <1>4, <1>5

(* The comparisons of heap_callback exclude a sum that wraps.              *)
LEMMA GrowBounds ==
    ASSUME NumberTypeOK, HeapInv, NEW diff \in Differences, diff > 0, GrowAllowed(diff)
    PROVE  /\ diff \in Nat /\ heap_end + diff \in Nat \ {0} /\ heap_end + diff < KERNEL_HEAP_LIMIT
           /\ EndPage(heap_end + diff) \in HeapPages
           /\ EndPage(heap_end) <= EndPage(heap_end + diff)
  <1> DEFINE e == heap_end
             n == e + diff
  <1>1. WORD \in Nat /\ KERNEL_HEAP_LIMIT < WORD /\ diff \in 1 - WORD .. WORD - 1 /\ KERNEL_HEAP_LIMIT \in Nat
    BY MemoryAssumption, PageConstants
  <1>2. e \in Nat \ {0} /\ e < KERNEL_HEAP_LIMIT /\ e > kernel_heap_addr /\ kernel_heap_addr \in Nat
    BY HeapFacts
  <1> HIDE DEF e
  <1>3. n \in Nat \ {0} /\ n < 2 * WORD /\ diff \in Nat
    BY <1>1, <1>2
  <1>4. n % WORD < KERNEL_HEAP_LIMIT /\ n % WORD >= e
    BY DEF GrowAllowed, e
  <1>5. n >= WORD => n % WORD = n - WORD
    <2> HIDE DEF n
    <2> QED
      BY <1>1, <1>3
  <1>6. n < WORD
    BY <1>1, <1>2, <1>3, <1>4, <1>5
  <1>7. n % WORD = n
    <2> HIDE DEF n
    <2> QED
      BY <1>1, <1>3, <1>6
  <1>8. n < KERNEL_HEAP_LIMIT
    BY <1>4, <1>7
  <1>9. EndPage(n) \in HeapPages
    <2>1. n > kernel_heap_addr
      BY <1>2, <1>3
    <2> HIDE DEF n
    <2> QED
      BY <1>3, <1>8, <2>1, EndPageBounds
  <1>10. EndPage(e) <= EndPage(n)
    <2>1. e <= n
      BY <1>2, <1>3
    <2> HIDE DEF n
    <2> QED
      BY <1>2, <1>3, <2>1, EndPageMonotone
  <1> QED
    BY <1>3, <1>8, <1>9, <1>10 DEF e

---------------------------------------------------------------------------
(* The invariant holds initially and every step keeps it.                  *)
LEMMA InitMemory ==
    Init => MemoryInv
  <1> SUFFICES ASSUME Init PROVE MemoryInv
    OBVIOUS
  <1>1. FrameTypeOK
    <2>1. \A v \in UserPages : v \notin KERNEL_PAGE .. HEAP_PAGE - 1
      BY PageConstants DEF UserPages
    <2>2. \A v \in HeapPages : v \notin KERNEL_PAGE .. HEAP_PAGE - 1
      BY PageConstants DEF HeapPages
    <2>3. pde \in [Tables -> Frames \cup {IMAGE, LARGE, NULL}]
      BY DEF Init
    <2>4. pte \in [Pages -> AllFrames \cup {IMAGE, NULL}]
      BY DEF Init
    <2>5. \A v \in UserPages : pte[v] # IMAGE
      BY <2>1, PageFacts, PageConstants DEF Init
    <2>6. \A v \in HeapPages : pte[v] \in Frames \cup {NULL}
      BY <2>2, PageFacts DEF Init
    <2> QED
      BY <2>3, <2>4, <2>5, <2>6 DEF Init, FrameTypeOK, AllFrames
  <1>2. NumberTypeOK
    BY PageConstants DEF Init, NumberTypeOK
  <1>3. StackOK(pstack)
    <2>1. /\ pstack.depth = 0 /\ pstack.map = [p \in StackPages |-> NULL]
          /\ pstack.slot = [k \in Slots |-> NULL]
          /\ pstack = [depth |-> pstack.depth, map |-> pstack.map, slot |-> pstack.slot]
      BY DEF Init, StackPages, Slots
    <2>2. 0 .. pstack.depth - 1 = {}
      BY <2>1
    <2>3. pstack \in Stack
      BY <2>1, StackConstants DEF Stack
    <2> QED
      BY <2>1, <2>2, <2>3 DEF StackOK, Backed, Distinct
  <1>4. \A t \in Tables : pde[t] \in {IMAGE, LARGE, NULL}
    BY DEF Init
  <1>5. \A v \in Pages : pte[v] \in {IMAGE, NULL}
    BY DEF Init
  <1>6. OwnedOnce(pstack, pde, pte, held, todo)
    <2>1. \A f \in AllFrames : f \notin {IMAGE, LARGE, NULL}
      BY PageConstants
    <2>2. \A f \in AllFrames : ~OnStack(pstack, f)
      <3>1. /\ pstack.depth = 0 /\ pstack.map = [p \in StackPages |-> NULL]
        BY DEF Init, StackPages
      <3>2. 0 .. pstack.depth - 1 = {}
        BY <3>1
      <3> QED
        BY <2>1, <3>1, <3>2 DEF OnStack
    <2>3. \A f \in AllFrames : ~IsTable(pde, f) /\ ~IsMapped(pte, f)
      BY <1>4, <1>5, <2>1 DEF IsTable, IsMapped
    <2>4. held \cap todo = {} /\ held \cup todo = AllFrames
      BY PageConstants DEF Init, AllFrames
    <2>5. Frames \subseteq AllFrames
      BY DEF AllFrames
    <2> QED
      BY <1>4, <1>5, <2>1, <2>2, <2>3, <2>4, <2>5 DEF OwnedOnce
  <1>7. TableInv
    <2>1. \A v \in Pages : pte[v] # NULL => pde[PTABLE_PDE_NUM(v)] = IMAGE
      <3> SUFFICES ASSUME NEW v \in Pages, pte[v] # NULL PROVE pde[PTABLE_PDE_NUM(v)] = IMAGE
        OBVIOUS
      <3>1. v \in KERNEL_PAGE .. HEAP_PAGE - 1
        BY DEF Init
      <3>2. PTABLE_PDE_NUM(v) = PTABLE_PDE_NUM(KERNEL_PAGE) /\ PTABLE_PDE_NUM(v) \in Tables
            /\ PTABLE_PDE_NUM(KERNEL_PAGE) \in Nat
        BY <3>1, PageFacts
      <3> QED
        BY <3>2 DEF Init
    <2>2. \A t \in Tables : pde[t] = LARGE <=> t < PTABLE_PDE_NUM(KERNEL_PAGE)
      BY PageConstants DEF Init
    <2> QED
      BY <2>1, <2>2, PageConstants DEF TableInv
  <1>8. HeapInv
    <2>1. kernel_heap_size = KERNEL_INITIAL_HEAP_SIZE /\ pc = "init" /\ page = HEAP_PAGE
      BY DEF Init
    <2>2. heap_end < KERNEL_HEAP_LIMIT /\ heap_end \in Nat /\ heap_end > kernel_heap_addr
      BY <2>1, PageConstants DEF heap_end
    <2>3. EndPage(heap_end) \in HeapPages
      BY <2>2, EndPageBounds
    <2>4. page \in HEAP_PAGE .. EndPage(heap_end) + 1
      BY <2>1, <2>3, PageConstants DEF HeapPages
    <2>5. MappedTo(pte, page - 1)
      <3>1. \A v \in HeapPages : ~(v <= page - 1) /\ v \notin KERNEL_PAGE .. HEAP_PAGE - 1
        BY <2>1, PageConstants DEF HeapPages
      <3> QED
        BY <3>1, PageFacts DEF Init, MappedTo
    <2>6. kernel_heap_size >= KERNEL_INITIAL_HEAP_SIZE
      BY <2>1, PageConstants
    <2> QED
      BY <2>1, <2>2, <2>4, <2>5, <2>6 DEF HeapInv
  <1> QED
    BY <1>1, <1>2, <1>3, <1>6, <1>7, <1>8 DEF MemoryInv, FrameInv

(* memory_init.                                                            *)
LEMMA InitPushStep ==
    ASSUME MemoryInv, NEW f \in Frames, InitPush(f)
    PROVE  MemoryInv'
  <1>1. /\ pc' = pc /\ pde' = pde /\ pte' = pte /\ kernel_heap_size' = kernel_heap_size
        /\ held' = held /\ todo' = todo \ {f} /\ f \in todo
        /\ page' = page /\ goal' = goal /\ amount' = amount
        /\ pstack' = pstack_push(pstack, f).ps
    BY DEF InitPush, locals
  <1>2. StackOK(pstack) /\ OwnedOnce(pstack, pde, pte, held, todo) /\ TableInv
    BY DEF MemoryInv, FrameInv
  <1>3. StackOK(pstack') /\ OwnedOnce(pstack', pde, pte, held \ {f}, todo \ {f})
    BY <1>1, <1>2, PushOwned
  <1>4. held \ {f} = held
    BY <1>1, <1>2 DEF OwnedOnce
  <1>5. FrameInv'
    BY <1>1, <1>2, <1>3, <1>4 DEF FrameInv, TableInv
  <1>6. FrameTypeOK'
    BY <1>1 DEF MemoryInv, FrameTypeOK
  <1>7. NumberTypeOK' /\ HeapInv'
    BY <1>1 DEF MemoryInv, NumberTypeOK, HeapInv, heap_end
  <1> QED
    BY <1>5, <1>6, <1>7 DEF MemoryInv

LEMMA InitHeapStep ==
    ASSUME MemoryInv, InitHeap
    PROVE  MemoryInv'
  <1>1. FrameTypeOK /\ NumberTypeOK /\ FrameInv /\ HeapInv
    BY DEF MemoryInv
  <1>2. PICK error \in BOOLEAN :
            memory_allocate_page(page, error) /\ pc' = IF error THEN "panic" ELSE "init"
    BY DEF InitHeap
  <1>3. /\ pc = "init" /\ page * PAGE_SIZE < heap_end
        /\ page' = page + 1 /\ goal' = goal /\ amount' = amount
        /\ kernel_heap_size' = kernel_heap_size /\ held' = held /\ todo' = todo
    BY DEF InitHeap, heap_end
  <1>4. page \in HEAP_PAGE .. EndPage(heap_end) + 1 /\ MappedTo(pte, page - 1) /\ page \in Int
    BY <1>1, <1>3 DEF HeapInv, NumberTypeOK
  <1>5. EndPage(heap_end) \in HeapPages /\ EndPage(heap_end) \in Nat /\ page <= EndPage(heap_end)
    BY <1>1, <1>3, <1>4, HeapFacts
  <1>6. page \in HeapPages
    BY <1>4, <1>5, PageConstants DEF HeapPages
  <1>7. PICK n \in HeapPages : n = page
    BY <1>6
  <1>8. memory_allocate_page(n, error)
    BY <1>2, <1>7
  <1>9. /\ FrameTypeOK' /\ FrameInv'
        /\ ~error => /\ pte'[n] \in Frames
                     /\ \A u \in Pages : u # n => pte'[u] = pte[u]
    BY <1>1, <1>3, <1>8, AllocateKeeps
  <1>10. NumberTypeOK'
    BY <1>1, <1>3 DEF NumberTypeOK
  <1>11. heap_end' = heap_end /\ EndPage(heap_end)' = EndPage(heap_end)
    BY <1>3 DEF heap_end, EndPage
  <1>12. ~error => MappedTo(pte', n)
    <2> SUFFICES ASSUME ~error PROVE MappedTo(pte', n)
      OBVIOUS
    <2>1. pte'[n] # NULL /\ \A u \in Pages : u # n => pte'[u] = pte[u]
      BY <1>9, StackConstants
    <2> QED
      BY <1>4, <1>7, <2>1, MappedUp
  <1>13. page' - 1 = n /\ page' \in HEAP_PAGE .. EndPage(heap_end) + 1
    BY <1>3, <1>4, <1>5, <1>7, PageConstants
  <1>14. HeapInv'
    BY <1>1, <1>2, <1>3, <1>11, <1>12, <1>13 DEF HeapInv
  <1> QED
    BY <1>9, <1>10, <1>14 DEF MemoryInv

LEMMA InitDoneStep ==
    ASSUME MemoryInv, InitDone
    PROVE  MemoryInv'
  <1>1. FrameTypeOK /\ NumberTypeOK /\ FrameInv /\ HeapInv
    BY DEF MemoryInv
  <1> DEFINE K == PTABLE_PDE_NUM(KERNEL_PAGE)
  <1>2. /\ pc = "init" /\ pc' = "idle" /\ page * PAGE_SIZE >= heap_end
        /\ page' = page /\ goal' = goal /\ amount' = amount /\ pstack' = pstack /\ pte' = pte
        /\ kernel_heap_size' = kernel_heap_size /\ held' = held /\ todo' = todo
        /\ pde' = [t \in Tables |-> IF t < K THEN NULL ELSE pde[t]]
    BY DEF InitDone, heap_end, locals
  <1>3. StackOK(pstack) /\ OwnedOnce(pstack, pde, pte, held, todo) /\ TableInv
    BY <1>1 DEF FrameInv
  <1> HIDE DEF K
  <1>4. /\ \A t \in Tables : pde'[t] = pde[t] \/ (pde[t] = LARGE /\ pde'[t] = NULL)
        /\ \A t \in Tables : pde'[t] # LARGE
    BY <1>2, <1>3, PageConstants DEF TableInv, K
  <1>5. FrameTypeOK'
    <2>1. pde' \in [Tables -> Frames \cup {IMAGE, LARGE, NULL}]
      BY <1>1, <1>2 DEF FrameTypeOK
    <2> QED
      BY <1>1, <1>2, <2>1 DEF FrameTypeOK
  <1>6. TableInv'
    <2>1. \A v \in Pages : pte[v] # NULL => pde'[PTABLE_PDE_NUM(v)] = pde[PTABLE_PDE_NUM(v)]
      BY <1>3, <1>4, PageFacts DEF TableInv
    <2> QED
      BY <1>2, <1>3, <1>4, <2>1 DEF TableInv
  <1>7. OwnedOnce(pstack, pde', pte, held, todo)
    <2>1. LARGE \notin AllFrames /\ NULL \notin AllFrames /\ Frames \subseteq AllFrames
      BY PageConstants DEF AllFrames
    <2>2. \A f \in AllFrames : IsTable(pde', f) <=> IsTable(pde, f)
      BY <1>4, <2>1 DEF IsTable
    <2>3. \A t, u \in Tables : pde'[t] = pde'[u] /\ pde'[t] \in Frames => t = u
      BY <1>3, <1>4, <2>1 DEF OwnedOnce
    <2> QED
      BY <1>3, <2>2, <2>3 DEF OwnedOnce
  <1>8. FrameInv'
    BY <1>2, <1>3, <1>6, <1>7 DEF FrameInv
  <1>9. NumberTypeOK' /\ heap_end' = heap_end
    BY <1>1, <1>2 DEF NumberTypeOK, heap_end
  <1>10. page - 1 = EndPage(heap_end) /\ MappedTo(pte, page - 1)
    <2>1. page \in HEAP_PAGE .. EndPage(heap_end) + 1 /\ MappedTo(pte, page - 1) /\ page \in Int
      BY <1>1, <1>2 DEF HeapInv, NumberTypeOK
    <2>2. /\ EndPage(heap_end) \in Nat /\ heap_end \in Nat
          /\ page <= EndPage(heap_end) <=> page * PAGE_SIZE < heap_end
      BY <1>1, <2>1, HeapFacts
    <2>3. page * PAGE_SIZE \in Int
      BY <2>1, PageConstants
    <2>4. ~(page <= EndPage(heap_end))
      BY <1>2, <2>2, <2>3
    <2> QED
      BY <2>1, <2>2, <2>4, PageConstants
  <1>11. HeapInv'
    BY <1>1, <1>2, <1>9, <1>10 DEF HeapInv
  <1> QED
    BY <1>5, <1>8, <1>9, <1>11 DEF MemoryInv

(* Steps of heap_callback that change no page.                             *)
LEMMA NoPageStep ==
    ASSUME FrameTypeOK, FrameInv, UNCHANGED <<memVars, held, todo>>, pc' = "init" => pc = "init"
    PROVE  FrameTypeOK' /\ FrameInv'
  <1>1. pstack' = pstack /\ pde' = pde /\ pte' = pte /\ held' = held /\ todo' = todo
    BY DEF memVars
  <1> QED
    BY <1>1 DEF FrameTypeOK, FrameInv, TableInv

LEMMA HeapGrowStep ==
    ASSUME MemoryInv, NEW diff \in Differences, HeapGrow(diff)
    PROVE  MemoryInv'
  <1>1. FrameTypeOK /\ NumberTypeOK /\ FrameInv /\ HeapInv
    BY DEF MemoryInv
  <1>2. /\ pc = "idle" /\ pc' = "grow" /\ diff > 0 /\ GrowAllowed(diff)
        /\ amount' = diff /\ page' = EndPage(heap_end) + 1 /\ goal' = EndPage(heap_end + diff)
        /\ UNCHANGED <<memVars, held, todo>> /\ kernel_heap_size' = kernel_heap_size /\ pte' = pte
    BY DEF HeapGrow, memVars
  <1>3. FrameTypeOK' /\ FrameInv'
    BY <1>1, <1>2, NoPageStep
  <1>4. /\ diff \in Nat /\ heap_end + diff \in Nat \ {0} /\ heap_end + diff < KERNEL_HEAP_LIMIT
        /\ EndPage(heap_end + diff) \in HeapPages
        /\ EndPage(heap_end) <= EndPage(heap_end + diff)
    BY <1>1, <1>2, GrowBounds
  <1>5. EndPage(heap_end) \in Nat /\ EndPage(heap_end + diff) \in Int
    BY <1>1, <1>4, HeapFacts, PageConstants DEF HeapPages
  <1>6. NumberTypeOK' /\ heap_end' = heap_end
    BY <1>1, <1>2, <1>4, <1>5 DEF NumberTypeOK, heap_end
  <1>7. /\ page' \in EndPage(heap_end) + 1 .. goal' + 1 /\ page' - 1 = EndPage(heap_end)
        /\ MappedTo(pte, EndPage(heap_end))
    BY <1>1, <1>2, <1>4, <1>5 DEF HeapInv
  <1>8. HeapInv'
    BY <1>1, <1>2, <1>4, <1>6, <1>7 DEF HeapInv
  <1> QED
    BY <1>3, <1>6, <1>8 DEF MemoryInv

(* The heap while it grows.                                                *)
LEMMA GrowFacts ==
    ASSUME NumberTypeOK, HeapInv, pc = "grow"
    PROVE  /\ amount \in Nat \ {0} /\ heap_end + amount < KERNEL_HEAP_LIMIT
           /\ goal = EndPage(heap_end + amount) /\ goal \in HeapPages
           /\ page \in EndPage(heap_end) + 1 .. goal + 1 /\ page \in Int
           /\ EndPage(heap_end) \in HeapPages /\ EndPage(heap_end) \in Nat
           /\ MappedTo(pte, page - 1)
           /\ page <= goal => page \in HeapPages
  <1>1. /\ amount \in Nat \ {0} /\ heap_end + amount < KERNEL_HEAP_LIMIT
        /\ goal = EndPage(heap_end + amount)
        /\ page \in EndPage(heap_end) + 1 .. goal + 1 /\ page \in Int
        /\ MappedTo(pte, page - 1)
    BY DEF HeapInv, NumberTypeOK
  <1>2. /\ heap_end \in Nat /\ heap_end > kernel_heap_addr /\ kernel_heap_addr \in Nat
        /\ EndPage(heap_end) \in HeapPages /\ EndPage(heap_end) \in Nat
    BY HeapFacts
  <1>3. goal \in HeapPages
    <2> DEFINE e == heap_end + amount
    <2>1. e \in Nat /\ e > kernel_heap_addr /\ e < KERNEL_HEAP_LIMIT
      BY <1>1, <1>2
    <2> HIDE DEF e
    <2>2. EndPage(e) \in HeapPages
      BY <2>1, EndPageBounds
    <2> QED
      BY <1>1, <2>2 DEF e
  <1>4. page <= goal => page \in HeapPages
    BY <1>1, <1>2, <1>3, PageConstants DEF HeapPages
  <1> QED
    BY <1>1, <1>2, <1>3, <1>4

LEMMA GrowPageStep ==
    ASSUME MemoryInv, GrowPage
    PROVE  MemoryInv'
  <1>1. FrameTypeOK /\ NumberTypeOK /\ FrameInv /\ HeapInv
    BY DEF MemoryInv
  <1>2. PICK error \in BOOLEAN :
            /\ memory_allocate_page(page, error)
            /\ \/ ~error /\ page' = page + 1 /\ UNCHANGED pc
               \/ error /\ page' = page - 1 /\ pc' = "rollback"
    BY DEF GrowPage
  <1>3. /\ pc = "grow" /\ page <= goal /\ goal' = goal /\ amount' = amount
        /\ kernel_heap_size' = kernel_heap_size /\ held' = held /\ todo' = todo
    BY DEF GrowPage
  <1>4. /\ page \in EndPage(heap_end) + 1 .. goal + 1 /\ page \in HeapPages /\ page \in Int
        /\ goal \in HeapPages /\ EndPage(heap_end) \in Nat /\ MappedTo(pte, page - 1)
    BY <1>1, <1>3, GrowFacts
  <1>5. PICK n \in HeapPages : n = page
    BY <1>4
  <1>6. memory_allocate_page(n, error)
    BY <1>2, <1>5
  <1>7. /\ FrameTypeOK' /\ FrameInv'
        /\ error => pte' = pte
        /\ ~error => /\ pte'[n] \in Frames
                     /\ \A u \in Pages : u # n => pte'[u] = pte[u]
    BY <1>1, <1>2, <1>3, <1>6, AllocateKeeps
  <1>8. NumberTypeOK' /\ heap_end' = heap_end
    BY <1>1, <1>2, <1>3 DEF NumberTypeOK, heap_end
  <1>9. CASE error
    <2>1. pte' = pte /\ page' = page - 1 /\ pc' = "rollback"
      BY <1>2, <1>7, <1>9
    <2>2. page - 1 \in EndPage(heap_end) .. LastPage
      BY <1>4, PageConstants DEF HeapPages
    <2>3. HeapInv'
      BY <1>1, <1>3, <1>4, <1>8, <2>1, <2>2 DEF HeapInv
    <2> QED
      BY <1>7, <1>8, <2>3 DEF MemoryInv
  <1>10. CASE ~error
    <2>1. /\ pte'[n] # NULL /\ \A u \in Pages : u # n => pte'[u] = pte[u]
          /\ page' = page + 1 /\ pc' = "grow"
      BY <1>2, <1>3, <1>7, <1>10, StackConstants
    <2>2. MappedTo(pte', n)
      BY <1>4, <1>5, <2>1, MappedUp
    <2>3. page' - 1 = n /\ page' \in EndPage(heap_end) + 1 .. goal + 1
      BY <1>3, <1>4, <1>5, <2>1, PageConstants DEF HeapPages
    <2>4. HeapInv'
      BY <1>1, <1>3, <1>8, <2>1, <2>2, <2>3 DEF HeapInv
    <2> QED
      BY <1>7, <1>8, <2>4 DEF MemoryInv
  <1> QED
    BY <1>9, <1>10

LEMMA GrowDoneStep ==
    ASSUME MemoryInv, GrowDone
    PROVE  MemoryInv'
  <1>1. FrameTypeOK /\ NumberTypeOK /\ FrameInv /\ HeapInv
    BY DEF MemoryInv
  <1>2. /\ pc = "grow" /\ pc' = "idle" /\ page > goal
        /\ kernel_heap_size' = kernel_heap_size + amount
        /\ UNCHANGED <<memVars, held, todo>> /\ page' = page /\ goal' = goal /\ amount' = amount
        /\ pte' = pte
    BY DEF GrowDone, memVars, locals
  <1>3. FrameTypeOK' /\ FrameInv'
    BY <1>1, <1>2, NoPageStep
  <1>4. /\ amount \in Nat \ {0} /\ heap_end + amount < KERNEL_HEAP_LIMIT
        /\ goal = EndPage(heap_end + amount) /\ goal \in HeapPages
        /\ page \in EndPage(heap_end) + 1 .. goal + 1 /\ page \in Int
        /\ EndPage(heap_end) \in Nat /\ MappedTo(pte, page - 1)
    BY <1>1, <1>2, GrowFacts
  <1>5. page - 1 = goal
    BY <1>2, <1>4, PageConstants DEF HeapPages
  <1>6. /\ heap_end' = heap_end + amount /\ kernel_heap_size \in Nat
        /\ kernel_heap_size >= KERNEL_INITIAL_HEAP_SIZE
    BY <1>1, <1>2, <1>4, PageConstants DEF heap_end, NumberTypeOK, HeapInv
  <1>7. NumberTypeOK' /\ kernel_heap_size' >= KERNEL_INITIAL_HEAP_SIZE
    BY <1>1, <1>2, <1>4, <1>6, PageConstants DEF NumberTypeOK
  <1>8. HeapInv'
    BY <1>2, <1>4, <1>5, <1>6, <1>7 DEF HeapInv
  <1> QED
    BY <1>3, <1>7, <1>8 DEF MemoryInv

LEMMA RollbackPageStep ==
    ASSUME MemoryInv, RollbackPage
    PROVE  MemoryInv'
  <1>1. FrameTypeOK /\ NumberTypeOK /\ FrameInv /\ HeapInv
    BY DEF MemoryInv
  <1>2. /\ pc = "rollback" /\ pc' = pc /\ page > EndPage(heap_end) /\ memory_free_page(page)
        /\ page' = page - 1 /\ goal' = goal /\ amount' = amount
        /\ kernel_heap_size' = kernel_heap_size /\ held' = held /\ todo' = todo
    BY DEF RollbackPage
  <1>3. /\ page \in EndPage(heap_end) .. LastPage /\ MappedTo(pte, page) /\ page \in Int
        /\ EndPage(heap_end) \in HeapPages /\ EndPage(heap_end) \in Nat
    BY <1>1, <1>2, HeapFacts DEF HeapInv, NumberTypeOK
  <1>4. page \in HeapPages
    BY <1>3, PageConstants DEF HeapPages
  <1>5. PICK n \in HeapPages : n = page
    BY <1>4
  <1>6. memory_free_page(n)
    BY <1>2, <1>5
  <1>7. pte[n] \in Frames
    BY <1>1, <1>6 DEF FrameTypeOK, memory_free_page
  <1>8. /\ FrameTypeOK' /\ FrameInv'
        /\ pte'[n] = NULL /\ \A u \in Pages : u # n => pte'[u] = pte[u]
    BY <1>1, <1>2, <1>6, <1>7, FreeKeeps
  <1>9. NumberTypeOK' /\ heap_end' = heap_end
    BY <1>1, <1>2 DEF NumberTypeOK, heap_end
  <1>10. MappedTo(pte', n - 1)
    BY <1>3, <1>5, <1>8, MappedDown
  <1>11. page' = n - 1 /\ page' \in EndPage(heap_end) .. LastPage
    BY <1>2, <1>3, <1>5, PageConstants
  <1>12. HeapInv'
    BY <1>1, <1>2, <1>9, <1>10, <1>11 DEF HeapInv
  <1> QED
    BY <1>8, <1>9, <1>12 DEF MemoryInv

LEMMA RollbackDoneStep ==
    ASSUME MemoryInv, RollbackDone
    PROVE  MemoryInv'
  <1>1. FrameTypeOK /\ NumberTypeOK /\ FrameInv /\ HeapInv
    BY DEF MemoryInv
  <1>2. /\ pc = "rollback" /\ pc' = "idle" /\ page <= EndPage(heap_end)
        /\ page' = page /\ goal' = goal /\ amount' = amount /\ pte' = pte
        /\ kernel_heap_size' = kernel_heap_size /\ UNCHANGED <<memVars, held, todo>>
    BY DEF RollbackDone, memVars, locals
  <1>3. FrameTypeOK' /\ FrameInv'
    BY <1>1, <1>2, NoPageStep
  <1>4. MappedTo(pte, page) /\ page = EndPage(heap_end)
    <2>1. /\ page \in EndPage(heap_end) .. LastPage /\ MappedTo(pte, page) /\ page \in Int
          /\ EndPage(heap_end) \in Nat
      BY <1>1, <1>2, HeapFacts DEF HeapInv, NumberTypeOK
    <2> QED
      BY <1>2, <2>1, PageConstants
  <1>5. NumberTypeOK' /\ heap_end' = heap_end
    BY <1>1, <1>2 DEF NumberTypeOK, heap_end
  <1>6. HeapInv'
    BY <1>1, <1>2, <1>4, <1>5 DEF HeapInv
  <1> QED
    BY <1>3, <1>5, <1>6 DEF MemoryInv

(* The end of a heap that shrinks by n.                                    *)
LEMMA ShrinkBounds ==
    ASSUME NumberTypeOK, HeapInv, NEW n \in Nat,
           kernel_heap_size - n >= KERNEL_INITIAL_HEAP_SIZE
    PROVE  /\ heap_end - n \in Nat \ {0} /\ heap_end - n < KERNEL_HEAP_LIMIT
           /\ EndPage(heap_end - n) \in HeapPages
           /\ EndPage(heap_end - n) <= EndPage(heap_end)
  <1> DEFINE e == heap_end - n
  <1>1. /\ heap_end \in Nat \ {0} /\ heap_end < KERNEL_HEAP_LIMIT /\ kernel_heap_addr \in Nat
        /\ kernel_heap_size \in Nat /\ heap_end = kernel_heap_addr + kernel_heap_size
    BY HeapFacts DEF NumberTypeOK, heap_end
  <1>2. KERNEL_INITIAL_HEAP_SIZE \in Nat \ {0} /\ KERNEL_HEAP_LIMIT \in Nat
    BY PageConstants
  <1>3. /\ e \in Nat \ {0} /\ e > kernel_heap_addr /\ e < KERNEL_HEAP_LIMIT /\ e <= heap_end
    BY <1>1, <1>2
  <1> HIDE DEF e
  <1>4. EndPage(e) \in HeapPages /\ EndPage(e) <= EndPage(heap_end)
    BY <1>1, <1>3, EndPageBounds, EndPageMonotone
  <1> QED
    BY <1>3, <1>4 DEF e

LEMMA HeapShrinkStep ==
    ASSUME MemoryInv, NEW diff \in Differences, HeapShrink(diff)
    PROVE  MemoryInv'
  <1>1. FrameTypeOK /\ NumberTypeOK /\ FrameInv /\ HeapInv
    BY DEF MemoryInv
  <1>2. /\ pc = "idle" /\ pc' = "shrink" /\ diff < 0
        /\ kernel_heap_size + diff >= KERNEL_INITIAL_HEAP_SIZE
        /\ amount' = -diff /\ page' = EndPage(heap_end) /\ goal' = EndPage(heap_end + diff)
        /\ UNCHANGED <<memVars, held, todo>> /\ kernel_heap_size' = kernel_heap_size /\ pte' = pte
    BY DEF HeapShrink, memVars
  <1>3. FrameTypeOK' /\ FrameInv'
    BY <1>1, <1>2, NoPageStep
  <1>4. diff \in Int /\ kernel_heap_size \in Nat /\ heap_end \in Nat
    BY <1>1, MemoryAssumption, HeapFacts DEF NumberTypeOK
  <1>5. PICK n \in Nat : n = -diff
    BY <1>2, <1>4
  <1>6. n > 0 /\ kernel_heap_size - n >= KERNEL_INITIAL_HEAP_SIZE /\ heap_end + diff = heap_end - n
    BY <1>2, <1>4, <1>5, PageConstants
  <1>7. EndPage(heap_end - n) \in HeapPages /\ EndPage(heap_end - n) <= EndPage(heap_end)
    BY <1>1, <1>6, ShrinkBounds
  <1>8. EndPage(heap_end) \in Nat /\ EndPage(heap_end - n) \in Int
    BY <1>1, <1>7, HeapFacts, PageConstants DEF HeapPages
  <1>9. NumberTypeOK' /\ heap_end' = heap_end /\ amount' = n /\ goal' = EndPage(heap_end - n)
    BY <1>1, <1>2, <1>5, <1>6, <1>8 DEF NumberTypeOK, heap_end
  <1>10. page' \in goal' .. EndPage(heap_end) /\ MappedTo(pte, EndPage(heap_end))
    BY <1>1, <1>2, <1>7, <1>8, <1>9 DEF HeapInv
  <1>11. HeapInv'
    BY <1>1, <1>2, <1>6, <1>9, <1>10 DEF HeapInv
  <1> QED
    BY <1>3, <1>9, <1>11 DEF MemoryInv

(* The heap while it shrinks.                                              *)
LEMMA ShrinkFacts ==
    ASSUME NumberTypeOK, HeapInv, pc = "shrink"
    PROVE  /\ amount \in Nat \ {0} /\ kernel_heap_size - amount >= KERNEL_INITIAL_HEAP_SIZE
           /\ goal = EndPage(heap_end - amount) /\ goal \in HeapPages
           /\ heap_end - amount < KERNEL_HEAP_LIMIT
           /\ page \in goal .. EndPage(heap_end) /\ page \in HeapPages /\ page \in Int
           /\ MappedTo(pte, page) /\ EndPage(heap_end) \in Nat
  <1>1. /\ amount \in Nat \ {0} /\ kernel_heap_size - amount >= KERNEL_INITIAL_HEAP_SIZE
        /\ goal = EndPage(heap_end - amount)
        /\ page \in goal .. EndPage(heap_end) /\ page \in Int
        /\ MappedTo(pte, page)
    BY DEF HeapInv, NumberTypeOK
  <1>2. PICK n \in Nat : n = amount
    BY <1>1
  <1>3. EndPage(heap_end - n) \in HeapPages /\ heap_end - n < KERNEL_HEAP_LIMIT
    BY <1>1, <1>2, ShrinkBounds
  <1>4. EndPage(heap_end) \in HeapPages /\ EndPage(heap_end) \in Nat
    BY HeapFacts
  <1>5. goal \in HeapPages
    BY <1>1, <1>2, <1>3
  <1>6. page \in HeapPages
    BY <1>1, <1>4, <1>5, PageConstants DEF HeapPages
  <1> QED
    BY <1>1, <1>2, <1>3, <1>4, <1>5, <1>6

LEMMA ShrinkPageStep ==
    ASSUME MemoryInv, ShrinkPage
    PROVE  MemoryInv'
  <1>1. FrameTypeOK /\ NumberTypeOK /\ FrameInv /\ HeapInv
    BY DEF MemoryInv
  <1>2. /\ pc = "shrink" /\ pc' = pc /\ page > goal /\ memory_free_page(page)
        /\ page' = page - 1 /\ goal' = goal /\ amount' = amount
        /\ kernel_heap_size' = kernel_heap_size /\ held' = held /\ todo' = todo
    BY DEF ShrinkPage
  <1>3. /\ page \in goal .. EndPage(heap_end) /\ page \in HeapPages /\ page \in Int
        /\ goal \in HeapPages /\ MappedTo(pte, page) /\ EndPage(heap_end) \in Nat
    BY <1>1, <1>2, ShrinkFacts
  <1>4. PICK n \in HeapPages : n = page
    BY <1>3
  <1>5. memory_free_page(n)
    BY <1>2, <1>4
  <1>6. pte[n] \in Frames
    BY <1>1, <1>5 DEF FrameTypeOK, memory_free_page
  <1>7. /\ FrameTypeOK' /\ FrameInv'
        /\ pte'[n] = NULL /\ \A u \in Pages : u # n => pte'[u] = pte[u]
    BY <1>1, <1>2, <1>5, <1>6, FreeKeeps
  <1>8. NumberTypeOK' /\ heap_end' = heap_end
    BY <1>1, <1>2 DEF NumberTypeOK, heap_end
  <1>9. MappedTo(pte', n - 1)
    BY <1>3, <1>4, <1>7, MappedDown
  <1>10. page' = n - 1 /\ page' \in goal .. EndPage(heap_end)
    BY <1>2, <1>3, <1>4, PageConstants DEF HeapPages
  <1>11. HeapInv'
    BY <1>1, <1>2, <1>8, <1>9, <1>10 DEF HeapInv
  <1> QED
    BY <1>7, <1>8, <1>11 DEF MemoryInv

LEMMA ShrinkDoneStep ==
    ASSUME MemoryInv, ShrinkDone
    PROVE  MemoryInv'
  <1>1. FrameTypeOK /\ NumberTypeOK /\ FrameInv /\ HeapInv
    BY DEF MemoryInv
  <1>2. /\ pc = "shrink" /\ pc' = "idle" /\ page <= goal
        /\ kernel_heap_size' = kernel_heap_size - amount
        /\ UNCHANGED <<memVars, held, todo>> /\ page' = page /\ goal' = goal /\ amount' = amount
        /\ pte' = pte
    BY DEF ShrinkDone, memVars, locals
  <1>3. FrameTypeOK' /\ FrameInv'
    BY <1>1, <1>2, NoPageStep
  <1>4. /\ amount \in Nat \ {0} /\ kernel_heap_size - amount >= KERNEL_INITIAL_HEAP_SIZE
        /\ goal = EndPage(heap_end - amount) /\ goal \in HeapPages
        /\ heap_end - amount < KERNEL_HEAP_LIMIT
        /\ page \in goal .. EndPage(heap_end) /\ page \in Int
        /\ MappedTo(pte, page) /\ EndPage(heap_end) \in Nat
    BY <1>1, <1>2, ShrinkFacts
  <1>5. page = goal
    BY <1>2, <1>4, PageConstants DEF HeapPages
  <1>6. heap_end' = heap_end - amount /\ kernel_heap_size \in Nat
    BY <1>1, <1>2, <1>4, PageConstants DEF heap_end, NumberTypeOK
  <1>7. NumberTypeOK' /\ kernel_heap_size' >= KERNEL_INITIAL_HEAP_SIZE
    BY <1>1, <1>2, <1>4, <1>6, PageConstants DEF NumberTypeOK
  <1>8. HeapInv'
    BY <1>2, <1>4, <1>5, <1>6, <1>7 DEF HeapInv
  <1> QED
    BY <1>3, <1>7, <1>8 DEF MemoryInv

(* The other users of the memory manager.                                  *)
LEMMA OtherHeap ==
    ASSUME NumberTypeOK, HeapInv, NEW v \in UserPages, pc = "idle",
           \A u \in Pages : u # v => pte'[u] = pte[u],
           UNCHANGED <<kernel_heap_size, locals, pc>>
    PROVE  NumberTypeOK' /\ HeapInv'
  <1>1. /\ kernel_heap_size' = kernel_heap_size /\ pc' = "idle" /\ page' = page
        /\ goal' = goal /\ amount' = amount
    BY DEF locals
  <1>2. MappedTo(pte', EndPage(heap_end))
    BY MappedSame DEF HeapInv
  <1>3. heap_end' = heap_end
    BY <1>1 DEF heap_end
  <1> QED
    BY <1>1, <1>2, <1>3 DEF NumberTypeOK, HeapInv

LEMMA OtherUsersStep ==
    ASSUME MemoryInv, OtherUsers
    PROVE  MemoryInv'
  <1>1. FrameTypeOK /\ NumberTypeOK /\ FrameInv /\ HeapInv
    BY DEF MemoryInv
  <1>2. PICK v \in UserPages :
            \/ AllocatePage(v) \/ FreePage(v) \/ UnmapAddr(v)
            \/ \E frame \in Frames \cup DeviceFrames : MapAddr(v, frame)
    BY DEF OtherUsers
  <1>3. CASE AllocatePage(v)
    <2>1. PICK error \in BOOLEAN : memory_allocate_page(v, error)
      BY <1>3 DEF AllocatePage
    <2>2. pc = "idle" /\ UNCHANGED <<kernel_heap_size, locals, pc>> /\ UNCHANGED <<held, todo>>
      BY <1>3 DEF AllocatePage
    <2>3. /\ FrameTypeOK' /\ FrameInv'
          /\ error => pte' = pte
          /\ ~error => \A u \in Pages : u # v => pte'[u] = pte[u]
      BY <1>1, <2>1, <2>2, AllocateKeeps
    <2>4. \A u \in Pages : u # v => pte'[u] = pte[u]
      BY <2>3
    <2> QED
      BY <1>1, <2>2, <2>3, <2>4, OtherHeap DEF MemoryInv
  <1>4. CASE FreePage(v)
    <2>1. /\ pc = "idle" /\ UNCHANGED <<kernel_heap_size, locals, pc>>
          /\ UNCHANGED <<held, todo, pc>> /\ pte[v] \in Frames /\ memory_free_page(v)
      BY <1>4 DEF FreePage
    <2>2. FrameTypeOK' /\ FrameInv' /\ \A u \in Pages : u # v => pte'[u] = pte[u]
      BY <1>1, <2>1, FreeKeeps
    <2> QED
      BY <1>1, <2>1, <2>2, OtherHeap DEF MemoryInv
  <1>5. CASE UnmapAddr(v)
    <2>1. /\ pc = "idle" /\ UNCHANGED <<kernel_heap_size, locals, pc>>
          /\ UNCHANGED <<todo, pc>> /\ held' = held \cup {pte[v]} /\ memory_unmap_addr(v)
      BY <1>5 DEF UnmapAddr
    <2>2. FrameTypeOK' /\ FrameInv' /\ \A u \in Pages : u # v => pte'[u] = pte[u]
      BY <1>1, <2>1, UnmapAddrKeeps
    <2> QED
      BY <1>1, <2>1, <2>2, OtherHeap DEF MemoryInv
  <1>6. ASSUME NEW f \in Frames \cup DeviceFrames, MapAddr(v, f) PROVE MemoryInv'
    <2>1. PICK error \in BOOLEAN :
              memory_map_addr(v, f, error) /\ held' = IF error THEN held ELSE held \ {f}
      BY <1>6 DEF MapAddr
    <2>2. /\ pc = "idle" /\ UNCHANGED <<kernel_heap_size, locals, pc>>
          /\ UNCHANGED <<todo, pc>> /\ f \in held /\ f \in AllFrames
      BY <1>6 DEF MapAddr, AllFrames
    <2>3. FrameTypeOK' /\ FrameInv' /\ \A u \in Pages : u # v => pte'[u] = pte[u]
      BY <1>1, <2>1, <2>2, MapKeeps
    <2> QED
      BY <1>1, <2>2, <2>3, OtherHeap DEF MemoryInv
  <1> QED
    BY <1>2, <1>3, <1>4, <1>5, <1>6

LEMMA NextMemory ==
    MemoryInv /\ [Next]_vars => MemoryInv'
  <1> SUFFICES ASSUME MemoryInv, [Next]_vars PROVE MemoryInv'
    OBVIOUS
  <1>1. CASE MemoryInit
    BY <1>1, InitPushStep, InitHeapStep, InitDoneStep DEF MemoryInit
  <1>2. CASE HeapCallback
    BY <1>2, HeapGrowStep, HeapShrinkStep, GrowPageStep, GrowDoneStep, RollbackPageStep,
       RollbackDoneStep, ShrinkPageStep, ShrinkDoneStep DEF HeapCallback
  <1>3. CASE OtherUsers
    BY <1>3, OtherUsersStep
  <1>4. CASE UNCHANGED vars
    <2>1. UNCHANGED <<memVars, kernel_heap_size, held, todo, locals, pc>>
      BY <1>4 DEF vars
    <2>2. FrameTypeOK' /\ FrameInv'
      BY <2>1, NoPageStep DEF MemoryInv
    <2>3. NumberTypeOK' /\ HeapInv'
      BY <2>1 DEF MemoryInv, NumberTypeOK, HeapInv, heap_end, memVars, locals
    <2> QED
      BY <2>2, <2>3 DEF MemoryInv
  <1> QED
    BY <1>1, <1>2, <1>3, <1>4 DEF Next

---------------------------------------------------------------------------
(* The frames on the stack when a pop fails, and when the second of two    *)
(* pops does.                                                              *)
MappedPages(ps) == {p \in DOMAIN ps.map : ps.map[p] # NULL}

LEMMA PopFails ==
    ASSUME NEW ps, StackOK(ps), pstack_pop(ps).error
    PROVE  ps.depth = 0 /\ MappedPages(ps) = {}
  <1>1. ps \in Stack /\ ps.depth \in Nat /\ DOMAIN ps.map = StackPages
    BY StackTypes DEF StackOK
  <1>2. ps.depth = 0 /\ ~(AtBorder(ps) /\ NextMapped(ps))
    BY DEF pstack_pop
  <1>3. AtBorder(ps) /\ NextPage(ps) = 0 /\ ~StackFull(ps)
    BY <1>2, StackConstants DEF AtBorder, NextPage, StackFull
  <1>4. ps.map[0] = NULL
    BY <1>2, <1>3 DEF NextMapped
  <1>5. ASSUME NEW p \in StackPages, ps.map[p] # NULL PROVE FALSE
    <2>1. p * SLOTS <= 0
      BY <1>2, <1>5 DEF StackOK, Backed
    <2>2. p \in Nat
      BY StackConstants DEF StackPages
    <2>3. CASE p = 0
      BY <1>4, <1>5, <2>3
    <2>4. CASE 0 < p
      <3>1. 0 * SLOTS + SLOTS <= p * SLOTS
        BY <2>2, <2>4, StackConstants, TimesMonotone
      <3>2. p * SLOTS \in Int /\ 0 * SLOTS = 0 /\ SLOTS \in Nat \ {0}
        BY <2>2, StackConstants
      <3> QED
        BY <2>1, <3>1, <3>2
    <2> QED
      BY <2>2, <2>3, <2>4
  <1> QED
    BY <1>1, <1>2, <1>5 DEF MappedPages

LEMMA SecondPopFails ==
    ASSUME NEW ps, StackOK(ps), ~pstack_pop(ps).error, pstack_pop(pstack_pop(ps).ps).error
    PROVE  ps.depth = 0 /\ \E q : MappedPages(ps) = {q}
  <1> DEFINE n == pstack_pop(ps).ps
  <1>1. StackOK(n)
    BY PopKeeps
  <1>2. n.depth = 0 /\ MappedPages(n) = {}
    BY <1>1, PopFails
  <1>3. /\ ps \in Stack /\ ps.depth \in Nat
        /\ ps.map \in [StackPages -> Frames \cup {NULL}]
        /\ ps = [depth |-> ps.depth, map |-> ps.map, slot |-> ps.slot]
    BY StackTypes DEF StackOK
  <1>4. CASE AtBorder(ps) /\ NextMapped(ps)
    <2>1. n = Unmap(ps)
      BY <1>4 DEF pstack_pop, Unmap
    <2>2. n.depth = ps.depth /\ n.map = [ps.map EXCEPT ![NextPage(ps)] = NULL]
      BY <1>3, <2>1 DEF Unmap
    <2>3. NextPage(ps) \in StackPages /\ ps.map[NextPage(ps)] # NULL
      BY <1>3, <1>4, NextPageFacts DEF NextMapped
    <2> HIDE DEF n
    <2>4. \A p \in StackPages : p # NextPage(ps) => ps.map[p] = NULL
      BY <1>2, <1>3, <2>2 DEF MappedPages
    <2>5. MappedPages(ps) = {NextPage(ps)}
      BY <1>3, <2>3, <2>4 DEF MappedPages
    <2> QED
      BY <1>2, <2>2, <2>5
  <1>5. CASE ~(AtBorder(ps) /\ NextMapped(ps))
    <2>1. ps.depth # 0 /\ n = Drop(ps)
      BY <1>5 DEF pstack_pop, Drop
    <2>2. n.depth = ps.depth - 1 /\ n.map = ps.map
      BY <1>3, <2>1 DEF Drop
    <2> HIDE DEF n
    <2>3. 0 \in 0 .. ps.depth - 1
      BY <1>3, <2>1
    <2>4. ps.map[0 \div SLOTS] # NULL
      BY <2>3 DEF StackOK, Backed
    <2>5. 0 \in Slots
      BY StackConstants DEF Slots
    <2>6. 0 \div SLOTS \in StackPages
      BY <2>5, SlotPage
    <2> QED
      BY <1>2, <1>3, <2>2, <2>4, <2>6 DEF MappedPages
  <1> QED
    BY <1>4, <1>5

(* An allocation for the heap is refused only without frames.              *)
LEMMA RefusedStep ==
    ASSUME MemoryInv, GrowPage, pc' = "rollback"
    PROVE  FreeFrames < (IF ptable_is_set(page) THEN 1 ELSE 2)
  <1>1. FrameTypeOK /\ NumberTypeOK /\ FrameInv /\ HeapInv /\ StackOK(pstack) /\ TableInv
    BY DEF MemoryInv, FrameInv
  <1>2. memory_allocate_page(page, TRUE) /\ pc = "grow" /\ page <= goal
    BY DEF GrowPage
  <1>3. page \in HeapPages /\ page \in Int /\ MappedTo(pte, page - 1)
    BY <1>1, <1>2, GrowFacts
  <1>4. ~page_is_mapped(page)
    <2>1. pte[page] = NULL
      BY <1>3 DEF MappedTo
    <2>2. PTABLE_PDE_NUM(page) \in Tables
      BY <1>3, PageFacts
    <2>3. PTABLE_PDE_NUM(page) \in Nat /\ PTABLE_PDE_NUM(page) >= PTABLE_PDE_NUM(KERNEL_PAGE)
          /\ PTABLE_PDE_NUM(KERNEL_PAGE) \in Nat
      BY <1>3, <2>2, PageFacts
    <2>4. pde[PTABLE_PDE_NUM(page)] # LARGE
      BY <1>1, <2>2, <2>3 DEF TableInv
    <2> QED
      BY <2>1, <2>4 DEF page_is_mapped
  <1>5. FreeFrames = pstack.depth + Cardinality(MappedPages(pstack))
    BY DEF FreeFrames, MappedPages
  <1>6. CASE pstack_pop(pstack).error
    <2>1. pstack.depth = 0 /\ MappedPages(pstack) = {}
      BY <1>1, <1>6, PopFails
    <2>2. FreeFrames = 0
      BY <1>5, <2>1, FS_EmptySet
    <2> QED
      BY <2>2
  <1>7. CASE ~pstack_pop(pstack).error
    <2>1. ~ptable_is_set(page) /\ pstack_pop(pstack_pop(pstack).ps).error
      BY <1>2, <1>4, <1>7 DEF memory_allocate_page
    <2>2. pstack.depth = 0 /\ \E q : MappedPages(pstack) = {q}
      BY <1>1, <1>7, <2>1, SecondPopFails
    <2>3. FreeFrames = 1
      <3>1. PICK q : MappedPages(pstack) = {q}
        BY <2>2
      <3>2. Cardinality({q}) = 1
        BY FS_Singleton
      <3> QED
        BY <1>5, <2>2, <3>1, <3>2
    <2> QED
      BY <2>1, <2>3
  <1> QED
    BY <1>6, <1>7

(* The five places of OwnedOnce are those of FrameOwnedOnce.               *)
LEMMA PlaceForms ==
    ASSUME NEW a \in Places
    PROVE  \/ \E k \in 0 .. pstack.depth - 1 : a = <<"slot", k>> /\ At(a) = pstack.slot[k]
           \/ \E p \in StackPages : a = <<"stack", p>> /\ At(a) = pstack.map[p]
           \/ \E t \in Tables : a = <<"table", t>> /\ At(a) = pde[t]
           \/ \E v \in Pages : a = <<"page", v>> /\ At(a) = pte[v]
  BY DEF Places, At, StackPages

LEMMA PlacesExist ==
    /\ \A k \in 0 .. pstack.depth - 1 : <<"slot", k>> \in Places /\ At(<<"slot", k>>) = pstack.slot[k]
    /\ \A p \in StackPages : <<"stack", p>> \in Places /\ At(<<"stack", p>>) = pstack.map[p]
    /\ \A t \in Tables : <<"table", t>> \in Places /\ At(<<"table", t>>) = pde[t]
    /\ \A v \in Pages : <<"page", v>> \in Places /\ At(<<"page", v>>) = pte[v]
  BY DEF Places, At, StackPages

LEMMA OneOwner ==
    ASSUME MemoryInv
    PROVE  FrameOwnedOnce
  <1>1. StackOK(pstack) /\ OwnedOnce(pstack, pde, pte, held, todo)
    BY DEF MemoryInv, FrameInv
  <1> SUFFICES ASSUME NEW f \in AllFrames
               PROVE  LET places == {place \in Places : At(place) = f} IN
                      IF f \in held \cup todo THEN places = {} ELSE Cardinality(places) = 1
    BY DEF FrameOwnedOnce, AllFrames
  <1> DEFINE places == {place \in Places : At(place) = f}
  <1>2. f # NULL /\ f \notin {IMAGE, LARGE} /\ (IsTable(pde, f) => f \in Frames)
    <2>1. \A t \in Tables : pde[t] \in Frames \cup {IMAGE, LARGE, NULL}
      BY DEF MemoryInv, FrameTypeOK
    <2> QED
      BY <2>1, PageConstants DEF IsTable
  <1>3. \A a \in places : \/ OnStack(pstack, f) /\ a[1] \in {"slot", "stack"}
                          \/ IsTable(pde, f) /\ a[1] = "table"
                          \/ IsMapped(pte, f) /\ a[1] = "page"
    <2> SUFFICES ASSUME NEW a \in places
                 PROVE  \/ OnStack(pstack, f) /\ a[1] \in {"slot", "stack"}
                        \/ IsTable(pde, f) /\ a[1] = "table"
                        \/ IsMapped(pte, f) /\ a[1] = "page"
      OBVIOUS
    <2>1. a \in Places /\ At(a) = f
      OBVIOUS
    <2> QED
      BY <2>1, PlaceForms DEF OnStack, IsTable, IsMapped
  <1>4. CASE f \in held \cup todo
    <2>1. ~OnStack(pstack, f) /\ ~IsTable(pde, f) /\ ~IsMapped(pte, f)
      BY <1>1, <1>4 DEF OwnedOnce
    <2>2. places = {}
      BY <1>3, <2>1
    <2> QED
      BY <1>4, <2>2
  <1>5. CASE f \notin held \cup todo
    <2>1. \E a \in places : TRUE
      <3>1. OnStack(pstack, f) \/ IsTable(pde, f) \/ IsMapped(pte, f)
        BY <1>1, <1>5 DEF OwnedOnce
      <3> QED
        BY <3>1, PlacesExist DEF OnStack, IsTable, IsMapped
    <2>2. ASSUME NEW a \in places, NEW b \in places PROVE a = b
      <3>1. a \in Places /\ At(a) = f /\ b \in Places /\ At(b) = f
        OBVIOUS
      <3>2. /\ OnStack(pstack, f) => ~IsTable(pde, f) /\ ~IsMapped(pte, f)
            /\ IsTable(pde, f) => ~IsMapped(pte, f)
        BY <1>1 DEF OwnedOnce
      <3>3. CASE OnStack(pstack, f)
        <4>1. a[1] \in {"slot", "stack"} /\ b[1] \in {"slot", "stack"}
          BY <1>3, <3>2, <3>3
        <4>2. /\ \/ \E k \in 0 .. pstack.depth - 1 : a = <<"slot", k>> /\ f = pstack.slot[k]
                 \/ \E p \in StackPages : a = <<"stack", p>> /\ f = pstack.map[p]
              /\ \/ \E k \in 0 .. pstack.depth - 1 : b = <<"slot", k>> /\ f = pstack.slot[k]
                 \/ \E p \in StackPages : b = <<"stack", p>> /\ f = pstack.map[p]
          BY <3>1, <4>1, PlaceForms
        <4>3. Distinct(pstack)
          BY <1>1 DEF StackOK
        <4> QED
          BY <1>2, <4>2, <4>3 DEF Distinct
      <3>4. CASE IsTable(pde, f)
        <4>1. a[1] = "table" /\ b[1] = "table"
          BY <1>3, <3>2, <3>4
        <4>2. /\ \E t \in Tables : a = <<"table", t>> /\ f = pde[t]
              /\ \E t \in Tables : b = <<"table", t>> /\ f = pde[t]
          BY <3>1, <4>1, PlaceForms
        <4> QED
          BY <1>1, <1>2, <3>4, <4>2 DEF OwnedOnce
      <3>5. CASE IsMapped(pte, f)
        <4>1. a[1] = "page" /\ b[1] = "page"
          BY <1>3, <3>2, <3>5
        <4>2. /\ \E v \in Pages : a = <<"page", v>> /\ f = pte[v]
              /\ \E v \in Pages : b = <<"page", v>> /\ f = pte[v]
          BY <3>1, <4>1, PlaceForms
        <4> QED
          BY <1>1, <4>2 DEF OwnedOnce
      <3> QED
        BY <1>3, <3>3, <3>4, <3>5
    <2>3. PICK a \in places : TRUE
      BY <2>1
    <2>4. places = {a}
      BY <2>2, <2>3
    <2>5. Cardinality(places) = 1
      BY <2>4, FS_Singleton
    <2> QED
      BY <1>5, <2>5
  <1> QED
    BY <1>4, <1>5

LEMMA HeapExact ==
    ASSUME MemoryInv
    PROVE  HeapMapped
  <1> SUFFICES ASSUME pc = "idle"
               PROVE  /\ \A v \in HEAP_PAGE .. LastPage : pte[v] # NULL <=> v * PAGE_SIZE < heap_end
                      /\ kernel_heap_size >= KERNEL_INITIAL_HEAP_SIZE
                      /\ heap_end < KERNEL_HEAP_LIMIT
    BY DEF HeapMapped
  <1>1. \A v \in Int : v <= EndPage(heap_end) <=> v * PAGE_SIZE < heap_end
    BY HeapFacts DEF MemoryInv
  <1>2. MappedTo(pte, EndPage(heap_end)) /\ kernel_heap_size >= KERNEL_INITIAL_HEAP_SIZE
        /\ heap_end < KERNEL_HEAP_LIMIT
    BY DEF MemoryInv, HeapInv
  <1>3. HeapPages \subseteq Int
    BY PageConstants DEF HeapPages
  <1> QED
    BY <1>1, <1>2, <1>3 DEF MappedTo, HeapPages

---------------------------------------------------------------------------
(* MemoryInv is an invariant of the memory manager: its stack, page tables *)
(* and heap agree in every state of memory_init, of heap_callback, also in *)
(* the middle of a growth, a rollback or a shrink, and of other users.     *)
THEOREM MemoryInvariance ==
    Spec => []MemoryInv
  <1>1. Init => MemoryInv
    BY InitMemory
  <1>2. MemoryInv /\ [Next]_vars => MemoryInv'
    BY NextMemory
  <1> QED
    BY <1>1, <1>2, PTL DEF Spec

(* Every frame has exactly one owner, through memory_allocate_page that    *)
(* gives a frame back, borders of the page stack and rollbacks of          *)
(* heap_callback, for any number of frames and any page sizes.             *)
THEOREM FramesOwnedOnce ==
    Spec => []FrameOwnedOnce
  <1>1. MemoryInv => FrameOwnedOnce
    BY OneOwner
  <1> QED
    BY <1>1, MemoryInvariance, PTL

(* pstack_pop reads only entries that were written and whose page is       *)
(* mapped, and the stack keeps at most one page it has no entries in.      *)
THEOREM StackAlwaysBacked ==
    Spec => []StackBacked
  <1>1. MemoryInv => StackBacked
    BY DEF MemoryInv, FrameInv, StackOK, Backed, StackBacked, StackPages
  <1> QED
    BY <1>1, MemoryInvariance, PTL

(* Between two calls of heap_callback exactly the pages of the heap are    *)
(* mapped above the kernel, and the heap stays between its initial size    *)
(* and its limit.                                                          *)
THEOREM HeapMappedExactly ==
    Spec => []HeapMapped
  <1>1. MemoryInv => HeapMapped
    BY HeapExact
  <1> QED
    BY <1>1, MemoryInvariance, PTL

(* heap_callback gives up only when fewer frames are left than a page and  *)
(* its page table need, counting those that hold the page stack.           *)
THEOREM FailsOnlyWhenEmpty ==
    Spec => NoFalseFailure
  <1> DEFINE A == pc = "grow" /\ pc' = "rollback"
                    => FreeFrames < (IF ptable_is_set(page) THEN 1 ELSE 2)
  <1>1. MemoryInv /\ [Next]_vars => [A]_vars
    <2> SUFFICES ASSUME MemoryInv, Next, pc = "grow", pc' = "rollback"
                 PROVE  FreeFrames < (IF ptable_is_set(page) THEN 1 ELSE 2)
      OBVIOUS
    <2>1. GrowPage
      BY DEF Next, MemoryInit, HeapCallback, OtherUsers, InitPush, InitHeap, InitDone, HeapGrow,
         HeapShrink, GrowDone, RollbackPage, RollbackDone, ShrinkPage, ShrinkDone, AllocatePage,
         FreePage, MapAddr, UnmapAddr
    <2> QED
      BY <2>1, RefusedStep
  <1> QED
    BY <1>1, MemoryInvariance, PTL DEF Spec, NoFalseFailure
============================================================================
