------------------------------- MODULE Memory -----------------------------
(***************************************************************************)
(* Page frames, page tables and the kernel heap (kernel/memory.c).         *)
(*                                                                         *)
(* The free frames are kept on a stack that lives in virtual memory of its *)
(* own, below KERNEL_PSTACK_TOP. The stack has no fixed memory: when it    *)
(* grows over a page border the frame that is pushed is mapped as its next *)
(* page, and when it shrinks over one the page itself is popped.           *)
(*                                                                         *)
(* Virtual pages are numbered; page v is an entry of page table            *)
(* v \div PTE_MAX. A frame is a model value and a present entry holds its  *)
(* frame. depth is the number of entries between KERNEL_PSTACK_TOP and     *)
(* pstack_pointer.                                                         *)
(***************************************************************************)
EXTENDS Integers, FiniteSets

CONSTANTS Frames,                 \* the free frames of the memory map
          DeviceFrames,           \* frames memory_map_addr is used for
          SLOTS,                  \* entries in a page of the stack
          STACK_PAGES,            \* pages between PSTACK_BOTTOM and PSTACK_TOP
          PTE_MAX,                \* entries of a page table
          PAGE_SIZE, WORD,        \* vir_bytes is a number modulo WORD
          KERNEL_PAGE,            \* first page of the kernel's address space
          HEAP_PAGE,              \* the page of kernel_end_vir
          KERNEL_HEAP_LIMIT, KERNEL_INITIAL_HEAP_SIZE,
          Differences,            \* arguments of heap_callback
          IMAGE,                  \* a frame or page table of the boot image
          LARGE,                  \* a directory entry with a 4 MB page
          NULL                    \* an entry that is not present

(* The stack area has room for every frame of a 32-bit address space, and  *)
(* the kernel with its initial heap lies below the limit of the heap.      *)
ASSUME MemoryAssumption ==
    /\ IsFiniteSet(Frames) /\ Cardinality(Frames) <= STACK_PAGES * SLOTS
    /\ Frames \cap DeviceFrames = {}
    /\ {IMAGE, LARGE, NULL} \cap (Frames \cup DeviceFrames) = {}
    /\ IMAGE # LARGE /\ IMAGE # NULL /\ LARGE # NULL
    /\ {SLOTS, STACK_PAGES, PTE_MAX, PAGE_SIZE, WORD} \subseteq Nat \ {0}
    /\ {KERNEL_PAGE, KERNEL_HEAP_LIMIT, KERNEL_INITIAL_HEAP_SIZE} \subseteq Nat
    /\ KERNEL_PAGE % PTE_MAX = 0 /\ KERNEL_HEAP_LIMIT % (PTE_MAX * PAGE_SIZE) = 0
    /\ HEAP_PAGE \in KERNEL_PAGE .. KERNEL_PAGE + PTE_MAX - 1
    /\ HEAP_PAGE * PAGE_SIZE + KERNEL_INITIAL_HEAP_SIZE < KERNEL_HEAP_LIMIT
    /\ KERNEL_HEAP_LIMIT < WORD
    /\ KERNEL_INITIAL_HEAP_SIZE > 0 /\ KERNEL_INITIAL_HEAP_SIZE % PAGE_SIZE = 0
    /\ Differences \subseteq 1 - WORD .. WORD - 1

LastPage == (KERNEL_HEAP_LIMIT \div PAGE_SIZE) - 1
Pages == 0 .. LastPage
UserPages == 0 .. KERNEL_PAGE - 1
PTABLE_PDE_NUM(v) == v \div PTE_MAX
Tables == 0 .. PTABLE_PDE_NUM(LastPage)

VARIABLES pstack,                 \* the page stack: depth, map and slot
          pde,                    \* page directory: table |-> frame
          pte,                    \* page tables: page |-> frame
          kernel_heap_size,
          held,                   \* frames that belong to callers, not mapped
          todo,                   \* frames memory_init has yet to push
          page, goal, amount,     \* locals of memory_init and heap_callback
          pc

memVars == <<pstack, pde, pte>>
locals == <<page, goal, amount>>
vars == <<memVars, kernel_heap_size, held, todo, locals, pc>>

---------------------------------------------------------------------------
page_is_mapped(v) == pde[PTABLE_PDE_NUM(v)] = LARGE \/ pte[v] # NULL
ptable_is_set(v) == pde[PTABLE_PDE_NUM(v)] \notin {NULL, LARGE}

(* The page stack. Its page table is part of the boot image, so set_page   *)
(* does not fail for it. NextPage is the page of pstack_pointer - 1.       *)
AtBorder(ps) == ps.depth % SLOTS = 0
NextPage(ps) == ps.depth \div SLOTS
StackFull(ps) == ps.depth = STACK_PAGES * SLOTS
NextMapped(ps) == ~StackFull(ps) /\ ps.map[NextPage(ps)] # NULL

(* What a new page of the stack holds is unknown. Write is the new entry.  *)
MapNext(ps, frame) ==
    [depth |-> ps.depth,
     map |-> [ps.map EXCEPT ![NextPage(ps)] = frame],
     slot |-> [k \in DOMAIN ps.slot |->
                  IF k \div SLOTS = NextPage(ps) THEN NULL ELSE ps.slot[k]]]

Write(ps, frame) ==
    [depth |-> ps.depth + 1, map |-> ps.map, slot |-> [ps.slot EXCEPT ![ps.depth] = frame]]

(* A name that ends in a fault is a faulty variant of the operator that    *)
(* follows it, used to show that a property would notice the fault.        *)
pstack_push_maps_no_page(ps, frame) ==
    IF StackFull(ps) THEN [error |-> TRUE, ps |-> ps]
    ELSE [error |-> FALSE, ps |-> Write(ps, frame)]

pstack_push(ps, frame) ==
    IF StackFull(ps) THEN [error |-> TRUE, ps |-> ps]
    ELSE IF AtBorder(ps) /\ ~NextMapped(ps)
    THEN [error |-> FALSE, ps |-> MapNext(ps, frame)]
    ELSE [error |-> FALSE, ps |-> Write(ps, frame)]

pstack_pop_keeps_page(ps) ==
    IF AtBorder(ps) /\ NextMapped(ps)
    THEN [error |-> FALSE, frame |-> ps.map[NextPage(ps)], ps |-> ps]
    ELSE IF ps.depth = 0 THEN [error |-> TRUE, frame |-> NULL, ps |-> ps]
    ELSE [error |-> FALSE, frame |-> ps.slot[ps.depth - 1], ps |-> [ps EXCEPT !.depth = @ - 1]]

pstack_pop_empty_first(ps) ==
    IF ps.depth = 0 THEN [error |-> TRUE, frame |-> NULL, ps |-> ps]
    ELSE IF AtBorder(ps) /\ NextMapped(ps)
    THEN [error |-> FALSE, frame |-> ps.map[NextPage(ps)],
          ps |-> [ps EXCEPT !.map = [@ EXCEPT ![NextPage(ps)] = NULL]]]
    ELSE [error |-> FALSE, frame |-> ps.slot[ps.depth - 1], ps |-> [ps EXCEPT !.depth = @ - 1]]

pstack_pop(ps) ==
    IF AtBorder(ps) /\ NextMapped(ps)
    THEN [error |-> FALSE, frame |-> ps.map[NextPage(ps)],
          ps |-> [ps EXCEPT !.map = [@ EXCEPT ![NextPage(ps)] = NULL]]]
    ELSE IF ps.depth = 0 THEN [error |-> TRUE, frame |-> NULL, ps |-> ps]
    ELSE [error |-> FALSE, frame |-> ps.slot[ps.depth - 1], ps |-> [ps EXCEPT !.depth = @ - 1]]

(* set_page_table with clear set, then set_page of one page in the table.  *)
NewTable(v, table, frame) ==
    /\ pde' = [pde EXCEPT ![PTABLE_PDE_NUM(v)] = table]
    /\ pte' = [u \in Pages |-> IF u = v THEN frame
                               ELSE IF PTABLE_PDE_NUM(u) = PTABLE_PDE_NUM(v) THEN NULL
                               ELSE pte[u]]

memory_allocate_page(v, error) ==
    LET first == pstack_pop(pstack)
        second == pstack_pop(first.ps)
    IN
    \/ /\ page_is_mapped(v) \/ first.error
       /\ error
       /\ UNCHANGED memVars
    \/ /\ ~page_is_mapped(v) /\ ~first.error
       /\ \/ /\ ptable_is_set(v)
             /\ ~error
             /\ pstack' = first.ps
             /\ pte' = [pte EXCEPT ![v] = first.frame]
             /\ UNCHANGED pde
          \/ /\ ~ptable_is_set(v) /\ second.error
             /\ error
             /\ pstack' = pstack_push(first.ps, first.frame).ps
             /\ UNCHANGED <<pde, pte>>
          \/ /\ ~ptable_is_set(v) /\ ~second.error
             /\ ~error
             /\ pstack' = second.ps
             /\ NewTable(v, second.frame, first.frame)

(* memory_free_page of a mapped page. The frame is lost if the push fails. *)
memory_free_page(v) ==
    /\ pte[v] # NULL
    /\ pte' = [pte EXCEPT ![v] = NULL]
    /\ pstack' = pstack_push(pstack, pte[v]).ps
    /\ UNCHANGED pde

memory_map_addr(v, frame, error) ==
    LET first == pstack_pop(pstack) IN
    \/ /\ page_is_mapped(v) \/ (~ptable_is_set(v) /\ first.error)
       /\ error
       /\ UNCHANGED memVars
    \/ /\ ~page_is_mapped(v) /\ ptable_is_set(v)
       /\ ~error
       /\ pte' = [pte EXCEPT ![v] = frame]
       /\ UNCHANGED <<pstack, pde>>
    \/ /\ ~page_is_mapped(v) /\ ~ptable_is_set(v) /\ ~first.error
       /\ ~error
       /\ pstack' = first.ps
       /\ NewTable(v, first.frame, frame)

memory_unmap_addr(v) ==
    /\ pte[v] # NULL
    /\ pte' = [pte EXCEPT ![v] = NULL]
    /\ UNCHANGED <<pstack, pde>>

---------------------------------------------------------------------------
(* memory_init, in the state boot.S leaves: the pages of the kernel are    *)
(* mapped by a page table of the image, everything below by 4 MB pages.    *)
kernel_heap_addr == HEAP_PAGE * PAGE_SIZE

Init ==
    /\ pstack = [depth |-> 0, map |-> [p \in 0 .. STACK_PAGES - 1 |-> NULL],
                 slot |-> [k \in 0 .. STACK_PAGES * SLOTS - 1 |-> NULL]]
    /\ pde = [t \in Tables |->
                IF t < PTABLE_PDE_NUM(KERNEL_PAGE) THEN LARGE
                ELSE IF t = PTABLE_PDE_NUM(KERNEL_PAGE) THEN IMAGE ELSE NULL]
    /\ pte = [v \in Pages |-> IF v \in KERNEL_PAGE .. HEAP_PAGE - 1 THEN IMAGE ELSE NULL]
    /\ kernel_heap_size = KERNEL_INITIAL_HEAP_SIZE
    /\ held = DeviceFrames
    /\ todo = Frames
    /\ page = HEAP_PAGE /\ goal = 0 /\ amount = 0
    /\ pc = "init"

InitPush(frame) ==
    /\ pc = "init" /\ frame \in todo
    /\ pstack' = pstack_push(pstack, frame).ps
    /\ todo' = todo \ {frame}
    /\ UNCHANGED <<pde, pte, kernel_heap_size, held, locals, pc>>

InitHeap ==
    /\ pc = "init" /\ todo = {}
    /\ page * PAGE_SIZE < kernel_heap_addr + kernel_heap_size
    /\ \E error \in BOOLEAN :
          /\ memory_allocate_page(page, error)
          /\ pc' = IF error THEN "panic" ELSE "init"
    /\ page' = page + 1
    /\ UNCHANGED <<kernel_heap_size, held, todo, goal, amount>>

InitDone ==
    /\ pc = "init" /\ todo = {}
    /\ page * PAGE_SIZE >= kernel_heap_addr + kernel_heap_size
    /\ pde' = [t \in Tables |-> IF t < PTABLE_PDE_NUM(KERNEL_PAGE) THEN NULL ELSE pde[t]]
    /\ pc' = "idle"
    /\ UNCHANGED <<pstack, pte, kernel_heap_size, held, todo, locals>>

---------------------------------------------------------------------------
(* heap_callback.                                                          *)
heap_end == kernel_heap_addr + kernel_heap_size
EndPage_exclusive(end) == end \div PAGE_SIZE

EndPage(end) == (end - 1) \div PAGE_SIZE

(* Growth. The sum is computed modulo WORD.                                *)
GrowAllowed(diff) ==
    LET end == (heap_end + diff) % WORD IN end < KERNEL_HEAP_LIMIT /\ end >= heap_end

HeapGrow(diff) ==
    /\ pc = "idle" /\ diff > 0 /\ GrowAllowed(diff)
    /\ amount' = diff
    /\ page' = EndPage(heap_end) + 1
    /\ goal' = EndPage(heap_end + diff)
    /\ pc' = "grow"
    /\ UNCHANGED <<memVars, kernel_heap_size, held, todo>>

GrowPage ==
    /\ pc = "grow" /\ page <= goal
    /\ \E error \in BOOLEAN :
          /\ memory_allocate_page(page, error)
          /\ \/ ~error /\ page' = page + 1 /\ UNCHANGED pc
             \/ error /\ page' = page - 1 /\ pc' = "rollback"
    /\ UNCHANGED <<kernel_heap_size, held, todo, goal, amount>>

GrowDone ==
    /\ pc = "grow" /\ page > goal
    /\ kernel_heap_size' = kernel_heap_size + amount
    /\ pc' = "idle"
    /\ UNCHANGED <<memVars, held, todo, locals>>

(* A page could not be allocated: the ones before it are freed again.      *)
RollbackPage ==
    /\ pc = "rollback" /\ page > EndPage(heap_end)
    /\ memory_free_page(page)
    /\ page' = page - 1
    /\ UNCHANGED <<kernel_heap_size, held, todo, goal, amount, pc>>

RollbackDone ==
    /\ pc = "rollback" /\ page <= EndPage(heap_end)
    /\ pc' = "idle"
    /\ UNCHANGED <<memVars, kernel_heap_size, held, todo, locals>>

(* Shrinking. libk gives back part of the top chunk of the heap, so never  *)
(* more than the heap.                                                     *)
HeapShrink(diff) ==
    /\ pc = "idle" /\ diff < 0 /\ -diff <= kernel_heap_size
    /\ kernel_heap_size + diff >= KERNEL_INITIAL_HEAP_SIZE
    /\ amount' = -diff
    /\ page' = EndPage(heap_end)
    /\ goal' = EndPage(heap_end + diff)
    /\ pc' = "shrink"
    /\ UNCHANGED <<memVars, kernel_heap_size, held, todo>>

ShrinkPage ==
    /\ pc = "shrink" /\ page > goal
    /\ memory_free_page(page)
    /\ page' = page - 1
    /\ UNCHANGED <<kernel_heap_size, held, todo, goal, amount, pc>>

ShrinkDone ==
    /\ pc = "shrink" /\ page <= goal
    /\ kernel_heap_size' = kernel_heap_size - amount
    /\ pc' = "idle"
    /\ UNCHANGED <<memVars, held, todo, locals>>

---------------------------------------------------------------------------
(* Other users of the memory manager, below the kernel's address space.    *)
(* They map frames they hold and free pages they allocated.                *)
AllocatePage(v) ==
    /\ pc = "idle"
    /\ \E error \in BOOLEAN : memory_allocate_page(v, error)
    /\ UNCHANGED <<kernel_heap_size, held, todo, locals, pc>>

FreePage(v) ==
    /\ pc = "idle" /\ pte[v] \in Frames
    /\ memory_free_page(v)
    /\ UNCHANGED <<kernel_heap_size, held, todo, locals, pc>>

MapAddr(v, frame) ==
    /\ pc = "idle" /\ frame \in held
    /\ \E error \in BOOLEAN :
          /\ memory_map_addr(v, frame, error)
          /\ held' = IF error THEN held ELSE held \ {frame}
    /\ UNCHANGED <<kernel_heap_size, todo, locals, pc>>

UnmapAddr(v) ==
    /\ pc = "idle"
    /\ memory_unmap_addr(v)
    /\ held' = held \cup {pte[v]}
    /\ UNCHANGED <<kernel_heap_size, todo, locals, pc>>

MemoryInit == (\E frame \in Frames : InitPush(frame)) \/ InitHeap \/ InitDone

HeapCallback ==
    \/ \E diff \in Differences : HeapGrow(diff) \/ HeapShrink(diff)
    \/ GrowPage \/ GrowDone \/ RollbackPage \/ RollbackDone \/ ShrinkPage \/ ShrinkDone

OtherUsers ==
    \E v \in UserPages :
        \/ AllocatePage(v) \/ FreePage(v) \/ UnmapAddr(v)
        \/ \E frame \in Frames \cup DeviceFrames : MapAddr(v, frame)

Next == MemoryInit \/ HeapCallback \/ OtherUsers

Spec == Init /\ [][Next]_vars

---------------------------------------------------------------------------
(* The places a frame can be in.                                           *)
Places == ({"slot"} \X (0 .. pstack.depth - 1)) \cup ({"stack"} \X (0 .. STACK_PAGES - 1))
            \cup ({"table"} \X Tables) \cup ({"page"} \X Pages)

At(place) == CASE place[1] = "slot"  -> pstack.slot[place[2]]
               [] place[1] = "stack" -> pstack.map[place[2]]
               [] place[1] = "table" -> pde[place[2]]
               [] place[1] = "page"  -> pte[place[2]]

(* Every frame has exactly one owner: it is free on the stack, holds a     *)
(* part of the stack, is a page table, is mapped, or belongs to a caller   *)
(* of memory_unmap_addr. No frame is used for two things, and none is      *)
(* lost, through borders of the stack, failed allocations and rollbacks.   *)
FrameOwnedOnce ==
    \A f \in Frames \cup DeviceFrames :
        LET places == {place \in Places : At(place) = f} IN
        IF f \in held \cup todo THEN places = {} ELSE Cardinality(places) = 1

(* The entries of the stack are in mapped pages (pstack_pop reads them     *)
(* without a check) and have been written since their page was mapped, and *)
(* the stack holds on to at most one page it has no entries in.            *)
StackBacked ==
    /\ \A k \in 0 .. pstack.depth - 1 :
          pstack.map[k \div SLOTS] # NULL /\ pstack.slot[k] \in Frames
    /\ \A p \in 0 .. STACK_PAGES - 1 : pstack.map[p] # NULL => p * SLOTS <= pstack.depth

(* Between two calls exactly the pages of the heap are mapped above the    *)
(* kernel: a growth that fails half way leaves nothing behind, and         *)
(* shrinking gives back every page that is wholly unused. The heap keeps   *)
(* its initial size and stays below its limit.                             *)
HeapMapped ==
    pc = "idle" =>
        /\ \A v \in HEAP_PAGE .. LastPage : pte[v] # NULL <=> v * PAGE_SIZE < heap_end
        /\ kernel_heap_size >= KERNEL_INITIAL_HEAP_SIZE
        /\ heap_end < KERNEL_HEAP_LIMIT

(* Free frames, counted without the stack's own bookkeeping.               *)
FreeFrames == pstack.depth + Cardinality({p \in DOMAIN pstack.map : pstack.map[p] # NULL})

(* A page is only refused when memory has run out: the frames that hold    *)
(* the stack itself are given out like any other.                          *)
NoFalseFailure ==
    [][pc = "grow" /\ pc' = "rollback"
          => FreeFrames < (IF ptable_is_set(page) THEN 1 ELSE 2)]_vars
============================================================================
