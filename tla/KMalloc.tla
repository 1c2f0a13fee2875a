------------------------------ MODULE KMalloc -----------------------------
(***************************************************************************)
(* The heap allocator of libk: kmalloc, kfree, krealloc and kcalloc        *)
(* (lib/libk/src/kstdlib/malloc_free).                                     *)
(*                                                                         *)
(* The unit of sizes and addresses is one size_t word, and heap_start is   *)
(* address 0. A chunk at address a keeps prev_foot in word a and its       *)
(* header in word a + 1; its payload are the words from a + 2 up to and    *)
(* with a + size, so it includes the prev_foot of the next chunk, which is *)
(* only valid while the chunk is free. The last words of the heap are a    *)
(* dummy chunk whose header is 0.                                          *)
(*                                                                         *)
(* km is the struct kmalloc_state together with the memory it manages. A   *)
(* small bin is the sequence of its chunks from the head on and a tree bin *)
(* the set of its chunks: the pointers of both are modelled in Bins. A     *)
(* word that the allocator has no use for any more is forgotten (NULL), so *)
(* reading it would be an error of TLC.                                    *)
(*                                                                         *)
(* Two uses of the code are undefined: an expansion that overwrites a link *)
(* of a chunk before it takes that chunk out of its bin, and a search for  *)
(* a size of the last tree bin. A call that meets one may do anything:     *)
(* undefined is set, and the model ends with the heap before that call.    *)
(***************************************************************************)
EXTENDS Integers, SequencesExt

CONSTANTS TBIN_SHIFT, NTBINS,
          HEAP_SIZE_ALIGN,        \* also HEAP_SHRINK_TRESHOLD
          HEAP_LIMIT,             \* what sbrk can give at most
          WORD,                   \* size_t is a number modulo WORD
          HeapSizes,              \* arguments of kmalloc_init
          Sizes, Resizes,         \* arguments of kmalloc and of krealloc
          Arrays,                 \* arguments of kcalloc
          MAX_LIVE,               \* blocks a caller holds at the same time
          NULL

CHUNK_OVERHEAD == 1
CHUNK_ALIGN_ON == 2
MINCHUNKSIZE == 4
DUMMYSIZE == CHUNK_ALIGN_ON
MIN_LARGE_SIZE == 2 ^ TBIN_SHIFT

(* The words that are told apart: what a caller has stored in its block,   *)
(* and the header of a chunk, its size and flags.                          *)
DATA == [user |-> TRUE]
HEADER == [size : Nat, pinuse : BOOLEAN, cinuse : BOOLEAN]

(* The kernel's heap is a whole number of pages, and small for a size_t.   *)
ASSUME KMallocAssumption ==
    /\ {TBIN_SHIFT, NTBINS, HEAP_SIZE_ALIGN, WORD, MAX_LIVE} \subseteq Nat \ {0}
    /\ HEAP_SIZE_ALIGN % CHUNK_ALIGN_ON = 0 /\ WORD % HEAP_SIZE_ALIGN = 0
    /\ HEAP_LIMIT \in Nat /\ HEAP_LIMIT % CHUNK_ALIGN_ON = 0 /\ 2 * HEAP_LIMIT < WORD
    /\ MINCHUNKSIZE + HEAP_SIZE_ALIGN <= WORD
    /\ HeapSizes \subseteq Nat
    /\ \A s \in HeapSizes : s >= MINCHUNKSIZE + DUMMYSIZE =>
           s % HEAP_SIZE_ALIGN = 0 /\ s <= HEAP_LIMIT
    /\ NULL \notin Nat \cup HEADER \cup {DATA}

VARIABLES km,                     \* the allocator and its memory
          live,                   \* payload |-> words asked for, of the blocks in use
          undefined               \* the last call may have done anything

vars == <<km, live, undefined>>

Words == 0 .. HEAP_LIMIT - 1
NSBINS == MIN_LARGE_SIZE \div CHUNK_ALIGN_ON

RoundUp(n, unit) == (((n + unit - 1) % WORD) \div unit) * unit

REQUEST2SIZE(req) ==
    LET n == (req + CHUNK_OVERHEAD) % WORD
    IN  IF n < MINCHUNKSIZE THEN MINCHUNKSIZE ELSE RoundUp(n, CHUNK_ALIGN_ON)
REQUESTOVERFLOW(req) == REQUEST2SIZE(req) < req

(* What callers ask for. kmalloc refuses a size that overflows, and        *)
(* krealloc does not look; but the rounding in grow_top wraps for sizes    *)
(* that are a little smaller, and so does the product of kcalloc.          *)
RoomToRound(req) == req + CHUNK_OVERHEAD + HEAP_SIZE_ALIGN < WORD

ASSUME RequestsAssumption ==
    /\ Sizes \subseteq 0 .. WORD - 1 /\ Resizes \subseteq 0 .. WORD - 1 /\ Arrays \subseteq Nat \X Nat
    /\ \A array \in Arrays : array[1] * array[2] < WORD
    /\ \A n \in Sizes \cup {array[1] * array[2] : array \in Arrays} : REQUESTOVERFLOW(n) \/ RoomToRound(n)
    /\ \A n \in Resizes : RoomToRound(n)

CHUNK_PAYLOAD(a) == a + 2
PAYLOAD_CHUNK(ptr) == ptr - 2
Header(k, a) == k.mem[a + 1]
GETCHUNKSIZE(k, a) == Header(k, a).size
IS_INUSE(k, a) == Header(k, a).cinuse
PREV_INUSE(k, a) == Header(k, a).pinuse
NEXTCHUNK(k, a) == a + GETCHUNKSIZE(k, a)
CHUNK_PAYLOAD_SIZE(k, a) == GETCHUNKSIZE(k, a) - CHUNK_OVERHEAD
ADDRESS_OK_not_first(k, a) == 0 < a /\ a < k.heap_size
ADDRESS_OK(k, a) == 0 <= a /\ a < k.heap_size

small_index(s) == s \div CHUNK_ALIGN_ON

calc_tbin(s) ==
    IF s < MIN_LARGE_SIZE THEN 0
    ELSE LET msb == CHOOSE m \in 0 .. s : 2 ^ m <= s /\ s < 2 ^ (m + 1)
         IN  Min({2 * (msb - TBIN_SHIFT) + ((s \div 2 ^ (msb - 1)) % 2), NTBINS - 1})

(* What the bins of large chunks need of powers of 2: they are even, and   *)
(* calc_tbin gives every size a bin, and no larger size a smaller one.     *)
ASSUME BinsAssumption ==
    /\ MIN_LARGE_SIZE \in Nat /\ MIN_LARGE_SIZE % CHUNK_ALIGN_ON = 0
    /\ \A s \in 0 .. WORD - 1 : calc_tbin(s) \in 0 .. NTBINS - 1
    /\ \A s, t \in 0 .. WORD - 1 : s <= t => calc_tbin(s) <= calc_tbin(t)

(* The levels of the tree of a bin: the bits by which its sizes differ,    *)
(* but in the last bin. Chunks that are too large for it all lead to the   *)
(* same place there, and insertion gives up when it runs out of bits: a    *)
(* heap must be too small for that many of them (276 MB in the kernel).    *)
TBIN_DEPTH(i) == i \div 2 + TBIN_SHIFT + 1

ASSUME LastBinAssumption ==
    \A s \in Words : calc_tbin(s) = NTBINS - 1 => HEAP_LIMIT < (TBIN_DEPTH(NTBINS - 1) + 1) * s

---------------------------------------------------------------------------
(* Writes to the memory.                                                   *)
SetHeader(k, a, s, p, c) ==
    [k EXCEPT !.mem = [@ EXCEPT ![a + 1] = [size |-> s, pinuse |-> p, cinuse |-> c]]]
SetFree(k, a, s) ==
    [k EXCEPT !.mem = [@ EXCEPT ![a + 1] = [size |-> s, pinuse |-> TRUE, cinuse |-> FALSE],
                                ![a + s] = [foot |-> s]]]
SetDummy(k, a) == SetHeader(k, a, 0, FALSE, FALSE)
SetPinuse(k, a, p) == SetHeader(k, a, GETCHUNKSIZE(k, a), p, IS_INUSE(k, a))
Forget(k, first, last) ==
    [k EXCEPT !.mem = [w \in Words |-> IF first <= w /\ w <= last THEN NULL ELSE @[w]]]

Uninitialised ==
    [mem |-> [w \in Words |-> NULL], heap_start |-> NULL,
     heap_size |-> 0, initial_heap_size |-> 0,
     sbinmap |-> {}, tbinmap |-> {},
     sbin |-> [i \in 0 .. NSBINS - 1 |-> <<>>], tbin |-> [i \in 0 .. NTBINS - 1 |-> {}],
     dVictim |-> NULL, dVictimSize |-> 0, topChunk |-> NULL, topChunkSize |-> 0,
     aborted |-> FALSE]

KMALLOC_IS_INIT(k) == k.heap_start # NULL

kmalloc_init(k, heap_size) ==
    IF MINCHUNKSIZE + DUMMYSIZE > heap_size THEN k
    ELSE LET top_size == heap_size - DUMMYSIZE
         IN  SetDummy(SetFree([Uninitialised EXCEPT
                 !.heap_start = 0, !.heap_size = heap_size, !.initial_heap_size = heap_size,
                 !.topChunk = 0, !.topChunkSize = top_size], 0, top_size), top_size)

---------------------------------------------------------------------------
(* The bins and the designated victim.                                     *)
SetSmall(k, i, list) ==
    [k EXCEPT !.sbin = [@ EXCEPT ![i] = list],
              !.sbinmap = IF list = <<>> THEN @ \ {i} ELSE @ \cup {i}]
SetLarge(k, i, tree) ==
    [k EXCEPT !.tbin = [@ EXCEPT ![i] = tree],
              !.tbinmap = IF tree = {} THEN @ \ {i} ELSE @ \cup {i}]

bin_chunk(k, a) ==
    LET size == GETCHUNKSIZE(k, a)
        si == small_index(size)
        ti == calc_tbin(size)
    IN  IF size < MIN_LARGE_SIZE THEN SetSmall(k, si, <<a>> \o k.sbin[si])
        ELSE SetLarge(k, ti, k.tbin[ti] \cup {a})

unbin_chunk(k, a) ==
    LET size == GETCHUNKSIZE(k, a)
        si == small_index(size)
        ti == calc_tbin(size)
    IN  IF size < MIN_LARGE_SIZE THEN SetSmall(k, si, RemoveFirst(k.sbin[si], a))
        ELSE SetLarge(k, ti, k.tbin[ti] \ {a})

SetVictim(k, a, s) == [k EXCEPT !.dVictim = a, !.dVictimSize = s]
NoVictim(k) == SetVictim(k, NULL, 0)

replace_dv_drops_old(k, new) == SetVictim(k, new, GETCHUNKSIZE(k, new))

replace_dv(k, new) ==
    SetVictim(IF k.dVictim # NULL THEN bin_chunk(k, k.dVictim) ELSE k,
              new, GETCHUNKSIZE(k, new))

(* What the allocating operations return.                                  *)
Nothing(k) == [km |-> k, ptr |-> NULL]
Payload(k, a) == [km |-> k, ptr |-> CHUNK_PAYLOAD(a)]

(* A free chunk a becomes a block as a whole, or its first s words do and  *)
(* the rest stays free.                                                    *)
TakeAll_keeps_pinuse(k, a) == SetHeader(k, a, GETCHUNKSIZE(k, a), PREV_INUSE(k, a), TRUE)

TakeAll(k, a) ==
    SetPinuse(SetHeader(k, a, GETCHUNKSIZE(k, a), PREV_INUSE(k, a), TRUE), NEXTCHUNK(k, a), TRUE)

Split_keeps_size(k, a, s) ==
    SetFree(SetHeader(k, a, GETCHUNKSIZE(k, a), TRUE, TRUE), a + s, GETCHUNKSIZE(k, a) - s)

Split(k, a, s) ==
    SetFree(SetHeader(k, a, s, TRUE, TRUE), a + s, GETCHUNKSIZE(k, a) - s)

allocate_dv(k, s) ==
    IF k.dVictim = NULL \/ k.dVictimSize < s THEN Nothing(k)
    ELSE LET a == k.dVictim
         IN  Payload(IF k.dVictimSize - s < MINCHUNKSIZE THEN NoVictim(TakeAll(k, a))
                     ELSE SetVictim(Split(k, a, s), a + s, k.dVictimSize - s), a)

PopSmall(k, i) == SetSmall(k, i, Tail(k.sbin[i]))

split_sbin(k, i, s) ==
    LET a == Head(k.sbin[i])
    IN  Payload(replace_dv(Split(PopSmall(k, i), a, s), a + s), a)

allocate_sbin(k, i) ==
    LET a == Head(k.sbin[i])
    IN  Payload(TakeAll(PopSmall(k, i), a), a)

allocate_tchunk(k, a, s) ==
    LET rest == unbin_chunk(k, a)
    IN  Payload(IF GETCHUNKSIZE(k, a) - s > MINCHUNKSIZE
                THEN replace_dv(Split(rest, a, s), a + s)
                ELSE TakeAll(rest, a), a)

(* The chunks the searches of a tree may find; TreeSearch of Bins is what  *)
(* they are known to do in a tree with a level for each bit. The tree of   *)
(* the last bin has fewer: its left-most chunks need not be the smallest,  *)
(* and a request may not get what fits (SearchUndefined).                  *)
kmalloc_tree_get_best_fit_exact_only(k, s, i) == {a \in k.tbin[i] : GETCHUNKSIZE(k, a) = s}

kmalloc_tree_get_best_fit(k, s, i) ==
    LET fits == {a \in k.tbin[i] : GETCHUNKSIZE(k, a) >= s}
        exact == {a \in fits : GETCHUNKSIZE(k, a) = s}
    IN  IF exact # {} THEN exact ELSE fits

kmalloc_tree_get_smallest(k, i) ==
    {a \in k.tbin[i] : i < NTBINS - 1 =>
        \A b \in k.tbin[i] : GETCHUNKSIZE(k, a) <= GETCHUNKSIZE(k, b)}

allocate_smallest_tbin(k, s) ==
    {allocate_tchunk(k, a, s) : a \in kmalloc_tree_get_smallest(k, Min(k.tbinmap))}

---------------------------------------------------------------------------
(* The top chunk.                                                          *)
SetTop(k, a, s) == [k EXCEPT !.topChunk = a, !.topChunkSize = s]
SetHeapSize(k, heap_size, top_size) ==
    [k EXCEPT !.heap_size = heap_size, !.topChunkSize = top_size]

(* Growing can always fail, when no callback is set or                     *)
(* memory is short, and then changes nothing; grow_top is the set of the   *)
(* results of growing. The callback that is asked to shrink does not fail  *)
(* (heap_callback of the kernel refuses to go below the initial size, and  *)
(* without a callback the heap has never grown).                           *)
grow_top(k, increment) ==
    LET more == RoundUp(increment, HEAP_SIZE_ALIGN)
        size == k.topChunkSize + more
        end == k.topChunk + size
    IN  IF more > (WORD - 1) \div 2 \/ k.heap_size + more > HEAP_LIMIT THEN {}
        ELSE {SetDummy(SetFree(Forget(SetHeapSize(k, k.heap_size + more, size),
                                      k.topChunk + 1, end), k.topChunk, size), end)}

ShrunkSize_no_treshold(k) ==
    RoundUp(Max({k.heap_size - k.topChunkSize, k.initial_heap_size}), HEAP_SIZE_ALIGN)

ShrunkSize(k) ==
    RoundUp(Max({k.heap_size - (k.topChunkSize - HEAP_SIZE_ALIGN), k.initial_heap_size}),
            HEAP_SIZE_ALIGN)

shrink_top(k) ==
    LET newsize == ShrunkSize(k)
        size == k.topChunkSize - (k.heap_size - newsize)
        less == Forget(SetHeapSize(k, newsize, size), k.topChunk + 1, HEAP_LIMIT)
    IN  IF k.topChunkSize <= HEAP_SIZE_ALIGN \/ k.heap_size < k.initial_heap_size
           \/ newsize = k.heap_size
        THEN k
        ELSE IF size = 0 THEN SetDummy(less, k.topChunk)
        ELSE SetDummy(SetFree(less, k.topChunk, size), k.topChunk + size)

(* A remainder that is too small for a chunk is lost: the dummy moves to   *)
(* the end of the block.                                                   *)
SplitTop_loses_chunk(k, s) ==
    LET a == k.topChunk
        rest == k.topChunkSize - s
    IN  IF rest <= MINCHUNKSIZE
        THEN SetDummy(SetHeader(Forget(SetTop(k, a + s, 0), a + 1, HEAP_LIMIT),
                                a, s, TRUE, TRUE), a + s)
        ELSE SetTop(Split(k, a, s), a + s, rest)

SplitTop(k, s) ==
    LET a == k.topChunk
        rest == k.topChunkSize - s
    IN  IF rest < MINCHUNKSIZE
        THEN SetDummy(SetHeader(Forget(SetTop(k, a + s, 0), a + 1, HEAP_LIMIT),
                                a, s, TRUE, TRUE), a + s)
        ELSE SetTop(Split(k, a, s), a + s, rest)

split_top(k, s) ==
    IF k.topChunkSize >= s THEN {Payload(SplitTop(k, s), k.topChunk)}
    ELSE {Nothing(k)} \cup
         {Payload(SplitTop(grown, s), k.topChunk) : grown \in grow_top(k, s - k.topChunkSize)}

---------------------------------------------------------------------------
(* Merging and expanding chunks.                                           *)
merge_free_chunks(k, first, first_size, next) ==
    LET absorbs == ~IS_INUSE(k, next)
        size == first_size + (IF absorbs THEN GETCHUNKSIZE(k, next) ELSE 0)
        rest == IF absorbs /\ next \notin {k.topChunk, k.dVictim} THEN unbin_chunk(k, next) ELSE k
        free == SetFree(Forget(rest, first + 1, first + size - 1), first, size)
    IN  CASE absorbs /\ next = k.topChunk ->
                 shrink_top(SetTop(IF first = k.dVictim THEN NoVictim(free) ELSE free, first, size))
          [] absorbs /\ next = k.dVictim -> SetVictim(free, first, size)
          [] absorbs /\ next \notin {k.topChunk, k.dVictim} ->
                 IF first = k.dVictim THEN SetVictim(free, first, size) ELSE bin_chunk(free, first)
          [] ~absorbs ->
                 LET held == SetPinuse(free, next, FALSE)
                 IN  IF first = k.dVictim THEN SetVictim(held, first, size)
                     ELSE bin_chunk(held, first)

CanExpand(k, a, new_size) ==
    LET next == NEXTCHUNK(k, a)
    IN  ~IS_INUSE(k, next) /\ GETCHUNKSIZE(k, next) >= new_size - GETCHUNKSIZE(k, a)

(* The words of a binned chunk that unbin_chunk follows: prev only if      *)
(* other chunks share the list, and of a large chunk also left, right,     *)
(* parent and index.                                                       *)
Links(k, b) ==
    LET size == GETCHUNKSIZE(k, b)
        list == IF size < MIN_LARGE_SIZE THEN Range(k.sbin[small_index(size)])
                ELSE {c \in k.tbin[calc_tbin(size)] : GETCHUNKSIZE(k, c) = size}
    IN  {b + 2} \cup (IF list = {b} THEN {} ELSE {b + 3})
                \cup (IF size < MIN_LARGE_SIZE THEN {} ELSE b + 4 .. b + 7)

(* The header of the remainder is written while next is still in its bin.  *)
WritesOverLink(k, a, new_size) ==
    LET next == NEXTCHUNK(k, a)
        free_size == GETCHUNKSIZE(k, next) - (new_size - GETCHUNKSIZE(k, a))
    IN  /\ next \notin {k.topChunk, k.dVictim} /\ free_size > MINCHUNKSIZE
        /\ a + new_size + 1 \in Links(k, next)

(* A remainder of MINCHUNKSIZE or less becomes part of the block.          *)
try_expand_chunk(k, a, new_size) ==
    LET next == NEXTCHUNK(k, a)
        free_size == GETCHUNKSIZE(k, next) - (new_size - GETCHUNKSIZE(k, a))
        new == a + new_size
        split == SetFree(SetHeader(k, a, new_size, PREV_INUSE(k, a), TRUE), new, free_size)
        end == new + free_size
        whole == SetHeader(k, a, new_size + free_size, PREV_INUSE(k, a), TRUE)
        taken == CASE next = k.topChunk -> SetTop(whole, end, 0)
                   [] next = k.dVictim -> NoVictim(whole)
                   [] OTHER -> unbin_chunk(whole, next)
    IN  IF free_size > MINCHUNKSIZE
        THEN CASE next = k.topChunk -> SetTop(split, new, free_size)
               [] next = k.dVictim -> SetVictim(split, new, free_size)
               [] OTHER -> bin_chunk(unbin_chunk(split, next), new)
        ELSE IF GETCHUNKSIZE(taken, end) = 0 THEN taken ELSE SetPinuse(taken, end, TRUE)

---------------------------------------------------------------------------
(* The operations of libk. kmalloc_intern is the set of its outcomes.      *)
FromSmallBins(k, s) ==
    LET index == small_index(s)
        near == k.sbinmap \cap {index, index + 1}
        far == {i \in k.sbinmap : i >= index + 2}
    IN  CASE near # {} -> {allocate_sbin(k, Min(near))}
          [] near = {} /\ s > k.dVictimSize /\ far # {} -> {split_sbin(k, Min(far), s)}
          [] near = {} /\ s > k.dVictimSize /\ far = {} /\ k.tbinmap # {} ->
                 allocate_smallest_tbin(k, s)
          [] OTHER -> {Nothing(k)}

(* In the last bin the walk runs out of bits before it reaches a size, and *)
(* unless it meets exactly that size it may end at any chunk of the bin,   *)
(* one that is too small, or none. Then index is one behind the last bin,  *)
(* tbinmap is shifted by its whole width, and what lies behind tbin is     *)
(* taken for a tree. What follows is defined only when no bin has a chunk, *)
(* or when the bin is empty and the designated victim serves the request.  *)
SearchUndefined(k, s) ==
    LET i == calc_tbin(s)
    IN  /\ s >= MIN_LARGE_SIZE /\ i = NTBINS - 1
        /\ \A a \in k.tbin[i] : GETCHUNKSIZE(k, a) # s
        /\ k.tbin[i] # {} \/ (k.tbinmap # {} /\ s > k.dVictimSize)

(* When SearchUndefined, these are the outcomes that do no harm.           *)
FromTreeBins(k, s) ==
    LET found == kmalloc_tree_get_best_fit(k, s, calc_tbin(s))
        larger == {i \in k.tbinmap : i > calc_tbin(s)}
        next == kmalloc_tree_get_smallest(k, Min(larger))
    IN  CASE found # {} ->
                 {IF s > k.dVictimSize \/ GETCHUNKSIZE(k, a) <= k.dVictimSize
                  THEN allocate_tchunk(k, a, s) ELSE Nothing(k) : a \in found}
                 \cup (IF SearchUndefined(k, s) THEN {Nothing(k)} ELSE {})
          [] found = {} /\ larger # {} /\ (calc_tbin(k.dVictimSize) >= Min(larger)
                                             \/ s > k.dVictimSize) ->
                 {IF s > k.dVictimSize \/ GETCHUNKSIZE(k, a) < k.dVictimSize
                  THEN allocate_tchunk(k, a, s) ELSE Nothing(k) : a \in next}
          [] OTHER -> {Nothing(k)}

kmalloc_intern(k, s) ==
    LET binned == IF s < MIN_LARGE_SIZE THEN FromSmallBins(k, s) ELSE FromTreeBins(k, s)
    IN  {r \in binned : r.ptr # NULL} \cup
        (IF Nothing(k) \notin binned THEN {}
         ELSE IF s <= k.dVictimSize THEN {allocate_dv(k, s)} ELSE split_top(k, s))

kmalloc(k, size) ==
    IF ~KMALLOC_IS_INIT(k) \/ REQUESTOVERFLOW(size) THEN {Nothing(k)}
    ELSE kmalloc_intern(k, REQUEST2SIZE(size))

kmalloc_undefined(k, size) ==
    KMALLOC_IS_INIT(k) /\ ~REQUESTOVERFLOW(size) /\ SearchUndefined(k, REQUEST2SIZE(size))

Abort(k) == [k EXCEPT !.aborted = TRUE]

kfree(k, ptr) ==
    LET a == PAYLOAD_CHUNK(ptr)
        merges == ~PREV_INUSE(k, a)
        csize == IF merges THEN k.mem[a].foot ELSE 0
        prev == a - csize
        rest == IF merges /\ k.dVictim # prev THEN unbin_chunk(k, prev) ELSE k
    IN  IF ptr = NULL \/ ~KMALLOC_IS_INIT(k) THEN k
        ELSE IF ~ADDRESS_OK(k, a) \/ ~IS_INUSE(k, a) THEN Abort(k)
        ELSE IF merges /\ (~ADDRESS_OK(k, prev) \/ GETCHUNKSIZE(k, prev) # csize \/ IS_INUSE(k, prev))
        THEN Abort(k)
        ELSE IF ~ADDRESS_OK(k, NEXTCHUNK(k, a)) THEN Abort(rest)
        ELSE merge_free_chunks(rest, prev, GETCHUNKSIZE(k, a) + csize, NEXTCHUNK(k, a))

(* kmemcpy of a block to another.                                          *)
Copy_one_short(k, from, to, n) ==
    [k EXCEPT !.mem = [w \in Words |-> IF to <= w /\ w < to + n - 1 THEN @[w - to + from] ELSE @[w]]]

Copy(k, from, to, n) ==
    [k EXCEPT !.mem = [w \in Words |-> IF to <= w /\ w < to + n THEN @[w - to + from] ELSE @[w]]]

Moved(k, ptr, new_size) ==
    {IF r.ptr = NULL THEN Nothing(k)
     ELSE [km |-> kfree(Copy(r.km, ptr, r.ptr, CHUNK_PAYLOAD_SIZE(k, PAYLOAD_CHUNK(ptr))), ptr),
           ptr |-> r.ptr] : r \in kmalloc_intern(k, new_size)}

krealloc(k, ptr, req_size) ==
    LET a == PAYLOAD_CHUNK(ptr)
        next == NEXTCHUNK(k, a)
        new_size == REQUEST2SIZE(req_size)
        diff == GETCHUNKSIZE(k, a) - new_size
        shorter == SetHeader(k, a, new_size, PREV_INUSE(k, a), TRUE)
    IN  CASE ptr = NULL -> kmalloc(k, req_size)
          [] ptr # NULL /\ req_size = 0 -> {Nothing(kfree(k, ptr))}
          [] ptr # NULL /\ req_size > 0 ->
                 IF ~KMALLOC_IS_INIT(k) THEN {Nothing(k)}
                 ELSE IF ~ADDRESS_OK(k, a) \/ ~IS_INUSE(k, a) \/ ~ADDRESS_OK(k, next)
                 THEN {Nothing(Abort(k))}
                 ELSE IF diff = 0 \/ (diff > 0 /\ diff < MINCHUNKSIZE /\ IS_INUSE(k, next))
                 THEN {Payload(k, a)}
                 ELSE IF diff > 0
                 THEN {Payload(merge_free_chunks(shorter, a + new_size, diff, next), a)}
                 ELSE IF CanExpand(k, a, new_size)
                 THEN IF WritesOverLink(k, a, new_size) THEN {}
                      ELSE {Payload(try_expand_chunk(k, a, new_size), a)}
                 ELSE Moved(k, ptr, new_size)

(* For a block ptr of a caller, which passes the checks.                   *)
krealloc_undefined(k, ptr, req_size) ==
    LET a == PAYLOAD_CHUNK(ptr)
        new_size == REQUEST2SIZE(req_size)
    IN  /\ req_size > 0 /\ new_size > GETCHUNKSIZE(k, a)
        /\ IF CanExpand(k, a, new_size) THEN WritesOverLink(k, a, new_size)
           ELSE SearchUndefined(k, new_size)

(* The zeros kcalloc stores are at once overwritten by its caller (Fill).  *)
kcalloc(k, nmemb, size) == kmalloc(k, (size * nmemb) % WORD)

---------------------------------------------------------------------------
(* The callers. A caller stores data in all of the block it gets, or in    *)
(* the part of it that is new.                                             *)
Fill(k, ptr, from) ==
    LET n == CHUNK_PAYLOAD_SIZE(k, PAYLOAD_CHUNK(ptr))
    IN  [k EXCEPT !.mem = [w \in Words |-> IF ptr + from <= w /\ w < ptr + n THEN DATA ELSE @[w]]]

Init == km = Uninitialised /\ live = <<>> /\ undefined = FALSE

Undefined == undefined' = TRUE /\ UNCHANGED <<km, live>>

libk_init_heap(heap_size) ==
    /\ ~undefined /\ ~KMALLOC_IS_INIT(km)
    /\ km' = kmalloc_init(km, heap_size)
    /\ UNCHANGED <<live, undefined>>

(* The blocks in use, and one more or one less.                            *)
With(blocks, ptr, size) ==
    [p \in DOMAIN blocks \cup {ptr} |-> IF p = ptr THEN size ELSE blocks[p]]
Without(blocks, ptr) == [p \in DOMAIN blocks \ {ptr} |-> blocks[p]]

(* A caller gets a block for size words, or NULL.                          *)
Granted(r, size) ==
    /\ UNCHANGED undefined
    /\ \/ r.ptr = NULL /\ km' = r.km /\ UNCHANGED live
       \/ r.ptr # NULL /\ km' = Fill(r.km, r.ptr, 0) /\ live' = With(live, r.ptr, size)

Serves(results, size) ==
    /\ Cardinality(DOMAIN live) < MAX_LIVE
    /\ \/ kmalloc_undefined(km, size) /\ Undefined
       \/ \E r \in results : Granted(r, size)

Kmalloc(size) == ~undefined /\ Serves(kmalloc(km, size), size)

Kcalloc(nmemb, size) == ~undefined /\ Serves(kcalloc(km, nmemb, size), nmemb * size)

Kfree(ptr) ==
    /\ ~undefined
    /\ km' = kfree(km, ptr)
    /\ live' = Without(live, ptr)
    /\ UNCHANGED undefined

Regranted(r, ptr, size) ==
    /\ UNCHANGED undefined
    /\ \/ /\ r.ptr = NULL
          /\ km' = r.km
          /\ live' = IF size = 0 THEN Without(live, ptr) ELSE live
       \/ /\ r.ptr # NULL
          /\ km' = Fill(r.km, r.ptr, CHUNK_PAYLOAD_SIZE(km, PAYLOAD_CHUNK(ptr)))
          /\ live' = With(Without(live, ptr), r.ptr, size)

Krealloc(ptr, size) ==
    /\ ~undefined
    /\ IF ptr = NULL THEN Serves(krealloc(km, ptr, size), size)
       ELSE \/ krealloc_undefined(km, ptr, size) /\ Undefined
            \/ \E r \in krealloc(km, ptr, size) : Regranted(r, ptr, size)

Next ==
    \/ \E n \in HeapSizes : libk_init_heap(n)
    \/ \E size \in Sizes : Kmalloc(size)
    \/ \E array \in Arrays : Kcalloc(array[1], array[2])
    \/ \E ptr \in DOMAIN live \cup {NULL} : Kfree(ptr)
    \/ \E ptr \in DOMAIN live \cup {NULL} : \E size \in Resizes : Krealloc(ptr, size)

Spec == Init /\ [][Next]_vars

---------------------------------------------------------------------------
(* A chunk has a header; the dummy's is 0.                                 *)
Chunks == {a \in Words : a % CHUNK_ALIGN_ON = 0 /\ km.mem[a + 1] \notin {NULL, DATA}}
End == km.topChunk + km.topChunkSize
Free == {a \in Chunks \ {End} : ~IS_INUSE(km, a)}

(* The chunks are a partition of the heap up to the dummy, whatever was    *)
(* split, merged and moved: a chunk ends where the next one starts, no     *)
(* chunk is left inside another, and the top chunk is the last one. Only   *)
(* the top chunk can be smaller than MINCHUNKSIZE, and what lies behind    *)
(* the dummy is lost (LossBounded).                                        *)
Tiled == KMALLOC_IS_INIT(km) =>
    /\ {0, km.topChunk, End} \subseteq Chunks /\ End + DUMMYSIZE <= km.heap_size
    /\ GETCHUNKSIZE(km, End) = 0
    /\ km.topChunkSize > 0 => ~IS_INUSE(km, km.topChunk) /\ NEXTCHUNK(km, km.topChunk) = End
    /\ \A a \in Chunks \ {End} :
           /\ GETCHUNKSIZE(km, a) >= MINCHUNKSIZE \/ a = km.topChunk
           /\ NEXTCHUNK(km, a) \in Chunks
           /\ \A b \in Chunks : a < b => NEXTCHUNK(km, a) <= b

(* What a chunk says of the one before it is true (the PINUSE flag, and    *)
(* prev_foot when it is free), so kfree never merges with a block in use;  *)
(* and two neighbours are never both free, so no merge was missed.         *)
Boundaries == KMALLOC_IS_INIT(km) =>
    /\ 0 # End => PREV_INUSE(km, 0)
    /\ \A a \in Chunks \ {End} :
           LET b == NEXTCHUNK(km, a)
           IN  /\ b # End => PREV_INUSE(km, b) = IS_INUSE(km, a)
               /\ ~IS_INUSE(km, a) => /\ km.mem[b] = [foot |-> GETCHUNKSIZE(km, a)]
                                      /\ b = End \/ IS_INUSE(km, b)

(* Every free chunk is found in exactly one place: as the top chunk, as    *)
(* the designated victim, or once in the bin of its size; the bins hold    *)
(* nothing else, and the bin maps name exactly the bins that are not       *)
(* empty.                                                                  *)
Binned ==
    LET small == UNION {Range(km.sbin[i]) : i \in DOMAIN km.sbin}
        large == UNION {km.tbin[i] : i \in DOMAIN km.tbin}
    IN  KMALLOC_IS_INIT(km) =>
        /\ Free = small \cup large \cup ({km.topChunk, km.dVictim} \ {End, NULL})
        /\ (small \cup large) \cap {km.topChunk, km.dVictim} = {}
        /\ \A i \in DOMAIN km.sbin : \A n \in DOMAIN km.sbin[i] :
               /\ GETCHUNKSIZE(km, km.sbin[i][n]) = i * CHUNK_ALIGN_ON
               /\ \A m \in DOMAIN km.sbin[i] : km.sbin[i][m] = km.sbin[i][n] => m = n
        /\ \A i \in DOMAIN km.tbin : \A a \in km.tbin[i] :
               GETCHUNKSIZE(km, a) >= MIN_LARGE_SIZE /\ calc_tbin(GETCHUNKSIZE(km, a)) = i
        /\ km.sbinmap = {i \in DOMAIN km.sbin : km.sbin[i] # <<>>}
        /\ km.tbinmap = {i \in DOMAIN km.tbin : km.tbin[i] # {}}
        /\ km.dVictim = NULL => km.dVictimSize = 0
        /\ km.dVictim # NULL =>
               km.dVictim # km.topChunk /\ km.dVictimSize = GETCHUNKSIZE(km, km.dVictim)

(* The chunks in use are the blocks of the callers; each is as large as    *)
(* was asked for and holds what its caller stored in it: no operation on   *)
(* another block, nor a copy to a new place, changes a word of it.         *)
BlocksIntact ==
    /\ KMALLOC_IS_INIT(km) =>
           DOMAIN live = {CHUNK_PAYLOAD(a) : a \in Chunks \ (Free \cup {End})}
    /\ \A p \in DOMAIN live :
           LET n == CHUNK_PAYLOAD_SIZE(km, PAYLOAD_CHUNK(p))
           IN  live[p] <= n /\ \A w \in p .. p + n - 1 : km.mem[w] = DATA

(* Callers that only pass blocks they own never make the allocator abort.  *)
NeverAborts == ~km.aborted

(* When the heap cannot grow, kmalloc still serves every request that some *)
(* free chunk is large enough for, unless the search is undefined.         *)
FitIsFound == KMALLOC_IS_INIT(km) =>
    \A size \in {n \in Sizes : ~kmalloc_undefined(km, n)} : \A r \in kmalloc(km, size) :
        r.ptr = NULL => \A a \in Free : \/ CHUNK_PAYLOAD_SIZE(km, a) < size
                                       \/ GETCHUNKSIZE(km, a) < MINCHUNKSIZE

(* The heap is never given back below its initial size, nor so far that    *)
(* less than HEAP_SHRINK_TRESHOLD is left in the top chunk (the comment in *)
(* shrink_top).                                                            *)
ShrinksWithinBounds == [][km'.heap_size < km.heap_size =>
    /\ km'.heap_size >= km.initial_heap_size
    /\ km'.topChunkSize >= HEAP_SIZE_ALIGN]_vars

(* A call loses no more of the heap than the remainder of split_top that   *)
(* is too small for a chunk, and what is lost stays lost when the heap     *)
(* grows and shrinks.                                                      *)
Lost == km.heap_size - (End + DUMMYSIZE)
LossBounded == [][KMALLOC_IS_INIT(km) => Lost' \in {Lost, Lost + MINCHUNKSIZE - CHUNK_ALIGN_ON}]_vars

(* A call does what it says: a krealloc that expands into a binned chunk   *)
(* takes that chunk out of its bin and leaves the bins valid, and kmalloc  *)
(* returns a block or NULL, for every size. (The code does not keep it.)   *)
NeverUndefined == ~undefined
============================================================================
