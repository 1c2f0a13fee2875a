--------------------------- MODULE KMallocProofs --------------------------
(***************************************************************************)
(* Proofs about module KMalloc: for a heap of any size, any sizes of       *)
(* requests and any number of blocks, the chunks stay a partition of the   *)
(* heap, the bins hold the free ones, and blocks keep their contents.      *)
(*                                                                         *)
(* The inductive invariant AllocInv says that the heap is Good (module     *)
(* KMallocLemmas) and that its blocks are those of the callers.            *)
(***************************************************************************)
EXTENDS KMallocLemmas

---------------------------------------------------------------------------
(* A caller stores data in its block a. The words of the block that hold   *)
(* no data were those of E and are now those of F.                         *)
Stores(k, r, a, E, F) ==
    LET words == a + 2 .. a + k.mem[a + 1].size
    IN  /\ r \in State /\ OnlyMem(k, r) /\ E \subseteq words
        /\ \A w \in Words \ words : r.mem[w] = k.mem[w]
        /\ \A w \in words : r.mem[w] = DATA \/ (r.mem[w] = k.mem[w] /\ (w \in E => w \in F))

(* The blocks and the free chunks stay what they are.                      *)
Stored(k, r, F) ==
    /\ Good(r, F) /\ r.topChunk = k.topChunk /\ UsedIn(r.mem, k.topChunk) = UsedIn(k.mem, k.topChunk)
    /\ SizesKept(k.mem, r.mem, UsedIn(k.mem, k.topChunk)) /\ SameHeap(k, r) /\ r.topChunkSize = k.topChunkSize

LEMMA StoreGood ==
    ASSUME NEW k, NEW E, Good(k, E), NEW a \in UsedIn(k.mem, k.topChunk), NEW r, NEW F, Stores(k, r, a, E, F)
    PROVE  Stored(k, r, F)
  <1>1. PICK m, n, top, ts, h, z, p, hi, t :
            /\ m = k.mem /\ n = r.mem /\ top = k.topChunk /\ ts = k.topChunkSize /\ h = m[a + 1]
            /\ z = h.size /\ p = h.pinuse /\ hi = a + z /\ t = TRUE
    OBVIOUS
  <1>2. Layout(m, top, ts, E) /\ k \in State /\ HeapOK(k) /\ VictimOK(k) /\ BinInv(k, ForBins(k), m)
    BY <1>1 DEF Good
  <1>3. IsUsed(m, a, h, top, ts, E)
    BY <1>1, <1>2, UsedFacts
  <1>4. /\ a \in Nat /\ z \in Nat /\ z >= 4 /\ z % 2 = 0 /\ hi <= top /\ h \in HEADER /\ h.cinuse = t
        /\ Hole(m, a, p, hi, t, top, ts, E) /\ p \in BOOLEAN /\ hi \in Nat /\ t \in BOOLEAN
        /\ \A b \in a + 1 .. a + z - 1 : ~IsChunk(m, b)
        /\ \A w \in a + 2 .. a + z : w \in E \/ m[w] = DATA
    <2>1. /\ a \in Nat /\ SizeOK(h.size) /\ a + h.size <= top /\ h \in HEADER /\ h.cinuse = TRUE
          /\ Hole(m, a, h.pinuse, a + h.size, TRUE, top, ts, E)
          /\ \A b \in a + 1 .. a + h.size - 1 : ~IsChunk(m, b)
          /\ \A w \in a + 2 .. a + h.size : w \in E \/ m[w] = DATA
      BY <1>3 DEF IsUsed
    <2>2. z \in Nat /\ z >= 4 /\ z % 2 = 0 /\ p \in BOOLEAN
      BY <1>1, <2>1 DEF SizeOK, HEADER
    <2>3. hi \in Nat /\ hi <= top /\ t \in BOOLEAN
      BY <1>1, <2>1, <2>2
    <2> QED
      BY <1>1, <2>1, <2>2, <2>3
  <1>5. top \in Nat /\ ts \in Nat /\ top + ts + 2 <= HEAP_LIMIT /\ HEAP_LIMIT \in Nat /\ a % 2 = 0
    BY <1>1, <1>2, KMallocAssumption DEF Layout, Behind, UsedIn, IsChunk
  <1>6. /\ r \in State /\ OnlyMem(k, r)
        /\ \A w \in E : w \in a + 2 .. a + z
        /\ \A w \in Words \ (a + 2 .. a + z) : n[w] = m[w]
        /\ \A w \in a + 2 .. a + z : n[w] = DATA \/ (n[w] = m[w] /\ (w \in E => w \in F))
    BY <1>1 DEF Stores
  <1>7. n[a + 1] = m[a + 1] /\ n[hi + 1] = m[hi + 1]
    <2>1. /\ a + 1 \in Words \ (a + 2 .. a + z) /\ hi + 1 \in Words \ (a + 2 .. a + z)
      BY <1>1, <1>4, <1>5 DEF Words
    <2> QED
      BY <1>6, <2>1
  <1>8. \A b \in a + 1 .. a + z - 1 : ~IsChunk(n, b)
    <2>1. SUFFICES ASSUME NEW b \in a + 1 .. a + z - 1, b % 2 = 0 PROVE ~IsChunk(n, b)
      BY DEF IsChunk
    <2>2. b + 1 \in a + 2 .. a + z
      BY <1>4, <2>1
    <2>3. n[b + 1] = DATA \/ n[b + 1] = m[b + 1]
      BY <1>6, <2>2
    <2> QED
      BY <1>4, <2>1, <2>3 DEF IsChunk
  <1>9. Seg(n, a, p, hi, t, F)
    <2>1. n[a + 1] = [size |-> z, pinuse |-> p, cinuse |-> t]
      <3>1. h = [size |-> z, pinuse |-> p, cinuse |-> t]
        BY <1>1, <1>4 DEF HEADER
      <3> QED
        BY <1>1, <1>7, <3>1
    <2>2. ~t => p /\ n[a + z] = [foot |-> z]
      BY <1>1
    <2>3. \A w \in a + 2 .. a + z : w \in F \/ n[w] = DATA
      BY <1>4, <1>6
    <2>4. t => \A w \in a + 2 .. a + z : w \in F \/ n[w] = DATA
      BY <2>3
    <2>5. Seg(n, a, p, a + z, t, F)
      <3>1. a \in Nat /\ z \in Nat /\ p \in BOOLEAN /\ t \in BOOLEAN /\ a % 2 = 0 /\ z % 2 = 0 /\ z >= 4
        BY <1>4, <1>5
      <3> QED
        BY <3>1, <1>8, <2>1, <2>2, <2>4, SegOne
    <2> QED
      BY <1>1, <2>5
  <1>10. Refills(m, n, a, hi, t, t, top, E, F)
    <2>1. a < hi
      BY <1>1, <1>4
    <2>2. \A w \in Words : w \notin a + 1 .. hi + 1 => n[w] = m[w]
      <3>1. \A w \in Words : w \notin a + 1 .. hi + 1 => w \in Words \ (a + 2 .. a + z)
        BY <1>1, <1>4 DEF Words
      <3> QED
        BY <1>6, <3>1
    <2>3. \A w \in E : w \in a + 1 .. hi
      BY <1>1, <1>4, <1>6
    <2> QED
      BY <1>7, <2>1, <2>2, <2>3 DEF Refills
  <1>11. Layout(n, top, ts, F) /\ SameOutside(m, n, a, hi, top)
    BY <1>4, <1>9, <1>10, Refill
  <1> DEFINE W == a .. hi - 1
  <1>12. SameSets(m, n, top, W)
    BY <1>11, SetsOutside
  <1>13. \A b \in W : b # a => ~IsChunk(m, b) /\ ~IsChunk(n, b)
    BY <1>1, <1>4, <1>8
  <1> HIDE DEF W
  <1>14. IsChunk(n, a) <=> IsChunk(m, a)
    BY <1>7 DEF IsChunk
  <1>15. FreeIn(n, top) = FreeIn(m, top) /\ UsedIn(n, top) = UsedIn(m, top)
    <2>1. FreeIn(n, top) \cap W = FreeIn(m, top) \cap W /\ UsedIn(n, top) \cap W = UsedIn(m, top) \cap W
      BY <1>7, <1>13, <1>14 DEF FreeIn, UsedIn
    <2> QED
      BY <1>12, <2>1 DEF SameSets
  <1>16. SizesKept(m, n, FreeIn(m, top) \cup UsedIn(m, top))
    <2>1. \A b \in (FreeIn(m, top) \cup UsedIn(m, top)) \cap W : b = a
      BY <1>13 DEF FreeIn, UsedIn
    <2> QED
      BY <1>7, <1>12, <2>1 DEF SameSets, SizesKept
  <1>17. SameHeap(k, r) /\ SameTop(k, r) /\ SameBins(k, r) /\ r.dVictim = k.dVictim /\ r.dVictimSize = k.dVictimSize
         /\ r.topChunk = top /\ r.topChunkSize = ts
    BY <1>1, <1>6 DEF OnlyMem, SameVictim, SameTop
  <1>18. HeapOK(r)
    BY <1>2, <1>17, HeapFrame
  <1>19. VictimOK(r)
    <2>1. k.dVictim # NULL => k.dVictim \in FreeIn(m, top) /\ n[k.dVictim + 1].size = m[k.dVictim + 1].size
      BY <1>1, <1>2, <1>16 DEF VictimOK, SizesKept
    <2> QED
      BY <1>1, <1>2, <1>15, <1>17, <2>1 DEF VictimOK
  <1>20. BinInv(r, ForBins(r), r.mem)
    <2>1. PICK X : X = ForBins(k)
      OBVIOUS
    <2>2. ForBins(r) = X
      BY <1>1, <1>15, <1>17, <2>1 DEF ForBins
    <2>3. \A b \in X : n[b + 1].size = m[b + 1].size
      BY <1>1, <1>16, <2>1 DEF ForBins, SizesKept
    <2>4. BinInv(k, X, m)
      BY <1>2, <2>1
    <2>5. BinInv(r, X, n)
      BY <1>17, <2>3, <2>4, BinFrame
    <2> QED
      BY <1>1, <2>2, <2>5
  <1>21. Layout(r.mem, r.topChunk, r.topChunkSize, F)
    BY <1>1, <1>11, <1>17
  <1>22. Good(r, F)
    BY <1>6, <1>18, <1>19, <1>20, <1>21 DEF Good
  <1>23. SizesKept(m, n, UsedIn(m, top))
    BY <1>16 DEF SizesKept
  <1> QED
    BY <1>1, <1>15, <1>17, <1>22, <1>23 DEF Stored

LEMMA FillGood ==
    ASSUME NEW k, NEW E, Good(k, E), NEW a \in UsedIn(k.mem, k.topChunk), NEW ptr, ptr = a + 2,
           NEW i \in Nat, NEW z, z = k.mem[a + 1].size, \A w \in E : w \in a + i + 2 .. a + z,
           NEW r, r = Fill(k, ptr, i)
    PROVE  Stored(k, r, {})
  <1>1. a \in Nat /\ z \in Nat /\ z >= 4 /\ k \in State
    BY BlockFacts DEF Good
  <1>2. PICK s : s = z - 1
    OBVIOUS
  <1>3. ptr \in Int /\ i \in Int /\ s \in Int /\ s = CHUNK_PAYLOAD_SIZE(k, PAYLOAD_CHUNK(ptr))
    <2>1. PAYLOAD_CHUNK(ptr) = a
      BY <1>1 DEF PAYLOAD_CHUNK
    <2> QED
      BY <1>1, <1>2, <2>1 DEF CHUNK_PAYLOAD_SIZE, GETCHUNKSIZE, Header, CHUNK_OVERHEAD
  <1>4. /\ r \in State /\ OnlyMem(k, r)
        /\ \A w \in Words : r.mem[w] = IF ptr + i <= w /\ w < ptr + s THEN DATA ELSE k.mem[w]
    BY <1>1, <1>3, FillEffect
  <1>5. \A w \in Int : ptr + i <= w /\ w < ptr + s <=> w \in a + i + 2 .. a + z
    BY <1>1, <1>2
  <1>6. a + z < HEAP_LIMIT /\ HEAP_LIMIT \in Nat
    <2>1. a + z <= k.topChunk /\ k.topChunk \in Nat /\ k.topChunkSize \in Nat /\ Layout(k.mem, k.topChunk, k.topChunkSize, E)
      BY BlockFacts
    <2>2. k.topChunk + k.topChunkSize + 2 <= HEAP_LIMIT /\ HEAP_LIMIT \in Nat
      BY <2>1, Alignment DEF Layout, Behind
    <2> QED
      BY <1>1, <2>1, <2>2
  <1>7. \A w \in a + 2 .. a + z : w \in Words
    BY <1>1, <1>6 DEF Words
  <1>8. PICK m, n, F, V : m = k.mem /\ n = r.mem /\ F = {} /\ V = a + 2 .. a + z
    OBVIOUS
  <1>9. \A w \in Words \ V : n[w] = m[w]
    <2>1. SUFFICES ASSUME NEW w \in Words \ V PROVE n[w] = m[w]
      OBVIOUS
    <2>2. ~(ptr + i <= w /\ w < ptr + s)
      <3>1. w \in Int /\ ~(a + 2 <= w /\ w <= a + z)
        BY <1>1, <1>6, <1>8, <2>1 DEF Words
      <3> QED
        BY <1>1, <1>2, <3>1
    <2> QED
      BY <1>4, <1>8, <2>1, <2>2
  <1>10. \A w \in V : n[w] = DATA \/ (n[w] = m[w] /\ w \notin E)
    <2>1. SUFFICES ASSUME NEW w \in V PROVE n[w] = DATA \/ (n[w] = m[w] /\ w \notin E)
      OBVIOUS
    <2>2. w \in Words /\ w \in Int
      BY <1>1, <1>7, <1>8, <2>1
    <2>3. CASE w \in a + i + 2 .. a + z
      <3>1. ptr + i <= w /\ w < ptr + s
        BY <1>5, <2>2, <2>3
      <3> QED
        BY <1>4, <1>8, <2>2, <3>1
    <2>4. CASE w \notin a + i + 2 .. a + z
      <3>1. ~(ptr + i <= w /\ w < ptr + s) /\ w \notin E
        BY <1>5, <2>2, <2>4
      <3> QED
        BY <1>4, <1>8, <2>2, <3>1
    <2> QED
      BY <2>3, <2>4
  <1>11. E \subseteq V
    BY <1>1, <1>8
  <1>12. Stores(k, r, a, E, F)
    BY <1>4, <1>8, <1>9, <1>10, <1>11 DEF Stores
  <1>13. Stored(k, r, F)
    BY <1>12, StoreGood
  <1> QED
    BY <1>8, <1>13

(* Two blocks have no word in common.                                      *)
LEMMA Disjoint ==
    ASSUME NEW k, NEW E, Good(k, E), NEW a \in UsedIn(k.mem, k.topChunk), NEW b \in UsedIn(k.mem, k.topChunk),
           a # b, NEW y, y = k.mem[a + 1].size, NEW z, z = k.mem[b + 1].size
    PROVE  \A w \in a + 2 .. a + y : w \notin b + 2 .. b + z
  <1>1. /\ a \in Nat /\ y \in Nat /\ y >= 4 
        /\ \A c \in a + 1 .. a + y - 1 : c \notin UsedIn(k.mem, k.topChunk)
    BY BlockFacts
  <1>2. /\ b \in Nat /\ z \in Nat /\ z >= 4 
        /\ \A c \in b + 1 .. b + z - 1 : c \notin UsedIn(k.mem, k.topChunk)
    BY BlockFacts
  <1>3. b \notin a + 1 .. a + y - 1 /\ a \notin b + 1 .. b + z - 1
    BY <1>1, <1>2
  <1> QED
    BY <1>1, <1>2, <1>3

(* The copy of block a to the new block b.                                 *)
Copies(k, a, b, y, z) ==
    /\ a \in UsedIn(k.mem, k.topChunk) /\ b \in UsedIn(k.mem, k.topChunk) /\ a # b
    /\ y = k.mem[a + 1].size /\ z = k.mem[b + 1].size /\ y < z /\ Good(k, b + 2 .. b + z)

LEMMA CopyGood ==
    ASSUME NEW k, NEW a, NEW b, NEW y, NEW z, Copies(k, a, b, y, z),
           NEW r, r = Copy(k, a + 2, b + 2, y - 1)
    PROVE  Stored(k, r, b + y + 1 .. b + z)
  <1>1. PICK E, F, m, n, from, to, s : /\ E = b + 2 .. b + z /\ F = b + y + 1 .. b + z /\ m = k.mem /\ n = r.mem
                                       /\ from = a + 2 /\ to = b + 2 /\ s = y - 1
    OBVIOUS
  <1>2. /\ Good(k, E) /\ k \in State /\ a \in UsedIn(m, k.topChunk) /\ b \in UsedIn(m, k.topChunk) /\ a # b
        /\ y = m[a + 1].size /\ z = m[b + 1].size
    BY <1>1 DEF Good, Copies
  <1>3. a \in Nat /\ y \in Nat /\ y >= 4 /\ a + y <= k.topChunk /\ k.topChunk \in Nat
        /\ k.topChunkSize \in Nat /\ Layout(m, k.topChunk, k.topChunkSize, E)
    BY <1>1, <1>2, BlockFacts
  <1>4. b \in Nat /\ z \in Nat /\ z >= 4 /\ b + z <= k.topChunk
    BY <1>1, <1>2, BlockFacts
  <1>5. HEAP_LIMIT \in Nat /\ k.topChunk < HEAP_LIMIT
    BY <1>3, Alignment DEF Layout, Behind
  <1>6. /\ a \in Nat /\ b \in Nat /\ y \in Nat /\ z \in Nat /\ y >= 4 /\ y < z /\ b + z < HEAP_LIMIT /\ HEAP_LIMIT \in Nat
        /\ to = b + 2 /\ s = y - 1 /\ from = a + 2
    <2>1. y < z
      BY DEF Copies
    <2>2. b + z < HEAP_LIMIT
      BY <1>3, <1>4, <1>5
    <2> QED
      BY <1>1, <1>3, <1>4, <1>5, <2>1, <2>2
  <1>7. \A w \in from .. from + s - 1 : m[w] = DATA
    <2>1. PICK h : h = m[a + 1]
      OBVIOUS
    <2>2. IsUsed(m, a, h, k.topChunk, k.topChunkSize, E)
      BY <1>2, <1>3, <2>1, UsedFacts
    <2>3. \A w \in a + 2 .. a + y : w \in E \/ m[w] = DATA
      BY <1>2, <2>1, <2>2 DEF IsUsed
    <2>4. \A w \in a + 2 .. a + y : w \notin E
      <3>1. \A w \in a + 2 .. a + y : w \notin b + 2 .. b + z
        BY <1>1, <1>2, Disjoint
      <3> QED
        BY <1>1, <3>1
    <2>5. \A w \in from .. from + s - 1 : w \in a + 2 .. a + y
      BY <1>6
    <2> QED
      BY <2>3, <2>4, <2>5
  <1>8. /\ r \in State /\ OnlyMem(k, r)
        /\ \A w \in Words : n[w] = IF to <= w /\ w < to + s THEN DATA ELSE m[w]
    <2>a. from \in Int /\ to \in Int /\ s \in Int
      BY ONLY <1>6
    <2>b. r = Copy(k, from, to, s)
      BY ONLY <1>1, r = Copy(k, a + 2, b + 2, y - 1)
    <2>1. from \in Int /\ to \in Int /\ s \in Int /\ k \in State /\ r = Copy(k, from, to, s)
      BY ONLY <1>2, <2>a, <2>b
    <2>2. \A w \in from .. from + s - 1 : k.mem[w] = DATA
      BY <1>1, <1>7
    <2>3. /\ r \in State /\ OnlyMem(k, r)
          /\ \A w \in Words : r.mem[w] = IF to <= w /\ w < to + s THEN DATA ELSE k.mem[w]
      BY <2>1, <2>2, CopyEffect
    <2> QED
      BY <1>1, <2>3
  <1>9. \A w \in Words \ E : n[w] = m[w]
    <2>1. SUFFICES ASSUME NEW w \in Words \ E PROVE n[w] = m[w]
      OBVIOUS
    <2>2. ~(to <= w /\ w < to + s)
      <3>1. w \in Int /\ ~(b + 2 <= w /\ w <= b + z)
        BY <1>1, <1>6, <2>1 DEF Words
      <3> QED
        BY <1>6, <3>1
    <2> QED
      BY <1>8, <2>1, <2>2
  <1>10. \A w \in E : n[w] = DATA \/ (n[w] = m[w] /\ w \in F)
    <2>1. SUFFICES ASSUME NEW w \in E PROVE n[w] = DATA \/ (n[w] = m[w] /\ w \in F)
      OBVIOUS
    <2>2. w \in Int /\ b + 2 <= w /\ w <= b + z
      BY <1>1, <1>6, <2>1
    <2>3. w \in Words
      BY <1>6, <2>2 DEF Words
    <2>4. CASE to <= w /\ w < to + s
      BY <1>8, <2>3, <2>4
    <2>5. CASE ~(to <= w /\ w < to + s)
      <3>1. w \in b + y + 1 .. b + z
        BY <1>6, <2>2, <2>5
      <3> QED
        BY <1>1, <1>8, <2>3, <2>5, <3>1
    <2> QED
      BY <2>4, <2>5
  <1>11. Stores(k, r, b, E, F)
    BY <1>1, <1>2, <1>8, <1>9, <1>10 DEF Stores
  <1>12. Stored(k, r, F)
    BY <1>1, <1>2, <1>11, StoreGood
  <1> QED
    BY <1>1, <1>12

---------------------------------------------------------------------------
(* The block a of k has become the block b of r, of at least s words.      *)
Resized(k, r, a, b, s) ==
    /\ Good(r, {}) /\ b \in Nat /\ r.mem[b + 1].size >= s
    /\ UsedIn(r.mem, r.topChunk) = (UsedIn(k.mem, k.topChunk) \ {a}) \cup {b}
    /\ b = a \/ b \notin UsedIn(k.mem, k.topChunk)
    /\ SizesKept(k.mem, r.mem, UsedIn(k.mem, k.topChunk) \ {a})
    /\ Shrinks(k, r) /\ r.initial_heap_size = k.initial_heap_size

LEMMA MoveGood ==
    ASSUME NEW k, Good(k, {}), NEW a \in UsedIn(k.mem, k.topChunk), NEW y, y = k.mem[a + 1].size,
           NEW s \in Nat, y < s, NEW r1, NEW b, Granting(k, r1, b, s),
           NEW r2, r2 = Copy(r1, a + 2, b + 2, y - 1), NEW r3, r3 = kfree(r2, a + 2),
           NEW r4, r4 = Fill(r3, b + 2, y - 1)
    PROVE  Resized(k, r4, a, b, s)
  <1>1. PICK U, z, E, F : /\ U = UsedIn(k.mem, k.topChunk) /\ z = r1.mem[b + 1].size
                          /\ E = b + 2 .. b + z /\ F = b + y + 1 .. b + z
    OBVIOUS
  <1>2. /\ b \in Nat /\ z >= s /\ Good(r1, E) /\ UsedIn(r1.mem, r1.topChunk) = U \cup {b} /\ b \notin U
        /\ SizesKept(k.mem, r1.mem, U) /\ r1.heap_size >= k.heap_size /\ r1.initial_heap_size = k.initial_heap_size
    BY <1>1 DEF Granting
  <1>3. a \in Nat /\ y \in Nat /\ y >= 4 /\ k.heap_size \in Nat
    BY BlockFacts
  <1>4. a \in U /\ a # b /\ r1.mem[a + 1].size = y
    BY <1>1, <1>2 DEF SizesKept
  <1>5. z \in Nat /\ y < z
    <2>1. z \in Nat
      BY <1>1, <1>2, BlockFacts
    <2> QED
      BY <1>2, <1>3, <2>1
  <1>6. Stored(r1, r2, F)
    <2>1. Copies(r1, a, b, y, z)
      BY <1>1, <1>2, <1>4, <1>5 DEF Copies
    <2>2. Stored(r1, r2, b + y + 1 .. b + z)
      BY <2>1, CopyGood
    <2> QED
      BY <1>1, <2>2
  <1>7. /\ Good(r2, F) /\ UsedIn(r2.mem, r2.topChunk) = U \cup {b} /\ SizesKept(r1.mem, r2.mem, U \cup {b})
        /\ SameHeap(r1, r2)
    BY <1>2, <1>6 DEF Stored
  <1>8. Freed(r2, r3, a, F)
    <2>1. PICK ptr : ptr = a + 2
      OBVIOUS
    <2>2. a \in UsedIn(r2.mem, r2.topChunk) /\ r3 = kfree(r2, ptr)
      BY <1>4, <1>7, <2>1
    <2> QED
      BY <1>7, <2>1, <2>2, KfreeGood
  <1>9. /\ Good(r3, F) /\ UsedIn(r3.mem, r3.topChunk) = (U \ {a}) \cup {b}
        /\ SizesKept(r2.mem, r3.mem, (U \ {a}) \cup {b})
        /\ Shrinks(r2, r3) /\ r3.initial_heap_size = r2.initial_heap_size
    <2>1. (U \cup {b}) \ {a} = (U \ {a}) \cup {b}
      BY <1>4
    <2> QED
      BY <1>7, <1>8, <2>1 DEF Freed
  <1>10. SizesKept(k.mem, r3.mem, U \ {a}) /\ r3.mem[b + 1].size = z
    <2>1. \A c \in U \ {a} : r1.mem[c + 1].size = k.mem[c + 1].size /\ r2.mem[c + 1].size = r1.mem[c + 1].size
                              /\ r3.mem[c + 1].size = r2.mem[c + 1].size
      BY <1>2, <1>7, <1>9 DEF SizesKept
    <2>2. r2.mem[b + 1].size = r1.mem[b + 1].size /\ r3.mem[b + 1].size = r2.mem[b + 1].size
      BY <1>7, <1>9 DEF SizesKept
    <2> QED
      BY <1>1, <2>1, <2>2 DEF SizesKept
  <1>11. Stored(r3, r4, {})
    <2>1. PICK ptr, i : ptr = b + 2 /\ i = y - 1
      OBVIOUS
    <2>2. i \in Nat /\ b + i + 2 = b + y + 1
      BY <1>2, <1>3, <2>1
    <2>3. \A w \in F : w \in b + i + 2 .. b + z
      BY <1>1, <2>2
    <2>4. b \in UsedIn(r3.mem, r3.topChunk) /\ r4 = Fill(r3, ptr, i) /\ z = r3.mem[b + 1].size
      BY <1>9, <1>10, <2>1
    <2>5. Good(r3, F) /\ ptr = b + 2 /\ i \in Nat
      BY ONLY <1>9, <2>1, <2>2
    <2> QED
      BY ONLY <2>3, <2>4, <2>5, FillGood
  <1>12. /\ Good(r4, {}) /\ UsedIn(r4.mem, r4.topChunk) = (U \ {a}) \cup {b}
         /\ SizesKept(r3.mem, r4.mem, (U \ {a}) \cup {b}) /\ SameHeap(r3, r4)
         /\ r4.topChunkSize = r3.topChunkSize
    BY <1>9, <1>11 DEF Stored
  <1>13. SizesKept(k.mem, r4.mem, U \ {a}) /\ r4.mem[b + 1].size = z
    BY <1>10, <1>12 DEF SizesKept
  <1>14. Shrinks(k, r4) /\ r4.initial_heap_size = k.initial_heap_size
    <2>1. /\ r4.heap_size = r3.heap_size /\ r4.initial_heap_size = r3.initial_heap_size
          /\ r2.heap_size = r1.heap_size /\ r2.initial_heap_size = r1.initial_heap_size
      BY <1>7, <1>12 DEF SameHeap
    <2>2. r4.heap_size \in Nat /\ r1.heap_size \in Nat
      BY <1>2, <1>12 DEF Good, State
    <2> QED
      <3>1. r4.initial_heap_size = k.initial_heap_size
        BY <1>2, <1>9, <2>1
      <3>2. r4.heap_size < r1.heap_size => r4.heap_size >= k.initial_heap_size /\ r4.topChunkSize >= HEAP_SIZE_ALIGN
        BY <1>2, <1>9, <1>12, <2>1 DEF Shrinks
      <3>3. r4.heap_size < k.heap_size => r4.heap_size < r1.heap_size
        BY <1>2, <1>3, <2>2
      <3> QED
        BY <3>1, <3>2, <3>3 DEF Shrinks
  <1> QED
    BY <1>1, <1>2, <1>12, <1>13, <1>14 DEF Resized

(* A block is cut to s words: what is behind becomes a hole.               *)
Cuts(k, k1, a, s, y) ==
    /\ Opened(k1, a + s, a + y, {}) /\ SameHeap(k, k1) /\ k1.topChunk = k.topChunk
    /\ UsedOut(k1.mem, k.topChunk, a + s, a + y) = UsedIn(k.mem, k.topChunk)
    /\ SizesKept(k.mem, k1.mem, UsedIn(k.mem, k.topChunk) \ {a}) /\ k1.mem[a + 1].size = s

LEMMA CutBlock ==
    ASSUME NEW k, Good(k, {}), NEW a \in UsedIn(k.mem, k.topChunk), NEW y, y = k.mem[a + 1].size,
           NEW s \in Nat, s % 2 = 0, s >= 4, s < y, y - s >= 4 \/ k.mem[a + y + 1].cinuse = FALSE,
           NEW k1, k1 = SetHeader(k, a, s, k.mem[a + 1].pinuse, TRUE)
    PROVE  Cuts(k, k1, a, s, y)
  <1>1. PICK m, n, top, ts, h, p, t, E, lo, hi :
            /\ m = k.mem /\ n = k1.mem /\ top = k.topChunk /\ ts = k.topChunkSize /\ h = m[a + 1]
            /\ p = h.pinuse /\ t = TRUE /\ E = {} /\ lo = a + s /\ hi = a + y
    OBVIOUS
  <1>2. /\ a \in Nat /\ a % 2 = 0 /\ y \in Nat /\ y >= 4 /\ y % 2 = 0 /\ a + y <= top /\ top \in Nat
        /\ h \in HEADER /\ Layout(m, top, ts, E)
    BY <1>1, BlockFacts
  <1>3. k \in State /\ HeapOK(k) /\ VictimOK(k) /\ BinInv(k, ForBins(k), m)
    BY <1>1 DEF Good
  <1>4. IsUsed(m, a, h, top, ts, E)
    BY <1>1, <1>2, UsedFacts
  <1>5. /\ Hole(m, a, p, hi, t, top, ts, E) /\ \A b \in a + 1 .. a + y - 1 : ~IsChunk(m, b)
        /\ \A w \in a + 2 .. a + y : m[w] = DATA
    BY <1>1, <1>4 DEF IsUsed
  <1>6. Seg(m, 0, t, a, p, E) /\ Seg(m, hi, t, top, t, E) /\ Behind(m, top, ts) /\ p \in BOOLEAN /\ t \in BOOLEAN
    BY <1>1, <1>2, <1>5 DEF Hole, HEADER
  <1>7. top + 2 <= HEAP_LIMIT /\ HEAP_LIMIT \in Nat
    <2>1. ts \in Nat /\ top + ts + 2 <= HEAP_LIMIT
      BY <1>6 DEF Behind
    <2> QED
      BY <1>2, <2>1, Alignment
  <1>8. lo \in Nat /\ hi \in Nat /\ a < lo /\ lo < hi /\ hi <= top /\ a + 1 \in Words /\ lo % 2 = 0
    BY <1>1, <1>2, <1>7 DEF Words
  <1>9. /\ k1 \in State /\ OnlyMem(k, k1)
        /\ n[a + 1] = [size |-> s, pinuse |-> p, cinuse |-> t]
        /\ \A w \in Words : w # a + 1 => n[w] = m[w]
    <2>1. k \in State /\ a \in Nat /\ a + 1 \in Words /\ p \in BOOLEAN /\ t \in BOOLEAN /\ k1 = SetHeader(k, a, s, p, t)
      BY <1>1, <1>2, <1>3, <1>6, <1>8
    <2>2. HeaderSet(k, k1, a, s, p, t)
      BY <2>1, SetHeaderDone
    <2> QED
      BY <1>1, <2>2 DEF HeaderSet
  <1>10. \A b \in a + 1 .. a + y - 1 : ~IsChunk(n, b)
    <2>1. SUFFICES ASSUME NEW b \in a + 1 .. a + y - 1 PROVE ~IsChunk(n, b)
      OBVIOUS
    <2>2. b + 1 \in Words /\ b + 1 # a + 1
      BY <1>2, <1>7 DEF Words
    <2> QED
      BY <1>5, <1>9, <2>2 DEF IsChunk
  <1>11. Seg(n, a, p, lo, t, E)
    <2>1. \A w \in a + 2 .. a + s : w \in E \/ n[w] = DATA
      <3>1. \A w \in a + 2 .. a + s : w \in Words /\ w # a + 1 /\ w \in a + 2 .. a + y
        BY <1>2, <1>7 DEF Words
      <3> QED
        BY <1>5, <1>9, <3>1
    <2>2. \A b \in a + 1 .. a + s - 1 : ~IsChunk(n, b)
      <3>1. \A b \in a + 1 .. a + s - 1 : b \in a + 1 .. a + y - 1
        BY <1>2
      <3> QED
        BY <1>10, <3>1
    <2>3. ~t => p /\ n[a + s] = [foot |-> s]
      BY <1>1
    <2>4. t => \A w \in a + 2 .. a + s : w \in E \/ n[w] = DATA
      BY <2>1
    <2>5. a \in Nat /\ a % 2 = 0
      BY <1>2
    <2>6. Seg(n, a, p, a + s, t, E)
      BY <1>6, <1>9, <2>2, <2>3, <2>4, <2>5, SegOne
    <2> QED
      BY <1>1, <2>6
  <1>12. Hole(n, lo, TRUE, hi, TRUE, top, ts, E)
    <2>1. Seg(n, 0, t, a, p, E)
      <3>1. PICK o : o = 0
        OBVIOUS
      <3>2. \A w \in o + 1 .. a : n[w] = m[w]
        <4>1. \A w \in o + 1 .. a : w \in Words /\ w # a + 1
          BY <1>2, <1>7, <3>1 DEF Words
        <4> QED
          BY <1>9, <4>1
      <3>3. Seg(m, o, t, a, p, E)
        BY <1>6, <3>1
      <3>4. Seg(n, o, t, a, p, E)
        BY <3>2, <3>3, SegFrame
      <3> QED
        BY <3>1, <3>4
    <2>2. Seg(n, 0, t, lo, t, E)
      BY <1>11, <2>1, SegJoin
    <2>3. Seg(n, hi, t, top, t, E)
      <3>1. \A w \in hi + 1 .. top : n[w] = m[w]
        <4>1. \A w \in hi + 1 .. top : w \in Words /\ w # a + 1
          BY <1>2, <1>7, <1>8 DEF Words
        <4> QED
          BY <1>9, <4>1
      <3> QED
        BY <1>6, <3>1, SegFrame
    <2>4. Behind(n, top, ts)
      <3>1. \A w \in Words : w > top => n[w] = m[w]
        <4>1. \A w \in Words : w > top => w # a + 1
          BY <1>2, <1>7 DEF Words
        <4> QED
          BY <1>9, <4>1
      <3> QED
        BY <1>6, <3>1, BehindFrame
    <2> QED
      BY <1>1, <2>2, <2>3, <2>4 DEF Hole
  <1>13. IsChunk(n, a) /\ n[a + 1].size = s /\ n[a + 1].cinuse = TRUE
    <2>1. IsChunk(n, a) /\ n[a + 1].size = s /\ n[a + 1].cinuse = t
      BY <1>2, <1>6, <1>9, NewHeader
    <2> QED
      BY <1>1, <2>1
  <1>14. a \in UsedIn(m, top) /\ IsChunk(m, a) /\ m[a + 1].cinuse = TRUE
    BY <1>1, <1>4 DEF UsedIn, IsUsed
  <1>15. \A b \in 0 .. top - 1 : b # a => n[b + 1] = m[b + 1]
    <2>1. \A b \in 0 .. top - 1 : b # a => b + 1 \in Words /\ b + 1 # a + 1
      BY <1>2, <1>7 DEF Words
    <2> QED
      BY <1>9, <2>1
  <1>16. /\ FreeIn(n, top) = FreeIn(m, top) /\ UsedIn(n, top) = UsedIn(m, top)
    BY <1>13, <1>14, <1>15 DEF FreeIn, UsedIn, IsChunk
  <1>17. SizesKept(m, n, FreeIn(m, top)) /\ SizesKept(m, n, UsedIn(m, top) \ {a})
    BY <1>14, <1>15 DEF SizesKept, FreeIn, UsedIn
  <1>18. /\ FreeOut(n, top, lo, hi) = FreeIn(m, top) /\ UsedOut(n, top, lo, hi) = UsedIn(m, top)
    <2>1. \A b \in lo .. hi - 1 : b \notin FreeIn(n, top) /\ b \notin UsedIn(n, top)
      <3>1. \A b \in lo .. hi - 1 : b \in a + 1 .. a + y - 1
        BY <1>1, <1>2, <1>8
      <3> QED
        BY <1>10, <3>1 DEF FreeIn, UsedIn
    <2>2. FreeIn(n, top) \ (lo .. hi - 1) = FreeIn(n, top) /\ UsedIn(n, top) \ (lo .. hi - 1) = UsedIn(n, top)
      BY <2>1
    <2> QED
      BY <1>16, <2>2 DEF FreeOut, UsedOut
  <1>19. SameHeap(k, k1) /\ SameTop(k, k1) /\ SameBins(k, k1) /\ k1.dVictim = k.dVictim /\ k1.dVictimSize = k.dVictimSize
         /\ k1.topChunk = top /\ k1.topChunkSize = ts
    BY <1>1, <1>9 DEF OnlyMem, SameVictim, SameTop
  <1>20. HeapOK(k1)
    BY <1>3, <1>19, HeapFrame
  <1>21. VictimIn(k1, lo, hi)
    <2>1. k.dVictim # NULL => k.dVictim \in FreeIn(m, top) /\ n[k.dVictim + 1].size = m[k.dVictim + 1].size
      BY <1>1, <1>3, <1>17 DEF VictimOK, SizesKept
    <2> QED
      BY <1>1, <1>3, <1>18, <1>19, <2>1 DEF VictimOK, VictimIn
  <1>22. BinInv(k1, OutBins(k1, lo, hi), k1.mem)
    <2>1. PICK X : X = ForBins(k)
      OBVIOUS
    <2>2. OutBins(k1, lo, hi) = X
      BY <1>1, <1>18, <1>19, <2>1 DEF ForBins, OutBins
    <2>3. \A b \in X : n[b + 1].size = m[b + 1].size
      BY <1>1, <1>17, <2>1 DEF ForBins, SizesKept
    <2>4. BinInv(k, X, m)
      BY <1>3, <2>1
    <2>5. BinInv(k1, X, n)
      BY <1>19, <2>3, <2>4, BinFrame
    <2> QED
      BY <1>1, <2>2, <2>5
  <1>23. hi - lo >= 2 /\ (hi - lo >= 4 \/ n[hi + 1].cinuse = FALSE)
    <2>1. hi - lo = y - s /\ y - s >= 2
      BY <1>1, <1>2
    <2>2. hi + 1 \in Words /\ hi + 1 # a + 1 /\ hi + 1 = a + y + 1
      BY <1>1, <1>2, <1>7, <1>8 DEF Words
    <2>3. n[hi + 1] = k.mem[a + y + 1]
      BY <1>1, <1>9, <2>2
    <2> QED
      BY <2>1, <2>3
  <1>24. Opened(k1, lo, hi, E)
    BY <1>1, <1>9, <1>12, <1>19, <1>20, <1>21, <1>22, <1>23 DEF Opened
  <1> QED
    BY <1>1, <1>13, <1>17, <1>18, <1>19, <1>24 DEF Cuts

LEMMA CutGood ==
    ASSUME NEW k, Good(k, {}), NEW a \in UsedIn(k.mem, k.topChunk), NEW y, y = k.mem[a + 1].size,
           NEW s \in Nat, NEW k1, Cuts(k, k1, a, s, y),
           NEW r1, r1 = merge_free_chunks(k1, a + s, y - s, a + y), NEW r, r = Fill(r1, a + 2, y - 1)
    PROVE  Resized(k, r, a, a, s)
  <1>1. PICK lo, hi, d, E, U : lo = a + s /\ hi = a + y /\ d = hi - lo /\ E = {} /\ U = UsedIn(k.mem, k.topChunk)
    OBVIOUS
  <1>2. a \in Nat /\ y \in Nat /\ y >= 4 /\ a \in U
    BY <1>1, BlockFacts
  <1>3. /\ Opened(k1, lo, hi, E) /\ SameHeap(k, k1) /\ k1.topChunk = k.topChunk
        /\ UsedOut(k1.mem, k.topChunk, lo, hi) = U
        /\ SizesKept(k.mem, k1.mem, U \ {a}) /\ k1.mem[a + 1].size = s
    BY <1>1 DEF Cuts
  <1>4. Closed(k1, r1, lo, hi, E)
    <2>1. d = y - s
      BY <1>1, <1>2
    <2>2. r1 = merge_free_chunks(k1, lo, d, hi)
      BY <1>1, <2>1
    <2> QED
      BY <1>1, <1>3, <2>2, MergeGood
  <1>5. /\ Good(r1, {}) /\ UsedIn(r1.mem, r1.topChunk) = U /\ SizesKept(k1.mem, r1.mem, U)
        /\ Shrinks(k1, r1) /\ r1.initial_heap_size = k1.initial_heap_size
    BY <1>1, <1>3, <1>4 DEF Closed
  <1>6. Stored(r1, r, {})
    <2>1. PICK ptr, i, z : ptr = a + 2 /\ i = y - 1 /\ z = r1.mem[a + 1].size
      OBVIOUS
    <2>2. i \in Nat
      BY <1>2, <2>1
    <2>3. \A w \in {} : w \in a + i + 2 .. a + z
      OBVIOUS
    <2>4. a \in UsedIn(r1.mem, r1.topChunk) /\ r = Fill(r1, ptr, i) /\ z = r1.mem[a + 1].size
      BY <1>2, <1>5, <2>1
    <2>5. Good(r1, {}) /\ ptr = a + 2 /\ i \in Nat
      BY ONLY <1>5, <2>1, <2>2
    <2> QED
      BY ONLY <2>3, <2>4, <2>5, FillGood
  <1>7. /\ Good(r, {}) /\ UsedIn(r.mem, r.topChunk) = U /\ SizesKept(r1.mem, r.mem, U) /\ SameHeap(r1, r)
        /\ r.topChunkSize = r1.topChunkSize
    BY <1>5, <1>6 DEF Stored
  <1>8. SizesKept(k.mem, r.mem, U \ {a}) /\ r.mem[a + 1].size = s
    <2>1. \A c \in U \ {a} : k1.mem[c + 1].size = k.mem[c + 1].size /\ r1.mem[c + 1].size = k1.mem[c + 1].size
                              /\ r.mem[c + 1].size = r1.mem[c + 1].size
      BY <1>3, <1>5, <1>7 DEF SizesKept
    <2>2. r.mem[a + 1].size = r1.mem[a + 1].size /\ r1.mem[a + 1].size = k1.mem[a + 1].size
      BY <1>2, <1>5, <1>7 DEF SizesKept
    <2>3. \A c \in U \ {a} : r.mem[c + 1].size = k.mem[c + 1].size
      BY <2>1
    <2> QED
      BY <1>3, <2>2, <2>3 DEF SizesKept
  <1>9. Shrinks(k, r) /\ r.initial_heap_size = k.initial_heap_size
    BY <1>3, <1>5, <1>7 DEF Shrinks, SameHeap
  <1>10. U = (U \ {a}) \cup {a}
    BY <1>2
  <1> QED
    <2>1. r.mem[a + 1].size >= s
      <3>1. PICK x : x = r.mem[a + 1].size
        OBVIOUS
      <3>2. x = s
        BY <1>8, <3>1
      <3>3. x >= s
        BY <3>2
      <3> QED
        BY <3>1, <3>3
    <2>2. UsedIn(r.mem, r.topChunk) = (UsedIn(k.mem, k.topChunk) \ {a}) \cup {a}
      BY <1>1, <1>7, <1>10
    <2> QED
      BY <1>1, <1>2, <1>7, <1>8, <1>9, <2>1, <2>2 DEF Resized

---------------------------------------------------------------------------
(* A block grows into the free chunk behind it, and its caller stores data *)
(* in the words that are new. Until then the old header is inside it.      *)
Expanded(m, n, a, p, s) ==
    /\ n[a + 1] = [size |-> s, pinuse |-> p, cinuse |-> TRUE]
    /\ \A w \in a + 2 .. a + s : n[w] = DATA
    /\ \A w \in 0 .. a : n[w] = m[w]

BlockAt(n, a, p, s) ==
    /\ Seg(n, a, p, a + s, TRUE, {}) /\ Seg(n, 0, TRUE, a + s, TRUE, {})
    /\ IsChunk(n, a) /\ n[a + 1].size = s /\ n[a + 1].cinuse = TRUE
    /\ \A b \in a + 1 .. a + s - 1 : ~IsChunk(n, b)

LEMMA ExpandSeg ==
    ASSUME NEW m, NEW n, NEW top, NEW ts, Layout(m, top, ts, {}), NEW a \in UsedIn(m, top), NEW p,
           p = m[a + 1].pinuse, NEW s, s \in Nat, s % 2 = 0, s >= 4, Expanded(m, n, a, p, s)
    PROVE  BlockAt(n, a, p, s)
  <1>1. PICK h, t, E, o : h = m[a + 1] /\ t = TRUE /\ E = {} /\ o = 0
    OBVIOUS
  <1>2. IsUsed(m, a, h, top, ts, E)
    BY <1>1, UsedFacts
  <1>3. a \in Nat /\ p \in BOOLEAN /\ Seg(m, o, t, a, p, E) /\ a % 2 = 0 /\ t \in BOOLEAN
    BY <1>1, <1>2 DEF IsUsed, Hole, HEADER, Seg
  <1>4. \A b \in a + 1 .. a + s - 1 : ~IsChunk(n, b)
    <2>1. SUFFICES ASSUME NEW b \in a + 1 .. a + s - 1 PROVE ~IsChunk(n, b)
      OBVIOUS
    <2>2. b + 1 \in a + 2 .. a + s
      BY <1>3, <2>1
    <2> QED
      BY <2>2 DEF Expanded, IsChunk
  <1>5. n[a + 1] = [size |-> s, pinuse |-> p, cinuse |-> t]
    BY <1>1 DEF Expanded
  <1>6. Seg(n, a, p, a + s, t, E)
    <2>1. ~t => p /\ n[a + s] = [foot |-> s]
      BY <1>1
    <2>2. t => \A w \in a + 2 .. a + s : w \in E \/ n[w] = DATA
      BY DEF Expanded
    <2> QED
      BY <1>3, <1>4, <1>5, <2>1, <2>2, SegOne
  <1>7. Seg(n, o, t, a, p, E)
    <2>1. \A w \in o + 1 .. a : n[w] = m[w]
      BY <1>1, <1>3 DEF Expanded
    <2> QED
      BY <1>3, <2>1, SegFrame
  <1>8. Seg(n, o, t, a + s, t, E)
    BY <1>6, <1>7, SegJoin
  <1>9. IsChunk(n, a) /\ n[a + 1].size = s /\ n[a + 1].cinuse = t
    BY <1>3, <1>5, NewHeader
  <1> QED
    BY <1>1, <1>4, <1>6, <1>8, <1>9 DEF BlockAt

(* The rest of the free chunk stays free.                                  *)
Rest(m, n, a, c, f) ==
    /\ n[c + 1] = [size |-> f, pinuse |-> TRUE, cinuse |-> FALSE] /\ n[c + f] = [foot |-> f]
    /\ \A w \in Words : w > c /\ w # c + 1 /\ w # c + f => n[w] = m[w]

(* The free chunk was the top chunk.                                       *)
LEMMA ExpandTop ==
    ASSUME NEW m, NEW n, NEW top, NEW ts, Layout(m, top, ts, {}), NEW a, NEW c, NEW f,
           a \in Nat, c \in Nat, c % 2 = 0, f \in Nat, f % 2 = 0, c + f = top + ts, top <= c,
           f > 0 => f >= 4 /\ Rest(m, n, a, c, f),
           f = 0 => \A w \in Words : w > c => n[w] = m[w]
    PROVE  Behind(n, c, f)
  <1>1. /\ top \in Nat /\ ts \in Nat /\ top + ts + 2 <= HEAP_LIMIT /\ HEAP_LIMIT \in Nat /\ HEAP_LIMIT % 2 = 0
        /\ Behind(m, top, ts)
    BY KMallocAssumption DEF Layout, Behind, CHUNK_ALIGN_ON
  <1>2. n[c + f + 1] = [size |-> 0, pinuse |-> FALSE, cinuse |-> FALSE]
    <2>1. c + f + 1 \in Words /\ c + f + 1 > c /\ c + f + 1 # c + f /\ c + f + 1 = top + ts + 1
          /\ (f >= 4 => c + f + 1 # c + 1)
      BY <1>1 DEF Words
    <2>2. n[c + f + 1] = m[c + f + 1]
      BY <2>1 DEF Rest
    <2> QED
      BY <1>1, <2>1, <2>2 DEF Behind
  <1>3. ASSUME NEW b \in c + 1 .. HEAP_LIMIT - 1, b # c + f, b % 2 = 0
        PROVE  ~IsChunk(n, b)
    <2>1. b + 1 \in Words /\ b + 1 > c /\ b + 1 # c + 1 /\ b + 1 # c + f /\ b \in top + 1 .. HEAP_LIMIT - 1 /\ b # top + ts
      BY <1>1, <1>3 DEF Words
    <2>2. n[b + 1] = m[b + 1]
      BY <2>1 DEF Rest
    <2> QED
      BY <1>1, <2>1, <2>2 DEF Behind, IsChunk
  <1>4. \A b \in c + 1 .. HEAP_LIMIT - 1 : b # c + f => ~IsChunk(n, b)
    BY <1>3 DEF IsChunk
  <1> QED
    BY <1>1, <1>2, <1>4 DEF Behind, Rest

(* The free chunk was not the top chunk. next is where it was, and X are   *)
(* the free chunks then.                                                   *)
Widened(m, n, top, ts, a, s, next, X) ==
    /\ Layout(n, top, ts, {}) /\ n[a + 1].size = s /\ FreeIn(n, top) = X /\ UsedIn(n, top) = UsedIn(m, top)
    /\ SizesKept(m, n, FreeIn(m, top) \ {next}) /\ SizesKept(m, n, UsedIn(m, top) \ {a})

Widens(m, n, top, a, y, next, z, p, s) ==
    /\ a \in UsedIn(m, top) /\ y = m[a + 1].size /\ p = m[a + 1].pinuse
    /\ next = a + y /\ next \in FreeIn(m, top) /\ z = m[next + 1].size
    /\ s \in Nat /\ s % 2 = 0 /\ y < s /\ Expanded(m, n, a, p, s)

WindowFacts(m, top, ts, a, y, next, z, p, s) ==
    /\ a \in Nat /\ a % 2 = 0 /\ y \in Nat /\ y >= 4 /\ p \in BOOLEAN
    /\ next \in Nat /\ z \in Nat /\ z >= 4 /\ z % 2 = 0 /\ next = a + y /\ next + z < top
    /\ top \in Nat /\ top + 2 <= HEAP_LIMIT /\ HEAP_LIMIT \in Nat
    /\ s \in Nat /\ s >= 4 /\ s % 2 = 0 /\ y < s
    /\ Hole(m, a, p, next + z, FALSE, top, ts, {}) /\ m[next + z + 1].cinuse = TRUE
    /\ \A b \in a + 1 .. a + y - 1 : ~IsChunk(m, b)
    /\ \A b \in next + 1 .. next + z - 1 : ~IsChunk(m, b)
    /\ IsChunk(m, a) /\ m[a + 1].cinuse = TRUE /\ IsChunk(m, next) /\ m[next + 1].cinuse = FALSE

LEMMA Window ==
    ASSUME NEW m, NEW n, NEW top, NEW ts, Layout(m, top, ts, {}), NEW a, NEW y, NEW next, NEW z, NEW p, NEW s,
           Widens(m, n, top, a, y, next, z, p, s)
    PROVE  WindowFacts(m, top, ts, a, y, next, z, p, s)
  <1>1. PICK h, E : h = m[a + 1] /\ E = {}
    OBVIOUS
  <1>2. /\ a \in UsedIn(m, top) /\ y = h.size /\ p = h.pinuse /\ next = a + y /\ next \in FreeIn(m, top)
        /\ z = m[next + 1].size /\ s \in Nat /\ s % 2 = 0 /\ y < s
    BY <1>1 DEF Widens
  <1>3. IsUsed(m, a, h, top, ts, E)
    BY <1>1, <1>2, UsedFacts
  <1>4. IsFree(m, next, z, top, ts, E)
    BY <1>1, <1>2, FreeFacts
  <1>5. /\ a \in Nat /\ SizeOK(y) /\ h \in HEADER /\ h.cinuse = TRUE /\ Hole(m, a, p, a + y, TRUE, top, ts, E)
        /\ \A b \in a + 1 .. a + y - 1 : ~IsChunk(m, b)
    BY <1>2, <1>3 DEF IsUsed
  <1>6. /\ next \in Nat /\ SizeOK(z) /\ next + z < top /\ m[next + 1] = [size |-> z, pinuse |-> TRUE, cinuse |-> FALSE]
        /\ m[next + z + 1].cinuse = TRUE /\ Hole(m, next, TRUE, next + z, FALSE, top, ts, E)
        /\ \A b \in next + 1 .. next + z - 1 : ~IsChunk(m, b)
    BY <1>4 DEF IsFree
  <1>7. Hole(m, a, p, next + z, FALSE, top, ts, E)
    BY <1>5, <1>6 DEF Hole
  <1>8. top \in Nat /\ top + 2 <= HEAP_LIMIT /\ HEAP_LIMIT \in Nat
    <2>1. top \in Nat /\ ts \in Nat /\ top + ts + 2 <= HEAP_LIMIT
      BY DEF Layout, Behind
    <2> QED
      BY <2>1, Alignment
  <1>9. IsChunk(m, a) /\ IsChunk(m, next) /\ a % 2 = 0
    BY <1>2 DEF UsedIn, FreeIn, IsChunk
  <1>10. m[next + 1].cinuse = FALSE
    BY <1>6
  <1>11. y \in Nat /\ y >= 4 /\ z \in Nat /\ z >= 4 /\ z % 2 = 0 /\ p \in BOOLEAN
    BY <1>2, <1>5, <1>6 DEF SizeOK, HEADER
  <1>12. s >= 4
    BY <1>2, <1>11
  <1> QED
    BY <1>1, <1>2, <1>5, <1>6, <1>7, <1>8, <1>9, <1>10, <1>11, <1>12 DEF WindowFacts

LEMMA WidenAll ==
    ASSUME NEW m, NEW n, NEW top, NEW ts, Layout(m, top, ts, {}), NEW a, NEW y, NEW next, NEW z, NEW p, NEW s,
           Widens(m, n, top, a, y, next, z, p, s), NEW hi, hi = a + s, s = y + z,
           n[hi + 1] = Flagged(m[hi + 1], TRUE), \A w \in Words : w > hi + 1 => n[w] = m[w]
    PROVE  Widened(m, n, top, ts, a, s, next, FreeIn(m, top) \ {next})
  <1>1. PICK t, f, E : t = TRUE /\ f = FALSE /\ E = {}
    OBVIOUS
  <1>2. WindowFacts(m, top, ts, a, y, next, z, p, s)
    BY Window
  <1>3. /\ a \in Nat /\ a % 2 = 0 /\ y \in Nat /\ y >= 4 /\ next \in Nat /\ z \in Nat /\ z >= 4 /\ next = a + y
        /\ top \in Nat /\ top + 2 <= HEAP_LIMIT /\ HEAP_LIMIT \in Nat /\ s \in Nat /\ s >= 4 /\ s % 2 = 0
    BY <1>2 DEF WindowFacts
  <1>4. hi = next + z /\ hi \in Nat /\ a < hi
    BY <1>3
  <1>5. hi < top /\ Hole(m, a, p, hi, f, top, ts, E) /\ m[hi + 1].cinuse = TRUE
    BY <1>1, <1>2, <1>4 DEF WindowFacts
  <1>6. Expanded(m, n, a, p, s) /\ a \in UsedIn(m, top) /\ p = m[a + 1].pinuse /\ next \in FreeIn(m, top)
    BY DEF Widens
  <1>7. /\ Seg(n, a, p, hi, t, E)
        /\ IsChunk(n, a) /\ n[a + 1].size = s /\ n[a + 1].cinuse = TRUE
        /\ \A b \in a + 1 .. a + s - 1 : ~IsChunk(n, b)
    <2>1. s \in Nat /\ s % 2 = 0 /\ s >= 4
      BY <1>3
    <2>2. BlockAt(n, a, p, s)
      BY <1>6, <2>1, ExpandSeg
    <2> QED
      BY <1>1, <2>2 DEF BlockAt
  <1>8. Refills(m, n, a, hi, f, t, top, E, E)
    <2>1. \A w \in Words : w \notin a + 1 .. hi + 1 => n[w] = m[w]
      <3>1. \A w \in Words : w \notin a + 1 .. hi + 1 => w \in 0 .. a \/ w > hi + 1
        BY <1>3, <1>4 DEF Words
      <3> QED
        BY <1>6, <3>1 DEF Expanded
    <2> QED
      BY <1>1, <1>4, <1>5, <2>1 DEF Refills
  <1>9. Layout(n, top, ts, E) /\ SameOutside(m, n, a, hi, top)
    BY <1>5, <1>7, <1>8, Refill
  <1> DEFINE W == a .. hi - 1
  <1>10. SameSets(m, n, top, W)
    BY <1>9, SetsOutside
  <1>11. /\ FreeIn(m, top) \cap W = {next} /\ UsedIn(m, top) \cap W = {a}
         /\ FreeIn(n, top) \cap W = {} /\ UsedIn(n, top) \cap W = {a}
    <2>1. \A b \in W : b = a \/ b \in a + 1 .. a + y - 1 \/ b = next \/ b \in next + 1 .. next + z - 1
      BY <1>3, <1>4
    <2>2. \A b \in W : b # a /\ b # next => ~IsChunk(m, b)
      BY <1>2, <2>1 DEF WindowFacts
    <2>3. \A b \in W : b # a => ~IsChunk(n, b)
      <3>1. \A b \in W : b # a => b \in a + 1 .. a + s - 1
        BY <1>3, <1>4
      <3> QED
        BY <1>7, <3>1
    <2>4. a \in W /\ next \in W /\ a \in 0 .. top - 1 /\ next \in 0 .. top - 1 /\ a # next
      BY <1>3, <1>4, <1>5
    <2>5. m[a + 1].cinuse = TRUE /\ m[next + 1].cinuse = FALSE
      BY <1>2 DEF WindowFacts
    <2> HIDE DEF W
    <2> QED
      BY <1>6, <1>7, <2>2, <2>3, <2>4, <2>5 DEF FreeIn, UsedIn
  <1> HIDE DEF W
  <1>12. FreeIn(n, top) = FreeIn(m, top) \ {next} /\ UsedIn(n, top) = UsedIn(m, top)
    BY <1>10, <1>11 DEF SameSets
  <1>13. SizesKept(m, n, FreeIn(m, top) \ {next}) /\ SizesKept(m, n, UsedIn(m, top) \ {a})
    BY <1>10, <1>11 DEF SameSets, SizesKept
  <1> QED
    BY <1>1, <1>7, <1>9, <1>12, <1>13 DEF Widened

LEMMA WidenSplit ==
    ASSUME NEW m, NEW n, NEW top, NEW ts, Layout(m, top, ts, {}), NEW a, NEW y, NEW next, NEW z, NEW p, NEW s,
           Widens(m, n, top, a, y, next, z, p, s), NEW c, c = a + s, NEW d, d = y + z - s, d >= 4,
           Rest(m, n, a, c, d)
    PROVE  /\ Widened(m, n, top, ts, a, s, next, (FreeIn(m, top) \ {next}) \cup {c})
           /\ c \notin FreeIn(m, top) /\ n[c + 1].size = d
  <1>1. PICK t, f, E, hi : t = TRUE /\ f = FALSE /\ E = {} /\ hi = next + z
    OBVIOUS
  <1>2. WindowFacts(m, top, ts, a, y, next, z, p, s)
    BY Window
  <1>3. /\ a \in Nat /\ a % 2 = 0 /\ y \in Nat /\ y >= 4 /\ next \in Nat /\ z \in Nat /\ z >= 4 /\ next = a + y
        /\ top \in Nat /\ top + 2 <= HEAP_LIMIT /\ HEAP_LIMIT \in Nat /\ s \in Nat /\ s >= 4 /\ s % 2 = 0 /\ y < s
        /\ z % 2 = 0 /\ p \in BOOLEAN
    BY <1>2 DEF WindowFacts
  <1>4. y % 2 = 0
    <2>1. IsChunk(m, next) /\ next = a + y
      BY <1>2 DEF WindowFacts
    <2>2. (a + y) % 2 = 0
      BY <2>1 DEF IsChunk
    <2> QED
      BY <1>3, <2>2
  <1>5. /\ hi \in Nat /\ a < hi /\ d \in Nat /\ d % 2 = 0 /\ c + d = hi /\ c \in Nat /\ c % 2 = 0
        /\ next < c /\ c < hi /\ t \in BOOLEAN /\ f \in BOOLEAN
    <2>1. d \in Nat
      BY <1>3
    <2>2. d % 2 = 0
      BY <1>3, <1>4
    <2>3. hi \in Nat /\ a < hi /\ c + d = hi /\ c \in Nat /\ next < c /\ c < hi
      BY <1>1, <1>3
    <2>4. c % 2 = 0
      BY <1>3
    <2> QED
      BY <1>1, <2>1, <2>2, <2>3, <2>4
  <1>6. hi < top /\ Hole(m, a, p, hi, f, top, ts, E)
    BY <1>1, <1>2 DEF WindowFacts
  <1>7. Expanded(m, n, a, p, s) /\ a \in UsedIn(m, top) /\ p = m[a + 1].pinuse /\ next \in FreeIn(m, top)
    BY DEF Widens
  <1>8. /\ Seg(n, a, p, c, t, E)
        /\ IsChunk(n, a) /\ n[a + 1].size = s /\ n[a + 1].cinuse = TRUE
        /\ \A b \in a + 1 .. a + s - 1 : ~IsChunk(n, b)
    <2>1. s \in Nat /\ s % 2 = 0 /\ s >= 4
      BY <1>3
    <2>2. BlockAt(n, a, p, s)
      BY <1>7, <2>1, ExpandSeg
    <2> QED
      BY <1>1, <2>2 DEF BlockAt
  <1>9. n[c + 1] = [size |-> d, pinuse |-> t, cinuse |-> f] /\ n[c + d] = [foot |-> d]
        /\ \A w \in Words : w > c /\ w # c + 1 /\ w # c + d => n[w] = m[w]
    BY <1>1 DEF Rest
  <1>10. \A b \in c + 1 .. c + d - 1 : ~IsChunk(n, b)
    <2>1. SUFFICES ASSUME NEW b \in c + 1 .. c + d - 1, b % 2 = 0 PROVE ~IsChunk(n, b)
      BY DEF IsChunk
    <2>2. b + 1 \in Words /\ b + 1 > c /\ b + 1 # c + 1 /\ b + 1 # c + d /\ b \in next + 1 .. next + z - 1
      BY <1>1, <1>3, <1>5, <1>6, <2>1 DEF Words
    <2>3. ~IsChunk(m, b)
      BY <1>2, <2>2 DEF WindowFacts
    <2> QED
      BY <1>9, <2>2, <2>3 DEF IsChunk
  <1>11. Seg(n, c, t, hi, f, E)
    <2>1. ~f => t /\ n[c + d] = [foot |-> d]
      BY <1>1, <1>9
    <2>2. f => \A w \in c + 2 .. c + d : w \in E \/ n[w] = DATA
      BY <1>1
    <2>3. Seg(n, c, t, c + d, f, E)
      BY <1>5, <1>9, <1>10, <2>1, <2>2, SegOne
    <2> QED
      BY <1>5, <2>3
  <1>12. Seg(n, a, p, hi, f, E)
    BY <1>8, <1>11, SegJoin
  <1>13. n[hi + 1] = m[hi + 1]
    <2>1. hi + 1 \in Words /\ hi + 1 > c /\ hi + 1 # c + 1 /\ hi + 1 # c + d
      BY <1>3, <1>5, <1>6 DEF Words
    <2> QED
      BY <1>9, <2>1
  <1>14. Refills(m, n, a, hi, f, f, top, E, E)
    <2>1. \A w \in Words : w \notin a + 1 .. hi + 1 => n[w] = m[w]
      <3>1. \A w \in Words : w \notin a + 1 .. hi + 1 => w \in 0 .. a \/ (w > c /\ w # c + 1 /\ w # c + d)
        BY <1>3, <1>5 DEF Words
      <3> QED
        BY <1>7, <1>9, <3>1 DEF Expanded
    <2> QED
      BY <1>1, <1>5, <1>13, <2>1 DEF Refills
  <1>15. Layout(n, top, ts, E) /\ SameOutside(m, n, a, hi, top)
    BY <1>6, <1>12, <1>14, Refill
  <1> DEFINE W == a .. hi - 1
  <1>16. SameSets(m, n, top, W)
    BY <1>15, SetsOutside
  <1>17. IsChunk(n, c) /\ n[c + 1].cinuse = FALSE /\ n[c + 1].size = d
    <2>1. IsChunk(n, c) /\ n[c + 1].cinuse = f /\ n[c + 1].size = d
      BY <1>5, <1>9, NewHeader
    <2> QED
      BY <1>1, <2>1
  <1>18. /\ FreeIn(m, top) \cap W = {next} /\ UsedIn(m, top) \cap W = {a}
         /\ FreeIn(n, top) \cap W = {c} /\ UsedIn(n, top) \cap W = {a} /\ c \in W /\ c # next
    <2>1. \A b \in W : b = a \/ b \in a + 1 .. a + y - 1 \/ b = next \/ b \in next + 1 .. next + z - 1
      BY <1>1, <1>3, <1>5
    <2>2. \A b \in W : b # a /\ b # next => ~IsChunk(m, b)
      BY <1>2, <2>1 DEF WindowFacts
    <2>3. \A b \in W : b # a /\ b # c => ~IsChunk(n, b)
      <3>1. \A b \in W : b # a /\ b # c => b \in a + 1 .. a + s - 1 \/ b \in c + 1 .. c + d - 1
        BY <1>3, <1>5
      <3> QED
        BY <1>8, <1>10, <3>1
    <2>4. a \in W /\ next \in W /\ c \in W /\ a \in 0 .. top - 1 /\ next \in 0 .. top - 1 /\ c \in 0 .. top - 1
          /\ a # next /\ a # c /\ c # next
      BY <1>3, <1>5, <1>6
    <2>5. m[a + 1].cinuse = TRUE /\ m[next + 1].cinuse = FALSE
      BY <1>2 DEF WindowFacts
    <2> HIDE DEF W
    <2> QED
      BY <1>7, <1>8, <1>17, <2>2, <2>3, <2>4, <2>5 DEF FreeIn, UsedIn
  <1> HIDE DEF W
  <1>19. FreeIn(n, top) = (FreeIn(m, top) \ {next}) \cup {c} /\ UsedIn(n, top) = UsedIn(m, top) /\ c \notin FreeIn(m, top)
    BY <1>16, <1>18 DEF SameSets
  <1>20. SizesKept(m, n, FreeIn(m, top) \ {next}) /\ SizesKept(m, n, UsedIn(m, top) \ {a})
    BY <1>16, <1>18 DEF SameSets, SizesKept
  <1> QED
    BY <1>1, <1>8, <1>15, <1>17, <1>19, <1>20 DEF Widened

(* The allocator has written the header of the larger block, and what it   *)
(* wrote is behind the words of the old one. Then the caller fills it.     *)
Larger(m, g, a, y, p, s) ==
    /\ g.mem[a + 1] = [size |-> s, pinuse |-> p, cinuse |-> TRUE]
    /\ \A w \in Words : w # a + 1 /\ w <= a + y => g.mem[w] = m[w]

FilledUp(m, g, r, a, p, s) ==
    /\ r \in State /\ OnlyMem(g, r) /\ Expanded(m, r.mem, a, p, s)
    /\ \A w \in Words : w > a + s => r.mem[w] = g.mem[w]

LEMMA FillExpanded ==
    ASSUME NEW m, NEW top, NEW ts, Layout(m, top, ts, {}), NEW a \in UsedIn(m, top), NEW y, y = m[a + 1].size,
           NEW p, NEW s, s \in Nat, y < s, a + s < HEAP_LIMIT, NEW g \in State, Larger(m, g, a, y, p, s),
           NEW r, r = Fill(g, a + 2, y - 1)
    PROVE  FilledUp(m, g, r, a, p, s)
  <1>1. PICK h, E, ptr, i, e : h = m[a + 1] /\ E = {} /\ ptr = a + 2 /\ i = y - 1 /\ e = s - 1
    OBVIOUS
  <1>2. IsUsed(m, a, h, top, ts, E)
    BY <1>1, UsedFacts
  <1>3. a \in Nat /\ SizeOK(y) /\ \A w \in a + 2 .. a + y : m[w] = DATA
    BY <1>1, <1>2 DEF IsUsed
  <1>4. y \in Nat /\ y >= 4 /\ HEAP_LIMIT \in Nat
    BY <1>3, Alignment DEF SizeOK
  <1>5. /\ r \in State /\ OnlyMem(g, r)
        /\ \A w \in Words : r.mem[w] = IF ptr + i <= w /\ w < ptr + e THEN DATA ELSE g.mem[w]
    <2>1. PAYLOAD_CHUNK(ptr) = a
      BY <1>1, <1>3 DEF PAYLOAD_CHUNK
    <2>2. g.mem[a + 1].size = s
      BY DEF Larger
    <2>3. e = CHUNK_PAYLOAD_SIZE(g, PAYLOAD_CHUNK(ptr))
      BY <1>1, <2>1, <2>2 DEF CHUNK_PAYLOAD_SIZE, GETCHUNKSIZE, Header, CHUNK_OVERHEAD
    <2>4. ptr \in Int /\ i \in Int /\ e \in Int /\ r = Fill(g, ptr, i)
      BY <1>1, <1>3, <1>4
    <2> QED
      BY <2>3, <2>4, FillEffect
  <1>6. \A w \in Int : ptr + i <= w /\ w < ptr + e <=> a + y + 1 <= w /\ w <= a + s
    BY <1>1, <1>3, <1>4
  <1>7. PICK n : n = r.mem
    OBVIOUS
  <1>8. ASSUME NEW w \in Words
        PROVE  /\ a + y + 1 <= w /\ w <= a + s => n[w] = DATA
               /\ ~(a + y + 1 <= w /\ w <= a + s) => n[w] = g.mem[w]
    <2>1. w \in Int
      BY <1>4 DEF Words
    <2> QED
      BY <1>5, <1>6, <1>7, <2>1
  <1>9. n[a + 1] = [size |-> s, pinuse |-> p, cinuse |-> TRUE]
    <2>1. a + 1 \in Words /\ ~(a + y + 1 <= a + 1 /\ a + 1 <= a + s)
      BY <1>3, <1>4 DEF Words
    <2>2. n[a + 1] = g.mem[a + 1]
      BY <1>8, <2>1
    <2> QED
      BY <2>2 DEF Larger
  <1>10. \A w \in a + 2 .. a + s : n[w] = DATA
    <2>1. SUFFICES ASSUME NEW w \in a + 2 .. a + s PROVE n[w] = DATA
      OBVIOUS
    <2>2. w \in Words /\ w \in Int
      BY <1>3, <1>4 DEF Words
    <2>3. CASE a + y + 1 <= w
      BY <1>3, <1>4, <1>8, <2>1, <2>2, <2>3
    <2>4. CASE ~(a + y + 1 <= w)
      <3>1. w # a + 1 /\ w <= a + y /\ w \in a + 2 .. a + y
        BY <1>3, <1>4, <2>1, <2>2, <2>4
      <3>2. n[w] = g.mem[w] /\ g.mem[w] = m[w]
        BY <1>8, <2>2, <2>4, <3>1 DEF Larger
      <3> QED
        BY <1>3, <3>1, <3>2
    <2> QED
      BY <2>3, <2>4
  <1>11. \A w \in 0 .. a : n[w] = m[w]
    <2>1. SUFFICES ASSUME NEW w \in 0 .. a PROVE n[w] = m[w]
      OBVIOUS
    <2>2. w \in Words /\ ~(a + y + 1 <= w) /\ w # a + 1 /\ w <= a + y
      BY <1>3, <1>4 DEF Words
    <2> QED
      BY <1>8, <2>2 DEF Larger
  <1>12. \A w \in Words : w > a + s => n[w] = g.mem[w]
    <2>1. SUFFICES ASSUME NEW w \in Words, w > a + s PROVE n[w] = g.mem[w]
      OBVIOUS
    <2>2. ~(w <= a + s)
      BY <1>3, <1>4, <2>1 DEF Words
    <2> QED
      BY <1>8, <2>2
  <1> QED
    BY <1>5, <1>7, <1>9, <1>10, <1>11, <1>12 DEF FilledUp, Expanded

SplitWritten(k1, r, a, y, p, s, d) ==
    /\ r \in State /\ OnlyMem(k1, r) /\ Larger(k1.mem, r, a, y, p, s) /\ Rest(k1.mem, r.mem, a, a + s, d)

LEMMA SplitWrite ==
    ASSUME NEW k1 \in State, NEW a, NEW y, NEW p, NEW s, NEW d, a \in Nat, y \in Nat, s \in Nat, d \in Nat,
           y >= 2, y < s, d >= 4, a + s + d < HEAP_LIMIT, p \in BOOLEAN,
           NEW r, r = SetFree(SetHeader(k1, a, s, p, TRUE), a + s, d)
    PROVE  SplitWritten(k1, r, a, y, p, s, d)
  <1>1. PICK t, c, k2, m, n : t = TRUE /\ c = a + s /\ k2 = SetHeader(k1, a, s, p, t) /\ m = k1.mem /\ n = r.mem
    OBVIOUS
  <1>2. HEAP_LIMIT \in Nat
    BY Alignment
  <1>3. c \in Nat /\ c > a + 1 /\ a + 1 \in Words /\ c + 1 \in Words /\ c + d \in Words /\ d >= 2
    BY <1>1, <1>2 DEF Words
  <1>4. HeaderSet(k1, k2, a, s, p, t)
    BY <1>1, <1>3, SetHeaderDone
  <1>5. FreeSet(k2, r, c, d)
    <2>1. k2 \in State /\ r = SetFree(k2, c, d)
      BY <1>1, <1>4 DEF HeaderSet
    <2> QED
      BY <1>3, <2>1, SetFreeDone
  <1>6. /\ k2.mem[a + 1] = [size |-> s, pinuse |-> p, cinuse |-> TRUE] /\ OnlyMem(k1, k2)
        /\ \A w \in Words : w # a + 1 => k2.mem[w] = m[w]
    BY <1>1, <1>4 DEF HeaderSet
  <1>7. /\ r \in State /\ OnlyMem(k2, r) /\ n[c + 1] = [size |-> d, pinuse |-> TRUE, cinuse |-> FALSE]
        /\ n[c + d] = [foot |-> d] /\ \A w \in Words : w # c + 1 /\ w # c + d => n[w] = k2.mem[w]
    BY <1>1, <1>5 DEF FreeSet
  <1>8. Larger(m, r, a, y, p, s)
    <2>1. a + 1 # c + 1 /\ a + 1 # c + d
      BY <1>3
    <2>2. \A w \in Words : w <= a + y => w # c + 1 /\ w # c + d
      BY <1>1, <1>2, <1>3 DEF Words
    <2>3. r.mem[a + 1] = k2.mem[a + 1]
      BY <1>1, <1>3, <1>7, <2>1
    <2>4. \A w \in Words : w # a + 1 /\ w <= a + y => r.mem[w] = m[w]
      BY <1>1, <1>6, <1>7, <2>2
    <2> QED
      BY <1>6, <2>3, <2>4 DEF Larger
  <1>9. Rest(m, n, a, c, d)
    <2>1. \A w \in Words : w > c => w # a + 1
      BY <1>2, <1>3 DEF Words
    <2> QED
      BY <1>6, <1>7, <2>1 DEF Rest
  <1>10. OnlyMem(k1, r)
    BY <1>6, <1>7, OnlyMemTrans
  <1> QED
    BY <1>1, <1>7, <1>8, <1>9, <1>10 DEF SplitWritten

WholeWritten(k1, r, a, y, p, s) ==
    /\ r \in State /\ OnlyMem(k1, r) /\ Larger(k1.mem, r, a, y, p, s)
    /\ r.mem[a + s + 1] = Flagged(k1.mem[a + s + 1], TRUE)
    /\ \A w \in Words : w > a + s + 1 => r.mem[w] = k1.mem[w]

LEMMA WholeWrite ==
    ASSUME NEW k1 \in State, NEW a, NEW y, NEW p, NEW s, a \in Nat, y \in Nat, s \in Nat,
           y >= 2, y < s, a + s + 1 < HEAP_LIMIT, p \in BOOLEAN, k1.mem[a + s + 1] \in HEADER,
           NEW r, r = SetPinuse(SetHeader(k1, a, s, p, TRUE), a + s, TRUE)
    PROVE  WholeWritten(k1, r, a, y, p, s)
  <1>1. PICK t, c, k2, m, n : t = TRUE /\ c = a + s /\ k2 = SetHeader(k1, a, s, p, t) /\ m = k1.mem /\ n = r.mem
    OBVIOUS
  <1>2. HEAP_LIMIT \in Nat
    BY Alignment
  <1>3. c \in Nat /\ c > a + 1 /\ a + 1 \in Words /\ c + 1 \in Words /\ c + 1 = a + s + 1
    BY <1>1, <1>2 DEF Words
  <1>4. HeaderSet(k1, k2, a, s, p, t)
    BY <1>1, <1>3, SetHeaderDone
  <1>5. /\ k2.mem[a + 1] = [size |-> s, pinuse |-> p, cinuse |-> TRUE] /\ OnlyMem(k1, k2) /\ k2 \in State
        /\ \A w \in Words : w # a + 1 => k2.mem[w] = m[w]
    BY <1>1, <1>4 DEF HeaderSet
  <1>6. k2.mem[c + 1] = m[c + 1] /\ m[c + 1] \in HEADER
    <2>1. c + 1 # a + 1
      BY <1>3
    <2> QED
      BY <1>1, <1>3, <1>5, <2>1
  <1>7. r \in State /\ OnlyMem(k2, r) /\ FlagSet(k2.mem, n, c, t)
    <2>1. c \in Nat /\ c + 1 \in Words /\ k2.mem[c + 1] \in HEADER /\ t \in BOOLEAN /\ r = SetPinuse(k2, c, t)
      BY <1>1, <1>3, <1>6
    <2> QED
      BY <1>1, <1>5, <2>1, SetPinuseEffect
  <1>8. n[c + 1] = Flagged(m[c + 1], TRUE) /\ \A w \in Words : w # c + 1 => n[w] = k2.mem[w]
    BY <1>1, <1>6, <1>7 DEF FlagSet
  <1>9. Larger(m, r, a, y, p, s)
    <2>1. a + 1 # c + 1
      BY <1>3
    <2>2. \A w \in Words : w <= a + y => w # c + 1
      BY <1>1, <1>2, <1>3 DEF Words
    <2>3. r.mem[a + 1] = k2.mem[a + 1]
      BY <1>1, <1>3, <1>8, <2>1
    <2>4. \A w \in Words : w # a + 1 /\ w <= a + y => r.mem[w] = m[w]
      BY <1>1, <1>5, <1>8, <2>2
    <2> QED
      BY <1>5, <2>3, <2>4 DEF Larger
  <1>10. \A w \in Words : w > a + s + 1 => n[w] = m[w]
    <2>1. \A w \in Words : w > a + s + 1 => w # a + 1 /\ w # c + 1
      BY <1>2, <1>3 DEF Words
    <2> QED
      BY <1>5, <1>8, <2>1
  <1>11. OnlyMem(k1, r)
    BY <1>5, <1>7, OnlyMemTrans
  <1>12. n[a + s + 1] = Flagged(m[a + s + 1], TRUE)
    BY <1>3, <1>8
  <1> QED
    BY <1>1, <1>7, <1>9, <1>10, <1>11, <1>12 DEF WholeWritten

(* Block a of y words can grow to s words into the free chunk next of z    *)
(* words behind it.                                                        *)
Expands(k, a, y, next, z, p, s) ==
    /\ Good(k, {}) /\ a \in UsedIn(k.mem, k.topChunk) /\ y = k.mem[a + 1].size /\ p = k.mem[a + 1].pinuse
    /\ next = a + y /\ z = k.mem[next + 1].size /\ s \in Nat /\ s % 2 = 0 /\ y < s

(* The allocator has written the memory of g, and r is what the caller     *)
(* made of it.                                                             *)
Fills(k, g, r, a, s, next, X) ==
    /\ r \in State /\ SameHeap(k, r) /\ SameTop(k, r) /\ SameBins(g, r) /\ SameVictim(g, r)
    /\ Widened(k.mem, r.mem, k.topChunk, k.topChunkSize, a, s, next, X)

LEMMA WideGood ==
    ASSUME NEW k, Good(k, {}), NEW a \in UsedIn(k.mem, k.topChunk), NEW g, NEW r, NEW s, s \in Nat,
           NEW t, t \in Nat, s <= t, NEW next, NEW X, Fills(k, g, r, a, t, next, X),
           VictimOK(r), BinInv(r, ForBins(r), r.mem)
    PROVE  Resized(k, r, a, a, s)
  <1> DEFINE m == k.mem
  <1> DEFINE top == k.topChunk
  <1>1. /\ r \in State /\ SameHeap(k, r) /\ SameTop(k, r)
        /\ Widened(m, r.mem, top, k.topChunkSize, a, t, next, X)
    BY DEF Fills
  <1>2. /\ Layout(r.mem, top, k.topChunkSize, {}) /\ r.mem[a + 1].size = t
        /\ UsedIn(r.mem, top) = UsedIn(m, top) /\ SizesKept(m, r.mem, UsedIn(m, top) \ {a})
    BY <1>1 DEF Widened
  <1>3. r.topChunk = top /\ r.topChunkSize = k.topChunkSize
    BY <1>1 DEF SameTop
  <1>4. HeapOK(r)
    BY <1>1, HeapFrame DEF Good
  <1>5. Good(r, {})
    BY <1>1, <1>2, <1>3, <1>4 DEF Good
  <1>6. a \in Nat /\ r.mem[a + 1].size >= s
    BY <1>2 DEF UsedIn
  <1>7. UsedIn(r.mem, r.topChunk) = (UsedIn(m, top) \ {a}) \cup {a}
    BY <1>2, <1>3
  <1>8. r.heap_size = k.heap_size /\ r.initial_heap_size = k.initial_heap_size /\ k.heap_size \in Nat
    BY <1>1 DEF SameHeap, Good, State
  <1>9. Shrinks(k, r)
    BY <1>8 DEF Shrinks
  <1> QED BY <1>2, <1>5, <1>6, <1>7, <1>8, <1>9 DEF Resized

SplitFilled(k, g, r, a, s, next, c, d) ==
    /\ Fills(k, g, r, a, s, next, (FreeIn(k.mem, k.topChunk) \ {next}) \cup {c})
    /\ c \notin FreeIn(k.mem, k.topChunk) /\ r.mem[c + 1].size = d /\ c \in Nat
    /\ r.mem[c + 1] = g.mem[c + 1]

LEMMA SplitMem ==
    ASSUME NEW k, NEW a, NEW y, NEW next, NEW z, NEW p, NEW s, Expands(k, a, y, next, z, p, s),
           next \in FreeIn(k.mem, k.topChunk), NEW c, c = a + s, NEW d, d = y + z - s, d >= 4,
           NEW k1, OnlyBins(k, k1), NEW k3, SplitWritten(k1, k3, a, y, p, s, d),
           NEW g \in State, g.mem = k3.mem, SameHeap(k3, g), SameTop(k3, g),
           NEW r, r = Fill(g, a + 2, y - 1)
    PROVE  SplitFilled(k, g, r, a, s, next, c, d)
  <1> DEFINE top == k.topChunk
  <1> DEFINE ts == k.topChunkSize
  <1>m. PICK m : m = k.mem
    OBVIOUS
  <1>1. /\ Layout(m, top, ts, {}) /\ a \in UsedIn(m, top) /\ y = m[a + 1].size /\ p = m[a + 1].pinuse
        /\ next = a + y /\ z = m[next + 1].size /\ s \in Nat /\ s % 2 = 0 /\ y < s
        /\ next \in FreeIn(m, top)
    BY <1>m DEF Expands, Good
  <1>2. k1.mem = m /\ SameHeap(k, k1) /\ SameTop(k, k1)
    BY <1>m DEF OnlyBins
  <1>3. k3 \in State /\ SameHeap(k1, k3) /\ SameTop(k1, k3) /\ Larger(m, k3, a, y, p, s) /\ Rest(m, k3.mem, a, c, d)
    BY <1>2 DEF SplitWritten, OnlyMem
  <1>4. Larger(m, g, a, y, p, s)
    BY <1>3 DEF Larger
  <1>5. IsFree(m, next, z, top, ts, {})
    BY <1>1, FreeFacts
  <1>6. next \in Nat /\ z \in Nat /\ next + z < top
    BY <1>5 DEF IsFree, SizeOK
  <1>7. y \in Nat /\ a \in Nat
    <2>1. IsUsed(m, a, m[a + 1], top, ts, {})
      BY <1>1, UsedFacts
    <2> QED BY <2>1, <1>1 DEF IsUsed, SizeOK
  <1>8. top \in Nat /\ top + 2 <= HEAP_LIMIT /\ HEAP_LIMIT \in Nat
    BY <1>1, KMallocAssumption DEF Layout, Behind
  <1>9. a + s < HEAP_LIMIT /\ c \in Nat /\ c + d < HEAP_LIMIT /\ d \in Nat /\ c + 1 \in Words
    BY <1>1, <1>6, <1>7, <1>8 DEF Words
  <1>10. FilledUp(m, g, r, a, p, s)
    BY <1>1, <1>4, <1>9, FillExpanded
  <1>11. /\ r \in State /\ OnlyMem(g, r) /\ Expanded(m, r.mem, a, p, s)
         /\ \A w \in Words : w > c => r.mem[w] = k3.mem[w]
    BY <1>10 DEF FilledUp
  <1>12. Rest(m, r.mem, a, c, d)
    <2>1. c + d \in Words /\ c + d > c /\ c + 1 > c
      BY <1>8, <1>9 DEF Words
    <2>2. r.mem[c + 1] = k3.mem[c + 1] /\ r.mem[c + d] = k3.mem[c + d]
      BY <2>1, <1>9, <1>11
    <2> QED BY <2>2, <1>3, <1>11 DEF Rest
  <1>13. Widens(m, r.mem, top, a, y, next, z, p, s)
    BY <1>1, <1>11 DEF Widens
  <1>14. /\ Widened(m, r.mem, top, ts, a, s, next, (FreeIn(m, top) \ {next}) \cup {c})
         /\ c \notin FreeIn(m, top) /\ r.mem[c + 1].size = d
    <2>1. PICK n, h, f, X : n = r.mem /\ h = top /\ f = ts /\ X = (FreeIn(m, h) \ {next}) \cup {c}
      OBVIOUS
    <2>2. Layout(m, h, f, {}) /\ Widens(m, n, h, a, y, next, z, p, s) /\ Rest(m, n, a, c, d)
      BY <2>1, <1>1, <1>12, <1>13
    <2>3. /\ Widened(m, n, h, f, a, s, next, (FreeIn(m, h) \ {next}) \cup {c})
          /\ c \notin FreeIn(m, h) /\ n[c + 1].size = d
      BY ONLY <2>2, WidenSplit, c = a + s, d = y + z - s, d >= 4
    <2> QED BY <2>1, <2>3
  <1>15. SameHeap(k, r) /\ SameTop(k, r)
    BY <1>2, <1>3, <1>11 DEF OnlyMem, SameHeap, SameTop
  <1>16. SameBins(g, r) /\ SameVictim(g, r)
    BY <1>11 DEF OnlyMem
  <1>17. r.mem[c + 1] = k3.mem[c + 1]
    BY <1>9, <1>11
  <1> QED BY <1>m, <1>9, <1>11, <1>14, <1>15, <1>16, <1>17 DEF Fills, SplitFilled

LEMMA WholeMem ==
    ASSUME NEW k, NEW a, NEW y, NEW next, NEW z, NEW p, NEW s, Expands(k, a, y, next, z, p, s),
           next \in FreeIn(k.mem, k.topChunk), s = y + z,
           NEW k1, OnlyBins(k, k1), NEW k3, WholeWritten(k1, k3, a, y, p, s),
           NEW g \in State, g.mem = k3.mem, SameHeap(k3, g), SameTop(k3, g),
           NEW r, r = Fill(g, a + 2, y - 1)
    PROVE  Fills(k, g, r, a, s, next, FreeIn(k.mem, k.topChunk) \ {next})
  <1> DEFINE top == k.topChunk
  <1> DEFINE ts == k.topChunkSize
  <1>m. PICK m : m = k.mem
    OBVIOUS
  <1>1. /\ Layout(m, top, ts, {}) /\ a \in UsedIn(m, top) /\ y = m[a + 1].size /\ p = m[a + 1].pinuse
        /\ next = a + y /\ z = m[next + 1].size /\ s \in Nat /\ s % 2 = 0 /\ y < s
        /\ next \in FreeIn(m, top)
    BY <1>m DEF Expands, Good
  <1>2. k1.mem = m /\ SameHeap(k, k1) /\ SameTop(k, k1)
    BY <1>m DEF OnlyBins
  <1>c. PICK c : c = a + s
    OBVIOUS
  <1>3. /\ k3 \in State /\ SameHeap(k1, k3) /\ SameTop(k1, k3) /\ Larger(m, k3, a, y, p, s)
        /\ k3.mem[c + 1] = Flagged(m[c + 1], TRUE)
        /\ \A w \in Words : w > c + 1 => k3.mem[w] = m[w]
    BY <1>2, <1>c DEF WholeWritten, OnlyMem
  <1>4. Larger(m, g, a, y, p, s)
    BY <1>3 DEF Larger
  <1>5. IsFree(m, next, z, top, ts, {})
    BY <1>1, FreeFacts
  <1>6. next \in Nat /\ z \in Nat /\ next + z < top
    BY <1>5 DEF IsFree, SizeOK
  <1>7. y \in Nat /\ a \in Nat
    <2>1. IsUsed(m, a, m[a + 1], top, ts, {})
      BY <1>1, UsedFacts
    <2> QED BY <2>1, <1>1 DEF IsUsed, SizeOK
  <1>8. top \in Nat /\ top + 2 <= HEAP_LIMIT /\ HEAP_LIMIT \in Nat
    BY <1>1, KMallocAssumption DEF Layout, Behind
  <1>9. a + s < HEAP_LIMIT /\ c \in Nat /\ c + 1 \in Words /\ c + 1 > c
    <2>1. a \in Nat /\ s \in Nat /\ a + s <= top /\ top \in Nat /\ top + 2 <= HEAP_LIMIT
          /\ HEAP_LIMIT \in Nat /\ c = a + s
      <3>1. a \in Nat /\ y \in Nat /\ z \in Nat /\ s = y + z /\ next = a + y /\ next + z < top /\ top \in Nat
        BY <1>1, <1>6, <1>7, <1>8
      <3>2. s \in Nat /\ a + s <= top
        BY ONLY <3>1
      <3> QED BY ONLY <1>c, <1>8, <3>1, <3>2
    <2>2. a + s < HEAP_LIMIT /\ c \in Nat /\ c + 1 \in 0 .. HEAP_LIMIT - 1 /\ c + 1 > c
      BY ONLY <2>1
    <2> QED BY ONLY <2>2 DEF Words
  <1>10. FilledUp(m, g, r, a, p, s)
    BY <1>1, <1>4, <1>9, FillExpanded
  <1>11. /\ r \in State /\ OnlyMem(g, r) /\ Expanded(m, r.mem, a, p, s)
         /\ \A w \in Words : w > c => r.mem[w] = k3.mem[w]
    BY <1>10, <1>c DEF FilledUp
  <1>12. r.mem[c + 1] = Flagged(m[c + 1], TRUE) /\ \A w \in Words : w > c + 1 => r.mem[w] = m[w]
    <2>1. r.mem[c + 1] = k3.mem[c + 1]
      BY <1>9, <1>11
    <2>2. \A w \in Words : w > c + 1 => w > c
      BY <1>9 DEF Words
    <2> QED BY <2>1, <2>2, <1>3, <1>11
  <1>13. Widens(m, r.mem, top, a, y, next, z, p, s)
    BY <1>1, <1>11 DEF Widens
  <1>14. Widened(m, r.mem, top, ts, a, s, next, FreeIn(m, top) \ {next})
    <2>1. PICK n, h, f : n = r.mem /\ h = top /\ f = ts
      OBVIOUS
    <2>2. /\ Layout(m, h, f, {}) /\ Widens(m, n, h, a, y, next, z, p, s) /\ c = a + s /\ s = y + z
          /\ n[c + 1] = Flagged(m[c + 1], TRUE) /\ \A w \in Words : w > c + 1 => n[w] = m[w]
      BY <2>1, <1>1, <1>c, <1>12, <1>13
    <2>3. Widened(m, n, h, f, a, s, next, FreeIn(m, h) \ {next})
      BY ONLY <2>2, WidenAll
    <2> QED BY <2>1, <2>3
  <1>15. SameHeap(k, r) /\ SameTop(k, r)
    BY <1>2, <1>3, <1>11 DEF OnlyMem, SameHeap, SameTop
  <1>16. SameBins(g, r) /\ SameVictim(g, r)
    BY <1>11 DEF OnlyMem
  <1> QED BY <1>m, <1>11, <1>14, <1>15, <1>16 DEF Fills

NextFacts(k, a, y, next, z, p) ==
    /\ k \in State /\ a \in Nat /\ y \in Nat /\ y >= 4 /\ y % 2 = 0 /\ p \in BOOLEAN
    /\ next \in Nat /\ z \in Nat /\ z >= 4 /\ z % 2 = 0 /\ next + z < k.topChunk
    /\ k.topChunk \in Nat /\ k.topChunk + 2 <= HEAP_LIMIT /\ HEAP_LIMIT \in Nat
    /\ k.mem[next + z + 1] \in HEADER /\ next # NULL /\ next # k.topChunk
    /\ SizeOK(z) /\ next + z \in UsedIn(k.mem, k.topChunk)

LEMMA NextIs ==
    ASSUME NEW k, NEW a, NEW y, NEW next, NEW z, NEW p, NEW s, Expands(k, a, y, next, z, p, s),
           next \in FreeIn(k.mem, k.topChunk)
    PROVE  NextFacts(k, a, y, next, z, p)
  <1> DEFINE m == k.mem
  <1> DEFINE top == k.topChunk
  <1>1. /\ k \in State /\ Layout(m, top, k.topChunkSize, {}) /\ a \in UsedIn(m, top) /\ y = m[a + 1].size
        /\ p = m[a + 1].pinuse /\ z = m[next + 1].size /\ next \in FreeIn(m, top)
    BY DEF Expands, Good
  <1>2. IsFree(m, next, z, top, k.topChunkSize, {})
    BY <1>1, FreeFacts
  <1>3. IsUsed(m, a, m[a + 1], top, k.topChunkSize, {})
    BY <1>1, UsedFacts
  <1>4. a \in Nat /\ y \in Nat /\ y >= 4 /\ y % 2 = 0 /\ p \in BOOLEAN
    BY <1>1, <1>3 DEF IsUsed, SizeOK, HEADER
  <1>5. /\ next \in Nat /\ z \in Nat /\ z >= 4 /\ z % 2 = 0 /\ next + z < top /\ m[next + z + 1] \in HEADER
        /\ SizeOK(z) /\ next + z \in UsedIn(m, top)
    BY <1>2 DEF IsFree, SizeOK
  <1>6. top \in Nat /\ top + 2 <= HEAP_LIMIT /\ HEAP_LIMIT \in Nat
    BY <1>1, KMallocAssumption DEF Layout, Behind
  <1>7. next # NULL /\ next # top
    BY <1>5, <1>6, KMallocAssumption
  <1> QED BY <1>1, <1>4, <1>5, <1>6, <1>7 DEF NextFacts

LEMMA WideBins ==
    ASSUME NEW k, NEW k1, NEW g, NEW r, NEW a, NEW t, NEW next, NEW X, Fills(k, g, r, a, t, next, X),
           NEW Y, BinInv(k1, Y, k.mem), SameBins(k1, g), X \ {r.dVictim} = Y,
           Y \subseteq FreeIn(k.mem, k.topChunk) \ {next}
    PROVE  BinInv(r, ForBins(r), r.mem)
  <1>1. /\ SameTop(k, r) /\ SameBins(g, r)
        /\ Widened(k.mem, r.mem, k.topChunk, k.topChunkSize, a, t, next, X)
    BY DEF Fills
  <1>2. FreeIn(r.mem, r.topChunk) = X
    BY <1>1 DEF Widened, SameTop
  <1>3. PICK n, m : n = r.mem /\ m = k.mem
    OBVIOUS
  <1>4. \A b \in Y : n[b + 1].size = m[b + 1].size
    BY <1>1, <1>3 DEF Widened, SizesKept
  <1>5. SameBins(k1, r)
    BY <1>1 DEF SameBins
  <1>6. BinInv(k1, Y, m)
    BY <1>3
  <1>7. BinInv(r, Y, n)
    BY ONLY <1>4, <1>5, <1>6, BinFrame
  <1> QED BY <1>2, <1>3, <1>7 DEF ForBins

(* The free chunk is the designated victim, and so is its rest.            *)
LEMMA SplitVictim ==
    ASSUME NEW k, NEW a, NEW y, NEW next, NEW z, NEW p, NEW s, Expands(k, a, y, next, z, p, s),
           next \in FreeIn(k.mem, k.topChunk), NEW c, c = a + s, NEW d, d = y + z - s, d >= 4,
           next = k.dVictim, NEW k3, k3 = SetFree(SetHeader(k, a, s, p, TRUE), c, d),
           NEW g, g = SetVictim(k3, c, d), NEW r, r = Fill(g, a + 2, y - 1)
    PROVE  Resized(k, r, a, a, s)
  <1> DEFINE free == FreeIn(k.mem, k.topChunk)
  <1>1. NextFacts(k, a, y, next, z, p)
    BY NextIs
  <1>2. /\ Good(k, {}) /\ a \in UsedIn(k.mem, k.topChunk) /\ next = a + y /\ s \in Nat /\ y < s
    BY DEF Expands
  <1>3. /\ k \in State /\ d \in Nat /\ c \in Nat /\ a \in Nat /\ y \in Nat /\ y >= 2
        /\ a + s + d < HEAP_LIMIT /\ p \in BOOLEAN
    BY <1>1, <1>2 DEF NextFacts
  <1>4. SplitWritten(k, k3, a, y, p, s, d)
    BY <1>2, <1>3, SplitWrite
  <1>5. k3 \in State /\ OnlyMem(k, k3)
    BY <1>4 DEF SplitWritten
  <1>6. VictimSet(k3, g, c, d)
    BY <1>3, <1>5, SetVictimDone
  <1>7. /\ g \in State /\ g.mem = k3.mem /\ SameHeap(k3, g) /\ SameTop(k3, g) /\ SameBins(k3, g)
        /\ g.dVictim = c /\ g.dVictimSize = d
    BY <1>6 DEF VictimSet
  <1>8. OnlyBins(k, k)
    BY DEF OnlyBins, SameHeap, SameVictim, SameTop
  <1>9. SplitFilled(k, g, r, a, s, next, c, d)
    BY <1>4, <1>7, <1>8, SplitMem
  <1>x. PICK X : X = (free \ {next}) \cup {c}
    OBVIOUS
  <1>10. Fills(k, g, r, a, s, next, X) /\ c \notin free /\ r.mem[c + 1].size = d /\ c # NULL
    BY <1>9, <1>x, KMallocAssumption DEF SplitFilled
  <1>11. SameTop(k, r) /\ r.dVictim = c /\ r.dVictimSize = d
    BY <1>7, <1>10 DEF Fills, SameVictim
  <1>12. FreeIn(r.mem, r.topChunk) = X
    BY <1>10, <1>11 DEF Fills, Widened, SameTop
  <1>13. VictimOK(r)
    BY <1>10, <1>11, <1>12, <1>x DEF VictimOK
  <1>14. PICK Y : Y = ForBins(k)
    OBVIOUS
  <1>15. Y = free \ {next} /\ X \ {r.dVictim} = Y
    <2>1. PICK F : F = free
      OBVIOUS
    <2>2. Y = F \ {next} /\ X = (F \ {next}) \cup {c} /\ r.dVictim = c /\ c \notin F
      BY <1>x, <1>10, <1>11, <1>14, <2>1 DEF ForBins
    <2>3. Y = F \ {next} /\ X \ {r.dVictim} = Y
      BY ONLY <2>2
    <2> QED BY ONLY <2>1, <2>3
  <1>16. SameBins(k, g)
    BY <1>5, <1>7 DEF OnlyMem, SameBins
  <1>17. BinInv(k, Y, k.mem)
    BY <1>2, <1>14 DEF Good
  <1>z. Y \subseteq FreeIn(k.mem, k.topChunk) \ {next} /\ X \ {r.dVictim} = Y
    BY <1>15
  <1>18. BinInv(r, ForBins(r), r.mem)
    BY ONLY <1>10, <1>z, <1>16, <1>17, WideBins
  <1>t. s \in Nat /\ s <= s
    BY <1>2
  <1> QED BY ONLY <1>t, <1>2, <1>10, <1>13, <1>18, WideGood

LEMMA WholeVictim ==
    ASSUME NEW k, NEW a, NEW y, NEW next, NEW z, NEW p, NEW s, Expands(k, a, y, next, z, p, s),
           next \in FreeIn(k.mem, k.topChunk), NEW t, t = y + z, s <= t,
           next = k.dVictim, NEW k3, k3 = SetPinuse(SetHeader(k, a, t, p, TRUE), a + t, TRUE),
           NEW g, g = NoVictim(k3), NEW r, r = Fill(g, a + 2, y - 1)
    PROVE  Resized(k, r, a, a, s)
  <1> DEFINE free == FreeIn(k.mem, k.topChunk)
  <1>1. NextFacts(k, a, y, next, z, p)
    BY NextIs
  <1>2. /\ Good(k, {}) /\ a \in UsedIn(k.mem, k.topChunk) /\ next = a + y /\ s \in Nat /\ y < s
    BY DEF Expands
  <1>3. /\ k \in State /\ t \in Nat /\ a \in Nat /\ y \in Nat /\ y >= 2 /\ y < t
        /\ a + t + 1 < HEAP_LIMIT /\ p \in BOOLEAN /\ t % 2 = 0 /\ a + t = next + z
    BY <1>1, <1>2 DEF NextFacts
  <1>e. Expands(k, a, y, next, z, p, t)
    BY <1>3 DEF Expands
  <1>f. k.mem[a + t + 1] \in HEADER
    BY <1>1, <1>3 DEF NextFacts
  <1>4. WholeWritten(k, k3, a, y, p, t)
    BY <1>3, <1>f, WholeWrite
  <1>5. k3 \in State /\ OnlyMem(k, k3)
    BY <1>4 DEF WholeWritten
  <1>6. PICK c, d : c = NULL /\ d = 0
    OBVIOUS
  <1>7. VictimSet(k3, g, c, d)
    BY <1>5, <1>6, SetVictimDone DEF NoVictim
  <1>8. /\ g \in State /\ g.mem = k3.mem /\ SameHeap(k3, g) /\ SameTop(k3, g) /\ SameBins(k3, g)
        /\ g.dVictim = NULL /\ g.dVictimSize = 0
    BY <1>6, <1>7 DEF VictimSet
  <1>9. OnlyBins(k, k)
    BY DEF OnlyBins, SameHeap, SameVictim, SameTop
  <1>x. PICK X : X = free \ {next}
    OBVIOUS
  <1>10. Fills(k, g, r, a, t, next, X)
    BY <1>e, <1>x, <1>4, <1>8, <1>9, WholeMem
  <1>11. r.dVictim = NULL /\ r.dVictimSize = 0
    BY <1>8, <1>10 DEF Fills, SameVictim
  <1>13. VictimOK(r)
    BY <1>11 DEF VictimOK
  <1>14. PICK Y : Y = ForBins(k)
    OBVIOUS
  <1>n. NULL \notin free
    BY KMallocAssumption, <1>1 DEF FreeIn, NextFacts
  <1>15. Y = free \ {next} /\ X \ {r.dVictim} = Y
    BY <1>n, <1>x, <1>11, <1>14 DEF ForBins
  <1>16. SameBins(k, g)
    BY <1>5, <1>8 DEF OnlyMem, SameBins
  <1>17. BinInv(k, Y, k.mem)
    BY <1>2, <1>14 DEF Good
  <1>z. Y \subseteq FreeIn(k.mem, k.topChunk) \ {next} /\ X \ {r.dVictim} = Y
    BY <1>15
  <1>18. BinInv(r, ForBins(r), r.mem)
    BY ONLY <1>10, <1>z, <1>16, <1>17, WideBins
  <1> QED BY <1>2, <1>3, <1>10, <1>13, <1>18, WideGood

(* The free chunk comes from a bin.                                        *)
LEMMA WideVictim ==
    ASSUME NEW k, Good(k, {}), NEW g, NEW r, NEW a, NEW t, NEW next, NEW X, Fills(k, g, r, a, t, next, X),
           FreeIn(k.mem, k.topChunk) \ {next} \subseteq X, next # k.dVictim, SameVictim(k, g)
    PROVE  VictimOK(r) /\ r.dVictim = k.dVictim
  <1>1. /\ SameTop(k, r) /\ SameVictim(g, r)
        /\ Widened(k.mem, r.mem, k.topChunk, k.topChunkSize, a, t, next, X)
    BY DEF Fills
  <1>2. FreeIn(r.mem, r.topChunk) = X /\ SizesKept(k.mem, r.mem, FreeIn(k.mem, k.topChunk) \ {next})
    BY <1>1 DEF Widened, SameTop
  <1>3. r.dVictim = k.dVictim /\ r.dVictimSize = k.dVictimSize
    BY <1>1 DEF SameVictim
  <1>4. VictimOK(k)
    BY DEF Good
  <1>5. CASE k.dVictim = NULL
    BY <1>3, <1>4, <1>5 DEF VictimOK
  <1>6. CASE k.dVictim # NULL
    BY <1>2, <1>3, <1>4, <1>6 DEF VictimOK, SizesKept
  <1> QED BY <1>3, <1>5, <1>6

Unbinned(k, k1, next) ==
    k1 \in State /\ OnlyBins(k, k1) /\ BinInv(k1, ForBins(k) \ {next}, k.mem)

LEMMA UnbinNext ==
    ASSUME NEW k, Good(k, {}), NEW next \in FreeIn(k.mem, k.topChunk), next # k.dVictim,
           NEW k1, k1 = unbin_chunk(k, next)
    PROVE  Unbinned(k, k1, next)
  <1>1. k \in State /\ BinInv(k, ForBins(k), k.mem) /\ next \in ForBins(k)
    BY DEF Good, ForBins
  <1>2. PICK Y, m : Y = ForBins(k) /\ m = k.mem
    OBVIOUS
  <1>3. k \in State /\ BinInv(k, Y, m) /\ next \in Y /\ k.mem[next + 1] = m[next + 1]
    BY <1>1, <1>2
  <1>4. k1 \in State /\ OnlyBins(k, k1) /\ BinInv(k1, Y \ {next}, m)
    BY <1>3, BinRemove
  <1> QED BY <1>2, <1>4 DEF Unbinned

LEMMA WholeBinned ==
    ASSUME NEW k, NEW a, NEW y, NEW next, NEW z, NEW p, NEW s, Expands(k, a, y, next, z, p, s),
           next \in FreeIn(k.mem, k.topChunk), NEW t, t = y + z, s <= t,
           next # k.dVictim, NEW k1, k1 = unbin_chunk(k, next),
           NEW g, g = SetPinuse(SetHeader(k1, a, t, p, TRUE), a + t, TRUE),
           NEW r, r = Fill(g, a + 2, y - 1)
    PROVE  Resized(k, r, a, a, s)
  <1> DEFINE free == FreeIn(k.mem, k.topChunk)
  <1>1. NextFacts(k, a, y, next, z, p)
    BY NextIs
  <1>2. /\ Good(k, {}) /\ a \in UsedIn(k.mem, k.topChunk) /\ next = a + y /\ s \in Nat /\ y < s
    BY DEF Expands
  <1>3. /\ t \in Nat /\ a \in Nat /\ y \in Nat /\ y >= 2 /\ y < t
        /\ a + t + 1 < HEAP_LIMIT /\ p \in BOOLEAN /\ t % 2 = 0 /\ a + t = next + z
    BY <1>1, <1>2 DEF NextFacts
  <1>e. Expands(k, a, y, next, z, p, t)
    BY <1>3 DEF Expands
  <1>u. Unbinned(k, k1, next)
    BY <1>2, UnbinNext
  <1>4. k1 \in State /\ OnlyBins(k, k1) /\ BinInv(k1, ForBins(k) \ {next}, k.mem)
    BY <1>u DEF Unbinned
  <1>f. k1.mem[a + t + 1] \in HEADER
    BY <1>1, <1>3, <1>4 DEF NextFacts, OnlyBins
  <1>5. WholeWritten(k1, g, a, y, p, t)
    BY <1>3, <1>4, <1>f, WholeWrite
  <1>6. g \in State /\ OnlyMem(k1, g)
    BY <1>5 DEF WholeWritten
  <1>7. g.mem = g.mem /\ SameHeap(g, g) /\ SameTop(g, g)
    BY DEF SameHeap, SameTop
  <1>x. PICK X : X = free \ {next}
    OBVIOUS
  <1>8. Fills(k, g, r, a, t, next, X)
    BY <1>e, <1>x, <1>4, <1>5, <1>6, <1>7, WholeMem
  <1>9. SameVictim(k, g) /\ SameBins(k1, g)
    BY <1>4, <1>6 DEF OnlyBins, OnlyMem, SameVictim
  <1>10. FreeIn(k.mem, k.topChunk) \ {next} \subseteq X
    BY <1>x
  <1>11. VictimOK(r) /\ r.dVictim = k.dVictim
    BY ONLY <1>2, <1>8, <1>9, <1>10, next # k.dVictim, WideVictim
  <1>12. PICK Y : Y = ForBins(k) \ {next}
    OBVIOUS
  <1>13. Y \subseteq FreeIn(k.mem, k.topChunk) \ {next} /\ X \ {r.dVictim} = Y
    BY <1>x, <1>11, <1>12 DEF ForBins
  <1>14. BinInv(k1, Y, k.mem)
    BY <1>4, <1>12
  <1>15. BinInv(r, ForBins(r), r.mem)
    BY ONLY <1>8, <1>9, <1>13, <1>14, WideBins
  <1>16. VictimOK(r) /\ s \in Nat /\ s <= t /\ t \in Nat
    BY <1>2, <1>3, <1>11
  <1> QED BY ONLY <1>2, <1>8, <1>15, <1>16, WideGood

LEMMA SplitBinned ==
    ASSUME NEW k, NEW a, NEW y, NEW next, NEW z, NEW p, NEW s, Expands(k, a, y, next, z, p, s),
           next \in FreeIn(k.mem, k.topChunk), NEW c, c = a + s, NEW d, d = y + z - s, d >= 4,
           next # k.dVictim, NEW k1, k1 = unbin_chunk(k, next),
           NEW k3, k3 = SetFree(SetHeader(k1, a, s, p, TRUE), c, d),
           NEW g, g = bin_chunk(k3, c), NEW r, r = Fill(g, a + 2, y - 1)
    PROVE  Resized(k, r, a, a, s)
  <1> DEFINE free == FreeIn(k.mem, k.topChunk)
  <1>1. NextFacts(k, a, y, next, z, p)
    BY NextIs
  <1>2. /\ Good(k, {}) /\ a \in UsedIn(k.mem, k.topChunk) /\ next = a + y /\ s \in Nat /\ y < s /\ s % 2 = 0
    BY DEF Expands
  <1>3. /\ d \in Nat /\ c \in Nat /\ a \in Nat /\ y \in Nat /\ y >= 2
        /\ a + s + d < HEAP_LIMIT /\ p \in BOOLEAN
    BY <1>1, <1>2 DEF NextFacts
  <1>d. SizeOK(d)
    <2>1. d % 2 = 0
      BY <1>1, <1>2 DEF NextFacts
    <2>2. d < z /\ z < WORD /\ z \in Nat /\ WORD \in Nat
      BY <1>1, <1>2, <1>3, KMallocAssumption DEF NextFacts, SizeOK
    <2> QED BY <2>1, <2>2, <1>3 DEF SizeOK
  <1>u. Unbinned(k, k1, next)
    BY <1>2, UnbinNext
  <1>4. k1 \in State /\ OnlyBins(k, k1) /\ BinInv(k1, ForBins(k) \ {next}, k.mem)
    BY <1>u DEF Unbinned
  <1>5. SplitWritten(k1, k3, a, y, p, s, d)
    BY <1>2, <1>3, <1>4, SplitWrite
  <1>6. k3 \in State /\ OnlyMem(k1, k3)
    BY <1>5 DEF SplitWritten
  <1>x. PICK X, Y : X = (free \ {next}) \cup {c} /\ Y = ForBins(k) \ {next}
    OBVIOUS
  <1>7. PICK v : v = Fill(k3, a + 2, y - 1)
    OBVIOUS
  <1>8. SplitFilled(k, k3, v, a, s, next, c, d)
    <2>1. k3.mem = k3.mem /\ SameHeap(k3, k3) /\ SameTop(k3, k3)
      BY DEF SameHeap, SameTop
    <2> QED BY <1>4, <1>5, <1>6, <1>7, <2>1, SplitMem
  <1>9. Fills(k, k3, v, a, s, next, X) /\ c \notin free /\ v.mem[c + 1].size = d /\ v.mem[c + 1] = k3.mem[c + 1]
    BY <1>8, <1>x DEF SplitFilled
  <1>10. SizesKept(k.mem, v.mem, free \ {next})
    BY <1>9 DEF Fills, Widened
  <1>11. Y \subseteq free \ {next} /\ c \notin Y
    BY <1>x, <1>9 DEF ForBins
  <1>12. BinInv(k3, Y, v.mem)
    <2>1. PICK m, n : m = k.mem /\ n = v.mem
      OBVIOUS
    <2>2. BinInv(k1, Y, m) /\ SameBins(k1, k3) /\ \A b \in Y : n[b + 1].size = m[b + 1].size
      BY <2>1, <1>4, <1>6, <1>10, <1>11, <1>x DEF OnlyMem, SizesKept
    <2>3. BinInv(k3, Y, n)
      BY ONLY <2>2, BinFrame
    <2> QED BY <2>1, <2>3
  <1>13. g \in State /\ OnlyBins(k3, g) /\ BinInv(g, Y \cup {c}, v.mem)
    <2>1. PICK n : n = v.mem
      OBVIOUS
    <2>2. k3 \in State /\ BinInv(k3, Y, n) /\ c \in Nat /\ c \notin Y /\ k3.mem[c + 1] = n[c + 1] /\ SizeOK(n[c + 1].size)
      BY <2>1, <1>3, <1>d, <1>6, <1>8, <1>9, <1>11, <1>12
    <2>3. g \in State /\ OnlyBins(k3, g) /\ BinInv(g, Y \cup {c}, n)
      BY <2>2, BinAdd
    <2> QED BY <2>1, <2>3
  <1>14. SplitFilled(k, g, r, a, s, next, c, d)
    <2>1. g \in State /\ g.mem = k3.mem /\ SameHeap(k3, g) /\ SameTop(k3, g)
      BY <1>13 DEF OnlyBins
    <2> QED BY <1>4, <1>5, <2>1, SplitMem
  <1>15. Fills(k, g, r, a, s, next, X) /\ r.mem[c + 1].size = d
    BY <1>14, <1>x DEF SplitFilled
  <1>16. SizesKept(k.mem, r.mem, free \ {next}) /\ SameBins(g, r) /\ FreeIn(r.mem, r.topChunk) = X
    BY <1>15 DEF Fills, Widened, SameTop
  <1>17. SameVictim(k, g) /\ FreeIn(k.mem, k.topChunk) \ {next} \subseteq X
    BY <1>x, <1>4, <1>6, <1>13 DEF OnlyBins, OnlyMem, SameVictim
  <1>18. VictimOK(r) /\ r.dVictim = k.dVictim
    BY ONLY <1>2, <1>15, <1>17, next # k.dVictim, WideVictim
  <1>19. BinInv(r, Y \cup {c}, r.mem)
    <2>1. PICK m, n, Z : m = v.mem /\ n = r.mem /\ Z = Y \cup {c}
      OBVIOUS
    <2>2. BinInv(g, Z, m) /\ SameBins(g, r)
      BY <2>1, <1>13, <1>16
    <2>3. \A b \in Z : n[b + 1].size = m[b + 1].size
      <3>1. \A b \in Y : n[b + 1].size = k.mem[b + 1].size /\ m[b + 1].size = k.mem[b + 1].size
        BY ONLY <2>1, <1>10, <1>11, <1>16 DEF SizesKept
      <3>2. n[c + 1].size = m[c + 1].size
        BY ONLY <2>1, <1>9, <1>15
      <3> QED BY ONLY <2>1, <3>1, <3>2
    <2>4. BinInv(r, Z, n)
      BY ONLY <2>2, <2>3, BinFrame
    <2> QED BY <2>1, <2>4
  <1>20. c # k.dVictim
    <2>1. k.dVictim = NULL \/ k.dVictim \in free
      BY <1>2 DEF Good, VictimOK
    <2>2. c # NULL
      BY <1>3, KMallocAssumption
    <2> QED BY ONLY <2>1, <2>2, <1>9
  <1>21. ForBins(r) = Y \cup {c}
    <2>1. PICK F, v1 : F = free /\ v1 = k.dVictim
      OBVIOUS
    <2>2. ForBins(r) = ((F \ {next}) \cup {c}) \ {v1} /\ Y = (F \ {v1}) \ {next} /\ c # v1
      BY <2>1, <1>x, <1>16, <1>18, <1>20 DEF ForBins
    <2> QED BY ONLY <2>2
  <1>22. BinInv(r, ForBins(r), r.mem)
    BY ONLY <1>19, <1>21
  <1>23. VictimOK(r) /\ s \in Nat /\ s <= s
    BY ONLY <1>2, <1>18
  <1> QED BY ONLY <1>2, <1>15, <1>22, <1>23, WideGood

(* The free chunk is the top chunk.                                        *)
TopGiven(k, r, a, p, c, f) ==
    /\ r \in State /\ SameHeap(k, r) /\ SameBins(k, r) /\ SameVictim(k, r)
    /\ r.topChunk = c /\ r.topChunkSize = f /\ c + f = k.topChunk + k.topChunkSize
    /\ Expanded(k.mem, r.mem, a, p, c - a) /\ Behind(r.mem, c, f)

SameSizes(m, n, top, c, a) ==
    /\ FreeIn(n, c) = FreeIn(m, top) /\ UsedIn(n, c) = UsedIn(m, top)
    /\ SizesKept(m, n, FreeIn(m, top)) /\ SizesKept(m, n, UsedIn(m, top) \ {a})

LEMMA TopSets ==
    ASSUME NEW m, NEW n, NEW top, NEW ts, Layout(m, top, ts, {}), NEW a \in UsedIn(m, top),
           top = a + m[a + 1].size, NEW p, NEW s, Expanded(m, n, a, p, s), BlockAt(n, a, p, s),
           NEW c, c \in Nat, s \in Nat, c = a + s, top < c
    PROVE  SameSizes(m, n, top, c, a)
  <1>1. IsUsed(m, a, m[a + 1], top, ts, {})
    BY UsedFacts
  <1>2. a \in Nat /\ top \in Nat /\ m[a + 1].size \in Nat
    BY <1>1 DEF IsUsed, SizeOK, Layout, Behind
  <1>3. \A b \in a + 1 .. top - 1 : ~IsChunk(m, b)
    BY <1>1, <1>2 DEF IsUsed
  <1>4. \A b \in a + 1 .. c - 1 : ~IsChunk(n, b)
    BY <1>2 DEF BlockAt
  <1>5. \A b \in 0 .. a - 1 : n[b + 1] = m[b + 1]
    BY <1>2 DEF Expanded
  <1>6. \A b \in 0 .. a - 1 : IsChunk(n, b) <=> IsChunk(m, b)
    BY <1>5 DEF IsChunk
  <1>7. IsChunk(m, a) /\ m[a + 1].cinuse /\ IsChunk(n, a) /\ n[a + 1].cinuse = TRUE
    BY DEF UsedIn, BlockAt
  <1>8. \A b : b \in FreeIn(m, top) <=> b \in 0 .. a - 1 /\ IsChunk(m, b) /\ ~m[b + 1].cinuse
    BY <1>2, <1>3, <1>7 DEF FreeIn
  <1>9. \A b : b \in FreeIn(n, c) <=> b \in 0 .. a - 1 /\ IsChunk(n, b) /\ ~n[b + 1].cinuse
    BY <1>2, <1>4, <1>7 DEF FreeIn
  <1>10. \A b : b \in UsedIn(m, top) <=> b = a \/ (b \in 0 .. a - 1 /\ IsChunk(m, b) /\ m[b + 1].cinuse)
    BY <1>2, <1>3, <1>7 DEF UsedIn
  <1>11. \A b : b \in UsedIn(n, c) <=> b = a \/ (b \in 0 .. a - 1 /\ IsChunk(n, b) /\ n[b + 1].cinuse)
    BY <1>2, <1>4, <1>7 DEF UsedIn
  <1>12. FreeIn(n, c) = FreeIn(m, top)
    BY <1>5, <1>6, <1>8, <1>9
  <1>13. UsedIn(n, c) = UsedIn(m, top)
    BY <1>5, <1>6, <1>10, <1>11
  <1>14. SizesKept(m, n, FreeIn(m, top)) /\ SizesKept(m, n, UsedIn(m, top) \ {a})
    BY <1>5, <1>8, <1>10 DEF SizesKept
  <1> QED BY <1>12, <1>13, <1>14 DEF SameSizes

LEMMA TopGivenGood ==
    ASSUME NEW k, NEW a, NEW y, NEW next, NEW z, NEW p, NEW s, Expands(k, a, y, next, z, p, s),
           next = k.topChunk, NEW t, t \in Nat, s <= t, t % 2 = 0, NEW c, c = a + t, NEW f, f \in Nat,
           NEW r, TopGiven(k, r, a, p, c, f)
    PROVE  Resized(k, r, a, a, s)
  <1>1. PICK m, n, top, ts : m = k.mem /\ n = r.mem /\ top = k.topChunk /\ ts = k.topChunkSize
    OBVIOUS
  <1>2. /\ Good(k, {}) /\ k \in State /\ HeapOK(k) /\ VictimOK(k) /\ BinInv(k, ForBins(k), m)
        /\ Layout(m, top, ts, {}) /\ a \in UsedIn(m, top) /\ y = m[a + 1].size /\ p = m[a + 1].pinuse
        /\ top = a + y /\ s \in Nat /\ y < s
    BY <1>1 DEF Expands, Good
  <1>3. IsUsed(m, a, m[a + 1], top, ts, {})
    BY <1>2, UsedFacts
  <1>4. a \in Nat /\ y \in Nat /\ y >= 4 /\ top \in Nat /\ ts \in Nat
    BY <1>2, <1>3 DEF IsUsed, SizeOK, Layout, Behind
  <1>5. c \in Nat /\ c - a = t /\ t >= 4 /\ top < c
    BY <1>2, <1>4
  <1>6. /\ r \in State /\ SameHeap(k, r) /\ SameBins(k, r) /\ SameVictim(k, r)
        /\ r.topChunk = c /\ r.topChunkSize = f /\ c + f = top + ts
        /\ Expanded(m, n, a, p, t) /\ Behind(n, c, f)
    BY <1>1, <1>5 DEF TopGiven
  <1>7. BlockAt(n, a, p, t)
    BY <1>2, <1>5, <1>6, ExpandSeg
  <1>8. Seg(n, 0, TRUE, c, TRUE, {}) /\ n[a + 1].size = t
    BY <1>7 DEF BlockAt
  <1>9. Layout(n, c, f, {})
    BY <1>6, <1>8 DEF Layout
  <1>10. top = a + m[a + 1].size /\ c \in Nat /\ t \in Nat /\ c = a + t /\ top < c
    BY <1>2, <1>5
  <1>s. SameSizes(m, n, top, c, a)
    BY ONLY <1>2, <1>6, <1>7, <1>10, TopSets
  <1>11. /\ FreeIn(n, c) = FreeIn(m, top) /\ UsedIn(n, c) = UsedIn(m, top)
         /\ SizesKept(m, n, FreeIn(m, top)) /\ SizesKept(m, n, UsedIn(m, top) \ {a})
    BY <1>s DEF SameSizes
  <1>12. HeapOK(r)
    BY <1>1, <1>2, <1>4, <1>6 DEF HeapOK, SameHeap
  <1>13. VictimOK(r)
    BY <1>1, <1>2, <1>6, <1>11 DEF VictimOK, SameVictim, SizesKept
  <1>14. PICK Y : Y = ForBins(k)
    OBVIOUS
  <1>15. ForBins(r) = Y /\ Y \subseteq FreeIn(m, top)
    BY <1>1, <1>6, <1>11, <1>14 DEF ForBins, SameVictim
  <1>16. BinInv(k, Y, m) /\ SameBins(k, r) /\ \A b \in Y : n[b + 1].size = m[b + 1].size
    BY <1>2, <1>6, <1>11, <1>14, <1>15 DEF SizesKept
  <1>17. BinInv(r, Y, n)
    BY ONLY <1>16, BinFrame
  <1>18. Good(r, {})
    BY <1>1, <1>6, <1>9, <1>12, <1>13, <1>15, <1>17 DEF Good
  <1>19. r.heap_size = k.heap_size /\ r.initial_heap_size = k.initial_heap_size /\ k.heap_size \in Nat
    BY <1>2, <1>6 DEF SameHeap, State
  <1>20. Shrinks(k, r)
    BY <1>19 DEF Shrinks
  <1>21. r.mem[a + 1].size >= s
    BY <1>1, <1>2, <1>8
  <1>22. UsedIn(r.mem, r.topChunk) = (UsedIn(k.mem, k.topChunk) \ {a}) \cup {a}
    BY <1>1, <1>2, <1>6, <1>11
  <1>23. SizesKept(k.mem, r.mem, UsedIn(k.mem, k.topChunk) \ {a})
    BY <1>1, <1>11
  <1> QED BY <1>4, <1>18, <1>19, <1>20, <1>21, <1>22, <1>23 DEF Resized

TopFacts(k, a, y, z, p, m, top, ts) ==
    /\ m = k.mem /\ top = k.topChunk /\ ts = k.topChunkSize /\ top = a + y
    /\ k \in State /\ Layout(m, top, ts, {}) /\ a \in UsedIn(m, top) /\ y = m[a + 1].size
    /\ p = m[a + 1].pinuse /\ p \in BOOLEAN /\ a \in Nat /\ a % 2 = 0 /\ y \in Nat /\ y >= 4 /\ y % 2 = 0
    /\ top \in Nat /\ ts \in Nat /\ ts % 2 = 0 /\ z = ts /\ top + ts + 2 <= HEAP_LIMIT /\ HEAP_LIMIT \in Nat

LEMMA TopIs ==
    ASSUME NEW k, NEW a, NEW y, NEW next, NEW z, NEW p, NEW s, Expands(k, a, y, next, z, p, s),
           next = k.topChunk, NEW m, NEW top, NEW ts, m = k.mem, top = k.topChunk, ts = k.topChunkSize
    PROVE  TopFacts(k, a, y, z, p, m, top, ts)
  <1>1. /\ k \in State /\ Layout(m, top, ts, {}) /\ a \in UsedIn(m, top) /\ y = m[a + 1].size
        /\ p = m[a + 1].pinuse /\ top = a + y /\ z = m[top + 1].size
    BY DEF Expands, Good
  <1>2. IsUsed(m, a, m[a + 1], top, ts, {})
    BY <1>1, UsedFacts
  <1>3. a \in Nat /\ a % 2 = 0 /\ y \in Nat /\ y >= 4 /\ y % 2 = 0 /\ p \in BOOLEAN
    BY <1>1, <1>2 DEF IsUsed, SizeOK, HEADER, Seg
  <1>4. top \in Nat /\ ts \in Nat /\ ts % 2 = 0 /\ top + ts + 2 <= HEAP_LIMIT
    BY <1>1 DEF Layout, Behind
  <1>5. z = ts
    <2>1. CASE ts > 0
      <3>1. Behind(m, top, ts)
        BY ONLY <1>1 DEF Layout
      <3>2. m[top + 1] = [size |-> ts, pinuse |-> TRUE, cinuse |-> FALSE]
        BY ONLY <2>1, <3>1 DEF Behind
      <3> QED BY ONLY <1>1, <3>2
    <2>2. CASE ts = 0
      <3>1. m[top + ts + 1] = [size |-> 0, pinuse |-> FALSE, cinuse |-> FALSE]
        BY <1>1 DEF Layout, Behind
      <3>2. top + ts + 1 = top + 1
        BY <1>4, <2>2
      <3> QED BY <1>1, <2>2, <3>1, <3>2
    <2> QED BY <1>4, <2>1, <2>2
  <1> QED BY <1>1, <1>3, <1>4, <1>5, KMallocAssumption DEF TopFacts

LEMMA SplitTopGiven ==
    ASSUME NEW k, NEW a, NEW y, NEW next, NEW z, NEW p, NEW s, Expands(k, a, y, next, z, p, s),
           next = k.topChunk, NEW c, c = a + s, NEW d, d = y + z - s, d >= 4,
           NEW k3, k3 = SetFree(SetHeader(k, a, s, p, TRUE), c, d),
           NEW g, g = SetTop(k3, c, d), NEW r, r = Fill(g, a + 2, y - 1)
    PROVE  Resized(k, r, a, a, s)
  <1>1. PICK m, top, ts : m = k.mem /\ top = k.topChunk /\ ts = k.topChunkSize
    OBVIOUS
  <1>2. TopFacts(k, a, y, z, p, m, top, ts)
    BY ONLY <1>1, Expands(k, a, y, next, z, p, s), next = k.topChunk, TopIs
  <1>3. /\ k \in State /\ Layout(m, top, ts, {}) /\ a \in UsedIn(m, top) /\ y = m[a + 1].size
        /\ p \in BOOLEAN /\ a \in Nat /\ y \in Nat /\ y >= 4 /\ top \in Nat /\ ts \in Nat
        /\ top = a + y /\ z = ts /\ top + ts + 2 <= HEAP_LIMIT /\ HEAP_LIMIT \in Nat
    BY <1>2 DEF TopFacts
  <1>4. s \in Nat /\ y < s /\ s % 2 = 0
    BY DEF Expands
  <1>5. /\ c \in Nat /\ d \in Nat /\ a + s + d < HEAP_LIMIT /\ a + s < HEAP_LIMIT /\ c + d = top + ts /\ top <= c
        /\ y >= 2 /\ c - a = s
    BY <1>3, <1>4
  <1>6. c % 2 = 0 /\ d % 2 = 0
    BY <1>2, <1>4 DEF TopFacts
  <1>7. SplitWritten(k, k3, a, y, p, s, d)
    BY <1>3, <1>4, <1>5, SplitWrite
  <1>8. k3 \in State /\ OnlyMem(k, k3) /\ Larger(m, k3, a, y, p, s) /\ Rest(m, k3.mem, a, c, d)
    BY <1>1, <1>7 DEF SplitWritten
  <1>9. g \in State /\ OnlyTop(k3, g, c, d)
    BY <1>5, <1>8, SetTopEffect
  <1>10. /\ g.mem = k3.mem /\ g.topChunk = c /\ g.topChunkSize = d
         /\ SameHeap(k3, g) /\ SameBins(k3, g) /\ SameVictim(k3, g)
    BY <1>9 DEF OnlyTop
  <1>11. Larger(m, g, a, y, p, s)
    BY <1>8, <1>10 DEF Larger
  <1>12. FilledUp(m, g, r, a, p, s)
    BY <1>3, <1>4, <1>5, <1>9, <1>11, FillExpanded
  <1>13. PICK n : n = r.mem
    OBVIOUS
  <1>14. /\ r \in State /\ OnlyMem(g, r) /\ Expanded(m, n, a, p, s)
         /\ \A w \in Words : w > c => n[w] = k3.mem[w]
    BY <1>10, <1>12, <1>13 DEF FilledUp
  <1>15. Rest(m, n, a, c, d)
    <2>1. c + d \in Words /\ c + 1 \in Words /\ c + d > c /\ c + 1 > c
      BY <1>3, <1>5 DEF Words
    <2>2. n[c + 1] = k3.mem[c + 1] /\ n[c + d] = k3.mem[c + d]
      BY <2>1, <1>14
    <2> QED BY <2>2, <1>8, <1>14 DEF Rest
  <1>16. /\ Layout(m, top, ts, {}) /\ a \in Nat /\ c \in Nat /\ c % 2 = 0 /\ d \in Nat /\ d % 2 = 0
         /\ c + d = top + ts /\ top <= c /\ (d > 0 => d >= 4 /\ Rest(m, n, a, c, d))
         /\ (d = 0 => \A w \in Words : w > c => n[w] = m[w])
    BY <1>3, <1>5, <1>6, <1>15
  <1>17. Behind(n, c, d)
    BY ONLY <1>16, ExpandTop
  <1>18. SameHeap(k, r) /\ SameBins(k, r) /\ SameVictim(k, r) /\ r.topChunk = c /\ r.topChunkSize = d
    BY ONLY <1>8, <1>10, <1>14 DEF OnlyMem, SameHeap, SameBins, SameVictim, SameTop
  <1>19. TopGiven(k, r, a, p, c, d)
    BY <1>1, <1>5, <1>13, <1>14, <1>17, <1>18 DEF TopGiven
  <1>20. /\ Expands(k, a, y, next, z, p, s) /\ next = k.topChunk /\ s \in Nat /\ s <= s /\ s % 2 = 0 /\ c = a + s
         /\ d \in Nat
    BY <1>4, <1>5
  <1> QED BY ONLY <1>19, <1>20, TopGivenGood

LEMMA WholeTopGiven ==
    ASSUME NEW k, NEW a, NEW y, NEW next, NEW z, NEW p, NEW s, Expands(k, a, y, next, z, p, s),
           next = k.topChunk, NEW t, t = y + z, s <= t, NEW c, c = a + t,
           NEW k3, k3 = SetHeader(k, a, t, p, TRUE),
           NEW g, g = SetTop(k3, c, 0), NEW r, r = Fill(g, a + 2, y - 1)
    PROVE  Resized(k, r, a, a, s)
  <1>1. PICK m, top, ts : m = k.mem /\ top = k.topChunk /\ ts = k.topChunkSize
    OBVIOUS
  <1>2. TopFacts(k, a, y, z, p, m, top, ts)
    BY ONLY <1>1, Expands(k, a, y, next, z, p, s), next = k.topChunk, TopIs
  <1>3. /\ k \in State /\ Layout(m, top, ts, {}) /\ a \in UsedIn(m, top) /\ y = m[a + 1].size
        /\ p \in BOOLEAN /\ a \in Nat /\ y \in Nat /\ y >= 4 /\ top \in Nat /\ ts \in Nat
        /\ top = a + y /\ z = ts /\ top + ts + 2 <= HEAP_LIMIT /\ HEAP_LIMIT \in Nat
    BY <1>2 DEF TopFacts
  <1>4. s \in Nat /\ y < s /\ t \in Nat /\ y < t
    <2>1. s \in Nat /\ y < s
      BY DEF Expands
    <2> QED BY ONLY <1>3, <2>1, t = y + z, s <= t
  <1>d. PICK d, u : d = 0 /\ u = TRUE
    OBVIOUS
  <1>5. /\ c \in Nat /\ d \in Nat /\ a + t < HEAP_LIMIT /\ c + d = top + ts /\ top <= c
        /\ a + 1 \in Words /\ a + 1 <= a + y /\ c - a = t
    <2>1. t = y + ts /\ c = a + t
      BY <1>3
    <2>2. /\ a \in Nat /\ y \in Nat /\ y >= 4 /\ ts \in Nat /\ top = a + y
          /\ top + ts + 2 <= HEAP_LIMIT /\ HEAP_LIMIT \in Nat
      BY ONLY <1>3
    <2>3. /\ c \in Nat /\ a + t < HEAP_LIMIT /\ c + 0 = top + ts /\ top <= c
          /\ a + 1 <= a + y /\ c - a = t /\ 1 <= a + 1 /\ a + 1 <= HEAP_LIMIT
      BY ONLY <2>1, <2>2
    <2>4. a + 1 \in Words
      BY ONLY <2>2, <2>3 DEF Words
    <2> QED BY ONLY <1>d, <2>3, <2>4
  <1>6. c % 2 = 0 /\ d % 2 = 0 /\ t % 2 = 0
    <2>1. t = y + ts /\ c = a + t
      BY <1>3
    <2>2. /\ a \in Nat /\ a % 2 = 0 /\ y \in Nat /\ y % 2 = 0 /\ ts \in Nat /\ ts % 2 = 0
      BY ONLY <1>2 DEF TopFacts
    <2> QED BY ONLY <1>d, <2>1, <2>2
  <1>7. HeaderSet(k, k3, a, t, p, u)
    <2>1. /\ k \in State /\ a \in Nat /\ a + 1 \in Words /\ t \in Nat /\ p \in BOOLEAN /\ u \in BOOLEAN
          /\ k3 = SetHeader(k, a, t, p, u)
      BY <1>3, <1>4, <1>5, <1>d
    <2> QED BY ONLY <2>1, SetHeaderDone
  <1>8. /\ k3 \in State /\ OnlyMem(k, k3) /\ k3.mem[a + 1] = [size |-> t, pinuse |-> p, cinuse |-> TRUE]
        /\ \A w \in Words : w # a + 1 => k3.mem[w] = m[w]
    BY <1>1, <1>7, <1>d DEF HeaderSet
  <1>9. g \in State /\ OnlyTop(k3, g, c, d)
    BY <1>5, <1>8, <1>d, SetTopEffect
  <1>10. /\ g.mem = k3.mem /\ g.topChunk = c /\ g.topChunkSize = d
         /\ SameHeap(k3, g) /\ SameBins(k3, g) /\ SameVictim(k3, g)
    BY <1>9 DEF OnlyTop
  <1>11. Larger(m, g, a, y, p, t)
    BY <1>8, <1>10 DEF Larger
  <1>12. FilledUp(m, g, r, a, p, t)
    BY <1>3, <1>4, <1>5, <1>9, <1>11, FillExpanded
  <1>13. PICK n : n = r.mem
    OBVIOUS
  <1>14. /\ r \in State /\ OnlyMem(g, r) /\ Expanded(m, n, a, p, t)
         /\ \A w \in Words : w > c => n[w] = k3.mem[w]
    BY <1>10, <1>12, <1>13 DEF FilledUp
  <1>15. \A w \in Words : w > c => n[w] = m[w]
    <2>1. \A w \in Words : w > c => w # a + 1
      BY <1>3, <1>5 DEF Words
    <2> QED BY <2>1, <1>8, <1>14
  <1>16. /\ Layout(m, top, ts, {}) /\ a \in Nat /\ c \in Nat /\ c % 2 = 0 /\ d \in Nat /\ d % 2 = 0
         /\ c + d = top + ts /\ top <= c /\ (d > 0 => d >= 4 /\ Rest(m, n, a, c, d))
         /\ (d = 0 => \A w \in Words : w > c => n[w] = m[w])
    BY <1>3, <1>5, <1>6, <1>15, <1>d
  <1>17. Behind(n, c, d)
    BY ONLY <1>16, ExpandTop
  <1>18. SameHeap(k, r) /\ SameBins(k, r) /\ SameVictim(k, r) /\ r.topChunk = c /\ r.topChunkSize = d
    BY ONLY <1>8, <1>10, <1>14 DEF OnlyMem, SameHeap, SameBins, SameVictim, SameTop
  <1>19. TopGiven(k, r, a, p, c, d)
    BY <1>1, <1>5, <1>13, <1>14, <1>17, <1>18 DEF TopGiven
  <1>20. /\ Expands(k, a, y, next, z, p, s) /\ next = k.topChunk /\ t \in Nat /\ s <= t /\ t % 2 = 0 /\ c = a + t
         /\ d \in Nat
    BY <1>4, <1>5, <1>6
  <1> QED BY ONLY <1>19, <1>20, TopGivenGood

(* try_expand_chunk writes the headers before it takes the free chunk out  *)
(* of its bin. In the other order it has the same result: taking a chunk   *)
(* out of its bin only looks at the size of that chunk.                    *)
WithMem(k, M) == [k EXCEPT !.mem = M]

HeaderMem(m, a, s, p, c) == [m EXCEPT ![a + 1] = [size |-> s, pinuse |-> p, cinuse |-> c]]
FreeMem(m, a, s) ==
    [m EXCEPT ![a + 1] = [size |-> s, pinuse |-> TRUE, cinuse |-> FALSE], ![a + s] = [foot |-> s]]

LEMMA HeaderWrite ==
    ASSUME NEW k, NEW a, NEW s, NEW p, NEW c
    PROVE  SetHeader(k, a, s, p, c) = WithMem(k, HeaderMem(k.mem, a, s, p, c))
  BY DEF SetHeader, WithMem, HeaderMem

LEMMA FreeWrite ==
    ASSUME NEW k, NEW a, NEW s
    PROVE  SetFree(k, a, s) = WithMem(k, FreeMem(k.mem, a, s))
  BY DEF SetFree, WithMem, FreeMem

PinuseMem(m, a, p) == HeaderMem(m, a, m[a + 1].size, p, m[a + 1].cinuse)

LEMMA PinuseWrite ==
    ASSUME NEW k, NEW a, NEW p
    PROVE  SetPinuse(k, a, p) = WithMem(k, PinuseMem(k.mem, a, p))
  BY DEF SetPinuse, SetHeader, WithMem, HeaderMem, PinuseMem, GETCHUNKSIZE, IS_INUSE, Header

LEMMA WrittenMem ==
    ASSUME NEW k \in State, NEW M
    PROVE  WithMem(k, M).mem = M
  BY DEF WithMem, State

LEMMA TopCommutes ==
    ASSUME NEW k \in State, NEW M, NEW x, NEW s
    PROVE  /\ SetTop(WithMem(k, M), x, s) = WithMem(SetTop(k, x, s), M)
           /\ SetTop(k, x, s).mem = k.mem /\ SetTop(WithMem(k, M), x, s).mem = M
  BY DEF WithMem, SetTop, State

LEMMA VictimCommutes ==
    ASSUME NEW k \in State, NEW M
    PROVE  /\ NoVictim(WithMem(k, M)) = WithMem(NoVictim(k), M)
           /\ NoVictim(k).mem = k.mem /\ NoVictim(WithMem(k, M)).mem = M
  BY DEF WithMem, NoVictim, SetVictim, State

LEMMA WritesTwice ==
    ASSUME NEW k, NEW M, NEW N
    PROVE  WithMem(WithMem(k, M), N) = WithMem(k, N)
  BY DEF WithMem

LEMMA UnbinCommutes ==
    ASSUME NEW k \in State, NEW M, NEW b, M[b + 1].size = k.mem[b + 1].size
    PROVE  /\ unbin_chunk(WithMem(k, M), b) = WithMem(unbin_chunk(k, b), M)
           /\ unbin_chunk(k, b).mem = k.mem /\ WithMem(unbin_chunk(k, b), M).mem = M
  <1>1. PICK w, size, si, ti : /\ w = WithMem(k, M) /\ size = k.mem[b + 1].size
                               /\ si = small_index(size) /\ ti = calc_tbin(size)
    OBVIOUS
  <1>2. w.sbin = k.sbin /\ w.tbin = k.tbin /\ w.mem = M
    BY <1>1 DEF WithMem, State
  <1>3. GETCHUNKSIZE(w, b) = size /\ GETCHUNKSIZE(k, b) = size
    BY <1>1, <1>2 DEF GETCHUNKSIZE, Header
  <1>4. PICK list, tree : list = RemoveFirst(k.sbin[si], b) /\ tree = k.tbin[ti] \ {b}
    OBVIOUS
  <1>5. unbin_chunk(w, b) = IF size < MIN_LARGE_SIZE THEN SetSmall(w, si, list) ELSE SetLarge(w, ti, tree)
    BY ONLY <1>1, <1>2, <1>3, <1>4 DEF unbin_chunk
  <1>6. unbin_chunk(k, b) = IF size < MIN_LARGE_SIZE THEN SetSmall(k, si, list) ELSE SetLarge(k, ti, tree)
    BY ONLY <1>1, <1>3, <1>4 DEF unbin_chunk
  <1>7. SetSmall(w, si, list) = WithMem(SetSmall(k, si, list), M)
    BY <1>1 DEF SetSmall, WithMem, State
  <1>8. SetLarge(w, ti, tree) = WithMem(SetLarge(k, ti, tree), M)
    BY <1>1 DEF SetLarge, WithMem, State
  <1>9. /\ SetSmall(k, si, list).mem = k.mem /\ WithMem(SetSmall(k, si, list), M).mem = M
        /\ SetLarge(k, ti, tree).mem = k.mem /\ WithMem(SetLarge(k, ti, tree), M).mem = M
    BY DEF SetSmall, SetLarge, WithMem, State
  <1> HIDE DEF MIN_LARGE_SIZE
  <1> QED BY <1>1, <1>5, <1>6, <1>7, <1>8, <1>9
(* What try_expand_chunk does, in the terms of the lemmas above.           *)
Expansion(k, g, a, y, next, z, p, s, d) ==
    \E rest, split, whole, all :
        /\ rest = (IF next \in {k.topChunk, k.dVictim} THEN k ELSE unbin_chunk(k, next))
        /\ split = SetFree(SetHeader(rest, a, s, p, TRUE), a + s, d)
        /\ whole = SetHeader(rest, a, y + z, p, TRUE)
        /\ all = (IF k.mem[a + (y + z) + 1].size = 0 THEN whole ELSE SetPinuse(whole, a + (y + z), TRUE))
        /\ g = (IF d > 4
                THEN CASE next = k.topChunk -> SetTop(split, a + s, d)
                       [] next = k.dVictim -> SetVictim(split, a + s, d)
                       [] OTHER -> bin_chunk(split, a + s)
                ELSE CASE next = k.topChunk -> SetTop(all, a + (y + z), 0)
                       [] next = k.dVictim -> NoVictim(all)
                       [] OTHER -> all)

ExpandTo(k, next, new, fs, end, split, whole) ==
    LET taken == CASE next = k.topChunk -> SetTop(whole, end, 0)
                   [] next = k.dVictim -> NoVictim(whole)
                   [] OTHER -> unbin_chunk(whole, next)
    IN  IF fs > MINCHUNKSIZE
        THEN CASE next = k.topChunk -> SetTop(split, new, fs)
               [] next = k.dVictim -> SetVictim(split, new, fs)
               [] OTHER -> bin_chunk(unbin_chunk(split, next), new)
        ELSE IF GETCHUNKSIZE(taken, end) = 0 THEN taken ELSE SetPinuse(taken, end, TRUE)
ExpandBy(k, a, s, next, p, fs) ==
    ExpandTo(k, next, a + s, fs, a + s + fs, SetFree(SetHeader(k, a, s, p, TRUE), a + s, fs),
             SetHeader(k, a, s + fs, p, TRUE))

(* The remainder is written before next leaves its bin, or after.          *)
LEMMA SplitCommutes ==
    ASSUME NEW k \in State, NEW a, NEW s, NEW p, NEW c, NEW d, NEW f,
           NEW next, next + 1 \in Words, next + 1 # a + 1, next + 1 # c + 1, next + 1 # c + d,
           NEW split, split = SetFree(SetHeader(k, a, s, p, f), c, d), NEW rest, rest = unbin_chunk(k, next)
    PROVE  unbin_chunk(split, next) = SetFree(SetHeader(rest, a, s, p, f), c, d)
  <1>1. PICK M, N : M = HeaderMem(k.mem, a, s, p, f) /\ N = FreeMem(M, c, d)
    OBVIOUS
  <1>2. k.mem \in [Words -> CELL]
    BY DEF State
  <1>3. M[next + 1] = k.mem[next + 1] /\ N[next + 1] = k.mem[next + 1]
    <2>1. DOMAIN M = Words /\ M[next + 1] = k.mem[next + 1]
      BY <1>1, <1>2 DEF HeaderMem
    <2> QED BY <1>1, <1>2, <2>1 DEF FreeMem
  <1>4. split = WithMem(k, N)
    <2>1. PICK w : w = SetHeader(k, a, s, p, f)
      OBVIOUS
    <2>2. w = WithMem(k, M)
      BY ONLY <1>1, <2>1, HeaderWrite
    <2>3. w.mem = M
      BY <2>2, WrittenMem
    <2>4. split = WithMem(w, N)
      <3>1. split = SetFree(w, c, d)
        BY <2>1
      <3>2. SetFree(w, c, d) = WithMem(w, FreeMem(w.mem, c, d))
        BY FreeWrite
      <3> QED BY ONLY <1>1, <2>3, <3>1, <3>2
    <2> QED BY ONLY <2>2, <2>4, WritesTwice
  <1>5. /\ unbin_chunk(split, next) = WithMem(rest, N)
        /\ rest.mem = k.mem /\ WithMem(rest, M).mem = M
    <2>1. M[next + 1].size = k.mem[next + 1].size /\ N[next + 1].size = k.mem[next + 1].size
      BY <1>3
    <2>2. /\ unbin_chunk(WithMem(k, N), next) = WithMem(unbin_chunk(k, next), N)
          /\ unbin_chunk(k, next).mem = k.mem
      BY <2>1, UnbinCommutes
    <2>3. WithMem(unbin_chunk(k, next), M).mem = M
      BY <2>1, UnbinCommutes
    <2> QED BY <1>4, <2>2, <2>3
  <1>6. SetHeader(rest, a, s, p, f) = WithMem(rest, M)
    <2>1. SetHeader(rest, a, s, p, f) = WithMem(rest, HeaderMem(rest.mem, a, s, p, f))
      BY HeaderWrite
    <2> QED BY ONLY <1>1, <1>5, <2>1
  <1>7. PICK w : w = WithMem(rest, M)
    OBVIOUS
  <1>8. SetFree(w, c, d) = WithMem(w, N)
    <2>1. SetFree(w, c, d) = WithMem(w, FreeMem(w.mem, c, d))
      BY FreeWrite
    <2> QED BY ONLY <1>1, <1>5, <1>7, <2>1
  <1>9. WithMem(w, N) = WithMem(rest, N)
    BY ONLY <1>7, WritesTwice
  <1> QED BY ONLY <1>5, <1>6, <1>7, <1>8, <1>9

(* All of next is taken before the flag behind it is set, or after.        *)
TakesNext(k, whole, next, e, rest, taken) ==
    \/ next = k.topChunk /\ rest = SetTop(k, e, 0) /\ taken = SetTop(whole, e, 0)
    \/ next # k.topChunk /\ next = k.dVictim /\ rest = NoVictim(k) /\ taken = NoVictim(whole)
    \/ /\ next # k.topChunk /\ next # k.dVictim
       /\ rest = unbin_chunk(k, next) /\ taken = unbin_chunk(whole, next)

Commutes(k, whole, next, e, rest, taken, held, x) ==
    /\ taken.mem[e + 1] = k.mem[e + 1] /\ taken = x
    /\ SetPinuse(taken, e, TRUE) = SetPinuse(x, e, TRUE)
    /\ next = k.topChunk => taken = SetTop(whole, e, 0) /\ SetPinuse(taken, e, TRUE) = SetTop(held, e, 0)
    /\ next # k.topChunk /\ next = k.dVictim =>
           taken = NoVictim(whole) /\ SetPinuse(taken, e, TRUE) = NoVictim(held)

LEMMA WholeCommutes ==
    ASSUME NEW k \in State, NEW a, NEW t, NEW p, NEW f, f = TRUE, NEW e, e + 1 \in Words, e + 1 # a + 1,
           NEW next, next + 1 \in Words, next + 1 # a + 1,
           NEW whole, whole = SetHeader(k, a, t, p, f), NEW rest, NEW taken,
           TakesNext(k, whole, next, e, rest, taken), NEW held, held = SetPinuse(whole, e, f),
           NEW x, x = SetHeader(rest, a, t, p, f)
    PROVE  Commutes(k, whole, next, e, rest, taken, held, x)
  <1>1. PICK M, N : M = HeaderMem(k.mem, a, t, p, f) /\ N = PinuseMem(M, e, f)
    OBVIOUS
  <1>2. k.mem \in [Words -> CELL]
    BY DEF State
  <1>3. M[next + 1].size = k.mem[next + 1].size /\ M[e + 1] = k.mem[e + 1]
    BY <1>1, <1>2 DEF HeaderMem
  <1>4. whole = WithMem(k, M) /\ whole.mem = M
    <2>1. whole = WithMem(k, M)
      BY ONLY <1>1, HeaderWrite, whole = SetHeader(k, a, t, p, f)
    <2> QED BY <2>1, WrittenMem
  <1>5. held = WithMem(k, N)
    <2>1. held = WithMem(whole, PinuseMem(whole.mem, e, f))
      BY PinuseWrite
    <2>2. held = WithMem(WithMem(k, M), N)
      BY ONLY <1>1, <1>4, <2>1
    <2> QED BY ONLY <2>2, WritesTwice
  <1>6. PICK o : o = 0
    OBVIOUS
  <1>7. taken = WithMem(rest, M) /\ rest.mem = k.mem /\ taken.mem = M
    <2>1. CASE next = k.topChunk
      <3>1. rest = SetTop(k, e, o) /\ taken = SetTop(WithMem(k, M), e, o)
        BY <1>4, <1>6, <2>1 DEF TakesNext
      <3> QED BY <3>1, TopCommutes
    <2>2. CASE next # k.topChunk /\ next = k.dVictim
      <3>1. rest = NoVictim(k) /\ taken = NoVictim(WithMem(k, M))
        BY <1>4, <2>2 DEF TakesNext
      <3> QED BY <3>1, VictimCommutes
    <2>3. CASE next # k.topChunk /\ next # k.dVictim
      <3>1. rest = unbin_chunk(k, next) /\ taken = unbin_chunk(WithMem(k, M), next)
        BY <1>4, <2>3 DEF TakesNext
      <3>2. /\ unbin_chunk(WithMem(k, M), next) = WithMem(unbin_chunk(k, next), M)
            /\ unbin_chunk(k, next).mem = k.mem /\ WithMem(unbin_chunk(k, next), M).mem = M
        BY <1>3, UnbinCommutes
      <3> QED BY <3>1, <3>2
    <2> QED BY <2>1, <2>2, <2>3
  <1>8. taken = x
    <2>1. x = WithMem(rest, HeaderMem(rest.mem, a, t, p, f))
      BY HeaderWrite
    <2> QED BY ONLY <1>1, <1>7, <2>1
  <1>9. SetPinuse(taken, e, f) = WithMem(rest, N)
    <2>1. SetPinuse(taken, e, f) = WithMem(taken, PinuseMem(taken.mem, e, f))
      BY PinuseWrite
    <2>2. SetPinuse(taken, e, f) = WithMem(WithMem(rest, M), N)
      BY ONLY <1>1, <1>7, <2>1
    <2> QED BY ONLY <2>2, WritesTwice
  <1>10. next = k.topChunk => taken = SetTop(whole, e, o) /\ SetPinuse(taken, e, f) = SetTop(held, e, o)
    <2>1. SetTop(WithMem(k, N), e, o) = WithMem(SetTop(k, e, o), N)
      BY TopCommutes
    <2>2. next = k.topChunk => rest = SetTop(k, e, o) /\ taken = SetTop(whole, e, o)
      BY <1>6 DEF TakesNext
    <2> QED BY ONLY <1>5, <1>9, <2>1, <2>2
  <1>11. next # k.topChunk /\ next = k.dVictim =>
             taken = NoVictim(whole) /\ SetPinuse(taken, e, f) = NoVictim(held)
    <2>1. NoVictim(WithMem(k, N)) = WithMem(NoVictim(k), N)
      BY VictimCommutes
    <2>2. next # k.topChunk /\ next = k.dVictim => rest = NoVictim(k) /\ taken = NoVictim(whole)
      BY DEF TakesNext
    <2> QED BY ONLY <1>5, <1>9, <2>1, <2>2
  <1> QED BY <1>3, <1>6, <1>7, <1>8, <1>10, <1>11 DEF Commutes

LEMMA ExpansionIs ==
    ASSUME NEW k, NEW a, NEW y, NEW next, NEW z, NEW p, NEW s, Expands(k, a, y, next, z, p, s),
           a \in Nat, y \in Nat, y > 0, z \in Nat, next + z + 1 < HEAP_LIMIT,
           NEW d, d = y + z - s, d >= 0, NEW g, g = try_expand_chunk(k, a, s)
    PROVE  Expansion(k, g, a, y, next, z, p, s, d)
  <1>1. /\ s \in Nat /\ y = k.mem[a + 1].size /\ next = a + y /\ z = k.mem[next + 1].size /\ p = k.mem[a + 1].pinuse
        /\ k \in State /\ y < s
    BY DEF Expands, Good
  <1>2. NEXTCHUNK(k, a) = next /\ GETCHUNKSIZE(k, a) = y /\ GETCHUNKSIZE(k, next) = z /\ PREV_INUSE(k, a) = p
    BY <1>1 DEF NEXTCHUNK, GETCHUNKSIZE, Header, PREV_INUSE
  <1>3. PICK fs, c, e, t : /\ fs = z - (s - y) /\ c = a + s /\ e = c + fs /\ t = s + fs
    OBVIOUS
  <1>4. /\ fs = d /\ t = y + z /\ e = a + t /\ c \in Nat /\ d \in Nat /\ t \in Nat /\ e \in Nat /\ next \in Nat
        /\ next # a /\ next # c /\ e # a /\ e = next + z
    <2>1. a \in Int /\ y \in Int /\ z \in Int /\ s \in Int /\ y > 0 /\ y < s /\ z >= 0
      BY ONLY <1>1, a \in Nat, y \in Nat, z \in Nat, y > 0
    <2>2. z - (s - y) = y + z - s /\ s + (y + z - s) = y + z /\ a + s + (y + z - s) = a + (y + z)
      BY ONLY <2>1
    <2>3. fs = d /\ t = y + z /\ e = a + t
      BY ONLY <1>3, <2>2, d = y + z - s
    <2>4. next # a /\ next # c /\ e # a /\ e = next + z
      <3>1. next = a + y /\ c = a + s /\ e = c + fs /\ fs = z - (s - y)
        BY ONLY <1>1, <1>3
      <3> QED BY ONLY <2>1, <3>1, d >= 0, <2>3, d = y + z - s
    <2>5. c \in Nat /\ next \in Nat /\ t \in Nat
      <3>1. c = a + s /\ next = a + y /\ t = y + z /\ s \in Nat
        BY <1>1, <1>3, <2>3
      <3> QED BY ONLY <3>1, a \in Nat, y \in Nat, z \in Nat
    <2>6. d \in Nat
      BY ONLY <2>1, d = y + z - s, d >= 0
    <2>7. e \in Nat
      BY <2>3, <2>5
    <2> QED BY <2>3, <2>4, <2>5, <2>6, <2>7
  <1>5. e + 1 \in Words /\ next + 1 \in Words
    <2>1. HEAP_LIMIT \in Nat
      BY ONLY KMallocAssumption
    <2>2. e + 1 \in 0 .. HEAP_LIMIT - 1 /\ next + 1 \in 0 .. HEAP_LIMIT - 1
      BY ONLY <1>4, <2>1, z \in Nat, next + z + 1 < HEAP_LIMIT
    <2> QED BY ONLY <2>2 DEF Words
  <1>6. PICK split1, whole1, taken :
          /\ split1 = SetFree(SetHeader(k, a, s, p, TRUE), c, d) /\ whole1 = SetHeader(k, a, t, p, TRUE)
          /\ taken = CASE next = k.topChunk -> SetTop(whole1, e, 0)
                       [] next = k.dVictim -> NoVictim(whole1)
                       [] OTHER -> unbin_chunk(whole1, next)
    OBVIOUS
  <1>7. g = IF d > MINCHUNKSIZE
            THEN CASE next = k.topChunk -> SetTop(split1, c, d)
                   [] next = k.dVictim -> SetVictim(split1, c, d)
                   [] OTHER -> bin_chunk(unbin_chunk(split1, next), c)
            ELSE IF GETCHUNKSIZE(taken, e) = 0 THEN taken ELSE SetPinuse(taken, e, TRUE)
    <2>1. g = ExpandBy(k, a, s, NEXTCHUNK(k, a), PREV_INUSE(k, a),
                       GETCHUNKSIZE(k, NEXTCHUNK(k, a)) - (s - GETCHUNKSIZE(k, a)))
      BY ONLY g = try_expand_chunk(k, a, s) DEF try_expand_chunk, ExpandBy, ExpandTo
    <2>2. g = ExpandBy(k, a, s, next, p, fs)
      BY ONLY <2>1, <1>2, <1>3
    <2>3. g = ExpandTo(k, next, c, d, e, split1, whole1)
      BY ONLY <2>2, <1>3, <1>4, <1>6 DEF ExpandBy
    <2> QED BY ONLY <2>3, <1>6 DEF ExpandTo
  <1>8. PICK rest : rest = IF next \in {k.topChunk, k.dVictim} THEN k ELSE unbin_chunk(k, next)
    OBVIOUS
  <1>9. PICK split, whole, all :
          /\ split = SetFree(SetHeader(rest, a, s, p, TRUE), c, d) /\ whole = SetHeader(rest, a, t, p, TRUE)
          /\ all = IF k.mem[e + 1].size = 0 THEN whole ELSE SetPinuse(whole, e, TRUE)
    OBVIOUS
  <1>10. MINCHUNKSIZE = 4
    BY DEF MINCHUNKSIZE
  <1>f. PICK f : f = TRUE
    OBVIOUS
  <1>v. next = k.topChunk => next # k.dVictim
    <2>1. VictimOK(k) /\ next # NULL
      BY <1>4, KMallocAssumption DEF Expands, Good
    <2> QED BY <2>1 DEF VictimOK, FreeIn
  <1>11. CASE d > 4
    <2>1. next \notin {k.topChunk, k.dVictim} => unbin_chunk(split1, next) = split
      <3>1. next + 1 # a + 1 /\ next + 1 # c + 1 /\ next + 1 # c + d
        <4>1. c + d = next + z
          <5>1. e = c + fs /\ fs = d /\ e = next + z
            BY ONLY <1>3, <1>4
          <5> QED BY ONLY <5>1
        <4>2. z > 4
          <5>1. s \in Int /\ y \in Int /\ z \in Int /\ y < s
            BY <1>1
          <5> QED BY ONLY <5>1, <1>11, d = y + z - s
        <4>3. next \in Nat /\ c \in Nat /\ next # a /\ next # c
          BY ONLY <1>4
        <4> QED BY ONLY <4>1, <4>2, <4>3, z \in Nat, a \in Nat
      <3>2. SUFFICES ASSUME next \notin {k.topChunk, k.dVictim} PROVE unbin_chunk(split1, next) = split
        OBVIOUS
      <3>3. /\ k \in State /\ next + 1 \in Words /\ split1 = SetFree(SetHeader(k, a, s, p, f), c, d)
            /\ rest = unbin_chunk(k, next)
        BY <1>1, <1>5, <1>6, <1>8, <1>f, <3>2
      <3>4. unbin_chunk(split1, next) = SetFree(SetHeader(rest, a, s, p, f), c, d)
        BY ONLY <3>1, <3>3, SplitCommutes
      <3> QED BY <1>9, <1>f, <3>4
    <2>2. next \in {k.topChunk, k.dVictim} => split1 = split
      BY <1>6, <1>8, <1>9
    <2>3. g = CASE next = k.topChunk -> SetTop(split, c, d)
                [] next = k.dVictim -> SetVictim(split, c, d)
                [] OTHER -> bin_chunk(split, c)
      <3>1. g = CASE next = k.topChunk -> SetTop(split1, c, d)
                  [] next = k.dVictim -> SetVictim(split1, c, d)
                  [] OTHER -> bin_chunk(unbin_chunk(split1, next), c)
        BY ONLY <1>7, <1>10, <1>11
      <3> QED BY ONLY <2>1, <2>2, <3>1
    <2> QED
      <3>1. PICK v : v = y + z
        OBVIOUS
      <3>2. whole = SetHeader(rest, a, v, p, TRUE) /\ e = a + v
        BY <3>1, <1>4, <1>9
      <3>3. all = IF k.mem[a + v + 1].size = 0 THEN whole ELSE SetPinuse(whole, a + v, TRUE)
        BY <1>9, <3>2
      <3>4. g = IF d > 4
                THEN CASE next = k.topChunk -> SetTop(split, a + s, d)
                       [] next = k.dVictim -> SetVictim(split, a + s, d)
                       [] OTHER -> bin_chunk(split, a + s)
                ELSE CASE next = k.topChunk -> SetTop(all, a + v, 0)
                       [] next = k.dVictim -> NoVictim(all)
                       [] OTHER -> all
        BY ONLY <1>3, <1>11, <2>3
      <3>5. split = SetFree(SetHeader(rest, a, s, p, TRUE), a + s, d)
        BY <1>3, <1>9
      <3> QED BY <1>8, <3>1, <3>2, <3>3, <3>4, <3>5 DEF Expansion
  <1>12. CASE ~(d > 4)
    <2>1. g = IF GETCHUNKSIZE(taken, e) = 0 THEN taken ELSE SetPinuse(taken, e, TRUE)
      BY ONLY <1>7, <1>10, <1>12
    <2>2. PICK given, held, x : /\ given = (CASE next = k.topChunk -> SetTop(k, e, 0)
                                              [] next = k.dVictim -> NoVictim(k)
                                              [] OTHER -> unbin_chunk(k, next))
                                /\ held = SetPinuse(whole1, e, f) /\ x = SetHeader(given, a, t, p, f)
      OBVIOUS
    <2>3. TakesNext(k, whole1, next, e, given, taken)
      <3>1. CASE next = k.topChunk
        <4>1. given = SetTop(k, e, 0) /\ taken = SetTop(whole1, e, 0)
          BY ONLY <1>6, <1>v, <2>2, <3>1
        <4> QED BY <3>1, <4>1 DEF TakesNext
      <3>2. CASE next # k.topChunk /\ next = k.dVictim
        <4>1. given = NoVictim(k) /\ taken = NoVictim(whole1)
          BY ONLY <1>6, <2>2, <3>2
        <4> QED BY <3>2, <4>1 DEF TakesNext
      <3>3. CASE next # k.topChunk /\ next # k.dVictim
        <4>1. given = unbin_chunk(k, next) /\ taken = unbin_chunk(whole1, next)
          BY ONLY <1>6, <2>2, <3>3
        <4> QED BY <3>3, <4>1 DEF TakesNext
      <3> QED BY <3>1, <3>2, <3>3
    <2>4. Commutes(k, whole1, next, e, given, taken, held, x)
      <3>1. /\ k \in State /\ e + 1 \in Words /\ next + 1 \in Words /\ whole1 = SetHeader(k, a, t, p, f)
            /\ held = SetPinuse(whole1, e, f) /\ x = SetHeader(given, a, t, p, f)
        BY <1>1, <1>5, <1>6, <1>f, <2>2
      <3>2. e + 1 # a + 1 /\ next + 1 # a + 1
        BY <1>4
      <3> QED BY ONLY <1>f, <2>3, <3>1, <3>2, WholeCommutes
    <2>5. g = IF k.mem[e + 1].size = 0 THEN taken ELSE SetPinuse(taken, e, TRUE)
      BY <2>1, <2>4 DEF GETCHUNKSIZE, Header, Commutes
    <2>6. g = CASE next = k.topChunk -> SetTop(all, e, 0)
                [] next = k.dVictim -> NoVictim(all)
                [] OTHER -> all
      <3>1. CASE next = k.topChunk
        <4>1. all = IF k.mem[e + 1].size = 0 THEN whole1 ELSE held
          BY <1>6, <1>8, <1>9, <1>f, <2>2, <3>1
        <4>2. taken = SetTop(whole1, e, 0) /\ SetPinuse(taken, e, TRUE) = SetTop(held, e, 0)
          BY <2>4, <3>1 DEF Commutes
        <4>3. g = SetTop(all, e, 0)
          BY ONLY <2>5, <4>1, <4>2
        <4> QED BY ONLY <1>v, <3>1, <4>3
      <3>2. CASE next # k.topChunk /\ next = k.dVictim
        <4>1. all = IF k.mem[e + 1].size = 0 THEN whole1 ELSE held
          BY <1>6, <1>8, <1>9, <1>f, <2>2, <3>2
        <4>2. taken = NoVictim(whole1) /\ SetPinuse(taken, e, TRUE) = NoVictim(held)
          BY <2>4, <3>2 DEF Commutes
        <4>3. g = NoVictim(all)
          BY ONLY <2>5, <4>1, <4>2
        <4> QED BY ONLY <3>2, <4>3
      <3>3. CASE next # k.topChunk /\ next # k.dVictim
        <4>1. given = rest
          BY <1>8, <2>2, <3>3
        <4>2. taken = whole /\ SetPinuse(taken, e, TRUE) = SetPinuse(whole, e, TRUE)
          BY <1>9, <1>f, <2>2, <2>4, <4>1 DEF Commutes
        <4>3. g = all
          BY ONLY <1>9, <2>5, <4>2
        <4> QED BY ONLY <3>3, <4>3
      <3> QED BY <3>1, <3>2, <3>3
    <2> QED
      <3>1. PICK v : v = y + z
        OBVIOUS
      <3>2. whole = SetHeader(rest, a, v, p, TRUE) /\ e = a + v
        BY <3>1, <1>4, <1>9
      <3>3. all = IF k.mem[a + v + 1].size = 0 THEN whole ELSE SetPinuse(whole, a + v, TRUE)
        BY <1>9, <3>2
      <3>4. g = IF d > 4
                THEN CASE next = k.topChunk -> SetTop(split, a + s, d)
                       [] next = k.dVictim -> SetVictim(split, a + s, d)
                       [] OTHER -> bin_chunk(split, a + s)
                ELSE CASE next = k.topChunk -> SetTop(all, a + v, 0)
                       [] next = k.dVictim -> NoVictim(all)
                       [] OTHER -> all
        BY ONLY <1>12, <2>6, <3>2
      <3>5. split = SetFree(SetHeader(rest, a, s, p, TRUE), a + s, d)
        BY <1>3, <1>9
      <3> QED BY <1>8, <3>1, <3>2, <3>3, <3>4, <3>5 DEF Expansion
  <1> QED BY <1>11, <1>12

(* A block grows where it is.                                              *)
LEMMA ExpandIntoFree ==
    ASSUME NEW k, NEW a, NEW y, NEW next, NEW z, NEW p, NEW s, Expands(k, a, y, next, z, p, s),
           next \in FreeIn(k.mem, k.topChunk), NEW d, d = y + z - s, d >= 0,
           NEW g, Expansion(k, g, a, y, next, z, p, s, d), NEW r, r = Fill(g, a + 2, y - 1)
    PROVE  Resized(k, r, a, a, s)
  <1>1. NextFacts(k, a, y, next, z, p)
    BY NextIs
  <1>2. next = a + y /\ s \in Nat /\ y < s /\ Good(k, {})
    BY DEF Expands
  <1>3. a \in Nat /\ y \in Nat /\ z \in Nat /\ next # k.topChunk
    BY <1>1 DEF NextFacts
  <1>4. PICK c, t : c = a + s /\ t = y + z
    OBVIOUS
  <1>5. /\ c = a + s /\ d = y + z - s /\ t = y + z /\ s <= t /\ a + t = next + z
    BY <1>2, <1>3, <1>4
  <1>e. PICK rest, split, whole, all :
          /\ rest = (IF next \in {k.topChunk, k.dVictim} THEN k ELSE unbin_chunk(k, next))
          /\ split = SetFree(SetHeader(rest, a, s, p, TRUE), a + s, d)
          /\ whole = SetHeader(rest, a, y + z, p, TRUE)
          /\ all = (IF k.mem[a + (y + z) + 1].size = 0 THEN whole ELSE SetPinuse(whole, a + (y + z), TRUE))
          /\ g = (IF d > 4
                  THEN CASE next = k.topChunk -> SetTop(split, a + s, d)
                         [] next = k.dVictim -> SetVictim(split, a + s, d)
                         [] OTHER -> bin_chunk(split, a + s)
                  ELSE CASE next = k.topChunk -> SetTop(all, a + (y + z), 0)
                         [] next = k.dVictim -> NoVictim(all)
                         [] OTHER -> all)
    BY DEF Expansion
  <1>6. /\ rest = (IF next \in {k.topChunk, k.dVictim} THEN k ELSE unbin_chunk(k, next))
        /\ split = SetFree(SetHeader(rest, a, s, p, TRUE), c, d)
        /\ whole = SetHeader(rest, a, t, p, TRUE)
        /\ all = (IF k.mem[a + t + 1].size = 0 THEN whole ELSE SetPinuse(whole, a + t, TRUE))
        /\ g = (IF d > 4
                THEN CASE next = k.topChunk -> SetTop(split, c, d)
                       [] next = k.dVictim -> SetVictim(split, c, d)
                       [] OTHER -> bin_chunk(split, c)
                ELSE CASE next = k.topChunk -> SetTop(all, a + t, 0)
                       [] next = k.dVictim -> NoVictim(all)
                       [] OTHER -> all)
    BY ONLY <1>4, <1>e
  <1>7. k.mem[a + t + 1].size # 0
    <2>1. PICK e : e = next + z
      OBVIOUS
    <2>2. e \in UsedIn(k.mem, k.topChunk) /\ Layout(k.mem, k.topChunk, k.topChunkSize, {})
      BY <1>1, <1>2, <2>1 DEF NextFacts, Good
    <2>3. IsUsed(k.mem, e, k.mem[e + 1], k.topChunk, k.topChunkSize, {})
      BY <2>2, UsedFacts
    <2>4. k.mem[e + 1].size >= 4
      BY <2>3 DEF IsUsed, SizeOK
    <2> QED BY <2>4, <2>1, <1>5
  <1>8. all = SetPinuse(whole, a + t, TRUE)
    BY ONLY <1>6, <1>7
  <1>9. d > 4 => d >= 4
    OBVIOUS
  <1>10. CASE next = k.dVictim
    <2>1. rest = k
      BY ONLY <1>6, <1>10
    <2>2. CASE d > 4
      <3>1. g = SetVictim(split, c, d) /\ split = SetFree(SetHeader(k, a, s, p, TRUE), c, d)
        BY ONLY <1>3, <1>6, <1>10, <2>1, <2>2
      <3> QED BY <1>5, <1>9, <1>10, <2>2, <3>1, SplitVictim
    <2>3. CASE ~(d > 4)
      <3>1. g = NoVictim(all) /\ all = SetPinuse(SetHeader(k, a, t, p, TRUE), a + t, TRUE)
        BY ONLY <1>3, <1>6, <1>8, <1>10, <2>1, <2>3
      <3> QED BY <1>5, <1>10, <3>1, WholeVictim
    <2> QED BY <2>2, <2>3
  <1>11. CASE next # k.dVictim
    <2>1. rest = unbin_chunk(k, next)
      BY ONLY <1>3, <1>6, <1>11
    <2>2. CASE d > 4
      <3>1. g = bin_chunk(split, c) /\ split = SetFree(SetHeader(rest, a, s, p, TRUE), c, d)
        BY ONLY <1>3, <1>6, <1>11, <2>2
      <3> QED BY <1>5, <1>9, <1>11, <2>1, <2>2, <3>1, SplitBinned
    <2>3. CASE ~(d > 4)
      <3>1. g = SetPinuse(SetHeader(rest, a, t, p, TRUE), a + t, TRUE)
        BY ONLY <1>3, <1>6, <1>8, <1>11, <2>3
      <3> QED BY <1>5, <1>11, <2>1, <3>1, WholeBinned
    <2> QED BY <2>2, <2>3
  <1> QED BY <1>10, <1>11

LEMMA ExpandIntoTop ==
    ASSUME NEW k, NEW a, NEW y, NEW next, NEW z, NEW p, NEW s, Expands(k, a, y, next, z, p, s),
           next = k.topChunk, NEW d, d = y + z - s, d >= 0,
           NEW g, Expansion(k, g, a, y, next, z, p, s, d), NEW r, r = Fill(g, a + 2, y - 1)
    PROVE  Resized(k, r, a, a, s)
  <1>1. PICK m, top, ts : m = k.mem /\ top = k.topChunk /\ ts = k.topChunkSize
    OBVIOUS
  <1>2. TopFacts(k, a, y, z, p, m, top, ts)
    BY ONLY <1>1, Expands(k, a, y, next, z, p, s), next = k.topChunk, TopIs
  <1>3. a \in Nat /\ y \in Nat /\ z \in Nat /\ z = ts /\ top = a + y /\ Layout(m, top, ts, {})
    BY <1>2 DEF TopFacts
  <1>b. s \in Nat /\ y < s
    BY DEF Expands
  <1>4. PICK c, t : c = a + s /\ t = y + z
    OBVIOUS
  <1>5. /\ c = a + s /\ d = y + z - s /\ t = y + z /\ s <= t /\ a + t = top + ts
    BY <1>b, <1>3, <1>4
  <1>e. PICK rest, split, whole, all :
          /\ rest = (IF next \in {k.topChunk, k.dVictim} THEN k ELSE unbin_chunk(k, next))
          /\ split = SetFree(SetHeader(rest, a, s, p, TRUE), c, d)
          /\ whole = SetHeader(rest, a, t, p, TRUE)
          /\ all = (IF k.mem[a + t + 1].size = 0 THEN whole ELSE SetPinuse(whole, a + t, TRUE))
          /\ g = (IF d > 4
                  THEN CASE next = k.topChunk -> SetTop(split, c, d)
                         [] next = k.dVictim -> SetVictim(split, c, d)
                         [] OTHER -> bin_chunk(split, c)
                  ELSE CASE next = k.topChunk -> SetTop(all, a + t, 0)
                         [] next = k.dVictim -> NoVictim(all)
                         [] OTHER -> all)
    BY <1>4 DEF Expansion
  <1>r. rest = k /\ next # k.dVictim
    <2>1. rest = k
      BY ONLY <1>e, next = k.topChunk
    <2>2. VictimOK(k) /\ top \in Nat
      BY <1>2 DEF Expands, Good, TopFacts
    <2>3. k.dVictim # k.topChunk
      BY <2>2, <1>1, KMallocAssumption DEF VictimOK, FreeIn
    <2> QED BY <2>1, <2>3
  <1>6. /\ split = SetFree(SetHeader(k, a, s, p, TRUE), c, d)
        /\ whole = SetHeader(k, a, t, p, TRUE)
        /\ all = (IF k.mem[a + t + 1].size = 0 THEN whole ELSE SetPinuse(whole, a + t, TRUE))
        /\ g = IF d > 4 THEN SetTop(split, c, d) ELSE SetTop(all, a + t, 0)
    BY ONLY <1>e, <1>r, next = k.topChunk
  <1>7. k.mem[a + t + 1].size = 0
    BY <1>1, <1>3, <1>5 DEF Layout, Behind
  <1>8. all = whole
    BY ONLY <1>6, <1>7
  <1>9. d > 4 => d >= 4
    OBVIOUS
  <1>10. CASE d > 4
    <2>1. g = SetTop(split, c, d) /\ split = SetFree(SetHeader(k, a, s, p, TRUE), c, d)
      BY ONLY <1>6, <1>10
    <2> QED BY <1>5, <1>9, <1>10, <2>1, SplitTopGiven
  <1>11. CASE ~(d > 4)
    <2>1. g = SetTop(whole, a + t, 0) /\ whole = SetHeader(k, a, t, p, TRUE)
      BY ONLY <1>6, <1>8, <1>11
    <2> QED BY <1>5, <2>1, WholeTopGiven
  <1> QED BY <1>10, <1>11

(* What is behind a block.                                                 *)
LEMMA NextIsFree ==
    ASSUME NEW k, NEW E, Good(k, E), NEW a \in UsedIn(k.mem, k.topChunk), NEW next,
           next = a + k.mem[a + 1].size, k.mem[next + 1].cinuse = FALSE, next # k.topChunk
    PROVE  next \in FreeIn(k.mem, k.topChunk)
  <1>1. PICK z : z = k.mem[a + 1].size
    OBVIOUS
  <1>2. /\ a \in Nat /\ z \in Nat /\ a + z <= k.topChunk /\ k.topChunk \in Nat
        /\ Hole(k.mem, a, k.mem[a + 1].pinuse, a + z, TRUE, k.topChunk, k.topChunkSize, E)
    BY <1>1, BlockFacts
  <1>3. next = a + z /\ next \in Nat /\ next < k.topChunk
    BY <1>1, <1>2
  <1>4. Seg(k.mem, next, TRUE, k.topChunk, TRUE, E)
    BY <1>2, <1>3 DEF Hole
  <1>5. IsChunk(k.mem, next) /\ next \in 0 .. k.topChunk - 1
    BY <1>2, <1>3, <1>4 DEF Seg
  <1> QED BY <1>5 DEF FreeIn

(* The header behind a block, which may be that of the top chunk or of the *)
(* dummy.                                                                  *)
LEMMA NextHeader ==
    ASSUME NEW k, NEW E, Good(k, E), NEW a \in UsedIn(k.mem, k.topChunk), NEW next,
           next = a + k.mem[a + 1].size
    PROVE  k.mem[next + 1] \in HEADER
  <1>1. PICK z, m, top, ts : z = k.mem[a + 1].size /\ m = k.mem /\ top = k.topChunk /\ ts = k.topChunkSize
    OBVIOUS
  <1>2. /\ a \in Nat /\ z \in Nat /\ a + z <= top /\ top \in Nat
        /\ Hole(m, a, m[a + 1].pinuse, a + z, TRUE, top, ts, E)
    BY <1>1, BlockFacts
  <1>3. next = a + z /\ next \in Nat /\ next <= top
    BY <1>1, <1>2
  <1>h. \A x \in Nat : \A f \in BOOLEAN : [size |-> x, pinuse |-> f, cinuse |-> FALSE] \in HEADER
    BY DEF HEADER
  <1>b. Behind(m, top, ts) /\ Seg(m, a + z, TRUE, top, TRUE, E)
    BY <1>2 DEF Hole
  <1>4. CASE next = top
    <2>1. /\ ts \in Nat /\ m[top + ts + 1] = [size |-> 0, pinuse |-> FALSE, cinuse |-> FALSE]
          /\ ts > 0 => m[top + 1] = [size |-> ts, pinuse |-> TRUE, cinuse |-> FALSE]
      BY <1>b DEF Behind
    <2>2. CASE ts > 0
      <3>1. m[next + 1] = [size |-> ts, pinuse |-> TRUE, cinuse |-> FALSE]
        BY <1>4, <2>1, <2>2
      <3> QED BY <1>1, <1>h, <2>1, <3>1
    <2>3. CASE ~(ts > 0)
      <3>1. top + ts + 1 = next + 1
        BY <1>2, <1>4, <2>1, <2>3
      <3>2. m[next + 1] = [size |-> 0, pinuse |-> FALSE, cinuse |-> FALSE]
        BY <2>1, <3>1
      <3> QED BY <1>1, <1>h, <3>2
    <2> QED BY <2>2, <2>3
  <1>5. CASE next # top
    <2>1. next < top /\ next \in next .. top - 1
      BY <1>2, <1>3, <1>5
    <2>2. Seg(m, next, TRUE, top, TRUE, E)
      BY <1>b, <1>3
    <2>3. ChunkOK(m, next, top, TRUE, E)
      BY <2>1, <2>2 DEF Seg
    <2> QED BY <1>1, <2>3 DEF ChunkOK
  <1> QED BY <1>4, <1>5

LEMMA ExpandGood ==
    ASSUME NEW k, Good(k, {}), NEW a \in UsedIn(k.mem, k.topChunk), NEW y, y = k.mem[a + 1].size,
           NEW s, s \in Nat, s % 2 = 0, y < s, CanExpand(k, a, s),
           NEW g, g = try_expand_chunk(k, a, s), NEW r, r = Fill(g, a + 2, y - 1)
    PROVE  Resized(k, r, a, a, s)
  <1>1. PICK next, z, p : next = a + y /\ z = k.mem[next + 1].size /\ p = k.mem[a + 1].pinuse
    OBVIOUS
  <1>2. Expands(k, a, y, next, z, p, s)
    BY <1>1 DEF Expands
  <1>3. k.mem[next + 1].cinuse = FALSE /\ z >= s - y
    <2>1. NEXTCHUNK(k, a) = next /\ GETCHUNKSIZE(k, a) = y /\ GETCHUNKSIZE(k, next) = z
      BY <1>1 DEF NEXTCHUNK, GETCHUNKSIZE, Header
    <2>2. ~k.mem[next + 1].cinuse /\ z >= s - y
      BY <2>1 DEF CanExpand, IS_INUSE, Header
    <2>3. k.mem[next + 1].cinuse \in BOOLEAN
      <3>1. PICK E : E = {}
        OBVIOUS
      <3>2. Good(k, E) /\ next = a + k.mem[a + 1].size
        BY <3>1, <1>1
      <3>3. k.mem[next + 1] \in HEADER
        BY <3>2, NextHeader
      <3> QED BY <3>3 DEF HEADER
    <2> QED BY <2>2, <2>3
  <1>4. PICK d : d = y + z - s
    OBVIOUS
  <1>5. CASE next = k.topChunk
    <2>1. PICK m, top, ts : m = k.mem /\ top = k.topChunk /\ ts = k.topChunkSize
      OBVIOUS
    <2>2. TopFacts(k, a, y, z, p, m, top, ts)
      BY ONLY <2>1, <1>2, <1>5, TopIs
    <2>3. a \in Nat /\ y \in Nat /\ z \in Nat
      BY <2>2 DEF TopFacts
    <2>5. d >= 0
      <3>1. s \in Nat
        OBVIOUS
      <3> QED BY <3>1, <1>3, <1>4, <2>3
    <2>6. y > 0 /\ next + z + 1 < HEAP_LIMIT
      BY <1>1, <1>5, <2>1, <2>2 DEF TopFacts
    <2>4. Expansion(k, g, a, y, next, z, p, s, d)
      BY <1>2, <1>4, <2>3, <2>5, <2>6, ExpansionIs
    <2> QED BY <1>2, <1>4, <1>5, <2>4, <2>5, ExpandIntoTop
  <1>6. CASE next # k.topChunk
    <2>1. next \in FreeIn(k.mem, k.topChunk)
      <3>1. PICK E : E = {}
        OBVIOUS
      <3>2. Good(k, E)
        BY <3>1
      <3> QED BY <3>2, <1>1, <1>3, <1>6, NextIsFree
    <2>2. NextFacts(k, a, y, next, z, p)
      BY <1>2, <2>1, NextIs
    <2>3. a \in Nat /\ y \in Nat /\ z \in Nat
      BY <2>2 DEF NextFacts
    <2>5. d >= 0
      BY <1>3, <1>4, <2>3
    <2>6. y > 0 /\ next + z + 1 < HEAP_LIMIT
      BY <2>2 DEF NextFacts
    <2>4. Expansion(k, g, a, y, next, z, p, s, d)
      BY <1>2, <1>4, <2>3, <2>5, <2>6, ExpansionIs
    <2> QED BY <1>2, <1>4, <2>1, <2>4, <2>5, ExpandIntoFree
  <1> QED BY <1>5, <1>6
---------------------------------------------------------------------------
(* What a request of size words becomes.                                   *)
LEMMA RequestSize ==
    ASSUME NEW size \in Nat, size + 1 + HEAP_SIZE_ALIGN < WORD, NEW s, s = REQUEST2SIZE(size)
    PROVE  ReqOK(s) /\ size <= s - 1
  <1>1. HEAP_SIZE_ALIGN \in Nat /\ HEAP_SIZE_ALIGN >= 2 /\ WORD \in Nat \ {0} /\ 4 + HEAP_SIZE_ALIGN <= WORD
    BY Alignment, KMallocAssumption DEF MINCHUNKSIZE
  <1>2. PICK n, u : n = size + 1 /\ u = 2
    OBVIOUS
  <1>3. n \in Nat /\ u \in Nat \ {0} /\ n + u - 1 < WORD /\ n < WORD
    BY <1>1, <1>2
  <1>4. (size + CHUNK_OVERHEAD) % WORD = n
    BY <1>1, <1>2, <1>3 DEF CHUNK_OVERHEAD
  <1>5. s = IF n < 4 THEN 4 ELSE RoundUp(n, u)
    BY <1>2, <1>4 DEF REQUEST2SIZE, MINCHUNKSIZE, CHUNK_ALIGN_ON
  <1>6. CASE n < 4
    BY <1>1, <1>2, <1>5, <1>6 DEF ReqOK
  <1>7. CASE ~(n < 4)
    <2>1. s = RoundUp(n, u)
      BY <1>5, <1>7
    <2>2. s \in Nat /\ s >= n /\ s <= n + u - 1 /\ s % u = 0
      BY <1>3, <2>1, RoundUpBounds
    <2>3. s + HEAP_SIZE_ALIGN <= WORD /\ size <= s - 1 /\ s >= 4
      BY <1>1, <1>2, <1>3, <1>7, <2>2
    <2> QED BY <1>2, <2>2, <2>3 DEF ReqOK
  <1> QED BY <1>6, <1>7

(* krealloc of block a of y words. What it returns is used as the caller   *)
(* does: data is stored in the words that are new.                         *)
Reallocated(k, x, a, y, s) ==
    \/ x.ptr = NULL /\ x.km = k
    \/ \E b : /\ b \in Nat /\ x.ptr = b + 2 /\ x.ptr # NULL
              /\ Resized(k, Fill(x.km, x.ptr, y - 1), a, b, s)

LEMMA KeepsBlock ==
    ASSUME NEW k, Good(k, {}), NEW a \in UsedIn(k.mem, k.topChunk), NEW y, y = k.mem[a + 1].size,
           NEW s \in Nat, s <= y, NEW r, r = Fill(k, a + 2, y - 1)
    PROVE  Resized(k, r, a, a, s)
  <1>1. PICK E, i, ptr : E = {} /\ i = y - 1 /\ ptr = a + 2
    OBVIOUS
  <1>2. Good(k, E)
    BY <1>1
  <1>3. a \in Nat /\ y \in Nat /\ y >= 4 /\ k.heap_size \in Nat
    BY <1>2, BlockFacts
  <1>4. i \in Nat /\ \A w \in E : w \in a + i + 2 .. a + y
    BY <1>1, <1>3
  <1>5. Stored(k, r, {})
    BY <1>1, <1>2, <1>4, FillGood
  <1>6. /\ Good(r, {}) /\ r.topChunk = k.topChunk /\ UsedIn(r.mem, k.topChunk) = UsedIn(k.mem, k.topChunk)
        /\ SizesKept(k.mem, r.mem, UsedIn(k.mem, k.topChunk)) /\ SameHeap(k, r)
    BY <1>5 DEF Stored
  <1>7. r.mem[a + 1].size >= s
    BY <1>3, <1>6 DEF SizesKept
  <1>8. SizesKept(k.mem, r.mem, UsedIn(k.mem, k.topChunk) \ {a})
    BY <1>6 DEF SizesKept
  <1>9. Shrinks(k, r) /\ r.initial_heap_size = k.initial_heap_size
    BY <1>3, <1>6 DEF Shrinks, SameHeap
  <1>10. UsedIn(r.mem, r.topChunk) = (UsedIn(k.mem, k.topChunk) \ {a}) \cup {a}
    BY <1>6
  <1> QED BY <1>3, <1>6, <1>7, <1>8, <1>9, <1>10 DEF Resized

LEMMA MovesBlock ==
    ASSUME NEW k, Good(k, {}), NEW a \in UsedIn(k.mem, k.topChunk), NEW y, y = k.mem[a + 1].size,
           NEW s, ReqOK(s), y < s, NEW x \in Moved(k, a + 2, s)
    PROVE  Reallocated(k, x, a, y, s)
  <1>1. /\ a \in Nat /\ y \in Nat
    <2>1. PICK E : E = {}
      OBVIOUS
    <2>2. Good(k, E)
      BY <2>1
    <2> QED BY <2>2, BlockFacts
  <1>2. PICK ptr : ptr = a + 2
    OBVIOUS
  <1>3. CHUNK_PAYLOAD_SIZE(k, PAYLOAD_CHUNK(ptr)) = y - 1
    <2>1. PAYLOAD_CHUNK(ptr) = a
      BY <1>1, <1>2 DEF PAYLOAD_CHUNK
    <2> QED BY <2>1 DEF CHUNK_PAYLOAD_SIZE, GETCHUNKSIZE, Header, CHUNK_OVERHEAD
  <1>4. PICK o \in kmalloc_intern(k, s) :
          x = IF o.ptr = NULL THEN Nothing(k)
              ELSE [km |-> kfree(Copy(o.km, ptr, o.ptr, CHUNK_PAYLOAD_SIZE(k, PAYLOAD_CHUNK(ptr))), ptr),
                    ptr |-> o.ptr]
    BY <1>2 DEF Moved
  <1>5. Outcome(k, o, s)
    BY InternOutcome
  <1>6. CASE o.ptr = NULL
    BY <1>4, <1>6 DEF Reallocated, Nothing
  <1>7. CASE o.ptr # NULL
    <2>1. Grants(k, o, s)
      BY <1>5, <1>7 DEF Outcome, Nothing
    <2>2. PICK r1, b : o = Payload(r1, b) /\ Granting(k, r1, b, s)
      BY <2>1 DEF Grants
    <2>3. o.km = r1 /\ o.ptr = b + 2 /\ b \in Nat
      BY <2>2 DEF Payload, CHUNK_PAYLOAD, Granting
    <2>4. PICK r2, r3, r4 : /\ r2 = Copy(r1, a + 2, b + 2, y - 1) /\ r3 = kfree(r2, a + 2)
                            /\ r4 = Fill(r3, b + 2, y - 1)
      OBVIOUS
    <2>5. s \in Nat
      BY DEF ReqOK
    <2>6. Resized(k, r4, a, b, s)
      BY <2>2, <2>4, <2>5, MoveGood
    <2>7. x.km = r3 /\ x.ptr = b + 2 /\ x.ptr # NULL
      BY <1>2, <1>3, <1>4, <1>7, <2>3, <2>4
    <2> QED BY <2>3, <2>4, <2>6, <2>7 DEF Reallocated
  <1> QED BY <1>6, <1>7

(* What krealloc does when it finds a block.                               *)
ReallocOf(k, ptr, a, next, y, s, p) ==
    IF y - s = 0 \/ (y - s > 0 /\ y - s < MINCHUNKSIZE /\ IS_INUSE(k, next)) THEN {Payload(k, a)}
    ELSE IF y - s > 0
    THEN {Payload(merge_free_chunks(SetHeader(k, a, s, p, TRUE), a + s, y - s, next), a)}
    ELSE IF CanExpand(k, a, s)
    THEN IF WritesOverLink(k, a, s) THEN {} ELSE {Payload(try_expand_chunk(k, a, s), a)}
    ELSE Moved(k, ptr, s)

LEMMA ReallocIs ==
    ASSUME NEW k, Good(k, {}), NEW a \in UsedIn(k.mem, k.topChunk), NEW y, y = k.mem[a + 1].size,
           NEW ptr, ptr = a + 2, NEW size \in Nat \ {0}, NEW s, s = REQUEST2SIZE(size)
    PROVE  krealloc(k, ptr, size) = ReallocOf(k, ptr, a, a + y, y, s, k.mem[a + 1].pinuse)
  <1>1. /\ a \in Nat /\ y \in Nat /\ y >= 4 /\ a + y <= k.topChunk /\ k.topChunk \in Nat
        /\ k.topChunkSize \in Nat /\ k.topChunk + k.topChunkSize + 2 <= k.heap_size /\ k.heap_size \in Nat
        /\ k.heap_start = 0 /\ k.mem[a + 1].cinuse = TRUE
    <2>1. PICK E : E = {}
      OBVIOUS
    <2>2. Good(k, E)
      BY <2>1
    <2> QED BY <2>2, BlockFacts
  <1>2. PICK next : next = a + y
    OBVIOUS
  <1>3. PAYLOAD_CHUNK(ptr) = a
    BY <1>1 DEF PAYLOAD_CHUNK
  <1>4. GETCHUNKSIZE(k, a) = y /\ NEXTCHUNK(k, a) = next /\ PREV_INUSE(k, a) = k.mem[a + 1].pinuse /\ IS_INUSE(k, a)
    BY <1>1, <1>2 DEF GETCHUNKSIZE, NEXTCHUNK, PREV_INUSE, IS_INUSE, Header
  <1>5. ADDRESS_OK(k, a) /\ ADDRESS_OK(k, next)
    BY <1>1, <1>2 DEF ADDRESS_OK
  <1>6. KMALLOC_IS_INIT(k) /\ ptr # NULL
    BY <1>1, KMallocAssumption DEF KMALLOC_IS_INIT
  <1>7. size > 0 /\ size # 0
    OBVIOUS
  <1>8. PICK S : S = ReallocOf(k, ptr, PAYLOAD_CHUNK(ptr), NEXTCHUNK(k, PAYLOAD_CHUNK(ptr)),
                     GETCHUNKSIZE(k, PAYLOAD_CHUNK(ptr)), REQUEST2SIZE(size), PREV_INUSE(k, PAYLOAD_CHUNK(ptr)))
    OBVIOUS
  <1>9. S = ReallocOf(k, ptr, a, next, y, s, k.mem[a + 1].pinuse)
    BY <1>3, <1>4, <1>8
  <1>10. /\ KMALLOC_IS_INIT(k) /\ ADDRESS_OK(k, PAYLOAD_CHUNK(ptr)) /\ IS_INUSE(k, PAYLOAD_CHUNK(ptr))
         /\ ADDRESS_OK(k, NEXTCHUNK(k, PAYLOAD_CHUNK(ptr)))
    BY <1>3, <1>4, <1>5, <1>6
  <1>11. krealloc(k, ptr, size) = S
    BY ONLY <1>6, <1>7, <1>8, <1>10 DEF krealloc, ReallocOf
  <1> QED BY <1>2, <1>9, <1>11

LEMMA KreallocOutcome ==
    ASSUME NEW k, Good(k, {}), NEW a \in UsedIn(k.mem, k.topChunk), NEW y, y = k.mem[a + 1].size,
           NEW ptr, ptr = a + 2, NEW size \in Nat \ {0}, NEW s, s = REQUEST2SIZE(size), ReqOK(s),
           NEW x \in krealloc(k, ptr, size)
    PROVE  Reallocated(k, x, a, y, s)
  <1>1. PICK next, p, E : next = a + y /\ p = k.mem[a + 1].pinuse /\ E = {}
    OBVIOUS
  <1>2. Good(k, E)
    BY <1>1
  <1>3. /\ a \in Nat /\ y \in Nat /\ y >= 4
    BY <1>2, BlockFacts
  <1>4. k.mem[next + 1] \in HEADER
    BY <1>1, <1>2, NextHeader
  <1>5. s \in Nat /\ s % 2 = 0 /\ s >= 4
    BY DEF ReqOK
  <1>6. x \in ReallocOf(k, ptr, a, next, y, s, p)
    BY <1>1, ReallocIs
  <1>7. MINCHUNKSIZE = 4 /\ IS_INUSE(k, next) = k.mem[next + 1].cinuse /\ k.mem[next + 1].cinuse \in BOOLEAN
    BY <1>4 DEF MINCHUNKSIZE, IS_INUSE, Header, HEADER
  <1>8. ptr \in Nat /\ ptr # NULL
    BY <1>3, KMallocAssumption
  <1>9. CASE y - s = 0 \/ (y - s > 0 /\ y - s < 4 /\ IS_INUSE(k, next))
    <2>1. x = Payload(k, a)
      BY ONLY <1>6, <1>7, <1>9 DEF ReallocOf
    <2>2. x.km = k /\ x.ptr = a + 2 /\ x.ptr # NULL
      BY <2>1, <1>8 DEF Payload, CHUNK_PAYLOAD
    <2>3. s <= y
      BY <1>3, <1>5, <1>9
    <2>4. PICK r : r = Fill(k, a + 2, y - 1)
      OBVIOUS
    <2>5. Resized(k, r, a, a, s)
      BY <1>5, <2>3, <2>4, KeepsBlock
    <2> QED BY <1>3, <2>2, <2>4, <2>5 DEF Reallocated
  <1>10. CASE y - s > 0 /\ ~(y - s < 4 /\ IS_INUSE(k, next))
    <2>1. ~(y - s = 0)
      BY <1>3, <1>5, <1>10
    <2>2. PICK k1, r1, d, r : /\ k1 = SetHeader(k, a, s, p, TRUE) /\ d = y - s
                              /\ r1 = merge_free_chunks(k1, a + s, d, next) /\ r = Fill(r1, a + 2, y - 1)
      OBVIOUS
    <2>3. x = Payload(r1, a)
      BY ONLY <1>6, <1>7, <1>10, <2>1, <2>2 DEF ReallocOf
    <2>4. x.km = r1 /\ x.ptr = a + 2 /\ x.ptr # NULL
      BY <2>3, <1>8 DEF Payload, CHUNK_PAYLOAD
    <2>5. s < y /\ (y - s >= 4 \/ k.mem[a + y + 1].cinuse = FALSE)
      <3>1. CASE y - s < 4
        BY ONLY <1>1, <1>3, <1>5, <1>7, <1>10, <3>1
      <3>2. CASE ~(y - s < 4)
        BY <1>3, <1>5, <3>2
      <3> QED BY <3>1, <3>2
    <2>6. Cuts(k, k1, a, s, y)
      BY <1>1, <1>5, <2>2, <2>5, CutBlock
    <2>7. Resized(k, r, a, a, s)
      BY <1>1, <1>5, <2>2, <2>6, CutGood
    <2> QED BY <1>3, <2>2, <2>4, <2>7 DEF Reallocated
  <1>11. CASE ~(y - s > 0) /\ ~(y - s = 0)
    <2>1. y < s
      BY <1>3, <1>5, <1>11
    <2>2. CASE CanExpand(k, a, s)
      <3>1. PICK g, r : g = try_expand_chunk(k, a, s) /\ r = Fill(g, a + 2, y - 1)
        OBVIOUS
      <3>2. x = Payload(g, a)
        BY ONLY <1>6, <1>11, <2>2, <3>1 DEF ReallocOf
      <3>3. x.km = g /\ x.ptr = a + 2 /\ x.ptr # NULL
        BY <3>2, <1>8 DEF Payload, CHUNK_PAYLOAD
      <3>4. Resized(k, r, a, a, s)
        BY <1>5, <2>1, <2>2, <3>1, ExpandGood
      <3> QED BY <1>3, <3>1, <3>3, <3>4 DEF Reallocated
    <2>3. CASE ~CanExpand(k, a, s)
      <3>1. x \in Moved(k, ptr, s)
        BY ONLY <1>6, <1>11, <2>3 DEF ReallocOf
      <3> QED BY <2>1, <3>1, MovesBlock
    <2> QED BY <2>2, <2>3
  <1> QED BY <1>7, <1>9, <1>10, <1>11
---------------------------------------------------------------------------
(* What kmalloc and kcalloc give their callers, who store data in all of   *)
(* the block.                                                              *)
Allocated(k, r, b, s) ==
    /\ Good(r, {}) /\ b \in Nat /\ r.mem[b + 1].size >= s
    /\ UsedIn(r.mem, r.topChunk) = UsedIn(k.mem, k.topChunk) \cup {b}
    /\ b \notin UsedIn(k.mem, k.topChunk)
    /\ SizesKept(k.mem, r.mem, UsedIn(k.mem, k.topChunk))
    /\ r.heap_size >= k.heap_size /\ r.initial_heap_size = k.initial_heap_size

LEMMA FillAllocated ==
    ASSUME NEW k, NEW r, NEW b, NEW s, s \in Nat, Granting(k, r, b, s), NEW t, t = Fill(r, b + 2, 0)
    PROVE  Allocated(k, t, b, s)
  <1>1. PICK z, E, i, ptr : z = r.mem[b + 1].size /\ E = b + 2 .. b + z /\ i = 0 /\ ptr = b + 2
    OBVIOUS
  <1>2. /\ b \in Nat /\ z >= s /\ Good(r, E)
        /\ UsedIn(r.mem, r.topChunk) = UsedIn(k.mem, k.topChunk) \cup {b}
        /\ b \notin UsedIn(k.mem, k.topChunk)
        /\ SizesKept(k.mem, r.mem, UsedIn(k.mem, k.topChunk))
        /\ r.heap_size >= k.heap_size /\ r.initial_heap_size = k.initial_heap_size
    BY <1>1 DEF Granting
  <1>3. b \in UsedIn(r.mem, r.topChunk)
    BY <1>2
  <1>4. b + i + 2 = b + 2 /\ i \in Nat
    BY <1>1, <1>2
  <1>5. \A w \in E : w \in b + i + 2 .. b + z
    BY <1>1, <1>4
  <1>6. Stored(r, t, {})
    BY ONLY <1>1, <1>2, <1>3, <1>4, <1>5, FillGood, t = Fill(r, b + 2, 0)
  <1>7. /\ Good(t, {}) /\ t.topChunk = r.topChunk /\ UsedIn(t.mem, r.topChunk) = UsedIn(r.mem, r.topChunk)
        /\ SizesKept(r.mem, t.mem, UsedIn(r.mem, r.topChunk)) /\ SameHeap(r, t)
    BY <1>6 DEF Stored
  <1>8. t.mem[b + 1].size >= s
    BY <1>1, <1>2, <1>3, <1>7 DEF SizesKept
  <1>9. SizesKept(k.mem, t.mem, UsedIn(k.mem, k.topChunk))
    BY <1>2, <1>7 DEF SizesKept
  <1>10. t.heap_size >= k.heap_size /\ t.initial_heap_size = k.initial_heap_size
    BY <1>2, <1>7 DEF SameHeap
  <1> QED BY <1>2, <1>7, <1>8, <1>9, <1>10 DEF Allocated

(* A size that does not overflow, or does.                                 *)
Asked(size) ==
    /\ size \in Nat /\ size < WORD
    /\ REQUESTOVERFLOW(size) \/ size + 1 + HEAP_SIZE_ALIGN < WORD

AllocOutcome(k, x, size) ==
    \/ x.ptr = NULL /\ x.km = k /\ (REQUESTOVERFLOW(size) \/ NoFit(k, REQUEST2SIZE(size)))
    \/ \E b : /\ b \in Nat /\ x.ptr = b + 2 /\ x.ptr # NULL
              /\ Allocated(k, Fill(x.km, x.ptr, 0), b, REQUEST2SIZE(size))
              /\ size <= REQUEST2SIZE(size) - 1 /\ REQUEST2SIZE(size) \in Nat

LEMMA KmallocOutcome ==
    ASSUME NEW k, Good(k, {}), NEW size, Asked(size), NEW x \in kmalloc(k, size)
    PROVE  AllocOutcome(k, x, size)
  <1>1. PICK s : s = REQUEST2SIZE(size)
    OBVIOUS
  <1>2. KMALLOC_IS_INIT(k)
    BY KMallocAssumption DEF Good, HeapOK, KMALLOC_IS_INIT
  <1>3. CASE REQUESTOVERFLOW(size)
    <2>1. x = Nothing(k)
      BY <1>3 DEF kmalloc
    <2> QED BY <1>3, <2>1 DEF AllocOutcome, Nothing
  <1>4. CASE ~REQUESTOVERFLOW(size)
    <2>1. x \in kmalloc_intern(k, s)
      BY <1>1, <1>2, <1>4 DEF kmalloc
    <2>2. ReqOK(s) /\ size <= s - 1
      BY <1>1, <1>4, RequestSize DEF Asked
    <2>3. Outcome(k, x, s)
      BY <2>1, <2>2, InternOutcome
    <2>4. CASE x = Nothing(k) /\ NoFit(k, s)
      BY <1>1, <2>4 DEF AllocOutcome, Nothing
    <2>5. CASE Grants(k, x, s)
      <3>1. PICK r, b : x = Payload(r, b) /\ Granting(k, r, b, s)
        BY <2>5 DEF Grants
      <3>2. x.km = r /\ x.ptr = b + 2 /\ b \in Nat /\ x.ptr # NULL
        BY <3>1, <2>5, GrantsSome DEF Payload, CHUNK_PAYLOAD, Granting
      <3>3. PICK t : t = Fill(r, b + 2, 0)
        OBVIOUS
      <3>4. Allocated(k, t, b, s)
        BY <3>1, <3>3, <2>2, FillAllocated DEF ReqOK
      <3> QED BY <1>1, <2>2, <3>2, <3>3, <3>4 DEF AllocOutcome, ReqOK
    <2> QED BY <2>3, <2>4, <2>5 DEF Outcome
  <1> QED BY <1>3, <1>4
---------------------------------------------------------------------------
(* The heap after kmalloc_init: all of it is the top chunk.                *)
Started(r) == Good(r, {}) /\ UsedIn(r.mem, r.topChunk) = {}

EmptyState(r, top, h) ==
    /\ r.heap_start = 0 /\ r.heap_size = h /\ r.initial_heap_size = h
    /\ r.sbinmap = {} /\ r.tbinmap = {} /\ r.aborted = FALSE
    /\ \A i \in 0 .. NSBINS - 1 : r.sbin[i] = <<>>
    /\ \A i \in 0 .. NTBINS - 1 : r.tbin[i] = {}
    /\ r.dVictim = NULL /\ r.dVictimSize = 0 /\ r.topChunk = 0 /\ r.topChunkSize = top

LEMMA EmptyGood ==
    ASSUME NEW h, h \in Nat, h % HEAP_SIZE_ALIGN = 0, h <= HEAP_LIMIT, h >= 6, NEW top, top = h - 2,
           NEW r \in State, EmptyState(r, top, h), NEW e, e = 0, Behind(r.mem, e, top)
    PROVE  Started(r)
  <1>1. /\ r.topChunk = e /\ r.topChunkSize = top /\ r.dVictim = NULL /\ r.dVictimSize = 0
        /\ r.heap_start = 0 /\ r.heap_size = h /\ r.initial_heap_size = h /\ r.aborted = FALSE
    BY DEF EmptyState
  <1>2. HeapOK(r)
    BY <1>1 DEF HeapOK
  <1>3. Layout(r.mem, e, top, {})
    <2>1. PICK t : t = TRUE
      OBVIOUS
    <2>2. Seg(r.mem, e, t, e, t, {})
      BY <2>1 DEF Seg
    <2> QED BY <2>1, <2>2 DEF Layout
  <1>4. FreeIn(r.mem, e) = {} /\ UsedIn(r.mem, e) = {}
    BY DEF FreeIn, UsedIn
  <1>5. BinInv(r, {}, r.mem)
    <2>1. SmallInv(r, {}, r.mem)
      <3>1. \A i \in 0 .. NSBINS - 1 : r.sbin[i] = <<>>
        BY DEF EmptyState
      <3>2. IsInjective(<<>>) /\ \A a : ~Contains(<<>>, a)
        BY DEF IsInjective, Contains
      <3>3. PICK s : s = <<>>
        OBVIOUS
      <3>4. \A i \in 0 .. NSBINS - 1 : r.sbin[i] = s
        BY <3>1, <3>3
      <3>5. IsInjective(s) /\ \A a : ~Contains(s, a)
        BY <3>2, <3>3
      <3> QED BY <3>4, <3>5 DEF SmallInv
    <2>2. LargeInv(r, {}, r.mem)
      BY DEF EmptyState, LargeInv
    <2>3. MapsInv(r)
      BY DEF EmptyState, MapsInv
    <2> QED BY <2>1, <2>2, <2>3 DEF BinInv
  <1>6. VictimOK(r) /\ ForBins(r) = {}
    BY <1>1, <1>4 DEF VictimOK, ForBins
  <1>7. Good(r, {})
    BY <1>1, <1>2, <1>3, <1>5, <1>6 DEF Good
  <1> QED BY <1>1, <1>4, <1>7 DEF Started

InitialFields(u, h, top) ==
    [u EXCEPT !.heap_start = 0, !.heap_size = h, !.initial_heap_size = h,
              !.topChunk = 0, !.topChunkSize = top]

LEMMA InitialState ==
    ASSUME NEW h \in Nat, NEW top \in Nat, NEW r, r = InitialFields(Uninitialised, h, top)
    PROVE  /\ r \in State /\ EmptyState(r, top, h)
           /\ \A w \in Words : r.mem[w] = NULL
  <1>1. r = [mem |-> [w \in Words |-> NULL], heap_start |-> 0,
             heap_size |-> h, initial_heap_size |-> h, sbinmap |-> {}, tbinmap |-> {},
             sbin |-> [i \in 0 .. NSBINS - 1 |-> <<>>], tbin |-> [i \in 0 .. NTBINS - 1 |-> {}],
             dVictim |-> NULL, dVictimSize |-> 0, topChunk |-> 0, topChunkSize |-> top,
             aborted |-> FALSE]
    BY DEF InitialFields, Uninitialised
  <1>2. [w \in Words |-> NULL] \in [Words -> CELL]
    BY DEF CELL
  <1>3. [i \in 0 .. NSBINS - 1 |-> <<>>] \in [0 .. NSBINS - 1 -> Seq(Nat)]
    OBVIOUS
  <1>4. [i \in 0 .. NTBINS - 1 |-> {}] \in [0 .. NTBINS - 1 -> SUBSET Nat]
    OBVIOUS
  <1>5. r \in State
    BY <1>1, <1>2, <1>3, <1>4 DEF State
  <1>6. EmptyState(r, top, h)
    BY <1>1 DEF EmptyState
  <1>7. \A w \in Words : r.mem[w] = NULL
    BY <1>1
  <1> QED BY <1>5, <1>6, <1>7

LEMMA InitGood ==
    ASSUME NEW h \in HeapSizes, NEW r, r = kmalloc_init(Uninitialised, h)
    PROVE  r = Uninitialised \/ Started(r)
  <1>1. CASE 6 > h
    <2>1. MINCHUNKSIZE + DUMMYSIZE > h
      BY <1>1 DEF MINCHUNKSIZE, DUMMYSIZE, CHUNK_ALIGN_ON
    <2> QED BY <2>1 DEF kmalloc_init
  <1>2. CASE ~(6 > h)
    <2>1. h \in Nat /\ h >= 6 /\ HEAP_LIMIT \in Nat
      BY <1>2, KMallocAssumption
    <2>2. h % HEAP_SIZE_ALIGN = 0 /\ h <= HEAP_LIMIT
      <3>1. MINCHUNKSIZE + DUMMYSIZE = 6
        BY DEF MINCHUNKSIZE, DUMMYSIZE, CHUNK_ALIGN_ON
      <3>2. h >= MINCHUNKSIZE + DUMMYSIZE
        BY <2>1, <3>1
      <3> QED BY <3>2, KMallocAssumption
    <2>3. h % 2 = 0
      BY <2>1, <2>2, AlignEven
    <2>4. PICK top, e : top = h - 2 /\ e = 0
      OBVIOUS
    <2>5. top \in Nat /\ top >= 4 /\ top % 2 = 0 /\ e \in Nat /\ e + 1 \in Words /\ e + top \in Words /\ top + 1 \in Words
          /\ e + top = top
      BY <2>1, <2>2, <2>3, <2>4 DEF Words
    <2>6. PICK k1, k2 : k1 = InitialFields(Uninitialised, h, top) /\ k2 = SetFree(k1, e, top)
      OBVIOUS
    <2>7. r = SetDummy(k2, top)
      <3>1. ~(MINCHUNKSIZE + DUMMYSIZE > h)
        BY <1>2 DEF MINCHUNKSIZE, DUMMYSIZE, CHUNK_ALIGN_ON
      <3>2. h - DUMMYSIZE = top
        BY <2>4 DEF DUMMYSIZE, CHUNK_ALIGN_ON
      <3>3. r = SetDummy(SetFree(InitialFields(Uninitialised, h, h - DUMMYSIZE), 0, h - DUMMYSIZE), h - DUMMYSIZE)
        BY ONLY <3>1, r = kmalloc_init(Uninitialised, h) DEF kmalloc_init, InitialFields
      <3> QED BY ONLY <2>4, <2>6, <3>2, <3>3
    <2>8. k1 \in State /\ EmptyState(k1, top, h) /\ \A w \in Words : k1.mem[w] = NULL
      BY <2>1, <2>5, <2>6, InitialState
    <2>9. FreeSet(k1, k2, e, top)
      BY <2>5, <2>6, <2>8, SetFreeDone
    <2>10. /\ k2 \in State /\ OnlyMem(k1, k2) /\ k2.mem[e + 1] = [size |-> top, pinuse |-> TRUE, cinuse |-> FALSE]
           /\ k2.mem[e + top] = [foot |-> top]
           /\ \A w \in Words : w # e + 1 /\ w # e + top => k2.mem[w] = k1.mem[w]
      BY <2>9 DEF FreeSet
    <2>11. /\ r \in State /\ OnlyMem(k2, r)
           /\ r.mem[top + 1] = [size |-> 0, pinuse |-> FALSE, cinuse |-> FALSE]
           /\ \A w \in Words : w # top + 1 => r.mem[w] = k2.mem[w]
      BY <2>5, <2>7, <2>10, SetDummyEffect
    <2>12. EmptyState(r, top, h)
      BY <2>8, <2>10, <2>11 DEF EmptyState, OnlyMem, SameHeap, SameBins, SameVictim, SameTop
    <2>13. Behind(r.mem, e, top)
      <3>1. r.mem[e + 1] = [size |-> top, pinuse |-> TRUE, cinuse |-> FALSE] /\ r.mem[e + top] = [foot |-> top]
        <4>1. e + 1 # top + 1 /\ e + top # top + 1
          BY <2>4, <2>5
        <4> QED BY <4>1, <2>5, <2>10, <2>11
      <3>2. \A b \in e + 1 .. HEAP_LIMIT - 1 : b # e + top => ~IsChunk(r.mem, b)
        <4>1. TAKE b \in e + 1 .. HEAP_LIMIT - 1
        <4>2. HAVE b # e + top
        <4>3. SUFFICES ASSUME b % 2 = 0 PROVE r.mem[b + 1] \in {NULL, DATA}
          BY DEF IsChunk
        <4>4. b + 1 \in Words /\ HEAP_LIMIT % 2 = 0
          BY <2>1, <2>4, <4>3, KMallocAssumption DEF Words, CHUNK_ALIGN_ON
        <4>5. b + 1 # e + 1 /\ b + 1 # top + 1 /\ b + 1 # e + top
          BY <2>4, <2>5, <4>1, <4>2, <4>3
        <4> QED BY <4>4, <4>5, <2>8, <2>10, <2>11
      <3>3. e + top + 2 <= HEAP_LIMIT /\ e % 2 = 0 /\ e + top + 1 = top + 1
        BY <2>1, <2>2, <2>4, <2>5
      <3> QED BY <2>5, <2>11, <3>1, <3>2, <3>3 DEF Behind
    <2>14. Started(r)
      BY <2>1, <2>2, <2>4, <2>11, <2>12, <2>13, EmptyGood
    <2> QED BY <2>14
  <1> QED BY <1>1, <1>2
---------------------------------------------------------------------------
(* The blocks of the callers are the chunks of U, and each is as large as  *)
(* was asked for.                                                          *)
LiveIn(m, U, blocks) ==
    /\ DOMAIN blocks = {a + 2 : a \in U}
    /\ \A a \in U : blocks[a + 2] <= m[a + 1].size - 1

LEMMA LiveFrame ==
    ASSUME NEW m, NEW n, NEW U, NEW blocks, LiveIn(m, U, blocks), SizesKept(m, n, U)
    PROVE  LiveIn(n, U, blocks)
  BY DEF LiveIn, SizesKept

LEMMA LiveWithout ==
    ASSUME NEW m, NEW U \in SUBSET Nat, NEW blocks, LiveIn(m, U, blocks), NEW a \in Nat
    PROVE  LiveIn(m, U \ {a}, Without(blocks, a + 2))
  <1>1. PICK f : f = Without(blocks, a + 2)
    OBVIOUS
  <1>2. DOMAIN f = DOMAIN blocks \ {a + 2} /\ \A p \in DOMAIN f : f[p] = blocks[p]
    BY <1>1 DEF Without
  <1>3. DOMAIN f = {b + 2 : b \in U \ {a}}
    <2>1. \A b \in U : b + 2 = a + 2 <=> b = a
      OBVIOUS
    <2> QED BY <1>2, <2>1 DEF LiveIn
  <1>4. \A b \in U \ {a} : b + 2 \in DOMAIN f
    BY <1>3
  <1>5. \A b \in U \ {a} : f[b + 2] <= m[b + 1].size - 1
    BY <1>2, <1>4 DEF LiveIn
  <1> QED BY <1>1, <1>3, <1>5 DEF LiveIn

LEMMA LiveWith ==
    ASSUME NEW m, NEW U \in SUBSET Nat, NEW blocks, LiveIn(m, U, blocks), NEW b \in Nat,
           NEW size, size <= m[b + 1].size - 1
    PROVE  LiveIn(m, U \cup {b}, With(blocks, b + 2, size))
  <1>1. PICK f, ptr : f = With(blocks, b + 2, size) /\ ptr = b + 2
    OBVIOUS
  <1>2. /\ DOMAIN f = DOMAIN blocks \cup {ptr} /\ f[ptr] = size
        /\ \A p \in DOMAIN blocks : p # ptr => f[p] = blocks[p]
    BY <1>1 DEF With
  <1>3. DOMAIN f = {a + 2 : a \in U \cup {b}}
    BY <1>1, <1>2 DEF LiveIn
  <1>4. \A a \in U : a # b => a + 2 # ptr /\ a + 2 \in DOMAIN blocks
    BY <1>1 DEF LiveIn
  <1>5. \A a \in U : a # b => f[a + 2] <= m[a + 1].size - 1
    BY <1>2, <1>4 DEF LiveIn
  <1>6. f[b + 2] <= m[b + 1].size - 1
    BY <1>1, <1>2
  <1> QED BY <1>1, <1>3, <1>5, <1>6 DEF LiveIn

(* The inductive invariant of the allocator.                               *)
InvOf(k, blocks) ==
    \/ k = Uninitialised /\ DOMAIN blocks = {}
    \/ Good(k, {}) /\ LiveIn(k.mem, UsedIn(k.mem, k.topChunk), blocks)

(* What every step of a caller does.                                       *)
Safe(k, k2, blocks2) == InvOf(k2, blocks2) /\ Shrinks(k, k2)

LEMMA UsedNumbers ==
    ASSUME NEW m, NEW top
    PROVE  UsedIn(m, top) \in SUBSET Nat
  BY DEF UsedIn

(* Nothing happens to the allocator.                                       *)
LEMMA SameSafe ==
    ASSUME NEW k, NEW blocks, InvOf(k, blocks)
    PROVE  Safe(k, k, blocks)
  <1>1. k.heap_size \in Nat
    BY DEF InvOf, Good, State, Uninitialised
  <1> QED BY <1>1 DEF Safe, Shrinks

(* A caller of kmalloc or kcalloc.                                         *)
Gets(x, size, k2, blocks, blocks2) ==
    \/ x.ptr = NULL /\ k2 = x.km /\ blocks2 = blocks
    \/ x.ptr # NULL /\ k2 = Fill(x.km, x.ptr, 0) /\ blocks2 = With(blocks, x.ptr, size)

LEMMA SizeNumber ==
    ASSUME NEW k, Good(k, {}), NEW a \in UsedIn(k.mem, k.topChunk)
    PROVE  k.mem[a + 1].size \in Nat /\ k.heap_size \in Nat
  <1>1. PICK E, z : E = {} /\ z = k.mem[a + 1].size
    OBVIOUS
  <1>2. Good(k, E)
    BY <1>1
  <1>3. z \in Nat /\ k.heap_size \in Nat
    BY <1>1, <1>2, BlockFacts
  <1> QED BY <1>1, <1>3

LEMMA GrantStep ==
    ASSUME NEW k, NEW blocks, InvOf(k, blocks), NEW size, Asked(size), NEW x \in kmalloc(k, size),
           NEW k2, NEW blocks2, Gets(x, size, k2, blocks, blocks2)
    PROVE  Safe(k, k2, blocks2)
  <1>1. CASE k = Uninitialised
    <2>1. ~KMALLOC_IS_INIT(k)
      BY <1>1 DEF Uninitialised, KMALLOC_IS_INIT
    <2>2. x = Nothing(k)
      BY <2>1 DEF kmalloc
    <2>3. k2 = k /\ blocks2 = blocks
      BY <2>2 DEF Gets, Nothing
    <2> QED BY <2>3, SameSafe
  <1>2. CASE Good(k, {}) /\ LiveIn(k.mem, UsedIn(k.mem, k.topChunk), blocks)
    <2>1. AllocOutcome(k, x, size)
      BY <1>2, KmallocOutcome
    <2>2. CASE x.ptr = NULL /\ x.km = k
      <3>1. k2 = k /\ blocks2 = blocks
        BY <2>2 DEF Gets
      <3> QED BY <3>1, SameSafe
    <2>3. CASE x.ptr # NULL
      <3>1. PICK s, U : s = REQUEST2SIZE(size) /\ U = UsedIn(k.mem, k.topChunk)
        OBVIOUS
      <3>2. PICK b : /\ b \in Nat /\ x.ptr = b + 2
                     /\ Allocated(k, Fill(x.km, x.ptr, 0), b, s) /\ size <= s - 1 /\ s \in Nat
        BY <2>1, <2>3, <3>1 DEF AllocOutcome
      <3>3. Allocated(k, k2, b, s) /\ blocks2 = With(blocks, b + 2, size)
        BY <2>3, <3>2 DEF Gets
      <3>4. /\ Good(k2, {}) /\ k2.mem[b + 1].size >= s
            /\ UsedIn(k2.mem, k2.topChunk) = U \cup {b}
            /\ SizesKept(k.mem, k2.mem, U) /\ k2.heap_size >= k.heap_size
        BY <3>1, <3>3 DEF Allocated
      <3>5. LiveIn(k2.mem, U, blocks) /\ U \in SUBSET Nat
        BY <1>2, <3>1, <3>4, LiveFrame, UsedNumbers
      <3>6. k2.mem[b + 1].size \in Nat /\ k2.heap_size \in Nat
        <4>1. b \in UsedIn(k2.mem, k2.topChunk)
          BY <3>4
        <4> QED BY <3>4, <4>1, SizeNumber
      <3>7. size \in Nat /\ s \in Nat
        BY <3>2 DEF Asked
      <3>8. size <= k2.mem[b + 1].size - 1
        BY <3>2, <3>4, <3>6, <3>7
      <3>9. LiveIn(k2.mem, U \cup {b}, blocks2)
        BY <3>2, <3>3, <3>5, <3>8, LiveWith
      <3>10. Shrinks(k, k2)
        <4>1. k.heap_size \in Nat
          BY <1>2 DEF Good, State
        <4> QED BY <4>1, <3>4, <3>6 DEF Shrinks
      <3> QED BY <3>4, <3>9, <3>10 DEF Safe, InvOf
    <2> QED BY <2>1, <2>2, <2>3 DEF AllocOutcome
  <1> QED BY <1>1, <1>2 DEF InvOf

(* A caller of kfree.                                                      *)
LEMMA LiveBlock ==
    ASSUME NEW k, NEW blocks, InvOf(k, blocks), NEW ptr \in DOMAIN blocks
    PROVE  /\ Good(k, {}) /\ LiveIn(k.mem, UsedIn(k.mem, k.topChunk), blocks)
           /\ \E a \in UsedIn(k.mem, k.topChunk) : ptr = a + 2
  BY DEF InvOf, LiveIn

LEMMA FreeStep ==
    ASSUME NEW k, NEW blocks, InvOf(k, blocks), NEW ptr \in DOMAIN blocks \cup {NULL},
           NEW k2, k2 = kfree(k, ptr), NEW blocks2, blocks2 = Without(blocks, ptr)
    PROVE  Safe(k, k2, blocks2)
  <1>1. CASE ptr \notin DOMAIN blocks
    <2>1. ptr = NULL
      BY <1>1
    <2>2. k2 = k
      BY <2>1 DEF kfree
    <2>3. DOMAIN blocks2 = DOMAIN blocks /\ \A p \in DOMAIN blocks : blocks2[p] = blocks[p]
      BY <1>1 DEF Without
    <2>4. InvOf(k, blocks2)
      BY <2>3 DEF InvOf, LiveIn
    <2> QED BY <2>2, <2>4, SameSafe
  <1>2. CASE ptr \in DOMAIN blocks
    <2>1. PICK U : U = UsedIn(k.mem, k.topChunk)
      OBVIOUS
    <2>2. Good(k, {}) /\ LiveIn(k.mem, U, blocks)
      BY <1>2, <2>1, LiveBlock
    <2>3. PICK a \in U : ptr = a + 2
      BY <1>2, <2>1, LiveBlock
    <2>4. a \in UsedIn(k.mem, k.topChunk) /\ U \in SUBSET Nat /\ a \in Nat
      BY <2>1, UsedNumbers
    <2>5. PICK E : E = {}
      OBVIOUS
    <2>6. Freed(k, k2, a, E)
      BY <2>2, <2>3, <2>4, <2>5, KfreeGood
    <2>7. /\ Good(k2, {}) /\ UsedIn(k2.mem, k2.topChunk) = U \ {a} /\ SizesKept(k.mem, k2.mem, U \ {a})
          /\ Shrinks(k, k2)
      BY <2>1, <2>5, <2>6 DEF Freed
    <2>8. LiveIn(k.mem, U \ {a}, blocks2)
      BY <2>2, <2>3, <2>4, LiveWithout
    <2>9. LiveIn(k2.mem, U \ {a}, blocks2)
      BY <2>7, <2>8, LiveFrame
    <2> QED BY <2>7, <2>9 DEF Safe, InvOf
  <1> QED BY <1>1, <1>2

(* A caller of krealloc that has a block.                                  *)
Regets(k, x, ptr, size, k2, blocks, blocks2) ==
    \/ x.ptr = NULL /\ k2 = x.km /\ blocks2 = IF size = 0 THEN Without(blocks, ptr) ELSE blocks
    \/ /\ x.ptr # NULL /\ k2 = Fill(x.km, x.ptr, CHUNK_PAYLOAD_SIZE(k, PAYLOAD_CHUNK(ptr)))
       /\ blocks2 = With(Without(blocks, ptr), x.ptr, size)

LEMMA ReallocStep ==
    ASSUME NEW k, NEW blocks, InvOf(k, blocks), NEW ptr \in DOMAIN blocks,
           NEW size \in Nat, size + 1 + HEAP_SIZE_ALIGN < WORD, NEW x \in krealloc(k, ptr, size),
           NEW k2, NEW blocks2, Regets(k, x, ptr, size, k2, blocks, blocks2)
    PROVE  Safe(k, k2, blocks2)
  <1>1. PICK U : U = UsedIn(k.mem, k.topChunk)
    OBVIOUS
  <1>2. Good(k, {}) /\ LiveIn(k.mem, U, blocks)
    BY <1>1, LiveBlock
  <1>3. PICK a \in U : ptr = a + 2
    BY <1>1, LiveBlock
  <1>4. a \in UsedIn(k.mem, k.topChunk) /\ U \in SUBSET Nat /\ a \in Nat
    BY <1>1, UsedNumbers
  <1>5. ptr \in Nat /\ ptr # NULL
    BY <1>3, <1>4, KMallocAssumption
  <1>6. CASE size = 0
    <2>1. x = Nothing(kfree(k, ptr))
      BY ONLY <1>5, <1>6, x \in krealloc(k, ptr, size) DEF krealloc
    <2>2. k2 = kfree(k, ptr) /\ blocks2 = Without(blocks, ptr)
      BY <1>6, <2>1 DEF Regets, Nothing
    <2> QED BY <2>2, FreeStep
  <1>7. CASE size # 0
    <2>1. PICK y, s : y = k.mem[a + 1].size /\ s = REQUEST2SIZE(size)
      OBVIOUS
    <2>2. ReqOK(s) /\ size <= s - 1
      BY <2>1, RequestSize
    <2>3. Reallocated(k, x, a, y, s)
      <3>1. size \in Nat \ {0}
        BY <1>7
      <3> QED BY <1>2, <1>3, <1>4, <2>1, <2>2, <3>1, KreallocOutcome
    <2>4. CASE x.ptr = NULL /\ x.km = k
      <3>1. k2 = k /\ blocks2 = blocks
        BY <1>7, <2>4 DEF Regets
      <3> QED BY <3>1, SameSafe
    <2>5. CASE x.ptr # NULL
      <3>1. CHUNK_PAYLOAD_SIZE(k, PAYLOAD_CHUNK(ptr)) = y - 1
        <4>1. PAYLOAD_CHUNK(ptr) = a
          BY <1>3, <1>4 DEF PAYLOAD_CHUNK
        <4> QED BY <2>1, <4>1 DEF CHUNK_PAYLOAD_SIZE, GETCHUNKSIZE, Header, CHUNK_OVERHEAD
      <3>2. PICK b : b \in Nat /\ x.ptr = b + 2 /\ Resized(k, Fill(x.km, x.ptr, y - 1), a, b, s)
        BY <2>3, <2>5 DEF Reallocated
      <3>3. Resized(k, k2, a, b, s) /\ blocks2 = With(Without(blocks, a + 2), b + 2, size)
        BY <1>3, <2>5, <3>1, <3>2 DEF Regets
      <3>4. /\ Good(k2, {}) /\ k2.mem[b + 1].size >= s /\ Shrinks(k, k2)
            /\ UsedIn(k2.mem, k2.topChunk) = (U \ {a}) \cup {b}
            /\ SizesKept(k.mem, k2.mem, U \ {a})
        BY <1>1, <3>3 DEF Resized
      <3>5. PICK others : others = Without(blocks, a + 2)
        OBVIOUS
      <3>6. LiveIn(k.mem, U \ {a}, others)
        BY <1>2, <1>4, <3>5, LiveWithout
      <3>7. LiveIn(k2.mem, U \ {a}, others)
        BY <3>4, <3>6, LiveFrame
      <3>8. b \in UsedIn(k2.mem, k2.topChunk)
        BY <3>4
      <3>9. k2.mem[b + 1].size \in Nat
        BY <3>4, <3>8, SizeNumber
      <3>10. size <= k2.mem[b + 1].size - 1
        BY <2>2, <3>4, <3>9 DEF ReqOK
      <3>11. PICK V : V = U \ {a}
        OBVIOUS
      <3>12. V \in SUBSET Nat /\ LiveIn(k2.mem, V, others)
        BY <1>4, <3>7, <3>11
      <3>13. LiveIn(k2.mem, V \cup {b}, With(others, b + 2, size))
        BY <3>2, <3>10, <3>12, LiveWith
      <3>14. InvOf(k2, blocks2)
        BY <3>3, <3>4, <3>5, <3>11, <3>13 DEF InvOf
      <3> QED BY <3>4, <3>14 DEF Safe
    <2> QED BY <2>3, <2>4, <2>5 DEF Reallocated
  <1> QED BY <1>6, <1>7
---------------------------------------------------------------------------
AllocInv == InvOf(km, live)

LEMMA AllocInit == Init => AllocInv
  BY DEF Init, AllocInv, InvOf

(* The sizes that are asked for.                                           *)
LEMMA AskedSizes ==
    /\ \A size \in Sizes : Asked(size)
    /\ \A array \in Arrays : /\ Asked(array[1] * array[2])
                             /\ (array[2] * array[1]) % WORD = array[1] * array[2]
  <1>1. WORD \in Nat \ {0}
    BY KMallocAssumption
  <1>2. ASSUME NEW size \in Sizes PROVE Asked(size)
    <2>1. size \in 0 .. WORD - 1 /\ (REQUESTOVERFLOW(size) \/ RoomToRound(size))
      BY RequestsAssumption
    <2> QED BY <1>1, <2>1 DEF Asked, RoomToRound, CHUNK_OVERHEAD
  <1>3. ASSUME NEW array \in Arrays
        PROVE  Asked(array[1] * array[2]) /\ (array[2] * array[1]) % WORD = array[1] * array[2]
    <2>1. PICK m, n : m = array[1] /\ n = array[2]
      OBVIOUS
    <2>2. m \in Nat /\ n \in Nat
      <3>1. array \in Nat \X Nat
        BY RequestsAssumption
      <3> QED BY <2>1, <3>1
    <2>3. m * n < WORD /\ (REQUESTOVERFLOW(m * n) \/ RoomToRound(m * n))
      BY <2>1, RequestsAssumption
    <2>4. m * n \in Nat /\ n * m = m * n
      BY <2>2
    <2>5. PICK x : x = m * n
      OBVIOUS
    <2>6. x \in Nat /\ x < WORD /\ (REQUESTOVERFLOW(x) \/ RoomToRound(x)) /\ x = n * m
      BY <2>3, <2>4, <2>5
    <2>7. Asked(x)
      BY ONLY <2>6 DEF Asked, RoomToRound, CHUNK_OVERHEAD
    <2>8. x % WORD = x
      BY ONLY <1>1, <2>6
    <2> QED BY <2>1, <2>5, <2>6, <2>7, <2>8
  <1> QED BY <1>2, <1>3

LEMMA GrantedSafe ==
    ASSUME AllocInv, NEW size, Asked(size), NEW x \in kmalloc(km, size), Granted(x, size)
    PROVE  Safe(km, km', live')
  <1>1. Gets(x, size, km', live, live')
    BY DEF Granted, Gets
  <1>2. InvOf(km, live)
    BY DEF AllocInv
  <1> QED BY <1>1, <1>2, GrantStep

(* An undefined outcome leaves the heap as it was before the call.         *)
LEMMA UndefinedSafe ==
    ASSUME AllocInv, Undefined
    PROVE  Safe(km, km', live')
  <1>1. km' = km /\ live' = live /\ InvOf(km, live)
    BY DEF Undefined, AllocInv
  <1> QED BY <1>1, SameSafe

LEMMA ServesSafe ==
    ASSUME AllocInv, NEW size, Asked(size), Serves(kmalloc(km, size), size)
    PROVE  Safe(km, km', live')
  <1>1. CASE Undefined
    BY <1>1, UndefinedSafe
  <1>2. CASE ~Undefined
    <2>1. PICK x \in kmalloc(km, size) : Granted(x, size)
      BY <1>2 DEF Serves
    <2> QED BY <2>1, GrantedSafe
  <1> QED BY <1>1, <1>2

LEMMA NextSafe ==
    ASSUME AllocInv, [Next]_vars
    PROVE  Safe(km, km', live')
  <1>0. InvOf(km, live)
    BY DEF AllocInv
  <1>1. ASSUME NEW n \in HeapSizes, libk_init_heap(n)
        PROVE  Safe(km, km', live')
    <2>1. km = Uninitialised /\ DOMAIN live = {}
      BY <1>0, <1>1, KMallocAssumption DEF InvOf, Good, HeapOK, libk_init_heap, KMALLOC_IS_INIT
    <2>2. km' = kmalloc_init(Uninitialised, n) /\ live' = live
      BY <1>1, <2>1 DEF libk_init_heap
    <2>3. CASE km' = Uninitialised
      BY <1>0, <2>1, <2>2, <2>3, SameSafe
    <2>4. CASE Started(km')
      <3>1. Good(km', {}) /\ UsedIn(km'.mem, km'.topChunk) = {}
        BY <2>4 DEF Started
      <3>2. LiveIn(km'.mem, {}, live')
        BY <2>1, <2>2 DEF LiveIn
      <3>3. Shrinks(km, km')
        <4>1. km.heap_size = 0 /\ km'.heap_size \in Nat
          BY <2>1, <3>1 DEF Uninitialised, Good, State
        <4> QED BY <4>1 DEF Shrinks
      <3> QED BY <3>1, <3>2, <3>3 DEF Safe, InvOf
    <2> QED BY <2>2, <2>3, <2>4, InitGood
  <1>2. ASSUME NEW size \in Sizes, Kmalloc(size)
        PROVE  Safe(km, km', live')
    <2> QED BY <1>2, AskedSizes, ServesSafe DEF Kmalloc
  <1>3. ASSUME NEW array \in Arrays, Kcalloc(array[1], array[2])
        PROVE  Safe(km, km', live')
    <2>1. PICK size : size = array[1] * array[2]
      OBVIOUS
    <2>2. Asked(size) /\ (array[2] * array[1]) % WORD = size
      BY <2>1, AskedSizes
    <2>3. Serves(kcalloc(km, array[1], array[2]), size)
      BY <1>3, <2>1 DEF Kcalloc
    <2>4. kcalloc(km, array[1], array[2]) = kmalloc(km, size)
      BY <2>2 DEF kcalloc
    <2> QED BY <2>2, <2>3, <2>4, ServesSafe
  <1>4. ASSUME NEW ptr \in DOMAIN live \cup {NULL}, Kfree(ptr)
        PROVE  Safe(km, km', live')
    <2>1. km' = kfree(km, ptr) /\ live' = Without(live, ptr)
      BY <1>4 DEF Kfree
    <2> QED BY <1>0, <2>1, FreeStep
  <1>5. ASSUME NEW ptr \in DOMAIN live \cup {NULL}, NEW size \in Resizes, Krealloc(ptr, size)
        PROVE  Safe(km, km', live')
    <2>1. size \in Nat /\ size + 1 + HEAP_SIZE_ALIGN < WORD
      BY RequestsAssumption, KMallocAssumption DEF RoomToRound, CHUNK_OVERHEAD
    <2>2. CASE ptr = NULL
      <3>1. Serves(krealloc(km, ptr, size), size)
        BY <1>5, <2>2 DEF Krealloc
      <3>2. krealloc(km, ptr, size) = kmalloc(km, size)
        BY <2>2 DEF krealloc
      <3>3. Asked(size)
        BY <2>1, RequestsAssumption, KMallocAssumption DEF Asked
      <3> QED BY <3>1, <3>2, <3>3, ServesSafe
    <2>3. CASE ptr # NULL /\ Undefined
      BY <2>3, UndefinedSafe
    <2>4. CASE ptr # NULL /\ ~Undefined
      <3>1. PICK x \in krealloc(km, ptr, size) :
              \/ x.ptr = NULL /\ km' = x.km /\ live' = IF size = 0 THEN Without(live, ptr) ELSE live
              \/ /\ x.ptr # NULL /\ km' = Fill(x.km, x.ptr, CHUNK_PAYLOAD_SIZE(km, PAYLOAD_CHUNK(ptr)))
                 /\ live' = With(Without(live, ptr), x.ptr, size)
        BY <1>5, <2>4 DEF Krealloc, Regranted
      <3>2. Regets(km, x, ptr, size, km', live, live')
        BY <3>1 DEF Regets
      <3>3. ptr \in DOMAIN live
        BY <2>4
      <3> QED BY <1>0, <2>1, <3>1, <3>2, <3>3, ReallocStep
    <2> QED BY <2>2, <2>3, <2>4
  <1>6. ASSUME UNCHANGED vars
        PROVE  Safe(km, km', live')
    <2>1. km' = km /\ live' = live
      BY <1>6 DEF vars
    <2> QED BY <1>0, <2>1, SameSafe
  <1> QED BY <1>1, <1>2, <1>3, <1>4, <1>5, <1>6 DEF Next

(* The heap is well formed in every reachable state. A call whose outcome  *)
(* is undefined ends the model: nothing is said of the heap it leaves.     *)
THEOREM HeapInvariant == Spec => []AllocInv
  <1>1. AllocInv /\ [Next]_vars => AllocInv'
    <2> SUFFICES ASSUME AllocInv, [Next]_vars PROVE AllocInv'
      OBVIOUS
    <2>1. Safe(km, km', live')
      BY NextSafe
    <2> QED BY <2>1 DEF Safe, AllocInv
  <1> QED BY <1>1, AllocInit, PTL DEF Spec

(* The bounds of the heap that the comment in shrink_top states.           *)
THEOREM HeapBounds == Spec => ShrinksWithinBounds
  <1>1. AllocInv /\ [Next]_vars =>
          [km'.heap_size < km.heap_size => /\ km'.heap_size >= km.initial_heap_size
                                           /\ km'.topChunkSize >= HEAP_SIZE_ALIGN]_vars
    <2> SUFFICES ASSUME AllocInv, [Next]_vars
                 PROVE  km'.heap_size < km.heap_size => /\ km'.heap_size >= km.initial_heap_size
                                                        /\ km'.topChunkSize >= HEAP_SIZE_ALIGN
      OBVIOUS
    <2>1. Safe(km, km', live')
      BY NextSafe
    <2> QED BY <2>1 DEF Safe, Shrinks
  <1> QED BY <1>1, HeapInvariant, PTL DEF Spec, ShrinksWithinBounds
---------------------------------------------------------------------------
(* The properties of KMalloc follow from the invariant.                    *)
Heap(m, top, ts) ==
    /\ m = km.mem /\ top = km.topChunk /\ ts = km.topChunkSize
    /\ Layout(m, top, ts, {}) /\ HeapOK(km) /\ VictimOK(km) /\ BinInv(km, ForBins(km), m)

LEMMA HeapFound ==
    ASSUME AllocInv, KMALLOC_IS_INIT(km)
    PROVE  /\ \E m, top, ts : Heap(m, top, ts)
           /\ Good(km, {}) /\ LiveIn(km.mem, UsedIn(km.mem, km.topChunk), live)
  BY DEF AllocInv, InvOf, Uninitialised, KMALLOC_IS_INIT, Good, Heap

(* A chunk below the top chunk.                                            *)
Below(m, top, a) == a \in 0 .. top - 1 /\ IsChunk(m, a) /\ ChunkOK(m, a, top, TRUE, {})

ChunkKinds(m, top, ts) ==
    /\ m = km.mem /\ top \in Nat /\ ts \in Nat /\ End = top + ts
    /\ IsChunk(m, top) /\ IsChunk(m, End) /\ {0, top, End} \subseteq Chunks
    /\ m[End + 1] = [size |-> 0, pinuse |-> FALSE, cinuse |-> FALSE]
    /\ ts > 0 => /\ m[top + 1] = [size |-> ts, pinuse |-> TRUE, cinuse |-> FALSE]
                 /\ m[End] = [foot |-> ts]
    /\ \A a : Below(m, top, a) => a \in Chunks
    /\ \A a \in 0 .. top - 1 : IsChunk(m, a) => Below(m, top, a)
    /\ \A a \in Chunks : Below(m, top, a) \/ (a = top /\ ts > 0) \/ a = End
    /\ \A a \in Chunks : a \in Nat /\ IsChunk(m, a)

LEMMA ChunkKind ==
    ASSUME NEW m, NEW top, NEW ts, Heap(m, top, ts)
    PROVE  ChunkKinds(m, top, ts)
  <1>1. /\ m = km.mem /\ top = km.topChunk /\ ts = km.topChunkSize
        /\ Seg(m, 0, TRUE, top, TRUE, {}) /\ Behind(m, top, ts)
    BY DEF Heap, Layout
  <1>2. /\ top \in Nat /\ ts \in Nat /\ top % 2 = 0 /\ ts % 2 = 0 /\ top + ts + 2 <= HEAP_LIMIT
        /\ ts > 0 => /\ m[top + 1] = [size |-> ts, pinuse |-> TRUE, cinuse |-> FALSE]
                     /\ m[top + ts] = [foot |-> ts]
        /\ m[top + ts + 1] = [size |-> 0, pinuse |-> FALSE, cinuse |-> FALSE]
        /\ \A b \in top + 1 .. HEAP_LIMIT - 1 : b # top + ts => ~IsChunk(m, b)
    BY <1>1 DEF Behind
  <1>3. End = top + ts /\ HEAP_LIMIT \in Nat
    BY <1>1, KMallocAssumption DEF End
  <1>4. Chunks = {a \in Words : IsChunk(m, a)}
    BY <1>1 DEF Chunks, IsChunk, CHUNK_ALIGN_ON
  <1>5. IsChunk(m, End)
    <2>1. PICK e, z, p, c : e = top + ts /\ z = 0 /\ p = FALSE /\ c = FALSE
      OBVIOUS
    <2>2. e % 2 = 0
      BY <1>2, <2>1
    <2>3. z \in Nat /\ p \in BOOLEAN /\ c \in BOOLEAN /\ m[e + 1] = [size |-> z, pinuse |-> p, cinuse |-> c]
      BY ONLY <1>2, <2>1
    <2>4. IsChunk(m, e)
      BY <2>2, <2>3, NewHeader
    <2> QED BY <1>3, <2>1, <2>4
  <1>6. IsChunk(m, top)
    <2>1. CASE ts > 0
      <3>1. PICK p, c : p = TRUE /\ c = FALSE
        OBVIOUS
      <3>2. p \in BOOLEAN /\ c \in BOOLEAN /\ m[top + 1] = [size |-> ts, pinuse |-> p, cinuse |-> c]
        BY <1>2, <2>1, <3>1
      <3> QED BY <1>2, <3>2, NewHeader
    <2>2. CASE ~(ts > 0)
      <3>1. End = top
        BY <1>2, <1>3, <2>2
      <3> QED BY <1>5, <3>1
    <2> QED BY <2>1, <2>2
  <1>7. \A a \in 0 .. top - 1 : IsChunk(m, a) => ChunkOK(m, a, top, TRUE, {})
    BY <1>1 DEF Seg
  <1>8. \A a : Below(m, top, a) => a \in Chunks
    <2>1. \A a \in 0 .. top - 1 : a \in Words
      BY <1>2, <1>3 DEF Words
    <2> QED BY <1>4, <2>1 DEF Below
  <1>9. top \in Chunks /\ End \in Chunks
    <2>1. top \in Words /\ End \in Words
      BY <1>2, <1>3 DEF Words
    <2> QED BY <1>4, <1>5, <1>6, <2>1
  <1>10. 0 \in Chunks
    <2>1. CASE top = 0
      BY <1>9, <2>1
    <2>2. CASE top # 0
      <3>1. IsChunk(m, 0) /\ 0 \in 0 .. top - 1
        BY <1>1, <1>2, <2>2 DEF Seg
      <3> QED BY <1>7, <1>8, <3>1 DEF Below
    <2> QED BY <2>1, <2>2
  <1>11. \A a \in Chunks : Below(m, top, a) \/ (a = top /\ ts > 0) \/ a = End
    <2>1. TAKE a \in Chunks
    <2>2. a \in Words /\ IsChunk(m, a)
      BY <1>4
    <2>3. CASE a < top
      <3>1. a \in 0 .. top - 1
        BY <1>2, <2>2, <2>3 DEF Words
      <3> QED BY <1>7, <2>2, <3>1 DEF Below
    <2>4. CASE a = top
      BY <1>2, <1>3, <2>4
    <2>5. CASE a > top
      <3>1. a \in top + 1 .. HEAP_LIMIT - 1
        BY <1>2, <1>3, <2>2, <2>5 DEF Words
      <3>2. a = top + ts
        BY <1>2, <2>2, <3>1
      <3> QED BY <1>3, <3>2
    <2> QED BY <1>2, <2>2, <2>3, <2>4, <2>5 DEF Words
  <1>12. \A a \in Chunks : a \in Nat /\ IsChunk(m, a)
    BY <1>3, <1>4 DEF Words
  <1>13. \A a \in 0 .. top - 1 : IsChunk(m, a) => Below(m, top, a)
    BY <1>7 DEF Below
  <1> QED BY <1>1, <1>2, <1>3, <1>5, <1>6, <1>8, <1>9, <1>10, <1>11, <1>12, <1>13 DEF ChunkKinds

(* A chunk below the top chunk and the one behind it.                      *)
NextOf(m, top, a, z) ==
    /\ z \in Nat /\ z >= 4 /\ a + z <= top /\ a \in Nat /\ m[a + 1].cinuse \in BOOLEAN
    /\ a + z \in Chunks /\ \A b \in Chunks : a < b => a + z <= b
    /\ a + z < top => m[a + z + 1].pinuse = m[a + 1].cinuse /\ Below(m, top, a + z)
    /\ a + z = top => m[a + 1].cinuse = TRUE
    /\ ~m[a + 1].cinuse => m[a + 1].pinuse /\ m[a + z] = [foot |-> z]
    /\ m[a + 1].cinuse => \A w \in a + 2 .. a + z : m[w] = DATA

LEMMA BelowNext ==
    ASSUME NEW m, NEW top, NEW ts, ChunkKinds(m, top, ts), NEW a, Below(m, top, a), NEW z, z = m[a + 1].size
    PROVE  NextOf(m, top, a, z)
  <1>1. /\ m[a + 1] \in HEADER /\ z >= 4 /\ a + z <= top
        /\ \A b \in a + 1 .. a + z - 1 : ~IsChunk(m, b)
        /\ a + z < top => IsChunk(m, a + z) /\ m[a + z + 1].pinuse = m[a + 1].cinuse
        /\ a + z = top => TRUE = m[a + 1].cinuse
        /\ ~m[a + 1].cinuse => m[a + 1].pinuse /\ m[a + z] = [foot |-> z]
        /\ m[a + 1].cinuse => \A w \in a + 2 .. a + z : m[w] = DATA
    BY DEF Below, ChunkOK
  <1>2. z \in Nat /\ m[a + 1].cinuse \in BOOLEAN
    BY <1>1 DEF HEADER
  <1>3. top \in Nat /\ a \in Nat
    BY DEF ChunkKinds, Below
  <1>4. \A b \in Chunks : b \in Nat /\ IsChunk(m, b)
    BY DEF ChunkKinds
  <1>5. \A b \in Chunks : a < b => a + z <= b
    BY <1>1, <1>2, <1>3, <1>4
  <1>6. CASE a + z < top
    <2>1. a + z \in 0 .. top - 1 /\ IsChunk(m, a + z)
      BY <1>1, <1>2, <1>3, <1>6
    <2>2. Below(m, top, a + z) /\ a + z \in Chunks
      BY <2>1 DEF ChunkKinds
    <2>3. a + z # top
      BY <1>2, <1>3, <1>6
    <2> QED BY <1>1, <1>2, <1>3, <1>5, <1>6, <2>2, <2>3 DEF NextOf
  <1>7. CASE a + z = top
    <2>1. top \in Chunks /\ ~(a + z < top)
      BY <1>3, <1>7 DEF ChunkKinds
    <2> QED BY <1>1, <1>2, <1>3, <1>5, <1>7, <2>1 DEF NextOf
  <1>8. a + z < top \/ a + z = top
    BY <1>1, <1>2, <1>3
  <1> QED BY <1>6, <1>7, <1>8

(* The chunk operators of the model, in the terms of the segments.         *)
LEMMA Fields ==
    ASSUME NEW m, m = km.mem, NEW a
    PROVE  /\ GETCHUNKSIZE(km, a) = m[a + 1].size /\ IS_INUSE(km, a) = m[a + 1].cinuse
           /\ PREV_INUSE(km, a) = m[a + 1].pinuse /\ NEXTCHUNK(km, a) = a + m[a + 1].size
  BY DEF GETCHUNKSIZE, IS_INUSE, PREV_INUSE, NEXTCHUNK, Header

LEMMA TiledHolds == AllocInv => Tiled
  <1> SUFFICES ASSUME AllocInv, KMALLOC_IS_INIT(km) PROVE Tiled
    BY DEF Tiled
  <1>1. PICK m, top, ts : Heap(m, top, ts)
    BY HeapFound
  <1>2. ChunkKinds(m, top, ts)
    BY <1>1, ChunkKind
  <1>3. m = km.mem /\ top = km.topChunk /\ ts = km.topChunkSize /\ top + ts + 2 <= km.heap_size
    BY <1>1 DEF Heap, HeapOK
  <1>4. PICK e : e = End
    OBVIOUS
  <1>5. /\ top \in Nat /\ ts \in Nat /\ e = top + ts /\ {0, top, e} \subseteq Chunks
        /\ m[e + 1] = [size |-> 0, pinuse |-> FALSE, cinuse |-> FALSE]
        /\ ts > 0 => m[top + 1] = [size |-> ts, pinuse |-> TRUE, cinuse |-> FALSE]
        /\ \A a \in Chunks : Below(m, top, a) \/ (a = top /\ ts > 0) \/ a = e
        /\ \A a \in Chunks : a \in Nat /\ IsChunk(m, a)
    BY <1>2, <1>4 DEF ChunkKinds
  <1>6. e + DUMMYSIZE <= km.heap_size
    BY <1>3, <1>5 DEF DUMMYSIZE, CHUNK_ALIGN_ON
  <1>7. GETCHUNKSIZE(km, e) = 0
    BY <1>3, <1>5, Fields
  <1>8. ts > 0 => ~IS_INUSE(km, top) /\ NEXTCHUNK(km, top) = e
    <2> SUFFICES ASSUME ts > 0 PROVE ~IS_INUSE(km, top) /\ NEXTCHUNK(km, top) = e
      OBVIOUS
    <2>1. m[top + 1].cinuse = FALSE /\ m[top + 1].size = ts
      BY <1>5
    <2> QED BY <1>3, <1>5, <2>1, Fields
  <1>9. ASSUME NEW a \in Chunks \ {e}
        PROVE  /\ GETCHUNKSIZE(km, a) >= MINCHUNKSIZE \/ a = top
               /\ NEXTCHUNK(km, a) \in Chunks
               /\ \A b \in Chunks : a < b => NEXTCHUNK(km, a) <= b
    <2>1. CASE Below(m, top, a)
      <3>1. PICK z : z = m[a + 1].size
        OBVIOUS
      <3>2. NextOf(m, top, a, z)
        BY <1>2, <2>1, <3>1, BelowNext
      <3>3. z >= 4 /\ a + z \in Chunks /\ \A b \in Chunks : a < b => a + z <= b
        BY <3>2 DEF NextOf
      <3>4. GETCHUNKSIZE(km, a) = z /\ NEXTCHUNK(km, a) = a + z
        BY <1>3, <3>1, Fields
      <3> QED BY <3>3, <3>4 DEF MINCHUNKSIZE
    <2>2. CASE a = top /\ ts > 0
      <3>1. NEXTCHUNK(km, a) = e
        BY <1>8, <2>2
      <3>2. ASSUME NEW b \in Chunks, a < b PROVE e <= b
        <4>1. b \in Nat
          BY <1>2, <3>2 DEF ChunkKinds
        <4>2. ~Below(m, top, b)
          <5>1. top \in Nat /\ top < b
            BY <1>5, <2>2, <3>2
          <5>2. b \notin 0 .. top - 1
            BY ONLY <4>1, <5>1
          <5> QED BY ONLY <5>2 DEF Below
        <4>3. b # top
          BY <1>5, <2>2, <3>2
        <4>4. b = e
          BY <1>5, <4>2, <4>3
        <4> QED BY <4>1, <4>4
      <3> QED BY <1>5, <2>2, <3>1, <3>2
    <2> QED BY <1>5, <2>1, <2>2
  <1> QED BY <1>3, <1>4, <1>5, <1>6, <1>7, <1>8, <1>9 DEF Tiled

LEMMA BoundariesHold == AllocInv => Boundaries
  <1> SUFFICES ASSUME AllocInv, KMALLOC_IS_INIT(km) PROVE Boundaries
    BY DEF Boundaries
  <1>1. PICK m, top, ts : Heap(m, top, ts)
    BY HeapFound
  <1>2. ChunkKinds(m, top, ts)
    BY <1>1, ChunkKind
  <1>3. m = km.mem /\ Seg(m, 0, TRUE, top, TRUE, {})
    BY <1>1 DEF Heap, Layout
  <1>4. PICK e : e = End
    OBVIOUS
  <1>5. /\ top \in Nat /\ ts \in Nat /\ e = top + ts
        /\ ts > 0 => m[top + 1] = [size |-> ts, pinuse |-> TRUE, cinuse |-> FALSE] /\ m[e] = [foot |-> ts]
        /\ \A a \in Chunks : Below(m, top, a) \/ (a = top /\ ts > 0) \/ a = e
    BY <1>2, <1>4 DEF ChunkKinds
  <1>6. 0 # e => PREV_INUSE(km, 0)
    <2> SUFFICES ASSUME 0 # e PROVE PREV_INUSE(km, 0)
      OBVIOUS
    <2>1. CASE top = 0
      <3>1. ts > 0
        BY <1>5, <2>1
      <3>2. m[0 + 1].pinuse = TRUE
        BY <1>5, <2>1, <3>1
      <3> QED BY <1>3, <3>2, Fields
    <2>2. CASE top # 0
      <3>1. m[0 + 1].pinuse = TRUE
        BY <1>3, <1>5, <2>2 DEF Seg
      <3> QED BY <1>3, <3>1, Fields
    <2> QED BY <2>1, <2>2
  <1>7. ASSUME NEW a \in Chunks \ {e}, NEW b, b = NEXTCHUNK(km, a)
        PROVE  /\ b # e => PREV_INUSE(km, b) = IS_INUSE(km, a)
               /\ ~IS_INUSE(km, a) => /\ km.mem[b] = [foot |-> GETCHUNKSIZE(km, a)]
                                      /\ b = e \/ IS_INUSE(km, b)
    <2>1. PICK z : z = m[a + 1].size
      OBVIOUS
    <2>2. b = a + z /\ GETCHUNKSIZE(km, a) = z /\ IS_INUSE(km, a) = m[a + 1].cinuse
      BY <1>3, <1>7, <2>1, Fields
    <2>3. IS_INUSE(km, b) = m[b + 1].cinuse /\ PREV_INUSE(km, b) = m[b + 1].pinuse
      BY <1>3, Fields
    <2>4. CASE Below(m, top, a)
      <3>1. NextOf(m, top, a, z)
        BY <1>2, <2>1, <2>4, BelowNext
      <3>2. /\ z \in Nat /\ b <= top /\ a \in Nat /\ m[a + 1].cinuse \in BOOLEAN
            /\ b < top => m[b + 1].pinuse = m[a + 1].cinuse /\ Below(m, top, b)
            /\ b = top => m[a + 1].cinuse = TRUE
            /\ ~m[a + 1].cinuse => m[b] = [foot |-> z]
        BY <2>2, <3>1 DEF NextOf
      <3>3. CASE b = top
        <4>1. m[a + 1].cinuse = TRUE
          BY <3>2, <3>3
        <4>2. b # e => m[b + 1].pinuse = TRUE
          BY <1>5, <3>3
        <4> QED BY <2>2, <2>3, <4>1, <4>2
      <3>4. CASE b < top
        <4>1. m[b + 1].pinuse = m[a + 1].cinuse /\ Below(m, top, b)
          BY <3>2, <3>4
        <4>2. PICK y : y = m[b + 1].size
          OBVIOUS
        <4>3. NextOf(m, top, b, y)
          BY <1>2, <4>1, <4>2, BelowNext
        <4>4. m[b + 1].cinuse \in BOOLEAN /\ (~m[b + 1].cinuse => m[b + 1].pinuse)
          BY <4>3 DEF NextOf
        <4>5. ~m[a + 1].cinuse => m[b + 1].cinuse
          BY <3>2, <4>1, <4>4
        <4> QED BY <1>3, <2>2, <2>3, <3>2, <4>1, <4>5
      <3>5. b \in Nat
        BY <2>2, <3>2
      <3> QED BY <1>5, <3>2, <3>3, <3>4, <3>5
    <2>5. CASE a = top /\ ts > 0
      <3>1. z = ts /\ b = e /\ m[b] = [foot |-> z]
        BY <1>5, <2>1, <2>2, <2>5
      <3> QED BY <1>3, <2>2, <3>1
    <2> QED BY <1>5, <2>4, <2>5
  <1> QED BY <1>4, <1>6, <1>7 DEF Boundaries

(* The free chunks and the blocks of the whole heap.                       *)
LEMMA FreeChunks ==
    ASSUME NEW m, NEW top, NEW ts, ChunkKinds(m, top, ts)
    PROVE  /\ Free = FreeIn(m, top) \cup ({top} \ {End})
           /\ Chunks \ (Free \cup {End}) = UsedIn(m, top)
  <1>1. PICK e : e = End
    OBVIOUS
  <1>2. /\ m = km.mem /\ top \in Nat /\ ts \in Nat /\ e = top + ts /\ top \in Chunks
        /\ ts > 0 => m[top + 1] = [size |-> ts, pinuse |-> TRUE, cinuse |-> FALSE]
        /\ \A a : Below(m, top, a) => a \in Chunks
        /\ \A a \in 0 .. top - 1 : IsChunk(m, a) => Below(m, top, a)
        /\ \A a \in Chunks : Below(m, top, a) \/ (a = top /\ ts > 0) \/ a = e
    BY <1>1 DEF ChunkKinds
  <1>3. \A a : Below(m, top, a) => a \in 0 .. top - 1 /\ IsChunk(m, a)
    BY DEF Below
  <1>4. e \notin 0 .. top - 1 /\ top \notin 0 .. top - 1 /\ (ts > 0 <=> top # e)
    BY <1>2
  <1>5. ts > 0 => ~m[top + 1].cinuse
    BY <1>2
  <1>6. \A a : IS_INUSE(km, a) = m[a + 1].cinuse
    BY <1>2, Fields
  <1>7. Free = {a \in Chunks : a # e /\ ~m[a + 1].cinuse}
    BY <1>1, <1>6 DEF Free
  <1>8. FreeIn(m, top) = {a \in Chunks : Below(m, top, a) /\ ~m[a + 1].cinuse}
    BY <1>2, <1>3 DEF FreeIn
  <1>9. UsedIn(m, top) = {a \in Chunks : Below(m, top, a) /\ m[a + 1].cinuse}
    BY <1>2, <1>3 DEF UsedIn
  <1>10. \A a : Below(m, top, a) => a # e /\ a # top
    BY <1>3, <1>4
  <1>11. Free = FreeIn(m, top) \cup ({top} \ {e})
    BY ONLY <1>2, <1>4, <1>5, <1>7, <1>8, <1>10
  <1>12. Chunks \ (Free \cup {e}) = UsedIn(m, top)
    BY ONLY <1>2, <1>4, <1>5, <1>7, <1>9, <1>10
  <1> QED BY <1>1, <1>11, <1>12

LEMMA AbortsNever == AllocInv => NeverAborts
  BY DEF AllocInv, InvOf, Good, HeapOK, Uninitialised, NeverAborts

LEMMA IntactHolds == AllocInv => BlocksIntact
  <1>1. CASE km = Uninitialised /\ DOMAIN live = {}
    BY <1>1 DEF BlocksIntact, KMALLOC_IS_INIT, Uninitialised
  <1>2. CASE KMALLOC_IS_INIT(km) /\ AllocInv
    <2>1. PICK m, top, ts : Heap(m, top, ts)
      BY <1>2, HeapFound
    <2>2. m = km.mem /\ top = km.topChunk /\ ChunkKinds(m, top, ts)
      BY <2>1, ChunkKind DEF Heap
    <2>3. PICK U : U = UsedIn(m, top)
      OBVIOUS
    <2>4. DOMAIN live = {a + 2 : a \in U} /\ \A a \in U : live[a + 2] <= m[a + 1].size - 1
      BY <1>2, <2>2, <2>3, HeapFound DEF LiveIn
    <2>5. U = Chunks \ (Free \cup {End}) /\ \A a \in U : Below(m, top, a) /\ m[a + 1].cinuse
      BY <2>2, <2>3, FreeChunks DEF UsedIn, ChunkKinds
    <2>6. DOMAIN live = {CHUNK_PAYLOAD(a) : a \in Chunks \ (Free \cup {End})}
      BY <2>4, <2>5 DEF CHUNK_PAYLOAD
    <2>7. ASSUME NEW p \in DOMAIN live, NEW n, n = CHUNK_PAYLOAD_SIZE(km, PAYLOAD_CHUNK(p))
          PROVE  live[p] <= n /\ \A w \in p .. p + n - 1 : km.mem[w] = DATA
      <3>1. PICK a \in U : p = a + 2
        BY <2>4
      <3>2. PICK z : z = m[a + 1].size
        OBVIOUS
      <3>3. Below(m, top, a) /\ m[a + 1].cinuse
        BY <2>5
      <3>4. NextOf(m, top, a, z)
        BY <2>2, <3>2, <3>3, BelowNext
      <3>5. z \in Nat /\ a \in Nat /\ \A w \in a + 2 .. a + z : m[w] = DATA
        BY <3>3, <3>4 DEF NextOf
      <3>6. PAYLOAD_CHUNK(p) = a
        BY <3>1, <3>5 DEF PAYLOAD_CHUNK
      <3>7. n = z - 1
        BY <2>2, <2>7, <3>2, <3>6, Fields DEF CHUNK_PAYLOAD_SIZE, CHUNK_OVERHEAD
      <3>8. p + n - 1 = a + z
        BY <3>1, <3>5, <3>7
      <3> QED BY <2>2, <2>4, <3>1, <3>2, <3>5, <3>7, <3>8
    <2> QED BY <2>6, <2>7 DEF BlocksIntact
  <1>3. AllocInv => (km = Uninitialised /\ DOMAIN live = {}) \/ KMALLOC_IS_INIT(km)
    BY KMallocAssumption DEF AllocInv, InvOf, Good, HeapOK, KMALLOC_IS_INIT
  <1> QED BY <1>1, <1>2, <1>3

(* What the bins hold.                                                     *)
InSmall(k) == UNION {Range(k.sbin[i]) : i \in DOMAIN k.sbin}
InLarge(k) == UNION {k.tbin[i] : i \in DOMAIN k.tbin}

LEMMA BinsHold ==
    ASSUME NEW k \in State, NEW X, NEW m, BinInv(k, X, m)
    PROVE  /\ InSmall(k) \cup InLarge(k) = X
           /\ \A i \in DOMAIN k.sbin : \A n \in DOMAIN k.sbin[i] :
                  /\ m[k.sbin[i][n] + 1].size = i * 2
                  /\ \A j \in DOMAIN k.sbin[i] : k.sbin[i][j] = k.sbin[i][n] => j = n
           /\ \A i \in DOMAIN k.tbin : \A a \in k.tbin[i] :
                  m[a + 1].size >= MIN_LARGE_SIZE /\ calc_tbin(m[a + 1].size) = i
           /\ k.sbinmap = {i \in DOMAIN k.sbin : k.sbin[i] # <<>>}
           /\ k.tbinmap = {i \in DOMAIN k.tbin : k.tbin[i] # {}}
  <1>1. /\ DOMAIN k.sbin = 0 .. NSBINS - 1 /\ DOMAIN k.tbin = 0 .. NTBINS - 1
        /\ \A i \in 0 .. NSBINS - 1 : k.sbin[i] \in Seq(Nat)
    BY DEF State
  <1>2. SmallInv(k, X, m) /\ LargeInv(k, X, m) /\ MapsInv(k)
    BY DEF BinInv
  <1>3. \A i \in 0 .. NSBINS - 1 : \A a : Contains(k.sbin[i], a) <=> a \in Range(k.sbin[i])
    <2>1. TAKE i \in 0 .. NSBINS - 1
    <2>2. k.sbin[i] \in Seq(Nat)
      BY <1>1
    <2>3. DOMAIN k.sbin[i] = 1 .. Len(k.sbin[i])
      BY <2>2
    <2> QED BY <2>3 DEF Contains, Range
  <1>4. \A a : a \in InSmall(k) <=> \E i \in 0 .. NSBINS - 1 : Contains(k.sbin[i], a)
    BY <1>1, <1>3 DEF InSmall
  <1>5. \A a : a \in InLarge(k) <=> \E i \in 0 .. NTBINS - 1 : a \in k.tbin[i]
    BY <1>1 DEF InLarge
  <1>6. \A a \in X : a \in InSmall(k) \cup InLarge(k)
    <2>1. TAKE a \in X
    <2>2. PICK s : s = m[a + 1].size
      OBVIOUS
    <2>3. SizeOK(s) /\ InBin(k, a, s)
      BY <2>2 DEF BinInv
    <2>4. (s < MIN_LARGE_SIZE => small_index(s) \in 0 .. NSBINS - 1) /\ calc_tbin(s) \in 0 .. NTBINS - 1
      BY <2>3, BinIndex
    <2> QED BY <1>4, <1>5, <2>3, <2>4 DEF InBin
  <1>7. InSmall(k) \cup InLarge(k) = X
    BY <1>2, <1>4, <1>5, <1>6 DEF SmallInv, LargeInv
  <1>8. ASSUME NEW i \in DOMAIN k.sbin, NEW n \in DOMAIN k.sbin[i]
        PROVE  /\ m[k.sbin[i][n] + 1].size = i * 2
               /\ \A j \in DOMAIN k.sbin[i] : k.sbin[i][j] = k.sbin[i][n] => j = n
    <2>1. i \in 0 .. NSBINS - 1 /\ i \in Nat
      BY <1>1, <1>8
    <2>2. IsInjective(k.sbin[i]) /\ \A a : Contains(k.sbin[i], a) => m[a + 1].size = 2 * i
      BY <1>2, <2>1 DEF SmallInv
    <2>3. k.sbin[i][n] \in Range(k.sbin[i])
      BY <1>8 DEF Range
    <2>4. m[k.sbin[i][n] + 1].size = 2 * i
      BY <1>3, <2>1, <2>2, <2>3
    <2>5. 2 * i = i * 2
      BY <2>1
    <2> QED BY <1>8, <2>2, <2>4, <2>5 DEF IsInjective
  <1>9. \A i \in DOMAIN k.tbin : \A a \in k.tbin[i] :
            m[a + 1].size >= MIN_LARGE_SIZE /\ calc_tbin(m[a + 1].size) = i
    BY <1>1, <1>2 DEF LargeInv
  <1>10. /\ k.sbinmap = {i \in DOMAIN k.sbin : k.sbin[i] # <<>>}
         /\ k.tbinmap = {i \in DOMAIN k.tbin : k.tbin[i] # {}}
    BY <1>1, <1>2 DEF MapsInv
  <1> QED BY <1>7, <1>8, <1>9, <1>10

LEMMA BinnedHolds == AllocInv => Binned
  <1> SUFFICES ASSUME AllocInv, KMALLOC_IS_INIT(km) PROVE Binned
    BY DEF Binned
  <1>1. PICK m, top, ts : Heap(m, top, ts)
    BY HeapFound
  <1>2. /\ m = km.mem /\ top = km.topChunk /\ ts = km.topChunkSize
        /\ VictimOK(km) /\ BinInv(km, ForBins(km), m) /\ ChunkKinds(m, top, ts)
    BY <1>1, ChunkKind DEF Heap
  <1>3. km \in State
    BY HeapFound DEF Good
  <1>4. PICK e, v, F, X : e = End /\ v = km.dVictim /\ F = FreeIn(m, top) /\ X = F \ {v}
    OBVIOUS
  <1>5. top \in Nat /\ e >= top /\ top # NULL
    BY <1>2, <1>4, KMallocAssumption DEF ChunkKinds
  <1>6. Free = F \cup ({top} \ {e}) /\ ForBins(km) = X
    BY <1>2, <1>4, FreeChunks DEF ForBins
  <1>7. top \notin F /\ e \notin F /\ NULL \notin F
    BY <1>4, <1>5, KMallocAssumption DEF FreeIn
  <1>8. /\ v = NULL => km.dVictimSize = 0
        /\ v # NULL => v \in F /\ km.dVictimSize = GETCHUNKSIZE(km, v)
    BY <1>2, <1>4, Fields DEF VictimOK
  <1>9. PICK S, L : S = InSmall(km) /\ L = InLarge(km)
    OBVIOUS
  <1>10. S \cup L = X
    BY <1>2, <1>3, <1>6, <1>9, BinsHold
  <1>11. \A a : GETCHUNKSIZE(km, a) = m[a + 1].size
    BY <1>2, Fields
  <1>12. Free = S \cup L \cup ({top, v} \ {e, NULL})
    BY ONLY <1>4, <1>5, <1>6, <1>7, <1>8, <1>10
  <1>13. (S \cup L) \cap {top, v} = {}
    BY ONLY <1>4, <1>7, <1>10
  <1>14. \A i \in DOMAIN km.sbin : \A n \in DOMAIN km.sbin[i] :
             /\ GETCHUNKSIZE(km, km.sbin[i][n]) = i * CHUNK_ALIGN_ON
             /\ \A j \in DOMAIN km.sbin[i] : km.sbin[i][j] = km.sbin[i][n] => j = n
    BY <1>2, <1>3, <1>11, BinsHold DEF CHUNK_ALIGN_ON
  <1>15. \A i \in DOMAIN km.tbin : \A a \in km.tbin[i] :
             GETCHUNKSIZE(km, a) >= MIN_LARGE_SIZE /\ calc_tbin(GETCHUNKSIZE(km, a)) = i
    BY <1>2, <1>3, <1>11, BinsHold
  <1>16. /\ km.sbinmap = {i \in DOMAIN km.sbin : km.sbin[i] # <<>>}
         /\ km.tbinmap = {i \in DOMAIN km.tbin : km.tbin[i] # {}}
    BY <1>2, <1>3, BinsHold
  <1>17. v # NULL => v # top
    BY <1>7, <1>8
  <1>18. /\ Free = InSmall(km) \cup InLarge(km) \cup ({km.topChunk, km.dVictim} \ {End, NULL})
         /\ (InSmall(km) \cup InLarge(km)) \cap {km.topChunk, km.dVictim} = {}
    BY ONLY <1>2, <1>4, <1>9, <1>12, <1>13
  <1>19. /\ km.dVictim = NULL => km.dVictimSize = 0
         /\ km.dVictim # NULL =>
                km.dVictim # km.topChunk /\ km.dVictimSize = GETCHUNKSIZE(km, km.dVictim)
    BY <1>2, <1>4, <1>8, <1>17
  <1> QED BY <1>14, <1>15, <1>16, <1>18, <1>19 DEF Binned, InSmall, InLarge

(* A request is rounded up by at most one unit, or to the smallest chunk.  *)
LEMMA RequestRounded ==
    ASSUME NEW size \in Nat, size + 1 + HEAP_SIZE_ALIGN < WORD, NEW s, s = REQUEST2SIZE(size)
    PROVE  s = 4 \/ s <= size + 2
  <1>1. HEAP_SIZE_ALIGN \in Nat /\ HEAP_SIZE_ALIGN >= 2 /\ WORD \in Nat \ {0}
    BY Alignment, KMallocAssumption DEF MINCHUNKSIZE
  <1>2. PICK n, u : n = size + 1 /\ u = 2
    OBVIOUS
  <1>3. n \in Nat /\ u \in Nat \ {0} /\ n + u - 1 < WORD /\ n < WORD
    BY <1>1, <1>2
  <1>4. (size + CHUNK_OVERHEAD) % WORD = n
    BY <1>1, <1>2, <1>3 DEF CHUNK_OVERHEAD
  <1>5. s = IF n < 4 THEN 4 ELSE RoundUp(n, u)
    BY <1>2, <1>4 DEF REQUEST2SIZE, MINCHUNKSIZE, CHUNK_ALIGN_ON
  <1>6. CASE ~(n < 4)
    <2>1. s = RoundUp(n, u)
      BY <1>5, <1>6
    <2>2. s \in Nat /\ s <= n + u - 1
      BY <1>3, <2>1, RoundUpBounds
    <2> QED BY <1>2, <2>2
  <1> QED BY <1>5, <1>6

(* A size that overflows is larger than any heap.                          *)
LEMMA OverflowLarge ==
    ASSUME NEW size, Asked(size), REQUESTOVERFLOW(size)
    PROVE  size > HEAP_LIMIT
  <1>1. HEAP_SIZE_ALIGN \in Nat /\ WORD \in Nat \ {0} /\ HEAP_LIMIT \in Nat /\ 2 * HEAP_LIMIT < WORD
        /\ 4 + HEAP_SIZE_ALIGN <= WORD
    BY KMallocAssumption DEF MINCHUNKSIZE
  <1>2. PICK n, u : n = size + 1 /\ u = 2
    OBVIOUS
  <1>3. size \in Nat /\ size < WORD /\ REQUEST2SIZE(size) < size
    BY DEF Asked, REQUESTOVERFLOW
  <1>4. SUFFICES ASSUME size <= HEAP_LIMIT PROVE FALSE
    BY <1>1, <1>3
  <1>5. size + 3 <= WORD
    BY <1>1, <1>3, <1>4
  <1>6. (size + CHUNK_OVERHEAD) % WORD = n /\ n \in Nat
    BY <1>1, <1>2, <1>3, <1>5 DEF CHUNK_OVERHEAD
  <1>7. REQUEST2SIZE(size) = IF n < 4 THEN 4 ELSE RoundUp(n, u)
    BY <1>2, <1>6 DEF REQUEST2SIZE, MINCHUNKSIZE, CHUNK_ALIGN_ON
  <1>8. CASE n < 4
    BY <1>2, <1>3, <1>7, <1>8
  <1>9. CASE ~(n < 4)
    <2>1. n \in Nat /\ u \in Nat \ {0} /\ n + u - 1 < WORD
      BY <1>2, <1>5, <1>6, <1>1, <1>3
    <2>2. RoundUp(n, u) \in Nat /\ RoundUp(n, u) >= n
      BY <2>1, RoundUpBounds
    <2> QED BY <1>2, <1>3, <1>7, <1>9, <2>2
  <1> QED BY <1>8, <1>9

(* A free chunk of z words is too small for a request that was not served. *)
TooSmall(z, size) == z - CHUNK_OVERHEAD < size \/ z < MINCHUNKSIZE

LEMMA NotServed ==
    ASSUME NEW z \in Nat, z % 2 = 0, z <= HEAP_LIMIT, NEW size, Asked(size), NEW s, s = REQUEST2SIZE(size),
           REQUESTOVERFLOW(size) \/ z < s
    PROVE  TooSmall(z, size)
  <1>1. size \in Nat /\ HEAP_LIMIT \in Nat
    BY KMallocAssumption DEF Asked
  <1>2. CASE REQUESTOVERFLOW(size)
    BY <1>1, <1>2, OverflowLarge DEF TooSmall, CHUNK_OVERHEAD
  <1>3. CASE ~REQUESTOVERFLOW(size)
    <2>1. size + 1 + HEAP_SIZE_ALIGN < WORD /\ z < s
      BY <1>3 DEF Asked
    <2>2. ReqOK(s) /\ (s = 4 \/ s <= size + 2)
      BY <1>1, <2>1, RequestSize, RequestRounded
    <2>3. s \in Nat /\ s % 2 = 0
      BY <2>2 DEF ReqOK
    <2>4. z <= s - 2
      BY <2>1, <2>3
    <2> QED BY <1>1, <2>2, <2>3, <2>4 DEF TooSmall, CHUNK_OVERHEAD, MINCHUNKSIZE
  <1> QED BY <1>2, <1>3

LEMMA FitHolds == AllocInv => FitIsFound
  <1> SUFFICES ASSUME AllocInv, KMALLOC_IS_INIT(km), NEW size \in Sizes, NEW r \in kmalloc(km, size),
                      ~kmalloc_undefined(km, size), r.ptr = NULL, NEW a \in Free
               PROVE  CHUNK_PAYLOAD_SIZE(km, a) < size \/ GETCHUNKSIZE(km, a) < MINCHUNKSIZE
    BY DEF FitIsFound
  <1>1. PICK m, top, ts : Heap(m, top, ts)
    BY HeapFound
  <1>2. /\ m = km.mem /\ top = km.topChunk /\ ts = km.topChunkSize
        /\ Layout(m, top, ts, {}) /\ VictimOK(km) /\ ChunkKinds(m, top, ts)
    BY <1>1, ChunkKind DEF Heap
  <1>3. Asked(size) /\ Good(km, {})
    BY AskedSizes, HeapFound
  <1>4. PICK s, z : s = REQUEST2SIZE(size) /\ z = m[a + 1].size
    OBVIOUS
  <1>5. REQUESTOVERFLOW(size) \/ NoFit(km, s)
    BY <1>3, <1>4, KmallocOutcome DEF AllocOutcome
  <1>6. /\ top \in Nat /\ ts \in Nat /\ ts % 2 = 0 /\ top + ts + 2 <= HEAP_LIMIT /\ End = top + ts
        /\ ts > 0 => m[top + 1] = [size |-> ts, pinuse |-> TRUE, cinuse |-> FALSE]
    BY <1>2 DEF Layout, Behind, ChunkKinds
  <1>7. HEAP_LIMIT \in Nat /\ (REQUESTOVERFLOW(size) \/ ~SearchUndefined(km, s))
    BY <1>4, KMallocAssumption DEF kmalloc_undefined
  <1>8. CASE a \in FreeIn(m, top)
    <2>1. IsFree(m, a, z, top, ts, {})
      <3>1. PICK E : E = {}
        OBVIOUS
      <3>2. Layout(m, top, ts, E)
        BY <1>2, <3>1
      <3>3. IsFree(m, a, z, top, ts, E)
        BY <1>4, <1>8, <3>2, FreeFacts
      <3> QED BY <3>1, <3>3
    <2>2. z \in Nat /\ z % 2 = 0 /\ a \in Nat /\ a + z < top
      BY <2>1 DEF IsFree, SizeOK
    <2>3. z <= HEAP_LIMIT
      BY <1>6, <1>7, <2>2
    <2>4. NoFit(km, s) /\ ~SearchUndefined(km, s) => z < s
      <3>1. CASE a = km.dVictim
        <4>1. a # NULL
          BY <2>2, KMallocAssumption
        <4>2. km.dVictimSize = z
          BY <1>2, <1>4, <3>1, <4>1 DEF VictimOK
        <4> QED BY <4>2 DEF NoFit
      <3>2. CASE a # km.dVictim
        <4>1. a \in ForBins(km)
          BY <1>2, <1>8, <3>2 DEF ForBins
        <4> QED BY <1>2, <1>4, <4>1 DEF NoFit, BinsShort
      <3> QED BY <3>1, <3>2
    <2>5. TooSmall(z, size)
      BY <1>3, <1>4, <1>5, <1>7, <2>2, <2>3, <2>4, NotServed
    <2> QED BY <1>2, <1>4, <2>5, Fields DEF TooSmall, CHUNK_PAYLOAD_SIZE
  <1>9. CASE a = top /\ a # End
    <2>1. ts > 0
      BY <1>6, <1>9
    <2>2. z = ts
      BY <1>4, <1>6, <1>9, <2>1
    <2>3. z \in Nat /\ z % 2 = 0 /\ z <= HEAP_LIMIT
      BY <1>6, <1>7, <2>2
    <2>4. NoFit(km, s) => z < s
      BY <1>2, <2>2 DEF NoFit
    <2>5. TooSmall(z, size)
      BY <1>3, <1>4, <1>5, <2>3, <2>4, NotServed
    <2> QED BY <1>2, <1>4, <2>5, Fields DEF TooSmall, CHUNK_PAYLOAD_SIZE
  <1>10. Free = FreeIn(m, top) \cup ({top} \ {End})
    BY <1>2, FreeChunks
  <1> QED BY <1>8, <1>9, <1>10

(* However chunks are split, merged, expanded and moved, they are a        *)
(* partition of the heap up to the dummy, with the top chunk as the last.  *)
(* What split_top leaves behind the dummy is not part of it.               *)
THEOREM AlwaysTiled == Spec => []Tiled
  BY HeapInvariant, TiledHolds, PTL

(* The PINUSE flag and prev_foot of every chunk tell the truth about the   *)
(* one before it, and kfree and krealloc leave no two free neighbours.     *)
THEOREM AlwaysBoundaries == Spec => []Boundaries
  BY HeapInvariant, BoundariesHold, PTL

(* bin_chunk, unbin_chunk and replace_dv keep every free chunk in exactly  *)
(* one place, and the bin maps true to the bins.                           *)
THEOREM AlwaysBinned == Spec => []Binned
  BY HeapInvariant, BinnedHolds, PTL

(* No operation of the allocator changes a word of a block of another      *)
(* caller, and a block keeps its contents when krealloc moves it.          *)
THEOREM AlwaysIntact == Spec => []BlocksIntact
  BY HeapInvariant, IntactHolds, PTL

(* The consistency checks of kfree and krealloc never fail for a caller    *)
(* that passes blocks it owns.                                             *)
THEOREM NoAbort == Spec => []NeverAborts
  BY HeapInvariant, AbortsNever, PTL

(* When its search is defined, kmalloc only returns NULL when no free      *)
(* chunk is large enough: the bins, the victim and the top chunk are all   *)
(* looked at.                                                              *)
THEOREM AlwaysFits == Spec => []FitIsFound
  BY HeapInvariant, FitHolds, PTL
=============================================================================
