--------------------------- MODULE KMallocLemmas --------------------------
(***************************************************************************)
(* Lemmas about module KMalloc: what the operations of the allocator do to *)
(* the chunks of the heap and to the bins.                                 *)
(*                                                                         *)
(* The memory is described from left to right: a segment (Seg) of well     *)
(* formed chunks up to the top chunk, the top chunk and the dummy          *)
(* (Layout). Good relates it to the bins (BinInv) and to the designated    *)
(* victim (VictimOK). An operation opens a hole in a segment, where a      *)
(* chunk is rewritten, and closes it again.                                *)
(***************************************************************************)
EXTENDS KMalloc, BasicLemmas

---------------------------------------------------------------------------
(* A segment of the heap: the chunks from address lo up to hi, in memory   *)
(* m. p says whether the chunk before lo is in use, q whether the last one *)
(* before hi is. E are the words of blocks that hold no data of a caller   *)
(* yet.                                                                    *)
IsChunk(m, a) == a % 2 = 0 /\ m[a + 1] \notin {NULL, DATA}

(* What a chunk owns are the words a + 1 .. a + size.                      *)
ChunkOK(m, a, hi, q, E) ==
    LET h == m[a + 1]
    IN  /\ h \in HEADER
        /\ h.size >= 4 /\ h.size % 2 = 0 /\ a + h.size <= hi
        /\ \A b \in a + 1 .. a + h.size - 1 : ~IsChunk(m, b)
        /\ a + h.size < hi => /\ IsChunk(m, a + h.size)
                              /\ m[a + h.size + 1].pinuse = h.cinuse
        /\ a + h.size = hi => q = h.cinuse
        /\ ~h.cinuse => h.pinuse /\ m[a + h.size] = [foot |-> h.size]
        /\ h.cinuse => \A w \in a + 2 .. a + h.size : w \in E \/ m[w] = DATA

Seg(m, lo, p, hi, q, E) ==
    /\ lo \in Nat /\ hi \in Nat /\ lo <= hi /\ lo % 2 = 0 /\ hi % 2 = 0
    /\ p \in BOOLEAN /\ q \in BOOLEAN
    /\ lo = hi => p = q
    /\ lo < hi => IsChunk(m, lo) /\ m[lo + 1].pinuse = p
    /\ \A a \in lo .. hi - 1 : IsChunk(m, a) => ChunkOK(m, a, hi, q, E)

(* The words of a segment decide of it.                                    *)
LEMMA SegFrame ==
    ASSUME NEW m, NEW n, NEW lo, NEW p, NEW hi, NEW q, NEW E, NEW F, Seg(m, lo, p, hi, q, E),
           \A w \in lo + 1 .. hi : n[w] = m[w],
           \A w \in lo + 1 .. hi : w \in E => w \in F
    PROVE  Seg(n, lo, p, hi, q, F)
  <1>1. lo \in Nat /\ hi \in Nat
    BY DEF Seg
  <1>2. \A a \in lo .. hi - 1 : n[a + 1] = m[a + 1] /\ (IsChunk(n, a) <=> IsChunk(m, a))
    BY <1>1 DEF IsChunk
  <1>3. ASSUME NEW a \in lo .. hi - 1, IsChunk(n, a)
        PROVE  ChunkOK(n, a, hi, q, F)
    <2>1. ChunkOK(m, a, hi, q, E) /\ n[a + 1] = m[a + 1]
      BY <1>2, <1>3 DEF Seg
    <2> DEFINE s == m[a + 1].size
    <2>2. s \in Nat /\ s >= 4 /\ a + s <= hi /\ a \in Nat
      BY <2>1, <1>1 DEF ChunkOK, HEADER
    <2>3. \A b \in a + 1 .. a + s - 1 : ~IsChunk(n, b)
      BY <2>1, <2>2, <1>1, <1>2 DEF ChunkOK
    <2>4. a + s < hi => IsChunk(n, a + s) /\ n[a + s + 1].pinuse = m[a + 1].cinuse
      BY <2>1, <2>2, <1>1, <1>2 DEF ChunkOK
    <2>5. \A w \in a + 2 .. a + s : n[w] = m[w] /\ (w \in E => w \in F)
      BY <2>2, <1>1
    <2>6. n[a + s] = m[a + s]
      BY <2>2, <1>1
    <2> QED
      BY <2>1, <2>2, <2>3, <2>4, <2>5, <2>6 DEF ChunkOK
  <1> QED
    BY <1>1, <1>2, <1>3 DEF Seg

(* Two segments that touch.                                                *)
LEMMA SegJoin ==
    ASSUME NEW m, NEW lo, NEW p, NEW mid, NEW q, NEW hi, NEW r, NEW E,
           Seg(m, lo, p, mid, q, E), Seg(m, mid, q, hi, r, E)
    PROVE  Seg(m, lo, p, hi, r, E)
  <1>1. lo \in Nat /\ mid \in Nat /\ hi \in Nat /\ lo <= mid /\ mid <= hi
    BY DEF Seg
  <1>2. ASSUME NEW a \in lo .. hi - 1, IsChunk(m, a)
        PROVE  ChunkOK(m, a, hi, r, E)
    <2>1. CASE a >= mid
      BY <1>1, <1>2, <2>1 DEF Seg
    <2>2. CASE a < mid
      <3>1. ChunkOK(m, a, mid, q, E)
        BY <1>1, <1>2, <2>2 DEF Seg
      <3>2. m[a + 1].size \in Nat /\ a + m[a + 1].size <= mid /\ a \in Nat
        BY <3>1, <1>1 DEF ChunkOK, HEADER
      <3>3. CASE a + m[a + 1].size < mid
        BY <3>1, <3>2, <3>3, <1>1 DEF ChunkOK
      <3>4. CASE a + m[a + 1].size = mid /\ mid < hi
        BY <3>1, <3>2, <3>4, <1>1 DEF ChunkOK, Seg
      <3>5. CASE a + m[a + 1].size = mid /\ mid = hi
        BY <3>1, <3>2, <3>5, <1>1 DEF ChunkOK, Seg
      <3> QED
        BY <3>2, <3>3, <3>4, <3>5, <1>1
    <2> QED
      BY <1>1, <2>1, <2>2
  <1>3. lo < hi => IsChunk(m, lo) /\ m[lo + 1].pinuse = p
    BY <1>1 DEF Seg
  <1>4. lo = hi => p = r
    BY <1>1 DEF Seg
  <1> QED
    BY <1>1, <1>2, <1>3, <1>4 DEF Seg

(* A segment is cut at any chunk.                                          *)
LEMMA SegCut ==
    ASSUME NEW m, NEW lo, NEW p, NEW hi, NEW r, NEW E, Seg(m, lo, p, hi, r, E),
           NEW c \in lo .. hi - 1, IsChunk(m, c)
    PROVE  /\ Seg(m, lo, p, c, m[c + 1].pinuse, E)
           /\ Seg(m, c, m[c + 1].pinuse, hi, r, E)
           /\ c \in Nat /\ c % 2 = 0
           /\ ChunkOK(m, c, hi, r, E)
  <1>1. lo \in Nat /\ hi \in Nat /\ c \in Nat /\ c % 2 = 0 /\ m[c + 1].pinuse \in BOOLEAN /\ ChunkOK(m, c, hi, r, E)
    BY DEF Seg, IsChunk, ChunkOK, HEADER
  <1>2. ASSUME NEW a \in lo .. c - 1, IsChunk(m, a)
        PROVE  ChunkOK(m, a, c, m[c + 1].pinuse, E)
    <2>1. ChunkOK(m, a, hi, r, E) /\ a \in Nat /\ a < c
      BY <1>1, <1>2 DEF Seg
    <2>2. m[a + 1].size \in Nat
      BY <2>1 DEF ChunkOK, HEADER
    <2>3. a + m[a + 1].size <= c
      <3>1. SUFFICES ASSUME a + m[a + 1].size > c PROVE FALSE
        BY <2>1, <2>2, <1>1
      <3>2. c \in a + 1 .. a + m[a + 1].size - 1
        BY <3>1, <2>1, <2>2, <1>1
      <3> QED
        BY <3>2, <2>1 DEF ChunkOK
    <2>4. m[a + 1].size # 0 /\ c < hi
      BY <2>1, <1>1 DEF ChunkOK
    <2> QED
      BY <2>1, <2>2, <2>3, <2>4, <1>1 DEF ChunkOK
  <1>3. Seg(m, c, m[c + 1].pinuse, hi, r, E)
    BY <1>1 DEF Seg
  <1>4. lo < c => IsChunk(m, lo) /\ m[lo + 1].pinuse = p
    BY <1>1 DEF Seg
  <1>5. lo = c => p = m[c + 1].pinuse
    BY <1>1 DEF Seg
  <1> QED
    BY <1>1, <1>2, <1>3, <1>4, <1>5 DEF Seg

(* The segment of one chunk, and what is behind it.                        *)
LEMMA SegChunk ==
    ASSUME NEW m, NEW lo, NEW p, NEW hi, NEW r, NEW E, Seg(m, lo, p, hi, r, E),
           NEW c \in lo .. hi - 1, IsChunk(m, c), NEW h, h = m[c + 1]
    PROVE  /\ Seg(m, lo, p, c, h.pinuse, E)
           /\ Seg(m, c, h.pinuse, c + h.size, h.cinuse, E)
           /\ Seg(m, c + h.size, h.cinuse, hi, r, E)
           /\ h \in HEADER /\ c \in Nat
  <1>1. /\ Seg(m, lo, p, c, h.pinuse, E) /\ Seg(m, c, h.pinuse, hi, r, E)
        /\ c \in Nat /\ c % 2 = 0 /\ ChunkOK(m, c, hi, r, E)
    BY SegCut
  <1>2. /\ hi \in Nat /\ r \in BOOLEAN /\ h \in HEADER /\ h.size \in Nat /\ h.cinuse \in BOOLEAN
        /\ h.size >= 4 /\ c + h.size <= hi /\ hi % 2 = 0
    BY <1>1 DEF Seg, ChunkOK, HEADER
  <1>3. CASE c + h.size = hi
    <2>1. h.cinuse = r
      BY <1>1, <1>3 DEF ChunkOK
    <2>2. Seg(m, hi, r, hi, r, E)
      BY <1>2 DEF Seg
    <2> QED
      BY <1>1, <1>2, <1>3, <2>1, <2>2
  <1>4. CASE c + h.size < hi
    <2>1. c + h.size \in c .. hi - 1 /\ IsChunk(m, c + h.size) /\ m[c + h.size + 1].pinuse = h.cinuse
      BY <1>1, <1>2, <1>4 DEF ChunkOK
    <2> QED
      BY <1>1, <1>2, <2>1, SegCut
  <1> QED
    BY <1>2, <1>3, <1>4

LEMMA NewHeader ==
    ASSUME NEW m, NEW a, a % 2 = 0, NEW z \in Nat, NEW p \in BOOLEAN, NEW c \in BOOLEAN,
           m[a + 1] = [size |-> z, pinuse |-> p, cinuse |-> c]
    PROVE  IsChunk(m, a) /\ m[a + 1].size = z /\ m[a + 1].pinuse = p /\ m[a + 1].cinuse = c
  <1>1. m[a + 1] \in HEADER /\ m[a + 1].size = z /\ m[a + 1].pinuse = p /\ m[a + 1].cinuse = c
    BY DEF HEADER
  <1>2. IsChunk(m, a)
    BY <1>1, KMallocAssumption DEF IsChunk, HEADER, DATA
  <1> QED
    BY <1>1, <1>2

(* A segment made of one chunk.                                            *)
LEMMA SegOne ==
    ASSUME NEW m, NEW a \in Nat, NEW s \in Nat, NEW p \in BOOLEAN, NEW c \in BOOLEAN, NEW E,
           a % 2 = 0, s % 2 = 0, s >= 4,
           m[a + 1] = [size |-> s, pinuse |-> p, cinuse |-> c],
           \A b \in a + 1 .. a + s - 1 : ~IsChunk(m, b),
           ~c => p /\ m[a + s] = [foot |-> s],
           c => \A w \in a + 2 .. a + s : w \in E \/ m[w] = DATA
    PROVE  Seg(m, a, p, a + s, c, E)
  <1>1. m[a + 1] \in HEADER /\ m[a + 1].size = s /\ m[a + 1].pinuse = p /\ m[a + 1].cinuse = c
    BY DEF HEADER
  <1>2. IsChunk(m, a)
    BY NewHeader
  <1>3. ChunkOK(m, a, a + s, c, E)
    BY <1>1 DEF ChunkOK
  <1>4. \A b \in a .. a + s - 1 : IsChunk(m, b) => b = a
    OBVIOUS
  <1> QED
    BY <1>1, <1>2, <1>3, <1>4 DEF Seg

(* The last chunk of a segment: the one that starts least before its end.  *)
LEMMA SegLast ==
    ASSUME NEW m, NEW lo, NEW p, NEW hi, NEW r, NEW E, Seg(m, lo, p, hi, r, E), lo < hi
    PROVE  \E c \in lo .. hi - 1 : IsChunk(m, c) /\ c + m[c + 1].size = hi /\ m[c + 1].cinuse = r
  <1> DEFINE N == {d \in Nat : d > 0 /\ hi - d >= lo /\ IsChunk(m, hi - d)}
  <1>1. lo \in Nat /\ hi \in Nat /\ IsChunk(m, lo)
    BY DEF Seg
  <1>2. hi - lo \in N /\ N \subseteq Nat
    BY <1>1
  <1>3. PICK d \in N : \A e \in N : d <= e
    BY <1>2, LeastNat
  <1>4. hi - d \in lo .. hi - 1 /\ IsChunk(m, hi - d) /\ d \in Nat
    BY <1>1
  <1>5. PICK c \in lo .. hi - 1 : c = hi - d
    BY <1>4
  <1>6. IsChunk(m, c) /\ ChunkOK(m, c, hi, r, E)
    BY <1>4, <1>5 DEF Seg
  <1>7. m[c + 1].size \in Nat /\ m[c + 1].size >= 4 /\ c + m[c + 1].size <= hi
    BY <1>6 DEF ChunkOK, HEADER
  <1>8. c + m[c + 1].size = hi
    <2>1. SUFFICES ASSUME c + m[c + 1].size < hi PROVE FALSE
      BY <1>1, <1>7
    <2>2. IsChunk(m, c + m[c + 1].size)
      BY <2>1, <1>6 DEF ChunkOK
    <2>3. PICK e \in Nat : e = hi - (c + m[c + 1].size)
      BY <2>1, <1>1, <1>7
    <2>4. e > 0 /\ hi - e >= lo /\ hi - e = c + m[c + 1].size /\ e < d
      BY <2>1, <2>3, <1>1, <1>4, <1>5, <1>7
    <2>5. e \in N
      BY <2>2, <2>4
    <2> QED
      BY <2>4, <2>5, <1>3, <1>4
  <1> QED
    BY <1>6, <1>8 DEF ChunkOK

(* Changing the PINUSE flag of the first chunk of a segment.               *)
Flagged(h, f) == [h EXCEPT !.pinuse = f]

FirstFlagged(m, n, lo, hi, f) ==
    /\ lo < hi /\ f \in BOOLEAN /\ (f = TRUE \/ m[lo + 1].cinuse = TRUE)
    /\ n[lo + 1] = Flagged(m[lo + 1], f)
    /\ \A w \in lo + 2 .. hi : n[w] = m[w]

LEMMA SegFlag ==
    ASSUME NEW m, NEW n, NEW lo, NEW p, NEW hi, NEW r, NEW E, Seg(m, lo, p, hi, r, E),
           NEW f, FirstFlagged(m, n, lo, hi, f)
    PROVE  /\ Seg(n, lo, f, hi, r, E)
           /\ IsChunk(n, lo)
           /\ n[lo + 1].size = m[lo + 1].size /\ n[lo + 1].cinuse = m[lo + 1].cinuse
  <1> DEFINE h == m[lo + 1]
             g == n[lo + 1]
  <1>0. /\ lo < hi /\ f \in BOOLEAN /\ (f = TRUE \/ h.cinuse = TRUE) /\ g = Flagged(h, f)
        /\ \A w \in lo + 2 .. hi : n[w] = m[w]
    BY DEF FirstFlagged
  <1>1. lo \in Nat /\ hi \in Nat /\ lo % 2 = 0 /\ hi % 2 = 0 /\ r \in BOOLEAN /\ IsChunk(m, lo)
    BY <1>0 DEF Seg
  <1>2. ChunkOK(m, lo, hi, r, E)
    BY <1>0, <1>1 DEF Seg
  <1>3. h \in HEADER /\ h.size \in Nat /\ h.size >= 4 /\ lo + h.size <= hi
    BY <1>2 DEF ChunkOK, HEADER
  <1>4. g \in HEADER /\ g.size = h.size /\ g.cinuse = h.cinuse /\ g.pinuse = f
    BY <1>0, <1>3 DEF HEADER, Flagged
  <1>5. IsChunk(n, lo)
    BY <1>1, <1>4, KMallocAssumption DEF IsChunk, HEADER, DATA
  <1>6. \A a \in lo + 1 .. hi - 1 : n[a + 1] = m[a + 1] /\ (IsChunk(n, a) <=> IsChunk(m, a))
    BY <1>0, <1>1 DEF IsChunk
  <1>7. ChunkOK(n, lo, hi, r, E)
    <2>1. \A b \in lo + 1 .. lo + h.size - 1 : ~IsChunk(n, b)
      BY <1>1, <1>2, <1>3, <1>6 DEF ChunkOK
    <2>2. lo + h.size < hi => /\ IsChunk(n, lo + h.size)
                              /\ n[lo + h.size + 1].pinuse = h.cinuse
      BY <1>1, <1>2, <1>3, <1>6 DEF ChunkOK
    <2>3. lo + h.size = hi => r = h.cinuse
      BY <1>2 DEF ChunkOK
    <2>4. ~h.cinuse => n[lo + h.size] = [foot |-> h.size]
      BY <1>0, <1>1, <1>2, <1>3 DEF ChunkOK
    <2>5. h.cinuse => \A w \in lo + 2 .. lo + h.size : w \in E \/ n[w] = DATA
      BY <1>0, <1>1, <1>2, <1>3 DEF ChunkOK
    <2>6. h.size % 2 = 0
      BY <1>2 DEF ChunkOK
    <2> QED
      BY <1>0, <1>3, <1>4, <2>1, <2>2, <2>3, <2>4, <2>5, <2>6 DEF ChunkOK
  <1>8. Seg(n, lo + h.size, h.cinuse, hi, r, E)
    <2>1. Seg(m, lo + h.size, h.cinuse, hi, r, E)
      BY <1>0, <1>1, SegChunk
    <2>2. \A w \in lo + h.size + 1 .. hi : n[w] = m[w]
      BY <1>0, <1>1, <1>3
    <2> QED
      BY <2>1, <2>2, SegFrame
  <1>9. ASSUME NEW a \in lo .. hi - 1, IsChunk(n, a)
        PROVE  ChunkOK(n, a, hi, r, E)
    <2>1. CASE a = lo
      BY <2>1, <1>7
    <2>2. CASE a # lo
      <3>1. ~(a \in lo + 1 .. lo + h.size - 1)
        BY <1>9, <1>7, <1>4 DEF ChunkOK
      <3>2. a \in lo + h.size .. hi - 1
        BY <3>1, <2>2, <1>1, <1>3
      <3> QED
        BY <3>2, <1>8, <1>9 DEF Seg
    <2> QED
      BY <2>1, <2>2
  <1> QED
    BY <1>0, <1>1, <1>4, <1>5, <1>9 DEF Seg

---------------------------------------------------------------------------
(* The heap: the chunks up to the top chunk, the top chunk if it is not    *)
(* empty, and the dummy.                                                   *)
Behind(m, top, ts) ==
    /\ top \in Nat /\ ts \in Nat /\ top % 2 = 0 /\ ts % 2 = 0 /\ top + ts + 2 <= HEAP_LIMIT
    /\ ts > 0 => /\ m[top + 1] = [size |-> ts, pinuse |-> TRUE, cinuse |-> FALSE]
                 /\ m[top + ts] = [foot |-> ts]
    /\ m[top + ts + 1] = [size |-> 0, pinuse |-> FALSE, cinuse |-> FALSE]
    /\ \A b \in top + 1 .. HEAP_LIMIT - 1 : b # top + ts => ~IsChunk(m, b)

Layout(m, top, ts, E) == Seg(m, 0, TRUE, top, TRUE, E) /\ Behind(m, top, ts)

(* The same with a hole from lo to hi, where anything may be.              *)
Hole(m, lo, p, hi, q, top, ts, E) ==
    Seg(m, 0, TRUE, lo, p, E) /\ Seg(m, hi, q, top, TRUE, E) /\ Behind(m, top, ts)

(* Outside the hole m and n have the same chunks.                          *)
SameOutside(m, n, lo, hi, top) ==
    \A b \in 0 .. top - 1 : b \notin lo .. hi - 1 =>
        /\ IsChunk(n, b) <=> IsChunk(m, b)
        /\ IsChunk(m, b) => n[b + 1].size = m[b + 1].size /\ n[b + 1].cinuse = m[b + 1].cinuse

LEMMA BehindFrame ==
    ASSUME NEW m, NEW n, NEW top, NEW ts, Behind(m, top, ts),
           \A w \in Words : w > top => n[w] = m[w]
    PROVE  Behind(n, top, ts)
  <1>1. top \in Nat /\ ts \in Nat /\ top % 2 = 0 /\ top + ts + 2 <= HEAP_LIMIT /\ HEAP_LIMIT \in Nat
        /\ HEAP_LIMIT % 2 = 0
    BY KMallocAssumption DEF Behind, CHUNK_ALIGN_ON
  <1>2. \A w \in top + 1 .. HEAP_LIMIT - 1 : n[w] = m[w]
    BY <1>1 DEF Words
  <1>3. ASSUME NEW b \in top + 1 .. HEAP_LIMIT - 1, b # top + ts
        PROVE  ~IsChunk(n, b)
    <2>1. CASE b % 2 = 0
      <3>1. b + 1 \in top + 1 .. HEAP_LIMIT - 1
        BY <1>1, <2>1
      <3> QED
        BY <3>1, <1>2, <1>3 DEF IsChunk, Behind
    <2>2. CASE b % 2 # 0
      BY <2>2 DEF IsChunk
    <2> QED
      BY <2>1, <2>2
  <1>4. n[top + ts + 1] = m[top + ts + 1]
    BY <1>1, <1>2
  <1>5. ts > 0 => n[top + 1] = m[top + 1] /\ n[top + ts] = m[top + ts]
    BY <1>1, <1>2
  <1> QED
    BY <1>1, <1>3, <1>4, <1>5 DEF Behind

(* A hole is filled with a segment that ends with r. The flag of the chunk *)
(* behind it is set to r, if it was not.                                   *)
Refills(m, n, lo, hi, q, r, top, E, F) ==
    /\ lo < hi
    /\ \A w \in Words : w \notin lo + 1 .. hi + 1 => n[w] = m[w]
    /\ \/ r = q /\ n[hi + 1] = m[hi + 1]
       \/ hi < top /\ (r = TRUE \/ m[hi + 1].cinuse = TRUE) /\ n[hi + 1] = Flagged(m[hi + 1], r)
    /\ \A w \in E : w \in F \/ w \in lo + 1 .. hi

LEMMA Refill ==
    ASSUME NEW m, NEW n, NEW lo, NEW p, NEW hi, NEW q, NEW r, NEW top, NEW ts, NEW E, NEW F,
           Hole(m, lo, p, hi, q, top, ts, E), Seg(n, lo, p, hi, r, F),
           Refills(m, n, lo, hi, q, r, top, E, F)
    PROVE  Layout(n, top, ts, F) /\ SameOutside(m, n, lo, hi, top)
  <1>0. /\ lo < hi
        /\ \A w \in Words : w \notin lo + 1 .. hi + 1 => n[w] = m[w]
        /\ \/ r = q /\ n[hi + 1] = m[hi + 1]
           \/ hi < top /\ (r = TRUE \/ m[hi + 1].cinuse = TRUE) /\ n[hi + 1] = Flagged(m[hi + 1], r)
        /\ \A w \in E : w \in F \/ w \in lo + 1 .. hi
    BY DEF Refills
  <1>1. /\ lo \in Nat /\ hi \in Nat /\ top \in Nat /\ hi <= top /\ ts \in Nat /\ top + ts + 2 <= HEAP_LIMIT
        /\ HEAP_LIMIT \in Nat /\ r \in BOOLEAN /\ hi % 2 = 0 /\ lo % 2 = 0
    BY KMallocAssumption DEF Hole, Seg, Behind
  <1>2. Seg(n, 0, TRUE, lo, p, F)
    <2>1. \A w \in 0 + 1 .. lo : n[w] = m[w] /\ (w \in E => w \in F)
      BY <1>0, <1>1 DEF Words
    <2> QED
      BY <2>1, SegFrame DEF Hole
  <1>3. \A w \in hi + 2 .. HEAP_LIMIT - 1 : n[w] = m[w]
    BY <1>0, <1>1 DEF Words
  <1>4. /\ Seg(n, hi, r, top, TRUE, F)
        /\ hi < top => /\ IsChunk(m, hi) /\ IsChunk(n, hi)
                       /\ n[hi + 1].size = m[hi + 1].size /\ n[hi + 1].cinuse = m[hi + 1].cinuse
    <2>1. \A w \in hi + 1 .. top : w \in E => w \in F
      BY <1>0, <1>1
    <2>2. hi < top => IsChunk(m, hi)
      BY DEF Hole, Seg
    <2>3. CASE r = q /\ n[hi + 1] = m[hi + 1]
      <3>1. \A w \in hi + 1 .. top : n[w] = m[w]
        BY <1>1, <1>3, <2>3
      <3>2. Seg(n, hi, r, top, TRUE, F)
        BY <3>1, <2>1, <2>3, SegFrame DEF Hole
      <3> QED
        BY <3>2, <2>2, <2>3 DEF IsChunk
    <2>4. CASE hi < top /\ (r = TRUE \/ m[hi + 1].cinuse = TRUE) /\ n[hi + 1] = Flagged(m[hi + 1], r)
      <3>1. \A w \in hi + 2 .. top : n[w] = m[w]
        BY <1>0, <1>1, <1>3
      <3>2. PICK t : t = TRUE
        OBVIOUS
      <3>3. Seg(m, hi, q, top, t, E)
        BY <3>2 DEF Hole
      <3>4. r \in BOOLEAN
        BY <1>1
      <3>5. /\ Seg(n, hi, r, top, t, E)
            /\ IsChunk(n, hi)
            /\ n[hi + 1].size = m[hi + 1].size /\ n[hi + 1].cinuse = m[hi + 1].cinuse
        <4>1. FirstFlagged(m, n, hi, top, r)
          BY <3>1, <3>4, <2>4 DEF FirstFlagged
        <4> QED
          BY <4>1, <3>3, SegFlag
      <3>6. Seg(n, hi, r, top, t, F)
        BY <3>5, <2>1, SegFrame
      <3> QED
        BY <3>2, <3>5, <3>6, <2>2, <2>4
    <2> QED
      BY <1>0, <2>3, <2>4
  <1>5. Seg(n, 0, TRUE, top, TRUE, F)
    BY <1>2, <1>4, SegJoin
  <1>6. Behind(n, top, ts)
    <2>1. hi = top => n[hi + 1] = m[hi + 1]
      BY <1>0, <1>1
    <2>2. \A w \in Words : w > top => n[w] = m[w]
      BY <2>1, <1>1, <1>3 DEF Words
    <2> QED
      BY <2>2, BehindFrame DEF Hole
  <1>7. ASSUME NEW b \in 0 .. top - 1, b \notin lo .. hi - 1
        PROVE  /\ IsChunk(n, b) <=> IsChunk(m, b)
               /\ IsChunk(m, b) => n[b + 1].size = m[b + 1].size /\ n[b + 1].cinuse = m[b + 1].cinuse
    <2>1. CASE b = hi
      BY <2>1, <1>1, <1>4
    <2>2. CASE b # hi /\ b % 2 = 0
      <3>1. b + 1 \in Words /\ b + 1 \notin lo + 1 .. hi + 1
        BY <2>2, <1>1, <1>7 DEF Words
      <3>2. n[b + 1] = m[b + 1]
        BY <1>0, <3>1
      <3> QED
        BY <3>2 DEF IsChunk
    <2>3. CASE b % 2 # 0
      BY <2>3 DEF IsChunk
    <2> QED
      BY <2>1, <2>2, <2>3
  <1> QED
    BY <1>5, <1>6, <1>7 DEF Layout, SameOutside

---------------------------------------------------------------------------
(* The fields of the state.                                                *)
CELL == HEADER \cup [foot : Nat] \cup {NULL, DATA}

State == [mem : [Words -> CELL], heap_start : Nat \cup {NULL},
          heap_size : Nat, initial_heap_size : Nat,
          sbinmap : SUBSET Nat, tbinmap : SUBSET Nat,
          sbin : [0 .. NSBINS - 1 -> Seq(Nat)], tbin : [0 .. NTBINS - 1 -> SUBSET Nat],
          dVictim : Nat \cup {NULL}, dVictimSize : Nat,
          topChunk : Nat \cup {NULL}, topChunkSize : Nat, aborted : BOOLEAN]

SameHeap(k, r) ==
    /\ r.heap_start = k.heap_start /\ r.heap_size = k.heap_size
    /\ r.initial_heap_size = k.initial_heap_size /\ r.aborted = k.aborted
SameBins(k, r) ==
    /\ r.sbinmap = k.sbinmap /\ r.tbinmap = k.tbinmap
    /\ r.sbin = k.sbin /\ r.tbin = k.tbin
SameVictim(k, r) == r.dVictim = k.dVictim /\ r.dVictimSize = k.dVictimSize
SameTop(k, r) == r.topChunk = k.topChunk /\ r.topChunkSize = k.topChunkSize

(* What a step that writes to the memory leaves alone.                     *)
OnlyMem(k, r) == SameHeap(k, r) /\ SameBins(k, r) /\ SameVictim(k, r) /\ SameTop(k, r)

LEMMA OnlyMemTrans ==
    ASSUME NEW k, NEW r, NEW t, OnlyMem(k, r), OnlyMem(r, t)
    PROVE  OnlyMem(k, t)
  BY DEF OnlyMem, SameHeap, SameBins, SameVictim, SameTop

LEMMA MemChange ==
    ASSUME NEW k \in State, NEW n \in [Words -> CELL], NEW r, r = [k EXCEPT !.mem = n]
    PROVE  r \in State /\ r.mem = n /\ OnlyMem(k, r)
  BY DEF State, OnlyMem, SameHeap, SameBins, SameVictim, SameTop

LEMMA SetVictimEffect ==
    ASSUME NEW k \in State, NEW a \in Nat \cup {NULL}, NEW s \in Nat, NEW r, r = SetVictim(k, a, s)
    PROVE  /\ r \in State /\ r.mem = k.mem /\ r.dVictim = a /\ r.dVictimSize = s
           /\ SameHeap(k, r) /\ SameBins(k, r) /\ SameTop(k, r)
  BY DEF State, SetVictim, SameHeap, SameBins, SameTop

VictimSet(k, r, a, s) ==
    /\ r \in State /\ r.mem = k.mem /\ r.dVictim = a /\ r.dVictimSize = s
    /\ SameHeap(k, r) /\ SameBins(k, r) /\ SameTop(k, r)

LEMMA SetVictimDone ==
    ASSUME NEW k \in State, NEW a \in Nat \cup {NULL}, NEW s \in Nat, NEW r, r = SetVictim(k, a, s)
    PROVE  VictimSet(k, r, a, s)
  BY SetVictimEffect DEF VictimSet

OnlyTop(k, r, a, s) ==
    /\ r.mem = k.mem /\ r.topChunk = a /\ r.topChunkSize = s
    /\ SameHeap(k, r) /\ SameBins(k, r) /\ SameVictim(k, r)

LEMMA SetTopEffect ==
    ASSUME NEW k \in State, NEW a \in Nat, NEW s \in Nat, NEW r,
           r = SetTop(k, a, s)
    PROVE  r \in State /\ OnlyTop(k, r, a, s)
  BY DEF OnlyTop, SetTop, State, SameHeap, SameBins, SameVictim

LEMMA SetHeaderEffect ==
    ASSUME NEW k \in State, NEW a \in Nat, a + 1 \in Words,
           NEW s \in Nat, NEW p \in BOOLEAN, NEW c \in BOOLEAN, NEW r, r = SetHeader(k, a, s, p, c)
    PROVE  /\ r \in State /\ OnlyMem(k, r)
           /\ r.mem[a + 1] = [size |-> s, pinuse |-> p, cinuse |-> c]
           /\ \A w \in Words : w # a + 1 => r.mem[w] = k.mem[w]
  <1>1. PICK h : h = [size |-> s, pinuse |-> p, cinuse |-> c]
    OBVIOUS
  <1>2. h \in CELL
    BY <1>1 DEF CELL, HEADER
  <1>3. k.mem \in [Words -> CELL]
    BY DEF State
  <1>4. PICK n : n = [k.mem EXCEPT ![a + 1] = h]
    OBVIOUS
  <1>5. n \in [Words -> CELL] /\ n[a + 1] = h /\ \A w \in Words : w # a + 1 => n[w] = k.mem[w]
    BY <1>2, <1>3, <1>4
  <1>6. r = [k EXCEPT !.mem = n]
    BY <1>1, <1>4 DEF SetHeader
  <1> QED
    BY <1>1, <1>5, <1>6, MemChange

HeaderSet(k, r, a, s, p, c) ==
    /\ r \in State /\ OnlyMem(k, r)
    /\ r.mem[a + 1] = [size |-> s, pinuse |-> p, cinuse |-> c]
    /\ \A w \in Words : w # a + 1 => r.mem[w] = k.mem[w]

LEMMA SetHeaderDone ==
    ASSUME NEW k \in State, NEW a \in Nat, a + 1 \in Words,
           NEW s \in Nat, NEW p \in BOOLEAN, NEW c \in BOOLEAN, NEW r, r = SetHeader(k, a, s, p, c)
    PROVE  HeaderSet(k, r, a, s, p, c)
  BY SetHeaderEffect DEF HeaderSet

LEMMA SetDummyEffect ==
    ASSUME NEW k \in State, NEW a \in Nat, a + 1 \in Words, NEW r, r = SetDummy(k, a)
    PROVE  /\ r \in State /\ OnlyMem(k, r)
           /\ r.mem[a + 1] = [size |-> 0, pinuse |-> FALSE, cinuse |-> FALSE]
           /\ \A w \in Words : w # a + 1 => r.mem[w] = k.mem[w]
  <1>1. PICK f : f = FALSE
    OBVIOUS
  <1>2. r = SetHeader(k, a, 0, f, f) /\ f \in BOOLEAN
    BY <1>1 DEF SetDummy
  <1>3. /\ r \in State /\ OnlyMem(k, r)
        /\ r.mem[a + 1] = [size |-> 0, pinuse |-> f, cinuse |-> f]
        /\ \A w \in Words : w # a + 1 => r.mem[w] = k.mem[w]
    BY <1>2, SetHeaderEffect
  <1> QED
    BY <1>1, <1>3

LEMMA SetFreeEffect ==
    ASSUME NEW k \in State, NEW a \in Nat, NEW s \in Nat, s >= 2, a + 1 \in Words, a + s \in Words,
           NEW r, r = SetFree(k, a, s)
    PROVE  /\ r \in State /\ OnlyMem(k, r)
           /\ r.mem[a + 1] = [size |-> s, pinuse |-> TRUE, cinuse |-> FALSE]
           /\ r.mem[a + s] = [foot |-> s]
           /\ \A w \in Words : w # a + 1 /\ w # a + s => r.mem[w] = k.mem[w]
  <1>1. PICK h : h = [size |-> s, pinuse |-> TRUE, cinuse |-> FALSE]
    OBVIOUS
  <1>2. PICK f : f = [foot |-> s]
    OBVIOUS
  <1>3. h \in CELL /\ f \in CELL /\ a + 1 # a + s
    BY <1>1, <1>2 DEF CELL, HEADER
  <1>4. k.mem \in [Words -> CELL]
    BY DEF State
  <1>5. PICK n : n = [k.mem EXCEPT ![a + 1] = h, ![a + s] = f]
    OBVIOUS
  <1>6. /\ n \in [Words -> CELL] /\ n[a + 1] = h /\ n[a + s] = f
        /\ \A w \in Words : w # a + 1 /\ w # a + s => n[w] = k.mem[w]
    BY <1>3, <1>4, <1>5
  <1>7. r = [k EXCEPT !.mem = n]
    BY <1>1, <1>2, <1>5 DEF SetFree
  <1> QED
    BY <1>1, <1>2, <1>6, <1>7, MemChange

FreeSet(k, r, a, s) ==
    /\ r \in State /\ OnlyMem(k, r)
    /\ r.mem[a + 1] = [size |-> s, pinuse |-> TRUE, cinuse |-> FALSE]
    /\ r.mem[a + s] = [foot |-> s]
    /\ \A w \in Words : w # a + 1 /\ w # a + s => r.mem[w] = k.mem[w]

LEMMA SetFreeDone ==
    ASSUME NEW k \in State, NEW a \in Nat, NEW s \in Nat, s >= 2, a + 1 \in Words, a + s \in Words,
           NEW r, r = SetFree(k, a, s)
    PROVE  FreeSet(k, r, a, s)
  BY SetFreeEffect DEF FreeSet

FlagSet(m, n, a, p) ==
    n[a + 1] = Flagged(m[a + 1], p) /\ \A w \in Words : w # a + 1 => n[w] = m[w]

LEMMA SetPinuseEffect ==
    ASSUME NEW k \in State, NEW a \in Nat, a + 1 \in Words, k.mem[a + 1] \in HEADER,
           NEW p \in BOOLEAN, NEW r, r = SetPinuse(k, a, p)
    PROVE  r \in State /\ OnlyMem(k, r) /\ FlagSet(k.mem, r.mem, a, p)
  <1>1. PICK h : h = k.mem[a + 1]
    OBVIOUS
  <1>2. r = SetHeader(k, a, h.size, p, h.cinuse) /\ h \in HEADER /\ h.size \in Nat /\ h.cinuse \in BOOLEAN
    BY <1>1 DEF SetPinuse, GETCHUNKSIZE, IS_INUSE, Header, HEADER
  <1>3. /\ r \in State /\ OnlyMem(k, r)
        /\ r.mem[a + 1] = [size |-> h.size, pinuse |-> p, cinuse |-> h.cinuse]
        /\ \A w \in Words : w # a + 1 => r.mem[w] = k.mem[w]
    BY <1>2, SetHeaderEffect
  <1>4. Flagged(h, p) = [size |-> h.size, pinuse |-> p, cinuse |-> h.cinuse]
    BY <1>2 DEF Flagged, HEADER
  <1> QED
    BY <1>1, <1>3, <1>4 DEF FlagSet

LEMMA ForgetEffect ==
    ASSUME NEW k \in State, NEW x \in Int, NEW y \in Int, NEW r, r = Forget(k, x, y)
    PROVE  /\ r \in State /\ OnlyMem(k, r)
           /\ \A w \in Words : r.mem[w] = IF x <= w /\ w <= y THEN NULL ELSE k.mem[w]
  <1>1. k.mem \in [Words -> CELL] /\ NULL \in CELL
    BY DEF State, CELL
  <1>2. PICK n : n = [w \in Words |-> IF x <= w /\ w <= y THEN NULL ELSE k.mem[w]]
    OBVIOUS
  <1>3. n \in [Words -> CELL] /\ \A w \in Words : n[w] = IF x <= w /\ w <= y THEN NULL ELSE k.mem[w]
    BY <1>1, <1>2
  <1>4. r = [k EXCEPT !.mem = n]
    BY <1>2 DEF Forget
  <1> QED
    BY <1>3, <1>4, MemChange

LEMMA FillEffect ==
    ASSUME NEW k \in State, NEW ptr \in Int, NEW i \in Int, NEW s \in Int,
           s = CHUNK_PAYLOAD_SIZE(k, PAYLOAD_CHUNK(ptr)), NEW r, r = Fill(k, ptr, i)
    PROVE  /\ r \in State /\ OnlyMem(k, r)
           /\ \A w \in Words : r.mem[w] = IF ptr + i <= w /\ w < ptr + s THEN DATA ELSE k.mem[w]
  <1>1. k.mem \in [Words -> CELL] /\ DATA \in CELL
    BY DEF State, CELL
  <1>2. PICK n : n = [w \in Words |-> IF ptr + i <= w /\ w < ptr + s THEN DATA ELSE k.mem[w]]
    OBVIOUS
  <1>3. n \in [Words -> CELL] /\ \A w \in Words : n[w] = IF ptr + i <= w /\ w < ptr + s THEN DATA ELSE k.mem[w]
    BY <1>1, <1>2
  <1>4. r = [k EXCEPT !.mem = n]
    BY <1>2 DEF Fill
  <1> QED
    BY <1>3, <1>4, MemChange

(* The copy of a block that holds data.                                    *)
LEMMA CopyEffect ==
    ASSUME NEW k \in State, NEW from \in Int, NEW to \in Int, NEW s \in Int,
           \A w \in from .. from + s - 1 : k.mem[w] = DATA, NEW r, r = Copy(k, from, to, s)
    PROVE  /\ r \in State /\ OnlyMem(k, r)
           /\ \A w \in Words : r.mem[w] = IF to <= w /\ w < to + s THEN DATA ELSE k.mem[w]
  <1>1. k.mem \in [Words -> CELL] /\ DATA \in CELL
    BY DEF State, CELL
  <1>2. PICK n : n = [w \in Words |-> IF to <= w /\ w < to + s THEN k.mem[w - to + from] ELSE k.mem[w]]
    OBVIOUS
  <1>3. ASSUME NEW w \in Words PROVE n[w] = IF to <= w /\ w < to + s THEN DATA ELSE k.mem[w]
    <2>1. CASE to <= w /\ w < to + s
      <3>1. w \in Int /\ w - to + from \in from .. from + s - 1
        BY <2>1, KMallocAssumption DEF Words
      <3> QED
        BY <3>1, <2>1, <1>2
    <2>2. CASE ~(to <= w /\ w < to + s)
      BY <2>2, <1>2
    <2> QED
      BY <2>1, <2>2
  <1>4. n \in [Words -> CELL]
    <2>1. \A w \in Words : n[w] \in CELL
      BY <1>1, <1>3
    <2> QED
      BY <2>1, <1>2
  <1>5. r = [k EXCEPT !.mem = n]
    BY <1>2 DEF Copy
  <1> QED
    BY <1>3, <1>4, <1>5, MemChange

---------------------------------------------------------------------------
(* The bins hold the chunks of X, once each, by their sizes in m.          *)
InBin(k, a, s) ==
    IF s < MIN_LARGE_SIZE THEN Contains(k.sbin[small_index(s)], a) ELSE a \in k.tbin[calc_tbin(s)]

SmallInv(k, X, m) ==
    \A i \in 0 .. NSBINS - 1 :
        /\ IsInjective(k.sbin[i])
        /\ \A a : Contains(k.sbin[i], a) => a \in X /\ m[a + 1].size = 2 * i

LargeInv(k, X, m) ==
    \A i \in 0 .. NTBINS - 1 : \A a \in k.tbin[i] :
        a \in X /\ m[a + 1].size >= MIN_LARGE_SIZE /\ calc_tbin(m[a + 1].size) = i

MapsInv(k) ==
    /\ k.sbinmap = {i \in 0 .. NSBINS - 1 : k.sbin[i] # <<>>}
    /\ k.tbinmap = {i \in 0 .. NTBINS - 1 : k.tbin[i] # {}}

(* The size of a chunk, as far as the bins are concerned.                  *)
SizeOK(s) == s \in Nat /\ s % 2 = 0 /\ s >= 4 /\ s < WORD

BinInv(k, X, m) ==
    /\ SmallInv(k, X, m) /\ LargeInv(k, X, m) /\ MapsInv(k)
    /\ \A a \in X : a \in Nat /\ SizeOK(m[a + 1].size) /\ InBin(k, a, m[a + 1].size)

LEMMA BinFrame ==
    ASSUME NEW k, NEW r, NEW X, NEW m, NEW n, BinInv(k, X, m), SameBins(k, r),
           \A a \in X : n[a + 1].size = m[a + 1].size
    PROVE  BinInv(r, X, n)
  <1>1. SmallInv(r, X, n)
    BY DEF BinInv, SmallInv, SameBins
  <1>2. LargeInv(r, X, n)
    BY DEF BinInv, LargeInv, SameBins
  <1>3. MapsInv(r)
    BY DEF BinInv, MapsInv, SameBins
  <1>4. \A a \in X : a \in Nat /\ SizeOK(n[a + 1].size) /\ InBin(r, a, n[a + 1].size)
    BY DEF BinInv, InBin, SameBins
  <1> QED
    BY <1>1, <1>2, <1>3, <1>4 DEF BinInv

LEMMA BinIndex ==
    ASSUME NEW s, SizeOK(s)
    PROVE  /\ s < MIN_LARGE_SIZE => small_index(s) \in 0 .. NSBINS - 1 /\ s = 2 * small_index(s)
           /\ calc_tbin(s) \in 0 .. NTBINS - 1
  <1>1. s \in 0 .. WORD - 1 /\ s \in Nat /\ s % 2 = 0
    BY KMallocAssumption DEF SizeOK
  <1>2. MIN_LARGE_SIZE \in Nat /\ MIN_LARGE_SIZE % 2 = 0 /\ calc_tbin(s) \in 0 .. NTBINS - 1
    BY <1>1, BinsAssumption DEF CHUNK_ALIGN_ON
  <1> HIDE DEF MIN_LARGE_SIZE
  <1>3. s < MIN_LARGE_SIZE => s \div 2 \in 0 .. (MIN_LARGE_SIZE \div 2) - 1 /\ s = 2 * (s \div 2)
    BY <1>1, <1>2
  <1> QED
    BY <1>2, <1>3 DEF small_index, NSBINS, CHUNK_ALIGN_ON

LEMMA PrependList ==
    ASSUME NEW S, NEW s \in Seq(S), NEW e \in S
    PROVE  /\ <<e>> \o s \in Seq(S)
           /\ \A x : Contains(<<e>> \o s, x) <=> Contains(s, x) \/ x = e
           /\ IsInjective(s) /\ ~Contains(s, e) => IsInjective(<<e>> \o s)
           /\ <<e>> \o s # <<>>
  <1> DEFINE t == <<e>> \o s
  <1>1. /\ t \in Seq(S) /\ Len(t) = Len(s) + 1 /\ Len(s) \in Nat
        /\ \A i \in 1 .. Len(s) + 1 : t[i] = IF i = 1 THEN e ELSE s[i - 1]
    OBVIOUS
  <1> HIDE DEF t
  <1>2. ASSUME NEW x PROVE Contains(t, x) <=> Contains(s, x) \/ x = e
    <2>1. ASSUME Contains(s, x) PROVE Contains(t, x)
      <3>1. PICK i \in 1 .. Len(s) : s[i] = x
        BY <2>1 DEF Contains
      <3>2. i + 1 \in 1 .. Len(t) /\ t[i + 1] = x
        BY <3>1, <1>1
      <3> QED
        BY <3>2 DEF Contains
    <2>2. ASSUME x = e PROVE Contains(t, x)
      BY <2>2, <1>1 DEF Contains
    <2>3. ASSUME Contains(t, x), x # e PROVE Contains(s, x)
      <3>1. PICK i \in 1 .. Len(t) : t[i] = x
        BY <2>3 DEF Contains
      <3>2. i - 1 \in 1 .. Len(s) /\ s[i - 1] = x
        BY <3>1, <2>3, <1>1
      <3> QED
        BY <3>2 DEF Contains
    <2> QED
      BY <2>1, <2>2, <2>3
  <1>3. ASSUME IsInjective(s), ~Contains(s, e) PROVE IsInjective(t)
    <2>1. SUFFICES ASSUME NEW i \in 1 .. Len(t), NEW j \in 1 .. Len(t), t[i] = t[j] PROVE i = j
      BY <1>1 DEF IsInjective
    <2>2. \A l \in 1 .. Len(s) : s[l] # e
      BY <1>3 DEF Contains
    <2>3. CASE i = 1 \/ j = 1
      BY <2>1, <2>2, <2>3, <1>1
    <2>4. CASE i # 1 /\ j # 1
      <3>1. i - 1 \in 1 .. Len(s) /\ j - 1 \in 1 .. Len(s) /\ s[i - 1] = s[j - 1]
        BY <2>1, <2>4, <1>1
      <3>2. i - 1 = j - 1
        BY <3>1, <1>3 DEF IsInjective
      <3> QED
        BY <3>2, <1>1
    <2> QED
      BY <2>3, <2>4
  <1>4. t # <<>>
    BY <1>1
  <1> QED
    BY <1>1, <1>2, <1>3, <1>4 DEF t

LEMMA SetSmallEffect ==
    ASSUME NEW k \in State, NEW i \in 0 .. NSBINS - 1, NEW list \in Seq(Nat),
           NEW r, r = SetSmall(k, i, list)
    PROVE  /\ r \in State /\ r.mem = k.mem /\ SameHeap(k, r) /\ SameVictim(k, r) /\ SameTop(k, r)
           /\ r.tbin = k.tbin /\ r.tbinmap = k.tbinmap
           /\ r.sbin[i] = list /\ \A j \in 0 .. NSBINS - 1 : j # i => r.sbin[j] = k.sbin[j]
           /\ MapsInv(k) => MapsInv(r)
  <1>1. /\ k.sbin \in [0 .. NSBINS - 1 -> Seq(Nat)] /\ k.sbinmap \in SUBSET Nat
        /\ i \in Nat
    BY DEF State
  <1>2. PICK sb : sb = [k.sbin EXCEPT ![i] = list]
    OBVIOUS
  <1>3. /\ sb \in [0 .. NSBINS - 1 -> Seq(Nat)] /\ sb[i] = list
        /\ \A j \in 0 .. NSBINS - 1 : j # i => sb[j] = k.sbin[j]
    BY <1>1, <1>2
  <1>4. PICK sm : sm = IF list = <<>> THEN k.sbinmap \ {i} ELSE k.sbinmap \cup {i}
    OBVIOUS
  <1>5. sm \in SUBSET Nat
    BY <1>1, <1>4
  <1>6. r = [k EXCEPT !.sbin = sb, !.sbinmap = sm]
    BY <1>2, <1>4 DEF SetSmall
  <1>7. /\ r \in State /\ r.mem = k.mem /\ SameHeap(k, r) /\ SameVictim(k, r) /\ SameTop(k, r)
        /\ r.tbin = k.tbin /\ r.tbinmap = k.tbinmap /\ r.sbin = sb /\ r.sbinmap = sm
    BY <1>3, <1>5, <1>6 DEF State, SameHeap, SameVictim, SameTop
  <1>8. MapsInv(k) => MapsInv(r)
    BY <1>3, <1>4, <1>7 DEF MapsInv
  <1> QED
    BY <1>3, <1>7, <1>8

LEMMA SetLargeEffect ==
    ASSUME NEW k \in State, NEW i \in 0 .. NTBINS - 1, NEW tree \in SUBSET Nat,
           NEW r, r = SetLarge(k, i, tree)
    PROVE  /\ r \in State /\ r.mem = k.mem /\ SameHeap(k, r) /\ SameVictim(k, r) /\ SameTop(k, r)
           /\ r.sbin = k.sbin /\ r.sbinmap = k.sbinmap
           /\ r.tbin[i] = tree /\ \A j \in 0 .. NTBINS - 1 : j # i => r.tbin[j] = k.tbin[j]
           /\ MapsInv(k) => MapsInv(r)
  <1>1. /\ k.tbin \in [0 .. NTBINS - 1 -> SUBSET Nat] /\ k.tbinmap \in SUBSET Nat
        /\ i \in Nat
    BY DEF State
  <1>2. PICK tb : tb = [k.tbin EXCEPT ![i] = tree]
    OBVIOUS
  <1>3. /\ tb \in [0 .. NTBINS - 1 -> SUBSET Nat] /\ tb[i] = tree
        /\ \A j \in 0 .. NTBINS - 1 : j # i => tb[j] = k.tbin[j]
    BY <1>1, <1>2
  <1>4. PICK tm : tm = IF tree = {} THEN k.tbinmap \ {i} ELSE k.tbinmap \cup {i}
    OBVIOUS
  <1>5. tm \in SUBSET Nat
    BY <1>1, <1>4
  <1>6. r = [k EXCEPT !.tbin = tb, !.tbinmap = tm]
    BY <1>2, <1>4 DEF SetLarge
  <1>7. /\ r \in State /\ r.mem = k.mem /\ SameHeap(k, r) /\ SameVictim(k, r) /\ SameTop(k, r)
        /\ r.sbin = k.sbin /\ r.sbinmap = k.sbinmap /\ r.tbin = tb /\ r.tbinmap = tm
    BY <1>3, <1>5, <1>6 DEF State, SameHeap, SameVictim, SameTop
  <1>8. MapsInv(k) => MapsInv(r)
    BY <1>3, <1>4, <1>7 DEF MapsInv
  <1> QED
    BY <1>3, <1>7, <1>8

(* What a step on the bins leaves alone.                                   *)
OnlyBins(k, r) == r.mem = k.mem /\ SameHeap(k, r) /\ SameVictim(k, r) /\ SameTop(k, r)

LEMMA SmallAdd ==
    ASSUME NEW k \in State, NEW X, NEW m, BinInv(k, X, m), NEW a \in Nat, a \notin X,
           SizeOK(m[a + 1].size), m[a + 1].size < MIN_LARGE_SIZE,
           NEW i, i = small_index(m[a + 1].size), NEW r, r = SetSmall(k, i, <<a>> \o k.sbin[i])
    PROVE  r \in State /\ OnlyBins(k, r) /\ BinInv(r, X \cup {a}, m)
  <1> DEFINE Y == X \cup {a}
  <1>1. SmallInv(k, X, m) /\ LargeInv(k, X, m) /\ MapsInv(k)
    BY DEF BinInv
  <1>2. i \in 0 .. NSBINS - 1 /\ m[a + 1].size = 2 * i
    BY BinIndex
  <1>3. PICK u : u = k.sbin[i]
    OBVIOUS
  <1>4. u \in Seq(Nat)
    BY <1>2, <1>3 DEF State
  <1>5. ~Contains(u, a) /\ IsInjective(u)
    BY <1>1, <1>2, <1>3 DEF SmallInv
  <1>6. PICK t : t = <<a>> \o u
    OBVIOUS
  <1>7. /\ t \in Seq(Nat) /\ IsInjective(t)
        /\ \A x : Contains(t, x) <=> Contains(u, x) \/ x = a
    BY <1>4, <1>5, <1>6, PrependList
  <1>8. r = SetSmall(k, i, t)
    BY <1>3, <1>6
  <1>9. /\ r \in State /\ OnlyBins(k, r) /\ r.tbin = k.tbin /\ MapsInv(r)
        /\ r.sbin[i] = t /\ \A j \in 0 .. NSBINS - 1 : j # i => r.sbin[j] = k.sbin[j]
    <2>1. /\ r \in State /\ r.mem = k.mem /\ SameHeap(k, r) /\ SameVictim(k, r) /\ SameTop(k, r)
          /\ r.tbin = k.tbin /\ r.tbinmap = k.tbinmap
          /\ r.sbin[i] = t /\ \A j \in 0 .. NSBINS - 1 : j # i => r.sbin[j] = k.sbin[j]
          /\ MapsInv(k) => MapsInv(r)
      BY ONLY k \in State, <1>2, <1>7, <1>8, SetSmallEffect
    <2> QED
      BY ONLY <1>1, <2>1 DEF OnlyBins
  <1>10. SmallInv(r, Y, m)
    <2>1. SUFFICES ASSUME NEW j \in 0 .. NSBINS - 1
                   PROVE  /\ IsInjective(r.sbin[j])
                          /\ \A b : Contains(r.sbin[j], b) => b \in Y /\ m[b + 1].size = 2 * j
      BY DEF SmallInv
    <2>2. CASE j = i
      BY <2>2, <1>1, <1>2, <1>3, <1>7, <1>9 DEF SmallInv
    <2>3. CASE j # i
      BY <2>3, <1>1, <1>9 DEF SmallInv
    <2> QED
      BY <2>2, <2>3
  <1>11. LargeInv(r, Y, m)
    BY <1>1, <1>9 DEF LargeInv
  <1>12. ASSUME NEW b \in Y PROVE b \in Nat /\ SizeOK(m[b + 1].size) /\ InBin(r, b, m[b + 1].size)
    <2>1. CASE b = a
      BY <2>1, <1>7, <1>9 DEF InBin
    <2>2. CASE b # a
      <3>1. b \in Nat /\ SizeOK(m[b + 1].size) /\ InBin(k, b, m[b + 1].size)
        BY <2>2 DEF BinInv
      <3>2. m[b + 1].size < MIN_LARGE_SIZE => small_index(m[b + 1].size) \in 0 .. NSBINS - 1
        BY <3>1, BinIndex
      <3> QED
        BY <3>1, <3>2, <1>3, <1>7, <1>9 DEF InBin
    <2> QED
      BY <2>1, <2>2
  <1> QED
    BY <1>9, <1>10, <1>11, <1>12 DEF BinInv

(* A chunk is taken out of its list.                                       *)
Unlisted(list, u, a) ==
    /\ list \in Seq(Nat) /\ IsInjective(list)
    /\ \A x : Contains(list, x) <=> Contains(u, x) /\ x # a

LEMMA SmallDrop ==
    ASSUME NEW k \in State, NEW X, NEW m, BinInv(k, X, m), NEW a \in X,
           m[a + 1].size < MIN_LARGE_SIZE, NEW i, i = small_index(m[a + 1].size),
           NEW t, Unlisted(t, k.sbin[i], a), NEW r, r = SetSmall(k, i, t)
    PROVE  r \in State /\ OnlyBins(k, r) /\ BinInv(r, X \ {a}, m)
  <1> DEFINE Y == X \ {a}
  <1>1. SmallInv(k, X, m) /\ LargeInv(k, X, m) /\ MapsInv(k) /\ SizeOK(m[a + 1].size)
    BY DEF BinInv
  <1>2. i \in 0 .. NSBINS - 1 /\ m[a + 1].size = 2 * i
    BY <1>1, BinIndex
  <1>3. /\ t \in Seq(Nat) /\ IsInjective(t)
        /\ \A x : Contains(t, x) <=> Contains(k.sbin[i], x) /\ x # a
    BY DEF Unlisted
  <1>4. /\ r \in State /\ OnlyBins(k, r) /\ r.tbin = k.tbin /\ MapsInv(r)
        /\ r.sbin[i] = t /\ \A j \in 0 .. NSBINS - 1 : j # i => r.sbin[j] = k.sbin[j]
    <2>1. /\ k \in State /\ i \in 0 .. NSBINS - 1 /\ t \in Seq(Nat) /\ r = SetSmall(k, i, t) /\ MapsInv(k)
      BY <1>1, <1>2, <1>3
    <2>2. /\ r \in State /\ r.mem = k.mem /\ SameHeap(k, r) /\ SameVictim(k, r) /\ SameTop(k, r)
          /\ r.tbin = k.tbin /\ r.sbin[i] = t /\ \A j \in 0 .. NSBINS - 1 : j # i => r.sbin[j] = k.sbin[j]
          /\ MapsInv(r)
      BY ONLY <2>1, SetSmallEffect
    <2> QED BY ONLY <2>2 DEF OnlyBins
  <1>5. SmallInv(r, Y, m)
    <2>1. SUFFICES ASSUME NEW j \in 0 .. NSBINS - 1
                   PROVE  /\ IsInjective(r.sbin[j])
                          /\ \A b : Contains(r.sbin[j], b) => b \in Y /\ m[b + 1].size = 2 * j
      BY DEF SmallInv
    <2>2. CASE j = i
      BY <2>2, <1>1, <1>2, <1>3, <1>4 DEF SmallInv
    <2>3. CASE j # i
      <3>1. /\ IsInjective(k.sbin[j])
            /\ \A b : Contains(k.sbin[j], b) => b \in X /\ m[b + 1].size = 2 * j
        BY <1>1 DEF SmallInv
      <3>2. ASSUME Contains(k.sbin[j], a) PROVE FALSE
        <4>1. m[a + 1].size = 2 * j
          BY <3>1, <3>2
        <4>2. i \in Int /\ j \in Int /\ 2 * i = 2 * j
          BY <4>1, <1>2
        <4> QED
          BY <4>2, <2>3
      <3> QED
        BY <2>3, <3>1, <3>2, <1>4
    <2> QED
      BY <2>2, <2>3
  <1>6. LargeInv(r, Y, m)
    <2>1. SUFFICES ASSUME NEW j \in 0 .. NTBINS - 1, NEW b \in k.tbin[j]
                   PROVE  b \in Y /\ m[b + 1].size >= MIN_LARGE_SIZE /\ calc_tbin(m[b + 1].size) = j
      BY <1>4 DEF LargeInv
    <2>2. b \in X /\ m[b + 1].size >= MIN_LARGE_SIZE /\ calc_tbin(m[b + 1].size) = j
      BY <1>1 DEF LargeInv
    <2>3. b # a
      BY <2>2, <1>1, BinsAssumption DEF SizeOK
    <2> QED
      BY <2>2, <2>3
  <1>7. ASSUME NEW b \in Y PROVE b \in Nat /\ SizeOK(m[b + 1].size) /\ InBin(r, b, m[b + 1].size)
    <2>1. b \in Nat /\ SizeOK(m[b + 1].size) /\ InBin(k, b, m[b + 1].size) /\ b # a
      BY DEF BinInv
    <2>2. m[b + 1].size < MIN_LARGE_SIZE => small_index(m[b + 1].size) \in 0 .. NSBINS - 1
      BY <2>1, BinIndex
    <2> QED
      BY <2>1, <2>2, <1>3, <1>4 DEF InBin
  <1> QED
    BY <1>4, <1>5, <1>6, <1>7 DEF BinInv

LEMMA LargeAdd ==
    ASSUME NEW k \in State, NEW X, NEW m, BinInv(k, X, m), NEW a \in Nat, a \notin X,
           SizeOK(m[a + 1].size), ~(m[a + 1].size < MIN_LARGE_SIZE),
           NEW i, i = calc_tbin(m[a + 1].size), NEW r, r = SetLarge(k, i, k.tbin[i] \cup {a})
    PROVE  r \in State /\ OnlyBins(k, r) /\ BinInv(r, X \cup {a}, m)
  <1> DEFINE Y == X \cup {a}
  <1>1. SmallInv(k, X, m) /\ LargeInv(k, X, m) /\ MapsInv(k)
    BY DEF BinInv
  <1>2. i \in 0 .. NTBINS - 1 /\ m[a + 1].size >= MIN_LARGE_SIZE
    BY BinIndex, BinsAssumption DEF SizeOK
  <1>3. PICK t : t = k.tbin[i] \cup {a}
    OBVIOUS
  <1>4. t \in SUBSET Nat
    BY <1>2, <1>3 DEF State
  <1>5. /\ r \in State /\ OnlyBins(k, r) /\ r.sbin = k.sbin /\ MapsInv(r)
        /\ r.tbin[i] = t /\ \A j \in 0 .. NTBINS - 1 : j # i => r.tbin[j] = k.tbin[j]
    BY <1>1, <1>2, <1>3, <1>4, SetLargeEffect DEF OnlyBins
  <1>6. SmallInv(r, Y, m)
    BY <1>1, <1>5 DEF SmallInv
  <1>7. LargeInv(r, Y, m)
    <2>1. SUFFICES ASSUME NEW j \in 0 .. NTBINS - 1, NEW b \in r.tbin[j]
                   PROVE  b \in Y /\ m[b + 1].size >= MIN_LARGE_SIZE /\ calc_tbin(m[b + 1].size) = j
      BY DEF LargeInv
    <2>2. CASE b \in k.tbin[j]
      BY <2>2, <1>1 DEF LargeInv
    <2>3. CASE b \notin k.tbin[j]
      <3>1. j = i /\ b = a
        BY <2>1, <2>3, <1>3, <1>5
      <3> QED
        BY <3>1, <1>2
    <2> QED
      BY <2>2, <2>3
  <1>8. ASSUME NEW b \in Y PROVE b \in Nat /\ SizeOK(m[b + 1].size) /\ InBin(r, b, m[b + 1].size)
    <2>1. CASE b = a
      BY <2>1, <1>3, <1>5 DEF InBin
    <2>2. CASE b # a
      <3>1. b \in Nat /\ SizeOK(m[b + 1].size) /\ InBin(k, b, m[b + 1].size)
        BY <2>2 DEF BinInv
      <3>2. calc_tbin(m[b + 1].size) \in 0 .. NTBINS - 1
        BY <3>1, BinIndex
      <3> QED
        BY <3>1, <3>2, <1>3, <1>5 DEF InBin
    <2> QED
      BY <2>1, <2>2
  <1> QED
    BY <1>5, <1>6, <1>7, <1>8 DEF BinInv

LEMMA LargeDrop ==
    ASSUME NEW k \in State, NEW X, NEW m, BinInv(k, X, m), NEW a \in X,
           ~(m[a + 1].size < MIN_LARGE_SIZE),
           NEW i, i = calc_tbin(m[a + 1].size), NEW r, r = SetLarge(k, i, k.tbin[i] \ {a})
    PROVE  r \in State /\ OnlyBins(k, r) /\ BinInv(r, X \ {a}, m)
  <1> DEFINE Y == X \ {a}
  <1>1. SmallInv(k, X, m) /\ LargeInv(k, X, m) /\ MapsInv(k) /\ SizeOK(m[a + 1].size)
    BY DEF BinInv
  <1>2. i \in 0 .. NTBINS - 1
    BY <1>1, BinIndex
  <1>3. PICK t : t = k.tbin[i] \ {a}
    OBVIOUS
  <1>4. t \in SUBSET Nat
    BY <1>2, <1>3 DEF State
  <1>5. /\ r \in State /\ OnlyBins(k, r) /\ r.sbin = k.sbin /\ MapsInv(r)
        /\ r.tbin[i] = t /\ \A j \in 0 .. NTBINS - 1 : j # i => r.tbin[j] = k.tbin[j]
    BY <1>1, <1>2, <1>3, <1>4, SetLargeEffect DEF OnlyBins
  <1>6. SmallInv(r, Y, m)
    <2>1. SUFFICES ASSUME NEW j \in 0 .. NSBINS - 1, ~Contains(k.sbin[j], a)
                   PROVE  /\ IsInjective(k.sbin[j])
                          /\ \A b : Contains(k.sbin[j], b) => b \in Y /\ m[b + 1].size = 2 * j
      <3>1. ASSUME NEW j \in 0 .. NSBINS - 1, Contains(k.sbin[j], a) PROVE FALSE
        <4>1. PICK s : s = m[a + 1].size
          OBVIOUS
        <4>2. s = 2 * j /\ s \in Nat /\ ~(s < MIN_LARGE_SIZE)
          BY <3>1, <4>1, <1>1 DEF SmallInv, SizeOK
        <4>3. MIN_LARGE_SIZE \in Nat /\ MIN_LARGE_SIZE % 2 = 0
          BY BinsAssumption DEF CHUNK_ALIGN_ON
        <4> HIDE DEF MIN_LARGE_SIZE
        <4>4. j <= (MIN_LARGE_SIZE \div 2) - 1
          BY <3>1 DEF NSBINS, CHUNK_ALIGN_ON
        <4> QED
          BY <4>2, <4>3, <4>4
      <3> QED
        BY <3>1, <1>5 DEF SmallInv
    <2> QED
      BY <2>1, <1>1 DEF SmallInv
  <1>7. LargeInv(r, Y, m)
    <2>1. SUFFICES ASSUME NEW j \in 0 .. NTBINS - 1, NEW b \in r.tbin[j]
                   PROVE  b \in Y /\ m[b + 1].size >= MIN_LARGE_SIZE /\ calc_tbin(m[b + 1].size) = j
      BY DEF LargeInv
    <2>2. b \in k.tbin[j] /\ (j = i => b # a)
      BY <2>1, <1>3, <1>5
    <2>3. b \in X /\ m[b + 1].size >= MIN_LARGE_SIZE /\ calc_tbin(m[b + 1].size) = j
      BY <2>2, <1>1 DEF LargeInv
    <2> QED
      BY <2>2, <2>3
  <1>8. ASSUME NEW b \in Y PROVE b \in Nat /\ SizeOK(m[b + 1].size) /\ InBin(r, b, m[b + 1].size)
    <2>1. b \in Nat /\ SizeOK(m[b + 1].size) /\ InBin(k, b, m[b + 1].size) /\ b # a
      BY DEF BinInv
    <2>2. calc_tbin(m[b + 1].size) \in 0 .. NTBINS - 1
      BY <2>1, BinIndex
    <2> QED
      BY <2>1, <2>2, <1>3, <1>5 DEF InBin
  <1> QED
    BY <1>5, <1>6, <1>7, <1>8 DEF BinInv

LEMMA BinAdd ==
    ASSUME NEW k \in State, NEW X, NEW m, BinInv(k, X, m), NEW a \in Nat, a \notin X,
           k.mem[a + 1] = m[a + 1], SizeOK(m[a + 1].size), NEW r, r = bin_chunk(k, a)
    PROVE  r \in State /\ OnlyBins(k, r) /\ BinInv(r, X \cup {a}, m)
  <1>1. PICK s : s = m[a + 1].size
    OBVIOUS
  <1>2. GETCHUNKSIZE(k, a) = s
    BY <1>1 DEF GETCHUNKSIZE, Header
  <1>3. CASE s < MIN_LARGE_SIZE
    <2>1. PICK i : i = small_index(s)
      OBVIOUS
    <2>2. r = SetSmall(k, i, <<a>> \o k.sbin[i])
      BY <1>2, <1>3, <2>1 DEF bin_chunk
    <2> QED
      BY <1>1, <1>3, <2>1, <2>2, SmallAdd
  <1>4. CASE ~(s < MIN_LARGE_SIZE)
    <2>1. PICK i : i = calc_tbin(s)
      OBVIOUS
    <2>2. r = SetLarge(k, i, k.tbin[i] \cup {a})
      BY <1>2, <1>4, <2>1 DEF bin_chunk
    <2> QED
      BY <1>1, <1>4, <2>1, <2>2, LargeAdd
  <1> QED
    BY <1>3, <1>4

LEMMA BinRemove ==
    ASSUME NEW k \in State, NEW X, NEW m, BinInv(k, X, m), NEW a \in X,
           k.mem[a + 1] = m[a + 1], NEW r, r = unbin_chunk(k, a)
    PROVE  r \in State /\ OnlyBins(k, r) /\ BinInv(r, X \ {a}, m)
  <1>1. PICK s : s = m[a + 1].size
    OBVIOUS
  <1>2. GETCHUNKSIZE(k, a) = s /\ SizeOK(s)
    BY <1>1 DEF GETCHUNKSIZE, Header, BinInv
  <1>3. CASE s < MIN_LARGE_SIZE
    <2>1. PICK i : i = small_index(s)
      OBVIOUS
    <2>2. PICK t : t = RemoveFirst(k.sbin[i], a)
      OBVIOUS
    <2>3. r = SetSmall(k, i, t)
      BY <1>2, <1>3, <2>1, <2>2 DEF unbin_chunk
    <2>4. i \in 0 .. NSBINS - 1
      BY <1>2, <1>3, <2>1, BinIndex
    <2>5. k.sbin[i] \in Seq(Nat) /\ IsInjective(k.sbin[i])
      BY <2>4 DEF State, BinInv, SmallInv
    <2>6. Unlisted(t, k.sbin[i], a)
      BY <2>2, <2>5, RemoveFirstList DEF Unlisted
    <2> QED
      BY <1>1, <1>3, <2>1, <2>3, <2>6, SmallDrop
  <1>4. CASE ~(s < MIN_LARGE_SIZE)
    <2>1. PICK i : i = calc_tbin(s)
      OBVIOUS
    <2>2. r = SetLarge(k, i, k.tbin[i] \ {a})
      BY <1>2, <1>4, <2>1 DEF unbin_chunk
    <2> QED
      BY <1>1, <1>4, <2>1, <2>2, LargeDrop
  <1> QED
    BY <1>3, <1>4

LEMMA TailUnlisted ==
    ASSUME NEW u \in Seq(Nat), u # <<>>, IsInjective(u)
    PROVE  Unlisted(Tail(u), u, Head(u)) /\ Contains(u, Head(u))
  <1>1. /\ Head(u) = u[1] /\ Len(u) \in Nat /\ Len(u) >= 1 /\ Tail(u) \in Seq(Nat)
        /\ Len(Tail(u)) = Len(u) - 1
        /\ \A i \in 1 .. Len(u) - 1 : Tail(u)[i] = u[i + 1]
    BY TailElements
  <1>2. \A i, j \in 1 .. Len(u) : u[i] = u[j] => i = j
    BY DEF IsInjective
  <1>3. IsInjective(Tail(u))
    <2>1. SUFFICES ASSUME NEW i \in 1 .. Len(Tail(u)), NEW j \in 1 .. Len(Tail(u)), Tail(u)[i] = Tail(u)[j]
                   PROVE  i = j
      <3>1. DOMAIN Tail(u) = 1 .. Len(Tail(u))
        BY ONLY <1>1
      <3> QED BY <3>1 DEF IsInjective
    <2>2. i \in 1 .. Len(u) - 1 /\ j \in 1 .. Len(u) - 1
      BY <1>1
    <2>a. u[i + 1] = u[j + 1] /\ i + 1 \in 1 .. Len(u) /\ j + 1 \in 1 .. Len(u)
      BY ONLY <2>1, <2>2, <1>1
    <2>3. i + 1 = j + 1
      BY <2>a, <1>2
    <2> QED
      BY ONLY <2>2, <2>3, <1>1
  <1>4. ASSUME NEW x PROVE Contains(Tail(u), x) <=> Contains(u, x) /\ x # Head(u)
    <2>1. ASSUME Contains(Tail(u), x) PROVE Contains(u, x) /\ x # Head(u)
      <3>1. PICK i \in 1 .. Len(Tail(u)) : Tail(u)[i] = x
        BY <2>1 DEF Contains
      <3>2. i + 1 \in 1 .. Len(u) /\ u[i + 1] = x /\ i + 1 # 1 /\ 1 \in 1 .. Len(u)
        BY <3>1, <1>1
      <3>3. x # u[1]
        BY <3>2, <1>2
      <3> QED
        BY <3>2, <3>3, <1>1 DEF Contains
    <2>2. ASSUME Contains(u, x), x # Head(u) PROVE Contains(Tail(u), x)
      <3>1. PICK i \in 1 .. Len(u) : u[i] = x
        BY <2>2 DEF Contains
      <3>2. i - 1 \in 1 .. Len(Tail(u)) /\ Tail(u)[i - 1] = x
        BY <3>1, <2>2, <1>1
      <3> QED
        BY <3>2 DEF Contains
    <2> QED
      BY <2>1, <2>2
  <1> QED
    BY <1>1, <1>3, <1>4 DEF Unlisted, Contains

FirstSmall(k, i) == Head(k.sbin[i])

LEMMA BinPop ==
    ASSUME NEW k \in State, NEW X, NEW m, BinInv(k, X, m), NEW i \in k.sbinmap,
           NEW a, a = FirstSmall(k, i), NEW r, r = PopSmall(k, i)
    PROVE  /\ a \in X /\ m[a + 1].size = 2 * i /\ i \in Nat
           /\ r \in State /\ OnlyBins(k, r) /\ BinInv(r, X \ {a}, m)
  <1>1. SmallInv(k, X, m) /\ MapsInv(k)
    BY DEF BinInv
  <1>2. i \in 0 .. NSBINS - 1 /\ k.sbin[i] # <<>> /\ i \in Nat
    BY <1>1 DEF MapsInv
  <1>3. PICK u : u = k.sbin[i]
    OBVIOUS
  <1>4. u \in Seq(Nat) /\ u # <<>> /\ IsInjective(u) /\ a = Head(u)
    BY <1>1, <1>2, <1>3 DEF State, SmallInv, FirstSmall
  <1>5. Unlisted(Tail(u), u, a) /\ Contains(u, a)
    BY <1>4, TailUnlisted
  <1>6. a \in X /\ m[a + 1].size = 2 * i
    BY <1>1, <1>2, <1>3, <1>5 DEF SmallInv
  <1>7. PICK s : s = m[a + 1].size
    OBVIOUS
  <1>8. SizeOK(s) /\ s = 2 * i
    BY <1>6, <1>7 DEF BinInv
  <1>9. s < MIN_LARGE_SIZE /\ small_index(s) = i
    <2>1. MIN_LARGE_SIZE \in Nat /\ MIN_LARGE_SIZE % 2 = 0
      BY BinsAssumption DEF CHUNK_ALIGN_ON
    <2> HIDE DEF MIN_LARGE_SIZE
    <2>2. i <= (MIN_LARGE_SIZE \div 2) - 1 /\ i \in Nat
      BY <1>2 DEF NSBINS, CHUNK_ALIGN_ON
    <2> QED
      BY <2>1, <2>2, <1>8 DEF small_index, CHUNK_ALIGN_ON
  <1>10. PICK t : t = Tail(u)
    OBVIOUS
  <1>11. r = SetSmall(k, i, t) /\ Unlisted(t, k.sbin[i], a)
    BY <1>3, <1>5, <1>10 DEF PopSmall
  <1> QED
    BY <1>2, <1>6, <1>7, <1>9, <1>11, SmallDrop

---------------------------------------------------------------------------
(* The free chunks and the blocks below the top chunk.                     *)
FreeIn(m, top) == {a \in 0 .. top - 1 : IsChunk(m, a) /\ ~m[a + 1].cinuse}
UsedIn(m, top) == {a \in 0 .. top - 1 : IsChunk(m, a) /\ m[a + 1].cinuse}

IsFree(m, a, z, top, ts, E) ==
    /\ a \in Nat /\ SizeOK(z) /\ a + z < top /\ a + z \in Nat
    /\ m[a + 1] = [size |-> z, pinuse |-> TRUE, cinuse |-> FALSE]
    /\ m[a + z + 1] \in HEADER /\ m[a + z + 1].cinuse = TRUE /\ IsChunk(m, a + z)
    /\ Hole(m, a, TRUE, a + z, FALSE, top, ts, E)
    /\ \A b \in a + 1 .. a + z - 1 : ~IsChunk(m, b)
    /\ a + z \in UsedIn(m, top)

LEMMA FreeFacts ==
    ASSUME NEW m, NEW top, NEW ts, NEW E, Layout(m, top, ts, E), NEW a \in FreeIn(m, top),
           NEW z, z = m[a + 1].size
    PROVE  IsFree(m, a, z, top, ts, E)
  <1>1. Seg(m, 0, TRUE, top, TRUE, E) /\ Behind(m, top, ts) /\ top \in Nat
    BY DEF Layout, Behind
  <1>2. a \in 0 .. top - 1 /\ IsChunk(m, a) /\ ~m[a + 1].cinuse
    BY DEF FreeIn
  <1>3. PICK h : h = m[a + 1]
    OBVIOUS
  <1>4. PICK t : t = TRUE
    OBVIOUS
  <1>5. /\ Seg(m, 0, t, a, h.pinuse, E) /\ Seg(m, a, h.pinuse, a + h.size, h.cinuse, E)
        /\ Seg(m, a + h.size, h.cinuse, top, t, E) /\ h \in HEADER /\ a \in Nat
    <2>1. Seg(m, 0, t, top, t, E)
      BY <1>1, <1>4
    <2> QED
      BY <2>1, <1>2, <1>3, SegChunk
  <1>6. ChunkOK(m, a, top, TRUE, E)
    BY <1>1, <1>2 DEF Seg
  <1>7. h = [size |-> z, pinuse |-> TRUE, cinuse |-> FALSE] /\ z \in Nat /\ z >= 4 /\ z % 2 = 0 /\ a + z <= top
    BY <1>2, <1>3, <1>6 DEF ChunkOK, HEADER
  <1>8. \A b \in a + 1 .. a + z - 1 : ~IsChunk(m, b)
    BY <1>6 DEF ChunkOK
  <1>9. Seg(m, a + z, FALSE, top, TRUE, E)
    BY <1>4, <1>5, <1>7
  <1>10. a + z < top
    BY <1>7, <1>9, <1>1 DEF Seg
  <1>11. SizeOK(z) /\ a + z \in Nat /\ a + z \in 0 .. top - 1
    BY <1>7, <1>10, <1>1, <1>5, KMallocAssumption DEF SizeOK, Behind
  <1>12. IsChunk(m, a + z) /\ m[a + z + 1].pinuse = FALSE
    BY <1>9, <1>10 DEF Seg
  <1>13. ChunkOK(m, a + z, top, TRUE, E)
    BY <1>1, <1>11, <1>12 DEF Seg
  <1>14. m[a + z + 1] \in HEADER /\ m[a + z + 1].cinuse = TRUE
    BY <1>12, <1>13 DEF ChunkOK, HEADER
  <1>15. Hole(m, a, TRUE, a + z, FALSE, top, ts, E)
    BY <1>1, <1>4, <1>5, <1>7, <1>9 DEF Hole
  <1>16. a + z \in UsedIn(m, top)
    BY <1>11, <1>12, <1>14 DEF UsedIn
  <1> QED
    BY <1>3, <1>5, <1>7, <1>8, <1>10, <1>11, <1>12, <1>14, <1>15, <1>16 DEF IsFree

IsUsed(m, a, h, top, ts, E) ==
    /\ a \in Nat /\ SizeOK(h.size) /\ a + h.size <= top /\ h \in HEADER /\ h.cinuse = TRUE
    /\ Seg(m, a, h.pinuse, a + h.size, TRUE, E)
    /\ Hole(m, a, h.pinuse, a + h.size, TRUE, top, ts, E)
    /\ \A b \in a + 1 .. a + h.size - 1 : ~IsChunk(m, b)
    /\ \A w \in a + 2 .. a + h.size : w \in E \/ m[w] = DATA

LEMMA UsedFacts ==
    ASSUME NEW m, NEW top, NEW ts, NEW E, Layout(m, top, ts, E), NEW a \in UsedIn(m, top),
           NEW h, h = m[a + 1]
    PROVE  IsUsed(m, a, h, top, ts, E)
  <1>1. Seg(m, 0, TRUE, top, TRUE, E) /\ Behind(m, top, ts) /\ top \in Nat
    BY DEF Layout, Behind
  <1>2. a \in 0 .. top - 1 /\ IsChunk(m, a) /\ m[a + 1].cinuse
    BY DEF UsedIn
  <1>3. PICK t : t = TRUE
    OBVIOUS
  <1>4. /\ Seg(m, 0, t, a, h.pinuse, E) /\ Seg(m, a, h.pinuse, a + h.size, h.cinuse, E)
        /\ Seg(m, a + h.size, h.cinuse, top, t, E) /\ h \in HEADER /\ a \in Nat
    <2>1. Seg(m, 0, t, top, t, E)
      BY <1>1, <1>3
    <2> QED
      BY <2>1, <1>2, SegChunk
  <1>5. ChunkOK(m, a, top, TRUE, E)
    BY <1>1, <1>2 DEF Seg
  <1>6. h.cinuse = TRUE /\ h.size \in Nat /\ h.size >= 4 /\ h.size % 2 = 0 /\ a + h.size <= top
    BY <1>2, <1>5 DEF ChunkOK, HEADER
  <1>7. \A b \in a + 1 .. a + h.size - 1 : ~IsChunk(m, b)
    BY <1>5 DEF ChunkOK
  <1>8. \A w \in a + 2 .. a + h.size : w \in E \/ m[w] = DATA
    BY <1>5, <1>6 DEF ChunkOK
  <1>9. SizeOK(h.size)
    BY <1>6, <1>1, <1>4, KMallocAssumption DEF SizeOK, Behind
  <1>10. Seg(m, a, h.pinuse, a + h.size, TRUE, E) /\ Hole(m, a, h.pinuse, a + h.size, TRUE, top, ts, E)
    BY <1>1, <1>3, <1>4, <1>6 DEF Hole
  <1> QED
    BY <1>4, <1>6, <1>7, <1>8, <1>9, <1>10 DEF IsUsed

SameSets(m, n, top, W) ==
    /\ FreeIn(n, top) \ W = FreeIn(m, top) \ W
    /\ UsedIn(n, top) \ W = UsedIn(m, top) \ W
    /\ \A b \in (FreeIn(m, top) \cup UsedIn(m, top)) \ W : n[b + 1].size = m[b + 1].size

LEMMA SetsOutside ==
    ASSUME NEW m, NEW n, NEW lo, NEW hi, NEW top, SameOutside(m, n, lo, hi, top),
           NEW W, W = lo .. hi - 1
    PROVE  SameSets(m, n, top, W)
  BY DEF SameOutside, FreeIn, UsedIn, SameSets

(* The sizes of the chunks of S are the same in m and n.                   *)
SizesKept(m, n, S) == \A b \in S : n[b + 1].size = m[b + 1].size

(* A step of an allocation on the memory: the free chunk a becomes a block *)
(* of s words, and the free chunks are those of X.                         *)
Takes(m, n, top, ts, a, s, X) ==
    /\ Layout(n, top, ts, a + 2 .. a + s)
    /\ n[a + 1].size = s
    /\ FreeIn(n, top) = X
    /\ UsedIn(n, top) = UsedIn(m, top) \cup {a} /\ a \notin UsedIn(m, top)
    /\ SizesKept(m, n, (FreeIn(m, top) \ {a}) \cup UsedIn(m, top))

LEMMA TakeAllEffect ==
    ASSUME NEW k \in State, NEW top, NEW ts, Layout(k.mem, top, ts, {}), NEW a \in FreeIn(k.mem, top),
           NEW z, z = k.mem[a + 1].size, NEW r, r = TakeAll(k, a)
    PROVE  /\ r \in State /\ OnlyMem(k, r)
           /\ Takes(k.mem, r.mem, top, ts, a, z, FreeIn(k.mem, top) \ {a})
  <1>1. PICK m : m = k.mem
    OBVIOUS
  <1>2. /\ a \in Nat /\ SizeOK(z) /\ a + z < top /\ a + z \in Nat
        /\ m[a + 1] = [size |-> z, pinuse |-> TRUE, cinuse |-> FALSE]
        /\ m[a + z + 1] \in HEADER /\ m[a + z + 1].cinuse = TRUE /\ IsChunk(m, a + z)
        /\ Hole(m, a, TRUE, a + z, FALSE, top, ts, {})
        /\ \A b \in a + 1 .. a + z - 1 : ~IsChunk(m, b)
        /\ a + z \in UsedIn(m, top)
    <2>1. Layout(m, top, ts, {}) /\ a \in FreeIn(m, top) /\ z = m[a + 1].size
      BY <1>1
    <2>2. IsFree(m, a, z, top, ts, {})
      BY <2>1, FreeFacts
    <2> QED
      BY <2>2 DEF IsFree
  <1>3. z \in Nat /\ z >= 4 /\ z % 2 = 0 /\ a % 2 = 0
    BY <1>1, <1>2 DEF SizeOK, FreeIn, IsChunk
  <1>4. top \in Nat /\ ts \in Nat /\ top + ts + 2 <= HEAP_LIMIT /\ HEAP_LIMIT \in Nat
    BY KMallocAssumption DEF Layout, Behind
  <1>5. a + 1 \in Words /\ a + z + 1 \in Words
    BY <1>2, <1>3, <1>4 DEF Words
  <1>6. PICK t : t = TRUE
    OBVIOUS
  <1>7. PICK k1 : k1 = SetHeader(k, a, z, t, t)
    OBVIOUS
  <1>8. /\ k1 \in State /\ OnlyMem(k, k1)
        /\ k1.mem[a + 1] = [size |-> z, pinuse |-> t, cinuse |-> t]
        /\ \A w \in Words : w # a + 1 => k1.mem[w] = k.mem[w]
    <2>1. k \in State /\ a \in Nat /\ a + 1 \in Words /\ z \in Nat /\ t \in BOOLEAN
      BY <1>2, <1>3, <1>5, <1>6
    <2>2. HeaderSet(k, k1, a, z, t, t)
      BY ONLY <2>1, <1>7, SetHeaderDone
    <2> QED
      BY ONLY <2>2 DEF HeaderSet
  <1>9. r = SetPinuse(k1, a + z, t)
    BY <1>1, <1>2, <1>6, <1>7 DEF TakeAll, GETCHUNKSIZE, Header, PREV_INUSE, NEXTCHUNK
  <1>10. k1.mem[a + z + 1] = m[a + z + 1]
    <2>1. a + z + 1 # a + 1
      BY <1>2, <1>3
    <2> QED
      BY ONLY <1>1, <1>5, <1>8, <2>1
  <1>11. PICK n : n = r.mem
    OBVIOUS
  <1>12. /\ r \in State /\ OnlyMem(k1, r)
         /\ n[a + z + 1] = Flagged(m[a + z + 1], t)
         /\ \A w \in Words : w # a + z + 1 => n[w] = k1.mem[w]
    <2>1. k1 \in State /\ a + z \in Nat /\ k1.mem[a + z + 1] \in HEADER /\ t \in BOOLEAN
      BY <1>2, <1>6, <1>8, <1>10
    <2>2. r \in State /\ OnlyMem(k1, r) /\ FlagSet(k1.mem, r.mem, a + z, t)
      BY <2>1, <1>5, <1>9, SetPinuseEffect
    <2> QED
      BY <2>2, <1>10, <1>11 DEF FlagSet
  <1>13. n[a + 1] = [size |-> z, pinuse |-> TRUE, cinuse |-> TRUE]
    <2>1. a + 1 # a + z + 1
      BY <1>2, <1>3
    <2> QED
      BY ONLY <1>5, <1>6, <1>8, <1>12, <2>1
  <1>14. \A w \in Words : w # a + 1 /\ w # a + z + 1 => n[w] = m[w]
    BY <1>1, <1>8, <1>12
  <1>15. \A b \in a + 1 .. a + z - 1 : ~IsChunk(n, b)
    <2>1. SUFFICES ASSUME NEW b \in a + 1 .. a + z - 1, b % 2 = 0 PROVE ~IsChunk(n, b)
      BY DEF IsChunk
    <2>2. b + 1 \in Words /\ b + 1 # a + 1 /\ b + 1 # a + z + 1
      BY <1>2, <1>3, <1>4 DEF Words
    <2> QED
      BY <2>2, <1>2, <1>14 DEF IsChunk
  <1> DEFINE F == a + 2 .. a + z
  <1>16. Seg(n, a, t, a + z, t, F)
    <2>1. n[a + 1] = [size |-> z, pinuse |-> t, cinuse |-> t] /\ t \in BOOLEAN
      BY <1>13, <1>6
    <2>2. \A w \in a + 2 .. a + z : w \in F \/ n[w] = DATA
      OBVIOUS
    <2>3. ~t => t /\ n[a + z] = [foot |-> z]
      BY <1>6
    <2> HIDE DEF F
    <2> QED
      BY <2>1, <2>2, <2>3, <1>2, <1>3, <1>15, SegOne
  <1>17. Refills(m, n, a, a + z, FALSE, TRUE, top, {}, F)
    BY <1>2, <1>3, <1>6, <1>12, <1>14 DEF Refills
  <1> HIDE DEF F
  <1>18. Layout(n, top, ts, F) /\ SameOutside(m, n, a, a + z, top)
    BY <1>2, <1>6, <1>16, <1>17, Refill
  <1> DEFINE W == a .. a + z - 1
  <1>19. SameSets(m, n, top, W)
    <2>1. PICK hi : hi = a + z
      OBVIOUS
    <2>2. SameOutside(m, n, a, hi, top)
      BY <1>18, <2>1
    <2>3. W = a .. hi - 1
      <3>1. a \in Int /\ z \in Int
        BY <1>2, <1>3
      <3>2. a + z - 1 = hi - 1
        BY ONLY <3>1, <2>1
      <3> QED
        BY ONLY <3>2 DEF W
    <2> HIDE DEF W
    <2> QED
      BY <2>2, <2>3, SetsOutside
  <1>20. /\ FreeIn(m, top) \cap W = {a} /\ UsedIn(m, top) \cap W = {}
         /\ FreeIn(n, top) \cap W = {} /\ UsedIn(n, top) \cap W = {a}
    <2>1. \A b \in W : b # a => ~IsChunk(m, b) /\ ~IsChunk(n, b)
      BY <1>2, <1>3, <1>15
    <2>2. IsChunk(n, a) /\ n[a + 1].cinuse = TRUE
      <3>1. n[a + 1] = [size |-> z, pinuse |-> t, cinuse |-> t] /\ t \in BOOLEAN
        BY <1>13, <1>6
      <3>2. IsChunk(n, a) /\ n[a + 1].cinuse = t
        BY <3>1, <1>3, NewHeader
      <3> QED
        BY <3>2, <1>6
    <2>3. a \in FreeIn(m, top) /\ ~m[a + 1].cinuse /\ a \in 0 .. top - 1 /\ a \in W
      BY <1>1, <1>2, <1>3, <1>4 DEF FreeIn
    <2> HIDE DEF W
    <2> QED
      BY <2>1, <2>2, <2>3 DEF FreeIn, UsedIn
  <1> HIDE DEF W
  <1>21. FreeIn(n, top) = FreeIn(m, top) \ {a} /\ UsedIn(n, top) = UsedIn(m, top) \cup {a} /\ a \notin UsedIn(m, top)
    BY <1>19, <1>20 DEF SameSets
  <1>22. SizesKept(m, n, (FreeIn(m, top) \ {a}) \cup UsedIn(m, top))
    BY <1>19, <1>20 DEF SizesKept, SameSets
  <1>23. n[a + 1].size = z
    BY <1>13
  <1>24. OnlyMem(k, r)
    BY <1>8, <1>12, OnlyMemTrans
  <1> QED
    BY <1>1, <1>11, <1>12, <1>18, <1>21, <1>22, <1>23, <1>24 DEF Takes, F

Splits(m, n, top, ts, a, s, z) ==
    /\ Takes(m, n, top, ts, a, s, (FreeIn(m, top) \ {a}) \cup {a + s})
    /\ n[a + s + 1].size = z - s
    /\ a + s \notin FreeIn(m, top) \cup UsedIn(m, top)

LEMMA SplitEffect ==
    ASSUME NEW k \in State, NEW top, NEW ts, Layout(k.mem, top, ts, {}), NEW a \in FreeIn(k.mem, top),
           NEW z, z = k.mem[a + 1].size, NEW s \in Nat, s % 2 = 0, s >= 4, z - s >= 4,
           NEW r, r = Split(k, a, s)
    PROVE  r \in State /\ OnlyMem(k, r) /\ Splits(k.mem, r.mem, top, ts, a, s, z)
  <1>1. PICK m : m = k.mem
    OBVIOUS
  <1>2. /\ a \in Nat /\ SizeOK(z) /\ a + z < top /\ a + z \in Nat
        /\ m[a + 1] = [size |-> z, pinuse |-> TRUE, cinuse |-> FALSE]
        /\ Hole(m, a, TRUE, a + z, FALSE, top, ts, {})
        /\ \A b \in a + 1 .. a + z - 1 : ~IsChunk(m, b)
    <2>1. Layout(m, top, ts, {}) /\ a \in FreeIn(m, top) /\ z = m[a + 1].size
      BY <1>1
    <2>2. IsFree(m, a, z, top, ts, {})
      BY <2>1, FreeFacts
    <2> QED
      BY <2>2 DEF IsFree
  <1>3. z \in Nat /\ z >= 4 /\ z % 2 = 0 /\ a % 2 = 0
    BY <1>1, <1>2 DEF SizeOK, FreeIn, IsChunk
  <1>4. top \in Nat /\ ts \in Nat /\ top + ts + 2 <= HEAP_LIMIT /\ HEAP_LIMIT \in Nat
    BY KMallocAssumption DEF Layout, Behind
  <1>5. a + 1 \in Words /\ a + s + 1 \in Words /\ a + z \in Words
    BY <1>2, <1>3, <1>4 DEF Words
  <1>6. PICK t : t = TRUE
    OBVIOUS
  <1>7. PICK k1 : k1 = SetHeader(k, a, s, t, t)
    OBVIOUS
  <1>8. /\ k1 \in State /\ OnlyMem(k, k1)
        /\ k1.mem[a + 1] = [size |-> s, pinuse |-> t, cinuse |-> t]
        /\ \A w \in Words : w # a + 1 => k1.mem[w] = k.mem[w]
    <2>1. a \in Nat /\ t \in BOOLEAN
      BY <1>2, <1>6
    <2> QED
      BY <2>1, <1>5, <1>7, SetHeaderEffect
  <1>9. PICK c, d : c = a + s /\ d = z - s
    OBVIOUS
  <1>10. c \in Nat /\ d \in Nat /\ d >= 4 /\ d % 2 = 0 /\ c % 2 = 0 /\ c + d = a + z /\ c > a + 1
    BY <1>2, <1>3, <1>9
  <1>11. r = SetFree(k1, c, d)
    BY <1>6, <1>7, <1>9 DEF Split, GETCHUNKSIZE, Header
  <1>12. PICK n : n = r.mem
    OBVIOUS
  <1>13. /\ r \in State /\ OnlyMem(k1, r)
         /\ n[c + 1] = [size |-> d, pinuse |-> TRUE, cinuse |-> FALSE]
         /\ n[c + d] = [foot |-> d]
         /\ \A w \in Words : w # c + 1 /\ w # c + d => n[w] = k1.mem[w]
    <2>1. k1 \in State /\ c \in Nat /\ d \in Nat /\ d >= 2 /\ c + 1 \in Words /\ c + d \in Words
      BY <1>5, <1>8, <1>9, <1>10
    <2>2. /\ r \in State /\ OnlyMem(k1, r)
          /\ r.mem[c + 1] = [size |-> d, pinuse |-> TRUE, cinuse |-> FALSE]
          /\ r.mem[c + d] = [foot |-> d]
          /\ \A w \in Words : w # c + 1 /\ w # c + d => r.mem[w] = k1.mem[w]
      BY <2>1, <1>11, SetFreeEffect
    <2> QED
      BY <2>2, <1>12
  <1>14. n[a + 1] = [size |-> s, pinuse |-> t, cinuse |-> t]
    BY <1>2, <1>5, <1>8, <1>10, <1>13
  <1>15. \A w \in Words : w # a + 1 /\ w # c + 1 /\ w # c + d => n[w] = m[w]
    BY <1>1, <1>8, <1>13
  <1>16. \A b \in a + 1 .. a + z - 1 : b # c => ~IsChunk(n, b)
    <2>1. SUFFICES ASSUME NEW b \in a + 1 .. a + z - 1, b # c, b % 2 = 0 PROVE ~IsChunk(n, b)
      BY DEF IsChunk
    <2>2. b + 1 \in Words /\ b + 1 # a + 1 /\ b + 1 # c + 1 /\ b + 1 # c + d
      BY <1>2, <1>3, <1>4, <1>10, <2>1 DEF Words
    <2> QED
      BY <2>2, <1>2, <1>15 DEF IsChunk
  <1> DEFINE F == a + 2 .. a + s
  <1>17. Seg(n, a, t, c, t, F)
    <2>1. t \in BOOLEAN /\ a \in Nat /\ a % 2 = 0
      BY <1>6, <1>2, <1>3
    <2>2. \A w \in a + 2 .. a + s : w \in F \/ n[w] = DATA
      OBVIOUS
    <2>3. ~t => t /\ n[a + s] = [foot |-> s]
      BY <1>6
    <2>4. \A b \in a + 1 .. a + s - 1 : ~IsChunk(n, b)
      BY <1>2, <1>3, <1>9, <1>16
    <2> HIDE DEF F
    <2>5. Seg(n, a, t, a + s, t, F)
      BY <2>1, <2>2, <2>3, <2>4, <1>14, SegOne
    <2> QED
      BY <2>5, <1>9
  <1>18. PICK f : f = FALSE
    OBVIOUS
  <1>19. Seg(n, c, t, c + d, f, F)
    <2>1. n[c + 1] = [size |-> d, pinuse |-> t, cinuse |-> f] /\ t \in BOOLEAN /\ f \in BOOLEAN
      BY <1>6, <1>13, <1>18
    <2>2. ~f => t /\ n[c + d] = [foot |-> d]
      BY <1>6, <1>13
    <2>3. f => \A w \in c + 2 .. c + d : w \in F \/ n[w] = DATA
      BY <1>18
    <2>4. \A b \in c + 1 .. c + d - 1 : ~IsChunk(n, b)
      BY <1>2, <1>3, <1>10, <1>16
    <2> HIDE DEF F
    <2> QED
      BY <2>1, <2>2, <2>3, <2>4, <1>10, SegOne
  <1>20. Seg(n, a, t, c + d, f, F)
    BY <1>17, <1>19, SegJoin
  <1>21. Refills(m, n, a, c + d, f, f, top, {}, F)
    <2>1. n[c + d + 1] = m[c + d + 1]
      <3>1. c + d + 1 \in Words /\ c + d + 1 # a + 1 /\ c + d + 1 # c + 1 /\ c + d + 1 # c + d
        BY <1>2, <1>3, <1>4, <1>10 DEF Words
      <3> QED
        BY <3>1, <1>15
    <2>2. a < c + d
      BY <1>2, <1>3, <1>10
    <2>3. \A w \in Words : w \notin a + 1 .. c + d + 1 => n[w] = m[w]
      BY <1>2, <1>3, <1>10, <1>15
    <2> QED
      BY <2>1, <2>2, <2>3 DEF Refills
  <1> HIDE DEF F
  <1>22. Layout(n, top, ts, F) /\ SameOutside(m, n, a, c + d, top)
    <2>1. Hole(m, a, t, c + d, f, top, ts, {})
      BY <1>2, <1>6, <1>10, <1>18
    <2> QED
      BY <2>1, <1>20, <1>21, Refill
  <1> DEFINE W == a .. a + z - 1
  <1>23. SameSets(m, n, top, W)
    <2>1. PICK hi : hi = a + z
      OBVIOUS
    <2>2. SameOutside(m, n, a, hi, top)
      BY <1>10, <1>22, <2>1
    <2>3. W = a .. hi - 1
      <3>1. a \in Int /\ z \in Int
        BY <1>2, <1>3
      <3>2. a + z - 1 = hi - 1
        BY ONLY <3>1, <2>1
      <3> QED
        BY ONLY <3>2 DEF W
    <2> HIDE DEF W
    <2> QED
      BY <2>2, <2>3, SetsOutside
  <1>24. IsChunk(n, a) /\ n[a + 1].cinuse = TRUE /\ n[a + 1].size = s
    <2>1. t \in BOOLEAN
      BY <1>6
    <2>2. IsChunk(n, a) /\ n[a + 1].cinuse = t /\ n[a + 1].size = s
      BY <2>1, <1>3, <1>14, NewHeader
    <2> QED
      BY <2>2, <1>6
  <1>25. IsChunk(n, c) /\ n[c + 1].cinuse = FALSE /\ n[c + 1].size = d
    <2>1. t \in BOOLEAN /\ f \in BOOLEAN /\ n[c + 1] = [size |-> d, pinuse |-> t, cinuse |-> f]
      BY <1>6, <1>13, <1>18
    <2>2. IsChunk(n, c) /\ n[c + 1].cinuse = f /\ n[c + 1].size = d
      BY <2>1, <1>10, NewHeader
    <2> QED
      BY <2>2, <1>18
  <1>26. /\ FreeIn(m, top) \cap W = {a} /\ UsedIn(m, top) \cap W = {}
         /\ FreeIn(n, top) \cap W = {c} /\ UsedIn(n, top) \cap W = {a} /\ c \in W /\ c # a
    <2>1. \A b \in W : (b # a => ~IsChunk(m, b)) /\ (b # a /\ b # c => ~IsChunk(n, b))
      BY <1>2, <1>3, <1>16
    <2>2. a \in FreeIn(m, top) /\ ~m[a + 1].cinuse
      BY <1>1 DEF FreeIn
    <2>3. a \in 0 .. top - 1 /\ a \in W /\ c \in W /\ c \in 0 .. top - 1 /\ c # a
      BY <1>2, <1>3, <1>4, <1>9, <1>10
    <2> HIDE DEF W
    <2> QED
      BY <2>1, <2>2, <2>3, <1>24, <1>25 DEF FreeIn, UsedIn
  <1> HIDE DEF W
  <1>27. /\ FreeIn(n, top) = (FreeIn(m, top) \ {a}) \cup {c} /\ UsedIn(n, top) = UsedIn(m, top) \cup {a}
         /\ a \notin UsedIn(m, top)
    BY <1>23, <1>26 DEF SameSets
  <1>28. SizesKept(m, n, (FreeIn(m, top) \ {a}) \cup UsedIn(m, top))
    BY <1>23, <1>26 DEF SizesKept, SameSets
  <1>29. c \notin FreeIn(m, top) \cup UsedIn(m, top)
    BY <1>26
  <1>30. OnlyMem(k, r)
    BY <1>8, <1>13, OnlyMemTrans
  <1> QED
    BY <1>1, <1>9, <1>12, <1>13, <1>22, <1>24, <1>25, <1>27, <1>28, <1>29, <1>30 DEF Takes, Splits, F

---------------------------------------------------------------------------
(* The invariant of an initialised allocator.                              *)
HeapOK(k) ==
    /\ k.heap_start = 0 /\ k.aborted = FALSE
    /\ k.heap_size % HEAP_SIZE_ALIGN = 0 /\ k.initial_heap_size % HEAP_SIZE_ALIGN = 0
    /\ 0 < k.initial_heap_size /\ k.initial_heap_size <= k.heap_size /\ k.heap_size <= HEAP_LIMIT
    /\ k.topChunk + k.topChunkSize + 2 <= k.heap_size

VictimOK(k) ==
    IF k.dVictim = NULL THEN k.dVictimSize = 0
    ELSE /\ k.dVictim \in FreeIn(k.mem, k.topChunk)
         /\ k.dVictimSize = k.mem[k.dVictim + 1].size

(* The free chunks that belong in a bin.                                   *)
ForBins(k) == FreeIn(k.mem, k.topChunk) \ {k.dVictim}

Good(k, E) ==
    /\ k \in State /\ HeapOK(k) /\ VictimOK(k)
    /\ Layout(k.mem, k.topChunk, k.topChunkSize, E)
    /\ BinInv(k, ForBins(k), k.mem)

(* The same while chunk a has been taken out of its bin.                   *)
InHand(k, a) ==
    /\ k \in State /\ HeapOK(k) /\ VictimOK(k)
    /\ Layout(k.mem, k.topChunk, k.topChunkSize, {})
    /\ a \in ForBins(k) /\ BinInv(k, ForBins(k) \ {a}, k.mem)

(* What granting a block of at least s words at a does to the state. No    *)
(* data is in the block yet.                                               *)
Granting(k, r, a, s) ==
    /\ a \in Nat /\ r.mem[a + 1].size >= s /\ Good(r, a + 2 .. a + r.mem[a + 1].size)
    /\ UsedIn(r.mem, r.topChunk) = UsedIn(k.mem, k.topChunk) \cup {a}
    /\ a \notin UsedIn(k.mem, k.topChunk)
    /\ SizesKept(k.mem, r.mem, UsedIn(k.mem, k.topChunk))
    /\ r.heap_size >= k.heap_size /\ r.initial_heap_size = k.initial_heap_size

Grants(k, x, s) == \E r, a : x = Payload(r, a) /\ Granting(k, r, a, s)

LEMMA HeapFrame ==
    ASSUME NEW k, NEW r, SameHeap(k, r), SameTop(k, r), HeapOK(k)
    PROVE  HeapOK(r)
  BY DEF SameHeap, SameTop, HeapOK

(* A step that only looks for a free chunk does not matter.                *)
LEMMA GrantingFrom ==
    ASSUME NEW k, NEW k1, NEW r, NEW a, NEW s, OnlyBins(k, k1), Granting(k1, r, a, s)
    PROVE  Granting(k, r, a, s)
  BY DEF OnlyBins, SameHeap, SameTop, Granting

(* The whole of a chunk in hand, or of the designated victim, is granted.  *)
LEMMA TakeGrants ==
    ASSUME NEW k \in State, HeapOK(k), Layout(k.mem, k.topChunk, k.topChunkSize, {}),
           NEW a \in FreeIn(k.mem, k.topChunk), NEW s, k.mem[a + 1].size >= s,
           NEW k1, k1 = TakeAll(k, a), NEW r \in State, r.mem = k1.mem,
           SameHeap(k1, r), SameTop(k1, r), SameBins(k1, r),
           BinInv(k, FreeIn(k.mem, k.topChunk) \ {a, r.dVictim}, k.mem),
           IF r.dVictim = NULL THEN r.dVictimSize = 0
           ELSE /\ r.dVictim \in FreeIn(k.mem, k.topChunk) \ {a}
                /\ r.dVictimSize = k.mem[r.dVictim + 1].size
    PROVE  Granting(k, r, a, s)
  <1>1. PICK m, n, top, ts, z : m = k.mem /\ n = r.mem /\ top = k.topChunk /\ ts = k.topChunkSize /\ z = m[a + 1].size
    OBVIOUS
  <1>2. Layout(m, top, ts, {}) /\ a \in FreeIn(m, top)
    BY <1>1
  <1>3. /\ k1 \in State /\ OnlyMem(k, k1)
        /\ Takes(m, k1.mem, top, ts, a, z, FreeIn(m, top) \ {a})
    BY <1>1, TakeAllEffect
  <1>4. Takes(m, n, top, ts, a, z, FreeIn(m, top) \ {a})
    BY <1>1, <1>3
  <1>5. SameHeap(k, r) /\ SameTop(k, r) /\ SameBins(k, r)
    BY <1>3 DEF OnlyMem, SameHeap, SameTop, SameBins
  <1>6. HeapOK(r)
    BY <1>5, HeapFrame
  <1>7. top = r.topChunk /\ ts = r.topChunkSize
    BY <1>1, <1>5 DEF SameTop
  <1>8. FreeIn(n, top) = FreeIn(m, top) \ {a} /\ SizesKept(m, n, (FreeIn(m, top) \ {a}) \cup UsedIn(m, top))
    BY <1>4 DEF Takes
  <1>9. VictimOK(r)
    BY <1>1, <1>7, <1>8 DEF VictimOK, SizesKept
  <1>10. BinInv(r, ForBins(r), n)
    <2>1. ForBins(r) = FreeIn(m, top) \ {a, r.dVictim}
      BY <1>1, <1>7, <1>8 DEF ForBins
    <2>2. \A b \in ForBins(r) : n[b + 1].size = m[b + 1].size
      BY <2>1, <1>8 DEF SizesKept
    <2>3. BinInv(k, ForBins(r), m)
      BY <2>1, <1>1
    <2> QED
      BY <2>2, <2>3, <1>5, BinFrame
  <1>11. /\ Layout(n, top, ts, a + 2 .. a + z) /\ n[a + 1].size = z
         /\ UsedIn(n, top) = UsedIn(m, top) \cup {a} /\ a \notin UsedIn(m, top)
         /\ SizesKept(m, n, UsedIn(m, top))
    BY <1>4 DEF Takes, SizesKept
  <1>12. Good(r, a + 2 .. a + n[a + 1].size)
    BY <1>1, <1>6, <1>7, <1>9, <1>10, <1>11 DEF Good
  <1>13. a \in Nat /\ z >= s
    BY <1>1, <1>2, FreeFacts DEF IsFree
  <1>14. r.heap_size >= k.heap_size /\ r.initial_heap_size = k.initial_heap_size
    BY <1>5 DEF SameHeap, State
  <1> QED
    BY <1>1, <1>7, <1>11, <1>12, <1>13, <1>14 DEF Granting

(* A free chunk is split, and what is left becomes the designated victim.  *)
LEMMA SplitGrants ==
    ASSUME NEW k \in State, HeapOK(k), Layout(k.mem, k.topChunk, k.topChunkSize, {}),
           NEW a \in FreeIn(k.mem, k.topChunk), NEW s \in Nat, s % 2 = 0, s >= 4,
           k.mem[a + 1].size - s >= 4,
           NEW k1, k1 = Split(k, a, s), NEW r \in State, r.mem = k1.mem,
           SameHeap(k1, r), SameTop(k1, r),
           r.dVictim = a + s, r.dVictimSize = k.mem[a + 1].size - s,
           BinInv(r, FreeIn(k.mem, k.topChunk) \ {a}, k.mem)
    PROVE  Granting(k, r, a, s)
  <1>1. PICK m, n, top, ts, z : m = k.mem /\ n = r.mem /\ top = k.topChunk /\ ts = k.topChunkSize /\ z = m[a + 1].size
    OBVIOUS
  <1>2. Layout(m, top, ts, {}) /\ a \in FreeIn(m, top)
    BY <1>1
  <1>3. /\ k1 \in State /\ OnlyMem(k, k1)
        /\ Takes(m, k1.mem, top, ts, a, s, (FreeIn(m, top) \ {a}) \cup {a + s})
        /\ k1.mem[a + s + 1].size = z - s
        /\ a + s \notin FreeIn(m, top) \cup UsedIn(m, top)
    <2>1. /\ k \in State /\ Layout(k.mem, top, ts, {}) /\ a \in FreeIn(k.mem, top) /\ z = k.mem[a + 1].size
          /\ s \in Nat /\ s % 2 = 0 /\ s >= 4 /\ z - s >= 4 /\ k1 = Split(k, a, s)
      BY <1>1
    <2>2. k1 \in State /\ OnlyMem(k, k1) /\ Splits(k.mem, k1.mem, top, ts, a, s, z)
      BY <2>1, SplitEffect
    <2> QED
      BY <2>2, <1>1 DEF Splits
  <1>4. Takes(m, n, top, ts, a, s, (FreeIn(m, top) \ {a}) \cup {a + s}) /\ n[a + s + 1].size = z - s
    BY <1>1, <1>3
  <1>5. SameHeap(k, r) /\ SameTop(k, r)
    BY <1>3 DEF OnlyMem, SameHeap, SameTop
  <1>6. HeapOK(r)
    BY <1>5, HeapFrame
  <1>7. top = r.topChunk /\ ts = r.topChunkSize
    BY <1>1, <1>5 DEF SameTop
  <1>8. /\ FreeIn(n, top) = (FreeIn(m, top) \ {a}) \cup {a + s}
        /\ SizesKept(m, n, (FreeIn(m, top) \ {a}) \cup UsedIn(m, top))
    BY <1>4 DEF Takes
  <1>9. VictimOK(r)
    <2>1. a + s # NULL
      <3>1. a \in Nat
        BY ONLY <1>2 DEF FreeIn
      <3>2. a + s \in Nat
        BY <3>1
      <3> QED
        BY <3>2, KMallocAssumption
    <2> QED
      BY <2>1, <1>1, <1>4, <1>7, <1>8 DEF VictimOK
  <1>10. BinInv(r, ForBins(r), n)
    <2>1. ForBins(r) = FreeIn(m, top) \ {a}
      BY <1>1, <1>3, <1>7, <1>8 DEF ForBins
    <2>2. \A b \in ForBins(r) : n[b + 1].size = m[b + 1].size
      BY <2>1, <1>8 DEF SizesKept
    <2>3. BinInv(r, ForBins(r), m) /\ SameBins(r, r)
      BY <2>1, <1>1 DEF SameBins
    <2> QED
      BY <2>2, <2>3, BinFrame
  <1>11. /\ Layout(n, top, ts, a + 2 .. a + s) /\ n[a + 1].size = s
         /\ UsedIn(n, top) = UsedIn(m, top) \cup {a} /\ a \notin UsedIn(m, top)
         /\ SizesKept(m, n, UsedIn(m, top))
    BY <1>4 DEF Takes, SizesKept
  <1>12. Good(r, a + 2 .. a + n[a + 1].size)
    BY <1>1, <1>6, <1>7, <1>9, <1>10, <1>11 DEF Good
  <1>13. a \in Nat /\ s >= s
    <2>1. IsFree(m, a, z, top, ts, {})
      BY <1>1, <1>2, FreeFacts
    <2> QED
      BY <2>1 DEF IsFree
  <1>14. r.heap_size >= k.heap_size /\ r.initial_heap_size = k.initial_heap_size
    BY <1>5 DEF SameHeap, State
  <1> QED
    BY <1>1, <1>7, <1>11, <1>12, <1>13, <1>14 DEF Granting

(* The size of a request that reached an allocating operation.             *)
ReqOK(s) == s \in Nat /\ s % 2 = 0 /\ s >= 4 /\ s + HEAP_SIZE_ALIGN <= WORD

(* Every chunk and the number of its words are numbers.                    *)
LEMMA FreeNumbers ==
    ASSUME NEW m, NEW top, NEW ts, NEW E, Layout(m, top, ts, E), NEW a \in FreeIn(m, top)
    PROVE  a \in Nat /\ a # NULL /\ SizeOK(m[a + 1].size) /\ m[a + 1].size \in Nat
  <1>1. IsFree(m, a, m[a + 1].size, top, ts, E)
    BY FreeFacts
  <1> QED
    BY <1>1, KMallocAssumption DEF IsFree, SizeOK

(* The designated victim.                                                  *)
LEMMA DvGrants ==
    ASSUME NEW k, Good(k, {}), NEW s, ReqOK(s), s <= k.dVictimSize
    PROVE  Grants(k, allocate_dv(k, s), s)
  <1>1. /\ k \in State /\ HeapOK(k) /\ VictimOK(k) /\ Layout(k.mem, k.topChunk, k.topChunkSize, {})
        /\ BinInv(k, ForBins(k), k.mem) /\ s \in Nat /\ s % 2 = 0 /\ s >= 4 /\ k.dVictimSize \in Nat
    BY DEF Good, ReqOK, State
  <1>2. k.dVictim # NULL
    BY <1>1 DEF VictimOK
  <1>3. PICK a : a = k.dVictim
    OBVIOUS
  <1>4. a \in FreeIn(k.mem, k.topChunk) /\ k.dVictimSize = k.mem[a + 1].size
    BY <1>1, <1>2, <1>3 DEF VictimOK
  <1>5. a \in Nat /\ a # NULL
    BY <1>1, <1>4, FreeNumbers
  <1>6. CASE k.dVictimSize - s < 4
    <2>1. PICK k1, r : k1 = TakeAll(k, a) /\ r = SetVictim(k1, NULL, 0)
      OBVIOUS
    <2>2. allocate_dv(k, s) = Payload(r, a)
      BY <1>1, <1>2, <1>3, <1>6, <2>1 DEF allocate_dv, NoVictim, MINCHUNKSIZE
    <2>3. k1 \in State /\ OnlyMem(k, k1)
      BY <1>1, <1>4, <2>1, TakeAllEffect
    <2>4. /\ r \in State /\ r.mem = k1.mem /\ r.dVictim = NULL /\ r.dVictimSize = 0
          /\ SameHeap(k1, r) /\ SameBins(k1, r) /\ SameTop(k1, r)
      <3>1. PICK c, d : c = NULL /\ d = 0
        OBVIOUS
      <3>2. k1 \in State /\ c \in Nat \cup {NULL} /\ d \in Nat /\ r = SetVictim(k1, c, d)
        BY <3>1, <2>1, <2>3
      <3>3. /\ r \in State /\ r.mem = k1.mem /\ r.dVictim = c /\ r.dVictimSize = d
            /\ SameHeap(k1, r) /\ SameBins(k1, r) /\ SameTop(k1, r)
        BY <3>2, SetVictimEffect
      <3> QED
        BY <3>1, <3>3
    <2>5. BinInv(k, FreeIn(k.mem, k.topChunk) \ {a, r.dVictim}, k.mem)
      <3>1. NULL \notin FreeIn(k.mem, k.topChunk)
        BY <1>1, FreeNumbers
      <3>2. FreeIn(k.mem, k.topChunk) \ {a, r.dVictim} = ForBins(k)
        BY <3>1, <2>4, <1>3 DEF ForBins
      <3> QED
        BY <3>2, <1>1
    <2>6. k.mem[a + 1].size >= s
      BY <1>1, <1>4
    <2>7. Granting(k, r, a, s)
      BY <1>1, <1>4, <2>1, <2>4, <2>5, <2>6, TakeGrants
    <2> QED
      BY <2>2, <2>7 DEF Grants
  <1>7. CASE ~(k.dVictimSize - s < 4)
    <2>1. PICK k1, r : k1 = Split(k, a, s) /\ r = SetVictim(k1, a + s, k.dVictimSize - s)
      OBVIOUS
    <2>2. allocate_dv(k, s) = Payload(r, a)
      BY <1>1, <1>2, <1>3, <1>7, <2>1 DEF allocate_dv, MINCHUNKSIZE
    <2>3. k.mem[a + 1].size - s >= 4 /\ a + s \in Nat /\ k.dVictimSize - s \in Nat
      BY <1>1, <1>4, <1>5, <1>7
    <2>4. k1 \in State /\ OnlyMem(k, k1)
      BY <1>1, <1>4, <2>1, <2>3, SplitEffect
    <2>5. /\ r \in State /\ r.mem = k1.mem /\ r.dVictim = a + s /\ r.dVictimSize = k.mem[a + 1].size - s
          /\ SameHeap(k1, r) /\ SameBins(k1, r) /\ SameTop(k1, r)
      <3>1. PICK c, d : c = a + s /\ d = k.dVictimSize - s
        OBVIOUS
      <3>2. k1 \in State /\ c \in Nat \cup {NULL} /\ d \in Nat /\ r = SetVictim(k1, c, d)
        BY <3>1, <2>1, <2>3, <2>4
      <3>3. /\ r \in State /\ r.mem = k1.mem /\ r.dVictim = c /\ r.dVictimSize = d
            /\ SameHeap(k1, r) /\ SameBins(k1, r) /\ SameTop(k1, r)
        BY <3>2, SetVictimEffect
      <3> QED
        BY <3>1, <3>3, <1>4
    <2>6. BinInv(r, FreeIn(k.mem, k.topChunk) \ {a}, k.mem)
      <3>1. FreeIn(k.mem, k.topChunk) \ {a} = ForBins(k)
        BY <1>3 DEF ForBins
      <3>2. SameBins(k, r)
        BY <2>4, <2>5 DEF OnlyMem, SameBins
      <3>3. BinInv(r, ForBins(k), k.mem)
        BY <3>2, <1>1, BinFrame
      <3> QED
        BY <3>1, <3>3
    <2>7. Granting(k, r, a, s)
      BY <1>1, <1>4, <2>1, <2>3, <2>5, <2>6, SplitGrants
    <2> QED
      BY <2>2, <2>7 DEF Grants
  <1> QED
    BY <1>6, <1>7

(* A chunk that was taken out of its bin, split or as a whole.             *)
LEMMA HandSplitGrants ==
    ASSUME NEW k, NEW a, InHand(k, a), NEW s, ReqOK(s), k.mem[a + 1].size - s >= 4,
           NEW r, r = replace_dv(Split(k, a, s), a + s)
    PROVE  Granting(k, r, a, s)
  <1>1. PICK m, top, ts, z : m = k.mem /\ top = k.topChunk /\ ts = k.topChunkSize /\ z = m[a + 1].size
    OBVIOUS
  <1>2. /\ k \in State /\ HeapOK(k) /\ VictimOK(k) /\ Layout(m, top, ts, {})
        /\ a \in FreeIn(m, top) /\ a # k.dVictim /\ BinInv(k, ForBins(k) \ {a}, m)
        /\ ForBins(k) = FreeIn(m, top) \ {k.dVictim}
        /\ s \in Nat /\ s % 2 = 0 /\ s >= 4
    BY <1>1 DEF InHand, ReqOK, ForBins
  <1>3. PICK k1 : k1 = Split(k, a, s)
    OBVIOUS
  <1>4. k1 \in State /\ OnlyMem(k, k1) /\ Splits(m, k1.mem, top, ts, a, s, z)
    <2>1. /\ Layout(k.mem, top, ts, {}) /\ a \in FreeIn(k.mem, top)
          /\ z = k.mem[a + 1].size /\ z - s >= 4
      BY <1>1, <1>2
    <2>2. k1 \in State /\ OnlyMem(k, k1) /\ Splits(k.mem, k1.mem, top, ts, a, s, z)
      BY <2>1, <1>2, <1>3, SplitEffect
    <2> QED
      BY <1>1, <2>2
  <1>5. \A b \in FreeIn(m, top) \ {a} : k1.mem[b + 1].size = m[b + 1].size
    BY <1>4 DEF Splits, Takes, SizesKept
  <1>6. /\ BinInv(k1, ForBins(k) \ {a}, k1.mem) /\ k1.dVictim = k.dVictim
    <2>1. SameBins(k, k1) /\ k1.dVictim = k.dVictim
      BY <1>4 DEF OnlyMem, SameVictim
    <2>2. \A b \in ForBins(k) \ {a} : k1.mem[b + 1].size = m[b + 1].size
      BY <1>2, <1>5
    <2> QED
      BY <1>2, <2>1, <2>2, BinFrame
  <1>7. PICK k2 : k2 = IF k1.dVictim # NULL THEN bin_chunk(k1, k1.dVictim) ELSE k1
    OBVIOUS
  <1>8. k2 \in State /\ OnlyBins(k1, k2) /\ BinInv(k2, FreeIn(m, top) \ {a}, k1.mem)
    <2>1. CASE k.dVictim = NULL
      <3>1. NULL \notin FreeIn(m, top)
        BY <1>2, FreeNumbers
      <3>2. FreeIn(m, top) \ {a} = ForBins(k) \ {a}
        BY <1>2, <2>1, <3>1
      <3>3. OnlyBins(k1, k1)
        BY DEF OnlyBins, SameHeap, SameVictim, SameTop
      <3> QED
        BY <1>4, <1>6, <1>7, <2>1, <3>2, <3>3
    <2>2. CASE k.dVictim # NULL
      <3>1. PICK v : v = k.dVictim
        OBVIOUS
      <3>2. v \in FreeIn(m, top)
        BY <1>1, <1>2, <2>2, <3>1 DEF VictimOK
      <3>3. v \in Nat /\ SizeOK(m[v + 1].size)
        BY <1>2, <3>2, FreeNumbers
      <3>4. SizeOK(k1.mem[v + 1].size) /\ v \notin ForBins(k) \ {a}
        BY <1>2, <1>5, <3>1, <3>2, <3>3
      <3>5. k2 = bin_chunk(k1, v)
        BY <1>6, <1>7, <2>2, <3>1
      <3>6. k2 \in State /\ OnlyBins(k1, k2) /\ BinInv(k2, (ForBins(k) \ {a}) \cup {v}, k1.mem)
        BY <1>4, <1>6, <3>3, <3>4, <3>5, BinAdd
      <3>7. (ForBins(k) \ {a}) \cup {v} = FreeIn(m, top) \ {a}
        BY <1>2, <3>1, <3>2
      <3> QED
        BY <3>6, <3>7
    <2> QED
      BY <2>1, <2>2
  <1>9. PICK c, d : c = a + s /\ d = z - s
    OBVIOUS
  <1>10. /\ k1.mem[c + 1].size = d /\ c \in Nat \cup {NULL} /\ d \in Nat
    <2>1. a \in Nat /\ z \in Nat
      BY <1>1, <1>2, FreeNumbers
    <2>2. k1.mem[a + s + 1].size = z - s
      BY <1>4 DEF Splits
    <2> QED
      BY <1>1, <1>2, <1>9, <2>1, <2>2
  <1>11. r = SetVictim(k2, c, d)
    <2>1. r = SetVictim(k2, c, k1.mem[c + 1].size)
      BY <1>3, <1>7, <1>9 DEF replace_dv, GETCHUNKSIZE, Header
    <2> QED
      BY <2>1, <1>10
  <1>12. /\ r \in State /\ r.mem = k2.mem /\ r.dVictim = c /\ r.dVictimSize = d
         /\ SameHeap(k2, r) /\ SameBins(k2, r) /\ SameTop(k2, r)
    <2>1. k2 \in State /\ c \in Nat \cup {NULL} /\ d \in Nat
      BY <1>8, <1>10
    <2> QED
      BY <2>1, <1>11, SetVictimEffect
  <1>13. r.mem = k1.mem /\ SameHeap(k1, r) /\ SameTop(k1, r)
    BY <1>8, <1>12 DEF OnlyBins, SameHeap, SameTop
  <1>14. BinInv(r, FreeIn(m, top) \ {a}, m)
    BY <1>5, <1>8, <1>12, BinFrame
  <1>15. BinInv(r, FreeIn(k.mem, k.topChunk) \ {a}, k.mem) /\ r.dVictim = a + s /\ r.dVictimSize = k.mem[a + 1].size - s
    BY <1>1, <1>9, <1>12, <1>14
  <1>16. Layout(k.mem, k.topChunk, k.topChunkSize, {}) /\ a \in FreeIn(k.mem, k.topChunk)
    BY <1>1, <1>2
  <1> QED
    BY <1>2, <1>3, <1>12, <1>13, <1>15, <1>16, SplitGrants

LEMMA HandTakeGrants ==
    ASSUME NEW k, NEW a, InHand(k, a), NEW s, k.mem[a + 1].size >= s, NEW r, r = TakeAll(k, a)
    PROVE  Granting(k, r, a, s)
  <1>1. /\ k \in State /\ HeapOK(k) /\ VictimOK(k) /\ Layout(k.mem, k.topChunk, k.topChunkSize, {})
        /\ a \in FreeIn(k.mem, k.topChunk) /\ a # k.dVictim
        /\ BinInv(k, FreeIn(k.mem, k.topChunk) \ {a, k.dVictim}, k.mem)
    <2>1. ForBins(k) \ {a} = FreeIn(k.mem, k.topChunk) \ {a, k.dVictim}
      BY DEF ForBins
    <2> QED
      BY <2>1 DEF InHand, ForBins
  <1>2. r \in State /\ OnlyMem(k, r)
    BY <1>1, TakeAllEffect
  <1>3. r.dVictim = k.dVictim /\ r.dVictimSize = k.dVictimSize
    BY <1>2 DEF OnlyMem, SameVictim
  <1>4. SameHeap(r, r) /\ SameTop(r, r) /\ SameBins(r, r)
    BY DEF SameHeap, SameTop, SameBins
  <1>5. BinInv(k, FreeIn(k.mem, k.topChunk) \ {a, r.dVictim}, k.mem)
    BY <1>1, <1>3
  <1>6. IF r.dVictim = NULL THEN r.dVictimSize = 0
        ELSE /\ r.dVictim \in FreeIn(k.mem, k.topChunk) \ {a}
             /\ r.dVictimSize = k.mem[r.dVictim + 1].size
    BY <1>1, <1>3 DEF VictimOK
  <1> QED
    BY <1>1, <1>2, <1>4, <1>5, <1>6, TakeGrants

LEMMA HandFrom ==
    ASSUME NEW k, Good(k, {}), NEW a \in ForBins(k), NEW r \in State, OnlyBins(k, r),
           BinInv(r, ForBins(k) \ {a}, k.mem)
    PROVE  InHand(r, a) /\ r.mem = k.mem
  <1>1. HeapOK(r)
    BY HeapFrame DEF OnlyBins, Good
  <1>2. ForBins(r) = ForBins(k) /\ r.mem = k.mem
    BY DEF ForBins, OnlyBins, SameTop, SameVictim
  <1>3. VictimOK(r) /\ Layout(r.mem, r.topChunk, r.topChunkSize, {})
    BY DEF VictimOK, OnlyBins, SameTop, SameVictim, Good
  <1> QED
    BY <1>1, <1>2, <1>3 DEF InHand

LEMMA TchunkGrants ==
    ASSUME NEW k, Good(k, {}), NEW a \in ForBins(k), NEW s, ReqOK(s), k.mem[a + 1].size >= s
    PROVE  Grants(k, allocate_tchunk(k, a, s), s)
  <1>1. PICK k1 : k1 = unbin_chunk(k, a)
    OBVIOUS
  <1>2. k1 \in State /\ OnlyBins(k, k1) /\ BinInv(k1, ForBins(k) \ {a}, k.mem)
    <2>1. k \in State /\ BinInv(k, ForBins(k), k.mem) /\ k.mem[a + 1] = k.mem[a + 1]
      BY DEF Good
    <2> QED
      BY <1>1, <2>1, BinRemove
  <1>3. InHand(k1, a) /\ k1.mem = k.mem
    BY <1>2, HandFrom
  <1>4. k.mem[a + 1].size \in Nat /\ s \in Nat
    BY FreeNumbers DEF Good, ForBins, ReqOK
  <1>5. CASE k.mem[a + 1].size - s > 4
    <2>1. PICK r : r = replace_dv(Split(k1, a, s), a + s)
      OBVIOUS
    <2>2. k1.mem[a + 1].size - s >= 4
      BY <1>3, <1>4, <1>5
    <2>3. Granting(k1, r, a, s)
      BY <1>3, <2>1, <2>2, HandSplitGrants
    <2>4. Granting(k, r, a, s)
      BY <1>2, <2>3, GrantingFrom
    <2>5. allocate_tchunk(k, a, s) = Payload(r, a)
      BY <1>1, <1>5, <2>1 DEF allocate_tchunk, GETCHUNKSIZE, Header, MINCHUNKSIZE
    <2> QED
      BY <2>4, <2>5 DEF Grants
  <1>6. CASE ~(k.mem[a + 1].size - s > 4)
    <2>1. PICK r : r = TakeAll(k1, a)
      OBVIOUS
    <2>2. k1.mem[a + 1].size >= s
      BY <1>3
    <2>3. Granting(k1, r, a, s)
      BY <1>3, <2>1, <2>2, HandTakeGrants
    <2>4. Granting(k, r, a, s)
      BY <1>2, <2>3, GrantingFrom
    <2>5. allocate_tchunk(k, a, s) = Payload(r, a)
      BY <1>1, <1>6, <2>1 DEF allocate_tchunk, GETCHUNKSIZE, Header, MINCHUNKSIZE
    <2> QED
      BY <2>4, <2>5 DEF Grants
  <1> QED
    BY <1>5, <1>6

LEMMA SbinGrants ==
    ASSUME NEW k, Good(k, {}), NEW i \in k.sbinmap, NEW s, ReqOK(s)
    PROVE  /\ 2 * i >= s => Grants(k, allocate_sbin(k, i), s)
           /\ 2 * i - s >= 4 => Grants(k, split_sbin(k, i, s), s)
  <1>1. PICK a, k1 : a = FirstSmall(k, i) /\ k1 = PopSmall(k, i)
    OBVIOUS
  <1>2. /\ a \in ForBins(k) /\ k.mem[a + 1].size = 2 * i /\ i \in Nat
        /\ k1 \in State /\ OnlyBins(k, k1) /\ BinInv(k1, ForBins(k) \ {a}, k.mem)
    <2>1. PICK X, m : X = ForBins(k) /\ m = k.mem
      OBVIOUS
    <2>2. k \in State /\ BinInv(k, X, m)
      BY <2>1 DEF Good
    <2>3. a \in X /\ i \in Nat /\ k1 \in State /\ OnlyBins(k, k1) /\ BinInv(k1, X \ {a}, m)
      BY <1>1, <2>2, BinPop
    <2>4. m[a + 1].size = 2 * i
      <3>1. a \in Nat
        BY <2>2, <2>3 DEF BinInv
      <3> QED
        BY <3>1, <1>1, <2>2, <2>3, BinPop
    <2> QED
      BY <2>1, <2>3, <2>4
  <1>3. InHand(k1, a) /\ k1.mem = k.mem
    BY <1>2, HandFrom
  <1>4. ASSUME 2 * i >= s
        PROVE  Grants(k, allocate_sbin(k, i), s)
    <2>1. PICK r : r = TakeAll(k1, a)
      OBVIOUS
    <2>2. k1.mem[a + 1].size >= s
      BY <1>2, <1>3, <1>4
    <2>3. Granting(k1, r, a, s)
      BY <1>3, <2>1, <2>2, HandTakeGrants
    <2>4. Granting(k, r, a, s)
      BY <1>2, <2>3, GrantingFrom
    <2>5. allocate_sbin(k, i) = Payload(r, a)
      BY <1>1, <2>1 DEF allocate_sbin, FirstSmall
    <2> QED
      BY <2>4, <2>5 DEF Grants
  <1>5. ASSUME 2 * i - s >= 4
        PROVE  Grants(k, split_sbin(k, i, s), s)
    <2>1. PICK r : r = replace_dv(Split(k1, a, s), a + s)
      OBVIOUS
    <2>2. k1.mem[a + 1].size - s >= 4
      BY <1>2, <1>3, <1>5
    <2>3. Granting(k1, r, a, s)
      BY <1>3, <2>1, <2>2, HandSplitGrants
    <2>4. Granting(k, r, a, s)
      BY <1>2, <2>3, GrantingFrom
    <2>5. split_sbin(k, i, s) = Payload(r, a)
      BY <1>1, <2>1 DEF split_sbin, FirstSmall
    <2> QED
      BY <2>4, <2>5 DEF Grants
  <1> QED
    BY <1>4, <1>5

---------------------------------------------------------------------------
(* Rounding up to a multiple of the unit, when it does not wrap.           *)
LEMMA RoundUpBounds ==
    ASSUME NEW x \in Nat, NEW u \in Nat \ {0}, x + u - 1 < WORD, NEW y, y = RoundUp(x, u)
    PROVE  /\ y \in Nat /\ y >= x /\ y <= x + u - 1 /\ y % u = 0
           /\ \A z \in Nat : z % u = 0 /\ x <= z => y <= z
  <1>1. PICK v : v = x + u - 1
    OBVIOUS
  <1>2. v \in Nat /\ v < WORD /\ WORD \in Nat \ {0}
    BY <1>1, KMallocAssumption
  <1>3. v % WORD = v
    BY <1>2
  <1>4. PICK q : q = v \div u
    OBVIOUS
  <1>5. q \in Nat /\ q * u <= v /\ v < q * u + u
    BY <1>2, <1>4, DivBounds
  <1>6. y = q * u
    BY <1>1, <1>3, <1>4 DEF RoundUp
  <1>7. y \in Nat
    BY <1>5, <1>6
  <1>8. y \div u = q
    <2>1. q * u <= y /\ y < q * u + u /\ q \in Int
      BY <1>5, <1>6, <1>7
    <2> QED
      BY <2>1, <1>7, DivUnique
  <1>9. y % u = 0
    <2>1. y % u = y - (y \div u) * u
      BY <1>7, DivBounds
    <2> QED
      BY <2>1, <1>6, <1>7, <1>8
  <1>10. ASSUME NEW z \in Nat, z % u = 0, x <= z
         PROVE  y <= z
    <2>1. PICK p : p = z \div u
      OBVIOUS
    <2>2. p \in Nat /\ p * u = z
      BY <1>10, <2>1, DivBounds, DivExact
    <2>3. CASE q <= p
      <3>1. q = p \/ q < p
        BY <1>5, <2>2, <2>3
      <3>2. q < p => q * u + u <= p * u
        BY <1>5, <2>2, TimesMonotone
      <3> QED
        BY <1>5, <1>6, <1>7, <2>2, <3>1, <3>2
    <2>4. CASE p < q
      <3>1. p * u + u <= q * u
        BY <1>5, <2>2, <2>4, TimesMonotone
      <3> QED
        BY <1>1, <1>5, <1>6, <1>7, <1>10, <2>2, <3>1
    <2> QED
      BY <1>5, <2>2, <2>3, <2>4
  <1> QED
    BY <1>1, <1>2, <1>5, <1>6, <1>7, <1>9, <1>10

LEMMA AlignEven ==
    ASSUME NEW x \in Nat, x % HEAP_SIZE_ALIGN = 0
    PROVE  x % 2 = 0
  <1>1. PICK u : u = HEAP_SIZE_ALIGN
    OBVIOUS
  <1>2. u \in Nat \ {0} /\ u % 2 = 0
    BY <1>1, KMallocAssumption DEF CHUNK_ALIGN_ON
  <1>3. PICK q, h : q = x \div u /\ h = u \div 2
    OBVIOUS
  <1>4. q \in Nat /\ q * u = x
    BY <1>1, <1>2, <1>3, DivBounds, DivExact
  <1>5. h \in Nat /\ u = 2 * h
    BY <1>2, <1>3
  <1>6. x = 2 * (q * h) /\ q * h \in Nat
    BY <1>4, <1>5
  <1>7. PICK j : j = q * h
    OBVIOUS
  <1> QED
    BY <1>6, <1>7

(* The chunks below the top chunk do not depend on what is behind.         *)
LEMMA PrefixSets ==
    ASSUME NEW m, NEW n, NEW top \in Nat, \A w \in 1 .. top : n[w] = m[w]
    PROVE  /\ FreeIn(n, top) = FreeIn(m, top) /\ UsedIn(n, top) = UsedIn(m, top)
           /\ SizesKept(m, n, FreeIn(m, top) \cup UsedIn(m, top))
  <1>1. \A a \in 0 .. top - 1 : n[a + 1] = m[a + 1]
    BY SMT
  <1>2. \A a \in 0 .. top - 1 : IsChunk(n, a) <=> IsChunk(m, a)
    BY <1>1 DEF IsChunk
  <1> QED
    BY <1>1, <1>2 DEF FreeIn, UsedIn, SizesKept

OnlySizes(k, r, h, s) ==
    /\ r.heap_size = h /\ r.topChunkSize = s
    /\ r.mem = k.mem /\ r.topChunk = k.topChunk /\ r.heap_start = k.heap_start
    /\ r.initial_heap_size = k.initial_heap_size /\ r.aborted = k.aborted
    /\ SameBins(k, r) /\ SameVictim(k, r)

LEMMA SetSizesEffect ==
    ASSUME NEW k \in State, NEW h \in Nat, NEW s \in Nat, NEW r,
           r = SetHeapSize(k, h, s)
    PROVE  r \in State /\ OnlySizes(k, r, h, s)
  BY DEF OnlySizes, SetHeapSize, State, SameBins, SameVictim

(* The blocks are where they were.                                         *)
Kept(k, r) ==
    /\ UsedIn(r.mem, r.topChunk) = UsedIn(k.mem, k.topChunk)
    /\ SizesKept(k.mem, r.mem, UsedIn(k.mem, k.topChunk))
    /\ r.initial_heap_size = k.initial_heap_size

(* Nothing but what is behind the chunks below the top chunk has changed.  *)
LEMMA TopGood ==
    ASSUME NEW k, NEW E, Good(k, E), NEW r \in State, HeapOK(r),
           r.topChunk = k.topChunk, r.initial_heap_size = k.initial_heap_size,
           SameBins(k, r), SameVictim(k, r),
           \A w \in 1 .. k.topChunk : r.mem[w] = k.mem[w],
           Behind(r.mem, r.topChunk, r.topChunkSize)
    PROVE  Good(r, E) /\ Kept(k, r)
  <1>1. PICK m, n, top : m = k.mem /\ n = r.mem /\ top = k.topChunk
    OBVIOUS
  <1>2. /\ Seg(m, 0, TRUE, top, TRUE, E) /\ top \in Nat /\ top = r.topChunk
        /\ \A w \in 1 .. top : n[w] = m[w]
        /\ BinInv(k, ForBins(k), m) /\ VictimOK(k)
    BY <1>1 DEF Good, Layout, Behind
  <1>3. /\ FreeIn(n, top) = FreeIn(m, top) /\ UsedIn(n, top) = UsedIn(m, top)
        /\ SizesKept(m, n, FreeIn(m, top) \cup UsedIn(m, top))
    BY <1>2, PrefixSets
  <1>4. Seg(n, 0, TRUE, top, TRUE, E)
    <2>1. PICK z, t : z = 0 /\ t = TRUE
      OBVIOUS
    <2>2. Seg(m, z, t, top, t, E)
      BY <1>2, <2>1, Zenon
    <2>4. \A w \in z + 1 .. top : n[w] = m[w] /\ (w \in E => w \in E)
      BY <1>2, <2>1
    <2>3. Seg(n, z, t, top, t, E)
      BY <2>2, <2>4, SegFrame
    <2> QED
      BY <2>1, <2>3
  <1>5. Layout(r.mem, r.topChunk, r.topChunkSize, E)
    BY <1>1, <1>2, <1>4 DEF Layout
  <1>6. ForBins(r) = ForBins(k) /\ ForBins(k) \subseteq FreeIn(m, top)
    BY <1>1, <1>2, <1>3 DEF ForBins, SameVictim
  <1>7. BinInv(r, ForBins(r), n)
    <2>1. \A b \in ForBins(k) : n[b + 1].size = m[b + 1].size
      BY <1>3, <1>6 DEF SizesKept
    <2>2. BinInv(r, ForBins(k), n)
      BY <1>2, <2>1, BinFrame
    <2> QED
      BY <1>6, <2>2
  <1>8. VictimOK(r)
    BY <1>1, <1>2, <1>3 DEF VictimOK, SameVictim, SizesKept
  <1>9. Kept(k, r)
    BY <1>1, <1>2, <1>3 DEF Kept, SizesKept
  <1> QED
    BY <1>1, <1>5, <1>7, <1>8, <1>9 DEF Good

(* The top chunk and the heap get another size. What was behind the top    *)
(* chunk is forgotten up to word y, the old dummy at least.                *)
LEMMA TopResize ==
    ASSUME NEW k, NEW E, Good(k, E), NEW y \in Int, y > k.topChunk + k.topChunkSize,
           NEW h \in Nat, h % HEAP_SIZE_ALIGN = 0, k.initial_heap_size <= h, h <= HEAP_LIMIT,
           NEW s \in Nat, s >= 2, s % 2 = 0, k.topChunk + s + 2 <= h,
           NEW k1, k1 = SetHeapSize(k, h, s),
           NEW k2, k2 = Forget(k1, k.topChunk + 1, y),
           NEW k3, k3 = SetFree(k2, k.topChunk, s), NEW r, r = SetDummy(k3, k.topChunk + s)
    PROVE  /\ Good(r, E) /\ Kept(k, r)
           /\ r.heap_size = h /\ r.topChunk = k.topChunk /\ r.topChunkSize = s
  <1>1. PICK m, n, top, ts, c : m = k.mem /\ n = r.mem /\ top = k.topChunk /\ ts = k.topChunkSize /\ c = top + s
    OBVIOUS
  <1>2. /\ k \in State /\ HeapOK(k) /\ Behind(m, top, ts) /\ top \in Nat /\ ts \in Nat /\ c \in Nat
        /\ top % 2 = 0 /\ HEAP_LIMIT \in Nat /\ c + 2 <= h
    BY <1>1, KMallocAssumption DEF Good, Layout, Behind
  <1>3. /\ k1 \in State /\ k1.mem = m /\ k1.topChunk = top /\ k1.topChunkSize = s
        /\ k1.heap_size = h /\ k1.heap_start = k.heap_start
        /\ k1.initial_heap_size = k.initial_heap_size /\ k1.aborted = k.aborted
        /\ SameBins(k, k1) /\ SameVictim(k, k1)
    <2>1. k1 \in State /\ OnlySizes(k, k1, h, s)
      BY <1>2, SetSizesEffect
    <2> QED
      BY <1>1, <2>1 DEF OnlySizes
  <1>4. /\ k2 \in State /\ OnlyMem(k1, k2)
        /\ \A w \in Words : k2.mem[w] = IF top + 1 <= w /\ w <= y THEN NULL ELSE m[w]
    <2>1. PICK x : x = top + 1
      OBVIOUS
    <2>2. x \in Int /\ k2 = Forget(k1, x, y)
      BY <1>1, <1>2, <2>1
    <2>3. /\ k2 \in State /\ OnlyMem(k1, k2)
          /\ \A w \in Words : k2.mem[w] = IF x <= w /\ w <= y THEN NULL ELSE k1.mem[w]
      BY <1>3, <2>2, ForgetEffect
    <2> QED
      BY <1>3, <2>1, <2>3
  <1>5. top + 1 \in Words /\ top + s \in Words /\ c + 1 \in Words
    BY <1>1, <1>2 DEF Words
  <1>6. /\ k3 \in State /\ OnlyMem(k2, k3)
        /\ k3.mem[top + 1] = [size |-> s, pinuse |-> TRUE, cinuse |-> FALSE]
        /\ k3.mem[top + s] = [foot |-> s]
        /\ \A w \in Words : w # top + 1 /\ w # top + s => k3.mem[w] = k2.mem[w]
    <2>1. k2 \in State /\ top \in Nat /\ s \in Nat /\ s >= 2 /\ k3 = SetFree(k2, top, s)
      BY <1>1, <1>2, <1>4
    <2>2. FreeSet(k2, k3, top, s)
      BY ONLY <2>1, <1>5, SetFreeDone
    <2> QED
      BY ONLY <2>2 DEF FreeSet
  <1>7. /\ r \in State /\ OnlyMem(k3, r)
        /\ r.mem[c + 1] = [size |-> 0, pinuse |-> FALSE, cinuse |-> FALSE]
        /\ \A w \in Words : w # c + 1 => r.mem[w] = k3.mem[w]
    <2>1. k3 \in State /\ c \in Nat /\ r = SetDummy(k3, c)
      BY <1>1, <1>2, <1>6
    <2> QED
      BY <2>1, <1>5, SetDummyEffect
  <1>8. /\ n[top + 1] = [size |-> s, pinuse |-> TRUE, cinuse |-> FALSE] /\ n[top + s] = [foot |-> s]
        /\ n[c + 1] = [size |-> 0, pinuse |-> FALSE, cinuse |-> FALSE]
        /\ \A w \in Words : w # top + 1 /\ w # top + s /\ w # c + 1 =>
               n[w] = IF top + 1 <= w /\ w <= y THEN NULL ELSE m[w]
    BY <1>1, <1>2, <1>4, <1>5, <1>6, <1>7
  <1>9. OnlyMem(k1, r)
    <2>1. OnlyMem(k1, k3)
      BY <1>4, <1>6, OnlyMemTrans
    <2> QED
      BY <2>1, <1>7, OnlyMemTrans
  <1>10. /\ r.topChunk = top /\ r.topChunkSize = s /\ r.heap_size = h
         /\ r.initial_heap_size = k.initial_heap_size /\ r.heap_start = k.heap_start /\ r.aborted = k.aborted
         /\ SameBins(k, r) /\ SameVictim(k, r)
    BY <1>3, <1>9 DEF OnlyMem, SameHeap, SameBins, SameVictim, SameTop
  <1>11. HeapOK(r)
    BY <1>1, <1>2, <1>10 DEF HeapOK
  <1>12. \A w \in 1 .. top : n[w] = m[w]
    <2>1. SUFFICES ASSUME NEW w \in 1 .. top PROVE n[w] = m[w]
      OBVIOUS
    <2>2. w \in Words /\ w # top + 1 /\ w # top + s /\ w # c + 1 /\ ~(top + 1 <= w)
      BY <1>1, <1>2 DEF Words
    <2> QED
      BY <2>2, <1>8
  <1>13. Behind(n, top, s)
    <2>1. ASSUME NEW b \in top + 1 .. HEAP_LIMIT - 1, b # top + s, IsChunk(n, b)
          PROVE  FALSE
      <3>1. b \in Nat /\ b > top /\ b < HEAP_LIMIT /\ b % 2 = 0 /\ n[b + 1] # NULL
        BY <1>2, <2>1 DEF IsChunk
      <3>2. b + 1 < HEAP_LIMIT
        BY <3>1, KMallocAssumption DEF CHUNK_ALIGN_ON
      <3>3. b + 1 \in Words /\ b + 1 # top + 1 /\ b + 1 # top + s /\ b + 1 # c + 1
        BY <1>1, <1>2, <2>1, <3>1, <3>2 DEF Words
      <3>4. n[b + 1] = m[b + 1] /\ b + 1 > y
        BY <1>2, <1>8, <3>1, <3>3
      <3>5. b # top + ts
        BY <1>1, <1>2, <3>1, <3>4
      <3>6. ~IsChunk(m, b)
        BY <1>2, <2>1, <3>5 DEF Behind
      <3> QED
        BY <2>1, <3>4, <3>6 DEF IsChunk
    <2>2. n[top + s + 1] = [size |-> 0, pinuse |-> FALSE, cinuse |-> FALSE]
      BY <1>1, <1>8
    <2>3. top + s + 2 <= HEAP_LIMIT
      BY <1>1, <1>2
    <2> QED
      BY <1>2, <1>8, <2>1, <2>2, <2>3 DEF Behind
  <1>14. Good(r, E) /\ Kept(k, r)
    <2>1. /\ r.topChunk = k.topChunk /\ r.initial_heap_size = k.initial_heap_size
          /\ \A w \in 1 .. k.topChunk : r.mem[w] = k.mem[w]
      BY <1>1, <1>10, <1>12
    <2>2. Behind(r.mem, r.topChunk, r.topChunkSize)
      BY <1>1, <1>10, <1>13
    <2> QED
      BY <2>1, <2>2, <1>7, <1>10, <1>11, TopGood
  <1> QED
    BY <1>1, <1>10, <1>14

LEMMA AlignSum ==
    ASSUME NEW x \in Nat, NEW y \in Nat, NEW u \in Nat \ {0}, x % u = 0, y % u = 0
    PROVE  (x + y) % u = 0
  <1>1. PICK p, q : p = x \div u /\ q = y \div u
    OBVIOUS
  <1>2. p \in Nat /\ q \in Nat /\ p * u = x /\ q * u = y
    BY <1>1, DivBounds, DivExact
  <1>3. PICK z, j : z = x + y /\ j = p + q
    OBVIOUS
  <1>4. z \in Nat /\ j \in Int /\ j * u = z
    BY <1>2, <1>3
  <1>5. j * u <= z /\ z < j * u + u
    BY <1>4
  <1>6. z \div u = j
    BY <1>4, <1>5, DivUnique
  <1>7. z % u = z - (z \div u) * u
    BY <1>4, DivBounds
  <1> QED
    BY <1>3, <1>4, <1>6, <1>7

LEMMA MaxPair ==
    ASSUME NEW x \in Int, NEW y \in Int
    PROVE  Max({x, y}) = IF x >= y THEN x ELSE y
  BY DEF Max

LEMMA Alignment == HEAP_SIZE_ALIGN \in Nat \ {0} /\ HEAP_SIZE_ALIGN >= 2 /\ HEAP_LIMIT \in Nat /\ WORD \in Nat \ {0}
  BY KMallocAssumption DEF CHUNK_ALIGN_ON

(* What a larger top chunk is: the blocks are as before.                   *)
Grown(k, g, increment) ==
    /\ Good(g, {}) /\ Kept(k, g) /\ g.topChunk = k.topChunk
    /\ g.topChunkSize >= k.topChunkSize + increment /\ g.heap_size >= k.heap_size

LEMMA GrowGood ==
    ASSUME NEW k, Good(k, {}), NEW increment \in Nat \ {0}, increment + HEAP_SIZE_ALIGN - 1 < WORD,
           NEW g \in grow_top(k, increment)
    PROVE  Grown(k, g, increment)
  <1>1. PICK more : more = RoundUp(increment, HEAP_SIZE_ALIGN)
    OBVIOUS
  <1>2. more \in Nat /\ more >= increment /\ more % HEAP_SIZE_ALIGN = 0
    BY <1>1, Alignment, RoundUpBounds
  <1>3. more % 2 = 0
    BY <1>2, AlignEven
  <1>4. PICK s, h, y : s = k.topChunkSize + more /\ h = k.heap_size + more /\ y = k.topChunk + s
    OBVIOUS
  <1>5. /\ k \in State /\ HeapOK(k) /\ k.topChunk \in Nat /\ k.topChunkSize \in Nat /\ k.topChunkSize % 2 = 0
        /\ k.heap_size \in Nat /\ k.heap_size % HEAP_SIZE_ALIGN = 0 /\ k.initial_heap_size \in Nat
        /\ k.initial_heap_size <= k.heap_size /\ k.topChunk + k.topChunkSize + 2 <= k.heap_size
    BY DEF Good, Layout, Behind, HeapOK, State
  <1>6. /\ k.heap_size + more <= HEAP_LIMIT
        /\ g = SetDummy(SetFree(Forget(SetHeapSize(k, h, s), k.topChunk + 1, y), k.topChunk, s), y)
    <2>1. ~(k.heap_size + more > HEAP_LIMIT) /\ g = SetDummy(SetFree(Forget(SetHeapSize(k, h, s), k.topChunk + 1, y), k.topChunk, s), y)
      BY <1>1, <1>4 DEF grow_top
    <2> QED
      BY <2>1, <1>2, <1>5, Alignment
  <1>7. PICK k1, k2, k3 : /\ k1 = SetHeapSize(k, h, s) /\ k2 = Forget(k1, k.topChunk + 1, y)
                          /\ k3 = SetFree(k2, k.topChunk, s)
    OBVIOUS
  <1>8. /\ h \in Nat /\ h % HEAP_SIZE_ALIGN = 0 /\ k.initial_heap_size <= h /\ h <= HEAP_LIMIT
        /\ h >= k.heap_size
    <2>1. (k.heap_size + more) % HEAP_SIZE_ALIGN = 0
      BY <1>2, <1>5, Alignment, AlignSum
    <2> QED
      BY <2>1, <1>2, <1>4, <1>5, <1>6
  <1>9. /\ s \in Nat /\ s >= 2 /\ s % 2 = 0 /\ k.topChunk + s + 2 <= h
        /\ y \in Int /\ y > k.topChunk + k.topChunkSize /\ s >= k.topChunkSize + increment
    BY <1>2, <1>3, <1>4, <1>5
  <1>10. g = SetDummy(k3, k.topChunk + s)
    BY <1>4, <1>6, <1>7
  <1>11. /\ Good(g, {}) /\ Kept(k, g)
         /\ g.heap_size = h /\ g.topChunk = k.topChunk /\ g.topChunkSize = s
    BY <1>7, <1>8, <1>9, <1>10, TopResize
  <1> QED
    BY <1>8, <1>9, <1>11 DEF Grown

(* The heap is only given back down to these bounds.                       *)
Shrinks(k, r) ==
    r.heap_size < k.heap_size =>
        r.heap_size >= k.initial_heap_size /\ r.topChunkSize >= HEAP_SIZE_ALIGN

LEMMA ShrinkGood ==
    ASSUME NEW k, NEW E, Good(k, E), NEW r, r = shrink_top(k)
    PROVE  Good(r, E) /\ Kept(k, r) /\ Shrinks(k, r) /\ r.heap_size <= k.heap_size
  <1>1. PICK h, s, A : h = ShrunkSize(k) /\ s = k.topChunkSize - (k.heap_size - h) /\ A = HEAP_SIZE_ALIGN
    OBVIOUS
  <1>2. /\ k \in State /\ HeapOK(k) /\ k.topChunk \in Nat /\ k.topChunkSize \in Nat /\ k.topChunkSize % 2 = 0
        /\ k.heap_size \in Nat /\ k.heap_size % A = 0 /\ k.initial_heap_size \in Nat
        /\ k.initial_heap_size <= k.heap_size /\ k.topChunk + k.topChunkSize + 2 <= k.heap_size
        /\ k.heap_size <= HEAP_LIMIT
    BY <1>1 DEF Good, Layout, Behind, HeapOK, State
  <1>3. CASE k.topChunkSize <= A \/ k.heap_size < k.initial_heap_size \/ h = k.heap_size
    <2>1. r = k
      BY <1>1, <1>3 DEF shrink_top
    <2>2. Kept(k, k) /\ Shrinks(k, k)
      BY <1>2 DEF Kept, SizesKept, Shrinks
    <2> QED
      BY <1>2, <2>1, <2>2
  <1>4. CASE ~(k.topChunkSize <= A \/ k.heap_size < k.initial_heap_size \/ h = k.heap_size)
    <2>1. A \in Nat \ {0} /\ A >= 2 /\ HEAP_LIMIT \in Nat /\ WORD \in Nat /\ 2 * HEAP_LIMIT < WORD /\ k.topChunkSize > A
      BY <1>1, <1>2, <1>4, Alignment, KMallocAssumption
    <2>2. PICK x : x = Max({k.heap_size - (k.topChunkSize - A), k.initial_heap_size})
      OBVIOUS
    <2>3. x \in Nat /\ x <= k.heap_size /\ x >= k.heap_size - (k.topChunkSize - A) /\ x >= k.initial_heap_size
      <3>1. k.heap_size - (k.topChunkSize - A) \in Int
        BY <1>2, <2>1
      <3>2. x = IF k.heap_size - (k.topChunkSize - A) >= k.initial_heap_size
                THEN k.heap_size - (k.topChunkSize - A) ELSE k.initial_heap_size
        BY <1>2, <2>2, <3>1, MaxPair
      <3> QED
        BY <1>2, <2>1, <3>2
    <2>4. h = RoundUp(x, A)
      BY <1>1, <2>2 DEF ShrunkSize
    <2>5. x + A - 1 < WORD
      BY <1>2, <2>1, <2>3
    <2>6. /\ h \in Nat /\ h >= x /\ h % A = 0
          /\ \A z \in Nat : z % A = 0 /\ x <= z => h <= z
      BY <2>1, <2>3, <2>4, <2>5, RoundUpBounds
    <2>7. h <= k.heap_size
      BY <1>2, <2>3, <2>6
    <2>8. h % 2 = 0 /\ k.heap_size % 2 = 0
      BY <1>1, <1>2, <2>6, AlignEven
    <2>9. s \in Nat /\ s >= A /\ s >= 2 /\ s % 2 = 0 /\ k.topChunk + s + 2 <= h /\ s # 0
      <3>1. PICK g, t, p : g = k.heap_size /\ t = k.topChunkSize /\ p = k.topChunk
        OBVIOUS
      <3>2. /\ g \in Nat /\ t \in Nat /\ p \in Nat /\ h \in Nat /\ A \in Nat /\ A >= 2
            /\ h >= g - (t - A) /\ h <= g /\ p + t + 2 <= g
        BY <1>2, <2>1, <2>3, <2>6, <2>7, <3>1
      <3>3. h % 2 = 0 /\ g % 2 = 0 /\ t % 2 = 0 /\ s = t - (g - h)
        BY <1>1, <1>2, <2>8, <3>1
      <3>4. s \in Nat /\ s >= A /\ p + s + 2 <= h
        BY <3>2, <3>3
      <3>5. s % 2 = 0
        BY <3>2, <3>3, <3>4
      <3> QED
        BY <3>1, <3>2, <3>4, <3>5
    <2>10. PICK k1, k2, k3 : /\ k1 = SetHeapSize(k, h, s) /\ k2 = Forget(k1, k.topChunk + 1, HEAP_LIMIT)
                             /\ k3 = SetFree(k2, k.topChunk, s)
      OBVIOUS
    <2>11. r = SetDummy(k3, k.topChunk + s)
      BY <1>1, <1>4, <2>9, <2>10 DEF shrink_top
    <2>12. /\ h \in Nat /\ h % HEAP_SIZE_ALIGN = 0 /\ k.initial_heap_size <= h /\ h <= HEAP_LIMIT
           /\ HEAP_LIMIT \in Int /\ HEAP_LIMIT > k.topChunk + k.topChunkSize
      BY <1>1, <1>2, <2>1, <2>3, <2>6, <2>7
    <2>13. /\ Good(r, E) /\ Kept(k, r)
           /\ r.heap_size = h /\ r.topChunk = k.topChunk /\ r.topChunkSize = s
      BY <2>9, <2>10, <2>11, <2>12, TopResize
    <2> QED
      BY <1>1, <2>7, <2>9, <2>12, <2>13 DEF Shrinks
  <1> QED
    BY <1>3, <1>4

(* The top chunk's first s words become a block.                           *)
TopTakes(k, r, a, s) ==
    /\ r \in State /\ HeapOK(r) /\ a = k.topChunk /\ r.topChunk = a + s
    /\ r.heap_size = k.heap_size /\ r.initial_heap_size = k.initial_heap_size
    /\ SameBins(k, r) /\ SameVictim(k, r)
    /\ \A w \in 1 .. a : r.mem[w] = k.mem[w]
    /\ r.mem[a + 1] = [size |-> s, pinuse |-> TRUE, cinuse |-> TRUE]
    /\ \A b \in a + 1 .. a + s - 1 : ~IsChunk(r.mem, b)
    /\ Behind(r.mem, a + s, r.topChunkSize)

LEMMA TopTakesGrants ==
    ASSUME NEW k, Good(k, {}), NEW s, ReqOK(s), NEW r, NEW a, TopTakes(k, r, a, s)
    PROVE  Granting(k, r, a, s)
  <1>1. PICK m, n, c : m = k.mem /\ n = r.mem /\ c = a + s
    OBVIOUS
  <1> DEFINE F == a + 2 .. a + s
  <1>2. /\ Seg(m, 0, TRUE, a, TRUE, {}) /\ a \in Nat /\ a % 2 = 0 /\ BinInv(k, ForBins(k), m)
        /\ VictimOK(k) /\ s \in Nat /\ s % 2 = 0 /\ s >= 4 /\ a = k.topChunk
        /\ ForBins(k) = FreeIn(m, a) \ {k.dVictim}
    BY <1>1 DEF Good, Layout, Behind, ReqOK, TopTakes, ForBins
  <1>3. /\ r \in State /\ HeapOK(r) /\ r.topChunk = c
        /\ r.heap_size = k.heap_size /\ r.initial_heap_size = k.initial_heap_size
        /\ SameBins(k, r) /\ SameVictim(k, r)
        /\ \A w \in 1 .. a : n[w] = m[w]
        /\ n[a + 1] = [size |-> s, pinuse |-> TRUE, cinuse |-> TRUE]
        /\ \A b \in a + 1 .. a + s - 1 : ~IsChunk(n, b)
        /\ Behind(n, c, r.topChunkSize)
    BY <1>1 DEF TopTakes
  <1>4. PICK t, z : t = TRUE /\ z = 0
    OBVIOUS
  <1>5. Seg(n, z, t, a, t, F)
    <2>1. Seg(m, z, t, a, t, {})
      BY <1>2, <1>4, Zenon
    <2>2. \A w \in z + 1 .. a : n[w] = m[w] /\ (w \in {} => w \in F)
      BY <1>3, <1>4
    <2> HIDE DEF F
    <2> QED
      BY <2>1, <2>2, SegFrame
  <1>6. Seg(n, a, t, c, t, F)
    <2>1. t \in BOOLEAN /\ n[a + 1] = [size |-> s, pinuse |-> t, cinuse |-> t]
      BY <1>3, <1>4
    <2>2. \A w \in a + 2 .. a + s : w \in F \/ n[w] = DATA
      OBVIOUS
    <2>3. ~t => t /\ n[a + s] = [foot |-> s]
      BY <1>4
    <2> HIDE DEF F
    <2>4. Seg(n, a, t, a + s, t, F)
      BY <2>1, <2>2, <2>3, <1>2, <1>3, SegOne
    <2> QED
      BY <2>4, <1>1
  <1>7. Layout(n, c, r.topChunkSize, F)
    <2> HIDE DEF F
    <2>1. Seg(n, z, t, c, t, F)
      BY <1>5, <1>6, SegJoin
    <2>2. Seg(n, 0, TRUE, c, TRUE, F)
      BY ONLY <1>4, <2>1
    <2> QED
      BY <2>2, <1>3 DEF Layout
  <1>8. /\ FreeIn(n, a) = FreeIn(m, a) /\ UsedIn(n, a) = UsedIn(m, a)
        /\ SizesKept(m, n, FreeIn(m, a) \cup UsedIn(m, a))
    <2>1. a \in Nat /\ \A w \in 1 .. a : n[w] = m[w]
      BY ONLY <1>2, <1>3
    <2> QED
      BY ONLY <2>1, PrefixSets
  <1>9. IsChunk(n, a) /\ n[a + 1].cinuse = TRUE /\ n[a + 1].size = s
    <2>1. t \in BOOLEAN /\ n[a + 1] = [size |-> s, pinuse |-> t, cinuse |-> t]
      BY <1>3, <1>4
    <2>2. IsChunk(n, a) /\ n[a + 1].cinuse = t /\ n[a + 1].size = s
      BY <2>1, <1>2, NewHeader
    <2> QED
      BY <2>2, <1>4
  <1>10. FreeIn(n, c) = FreeIn(m, a) /\ UsedIn(n, c) = UsedIn(m, a) \cup {a} /\ a \notin UsedIn(m, a)
    <2>1. \A b : b \in 0 .. c - 1 <=> b \in 0 .. a - 1 \/ b = a \/ b \in a + 1 .. a + s - 1
      BY <1>1, <1>2
    <2>2. FreeIn(n, c) = FreeIn(n, a) /\ UsedIn(n, c) = UsedIn(n, a) \cup {a}
      BY <2>1, <1>3, <1>9 DEF FreeIn, UsedIn
    <2>3. a \notin UsedIn(m, a)
      BY <1>2 DEF UsedIn
    <2> QED
      BY <2>2, <2>3, <1>8
  <1>11. ForBins(r) = ForBins(k) /\ ForBins(k) \subseteq FreeIn(m, a)
    BY <1>1, <1>2, <1>3, <1>10 DEF ForBins, SameVictim
  <1>12. BinInv(r, ForBins(r), n)
    <2>1. \A b \in ForBins(k) : n[b + 1].size = m[b + 1].size
      BY <1>8, <1>11 DEF SizesKept
    <2>2. BinInv(r, ForBins(k), n)
      BY <1>2, <1>3, <2>1, BinFrame
    <2> QED
      BY <1>11, <2>2
  <1>13. VictimOK(r)
    BY <1>1, <1>2, <1>3, <1>8, <1>10 DEF VictimOK, SameVictim, SizesKept
  <1>14. Good(r, a + 2 .. a + n[a + 1].size)
    BY <1>1, <1>3, <1>7, <1>9, <1>12, <1>13 DEF Good
  <1>15. SizesKept(m, n, UsedIn(m, a))
    BY <1>8 DEF SizesKept
  <1>16. r.heap_size >= k.heap_size /\ s >= s
    BY <1>2, <1>3 DEF State
  <1> QED
    BY <1>1, <1>2, <1>3, <1>9, <1>10, <1>14, <1>15, <1>16 DEF Granting

LEMMA SplitTopGrants ==
    ASSUME NEW k, Good(k, {}), NEW s, ReqOK(s), k.topChunkSize >= s, NEW r, r = SplitTop(k, s)
    PROVE  Granting(k, r, k.topChunk, s)
  <1>1. PICK m, n, a, ts, c, d : /\ m = k.mem /\ n = r.mem /\ a = k.topChunk /\ ts = k.topChunkSize
                                 /\ c = a + s /\ d = ts - s
    OBVIOUS
  <1>2. /\ k \in State /\ HeapOK(k) /\ Behind(m, a, ts) /\ a \in Nat /\ ts \in Nat /\ ts % 2 = 0 /\ a % 2 = 0
        /\ s \in Nat /\ s % 2 = 0 /\ s >= 4 /\ a + ts + 2 <= HEAP_LIMIT /\ a + ts + 2 <= k.heap_size
        /\ k.heap_size \in Nat
        /\ ts >= s
    BY <1>1 DEF Good, Layout, Behind, ReqOK, HeapOK, State
  <1>3. c \in Nat /\ d \in Nat /\ d % 2 = 0 /\ c % 2 = 0 /\ c + d = a + ts /\ HEAP_LIMIT \in Nat /\ HEAP_LIMIT % 2 = 0
    <2>1. HEAP_LIMIT \in Nat /\ HEAP_LIMIT % 2 = 0
      BY KMallocAssumption DEF CHUNK_ALIGN_ON
    <2>2. c \in Nat /\ d \in Nat /\ c + d = a + ts
      BY <1>1, <1>2
    <2>3. c % 2 = 0
      BY <1>1, <1>2
    <2>4. d % 2 = 0
      BY <1>1, <1>2
    <2> QED
      BY <2>1, <2>2, <2>3, <2>4
  <1>8. c > a /\ c >= a + 4 /\ c + d + 2 <= HEAP_LIMIT /\ c + 2 <= HEAP_LIMIT
    BY <1>1, <1>2, <1>3
  <1>4. a + 1 \in Words /\ c \in Words /\ c + 1 \in Words /\ c + d \in Words
    BY <1>1, <1>2, <1>3 DEF Words
  <1>5. PICK t : t = TRUE
    OBVIOUS
  <1>6. CASE d < 4
    <2>1. PICK k1, k2, k3, z, x : /\ k1 = SetTop(k, c, z) /\ k2 = Forget(k1, x, HEAP_LIMIT)
                                  /\ k3 = SetHeader(k2, a, s, t, t) /\ z = 0 /\ x = a + 1
      OBVIOUS
    <2>2. r = SetDummy(k3, c)
      BY <1>1, <1>5, <1>6, <2>1 DEF SplitTop, MINCHUNKSIZE
    <2>3. /\ k1 \in State /\ k1.mem = k.mem /\ k1.topChunk = c /\ k1.topChunkSize = z
          /\ SameHeap(k, k1) /\ SameBins(k, k1) /\ SameVictim(k, k1)
      <3>1. k \in State /\ c \in Nat /\ z \in Nat /\ k1 = SetTop(k, c, z)
        BY <1>2, <1>3, <2>1
      <3>2. k1 \in State /\ OnlyTop(k, k1, c, z)
        BY <3>1, SetTopEffect
      <3> QED
        BY <3>2 DEF OnlyTop
    <2>4. /\ k2 \in State /\ OnlyMem(k1, k2)
          /\ \A w \in Words : k2.mem[w] = IF x <= w /\ w <= HEAP_LIMIT THEN NULL ELSE k1.mem[w]
      <3>1. x \in Int /\ HEAP_LIMIT \in Int
        BY <1>2, <1>3, <2>1
      <3> QED
        BY <3>1, <2>1, <2>3, ForgetEffect
    <2>5. /\ k3 \in State /\ OnlyMem(k2, k3)
          /\ k3.mem[a + 1] = [size |-> s, pinuse |-> t, cinuse |-> t]
          /\ \A w \in Words : w # a + 1 => k3.mem[w] = k2.mem[w]
      <3>1. k2 \in State /\ a \in Nat /\ a + 1 \in Words /\ s \in Nat /\ t \in BOOLEAN
        BY <1>2, <1>4, <1>5, <2>4
      <3>2. HeaderSet(k2, k3, a, s, t, t)
        BY ONLY <3>1, <2>1, SetHeaderDone
      <3> QED
        BY ONLY <3>2 DEF HeaderSet
    <2>6. /\ r \in State /\ OnlyMem(k3, r)
          /\ n[c + 1] = [size |-> 0, pinuse |-> FALSE, cinuse |-> FALSE]
          /\ \A w \in Words : w # c + 1 => n[w] = k3.mem[w]
      <3>1. /\ r \in State /\ OnlyMem(k3, r)
            /\ r.mem[c + 1] = [size |-> 0, pinuse |-> FALSE, cinuse |-> FALSE]
            /\ \A w \in Words : w # c + 1 => r.mem[w] = k3.mem[w]
        <4>1. k3 \in State /\ c \in Nat /\ c + 1 \in Words
          BY <1>3, <1>4, <2>5
        <4> QED
          BY ONLY <4>1, <2>2, SetDummyEffect
      <3> QED
        BY <3>1, <1>1
    <2>7. OnlyMem(k1, r)
      <3>1. OnlyMem(k1, k3)
        BY <2>4, <2>5, OnlyMemTrans
      <3> QED
        BY <3>1, <2>6, OnlyMemTrans
    <2>8. /\ SameHeap(k, r) /\ SameBins(k, r) /\ SameVictim(k, r) /\ r.topChunk = c /\ r.topChunkSize = 0
      BY <2>1, <2>3, <2>7 DEF OnlyMem, SameHeap, SameBins, SameVictim, SameTop
    <2>9. \A w \in Words : /\ w <= a => n[w] = m[w]
                           /\ w > a + 1 /\ w # c + 1 => n[w] = NULL
      <3>1. ASSUME NEW w \in Words, w <= a PROVE n[w] = m[w]
        <4>1. w # c + 1 /\ w # a + 1 /\ ~(x <= w)
          BY <1>1, <1>2, <2>1, <3>1 DEF Words
        <4> QED
          BY <4>1, <1>1, <2>3, <2>4, <2>5, <2>6
      <3>2. ASSUME NEW w \in Words, w > a + 1, w # c + 1 PROVE n[w] = NULL
        <4>1. w # a + 1 /\ x <= w /\ w <= HEAP_LIMIT
          BY <1>2, <1>3, <2>1, <3>2 DEF Words
        <4> QED
          BY <4>1, <3>2, <2>4, <2>5, <2>6
      <3> QED
        BY <3>1, <3>2
    <2>10. n[a + 1] = [size |-> s, pinuse |-> TRUE, cinuse |-> TRUE]
      <3>1. n[a + 1] = k3.mem[a + 1]
        BY <1>1, <1>2, <1>4, <2>6
      <3> QED
        BY <3>1, <1>5, <2>5
    <2>11. \A b \in a + 1 .. HEAP_LIMIT - 1 : b # c => ~IsChunk(n, b)
      <3>1. SUFFICES ASSUME NEW b \in a + 1 .. HEAP_LIMIT - 1, b # c, b % 2 = 0 PROVE ~IsChunk(n, b)
        BY DEF IsChunk
      <3>2. b + 1 \in Words /\ b + 1 > a + 1 /\ b + 1 # c + 1
        BY <1>2, <1>3, <3>1 DEF Words
      <3> QED
        BY <3>2, <2>9 DEF IsChunk
    <2>12. Behind(n, c, 0)
      <3>1. \A b \in c + 1 .. HEAP_LIMIT - 1 : ~IsChunk(n, b)
        BY <1>2, <1>3, <1>8, <2>11
      <3>2. c + 0 = c /\ c + 0 + 1 = c + 1 /\ c + 0 + 2 <= HEAP_LIMIT
        BY <1>3, <1>8
      <3> QED
        BY <3>1, <3>2, <1>3, <2>6 DEF Behind
    <2>13. TopTakes(k, r, a, s)
      <3>1. HeapOK(r)
        BY <1>1, <1>2, <2>8 DEF HeapOK, SameHeap
      <3>2. \A w \in 1 .. a : n[w] = m[w]
        BY <1>2, <1>3, <2>9 DEF Words
      <3>3. \A b \in a + 1 .. a + s - 1 : ~IsChunk(n, b)
        BY <1>1, <1>2, <1>3, <2>11
      <3>4. Behind(n, a + s, r.topChunkSize)
        BY <1>1, <2>8, <2>12
      <3> QED
        BY <1>1, <2>6, <2>8, <2>10, <3>1, <3>2, <3>3, <3>4 DEF TopTakes, SameHeap
    <2> QED
      BY <1>1, <2>13, TopTakesGrants
  <1>7. CASE ~(d < 4)
    <2>1. PICK k1, k2, f : k1 = SetHeader(k, a, s, t, t) /\ k2 = SetFree(k1, c, d) /\ f = FALSE
      OBVIOUS
    <2>2. r = SetTop(k2, c, d)
      <3>1. m[a + 1].size = ts
        BY <1>2 DEF Behind
      <3>2. k2 = Split(k, a, s)
        BY <3>1, <1>1, <1>5, <2>1 DEF Split, GETCHUNKSIZE, Header
      <3> QED
        BY <3>2, <1>1, <1>7 DEF SplitTop, MINCHUNKSIZE
    <2>3. /\ k1 \in State /\ OnlyMem(k, k1)
          /\ k1.mem[a + 1] = [size |-> s, pinuse |-> t, cinuse |-> t]
          /\ \A w \in Words : w # a + 1 => k1.mem[w] = k.mem[w]
      <3>1. t \in BOOLEAN
        BY <1>5
      <3> QED
        BY <3>1, <1>2, <1>4, <2>1, SetHeaderEffect
    <2>4. /\ k2 \in State /\ OnlyMem(k1, k2)
          /\ k2.mem[c + 1] = [size |-> d, pinuse |-> TRUE, cinuse |-> FALSE]
          /\ k2.mem[c + d] = [foot |-> d]
          /\ \A w \in Words : w # c + 1 /\ w # c + d => k2.mem[w] = k1.mem[w]
      <3>1. /\ k1 \in State /\ c \in Nat /\ d \in Nat /\ d >= 2 /\ c + 1 \in Words /\ c + d \in Words
            /\ k2 = SetFree(k1, c, d)
        BY <1>3, <1>4, <1>7, <2>1, <2>3
      <3>2. FreeSet(k1, k2, c, d)
        BY ONLY <3>1, SetFreeDone
      <3> QED
        BY ONLY <3>2 DEF FreeSet
    <2>5. /\ r \in State /\ r.mem = k2.mem /\ r.topChunk = c /\ r.topChunkSize = d
          /\ SameHeap(k2, r) /\ SameBins(k2, r) /\ SameVictim(k2, r)
      <3>1. k2 \in State /\ c \in Nat /\ d \in Nat
        BY <1>3, <2>4
      <3>2. r \in State /\ OnlyTop(k2, r, c, d)
        BY <3>1, <2>2, SetTopEffect
      <3> QED
        BY <3>2 DEF OnlyTop
    <2>6. SameHeap(k, r) /\ SameBins(k, r) /\ SameVictim(k, r)
      BY <2>3, <2>4, <2>5 DEF OnlyMem, SameHeap, SameBins, SameVictim
    <2>7. /\ n[c + 1] = [size |-> d, pinuse |-> TRUE, cinuse |-> FALSE] /\ n[c + d] = [foot |-> d]
          /\ \A w \in Words : w # a + 1 /\ w # c + 1 /\ w # c + d => n[w] = m[w]
      BY <1>1, <2>3, <2>4, <2>5
    <2>8. n[a + 1] = [size |-> s, pinuse |-> TRUE, cinuse |-> TRUE]
      <3>1. a + 1 # c + 1 /\ a + 1 # c + d
        BY <1>1, <1>2, <1>3
      <3> QED
        BY <3>1, <1>1, <1>4, <1>5, <2>3, <2>4, <2>5
    <2>9. \A b \in a + 1 .. HEAP_LIMIT - 1 : b # c /\ b # c + d => ~IsChunk(n, b)
      <3>1. SUFFICES ASSUME NEW b \in a + 1 .. HEAP_LIMIT - 1, b # c, b # c + d, b % 2 = 0 PROVE ~IsChunk(n, b)
        BY DEF IsChunk
      <3>2. b + 1 \in Words /\ b + 1 # a + 1 /\ b + 1 # c + 1 /\ b + 1 # c + d
        BY <1>2, <1>3, <3>1 DEF Words
      <3>3. ~IsChunk(m, b)
        BY <1>2, <1>3, <3>1 DEF Behind
      <3> QED
        BY <3>2, <3>3, <2>7 DEF IsChunk
    <2>10. Behind(n, c, d)
      <3>1. n[c + d + 1] = [size |-> 0, pinuse |-> FALSE, cinuse |-> FALSE]
        <4>1. m[c + d + 1] = [size |-> 0, pinuse |-> FALSE, cinuse |-> FALSE]
          BY <1>2, <1>3 DEF Behind
        <4>2. c + d + 1 \in Words /\ c + d + 1 # a + 1 /\ c + d + 1 # c + 1 /\ c + d + 1 # c + d
          BY <1>1, <1>2, <1>3, <1>7 DEF Words
        <4> QED
          BY <4>1, <4>2, <2>7
      <3>2. \A b \in c + 1 .. HEAP_LIMIT - 1 : b # c + d => ~IsChunk(n, b)
        BY <1>1, <1>2, <1>3, <2>9
      <3>3. c + d + 2 <= HEAP_LIMIT
        BY <1>2, <1>3
      <3> QED
        BY <3>1, <3>2, <3>3, <1>3, <2>7 DEF Behind
    <2>11. TopTakes(k, r, a, s)
      <3>1. HeapOK(r)
        <4>1. c + d + 2 <= k.heap_size
          BY <1>2, <1>3
        <4> QED
          BY <4>1, <1>1, <1>2, <2>5, <2>6 DEF HeapOK, SameHeap
      <3>2. \A w \in 1 .. a : n[w] = m[w]
        <4>1. SUFFICES ASSUME NEW w \in 1 .. a PROVE n[w] = m[w]
          OBVIOUS
        <4>2. w \in Words /\ w # a + 1 /\ w # c + 1 /\ w # c + d
          BY <1>1, <1>2, <1>3 DEF Words
        <4> QED
          BY <4>2, <2>7
      <3>3. \A b \in a + 1 .. a + s - 1 : ~IsChunk(n, b)
        BY <1>1, <1>2, <1>3, <2>9
      <3>4. Behind(n, a + s, r.topChunkSize)
        BY <1>1, <2>5, <2>10
      <3> QED
        BY <1>1, <2>5, <2>6, <2>8, <3>1, <3>2, <3>3, <3>4 DEF TopTakes, SameHeap
    <2> QED
      BY <1>1, <2>11, TopTakesGrants
  <1> QED
    BY <1>3, <1>6, <1>7

LEMMA MinNat ==
    ASSUME NEW S, S \subseteq Nat, S # {}
    PROVE  Min(S) \in S /\ \A y \in S : Min(S) <= y
  <1>1. \E x \in S : \A y \in S : x <= y
    BY LeastNat
  <1> QED
    BY <1>1 DEF Min

LEMMA GrantedFromGrown ==
    ASSUME NEW k, NEW g, NEW d, Good(k, {}), Grown(k, g, d), NEW r, NEW a, NEW s, Granting(g, r, a, s)
    PROVE  Granting(k, r, a, s)
  <1>1. UsedIn(g.mem, g.topChunk) = UsedIn(k.mem, k.topChunk) /\ SizesKept(k.mem, g.mem, UsedIn(k.mem, k.topChunk))
    BY DEF Grown, Kept
  <1>2. SizesKept(k.mem, r.mem, UsedIn(k.mem, k.topChunk))
    BY <1>1 DEF Granting, SizesKept
  <1>3. k.heap_size \in Nat /\ g.heap_size \in Nat /\ r.heap_size \in Nat
    BY DEF Grown, Granting, Good, State
  <1>4. r.heap_size >= k.heap_size /\ r.initial_heap_size = k.initial_heap_size
    BY <1>3 DEF Grown, Kept, Granting
  <1> QED
    BY <1>1, <1>2, <1>4 DEF Granting

(* No free chunk is large enough for s words, or the search for them in    *)
(* the last bin is undefined.                                              *)
BinsShort(k, s) == SearchUndefined(k, s) \/ \A a \in ForBins(k) : k.mem[a + 1].size < s
NoFit(k, s) == BinsShort(k, s) /\ k.dVictimSize < s /\ k.topChunkSize < s

Outcome(k, x, s) == Grants(k, x, s) \/ (x = Nothing(k) /\ NoFit(k, s))

LEMMA TopOutcome ==
    ASSUME NEW k, Good(k, {}), NEW s, ReqOK(s), BinsShort(k, s), k.dVictimSize < s,
           NEW x \in split_top(k, s)
    PROVE  Outcome(k, x, s)
  <1>1. k.topChunkSize \in Nat /\ s \in Nat /\ s >= 4 /\ s + HEAP_SIZE_ALIGN <= WORD
    BY DEF Good, State, ReqOK
  <1>2. CASE k.topChunkSize >= s
    <2>1. PICK r : r = SplitTop(k, s)
      OBVIOUS
    <2>2. x = Payload(r, k.topChunk)
      BY <1>2, <2>1 DEF split_top
    <2>3. Granting(k, r, k.topChunk, s)
      BY <1>2, <2>1, SplitTopGrants
    <2> QED
      BY <2>2, <2>3 DEF Outcome, Grants
  <1>3. CASE ~(k.topChunkSize >= s)
    <2>1. PICK d : d = s - k.topChunkSize
      OBVIOUS
    <2>2. x = Nothing(k) \/ \E g \in grow_top(k, d) : x = Payload(SplitTop(g, s), k.topChunk)
      BY <1>3, <2>1 DEF split_top
    <2>3. CASE x = Nothing(k)
      BY <1>1, <1>3, <2>3 DEF Outcome, NoFit
    <2>4. CASE \E g \in grow_top(k, d) : x = Payload(SplitTop(g, s), k.topChunk)
      <3>1. PICK g \in grow_top(k, d) : x = Payload(SplitTop(g, s), k.topChunk)
        BY <2>4
      <3>2. d \in Nat \ {0} /\ d + HEAP_SIZE_ALIGN - 1 < WORD /\ k.topChunkSize + d = s
        BY <1>1, <1>3, <2>1, Alignment
      <3>3. Grown(k, g, d)
        BY <3>2, GrowGood
      <3>4. PICK r : r = SplitTop(g, s)
        OBVIOUS
      <3>5. Good(g, {}) /\ g.topChunk = k.topChunk /\ g.topChunkSize >= s
        BY <3>2, <3>3 DEF Grown
      <3>6. Granting(g, r, g.topChunk, s)
        BY <3>4, <3>5, SplitTopGrants
      <3>7. Granting(k, r, k.topChunk, s)
        BY <3>3, <3>5, <3>6, GrantedFromGrown
      <3> QED
        BY <3>1, <3>4, <3>7 DEF Outcome, Grants
    <2> QED
      BY <2>2, <2>3, <2>4
  <1> QED
    BY <1>2, <1>3

(* What the bins give: a block, or nothing if the designated victim is     *)
(* better or no chunk in a bin is large enough.                            *)
FromBins(k, x, s) ==
    Grants(k, x, s) \/ (x = Nothing(k) /\ (s <= k.dVictimSize \/ BinsShort(k, s)))

LEMMA TreeChunk ==
    ASSUME NEW k, Good(k, {}), NEW i \in k.tbinmap, NEW a \in k.tbin[i]
    PROVE  /\ i \in 0 .. NTBINS - 1 /\ a \in ForBins(k)
           /\ k.mem[a + 1].size >= MIN_LARGE_SIZE /\ calc_tbin(k.mem[a + 1].size) = i
  <1>1. LargeInv(k, ForBins(k), k.mem) /\ MapsInv(k)
    BY DEF Good, BinInv
  <1>2. i \in 0 .. NTBINS - 1
    BY <1>1 DEF MapsInv
  <1> HIDE DEF MIN_LARGE_SIZE
  <1> QED
    BY <1>1, <1>2 DEF LargeInv

LEMMA BinnedChunk ==
    ASSUME NEW k, Good(k, {}), NEW a \in ForBins(k), NEW z, z = k.mem[a + 1].size
    PROVE  /\ z \in Nat /\ z % 2 = 0 /\ z < WORD
           /\ z < MIN_LARGE_SIZE => small_index(z) \in k.sbinmap
           /\ ~(z < MIN_LARGE_SIZE) => calc_tbin(z) \in k.tbinmap /\ a \in k.tbin[calc_tbin(z)]
  <1>1. MapsInv(k) /\ SizeOK(z) /\ InBin(k, a, z)
    BY DEF Good, BinInv
  <1>2. /\ z < MIN_LARGE_SIZE => small_index(z) \in 0 .. NSBINS - 1
        /\ calc_tbin(z) \in 0 .. NTBINS - 1
    BY <1>1, BinIndex
  <1> HIDE DEF MIN_LARGE_SIZE
  <1>3. ASSUME z < MIN_LARGE_SIZE
        PROVE  small_index(z) \in k.sbinmap
    <2>1. Contains(k.sbin[small_index(z)], a)
      BY <1>1, <1>3 DEF InBin
    <2>2. k.sbin[small_index(z)] # <<>>
      BY <2>1 DEF Contains
    <2> QED
      BY <1>1, <1>2, <1>3, <2>2 DEF MapsInv
  <1>4. ASSUME ~(z < MIN_LARGE_SIZE)
        PROVE  calc_tbin(z) \in k.tbinmap /\ a \in k.tbin[calc_tbin(z)]
    <2>1. a \in k.tbin[calc_tbin(z)]
      BY <1>1, <1>4 DEF InBin
    <2> QED
      BY <1>1, <1>2, <2>1 DEF MapsInv
  <1> QED
    BY <1>1, <1>3, <1>4 DEF SizeOK

LEMMA SmallOutcome ==
    ASSUME NEW k, Good(k, {}), NEW s, ReqOK(s), s < MIN_LARGE_SIZE, NEW x \in FromSmallBins(k, s)
    PROVE  FromBins(k, x, s)
  <1>1. MIN_LARGE_SIZE \in Nat /\ s \in Nat /\ s % 2 = 0 /\ k.dVictimSize \in Nat
    BY BinsAssumption DEF ReqOK, Good, State
  <1> HIDE DEF MIN_LARGE_SIZE
  <1>2. PICK j, near, far : /\ j = small_index(s) /\ near = k.sbinmap \cap {j, j + 1}
                            /\ far = {i \in k.sbinmap : i >= j + 2}
    OBVIOUS
  <1>3. j \in Nat /\ s = 2 * j
    BY <1>1, <1>2 DEF small_index, CHUNK_ALIGN_ON
  <1>4. k.sbinmap \subseteq Nat /\ k.tbinmap \subseteq Nat
    BY DEF Good, State
  <1>5. CASE near # {}
    <2>1. PICK i : i = Min(near)
      OBVIOUS
    <2>2. i \in near
      <3>1. near \subseteq Nat
        BY <1>2, <1>4
      <3> QED
        BY <1>5, <2>1, <3>1, MinNat
    <2>3. i \in k.sbinmap /\ 2 * i >= s
      BY <1>2, <1>3, <2>2
    <2>4. x = allocate_sbin(k, i)
      BY <1>2, <1>5, <2>1 DEF FromSmallBins
    <2> QED
      BY <2>3, <2>4, SbinGrants DEF FromBins
  <1>6. CASE near = {} /\ s > k.dVictimSize /\ far # {}
    <2>1. PICK i : i = Min(far)
      OBVIOUS
    <2>2. i \in far
      <3>1. far \subseteq Nat
        BY <1>2, <1>4
      <3> QED
        BY <1>6, <2>1, <3>1, MinNat
    <2>3. i \in k.sbinmap /\ 2 * i - s >= 4
      BY <1>2, <1>3, <1>4, <2>2
    <2>4. x = split_sbin(k, i, s)
      BY <1>2, <1>6, <2>1 DEF FromSmallBins
    <2> QED
      BY <2>3, <2>4, SbinGrants DEF FromBins
  <1>7. CASE near = {} /\ s > k.dVictimSize /\ far = {} /\ k.tbinmap # {}
    <2>1. PICK i : i = Min(k.tbinmap)
      OBVIOUS
    <2>2. i \in k.tbinmap
      BY <1>4, <1>7, <2>1, MinNat
    <2>3. PICK a \in kmalloc_tree_get_smallest(k, i) : x = allocate_tchunk(k, a, s)
      BY <1>2, <1>7, <2>1 DEF FromSmallBins, allocate_smallest_tbin
    <2>4. a \in k.tbin[i]
      BY DEF kmalloc_tree_get_smallest
    <2>5. a \in ForBins(k) /\ k.mem[a + 1].size >= MIN_LARGE_SIZE
      BY <2>2, <2>4, TreeChunk
    <2>6. k.mem[a + 1].size \in Nat
      BY <2>5, BinnedChunk
    <2>7. k.mem[a + 1].size >= s
      BY <1>1, <2>5, <2>6
    <2> QED
      BY <2>3, <2>5, <2>7, TchunkGrants DEF FromBins
  <1>8. CASE near = {} /\ ~(s > k.dVictimSize /\ far # {}) /\ ~(s > k.dVictimSize /\ far = {} /\ k.tbinmap # {})
    <2>1. x = Nothing(k)
      BY <1>2, <1>8 DEF FromSmallBins
    <2>2. CASE s <= k.dVictimSize
      BY <2>1, <2>2 DEF FromBins
    <2>3. CASE ~(s <= k.dVictimSize)
      <3>1. far = {} /\ k.tbinmap = {}
        BY <1>1, <1>8, <2>3
      <3>2. ASSUME NEW a \in ForBins(k)
            PROVE  k.mem[a + 1].size < s
        <4>1. PICK z : z = k.mem[a + 1].size
          OBVIOUS
        <4>2. z \in Nat /\ z % 2 = 0 /\ small_index(z) \in k.sbinmap
          BY <3>1, <4>1, BinnedChunk
        <4>3. ~(small_index(z) \in {j, j + 1}) /\ ~(small_index(z) >= j + 2)
          BY <1>2, <1>8, <3>1, <4>2
        <4>4. small_index(z) \in Nat /\ z = 2 * small_index(z)
          BY <4>2 DEF small_index, CHUNK_ALIGN_ON
        <4>5. small_index(z) < j
          BY <1>3, <4>3, <4>4
        <4> QED
          BY <1>3, <4>1, <4>4, <4>5
      <3> QED
        BY <2>1, <3>2 DEF FromBins, BinsShort
    <2> QED
      BY <2>2, <2>3
  <1> QED
    BY <1>5, <1>6, <1>7, <1>8

LEMMA TreeOutcome ==
    ASSUME NEW k, Good(k, {}), NEW s, ReqOK(s), ~(s < MIN_LARGE_SIZE), NEW x \in FromTreeBins(k, s)
    PROVE  FromBins(k, x, s)
  <1>1. MIN_LARGE_SIZE \in Nat /\ s \in Nat /\ k.dVictimSize \in Nat /\ s \in 0 .. WORD - 1
    BY BinsAssumption, Alignment DEF ReqOK, Good, State
  <1>2. PICK i, found, larger : /\ i = calc_tbin(s) /\ found = kmalloc_tree_get_best_fit(k, s, i)
                                /\ larger = {j \in k.tbinmap : j > i}
    OBVIOUS
  <1>3. /\ \A a \in ForBins(k) : k.mem[a + 1].size \in 0 .. WORD - 1
        /\ \A z \in 0 .. WORD - 1 : calc_tbin(z) \in Int
        /\ \A z \in 0 .. WORD - 1 : (s <= z => i <= calc_tbin(z)) /\ (z <= s => calc_tbin(z) <= i)
    <2>1. \A a \in ForBins(k) : k.mem[a + 1].size \in 0 .. WORD - 1
      BY BinnedChunk, Alignment
    <2>2. NTBINS \in Nat
      BY KMallocAssumption
    <2>3. \A z \in 0 .. WORD - 1 : calc_tbin(z) \in Int
      BY <2>2, BinsAssumption
    <2> QED
      BY <1>1, <1>2, <2>1, <2>3, BinsAssumption
  <1> HIDE DEF MIN_LARGE_SIZE
  <1>4. \A a \in found : a \in k.tbin[i] /\ k.mem[a + 1].size >= s
    BY <1>2 DEF kmalloc_tree_get_best_fit, GETCHUNKSIZE, Header
  <1>5. k.tbinmap \subseteq Nat
    BY DEF Good, State
  <1>6. CASE found # {}
    <2> DEFINE Take(a) == IF s > k.dVictimSize \/ GETCHUNKSIZE(k, a) <= k.dVictimSize
                          THEN allocate_tchunk(k, a, s) ELSE Nothing(k)
    <2>0. x \in {Take(a) : a \in found} \/ (SearchUndefined(k, s) /\ x = Nothing(k))
      BY <1>2, <1>6 DEF FromTreeBins
    <2>1. SUFFICES ASSUME NEW a \in found, x = Take(a) PROVE FromBins(k, x, s)
      BY <2>0 DEF FromBins, BinsShort
    <2>2. i \in k.tbinmap
      <3>1. i \in 0 .. NTBINS - 1
        BY <1>1, <1>2, BinsAssumption
      <3>2. MapsInv(k) /\ k.tbin[i] # {}
        BY <1>4, <1>6 DEF Good, BinInv
      <3> QED
        BY <3>1, <3>2 DEF MapsInv
    <2>3. a \in ForBins(k)
      BY <1>4, <2>2, TreeChunk
    <2>4. CASE s > k.dVictimSize \/ GETCHUNKSIZE(k, a) <= k.dVictimSize
      BY <1>4, <2>1, <2>3, <2>4, TchunkGrants DEF FromBins
    <2>5. CASE ~(s > k.dVictimSize \/ GETCHUNKSIZE(k, a) <= k.dVictimSize)
      BY <1>1, <2>1, <2>5 DEF FromBins
    <2> QED
      BY <2>4, <2>5
  <1>7. CASE found = {} /\ larger # {} /\ (calc_tbin(k.dVictimSize) >= Min(larger) \/ s > k.dVictimSize)
    <2>1. PICK j : j = Min(larger)
      OBVIOUS
    <2>2. j \in larger
      <3>1. larger \subseteq Nat
        BY <1>2, <1>5
      <3> QED
        BY <1>7, <2>1, <3>1, MinNat
    <2>3. PICK a \in kmalloc_tree_get_smallest(k, j) :
               x = IF s > k.dVictimSize \/ GETCHUNKSIZE(k, a) < k.dVictimSize
                   THEN allocate_tchunk(k, a, s) ELSE Nothing(k)
      BY <1>2, <1>7, <2>1 DEF FromTreeBins
    <2>4. j \in k.tbinmap /\ j > i /\ a \in k.tbin[j]
      BY <1>2, <2>2 DEF kmalloc_tree_get_smallest
    <2>5. a \in ForBins(k) /\ calc_tbin(k.mem[a + 1].size) = j
      BY <2>4, TreeChunk
    <2>6. k.mem[a + 1].size >= s
      <3>1. PICK z : z = k.mem[a + 1].size
        OBVIOUS
      <3>2. z \in 0 .. WORD - 1 /\ calc_tbin(z) > i
        BY <1>3, <2>4, <2>5, <3>1
      <3>3. ~(z <= s)
        <4>1. i \in Int
          BY <1>1, <1>2, <1>3
        <4> QED
          BY <4>1, <1>3, <3>2
      <3> QED
        BY <1>1, <3>1, <3>2, <3>3
    <2>7. CASE s > k.dVictimSize \/ GETCHUNKSIZE(k, a) < k.dVictimSize
      BY <2>3, <2>5, <2>6, <2>7, TchunkGrants DEF FromBins
    <2>8. CASE ~(s > k.dVictimSize \/ GETCHUNKSIZE(k, a) < k.dVictimSize)
      BY <1>1, <2>3, <2>8 DEF FromBins
    <2> QED
      BY <2>7, <2>8
  <1>8. CASE found = {} /\ ~(larger # {} /\ (calc_tbin(k.dVictimSize) >= Min(larger) \/ s > k.dVictimSize))
    <2>1. x = Nothing(k)
      BY <1>2, <1>8 DEF FromTreeBins
    <2>2. CASE s <= k.dVictimSize
      BY <2>1, <2>2 DEF FromBins
    <2>3. CASE ~(s <= k.dVictimSize)
      <3>1. larger = {}
        BY <1>1, <1>8, <2>3
      <3>2. \A a \in k.tbin[i] : ~(k.mem[a + 1].size >= s)
        BY <1>2, <1>8 DEF kmalloc_tree_get_best_fit, GETCHUNKSIZE, Header
      <3>3. ASSUME NEW a \in ForBins(k)
            PROVE  k.mem[a + 1].size < s
        <4>1. PICK z : z = k.mem[a + 1].size
          OBVIOUS
        <4>2. z \in 0 .. WORD - 1
          BY <1>3, <4>1
        <4>3. CASE z < MIN_LARGE_SIZE
          BY <1>1, <4>1, <4>2, <4>3
        <4>4. CASE ~(z < MIN_LARGE_SIZE)
          <5>1. calc_tbin(z) \in k.tbinmap /\ a \in k.tbin[calc_tbin(z)]
            BY <4>1, <4>4, BinnedChunk
          <5>2. ~(calc_tbin(z) > i)
            BY <1>2, <3>1, <5>1
          <5>3. i \in Int /\ calc_tbin(z) \in Int
            BY <1>1, <1>2, <1>3, <4>2
          <5>4. CASE calc_tbin(z) = i
            BY <1>1, <3>2, <4>1, <4>2, <5>1, <5>4
          <5>5. CASE calc_tbin(z) < i
            <6>1. ~(s <= z)
              BY <1>3, <4>2, <5>3, <5>5
            <6> QED
              BY <1>1, <4>1, <4>2, <6>1
          <5> QED
            BY <5>2, <5>3, <5>4, <5>5
        <4> QED
          BY <4>3, <4>4
      <3> QED
        BY <2>1, <3>3 DEF FromBins, BinsShort
    <2> QED
      BY <2>2, <2>3
  <1> QED
    BY <1>6, <1>7, <1>8

(* A block is not NULL.                                                    *)
LEMMA GrantsSome ==
    ASSUME NEW k, NEW x, NEW s, Grants(k, x, s)
    PROVE  x.ptr # NULL /\ x # Nothing(k)
  <1>1. PICK r, a : x = Payload(r, a) /\ Granting(k, r, a, s)
    BY DEF Grants
  <1>2. a \in Nat
    BY <1>1 DEF Granting
  <1>3. x.ptr = a + 2 /\ a + 2 \in Nat
    BY <1>1, <1>2 DEF Payload, CHUNK_PAYLOAD
  <1>4. x.ptr # NULL
    BY <1>3, KMallocAssumption
  <1>5. Nothing(k).ptr = NULL
    BY DEF Nothing
  <1> QED
    BY <1>4, <1>5

LEMMA InternOutcome ==
    ASSUME NEW k, Good(k, {}), NEW s, ReqOK(s), NEW x \in kmalloc_intern(k, s)
    PROVE  Outcome(k, x, s)
  <1>1. PICK binned : binned = IF s < MIN_LARGE_SIZE THEN FromSmallBins(k, s) ELSE FromTreeBins(k, s)
    OBVIOUS
  <1> HIDE DEF MIN_LARGE_SIZE
  <1>2. \A y \in binned : FromBins(k, y, s)
    BY <1>1, SmallOutcome, TreeOutcome
  <1>3. Nothing(k).ptr = NULL
    BY DEF Nothing
  <1>4. k.dVictimSize \in Nat /\ s \in Nat
    BY DEF Good, State, ReqOK
  <1>5. CASE x \in binned /\ x.ptr # NULL
    BY <1>2, <1>3, <1>5 DEF FromBins, Outcome
  <1>6. CASE Nothing(k) \in binned /\ x \in (IF s <= k.dVictimSize THEN {allocate_dv(k, s)} ELSE split_top(k, s))
    <2>1. s <= k.dVictimSize \/ BinsShort(k, s)
      BY <1>2, <1>6, GrantsSome DEF FromBins
    <2>2. CASE s <= k.dVictimSize
      BY <1>6, <2>2, DvGrants DEF Outcome
    <2>3. CASE ~(s <= k.dVictimSize)
      <3>1. x \in split_top(k, s) /\ k.dVictimSize < s /\ BinsShort(k, s)
        BY <1>4, <1>6, <2>1, <2>3
      <3> QED
        BY <3>1, TopOutcome
    <2> QED
      BY <2>2, <2>3
  <1> QED
    BY <1>1, <1>5, <1>6 DEF kmalloc_intern

---------------------------------------------------------------------------
(* A free chunk is written at lo. The words behind it that are not its own *)
(* are left alone.                                                         *)
Written(m, n, lo, s) ==
    /\ n[lo + 1] = [size |-> s, pinuse |-> TRUE, cinuse |-> FALSE]
    /\ n[lo + s] = [foot |-> s]
    /\ \A b \in lo + 1 .. lo + s - 1 : ~IsChunk(n, b)
    /\ \A w \in Words : w \notin lo + 1 .. lo + s => n[w] = m[w]

LEMMA WriteFree ==
    ASSUME NEW k \in State, NEW lo, NEW s, lo \in Nat, s \in Nat, s >= 2, lo % 2 = 0, s % 2 = 0,
           lo + s \in Words, NEW r, r = SetFree(Forget(k, lo + 1, lo + s - 1), lo, s)
    PROVE  r \in State /\ OnlyMem(k, r) /\ Written(k.mem, r.mem, lo, s)
  <1>1. PICK k1, x, y : k1 = Forget(k, x, y) /\ x = lo + 1 /\ y = lo + s - 1
    OBVIOUS
  <1>2. /\ k1 \in State /\ OnlyMem(k, k1)
        /\ \A w \in Words : k1.mem[w] = IF x <= w /\ w <= y THEN NULL ELSE k.mem[w]
    <2>1. x \in Int /\ y \in Int
      BY <1>1
    <2> QED
      BY <1>1, <2>1, ForgetEffect
  <1>3. PICK n : n = r.mem
    OBVIOUS
  <1>4. HEAP_LIMIT \in Nat
    BY Alignment
  <1>5. /\ r \in State /\ OnlyMem(k1, r)
        /\ n[lo + 1] = [size |-> s, pinuse |-> TRUE, cinuse |-> FALSE]
        /\ n[lo + s] = [foot |-> s]
        /\ \A w \in Words : w # lo + 1 /\ w # lo + s => n[w] = k1.mem[w]
    <2>1. /\ k1 \in State /\ lo \in Nat /\ s \in Nat /\ s >= 2 /\ lo + 1 \in Words /\ lo + s \in Words
          /\ r = SetFree(k1, lo, s)
      BY <1>1, <1>2, <1>4 DEF Words
    <2>2. /\ r \in State /\ OnlyMem(k1, r)
          /\ r.mem[lo + 1] = [size |-> s, pinuse |-> TRUE, cinuse |-> FALSE]
          /\ r.mem[lo + s] = [foot |-> s]
          /\ \A w \in Words : w # lo + 1 /\ w # lo + s => r.mem[w] = k1.mem[w]
      <3>1. PICK g : g = SetFree(k1, lo, s)
        OBVIOUS
      <3>2. FreeSet(k1, g, lo, s)
        BY <2>1, <3>1, SetFreeDone
      <3> QED
        BY <2>1, <3>1, <3>2 DEF FreeSet
    <2> QED
      BY <2>2, <1>3
  <1>6. \A b \in lo + 1 .. lo + s - 1 : ~IsChunk(n, b)
    <2>1. SUFFICES ASSUME NEW b \in lo + 1 .. lo + s - 1, b % 2 = 0 PROVE ~IsChunk(n, b)
      BY DEF IsChunk
    <2>2. b + 1 \in Words /\ b + 1 # lo + 1 /\ b + 1 # lo + s /\ x <= b + 1 /\ b + 1 <= y
      BY <1>1, <1>4, <2>1 DEF Words
    <2>3. n[b + 1] = NULL
      BY <2>2, <1>2, <1>5
    <2> QED
      BY <2>3 DEF IsChunk
  <1>7. \A w \in Words : w \notin lo + 1 .. lo + s => n[w] = k.mem[w]
    <2>1. SUFFICES ASSUME NEW w \in Words, w \notin lo + 1 .. lo + s PROVE n[w] = k.mem[w]
      OBVIOUS
    <2>2. w # lo + 1 /\ w # lo + s /\ ~(x <= w /\ w <= y)
      BY <1>1, <2>1 DEF Words
    <2> QED
      BY <2>2, <1>2, <1>5
  <1>8. OnlyMem(k, r)
    BY <1>2, <1>5, OnlyMemTrans
  <1> QED
    BY <1>3, <1>5, <1>6, <1>7, <1>8 DEF Written

(* A hole is filled with one free chunk.                                   *)
FreeOut(m, top, lo, hi) == FreeIn(m, top) \ (lo .. hi - 1)
UsedOut(m, top, lo, hi) == UsedIn(m, top) \ (lo .. hi - 1)

Closes(m, n, lo, hi, top, ts, E) ==
    /\ Layout(n, top, ts, E) /\ n[lo + 1].size = hi - lo
    /\ FreeIn(n, top) = FreeOut(m, top, lo, hi) \cup {lo} /\ lo \notin FreeOut(m, top, lo, hi)
    /\ UsedIn(n, top) = UsedOut(m, top, lo, hi)
    /\ SizesKept(m, n, FreeOut(m, top, lo, hi) \cup UsedOut(m, top, lo, hi))

(* The chunk behind the hole is in use, and says that there is a free one  *)
(* before it or is told so.                                                *)
ThenFlagged(m, n, n1, hi, q) ==
    \/ q = FALSE /\ n1 = n
    \/ /\ n1[hi + 1] = Flagged(m[hi + 1], FALSE)
       /\ \A w \in Words : w # hi + 1 => n1[w] = n[w]

LEMMA CloseHole ==
    ASSUME NEW m, NEW n, NEW n1, NEW lo, NEW hi, NEW q, NEW top, NEW ts, NEW E,
           Hole(m, lo, TRUE, hi, q, top, ts, E), hi - lo >= 4, hi < top, m[hi + 1].cinuse = TRUE,
           Written(m, n, lo, hi - lo), ThenFlagged(m, n, n1, hi, q)
    PROVE  Closes(m, n1, lo, hi, top, ts, E)
  <1>1. /\ lo \in Nat /\ lo % 2 = 0 /\ hi \in Nat /\ hi % 2 = 0 /\ top \in Nat /\ q \in BOOLEAN
        /\ top + 2 <= HEAP_LIMIT /\ HEAP_LIMIT \in Nat
    <2>1. ts \in Nat /\ top + ts + 2 <= HEAP_LIMIT /\ top \in Nat
      BY DEF Hole, Behind
    <2> QED
      BY <2>1, Alignment DEF Hole, Seg
  <1>2. PICK t, f, s : t = TRUE /\ f = FALSE /\ s = hi - lo
    OBVIOUS
  <1>3. s \in Nat /\ s >= 4 /\ s % 2 = 0 /\ lo + s = hi
    BY <1>1, <1>2
  <1>4. /\ n[lo + 1] = [size |-> s, pinuse |-> t, cinuse |-> f] /\ n[hi] = [foot |-> s]
        /\ \A b \in lo + 1 .. hi - 1 : ~IsChunk(n, b)
        /\ \A w \in Words : w \notin lo + 1 .. hi => n[w] = m[w]
    <2>1. Written(m, n, lo, s) /\ lo + s - 1 = hi - 1
      BY <1>1, <1>2, <1>3
    <2>2. /\ n[lo + 1] = [size |-> s, pinuse |-> TRUE, cinuse |-> FALSE] /\ n[lo + s] = [foot |-> s]
          /\ \A b \in lo + 1 .. lo + s - 1 : ~IsChunk(n, b)
          /\ \A w \in Words : w \notin lo + 1 .. lo + s => n[w] = m[w]
      BY <2>1 DEF Written
    <2> QED
      BY <1>1, <1>2, <1>3, <2>1, <2>2
  <1>5. \A w \in Words : w # hi + 1 => n1[w] = n[w]
    BY DEF ThenFlagged
  <1>6. /\ n1[lo + 1] = [size |-> s, pinuse |-> t, cinuse |-> f] /\ n1[hi] = [foot |-> s]
        /\ \A b \in lo + 1 .. hi - 1 : ~IsChunk(n1, b)
    <2>1. lo + 1 \in Words /\ lo + 1 # hi + 1 /\ hi \in Words /\ hi # hi + 1
      BY <1>1, <1>2, <1>3 DEF Words
    <2>2. ASSUME NEW b \in lo + 1 .. hi - 1 PROVE ~IsChunk(n1, b)
      <3>1. b + 1 \in Words /\ b + 1 # hi + 1
        BY <1>1 DEF Words
      <3> QED
        BY <3>1, <1>4, <1>5 DEF IsChunk
    <2> QED
      BY <2>1, <2>2, <1>4, <1>5
  <1>7. Seg(n1, lo, t, hi, f, E)
    <2>1. /\ t \in BOOLEAN /\ f \in BOOLEAN /\ (~f => t /\ n1[lo + s] = [foot |-> s])
          /\ (f => \A w \in lo + 2 .. lo + s : w \in E \/ n1[w] = DATA)
      BY <1>1, <1>2, <1>3, <1>6
    <2>2. \A b \in lo + 1 .. lo + s - 1 : ~IsChunk(n1, b)
      BY <1>1, <1>3, <1>6
    <2>3. Seg(n1, lo, t, lo + s, f, E)
      <3>1. /\ lo \in Nat /\ s \in Nat /\ lo % 2 = 0 /\ s % 2 = 0 /\ s >= 4
            /\ n1[lo + 1] = [size |-> s, pinuse |-> t, cinuse |-> f]
        BY <1>1, <1>3, <1>6
      <3> QED
        BY <3>1, <2>1, <2>2, SegOne
    <2> QED
      BY <2>3, <1>3
  <1>8. Refills(m, n1, lo, hi, q, f, top, E, E)
    <2>1. lo < hi
      BY <1>1, <1>2, <1>3
    <2>2. \A w \in Words : w \notin lo + 1 .. hi + 1 => n1[w] = m[w]
      <3>1. SUFFICES ASSUME NEW w \in Words, w \notin lo + 1 .. hi + 1 PROVE n1[w] = m[w]
        OBVIOUS
      <3>2. w # hi + 1 /\ w \notin lo + 1 .. hi
        BY <1>1, <2>1, <3>1 DEF Words
      <3> QED
        BY <3>2, <1>4, <1>5
    <2>3. hi + 1 \in Words /\ hi + 1 \notin lo + 1 .. hi
      BY <1>1 DEF Words
    <2>4. \/ f = q /\ n1[hi + 1] = m[hi + 1]
          \/ n1[hi + 1] = Flagged(m[hi + 1], f)
      BY <1>2, <1>4, <2>3 DEF ThenFlagged
    <2> QED
      BY <2>1, <2>2, <2>4 DEF Refills
  <1>9. Layout(n1, top, ts, E) /\ SameOutside(m, n1, lo, hi, top)
    <2>1. Hole(m, lo, t, hi, q, top, ts, E)
      BY <1>2
    <2> QED
      BY <2>1, <1>7, <1>8, Refill
  <1> DEFINE W == lo .. hi - 1
  <1>10. SameSets(m, n1, top, W)
    BY <1>9, SetsOutside
  <1>11. IsChunk(n1, lo) /\ n1[lo + 1].cinuse = FALSE /\ n1[lo + 1].size = s
    <2>1. t \in BOOLEAN /\ f \in BOOLEAN
      BY <1>2
    <2>2. IsChunk(n1, lo) /\ n1[lo + 1].cinuse = f /\ n1[lo + 1].size = s
      BY <2>1, <1>1, <1>3, <1>6, NewHeader
    <2> QED
      BY <2>2, <1>2
  <1>12. FreeIn(n1, top) \cap W = {lo} /\ UsedIn(n1, top) \cap W = {} /\ lo \in W
    <2>1. \A b \in W : b # lo => ~IsChunk(n1, b)
      BY <1>1, <1>6
    <2>2. lo \in W /\ lo \in 0 .. top - 1
      BY <1>1, <1>2, <1>3
    <2> HIDE DEF W
    <2> QED
      BY <2>1, <2>2, <1>11 DEF FreeIn, UsedIn
  <1>13. FreeOut(m, top, lo, hi) = FreeIn(m, top) \ W /\ UsedOut(m, top, lo, hi) = UsedIn(m, top) \ W
    BY DEF FreeOut, UsedOut
  <1> HIDE DEF W
  <1>14. /\ FreeIn(n1, top) = FreeOut(m, top, lo, hi) \cup {lo} /\ lo \notin FreeOut(m, top, lo, hi)
         /\ UsedIn(n1, top) = UsedOut(m, top, lo, hi)
    BY <1>10, <1>12, <1>13 DEF SameSets
  <1>15. SizesKept(m, n1, FreeOut(m, top, lo, hi) \cup UsedOut(m, top, lo, hi))
    BY <1>10, <1>13 DEF SizesKept, SameSets
  <1> QED
    BY <1>2, <1>9, <1>11, <1>14, <1>15 DEF Closes

(* The state while there is a hole: the bins hold the free chunks outside  *)
(* it but for the designated victim, which may be the chunk at lo.         *)
VictimIn(k, lo, hi) ==
    IF k.dVictim = NULL THEN k.dVictimSize = 0
    ELSE k.dVictim = lo \/ /\ k.dVictim \in FreeOut(k.mem, k.topChunk, lo, hi)
                           /\ k.dVictimSize = k.mem[k.dVictim + 1].size

OutBins(k, lo, hi) == FreeOut(k.mem, k.topChunk, lo, hi) \ {k.dVictim}

Opened(k, lo, hi, E) ==
    /\ k \in State /\ HeapOK(k)
    /\ Hole(k.mem, lo, TRUE, hi, TRUE, k.topChunk, k.topChunkSize, E)
    /\ hi - lo >= 2 /\ (hi - lo >= 4 \/ k.mem[hi + 1].cinuse = FALSE)
    /\ VictimIn(k, lo, hi) /\ BinInv(k, OutBins(k, lo, hi), k.mem)

(* What filling the hole with free memory makes of it.                     *)
Closed(k, r, lo, hi, E) ==
    /\ Good(r, E)
    /\ UsedIn(r.mem, r.topChunk) = UsedOut(k.mem, k.topChunk, lo, hi)
    /\ SizesKept(k.mem, r.mem, UsedOut(k.mem, k.topChunk, lo, hi))
    /\ Shrinks(k, r) /\ r.initial_heap_size = k.initial_heap_size /\ r.heap_size <= k.heap_size

Refilled(k, k1, lo, hi, E) ==
    /\ k1 \in State /\ HeapOK(k1) /\ SameHeap(k, k1) /\ SameTop(k, k1)
    /\ Closes(k.mem, k1.mem, lo, hi, k.topChunk, k.topChunkSize, E)

LEMMA CloseGood ==
    ASSUME NEW k, NEW r, NEW lo, NEW hi, NEW E, Refilled(k, r, lo, hi, E),
           VictimOK(r), BinInv(r, ForBins(r), r.mem)
    PROVE  Closed(k, r, lo, hi, E)
  <1>1. /\ r \in State /\ HeapOK(r) /\ SameHeap(k, r) /\ SameTop(k, r)
        /\ Closes(k.mem, r.mem, lo, hi, k.topChunk, k.topChunkSize, E)
    BY DEF Refilled
  <1>2. r.topChunk = k.topChunk /\ r.topChunkSize = k.topChunkSize /\ r.heap_size = k.heap_size
        /\ r.initial_heap_size = k.initial_heap_size /\ r.heap_size \in Nat
    BY <1>1 DEF SameHeap, SameTop, State
  <1>3. Good(r, E)
    BY <1>1, <1>2 DEF Good, Closes
  <1>4. Shrinks(k, r) /\ r.heap_size <= k.heap_size
    BY <1>2 DEF Shrinks
  <1>5. /\ UsedIn(r.mem, r.topChunk) = UsedOut(k.mem, k.topChunk, lo, hi)
        /\ SizesKept(k.mem, r.mem, UsedOut(k.mem, k.topChunk, lo, hi))
    BY <1>1, <1>2 DEF Closes, SizesKept
  <1> QED
    BY <1>2, <1>3, <1>4, <1>5 DEF Closed

LEMMA RefilledVictim ==
    ASSUME NEW k, NEW k1, NEW lo, NEW hi, NEW E, Refilled(k, k1, lo, hi, E),
           NEW r \in State, r.mem = k1.mem, SameHeap(k1, r), SameTop(k1, r)
    PROVE  Refilled(k, r, lo, hi, E)
  <1>1. HeapOK(r)
    BY HeapFrame DEF Refilled
  <1> QED
    BY <1>1 DEF Refilled, SameHeap, SameTop

(* The free chunk is the designated victim.                                *)
LEMMA CloseVictim ==
    ASSUME NEW k, NEW k1, NEW lo, NEW hi, NEW E, Refilled(k, k1, lo, hi, E), lo \in Nat, NEW s, s \in Nat, s = hi - lo,
           BinInv(k1, FreeOut(k.mem, k.topChunk, lo, hi), k.mem), NEW r, r = SetVictim(k1, lo, s)
    PROVE  Closed(k, r, lo, hi, E)
  <1>1. /\ r \in State /\ r.mem = k1.mem /\ r.dVictim = lo /\ r.dVictimSize = s
        /\ SameHeap(k1, r) /\ SameBins(k1, r) /\ SameTop(k1, r)
    <2>1. PICK z : z = s
      OBVIOUS
    <2>2. k1 \in State /\ lo \in Nat \cup {NULL} /\ z \in Nat /\ r = SetVictim(k1, lo, z)
      BY <2>1 DEF Refilled
    <2>3. /\ r \in State /\ r.mem = k1.mem /\ r.dVictim = lo /\ r.dVictimSize = z
          /\ SameHeap(k1, r) /\ SameBins(k1, r) /\ SameTop(k1, r)
      BY <2>2, SetVictimEffect
    <2> QED
      BY <2>1, <2>3
  <1>2. Refilled(k, r, lo, hi, E)
    BY <1>1, RefilledVictim
  <1>3. /\ r.topChunk = k.topChunk
        /\ FreeIn(r.mem, r.topChunk) = FreeOut(k.mem, k.topChunk, lo, hi) \cup {lo}
        /\ lo \notin FreeOut(k.mem, k.topChunk, lo, hi)
        /\ SizesKept(k.mem, r.mem, FreeOut(k.mem, k.topChunk, lo, hi))
        /\ r.mem[lo + 1].size = s
    BY <1>2 DEF Refilled, Closes, SizesKept, SameTop
  <1>4. VictimOK(r)
    <2>1. lo # NULL
      BY KMallocAssumption
    <2> QED
      BY <2>1, <1>1, <1>3 DEF VictimOK
  <1>5. BinInv(r, ForBins(r), r.mem)
    <2>1. ForBins(r) = FreeOut(k.mem, k.topChunk, lo, hi)
      BY <1>1, <1>3 DEF ForBins
    <2>2. \A b \in FreeOut(k.mem, k.topChunk, lo, hi) : r.mem[b + 1].size = k.mem[b + 1].size
      BY <1>3 DEF SizesKept
    <2>3. BinInv(r, FreeOut(k.mem, k.topChunk, lo, hi), r.mem)
      BY <1>1, <2>2, BinFrame
    <2> QED
      BY <2>1, <2>3
  <1> QED
    BY <1>2, <1>4, <1>5, CloseGood

(* The free chunk goes to a bin.                                           *)
VictimOut(k, k1, lo, hi) ==
    IF k1.dVictim = NULL THEN k1.dVictimSize = 0
    ELSE /\ k1.dVictim \in FreeOut(k.mem, k.topChunk, lo, hi)
         /\ k1.dVictimSize = k.mem[k1.dVictim + 1].size

LEMMA CloseBin ==
    ASSUME NEW k, NEW k1, NEW lo, NEW hi, NEW E, Refilled(k, k1, lo, hi, E), lo \in Nat,
           VictimOut(k, k1, lo, hi),
           BinInv(k1, FreeOut(k.mem, k.topChunk, lo, hi) \ {k1.dVictim}, k.mem),
           NEW r, r = bin_chunk(k1, lo)
    PROVE  Closed(k, r, lo, hi, E)
  <1>1. PICK X : X = FreeOut(k.mem, k.topChunk, lo, hi)
    OBVIOUS
  <1>2. /\ k1 \in State /\ k1.topChunk = k.topChunk
        /\ FreeIn(k1.mem, k1.topChunk) = X \cup {lo} /\ lo \notin X
        /\ SizesKept(k.mem, k1.mem, X) /\ Layout(k1.mem, k1.topChunk, k1.topChunkSize, E)
    BY <1>1 DEF Refilled, Closes, SizesKept, SameTop
  <1>3. BinInv(k1, X \ {k1.dVictim}, k1.mem)
    <2>1. \A b \in X \ {k1.dVictim} : k1.mem[b + 1].size = k.mem[b + 1].size
      BY <1>2 DEF SizesKept
    <2>2. SameBins(k1, k1) /\ BinInv(k1, X \ {k1.dVictim}, k.mem)
      BY <1>1 DEF SameBins
    <2> QED
      BY <2>1, <2>2, BinFrame
  <1>4. SizeOK(k1.mem[lo + 1].size)
    BY <1>2, FreeNumbers
  <1>5. r \in State /\ OnlyBins(k1, r) /\ BinInv(r, (X \ {k1.dVictim}) \cup {lo}, k1.mem)
    <2>1. lo \notin X \ {k1.dVictim} /\ k1.mem[lo + 1] = k1.mem[lo + 1]
      BY <1>2
    <2> QED
      BY <2>1, <1>2, <1>3, <1>4, BinAdd
  <1>6. r.mem = k1.mem /\ SameHeap(k1, r) /\ SameTop(k1, r) /\ r.dVictim = k1.dVictim /\ r.dVictimSize = k1.dVictimSize
    BY <1>5 DEF OnlyBins, SameVictim
  <1>7. Refilled(k, r, lo, hi, E)
    BY <1>5, <1>6, RefilledVictim
  <1>8. r.topChunk = k1.topChunk
    BY <1>6 DEF SameTop
  <1>9. k1.dVictim # lo
    BY <1>1, <1>2, KMallocAssumption DEF VictimOut
  <1>10. VictimOK(r)
    BY <1>1, <1>2, <1>6, <1>8 DEF VictimOK, VictimOut, SizesKept
  <1>11. BinInv(r, ForBins(r), r.mem)
    <2>1. ForBins(r) = (X \ {k1.dVictim}) \cup {lo}
      BY <1>2, <1>6, <1>8, <1>9 DEF ForBins
    <2> QED
      BY <1>5, <1>6, <2>1
  <1> QED
    BY <1>7, <1>10, <1>11, CloseGood

(* The hole is followed by a block.                                        *)
LEMMA MergeUsed ==
    ASSUME NEW k, NEW lo, NEW hi, NEW E, Opened(k, lo, hi, E), hi < k.topChunk,
           k.mem[hi + 1].cinuse = TRUE, NEW s, s = hi - lo,
           NEW k1, k1 = SetFree(Forget(k, lo + 1, lo + s - 1), lo, s),
           NEW k2, k2 = SetPinuse(k1, hi, FALSE),
           NEW r, r = IF lo = k.dVictim THEN SetVictim(k2, lo, s) ELSE bin_chunk(k2, lo)
    PROVE  Closed(k, r, lo, hi, E)
  <1>1. PICK m, n, n1, top, ts : m = k.mem /\ n = k1.mem /\ n1 = k2.mem /\ top = k.topChunk /\ ts = k.topChunkSize
    OBVIOUS
  <1>2. /\ k \in State /\ HeapOK(k) /\ Hole(m, lo, TRUE, hi, TRUE, top, ts, E) /\ hi - lo >= 4
        /\ VictimIn(k, lo, hi) /\ BinInv(k, OutBins(k, lo, hi), m) /\ m[hi + 1].cinuse = TRUE /\ hi < top
    BY <1>1 DEF Opened
  <1>3. /\ lo \in Nat /\ lo % 2 = 0 /\ hi \in Nat /\ hi % 2 = 0 /\ top \in Nat
        /\ top + 2 <= HEAP_LIMIT /\ HEAP_LIMIT \in Nat
    <2>1. ts \in Nat /\ top + ts + 2 <= HEAP_LIMIT /\ top \in Nat
      BY <1>2 DEF Hole, Behind
    <2> QED
      BY <1>2, <2>1, Alignment DEF Hole, Seg
  <1>4. s \in Nat /\ s >= 4 /\ s % 2 = 0 /\ lo + s = hi /\ hi + 1 \in Words /\ lo + s \in Words
    BY <1>2, <1>3 DEF Words
  <1>5. k1 \in State /\ OnlyMem(k, k1) /\ Written(m, n, lo, s)
    <2>1. k \in State /\ lo \in Nat /\ s \in Nat /\ s >= 2 /\ lo % 2 = 0 /\ s % 2 = 0 /\ lo + s \in Words
      BY <1>2, <1>3, <1>4
    <2> QED
      BY <1>1, <2>1, WriteFree
  <1>6. n[hi + 1] = m[hi + 1] /\ m[hi + 1] \in HEADER
    <2>1. hi + 1 \notin lo + 1 .. lo + s
      BY <1>3, <1>4
    <2>2. n[hi + 1] = m[hi + 1]
      BY <2>1, <1>4, <1>5 DEF Written
    <2>3. Seg(m, hi, TRUE, top, TRUE, E)
      BY <1>2 DEF Hole
    <2>4. IsChunk(m, hi) /\ hi \in hi .. top - 1
      BY <2>3, <1>2, <1>3 DEF Seg
    <2>5. ChunkOK(m, hi, top, TRUE, E)
      BY <2>3, <2>4 DEF Seg
    <2> QED
      BY <2>2, <2>5 DEF ChunkOK
  <1>7. /\ k2 \in State /\ OnlyMem(k1, k2)
        /\ n1[hi + 1] = Flagged(m[hi + 1], FALSE)
        /\ \A w \in Words : w # hi + 1 => n1[w] = n[w]
    <2>1. PICK f : f = FALSE
      OBVIOUS
    <2>2. k1 \in State /\ hi \in Nat /\ hi + 1 \in Words /\ k1.mem[hi + 1] \in HEADER /\ f \in BOOLEAN /\ k2 = SetPinuse(k1, hi, f)
      BY <1>1, <1>3, <1>4, <1>5, <1>6, <2>1
    <2>3. k2 \in State /\ OnlyMem(k1, k2) /\ FlagSet(k1.mem, k2.mem, hi, f)
      BY <2>2, SetPinuseEffect
    <2> QED
      BY <1>1, <1>6, <2>1, <2>3 DEF FlagSet
  <1>8. Closes(m, n1, lo, hi, top, ts, E)
    <2>1. PICK q : q = TRUE
      OBVIOUS
    <2>2. ThenFlagged(m, n, n1, hi, q)
      BY <1>7 DEF ThenFlagged
    <2>3. Written(m, n, lo, hi - lo) /\ Hole(m, lo, TRUE, hi, q, top, ts, E)
      BY <1>2, <1>5, <2>1
    <2> QED
      BY <1>2, <2>2, <2>3, CloseHole
  <1>9. OnlyMem(k, k2)
    BY <1>5, <1>7, OnlyMemTrans
  <1>10. SameHeap(k, k2) /\ SameTop(k, k2) /\ SameBins(k, k2) /\ k2.dVictim = k.dVictim /\ k2.dVictimSize = k.dVictimSize
    BY <1>9 DEF OnlyMem, SameVictim
  <1>11. Refilled(k, k2, lo, hi, E)
    <2>1. HeapOK(k2)
      BY <1>2, <1>10, HeapFrame
    <2> QED
      BY <2>1, <1>1, <1>7, <1>8, <1>10 DEF Refilled
  <1>12. BinInv(k2, OutBins(k, lo, hi), k.mem)
    BY <1>1, <1>2, <1>10, BinFrame
  <1>13. CASE lo = k.dVictim
    <2>1. OutBins(k, lo, hi) = FreeOut(k.mem, k.topChunk, lo, hi)
      BY <1>1, <1>8, <1>13 DEF OutBins, Closes
    <2>2. BinInv(k2, FreeOut(k.mem, k.topChunk, lo, hi), k.mem) /\ r = SetVictim(k2, lo, s)
      BY <2>1, <1>12, <1>13
    <2> QED
      BY <2>2, <1>3, <1>4, <1>11, CloseVictim
  <1>14. CASE lo # k.dVictim
    <2>1. VictimOut(k, k2, lo, hi)
      BY <1>2, <1>10, <1>14 DEF VictimIn, VictimOut
    <2>2. BinInv(k2, FreeOut(k.mem, k.topChunk, lo, hi) \ {k2.dVictim}, k.mem) /\ r = bin_chunk(k2, lo)
      BY <1>10, <1>12, <1>14 DEF OutBins
    <2> QED
      BY <2>1, <2>2, <1>3, <1>11, CloseBin
  <1> QED
    BY <1>13, <1>14

(* The hole is followed by a free chunk of z words that is not the top     *)
(* chunk. The hole extends over it.                                        *)
NextFree(m, lo, hi, z, top, ts, E) ==
    /\ hi \in FreeIn(m, top) /\ SizeOK(z) /\ hi + z < top
    /\ Hole(m, lo, TRUE, hi + z, FALSE, top, ts, E) /\ m[hi + z + 1].cinuse = TRUE
    /\ FreeOut(m, top, lo, hi + z) = FreeOut(m, top, lo, hi) \ {hi} /\ hi \in FreeOut(m, top, lo, hi)
    /\ UsedOut(m, top, lo, hi + z) = UsedOut(m, top, lo, hi)

LEMMA ExtendHole ==
    ASSUME NEW m, NEW lo, NEW hi, NEW top, NEW ts, NEW E,
           Hole(m, lo, TRUE, hi, TRUE, top, ts, E), lo < hi, hi < top, m[hi + 1].cinuse = FALSE,
           NEW z, z = m[hi + 1].size
    PROVE  NextFree(m, lo, hi, z, top, ts, E)
  <1>1. PICK t, f, h : t = TRUE /\ f = FALSE /\ h = m[hi + 1]
    OBVIOUS
  <1>2. /\ lo \in Nat /\ hi \in Nat /\ top \in Nat /\ top + 2 <= HEAP_LIMIT /\ HEAP_LIMIT \in Nat
        /\ 2 * HEAP_LIMIT < WORD /\ WORD \in Nat
    <2>1. ts \in Nat /\ top + ts + 2 <= HEAP_LIMIT /\ top \in Nat
      BY DEF Hole, Behind
    <2> QED
      BY <2>1, Alignment, KMallocAssumption DEF Hole, Seg
  <1>3. Seg(m, hi, t, top, t, E) /\ Seg(m, 0, t, lo, t, E) /\ Behind(m, top, ts)
    BY <1>1 DEF Hole
  <1>4. IsChunk(m, hi) /\ hi \in hi .. top - 1
    BY <1>2, <1>3 DEF Seg
  <1>5. ChunkOK(m, hi, top, t, E)
    BY <1>3, <1>4 DEF Seg
  <1>6. /\ h \in HEADER /\ z = h.size /\ z \in Nat /\ z >= 4 /\ z % 2 = 0 /\ hi + z <= top
        /\ h.cinuse = f /\ \A b \in hi + 1 .. hi + z - 1 : ~IsChunk(m, b)
    BY <1>1, <1>5 DEF ChunkOK, HEADER
  <1>7. Seg(m, hi + z, f, top, t, E)
    <2>1. Seg(m, hi + h.size, h.cinuse, top, t, E)
      BY <1>1, <1>3, <1>4, SegChunk
    <2> QED
      BY <2>1, <1>6
  <1>8. hi + z # top
    <2>1. hi + z = top => f = t
      BY <1>7 DEF Seg
    <2> QED
      BY <2>1, <1>1
  <1>9. hi + z < top
    BY <1>2, <1>6, <1>8
  <1>10. m[hi + z + 1].cinuse = TRUE
    <2>1. PICK c, g : c = hi + z /\ g = m[c + 1]
      OBVIOUS
    <2>2. IsChunk(m, c) /\ g.pinuse = f /\ c \in c .. top - 1
      BY <1>2, <1>6, <1>7, <1>9, <2>1 DEF Seg
    <2>3. ChunkOK(m, c, top, t, E)
      BY <1>7, <2>1, <2>2 DEF Seg
    <2>4. g \in HEADER /\ (~g.cinuse => g.pinuse)
      BY <2>1, <2>3 DEF ChunkOK
    <2>5. g.cinuse \in BOOLEAN /\ g.cinuse
      BY <2>2, <2>4, <1>1 DEF HEADER
    <2> QED
      BY <2>1, <2>5
  <1>11. Hole(m, lo, TRUE, hi + z, FALSE, top, ts, E)
    BY <1>1, <1>3, <1>7 DEF Hole
  <1>12. hi \in FreeIn(m, top) /\ ~(hi \in UsedIn(m, top))
    BY <1>1, <1>2, <1>4, <1>6 DEF FreeIn, UsedIn
  <1>13. \A b : b \in lo .. hi + z - 1 <=> b \in lo .. hi - 1 \/ b = hi \/ b \in hi + 1 .. hi + z - 1
    BY <1>2, <1>6
  <1>14. \A b \in hi + 1 .. hi + z - 1 : b \notin FreeIn(m, top) /\ b \notin UsedIn(m, top)
    BY <1>6 DEF FreeIn, UsedIn
  <1>15. hi \notin lo .. hi - 1
    BY <1>2
  <1>16. /\ FreeOut(m, top, lo, hi + z) = FreeOut(m, top, lo, hi) \ {hi} /\ hi \in FreeOut(m, top, lo, hi)
         /\ UsedOut(m, top, lo, hi + z) = UsedOut(m, top, lo, hi)
    <2>1. PICK V, W : V = lo .. hi - 1 /\ W = lo .. hi + z - 1
      OBVIOUS
    <2>2. \A b \in FreeIn(m, top) \cup UsedIn(m, top) : b \in W <=> b \in V \/ b = hi
      BY <1>13, <1>14, <2>1
    <2>3. hi \notin V
      BY <1>15, <2>1
    <2>4. /\ FreeOut(m, top, lo, hi + z) = FreeIn(m, top) \ W /\ FreeOut(m, top, lo, hi) = FreeIn(m, top) \ V
          /\ UsedOut(m, top, lo, hi + z) = UsedIn(m, top) \ W /\ UsedOut(m, top, lo, hi) = UsedIn(m, top) \ V
      <3>1. W = lo .. (hi + z) - 1
        BY <1>2, <1>6, <2>1
      <3> QED
        BY <2>1, <3>1, Zenon DEF FreeOut, UsedOut
    <2> QED
      BY <1>12, <2>2, <2>3, <2>4
  <1>17. SizeOK(z)
    BY <1>2, <1>6 DEF SizeOK
  <1> QED
    BY <1>9, <1>10, <1>11, <1>12, <1>16, <1>17 DEF NextFree

(* The hole is followed by a free chunk.                                   *)
LEMMA MergeFree ==
    ASSUME NEW k, NEW lo, NEW hi, NEW E, Opened(k, lo, hi, E), hi < k.topChunk,
           k.mem[hi + 1].cinuse = FALSE, NEW s, s = hi - lo + k.mem[hi + 1].size,
           NEW k1, k1 = IF hi # k.dVictim THEN unbin_chunk(k, hi) ELSE k,
           NEW k2, k2 = SetFree(Forget(k1, lo + 1, lo + s - 1), lo, s),
           NEW r, r = IF hi = k.dVictim \/ lo = k.dVictim THEN SetVictim(k2, lo, s)
                      ELSE bin_chunk(k2, lo)
    PROVE  Closed(k, r, lo, hi, E)
  <1>1. PICK m, n, top, ts, z, c : /\ m = k.mem /\ n = k2.mem /\ top = k.topChunk
                                   /\ ts = k.topChunkSize /\ z = m[hi + 1].size /\ c = hi + z
    OBVIOUS
  <1>2. /\ k \in State /\ HeapOK(k) /\ Hole(m, lo, TRUE, hi, TRUE, top, ts, E) /\ hi - lo >= 2
        /\ VictimIn(k, lo, hi) /\ BinInv(k, OutBins(k, lo, hi), m) /\ m[hi + 1].cinuse = FALSE /\ hi < top
    BY <1>1 DEF Opened
  <1>3. /\ lo \in Nat /\ lo % 2 = 0 /\ hi \in Nat /\ hi % 2 = 0 /\ top \in Nat
        /\ top + 2 <= HEAP_LIMIT /\ HEAP_LIMIT \in Nat
    <2>1. ts \in Nat /\ top + ts + 2 <= HEAP_LIMIT /\ top \in Nat
      BY <1>2 DEF Hole, Behind
    <2> QED
      BY <1>2, <2>1, Alignment DEF Hole, Seg
  <1>4. NextFree(m, lo, hi, z, top, ts, E)
    <2>1. lo < hi
      BY <1>2, <1>3
    <2> QED
      BY <1>1, <1>2, <2>1, ExtendHole
  <1>5. /\ SizeOK(z) /\ c < top /\ Hole(m, lo, TRUE, c, FALSE, top, ts, E) /\ m[c + 1].cinuse = TRUE
        /\ FreeOut(m, top, lo, c) = FreeOut(m, top, lo, hi) \ {hi} /\ hi \in FreeOut(m, top, lo, hi)
        /\ UsedOut(m, top, lo, c) = UsedOut(m, top, lo, hi)
    BY <1>1, <1>4 DEF NextFree
  <1>6. /\ s \in Nat /\ s >= 4 /\ s % 2 = 0 /\ lo + s = c /\ c \in Nat /\ s = c - lo
        /\ lo + s \in Words
    <2>1. z \in Nat /\ z >= 4 /\ z % 2 = 0 /\ s = hi - lo + z
      BY <1>1, <1>5 DEF SizeOK
    <2> QED
      BY <1>1, <1>2, <1>3, <1>5, <2>1 DEF Words
  <1>7. k1 \in State /\ OnlyBins(k, k1) /\ BinInv(k1, FreeOut(m, top, lo, c) \ {k.dVictim}, m)
    <2>1. OutBins(k, lo, hi) = FreeOut(m, top, lo, hi) \ {k.dVictim}
      BY <1>1 DEF OutBins
    <2>2. CASE hi = k.dVictim
      <3>1. k1 = k /\ OnlyBins(k, k)
        BY <2>2 DEF OnlyBins, SameHeap, SameVictim, SameTop
      <3>2. OutBins(k, lo, hi) = FreeOut(m, top, lo, c) \ {k.dVictim}
        BY <1>5, <2>1, <2>2
      <3> QED
        BY <1>2, <3>1, <3>2
    <2>3. CASE hi # k.dVictim
      <3>1. PICK X : X = OutBins(k, lo, hi)
        OBVIOUS
      <3>2. hi \in X /\ X \ {hi} = FreeOut(m, top, lo, c) \ {k.dVictim} /\ k1 = unbin_chunk(k, hi)
        BY <1>5, <2>1, <2>3, <3>1
      <3>3. k1 \in State /\ OnlyBins(k, k1) /\ BinInv(k1, X \ {hi}, m)
        BY <1>1, <1>2, <3>1, <3>2, BinRemove
      <3> QED
        BY <3>2, <3>3
    <2> QED
      BY <2>2, <2>3
  <1>8. k2 \in State /\ OnlyMem(k1, k2) /\ Written(m, n, lo, s)
    <2>1. k1.mem = m
      BY <1>1, <1>7 DEF OnlyBins
    <2>2. k2 \in State /\ OnlyMem(k1, k2) /\ Written(k1.mem, k2.mem, lo, s)
      BY <1>3, <1>6, <1>7, WriteFree
    <2> QED
      BY <1>1, <2>1, <2>2
  <1>9. Closes(m, n, lo, c, top, ts, E)
    <2>1. PICK q : q = FALSE
      OBVIOUS
    <2>2. ThenFlagged(m, n, n, c, q)
      BY <2>1 DEF ThenFlagged
    <2>3. Written(m, n, lo, c - lo) /\ Hole(m, lo, TRUE, c, q, top, ts, E) /\ c - lo >= 4
      BY <1>5, <1>6, <1>8, <2>1
    <2> QED
      BY <1>5, <2>2, <2>3, CloseHole
  <1>10. SameHeap(k, k2) /\ SameTop(k, k2) /\ SameBins(k1, k2) /\ k2.dVictim = k.dVictim /\ k2.dVictimSize = k.dVictimSize
    BY <1>7, <1>8 DEF OnlyMem, OnlyBins, SameVictim, SameHeap, SameTop
  <1>11. Refilled(k, k2, lo, c, E)
    <2>1. HeapOK(k2)
      BY <1>2, <1>10, HeapFrame
    <2> QED
      BY <2>1, <1>1, <1>8, <1>9, <1>10 DEF Refilled
  <1>12. BinInv(k2, FreeOut(k.mem, k.topChunk, lo, c) \ {k.dVictim}, k.mem)
    BY <1>1, <1>7, <1>10, BinFrame
  <1>13. Closed(k, r, lo, c, E)
    <2>1. CASE hi = k.dVictim \/ lo = k.dVictim
      <3>1. FreeOut(k.mem, k.topChunk, lo, c) \ {k.dVictim} = FreeOut(k.mem, k.topChunk, lo, c)
        <4>1. lo \notin FreeOut(m, top, lo, c) /\ hi \notin FreeOut(m, top, lo, c)
          BY <1>5, <1>9 DEF Closes
        <4>2. k.dVictim \notin FreeOut(k.mem, k.topChunk, lo, c)
          BY <1>1, <2>1, <4>1
        <4> QED
          BY <4>2
      <3>2. BinInv(k2, FreeOut(k.mem, k.topChunk, lo, c), k.mem) /\ r = SetVictim(k2, lo, s)
        BY <3>1, <1>12, <2>1
      <3> QED
        BY <3>2, <1>3, <1>6, <1>11, CloseVictim
    <2>2. CASE ~(hi = k.dVictim \/ lo = k.dVictim)
      <3>1. VictimOut(k, k2, lo, c)
        BY <1>1, <1>2, <1>5, <1>10, <2>2 DEF VictimIn, VictimOut
      <3>2. BinInv(k2, FreeOut(k.mem, k.topChunk, lo, c) \ {k2.dVictim}, k.mem) /\ r = bin_chunk(k2, lo)
        BY <1>10, <1>12, <2>2
      <3> QED
        BY <3>1, <3>2, <1>3, <1>11, CloseBin
    <2> QED
      BY <2>1, <2>2
  <1> QED
    BY <1>1, <1>5, <1>13 DEF Closed

(* The hole is followed by the top chunk.                                  *)
LEMMA TopBehind ==
    ASSUME NEW m, NEW n, NEW lo, NEW s, NEW top, NEW ts, Behind(m, top, ts),
           lo \in Nat, lo % 2 = 0, s \in Nat, s >= 2, s % 2 = 0, lo + s = top + ts, lo <= top, Written(m, n, lo, s)
    PROVE  Behind(n, lo, s)
  <1>1. /\ top \in Nat /\ ts \in Nat /\ top + ts + 2 <= HEAP_LIMIT /\ HEAP_LIMIT \in Nat
        /\ HEAP_LIMIT % 2 = 0
    BY KMallocAssumption DEF Behind, CHUNK_ALIGN_ON
  <1>2. lo + s + 2 <= HEAP_LIMIT /\ lo + s + 1 \in Words /\ lo + s + 1 \notin lo + 1 .. lo + s
    BY <1>1 DEF Words
  <1>3. n[lo + s + 1] = [size |-> 0, pinuse |-> FALSE, cinuse |-> FALSE]
    <2>1. n[lo + s + 1] = m[lo + s + 1]
      BY <1>2 DEF Written
    <2>2. m[top + ts + 1] = [size |-> 0, pinuse |-> FALSE, cinuse |-> FALSE]
      BY DEF Behind
    <2>3. lo + s + 1 = top + ts + 1
      BY <1>1
    <2> QED
      BY <2>1, <2>2, <2>3
  <1>4. ASSUME NEW b \in lo + 1 .. HEAP_LIMIT - 1, b # lo + s
        PROVE  ~IsChunk(n, b)
    <2>1. CASE b < lo + s
      <3>1. b \in lo + 1 .. lo + s - 1
        BY <1>1, <2>1
      <3> QED
        BY <3>1 DEF Written
    <2>2. CASE b > lo + s /\ b % 2 = 0
      <3>1. b + 1 \in Words /\ b + 1 \notin lo + 1 .. lo + s /\ b \in top + 1 .. HEAP_LIMIT - 1 /\ b # top + ts
        BY <1>1, <2>2 DEF Words
      <3>2. n[b + 1] = m[b + 1] /\ ~IsChunk(m, b)
        BY <3>1 DEF Written, Behind
      <3> QED
        BY <3>2 DEF IsChunk
    <2>3. CASE ~(b % 2 = 0)
      BY <2>3 DEF IsChunk
    <2> QED
      BY <1>1, <1>4, <2>1, <2>2, <2>3
  <1>5. n[lo + 1] = [size |-> s, pinuse |-> TRUE, cinuse |-> FALSE] /\ n[lo + s] = [foot |-> s]
    BY DEF Written
  <1> QED
    BY <1>1, <1>2, <1>3, <1>4, <1>5 DEF Behind

LEMMA MergeTop ==
    ASSUME NEW k, NEW lo, NEW hi, NEW E, Opened(k, lo, hi, E), hi = k.topChunk,
           NEW s, s = hi - lo + k.mem[hi + 1].size,
           NEW k2, k2 = SetFree(Forget(k, lo + 1, lo + s - 1), lo, s),
           NEW k3, k3 = IF lo = k.dVictim THEN NoVictim(k2) ELSE k2,
           NEW k4, k4 = SetTop(k3, lo, s), NEW r, r = shrink_top(k4)
    PROVE  Closed(k, r, lo, hi, E)
  <1>1. PICK m, n, ts : /\ m = k.mem /\ n = k2.mem /\ ts = k.topChunkSize
    OBVIOUS
  <1>2. /\ k \in State /\ HeapOK(k) /\ Hole(m, lo, TRUE, hi, TRUE, hi, ts, E) /\ hi - lo >= 2
        /\ VictimIn(k, lo, hi) /\ BinInv(k, OutBins(k, lo, hi), m)
    BY <1>1 DEF Opened
  <1>3. /\ lo \in Nat /\ lo % 2 = 0 /\ hi \in Nat /\ hi % 2 = 0 /\ ts \in Nat /\ ts % 2 = 0
        /\ hi + ts + 2 <= HEAP_LIMIT /\ HEAP_LIMIT \in Nat
        /\ Behind(m, hi, ts) /\ Seg(m, 0, TRUE, lo, TRUE, E)
    <2>1. Behind(m, hi, ts) /\ Seg(m, 0, TRUE, lo, TRUE, E)
      BY <1>2 DEF Hole
    <2> QED
      BY <1>2, <2>1, Alignment DEF Behind, Seg
  <1>4. m[hi + 1].size = ts
    <2>1. CASE ts = 0
      <3>1. m[hi + ts + 1] = [size |-> 0, pinuse |-> FALSE, cinuse |-> FALSE]
        BY <1>3 DEF Behind
      <3>2. hi + ts + 1 = hi + 1
        BY ONLY <1>3, <2>1
      <3> QED
        BY ONLY <2>1, <3>1, <3>2
    <2>2. CASE ts > 0
      <3>1. m[hi + 1] = [size |-> ts, pinuse |-> TRUE, cinuse |-> FALSE]
        BY <1>3, <2>2 DEF Behind
      <3> QED
        BY ONLY <3>1
    <2> QED
      BY ONLY <1>3, <2>1, <2>2
  <1>5. s \in Nat /\ s >= 2 /\ s % 2 = 0 /\ lo + s = hi + ts /\ lo + s \in Words /\ lo <= hi
    <2>1. s = hi - lo + ts
      BY <1>1, <1>4
    <2>2. hi - lo >= 2 /\ lo \in Nat /\ hi \in Nat /\ ts \in Nat
      BY ONLY <1>2, <1>3
    <2>3. s \in Nat /\ s >= 2 /\ lo + s = hi + ts /\ lo <= hi
      BY ONLY <2>1, <2>2
    <2>4. s % 2 = 0
      BY ONLY <1>3, <2>3
    <2>5. lo + s \in Words
      BY ONLY <1>3, <2>2, <2>3 DEF Words
    <2> QED
      BY ONLY <2>3, <2>4, <2>5
  <1>6. k2 \in State /\ OnlyMem(k, k2) /\ Written(m, n, lo, s)
    BY <1>1, <1>2, <1>3, <1>5, WriteFree
  <1>7. k3 \in State /\ k3.mem = n /\ SameHeap(k, k3) /\ SameBins(k, k3) /\ SameTop(k, k3)
        /\ k3.dVictim = (IF lo = k.dVictim THEN NULL ELSE k.dVictim)
        /\ k3.dVictimSize = (IF lo = k.dVictim THEN 0 ELSE k.dVictimSize)
    <2>1. SameHeap(k, k2) /\ SameBins(k, k2) /\ SameTop(k, k2) /\ SameVictim(k, k2)
      BY <1>6 DEF OnlyMem
    <2>2. CASE lo = k.dVictim
      <3>1. PICK v, z : v = NULL /\ z = 0
        OBVIOUS
      <3>2. k3 = SetVictim(k2, v, z) /\ v \in Nat \cup {NULL} /\ z \in Nat
        BY <2>2, <3>1 DEF NoVictim
      <3>3. k2 \in State
        BY <1>6
      <3>4. /\ k3 \in State /\ k3.mem = k2.mem /\ k3.dVictim = v /\ k3.dVictimSize = z
            /\ SameHeap(k2, k3) /\ SameBins(k2, k3) /\ SameTop(k2, k3)
        <4>1. VictimSet(k2, k3, v, z)
          BY <3>2, <3>3, SetVictimDone
        <4> QED
          BY <4>1 DEF VictimSet
      <3>5. SameHeap(k, k3) /\ SameBins(k, k3) /\ SameTop(k, k3)
        BY ONLY <2>1, <3>4 DEF SameHeap, SameBins, SameTop
      <3> QED
        BY <1>1, <2>2, <3>1, <3>4, <3>5
    <2>3. CASE lo # k.dVictim
      BY <1>1, <1>6, <2>1, <2>3 DEF SameVictim
    <2> QED
      BY <2>2, <2>3
  <1>8. k4 \in State /\ OnlyTop(k3, k4, lo, s)
    BY ONLY <1>3, <1>5, <1>7, k4 = SetTop(k3, lo, s), SetTopEffect
  <1>9. /\ k4.mem = n /\ k4.topChunk = lo /\ k4.topChunkSize = s /\ SameHeap(k, k4) /\ SameBins(k, k4)
        /\ k4.dVictim = (IF lo = k.dVictim THEN NULL ELSE k.dVictim)
        /\ k4.dVictimSize = (IF lo = k.dVictim THEN 0 ELSE k.dVictimSize)
    <2>1. /\ k4.mem = k3.mem /\ k4.topChunk = lo /\ k4.topChunkSize = s
          /\ SameHeap(k3, k4) /\ SameBins(k3, k4) /\ SameVictim(k3, k4)
      BY ONLY <1>8 DEF OnlyTop
    <2>2. SameHeap(k, k4) /\ SameBins(k, k4)
      BY ONLY <1>7, <2>1 DEF SameHeap, SameBins
    <2> QED
      BY ONLY <1>7, <2>1, <2>2 DEF SameVictim
  <1>10. Layout(n, lo, s, E)
    <2>1. Behind(n, lo, s)
      <3>1. /\ Behind(m, hi, ts) /\ lo \in Nat /\ lo % 2 = 0 /\ s \in Nat /\ s >= 2 /\ s % 2 = 0
            /\ lo + s = hi + ts /\ lo <= hi /\ Written(m, n, lo, s)
        BY ONLY <1>3, <1>5, <1>6
      <3> QED
        BY ONLY <3>1, TopBehind
    <2>2. \A w \in 0 + 1 .. lo : n[w] = m[w]
      <3>1. \A w \in 0 + 1 .. lo : w \in Words /\ w \notin lo + 1 .. lo + s
        BY ONLY <1>3, <1>5 DEF Words
      <3> QED
        BY <1>6, <3>1 DEF Written
    <2>3. PICK z, t : z = 0 /\ t = TRUE
      OBVIOUS
    <2>4. Seg(m, z, t, lo, t, E) /\ \A w \in z + 1 .. lo : n[w] = m[w]
      BY <1>3, <2>2, <2>3
    <2>5. Seg(n, z, t, lo, t, E)
      BY <2>4, SegFrame
    <2> QED
      BY <2>1, <2>3, <2>5 DEF Layout
  <1>11. /\ FreeIn(n, lo) = FreeOut(m, hi, lo, hi) /\ UsedIn(n, lo) = UsedOut(m, hi, lo, hi)
         /\ SizesKept(m, n, FreeIn(n, lo) \cup UsedIn(n, lo))
    <2>1. \A w \in 1 .. lo : n[w] = m[w]
      <3>1. \A w \in 1 .. lo : w \in Words /\ w \notin lo + 1 .. lo + s
        BY ONLY <1>3, <1>5 DEF Words
      <3> QED
        BY ONLY <1>6, <3>1 DEF Written
    <2>2. /\ FreeIn(n, lo) = FreeIn(m, lo) /\ UsedIn(n, lo) = UsedIn(m, lo)
          /\ SizesKept(m, n, FreeIn(m, lo) \cup UsedIn(m, lo))
      BY <1>3, <2>1, PrefixSets
    <2>3. \A b : b \in 0 .. lo - 1 <=> b \in 0 .. hi - 1 /\ b \notin lo .. hi - 1
      <3>1. lo \in Nat /\ hi \in Nat /\ lo <= hi
        BY ONLY <1>3, <1>5
      <3> QED BY ONLY <3>1
    <2>4. FreeIn(m, lo) = FreeOut(m, hi, lo, hi) /\ UsedIn(m, lo) = UsedOut(m, hi, lo, hi)
      BY <2>3 DEF FreeIn, UsedIn, FreeOut, UsedOut
    <2> QED
      BY <2>2, <2>4
  <1>12. HeapOK(k4)
    <2>1. k.topChunk + k.topChunkSize = k4.topChunk + k4.topChunkSize
      BY <1>1, <1>5, <1>9
    <2>2. k.heap_start = k4.heap_start /\ k.heap_size = k4.heap_size /\ k.initial_heap_size = k4.initial_heap_size
          /\ k.aborted = k4.aborted
      BY <1>9 DEF SameHeap
    <2> QED
      BY <1>2, <2>1, <2>2 DEF HeapOK
  <1>13. VictimOK(k4)
    <2>1. CASE k4.dVictim = NULL
      BY <1>2, <1>9, <2>1 DEF VictimOK, VictimIn
    <2>2. CASE k4.dVictim # NULL
      <3>1. PICK v : v = k4.dVictim
        OBVIOUS
      <3>2. v = k.dVictim /\ v # lo /\ v # NULL /\ k4.dVictimSize = k.dVictimSize
        BY <1>9, <2>2, <3>1
      <3>3. v \in FreeOut(m, hi, lo, hi) /\ k4.dVictimSize = m[v + 1].size
        BY <1>1, <1>2, <3>2 DEF VictimIn
      <3>4. v \in FreeIn(n, lo) /\ n[v + 1].size = m[v + 1].size
        BY <1>11, <3>3 DEF SizesKept
      <3> QED
        BY <1>9, <3>1, <3>2, <3>3, <3>4 DEF VictimOK
    <2> QED
      BY <2>1, <2>2
  <1>14. BinInv(k4, ForBins(k4), k4.mem)
    <2>1. ForBins(k4) = OutBins(k, lo, hi)
      <3>1. lo \notin FreeOut(m, hi, lo, hi) /\ NULL \notin FreeOut(m, hi, lo, hi)
        <4>1. lo \notin FreeIn(n, lo) /\ NULL \notin FreeIn(n, lo)
          BY ONLY <1>3, KMallocAssumption DEF FreeIn
        <4> QED
          BY ONLY <1>11, <4>1
      <3>2. ForBins(k4) = FreeOut(m, hi, lo, hi) \ {k4.dVictim}
        BY ONLY <1>9, <1>11 DEF ForBins
      <3>3. OutBins(k, lo, hi) = FreeOut(m, hi, lo, hi) \ {k.dVictim}
        BY <1>1 DEF OutBins
      <3> QED
        <4>1. PICK F, v, u : F = FreeOut(m, hi, lo, hi) /\ v = k4.dVictim /\ u = k.dVictim
          OBVIOUS
        <4>2. v = IF lo = u THEN NULL ELSE u
          BY <1>9, <4>1
        <4>3. F \ {v} = F \ {u}
          BY <3>1, <4>1, <4>2
        <4> QED
          BY ONLY <3>2, <3>3, <4>1, <4>3
    <2>2. \A a \in ForBins(k4) : n[a + 1].size = m[a + 1].size
      <3>1. ForBins(k4) \subseteq FreeIn(n, lo)
        <4>1. ForBins(k4) = FreeIn(n, lo) \ {k4.dVictim}
          BY <1>9 DEF ForBins
        <4> QED
          BY <4>1
      <3> QED
        BY <1>11, <3>1 DEF SizesKept
    <2>3. PICK X : X = OutBins(k, lo, hi)
      OBVIOUS
    <2>4. BinInv(k, X, m) /\ SameBins(k, k4) /\ \A a \in X : n[a + 1].size = m[a + 1].size
      BY ONLY <1>2, <1>9, <2>1, <2>2, <2>3
    <2>5. BinInv(k4, X, n)
      BY ONLY <2>4, BinFrame
    <2> QED
      BY ONLY <1>9, <2>1, <2>3, <2>5
  <1>15. Good(k4, E)
    BY ONLY <1>8, <1>9, <1>10, <1>12, <1>13, <1>14 DEF Good
  <1>16. Good(r, E) /\ Kept(k4, r) /\ Shrinks(k4, r) /\ r.heap_size <= k4.heap_size
    BY ONLY <1>15, r = shrink_top(k4), ShrinkGood
  <1>17. /\ UsedIn(r.mem, r.topChunk) = UsedIn(n, lo)
         /\ SizesKept(n, r.mem, UsedIn(n, lo)) /\ r.initial_heap_size = k4.initial_heap_size
    BY ONLY <1>9, <1>16 DEF Kept
  <1>18. SizesKept(m, r.mem, UsedIn(n, lo))
    BY ONLY <1>11, <1>17 DEF SizesKept
  <1>19. Shrinks(k, r) /\ r.initial_heap_size = k.initial_heap_size /\ r.heap_size <= k.heap_size
    BY ONLY <1>9, <1>16, <1>17 DEF Shrinks, SameHeap
  <1> QED
    BY <1>1, <1>11, <1>16, <1>17, <1>18, <1>19 DEF Closed

LEMMA MergeGood ==
    ASSUME NEW k, NEW lo, NEW hi, NEW E, Opened(k, lo, hi, E), NEW d, d = hi - lo,
           NEW r, r = merge_free_chunks(k, lo, d, hi)
    PROVE  Closed(k, r, lo, hi, E)
  <1>1. PICK m, top, ts, h, v : m = k.mem /\ top = k.topChunk /\ ts = k.topChunkSize /\ h = m[hi + 1] /\ v = k.dVictim
    OBVIOUS
  <1>2. k \in State /\ Hole(m, lo, TRUE, hi, TRUE, top, ts, E) /\ VictimIn(k, lo, hi) /\ hi - lo >= 2
        /\ (hi - lo >= 4 \/ h.cinuse = FALSE)
    BY <1>1 DEF Opened
  <1>3. lo \in Nat /\ hi \in Nat /\ top \in Nat /\ hi <= top /\ Behind(m, top, ts) /\ Seg(m, hi, TRUE, top, TRUE, E)
    BY <1>2 DEF Hole, Seg
  <1>4. d \in Nat /\ d + 0 = d /\ lo # hi
    BY <1>2, <1>3
  <1>5. v # top
    <2>1. NULL \notin Nat
      BY KMallocAssumption
    <2>2. top \notin FreeOut(m, top, lo, hi)
      BY <1>3 DEF FreeOut, FreeIn
    <2>3. v = NULL \/ v = lo \/ v \in FreeOut(m, top, lo, hi)
      BY <1>1, <1>2 DEF VictimIn
    <2> QED
      BY <1>2, <1>3, <2>1, <2>2, <2>3
  <1>6. CASE hi = top
    <2>1. h.cinuse = FALSE
      <3>1. CASE ts = 0
        <4>1. m[top + ts + 1] = [size |-> 0, pinuse |-> FALSE, cinuse |-> FALSE] /\ top + ts + 1 = hi + 1
          BY <1>3, <1>6, <3>1 DEF Behind
        <4> QED
          BY <1>1, <4>1
      <3>2. CASE ts # 0
        <4>1. m[top + 1] = [size |-> ts, pinuse |-> TRUE, cinuse |-> FALSE]
          BY <1>3, <3>2 DEF Behind
        <4> QED
          BY <1>1, <1>6, <4>1
      <3> QED
        BY <3>1, <3>2
    <2>2. PICK s : s = d + h.size
      OBVIOUS
    <2>3. PICK k2 : k2 = SetFree(Forget(k, lo + 1, lo + s - 1), lo, s)
      OBVIOUS
    <2>4. PICK k3 : k3 = IF lo = k.dVictim THEN NoVictim(k2) ELSE k2
      OBVIOUS
    <2>5. PICK k4 : k4 = SetTop(k3, lo, s)
      OBVIOUS
    <2>6. r = shrink_top(k4)
      BY <1>1, <1>5, <1>6, <2>1, <2>2, <2>3, <2>4, <2>5 DEF merge_free_chunks, IS_INUSE, GETCHUNKSIZE, Header
    <2>7. s = hi - lo + k.mem[hi + 1].size /\ hi = k.topChunk
      BY <1>1, <1>6, <2>2
    <2> QED
      BY <2>3, <2>4, <2>5, <2>6, <2>7, MergeTop
  <1>7. CASE hi < top
    <2>1. IsChunk(m, hi) /\ hi \in hi .. top - 1
      BY <1>3, <1>7 DEF Seg
    <2>2. h.cinuse \in BOOLEAN
      <3>1. ChunkOK(m, hi, top, TRUE, E)
        BY <1>3, <2>1 DEF Seg
      <3> QED
        BY <1>1, <3>1 DEF ChunkOK, HEADER
    <2>3. hi # top
      BY <1>3, <1>7
    <2>4. CASE h.cinuse = TRUE
      <3>1. PICK k1 : k1 = SetFree(Forget(k, lo + 1, lo + d - 1), lo, d)
        OBVIOUS
      <3>2. PICK k2 : k2 = SetPinuse(k1, hi, FALSE)
        OBVIOUS
      <3>3. r = IF lo = k.dVictim THEN SetVictim(k2, lo, d) ELSE bin_chunk(k2, lo)
        BY <1>1, <1>4, <2>4, <3>1, <3>2 DEF merge_free_chunks, IS_INUSE, GETCHUNKSIZE, Header
      <3> QED
        BY <1>1, <1>7, <2>4, <3>1, <3>2, <3>3, MergeUsed
    <2>5. CASE h.cinuse = FALSE
      <3>1. PICK s : s = d + h.size
        OBVIOUS
      <3>2. PICK k1 : k1 = IF hi # k.dVictim THEN unbin_chunk(k, hi) ELSE k
        OBVIOUS
      <3>3. PICK k2 : k2 = SetFree(Forget(k1, lo + 1, lo + s - 1), lo, s)
        OBVIOUS
      <3>4. r = IF hi = k.dVictim \/ lo = k.dVictim THEN SetVictim(k2, lo, s) ELSE bin_chunk(k2, lo)
        BY <1>1, <2>3, <2>5, <3>1, <3>2, <3>3 DEF merge_free_chunks, IS_INUSE, GETCHUNKSIZE, Header
      <3>5. s = hi - lo + k.mem[hi + 1].size /\ hi < k.topChunk /\ k.mem[hi + 1].cinuse = FALSE
        BY <1>1, <1>7, <2>5, <3>1
      <3> QED
        BY <3>2, <3>3, <3>4, <3>5, MergeFree
    <2> QED
      BY <2>2, <2>4, <2>5
  <1> QED
    BY <1>3, <1>6, <1>7

---------------------------------------------------------------------------
(* What kfree does: one block less.                                        *)
Freed(k, r, a, E) ==
    /\ Good(r, E)
    /\ UsedIn(r.mem, r.topChunk) = UsedIn(k.mem, k.topChunk) \ {a}
    /\ SizesKept(k.mem, r.mem, UsedIn(k.mem, k.topChunk) \ {a})
    /\ Shrinks(k, r) /\ r.initial_heap_size = k.initial_heap_size /\ r.heap_size <= k.heap_size

(* The block at a with the free chunk at lo before it, or lo = a.          *)
Region(k, k1, lo, a, z, E) ==
    /\ lo \in Nat /\ lo <= a /\ OnlyBins(k, k1) /\ Opened(k1, lo, a + z, E)
    /\ UsedOut(k.mem, k.topChunk, lo, a + z) = UsedIn(k.mem, k.topChunk) \ {a}

LEMMA RegionFreed ==
    ASSUME NEW k, NEW k1, NEW lo, NEW a, NEW z, NEW E, Region(k, k1, lo, a, z, E),
           NEW d, d = (a + z) - lo, NEW r, r = merge_free_chunks(k1, lo, d, a + z)
    PROVE  Freed(k, r, a, E)
  <1>1. PICK hi : hi = a + z
    OBVIOUS
  <1>2. Closed(k1, r, lo, hi, E)
    <2>1. Opened(k1, lo, hi, E) /\ d = hi - lo /\ r = merge_free_chunks(k1, lo, d, hi)
      BY <1>1 DEF Region
    <2> QED
      BY <2>1, MergeGood
  <1>3. k1.mem = k.mem /\ SameHeap(k, k1) /\ k1.topChunk = k.topChunk
        /\ UsedOut(k.mem, k.topChunk, lo, hi) = UsedIn(k.mem, k.topChunk) \ {a}
    BY <1>1 DEF Region, OnlyBins, SameTop
  <1> QED
    BY <1>2, <1>3 DEF Closed, Freed, Shrinks, SameHeap

(* Facts about a block that both ways of freeing it need.                  *)
LEMMA BlockFacts ==
    ASSUME NEW k, NEW E, Good(k, E), NEW a \in UsedIn(k.mem, k.topChunk), NEW z, z = k.mem[a + 1].size
    PROVE  /\ a \in Nat /\ a % 2 = 0 /\ z \in Nat /\ z >= 4 /\ z % 2 = 0 /\ a + z <= k.topChunk
           /\ k.topChunk \in Nat /\ k.topChunkSize \in Nat
           /\ k.topChunk + k.topChunkSize + 2 <= k.heap_size /\ k.heap_size \in Nat
           /\ k.heap_start = 0 /\ k.mem[a + 1] \in HEADER /\ k.mem[a + 1].cinuse = TRUE
           /\ Hole(k.mem, a, k.mem[a + 1].pinuse, a + z, TRUE, k.topChunk, k.topChunkSize, E)
           /\ Layout(k.mem, k.topChunk, k.topChunkSize, E)
           /\ \A b \in a + 1 .. a + z - 1 : b \notin UsedIn(k.mem, k.topChunk) /\ b \notin FreeIn(k.mem, k.topChunk)
  <1>1. PICK m, top, ts, h : m = k.mem /\ top = k.topChunk /\ ts = k.topChunkSize /\ h = m[a + 1]
    OBVIOUS
  <1>2. Layout(m, top, ts, E) /\ HeapOK(k) /\ k \in State
    BY <1>1 DEF Good
  <1>3. IsUsed(m, a, h, top, ts, E)
    BY <1>1, <1>2, UsedFacts
  <1>4. /\ a \in Nat /\ SizeOK(h.size) /\ a + h.size <= top /\ h \in HEADER /\ h.cinuse = TRUE
        /\ Seg(m, a, h.pinuse, a + h.size, TRUE, E)
        /\ Hole(m, a, h.pinuse, a + h.size, TRUE, top, ts, E)
        /\ \A b \in a + 1 .. a + h.size - 1 : ~IsChunk(m, b)
    BY <1>3 DEF IsUsed
  <1>5. a % 2 = 0 /\ top \in Nat /\ ts \in Nat
    BY <1>4 DEF Seg, Hole, Behind
  <1>6. \A b \in a + 1 .. a + z - 1 : b \notin UsedIn(m, top) /\ b \notin FreeIn(m, top)
    BY <1>1, <1>4 DEF UsedIn, FreeIn
  <1> QED
    BY <1>1, <1>2, <1>4, <1>5, <1>6 DEF HeapOK, State, SizeOK

(* Without a free chunk before it.                                         *)
LEMMA BlockRegion ==
    ASSUME NEW k, NEW E, Good(k, E), NEW a \in UsedIn(k.mem, k.topChunk), NEW z, z = k.mem[a + 1].size,
           k.mem[a + 1].pinuse = TRUE
    PROVE  Region(k, k, a, a, z, E)
  <1>1. PICK m, top, ts : m = k.mem /\ top = k.topChunk /\ ts = k.topChunkSize
    OBVIOUS
  <1>2. /\ a \in Nat /\ z \in Nat /\ z >= 4 /\ a + z <= top
        /\ Hole(m, a, TRUE, a + z, TRUE, top, ts, E)
        /\ \A b \in a + 1 .. a + z - 1 : b \notin UsedIn(m, top) /\ b \notin FreeIn(m, top)
    BY <1>1, BlockFacts
  <1>3. \A b : b \in a .. (a + z) - 1 <=> b = a \/ b \in a + 1 .. a + z - 1
    BY <1>2
  <1>4. a \notin FreeIn(m, top) /\ a \in UsedIn(m, top)
    BY <1>1 DEF FreeIn, UsedIn
  <1>5. FreeOut(m, top, a, a + z) = FreeIn(m, top) /\ UsedOut(m, top, a, a + z) = UsedIn(m, top) \ {a}
    <2>1. PICK W : W = a .. (a + z) - 1
      OBVIOUS
    <2>2. \A b \in FreeIn(m, top) : b \notin W
      BY <1>2, <1>3, <1>4, <2>1
    <2>3. \A b \in UsedIn(m, top) : b \in W <=> b = a
      BY <1>2, <1>3, <2>1
    <2>4. FreeIn(m, top) \ W = FreeIn(m, top) /\ UsedIn(m, top) \ W = UsedIn(m, top) \ {a}
      BY <2>2, <2>3
    <2> QED
      BY <2>1, <2>4 DEF FreeOut, UsedOut
  <1>6. Opened(k, a, a + z, E)
    <2>1. k \in State /\ HeapOK(k) /\ VictimOK(k) /\ BinInv(k, ForBins(k), k.mem)
      BY DEF Good
    <2>2. VictimIn(k, a, a + z)
      BY <1>1, <1>5, <2>1 DEF VictimOK, VictimIn
    <2>3. OutBins(k, a, a + z) = ForBins(k)
      BY <1>1, <1>5 DEF OutBins, ForBins
    <2>4. (a + z) - a >= 4 /\ (a + z) - a >= 2
      BY <1>2
    <2> QED
      BY <1>1, <1>2, <2>1, <2>2, <2>3, <2>4 DEF Opened
  <1>7. OnlyBins(k, k)
    BY DEF OnlyBins, SameHeap, SameVictim, SameTop
  <1> QED
    BY <1>1, <1>2, <1>5, <1>6, <1>7 DEF Region

(* The free chunk before a block.                                          *)
Before(k, lo, a, c, E) ==
    /\ lo \in FreeIn(k.mem, k.topChunk) /\ lo \in Nat /\ c \in Nat /\ c >= 4 /\ lo + c = a /\ lo < a
    /\ k.mem[lo + 1].size = c /\ k.mem[lo + 1].cinuse = FALSE /\ k.mem[a] = [foot |-> c]
    /\ Seg(k.mem, 0, TRUE, lo, TRUE, E)
    /\ \A b \in lo + 1 .. a - 1 : b \notin UsedIn(k.mem, k.topChunk) /\ b \notin FreeIn(k.mem, k.topChunk)

LEMMA FindBefore ==
    ASSUME NEW k, NEW E, Good(k, E), NEW a \in UsedIn(k.mem, k.topChunk),
           k.mem[a + 1].pinuse = FALSE
    PROVE  \E lo, c : Before(k, lo, a, c, E)
  <1>1. PICK m, top, ts, t, f, z : /\ m = k.mem /\ top = k.topChunk /\ ts = k.topChunkSize
                                   /\ t = TRUE /\ f = FALSE /\ z = m[a + 1].size
    OBVIOUS
  <1>2. /\ a \in Nat /\ z \in Nat /\ z >= 4 /\ a + z <= top /\ top \in Nat
        /\ Hole(m, a, f, a + z, t, top, ts, E) /\ Layout(m, top, ts, E)
    <2>1. Good(k, E) /\ a \in UsedIn(k.mem, k.topChunk) /\ z = k.mem[a + 1].size
      BY <1>1
    <2>2. /\ a \in Nat /\ z \in Nat /\ z >= 4 /\ a + z <= k.topChunk /\ k.topChunk \in Nat
          /\ Hole(k.mem, a, k.mem[a + 1].pinuse, a + z, TRUE, k.topChunk, k.topChunkSize, E)
      BY ONLY <2>1, BlockFacts
    <2>3. Layout(k.mem, k.topChunk, k.topChunkSize, E)
      BY ONLY <2>1 DEF Good
    <2> QED BY ONLY <1>1, <2>2, <2>3, k.mem[a + 1].pinuse = FALSE
  <1>3. Seg(m, 0, t, a, f, E)
    BY <1>1, <1>2 DEF Hole
  <1>4. 0 < a
    <2>1. a = 0 => t = f
      BY <1>3 DEF Seg
    <2>2. t # f
      BY <1>1
    <2>3. a # 0
      BY <2>1, <2>2
    <2> QED
      BY <1>2, <2>3
  <1>5. PICK lo \in 0 .. a - 1 : IsChunk(m, lo) /\ lo + m[lo + 1].size = a /\ m[lo + 1].cinuse = f
    BY <1>3, <1>4, SegLast
  <1>6. PICK c : c = m[lo + 1].size
    OBVIOUS
  <1>7. lo \in FreeIn(m, top)
    BY <1>1, <1>2, <1>5 DEF FreeIn
  <1>8. IsFree(m, lo, c, top, ts, E)
    BY <1>2, <1>6, <1>7, FreeFacts
  <1>9. /\ lo \in Nat /\ SizeOK(c) /\ Hole(m, lo, TRUE, lo + c, FALSE, top, ts, E)
        /\ \A b \in lo + 1 .. lo + c - 1 : ~IsChunk(m, b)
    BY <1>8 DEF IsFree
  <1>10. c \in Nat /\ c >= 4 /\ lo + c = a /\ lo < a
    BY <1>2, <1>5, <1>6, <1>9 DEF SizeOK
  <1>11. m[a] = [foot |-> c]
    <2>1. ChunkOK(m, lo, a, f, E)
      BY <1>3, <1>5 DEF Seg
    <2>2. ~m[lo + 1].cinuse => m[lo + m[lo + 1].size] = [foot |-> m[lo + 1].size]
      BY <2>1 DEF ChunkOK
    <2> QED
      BY <1>1, <1>5, <1>6, <2>2
  <1>12. \A b \in lo + 1 .. a - 1 : b \notin UsedIn(m, top) /\ b \notin FreeIn(m, top)
    <2>1. \A b \in lo + 1 .. a - 1 : b \in lo + 1 .. lo + c - 1
      BY <1>2, <1>10
    <2> QED
      BY <1>9, <2>1 DEF UsedIn, FreeIn
  <1>13. Seg(m, 0, TRUE, lo, TRUE, E)
    BY <1>9 DEF Hole
  <1>14. Before(k, lo, a, c, E)
    BY <1>1, <1>5, <1>6, <1>7, <1>9, <1>10, <1>11, <1>12, <1>13 DEF Before
  <1> QED
    BY <1>14

LEMMA MergedRegion ==
    ASSUME NEW k, NEW E, Good(k, E), NEW a \in UsedIn(k.mem, k.topChunk), NEW z, z = k.mem[a + 1].size,
           NEW lo, NEW c, Before(k, lo, a, c, E),
           NEW k1, k1 = IF k.dVictim # lo THEN unbin_chunk(k, lo) ELSE k
    PROVE  Region(k, k1, lo, a, z, E)
  <1>1. PICK m, top, ts, hi : m = k.mem /\ top = k.topChunk /\ ts = k.topChunkSize /\ hi = a + z
    OBVIOUS
  <1>2. /\ a \in Nat /\ z \in Nat /\ z >= 4 /\ a + z <= top
        /\ Hole(m, a, m[a + 1].pinuse, hi, TRUE, top, ts, E)
        /\ \A b \in a + 1 .. a + z - 1 : b \notin UsedIn(m, top) /\ b \notin FreeIn(m, top)
    BY <1>1, BlockFacts
  <1>3. /\ lo \in FreeIn(m, top) /\ lo \in Nat /\ c \in Nat /\ c >= 4 /\ lo + c = a /\ lo < a
        /\ Seg(m, 0, TRUE, lo, TRUE, E)
        /\ \A b \in lo + 1 .. a - 1 : b \notin UsedIn(m, top) /\ b \notin FreeIn(m, top)
    BY <1>1 DEF Before
  <1>4. \A b : b \in lo .. hi - 1 <=> b = lo \/ b \in lo + 1 .. a - 1 \/ b = a \/ b \in a + 1 .. a + z - 1
    BY <1>1, <1>2, <1>3
  <1>5. a \notin FreeIn(m, top) /\ a \in UsedIn(m, top) /\ lo \notin UsedIn(m, top)
    BY <1>1, <1>3 DEF FreeIn, UsedIn
  <1>6. FreeOut(m, top, lo, hi) = FreeIn(m, top) \ {lo} /\ UsedOut(m, top, lo, hi) = UsedIn(m, top) \ {a}
    <2>1. PICK W : W = lo .. hi - 1
      OBVIOUS
    <2>2. \A b \in FreeIn(m, top) : b \in W <=> b = lo
      BY <1>2, <1>3, <1>4, <1>5, <2>1
    <2>3. \A b \in UsedIn(m, top) : b \in W <=> b = a
      BY <1>2, <1>3, <1>4, <1>5, <2>1
    <2>4. FreeIn(m, top) \ W = FreeIn(m, top) \ {lo} /\ UsedIn(m, top) \ W = UsedIn(m, top) \ {a}
      BY <2>2, <2>3
    <2> QED
      BY <2>1, <2>4 DEF FreeOut, UsedOut
  <1>7. k \in State /\ HeapOK(k) /\ VictimOK(k) /\ BinInv(k, ForBins(k), m)
    BY <1>1 DEF Good
  <1>8. k1 \in State /\ OnlyBins(k, k1) /\ BinInv(k1, FreeIn(m, top) \ {lo, k.dVictim}, m)
    <2>1. ForBins(k) = FreeIn(m, top) \ {k.dVictim}
      BY <1>1 DEF ForBins
    <2>2. CASE lo = k.dVictim
      <3>1. k1 = k /\ OnlyBins(k, k)
        BY <2>2 DEF OnlyBins, SameHeap, SameVictim, SameTop
      <3>2. ForBins(k) = FreeIn(m, top) \ {lo, k.dVictim}
        BY <2>1, <2>2
      <3> QED
        BY <1>7, <3>1, <3>2
    <2>3. CASE lo # k.dVictim
      <3>1. PICK X : X = ForBins(k)
        OBVIOUS
      <3>2. lo \in X /\ X \ {lo} = FreeIn(m, top) \ {lo, k.dVictim} /\ k1 = unbin_chunk(k, lo)
        BY <1>3, <2>1, <2>3, <3>1
      <3>3. k1 \in State /\ OnlyBins(k, k1) /\ BinInv(k1, X \ {lo}, m)
        BY <1>1, <1>7, <3>1, <3>2, BinRemove
      <3> QED
        BY <3>2, <3>3
    <2> QED
      BY <2>2, <2>3
  <1>9. /\ k1.mem = m /\ k1.topChunk = top /\ k1.topChunkSize = ts /\ k1.dVictim = k.dVictim
        /\ k1.dVictimSize = k.dVictimSize /\ HeapOK(k1)
    <2>1. SameHeap(k, k1) /\ SameTop(k, k1)
      BY <1>8 DEF OnlyBins
    <2>2. HeapOK(k1)
      BY <1>7, <2>1, HeapFrame
    <2> QED
      BY <1>1, <1>8, <2>2 DEF OnlyBins, SameTop, SameVictim
  <1>10. Opened(k1, lo, hi, E)
    <2>1. VictimIn(k1, lo, hi)
      <3>1. k.dVictim = NULL => k.dVictimSize = 0
        BY <1>7 DEF VictimOK
      <3>2. k.dVictim # NULL /\ k.dVictim # lo => k.dVictim \in FreeOut(m, top, lo, hi) /\ k.dVictimSize = m[k.dVictim + 1].size
        BY <1>1, <1>6, <1>7 DEF VictimOK
      <3> QED
        BY <1>9, <3>1, <3>2 DEF VictimIn
    <2>2. OutBins(k1, lo, hi) = FreeIn(m, top) \ {lo, k.dVictim}
      <3>1. OutBins(k1, lo, hi) = FreeOut(m, top, lo, hi) \ {k.dVictim}
        BY <1>9 DEF OutBins
      <3> QED
        BY <1>6, <3>1
    <2>3. hi - lo >= 4 /\ hi - lo >= 2
      BY <1>1, <1>2, <1>3
    <2>4. Hole(m, lo, TRUE, hi, TRUE, top, ts, E)
      BY <1>2, <1>3 DEF Hole
    <2> QED
      BY <1>8, <1>9, <2>1, <2>2, <2>3, <2>4 DEF Opened
  <1> QED
    BY <1>1, <1>2, <1>3, <1>6, <1>8, <1>10 DEF Region

LEMMA KfreeGood ==
    ASSUME NEW k, NEW E, Good(k, E), NEW a \in UsedIn(k.mem, k.topChunk), NEW ptr, ptr = a + 2,
           NEW r, r = kfree(k, ptr)
    PROVE  Freed(k, r, a, E)
  <1>1. PICK m, z, h : m = k.mem /\ h = m[a + 1] /\ z = h.size
    OBVIOUS
  <1>2. /\ a \in Nat /\ z \in Nat /\ z >= 4 /\ a + z <= k.topChunk /\ k.topChunk \in Nat
        /\ k.topChunkSize \in Nat /\ k.topChunk + k.topChunkSize + 2 <= k.heap_size /\ k.heap_size \in Nat
        /\ k.heap_start = 0 /\ h \in HEADER /\ h.cinuse = TRUE
    BY <1>1, BlockFacts
  <1>3. ptr # NULL /\ k.heap_start # NULL /\ ptr - 2 = a
    BY <1>2, KMallocAssumption
  <1>4. PAYLOAD_CHUNK(ptr) = a /\ KMALLOC_IS_INIT(k) /\ ADDRESS_OK(k, a) /\ IS_INUSE(k, a)
        /\ NEXTCHUNK(k, a) = a + z /\ GETCHUNKSIZE(k, a) = z /\ PREV_INUSE(k, a) = h.pinuse
    BY <1>1, <1>2, <1>3 DEF PAYLOAD_CHUNK, KMALLOC_IS_INIT, ADDRESS_OK, IS_INUSE, NEXTCHUNK, GETCHUNKSIZE,
        PREV_INUSE, Header
  <1>5. ADDRESS_OK(k, a + z)
    BY <1>2 DEF ADDRESS_OK
  <1>6. h.pinuse \in BOOLEAN
    BY <1>2 DEF HEADER
  <1>7. CASE h.pinuse = TRUE
    <2>1. Region(k, k, a, a, z, E)
      BY <1>1, <1>7, BlockRegion
    <2>2. PICK d : d = (a + z) - a
      OBVIOUS
    <2>3. z + 0 = d /\ a - 0 = a
      BY <1>2, <2>2
    <2>4. r = merge_free_chunks(k, a, d, a + z)
      BY <1>3, <1>4, <1>5, <1>7, <2>3 DEF kfree
    <2> QED
      BY <2>1, <2>2, <2>4, RegionFreed
  <1>8. CASE h.pinuse = FALSE
    <2>1. PICK lo, c : Before(k, lo, a, c, E)
      BY <1>1, <1>8, FindBefore
    <2>2. /\ lo \in Nat /\ c \in Nat /\ lo + c = a /\ lo < a
          /\ m[lo + 1].size = c /\ m[lo + 1].cinuse = FALSE /\ m[a] = [foot |-> c]
      BY <1>1, <2>1 DEF Before
    <2>3. PICK k1 : k1 = IF k.dVictim # lo THEN unbin_chunk(k, lo) ELSE k
      OBVIOUS
    <2>4. Region(k, k1, lo, a, z, E)
      BY <1>1, <2>1, <2>3, MergedRegion
    <2>5. PICK d : d = (a + z) - lo
      OBVIOUS
    <2>6. z + c = d /\ a - c = lo
      BY <1>2, <2>2, <2>5
    <2>7. ADDRESS_OK(k, lo) /\ GETCHUNKSIZE(k, lo) = c /\ ~IS_INUSE(k, lo) /\ m[a].foot = c
      BY <1>1, <1>2, <2>2 DEF ADDRESS_OK, GETCHUNKSIZE, IS_INUSE, Header
    <2>8. r = merge_free_chunks(k1, lo, d, a + z)
      BY <1>1, <1>3, <1>4, <1>5, <1>8, <2>3, <2>6, <2>7 DEF kfree
    <2> QED
      BY <2>4, <2>5, <2>8, RegionFreed
  <1> QED
    BY <1>6, <1>7, <1>8
=============================================================================
