-------------------------- MODULE MemoryMapProofs -------------------------
(***************************************************************************)
(* Proofs about module MemoryMap: no array of get_mmap is written past its *)
(* end, whatever the boot loader reports; if no entry is empty the map it  *)
(* returns gives every address its highest type; and memory_init takes     *)
(* exactly the free frames from it.                                        *)
(***************************************************************************)
EXTENDS MemoryMap, BasicLemmas

IsSequence(s) == \E S : s \in Seq(S)

(* The inductive invariant: the sizes of the arrays by the progress of     *)
(* get_mmap. The check of ReadEntry comes after two points were added, so  *)
(* two more than the limit may be there when it panics, or when the        *)
(* kernel's entry follows. A step of the sweep adds at most one entry to   *)
(* each list, and the first step none to mmap, because no entry is open.   *)
SizeInv ==
    /\ IsSequence(changes) /\ IsSequence(overlap) /\ IsSequence(mmap)
    /\ pos \in Nat /\ i \in Nat \ {0}
    /\ Len(changes) <= MAX_MMAP_SIZE
    /\ pc = "read" => Len(changes) <= MAX_BOOT_MMAP_SIZE
    /\ pc \in {"read", "panic", "sort"} => overlap = <<>> /\ mmap = <<>> /\ last_type = 0
    /\ pc = "sort" => i >= 2
    /\ pc \in {"sweep", "done"} =>
          /\ i <= Len(changes) + 1
          /\ Len(overlap) <= i - 1
          /\ i = 1 => mmap = <<>> /\ last_type = 0
          /\ i > 1 => Len(mmap) <= i - 2
    /\ pc \in {"read", "panic", "sort", "sweep", "done"}

LEMMA SequenceAppend ==
    ASSUME NEW s, IsSequence(s), NEW e
    PROVE  IsSequence(Append(s, e)) /\ Len(Append(s, e)) = Len(s) + 1
  <1>1. PICK S : s \in Seq(S)
    BY DEF IsSequence
  <1>2. s \in Seq(S \cup {e}) /\ e \in S \cup {e}
    BY <1>1
  <1> QED
    BY <1>2 DEF IsSequence

LEMMA SequenceConcat ==
    ASSUME NEW s, IsSequence(s), NEW c, NEW d
    PROVE  IsSequence(s \o <<c, d>>) /\ Len(s \o <<c, d>>) = Len(s) + 2
  <1>1. PICK S : s \in Seq(S)
    BY DEF IsSequence
  <1>2. s \in Seq(S \cup {c, d}) /\ <<c, d>> \in Seq(S \cup {c, d})
    BY <1>1
  <1> QED
    BY <1>2 DEF IsSequence

LEMMA SequenceExcept ==
    ASSUME NEW s, IsSequence(s), NEW j, NEW e
    PROVE  IsSequence([s EXCEPT ![j] = e]) /\ Len([s EXCEPT ![j] = e]) = Len(s)
  <1>1. PICK S : s \in Seq(S)
    BY DEF IsSequence
  <1> DEFINE r == [s EXCEPT ![j] = e]
             n == Len(s)
  <1>2. n \in Nat /\ s \in [1 .. n -> S]
    BY <1>1
  <1> HIDE DEF n
  <1>3. r \in [1 .. n -> S \cup {e}]
    BY <1>2
  <1> HIDE DEF r
  <1>4. r \in Seq(S \cup {e}) /\ Len(r) = n
    BY <1>2, <1>3
  <1> QED
    BY <1>4 DEF IsSequence, r, n

LEMMA SequenceLen == ASSUME NEW s, IsSequence(s) PROVE Len(s) \in Nat
  BY DEF IsSequence

(* Removing an entry from overlap never makes it longer.                   *)
LEMMA WithoutSize ==
    ASSUME NEW list, IsSequence(list), NEW e
    PROVE  IsSequence(Without(list, e)) /\ Len(Without(list, e)) <= Len(list)
  <1> DEFINE n == Len(list)
             found == {j \in 1 .. n : list[j] = e}
             moved == IF found = {} THEN list ELSE [list EXCEPT ![Min(found)] = list[n]]
  <1>1. IsSequence(moved) /\ Len(moved) = n
    BY SequenceExcept
  <1>2. Without(list, e) = SubSeq(moved, 1, n - 1)
    BY DEF Without
  <1> HIDE DEF moved
  <1>3. n \in Nat
    BY SequenceLen
  <1>4. PICK S : moved \in Seq(S)
    BY <1>1 DEF IsSequence
  <1>5. SubSeq(moved, 1, n - 1) \in Seq(S) /\ Len(SubSeq(moved, 1, n - 1)) <= n
    BY <1>1, <1>3, <1>4
  <1> QED
    BY <1>2, <1>5 DEF IsSequence

LEMMA SizeInit == Init => SizeInv
  <1> SUFFICES ASSUME Init
               PROVE  SizeInv
    OBVIOUS
  <1>1. IsSequence(<<>>) /\ Len(<<>>) = 0
    BY DEF IsSequence
  <1> QED
    BY <1>1, MapAssumption DEF Init, SizeInv, MAX_MMAP_SIZE

LEMMA SizeNext ==
    ASSUME SizeInv, [Next]_vars
    PROVE  SizeInv'
  <1> USE MapAssumption DEF MAX_MMAP_SIZE
  <1>0. Len(changes) \in Nat /\ Len(overlap) \in Nat /\ Len(mmap) \in Nat
    BY SequenceLen DEF SizeInv
  <1>1. CASE ReadEntry
    <2>1. PICK c, d : ChangesOf(pos) = <<c, d>>
      BY DEF ChangesOf
    <2>2. IsSequence(changes \o <<c, d>>) /\ Len(changes \o <<c, d>>) = Len(changes) + 2
      BY SequenceConcat DEF SizeInv
    <2> QED
      BY <1>0, <1>1, <2>1, <2>2 DEF ReadEntry, SizeInv
  <1>2. CASE AddKernel
    <2>1. PICK c, d : ChangesOf(0) = <<c, d>>
      BY DEF ChangesOf
    <2>2. IsSequence(changes \o <<c, d>>) /\ Len(changes \o <<c, d>>) = Len(changes) + 2
      BY SequenceConcat DEF SizeInv
    <2>3. IsSequence(changes') /\ Len(changes') = Len(changes) + 2
      BY <1>2, <2>1, <2>2 DEF AddKernel
    <2>4. /\ pc = "read" /\ pc' = "sort" /\ i' = 2
          /\ UNCHANGED <<pos, overlap, last_type, mmap>>
      BY <1>2 DEF AddKernel
    <2> QED
      BY <1>0, <2>3, <2>4 DEF SizeInv
  <1>3. CASE SortStep
    <2> DEFINE c == changes[i - 1]
               d == changes[i]
               first == [changes EXCEPT ![i] = c]
    <2>1. changes' = changes \/ changes' = [first EXCEPT ![i - 1] = d]
      BY <1>3 DEF SortStep
    <2>2. IsSequence(first) /\ Len(first) = Len(changes)
      BY SequenceExcept DEF SizeInv
    <2> HIDE DEF first, d
    <2>3. IsSequence([first EXCEPT ![i - 1] = d]) /\ Len([first EXCEPT ![i - 1] = d]) = Len(first)
      BY <2>2, SequenceExcept
    <2>4. IsSequence(changes') /\ Len(changes') = Len(changes)
      BY <2>1, <2>2, <2>3 DEF SizeInv
    <2> QED
      BY <1>0, <1>3, <2>4 DEF SortStep, SizeInv
  <1>4. CASE SortPass
    <2>1. IsSequence(<<>>) /\ Len(<<>>) = 0
      BY DEF IsSequence
    <2> QED
      BY <1>0, <1>4, <2>1 DEF SortPass, SizeInv
  <1>5. CASE Sweep
    <2>1. IsSequence(overlap') /\ Len(overlap') \in Nat /\ Len(overlap') <= Len(overlap) + 1
      <3>1. overlap' = NewOverlap(changes[i]) /\ IsSequence(overlap)
        BY <1>5 DEF Sweep, SizeInv
      <3>2. CASE IsStart(changes[i])
        BY <3>1, <3>2, <1>0, SequenceAppend DEF NewOverlap
      <3>3. CASE ~IsStart(changes[i])
        BY <3>1, <3>3, <1>0, WithoutSize, SequenceLen DEF NewOverlap
      <3> QED
        BY <3>2, <3>3
    <2>2. /\ IsSequence(mmap') /\ Len(mmap') \in Nat /\ Len(mmap') <= Len(mmap) + 1
          /\ last_type = 0 => mmap' = mmap
      <3>1. mmap' = mmap \/ mmap' = Finished(changes[i].addr)
        BY <1>5 DEF Sweep
      <3>2. PICK e : mmap' = mmap \/ (last_type # 0 /\ mmap' = Append(mmap, e))
        BY <3>1 DEF Finished
      <3>3. IsSequence(mmap) /\ IsSequence(Append(mmap, e)) /\ Len(Append(mmap, e)) = Len(mmap) + 1
        BY SequenceAppend DEF SizeInv
      <3>4. CASE mmap' = mmap
        BY <3>3, <3>4, <1>0
      <3>5. CASE last_type # 0 /\ mmap' = Append(mmap, e)
        <4>1. IsSequence(mmap') /\ Len(mmap') = Len(mmap) + 1
          BY <3>3, <3>5
        <4> QED
          BY <4>1, <3>5, <1>0
      <3> QED
        BY <3>2, <3>4, <3>5
    <2>3. /\ pc = "sweep" /\ i <= Len(changes) /\ i' = i + 1 /\ changes' = changes /\ pos' = pos
          /\ pc' \in {"sweep", "done"}
      BY <1>5 DEF Sweep
    <2>4. Len(<<>>) = 0
      OBVIOUS
    <2>5. Len(mmap') <= i' - 2 /\ Len(overlap') <= i' - 1
      BY <1>0, <2>1, <2>2, <2>3, <2>4 DEF SizeInv
    <2> QED
      BY <1>0, <2>1, <2>2, <2>3, <2>5 DEF SizeInv
  <1>6. CASE SweepDone
    BY <1>0, <1>6 DEF SweepDone, SizeInv
  <1>7. CASE UNCHANGED vars
    BY <1>7 DEF vars, SizeInv
  <1> QED
    BY <1>1, <1>2, <1>3, <1>4, <1>5, <1>6, <1>7 DEF Next

(* change_point_list, overlap and kinfo.mmap are large enough for          *)
(* every map the check in get_mmap lets through, and the sweep never stops *)
(* early because kinfo.mmap is full.                                       *)
THEOREM ArraysLargeEnough == Spec => []ArraysFit
  <1>1. SizeInv => ArraysFit
    <2> SUFFICES ASSUME SizeInv
                 PROVE  ArraysFit
      OBVIOUS
    <2>1. Len(changes) \in Nat /\ Len(overlap) \in Nat /\ Len(mmap) \in Nat /\ Len(<<>>) = 0
      BY SequenceLen DEF SizeInv
    <2> QED
      BY <2>1, MapAssumption DEF SizeInv, ArraysFit, MAX_MMAP_SIZE
  <1> QED
    BY <1>1, SizeInit, SizeNext, PTL DEF Spec

---------------------------------------------------------------------------
(* The finished map gives every address the type that overrules there.     *)
(* The argument is about the areas of the entries, which do not change     *)
(* while get_mmap runs, and is carried out on values: ch is a list of      *)
(* change points, es the areas, n the point the sweep is at, mm the        *)
(* finished entries, and la and lt the address and type of the open one.   *)

(* The areas of the entries get_mmap does not skip, with the kernel's.     *)
area == [e \in {e \in 0 .. Len(bootmap) : Entry(e).addr_high = 0} |->
            [start |-> Entry(e).addr_low, end |-> EndOf(Entry(e)), type |-> Entry(e).type]]

(* Every entry within 32 bits has at least one byte below PHYS_BYTES_MAX.  *)
NoEmptyEntries ==
    \A m \in BootMaps : \A k \in DOMAIN m :
        m[k].addr_high = 0 => m[k].addr_low < EndOf(m[k])

Areas(es) ==
    \A e \in DOMAIN es :
        /\ es[e].start \in Nat /\ es[e].end \in Nat
        /\ es[e].start < es[e].end /\ es[e].end <= PHYS_BYTES_MAX
        /\ es[e].type \in 1 .. MMAP_TYPE_KERNEL

Edge(es, a) == \E e \in DOMAIN es : a = es[e].start \/ a = es[e].end

(* A change point is the start or the end of an area, and occurs once.     *)
Starts(c, es) == c.addr = es[c.entry].start
Point(c, es) == c.entry \in DOMAIN es /\ (c.addr = es[c.entry].start \/ c.addr = es[c.entry].end)

Points(ch, es) ==
    /\ \A j \in 1 .. Len(ch) : Point(ch[j], es)
    /\ \A j, k \in 1 .. Len(ch) : (ch[j].addr = ch[k].addr /\ ch[j].entry = ch[k].entry) => j = k

HasPoints(ch, es, e) ==
    /\ \E j \in 1 .. Len(ch) : ch[j].entry = e /\ ch[j].addr = es[e].start
    /\ \E j \in 1 .. Len(ch) : ch[j].entry = e /\ ch[j].addr = es[e].end

(* The order of the sort, and the first n points in it.                    *)
InOrder(c, d, es) ==
    \/ c.addr < d.addr
    \/ c.addr = d.addr /\ (Starts(c, es) \/ ~Starts(d, es))

SortedTo(ch, n, es) ==
    \A j, k \in 1 .. Len(ch) : (j < k /\ k <= n) => InOrder(ch[j], ch[k], es)

(* What the sweep starts from.                                             *)
Swept(ch, es) ==
    /\ IsSequence(ch) /\ Areas(es) /\ Points(ch, es)
    /\ \A e \in DOMAIN es : HasPoints(ch, es, e)
    /\ SortedTo(ch, Len(ch), es)

(* The areas that start and do not end before point n.                     *)
Passed(ch, n, e, a) == \E j \in 1 .. Len(ch) : j < n /\ ch[j].entry = e /\ ch[j].addr = a
Open(ch, n, es, e) ==
    e \in DOMAIN es /\ Passed(ch, n, e, es[e].start) /\ ~Passed(ch, n, e, es[e].end)

(* All addresses below the frontier have been swept.                       *)
Frontier(ch, n) == IF n = 1 THEN 0 ELSE ch[n - 1].addr

LEMMA KernelType == MMAP_TYPE_KERNEL \in Nat \ {0}
  BY MapAssumption

LEMMA PointAddresses ==
    ASSUME NEW ch, NEW es, Swept(ch, es)
    PROVE  /\ Len(ch) \in Nat
           /\ \A j \in 1 .. Len(ch) : ch[j].entry \in DOMAIN es /\ ch[j].addr \in Nat
           /\ \A j, k \in 1 .. Len(ch) : j <= k => ch[j].addr <= ch[k].addr
  <1>1. Len(ch) \in Nat
    BY SequenceLen DEF Swept
  <1>2. \A j \in 1 .. Len(ch) : ch[j].entry \in DOMAIN es /\ ch[j].addr \in Nat
    BY DEF Swept, Points, Point, Areas
  <1>3. ASSUME NEW j \in 1 .. Len(ch), NEW k \in 1 .. Len(ch), j <= k
        PROVE  ch[j].addr <= ch[k].addr
    <2>1. CASE j = k
      BY <1>2, <2>1
    <2>2. CASE j < k
      <3>1. InOrder(ch[j], ch[k], es)
        BY <1>1, <2>2 DEF Swept, SortedTo
      <3> QED
        BY <3>1, <1>2 DEF InOrder
    <2> QED
      BY <1>1, <1>3, <2>1, <2>2
  <1> QED
    BY <1>1, <1>2, <1>3

(* The frontier moves up.                                                  *)
LEMMA FrontierUp ==
    ASSUME NEW ch, NEW es, Swept(ch, es), NEW n \in 1 .. Len(ch) + 1
    PROVE  /\ Frontier(ch, n) \in Nat
           /\ n <= Len(ch) => Frontier(ch, n) <= ch[n].addr /\ Frontier(ch, n + 1) = ch[n].addr
           /\ \A j \in 1 .. Len(ch) : j < n => ch[j].addr <= Frontier(ch, n)
           /\ \A j \in 1 .. Len(ch) : j >= n => Frontier(ch, n) <= ch[j].addr
  <1>1. /\ Len(ch) \in Nat
        /\ \A j \in 1 .. Len(ch) : ch[j].addr \in Nat
        /\ \A j, k \in 1 .. Len(ch) : j <= k => ch[j].addr <= ch[k].addr
    BY PointAddresses
  <1>2. n \in Nat /\ 1 <= n /\ n <= Len(ch) + 1
    BY <1>1
  <1>3. CASE n = 1
    BY <1>1, <1>2, <1>3 DEF Frontier
  <1>4. CASE n # 1
    <2>1. n - 1 \in 1 .. Len(ch) /\ Frontier(ch, n) = ch[n - 1].addr
      BY <1>1, <1>2, <1>4 DEF Frontier
    <2>2. n <= Len(ch) => Frontier(ch, n + 1) = ch[n].addr
      BY <1>2 DEF Frontier
    <2>3. \A j \in 1 .. Len(ch) : j < n => j <= n - 1
      BY <1>1, <1>2
    <2>4. \A j \in 1 .. Len(ch) : j >= n => n - 1 <= j
      BY <1>1, <1>2
    <2> QED
      BY <1>1, <1>2, <2>1, <2>2, <2>3, <2>4
  <1> QED
    BY <1>3, <1>4

(* At a start the area is opened, which was not open.                      *)
LEMMA OpenStart ==
    ASSUME NEW ch, NEW es, Swept(ch, es), NEW n \in 1 .. Len(ch), Starts(ch[n], es)
    PROVE  /\ ~Open(ch, n, es, ch[n].entry)
           /\ \A e : Open(ch, n + 1, es, e) <=> (Open(ch, n, es, e) \/ e = ch[n].entry)
  <1>1. Len(ch) \in Nat /\ n \in Nat
    BY PointAddresses
  <1> DEFINE x == ch[n].entry
  <1>2. x \in DOMAIN es /\ ch[n].addr = es[x].start
    BY PointAddresses DEF Starts
  <1>3. ~Passed(ch, n, x, es[x].start)
    BY <1>1, <1>2 DEF Passed, Swept, Points
  <1>4. es[x].start < es[x].end /\ es[x].start \in Nat /\ es[x].end \in Nat
    BY <1>2 DEF Swept, Areas
  <1>5. ~Passed(ch, n + 1, x, es[x].end)
    BY <1>1, <1>2, <1>4, PointAddresses DEF Passed
  <1>6. Passed(ch, n + 1, x, es[x].start)
    BY <1>1, <1>2 DEF Passed
  <1>7. ASSUME NEW e, e # x, NEW a
        PROVE  Passed(ch, n + 1, e, a) <=> Passed(ch, n, e, a)
    BY <1>1, <1>7 DEF Passed
  <1> HIDE DEF x
  <1>8. ~Open(ch, n, es, x) /\ Open(ch, n + 1, es, x)
    BY <1>2, <1>3, <1>5, <1>6 DEF Open
  <1>9. ASSUME NEW e, e # x
        PROVE  Open(ch, n + 1, es, e) <=> Open(ch, n, es, e)
    BY <1>7, <1>9 DEF Open
  <1> QED
    BY <1>8, <1>9 DEF x

(* At an end the area is closed, which was open.                           *)
LEMMA OpenEnd ==
    ASSUME NEW ch, NEW es, Swept(ch, es), NEW n \in 1 .. Len(ch), ~Starts(ch[n], es)
    PROVE  /\ Open(ch, n, es, ch[n].entry) /\ ch[n].addr = es[ch[n].entry].end
           /\ \A e : Open(ch, n + 1, es, e) <=> (Open(ch, n, es, e) /\ e # ch[n].entry)
  <1>1. Len(ch) \in Nat /\ n \in Nat
    BY PointAddresses
  <1> DEFINE x == ch[n].entry
  <1>2. x \in DOMAIN es /\ ch[n].addr = es[x].end
    BY PointAddresses DEF Starts, Swept, Points, Point
  <1>3. es[x].start < es[x].end /\ es[x].start \in Nat /\ es[x].end \in Nat
    BY <1>2 DEF Swept, Areas
  <1>4. ~Passed(ch, n, x, es[x].end)
    BY <1>1, <1>2 DEF Passed, Swept, Points
  <1>5. Passed(ch, n, x, es[x].start)
    <2>1. PICK j \in 1 .. Len(ch) : ch[j].entry = x /\ ch[j].addr = es[x].start
      BY <1>2 DEF Swept, HasPoints
    <2>2. ~(n <= j)
      BY <2>1, <1>2, <1>3, PointAddresses
    <2> QED
      BY <1>1, <2>1, <2>2 DEF Passed
  <1>6. Passed(ch, n + 1, x, es[x].end)
    BY <1>1, <1>2 DEF Passed
  <1>7. ASSUME NEW e, e # x, NEW a
        PROVE  Passed(ch, n + 1, e, a) <=> Passed(ch, n, e, a)
    BY <1>1, <1>7 DEF Passed
  <1> HIDE DEF x
  <1>8. Open(ch, n, es, x) /\ ~Open(ch, n + 1, es, x)
    BY <1>2, <1>4, <1>5, <1>6 DEF Open
  <1>9. ASSUME NEW e, e # x
        PROVE  Open(ch, n + 1, es, e) <=> Open(ch, n, es, e)
    BY <1>7, <1>9 DEF Open
  <1> QED
    BY <1>2, <1>8, <1>9 DEF x

(* Between the frontier and point n, the open areas are the ones there.    *)
LEMMA OpenCovers ==
    ASSUME NEW ch, NEW es, Swept(ch, es), NEW n \in 1 .. Len(ch) + 1,
           NEW a \in Nat, Frontier(ch, n) <= a, n <= Len(ch) => a < ch[n].addr,
           NEW e \in DOMAIN es
    PROVE  Open(ch, n, es, e) <=> (es[e].start <= a /\ a < es[e].end)
  <1>1. /\ Len(ch) \in Nat /\ n \in Nat /\ Frontier(ch, n) \in Nat
        /\ \A j \in 1 .. Len(ch) : ch[j].addr \in Nat
    BY PointAddresses, FrontierUp
  <1>2. es[e].start \in Nat /\ es[e].end \in Nat
    BY DEF Swept, Areas
  <1>3. \A j \in 1 .. Len(ch) : j < n <=> ch[j].addr <= a
    <2> SUFFICES ASSUME NEW j \in 1 .. Len(ch)
                 PROVE  j < n <=> ch[j].addr <= a
      OBVIOUS
    <2>1. CASE j < n
      BY <1>1, <2>1, FrontierUp
    <2>2. CASE j >= n
      <3>1. n \in 1 .. Len(ch)
        BY <1>1, <2>2
      <3>2. ch[n].addr <= ch[j].addr
        BY <1>1, <2>2, <3>1, PointAddresses
      <3> QED
        BY <1>1, <2>2, <3>1, <3>2
    <2> QED
      BY <1>1, <2>1, <2>2
  <1>4. ASSUME NEW b \in Nat, \E j \in 1 .. Len(ch) : ch[j].entry = e /\ ch[j].addr = b
        PROVE  Passed(ch, n, e, b) <=> b <= a
    <2>1. PICK j \in 1 .. Len(ch) : ch[j].entry = e /\ ch[j].addr = b
      BY <1>4
    <2>2. ASSUME Passed(ch, n, e, b) PROVE b <= a
      BY <1>3, <2>2 DEF Passed
    <2>3. ASSUME b <= a PROVE Passed(ch, n, e, b)
      BY <1>3, <2>1, <2>3 DEF Passed
    <2> QED
      BY <2>2, <2>3
  <1>5. Passed(ch, n, e, es[e].start) <=> es[e].start <= a
    BY <1>2, <1>4 DEF Swept, HasPoints
  <1>6. Passed(ch, n, e, es[e].end) <=> es[e].end <= a
    BY <1>2, <1>4 DEF Swept, HasPoints
  <1> QED
    BY <1>2, <1>5, <1>6 DEF Open

(* lt is the highest type of the open areas, or 0 if none is open.         *)
Top(ch, n, es, lt) ==
    /\ lt \in 0 .. MMAP_TYPE_KERNEL
    /\ \A e : Open(ch, n, es, e) => es[e].type <= lt
    /\ lt # 0 => \E e : Open(ch, n, es, e) /\ es[e].type = lt

(* t is the type that overrules at address a.                              *)
Rules(es, a, t) ==
    /\ \E e \in DOMAIN es : es[e].start <= a /\ a < es[e].end /\ es[e].type = t
    /\ \A e \in DOMAIN es : (es[e].start <= a /\ a < es[e].end) => es[e].type <= t

(* The entries of the map, the open one included, give address a type t.   *)
EndAddr(m) == m.address + m.size
Within(m, a) == m.address <= a /\ a < EndAddr(m)
Gives(mm, la, lt, a, t) ==
    \/ \E k \in 1 .. Len(mm) : Within(mm[k], a) /\ mm[k].type = t
    \/ lt # 0 /\ la <= a /\ t = lt

(* The finished entries are in order, begin and end at edges of areas, and *)
(* two that meet have different types.                                     *)
MapOrdered(es, mm) ==
    /\ \A k \in 1 .. Len(mm) :
          /\ mm[k].address \in Nat /\ mm[k].size \in Nat \ {0}
          /\ mm[k].type \in 1 .. MMAP_TYPE_KERNEL
          /\ Edge(es, mm[k].address) /\ Edge(es, EndAddr(mm[k]))
    /\ \A j, k \in 1 .. Len(mm) : j < k => EndAddr(mm[j]) <= mm[k].address
    /\ \A k \in 2 .. Len(mm) :
          EndAddr(mm[k - 1]) = mm[k].address => mm[k - 1].type # mm[k].type

(* The open entry begins behind the finished ones, which end below the     *)
(* frontier, and has another type than one it meets.                       *)
OpenFollows(es, mm, la, lt, f) ==
    /\ la \in Nat
    /\ \A k \in 1 .. Len(mm) : EndAddr(mm[k]) <= f
    /\ lt # 0 =>
          /\ la <= f /\ Edge(es, la)
          /\ \A k \in 1 .. Len(mm) : EndAddr(mm[k]) <= la
          /\ \A k \in 1 .. Len(mm) :
                (k = Len(mm) /\ EndAddr(mm[k]) = la) => mm[k].type # lt

(* Several points may have the address at which the last finished entry    *)
(* ends. Starts come first and raise the type, and an area that starts     *)
(* here cannot end here; ends only lower it. So the type the entry had     *)
(* does not come back at this address.                                     *)
Border(ch, n, es, mm, lt) ==
    \A k \in 1 .. Len(mm) :
        (k = Len(mm) /\ EndAddr(mm[k]) = Frontier(ch, n)) =>
            \/ \E e : /\ Open(ch, n, es, e) /\ es[e].start = Frontier(ch, n)
                      /\ es[e].type > mm[k].type
            \/ /\ lt < mm[k].type
               /\ \A j \in 1 .. Len(ch) :
                     (j >= n /\ ch[j].addr = Frontier(ch, n)) => ~Starts(ch[j], es)

MapSoFar(ch, n, es, mm, la, lt) ==
    /\ IsSequence(mm)
    /\ Top(ch, n, es, lt)
    /\ MapOrdered(es, mm)
    /\ OpenFollows(es, mm, la, lt, Frontier(ch, n))
    /\ Border(ch, n, es, mm, lt)
    /\ \A a \in Nat : a < Frontier(ch, n) =>
          \A t : Gives(mm, la, lt, a, t) <=> Rules(es, a, t)

(* From the frontier to point n the type of the open areas overrules.      *)
LEMMA RulesAhead ==
    ASSUME NEW ch, NEW es, Swept(ch, es), NEW n \in 1 .. Len(ch) + 1,
           NEW a \in Nat, Frontier(ch, n) <= a, n <= Len(ch) => a < ch[n].addr,
           NEW lt, Top(ch, n, es, lt), NEW t
    PROVE  Rules(es, a, t) <=> (lt # 0 /\ t = lt)
  <1>1. \A e \in DOMAIN es : Open(ch, n, es, e) <=> (es[e].start <= a /\ a < es[e].end)
    BY OpenCovers
  <1>2. \A e : Open(ch, n, es, e) => e \in DOMAIN es
    BY DEF Open
  <1>3. \A e \in DOMAIN es : es[e].type \in 1 .. MMAP_TYPE_KERNEL
    BY DEF Swept, Areas
  <1>4. Rules(es, a, t) <=> /\ \E e : Open(ch, n, es, e) /\ es[e].type = t
                            /\ \A e : Open(ch, n, es, e) => es[e].type <= t
    BY <1>1, <1>2 DEF Rules
  <1>5. ASSUME lt # 0 /\ t = lt
        PROVE  /\ \E e : Open(ch, n, es, e) /\ es[e].type = t
               /\ \A e : Open(ch, n, es, e) => es[e].type <= t
    BY <1>5 DEF Top
  <1>6. ASSUME NEW e, Open(ch, n, es, e), es[e].type = t,
               \A d : Open(ch, n, es, d) => es[d].type <= t
        PROVE  lt # 0 /\ t = lt
    <2>1. t <= lt /\ t \in 1 .. MMAP_TYPE_KERNEL /\ lt \in 0 .. MMAP_TYPE_KERNEL
      BY <1>2, <1>3, <1>6 DEF Top
    <2>2. lt # 0
      BY <2>1, KernelType
    <2>3. PICK d : Open(ch, n, es, d) /\ es[d].type = lt
      BY <2>2 DEF Top
    <2>4. lt <= t
      BY <2>3, <1>6
    <2> QED
      BY <2>1, <2>2, <2>4, KernelType
  <1> QED
    BY <1>4, <1>5, <1>6

LEMMA AppendAt ==
    ASSUME NEW s, IsSequence(s), NEW x
    PROVE  /\ IsSequence(Append(s, x)) /\ Len(s) \in Nat /\ Len(Append(s, x)) = Len(s) + 1
           /\ Append(s, x)[Len(s) + 1] = x
           /\ \A k \in 1 .. Len(s) : Append(s, x)[k] = s[k]
  <1>1. PICK S : s \in Seq(S)
    BY DEF IsSequence
  <1>2. s \in Seq(S \cup {x}) /\ x \in S \cup {x}
    BY <1>1
  <1> QED
    BY <1>2 DEF IsSequence

(* Below point n the map is right already.                                 *)
LEMMA GivesAhead ==
    ASSUME NEW ch, NEW es, Swept(ch, es), NEW n \in 1 .. Len(ch) + 1,
           NEW mm, NEW la, NEW lt, MapSoFar(ch, n, es, mm, la, lt),
           NEW a \in Nat, n <= Len(ch) => a < ch[n].addr, NEW t
    PROVE  Gives(mm, la, lt, a, t) <=> Rules(es, a, t)
  <1>1. Frontier(ch, n) \in Nat
    BY FrontierUp
  <1>2. CASE a < Frontier(ch, n)
    BY <1>2 DEF MapSoFar
  <1>3. CASE Frontier(ch, n) <= a
    <2>1. Rules(es, a, t) <=> (lt # 0 /\ t = lt)
      BY <1>3, RulesAhead DEF MapSoFar
    <2>2. ASSUME NEW k \in 1 .. Len(mm) PROVE ~Within(mm[k], a)
      <3>1. EndAddr(mm[k]) <= Frontier(ch, n)
        BY DEF MapSoFar, OpenFollows
      <3>2. EndAddr(mm[k]) \in Nat
        BY DEF MapSoFar, MapOrdered, EndAddr
      <3> QED
        BY <1>1, <1>3, <3>1, <3>2 DEF Within
    <2>3. lt # 0 => la <= a
      <3>1. lt # 0 => la <= Frontier(ch, n) /\ la \in Nat
        BY DEF MapSoFar, OpenFollows
      <3> QED
        BY <1>1, <1>3, <3>1
    <2> QED
      BY <2>1, <2>2, <2>3 DEF Gives
  <1> QED
    BY <1>1, <1>2, <1>3

(* A change of the type at point n is one up at a start and one down at an *)
(* end, after which no area starts at this address any more.               *)
LEMMA TypeChange ==
    ASSUME NEW ch, NEW es, Swept(ch, es), NEW n \in 1 .. Len(ch),
           NEW lt, Top(ch, n, es, lt), NEW ct, Top(ch, n + 1, es, ct)
    PROVE  /\ Starts(ch[n], es) => /\ Open(ch, n + 1, es, ch[n].entry)
                                   /\ es[ch[n].entry].start = ch[n].addr
                                   /\ ct # lt => es[ch[n].entry].type > lt
           /\ ~Starts(ch[n], es) =>
                 /\ ct <= lt
                 /\ \A j \in 1 .. Len(ch) : (j >= n /\ ch[j].addr = ch[n].addr) => ~Starts(ch[j], es)
  <1> DEFINE x == ch[n].entry
  <1>0. /\ Len(ch) \in Nat /\ n \in Nat /\ x \in DOMAIN es
        /\ \A j \in 1 .. Len(ch) : ch[j].addr \in Nat
        /\ lt \in Int /\ ct \in Int
        /\ \A e \in DOMAIN es : es[e].type \in Int
    BY PointAddresses, KernelType DEF Top, Swept, Areas
  <1>1. ASSUME Starts(ch[n], es)
        PROVE  /\ Open(ch, n + 1, es, x)
               /\ es[x].start = ch[n].addr
               /\ ct # lt => es[x].type > lt
    <2>1. \A e : Open(ch, n + 1, es, e) <=> (Open(ch, n, es, e) \/ e = x)
      BY <1>1, OpenStart
    <2>2. ASSUME ct # lt, ~(es[x].type > lt)
          PROVE  FALSE
      <3>1. \A e : Open(ch, n + 1, es, e) => es[e].type <= lt
        BY <1>0, <2>1, <2>2 DEF Top
      <3>2. ct <= lt
        <4>1. CASE ct = 0
          BY <4>1, KernelType DEF Top
        <4>2. CASE ct # 0
          BY <3>1, <4>2 DEF Top
        <4> QED
          BY <4>1, <4>2
      <3>3. lt <= ct
        <4>1. CASE lt = 0
          BY <4>1, KernelType DEF Top
        <4>2. CASE lt # 0
          <5>1. PICK e : Open(ch, n, es, e) /\ es[e].type = lt
            BY <4>2 DEF Top
          <5> QED
            BY <5>1, <2>1 DEF Top
        <4> QED
          BY <4>1, <4>2
      <3> QED
        BY <1>0, <2>2, <3>2, <3>3
    <2> QED
      BY <1>0, <1>1, <2>1, <2>2 DEF Starts
  <1>2. ASSUME ~Starts(ch[n], es)
        PROVE  /\ ct <= lt
               /\ \A j \in 1 .. Len(ch) : (j >= n /\ ch[j].addr = ch[n].addr) => ~Starts(ch[j], es)
    <2>1. \A e : Open(ch, n + 1, es, e) => Open(ch, n, es, e)
      BY <1>2, OpenEnd
    <2>2. ct <= lt
      <3>1. CASE ct = 0
        BY <3>1, KernelType DEF Top
      <3>2. CASE ct # 0
        BY <2>1, <3>2 DEF Top
      <3> QED
        BY <3>1, <3>2
    <2>3. ASSUME NEW j \in 1 .. Len(ch), j >= n, ch[j].addr = ch[n].addr
          PROVE  ~Starts(ch[j], es)
      <3>1. CASE j = n
        BY <1>2, <3>1
      <3>2. CASE n < j
        <4>1. InOrder(ch[n], ch[j], es)
          BY <1>0, <3>2 DEF Swept, SortedTo
        <4> QED
          BY <1>0, <1>2, <2>3, <4>1 DEF InOrder
      <3> QED
        BY <1>0, <2>3, <3>1, <3>2
    <2> QED
      BY <2>2, <2>3
  <1> QED
    BY <1>1, <1>2

(* The border of the last finished entry, when point n finishes none.      *)
LEMMA BorderKept ==
    ASSUME NEW ch, NEW es, Swept(ch, es), NEW n \in 1 .. Len(ch),
           NEW mm, NEW la, NEW lt, MapSoFar(ch, n, es, mm, la, lt),
           NEW ct, Top(ch, n + 1, es, ct)
    PROVE  Border(ch, n + 1, es, mm, ct)
  <1> SUFFICES ASSUME NEW k \in 1 .. Len(mm), k = Len(mm), EndAddr(mm[k]) = Frontier(ch, n + 1)
               PROVE  \/ \E e : /\ Open(ch, n + 1, es, e) /\ es[e].start = Frontier(ch, n + 1)
                                /\ es[e].type > mm[k].type
                      \/ /\ ct < mm[k].type
                         /\ \A j \in 1 .. Len(ch) :
                               (j >= n + 1 /\ ch[j].addr = Frontier(ch, n + 1)) => ~Starts(ch[j], es)
    BY DEF Border
  <1>0. /\ Len(ch) \in Nat /\ n \in Nat /\ n \in 1 .. Len(ch) + 1 /\ n <= Len(ch)
        /\ Frontier(ch, n) \in Nat /\ ch[n].addr \in Nat
        /\ Frontier(ch, n) <= ch[n].addr /\ Frontier(ch, n + 1) = ch[n].addr
    <2>1. Len(ch) \in Nat /\ ch[n].addr \in Nat
      BY PointAddresses
    <2>2. n \in Nat /\ n \in 1 .. Len(ch) + 1 /\ n <= Len(ch)
      BY <2>1
    <2> QED
      BY <2>1, <2>2, FrontierUp
  <1>1. Frontier(ch, n) = ch[n].addr /\ EndAddr(mm[k]) = Frontier(ch, n)
    <2>1. EndAddr(mm[k]) <= Frontier(ch, n) /\ EndAddr(mm[k]) = ch[n].addr
      BY <1>0 DEF MapSoFar, OpenFollows
    <2> QED
      BY <1>0, <2>1
  <1>2. \/ \E e : /\ Open(ch, n, es, e) /\ es[e].start = Frontier(ch, n)
                  /\ es[e].type > mm[k].type
        \/ /\ lt < mm[k].type
           /\ \A j \in 1 .. Len(ch) :
                 (j >= n /\ ch[j].addr = Frontier(ch, n)) => ~Starts(ch[j], es)
    BY <1>1 DEF MapSoFar, Border
  <1>3. ASSUME NEW e, Open(ch, n, es, e), es[e].start = Frontier(ch, n), es[e].type > mm[k].type
        PROVE  Open(ch, n + 1, es, e) /\ es[e].start = Frontier(ch, n + 1)
    <2>1. CASE Starts(ch[n], es)
      BY <1>0, <1>1, <1>3, <2>1, OpenStart
    <2>2. CASE ~Starts(ch[n], es)
      <3>1. ch[n].addr = es[ch[n].entry].end
        BY <2>2, OpenEnd
      <3>2. e \in DOMAIN es
        BY <1>3 DEF Open
      <3>3. es[e].start < es[e].end /\ es[e].start \in Nat /\ es[e].end \in Nat
        BY <3>2 DEF Swept, Areas
      <3>4. e # ch[n].entry
        BY <1>1, <1>3, <3>1, <3>3
      <3> QED
        BY <1>0, <1>1, <1>3, <2>2, <3>4, OpenEnd
    <2> QED
      BY <2>1, <2>2
  <1>4. ASSUME lt < mm[k].type,
               \A j \in 1 .. Len(ch) : (j >= n /\ ch[j].addr = Frontier(ch, n)) => ~Starts(ch[j], es)
        PROVE  /\ ct < mm[k].type
               /\ \A j \in 1 .. Len(ch) :
                     (j >= n + 1 /\ ch[j].addr = Frontier(ch, n + 1)) => ~Starts(ch[j], es)
    <2>1. ~Starts(ch[n], es)
      BY <1>0, <1>1, <1>4
    <2>2. ct <= lt
      BY <2>1, TypeChange DEF MapSoFar
    <2>3. ct \in Int /\ lt \in Int /\ mm[k].type \in Int
      BY KernelType DEF MapSoFar, Top, MapOrdered
    <2> QED
      BY <1>0, <1>1, <1>4, <2>2, <2>3
  <1> QED
    BY <1>2, <1>3, <1>4

(* Point n does not change the type: the open entry goes on.               *)
LEMMA StepSameType ==
    ASSUME NEW ch, NEW es, Swept(ch, es), NEW n \in 1 .. Len(ch),
           NEW mm, NEW la, NEW lt, MapSoFar(ch, n, es, mm, la, lt), Top(ch, n + 1, es, lt)
    PROVE  MapSoFar(ch, n + 1, es, mm, la, lt)
  <1>0. /\ n \in 1 .. Len(ch) + 1 /\ n <= Len(ch)
        /\ Frontier(ch, n) \in Nat /\ ch[n].addr \in Nat
        /\ Frontier(ch, n) <= ch[n].addr /\ Frontier(ch, n + 1) = ch[n].addr
    <2>1. Len(ch) \in Nat /\ ch[n].addr \in Nat
      BY PointAddresses
    <2>2. n \in 1 .. Len(ch) + 1 /\ n <= Len(ch)
      BY <2>1
    <2> QED
      BY <2>1, <2>2, FrontierUp
  <1>1. \A k \in 1 .. Len(mm) : EndAddr(mm[k]) \in Nat
    BY DEF MapSoFar, MapOrdered, EndAddr
  <1>2. OpenFollows(es, mm, la, lt, Frontier(ch, n + 1))
    <2>1. OpenFollows(es, mm, la, lt, Frontier(ch, n))
      BY DEF MapSoFar
    <2>2. \A k \in 1 .. Len(mm) : EndAddr(mm[k]) <= Frontier(ch, n + 1)
      BY <1>0, <1>1, <2>1 DEF OpenFollows
    <2>3. lt # 0 => la <= Frontier(ch, n + 1)
      BY <1>0, <2>1 DEF OpenFollows
    <2> QED
      BY <2>1, <2>2, <2>3 DEF OpenFollows
  <1>3. Border(ch, n + 1, es, mm, lt)
    BY BorderKept
  <1>4. ASSUME NEW a \in Nat, a < Frontier(ch, n + 1), NEW t
        PROVE  Gives(mm, la, lt, a, t) <=> Rules(es, a, t)
    BY <1>0, <1>4, GivesAhead
  <1> QED
    BY <1>2, <1>3, <1>4 DEF MapSoFar

(* Point n changes the type and no entry is finished: none is open, or the *)
(* open one is still empty.                                                *)
LEMMA StepNoEntry ==
    ASSUME NEW ch, NEW es, Swept(ch, es), NEW n \in 1 .. Len(ch),
           NEW mm, NEW la, NEW lt, MapSoFar(ch, n, es, mm, la, lt),
           lt = 0 \/ la = ch[n].addr,
           NEW ct, Top(ch, n + 1, es, ct),
           NEW lb, ct # 0 => lb = ch[n].addr, ct = 0 => lb = la
    PROVE  MapSoFar(ch, n + 1, es, mm, lb, ct)
  <1>0. /\ n \in 1 .. Len(ch) + 1 /\ n <= Len(ch) /\ ch[n].entry \in DOMAIN es
        /\ Frontier(ch, n) \in Nat /\ ch[n].addr \in Nat
        /\ Frontier(ch, n) <= ch[n].addr /\ Frontier(ch, n + 1) = ch[n].addr
    <2>1. Len(ch) \in Nat /\ ch[n].addr \in Nat /\ ch[n].entry \in DOMAIN es
      BY PointAddresses
    <2>2. n \in 1 .. Len(ch) + 1 /\ n <= Len(ch)
      BY <2>1
    <2> QED
      BY <2>1, <2>2, FrontierUp
  <1>1. \A k \in 1 .. Len(mm) : EndAddr(mm[k]) \in Nat /\ mm[k].type \in Int
    BY KernelType DEF MapSoFar, MapOrdered, EndAddr
  <1>2. Border(ch, n + 1, es, mm, ct)
    BY BorderKept
  <1>3. Edge(es, ch[n].addr)
    BY <1>0 DEF Edge, Swept, Points, Point
  <1>4. ASSUME NEW k \in 1 .. Len(mm), k = Len(mm), EndAddr(mm[k]) = ch[n].addr
        PROVE  mm[k].type # ct
    <2>1. \/ \E e : Open(ch, n + 1, es, e) /\ es[e].type > mm[k].type
          \/ ct < mm[k].type
      BY <1>0, <1>2, <1>4 DEF Border
    <2>2. ASSUME NEW e, Open(ch, n + 1, es, e), es[e].type > mm[k].type
          PROVE  ct > mm[k].type
      <3>1. es[e].type <= ct
        BY <2>2 DEF Top
      <3>2. es[e].type \in Int /\ ct \in Int
        BY <2>2, KernelType DEF Open, Swept, Areas, Top
      <3> QED
        BY <1>1, <2>2, <3>1, <3>2
    <2>3. ct \in Int /\ mm[k].type \in Int
      BY <1>1, KernelType DEF Top
    <2> QED
      BY <2>1, <2>2, <2>3
  <1>5. OpenFollows(es, mm, lb, ct, Frontier(ch, n + 1))
    <2>1. lb \in Nat
      BY <1>0 DEF MapSoFar, OpenFollows
    <2>2. \A k \in 1 .. Len(mm) : EndAddr(mm[k]) <= ch[n].addr
      BY <1>0, <1>1 DEF MapSoFar, OpenFollows
    <2> QED
      BY <1>0, <1>3, <1>4, <2>1, <2>2 DEF OpenFollows
  <1>6. ASSUME NEW a \in Nat, a < Frontier(ch, n + 1), NEW t
        PROVE  Gives(mm, lb, ct, a, t) <=> Rules(es, a, t)
    <2>1. Gives(mm, la, lt, a, t) <=> Rules(es, a, t)
      BY <1>0, <1>6, GivesAhead
    <2>2. ~(lt # 0 /\ la <= a)
      BY <1>0, <1>6
    <2>3. ~(ct # 0 /\ lb <= a)
      BY <1>0, <1>6
    <2> QED
      BY <2>1, <2>2, <2>3 DEF Gives
  <1> QED
    BY <1>2, <1>5, <1>6 DEF MapSoFar

(* Point n changes the type and the open entry is finished.                *)
LEMMA StepEntry ==
    ASSUME NEW ch, NEW es, Swept(ch, es), NEW n \in 1 .. Len(ch),
           NEW mm, NEW la, NEW lt, MapSoFar(ch, n, es, mm, la, lt),
           lt # 0, la # ch[n].addr,
           NEW ct, Top(ch, n + 1, es, ct), ct # lt,
           NEW lb, ct # 0 => lb = ch[n].addr, ct = 0 => lb = la,
           NEW m, m.address = la, m.size = ch[n].addr - la, m.type = lt
    PROVE  MapSoFar(ch, n + 1, es, Append(mm, m), lb, ct)
  <1>0. /\ n \in 1 .. Len(ch) + 1 /\ n <= Len(ch) /\ ch[n].entry \in DOMAIN es
        /\ Frontier(ch, n) \in Nat /\ ch[n].addr \in Nat
        /\ Frontier(ch, n) <= ch[n].addr /\ Frontier(ch, n + 1) = ch[n].addr
    <2>1. Len(ch) \in Nat /\ ch[n].addr \in Nat /\ ch[n].entry \in DOMAIN es
      BY PointAddresses
    <2>2. n \in 1 .. Len(ch) + 1 /\ n <= Len(ch)
      BY <2>1
    <2> QED
      BY <2>1, <2>2, FrontierUp
  <1> DEFINE A == ch[n].addr
             len == Len(mm)
  <1>1. PICK mn : mn = Append(mm, m)
    OBVIOUS
  <1>2. /\ IsSequence(mn) /\ len \in Nat /\ Len(mn) = len + 1 /\ mn[len + 1] = m
        /\ \A k \in 1 .. len : mn[k] = mm[k]
    BY <1>1, AppendAt DEF MapSoFar
  <1>3. la \in Nat /\ la < A /\ Edge(es, la)
    BY <1>0 DEF MapSoFar, OpenFollows
  <1>4. Edge(es, A)
    BY <1>0 DEF Edge, Swept, Points, Point
  <1>5. /\ m.address \in Nat /\ m.size \in Nat \ {0} /\ EndAddr(m) = A
        /\ m.type \in 1 .. MMAP_TYPE_KERNEL
    <2>1. m.type \in 1 .. MMAP_TYPE_KERNEL
      BY KernelType DEF MapSoFar, Top
    <2>2. PICK y : y = ch[n].addr
      OBVIOUS
    <2>3. y \in Nat /\ la \in Nat /\ la < y
      BY <1>0, <1>3, <2>2
    <2>4. y - la \in Nat \ {0} /\ la + (y - la) = y
      BY <2>3
    <2> QED
      BY <1>3, <2>1, <2>2, <2>4 DEF EndAddr
  <1>6. \A k \in 1 .. len : EndAddr(mm[k]) \in Nat /\ EndAddr(mm[k]) <= la
    BY DEF MapSoFar, MapOrdered, OpenFollows, EndAddr
  <1> HIDE DEF A, len
  <1>7. \A k \in 1 .. len + 1 : k \in 1 .. len \/ k = len + 1
    BY <1>2
  <1>8. MapOrdered(es, mn)
    <2>1. ASSUME NEW k \in 1 .. Len(mn)
          PROVE  /\ mn[k].address \in Nat /\ mn[k].size \in Nat \ {0}
                 /\ mn[k].type \in 1 .. MMAP_TYPE_KERNEL
                 /\ Edge(es, mn[k].address) /\ Edge(es, EndAddr(mn[k]))
      <3>1. CASE k \in 1 .. len
        BY <1>2, <3>1 DEF MapSoFar, MapOrdered, len
      <3>2. CASE k = len + 1
        BY <1>2, <1>3, <1>4, <1>5, <3>2
      <3> QED
        BY <1>2, <1>7, <3>1, <3>2
    <2>2. ASSUME NEW j \in 1 .. Len(mn), NEW k \in 1 .. Len(mn), j < k
          PROVE  EndAddr(mn[j]) <= mn[k].address
      <3>1. j \in 1 .. len
        BY <1>2, <2>2
      <3>2. CASE k \in 1 .. len
        BY <1>2, <2>2, <3>1, <3>2 DEF MapSoFar, MapOrdered, len
      <3>3. CASE k = len + 1
        BY <1>2, <1>6, <3>1, <3>3
      <3> QED
        BY <1>2, <1>7, <3>2, <3>3
    <2>3. ASSUME NEW k \in 2 .. Len(mn), EndAddr(mn[k - 1]) = mn[k].address
          PROVE  mn[k - 1].type # mn[k].type
      <3>1. k \in 1 .. len + 1 /\ k - 1 \in 1 .. len
        BY <1>2
      <3>2. CASE k \in 1 .. len
        <4>1. k \in 2 .. len
          BY <1>2, <3>1, <3>2
        <4> QED
          BY <1>2, <2>3, <3>1, <3>2, <4>1 DEF MapSoFar, MapOrdered, len
      <3>3. CASE k = len + 1
        <4>1. k - 1 = len /\ len \in 1 .. len
          BY <1>2, <3>1, <3>3
        <4>2. EndAddr(mm[len]) = la
          BY <1>2, <2>3, <3>3, <4>1
        <4>3. mm[len].type # lt
          BY <4>1, <4>2 DEF MapSoFar, OpenFollows, len
        <4> QED
          BY <1>2, <3>3, <4>1, <4>3
      <3> QED
        BY <1>7, <3>1, <3>2, <3>3
    <2> QED
      BY <2>1, <2>2, <2>3 DEF MapOrdered
  <1>9. \A k \in 1 .. Len(mn) : EndAddr(mn[k]) <= A
    <2>1. \A k \in 1 .. len : EndAddr(mm[k]) <= A
      BY <1>0, <1>3, <1>6 DEF A
    <2> QED
      BY <1>0, <1>2, <1>5, <1>7, <2>1 DEF A
  <1>10. OpenFollows(es, mn, lb, ct, Frontier(ch, n + 1))
    <2>1. lb \in Nat
      BY <1>0, <1>3
    <2>2. \A k \in 1 .. Len(mn) : k = Len(mn) => mn[k].type # ct
      BY <1>2
    <2> QED
      BY <1>0, <1>4, <1>9, <2>1, <2>2 DEF OpenFollows, A
  <1>11. Border(ch, n + 1, es, mn, ct)
    <2> SUFFICES ASSUME NEW k \in 1 .. Len(mn), k = Len(mn)
                 PROVE  \/ \E e : /\ Open(ch, n + 1, es, e) /\ es[e].start = A
                                  /\ es[e].type > mn[k].type
                        \/ /\ ct < mn[k].type
                           /\ \A j \in 1 .. Len(ch) :
                                 (j >= n + 1 /\ ch[j].addr = A) => ~Starts(ch[j], es)
      BY <1>0 DEF Border, A
    <2>1. mn[k].type = lt
      BY <1>2
    <2>2. CASE Starts(ch[n], es)
      <3>1. Open(ch, n + 1, es, ch[n].entry) /\ es[ch[n].entry].start = A
        BY <2>2, TypeChange DEF MapSoFar, A
      <3>2. es[ch[n].entry].type > lt
        BY <2>2, TypeChange DEF MapSoFar
      <3> QED
        BY <2>1, <3>1, <3>2
    <2>3. CASE ~Starts(ch[n], es)
      <3>1. /\ ct <= lt
            /\ \A j \in 1 .. Len(ch) : (j >= n /\ ch[j].addr = A) => ~Starts(ch[j], es)
        BY <2>3, TypeChange DEF MapSoFar, A
      <3>2. ct \in Int /\ lt \in Int
        BY KernelType DEF MapSoFar, Top
      <3>3. Len(ch) \in Nat
        BY PointAddresses
      <3> QED
        BY <2>1, <3>1, <3>2, <3>3
    <2> QED
      BY <2>2, <2>3
  <1>12. ASSUME NEW a \in Nat, a < Frontier(ch, n + 1), NEW t
         PROVE  Gives(mn, lb, ct, a, t) <=> Rules(es, a, t)
    <2>0. a < A
      BY <1>0, <1>12 DEF A
    <2>1. Gives(mm, la, lt, a, t) <=> Rules(es, a, t)
      BY <1>0, <1>12, GivesAhead
    <2>2. ~(ct # 0 /\ lb <= a)
      BY <1>0, <2>0 DEF A
    <2>3. Within(m, a) <=> la <= a
      BY <1>5, <2>0 DEF Within
    <2>4. Gives(mn, lb, ct, a, t) <=> \E k \in 1 .. len + 1 : Within(mn[k], a) /\ mn[k].type = t
      BY <1>2, <2>2 DEF Gives
    <2>5. (\E k \in 1 .. len + 1 : Within(mn[k], a) /\ mn[k].type = t)
            <=> \/ \E k \in 1 .. len : Within(mm[k], a) /\ mm[k].type = t
                \/ Within(m, a) /\ m.type = t
      BY <1>2, <1>7
    <2>6. Gives(mm, la, lt, a, t) <=> \/ \E k \in 1 .. len : Within(mm[k], a) /\ mm[k].type = t
                                      \/ la <= a /\ t = lt
      BY DEF Gives, len
    <2> QED
      BY <2>1, <2>3, <2>4, <2>5, <2>6
  <1>13. MapSoFar(ch, n + 1, es, mn, lb, ct)
    BY <1>2, <1>8, <1>10, <1>11, <1>12 DEF MapSoFar
  <1> QED
    BY <1>1, <1>13

---------------------------------------------------------------------------
(* The highest type of a set of types, as OverrulingType and TypeAt use it.*)
LEMMA MaxOfTypes ==
    ASSUME NEW S, S \subseteq 0 .. MMAP_TYPE_KERNEL, S # {}
    PROVE  Max(S) \in S /\ \A y \in S : y <= Max(S)
  <1> DEFINE K == MMAP_TYPE_KERNEL
             N == {k \in Nat : k <= K /\ K - k \in S}
  <1>0. K \in Nat
    BY KernelType
  <1>1. N \subseteq Nat
    OBVIOUS
  <1>2. N # {}
    <2>1. PICK y \in S : TRUE
      OBVIOUS
    <2>2. y \in Nat /\ y <= K /\ K - y \in Nat /\ K - y <= K /\ K - (K - y) = y
      BY <1>0
    <2>3. K - y \in N
      BY <2>2
    <2> QED
      BY <2>3
  <1>3. PICK x \in N : \A y \in N : x <= y
    BY <1>1, <1>2, LeastNat
  <1>4. K - x \in S /\ x \in Nat
    BY <1>3
  <1>5. ASSUME NEW y \in S PROVE K - x >= y
    <2>1. y \in Nat /\ y <= K /\ K - y \in Nat /\ K - y <= K /\ K - (K - y) = y
      BY <1>0
    <2>2. K - y \in N
      BY <2>1
    <2>3. x <= K - y
      BY <1>3, <2>2
    <2> QED
      BY <1>0, <1>4, <2>1, <2>3
  <1> HIDE DEF N, K
  <1>6. \E z \in S : \A y \in S : z >= y
    BY <1>4, <1>5
  <1>7. Max(S) \in S /\ \A y \in S : Max(S) >= y
    BY <1>6 DEF Max
  <1>8. \A y \in S : y \in Int
    BY <1>0 DEF K
  <1> QED
    BY <1>7, <1>8

LEMMA AreaTypes ==
    ASSUME NoEmptyEntries, bootmap \in BootMaps
    PROVE  /\ Areas(area) /\ 0 \in DOMAIN area
           /\ Len(bootmap) \in Nat /\ DOMAIN area \subseteq 0 .. Len(bootmap)
  <1> USE DEF PHYS_BYTES_MAX
  <1> DEFINE Field == [addr_high : Nat, addr_low : 0 .. WORD - 1, len_high : Nat,
                       len_low : 0 .. WORD - 1, type : 1 .. MMAP_TYPE_KERNEL - 1]
  <1>1. bootmap \in Seq(Field)
    BY MapAssumption
  <1> HIDE DEF Field
  <1>2. Len(bootmap) \in Nat /\ \A k \in 1 .. Len(bootmap) : bootmap[k] \in Field
    BY <1>1
  <1>3. /\ WORD \in Nat /\ kernel_start_phys \in Nat /\ kernel_end_phys \in Nat
        /\ kernel_start_phys < kernel_end_phys /\ kernel_end_phys < WORD - 1
    BY MapAssumption
  <1>4. DOMAIN area = {e \in 0 .. Len(bootmap) : Entry(e).addr_high = 0}
    BY DEF area
  <1>5. /\ dummy.addr_high = 0 /\ dummy.len_high = 0 /\ dummy.addr_low = kernel_start_phys
        /\ dummy.len_low = kernel_end_phys - kernel_start_phys /\ dummy.type = MMAP_TYPE_KERNEL
    BY DEF dummy
  <1>6. 0 \in DOMAIN area
    BY <1>2, <1>4, <1>5 DEF Entry
  <1>7. ASSUME NEW e \in DOMAIN area
        PROVE  /\ area[e].start \in Nat /\ area[e].end \in Nat
               /\ area[e].start < area[e].end /\ area[e].end <= PHYS_BYTES_MAX
               /\ area[e].type \in 1 .. MMAP_TYPE_KERNEL
    <2>1. /\ area[e].start = Entry(e).addr_low /\ area[e].end = EndOf(Entry(e))
          /\ area[e].type = Entry(e).type
      BY <1>4 DEF area
    <2>2. CASE e = 0
      <3>1. Entry(e) = dummy
        BY <2>2 DEF Entry
      <3>2. dummy.addr_low + dummy.len_low = kernel_end_phys
        BY <1>3, <1>5
      <3>3. EndOf(dummy) = kernel_end_phys
        BY <1>3, <1>5, <3>2 DEF EndOf
      <3> QED
        BY <1>3, <1>5, <2>1, <3>1, <3>3, KernelType
    <2>3. CASE e # 0
      <3>1. e \in 1 .. Len(bootmap) /\ Entry(e) = bootmap[e] /\ bootmap[e].addr_high = 0
        BY <1>2, <1>4, <2>3 DEF Entry
      <3>2. PICK b : b = bootmap[e]
        OBVIOUS
      <3>3. b \in Field
        BY <1>2, <3>1, <3>2
      <3>4. e \in DOMAIN bootmap
        BY <1>1, <3>1
      <3>5. b.addr_low < EndOf(b)
        BY <3>1, <3>2, <3>4 DEF NoEmptyEntries
      <3>6. /\ b.addr_low \in 0 .. WORD - 1 /\ b.len_low \in 0 .. WORD - 1
            /\ b.type \in 1 .. MMAP_TYPE_KERNEL - 1
        BY <3>3 DEF Field
      <3>7. EndOf(b) \in Nat /\ EndOf(b) <= WORD - 1
        BY <1>3, <3>6 DEF EndOf
      <3> QED
        BY <1>3, <2>1, <3>1, <3>2, <3>5, <3>6, <3>7, KernelType
    <2> QED
      BY <2>2, <2>3
  <1> QED
    BY <1>2, <1>4, <1>6, <1>7 DEF Areas

LEMMA AreaFixed == bootmap' = bootmap => area' = area
  BY DEF area, Entry, EndOf, dummy

(* IsStart and Before of the code are Starts and InOrder of the areas.     *)
LEMMA StartsIsStart ==
    ASSUME NEW c, c.entry \in DOMAIN area
    PROVE  IsStart(c) <=> Starts(c, area)
  BY DEF area, IsStart, Starts

LEMMA NotBefore ==
    ASSUME NEW c, NEW d, Point(c, area), Point(d, area), c.addr \in Nat, d.addr \in Nat
    PROVE  ~Before(d, c) <=> InOrder(c, d, area)
  <1>1. (IsStart(c) <=> Starts(c, area)) /\ (IsStart(d) <=> Starts(d, area))
    BY StartsIsStart DEF Point
  <1> QED
    BY <1>1 DEF Before, InOrder

(* Reading an entry adds its two points.                                   *)
WithPoints(ch, c, d) == ch \o <<c, d>>

LEMMA AddPoints ==
    ASSUME NEW ch, IsSequence(ch), NEW es, Areas(es), Points(ch, es), NEW x \in DOMAIN es,
           \A j \in 1 .. Len(ch) : ch[j].entry # x,
           NEW c, c.addr = es[x].start, c.entry = x,
           NEW d, d.addr = es[x].end, d.entry = x,
           NEW cn, cn = WithPoints(ch, c, d)
    PROVE  /\ IsSequence(cn) /\ Points(cn, es) /\ HasPoints(cn, es, x)
           /\ \A e : HasPoints(ch, es, e) => HasPoints(cn, es, e)
           /\ \A j \in 1 .. Len(cn) : cn[j].entry = x \/ \E k \in 1 .. Len(ch) : cn[j] = ch[k]
  <1> DEFINE n == Len(ch)
  <1>2. /\ IsSequence(cn) /\ n \in Nat /\ Len(cn) = n + 2
        /\ cn[n + 1] = c /\ cn[n + 2] = d
        /\ \A k \in 1 .. n : cn[k] = ch[k]
    <2>1. PICK S : ch \in Seq(S)
      BY DEF IsSequence
    <2>2. ch \in Seq(S \cup {c, d}) /\ <<c, d>> \in Seq(S \cup {c, d})
      BY <2>1
    <2>3. Len(<<c, d>>) = 2 /\ <<c, d>>[1] = c /\ <<c, d>>[2] = d
      OBVIOUS
    <2> QED
      BY <2>2, <2>3 DEF IsSequence, WithPoints
  <1>3. es[x].start # es[x].end
    BY DEF Areas
  <1>4. \A j \in 1 .. n : ch[j].entry # x /\ Point(ch[j], es)
    BY DEF Points
  <1>5. \A j, k \in 1 .. n : (ch[j].addr = ch[k].addr /\ ch[j].entry = ch[k].entry) => j = k
    BY DEF Points
  <1>6. \A e : HasPoints(ch, es, e) =>
           /\ \E j \in 1 .. n : ch[j].entry = e /\ ch[j].addr = es[e].start
           /\ \E j \in 1 .. n : ch[j].entry = e /\ ch[j].addr = es[e].end
    BY DEF HasPoints
  <1> HIDE DEF n
  <1>7. \A j \in 1 .. n + 2 : j \in 1 .. n \/ j = n + 1 \/ j = n + 2
    BY <1>2
  <1>8. n + 1 \in 1 .. n + 2 /\ n + 2 \in 1 .. n + 2 /\ n + 1 # n + 2
    BY <1>2
  <1>9. \A j \in 1 .. n : j \in 1 .. n + 2
    BY <1>2
  <1>10. \A j \in 1 .. n + 2 : Point(cn[j], es)
    BY <1>2, <1>4, <1>7 DEF Point
  <1>11. ASSUME NEW j \in 1 .. n + 2, NEW k \in 1 .. n + 2,
                cn[j].addr = cn[k].addr, cn[j].entry = cn[k].entry
         PROVE  j = k
    <2>1. CASE j \in 1 .. n
      BY <1>2, <1>4, <1>5, <1>7, <1>11, <2>1
    <2>2. CASE j \notin 1 .. n
      <3>1. cn[j].entry = x
        BY <1>2, <1>7, <2>2
      <3>2. k \notin 1 .. n
        BY <1>2, <1>4, <1>11, <3>1
      <3> QED
        BY <1>2, <1>3, <1>7, <1>11, <2>2, <3>2
    <2> QED
      BY <2>1, <2>2
  <1>12. HasPoints(cn, es, x)
    BY <1>2, <1>8 DEF HasPoints
  <1>13. ASSUME NEW e, HasPoints(ch, es, e)
         PROVE  HasPoints(cn, es, e)
    <2>1. PICK j \in 1 .. n : ch[j].entry = e /\ ch[j].addr = es[e].start
      BY <1>6, <1>13
    <2>2. PICK k \in 1 .. n : ch[k].entry = e /\ ch[k].addr = es[e].end
      BY <1>6, <1>13
    <2> QED
      BY <1>2, <1>9, <2>1, <2>2 DEF HasPoints
  <1>14. \A j \in 1 .. Len(cn) : cn[j].entry = x \/ \E k \in 1 .. n : cn[j] = ch[k]
    BY <1>2, <1>7
  <1>15. Points(cn, es)
    <2>1. \A j \in 1 .. Len(cn) : Point(cn[j], es)
      BY <1>2, <1>10
    <2>2. \A j, k \in 1 .. Len(cn) :
             (cn[j].addr = cn[k].addr /\ cn[j].entry = cn[k].entry) => j = k
      BY <1>2, <1>11
    <2> QED
      BY <2>1, <2>2, Zenon DEF Points
  <1> QED
    BY <1>2, <1>12, <1>13, <1>14, <1>15 DEF n

(* A swap of the sort keeps the points.                                    *)
Swapped(ch, k) == [ch EXCEPT ![k] = ch[k - 1], ![k - 1] = ch[k]]

LEMMA SwapPoints ==
    ASSUME NEW ch, IsSequence(ch), NEW es, Points(ch, es), NEW k \in 2 .. Len(ch),
           NEW cn, cn = Swapped(ch, k)
    PROVE  /\ Points(cn, es)
           /\ \A e : HasPoints(ch, es, e) => HasPoints(cn, es, e)
  <1> DEFINE n == Len(ch)
             other(j) == IF j = k THEN k - 1 ELSE IF j = k - 1 THEN k ELSE j
  <1>2. n \in Nat /\ DOMAIN ch = 1 .. n
    BY DEF IsSequence
  <1>3. Len(cn) = n
    <2>1. PICK c1 : c1 = [ch EXCEPT ![k] = ch[k - 1]]
      OBVIOUS
    <2>2. IsSequence(c1) /\ Len(c1) = n
      BY <2>1, SequenceExcept
    <2>3. cn = [c1 EXCEPT ![k - 1] = ch[k]]
      BY <2>1 DEF Swapped
    <2> QED
      BY <2>2, <2>3, SequenceExcept
  <1>4. k \in 1 .. n /\ k - 1 \in 1 .. n /\ k - 1 # k
    BY <1>2
  <1> HIDE DEF n
  <1>5. \A j \in 1 .. n : /\ other(j) \in 1 .. n /\ other(other(j)) = j
                          /\ cn[j] = ch[other(j)] /\ cn[other(j)] = ch[j]
    BY <1>2, <1>4 DEF Swapped
  <1> HIDE DEF other
  <1>6. \A j \in 1 .. n : Point(cn[j], es)
    BY <1>5 DEF Points, n
  <1>7. ASSUME NEW j \in 1 .. n, NEW l \in 1 .. n,
               cn[j].addr = cn[l].addr, cn[j].entry = cn[l].entry
        PROVE  j = l
    <2>1. PICK p, q : p = other(j) /\ q = other(l)
      OBVIOUS
    <2>2. p \in 1 .. n /\ q \in 1 .. n /\ cn[j] = ch[p] /\ cn[l] = ch[q]
      BY <1>5, <2>1
    <2>3. ch[p].addr = ch[q].addr /\ ch[p].entry = ch[q].entry
      BY <1>7, <2>2
    <2>4. p = q
      BY <2>2, <2>3 DEF Points, n
    <2> QED
      BY <1>5, <2>1, <2>4
  <1>8. ASSUME NEW e, HasPoints(ch, es, e)
        PROVE  HasPoints(cn, es, e)
    <2>1. PICK j \in 1 .. n : ch[j].entry = e /\ ch[j].addr = es[e].start
      BY <1>8 DEF HasPoints, n
    <2>2. PICK l \in 1 .. n : ch[l].entry = e /\ ch[l].addr = es[e].end
      BY <1>8 DEF HasPoints, n
    <2>3. /\ other(j) \in 1 .. n /\ cn[other(j)] = ch[j]
          /\ other(l) \in 1 .. n /\ cn[other(l)] = ch[l]
      BY <1>5
    <2> QED
      BY <1>3, <2>1, <2>2, <2>3 DEF HasPoints
  <1>9. Points(cn, es)
    BY <1>3, <1>6, <1>7 DEF Points
  <1> QED
    BY <1>8, <1>9

(* One more point is in order if it is not before its predecessor.         *)
LEMMA SortedOneMore ==
    ASSUME NEW ch, IsSequence(ch), NEW es, Areas(es), Points(ch, es), NEW k \in 2 .. Len(ch),
           SortedTo(ch, k - 1, es), InOrder(ch[k - 1], ch[k], es)
    PROVE  SortedTo(ch, k, es)
  <1>1. Len(ch) \in Nat
    BY SequenceLen
  <1>2. \A j \in 1 .. Len(ch) : ch[j].addr \in Nat
    BY DEF Points, Point, Areas
  <1> SUFFICES ASSUME NEW j \in 1 .. Len(ch), NEW l \in 1 .. Len(ch), j < l, l <= k
               PROVE  InOrder(ch[j], ch[l], es)
    BY DEF SortedTo
  <1>3. CASE l < k
    BY <1>1, <1>3 DEF SortedTo
  <1>4. CASE l = k /\ j = k - 1
    BY <1>4
  <1>5. CASE l = k /\ j < k - 1
    <2>1. k - 1 \in 1 .. Len(ch)
      BY <1>1
    <2>2. InOrder(ch[j], ch[k - 1], es)
      BY <1>1, <1>5, <2>1 DEF SortedTo
    <2> QED
      BY <1>2, <1>5, <2>1, <2>2 DEF InOrder
  <1> QED
    BY <1>1, <1>3, <1>4, <1>5

---------------------------------------------------------------------------
(* overlap lists the open areas, each of them once.                        *)
Distinct(s) == \A j, k \in 1 .. Len(s) : s[j] = s[k] => j = k

ListsOpen(ch, n, es, ov) ==
    /\ IsSequence(ov) /\ Distinct(ov)
    /\ \A e : Contains(ov, e) <=> Open(ch, n, es, e)

LEMMA OverlapStart ==
    ASSUME NEW ch, NEW es, Swept(ch, es), NEW n \in 1 .. Len(ch), Starts(ch[n], es),
           NEW ov, ListsOpen(ch, n, es, ov)
    PROVE  ListsOpen(ch, n + 1, es, Append(ov, ch[n].entry))
  <1> DEFINE x == ch[n].entry
             len == Len(ov)
  <1>1. PICK on : on = Append(ov, x)
    OBVIOUS
  <1>2. /\ IsSequence(on) /\ len \in Nat /\ Len(on) = len + 1 /\ on[len + 1] = x
        /\ \A k \in 1 .. len : on[k] = ov[k]
    BY <1>1, AppendAt DEF ListsOpen
  <1>3. /\ ~Open(ch, n, es, x)
        /\ \A e : Open(ch, n + 1, es, e) <=> (Open(ch, n, es, e) \/ e = x)
    BY OpenStart
  <1>4. /\ \A j, k \in 1 .. len : ov[j] = ov[k] => j = k
        /\ \A e : (\E j \in 1 .. len : ov[j] = e) <=> Open(ch, n, es, e)
    BY DEF ListsOpen, Distinct, Contains
  <1> HIDE DEF x, len
  <1>5. /\ \A j \in 1 .. len + 1 : j \in 1 .. len \/ j = len + 1
        /\ len + 1 \in 1 .. len + 1 /\ \A j \in 1 .. len : j \in 1 .. len + 1
    BY <1>2
  <1>6. \A j \in 1 .. len : ov[j] # x
    BY <1>3, <1>4
  <1>7. \A j, k \in 1 .. len + 1 : on[j] = on[k] => j = k
    BY <1>2, <1>4, <1>5, <1>6
  <1>8. \A e : (\E j \in 1 .. len + 1 : on[j] = e) <=> (e = x \/ \E j \in 1 .. len : ov[j] = e)
    BY <1>2, <1>5
  <1>9. \A e : (\E j \in 1 .. len + 1 : on[j] = e) <=> Open(ch, n + 1, es, e)
    BY <1>3, <1>4, <1>8
  <1>10. ListsOpen(ch, n + 1, es, on)
    BY <1>2, <1>7, <1>9 DEF ListsOpen, Distinct, Contains
  <1> QED
    BY <1>1, <1>10 DEF x

(* The last entry of the list takes the place of the one that is removed.  *)
LEMMA WithoutMembers ==
    ASSUME NEW list, IsSequence(list), Distinct(list), NEW e, Contains(list, e),
           NEW r, r = Without(list, e)
    PROVE  /\ IsSequence(r) /\ Distinct(r)
           /\ \A x : Contains(r, x) <=> (x # e /\ Contains(list, x))
  <1>0. PICK p \in 1 .. Len(list) : list[p] = e
    BY DEF Contains
  <1> DEFINE n == Len(list)
             found == {j \in 1 .. n : list[j] = e}
  <1>1. PICK moved : moved = [list EXCEPT ![p] = list[n]]
    OBVIOUS
  <1>3. found = {p}
    BY <1>0 DEF Distinct
  <1>4. n \in Nat /\ DOMAIN list = 1 .. n
    BY DEF IsSequence
  <1>5. Min({p}) = p
    <2>1. \A y \in {p} : p <= y
      BY <1>4
    <2> QED
      BY <2>1 DEF Min
  <1>6. r = SubSeq(moved, 1, n - 1)
    BY <1>1, <1>3, <1>5 DEF Without
  <1>7. IsSequence(moved) /\ Len(moved) = n
    BY <1>1, SequenceExcept
  <1>8. PICK S : moved \in Seq(S)
    BY <1>7 DEF IsSequence
  <1>9. n >= 1 /\ n \in 1 .. n
    BY <1>0, <1>4
  <1>10. p \in 1 .. n /\ list[p] = e /\ \A j, k \in 1 .. n : list[j] = list[k] => j = k
    BY <1>0 DEF Distinct
  <1> HIDE DEF n, found
  <1>11. /\ r \in Seq(S) /\ Len(r) = n - 1
         /\ \A j \in 1 .. n - 1 : r[j] = moved[j]
    <2>1. 1 \in 1 .. Len(moved) + 1 /\ n - 1 \in 0 .. Len(moved)
      BY <1>4, <1>7, <1>9
    <2> QED
      BY <1>4, <1>6, <1>7, <1>8, <1>9, <2>1, SubSeqProperties
  <1>12. IsSequence(r)
    BY <1>11 DEF IsSequence
  <1>13. \A j \in 1 .. n : moved[j] = IF j = p THEN list[n] ELSE list[j]
    BY <1>1, <1>4
  <1>14. /\ \A j \in 1 .. n - 1 : j \in 1 .. n /\ j # n
         /\ \A j \in 1 .. n : j \in 1 .. n - 1 \/ j = n
    BY <1>4
  <1>15. \A j \in 1 .. n - 1 : r[j] = IF j = p THEN list[n] ELSE list[j]
    BY <1>11, <1>13, <1>14
  <1>16. \A j, k \in 1 .. n - 1 : r[j] = r[k] => j = k
    BY <1>9, <1>10, <1>14, <1>15
  <1>17. ASSUME NEW j \in 1 .. n - 1
         PROVE  r[j] # e /\ \E k \in 1 .. n : list[k] = r[j]
    BY <1>9, <1>10, <1>14, <1>15
  <1>18. ASSUME NEW j \in 1 .. n, list[j] # e
         PROVE  \E k \in 1 .. n - 1 : r[k] = list[j]
    <2>1. j # p
      BY <1>10, <1>18
    <2>2. CASE j = n
      <3>1. p \in 1 .. n - 1
        BY <1>10, <1>14, <2>1, <2>2
      <3> QED
        BY <1>15, <2>2, <3>1
    <2>3. CASE j # n
      BY <1>14, <1>15, <2>1, <2>3
    <2> QED
      BY <2>2, <2>3
  <1>19. \A x : (\E j \in 1 .. n - 1 : r[j] = x) <=> (x # e /\ \E j \in 1 .. n : list[j] = x)
    BY <1>17, <1>18
  <1> QED
    BY <1>11, <1>12, <1>16, <1>19 DEF n, Distinct, Contains

LEMMA OverlapEnd ==
    ASSUME NEW ch, NEW es, Swept(ch, es), NEW n \in 1 .. Len(ch), ~Starts(ch[n], es),
           NEW ov, ListsOpen(ch, n, es, ov)
    PROVE  ListsOpen(ch, n + 1, es, Without(ov, ch[n].entry))
  <1> DEFINE x == ch[n].entry
  <1>1. PICK r : r = Without(ov, x)
    OBVIOUS
  <1>2. /\ Open(ch, n, es, x)
        /\ \A e : Open(ch, n + 1, es, e) <=> (Open(ch, n, es, e) /\ e # x)
    BY OpenEnd
  <1>3. IsSequence(ov) /\ Distinct(ov) /\ Contains(ov, x)
    BY <1>2 DEF ListsOpen
  <1> HIDE DEF x
  <1>4. /\ IsSequence(r) /\ Distinct(r)
        /\ \A e : Contains(r, e) <=> (e # x /\ Contains(ov, e))
    BY <1>1, <1>3, WithoutMembers
  <1>5. \A e : Contains(r, e) <=> Open(ch, n + 1, es, e)
    BY <1>2, <1>4 DEF ListsOpen
  <1>6. ListsOpen(ch, n + 1, es, r)
    BY <1>4, <1>5 DEF ListsOpen
  <1> QED
    BY <1>1, <1>6 DEF x

(* The type the sweep computes from overlap is the highest open one.       *)
LEMMA OverrulingTop ==
    ASSUME Areas(area), NEW ch, NEW n, NEW ov, ListsOpen(ch, n, area, ov)
    PROVE  Top(ch, n, area, OverrulingType(ov))
  <1> DEFINE S == {0} \cup {Entry(ov[j]).type : j \in DOMAIN ov}
  <1>1. DOMAIN ov = 1 .. Len(ov)
    BY DEF ListsOpen, IsSequence
  <1>2. ASSUME NEW j \in DOMAIN ov
        PROVE  Open(ch, n, area, ov[j]) /\ ov[j] \in DOMAIN area /\ Entry(ov[j]).type = area[ov[j]].type
    <2>1. Open(ch, n, area, ov[j]) /\ ov[j] \in DOMAIN area
      BY <1>1 DEF ListsOpen, Open, Contains
    <2> QED
      BY <2>1 DEF area
  <1>3. S \subseteq 0 .. MMAP_TYPE_KERNEL
    BY <1>2, KernelType DEF Areas
  <1>4. OverrulingType(ov) = Max(S)
    BY DEF OverrulingType
  <1> HIDE DEF S
  <1>5. Max(S) \in S /\ \A y \in S : y <= Max(S)
    BY <1>3, MaxOfTypes DEF S
  <1> USE DEF S
  <1>6. ASSUME NEW e, Open(ch, n, area, e)
        PROVE  area[e].type \in S
    <2>1. PICK j \in DOMAIN ov : ov[j] = e
      BY <1>1, <1>6 DEF ListsOpen, Contains
    <2> QED
      BY <1>2, <2>1
  <1>7. ASSUME Max(S) # 0
        PROVE  \E e : Open(ch, n, area, e) /\ area[e].type = Max(S)
    <2>1. PICK y : y = Max(S)
      OBVIOUS
    <2>2. PICK j \in DOMAIN ov : y = Entry(ov[j]).type
      BY <1>5, <1>7, <2>1
    <2> QED
      BY <1>2, <2>1, <2>2
  <1> QED
    BY <1>3, <1>4, <1>5, <1>6, <1>7 DEF Top

---------------------------------------------------------------------------
(* The inductive invariant of get_mmap. The change points are those of the *)
(* entries read so far; a pass of the sort that has swapped nothing has    *)
(* sorted what it has passed; and the sweep has the map right up to the    *)
(* frontier.                                                               *)
PointsInv ==
    /\ bootmap \in BootMaps
    /\ last_addr \in Nat
    /\ Points(changes, area)
    /\ pc \in {"read", "panic"} =>
          /\ pos >= 1
          /\ \A j \in 1 .. Len(changes) : changes[j].entry \in 1 .. pos - 1
          /\ \A e \in DOMAIN area : e \in 1 .. pos - 1 => HasPoints(changes, area, e)
    /\ pc \in {"sort", "sweep", "done"} => \A e \in DOMAIN area : HasPoints(changes, area, e)
    /\ (pc = "sort" /\ ~is_changing) => SortedTo(changes, i - 1, area)
    /\ pc \in {"sweep", "done"} => SortedTo(changes, Len(changes), area)

SweepInv ==
    pc \in {"sweep", "done"} =>
        /\ ListsOpen(changes, i, area, overlap)
        /\ MapSoFar(changes, i, area, mmap, last_addr, last_type)
        /\ pc = "done" => i > Len(changes)

MapInv == SizeInv /\ PointsInv /\ SweepInv

LEMMA MapInvInit ==
    ASSUME NoEmptyEntries, Init
    PROVE  MapInv
  <1>1. bootmap \in BootMaps /\ changes = <<>> /\ Len(<<>>) = 0 /\ pos = 1 /\ pc = "read" /\ last_addr = 0
    BY DEF Init
  <1>2. PointsInv
    BY <1>1 DEF PointsInv, Points
  <1>3. SweepInv
    BY <1>1 DEF SweepInv
  <1> QED
    BY <1>2, <1>3, SizeInit DEF MapInv

LEMMA ChangesOfArea ==
    ASSUME NEW x \in DOMAIN area
    PROVE  \E c, d : /\ ChangesOf(x) = <<c, d>> /\ c.entry = x /\ d.entry = x
                     /\ c.addr = area[x].start /\ d.addr = area[x].end
  <1> DEFINE c == [addr |-> Entry(x).addr_low, entry |-> x]
             d == [addr |-> EndOf(Entry(x)), entry |-> x]
  <1>1. ChangesOf(x) = <<c, d>>
    BY DEF ChangesOf
  <1>2. c.entry = x /\ d.entry = x /\ c.addr = area[x].start /\ d.addr = area[x].end
    BY DEF area
  <1> HIDE DEF c, d
  <1> QED
    BY <1>1, <1>2

LEMMA ReadEntryInv ==
    ASSUME NoEmptyEntries, MapInv, ReadEntry
    PROVE  PointsInv'
  <1>1. /\ pc = "read" /\ pos <= Len(bootmap) /\ pos' = pos + 1 /\ pc' \in {"read", "panic"}
        /\ bootmap' = bootmap /\ last_addr' = last_addr
        /\ changes' = IF bootmap[pos].addr_high = 0 THEN changes \o ChangesOf(pos) ELSE changes
    BY DEF ReadEntry
  <1>2. area' = area
    BY <1>1, AreaFixed
  <1>3. Areas(area) /\ Len(bootmap) \in Nat
    BY AreaTypes DEF MapInv, PointsInv
  <1>4. pos \in Nat /\ pos >= 1 /\ pos # 0 /\ IsSequence(changes) /\ Points(changes, area)
    BY <1>1 DEF MapInv, PointsInv, SizeInv
  <1>5. /\ \A j \in 1 .. Len(changes) : changes[j].entry \in 1 .. pos - 1
        /\ \A e \in DOMAIN area : e \in 1 .. pos - 1 => HasPoints(changes, area, e)
    BY <1>1 DEF MapInv, PointsInv
  <1>6. pos \in DOMAIN area <=> bootmap[pos].addr_high = 0
    BY <1>1, <1>3, <1>4 DEF area, Entry
  <1>7. \A e : e \in 1 .. pos' - 1 <=> (e \in 1 .. pos - 1 \/ e = pos)
    BY <1>1, <1>4
  <1>8. /\ Points(changes', area)
        /\ \A j \in 1 .. Len(changes') : changes'[j].entry \in 1 .. pos' - 1
        /\ \A e \in DOMAIN area : e \in 1 .. pos' - 1 => HasPoints(changes', area, e)
    <2>1. CASE bootmap[pos].addr_high # 0
      <3>1. changes' = changes
        BY <1>1, <2>1
      <3> QED
        BY <1>4, <1>5, <1>6, <1>7, <2>1, <3>1
    <2>2. CASE bootmap[pos].addr_high = 0
      <3>1. PICK x, ch, cn, es : x = pos /\ ch = changes /\ cn = changes' /\ es = area
        OBVIOUS
      <3>2. PICK c, d : /\ ChangesOf(x) = <<c, d>> /\ c.entry = x /\ d.entry = x
                        /\ c.addr = es[x].start /\ d.addr = es[x].end
        BY <1>6, <2>2, <3>1, ChangesOfArea
      <3>3. cn = WithPoints(ch, c, d)
        BY <1>1, <2>2, <3>1, <3>2 DEF WithPoints
      <3>4. /\ \A j \in 1 .. Len(ch) : ch[j].entry # x
            /\ IsSequence(ch) /\ Areas(es) /\ Points(ch, es) /\ x \in DOMAIN es
        BY <1>3, <1>4, <1>5, <1>6, <2>2, <3>1
      <3>5. /\ Points(cn, es) /\ HasPoints(cn, es, x)
            /\ \A e : HasPoints(ch, es, e) => HasPoints(cn, es, e)
            /\ \A j \in 1 .. Len(cn) : cn[j].entry = x \/ \E k \in 1 .. Len(ch) : cn[j] = ch[k]
        BY <3>2, <3>3, <3>4, AddPoints
      <3> QED
        BY <1>5, <1>7, <3>1, <3>5
    <2> QED
      BY <2>1, <2>2
  <1>9. bootmap' \in BootMaps /\ last_addr' \in Nat /\ pos' >= 1
    BY <1>1, <1>4 DEF MapInv, PointsInv
  <1> QED
    BY <1>1, <1>2, <1>8, <1>9 DEF PointsInv

LEMMA AddKernelInv ==
    ASSUME NoEmptyEntries, MapInv, AddKernel
    PROVE  PointsInv'
  <1>1. /\ pc = "read" /\ pos > Len(bootmap) /\ pc' = "sort" /\ i' = 2
        /\ bootmap' = bootmap /\ last_addr' = last_addr
        /\ changes' = changes \o ChangesOf(0)
    BY DEF AddKernel
  <1>2. area' = area
    BY <1>1, AreaFixed
  <1>3. Areas(area) /\ Len(bootmap) \in Nat /\ 0 \in DOMAIN area /\ DOMAIN area \subseteq 0 .. Len(bootmap)
    BY AreaTypes DEF MapInv, PointsInv
  <1>4. pos \in Nat /\ IsSequence(changes) /\ Points(changes, area)
    BY <1>1 DEF MapInv, PointsInv, SizeInv
  <1>5. /\ \A j \in 1 .. Len(changes) : changes[j].entry \in 1 .. pos - 1
        /\ \A e \in DOMAIN area : e \in 1 .. pos - 1 => HasPoints(changes, area, e)
    BY <1>1 DEF MapInv, PointsInv
  <1>6. PICK ch, cn, es : ch = changes /\ cn = changes' /\ es = area
    OBVIOUS
  <1>7. PICK c, d : /\ ChangesOf(0) = <<c, d>> /\ c.entry = 0 /\ d.entry = 0
                    /\ c.addr = es[0].start /\ d.addr = es[0].end
    BY <1>3, <1>6, ChangesOfArea
  <1>8. cn = WithPoints(ch, c, d)
    BY <1>1, <1>6, <1>7 DEF WithPoints
  <1>9. /\ \A j \in 1 .. Len(ch) : ch[j].entry # 0
        /\ IsSequence(ch) /\ Areas(es) /\ Points(ch, es) /\ 0 \in DOMAIN es
    BY <1>3, <1>4, <1>5, <1>6
  <1>10. /\ IsSequence(changes') /\ Points(changes', area) /\ HasPoints(changes', area, 0)
         /\ \A e : HasPoints(changes, area, e) => HasPoints(changes', area, e)
    <2>1. /\ IsSequence(cn) /\ Points(cn, es) /\ HasPoints(cn, es, 0)
          /\ \A e : HasPoints(ch, es, e) => HasPoints(cn, es, e)
      BY <1>7, <1>8, <1>9, AddPoints
    <2> QED
      BY <1>6, <2>1
  <1>11. ASSUME NEW e \in DOMAIN area PROVE HasPoints(changes', area, e)
    <2>1. e = 0 \/ e \in 1 .. pos - 1
      BY <1>1, <1>3, <1>4
    <2> QED
      BY <1>5, <1>10, <2>1
  <1>12. SortedTo(changes', i' - 1, area)
    <2>1. i' - 1 = 1
      BY <1>1
    <2>2. Len(changes') \in Nat
      BY <1>10, SequenceLen
    <2> QED
      BY <2>1, <2>2 DEF SortedTo
  <1>13. bootmap' \in BootMaps /\ last_addr' \in Nat
    BY <1>1 DEF MapInv, PointsInv
  <1> QED
    BY <1>1, <1>2, <1>10, <1>11, <1>12, <1>13 DEF PointsInv

LEMMA SortStepInv ==
    ASSUME NoEmptyEntries, MapInv, SortStep
    PROVE  PointsInv'
  <1>1. /\ pc = "sort" /\ i <= Len(changes) /\ pc' = "sort" /\ i' = i + 1
        /\ bootmap' = bootmap /\ last_addr' = last_addr
    BY DEF SortStep
  <1>2. area' = area
    BY <1>1, AreaFixed
  <1>3. Areas(area)
    BY AreaTypes DEF MapInv, PointsInv
  <1>4. /\ i \in Nat /\ i >= 2 /\ IsSequence(changes) /\ Points(changes, area)
        /\ \A e \in DOMAIN area : HasPoints(changes, area, e)
    BY <1>1 DEF MapInv, PointsInv, SizeInv
  <1>5. i \in 2 .. Len(changes) /\ i \in 1 .. Len(changes) /\ i - 1 \in 1 .. Len(changes)
    <2>1. Len(changes) \in Nat
      BY <1>4, SequenceLen
    <2> QED
      BY <1>1, <1>4, <2>1
  <1>6. bootmap' \in BootMaps /\ last_addr' \in Nat
    BY <1>1 DEF MapInv, PointsInv
  <1>7. CASE Before(changes[i], changes[i - 1])
    <2>1. /\ changes' = [changes EXCEPT ![i] = changes[i - 1], ![i - 1] = changes[i]]
          /\ is_changing' = TRUE
      BY <1>7 DEF SortStep
    <2>2. /\ Points(changes', area)
          /\ \A e : HasPoints(changes, area, e) => HasPoints(changes', area, e)
      <3>1. PICK k, ch, cn, es : k = i /\ ch = changes /\ cn = changes' /\ es = area
        OBVIOUS
      <3>2. /\ IsSequence(ch) /\ Points(ch, es) /\ k \in 2 .. Len(ch)
            /\ cn = Swapped(ch, k)
        BY <1>4, <1>5, <2>1, <3>1 DEF Swapped
      <3>3. Points(cn, es) /\ \A e : HasPoints(ch, es, e) => HasPoints(cn, es, e)
        BY <3>2, SwapPoints
      <3> QED
        BY <3>1, <3>3
    <2> QED
      BY <1>1, <1>2, <1>4, <1>6, <2>1, <2>2 DEF PointsInv
  <1>8. CASE ~Before(changes[i], changes[i - 1])
    <2>1. changes' = changes /\ is_changing' = is_changing
      BY <1>8 DEF SortStep
    <2>2. ASSUME ~is_changing PROVE SortedTo(changes, i, area)
      <3>1. SortedTo(changes, i - 1, area)
        BY <1>1, <2>2 DEF MapInv, PointsInv
      <3>2. Point(changes[i], area) /\ Point(changes[i - 1], area)
        BY <1>4, <1>5 DEF Points
      <3>3. changes[i].addr \in Nat /\ changes[i - 1].addr \in Nat
        BY <1>3, <3>2 DEF Point, Areas
      <3>4. InOrder(changes[i - 1], changes[i], area)
        BY <1>8, <3>2, <3>3, NotBefore
      <3> QED
        BY <1>3, <1>4, <1>5, <3>1, <3>4, SortedOneMore
    <2>3. i' - 1 = i
      BY <1>1, <1>4
    <2> QED
      BY <1>1, <1>2, <1>4, <1>6, <2>1, <2>2, <2>3 DEF PointsInv
  <1> QED
    BY <1>7, <1>8

(* When the sort is done, the sweep starts with everything ahead of it.    *)
LEMMA SortPassInv ==
    ASSUME NoEmptyEntries, MapInv, SortPass
    PROVE  PointsInv' /\ SweepInv'
  <1>1. /\ pc = "sort" /\ i > Len(changes) /\ is_changing' = FALSE
        /\ bootmap' = bootmap /\ last_addr' = last_addr /\ changes' = changes
        /\ overlap' = overlap /\ mmap' = mmap /\ last_type' = last_type
    BY DEF SortPass
  <1>2. area' = area
    BY <1>1, AreaFixed
  <1>3. /\ IsSequence(changes) /\ Points(changes, area) /\ i \in Nat
        /\ \A e \in DOMAIN area : HasPoints(changes, area, e)
        /\ bootmap \in BootMaps /\ last_addr \in Nat
        /\ overlap = <<>> /\ mmap = <<>> /\ last_type = 0
    BY <1>1 DEF MapInv, PointsInv, SizeInv
  <1>4. Len(changes) \in Nat
    BY <1>3, SequenceLen
  <1>5. CASE is_changing
    <2>1. i' = 2 /\ pc' = "sort"
      BY <1>1, <1>5 DEF SortPass
    <2>2. SortedTo(changes, i' - 1, area)
      BY <1>4, <2>1 DEF SortedTo
    <2> QED
      BY <1>1, <1>2, <1>3, <2>1, <2>2 DEF PointsInv, SweepInv
  <1>6. CASE ~is_changing
    <2>1. i' = 1 /\ pc' = "sweep"
      BY <1>1, <1>6 DEF SortPass
    <2>2. SortedTo(changes, i - 1, area)
      BY <1>1, <1>6 DEF MapInv, PointsInv
    <2>3. SortedTo(changes, Len(changes), area)
      <3>1. Len(changes) <= i - 1
        BY <1>1, <1>3, <1>4
      <3> QED
        BY <1>3, <1>4, <2>2, <3>1 DEF SortedTo
    <2>4. PointsInv'
      BY <1>1, <1>2, <1>3, <2>1, <2>3 DEF PointsInv
    <2>5. IsSequence(<<>>) /\ Len(<<>>) = 0
      BY DEF IsSequence
    <2>6. \A e : ~Open(changes, 1, area, e)
      BY <1>4 DEF Open, Passed
    <2>7. ListsOpen(changes, 1, area, <<>>)
      BY <2>5, <2>6 DEF ListsOpen, Distinct, Contains
    <2>8. Frontier(changes, 1) = 0
      BY DEF Frontier
    <2>9. MapSoFar(changes, 1, area, <<>>, last_addr, 0)
      BY <1>3, <2>5, <2>6, <2>8, KernelType DEF MapSoFar, Top, MapOrdered, OpenFollows, Border
    <2>10. SweepInv'
      BY <1>1, <1>2, <1>3, <2>1, <2>7, <2>9 DEF SweepInv
    <2> QED
      BY <2>4, <2>10
  <1> QED
    BY <1>5, <1>6

LEMMA SweptNow ==
    ASSUME NoEmptyEntries, MapInv, pc \in {"sweep", "done"}
    PROVE  Swept(changes, area)
  <1>1. Areas(area)
    BY AreaTypes DEF MapInv, PointsInv
  <1> QED
    BY <1>1 DEF MapInv, SizeInv, PointsInv, Swept

LEMMA SweepPreserves ==
    ASSUME NoEmptyEntries, MapInv, Sweep
    PROVE  PointsInv' /\ SweepInv'
  <1>1. /\ pc = "sweep" /\ i <= Len(changes) /\ i' = i + 1 /\ pc' \in {"sweep", "done"}
        /\ bootmap' = bootmap /\ changes' = changes /\ overlap' = NewOverlap(changes[i])
    BY DEF Sweep
  <1>2. area' = area
    BY <1>1, AreaFixed
  <1>3. /\ Swept(changes, area)
        /\ ListsOpen(changes, i, area, overlap)
        /\ MapSoFar(changes, i, area, mmap, last_addr, last_type)
    BY <1>1, SweptNow DEF MapInv, SweepInv
  <1>4. Areas(area)
    BY <1>3 DEF Swept
  <1>5. Len(changes) \in Nat /\ i \in Nat /\ i >= 1
    BY <1>3, SequenceLen DEF Swept, MapInv, SizeInv
  <1>6. i \in 1 .. Len(changes)
    BY <1>1, <1>5
  <1>7. PICK ch, n, es, ov, on, mm, mn, la, lb, lt, ct :
            /\ ch = changes /\ n = i /\ es = area /\ ov = overlap /\ on = overlap'
            /\ mm = mmap /\ mn = mmap' /\ la = last_addr /\ lb = last_addr'
            /\ lt = last_type /\ ct = OverrulingType(on)
    OBVIOUS
  <1>8. /\ Swept(ch, es) /\ n \in 1 .. Len(ch) /\ ListsOpen(ch, n, es, ov)
        /\ MapSoFar(ch, n, es, mm, la, lt)
    BY <1>3, <1>6, <1>7
  <1>9. ListsOpen(ch, n + 1, es, on)
    <2>1. ch[n].entry \in DOMAIN es
      BY <1>8, PointAddresses
    <2>2. IsStart(ch[n]) <=> Starts(ch[n], es)
      BY <1>7, <2>1, StartsIsStart
    <2>3. on = IF IsStart(ch[n]) THEN Append(ov, ch[n].entry) ELSE Without(ov, ch[n].entry)
      BY <1>1, <1>7 DEF NewOverlap
    <2>4. CASE Starts(ch[n], es)
      <3>1. on = Append(ov, ch[n].entry)
        BY <2>2, <2>3, <2>4
      <3> QED
        BY <1>8, <2>4, <3>1, OverlapStart
    <2>5. CASE ~Starts(ch[n], es)
      <3>1. on = Without(ov, ch[n].entry)
        BY <2>2, <2>3, <2>5
      <3> QED
        BY <1>8, <2>5, <3>1, OverlapEnd
    <2> QED
      BY <2>4, <2>5
  <1>10. Top(ch, n + 1, es, ct)
    BY <1>4, <1>7, <1>9, OverrulingTop
  <1>11. MapSoFar(ch, n + 1, es, mn, lb, ct) /\ last_type' = ct
    <2>1. CASE ct = lt
      <3>1. mn = mm /\ lb = la /\ last_type' = ct
        BY <1>7, <2>1 DEF Sweep
      <3> QED
        BY <1>8, <1>10, <2>1, <3>1, StepSameType
    <2>2. CASE ct # lt
      <3>1. /\ mn = Finished(ch[n].addr) /\ last_type' = ct
            /\ lb = IF ct # 0 THEN ch[n].addr ELSE la
        BY <1>7, <2>2 DEF Sweep
      <3>2. (ct # 0 => lb = ch[n].addr) /\ (ct = 0 => lb = la)
        BY <3>1
      <3>3. CASE lt = 0 \/ la = ch[n].addr
        <4>1. mn = mm
          BY <1>7, <3>1, <3>3 DEF Finished
        <4>2. MapSoFar(ch, n + 1, es, mm, lb, ct)
          BY <1>8, <1>10, <3>2, <3>3, StepNoEntry
        <4> QED
          BY <3>1, <4>1, <4>2
      <3>4. CASE lt # 0 /\ la # ch[n].addr
        <4>1. PICK m : m = [address |-> la, size |-> ch[n].addr - la, type |-> lt]
          OBVIOUS
        <4>2. m.address = la /\ m.size = ch[n].addr - la /\ m.type = lt
          BY <4>1
        <4>3. mn = Append(mm, m)
          BY <1>7, <3>1, <3>4, <4>1 DEF Finished
        <4>4. MapSoFar(ch, n + 1, es, Append(mm, m), lb, ct)
          BY <1>8, <1>10, <2>2, <3>2, <3>4, <4>2, StepEntry
        <4> QED
          BY <3>1, <4>3, <4>4
      <3> QED
        BY <3>3, <3>4
    <2> QED
      BY <2>1, <2>2
  <1>12. last_addr' \in Nat
    BY <1>7, <1>11 DEF MapSoFar, OpenFollows
  <1>13. PointsInv'
    BY <1>1, <1>2, <1>12 DEF MapInv, PointsInv
  <1>14. pc' = "sweep"
    <2>1. SizeInv'
      BY SizeNext DEF MapInv, Next
    <2>2. Len(mmap') < MAX_MMAP_SIZE
      <3>1. IsSequence(mmap') /\ i' > 1 /\ Len(mmap') <= i' - 2 /\ Len(changes') <= MAX_MMAP_SIZE
        BY <1>1, <1>5, <2>1 DEF SizeInv
      <3>2. Len(mmap') \in Nat
        BY <3>1, SequenceLen
      <3>3. MAX_MMAP_SIZE \in Nat
        BY MapAssumption DEF MAX_MMAP_SIZE
      <3> QED
        BY <1>1, <1>5, <3>1, <3>2, <3>3
    <2>3. Len(mmap') \in Nat /\ MAX_MMAP_SIZE \in Nat
      BY <2>1, SequenceLen, MapAssumption DEF MAX_MMAP_SIZE, SizeInv
    <2> QED
      BY <2>2, <2>3 DEF Sweep
  <1>15. ListsOpen(changes', i', area', overlap')
    BY <1>1, <1>2, <1>7, <1>9
  <1>16. MapSoFar(changes', i', area', mmap', last_addr', last_type')
    BY <1>1, <1>2, <1>7, <1>11
  <1> QED
    BY <1>13, <1>14, <1>15, <1>16 DEF SweepInv

LEMMA MapInvNext ==
    ASSUME NoEmptyEntries, MapInv, [Next]_vars
    PROVE  MapInv'
  <1>1. SizeInv'
    BY SizeNext DEF MapInv
  <1>2. CASE ReadEntry
    <2>1. pc' \in {"read", "panic"}
      BY <1>2 DEF ReadEntry
    <2> QED
      BY <1>1, <1>2, <2>1, ReadEntryInv DEF MapInv, SweepInv
  <1>3. CASE AddKernel
    <2>1. pc' = "sort"
      BY <1>3 DEF AddKernel
    <2> QED
      BY <1>1, <1>3, <2>1, AddKernelInv DEF MapInv, SweepInv
  <1>4. CASE SortStep
    <2>1. pc' = "sort"
      BY <1>4 DEF SortStep
    <2> QED
      BY <1>1, <1>4, <2>1, SortStepInv DEF MapInv, SweepInv
  <1>5. CASE SortPass
    BY <1>1, <1>5, SortPassInv DEF MapInv
  <1>6. CASE Sweep
    BY <1>1, <1>6, SweepPreserves DEF MapInv
  <1>7. CASE SweepDone
    <2>1. area' = area
      BY <1>7, AreaFixed DEF SweepDone
    <2>2. /\ pc = "sweep" /\ pc' = "done" /\ i > Len(changes)
          /\ UNCHANGED <<bootmap, changes, i, overlap, last_addr, last_type, mmap>>
      BY <1>7 DEF SweepDone
    <2>3. PointsInv'
      BY <2>1, <2>2 DEF MapInv, PointsInv
    <2>4. SweepInv'
      BY <2>1, <2>2 DEF MapInv, SweepInv
    <2> QED
      BY <1>1, <2>3, <2>4 DEF MapInv
  <1>8. CASE UNCHANGED vars
    <2>1. area' = area
      BY <1>8, AreaFixed DEF vars
    <2>2. PointsInv'
      BY <1>8, <2>1 DEF vars, MapInv, PointsInv
    <2>3. SweepInv'
      BY <1>8, <2>1 DEF vars, MapInv, SweepInv
    <2> QED
      BY <1>1, <2>2, <2>3 DEF MapInv
  <1> QED
    BY <1>2, <1>3, <1>4, <1>5, <1>6, <1>7, <1>8 DEF Next

(* The type that rules at an address is the one TypeAt gives it.           *)
LEMMA RulesTypeAt ==
    ASSUME NoEmptyEntries, bootmap \in BootMaps, NEW a, NEW t
    PROVE  Rules(area, a, t) <=> (t = TypeAt(a) /\ t # 0)
  <1> DEFINE C == {e \in 0 .. Len(bootmap) : Covers(Entry(e), a)}
             S == {0} \cup {Entry(e).type : e \in C}
  <1>1. \A e : e \in C <=> (e \in DOMAIN area /\ area[e].start <= a /\ a < area[e].end)
    BY DEF area, Covers
  <1>2. \A e \in C : Entry(e).type = area[e].type
    BY <1>1 DEF area
  <1>3. \A e \in DOMAIN area : area[e].type \in 1 .. MMAP_TYPE_KERNEL
    BY AreaTypes DEF Areas
  <1>4. TypeAt(a) = Max(S)
    BY DEF TypeAt
  <1> HIDE DEF C
  <1>5. S \subseteq 0 .. MMAP_TYPE_KERNEL
    BY <1>1, <1>2, <1>3, KernelType
  <1>6. PICK m : m = Max(S)
    OBVIOUS
  <1>7. m \in S /\ \A y \in S : y <= m
    <2> HIDE DEF S
    <2>1. S # {}
      BY DEF S
    <2> QED
      BY <1>5, <1>6, <2>1, MaxOfTypes
  <1>8. Rules(area, a, t) <=> /\ \E e \in C : area[e].type = t
                              /\ \A e \in C : area[e].type <= t
    BY <1>1 DEF Rules
  <1>9. ASSUME NEW e \in C, area[e].type = t, \A d \in C : area[d].type <= t
        PROVE  t = m /\ t # 0
    <2>1. t \in S /\ t \in 1 .. MMAP_TYPE_KERNEL
      BY <1>1, <1>2, <1>3, <1>9
    <2>2. t <= m
      BY <1>7, <2>1
    <2>3. m \in 0 .. MMAP_TYPE_KERNEL
      BY <1>5, <1>7
    <2>4. m # 0
      BY <2>1, <2>2, KernelType
    <2>5. PICK d \in C : m = area[d].type
      BY <1>2, <1>7, <2>4
    <2>6. m <= t
      BY <1>9, <2>5
    <2> QED
      BY <2>1, <2>2, <2>3, <2>4, <2>6, KernelType
  <1>10. ASSUME t = m, t # 0
         PROVE  (\E e \in C : area[e].type = t) /\ \A e \in C : area[e].type <= t
    <2>1. \E e \in C : area[e].type = t
      BY <1>2, <1>7, <1>10
    <2>2. ASSUME NEW e \in C PROVE area[e].type <= t
      <3>1. area[e].type \in S
        BY <1>2
      <3> QED
        BY <1>7, <1>10, <3>1
    <2> QED
      BY <2>1, <2>2
  <1> QED
    BY <1>4, <1>6, <1>8, <1>9, <1>10

(* At the end the sweep has passed every point: no entry is open and the   *)
(* map is right everywhere.                                                *)
LEMMA MapAtEnd ==
    ASSUME NoEmptyEntries, MapInv, pc = "done"
    PROVE  /\ IsSequence(mmap) /\ MapOrdered(area, mmap) /\ Areas(area)
           /\ \A a \in Nat : \A t :
                 (\E k \in 1 .. Len(mmap) : Within(mmap[k], a) /\ mmap[k].type = t)
                   <=> (t = TypeAt(a) /\ t # 0)
  <1>1. Swept(changes, area) /\ MapSoFar(changes, i, area, mmap, last_addr, last_type)
    BY SweptNow DEF MapInv, SweepInv
  <1>2. Len(changes) \in Nat /\ i \in Nat /\ i > Len(changes) /\ i <= Len(changes) + 1
    BY <1>1, SequenceLen DEF Swept, MapInv, SizeInv, SweepInv
  <1>3. i \in 1 .. Len(changes) + 1 /\ ~(i <= Len(changes))
    BY <1>2
  <1>4. ASSUME NEW e, Open(changes, i, area, e) PROVE FALSE
    <2>1. e \in DOMAIN area /\ ~Passed(changes, i, e, area[e].end)
      BY <1>4 DEF Open
    <2>2. PICK j \in 1 .. Len(changes) : changes[j].entry = e /\ changes[j].addr = area[e].end
      BY <1>1, <2>1 DEF Swept, HasPoints
    <2>3. j < i
      BY <1>2
    <2> QED
      BY <2>1, <2>2, <2>3 DEF Passed
  <1>5. last_type = 0
    BY <1>1, <1>4 DEF MapSoFar, Top
  <1>6. bootmap \in BootMaps
    BY DEF MapInv, PointsInv
  <1>7. ASSUME NEW a \in Nat, NEW t
        PROVE  (\E k \in 1 .. Len(mmap) : Within(mmap[k], a) /\ mmap[k].type = t)
                 <=> (t = TypeAt(a) /\ t # 0)
    <2>1. PICK ch, n, es, mm, la, lt : /\ ch = changes /\ n = i /\ es = area /\ mm = mmap
                                       /\ la = last_addr /\ lt = last_type
      OBVIOUS
    <2>2. /\ Swept(ch, es) /\ MapSoFar(ch, n, es, mm, la, lt)
          /\ n \in 1 .. Len(ch) + 1 /\ ~(n <= Len(ch)) /\ lt = 0
      BY <1>1, <1>3, <1>5, <2>1
    <2>3. Gives(mm, la, lt, a, t) <=> Rules(es, a, t)
      BY <2>2, GivesAhead
    <2>4. Rules(area, a, t) <=> (t = TypeAt(a) /\ t # 0)
      BY <1>6, RulesTypeAt
    <2> QED
      BY <2>1, <2>2, <2>3, <2>4 DEF Gives
  <1> QED
    BY <1>1, <1>7 DEF MapSoFar, Swept

LEMMA MapInvAlways == NoEmptyEntries /\ Spec => []NoEmptyEntries /\ []MapInv
  <1>1. NoEmptyEntries /\ Init => MapInv
    BY MapInvInit
  <1>2. NoEmptyEntries /\ MapInv /\ [Next]_vars => MapInv'
    BY MapInvNext
  <1>3. CASE ~NoEmptyEntries
    BY <1>3
  <1>4. CASE NoEmptyEntries
    <2>1. Init => MapInv
      BY <1>1, <1>4
    <2>2. MapInv /\ [Next]_vars => MapInv'
      BY <1>2, <1>4
    <2> QED
      BY <1>4, <2>1, <2>2, PTL DEF Spec
  <1> QED
    BY <1>3, <1>4

(* When the map of the boot loader has no empty entry, get_mmap makes of   *)
(* it a map whose entries are in order, do not overlap, are as large as    *)
(* possible and give every address the type that overrules there, however  *)
(* many entries there are and however they overlap.                        *)
THEOREM MapSanitized == NoEmptyEntries /\ Spec => []Sanitized
  <1>1. ASSUME NoEmptyEntries, MapInv
        PROVE  Sanitized
    <2> SUFFICES ASSUME pc = "done"
                 PROVE  /\ \A a \in 0 .. PHYS_BYTES_MAX - 1 :
                              {mmap[k].type : k \in {k \in DOMAIN mmap :
                                  mmap[k].address <= a /\ a < mmap[k].address + mmap[k].size}}
                                = {TypeAt(a)} \ {0}
                        /\ \A k \in DOMAIN mmap : k > 1 =>
                              \/ mmap[k - 1].address + mmap[k - 1].size < mmap[k].address
                              \/ /\ mmap[k - 1].address + mmap[k - 1].size = mmap[k].address
                                 /\ mmap[k - 1].type # mmap[k].type
      BY DEF Sanitized
    <2>1. /\ IsSequence(mmap) /\ MapOrdered(area, mmap)
          /\ \A a \in Nat : \A t :
                (\E k \in 1 .. Len(mmap) : Within(mmap[k], a) /\ mmap[k].type = t)
                  <=> (t = TypeAt(a) /\ t # 0)
      BY <1>1, MapAtEnd
    <2>2. Len(mmap) \in Nat /\ DOMAIN mmap = 1 .. Len(mmap)
      BY <2>1 DEF IsSequence
    <2>3. ASSUME NEW a \in 0 .. PHYS_BYTES_MAX - 1
          PROVE  {mmap[k].type : k \in {k \in DOMAIN mmap :
                     mmap[k].address <= a /\ a < mmap[k].address + mmap[k].size}}
                   = {TypeAt(a)} \ {0}
      <3>1. \A t : (\E k \in DOMAIN mmap : /\ mmap[k].address <= a /\ a < mmap[k].address + mmap[k].size
                                           /\ mmap[k].type = t)
                     <=> (t = TypeAt(a) /\ t # 0)
        <4>1. a \in Nat
          BY <2>3
        <4> QED
          BY <2>1, <2>2, <4>1 DEF Within, EndAddr
      <3>2. \A t : t \in {TypeAt(a)} \ {0} <=> (t = TypeAt(a) /\ t # 0)
        OBVIOUS
      <3> QED
        BY <3>1, <3>2
    <2>4. ASSUME NEW k \in DOMAIN mmap, k > 1
          PROVE  \/ mmap[k - 1].address + mmap[k - 1].size < mmap[k].address
                 \/ /\ mmap[k - 1].address + mmap[k - 1].size = mmap[k].address
                    /\ mmap[k - 1].type # mmap[k].type
      <3>1. k \in 2 .. Len(mmap) /\ k \in 1 .. Len(mmap) /\ k - 1 \in 1 .. Len(mmap) /\ k - 1 < k
        BY <2>2, <2>4
      <3>2. EndAddr(mmap[k - 1]) <= mmap[k].address
        BY <2>1, <3>1 DEF MapOrdered
      <3>3. EndAddr(mmap[k - 1]) = mmap[k].address => mmap[k - 1].type # mmap[k].type
        BY <2>1, <3>1 DEF MapOrdered
      <3>4. EndAddr(mmap[k - 1]) \in Nat /\ mmap[k].address \in Nat
        BY <2>1, <3>1 DEF MapOrdered, EndAddr
      <3> QED
        BY <3>2, <3>3, <3>4 DEF EndAddr
    <2> QED
      BY <2>3, <2>4
  <1>2. NoEmptyEntries /\ MapInv => Sanitized
    BY <1>1
  <1> QED
    BY <1>2, MapInvAlways, PTL

---------------------------------------------------------------------------
(* The frames memory_init takes from the map.                              *)

(* No area begins or ends inside the last page of the address space.       *)
InLastPage(a) == a > WORD - PAGE_SIZE /\ a < PHYS_BYTES_MAX

LastPageWhole ==
    /\ ~InLastPage(kernel_start_phys) /\ ~InLastPage(kernel_end_phys)
    /\ \A m \in BootMaps : \A k \in DOMAIN m :
          m[k].addr_high = 0 => ~InLastPage(m[k].addr_low) /\ ~InLastPage(EndOf(m[k]))

(* A page f lies above address x, or ends below it.                        *)
LEMMA PageBounds ==
    ASSUME NEW P \in Nat \ {0}, NEW f \in Nat, f % P = 0, NEW x \in Nat
    PROVE  /\ (x + P - 1) - ((x + P - 1) % P) <= f <=> x <= f
           /\ f < x - (x % P) <=> f + P <= x
  <1> DEFINE q == f \div P
             d == x \div P
             y == x + P - 1
             u == y \div P
  <1>1. q \in Nat /\ q * P = f
    BY DivExact, DivBounds
  <1>2. d \in Nat /\ x - (x % P) = d * P
    <2>1. d \in Nat /\ x % P = x - d * P /\ d * P <= x
      BY DivBounds
    <2> HIDE DEF d
    <2>2. d * P \in Int
      BY <2>1
    <2> QED
      BY <2>1, <2>2
  <1>3. y \in Nat
    OBVIOUS
  <1> HIDE DEF y
  <1>4. u \in Nat /\ y - (y % P) = u * P
    <2>1. u \in Nat /\ y % P = y - u * P /\ u * P <= y
      BY <1>3, DivBounds
    <2> HIDE DEF u
    <2>2. u * P \in Int
      BY <2>1
    <2> QED
      BY <1>3, <2>1, <2>2
  <1>5. (q + 1) * P = f + P
    <2> HIDE DEF q
    <2> QED
      BY <1>1
  <1>6. x < (q + 1) * P <=> d < q + 1
    <2> HIDE DEF q
    <2> QED
      BY <1>1, DivLess
  <1>7. y < (q + 1) * P <=> u < q + 1
    <2> HIDE DEF q
    <2> QED
      BY <1>1, <1>3, DivLess
  <1> HIDE DEF q, d, u
  <1>8. u * P <= f <=> u <= q
    <2>1. u * P \in Int /\ q * P \in Int
      BY <1>1, <1>4
    <2>2. ASSUME u <= q PROVE u * P <= f
      <3>1. CASE u = q
        BY <1>1, <3>1
      <3>2. CASE u < q
        <4>1. u * P + P <= q * P
          BY <1>1, <1>4, <3>2, TimesMonotone
        <4> QED
          BY <1>1, <2>1, <4>1
      <3> QED
        BY <1>1, <1>4, <2>2, <3>1, <3>2
    <2>3. ASSUME q < u PROVE ~(u * P <= f)
      <3>1. q * P + P <= u * P
        BY <1>1, <1>4, <2>3, TimesMonotone
      <3> QED
        BY <1>1, <2>1, <3>1
    <2> QED
      BY <1>1, <1>4, <2>2, <2>3
  <1>9. f < d * P <=> q < d
    <2>1. d * P \in Int /\ q * P \in Int
      BY <1>1, <1>2
    <2>2. ASSUME q < d PROVE f < d * P
      <3>1. q * P + P <= d * P
        BY <1>1, <1>2, <2>2, TimesMonotone
      <3> QED
        BY <1>1, <2>1, <3>1
    <2>3. ASSUME d <= q PROVE ~(f < d * P)
      <3>1. CASE d = q
        BY <1>1, <3>1
      <3>2. CASE d < q
        <4>1. d * P + P <= q * P
          BY <1>1, <1>2, <3>2, TimesMonotone
        <4> QED
          BY <1>1, <2>1, <4>1
      <3> QED
        BY <1>1, <1>2, <2>3, <3>1, <3>2
    <2> QED
      BY <1>1, <1>2, <2>2, <2>3
  <1>10. y - (y % P) <= f <=> x <= f
    <2>1. y < f + P <=> x <= f
      BY DEF y
    <2>2. u < q + 1 <=> u <= q
      BY <1>1, <1>4
    <2>3. u <= q <=> x <= f
      BY <1>5, <1>7, <2>1, <2>2
    <2> QED
      BY <1>4, <1>8, <2>3
  <1>11. f < x - (x % P) <=> f + P <= x
    <2>1. q < d <=> ~(d < q + 1)
      BY <1>1, <1>2
    <2>2. f + P <= x <=> ~(x < f + P)
      OBVIOUS
    <2> QED
      BY <1>2, <1>5, <1>6, <1>9, <2>1, <2>2
  <1> QED
    BY <1>10, <1>11 DEF y

LEMMA EdgesOutside ==
    ASSUME NoEmptyEntries, LastPageWhole, bootmap \in BootMaps, NEW a, Edge(area, a)
    PROVE  a \in Nat /\ a <= WORD - 1 /\ (a <= WORD - PAGE_SIZE \/ a = WORD - 1)
  <1>1. PICK e \in DOMAIN area : a = area[e].start \/ a = area[e].end
    BY DEF Edge
  <1>2. /\ area[e].start \in Nat /\ area[e].end \in Nat
        /\ area[e].start < area[e].end /\ area[e].end <= WORD - 1
    BY AreaTypes DEF Areas, PHYS_BYTES_MAX
  <1>3. WORD \in Nat /\ PAGE_SIZE \in Nat
    BY MapAssumption
  <1>4. a \in Nat /\ a <= WORD - 1
    BY <1>1, <1>2, <1>3
  <1>5. /\ area[e].start = Entry(e).addr_low /\ area[e].end = EndOf(Entry(e))
        /\ e \in 0 .. Len(bootmap) /\ Entry(e).addr_high = 0
    BY DEF area
  <1>6. ~InLastPage(Entry(e).addr_low) /\ ~InLastPage(EndOf(Entry(e)))
    <2>1. CASE e = 0
      <3>1. /\ WORD \in Nat /\ kernel_start_phys \in Nat /\ kernel_end_phys \in Nat
            /\ kernel_end_phys < WORD - 1
        BY MapAssumption DEF PHYS_BYTES_MAX
      <3>2. Entry(e).addr_low = kernel_start_phys
        BY <2>1 DEF Entry, dummy
      <3>3. /\ Entry(e).len_high = 0
            /\ Entry(e).addr_low + Entry(e).len_low = kernel_end_phys
        BY <2>1, <3>1 DEF Entry, dummy
      <3>4. EndOf(Entry(e)) = kernel_end_phys
        BY <3>1, <3>3 DEF EndOf
      <3> QED
        BY <3>2, <3>4 DEF LastPageWhole
    <2>2. CASE e # 0
      <3>1. Len(bootmap) \in Nat /\ DOMAIN bootmap = 1 .. Len(bootmap)
        <4>1. \E S : bootmap \in Seq(S)
          BY MapAssumption
        <4> QED
          BY <4>1
      <3>2. e \in DOMAIN bootmap /\ Entry(e) = bootmap[e]
        BY <1>5, <2>2, <3>1 DEF Entry
      <3> QED
        BY <1>5, <3>2 DEF LastPageWhole
    <2> QED
      BY <2>1, <2>2
  <1>7. ~InLastPage(a)
    BY <1>1, <1>5, <1>6
  <1> QED
    BY <1>3, <1>4, <1>7 DEF InLastPage, PHYS_BYTES_MAX

(* The frames of an entry are the pages that lie in it.                    *)
LEMMA FramesWithin ==
    ASSUME NoEmptyEntries, LastPageWhole, bootmap \in BootMaps,
           NEW m, m.address \in Nat, m.size \in Nat \ {0},
           Edge(area, m.address), Edge(area, EndAddr(m)),
           NEW f \in 0 .. WORD - 1, f % PAGE_SIZE = 0
    PROVE  f \in FramesOf(m) <=> (m.address <= f /\ f + PAGE_SIZE <= EndAddr(m))
  <1>1. WORD \in Nat /\ PAGE_SIZE \in Nat \ {0}
    BY MapAssumption
  <1>2. PICK a, b : a = m.address /\ b = EndAddr(m)
    OBVIOUS
  <1>3. a \in Nat /\ b \in Nat /\ a < b /\ b <= WORD - 1 /\ a <= WORD - PAGE_SIZE
    <2>1. a \in Nat /\ b \in Nat /\ a < b
      BY <1>2 DEF EndAddr
    <2>2. b <= WORD - 1
      BY <1>2, EdgesOutside
    <2>3. a <= WORD - PAGE_SIZE \/ a = WORD - 1
      BY <1>2, EdgesOutside
    <2> QED
      BY <1>1, <2>1, <2>2, <2>3
  <1>4. b % WORD = b /\ (a + PAGE_SIZE - 1) % WORD = a + PAGE_SIZE - 1
    <2>1. a + PAGE_SIZE - 1 \in Nat /\ a + PAGE_SIZE - 1 < WORD
      BY <1>1, <1>3
    <2>2. \A x \in Nat : x < WORD => x % WORD = x
      BY <1>1
    <2> QED
      BY <1>1, <1>3, <2>1, <2>2
  <1>5. /\ PAGE_ALIGN(m.address) = (a + PAGE_SIZE - 1) - ((a + PAGE_SIZE - 1) % PAGE_SIZE)
        /\ PAGE_FLOOR((m.address + m.size) % WORD) = b - (b % PAGE_SIZE)
    BY <1>2, <1>4 DEF PAGE_ALIGN, PAGE_FLOOR, EndAddr
  <1>6. /\ PAGE_ALIGN(m.address) <= f <=> a <= f
        /\ f < PAGE_FLOOR((m.address + m.size) % WORD) <=> f + PAGE_SIZE <= b
    <2>1. f \in Nat
      BY <1>1
    <2>2. (a + PAGE_SIZE - 1) - ((a + PAGE_SIZE - 1) % PAGE_SIZE) <= f <=> a <= f
      BY <1>1, <1>3, <2>1, PageBounds, Zenon
    <2>3. f < b - (b % PAGE_SIZE) <=> f + PAGE_SIZE <= b
      BY <1>1, <1>3, <2>1, PageBounds, Zenon
    <2> QED
      BY <1>5, <2>2, <2>3, Zenon
  <1> QED
    BY <1>2, <1>6 DEF FramesOf

(* An entry of the map goes on to the end of a page if its first byte and  *)
(* all the others of the page have the type of the entry: another entry    *)
(* that would take over in the middle has another type.                    *)
LEMMA PageInEntry ==
    ASSUME NEW es, NEW mm, IsSequence(mm), MapOrdered(es, mm),
           NEW f \in Nat, NEW P \in Nat \ {0}, NEW t,
           \A a \in f .. f + P - 1 : \E k \in 1 .. Len(mm) : Within(mm[k], a) /\ mm[k].type = t
    PROVE  \E k \in 1 .. Len(mm) : mm[k].type = t /\ mm[k].address <= f /\ f + P <= EndAddr(mm[k])
  <1>1. /\ Len(mm) \in Nat
        /\ \A k \in 1 .. Len(mm) : /\ mm[k].address \in Nat /\ EndAddr(mm[k]) \in Nat
                                   /\ mm[k].address < EndAddr(mm[k])
    BY SequenceLen DEF MapOrdered, EndAddr
  <1>2. f \in f .. f + P - 1
    OBVIOUS
  <1>3. PICK k \in 1 .. Len(mm) : Within(mm[k], f) /\ mm[k].type = t
    BY <1>2
  <1>4. mm[k].address <= f /\ f < EndAddr(mm[k])
    BY <1>3 DEF Within
  <1>5. ASSUME EndAddr(mm[k]) < f + P
        PROVE  FALSE
    <2>1. PICK b : b = EndAddr(mm[k])
      OBVIOUS
    <2>2. b \in f .. f + P - 1
      BY <1>1, <1>4, <1>5, <2>1
    <2>3. PICK l \in 1 .. Len(mm) : Within(mm[l], b) /\ mm[l].type = t
      BY <2>2
    <2>4. mm[l].address <= b /\ b < EndAddr(mm[l])
      BY <2>3 DEF Within
    <2>5. CASE l < k
      <3>1. EndAddr(mm[l]) <= mm[k].address
        BY <2>5 DEF MapOrdered
      <3> QED
        BY <1>1, <2>1, <2>4, <3>1
    <2>6. CASE l = k
      BY <1>1, <2>1, <2>4, <2>6
    <2>7. CASE l = k + 1
      <3>1. l \in 2 .. Len(mm) /\ l - 1 = k /\ k < l
        BY <1>1, <2>7
      <3>2. b <= mm[l].address
        BY <2>1, <3>1 DEF MapOrdered
      <3>3. b = mm[l].address
        BY <1>1, <2>1, <2>4, <3>2
      <3>4. mm[k].type # mm[l].type
        BY <2>1, <3>1, <3>3 DEF MapOrdered
      <3> QED
        BY <1>3, <2>3, <3>4
    <2>8. CASE k + 1 < l
      <3>1. k + 1 \in 1 .. Len(mm) /\ k < k + 1
        BY <1>1, <2>8
      <3>2. b <= mm[k + 1].address /\ EndAddr(mm[k + 1]) <= mm[l].address
        BY <2>1, <2>8, <3>1 DEF MapOrdered
      <3> QED
        BY <1>1, <2>1, <2>4, <3>1, <3>2
    <2> QED
      BY <1>1, <2>5, <2>6, <2>7, <2>8
  <1> QED
    BY <1>1, <1>3, <1>4, <1>5

(* When moreover no area begins or ends inside the last page, memory_init  *)
(* gives the allocator exactly the pages of which every byte is free: none *)
(* that the kernel or a reserved area touches, and no free page is lost at *)
(* the border of two entries.                                              *)
THEOREM FreeFramesExact == NoEmptyEntries /\ LastPageWhole /\ Spec => []FramesExact
  <1>1. ASSUME NoEmptyEntries, LastPageWhole, MapInv, pc = "done",
               NEW f \in 0 .. WORD - 1, f % PAGE_SIZE = 0
        PROVE  f \in FreeFrames <=>
                  \A a \in f .. f + PAGE_SIZE - 1 : a < PHYS_BYTES_MAX /\ TypeAt(a) = MMAP_TYPE_FREE
    <2>1. /\ IsSequence(mmap) /\ MapOrdered(area, mmap)
          /\ \A a \in Nat : \A t :
                (\E k \in 1 .. Len(mmap) : Within(mmap[k], a) /\ mmap[k].type = t)
                  <=> (t = TypeAt(a) /\ t # 0)
      BY <1>1, MapAtEnd
    <2>2. Len(mmap) \in Nat /\ DOMAIN mmap = 1 .. Len(mmap) /\ bootmap \in BootMaps
      BY <1>1, <2>1 DEF IsSequence, MapInv, PointsInv
    <2>3. WORD \in Nat /\ PAGE_SIZE \in Nat \ {0} /\ f \in Nat
      BY MapAssumption
    <2>4. f \in FreeFrames <=>
             \E k \in 1 .. Len(mmap) : mmap[k].type = MMAP_TYPE_FREE /\ f \in FramesOf(mmap[k])
      BY <2>2 DEF FreeFrames
    <2>5. ASSUME NEW k \in 1 .. Len(mmap)
          PROVE  /\ f \in FramesOf(mmap[k])
                      <=> (mmap[k].address <= f /\ f + PAGE_SIZE <= EndAddr(mmap[k]))
                 /\ mmap[k].address \in Nat /\ EndAddr(mmap[k]) \in Nat /\ EndAddr(mmap[k]) <= PHYS_BYTES_MAX
      <3>1. PICK m : m = mmap[k]
        OBVIOUS
      <3>2. /\ m.address \in Nat /\ m.size \in Nat \ {0}
            /\ Edge(area, m.address) /\ Edge(area, EndAddr(m))
        BY <2>1, <3>1 DEF MapOrdered
      <3>3. f \in FramesOf(m) <=> (m.address <= f /\ f + PAGE_SIZE <= EndAddr(m))
        BY <1>1, <2>2, <3>2, FramesWithin
      <3>4. EndAddr(m) \in Nat /\ EndAddr(m) <= PHYS_BYTES_MAX
        BY <1>1, <2>2, <3>2, EdgesOutside DEF PHYS_BYTES_MAX
      <3> QED
        BY <3>1, <3>2, <3>3, <3>4
    <2>6. ASSUME f \in FreeFrames, NEW a \in f .. f + PAGE_SIZE - 1
          PROVE  a < PHYS_BYTES_MAX /\ TypeAt(a) = MMAP_TYPE_FREE
      <3>1. PICK k \in 1 .. Len(mmap) : mmap[k].type = MMAP_TYPE_FREE /\ f \in FramesOf(mmap[k])
        BY <2>4, <2>6
      <3>2. /\ mmap[k].address <= f /\ f + PAGE_SIZE <= EndAddr(mmap[k])
            /\ mmap[k].address \in Nat /\ EndAddr(mmap[k]) \in Nat /\ EndAddr(mmap[k]) <= PHYS_BYTES_MAX
        BY <2>5, <3>1
      <3>3. a \in Nat /\ PHYS_BYTES_MAX \in Int
        BY <2>3 DEF PHYS_BYTES_MAX
      <3>4. Within(mmap[k], a) /\ a < PHYS_BYTES_MAX
        BY <2>3, <3>2, <3>3 DEF Within
      <3> QED
        BY <2>1, <3>1, <3>3, <3>4
    <2>7. ASSUME \A a \in f .. f + PAGE_SIZE - 1 : a < PHYS_BYTES_MAX /\ TypeAt(a) = MMAP_TYPE_FREE
          PROVE  f \in FreeFrames
      <3>1. MMAP_TYPE_FREE # 0
        BY DEF MMAP_TYPE_FREE
      <3>2. \A a \in f .. f + PAGE_SIZE - 1 : a \in Nat
        BY <2>3
      <3>3. \A a \in f .. f + PAGE_SIZE - 1 :
               \E k \in 1 .. Len(mmap) : Within(mmap[k], a) /\ mmap[k].type = MMAP_TYPE_FREE
        BY <2>1, <2>7, <3>1, <3>2
      <3>4. PICK mm, es, t : mm = mmap /\ es = area /\ t = MMAP_TYPE_FREE
        OBVIOUS
      <3>5. /\ IsSequence(mm) /\ MapOrdered(es, mm)
            /\ \A a \in f .. f + PAGE_SIZE - 1 :
                  \E k \in 1 .. Len(mm) : Within(mm[k], a) /\ mm[k].type = t
        BY <2>1, <3>3, <3>4
      <3>6. PICK k \in 1 .. Len(mm) :
               mm[k].type = t /\ mm[k].address <= f /\ f + PAGE_SIZE <= EndAddr(mm[k])
        BY <2>3, <3>5, PageInEntry
      <3> QED
        BY <2>4, <2>5, <3>4, <3>6
    <2> QED
      BY <2>6, <2>7
  <1>2. ASSUME NEW f, f \in FreeFrames
        PROVE  f \in 0 .. WORD - 1 /\ f % PAGE_SIZE = 0
    BY <1>2 DEF FreeFrames, FramesOf
  <1>3. NoEmptyEntries /\ LastPageWhole /\ MapInv => FramesExact
    BY <1>1, <1>2 DEF FramesExact
  <1>4. CASE ~LastPageWhole
    BY <1>4
  <1>5. CASE LastPageWhole
    <2>1. NoEmptyEntries /\ MapInv => FramesExact
      BY <1>3, <1>5
    <2> QED
      BY <2>1, MapInvAlways, PTL
  <1> QED
    BY <1>4, <1>5
============================================================================
