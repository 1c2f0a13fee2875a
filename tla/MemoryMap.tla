----------------------------- MODULE MemoryMap ----------------------------
(***************************************************************************)
(* get_mmap of kernel/main.c: the memory map of the boot loader, whose     *)
(* entries may overlap and come in any order, becomes the map kinfo.mmap   *)
(* of sorted entries that do not overlap; and the frames memory_init takes *)
(* from it (kernel/memory.c).                                              *)
(*                                                                         *)
(* Each entry gives two change points. They are sorted by address, a start *)
(* before an end, and swept from low to high addresses with the entries    *)
(* that cover the current address in overlap.                              *)
(***************************************************************************)
EXTENDS Integers, Sequences, SequencesExt, FiniteSetsExt

CONSTANTS WORD,                          \* phys_bytes is a number modulo WORD
          PAGE_SIZE,
          MAX_BOOT_MMAP_SIZE,
          BootMaps,                      \* the maps a boot loader may report
          kernel_start_phys, kernel_end_phys,
          MMAP_TYPE_KERNEL               \* above every type in BootMaps

MMAP_TYPE_FREE == 1
MAX_MMAP_SIZE == MAX_BOOT_MMAP_SIZE + 2
PHYS_BYTES_MAX == WORD - 1

ASSUME MapAssumption ==
    /\ WORD \in Nat /\ PAGE_SIZE \in Nat \ {0} /\ WORD % PAGE_SIZE = 0
    /\ MAX_BOOT_MMAP_SIZE \in Nat
    /\ kernel_start_phys \in Nat /\ kernel_end_phys \in Nat
    /\ kernel_start_phys < kernel_end_phys /\ kernel_end_phys < PHYS_BYTES_MAX
    /\ MMAP_TYPE_KERNEL \in Nat \ {0}
    /\ BootMaps \subseteq Seq([addr_high : Nat, addr_low : 0 .. WORD - 1, len_high : Nat,
                              len_low : 0 .. WORD - 1, type : 1 .. MMAP_TYPE_KERNEL - 1])

VARIABLES bootmap,                       \* the boot loader's map
          pos,                           \* the entry of it that is read next
          changes,                       \* the change points
          i, is_changing,                \* loop variables
          overlap,                       \* the entries at the current address
          last_addr, last_type,          \* the entry of mmap that is open
          mmap,                          \* the finished entries of kinfo.mmap
          pc

vars == <<bootmap, pos, changes, i, is_changing, overlap, last_addr, last_type, mmap, pc>>

(* dummy: the area of the kernel itself, as entry 0.                       *)
dummy == [addr_high |-> 0, addr_low |-> kernel_start_phys, len_high |-> 0,
          len_low |-> kernel_end_phys - kernel_start_phys, type |-> MMAP_TYPE_KERNEL]

Entry(e) == IF e = 0 THEN dummy ELSE bootmap[e]

(* An entry that reaches beyond 32 bits is cut off.                        *)
EndOf(b) == IF b.len_high > 0 \/ b.addr_low + b.len_low >= WORD
            THEN PHYS_BYTES_MAX
            ELSE b.addr_low + b.len_low

ChangesOf(e) == << [addr |-> Entry(e).addr_low, entry |-> e],
                   [addr |-> EndOf(Entry(e)), entry |-> e] >>

IsStart(c) == c.addr = Entry(c.entry).addr_low

---------------------------------------------------------------------------
Init ==
    /\ bootmap \in BootMaps
    /\ pos = 1
    /\ changes = <<>>
    /\ i = 1 /\ is_changing = FALSE
    /\ overlap = <<>>
    /\ last_addr = 0 /\ last_type = 0
    /\ mmap = <<>>
    /\ pc = "read"

(* One entry of the boot loader's map; those above 32 bits are skipped. A  *)
(* name that ends in a fault is a faulty variant of the operator that      *)
(* follows it, used to show that a property would notice the fault.        *)
ReadEntry_unchecked ==
    /\ pc = "read" /\ pos <= Len(bootmap)
    /\ changes' = IF bootmap[pos].addr_high = 0 THEN changes \o ChangesOf(pos) ELSE changes
    /\ pos' = pos + 1
    /\ UNCHANGED <<bootmap, i, is_changing, overlap, last_addr, last_type, mmap, pc>>

ReadEntry ==
    /\ pc = "read" /\ pos <= Len(bootmap)
    /\ changes' = IF bootmap[pos].addr_high = 0 THEN changes \o ChangesOf(pos) ELSE changes
    /\ pos' = pos + 1
    /\ pc' = IF Len(changes') > MAX_BOOT_MMAP_SIZE THEN "panic" ELSE "read"
    /\ UNCHANGED <<bootmap, i, is_changing, overlap, last_addr, last_type, mmap>>

AddKernel ==
    /\ pc = "read" /\ pos > Len(bootmap)
    /\ changes' = changes \o ChangesOf(0)
    /\ i' = 2
    /\ pc' = "sort"
    /\ UNCHANGED <<bootmap, pos, is_changing, overlap, last_addr, last_type, mmap>>

(* The sort: passes over the list that swap neighbours, until a pass swaps *)
(* none.                                                                   *)
Before_not_strict(c, d) == c.addr <= d.addr
Before_address_only(c, d) == c.addr < d.addr

Before(c, d) ==
    \/ c.addr < d.addr
    \/ c.addr = d.addr /\ IsStart(c) /\ ~IsStart(d)

SortStep ==
    /\ pc = "sort" /\ i <= Len(changes)
    /\ \/ /\ Before(changes[i], changes[i - 1])
          /\ changes' = [changes EXCEPT ![i] = changes[i - 1], ![i - 1] = changes[i]]
          /\ is_changing' = TRUE
       \/ /\ ~Before(changes[i], changes[i - 1])
          /\ UNCHANGED <<changes, is_changing>>
    /\ i' = i + 1
    /\ UNCHANGED <<bootmap, pos, overlap, last_addr, last_type, mmap, pc>>

SortPass ==
    /\ pc = "sort" /\ i > Len(changes)
    /\ \/ is_changing /\ i' = 2 /\ UNCHANGED pc
       \/ ~is_changing /\ i' = 1 /\ pc' = "sweep"
    /\ is_changing' = FALSE
    /\ UNCHANGED <<bootmap, pos, changes, overlap, last_addr, last_type, mmap>>

---------------------------------------------------------------------------
(* The sweep. An entry that ends is replaced by the last one in overlap.   *)
Without(list, e) ==
    LET n == Len(list)
        found == {j \in 1 .. n : list[j] = e}
    IN  SubSeq(IF found = {} THEN list ELSE [list EXCEPT ![Min(found)] = list[n]], 1, n - 1)

NewOverlap(c) == IF IsStart(c) THEN Append(overlap, c.entry) ELSE Without(overlap, c.entry)

(* The highest type rules.                                                 *)
OverrulingType(list) == Max({0} \cup {Entry(list[j]).type : j \in DOMAIN list})

(* The open entry is finished, unless it is empty.                         *)
Finished(addr) ==
    IF last_type # 0 /\ addr # last_addr
    THEN Append(mmap, [address |-> last_addr, size |-> addr - last_addr, type |-> last_type])
    ELSE mmap

Sweep ==
    /\ pc = "sweep" /\ i <= Len(changes)
    /\ overlap' = NewOverlap(changes[i])
    /\ LET cur_type == OverrulingType(overlap')
           addr == changes[i].addr
       IN \/ /\ cur_type = last_type
             /\ UNCHANGED <<mmap, last_addr, last_type, pc>>
          \/ /\ cur_type # last_type
             /\ mmap' = Finished(addr)
             /\ last_addr' = IF cur_type # 0 THEN addr ELSE last_addr
             /\ last_type' = cur_type
             /\ pc' = IF Len(mmap') >= MAX_MMAP_SIZE THEN "done" ELSE "sweep"
    /\ i' = i + 1
    /\ UNCHANGED <<bootmap, pos, changes, is_changing>>

SweepDone ==
    /\ pc = "sweep" /\ i > Len(changes)
    /\ pc' = "done"
    /\ UNCHANGED <<bootmap, pos, changes, i, is_changing, overlap, last_addr, last_type, mmap>>

Next == ReadEntry \/ AddKernel \/ SortStep \/ SortPass \/ Sweep \/ SweepDone

Spec == Init /\ [][Next]_vars /\ WF_vars(Next)

---------------------------------------------------------------------------
(* The frames memory_init pushes on the page stack: the whole pages of     *)
(* every free entry, in 32-bit arithmetic.                                 *)
PAGE_FLOOR(a) == a - (a % PAGE_SIZE)
PAGE_ALIGN_down(a) == PAGE_FLOOR(a)

PAGE_ALIGN(a) == PAGE_FLOOR((a + PAGE_SIZE - 1) % WORD)

FramesOf(m) == {f \in 0 .. WORD - 1 :
                  /\ f % PAGE_SIZE = 0
                  /\ PAGE_ALIGN(m.address) <= f
                  /\ f < PAGE_FLOOR((m.address + m.size) % WORD)}

FreeFrames == UNION {FramesOf(mmap[k]) : k \in {k \in DOMAIN mmap : mmap[k].type = MMAP_TYPE_FREE}}

(* The type of the byte at address a: the highest of the entries that      *)
(* cover it, 0 if none does.                                               *)
Covers(b, a) == b.addr_high = 0 /\ b.addr_low <= a /\ a < EndOf(b)
TypeAt(a) == Max({0} \cup {Entry(e).type : e \in {e \in 0 .. Len(bootmap) : Covers(Entry(e), a)}})

(* The finished map is what the comment "create sorted and sanitized map"  *)
(* promises: its entries are in order, do not overlap, are as large as     *)
(* possible, and give every address the type that overrules there.         *)
Sanitized ==
    pc = "done" =>
        /\ \A a \in 0 .. PHYS_BYTES_MAX - 1 :
              {mmap[k].type : k \in {k \in DOMAIN mmap :
                  mmap[k].address <= a /\ a < mmap[k].address + mmap[k].size}}
                = {TypeAt(a)} \ {0}
        /\ \A k \in DOMAIN mmap : k > 1 =>
              \/ mmap[k - 1].address + mmap[k - 1].size < mmap[k].address
              \/ /\ mmap[k - 1].address + mmap[k - 1].size = mmap[k].address
                 /\ mmap[k - 1].type # mmap[k].type

(* The allocator gets exactly the pages of which every byte is free: never *)
(* a page of the kernel or one that is partly reserved, and no free page   *)
(* is forgotten at the border of two entries.                              *)
FramesExact ==
    pc = "done" =>
        FreeFrames = {f \in 0 .. WORD - 1 :
                        /\ f % PAGE_SIZE = 0
                        /\ \A a \in f .. f + PAGE_SIZE - 1 :
                              a < PHYS_BYTES_MAX /\ TypeAt(a) = MMAP_TYPE_FREE}

(* The change points fit in change_point_list, the entries in overlap and  *)
(* the result in kinfo.mmap, so that the map is never truncated.           *)
ArraysFit ==
    /\ Len(changes) <= 2 * MAX_MMAP_SIZE
    /\ Len(overlap) <= MAX_MMAP_SIZE
    /\ Len(mmap) < MAX_MMAP_SIZE

(* The sort and the sweep come to an end.                                  *)
Terminates == <>(pc \in {"done", "panic"})
============================================================================
