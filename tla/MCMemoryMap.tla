---------------------------- MODULE MCMemoryMap ---------------------------
(* Values of the constants of MemoryMap for TLC.                           *)
EXTENDS MemoryMap

Entries(addrs, lens) ==
    [addr_high : {0}, addr_low : addrs, len_high : {0}, len_low : lens, type : {1, 2}]

(* Entries in 32 bits, one that is above them, and ones that reach beyond  *)
(* them. No entry starts or ends inside the last page of the address       *)
(* space, all of which is the BIOS of a PC.                                *)
Above == [addr_high : {1}, addr_low : {0}, len_high : {0}, len_low : {4}, type : {1}]
Beyond == [addr_high : {0}, addr_low : {4}, len_high : {1}, len_low : {0}, type : {1, 2}]

InLastPage(a) == a > WORD - PAGE_SIZE /\ a < PHYS_BYTES_MAX
PairEntries == {b \in Entries({0, 1, 2, 4, 5, 6, 8}, 1 .. 11) : ~InLastPage(EndOf(b))}
Pairs == BoundedSeq(PairEntries \cup Above \cup Beyond, 2)
Triples == BoundedSeq(Entries({0, 2, 3, 5}, {1, 2, 3}) \cup Above \cup Beyond, 3)

(* Maps of one entry more than get_mmap accepts in this instance: free     *)
(* memory with holes, which makes the most pieces.                         *)
Hole(addr) == [addr_high |-> 0, addr_low |-> addr, len_high |-> 0, len_low |-> 1, type |-> 2]
TooLong == {<<f, Hole(1), Hole(6), Hole(8)>> : f \in Entries({0}, {9, 11})}

AllMaps == Pairs \cup Triples \cup TooLong
============================================================================
