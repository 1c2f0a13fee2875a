# elco-os in TLA+

elco-os is a small i386 kernel: tasks with priorities and round robin, a clock
with sleeping tasks, synchronous message passing, and memory management with a
heap. This directory holds TLA+ models of it, the TLC configurations that check
them on small instances, and proofs about tasks, clock, messages, interrupts and
memory that TLAPS checks for every size. `PROJECT.json` maps each definition to the lines of the source it models,
and lists the runs, the faults each property is known to notice, the findings,
the hazards and the theorems.

## 1. The system

All code of the kernel proper runs with interrupts disabled: on a kernel call
(`int` instruction) or an interrupt, the entry code of `i386.S` saves the
context of the task, calls a handler and ends in `resume()`, which asks
`scheduler()` for a task and switches to it. There is one processor and the
kernel is never re-entered. Interleaving therefore happens between kernel calls,
clock interrupts and boot, not inside the handlers, and the handlers are atomic
towards the tasks. What makes the kernel hard is what they leave behind: tasks
linked through one `next` field each, a cached scheduling decision, a message
parked in a table entry until its receiver is switched to, a sleep list that is
only read at its head, a page stack that is stored in the pages it manages.

| Component | State | Operations | Interacts with | What makes it correct |
|---|---|---|---|---|
| Tasks and scheduler (`kernel/task.c`) | `ptable`, `queue_head/tail[]`, `next_ready`, `reschedule_needed`, `next_task`, `current_task`, `pid_count` | `multitasking_init`, `create_kernel_task`, `enqueue_task`, `dequeue_task`, `block_task`, `unblock_task`, `preempt`, `scheduler`, `find_task` | called by clock, messages, kernel calls | no task linked twice or lost; the cached decision is never stale; round robin |
| Clock (`kernel/clock.c`) | `clock_ticks`, list at `next_timer_event`, `ticks_left` of tasks | `timer_callback` (interrupt), `sleep_ms` | blocks, unblocks and preempts tasks | list sorted; a sleep ends on time; every sleeper wakes |
| Messages (`kernel/message.c`) | `message_*` fields of tasks, list of senders of each task | `message_send`, `message_receive`, `message_deliver` | blocks and unblocks; delivery runs in `after_context_switch` | no lost wake-up; a message is delivered once, to whom it is for, in order, before the receiver runs |
| Kernel calls and switch (`kernel/main.c`, `kernel/i386`) | saved contexts | `handle_kernel_call`, `irq_handler`, `resume`, `after_context_switch` | the only caller of the three above | every way out of a handler goes through the scheduler |
| Test tasks (`kernel/main.c`) | program counters, message buffers | `task1` to `task4` | kernel calls | the timeline and the messages in their own comments |
| Memory map (`get_mmap`, `kernel/main.c`) | change points, overlap list, `kinfo.mmap` | one pass at boot | result is read by `memory_init` | sorted, disjoint, highest type rules; no write past an array |
| Memory (`kernel/memory.c`) | page stack, page directory and tables, `kernel_heap_size` | `memory_init`, `memory_allocate_page`, `memory_free_page`, `memory_map_addr`, `memory_unmap_addr`, `heap_callback` | libk's heap calls `heap_callback` | every frame has one owner; failed growth is undone |
| Heap (`lib/libk/.../malloc_free`) | chunks, small bins, tree bins, designated victim, top | `kmalloc`, `kfree`, `krealloc`, `kcalloc` | asks `heap_callback` for memory | chunks partition the heap, free neighbours are joined, bins hold exactly the free chunks |
| Interrupt dispatch and PIC (`kernel/i386/interrupts.c`, `pic.c`, `i386.S`) | handler tables, masks and in-service lines of two controllers | set and clear handlers, mask, dispatch, end of interrupt | calls `timer_callback` | no interrupt without a handler; a spurious one runs none; each real one is ended, and the timer is served |
| Display and `kprintf` (`kernel/i386/display.c`, `lib/libk/src/kstdio`) | cursor, color, screen | put character, scroll, number at a place, formatted output | `kprintf` reaches the display through the putc callback | the screen shows the end of what was printed |
| String functions (`lib/libk/src/kstring`) | `kstrtok` keeps a pointer | pure functions | | equal to their C definition |
| libk callbacks (`lib/libk/src/libk.c`) | three function pointers set at boot | sbrk, abort, putc | heap to memory, `kprintf` to display | |
| Descriptor tables | constants set at boot | | | |
| Unity (`lib/test`) | third-party test framework | | | |

The hard behaviours, each at its line, are the `hazards` of `PROJECT.json`.

## 2. The modules

| Module | Models |
|---|---|
| `Task` | `task.c`: table, ready queues as sequences, scheduler |
| `ReadyList` | the same queues as the `queue_head`, `queue_tail`, `next_ready` pointers, shown to implement the sequences of `Task` |
| `Clock` | `clock.c`, extends `Task` |
| `Message` | `message.c`, extends `Task` |
| `Mailbox` | abstract specification of message passing: atomic mailboxes |
| `Kernel` | the composition: boot, kernel calls, clock interrupt, resume; all properties of the kernel |
| `MainTasks` | the programs `task1` to `task4` on top of `Kernel` |
| `MemoryMap` | `get_mmap`, and the frames `memory_init` takes from its result |
| `Memory` | page stack, page tables, allocation, mapping, heap callback |
| `KMalloc` | the heap allocator: chunks in memory, bins, designated victim, top chunk, growth |
| `Bins` | the pointers of a small bin (ring) and of a tree bin, on which `KMalloc` relies |
| `Interrupts` | handler tables, masks, dispatch and end of interrupt, with the two controllers |
| `Console` | display and `kprintf`, and the terminal they are compared with |
| `MCKernel`, `MCMemoryMap`, `MCMemory`, `MCKMalloc`, `MCBins`, `MCConsole` | values of constants for TLC |
| `BasicLemmas` | lemmas on the operations on lists and on division |
| `KernelProofs` | theorems about `Kernel`: the kernel's invariant, the timer list, the refinement of `Mailbox` |
| `ReadyListProofs` | theorems about `ReadyList`: the pointers implement the sequences of `Task` |
| `InterruptsProofs` | theorems about `Interrupts` |
| `MemoryProofs`, `MemoryMapProofs` | theorems about `Memory` and `MemoryMap` |
| `KMallocLemmas`, `KMallocProofs` | what the operations of `KMalloc` do to chunks and bins, and the theorems about it |

**Kernel.** `Task`, `Clock` and `Message` define the functions of the three C
files as conjuncts on the variables they change; `Kernel` makes actions of them.
`pc` says where the processor is: `boot` (in `kernel_main`), `task` (running
`current_task`, interrupts enabled), `timer` (in the loop of `timer_callback`),
`resume` (a handler has finished). One action is one handler, up to `resume`:
`SleepCall`, `PreemptCall`, `GetPidCall`, `SendCall`, `ReceiveCall`,
`UnknownCall` are the cases of `handle_kernel_call`; `TimerTick` is
`timer_callback` up to its loop, `WakeExpired` an iteration of that loop,
`TimerDone` its end; `Resume` is `scheduler`, the switch and
`after_context_switch`. `UseMessage` is the task itself reading its buffer and
clearing it; as in the test tasks, a task uses the message it received before it
makes its next call. What is abstracted: registers other than `eax`, stacks, the
contents of a message beyond its two first bytes (the only ones the tasks use),
and display output. A linked list is a sequence; that the pointers implement it
is what `ReadyList` shows for the ready queues. The timer list and the sender
lists are built with the same pointer walk, but are not modelled as pointers.
`clock_ticks` and `timer_expire` keep their width: they are numbers modulo
`WORD`, which stands for 2^32.

**MainTasks.** The test programs as data: every statement carries the time step
the source prints for it, and `Step` runs it through the actions of `Kernel`. The
constants are those of the source except for the milliseconds per step, which
only scale the timeline (2 in place of 1000), and `WORD`. The tick is taken
only when no task has anything left to do: the statements of the test take far
less than a millisecond.

**MemoryMap.** One action per loop iteration of `get_mmap`: reading, sorting,
sweeping. `FramesOf` is the loop bound of `memory_init`, with its 32-bit
`PAGE_ALIGN` and `PAGE_FLOOR`.

**Memory.** A frame is a model value. `pstack` holds the depth of the page stack,
the frame under each of its pages and the contents of each entry; `pde` and `pte`
the page directory and the page tables. `memory_allocate_page` and
`memory_map_addr` follow every path of the code, with the frame that is pushed
back when the second pop fails. `heap_callback` is one action per page, with
rollback. Access flags of pages and the TLB are left out. `AllocatePage`,
`FreePage`, `MapAddr`, `UnmapAddr` are the callers of the interface: they free
pages they allocated, and map frames that are theirs.

**KMalloc.** Memory is an array of words, and a chunk is what its header word says:
size, `PINUSE`, `CINUSE`. `prev_foot` lies in the last payload word of the chunk
before, as in the code, so a caller that fills its block overwrites it, and a
read of it at the wrong time meets the caller's data (an evaluation error of
TLC). A word the allocator has no more use for is forgotten, so a leftover
header is never taken for a chunk. One action is one call of a caller, which
then stores data in all of its block. `kmalloc_intern`, `split_top`, `grow_top`
and `krealloc` are the sets of their outcomes: the callback that
grows the heap may refuse at any time. A small bin is a sequence, a tree bin a
set, and the two tree searches may return any chunk that `TreeSearch` of `Bins`
allows. `size_t` is a number modulo `WORD`, the unit is the word of 4 bytes, and
the size classes follow from a smaller `TBIN_SHIFT`.

Two calls of the code have an undefined outcome (see the findings and remarks).
`try_expand_chunk` writes the remainder's header before it takes the chunk out of its
bin, as the code does: if that word is a link `unbin_chunk` follows
(`WritesOverLink`), the call is undefined. So is a search for a size of the last tree bin,
except where it meets the exact size or no tree bin has a chunk it could go wrong with
(`SearchUndefined`). An undefined call may do anything. It sets `undefined` and the
model ends there, so every property of `KMalloc` is about the heap up to the first such
call, and after an undefined search `Kmalloc` may also have one of its harmless
outcomes and go on.

**Bins.** The fields `next`, `prev`, `left`, `right` and `parent` of every chunk,
with the walks of `kmalloc_tree.c` over the bits of a size. A chunk that leaves
a bin has its fields overwritten by its owner (`GARBAGE`), so that a pointer left
behind is noticed. At depth 0 insertion gives up, as in the code ("this should not
happen!"): `TreeExact` shows that it does not, in a bin whose sizes differ in
`DEPTH` bits.

**Interrupts.** The 8259A controllers are external and modelled from how they are
programmed: request, mask and in-service registers, priorities of the cascade,
non-specific end of interrupt, and the spurious interrupt 7 when a request is
withdrawn before it is acknowledged. An interrupt goes through
`Acknowledge`, `InterruptEntry` (the check of `irq7`), `irq_handler` and
`EndOfInterrupt`; requests and withdrawals interleave with all of them. Setting a
handler is two steps, table and mask. `irq_clear_handler` is only called while
interrupts are off, because it removes the handler first. Handlers are set for
lines of the first controller, as in the kernel, which only sets line 0 (see the
remarks); line 8 is a device that stays masked. The second controller's own
spurious interrupt 15, for which the entry code has no check, cannot happen
while all its lines are masked.

**Console.** `arch_display_putc` with wrapping and scrolling, `arch_display_number`
and the conversions of `kprintf` on a small screen. The reference is a sheet of
paper: lines are appended, and numbers are given by their value instead of by
division.

## 3. What the runs check

Each property is broken by at least one plausible fault of the code (`mutants`
in `PROJECT.json`): a forgotten `reschedule_needed`, a `<` for `<=`, a flag not
cleared, a page not unmapped. The faulty operators stand in front of the ones
they vary and are used nowhere else.

| Run | Instance | Shows |
|---|---|---|
| `messages` | idle task and up to three tasks, two priorities, every destination as argument (used, free, idle, wildcard), receive from no one, anyone or one task | `LinkedOnce`, `OnePlace`, `NoLostWakeup`, `DeliveryPending`, the inductive invariant `IInv` of the proofs; the kernel implements `Mailbox` |
| `scheduling` | up to three tasks, two priorities, preemptible or not, quantum 2, sleeps of 0, 1 and 2 ticks, clock of 3 values | `RunsFirstReady`, `TimersSorted`, `NeverOversleeps`; under fairness `ReadyRuns` and `SleeperWakes` |
| `ready_list` | five tasks, two priorities | the pointers are well linked and implement the sequences |
| `main_tasks` | the real table: 10 slots, 17 priorities, quantum 10 | the test tasks get the messages they expect at the time they print, and finish |
| `memory` | six frames, stack pages of two entries, page tables of two entries, pages of two bytes | `FrameOwnedOnce`, `StackBacked`, `HeapMapped`, `NoFalseFailure` |
| `memory_map` | every pair, and a choice of triples, of entries at every overlap in 12 bytes of memory; maps of one entry more than the check lets through | `Sanitized`, `FramesExact`, `ArraysFit`, `Terminates` |
| `kmalloc` | a heap of 32 words that may grow to 48 in steps of 16, up to three blocks, requests of 0, 9, 15, 31 and 33 words and one that overflows, resizing to 13 and to 0, an array of 2 times 2; also a heap too small to be used | `NeverAborts`, `Tiled`, `Boundaries`, `Binned`, `BlocksIntact`, `FitIsFound`, `ShrinksWithinBounds`, `LossBounded` |
| `bins` | six chunks, eight sizes of a tree bin of depth 3, a small bin | `SmallRing`, `TreeExact`, `TreeSearch` |
| `interrupts` | devices at lines 0, 1, 7 and 8, handlers for the first three, four calls, one exception | `OnlyRequested`, `NoneLeftInService`, `NoUnhandledIRQ`, `TimerServed` |
| `console` | a screen of 4 by 2, four calls out of thirteen, two colors | `ShowsEnd` |

Sleeping and messages meet in `main_tasks`; that they do not disturb each other in
any other order is part of the proof of `IInv`. In the kernel runs a boot creates
any number of tasks from none to three, so every smaller system is part of each
run.

*Bounds.* Three tasks besides the idle task are the fewest with which a list has
a middle: a receiver that takes the second of two senders, a sleeper inserted
between two others, a ready queue that loses its inner task. Two priorities are
enough for a task of higher priority to interrupt another, and the proofs cover
the rest. A quantum of 1 ends at every tick; with 2 it can run out and be cut
short. A clock of 3 values wraps during a sleep of 2 ticks. In `memory` two entries per
stack page and two per table make every second operation cross a border; six
frames are enough for two stack pages, two tables and a heap of several pages,
and few enough to run out at every point of a growth. In the memory map a page of
3 bytes makes borders meet inside and on a page. No entry starts or ends inside
the last page of the address space, where `PAGE_ALIGN` wraps to 0: a PC has its
BIOS there (see the hazards).

In `kmalloc` chunks of 4 to 14 words are small, and those of 16 to 22, 24 to 30, and 32 and
more are in one of three tree bins. Requests reach the last bin, and growing from 10 to
14 words in front of a tree chunk reaches the link overwritten by `try_expand_chunk`. Three blocks and the free chunks between them are enough for
a freed chunk with a free neighbour on both sides, for the designated victim to
be replaced, merged and expanded into, and for the top to be exhausted, grown and
shrunk. Six chunks in a tree of depth 3 give every shape of
tree up to a node with two subtrees and a ring. In `interrupts` lines 0 and 1
have different priorities, 7 is the line of spurious interrupts and 8 belongs to
the second controller. The screen of `console` has two tab stops, a line to
scroll away and a line to stay; four calls fill it more than twice.

`CHECK_DEADLOCK FALSE` is only used for the memory map, because `get_mmap`
returns, and for `KMalloc`, which ends after a call with an undefined outcome. The kernel is never deadlocked: the clock ticks for ever and the idle
task always runs. `Memory` always has a further call, or has panicked
at boot, which needs fewer frames than the run gives it.

*Symmetry.* `memory` is checked up to permutations of the frames, `bins` up to
permutations of the chunks: no definition of these modules tells one from another
(`CHOOSE` is only used on numbers). Neither has a liveness property.

*Fairness.* `Kernel!Fairness` is weak for boot and for the inside of handlers
(straight-line code that always proceeds) and strong for `TimerTick`: a running
task may disable the clock interrupt for a moment again and again by making
kernel calls, but the request stays pending in the interrupt controller and is
taken when interrupts are enabled again. Kernel calls are not fair: a task may
compute for ever, or yield for ever. `MainTasks` adds weak fairness of the
programs, which never stop. `MemoryMap` is sequential and has weak fairness of
its only next step. `ReadyRuns` is stated for a task that no other may hold off,
because the scheduler starves lower priorities, and tasks that are not
preemptible starve their equals, by design. `Interrupts` has weak fairness of the
controller, of the processor and of the handlers, and none of the devices;
`TimerServed` is what justifies the strong fairness of `TimerTick`: the request of
the timer is served whatever the other devices do.

*Refinement.* `Mailbox` has three variables: the messages waiting for each task in
order, what each task waits for, and its inbox. A send, a receive and the use of a message are
atomic. `Kernel!MB` maps the kernel to it: a mailbox is the list of senders
seen through their table entries, and the inbox is the receiver's buffer or,
between the hand-over and the switch, its table entry. Delayed delivery and all
scheduling are stuttering.

### Findings

Two runs expect a violation; `findings` quotes the lines.

* `early_wake`: `timer_expire <= clock_ticks` compares numbers that wrap. A
  sleep across the wrap of the tick counter (49.7 days at 1000 Hz) ends at the
  next tick. `NeverOversleeps` holds nevertheless: a sleep is never too long.
* `expand_binned`: `try_expand_chunk` writes the header of the remainder into a free
  chunk that is still in its bin (`kmalloc_util.c:132`, `unbin_chunk` is at line 142).
  When `krealloc` grows a block by 8, 16 or 24 bytes, that word is the chunk's `prev`,
  `right` or `index`, and `unbin_chunk` follows it. The test of this path grows by 64
  bytes. In the run a lone tree chunk gets a `right` link and is no longer a leaf.

### Remarks

Met while modelling, and not kept as runs:

* Every size from 12 MB on is in tree bin 31, whose tree is searched by
  the 22 low bits of the size. There a right subtree need not hold larger
  chunks, and `kmalloc_tree_get_best_fit` can return a chunk that is smaller than
  what was asked for (`kmalloc_tree.c:211`); `allocate_tchunk` then subtracts the larger from the
  smaller size. Free chunks of 13 MB and 14.5 MB and a request of 16 MB do that.
  `TreeSearch` fails in `Bins` when its sizes need more bits than `DEPTH`.
* When the search of that bin finds nothing, `index` becomes 32
  (`kmalloc.c:82`). Shifting `tbinmap` by 32 is undefined; the i386 does not shift, and
  if any tree bin has a chunk, `tbin[32 ...]` is read behind the array. Both are
  `SearchUndefined` of `KMalloc`.
* When `split_top` leaves 8 bytes of the top chunk, they are lost
  (`kmalloc_util.c:182`), and the dummy is not at the end of the heap, which the tests'
  heap check reports as an error (`testsuite.c:69`). `Tiled` lets the heap go on behind
  the dummy; `LossBounded` says that a call loses no more than one such remainder.
* `krealloc` cuts off 8 bytes when the next chunk is not in use
  (`krealloc.c:51`), and the dummy behind an exhausted top chunk is not. The top
  chunk is then smaller than `MINCHUNKSIZE`, which the heap check reports, too
  (`testsuite.c:40`), and `Tiled` allows for the top chunk only.

* The comment over `scheduler()` (`task.c:191`) says that it adds the current task
  to the tail of its queue. Only `preempt()` does.
* An entry of length 0 in the boot loader's map has two change points that both
  look like a start (`main.c:506`), is never removed and overrules the memory above
  it. The entries of `memory_map` have at least one byte.
* `get_mmap` counts change points, two for each entry, and compares with the
  number of entries (`main.c:458`): it panics at half of `MAX_BOOT_MMAP_SIZE`.
  `ArraysFit` shows that the check, stricter than it was meant, protects the
  arrays.
* `pic_clear_mask` (`pic.c:58`) uses the mask of the first controller for lines 8 to 15 as
  well: setting a handler for line 8 unmasks line 0, which then panics as
  unhandled. The kernel sets line 0 only.
* `kmalloc_tree_get_best_fit` returns a chunk that fits, and the exact size if
  there is one, but not always the best fit (`kmalloc_tree.c:163`): it takes a chunk
  out of a right subtree although a node on its way up is smaller.
* `krealloc` lacks the overflow check of `kmalloc`, and `kcalloc` does not check
  its product (`krealloc.c:42`, `kcalloc.c:17`): such a request is granted with a smaller
  block.
* The rounding in `grow_top` (`kmalloc_util.c:250`) wraps for an increment within
  `HEAP_SIZE_ALIGN` of the end of `size_t`: a request of that size, which
  `REQUESTOVERFLOW` lets through, makes the heap grow by nothing, and `split_top` then subtracts
  the larger from the smaller size. The requests of `KMalloc` are those for which it does not wrap.
* `INT_MIN` is outside the numbers of `Console`: its absolute value is not an `int`,
  and `kprintf` (`kprintf.c:53`) and `arch_display_number` (`display.c:51`) print it wrongly.
* `Bins` has chunks that stay untouched while they are linked: a link overwritten by
  `try_expand_chunk` (the finding `expand_binned`) is not part of it.

## 4. What is proved

The theorems hold for every value of the constants: any number of tasks,
priorities, ticks, frames, devices, any sizes of pages and tables, any arguments
of the calls.

| Theorem | States | Module |
|---|---|---|
| `Invariance` | `Spec => []IInv` | `KernelProofs` |
| `TypeCorrect` | `Spec => []TypeOK` | `KernelProofs` |
| `TasksLinkedOnce` | `Spec => []LinkedOnce` | `KernelProofs` |
| `TasksInOnePlace` | `Spec => []OnePlace` | `KernelProofs` |
| `FirstReadyRuns` | `Spec => []RunsFirstReady` | `KernelProofs` |
| `WakeupNotLost` | `Spec => []NoLostWakeup` | `KernelProofs` |
| `DeliveredBeforeRunning` | `Spec => []DeliveryPending` | `KernelProofs` |
| `TimersStaySorted` | `Spec => []TimersSorted` | `KernelProofs` |
| `NoOversleeping` | `Spec => []NeverOversleeps` | `KernelProofs` |
| `KernelImplementsMailbox` | `Spec => ImplementsMailbox` | `KernelProofs` |
| `PointersInvariance` | `Spec => []PointerInv` | `ReadyListProofs` |
| `ListsWellLinked` | `Spec => []WellLinked` | `ReadyListProofs` |
| `PointersImplementQueues` | `Spec => ImplementsQueues` | `ReadyListProofs` |
| `ServiceInvariance` | `Spec => []SInv` | `InterruptsProofs` |
| `IRQsAreRequested` | `Spec => []OnlyRequested` | `InterruptsProofs` |
| `EveryIRQEnds` | `Spec => []NoneLeftInService` | `InterruptsProofs` |
| `EveryIRQHandled` | `Spec => []NoUnhandledIRQ`, if `FirstController` | `InterruptsProofs` |
| `ArraysLargeEnough` | `Spec => []ArraysFit` | `MemoryMapProofs` |
| `MapSanitized` | `Spec => []Sanitized`, if `NoEmptyEntries` | `MemoryMapProofs` |
| `FreeFramesExact` | `Spec => []FramesExact`, if `NoEmptyEntries` and `LastPageWhole` | `MemoryMapProofs` |
| `MemoryInvariance` | `Spec => []MemoryInv` | `MemoryProofs` |
| `FramesOwnedOnce` | `Spec => []FrameOwnedOnce` | `MemoryProofs` |
| `StackAlwaysBacked` | `Spec => []StackBacked` | `MemoryProofs` |
| `HeapMappedExactly` | `Spec => []HeapMapped` | `MemoryProofs` |
| `FailsOnlyWhenEmpty` | `Spec => NoFalseFailure` | `MemoryProofs` |
| `HeapInvariant` | `Spec => []AllocInv` | `KMallocProofs` |
| `AlwaysTiled` | `Spec => []Tiled` | `KMallocProofs` |
| `AlwaysBoundaries` | `Spec => []Boundaries` | `KMallocProofs` |
| `AlwaysBinned` | `Spec => []Binned` | `KMallocProofs` |
| `AlwaysIntact` | `Spec => []BlocksIntact` | `KMallocProofs` |
| `NoAbort` | `Spec => []NeverAborts` | `KMallocProofs` |
| `AlwaysFits` | `Spec => []FitIsFound` | `KMallocProofs` |
| `HeapBounds` | `Spec => ShrinksWithinBounds` | `KMallocProofs` |

*Assumptions.* The `ASSUME`s of the modules, which TLC evaluates for the instance
of each run. Kernel: sizes are positive, the arguments of sleep are those for
which the multiplication in `sleep_ms` does not overflow and which are shorter
than a period of the clock, `NULL` is not a task. Memory: the initial heap ends
below the limit of the heap, the frames fit on the page stack, the amounts given
to `heap_callback` have the width of a word, and the marks for the kernel image,
a large page and nothing are not frames. Memory map: the fields of an entry have
the width they have in the multiboot header, and no entry has the kernel's own
type. Interrupts: `NULL` is not a line or a call. Heap allocator: the heap consists
of whole units of `HEAP_SIZE_ALIGN` and is smaller than half of the numbers of a
`size_t` (`KMallocAssumption`); a request either overflows, which `kmalloc` refuses,
or leaves room for the rounding in `grow_top`, and those of `krealloc` and the products of
`kcalloc`, which nothing checks, do not overflow (`RequestsAssumption`; see the
remarks); `calc_tbin` gives each size a bin and no larger size a smaller one
(`BinsAssumption`, a fact about powers of 2, which are defined by recursion); and the
heap is too small for so many chunks of the last tree bin that insertion runs out of
levels (`LastBinAssumption`: less than 276 MB in the kernel). Three theorems have hypotheses
of their own, and without them the property is false. `EveryIRQHandled` is about a
kernel that sets handlers for lines of the first controller only
(`FirstController`), as this one does (see the remarks on `pic_clear_mask`).
`MapSanitized` and `FreeFramesExact` are about boot loaders that report no entry of
length 0 (`NoEmptyEntries`; see the remarks on `main.c:506`), and `FreeFramesExact`
about memory in which nothing begins or ends inside the last page of the address
space (`LastPageWhole`): `PAGE_ALIGN` of such an address is 0 (`memory.c:348`).

**Kernel.** None of the properties is inductive alone, and all of them are proved
together as `IInv`:

* `LinkedOnce` needs to know that a task that is enqueued was not ready:
  `OnePlace` says that a sleeper or a waiting sender is in no queue.
* `OnePlace` needs to know that the caller of a blocking call was in the head
  position of its queue: `DecisionInv`. While a task runs, the cached decision
  names it and is what a fresh search would give, and whenever
  `reschedule_needed` is false this is so in the middle of a handler, too.
* `OnePlace` for the receiver a sender finds waiting needs the flags to agree
  with the lists: `SendersOnce`, `DeliveryPending`.
* `NoLostWakeup` needs `TableInv` (the pids are the slots in order of creation,
  so `find_task` is exact) and that a task that starts to receive has no
  unfinished call: the last conjunct of `DeliveryPending`.
* `BootInv` keeps the lists empty until the scheduler starts.

The proof has one lemma per action (`SleepCallInv`, `ResumeInv`, ...), and below it
one step per conjunct of `IInv` that the action can disturb; sending and receiving
are split further by the outcome (`HandOverInv`, `ParkInv`, `TakeFromInv`,
`AwaitMessageInv`). What `enqueue_task`, `dequeue_task`, `preempt`, `sleep_ms` and
the wake-up do to the lists is stated once (`EnqueueEffect`, `DequeueEffect`, ...),
and `FrameInv` and `TurnInv` cover the actions that leave the message system alone.
`NextInv` combines the actions. `BasicLemmas` has what the operators of SequencesExt
(`Contains`, `RemoveFirst`, `RemoveAt`, `InsertAt`, `IsInjective`) do to membership
and injectivity.

**Clock.** `TimerInv` adds to the order of the list what is left of each sleep
(`SleepInv`): at least one tick while no handler runs, none at the earliest inside
`timer_callback`, and never more than its length. Both are needed together. The
tick counts all sleeps down by one without wrapping only because none of them is
at zero. `timer_callback` reaches every one that is at zero because the list is in the
order of `timer_expire` (`TimersSorted`): those in front of it have a smaller or equal
`timer_expire` and are woken, too. Across the wrap this is not the order of the time
left: a sleep whose `timer_expire` has wrapped stands in front although it has longer to
go, and is woken early (the finding `early_wake`), so that the order never makes
another task late. Four lemmas on numbers modulo `WORD` carry the arithmetic.

**Mailbox.** Every step of the kernel is shown to be a step of `Mailbox` under the
mapping of section 3, or to leave the three mapped variables alone. Besides
`IInv` it needs one more invariant, `BufferInv`: the parked message of a waiting
sender still carries its pid, so that `message_receive`, which compares
pids of tasks, takes the same message as `Mailbox`, which compares those in the messages.

**Ready lists.** The invariant (`PointerInv`) says of each priority that the
sequence read off the pointers is a chain: distinct tasks of this priority, each
linked to the next, the last one to nothing, head and tail pointing to its ends.
That it suffices to name such a sequence to know what the loops of the code see
(`WalkChain`, `FollowChain`) is an induction along the list; it is done with the
least number at which two walks would differ (`LeastNat`). The operations are then
three lemmas on chains (`ChainAppend`, `ChainRemove`, `ChainFrame`); the last one is
where it matters that no task is in the queue of another priority, since all lists
share the one field `next_ready`.

**Interrupts.** `ServiceInv` relates the in-service registers of the two controllers
to the progress of the handler: nothing is in service while no interrupt is
handled; at the entry either the interrupt is in service, with the cascade line if
it came through the second controller, or it is a spurious 7 and nothing is; after
the check for spurious interrupts it is in service. `HandlerInv` says that a line
that is not masked has a handler, with the one exception of a handler that is being
cleared while interrupts are off, and is preserved because a handler is entered in
the table before its line is unmasked.

**Memory map.** `SizeInv` bounds the three arrays by the progress of `get_mmap`. The
check for too many entries comes after two change points were added, and the
two of the kernel are added without one, so `change_point_list` is filled up to two
above the limit. Each step of the sweep adds at most one entry to either list,
and the first step finishes none. Nothing is assumed of the entries.

What the finished map says needs the rest of `MapInv`. `PointsInv`: the list has the
two change points of every entry read so far, each once, and what a pass of the
bubble sort has gone through without a swap is in order (`AddPoints`, `SwapPoints`,
`SortedOneMore`). `SweepInv`: at change point `i` the overlap list holds
exactly the entries that have started and not ended (`OpenStart`, `OpenEnd`,
`OpenCovers`), and below the address of the last change point the finished entries
give each address the highest of the types of the entries that cover it, in order,
without overlap, and with a different type on each side of a border. A step of the
sweep either sees the same type, opens an entry, or finishes one (`StepSameType`,
`StepNoEntry`, `StepEntry`); `TypeChange` is the core of all three: between two change
points the covering entries, so the type, do not change. At the end nothing lies
ahead, which is `Sanitized`. For `FramesExact` the pages `memory_init` takes from one
entry are those inside it (`PageBounds`, `FramesWithin`), and a page of free memory
only lies inside a single entry, because no two entries of one type touch
(`PageInEntry`).

**Memory.** `MemoryInv` has four parts. The page stack (`StackOK`): the pages under
its entries are mapped and its entries written, no page is mapped before the stack
reaches it, and no frame is in it twice. Ownership (`OwnedOnce`): each frame is in exactly one
of the stack, the page tables, the page directory, the hands of a call in
progress, and the list of frames still to be added at boot. That a push always finds room is a
count: the stack has no repetitions and lacks the frame that is pushed.
Tables (`TableInv`): a mapped page lies under a page table, so that the table that is
added for a page and cleared had nothing mapped in it. Heap (`HeapInv`): how far
the heap is mapped in the middle of a growth, a rollback and a shrinking, which
with the size that is already stored or still to be restored gives `HeapMapped`
when the call returns. `NoFalseFailure` follows from `StackOK` and `OwnedOnce` for
the step in which a page is refused.

**Heap allocator.** The properties of `KMalloc` quantify over all chunks, and an operation
changes a few words of one of them. The invariant is therefore stated for a piece of the
heap: `Seg(m, lo, p, hi, q, E)` says that from `lo` up to `hi` one well formed chunk
(`ChunkOK`) follows the other, that `p` and `q` are the flags at its two ends, and that
every word of a block holds its caller's data, except those of `E`, which have just been
granted. Segments are joined where they touch and cut at any chunk (`SegJoin`,
`SegCut`), and depend on their own words alone (`SegFrame`). `Layout` is the whole
heap: a segment up to the top chunk, the top chunk if it has any words, the dummy, and
nothing behind it; `Hole` is a heap in which one segment is missing. `BinInv` relates a
set of chunks to the bins; with `VictimOK` and `HeapOK` this is `Good`, and `AllocInv`
adds that the blocks in use are those of the callers (`LiveIn`).

Every operation opens a hole, writes in it and closes it. `BinAdd`, `BinRemove` and
`BinPop` keep `BinInv` while a chunk is in nobody's hands. What takes a free chunk, in whole or
split (`TakeAll`, `Split`, `SplitTop`, `GrowGood`), is summarised in `Granting`, and
the two ways through `kmalloc_intern` end in a grant or in `NoFit` (`InternOutcome`,
`KmallocOutcome`): no bin, victim or top chunk has a chunk of that size. This is where the
order of the bins matters, and it gives `FitIsFound`. `merge_free_chunks` closes the hole of a
freed block and its free neighbours, with the four cases of what follows it; `kfree`,
the shortening `krealloc` and `shrink_top` use it. `try_expand_chunk` closes the hole of a
block and the free chunk behind it (`Expands`). The code writes the two headers first
and changes bins, victim or top chunk afterwards; when no link is overwritten
the writes commute with that (`SplitCommutes`, `WholeCommutes`), and the proof opens the
hole first. A `krealloc` that moves is a grant, a copy and a `kfree`. `GrantStep`, `FreeStep` and `ReallocStep` are the steps of the
callers, and `HeapFound` to `FitHolds` read the properties off the invariant. A call whose
outcome is undefined ends the model (`UndefinedSafe`), so the theorems are about
sequences of calls up to the first of these, and `NoFit`, so `FitIsFound`, is about
requests whose search is defined (`SearchUndefined`): all those whose size is not of the
last tree bin. The model takes the two tree searches of the other bins from
`Bins`, where `TreeSearch` is checked and not proved.

*Only model-checked.* `LossBounded` of `KMalloc`, which compares two states of the whole
heap. Liveness (`ReadyRuns`, `SleeperWakes`, `Terminates`, `TimerServed`
and the end of the test tasks), which is out of reach of the prover, as is `ENABLED`.
`MainTasks`: one fixed program, which TLC runs completely. `Bins` and `Console`: their
reference definitions recurse over data (the nodes of a tree, the lines of a sheet),
for which the prover has no induction.

## 5. What is not modelled

* String functions: pure loops over bytes with a standard meaning and a unit test
  each; `kstrtok` keeps state, but the kernel does not use it. The copies of
  `krealloc` and of scrolling are part of `KMalloc` and `Console`.
* The registration of the libk callbacks: three assignments at boot. What is
  called through them is modelled.
* The divisor and the ports of the timer chip, `print_logo` and the multiboot header.
* Printing from two tasks at a time: the display has no lock, and a preemptible
  task that is interrupted between `display_row++` and `display_scroll` would
  print below the screen. The tasks of `kernel_main` that print are not
  preemptible.
* Descriptor tables and page flags: constants, no behaviour beyond them.
* Stack depth of tasks, code generation, the assembly entry code beyond the order
  in which it saves, calls and resumes.
* The overflow of `KERNEL_CLOCK_FREQ * ms` for sleeps above 35 minutes, and a
  negative amount larger than the heap given to `heap_callback`: no caller
  produces them (see the hazards).
* `create_kernel_task` returning NULL: no caller looks at it, and the tasks of
  `kernel_main` fit in the table and the initial heap.

## 6. Plan

1. Done: all modules of section 2; the proofs of section 4.
2. Left to model: nothing that keeps state and is used by the kernel.
3. Proofs left: `SmallRing` of `Bins`, with the chains of `ReadyListProofs` closed to a ring.
