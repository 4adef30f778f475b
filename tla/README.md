# LeoKernel: TLA+ models and proofs

LeoKernel is a single-processor x86-64 kernel in C. `kmain` (`src/leokernel.c`)
sets up the screen, the processor tables, the memory manager, the interrupt
controllers, the timers, the PCI tree with its disks, the files and the keyboard,
and ends in `init_terminal`, a loop that waits for command lines. There are no
threads: concurrency is between that main flow and the interrupt handlers, which
start with interrupts off, turn them on before they acknowledge, and may nest
from there on. The modules of this directory model the kernel from its entry to
the command line, with the firmware, the devices and the user around it.

- [Inventory](#inventory)
- [What is hard](#what-is-hard)
- [Modules and code](#modules-and-code)
- [Runs and bounds](#runs-and-bounds)
- [Fairness](#fairness)
- [Proofs](#proofs)
- [Where code and comments disagree](#where-code-and-comments-disagree)
- [Not modelled](#not-modelled)
- [Plan](#plan)

## Inventory

Paths are relative to `src/`.

| Part | State it keeps | Operations | Used by |
|---|---|---|---|
| Frame allocator, `mm/frame_alloc.c` | bitmap of free frames, pool of preallocated ones with a top index and a status, `last_index`, `last_free_frame` | `kalloc_pool`, `kalloc_frame`, `kfree_frame`, `kalloc_frames_array`, `kfree_frames_array`, `klock_frame`, `flush_frame_prealloc_pool` | memory manager, paging |
| Memory manager, `mm/memory_manager.c`, `mm/paging.c` | the virtual memory map (an object pool of descriptors), the page tables | `kalloc_page`, `kfree_page`, `kmap_page`, `order_map`, `compress_map`, `map_page` | heap, object pools, drivers |
| Heap, `mm/kmalloc.c` | the table of descriptors, an operation counter | `kmalloc`, `krealloc`, `kfree`, `__kheap_compress_map` | files, terminal, PCI tree, IDE |
| Object pools, `mm/obj_alloc.c` | up to 64 pools, each an array with a type and two indices | `obj_pool_put`, `obj_pool_get`, `obj_pool_flush`, `obj_pool_change_type`, `obj_pool_pack` | heap, memory manager, files, disks |
| Files, `io/files.c` | for each descriptor a block of the heap and a count | `write`, `read` | terminal |
| Terminal, `tty/term.c` | `term_command`, `command_ready` | `init_terminal`, `term_control`, `term_putc` | keyboard |
| Screen, `tty/tty.c`, `tty/vsnprintf.c` | the cursor, the cells, the colours | `putchar`, `tty_backspace`, `vsnprintf` | everyone, from both flows |
| Keyboard, `io/keyboard.c`, `io/ps2_keyboard.c` | the modifiers, the prefix of a scan code, the last key | `ps2_in`, `keypressed`, `keyboard_control`, `keyboard_wait` | irq 1 |
| Interrupts, `int/*.c` | the IDT, a hook table per vector, the redirections of the I/O APICs, the local APIC | `int_hook`, `int_unhook`, `int_exec_hooks`, `apic_irq`, `apic_set_mask`, `send_eoi` | keyboard, timers, sleep |
| Timers and sleep, `io/pit.c`, `sleep.c`, `int/apic.c`, `io/rtc.c` | flags of waits in progress, the calibration | `sleep`, `apic_sleep`, `apic_timer_init` | drivers |
| PCI, `io/pcie.c`, `io/pci_tree.c`, `io/pci.c`, `io/devs.c` | the tree of buses and devices | the scan, lookup, installation, choice of a driver | disks |
| Disks, `drv/ide`, `drv/ahci` | the drives found, the blocks of the buses, the selected drive, command slots | search, identify, read, write, `ahci_command` | the scan of PCI; nothing reads or writes yet |
| ACPI, `acpi/acpi_parser.c` | the tables found | search by signature and checksum, walk over the MADT | APIC, PCI |
| Boot, `leokernel.c`, `mm/segmentation.c`, `int/int.c` | how far `kmain` is, the GDT, the gates of the IDT, the interrupt flag | `kmain` call by call | the boot loader |

How they interact: the memory manager asks the frame allocator for frames, keeps
its map in an object pool and writes page tables; the heap takes pages once and
keeps its table in another pool; files take blocks of the heap; the keyboard
interrupt writes to the file the terminal loop reads and raises a flag it spins
on; a wait spins on a flag that a hook clears, which a handler runs, which a line
of an I/O APIC and a vector of the local APIC lead to; the scan of PCI buses
builds a tree of heap blocks and calls the drivers, which take more blocks of the
heap and talk to drives through registers; the screen is written by the main flow
and by the echo of keys; and until `kmain` has masked the lines the firmware left
open, any of its calls may be interrupted by them.

What makes each part correct:

- **Frames.** A frame has one holder; searches skip no free frame; failures lose
  no frame and leave the allocator able to search everything; requests end.
- **Virtual memory.** The map describes each page once and is sorted between
  calls; an area is backed by frames of its own; freeing it returns those.
- **Heap.** The descriptors partition the heap; a client sees an abstract set of
  blocks that do not move; every call returns.
- **Pools.** A stack is a stack and a queue is a queue, bounded; packing keeps
  the objects and their order.
- **Terminal.** A line that was entered is printed as typed, unless it raced with
  another; the file holds the line on the screen; its count fits its block, unless a
  refused `krealloc` took the block away.
- **Interrupts.** A wait ends, and only after the interrupts it waits for; it
  leaves no hook and no running timer behind.
- **PCI.** The tree is that of the machine; the bus being scanned is found in it;
  a failure stops one bus and no other; the scan ends.
- **Screen and keyboard.** The screen shows what both flows printed, a character on a
  cell; what is echoed is what the user meant; numbers are printed as they are, in
  buffers of any size.
- **Disks.** The drives registered are those that answered, with their buses; a request
  that succeeds moved every word once and in order, from the place the registers name;
  requests end; a command given to an adapter runs once.
- **Boot.** What is kept of the tables is what they say; no interrupt of the firmware
  comes through in the end, and none is fatal where the code can help it; `kmain`
  reaches the terminal or stops.

## What is hard

*Long sequences of calls.* Indices that survive from one call to the next carry
the frame allocator (`last_index`, a byte number read as a frame number), the
table of the heap (a compression that edits the array it walks over), the map of
the memory manager (a descriptor used through a pointer while entries are put,
removed and sorted) and the pools (a type that changes under its indices).

*Interrupts.* The keyboard interrupt shares a buffer, a flag and a file with the
terminal loop, and its echo the screen, without a lock. Waits raise a flag, hook a
vector, unmask a line and start a timer in separate steps, and an interrupt may come
between any two.

*Partial failure.* Array requests, page allocations and the scan of buses fail in
the middle of loops; some undo what they did, some leave it, some go on.

*Devices.* A drive is busy, absent, fails in the middle of a transfer, or takes no
notice of registers written too early, and has registers narrower than what is written
to them; an adapter takes commands out of slots while
the driver fills them; the tables of the firmware come in any order and size.

*Limits.* The pool of frames, the table of the heap, the object pools and the
hook tables all have a size that is compared with an index.

`PROJECT.json` lists the hazards with the line of each, the properties that
cover it, or the reason why none does.

## Modules and code

Names of the code are kept: an action has the name of the function it is, or of
the function with a suffix for the part of it. Loops whose iterations matter are
taken one per step; the rest of a function that nothing can interrupt is one
action. `PROJECT.json` maps each definition to its lines.

### FrameAlloc

`mm/frame_alloc.c`. Frames are numbers, the bitmap is the set of those whose bit
is 1. `kalloc_pool` scans bit by bit (`kalloc_pool_skip`, `kalloc_pool_take`,
`kalloc_pool_end`); `kalloc_frame` is `kalloc_frame_refill` and
`kalloc_frame_pop`; `kalloc_frames_array` calls it until it has enough or undoes
(`kalloc_frames_array_undo`, which forgets the last frame it obtained). `kfree_all`
is the loop over `kfree_frame`. `klock_frame` and `flush_frame_prealloc_pool`,
which nothing calls, are actions too, under `Unused`.

`regular` is a history variable: every search so far began at the first frame of
a byte, and no unused operation ran. It is what the single-holder properties need,
because `kfree_frame` leaves a byte number in `last_index` that `kalloc_pool`
reads as a frame number; the run `frame_double` shows what happens otherwise.

### HeapSpec and KHeap

`mm/kmalloc.c`. `HeapSpec` is what a heap promises: a set of disjoint blocks that
are allocated and freed whole. `KHeap` has the table as a sequence of descriptors.
A call goes through `kmalloc_enter`, `kmalloc_fit`, a compression when the counter
says so (`compress_step` per round of its loop, `compress_end`), and
`kmalloc_reply`, or through a retry after a compression to `kmalloc_null`.
`krealloc` is the call that frees a block and enters `kmalloc` with the size of the
old one kept. `Blocks`, the allocated descriptors, is the refinement mapping.

### PoolSpec and ObjPool

`mm/obj_alloc.c`, one pool. `PoolSpec` is a bounded stack or queue. `ObjPool` has
the memory, the two indices as counts, and each operation by type of pool;
`obj_pool_pack` moves an object per step. `proper` is a history variable: the
client never took more than it put and did not change or pack the pool under its
own contents; from there on the abstract pool is empty.

### Terminal

`tty/term.c` and `io/files.c`. The loop of `init_terminal` is one action per
statement that touches shared state; the keyboard interrupt (`term_putc`,
`term_backspace`, `term_line_feed`) comes between any two of them and is one step,
since all of it runs before the handler turns interrupts on. `stdin` is a block
and a count: `write` reallocates and appends, `read` takes from the front of the
block and lowers the count, leaving the block as long as it was. `krealloc` may refuse,
which leaves the count without a block (`io/files.c:63`), and so may the `kmalloc` of the
buffer, which nothing checks (`tty/term.c:24`): `NoCommand`. A write after a read may
take a smaller block than the one before, and `krealloc` then copies the old size into it
(`mm/kmalloc.c:125`): what is overwritten lies behind the block and is not in this module.

### MemMap

`mm/memory_manager.c` and `mm/paging.c`. The map is the pool, slot by slot, with
`mmap_last_ind`. `kalloc_page` finds a descriptor, obtains frames, and goes page
by page: `kalloc_page_split` ends a run of adjacent frames and puts its
descriptor, `kalloc_page_map` and `kalloc_page_unmapped` are `map_page` with its
outcomes, `kalloc_page_end` edits the descriptor the area came from and removes
the empty ones; then `order_map` sorts. A request for several frames, and the frames of
tables, may be refused with frames free, as `kalloc_frame` answers null once
(`mm/frame_alloc.c:103`). `kfree_page` follows the chain of an area,
and `compress_map` merges. `map_page` takes frames for the tables a region lacks;
the recursive translation it relies on may be astray (`MapsAstray`). The code does not
clear a frame it takes for a table (`mm/paging.c:27`); what its other entries say is not
in the model, which takes those pages as not mapped.

`regular` is false once a call met a case the code does not handle: a third run of
frames in one area, a failed put or mapping, an unmapped table page, or
`kmap_page`, which nothing calls. The comment at `Reachable` in the module lists
what it asks of a call.

### Interrupts

`int/apic.c`, `int/int.c`, `int/isr.c`, `sleep.c`, `io/pit.c`, `io/keyboard.c`.
An edge of a device at an I/O APIC becomes a requested vector if its entry is
unmasked; the local APIC delivers one when none is in service. A handler is a
frame on a stack: it runs the hooks, enables interrupts, acknowledges as often as
`send_eoi` writes, and returns. The main flow calibrates the timer of the local
APIC against the PIT and then makes calls of `sleep`, `apic_sleep` and
`keyboard_wait`, each an action per step between which an interrupt can come.
`owed` counts the interrupts a wait has still to see; `expired` says that the
timer ran out since its count was set.

### Pci

`io/pcie.c`, `io/pci_tree.c`, `io/pci.c`, `io/devs.c`. The recursion of
`pcie_scan_bus` is a stack of frames with the device and the function each is at;
a step is a round of `pcie_scan_device`. The nodes of the tree are numbered in the
order of their allocation, and keep their lists of devices and bridges in order.
`pci_tree_get_bus_by_id` is the descent from the root, as a recursive function.
Memory may run out at every node and a driver may refuse; the machine's
configuration space is chosen at the start.

### Format, Keyboard and Console

`tty/vsnprintf.c` is `Format`: pure functions, from a format, its arguments and the
size of a buffer to a text. `num_fmt` builds the digits, the padding and the sign;
`Converted` is the switch on the conversion, with the extension of an `int`;
`vsnprintf` takes away from the size what conversions put, and not what the format
itself puts. `io/ps2_keyboard.c` and `io/keyboard.c` are `Keyboard`: a scan code with
its prefix becomes a code (`ps2_in`), which changes the modifiers
(`keyboard_control`) or is a character under them (`term_putc`).

`Console` puts both under the two flows. The loop of `init_terminal` prints
character by character, and `putchar` is cut where an echo can tell: the test of the
column, the first column, the next row, the character, the step of the column
(`put_test`, `put_first`, `put_row`, `put_plot`, `put_step`).
`irq1` takes a byte of the queue of the keyboard and does all that follows. The user
presses, repeats and releases keys. History variables hold what was to be seen:
`page`, the text printed since the page began; `wanted`, what the keys down at each
press meant; `torn`, that an echo came inside a character; `confused`, that both shift
keys were down, for which the code keeps one flag.

### Ide, Ahci and Disks

`Ide` is `drv/ide`. A bus is its registers, each with the two values written last, and
the two drives on it, external, which answer in their own time (`DriveStep`): busy,
ready, data, error. `ide_write_reg` is an `outw` (`drv/ide/ide.c:9`) to registers that are
a byte wide and follow one another, so that every write also writes the next register,
with 0 but for a count of more than a byte: a write to `LBA_HI` puts 0 into `DRIVE_HEAD`
(`WriteRegister`), and one to `DRIVE_HEAD` gives the command 0, which drives abort
(`WriteHead`). `outw` is taken as two byte writes in the order of the addresses, as a
16-bit write to an 8-bit port is done on the bus.

`ide_init` identifies each drive: `identify` selects it, `identify_clear` clears the
count and the address, register by register, `identify_command` gives the command. By
then `DRIVE_HEAD` is 0, so that the master answers, for the slave too; the slave answers
itself only if it was at work and took no notice. What is said is kept
(`identify_waits`, `identify_words`), the bus is reset to read the signature of the drive
(`ide_save_device_ide_type`), and a bus without drives is given back. The blocks of the
heap and the pointers to blocks given back are kept to see what is freed.

A request selects its drive (`request_selects`), writes `DRIVE_HEAD`
(`init_transaction_head`), then the other registers in turn (`ide_init_transaction`;
twice, the high part first, for 48 bits), gives the command (`ide_command`), polls, and
moves word by word; `moved` is the list of the places on a disk that words went to or
came from: the drive, whether it was addressed by LBA, the number the registers spell,
the sectors since, and the word. With a byte spilled from each register to the next,
these are the master's, by cylinder, head and sector, and the high bytes of the address
are lost: that is what `DrivesRegistered` and `WordsMoved` state. `deaf` remembers that
a drive was written to while it was busy: then nothing is said of its request, and the
bound of `ide_request` makes no further one.

A machine says whether bits 7 and 5 of `DRIVE_HEAD` read as ones (`ones`), which decides
whether the master counts as selected after the spill, and whether a bus without drives
reads as 0 or floats at all ones (`floats`).

`Ahci` is `drv/ahci`. The ports are registered one by one; `ahci_command` finds a slot,
reads the issue register, writes it with the slot added, and copies the header, in
steps between which the adapter may fetch a slot (`Fetch`) or be done with one (`Done`).
`Disks` is `devs_config_mass_storage`, which hands a controller to one of them.

### Boot

`leokernel.c` call by call, with `init_tty`'s font, `setup_gdt`, `setup_interrupts`, the
search for ACPI tables, the walk over the MADT entry by entry, and `init_apic`:
the PIC off, the lines of the I/O APICs cleared, the local interrupts set. The address of
the local APIC can come from the MSR, and then with the flags in its low bits
(`lapic_flags`): what `lapic_set_lvt_entry` writes behind it are not the registers of the
local APIC, and its timer stays as the firmware left it. A physical
page the firmware does not map where it should, or not at all, is in `fw.pages`.
At every step an open line can interrupt (`Interrupt`): before the GDT is loaded the
firmware's handlers return, after it the gates are the kernel's, and what happens
follows from the gates set (`Raised`). The parts with modules of their own succeed or
fail here.

## Runs and bounds

| Run | Asks | Bounds |
|---|---|---|
| `frame` | Has a frame one holder, is every free frame found, are failures undone, does every request end? | 6 frames, 2 bits in a byte, a pool of 2, requests of up to 3 |
| `frame_double` | Does that hold whatever the search starts from? (violated) | the same |
| `heap` | Do the descriptors partition the heap and implement `HeapSpec`, and do calls return? | 6 bytes, 5 descriptors, a compression every 4 operations, a counter modulo 6 |
| `pool` | Are stacks and queues those of `PoolSpec`, and does packing keep objects? | 4 slots, 2 objects |
| `terminal` | Is a line printed as typed, and which are lost; does the count of the file fit its block? | commands of 3 bytes, lines of 2, 2 pending lines |
| `memmap` | Is the map exact, are areas backed, does freeing return them? | 7 pages and frames, 6 descriptors, areas of up to 3 pages |
| `interrupts` | Do waits end when they should, and leave nothing behind? | 3 machines, 2 hooks, 2 acknowledgements, 2 calls of up to 2 ms, 2 nested handlers |
| `apic_period` | Is each millisecond of `apic_sleep` a full one? (violated) | one machine |
| `pci` | Is the tree that of the machine, does a failure stay in its bus, does the scan end? | 3 machines, 2 devices a bus, 3 functions a device |
| `console` | Does the screen show what was printed and typed, are keys and numbers what they mean, does the cursor come back from beyond a row? | a grid of 2 by 1, 6 sets of 2 or 3 keys, 2 bytes queued, an `int` of 4 bits and a `long` of 8 |
| `disks` | Which drives are registered, and is their memory held; which words do requests move, and do they end; do commands run once? | 5 controllers, a byte of 2 values, sectors of 2 words, a pool of 2, 9 requests; an adapter of 3 ports, 3 slots and 3 commands |
| `boot` | Is what is kept of the tables right, are lines masked, are faults reported, does `kmain` end? | 48 firmwares, 6 lines, 2 processors |

Why these are enough:

- *frame*: three bytes of two bits let a search start, wrap to the next byte and
  fail; a pool of 2 is filled in full, in part and not at all; a request of 3 needs
  a refill in its middle and is undone after one or two frames.
- *heap*: with 6 bytes and 5 descriptors every split, exact fit, merge of two and of
  three, a full table and a retry occur; the counter goes past the limit of
  operations, and wraps.
- *pool*: 4 slots let a queue run to the end of its memory, shift, and be packed
  with gaps of two slots.
- *terminal*: a command of 3 bytes and lines of 2 leave room for the zero byte; two
  pending lines are what it takes to lose one. Longer lines than a command are
  outside the bound: the code takes their first bytes and goes on counting the rest.
- *memmap*: areas of one, two and three runs of frames, descriptors split in front
  and removed, and a free that merges on both sides. The constraint `RegularCalls`
  ends behaviours that stopped being regular, where the properties say nothing.
  TLC reaches 682,783 states.
- *interrupts*: an I/O APIC with the line of the PIT in it, one where it is the last
  line, and a second I/O APIC; two milliseconds distinguish the first round of a wait
  from the next; handlers nest once, since an interrupt is delivered only after
  an acknowledgement. `Eois` is 2 for the ten writes of the code: one more than
  needed, so that an acknowledgement hits an interrupt that is not its own.
- *pci*: a chain of bridges and sibling bridges in the order of the scan, siblings out
  of order, two segments; a multifunction device with a bridge in its middle, an
  unsupported header, each class of disk; failures at every node.
- *console*: the prompt and one character fill a row of 2, and the row after the last
  one is reached, so that rows, pages and a backspace over the start of a row occur;
  the sets of keys have each modifier and each control key; 2 bytes are a code with its
  prefix or two codes on top of each other. All numbers of both widths are formatted,
  in each base and with widths of 0 to 3, and a format with literal characters, a string
  and a number into buffers of 1 to 5. TLC reaches 595,500 states.
- *disks*: the controllers have a master and a slave of different modes, a slave without
  a master, a master that is not ATA beside a slave, a bus that floats, and a mode that
  cannot be switched; bits that read as ones, and not. With a byte of 2 values an address
  takes every register and both halves of those of 48 bits, so that each byte that is
  lost would show; the requests for 3 sectors are more than a count of one byte holds,
  those for 41 run past a drive, and some are for no sectors or a drive that is not there;
  a third drive does not fit the pool; memory is refused at each block. A pool of 2 and 3
  ports let the search of `Ahci` end both ways, and with 3 commands on 2 usable slots one
  finds no slot. TLC reaches 818,660 states.
- *boot*: every type of entry of the MADT, twice where the last one counts, in two
  orders; a checksum that does not match, a table too short; two I/O APICs, one without
  line 0; a local APIC moved, unmapped or mapped elsewhere, or found in the MSR with its
  flags; each subset of four lines
  left open; more processors than the array holds.

Deadlock is checked in `frame`, `heap`, `pool`, `terminal` and the violations on
them. It is not in `memmap`, `interrupts`, `pci`, `console`, `disks` and `boot`, which
stop when their bounds are spent, when the scan or the boot is over, at an assertion,
or where the driver waits for a drive that will not answer.

The type invariant of a module is a conjunct of one of the invariants its run checks
(`Partition`, `CountFitsBlock`, `EachPageOnce`, `WaitsAreServed`, `TreeIsTheTopology`,
`ScreenShowsTheText`, `DrivesRegistered`, `FaultsAreReported`), stands by itself in
`pool`, and is proved for `FrameAlloc`.

Each property of a passing run has a mutant in `PROJECT.json`: a variant of one
definition, beside it in the module and named with a suffix, that makes TLC find
the property violated.

## Fairness

Nothing in the kernel suspends the main flow but an interrupt, so a call that has
begun goes on: `WF` of the steps of calls in `FrameAlloc`, `KHeap`, `ObjPool` and
`Pci`, where no interrupt matters, and of the loop in `Terminal`, where handlers
are single steps and cannot disable it for good. Starting a call is never fair.

`Console` has `WF` of the loop: an echo changes the screen and not where the loop is, so
that the next step of the loop stays possible. The user owes nothing. `Disks` has `WF`
of the driver, which polls, and of the drives: a drive that is busy gets on in the end,
with its command or with an error. That a request may still not end is in the property
(`Fits`): a drive written to while it was busy, a count beyond the register, an error in
the middle of a write, and a bus without a master, where the command goes to nobody. A
bus without drives that floats at all ones looks busy, and the wait of
`drv/ide/ide.c:22` does not end: `AllOnes` excludes such machines. `Boot` has `WF` of
`kmain`; interrupts are not fair, and one that is taken stops the kernel or returns.

In `Interrupts` handlers run to their end (`WF(Handlers)`), the timers tick and the
user presses keys (`WF` of the edges). The main flow runs between handlers: it has
strong fairness, since interrupts disable it again and again, and `SleepsReturn`
assumes with `[]<>Free` that interrupts leave it the processor again and again. It
is stated for machines whose PIT was found, which calibrates the other timer.

## Proofs

Nine parts of the kernel have theorems, checked by TLAPS for all values of the
constants that meet the named assumptions of the modules. Each rests on an inductive
invariant, proved with a lemma per action.

| Module | Theorem | Says | Beyond the assumptions of the module |
|---|---|---|---|
| `FrameAllocProofs` | `PoolSafe` | the types hold and the pool never holds a frame twice | |
| | `NeverAllocatedTwice` | in a regular behaviour a frame has one holder | |
| | `ScanIsExhaustive` | in a regular behaviour no search skips a free frame | |
| | `RewindAfterFailure` | a failed request rewinds the hint, and a search from frame 0 that fails leaves no free frame | |
| | `FramesLostByFailuresOnly` | in a regular behaviour only a failed array request loses a frame, the last it had obtained | |
| `KHeapProofs` | `HeapIsPartitioned` | the descriptors partition the heap | |
| | `AnswersAreBlocks` | a pointer answered is the start of a block that is long enough | |
| | `HeapRefines` | `Spec` implements `HeapSpec` | |
| `ObjPoolProofs` | `IndicesStayInside` | no index leaves the memory of the pool | |
| | `PoolRefines` | a pool used as its type says implements `PoolSpec` | |
| | `PackingKeepsOrder` | a step of `obj_pool_pack` keeps the objects and their order, and it ends without gaps | |
| `TerminalProofs` | `CountAlwaysFits` | the count of a file fits its block, or a refused write left it without one | |
| | `StdinHoldsTheLine` | the file holds the line on the screen | `MaxLine <= CommandLength` |
| | `LinesLostOnlyWhenRushed` | a line is lost only to another, or to a refusal of memory, the buffer's included | `MaxLine <= CommandLength` |
| `MemMapProofs` | `PagesAreDescribedOnce` | in a regular state each page is described once, in the middle of every loop too | |
| | `AreasStayBacked` | in a regular state the frames of an area are its own | |
| | `FreeReturnsItsFrames` | freeing an area gives back its frames and no other | |
| `InterruptsProofs` | `CallsWaitTheirTime` | a wait ends after all the interrupts it waits for | |
| | `CallsLeaveQuiet` | between calls no hook is set and no timer runs | an I/O APIC starts at line 0 or behind the PIT's |
| `DisksProofs` | `SlotsRunOnce` | a command given to an adapter runs once, but for two races | |
| | `SearchFindsTheDrives` | the drives registered are those that answered, in order; a slave where the master answered for it | |
| | `BlocksFollowTheDrives` | after the search a bus has its blocks if it has a drive | |
| | `WordsGoToTheMaster` | a request answered with true has moved every word once and in order, but words of the master, from the place that the low three bytes of the address spell; but for a deaf drive or a failed write | |
| `StartProofs` | `FaultsReported` | what may reset the processor before `kmain` can report it | |
| | `LinesAreMasked` | which lines the firmware opened are still open at the end, and when its timer is | `Apart`: no two I/O APICs share a line |
| | `TreeHasTheTopology` | the PCI tree is that of the machine | `Numbered`: every bus has a number of its own |
| | `DriversAreRunOnce` | a function is given to its driver once, before it is in the tree | `Numbered` |
| | `NoFunctionIsMissed` | a bus that was not given up is in the tree with every function on it, and the bus being scanned is found on a machine numbered in order | `Numbered` |

The conditions of the last column are about the world around the code. A line longer
than a command makes the code take its first bytes and go on counting the rest. With an
I/O APIC that starts in front of the PIT's line but not at 0, the register that `sleep`
masks is not the one of its line (`int/apic.c:217`). `Apart` and `Numbered` are what
firmware owes; `MCBoot` and `MCPci` assert them of their machines, and TLC evaluates that.

### FrameAlloc

The constants are positive (`GeometryAssumption`), and the boot loader gives disjoint
sets of frames without frame 0, the null pointer (`BootAssumption`).

1. `PoolInv`: types, plus what relates calls and pool. That the pool holds no frame
   twice is not inductive: a search may only add frames it has not added. `ScanOrder`
   supplies that: frames go into the pool in increasing order and all lie below the
   place of the search. `Discipline` says that a search begins with an empty pool, so
   that older entries cannot get in the way.
2. `HolderInv`: one holder. A take clears the bit the search read and stores the
   frame the loop counts; these agree only if the search is at the first frame of a
   byte (`Aligned`), which holds as long as `last_index` is (`HintAligned`). That the
   frames handed out are never null needs `AllUsable`. The fact about `%` and `\div`
   behind it is `ScannedBitIsFrame`.
3. `ScanInv`: the frames between the start of the search and its place are taken.
4. `RegularInv`: the two above under `regular`, so that the theorems hold of `Spec`,
   whose behaviours may stop being regular.
5. `RewindInv`: a search from frame 0 is aligned whatever happened before, hence exact;
   this one needs no condition.
6. `FramesLostByFailuresOnly` is a step property that follows from `HolderInv`: every
   step but the clean-up keeps the union of bitmap, pool, array and owned frames
   (`AllHeld`), since a taken frame is one the bitmap had and a popped or freed one has
   a single holder; the clean-up drops the array and sets all its bits but the last.

### KHeap

`Partition` counts the descriptors of a byte. `Good` says the same without counting:
two descriptors are apart, and every byte is in one. It is kept by the four things that
happen to a table: one descriptor is split, one changes its state, two neighbours are
merged, two are swapped. `RoomForOne` is what a search knows of the table when it begins,
and `SortedSoFar` is why the neighbour that `compress_step` merges is the one that
follows in memory. For the refinement each step is shown to leave the set of allocated
blocks alone, or to add or remove one; a split and a merge concern free blocks only.

### ObjPool

A queue that reaches the end of its memory is shifted to the front: as contents, nothing
changes (`Shifted`). A pool whose client got more than it put, or that was packed or
changed under its contents, has left `proper`, and is the empty pool of `PoolSpec` from
there on; `ProperInv` is what a proper pool looks like. `OrderKept`, which is proved, is
the property `PackKeepsOrder` of the run said with a mapping of the slots in place of
`SelectSeq`, which the provers cannot expand.

### Terminal

The interrupt may come between any two steps of the loop. `CountInv` is inductive by
itself: `read` lowers the count and leaves the block, a `write` served makes a block for
the whole count, and one that is refused takes the block away and is remembered. The
other two need to say at each place of the loop where the line in hand is: `HandInv`
follows it from the interrupt that completes it, through the file and `term_command`, to
the `printf`.

### MemMap

`MemMapAssumption` says what the boot loader gives: a map in order, whose parts are not
empty, do not overlap and fit the pool, and which has at least as many places as the pool
has slots. The last is how `init_mm` takes the map: it gives back the frames that the map
fills (`mm/memory_manager.c:56`), whole ones, hence at least one, and the pool is one
frame. With a shorter map the descriptor in its last place would be cleared where it is
(line 128) and leave a gap in front of those behind it.

1. `MapInv` is about the map. A `Table` has its descriptors in use in front and apart from
   one another; it stays one under the things that happen to it: a put behind the last,
   a page taken from the front of a descriptor, one or several descriptors removed, two
   swapped, some relabelled. That it covers every page is not inductive in the middle of
   `kalloc_page`, where pages are in no slot: `Building` says that they are in the
   descriptor being built, which ends where the one it takes them from begins.
   `SortedTo` is how far the sort has come; the compression needs it to know that the
   sum of the pages it merges ends where the last of them does (`PagesFromEnds`).
2. `AreaInv` is about the frames. `Described`: an area is one descriptor, or one with a
   mark and one that continues it, and the page tables map their pages to their frames.
   `FramesInv` is the same for the area being built, frame by frame: those obtained are
   nobody else's, those of the pages done are mapped. An area is a caller's when the sort
   ends, but described when it begins, hence `Areas`. That the tables `map_page` makes
   come from the free frames, and that free frames and tables are apart, keeps its writes
   away from every area.
3. `ChainIsTheArea`: with the map sorted, the walk of `kfree_page` from the first
   descriptor of an area meets its descriptors and no other.

Both hold while `regular` does, so that the theorems are about `Spec`, whose calls may
stop being regular; that they cover the bounds the run does not reach (an area in two
runs anywhere in a map of any size) is what they add to it.

### Interrupts

`WaitsAreServed` needs at every place of a call a bound on the interrupts still owed: as
many as milliseconds are left, and one more while a flag is up (`OwedInv`), and which
call can have raised a flag (`FlagsInv`). `QuietBetweenCalls` needs the slot of the one
hook there can be (`HookInv`), the places at which the local timer may be unmasked
(`MaskInv`), and the registers of every I/O APIC (`RegistersInv`). `FrameInv` is about
nested handlers: only the innermost one can still owe its acknowledgement.

### Disks

A command is in one slot from the step that issues it until it runs, and in none
afterwards (`CountedInv`); the slot being filled is set apart (`Filling`), and all of it
holds as long as neither race has happened, a slot announced too early or issued again.
In the search of IDE, `AskedInv` says which drive has `DRIVE_HEAD` when the command is
given: the master, unless a slave that is there took no notice of the registers; for
that `HwInv` keeps a drive that was not asked from having data. `AnsweredInv` ties the
drives that answered to the places looked at, in their order; `PoolInv` ties the records
to those drives, up to the size of the pool; `FoundInv` and `BlocksInv` tie the blocks
of the heap to the records.

For the words of a request (`WordsGoToTheMaster`) the invariant is `WordsInv`: a drive
was deaf once, or `Sound` holds, in three parts and the property itself.

1. `HardwareInv`, about both buses at every step: only the drive selected is at work
   (`OneAtWork`), and a bus nobody waits for asks for no data and can fail no command
   (`Still`). Without it a transfer left over from an earlier request could go on under
   the next one. It is why a failed read may return at once, and why the last flush
   finds a drive that has asked for all it will ask for.
2. `RequestInv`: what the request is at each place of it, and how many words it moved.
3. `TransferInv`, before the command: `SoFar` says which registers hold what after so
   many writes, each having put 0 into the one behind it, and that `DRIVE_HEAD` is 0 in
   the end. `RegistersSpell` gets from it what the command reads: the low three bytes of
   the address, which are what is left of it by the weight of the fourth
   (`LowBytesSpell`), and a count between 1 and the sectors asked for. The count may be
   cut by its register; then the request does not end, and moves nothing wrong. After
   the command, `Transferring`: a drive at work has got to sector `s` of the request,
   and the words moved are those of `s` whole sectors and the first ones of that sector
   (`Progress`); an error it shows was recorded in `failed`; and each word moved is
   `WordAt` its place. `WordsOfSectors` and `WordMoved` carry that over a word, a sector
   and the end.

### Boot

`StopInv` says where the kernel may have stopped and by what; a fault is reported once
`setup_interrupts` has set its gate (`GatesInv`). `ApicsInv` says that an I/O APIC kept
is one the MADT names, and `MaskInv` which lines are closed at each step of `init_apic`:
a line is masked by the I/O APIC that has it, which is one only if they are `Apart`.
`TimerInv` says that the timer is masked once it is written, or the address has flags.

### Pci

That nothing is linked twice and no driver called twice is not about the tree but about
the scan. `ScanOnce`: the buses of the calls in progress differ, a bus being scanned was
not scanned before, and what was met on it lies before the place it is at. A bridge leads
to a bus that was not scanned (`FreshBus`), since the numbers of the firmware differ; if
they did not, the code would scan a bus twice. `Tree` adds that a bridge leads to a node
made later than its own, which is what bounds the descent: `LookupFindsTheBus` shows with
it that the descent of `pci_tree_get_bus_by_id`, a recursive function over the number of
rounds, is past round `k` at a node beyond `k` or at the bus looked up.

That nothing is missed (`NoFunctionIsMissed`) has two halves. `Complete`: a function to
be seen, of a bus whose scan has begun and was not given up, is in the tree or lies
behind the place of a call in progress (`Waiting`). A step moves one place, and
`PassedInPlace` shows that it passes the function it dealt with and no other that is to
be seen; the call that a bridge adds begins at the first function of its bus.
`Ordered`, on a machine numbered in order: the bridges of a node are in the order of the
scan (`Sorted`), and every call in progress has a node that a walk from the root meets
(`HasNode`). Then the descent succeeds (`LookupSucceeds`): the number of a node is in the
range of each bridge on its way (`WayInRange`), below those of the bridges before it on
the same node, and so each round stays on the way (`RoundOnTheWay`).

`NoneMissed` speaks of the buses of `Scanned`, by segment and number. Stated by the
number of a linked node alone it would be false of two segments that use a number twice,
and `InOrder` needs that a bridge has the bus behind it among its own: without that a
machine whose bridges claim no bus at all would be in order, and end in the assertion.

### What is only checked by TLC

- Liveness: fairness and `ENABLED` are out of the prover's reach.
- `TablesRead` of `Boot`, which defines what is kept by `SelectSeq` and by a walk over
  entries of any length: induction over data.
- All of `Console`: what the recursive functions of `Format` and `Keyboard` compute for
  every input is induction over data too.

## Where code and comments disagree

With a run:

- `frame_double`: a search that starts inside a byte clears the bit of one frame and
  hands out another (`mm/frame_alloc.c:159`, against lines 4-5).
- `apic_period`: a millisecond may end at once (`int/apic.c:414`, against line 369).

Met while modelling, and part of the models, without a run of their own:

- A missed merge leaves adjacent free parts, and a request they would serve is
  refused (`mm/kmalloc.c:185`, against lines 60-64).
- `krealloc` copies the old size into a smaller block (`mm/kmalloc.c:125`, against
  line 108).
- The third descriptor of an area has the wrong address
  (`mm/memory_manager.c:110`, against `mm/include/memory_manager.h:22`): `MemMap` calls
  such an allocation not regular.
- `kalloc_frame` answers null once although it refilled the pool
  (`mm/frame_alloc.c:103`), and the undo of an array request loses the last frame
  obtained (line 169): `OnlyFailedArraysLose` bounds it by one.
- The mask of `klock_frame` is not that of the bit (`mm/frame_alloc.c:199`).
- A queue that is empty but not at the end of its memory still gives an object
  (`mm/obj_alloc.c:152`); a change of a manual pool to a queue clears its memory
  (line 187), where the comment of line 179 has it compact the objects.
- A bridge is followed from the number of its primary side on
  (`io/pci_tree.c:47`): siblings numbered out of order end in the assertion of
  `io/pcie.c:62`, which `NoneMissed` excludes for machines numbered in order.
- Functions after a gap are not scanned (`io/pcie.c:57`), and `pcie_iterate_mcfg` ends
  without a return (line 38).
- The register of a second I/O APIC is taken from the number of the line
  (`int/apic.c:217`), and the last line of one is never found (line 138).
- `memory_length` leaves holes out, so that areas above it cannot be freed
  (`mm/memory_manager.c:144`); `kmap_page` describes a page twice (line 282).

- The characters a format itself has do not count against the buffer, and dots follow
  a text that just fits (`tty/vsnprintf.c:56`).
- A key echoed in the middle of `putchar` overwrites or is overwritten
  (`tty/tty.c:179`): `torn`. `tty_load_font` has no return and its result is tested
  the wrong way round; a font that is not known leaves cells of size 0 to divide by.
- Releasing one of two shift keys releases both (`io/keyboard.c:84`): `confused`. The
  codes of the keypad are looked up at the start of the table
  (`io/ps2_keyboard.c:39`).
- A drive that is selected already is not waited for, so that registers may be written
  while it is busy (`drv/ide/ide.c:18`): `deaf`.
- Registers are written with `outw` (`drv/ide/ide.c:9-11`), and each write spills into
  the next one. "Returns true if the drive is present", says `ide_identify`
  (`drv/ide/ide_setup.c:132`), but for a slave it is the master that answers, so that an
  absent slave beside a master is registered and one without a master is not; a request
  moves words of the master, not of its drive, and of the place that the low three bytes
  of its address are as a cylinder, head and sector, not the address that the lines of
  `drv/ide/ide.c:83-110` spell. `DrivesRegistered` and `WordsMoved` say so.
- A bus without drives that reads as all ones is waited for for ever
  (`drv/ide/ide.c:22`): `AllOnes`.
- What a slave says when identified is dropped, and its record has the contents of a
  variable that was never set (`drv/ide/ide_setup.c:117`).
- When memory is refused, `ide_init` frees pointers it never set
  (`drv/ide/ide_setup.c:47-51`): `misfreed`.
- An error in the middle of a write leaves the driver polling for ever, and so does a
  count that does not fit the register of the mode.
- `ahci_cl_get_slot` sets a bit with `|=`, which issues again a slot the adapter is done
  with in between (`drv/ahci/ahci.c:39`): `again`; the header is copied after that:
  `early`. The number of slots is one less than there are
  (`drv/ahci/ahci.c:35`, with `drv/ahci/include/ahci.h:153`), and every implemented
  port is registered, whatever is attached to it.
- `setup_gdt` turns interrupts on before there is an IDT (`mm/segmentation.c:20`), and
  gates after a hole in the table are never set, so that the handlers irq14 and irq15
  are not reached (`int/int.c:47`).
- The local interrupts are set fixed and not as NMI (`int/apic.c:297`, against lines
  74-75); an eighth of the bitmap is cleared (line 83); the last line of an I/O APIC,
  and all lines of one that does not start at line 0, are left as they were (line 118);
  the I/O APIC is read before its address is checked (line 345); the flags of the MSR
  are kept in its address (line 56): `lapic_flags`.
- When `krealloc` refuses, `write` leaves a count without a block, and a read copies from
  address 0 (`io/files.c:63`): `CountFitsBlock` names that case.
- An entry of the MADT of length 0 keeps `acpi_parse_madt` where it is
  (`acpi/acpi_parser.c:102`): `Endless`.

## Not modelled

- Utilities: memory, strings, arithmetic and digests, pure functions whose results the
  models use.
- `panic`, `assert` and port access: the end of the run, or single instructions.
- The real time clock, which nothing calls; its loop compares two readings of registers
  (`io/rtc.c:38-51`) and keeps no state.
- Pixels and colours; the table of shifted codes in `io/keymappings.c`, which nothing reads.
- DMA: `ide_init` allocates its tables, which is modelled, and nothing uses them.
- What fills an AHCI command, and what reads a disk: the code has no such caller.
- The composition of `Disks` with `Pci`: the drivers are one answer there, of either kind.
- The heap and the terminal together: an interrupt that enters `kmalloc` while the main
  flow is in it would see a table in the middle of an edit. `KHeap` has one caller.

## Plan

Done, in this order, the most important first: `FrameAlloc` with its proofs, `KHeap`
under `HeapSpec`, `ObjPool` under `PoolSpec`, `Terminal`, `MemMap`, `Interrupts`, `Pci`,
`Console` with `Format` and `Keyboard`, `Disks` with `Ide` and `Ahci`, `Boot`.

Of the theorems planned none is left that the prover can reach: the properties without
one are those listed under "What is only checked by TLC".
