# Verification of the REXUS kernel

TLA+ models of the REXUS kernel, the TLC runs that check them on small
instances, and proofs, checked by TLAPS, of what holds for every instance. The
models are written from the C source; every definition that models code names
its lines in `PROJECT.json` ("map").

## 1. The system

REXUS is a small kernel: one CPU, no locks, interrupts as the only concurrency.
Components call one another directly; what they share is global state.

| Component | State | Operations | Talks to |
|---|---|---|---|
| `mem/pmm.c` physical memory | bitmap, block and used-block counts | `pmm_init`, alloc and free of one block and of a run | everybody allocates from it |
| `mem/vmm.c` paging | page directories and tables, current directory | create, map, unmap, switch, clone, free | PMM; the scheduler switches directories |
| `proc/process.c` processes | list of control blocks, current process, clock | create, exit, sleep, block, unblock, terminate, yield, tick | PMM, VMM, timer interrupt |
| `arch/x86` interrupts | handler table, IDT, PIC masks | register, dispatch, end of interrupt | all drivers |
| `drivers/keyboard.c` | modifiers, key ring, callback | scancode interrupt, read a key | console by callback |
| `drivers/console.c` | input line, history, command table | keyboard callback, `console_update`, `console_read_line` | keyboard, screen, commands |
| `drivers/can.c` | two rings, filters, controller | send, receive, filters, modes, three interrupts | callback to the user |
| `drivers/e1000.c` | descriptor rings shared with the device | init, start, stop, send, receive, interrupt | `net/net.c` |
| `net/` | interfaces, packets, routes, reassembly buffers, sockets, connections | per protocol: send, receive, open, close | e1000 below, PMM for every packet |
| `core/`, HAL, VGA, C++ runtime | little or none | start-up, register access, output | - |

What is hard here:

* **interrupt against thread.** No ring, list or buffer is protected; each relies
  on who writes which index, and on the order of the writes;
* **the scheduler works on itself.** The scan for the next process wakes sleepers
  and frees control blocks of the list it walks, possibly the caller's own;
* **32-bit arithmetic** on addresses that come from the boot loader, and clocks
  that wrap;
* **limits**: full rings, full history, exhausted memory;
* **ownership** of blocks: who may free what, and how often.

What makes each part correct: two owners never share a block, and the counters
can be trusted (PMM); the list is the set of live processes, only runnable ones
run, each ready one is served (processes); each queue delivers once and in
order, drops only what finds it full and strands nothing (keyboard, CAN); the
line that Enter ended is the one executed (console); no directory or table in
use is given back, the TLB agrees with the tables, processes share nothing they
can write (VMM); a buffer holds the bytes that wait, in order, and a stream is
handed on without loss or repetition (UDP, TCP); a look-up finds the best route
and reassembly returns what was sent (IPv4); rings, packets and memory are
accounted for across failures, stops and starts (e1000, network core).

`PROJECT.json` lists all components, and under "hazards" every place where this
code can go wrong in a way a test would hardly reach.

## 2. Modules

    BlockPool    <- Pmm <- PmmScan          specification <- implementation
    BoundedFifo  <- Can, Keyboard           specification <- implementation
    Ring         used by Can, Keyboard
    Links        used by Scheduler, Net
    Scheduler
    Vmm
    Keyboard + Console = Input              composition
    E1000 + network core = Net              composition
    Routes, Fragments, Udp, Tcp             one layer each
    *Proofs      theorems about the module they are named after
    PmmProofs    also about PmmScan
    TransportProofs   theorems about Udp and Tcp
    NetProofs    theorems about E1000, Net, Routes and Fragments
    StructureProofs   lemmas on rings, linked lists and %, for the other proofs
    MC*          constants and specifications for TLC

**BlockPool** is the contract of a block allocator. A run that begins at block 0
is lost in it, because its address is the null pointer.

**Pmm** is `mem/pmm.c`. The bitmap is the set of marked block numbers, all
arithmetic is modulo `WORD` (2^32), and `pmm_init` runs entry by entry through
the memory map: sizing (`ParseEntry`), placing the bitmap and marking below its
end (`PlaceBitmap`), marking reserved regions (`ReserveEntry`). `held` is a
history variable: the runs callers own. A caller frees only what it owns.

**PmmScan** refines the allocation calls of Pmm to the loop of
`pmm_find_first_free_blocks`, one block per step, with its variables `i`,
`free_blocks` and `first_free`.

**Scheduler** is `proc/process.c`: linked list, states, clock, and
`process_get_next` one turn of its loop per step. The process that is current
executes the calls; the idle process, which is the loop of `kmain`, never
yields, exits or sleeps, and nobody blocks or terminates it. `interrupts` is the CPU's interrupt flag, which a
switch neither saves nor loads; `resumes` records how a process goes on when it is
switched to. One that left in a call returns with the flag as it is; one that left
in a tick enables interrupts with the `iret` of the tick; a new process starts with the
EFLAGS, 0x202, of the frame that `process_create` has prepared. Three
simplifications: a scan begun by a call is not interrupted by a tick; the first
switch to a process consumes its frame as it is meant (the epilogue of `process_switch`
pops other registers than the frame holds and ends with `ret`); the tick is delivered, although
`irq_register_handler(IRQ0, ...)` adds 32 to a constant that is 32 already.

**BoundedFifo** is what a ring promises its reader; **Ring** says what a ring
with a head and a tail holds; **Links** does it for the kernel's linked lists: what a
walk along the `next` pointers reaches, appending behind the last node and cutting
a node out.

**Vmm** is `mem/vmm.c` with its callers: `hal_x86.c`, which maps and unmaps in the
current directory, `process_create`, `process_switch` and `process_get_next`. A
block holds entries and is a directory, a table or a page only by its use. `vmm_init`
maps page by page and may run out of memory at each; `vmm_clone_directory` takes
a step per slot and per entry, because a timer interrupt can switch to another
process in the middle, which may begin a clone of its own or terminate the one
inside. `owner` is the directory a page was allocated for: a process maps and frees
only pages it owns, as its caller's bookkeeping would have it. Neither
`hal_free_page` nor `hal_map_page` asks whether the page is mapped already, and
nothing counts mappings, so a page freed while mapped, here or in a clone that
shares it, or mapped twice, can end up in two processes; the history variable
`exposed` names these pages, and `Isolated` excepts them. The TLB is a copy of entries that `Load` fills; mapping and
unmapping flush one page, and only in the current directory. `exited`, a history
variable, marks the first exit of a process whose directory names kernel tables.
There the model ends: the hardware walks free blocks from then on (`vmm_exit`).

**Can** is `drivers/can.c` as built for the ARM controller. The thread's `pc`
gives the places where an interrupt can come between its reads and writes of the
rings; a handler is one step. An identifier is the set of its one bits, so that
mask and filter are intersections. The controller is external: `Transmit` takes
a frame from the mailbox and raises the transmit interrupt. The loop that `can_send_frame` borrows
from the handler reads the ring and the mailbox one after the other, and so does the model. The code never acknowledges
the request, so a transmit interrupt may stay pending after it was taken. `due` (what was
handed over and is not on the bus yet) and `raced` (the handler has loaded the frame
that the thread is to load: after the thread's test of the mailbox, or the last frame between
its tests of ring and mailbox) are history variables.

**Keyboard** is `drivers/keyboard.c`. A scancode is named after the key on it,
and the prefix 0xE0 is a step of its own. `held`, a history variable, is what the
user holds down. The locks whose scancodes lie beyond the table (num and scroll
lock, 0x45 and 0x46) cannot be toggled by the code and are left out.

**Console** is `drivers/console.c`: the callback edits the line in one step, the
thread's `strcpy` and `memset` take one step per character. History lines are
strings, the input line is a buffer with its NULs. The screen and the command
table are left out. `line`, the line that is ready, and `raced`, that a key has come since
it is, are history variables; both start afresh when `input_ready` is reset.

**Input** composes the two through `keyboard_scancode_to_ascii`. The keyboard
puts characters in its ring, and the console converts them once more as if they
were scancodes; beyond the 59 entries of the table the result is undefined, and
any character in the model.

**Udp** is the socket list and the receive buffers of `net/udp.c`. A byte is its
number among those the socket has taken in. The buffer of the model is memory
beyond the configured size too, because the code's test for space leaves
`recv_start` out; `lagged`, a history variable, records that this has mattered.

**Tcp** is the connection list and the two byte streams of `net/tcp.c`. Sequence
numbers are words that wrap; segments and acknowledgments come late, twice, out
of order or never. The handshake and the teardown are TODOs of the code, so
`Establish` stands for the first. `accepted`, `taken` and `peak` are history.

**Routes** is the routing table of `net/ipv4.c`, a list in the order of the metric,
with an address as the set of its one bits. **Fragments** is sending,
fragmentation and reassembly on two hosts with a network between them that
loses, repeats and reorders: what was sent stays in the set `wire`. The
identification is any, one that was used before too. The table of received
units is an array that the code indexes with the offset and does not check, and
the model places it as the code does: `reassembly_buffers` has elements of 92
bytes with the table of 64 at 24, so a mark for a unit behind the table falls
into a later buffer, into its table (`Marked`) or a field of it, or behind
all of them (`overrun`, where the model ends). At the kernel's only MTU, 1500, this
happens to every fragment but the first of a packet: the k-th begins at unit 185k, and
its mark is unit k of the table two buffers per fragment further on. `of`, history, says whose
packet a buffer holds, and `Mixed` that another packet or a stray mark has got into it.

**E1000** is `drivers/e1000.c`: descriptor rings, head and tail registers, and the
memory that initialisation takes and cleanup gives back, in two steps: the controller
is stopped, then the memory goes. The controller is
external: `FrameArrives` writes a frame by DMA where the registers point, at any time. The
busy loop of `e1000_send_packet` is `hung`: the processor stays in it while frames
still arrive. **Net** puts `net/net.c` and the frames of `net/ethernet.c` on top: the
list of interfaces by its `next` pointers, the packet pool, who owns a packet,
polling, the walk of `net_cleanup` interface by interface (`walking`, `closing`, `step`), and the one handler that a received packet reaches. An interface that is
registered again with its old `next` pointer brings stale links into the list;
`stale` marks that, and the model ends there.

## 3. Runs

| Run | Checks | Result |
|---|---|---|
| `pmm` | `TypeOK`, `HeldSafe`, `CounterCheckSound`, `ExcessNeverChanges`, `WithdrawnForGood`, `ImplementsAllocator` | hold |
| `pmm_search` | `LoopInv`, `FailureIsReal`, `ScanImplementsPmm`, `CallsReturn` | hold |
| `pmm_ordinary` | `BlocksLeftToAllocate` | violated |
| `scheduler` | `TypeOK`, `ListIsLive`, `OnlyRunnableRuns`, `FallbackIsReady`, `IdleHasInterrupts`, `ScanReturns`, `RoundRobin` | hold |
| `scan_may_spin` | `ScanAlwaysReturns` | violated |
| `tick_lost` | `TickSwitchesTasks` | violated |
| `can` | `TypeOK`, `SentOnceInOrder`, `NoFrameStranded`, `RxImplementsFifo`, `TxDrains` | hold |
| `input` | `InputTypeOK`, `ModifiersAreHeld`, `KeysComeInOrder`, `StringsEnd`, `ExecutesTheLine`, `LineIsServed` | hold |
| `enter_lost` | `EnterMakesReady` | violated |
| `vmm` | `TypeOK`, `TlbAgrees`, `TablesInUse`, `Isolated` | hold |
| `vmm_exit` | `KernelTablesStay` | violated |
| `net` | `UdpBufferSound`, `TcpStreamIntact`, `FindsBestRoute`, `ReassembledWhole`, `RxRingHoldsTheFrames`, `NoDmaIntoFreedMemory`, `NetResourcesAccounted` | hold |

The five violated properties state what comments of the code say:

* *pmm_ordinary.* The bitmap is placed behind the last byte of memory, and every
  block below its end is marked: on an ordinary machine nothing is left. Blocks
  remain only where an address wraps.
* *scan_may_spin.* `process_get_next` can free the block at which its loop would
  stop; with nobody ready it goes round for ever. The trace: a tick comes while
  the idle process runs, the block after it is terminated and nobody else is
  ready. Only the idle process's own scan is exposed: for any other the idle
  process is ready (`ScanReturns` and `FallbackIsReady` are that other half).
* *tick_lost.* A process that yielded by a call and is resumed by a tick runs with
  interrupts disabled until it gives the CPU back itself. In the trace the tick takes
  the CPU from the idle process and gives it to one that has yielded before.
* *enter_lost.* The newline, 10, is the scancode of '9': Enter types a character.
* *vmm_exit.* Clones name the kernel's own tables, and `vmm_free_directory` gives
  every table of a directory back: the first exit frees the kernel's.

Some properties that hold say what the code does where it might be expected to
do more. `LineIsServed`: an Enter that comes while `console_update` copies and resets
the line before is lost; the property says that no other is. `Isolated`: pages freed while they are
mapped, or mapped twice, are excepted. `ReassembledWhole`: only packets whose
fragments are a single unit long are ever complete, since a longer fragment marks the first of its units
alone, so at an MTU of 1500 none is; what comes out of a buffer that is `Mixed` is not claimed to be
anything; and the IP header is written over the first bytes of the data.
`UdpBufferSound`: the bytes lie inside the configured buffer only until a datagram
comes while read bytes stand in front of others. `NetResourcesAccounted`: a receive
ring is lost when the transmit ring cannot be allocated, and the property ends at the
first stale link.

**Bounds.** *Pmm*: 16 blocks of 8 bytes, two bitmap bits to a byte, and six
memory maps that reach the cases of `pmm_init`: bitmap address wrapped, bitmap end wrapped,
memory above the address space, overlapping reserved regions, an ordinary map,
no map. *PmmScan*: 8 blocks, with and without a hole, runs of 0 to 3. *Scheduler*:
three processes beside idle, so that a scan can skip a blocked one, free a second
and still meet a third; a clock of two values (three where a violation is found), which
sleeps wrap; a switch every second tick, so that sleepers wake in the scans of calls
here and in any scan in the proofs. *Can*: rings of three slots (two frames), three frames, one
extended, two filters in one bank; sending and receiving are explored one at a
time (`MCCan`), since they share no variable but the thread and the bus state.
*Keyboard*: a ring of two keys, a shift, a ctrl and a cursor key, with and
without prefix. *Console*: lines of two characters out of two, a history of two;
in `MCInput` a behaviour is either the keyboard's or the console's, and the
console gets any key at any time, which includes all the keyboard can deliver.
*Vmm*: seven blocks, so that memory runs out in the middle of a clone and of a
mapping, two directories with tables of their own fit beside pages, and two clones can be
under way; two entries to a block, one slot of user space and one of the kernel; two virtual
pages that processes use, where a process maps its own pages in user space only and memory that is
no block in both halves (`MAPPINGS`; the proofs take any); and a process allocates a page only when it owns none, not even a copy made by a
clone; boot with any number of blocks left. *Net* (`MCNet`, one layer to a behaviour, since the layers do not call
each other in the kernel as it is): two UDP sockets, buffers of three bytes, six
bytes each; two TCP connections, perhaps to the same peer, windows of two
bytes, three bytes each way, four sequence numbers, so that both streams wrap; five routes with
overlapping networks and equal metrics, five additions, addresses of three bits;
two packets of three lengths over two MTUs and two identifications, so that fragments
carry one unit or two and packets share a buffer or not; three reassembly buffers with tables
of three units in elements of four bytes, so that marks stay in the table, fall
between the tables or into the next one; two interfaces, rings of three descriptors, four frames, so that a ring
fills and wraps, and one lost receive ring.

**Fairness.** A loop the CPU has begun goes on (weak fairness of the search in
PmmScan, of `Scan`, of the calls in Can, of `Update`, whose loop in `kmain` is
woken from `hlt` by the timer). A pending interrupt is taken while interrupts
are enabled: strong fairness of the tick, since the flag changes, and weak of
`TxInterrupt`. The controller transmits what is in its mailbox. No process is
forced to make a call, no key, frame or error to arrive. `TxDrains` and
`RoundRobin` state what else they need as premises: interrupts and bus stay up,
somebody keeps yielding. `vmm` and `net` check safety only and assume no
fairness; they may stop, because their models end where the code's behaviour is
no longer defined, and `net` where its bounds are used up.

## 4. Proofs

The assumptions are the named ASSUMEs of the modules, which TLC evaluates in
every run: positive sizes, a null pointer that is not a process, interface,
device or route, blocks that are neither NULL nor the kernel's frame, finitely
many interfaces, natural lengths and metrics; for Tcp fewer bytes in a stream than
sequence numbers, for Fragments tables of two units or more that
fit their buffers, MTUs of a unit or more and packets longer than their header
that fit the buffer's memory, and for Pmm a memory map so short that the used-block
counter cannot wrap (4094 entries for the real constants).

* **PmmProofs**: `TypeOK`, `HeldSafe`, `CounterCheckSound`,
  `ExcessNeverChanges`, `WithdrawnForGood`, and that Pmm implements BlockPool.
  The inductive invariant `PmmInv` adds to types and ownership `BootShape` (what
  each phase of `pmm_init` has not touched yet) and `CounterBounds`: the counter is
  at least the number of marked blocks of the pool and at most
  `entry * ADDRESSABLE_BLOCKS`. The lower bound makes the counter a sound reason
  to try; the upper one keeps it from wrapping, without which no lower bound is
  inductive.
  For PmmScan, `LoopInv` is inductive together with `PmmInv`; that no run
  begins before `i - free_blocks` makes the run found the lowest one, so PmmScan
  implements Pmm, and the search fails only when there is nothing to find.
* **SchedulerProofs**: `TypeOK`, `ListIsLive`, `OnlyRunnableRuns`, `FallbackIsReady`,
  `IdleHasInterrupts`, for any number of processes and any clock. The invariant
  `SchedInv` adds that blocks outside the list count as terminated and that the
  idle process is never blocked or terminated: idle is `READY` or `RUNNING`,
  so a switch away from it leaves it ready, and only a tick takes the CPU from it.
  `ListOK` says that the live blocks are a list, `IsList` of StructureProofs, and that the
  scan stands on one of them, so that the block it frees is one of the list.
* **StructureProofs**: what filling the slot at the head, moving the head and moving the
  tail make of a ring's contents, for every size; `%` is taken apart once, in
  `Remainders`. For linked lists, `IsList(head, next, null, nodes, S)` says that S is
  what a walk reaches, one node ends it and no two nodes have the same
  successor; appending, adding at the head and cutting out keep it. What a walk
  reaches is defined as the least set closed under `next`, not by recursion: a
  lemma about it then needs a closed set to be named, and no induction.
* **CanProofs**: `TypeOK`, `NoFrameStranded`, `SentOnceInOrder`, and that the
  receive ring implements BoundedFifo, for every ring size and number of filters.
  `NoFrameStranded` holds because the thread leaves its loop only with the ring empty or
  the mailbox full. `SentOnceInOrder` needs the same windows (`SendWindows`): what is due is
  the mailbox, the ring and what the thread has in hand, in the order that its place gives. The
  queue needs `TakesWhatIsThere`: a reader past its test finds the ring not empty.
* **InputProofs**, all about `InputSpec`: `InputTypeOK`, `ModifiersAreHeld`, that the key
  ring is a queue, `StringsEnd`, `ExecutesTheLine`. `ConsoleShape` says that the last byte of the
  line is NUL and that history lines fit: every copy then ends at the least
  NUL of what it copies. `LineInv` follows the line until a key races with it: what waits is what Enter
  ended, what has been copied is its beginning. What stands before the cursor is
  characters whatever races, so the next line is followed again.
* **VmmProofs**: `TypeOK`, `TablesInUse`, `TlbAgrees`, `Isolated`, for every number of
  blocks and entries, every list of boot pages and any number of clones at a time. None is
  inductive alone. `VmmInv` adds `MemOK`: directories and tables are blocks in use, distinct from
  each other and from every page somebody owns; a table is in one slot of one directory, or in the same
  kernel slot of several; a page of user space that is not exposed is in use and is no
  directory and no table, and a writable one is in a single entry; and `CloneOK`: a
  copy is nobody's directory yet and no other clone's, and is empty behind the slot under
  way. Without the last, a failed clone could free tables of its source.
* **TransportProofs**: `UdpBufferSound` and `TcpStreamIntact`. For UDP, an empty buffer
  starts at 0 and the start never passes the bytes taken. For TCP, a
  connection's numbers are its stream positions modulo `WORD`, and since a
  stream is shorter than `WORD`, equal numbers are equal positions: an old
  acknowledgment removes nothing and an old segment is not taken twice.

* **NetProofs**, one invariant per layer.
  *E1000*: `RxRingHoldsTheFrames`, `NoDmaIntoFreedMemory`. `RingOK`
  ties the two sides together: the frames that wait are a row from `rx_cur` on, RDH is
  behind the row and RDT one before `rx_cur`; since the controller stops at RDT, a row
  never overtakes itself.
  *Net*: `NetResourcesAccounted`. `NetInv` says that, up to the first stale link, the list is an
  `IsList` of the interfaces with a device, in the middle of `net_cleanup` the list that begins at
  the interface under cleanup; the receiver of that interface is off from the second step on
  (`CleanupOK`), which no arriving frame changes. A list without repetition makes the counter the
  cardinality of a set that changes by one element, and then the blocks follow by counting.
  *Routes*: `FindsBestRoute`. `RouteInv` keeps the list in the order of metric, then age. The
  loop of `ipv4_find_route` is a recursive function; that exactly one function follows the loop
  is shown by the least place where one could differ, and it is the closed form "the
  first match", which in a sorted list is the best.
  *Fragments*: `ReassembledWhole`. `FragInv` says of each buffer that is not `Mixed` that its marked
  units hold the bytes of a single packet and start at multiples of its fragments' size, and that
  a packet whose end has come begins its last fragment inside the table. A fragmented packet has
  two units at least, and a complete buffer has the second marked, so its fragments are one unit
  long, its units all lie in the buffer's own table, and all its bytes are in place.

Every safety property of the passing runs is a theorem. Model-checked only are the
five liveness properties (`CallsReturn`, `ScanReturns`, `RoundRobin`, `TxDrains`,
`LineIsServed`): they rest on fairness and on the enabledness of actions, and the
prover does neither.

## 5. Not modelled

*No state machine worth a model*: the screen, the descriptor tables, boot code, the
C++ runtime, the ARM and AVR ports of the HAL and what of the x86 port is register
access, the handler table of the interrupt dispatch. Threads (`thread_create`)
are never scheduled by this code.

*Code whose behaviour is not defined.* Several network files do not compile as committed:
calls disagree with their declarations in `net.h` and fields do not exist. Where the
meaning is plain, the models take it. Left out where it is not: the receive loop of
`e1000_handle_interrupt` and the delivery of IPv4 packets (`iface->receive` and
`net_receive_packet` with two arguments); `eth_init_device` and
`ipv4_configure_interface`, which both replace the `driver_data` in which the
driver keeps its device.

*Left out of modelled parts*: checksums, statistics, TCP options; the handshake and the
teardown of TCP, which the code leaves out too; `ipv4_forward_packet`, `ipv4_cleanup` and the
address helpers; `udp_send`, whose packet is never freed; packets whose length
fields contradict each other; protocol handlers other than that of
`NET_PROTO_NONE`, which nothing calls; the bit timing of CAN; the command table of the
console.

*Known and visible in the source, but outside the models*: a tick during a
call's scan (a second scan over the same list, and an allocator without a lock).
*In the models, without a property*, because no comment says what is right:
the console, which goes deaf when nobody drains the keyboard's ring; two shift
keys sharing one flag, so that releasing one ends both; a filter bank disabled
under its second filter; a route look-up that goes by the metric and not by the
length of the prefix; pages that a failed clone leaves behind; the first call of `e1000_send_packet`,
which waits for a status that nothing has written; the links of an
interface that is registered once more.

What would come next: ticks inside a call's scan and switch, on the state of
Scheduler and with the allocator's steps; the interrupt dispatch, composed with
Scheduler and Keyboard.
