-------------------------------- MODULE Vmm --------------------------------
(***************************************************************************)
(* The virtual memory manager, mem/vmm.c: page directories and page tables *)
(* in blocks of physical memory, the directory the CPU uses, and the       *)
(* copies of its entries in the TLB.                                       *)
(*                                                                         *)
(* A block holds ENTRIES entries and is a directory, a table or a page     *)
(* only by the way it is used, as in the code.  A virtual page is the pair *)
(* of its directory index and its table index.  The code writes a table    *)
(* through its physical address, so every block is taken to be mapped at   *)
(* its own address.                                                        *)
(*                                                                         *)
(* The callers are those of the kernel: hal_x86.c maps in the current      *)
(* directory, process_create clones the current directory, process_switch  *)
(* loads one, and process_get_next frees that of a terminated process,     *)
(* which may be the current one.  A timer interrupt can switch to another  *)
(* process in the middle of a clone, so a clone takes many steps, and      *)
(* several processes can be inside one.                                    *)
(***************************************************************************)
EXTENDS Integers, Sequences, FiniteSets

CONSTANTS
    BLOCKS,       \* the blocks pmm_alloc_block can return
    ENTRIES,      \* entries of a directory and of a table (1024)
    KERNEL_SLOT,  \* the first directory index of kernel space (768)
    BOOT_PAGES,   \* the virtual pages vmm_init maps, in its order
    PAGES,        \* bound: the virtual pages processes load and unmap
    MAPPINGS,     \* bound: the frame, and the page it is mapped at
    MAX_PAGES,    \* bound: pages a process has when it allocates another
    KernelFrame,  \* the kernel's memory and the devices': not a block
    None

ASSUME VmmAssumption ==
    /\ BLOCKS \subseteq Nat \ {0}
    /\ ENTRIES \in Nat \ {0} /\ KERNEL_SLOT \in 0 .. ENTRIES
    /\ KernelFrame \notin BLOCKS /\ None \notin BLOCKS
    /\ BOOT_PAGES \in Seq((0 .. (ENTRIES - 1)) \X (0 .. (ENTRIES - 1)))
    /\ PAGES \subseteq (0 .. (ENTRIES - 1)) \X (0 .. (ENTRIES - 1))
    /\ MAPPINGS \subseteq [page : (0 .. (ENTRIES - 1)) \X (0 .. (ENTRIES - 1)),
                           frame : BLOCKS \cup {KernelFrame}]

Index == 0 .. (ENTRIES - 1)
Virt == Index \X Index
User == {i \in Index : i < KERNEL_SLOT}
Kernel == Index \ User

Entry == [frame : BLOCKS \cup {KernelFrame}, writable : BOOLEAN]

\* An entry is never equal to None, whatever None is in the instance.
Absent == [frame |-> None, writable |-> FALSE]

VARIABLES
    used,               \* the blocks the allocator has given out
    mem,                \* the entries in every block
    kernel_directory,
    current_directory,  \* also what the CPU's CR3 points to
    tlb,                \* the entry the TLB holds for a page, or Absent
    dirs,               \* the directories that belong to a process
    boot,               \* the step of vmm_init; Done when it has returned
    owner,              \* the directory a page was allocated for, or None
    clone,              \* the clone a directory is in: its copy and position
    exposed,            \* history: pages freed while mapped, or mapped twice
    exited              \* history: a directory with kernel tables was freed

vars == <<used, mem, kernel_directory, current_directory, tlb, dirs, boot,
          owner, clone, exposed, exited>>

Zeroes == [i \in Index |-> Absent]
Done == Len(BOOT_PAGES) + 2
NoClone == [dest |-> None, i |-> 0, j |-> 0]

Present(e) == e # Absent

Free == BLOCKS \ used

\* pmm_alloc_block returns b, the first free block (module Pmm).
Allocates(b) == b \in Free /\ \A c \in Free : b <= c

\* What the hardware finds for page v in directory d.
Walk(d, v) ==
    IF mem[d][v[1]].frame \in BLOCKS
      THEN mem[mem[d][v[1]].frame][v[2]]
      ELSE Absent

Tables(d) == {mem[d][i].frame : i \in {k \in Index : Present(mem[d][k])}}

Pointer(t) == [frame |-> t, writable |-> TRUE]

\* The directories of the processes and those that clones are filling.
Live == dirs \cup ({clone[d].dest : d \in BLOCKS} \ {None})

\* Block b is in user space of a live directory, elsewhere than at v in d.
MappedBut(b, d, v) ==
    \E e \in Live, w \in User \X Index :
        Walk(e, w).frame = b /\ ~(e = d /\ w = v)

Mapped(b) == \E d \in Live, w \in User \X Index : Walk(d, w).frame = b

Init ==
    /\ \E n \in BLOCKS \cup {0} : used = {b \in BLOCKS : b <= n}
    /\ mem = [b \in BLOCKS |-> Zeroes]
    /\ kernel_directory = None /\ current_directory = None
    /\ tlb = [v \in Virt |-> Absent]
    /\ dirs = {}
    /\ boot = 0
    /\ owner = [b \in BLOCKS |-> None]
    /\ clone = [d \in BLOCKS |-> NoClone]
    /\ exposed = {}
    /\ exited = FALSE

-----------------------------------------------------------------------------
(* vmm_map_page and vmm_unmap_page.                                        *)

\* Mutant: the TLB keeps what it has.
NoFlush(d, v) == UNCHANGED tlb

\* vmm_flush_tlb_entry, when d is the current directory.
FlushEntry(d, v) ==
    tlb' = IF d = current_directory THEN [tlb EXCEPT ![v] = Absent] ELSE tlb

\* vmm_get_page_table(d, i, true) returns t: the table that is there, or a new
\* one, which is cleared and entered in the directory.
GetTable(d, i, t) ==
    IF Present(mem[d][i]) THEN t = mem[d][i].frame ELSE Allocates(t)

MemWithTable(d, i, t) ==
    IF Present(mem[d][i])
      THEN mem
      ELSE [mem EXCEPT ![t] = Zeroes, ![d] = [@ EXCEPT ![i] = Pointer(t)]]

UsedWithTable(d, i, t) == IF Present(mem[d][i]) THEN used ELSE used \cup {t}

\* It returns NULL.
NoTable(d, i) == ~Present(mem[d][i]) /\ Free = {}

\* vmm_map_page(d, e.frame, v, flags) with VMM_PRESENT in the flags.
MapPage(d, v, e) ==
    /\ \E t \in BLOCKS :
          /\ GetTable(d, v[1], t)
          /\ mem' = [MemWithTable(d, v[1], t) EXCEPT ![t] =
                        [@ EXCEPT ![v[2]] = e]]
          /\ used' = UsedWithTable(d, v[1], t)
    /\ FlushEntry(d, v)

-----------------------------------------------------------------------------
(* vmm_init: one action per call that it makes.                            *)

\* Without a directory vmm_init returns and there is no current directory.
CreateKernelDirectory ==
    /\ boot = 0
    /\ \/ /\ Free = {}
          /\ boot' = Done
          /\ UNCHANGED <<used, mem, kernel_directory, dirs>>
       \/ \E b \in BLOCKS :
             /\ Allocates(b)
             /\ kernel_directory' = b
             /\ dirs' = {b}
             /\ mem' = [mem EXCEPT ![b] = Zeroes]
             /\ used' = used \cup {b}
             /\ boot' = 1
    /\ UNCHANGED <<current_directory, tlb, owner, clone, exposed, exited>>

\* vmm_identity_map and the loop for the higher half ignore a failure.
MapKernel ==
    /\ boot \in 1 .. Len(BOOT_PAGES)
    /\ LET v == BOOT_PAGES[boot]
           e == [frame |-> KernelFrame, writable |-> TRUE]
       IN  \/ MapPage(kernel_directory, v, e)
           \/ NoTable(kernel_directory, v[1]) /\ UNCHANGED <<used, mem, tlb>>
    /\ boot' = boot + 1
    /\ UNCHANGED <<kernel_directory, current_directory, dirs, owner, clone,
                   exposed, exited>>

\* vmm_switch_page_directory: loading CR3 empties the TLB.
Switch(d) ==
    /\ current_directory' = d
    /\ tlb' = [v \in Virt |-> Absent]

UseKernelDirectory ==
    /\ boot = Len(BOOT_PAGES) + 1
    /\ Switch(kernel_directory)
    /\ boot' = Done
    /\ UNCHANGED <<used, mem, kernel_directory, dirs, owner, clone, exposed,
                   exited>>

vmm_init == CreateKernelDirectory \/ MapKernel \/ UseKernelDirectory

-----------------------------------------------------------------------------
(* The calls of the running process, and its loads.                        *)

\* The running process has a directory, and is not inside a clone.
Running ==
    /\ boot = Done
    /\ current_directory \in dirs
    /\ clone[current_directory] = NoClone

\* The CPU walks the tables and keeps what it finds.  A TLB of one entry is
\* enough: what is said of it is said of every page by itself.
Load(v) ==
    /\ current_directory \in dirs
    /\ Present(Walk(current_directory, v))
    /\ tlb' = [u \in Virt |-> IF u = v THEN Walk(current_directory, v)
                                       ELSE Absent]
    /\ UNCHANGED <<used, mem, kernel_directory, current_directory, dirs, boot,
                   owner, clone, exposed, exited>>

\* hal_alloc_page: the page is the process's until it frees it or exits.
AllocPage ==
    /\ Running
    /\ Cardinality({b \in BLOCKS : owner[b] = current_directory}) < MAX_PAGES
    /\ \E b \in BLOCKS :
          /\ Allocates(b)
          /\ owner' = [owner EXCEPT ![b] = current_directory]
          /\ used' = used \cup {b}
    /\ UNCHANGED <<mem, kernel_directory, current_directory, tlb, dirs, boot,
                   clone, exposed, exited>>

\* hal_free_page does not ask whether the page is still mapped, here or in a
\* directory that a clone has let share it.
FreePage(b) ==
    /\ Running
    /\ owner[b] = current_directory
    /\ used' = used \ {b}
    /\ owner' = [owner EXCEPT ![b] = None]
    /\ exposed' = IF Mapped(b) THEN exposed \cup {b} ELSE exposed \ {b}
    /\ UNCHANGED <<mem, kernel_directory, current_directory, tlb, dirs, boot,
                   clone, exited>>

\* hal_map_page: a page of the process, which may be mapped already, or memory
\* that is not a block.
vmm_map_page(v, f, w) ==
    /\ Running
    /\ f \in BLOCKS => owner[f] = current_directory
    /\ \/ /\ MapPage(current_directory, v, [frame |-> f, writable |-> w])
          /\ exposed' = IF f \in BLOCKS /\ MappedBut(f, current_directory, v)
                          THEN exposed \cup {f}
                          ELSE exposed
       \/ /\ NoTable(current_directory, v[1])
          /\ UNCHANGED <<used, mem, tlb, exposed>>
    /\ UNCHANGED <<kernel_directory, current_directory, dirs, boot, owner,
                   clone, exited>>

\* hal_unmap_page; without a table there is nothing to do.
vmm_unmap_page(v) ==
    /\ Running
    /\ Present(mem[current_directory][v[1]])
    /\ mem' = [mem EXCEPT ![mem[current_directory][v[1]].frame] =
                  [@ EXCEPT ![v[2]] = Absent]]
    /\ FlushEntry(current_directory, v)
    /\ UNCHANGED <<used, kernel_directory, current_directory, dirs, boot,
                   owner, clone, exposed, exited>>

\* process_switch.
vmm_switch_page_directory(d) ==
    /\ boot = Done
    /\ d \in dirs \ {current_directory}
    /\ Switch(d)
    /\ UNCHANGED <<used, mem, kernel_directory, dirs, boot, owner, clone,
                   exposed, exited>>

\* The blocks that are in use after vmm_free_directory(d).
Release(d) == used \ ({d} \cup Tables(d))

\* The pages of directory d are nobody's; their blocks stay in use.
Disown(d) == owner' = [b \in BLOCKS |-> IF owner[b] = d THEN None ELSE owner[b]]

\* process_get_next frees the directory of a terminated process, which another
\* process may have terminated in the middle of a clone: the copy is lost.  The
\* idle process, which has the kernel's directory, does not terminate.
vmm_free_directory(d) ==
    /\ boot = Done
    /\ d \in dirs \ {kernel_directory}
    /\ used' = Release(d)
    /\ Disown(d)
    /\ dirs' = dirs \ {d}
    /\ clone' = [clone EXCEPT ![d] = NoClone]
    /\ exited' = (exited \/ \E i \in Kernel : Present(mem[d][i]))
    /\ UNCHANGED <<mem, kernel_directory, current_directory, tlb, boot, exposed>>

-----------------------------------------------------------------------------
(* vmm_clone_directory(vmm_get_current_directory()) in process_create.     *)

OtherVars == <<kernel_directory, current_directory, tlb, boot, exposed, exited>>

\* The clone of the running process goes on at x.
Goes(x) == clone' = [clone EXCEPT ![current_directory] = x]

\* Without a block for the directory the call returns NULL and changes nothing.
CloneBegin ==
    /\ Running
    /\ \E b \in BLOCKS :
          /\ Allocates(b)
          /\ mem' = [mem EXCEPT ![b] = Zeroes]
          /\ used' = used \cup {b}
          /\ Goes([NoClone EXCEPT !.dest = b])
    /\ UNCHANGED <<dirs, owner, OtherVars>>

\* The process that has the CPU is inside a clone, which has got to Copy.
Cloning == current_directory \in dirs /\ clone[current_directory] # NoClone
Copy == clone[current_directory]

NextSlot == [Copy EXCEPT !.i = @ + 1, !.j = 0]

\* The entry of a kernel slot is copied; an empty slot stays empty.
CloneSlot ==
    /\ Cloning
    /\ Copy.i < ENTRIES
    /\ ~Present(mem[current_directory][Copy.i]) \/ Copy.i >= KERNEL_SLOT
    /\ mem' = [mem EXCEPT ![Copy.dest] =
                  [@ EXCEPT ![Copy.i] = mem[current_directory][Copy.i]]]
    /\ Goes(NextSlot)
    /\ UNCHANGED <<used, dirs, owner, OtherVars>>

\* The outer loop is at a table of user space that the copy does not have.
NeedsTable ==
    /\ Cloning
    /\ Copy.i < KERNEL_SLOT
    /\ Present(mem[current_directory][Copy.i]) /\ ~Present(mem[Copy.dest][Copy.i])

CloneTable ==
    /\ NeedsTable
    /\ \E t \in BLOCKS :
          /\ Allocates(t)
          /\ mem' = MemWithTable(Copy.dest, Copy.i, t)
          /\ used' = used \cup {t}
    /\ UNCHANGED <<dirs, owner, clone, OtherVars>>

\* The inner loop is at entry j of a table of user space.
InTable ==
    /\ Cloning
    /\ Copy.i < KERNEL_SLOT
    /\ Present(mem[Copy.dest][Copy.i])

\* The entry of the source's table the inner loop looks at.
SrcEntry == mem[mem[current_directory][Copy.i].frame][Copy.j]

\* Mutant: every page is shared.
CopiesNothing(e) == FALSE

\* A writable page is copied.
NeedsCopy(e) == Present(e) /\ e.writable

\* Mutant: the inner loop runs once too often.
OneEntryMore == IF Copy.j < ENTRIES THEN [Copy EXCEPT !.j = @ + 1] ELSE NextSlot

NextEntry == IF Copy.j + 1 < ENTRIES THEN [Copy EXCEPT !.j = @ + 1] ELSE NextSlot

\* dest_table->entries[j] = e; a page that is copied is the new directory's.
CloneEntry ==
    /\ InTable
    /\ \E e \in Entry \cup {Absent} :
          /\ \/ e = SrcEntry /\ ~NeedsCopy(e) /\ UNCHANGED <<used, owner>>
             \/ \E b \in BLOCKS :
                   /\ NeedsCopy(SrcEntry) /\ Allocates(b)
                   /\ e = [SrcEntry EXCEPT !.frame = b]
                   /\ used' = used \cup {b}
                   /\ owner' = [owner EXCEPT ![b] = Copy.dest]
          /\ mem' = [mem EXCEPT ![mem[Copy.dest][Copy.i].frame] =
                        [@ EXCEPT ![Copy.j] = e]]
    /\ Goes(NextEntry)
    /\ UNCHANGED <<dirs, OtherVars>>

\* Mutant: the source is freed.
ReleaseSource == Release(current_directory)

ReleaseCopy == Release(Copy.dest)

\* Neither a table nor a page is to be had: vmm_free_directory(dest), which
\* does not free the pages copied so far.
CloneFails ==
    /\ Free = {}
    /\ NeedsTable \/ (InTable /\ NeedsCopy(SrcEntry))
    /\ used' = ReleaseCopy
    /\ Disown(Copy.dest)
    /\ Goes(NoClone)
    /\ UNCHANGED <<mem, dirs, OtherVars>>

CloneReturns ==
    /\ Cloning
    /\ Copy.i = ENTRIES
    /\ dirs' = dirs \cup {Copy.dest}
    /\ Goes(NoClone)
    /\ UNCHANGED <<used, mem, owner, OtherVars>>

vmm_clone_directory ==
    \/ CloneBegin \/ CloneSlot \/ CloneTable \/ CloneEntry \/ CloneFails
    \/ CloneReturns

\* The model ends with the first exit of a process whose directory names
\* kernel tables: from there on the hardware walks tables that are free blocks.
Next ==
    /\ ~exited
    /\ \/ vmm_init
       \/ AllocPage
       \/ \E b \in BLOCKS : FreePage(b)
       \/ vmm_clone_directory
       \/ \E v \in PAGES : Load(v) \/ vmm_unmap_page(v)
       \/ \E m \in MAPPINGS, w \in BOOLEAN : vmm_map_page(m.page, m.frame, w)
       \/ \E d \in dirs :
             vmm_switch_page_directory(d) \/ vmm_free_directory(d)

Spec == Init /\ [][Next]_vars

-----------------------------------------------------------------------------
(* Properties.                                                             *)

TypeOK ==
    /\ used \subseteq BLOCKS
    /\ mem \in [BLOCKS -> [Index -> Entry \cup {Absent}]]
    /\ kernel_directory \in BLOCKS \cup {None}
    /\ current_directory \in BLOCKS \cup {None}
    /\ tlb \in [Virt -> Entry \cup {Absent}]
    /\ dirs \subseteq BLOCKS
    /\ boot \in 0 .. Done
    /\ owner \in [BLOCKS -> BLOCKS \cup {None}]
    /\ clone \in [BLOCKS -> [dest : BLOCKS \cup {None},
                             i : 0 .. ENTRIES, j : Index]]
    /\ exposed \subseteq BLOCKS
    /\ exited \in BOOLEAN

\* Until a process with kernel tables exits, the TLB holds nothing that the
\* tables of the current directory do not say: vmm_map_page and
\* vmm_unmap_page flush the one page they change, in the directory in use,
\* although the table may be shared with every other directory.
TlbAgrees ==
    ~exited /\ current_directory \in dirs =>
        \A v \in Virt : Present(tlb[v]) => tlb[v] = Walk(current_directory, v)

\* Until then every directory and every table of a directory is a block in
\* use: neither a clone that fails half way nor one that a timer interrupt
\* takes apart gives back a block that another directory needs.
TablesInUse == ~exited => \A d \in Live : {d} \cup Tables(d) \subseteq used

UserTable(d, i) == i \in User /\ Present(mem[d][i])

\* Until then processes are isolated: two directories share no table of user
\* space, and a page that one may write in user space is not in user space of
\* another, whatever is mapped, shared, cloned, freed and allocated again.  Only
\* a page its owner has freed while a user space still maps it, or has mapped a
\* second time, is excepted: neither call asks, and nothing counts the mappings.
Isolated ==
    ~exited =>
        \A d, e \in Live : d # e =>
            \A i, k \in User : UserTable(d, i) /\ UserTable(e, k) =>
                /\ mem[d][i].frame # mem[e][k].frame
                /\ \A j, l \in Index :
                      LET p == Walk(d, <<i, j>>)
                          q == Walk(e, <<k, l>>)
                      IN  p.writable /\ p.frame \in BLOCKS \ exposed
                            => p.frame # q.frame

\* vmm_clone_directory says that "Entries 768+ (3GB+) are kernel space, just
\* copy them": all directories use the kernel's tables, so they are in use as
\* long as one process lives, whichever exits.
KernelTablesStay == \A d \in Live : {d} \cup Tables(d) \subseteq used
=============================================================================
