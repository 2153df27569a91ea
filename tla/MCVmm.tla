------------------------------- MODULE MCVmm -------------------------------
(* Two entries in a directory and in a table, one of user space and one of  *)
(* the kernel; the kernel is mapped once in each half, as vmm_init maps it  *)
(* at 0 and at 3 GB.  A process maps pages of its own in user space, and    *)
(* the kernel's memory and devices in both halves.                          *)
EXTENDS Vmm

MCBootPages == <<<<0, 0>>, <<1, 0>>>>
MCPages == {<<0, 0>>, <<1, 0>>}
MCMappings == [page : {<<0, 0>>}, frame : BLOCKS]
                  \cup [page : MCPages, frame : {KernelFrame}]
=============================================================================
