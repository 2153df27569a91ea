-------------------------------- MODULE Net --------------------------------
(***************************************************************************)
(* The network core, net/net.c, with the frames of net/ethernet.c, over    *)
(* e1000 controllers: the list of interfaces with its next pointers, the   *)
(* packet pool, the protocol handlers and the polling of the interfaces.   *)
(* Packets of the driver keep the protocol NET_PROTO_NONE, so the handler  *)
(* of that protocol is the only one that the core ever calls.              *)
(* An interface is registered by its owner only while it is not in the     *)
(* list, and unregistered only while it is.  Calls of the network core do  *)
(* not overlap; the controllers receive during net_cleanup and             *)
(* net_unregister_interface, between the steps of e1000_cleanup.           *)
(***************************************************************************)
EXTENDS E1000, Links, FiniteSets

CONSTANTS
    NoIface,      \* NULL
    POOL_BLOCKS   \* blocks of the packet pool

ASSUME NetAssumption ==
    IsFiniteSet(Ifaces) /\ NoIface \notin Ifaces /\ POOL_BLOCKS \in Nat

VARIABLES
    interfaces,        \* head of the list
    next,              \* iface->next
    interface_count,
    packet_pool,       \* whether there is one
    handler,           \* whether NET_PROTO_NONE has a handler
    handed,            \* packets that the handler owns
    walking,           \* net_cleanup has not returned
    closing,           \* the interface whose cleanup runs or comes next, or none
    step,              \* the step of its cleanup that comes next
    stale              \* history: a link that was left behind got into the list

listVars == <<interfaces, next, interface_count>>
cleanupVars == <<walking, closing, step>>
netVars == <<listVars, cleanupVars, packet_pool, handler, handed, stale, e1000Vars>>

\* The interfaces in the list.
Registered == Reached(interfaces, next, NoIface)

\* net_cleanup or net_unregister_interface has not returned.
Busy == walking \/ closing # NoIface

NetInit ==
    /\ interfaces = NoIface /\ interface_count = 0
    /\ next = [i \in Ifaces |-> NoIface]
    /\ packet_pool = FALSE /\ handler = FALSE /\ handed = 0
    /\ stale = FALSE /\ lost = 0 /\ hung = FALSE /\ frames = 0
    /\ dev = [i \in Ifaces |-> NoDevice]
    /\ hw = [i \in Ifaces |-> ResetHw]
    /\ used = 0
    /\ walking = FALSE /\ closing = NoIface /\ step = 1

\* Called once, and again only after net_cleanup; the pool may fail, the memset
\* clears the handlers.
net_init ==
    /\ ~packet_pool /\ interfaces = NoIface
    /\ handler' = FALSE
    /\ \E full \in BOOLEAN :
          /\ packet_pool' = ~full
          /\ used' = IF full THEN used ELSE used + POOL_BLOCKS
    /\ UNCHANGED <<listVars, cleanupVars, handed, stale, dev, hw, lost, hung, frames>>

\* net_cleanup begins with the first interface.
net_cleanup ==
    /\ packet_pool \/ interfaces # NoIface
    /\ walking' = TRUE /\ closing' = interfaces
    /\ UNCHANGED <<listVars, step, packet_pool, handler, handed, stale, e1000Vars>>

\* One step of iface->cleanup.  After the last, net_cleanup goes to the next
\* interface, and net_unregister_interface counts and returns.
CleanupStep ==
    /\ closing # NoIface
    /\ e1000_cleanup(closing, CleanupSteps[step])
    /\ IF step = 1
         THEN step' = 2 /\ UNCHANGED <<closing, interface_count>>
         ELSE /\ step' = 1
              /\ closing' = IF walking THEN next[closing] ELSE NoIface
              /\ interface_count' = IF walking THEN interface_count
                                               ELSE interface_count - 1
    /\ UNCHANGED <<interfaces, next, walking, packet_pool, handler, handed, stale,
                   lost, hung, frames>>

\* net_cleanup gives the pool back and forgets the list; the interfaces keep
\* their next pointers.
CleanupEnds ==
    /\ walking /\ closing = NoIface
    /\ walking' = FALSE
    /\ used' = used - (IF packet_pool THEN POOL_BLOCKS ELSE 0)
    /\ interfaces' = NoIface /\ interface_count' = 0
    /\ packet_pool' = FALSE /\ handler' = FALSE
    /\ UNCHANGED <<next, closing, step, handed, stale, dev, hw, lost, hung, frames>>

\* The interface goes behind the last one and keeps its own next pointer.
net_register_interface(i) ==
    /\ i \notin Registered
    /\ \E fails \in {"none", "dev", "rx", "tx"} :
          /\ e1000_init(i, fails)
          /\ IF fails # "none"
               THEN UNCHANGED <<listVars, stale>>
               ELSE /\ IF interfaces = NoIface
                         THEN interfaces' = i /\ UNCHANGED next
                         ELSE /\ next' = LinkLast(interfaces, next, NoIface, i)
                              /\ UNCHANGED interfaces
                    /\ interface_count' = interface_count + 1
                    /\ stale' = (next[i] # NoIface)
    /\ UNCHANGED <<cleanupVars, packet_pool, handler, handed, hung, frames>>

\* Mutant: the list keeps the interface.
UnlinksNothing(i) == UNCHANGED <<interfaces, next>>

\* The interface, its own next pointer untouched, leaves the list.
Unlink(i) ==
    IF interfaces = i
      THEN interfaces' = next[i] /\ UNCHANGED next
      ELSE next' = CutOut(interfaces, next, NoIface, i) /\ UNCHANGED interfaces

\* It leaves the list, then iface->cleanup runs.
net_unregister_interface(i) ==
    /\ i \in Registered
    /\ Unlink(i)
    /\ closing' = i
    /\ UNCHANGED <<interface_count, walking, step, packet_pool, handler, handed, stale,
                   e1000Vars>>

\* net_register_protocol_handler, net_unregister_protocol_handler
SetHandler ==
    /\ handler' = ~handler
    /\ UNCHANGED <<listVars, cleanupVars, packet_pool, handed, stale, e1000Vars>>

net_receive_packet(from) == e1000_receive_packet(from)

net_send_packet(i) == e1000_send_packet(i)

\* One packet of every interface in the list; with a handler it is the
\* handler's from now on, else it is freed.
net_process_rx_queue ==
    \E got \in SUBSET {i \in Registered : FrameWaits(i)} :
        /\ got # {}
        /\ net_receive_packet(got)
        /\ handed' = IF handler THEN handed + Cardinality(got) ELSE handed
        /\ used' = IF handler THEN used + Packets(Cardinality(got)) ELSE used
        /\ UNCHANGED <<listVars, cleanupVars, packet_pool, handler, stale, lost, hung,
                       frames>>

\* The handler is done with a packet.
HandlerFrees ==
    /\ handed > 0
    /\ handed' = handed - 1
    /\ used' = used - Packets(1)
    /\ UNCHANGED <<listVars, cleanupVars, packet_pool, handler, stale, dev, hw, lost,
                   hung, frames>>

\* The packet is freed whether the caller's buffer is large enough or not.
eth_receive_frame(i) ==
    /\ i \in Registered /\ FrameWaits(i)
    /\ net_receive_packet({i})
    /\ UNCHANGED <<listVars, cleanupVars, packet_pool, handler, handed, stale, used,
                   lost, hung, frames>>

\* The packet is freed when the driver's call returns.
eth_send_frame(i) ==
    /\ i \in Registered
    /\ net_send_packet(i)
    /\ UNCHANGED <<listVars, cleanupVars, packet_pool, handler, handed, stale, hw, lost,
                   frames>>

\* The driver's own calls and the controller's step leave the core alone.
coreVars == <<listVars, cleanupVars, packet_pool, handler, handed, stale>>

\* A driver that waits for ever keeps the processor; the controller runs on.
\* The model ends where a stale link gets into the list.
NetNext ==
    /\ ~stale
    /\ \/ \E i \in Ifaces : FrameArrives(i) /\ UNCHANGED coreVars
       \/ CleanupStep
       \/ CleanupEnds
       \/ /\ ~hung /\ ~Busy
          /\ \/ net_init
             \/ net_cleanup
             \/ SetHandler
             \/ net_process_rx_queue
             \/ HandlerFrees
             \/ \E i \in Ifaces :
                   \/ net_register_interface(i)
                   \/ net_unregister_interface(i)
                   \/ eth_receive_frame(i)
                   \/ eth_send_frame(i)
                   \/ (e1000_start(i) \/ e1000_stop(i)) /\ UNCHANGED coreVars

NetSpec == NetInit /\ [][NetNext]_netVars

-----------------------------------------------------------------------------
(* Properties.                                                             *)

\* The interfaces whose device is not given back yet: those in the list and the
\* one that net_unregister_interface has cut out, or what net_cleanup's walk has
\* still to meet.
Kept ==
    IF walking THEN Reached(closing, next, NoIface)
               ELSE Registered \cup ({closing} \ {NoIface})

\* As long as no interface comes back with its old next pointer: the list, and
\* in the middle of net_cleanup and net_unregister_interface what is left to
\* clean up, holds exactly the interfaces that have a device, as many as are
\* counted until net_cleanup begins, and every block taken is in a device, in
\* the pool, in a packet that someone still holds, or in a receive ring that
\* e1000_init left behind when the transmit ring failed; nothing else leaks and
\* nothing is freed twice.
NetResourcesAccounted ==
    ~stale =>
        /\ Kept = {i \in Ifaces : HasDevice(i)}
        /\ ~walking => interface_count = Cardinality(Kept)
        /\ used = Devices(Cardinality(Kept))
                    + (IF packet_pool THEN POOL_BLOCKS ELSE 0)
                    + Packets(handed + (IF hung THEN 1 ELSE 0))
                    + RING_BLOCKS * lost
=============================================================================
