------------------------------- MODULE E1000 -------------------------------
(***************************************************************************)
(* The Ethernet controller, drivers/e1000.c: its descriptor rings, the     *)
(* registers that the driver and the controller share, and the memory the  *)
(* driver takes.  A frame is its number among the frames that its ring has *)
(* taken; 0 is a descriptor without the done bit.                          *)
(***************************************************************************)
EXTENDS Integers

CONSTANTS
    Ifaces,       \* the interfaces, one controller each
    NUM_DESC,     \* E1000_NUM_RX_DESC, E1000_NUM_TX_DESC (32)
    DEV_BLOCKS,   \* blocks of the device structure
    RING_BLOCKS,  \* blocks of a ring: descriptors and buffers
    PKT_BLOCKS,   \* blocks of a packet: structure and data
    NoDevice,     \* driver_data = NULL
    MaxFrames,    \* bound: frames that arrive
    MaxLost       \* bound: receive rings lost

Descs == 0 .. (NUM_DESC - 1)

\* e1000_device_t.  History: got is the last frame handed out.
Device ==
    [rx : [Descs -> Nat], rx_cur : Descs, got : Nat,
     tx : [Descs -> BOOLEAN], tx_cur : Descs]

ASSUME E1000Assumption ==
    /\ NUM_DESC \in Nat \ {0, 1} /\ MaxFrames \in Nat /\ MaxLost \in Nat
    /\ DEV_BLOCKS \in Nat /\ RING_BLOCKS \in Nat /\ PKT_BLOCKS \in Nat
    /\ NoDevice \notin Device

VARIABLES
    dev,    \* iface->driver_data: the driver's side
    hw,     \* the controller's registers, and the memory RDBAL points to
    used,   \* blocks taken from the allocator by the network code
    lost,   \* history: receive rings that a failed e1000_init left behind
    hung,   \* the busy loop of e1000_send_packet runs
    frames  \* history: the frames that arrived on all interfaces

e1000Vars == <<dev, hw, used, lost, hung, frames>>

\* What net_alloc_packet takes and net_free_packet gives back for n packets.
Packets(n) == PKT_BLOCKS * n

\* What a device that works has taken.
Devices(n) == (DEV_BLOCKS + 2 * RING_BLOCKS) * n

\* CTRL_RST
ResetHw == [en |-> FALSE, rdh |-> 0, rdt |-> 0, ring |-> "none", arrived |-> 0]

\* e1000_init_rx: RDH = 0, RDT = NUM_DESC - 1, the receiver is on.
RunningHw(ring) ==
    [en |-> TRUE, rdh |-> 0, rdt |-> NUM_DESC - 1, ring |-> ring, arrived |-> 0]

\* e1000_init_tx: memset; a descriptor is free when its status is not zero.
NewTxDescs == [d \in Descs |-> FALSE]

NewDevice ==
    [rx |-> [d \in Descs |-> 0], rx_cur |-> 0, got |-> 0,
     tx |-> NewTxDescs, tx_cur |-> 0]

HasDevice(i) == dev[i] # NoDevice

\* e1000_init; fails names the allocation that fails.  The error path frees
\* the device structure, and a transmit ring that fails its receive ring not.
e1000_init(i, fails) ==
    /\ fails = "tx" => lost < MaxLost
    /\ hw' = [hw EXCEPT ![i] =
          CASE fails = "dev"  -> @
            [] fails = "rx"   -> ResetHw
            [] fails = "tx"   -> RunningHw("leaked")
            [] fails = "none" -> RunningHw("live")]
    /\ dev' = IF fails = "none" THEN [dev EXCEPT ![i] = NewDevice] ELSE dev
    /\ used' = used + CASE fails = "tx"   -> RING_BLOCKS
                        [] fails = "none" -> Devices(1)
                        [] OTHER          -> 0
    /\ lost' = IF fails = "tx" THEN lost + 1 ELSE lost

\* e1000_stop
Stopped(h) == [h EXCEPT !.en = FALSE]

\* Mutant: the rings are given back while the controller still runs.
FreesFirst == <<"free", "stop">>

\* What e1000_cleanup does, in this order; a frame may arrive in between.
CleanupSteps == <<"stop", "free">>

\* One step of e1000_cleanup; without a device the call has returned at once.
e1000_cleanup(i, what) ==
    IF ~HasDevice(i) THEN UNCHANGED <<dev, hw, used>>
    ELSE \/ /\ what = "stop"
            /\ hw' = [hw EXCEPT ![i] = Stopped(@)]
            /\ UNCHANGED <<dev, used>>
         \/ /\ what = "free"
            /\ hw' = [hw EXCEPT ![i].ring = "freed"]
            /\ dev' = [dev EXCEPT ![i] = NoDevice]
            /\ used' = used - Devices(1)

e1000_start(i) ==
    /\ HasDevice(i)
    /\ hw' = [hw EXCEPT ![i].en = TRUE]
    /\ UNCHANGED <<dev, used, lost, hung, frames>>

e1000_stop(i) ==
    /\ HasDevice(i)
    /\ hw' = [hw EXCEPT ![i] = Stopped(@)]
    /\ UNCHANGED <<dev, used, lost, hung, frames>>

\* The controller stores a frame in the descriptor RDH, unless all the
\* descriptors up to RDT are full: then the frame is dropped.  A ring that
\* no device reads (leaked) takes frames as well.
FrameArrives(i) ==
    /\ hw[i].en /\ hw[i].rdh # hw[i].rdt
    /\ frames < MaxFrames
    /\ frames' = frames + 1
    /\ hw' = [hw EXCEPT ![i].rdh = (@ + 1) % NUM_DESC, ![i].arrived = @ + 1]
    /\ dev' = IF hw[i].ring = "live"
                THEN [dev EXCEPT ![i].rx[hw[i].rdh] = hw[i].arrived + 1]
                ELSE dev
    /\ UNCHANGED <<used, lost, hung>>

FrameWaits(i) == HasDevice(i) /\ dev[i].rx[dev[i].rx_cur] # 0

\* e1000_receive_packet once the packet is allocated.
Received(d) ==
    [d EXCEPT !.rx[d.rx_cur] = 0,
              !.rx_cur = (@ + 1) % NUM_DESC,
              !.got = d.rx[d.rx_cur]]

\* Mutant: the tail moves to the descriptor that is read next.
NewTailAhead(d) == (d.rx_cur + 1) % NUM_DESC

\* RDT: the descriptor that was just read.
NewTail(d) == d.rx_cur

\* e1000_receive_packet on all the interfaces in from; one that cannot
\* allocate the packet leaves its descriptor as it is.
e1000_receive_packet(from) ==
    /\ dev' = [i \in Ifaces |-> IF i \in from THEN Received(dev[i]) ELSE dev[i]]
    /\ hw' = [i \in Ifaces |-> IF i \in from
                                 THEN [hw[i] EXCEPT !.rdt = NewTail(dev[i])]
                                 ELSE hw[i]]

\* e1000_send_packet: the loop waits until the descriptor has a status.  The
\* controller writes one only for descriptors between TDH and TDT, and there
\* is none before the first packet is sent: a wait does not end.
e1000_send_packet(i) ==
    IF dev[i].tx[dev[i].tx_cur]
      THEN /\ dev' = [dev EXCEPT ![i].tx[dev[i].tx_cur] = FALSE,
                                 ![i].tx_cur = (@ + 1) % NUM_DESC]
           /\ UNCHANGED <<hung, used>>
      ELSE hung' = TRUE /\ used' = used + Packets(1) /\ UNCHANGED dev

-----------------------------------------------------------------------------
(* Properties.                                                             *)

\* The ring holds exactly the frames that the controller has stored and the
\* driver has not handed out, the oldest at rx_cur: none is overwritten, handed
\* out twice or out of order, or stranded behind a free descriptor, however
\* arrivals, failed allocations, stops, starts and wraps of the ring mix.
RxRingHoldsTheFrames ==
    \A i \in Ifaces :
        HasDevice(i) =>
            LET d     == dev[i]
                waits == hw[i].arrived - d.got
            IN  /\ waits \in 0 .. (NUM_DESC - 1)
                /\ \A k \in Descs :
                      d.rx[(d.rx_cur + k) % NUM_DESC] =
                          IF k < waits THEN d.got + k + 1 ELSE 0

\* The controller never has a freed ring to write into while its receiver is
\* on, neither after a failed initialisation nor at any step of a cleanup.
NoDmaIntoFreedMemory ==
    \A i \in Ifaces : hw[i].en => hw[i].ring \in {"live", "leaked"}
=============================================================================
