-------------------------------- MODULE Can --------------------------------
(***************************************************************************)
(* The CAN driver, drivers/can.c, as built for the ARM controller: two     *)
(* ring buffers between a thread and the interrupt handlers, software      *)
(* filters with their hardware banks, and one transmit mailbox.            *)
(*                                                                         *)
(* The thread makes one call at a time.  An interrupt handler runs to its  *)
(* end between two steps of the thread; a call that touches a ring takes   *)
(* one step per access that a handler can come between.                    *)
(***************************************************************************)
EXTENDS Ring, FiniteSets

CONSTANTS
    RX_SIZE,      \* CAN_RX_BUFFER_SIZE (64)
    TX_SIZE,      \* CAN_TX_BUFFER_SIZE (32)
    MAX_FILTERS,  \* CAN_MAX_FILTERS
    Frames,       \* the frames on the bus and in the calls
    Filters,      \* the filters of can_add_filter
    Modes,        \* can_mode_t
    None

\* An identifier is the set of its one bits.
ASSUME CanAssumption ==
    /\ RX_SIZE \in Nat \ {0} /\ TX_SIZE \in Nat \ {0} /\ MAX_FILTERS \in Nat
    /\ \A f \in Frames : f.extended \in BOOLEAN /\ f.id \subseteq Nat
    /\ None \notin Frames \cup Filters \cup {[id |-> {}, extended |-> FALSE]}

\* What memset leaves in a slot that was never filled.
ZeroFrame == [id |-> {}, extended |-> FALSE]

VARIABLES
    rx_buffer, rx_head, rx_tail,   \* can_state
    tx_buffer, tx_head, tx_tail,
    filters, filter_used,
    current_mode,
    ier,       \* the interrupts are enabled at the controller
    inrq,      \* CAN_MCR_INRQ: the controller is off the bus
    fa1r,      \* the active filter banks
    mailbox,   \* the frame in transmit mailbox 0, or None: TME0
    tx_done,   \* a transmit interrupt is pending
    pc,        \* the place of the thread: "idle" outside the calls
    raced,     \* history: the handler has loaded what the thread is to load
    due        \* history, until then: frames can_send_frame took that are not
               \* on the bus yet

rx == <<rx_buffer, rx_head, rx_tail>>
tx == <<tx_buffer, tx_head, tx_tail>>
filterVars == <<filters, filter_used, fa1r>>
busVars == <<current_mode, ier, inrq>>
txVars == <<tx, mailbox, tx_done, due, raced>>
vars == <<rx, txVars, filterVars, busVars, pc>>

Slots == 0 .. (MAX_FILTERS - 1)

\* The hardware keeps two filters in a bank.
Bank(i) == i \div 2

\* Mutant: the head of the receive ring does not wrap.
RxNextNoWrap(n) == n + 1

RxNext(n) == (n + 1) % RX_SIZE
TxNext(n) == (n + 1) % TX_SIZE

Init ==
    /\ rx_buffer = [n \in 0 .. (RX_SIZE - 1) |-> ZeroFrame]
    /\ rx_head = 0 /\ rx_tail = 0
    /\ tx_buffer = [n \in 0 .. (TX_SIZE - 1) |-> ZeroFrame]
    /\ tx_head = 0 /\ tx_tail = 0
    /\ filters = [i \in Slots |-> None]
    /\ filter_used = [i \in Slots |-> FALSE]
    /\ fa1r = {}
    /\ current_mode \in Modes
    /\ ier = TRUE /\ inrq = FALSE
    /\ mailbox = None /\ tx_done = FALSE
    /\ pc = "idle"
    /\ due = <<>> /\ raced = FALSE

-----------------------------------------------------------------------------
(* Receiving.                                                              *)

\* can_frame_matches_filter.
Matches(frame, filter) ==
    /\ frame.extended = filter.extended
    /\ frame.id \cap filter.id_mask = filter.id_filter \cap filter.id_mask

Accepted(frame) ==
    \E i \in Slots : filter_used[i] /\ Matches(frame, filters[i])

\* Mutant: the handler does not look whether the ring is full.
RxInterruptOverruns ==
    /\ ier /\ ~inrq /\ fa1r # {}
    /\ \E frame \in Frames :
          /\ Accepted(frame)
          /\ rx_buffer' = [rx_buffer EXCEPT ![rx_head] = frame]
          /\ rx_head' = RxNext(rx_head)
    /\ UNCHANGED <<rx_tail, txVars, filterVars, busVars, pc>>

\* One turn of can_process_rx_interrupt, for a frame that passed a hardware
\* bank.  A frame that no filter accepts, or that finds the ring full, is
\* dropped and changes nothing; the callback gets a copy of one that is kept.
RxInterrupt ==
    /\ ier /\ ~inrq /\ fa1r # {}
    /\ \E frame \in Frames :
          /\ Accepted(frame)
          /\ RxNext(rx_head) # rx_tail
          /\ rx_buffer' = [rx_buffer EXCEPT ![rx_head] = frame]
          /\ rx_head' = RxNext(rx_head)
    /\ UNCHANGED <<rx_tail, txVars, filterVars, busVars, pc>>

\* can_receive_frame has found the ring not empty and copies a frame out.
ReceiveCopy ==
    /\ pc = "idle"
    /\ rx_head # rx_tail
    /\ pc' = "received"
    /\ UNCHANGED <<rx, txVars, filterVars, busVars>>

ReceiveAdvance ==
    /\ pc = "received"
    /\ rx_tail' = RxNext(rx_tail)
    /\ pc' = "idle"
    /\ UNCHANGED <<rx_buffer, rx_head, txVars, filterVars, busVars>>

-----------------------------------------------------------------------------
(* Sending.                                                                *)

\* Mutant: can_send_frame does not look whether the ring is full.
SendFillOverruns ==
    /\ pc = "idle"
    /\ \E frame \in Frames :
          tx_buffer' = [tx_buffer EXCEPT ![tx_head] = frame]
    /\ pc' = "publish"
    /\ UNCHANGED <<rx, tx_head, tx_tail, mailbox, tx_done, due, raced,
                   filterVars, busVars>>

\* can_send_frame returns false, and changes nothing, when the ring is full;
\* else it fills a slot.
SendFill ==
    /\ pc = "idle"
    /\ TxNext(tx_head) # tx_tail
    /\ \E frame \in Frames :
          tx_buffer' = [tx_buffer EXCEPT ![tx_head] = frame]
    /\ pc' = "publish"
    /\ UNCHANGED <<rx, tx_head, tx_tail, mailbox, tx_done, due, raced,
                   filterVars, busVars>>

SendPublish ==
    /\ pc = "publish"
    /\ tx_head' = TxNext(tx_head)
    /\ due' = IF raced THEN <<>> ELSE Append(due, tx_buffer[tx_head])
    /\ pc' = "check"
    /\ UNCHANGED <<rx, tx_buffer, tx_tail, mailbox, tx_done, raced, filterVars,
                   busVars>>

\* Mutant: the thread leaves the mailbox to the interrupt.
SendNeverLoads ==
    /\ pc = "check"
    /\ pc' = "idle"
    /\ UNCHANGED <<rx, txVars, filterVars, busVars>>

\* The test of TME0 that decides whether the thread runs the loop of
\* can_process_tx_interrupt itself.
SendCheck ==
    /\ pc = "check"
    /\ pc' = IF mailbox = None THEN "ring" ELSE "idle"
    /\ UNCHANGED <<rx, txVars, filterVars, busVars>>

\* The head of the loop reads the ring first, and then the mailbox.
SendTestRing ==
    /\ pc = "ring"
    /\ pc' = IF tx_head # tx_tail THEN "mailbox" ELSE "idle"
    /\ UNCHANGED <<rx, txVars, filterVars, busVars>>

\* The ring may be empty by now: the handler has loaded its last frame, and the
\* frame is on the bus already.
SendTestMailbox ==
    /\ pc = "mailbox"
    /\ IF mailbox = None
         THEN pc' = "load" /\ raced' = (raced \/ tx_head = tx_tail)
         ELSE pc' = "idle" /\ UNCHANGED raced
    /\ due' = IF raced' THEN <<>> ELSE due
    /\ UNCHANGED <<rx, tx, mailbox, tx_done, filterVars, busVars>>

SendLoad ==
    /\ pc = "load"
    /\ mailbox' = tx_buffer[tx_tail]
    /\ pc' = "advance"
    /\ UNCHANGED <<rx, tx, tx_done, due, raced, filterVars, busVars>>

SendAdvance ==
    /\ pc = "advance"
    /\ tx_tail' = TxNext(tx_tail)
    /\ pc' = "ring"
    /\ UNCHANGED <<rx, tx_buffer, tx_head, mailbox, tx_done, due, raced,
                   filterVars, busVars>>

\* Mutant: the handler takes the interrupt and loads nothing.
TxInterruptIdles ==
    /\ ier /\ tx_done
    /\ tx_done' \in {tx_done, FALSE}
    /\ UNCHANGED <<rx, tx, mailbox, raced, due, filterVars, busVars, pc>>

MayLoad == tx_head # tx_tail /\ mailbox = None

\* can_process_tx_interrupt as the handler of the transmit interrupt, which runs
\* to its end: the one mailbox is full after a turn of its loop.  The code never
\* acknowledges the request (RQCP0), so the interrupt may go on being pending.
TxInterrupt ==
    /\ ier /\ tx_done
    /\ tx_done' \in {tx_done, FALSE}
    /\ IF MayLoad
         THEN /\ mailbox' = tx_buffer[tx_tail]
              /\ tx_tail' = TxNext(tx_tail)
              /\ raced' = (raced \/ pc \in {"load", "advance"})
              /\ due' = IF raced' THEN <<>> ELSE due
         ELSE UNCHANGED <<mailbox, tx_tail, raced, due>>
    /\ UNCHANGED <<rx, tx_buffer, tx_head, filterVars, busVars, pc>>

\* The controller puts the frame on the bus, and the mailbox is empty.
Transmit ==
    /\ mailbox # None /\ ~inrq
    /\ mailbox' = None
    /\ tx_done' = TRUE
    /\ due' = IF due # <<>> THEN Tail(due) ELSE due
    /\ UNCHANGED <<rx, tx, raced, filterVars, busVars, pc>>

-----------------------------------------------------------------------------
(* Filters, modes, interrupts and bus-off.                                 *)

\* The lowest free slot, and its bank is active.
can_add_filter ==
    /\ pc = "idle"
    /\ \E filter \in Filters, i \in Slots :
          /\ ~filter_used[i]
          /\ \A k \in Slots : k < i => filter_used[k]
          /\ filters' = [filters EXCEPT ![i] = filter]
          /\ filter_used' = [filter_used EXCEPT ![i] = TRUE]
          /\ fa1r' = fa1r \cup {Bank(i)}
    /\ UNCHANGED <<rx, txVars, busVars, pc>>

can_remove_filter ==
    /\ pc = "idle"
    /\ \E i \in Slots :
          /\ filter_used' = [filter_used EXCEPT ![i] = FALSE]
          /\ fa1r' = fa1r \ {Bank(i)}
    /\ UNCHANGED <<rx, txVars, filters, busVars, pc>>

\* A change of mode ends in leaving the initialisation mode, bus-off or not.
can_set_mode ==
    /\ pc = "idle"
    /\ \E mode \in Modes \ {current_mode} : current_mode' = mode
    /\ inrq' = FALSE
    /\ UNCHANGED <<rx, txVars, filterVars, ier, pc>>

can_recover_from_bus_off ==
    /\ pc = "idle"
    /\ inrq' = FALSE
    /\ UNCHANGED <<rx, txVars, filterVars, current_mode, ier, pc>>

can_enable_interrupts ==
    /\ pc = "idle"
    /\ ier' = TRUE
    /\ UNCHANGED <<rx, txVars, filterVars, current_mode, inrq, pc>>

can_disable_interrupts ==
    /\ pc = "idle"
    /\ ier' = FALSE
    /\ UNCHANGED <<rx, txVars, filterVars, current_mode, inrq, pc>>

\* can_process_error_interrupt when the controller has gone bus-off.
ErrorInterrupt ==
    /\ ier
    /\ inrq' = TRUE
    /\ UNCHANGED <<rx, txVars, filterVars, current_mode, ier, pc>>

InCall ==
    \/ ReceiveAdvance
    \/ SendPublish \/ SendCheck
    \/ SendTestRing \/ SendTestMailbox \/ SendLoad \/ SendAdvance

Calls ==
    \/ ReceiveCopy \/ SendFill
    \/ can_add_filter \/ can_remove_filter
    \/ can_set_mode \/ can_recover_from_bus_off
    \/ can_enable_interrupts \/ can_disable_interrupts

Next ==
    InCall \/ Calls \/ RxInterrupt \/ TxInterrupt \/ ErrorInterrupt \/ Transmit

\* A call goes on, a pending interrupt is taken, and a frame in the mailbox
\* gets on the bus.  Nothing forces a call, a reception or an error.
Spec ==
    /\ Init
    /\ [][Next]_vars
    /\ WF_vars(InCall) /\ WF_vars(TxInterrupt) /\ WF_vars(Transmit)

-----------------------------------------------------------------------------
(* Properties.                                                             *)

TypeOK ==
    /\ rx_buffer \in [0 .. (RX_SIZE - 1) -> Frames \cup {ZeroFrame}]
    /\ rx_head \in 0 .. (RX_SIZE - 1) /\ rx_tail \in 0 .. (RX_SIZE - 1)
    /\ tx_buffer \in [0 .. (TX_SIZE - 1) -> Frames \cup {ZeroFrame}]
    /\ tx_head \in 0 .. (TX_SIZE - 1) /\ tx_tail \in 0 .. (TX_SIZE - 1)
    /\ filters \in [Slots -> Filters \cup {None}]
    /\ filter_used \in [Slots -> BOOLEAN]
    /\ \A i \in Slots : filter_used[i] => filters[i] # None
    /\ fa1r \subseteq {Bank(i) : i \in Slots}
    /\ current_mode \in Modes
    /\ ier \in BOOLEAN /\ inrq \in BOOLEAN /\ tx_done \in BOOLEAN
    /\ mailbox \in Frames \cup {ZeroFrame, None}
    /\ pc \in {"idle", "received", "publish",
               "check", "ring", "mailbox", "load", "advance"}
    /\ due \in Seq(Frames) /\ raced \in BOOLEAN

\* Whatever the receive interrupt does between the test of the ring and the
\* update of rx_tail in can_receive_frame, the accepted frames come out of it
\* once, whole and in order, and only a full ring drops any.
RxQueue ==
    INSTANCE BoundedFifo WITH
        ITEMS    <- Frames,
        CAPACITY <- RX_SIZE - 1,
        queue    <- Contents(rx_buffer, rx_head, rx_tail, RX_SIZE)

RxImplementsFifo == RxQueue!Spec

\* The frames that the driver still has to put on the bus: the one in the
\* mailbox, then those in the ring that are not in the mailbox as well.
Held ==
    LET first == IF pc = "advance" THEN TxNext(tx_tail) ELSE tx_tail
    IN  (IF mailbox = None THEN <<>> ELSE <<mailbox>>)
            \o Contents(tx_buffer, tx_head, first, TX_SIZE)

\* Every frame can_send_frame has taken gets on the bus once and in order,
\* provided that the handler does not take the frame the thread is to load:
\* after the thread has found the mailbox empty and before it has moved tx_tail,
\* or the last frame, and it is on the bus, between the thread's test of the
\* ring and its test of the mailbox.
SentOnceInOrder == ~raced => due = Held

\* No frame is left behind in the ring: outside can_send_frame, a frame waits
\* only for a mailbox that is busy or for an interrupt that is pending, even
\* after the thread and the handler have disturbed one another.
NoFrameStranded ==
    pc \in {"idle", "received", "publish"} /\ tx_head # tx_tail =>
        mailbox # None \/ tx_done

\* The ring drains when the thread stops sending: with interrupts enabled and
\* the controller on the bus, the handler alone empties ring and mailbox.
TxDrains ==
    <>[](ier /\ ~inrq /\ pc = "idle") =>
        <>[](mailbox = None /\ tx_head = tx_tail)
=============================================================================
