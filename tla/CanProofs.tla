----------------------------- MODULE CanProofs -----------------------------
(* Proofs about Can, for rings of every size.                               *)
EXTENDS Can, StructureProofs

\* The positions of a ring wrap to positions of the ring.
LEMMA RingPositions ==
  ASSUME NEW n \in Nat
  PROVE  /\ RxNext(n) \in 0 .. (RX_SIZE - 1)
         /\ TxNext(n) \in 0 .. (TX_SIZE - 1)
  BY CanAssumption DEF RxNext, TxNext

(***************************************************************************)
(* The inductive invariant.                                                *)
(***************************************************************************)

\* The slot that can_send_frame is about to publish holds its frame.
FilledBeforePublished == pc = "publish" => tx_buffer[tx_head] \in Frames

CanInv == TypeOK /\ FilledBeforePublished /\ NoFrameStranded

\* Every ring starts empty.
LEMMA InitInv == Init => CanInv
<1> SUFFICES ASSUME Init PROVE CanInv
  OBVIOUS
<1>1. 0 \in 0 .. (RX_SIZE - 1) /\ 0 \in 0 .. (TX_SIZE - 1)
  BY CanAssumption
<1>2. /\ rx_buffer \in [0 .. (RX_SIZE - 1) -> Frames \cup {ZeroFrame}]
      /\ tx_buffer \in [0 .. (TX_SIZE - 1) -> Frames \cup {ZeroFrame}]
      /\ filters \in [Slots -> Filters \cup {None}]
      /\ filter_used \in [Slots -> BOOLEAN]
      /\ \A n \in Slots : ~filter_used[n]
  BY DEF Init
<1>3. due \in Seq(Frames)
  BY EmptySeq DEF Init
<1>4. TypeOK
  BY <1>1, <1>2, <1>3 DEF Init, TypeOK
<1> QED
  BY <1>4 DEF Init, CanInv, FilledBeforePublished, NoFrameStranded

\* The handlers keep the invariant, wherever they interrupt the thread.
LEMMA InterruptsKeepInv ==
  ASSUME CanInv, RxInterrupt \/ TxInterrupt \/ ErrorInterrupt \/ Transmit
  PROVE  CanInv'
<1> USE DEF CanInv
<1>1. CASE RxInterrupt
  <2>1. rx_head \in Nat
    BY DEF TypeOK
  <2>2. TypeOK'
    BY <1>1, <2>1, RingPositions
       DEF RxInterrupt, TypeOK, txVars, tx, filterVars, busVars
  <2> QED
    BY <1>1, <2>2 DEF RxInterrupt, txVars, tx, FilledBeforePublished, NoFrameStranded
<1>2. CASE TxInterrupt
  <2>1. tx_tail \in Nat
    BY DEF TypeOK
  <2>0. due' \in Seq(Frames) /\ tx_tail' \in 0 .. (TX_SIZE - 1)
    BY <1>2, <2>1, RingPositions, EmptySeq DEF TxInterrupt, TypeOK
  <2>2. TypeOK'
    BY <1>2, <2>0 DEF TxInterrupt, TypeOK, rx, filterVars, busVars
  <2>3. NoFrameStranded'
    BY <1>2, CanAssumption DEF TxInterrupt, MayLoad, NoFrameStranded, TypeOK, ZeroFrame
  <2> QED
    BY <1>2, <2>2, <2>3 DEF TxInterrupt, FilledBeforePublished
<1>3. CASE ErrorInterrupt
  BY <1>3 DEF ErrorInterrupt, rx, txVars, tx, filterVars, TypeOK,
     FilledBeforePublished, NoFrameStranded
<1>4. CASE Transmit
  <2>1. due' \in Seq(Frames)
    BY <1>4 DEF Transmit, TypeOK
  <2> QED
    BY <1>4, <2>1 DEF Transmit, rx, tx, filterVars, busVars, TypeOK,
       FilledBeforePublished, NoFrameStranded
<1> QED
  BY <1>1, <1>2, <1>3, <1>4

\* The thread keeps it at every step of a call.
LEMMA ThreadKeepsInv ==
  ASSUME CanInv, InCall \/ ReceiveCopy \/ SendFill
  PROVE  CanInv'
<1> USE DEF CanInv
<1>0. rx_tail \in Nat /\ tx_head \in Nat /\ tx_tail \in Nat
  BY DEF TypeOK
<1>1. CASE ReceiveCopy
  BY <1>1 DEF ReceiveCopy, rx, txVars, tx, filterVars, busVars, TypeOK,
     FilledBeforePublished, NoFrameStranded
<1>2. CASE ReceiveAdvance
  BY <1>0, <1>2, RingPositions DEF ReceiveAdvance, txVars, tx, filterVars, busVars,
     TypeOK, FilledBeforePublished, NoFrameStranded
<1>3. CASE SendFill
  BY <1>3 DEF SendFill, rx, filterVars, busVars, TypeOK,
     FilledBeforePublished, NoFrameStranded
<1>4. CASE SendPublish
  <2>1. due' \in Seq(Frames)
    BY <1>4 DEF SendPublish, TypeOK, FilledBeforePublished
  <2>2. TypeOK'
    BY <1>0, <1>4, <2>1, RingPositions DEF SendPublish, rx, filterVars, busVars, TypeOK
  <2> QED
    BY <1>4, <2>2 DEF SendPublish, FilledBeforePublished, NoFrameStranded
<1>5. CASE SendCheck \/ SendTestRing
  BY <1>5 DEF SendCheck, SendTestRing, rx, txVars, tx, filterVars, busVars, TypeOK,
     FilledBeforePublished, NoFrameStranded
<1>8. CASE SendTestMailbox
  <2>1. due' \in Seq(Frames) /\ raced' \in BOOLEAN
    BY <1>8, EmptySeq DEF SendTestMailbox, TypeOK
  <2> QED
    BY <1>8, <2>1 DEF SendTestMailbox, rx, tx, filterVars, busVars, TypeOK,
       FilledBeforePublished, NoFrameStranded
<1>6. CASE SendLoad
  BY <1>6 DEF SendLoad, rx, tx, filterVars, busVars, TypeOK,
     FilledBeforePublished, NoFrameStranded
<1>7. CASE SendAdvance
  BY <1>0, <1>7, RingPositions DEF SendAdvance, rx, filterVars, busVars, TypeOK,
     FilledBeforePublished, NoFrameStranded
<1> QED
  BY <1>1, <1>2, <1>3, <1>4, <1>5, <1>6, <1>7, <1>8 DEF InCall

\* So do the calls on the controller, which leave the rings alone.
LEMMA ControlKeepsInv ==
  ASSUME CanInv,
         \/ can_add_filter \/ can_remove_filter
         \/ can_set_mode \/ can_recover_from_bus_off
         \/ can_enable_interrupts \/ can_disable_interrupts
  PROVE  CanInv'
<1> USE DEF CanInv, rx, txVars, tx, filterVars
<1>1. CASE can_add_filter
  <2>1. TypeOK'
    BY <1>1, CanAssumption DEF can_add_filter, busVars, TypeOK
  <2> QED
    BY <1>1, <2>1 DEF can_add_filter, FilledBeforePublished, NoFrameStranded
<1>2. CASE can_remove_filter
  <2>1. TypeOK'
    BY <1>2 DEF can_remove_filter, busVars, TypeOK
  <2> QED
    BY <1>2, <2>1 DEF can_remove_filter, FilledBeforePublished, NoFrameStranded
<1>3. CASE can_set_mode \/ can_recover_from_bus_off
  BY <1>3 DEF can_set_mode, can_recover_from_bus_off, TypeOK,
     FilledBeforePublished, NoFrameStranded
<1>4. CASE can_enable_interrupts \/ can_disable_interrupts
  BY <1>4 DEF can_enable_interrupts, can_disable_interrupts, TypeOK,
     FilledBeforePublished, NoFrameStranded
<1> QED
  BY <1>1, <1>2, <1>3, <1>4

\* Every behaviour keeps the invariant.
LEMMA AlwaysInv == Spec => []CanInv
<1>1. ASSUME CanInv, Next PROVE CanInv'
  BY <1>1, InterruptsKeepInv, ThreadKeepsInv, ControlKeepsInv DEF Next, Calls
<1>2. ASSUME CanInv, UNCHANGED vars PROVE CanInv'
  BY <1>2 DEF vars, rx, txVars, tx, filterVars, busVars, CanInv, TypeOK,
     FilledBeforePublished, NoFrameStranded
<1>3. CanInv /\ [Next]_vars => CanInv'
  BY <1>1, <1>2
<1> QED
  BY <1>3, InitInv, PTL DEF Spec

(***************************************************************************)
(* What the queues add.                                                    *)
(***************************************************************************)

Values == Frames \cup {ZeroFrame}

\* Both rings are rings.
LEMMA BothRings ==
  ASSUME TypeOK
  PROVE  /\ IsRing(rx_buffer, rx_head, rx_tail, RX_SIZE, Values)
         /\ IsRing(tx_buffer, tx_head, tx_tail, TX_SIZE, Values)
  BY CanAssumption DEF TypeOK, IsRing, Values

\* can_receive_frame is only inside when there is a frame to take.
TakesWhatIsThere == pc = "received" => rx_head # rx_tail

\* The receive interrupt may come in between.
LEMMA ReceiveStep ==
  ASSUME TypeOK, TypeOK', TakesWhatIsThere, [Next]_vars
  PROVE  /\ TakesWhatIsThere'
         /\ [RxQueue!Next]_(Contents(rx_buffer, rx_head, rx_tail, RX_SIZE))
<1>1. CASE RxInterrupt
  <2>1. PICK frame \in Frames :
           /\ (rx_head + 1) % RX_SIZE # rx_tail
           /\ rx_buffer' = [rx_buffer EXCEPT ![rx_head] = frame]
           /\ rx_head' = (rx_head + 1) % RX_SIZE
           /\ rx_tail' = rx_tail
    BY <1>1 DEF RxInterrupt, RxNext
  <2>2. frame \in Values
    BY DEF Values
  <2>3. /\ Contents(rx_buffer', rx_head', rx_tail', RX_SIZE)
               = Append(Contents(rx_buffer, rx_head, rx_tail, RX_SIZE), frame)
        /\ Len(Contents(rx_buffer, rx_head, rx_tail, RX_SIZE)) < RX_SIZE - 1
    <3>1. PICK w, g : w = rx_buffer' /\ g = rx_head'
      OBVIOUS
    <3>2. Puts(rx_buffer, rx_head, rx_tail, RX_SIZE, Values, frame, w, g)
      BY <2>1, <2>2, <3>1, BothRings DEF Puts
    <3>3. /\ Contents(w, g, rx_tail, RX_SIZE)
               = Append(Contents(rx_buffer, rx_head, rx_tail, RX_SIZE), frame)
          /\ Len(Contents(rx_buffer, rx_head, rx_tail, RX_SIZE)) < RX_SIZE - 1
      BY <3>2, RingPut
    <3> QED
      BY <2>1, <3>1, <3>3
  <2>4. TakesWhatIsThere'
    BY <2>1 DEF TakesWhatIsThere
  <2> QED
    BY <2>3, <2>4 DEF RxQueue!Next, RxQueue!Put
<1>2. CASE ReceiveAdvance
  <2>1. /\ rx_buffer' = rx_buffer /\ rx_head' = rx_head
        /\ rx_tail' = (rx_tail + 1) % RX_SIZE
        /\ rx_head # rx_tail /\ pc' = "idle"
    BY <1>2 DEF ReceiveAdvance, RxNext, TakesWhatIsThere
  <2>2. /\ Contents(rx_buffer', rx_head', rx_tail', RX_SIZE)
               = Tail(Contents(rx_buffer, rx_head, rx_tail, RX_SIZE))
        /\ Contents(rx_buffer, rx_head, rx_tail, RX_SIZE) # <<>>
    <3>1. PICK u : u = rx_tail'
      OBVIOUS
    <3>2. Gets(rx_buffer, rx_head, rx_tail, RX_SIZE, Values, u)
      BY <2>1, <3>1, BothRings DEF Gets
    <3>3. /\ Contents(rx_buffer, rx_head, u, RX_SIZE)
               = Tail(Contents(rx_buffer, rx_head, rx_tail, RX_SIZE))
          /\ Contents(rx_buffer, rx_head, rx_tail, RX_SIZE) # <<>>
      BY <3>2, RingGet
    <3> QED
      BY <2>1, <3>1, <3>3
  <2> QED
    BY <2>1, <2>2 DEF RxQueue!Next, RxQueue!Get, TakesWhatIsThere
<1>3. CASE UNCHANGED rx /\ (pc' = "received" => rx_head # rx_tail)
  BY <1>3 DEF rx, TakesWhatIsThere
<1>4. CASE UNCHANGED vars
  BY <1>4 DEF vars, rx, TakesWhatIsThere
<1>5. Next => RxInterrupt \/ ReceiveAdvance
              \/ (UNCHANGED rx /\ (pc' = "received" => rx_head # rx_tail))
  BY DEF Next, InCall, Calls, ReceiveCopy, SendPublish, SendCheck,
     SendTestRing, SendTestMailbox, txVars, SendLoad, SendAdvance, SendFill, can_add_filter, can_remove_filter, can_set_mode,
     can_recover_from_bus_off, can_enable_interrupts, can_disable_interrupts,
     TxInterrupt, ErrorInterrupt, Transmit, TakesWhatIsThere
<1> QED
  BY <1>1, <1>2, <1>3, <1>4, <1>5

\* The windows of can_send_frame: while it fills a slot there is room, and
\* until the handler loads what the thread is to load the frame is there and
\* the mailbox empty.
SendWindows ==
    /\ pc = "publish" => TxNext(tx_head) # tx_tail
    /\ pc \in {"load", "advance"} /\ ~raced => tx_head # tx_tail
    /\ pc = "load" /\ ~raced => mailbox = None

\* Two positions of a ring have different next positions.
LEMMA NextIsInjective ==
  ASSUME NEW h \in 0 .. (TX_SIZE - 1), NEW t \in 0 .. (TX_SIZE - 1), h # t
  PROVE  TxNext(h) # TxNext(t)
  BY CanAssumption DEF TxNext

\* The thread and the handlers keep the windows.
LEMMA WindowsKept ==
  ASSUME TypeOK, SendWindows, [Next]_vars
  PROVE  SendWindows'
<1>0. tx_head \in 0 .. (TX_SIZE - 1) /\ tx_tail \in 0 .. (TX_SIZE - 1)
  BY DEF TypeOK
<1>1. CASE TxInterrupt
  BY <1>0, <1>1, NextIsInjective DEF TxInterrupt, MayLoad, SendWindows
<1>2. CASE \/ SendPublish \/ SendAdvance \/ SendCheck \/ SendLoad \/ SendFill
           \/ SendTestRing \/ SendTestMailbox
  BY <1>0, <1>2 DEF SendPublish, SendAdvance, SendCheck, SendLoad, SendFill,
     SendTestRing, SendTestMailbox, tx, txVars, SendWindows
<1>3. CASE ReceiveCopy \/ ReceiveAdvance \/ RxInterrupt
  BY <1>3 DEF ReceiveCopy, ReceiveAdvance, RxInterrupt, txVars, tx, SendWindows
<1>4. CASE Transmit
  BY <1>4 DEF Transmit, tx, SendWindows
<1>5. CASE \/ can_add_filter \/ can_remove_filter
           \/ can_set_mode \/ can_recover_from_bus_off
           \/ can_enable_interrupts \/ can_disable_interrupts \/ ErrorInterrupt
  BY <1>5 DEF can_add_filter, can_remove_filter, can_set_mode,
     can_recover_from_bus_off, can_enable_interrupts, can_disable_interrupts,
     ErrorInterrupt, txVars, tx, SendWindows
<1>6. CASE UNCHANGED vars
  BY <1>6 DEF vars, txVars, tx, SendWindows
<1> QED
  BY <1>1, <1>2, <1>3, <1>4, <1>5, <1>6 DEF Next, InCall, Calls

\* What the driver holds, for the values of its variables.
Mail(m) == IF m = None THEN <<>> ELSE <<m>>
InRing(b, h, t) == Contents(b, h, t, TX_SIZE)

\* The thread and the handlers keep the order of the frames that are due.
LEMMA OrderKept ==
  ASSUME TypeOK, TypeOK', FilledBeforePublished, SendWindows, SentOnceInOrder, [Next]_vars
  PROVE  SentOnceInOrder'
<1> SUFFICES ASSUME ~raced' PROVE due' = Held'
  BY DEF SentOnceInOrder
<1>0. ~raced /\ due = Held
  BY DEF SentOnceInOrder, Next, InCall, Calls, ReceiveCopy, ReceiveAdvance,
     SendPublish, SendCheck, SendTestRing, SendTestMailbox, SendLoad, SendAdvance,
     SendFill, can_add_filter, can_remove_filter, can_set_mode, can_recover_from_bus_off,
     can_enable_interrupts, can_disable_interrupts, RxInterrupt, TxInterrupt,
     ErrorInterrupt, Transmit, vars, txVars, TypeOK
<1>1. /\ IsRing(tx_buffer, tx_head, tx_tail, TX_SIZE, Values)
      /\ mailbox \in Values \cup {None} /\ None \notin Values
  BY BothRings, CanAssumption DEF TypeOK, Values, ZeroFrame
<1>2. ASSUME pc # "advance" PROVE Held = Mail(mailbox) \o InRing(tx_buffer, tx_head, tx_tail)
  BY <1>2 DEF Held, Mail, InRing
<1>3. ASSUME pc' # "advance"
      PROVE  Held' = Mail(mailbox') \o InRing(tx_buffer', tx_head', tx_tail')
  BY <1>3 DEF Held, Mail, InRing
<1>4. ASSUME pc = "advance"
      PROVE  Held = Mail(mailbox) \o InRing(tx_buffer, tx_head, TxNext(tx_tail))
  BY <1>4 DEF Held, Mail, InRing
<1>5. ASSUME pc' = "advance"
      PROVE  Held' = Mail(mailbox') \o InRing(tx_buffer', tx_head', TxNext(tx_tail'))
  BY <1>5 DEF Held, Mail, InRing
<1>6. /\ InRing(tx_buffer, tx_head, tx_tail) \in Seq(Values)
      /\ InRing(tx_buffer, tx_head, TxNext(tx_tail)) \in Seq(Values)
  <2>1. IsRing(tx_buffer, tx_head, TxNext(tx_tail), TX_SIZE, Values)
    BY <1>1 DEF IsRing, TxNext
  <2> QED
    BY <1>1, <2>1, ContentsAre DEF InRing
<1>7. Mail(mailbox) \in Seq(Values)
  BY <1>1, EmptySeq DEF Mail
\* What leaves the ring for an empty mailbox stays in front.
<1>8. ASSUME tx_head # tx_tail
      PROVE  <<tx_buffer[tx_tail]>> \o InRing(tx_buffer, tx_head, TxNext(tx_tail))
                = <<>> \o InRing(tx_buffer, tx_head, tx_tail)
             /\ tx_buffer[tx_tail] \in Values
  <2>1. PICK c : c = InRing(tx_buffer, tx_head, tx_tail)
    OBVIOUS
  <2>2. c \in Seq(Values) /\ c # <<>> /\ Head(c) = tx_buffer[tx_tail]
        /\ InRing(tx_buffer, tx_head, TxNext(tx_tail)) = Tail(c)
    <3>1. PICK u : u = TxNext(tx_tail)
      OBVIOUS
    <3>2. Gets(tx_buffer, tx_head, tx_tail, TX_SIZE, Values, u)
      BY <1>1, <1>8, <3>1 DEF TxNext, Gets
    <3>3. c = Contents(tx_buffer, tx_head, tx_tail, TX_SIZE) /\ c \in Seq(Values)
      BY <1>6, <2>1 DEF InRing
    <3>4. c # <<>> /\ Head(c) = tx_buffer[tx_tail]
          /\ Contents(tx_buffer, tx_head, u, TX_SIZE) = Tail(c)
      BY <3>2, <3>3, RingGet
    <3> QED
      BY <3>1, <3>3, <3>4 DEF InRing
  <2>3. tx_buffer[tx_tail] \in Values
    BY <1>1 DEF IsRing
  <2>4. <<Head(c)>> \o Tail(c) = c
    BY <2>2, <2>3, HeadThenTail
  <2>5. <<>> \o c = c
    BY <2>2, ConcatEmptySeq
  <2> QED
    BY <2>1, <2>2, <2>3, <2>4, <2>5
<1>11. CASE TxInterrupt
  <2>1. CASE MayLoad
    <3>1. /\ mailbox' = tx_buffer[tx_tail] /\ tx_tail' = TxNext(tx_tail)
          /\ tx_buffer' = tx_buffer /\ tx_head' = tx_head /\ pc' = pc
          /\ pc \notin {"load", "advance"} /\ due' = due
          /\ mailbox = None /\ tx_head # tx_tail
      BY <1>0, <1>11, <2>1 DEF TxInterrupt, MayLoad, TypeOK
    <3>2. mailbox' # None
      BY <3>1, <1>1, <1>8
    <3>3. Mail(mailbox) = <<>> /\ Mail(mailbox') = <<tx_buffer[tx_tail]>>
      BY <3>1, <3>2 DEF Mail
    <3> QED
      BY <1>0, <1>2, <1>3, <1>8, <3>1, <3>3
  <2>2. CASE ~MayLoad
    BY <1>0, <1>11, <2>2 DEF TxInterrupt, Held
  <2> QED
    BY <2>1, <2>2
<1>12. CASE Transmit
  <2>1. /\ mailbox # None /\ mailbox' = None /\ pc' = pc
        /\ due' = IF due # <<>> THEN Tail(due) ELSE due
        /\ tx_buffer' = tx_buffer /\ tx_head' = tx_head /\ tx_tail' = tx_tail
    BY <1>12 DEF Transmit, tx
  <2>2. PICK t : t = IF pc = "advance" THEN TxNext(tx_tail) ELSE tx_tail
    OBVIOUS
  <2>3. PICK c : c = InRing(tx_buffer, tx_head, t)
    OBVIOUS
  <2>4. c \in Seq(Values) /\ due = <<mailbox>> \o c /\ Held' = <<>> \o c
    BY <1>0, <1>2, <1>3, <1>4, <1>5, <1>6, <2>1, <2>2, <2>3 DEF Mail
  <2>5. mailbox \in Values
    BY <1>1, <2>1
  <2>6. due # <<>> /\ Tail(due) = c
    BY <2>4, <2>5, HeadThenTail
  <2>7. <<>> \o c = c
    BY <2>4, ConcatEmptySeq
  <2> QED
    BY <2>1, <2>4, <2>6, <2>7
<1>13. CASE SendFill
  <2>1. PICK frame \in Frames : tx_buffer' = [tx_buffer EXCEPT ![tx_head] = frame]
    BY <1>13 DEF SendFill
  <2>2. frame \in Values
    BY DEF Values
  <2>3. Contents([tx_buffer EXCEPT ![tx_head] = frame], tx_head, tx_tail, TX_SIZE)
           = Contents(tx_buffer, tx_head, tx_tail, TX_SIZE)
    BY <1>1, <2>2, RingFill
  <2>4. pc = "idle" /\ pc' = "publish" /\ mailbox' = mailbox /\ due' = due
        /\ tx_head' = tx_head /\ tx_tail' = tx_tail
    BY <1>13 DEF SendFill
  <2>5. InRing(tx_buffer', tx_head', tx_tail') = InRing(tx_buffer, tx_head, tx_tail)
    BY <2>1, <2>3, <2>4 DEF InRing
  <2> QED
    BY <1>0, <1>2, <1>3, <2>4, <2>5
<1>14. CASE SendPublish
  <2>1. PICK v : v = tx_buffer[tx_head]
    OBVIOUS
  <2>2. /\ pc = "publish" /\ pc' = "check" /\ tx_head' = TxNext(tx_head)
        /\ due' = Append(due, v) /\ tx_buffer' = tx_buffer /\ tx_tail' = tx_tail
        /\ mailbox' = mailbox /\ TxNext(tx_head) # tx_tail
    BY <1>0, <1>14, <2>1 DEF SendPublish, SendWindows
  <2>3. v \in Values /\ tx_buffer = [tx_buffer EXCEPT ![tx_head] = v]
    BY <1>1, <2>1 DEF IsRing
  <2>4. InRing(tx_buffer, TxNext(tx_head), tx_tail)
           = Append(InRing(tx_buffer, tx_head, tx_tail), v)
    <3>1. PICK g : g = TxNext(tx_head)
      OBVIOUS
    <3>2. Puts(tx_buffer, tx_head, tx_tail, TX_SIZE, Values, v, tx_buffer, g)
      BY <1>1, <2>2, <2>3, <3>1 DEF TxNext, Puts
    <3>3. Contents(tx_buffer, g, tx_tail, TX_SIZE)
             = Append(Contents(tx_buffer, tx_head, tx_tail, TX_SIZE), v)
      BY <3>2, RingPut
    <3> QED
      BY <3>1, <3>3 DEF InRing
  <2>5. PICK c : c = InRing(tx_buffer, tx_head, tx_tail)
    OBVIOUS
  <2>6. PICK m : m = Mail(mailbox)
    OBVIOUS
  <2>7. m \in Seq(Values) /\ c \in Seq(Values) /\ <<v>> \in Seq(Values)
    BY <1>6, <1>7, <2>3, <2>5, <2>6
  <2>8. Append(m \o c, v) = m \o Append(c, v)
    <3>1. m \o c \in Seq(Values)
      BY <2>7, ConcatProperties
    <3>2. Append(m \o c, v) = (m \o c) \o <<v>> /\ Append(c, v) = c \o <<v>>
      BY <2>3, <2>7, <3>1, AppendIsConcat
    <3> QED
      BY <2>7, <3>2, ConcatAssociative
  <2>9. due = m \o c
    BY <1>0, <1>2, <2>2, <2>5, <2>6
  <2>10. Held' = m \o Append(c, v)
    BY <1>3, <2>2, <2>4, <2>5, <2>6
  <2> QED
    BY <2>2, <2>8, <2>9, <2>10
<1>15. CASE SendLoad
  <2>1. /\ pc = "load" /\ pc' = "advance" /\ mailbox' = tx_buffer[tx_tail]
        /\ tx_buffer' = tx_buffer /\ tx_head' = tx_head /\ tx_tail' = tx_tail
        /\ due' = due /\ mailbox = None /\ tx_head # tx_tail
    BY <1>0, <1>15 DEF SendLoad, tx, SendWindows
  <2>2. Mail(mailbox) = <<>> /\ Mail(mailbox') = <<tx_buffer[tx_tail]>>
    BY <1>1, <1>8, <2>1 DEF Mail
  <2> QED
    BY <1>0, <1>2, <1>5, <1>8, <2>1, <2>2
<1>16. CASE SendAdvance
  BY <1>0, <1>16 DEF SendAdvance, Held
<1>17. CASE \/ SendCheck \/ SendTestRing \/ SendTestMailbox
            \/ ReceiveCopy \/ ReceiveAdvance \/ RxInterrupt
  BY <1>0, <1>17 DEF SendCheck, SendTestRing, SendTestMailbox, ReceiveCopy, ReceiveAdvance, RxInterrupt, txVars, tx, Held
<1>18. CASE \/ can_add_filter \/ can_remove_filter
            \/ can_set_mode \/ can_recover_from_bus_off
            \/ can_enable_interrupts \/ can_disable_interrupts \/ ErrorInterrupt
  BY <1>0, <1>18 DEF can_add_filter, can_remove_filter, can_set_mode,
     can_recover_from_bus_off, can_enable_interrupts, can_disable_interrupts,
     ErrorInterrupt, txVars, tx, Held
<1>19. CASE UNCHANGED vars
  BY <1>0, <1>19 DEF vars, txVars, tx, Held
<1> QED
  BY <1>11, <1>12, <1>13, <1>14, <1>15, <1>16, <1>17, <1>18, <1>19 DEF Next, InCall, Calls

(***************************************************************************)
(* The theorems.                                                           *)
(***************************************************************************)

\* The variables of can.c keep their types: no index leaves its ring.
THEOREM TypeCorrect == Spec => []TypeOK
<1>1. CanInv => TypeOK
  BY DEF CanInv
<1> QED
  BY <1>1, AlwaysInv, PTL

\* Outside can_send_frame a frame waits in the transmit ring only for a busy
\* mailbox or a pending interrupt.
THEOREM FramesAreNotStranded == Spec => []NoFrameStranded
<1>1. CanInv => NoFrameStranded
  BY DEF CanInv
<1> QED
  BY <1>1, AlwaysInv, PTL

\* The receive ring is a queue: what the receive interrupt accepts comes out of
\* can_receive_frame once, whole and in order, for every size of the ring and
\* wherever the interrupt comes in.
THEOREM ReceiveRingIsAQueue == Spec => RxImplementsFifo
<1>1. Init => RxQueue!Init /\ TakesWhatIsThere
  <2> SUFFICES ASSUME Init PROVE RxQueue!Init /\ TakesWhatIsThere
    OBVIOUS
  <2>1. TypeOK
    BY InitInv DEF CanInv
  <2>2. Contents(rx_buffer, rx_head, rx_tail, RX_SIZE) = <<>>
    BY <2>1, BothRings, ContentsAre DEF Init
  <2> QED
    BY <2>2 DEF RxQueue!Init, Init, TakesWhatIsThere
<1>2. CanInv => TypeOK
  BY DEF CanInv
<1>3. TypeOK /\ TypeOK' /\ TakesWhatIsThere /\ [Next]_vars =>
         /\ TakesWhatIsThere'
         /\ [RxQueue!Next]_(Contents(rx_buffer, rx_head, rx_tail, RX_SIZE))
  BY ReceiveStep
<1> QED
  BY <1>1, <1>2, <1>3, AlwaysInv, PTL DEF Spec, RxImplementsFifo, RxQueue!Spec

\* Every frame can_send_frame has taken gets on the bus once and in order, as
\* long as the handler has not taken the frame that the thread is to load,
\* between the thread's tests of ring and mailbox and its update of tx_tail.
THEOREM FramesGoOutOnceInOrder == Spec => []SentOnceInOrder
<1>1. Init => SendWindows /\ SentOnceInOrder
  <2> SUFFICES ASSUME Init PROVE SendWindows /\ SentOnceInOrder
    OBVIOUS
  <2>1. TypeOK
    BY InitInv DEF CanInv
  <2>2. PICK c : c = Contents(tx_buffer, tx_head, tx_tail, TX_SIZE)
    OBVIOUS
  <2>3. c = <<>> /\ c \in Seq(Values)
    BY <2>1, <2>2, BothRings, ContentsAre DEF Init
  <2>4. Held = <<>> \o c
    BY <2>2 DEF Held, Init
  <2>5. <<>> \o c = <<>>
    BY <2>3, ConcatEmptySeq
  <2> QED
    BY <2>4, <2>5 DEF Init, SendWindows, SentOnceInOrder
<1>2. CanInv => TypeOK /\ FilledBeforePublished
  BY DEF CanInv
<1>3. TypeOK /\ TypeOK' /\ FilledBeforePublished /\ SendWindows /\ SentOnceInOrder
         /\ [Next]_vars => SendWindows' /\ SentOnceInOrder'
  BY WindowsKept, OrderKept
<1> QED
  BY <1>1, <1>2, <1>3, AlwaysInv, PTL DEF Spec
=============================================================================
