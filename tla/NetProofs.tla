----------------------------- MODULE NetProofs -----------------------------
(***************************************************************************)
(* The network below the transport protocols: the controller's rings and   *)
(* the network core (E1000, Net), routes (Routes), and fragments           *)
(* (Fragments), for every number of interfaces and descriptors, every      *)
(* routing table and every size of packet.                                 *)
(***************************************************************************)
EXTENDS Routes, Fragments, Net, FiniteSetTheorems, StructureProofs

-----------------------------------------------------------------------------
(* The receive ring of one controller.                                     *)

Registers ==
    [en : BOOLEAN, rdh : Descs, rdt : Descs,
     ring : {"none", "live", "leaked", "freed"}, arrived : Nat]

\* The w frames behind got stand from descriptor t on, and nothing else.
Row(rx, t, w, got, n) ==
    \A k \in 0 .. (n - 1) : rx[Slot(t, k, n)] = IF k < w THEN got + k + 1 ELSE 0

\* The w frames that wait stand from rx_cur on, the controller fills the
\* descriptor behind them and stops at the one before rx_cur; nothing has been
\* sent.
RingOK(d, h) ==
    /\ d \in Device
    /\ h.arrived - d.got \in Descs
    /\ h.rdh = Slot(d.rx_cur, h.arrived - d.got, NUM_DESC)
    /\ h.rdt = Slot(d.rx_cur, NUM_DESC - 1, NUM_DESC)
    /\ Row(d.rx, d.rx_cur, h.arrived - d.got, d.got, NUM_DESC)
    /\ d.tx = NewTxDescs
    /\ h.ring = "live"

\* What holds of the driver's and the controller's side of one interface.
IfaceOK(d, h) ==
    /\ h \in Registers
    /\ h.en => h.ring \in {"live", "leaked"}
    /\ d = NoDevice \/ RingOK(d, h)
    /\ h.ring = "live" => d # NoDevice

E1000Inv ==
    /\ dev \in [Ifaces -> Device \cup {NoDevice}]
    /\ hw \in [Ifaces -> Registers]
    /\ \A i \in Ifaces : IfaceOK(dev[i], hw[i])

\* Descriptors are numbered modulo NUM_DESC.
LEMMA DescSlots ==
  ASSUME NEW t \in Descs, NEW k \in 0 .. NUM_DESC
  PROVE  /\ NUM_DESC \in Nat \ {0, 1} /\ 0 \in Descs /\ NUM_DESC - 1 \in Descs
         /\ (t + k) % NUM_DESC = Slot(t, k, NUM_DESC)
         /\ Slot(t, k, NUM_DESC) \in Descs
<1>1. NUM_DESC \in Nat \ {0, 1}
  BY E1000Assumption
<1>2. t \in 0 .. (NUM_DESC - 1) /\ 0 \in 0 .. (NUM_DESC - 1)
  BY <1>1 DEF Descs
<1> QED
  BY <1>1, <1>2, Remainders DEF Descs

\* Different offsets are different slots.
LEMMA SlotsDiffer ==
  ASSUME NEW n \in Nat \ {0}, NEW t \in 0 .. (n - 1),
         NEW j \in 0 .. (n - 1), NEW k \in 0 .. (n - 1)
  PROVE  /\ Slot(t, j, n) \in 0 .. (n - 1)
         /\ Slot(t, 0, n) = t
         /\ Slot(t, j, n) = Slot(t, k, n) => j = k
  BY DEF Slot

\* From the second descriptor on.
LEMMA NextSlot ==
  ASSUME NEW n \in Nat \ {0, 1}, NEW t \in 0 .. (n - 1), NEW k \in 0 .. (n - 2)
  PROVE  /\ Slot(Slot(t, 1, n), n - 1, n) = t
         /\ Slot(Slot(t, 1, n), k, n) = Slot(t, k + 1, n)
         /\ Slot(Slot(t, 1, n), k, n) # t /\ Slot(Slot(t, 1, n), k, n) \in 0 .. (n - 1)
<1> DEFINE c == Slot(t, 1, n)
<1> HIDE DEF c
<1> SUFFICES /\ Slot(c, n - 1, n) = t
             /\ Slot(c, k, n) = Slot(t, k + 1, n)
             /\ Slot(c, k, n) # t /\ Slot(c, k, n) \in 0 .. (n - 1)
  BY DEF c
<1>1. CASE t + 1 < n
  <2>1. c = t + 1
    BY <1>1 DEF Slot, c
  <2> QED
    BY <1>1, <2>1 DEF Slot
<1>2. CASE ~(t + 1 < n)
  <2>1. c = 0 /\ t = n - 1
    BY <1>2 DEF Slot, c
  <2> QED
    BY <2>1 DEF Slot
<1> QED
  BY <1>1, <1>2

\* A frame behind those that wait.
LEMMA RowGrows ==
  ASSUME NEW n \in Nat \ {0, 1}, NEW t \in 0 .. (n - 1), NEW w \in 0 .. (n - 2),
         NEW got \in Nat, NEW rx \in [0 .. (n - 1) -> Nat],
         Row(rx, t, w, got, n), NEW x, x = Slot(t, w, n)
  PROVE  /\ Row([rx EXCEPT ![x] = got + w + 1], t, w + 1, got, n)
         /\ Slot(x, 1, n) = Slot(t, w + 1, n) /\ x \in 0 .. (n - 1)
<1> DEFINE new == [rx EXCEPT ![x] = got + w + 1]
<1>1. x \in 0 .. (n - 1) /\ w \in 0 .. (n - 1)
  BY SlotsDiffer
<1>2. Slot(x, 1, n) = Slot(t, w + 1, n)
  <2>1. CASE t + w < n
    BY <2>1 DEF Slot
  <2>2. CASE ~(t + w < n)
    BY <2>2 DEF Slot
  <2> QED
    BY <2>1, <2>2
<1>3. ASSUME NEW k \in 0 .. (n - 1)
      PROVE  new[Slot(t, k, n)] = IF k < w + 1 THEN got + k + 1 ELSE 0
  <2>1. CASE k = w
    BY <1>1, <2>1
  <2>2. CASE k # w
    <3>1. Slot(t, k, n) \in 0 .. (n - 1) /\ Slot(t, k, n) # x
      BY <1>1, <2>2, SlotsDiffer
    <3>2. new[Slot(t, k, n)] = rx[Slot(t, k, n)]
      BY <3>1
    <3>3. rx[Slot(t, k, n)] = IF k < w THEN got + k + 1 ELSE 0
      BY DEF Row
    <3>4. k < w + 1 <=> k < w
      BY <2>2
    <3> QED
      BY <3>2, <3>3, <3>4
  <2> QED
    BY <2>1, <2>2
<1> HIDE DEF new
<1>4. Row(new, t, w + 1, got, n)
  BY <1>3 DEF Row
<1> QED
  BY <1>1, <1>2, <1>4 DEF new

\* The frame at the front is the oldest.
LEMMA RowFront ==
  ASSUME NEW n \in Nat \ {0, 1}, NEW t \in 0 .. (n - 1), NEW w \in 0 .. (n - 1),
         NEW got \in Nat, NEW rx, Row(rx, t, w, got, n), rx[t] # 0
  PROVE  w \in 1 .. (n - 1) /\ rx[t] = got + 1
<1>1. 0 \in 0 .. (n - 1) /\ Slot(t, 0, n) = t
  BY SlotsDiffer
<1>2. rx[t] = IF 0 < w THEN got + 0 + 1 ELSE 0
  BY <1>1 DEF Row
<1>3. 0 < w
  BY <1>2
<1> QED
  BY <1>2, <1>3

\* It goes.
LEMMA RowShrinks ==
  ASSUME NEW n \in Nat \ {0, 1}, NEW t \in 0 .. (n - 1), NEW w \in 1 .. (n - 1),
         NEW got \in Nat, NEW rx \in [0 .. (n - 1) -> Nat],
         Row(rx, t, w, got, n)
  PROVE  /\ Row([rx EXCEPT ![t] = 0], Slot(t, 1, n), w - 1, got + 1, n)
         /\ Slot(Slot(t, 1, n), w - 1, n) = Slot(t, w, n)
         /\ Slot(Slot(t, 1, n), n - 1, n) = t
<1> DEFINE new == [rx EXCEPT ![t] = 0]
           c == Slot(t, 1, n)
<1>3. w - 1 \in 0 .. (n - 2) /\ (w - 1) + 1 = w
  OBVIOUS
<1>4. Slot(c, w - 1, n) = Slot(t, w, n) /\ Slot(c, n - 1, n) = t
  BY <1>3, NextSlot
<1>5. ASSUME NEW k \in 0 .. (n - 1)
      PROVE  new[Slot(c, k, n)] = IF k < w - 1 THEN (got + 1) + k + 1 ELSE 0
  <2>1. CASE k = n - 1
    <3>1. new[Slot(c, k, n)] = 0
      BY <1>4, <2>1
    <3>2. ~(k < w - 1)
      BY <2>1
    <3> QED
      BY <3>1, <3>2
  <2>2. CASE k # n - 1
    <3>1. k \in 0 .. (n - 2) /\ k + 1 \in 0 .. (n - 1)
      BY <2>2
    <3>2. new[Slot(c, k, n)] = rx[Slot(t, k + 1, n)]
      <4>1. /\ Slot(c, k, n) = Slot(t, k + 1, n)
            /\ Slot(c, k, n) # t /\ Slot(c, k, n) \in 0 .. (n - 1)
        BY <3>1, NextSlot
      <4> QED
        BY <4>1
    <3>3. rx[Slot(t, k + 1, n)] = IF k + 1 < w THEN got + (k + 1) + 1 ELSE 0
      BY <3>1 DEF Row
    <3>4. (k + 1 < w <=> k < w - 1) /\ got + (k + 1) + 1 = (got + 1) + k + 1
      OBVIOUS
    <3> QED
      BY <3>2, <3>3, <3>4
  <2> QED
    BY <2>1, <2>2
<1> HIDE DEF new
<1>6. Row(new, c, w - 1, got + 1, n)
  BY <1>5 DEF Row
<1> QED
  BY <1>4, <1>6 DEF new

\* e1000_init leaves an empty ring.
LEMMA NewRing == RingOK(NewDevice, RunningHw("live")) /\ RunningHw("live") \in Registers
<1>1. NUM_DESC \in Nat \ {0, 1} /\ 0 \in Descs /\ NUM_DESC - 1 \in Descs
  BY E1000Assumption DEF Descs
<1>2. NewTxDescs \in [Descs -> BOOLEAN] /\ [d \in Descs |-> 0] \in [Descs -> Nat]
  BY DEF NewTxDescs
<1>3. NewDevice \in Device
  BY <1>1, <1>2 DEF NewDevice, Device
<1>4. RunningHw("live") = [en |-> TRUE, rdh |-> 0, rdt |-> NUM_DESC - 1,
                           ring |-> "live", arrived |-> 0]
  BY DEF RunningHw
<1>5. Slot(0, 0, NUM_DESC) = 0 /\ Slot(0, NUM_DESC - 1, NUM_DESC) = NUM_DESC - 1
      /\ \A k \in Descs : Slot(0, k, NUM_DESC) = k
  BY <1>1 DEF Slot, Descs
<1>6. RunningHw("live") \in Registers
  BY <1>1 DEF Registers, RunningHw
<1>7. /\ NewDevice.rx_cur = 0 /\ NewDevice.got = 0 /\ NewDevice.tx = NewTxDescs
      /\ NewDevice.rx = [d \in Descs |-> 0]
  BY DEF NewDevice
<1>8. 0 - 0 = 0 /\ Row(NewDevice.rx, 0, 0, 0, NUM_DESC)
  BY <1>1, <1>5, <1>7 DEF Row, Descs
<1> QED
  BY <1>1, <1>3, <1>4, <1>5, <1>6, <1>7, <1>8 DEF RingOK

\* The parts of a device and of the registers.
LEMMA RingParts ==
  ASSUME NEW d, NEW h \in Registers, RingOK(d, h)
  PROVE  /\ NUM_DESC \in Nat \ {0, 1} /\ Descs = 0 .. (NUM_DESC - 1)
         /\ d.rx_cur \in Descs /\ d.got \in Nat /\ d.rx \in [Descs -> Nat]
         /\ h.arrived \in Nat /\ h.rdh \in Descs /\ h.rdt \in Descs
  BY E1000Assumption DEF RingOK, Device, Registers, Descs

\* The controller stores a frame behind those that wait.
LEMMA FrameIsStored ==
  ASSUME NEW d, NEW h \in Registers, RingOK(d, h), h.rdh # h.rdt
  PROVE  LET e == [d EXCEPT !.rx[h.rdh] = h.arrived + 1]
             g == [h EXCEPT !.rdh = (@ + 1) % NUM_DESC, !.arrived = @ + 1]
         IN  RingOK(e, g) /\ g \in Registers
<1> DEFINE e == [d EXCEPT !.rx[h.rdh] = h.arrived + 1]
           g == [h EXCEPT !.rdh = (@ + 1) % NUM_DESC, !.arrived = @ + 1]
<1>0. /\ NUM_DESC \in Nat \ {0, 1} /\ Descs = 0 .. (NUM_DESC - 1)
      /\ d.rx_cur \in Descs /\ d.got \in Nat /\ d.rx \in [Descs -> Nat]
      /\ h.arrived \in Nat /\ h.rdh \in Descs /\ h.rdt \in Descs
  BY RingParts
<1>1. PICK w \in Descs : w = h.arrived - d.got
  BY DEF RingOK
<1>2. /\ h.rdh = Slot(d.rx_cur, w, NUM_DESC)
      /\ h.rdt = Slot(d.rx_cur, NUM_DESC - 1, NUM_DESC)
      /\ Row(d.rx, d.rx_cur, w, d.got, NUM_DESC)
      /\ d \in Device /\ d.tx = NewTxDescs /\ h.ring = "live"
  BY <1>1 DEF RingOK
<1>3. w # NUM_DESC - 1
  BY <1>2
<1>4. /\ w \in 0 .. (NUM_DESC - 2) /\ w + 1 \in Descs /\ h.arrived = d.got + w
      /\ 1 \in 0 .. NUM_DESC
  <2>1. PICK n, a, o : n = NUM_DESC /\ a = h.arrived /\ o = d.got
    OBVIOUS
  <2>2. /\ n \in Nat \ {0, 1} /\ w \in 0 .. (n - 1) /\ w # n - 1
        /\ a \in Nat /\ o \in Nat /\ w = a - o
    BY <1>0, <1>1, <1>3, <2>1
  <2>3. w \in 0 .. (n - 2) /\ w + 1 \in 0 .. (n - 1) /\ a = o + w /\ 1 \in 0 .. n
    BY <2>2
  <2> QED
    BY <1>0, <2>1, <2>3
<1>5. /\ Row([d.rx EXCEPT ![h.rdh] = d.got + w + 1], d.rx_cur, w + 1, d.got, NUM_DESC)
      /\ Slot(h.rdh, 1, NUM_DESC) = Slot(d.rx_cur, w + 1, NUM_DESC)
  <2>1. PICK t, x, got, rx : t = d.rx_cur /\ x = h.rdh /\ got = d.got /\ rx = d.rx
    OBVIOUS
  <2>2. /\ t \in 0 .. (NUM_DESC - 1) /\ rx \in [0 .. (NUM_DESC - 1) -> Nat]
        /\ got \in Nat /\ Row(rx, t, w, got, NUM_DESC) /\ x = Slot(t, w, NUM_DESC)
    BY <1>0, <1>2, <2>1
  <2>3. /\ Row([rx EXCEPT ![x] = got + w + 1], t, w + 1, got, NUM_DESC)
        /\ Slot(x, 1, NUM_DESC) = Slot(t, w + 1, NUM_DESC)
    BY <1>0, <1>4, <2>2, RowGrows
  <2> QED
    BY <2>1, <2>3
<1>6. (h.rdh + 1) % NUM_DESC = Slot(h.rdh, 1, NUM_DESC)
      /\ Slot(h.rdh, 1, NUM_DESC) \in Descs
  BY <1>0, <1>4, DescSlots
<1>7. /\ g \in Registers /\ g.rdh = Slot(d.rx_cur, w + 1, NUM_DESC) /\ g.rdt = h.rdt
      /\ g.arrived = h.arrived + 1 /\ g.ring = h.ring
  <2>1. PICK x \in Descs : x = (h.rdh + 1) % NUM_DESC
    BY <1>6
  <2>2. g = [h EXCEPT !.rdh = x, !.arrived = h.arrived + 1]
    BY <2>1
  <2>3. h.arrived + 1 \in Nat /\ x = Slot(d.rx_cur, w + 1, NUM_DESC)
    <3>1. h.arrived + 1 \in Nat
      BY <1>0
    <3> QED
      BY <1>5, <1>6, <2>1, <3>1, Zenon
  <2> QED
    BY <2>2, <2>3 DEF Registers
<1>8. /\ e \in Device /\ e.rx_cur = d.rx_cur /\ e.got = d.got /\ e.tx = d.tx
      /\ e.rx = [d.rx EXCEPT ![h.rdh] = h.arrived + 1]
  <2>1. [d.rx EXCEPT ![h.rdh] = h.arrived + 1] \in [Descs -> Nat]
    BY <1>0
  <2>2. e = [d EXCEPT !.rx = [d.rx EXCEPT ![h.rdh] = h.arrived + 1]]
    BY <1>2 DEF Device
  <2> QED
    BY <1>2, <2>1, <2>2 DEF Device
<1> HIDE DEF e, g
<1>9. g.arrived - e.got = w + 1 /\ h.arrived + 1 = d.got + w + 1
  BY <1>0, <1>4, <1>7, <1>8
<1>10. RingOK(e, g)
  BY <1>2, <1>4, <1>5, <1>7, <1>8, <1>9 DEF RingOK
<1> QED
  BY <1>7, <1>10 DEF e, g

\* The driver takes the oldest frame and gives its descriptor back.
LEMMA FrameIsTaken ==
  ASSUME NEW d, NEW h \in Registers, RingOK(d, h), d.rx[d.rx_cur] # 0
  PROVE  LET g == [h EXCEPT !.rdt = NewTail(d)]
         IN  RingOK(Received(d), g) /\ g \in Registers
<1> DEFINE e == Received(d)
           g == [h EXCEPT !.rdt = NewTail(d)]
<1>0. /\ NUM_DESC \in Nat \ {0, 1} /\ Descs = 0 .. (NUM_DESC - 1)
      /\ d.rx_cur \in Descs /\ d.got \in Nat /\ d.rx \in [Descs -> Nat]
      /\ h.arrived \in Nat /\ h.rdh \in Descs /\ h.rdt \in Descs
  BY RingParts
<1>1. PICK w \in Descs : w = h.arrived - d.got
  BY DEF RingOK
<1>2. /\ h.rdh = Slot(d.rx_cur, w, NUM_DESC)
      /\ Row(d.rx, d.rx_cur, w, d.got, NUM_DESC)
      /\ d \in Device /\ d.tx = NewTxDescs /\ h.ring = "live"
  BY <1>1 DEF RingOK
<1>3. PICK c : c = Slot(d.rx_cur, 1, NUM_DESC)
  OBVIOUS
<1>4. /\ w \in 1 .. (NUM_DESC - 1) /\ d.rx[d.rx_cur] = d.got + 1
      /\ Row([d.rx EXCEPT ![d.rx_cur] = 0], c, w - 1, d.got + 1, NUM_DESC)
      /\ Slot(c, w - 1, NUM_DESC) = Slot(d.rx_cur, w, NUM_DESC)
      /\ Slot(c, NUM_DESC - 1, NUM_DESC) = d.rx_cur
  <2>1. PICK t, got, rx : t = d.rx_cur /\ got = d.got /\ rx = d.rx
    OBVIOUS
  <2>2. /\ t \in 0 .. (NUM_DESC - 1) /\ rx \in [0 .. (NUM_DESC - 1) -> Nat]
        /\ w \in 0 .. (NUM_DESC - 1) /\ c = Slot(t, 1, NUM_DESC)
        /\ got \in Nat /\ Row(rx, t, w, got, NUM_DESC) /\ rx[t] # 0
    BY <1>0, <1>1, <1>2, <1>3, <2>1
  <2>n. NUM_DESC \in Nat \ {0, 1}
    BY <1>0
  <2>3. w \in 1 .. (NUM_DESC - 1) /\ rx[t] = got + 1
    <3>1. PICK n : n = NUM_DESC
      OBVIOUS
    <3>2. /\ n \in Nat \ {0, 1} /\ t \in 0 .. (n - 1) /\ w \in 0 .. (n - 1)
          /\ got \in Nat /\ Row(rx, t, w, got, n) /\ rx[t] # 0
      BY <2>2, <2>n, <3>1
    <3>3. w \in 1 .. (n - 1) /\ rx[t] = got + 1
      BY <3>2, RowFront
    <3> QED
      BY <3>1, <3>3
  <2>4. /\ Row([rx EXCEPT ![t] = 0], c, w - 1, got + 1, NUM_DESC)
        /\ Slot(c, w - 1, NUM_DESC) = Slot(t, w, NUM_DESC)
        /\ Slot(c, NUM_DESC - 1, NUM_DESC) = t
    BY <2>n, <2>2, <2>3, RowShrinks
  <2> QED
    BY <2>1, <2>3, <2>4
<1>5. w - 1 \in Descs /\ h.arrived = d.got + w /\ 1 \in 0 .. NUM_DESC
  <2>1. w \in 1 .. (NUM_DESC - 1)
    BY <1>4
  <2> QED
    BY <1>0, <1>1, <2>1
<1>6. (d.rx_cur + 1) % NUM_DESC = c /\ c \in Descs
  BY <1>0, <1>3, <1>5, DescSlots
<1>7. /\ g \in Registers /\ g.rdt = d.rx_cur /\ g.rdh = h.rdh
      /\ g.arrived = h.arrived /\ g.ring = h.ring
  BY <1>0 DEF Registers, NewTail
<1>8. /\ e \in Device /\ e.rx_cur = c /\ e.got = d.got + 1 /\ e.tx = d.tx
      /\ e.rx = [d.rx EXCEPT ![d.rx_cur] = 0]
  BY <1>0, <1>2, <1>4, <1>6 DEF Device, Received
<1> HIDE DEF e, g
<1>9. g.arrived - e.got = w - 1
  BY <1>0, <1>4, <1>5, <1>7, <1>8
<1>10. RingOK(e, g)
  BY <1>2, <1>4, <1>5, <1>7, <1>8, <1>9 DEF RingOK
<1> QED
  BY <1>7, <1>10 DEF e, g

-----------------------------------------------------------------------------
(* All the controllers.                                                    *)

\* The interfaces that have a device.
WithDevice == {i \in Ifaces : HasDevice(i)}

\* A device has a ring in order, no device no ring.
LEMMA IfaceCases ==
  ASSUME NEW i \in Ifaces, E1000Inv
  PROVE  /\ hw[i] \in Registers /\ dev[i] \in Device \cup {NoDevice}
         /\ hw[i].en => hw[i].ring \in {"live", "leaked"}
         /\ HasDevice(i) <=> hw[i].ring = "live"
         /\ HasDevice(i) => RingOK(dev[i], hw[i])
  BY DEF E1000Inv, IfaceOK, HasDevice, RingOK

\* A device that works is one.
LEMMA Works ==
  ASSUME NEW d, NEW h \in Registers, RingOK(d, h), h.en => h.ring \in {"live", "leaked"}
  PROVE  IfaceOK(d, h) /\ d \in Device /\ d # NoDevice
  BY E1000Assumption DEF IfaceOK, RingOK

\* One interface changes.
LEMMA OneIface ==
  ASSUME E1000Inv, NEW i \in Ifaces, NEW d \in Device \cup {NoDevice},
         NEW h \in Registers, IfaceOK(d, h),
         dev' = [dev EXCEPT ![i] = d], hw' = [hw EXCEPT ![i] = h]
  PROVE  /\ E1000Inv'
         /\ d = NoDevice => WithDevice' = WithDevice \ {i}
         /\ d # NoDevice => WithDevice' = WithDevice \cup {i}
<1>1. \A j \in Ifaces : /\ dev'[j] = IF j = i THEN d ELSE dev[j]
                        /\ hw'[j] = IF j = i THEN h ELSE hw[j]
  BY DEF E1000Inv
<1>2. dev' \in [Ifaces -> Device \cup {NoDevice}] /\ hw' \in [Ifaces -> Registers]
  BY DEF E1000Inv
<1>3. \A j \in Ifaces : IfaceOK(dev'[j], hw'[j])
  BY <1>1 DEF E1000Inv
<1> QED
  BY <1>1, <1>2, <1>3 DEF E1000Inv, WithDevice, HasDevice

\* What leaves the devices and registers alone keeps E1000Inv.
LEMMA SameDevices ==
  ASSUME UNCHANGED <<dev, hw>>, E1000Inv
  PROVE  E1000Inv' /\ WithDevice' = WithDevice
  BY DEF E1000Inv, WithDevice, HasDevice

\* The controller's step.
LEMMA AfterFrame ==
  ASSUME NEW i \in Ifaces, E1000Inv, FrameArrives(i)
  PROVE  E1000Inv' /\ WithDevice' = WithDevice
<1> DEFINE g == [hw[i] EXCEPT !.rdh = (@ + 1) % NUM_DESC, !.arrived = @ + 1]
           e == [dev[i] EXCEPT !.rx[hw[i].rdh] = hw[i].arrived + 1]
<1>1. /\ hw[i] \in Registers /\ dev[i] \in Device \cup {NoDevice}
      /\ hw[i].en => hw[i].ring \in {"live", "leaked"}
      /\ HasDevice(i) <=> hw[i].ring = "live"
      /\ HasDevice(i) => RingOK(dev[i], hw[i])
      /\ hw[i].en /\ hw[i].rdh # hw[i].rdt
  BY IfaceCases DEF FrameArrives
<1>2. hw' = [hw EXCEPT ![i] = g]
  BY DEF FrameArrives, E1000Inv
<1>3. g.ring = hw[i].ring /\ g.en = hw[i].en
  BY <1>1 DEF Registers
<1>4. CASE HasDevice(i)
  <2>1. RingOK(e, g) /\ g \in Registers
    BY <1>1, <1>4, FrameIsStored
  <2>2. dev' = [dev EXCEPT ![i] = e]
    BY <1>1, <1>4 DEF FrameArrives, E1000Inv
  <2> HIDE DEF e, g
  <2>3. IfaceOK(e, g) /\ e \in Device /\ e # NoDevice
    BY <1>1, <1>3, <2>1, Works
  <2>4. E1000Inv' /\ WithDevice' = WithDevice \cup {i}
    BY <1>2, <2>1, <2>2, <2>3, OneIface
  <2> QED
    BY <1>4, <2>4 DEF WithDevice
<1>5. CASE ~HasDevice(i)
  <2>1. dev[i] = NoDevice /\ hw[i].ring # "live"
    BY <1>1, <1>5 DEF HasDevice
  <2>2. dev' = [dev EXCEPT ![i] = NoDevice]
    BY <2>1 DEF FrameArrives, E1000Inv
  <2>3. g \in Registers
    <3>1. NUM_DESC \in Nat \ {0, 1} /\ hw[i].rdh \in Descs /\ hw[i].arrived \in Nat
      BY <1>1, E1000Assumption DEF Registers
    <3>2. PICK x \in Descs : x = (hw[i].rdh + 1) % NUM_DESC
      <4>1. 1 \in 0 .. NUM_DESC
        BY <3>1
      <4> QED
        BY <3>1, <4>1, DescSlots
    <3>3. g = [hw[i] EXCEPT !.rdh = x, !.arrived = hw[i].arrived + 1]
          /\ hw[i].arrived + 1 \in Nat
      BY <3>1, <3>2
    <3> QED
      BY <1>1, <3>3 DEF Registers
  <2> HIDE DEF g
  <2>4. IfaceOK(NoDevice, g)
    BY <1>1, <1>3, <2>1, <2>3 DEF IfaceOK
  <2>5. E1000Inv' /\ WithDevice' = WithDevice \ {i}
    BY <1>2, <2>2, <2>3, <2>4, OneIface
  <2> QED
    BY <1>5, <2>5 DEF WithDevice
<1> QED
  BY <1>4, <1>5

\* e1000_receive_packet on interfaces where a frame waits.
LEMMA AfterReceiving ==
  ASSUME NEW from \in SUBSET Ifaces, \A i \in from : FrameWaits(i),
         E1000Inv, e1000_receive_packet(from)
  PROVE  E1000Inv' /\ WithDevice' = WithDevice
<1>1. ASSUME NEW i \in Ifaces
      PROVE  /\ dev'[i] \in Device \cup {NoDevice} /\ hw'[i] \in Registers
             /\ IfaceOK(dev'[i], hw'[i])
             /\ dev'[i] # NoDevice <=> dev[i] # NoDevice
  <2>1. CASE i \notin from
    <3>1. dev'[i] = dev[i] /\ hw'[i] = hw[i]
      BY <2>1 DEF e1000_receive_packet
    <3> QED
      BY <3>1 DEF E1000Inv
  <2>2. CASE i \in from
    <3> DEFINE g == [hw[i] EXCEPT !.rdt = NewTail(dev[i])]
    <3>1. dev'[i] = Received(dev[i]) /\ hw'[i] = g
      BY <2>2 DEF e1000_receive_packet
    <3>2. HasDevice(i) /\ dev[i].rx[dev[i].rx_cur] # 0
      BY <2>2 DEF FrameWaits
    <3>3. hw[i] \in Registers /\ RingOK(dev[i], hw[i])
          /\ (hw[i].en => hw[i].ring \in {"live", "leaked"})
      BY <3>2, IfaceCases
    <3>4. RingOK(Received(dev[i]), g) /\ g \in Registers
      BY <3>2, <3>3, FrameIsTaken
    <3>5. g.en = hw[i].en /\ g.ring = hw[i].ring
      BY <3>3 DEF Registers
    <3> HIDE DEF g
    <3>6. IfaceOK(Received(dev[i]), g) /\ Received(dev[i]) \in Device
          /\ Received(dev[i]) # NoDevice
      BY <3>3, <3>4, <3>5, Works
    <3> QED
      BY <3>1, <3>2, <3>4, <3>6 DEF HasDevice
  <2> QED
    BY <2>1, <2>2
<1>2. dev' \in [Ifaces -> Device \cup {NoDevice}] /\ hw' \in [Ifaces -> Registers]
  <2>1. dev' = [i \in Ifaces |-> dev'[i]] /\ hw' = [i \in Ifaces |-> hw'[i]]
    BY DEF e1000_receive_packet
  <2> QED
    BY <1>1, <2>1
<1> QED
  BY <1>1, <1>2 DEF E1000Inv, WithDevice, HasDevice

\* e1000_cleanup: its first step stops the controller, its second gives back a
\* device whose receiver is off.
LEMMA AfterStop ==
  ASSUME NEW i \in Ifaces, E1000Inv, HasDevice(i), e1000_cleanup(i, CleanupSteps[1])
  PROVE  /\ E1000Inv' /\ WithDevice' = WithDevice /\ ~hw'[i].en /\ UNCHANGED <<dev, used>>
<1>0. /\ hw[i] \in Registers /\ dev[i] \in Device /\ dev[i] # NoDevice
      /\ RingOK(dev[i], hw[i]) /\ hw[i].ring = "live"
  BY IfaceCases DEF HasDevice
<1> DEFINE g == [hw[i] EXCEPT !.en = FALSE]
<1>1. hw' = [hw EXCEPT ![i] = g] /\ UNCHANGED <<dev, used>>
  <2>1. CleanupSteps[1] = "stop" /\ "stop" # "free"
    BY DEF CleanupSteps
  <2> QED
    BY <2>1 DEF e1000_cleanup, Stopped
<1>2. /\ g \in Registers /\ g.rdh = hw[i].rdh /\ g.rdt = hw[i].rdt /\ ~g.en
      /\ g.arrived = hw[i].arrived /\ g.ring = hw[i].ring
  BY <1>0 DEF Registers
<1> HIDE DEF g
<1>3. IfaceOK(dev[i], g)
  <2>1. RingOK(dev[i], g)
    BY <1>0, <1>2 DEF RingOK
  <2> QED
    BY <1>0, <1>2, <2>1, Works
<1>4. dev' = [dev EXCEPT ![i] = dev[i]]
  BY <1>1 DEF E1000Inv
<1>5. E1000Inv' /\ WithDevice' = WithDevice \cup {i}
  BY <1>0, <1>1, <1>2, <1>3, <1>4, OneIface
<1>6. i \in WithDevice /\ hw'[i] = g
  BY <1>1 DEF WithDevice, E1000Inv
<1> QED
  BY <1>1, <1>2, <1>5, <1>6

LEMMA AfterFree ==
  ASSUME NEW i \in Ifaces, E1000Inv, HasDevice(i), ~hw[i].en,
         e1000_cleanup(i, CleanupSteps[2])
  PROVE  E1000Inv' /\ WithDevice' = WithDevice \ {i} /\ used' = used - Devices(1)
<1>0. hw[i] \in Registers
  BY IfaceCases
<1> DEFINE g == [hw[i] EXCEPT !.ring = "freed"]
<1>1. /\ hw' = [hw EXCEPT ![i] = g] /\ dev' = [dev EXCEPT ![i] = NoDevice]
      /\ used' = used - Devices(1)
  <2>1. CleanupSteps[2] = "free" /\ "stop" # "free"
    BY DEF CleanupSteps
  <2> QED
    BY <2>1 DEF e1000_cleanup
<1>2. g \in Registers /\ ~g.en /\ g.ring = "freed"
  BY <1>0 DEF Registers
<1> HIDE DEF g
<1>3. IfaceOK(NoDevice, g)
  BY <1>2 DEF IfaceOK
<1> QED
  BY <1>1, <1>2, <1>3, OneIface

\* e1000_init on an interface without a device.
LEMMA AfterInit ==
  ASSUME NEW i \in Ifaces, NEW fails \in {"none", "dev", "rx", "tx"},
         E1000Inv, ~HasDevice(i), e1000_init(i, fails)
  PROVE  /\ E1000Inv'
         /\ fails = "none" => WithDevice' = WithDevice \cup {i}
         /\ fails # "none" => WithDevice' = WithDevice
<1>0. /\ hw[i] \in Registers /\ dev[i] = NoDevice /\ IfaceOK(NoDevice, hw[i])
      /\ i \notin WithDevice
  BY DEF E1000Inv, HasDevice, WithDevice
<1>1. NUM_DESC \in Nat \ {0, 1} /\ 0 \in Descs /\ NUM_DESC - 1 \in Descs
  BY E1000Assumption DEF Descs
<1>2. CASE fails = "none"
  <2>1. RingOK(NewDevice, RunningHw("live")) /\ RunningHw("live") \in Registers
    BY NewRing
  <2>2. IfaceOK(NewDevice, RunningHw("live")) /\ NewDevice \in Device
        /\ NewDevice # NoDevice
    <3>1. RunningHw("live").ring = "live"
      BY DEF RunningHw
    <3> QED
      BY <2>1, <3>1, Works
  <2>3. dev' = [dev EXCEPT ![i] = NewDevice] /\ hw' = [hw EXCEPT ![i] = RunningHw("live")]
    BY <1>2 DEF e1000_init
  <2> QED
    BY <1>2, <2>1, <2>2, <2>3, OneIface
<1>3. CASE fails # "none"
  <2>1. PICK h \in Registers : hw' = [hw EXCEPT ![i] = h] /\ IfaceOK(NoDevice, h)
    <3>1. CASE fails = "dev"
      <4>1. hw' = [hw EXCEPT ![i] = hw[i]]
        BY <3>1 DEF e1000_init
      <4> QED
        BY <1>0, <4>1
    <3>2. CASE fails = "rx"
      <4>1. hw' = [hw EXCEPT ![i] = ResetHw]
        BY <3>2 DEF e1000_init
      <4>2. ResetHw \in Registers /\ IfaceOK(NoDevice, ResetHw)
        BY <1>1 DEF Registers, ResetHw, IfaceOK
      <4> QED
        BY <4>1, <4>2
    <3>3. CASE fails = "tx"
      <4>1. hw' = [hw EXCEPT ![i] = RunningHw("leaked")]
        BY <3>3 DEF e1000_init
      <4>2. RunningHw("leaked") \in Registers /\ IfaceOK(NoDevice, RunningHw("leaked"))
        BY <1>1 DEF Registers, RunningHw, IfaceOK
      <4> QED
        BY <4>1, <4>2
    <3> QED
      BY <1>3, <3>1, <3>2, <3>3
  <2>2. dev' = [dev EXCEPT ![i] = NoDevice]
    BY <1>0, <1>3 DEF e1000_init, E1000Inv
  <2>3. E1000Inv' /\ WithDevice' = WithDevice \ {i}
    BY <2>1, <2>2, OneIface
  <2> QED
    BY <1>0, <1>3, <2>3
<1> QED
  BY <1>2, <1>3

\* e1000_start, e1000_stop
LEMMA AfterStartOrStop ==
  ASSUME NEW i \in Ifaces, E1000Inv, e1000_start(i) \/ e1000_stop(i)
  PROVE  E1000Inv' /\ WithDevice' = WithDevice
<1>0. /\ hw[i] \in Registers /\ dev[i] \in Device /\ dev[i] # NoDevice
      /\ RingOK(dev[i], hw[i]) /\ hw[i].ring = "live" /\ HasDevice(i)
  BY IfaceCases DEF e1000_start, e1000_stop, HasDevice
<1>1. PICK on \in BOOLEAN : hw' = [hw EXCEPT ![i] = [hw[i] EXCEPT !.en = on]]
  <2>1. CASE e1000_start(i)
    <3>1. hw' = [hw EXCEPT ![i] = [hw[i] EXCEPT !.en = TRUE]]
      BY <2>1 DEF e1000_start
    <3> QED
      BY <3>1
  <2>2. CASE e1000_stop(i)
    <3>1. hw' = [hw EXCEPT ![i] = [hw[i] EXCEPT !.en = FALSE]]
      BY <2>2 DEF e1000_stop, Stopped
    <3> QED
      BY <3>1
  <2> QED
    BY <2>1, <2>2
<1> DEFINE g == [hw[i] EXCEPT !.en = on]
<1>2. /\ g \in Registers /\ g.rdh = hw[i].rdh /\ g.rdt = hw[i].rdt
      /\ g.arrived = hw[i].arrived /\ g.ring = hw[i].ring
  BY <1>0 DEF Registers
<1>3. hw' = [hw EXCEPT ![i] = g]
  BY <1>1
<1> HIDE DEF g
<1>4. RingOK(dev[i], g)
  BY <1>0, <1>2 DEF RingOK
<1>5. IfaceOK(dev[i], g)
  BY <1>0, <1>2, <1>4, Works
<1>6. dev' = [dev EXCEPT ![i] = dev[i]]
  BY DEF e1000_start, e1000_stop, E1000Inv
<1>7. E1000Inv' /\ WithDevice' = WithDevice \cup {i}
  BY <1>0, <1>2, <1>3, <1>5, <1>6, OneIface
<1> QED
  BY <1>0, <1>7 DEF WithDevice

\* e1000_send_packet never gets past its loop.
LEMMA AfterSending ==
  ASSUME NEW i \in Ifaces, E1000Inv, HasDevice(i), e1000_send_packet(i), UNCHANGED hw
  PROVE  /\ E1000Inv' /\ WithDevice' = WithDevice
         /\ hung' = TRUE /\ used' = used + Packets(1)
<1>1. /\ dev[i].tx = NewTxDescs /\ dev[i].tx_cur \in Descs
  BY IfaceCases DEF RingOK, Device
<1>2. ~dev[i].tx[dev[i].tx_cur]
  BY <1>1 DEF NewTxDescs
<1>3. hung' = TRUE /\ used' = used + Packets(1) /\ UNCHANGED dev
  BY <1>2 DEF e1000_send_packet
<1> QED
  BY <1>3, SameDevices

-----------------------------------------------------------------------------
(* The network core.                                                       *)

\* What is taken besides the devices.
Others ==
    (IF packet_pool THEN POOL_BLOCKS ELSE 0)
      + Packets(handed + (IF hung THEN 1 ELSE 0)) + RING_BLOCKS * lost

\* The list of the interfaces with a device, its count, and the blocks.
ListOfDevices ==
    /\ IsList(interfaces, next, NoIface, Ifaces, WithDevice)
    /\ interface_count = Cardinality(WithDevice)
    /\ used = Devices(Cardinality(WithDevice)) + Others

NetTypes ==
    /\ packet_pool \in BOOLEAN /\ hung \in BOOLEAN /\ stale \in BOOLEAN
    /\ handed \in Nat /\ lost \in Nat
    /\ next \in [Ifaces -> Ifaces \cup {NoIface}]

\* The list while net_cleanup or net_unregister_interface has not returned: the
\* walk has still to meet exactly the devices, or only the one that was cut out
\* is missing in the list.
ListInCleanup ==
    /\ IF walking
         THEN IsList(closing, next, NoIface, Ifaces, WithDevice)
         ELSE /\ IsList(interfaces, next, NoIface, Ifaces, WithDevice \ {closing})
              /\ closing \in WithDevice
              /\ interface_count = Cardinality(WithDevice)
    /\ used = Devices(Cardinality(WithDevice)) + Others

\* Once the first step of a cleanup is done, the receiver is off.
CleanupOK ==
    /\ walking \in BOOLEAN /\ closing \in Ifaces \cup {NoIface} /\ step \in {1, 2}
    /\ closing = NoIface => step = 1
    /\ step = 2 => ~hw[closing].en

NetInv ==
    /\ E1000Inv /\ NetTypes /\ CleanupOK
    /\ ~stale => IF Busy THEN ListInCleanup ELSE ListOfDevices

\* Blocks are counted by multiplication.
LEMMA CountingBlocks ==
  ASSUME NEW m \in Nat, NEW n \in Nat
  PROVE  /\ Devices(0) = 0 /\ Devices(m) \in Nat /\ Devices(1) \in Nat
         /\ Devices(m + 1) = Devices(m) + Devices(1)
         /\ Packets(m) \in Nat /\ Packets(m + n) = Packets(m) + Packets(n)
         /\ RING_BLOCKS * m \in Nat /\ RING_BLOCKS \in Nat
         /\ RING_BLOCKS * (m + 1) = RING_BLOCKS * m + RING_BLOCKS
         /\ POOL_BLOCKS \in Nat
<1>1. PICK p, d, r, q : /\ p = PKT_BLOCKS /\ d = DEV_BLOCKS + 2 * RING_BLOCKS
                        /\ r = RING_BLOCKS /\ q = POOL_BLOCKS
                        /\ p \in Nat /\ d \in Nat /\ r \in Nat /\ q \in Nat
  BY E1000Assumption, NetAssumption
<1>2. /\ p * (m + n) = p * m + p * n /\ p * m \in Nat
      /\ d * (m + 1) = d * m + d * 1 /\ d * m \in Nat /\ d * 1 \in Nat /\ d * 0 = 0
      /\ r * (m + 1) = r * m + r /\ r * m \in Nat
  BY <1>1
<1> QED
  BY <1>1, <1>2 DEF Devices, Packets

\* The interfaces with a device can be counted.
LEMMA CountingDevices ==
  /\ IsFiniteSet(WithDevice) /\ Cardinality(WithDevice) \in Nat
  /\ WithDevice \subseteq Ifaces
<1>1. WithDevice \in SUBSET Ifaces
  BY DEF WithDevice
<1> QED
  BY <1>1, NetAssumption, FS_Subset, FS_CardinalityType

\* The blocks outside devices are a natural number of blocks.
LEMMA OthersAreNat ==
  ASSUME NetTypes
  PROVE  Others \in Nat
<1>1. /\ Packets(handed + (IF hung THEN 1 ELSE 0)) \in Nat /\ RING_BLOCKS * lost \in Nat
      /\ POOL_BLOCKS \in Nat
  <2>1. handed + (IF hung THEN 1 ELSE 0) \in Nat /\ lost \in Nat
    BY DEF NetTypes
  <2> QED
    BY <2>1, CountingBlocks
<1> QED
  BY <1>1 DEF Others

\* What the invariant says between the calls, where no stale link is in the list.
LEMMA NetFacts ==
  ASSUME NetInv, ~stale, ~Busy
  PROVE  /\ E1000Inv /\ NetTypes /\ ListOfDevices /\ Registered = WithDevice
         /\ IsFiniteSet(WithDevice) /\ Cardinality(WithDevice) \in Nat
         /\ WithDevice \subseteq Ifaces
         /\ Others \in Nat /\ Devices(Cardinality(WithDevice)) \in Nat
         /\ packet_pool \in BOOLEAN /\ hung \in BOOLEAN /\ handed \in Nat /\ lost \in Nat
         /\ next \in [Ifaces -> Ifaces \cup {NoIface}]
         /\ walking = FALSE /\ closing = NoIface /\ step = 1
<1>1. E1000Inv /\ NetTypes /\ ListOfDevices
  BY DEF NetInv
<1>3. walking = FALSE /\ closing = NoIface /\ step = 1
  BY DEF NetInv, CleanupOK, Busy
<1>2. Registered = WithDevice
  BY <1>1 DEF ListOfDevices, IsList, Registered
<1> QED
  BY <1>1, <1>2, <1>3, CountingDevices, OthersAreNat, CountingBlocks DEF NetTypes

\* A cleanup at its first step asks nothing of the receiver.
LEMMA AtFirstStep ==
  ASSUME NEW w \in BOOLEAN, NEW c \in Ifaces \cup {NoIface},
         walking' = w, closing' = c, step' = 1
  PROVE  CleanupOK'
<1>1. step' # 2 /\ step' \in {1, 2}
  OBVIOUS
<1> QED
  BY <1>1, Zenon DEF CleanupOK

\* A call that neither begins nor continues a cleanup.
LEMMA NoCleanup ==
  ASSUME NetInv, ~Busy, UNCHANGED cleanupVars
  PROVE  CleanupOK' /\ ~Busy'
<1>1. walking = FALSE /\ closing = NoIface /\ step = 1
  BY DEF NetInv, CleanupOK, Busy
<1>2. walking' = FALSE /\ closing' = NoIface /\ step' = 1
  BY <1>1 DEF cleanupVars
<1>3. CleanupOK'
  BY <1>2, AtFirstStep
<1>4. ~Busy'
  BY <1>2 DEF Busy
<1> QED
  BY <1>3, <1>4

\* A step that leaves the list and the devices alone.
LEMMA SameList ==
  ASSUME NetInv, ~stale, ~Busy, UNCHANGED <<listVars, cleanupVars, stale>>,
         E1000Inv', NetTypes', WithDevice' = WithDevice,
         used' = used + (Others' - Others), Others' \in Nat
  PROVE  NetInv'
<1>1. ListOfDevices /\ Others \in Nat /\ Devices(Cardinality(WithDevice)) \in Nat
  BY NetFacts
<1>2. /\ IsList(interfaces, next, NoIface, Ifaces, WithDevice)'
      /\ interface_count' = Cardinality(WithDevice')
  BY <1>1 DEF ListOfDevices, listVars
<1>3. used' = Devices(Cardinality(WithDevice)) + Others'
  BY <1>1 DEF ListOfDevices
<1>4. used' = Devices(Cardinality(WithDevice)') + Others'
  BY <1>3
<1>5. ListOfDevices' /\ CleanupOK' /\ ~Busy'
  BY <1>2, <1>4, NoCleanup DEF ListOfDevices, Devices
<1> QED
  BY <1>5 DEF NetInv

\* Steps after which every block is counted as before.
LEMMA SameBlocks ==
  ASSUME NetInv, ~stale, ~Busy,
         UNCHANGED <<listVars, cleanupVars, stale, packet_pool, handed, used, lost, hung>>,
         E1000Inv', WithDevice' = WithDevice
  PROVE  NetInv'
<1>1. Others \in Nat /\ NetTypes
  BY NetFacts
<1>2. NetTypes' /\ Others' = Others
  BY <1>1 DEF NetTypes, Others, listVars, Packets
<1>3. used' = used + (Others' - Others)
  <2>1. used \in Int
    BY NetFacts DEF ListOfDevices
  <2> QED
    BY <1>1, <1>2, <2>1
<1> QED
  BY <1>1, <1>2, <1>3, SameList

\* net_process_rx_queue: a packet goes to its handler, or back to the pool.
LEMMA Poll ==
  ASSUME NetInv, ~stale, ~Busy, net_process_rx_queue
  PROVE  NetInv'
<1>0. /\ E1000Inv /\ NetTypes /\ Registered = WithDevice /\ handed \in Nat /\ lost \in Nat
      /\ IsFiniteSet(WithDevice) /\ WithDevice \subseteq Ifaces /\ Others \in Nat
      /\ hung \in BOOLEAN
  BY NetFacts
<1>1. PICK got \in SUBSET {i \in Registered : FrameWaits(i)} :
        /\ net_receive_packet(got)
        /\ handed' = IF handler THEN handed + Cardinality(got) ELSE handed
        /\ used' = IF handler THEN used + Packets(Cardinality(got)) ELSE used
        /\ UNCHANGED <<listVars, cleanupVars, packet_pool, handler, stale, lost, hung,
                       frames>>
  BY DEF net_process_rx_queue
<1>2. got \in SUBSET Ifaces /\ (\A i \in got : FrameWaits(i)) /\ got \in SUBSET WithDevice
  BY <1>0
<1>3. E1000Inv' /\ WithDevice' = WithDevice
  BY <1>0, <1>1, <1>2, AfterReceiving DEF net_receive_packet
<1>4. Cardinality(got) \in Nat
  BY <1>0, <1>2, FS_Subset, FS_CardinalityType
<1>5. CASE handler
  <2>1. PICK n \in Nat : n = Cardinality(got)
    BY <1>4
  <2>2. handed' = handed + n /\ used' = used + Packets(n)
    BY <1>1, <1>5, <2>1
  <2>3. NetTypes'
    BY <1>0, <1>1, <2>2 DEF NetTypes, listVars
  <2>4. Others' = Others + Packets(n) /\ Packets(n) \in Nat
    <3>1. PICK k \in Nat : k = handed + (IF hung THEN 1 ELSE 0)
      BY <1>0
    <3>2. handed' + (IF hung' THEN 1 ELSE 0) = k + n
      BY <1>0, <1>1, <2>2, <3>1
    <3>3. Packets(k + n) = Packets(k) + Packets(n) /\ Packets(k) \in Nat
          /\ Packets(n) \in Nat /\ RING_BLOCKS * lost \in Nat /\ POOL_BLOCKS \in Nat
      BY <1>0, CountingBlocks
    <3>4. Others' = (IF packet_pool THEN POOL_BLOCKS ELSE 0) + Packets(k + n)
                       + RING_BLOCKS * lost
      BY <1>1, <3>2 DEF Others, Packets
    <3>5. Others = (IF packet_pool THEN POOL_BLOCKS ELSE 0) + Packets(k)
                       + RING_BLOCKS * lost
      BY <3>1 DEF Others
    <3> QED
      BY <3>3, <3>4, <3>5
  <2>5. used' = used + (Others' - Others) /\ Others' \in Nat
    BY <1>0, <2>2, <2>4
  <2> QED
    BY <1>1, <1>3, <2>3, <2>5, SameList
<1>6. CASE ~handler
  BY <1>1, <1>3, <1>6, SameBlocks
<1> QED
  BY <1>5, <1>6

\* A handler gives its packet back.
LEMMA Frees ==
  ASSUME NetInv, ~stale, ~Busy, HandlerFrees
  PROVE  NetInv'
<1>0. /\ E1000Inv /\ NetTypes /\ ListOfDevices /\ handed \in Nat /\ lost \in Nat
      /\ Others \in Nat /\ Devices(Cardinality(WithDevice)) \in Nat /\ hung \in BOOLEAN
  BY NetFacts
<1>1. /\ handed > 0 /\ handed' = handed - 1 /\ used' = used - Packets(1)
      /\ UNCHANGED <<listVars, cleanupVars, packet_pool, handler, stale, dev, hw, lost,
                     hung, frames>>
  BY DEF HandlerFrees
<1>2. E1000Inv' /\ WithDevice' = WithDevice
  BY <1>0, <1>1, SameDevices
<1>3. NetTypes'
  BY <1>0, <1>1 DEF NetTypes, listVars
<1>4. Others = Others' + Packets(1) /\ Packets(1) \in Nat /\ Others' \in Nat
  <2>1. PICK k \in Nat : k = handed' + (IF hung THEN 1 ELSE 0)
    BY <1>0, <1>1
  <2>2. handed + (IF hung THEN 1 ELSE 0) = k + 1
    BY <1>0, <1>1, <2>1
  <2>3. Packets(k + 1) = Packets(k) + Packets(1) /\ Packets(k) \in Nat
        /\ Packets(1) \in Nat /\ RING_BLOCKS * lost \in Nat /\ POOL_BLOCKS \in Nat
    BY <1>0, CountingBlocks
  <2>4. Others = (IF packet_pool THEN POOL_BLOCKS ELSE 0) + Packets(k + 1)
                     + RING_BLOCKS * lost
    BY <2>2 DEF Others
  <2>5. Others' = (IF packet_pool THEN POOL_BLOCKS ELSE 0) + Packets(k)
                     + RING_BLOCKS * lost
    BY <1>1, <2>1 DEF Others, Packets
  <2> QED
    BY <2>3, <2>4, <2>5
<1>5. used' = used + (Others' - Others)
  BY <1>0, <1>1, <1>4 DEF ListOfDevices
<1> QED
  BY <1>1, <1>2, <1>3, <1>4, <1>5, SameList

\* eth_send_frame takes a packet and hangs in the driver, or takes nothing.
LEMMA Sends ==
  ASSUME NEW i \in Ifaces, NetInv, ~stale, ~hung, ~Busy, eth_send_frame(i)
  PROVE  NetInv'
<1>0. /\ E1000Inv /\ NetTypes /\ ListOfDevices /\ handed \in Nat /\ lost \in Nat
      /\ Others \in Nat /\ Registered = WithDevice
      /\ Devices(Cardinality(WithDevice)) \in Nat
  BY NetFacts
<1>1. /\ i \in Registered /\ e1000_send_packet(i)
      /\ UNCHANGED <<listVars, cleanupVars, packet_pool, handler, handed, stale, hw, lost,
                     frames>>
  BY DEF eth_send_frame, net_send_packet
<1>2. HasDevice(i)
  BY <1>0, <1>1 DEF WithDevice
<1>3. /\ E1000Inv' /\ WithDevice' = WithDevice
      /\ hung' = TRUE /\ used' = used + Packets(1)
  BY <1>0, <1>1, <1>2, AfterSending
<1>4. NetTypes'
  BY <1>0, <1>1, <1>3 DEF NetTypes, listVars
<1>5. Others' = Others + Packets(1) /\ Packets(1) \in Nat
  <2>1. Packets(handed + 1) = Packets(handed) + Packets(1) /\ Packets(handed) \in Nat
        /\ Packets(1) \in Nat /\ RING_BLOCKS * lost \in Nat /\ POOL_BLOCKS \in Nat
    BY <1>0, CountingBlocks
  <2>2. Others' = (IF packet_pool THEN POOL_BLOCKS ELSE 0) + Packets(handed + 1)
                     + RING_BLOCKS * lost
    BY <1>1, <1>3 DEF Others, Packets
  <2>3. Others = (IF packet_pool THEN POOL_BLOCKS ELSE 0) + Packets(handed)
                     + RING_BLOCKS * lost
    <3>1. handed + 0 = handed
      BY <1>0
    <3> QED
      BY <3>1 DEF Others
  <2> QED
    BY <2>1, <2>2, <2>3
<1>6. used' = used + (Others' - Others) /\ Others' \in Nat
  BY <1>0, <1>3, <1>5 DEF ListOfDevices
<1> QED
  BY <1>1, <1>3, <1>4, <1>6, SameList

\* net_init allocates the pool, or fails.
LEMMA PoolIsMade ==
  ASSUME NetInv, ~stale, ~Busy, net_init
  PROVE  NetInv'
<1>0. /\ E1000Inv /\ NetTypes /\ ListOfDevices /\ handed \in Nat /\ lost \in Nat
      /\ Others \in Nat /\ Devices(Cardinality(WithDevice)) \in Nat /\ hung \in BOOLEAN
  BY NetFacts
<1>1. PICK full \in BOOLEAN :
        /\ ~packet_pool /\ packet_pool' = ~full
        /\ used' = IF full THEN used ELSE used + POOL_BLOCKS
        /\ UNCHANGED <<listVars, cleanupVars, handed, stale, dev, hw, lost, hung, frames>>
  BY DEF net_init
<1>2. E1000Inv' /\ WithDevice' = WithDevice
  BY <1>0, <1>1, SameDevices
<1>3. NetTypes'
  BY <1>0, <1>1 DEF NetTypes, listVars
<1>4. Others' = Others + (IF full THEN 0 ELSE POOL_BLOCKS) /\ POOL_BLOCKS \in Nat
  <2>1. PICK a, b : /\ a = Packets(handed + (IF hung THEN 1 ELSE 0)) /\ a \in Nat
                    /\ b = RING_BLOCKS * lost /\ b \in Nat /\ POOL_BLOCKS \in Nat
    <3>1. handed + (IF hung THEN 1 ELSE 0) \in Nat
      BY <1>0
    <3> QED
      BY <1>0, <3>1, CountingBlocks
  <2>2. Others = 0 + a + b /\ Others' = (IF full THEN 0 ELSE POOL_BLOCKS) + a + b
    BY <1>1, <2>1 DEF Others, Packets
  <2> QED
    BY <2>1, <2>2
<1>5. used' = used + (Others' - Others) /\ Others' \in Nat
  BY <1>0, <1>1, <1>4 DEF ListOfDevices
<1> QED
  BY <1>1, <1>2, <1>3, <1>5, SameList

\* net_cleanup begins: the walk is at the head.
LEMMA WalkBegins ==
  ASSUME NetInv, ~stale, ~Busy, net_cleanup
  PROVE  NetInv'
<1>0. /\ E1000Inv /\ NetTypes /\ ListOfDevices
      /\ walking = FALSE /\ closing = NoIface /\ step = 1
  BY NetFacts
<1>1. /\ walking' = TRUE /\ closing' = interfaces
      /\ UNCHANGED <<listVars, step, packet_pool, handler, handed, stale, e1000Vars>>
  BY DEF net_cleanup
<1>2. E1000Inv' /\ WithDevice' = WithDevice
  BY <1>0, <1>1, SameDevices DEF e1000Vars
<1>3. NetTypes' /\ Others' = Others
  BY <1>0, <1>1 DEF NetTypes, Others, Packets, listVars, e1000Vars
<1>4. interfaces \in Ifaces \cup {NoIface}
  BY <1>0 DEF ListOfDevices, IsList, ArePointers
<1>5. CleanupOK'
  BY <1>0, <1>1, <1>4 DEF CleanupOK
<1>6. ListInCleanup' /\ Busy'
  <2>1. Cardinality(WithDevice') = Cardinality(WithDevice)
    BY <1>2
  <2> QED
    BY <1>0, <1>1, <1>2, <1>3, <2>1
    DEF ListInCleanup, ListOfDevices, Busy, listVars, e1000Vars, Devices
<1> QED
  BY <1>2, <1>3, <1>5, <1>6 DEF NetInv

\* What the invariant says of the interface whose cleanup runs.
LEMMA CleanupFacts ==
  ASSUME NetInv, ~stale, closing # NoIface
  PROVE  /\ E1000Inv /\ NetTypes /\ ListInCleanup /\ closing \in Ifaces
         /\ HasDevice(closing) /\ closing \in WithDevice
         /\ step \in {1, 2} /\ (step = 2 => ~hw[closing].en)
         /\ walking \in BOOLEAN
<1>1. E1000Inv /\ NetTypes /\ ListInCleanup /\ CleanupOK
  BY DEF NetInv, Busy
<1>2. closing \in WithDevice
  BY <1>1, ListFacts DEF ListInCleanup
<1> QED
  BY <1>1, <1>2 DEF WithDevice, CleanupOK

\* The first step of a cleanup.
LEMMA FirstStep ==
  ASSUME NetInv, ~stale, step = 1, CleanupStep
  PROVE  NetInv'
<1>1. /\ closing # NoIface /\ e1000_cleanup(closing, CleanupSteps[1])
      /\ step' = 2 /\ UNCHANGED <<closing, interface_count>>
      /\ UNCHANGED <<interfaces, next, walking, packet_pool, handler, handed, stale,
                     lost, hung, frames>>
  BY DEF CleanupStep
<1>2. /\ E1000Inv /\ NetTypes /\ ListInCleanup /\ closing \in Ifaces
      /\ HasDevice(closing) /\ walking \in BOOLEAN
  BY <1>1, CleanupFacts
<1>3. /\ E1000Inv' /\ WithDevice' = WithDevice /\ ~hw'[closing].en /\ used' = used
  BY <1>1, <1>2, AfterStop
<1>4. NetTypes' /\ Others' = Others
  BY <1>1, <1>2 DEF NetTypes, Others, Packets
<1>5. CleanupOK'
  BY <1>1, <1>2, <1>3 DEF CleanupOK
<1>6. ListInCleanup' /\ Busy'
  <2>1. Cardinality(WithDevice') = Cardinality(WithDevice)
    BY <1>3
  <2> QED
    BY <1>1, <1>2, <1>3, <1>4, <2>1 DEF ListInCleanup, Busy, Devices
<1> QED
  BY <1>3, <1>4, <1>5, <1>6 DEF NetInv

\* The second step of a cleanup: one device less, and on to the next one.
LEMMA SecondStep ==
  ASSUME NetInv, ~stale, step = 2, CleanupStep
  PROVE  NetInv'
<1>1. /\ closing # NoIface /\ e1000_cleanup(closing, CleanupSteps[2])
      /\ step' = 1 /\ closing' = IF walking THEN next[closing] ELSE NoIface
      /\ interface_count' = IF walking THEN interface_count ELSE interface_count - 1
      /\ UNCHANGED <<interfaces, next, walking, packet_pool, handler, handed, stale,
                     lost, hung, frames>>
  BY DEF CleanupStep
<1>2. /\ E1000Inv /\ NetTypes /\ ListInCleanup /\ closing \in Ifaces
      /\ HasDevice(closing) /\ closing \in WithDevice
      /\ ~hw[closing].en /\ walking \in BOOLEAN
  BY <1>1, CleanupFacts
<1>3. /\ E1000Inv' /\ WithDevice' = WithDevice \ {closing} /\ used' = used - Devices(1)
  BY <1>1, <1>2, AfterFree
<1>4. NetTypes' /\ Others' = Others /\ Others \in Nat
  BY <1>1, <1>2, OthersAreNat DEF NetTypes, Others, Packets
<1>5. CleanupOK'
  BY <1>1, <1>2 DEF CleanupOK, NetTypes
<1>6. PICK n \in Nat : /\ Cardinality(WithDevice') = n /\ Cardinality(WithDevice) = n + 1
                      /\ used' = Devices(n) + Others'
  <2>1. Cardinality(WithDevice \ {closing}) = Cardinality(WithDevice) - 1
        /\ IsFiniteSet(WithDevice \ {closing})
    BY <1>2, CountingDevices, FS_RemoveElement
  <2>2. PICK n \in Nat : n = Cardinality(WithDevice \ {closing})
    BY <2>1, FS_CardinalityType
  <2>3. Cardinality(WithDevice) = n + 1
    BY <2>1, <2>2, CountingDevices
  <2>4. /\ Devices(n + 1) = Devices(n) + Devices(1) /\ Devices(n) \in Nat
        /\ Devices(1) \in Nat
    BY CountingBlocks
  <2>5. used = Devices(n + 1) + Others
    BY <1>2, <2>3 DEF ListInCleanup
  <2>6. used' = Devices(n) + Others'
    BY <1>3, <1>4, <2>4, <2>5
  <2> QED
    BY <1>3, <2>2, <2>3, <2>6
<1>7. CASE walking
  <2>1. IsList(next[closing], next, NoIface, Ifaces, WithDevice \ {closing})
    BY <1>1, <1>2, <1>7, CutOutHead DEF ListInCleanup
  <2>2. ListInCleanup' /\ Busy'
    BY <1>1, <1>3, <1>6, <1>7, <2>1 DEF ListInCleanup, Busy, Devices
  <2> QED
    BY <1>3, <1>4, <1>5, <2>2 DEF NetInv
<1>8. CASE ~walking
  <2>1. IsList(interfaces, next, NoIface, Ifaces, WithDevice \ {closing})
        /\ interface_count = n + 1
    BY <1>2, <1>6, <1>8 DEF ListInCleanup
  <2>2. interface_count' = n
    BY <1>1, <1>8, <2>1
  <2>3. ListOfDevices' /\ ~Busy'
    BY <1>1, <1>3, <1>6, <1>8, <2>1, <2>2 DEF ListOfDevices, Busy, Devices
  <2> QED
    BY <1>3, <1>4, <1>5, <2>3 DEF NetInv
<1> QED
  BY <1>7, <1>8

\* net_cleanup ends: no device is left, and the pool goes.
LEMMA Closes ==
  ASSUME NetInv, ~stale, CleanupEnds
  PROVE  NetInv'
<1>1. /\ walking /\ closing = NoIface /\ walking' = FALSE
      /\ used' = used - (IF packet_pool THEN POOL_BLOCKS ELSE 0)
      /\ interfaces' = NoIface /\ interface_count' = 0
      /\ packet_pool' = FALSE /\ handler' = FALSE
      /\ UNCHANGED <<next, closing, step, handed, stale, dev, hw, lost, hung, frames>>
  BY DEF CleanupEnds
<1>0. /\ E1000Inv /\ NetTypes /\ ListInCleanup /\ CleanupOK
  BY <1>1 DEF NetInv, Busy
<1>2. E1000Inv' /\ WithDevice' = WithDevice /\ WithDevice = {}
  <2>1. WithDevice = {}
    BY <1>0, <1>1, ListFacts DEF ListInCleanup
  <2> QED
    BY <1>0, <1>1, <2>1, SameDevices
<1>3. NetTypes' /\ CleanupOK'
  BY <1>0, <1>1 DEF NetTypes, CleanupOK
<1>4. IsList(NoIface, next, NoIface, Ifaces, {})
  BY <1>0, EmptyList, NetAssumption DEF NetTypes
<1>5. used' = Devices(0) + Others'
  <2>1. PICK a, b : /\ a = Packets(handed + (IF hung THEN 1 ELSE 0)) /\ a \in Nat
                    /\ b = RING_BLOCKS * lost /\ b \in Nat /\ POOL_BLOCKS \in Nat
                    /\ Devices(0) = 0
    <3>1. handed + (IF hung THEN 1 ELSE 0) \in Nat /\ lost \in Nat
      BY <1>0 DEF NetTypes
    <3> QED
      BY <3>1, CountingBlocks
  <2>2. Others = (IF packet_pool THEN POOL_BLOCKS ELSE 0) + a + b /\ Others' = 0 + a + b
    BY <1>1, <2>1 DEF Others, Packets
  <2>3. used = Devices(0) + Others
    BY <1>0, <1>2, FS_EmptySet DEF ListInCleanup
  <2> QED
    BY <1>1, <2>1, <2>2, <2>3
<1>6. ListOfDevices' /\ ~Busy'
  <2>1. Cardinality(WithDevice') = 0
    BY <1>2, FS_EmptySet
  <2>2. used' = Devices(Cardinality(WithDevice')) + Others'
    BY <1>5, <2>1
  <2>3. IsList(interfaces', next', NoIface, Ifaces, WithDevice')
    BY <1>1, <1>2, <1>4
  <2> QED
    BY <1>1, <2>1, <2>2, <2>3 DEF ListOfDevices, Busy, Devices
<1> QED
  BY <1>2, <1>3, <1>6 DEF NetInv

\* net_register_interface puts one more device at the head of the list.
LEMMA OneMoreInterface ==
  ASSUME NEW i \in Ifaces, NetInv, ~stale, ~Busy, net_register_interface(i)
  PROVE  NetInv'
<1>0. /\ E1000Inv /\ NetTypes /\ ListOfDevices /\ Registered = WithDevice
      /\ WithDevice \subseteq Ifaces /\ Others \in Nat /\ handed \in Nat /\ lost \in Nat
      /\ Devices(Cardinality(WithDevice)) \in Nat /\ hung \in BOOLEAN
      /\ IsFiniteSet(WithDevice) /\ Cardinality(WithDevice) \in Nat
      /\ next \in [Ifaces -> Ifaces \cup {NoIface}]
  BY NetFacts
<1>1. i \notin WithDevice /\ ~HasDevice(i)
      /\ UNCHANGED <<cleanupVars, packet_pool, handler, handed, hung, frames>>
  BY <1>0 DEF net_register_interface, WithDevice
<1>2. PICK fails \in {"none", "dev", "rx", "tx"} :
          /\ e1000_init(i, fails)
          /\ IF fails # "none"
               THEN UNCHANGED <<listVars, stale>>
               ELSE /\ IF interfaces = NoIface
                         THEN interfaces' = i /\ UNCHANGED next
                         ELSE /\ next' = LinkLast(interfaces, next, NoIface, i)
                              /\ UNCHANGED interfaces
                    /\ interface_count' = interface_count + 1
                    /\ stale' = (next[i] # NoIface)
  BY DEF net_register_interface
<1>3. /\ E1000Inv'
      /\ fails = "none" => WithDevice' = WithDevice \cup {i}
      /\ fails # "none" => WithDevice' = WithDevice
  BY <1>0, <1>1, <1>2, AfterInit
<1>4. PICK a, b, c : /\ c = (IF packet_pool THEN POOL_BLOCKS ELSE 0) /\ c \in Nat
                     /\ a = Packets(handed + (IF hung THEN 1 ELSE 0)) /\ a \in Nat
                     /\ b = RING_BLOCKS * lost /\ b \in Nat /\ RING_BLOCKS \in Nat
                     /\ RING_BLOCKS * (lost + 1) = b + RING_BLOCKS
                     /\ Others = c + a + b
  <2>1. handed + (IF hung THEN 1 ELSE 0) \in Nat
    BY <1>0
  <2> QED
    BY <1>0, <2>1, CountingBlocks DEF Others
<1>5. CASE fails = "dev" \/ fails = "rx"
  <2>1. UNCHANGED <<listVars, stale>> /\ lost' = lost /\ used' = used + 0
    BY <1>2, <1>5 DEF e1000_init
  <2>2. used' = used
    BY <1>0, <2>1 DEF ListOfDevices
  <2> QED
    BY <1>1, <1>3, <1>5, <2>1, <2>2, SameBlocks
<1>6. CASE fails = "tx"
  <2>1. UNCHANGED <<listVars, stale>> /\ lost' = lost + 1 /\ used' = used + RING_BLOCKS
    BY <1>2, <1>6 DEF e1000_init
  <2>2. Others' = c + a + (b + RING_BLOCKS)
    BY <1>1, <1>4, <2>1 DEF Others, Packets
  <2>3. used' = used + (Others' - Others) /\ Others' \in Nat
    BY <1>0, <1>4, <2>1, <2>2 DEF ListOfDevices
  <2>4. NetTypes'
    BY <1>0, <1>1, <2>1 DEF NetTypes, listVars
  <2>5. UNCHANGED cleanupVars /\ WithDevice' = WithDevice
    BY <1>1, <1>3, <1>6
  <2> QED
    BY <1>3, <2>1, <2>3, <2>4, <2>5, SameList
<1>7. CASE fails = "none"
  <2>1. /\ lost' = lost /\ used' = used + Devices(1)
        /\ interface_count' = interface_count + 1 /\ stale' = (next[i] # NoIface)
        /\ WithDevice' = WithDevice \cup {i}
    BY <1>2, <1>3, <1>7 DEF e1000_init
  <2>2. next' \in [Ifaces -> Ifaces \cup {NoIface}]
    BY <1>0, <1>2, <1>7 DEF LinkLast
  <2>3. NetTypes'
    BY <1>0, <1>1, <2>1, <2>2 DEF NetTypes
  <2>4. ASSUME next[i] = NoIface PROVE ListOfDevices'
    <3>1. IsList(interfaces', next', NoIface, Ifaces, WithDevice \cup {i})
      <4>1. CASE interfaces = NoIface
        <5>1. WithDevice = {}
          BY <1>0, <4>1, ListFacts DEF ListOfDevices
        <5>2. interfaces' = i /\ next' = next
          BY <1>2, <1>7, <4>1
        <5>3. IsList(i, next, NoIface, Ifaces, {i})
          BY <1>0, <2>4, FirstNode, NetAssumption
        <5> QED
          BY <5>1, <5>2, <5>3
      <4>2. CASE interfaces # NoIface
        <5>1. interfaces' = interfaces /\ next' = LinkLast(interfaces, next, NoIface, i)
          BY <1>2, <1>7, <4>2
        <5>2. IsList(interfaces, LinkLast(interfaces, next, NoIface, i), NoIface, Ifaces,
                     WithDevice \cup {i})
          BY <1>0, <1>1, <2>4, <4>2, AddedLast DEF ListOfDevices
        <5> QED
          BY <5>1, <5>2
      <4> QED
        BY <4>1, <4>2
    <3>2. PICK n \in Nat : n = Cardinality(WithDevice)
      BY <1>0
    <3>3. Cardinality(WithDevice \cup {i}) = n + 1
      BY <1>0, <1>1, <3>2, FS_AddElement
    <3>4. /\ Devices(n + 1) = Devices(n) + Devices(1) /\ Devices(n) \in Nat
          /\ Devices(1) \in Nat
      BY CountingBlocks
    <3>5. Others' = Others
      BY <1>1, <2>1 DEF Others, Packets
    <3>6. used = Devices(n) + Others /\ interface_count = n
      BY <1>0, <3>2 DEF ListOfDevices
    <3>7. used' = Devices(n + 1) + Others' /\ interface_count' = n + 1
      BY <1>0, <2>1, <3>2, <3>4, <3>5, <3>6
    <3> QED
      BY <2>1, <3>1, <3>3, <3>7 DEF ListOfDevices, Devices
  <2> QED
    BY <1>1, <1>3, <2>1, <2>3, <2>4, NoCleanup DEF NetInv
<1> QED
  BY <1>5, <1>6, <1>7

\* net_unregister_interface cuts one device out of the list.
LEMMA OneInterfaceLess ==
  ASSUME NEW i \in Ifaces, NetInv, ~stale, ~Busy, net_unregister_interface(i)
  PROVE  NetInv'
<1>0. /\ E1000Inv /\ NetTypes /\ ListOfDevices /\ Registered = WithDevice
      /\ next \in [Ifaces -> Ifaces \cup {NoIface}]
      /\ walking = FALSE /\ closing = NoIface /\ step = 1
  BY NetFacts
<1>1. /\ i \in WithDevice /\ Unlink(i) /\ closing' = i
      /\ UNCHANGED <<interface_count, walking, step, packet_pool, handler, handed, stale,
                     e1000Vars>>
  BY <1>0 DEF net_unregister_interface
<1>2. E1000Inv' /\ WithDevice' = WithDevice
  BY <1>0, <1>1, SameDevices DEF e1000Vars
<1>3. next' \in [Ifaces -> Ifaces \cup {NoIface}]
      /\ IsList(interfaces', next', NoIface, Ifaces, WithDevice \ {i})
  <2>1. CASE interfaces = i
    <3>1. interfaces' = next[i] /\ next' = next
      BY <1>1, <2>1 DEF Unlink
    <3>2. IsList(interfaces, next, NoIface, Ifaces, WithDevice) /\ interfaces # NoIface
      BY <1>0, <2>1, NetAssumption DEF ListOfDevices
    <3>3. IsList(next[interfaces], next, NoIface, Ifaces, WithDevice \ {interfaces})
      BY <3>2, CutOutHead
    <3> QED
      BY <1>0, <2>1, <3>1, <3>3
  <2>2. CASE interfaces # i
    <3>1. interfaces' = interfaces /\ next' = CutOut(interfaces, next, NoIface, i)
      BY <1>1, <2>2 DEF Unlink
    <3>2. IsList(interfaces, CutOut(interfaces, next, NoIface, i), NoIface, Ifaces,
                 WithDevice \ {i})
      BY <1>0, <1>1, <2>2, CutOutInside DEF ListOfDevices
    <3>3. next' \in [Ifaces -> Ifaces \cup {NoIface}]
      BY <3>1, <3>2 DEF IsList, ArePointers
    <3> QED
      BY <3>1, <3>2, <3>3
  <2> QED
    BY <2>1, <2>2
<1>4. NetTypes' /\ CleanupOK' /\ Others' = Others
  <2>1. NetTypes' /\ Others' = Others
    BY <1>0, <1>1, <1>3 DEF NetTypes, Others, Packets, e1000Vars
  <2>2. walking' = FALSE /\ closing' = i /\ step' = 1 /\ i # NoIface
    BY <1>0, <1>1, NetAssumption
  <2>3. CleanupOK'
    BY <2>2, AtFirstStep
  <2> QED
    BY <2>1, <2>3
<1>5. ListInCleanup' /\ Busy'
  <2>1. Cardinality(WithDevice') = Cardinality(WithDevice) /\ i # NoIface
    BY <1>2, NetAssumption
  <2> QED
    BY <1>0, <1>1, <1>2, <1>3, <1>4, <2>1
    DEF ListInCleanup, ListOfDevices, Busy, Devices, e1000Vars
<1> QED
  BY <1>2, <1>4, <1>5 DEF NetInv

\* A frame arrives, whether a cleanup runs or not.
LEMMA FrameKeeps ==
  ASSUME NEW i \in Ifaces, NetInv, ~stale, FrameArrives(i), UNCHANGED coreVars
  PROVE  NetInv'
<1>0. E1000Inv /\ NetTypes /\ CleanupOK /\ (IF Busy THEN ListInCleanup ELSE ListOfDevices)
  BY DEF NetInv
<1>1. E1000Inv' /\ WithDevice' = WithDevice
  BY <1>0, AfterFrame
<1>2. UNCHANGED <<used, lost, hung, listVars, cleanupVars, packet_pool, handler, handed,
                  stale>>
  BY DEF FrameArrives, coreVars
<1>3. NetTypes' /\ Others' = Others /\ Busy' = Busy
  BY <1>0, <1>2 DEF NetTypes, Others, Packets, Busy, listVars, cleanupVars
<1>4. ASSUME step = 2 PROVE ~hw'[closing].en
  <2>1. ~hw[closing].en /\ closing \in Ifaces
    BY <1>0, <1>4 DEF CleanupOK
  <2>2. hw[i].en
    BY DEF FrameArrives
  <2>3. hw'[closing] = hw[closing]
    BY <1>0, <2>1, <2>2 DEF FrameArrives, E1000Inv
  <2> QED
    BY <2>1, <2>3
<1>5. CleanupOK'
  BY <1>0, <1>2, <1>4 DEF CleanupOK, cleanupVars
<1>6. IF Busy THEN ListInCleanup' ELSE ListOfDevices'
  <2>1. Cardinality(WithDevice') = Cardinality(WithDevice)
    BY <1>1
  <2> QED
    BY <1>0, <1>1, <1>2, <1>3, <2>1
    DEF ListInCleanup, ListOfDevices, Devices, listVars, cleanupVars
<1> QED
  BY <1>1, <1>3, <1>5, <1>6 DEF NetInv

\* At first there is no device, no interface and no block taken.
LEMMA NetStarts == NetInit => NetInv
<1> SUFFICES ASSUME NetInit PROVE NetInv
  OBVIOUS
<1>1. E1000Inv /\ WithDevice = {}
  <2>1. NUM_DESC \in Nat \ {0, 1} /\ 0 \in Descs
    BY E1000Assumption DEF Descs
  <2>2. ResetHw \in Registers /\ IfaceOK(NoDevice, ResetHw)
    BY <2>1 DEF Registers, ResetHw, IfaceOK
  <2>3. \A i \in Ifaces : dev[i] = NoDevice /\ hw[i] = ResetHw
    BY DEF NetInit
  <2>4. dev \in [Ifaces -> Device \cup {NoDevice}] /\ hw \in [Ifaces -> Registers]
    BY <2>2 DEF NetInit
  <2> QED
    BY <2>2, <2>3, <2>4 DEF E1000Inv, WithDevice, HasDevice
<1>2. NetTypes
  BY DEF NetInit, NetTypes
<1>3. IsList(interfaces, next, NoIface, Ifaces, WithDevice)
  <2>1. IsList(NoIface, next, NoIface, Ifaces, {})
    BY <1>2, EmptyList, NetAssumption DEF NetTypes
  <2> QED
    BY <1>1, <2>1 DEF NetInit
<1>4. Cardinality(WithDevice) = 0
  BY <1>1, FS_EmptySet
<1>5. Devices(0) = 0 /\ Others = 0
  <2>1. Packets(0) = 0 /\ RING_BLOCKS * 0 = 0 /\ Devices(0) = 0
    BY E1000Assumption DEF Packets, Devices
  <2> QED
    BY <2>1 DEF Others, NetInit
<1>6. CleanupOK /\ ~Busy
  <2>1. walking = FALSE /\ closing = NoIface /\ step = 1
    BY DEF NetInit
  <2>2. CleanupOK
    <3>1. step # 2 /\ step \in {1, 2}
      BY <2>1
    <3> QED
      BY <2>1, <3>1, Zenon DEF CleanupOK
  <2> QED
    BY <2>1, <2>2 DEF Busy
<1> QED
  BY <1>1, <1>2, <1>3, <1>4, <1>5, <1>6 DEF NetInv, ListOfDevices, NetInit

\* One case per action of NetNext.
LEMMA NetSteps == NetInv /\ [NetNext]_netVars => NetInv'
<1> SUFFICES ASSUME NetInv, [NetNext]_netVars PROVE NetInv'
  OBVIOUS
<1>1. CASE UNCHANGED netVars
  <2>1. UNCHANGED <<dev, hw>> /\ E1000Inv
    BY <1>1 DEF netVars, e1000Vars, NetInv
  <2>2. E1000Inv' /\ WithDevice' = WithDevice
    BY <2>1, SameDevices
  <2>3. NetTypes' /\ Others' = Others /\ stale' = stale /\ CleanupOK' /\ Busy' = Busy
    BY <1>1 DEF netVars, e1000Vars, listVars, cleanupVars, NetInv, NetTypes, Others,
                Packets, CleanupOK, Busy
  <2>4. ASSUME ~stale PROVE IF Busy THEN ListInCleanup' ELSE ListOfDevices'
    <3>1. Cardinality(WithDevice') = Cardinality(WithDevice)
      BY <2>2
    <3> QED
      BY <1>1, <2>2, <2>3, <2>4, <3>1
      DEF netVars, e1000Vars, listVars, cleanupVars, NetInv, ListOfDevices,
          ListInCleanup, Devices
  <2> QED
    BY <2>2, <2>3, <2>4 DEF NetInv
<1>2. CASE NetNext
  <2>0. ~stale /\ E1000Inv
    BY <1>2 DEF NetNext, NetInv
  <2>1. ASSUME NEW i \in Ifaces, FrameArrives(i), UNCHANGED coreVars PROVE NetInv'
    BY <2>0, <2>1, FrameKeeps
  <2>2. CASE CleanupStep
    <3>1. step \in {1, 2}
      BY DEF NetInv, CleanupOK
    <3> QED
      BY <2>0, <2>2, <3>1, FirstStep, SecondStep
  <2>3. CASE CleanupEnds
    BY <2>0, <2>3, Closes
  <2>4. CASE ~hung /\ ~Busy
             /\ \/ net_init
                \/ net_cleanup
                \/ SetHandler
                \/ net_process_rx_queue
                \/ HandlerFrees
                \/ \E i \in Ifaces :
                      \/ net_register_interface(i)
                      \/ net_unregister_interface(i)
                      \/ eth_receive_frame(i)
                      \/ eth_send_frame(i)
                      \/ (e1000_start(i) \/ e1000_stop(i)) /\ UNCHANGED coreVars
    <3>0. ~hung /\ ~Busy
      BY <2>4
    <3>1. CASE net_init
      BY <2>0, <3>0, <3>1, PoolIsMade
    <3>2. CASE net_cleanup
      BY <2>0, <3>0, <3>2, WalkBegins
    <3>3. CASE SetHandler
      <4>1. E1000Inv' /\ WithDevice' = WithDevice
        BY <2>0, <3>3, SameDevices DEF SetHandler, e1000Vars
      <4> QED
        BY <2>0, <3>0, <3>3, <4>1, SameBlocks DEF SetHandler, e1000Vars
    <3>4. CASE net_process_rx_queue
      BY <2>0, <3>0, <3>4, Poll
    <3>5. CASE HandlerFrees
      BY <2>0, <3>0, <3>5, Frees
    <3>6. ASSUME NEW i \in Ifaces, net_register_interface(i) PROVE NetInv'
      BY <2>0, <3>0, <3>6, OneMoreInterface
    <3>7. ASSUME NEW i \in Ifaces, net_unregister_interface(i) PROVE NetInv'
      BY <2>0, <3>0, <3>7, OneInterfaceLess
    <3>8. ASSUME NEW i \in Ifaces, eth_receive_frame(i) PROVE NetInv'
      <4>1. {i} \in SUBSET Ifaces /\ (\A j \in {i} : FrameWaits(j))
            /\ e1000_receive_packet({i})
            /\ UNCHANGED <<listVars, cleanupVars, packet_pool, handler, handed, stale,
                           used, lost, hung>>
        BY <3>8 DEF eth_receive_frame, net_receive_packet
      <4>2. E1000Inv' /\ WithDevice' = WithDevice
        BY <2>0, <4>1, AfterReceiving
      <4> QED
        BY <2>0, <3>0, <4>1, <4>2, SameBlocks
    <3>9. ASSUME NEW i \in Ifaces, eth_send_frame(i) PROVE NetInv'
      BY <2>0, <3>0, <3>9, Sends
    <3>10. ASSUME NEW i \in Ifaces, e1000_start(i) \/ e1000_stop(i), UNCHANGED coreVars
           PROVE  NetInv'
      <4>1. E1000Inv' /\ WithDevice' = WithDevice
        BY <2>0, <3>10, AfterStartOrStop
      <4>2. UNCHANGED <<used, lost, hung>>
        BY <3>10 DEF e1000_start, e1000_stop
      <4> QED
        BY <2>0, <3>0, <3>10, <4>1, <4>2, SameBlocks DEF coreVars
    <3> QED
      BY <2>4, <3>1, <3>2, <3>3, <3>4, <3>5, <3>6, <3>7, <3>8, <3>9, <3>10
  <2> QED
    BY <1>2, <2>1, <2>2, <2>3, <2>4 DEF NetNext
<1> QED
  BY <1>1, <1>2

\* The invariant of the network core.
THEOREM NetInvariant == NetSpec => []NetInv
  BY NetStarts, NetSteps, PTL DEF NetSpec

\* For every number of descriptors and of interfaces: the receive ring holds
\* exactly the frames that the controller has stored and the driver has not
\* handed out, the oldest at rx_cur.
THEOREM FramesStayInOrder == NetSpec => []RxRingHoldsTheFrames
<1>1. NetInv => RxRingHoldsTheFrames
  <2> SUFFICES ASSUME NetInv, NEW i \in Ifaces, HasDevice(i)
               PROVE  /\ hw[i].arrived - dev[i].got \in 0 .. (NUM_DESC - 1)
                      /\ \A k \in Descs :
                            dev[i].rx[(dev[i].rx_cur + k) % NUM_DESC] =
                                IF k < hw[i].arrived - dev[i].got
                                  THEN dev[i].got + k + 1 ELSE 0
    BY DEF RxRingHoldsTheFrames
  <2>1. hw[i] \in Registers /\ RingOK(dev[i], hw[i])
    BY IfaceCases DEF NetInv
  <2>2. /\ NUM_DESC \in Nat \ {0, 1} /\ Descs = 0 .. (NUM_DESC - 1)
        /\ dev[i].rx_cur \in Descs
    BY <2>1, RingParts
  <2>3. ASSUME NEW k \in Descs
        PROVE  dev[i].rx[(dev[i].rx_cur + k) % NUM_DESC] =
                   IF k < hw[i].arrived - dev[i].got
                     THEN dev[i].got + k + 1 ELSE 0
    <3>1. k \in 0 .. NUM_DESC
      BY <2>2
    <3>2. (dev[i].rx_cur + k) % NUM_DESC = Slot(dev[i].rx_cur, k, NUM_DESC)
      BY <2>2, <3>1, DescSlots
    <3> QED
      BY <2>1, <2>2, <3>2 DEF RingOK, Row
  <2> QED
    BY <2>1, <2>2, <2>3 DEF RingOK
<1> QED
  BY <1>1, NetInvariant, PTL

\* For every number of interfaces: no controller receives into a ring that was
\* freed, neither after a failed initialisation nor after a cleanup.
THEOREM DmaStaysInLiveMemory == NetSpec => []NoDmaIntoFreedMemory
<1>1. NetInv => NoDmaIntoFreedMemory
  BY IfaceCases DEF NetInv, NoDmaIntoFreedMemory
<1> QED
  BY <1>1, NetInvariant, PTL

\* Until an old next pointer gets into the list: the list, or in a cleanup what is
\* left of it, holds exactly the interfaces with a device, the count is theirs,
\* and every block the network code took is accounted for, at every step of
\* net_cleanup and net_unregister_interface, for any sizes and any number of
\* interfaces.
THEOREM NetBlocksAreAccounted == NetSpec => []NetResourcesAccounted
<1>1. NetInv => NetResourcesAccounted
  <2> SUFFICES ASSUME NetInv, ~stale PROVE NetResourcesAccounted
    BY DEF NetResourcesAccounted
  <2>1. /\ NetTypes /\ CleanupOK /\ Others \in Nat
        /\ (IF Busy THEN ListInCleanup ELSE ListOfDevices)
        /\ Cardinality(WithDevice) \in Nat
    BY OthersAreNat, CountingDevices DEF NetInv
  <2>2. Kept = WithDevice
    <3>1. CASE walking
      BY <2>1, <3>1 DEF Kept, Busy, ListInCleanup, IsList
    <3>2. CASE ~walking /\ closing = NoIface
      BY <2>1, <3>2 DEF Kept, Busy, ListOfDevices, IsList, Registered
    <3>3. CASE ~walking /\ closing # NoIface
      <4>1. Registered = WithDevice \ {closing} /\ closing \in WithDevice
        BY <2>1, <3>3 DEF Busy, ListInCleanup, IsList, Registered
      <4> QED
        BY <3>3, <4>1 DEF Kept
    <3> QED
      BY <3>1, <3>2, <3>3
  <2>3. ~walking => interface_count = Cardinality(WithDevice)
    BY <2>1 DEF Busy, ListInCleanup, ListOfDevices
  <2>4. PICK a, b, c, d :
          /\ c = (IF packet_pool THEN POOL_BLOCKS ELSE 0) /\ c \in Nat
          /\ a = Packets(handed + (IF hung THEN 1 ELSE 0)) /\ a \in Nat
          /\ b = RING_BLOCKS * lost /\ b \in Nat
          /\ d = Devices(Cardinality(WithDevice)) /\ d \in Nat
    <3>1. handed + (IF hung THEN 1 ELSE 0) \in Nat /\ lost \in Nat
      BY <2>1 DEF NetTypes
    <3> QED
      BY <2>1, <3>1, CountingBlocks
  <2>5. used = d + (c + a + b)
    BY <2>1, <2>4 DEF ListInCleanup, ListOfDevices, Others
  <2>6. used = d + c + a + b
    BY <2>4, <2>5
  <2> QED
    BY <2>2, <2>3, <2>4, <2>6 DEF NetResourcesAccounted, WithDevice
<1> QED
  BY <1>1, NetInvariant, PTL

-----------------------------------------------------------------------------
(* Routes.                                                                 *)

\* Route a comes before route b.
Before(a, b) ==
    a.metric < b.metric \/ (a.metric = b.metric /\ a.added < b.added)

Sorted(s) == \A i, j \in 1 .. Len(s) : i < j => Before(s[i], s[j])

RouteInv ==
    /\ route_adds \in 0 .. MaxAdds
    /\ ipv4_routes \in Seq(Entries)
    /\ \A i \in 1 .. Len(ipv4_routes) : ipv4_routes[i].added <= route_adds
    /\ Sorted(ipv4_routes)

\* What InsertAt and RemoveAt do to every place of a sequence.
LEMMA Inserted ==
  ASSUME NEW S, NEW s \in Seq(S), NEW e \in S, NEW p \in 1 .. (Len(s) + 1)
  PROVE  /\ InsertAt(s, p, e) \in Seq(S) /\ Len(InsertAt(s, p, e)) = Len(s) + 1
         /\ \A i \in 1 .. (Len(s) + 1) :
               InsertAt(s, p, e)[i] = IF i < p THEN s[i]
                                      ELSE IF i = p THEN e ELSE s[i - 1]
<1> DEFINE a == SubSeq(s, 1, p - 1)
           b == SubSeq(s, p, Len(s))
           c == a \o <<e>>
           d == c \o b
<1>0. Len(s) \in Nat /\ \A i \in 1 .. Len(s) : s[i] \in S
  BY LenProperties, ElementOfSeq
<1>1. /\ a \in Seq(S) /\ Len(a) = p - 1
      /\ \A i \in 1 .. (p - 1) : a[i] = s[i]
  <2>1. \A i \in 1 .. (p - 1) : s[i] \in S
    BY <1>0
  <2>2. /\ a \in Seq(S) /\ Len(a) = IF 1 <= p - 1 THEN (p - 1) - 1 + 1 ELSE 0
        /\ \A i \in 1 .. (p - 1) - 1 + 1 : a[i] = s[1 + i - 1]
    BY <1>0, <2>1, SubSeqProperties
  <2>3. (p - 1) - 1 + 1 = p - 1 /\ \A i \in 1 .. (p - 1) : 1 + i - 1 = i
    BY <1>0
  <2> QED
    BY <1>0, <2>2, <2>3
<1>2. /\ b \in Seq(S) /\ Len(b) = Len(s) - p + 1
      /\ \A i \in 1 .. (Len(s) - p + 1) : b[i] = s[p + i - 1]
  <2>1. \A i \in p .. Len(s) : s[i] \in S
    BY <1>0
  <2>2. /\ b \in Seq(S) /\ Len(b) = IF p <= Len(s) THEN Len(s) - p + 1 ELSE 0
        /\ \A i \in 1 .. (Len(s) - p + 1) : b[i] = s[p + i - 1]
    BY <1>0, <2>1, SubSeqProperties
  <2> QED
    BY <1>0, <2>2
<1>3. <<e>> \in Seq(S) /\ Len(<<e>>) = 1 /\ <<e>>[1] = e
  OBVIOUS
<1> HIDE DEF a, b
<1>4. /\ c \in Seq(S) /\ Len(c) = p
      /\ \A i \in 1 .. p : c[i] = IF i < p THEN s[i] ELSE e
  <2>1. /\ c \in Seq(S) /\ Len(c) = (p - 1) + 1
        /\ \A i \in 1 .. (p - 1) + 1 :
              c[i] = IF i <= p - 1 THEN a[i] ELSE <<e>>[i - (p - 1)]
    BY <1>1, <1>3, ConcatProperties
  <2>2. (p - 1) + 1 = p
    BY <1>0
  <2>3. ASSUME NEW i \in 1 .. p PROVE c[i] = IF i < p THEN s[i] ELSE e
    <3>1. CASE i < p
      BY <1>0, <1>1, <2>1, <2>2, <3>1
    <3>2. CASE ~(i < p)
      <4>1. i = p /\ i - (p - 1) = 1 /\ ~(i <= p - 1)
        BY <1>0, <3>2
      <4> QED
        BY <1>3, <2>1, <2>2, <3>2, <4>1
    <3> QED
      BY <3>1, <3>2
  <2> QED
    BY <2>1, <2>2, <2>3
<1> HIDE DEF c
<1>5. /\ d \in Seq(S) /\ Len(d) = Len(s) + 1
      /\ \A i \in 1 .. (Len(s) + 1) : d[i] = IF i <= p THEN c[i] ELSE b[i - p]
  <2>1. /\ d \in Seq(S) /\ Len(d) = p + (Len(s) - p + 1)
        /\ \A i \in 1 .. p + (Len(s) - p + 1) : d[i] = IF i <= p THEN c[i] ELSE b[i - p]
    BY <1>2, <1>4, ConcatProperties
  <2>2. p + (Len(s) - p + 1) = Len(s) + 1
    BY <1>0
  <2> QED
    BY <2>1, <2>2
<1> HIDE DEF d
<1>6. ASSUME NEW i \in 1 .. (Len(s) + 1)
      PROVE  d[i] = IF i < p THEN s[i] ELSE IF i = p THEN e ELSE s[i - 1]
  <2>1. CASE i <= p
    BY <1>0, <1>4, <1>5, <2>1
  <2>2. CASE ~(i <= p)
    <3>1. i - p \in 1 .. (Len(s) - p + 1) /\ p + (i - p) - 1 = i - 1 /\ ~(i < p) /\ i # p
      BY <1>0, <2>2
    <3>2. d[i] = b[i - p] /\ b[i - p] = s[p + (i - p) - 1]
      BY <1>2, <1>5, <2>2, <3>1
    <3> QED
      BY <3>1, <3>2
  <2> QED
    BY <2>1, <2>2
<1>7. InsertAt(s, p, e) = d
  BY DEF InsertAt, a, b, c, d
<1> QED
  BY <1>5, <1>6, <1>7

\* What RemoveAt does to every place of a sequence.
LEMMA Removed ==
  ASSUME NEW S, NEW s \in Seq(S), NEW p \in 1 .. Len(s)
  PROVE  /\ RemoveAt(s, p) \in Seq(S) /\ Len(RemoveAt(s, p)) = Len(s) - 1
         /\ \A i \in 1 .. (Len(s) - 1) :
               RemoveAt(s, p)[i] = IF i < p THEN s[i] ELSE s[i + 1]
<1> DEFINE a == SubSeq(s, 1, p - 1)
           b == SubSeq(s, p + 1, Len(s))
           d == a \o b
<1>0. Len(s) \in Nat /\ \A i \in 1 .. Len(s) : s[i] \in S
  BY LenProperties, ElementOfSeq
<1>1. /\ a \in Seq(S) /\ Len(a) = p - 1
      /\ \A i \in 1 .. (p - 1) : a[i] = s[i]
  <2>1. \A i \in 1 .. (p - 1) : s[i] \in S
    BY <1>0
  <2>2. /\ a \in Seq(S) /\ Len(a) = IF 1 <= p - 1 THEN (p - 1) - 1 + 1 ELSE 0
        /\ \A i \in 1 .. (p - 1) - 1 + 1 : a[i] = s[1 + i - 1]
    BY <1>0, <2>1, SubSeqProperties
  <2>3. (p - 1) - 1 + 1 = p - 1 /\ \A i \in 1 .. (p - 1) : 1 + i - 1 = i
    BY <1>0
  <2> QED
    BY <1>0, <2>2, <2>3
<1>2. /\ b \in Seq(S) /\ Len(b) = Len(s) - p
      /\ \A i \in 1 .. (Len(s) - p) : b[i] = s[p + i]
  <2>1. \A i \in (p + 1) .. Len(s) : s[i] \in S
    BY <1>0
  <2>2. /\ b \in Seq(S) /\ Len(b) = IF p + 1 <= Len(s) THEN Len(s) - (p + 1) + 1 ELSE 0
        /\ \A i \in 1 .. (Len(s) - (p + 1) + 1) : b[i] = s[(p + 1) + i - 1]
    BY <1>0, <2>1, SubSeqProperties
  <2>3. Len(b) = Len(s) - p
    BY <1>0, <2>2
  <2>4. ASSUME NEW i \in 1 .. (Len(s) - p) PROVE b[i] = s[p + i]
    <3>1. i \in 1 .. (Len(s) - (p + 1) + 1) /\ (p + 1) + i - 1 = p + i
      BY <1>0
    <3> QED
      BY <2>2, <3>1
  <2> QED
    BY <2>2, <2>3, <2>4
<1> HIDE DEF a, b
<1>3. /\ d \in Seq(S) /\ Len(d) = Len(s) - 1
      /\ \A i \in 1 .. (Len(s) - 1) : d[i] = IF i <= p - 1 THEN a[i] ELSE b[i - (p - 1)]
  <2>1. /\ d \in Seq(S) /\ Len(d) = Len(a) + Len(b)
        /\ \A i \in 1 .. Len(a) + Len(b) :
              d[i] = IF i <= Len(a) THEN a[i] ELSE b[i - Len(a)]
    BY <1>1, <1>2, ConcatProperties
  <2>2. Len(a) + Len(b) = Len(s) - 1 /\ Len(a) = p - 1
    BY <1>0, <1>1, <1>2
  <2> QED
    BY <2>1, <2>2
<1> HIDE DEF d
<1>4. ASSUME NEW i \in 1 .. (Len(s) - 1)
      PROVE  d[i] = IF i < p THEN s[i] ELSE s[i + 1]
  <2>1. CASE i < p
    BY <1>0, <1>1, <1>3, <2>1
  <2>2. CASE ~(i < p)
    <3>1. i - (p - 1) \in 1 .. (Len(s) - p) /\ p + (i - (p - 1)) = i + 1
          /\ ~(i <= p - 1)
      BY <1>0, <2>2
    <3>2. d[i] = b[i - (p - 1)] /\ b[i - (p - 1)] = s[p + (i - (p - 1))]
      BY <1>2, <1>3, <3>1
    <3> QED
      BY <2>2, <3>1, <3>2
  <2> QED
    BY <2>1, <2>2
<1>5. RemoveAt(s, p) = d
  BY DEF RemoveAt, a, b, d
<1> QED
  BY <1>3, <1>4, <1>5

\* The least of a set of numbers.
LEMMA LeastIsMin ==
  ASSUME NEW T, T \subseteq Nat, T # {}
  PROVE  Min(T) \in T /\ \A y \in T : Min(T) <= y
  BY LeastNumber DEF Min

\* Entries have a metric and a number.
LEMMA EntryParts ==
  ASSUME NEW e \in Entries
  PROVE  e.metric \in Nat /\ e.added \in 1 .. MaxAdds /\ e # NoRoute
  BY RouteAssumption DEF Entries, RouteEntry

\* The fields of a new entry.
LEMMA EntryIs ==
  ASSUME NEW r \in RouteKinds, NEW n \in 1 .. MaxAdds
  PROVE  /\ RouteEntry(r, n) \in Entries
         /\ RouteEntry(r, n).metric = r.metric /\ RouteEntry(r, n).added = n
  BY DEF Entries, RouteEntry

\* Behind the place of a route are only routes of a higher metric.
LEMMA PlaceSplits ==
  ASSUME NEW m \in Nat, RouteInv
  PROVE  /\ Place(m) \in 1 .. (Len(ipv4_routes) + 1)
         /\ \A i \in 1 .. Len(ipv4_routes) :
               IF i < Place(m) THEN ipv4_routes[i].metric <= m
                               ELSE ipv4_routes[i].metric > m
<1> DEFINE N == Len(ipv4_routes)
           H == {i \in DOMAIN ipv4_routes : ipv4_routes[i].metric > m}
           p == Place(m)
<1>0. /\ N \in Nat /\ DOMAIN ipv4_routes = 1 .. N
      /\ \A i \in 1 .. N : ipv4_routes[i].metric \in Nat
      /\ Sorted(ipv4_routes)
  BY LenProperties, ElementOfSeq, EntryParts DEF RouteInv
<1>1. H \cup {N + 1} \subseteq Nat /\ H \cup {N + 1} # {}
  BY <1>0
<1>2. p \in H \cup {N + 1} /\ \A y \in H \cup {N + 1} : p <= y
  BY <1>1, LeastIsMin DEF Place
<1>3. p \in 1 .. (N + 1)
  BY <1>0, <1>2
<1>4. ASSUME NEW i \in 1 .. N
      PROVE  IF i < p THEN ipv4_routes[i].metric <= m ELSE ipv4_routes[i].metric > m
  <2>1. CASE i < p
    <3>1. i \notin H
      BY <1>0, <1>2, <1>3, <2>1
    <3> QED
      BY <1>0, <2>1, <3>1
  <2>2. CASE ~(i < p)
    <3>1. p \in H /\ p \in 1 .. N /\ ipv4_routes[p].metric > m
      BY <1>0, <1>2, <1>3, <2>2
    <3>2. CASE i = p
      BY <2>2, <3>1, <3>2
    <3>3. CASE i # p
      <4>1. p < i
        BY <1>0, <1>3, <2>2, <3>3
      <4>2. ipv4_routes[p].metric <= ipv4_routes[i].metric
        BY <1>0, <3>1, <4>1 DEF Sorted, Before
      <4> QED
        BY <1>0, <2>2, <3>1, <4>2
    <3> QED
      BY <3>2, <3>3
  <2> QED
    BY <2>1, <2>2
<1> QED
  BY <1>3, <1>4

\* What the invariant says of every route.
LEMMA RouteFacts ==
  ASSUME RouteInv
  PROVE  /\ Len(ipv4_routes) \in Nat /\ DOMAIN ipv4_routes = 1 .. Len(ipv4_routes)
         /\ ipv4_routes \in Seq(Entries)
         /\ \A i \in 1 .. Len(ipv4_routes) :
               /\ ipv4_routes[i] \in Entries /\ ipv4_routes[i] # NoRoute
               /\ ipv4_routes[i].metric \in Nat
               /\ ipv4_routes[i].added \in 1 .. MaxAdds
               /\ ipv4_routes[i].added <= route_adds
         /\ \A i, j \in 1 .. Len(ipv4_routes) :
               i < j => Before(ipv4_routes[i], ipv4_routes[j])
  BY LenProperties, ElementOfSeq, EntryParts DEF RouteInv, Sorted

\* The new route is younger than all others and goes behind its own metric.
LEMMA RouteIsAdded ==
  ASSUME NEW r \in RouteKinds, RouteInv, ipv4_add_route(r)
  PROVE  RouteInv'
<1> DEFINE N == Len(ipv4_routes)
           R == ipv4_routes
           p == Place(r.metric)
           e == RouteEntry(r, route_adds + 1)
           new == InsertAt(ipv4_routes, p, e)
<1>0. r.metric \in Nat /\ route_adds \in Nat /\ route_adds + 1 \in 1 .. MaxAdds
      /\ MaxAdds \in Nat
  BY RouteAssumption DEF RouteInv, ipv4_add_route
<1>1. route_adds' = route_adds + 1 /\ ipv4_routes' = new
  BY DEF ipv4_add_route
<1>2. e \in Entries /\ e.metric = r.metric /\ e.added = route_adds + 1
  BY <1>0, EntryIs
<1>3. /\ p \in 1 .. (N + 1)
      /\ \A i \in 1 .. N : IF i < p THEN R[i].metric <= r.metric
                                    ELSE R[i].metric > r.metric
  BY <1>0, PlaceSplits
<1>4. /\ N \in Nat /\ R \in Seq(Entries)
      /\ \A i \in 1 .. N : /\ R[i].metric \in Nat /\ R[i].added \in 1 .. MaxAdds
                           /\ R[i].added <= route_adds
      /\ \A i, j \in 1 .. N : i < j => Before(R[i], R[j])
  BY RouteFacts
<1> HIDE DEF e, p
<1>5. /\ new \in Seq(Entries) /\ Len(new) = N + 1
      /\ \A i \in 1 .. (N + 1) :
            new[i] = IF i < p THEN R[i] ELSE IF i = p THEN e ELSE R[i - 1]
  BY <1>2, <1>3, <1>4, Inserted
<1> HIDE DEF new, R, N
<1>6. ASSUME NEW i \in 1 .. (N + 1) PROVE new[i].added <= route_adds + 1
  <2>1. CASE i < p
    BY <1>0, <1>3, <1>4, <1>5, <2>1
  <2>2. CASE i = p
    BY <1>0, <1>2, <1>5, <2>2
  <2>3. CASE i > p
    <3>1. i - 1 \in 1 .. N /\ new[i] = R[i - 1]
      BY <1>3, <1>4, <1>5, <2>3
    <3> QED
      BY <1>0, <1>4, <3>1
  <2> QED
    BY <1>3, <1>4, <2>1, <2>2, <2>3
<1>7. ASSUME NEW i \in 1 .. (N + 1), NEW j \in 1 .. (N + 1), i < j
      PROVE  Before(new[i], new[j])
  <2>1. CASE j < p
    <3>1. i \in 1 .. N /\ j \in 1 .. N /\ new[i] = R[i] /\ new[j] = R[j]
      BY <1>3, <1>4, <1>5, <1>7, <2>1
    <3> QED
      BY <1>4, <1>7, <3>1
  <2>2. CASE j = p
    <3>1. i \in 1 .. N /\ new[i] = R[i] /\ new[j] = e /\ i < p
      BY <1>3, <1>4, <1>5, <1>7, <2>2
    <3>2. /\ R[i].metric <= e.metric /\ R[i].added < e.added
          /\ R[i].metric \in Nat /\ e.metric \in Nat
      BY <1>0, <1>2, <1>3, <1>4, <3>1
    <3> QED
      BY <3>1, <3>2 DEF Before
  <2>3. CASE j > p /\ i < p
    <3>1. i \in 1 .. N /\ j - 1 \in 1 .. N /\ new[i] = R[i] /\ new[j] = R[j - 1]
          /\ i < j - 1
      BY <1>3, <1>4, <1>5, <1>7, <2>3
    <3> QED
      BY <1>4, <3>1
  <2>4. CASE j > p /\ i = p
    <3>1. j - 1 \in 1 .. N /\ new[i] = e /\ new[j] = R[j - 1] /\ ~(j - 1 < p)
      BY <1>3, <1>4, <1>5, <2>4
    <3>2. e.metric < R[j - 1].metric
      BY <1>0, <1>2, <1>3, <1>4, <3>1
    <3> QED
      BY <3>1, <3>2 DEF Before
  <2>5. CASE j > p /\ i > p
    <3>1. /\ i - 1 \in 1 .. N /\ j - 1 \in 1 .. N /\ i - 1 < j - 1
          /\ new[i] = R[i - 1] /\ new[j] = R[j - 1]
      BY <1>3, <1>4, <1>5, <1>7, <2>5
    <3> QED
      BY <1>4, <3>1
  <2> QED
    BY <1>3, <1>4, <2>1, <2>2, <2>3, <2>4, <2>5
<1>8. route_adds + 1 \in 0 .. MaxAdds
  BY <1>0
<1> QED
  BY <1>1, <1>5, <1>6, <1>7, <1>8 DEF RouteInv, Sorted

\* A sorted list stays sorted without one of its routes.
LEMMA RouteIsRemoved ==
  ASSUME NEW network, NEW netmask, RouteInv, ipv4_remove_route(network, netmask)
  PROVE  RouteInv'
<1> DEFINE N == Len(ipv4_routes)
           R == ipv4_routes
           same == {i \in DOMAIN ipv4_routes : /\ ipv4_routes[i].network = network
                                               /\ ipv4_routes[i].netmask = netmask}
           p == Min(same)
           new == RemoveAt(ipv4_routes, p)
<1>1. same # {} /\ ipv4_routes' = new /\ route_adds' = route_adds
  BY DEF ipv4_remove_route
<1>2. /\ N \in Nat /\ DOMAIN R = 1 .. N /\ R \in Seq(Entries)
      /\ \A i \in 1 .. N : R[i].added <= route_adds
      /\ \A i, j \in 1 .. N : i < j => Before(R[i], R[j])
  BY RouteFacts
<1>3. p \in 1 .. N
  <2>1. same \subseteq 1 .. N /\ same \subseteq Nat
    BY <1>2
  <2> HIDE DEF same
  <2>2. p \in same
    BY <1>1, <2>1, LeastIsMin
  <2> QED
    BY <2>1, <2>2
<1> HIDE DEF p
<1>4. /\ new \in Seq(Entries) /\ Len(new) = N - 1
      /\ \A i \in 1 .. (N - 1) : new[i] = IF i < p THEN R[i] ELSE R[i + 1]
  BY <1>2, <1>3, Removed
<1> HIDE DEF new, R, N
<1>5. \A i \in 1 .. (N - 1) : new[i].added <= route_adds
  BY <1>2, <1>3, <1>4
<1>6. ASSUME NEW i \in 1 .. (N - 1), NEW j \in 1 .. (N - 1), i < j
      PROVE  Before(new[i], new[j])
  <2>1. PICK k \in 1 .. N : new[i] = R[k] /\ k = IF i < p THEN i ELSE i + 1
    BY <1>2, <1>3, <1>4
  <2>2. PICK l \in 1 .. N : new[j] = R[l] /\ l = IF j < p THEN j ELSE j + 1
    BY <1>2, <1>3, <1>4
  <2>3. k < l
    BY <1>2, <1>3, <1>6, <2>1, <2>2
  <2> QED
    BY <1>2, <2>1, <2>2, <2>3
<1>7. route_adds \in 0 .. MaxAdds
  BY DEF RouteInv
<1> QED
  BY <1>1, <1>4, <1>5, <1>6, <1>7 DEF RouteInv, Sorted

\* One case per action of RouteNext.
LEMMA RouteSteps == RouteInv /\ [RouteNext]_routeVars => RouteInv'
<1> SUFFICES ASSUME RouteInv, [RouteNext]_routeVars PROVE RouteInv'
  OBVIOUS
<1>1. CASE UNCHANGED routeVars
  BY <1>1 DEF routeVars, RouteInv, Sorted
<1>2. CASE ipv4_flush_routes
  <2>1. ipv4_routes' = <<>> /\ route_adds' = route_adds
    BY <1>2 DEF ipv4_flush_routes
  <2>2. <<>> \in Seq(Entries) /\ Len(<<>>) = 0
    BY EmptySeq
  <2> QED
    BY <2>1, <2>2 DEF RouteInv, Sorted
<1>3. ASSUME NEW r \in RouteKinds, ipv4_add_route(r) PROVE RouteInv'
  BY <1>3, RouteIsAdded
<1>4. ASSUME NEW r \in RouteKinds, ipv4_remove_route(r.network, r.netmask) PROVE RouteInv'
  BY <1>4, RouteIsRemoved
<1> QED
  BY <1>1, <1>2, <1>3, <1>4 DEF RouteNext

\* An empty list is sorted.
LEMMA RouteStarts == RouteInit => RouteInv
<1> SUFFICES ASSUME RouteInit PROVE RouteInv
  OBVIOUS
<1>1. <<>> \in Seq(Entries) /\ Len(<<>>) = 0
  BY EmptySeq
<1> QED
  BY <1>1, RouteAssumption DEF RouteInit, RouteInv, Sorted

\* The list is sorted by the metric, and by age where metrics are the same.
THEOREM RoutesStaySorted == RouteSpec => []RouteInv
  BY RouteStarts, RouteSteps, PTL DEF RouteSpec

\* One turn of the loop of ipv4_find_route: f[n] from f[n - 1].
Turn(dest, f, n) ==
    IF n = 0 THEN NoRoute
    ELSE IF /\ Matches(dest, ipv4_routes[n])
            /\ \/ f[n - 1] = NoRoute
               \/ ipv4_routes[n].metric < f[n - 1].metric
           THEN ipv4_routes[n]
           ELSE f[n - 1]

\* best is a function that takes these turns.
IsSearch(dest, f) == f = [n \in 0 .. Len(ipv4_routes) |-> Turn(dest, f, n)]

\* The CHOOSE behind best[n] is some function that follows the loop.
LEMMA TheSearch ==
  ASSUME NEW dest, \E f : IsSearch(dest, f)
  PROVE  \E f : IsSearch(dest, f) /\ ipv4_find_route(dest) = f[Len(ipv4_routes)]
  BY DEF ipv4_find_route, IsSearch, Turn

\* The places of the routes that match.
Hits(dest) == {i \in 1 .. Len(ipv4_routes) : Matches(dest, ipv4_routes[i])}

\* Two functions that take the same turns are the same, up to every number.
LEMMA SearchIsUnique ==
  ASSUME NEW dest, NEW f, NEW w, IsSearch(dest, f), IsSearch(dest, w),
         Len(ipv4_routes) \in Nat
  PROVE  \A n \in 0 .. Len(ipv4_routes) : f[n] = w[n]
<1> DEFINE N == Len(ipv4_routes)
           T == {n \in 0 .. N : f[n] # w[n]}
<1>1. \A n \in 0 .. N : f[n] = Turn(dest, f, n) /\ w[n] = Turn(dest, w, n)
  BY DEF IsSearch
<1>2. ASSUME T # {} PROVE FALSE
  <2>1. PICK n \in T : \A y \in T : n <= y
    <3>1. T \subseteq Nat
      OBVIOUS
    <3> HIDE DEF T
    <3> QED
      BY <1>2, <3>1, LeastNumber
  <2>2. n \in 0 .. N /\ f[n] # w[n]
    BY <2>1
  <2>3. n # 0
    BY <1>1, <2>2 DEF Turn
  <2>4. n - 1 \in 0 .. N /\ n - 1 < n
    BY <2>2, <2>3
  <2>5. f[n - 1] = w[n - 1]
    BY <2>1, <2>4
  <2>6. Turn(dest, f, n) = Turn(dest, w, n)
    BY <2>5 DEF Turn
  <2> QED
    BY <1>1, <2>2, <2>6
<1> QED
  BY <1>2

\* Without a match every turn leaves NoRoute.
LEMMA SearchFindsNone ==
  ASSUME NEW dest, RouteInv, Hits(dest) = {}
  PROVE  ipv4_find_route(dest) = NoRoute
<1> DEFINE N == Len(ipv4_routes)
           w == [n \in 0 .. N |-> NoRoute]
<1>1. N \in Nat
  BY RouteFacts
<1>2. ASSUME NEW n \in 0 .. N PROVE Turn(dest, w, n) = NoRoute
  <2>1. CASE n = 0
    BY <2>1 DEF Turn
  <2>2. CASE n # 0
    <3>1. n \in 1 .. N /\ n - 1 \in 0 .. N
      BY <1>1, <2>2
    <3>2. ~Matches(dest, ipv4_routes[n]) /\ w[n - 1] = NoRoute
      BY <3>1 DEF Hits
    <3> QED
      BY <2>2, <3>2 DEF Turn
  <2> QED
    BY <2>1, <2>2
<1>3. w = [n \in 0 .. N |-> Turn(dest, w, n)]
  BY <1>2
<1>4. w[N] = NoRoute /\ N \in 0 .. N
  BY <1>1
<1> HIDE DEF w
<1>5. IsSearch(dest, w)
  BY <1>3 DEF IsSearch
<1>6. PICK f : IsSearch(dest, f) /\ ipv4_find_route(dest) = f[N]
  BY <1>5, TheSearch
<1>7. f[N] = w[N]
  BY <1>1, <1>4, <1>5, <1>6, SearchIsUnique
<1> QED
  BY <1>4, <1>6, <1>7

\* With one, the loop keeps the first: no later route has a lower metric.
LEMMA SearchFindsFirst ==
  ASSUME NEW dest, RouteInv, NEW m \in Hits(dest), \A i \in Hits(dest) : m <= i
  PROVE  ipv4_find_route(dest) = ipv4_routes[m]
<1> DEFINE N == Len(ipv4_routes)
           R == ipv4_routes
           w == [n \in 0 .. N |-> IF n < m THEN NoRoute ELSE R[m]]
<1>1. /\ N \in Nat
      /\ \A i \in 1 .. N : R[i].metric \in Nat /\ R[i] # NoRoute
      /\ \A i, j \in 1 .. N : i < j => Before(R[i], R[j])
  BY RouteFacts
<1>2. m \in 1 .. N /\ Matches(dest, R[m])
  BY DEF Hits
<1>3. ASSUME NEW n \in 0 .. N
      PROVE  Turn(dest, w, n) = IF n < m THEN NoRoute ELSE R[m]
  <2>1. CASE n = 0
    BY <1>2, <2>1 DEF Turn
  <2>2. CASE n # 0 /\ n < m
    <3>1. n \in 1 .. N /\ n - 1 \in 0 .. N /\ n - 1 < m
      BY <1>1, <1>2, <2>2
    <3>2. ~Matches(dest, R[n])
      BY <1>2, <2>2, <3>1 DEF Hits
    <3>3. w[n - 1] = NoRoute
      BY <3>1
    <3> QED
      BY <2>2, <3>2, <3>3 DEF Turn
  <2>3. CASE n # 0 /\ n = m
    <3>1. n - 1 \in 0 .. N /\ n - 1 < m /\ ~(n < m)
      BY <1>1, <1>2, <2>3
    <3>2. w[n - 1] = NoRoute
      BY <3>1
    <3> QED
      BY <1>2, <2>3, <3>1, <3>2 DEF Turn
  <2>4. CASE n # 0 /\ n > m
    <3>1. n \in 1 .. N /\ n - 1 \in 0 .. N /\ ~(n - 1 < m) /\ m < n /\ ~(n < m)
      BY <1>1, <1>2, <2>4
    <3>2. w[n - 1] = R[m]
      BY <3>1
    <3>3. ~(R[n].metric < R[m].metric) /\ R[m] # NoRoute
      <4>1. Before(R[m], R[n]) /\ R[m].metric \in Nat /\ R[n].metric \in Nat
        BY <1>1, <1>2, <3>1
      <4> QED
        BY <1>1, <1>2, <4>1 DEF Before
    <3> HIDE DEF w
    <3> QED
      BY <2>4, <3>1, <3>2, <3>3 DEF Turn
  <2> QED
    BY <1>1, <1>2, <2>1, <2>2, <2>3, <2>4
<1>4. w = [n \in 0 .. N |-> Turn(dest, w, n)]
  BY <1>3
<1>5. w[N] = R[m] /\ N \in 0 .. N
  BY <1>1, <1>2
<1> HIDE DEF w
<1>6. IsSearch(dest, w)
  BY <1>4 DEF IsSearch
<1>7. PICK f : IsSearch(dest, f) /\ ipv4_find_route(dest) = f[N]
  BY <1>6, TheSearch
<1>8. f[N] = w[N]
  BY <1>1, <1>5, <1>6, <1>7, SearchIsUnique
<1> QED
  BY <1>5, <1>7, <1>8

\* For every set of routes and every destination: whatever was added and
\* removed, ipv4_find_route finds, of the routes that match and have the lowest
\* metric, the one that has been in the list longest, and none only if none
\* matches.
THEOREM LookUpFindsBestRoute == RouteSpec => []FindsBestRoute
<1>1. RouteInv => FindsBestRoute
  <2> SUFFICES ASSUME RouteInv, NEW dest \in Dests
               PROVE  LET fit  == {r \in ToSet(ipv4_routes) : Matches(dest, r)}
                          best == ipv4_find_route(dest)
                      IN  IF fit = {} THEN best = NoRoute
                          ELSE /\ best \in fit
                               /\ \A r \in fit : \/ best.metric < r.metric
                                                 \/ /\ best.metric = r.metric
                                                    /\ best.added <= r.added
    BY DEF FindsBestRoute
  <2> DEFINE fit == {r \in ToSet(ipv4_routes) : Matches(dest, r)}
             best == ipv4_find_route(dest)
             N == Len(ipv4_routes)
             R == ipv4_routes
  <2>1. /\ N \in Nat /\ DOMAIN R = 1 .. N
        /\ \A i \in 1 .. N : R[i].metric \in Nat /\ R[i].added \in Nat
        /\ \A i, j \in 1 .. N : i < j => Before(R[i], R[j])
    BY RouteFacts
  <2>2. /\ \A r \in fit : \E i \in Hits(dest) : r = R[i]
        /\ \A i \in Hits(dest) : R[i] \in fit
    BY <2>1 DEF ToSet, Hits
  <2>3. CASE Hits(dest) = {}
    <3>1. fit = {} /\ best = NoRoute
      BY <2>2, <2>3, SearchFindsNone
    <3> QED
      BY <3>1
  <2>4. CASE Hits(dest) # {}
    <3>1. Hits(dest) \subseteq Nat /\ Hits(dest) \subseteq 1 .. N
      BY DEF Hits
    <3>2. PICK m \in Hits(dest) : \A i \in Hits(dest) : m <= i
      BY <2>4, <3>1, LeastNumber
    <3>3. best = R[m] /\ best \in fit
      BY <2>2, <3>2, SearchFindsFirst
    <3>4. ASSUME NEW r \in fit
          PROVE  best.metric < r.metric \/ (best.metric = r.metric /\ best.added <= r.added)
      <4>1. PICK i \in Hits(dest) : r = R[i]
        BY <2>2
      <4>2. CASE i = m
        BY <2>1, <3>1, <3>3, <4>1, <4>2
      <4>3. CASE i # m
        <5>1. m < i /\ m \in 1 .. N /\ i \in 1 .. N
          BY <3>1, <3>2, <4>1, <4>3
        <5>2. Before(R[m], R[i]) /\ R[m].added \in Nat /\ R[i].added \in Nat
          BY <2>1, <5>1
        <5> QED
          BY <3>3, <4>1, <5>2 DEF Before
      <4> QED
        BY <4>2, <4>3
    <3> HIDE DEF fit, best
    <3>5. IF fit = {} THEN best = NoRoute
          ELSE /\ best \in fit
               /\ \A r \in fit : \/ best.metric < r.metric
                                 \/ best.metric = r.metric /\ best.added <= r.added
      BY <3>3, <3>4
    <3> QED
      BY <3>5 DEF fit, best
  <2> QED
    BY <2>3, <2>4
<1> QED
  BY <1>1, RoutesStaySorted, PTL

-----------------------------------------------------------------------------
(* Fragments.                                                              *)

Bytes == Nat \X Nat
Sendings == [length : Lengths, mtu : Mtus]

\* The bytes that ipv4_send_packet leaves of a packet, and the units of one of
\* its fragments.
Left(r) == r.length - IP_HEADER
Units(r) == (r.mtu - IP_HEADER) \div FRAG_UNIT

\* p is a fragment of packet d, one of several: it starts at a multiple of the
\* fragment size, holds one unit at least or the end of the packet, and its
\* bytes are those of the packet.
Piece(p, d, r) ==
    /\ p.id \in Nat /\ Of(p) = d
    /\ Left(r) > Units(r) * FRAG_UNIT
    /\ \E i \in Nat : p.offset = i * Units(r)
    /\ Len(p.data) \in Nat
    /\ p.offset * FRAG_UNIT + Len(p.data) <= Left(r)
    /\ Len(p.data) <= Units(r) * FRAG_UNIT
    /\ p.more => Len(p.data) >= FRAG_UNIT
    /\ ~p.more => p.offset * FRAG_UNIT + Len(p.data) = Left(r)
    /\ \A k \in 1 .. Len(p.data) :
          p.data[k] = <<d, IP_HEADER + (p.offset * FRAG_UNIT + k)>>

Reassembly ==
    [id : Nat, data : [1 .. MAX_DATA -> Bytes], total_length : Nat,
     fragments : SUBSET (0 .. (MAX_FRAGMENTS - 1)), of : Nat]

\* f is a buffer that holds fragments of packet d alone: where a unit is
\* marked, its bytes are in place; the end is known when a fragment had it
\* whose mark fell into the table.
Partial(f, d, r) ==
    /\ f \in Reassembly
    /\ f.of = d
    /\ Left(r) > Units(r) * FRAG_UNIT
    /\ f.total_length \in {0, Left(r)}
    /\ f.total_length # 0 =>
          Left(r) <= (MAX_FRAGMENTS - 1) * FRAG_UNIT + Units(r) * FRAG_UNIT
    /\ \A u \in f.fragments :
          /\ \E i \in Nat : u = i * Units(r)
          /\ \A k \in 1 .. Left(r) :
                u * FRAG_UNIT < k /\ k <= u * FRAG_UNIT + FRAG_UNIT
                    => f.data[k] = <<d, IP_HEADER + k>>

\* A buffer is mixed up, or holds its packet.
Holding(f) ==
    /\ f \in Reassembly
    /\ f.of # Mixed => f.of \in 1 .. Len(ip_sent) /\ Partial(f, f.of, ip_sent[f.of])

WireOK ==
    \A p \in wire : IsFragment(p) =>
                        \E d \in 1 .. Len(ip_sent) : Piece(p, d, ip_sent[d])

BuffersOK ==
    /\ DOMAIN buffers = 1 .. MAX_FRAGMENTS
    /\ \A b \in 1 .. MAX_FRAGMENTS :
          buffers[b] = NoBuffer \/ Holding(buffers[b])

FragInv ==
    /\ ip_sent \in Seq(Sendings)
    /\ WireOK
    /\ BuffersOK
    /\ ReassembledWhole

\* Division.
LEMMA Quotients ==
  ASSUME NEW a \in Nat, NEW s \in Nat \ {0}
  PROVE  /\ a \div s \in Nat /\ (a \div s) * s <= a /\ a < (a \div s) * s + s
         /\ (a * s) \div s = a
  OBVIOUS

\* Multiplication, as far as offsets and lengths need it.
LEMMA Products ==
  ASSUME NEW a \in Nat, NEW b \in Nat, NEW c \in Nat
  PROVE  /\ a * b \in Nat /\ a * (b * c) = (a * b) * c
         /\ (a + 1) * b = a * b + b
         /\ a < b => a * c + c <= b * c
         /\ a * b = 1 => b = 1
  OBVIOUS

\* A function on 1 .. n is a sequence of length n.
LEMMA IsSequence ==
  ASSUME NEW n \in Nat, NEW S, NEW f \in [1 .. n -> S]
  PROVE  f \in Seq(S) /\ Len(f) = n
  OBVIOUS

\* What a packet's length and MTU are.
LEMMA SendingParts ==
  ASSUME NEW r \in Sendings
  PROVE  /\ Left(r) \in 1 .. MAX_DATA /\ MAX_DATA \in Nat /\ Left(r) \in Nat
         /\ Units(r) \in Nat \ {0}
         /\ MaxFragment(r.mtu) = Units(r) * FRAG_UNIT
         /\ FRAG_UNIT \in Nat \ {0} /\ IP_HEADER \in Nat
<1>1. /\ FRAG_UNIT \in Nat \ {0} /\ IP_HEADER \in Nat
      /\ r.length \in Nat /\ r.length - IP_HEADER \in 1 .. MAX_DATA
      /\ r.mtu \in Nat /\ r.mtu >= IP_HEADER + FRAG_UNIT
      /\ MAX_DATA \in Nat
  BY FragAssumption DEF Sendings
<1>2. MAX_DATA \in Nat /\ Left(r) \in 1 .. MAX_DATA /\ Left(r) \in Nat
  BY <1>1 DEF Left
<1>3. PICK a \in Nat : a = r.mtu - IP_HEADER /\ a >= FRAG_UNIT
  BY <1>1
<1>4. a \div FRAG_UNIT \in Nat /\ a < (a \div FRAG_UNIT) * FRAG_UNIT + FRAG_UNIT
  BY <1>1, <1>3, Quotients
<1>5. a \div FRAG_UNIT # 0
  <2>1. ASSUME a \div FRAG_UNIT = 0 PROVE FALSE
    <3>1. 0 * FRAG_UNIT + FRAG_UNIT = FRAG_UNIT
      BY <1>1
    <3>2. a < FRAG_UNIT
      BY <1>4, <2>1, <3>1
    <3> QED
      BY <1>1, <1>3, <3>2
  <2> QED
    BY <2>1
<1>6. Units(r) = a \div FRAG_UNIT /\ MaxFragment(r.mtu) = (a \div FRAG_UNIT) * FRAG_UNIT
  BY <1>3 DEF Units, MaxFragment
<1> QED
  BY <1>1, <1>2, <1>4, <1>5, <1>6

\* The bytes of a packet.
LEMMA PayloadIs ==
  ASSUME NEW d \in Nat, NEW r \in Sendings
  PROVE  /\ Payload(d, r.length) \in Seq(Bytes)
         /\ Len(Payload(d, r.length)) = Left(r)
         /\ \A k \in 1 .. Left(r) : Payload(d, r.length)[k] = <<d, IP_HEADER + k>>
<1>1. Left(r) \in Nat /\ IP_HEADER \in Nat
  BY SendingParts
<1>2. Payload(d, r.length) = [k \in 1 .. Left(r) |-> <<d, IP_HEADER + k>>]
  BY DEF Payload, Left
<1>3. \A k \in 1 .. Left(r) : <<d, IP_HEADER + k>> \in Bytes
  BY <1>1 DEF Bytes
<1>4. Payload(d, r.length) \in [1 .. Left(r) -> Bytes]
  BY <1>2, <1>3
<1> QED
  BY <1>1, <1>2, <1>4, IsSequence

\* The i-th of count fragments of size s of a packet of length l.
LEMMA FragmentBounds ==
  ASSUME NEW l \in Nat \ {0}, NEW s \in Nat \ {0}, NEW count,
         count = (l + s - 1) \div s, NEW i \in 0 .. (count - 1)
  PROVE  /\ count \in Nat /\ i * s \in Nat /\ i * s < l
         /\ i < count - 1 => (i + 1) * s = i * s + s /\ i * s + s < l
         /\ i > 0 => s <= i * s
<1>1. /\ count \in Nat /\ count * s <= l + s - 1 /\ count * s \in Nat
  <2>1. l + s - 1 \in Nat
    OBVIOUS
  <2>2. count \in Nat /\ count * s <= l + s - 1
    BY <2>1, Quotients
  <2> QED
    BY <2>2, Products
<1>2. i \in Nat /\ i < count /\ i + 1 \in Nat
  BY <1>1
<1>3. i * s \in Nat /\ i * s + s <= count * s /\ (i + 1) * s = i * s + s
  BY <1>1, <1>2, Products
<1>4. ASSUME i < count - 1 PROVE i * s + s < l
  <2>1. i + 1 < count
    BY <1>1, <1>2, <1>4
  <2>2. (i + 1) * s + s <= count * s
    BY <1>1, <1>2, <2>1, Products
  <2> QED
    BY <1>1, <1>3, <2>2
<1>5. ASSUME i > 0 PROVE s <= i * s
  <2>1. 0 * s + s <= i * s
    BY <1>2, <1>5, Products
  <2>2. 0 * s + s = s
    OBVIOUS
  <2> QED
    BY <2>1, <2>2
<1> QED
  BY <1>1, <1>3, <1>4, <1>5

\* The last fragment is not longer than the others.
LEMMA LastFragment ==
  ASSUME NEW l \in Nat \ {0}, NEW s \in Nat \ {0}, NEW i \in Nat,
         i = (l + s - 1) \div s - 1
  PROVE  l <= i * s + s
<1>1. l + s - 1 \in Nat
  OBVIOUS
<1>2. (l + s - 1) \div s \in Nat /\ l + s - 1 < ((l + s - 1) \div s) * s + s
  BY <1>1, Quotients
<1>3. (i + 1) * s = i * s + s /\ i * s \in Nat
  BY Products
<1>4. ((l + s - 1) \div s) * s = i * s + s
  <2>1. (l + s - 1) \div s = i + 1
    BY <1>2
  <2> QED
    BY <1>3, <2>1
<1> QED
  BY <1>2, <1>3, <1>4

\* ipv4_fragment_packet makes pieces.
LEMMA FragmentIsPiece ==
  ASSUME NEW d \in Nat \ {0}, NEW r \in Sendings, NEW p, NEW id \in Nat,
         p \in FragmentsOf(id, Payload(d, r.length), r.mtu), IsFragment(p)
  PROVE  Piece(p, d, r)
<1> DEFINE l == Left(r)
           q == Units(r)
           s == MaxFragment(r.mtu)
           data == Payload(d, r.length)
           count == (l + s - 1) \div s
           last(i) == IF i = count - 1 THEN l ELSE (i + 1) * s
<1>1. /\ l \in 1 .. MAX_DATA /\ l \in Nat \ {0} /\ q \in Nat \ {0} /\ s = q * FRAG_UNIT
      /\ FRAG_UNIT \in Nat \ {0} /\ IP_HEADER \in Nat
  BY SendingParts
<1>2. /\ data \in Seq(Bytes) /\ Len(data) = l
      /\ \A k \in 1 .. l : data[k] = <<d, IP_HEADER + k>>
  BY PayloadIs
<1>3. PICK i \in 0 .. (count - 1) :
        p = [id |-> id, offset |-> (i * s) \div FRAG_UNIT, more |-> i < count - 1,
             data |-> SubSeq(data, i * s + 1, last(i))]
  BY <1>2 DEF FragmentsOf
<1>4. /\ p.id = id /\ p.offset = (i * s) \div FRAG_UNIT
      /\ p.more = (i < count - 1) /\ p.data = SubSeq(data, i * s + 1, last(i))
  BY <1>3
<1> HIDE DEF data, q, l, s
<1>5. s \in Nat \ {0} /\ s >= FRAG_UNIT
  <2>1. 0 * FRAG_UNIT + FRAG_UNIT <= q * FRAG_UNIT /\ q * FRAG_UNIT \in Nat
    BY <1>1, Products
  <2>2. 0 * FRAG_UNIT + FRAG_UNIT = FRAG_UNIT
    BY <1>1
  <2> QED
    BY <1>1, <2>1, <2>2
<1>6. /\ count \in Nat /\ i * s \in Nat /\ i * s < l
      /\ i < count - 1 => (i + 1) * s = i * s + s /\ i * s + s < l
      /\ i > 0 => s <= i * s
  BY <1>1, <1>5, FragmentBounds
<1> HIDE DEF count
<1>7. i \in Nat /\ i <= count - 1
  BY <1>6
<1>8. p.offset = i * q /\ p.offset * FRAG_UNIT = i * s
  <2>1. i * s = (i * q) * FRAG_UNIT /\ i * q \in Nat
    BY <1>1, <1>7, Products
  <2>2. ((i * q) * FRAG_UNIT) \div FRAG_UNIT = i * q
    BY <1>1, <2>1, Quotients
  <2> QED
    BY <1>4, <2>1, <2>2
<1>9. PICK x \in Nat, z \in Nat : x = i * s /\ z = last(i) /\ x < z /\ z <= l
                                  /\ (i < count - 1 => z = x + s /\ z < l)
                                  /\ (~(i < count - 1) => z = l) /\ z <= x + s
  <2>1. CASE i = count - 1
    <3>1. last(i) = l /\ ~(i < count - 1)
      BY <1>6, <1>7, <2>1
    <3>2. l <= i * s + s
      BY <1>1, <1>5, <1>6, <1>7, <2>1, LastFragment DEF count
    <3> QED
      BY <1>1, <1>6, <3>1, <3>2
  <2>2. CASE i # count - 1
    <3>1. last(i) = i * s + s /\ i < count - 1
      BY <1>6, <1>7, <2>2
    <3> QED
      BY <1>1, <1>5, <1>6, <3>1
  <2> QED
    BY <2>1, <2>2
<1>10. /\ Len(p.data) = z - x
       /\ \A k \in 1 .. (z - x) : p.data[k] = <<d, IP_HEADER + (x + k)>>
  <2>1. p.data = SubSeq(data, x + 1, z)
    BY <1>4, <1>9
  <2>2. ASSUME NEW k \in (x + 1) .. z PROVE data[k] \in Bytes
    <3>1. k \in 1 .. Len(data)
      <4>1. k \in 1 .. l
        BY <1>1, <1>9
      <4>2. Len(data) = l
        BY <1>2
      <4> QED
        BY <4>1, <4>2
    <3> QED
      BY <1>2, <3>1, ElementOfSeq
  <2>3. /\ Len(SubSeq(data, x + 1, z)) = IF x + 1 <= z THEN z - (x + 1) + 1 ELSE 0
        /\ \A k \in 1 .. (z - (x + 1) + 1) : SubSeq(data, x + 1, z)[k] = data[(x + 1) + k - 1]
    BY <2>2, SubSeqProperties
  <2>4. Len(p.data) = z - x
    BY <1>9, <2>1, <2>3
  <2>5. ASSUME NEW k \in 1 .. (z - x) PROVE p.data[k] = <<d, IP_HEADER + (x + k)>>
    <3>1. /\ k \in 1 .. (z - (x + 1) + 1) /\ (x + 1) + k - 1 = x + k /\ x + k \in 1 .. l
      BY <1>1, <1>9
    <3> QED
      BY <1>2, <2>1, <2>3, <3>1
  <2> QED
    BY <2>4, <2>5
<1>11. l > s
  <2>1. CASE i < count - 1
    BY <1>1, <1>5, <1>9, <2>1
  <2>2. CASE ~(i < count - 1)
    <3>1. p.offset > 0
      BY <1>4, <2>2 DEF IsFragment
    <3>2. i # 0
      <4>1. 0 * q = 0
        BY <1>1
      <4> QED
        BY <1>8, <3>1, <4>1
    <3> QED
      BY <1>1, <1>5, <1>6, <1>7, <3>2
  <2> QED
    BY <2>1, <2>2
<1>12. /\ Len(p.data) \in Nat /\ x + Len(p.data) <= l /\ Len(p.data) <= s
       /\ 1 \in 1 .. Len(p.data)
       /\ p.more => Len(p.data) >= FRAG_UNIT
       /\ ~p.more => x + Len(p.data) = l
  <2>1. PICK n \in Nat : n = Len(p.data) /\ n = z - x /\ n <= s /\ 1 \in 1 .. n
    BY <1>5, <1>9, <1>10
  <2>2. CASE i < count - 1
    <3>1. p.more /\ z = x + s
      BY <1>4, <1>9, <2>2
    <3>2. n >= FRAG_UNIT /\ x + n <= l
      BY <1>1, <1>5, <1>9, <2>1, <3>1
    <3> QED
      BY <2>1, <3>1, <3>2
  <2>3. CASE ~(i < count - 1)
    <3>1. ~p.more /\ z = l
      BY <1>4, <1>9, <2>3
    <3>2. x + n = l
      BY <1>1, <1>9, <2>1, <3>1
    <3> QED
      BY <1>1, <2>1, <3>1, <3>2
  <2> QED
    BY <2>2, <2>3
<1>13. p.offset * FRAG_UNIT = x /\ \E j \in Nat : p.offset = j * q
  BY <1>7, <1>8, <1>9
<1>14. l > q * FRAG_UNIT /\ l = Left(r) /\ q = Units(r) /\ s = q * FRAG_UNIT
  BY <1>1, <1>11 DEF l, q
<1>15. Of(p) = d
  BY <1>10, <1>12 DEF Of
<1> QED
  BY <1>4, <1>10, <1>12, <1>13, <1>14, <1>15 DEF Piece

\* A buffer is not NoBuffer.
LEMMA IsBuffer ==
  ASSUME NEW f \in Reassembly
  PROVE  f # NoBuffer
BY DEF Reassembly, NoBuffer

\* A new buffer holds nothing yet.
LEMMA NewBufferIsPartial ==
  ASSUME NEW d \in Nat \ {0}, NEW r \in Sendings, NEW p, Piece(p, d, r)
  PROVE  Partial([id |-> p.id, data |-> [k \in 1 .. MAX_DATA |-> Garbage],
                  total_length |-> 0, fragments |-> {}, of |-> Of(p)], d, r)
<1> DEFINE f == [id |-> p.id, data |-> [k \in 1 .. MAX_DATA |-> Garbage],
                 total_length |-> 0, fragments |-> {}, of |-> Of(p)]
<1>1. p.id \in Nat /\ Of(p) = d /\ Left(r) > Units(r) * FRAG_UNIT
  BY DEF Piece
<1>2. Garbage \in Bytes
  BY DEF Garbage, Bytes
<1>3. [k \in 1 .. MAX_DATA |-> Garbage] \in [1 .. MAX_DATA -> Bytes]
  BY <1>2
<1>4. /\ f \in Reassembly /\ f.of = d
      /\ f.total_length = 0 /\ f.fragments = {}
  BY <1>1, <1>3 DEF Reassembly
<1> HIDE DEF f
<1>5. Partial(f, d, r)
  BY <1>1, <1>4 DEF Partial
<1> QED
  BY <1>5 DEF f

\* Where a piece starts, and the bytes it stores.
LEMMA PieceParts ==
  ASSUME NEW d \in Nat \ {0}, NEW r \in Sendings, NEW p, Piece(p, d, r)
  PROVE  /\ p.offset \in Nat /\ p.offset * FRAG_UNIT \in Nat
         /\ \E i \in Nat : p.offset = i * Units(r)
         /\ Len(p.data) \in Nat
         /\ p.offset * FRAG_UNIT + Len(p.data) <= Left(r)
         /\ \A k \in (p.offset * FRAG_UNIT + 1) .. (p.offset * FRAG_UNIT + Len(p.data)) :
               /\ p.data[k - p.offset * FRAG_UNIT] = <<d, IP_HEADER + k>>
               /\ p.data[k - p.offset * FRAG_UNIT] \in Bytes
<1> DEFINE at == p.offset * FRAG_UNIT
           n == Len(p.data)
<1>1. /\ FRAG_UNIT \in Nat \ {0} /\ IP_HEADER \in Nat /\ Units(r) \in Nat \ {0}
  BY SendingParts
<1>2. p.offset \in Nat /\ (\E i \in Nat : p.offset = i * Units(r)) /\ at \in Nat
  <2>1. PICK i \in Nat : p.offset = i * Units(r)
    BY DEF Piece
  <2>2. p.offset \in Nat
    BY <1>1, <2>1, Products
  <2> QED
    BY <1>1, <2>1, <2>2, Products
<1>3. /\ n \in Nat /\ at + n <= Left(r)
      /\ \A k \in 1 .. n : p.data[k] = <<d, IP_HEADER + (at + k)>>
  BY DEF Piece
<1> HIDE DEF at, n
<1>4. ASSUME NEW k \in (at + 1) .. (at + n)
      PROVE  p.data[k - at] = <<d, IP_HEADER + k>> /\ p.data[k - at] \in Bytes
  <2>1. k - at \in 1 .. n /\ at + (k - at) = k /\ k \in Nat
    BY <1>2, <1>3
  <2>2. p.data[k - at] = <<d, IP_HEADER + k>>
    BY <1>3, <2>1
  <2>3. <<d, IP_HEADER + k>> \in Bytes
    BY <1>1, <2>1 DEF Bytes
  <2> QED
    BY <2>2, <2>3
<1> QED
  BY <1>2, <1>3, <1>4 DEF at, n

\* What a buffer is that a piece was stored in, before its mark is made.
LEMMA StoredParts ==
  ASSUME NEW d \in Nat \ {0}, NEW r \in Sendings, NEW p, Piece(p, d, r),
         NEW f \in Reassembly
  PROVE  LET g  == Stored(f, p)
             at == p.offset * FRAG_UNIT
         IN  /\ g \in Reassembly
             /\ g.fragments = f.fragments
             /\ g.of = IF f.of = d THEN d ELSE Mixed
             /\ g.total_length = IF p.more THEN f.total_length ELSE at + Len(p.data)
             /\ \A k \in 1 .. MAX_DATA :
                   g.data[k] = IF k \in (at + 1) .. (at + Len(p.data))
                                 THEN p.data[k - at] ELSE f.data[k]
<1> DEFINE g == Stored(f, p)
           at == p.offset * FRAG_UNIT
           n == Len(p.data)
           copy == [k \in 1 .. MAX_DATA |->
                       IF k \in (at + 1) .. (at + n) THEN p.data[k - at] ELSE f.data[k]]
           t == IF p.more THEN f.total_length ELSE at + n
           o == IF f.of = d THEN d ELSE Mixed
<1>1. /\ at \in Nat /\ n \in Nat
      /\ \A k \in (at + 1) .. (at + n) : p.data[k - at] \in Bytes
  BY PieceParts
<1>2. /\ f.data \in [1 .. MAX_DATA -> Bytes] /\ f.total_length \in Nat /\ f.id \in Nat
      /\ f.fragments \in SUBSET (0 .. (MAX_FRAGMENTS - 1)) /\ f.of \in Nat
  BY DEF Reassembly
<1>3. g = [f EXCEPT !.data = copy, !.total_length = t, !.of = o]
  <2>1. Of(p) = d
    BY DEF Piece
  <2>2. o = IF f.of = Of(p) THEN f.of ELSE Mixed
    BY <2>1
  <2> QED
    BY <2>2 DEF Stored, Reassembly
<1>4. /\ copy \in [1 .. MAX_DATA -> Bytes]
      /\ \A k \in 1 .. MAX_DATA :
            copy[k] = IF k \in (at + 1) .. (at + n) THEN p.data[k - at] ELSE f.data[k]
  <2> HIDE DEF at, n
  <2> QED
    BY <1>1, <1>2
<1>5. t \in Nat /\ o \in Nat
  <2> HIDE DEF at, n
  <2> QED
    BY <1>1, <1>2 DEF Mixed
<1> HIDE DEF copy, t, o, g
<1>6. /\ g \in Reassembly /\ g.fragments = f.fragments
      /\ g.data = copy /\ g.total_length = t /\ g.of = o
  BY <1>2, <1>3, <1>4, <1>5 DEF Reassembly
<1>7. \A k \in 1 .. MAX_DATA :
          g.data[k] = IF k \in (at + 1) .. (at + n) THEN p.data[k - at] ELSE f.data[k]
  BY <1>4, <1>6
<1> QED
  BY <1>6, <1>7 DEF g, t, o

\* A buffer with its piece stored and marked in its own table.
MarkedAs(g, p) == [g EXCEPT !.fragments = @ \cup {p.offset}, !.of = @]

\* The mark changes nothing else.
LEMMA MarkedIsBuffer ==
  ASSUME NEW g \in Reassembly, NEW p, p.offset \in 0 .. (MAX_FRAGMENTS - 1)
  PROVE  MarkedAs(g, p) \in Reassembly /\ MarkedAs(g, p).of = g.of
BY DEF MarkedAs, Reassembly

\* Every byte that a piece stores is the packet's.
LEMMA StoredIsPartial ==
  ASSUME NEW d \in Nat \ {0}, NEW r \in Sendings, NEW p, Piece(p, d, r),
         NEW f, Partial(f, d, r), p.offset \in 0 .. (MAX_FRAGMENTS - 1)
  PROVE  Partial(MarkedAs(Stored(f, p), p), d, r)
<1> DEFINE h == Stored(f, p)
           g == MarkedAs(h, p)
           l == Left(r)
           at == p.offset * FRAG_UNIT
           n == Len(p.data)
<1>1. /\ l \in 1 .. MAX_DATA /\ MAX_DATA \in Nat /\ l \in Nat
      /\ FRAG_UNIT \in Nat \ {0} /\ IP_HEADER \in Nat /\ Units(r) \in Nat \ {0}
      /\ MAX_FRAGMENTS \in Nat \ {0, 1}
  BY SendingParts, FragAssumption
<1>2. /\ f \in Reassembly /\ f.of = d /\ l > Units(r) * FRAG_UNIT
      /\ f.total_length \in {0, l}
      /\ f.total_length # 0 =>
            l <= (MAX_FRAGMENTS - 1) * FRAG_UNIT + Units(r) * FRAG_UNIT
      /\ \A u \in f.fragments :
          /\ \E i \in Nat : u = i * Units(r)
          /\ \A k \in 1 .. l :
                u * FRAG_UNIT < k /\ k <= u * FRAG_UNIT + FRAG_UNIT
                    => f.data[k] = <<d, IP_HEADER + k>>
  BY DEF Partial
<1>3. /\ p.offset \in Nat /\ at \in Nat /\ (\E i \in Nat : p.offset = i * Units(r))
      /\ n \in Nat /\ at + n <= l
      /\ \A k \in (at + 1) .. (at + n) : p.data[k - at] = <<d, IP_HEADER + k>>
  BY PieceParts
<1>4. /\ n <= Units(r) * FRAG_UNIT
      /\ p.more => n >= FRAG_UNIT
      /\ ~p.more => at + n = l
  BY DEF Piece
<1>5. /\ h \in Reassembly /\ h.fragments = f.fragments /\ h.of = d
      /\ h.total_length = IF p.more THEN f.total_length ELSE at + n
      /\ \A k \in 1 .. MAX_DATA :
            h.data[k] = IF k \in (at + 1) .. (at + n)
                          THEN p.data[k - at] ELSE f.data[k]
  BY <1>2, StoredParts
<1> HIDE DEF h
<1>6. /\ g \in Reassembly /\ g.data = h.data /\ g.total_length = h.total_length
      /\ g.fragments = f.fragments \cup {p.offset} /\ g.of = d
  BY <1>5 DEF Reassembly, MarkedAs
<1> HIDE DEF g, at, n, l
<1>7. g.total_length \in {0, l}
  BY <1>2, <1>4, <1>5, <1>6
<1>8. ASSUME g.total_length # 0
      PROVE  l <= (MAX_FRAGMENTS - 1) * FRAG_UNIT + Units(r) * FRAG_UNIT
  <2>1. CASE p.more
    BY <1>2, <1>5, <1>6, <1>8, <2>1
  <2>2. CASE ~p.more
    <3>1. PICK m \in Nat : m = MAX_FRAGMENTS - 1
      BY <1>1
    <3>2. p.offset <= m
      BY <1>1, <3>1
    <3>3. p.offset * FRAG_UNIT <= m * FRAG_UNIT /\ m * FRAG_UNIT \in Nat
      <4>1. m * FRAG_UNIT \in Nat
        BY <1>1, Products
      <4>2. CASE p.offset = m
        BY <1>1, <4>1, <4>2
      <4>3. CASE p.offset # m
        <5>1. p.offset < m
          BY <1>3, <3>1, <3>2, <4>3
        <5>2. p.offset * FRAG_UNIT + FRAG_UNIT <= m * FRAG_UNIT
          BY <1>1, <1>3, <3>1, <5>1, Products
        <5>3. p.offset * FRAG_UNIT \in Nat
          BY <1>1, <1>3, Products
        <5> QED
          BY <1>1, <4>1, <5>2, <5>3
      <4> QED
        BY <4>1, <4>2, <4>3
    <3>4. l = at + n /\ at <= m * FRAG_UNIT
      BY <1>4, <2>2, <3>3 DEF at
    <3>5. Units(r) * FRAG_UNIT \in Nat
      BY <1>1, Products
    <3>6. l <= m * FRAG_UNIT + Units(r) * FRAG_UNIT
      BY <1>3, <1>4, <3>3, <3>4, <3>5
    <3> QED
      BY <3>1, <3>6
  <2> QED
    BY <2>1, <2>2
<1>9. ASSUME NEW u \in g.fragments
      PROVE  /\ \E i \in Nat : u = i * Units(r)
             /\ \A k \in 1 .. l :
                   u * FRAG_UNIT < k /\ k <= u * FRAG_UNIT + FRAG_UNIT
                       => g.data[k] = <<d, IP_HEADER + k>>
  <2>1. \E i \in Nat : u = i * Units(r)
    BY <1>2, <1>3, <1>6
  <2>2. ASSUME NEW k \in 1 .. l, u * FRAG_UNIT < k, k <= u * FRAG_UNIT + FRAG_UNIT
        PROVE  g.data[k] = <<d, IP_HEADER + k>>
    <3>0. k \in 1 .. MAX_DATA
      BY <1>1
    <3>1. CASE k \in (at + 1) .. (at + n)
      BY <1>3, <1>5, <1>6, <3>0, <3>1
    <3>2. CASE k \notin (at + 1) .. (at + n)
      <4>1. g.data[k] = f.data[k]
        BY <1>5, <1>6, <3>0, <3>2
      <4>2. CASE u \in f.fragments
        BY <1>2, <2>2, <4>1, <4>2
      <4>3. CASE u = p.offset
        <5>1. at < k /\ k <= at + FRAG_UNIT
          BY <2>2, <4>3 DEF at
        <5>2. k <= at + n
          BY <1>1, <1>3, <1>4, <5>1
        <5> QED
          BY <1>1, <1>3, <3>2, <5>1, <5>2
      <4> QED
        BY <1>6, <4>2, <4>3
    <3> QED
      BY <3>1, <3>2
  <2> QED
    BY <2>1, <2>2
<1>10. Partial(g, d, r)
  BY <1>2, <1>6, <1>7, <1>8, <1>9 DEF Partial, l
<1> QED
  BY <1>10 DEF g, h

\* A mark falls into the table of its own buffer exactly when the table has the
\* unit.
LEMMA OwnMark ==
  ASSUME NEW b \in 1 .. MAX_FRAGMENTS, NEW u \in Nat
  PROVE  /\ u < MAX_FRAGMENTS => /\ InTable(MarkAt(b, u))
                                 /\ MarkAt(b, u).buffer = b /\ MarkAt(b, u).unit = u
         /\ InTable(MarkAt(b, u)) /\ MarkAt(b, u).buffer = b
               => u < MAX_FRAGMENTS /\ MarkAt(b, u).unit = u
         /\ MarkAt(b, u).buffer \in Nat
<1>1. /\ TABLE_AT \in Nat /\ BUFFER_SIZE \in Nat \ {0} /\ MAX_FRAGMENTS \in Nat \ {0, 1}
      /\ TABLE_AT + MAX_FRAGMENTS <= BUFFER_SIZE
  BY FragAssumption
<1> DEFINE a == TABLE_AT + u
           q == a \div BUFFER_SIZE
           m == a % BUFFER_SIZE
<1>2. MarkAt(b, u).buffer = b + q /\ MarkAt(b, u).unit = m - TABLE_AT
  BY DEF MarkAt
<1>3. a \in Nat
  BY <1>1
<1> HIDE DEF a
<1>4. /\ q \in Nat /\ m \in 0 .. (BUFFER_SIZE - 1)
      /\ q = 0 => m = a /\ a < BUFFER_SIZE
      /\ a < BUFFER_SIZE => q = 0 /\ m = a
  BY <1>1, <1>3
<1> HIDE DEF q, m
<1>5. ASSUME u < MAX_FRAGMENTS
      PROVE  InTable(MarkAt(b, u)) /\ MarkAt(b, u).buffer = b /\ MarkAt(b, u).unit = u
  <2>1. a < BUFFER_SIZE
    BY <1>1, <1>5 DEF a
  <2>2. b + q = b /\ m - TABLE_AT = u
    BY <1>1, <1>4, <2>1 DEF a
  <2>3. u \in 0 .. (MAX_FRAGMENTS - 1)
    BY <1>1, <1>5
  <2> QED
    BY <1>2, <2>2, <2>3 DEF InTable
<1>6. ASSUME InTable(MarkAt(b, u)), MarkAt(b, u).buffer = b
      PROVE  u < MAX_FRAGMENTS /\ MarkAt(b, u).unit = u
  <2>1. q = 0
    BY <1>2, <1>4, <1>6
  <2>2. m - TABLE_AT = u
    BY <1>1, <1>4, <2>1 DEF a
  <2>3. u \in 0 .. (MAX_FRAGMENTS - 1)
    BY <1>2, <1>6, <2>2 DEF InTable
  <2> QED
    BY <1>1, <1>2, <2>2, <2>3
<1>7. MarkAt(b, u).buffer \in Nat
  BY <1>2, <1>4
<1> QED
  BY <1>5, <1>6, <1>7

\* A mark leaves a buffer as it is, mixes it up, or is one in its own table.
IsMarked(bufs, b, p, c) ==
    LET g == Marked(bufs, b, p.offset)[c]
    IN  \/ c # b /\ g = bufs[c]
        \/ g \in Reassembly /\ g.of = Mixed
        \/ /\ c = b /\ p.offset \in 0 .. (MAX_FRAGMENTS - 1)
           /\ g = MarkedAs(bufs[b], p)

\* Marked does that to every buffer.
LEMMA MarkedParts ==
  ASSUME NEW bufs, DOMAIN bufs = 1 .. MAX_FRAGMENTS,
         NEW b \in 1 .. MAX_FRAGMENTS, bufs[b] \in Reassembly, NEW p, p.offset \in Nat,
         NEW c \in 1 .. MAX_FRAGMENTS, bufs[c] = NoBuffer \/ bufs[c] \in Reassembly
  PROVE  IsMarked(bufs, b, p, c)
<1> SUFFICES LET g == Marked(bufs, b, p.offset)[c]
             IN  \/ c # b /\ g = bufs[c]
                 \/ g \in Reassembly /\ g.of = Mixed
                 \/ /\ c = b /\ p.offset \in 0 .. (MAX_FRAGMENTS - 1)
                    /\ g = MarkedAs(bufs[b], p)
  BY DEF IsMarked
<1> DEFINE u == p.offset
           at == MarkAt(b, u)
           g == Marked(bufs, b, u)[c]
           added == IF InTable(at) /\ c = at.buffer
                      THEN bufs[c].fragments \cup {at.unit} ELSE bufs[c].fragments
           of == IF InTable(at) /\ at.buffer = b THEN bufs[c].of ELSE Mixed
<1>1. g = IF bufs[c] = NoBuffer \/ (c # b /\ c # at.buffer) THEN bufs[c]
          ELSE [bufs[c] EXCEPT !.fragments = added, !.of = of]
  BY DEF Marked
<1>2. bufs[b] # NoBuffer
  BY IsBuffer
<1>3. CASE bufs[c] = NoBuffer \/ (c # b /\ c # at.buffer)
  BY <1>1, <1>2, <1>3
<1>4. CASE ~(bufs[c] = NoBuffer \/ (c # b /\ c # at.buffer))
  <2>1. bufs[c] \in Reassembly /\ g = [bufs[c] EXCEPT !.fragments = added, !.of = of]
    BY <1>1, <1>4
  <2>2. added \in SUBSET (0 .. (MAX_FRAGMENTS - 1))
    BY <2>1 DEF Reassembly, InTable
  <2>3. CASE InTable(at) /\ at.buffer = b
    <3>1. c = b /\ u \in 0 .. (MAX_FRAGMENTS - 1) /\ at.unit = u
      <4>1. u < MAX_FRAGMENTS /\ at.unit = u
        BY <2>3, OwnMark
      <4>2. MAX_FRAGMENTS \in Nat
        BY FragAssumption
      <4> QED
        BY <1>4, <2>3, <4>1, <4>2
    <3>2. added = bufs[b].fragments \cup {u} /\ of = bufs[b].of
      BY <2>3, <3>1
    <3>3. g = MarkedAs(bufs[b], p)
      BY <2>1, <3>1, <3>2 DEF MarkedAs
    <3> QED
      BY <3>1, <3>3
  <2>4. CASE ~(InTable(at) /\ at.buffer = b)
    <3>1. of = Mixed /\ Mixed \in Nat
      BY <2>4 DEF Mixed
    <3> HIDE DEF added, of
    <3>2. g \in Reassembly /\ g.of = Mixed
      BY <2>1, <2>2, <3>1 DEF Reassembly
    <3> QED
      BY <3>2
  <2> QED
    BY <2>3, <2>4
<1> QED
  BY <1>3, <1>4

\* A byte of a packet of length l is in one of its units.
LEMMA UnitOf ==
  ASSUME NEW l \in Nat \ {0}, NEW n \in Nat \ {0}, NEW k \in 1 .. l
  PROVE  \E u \in 0 .. ((l + n - 1) \div n - 1) : u * n < k /\ k <= u * n + n
<1> DEFINE u == (k - 1) \div n
           c == (l + n - 1) \div n
<1>1. k - 1 \in Nat /\ l + n - 1 \in Nat
  OBVIOUS
<1>2. u \in Nat /\ u * n <= k - 1 /\ k - 1 < u * n + n
  BY <1>1, Quotients
<1>3. c \in Nat /\ l + n - 1 < c * n + n
  BY <1>1, Quotients
<1> HIDE DEF u, c
<1>4. u * n \in Nat /\ c * n \in Nat
  BY <1>2, <1>3, Products
<1>5. u < c
  <2>1. CASE u = c
    BY <1>2, <1>3, <1>4, <2>1
  <2>2. CASE c < u
    <3>1. c * n + n <= u * n
      BY <1>2, <1>3, <2>2, Products
    <3> QED
      BY <1>2, <1>3, <1>4, <3>1
  <2> QED
    BY <1>2, <1>3, <2>1, <2>2
<1>6. u \in 0 .. (c - 1) /\ u * n < k /\ k <= u * n + n
  BY <1>2, <1>3, <1>4, <1>5
<1> QED
  BY <1>6 DEF c

\* A buffer that is complete holds its packet, and one unit to a fragment.
LEMMA CompleteIsWhole ==
  ASSUME NEW d \in Nat \ {0}, NEW r \in Sendings, NEW bufs,
         NEW b \in 1 .. MAX_FRAGMENTS, Partial(bufs[b], d, r),
         NEW outside \in BOOLEAN, Complete(bufs, b, outside)
  PROVE  /\ SubSeq(bufs[b].data, 1, bufs[b].total_length) = Payload(d, r.length)
         /\ MaxFragment(r.mtu) = FRAG_UNIT
<1> DEFINE f == bufs[b]
           l == Left(r)
           c == (l + FRAG_UNIT - 1) \div FRAG_UNIT
<1>1. /\ l \in 1 .. MAX_DATA /\ MAX_DATA \in Nat /\ l \in Nat \ {0}
      /\ FRAG_UNIT \in Nat \ {0} /\ IP_HEADER \in Nat /\ Units(r) \in Nat \ {0}
      /\ MaxFragment(r.mtu) = Units(r) * FRAG_UNIT
      /\ MAX_FRAGMENTS \in Nat \ {0, 1}
  BY SendingParts, FragAssumption
<1>2. /\ f \in Reassembly /\ l > Units(r) * FRAG_UNIT
      /\ f.total_length \in {0, l}
      /\ f.total_length # 0 =>
            l <= (MAX_FRAGMENTS - 1) * FRAG_UNIT + Units(r) * FRAG_UNIT
      /\ \A u \in f.fragments :
          /\ \E i \in Nat : u = i * Units(r)
          /\ \A k \in 1 .. l :
                u * FRAG_UNIT < k /\ k <= u * FRAG_UNIT + FRAG_UNIT
                    => f.data[k] = <<d, IP_HEADER + k>>
  BY DEF Partial
<1>3. f.total_length = l /\ f # NoBuffer
  BY <1>2, IsBuffer DEF Complete
<1>4. ASSUME NEW u \in 0 .. (c - 1), u < MAX_FRAGMENTS PROVE u \in f.fragments
  <2>1. u \in Nat /\ u \in 0 .. ((f.total_length + FRAG_UNIT - 1) \div FRAG_UNIT - 1)
    BY <1>3
  <2>2. InTable(MarkAt(b, u)) /\ MarkAt(b, u).buffer = b /\ MarkAt(b, u).unit = u
    BY <1>4, <2>1, OwnMark
  <2> QED
    BY <1>3, <2>1, <2>2 DEF Complete
<1> HIDE DEF l, f
<1>5. ASSUME NEW k \in 1 .. l
      PROVE  \E u \in 0 .. (c - 1) : u * FRAG_UNIT < k /\ k <= u * FRAG_UNIT + FRAG_UNIT
  BY <1>1, UnitOf
<1>n. c \in Nat
  <2>1. l + FRAG_UNIT - 1 \in Nat
    BY <1>1
  <2> QED
    BY <1>1, <2>1, Quotients
<1> HIDE DEF c
<1>8. Units(r) = 1
  <2>1. Units(r) * FRAG_UNIT >= FRAG_UNIT
    <3>1. 0 * FRAG_UNIT + FRAG_UNIT <= Units(r) * FRAG_UNIT
      BY <1>1, Products
    <3>2. 0 * FRAG_UNIT + FRAG_UNIT = FRAG_UNIT
      BY <1>1
    <3> QED
      BY <3>1, <3>2
  <2>2. FRAG_UNIT + 1 \in 1 .. l
    <3>1. Units(r) * FRAG_UNIT \in Nat
      BY <1>1, Products
    <3> QED
      BY <1>1, <1>2, <2>1, <3>1
  <2>3. PICK u \in 0 .. (c - 1) : u * FRAG_UNIT < FRAG_UNIT + 1
                                 /\ FRAG_UNIT + 1 <= u * FRAG_UNIT + FRAG_UNIT
    BY <1>5, <2>2
  <2>4. u # 0
    <3>1. 0 * FRAG_UNIT + FRAG_UNIT = FRAG_UNIT
      BY <1>1
    <3> QED
      BY <1>1, <2>3, <3>1
  <2>5. 1 \in 0 .. (c - 1) /\ 1 < MAX_FRAGMENTS
    BY <1>1, <1>n, <2>3, <2>4
  <2>6. PICK i \in Nat : 1 = i * Units(r)
    BY <1>2, <1>4, <2>5
  <2> QED
    BY <1>1, <2>6, Products
<1>9. MaxFragment(r.mtu) = FRAG_UNIT
  BY <1>1, <1>8
<1>10. l <= MAX_FRAGMENTS * FRAG_UNIT
  <2>1. PICK m \in Nat : m = MAX_FRAGMENTS - 1 /\ MAX_FRAGMENTS = m + 1
    BY <1>1
  <2>2. l <= m * FRAG_UNIT + FRAG_UNIT
    <3>1. Units(r) * FRAG_UNIT = FRAG_UNIT
      BY <1>1, <1>8
    <3> QED
      BY <1>1, <1>2, <1>3, <2>1, <3>1
  <2>3. (m + 1) * FRAG_UNIT = m * FRAG_UNIT + FRAG_UNIT
    BY <1>1, Products
  <2> QED
    BY <2>1, <2>2, <2>3
<1>6. ASSUME NEW k \in 1 .. l PROVE f.data[k] = <<d, IP_HEADER + k>>
  <2>1. PICK u \in 0 .. (c - 1) : u * FRAG_UNIT < k /\ k <= u * FRAG_UNIT + FRAG_UNIT
    BY <1>5
  <2>2. u < MAX_FRAGMENTS
    <3>1. u * FRAG_UNIT < MAX_FRAGMENTS * FRAG_UNIT
      <4>1. u * FRAG_UNIT \in Nat /\ MAX_FRAGMENTS * FRAG_UNIT \in Nat
        BY <1>1, <1>n, <2>1, Products
      <4> QED
        BY <1>1, <1>10, <2>1, <4>1
    <3>2. u # MAX_FRAGMENTS
      <4>1. MAX_FRAGMENTS * FRAG_UNIT \in Nat
        BY <1>1, Products
      <4>2. ~(MAX_FRAGMENTS * FRAG_UNIT < MAX_FRAGMENTS * FRAG_UNIT)
        BY <4>1
      <4> QED
        BY <3>1, <4>2
    <3>3. CASE u > MAX_FRAGMENTS
      <4>1. MAX_FRAGMENTS * FRAG_UNIT + FRAG_UNIT <= u * FRAG_UNIT
        BY <1>1, <1>n, <3>3, Products
      <4>2. MAX_FRAGMENTS * FRAG_UNIT \in Nat /\ u * FRAG_UNIT \in Nat
        BY <1>1, <1>n, <2>1, Products
      <4> QED
        BY <1>1, <3>1, <4>1, <4>2
    <3> QED
      BY <1>1, <1>n, <2>1, <3>2, <3>3
  <2>3. u \in f.fragments
    BY <1>4, <2>1, <2>2
  <2> QED
    BY <1>2, <2>1, <2>3
<1>7. SubSeq(f.data, 1, f.total_length) = Payload(d, r.length)
  <2>1. /\ Payload(d, r.length) \in Seq(Bytes) /\ Len(Payload(d, r.length)) = l
        /\ \A k \in 1 .. l : Payload(d, r.length)[k] = <<d, IP_HEADER + k>>
    BY PayloadIs DEF l
  <2>2. \A k \in 1 .. l : <<d, IP_HEADER + k>> \in Bytes
    BY <1>1 DEF Bytes
  <2>3. \A k \in 1 .. l : f.data[k] \in Bytes
    BY <1>6, <2>2
  <2>4. /\ SubSeq(f.data, 1, l) \in Seq(Bytes)
        /\ Len(SubSeq(f.data, 1, l)) = IF 1 <= l THEN l - 1 + 1 ELSE 0
        /\ \A k \in 1 .. (l - 1 + 1) : SubSeq(f.data, 1, l)[k] = f.data[1 + k - 1]
    BY <1>1, <2>3, SubSeqProperties
  <2>5. Len(SubSeq(f.data, 1, l)) = l
    BY <1>1, <2>4
  <2>6. ASSUME NEW k \in 1 .. l PROVE SubSeq(f.data, 1, l)[k] = Payload(d, r.length)[k]
    <3>1. k \in 1 .. (l - 1 + 1) /\ 1 + k - 1 = k
      BY <1>1
    <3> QED
      BY <1>6, <2>1, <2>4, <3>1
  <2>7. SubSeq(f.data, 1, l) = Payload(d, r.length)
    BY <2>1, <2>4, <2>5, <2>6, SeqEqual
  <2> QED
    BY <1>3, <2>7
<1> QED
  BY <1>7, <1>9 DEF f

\* What the invariant says of a packet that was sent.
LEMMA SentFacts ==
  ASSUME FragInv
  PROVE  /\ Len(ip_sent) \in Nat /\ DOMAIN ip_sent = 1 .. Len(ip_sent)
         /\ \A d \in 1 .. Len(ip_sent) : ip_sent[d] \in Sendings /\ d \in Nat \ {0}
  BY LenProperties, ElementOfSeq DEF FragInv

\* What holds of a buffer holds when more packets are sent.
LEMMA HoldingStays ==
  ASSUME FragInv, NEW f, Holding(f), Len(ip_sent)' = Len(ip_sent) + 1,
         \A d \in 1 .. Len(ip_sent) : ip_sent'[d] = ip_sent[d]
  PROVE  Holding(f)'
<1>1. Len(ip_sent) \in Nat
  BY SentFacts
<1>2. ASSUME f.of # Mixed
      PROVE  f.of \in 1 .. Len(ip_sent)' /\ Partial(f, f.of, ip_sent'[f.of])
  BY <1>1, <1>2 DEF Holding
<1> QED
  BY <1>2 DEF Holding

\* The packets sent stay what they are.
LEMMA AfterSend ==
  ASSUME NEW n \in Lengths, NEW mtu \in Mtus, NEW id \in 0 .. (IP_IDS - 1), FragInv,
         ipv4_send_packet(n, mtu, id)
  PROVE  FragInv'
<1> DEFINE N == Len(ip_sent)
           r == [length |-> n, mtu |-> mtu]
<1>1. N \in Nat /\ DOMAIN ip_sent = 1 .. N /\ ip_sent \in Seq(Sendings) /\ id \in Nat
  BY SentFacts DEF FragInv
<1>2. r \in Sendings /\ r.length = n /\ r.mtu = mtu
  BY DEF Sendings
<1>3. ip_sent' = Append(ip_sent, r) /\ buffers' = buffers /\ reassembled' = reassembled
  BY DEF ipv4_send_packet
<1> HIDE DEF r
<1>4. /\ ip_sent' \in Seq(Sendings) /\ Len(ip_sent') = N + 1
      /\ \A d \in 1 .. N : ip_sent'[d] = ip_sent[d]
      /\ ip_sent'[N + 1] = r /\ DOMAIN ip_sent' = 1 .. (N + 1)
  <2>1. /\ ip_sent' \in Seq(Sendings) /\ Len(ip_sent') = N + 1
        /\ \A d \in 1 .. N : ip_sent'[d] = ip_sent[d]
        /\ ip_sent'[N + 1] = r
    BY <1>1, <1>2, <1>3, AppendProperties
  <2> QED
    BY <2>1, LenProperties
<1>5. N + 1 \in Nat \ {0} /\ N + 1 \in 1 .. (N + 1)
  BY <1>1
<1>6. \A d \in 1 .. N : d \in 1 .. (N + 1)
  BY <1>1
<1>7. WireOK'
  <2> SUFFICES ASSUME NEW p \in wire', IsFragment(p)
               PROVE  \E d \in 1 .. (N + 1) : Piece(p, d, ip_sent'[d])
    BY <1>4 DEF WireOK
  <2>1. CASE p \in wire
    <3>1. PICK d \in 1 .. N : Piece(p, d, ip_sent[d])
      BY <2>1 DEF FragInv, WireOK
    <3> QED
      BY <1>4, <1>6, <3>1
  <2>2. CASE p \notin wire
    <3>1. \/ p = [id |-> id, offset |-> 0, more |-> FALSE,
                  data |-> Payload(N + 1, n)]
          \/ p \in FragmentsOf(id, Payload(N + 1, n), mtu)
      BY <2>2 DEF ipv4_send_packet
    <3>2. p # [id |-> id, offset |-> 0, more |-> FALSE,
               data |-> Payload(N + 1, n)]
      BY DEF IsFragment
    <3>3. p \in FragmentsOf(id, Payload(N + 1, r.length), r.mtu)
      BY <1>2, <3>1, <3>2
    <3>4. Piece(p, N + 1, r)
      BY <1>1, <1>2, <1>5, <3>3, FragmentIsPiece
    <3> QED
      BY <1>4, <1>5, <3>4
  <2> QED
    BY <2>1, <2>2
<1>8. BuffersOK'
  <2>1. ASSUME NEW b \in 1 .. MAX_FRAGMENTS
        PROVE  buffers[b] = NoBuffer \/ Holding(buffers[b])'
    <3>1. buffers[b] = NoBuffer \/ Holding(buffers[b])
      BY DEF FragInv, BuffersOK
    <3>2. ASSUME NEW f, Holding(f) PROVE Holding(f)'
      BY <1>4, <3>2, HoldingStays
    <3> QED
      BY <1>3, <3>1, <3>2 DEF Holding
  <2> QED
    BY <1>3, <2>1 DEF FragInv, BuffersOK, Holding
<1>9. ReassembledWhole'
  <2> SUFFICES ASSUME NEW q \in reassembled
               PROVE  /\ q.of \in DOMAIN ip_sent'
                      /\ q.data = Payload(q.of, ip_sent'[q.of].length)
                      /\ MaxFragment(ip_sent'[q.of].mtu) = FRAG_UNIT
    BY <1>3 DEF ReassembledWhole
  <2>1. /\ q.of \in 1 .. N
        /\ q.data = Payload(q.of, ip_sent[q.of].length)
        /\ MaxFragment(ip_sent[q.of].mtu) = FRAG_UNIT
    BY <1>1 DEF FragInv, ReassembledWhole
  <2> QED
    BY <1>4, <1>6, <2>1
<1> QED
  BY <1>4, <1>7, <1>8, <1>9 DEF FragInv

\* A piece finds a buffer that is mixed up, holds a packet, or is new.
LEMMA FindsABuffer ==
  ASSUME FragInv, NEW p, NEW d \in 1 .. Len(ip_sent), Piece(p, d, ip_sent[d]),
         NEW b \in 1 .. MAX_FRAGMENTS
  PROVE  /\ Buffer(b, p) \in Reassembly
         /\ Buffer(b, p).of = d => Partial(Buffer(b, p), d, ip_sent[d])
<1>1. ip_sent[d] \in Sendings /\ d \in Nat \ {0}
  BY SentFacts
<1>2. CASE buffers[b] = NoBuffer
  <2>1. Buffer(b, p) = [id |-> p.id, data |-> [k \in 1 .. MAX_DATA |-> Garbage],
                        total_length |-> 0, fragments |-> {}, of |-> Of(p)]
    BY <1>2 DEF Buffer
  <2>2. Partial(Buffer(b, p), d, ip_sent[d])
    BY <1>1, <2>1, NewBufferIsPartial
  <2> QED
    BY <2>2 DEF Partial
<1>3. CASE buffers[b] # NoBuffer
  <2>1. Buffer(b, p) = buffers[b] /\ Holding(buffers[b])
    BY <1>3 DEF Buffer, FragInv, BuffersOK
  <2> QED
    BY <1>1, <2>1 DEF Holding, Mixed
<1> QED
  BY <1>2, <1>3

\* ipv4_reassemble_packet: a fragment is stored, completes a packet, or is dropped.
LEMMA AfterFragment ==
  ASSUME NEW p \in wire, NEW alloc \in BOOLEAN, NEW outside \in BOOLEAN, FragInv,
         ipv4_reassemble_packet(p, alloc, outside)
  PROVE  FragInv'
<1>0. UNCHANGED <<ip_sent, wire>> /\ IsFragment(p)
  BY DEF ipv4_reassemble_packet
<1>1. PICK d \in 1 .. Len(ip_sent) : Piece(p, d, ip_sent[d])
  BY <1>0 DEF FragInv, WireOK
<1>2. /\ ip_sent[d] \in Sendings /\ d \in Nat \ {0} /\ DOMAIN ip_sent = 1 .. Len(ip_sent)
      /\ DOMAIN buffers = 1 .. MAX_FRAGMENTS /\ p.offset \in Nat
      /\ \A e \in 1 .. Len(ip_sent) : ip_sent[e] \in Sendings /\ e \in Nat \ {0}
  BY <1>1, SentFacts, PieceParts DEF FragInv, BuffersOK
<1>3. PICK b \in 1 .. MAX_FRAGMENTS :
        LET bufs == Marked([buffers EXCEPT ![b] = Stored(Buffer(b, p), p)], b, p.offset)
        IN  IF Complete(bufs, b, outside) /\ alloc
              THEN /\ buffers' = [bufs EXCEPT ![b] = NoBuffer]
                   /\ reassembled' = reassembled \cup Returned(bufs[b])
              ELSE buffers' = bufs /\ UNCHANGED reassembled
  BY <1>2 DEF ipv4_reassemble_packet
<1> DEFINE f == Buffer(b, p)
           g == Stored(f, p)
           stored == [buffers EXCEPT ![b] = g]
           bufs == Marked(stored, b, p.offset)
<1>4. f \in Reassembly /\ (f.of = d => Partial(f, d, ip_sent[d]))
  BY <1>1, FindsABuffer
<1> HIDE DEF f
<1>5. g \in Reassembly /\ (f.of # d => g.of = Mixed) /\ (f.of = d => g.of = d)
  BY <1>1, <1>2, <1>4, StoredParts
<1>6. /\ DOMAIN stored = 1 .. MAX_FRAGMENTS /\ stored[b] = g
      /\ \A c \in 1 .. MAX_FRAGMENTS : c # b => stored[c] = buffers[c]
  BY <1>2
<1>7. \A c \in 1 .. MAX_FRAGMENTS : buffers[c] = NoBuffer \/ Holding(buffers[c])
  BY DEF FragInv, BuffersOK
<1>8. \A c \in 1 .. MAX_FRAGMENTS : stored[c] = NoBuffer \/ stored[c] \in Reassembly
  BY <1>5, <1>6, <1>7 DEF Holding
<1> HIDE DEF g, stored
<1>9. DOMAIN bufs = 1 .. MAX_FRAGMENTS
  BY <1>6 DEF Marked
<1>10. ASSUME NEW c \in 1 .. MAX_FRAGMENTS
       PROVE  Holding(bufs[c]) \/ (c # b /\ bufs[c] = NoBuffer)
  <2>a. stored[b] \in Reassembly /\ (stored[c] = NoBuffer \/ stored[c] \in Reassembly)
    BY <1>5, <1>6, <1>8
  <2>b. DOMAIN stored = 1 .. MAX_FRAGMENTS /\ p.offset \in Nat
    BY <1>2, <1>6
  <2>1. \/ c # b /\ bufs[c] = stored[c]
        \/ bufs[c] \in Reassembly /\ bufs[c].of = Mixed
        \/ /\ c = b /\ p.offset \in 0 .. (MAX_FRAGMENTS - 1)
           /\ bufs[c] = MarkedAs(stored[b], p)
    <3>1. IsMarked(stored, b, p, c)
      BY <2>a, <2>b, MarkedParts
    <3> QED
      BY <3>1 DEF IsMarked
  <2>2. CASE c # b /\ bufs[c] = stored[c]
    BY <1>6, <1>7, <2>2
  <2>3. CASE bufs[c] \in Reassembly /\ bufs[c].of = Mixed
    BY <2>3 DEF Holding
  <2>4. CASE /\ c = b /\ p.offset \in 0 .. (MAX_FRAGMENTS - 1)
             /\ bufs[c] = MarkedAs(stored[b], p)
    <3>1. bufs[c] = MarkedAs(g, p)
      BY <1>6, <2>4
    <3>2. CASE f.of = d
      <4>1. Partial(bufs[c], d, ip_sent[d])
        BY <1>1, <1>2, <1>4, <2>4, <3>1, <3>2, StoredIsPartial DEF g
      <4> QED
        BY <4>1 DEF Holding, Partial
    <3>3. CASE f.of # d
      <4>1. bufs[c] \in Reassembly /\ bufs[c].of = Mixed
        BY <1>5, <2>4, <3>1, <3>3, MarkedIsBuffer
      <4> QED
        BY <4>1 DEF Holding
    <3> QED
      BY <3>2, <3>3
  <2> QED
    BY <2>1, <2>2, <2>3, <2>4
<1>11. /\ DOMAIN buffers' = 1 .. MAX_FRAGMENTS
       /\ \A c \in 1 .. MAX_FRAGMENTS : buffers'[c] \in {bufs[c], NoBuffer}
  BY <1>3, <1>9 DEF f, g, stored
<1>12. /\ reassembled' # reassembled =>
             Complete(bufs, b, outside) /\ reassembled' = reassembled \cup Returned(bufs[b])
  BY <1>3 DEF f, g, stored
<1> HIDE DEF bufs
<1>13. BuffersOK'
  <2>1. ASSUME NEW c \in 1 .. MAX_FRAGMENTS
        PROVE  buffers'[c] = NoBuffer \/ Holding(buffers[c])'
    BY <1>0, <1>10, <1>11 DEF Holding
  <2> QED
    BY <1>11, <2>1 DEF BuffersOK
<1>14. ReassembledWhole'
  <2> SUFFICES ASSUME NEW q \in reassembled'
               PROVE  /\ q.of \in DOMAIN ip_sent
                      /\ q.data = Payload(q.of, ip_sent[q.of].length)
                      /\ MaxFragment(ip_sent[q.of].mtu) = FRAG_UNIT
    BY <1>0 DEF ReassembledWhole
  <2>1. CASE q \in reassembled
    BY <2>1 DEF FragInv, ReassembledWhole
  <2>2. CASE q \notin reassembled
    <3>1. /\ Complete(bufs, b, outside) /\ bufs[b].of # Mixed /\ q.of = bufs[b].of
          /\ q.data = SubSeq(bufs[b].data, 1, bufs[b].total_length)
      BY <1>12, <2>2 DEF Returned
    <3>2. Holding(bufs[b])
      BY <1>10
    <3>4. q.of \in 1 .. Len(ip_sent) /\ Partial(bufs[b], q.of, ip_sent[q.of])
      BY <3>1, <3>2 DEF Holding
    <3> QED
      BY <1>2, <3>1, <3>4, CompleteIsWhole
  <2> QED
    BY <2>1, <2>2
<1>15. ip_sent' \in Seq(Sendings) /\ WireOK'
  BY <1>0 DEF FragInv, WireOK
<1> QED
  BY <1>13, <1>14, <1>15 DEF FragInv

\* At first nothing is sent and every buffer is free.
LEMMA FragStarts == FragInit => FragInv
<1> SUFFICES ASSUME FragInit PROVE FragInv
  OBVIOUS
<1>1. <<>> \in Seq(Sendings) /\ Len(<<>>) = 0
  BY EmptySeq
<1> QED
  BY <1>1 DEF FragInit, FragInv, WireOK, BuffersOK, ReassembledWhole

\* One case per action of FragNext.
LEMMA FragSteps == FragInv /\ [FragNext]_fragVars => FragInv'
<1> SUFFICES ASSUME FragInv, [FragNext]_fragVars PROVE FragInv'
  OBVIOUS
<1>1. CASE UNCHANGED fragVars
  BY <1>1 DEF fragVars, FragInv, WireOK, BuffersOK, Holding, ReassembledWhole
<1>2. ASSUME NEW n \in Lengths, NEW mtu \in Mtus, NEW id \in 0 .. (IP_IDS - 1),
             ipv4_send_packet(n, mtu, id)
      PROVE  FragInv'
  BY <1>2, AfterSend
<1>3. ASSUME NEW p \in wire, NEW alloc \in BOOLEAN, NEW outside \in BOOLEAN,
             ipv4_reassemble_packet(p, alloc, outside)
      PROVE  FragInv'
  BY <1>3, AfterFragment
<1> QED
  BY <1>1, <1>2, <1>3 DEF FragNext

\* Every marked unit of every buffer that is not mixed up holds the bytes of one
\* packet.
THEOREM BuffersHoldTheirPacket == FragSpec => []FragInv
  BY FragStarts, FragSteps, PTL DEF FragSpec

\* For every layout of the buffers, every MTU and length of packet, every use of
\* the identifications, and fragments lost, repeated and reordered in any way:
\* what ipv4_reassemble_packet returns from a buffer that no two packets shared,
\* and that no mark left or entered across the end of a table, is one packet that
\* was sent, whole and in place, and its fragments carried one unit each.
THEOREM ReassemblyIsWhole == FragSpec => []ReassembledWhole
<1>1. FragInv => ReassembledWhole
  BY DEF FragInv
<1> QED
  BY <1>1, BuffersHoldTheirPacket, PTL
=============================================================================
