----------------------------- MODULE Fragments -----------------------------
(***************************************************************************)
(* Sending, fragmentation and reassembly of net/ipv4.c, on two hosts that  *)
(* both run it, with a network between them that loses, repeats and        *)
(* reorders packets: what was sent stays in the set wire and may arrive at *)
(* any time.                                                               *)
(*                                                                         *)
(* Lengths are in bytes; byte k of packet d is the pair <<d, k>>.  The     *)
(* source and the destination are fixed, so the identification alone finds *)
(* a buffer.  Routes, checksums (right ones) and counters are left out.    *)
(*                                                                         *)
(* The table of received units in a buffer is an array of MAX_FRAGMENTS    *)
(* bytes that is indexed with the offset of a fragment, whatever it is: a  *)
(* mark behind its end falls into a buffer that follows, and into that     *)
(* buffer's table or another of its fields, or behind the last buffer.     *)
(***************************************************************************)
EXTENDS Integers, Sequences, FiniteSets

CONSTANTS
    FRAG_UNIT,       \* bytes counted by one unit of the offset field (8)
    IP_HEADER,       \* sizeof(ipv4_header_t) (20)
    MAX_FRAGMENTS,   \* reassembly buffers, and units of a table (64)
    BUFFER_SIZE,     \* size of an element of reassembly_buffers (92)
    TABLE_AT,        \* offset of the table fragments in it (24)
    MAX_DATA,        \* bytes of a buffer's memory (65536)
    IP_IDS,          \* values of the 16-bit identification (65536)
    Mtus,            \* the MTUs a route's interface may have (1500)
    Lengths,         \* the lengths of the packets handed to ipv4_send_packet
    MaxSends         \* bound: calls of ipv4_send_packet

\* A packet is longer than the header that is written over its front, and its
\* length fits the header's field of 16 bits.
ASSUME FragAssumption ==
    /\ FRAG_UNIT \in Nat \ {0} /\ IP_HEADER \in Nat /\ IP_IDS \in Nat \ {0}
    /\ MAX_FRAGMENTS \in Nat \ {0, 1} /\ TABLE_AT \in Nat /\ BUFFER_SIZE \in Nat
    /\ TABLE_AT + MAX_FRAGMENTS <= BUFFER_SIZE
    /\ MAX_DATA \in Nat /\ Lengths \subseteq Nat /\ MaxSends \in Nat
    /\ \A mtu \in Mtus : mtu \in Nat /\ mtu >= IP_HEADER + FRAG_UNIT
    /\ \A n \in Lengths : n - IP_HEADER \in 1 .. MAX_DATA

VARIABLES
    ip_sent,        \* history: length and MTU of the packets sent so far
    wire,           \* the packets and fragments on the way
    buffers,        \* reassembly_buffers; NoBuffer where data is NULL
    reassembled,    \* history: what ipv4_reassemble_packet has returned from
                    \* buffers that are not Mixed
    overrun         \* history: a mark fell outside all the tables

fragVars == <<ip_sent, wire, buffers, reassembled, overrun>>

Garbage == <<0, 0>>
NoBuffer == [id |-> -1]

\* What is left of datagram d: the header is written to the front of the
\* packet's data, over the first bytes of what was to be sent.
Payload(d, n) == [k \in 1 .. (n - IP_HEADER) |-> <<d, IP_HEADER + k>>]

FragInit ==
    /\ ip_sent = <<>>
    /\ wire = {}
    /\ buffers = [b \in 1 .. MAX_FRAGMENTS |-> NoBuffer]
    /\ reassembled = {}
    /\ overrun = FALSE

-----------------------------------------------------------------------------
(* Sending.                                                                *)

\* "Calculate fragment size (must be multiple of 8)"
MaxFragment(mtu) == ((mtu - IP_HEADER) \div FRAG_UNIT) * FRAG_UNIT

\* ipv4_fragment_packet: offset counts units, as in the header.
FragmentsOf(id, data, mtu) ==
    LET size  == MaxFragment(mtu)
        count == (Len(data) + size - 1) \div size
        last(i) == IF i = count - 1 THEN Len(data) ELSE (i + 1) * size
    IN  {[id |-> id, offset |-> (i * size) \div FRAG_UNIT,
          more |-> i < count - 1, data |-> SubSeq(data, i * size + 1, last(i))]
            : i \in 0 .. (count - 1)}

\* A packet that is too long for the interface goes out in fragments and then
\* once more as it is: a packet without an offset and without the flag.  The
\* identification is ip_id, which packets to other hosts advance as well: it
\* may be any, and one that was used before.
ipv4_send_packet(n, mtu, id) ==
    /\ Len(ip_sent) < MaxSends
    /\ LET d    == Len(ip_sent) + 1
           data == Payload(d, n)
       IN  wire' = wire \cup {[id |-> id, offset |-> 0, more |-> FALSE,
                               data |-> data]}
                        \cup (IF IP_HEADER + n > mtu
                                THEN FragmentsOf(id, data, mtu) ELSE {})
    /\ ip_sent' = Append(ip_sent, [length |-> n, mtu |-> mtu])
    /\ UNCHANGED <<buffers, reassembled, overrun>>

-----------------------------------------------------------------------------
(* Reassembly: ipv4_receive_packet hands on a packet without an offset and *)
(* without the flag, and reassembles the others.                           *)

IsFragment(p) == p.more \/ p.offset > 0

\* The buffer b is the one found, or the first that is empty.
Finds(b, p) ==
    LET held == {c \in DOMAIN buffers : buffers[c].id = p.id}
        pool == IF held # {} THEN held
                ELSE {c \in DOMAIN buffers : buffers[c] = NoBuffer}
    IN  b \in pool /\ \A c \in pool : b <= c

\* History: of is the packet whose fragments a buffer holds, and Mixed once it
\* holds another packet's too, or a mark fell into its table or out of it.
Mixed == 0
Of(p) == p.data[1][1]

\* A new buffer's memory holds what it held before.
Buffer(b, p) ==
    IF buffers[b] # NoBuffer THEN buffers[b]
    ELSE [id |-> p.id, data |-> [k \in 1 .. MAX_DATA |-> Garbage],
          total_length |-> 0, fragments |-> {}, of |-> Of(p)]

\* Copy the data, note the length at the end.
Stored(f, p) ==
    LET at == p.offset * FRAG_UNIT
    IN  [f EXCEPT !.data = [k \in 1 .. MAX_DATA |->
                               IF k \in (at + 1) .. (at + Len(p.data))
                                 THEN p.data[k - at] ELSE f.data[k]],
                  !.total_length = IF p.more THEN @ ELSE at + Len(p.data),
                  !.of = IF @ = Of(p) THEN @ ELSE Mixed]

\* The byte fragments[u] of buffer b: of which buffer, and which of its units.
MarkAt(b, u) ==
    [buffer |-> b + (TABLE_AT + u) \div BUFFER_SIZE,
     unit   |-> ((TABLE_AT + u) % BUFFER_SIZE) - TABLE_AT]

InTable(at) == at.buffer \in 1 .. MAX_FRAGMENTS
               /\ at.unit \in 0 .. (MAX_FRAGMENTS - 1)

\* Mark unit u of buffer b: its own, or a later buffer's, or none.  The table
\* of a buffer that is free is cleared before it is used.
Marked(bufs, b, u) ==
    LET at == MarkAt(b, u)
    IN  [c \in DOMAIN bufs |->
            IF bufs[c] = NoBuffer \/ (c # b /\ c # at.buffer) THEN bufs[c]
            ELSE [bufs[c] EXCEPT
                     !.fragments = IF InTable(at) /\ c = at.buffer
                                     THEN @ \cup {at.unit} ELSE @,
                     !.of = IF InTable(at) /\ at.buffer = b THEN @ ELSE Mixed]]

\* Mutant: the last fragment completes the packet.
HasTheEnd(bufs, b, outside) == bufs[b].total_length > 0

\* "Check if packet is complete": every unit has been marked.  Units behind the
\* table are looked for in the same bytes; outside: those that are in no table
\* are set.
Complete(bufs, b, outside) ==
    LET length == bufs[b].total_length
        isMarked(at) == IF InTable(at) /\ bufs[at.buffer] # NoBuffer
                          THEN at.unit \in bufs[at.buffer].fragments ELSE outside
    IN  /\ length > 0
        /\ \A u \in 0 .. ((length + FRAG_UNIT - 1) \div FRAG_UNIT - 1) :
              isMarked(MarkAt(b, u))

\* What is returned, and noted unless the buffer is Mixed.
Returned(f) ==
    IF f.of = Mixed THEN {}
    ELSE {[of |-> f.of, data |-> SubSeq(f.data, 1, f.total_length)]}

\* alloc: memory for the packet is to be had; without it the buffer stays.
ipv4_reassemble_packet(p, alloc, outside) ==
    /\ IsFragment(p)
    /\ \E b \in DOMAIN buffers :
          LET bufs == Marked([buffers EXCEPT ![b] = Stored(Buffer(b, p), p)],
                             b, p.offset)
          IN  /\ Finds(b, p)
              /\ overrun' = ~InTable(MarkAt(b, p.offset))
              /\ IF Complete(bufs, b, outside) /\ alloc
                   THEN /\ buffers' = [bufs EXCEPT ![b] = NoBuffer]
                        /\ reassembled' = reassembled \cup Returned(bufs[b])
                   ELSE /\ buffers' = bufs
                        /\ UNCHANGED reassembled
    /\ UNCHANGED <<ip_sent, wire>>

\* A mark in no table changes another field of a buffer, or what is behind the
\* buffers: the model ends there.
FragNext ==
    /\ ~overrun
    /\ \/ \E n \in Lengths, mtu \in Mtus, id \in 0 .. (IP_IDS - 1) :
             ipv4_send_packet(n, mtu, id)
       \/ \E p \in wire, alloc, outside \in BOOLEAN :
             ipv4_reassemble_packet(p, alloc, outside)

FragSpec == FragInit /\ [][FragNext]_fragVars

-----------------------------------------------------------------------------
(* Properties.                                                             *)

\* Whatever reassembly returns from a buffer that two packets with the same
\* identification have not shared, and whose marks all fell into its own table
\* and no other's into it, is one packet, whole, with its bytes in their places,
\* in whatever order and however often its fragments arrive: all of it that
\* ipv4_send_packet left, for the IP header replaces the first bytes.  And it is
\* a packet whose fragments carry a single unit each: a longer fragment marks
\* the first of its units alone, so its packet is never seen to be complete and
\* keeps its buffer for good.
ReassembledWhole ==
    \A r \in reassembled :
        /\ r.of \in DOMAIN ip_sent
        /\ r.data = Payload(r.of, ip_sent[r.of].length)
        /\ MaxFragment(ip_sent[r.of].mtu) = FRAG_UNIT
=============================================================================
