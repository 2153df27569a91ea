-------------------------------- MODULE Udp --------------------------------
(***************************************************************************)
(* UDP sockets, net/udp.c.  The list of sockets is a function from the     *)
(* local address and port, which udp_create_socket keeps unique, to the    *)
(* socket.  The receive buffer is memory from its first byte on; a byte is *)
(* the number it has among the bytes that this socket has taken, so the    *)
(* reader must see 1, 2, 3, ...                                            *)
(***************************************************************************)
EXTENDS Integers, FiniteSets, Sequences

CONSTANTS
    MAX_UDP_SOCKETS,  \* (256)
    UDP_BUFFER_SIZE,  \* config.buffer_size, bytes
    UdpEndpoints,     \* local addresses with ports
    UdpMaxBytes       \* bound: bytes a socket takes before it is closed

ASSUME UdpAssumption ==
    MAX_UDP_SOCKETS \in Nat /\ UDP_BUFFER_SIZE \in Nat /\ UdpMaxBytes \in Nat

VARIABLES
    udp_sockets,   \* the open sockets
    udp_count      \* socket_count

udpVars == <<udp_sockets, udp_count>>

\* History: put and taken count the bytes of the socket that came in and that
\* were read; lagged, a datagram came while read bytes stood before others.
NewSocket ==
    [recv_buf |-> [n \in 0 .. (UdpMaxBytes - 1) |-> 0],
     recv_start |-> 0, recv_len |-> 0,
     put |-> 0, taken |-> 0, lagged |-> FALSE]

Open == DOMAIN udp_sockets

UdpInit == udp_sockets = <<>> /\ udp_count = 0

\* The limit, a port in use, or no memory: the call returns NULL.
udp_create_socket(p) ==
    /\ udp_count < MAX_UDP_SOCKETS
    /\ p \notin Open
    /\ udp_sockets' = [q \in Open \cup {p} |->
                          IF q = p THEN NewSocket ELSE udp_sockets[q]]
    /\ udp_count' = udp_count + 1

udp_close_socket(p) ==
    /\ p \in Open
    /\ udp_sockets' = [q \in Open \ {p} |-> udp_sockets[q]]
    /\ udp_count' = udp_count - 1

\* The loop over the list closes every socket.
udp_cleanup ==
    /\ Open # {}
    /\ udp_sockets' = <<>>
    /\ udp_count' = udp_count - Cardinality(Open)

\* Mutant: a buffer that is empty keeps its start.
NoRewind(s) == s

\* "Reset buffer if empty"
Rewind(s) == IF s.recv_len = 0 THEN [s EXCEPT !.recv_start = 0] ELSE s

udp_receive(p, max_length) ==
    /\ p \in Open
    /\ udp_sockets[p].recv_len > 0
    /\ LET s      == udp_sockets[p]
           length == IF s.recv_len > max_length THEN max_length ELSE s.recv_len
       IN  udp_sockets' = [udp_sockets EXCEPT ![p] = Rewind(
              [s EXCEPT !.recv_start = @ + length, !.recv_len = @ - length,
                        !.taken = @ + length])]
    /\ UNCHANGED udp_count

\* The bytes read already are not counted.
Fits(s, data_len) == s.recv_len + data_len <= UDP_BUFFER_SIZE

\* A datagram for p with a right checksum; any other is dropped.
udp_receive_packet(p, data_len) ==
    /\ p \in Open
    /\ LET s  == udp_sockets[p]
           at == s.recv_start + s.recv_len
       IN  /\ Fits(s, data_len)
           /\ s.put + data_len <= UdpMaxBytes
           /\ udp_sockets' = [udp_sockets EXCEPT ![p] =
                 [s EXCEPT !.recv_buf = [n \in DOMAIN s.recv_buf |->
                              IF n \in at .. (at + data_len - 1)
                                THEN s.put + (n - at) + 1 ELSE s.recv_buf[n]],
                           !.recv_len = @ + data_len,
                           !.put = @ + data_len,
                           !.lagged = @ \/ (s.recv_start > 0 /\ s.recv_len > 0)]]
    /\ UNCHANGED udp_count

UdpNext ==
    \/ udp_cleanup
    \/ \E p \in UdpEndpoints :
          \/ udp_create_socket(p)
          \/ udp_close_socket(p)
          \/ \E n \in 1 .. UDP_BUFFER_SIZE :
                udp_receive(p, n) \/ udp_receive_packet(p, n)

UdpSpec == UdpInit /\ [][UdpNext]_udpVars

-----------------------------------------------------------------------------
(* Properties.                                                             *)

\* The bytes that wait are the ones taken in and not read, in the order in
\* which they came: start, length and rewind of the buffer never lose, repeat
\* or overwrite a byte, whatever the sizes of the datagrams and the reads.  They
\* lie inside the buffer as long as no datagram comes while bytes that were
\* read are still in front: the test for space leaves recv_start out.
UdpBufferSound ==
    /\ udp_count = Cardinality(Open)
    /\ \A p \in Open :
          LET s == udp_sockets[p]
          IN  /\ s.put = s.taken + s.recv_len
              /\ \A k \in 1 .. s.recv_len :
                    s.recv_buf[s.recv_start + k - 1] = s.taken + k
              /\ ~s.lagged => s.recv_start + s.recv_len <= UDP_BUFFER_SIZE
=============================================================================
