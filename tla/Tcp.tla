-------------------------------- MODULE Tcp --------------------------------
(***************************************************************************)
(* TCP connections, net/tcp.c: the list of connections and, for each, the  *)
(* two byte streams.  A byte is its number in its stream; sequence numbers *)
(* are the code's words, which wrap.  Segments of the peer's stream and    *)
(* acknowledgments arrive late, twice, out of order or never.              *)
(* The three way handshake is missing in the code (the TODOs of            *)
(* tcp_receive_packet), so Establish stands for it.                        *)
(***************************************************************************)
EXTENDS Integers, SequencesExt

CONSTANTS
    MAX_TCP_CONNECTIONS,   \* (256)
    WORD,                  \* number of sequence numbers (2^32)
    WINDOW,                \* config.window_size
    INITIAL_SEQ,           \* config.initial_seq
    PEER_SEQ,              \* sequence number of the peer's first byte
    Peers,                 \* remote addresses with ports
    STREAM                 \* bound: bytes sent in one direction

\* Fewer bytes than a word counts: an old acknowledgment is never taken for a
\* new one.
ASSUME TcpAssumption ==
    /\ MAX_TCP_CONNECTIONS \in Nat /\ WINDOW \in Nat /\ STREAM \in Nat
    /\ WORD \in Nat /\ STREAM < WORD
    /\ INITIAL_SEQ \in 0 .. (WORD - 1) /\ PEER_SEQ \in 0 .. (WORD - 1)

VARIABLES
    tcp_connections,   \* the list, the newest first
    tcp_count          \* connection_count

tcpVars == <<tcp_connections, tcp_count>>

\* History: accepted counts the bytes tcp_send took, taken those tcp_receive
\* handed out; peak is the last byte the peer has acknowledged.
NewConnection(peer) ==
    [peer |-> peer, state |-> "CLOSED",
     send_buf |-> <<>>, snd_una |-> INITIAL_SEQ,
     recv_buf |-> <<>>, rcv_nxt |-> 0, rcv_wnd |-> WINDOW,
     accepted |-> 0, taken |-> 0, peak |-> 0]

Established(i) == tcp_connections[i].state = "ESTABLISHED"

TcpInit == tcp_connections = <<>> /\ tcp_count = 0

\* Nothing keeps two connections of the same addresses and ports apart.
tcp_create_connection(peer) ==
    /\ tcp_count < MAX_TCP_CONNECTIONS
    /\ tcp_connections' = <<NewConnection(peer)>> \o tcp_connections
    /\ tcp_count' = tcp_count + 1

tcp_close_connection(i) ==
    /\ tcp_connections' = RemoveAt(tcp_connections, i)
    /\ tcp_count' = tcp_count - 1

tcp_cleanup ==
    /\ tcp_connections # <<>>
    /\ tcp_connections' = <<>>
    /\ tcp_count' = tcp_count - Len(tcp_connections)

Establish(i) ==
    /\ ~Established(i)
    /\ tcp_connections' = [tcp_connections EXCEPT
          ![i].state = "ESTABLISHED", ![i].rcv_nxt = PEER_SEQ]
    /\ UNCHANGED tcp_count

tcp_send(i, length) ==
    LET conn == tcp_connections[i]
    IN  /\ Established(i)
        /\ Len(conn.send_buf) + length <= WINDOW
        /\ conn.accepted + length <= STREAM
        /\ tcp_connections' = [tcp_connections EXCEPT
              ![i].send_buf = @ \o [b \in 1 .. length |-> conn.accepted + b],
              ![i].accepted = @ + length]
        /\ UNCHANGED tcp_count

tcp_receive(i, max_length) ==
    LET conn   == tcp_connections[i]
        length == IF max_length < Len(conn.recv_buf)
                    THEN max_length ELSE Len(conn.recv_buf)
    IN  /\ Established(i)
        /\ length > 0
        /\ tcp_connections' = [tcp_connections EXCEPT
              ![i].recv_buf = SubSeq(@, length + 1, Len(@)),
              ![i].rcv_wnd = @ + length,
              ![i].taken = @ + length]
        /\ UNCHANGED tcp_count

\* Mutant: the numbers are compared as if they did not wrap.
AckedUnwrapped(conn, ack_num) ==
    IF ack_num > conn.snd_una THEN ack_num - conn.snd_una ELSE 0

\* uint32_t acked = header->ack_num - conn->snd_una
Acked(conn, ack_num) == (ack_num - conn.snd_una) % WORD

\* The acknowledged bytes leave the send buffer.
ProcessAck(conn, ack_num) ==
    LET acked == Acked(conn, ack_num)
    IN  IF acked > 0 /\ acked <= Len(conn.send_buf)
          THEN [conn EXCEPT !.send_buf = SubSeq(@, acked + 1, Len(@)),
                            !.snd_una = ack_num]
          ELSE conn

\* Only the segment that comes next is taken, whole or not at all.
ProcessData(conn, seq, data) ==
    IF seq = conn.rcv_nxt /\ Len(conn.recv_buf) + Len(data) <= WINDOW
      THEN [conn EXCEPT !.recv_buf = @ \o data,
                        !.rcv_nxt = (@ + Len(data)) % WORD,
                        !.rcv_wnd = @ - Len(data)]
      ELSE conn

\* The first connection in the list with this peer.
Matching(peer) ==
    Min({i \in DOMAIN tcp_connections : tcp_connections[i].peer = peer})

\* A segment with data_len bytes from byte k on, that acknowledges ack bytes.
\* A segment without ACK acts like one that acknowledges nothing new.
tcp_receive_packet(peer, k, data_len, ack) ==
    /\ \E i \in DOMAIN tcp_connections : tcp_connections[i].peer = peer
    /\ LET i    == Matching(peer)
           conn == tcp_connections[i]
           data == [b \in 1 .. data_len |-> k + b - 1]
       IN  /\ Established(i)
           /\ ack <= conn.accepted
           /\ tcp_connections' = [tcp_connections EXCEPT ![i] =
                 [ProcessData(ProcessAck(conn, (INITIAL_SEQ + ack) % WORD),
                              (PEER_SEQ + k - 1) % WORD, data)
                    EXCEPT !.peak = IF ack > @ THEN ack ELSE @]]
    /\ UNCHANGED tcp_count

TcpNext ==
    \/ tcp_cleanup
    \/ \E peer \in Peers :
          \/ tcp_create_connection(peer)
          \/ \E k \in 1 .. STREAM, ack \in 0 .. STREAM :
                \E data_len \in 0 .. (STREAM + 1 - k) :
                   tcp_receive_packet(peer, k, data_len, ack)
    \/ \E i \in DOMAIN tcp_connections :
          \/ tcp_close_connection(i)
          \/ Establish(i)
          \/ \E n \in 1 .. WINDOW : tcp_send(i, n) \/ tcp_receive(i, n)

TcpSpec == TcpInit /\ [][TcpNext]_tcpVars

-----------------------------------------------------------------------------
(* Properties.                                                             *)

\* bytes is the run of numbers after first.
Follows(bytes, first) == bytes = [b \in 1 .. Len(bytes) |-> first + b]

\* Whatever comes late, twice or out of order, and across the wrap of the
\* sequence numbers: the receive buffer holds the peer's bytes that come next
\* for the reader, the send buffer exactly the bytes after the highest
\* acknowledgment that came, and the counters and the window agree with both.
TcpStreamIntact ==
    /\ tcp_count = Len(tcp_connections)
    /\ \A i \in DOMAIN tcp_connections :
          LET conn == tcp_connections[i]
              got  == conn.taken + Len(conn.recv_buf)
          IN  /\ Follows(conn.recv_buf, conn.taken)
              /\ Follows(conn.send_buf, conn.peak)
              /\ conn.peak + Len(conn.send_buf) = conn.accepted
              /\ conn.snd_una = (INITIAL_SEQ + conn.peak) % WORD
              /\ conn.rcv_wnd = WINDOW - Len(conn.recv_buf)
              /\ Established(i) => conn.rcv_nxt = (PEER_SEQ + got) % WORD
=============================================================================
