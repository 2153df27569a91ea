-------------------------- MODULE TransportProofs --------------------------
(***************************************************************************)
(* UdpBufferSound for every number of sockets, every buffer size and every *)
(* sequence of datagrams and reads; TcpStreamIntact for every word, window *)
(* and number of connections, and every order of segments and              *)
(* acknowledgments.                                                        *)
(***************************************************************************)
EXTENDS Udp, Tcp, FiniteSetTheorems, StructureProofs

-----------------------------------------------------------------------------
(* UDP: the buffers.                                                       *)

Cells == 0 .. (UdpMaxBytes - 1)

SocketType ==
    [recv_buf : [Cells -> Nat], recv_start : Nat, recv_len : Nat,
     put : Nat, taken : Nat, lagged : BOOLEAN]

\* What holds of one socket.  An empty buffer starts at 0, so a datagram that is
\* not behind read bytes begins at the front; the start never passes the bytes
\* taken, which keeps the bytes that wait within what has come in.
SocketOK(s) ==
    /\ s \in SocketType
    /\ s.put = s.taken + s.recv_len
    /\ s.put <= UdpMaxBytes
    /\ s.recv_start <= s.taken
    /\ s.recv_len = 0 => s.recv_start = 0
    /\ \A k \in 1 .. s.recv_len :
          s.recv_buf[s.recv_start + k - 1] = s.taken + k
    /\ ~s.lagged => s.recv_start + s.recv_len <= UDP_BUFFER_SIZE

UdpInv ==
    /\ IsFiniteSet(Open)
    /\ udp_count = Cardinality(Open)
    /\ udp_sockets = [p \in Open |-> udp_sockets[p]]
    /\ \A p \in Open : SocketOK(udp_sockets[p])

-----------------------------------------------------------------------------
(* One socket.                                                             *)

\* udp_create_socket's socket.
LEMMA NewSocketOK == SocketOK(NewSocket)
  BY UdpAssumption DEF SocketOK, NewSocket, SocketType, Cells

\* What udp_receive makes of a socket, before and after the rewind.
LEMMA ReadKeepsSocket ==
  ASSUME NEW s, SocketOK(s), s.recv_len > 0,
         NEW length \in Nat, length <= s.recv_len
  PROVE  SocketOK(Rewind([s EXCEPT !.recv_start = @ + length,
                                   !.recv_len = @ - length,
                                   !.taken = @ + length]))
  <1> DEFINE r == [s EXCEPT !.recv_start = @ + length, !.recv_len = @ - length,
                            !.taken = @ + length]
  <1> SUFFICES SocketOK(Rewind(r))
    OBVIOUS
  <1>0. /\ s \in SocketType /\ s.recv_start + length \in Nat
        /\ s.recv_len - length \in Nat /\ s.taken + length \in Nat
    BY DEF SocketOK, SocketType
  <1>1. r \in SocketType /\ r.recv_buf = s.recv_buf
        /\ r.recv_start = s.recv_start + length
        /\ r.recv_len = s.recv_len - length
        /\ r.taken = s.taken + length /\ r.put = s.put /\ r.lagged = s.lagged
    <2>1. PICK a \in Nat : a = s.recv_start + length
      BY <1>0
    <2>2. PICK b \in Nat : b = s.recv_len - length
      BY <1>0
    <2>3. PICK c \in Nat : c = s.taken + length
      BY <1>0
    <2>4. r = [s EXCEPT !.recv_start = a, !.recv_len = b, !.taken = c]
      BY <2>1, <2>2, <2>3
    <2> HIDE DEF r
    <2>5. /\ r \in SocketType /\ r.recv_buf = s.recv_buf /\ r.recv_start = a
          /\ r.recv_len = b /\ r.taken = c /\ r.put = s.put /\ r.lagged = s.lagged
      BY <1>0, <2>4 DEF SocketType
    <2> QED BY <2>1, <2>2, <2>3, <2>5
  <1> HIDE DEF r
  <1>2. \A k \in 1 .. r.recv_len : r.recv_buf[r.recv_start + k - 1] = r.taken + k
    <2> SUFFICES ASSUME NEW k \in 1 .. r.recv_len
                 PROVE  r.recv_buf[r.recv_start + k - 1] = r.taken + k
      OBVIOUS
    <2>1. k + length \in 1 .. s.recv_len
      BY <1>1 DEF SocketOK, SocketType
    <2>2. s.recv_buf[s.recv_start + (k + length) - 1] = s.taken + (k + length)
      BY <2>1 DEF SocketOK
    <2>3. r.recv_start + k - 1 = s.recv_start + (k + length) - 1
          /\ r.taken + k = s.taken + (k + length)
      BY <1>1 DEF SocketOK, SocketType
    <2> QED BY <1>1, <2>2, <2>3
  <1>3. CASE r.recv_len = 0
    <2>1. Rewind(r) = [r EXCEPT !.recv_start = 0]
      BY <1>3 DEF Rewind
    <2>2. [r EXCEPT !.recv_start = 0] \in SocketType
      BY <1>1 DEF SocketType
    <2>3. /\ Rewind(r).recv_len = r.recv_len /\ Rewind(r).recv_start = 0
          /\ Rewind(r).put = r.put /\ Rewind(r).taken = r.taken
          /\ Rewind(r).lagged = r.lagged
      BY <1>1, <2>1 DEF SocketType
    <2> QED BY <1>1, <1>3, <2>1, <2>2, <2>3, UdpAssumption DEF SocketOK, SocketType
  <1>4. CASE r.recv_len # 0
    <2>1. Rewind(r) = r
      BY <1>4 DEF Rewind
    <2> QED BY <1>1, <1>2, <1>4, <2>1 DEF SocketOK, SocketType
  <1> QED BY <1>3, <1>4

\* What udp_receive_packet makes of a socket.
LEMMA DatagramKeepsSocket ==
  ASSUME NEW s, SocketOK(s), NEW data_len \in Nat \ {0}, Fits(s, data_len),
         s.put + data_len <= UdpMaxBytes,
         NEW at, at = s.recv_start + s.recv_len
  PROVE  SocketOK([s EXCEPT
             !.recv_buf = [n \in DOMAIN s.recv_buf |->
                  IF n \in at .. (at + data_len - 1)
                    THEN s.put + (n - at) + 1 ELSE s.recv_buf[n]],
             !.recv_len = @ + data_len,
             !.put = @ + data_len,
             !.lagged = @ \/ (s.recv_start > 0 /\ s.recv_len > 0)])
  <1> DEFINE buf == [n \in DOMAIN s.recv_buf |->
                  IF n \in at .. (at + data_len - 1)
                    THEN s.put + (n - at) + 1 ELSE s.recv_buf[n]]
             r == [s EXCEPT !.recv_buf = buf,
                     !.recv_len = @ + data_len,
                     !.put = @ + data_len,
                     !.lagged = @ \/ (s.recv_start > 0 /\ s.recv_len > 0)]
             late == s.lagged \/ (s.recv_start > 0 /\ s.recv_len > 0)
  <1> SUFFICES SocketOK(r)
    OBVIOUS
  <1>0. /\ s \in SocketType /\ DOMAIN s.recv_buf = Cells /\ at \in Nat
        /\ s.recv_start \in Nat /\ s.recv_len \in Nat /\ s.put \in Nat
        /\ s.taken \in Nat
    BY DEF SocketOK, SocketType
  <1>1. buf \in [Cells -> Nat]
    <2> SUFFICES ASSUME NEW n \in Cells
                 PROVE  (IF n \in at .. (at + data_len - 1)
                           THEN s.put + (n - at) + 1 ELSE s.recv_buf[n]) \in Nat
      BY <1>0
    <2>1. s.recv_buf[n] \in Nat
      BY <1>0 DEF SocketType
    <2> QED BY <1>0, <2>1 DEF Cells
  <1>2. /\ r \in SocketType /\ r.recv_buf = buf
        /\ r.recv_start = s.recv_start /\ r.recv_len = s.recv_len + data_len
        /\ r.taken = s.taken /\ r.put = s.put + data_len
        /\ r.lagged = late
    <2>1. PICK l \in BOOLEAN : l = late
      OBVIOUS
    <2>2. PICK b \in Nat : b = s.recv_len + data_len
      BY <1>0
    <2>3. PICK c \in Nat : c = s.put + data_len
      BY <1>0
    <2> HIDE DEF buf
    <2>4. r = [s EXCEPT !.recv_buf = buf, !.recv_len = b, !.put = c, !.lagged = l]
      BY <2>1, <2>2, <2>3, Zenon
    <2> HIDE DEF r, late
    <2>5. /\ r \in SocketType /\ r.recv_buf = buf /\ r.recv_start = s.recv_start
          /\ r.recv_len = b /\ r.taken = s.taken /\ r.put = c /\ r.lagged = l
      BY <1>0, <1>1, <2>4 DEF SocketType
    <2> QED BY <2>1, <2>2, <2>3, <2>5
  <1> HIDE DEF r
  <1>3. \A k \in 1 .. r.recv_len : r.recv_buf[r.recv_start + k - 1] = r.taken + k
    <2> SUFFICES ASSUME NEW k \in 1 .. (s.recv_len + data_len)
                 PROVE  buf[s.recv_start + k - 1] = s.taken + k
      <3> HIDE DEF buf
      <3> QED BY <1>2
    <2>1. s.recv_start + k - 1 \in Cells
      <3>1. s.put = s.taken + s.recv_len /\ s.recv_start <= s.taken
        BY DEF SocketOK
      <3>2. PICK a \in Nat, t \in Nat, l \in Nat, p \in Nat :
               a = s.recv_start /\ t = s.taken /\ l = s.recv_len /\ p = s.put
        BY <1>0
      <3>3. p = t + l /\ a <= t /\ p + data_len <= UdpMaxBytes
        BY <3>1, <3>2
      <3>4. k \in 1 .. (l + data_len)
        BY <3>2
      <3> HIDE DEF buf, r, late
      <3>5. a + k - 1 \in 0 .. (UdpMaxBytes - 1)
        BY <3>3, <3>4, UdpAssumption
      <3> QED BY <3>2, <3>5 DEF Cells
    <2>2. CASE k \in 1 .. s.recv_len
      <3>1. s.recv_start + k - 1 \notin at .. (at + data_len - 1)
        BY <2>2, <1>0 DEF SocketType
      <3>2. buf[s.recv_start + k - 1] = s.recv_buf[s.recv_start + k - 1]
        BY <1>0, <2>1, <3>1
      <3> QED BY <2>2, <3>2 DEF SocketOK
    <2>3. CASE k \notin 1 .. s.recv_len
      <3>1. s.recv_start + k - 1 \in at .. (at + data_len - 1)
        BY <2>3, <1>0, <1>2 DEF SocketType
      <3>2. buf[s.recv_start + k - 1] = s.put + ((s.recv_start + k - 1) - at) + 1
        BY <1>0, <2>1, <3>1
      <3> QED BY <3>2, <1>0 DEF SocketOK, SocketType
    <2> QED BY <2>2, <2>3
  <1>4. /\ r.put = r.taken + r.recv_len /\ r.put <= UdpMaxBytes
        /\ r.recv_start <= r.taken
        /\ r.recv_len = 0 => r.recv_start = 0
    BY <1>0, <1>2 DEF SocketOK, SocketType
  <1>5. ~r.lagged => r.recv_start + r.recv_len <= UDP_BUFFER_SIZE
    <2> SUFFICES ASSUME ~r.lagged
                 PROVE  r.recv_start + r.recv_len <= UDP_BUFFER_SIZE
      OBVIOUS
    <2>1. s.recv_start = 0
      BY <1>0, <1>2 DEF SocketOK, SocketType
    <2> QED BY <2>1, <1>0, <1>2, UdpAssumption DEF Fits, SocketType
  <1> QED BY <1>2, <1>3, <1>4, <1>5 DEF SocketOK

-----------------------------------------------------------------------------
(* All of them.                                                            *)

\* At first no socket is open.
LEMMA UdpInvInit == UdpInit => UdpInv
  BY FS_EmptySet DEF UdpInit, UdpInv, Open

\* One case per action of UdpNext.
LEMMA UdpInvStep == UdpInv /\ [UdpNext]_udpVars => UdpInv'
  <1> SUFFICES ASSUME UdpInv, [UdpNext]_udpVars PROVE UdpInv'
    OBVIOUS
  <1> USE DEF UdpInv
  <1>1. CASE udp_cleanup
    BY <1>1, FS_EmptySet, FS_CardinalityType DEF udp_cleanup, Open
  <1>2. ASSUME NEW p \in UdpEndpoints, udp_create_socket(p) PROVE UdpInv'
    <2>1. Open' = Open \cup {p} /\ p \notin Open
      BY <1>2 DEF udp_create_socket, Open
    <2>2. IsFiniteSet(Open') /\ Cardinality(Open') = Cardinality(Open) + 1
      BY <2>1, FS_AddElement
    <2>3. \A q \in Open' : SocketOK(udp_sockets'[q])
      BY <1>2, <2>1, NewSocketOK DEF udp_create_socket
    <2> QED BY <1>2, <2>1, <2>2, <2>3 DEF udp_create_socket
  <1>3. ASSUME NEW p \in UdpEndpoints, udp_close_socket(p) PROVE UdpInv'
    <2>1. Open' = Open \ {p} /\ p \in Open
      BY <1>3 DEF udp_close_socket, Open
    <2>2. IsFiniteSet(Open') /\ Cardinality(Open') = Cardinality(Open) - 1
      BY <2>1, FS_RemoveElement
    <2>3. \A q \in Open' : SocketOK(udp_sockets'[q])
      BY <1>3, <2>1 DEF udp_close_socket
    <2> QED BY <1>3, <2>1, <2>2, <2>3 DEF udp_close_socket
  <1>4. ASSUME NEW p \in UdpEndpoints, NEW n \in 1 .. UDP_BUFFER_SIZE,
               udp_receive(p, n)
        PROVE UdpInv'
    <2> DEFINE s == udp_sockets[p]
               length == IF s.recv_len > n THEN n ELSE s.recv_len
               r == [s EXCEPT !.recv_start = @ + length,
                              !.recv_len = @ - length, !.taken = @ + length]
    <2>1. /\ p \in Open /\ s.recv_len > 0 /\ udp_count' = udp_count
          /\ udp_sockets' = [udp_sockets EXCEPT ![p] = Rewind(r)]
      BY <1>4 DEF udp_receive
    <2>2. SocketOK(s)
      BY <2>1
    <2>3. length \in Nat /\ length <= s.recv_len
      BY <2>2, UdpAssumption DEF SocketOK, SocketType
    <2>4. SocketOK(Rewind(r))
      BY <2>1, <2>2, <2>3, ReadKeepsSocket
    <2> HIDE DEF r
    <2>5. Open' = Open /\ \A q \in Open : SocketOK(udp_sockets'[q])
      BY <2>1, <2>4 DEF Open
    <2> QED BY <2>1, <2>5
  <1>5. ASSUME NEW p \in UdpEndpoints, NEW n \in 1 .. UDP_BUFFER_SIZE,
               udp_receive_packet(p, n)
        PROVE UdpInv'
    <2> DEFINE s == udp_sockets[p]
               at == s.recv_start + s.recv_len
               r == [s EXCEPT
                       !.recv_buf = [m \in DOMAIN s.recv_buf |->
                            IF m \in at .. (at + n - 1)
                              THEN s.put + (m - at) + 1 ELSE s.recv_buf[m]],
                       !.recv_len = @ + n,
                       !.put = @ + n,
                       !.lagged = @ \/ (s.recv_start > 0 /\ s.recv_len > 0)]
    <2>1. /\ p \in Open /\ Fits(s, n) /\ s.put + n <= UdpMaxBytes
          /\ udp_count' = udp_count
          /\ udp_sockets' = [udp_sockets EXCEPT ![p] = r]
      BY <1>5 DEF udp_receive_packet
    <2>2. SocketOK(s) /\ n \in Nat \ {0}
      BY <2>1, UdpAssumption
    <2>3. SocketOK(r)
      BY <2>1, <2>2, DatagramKeepsSocket
    <2> HIDE DEF r
    <2>4. Open' = Open /\ \A q \in Open : SocketOK(udp_sockets'[q])
      BY <2>1, <2>3 DEF Open
    <2> QED BY <2>1, <2>4
  <1>6. CASE UNCHANGED udpVars
    BY <1>6 DEF udpVars, Open
  <1> QED BY <1>1, <1>2, <1>3, <1>4, <1>5, <1>6 DEF UdpNext

\* No sequence of datagrams and reads of any sizes, on any number of sockets,
\* makes udp.c lose, repeat or overwrite a byte that waits; and only a datagram
\* that comes behind bytes already read can leave the buffer.
THEOREM UdpBuffersAreSound == UdpSpec => []UdpBufferSound
  <1>1. UdpInv => UdpBufferSound
    BY DEF UdpInv, UdpBufferSound, SocketOK
  <1> QED BY <1>1, UdpInvInit, UdpInvStep, PTL DEF UdpSpec

-----------------------------------------------------------------------------
(* TCP: sequence numbers and runs of bytes.                                *)

\* The sequence number of byte x of a stream whose first number is a.
Number(a, x) == (a + x) % WORD

\* Sequence numbers without division: within a stream they differ, and the
\* difference of two is that of their bytes, plus WORD when it is negative.
LEMMA Numbers ==
  ASSUME NEW a \in 0 .. (WORD - 1), NEW x \in 0 .. STREAM, NEW y \in 0 .. STREAM
  PROVE  /\ Number(a, x) \in 0 .. (WORD - 1)
         /\ Number(a, x) = Number(a, y) => x = y
         /\ (Number(a, x) - Number(a, y)) % WORD
               = IF x >= y THEN x - y ELSE WORD + x - y
<1>0. WORD \in Nat /\ STREAM \in Nat /\ STREAM < WORD
  BY TcpAssumption
<1>1. (a + x) % WORD = IF a + x < WORD THEN a + x ELSE a + x - WORD
  BY <1>0
<1>2. (a + y) % WORD = IF a + y < WORD THEN a + y ELSE a + y - WORD
  BY <1>0
<1>3. PICK u, v : u = (a + x) % WORD /\ v = (a + y) % WORD
  OBVIOUS
<1>4. u \in 0 .. (WORD - 1) /\ v \in 0 .. (WORD - 1)
  BY <1>0, <1>1, <1>2, <1>3
<1>5. (u - v) % WORD = IF u < v THEN u - v + WORD ELSE u - v
  BY <1>0, <1>4
<1>6. (u - v) % WORD = IF x >= y THEN x - y ELSE WORD + x - y
  BY <1>0, <1>1, <1>2, <1>3, <1>5
<1>7. u = v => x = y
  BY <1>0, <1>1, <1>2, <1>3
<1> QED
  BY <1>3, <1>4, <1>6, <1>7 DEF Number

\* Counting n bytes on.
LEMMA NumberPlus ==
  ASSUME NEW a \in 0 .. (WORD - 1), NEW x \in 0 .. STREAM, NEW n \in 0 .. STREAM,
         NEW y \in 0 .. STREAM, y = x + n
  PROVE  (Number(a, x) + n) % WORD = Number(a, y)
<1>0. WORD \in Nat /\ STREAM \in Nat /\ STREAM < WORD
  BY TcpAssumption
<1>1. Number(a, x) = IF a + x < WORD THEN a + x ELSE a + x - WORD
  BY <1>0 DEF Number
<1>2. Number(a, y) = IF a + y < WORD THEN a + y ELSE a + y - WORD
  BY <1>0 DEF Number
<1>3. PICK r : r = Number(a, x)
  OBVIOUS
<1>4. r \in 0 .. (WORD - 1)
  BY <1>0, <1>1, <1>3
<1>5. (r + n) % WORD = IF r + n < WORD THEN r + n ELSE r + n - WORD
  BY <1>0, <1>4
<1>6. (r + n) % WORD = Number(a, y)
  BY <1>0, <1>1, <1>2, <1>3, <1>5
<1> QED
  BY <1>3, <1>6

\* The n bytes d continue the run s.
Extends(s, first, n, d) ==
    /\ s \in Seq(Nat) /\ first \in Nat /\ Follows(s, first) /\ n \in Nat
    /\ d = [b \in 1 .. n |-> first + Len(s) + b]

\* More bytes of the same run at its end.
LEMMA FollowsMore ==
  ASSUME NEW s, NEW first, NEW n, NEW d, Extends(s, first, n, d)
  PROVE  s \o d \in Seq(Nat) /\ Len(s \o d) = Len(s) + n /\ Follows(s \o d, first)
<1> USE DEF Extends
<1>0. Len(s) \in Nat /\ DOMAIN s = 1 .. Len(s)
  BY LenProperties
<1>1. d \in [1 .. n -> Nat]
  BY <1>0
<1>2. d \in Seq(Nat) /\ Len(d) = n
  BY <1>1, LenProperties
<1>3. PICK e : e = s \o d
  OBVIOUS
<1>4. e \in Seq(Nat) /\ Len(e) = Len(s) + n
      /\ \A k \in 1 .. Len(e) : e[k] = IF k <= Len(s) THEN s[k] ELSE d[k - Len(s)]
  BY <1>2, <1>3, ConcatProperties
<1>5. \A k \in 1 .. Len(s) : s[k] = first + k
  BY DEF Follows
<1>6. ASSUME NEW k \in 1 .. Len(e) PROVE e[k] = first + k
  <2>1. CASE k <= Len(s)
    BY <1>0, <1>4, <1>5, <2>1
  <2>2. CASE ~(k <= Len(s))
    <3>1. k - Len(s) \in 1 .. n
      BY <1>0, <1>4, <2>2
    <3> QED
      BY <1>0, <1>4, <2>2, <3>1
  <2> QED
    BY <2>1, <2>2
<1>7. e = [b \in 1 .. Len(e) |-> first + b]
  BY <1>4, <1>6, LenProperties
<1> QED
  BY <1>3, <1>4, <1>7 DEF Follows

\* Fewer bytes at its beginning.
LEMMA FollowsLess ==
  ASSUME NEW s \in Seq(Nat), NEW first \in Nat, Follows(s, first),
         NEW n \in 0 .. Len(s)
  PROVE  /\ SubSeq(s, n + 1, Len(s)) \in Seq(Nat)
         /\ Len(SubSeq(s, n + 1, Len(s))) = Len(s) - n
         /\ Follows(SubSeq(s, n + 1, Len(s)), first + n)
<1>0. Len(s) \in Nat
  BY LenProperties
<1>1. PICK e : e = SubSeq(s, n + 1, Len(s))
  OBVIOUS
<1>2. e \in Seq(Nat) /\ Len(e) = Len(s) - n
      /\ \A k \in 1 .. Len(e) : e[k] = s[n + k]
  <2>1. PICK m, l : m = n + 1 /\ l = Len(s)
    OBVIOUS
  <2>2. m \in Int /\ l \in Int /\ \A j \in m .. l : s[j] \in Nat
    BY <1>0, <2>1, ElementOfSeq
  <2>3. /\ SubSeq(s, m, l) \in Seq(Nat)
        /\ Len(SubSeq(s, m, l)) = IF m <= l THEN l - m + 1 ELSE 0
        /\ \A j \in 1 .. (l - m + 1) : SubSeq(s, m, l)[j] = s[m + j - 1]
    BY <2>2, SubSeqProperties
  <2> QED
    BY <1>0, <1>1, <2>1, <2>3
<1>3. \A k \in 1 .. Len(s) : s[k] = first + k
  BY DEF Follows
<1>4. ASSUME NEW k \in 1 .. Len(e) PROVE e[k] = first + n + k
  <2>1. n + k \in 1 .. Len(s)
    BY <1>0, <1>2
  <2> QED
    BY <1>0, <1>2, <1>3, <2>1
<1>5. e = [b \in 1 .. Len(e) |-> first + n + b]
  BY <1>2, <1>4, LenProperties
<1> QED
  BY <1>1, <1>2, <1>5 DEF Follows

-----------------------------------------------------------------------------
(* One connection.                                                         *)

ConnType ==
    [peer : Peers, state : {"CLOSED", "ESTABLISHED"},
     send_buf : Seq(Nat), snd_una : Nat,
     recv_buf : Seq(Nat), rcv_nxt : Nat, rcv_wnd : Int,
     accepted : Nat, taken : Nat, peak : Nat]

SendOK(c) ==
    /\ Follows(c.send_buf, c.peak)
    /\ c.peak + Len(c.send_buf) = c.accepted
    /\ c.accepted <= STREAM
    /\ c.snd_una = (INITIAL_SEQ + c.peak) % WORD

\* Nothing has arrived before the handshake, which sets rcv_nxt.
RecvOK(c) ==
    /\ Follows(c.recv_buf, c.taken)
    /\ c.taken + Len(c.recv_buf) <= STREAM
    /\ c.rcv_wnd = WINDOW - Len(c.recv_buf)
    /\ c.state = "ESTABLISHED" =>
          c.rcv_nxt = (PEER_SEQ + (c.taken + Len(c.recv_buf))) % WORD
    /\ c.state = "CLOSED" => c.taken = 0 /\ c.recv_buf = <<>>

Connections == {c \in ConnType : SendOK(c) /\ RecvOK(c)}

\* The constants of net/tcp.c.
LEMMA TcpNumbers ==
  /\ WORD \in Nat /\ STREAM \in Nat /\ STREAM < WORD /\ WINDOW \in Nat
  /\ INITIAL_SEQ \in 0 .. (WORD - 1) /\ PEER_SEQ \in 0 .. (WORD - 1)
  /\ INITIAL_SEQ \in Nat /\ PEER_SEQ \in Nat
  BY TcpAssumption

\* The first sequence numbers are words.
LEMMA FirstNumbers ==
  (INITIAL_SEQ + 0) % WORD = INITIAL_SEQ /\ (PEER_SEQ + 0) % WORD = PEER_SEQ
  BY TcpNumbers

\* The empty run follows everything.
LEMMA FollowsEmpty ==
  ASSUME NEW first
  PROVE  Follows(<<>>, first) /\ <<>> \in Seq(Nat) /\ Len(<<>>) = 0
  BY EmptySeq DEF Follows

\* tcp_create_connection's connection.
LEMMA NewConnectionOK ==
  ASSUME NEW peer \in Peers
  PROVE  NewConnection(peer) \in Connections
<1>1. NewConnection(peer) \in ConnType
  BY TcpNumbers, EmptySeq DEF NewConnection, ConnType
<1>2. SendOK(NewConnection(peer))
  BY TcpNumbers, FirstNumbers, FollowsEmpty DEF NewConnection, SendOK
<1>3. RecvOK(NewConnection(peer))
  BY TcpNumbers, FollowsEmpty DEF NewConnection, RecvOK
<1> QED
  BY <1>1, <1>2, <1>3 DEF Connections

\* The handshake.
LEMMA EstablishOK ==
  ASSUME NEW c \in Connections, c.state # "ESTABLISHED"
  PROVE  [c EXCEPT !.state = "ESTABLISHED", !.rcv_nxt = PEER_SEQ] \in Connections
<1>1. PICK e : e = [c EXCEPT !.state = "ESTABLISHED", !.rcv_nxt = PEER_SEQ]
  OBVIOUS
<1>2. c \in ConnType /\ SendOK(c) /\ RecvOK(c) /\ c.state = "CLOSED"
  BY DEF Connections, ConnType
<1>3. /\ e \in ConnType /\ e.send_buf = c.send_buf /\ e.snd_una = c.snd_una
      /\ e.accepted = c.accepted /\ e.peak = c.peak /\ e.recv_buf = c.recv_buf
      /\ e.taken = c.taken /\ e.rcv_wnd = c.rcv_wnd /\ e.rcv_nxt = PEER_SEQ
      /\ e.state = "ESTABLISHED"
  BY <1>1, <1>2, TcpNumbers DEF ConnType
<1>4. SendOK(e)
  BY <1>2, <1>3 DEF SendOK
<1>5. c.taken = 0 /\ Len(c.recv_buf) = 0
  BY <1>2 DEF RecvOK
<1>6. RecvOK(e)
  BY <1>2, <1>3, <1>5, FirstNumbers DEF RecvOK
<1> QED
  BY <1>1, <1>3, <1>4, <1>6 DEF Connections

\* tcp_send takes bytes that the window has room for.
LEMMA SendKeepsConnection ==
  ASSUME NEW c \in Connections, NEW length \in Nat, c.accepted + length <= STREAM
  PROVE  [c EXCEPT !.send_buf = @ \o [b \in 1 .. length |-> c.accepted + b],
                   !.accepted = @ + length] \in Connections
<1>1. PICK d : d = [b \in 1 .. length |-> c.accepted + b]
  OBVIOUS
<1>2. PICK s : s = c.send_buf \o d
  OBVIOUS
<1>3. PICK e : e = [c EXCEPT !.send_buf = s, !.accepted = c.accepted + length]
  OBVIOUS
<1>4. c \in ConnType /\ SendOK(c) /\ RecvOK(c)
  BY DEF Connections
<1>5. /\ c.send_buf \in Seq(Nat) /\ c.peak \in Nat /\ c.accepted \in Nat
      /\ Len(c.send_buf) \in Nat /\ Follows(c.send_buf, c.peak)
      /\ c.peak + Len(c.send_buf) = c.accepted
  BY <1>4, LenProperties DEF ConnType, SendOK
<1>6. d = [b \in 1 .. length |-> c.peak + Len(c.send_buf) + b]
  BY <1>1, <1>5
<1>7. s \in Seq(Nat) /\ Len(s) = Len(c.send_buf) + length /\ Follows(s, c.peak)
  <2>1. PICK q, p : q = c.send_buf /\ p = c.peak
    OBVIOUS
  <2>2. Extends(q, p, length, d)
    BY <1>5, <1>6, <2>1 DEF Extends
  <2> QED
    BY <1>2, <2>1, <2>2, FollowsMore
<1>8. c.accepted + length \in Nat
  BY <1>5
<1>9. /\ e \in ConnType /\ e.send_buf = s /\ e.snd_una = c.snd_una
      /\ e.accepted = c.accepted + length /\ e.peak = c.peak /\ e.recv_buf = c.recv_buf
      /\ e.taken = c.taken /\ e.rcv_wnd = c.rcv_wnd /\ e.rcv_nxt = c.rcv_nxt
      /\ e.state = c.state
  BY <1>3, <1>4, <1>7, <1>8 DEF ConnType
<1>10. SendOK(e)
  <2>1. c.snd_una = (INITIAL_SEQ + c.peak) % WORD
    BY <1>4 DEF SendOK
  <2>2. e.peak + Len(e.send_buf) = e.accepted
    <3>1. PICK p, m, n : p = c.peak /\ m = Len(c.send_buf) /\ n = c.accepted
      OBVIOUS
    <3>2. p \in Nat /\ m \in Nat /\ p + m = n
      BY <1>5, <3>1
    <3>3. p + (m + length) = n + length
      BY <3>2
    <3> QED
      BY <1>7, <1>9, <3>1, <3>3
  <2> QED
    BY <1>7, <1>9, <2>1, <2>2 DEF SendOK
<1>11. RecvOK(e)
  BY <1>4, <1>9 DEF RecvOK
<1>12. e = [c EXCEPT !.send_buf = @ \o [b \in 1 .. length |-> c.accepted + b],
                     !.accepted = @ + length]
  BY <1>1, <1>2, <1>3
<1> QED
  BY <1>9, <1>10, <1>11, <1>12 DEF Connections

\* tcp_receive hands out the first bytes.
LEMMA ReceiveKeepsConnection ==
  ASSUME NEW c \in Connections, NEW length \in 1 .. Len(c.recv_buf)
  PROVE  [c EXCEPT !.recv_buf = SubSeq(@, length + 1, Len(@)),
                   !.rcv_wnd = @ + length,
                   !.taken = @ + length] \in Connections
<1>1. PICK s : s = SubSeq(c.recv_buf, length + 1, Len(c.recv_buf))
  OBVIOUS
<1>2. PICK e : e = [c EXCEPT !.recv_buf = s, !.rcv_wnd = c.rcv_wnd + length,
                             !.taken = c.taken + length]
  OBVIOUS
<1>3. c \in ConnType /\ SendOK(c) /\ RecvOK(c)
  BY DEF Connections
<1>4. /\ c.recv_buf \in Seq(Nat) /\ c.taken \in Nat /\ c.rcv_wnd \in Int
      /\ Len(c.recv_buf) \in Nat /\ Follows(c.recv_buf, c.taken)
      /\ length \in 0 .. Len(c.recv_buf) /\ c.state # "CLOSED"
  BY <1>3, LenProperties DEF ConnType, RecvOK
<1>5. s \in Seq(Nat) /\ Len(s) = Len(c.recv_buf) - length /\ Follows(s, c.taken + length)
  BY <1>1, <1>4, FollowsLess
<1>6. c.taken + length \in Nat /\ c.rcv_wnd + length \in Int
  BY <1>4
<1>7. /\ e \in ConnType /\ e.send_buf = c.send_buf /\ e.snd_una = c.snd_una
      /\ e.accepted = c.accepted /\ e.peak = c.peak /\ e.recv_buf = s
      /\ e.taken = c.taken + length /\ e.rcv_wnd = c.rcv_wnd + length
      /\ e.rcv_nxt = c.rcv_nxt /\ e.state = c.state
  BY <1>2, <1>3, <1>5, <1>6 DEF ConnType
<1>8. SendOK(e)
  BY <1>3, <1>7 DEF SendOK
<1>9. e.taken + Len(e.recv_buf) = c.taken + Len(c.recv_buf)
  BY <1>4, <1>5, <1>7
<1>10. RecvOK(e)
  <2>1. c.state = "ESTABLISHED" =>
           c.rcv_nxt = (PEER_SEQ + (c.taken + Len(c.recv_buf))) % WORD
    BY <1>3 DEF RecvOK
  <2>2. c.taken + Len(c.recv_buf) <= STREAM /\ c.rcv_wnd = WINDOW - Len(c.recv_buf)
    BY <1>3 DEF RecvOK
  <2>3. e.rcv_wnd = WINDOW - Len(e.recv_buf)
    BY <1>4, <1>5, <1>7, <2>2, TcpNumbers
  <2> QED
    BY <1>4, <1>5, <1>7, <1>9, <2>1, <2>2, <2>3 DEF RecvOK
<1>11. e = [c EXCEPT !.recv_buf = SubSeq(@, length + 1, Len(@)),
                     !.rcv_wnd = @ + length,
                     !.taken = @ + length]
  BY <1>1, <1>2
<1> QED
  BY <1>7, <1>8, <1>10, <1>11 DEF Connections

\* The highest of two acknowledgments.
Higher(ack, peak) == IF ack > peak THEN ack ELSE peak

\* An acknowledgment moves the send buffer to the highest one that came: a late
\* one differs by more than the buffer holds.
LEMMA AckKeepsSending ==
  ASSUME NEW c \in Connections, NEW ack \in Nat, ack <= c.accepted, NEW a,
         a = ProcessAck(c, (INITIAL_SEQ + ack) % WORD)
  PROVE  /\ a \in ConnType
         /\ Follows(a.send_buf, Higher(ack, c.peak))
         /\ Higher(ack, c.peak) + Len(a.send_buf) = c.accepted
         /\ a.snd_una = (INITIAL_SEQ + Higher(ack, c.peak)) % WORD
         /\ a.accepted = c.accepted /\ a.peak = c.peak /\ a.state = c.state
         /\ a.recv_buf = c.recv_buf /\ a.taken = c.taken
         /\ a.rcv_wnd = c.rcv_wnd /\ a.rcv_nxt = c.rcv_nxt
<1>0. c \in ConnType /\ SendOK(c) /\ RecvOK(c)
  BY DEF Connections
<1>1. /\ c.send_buf \in Seq(Nat) /\ c.peak \in Nat /\ c.accepted \in Nat
      /\ Len(c.send_buf) \in Nat /\ Follows(c.send_buf, c.peak)
      /\ c.peak + Len(c.send_buf) = c.accepted /\ c.accepted <= STREAM
  BY <1>0, LenProperties DEF ConnType, SendOK
<1>9. c.snd_una = (INITIAL_SEQ + c.peak) % WORD
  BY <1>0 DEF SendOK
<1>2. PICK num : num = (INITIAL_SEQ + ack) % WORD
  OBVIOUS
<1>3. ack \in 0 .. STREAM /\ c.peak \in 0 .. STREAM
  BY <1>1, TcpNumbers
<1>4. PICK n : n = Acked(c, num)
  OBVIOUS
<1>5. n = IF ack >= c.peak THEN ack - c.peak ELSE WORD + ack - c.peak
  <2>1. PICK p \in 0 .. STREAM : p = c.peak
    BY <1>3
  <2>2. INITIAL_SEQ \in 0 .. (WORD - 1)
    BY TcpNumbers
  <2>3. (Number(INITIAL_SEQ, ack) - Number(INITIAL_SEQ, p)) % WORD
           = IF ack >= p THEN ack - p ELSE WORD + ack - p
    BY <1>3, <2>2, Numbers
  <2> QED
    BY <1>2, <1>4, <1>9, <2>1, <2>3 DEF Acked, Number
<1>6. num \in Nat
  <2>1. Number(INITIAL_SEQ, ack) \in 0 .. (WORD - 1)
    BY <1>3, TcpNumbers, Numbers
  <2> QED
    BY <1>2, <2>1 DEF Number
<1>7. CASE ack > c.peak
  <2>1. n = ack - c.peak /\ n > 0 /\ n <= Len(c.send_buf) /\ n \in 0 .. Len(c.send_buf)
        /\ c.peak + n = ack /\ Higher(ack, c.peak) = ack
    BY <1>1, <1>5, <1>7 DEF Higher
  <2>2. PICK s : s = SubSeq(c.send_buf, n + 1, Len(c.send_buf))
    OBVIOUS
  <2>3. s \in Seq(Nat) /\ Len(s) = Len(c.send_buf) - n /\ Follows(s, c.peak + n)
    BY <1>1, <2>1, <2>2, FollowsLess
  <2>4. a = [c EXCEPT !.send_buf = s, !.snd_una = num]
    BY <1>2, <1>4, <2>1, <2>2 DEF ProcessAck
  <2>5. /\ a \in ConnType /\ a.send_buf = s /\ a.snd_una = num
        /\ a.accepted = c.accepted /\ a.peak = c.peak /\ a.state = c.state
        /\ a.recv_buf = c.recv_buf /\ a.taken = c.taken
        /\ a.rcv_wnd = c.rcv_wnd /\ a.rcv_nxt = c.rcv_nxt
    BY <1>0, <1>6, <2>3, <2>4 DEF ConnType
  <2>6. ack + Len(s) = c.accepted
    <3>1. PICK p, m : p = c.peak /\ m = Len(c.send_buf)
      OBVIOUS
    <3>2. p \in Nat /\ m \in Nat /\ p + m = c.accepted /\ n = ack - p /\ Len(s) = m - n
      BY <1>1, <2>1, <2>3, <3>1
    <3> QED
      BY <3>2
  <2> QED
    BY <1>2, <2>1, <2>3, <2>5, <2>6
<1>8. CASE ~(ack > c.peak)
  <2>1. n = 0 \/ ~(n <= Len(c.send_buf))
    BY <1>1, <1>5, <1>8, TcpNumbers
  <2>2. a = c
    BY <1>2, <1>4, <2>1 DEF ProcessAck
  <2>3. Higher(ack, c.peak) = c.peak
    BY <1>8 DEF Higher
  <2> QED
    BY <1>0, <1>1, <1>9, <2>2, <2>3
<1> QED
  BY <1>7, <1>8

\* A segment is taken when it begins with the byte that comes next, and then
\* whole; late and early ones have other numbers.
LEMMA DataKeepsReceiving ==
  ASSUME NEW c \in ConnType, RecvOK(c), c.state = "ESTABLISHED",
         NEW k \in 1 .. STREAM, NEW n \in 0 .. (STREAM + 1 - k), NEW a,
         a = ProcessData(c, (PEER_SEQ + k - 1) % WORD, [b \in 1 .. n |-> k + b - 1])
  PROVE  /\ a \in ConnType /\ RecvOK(a) /\ a.state = c.state
         /\ a.send_buf = c.send_buf /\ a.snd_una = c.snd_una
         /\ a.accepted = c.accepted /\ a.peak = c.peak
<1>0. /\ c.recv_buf \in Seq(Nat) /\ c.taken \in Nat /\ Len(c.recv_buf) \in Nat
      /\ Follows(c.recv_buf, c.taken) /\ c.rcv_wnd \in Int
      /\ c.taken + Len(c.recv_buf) <= STREAM
      /\ c.rcv_wnd = WINDOW - Len(c.recv_buf)
  BY LenProperties DEF ConnType, RecvOK
<1>1. PICK got : got = c.taken + Len(c.recv_buf)
  OBVIOUS
<1>2. got \in 0 .. STREAM /\ k - 1 \in 0 .. STREAM /\ n \in Nat
  BY <1>0, <1>1, TcpNumbers
<1>3. c.rcv_nxt = Number(PEER_SEQ, got)
  BY <1>1 DEF RecvOK, Number
<1>4. PICK d : d = [b \in 1 .. n |-> k + b - 1]
  OBVIOUS
<1>5. PICK seq : seq = Number(PEER_SEQ, k - 1)
  OBVIOUS
<1>6. a = ProcessData(c, seq, d)
  <2>1. PEER_SEQ + k - 1 = PEER_SEQ + (k - 1)
    BY TcpNumbers
  <2> QED
    BY <1>4, <1>5, <2>1 DEF Number
<1>7. CASE seq = c.rcv_nxt /\ Len(c.recv_buf) + Len(d) <= WINDOW
  <2>1. k - 1 = got
    <3>1. PICK j \in 0 .. STREAM : j = k - 1
      BY <1>2
    <3>2. Number(PEER_SEQ, j) = Number(PEER_SEQ, got)
      BY <1>3, <1>5, <1>7, <3>1
    <3> QED
      BY <1>2, <3>1, <3>2, TcpNumbers, Numbers
  <2>2. PICK q, t : q = c.recv_buf /\ t = c.taken
    OBVIOUS
  <2>3. Extends(q, t, n, d)
    <3>1. \A b \in 1 .. n : k + b - 1 = t + Len(q) + b
      BY <1>0, <1>1, <2>1, <2>2
    <3>2. d = [b \in 1 .. n |-> t + Len(q) + b]
      BY <1>4, <3>1
    <3> QED
      BY <1>0, <1>2, <2>2, <3>2 DEF Extends
  <2>4. PICK s : s = q \o d
    OBVIOUS
  <2>5. s \in Seq(Nat) /\ Len(s) = Len(q) + n /\ Follows(s, t)
    BY <2>3, <2>4, FollowsMore
  <2>6. Len(d) = n
    BY <1>2, <1>4
  <2>7. PICK new : new = (c.rcv_nxt + n) % WORD
    OBVIOUS
  <2>8. PICK wnd : wnd = c.rcv_wnd - n
    OBVIOUS
  <2>9. a = [c EXCEPT !.recv_buf = s, !.rcv_nxt = new, !.rcv_wnd = wnd]
    BY <1>6, <1>7, <2>2, <2>4, <2>6, <2>7, <2>8 DEF ProcessData
  <2>10. got + n \in 0 .. STREAM /\ wnd \in Int /\ wnd = WINDOW - (Len(q) + n)
         /\ t + (Len(q) + n) = got + n
    <3>1. PICK m : m = Len(q)
      OBVIOUS
    <3>2. m \in Nat /\ t \in Nat /\ got = t + m /\ c.rcv_wnd = WINDOW - m
      BY <1>0, <1>1, <2>2, <3>1
    <3>3. wnd \in Int /\ wnd = WINDOW - (m + n) /\ t + (m + n) = got + n
      BY <1>2, <2>8, <3>2, TcpNumbers
    <3>4. got + n \in 0 .. STREAM
      BY <1>2, <2>1, TcpNumbers
    <3> QED
      BY <3>1, <3>3, <3>4
  <2>11. new = Number(PEER_SEQ, got + n) /\ new \in Nat
    <3>1. PICK h \in 0 .. STREAM : h = got + n
      BY <2>10
    <3>2. n \in 0 .. STREAM
      BY <1>2, TcpNumbers
    <3>3. (Number(PEER_SEQ, got) + n) % WORD = Number(PEER_SEQ, h)
      BY <1>2, <3>1, <3>2, TcpNumbers, NumberPlus
    <3>4. Number(PEER_SEQ, h) \in Nat
      <4>1. Number(PEER_SEQ, h) \in 0 .. (WORD - 1)
        BY <3>1, TcpNumbers, Numbers
      <4> QED
        BY <4>1
    <3> QED
      BY <1>3, <2>7, <3>1, <3>3, <3>4
  <2>12. /\ a \in ConnType /\ a.recv_buf = s /\ a.rcv_nxt = new /\ a.rcv_wnd = wnd
         /\ a.state = c.state /\ a.taken = c.taken
         /\ a.send_buf = c.send_buf /\ a.snd_una = c.snd_una
         /\ a.accepted = c.accepted /\ a.peak = c.peak
    BY <2>5, <2>9, <2>10, <2>11 DEF ConnType
  <2>13. a.taken + Len(a.recv_buf) = got + n
    BY <2>2, <2>5, <2>10, <2>12
  <2>14. a.rcv_nxt = (PEER_SEQ + (a.taken + Len(a.recv_buf))) % WORD
    BY <2>11, <2>12, <2>13 DEF Number
  <2>15. a.taken + Len(a.recv_buf) <= STREAM
    BY <2>10, <2>13
  <2>16. RecvOK(a)
    BY <2>2, <2>5, <2>10, <2>12, <2>14, <2>15 DEF RecvOK
  <2> QED
    BY <2>12, <2>16
<1>8. CASE ~(seq = c.rcv_nxt /\ Len(c.recv_buf) + Len(d) <= WINDOW)
  <2>1. a = c
    BY <1>6, <1>8 DEF ProcessData
  <2> QED
    BY <2>1
<1> QED
  BY <1>7, <1>8

\* tcp_receive_packet on the connection it found.
LEMMA SegmentKeepsConnection ==
  ASSUME NEW c \in Connections, c.state = "ESTABLISHED",
         NEW ack \in Nat, ack <= c.accepted,
         NEW k \in 1 .. STREAM, NEW n \in 0 .. (STREAM + 1 - k)
  PROVE  [ProcessData(ProcessAck(c, (INITIAL_SEQ + ack) % WORD),
                      (PEER_SEQ + k - 1) % WORD, [b \in 1 .. n |-> k + b - 1])
            EXCEPT !.peak = IF ack > @ THEN ack ELSE @] \in Connections
<1>0. c \in ConnType /\ SendOK(c) /\ RecvOK(c)
  BY DEF Connections
<1>1. PICK a : a = ProcessAck(c, (INITIAL_SEQ + ack) % WORD)
  OBVIOUS
<1>2. PICK d : d = ProcessData(a, (PEER_SEQ + k - 1) % WORD, [b \in 1 .. n |-> k + b - 1])
  OBVIOUS
<1>3. PICK high : high = Higher(ack, c.peak)
  OBVIOUS
<1>4. /\ a \in ConnType
      /\ Follows(a.send_buf, high)
      /\ high + Len(a.send_buf) = c.accepted
      /\ a.snd_una = (INITIAL_SEQ + high) % WORD
      /\ a.accepted = c.accepted /\ a.peak = c.peak /\ a.state = c.state
      /\ a.recv_buf = c.recv_buf /\ a.taken = c.taken
      /\ a.rcv_wnd = c.rcv_wnd /\ a.rcv_nxt = c.rcv_nxt
  BY <1>1, <1>3, AckKeepsSending
<1>5. RecvOK(a) /\ a.state = "ESTABLISHED"
  BY <1>0, <1>4 DEF RecvOK
<1>6. /\ d \in ConnType /\ RecvOK(d) /\ d.state = a.state
      /\ d.send_buf = a.send_buf /\ d.snd_una = a.snd_una
      /\ d.accepted = a.accepted /\ d.peak = a.peak
  BY <1>2, <1>4, <1>5, DataKeepsReceiving
<1>7. PICK e : e = [d EXCEPT !.peak = high]
  OBVIOUS
<1>8. high \in Nat
  BY <1>0, <1>3 DEF Higher, ConnType
<1>9. /\ e \in ConnType /\ e.peak = high /\ e.send_buf = d.send_buf
      /\ e.snd_una = d.snd_una /\ e.accepted = d.accepted /\ e.state = d.state
      /\ e.recv_buf = d.recv_buf /\ e.taken = d.taken
      /\ e.rcv_wnd = d.rcv_wnd /\ e.rcv_nxt = d.rcv_nxt
  BY <1>6, <1>7, <1>8 DEF ConnType
<1>10. RecvOK(e)
  BY <1>6, <1>9 DEF RecvOK
<1>11. SendOK(e)
  BY <1>0, <1>4, <1>6, <1>9 DEF SendOK
<1>12. e = [d EXCEPT !.peak = IF ack > @ THEN ack ELSE @]
  BY <1>3, <1>4, <1>6, <1>7 DEF Higher
<1> QED
  BY <1>1, <1>2, <1>9, <1>10, <1>11, <1>12 DEF Connections

-----------------------------------------------------------------------------
(* The list of connections.                                                *)

TcpInv ==
    /\ tcp_connections \in Seq(Connections)
    /\ tcp_count = Len(tcp_connections)

\* Changing one connection for another that is sound keeps the list.
LEMMA ReplaceConnection ==
  ASSUME TcpInv, NEW i \in DOMAIN tcp_connections, NEW e \in Connections,
         tcp_connections' = [tcp_connections EXCEPT ![i] = e], UNCHANGED tcp_count
  PROVE  TcpInv'
<1>1. i \in 1 .. Len(tcp_connections)
  BY LenProperties DEF TcpInv
<1>2. PICK l : l = tcp_connections
  OBVIOUS
<1>3. l \in Seq(Connections) /\ i \in 1 .. Len(l)
  BY <1>1, <1>2 DEF TcpInv
<1>4. [l EXCEPT ![i] = e] \in Seq(Connections) /\ Len([l EXCEPT ![i] = e]) = Len(l)
  BY <1>3, ExceptSeq
<1> QED
  BY <1>2, <1>4 DEF TcpInv

\* A connection of the list is sound.
LEMMA Listed ==
  ASSUME TcpInv, NEW i \in DOMAIN tcp_connections
  PROVE  tcp_connections[i] \in Connections
  BY LenProperties, ElementOfSeq DEF TcpInv

\* Every operation keeps the list of sound connections.
LEMMA TcpStep ==
  ASSUME TcpInv, [TcpNext]_tcpVars
  PROVE  TcpInv'
<1>0. tcp_connections \in Seq(Connections) /\ Len(tcp_connections) \in Nat
      /\ tcp_count = Len(tcp_connections)
      /\ DOMAIN tcp_connections = 1 .. Len(tcp_connections)
  BY LenProperties DEF TcpInv
<1>1. ASSUME NEW peer \in Peers, tcp_create_connection(peer) PROVE TcpInv'
  <2>1. PICK c \in Connections : c = NewConnection(peer)
    BY NewConnectionOK
  <2>2. <<c>> \in Seq(Connections) /\ Len(<<c>>) = 1
    OBVIOUS
  <2>3. /\ <<c>> \o tcp_connections \in Seq(Connections)
        /\ Len(<<c>> \o tcp_connections) = 1 + Len(tcp_connections)
    BY <1>0, <2>2, ConcatProperties
  <2> QED
    BY <1>0, <1>1, <2>1, <2>3 DEF tcp_create_connection, TcpInv
<1>2. ASSUME NEW i \in DOMAIN tcp_connections, tcp_close_connection(i) PROVE TcpInv'
  <2>1. PICK l : l = tcp_connections
    OBVIOUS
  <2>2. l \in Seq(Connections) /\ Len(l) \in Nat /\ i \in 1 .. Len(l)
        /\ \A j \in 1 .. Len(l) : l[j] \in Connections
    BY <1>0, <2>1, ElementOfSeq
  <2>3. PICK p, q : p = SubSeq(l, 1, i - 1) /\ q = SubSeq(l, i + 1, Len(l))
    OBVIOUS
  <2>4. p \in Seq(Connections) /\ Len(p) = i - 1
    BY <2>2, <2>3, SubSeqProperties
  <2>5. q \in Seq(Connections) /\ Len(q) = Len(l) - i
    BY <2>2, <2>3, SubSeqProperties
  <2>6. p \o q \in Seq(Connections) /\ Len(p \o q) = Len(l) - 1
    BY <2>2, <2>4, <2>5, ConcatProperties
  <2> QED
    BY <1>0, <1>2, <2>1, <2>3, <2>6 DEF tcp_close_connection, RemoveAt, TcpInv
<1>3. CASE tcp_cleanup
  BY <1>0, <1>3, EmptySeq DEF tcp_cleanup, TcpInv
<1>4. ASSUME NEW i \in DOMAIN tcp_connections, Establish(i) PROVE TcpInv'
  <2>1. PICK c \in Connections : c = tcp_connections[i]
    BY Listed
  <2>2. PICK e : e = [c EXCEPT !.state = "ESTABLISHED", !.rcv_nxt = PEER_SEQ]
    OBVIOUS
  <2>3. e \in Connections
    BY <1>4, <2>1, <2>2, EstablishOK DEF Establish, Established
  <2>4. tcp_connections' = [tcp_connections EXCEPT ![i] = e] /\ UNCHANGED tcp_count
    BY <1>4, <2>1, <2>2 DEF Establish
  <2> QED
    BY <2>3, <2>4, ReplaceConnection
<1>5. ASSUME NEW i \in DOMAIN tcp_connections, NEW n \in 1 .. WINDOW, tcp_send(i, n)
      PROVE  TcpInv'
  <2>1. PICK c \in Connections : c = tcp_connections[i]
    BY Listed
  <2>2. PICK e : e = [c EXCEPT !.send_buf = @ \o [b \in 1 .. n |-> c.accepted + b],
                               !.accepted = @ + n]
    OBVIOUS
  <2>3. n \in Nat /\ c.accepted + n <= STREAM
    <3>1. n \in Nat
      BY TcpNumbers
    <3> QED
      BY <1>5, <2>1, <3>1 DEF tcp_send
  <2>4. e \in Connections
    BY <2>2, <2>3, SendKeepsConnection
  <2>5. tcp_connections' = [tcp_connections EXCEPT ![i] = e] /\ UNCHANGED tcp_count
    BY <1>5, <2>1, <2>2 DEF tcp_send
  <2> QED
    BY <2>4, <2>5, ReplaceConnection
<1>6. ASSUME NEW i \in DOMAIN tcp_connections, NEW n \in 1 .. WINDOW, tcp_receive(i, n)
      PROVE  TcpInv'
  <2>1. PICK c \in Connections : c = tcp_connections[i]
    BY Listed
  <2>2. PICK length : length = IF n < Len(c.recv_buf) THEN n ELSE Len(c.recv_buf)
    OBVIOUS
  <2>3. Len(c.recv_buf) \in Nat
    BY LenProperties DEF Connections, ConnType
  <2>4. length > 0
    BY <1>6, <2>1, <2>2 DEF tcp_receive
  <2>5. length \in 1 .. Len(c.recv_buf)
    BY <2>2, <2>3, <2>4, TcpNumbers
  <2>6. PICK e : e = [c EXCEPT !.recv_buf = SubSeq(@, length + 1, Len(@)),
                               !.rcv_wnd = @ + length, !.taken = @ + length]
    OBVIOUS
  <2>7. e \in Connections
    BY <2>5, <2>6, ReceiveKeepsConnection
  <2>8. tcp_connections' = [tcp_connections EXCEPT ![i] = e] /\ UNCHANGED tcp_count
    BY <1>6, <2>1, <2>2, <2>6 DEF tcp_receive
  <2> QED
    BY <2>7, <2>8, ReplaceConnection
<1>7. ASSUME NEW peer \in Peers, NEW k \in 1 .. STREAM, NEW ack \in 0 .. STREAM,
             NEW n \in 0 .. (STREAM + 1 - k), tcp_receive_packet(peer, k, n, ack)
      PROVE  TcpInv'
  <2>1. PICK i : i = Matching(peer)
    OBVIOUS
  <2>2. i \in DOMAIN tcp_connections
    <3> DEFINE T == {j \in 1 .. Len(tcp_connections) : tcp_connections[j].peer = peer}
    <3>1. T \subseteq Nat /\ T # {}
      BY <1>0, <1>7 DEF tcp_receive_packet
    <3>2. \E x \in T : \A y \in T : x <= y
      <4> HIDE DEF T
      <4> QED
        BY <3>1, LeastNumber
    <3>3. i = CHOOSE x \in T : \A y \in T : x <= y
      BY <1>0, <2>1 DEF Matching, Min
    <3>4. i \in T
      BY <3>2, <3>3
    <3> QED
      BY <1>0, <3>4
  <2>3. PICK c \in Connections : c = tcp_connections[i]
    BY <2>2, Listed
  <2>4. PICK e :
           e = [ProcessData(ProcessAck(c, (INITIAL_SEQ + ack) % WORD),
                            (PEER_SEQ + k - 1) % WORD, [b \in 1 .. n |-> k + b - 1])
                  EXCEPT !.peak = IF ack > @ THEN ack ELSE @]
    OBVIOUS
  <2>5. c.state = "ESTABLISHED" /\ ack \in Nat /\ ack <= c.accepted
    BY <1>7, <2>1, <2>3 DEF tcp_receive_packet, Established
  <2>6. e \in Connections
    BY <2>4, <2>5, SegmentKeepsConnection
  <2>7. tcp_connections' = [tcp_connections EXCEPT ![i] = e] /\ UNCHANGED tcp_count
    BY <1>7, <2>1, <2>3, <2>4 DEF tcp_receive_packet
  <2> QED
    BY <2>2, <2>6, <2>7, ReplaceConnection
<1>8. CASE UNCHANGED tcpVars
  BY <1>8 DEF tcpVars, TcpInv
<1> QED
  BY <1>1, <1>2, <1>3, <1>4, <1>5, <1>6, <1>7, <1>8 DEF TcpNext

\* The streams of every connection stay intact, across every wrap of the
\* sequence numbers and every order of segments and acknowledgments.
THEOREM TcpStreamsAreIntact == TcpSpec => []TcpStreamIntact
<1>1. TcpInit => TcpInv
  BY EmptySeq DEF TcpInit, TcpInv
<1>2. TcpInv /\ [TcpNext]_tcpVars => TcpInv'
  BY TcpStep
<1>3. TcpInv => TcpStreamIntact
  <2> SUFFICES ASSUME TcpInv, NEW i \in DOMAIN tcp_connections
               PROVE  LET conn == tcp_connections[i]
                          got  == conn.taken + Len(conn.recv_buf)
                      IN  /\ Follows(conn.recv_buf, conn.taken)
                          /\ Follows(conn.send_buf, conn.peak)
                          /\ conn.peak + Len(conn.send_buf) = conn.accepted
                          /\ conn.snd_una = (INITIAL_SEQ + conn.peak) % WORD
                          /\ conn.rcv_wnd = WINDOW - Len(conn.recv_buf)
                          /\ Established(i) => conn.rcv_nxt = (PEER_SEQ + got) % WORD
    BY DEF TcpInv, TcpStreamIntact
  <2>1. PICK c \in Connections : c = tcp_connections[i]
    BY Listed
  <2>2. SendOK(c) /\ RecvOK(c)
    BY DEF Connections
  <2> QED
    BY <2>1, <2>2 DEF SendOK, RecvOK, Established
<1> QED
  BY <1>1, <1>2, <1>3, PTL DEF TcpSpec
=============================================================================
