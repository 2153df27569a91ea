----------------------------- MODULE VmmProofs -----------------------------
(***************************************************************************)
(* TypeOK, TablesInUse, Isolated and TlbAgrees for every number of blocks  *)
(* and entries, every position of the kernel's slots and every list of     *)
(* pages that vmm_init maps.                                               *)
(*                                                                         *)
(* MemOK is what the memory manager keeps true of memory m, of the blocks  *)
(* u in use, of the live directories, of the owners of pages and of the    *)
(* exposed pages sh.  It takes them as parameters, so that a lemma can     *)
(* speak of what one write makes of them.                                  *)
(***************************************************************************)
EXTENDS Vmm, TLAPS

Row == [Index -> Entry \cup {Absent}]
Memory == [BLOCKS -> Row]

\* Entry i of block b becomes x; block b is cleared.
Put(m, b, i, x) == [m EXCEPT ![b] = [@ EXCEPT ![i] = x]]
Clear(m, b) == [m EXCEPT ![b] = Zeroes]

\* A new table t in slot i of directory d.
Enter(m, d, i, t) == [m EXCEPT ![t] = Zeroes, ![d] = [@ EXCEPT ![i] = Pointer(t)]]

\* Slot i of directory d names a table, and which.
Has(m, d, i) == Present(m[d][i])
TableOf(m, d, i) == m[d][i].frame

\* Directories are blocks in use, and tables are blocks in use that are nobody's
\* directory; neither is a page that somebody owns.
DirsOK(m, u, live, own) ==
    \A d \in live :
        /\ d \in u /\ own[d] = None
        /\ \A i \in Index : Has(m, d, i) =>
              TableOf(m, d, i) \in u /\ TableOf(m, d, i) \notin live
                 /\ own[TableOf(m, d, i)] = None

\* A table is in one slot of one directory, or in the same slot of kernel space
\* of several.
TablesApart(m, live) ==
    \A d, c \in live : \A i, k \in Index :
        Has(m, d, i) /\ Has(m, c, k) /\ TableOf(m, d, i) = TableOf(m, c, k) =>
            i = k /\ (d = c \/ i \in Kernel)

\* A page that somebody owns is in use.
OwnersOK(u, own) ==
    /\ own \in [BLOCKS -> BLOCKS \cup {None}]
    /\ \A b \in BLOCKS : own[b] # None => b \in u

\* A page of user space that is a block, and not exposed, is in use, and neither
\* a directory nor a table.
PagesOK(m, u, live, sh) ==
    \A d \in live : \A i \in User : Has(m, d, i) =>
        \A j \in Index :
            LET f == m[TableOf(m, d, i)][j].frame
            IN  f \in BLOCKS \ sh =>
                   /\ f \in u /\ f \notin live
                   /\ \A c \in live : \A k \in Index :
                         Has(m, c, k) => TableOf(m, c, k) # f

\* A page of user space that may be written, and is not exposed, is in one entry
\* alone.
WritableApart(m, live, sh) ==
    \A d, c \in live : \A i, k \in User : \A j, l \in Index :
        /\ Has(m, d, i) /\ Has(m, c, k)
        /\ m[TableOf(m, d, i)][j].writable
        /\ m[TableOf(m, d, i)][j].frame \in BLOCKS \ sh
        /\ m[TableOf(m, d, i)][j].frame = m[TableOf(m, c, k)][l].frame
        => d = c /\ i = k /\ j = l

MemOK(m, u, live, own, sh) ==
    /\ m \in Memory /\ u \subseteq BLOCKS /\ live \subseteq BLOCKS
    /\ DirsOK(m, u, live, own)
    /\ TablesApart(m, live)
    /\ OwnersOK(u, own)
    /\ PagesOK(m, u, live, sh)
    /\ WritableApart(m, live, sh)

\* Nobody runs before vmm_init has returned.
BootOK ==
    /\ boot # Done =>
          /\ clone = [d \in BLOCKS |-> NoClone] /\ current_directory = None
    /\ boot = 0 => dirs = {}
    /\ boot \in 1 .. (Done - 1) => kernel_directory \in dirs

\* A copy is nobody's directory yet and no other copy, and empty behind the slot
\* under way; in that slot it has a table only in user space and when the source
\* has one.
CopyOK(s, x) ==
    x # NoClone =>
        /\ s \in dirs /\ x.dest \in BLOCKS \ dirs
        /\ \A r \in BLOCKS : clone[r].dest = x.dest => r = s
        /\ \A k \in Index : k > x.i => mem[x.dest][k] = Absent
        /\ \A k \in Index : k = x.i /\ Has(mem, x.dest, k) =>
              k \in User /\ Has(mem, s, k)

CloneOK == \A s \in BLOCKS : CopyOK(s, clone[s])

VmmInv ==
    /\ TypeOK
    /\ ~exited =>
          /\ BootOK
          /\ CloneOK
          /\ MemOK(mem, used, Live, owner, exposed)
          /\ TlbAgrees

-----------------------------------------------------------------------------
(* What one write makes of memory.                                         *)

\* An empty entry names no block.
LEMMA AbsentNamesNothing ==
  Absent.frame = None /\ Absent.frame \notin BLOCKS /\ ~Absent.writable
  BY VmmAssumption DEF Absent

\* A block that vmm_get_page_table or vmm_clone_directory enters is a table.
LEMMA PointerNames ==
  ASSUME NEW t \in BLOCKS
  PROVE  /\ Pointer(t) \in Entry /\ Pointer(t).frame = t
         /\ Present(Pointer(t))
  BY VmmAssumption DEF Pointer, Entry, Present, Absent

\* What a write to one entry of a block makes of memory.
LEMMA WriteCell ==
  ASSUME NEW m \in Memory, NEW b \in BLOCKS, NEW i \in Index,
         NEW x \in Entry \cup {Absent},
         NEW n, n = Put(m, b, i, x)
  PROVE  /\ n \in Memory /\ n[b][i] = x
         /\ \A k \in Index \ {i} : n[b][k] = m[b][k]
         /\ \A c \in BLOCKS \ {b} : n[c] = m[c]
  <1>1. m[b] \in Row
    BY DEF Memory
  <1>2. PICK row \in Row : row = m[b]
    BY <1>1
  <1>3. PICK r : r = [row EXCEPT ![i] = x]
    OBVIOUS
  <1>4. r \in Row /\ r[i] = x /\ \A k \in Index \ {i} : r[k] = row[k]
    BY <1>2, <1>3 DEF Row
  <1>5. n = [m EXCEPT ![b] = r]
    BY <1>2, <1>3, Zenon DEF Put
  <1>6. n \in Memory /\ n[b] = r /\ \A c \in BLOCKS \ {b} : n[c] = m[c]
    BY <1>4, <1>5 DEF Memory
  <1> QED BY <1>2, <1>4, <1>6

\* What clearing a block makes of memory.
LEMMA ClearBlock ==
  ASSUME NEW m \in Memory, NEW b \in BLOCKS,
         NEW n, n = Clear(m, b)
  PROVE  /\ n \in Memory /\ \A k \in Index : n[b][k] = Absent
         /\ \A c \in BLOCKS \ {b} : n[c] = m[c]
  <1>1. Zeroes \in Row /\ \A j \in Index : Zeroes[j] = Absent
    BY DEF Zeroes, Row
  <1>2. n \in Memory /\ n[b] = Zeroes /\ \A c \in BLOCKS \ {b} : n[c] = m[c]
    BY <1>1 DEF Memory, Clear
  <1> QED BY <1>1, <1>2

\* An entry that a directory has is a table in use.
LEMMA TableInUse ==
  ASSUME NEW m, NEW u, NEW live, NEW own, NEW sh, MemOK(m, u, live, own, sh),
         NEW d \in live, NEW i \in Index, Has(m, d, i)
  PROVE  /\ TableOf(m, d, i) \in u /\ TableOf(m, d, i) \in BLOCKS
         /\ TableOf(m, d, i) \notin live
  BY DEF MemOK, DirsOK

\* vmm_get_page_table enters a new table t in slot i of directory d.
LEMMA NewTableOK ==
  ASSUME NEW m, NEW u, NEW live, NEW own, NEW sh, MemOK(m, u, live, own, sh),
         NEW d \in live, NEW i \in Index, ~Has(m, d, i),
         NEW t \in BLOCKS \ u,
         NEW n, n = Enter(m, d, i, t)
  PROVE  /\ MemOK(n, u \cup {t}, live, own, sh)
         /\ Has(n, d, i) /\ TableOf(n, d, i) = t
         /\ \A j \in Index : n[t][j] = Absent
         /\ \A b \in BLOCKS \ {t, d} : n[b] = m[b]
         /\ \A k \in Index \ {i} : n[d][k] = m[d][k]
  <1>1. /\ m \in Memory /\ u \subseteq BLOCKS /\ live \subseteq BLOCKS
        /\ live \subseteq u /\ t \notin live /\ t # d /\ d \in BLOCKS
    BY DEF MemOK, DirsOK
  <1>2. /\ m[d] \in Row
        /\ DOMAIN m = BLOCKS /\ DOMAIN m[d] = Index
    BY <1>1 DEF Memory, Row
  <1>z. Zeroes \in Row /\ \A j \in Index : Zeroes[j] = Absent
    BY DEF Zeroes, Row
  <1>3. /\ n[t] = Zeroes /\ n[d] = [m[d] EXCEPT ![i] = Pointer(t)]
        /\ \A b \in BLOCKS \ {t, d} : n[b] = m[b]
    BY <1>1, <1>2 DEF Memory, Enter
  <1>4. /\ n[d][i] = Pointer(t) /\ \A k \in Index \ {i} : n[d][k] = m[d][k]
        /\ n[d] \in Row
    <2>1. Pointer(t) \in Entry \cup {Absent}
      BY PointerNames
    <2>2. PICK row \in Row : row = m[d]
      BY <1>2
    <2>3. PICK r : r = [row EXCEPT ![i] = Pointer(t)]
      OBVIOUS
    <2>4. n[d] = r
      BY <1>3, <2>2, <2>3, Zenon
    <2>5. r \in Row /\ r[i] = Pointer(t) /\ \A k \in Index \ {i} : r[k] = row[k]
      <3> QED BY <2>1, <2>2, <2>3 DEF Row
    <2> QED BY <2>2, <2>4, <2>5, Zenon
  <1>5. n \in Memory
    <2>1. n = [b \in BLOCKS |-> n[b]]
      BY <1>1, <1>2 DEF Memory, Enter
    <2>2. \A b \in BLOCKS : n[b] \in Row
      BY <1>1, <1>3, <1>4, <1>z DEF Memory
    <2> HIDE DEF Memory
    <2> QED BY <2>1, <2>2 DEF Memory
  <1>6. Has(n, d, i) /\ TableOf(n, d, i) = t
    BY <1>4, PointerNames DEF Has, TableOf
  <1>7. ASSUME NEW c \in live, NEW k \in Index, Has(n, c, k),
               ~(c = d /\ k = i)
        PROVE  /\ Has(m, c, k) /\ TableOf(n, c, k) = TableOf(m, c, k)
               /\ n[TableOf(m, c, k)] = m[TableOf(m, c, k)]
               /\ TableOf(m, c, k) # t
    <2>1. n[c][k] = m[c][k]
      BY <1>1, <1>3, <1>4, <1>7
    <2>2. Has(m, c, k) /\ TableOf(n, c, k) = TableOf(m, c, k)
      BY <1>7, <2>1 DEF Has, TableOf
    <2>3. TableOf(m, c, k) \in u /\ TableOf(m, c, k) \in BLOCKS
          /\ TableOf(m, c, k) \notin live
      BY <2>2, TableInUse
    <2> QED BY <1>1, <1>3, <2>2, <2>3
  <1>8. \A j \in Index : n[t][j] = Absent
    BY <1>3, <1>z
  <1> HIDE DEF Has, TableOf
  <1>9. DirsOK(n, u \cup {t}, live, own)
    <2> SUFFICES ASSUME NEW c \in live
                 PROVE  /\ c \in u \cup {t} /\ own[c] = None
                        /\ \A k \in Index : Has(n, c, k) =>
                              TableOf(n, c, k) \in u \cup {t}
                                /\ TableOf(n, c, k) \notin live
                                /\ own[TableOf(n, c, k)] = None
      BY DEF DirsOK
    <2>0. own[t] = None
      BY DEF MemOK, OwnersOK
    <2>1. c \in u \cup {t} /\ own[c] = None
      BY DEF MemOK, DirsOK
    <2>2. ASSUME NEW k \in Index, Has(n, c, k)
          PROVE  /\ TableOf(n, c, k) \in u \cup {t}
                 /\ TableOf(n, c, k) \notin live /\ own[TableOf(n, c, k)] = None
      BY <2>0, <1>1, <1>6, <1>7, <2>2 DEF MemOK, DirsOK
    <2> QED BY <2>1, <2>2
  <1>10. TablesApart(n, live)
    <2> SUFFICES ASSUME NEW c \in live, NEW b \in live,
                        NEW k \in Index, NEW l \in Index,
                        Has(n, c, k), Has(n, b, l),
                        TableOf(n, c, k) = TableOf(n, b, l)
                 PROVE  k = l /\ (c = b \/ k \in Kernel)
      BY DEF TablesApart
    <2>1. CASE c = d /\ k = i
      BY <1>6, <1>7, <2>1
    <2>2. CASE b = d /\ l = i
      BY <1>6, <1>7, <2>2
    <2>3. CASE ~(c = d /\ k = i) /\ ~(b = d /\ l = i)
      <3>1. /\ Has(m, c, k) /\ TableOf(n, c, k) = TableOf(m, c, k)
            /\ Has(m, b, l) /\ TableOf(n, b, l) = TableOf(m, b, l)
        BY <1>7, <2>3
      <3> QED BY <3>1 DEF MemOK, TablesApart
    <2> QED BY <2>1, <2>2, <2>3
  <1>11. PagesOK(n, u \cup {t}, live, sh)
    <2> SUFFICES ASSUME NEW c \in live, NEW k \in User, Has(n, c, k),
                        NEW j \in Index,
                        n[TableOf(n, c, k)][j].frame \in BLOCKS \ sh
                 PROVE  LET f == n[TableOf(n, c, k)][j].frame
                        IN  /\ f \in u \cup {t} /\ f \notin live
                            /\ \A b \in live : \A l \in Index :
                                  Has(n, b, l) => TableOf(n, b, l) # f
      BY DEF PagesOK
    <2>1. k \in Index
      BY DEF User
    <2>2. ~(c = d /\ k = i)
      BY <1>6, <1>8, AbsentNamesNothing
    <2>3. /\ Has(m, c, k)
          /\ n[TableOf(n, c, k)][j] = m[TableOf(m, c, k)][j]
      BY <1>7, <2>1, <2>2
    <2> DEFINE f == m[TableOf(m, c, k)][j].frame
    <2>4. /\ f \in u /\ f \notin live
          /\ \A b \in live : \A l \in Index :
                Has(m, b, l) => TableOf(m, b, l) # f
      BY <2>3 DEF MemOK, PagesOK
    <2> HIDE DEF f
    <2>5. \A b \in live : \A l \in Index : Has(n, b, l) => TableOf(n, b, l) # f
      BY <1>6, <1>7, <2>4
    <2> QED BY <2>3, <2>4, <2>5 DEF f
  <1>12. WritableApart(n, live, sh)
    <2> SUFFICES ASSUME NEW c \in live, NEW b \in live,
                        NEW k \in User, NEW l \in User,
                        NEW p \in Index, NEW q \in Index,
                        Has(n, c, k), Has(n, b, l),
                        n[TableOf(n, c, k)][p].writable,
                        n[TableOf(n, c, k)][p].frame \in BLOCKS \ sh,
                        n[TableOf(n, c, k)][p].frame
                           = n[TableOf(n, b, l)][q].frame
                 PROVE  c = b /\ k = l /\ p = q
      BY DEF WritableApart
    <2>1. k \in Index /\ l \in Index
      BY DEF User
    <2>2. ~(c = d /\ k = i) /\ ~(b = d /\ l = i)
      BY <1>6, <1>8, AbsentNamesNothing
    <2>3. /\ Has(m, c, k) /\ Has(m, b, l)
          /\ n[TableOf(n, c, k)][p] = m[TableOf(m, c, k)][p]
          /\ n[TableOf(n, b, l)][q] = m[TableOf(m, b, l)][q]
      BY <1>7, <2>1, <2>2
    <2> QED BY <2>3 DEF MemOK, WritableApart
  <1>13. OwnersOK(u \cup {t}, own)
    BY DEF MemOK, OwnersOK
  <1> QED BY <1>1, <1>3, <1>4, <1>5, <1>6, <1>8, <1>9, <1>10, <1>11, <1>12, <1>13 DEF MemOK

\* The page that entry e names may be in entry j of user slot i of directory d:
\* it is exposed, or it is in use for no other purpose, and shared only if nobody
\* may write it.
MayHold(m, u, live, sh, d, i, j, e) ==
    e.frame \in BLOCKS \ sh =>
        /\ e.frame \in u /\ e.frame \notin live
        /\ \A c \in live : \A k \in Index :
              Has(m, c, k) => TableOf(m, c, k) # e.frame
        /\ \A c \in live : \A k \in User : \A l \in Index :
              /\ Has(m, c, k)
              /\ m[TableOf(m, c, k)][l].frame = e.frame
              => /\ ~e.writable \/ (c = d /\ k = i /\ l = j)
                 /\ \/ ~m[TableOf(m, c, k)][l].writable
                    \/ c = d /\ k = i /\ l = j

\* An entry e is written to entry j of the table in slot i of directory d.
Writes(m, u, live, own, sh, d, i, j, e, n) ==
    /\ MemOK(m, u, live, own, sh)
    /\ d \in live /\ i \in Index /\ Has(m, d, i) /\ j \in Index
    /\ e \in Entry \cup {Absent}
    /\ i \in User => MayHold(m, u, live, sh, d, i, j, e)
    /\ n = Put(m, TableOf(m, d, i), j, e)

\* A write that stays in one entry of one table keeps the memory in shape.
LEMMA WriteOK ==
  ASSUME NEW m, NEW u, NEW live, NEW own, NEW sh, NEW d, NEW i, NEW j, NEW e,
         NEW n, Writes(m, u, live, own, sh, d, i, j, e, n)
  PROVE  /\ MemOK(n, u, live, own, sh)
         /\ \A c \in live : n[c] = m[c]
         /\ \A b \in BLOCKS \ {TableOf(m, d, i)} : n[b] = m[b]
         /\ \A l \in Index \ {j} :
               n[TableOf(m, d, i)][l] = m[TableOf(m, d, i)][l]
  <1> DEFINE T == TableOf(m, d, i)
  <1> USE DEF Writes
  <1>1. /\ m \in Memory /\ u \subseteq BLOCKS /\ live \subseteq BLOCKS
        /\ T \in BLOCKS /\ T \notin live
    BY TableInUse DEF MemOK
  <1> HIDE DEF T
  <1>2. n = Put(m, T, j, e)
    BY DEF T
  <1>3. /\ n \in Memory /\ n[T][j] = e
        /\ \A k \in Index \ {j} : n[T][k] = m[T][k]
        /\ \A c \in BLOCKS \ {T} : n[c] = m[c]
    BY <1>1, <1>2, WriteCell
  <1>4. \A c \in live : n[c] = m[c]
    BY <1>1, <1>3
  <1>5. ASSUME NEW c \in live, NEW k \in Index
        PROVE  (Has(n, c, k) <=> Has(m, c, k)) /\ TableOf(n, c, k) = TableOf(m, c, k)
    BY <1>4 DEF Has, TableOf
  <1> HIDE DEF Has, TableOf
  <1>6. ASSUME NEW c \in live, NEW k \in User, Has(m, c, k), NEW l \in Index
        PROVE  n[TableOf(n, c, k)][l] =
                  IF c = d /\ k = i /\ l = j THEN e ELSE m[TableOf(m, c, k)][l]
    <2>1. k \in Index
      BY DEF User
    <2>2. TableOf(m, c, k) \in BLOCKS /\ TableOf(n, c, k) = TableOf(m, c, k)
      BY <1>5, <1>6, <2>1, TableInUse
    <2>3. CASE TableOf(m, c, k) # T
      <3>1. ~(c = d /\ k = i)
        BY <2>3 DEF T
      <3> QED BY <1>3, <2>2, <2>3, <3>1
    <2>4. CASE TableOf(m, c, k) = T
      <3>1. c = d /\ k = i
        <4>1. k = i /\ (c = d \/ k \in Kernel)
          BY <1>6, <2>1, <2>4 DEF T, MemOK, TablesApart
        <4> QED BY <4>1 DEF Kernel
      <3> QED BY <1>3, <2>2, <2>4, <3>1
    <2> QED BY <2>3, <2>4
  <1>8. DirsOK(n, u, live, own)
    BY <1>5 DEF MemOK, DirsOK
  <1>9. TablesApart(n, live)
    BY <1>5 DEF MemOK, TablesApart
  <1>10. PagesOK(n, u, live, sh)
    <2> SUFFICES ASSUME NEW c \in live, NEW k \in User, Has(n, c, k),
                        NEW l \in Index
                 PROVE  LET f == n[TableOf(n, c, k)][l].frame
                        IN  f \in BLOCKS \ sh =>
                               /\ f \in u /\ f \notin live
                               /\ \A b \in live : \A q \in Index :
                                     Has(n, b, q) => TableOf(n, b, q) # f
      BY DEF PagesOK
    <2>1. k \in Index /\ Has(m, c, k)
      BY <1>5 DEF User
    <2>2. PICK x : x = n[TableOf(n, c, k)][l]
      OBVIOUS
    <2>3. x = IF c = d /\ k = i /\ l = j THEN e ELSE m[TableOf(m, c, k)][l]
      BY <1>6, <2>1, <2>2, Zenon
    <2>4. SUFFICES ASSUME x.frame \in BLOCKS \ sh
                   PROVE  /\ x.frame \in u /\ x.frame \notin live
                          /\ \A b \in live : \A q \in Index :
                                Has(m, b, q) => TableOf(m, b, q) # x.frame
      <3>1. \A b \in live : \A q \in Index :
               Has(n, b, q) => Has(m, b, q) /\ TableOf(n, b, q) = TableOf(m, b, q)
        BY <1>5
      <3>2. ASSUME x.frame \in BLOCKS \ sh
            PROVE  /\ x.frame \in u /\ x.frame \notin live
                   /\ \A b \in live : \A q \in Index :
                         Has(n, b, q) => TableOf(n, b, q) # x.frame
        BY <3>1, <3>2
      <3> QED BY <2>2, <3>2, Zenon
    <2>5. CASE c = d /\ k = i /\ l = j
      BY <2>3, <2>4, <2>5 DEF MayHold
    <2>6. CASE ~(c = d /\ k = i /\ l = j)
      <3>1. x = m[TableOf(m, c, k)][l]
        BY <2>3, <2>6
      <3>2. /\ x.frame \in u /\ x.frame \notin live
            /\ \A b \in live : \A q \in Index :
                  Has(m, b, q) => TableOf(m, b, q) # x.frame
        BY <2>1, <2>4, <3>1 DEF MemOK, PagesOK
      <3> QED BY <2>4, <3>2
    <2> QED BY <2>5, <2>6
  <1>11. WritableApart(n, live, sh)
    <2> SUFFICES ASSUME NEW c \in live, NEW b \in live,
                        NEW k \in User, NEW l \in User,
                        NEW p \in Index, NEW q \in Index,
                        Has(n, c, k), Has(n, b, l)
                 PROVE  /\ n[TableOf(n, c, k)][p].writable
                        /\ n[TableOf(n, c, k)][p].frame \in BLOCKS \ sh
                        /\ n[TableOf(n, c, k)][p].frame
                              = n[TableOf(n, b, l)][q].frame
                        => c = b /\ k = l /\ p = q
      BY DEF WritableApart
    <2>1. k \in Index /\ l \in Index /\ Has(m, c, k) /\ Has(m, b, l)
      BY <1>5 DEF User
    <2>2. PICK x : x = n[TableOf(n, c, k)][p]
      OBVIOUS
    <2>3. PICK y : y = n[TableOf(n, b, l)][q]
      OBVIOUS
    <2>4. x = IF c = d /\ k = i /\ p = j THEN e ELSE m[TableOf(m, c, k)][p]
      BY <1>6, <2>1, <2>2, Zenon
    <2>5. y = IF b = d /\ l = i /\ q = j THEN e ELSE m[TableOf(m, b, l)][q]
      BY <1>6, <2>1, <2>3, Zenon
    <2> SUFFICES ASSUME x.writable, x.frame \in BLOCKS \ sh, x.frame = y.frame
                 PROVE  c = b /\ k = l /\ p = q
      BY <2>2, <2>3
    <2>6. CASE c = d /\ k = i /\ p = j
      <3>1. x = e /\ i \in User
        BY <2>4, <2>6
      <3>2. CASE ~(b = d /\ l = i /\ q = j)
        <4>1. y = m[TableOf(m, b, l)][q]
          BY <2>5, <3>2
        <4>2. ~e.writable \/ (b = d /\ l = i /\ q = j)
          BY <2>1, <3>1, <4>1 DEF MayHold
        <4> QED BY <3>1, <3>2, <4>2
      <3> QED BY <2>6, <3>2
    <2>7. CASE ~(c = d /\ k = i /\ p = j)
      <3>1. x = m[TableOf(m, c, k)][p]
        BY <2>4, <2>7
      <3>2. CASE b = d /\ l = i /\ q = j
        <4>1. y = e /\ i \in User
          BY <2>5, <3>2
        <4>2. ~x.writable \/ (c = d /\ k = i /\ p = j)
          BY <2>1, <3>1, <4>1 DEF MayHold
        <4> QED BY <2>7, <4>2
      <3>3. CASE ~(b = d /\ l = i /\ q = j)
        <4>1. y = m[TableOf(m, b, l)][q]
          BY <2>5, <3>3
        <4> QED BY <2>1, <3>1, <4>1 DEF MemOK, WritableApart
      <3> QED BY <3>2, <3>3
    <2> QED BY <2>6, <2>7
  <1> QED BY <1>1, <1>3, <1>4, <1>8, <1>9, <1>10, <1>11 DEF MemOK, T

\* A directory without an entry is a good one.
LEMMA NewDirOK ==
  ASSUME NEW m, NEW u, NEW live, NEW own, NEW sh, MemOK(m, u, live, own, sh),
         NEW b \in BLOCKS \ u, NEW n, n = Clear(m, b)
  PROVE  /\ MemOK(n, u \cup {b}, live \cup {b}, own, sh)
         /\ \A k \in Index : n[b][k] = Absent
         /\ \A c \in BLOCKS \ {b} : n[c] = m[c]
  <1>1. /\ m \in Memory /\ u \subseteq BLOCKS /\ live \subseteq BLOCKS
        /\ live \subseteq u /\ b \notin live
    BY DEF MemOK, DirsOK
  <1>2. /\ n \in Memory /\ \A k \in Index : n[b][k] = Absent
        /\ \A c \in BLOCKS \ {b} : n[c] = m[c]
    BY <1>1, ClearBlock
  <1>3. ASSUME NEW c \in live \cup {b}, NEW k \in Index, Has(n, c, k)
        PROVE  /\ c \in live /\ Has(m, c, k) /\ TableOf(n, c, k) = TableOf(m, c, k)
               /\ n[TableOf(n, c, k)] = m[TableOf(m, c, k)]
               /\ TableOf(m, c, k) \in u /\ TableOf(m, c, k) \notin live
               /\ own[TableOf(m, c, k)] = None
    <2>1. c \in live
      BY <1>2, <1>3 DEF Has, Present
    <2>2. n[c] = m[c]
      BY <1>1, <1>2, <2>1
    <2>3. Has(m, c, k) /\ TableOf(n, c, k) = TableOf(m, c, k)
      BY <1>3, <2>2 DEF Has, TableOf
    <2>4. /\ TableOf(m, c, k) \in u /\ TableOf(m, c, k) \notin live
          /\ own[TableOf(m, c, k)] = None
      BY <2>1, <2>3 DEF MemOK, DirsOK
    <2>5. n[TableOf(m, c, k)] = m[TableOf(m, c, k)]
      BY <1>1, <1>2, <2>4
    <2> QED BY <2>1, <2>3, <2>4, <2>5
  <1> HIDE DEF Has, TableOf
  <1>4. DirsOK(n, u \cup {b}, live \cup {b}, own)
    <2>1. own[b] = None /\ \A c \in live : own[c] = None
      BY DEF MemOK, DirsOK, OwnersOK
    <2> QED BY <1>1, <1>3, <2>1 DEF DirsOK
  <1>5. TablesApart(n, live \cup {b})
    BY <1>3 DEF MemOK, TablesApart
  <1>6. PagesOK(n, u \cup {b}, live \cup {b}, sh)
    <2> SUFFICES ASSUME NEW c \in live \cup {b}, NEW k \in User, Has(n, c, k),
                        NEW l \in Index
                 PROVE  LET f == n[TableOf(n, c, k)][l].frame
                        IN  f \in BLOCKS \ sh =>
                               /\ f \in u \cup {b}
                               /\ f \notin live \cup {b}
                               /\ \A a \in live \cup {b} : \A q \in Index :
                                     Has(n, a, q) => TableOf(n, a, q) # f
      BY DEF PagesOK
    <2>1. k \in Index
      BY DEF User
    <2>2. PICK f : f = n[TableOf(n, c, k)][l].frame
      OBVIOUS
    <2>3. c \in live /\ Has(m, c, k) /\ f = m[TableOf(m, c, k)][l].frame
      BY <1>3, <2>1, <2>2
    <2>4. f \in BLOCKS \ sh =>
             /\ f \in u /\ f \notin live
             /\ \A a \in live : \A q \in Index : Has(m, a, q) => TableOf(m, a, q) # f
      BY <2>3 DEF MemOK, PagesOK
    <2>5. f \in BLOCKS \ sh => \A a \in live \cup {b} : \A q \in Index :
                             Has(n, a, q) => TableOf(n, a, q) # f
      BY <1>3, <2>4
    <2>6. f \in BLOCKS \ sh => f \in u \cup {b} /\ f \notin live \cup {b}
      BY <2>4
    <2> QED BY <2>2, <2>5, <2>6, Zenon
  <1>7. WritableApart(n, live \cup {b}, sh)
    <2>0. PICK all : all = live \cup {b}
      OBVIOUS
    <2> SUFFICES WritableApart(n, all, sh)
      BY <2>0
    <2> SUFFICES ASSUME NEW c \in all, NEW a \in all,
                        NEW k \in User, NEW l \in User,
                        NEW p \in Index, NEW q \in Index,
                        Has(n, c, k), Has(n, a, l)
                 PROVE  /\ n[TableOf(n, c, k)][p].writable
                        /\ n[TableOf(n, c, k)][p].frame \in BLOCKS \ sh
                        /\ n[TableOf(n, c, k)][p].frame
                              = n[TableOf(n, a, l)][q].frame
                        => c = a /\ k = l /\ p = q
      BY DEF WritableApart
    <2>1. k \in Index /\ l \in Index
      BY DEF User
    <2>2. /\ c \in live /\ Has(m, c, k)
          /\ n[TableOf(n, c, k)][p] = m[TableOf(m, c, k)][p]
      BY <1>3, <2>0, <2>1
    <2>3. /\ a \in live /\ Has(m, a, l)
          /\ n[TableOf(n, a, l)][q] = m[TableOf(m, a, l)][q]
      BY <1>3, <2>0, <2>1
    <2> QED BY <2>2, <2>3 DEF MemOK, WritableApart
  <1>8. OwnersOK(u \cup {b}, own)
    BY DEF MemOK, OwnersOK
  <1> QED BY <1>1, <1>2, <1>4, <1>5, <1>6, <1>7, <1>8 DEF MemOK

\* Slot i of directory s is copied to directory d, where the slot is empty, as
\* vmm_clone_directory does for an empty slot and in kernel space.
LEMMA CopySlotOK ==
  ASSUME NEW m, NEW u, NEW live, NEW own, NEW sh, MemOK(m, u, live, own, sh),
         NEW s \in live, NEW d \in live, s # d, NEW i \in Index,
         ~Has(m, d, i), ~Has(m, s, i) \/ i \in Kernel,
         NEW n, n = Put(m, d, i, m[s][i])
  PROVE  /\ MemOK(n, u, live, own, sh)
         /\ \A c \in BLOCKS \ {d} : n[c] = m[c]
         /\ \A k \in Index \ {i} : n[d][k] = m[d][k]
  <1>1. /\ m \in Memory /\ u \subseteq BLOCKS /\ live \subseteq BLOCKS
        /\ d \in BLOCKS /\ s \in BLOCKS
    BY DEF MemOK
  <1>2. m[s][i] \in Entry \cup {Absent}
    BY <1>1 DEF Memory, Row
  <1>3. /\ n \in Memory /\ n[d][i] = m[s][i]
        /\ \A k \in Index \ {i} : n[d][k] = m[d][k]
        /\ \A c \in BLOCKS \ {d} : n[c] = m[c]
    BY <1>1, <1>2, WriteCell
  <1> DEFINE From(c, k) == IF c = d /\ k = i THEN s ELSE c
  <1>4. ASSUME NEW c \in live, NEW k \in Index, Has(n, c, k)
        PROVE  /\ From(c, k) \in live /\ Has(m, From(c, k), k)
               /\ TableOf(n, c, k) = TableOf(m, From(c, k), k)
               /\ n[TableOf(n, c, k)] = m[TableOf(n, c, k)]
               /\ From(c, k) = c \/ k \in Kernel
    <2>1. n[c][k] = m[From(c, k)][k]
      BY <1>1, <1>3
    <2>2. /\ From(c, k) \in live /\ Has(m, From(c, k), k)
          /\ TableOf(n, c, k) = TableOf(m, From(c, k), k)
      BY <1>4, <2>1 DEF Has, TableOf
    <2>3. /\ TableOf(n, c, k) \in BLOCKS /\ TableOf(n, c, k) \notin live
      BY <2>2, TableInUse
    <2>4. n[TableOf(n, c, k)] = m[TableOf(n, c, k)]
      BY <1>3, <2>3
    <2>5. From(c, k) = c \/ k \in Kernel
      BY <2>2
    <2> QED BY <2>2, <2>4, <2>5
  <1>5. ASSUME NEW c \in live, NEW k \in User, Has(n, c, k)
        PROVE  /\ k \in Index /\ Has(m, c, k) /\ TableOf(n, c, k) = TableOf(m, c, k)
               /\ n[TableOf(n, c, k)] = m[TableOf(m, c, k)]
    <2>1. k \in Index /\ k \notin Kernel
      BY DEF User, Kernel
    <2>2. From(c, k) = c
      BY <1>4, <1>5, <2>1
    <2> HIDE DEF From
    <2> QED BY <1>4, <1>5, <2>1, <2>2
  <1> HIDE DEF Has, TableOf, From
  <1>6. DirsOK(n, u, live, own)
    BY <1>4 DEF MemOK, DirsOK
  <1>7. TablesApart(n, live)
    <2> SUFFICES ASSUME NEW c \in live, NEW b \in live,
                        NEW k \in Index, NEW l \in Index,
                        Has(n, c, k), Has(n, b, l),
                        TableOf(n, c, k) = TableOf(n, b, l)
                 PROVE  k = l /\ (c = b \/ k \in Kernel)
      BY DEF TablesApart
    <2>1. k = l /\ (From(c, k) = From(b, l) \/ k \in Kernel)
      BY <1>4 DEF MemOK, TablesApart
    <2>2. From(c, k) = c \/ k \in Kernel
      BY <1>4
    <2>3. From(b, l) = b \/ l \in Kernel
      BY <1>4
    <2> QED BY <2>1, <2>2, <2>3
  <1>8. PagesOK(n, u, live, sh)
    <2> SUFFICES ASSUME NEW c \in live, NEW k \in User, Has(n, c, k),
                        NEW l \in Index
                 PROVE  LET f == n[TableOf(n, c, k)][l].frame
                        IN  f \in BLOCKS \ sh =>
                               /\ f \in u /\ f \notin live
                               /\ \A a \in live : \A q \in Index :
                                     Has(n, a, q) => TableOf(n, a, q) # f
      BY DEF PagesOK
    <2>2. PICK f : f = n[TableOf(n, c, k)][l].frame
      OBVIOUS
    <2>3. Has(m, c, k) /\ f = m[TableOf(m, c, k)][l].frame
      BY <1>5, <2>2
    <2>4. f \in BLOCKS \ sh =>
             /\ f \in u /\ f \notin live
             /\ \A a \in live : \A q \in Index : Has(m, a, q) => TableOf(m, a, q) # f
      BY <2>3 DEF MemOK, PagesOK
    <2>5. f \in BLOCKS \ sh => \A a \in live : \A q \in Index :
                             Has(n, a, q) => TableOf(n, a, q) # f
      BY <1>4, <2>4
    <2> QED BY <2>2, <2>4, <2>5, Zenon
  <1>9. WritableApart(n, live, sh)
    <2> SUFFICES ASSUME NEW c \in live, NEW a \in live,
                        NEW k \in User, NEW l \in User,
                        NEW p \in Index, NEW q \in Index,
                        Has(n, c, k), Has(n, a, l)
                 PROVE  /\ n[TableOf(n, c, k)][p].writable
                        /\ n[TableOf(n, c, k)][p].frame \in BLOCKS \ sh
                        /\ n[TableOf(n, c, k)][p].frame
                              = n[TableOf(n, a, l)][q].frame
                        => c = a /\ k = l /\ p = q
      BY DEF WritableApart
    <2>2. Has(m, c, k) /\ n[TableOf(n, c, k)][p] = m[TableOf(m, c, k)][p]
      BY <1>5
    <2>3. Has(m, a, l) /\ n[TableOf(n, a, l)][q] = m[TableOf(m, a, l)][q]
      BY <1>5
    <2> QED BY <2>2, <2>3 DEF MemOK, WritableApart
  <1> QED BY <1>1, <1>3, <1>6, <1>7, <1>8, <1>9 DEF MemOK

\* vmm_free_directory of a directory without kernel tables.
LEMMA DropOK ==
  ASSUME NEW m, NEW u, NEW live, NEW own, NEW sh, MemOK(m, u, live, own, sh),
         NEW d \in live, \A i \in Kernel : ~Has(m, d, i),
         NEW w, w \subseteq u,
         \A b \in u \ w : b = d \/ \E i \in Index : Has(m, d, i) /\ TableOf(m, d, i) = b
  PROVE  MemOK(m, w, live \ {d}, own, sh)
  <1>1. \A c \in live \ {d} : \A k \in Index :
            Has(m, c, k) => TableOf(m, c, k) \in w
    BY DEF MemOK, DirsOK, TablesApart
  <1>2. \A c \in live \ {d} : c \in w
    BY DEF MemOK, DirsOK
  <1>3. OwnersOK(w, own)
    BY DEF MemOK, DirsOK, OwnersOK
  <1>4. DirsOK(m, w, live \ {d}, own)
    BY <1>1, <1>2 DEF MemOK, DirsOK
  <1>5. TablesApart(m, live \ {d})
    BY DEF MemOK, TablesApart
  <1>6. PagesOK(m, w, live \ {d}, sh)
    <2> SUFFICES ASSUME NEW c \in live \ {d}, NEW k \in User, Has(m, c, k),
                        NEW l \in Index,
                        NEW f \in BLOCKS \ sh, f = m[TableOf(m, c, k)][l].frame
                 PROVE  /\ f \in w /\ f \notin live \ {d}
                        /\ \A a \in live \ {d} : \A q \in Index :
                              Has(m, a, q) => TableOf(m, a, q) # f
      BY DEF PagesOK
    <2>1. /\ f \in u /\ f \notin live
          /\ \A a \in live : \A q \in Index :
                Has(m, a, q) => TableOf(m, a, q) # f
      BY DEF MemOK, PagesOK
    <2>2. f \in w
      BY <2>1
    <2> QED BY <2>1, <2>2
  <1>7. WritableApart(m, live \ {d}, sh)
    BY DEF MemOK, WritableApart
  <1> QED BY <1>3, <1>4, <1>5, <1>6, <1>7 DEF MemOK

\* A directory that is lost takes nothing with it.
LEMMA ForgetOK ==
  ASSUME NEW m, NEW u, NEW live, NEW own, NEW sh, MemOK(m, u, live, own, sh),
         NEW less, less \subseteq live
  PROVE  MemOK(m, u, less, own, sh)
  <1>1. DirsOK(m, u, less, own) /\ TablesApart(m, less)
    BY DEF MemOK, DirsOK, TablesApart
  <1>2. PagesOK(m, u, less, sh)
    BY DEF MemOK, PagesOK
  <1>3. WritableApart(m, less, sh)
    BY DEF MemOK, WritableApart
  <1> QED BY <1>1, <1>2, <1>3 DEF MemOK

\* A block that is allocated for a page disturbs nothing.
LEMMA GrowOK ==
  ASSUME NEW m, NEW u, NEW live, NEW own, NEW sh, MemOK(m, u, live, own, sh),
         NEW b \in BLOCKS \ u, NEW x \in BLOCKS
  PROVE  MemOK(m, u \cup {b}, live, [own EXCEPT ![b] = x], sh)
  <1>1. PICK own2 : own2 = [own EXCEPT ![b] = x]
    OBVIOUS
  <1>2. own \in [BLOCKS -> BLOCKS \cup {None}]
    BY DEF MemOK, OwnersOK
  <1>3. DirsOK(m, u \cup {b}, live, own2)
    <2>1. \A a \in u : own2[a] = own[a]
      BY <1>1, <1>2 DEF MemOK
    <2>2. \A d \in live : \A i \in Index : Has(m, d, i) =>
             TableOf(m, d, i) \in u /\ own[TableOf(m, d, i)] = None
      BY DEF MemOK, DirsOK
    <2> QED BY <2>1, <2>2 DEF MemOK, DirsOK
  <1>4. OwnersOK(u \cup {b}, own2)
    BY <1>1, <1>2 DEF MemOK, OwnersOK
  <1>5. PagesOK(m, u \cup {b}, live, sh)
    BY DEF MemOK, PagesOK
  <1> QED BY <1>1, <1>3, <1>4, <1>5 DEF MemOK

\* A page that is nobody's any more stays in use.
LEMMA DisownOK ==
  ASSUME NEW m, NEW u, NEW live, NEW own, NEW sh, MemOK(m, u, live, own, sh),
         NEW d
  PROVE  MemOK(m, u, live,
               [b \in BLOCKS |-> IF own[b] = d THEN None ELSE own[b]], sh)
  <1>1. PICK own2 : own2 = [b \in BLOCKS |-> IF own[b] = d THEN None ELSE own[b]]
    OBVIOUS
  <1>2. \A b \in BLOCKS : own2[b] \in {own[b], None}
    BY <1>1
  <1>3. DirsOK(m, u, live, own2)
    BY <1>2 DEF MemOK, DirsOK
  <1>4. OwnersOK(u, own2)
    BY <1>1 DEF MemOK, OwnersOK
  <1> QED BY <1>1, <1>3, <1>4 DEF MemOK

\* To expose a page is to say less.
LEMMA ExposeOK ==
  ASSUME NEW m, NEW u, NEW live, NEW own, NEW sh, MemOK(m, u, live, own, sh),
         NEW more, sh \subseteq more
  PROVE  MemOK(m, u, live, own, more)
  <1>1. PagesOK(m, u, live, more)
    BY DEF MemOK, PagesOK
  <1>2. WritableApart(m, live, more)
    BY DEF MemOK, WritableApart
  <1> QED BY <1>1, <1>2 DEF MemOK

\* Memory that is not a block is as good as exposed.
LEMMA NoBlockOK ==
  ASSUME NEW m, NEW u, NEW live, NEW own, NEW sh, MemOK(m, u, live, own, sh),
         NEW less, BLOCKS \ less = BLOCKS \ sh
  PROVE  MemOK(m, u, live, own, less)
  <1>1. PagesOK(m, u, live, less)
    BY DEF MemOK, PagesOK
  <1>2. WritableApart(m, live, less)
    BY DEF MemOK, WritableApart
  <1> QED BY <1>1, <1>2 DEF MemOK

\* Block b is in user space of directory c.
Names(m, c, b) == \E k \in User, l \in Index : Has(m, c, k) /\ m[TableOf(m, c, k)][l].frame = b

\* hal_free_page: the block goes back; it is exposed if a user space maps it.
LEMMA ReturnsOK ==
  ASSUME NEW m, NEW u, NEW live, NEW own, NEW sh, MemOK(m, u, live, own, sh),
         NEW b \in BLOCKS, own[b] # None, NEW sh2, sh \ {b} \subseteq sh2,
         b \in sh2 \/ \A c \in live : ~Names(m, c, b)
  PROVE  MemOK(m, u \ {b}, live, [own EXCEPT ![b] = None], sh2)
  <1>1. PICK own2 : own2 = [own EXCEPT ![b] = None]
    OBVIOUS
  <1>2. own \in [BLOCKS -> BLOCKS \cup {None}]
    BY DEF MemOK, OwnersOK
  <1>3. \A a \in BLOCKS : own2[a] = IF a = b THEN None ELSE own[a]
    BY <1>1, <1>2
  <1>4. DirsOK(m, u \ {b}, live, own2)
    <2>1. \A d \in live : d \in BLOCKS /\ d # b
      BY DEF MemOK, DirsOK
    <2>2. \A d \in live : \A i \in Index : Has(m, d, i) =>
             TableOf(m, d, i) \in BLOCKS /\ TableOf(m, d, i) # b
      BY DEF MemOK, DirsOK
    <2> QED BY <1>3, <2>1, <2>2 DEF MemOK, DirsOK
  <1>5. OwnersOK(u \ {b}, own2)
    BY <1>1, <1>2, <1>3 DEF MemOK, OwnersOK
  <1>6. PagesOK(m, u \ {b}, live, sh2)
    <2> SUFFICES ASSUME NEW c \in live, NEW k \in User, Has(m, c, k),
                        NEW l \in Index,
                        NEW f \in BLOCKS \ sh2, f = m[TableOf(m, c, k)][l].frame
                 PROVE  /\ f \in u \ {b} /\ f \notin live
                        /\ \A a \in live : \A q \in Index :
                              Has(m, a, q) => TableOf(m, a, q) # f
      BY DEF PagesOK
    <2>1. f # b
      BY DEF Names
    <2>2. f \in BLOCKS \ sh
      BY <2>1
    <2> QED BY <2>1, <2>2 DEF MemOK, PagesOK
  <1>7. WritableApart(m, live, sh2)
    <2> SUFFICES ASSUME NEW c \in live, NEW a \in live,
                        NEW k \in User, NEW l \in User,
                        NEW p \in Index, NEW q \in Index,
                        Has(m, c, k), Has(m, a, l),
                        m[TableOf(m, c, k)][p].writable,
                        m[TableOf(m, c, k)][p].frame \in BLOCKS \ sh2,
                        m[TableOf(m, c, k)][p].frame
                           = m[TableOf(m, a, l)][q].frame
                 PROVE  c = a /\ k = l /\ p = q
      BY DEF WritableApart
    <2>1. m[TableOf(m, c, k)][p].frame # b
      BY DEF Names
    <2>2. m[TableOf(m, c, k)][p].frame \in BLOCKS \ sh
      BY <2>1
    <2> QED BY <2>2 DEF MemOK, WritableApart
  <1> QED BY <1>1, <1>4, <1>5, <1>6, <1>7 DEF MemOK

-----------------------------------------------------------------------------
(* The TLB.                                                                *)

\* Walk and TlbAgrees in a given memory.
WalkIn(m, d, v) ==
    IF m[d][v[1]].frame \in BLOCKS THEN m[m[d][v[1]].frame][v[2]] ELSE Absent

TlbIn(m, t, d) == \A v \in Virt : Present(t[v]) => t[v] = WalkIn(m, d, v)

\* TlbAgrees in terms of a memory and a TLB.
LEMMA TlbAgreesIs ==
  TlbAgrees <=> (~exited /\ current_directory \in dirs
                    => TlbIn(mem, tlb, current_directory))
  BY DEF TlbAgrees, TlbIn, Walk, WalkIn

\* The TLB stays right if what it still holds is where it was.
LEMMA TlbKeeps ==
  ASSUME NEW m, NEW u, NEW live, NEW own, NEW sh, MemOK(m, u, live, own, sh),
         NEW d \in live, NEW t, TlbIn(m, t, d), NEW n, NEW t2,
         \A v \in Virt : Present(t2[v]) => t2[v] = t[v],
         \A v \in Virt : Present(t2[v]) /\ Has(m, d, v[1]) =>
            /\ n[d][v[1]] = m[d][v[1]]
            /\ n[TableOf(m, d, v[1])][v[2]] = m[TableOf(m, d, v[1])][v[2]]
  PROVE  TlbIn(n, t2, d)
  <1> SUFFICES ASSUME NEW v \in Virt, Present(t2[v])
               PROVE  t2[v] = WalkIn(n, d, v)
    BY DEF TlbIn
  <1>1. v[1] \in Index /\ v[2] \in Index
    BY DEF Virt
  <1>2. t2[v] = t[v] /\ t[v] = WalkIn(m, d, v)
    BY DEF TlbIn
  <1>3. Has(m, d, v[1])
    <2> SUFFICES ASSUME ~Has(m, d, v[1]) PROVE FALSE
      OBVIOUS
    <2>1. m[d][v[1]] = Absent
      BY DEF Has, Present
    <2>2. WalkIn(m, d, v) = Absent
      BY <2>1, AbsentNamesNothing DEF WalkIn
    <2> QED BY <1>2, <2>2 DEF Present
  <1>4. TableOf(m, d, v[1]) \in BLOCKS
    BY <1>1, <1>3, TableInUse
  <1>5. /\ n[d][v[1]] = m[d][v[1]]
        /\ n[TableOf(m, d, v[1])][v[2]] = m[TableOf(m, d, v[1])][v[2]]
    BY <1>3
  <1> QED BY <1>2, <1>4, <1>5 DEF WalkIn, TableOf

-----------------------------------------------------------------------------
(* vmm_map_page.                                                           *)

\* It writes the entry, perhaps in a new table, and leaves every other page
\* of the directory where it was.
LEMMA MapPageOK ==
  ASSUME MemOK(mem, used, Live, owner, exposed), exposed \subseteq BLOCKS,
         NEW d \in Live, NEW v \in Virt, NEW e \in Entry,
         e.frame \in BLOCKS => owner[e.frame] # None,
         NEW more, exposed \subseteq more,
         e.frame \in more \/ ~MappedBut(e.frame, d, v),
         MapPage(d, v, e)
  PROVE  /\ MemOK(mem', used', Live, owner, more)
         /\ used \subseteq used'
         /\ \A c \in Live \ {d} : mem'[c] = mem[c]
         /\ \A w \in Virt : w # v /\ Has(mem, d, w[1]) =>
               /\ mem'[d][w[1]] = mem[d][w[1]]
               /\ mem'[TableOf(mem, d, w[1])][w[2]] = mem[TableOf(mem, d, w[1])][w[2]]
  <1>0. MemOK(mem, used, Live, owner, more)
    BY ExposeOK
  <1>1. PICK t \in BLOCKS :
           /\ GetTable(d, v[1], t)
           /\ mem' = [MemWithTable(d, v[1], t) EXCEPT ![t] =
                        [@ EXCEPT ![v[2]] = e]]
           /\ used' = UsedWithTable(d, v[1], t)
    BY DEF MapPage
  <1>2. PICK i \in Index, j \in Index : i = v[1] /\ j = v[2]
    BY DEF Virt
  <1>3. PICK m1 : m1 = MemWithTable(d, v[1], t)
    OBVIOUS
  <1>4. mem' = Put(m1, t, v[2], e)
    BY <1>1, <1>3, Zenon DEF Put
  <1>5. /\ MemOK(m1, used', Live, owner, more) /\ used \subseteq used'
        /\ Has(m1, d, v[1]) /\ TableOf(m1, d, v[1]) = t
        /\ \A c \in Live \ {d} : m1[c] = mem[c]
        /\ \A k \in Index : Has(mem, d, k) =>
              /\ m1[d][k] = mem[d][k]
              /\ m1[TableOf(mem, d, k)] = mem[TableOf(mem, d, k)]
        /\ \A c \in Live : \A k \in Index : Has(m1, c, k) =>
              \/ c = d /\ k = v[1] /\ \A l \in Index : m1[TableOf(m1, c, k)][l] = Absent
              \/ Has(mem, c, k) /\ m1[TableOf(m1, c, k)] = mem[TableOf(mem, c, k)]
    <2>1. CASE Has(mem, d, v[1])
      <3>1. m1 = mem /\ used' = used /\ t = TableOf(mem, d, v[1])
        BY <1>1, <1>3, <2>1 DEF MemWithTable, UsedWithTable, GetTable, Has, TableOf
      <3> QED BY <1>0, <2>1, <3>1
    <2>2. CASE ~Has(mem, d, v[1])
      <3>0. /\ m1 = Enter(mem, d, v[1], t)
            /\ used' = used \cup {t} /\ t \in BLOCKS \ used
        BY <1>1, <1>3, <2>2 DEF MemWithTable, UsedWithTable, GetTable, Has,
                                Allocates, Free, Enter
      <3>1. /\ m1 = Enter(mem, d, i, t) /\ i \in Index /\ i = v[1]
            /\ used' = used \cup {t} /\ t \in BLOCKS \ used
        BY <1>2, <3>0
      <3>3. /\ MemOK(m1, used \cup {t}, Live, owner, more)
            /\ Has(m1, d, v[1]) /\ TableOf(m1, d, v[1]) = t
            /\ \A l \in Index : m1[t][l] = Absent
            /\ \A b \in BLOCKS \ {t, d} : m1[b] = mem[b]
            /\ \A k \in Index \ {v[1]} : m1[d][k] = mem[d][k]
        <4>1. ~Has(mem, d, i)
          BY <2>2, <3>1
        <4>2. /\ MemOK(m1, used \cup {t}, Live, owner, more)
              /\ Has(m1, d, i) /\ TableOf(m1, d, i) = t
              /\ \A l \in Index : m1[t][l] = Absent
              /\ \A b \in BLOCKS \ {t, d} : m1[b] = mem[b]
              /\ \A k \in Index \ {i} : m1[d][k] = mem[d][k]
          BY <1>0, <4>1, <3>1, NewTableOK
        <4> QED BY <3>1, <4>2
      <3>4. Live \subseteq used /\ Live \subseteq BLOCKS
        BY DEF MemOK, DirsOK
      <3>5. \A c \in Live \ {d} : m1[c] = mem[c]
        BY <3>1, <3>3, <3>4
      <3>6. ASSUME NEW k \in Index, Has(mem, d, k)
            PROVE  /\ m1[d][k] = mem[d][k]
                   /\ m1[TableOf(mem, d, k)] = mem[TableOf(mem, d, k)]
        <4>1. TableOf(mem, d, k) \in BLOCKS \ {t, d}
          BY <3>1, <3>6, TableInUse
        <4> QED BY <2>2, <3>3, <3>6, <4>1
      <3>7. ASSUME NEW c \in Live, NEW k \in Index, Has(m1, c, k),
                   ~(c = d /\ k = v[1])
            PROVE  Has(mem, c, k) /\ m1[TableOf(m1, c, k)] = mem[TableOf(mem, c, k)]
        <4>1. m1[c][k] = mem[c][k]
          BY <3>3, <3>5, <3>7
        <4>2. Has(mem, c, k) /\ TableOf(m1, c, k) = TableOf(mem, c, k)
          BY <3>7, <4>1 DEF Has, TableOf
        <4>3. TableOf(mem, c, k) \in BLOCKS \ {t, d}
          BY <3>1, <4>2, TableInUse
        <4> QED BY <3>3, <4>2, <4>3
      <3> QED BY <3>1, <3>3, <3>5, <3>6, <3>7
    <2> QED BY <2>1, <2>2
  <1>6. ASSUME NEW c \in Live, NEW k \in User, NEW l \in Index, Has(m1, c, k),
               m1[TableOf(m1, c, k)][l].frame = e.frame,
               ~(c = d /\ k = v[1] /\ l = v[2]),
               e.frame \in BLOCKS \ more
        PROVE  FALSE
    <2>1. k \in Index
      BY DEF User
    <2>2. Has(mem, c, k) /\ mem[TableOf(mem, c, k)][l].frame = e.frame
      BY <1>5, <1>6, <2>1, AbsentNamesNothing
    <2>3. mem[c][k].frame \in BLOCKS /\ mem[c][k].frame = TableOf(mem, c, k)
      BY <2>1, <2>2, TableInUse DEF TableOf
    <2>4. PICK w : w = <<k, l>>
      OBVIOUS
    <2>5. w \in User \X Index /\ ~(c = d /\ w = v) /\ w[1] = k /\ w[2] = l
      BY <1>6, <2>4
    <2>6. Walk(c, w).frame = e.frame
      BY <2>2, <2>3, <2>5 DEF Walk
    <2> QED BY <1>6, <2>5, <2>6 DEF MappedBut
  <1>7. MayHold(m1, used', Live, more, d, v[1], v[2], e)
    <2> SUFFICES ASSUME e.frame \in BLOCKS \ more
                 PROVE  MayHold(m1, used', Live, more, d, v[1], v[2], e)
      BY DEF MayHold
    <2>1. /\ e.frame \in used' /\ e.frame \notin Live
          /\ \A c \in Live : \A k \in Index :
                Has(m1, c, k) => TableOf(m1, c, k) # e.frame
      BY <1>5 DEF MemOK, DirsOK, OwnersOK
    <2> QED BY <1>6, <2>1 DEF MayHold
  <1>8. /\ MemOK(mem', used', Live, owner, more)
        /\ \A c \in Live : mem'[c] = m1[c]
        /\ \A b \in BLOCKS \ {t} : mem'[b] = m1[b]
        /\ \A l \in Index \ {v[2]} : mem'[t][l] = m1[t][l]
    <2>1. e \in Entry \cup {Absent}
      OBVIOUS
    <2>2. /\ Has(m1, d, i) /\ TableOf(m1, d, i) = t
          /\ MayHold(m1, used', Live, more, d, i, j, e)
      BY <1>2, <1>5, <1>7
    <2>3. PICK n : n = mem'
      OBVIOUS
    <2>4. n = Put(m1, TableOf(m1, d, i), j, e)
      BY <1>2, <1>4, <2>2, <2>3
    <2>5. /\ MemOK(n, used', Live, owner, more)
          /\ \A c \in Live : n[c] = m1[c]
          /\ \A b \in BLOCKS \ {TableOf(m1, d, i)} : n[b] = m1[b]
          /\ \A l \in Index \ {j} :
                n[TableOf(m1, d, i)][l] = m1[TableOf(m1, d, i)][l]
      <3>1. MemOK(m1, used', Live, owner, more)
        BY <1>5
      <3>2. Writes(m1, used', Live, owner, more, d, i, j, e, n)
        BY <2>1, <2>2, <2>4, <3>1 DEF Writes
      <3> QED BY <3>2, WriteOK
    <2> QED BY <1>2, <2>2, <2>3, <2>5
  <1>9. ASSUME NEW w \in Virt, w # v, Has(mem, d, w[1])
        PROVE  /\ mem'[d][w[1]] = mem[d][w[1]]
               /\ mem'[TableOf(mem, d, w[1])][w[2]] = mem[TableOf(mem, d, w[1])][w[2]]
    <2>1. w[1] \in Index /\ w[2] \in Index /\ (w[1] = v[1] => w[2] # v[2])
      BY <1>9 DEF Virt
    <2>2. m1[d][w[1]] = mem[d][w[1]]
      BY <1>5, <1>9, <2>1
    <2>3. Has(m1, d, w[1]) /\ TableOf(m1, d, w[1]) = TableOf(mem, d, w[1])
      BY <1>9, <2>2 DEF Has, TableOf
    <2>4. TableOf(mem, d, w[1]) \in BLOCKS
      BY <1>9, <2>1, TableInUse
    <2>5. TableOf(mem, d, w[1]) = t => w[1] = v[1]
      BY <1>2, <1>5, <2>1, <2>3 DEF MemOK, TablesApart
    <2>6. mem'[TableOf(mem, d, w[1])][w[2]] = m1[TableOf(mem, d, w[1])][w[2]]
      BY <1>8, <2>1, <2>4, <2>5
    <2> QED BY <1>5, <1>8, <1>9, <2>1, <2>2, <2>6
  <1>10. \A c \in Live \ {d} : mem'[c] = mem[c]
    BY <1>5, <1>8
  <1> QED BY <1>5, <1>8, <1>9, <1>10
-----------------------------------------------------------------------------
(* The invariant, in the form the actions use it.                          *)

CloneType == [dest : BLOCKS \cup {None}, i : 0 .. ENTRIES, j : Index]

\* What the invariant says before the first exit.
LEMMA Unpacked ==
  ASSUME VmmInv, ~exited
  PROVE  /\ TypeOK /\ BootOK /\ CloneOK
         /\ MemOK(mem, used, Live, owner, exposed)
         /\ current_directory \in dirs => TlbIn(mem, tlb, current_directory)
         /\ dirs \subseteq Live /\ Live \subseteq used /\ used \subseteq BLOCKS
         /\ None \notin BLOCKS /\ Done \in Nat \ {0, 1}
         /\ exposed \subseteq BLOCKS
         /\ clone \in [BLOCKS -> CloneType]
  <1>1. TypeOK /\ BootOK /\ CloneOK
        /\ MemOK(mem, used, Live, owner, exposed) /\ TlbAgrees
    BY DEF VmmInv
  <1>2. current_directory \in dirs => TlbIn(mem, tlb, current_directory)
    BY <1>1, TlbAgreesIs
  <1>3. dirs \subseteq Live
    BY DEF Live
  <1>4. Live \subseteq used /\ used \subseteq BLOCKS
    BY <1>1 DEF MemOK, DirsOK
  <1>5. None \notin BLOCKS
    BY VmmAssumption
  <1>6. Done \in Nat \ {0, 1}
    BY VmmAssumption DEF Done
  <1>7. exposed \subseteq BLOCKS /\ clone \in [BLOCKS -> CloneType]
    BY <1>1 DEF TypeOK, CloneType
  <1> QED BY <1>1, <1>2, <1>3, <1>4, <1>5, <1>6, <1>7

\* The types that have nothing to do with memory.
OtherTypes ==
    /\ kernel_directory \in BLOCKS \cup {None}
    /\ current_directory \in BLOCKS \cup {None}
    /\ tlb \in [Virt -> Entry \cup {Absent}]
    /\ dirs \subseteq BLOCKS
    /\ boot \in 0 .. Done
    /\ clone \in [BLOCKS -> CloneType]
    /\ exposed \subseteq BLOCKS
    /\ exited \in BOOLEAN

\* What is enough for the invariant after a step.
LEMMA Repacked ==
  ASSUME OtherTypes', BootOK', CloneOK',
         MemOK(mem', used', Live', owner', exposed'),
         current_directory' \in dirs' => TlbIn(mem', tlb', current_directory')
  PROVE  VmmInv'
  <1>1. TypeOK'
    BY DEF OtherTypes, TypeOK, MemOK, OwnersOK, Memory, Row, CloneType
  <1>2. TlbAgrees'
    BY DEF TlbAgrees, TlbIn, Walk, WalkIn
  <1> QED BY <1>1, <1>2 DEF VmmInv

\* Flushing one entry keeps the type of the TLB.
LEMMA FlushTypes ==
  ASSUME tlb \in [Virt -> Entry \cup {Absent}], NEW d, NEW v \in Virt,
         FlushEntry(d, v)
  PROVE  /\ tlb' \in [Virt -> Entry \cup {Absent}]
         /\ \A w \in Virt : Present(tlb'[w]) => tlb'[w] = tlb[w]
         /\ d = current_directory => ~Present(tlb'[v])
  BY DEF FlushEntry, Present

\* An empty TLB holds nothing wrong.
LEMMA EmptyTlb ==
  ASSUME NEW d, Switch(d)
  PROVE  /\ tlb' \in [Virt -> Entry \cup {Absent}]
         /\ \A m : TlbIn(m, tlb', d)
  BY DEF Switch, TlbIn, Present

\* Where a clone that is under way stands.
LEMMA CloneIs ==
  ASSUME VmmInv, ~exited, NEW s \in BLOCKS, clone[s] # NoClone
  PROVE  /\ s \in dirs /\ clone[s].dest \in BLOCKS \ dirs /\ clone[s].dest \in Live
         /\ clone[s].i \in 0 .. ENTRIES /\ clone[s].j \in Index
         /\ boot = Done
         /\ \A r \in BLOCKS : clone[r].dest = clone[s].dest => r = s
  <1> USE Unpacked
  <1>1. CopyOK(s, clone[s])
    BY DEF CloneOK
  <1>2. s \in dirs /\ clone[s].dest \in BLOCKS \ dirs
        /\ \A r \in BLOCKS : clone[r].dest = clone[s].dest => r = s
    BY <1>1 DEF CopyOK
  <1>3. clone[s].dest \in Live
    BY <1>2 DEF Live
  <1>4. clone[s] \in CloneType
    OBVIOUS
  <1>5. clone[s].i \in 0 .. ENTRIES /\ clone[s].j \in Index
    BY <1>4 DEF CloneType
  <1>6. boot = Done
    BY DEF BootOK
  <1> QED BY <1>2, <1>3, <1>5, <1>6

\* A record with a copy is not the one of no clone.
LEMMA StillCloning ==
  ASSUME NEW x, x.dest \in BLOCKS PROVE x # NoClone
  BY VmmAssumption DEF NoClone

\* The live directories at boot, and what adds or takes away a copy.
LEMMA LiveIs ==
  /\ clone = [d \in BLOCKS |-> NoClone] => Live = dirs
  /\ Live = dirs \cup {b \in {clone[d].dest : d \in BLOCKS} : b # None}
  BY VmmAssumption DEF Live, NoClone

-----------------------------------------------------------------------------
(* vmm_init.                                                               *)

\* vmm_create_directory at boot.
LEMMA CreateOK ==
  ASSUME VmmInv, ~exited, CreateKernelDirectory
  PROVE  VmmInv'
  <1> USE Unpacked
  <1>1. /\ clone = [d \in BLOCKS |-> NoClone] /\ current_directory = None
        /\ dirs = {} /\ boot = 0
    BY DEF CreateKernelDirectory, BootOK
  <1>2. Live = {}
    BY <1>1, LiveIs
  <1>3. CASE Free = {} /\ boot' = Done
             /\ UNCHANGED <<used, mem, kernel_directory, dirs>>
    <2>1. UNCHANGED <<used, mem, kernel_directory, dirs, current_directory, tlb,
                      owner, clone, exposed, exited>> /\ boot' = Done
      BY <1>3 DEF CreateKernelDirectory
    <2>2. OtherTypes'
      BY <2>1 DEF TypeOK, OtherTypes
    <2>3. BootOK' /\ CloneOK' /\ Live' = Live
      BY <1>1, <2>1 DEF BootOK, CloneOK, CopyOK, Live, Done
    <2> QED BY <1>1, <2>1, <2>2, <2>3, Repacked
  <1>4. ASSUME NEW b \in BLOCKS, Allocates(b), kernel_directory' = b,
               dirs' = {b}, mem' = [mem EXCEPT ![b] = Zeroes],
               used' = used \cup {b}, boot' = 1
        PROVE  VmmInv'
    <2>1. UNCHANGED <<current_directory, tlb, owner, clone, exposed, exited>>
      BY DEF CreateKernelDirectory
    <2>2. b \in BLOCKS \ used
      BY <1>4 DEF Allocates, Free
    <2>3. mem' = Clear(mem, b)
      BY <1>4 DEF Clear
    <2>4. MemOK(mem', used \cup {b}, Live \cup {b}, owner, exposed)
      BY <2>2, <2>3, NewDirOK
    <2>5. Live' = {b}
      BY <1>1, <1>4, <2>1, VmmAssumption DEF Live, NoClone
    <2>6. MemOK(mem', used', Live', owner', exposed')
      <3>1. Live \cup {b} = {b}
        BY <1>2
      <3> QED BY <1>4, <2>1, <2>4, <2>5, <3>1
    <2>7. OtherTypes'
      BY <1>4, <2>1 DEF TypeOK, OtherTypes
    <2>8. BootOK' /\ CloneOK'
      BY <1>1, <1>4, <2>1 DEF BootOK, CloneOK, CopyOK, Done
    <2>9. current_directory' \notin dirs'
      BY <1>1, <1>4, <2>1
    <2> QED BY <2>6, <2>7, <2>8, <2>9, Repacked
  <1> QED BY <1>3, <1>4 DEF CreateKernelDirectory

\* vmm_identity_map at boot, one page.
LEMMA MapKernelOK ==
  ASSUME VmmInv, ~exited, MapKernel
  PROVE  VmmInv'
  <1> USE Unpacked
  <1>1. PICK v : v = BOOT_PAGES[boot]
    OBVIOUS
  <1>2. /\ boot \in 1 .. Len(BOOT_PAGES) /\ v \in Virt
        /\ boot # Done /\ boot \in 1 .. (Done - 1)
    BY <1>1, VmmAssumption DEF MapKernel, Virt, Index, Done
  <1>3. /\ clone = [d \in BLOCKS |-> NoClone] /\ current_directory = None
        /\ kernel_directory \in dirs
    BY <1>2 DEF BootOK
  <1>4. PICK e : e = [frame |-> KernelFrame, writable |-> TRUE]
    OBVIOUS
  <1>5. e \in Entry /\ e.frame \notin BLOCKS /\ e.frame = KernelFrame
    BY <1>4, VmmAssumption DEF Entry
  <1>6. /\ boot' = boot + 1
        /\ UNCHANGED <<kernel_directory, current_directory, dirs, owner, clone,
                       exposed, exited>>
        /\ \/ MapPage(kernel_directory, v, e)
           \/ UNCHANGED <<used, mem, tlb>>
    BY <1>1, <1>4 DEF MapKernel
  <1>7. Live' = Live
    BY <1>6 DEF Live
  <1>8. MemOK(mem', used', Live, owner, exposed) /\ tlb' \in [Virt -> Entry \cup {Absent}]
    <2>1. CASE MapPage(kernel_directory, v, e)
      <3>1. kernel_directory \in Live
        BY <1>3
      <3>2. MemOK(mem', used', Live, owner, exposed)
        <4>1. PICK more : more = exposed \cup {KernelFrame}
          OBVIOUS
        <4>2. MemOK(mem', used', Live, owner, more)
          BY <1>2, <1>5, <2>1, <3>1, <4>1, MapPageOK
        <4> QED BY <4>1, <4>2, NoBlockOK, <1>5
      <3>3. tlb' \in [Virt -> Entry \cup {Absent}]
        BY <1>2, <2>1, FlushTypes DEF MapPage, TypeOK
      <3> QED BY <3>2, <3>3
    <2>2. CASE UNCHANGED <<used, mem, tlb>>
      BY <2>2 DEF TypeOK
    <2> QED BY <1>6, <2>1, <2>2
  <1>9. OtherTypes'
    <2>1. boot + 1 \in 0 .. Done
      BY <1>2 DEF Done
    <2> QED BY <1>6, <1>8, <2>1 DEF TypeOK, OtherTypes
  <1>10. BootOK' /\ CloneOK'
    BY <1>2, <1>3, <1>6 DEF BootOK, CloneOK, CopyOK, Done
  <1>11. current_directory' \notin dirs'
    BY <1>3, <1>6 DEF TypeOK
  <1> QED BY <1>6, <1>7, <1>8, <1>9, <1>10, <1>11, Repacked

\* vmm_init loads the kernel's directory.
LEMMA UseKernelOK ==
  ASSUME VmmInv, ~exited, UseKernelDirectory
  PROVE  VmmInv'
  <1> USE Unpacked
  <1>1. /\ boot = Done - 1 /\ Switch(kernel_directory) /\ boot' = Done
        /\ UNCHANGED <<used, mem, kernel_directory, dirs, owner, clone, exposed,
                       exited>>
    BY VmmAssumption DEF UseKernelDirectory, Done
  <1>2. Live' = Live
    BY <1>1 DEF Live
  <1>3. /\ tlb' \in [Virt -> Entry \cup {Absent}]
        /\ TlbIn(mem', tlb', current_directory')
    BY <1>1, EmptyTlb DEF Switch
  <1>4. OtherTypes'
    BY <1>1, <1>3 DEF TypeOK, OtherTypes, Switch
  <1>5. BootOK' /\ CloneOK'
    BY <1>1 DEF BootOK, CloneOK, CopyOK, Done
  <1> QED BY <1>1, <1>2, <1>3, <1>4, <1>5, Repacked

-----------------------------------------------------------------------------
(* The calls of the running process.                                       *)

\* A call that does not write to a live directory, but in tables and perhaps in
\* one slot of a directory that is not inside a clone, leaves the clones alone.
LEMMA SameClones ==
  ASSUME VmmInv, ~exited, UNCHANGED <<clone, dirs>>,
         \A c \in Live : c = current_directory \/ mem'[c] = mem[c],
         clone[current_directory] = NoClone \/ mem'[current_directory] = mem[current_directory],
         current_directory \in dirs
  PROVE  CloneOK' /\ Live' = Live
  <1> USE Unpacked
  <1>1. Live' = Live
    BY DEF Live
  <1>2. ASSUME NEW s \in BLOCKS, clone[s] # NoClone
        PROVE  CopyOK(s, clone[s])'
    <2>1. s \in Live /\ clone[s].dest \in Live /\ clone[s].dest \notin dirs
      BY <1>2, CloneIs
    <2>2. mem'[s] = mem[s] /\ mem'[clone[s].dest] = mem[clone[s].dest]
      BY <1>2, <2>1
    <2>3. CopyOK(s, clone[s])
      BY DEF CloneOK
    <2> QED BY <2>2, <2>3 DEF CopyOK, Has
  <1>3. CloneOK'
    BY <1>2 DEF CloneOK, CopyOK
  <1> QED BY <1>1, <1>3

\* The TLB takes in an entry that is there.
LEMMA LoadOK ==
  ASSUME VmmInv, ~exited, NEW v \in Virt, Load(v)
  PROVE  VmmInv'
  <1> USE Unpacked
  <1>1. UNCHANGED <<used, mem, kernel_directory, current_directory, dirs, boot,
                    owner, clone, exposed, exited>>
    BY DEF Load
  <1>2. PICK x : x = Walk(current_directory, v)
    OBVIOUS
  <1>3. /\ x \in Entry \cup {Absent} /\ current_directory \in dirs
        /\ x = WalkIn(mem, current_directory, v)
    <2>1. current_directory \in dirs /\ v[1] \in Index /\ v[2] \in Index
      BY DEF Load, Virt
    <2>2. current_directory \in BLOCKS /\ mem \in Memory
      BY <2>1 DEF TypeOK, Memory, Row
    <2>3. \A b \in BLOCKS : mem[b][v[2]] \in Entry \cup {Absent}
      BY <2>1, <2>2 DEF Memory, Row
    <2> QED BY <1>2, <2>1, <2>3 DEF Walk, WalkIn
  <1>4. tlb' = [u \in Virt |-> IF u = v THEN x ELSE Absent]
    BY <1>2 DEF Load
  <1>5. tlb' \in [Virt -> Entry \cup {Absent}]
    BY <1>3, <1>4
  <1>6. TlbIn(mem', tlb', current_directory')
    BY <1>1, <1>3, <1>4 DEF TlbIn, Present
  <1>7. OtherTypes'
    BY <1>1, <1>5 DEF TypeOK, OtherTypes
  <1>8. BootOK' /\ CloneOK' /\ Live' = Live
    <2>1. BootOK'
      BY <1>1 DEF BootOK, Done
    <2> QED BY <1>1, <1>3, <2>1, SameClones
  <1> QED BY <1>1, <1>6, <1>7, <1>8, Repacked

\* hal_alloc_page.
LEMMA AllocPageOK ==
  ASSUME VmmInv, ~exited, AllocPage
  PROVE  VmmInv'
  <1> USE Unpacked
  <1>1. /\ UNCHANGED <<mem, kernel_directory, current_directory, tlb, dirs, boot,
                       clone, exposed, exited>>
        /\ boot = Done /\ current_directory \in dirs /\ current_directory \in BLOCKS
    BY DEF AllocPage, Running
  <1>2. PICK b \in BLOCKS \ used :
           owner' = [owner EXCEPT ![b] = current_directory] /\ used' = used \cup {b}
    BY DEF AllocPage, Allocates, Free
  <1>3. BootOK' /\ CloneOK' /\ Live' = Live
    <2>1. BootOK'
      BY <1>1 DEF BootOK, Done
    <2> QED BY <1>1, <2>1, SameClones
  <1>4. MemOK(mem', used', Live', owner', exposed')
    BY <1>1, <1>2, <1>3, GrowOK
  <1>5. OtherTypes'
    BY <1>1, <1>2 DEF TypeOK, OtherTypes
  <1> QED BY <1>1, <1>3, <1>4, <1>5, Repacked

\* A user space names a block only if a directory maps it.
LEMMA NamesMapped ==
  ASSUME VmmInv, ~exited, NEW b \in BLOCKS, ~Mapped(b), NEW d \in Live
  PROVE  ~Names(mem, d, b)
  <1> SUFFICES ASSUME NEW k \in User, NEW l \in Index, Has(mem, d, k),
                      mem[TableOf(mem, d, k)][l].frame = b
               PROVE  FALSE
    BY DEF Names
  <1> USE Unpacked
  <1>1. k \in Index
    BY DEF User
  <1>2. mem[d][k].frame \in BLOCKS /\ mem[d][k].frame = TableOf(mem, d, k)
    BY <1>1, TableInUse DEF TableOf
  <1>3. PICK w : w = <<k, l>>
    OBVIOUS
  <1>4. w \in User \X Index /\ w[1] = k /\ w[2] = l
    BY <1>3
  <1>5. Walk(d, w).frame = b
    BY <1>2, <1>4 DEF Walk
  <1> QED BY <1>4, <1>5 DEF Mapped

\* hal_free_page.
LEMMA FreePageOK ==
  ASSUME VmmInv, ~exited, NEW b \in BLOCKS, FreePage(b)
  PROVE  VmmInv'
  <1> USE Unpacked
  <1>1. /\ UNCHANGED <<mem, kernel_directory, current_directory, tlb, dirs, boot,
                       clone, exited>>
        /\ boot = Done /\ used' = used \ {b} /\ owner[b] # None
        /\ current_directory \in dirs
        /\ owner' = [owner EXCEPT ![b] = None]
        /\ exposed' = IF Mapped(b) THEN exposed \cup {b} ELSE exposed \ {b}
    BY DEF FreePage, Running
  <1>2. exposed \ {b} \subseteq exposed' /\ exposed' \subseteq BLOCKS
    BY <1>1
  <1>3. BootOK' /\ CloneOK' /\ Live' = Live
    <2>1. BootOK'
      BY <1>1 DEF BootOK, Done
    <2> QED BY <1>1, <2>1, SameClones
  <1>4. MemOK(mem', used', Live', owner', exposed')
    <2>1. b \in exposed' \/ \A d \in Live : ~Names(mem, d, b)
      BY <1>1, NamesMapped
    <2>2. PICK sh2 : sh2 = exposed'
      OBVIOUS
    <2>3. MemOK(mem, used \ {b}, Live, [owner EXCEPT ![b] = None], sh2)
      BY <1>1, <1>2, <2>1, <2>2, ReturnsOK
    <2> QED BY <1>1, <1>3, <2>2, <2>3
  <1>5. OtherTypes'
    BY <1>1, <1>2 DEF TypeOK, OtherTypes
  <1> QED BY <1>1, <1>3, <1>4, <1>5, Repacked

\* vmm_map_page in the current directory.
LEMMA MapOK ==
  ASSUME VmmInv, ~exited, NEW v \in Virt, NEW f \in BLOCKS \cup {KernelFrame},
         NEW w \in BOOLEAN, vmm_map_page(v, f, w)
  PROVE  VmmInv'
  <1> USE Unpacked
  <1>1. /\ UNCHANGED <<kernel_directory, current_directory, dirs, boot, owner,
                       clone, exited>>
        /\ boot = Done /\ current_directory \in dirs
        /\ clone[current_directory] = NoClone
        /\ f \in BLOCKS => owner[f] = current_directory
    BY DEF vmm_map_page, Running
  <1>2. PICK d \in dirs : d = current_directory
    BY <1>1
  <1>3. PICK e : e = [frame |-> f, writable |-> w]
    OBVIOUS
  <1>4. e \in Entry /\ e.frame = f
    BY <1>3 DEF Entry
  <1>5. BootOK'
    BY <1>1 DEF BootOK, Done
  <1>6. CASE /\ MapPage(d, v, e)
             /\ exposed' = IF f \in BLOCKS /\ MappedBut(f, d, v)
                             THEN exposed \cup {f} ELSE exposed
    <2>1. e.frame \in BLOCKS => owner[e.frame] # None
      BY <1>1, <1>2, <1>4
    <2>2. d \in Live /\ exposed \subseteq exposed' /\ exposed' \subseteq BLOCKS
      BY <1>6
    <2>3. /\ MemOK(mem', used', Live, owner, exposed')
          /\ used \subseteq used'
          /\ \A c \in Live \ {d} : mem'[c] = mem[c]
          /\ \A x \in Virt : x # v /\ Has(mem, d, x[1]) =>
                /\ mem'[d][x[1]] = mem[d][x[1]]
                /\ mem'[TableOf(mem, d, x[1])][x[2]] = mem[TableOf(mem, d, x[1])][x[2]]
      <3>1. PICK sh2 : sh2 = exposed' \cup (IF f \in BLOCKS THEN {} ELSE {f})
        OBVIOUS
      <3>2. exposed \subseteq sh2 /\ (e.frame \in sh2 \/ ~MappedBut(e.frame, d, v))
        BY <1>4, <1>6, <2>2, <3>1
      <3>3. /\ MemOK(mem', used', Live, owner, sh2)
            /\ used \subseteq used'
            /\ \A c \in Live \ {d} : mem'[c] = mem[c]
            /\ \A x \in Virt : x # v /\ Has(mem, d, x[1]) =>
                  /\ mem'[d][x[1]] = mem[d][x[1]]
                  /\ mem'[TableOf(mem, d, x[1])][x[2]] = mem[TableOf(mem, d, x[1])][x[2]]
        BY <1>4, <1>6, <2>1, <2>2, <3>2, MapPageOK
      <3>4. BLOCKS \ sh2 = BLOCKS \ exposed'
        BY <3>1
      <3>5. PICK now : now = exposed'
        OBVIOUS
      <3> QED BY <3>3, <3>4, <3>5, NoBlockOK
    <2>4. CloneOK' /\ Live' = Live
      BY <1>1, <1>2, <2>3, SameClones
    <2>5. /\ tlb' \in [Virt -> Entry \cup {Absent}]
          /\ \A x \in Virt : Present(tlb'[x]) => tlb'[x] = tlb[x]
          /\ ~Present(tlb'[v])
      BY <1>2, <1>6, FlushTypes DEF MapPage, TypeOK
    <2>6. TlbIn(mem', tlb', d)
      <3>1. TlbIn(mem, tlb, d)
        BY <1>2
      <3>2. \A x \in Virt : Present(tlb'[x]) /\ Has(mem, d, x[1]) =>
               /\ mem'[d][x[1]] = mem[d][x[1]]
               /\ mem'[TableOf(mem, d, x[1])][x[2]] = mem[TableOf(mem, d, x[1])][x[2]]
        BY <2>3, <2>5
      <3> QED BY <2>2, <2>5, <3>1, <3>2, TlbKeeps
    <2>7. OtherTypes'
      BY <1>1, <2>2, <2>5 DEF TypeOK, OtherTypes
    <2> QED BY <1>1, <1>2, <1>5, <2>3, <2>4, <2>6, <2>7, Repacked
  <1>7. CASE UNCHANGED <<used, mem, tlb, exposed>>
    <2>1. CloneOK' /\ Live' = Live
      BY <1>1, <1>7, SameClones
    <2>2. OtherTypes'
      BY <1>1, <1>7 DEF TypeOK, OtherTypes
    <2> QED BY <1>1, <1>5, <1>7, <2>1, <2>2, Repacked
  <1> QED BY <1>2, <1>3, <1>6, <1>7 DEF vmm_map_page

\* vmm_unmap_page in the current directory.
LEMMA UnmapOK ==
  ASSUME VmmInv, ~exited, NEW v \in Virt, vmm_unmap_page(v)
  PROVE  VmmInv'
  <1> USE Unpacked
  <1>1. /\ UNCHANGED <<used, kernel_directory, current_directory, dirs, boot,
                       owner, clone, exposed, exited>>
        /\ boot = Done /\ current_directory \in dirs
        /\ clone[current_directory] = NoClone
        /\ FlushEntry(current_directory, v)
    BY DEF vmm_unmap_page, Running
  <1>2. PICK d \in dirs : d = current_directory
    BY <1>1
  <1>3. PICK i \in Index, j \in Index : i = v[1] /\ j = v[2]
    BY DEF Virt
  <1>4. PICK t : t = TableOf(mem, d, i)
    OBVIOUS
  <1>5. Has(mem, d, i) /\ mem' = Put(mem, t, j, Absent)
    BY <1>2, <1>3, <1>4 DEF vmm_unmap_page, Has, TableOf, Put
  <1>6. Writes(mem, used, Live, owner, exposed, d, i, j, Absent, mem')
    <2>1. MayHold(mem, used, Live, exposed, d, i, j, Absent)
      BY AbsentNamesNothing DEF MayHold
    <2> QED BY <1>4, <1>5, <2>1 DEF Writes
  <1>7. /\ MemOK(mem', used, Live, owner, exposed)
        /\ \A c \in Live : mem'[c] = mem[c]
        /\ \A b \in BLOCKS \ {t} : mem'[b] = mem[b]
        /\ \A l \in Index \ {j} : mem'[t][l] = mem[t][l]
    BY <1>4, <1>6, WriteOK
  <1>8. CloneOK' /\ Live' = Live
    BY <1>1, <1>7, SameClones
  <1>9. /\ tlb' \in [Virt -> Entry \cup {Absent}]
        /\ \A x \in Virt : Present(tlb'[x]) => tlb'[x] = tlb[x]
        /\ ~Present(tlb'[v])
    BY <1>1, FlushTypes DEF TypeOK
  <1>10. TlbIn(mem', tlb', d)
    <2>1. TlbIn(mem, tlb, d)
      BY <1>2
    <2>2. ASSUME NEW x \in Virt, Present(tlb'[x]), Has(mem, d, x[1])
          PROVE  /\ mem'[d][x[1]] = mem[d][x[1]]
                 /\ mem'[TableOf(mem, d, x[1])][x[2]] = mem[TableOf(mem, d, x[1])][x[2]]
      <3>1. x # v
        BY <1>9, <2>2
      <3>2. x[1] \in Index /\ x[2] \in Index /\ (x[1] = i => x[2] # j)
        BY <1>3, <3>1 DEF Virt
      <3>3. TableOf(mem, d, x[1]) \in BLOCKS
        BY <2>2, <3>2, TableInUse
      <3>4. TableOf(mem, d, x[1]) = t => x[1] = i
        BY <1>4, <1>5, <2>2, <3>2 DEF MemOK, TablesApart
      <3> QED BY <1>7, <3>2, <3>3, <3>4
    <2>3. d \in Live
      OBVIOUS
    <2> QED BY <1>9, <2>1, <2>2, <2>3, TlbKeeps
  <1>11. OtherTypes'
    BY <1>1, <1>9 DEF TypeOK, OtherTypes
  <1>12. BootOK'
    BY <1>1 DEF BootOK, Done
  <1> QED BY <1>1, <1>2, <1>7, <1>8, <1>10, <1>11, <1>12, Repacked

\* A switch of directories empties the TLB.
LEMMA SwitchOK ==
  ASSUME VmmInv, ~exited, NEW d \in dirs, vmm_switch_page_directory(d)
  PROVE  VmmInv'
  <1> USE Unpacked
  <1>1. /\ UNCHANGED <<used, mem, kernel_directory, dirs, boot, owner, clone,
                       exposed, exited>>
        /\ boot = Done /\ Switch(d) /\ d \in BLOCKS
    BY DEF vmm_switch_page_directory
  <1>2. /\ tlb' \in [Virt -> Entry \cup {Absent}]
        /\ current_directory' = d /\ TlbIn(mem', tlb', d)
    BY <1>1, EmptyTlb DEF Switch
  <1>3. OtherTypes'
    BY <1>1, <1>2 DEF TypeOK, OtherTypes
  <1>4. CloneOK' /\ Live' = Live
    BY <1>1 DEF CloneOK, CopyOK, Live, Has
  <1>5. BootOK'
    BY <1>1 DEF BootOK, Done
  <1> QED BY <1>1, <1>2, <1>3, <1>4, <1>5, Repacked

\* What vmm_free_directory gives back is the directory and its tables.
LEMMA ReleaseIs ==
  ASSUME NEW d
  PROVE  /\ Release(d) \subseteq used
         /\ \A b \in used \ Release(d) :
               b = d \/ \E i \in Index : Has(mem, d, i) /\ TableOf(mem, d, i) = b
  BY DEF Release, Tables, Has, TableOf

\* A directory without kernel tables goes with nothing that another one needs.
LEMMA DropDirectory ==
  ASSUME VmmInv, ~exited, NEW d \in Live, \A i \in Kernel : ~Has(mem, d, i),
         used' = Release(d), Disown(d), mem' = mem, exposed' = exposed,
         NEW less, less \subseteq Live \ {d}
  PROVE  MemOK(mem', used', less, owner', exposed')
  <1> USE Unpacked
  <1>1. PICK w : w = Release(d)
    OBVIOUS
  <1>2. w \subseteq used /\ \A b \in used \ w :
             b = d \/ \E i \in Index : Has(mem, d, i) /\ TableOf(mem, d, i) = b
    BY <1>1, ReleaseIs
  <1>3. MemOK(mem, w, Live \ {d}, owner, exposed)
    BY <1>2, DropOK
  <1>4. MemOK(mem, w, less, owner, exposed)
    BY <1>3, ForgetOK
  <1>5. MemOK(mem, w, less,
              [b \in BLOCKS |-> IF owner[b] = d THEN None ELSE owner[b]], exposed)
    BY <1>4, DisownOK
  <1> QED BY <1>1, <1>5 DEF Disown

\* With the first directory that has kernel tables the model ends, and only the
\* types are left.
LEMMA FreeDirectoryOK ==
  ASSUME VmmInv, ~exited, NEW d \in dirs, vmm_free_directory(d)
  PROVE  VmmInv'
  <1> USE Unpacked
  <1>1. /\ UNCHANGED <<mem, kernel_directory, current_directory, tlb, boot, exposed>>
        /\ boot = Done /\ d \in BLOCKS
        /\ used' = Release(d) /\ dirs' = dirs \ {d} /\ Disown(d)
        /\ clone' = [clone EXCEPT ![d] = NoClone]
        /\ exited' = (exited \/ \E i \in Kernel : Present(mem[d][i]))
    BY DEF vmm_free_directory
  <1>a. NoClone \in CloneType
    BY VmmAssumption DEF NoClone, CloneType, Index
  <1>b. clone' \in [BLOCKS -> CloneType]
    BY <1>1, <1>a
  <1>2. CASE \E i \in Kernel : Has(mem, d, i)
    <2>1. exited' = TRUE
      BY <1>1, <1>2 DEF Has
    <2>2. owner' \in [BLOCKS -> BLOCKS \cup {None}]
      BY <1>1 DEF Disown, TypeOK
    <2>3. TypeOK'
      BY <1>1, <1>b, <2>1, <2>2, ReleaseIs DEF TypeOK, CloneType
    <2> QED BY <2>1, <2>3 DEF VmmInv
  <1>3. CASE \A i \in Kernel : ~Has(mem, d, i)
    <2>1. exited' = FALSE
      BY <1>1, <1>3 DEF Has
    <2>2. ASSUME NEW s \in BLOCKS, clone'[s] # NoClone
          PROVE  /\ s # d /\ clone'[s] = clone[s] /\ clone[s] # NoClone
                 /\ clone[s].dest \in Live \ {d}
      <3>1. s # d /\ clone'[s] = clone[s] /\ clone[s] # NoClone
        BY <1>1, <2>2
      <3> QED BY <3>1, CloneIs
    <2>3. Live' \subseteq Live \ {d}
      <3> SUFFICES ASSUME NEW s \in BLOCKS, clone'[s].dest # None
                   PROVE  clone'[s].dest \in Live \ {d}
        BY <1>1 DEF Live
      <3>1. clone'[s] # NoClone
        BY DEF NoClone
      <3> QED BY <2>2, <3>1
    <2>4. MemOK(mem', used', Live', owner', exposed')
      <3>1. PICK less : less = Live'
        OBVIOUS
      <3> QED BY <1>1, <1>3, <2>3, <3>1, DropDirectory
    <2>5. CloneOK'
      <3> SUFFICES ASSUME NEW s \in BLOCKS, clone'[s] # NoClone
                   PROVE  CopyOK(s, clone[s])'
        BY DEF CloneOK, CopyOK
      <3>1. CopyOK(s, clone[s]) /\ clone'[s] = clone[s] /\ s # d /\ clone[s] # NoClone
        BY <2>2 DEF CloneOK
      <3>2. clone[s].dest \in BLOCKS
        BY <3>1, CloneIs
      <3>3. ASSUME NEW q \in BLOCKS, clone'[q].dest = clone[s].dest PROVE q = s
        <4>1. clone'[q] # NoClone
          BY <3>2, <3>3, VmmAssumption DEF NoClone
        <4>2. clone'[q] = clone[q]
          BY <2>2, <4>1
        <4> QED BY <3>1, <3>3, <4>2 DEF CopyOK
      <3>4. s \in dirs' /\ clone[s].dest \in BLOCKS \ dirs'
        BY <1>1, <3>1 DEF CopyOK
      <3> QED BY <1>1, <3>1, <3>3, <3>4 DEF CopyOK, Has
    <2>6. OtherTypes'
      BY <1>1, <1>b, <2>1 DEF TypeOK, OtherTypes
    <2>7. BootOK'
      BY <1>1 DEF BootOK, Done
    <2>8. current_directory' \in dirs' => TlbIn(mem', tlb', current_directory')
      BY <1>1
    <2> QED BY <2>4, <2>5, <2>6, <2>7, <2>8, Repacked
  <1> QED BY <1>2, <1>3

-----------------------------------------------------------------------------
(* vmm_clone_directory.                                                    *)

\* The outer loop goes on.
LEMMA NextSlotIs ==
  ASSUME Copy \in CloneType, Copy.i < ENTRIES
  PROVE  /\ NextSlot \in CloneType
         /\ NextSlot.dest = Copy.dest /\ NextSlot.i = Copy.i + 1
  <1>1. PICK x \in CloneType : x = Copy
    OBVIOUS
  <1>2. PICK n \in 0 .. ENTRIES : n = Copy.i + 1
    BY <1>1, VmmAssumption DEF CloneType
  <1>3. 0 \in Index
    BY VmmAssumption DEF Index
  <1>4. NextSlot = [x EXCEPT !.i = n, !.j = 0]
    BY <1>1, <1>2, Zenon DEF NextSlot
  <1> QED BY <1>1, <1>2, <1>3, <1>4 DEF CloneType

\* The inner loop goes on, or ends.
LEMMA NextEntryIs ==
  ASSUME Copy \in CloneType, Copy.i < ENTRIES
  PROVE  /\ NextEntry \in CloneType /\ NextEntry.dest = Copy.dest
         /\ NextEntry.i = Copy.i \/ NextEntry.i = Copy.i + 1
  <1>1. CASE Copy.j + 1 < ENTRIES
    <2>1. PICK x \in CloneType : x = Copy
      OBVIOUS
    <2>2. PICK n \in Index : n = Copy.j + 1
      BY <1>1, <2>1, VmmAssumption DEF CloneType, Index
    <2>3. NextEntry = [x EXCEPT !.j = n]
      BY <1>1, <2>1, <2>2 DEF NextEntry
    <2> QED BY <2>1, <2>2, <2>3 DEF CloneType
  <1>2. CASE ~(Copy.j + 1 < ENTRIES)
    BY <1>2, NextSlotIs DEF NextEntry
  <1> QED BY <1>1, <1>2

\* What all the steps of a clone under way begin with.
LEMMA CloningFacts ==
  ASSUME VmmInv, ~exited, Cloning
  PROVE  /\ Copy # NoClone /\ Copy = clone[current_directory]
         /\ current_directory \in dirs /\ current_directory \in BLOCKS
         /\ current_directory \in Live
         /\ Copy.dest \in BLOCKS \ dirs /\ Copy.dest \in Live
         /\ current_directory # Copy.dest /\ boot = Done
         /\ Copy \in CloneType /\ CopyOK(current_directory, Copy)
         /\ Copy.i \in 0 .. ENTRIES /\ Copy.j \in Index
         /\ TlbIn(mem, tlb, current_directory)
  <1> USE Unpacked
  <1>1. /\ Copy # NoClone /\ Copy = clone[current_directory]
        /\ current_directory \in dirs /\ current_directory \in BLOCKS
    BY DEF Cloning, Copy
  <1>2. Copy \in CloneType /\ CopyOK(current_directory, Copy)
    BY <1>1 DEF CloneOK
  <1>3. Copy.dest \in BLOCKS \ dirs /\ Copy.dest \in Live /\ boot = Done
    BY <1>1, CloneIs
  <1>4. Copy.i \in 0 .. ENTRIES /\ Copy.j \in Index
    BY <1>2 DEF CloneType
  <1> QED BY <1>1, <1>2, <1>3, <1>4

\* The other clones when the running process's own goes to x.
LEMMA OtherClones ==
  ASSUME VmmInv, ~exited, current_directory \in dirs,
         NEW x \in CloneType, clone' = [clone EXCEPT ![current_directory] = x]
  PROVE  /\ clone' \in [BLOCKS -> CloneType] /\ clone'[current_directory] = x
         /\ \A r \in BLOCKS \ {current_directory} : clone'[r] = clone[r]
  BY Unpacked

\* The memory and the clones after a step of a clone that goes on.
LEMMA CloneStep ==
  ASSUME VmmInv, ~exited, Cloning, UNCHANGED <<dirs, OtherVars>>,
         NEW x \in CloneType, clone' = [clone EXCEPT ![current_directory] = x],
         x.dest = Copy.dest, x.i = Copy.i \/ x.i = Copy.i + 1,
         MemOK(mem', used', Live, owner', exposed),
         \A a \in Live \ {Copy.dest} : mem'[a] = mem[a],
         \A k \in Index : k > Copy.i => mem'[Copy.dest][k] = mem[Copy.dest][k],
         \A k \in Index : k = x.i /\ k = Copy.i /\ Has(mem', Copy.dest, k) =>
            k \in User /\ Has(mem, current_directory, k),
         \A v \in Virt : Has(mem, current_directory, v[1]) =>
            mem'[TableOf(mem, current_directory, v[1])][v[2]]
              = mem[TableOf(mem, current_directory, v[1])][v[2]]
  PROVE  VmmInv'
  <1> USE Unpacked, CloningFacts
  <1>1. UNCHANGED <<dirs, kernel_directory, current_directory, tlb, boot, exposed, exited>>
    BY DEF OtherVars
  <1>2. PICK s \in dirs : s = current_directory /\ s \in BLOCKS
    OBVIOUS
  <1>3. /\ clone' \in [BLOCKS -> CloneType] /\ clone'[s] = x
        /\ \A r \in BLOCKS \ {s} : clone'[r] = clone[r]
    BY <1>2, OtherClones
  <1>4. \A r \in BLOCKS : clone'[r].dest = clone[r].dest
    BY <1>2, <1>3
  <1>5. Live' = Live
    BY <1>1, <1>4 DEF Live
  <1>6. OtherTypes'
    BY <1>1, <1>3 DEF TypeOK, OtherTypes
  <1>7. BootOK'
    BY <1>1 DEF BootOK, Done
  <1>8. mem'[s] = mem[s]
    BY <1>2
  <1>9. CopyOK(s, clone[s])'
    <2>1. ASSUME NEW k \in Index, k > x.i
          PROVE  mem'[x.dest][k] = Absent
      <3>1. k > Copy.i
        BY <2>1 DEF Index
      <3> QED BY <3>1 DEF CopyOK
    <2>2. ASSUME NEW k \in Index, k = x.i, Has(mem', x.dest, k)
          PROVE  k \in User /\ Has(mem', s, k)
      <3>1. CASE k = Copy.i
        BY <1>2, <1>8, <2>2, <3>1 DEF Has
      <3>2. CASE k = Copy.i + 1
        <4>1. k > Copy.i
          BY <3>2
        <4>2. mem'[Copy.dest][k] = Absent
          BY <4>1 DEF CopyOK
        <4> QED BY <2>2, <4>2 DEF Has, Present
      <3> QED BY <2>2, <3>1, <3>2
    <2>3. s \in dirs /\ x.dest \in BLOCKS \ dirs
          /\ \A r \in BLOCKS : clone'[r].dest = x.dest => r = s
      BY <1>2, <1>4 DEF CopyOK
    <2> QED BY <1>1, <1>3, <2>1, <2>2, <2>3 DEF CopyOK
  <1>10. ASSUME NEW r \in BLOCKS, r # s, clone[r] # NoClone
         PROVE  CopyOK(r, clone[r])'
    <2>1. /\ CopyOK(r, clone[r]) /\ r \in Live /\ r \in dirs
          /\ clone[r].dest \in Live /\ clone'[r] = clone[r]
      BY <1>3, <1>10, CloneIs DEF CloneOK
    <2>2. r # Copy.dest /\ clone[r].dest # Copy.dest
      BY <1>2, <1>10, <2>1 DEF CopyOK
    <2>3. mem'[r] = mem[r] /\ mem'[clone[r].dest] = mem[clone[r].dest]
      BY <2>1, <2>2
    <2> QED BY <1>1, <1>4, <2>1, <2>3 DEF CopyOK, Has
  <1>11. CloneOK'
    <2> SUFFICES ASSUME NEW r \in BLOCKS, clone'[r] # NoClone
                 PROVE  CopyOK(r, clone[r])'
      BY DEF CloneOK, CopyOK
    <2>1. r # s => clone[r] # NoClone
      BY <1>3
    <2> QED BY <1>9, <1>10, <2>1
  <1>12. TlbIn(mem', tlb', s)
    <2>1. \A v \in Virt : Has(mem, s, v[1]) =>
             /\ mem'[s][v[1]] = mem[s][v[1]]
             /\ mem'[TableOf(mem, s, v[1])][v[2]] = mem[TableOf(mem, s, v[1])][v[2]]
      BY <1>2, <1>8
    <2>2. TlbIn(mem, tlb, s) /\ s \in Live
      BY <1>2
    <2> QED BY <1>1, <2>1, <2>2, TlbKeeps
  <1> QED BY <1>1, <1>2, <1>5, <1>6, <1>7, <1>11, <1>12, Repacked

\* A block that was free is not a table, nor a directory.
LEMMA FreeIsFresh ==
  ASSUME VmmInv, ~exited, NEW b, Allocates(b)
  PROVE  /\ b \in BLOCKS \ used /\ b \notin Live
         /\ \A d \in Live : \A i \in Index : Has(mem, d, i) => TableOf(mem, d, i) # b
  <1> USE Unpacked
  <1>1. b \in BLOCKS \ used
    BY DEF Allocates, Free
  <1>2. \A d \in Live : \A i \in Index : Has(mem, d, i) => TableOf(mem, d, i) # b
    BY <1>1, TableInUse
  <1> QED BY <1>1, <1>2

\* A clone starts with an empty directory that nobody uses.
LEMMA CloneBeginOK ==
  ASSUME VmmInv, ~exited, CloneBegin
  PROVE  VmmInv'
  <1> USE Unpacked
  <1>1. /\ UNCHANGED <<dirs, owner, kernel_directory, current_directory, tlb, boot,
                       exposed, exited>>
        /\ boot = Done /\ current_directory \in dirs
        /\ clone[current_directory] = NoClone
    BY DEF CloneBegin, OtherVars, Running
  <1>2. PICK b \in BLOCKS :
           /\ Allocates(b) /\ mem' = [mem EXCEPT ![b] = Zeroes]
           /\ used' = used \cup {b}
           /\ clone' = [clone EXCEPT ![current_directory] = [NoClone EXCEPT !.dest = b]]
    BY DEF CloneBegin, Goes
  <1>3. PICK s \in dirs : s = current_directory /\ s \in BLOCKS
    BY <1>1
  <1>4. PICK x : x = [dest |-> b, i |-> 0, j |-> 0]
    OBVIOUS
  <1>5. x \in CloneType /\ x.dest = b /\ x.i = 0
    BY <1>4, VmmAssumption DEF CloneType, Index
  <1>6. clone' = [clone EXCEPT ![current_directory] = x]
    <2>1. x = [NoClone EXCEPT !.dest = b]
      BY <1>4 DEF NoClone
    <2> QED BY <1>2, <2>1, Zenon
  <1>7. /\ clone' \in [BLOCKS -> CloneType] /\ clone'[s] = x
        /\ \A r \in BLOCKS \ {s} : clone'[r] = clone[r]
    BY <1>3, <1>5, <1>6, OtherClones
  <1>8. b \in BLOCKS \ used /\ b \notin Live
    BY <1>2, FreeIsFresh
  <1>9. mem' = Clear(mem, b)
    BY <1>2 DEF Clear
  <1>10. /\ MemOK(mem', used \cup {b}, Live \cup {b}, owner, exposed)
         /\ \A k \in Index : mem'[b][k] = Absent
         /\ \A a \in BLOCKS \ {b} : mem'[a] = mem[a]
    BY <1>8, <1>9, NewDirOK
  <1>11. ASSUME NEW r \in BLOCKS, clone[r] # NoClone
         PROVE  r # s /\ r \in dirs /\ clone[r].dest \in Live /\ clone[r].dest # b
    BY <1>1, <1>3, <1>8, <1>11, CloneIs
  <1>12. Live' \subseteq Live \cup {b}
    BY <1>1, <1>3, <1>5, <1>7 DEF Live
  <1>13. CloneOK'
    <2>1. CopyOK(s, clone[s])'
      <3>1. ASSUME NEW r \in BLOCKS, clone'[r].dest = b PROVE r = s
        <4> SUFFICES ASSUME r # s PROVE FALSE
          OBVIOUS
        <4>1. clone[r].dest = b
          BY <1>7, <3>1
        <4> QED BY <1>11, <4>1, StillCloning
      <3> QED BY <1>1, <1>3, <1>5, <1>7, <1>8, <1>10, <3>1 DEF CopyOK, Has, Present
    <2>2. ASSUME NEW r \in BLOCKS, clone'[r] # NoClone, r # s
          PROVE  CopyOK(r, clone[r])'
      <3>1. clone'[r] = clone[r] /\ clone[r] # NoClone
        BY <1>7, <2>2
      <3>2. /\ CopyOK(r, clone[r]) /\ clone[r].dest # b /\ r # b
            /\ clone[r].dest \in BLOCKS
        BY <1>8, <1>11, <3>1 DEF CloneOK
      <3>3. mem'[r] = mem[r] /\ mem'[clone[r].dest] = mem[clone[r].dest]
        BY <1>10, <3>2
      <3>4. \A q \in BLOCKS : clone'[q].dest = clone[r].dest => q = r
        BY <1>3, <1>5, <1>7, <3>1, <3>2 DEF CopyOK
      <3>5. /\ \A k \in Index : k > clone[r].i => mem'[clone[r].dest][k] = Absent
            /\ \A k \in Index : k = clone[r].i /\ Has(mem', clone[r].dest, k)
                  => k \in User /\ Has(mem', r, k)
        BY <3>1, <3>2, <3>3 DEF CopyOK, Has
      <3>6. r \in dirs' /\ clone[r].dest \in BLOCKS \ dirs'
        BY <1>1, <3>1, <3>2 DEF CopyOK
      <3> QED BY <3>1, <3>4, <3>5, <3>6 DEF CopyOK
    <2> QED BY <2>1, <2>2 DEF CloneOK, CopyOK
  <1>14. OtherTypes'
    BY <1>1, <1>7 DEF TypeOK, OtherTypes
  <1>15. TlbIn(mem', tlb', s)
    <2>1. s \in Live /\ s \in BLOCKS \ {b}
      BY <1>3, <1>8
    <2>2. ASSUME NEW v \in Virt, Has(mem, s, v[1])
          PROVE  /\ mem'[s][v[1]] = mem[s][v[1]]
                 /\ mem'[TableOf(mem, s, v[1])][v[2]] = mem[TableOf(mem, s, v[1])][v[2]]
      <3>1. v[1] \in Index
        BY DEF Virt
      <3>2. TableOf(mem, s, v[1]) \in BLOCKS \ {b}
        BY <1>8, <2>1, <2>2, <3>1, TableInUse
      <3> QED BY <1>10, <2>1, <3>2
    <2>3. TlbIn(mem, tlb, s)
      BY <1>3
    <2> QED BY <1>1, <2>1, <2>2, <2>3, TlbKeeps
  <1>16. BootOK'
    BY <1>1 DEF BootOK, Done
  <1>17. MemOK(mem', used', Live', owner', exposed')
    BY <1>1, <1>2, <1>10, <1>12, ForgetOK
  <1> QED BY <1>1, <1>3, <1>13, <1>14, <1>15, <1>16, <1>17, Repacked

\* A slot that is empty, or a kernel slot, which is copied.
LEMMA CloneSlotOK ==
  ASSUME VmmInv, ~exited, CloneSlot
  PROVE  VmmInv'
  <1>0. Cloning
    BY DEF CloneSlot
  <1> USE Unpacked, CloningFacts, <1>0
  <1>1. PICK s \in Live, d \in Live : s = current_directory /\ d = Copy.dest
    OBVIOUS
  <1>2. PICK i \in Index : i = Copy.i
    BY VmmAssumption DEF CloneSlot, Index
  <1>3. /\ ~Has(mem, s, i) \/ i \in Kernel
        /\ mem' = Put(mem, d, i, mem[s][i])
        /\ Goes(NextSlot) /\ UNCHANGED <<used, dirs, owner, OtherVars>>
    <2>1. ~Present(mem[s][i]) \/ i >= KERNEL_SLOT
      BY <1>1, <1>2 DEF CloneSlot
    <2>2. i >= KERNEL_SLOT => i \in Kernel
      BY VmmAssumption DEF Kernel, User, Index
    <2> QED BY <1>1, <1>2, <2>1, <2>2 DEF CloneSlot, Has, Put
  <1>4. ~Has(mem, d, i)
    BY <1>1, <1>2, <1>3 DEF CopyOK, Kernel
  <1>5. /\ MemOK(mem', used, Live, owner, exposed)
        /\ \A a \in BLOCKS \ {d} : mem'[a] = mem[a]
        /\ \A k \in Index \ {i} : mem'[d][k] = mem[d][k]
    <2>1. s # d
      BY <1>1
    <2> QED BY <1>3, <1>4, <2>1, CopySlotOK
  <1>6. PICK x : x = NextSlot
    OBVIOUS
  <1>7. x \in CloneType /\ x.dest = Copy.dest /\ x.i = Copy.i + 1
    <2>1. Copy.i < ENTRIES
      BY DEF CloneSlot
    <2> QED BY <1>6, <2>1, NextSlotIs
  <1>8. \A v \in Virt : Has(mem, s, v[1]) =>
            mem'[TableOf(mem, s, v[1])][v[2]] = mem[TableOf(mem, s, v[1])][v[2]]
    <2> SUFFICES ASSUME NEW v \in Virt, Has(mem, s, v[1])
                 PROVE  mem'[TableOf(mem, s, v[1])] = mem[TableOf(mem, s, v[1])]
      OBVIOUS
    <2>1. v[1] \in Index
      BY DEF Virt
    <2>2. TableOf(mem, s, v[1]) \in BLOCKS \ {d}
      BY <2>1, TableInUse
    <2> QED BY <1>5, <2>2
  <1>9. \A a \in Live \ {Copy.dest} : mem'[a] = mem[a]
    BY <1>1, <1>5
  <1>10. \A k \in Index : k > Copy.i => mem'[Copy.dest][k] = mem[Copy.dest][k]
    BY <1>1, <1>2, <1>5 DEF Index
  <1>11. \A k \in Index : ~(k = x.i /\ k = Copy.i)
    BY <1>2, <1>7 DEF Index
  <1>12. clone' = [clone EXCEPT ![current_directory] = x]
    BY <1>3, <1>6 DEF Goes
  <1> QED BY <1>1, <1>3, <1>5, <1>7, <1>8, <1>9, <1>10, <1>11, <1>12, CloneStep

\* A slot of user space gets a table of its own.
LEMMA CloneTableOK ==
  ASSUME VmmInv, ~exited, CloneTable
  PROVE  VmmInv'
  <1>0. Cloning
    BY DEF CloneTable, NeedsTable
  <1> USE Unpacked, CloningFacts, <1>0
  <1>1. PICK s \in Live, d \in Live : s = current_directory /\ d = Copy.dest
    OBVIOUS
  <1>2. PICK i \in Index : i = Copy.i /\ i \in User
    BY VmmAssumption DEF CloneTable, NeedsTable, Index, User
  <1>3. /\ Has(mem, s, i) /\ ~Has(mem, d, i)
        /\ UNCHANGED <<dirs, owner, clone, OtherVars>>
    BY <1>1, <1>2 DEF CloneTable, NeedsTable, Has
  <1>4. PICK t : Allocates(t) /\ mem' = MemWithTable(d, i, t) /\ used' = used \cup {t}
    BY <1>1, <1>2 DEF CloneTable
  <1>5. /\ t \in BLOCKS \ used /\ t \notin Live
        /\ \A k \in Index : Has(mem, s, k) => TableOf(mem, s, k) # t
    BY <1>4, FreeIsFresh
  <1>6. mem' = Enter(mem, d, i, t)
    BY <1>3, <1>4 DEF MemWithTable, Enter, Has
  <1>7. /\ MemOK(mem', used \cup {t}, Live, owner, exposed)
        /\ \A b \in BLOCKS \ {t, d} : mem'[b] = mem[b]
        /\ \A k \in Index \ {i} : mem'[d][k] = mem[d][k]
    BY <1>3, <1>5, <1>6, NewTableOK
  <1>8. \A v \in Virt : Has(mem, s, v[1]) =>
            mem'[TableOf(mem, s, v[1])][v[2]] = mem[TableOf(mem, s, v[1])][v[2]]
    <2> SUFFICES ASSUME NEW v \in Virt, Has(mem, s, v[1])
                 PROVE  mem'[TableOf(mem, s, v[1])] = mem[TableOf(mem, s, v[1])]
      OBVIOUS
    <2>1. v[1] \in Index
      BY DEF Virt
    <2>2. TableOf(mem, s, v[1]) \in BLOCKS \ {t, d}
      BY <1>5, <2>1, TableInUse
    <2> QED BY <1>7, <2>2
  <1>9. \A a \in Live \ {Copy.dest} : mem'[a] = mem[a]
    BY <1>1, <1>5, <1>7
  <1>10. \A k \in Index : k > Copy.i => mem'[Copy.dest][k] = mem[Copy.dest][k]
    BY <1>1, <1>2, <1>7 DEF Index
  <1>11. \A k \in Index : k = Copy.i /\ k = Copy.i /\ Has(mem', Copy.dest, k)
            => k \in User /\ Has(mem, s, k)
    BY <1>1, <1>2, <1>3
  <1>12. clone' = [clone EXCEPT ![current_directory] = Copy]
    BY <1>3 DEF Copy
  <1>13. PICK x : x = Copy
    OBVIOUS
  <1> QED BY <1>1, <1>3, <1>4, <1>7, <1>8, <1>9, <1>10, <1>11, <1>12, <1>13, CloneStep

\* A page that is shared is exposed or one that nobody may write; a page that is
\* copied is in a block that was free.
LEMMA CloneEntryOK ==
  ASSUME VmmInv, ~exited, CloneEntry
  PROVE  VmmInv'
  <1>0. Cloning
    BY DEF CloneEntry, InTable
  <1> USE Unpacked, CloningFacts, <1>0
  <1>1. PICK s \in Live, d \in Live : s = current_directory /\ d = Copy.dest
    OBVIOUS
  <1>2. PICK i \in Index : i = Copy.i /\ i \in User
    BY VmmAssumption DEF CloneEntry, InTable, Index, User
  <1>3. PICK j \in Index : j = Copy.j
    OBVIOUS
  <1>4. Has(mem, d, i)
    BY <1>1, <1>2 DEF CloneEntry, InTable, Has
  <1>5. Has(mem, s, i) /\ TableOf(mem, s, i) \in BLOCKS
    <2>1. Has(mem, s, i)
      BY <1>1, <1>2, <1>4 DEF CopyOK
    <2> QED BY <2>1, TableInUse
  <1>6. PICK x : x = SrcEntry
    OBVIOUS
  <1>7. x = mem[TableOf(mem, s, i)][j] /\ x \in Entry \cup {Absent}
    <2>1. x = mem[TableOf(mem, s, i)][j]
      BY <1>1, <1>2, <1>3, <1>6 DEF SrcEntry, TableOf
    <2> QED BY <1>5, <2>1 DEF MemOK, Memory, Row
  <1>8. PICK e \in Entry \cup {Absent} :
           /\ \/ e = x /\ ~NeedsCopy(e) /\ UNCHANGED <<used, owner>>
              \/ \E b \in BLOCKS : /\ NeedsCopy(x) /\ Allocates(b)
                                   /\ e = [x EXCEPT !.frame = b]
                                   /\ used' = used \cup {b}
                                   /\ owner' = [owner EXCEPT ![b] = d]
           /\ mem' = Put(mem, TableOf(mem, d, i), j, e)
    BY <1>1, <1>2, <1>3, <1>6 DEF CloneEntry, Put, TableOf
  <1>9. Goes(NextEntry) /\ UNCHANGED <<dirs, OtherVars>>
    BY DEF CloneEntry
  <1>10. /\ MemOK(mem, used', Live, owner', exposed)
         /\ MayHold(mem, used', Live, exposed, d, i, j, e)
    <2>1. CASE e = x /\ ~NeedsCopy(e) /\ UNCHANGED <<used, owner>>
      <3>1. e.frame \in BLOCKS \ exposed =>
               /\ e.frame \in used /\ e.frame \notin Live
               /\ \A a \in Live : \A k \in Index :
                     Has(mem, a, k) => TableOf(mem, a, k) # e.frame
        BY <1>2, <1>5, <1>7, <2>1 DEF MemOK, PagesOK
      <3>2. e.frame \in BLOCKS => ~e.writable
        BY <2>1, AbsentNamesNothing DEF NeedsCopy, Present
      <3>3. ASSUME NEW a \in Live, NEW k \in User, NEW l \in Index, Has(mem, a, k),
                   mem[TableOf(mem, a, k)][l].frame = e.frame,
                   e.frame \in BLOCKS \ exposed,
                   mem[TableOf(mem, a, k)][l].writable
            PROVE  FALSE
        <4>1. PICK y : y = mem[TableOf(mem, a, k)][l]
          OBVIOUS
        <4>2. a = s /\ k = i /\ l = j
          BY <1>2, <1>5, <1>7, <2>1, <3>3 DEF MemOK, WritableApart
        <4> QED BY <1>7, <2>1, <3>2, <3>3, <4>2
      <3> QED BY <2>1, <3>1, <3>2, <3>3 DEF MayHold
    <2>2. ASSUME NEW b \in BLOCKS, NeedsCopy(x), Allocates(b),
                 e = [x EXCEPT !.frame = b], used' = used \cup {b},
                 owner' = [owner EXCEPT ![b] = d]
          PROVE  /\ MemOK(mem, used', Live, owner', exposed)
                 /\ MayHold(mem, used', Live, exposed, d, i, j, e)
      <3>1. /\ b \notin used /\ b \notin Live
            /\ \A a \in Live : \A k \in Index :
                  Has(mem, a, k) => TableOf(mem, a, k) # b
        BY <2>2, FreeIsFresh
      <3>2. e.frame = b
        <4>1. x \in Entry
          BY <1>7, <2>2 DEF NeedsCopy, Present
        <4> QED BY <2>2, <4>1 DEF Entry
      <3>3. b \notin exposed => \A a \in Live : \A k \in User : \A l \in Index :
               Has(mem, a, k) => mem[TableOf(mem, a, k)][l].frame # b
        BY <3>1 DEF MemOK, PagesOK
      <3>4. MemOK(mem, used', Live, owner', exposed)
        BY <2>2, <3>1, GrowOK
      <3> QED BY <2>2, <3>1, <3>2, <3>3, <3>4 DEF MayHold
    <2> QED BY <1>8, <2>1, <2>2
  <1>11. Writes(mem, used', Live, owner', exposed, d, i, j, e, mem')
    BY <1>4, <1>8, <1>10 DEF Writes
  <1>12. /\ MemOK(mem', used', Live, owner', exposed)
         /\ \A a \in Live : mem'[a] = mem[a]
         /\ \A b \in BLOCKS \ {TableOf(mem, d, i)} : mem'[b] = mem[b]
    BY <1>11, WriteOK
  <1>13. PICK y : y = NextEntry
    OBVIOUS
  <1>14. /\ y \in CloneType /\ y.dest = Copy.dest
         /\ y.i = Copy.i \/ y.i = Copy.i + 1
    <2>1. Copy.i < ENTRIES
      BY <1>2, VmmAssumption DEF Index
    <2> QED BY <1>13, <2>1, NextEntryIs
  <1>15. \A v \in Virt : Has(mem, s, v[1]) =>
            mem'[TableOf(mem, s, v[1])][v[2]] = mem[TableOf(mem, s, v[1])][v[2]]
    <2> SUFFICES ASSUME NEW v \in Virt, Has(mem, s, v[1])
                 PROVE  mem'[TableOf(mem, s, v[1])] = mem[TableOf(mem, s, v[1])]
      OBVIOUS
    <2>1. v[1] \in Index
      BY DEF Virt
    <2>2. TableOf(mem, s, v[1]) # TableOf(mem, d, i)
      <3>1. s # d /\ i \notin Kernel
        BY <1>1, <1>2 DEF Kernel
      <3> QED BY <1>4, <2>1, <3>1 DEF MemOK, TablesApart
    <2>3. TableOf(mem, s, v[1]) \in BLOCKS
      BY <2>1, TableInUse
    <2> QED BY <1>12, <2>2, <2>3
  <1>16. /\ \A k \in Index : k > Copy.i => mem'[Copy.dest][k] = mem[Copy.dest][k]
         /\ \A a \in Live \ {Copy.dest} : mem'[a] = mem[a]
    BY <1>12
  <1>17. \A k \in Index : k = y.i /\ k = Copy.i /\ Has(mem', Copy.dest, k)
            => k \in User /\ Has(mem, s, k)
    BY <1>1, <1>2, <1>5
  <1>18. clone' = [clone EXCEPT ![current_directory] = y]
    BY <1>9, <1>13 DEF Goes
  <1> QED BY <1>1, <1>9, <1>12, <1>14, <1>15, <1>16, <1>17, <1>18, CloneStep

\* The live directories and the other clones when one clone has ended.
LEMMA CloneEnds ==
  ASSUME VmmInv, ~exited, Cloning, Goes(NoClone), mem' = mem,
         dirs' = dirs \/ dirs' = dirs \cup {Copy.dest}
  PROVE  /\ CloneOK' /\ clone' \in [BLOCKS -> CloneType]
         /\ Live' \subseteq Live
         /\ dirs' = dirs => Live' \subseteq Live \ {Copy.dest}
  <1> USE Unpacked, CloningFacts
  <1>1. PICK s \in dirs : s = current_directory /\ s \in BLOCKS
    OBVIOUS
  <1>2. NoClone \in CloneType
    BY VmmAssumption DEF NoClone, CloneType, Index
  <1>3. /\ clone' \in [BLOCKS -> CloneType] /\ clone'[s] = NoClone
        /\ \A r \in BLOCKS \ {s} : clone'[r] = clone[r]
    BY <1>1, <1>2, OtherClones DEF Goes
  <1>4. ASSUME NEW r \in BLOCKS, clone'[r] # NoClone
        PROVE  /\ r # s /\ clone'[r] = clone[r] /\ clone[r] # NoClone
               /\ clone[r].dest \in Live /\ clone[r].dest # Copy.dest
    <2>1. r # s /\ clone'[r] = clone[r] /\ clone[r] # NoClone
      BY <1>3, <1>4
    <2>2. clone[r].dest \in Live
      BY <2>1, CloneIs
    <2>3. clone[r].dest # Copy.dest
      BY <1>1, <2>1 DEF CopyOK
    <2> QED BY <2>1, <2>2, <2>3
  <1>5. \A r \in BLOCKS : clone'[r].dest # None =>
           clone'[r].dest \in Live /\ clone'[r].dest # Copy.dest
    BY <1>4 DEF NoClone
  <1>6. Live' \subseteq Live /\ (dirs' = dirs => Live' \subseteq Live \ {Copy.dest})
    BY <1>5 DEF Live
  <1>7. CloneOK'
    <2> SUFFICES ASSUME NEW r \in BLOCKS, clone'[r] # NoClone
                 PROVE  CopyOK(r, clone[r])'
      BY DEF CloneOK, CopyOK
    <2>1. CopyOK(r, clone[r]) /\ clone'[r] = clone[r] /\ clone[r] # NoClone
          /\ clone[r].dest # Copy.dest /\ clone[r].dest \in BLOCKS
      BY <1>4 DEF CloneOK
    <2>2. r \in dirs' /\ clone[r].dest \in BLOCKS \ dirs'
      BY <2>1 DEF CopyOK
    <2>3. ASSUME NEW q \in BLOCKS, clone'[q].dest = clone[r].dest PROVE q = r
      <3>1. clone'[q] # NoClone
        BY <2>1, <2>3, VmmAssumption DEF NoClone
      <3>2. clone'[q] = clone[q]
        BY <1>4, <3>1
      <3> QED BY <2>1, <2>3, <3>2 DEF CopyOK
    <2> QED BY <2>1, <2>2, <2>3 DEF CopyOK, Has
  <1> QED BY <1>3, <1>6, <1>7

\* A clone fails only in user space, where the copy has no kernel tables yet.
LEMMA CloneFailsOK ==
  ASSUME VmmInv, ~exited, CloneFails
  PROVE  VmmInv'
  <1>0. Cloning
    BY DEF CloneFails, NeedsTable, InTable
  <1> USE Unpacked, CloningFacts, <1>0
  <1>1. PICK d \in Live : d = Copy.dest
    OBVIOUS
  <1>2. /\ UNCHANGED <<mem, dirs, kernel_directory, current_directory, tlb, boot,
                       exposed, exited>>
        /\ Goes(NoClone) /\ used' = Release(d) /\ Disown(d)
        /\ Copy.i < KERNEL_SLOT
    BY <1>1 DEF CloneFails, OtherVars, ReleaseCopy, InTable, NeedsTable
  <1>3. \A k \in Kernel : ~Has(mem, d, k)
    <2> SUFFICES ASSUME NEW k \in Kernel PROVE mem[d][k] = Absent
      BY DEF Has, Present
    <2>1. k \in Index /\ k > Copy.i
      BY <1>2, VmmAssumption DEF Kernel, User, Index
    <2> QED BY <1>1, <2>1 DEF CopyOK
  <1>4. /\ CloneOK' /\ clone' \in [BLOCKS -> CloneType]
        /\ Live' \subseteq Live \ {d}
    BY <1>1, <1>2, CloneEnds
  <1>5. MemOK(mem', used', Live', owner', exposed')
    <2>1. PICK less : less = Live'
      OBVIOUS
    <2> QED BY <1>2, <1>3, <1>4, <2>1, DropDirectory
  <1>6. OtherTypes'
    BY <1>2, <1>4 DEF TypeOK, OtherTypes
  <1>7. BootOK'
    BY <1>2 DEF BootOK, Done
  <1> QED BY <1>2, <1>4, <1>5, <1>6, <1>7, Repacked

\* The finished copy becomes a directory.
LEMMA CloneReturnsOK ==
  ASSUME VmmInv, ~exited, CloneReturns
  PROVE  VmmInv'
  <1>0. Cloning
    BY DEF CloneReturns
  <1> USE Unpacked, CloningFacts, <1>0
  <1>1. /\ UNCHANGED <<used, mem, owner, kernel_directory, current_directory, tlb,
                       boot, exposed, exited>>
        /\ Goes(NoClone) /\ dirs' = dirs \cup {Copy.dest}
    BY DEF CloneReturns, OtherVars
  <1>2. CloneOK' /\ clone' \in [BLOCKS -> CloneType] /\ Live' \subseteq Live
    BY <1>1, CloneEnds
  <1>3. MemOK(mem', used', Live', owner', exposed')
    BY <1>1, <1>2, ForgetOK
  <1>4. BootOK'
    BY <1>1 DEF BootOK, Done
  <1>5. OtherTypes'
    BY <1>1, <1>2 DEF TypeOK, OtherTypes
  <1> QED BY <1>1, <1>2, <1>3, <1>4, <1>5, Repacked

-----------------------------------------------------------------------------
(* The theorems.                                                           *)

\* The state before vmm_init.
LEMMA VmmInvInit == Init => VmmInv
  <1> SUFFICES ASSUME Init PROVE VmmInv
    OBVIOUS
  <1> USE VmmAssumption DEF Init
  <1>1. Done \in Nat \ {0, 1} /\ 0 \in Index
    BY DEF Done, Index
  <1>2. Zeroes \in [Index -> Entry \cup {Absent}]
    BY DEF Zeroes
  <1>3. used \subseteq BLOCKS
    OBVIOUS
  <1>4. TypeOK
    <2>1. NoClone \in [dest : BLOCKS \cup {None}, i : 0 .. ENTRIES, j : Index]
      BY <1>1 DEF NoClone
    <2>2. mem \in [BLOCKS -> [Index -> Entry \cup {Absent}]]
      BY <1>2
    <2>3. tlb \in [Virt -> Entry \cup {Absent}] /\ boot \in 0 .. Done
      BY <1>1
    <2> QED BY <1>3, <2>1, <2>2, <2>3 DEF TypeOK
  <1>5. Live = {}
    BY LiveIs
  <1>6. MemOK(mem, used, Live, owner, exposed)
    BY <1>3, <1>4, <1>5 DEF MemOK, DirsOK, TablesApart, OwnersOK, PagesOK,
                            WritableApart, TypeOK, Memory, Row
  <1>7. BootOK /\ CloneOK
    BY <1>1 DEF BootOK, CloneOK, CopyOK
  <1>8. TlbAgrees
    BY DEF TlbAgrees
  <1> QED BY <1>4, <1>6, <1>7, <1>8 DEF VmmInv

\* One case per action of Next.
LEMMA VmmInvStep == VmmInv /\ [Next]_vars => VmmInv'
  <1> SUFFICES ASSUME VmmInv, [Next]_vars PROVE VmmInv'
    OBVIOUS
  <1>1. CASE UNCHANGED vars
    BY <1>1 DEF vars, VmmInv, TypeOK, BootOK, CloneOK, CopyOK, Live, TlbAgrees,
                Walk, Done
  <1>2. CASE Next
    <2>0. /\ PAGES \subseteq Virt
          /\ \A m \in MAPPINGS :
                m.page \in Virt /\ m.frame \in BLOCKS \cup {KernelFrame}
      BY VmmAssumption DEF Virt, Index
    <2>1. ~exited
      BY <1>2 DEF Next
    <2>2. CASE vmm_init
      BY <2>1, <2>2, CreateOK, MapKernelOK, UseKernelOK DEF vmm_init
    <2>3. ASSUME NEW b \in BLOCKS, AllocPage \/ FreePage(b)
          PROVE  VmmInv'
      BY <2>1, <2>3, AllocPageOK, FreePageOK
    <2>a. CASE AllocPage
      BY <2>1, <2>a, AllocPageOK
    <2>4. CASE vmm_clone_directory
      BY <2>1, <2>4, CloneBeginOK, CloneSlotOK, CloneTableOK, CloneEntryOK,
         CloneFailsOK, CloneReturnsOK DEF vmm_clone_directory
    <2>5. ASSUME NEW v \in Virt, Load(v) \/ vmm_unmap_page(v)
          PROVE  VmmInv'
      BY <2>1, <2>5, LoadOK, UnmapOK
    <2>6. ASSUME NEW v \in Virt, NEW f \in BLOCKS \cup {KernelFrame},
                 NEW w \in BOOLEAN, vmm_map_page(v, f, w)
          PROVE  VmmInv'
      BY <2>1, <2>6, MapOK
    <2>7. ASSUME NEW d \in dirs,
                 vmm_switch_page_directory(d) \/ vmm_free_directory(d)
          PROVE  VmmInv'
      BY <2>1, <2>7, SwitchOK, FreeDirectoryOK
    <2> QED BY <1>2, <2>0, <2>2, <2>3, <2>a, <2>4, <2>5, <2>6, <2>7 DEF Next
  <1> QED BY <1>1, <1>2

\* VmmInv is an invariant.
LEMMA VmmInvAlways == Spec => []VmmInv
  BY VmmInvInit, VmmInvStep, PTL DEF Spec

\* The variables of vmm.c keep their types, whatever is mapped, cloned, freed
\* and interrupted.
THEOREM TypeCorrect == Spec => []TypeOK
  <1>1. VmmInv => TypeOK
    BY DEF VmmInv
  <1> QED BY <1>1, VmmInvAlways, PTL

\* Until a process with kernel tables exits, vmm_free_directory, in an exit or
\* in a clone that fails, gives back no block that a live directory needs.
THEOREM LiveTablesAreInUse == Spec => []TablesInUse
  <1>1. VmmInv => TablesInUse
    BY DEF VmmInv, TablesInUse, MemOK, DirsOK, Tables, Has, TableOf
  <1> QED BY <1>1, VmmInvAlways, PTL

\* Until then vmm_map_page, vmm_unmap_page and vmm_switch_page_directory flush
\* enough: the TLB holds only what the tables in use say.
THEOREM TlbIsCoherent == Spec => []TlbAgrees
  <1>1. VmmInv => TlbAgrees
    BY DEF VmmInv, TlbAgrees
  <1> QED BY <1>1, VmmInvAlways, PTL

\* Until then processes are kept apart: no table of user space is in two
\* directories, and of the pages that are writable in one and in another's user
\* space there are only those that hal_free_page has given back while they were
\* mapped, or that hal_map_page has mapped a second time.
THEOREM ProcessesAreIsolated == Spec => []Isolated
  <1>1. VmmInv => Isolated
    <2> SUFFICES ASSUME VmmInv, ~exited, NEW d \in Live, NEW e \in Live, d # e,
                        NEW i \in User, NEW k \in User,
                        UserTable(d, i), UserTable(e, k)
                 PROVE  /\ mem[d][i].frame # mem[e][k].frame
                        /\ \A j, l \in Index :
                              LET p == Walk(d, <<i, j>>)
                                  q == Walk(e, <<k, l>>)
                              IN  p.writable /\ p.frame \in BLOCKS \ exposed
                                     => p.frame # q.frame
      BY DEF Isolated
    <2> USE Unpacked
    <2>1. i \in Index /\ k \in Index /\ i \notin Kernel
      BY DEF User, Kernel
    <2>2. Has(mem, d, i) /\ Has(mem, e, k)
      BY DEF UserTable, Has
    <2>3. TableOf(mem, d, i) # TableOf(mem, e, k)
      BY <2>1, <2>2 DEF MemOK, TablesApart
    <2>4. TableOf(mem, d, i) \in BLOCKS /\ TableOf(mem, e, k) \in BLOCKS
      BY <2>1, <2>2, TableInUse
    <2>5. ASSUME NEW j \in Index, NEW l \in Index
          PROVE  LET p == Walk(d, <<i, j>>)
                     q == Walk(e, <<k, l>>)
                 IN  p.writable /\ p.frame \in BLOCKS \ exposed
                        => p.frame # q.frame
      <3>1. /\ Walk(d, <<i, j>>) = mem[TableOf(mem, d, i)][j]
            /\ Walk(e, <<k, l>>) = mem[TableOf(mem, e, k)][l]
        BY <2>4 DEF Walk, TableOf
      <3> QED BY <2>2, <3>1 DEF MemOK, WritableApart
    <2> QED BY <2>3, <2>5 DEF TableOf
  <1> QED BY <1>1, VmmInvAlways, PTL
=============================================================================
