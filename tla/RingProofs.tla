----------------------------- MODULE RingProofs ------------------------------
(***************************************************************************)
(* Proofs about two rings.                                                 *)
(*                                                                         *)
(* SimTailq, for any number of producers, any ring size and any items,     *)
(* while the positions do not wrap (UnwrappedTailq): stores never collide, *)
(* "full" is never spurious, the count is exact and the ring implements a  *)
(* first-in first-out queue.                                               *)
(*                                                                         *)
(* TmxrLine, for any buffer, guard and message length and any number of    *)
(* puts and connections: the stream of a connection is intact while txdrp  *)
(* is 0, and a device that heeds xmte loses nothing on an unbuffered line. *)
(***************************************************************************)
EXTENDS TmxrLine, UnwrappedTailq, TLAPS

-----------------------------------------------------------------------------
(* Terminal lines.                                                         *)

Line == [conn : BOOLEAN, txbfd : BOOLEAN, xmte : {0, 1}, txb : [TxIndex -> Byte],
         txbpi : TxIndex, txbpr : TxIndex, txcnt : Int, txdrp : Nat]

-----------------------------------------------------------------------------
(* The ring.                                                               *)

Wrap(a) == IF a < txbsz THEN a ELSE a - txbsz

\* Below twice the buffer size a remainder is at most one subtraction away.
LEMMA ModSize ==
  ASSUME NEW a \in Nat, a < 2 * txbsz
  PROVE  a % txbsz = Wrap(a)
<1>1. txbsz \in Nat /\ txbsz > 0
  BY LineAssumption
<1>2. CASE a < txbsz
  BY <1>1, <1>2 DEF Wrap
<1>3. CASE a >= txbsz
  <2> DEFINE q == a \div txbsz
  <2>1. q \in Int /\ a = txbsz * q + (a % txbsz) /\ a % txbsz \in 0 .. txbsz - 1
    BY <1>1
  <2> HIDE DEF q
  <2>2. q >= 2 => txbsz * q >= 2 * txbsz
    BY <2>1, <1>1
  <2>3. q <= 0 => txbsz * q <= 0
    BY <2>1, <1>1
  <2>4. q = 1
    BY <2>1, <2>2, <2>3, <1>1, <1>3
  <2> QED BY <2>1, <2>4, <1>1, <1>3 DEF Wrap
<1> QED BY <1>1, <1>2, <1>3

\* Wrapping on the way or at the end gives the same place.
LEMMA WrapAdd ==
  ASSUME NEW p \in TxIndex, NEW k \in Nat, NEW i \in Nat, i >= 1, i + k < txbsz
  PROVE  Wrap(Wrap(p + k) + i - 1) = Wrap(p + (i + k) - 1)
<1>1. txbsz \in Nat /\ p \in Nat /\ p < txbsz
  BY LineAssumption DEF TxIndex
<1>2. CASE p + k < txbsz
  BY <1>1, <1>2 DEF Wrap
<1>3. CASE p + k >= txbsz
  <2>1. Wrap(p + k) = p + k - txbsz
    BY <1>1, <1>3 DEF Wrap
  <2>2. p + k - txbsz + i - 1 < txbsz /\ ~(p + (i + k) - 1 < txbsz)
    BY <1>1, <1>3
  <2> QED BY <1>1, <2>1, <2>2 DEF Wrap
<1> QED BY <1>1, <1>2, <1>3

\* The buffer holds at most txbsz - 1 bytes.
LEMMA TqlnRange ==
  ASSUME NEW l \in Line
  PROVE  Tqln(l) \in 0 .. txbsz - 1
BY LineAssumption DEF Tqln, Line, TxIndex

\* The buffer's content is a sequence of bytes.
LEMMA ContentType ==
  ASSUME NEW l \in Line
  PROVE  /\ Content(l) \in Seq(Byte)
         /\ Len(Content(l)) = Tqln(l)
         /\ \A i \in 1 .. Tqln(l) :
              Content(l)[i] = l.txb[Wrap(l.txbpr + i - 1)]
<1>1. Tqln(l) \in 0 .. txbsz - 1 /\ txbsz \in Nat
  BY TqlnRange, LineAssumption
<1> DEFINE a(i) == l.txbpr + i - 1
<1>2. \A i \in 1 .. Tqln(l) : a(i) \in Nat /\ a(i) < 2 * txbsz
  BY <1>1 DEF Line, TxIndex
<1> HIDE DEF a
<1>3. \A i \in 1 .. Tqln(l) : a(i) % txbsz = Wrap(a(i))
  BY <1>2, ModSize
<1>4. \A i \in 1 .. Tqln(l) : a(i) % txbsz \in TxIndex
  BY <1>1, <1>2, <1>3 DEF TxIndex, Wrap
<1>5. Content(l) = [i \in 1 .. Tqln(l) |-> l.txb[a(i) % txbsz]]
  BY Zenon DEF Content, a
<1>6. \A i \in 1 .. Tqln(l) : l.txb[a(i) % txbsz] \in Byte
  BY <1>4 DEF Line
<1>7. /\ Content(l) \in Seq(Byte) /\ Len(Content(l)) = Tqln(l)
      /\ \A i \in 1 .. Tqln(l) :
           Content(l)[i] = l.txb[Wrap(a(i))]
  BY <1>1, <1>3, <1>5, <1>6
<1> QED BY <1>7, Zenon DEF a

\* Storing a byte when two places are free appends it and overwrites nothing.
LEMMA StoreAppends ==
  ASSUME NEW l \in Line, NEW b \in Byte
  PROVE  /\ Store(l, b) \in Line
         /\ Tqln(l) < txbsz - 1 =>
              /\ Store(l, b).txdrp = l.txdrp
              /\ Tqln(Store(l, b)) = Tqln(l) + 1
              /\ Content(Store(l, b)) = Content(l) \o <<b>>
         /\ Tqln(l) = txbsz - 1 => Store(l, b).txdrp = l.txdrp + 1
         /\ Store(l, b).conn = l.conn /\ Store(l, b).txbfd = l.txbfd
         /\ Store(l, b).xmte = l.xmte
<1> DEFINE pi == (l.txbpi + 1) % txbsz
<1> DEFINE m == Store(l, b)
<1>1. /\ pi = IF l.txbpi + 1 < txbsz THEN l.txbpi + 1 ELSE 0
      /\ (1 + l.txbpr) % txbsz = IF 1 + l.txbpr < txbsz THEN 1 + l.txbpr ELSE 0
      /\ txbsz \in Nat /\ txbsz > 0 /\ l.txbpi \in TxIndex /\ l.txbpr \in TxIndex
  <2> DEFINE x == l.txbpi + 1
  <2> DEFINE y == 1 + l.txbpr
  <2>1. /\ x \in Nat /\ x < 2 * txbsz /\ x <= txbsz
        /\ y \in Nat /\ y < 2 * txbsz /\ y <= txbsz
    BY LineAssumption DEF Line, TxIndex
  <2>2. txbsz \in Nat /\ txbsz > 0 /\ l.txbpi \in TxIndex /\ l.txbpr \in TxIndex
    BY LineAssumption DEF Line
  <2> HIDE DEF x, y
  <2>3. /\ x % txbsz = Wrap(x) /\ y % txbsz = Wrap(y)
    BY <2>1, ModSize
  <2>4. /\ x % txbsz = (IF x < txbsz THEN x ELSE 0)
        /\ y % txbsz = (IF y < txbsz THEN y ELSE 0)
    BY <2>1, <2>2, <2>3 DEF Wrap
  <2> QED BY <2>2, <2>4, Zenon DEF x, y
<1>2. /\ m.txb = [l.txb EXCEPT ![l.txbpi] = b] /\ m.txbpi = pi
      /\ m.txbpr = IF pi = l.txbpr THEN (1 + l.txbpr) % txbsz ELSE l.txbpr
      /\ m.txdrp = IF pi = l.txbpr THEN l.txdrp + 1 ELSE l.txdrp
      /\ m.conn = l.conn /\ m.txbfd = l.txbfd /\ m.xmte = l.xmte
  BY DEF Store, Line
<1>3. m \in Line
  <2>1. pi \in TxIndex /\ (1 + l.txbpr) % txbsz \in TxIndex
    <3> HIDE DEF pi
    <3> QED BY <1>1 DEF TxIndex
  <2>2. /\ m.txbpi \in TxIndex /\ m.txbpr \in TxIndex /\ m.txdrp \in Nat
        /\ m.conn \in BOOLEAN /\ m.txbfd \in BOOLEAN /\ m.xmte \in {0, 1}
    <3> HIDE DEF pi, m
    <3> QED BY <1>1, <1>2, <2>1 DEF Line
  <2>3. m.txb \in [TxIndex -> Byte]
    <3> HIDE DEF pi, m
    <3> QED BY <1>2 DEF Line
  <2>4. m.txcnt \in Int
    BY DEF Store, Line
  <2> DEFINE t == m.txb
  <2> DEFINE p == m.txbpi
  <2> DEFINE r == m.txbpr
  <2> DEFINE d == m.txdrp
  <2>5. m = [l EXCEPT !.txb = t, !.txbpi = p, !.txbpr = r, !.txdrp = d]
    BY Zenon DEF Store, Line
  <2>6. t \in [TxIndex -> Byte] /\ p \in TxIndex /\ r \in TxIndex /\ d \in Nat
    BY <2>2, <2>3
  <2> HIDE DEF m, t, p, r, d
  <2> QED BY <2>5, <2>6, Zenon DEF Line
<1>4. pi = l.txbpr <=> Tqln(l) = txbsz - 1
  <2> HIDE DEF pi
  <2> QED BY <1>1 DEF Tqln, TxIndex
<1>5. ASSUME Tqln(l) < txbsz - 1
      PROVE  Tqln(m) = Tqln(l) + 1 /\ Content(m) = Content(l) \o <<b>>
  <2>1. m.txbpr = l.txbpr /\ m.txbpi = pi
    BY <1>2, <1>4, <1>5, <1>1
  <2>2. Tqln(m) = Tqln(l) + 1
    <3> HIDE DEF m
    <3> QED BY <2>1, <1>1, <1>4, <1>5 DEF Tqln, TxIndex
  <2>3. ASSUME NEW i \in 1 .. Tqln(l) + 1
        PROVE  Content(m)[i] = (Content(l) \o <<b>>)[i]
    <3> DEFINE at == Wrap(l.txbpr + i - 1)
    <3>1. Content(m)[i] = m.txb[at]
      BY <1>3, <2>1, <2>2, ContentType
    <3>2. at \in TxIndex /\ (at = l.txbpi <=> i = Tqln(l) + 1)
      BY <1>1, <1>5, TqlnRange DEF Tqln, TxIndex, Wrap
    <3>3. m.txb[at] = IF at = l.txbpi THEN b ELSE l.txb[at]
      BY <1>2, <3>2 DEF Line
    <3>4. i <= Tqln(l) => Content(l)[i] = l.txb[at]
      BY ContentType, TqlnRange
    <3> HIDE DEF at, m
    <3>5. (Content(l) \o <<b>>)[i] = IF i <= Tqln(l) THEN Content(l)[i] ELSE b
      BY ContentType, TqlnRange
    <3>6. CASE i <= Tqln(l)
      <4>1. i # Tqln(l) + 1
        BY <3>6, TqlnRange
      <4> QED BY <4>1, <3>1, <3>2, <3>3, <3>4, <3>5, <3>6, Zenon
    <3>7. CASE i = Tqln(l) + 1
      <4>1. ~(i <= Tqln(l))
        BY <3>7, TqlnRange
      <4> QED BY <4>1, <3>1, <3>2, <3>3, <3>5, <3>7, Zenon
    <3>8. i <= Tqln(l) \/ i = Tqln(l) + 1
      BY TqlnRange
    <3> QED BY <3>6, <3>7, <3>8, Zenon
  <2>4. /\ Content(m) \in Seq(Byte) /\ Len(Content(m)) = Tqln(l) + 1
        /\ Content(l) \o <<b>> \in Seq(Byte) /\ Len(Content(l) \o <<b>>) = Tqln(l) + 1
    BY <1>3, <2>2, ContentType
  <2> QED BY <2>2, <2>3, <2>4
<1>6. Tqln(l) < txbsz - 1 => Tqln(l) # txbsz - 1
  BY <1>1, TqlnRange
<1> HIDE DEF m, pi
<1> QED BY <1>2, <1>3, <1>4, <1>5, <1>6 DEF m

\* Byte sequences with the same elements are the same.
LEMMA SameBytes ==
  ASSUME NEW s \in Seq(Byte), NEW t \in Seq(Byte), Len(s) = Len(t), \A i \in 1 .. Len(s) : s[i] = t[i]
  PROVE  s = t
OBVIOUS

\* Sending k bytes removes the k oldest.
LEMMA SentRemoves ==
  ASSUME NEW l \in Line, NEW k \in 0 .. Tqln(l)
  PROVE  /\ Sent(l, k) \in Line
         /\ Tqln(Sent(l, k)) = Tqln(l) - k
         /\ Content(Sent(l, k)) = SubSeq(Content(l), k + 1, Tqln(l))
         /\ Sent(l, k).conn = l.conn /\ Sent(l, k).txbfd = l.txbfd
         /\ Sent(l, k).xmte = l.xmte /\ Sent(l, k).txdrp = l.txdrp
<1> DEFINE m == Sent(l, k)
<1>1. Tqln(l) \in 0 .. txbsz - 1 /\ txbsz \in Nat /\ txbsz > 0
  BY TqlnRange, LineAssumption
<1>2. CASE Tqln(l) = 0
  <2>1. m = l /\ k = 0
    BY <1>2 DEF Sent
  <2>2. Content(l) = SubSeq(Content(l), 1, 0)
    BY <1>2, ContentType
  <2> QED BY <2>1, <2>2, <1>2
<1>3. CASE Tqln(l) # 0
  <2> DEFINE r == (l.txbpr + k) % txbsz
  <2>1. r = Wrap(l.txbpr + k)
    <3> DEFINE x == l.txbpr + k
    <3>1. x \in Nat /\ x < 2 * txbsz
      BY <1>1 DEF Line, TxIndex
    <3> HIDE DEF x
    <3>2. x % txbsz = Wrap(x)
      BY <3>1, ModSize
    <3> QED BY <3>2, Zenon DEF x
  <2>2. m = [l EXCEPT !.txbpr = r, !.txcnt = l.txcnt + k]
    BY <1>3 DEF Sent
  <2> HIDE DEF r, m
  <2>3. r \in TxIndex
    BY <1>1, <2>1 DEF Wrap, Line, TxIndex
  <2>4. /\ m \in Line /\ m.txbpr = r /\ m.txbpi = l.txbpi /\ m.txb = l.txb
        /\ m.conn = l.conn /\ m.txbfd = l.txbfd /\ m.xmte = l.xmte /\ m.txdrp = l.txdrp
    <3> DEFINE c == l.txcnt + k
    <3>1. c \in Int
      BY <1>1 DEF Line
    <3>2. m = [l EXCEPT !.txbpr = r, !.txcnt = c]
      BY <2>2
    <3> HIDE DEF c
    <3> QED BY <3>1, <3>2, <2>3, Zenon DEF Line
  <2>5. Tqln(m) = Tqln(l) - k
    <3> DEFINE p == l.txbpr
    <3> DEFINE q == l.txbpi
    <3>1. p \in 0 .. txbsz - 1 /\ q \in 0 .. txbsz - 1
      BY DEF Line, TxIndex
    <3>2. /\ Tqln(l) = q - p + (IF q < p THEN txbsz ELSE 0)
          /\ Tqln(m) = q - r + (IF q < r THEN txbsz ELSE 0)
          /\ r = Wrap(p + k)
      <4>1. Tqln(l) = q - p + (IF q < p THEN txbsz ELSE 0)
        BY Zenon DEF Tqln
      <4>2. Tqln(m) = q - r + (IF q < r THEN txbsz ELSE 0)
        BY <2>4, Zenon DEF Tqln
      <4> QED BY <4>1, <4>2, <2>1, Zenon
    <3> HIDE DEF p, q
    <3>3. CASE q < p
      BY <3>1, <3>2, <3>3, <1>1 DEF Wrap
    <3>4. CASE ~(q < p)
      BY <3>1, <3>2, <3>4, <1>1 DEF Wrap
    <3> QED BY <3>3, <3>4
  <2>6. ASSUME NEW i \in 1 .. Tqln(l) - k
        PROVE  Content(m)[i] = SubSeq(Content(l), k + 1, Tqln(l))[i]
    <3>1. Content(m)[i] = l.txb[Wrap(r + i - 1)]
      BY <2>4, <2>5, ContentType
    <3>2. i + k \in 1 .. Tqln(l)
      BY <1>1
    <3>3. Content(l)[i + k] = l.txb[Wrap(l.txbpr + (i + k) - 1)]
      BY <3>2, ContentType
    <3>4. Wrap(r + i - 1) = Wrap(l.txbpr + (i + k) - 1)
      <4>1. l.txbpr \in TxIndex /\ k \in Nat /\ i \in Nat /\ i >= 1 /\ i + k < txbsz
        BY <1>1, <3>2 DEF Line
      <4> QED BY <4>1, <2>1, WrapAdd
    <3>5. SubSeq(Content(l), k + 1, Tqln(l))[i] = Content(l)[i + k]
      BY <1>1, <3>2, ContentType
    <3> QED BY <3>1, <3>3, <3>4, <3>5, Zenon
  <2>7. /\ Content(m) \in Seq(Byte) /\ Len(Content(m)) = Tqln(l) - k
        /\ SubSeq(Content(l), k + 1, Tqln(l)) \in Seq(Byte)
        /\ Len(SubSeq(Content(l), k + 1, Tqln(l))) = Tqln(l) - k
    BY <2>4, <2>5, <1>1, ContentType
  <2>8. Content(m) = SubSeq(Content(l), k + 1, Tqln(l))
    <3>1. \A i \in 1 .. Len(Content(m)) : Content(m)[i] = SubSeq(Content(l), k + 1, Tqln(l))[i]
      BY <2>6, <2>7, Zenon
    <3> QED BY <2>7, <3>1, SameBytes, Zenon
  <2> QED BY <2>4, <2>5, <2>8 DEF m
<1> QED BY <1>2, <1>3

\* The elements of a concatenation.
LEMMA JoinedBytes ==
  ASSUME NEW s \in Seq(Byte), NEW t \in Seq(Byte)
  PROVE  /\ s \o t \in Seq(Byte) /\ Len(s \o t) = Len(s) + Len(t)
         /\ \A i \in 1 .. Len(s) + Len(t) : (s \o t)[i] = IF i <= Len(s) THEN s[i] ELSE t[i - Len(s)]
OBVIOUS

\* Concatenation of byte sequences is associative.
LEMMA AssocBytes ==
  ASSUME NEW s \in Seq(Byte), NEW t \in Seq(Byte), NEW u \in Seq(Byte)
  PROVE  (s \o t) \o u = s \o (t \o u)
OBVIOUS

\* Two bytes put one after the other are the pair an IAC is sent as.
LEMMA TwoBytes ==
  ASSUME NEW n \in Byte
  PROVE  <<n>> \in Seq(Byte) /\ <<n, n>> \in Seq(Byte) /\ <<n>> \o <<n>> = <<n, n>>
<1>1. <<n>> \in Seq(Byte) /\ Len(<<n>>) = 1 /\ <<n>>[1] = n
  OBVIOUS
<1>2. <<n, n>> \in Seq(Byte) /\ Len(<<n, n>>) = 2 /\ <<n, n>>[1] = n /\ <<n, n>>[2] = n
  OBVIOUS
<1> DEFINE a == <<n>>
<1> DEFINE b == <<n, n>>
<1>3. a \in Seq(Byte) /\ Len(a) = 1 /\ a[1] = n /\ b \in Seq(Byte) /\ Len(b) = 2
      /\ b[1] = n /\ b[2] = n
  BY <1>1, <1>2
<1> HIDE DEF a, b
<1>4. /\ a \o a \in Seq(Byte) /\ Len(a \o a) = Len(a) + Len(a)
      /\ \A i \in 1 .. Len(a) + Len(a) :
           (a \o a)[i] = IF i <= Len(a) THEN a[i] ELSE a[i - Len(a)]
  BY <1>3, JoinedBytes, Zenon
<1> DEFINE c == a \o a
<1>5. c \in Seq(Byte) /\ Len(c) = 2 /\ c[1] = n /\ c[2] = n
  BY <1>3, <1>4
<1> HIDE DEF c
<1>6. c = b
  BY <1>3, <1>5, SameBytes
<1> QED BY <1>1, <1>2, <1>6 DEF a, b, c

\* A sequence is its first k elements and the rest.
LEMMA SplitSeq ==
  ASSUME NEW w \in Seq(Byte), NEW c \in Seq(Byte), NEW k \in 0 .. Len(c)
  PROVE  /\ w \o SubSeq(c, 1, k) \in Seq(Byte)
         /\ (w \o SubSeq(c, 1, k)) \o SubSeq(c, k + 1, Len(c)) = w \o c
<1> DEFINE x == SubSeq(c, 1, k)
           y == SubSeq(c, k + 1, Len(c))
           z == x \o y
<1>1. /\ x \in Seq(Byte) /\ Len(x) = k /\ \A i \in 1 .. k : x[i] = c[i]
      /\ y \in Seq(Byte) /\ Len(y) = Len(c) - k /\ \A i \in 1 .. Len(c) - k : y[i] = c[k + i]
  OBVIOUS
<1> HIDE DEF x, y
<1>2. x \o y = c
  <2>1. z \in Seq(Byte) /\ Len(z) = Len(c)
    <3>1. z \in Seq(Byte) /\ Len(z) = Len(x) + Len(y)
      BY <1>1, JoinedBytes, Zenon
    <3> QED BY <1>1, <3>1
  <2>2. ASSUME NEW i \in 1 .. Len(c) PROVE z[i] = c[i]
    <3>1. CASE i <= k
      BY <1>1, <3>1
    <3>2. CASE i > k
      <4>1. i - k \in 1 .. Len(c) - k /\ k + (i - k) = i
        BY <3>2
      <4>2. z[i] = y[i - k]
        BY <1>1, <3>2
      <4> QED BY <1>1, <4>1, <4>2
    <3>3. i <= k \/ i > k
      OBVIOUS
    <3> QED BY <3>1, <3>2, <3>3, Zenon
  <2> HIDE DEF z
  <2>3. z = c
    BY <2>1, <2>2, SameBytes, Zenon
  <2> QED BY <2>3 DEF z
<1>3. w \o x \in Seq(Byte)
  BY <1>1
<1>4. (w \o x) \o y = w \o (x \o y)
  BY <1>1, AssocBytes, Zenon
<1> QED BY <1>2, <1>3, <1>4, Zenon DEF x, y

-----------------------------------------------------------------------------
(* The inductive invariant.                                                *)

\* While the device may put on an unbuffered line more than Guard places are free.
RoomInv == lp.conn /\ ~lp.txbfd /\ lp.xmte = 1 => Avail(lp) > Guard

LineInv == LineTypeOK /\ lp \in Line /\ RoomInv /\ StreamIntact /\ NothingOverwritten

\* The bytes the device and the line put are bytes.
LEMMA BytesType == Nat \subseteq Byte /\ Msg \in Byte /\ Unset \in Byte
BY DEF Byte

\* What the content of the buffer depends on.
LEMMA SameRing ==
  ASSUME NEW l, NEW m, m.txb = l.txb, m.txbpi = l.txbpi, m.txbpr = l.txbpr
  PROVE  Tqln(m) = Tqln(l) /\ Avail(m) = Avail(l) /\ Content(m) = Content(l)
BY Zenon DEF Tqln, Avail, Content

\* The buffer has a first place.
LEMMA ZeroIndex == 0 \in TxIndex
BY LineAssumption DEF TxIndex

\* tmxr_init_line empties an unbuffered line and keeps a buffered one.
LEMMA InitLineType ==
  ASSUME NEW l \in Line
  PROVE  /\ InitLine(l) \in Line
         /\ InitLine(l).conn = l.conn /\ InitLine(l).txbfd = l.txbfd
         /\ InitLine(l).txdrp = 0 /\ InitLine(l).xmte = 1
         /\ ~l.txbfd => InitLine(l).txbpi = 0
<1> DEFINE r == IF l.txbfd THEN l.txbpr ELSE 0
<1> DEFINE p == IF l.txbfd THEN l.txbpi ELSE 0
<1> DEFINE c == IF l.txbfd THEN l.txcnt ELSE 0
<1>1. InitLine(l) = [l EXCEPT !.xmte = 1, !.txdrp = 0, !.txbpr = r, !.txbpi = p, !.txcnt = c]
  BY Zenon DEF InitLine
<1>2. r \in TxIndex /\ p \in TxIndex /\ c \in Int /\ (~l.txbfd => p = 0)
  BY ZeroIndex DEF Line
<1> HIDE DEF r, p, c
<1>3. InitLine(l) \in Line
  <2> DEFINE e == [l EXCEPT !.xmte = 1, !.txdrp = 0]
  <2>1. e \in Line
    BY Zenon DEF Line
  <2>2. InitLine(l) = [e EXCEPT !.txbpr = r, !.txbpi = p, !.txcnt = c]
    BY <1>1 DEF Line
  <2> HIDE DEF e
  <2> QED BY <1>2, <2>1, <2>2, Zenon DEF Line
<1>4. /\ InitLine(l).conn = l.conn /\ InitLine(l).txbfd = l.txbfd
      /\ InitLine(l).txdrp = 0 /\ InitLine(l).xmte = 1 /\ InitLine(l).txbpi = p
  BY <1>1 DEF Line
<1> QED BY <1>2, <1>3, <1>4, Zenon

\* A closed line is a line without a connection.
LEMMA ClosedType ==
  ASSUME NEW l \in Line
  PROVE  /\ Closed(l) \in Line /\ ~Closed(l).conn
         /\ Failed(l) \in Line /\ ~Failed(l).conn
<1>1. [l EXCEPT !.conn = FALSE] \in Line /\ ~[l EXCEPT !.conn = FALSE].conn
  BY Zenon DEF Line
<1> DEFINE e == [l EXCEPT !.txbpi = 0, !.txbpr = 0]
<1>2. e \in Line
  BY ZeroIndex, Zenon DEF Line
<1> HIDE DEF e
<1>3. [e EXCEPT !.conn = FALSE] \in Line /\ ~[e EXCEPT !.conn = FALSE].conn
  BY <1>2, Zenon DEF Line
<1>4. Failed(l) = Closed(e)
  BY DEF Failed, e
<1> QED BY <1>1, <1>3, <1>4, InitLineType, Zenon DEF Closed

\* A greeted line holds the message and at most fills its buffer; an
\* unbuffered one holds nothing else.
LEMMA GreetedType ==
  ASSUME NEW l \in Line
  PROVE  /\ Greeted(l) \in Line
         /\ Greeted(l).conn = l.conn /\ Greeted(l).txbfd = l.txbfd
         /\ Greeted(l).txdrp = l.txdrp /\ Greeted(l).xmte = l.xmte
         /\ ~l.txbfd /\ l.txbpi = 0 => Tqln(Greeted(l)) = MsgLen
<1> DEFINE next == (l.txbpi + 1) % txbsz
<1> DEFINE pr == IF l.txbfd /\ l.txcnt > txbsz THEN next ELSE txbsz - MsgLen
<1> DEFINE at == {(pr + j) % txbsz : j \in 0 .. MsgLen - 1}
<1> DEFINE t == [i \in TxIndex |-> IF i \in at THEN Msg ELSE l.txb[i]]
<1>1. Greeted(l) = [l EXCEPT !.txbpr = pr, !.txb = t]
  BY Zenon DEF Greeted
<1>2. txbsz \in Nat /\ txbsz > 0 /\ txbsz - MsgLen \in TxIndex
  BY LineAssumption, MessageAssumption DEF TxIndex
<1>3. next \in TxIndex
  BY <1>2 DEF Line, TxIndex
<1> HIDE DEF next
<1>4. pr \in TxIndex /\ (~l.txbfd => pr = txbsz - MsgLen)
  BY <1>2, <1>3
<1> HIDE DEF pr, at
<1>5. t \in [TxIndex -> Byte]
  BY BytesType DEF Line
<1> HIDE DEF t
<1>6. /\ Greeted(l) \in Line /\ Greeted(l).txbpr = pr /\ Greeted(l).txbpi = l.txbpi
      /\ Greeted(l).conn = l.conn /\ Greeted(l).txbfd = l.txbfd
      /\ Greeted(l).txdrp = l.txdrp /\ Greeted(l).xmte = l.xmte
  BY <1>1, <1>4, <1>5, Zenon DEF Line
<1>7. ASSUME ~l.txbfd, l.txbpi = 0 PROVE Tqln(Greeted(l)) = MsgLen
  <2>1. Greeted(l).txbpi = 0 /\ Greeted(l).txbpr = txbsz - MsgLen
    BY <1>4, <1>6, <1>7
  <2> QED BY <2>1, LineAssumption, MessageAssumption DEF Tqln
<1> QED BY <1>6, <1>7

-----------------------------------------------------------------------------
(* The actions.                                                            *)

\* A line is of the type the module states.
LEMMA LineIsTyped ==
  ASSUME NEW l \in Line
  PROVE  l \in [conn : BOOLEAN, txbfd : BOOLEAN, xmte : {0, 1},
                txb : [TxIndex -> Byte], txbpi : TxIndex, txbpr : 0 .. txbsz,
                txcnt : Int, txdrp : Nat]
<1>1. l.txbpr \in 0 .. txbsz
  BY LineAssumption DEF Line, TxIndex
<1> QED BY <1>1 DEF Line

\* tmxr_poll_tx removes from the buffer what it adds to the wire.
LEMMA PollTxInv ==
  ASSUME LineInv, NEW k \in 0 .. Tqln(lp), PollTx(k)
  PROVE  LineInv'
<1> DEFINE m == Sent(lp, k)
<1>1. /\ m \in Line /\ Tqln(m) = Tqln(lp) - k
      /\ Content(m) = SubSeq(Content(lp), k + 1, Tqln(lp))
      /\ m.conn = lp.conn /\ m.txbfd = lp.txbfd /\ m.xmte = lp.xmte /\ m.txdrp = lp.txdrp
  BY SentRemoves DEF LineInv
<1>2. Tqln(lp) \in 0 .. txbsz - 1 /\ txbsz \in Nat /\ Guard \in Nat /\ Guard < txbsz
  BY TqlnRange, LineAssumption DEF LineInv
<1>3. lp' = [m EXCEPT !.xmte = IF Tqln(m) = 0 THEN 1 ELSE m.xmte]
  BY DEF PollTx, Reenabled
<1> HIDE DEF m
<1>4. /\ lp' \in Line /\ lp'.conn = lp.conn /\ lp'.txbfd = lp.txbfd
      /\ lp'.txdrp = lp.txdrp
      /\ lp'.txb = m.txb /\ lp'.txbpi = m.txbpi /\ lp'.txbpr = m.txbpr
      /\ lp'.xmte = IF Tqln(m) = 0 THEN 1 ELSE lp.xmte
  BY <1>1, <1>3 DEF Line
<1>5. Tqln(lp') = Tqln(m) /\ Avail(lp') = Avail(m) /\ Content(lp') = Content(m)
  BY <1>4, SameRing
<1>6. /\ wire' = wire \o SubSeq(Content(lp), 1, k)
      /\ UNCHANGED <<buffered, output, heeded, puts, conns>>
  BY DEF PollTx
<1>7. Content(lp) \in Seq(Byte) /\ Len(Content(lp)) = Tqln(lp) /\ wire \in Seq(Byte)
  BY ContentType DEF LineInv, LineTypeOK
<1>8. wire' \in Seq(Byte) /\ wire' \o Content(lp') = wire \o Content(lp)
  <2> DEFINE c == Content(lp)
  <2>1. c \in Seq(Byte) /\ k \in 0 .. Len(c)
    BY <1>7
  <2>2. Content(lp') = SubSeq(c, k + 1, Len(c))
    BY <1>1, <1>5, <1>7, Zenon
  <2> HIDE DEF c
  <2>3. /\ wire \o SubSeq(c, 1, k) \in Seq(Byte)
        /\ (wire \o SubSeq(c, 1, k)) \o SubSeq(c, k + 1, Len(c)) = wire \o c
    BY <2>1, <1>7, SplitSeq, Zenon
  <2> QED BY <2>2, <2>3, <1>6, Zenon DEF c
<1>9. StreamIntact' /\ NothingOverwritten'
  BY <1>4, <1>6, <1>8, Zenon DEF LineInv, StreamIntact, NothingOverwritten
<1>10. RoomInv'
  <2>1. Avail(lp') = Avail(lp) + k /\ Avail(lp) \in Nat
    BY <1>1, <1>2, <1>5 DEF Avail
  <2>2. Tqln(m) = 0 => Avail(lp') = txbsz
    BY <1>2, <1>5 DEF Avail
  <2> QED BY <2>1, <2>2, <1>2, <1>4 DEF LineInv, RoomInv
<1>11. LineTypeOK'
  BY <1>4, <1>6, <1>8, LineIsTyped, Zenon DEF LineInv, LineTypeOK
<1> QED BY <1>4, <1>9, <1>10, <1>11, Zenon DEF LineInv

\* A line without a connection satisfies the invariant.
LEMMA DisconnectedInv ==
  ASSUME LineInv, NEW l \in Line, ~l.conn, Disconnected(l)
  PROVE  LineInv'
<1>1. /\ lp' = l /\ buffered' = <<>> /\ wire' = <<>> /\ heeded' = TRUE
      /\ UNCHANGED <<output, puts, conns>>
  BY DEF Disconnected
<1>2. LineTypeOK'
  BY <1>1, LineIsTyped DEF LineInv, LineTypeOK
<1> QED BY <1>1, <1>2 DEF LineInv, RoomInv, StreamIntact, NothingOverwritten

\* A put appends to the buffer what it appends to the stream, pauses the
\* device when less than the guard is left, or counts what it overwrites.
LEMMA PutcInv ==
  ASSUME LineInv, Putc
  PROVE  LineInv'
<1> DEFINE n == puts + 1
<1> DEFINE open == [lp EXCEPT !.xmte = IF Avail(lp) > 1 THEN 1 ELSE lp.xmte]
<1> DEFINE one == Store(open, n)
<1> DEFINE two == Store(one, n)
<1>1. /\ lp \in Line /\ txbsz \in Nat /\ Guard \in Nat /\ 2 <= Guard /\ Guard < txbsz
      /\ Tqln(lp) \in 0 .. txbsz - 1 /\ buffered \in Seq(Byte) /\ wire \in Seq(Byte)
      /\ output \in Seq(Byte) /\ Content(lp) \in Seq(Byte)
      /\ n \in Byte /\ n \in Nat /\ puts \in Nat
  BY TqlnRange, ContentType, LineAssumption, BytesType DEF LineInv, LineTypeOK
<1>2. /\ puts < MaxPuts /\ puts' = n /\ heeded' = (heeded /\ lp.xmte = 1)
      /\ wire' = wire /\ conns' = conns
  BY DEF Putc
<1>3. puts' \in 0 .. MaxPuts /\ heeded' \in BOOLEAN /\ conns' \in 0 .. MaxConns
  BY <1>1, <1>2, LineAssumption DEF LineInv, LineTypeOK
<1> HIDE DEF n
<1>4. CASE /\ ~lp.conn /\ ~lp.txbfd /\ lp' = [lp EXCEPT !.txdrp = lp.txdrp + 1]
           /\ UNCHANGED <<buffered, output>>
  <2>1. lp' \in Line /\ ~lp'.conn
    <3> DEFINE d == lp.txdrp + 1
    <3>1. d \in Nat /\ lp' = [lp EXCEPT !.txdrp = d] /\ ~lp.conn
      BY <1>1, <1>4 DEF Line
    <3> HIDE DEF d
    <3> QED BY <1>1, <3>1, Zenon DEF Line
  <2>2. LineTypeOK'
    BY <1>1, <1>2, <1>3, <1>4, <2>1, LineIsTyped, Zenon DEF LineTypeOK
  <2> QED BY <2>1, <2>2 DEF LineInv, RoomInv, StreamIntact, NothingOverwritten
<1>5. CASE /\ lp.conn /\ Avail(lp) <= 1 /\ lp' = [lp EXCEPT !.xmte = 0]
           /\ UNCHANGED <<buffered, output>>
  <2>1. /\ lp' \in Line /\ lp'.xmte = 0 /\ lp'.txdrp = lp.txdrp /\ lp'.conn = lp.conn
        /\ lp'.txbfd = lp.txbfd /\ lp'.txb = lp.txb /\ lp'.txbpi = lp.txbpi
        /\ lp'.txbpr = lp.txbpr
    BY <1>1, <1>5, Zenon DEF Line
  <2>2. LineTypeOK'
    BY <1>1, <1>2, <1>3, <1>5, <2>1, LineIsTyped, Zenon DEF LineTypeOK
  <2>3. Content(lp') = Content(lp)
    BY <2>1, SameRing
  <2>4. StreamIntact'
    BY <1>2, <1>5, <2>1, <2>3, Zenon DEF LineInv, StreamIntact
  <2>5. NothingOverwritten'
    BY <1>2, <2>1, Zenon DEF LineInv, NothingOverwritten
  <2> QED BY <2>1, <2>2, <2>4, <2>5 DEF LineInv, RoomInv
<1>6. ASSUME NEW iac \in BOOLEAN, Takes(lp),
             lp' = Throttled(IF iac THEN two ELSE one),
             buffered' = IF lp.conn THEN buffered \o (IF iac THEN <<n, n>> ELSE <<n>>)
                                  ELSE buffered,
             output' = IF lp.txbfd THEN output \o (IF iac THEN <<n, n>> ELSE <<n>>)
                                   ELSE output
      PROVE  LineInv'
  <2> DEFINE bytes == IF iac THEN <<n, n>> ELSE <<n>>
  <2> DEFINE all == IF iac THEN two ELSE one
  <2>1. /\ open \in Line /\ open.conn = lp.conn /\ open.txbfd = lp.txbfd
        /\ open.txdrp = lp.txdrp /\ open.txb = lp.txb
        /\ open.txbpi = lp.txbpi /\ open.txbpr = lp.txbpr
    BY <1>1, Zenon DEF Line
  <2>2. Tqln(open) = Tqln(lp) /\ Content(open) = Content(lp)
    <3> HIDE DEF open
    <3> QED BY <2>1, SameRing
  <2>3. (lp.xmte = 1 \/ Tqln(lp) < txbsz - 1) => open.xmte = 1
    BY <1>1 DEF Line, Avail
  <2> HIDE DEF open
  <2>4. /\ one \in Line /\ one.conn = lp.conn /\ one.txbfd = lp.txbfd
        /\ one.xmte = open.xmte
        /\ Tqln(lp) < txbsz - 1 => /\ one.txdrp = lp.txdrp /\ Tqln(one) = Tqln(lp) + 1
                                  /\ Content(one) = Content(lp) \o <<n>>
        /\ Tqln(lp) = txbsz - 1 => one.txdrp = lp.txdrp + 1
    <3>1. n \in Byte
      BY <1>1, Zenon
    <3>2. /\ one \in Line /\ one.conn = open.conn /\ one.txbfd = open.txbfd /\ one.xmte = open.xmte
          /\ Tqln(open) < txbsz - 1 => /\ one.txdrp = open.txdrp /\ Tqln(one) = Tqln(open) + 1
                                      /\ Content(one) = Content(open) \o <<n>>
          /\ Tqln(open) = txbsz - 1 => one.txdrp = open.txdrp + 1
      BY <2>1, <3>1, StoreAppends, Zenon
    <3> HIDE DEF one
    <3> QED BY <2>1, <2>2, <3>2, Zenon
  <2>5. Tqln(one) \in 0 .. txbsz - 1
    BY <2>4, TqlnRange, Zenon
  <2> HIDE DEF one
  <2>6. /\ two \in Line /\ two.conn = lp.conn /\ two.txbfd = lp.txbfd
        /\ two.xmte = open.xmte
        /\ Tqln(one) < txbsz - 1 => /\ two.txdrp = one.txdrp /\ Tqln(two) = Tqln(one) + 1
                                   /\ Content(two) = Content(one) \o <<n>>
        /\ Tqln(one) = txbsz - 1 => two.txdrp = one.txdrp + 1
    BY <1>1, <2>4, StoreAppends, Zenon
  <2> HIDE DEF two
  <2>7. /\ all \in Line /\ all.conn = lp.conn /\ all.txbfd = lp.txbfd
        /\ all.xmte = open.xmte
    BY <2>4, <2>6, Zenon
  <2>8. bytes \in Seq(Byte)
    BY <1>1
  <2>9. all.txdrp = 0 => lp.txdrp = 0 /\ Content(all) = Content(lp) \o bytes
    <3>1. one.txdrp \in Nat /\ lp.txdrp \in Nat
      BY <1>1, <2>4 DEF Line
    <3>2. one.txdrp = 0 => lp.txdrp = 0 /\ Tqln(lp) < txbsz - 1
      <4>1. /\ Tqln(lp) < txbsz - 1 => one.txdrp = lp.txdrp
            /\ Tqln(lp) = txbsz - 1 => one.txdrp = lp.txdrp + 1
        BY <2>4, Zenon
      <4> Tqln(lp) \in 0 .. txbsz - 1
        BY <1>1, TqlnRange, Zenon
      <4>2. Tqln(lp) < txbsz - 1 \/ Tqln(lp) = txbsz - 1
        BY LineAssumption
      <4>3. lp.txdrp + 1 # 0
        BY <3>1
      <4> QED BY <4>1, <4>2, <4>3, Zenon
    <3>3. two.txdrp = 0 => one.txdrp = 0 /\ Tqln(one) < txbsz - 1
      <4>1. /\ Tqln(one) < txbsz - 1 => two.txdrp = one.txdrp
            /\ Tqln(one) = txbsz - 1 => two.txdrp = one.txdrp + 1
        BY <2>6, Zenon
      <4>2. Tqln(one) < txbsz - 1 \/ Tqln(one) = txbsz - 1
        BY <2>5, LineAssumption
      <4>3. one.txdrp + 1 # 0
        BY <3>1
      <4> QED BY <4>1, <4>2, <4>3, Zenon
    <3>4. one.txdrp = 0 => Content(one) = Content(lp) \o <<n>>
      BY <3>2, <2>4, Zenon
    <3>5. two.txdrp = 0 => Content(two) = Content(one) \o <<n>>
      BY <3>3, <2>6, Zenon
    <3>6. (Content(lp) \o <<n>>) \o <<n>> = Content(lp) \o <<n, n>>
      <4>1. /\ <<n>> \in Seq(Byte) /\ <<n>> \o <<n>> = <<n, n>>
            /\ Content(lp) \in Seq(Byte)
        BY <1>1, TwoBytes, Zenon
      <4>2. (Content(lp) \o <<n>>) \o <<n>> = Content(lp) \o (<<n>> \o <<n>>)
        BY <4>1, AssocBytes, Zenon
      <4> QED BY <4>1, <4>2, Zenon
    <3>7. CASE ~iac
      <4>1. all = one /\ bytes = <<n>>
        BY <3>7, Zenon
      <4> QED BY <4>1, <3>2, <3>4, Zenon
    <3>8. CASE iac
      <4>1. all = two /\ bytes = <<n, n>>
        BY <3>8, Zenon
      <4>2. two.txdrp = 0 => Content(two) = Content(lp) \o <<n, n>>
        BY <3>3, <3>4, <3>5, <3>6, Zenon
      <4> HIDE DEF all, bytes
      <4> QED BY <4>1, <4>2, <3>2, <3>3, Zenon
    <3> QED BY <3>7, <3>8, Zenon
  <2>10. ASSUME Tqln(lp) < txbsz - 2 PROVE all.txdrp = lp.txdrp
    BY <2>10, <1>1, <2>4, <2>5, <2>6
  <2> HIDE DEF all, bytes
  <2>11. /\ lp' = Throttled(all)
         /\ buffered' = IF lp.conn THEN buffered \o bytes ELSE buffered
         /\ output' = IF lp.txbfd THEN output \o bytes ELSE output
    BY <1>6 DEF all, bytes
  <2>12. /\ lp' \in Line /\ lp'.conn = lp.conn /\ lp'.txbfd = lp.txbfd
         /\ lp'.txdrp = all.txdrp /\ lp'.txb = all.txb
         /\ lp'.txbpi = all.txbpi /\ lp'.txbpr = all.txbpr
         /\ lp'.xmte = IF ~all.txbfd /\ Avail(all) <= Guard THEN 0 ELSE all.xmte
    BY <2>7, <2>11, Zenon DEF Throttled, Line
  <2>13. Tqln(lp') = Tqln(all) /\ Avail(lp') = Avail(all) /\ Content(lp') = Content(all)
    BY <2>12, SameRing
  <2>14. buffered' \in Seq(Byte) /\ output' \in Seq(Byte)
    BY <1>1, <2>8, <2>11
  <2>15. LineTypeOK'
    BY <1>1, <1>2, <1>3, <2>12, <2>14, LineIsTyped DEF LineTypeOK
  <2>16. StreamIntact'
    <3>1. SUFFICES ASSUME lp.conn, all.txdrp = 0
                   PROVE  wire \o Content(all) = buffered \o bytes
      BY <1>2, <2>11, <2>12, <2>13 DEF StreamIntact
    <3>2. wire \o Content(lp) = buffered
      BY <3>1, <2>9 DEF LineInv, StreamIntact
    <3>3. (wire \o Content(lp)) \o bytes = wire \o (Content(lp) \o bytes)
      <4>1. wire \in Seq(Byte) /\ Content(lp) \in Seq(Byte) /\ bytes \in Seq(Byte)
        BY <1>1, <2>8, Zenon
      <4> QED BY <4>1, AssocBytes, Zenon
    <3> QED BY <3>1, <3>2, <3>3, <2>9, Zenon
  <2>17. NothingOverwritten'
    <3>1. SUFFICES ASSUME lp.conn, ~lp.txbfd, heeded, lp.xmte = 1
                   PROVE  all.txdrp = 0
      BY <1>2, <2>12, Zenon DEF NothingOverwritten
    <3>2. Avail(lp) > Guard /\ lp.txdrp = 0
      BY <3>1 DEF LineInv, RoomInv, NothingOverwritten
    <3>3. Tqln(lp) < txbsz - 2
      BY <3>2, <1>1 DEF Avail
    <3> QED BY <3>2, <3>3, <2>10
  <2>18. RoomInv'
    <3>1. SUFFICES ASSUME ~lp.txbfd, lp'.xmte = 1 PROVE Avail(all) > Guard
      BY <2>12, <2>13 DEF RoomInv
    <3>2. Avail(all) \in Int
      BY <2>7, <1>1, TqlnRange DEF Avail
    <3>3. ~(Avail(all) <= Guard)
      BY <3>1, <2>7, <2>12
    <3> QED BY <3>2, <3>3, <1>1
  <2> QED BY <2>12, <2>15, <2>16, <2>17, <2>18, Zenon DEF LineInv
<1> QED BY <1>4, <1>5, <1>6, Zenon DEF Putc, n

\* A new connection starts with a greeted line: what the first write takes
\* and what is left are together what the line held.
LEMMA ConnectInv ==
  ASSUME LineInv, Connect
  PROVE  LineInv'
<1> DEFINE o == [lp EXCEPT !.conn = TRUE]
<1> DEFINE l == Greeted(InitLine(o))
<1>1. o \in Line /\ o.conn /\ o.txbfd = lp.txbfd
  BY Zenon DEF LineInv, Line
<1> HIDE DEF o
<1>2. /\ l \in Line /\ l.conn /\ l.txbfd = lp.txbfd /\ l.txdrp = 0
      /\ ~l.txbfd => Tqln(l) = MsgLen
  BY <1>1, InitLineType, GreetedType, Zenon
<1>3. /\ conns < MaxConns /\ conns' = conns + 1 /\ heeded' = TRUE
      /\ UNCHANGED <<output, puts>>
  BY DEF Connect
<1>4. /\ conns' \in 0 .. MaxConns /\ heeded' \in BOOLEAN /\ output' \in Seq(Byte)
      /\ puts' \in 0 .. MaxPuts
  BY <1>3, LineAssumption DEF LineInv, LineTypeOK
<1>5. \/ \E k \in 0 .. Tqln(l) :
           /\ lp' = [Sent(l, k) EXCEPT !.txcnt = Sent(l, k).txcnt - MsgLen]
           /\ buffered' = Content(l) /\ wire' = SubSeq(Content(l), 1, k)
      \/ /\ lp' = [Failed(l) EXCEPT !.txcnt = Failed(l).txcnt - MsgLen]
         /\ buffered' = <<>> /\ wire' = <<>>
  BY Zenon DEF Connect, o
<1> HIDE DEF l
<1>6. Content(l) \in Seq(Byte) /\ Len(Content(l)) = Tqln(l) /\ Tqln(l) \in 0 .. txbsz - 1
  BY <1>2, ContentType, TqlnRange, Zenon
<1>7. ASSUME NEW k \in 0 .. Tqln(l),
             lp' = [Sent(l, k) EXCEPT !.txcnt = Sent(l, k).txcnt - MsgLen],
             buffered' = Content(l), wire' = SubSeq(Content(l), 1, k)
      PROVE  LineInv'
  <2> DEFINE m == Sent(l, k)
  <2>1. /\ m \in Line /\ Tqln(m) = Tqln(l) - k
        /\ Content(m) = SubSeq(Content(l), k + 1, Tqln(l))
        /\ m.conn = l.conn /\ m.txbfd = l.txbfd /\ m.txdrp = l.txdrp
    BY <1>2, SentRemoves, Zenon
  <2>2. lp' = [m EXCEPT !.txcnt = m.txcnt - MsgLen]
    BY <1>7
  <2> HIDE DEF m
  <2>3. /\ lp' \in Line /\ lp'.conn = m.conn /\ lp'.txbfd = m.txbfd
        /\ lp'.txdrp = m.txdrp /\ lp'.txb = m.txb
        /\ lp'.txbpi = m.txbpi /\ lp'.txbpr = m.txbpr
    <3> DEFINE c == m.txcnt - MsgLen
    <3>1. c \in Int
      BY <2>1, LineAssumption DEF Line
    <3>2. lp' = [m EXCEPT !.txcnt = c]
      BY <2>2
    <3> HIDE DEF c
    <3> QED BY <2>1, <3>1, <3>2 DEF Line
  <2>4. Tqln(lp') = Tqln(m) /\ Avail(lp') = Avail(m) /\ Content(lp') = Content(m)
    BY <2>3, SameRing
  <2> DEFINE d == Content(l)
  <2>5. d \in Seq(Byte) /\ k \in 0 .. Len(d) /\ buffered' = d /\ wire' = SubSeq(d, 1, k)
        /\ Content(lp') = SubSeq(d, k + 1, Len(d))
    BY <1>6, <1>7, <2>1, <2>4, Zenon
  <2> HIDE DEF d
  <2>6. wire' \in Seq(Byte) /\ wire' \o Content(lp') = buffered'
    <3>1. /\ <<>> \in Seq(Byte) /\ <<>> \o d = d
          /\ SubSeq(d, 1, k) \in Seq(Byte)
          /\ <<>> \o SubSeq(d, 1, k) = SubSeq(d, 1, k)
      <4>1. SubSeq(d, 1, k) \in Seq(Byte)
        BY <2>5
      <4> QED BY <4>1, <2>5
    <3>2. (<<>> \o SubSeq(d, 1, k)) \o SubSeq(d, k + 1, Len(d)) = <<>> \o d
      BY <3>1, <2>5, SplitSeq, Zenon
    <3> QED BY <3>1, <3>2, <2>5, Zenon
  <2>7. LineTypeOK'
    BY <1>4, <2>3, <2>5, <2>6, LineIsTyped, Zenon DEF LineTypeOK
  <2>8. RoomInv'
    <3>1. SUFFICES ASSUME ~l.txbfd PROVE Avail(m) > Guard
      BY <2>1, <2>3, <2>4 DEF RoomInv
    <3>2. Tqln(l) = MsgLen
      BY <1>2, <3>1
    <3> QED BY <2>1, <3>2, LineAssumption DEF Avail
  <2> QED BY <1>2, <2>1, <2>3, <2>6, <2>7, <2>8
          DEF LineInv, StreamIntact, NothingOverwritten
<1>8. ASSUME lp' = [Failed(l) EXCEPT !.txcnt = Failed(l).txcnt - MsgLen],
             buffered' = <<>>, wire' = <<>>
      PROVE  LineInv'
  <2> DEFINE m == Failed(l)
  <2> DEFINE c == m.txcnt - MsgLen
  <2>1. m \in Line /\ ~m.conn
    BY <1>2, ClosedType
  <2>2. lp' = [m EXCEPT !.txcnt = c]
    BY <1>8
  <2> HIDE DEF m
  <2>3. c \in Int
    BY <2>1, LineAssumption DEF Line
  <2> HIDE DEF c
  <2>4. lp' \in Line /\ ~lp'.conn
    BY <2>1, <2>2, <2>3 DEF Line
  <2>5. LineTypeOK'
    BY <1>4, <1>8, <2>4, LineIsTyped DEF LineTypeOK
  <2> QED BY <2>4, <2>5 DEF LineInv, RoomInv, StreamIntact, NothingOverwritten
<1> QED BY <1>5, <1>7, <1>8

\* The invariant holds initially and every step of the line keeps it.
THEOREM LineInvariant == LineSpec => []LineInv
<1>1. LineInit => LineInv
  <2> SUFFICES ASSUME LineInit PROVE LineInv
    OBVIOUS
  <2>1. lp \in Line /\ ~lp.conn
    BY ZeroIndex, BytesType DEF LineInit, Line
  <2>2. LineTypeOK
    BY <2>1, LineIsTyped, LineAssumption DEF LineInit, LineTypeOK
  <2> QED BY <2>1, <2>2 DEF LineInv, RoomInv, StreamIntact, NothingOverwritten
<1>2. LineInv /\ [LineNext]_lineVars => LineInv'
  <2> SUFFICES ASSUME LineInv, [LineNext]_lineVars PROVE LineInv'
    OBVIOUS
  <2> DEFINE Cut == \E l \in Line : ~l.conn /\ Disconnected(l)
  <2>1. CASE Putc
    BY <2>1, PutcInv
  <2>2. CASE \E k \in 0 .. Tqln(lp) : PollTx(k)
    BY <2>2, PollTxInv
  <2>3. CASE PollTxIdle
    <3> DEFINE m == Sent(lp, Tqln(lp))
    <3>1. m \in Line /\ m.conn = lp.conn
      <4>1. lp \in Line /\ Tqln(lp) \in 0 .. Tqln(lp)
        BY TqlnRange DEF LineInv
      <4> QED BY <4>1, SentRemoves
    <3>2. /\ lp' = [m EXCEPT !.xmte = IF Tqln(m) = 0 THEN 1 ELSE m.xmte] /\ ~lp.conn
          /\ UNCHANGED <<buffered, wire, output, heeded, puts, conns>>
      BY <2>3 DEF PollTxIdle, Reenabled
    <3> HIDE DEF m
    <3>3. lp' \in Line /\ ~lp'.conn
      BY <3>1, <3>2 DEF Line
    <3>4. LineTypeOK'
      BY <3>2, <3>3, LineIsTyped, Zenon DEF LineInv, LineTypeOK
    <3> QED BY <3>3, <3>4 DEF LineInv, RoomInv, StreamIntact, NothingOverwritten
  <2>4. Cut => LineInv'
    BY DisconnectedInv
  <2>5. CASE PollTxError
    BY <2>4, <2>5, ClosedType DEF PollTxError, LineInv
  <2>6. Reset => Cut
    <3>1. lp \in Line
      BY DEF LineInv
    <3>2. \A k \in 0 .. Tqln(lp) : Closed(Sent(lp, k)) \in Line /\ ~Closed(Sent(lp, k)).conn
      BY <3>1, SentRemoves, ClosedType
    <3> QED BY <3>1, <3>2, ClosedType DEF Reset
  <2>7. CASE PollRxError
    BY <2>4, <2>6, <2>7, ClosedType, Zenon DEF PollRxError, LineInv
  <2>8. CASE Connect
    BY <2>8, ConnectInv
  <2>9. CASE UNCHANGED lineVars
    BY <2>9 DEF lineVars, LineInv, LineTypeOK, RoomInv, StreamIntact, NothingOverwritten
  <2> QED BY <2>1, <2>2, <2>3, <2>4, <2>5, <2>6, <2>7, <2>8, <2>9 DEF LineNext
<1> QED BY <1>1, <1>2, PTL DEF LineSpec

\* txbpi and txbpr never leave the buffer, whatever the socket takes and
\* however connections come and go (sim_tmxr.c:2710, 2862, 670).
THEOREM LineTypeCorrect == LineSpec => []LineTypeOK
<1>1. LineInv => LineTypeOK
  BY DEF LineInv
<1> QED BY <1>1, LineInvariant, PTL

\* tmxr_send_buffered_data loses, repeats and reorders nothing of what a
\* connection's buffer took, for every buffer size and every partial write.
THEOREM StreamIsIntact == LineSpec => []StreamIntact
<1>1. LineInv => StreamIntact
  BY DEF LineInv
<1> QED BY <1>1, LineInvariant, PTL

\* With a guard of at least two places a device that heeds xmte has nothing
\* overwritten on an unbuffered line.
THEOREM GuardSuffices == LineSpec => []NothingOverwritten
<1>1. LineInv => NothingOverwritten
  BY DEF LineInv
<1> QED BY <1>1, LineInvariant, PTL

-----------------------------------------------------------------------------
(* The tail queue.                                                         *)

-----------------------------------------------------------------------------
(* Position arithmetic.                                                    *)

\* A remainder is below its divisor.
LEMMA ModRange ==
  ASSUME NEW n \in Nat, n > 0, NEW a \in Int
  PROVE  a % n \in 0 .. n - 1
OBVIOUS

\* A value below the divisor is its own remainder.
LEMMA ModSmall ==
  ASSUME NEW n \in Nat, NEW a \in 0 .. n - 1
  PROVE  a % n = a
OBVIOUS

\* Positions less than n apart use different slots of a ring of n slots.
LEMMA ModDiffers ==
  ASSUME NEW n \in Nat, NEW a \in Int, NEW b \in Int, b < a, a - b < n
  PROVE  a % n # b % n
<1>1. SUFFICES ASSUME a % n = b % n PROVE FALSE
  OBVIOUS
<1> DEFINE x == a \div n
<1> DEFINE y == b \div n
<1>2. a = n * x + (a % n) /\ b = n * y + (a % n)
  BY <1>1
<1>3. x \in Int /\ y \in Int
  OBVIOUS
<1> HIDE DEF x, y
<1>4. CASE x <= y
  <2>1. n * x <= n * y
    BY <1>3, <1>4
  <2> QED BY <2>1, <1>2, <1>3
<1>5. CASE x >= y + 1
  <2>1. n * x >= n * y + n
    BY <1>3, <1>5
  <2> QED BY <2>1, <1>2, <1>3
<1> QED BY <1>3, <1>4, <1>5

\* A position that counts at most MaxCalls enqueues has a successor one higher.
LEMMA SuccIsPlusOne ==
  ASSUME NEW x \in 0 .. MaxCalls
  PROVE  Succ(x) = x + 1
BY ModSmall, SizeAssumption, WordAssumption, MaxCallsAssumption, NoWrapAssumption DEF Succ

\* The distance between two ordered positions is their difference.
LEMMA DistanceIsDifference ==
  ASSUME NEW x \in 0 .. MaxCalls, NEW y \in 0 .. MaxCalls, x <= y
  PROVE  Distance(x, y) = y - x
BY ModSmall, SizeAssumption, WordAssumption, MaxCallsAssumption, NoWrapAssumption DEF Distance

\* The fullness test at sim_tailq.c:103 says how far apart the two positions are.
LEMMA AvailableTest ==
  ASSUME NEW ct \in 0 .. MaxCalls, NEW ph \in 0 .. MaxCalls
  PROVE  Available(ct, ph) < 1 <=> ph - ct >= Size - 1
<1> DEFINE n == ct + Size - (ph + 1)
<1>1. n \in Int /\ -Word <= 2 * n /\ 2 * n < Word /\ Word \in Nat /\ Word > 0
  BY SizeAssumption, WordAssumption, MaxCallsAssumption, NoWrapAssumption
<1>2. Available(ct, ph) = Signed(n)
  BY DEF Available
<1> HIDE DEF n
<1>3. n >= 0 => n % Word = n
  BY <1>1
<1>4. n < 0 => n % Word = n + Word
  BY <1>1
<1>5. Word \div 2 \in Nat /\ Word = 2 * (Word \div 2)
  BY WordAssumption
<1>6. Signed(n) = n
  BY <1>1, <1>3, <1>4, <1>5 DEF Signed
<1> QED BY <1>2, <1>6, SizeAssumption, MaxCallsAssumption DEF n
-----------------------------------------------------------------------------
(* The inductive invariant.                                                *)

\* A producer inside the reservation loop has used fewer than the permitted retries.
RetryInv == \A p \in Producers : pc[p] # "idle" => retries[p] < MAX_ENQUEUE_RETRIES

\* Enqueue calls that have not reserved a slot yet.
Pending == {p \in Producers : pc[p] \in {"read_head", "read_tail", "recheck_head",
                                          "recheck_tail", "cas"}}

\* The members of P can be given numbers of their own among a + 1 .. b.
Numbered(P, a, b) ==
  a <= b /\ \E f \in [P -> a + 1 .. b] : \A q, r \in P : f[q] = f[r] => q = r

\* Every reserved position belongs to a call of its own, and so does every pending
\* call, which has not reserved its position yet.
CallInv == Numbered(Pending, prod_head, calls)

\* The four positions are ordered and span less than the ring.
OrderInv ==
  /\ cons_tail <= cons_head /\ cons_head <= prod_tail /\ prod_tail <= prod_head
  /\ prod_head - cons_tail <= Size - 1

ConsumerInv ==
  /\ cpc \in {"idle", "advance"} => cons_head = cons_tail
  /\ cpc = "advance" => chead = cons_head /\ cons_head < prod_tail
  /\ cpc \in {"load", "release"} => chead = cons_tail /\ cons_head = cons_tail + 1

\* What a producer's local copies say about the shared positions.
LocalInv ==
  \A p \in Producers :
    /\ pc[p] \in {"read_tail", "recheck_head", "recheck_tail", "cas"} => head[p] <= prod_head
    /\ pc[p] \in {"recheck_head", "recheck_tail", "cas"} => tail[p] <= cons_tail
    /\ pc[p] \in {"recheck_head", "recheck_tail"} => head[p] - tail[p] >= Size - 1
    /\ pc[p] = "cas" => head[p] - tail[p] < Size - 1

\* Reserved positions lie between prod_tail and prod_head and are all different.
HolderInv ==
  \A p \in Producers : Holds(p) =>
    /\ prod_tail <= head[p] /\ head[p] < prod_head
    /\ pc[p] = "publish" => head[p] = prod_tail
    /\ \A r \in Producers : (Holds(r) /\ r # p) => head[r] # head[p]

\* A call of sim_tailq_count knows a published position, and the items below it that
\* have not been released are those that were in the queue when it loaded prod_tail.
CountInv ==
  npc = "load_cons" =>
    nprod <= prod_tail /\ left = IF cons_tail <= nprod THEN nprod - cons_tail ELSE -1

IndInv ==
  /\ TypeOK /\ RetryInv /\ CallInv
  /\ OrderInv /\ ConsumerInv /\ LocalInv /\ HolderInv /\ CountInv

\* A call begins: one more member, one more number.
LEMMA NumberMore ==
  ASSUME NEW P, NEW a \in Nat, NEW b \in Nat, Numbered(P, a, b), NEW p, p \notin P
  PROVE  Numbered(P \cup {p}, a, b + 1)
<1>1. PICK f \in [P -> a + 1 .. b] : \A q, r \in P : f[q] = f[r] => q = r
  BY DEF Numbered
<1> DEFINE g == [q \in P \cup {p} |-> IF q = p THEN b + 1 ELSE f[q]]
<1>2. a <= b /\ a <= b + 1 /\ b + 1 \in a + 1 .. b + 1
  BY DEF Numbered
<1>3. \A q \in P : f[q] \in a + 1 .. b + 1 /\ f[q] # b + 1
  BY <1>2
<1>4. g \in [P \cup {p} -> a + 1 .. b + 1]
  BY <1>2, <1>3
<1>5. \A q, r \in P \cup {p} : g[q] = g[r] => q = r
  BY <1>1, <1>3
<1> QED BY <1>2, <1>4, <1>5, Zenon DEF Numbered

\* A call gives up.
LEMMA NumberFewer ==
  ASSUME NEW P, NEW a \in Nat, NEW b \in Nat, Numbered(P, a, b), NEW p
  PROVE  Numbered(P \ {p}, a, b)
<1>1. PICK f \in [P -> a + 1 .. b] : \A q, r \in P : f[q] = f[r] => q = r
  BY DEF Numbered
<1> DEFINE g == [q \in P \ {p} |-> f[q]]
<1>2. g \in [P \ {p} -> a + 1 .. b] /\ \A q, r \in P \ {p} : g[q] = g[r] => q = r
  BY <1>1
<1> QED BY <1>2, Zenon DEF Numbered

\* A call reserves a position: the lowest number is taken, and the member that had
\* it, if another one, gets the number of the call.
LEMMA NumberNext ==
  ASSUME NEW P, NEW a \in Nat, NEW b \in Nat, Numbered(P, a, b), NEW p \in P
  PROVE  a + 1 <= b /\ Numbered(P \ {p}, a + 1, b)
<1>1. PICK f \in [P -> a + 1 .. b] : \A q, r \in P : f[q] = f[r] => q = r
  BY DEF Numbered
<1> DEFINE g == [q \in P \ {p} |-> IF f[q] = a + 1 THEN f[p] ELSE f[q]]
<1>2. a + 1 <= b /\ \A q \in P : f[q] \in a + 1 .. b /\ (f[q] # a + 1 => f[q] \in (a + 1) + 1 .. b)
  OBVIOUS
<1>3. \A q \in P \ {p} : f[q] # f[p]
  BY <1>1
<1>4. \A q \in P \ {p} : (IF f[q] = a + 1 THEN f[p] ELSE f[q]) \in (a + 1) + 1 .. b
  BY <1>2, <1>3
<1>5. g \in [P \ {p} -> (a + 1) + 1 .. b]
  BY <1>4
<1>6. \A q, r \in P \ {p} : g[q] = g[r] => q = r
  BY <1>1, <1>3
<1> QED BY <1>2, <1>5, <1>6, Zenon DEF Numbered

\* A call in the reservation loop accounts for a position not yet reserved.
LEMMA PendingHasRoom ==
  ASSUME CallInv, TypeOK, NEW p \in Pending
  PROVE  prod_head + 1 <= MaxCalls
<1>1. prod_head \in Nat /\ calls \in Nat /\ calls <= MaxCalls /\ MaxCalls \in Nat
  BY MaxCallsAssumption, WordAssumption DEF TypeOK
<1>2. prod_head + 1 <= calls
  BY <1>1, NumberNext, Zenon DEF CallInv
<1> QED BY <1>1, <1>2

\* Under the invariant no position exceeds the number of calls.
LEMMA PositionBounds ==
  ASSUME IndInv
  PROVE  {prod_head, prod_tail, cons_head, cons_tail} \subseteq 0 .. MaxCalls
BY MaxCallsAssumption, WordAssumption DEF IndInv, CallInv, Numbered, OrderInv, TypeOK

\* A step that leaves the reservation loop, or stays in it, or stays out of it,
\* changes the pending calls by one or not at all.
LEMMA PendingStep ==
  ASSUME NEW p \in Producers, TypeOK, NEW l, Goto(p, l)
  PROVE  /\ p \in Pending /\ p \in Pending' => Pending' = Pending
         /\ p \notin Pending /\ p \notin Pending' => Pending' = Pending
         /\ p \in Pending /\ p \notin Pending' => Pending' = Pending \ {p}
         /\ p \notin Pending /\ p \in Pending' => Pending' = Pending \cup {p}
<1>1. \A r \in Producers \ {p} : pc'[r] = pc[r]
  BY DEF Goto, TypeOK
<1>2. \A r \in Producers \ {p} : r \in Pending' <=> r \in Pending
  BY <1>1 DEF Pending
<1>3. Pending \subseteq Producers /\ Pending' \subseteq Producers
  BY DEF Pending
<1>4. p \in Pending /\ p \notin Pending' => Pending' = Pending \ {p}
  BY <1>2, <1>3
<1>5. p \notin Pending /\ p \in Pending' => Pending' = Pending \cup {p}
  BY <1>2, <1>3
<1>6. (p \in Pending <=> p \in Pending') => Pending' = Pending
  BY <1>2, <1>3
<1> QED BY <1>4, <1>5, <1>6, Zenon

\* The initial state of a ring, all zeroes, satisfies the invariant.
LEMMA InitInv == Init => IndInv
<1> SUFFICES ASSUME Init PROVE IndInv
  OBVIOUS
<1> USE SizeAssumption, RetriesAssumption, MaxCallsAssumption
<1>w. Word \in Nat /\ Word > 0
  BY WordAssumption
<1>1. Pending = {}
  BY DEF Init, Pending
<1>2. CallInv
  <2>1. [q \in {} |-> 0] \in [{} -> 0 + 1 .. 0]
    OBVIOUS
  <2>2. 0 <= 0
    OBVIOUS
  <2>3. Numbered({}, 0, 0)
    BY <2>1, <2>2, Zenon DEF Numbered
  <2>4. prod_head = 0 /\ calls = 0
    BY DEF Init
  <2> QED BY <1>1, <2>3, <2>4, Zenon DEF CallInv
<1>3. TypeOK /\ RetryInv
  BY <1>w DEF Init, TypeOK, RetryInv
<1>4. OrderInv /\ ConsumerInv /\ LocalInv /\ HolderInv /\ CountInv
  BY DEF Init, OrderInv, ConsumerInv, LocalInv, HolderInv, Holds, CountInv
<1> QED BY <1>2, <1>3, <1>4 DEF IndInv

\* Every step of a producer, of the consumer or of the destroying thread
\* preserves the invariant.
LEMMA NextInv == IndInv /\ [Next]_vars => IndInv'
<1> SUFFICES ASSUME IndInv, [Next]_vars PROVE IndInv'
  OBVIOUS
<1> USE SizeAssumption, RetriesAssumption, MaxCallsAssumption
<1>w. Word \in Nat /\ Word >= MaxCalls + Size
  BY WordAssumption, NoWrapAssumption
<1>t. TypeOK /\ RetryInv /\ CallInv /\ OrderInv /\ ConsumerInv /\ LocalInv /\ HolderInv
  BY DEF IndInv
<1>u. CountInv
  BY DEF IndInv
<1>v. ASSUME UNCHANGED <<npc, nprod, left, prod_tail, cons_tail>> PROVE CountInv'
  BY <1>u, <1>v DEF CountInv
<1>b. {prod_head, prod_tail, cons_head, cons_tail} \subseteq 0 .. MaxCalls
  BY PositionBounds
<1>f. prod_head \in Nat /\ calls \in Nat
  BY <1>t, <1>b DEF TypeOK
<1>1. ASSUME NEW p \in Producers, NEW v \in Item, EnqueueCall(p, v) PROVE IndInv'
  <2>1. TypeOK'
    BY <1>t, <1>w, <1>1 DEF EnqueueCall, Goto, ring, consumer, counter, TypeOK
  <2>2. RetryInv'
    BY <1>t, <1>1 DEF EnqueueCall, Goto, TypeOK, RetryInv
  <2>p. p \notin Pending /\ p \in Pending' /\ Goto(p, "read_head")
    BY <1>t, <1>1 DEF EnqueueCall, Goto, Pending, TypeOK
  <2>q. Pending' = Pending \cup {p}
    BY <2>p, <1>t, PendingStep, Zenon
  <2>3. CallInv'
    <3>1. prod_head' = prod_head /\ calls' = calls + 1
      BY <1>1 DEF EnqueueCall, ring
    <3> QED BY <2>p, <2>q, <3>1, <1>t, <1>f, NumberMore, Zenon DEF CallInv
  <2>4. OrderInv' /\ ConsumerInv'
    BY <1>t, <1>1 DEF EnqueueCall, ring, consumer, OrderInv, ConsumerInv
  <2>5. LocalInv'
    BY <1>t, <1>w, <1>1 DEF EnqueueCall, ring, Goto, TypeOK, LocalInv
  <2>6. HolderInv'
    BY <1>t, <1>1 DEF EnqueueCall, ring, Goto, TypeOK, HolderInv, Holds
  <2>7. CountInv'
    <3>1. UNCHANGED <<npc, nprod, left, prod_tail, cons_tail>>
      BY <1>1, Zenon DEF EnqueueCall, ring, counter
    <3> QED BY <1>v, <3>1
  <2> QED BY <2>1, <2>2, <2>3, <2>4, <2>5, <2>6, <2>7 DEF IndInv
<1>2. ASSUME NEW p \in Producers, ReadHead(p) PROVE IndInv'
  <2>1. TypeOK'
    BY <1>t, <1>w, <1>2 DEF ReadHead, Goto, ring, consumer, counter, TypeOK
  <2>2. RetryInv'
    BY <1>t, <1>2 DEF ReadHead, Goto, TypeOK, RetryInv
  <2>p. p \in Pending /\ p \in Pending'
    BY <1>t, <1>2 DEF ReadHead, Goto, Pending, TypeOK
  <2>q. Pending' = Pending
    BY <2>p, <1>t, <1>2, PendingStep DEF ReadHead
  <2>3. CallInv'
    BY <2>q, <1>t, <1>2 DEF ReadHead, ring, CallInv
  <2>4. OrderInv' /\ ConsumerInv'
    BY <1>t, <1>2 DEF ReadHead, ring, consumer, OrderInv, ConsumerInv
  <2>5. LocalInv'
    BY <1>t, <1>w, <1>2, <1>b DEF ReadHead, ring, Goto, TypeOK, LocalInv
  <2>6. HolderInv'
    BY <1>t, <1>2 DEF ReadHead, ring, Goto, TypeOK, HolderInv, Holds
  <2>7. CountInv'
    <3>1. UNCHANGED <<npc, nprod, left, prod_tail, cons_tail>>
      BY <1>2, Zenon DEF ReadHead, ring, counter
    <3> QED BY <1>v, <3>1
  <2> QED BY <2>1, <2>2, <2>3, <2>4, <2>5, <2>6, <2>7 DEF IndInv
<1>3. ASSUME NEW p \in Producers, ReadTail(p) PROVE IndInv'
  <2>a. head[p] \in 0 .. MaxCalls
    BY <1>t, <1>b, <1>3 DEF ReadTail, TypeOK, LocalInv
  <2>b. Available(cons_tail, head[p]) < 1 <=> head[p] - cons_tail >= Size - 1
    BY AvailableTest, <1>b, <2>a
  <2>1. TypeOK'
    BY <1>t, <1>w, <1>3 DEF ReadTail, Goto, ring, consumer, counter, TypeOK
  <2>2. RetryInv'
    BY <1>t, <1>3 DEF ReadTail, Goto, TypeOK, RetryInv
  <2>p. p \in Pending /\ p \in Pending'
    BY <1>t, <1>3 DEF ReadTail, Goto, Pending, TypeOK
  <2>q. Pending' = Pending
    BY <2>p, <1>t, <1>3, PendingStep DEF ReadTail
  <2>3. CallInv'
    BY <2>q, <1>t, <1>3 DEF ReadTail, ring, CallInv
  <2>4. OrderInv' /\ ConsumerInv'
    BY <1>t, <1>3 DEF ReadTail, ring, consumer, OrderInv, ConsumerInv
  <2>5. LocalInv'
    BY <1>t, <1>w, <1>3, <1>b, <2>b DEF ReadTail, ring, Goto, TypeOK, LocalInv
  <2>6. HolderInv'
    BY <1>t, <1>3 DEF ReadTail, ring, Goto, TypeOK, HolderInv, Holds
  <2>7. CountInv'
    <3>1. UNCHANGED <<npc, nprod, left, prod_tail, cons_tail>>
      BY <1>3, Zenon DEF ReadTail, ring, counter
    <3> QED BY <1>v, <3>1
  <2> QED BY <2>1, <2>2, <2>3, <2>4, <2>5, <2>6, <2>7 DEF IndInv
<1>4. ASSUME NEW p \in Producers, RecheckHead(p) PROVE IndInv'
  <2>1. TypeOK'
    BY <1>t, <1>w, <1>4 DEF RecheckHead, Goto, ring, consumer, counter, TypeOK
  <2>2. RetryInv'
    BY <1>t, <1>4 DEF RecheckHead, Goto, TypeOK, RetryInv
  <2>p. p \in Pending /\ p \in Pending'
    BY <1>t, <1>4 DEF RecheckHead, Goto, Pending, TypeOK
  <2>q. Pending' = Pending
    BY <2>p, <1>t, <1>4, PendingStep, Zenon DEF RecheckHead
  <2>3. CallInv'
    BY <2>q, <1>t, <1>4 DEF RecheckHead, ring, CallInv
  <2>4. OrderInv' /\ ConsumerInv'
    BY <1>t, <1>4 DEF RecheckHead, ring, consumer, OrderInv, ConsumerInv
  <2>5. LocalInv'
    BY <1>t, <1>w, <1>4 DEF RecheckHead, ring, Goto, TypeOK, LocalInv
  <2>6. HolderInv'
    BY <1>t, <1>4 DEF RecheckHead, ring, Goto, TypeOK, HolderInv, Holds
  <2>7. CountInv'
    <3>1. UNCHANGED <<npc, nprod, left, prod_tail, cons_tail>>
      BY <1>4, Zenon DEF RecheckHead, ring, counter
    <3> QED BY <1>v, <3>1
  <2> QED BY <2>1, <2>2, <2>3, <2>4, <2>5, <2>6, <2>7 DEF IndInv
<1>5. ASSUME NEW p \in Producers, RecheckTailChanged(p) PROVE IndInv'
  <2>1. TypeOK'
    BY <1>t, <1>w, <1>5 DEF RecheckTailChanged, Goto, ring, consumer, counter, TypeOK
  <2>2. RetryInv'
    BY <1>t, <1>5 DEF RecheckTailChanged, Goto, TypeOK, RetryInv
  <2>p. p \in Pending /\ p \in Pending'
    BY <1>t, <1>5 DEF RecheckTailChanged, Goto, Pending, TypeOK
  <2>q. Pending' = Pending
    BY <2>p, <1>t, <1>5, PendingStep DEF RecheckTailChanged
  <2>3. CallInv'
    BY <2>q, <1>t, <1>5 DEF RecheckTailChanged, ring, CallInv
  <2>4. OrderInv' /\ ConsumerInv'
    BY <1>t, <1>5 DEF RecheckTailChanged, ring, consumer, OrderInv, ConsumerInv
  <2>5. LocalInv'
    BY <1>t, <1>w, <1>5 DEF RecheckTailChanged, ring, Goto, TypeOK, LocalInv
  <2>6. HolderInv'
    BY <1>t, <1>5 DEF RecheckTailChanged, ring, Goto, TypeOK, HolderInv, Holds
  <2>7. CountInv'
    <3>1. UNCHANGED <<npc, nprod, left, prod_tail, cons_tail>>
      BY <1>5, Zenon DEF RecheckTailChanged, ring, counter
    <3> QED BY <1>v, <3>1
  <2> QED BY <2>1, <2>2, <2>3, <2>4, <2>5, <2>6, <2>7 DEF IndInv
<1>6. ASSUME NEW p \in Producers, RecheckTailFull(p) PROVE IndInv'
  <2>1. TypeOK'
    BY <1>t, <1>w, <1>6 DEF RecheckTailFull, Goto, ring, consumer, counter, TypeOK, RetryInv
  <2>2. RetryInv'
    BY <1>t, <1>6 DEF RecheckTailFull, Goto, TypeOK, RetryInv
  <2>p. p \in Pending
    BY <1>6 DEF RecheckTailFull, Pending
  <2>q. Pending' = Pending \/ Pending' = Pending \ {p}
    BY <2>p, <1>t, <1>6, PendingStep, Zenon DEF RecheckTailFull
  <2>3. CallInv'
    <3>1. prod_head' = prod_head /\ calls' = calls
      BY <1>6 DEF RecheckTailFull, ring
    <3>2. Numbered(Pending, prod_head, calls) /\ Numbered(Pending \ {p}, prod_head, calls)
      BY <1>t, <1>f, NumberFewer, Zenon DEF CallInv
    <3> QED BY <2>q, <3>1, <3>2 DEF CallInv
  <2>4. OrderInv' /\ ConsumerInv'
    BY <1>t, <1>6, Zenon DEF RecheckTailFull, ring, consumer, OrderInv, ConsumerInv
  <2>5. LocalInv'
    BY <1>t, <1>w, <1>6 DEF RecheckTailFull, ring, Goto, TypeOK, LocalInv
  <2>6. HolderInv'
    BY <1>t, <1>6, Zenon DEF RecheckTailFull, ring, Goto, TypeOK, HolderInv, Holds
  <2>7. CountInv'
    <3>1. UNCHANGED <<npc, nprod, left, prod_tail, cons_tail>>
      BY <1>6, Zenon DEF RecheckTailFull, ring, counter
    <3> QED BY <1>v, <3>1
  <2> QED BY <2>1, <2>2, <2>3, <2>4, <2>5, <2>6, <2>7 DEF IndInv
<1>7. ASSUME NEW p \in Producers, Reserve(p) PROVE IndInv'
  <2>a. p \in Pending
    BY <1>7, Zenon DEF Reserve, Pending
  <2>b. prod_head + 1 <= MaxCalls
    BY <2>a, <1>t, PendingHasRoom, Zenon
  <2>c. prod_head = head[p] => prod_head' = prod_head + 1
    BY <1>b, <1>7, SuccIsPlusOne DEF Reserve
  <2>d. prod_head' \in 0 .. Word - 1 /\ prod_head <= prod_head'
    BY <1>b, <1>w, <1>7, <2>b, <2>c DEF Reserve
  <2>e. \E l \in {"store", "read_head"} : pc' = [pc EXCEPT ![p] = l]
    BY <1>7, Zenon DEF Reserve, Goto
  <2>f. UNCHANGED <<prod_tail, cons_head, cons_tail, slots, head, tail, retries, item, cpc,
                    chead, result, npc, nprod, left, freed, life, calls>>
    BY <1>7 DEF Reserve, consumer, counter
  <2>1. TypeOK'
    BY <1>t, <2>d, <2>e, <2>f DEF TypeOK
  <2>2. RetryInv'
    BY <1>t, <1>7 DEF Reserve, Goto, TypeOK, RetryInv
  <2>3. CallInv'
    <3>1. CASE prod_head = head[p]
      <4>1. p \notin Pending' /\ Goto(p, "store")
        BY <1>t, <1>7, <3>1 DEF Reserve, Goto, Pending, TypeOK
      <4>2. Pending' = Pending \ {p}
        BY <4>1, <2>a, <1>t, PendingStep, Zenon
      <4>3. prod_head' = prod_head + 1 /\ calls' = calls
        BY <3>1, <2>c, <2>f
      <4>4. Numbered(Pending \ {p}, prod_head + 1, calls)
        BY <2>a, <1>t, <1>f, NumberNext, Zenon DEF CallInv
      <4> QED BY <4>2, <4>3, <4>4 DEF CallInv
    <3>2. CASE prod_head # head[p]
      <4>1. p \in Pending' /\ Goto(p, "read_head")
        BY <1>t, <1>7, <3>2 DEF Reserve, Goto, Pending, TypeOK
      <4>2. Pending' = Pending
        BY <4>1, <2>a, <1>t, PendingStep, Zenon
      <4>3. prod_head' = prod_head
        BY <3>2, <1>7 DEF Reserve
      <4> QED BY <4>2, <4>3, <2>f, <1>t, Zenon DEF CallInv
    <3> QED BY <3>1, <3>2
  <2>4. OrderInv' /\ ConsumerInv'
    <3>1. CASE prod_head = head[p]
      <4>1. tail[p] <= cons_tail /\ head[p] - tail[p] < Size - 1 /\ tail[p] \in Nat
        BY <1>t, <1>w, <1>7 DEF Reserve, LocalInv, TypeOK
      <4> QED BY <4>1, <3>1, <2>c, <1>t, <1>b, <1>7 DEF Reserve, consumer, OrderInv, ConsumerInv
    <3>2. CASE prod_head # head[p]
      BY <3>2, <1>t, <1>7 DEF Reserve, consumer, OrderInv, ConsumerInv
    <3> QED BY <3>1, <3>2
  <2>5. LocalInv'
    BY <1>t, <1>b, <1>w, <1>7, <2>d DEF Reserve, Goto, TypeOK, LocalInv
  <2>6. HolderInv'
    <3>1. CASE prod_head = head[p]
      <4>1. /\ \A r \in Producers \ {p} : Holds(r)' <=> Holds(r)
            /\ ~ Holds(p) /\ pc'[p] = "store" /\ head' = head
            /\ prod_tail' = prod_tail /\ prod_head' = head[p] + 1
        BY <1>t, <1>7, <2>c, <3>1 DEF Reserve, Goto, Holds, TypeOK
      <4>2. \A r \in Producers \ {p} : pc'[r] = pc[r]
        BY <1>t, <1>7, Zenon DEF Reserve, Goto, TypeOK
      <4>3. prod_tail <= head[p] /\ head[p] \in Int /\ prod_tail \in Int /\ \A r \in Producers : head[r] \in Int
        BY <1>t, <1>b, <3>1 DEF OrderInv, TypeOK
      <4>4. \A r \in Producers \ {p} : Holds(r)' => head[r] < head[p] /\ prod_tail <= head[r]
        BY <4>1, <1>t, <3>1 DEF HolderInv
      <4> SUFFICES ASSUME NEW q \in Producers, Holds(q)'
                   PROVE  /\ prod_tail' <= head'[q] /\ head'[q] < prod_head'
                          /\ pc'[q] = "publish" => head'[q] = prod_tail'
                          /\ \A r \in Producers : (Holds(r)' /\ r # q) => head'[r] # head'[q]
        BY Zenon DEF HolderInv
      <4>5. CASE q = p
        BY <4>1, <4>3, <4>4, <4>5
      <4>6. CASE q # p
        BY <4>1, <4>2, <4>3, <4>4, <4>6, <1>t DEF HolderInv
      <4> QED BY <4>5, <4>6
    <3>2. CASE prod_head # head[p]
      BY <3>2, <1>t, <1>7 DEF Reserve, Goto, TypeOK, HolderInv, Holds
    <3> QED BY <3>1, <3>2
  <2>7. CountInv'
    <3>1. UNCHANGED <<npc, nprod, left, prod_tail, cons_tail>>
      BY <1>7, Zenon DEF Reserve, ring, counter
    <3> QED BY <1>v, <3>1
  <2> QED BY <2>1, <2>2, <2>3, <2>4, <2>5, <2>6, <2>7 DEF IndInv
<1>8. ASSUME NEW p \in Producers, StoreItem(p) PROVE IndInv'
  <2>a. Index(head[p]) \in 0 .. Size - 1
    BY <1>t, <1>w, ModRange DEF TypeOK, Index
  <2>1. TypeOK'
    BY <1>t, <1>w, <1>8, <2>a DEF StoreItem, Goto, consumer, counter, TypeOK
  <2>2. RetryInv'
    BY <1>t, <1>8 DEF StoreItem, Goto, TypeOK, RetryInv
  <2>p. p \notin Pending /\ p \notin Pending'
    BY <1>t, <1>8, Zenon DEF StoreItem, Goto, Pending, TypeOK
  <2>q. Pending' = Pending
    BY <2>p, <1>t, <1>8, PendingStep, Zenon DEF StoreItem
  <2>3. CallInv'
    BY <2>q, <1>t, <1>8, Zenon DEF StoreItem, CallInv
  <2>4. OrderInv' /\ ConsumerInv'
    BY <1>t, <1>8, Zenon DEF StoreItem, consumer, OrderInv, ConsumerInv
  <2>5. LocalInv'
    BY <1>t, <1>w, <1>8 DEF StoreItem, Goto, TypeOK, LocalInv
  <2>6. HolderInv'
    BY <1>t, <1>8 DEF StoreItem, Goto, TypeOK, HolderInv, Holds
  <2>7. CountInv'
    <3>1. UNCHANGED <<npc, nprod, left, prod_tail, cons_tail>>
      BY <1>8, Zenon DEF StoreItem, ring, counter
    <3> QED BY <1>v, <3>1
  <2> QED BY <2>1, <2>2, <2>3, <2>4, <2>5, <2>6, <2>7 DEF IndInv
<1>9. ASSUME NEW p \in Producers, AwaitTurn(p) PROVE IndInv'
  <2>1. TypeOK'
    BY <1>t, <1>w, <1>9 DEF AwaitTurn, Goto, ring, consumer, counter, TypeOK
  <2>2. RetryInv'
    BY <1>t, <1>9 DEF AwaitTurn, Goto, TypeOK, RetryInv
  <2>p. p \notin Pending /\ p \notin Pending'
    BY <1>t, <1>9 DEF AwaitTurn, Goto, Pending, TypeOK
  <2>q. Pending' = Pending
    BY <2>p, <1>t, <1>9, PendingStep, Zenon DEF AwaitTurn
  <2>3. CallInv'
    BY <2>q, <1>t, <1>9 DEF AwaitTurn, ring, CallInv
  <2>4. OrderInv' /\ ConsumerInv'
    BY <1>t, <1>9, Zenon DEF AwaitTurn, ring, consumer, OrderInv, ConsumerInv
  <2>5. LocalInv'
    BY <1>t, <1>w, <1>9, Zenon DEF AwaitTurn, ring, Goto, TypeOK, LocalInv
  <2>6. HolderInv'
    BY <1>t, <1>9, Zenon DEF AwaitTurn, ring, Goto, TypeOK, HolderInv, Holds
  <2>7. CountInv'
    <3>1. UNCHANGED <<npc, nprod, left, prod_tail, cons_tail>>
      BY <1>9, Zenon DEF AwaitTurn, ring, counter
    <3> QED BY <1>v, <3>1
  <2> QED BY <2>1, <2>2, <2>3, <2>4, <2>5, <2>6, <2>7 DEF IndInv
<1>10. ASSUME NEW p \in Producers, Publish(p) PROVE IndInv'
  <2>a. head[p] \in 0 .. MaxCalls
    BY <1>t, <1>b, <1>10, Zenon DEF Publish, TypeOK, HolderInv, Holds
  <2>b. prod_tail' = head[p] + 1 /\ head[p] = prod_tail /\ head[p] < prod_head
    BY <2>a, <1>t, <1>10, SuccIsPlusOne, Zenon DEF Publish, HolderInv, Holds
  <2>1. TypeOK'
    BY <1>t, <1>w, <1>10, <2>a, <2>b DEF Publish, Goto, consumer, counter, TypeOK
  <2>2. RetryInv'
    BY <1>t, <1>10 DEF Publish, Goto, TypeOK, RetryInv
  <2>p. p \notin Pending /\ p \notin Pending'
    BY <1>t, <1>10, Zenon DEF Publish, Goto, Pending, TypeOK
  <2>q. Pending' = Pending
    BY <2>p, <1>t, <1>10, PendingStep, Zenon DEF Publish
  <2>3. CallInv'
    BY <2>q, <1>t, <1>10, Zenon DEF Publish, CallInv
  <2>4. OrderInv' /\ ConsumerInv'
    BY <1>t, <1>b, <1>10, <2>a, <2>b DEF Publish, consumer, OrderInv, ConsumerInv
  <2>5. LocalInv'
    BY <1>t, <1>w, <1>10, Zenon DEF Publish, Goto, TypeOK, LocalInv
  <2>6. HolderInv'
    <3>1. /\ \A r \in Producers \ {p} : pc'[r] = pc[r]
          /\ pc'[p] = "idle" /\ head' = head /\ prod_head' = prod_head
      BY <1>t, <1>10, Zenon DEF Publish, Goto, TypeOK
    <3>2. \A r \in Producers \ {p} : Holds(r) => head[r] # prod_tail /\ prod_tail <= head[r] /\ head[r] \in Int
      BY <1>t, <1>10, <2>b DEF Publish, HolderInv, TypeOK, Holds
    <3>3. \A r \in Producers : Holds(r)' => r # p /\ Holds(r)
      BY <3>1 DEF Holds
    <3>4. \A r \in Producers : Holds(r) =>
            /\ head[r] < prod_head /\ (pc[r] = "publish" => head[r] = prod_tail)
            /\ \A u \in Producers : (Holds(u) /\ u # r) => head[u] # head[r]
      BY <1>t, Zenon DEF HolderInv
    <3>5. \A r \in Producers \ {p} : Holds(r) => prod_tail' <= head[r]
      BY <3>2, <2>a, <2>b
    <3>6. \A r \in Producers : Holds(r)' => prod_tail' <= head[r] /\ pc'[r] # "publish"
      BY <3>1, <3>2, <3>3, <3>4, <3>5, Zenon
    <3> QED BY <3>1, <3>3, <3>4, <3>6, Zenon DEF HolderInv
  <2>7. CountInv'
    <3>1. UNCHANGED <<npc, nprod, left, cons_tail>> /\ prod_tail <= prod_tail'
      BY <2>b, <1>b, <1>10 DEF Publish, counter
    <3>2. {prod_tail, prod_tail', nprod} \subseteq Int
      BY <1>t, <1>b, <2>b, <1>w DEF TypeOK
    <3> QED BY <1>u, <3>1, <3>2 DEF CountInv
  <2> QED BY <2>1, <2>2, <2>3, <2>4, <2>5, <2>6, <2>7 DEF IndInv
<1>11. ASSUME DequeueCall PROVE IndInv'
  <2>1. TypeOK'
    BY <1>t, <1>w, <1>11 DEF DequeueCall, Empty, ring, producer, counter, TypeOK
  <2>2. RetryInv'
    BY <1>t, <1>11 DEF DequeueCall, Empty, producer, TypeOK, RetryInv
  <2>3. CallInv'
    BY <1>t, <1>11 DEF DequeueCall, ring, producer, CallInv, Pending
  <2>4. OrderInv' /\ ConsumerInv'
    BY <1>t, <1>b, <1>11 DEF DequeueCall, Empty, ring, OrderInv, ConsumerInv
  <2>5. LocalInv'
    BY <1>t, <1>w, <1>11 DEF DequeueCall, ring, producer, TypeOK, LocalInv
  <2>6. HolderInv'
    BY <1>t, <1>11, Zenon DEF DequeueCall, ring, producer, HolderInv, Holds
  <2>7. CountInv'
    <3>1. UNCHANGED <<npc, nprod, left, prod_tail, cons_tail>>
      BY <1>11, Zenon DEF DequeueCall, ring, counter
    <3> QED BY <1>v, <3>1
  <2> QED BY <2>1, <2>2, <2>3, <2>4, <2>5, <2>6, <2>7 DEF IndInv
<1>12. ASSUME AdvanceHead PROVE IndInv'
  <2>a. chead \in 0 .. MaxCalls
    BY <1>t, <1>b, <1>12 DEF AdvanceHead, ConsumerInv
  <2>b. cons_head' = chead + 1
    BY <2>a, <1>12, SuccIsPlusOne, Zenon DEF AdvanceHead
  <2>1. TypeOK'
    BY <1>t, <1>w, <1>12, <2>a, <2>b DEF AdvanceHead, producer, counter, TypeOK
  <2>2. RetryInv'
    BY <1>t, <1>12 DEF AdvanceHead, producer, TypeOK, RetryInv
  <2>3. CallInv'
    BY <1>t, <1>12 DEF AdvanceHead, producer, CallInv, Pending
  <2>4. OrderInv' /\ ConsumerInv'
    BY <1>t, <1>b, <1>12, <2>a, <2>b DEF AdvanceHead, OrderInv, ConsumerInv
  <2>5. LocalInv'
    BY <1>t, <1>w, <1>12 DEF AdvanceHead, producer, TypeOK, LocalInv
  <2>6. HolderInv'
    BY <1>t, <1>12, Zenon DEF AdvanceHead, producer, HolderInv, Holds
  <2>7. CountInv'
    <3>1. UNCHANGED <<npc, nprod, left, prod_tail, cons_tail>>
      BY <1>12, Zenon DEF AdvanceHead, ring, counter
    <3> QED BY <1>v, <3>1
  <2> QED BY <2>1, <2>2, <2>3, <2>4, <2>5, <2>6, <2>7 DEF IndInv
<1>13. ASSUME LoadItem PROVE IndInv'
  <2>a. Index(chead) \in 0 .. Size - 1
    BY <1>t, <1>w, ModRange DEF TypeOK, Index
  <2>1. TypeOK'
    BY <1>t, <1>w, <1>13, <2>a DEF LoadItem, ring, producer, counter, TypeOK
  <2>2. RetryInv'
    BY <1>t, <1>13 DEF LoadItem, producer, TypeOK, RetryInv
  <2>3. CallInv'
    BY <1>t, <1>13 DEF LoadItem, ring, producer, CallInv, Pending
  <2>4. OrderInv' /\ ConsumerInv'
    BY <1>t, <1>b, <1>13, <2>a, Zenon DEF LoadItem, ring, OrderInv, ConsumerInv
  <2>5. LocalInv'
    BY <1>t, <1>w, <1>13 DEF LoadItem, ring, producer, TypeOK, LocalInv
  <2>6. HolderInv'
    BY <1>t, <1>13, Zenon DEF LoadItem, ring, producer, HolderInv, Holds
  <2>7. CountInv'
    <3>1. UNCHANGED <<npc, nprod, left, prod_tail, cons_tail>>
      BY <1>13, Zenon DEF LoadItem, ring, counter
    <3> QED BY <1>v, <3>1
  <2> QED BY <2>1, <2>2, <2>3, <2>4, <2>5, <2>6, <2>7 DEF IndInv
<1>14. ASSUME ReleaseSlot PROVE IndInv'
  <2>a. chead \in 0 .. MaxCalls
    BY <1>t, <1>b, <1>14 DEF ReleaseSlot, ConsumerInv
  <2>b. cons_tail' = chead + 1
    BY <2>a, <1>14, SuccIsPlusOne, Zenon DEF ReleaseSlot
  <2>1. TypeOK'
    BY <1>t, <1>w, <1>14, <2>a, <2>b DEF ReleaseSlot, producer, counter, TypeOK
  <2>2. RetryInv'
    BY <1>t, <1>14 DEF ReleaseSlot, producer, TypeOK, RetryInv
  <2>3. CallInv'
    BY <1>t, <1>14 DEF ReleaseSlot, producer, CallInv, Pending
  <2>4. OrderInv' /\ ConsumerInv'
    BY <1>t, <1>b, <1>14, <2>a, <2>b DEF ReleaseSlot, OrderInv, ConsumerInv
  <2>5. LocalInv'
    BY <1>t, <1>w, <1>14, <1>b, <2>a, <2>b DEF ReleaseSlot, producer, TypeOK, LocalInv, ConsumerInv
  <2>6. HolderInv'
    BY <1>t, <1>14, Zenon DEF ReleaseSlot, producer, HolderInv, Holds
  <2>7. CountInv'
    <3>1. /\ cons_tail' = cons_tail + 1 /\ UNCHANGED <<npc, nprod, prod_tail>>
          /\ left' = IF npc = "load_cons" /\ left >= 0 THEN left - 1 ELSE left
      BY <2>b, <1>t, <1>14 DEF ReleaseSlot, ConsumerInv
    <3>2. nprod \in Int /\ cons_tail \in Int /\ left \in Int
      BY <1>t, <1>b DEF TypeOK
    <3> QED BY <1>u, <3>1, <3>2 DEF CountInv
  <2> QED BY <2>1, <2>2, <2>3, <2>4, <2>5, <2>6, <2>7 DEF IndInv
<1>15. ASSUME Destroy PROVE IndInv'
  <2>1. TypeOK'
    BY <1>t, <1>w, <1>15 DEF Destroy, ring, consumer, producer, counter, TypeOK
  <2>2. RetryInv'
    BY <1>t, <1>15 DEF Destroy, producer, TypeOK, RetryInv
  <2>3. CallInv'
    BY <1>t, <1>15 DEF Destroy, ring, producer, CallInv, Pending
  <2>4. OrderInv' /\ ConsumerInv'
    BY <1>t, <1>b, <1>15, Zenon DEF Destroy, ring, consumer, OrderInv, ConsumerInv
  <2>5. LocalInv'
    BY <1>t, <1>w, <1>15 DEF Destroy, ring, producer, TypeOK, LocalInv
  <2>6. HolderInv'
    BY <1>t, <1>15, Zenon DEF Destroy, ring, producer, HolderInv, Holds
  <2>7. CountInv'
    <3>1. UNCHANGED <<npc, nprod, left, prod_tail, cons_tail>>
      BY <1>15, Zenon DEF Destroy, ring, counter
    <3> QED BY <1>v, <3>1
  <2> QED BY <2>1, <2>2, <2>3, <2>4, <2>5, <2>6, <2>7 DEF IndInv
<1>16. ASSUME CountCall \/ CountReturn PROVE IndInv'
  <2>a. UNCHANGED <<prod_head, prod_tail, cons_head, cons_tail, slots, pc, head, tail, retries,
                    item, cpc, chead, result, freed, life, calls>>
    BY <1>16 DEF CountCall, CountReturn, ring, producer, consumer
  <2>b. (prod_tail - cons_tail) % Word = prod_tail - cons_tail
    BY <1>t, <1>b, DistanceIsDifference DEF OrderInv, Distance
  <2>c. prod_tail - cons_tail \in 0 .. Size - 1 /\ prod_tail \in 0 .. Word - 1
    BY <1>t, <1>b, <1>w DEF OrderInv
  <2>d. \/ npc' = "idle" /\ nprod' = 0 /\ left' = 0
        \/ npc' = "load_cons" /\ nprod' = prod_tail /\ left' = prod_tail - cons_tail
    BY <1>16, <2>b DEF CountCall, CountReturn
  <2>e. npc' \in {"idle", "load_cons"} /\ nprod' \in 0 .. Word - 1 /\ left' \in -1 .. Size - 1
    BY <2>c, <2>d, <1>w
  <2>1. TypeOK'
    BY <1>t, <2>a, <2>e, Zenon DEF TypeOK
  <2>2. RetryInv' /\ CallInv' /\ OrderInv' /\ ConsumerInv' /\ LocalInv' /\ HolderInv'
    BY <1>t, <2>a, Zenon DEF RetryInv, CallInv, Pending, OrderInv, ConsumerInv, LocalInv, HolderInv, Holds
  <2>3. CountInv'
    <3>1. cons_tail <= prod_tail /\ prod_tail \in Int /\ prod_tail' = prod_tail /\ cons_tail' = cons_tail
      BY <1>t, <1>b, <2>a DEF OrderInv
    <3> QED BY <2>d, <3>1 DEF CountInv
  <2> QED BY <2>1, <2>2, <2>3 DEF IndInv
<1>17. ASSUME UNCHANGED vars PROVE IndInv'
  BY <1>t, <1>u, <1>17, Zenon DEF vars, ring, consumer, producer, counter, IndInv, TypeOK, RetryInv, CallInv, Pending,
     OrderInv, ConsumerInv, LocalInv, HolderInv, Holds, CountInv
<1> QED BY <1>1, <1>2, <1>3, <1>4, <1>5, <1>6, <1>7, <1>8, <1>9, <1>10, <1>11, <1>12, <1>13, <1>14, <1>15, <1>16, <1>17 DEF Next, EnqueueStep, DequeueStep

\* The slots of two reserved positions, or of a reserved and of a published one, differ.
LEMMA ReservedSlotsDiffer ==
  ASSUME IndInv, NEW p \in Producers, Holds(p)
  PROVE  /\ \A r \in Producers \ {p} : Holds(r) => Index(head[r]) # Index(head[p])
         /\ \A k \in cons_tail .. prod_tail - 1 : Index(k) # Index(head[p])
<1> USE SizeAssumption, MaxCallsAssumption
<1>1. /\ cons_tail \in 0 .. MaxCalls /\ prod_tail \in 0 .. MaxCalls /\ prod_head \in 0 .. MaxCalls
      /\ cons_tail <= prod_tail /\ prod_tail <= prod_head /\ prod_head - cons_tail < Size
  BY PositionBounds DEF IndInv, OrderInv
<1>2. /\ \A r \in Producers : head[r] \in Nat
      /\ \A r \in Producers : Holds(r) => prod_tail <= head[r] /\ head[r] < prod_head
      /\ \A r \in Producers \ {p} : Holds(r) => head[r] # head[p]
  BY WordAssumption DEF IndInv, HolderInv, TypeOK
<1>3. ASSUME NEW a \in Int, NEW b \in Int, a # b, cons_tail <= a, a < prod_head,
             cons_tail <= b, b < prod_head
      PROVE  Index(a) # Index(b)
  <2>1. (a < b /\ b - a < Size) \/ (b < a /\ a - b < Size)
    BY <1>1, <1>3
  <2>2. CASE a < b /\ b - a < Size
    <3>1. Size \in Nat /\ a \in Int /\ b \in Int
      BY <1>3
    <3>2. b % Size # a % Size
      BY <2>2, <3>1, ModDiffers, Zenon
    <3> QED BY <3>2 DEF Index
  <2>3. CASE b < a /\ a - b < Size
    <3>1. Size \in Nat /\ a \in Int /\ b \in Int
      BY <1>3
    <3>2. a % Size # b % Size
      BY <2>3, <3>1, ModDiffers, Zenon
    <3> QED BY <3>2 DEF Index
  <2> QED BY <2>1, <2>2, <2>3
<1>4. ASSUME NEW r \in Producers \ {p}, Holds(r) PROVE Index(head[r]) # Index(head[p])
  <2>1. /\ head[r] \in Int /\ head[p] \in Int /\ head[r] # head[p]
        /\ cons_tail <= head[r] /\ head[r] < prod_head
        /\ cons_tail <= head[p] /\ head[p] < prod_head
    BY <1>1, <1>2, <1>4
  <2> QED BY <1>3, <2>1
<1>5. ASSUME NEW k \in cons_tail .. prod_tail - 1 PROVE Index(k) # Index(head[p])
  <2>1. /\ k \in Int /\ head[p] \in Int /\ k # head[p]
        /\ cons_tail <= k /\ k < prod_head
        /\ cons_tail <= head[p] /\ head[p] < prod_head
    BY <1>1, <1>2, <1>5
  <2> QED BY <1>3, <2>1
<1> QED BY <1>4, <1>5

-----------------------------------------------------------------------------
(* Theorems.                                                               *)

\* The strengthened invariant holds in every reachable state.
THEOREM InductiveInvariant == Spec => []IndInv
BY InitInv, NextInv, PTL DEF Spec

\* Positions, local copies and slots always have their types: in particular the
\* retry counter of sim_tailq_enqueue never passes MAX_ENQUEUE_RETRIES.
THEOREM TypeCorrect == Spec => []TypeOK
<1>1. IndInv => TypeOK
  BY Zenon DEF IndInv
<1> QED BY <1>1, InductiveInvariant, PTL

\* A producer storing its item never touches a slot that another producer
\* reserved or that holds an item the consumer still has to load (NoSlotConflict).
THEOREM SlotsAreRaceFree == Spec => []NoSlotConflict
<1>1. IndInv => NoSlotConflict
  <2> SUFFICES ASSUME IndInv, NEW p \in Producers, pc[p] = "store"
               PROVE  /\ \A r \in Producers \ {p} : Holds(r) => Index(head[r]) # Index(head[p])
                      /\ \A k \in 0 .. Distance(cons_tail, prod_tail) - 1 :
                           Index(cons_tail + k) # Index(head[p])
    BY DEF NoSlotConflict
  <2> USE SizeAssumption, MaxCallsAssumption
  <2>1. Holds(p)
    BY DEF Holds
  <2>2. /\ cons_tail \in 0 .. MaxCalls /\ prod_tail \in 0 .. MaxCalls /\ cons_tail <= prod_tail
    BY PositionBounds DEF IndInv, OrderInv
  <2>3. \A k \in 0 .. Distance(cons_tail, prod_tail) - 1 : cons_tail + k \in cons_tail .. prod_tail - 1
    BY <2>2, DistanceIsDifference
  <2> QED BY <2>1, <2>3, ReservedSlotsDiffer
<1> QED BY <1>1, InductiveInvariant, PTL

\* An enqueue counts a retry, or gives up, only while the ring is full (FullIsReal).
THEOREM NoSpuriousFull == Spec => []FullIsReal
<1>1. IndInv => FullIsReal
  <2> SUFFICES ASSUME IndInv, NEW p \in Producers, pc[p] = "recheck_tail", cons_tail = tail[p]
               PROVE  Distance(cons_tail, prod_head) >= Size - 1
    BY DEF FullIsReal
  <2> USE SizeAssumption, MaxCallsAssumption
  <2>1. cons_tail \in 0 .. MaxCalls /\ prod_head \in 0 .. MaxCalls /\ cons_tail <= prod_head
    BY PositionBounds DEF IndInv, OrderInv
  <2>2. head[p] \in Int /\ head[p] <= prod_head /\ head[p] - cons_tail >= Size - 1
    BY WordAssumption DEF IndInv, LocalInv, TypeOK
  <2> QED BY <2>1, <2>2, DistanceIsDifference
<1> QED BY <1>1, InductiveInvariant, PTL

\* sim_tailq_count returns the number of items that were in the queue at its first
\* load and are in it still at its second (CountOfWaiting).
THEOREM CountCorrect == Spec => []CountOfWaiting
<1>1. IndInv => CountOfWaiting
  <2> SUFFICES ASSUME IndInv, npc = "load_cons", left >= 0
               PROVE  Count(nprod, cons_tail) = left
    BY DEF CountOfWaiting
  <2> USE SizeAssumption, MaxCallsAssumption
  <2>1. cons_tail \in Int /\ nprod \in Int /\ left \in 0 .. Size - 1
    BY PositionBounds DEF IndInv, TypeOK
  <2>2. left = nprod - cons_tail
    BY <2>1 DEF IndInv, CountInv
  <2>3. (Size + left) % Size = left
    BY <2>1
  <2>4. Size + nprod - cons_tail = Size + left
    BY <2>1, <2>2
  <2> QED BY <2>3, <2>4, Zenon DEF Count
<1> QED BY <1>1, InductiveInvariant, PTL

-----------------------------------------------------------------------------
(* The ring implements the queue of FifoQueue.                             *)

\* A call has an item, and the slot that it reserved holds it once it is stored.
StoredInv ==
  \A p \in Producers :
    /\ pc[p] # "idle" => item[p] \in Item
    /\ pc[p] \in {"await", "publish"} => slots[Index(head[p])] = item[p]

\* Every step keeps the stored items where they are.
LEMMA StoredStep == IndInv /\ StoredInv /\ [Next]_vars => StoredInv'
<1> SUFFICES ASSUME IndInv, StoredInv, [Next]_vars PROVE StoredInv'
  OBVIOUS
<1>t. TypeOK
  BY Zenon DEF IndInv
<1>1. ASSUME NEW p \in Producers, NEW v \in Item, EnqueueCall(p, v) PROVE StoredInv'
  BY <1>t, <1>1 DEF EnqueueCall, Goto, ring, StoredInv, TypeOK
<1>2. ASSUME NEW p \in Producers, ReadHead(p) PROVE StoredInv'
  BY <1>t, <1>2 DEF ReadHead, Goto, ring, StoredInv, TypeOK
<1>3. ASSUME NEW p \in Producers,
             ReadTail(p) \/ RecheckHead(p) \/ RecheckTailChanged(p) \/ RecheckTailFull(p) \/ Reserve(p)
      PROVE  StoredInv'
  <2>1. /\ pc[p] # "idle" /\ UNCHANGED <<slots, head, item>>
        /\ \E l \in {"read_head", "recheck_head", "recheck_tail", "cas", "store", "idle"} :
              pc' = [pc EXCEPT ![p] = l]
    BY <1>3, Zenon DEF ReadTail, RecheckHead, RecheckTailChanged, RecheckTailFull, Reserve, Goto, ring
  <2> QED BY <1>t, <2>1, Zenon DEF StoredInv, TypeOK
<1>4. ASSUME NEW p \in Producers, StoreItem(p) PROVE StoredInv'
  <2>1. /\ pc[p] = "store" /\ pc' = [pc EXCEPT ![p] = "await"] /\ UNCHANGED <<head, item>>
        /\ slots' = [slots EXCEPT ![Index(head[p])] = item[p]]
    BY <1>4, Zenon DEF StoreItem, Goto
  <2>2. \A r \in Producers \ {p} : Holds(r) => Index(head[r]) # Index(head[p])
    BY <2>1, ReservedSlotsDiffer DEF Holds
  <2>3. Index(head[p]) \in 0 .. Size - 1
    BY <1>t, SizeAssumption, WordAssumption, ModRange DEF TypeOK, Index
  <2>4. slots'[Index(head[p])] = item[p]
    BY <1>t, <2>1, <2>3 DEF TypeOK
  <2>5. ASSUME NEW r \in Producers \ {p}, pc[r] \in {"await", "publish"}
        PROVE  slots'[Index(head[r])] = item[r]
    <3>1. Index(head[r]) \in 0 .. Size - 1 /\ Index(head[r]) # Index(head[p])
      BY <1>t, <2>2, <2>5, SizeAssumption, WordAssumption, ModRange DEF TypeOK, Index, Holds
    <3>2. slots[Index(head[r])] = item[r]
      BY <2>5 DEF StoredInv
    <3> QED BY <1>t, <2>1, <3>1, <3>2 DEF TypeOK
  <2>6. pc'[p] = "await" /\ \A r \in Producers \ {p} : pc'[r] = pc[r]
    BY <1>t, <2>1 DEF TypeOK
  <2> QED BY <2>1, <2>4, <2>5, <2>6, Zenon DEF StoredInv
<1>5. ASSUME NEW p \in Producers, AwaitTurn(p) \/ Publish(p) PROVE StoredInv'
  <2>1. /\ UNCHANGED <<slots, head, item>>
        /\ \/ pc[p] = "await" /\ pc' = [pc EXCEPT ![p] = "publish"]
           \/ pc' = [pc EXCEPT ![p] = "idle"]
    BY <1>5, Zenon DEF AwaitTurn, Publish, Goto, ring
  <2> QED BY <1>t, <2>1, Zenon DEF StoredInv, TypeOK
<1>6. ASSUME DequeueCall \/ DequeueStep \/ CountCall \/ CountReturn \/ Destroy \/ UNCHANGED vars PROVE StoredInv'
  <2>1. UNCHANGED <<slots, head, item, pc>>
    BY <1>6, Zenon DEF DequeueCall, DequeueStep, AdvanceHead, LoadItem, ReleaseSlot, CountCall, CountReturn, Destroy,
                vars, ring, producer
  <2> QED BY <2>1, Zenon DEF StoredInv
<1> QED BY <1>1, <1>2, <1>3, <1>4, <1>5, <1>6 DEF Next, EnqueueStep

\* A function on 1 .. n is a sequence of length n.
LEMMA FunctionIsSeq ==
  ASSUME NEW n \in Nat, NEW S, NEW f \in [1 .. n -> S]
  PROVE  f \in Seq(S) /\ Len(f) = n
OBVIOUS

\* The items of the queue are those of the published positions, oldest first.
LEMMA ContentsIsSeq ==
  ASSUME IndInv
  PROVE  /\ Contents = [i \in 1 .. prod_tail - cons_head |-> slots[Index(cons_head + i - 1)]]
         /\ Contents \in Seq(Item \cup {NoItem})
         /\ Len(Contents) = prod_tail - cons_head
<1>1. /\ cons_head \in 0 .. MaxCalls /\ prod_tail \in 0 .. MaxCalls /\ cons_head <= prod_tail
      /\ TypeOK
  BY PositionBounds DEF IndInv, OrderInv
<1>2. Distance(cons_head, prod_tail) = prod_tail - cons_head
  BY <1>1, DistanceIsDifference
<1>3. Contents = [i \in 1 .. prod_tail - cons_head |-> slots[Index(cons_head + i - 1)]]
  BY <1>2 DEF Contents
<1>4. ASSUME NEW i \in 1 .. prod_tail - cons_head
      PROVE  slots[Index(cons_head + i - 1)] \in Item \cup {NoItem}
  <2>1. cons_head + i - 1 \in Int
    BY <1>1, MaxCallsAssumption
  <2>2. Index(cons_head + i - 1) \in 0 .. Size - 1
    BY <2>1, SizeAssumption, ModRange DEF Index
  <2> QED BY <1>1, <2>2 DEF TypeOK
<1>5. prod_tail - cons_head \in Nat
  BY <1>1, MaxCallsAssumption
<1>6. Contents \in [1 .. prod_tail - cons_head -> Item \cup {NoItem}]
  BY <1>3, <1>4
<1>7. Contents \in Seq(Item \cup {NoItem}) /\ Len(Contents) = prod_tail - cons_head
  BY <1>5, <1>6, FunctionIsSeq
<1> QED BY <1>3, <1>7, Zenon

\* The slot of a published position is not the one that a producer stores into.
LEMMA StoreIsInvisible ==
  ASSUME IndInv, NEW p \in Producers, StoreItem(p)
  PROVE  Contents' = Contents /\ Taken' = Taken
<1>1. /\ pc[p] = "store" /\ slots' = [slots EXCEPT ![Index(head[p])] = item[p]]
      /\ UNCHANGED <<prod_tail, cons_head, cpc, chead, result>>
  BY Zenon DEF StoreItem, consumer
<1>2. \A k \in cons_tail .. prod_tail - 1 : Index(k) # Index(head[p])
  BY <1>1, ReservedSlotsDiffer DEF Holds
<1>3. /\ {cons_tail, cons_head, prod_tail} \subseteq 0 .. MaxCalls
      /\ cons_tail <= cons_head /\ cons_head <= prod_tail /\ TypeOK /\ ConsumerInv
  BY PositionBounds DEF IndInv, OrderInv
<1>4. \A k \in cons_tail .. prod_tail - 1 : slots'[Index(k)] = slots[Index(k)]
  BY <1>1, <1>2, <1>3 DEF TypeOK
<1>5. Distance(cons_head, prod_tail) = prod_tail - cons_head
  BY <1>3, DistanceIsDifference, Zenon
<1>6. Distance(cons_head, prod_tail)' = Distance(cons_head, prod_tail)
  BY <1>1, Zenon DEF Distance
<1>i. /\ cons_tail \in Int /\ cons_head \in Int /\ prod_tail \in Int
      /\ cons_tail <= cons_head /\ cons_head <= prod_tail
  <2>1. \A n \in 0 .. MaxCalls : n \in Int
    BY MaxCallsAssumption
  <2> QED BY <1>3, <2>1, Zenon
<1>7. \A i \in 1 .. prod_tail - cons_head : cons_head + i - 1 \in cons_tail .. prod_tail - 1
  BY <1>i
<1>8. \A i \in 1 .. prod_tail - cons_head :
        slots'[Index(cons_head + i - 1)] = slots[Index(cons_head + i - 1)]
  BY <1>4, <1>7
<1>9. Contents' = Contents
  BY <1>1, <1>5, <1>6, <1>8 DEF Contents, Index
<1>10. cpc = "load" => chead \in cons_tail .. prod_tail - 1
  <2>1. cons_head = cons_tail + 1 => cons_tail \in cons_tail .. prod_tail - 1
    BY <1>i
  <2> QED BY <1>3, <2>1, Zenon DEF ConsumerInv
<1>11. Taken' = Taken
  BY <1>1, <1>4, <1>10 DEF Taken, Index
<1> QED BY <1>9, <1>11

\* The store of prod_tail appends the item of its call to a queue that has room.
LEMMA PublishPuts ==
  ASSUME IndInv, StoredInv, NEW p \in Producers, Publish(p)
  PROVE  Fifo!Put(item[p])
<1>t. TypeOK /\ OrderInv /\ HolderInv
  BY Zenon DEF IndInv
<1>1. /\ pc[p] = "publish" /\ prod_tail' = Succ(head[p])
      /\ UNCHANGED <<cons_head, cpc, chead, result, slots>>
  BY Zenon DEF Publish, consumer
<1>2. /\ {prod_head, prod_tail, cons_head, cons_tail} \subseteq 0 .. MaxCalls
      /\ head[p] = prod_tail /\ prod_tail < prod_head
      /\ cons_tail <= cons_head /\ cons_head <= prod_tail /\ prod_head - cons_tail <= Size - 1
  BY <1>t, <1>1, PositionBounds, Zenon DEF OrderInv, HolderInv, Holds
<1>3. prod_tail' = prod_tail + 1
  BY <1>1, <1>2, SuccIsPlusOne, Zenon
<1>4. slots[Index(prod_tail)] = item[p]
  BY <1>1, <1>2, Zenon DEF StoredInv
<1> DEFINE n == prod_tail - cons_head
           S == Item \cup {NoItem}
<1>5. n \in Nat /\ n < Size - 1 /\ prod_tail + 1 - cons_head = n + 1 /\ cons_head + (n + 1) - 1 = prod_tail
  BY <1>2, SizeAssumption, MaxCallsAssumption
<1>6. /\ Contents = [i \in 1 .. n |-> slots[Index(cons_head + i - 1)]]
      /\ Contents \in Seq(S) /\ Len(Contents) = n
  BY ContentsIsSeq
<1>7. Contents' = [i \in 1 .. (n + 1) |-> slots[Index(cons_head + i - 1)]]
  <2>1. prod_tail' \in 0 .. MaxCalls /\ cons_head' \in 0 .. MaxCalls /\ cons_head' <= prod_tail'
    BY <1>1, <1>2, <1>3, MaxCallsAssumption
  <2>2. Distance(cons_head', prod_tail') = prod_tail' - cons_head'
    BY <2>1, DistanceIsDifference
  <2>3. Distance(cons_head', prod_tail') = n + 1
    BY <1>1, <1>2, <1>3, <2>2
  <2> HIDE DEF n
  <2> QED BY <1>1, <2>3, Zenon DEF Contents, Distance, Index
<1> HIDE DEF n, S
<1>8. Append(Contents, item[p])
        = [i \in 1 .. (n + 1) |-> IF i = n + 1 THEN item[p] ELSE Contents[i]]
  BY <1>5, <1>6
<1>9. \A i \in 1 .. (n + 1) : slots[Index(cons_head + i - 1)]
                             = IF i = n + 1 THEN item[p] ELSE Contents[i]
  <2> TAKE i \in 1 .. (n + 1)
  <2>1. CASE i = n + 1
    BY <1>4, <1>5, <2>1
  <2>2. CASE i \in 1 .. n
    BY <1>5, <1>6, <2>2
  <2> QED BY <1>5, <2>1, <2>2
<1>10. Contents' = Append(Contents, item[p])
  BY <1>7, <1>8, <1>9
<1>11. Taken' = Taken
  BY <1>1 DEF Taken, Index
<1> QED BY <1>5, <1>6, <1>10, <1>11 DEF Fifo!Put

\* The store of cons_head takes the oldest item.
LEMMA AdvanceTakes ==
  ASSUME IndInv, AdvanceHead
  PROVE  Fifo!Take
<1>t. TypeOK /\ OrderInv /\ ConsumerInv
  BY DEF IndInv
<1>1. /\ cpc = "advance" /\ cpc' = "load" /\ cons_head' = Succ(chead)
      /\ UNCHANGED <<prod_tail, chead, slots>>
  BY DEF AdvanceHead
<1>2. /\ {prod_tail, cons_head} \subseteq 0 .. MaxCalls
      /\ chead = cons_head /\ cons_head < prod_tail
  BY <1>t, <1>1, PositionBounds DEF ConsumerInv
<1>3. cons_head' = cons_head + 1
  BY <1>1, <1>2, SuccIsPlusOne
<1> DEFINE n == prod_tail - cons_head
           S == Item \cup {NoItem}
<1>5. /\ n \in Nat /\ n >= 1 /\ prod_tail - (cons_head + 1) = n - 1 /\ cons_head \in Nat
      /\ cons_head + 1 - 1 = cons_head
  BY <1>2, MaxCallsAssumption
<1>6. /\ Contents = [i \in 1 .. n |-> slots[Index(cons_head + i - 1)]]
      /\ Contents \in Seq(S) /\ Len(Contents) = n
  BY ContentsIsSeq
<1>7. Contents' = [i \in 1 .. (n - 1) |-> slots[Index(cons_head + 1 + i - 1)]]
  <2>1. prod_tail' \in 0 .. MaxCalls /\ cons_head' \in 0 .. MaxCalls /\ cons_head' <= prod_tail'
    BY <1>1, <1>2, <1>3, MaxCallsAssumption
  <2>2. Distance(cons_head', prod_tail') = prod_tail' - cons_head'
    BY <2>1, DistanceIsDifference
  <2>3. Distance(cons_head', prod_tail') = n - 1
    BY <1>1, <1>2, <1>3, <2>2
  <2> HIDE DEF n
  <2> QED BY <1>1, <1>3, <2>3 DEF Contents, Distance, Index
<1> HIDE DEF n, S
<1>8. Tail(Contents) = [i \in 1 .. (n - 1) |-> Contents[i + 1]]
  BY <1>5, <1>6
<1>9. \A i \in 1 .. (n - 1) : slots[Index(cons_head + 1 + i - 1)] = Contents[i + 1]
  <2> TAKE i \in 1 .. (n - 1)
  <2>1. i + 1 \in 1 .. n /\ cons_head + (i + 1) - 1 = cons_head + 1 + i - 1
    BY <1>5
  <2>2. Contents[i + 1] = slots[Index(cons_head + (i + 1) - 1)]
    BY <1>6, <2>1
  <2> QED BY <2>1, <2>2
<1>10. Contents' = Tail(Contents)
  BY <1>7, <1>8, <1>9
<1>11. Head(Contents) = slots[Index(cons_head)] /\ Contents # <<>>
  BY <1>5, <1>6
<1>12. Taken' = Head(Contents)
  BY <1>1, <1>2, <1>11 DEF Taken, Index
<1> QED BY <1>10, <1>11, <1>12 DEF Fifo!Take

\* Every step of the ring is a step of the queue or leaves it alone.
LEMMA StepSimulation ==
  IndInv /\ StoredInv /\ [Next]_vars => [Fifo!Next]_<<Contents, Taken>>
<1> SUFFICES ASSUME IndInv, StoredInv, [Next]_vars PROVE [Fifo!Next]_<<Contents, Taken>>
  OBVIOUS
<1>q. ASSUME UNCHANGED <<prod_tail, cons_head, slots, cpc, chead, result>>
      PROVE  Contents' = Contents /\ Taken' = Taken
  BY <1>q DEF Contents, Taken, Distance, Index
<1>1. ASSUME NEW p \in Producers, NEW v \in Item, EnqueueCall(p, v)
      PROVE  Contents' = Contents /\ Taken' = Taken
  <2>1. UNCHANGED <<prod_tail, cons_head, slots, cpc, chead, result>>
    BY <1>1 DEF EnqueueCall, ring, consumer
  <2> QED BY <1>q, <2>1
<1>2. ASSUME NEW p \in Producers, EnqueueStep(p), ~StoreItem(p), ~Publish(p)
      PROVE  Contents' = Contents /\ Taken' = Taken
  <2>1. UNCHANGED <<prod_tail, cons_head, slots, cpc, chead, result>>
    BY <1>2, Zenon DEF EnqueueStep, ReadHead, ReadTail, RecheckHead, RecheckTailChanged, RecheckTailFull,
                Reserve, AwaitTurn, ring, consumer
  <2> QED BY <1>q, <2>1, Zenon
<1>3. ASSUME NEW p \in Producers, Publish(p) PROVE Fifo!Next
  <2>1. item[p] \in Item
    BY <1>3, Zenon DEF StoredInv, Publish
  <2> QED BY <1>3, <2>1, PublishPuts, Zenon DEF Fifo!Next
<1>4. CASE DequeueCall
  <2>1. CASE Empty
    <3>1. /\ prod_tail = cons_head /\ result' = NoItem
          /\ UNCHANGED <<prod_tail, cons_head, slots, cpc, chead>> /\ cpc = "idle"
      BY <1>4, <2>1 DEF DequeueCall, Empty, ring
    <3>2. cons_head \in Int
      BY PositionBounds, MaxCallsAssumption
    <3>3. Contents \in Seq(Item \cup {NoItem}) /\ Len(Contents) = 0
      BY <3>1, <3>2, ContentsIsSeq
    <3>4. Contents = <<>>
      BY <3>3
    <3>5. Contents' = Contents
      BY <3>1 DEF Contents, Distance, Index
    <3>6. Taken' = NoItem
      BY <3>1 DEF Taken
    <3> QED BY <3>4, <3>5, <3>6 DEF Fifo!Next, Fifo!TakeNothing
  <2>2. CASE ~Empty
    <3>1. /\ UNCHANGED <<prod_tail, cons_head, slots, result>>
          /\ cpc = "idle" /\ cpc' = "advance"
      BY <1>4, <2>2 DEF DequeueCall, ring
    <3> QED BY <3>1 DEF Contents, Taken, Distance, Index
  <2> QED BY <2>1, <2>2
<1>5. CASE AdvanceHead
  BY <1>5, AdvanceTakes DEF Fifo!Next
<1>6. CASE LoadItem
  BY <1>6 DEF LoadItem, ring, Contents, Taken, Distance, Index
<1>7. CASE ReleaseSlot
  BY <1>7 DEF ReleaseSlot, Contents, Taken, Distance, Index
<1>8. CASE CountCall \/ CountReturn \/ Destroy \/ UNCHANGED vars
  <2>1. UNCHANGED <<prod_tail, cons_head, slots, cpc, chead, result>>
    BY <1>8, Zenon DEF CountCall, CountReturn, Destroy, vars, ring, consumer
  <2> QED BY <1>q, <2>1, Zenon
<1>9. ASSUME NEW p \in Producers, EnqueueStep(p) PROVE [Fifo!Next]_<<Contents, Taken>>
  BY <1>2, <1>3, <1>9, StoreIsInvisible
<1> QED BY <1>1, <1>4, <1>5, <1>6, <1>7, <1>8, <1>9 DEF Next, DequeueStep

\* Whatever the number of producers and the interleaving, sim_tailq is a first-in
\* first-out queue of Size - 1 items: an enqueue takes effect at the store of
\* prod_tail, a dequeue at the store of cons_head (ImplementsFifo).
THEOREM RingIsFifo == Spec => ImplementsFifo
<1>1. Init => Fifo!Init
  <2> SUFFICES ASSUME Init PROVE Fifo!Init
    OBVIOUS
  <2>1. IndInv
    BY InitInv
  <2>2. prod_tail = 0 /\ cons_head = 0 /\ cpc = "idle" /\ result = NoItem
    BY DEF Init
  <2>3. Contents \in Seq(Item \cup {NoItem}) /\ Len(Contents) = 0
    BY <2>1, <2>2, ContentsIsSeq
  <2> QED BY <2>2, <2>3 DEF Fifo!Init, Taken
<1>2. Init => StoredInv
  BY DEF Init, StoredInv
<1>3. Spec => []StoredInv
  BY <1>2, StoredStep, InductiveInvariant, PTL DEF Spec
<1> QED BY <1>1, <1>3, StepSimulation, InductiveInvariant, PTL DEF Spec, ImplementsFifo, Fifo!Spec
=============================================================================
